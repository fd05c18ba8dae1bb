----------------------------- MODULE AuditTrail -----------------------------
(***************************************************************************)
(* How a decision about somebody's authority becomes evidence.             *)
(*                                                                         *)
(* The service that decides writes the decision to a journal, in the       *)
(* transaction that carries it out, and a trigger queues it as pending.    *)
(* Workers (internal/auditdelivery) publish what is pending and delete it. *)
(* The audit service appends what it is delivered to a hash-chained log    *)
(* (services/audit), which it verifies and exports page by page.           *)
(*                                                                         *)
(* A decision stands for its journal row, its queue entry and its event.   *)
(***************************************************************************)
EXTENDS Integers, Sequences, FiniteSets, FiniteSetsExt

CONSTANTS
    Decisions,      \* 1..n: what is decided, by the sequence number of its row
    TenantOf,       \* the tenant a decision is about; tenants are numbers, too
    Unsendable,     \* rows the worker refuses: too long, malformed, misattributed
    Workers,        \* delivery workers, one in each replica of the deciding service
    Pods,           \* replicas of the audit service
    Batch,          \* rows a worker sends for a tenant in one scan (16)
    Readings,       \* what the audit service's clock may show, in nanoseconds
    Reader,         \* the tenant whose log is exported
    Limit,          \* records on a page
    MaxFaults,      \* failing calls and crashes in a behaviour
    None

ASSUME Auditing ==
    /\ IsFiniteSet(Decisions) /\ Decisions = 1..Cardinality(Decisions)
    /\ TenantOf \in [Decisions -> Nat \ {0}]
    /\ Unsendable \subseteq Decisions /\ None \notin Decisions
    /\ Workers # {}
    /\ Batch \in Nat \ {0} /\ Limit \in Nat \ {0} /\ MaxFaults \in Nat
    /\ Readings \subseteq Nat

VARIABLES
    journal,    \* the decisions whose transaction has committed
    pending,    \* the queue
    work,       \* a worker's place in Run
    notified,   \* the workers whose connection has a notification to read
    stored,     \* what the stream has ever stored
    due,        \* what the stream has yet to see acknowledged
    pod,        \* what a replica of the audit service is appending
    log,        \* audit_log, by seq
    export,     \* an export in progress, page by page
    faults

journalVars == <<journal, pending, notified>>
streamVars == <<stored, due>>
logVars == <<pod, log>>
vars == <<journalVars, work, streamVars, logVars, export, faults>>

-----------------------------------------------------------------------------
(***************************************************************************)
(* The chain. A hash is the sequence of everything hashed into it, so two  *)
(* hashes are equal only if their inputs are.                              *)
(***************************************************************************)
Genesis == <<>>

ChainNext(prev, canonical) == Append(prev, canonical)

\* Canonical covers the seq and the times of a record, to the nanosecond.
Canonical(r) == [seq |-> r.seq, event |-> r.event, at |-> r.at]

\* A TIMESTAMPTZ column keeps microseconds.
Timestamptz(at) == 1000 * (at \div 1000)

\* The records Verify finds fault with, of which it reports the first.
Broken(records) ==
    {i \in DOMAIN records :
        LET before == IF i = 1 THEN Genesis ELSE records[i - 1].hash IN
        \/ records[i].prev # before
        \/ records[i].hash # ChainNext(before, Canonical(records[i]))}

Logged == {log[i].event : i \in DOMAIN log}

-----------------------------------------------------------------------------
Down == [pc |-> "down", tenant |-> 0, n |-> 0, row |-> None, healthy |-> TRUE, busy |-> FALSE,
         since |-> {}]
Free == [event |-> None, seq |-> 0, prev |-> Genesis]
NoPage == [pc |-> "ask", after |-> 0, head |-> 0, broken |-> 0, pages |-> <<>>]

Init ==
    /\ journal = {} /\ pending = {} /\ notified = {}
    /\ work = [w \in Workers |-> Down]
    /\ stored = {} /\ due = {}
    /\ pod = [p \in Pods |-> Free]
    /\ log = <<>>
    /\ export = NoPage
    /\ faults = 0

Fault == faults < MaxFaults /\ faults' = faults + 1

-----------------------------------------------------------------------------
(***************************************************************************)
(* Deciding. A sequence number is taken when the row is inserted; the row, *)
(* its queue entry, its tenant's entry in the directory and a notification *)
(* appear when its transaction commits, in any order. A transaction that   *)
(* is rolled back is one that never commits.                               *)
(***************************************************************************)
Decide(d) ==
    /\ d \notin journal
    /\ journal' = journal \cup {d}
    /\ pending' = pending \cup {d}
    /\ notified' = notified \cup {w \in Workers : work[w].pc # "down"}
    /\ UNCHANGED <<work, streamVars, logVars, export, faults>>

-----------------------------------------------------------------------------
(***************************************************************************)
(* Delivering. A worker listens, then scans: tenant by tenant, in the      *)
(* order of the directory, at most Batch rows each, then the tenant's      *)
(* backlog. It scans again at once if it sent something and nothing        *)
(* failed, and waits for a notification or thirty seconds otherwise.       *)
(*                                                                         *)
(* Its metrics are its health and the size of the backlog it found. They   *)
(* vouch for a decision when the one is 1, the other 0, and the decision   *)
(* was committed before the scan: since holds the decisions the scan may   *)
(* yet vouch for.                                                          *)
(***************************************************************************)
NewScan(w) == work' = [work EXCEPT ![w] = [Down EXCEPT !.pc = "scan", !.since = journal]]

Listen(w) ==
    /\ work[w].pc = "down"
    /\ NewScan(w)
    /\ UNCHANGED <<journalVars, streamVars, logVars, export, faults>>

\* The directory's next tenant.
Ahead(w) == {TenantOf[d] : d \in journal} \ 0..work[w].tenant

NextTenant(w) ==
    /\ work[w].pc = "scan"
    /\ Ahead(w) # {}
    /\ work' = [work EXCEPT ![w].pc = "deliver", ![w].tenant = Min(Ahead(w)), ![w].n = 0]
    /\ UNCHANGED <<journalVars, streamVars, logVars, export, faults>>

\* Rows in the hands of another worker are passed over (SKIP LOCKED).
Rows(w) ==
    {d \in pending : TenantOf[d] = work[w].tenant /\ \A v \in Workers : work[v].row # d}

LockRow(w) ==
    /\ work[w].pc = "deliver"
    /\ Rows(w) # {}
    /\ work' = [work EXCEPT ![w].pc = "locked", ![w].row = Min(Rows(w))]
    /\ UNCHANGED <<journalVars, streamVars, logVars, export, faults>>

NoneLeft(w) ==
    /\ work[w].pc = "deliver"
    /\ Rows(w) = {}
    /\ work' = [work EXCEPT ![w].pc = "backlog"]
    /\ UNCHANGED <<journalVars, streamVars, logVars, export, faults>>

\* The stream drops an event it has stored within its duplicate window.
Store(d) ==
    /\ stored' = stored \cup {d}
    /\ \/ due' = due \cup {d}
       \/ d \in stored /\ due' = due

Publish(w) ==
    /\ work[w].pc = "locked"
    /\ work[w].row \notin Unsendable
    /\ Store(work[w].row)
    /\ work' = [work EXCEPT ![w].pc = "published"]
    /\ UNCHANGED <<journalVars, logVars, export, faults>>

\* An error in DeliverOne rolls its transaction back and ends the tenant's turn.
GivenUp(w) ==
    work' = [work EXCEPT ![w].pc = "backlog", ![w].row = None,
                            ![w].healthy = FALSE, ![w].since = {}]

Refuse(w) ==
    /\ work[w].pc = "locked"
    /\ work[w].row \in Unsendable
    /\ GivenUp(w)
    /\ UNCHANGED <<journalVars, streamVars, logVars, export, faults>>

\* A mutant: the error of the publication is not looked at.
DeliverFailsUnseen(w) ==
    /\ work[w].pc = "locked"
    /\ Fault
    /\ work' = [work EXCEPT ![w].pc = "published"]
    /\ UNCHANGED <<journalVars, streamVars, logVars, export>>

\* A call of DeliverOne fails before the deletion; if it was the publication,
\* that says nothing about whether the stream has the event.
DeliverFails(w) ==
    /\ work[w].pc \in {"deliver", "locked"}
    /\ Fault
    /\ GivenUp(w)
    /\ \/ UNCHANGED streamVars
       \/ work[w].row \notin Unsendable \cup {None} /\ Store(work[w].row)
    /\ UNCHANGED <<journalVars, logVars, export>>

DeleteRow(w) ==
    /\ work[w].pc = "published"
    /\ pending' = pending \ {work[w].row}
    /\ work' = [work EXCEPT ![w].pc = IF work[w].n + 1 < Batch THEN "deliver" ELSE "backlog",
                            ![w].row = None, ![w].n = @ + 1, ![w].busy = TRUE]
    /\ UNCHANGED <<journal, notified, streamVars, logVars, export, faults>>

\* The commit of the deletion fails, or only its answer is lost.
DeleteFails(w) ==
    /\ work[w].pc = "published"
    /\ Fault
    /\ GivenUp(w)
    /\ pending' \in {pending, pending \ {work[w].row}}
    /\ UNCHANGED <<journal, notified, streamVars, logVars, export>>

\* A tenant's backlog counts what other workers hold as well.
Backlog(w) ==
    LET left == \E d \in pending : TenantOf[d] = work[w].tenant IN
    /\ work[w].pc = "backlog"
    /\ work' = [work EXCEPT ![w].pc = "scan", ![w].since = IF left THEN {} ELSE @]
    /\ UNCHANGED <<journalVars, streamVars, logVars, export, faults>>

Wait(w, healthy) == work' = [work EXCEPT ![w] = [Down EXCEPT !.pc = "wait", !.healthy = healthy]]

LastTenant(w) ==
    /\ work[w].pc = "scan"
    /\ Ahead(w) = {}
    /\ work' = [work EXCEPT ![w].pc = "end"]
    /\ UNCHANGED <<journalVars, streamVars, logVars, export, faults>>

\* A mutant: a worker that is going to wait forgets what it was notified of.
EndScanForgets(w) ==
    /\ work[w].pc = "end"
    /\ IF work[w].healthy /\ work[w].busy THEN NewScan(w) ELSE Wait(w, work[w].healthy)
    /\ notified' = notified \ {w}
    /\ UNCHANGED <<journal, pending, streamVars, logVars, export, faults>>

\* The metrics are set, and the worker scans again or waits.
EndScan(w) ==
    /\ work[w].pc = "end"
    /\ IF work[w].healthy /\ work[w].busy THEN NewScan(w) ELSE Wait(w, work[w].healthy)
    /\ UNCHANGED <<journalVars, streamVars, logVars, export, faults>>

\* The broker is away when the scan ends.
EndCutOff(w) ==
    /\ work[w].pc = "end"
    /\ Fault
    /\ Wait(w, FALSE)
    /\ UNCHANGED <<journalVars, streamVars, logVars, export>>

\* A mutant: a directory that cannot be read is taken for one that has ended.
DirectoryFailsAsEnd(w) ==
    /\ work[w].pc = "scan"
    /\ Fault
    /\ work' = [work EXCEPT ![w].pc = "end"]
    /\ UNCHANGED <<journalVars, streamVars, logVars, export>>

\* The rest of a scan whose directory cannot be read is given up.
DirectoryFails(w) ==
    /\ work[w].pc = "scan"
    /\ Fault
    /\ work' = [work EXCEPT ![w].pc = "end", ![w].healthy = FALSE, ![w].since = {}]
    /\ UNCHANGED <<journalVars, streamVars, logVars, export>>

BacklogFails(w) ==
    /\ work[w].pc = "backlog"
    /\ Fault
    /\ work' = [work EXCEPT ![w].pc = "scan", ![w].healthy = FALSE, ![w].since = {}]
    /\ UNCHANGED <<journalVars, streamVars, logVars, export>>

\* A notification, or thirty seconds without one.
Wake(w) ==
    /\ work[w].pc = "wait"
    /\ notified' = notified \ {w}
    /\ NewScan(w)
    /\ UNCHANGED <<journal, pending, streamVars, logVars, export, faults>>

\* A lost connection of the listener ends the process as a crash does.
CrashWorker(w) ==
    /\ work[w].pc # "down"
    /\ Fault
    /\ work' = [work EXCEPT ![w] = Down]
    /\ notified' = notified \ {w}
    /\ UNCHANGED <<journal, pending, streamVars, logVars, export>>

DeliverOne(w) == LockRow(w) \/ NoneLeft(w) \/ Publish(w) \/ Refuse(w) \/ DeleteRow(w)
Run(w) ==
    \/ Listen(w) \/ NextTenant(w) \/ DeliverOne(w) \/ Backlog(w)
    \/ LastTenant(w) \/ EndScan(w) \/ Wake(w)
Fails(w) ==
    \/ DeliverFails(w) \/ DeleteFails(w) \/ BacklogFails(w)
    \/ DirectoryFails(w) \/ EndCutOff(w) \/ CrashWorker(w)

-----------------------------------------------------------------------------
(***************************************************************************)
(* Appending. A message is delivered until it is acknowledged, and late or *)
(* twice as well. Append locks, looks for the event, reads the head and    *)
(* inserts; the table refuses a seq or an event it has. The lock is held   *)
(* to the end of the transaction.                                          *)
(***************************************************************************)
Unlocked == \A p \in Pods : pod[p] = Free

Existing(d) ==
    /\ d \in stored /\ Unlocked
    /\ d \in Logged
    /\ due' = due \ {d}
    /\ UNCHANGED <<journalVars, work, stored, logVars, export, faults>>

ReadHead(p, d) ==
    /\ d \in stored /\ Unlocked /\ pod[p] = Free
    /\ d \notin Logged
    /\ pod' = [pod EXCEPT ![p] =
        [event |-> d, seq |-> Len(log) + 1,
         prev |-> IF log = <<>> THEN Genesis ELSE log[Len(log)].hash]]
    /\ UNCHANGED <<journalVars, work, streamVars, log, export, faults>>

\* A mutant: the hash is taken before the seq is set.
HashedUnplaced(p, at) == Canonical([seq |-> 0, event |-> pod[p].event, at |-> at])

\* The content under a record's hash.
Hashed(p, at) == Canonical([seq |-> pod[p].seq, event |-> pod[p].event, at |-> at])

InsertRecord(p) ==
    /\ pod[p] # Free
    /\ pod[p].seq = Len(log) + 1 /\ pod[p].event \notin Logged
    /\ \E at \in Readings :
        log' = Append(log, [seq |-> pod[p].seq, event |-> pod[p].event, at |-> Timestamptz(at),
                            prev |-> pod[p].prev, hash |-> ChainNext(pod[p].prev, Hashed(p, at))])
    /\ pod' = [pod EXCEPT ![p] = Free]
    /\ due' \in {due, due \ {pod[p].event}}
    /\ UNCHANGED <<journalVars, work, stored, export, faults>>

\* A call of Append fails, or the replica does; the message is delivered again.
HandleFails(p) ==
    /\ pod[p] # Free
    /\ Fault
    /\ pod' = [pod EXCEPT ![p] = Free]
    /\ UNCHANGED <<journalVars, work, streamVars, log, export>>

-----------------------------------------------------------------------------
(***************************************************************************)
(* Exporting. A page is one request: the chain is verified in one scan,    *)
(* the page is read in a later one, up to the head of the first. Records   *)
(* are named by their seq, and those of a page are in the order of it.     *)
(***************************************************************************)
Verify ==
    /\ export.pc = "ask"
    /\ export' = [export EXCEPT !.pc = "query", !.head = Len(log),
        !.broken = IF Broken(log) = {} THEN 0 ELSE Min(Broken(log))]
    /\ UNCHANGED <<journalVars, work, streamVars, logVars, faults>>

\* A mutant: the page is not held to the prefix that was verified.
SelectedBeyond ==
    {s \in DOMAIN log : TenantOf[log[s].event] = Reader /\ export.after < s}

\* The rows the query selects, the first Limit + 1 of them read.
Selected ==
    {s \in DOMAIN log : /\ TenantOf[log[s].event] = Reader
                        /\ export.after < s /\ s <= export.head}

\* The first Limit of them.
Page == {s \in Selected : Cardinality({t \in Selected : t <= s}) <= Limit}

QueryPage ==
    LET more == Page # Selected IN
    /\ export.pc = "query"
    /\ export' = [export EXCEPT !.pc = IF more THEN "ask" ELSE "complete",
                                !.after = IF more THEN Max(Page) ELSE @,
                                !.pages = Append(@, Page)]
    /\ UNCHANGED <<journalVars, work, streamVars, logVars, faults>>

-----------------------------------------------------------------------------
Next ==
    \/ Verify \/ QueryPage
    \/ \E d \in Decisions : Decide(d) \/ Existing(d)
    \/ \E w \in Workers : Run(w) \/ Fails(w)
    \/ \E p \in Pods : InsertRecord(p) \/ HandleFails(p) \/ \E d \in Decisions : ReadHead(p, d)

Spec == Init /\ [][Next]_vars

-----------------------------------------------------------------------------
(***************************************************************************)
(* Evidence is kept, and none is made up: a decision that took effect is   *)
(* queued, or in the stream, or in the log, whatever fails between them,   *)
(* and one that was undone is in neither (worker.go: "A transaction locks  *)
(* one pending record through publish/ack/delete; a crash rolls back the   *)
(* deletion").                                                             *)
(***************************************************************************)
EvidenceKept ==
    /\ journal \subseteq pending \cup due \cup Logged
    /\ due \cup Logged \subseteq journal

(***************************************************************************)
(* Nothing waits for the timer: when every worker waits, having finished a *)
(* scan in which nothing failed, and none has a notification to read, the  *)
(* queue is empty (Run: "registers LISTEN before scanning, so committed    *)
(* wakeups cannot fall between the initial scan and subscription").        *)
(***************************************************************************)
QuietMeansDrained ==
    (\A w \in Workers : work[w].pc = "wait" /\ work[w].healthy /\ w \notin notified)
        => pending = {}

(***************************************************************************)
(* An export that says it is complete is the tenant's log up to the head   *)
(* last verified, each record once and in order, although records are      *)
(* appended between its pages and between the verification and the query   *)
(* of a page (handleReport: "a page boundary can neither skip nor repeat a *)
(* record").                                                               *)
(***************************************************************************)
ExportIsWhole ==
    export.pc = "complete" =>
        /\ UNION {export.pages[i] : i \in DOMAIN export.pages}
              = {s \in 1..export.head : TenantOf[log[s].event] = Reader}
        /\ \A i, j \in DOMAIN export.pages :
            i < j => \A s \in export.pages[i], t \in export.pages[j] : s < t

(***************************************************************************)
(* Appends of two replicas never fork the chain: a record Verify finds     *)
(* fault with follows its predecessor, and is what was hashed but for its  *)
(* time, which was cut to fit its column (Append: "Serialize the           *)
(* read-head->insert so concurrent appends can't fork the chain").         *)
(***************************************************************************)
BrokenOnlyByRounding ==
    LET r == log[export.broken] IN
    export.broken # 0 =>
        /\ r.prev = IF r.seq = 1 THEN Genesis ELSE log[r.seq - 1].hash
        /\ \E at \in Readings :
            /\ at # r.at /\ Timestamptz(at) = r.at
            /\ r.hash = ChainNext(r.prev, Canonical([r EXCEPT !.at = at]))

(***************************************************************************)
(* The metrics are to be trusted: what a worker that reports itself        *)
(* healthy and without a backlog vouches for has left the queue, by        *)
(* whichever worker (the gauges of New: "Pending records observed across   *)
(* the last complete tenant scan").                                        *)
(***************************************************************************)
MetricsAreTrue ==
    \A w \in Workers : work[w].pc = "end" => work[w].since \cap pending = {}
=============================================================================
