-------------------------- MODULE AuditTrailProof --------------------------
(***************************************************************************)
(* Proofs about AuditTrail, for any decisions, tenants, workers, replicas  *)
(* of the audit service, batch and page sizes, clocks and failures.        *)
(***************************************************************************)
EXTENDS AuditTrail, TLAPS

-----------------------------------------------------------------------------
(* Types.                                                                  *)

Stages == {"down", "scan", "deliver", "locked", "published", "backlog", "end", "wait"}

WorkType ==
    [pc : Stages, tenant : Nat, n : Nat, row : Decisions \cup {None},
     healthy : BOOLEAN, busy : BOOLEAN, since : SUBSET Decisions]

Hashes == Seq([seq : Nat, event : Decisions, at : Nat])

PodType == [event : Decisions \cup {None}, seq : Nat, prev : Hashes]

RecordType == [seq : Nat, event : Decisions, at : Nat, prev : Hashes, hash : Hashes]

ExportType ==
    [pc : {"ask", "query", "complete"}, after : Nat, head : Nat, broken : Nat,
     pages : Seq(SUBSET Nat)]

TypeOK ==
    /\ journal \in SUBSET Decisions /\ pending \in SUBSET Decisions
    /\ notified \in SUBSET Workers
    /\ work \in [Workers -> WorkType]
    /\ stored \in SUBSET Decisions /\ due \in SUBSET Decisions
    /\ pod \in [Pods -> PodType]
    /\ log \in Seq(RecordType)
    /\ export \in ExportType
    /\ faults \in Nat

-----------------------------------------------------------------------------
(* The steps of a worker.                                                  *)

Worked(w) == work' \in [Workers -> WorkType] /\ \A v \in Workers \ {w} : work'[v] = work[v]

\* The records a step leaves its worker with.
Scanning == [Down EXCEPT !.pc = "scan", !.since = journal]
Waiting(healthy) == [Down EXCEPT !.pc = "wait", !.healthy = healthy]
Turned(w) == [work[w] EXCEPT !.pc = "deliver", !.tenant = Min(Ahead(w)), !.n = 0]
Locked(w) == [work[w] EXCEPT !.pc = "locked", !.row = Min(Rows(w))]
At(w, pc) == [work[w] EXCEPT !.pc = pc]
Dropped(w) ==
    [work[w] EXCEPT !.pc = "backlog", !.row = None, !.healthy = FALSE, !.since = {}]
Deleted(w) ==
    [work[w] EXCEPT !.pc = IF work[w].n + 1 < Batch THEN "deliver" ELSE "backlog",
                    !.row = None, !.n = work[w].n + 1, !.busy = TRUE]
Counted(w) ==
    [work[w] EXCEPT !.pc = "scan",
                    !.since = IF \E d \in pending : TenantOf[d] = work[w].tenant
                                THEN {} ELSE work[w].since]
Stopped(w, pc) == [work[w] EXCEPT !.pc = pc, !.healthy = FALSE, !.since = {}]

Becomes(w, r) == r \in WorkType /\ work' = [work EXCEPT ![w] = r]

\* What is used of finite sets below: the tenants ahead of a worker, the rows
\* it may lock and the broken records have a least one, and a page is the
\* selected records up to the last of it.  LeastsHold proves it, where the
\* facts about finite sets are at hand.
Leasts ==
    /\ \A w \in Workers : Ahead(w) # {} =>
        /\ Min(Ahead(w)) \in Nat /\ work[w].tenant < Min(Ahead(w))
        /\ \A d \in journal : work[w].tenant < TenantOf[d] => Min(Ahead(w)) <= TenantOf[d]
    /\ \A w \in Workers : Rows(w) # {} => Min(Rows(w)) \in Rows(w) /\ Min(Rows(w)) \in Decisions
    /\ Broken(log) # {} => Min(Broken(log)) \in Broken(log)
    /\ Selected # {} => Max(Page) \in Selected /\ Page = {s \in Selected : s <= Max(Page)}

\* What each step of a worker does to its record.
LEMMA Effects ==
    ASSUME TypeOK, Leasts, NEW w \in Workers
    PROVE  /\ Listen(w) => Becomes(w, Scanning)
           /\ Wake(w) => Becomes(w, Scanning)
           /\ NextTenant(w) => Becomes(w, Turned(w))
           /\ LockRow(w) => Becomes(w, Locked(w))
           /\ NoneLeft(w) => Becomes(w, At(w, "backlog"))
           /\ Publish(w) => Becomes(w, At(w, "published"))
           /\ Refuse(w) => Becomes(w, Dropped(w))
           /\ DeliverFails(w) => Becomes(w, Dropped(w))
           /\ DeleteRow(w) => Becomes(w, Deleted(w))
           /\ DeleteFails(w) => Becomes(w, Dropped(w))
           /\ Backlog(w) => Becomes(w, Counted(w))
           /\ LastTenant(w) => Becomes(w, At(w, "end"))
           /\ EndCutOff(w) => Becomes(w, Waiting(FALSE))
           /\ DirectoryFails(w) => Becomes(w, Stopped(w, "end"))
           /\ BacklogFails(w) => Becomes(w, Stopped(w, "scan"))
           /\ CrashWorker(w) => Becomes(w, Down)
           /\ EndScan(w) => \/ Becomes(w, Scanning)
                         \/ /\ ~(work[w].healthy /\ work[w].busy)
                            /\ Becomes(w, Waiting(work[w].healthy))
<1> USE DEF Becomes, TypeOK
<1>1. work[w] \in WorkType
    OBVIOUS
<1>2. Down \in WorkType /\ Scanning \in WorkType
    BY Zenon DEF Down, Scanning, WorkType, Stages
<1>3. \A h \in BOOLEAN : Waiting(h) \in WorkType
    BY Zenon DEF Down, Waiting, WorkType, Stages
<1>4. \A pc \in Stages : At(w, pc) \in WorkType /\ Stopped(w, pc) \in WorkType
    BY Zenon DEF At, Stopped, WorkType
<1>5. Dropped(w) \in WorkType /\ Counted(w) \in WorkType
    BY Zenon DEF Dropped, Counted, WorkType, Stages
<1>6. Deleted(w) \in WorkType
  <2> DEFINE pc == IF work[w].n + 1 < Batch THEN "deliver" ELSE "backlog"
             m == work[w].n + 1
             r == [work[w] EXCEPT !.pc = pc, !.row = None, !.n = m, !.busy = TRUE]
  <2>1. pc \in Stages /\ m \in Nat
    BY DEF Stages, WorkType
  <2>2. Deleted(w) = r
    BY DEF Deleted
  <2>3. r \in WorkType
    <3> HIDE DEF pc, m, TypeOK
    <3> QED BY Zenon, <1>1, <2>1 DEF WorkType
  <2> HIDE DEF r
  <2> QED BY <2>2, <2>3
<1>7. Ahead(w) # {} => Turned(w) \in WorkType
    BY Zenon DEF Turned, WorkType, Stages, Leasts
<1>8. Rows(w) # {} => Locked(w) \in WorkType
    BY Zenon DEF Locked, WorkType, Stages, Leasts
<1>10. Listen(w) => Becomes(w, Scanning)
    BY <1>1, <1>2, <1>3, <1>4, <1>5, <1>6, <1>7, <1>8 DEF Listen, NewScan, Scanning
<1>11. Wake(w) => Becomes(w, Scanning)
    BY <1>1, <1>2, <1>3, <1>4, <1>5, <1>6, <1>7, <1>8 DEF Wake, NewScan, Scanning
<1>12. NextTenant(w) => Becomes(w, Turned(w))
    BY Zenon, <1>1, <1>2, <1>3, <1>4, <1>5, <1>6, <1>7, <1>8 DEF NextTenant, Turned
<1>13. LockRow(w) => Becomes(w, Locked(w))
    BY Zenon, <1>1, <1>2, <1>3, <1>4, <1>5, <1>6, <1>7, <1>8 DEF LockRow, Locked
<1>14. NoneLeft(w) => Becomes(w, At(w, "backlog"))
    BY <1>1, <1>2, <1>3, <1>4, <1>5, <1>6, <1>7, <1>8 DEF NoneLeft, At, Stages
<1>15. Publish(w) => Becomes(w, At(w, "published"))
    BY <1>1, <1>2, <1>3, <1>4, <1>5, <1>6, <1>7, <1>8 DEF Publish, At, Stages
<1>16. Refuse(w) => Becomes(w, Dropped(w))
    BY Zenon, <1>1, <1>2, <1>3, <1>4, <1>5, <1>6, <1>7, <1>8 DEF Refuse, GivenUp, Dropped
<1>17. DeliverFails(w) => Becomes(w, Dropped(w))
    BY Zenon, <1>1, <1>2, <1>3, <1>4, <1>5, <1>6, <1>7, <1>8 DEF DeliverFails, GivenUp, Dropped
<1>18. DeleteRow(w) => Becomes(w, Deleted(w))
    BY Zenon, <1>1, <1>2, <1>3, <1>4, <1>5, <1>6, <1>7, <1>8 DEF DeleteRow, Deleted
<1>19. DeleteFails(w) => Becomes(w, Dropped(w))
    BY Zenon, <1>1, <1>2, <1>3, <1>4, <1>5, <1>6, <1>7, <1>8 DEF DeleteFails, GivenUp, Dropped
<1>20. Backlog(w) => Becomes(w, Counted(w))
    BY Zenon, <1>1, <1>2, <1>3, <1>4, <1>5, <1>6, <1>7, <1>8 DEF Backlog, Counted
<1>21. LastTenant(w) => Becomes(w, At(w, "end"))
    BY <1>1, <1>2, <1>3, <1>4, <1>5, <1>6, <1>7, <1>8 DEF LastTenant, At, Stages
<1>22. EndCutOff(w) => Becomes(w, Waiting(FALSE))
    BY Zenon, <1>1, <1>2, <1>3, <1>4, <1>5, <1>6, <1>7, <1>8 DEF EndCutOff, Wait, Waiting
<1>23. DirectoryFails(w) => Becomes(w, Stopped(w, "end"))
    BY Zenon, <1>1, <1>2, <1>3, <1>4, <1>5, <1>6, <1>7, <1>8 DEF DirectoryFails, Stopped, Stages
<1>24. BacklogFails(w) => Becomes(w, Stopped(w, "scan"))
    BY Zenon, <1>1, <1>2, <1>3, <1>4, <1>5, <1>6, <1>7, <1>8 DEF BacklogFails, Stopped, Stages
<1>25. CrashWorker(w) => Becomes(w, Down)
    BY <1>1, <1>2, <1>3, <1>4, <1>5, <1>6, <1>7, <1>8 DEF CrashWorker
<1>26. EndScan(w) => \/ Becomes(w, Scanning)
                      \/ /\ ~(work[w].healthy /\ work[w].busy)
                         /\ Becomes(w, Waiting(work[w].healthy))
  <2>1. work[w].healthy \in BOOLEAN BY DEF WorkType
  <2> QED BY Zenon, <1>2, <1>3, <2>1 DEF EndScan, NewScan, Wait, Scanning, Waiting
<1> QED BY Zenon, <1>10, <1>11, <1>12, <1>13, <1>14, <1>15, <1>16, <1>17, <1>18, <1>19, <1>20,
           <1>21, <1>22, <1>23, <1>24, <1>25, <1>26
-----------------------------------------------------------------------------
(***************************************************************************)
(* The invariant of the journal and the workers. A row is locked by one    *)
(* worker at most; what has left the queue is in the stream, and what has  *)
(* left the stream is in the log; what is pending is ahead of some worker, *)
(* or some worker will scan again; what a scan may yet vouch for and is    *)
(* still pending is ahead of it.                                           *)
(***************************************************************************)
RowOK(w) ==
    /\ work[w].row # None => work[w].pc \in {"locked", "published"}
    /\ work[w].pc \in {"locked", "published"} =>
        work[w].row \in journal /\ TenantOf[work[w].row] = work[w].tenant
    /\ work[w].pc = "published" => work[w].row \in stored

RowInv ==
    /\ \A w \in Workers : RowOK(w)
    /\ \A v, w \in Workers : v # w /\ work[v].row # None => work[v].row # work[w].row

StreamInv ==
    /\ pending \subseteq journal /\ stored \subseteq journal
    /\ due \subseteq stored /\ Logged \subseteq stored
    /\ journal \subseteq pending \cup stored
    /\ stored \subseteq due \cup Logged

Covers(w, d) ==
    \/ work[w].pc = "down" \/ w \in notified
    \/ ~work[w].healthy
    \/ work[w].busy /\ work[w].pc # "wait"
    \/ work[w].pc \in {"deliver", "locked", "published"} /\ work[w].tenant <= TenantOf[d]
    \/ work[w].pc \in {"scan", "backlog"} /\ work[w].tenant < TenantOf[d]

CoverInv == \A d \in pending : \E w \in Workers : Covers(w, d)

Vouches(w) ==
    /\ work[w].since \subseteq journal
    /\ \A d \in work[w].since \cap pending :
        /\ work[w].pc = "scan" => work[w].tenant < TenantOf[d]
        /\ work[w].pc \in {"deliver", "locked", "published", "backlog"} =>
            work[w].tenant <= TenantOf[d]
        /\ work[w].pc # "end"

VouchInv == \A w \in Workers : Vouches(w)

WorkInv == RowInv /\ StreamInv /\ CoverInv /\ VouchInv

(***************************************************************************)
(* The invariant of the log: every record follows its predecessor and was  *)
(* hashed at a reading of the clock its column was cut from; one replica   *)
(* at most is appending, after the last record; a record reported broken   *)
(* is broken, for a record never changes.                                  *)
(***************************************************************************)
LastHash == IF log = <<>> THEN Genesis ELSE log[Len(log)].hash

Before(i) == IF i = 1 THEN Genesis ELSE log[i - 1].hash

Chained(i) ==
    /\ log[i].seq = i
    /\ log[i].prev = Before(i)
    /\ \E at \in Readings :
        /\ log[i].at = Timestamptz(at)
        /\ log[i].hash = ChainNext(log[i].prev,
                                   [seq |-> log[i].seq, event |-> log[i].event, at |-> at])

ChainInv == \A i \in DOMAIN log : Chained(i)

PodInv ==
    \A p \in Pods : pod[p] # Free =>
        /\ pod[p].event \in stored
        /\ pod[p].seq = Len(log) + 1 /\ pod[p].prev = LastHash
        /\ \A q \in Pods \ {p} : pod[q] = Free

BrokenInv == export.broken # 0 => export.broken \in Broken(log)

(***************************************************************************)
(* The invariant of an export: the pages so far are the tenant's records   *)
(* up to the cursor, in order.                                             *)
(***************************************************************************)
Mine(h) == {s \in 1..h : TenantOf[log[s].event] = Reader}

Exported == UNION {export.pages[i] : i \in DOMAIN export.pages}

Ascending ==
    \A i, j \in DOMAIN export.pages :
        i < j => \A s \in export.pages[i], t \in export.pages[j] : s < t

PageInv ==
    /\ export.after <= Len(log) /\ export.head <= Len(log)
    /\ export.pc = "query" => export.after <= export.head
    /\ Exported = Mine(IF export.pc = "complete" THEN export.head ELSE export.after)
    /\ Ascending

LogInv == ChainInv /\ PodInv /\ BrokenInv /\ PageInv

AuditInv == TypeOK /\ WorkInv /\ LogInv

\* A step of a worker moves it alone.
LEMMA Moved ==
    ASSUME TypeOK, NEW w \in Workers, NEW r, Becomes(w, r)
    PROVE  Worked(w) /\ work'[w] = r
BY DEF Becomes, TypeOK, Worked

Now(w, pc, tenant, row, healthy, busy, since) ==
    LET r == work'[w] IN
    /\ r.pc = pc /\ r.tenant = tenant /\ r.row = row
    /\ r.healthy = healthy /\ r.busy = busy /\ r.since = since

\* The same, field by field.
LEMMA Results ==
    ASSUME TypeOK, Leasts, NEW w \in Workers
    PROVE  LET r == work[w] IN
           /\ Listen(w) => Now(w, "scan", 0, None, TRUE, FALSE, journal)
           /\ Wake(w) => Now(w, "scan", 0, None, TRUE, FALSE, journal)
           /\ NextTenant(w) => Now(w, "deliver", Min(Ahead(w)), r.row, r.healthy, r.busy, r.since)
           /\ LockRow(w) => Now(w, "locked", r.tenant, Min(Rows(w)), r.healthy, r.busy, r.since)
           /\ NoneLeft(w) => Now(w, "backlog", r.tenant, r.row, r.healthy, r.busy, r.since)
           /\ Publish(w) => Now(w, "published", r.tenant, r.row, r.healthy, r.busy, r.since)
           /\ Refuse(w) => Now(w, "backlog", r.tenant, None, FALSE, r.busy, {})
           /\ DeliverFails(w) => Now(w, "backlog", r.tenant, None, FALSE, r.busy, {})
           /\ DeleteRow(w) => \E pc \in {"deliver", "backlog"} :
             Now(w, pc, r.tenant, None, r.healthy, TRUE, r.since)
           /\ DeleteFails(w) => Now(w, "backlog", r.tenant, None, FALSE, r.busy, {})
           /\ Backlog(w) =>
             \/ Now(w, "scan", r.tenant, r.row, r.healthy, r.busy, {})
             \/ /\ \A d \in pending : TenantOf[d] # r.tenant
                /\ Now(w, "scan", r.tenant, r.row, r.healthy, r.busy, r.since)
           /\ LastTenant(w) => Now(w, "end", r.tenant, r.row, r.healthy, r.busy, r.since)
           /\ EndCutOff(w) => Now(w, "wait", 0, None, FALSE, FALSE, {})
           /\ DirectoryFails(w) => Now(w, "end", r.tenant, r.row, FALSE, r.busy, {})
           /\ BacklogFails(w) => Now(w, "scan", r.tenant, r.row, FALSE, r.busy, {})
           /\ CrashWorker(w) => Now(w, "down", 0, None, TRUE, FALSE, {})
           /\ EndScan(w) => \/ Now(w, "scan", 0, None, TRUE, FALSE, journal)
                          \/ /\ ~(r.healthy /\ r.busy)
                             /\ Now(w, "wait", 0, None, r.healthy, FALSE, {})
<1>0. work[w] \in WorkType
    BY DEF TypeOK
<1>1. Listen(w) => Now(w, "scan", 0, None, TRUE, FALSE, journal)
  <2>1. Listen(w) => work'[w] = Scanning BY Zenon, Effects, Moved
  <2> QED BY Zenon, <1>0, <2>1 DEF Now, Scanning, Down, WorkType
<1>2. Wake(w) => Now(w, "scan", 0, None, TRUE, FALSE, journal)
  <2>1. Wake(w) => work'[w] = Scanning BY Zenon, Effects, Moved
  <2> QED BY Zenon, <1>0, <2>1 DEF Now, Scanning, Down, WorkType
<1>3. NextTenant(w) => Now(w, "deliver", Min(Ahead(w)), work[w].row, work[w].healthy, work[w].busy, work[w].since)
  <2>1. NextTenant(w) => work'[w] = Turned(w) BY Zenon, Effects, Moved
  <2> QED BY Zenon, <1>0, <2>1 DEF Now, Turned, WorkType
<1>4. LockRow(w) => Now(w, "locked", work[w].tenant, Min(Rows(w)), work[w].healthy, work[w].busy, work[w].since)
  <2>1. LockRow(w) => work'[w] = Locked(w) BY Zenon, Effects, Moved
  <2> QED BY Zenon, <1>0, <2>1 DEF Now, Locked, WorkType
<1>5. NoneLeft(w) => Now(w, "backlog", work[w].tenant, work[w].row, work[w].healthy, work[w].busy, work[w].since)
  <2>1. NoneLeft(w) => work'[w] = At(w, "backlog") BY Zenon, Effects, Moved
  <2> QED BY <1>0, <2>1 DEF Now, At, WorkType
<1>6. Publish(w) => Now(w, "published", work[w].tenant, work[w].row, work[w].healthy, work[w].busy, work[w].since)
  <2>1. Publish(w) => work'[w] = At(w, "published") BY Zenon, Effects, Moved
  <2> QED BY <1>0, <2>1 DEF Now, At, WorkType
<1>7. Refuse(w) => Now(w, "backlog", work[w].tenant, None, FALSE, work[w].busy, {})
  <2>1. Refuse(w) => work'[w] = Dropped(w) BY Zenon, Effects, Moved
  <2> QED BY Zenon, <1>0, <2>1 DEF Now, Dropped, WorkType
<1>8. DeliverFails(w) => Now(w, "backlog", work[w].tenant, None, FALSE, work[w].busy, {})
  <2>1. DeliverFails(w) => work'[w] = Dropped(w) BY Zenon, Effects, Moved
  <2> QED BY Zenon, <1>0, <2>1 DEF Now, Dropped, WorkType
<1>9. DeleteRow(w) => \E pc \in {"deliver", "backlog"} :
             Now(w, pc, work[w].tenant, None, work[w].healthy, TRUE, work[w].since)
  <2>1. DeleteRow(w) => work'[w] = Deleted(w) BY Zenon, Effects, Moved
  <2> QED BY Zenon, <1>0, <2>1 DEF Now, Deleted, WorkType
<1>10. DeleteFails(w) => Now(w, "backlog", work[w].tenant, None, FALSE, work[w].busy, {})
  <2>1. DeleteFails(w) => work'[w] = Dropped(w) BY Zenon, Effects, Moved
  <2> QED BY Zenon, <1>0, <2>1 DEF Now, Dropped, WorkType
<1>11. Backlog(w) =>
             \/ Now(w, "scan", work[w].tenant, work[w].row, work[w].healthy, work[w].busy, {})
             \/ /\ \A d \in pending : TenantOf[d] # work[w].tenant
                /\ Now(w, "scan", work[w].tenant, work[w].row, work[w].healthy, work[w].busy, work[w].since)
  <2>1. Backlog(w) => work'[w] = Counted(w) BY Zenon, Effects, Moved
  <2> QED BY Zenon, <1>0, <2>1 DEF Now, Counted, WorkType
<1>12. LastTenant(w) => Now(w, "end", work[w].tenant, work[w].row, work[w].healthy, work[w].busy, work[w].since)
  <2>1. LastTenant(w) => work'[w] = At(w, "end") BY Zenon, Effects, Moved
  <2> QED BY <1>0, <2>1 DEF Now, At, WorkType
<1>13. EndCutOff(w) => Now(w, "wait", 0, None, FALSE, FALSE, {})
  <2>1. EndCutOff(w) => work'[w] = Waiting(FALSE) BY Zenon, Effects, Moved
  <2> QED BY Zenon, <1>0, <2>1 DEF Now, Waiting, Down, WorkType
<1>14. DirectoryFails(w) => Now(w, "end", work[w].tenant, work[w].row, FALSE, work[w].busy, {})
  <2>1. DirectoryFails(w) => work'[w] = Stopped(w, "end") BY Zenon, Effects, Moved
  <2> QED BY Zenon, <1>0, <2>1 DEF Now, Stopped, WorkType
<1>15. BacklogFails(w) => Now(w, "scan", work[w].tenant, work[w].row, FALSE, work[w].busy, {})
  <2>1. BacklogFails(w) => work'[w] = Stopped(w, "scan") BY Zenon, Effects, Moved
  <2> QED BY Zenon, <1>0, <2>1 DEF Now, Stopped, WorkType
<1>16. CrashWorker(w) => Now(w, "down", 0, None, TRUE, FALSE, {})
  <2>1. CrashWorker(w) => work'[w] = Down BY Zenon, Effects, Moved
  <2> QED BY <1>0, <2>1 DEF Now, Down, WorkType
<1>17. EndScan(w) => \/ Now(w, "scan", 0, None, TRUE, FALSE, journal)
                          \/ /\ ~(work[w].healthy /\ work[w].busy)
                             /\ Now(w, "wait", 0, None, work[w].healthy, FALSE, {})
  <2>1. EndScan(w) => \/ work'[w] = Scanning
                      \/ /\ ~(work[w].healthy /\ work[w].busy)
                         /\ work'[w] = Waiting(work[w].healthy)
    BY Zenon, Effects, Moved
  <2>2. Now(w, "scan", 0, None, TRUE, FALSE, journal) \/ work'[w] # Scanning
    BY Zenon DEF Now, Scanning, Down
  <2>3. work'[w] = Waiting(work[w].healthy) => Now(w, "wait", 0, None, work[w].healthy, FALSE, {})
    BY DEF Now, Waiting, Down
  <2> QED BY Zenon, <2>1, <2>2, <2>3
<1> QED BY Zenon, <1>1, <1>2, <1>3, <1>4, <1>5, <1>6, <1>7, <1>8, <1>9, <1>10, <1>11, <1>12,
           <1>13, <1>14, <1>15, <1>16, <1>17

\* What a step of a worker leaves alone.
LEMMA WorkerFrame ==
    ASSUME TypeOK, Leasts, NEW w \in Workers, Run(w) \/ Fails(w)
    PROVE  /\ Worked(w)
           /\ journal' = journal /\ pending' \subseteq pending
           /\ stored \subseteq stored'
           /\ notified' \cup {w} = notified \cup {w} /\ notified' \in SUBSET Workers
           /\ UNCHANGED <<logVars, export>> /\ faults' \in Nat
<1>0. Worked(w)
  <2>1. \E r : Becomes(w, r) BY Zenon, Effects DEF Run, Fails, DeliverOne
  <2> QED BY <2>1, Moved
<1> DEFINE Leaves == /\ journal' = journal /\ pending' \subseteq pending
                     /\ stored \subseteq stored'
                     /\ notified' \cup {w} = notified \cup {w}
                     /\ notified' \in SUBSET Workers
                     /\ UNCHANGED <<logVars, export>> /\ faults' \in Nat
<1> SUFFICES Leaves
    BY <1>0
<1> USE DEF TypeOK, journalVars, streamVars, Fault
<1>1. CASE Listen(w)
    BY <1>1 DEF Listen
<1>2. CASE Wake(w)
    BY <1>2 DEF Wake
<1>3. CASE NextTenant(w)
    BY <1>3 DEF NextTenant
<1>4. CASE LockRow(w)
    BY <1>4 DEF LockRow
<1>5. CASE NoneLeft(w)
    BY <1>5 DEF NoneLeft
<1>6. CASE Publish(w)
    BY <1>6 DEF Publish, Store
<1>7. CASE Refuse(w)
    BY <1>7 DEF Refuse
<1>8. CASE DeliverFails(w)
    BY <1>8 DEF DeliverFails, Store
<1>9. CASE DeleteRow(w)
    BY <1>9 DEF DeleteRow
<1>10. CASE DeleteFails(w)
    BY <1>10 DEF DeleteFails
<1>11. CASE Backlog(w)
    BY <1>11 DEF Backlog
<1>12. CASE LastTenant(w)
    BY <1>12 DEF LastTenant
<1>13. CASE EndCutOff(w)
    BY <1>13 DEF EndCutOff
<1>14. CASE DirectoryFails(w)
    BY <1>14 DEF DirectoryFails
<1>15. CASE BacklogFails(w)
    BY <1>15 DEF BacklogFails
<1>16. CASE CrashWorker(w)
    BY <1>16 DEF CrashWorker
<1>17. CASE EndScan(w)
    BY <1>17 DEF EndScan
<1> QED BY <1>1, <1>2, <1>3, <1>4, <1>5, <1>6, <1>7, <1>8, <1>9, <1>10, <1>11, <1>12, <1>13,
           <1>14, <1>15, <1>16, <1>17 DEF Run, Fails, DeliverOne

\* A step of a worker keeps its row locked, of its tenant, and published if it says so.
LEMMA WorkerRow ==
    ASSUME TypeOK, Leasts, NEW w \in Workers, RowOK(w), StreamInv, Run(w) \/ Fails(w)
    PROVE  /\ RowOK(w)'
           /\ work'[w].row \in {None, work[w].row} \cup Rows(w)
<1>0. work[w] \in WorkType /\ journal' = journal /\ stored \subseteq stored'
    BY WorkerFrame DEF TypeOK
<1> USE DEF RowOK
<1>1. CASE Listen(w)
  <2>1. Now(w, "scan", 0, None, TRUE, FALSE, journal)
    BY Zenon, <1>1, Results
  <2> QED BY <1>0, <1>1, <2>1 DEF Listen, Now
<1>2. CASE Wake(w)
  <2>1. Now(w, "scan", 0, None, TRUE, FALSE, journal)
    BY Zenon, <1>2, Results
  <2> QED BY <1>0, <1>2, <2>1 DEF Wake, Now
<1>3. CASE NextTenant(w)
  <2>1. Now(w, "deliver", Min(Ahead(w)), work[w].row, work[w].healthy, work[w].busy, work[w].since)
    BY Zenon, <1>3, Results
  <2> QED BY <1>0, <1>3, <2>1 DEF NextTenant, Now
<1>4. CASE LockRow(w)
    <2>2. Min(Rows(w)) \in Rows(w)
    BY <1>4 DEF LockRow, Leasts
  <2>3. work'[w].row = Min(Rows(w)) /\ work'[w].pc = "locked" /\ work'[w].tenant = work[w].tenant
    BY Zenon, <1>4, Results DEF Now
  <2>4. Min(Rows(w)) \in journal /\ TenantOf[Min(Rows(w))] = work[w].tenant
    BY <2>2 DEF Rows, StreamInv
  <2> QED BY <1>0, <2>2, <2>3, <2>4
<1>5. CASE NoneLeft(w)
  <2>1. Now(w, "backlog", work[w].tenant, work[w].row, work[w].healthy, work[w].busy, work[w].since)
    BY Zenon, <1>5, Results
  <2> QED BY <1>0, <1>5, <2>1 DEF NoneLeft, Now
<1>6. CASE Publish(w)
  <2>1. Now(w, "published", work[w].tenant, work[w].row, work[w].healthy, work[w].busy, work[w].since)
    BY Zenon, <1>6, Results
  <2> QED BY <1>0, <1>6, <2>1 DEF Publish, Store, Now
<1>7. CASE Refuse(w)
  <2>1. Now(w, "backlog", work[w].tenant, None, FALSE, work[w].busy, {})
    BY Zenon, <1>7, Results
  <2> QED BY <1>0, <1>7, <2>1 DEF Refuse, Now
<1>8. CASE DeliverFails(w)
  <2>1. Now(w, "backlog", work[w].tenant, None, FALSE, work[w].busy, {})
    BY Zenon, <1>8, Results
  <2> QED BY <1>0, <1>8, <2>1 DEF DeliverFails, Store, Now
<1>9. CASE DeleteRow(w)
  <2>1. \E pc \in {"deliver", "backlog"} :
          Now(w, pc, work[w].tenant, None, work[w].healthy, TRUE, work[w].since)
    BY Zenon, <1>9, Results
  <2> QED BY <1>0, <1>9, <2>1 DEF DeleteRow, Now
<1>10. CASE DeleteFails(w)
  <2>1. Now(w, "backlog", work[w].tenant, None, FALSE, work[w].busy, {})
    BY Zenon, <1>10, Results
  <2> QED BY <1>0, <1>10, <2>1 DEF DeleteFails, Now
<1>11. CASE Backlog(w)
  <2>1. \/ Now(w, "scan", work[w].tenant, work[w].row, work[w].healthy, work[w].busy, {})
        \/ /\ \A e \in pending : TenantOf[e] # work[w].tenant
           /\ Now(w, "scan", work[w].tenant, work[w].row, work[w].healthy, work[w].busy,
                  work[w].since)
    BY Zenon, <1>11, Results
  <2> QED BY <1>0, <1>11, <2>1 DEF Backlog, Now
<1>12. CASE LastTenant(w)
  <2>1. Now(w, "end", work[w].tenant, work[w].row, work[w].healthy, work[w].busy, work[w].since)
    BY Zenon, <1>12, Results
  <2> QED BY <1>0, <1>12, <2>1 DEF LastTenant, Now
<1>13. CASE EndCutOff(w)
  <2>1. Now(w, "wait", 0, None, FALSE, FALSE, {})
    BY Zenon, <1>13, Results
  <2> QED BY <1>0, <1>13, <2>1 DEF EndCutOff, Now
<1>14. CASE DirectoryFails(w)
  <2>1. Now(w, "end", work[w].tenant, work[w].row, FALSE, work[w].busy, {})
    BY Zenon, <1>14, Results
  <2> QED BY <1>0, <1>14, <2>1 DEF DirectoryFails, Now
<1>15. CASE BacklogFails(w)
  <2>1. Now(w, "scan", work[w].tenant, work[w].row, FALSE, work[w].busy, {})
    BY Zenon, <1>15, Results
  <2> QED BY <1>0, <1>15, <2>1 DEF BacklogFails, Now
<1>16. CASE CrashWorker(w)
  <2>1. Now(w, "down", 0, None, TRUE, FALSE, {})
    BY Zenon, <1>16, Results
  <2> QED BY <1>0, <1>16, <2>1 DEF CrashWorker, Now
<1>17. CASE EndScan(w)
  <2>1. \/ Now(w, "scan", 0, None, TRUE, FALSE, journal)
        \/ /\ ~(work[w].healthy /\ work[w].busy)
           /\ Now(w, "wait", 0, None, work[w].healthy, FALSE, {})
    BY Zenon, <1>17, Results
  <2> QED BY <1>0, <1>17, <2>1 DEF EndScan, Now
<1> QED BY Zenon, <1>1, <1>2, <1>3, <1>4, <1>5, <1>6, <1>7, <1>8, <1>9, <1>10, <1>11, <1>12,
           <1>13, <1>14, <1>15, <1>16, <1>17 DEF Run, Fails, DeliverOne

\* A step of a worker keeps what it vouches for ahead of it.
LEMMA WorkerVouch ==
    ASSUME TypeOK, Leasts, NEW w \in Workers, Vouches(w), Run(w) \/ Fails(w)
    PROVE  Vouches(w)'
<1>0. journal' = journal /\ pending' \subseteq pending /\ pending \subseteq Decisions
    BY WorkerFrame DEF TypeOK
<1>00. work[w].tenant \in Nat /\ \A d \in Decisions : TenantOf[d] \in Nat \ {0}
    BY Auditing DEF TypeOK, WorkType
<1> USE DEF Vouches
<1>1. CASE Listen(w)
  <2>1. Now(w, "scan", 0, None, TRUE, FALSE, journal)
    BY Zenon, <1>1, Results
  <2> QED BY <1>0, <1>00, <1>1, <2>1 DEF Listen, Now
<1>2. CASE Wake(w)
  <2>1. Now(w, "scan", 0, None, TRUE, FALSE, journal)
    BY Zenon, <1>2, Results
  <2> QED BY <1>0, <1>00, <1>2, <2>1 DEF Wake, Now
<1>3. CASE NextTenant(w)
  <2>1. Now(w, "deliver", Min(Ahead(w)), work[w].row, work[w].healthy, work[w].busy, work[w].since)
    BY Zenon, <1>3, Results
  <2>2. \A d \in journal : work[w].tenant < TenantOf[d] => Min(Ahead(w)) <= TenantOf[d]
    BY <1>3 DEF NextTenant, Leasts
  <2> QED BY Zenon, <1>0, <1>3, <2>1, <2>2 DEF NextTenant, Now
<1>4. CASE LockRow(w)
  <2>1. Now(w, "locked", work[w].tenant, Min(Rows(w)), work[w].healthy, work[w].busy, work[w].since)
    BY Zenon, <1>4, Results
  <2> QED BY Zenon, <1>0, <1>00, <1>4, <2>1 DEF LockRow, Now
<1>5. CASE NoneLeft(w)
  <2>1. Now(w, "backlog", work[w].tenant, work[w].row, work[w].healthy, work[w].busy, work[w].since)
    BY Zenon, <1>5, Results
  <2> QED BY <1>0, <1>00, <1>5, <2>1 DEF NoneLeft, Now
<1>6. CASE Publish(w)
  <2>1. Now(w, "published", work[w].tenant, work[w].row, work[w].healthy, work[w].busy, work[w].since)
    BY Zenon, <1>6, Results
  <2> QED BY <1>0, <1>00, <1>6, <2>1 DEF Publish, Now
<1>7. CASE Refuse(w)
  <2>1. Now(w, "backlog", work[w].tenant, None, FALSE, work[w].busy, {})
    BY Zenon, <1>7, Results
  <2> QED BY <1>0, <1>00, <1>7, <2>1 DEF Refuse, Now
<1>8. CASE DeliverFails(w)
  <2>1. Now(w, "backlog", work[w].tenant, None, FALSE, work[w].busy, {})
    BY Zenon, <1>8, Results
  <2> QED BY <1>0, <1>00, <1>8, <2>1 DEF DeliverFails, Now
<1>9. CASE DeleteRow(w)
  <2>1. \E pc \in {"deliver", "backlog"} :
          Now(w, pc, work[w].tenant, None, work[w].healthy, TRUE, work[w].since)
    BY Zenon, <1>9, Results
  <2> QED BY Zenon, <1>0, <1>00, <1>9, <2>1 DEF DeleteRow, Now
<1>10. CASE DeleteFails(w)
  <2>1. Now(w, "backlog", work[w].tenant, None, FALSE, work[w].busy, {})
    BY Zenon, <1>10, Results
  <2> QED BY <1>0, <1>00, <1>10, <2>1 DEF DeleteFails, Now
<1>11. CASE Backlog(w)
  <2>1. \/ Now(w, "scan", work[w].tenant, work[w].row, work[w].healthy, work[w].busy, {})
        \/ /\ \A e \in pending : TenantOf[e] # work[w].tenant
           /\ Now(w, "scan", work[w].tenant, work[w].row, work[w].healthy, work[w].busy,
                  work[w].since)
    BY Zenon, <1>11, Results
  <2>2. work[w].pc = "backlog"
    BY <1>11 DEF Backlog
  <2> QED BY <1>0, <1>00, <2>1, <2>2 DEF Now
<1>12. CASE LastTenant(w)
  <2>1. Now(w, "end", work[w].tenant, work[w].row, work[w].healthy, work[w].busy, work[w].since)
    BY Zenon, <1>12, Results
  <2>2. \A d \in journal : ~(work[w].tenant < TenantOf[d])
    BY <1>00, <1>12 DEF LastTenant, Ahead, TypeOK
  <2> QED BY <1>0, <1>12, <2>1, <2>2 DEF LastTenant, Now
<1>13. CASE EndCutOff(w)
  <2>1. Now(w, "wait", 0, None, FALSE, FALSE, {})
    BY Zenon, <1>13, Results
  <2> QED BY <1>0, <1>00, <1>13, <2>1 DEF EndCutOff, Now
<1>14. CASE DirectoryFails(w)
  <2>1. Now(w, "end", work[w].tenant, work[w].row, FALSE, work[w].busy, {})
    BY Zenon, <1>14, Results
  <2> QED BY Zenon, <1>0, <1>00, <1>14, <2>1 DEF DirectoryFails, Now
<1>15. CASE BacklogFails(w)
  <2>1. Now(w, "scan", work[w].tenant, work[w].row, FALSE, work[w].busy, {})
    BY Zenon, <1>15, Results
  <2> QED BY Zenon, <1>0, <1>00, <1>15, <2>1 DEF BacklogFails, Now
<1>16. CASE CrashWorker(w)
  <2>1. Now(w, "down", 0, None, TRUE, FALSE, {})
    BY Zenon, <1>16, Results
  <2> QED BY <1>0, <1>00, <1>16, <2>1 DEF CrashWorker, Now
<1>17. CASE EndScan(w)
  <2>1. \/ Now(w, "scan", 0, None, TRUE, FALSE, journal)
        \/ /\ ~(work[w].healthy /\ work[w].busy)
           /\ Now(w, "wait", 0, None, work[w].healthy, FALSE, {})
    BY Zenon, <1>17, Results
  <2> QED BY <1>0, <1>00, <1>17, <2>1 DEF EndScan, Now
<1> QED BY Zenon, <1>1, <1>2, <1>3, <1>4, <1>5, <1>6, <1>7, <1>8, <1>9, <1>10, <1>11, <1>12,
           <1>13, <1>14, <1>15, <1>16, <1>17 DEF Run, Fails, DeliverOne

\* A step of a worker covers what the worker covered, or leaves it to the one that has its row.
LEMMA WorkerCover ==
    ASSUME TypeOK, Leasts, RowInv, StreamInv, NEW w \in Workers, Run(w) \/ Fails(w),
           NEW d \in pending', Covers(w, d)
    PROVE  \E v \in Workers : Covers(v, d)'
<1>0. d \in pending /\ d \in journal /\ d \in Decisions
    BY WorkerFrame DEF TypeOK, StreamInv
<1>00. work[w].tenant \in Nat /\ TenantOf[d] \in Nat \ {0}
    BY <1>0, Auditing DEF TypeOK, WorkType
<1>000. notified' \cup {w} = notified \cup {w}
    BY WorkerFrame
<1> USE DEF Covers
<1>1. CASE Listen(w)
  <2>1. Now(w, "scan", 0, None, TRUE, FALSE, journal)
    BY Zenon, <1>1, Results
  <2> QED BY <1>0, <1>00, <1>1, <2>1 DEF Listen, journalVars, Now
<1>2. CASE Wake(w)
  <2>1. Now(w, "scan", 0, None, TRUE, FALSE, journal)
    BY Zenon, <1>2, Results
  <2> QED BY <1>0, <1>00, <1>2, <2>1 DEF Wake, Now
<1>3. CASE NextTenant(w)
  <2>1. Now(w, "deliver", Min(Ahead(w)), work[w].row, work[w].healthy, work[w].busy, work[w].since)
    BY Zenon, <1>3, Results
  <2>2. work[w].tenant < TenantOf[d] => Min(Ahead(w)) <= TenantOf[d]
    BY <1>0, <1>3 DEF NextTenant, Leasts
  <2> QED BY Zenon, <1>0, <1>3, <2>1, <2>2 DEF NextTenant, journalVars, Now
<1>4. CASE LockRow(w)
  <2>1. Now(w, "locked", work[w].tenant, Min(Rows(w)), work[w].healthy, work[w].busy, work[w].since)
    BY Zenon, <1>4, Results
  <2> QED BY Zenon, <1>0, <1>00, <1>4, <2>1 DEF LockRow, journalVars, Now
<1>5. CASE NoneLeft(w)
  <2>1. Now(w, "backlog", work[w].tenant, work[w].row, work[w].healthy, work[w].busy, work[w].since)
    BY Zenon, <1>5, Results
  <2>2. CASE TenantOf[d] = work[w].tenant
    <3>1. PICK v \in Workers : work[v].row = d
      BY <1>0, <1>5, <2>2 DEF NoneLeft, Rows
    <3>2. work[v].pc \in {"locked", "published"} /\ TenantOf[d] = work[v].tenant
      BY <1>0, <3>1, Auditing DEF RowInv, RowOK
    <3>3. v # w
      BY <1>5, <3>2 DEF NoneLeft
    <3>4. work'[v] = work[v]
      BY <3>3, WorkerFrame DEF Worked
    <3> QED BY <1>00, <2>2, <3>2, <3>4
  <2>3. CASE TenantOf[d] # work[w].tenant
    BY <1>00, <1>5, <2>1, <2>3 DEF NoneLeft, journalVars, Now
  <2> QED BY <2>2, <2>3
<1>6. CASE Publish(w)
  <2>1. Now(w, "published", work[w].tenant, work[w].row, work[w].healthy, work[w].busy, work[w].since)
    BY Zenon, <1>6, Results
  <2> QED BY <1>0, <1>00, <1>6, <2>1 DEF Publish, journalVars, Now
<1>7. CASE Refuse(w)
  <2>1. Now(w, "backlog", work[w].tenant, None, FALSE, work[w].busy, {})
    BY Zenon, <1>7, Results
  <2> QED BY <1>0, <1>00, <1>7, <2>1 DEF Refuse, journalVars, Now
<1>8. CASE DeliverFails(w)
  <2>1. Now(w, "backlog", work[w].tenant, None, FALSE, work[w].busy, {})
    BY Zenon, <1>8, Results
  <2> QED BY <1>0, <1>00, <1>8, <2>1 DEF DeliverFails, journalVars, Now
<1>9. CASE DeleteRow(w)
  <2>1. \E pc \in {"deliver", "backlog"} :
          Now(w, pc, work[w].tenant, None, work[w].healthy, TRUE, work[w].since)
    BY Zenon, <1>9, Results
  <2> QED BY Zenon, <1>0, <1>00, <1>9, <2>1 DEF DeleteRow, journalVars, Now
<1>10. CASE DeleteFails(w)
  <2>1. Now(w, "backlog", work[w].tenant, None, FALSE, work[w].busy, {})
    BY Zenon, <1>10, Results
  <2> QED BY <1>0, <1>00, <1>10, <2>1 DEF DeleteFails, journalVars, Now
<1>11. CASE Backlog(w)
  <2>1. \/ Now(w, "scan", work[w].tenant, work[w].row, work[w].healthy, work[w].busy, {})
        \/ /\ \A e \in pending : TenantOf[e] # work[w].tenant
           /\ Now(w, "scan", work[w].tenant, work[w].row, work[w].healthy, work[w].busy,
                  work[w].since)
    BY Zenon, <1>11, Results
  <2> QED BY Zenon, <1>0, <1>00, <1>11, <2>1 DEF Backlog, journalVars, Now
<1>12. CASE LastTenant(w)
  <2>1. Now(w, "end", work[w].tenant, work[w].row, work[w].healthy, work[w].busy, work[w].since)
    BY Zenon, <1>12, Results
  <2>2. ~(work[w].tenant < TenantOf[d])
    BY <1>0, <1>00, <1>12 DEF LastTenant, Ahead
  <2> QED BY <1>0, <1>12, <2>1, <2>2 DEF LastTenant, journalVars, Now
<1>13. CASE EndCutOff(w)
  <2>1. Now(w, "wait", 0, None, FALSE, FALSE, {})
    BY Zenon, <1>13, Results
  <2>2. ~work'[w].healthy
    BY <2>1 DEF Now
  <2> QED BY <2>2
<1>14. CASE DirectoryFails(w)
  <2>1. Now(w, "end", work[w].tenant, work[w].row, FALSE, work[w].busy, {})
    BY Zenon, <1>14, Results
  <2> QED BY Zenon, <1>0, <1>00, <1>14, <2>1 DEF DirectoryFails, journalVars, Now
<1>15. CASE BacklogFails(w)
  <2>1. Now(w, "scan", work[w].tenant, work[w].row, FALSE, work[w].busy, {})
    BY Zenon, <1>15, Results
  <2> QED BY Zenon, <1>0, <1>00, <1>15, <2>1 DEF BacklogFails, journalVars, Now
<1>16. CASE CrashWorker(w)
  <2>1. Now(w, "down", 0, None, TRUE, FALSE, {})
    BY Zenon, <1>16, Results
  <2> QED BY <1>0, <1>00, <1>16, <2>1 DEF CrashWorker, Now
<1>17. CASE EndScan(w)
  <2>1. \/ Now(w, "scan", 0, None, TRUE, FALSE, journal)
        \/ /\ ~(work[w].healthy /\ work[w].busy)
           /\ Now(w, "wait", 0, None, work[w].healthy, FALSE, {})
    BY Zenon, <1>17, Results
  <2>2. work[w].pc = "end" /\ notified' = notified
    BY <1>17 DEF EndScan, journalVars
  <2>3. CASE Now(w, "scan", 0, None, TRUE, FALSE, journal)
    BY <1>00, <2>3 DEF Now
  <2>4. CASE ~(work[w].healthy /\ work[w].busy) /\ Now(w, "wait", 0, None, work[w].healthy, FALSE, {})
    <3>1. ~work[w].healthy => ~work'[w].healthy
      BY <2>4 DEF Now
    <3>2. ~work[w].healthy \/ w \in notified
      BY <2>2, <2>4
    <3> QED BY <2>2, <3>1, <3>2
  <2> QED BY Zenon, <2>1, <2>3, <2>4
<1> QED BY Zenon, <1>1, <1>2, <1>3, <1>4, <1>5, <1>6, <1>7, <1>8, <1>9, <1>10, <1>11, <1>12,
           <1>13, <1>14, <1>15, <1>16, <1>17 DEF Run, Fails, DeliverOne

\* A step of a worker takes from the queue what the stream has, and sends what was decided.
LEMMA WorkerStream ==
    ASSUME TypeOK, Leasts, NEW w \in Workers, RowOK(w), StreamInv, Run(w) \/ Fails(w)
    PROVE  /\ StreamInv'
           /\ stored' \in SUBSET Decisions /\ due' \in SUBSET Decisions
<1>0. journal' = journal /\ Logged' = Logged /\ pending' \subseteq pending
    BY WorkerFrame DEF Logged, logVars
<1>00. journal \subseteq Decisions /\ stored \subseteq Decisions /\ due \subseteq Decisions
    BY DEF TypeOK
<1> USE DEF StreamInv, RowOK
<1>1. CASE Listen(w)
    BY <1>0, <1>00, <1>1 DEF Listen, journalVars, streamVars
<1>2. CASE Wake(w)
    BY <1>0, <1>00, <1>2 DEF Wake, streamVars
<1>3. CASE NextTenant(w)
    BY <1>0, <1>00, <1>3 DEF NextTenant, journalVars, streamVars
<1>4. CASE LockRow(w)
    BY <1>0, <1>00, <1>4 DEF LockRow, journalVars, streamVars
<1>5. CASE NoneLeft(w)
    BY <1>0, <1>00, <1>5 DEF NoneLeft, journalVars, streamVars
<1>6. CASE Publish(w)
    BY <1>0, <1>00, <1>6 DEF Publish, Store, journalVars, streamVars
<1>7. CASE Refuse(w)
    BY <1>0, <1>00, <1>7 DEF Refuse, journalVars, streamVars
<1>8. CASE DeliverFails(w)
    BY <1>0, <1>00, <1>8 DEF DeliverFails, Store, journalVars, streamVars
<1>9. CASE DeleteRow(w)
    BY <1>0, <1>00, <1>9 DEF DeleteRow, streamVars
<1>10. CASE DeleteFails(w)
    BY <1>0, <1>00, <1>10 DEF DeleteFails, streamVars
<1>11. CASE Backlog(w)
    BY <1>0, <1>00, <1>11 DEF Backlog, journalVars, streamVars
<1>12. CASE LastTenant(w)
    BY <1>0, <1>00, <1>12 DEF LastTenant, journalVars, streamVars
<1>13. CASE EndCutOff(w)
    BY <1>0, <1>00, <1>13 DEF EndCutOff, journalVars, streamVars
<1>14. CASE DirectoryFails(w)
    BY <1>0, <1>00, <1>14 DEF DirectoryFails, journalVars, streamVars
<1>15. CASE BacklogFails(w)
    BY <1>0, <1>00, <1>15 DEF BacklogFails, journalVars, streamVars
<1>16. CASE CrashWorker(w)
    BY <1>0, <1>00, <1>16 DEF CrashWorker, streamVars
<1>17. CASE EndScan(w)
    BY <1>0, <1>00, <1>17 DEF EndScan, journalVars, streamVars
<1> QED BY Zenon, <1>1, <1>2, <1>3, <1>4, <1>5, <1>6, <1>7, <1>8, <1>9, <1>10, <1>11, <1>12,
           <1>13, <1>14, <1>15, <1>16, <1>17 DEF Run, Fails, DeliverOne

\* No step of a worker breaks what covers the queue and the metrics.
LEMMA WorkerKeeps ==
    ASSUME TypeOK, Leasts, WorkInv, NEW w \in Workers, Run(w) \/ Fails(w)
    PROVE  WorkInv'
<1> USE DEF WorkInv
<1>1. /\ Worked(w) /\ journal' = journal /\ pending' \subseteq pending
      /\ stored \subseteq stored' /\ notified' \cup {w} = notified \cup {w}
    BY WorkerFrame
<1>2. RowInv'
  <2>1. RowOK(w)' /\ work'[w].row \in {None, work[w].row} \cup Rows(w)
    BY WorkerRow DEF RowInv
  <2>2. \A v \in Workers \ {w} : RowOK(v)'
    BY <1>1 DEF RowInv, RowOK, Worked
  <2>3. \A v \in Workers \ {w} : work[v].row # None => work'[w].row # work[v].row
    BY <2>1 DEF RowInv, Rows
  <2>4. \A u, v \in Workers : u # v /\ work'[u].row # None => work'[u].row # work'[v].row
    BY <1>1, <2>3 DEF RowInv, Worked
  <2> QED BY <2>1, <2>2, <2>4 DEF RowInv
<1>3. StreamInv'
    BY WorkerStream DEF RowInv
<1>4. CoverInv'
  <2> SUFFICES ASSUME NEW d \in pending' PROVE \E v \in Workers : Covers(v, d)'
    BY DEF CoverInv
  <2>1. PICK v \in Workers : Covers(v, d)
    BY <1>1 DEF CoverInv
  <2>2. CASE v = w
    BY <2>1, <2>2, WorkerCover
  <2>3. CASE v # w
    BY <1>1, <2>1, <2>3 DEF Covers, Worked
  <2> QED BY <2>2, <2>3
<1>5. VouchInv'
  <2>1. Vouches(w)'
    BY WorkerVouch DEF VouchInv
  <2>2. \A v \in Workers \ {w} : Vouches(v)'
    BY <1>1 DEF VouchInv, Vouches, Worked
  <2> QED BY <2>1, <2>2 DEF VouchInv
<1> QED BY <1>2, <1>3, <1>4, <1>5

\* A decision enters the queue with its notification.
LEMMA DecideKeeps ==
    ASSUME TypeOK, WorkInv, NEW d \in Decisions, Decide(d)
    PROVE  WorkInv'
<1> USE DEF WorkInv, Decide, streamVars, logVars
<1>1. RowInv'
    BY DEF RowInv, RowOK
<1>2. StreamInv'
    BY DEF StreamInv, Logged
<1>3. CoverInv'
  <2>1. \A e \in pending, w \in Workers : Covers(w, e) => Covers(w, e)'
    BY DEF Covers
  <2>2. PICK w \in Workers : TRUE
    BY Auditing
  <2>3. Covers(w, d)'
    BY DEF Covers
  <2> QED BY <2>1, <2>3 DEF CoverInv
<1>4. VouchInv'
    BY DEF VouchInv, Vouches
<1> QED BY <1>1, <1>2, <1>3, <1>4

-----------------------------------------------------------------------------
(* The steps of the audit service.                                         *)

\* What an append makes of the log.
LEMMA Appended ==
    ASSUME TypeOK, NEW r \in RecordType, log' = Append(log, r)
    PROVE  /\ log' \in Seq(RecordType) /\ Len(log') = Len(log) + 1
           /\ Len(log) \in Nat /\ DOMAIN log = 1..Len(log) /\ DOMAIN log' = 1..Len(log')
           /\ \A i \in 1..Len(log) : log'[i] = log[i]
           /\ log'[Len(log) + 1] = r
           /\ Logged' = Logged \cup {r.event}
<1>1. /\ log' \in Seq(RecordType) /\ Len(log') = Len(log) + 1
      /\ Len(log) \in Nat /\ DOMAIN log = 1..Len(log) /\ DOMAIN log' = 1..Len(log')
      /\ \A i \in 1..Len(log) : log'[i] = log[i]
      /\ log'[Len(log) + 1] = r
    BY DEF TypeOK
<1>2. \A i \in DOMAIN log' : i \in DOMAIN log \/ i = Len(log) + 1
    BY <1>1
<1>3. \A i \in DOMAIN log : i \in DOMAIN log'
    BY <1>1
<1>4. Len(log) + 1 \in DOMAIN log'
    BY <1>1
<1> HIDE DEF TypeOK
<1>5. Logged' \subseteq Logged \cup {r.event}
    BY <1>1, <1>2 DEF Logged
<1>6. Logged \cup {r.event} \subseteq Logged'
    BY <1>1, <1>3, <1>4 DEF Logged
<1> QED BY <1>1, <1>5, <1>6

\* The record InsertRecord inserts.
Inserted(p, at) ==
    [seq |-> pod[p].seq, event |-> pod[p].event, at |-> Timestamptz(at),
     prev |-> pod[p].prev, hash |-> ChainNext(pod[p].prev, Hashed(p, at))]

\* The record a pod inserts is a record.
LEMMA InsertedType ==
    ASSUME TypeOK, PodInv, NEW p \in Pods, pod[p] # Free, NEW at \in Readings
    PROVE  Inserted(p, at) \in RecordType
<1>1. pod[p].event \in Decisions /\ pod[p].seq \in Nat /\ pod[p].prev \in Hashes
    BY DEF TypeOK, PodInv, PodType
<1>2. at \in Nat /\ Timestamptz(at) \in Nat
    BY Auditing DEF Timestamptz
<1>3. Hashed(p, at) \in [seq : Nat, event : Decisions, at : Nat]
    BY <1>1, <1>2 DEF Hashed, Canonical
<1>4. ChainNext(pod[p].prev, Hashed(p, at)) \in Hashes
    BY <1>1, <1>3 DEF ChainNext, Hashes
<1> QED BY <1>1, <1>2, <1>4 DEF Inserted, RecordType

\* A step of the audit service acknowledges what is in the log alone.
LEMMA ServiceKeepsWork ==
    ASSUME TypeOK, WorkInv, PodInv, NEW d \in Decisions, NEW p \in Pods,
           Existing(d) \/ ReadHead(p, d) \/ InsertRecord(p) \/ HandleFails(p)
    PROVE  WorkInv'
<1> USE DEF WorkInv, journalVars, streamVars, logVars
<1>1. journal' = journal /\ pending' = pending /\ notified' = notified /\ work' = work
      /\ stored' = stored
    BY DEF Existing, ReadHead, InsertRecord, HandleFails
<1>2. StreamInv'
  <2>1. CASE Existing(d)
    BY <2>1 DEF Existing, StreamInv, Logged
  <2>2. CASE ReadHead(p, d)
    BY <2>2 DEF ReadHead, StreamInv, Logged
  <2>3. CASE HandleFails(p)
    BY <2>3 DEF HandleFails, StreamInv, Logged
  <2>4. CASE InsertRecord(p)
    <3>1. PICK at \in Readings : log' = Append(log, Inserted(p, at))
      BY <2>4 DEF InsertRecord, Inserted
    <3>2. Inserted(p, at) \in RecordType /\ Inserted(p, at).event = pod[p].event
      BY <2>4, InsertedType DEF InsertRecord, Inserted
    <3>3. Logged' = Logged \cup {pod[p].event}
      BY <3>1, <3>2, Appended
    <3>4. pod[p].event \in stored /\ due' \in {due, due \ {pod[p].event}}
      BY Zenon, <2>4 DEF InsertRecord, PodInv
    <3> QED BY <1>1, <3>3, <3>4 DEF StreamInv
  <2> QED BY <2>1, <2>2, <2>3, <2>4
<1>3. RowInv'
    BY Zenon, <1>1 DEF RowInv, RowOK
<1>4. CoverInv'
    BY <1>1 DEF CoverInv, Covers
<1>5. VouchInv'
    BY <1>1 DEF VouchInv, Vouches
<1> QED BY <1>2, <1>3, <1>4, <1>5

\* Until the log grows, what is said of it holds on.
LEMMA LogKept ==
    ASSUME LogInv, UNCHANGED <<log, pod, export>>, stored \subseteq stored'
    PROVE  LogInv'
<1>1. ChainInv'
    BY DEF LogInv, ChainInv, Chained, Before
<1>2. PodInv'
    BY DEF LogInv, PodInv, LastHash
<1>3. BrokenInv'
    BY DEF LogInv, BrokenInv, Broken
<1>4. PageInv'
    BY DEF LogInv, PageInv, Exported, Mine, Ascending
<1> QED BY <1>1, <1>2, <1>3, <1>4 DEF LogInv

\* A pod that takes the append lock reads the head of the chain.
LEMMA ReadHeadKeeps ==
    ASSUME TypeOK, LogInv, NEW p \in Pods, NEW d \in Decisions, ReadHead(p, d)
    PROVE  LogInv' /\ pod' \in [Pods -> PodType]
<1> DEFINE r == [event |-> d, seq |-> Len(log) + 1, prev |-> LastHash]
<1>1. pod' = [pod EXCEPT ![p] = r] /\ UNCHANGED <<log, export, stored>>
    BY DEF ReadHead, LastHash, streamVars
<1>2. r \in PodType
  <2>1. Len(log) + 1 \in Nat BY DEF TypeOK
  <2>2. LastHash \in Hashes
    <3>1. CASE log = <<>>
      BY <3>1 DEF LastHash, Genesis, Hashes
    <3>2. CASE log # <<>>
      <4>1. Len(log) \in DOMAIN log BY <3>2 DEF TypeOK
      <4>2. log[Len(log)] \in RecordType BY <4>1 DEF TypeOK
      <4> QED BY <3>2, <4>2 DEF LastHash, RecordType
    <3> QED BY <3>1, <3>2
  <2> QED BY <2>1, <2>2 DEF PodType
<1>3. d \in stored /\ \A q \in Pods : pod[q] = Free
    BY DEF ReadHead, Unlocked
<1>4. PodInv'
  <2>1. pod'[p] = r /\ \A q \in Pods \ {p} : pod'[q] = Free
    BY <1>1, <1>3 DEF TypeOK
  <2>2. r.event = d /\ r.seq = Len(log) + 1 /\ r.prev = LastHash
    OBVIOUS
  <2> HIDE DEF r
  <2> QED BY <1>1, <1>3, <2>1, <2>2 DEF PodInv, LastHash
<1>5. ChainInv'
    BY <1>1 DEF LogInv, ChainInv, Chained, Before
<1>6. BrokenInv'
    BY <1>1 DEF LogInv, BrokenInv, Broken
<1>7. PageInv'
    BY <1>1 DEF LogInv, PageInv, Exported, Mine, Ascending
<1>8. pod' \in [Pods -> PodType]
    BY <1>1, <1>2 DEF TypeOK
<1> QED BY <1>4, <1>5, <1>6, <1>7, <1>8 DEF LogInv

\* A pod without an append in hand has nothing in hand.
LEMMA FreeType == Free \in PodType
BY DEF Free, PodType, Genesis, Hashes

\* An insert extends the chain by a record hashed over its head.
LEMMA InsertRecordKeeps ==
    ASSUME TypeOK, LogInv, NEW p \in Pods, InsertRecord(p)
    PROVE  LogInv' /\ pod' \in [Pods -> PodType] /\ log' \in Seq(RecordType)
<1>1. PICK at \in Readings : log' = Append(log, Inserted(p, at))
    BY DEF InsertRecord, Inserted
<1>0. PICK n, r : n \in Nat /\ n = Len(log) /\ r = Inserted(p, at)
    BY DEF TypeOK
<1>2. pod[p] # Free /\ pod' = [pod EXCEPT ![p] = Free] /\ UNCHANGED <<export, stored>>
    BY DEF InsertRecord
<1>3. pod[p].seq = n + 1 /\ pod[p].prev = LastHash /\ \A q \in Pods \ {p} : pod[q] = Free
    BY <1>0, <1>2 DEF LogInv, PodInv
<1>4. r \in RecordType
    BY <1>0, <1>2, InsertedType DEF LogInv
<1>5. /\ log' \in Seq(RecordType) /\ Len(log') = n + 1
      /\ n \in Nat /\ DOMAIN log = 1..n /\ DOMAIN log' = 1..(n + 1)
      /\ \A i \in 1..n : log'[i] = log[i]
      /\ log'[n + 1] = r
    BY <1>0, <1>1, <1>4, Appended
<1>6. r.seq = n + 1 /\ r.prev = LastHash /\ r.at = Timestamptz(at)
      /\ r.hash = ChainNext(r.prev, [seq |-> r.seq, event |-> r.event, at |-> at])
    BY <1>0, <1>3 DEF Inserted, Hashed, Canonical
<1>7. LastHash = Before(n + 1)'
  <2>1. CASE n = 0
    BY <1>0, <1>5, <2>1 DEF LastHash, Before, TypeOK
  <2>2. CASE n # 0
    <3>1. n \in 1..n /\ log # <<>> /\ n + 1 # 1 /\ (n + 1) - 1 = n
      BY <1>0, <1>5, <2>2 DEF TypeOK
    <3> QED BY <1>0, <1>5, <3>1 DEF LastHash, Before
  <2> QED BY <2>1, <2>2
<1>8. ChainInv'
  <2> SUFFICES ASSUME NEW i \in DOMAIN log' PROVE Chained(i)'
    BY DEF ChainInv
  <2>1. CASE i = n + 1
    BY <1>5, <1>6, <1>7, <2>1 DEF Chained
  <2>2. CASE i # n + 1
    <3>1. i \in 1..n /\ (i # 1 => i - 1 \in 1..n)
      BY <1>5, <2>2
    <3>2. log'[i] = log[i] /\ (i # 1 => log'[i - 1] = log[i - 1])
      BY <1>5, <3>1
    <3>3. Before(i)' = Before(i)
      BY <3>2 DEF Before
    <3>4. Chained(i)
      BY <1>5, <3>1 DEF LogInv, ChainInv
    <3> QED BY <3>2, <3>3, <3>4 DEF Chained
  <2> QED BY <2>1, <2>2
<1>9. PodInv' /\ pod' \in [Pods -> PodType]
  <2>1. \A q \in Pods : pod'[q] = Free
    BY <1>2, <1>3 DEF TypeOK
  <2> QED BY <1>2, <2>1, FreeType DEF PodInv, TypeOK
<1>10. BrokenInv'
  <2>1. ASSUME NEW i \in Broken(log) PROVE i \in Broken(log')
    <3>1. i \in 1..n /\ i \in DOMAIN log'
      BY <1>5 DEF Broken
    <3>2. log'[i] = log[i] /\ (i # 1 => log'[i - 1] = log[i - 1])
      BY <1>5, <3>1
    <3> QED BY <3>1, <3>2 DEF Broken
  <2> QED BY <1>2, <2>1 DEF LogInv, BrokenInv
<1>11. PageInv'
  <2>1. ASSUME NEW h \in Nat, h <= n PROVE Mine(h)' = Mine(h)
    <3>1. \A s \in 1..h : log'[s] = log[s]
      BY <1>5, <2>1
    <3> QED BY <3>1 DEF Mine
  <2>2. export.after \in Nat /\ export.head \in Nat /\ export' = export
    BY <1>2 DEF TypeOK, ExportType
  <2>3. export.after <= n /\ export.head <= n
    BY <1>0 DEF LogInv, PageInv
  <2>4. Mine(export.after)' = Mine(export.after) /\ Mine(export.head)' = Mine(export.head)
    BY <2>1, <2>2, <2>3
  <2>5. Exported' = Exported /\ (Ascending <=> Ascending')
    BY <2>2 DEF Exported, Ascending
  <2>6. export.after <= Len(log') /\ export.head <= Len(log')
    BY <1>5, <2>2, <2>3
  <2> QED BY <2>2, <2>4, <2>5, <2>6 DEF LogInv, PageInv
<1> QED BY <1>5, <1>8, <1>9, <1>10, <1>11 DEF LogInv

\* A failed append leaves the log as it was.
LEMMA HandleFailsKeeps ==
    ASSUME TypeOK, LogInv, NEW p \in Pods, HandleFails(p)
    PROVE  LogInv' /\ pod' \in [Pods -> PodType]
<1>1. pod' = [pod EXCEPT ![p] = Free] /\ UNCHANGED <<log, export, stored>>
    BY DEF HandleFails, streamVars
<1>2. \A q \in Pods : pod'[q] \in {pod[q], Free}
    BY <1>1 DEF TypeOK
<1>3. PodInv'
    BY <1>1, <1>2 DEF LogInv, PodInv, LastHash
<1>4. ChainInv'
    BY <1>1 DEF LogInv, ChainInv, Chained, Before
<1>5. BrokenInv'
    BY <1>1 DEF LogInv, BrokenInv, Broken
<1>6. PageInv'
    BY <1>1 DEF LogInv, PageInv, Exported, Mine, Ascending
<1>7. pod' \in [Pods -> PodType]
    BY <1>1, FreeType DEF TypeOK
<1> QED BY <1>3, <1>4, <1>5, <1>6, <1>7 DEF LogInv

-----------------------------------------------------------------------------
(* The steps of an export.                                                 *)

\* The records of the log are numbered from one.
LEMMA LogDomain ==
    ASSUME TypeOK
    PROVE  /\ Len(log) \in Nat /\ DOMAIN log = 1..Len(log)
           /\ \A S \in SUBSET DOMAIN log : S \in SUBSET Nat
<1>1. Len(log) \in Nat /\ DOMAIN log = 1..Len(log)
    BY DEF TypeOK
<1>2. \A S \in SUBSET DOMAIN log : S \in SUBSET Nat
    BY <1>1
<1> QED BY <1>1, <1>2

\* Verify fixes the head an export answers for.
LEMMA VerifyKeeps ==
    ASSUME TypeOK, Leasts, LogInv, Verify
    PROVE  LogInv' /\ export' \in ExportType
<1> DEFINE b == IF Broken(log) = {} THEN 0 ELSE Min(Broken(log))
           e == [export EXCEPT !.pc = "query", !.head = Len(log), !.broken = b]
<1>1. export.pc = "ask" /\ export' = e /\ UNCHANGED <<log, pod, stored>>
    BY DEF Verify, streamVars, logVars
<1>2. b \in Nat /\ (b # 0 => b \in Broken(log))
  <2>1. Broken(log) \in SUBSET DOMAIN log
    BY DEF Broken
  <2>2. Broken(log) # {} => Min(Broken(log)) \in Broken(log) /\ Broken(log) \in SUBSET Nat
    BY <2>1, LogDomain DEF Leasts
  <2> QED BY <2>2
<1> HIDE DEF b
<1>3. /\ e \in ExportType
      /\ e.pc = "query" /\ e.head = Len(log) /\ e.broken = b
      /\ e.after = export.after /\ e.pages = export.pages
    BY Zenon, <1>2, LogDomain DEF TypeOK, ExportType
<1> HIDE DEF e
<1>4. ChainInv'
    BY <1>1 DEF LogInv, ChainInv, Chained, Before
<1>5. PodInv'
    BY <1>1 DEF LogInv, PodInv, LastHash
<1>6. BrokenInv'
    BY <1>1, <1>2, <1>3 DEF BrokenInv
<1>7. PageInv'
  <2>1. Exported' = Exported /\ (Ascending <=> Ascending')
    BY <1>1, <1>3 DEF Exported, Ascending
  <2>2. \A h : Mine(h)' = Mine(h)
    BY <1>1 DEF Mine
  <2>3. export.after <= Len(log) /\ Exported = Mine(export.after) /\ Ascending
    BY <1>1 DEF LogInv, PageInv
  <2> QED BY <1>1, <1>3, <2>1, <2>2, <2>3, LogDomain DEF PageInv
<1> QED BY <1>1, <1>3, <1>4, <1>5, <1>6, <1>7 DEF LogInv

\* A page takes the export from its cursor to the next one, or to the head.
LEMMA PageMoves ==
    ASSUME TypeOK, Leasts, export.after <= export.head, export.head <= Len(log)
    PROVE  /\ Selected \in SUBSET Nat
           /\ \A s \in Selected : export.after < s
           /\ Page \subseteq Selected
           /\ Mine(export.head) = Mine(export.after) \cup Selected
           /\ Page # Selected =>
                /\ Max(Page) \in Nat
                /\ export.after <= Max(Page) /\ Max(Page) <= export.head
                /\ Mine(Max(Page)) = Mine(export.after) \cup Page
<1>0. export.after \in Nat /\ export.head \in Nat /\ Len(log) \in Nat /\ DOMAIN log = 1..Len(log)
    BY LogDomain DEF TypeOK, ExportType
<1>1. Selected \in SUBSET DOMAIN log
    BY DEF Selected
<1>2. Selected \in SUBSET Nat
    BY <1>1, LogDomain
<1>3. \A s \in Nat : s \in Selected <=> s \in Mine(export.head) /\ export.after < s
    BY <1>0 DEF Selected, Mine
<1>4. \A h \in Nat : Mine(h) \in SUBSET Nat /\ \A s \in Mine(h) : s <= h
    BY DEF Mine
<1>5. \A g, h \in Nat : g <= h => Mine(g) = {s \in Mine(h) : s <= g}
    BY DEF Mine
<1>6. Mine(export.head) = Mine(export.after) \cup Selected
  <2>1. \A s \in Nat : s \in Mine(export.after) <=> s \in Mine(export.head) /\ s <= export.after
    BY <1>0, <1>5
  <2>2. \A s \in Nat : s \in Mine(export.head) <=> s \in Mine(export.after) \/ s \in Selected
    BY <1>0, <1>3, <2>1
  <2> QED BY Zenon, <1>0, <1>2, <1>4, <2>2
<1>7. Page \subseteq Selected
    BY DEF Page
<1>8. ASSUME Page # Selected
      PROVE  /\ Max(Page) \in Nat
             /\ export.after <= Max(Page) /\ Max(Page) <= export.head
             /\ Mine(Max(Page)) = Mine(export.after) \cup Page
  <2>1. Selected # {}
    BY Zenon, <1>7, <1>8
  <2>2. PICK m : m = Max(Page)
    OBVIOUS
  <2>3. Max(Page) \in Selected /\ Page = {s \in Selected : s <= Max(Page)}
    BY <2>1 DEF Leasts
  <2>4. m \in Selected /\ Page = {s \in Selected : s <= m}
    BY Zenon, <2>2, <2>3
  <2>5. m \in Nat /\ export.after <= m /\ m <= export.head
    BY <1>0, <1>2, <1>3, <1>4, <2>4
  <2>6. Mine(m) = Mine(export.after) \cup Page
    <3>1. \A s \in Nat : s \in Mine(export.after) <=> s \in Mine(export.head) /\ s <= export.after
      BY <1>0, <1>5
    <3>2. \A s \in Nat : s \in Mine(m) <=> s \in Mine(export.head) /\ s <= m
      BY <1>0, <1>5, <2>5
    <3>3. \A s \in Nat : s \in Page <=> s \in Mine(export.head) /\ export.after < s /\ s <= m
      BY <1>3, <2>4
    <3>4. \A s \in Nat : s \in Mine(m) <=> s \in Mine(export.after) \/ s \in Page
      BY <1>0, <2>5, <3>1, <3>2, <3>3
    <3>5. Page \in SUBSET Nat
      BY <1>2, <1>7
    <3> QED BY Zenon, <1>0, <1>4, <2>5, <3>4, <3>5
  <2> QED BY <2>2, <2>5, <2>6
<1>9. \A s \in Selected : export.after < s
    BY DEF Selected
<1> QED BY <1>2, <1>6, <1>7, <1>8, <1>9

\* A page goes on where the last one ended.
LEMMA QueryPageKeeps ==
    ASSUME TypeOK, Leasts, LogInv, QueryPage
    PROVE  LogInv' /\ export' \in ExportType
<1>1. PICK P, more, c, to :
        /\ P = Page /\ more = (Page # Selected)
        /\ c = IF more THEN "ask" ELSE "complete"
        /\ to = IF more THEN Max(Page) ELSE export.after
    OBVIOUS
<1>2. PICK e : e = [export EXCEPT !.pc = c, !.after = to, !.pages = Append(export.pages, P)]
    OBVIOUS
<1>3. export.pc = "query" /\ export' = e /\ UNCHANGED <<log, pod, stored>>
    BY Zenon, <1>1, <1>2 DEF QueryPage, streamVars, logVars
<1>4. export.after <= export.head /\ export.head <= Len(log) /\ Exported = Mine(export.after)
    BY <1>3 DEF LogInv, PageInv
<1>5. /\ Selected \in SUBSET Nat /\ P \in SUBSET Nat
      /\ \A s \in P : export.after < s
      /\ more => /\ to \in Nat /\ export.after <= to /\ to <= export.head
                 /\ Mine(to) = Mine(export.after) \cup P
      /\ ~more => Mine(export.head) = Mine(export.after) \cup P
    BY Zenon, <1>1, <1>4, PageMoves
<1>6. to \in Nat /\ c \in {"ask", "complete"} /\ more \in BOOLEAN
    BY <1>1, <1>5 DEF TypeOK, ExportType
<1>7. PICK ps : ps = Append(export.pages, P)
    BY Zenon
<1>8. export.pages \in Seq(SUBSET Nat) /\ ps \in Seq(SUBSET Nat)
    BY <1>5, <1>7 DEF TypeOK, ExportType
<1>9. PICK k \in Nat : /\ DOMAIN export.pages = 1..k /\ DOMAIN ps = 1..(k + 1)
                       /\ \A i \in 1..k : ps[i] = export.pages[i]
                       /\ ps[k + 1] = P
    BY <1>5, <1>7, <1>8
<1>10. /\ e \in ExportType
       /\ e.pc = c /\ e.after = to /\ e.pages = ps
       /\ e.head = export.head /\ e.broken = export.broken
    BY Zenon, <1>2, <1>6, <1>7, <1>8 DEF TypeOK, ExportType
<1>11. Exported' = Exported \cup P
  <2>1. \A i \in 1..(k + 1) : i \in 1..k \/ i = k + 1
    OBVIOUS
  <2>2. 1..k \subseteq 1..(k + 1) /\ k + 1 \in 1..(k + 1)
    OBVIOUS
  <2>3. UNION {ps[i] : i \in 1..(k + 1)} = (UNION {export.pages[i] : i \in 1..k}) \cup P
    BY <1>9, <2>1, <2>2
  <2> QED BY <1>3, <1>9, <1>10, <2>3 DEF Exported
<1>12. Ascending'
  <2> SUFFICES ASSUME NEW i \in 1..(k + 1), NEW j \in 1..(k + 1), i < j,
                      NEW s \in ps[i], NEW t \in ps[j]
               PROVE  s < t
    BY <1>3, <1>9, <1>10 DEF Ascending
  <2>1. CASE j \in 1..k
    <3>1. i \in 1..k BY <2>1
    <3> QED BY <1>9, <2>1, <3>1 DEF LogInv, PageInv, Ascending
  <2>2. CASE j = k + 1
    <3>1. i \in 1..k BY <2>2
    <3>2. s \in Exported BY <1>9, <3>1 DEF Exported
    <3>3. s \in Nat /\ s <= export.after BY <1>4, <3>2 DEF Mine, TypeOK, ExportType
    <3>4. t \in Nat /\ export.after < t BY Zenon, <1>5, <1>9, <2>2
    <3>5. export.after \in Nat BY DEF TypeOK, ExportType
    <3> QED BY <3>3, <3>4, <3>5
  <2> QED BY <2>1, <2>2
<1>13. PageInv'
  <2>1. \A h : Mine(h)' = Mine(h)
    BY <1>3 DEF Mine
  <2>2. export.after \in Nat /\ export.head \in Nat /\ Len(log) \in Nat
    BY LogDomain DEF TypeOK, ExportType
  <2>3. CASE more
    BY <1>1, <1>3, <1>4, <1>5, <1>10, <1>11, <1>12, <2>1, <2>2, <2>3 DEF PageInv
  <2>4. CASE ~more
    BY <1>1, <1>3, <1>4, <1>5, <1>10, <1>11, <1>12, <2>1, <2>2, <2>4 DEF PageInv
  <2> QED BY <2>3, <2>4
<1>14. ChainInv'
    BY Zenon, <1>3 DEF LogInv, ChainInv, Chained, Before
<1>15. PodInv'
    BY <1>3 DEF LogInv, PodInv, LastHash
<1>16. BrokenInv'
    BY <1>3, <1>10 DEF LogInv, BrokenInv
<1> QED BY <1>3, <1>10, <1>13, <1>14, <1>15, <1>16 DEF LogInv

-----------------------------------------------------------------------------
(* The invariant, and what follows from it.                                *)

\* The service begins with an empty queue and an empty log.
LEMMA InitInv == Init => AuditInv
<1> SUFFICES ASSUME Init PROVE AuditInv
    OBVIOUS
<1> USE DEF Init
<1>1. Down \in WorkType
    BY DEF Down, WorkType, Stages
<1>2. NoPage \in ExportType /\ NoPage.broken = 0 /\ NoPage.after = 0 /\ NoPage.head = 0
      /\ NoPage.pc = "ask" /\ NoPage.pages = <<>>
    BY DEF NoPage, ExportType
<1>3. log = <<>> /\ log \in Seq(RecordType) /\ DOMAIN log = {} /\ Len(log) = 0
    OBVIOUS
<1>4. TypeOK
    BY <1>1, <1>2, <1>3, FreeType DEF TypeOK
<1>5. \A w \in Workers : work[w].row = None /\ work[w].pc = "down" /\ work[w].since = {}
    BY DEF Down
<1>6. WorkInv
    BY <1>3, <1>5 DEF WorkInv, RowInv, RowOK, StreamInv, CoverInv, VouchInv, Vouches, Logged
<1>7. ChainInv /\ PodInv /\ BrokenInv
    BY Zenon, <1>2, <1>3 DEF ChainInv, PodInv, BrokenInv
<1>8. PageInv
  <2>1. Exported = {} /\ Ascending
    BY <1>2 DEF Exported, Ascending
  <2>2. Mine(0) = {}
    BY DEF Mine
  <2> QED BY <1>2, <1>3, <2>1, <2>2 DEF PageInv
<1> QED BY <1>4, <1>6, <1>7, <1>8 DEF AuditInv, LogInv

\* AuditInv is inductive.
LEMMA StepInv ==
    ASSUME AuditInv, Leasts, [Next]_vars
    PROVE  AuditInv'
<1>0. TypeOK /\ WorkInv /\ LogInv /\ PodInv
    BY DEF AuditInv, LogInv
<1>1. ASSUME NEW w \in Workers, Run(w) \/ Fails(w) PROVE AuditInv'
  <2>1. WorkInv'
    BY <1>0, <1>1, WorkerKeeps
  <2>2. /\ Worked(w) /\ journal' = journal /\ pending' \subseteq pending
        /\ stored \subseteq stored' /\ notified' \in SUBSET Workers
        /\ UNCHANGED <<log, pod, export>> /\ faults' \in Nat
    BY <1>0, <1>1, WorkerFrame DEF logVars
  <2>3. LogInv'
    BY <1>0, <2>2, LogKept
  <2>4. stored' \in SUBSET Decisions /\ due' \in SUBSET Decisions
    BY <1>0, <1>1, WorkerStream DEF WorkInv, RowInv
  <2>5. TypeOK'
    BY <1>0, <2>2, <2>4 DEF TypeOK, Worked
  <2> QED BY <2>1, <2>3, <2>5 DEF AuditInv
<1>2. ASSUME NEW d \in Decisions, Decide(d) PROVE AuditInv'
  <2>1. WorkInv'
    BY <1>0, <1>2, DecideKeeps
  <2>2. LogInv'
    BY <1>0, <1>2, LogKept DEF Decide, streamVars, logVars
  <2>3. TypeOK'
    BY <1>0, <1>2 DEF TypeOK, Decide, streamVars, logVars
  <2> QED BY <2>1, <2>2, <2>3 DEF AuditInv
<1>3. ASSUME NEW d \in Decisions, Existing(d) PROVE AuditInv'
  <2>1. UNCHANGED <<journal, pending, notified, work, stored, pod, log, export, faults>>
        /\ due' = due \ {d}
    BY <1>3 DEF Existing, journalVars, logVars
  <2>2. WorkInv'
    <3>1. StreamInv'
      BY <1>0, <1>3, <2>1 DEF WorkInv, StreamInv, Existing, Logged
    <3>2. RowInv' /\ CoverInv' /\ VouchInv'
      BY <1>0, <2>1 DEF WorkInv, RowInv, RowOK, CoverInv, Covers, VouchInv, Vouches
    <3> QED BY <3>1, <3>2 DEF WorkInv
  <2>3. LogInv'
    BY <1>0, <2>1, LogKept
  <2>4. TypeOK'
    BY <1>0, <2>1 DEF TypeOK
  <2> QED BY <2>2, <2>3, <2>4 DEF AuditInv
<1>4. ASSUME NEW p \in Pods, NEW d \in Decisions, ReadHead(p, d) PROVE AuditInv'
  <2>1. WorkInv'
    BY <1>0, <1>4, ServiceKeepsWork
  <2>2. LogInv' /\ pod' \in [Pods -> PodType]
    BY <1>0, <1>4, ReadHeadKeeps
  <2>3. TypeOK'
    BY <1>0, <1>4, <2>2 DEF TypeOK, ReadHead, journalVars, streamVars
  <2> QED BY <2>1, <2>2, <2>3 DEF AuditInv
<1>5. ASSUME NEW p \in Pods, InsertRecord(p) PROVE AuditInv'
  <2>1. pod[p].event \in Decisions
    BY <1>0, <1>5 DEF InsertRecord, PodInv, TypeOK
  <2>2. WorkInv'
    BY <1>0, <1>5, <2>1, ServiceKeepsWork
  <2>3. LogInv' /\ pod' \in [Pods -> PodType] /\ log' \in Seq(RecordType)
    BY <1>0, <1>5, InsertRecordKeeps
  <2>4. TypeOK'
    BY <1>0, <1>5, <2>3 DEF TypeOK, InsertRecord, journalVars
  <2> QED BY <2>2, <2>3, <2>4 DEF AuditInv
<1>6. ASSUME NEW p \in Pods, HandleFails(p) PROVE AuditInv'
  <2>1. pod[p].event \in Decisions
    BY <1>0, <1>6 DEF HandleFails, PodInv, TypeOK
  <2>2. WorkInv'
    BY <1>0, <1>6, <2>1, ServiceKeepsWork
  <2>3. LogInv' /\ pod' \in [Pods -> PodType]
    BY <1>0, <1>6, HandleFailsKeeps
  <2>4. TypeOK'
    BY <1>0, <1>6, <2>3 DEF TypeOK, HandleFails, Fault, journalVars, streamVars
  <2> QED BY <2>2, <2>3, <2>4 DEF AuditInv
<1>Still. ASSUME UNCHANGED <<journal, pending, notified, work, stored, due, log>>
      PROVE  WorkInv'
  <2>1. RowInv'
    BY Zenon, <1>0, <1>Still DEF WorkInv, RowInv, RowOK
  <2>2. StreamInv'
    BY Zenon, <1>0, <1>Still DEF WorkInv, StreamInv, Logged
  <2>3. CoverInv'
    BY Zenon, <1>0, <1>Still DEF WorkInv, CoverInv, Covers
  <2>4. VouchInv'
    BY Zenon, <1>0, <1>Still DEF WorkInv, VouchInv, Vouches
  <2> QED BY <2>1, <2>2, <2>3, <2>4 DEF WorkInv
<1>7. ASSUME Verify \/ QueryPage PROVE AuditInv'
  <2>1. UNCHANGED <<journal, pending, notified, work, stored, due, pod, log, faults>>
    BY <1>7 DEF Verify, QueryPage, journalVars, streamVars, logVars
  <2>2. WorkInv'
    BY <2>1, <1>Still
  <2>3. LogInv' /\ export' \in ExportType
    BY <1>0, <1>7, VerifyKeeps, QueryPageKeeps
  <2>4. TypeOK'
    BY <1>0, <2>1, <2>3 DEF TypeOK
  <2> QED BY <2>2, <2>3, <2>4 DEF AuditInv
<1>8. ASSUME UNCHANGED vars PROVE AuditInv'
  <2>1. UNCHANGED <<journal, pending, notified, work, stored, due, pod, log, export, faults>>
    BY <1>8 DEF vars, journalVars, streamVars, logVars
  <2>2. WorkInv'
    BY <2>1, <1>Still
  <2>3. LogInv'
    BY <1>0, <2>1, LogKept
  <2>4. TypeOK'
    BY <1>0, <2>1 DEF TypeOK
  <2> QED BY <2>2, <2>3, <2>4 DEF AuditInv
<1> QED BY <1>1, <1>2, <1>3, <1>4, <1>5, <1>6, <1>7, <1>8 DEF Next

-----------------------------------------------------------------------------
(* The theorems.                                                           *)

INSTANCE FiniteSetTheorems

\* A nonempty finite set of numbers has a least element.
LEMMA MinExists ==
    ASSUME NEW S \in SUBSET Nat, IsFiniteSet(S), S # {}
    PROVE  Min(S) \in S /\ \A j \in S : Min(S) =< j
<1> DEFINE Below(x) == {j \in S : j =< x}
           Belows == {Below(x) : x \in S}
<1>1. \A D \in Belows : D \in SUBSET S
    OBVIOUS
<1>2. \A D \in Belows : D \in FiniteSubsetsOf(S)
    BY <1>1, FS_Subset DEF FiniteSubsetsOf
<1>3. PICK D \in Belows : \A E \in Belows : ~(<<E, D>> \in StrictSubsetOrdering(S))
  <2>1. Belows # {} BY Zenon
  <2> HIDE DEF Belows
  <2> QED BY <1>2, <2>1, WFMin, FS_StrictSubsetOrderingWellFounded
<1>4. PICK x \in S : D = Below(x)
    OBVIOUS
<1>5. ASSUME NEW y \in S, y < x PROVE FALSE
  <2>1. \A j \in S : j =< y => j =< x BY <1>5
  <2>2. Below(y) \subseteq Below(x) BY Zenon, <2>1
  <2>3. x \in Below(x) /\ x \notin Below(y) BY <1>5
  <2>4. Below(y) \in Belows OBVIOUS
  <2> HIDE DEF Below, Belows
  <2> QED BY Zenon, <1>1, <1>3, <1>4, <2>2, <2>3, <2>4 DEF StrictSubsetOrdering
<1>6. \A y \in S : x =< y
    BY <1>5
<1> QED BY Zenon, <1>6 DEF Min

\* A nonempty finite set of numbers has a greatest element.
LEMMA MaxExists ==
    ASSUME NEW S \in SUBSET Nat, IsFiniteSet(S), S # {}
    PROVE  Max(S) \in S /\ \A j \in S : j =< Max(S)
<1> DEFINE Up(x) == {j \in S : x =< j}
           Ups == {Up(x) : x \in S}
<1>1. \A D \in Ups : D \in SUBSET S
    OBVIOUS
<1>2. \A D \in Ups : D \in FiniteSubsetsOf(S)
    BY <1>1, FS_Subset DEF FiniteSubsetsOf
<1>3. PICK D \in Ups : \A E \in Ups : ~(<<E, D>> \in StrictSubsetOrdering(S))
  <2>1. Ups # {} BY Zenon
  <2> HIDE DEF Ups
  <2> QED BY <1>2, <2>1, WFMin, FS_StrictSubsetOrderingWellFounded
<1>4. PICK x \in S : D = Up(x)
    OBVIOUS
<1>5. ASSUME NEW y \in S, x < y PROVE FALSE
  <2>1. \A j \in S : y =< j => x =< j BY <1>5
  <2>2. Up(y) \subseteq Up(x) BY Zenon, <2>1
  <2>3. x \in Up(x) /\ x \notin Up(y) BY <1>5
  <2>4. Up(y) \in Ups OBVIOUS
  <2> HIDE DEF Up, Ups
  <2> QED BY Zenon, <1>1, <1>3, <1>4, <2>2, <2>3, <2>4 DEF StrictSubsetOrdering
<1>6. \A y \in S : x >= y
    BY <1>5
<1>7. Max(S) \in S /\ \A y \in S : Max(S) >= y
    BY Zenon, <1>6 DEF Max
<1> QED BY <1>7

(***************************************************************************)
(* A page: the first Limit of the selected records are the selected ones   *)
(* up to the last of them (records[:limit] and its cursor, generate).      *)
(***************************************************************************)
LEMMA PageIsPrefix ==
    ASSUME Selected \in SUBSET Nat, IsFiniteSet(Selected), Selected # {}
    PROVE  /\ Max(Page) \in Selected
           /\ Page = {s \in Selected : s <= Max(Page)}
<1> DEFINE S == Selected
           P == Page
           L == Limit
<1>0. P = {s \in S : Cardinality({t \in S : t <= s}) <= L} /\ L \in Nat \ {0}
    BY Auditing DEF Page
<1> HIDE DEF S, P, L
<1>00. S \in SUBSET Nat /\ IsFiniteSet(S) /\ S # {}
    BY DEF S
<1>000. SUFFICES Max(P) \in S /\ P = {s \in S : s <= Max(P)}
    BY DEF S, P
<1> USE <1>0, <1>00
<1> DEFINE Upto(s) == {t \in S : t <= s}
<1>1. \A s : IsFiniteSet(Upto(s)) /\ Cardinality(Upto(s)) \in Nat
  <2>1. \A s : Upto(s) \in SUBSET S OBVIOUS
  <2> HIDE DEF Upto
  <2> QED BY <2>1, FS_Subset, FS_CardinalityType
<1>2. Min(S) \in P
  <2> DEFINE m == Min(S)
  <2>3. m \in S /\ m \in Nat /\ \A t \in S : m <= t BY Zenon, MinExists
  <2>4. \A t \in S : t <= m <=> t = m
    <3> HIDE DEF m
    <3> QED BY <2>3
  <2>1. Upto(m) = {m} BY Zenon, <2>3, <2>4
  <2>2. Cardinality(Upto(m)) = 1 BY Zenon, <2>1, FS_Singleton
  <2> HIDE DEF Upto
  <2> QED BY <2>2, <2>3 DEF Upto
<1>3. IsFiniteSet(P) /\ P \in SUBSET Nat /\ P \subseteq S
    BY Zenon, FS_Subset
<1>4. Max(P) \in P /\ \A s \in P : s <= Max(P)
    BY <1>2, <1>3, MaxExists
<1>5. ASSUME NEW s \in S, s <= Max(P) PROVE s \in P
  <2> DEFINE m == Max(P)
  <2>0. \A t \in S : t <= s => t <= m
    <3>1. m \in Nat /\ s \in Nat /\ s <= m BY Zenon, <1>3, <1>4, <1>5
    <3> HIDE DEF m
    <3> QED BY <3>1
  <2>1. Upto(s) \in SUBSET Upto(Max(P)) BY Zenon, <2>0
  <2>2. Cardinality(Upto(Max(P))) <= L BY <1>4
  <2>3. Cardinality(Upto(s)) <= Cardinality(Upto(Max(P)))
    <3> HIDE DEF Upto
    <3> QED BY <1>1, <2>1, FS_Subset
  <2>4. Cardinality(Upto(s)) <= L
    <3> HIDE DEF Upto
    <3> QED BY <1>1, <2>2, <2>3
  <2> QED BY <2>4
<1> QED BY Zenon, <1>3, <1>4, <1>5

\* The tenants ahead of a worker, and the rows it may lock, have a least one.
LEMMA AheadMin ==
    ASSUME TypeOK, NEW w \in Workers, Ahead(w) # {}
    PROVE  /\ Min(Ahead(w)) \in Nat
           /\ work[w].tenant < Min(Ahead(w))
           /\ \A d \in journal : work[w].tenant < TenantOf[d] => Min(Ahead(w)) <= TenantOf[d]
<1> DEFINE T == {TenantOf[d] : d \in journal}
<1>1. IsFiniteSet(journal)
    BY Auditing, FS_Subset DEF TypeOK
<1>2. IsFiniteSet(T)
  <2>1. [d \in journal |-> TenantOf[d]] \in Surjection(journal, T) BY DEF Surjection
  <2> QED BY <1>1, <2>1, FS_Surjection
<1>3. work[w].tenant \in Nat /\ T \in SUBSET (Nat \ {0})
    BY Auditing DEF TypeOK, WorkType
<1>4. Ahead(w) = {t \in T : work[w].tenant < t}
    BY <1>3 DEF Ahead
<1>5. Ahead(w) \in SUBSET Nat /\ IsFiniteSet(Ahead(w))
    BY <1>2, <1>3, <1>4, FS_Subset
<1>6. Min(Ahead(w)) \in Ahead(w) /\ \A t \in Ahead(w) : Min(Ahead(w)) <= t
    BY <1>5, MinExists
<1>7. \A d \in journal : TenantOf[d] \in T
    OBVIOUS
<1> HIDE DEF T
<1> QED BY Zenon, <1>3, <1>4, <1>6, <1>7

\* A worker's scan takes the first row that is due.
LEMMA RowsMin ==
    ASSUME TypeOK, NEW w \in Workers, Rows(w) # {}
    PROVE  Min(Rows(w)) \in Rows(w) /\ Min(Rows(w)) \in Decisions
<1>1. Rows(w) \in SUBSET Decisions
    BY DEF Rows, TypeOK
<1>2. Decisions \in SUBSET Nat /\ IsFiniteSet(Decisions)
    BY Auditing, FS_CardinalityType
<1> QED BY <1>1, <1>2, FS_Subset, MinExists

\* The sets whose least member is taken are finite sets of numbers.
LEMMA LeastsHold ==
    ASSUME TypeOK
    PROVE  Leasts
<1>1. \A S \in SUBSET DOMAIN log : IsFiniteSet(S) /\ S \in SUBSET Nat
  <2>1. IsFiniteSet(1..Len(log))
    BY LogDomain, FS_Interval
  <2> QED BY <2>1, LogDomain, FS_Subset
<1>2. Broken(log) \in SUBSET DOMAIN log /\ Selected \in SUBSET DOMAIN log
    BY DEF Broken, Selected
<1>3. Broken(log) # {} => Min(Broken(log)) \in Broken(log)
    BY <1>1, <1>2, MinExists
<1>4. Selected # {} => Max(Page) \in Selected /\ Page = {s \in Selected : s <= Max(Page)}
    BY <1>1, <1>2, PageIsPrefix
<1> QED BY <1>3, <1>4, AheadMin, RowsMin DEF Leasts

\* The invariant holds in every state of the delivery, the log and its export.
THEOREM AuditAlways == Spec => []AuditInv
<1>1. AuditInv /\ [Next]_vars => AuditInv'
    BY StepInv, LeastsHold DEF AuditInv
<1> QED BY <1>1, InitInv, PTL DEF Spec

(***************************************************************************)
(* For any workers and replicas, whatever fails: a decision that took      *)
(* effect is queued, in the stream or in the log, and nothing else is      *)
(* (DeliverOne deletes a row after its publication is acknowledged).       *)
(***************************************************************************)
THEOREM EvidenceKeptAlways == Spec => []EvidenceKept
<1>1. AuditInv => EvidenceKept
    BY DEF AuditInv, WorkInv, StreamInv, EvidenceKept
<1> QED BY <1>1, AuditAlways, PTL

(***************************************************************************)
(* For any workers: when all wait after a scan without a failure and none  *)
(* has a notification to read, the queue is empty (Run listens before it   *)
(* scans).                                                                 *)
(***************************************************************************)
THEOREM QuietMeansDrainedAlways == Spec => []QuietMeansDrained
<1>1. AuditInv => QuietMeansDrained
    BY DEF AuditInv, WorkInv, CoverInv, Covers, QuietMeansDrained
<1> QED BY <1>1, AuditAlways, PTL

(***************************************************************************)
(* For any workers and tenants: what a scan that ends healthy and without  *)
(* a backlog vouches for has left the queue (Run sets its gauges).         *)
(***************************************************************************)
THEOREM MetricsAreTrueAlways == Spec => []MetricsAreTrue
<1>1. AuditInv => MetricsAreTrue
    BY DEF AuditInv, WorkInv, VouchInv, Vouches, MetricsAreTrue
<1> QED BY <1>1, AuditAlways, PTL

(***************************************************************************)
(* For any replicas and any clock: a record Verify finds fault with        *)
(* follows its predecessor and was cut from the time it was hashed with    *)
(* (Append serialises under its advisory lock).                            *)
(***************************************************************************)
THEOREM BrokenOnlyByRoundingAlways == Spec => []BrokenOnlyByRounding
<1>1. AuditInv => BrokenOnlyByRounding
  <2> SUFFICES ASSUME AuditInv, NEW b, b = export.broken, b # 0, NEW r, r = log[b]
               PROVE  /\ r.prev = IF r.seq = 1 THEN Genesis ELSE log[r.seq - 1].hash
                      /\ \E at \in Readings :
                          /\ at # r.at /\ Timestamptz(at) = r.at
                          /\ r.hash = ChainNext(r.prev, Canonical([r EXCEPT !.at = at]))
    BY DEF BrokenOnlyByRounding
  <2>1. b \in Broken(log)
    BY DEF AuditInv, LogInv, BrokenInv
  <2>2. b \in DOMAIN log /\ Chained(b)
    BY <2>1 DEF Broken, AuditInv, LogInv, ChainInv
  <2>3. r \in RecordType
    BY <2>2 DEF AuditInv, TypeOK
  <2>4. r.seq = b /\ r.prev = Before(b)
    BY Zenon, <2>2 DEF Chained
  <2>5. r.hash # ChainNext(Before(b), Canonical(r))
    BY Zenon, <2>1, <2>4 DEF Broken, Before
  <2>6. PICK at \in Readings :
          /\ r.at = Timestamptz(at)
          /\ r.hash = ChainNext(r.prev, [seq |-> r.seq, event |-> r.event, at |-> at])
    BY Zenon, <2>2 DEF Chained
  <2>7. at # r.at
    BY <2>4, <2>5, <2>6 DEF Canonical
  <2>8. Canonical([r EXCEPT !.at = at]) = [seq |-> r.seq, event |-> r.event, at |-> at]
    BY <2>3 DEF Canonical, RecordType
  <2> QED BY <2>4, <2>6, <2>7, <2>8 DEF Before
<1> QED BY <1>1, AuditAlways, PTL

(***************************************************************************)
(* For any page size and any appends between two pages: a complete export  *)
(* is the tenant's log up to the head last verified, each record once and  *)
(* in order (generate's cursor and the head it is held to).                *)
(***************************************************************************)
THEOREM ExportIsWholeAlways == Spec => []ExportIsWhole
<1>1. AuditInv => ExportIsWhole
    BY DEF AuditInv, LogInv, PageInv, Exported, Mine, Ascending, ExportIsWhole
<1> QED BY <1>1, AuditAlways, PTL
=============================================================================
