------------------------- MODULE ExecutionRecovery -------------------------
(***************************************************************************)
(* Recovery of one order's executions: the OMS compares what the venue     *)
(* executed with its own journal, writes what is missing, corrects fees    *)
(* that two people signed, and closes a case when the position book and    *)
(* the ledger have both confirmed every execution of it                    *)
(* (services/oms/internal/order/recovery_*.go, fee_*.go,                   *)
(* services/oms/internal/position, services/accounting/internal/ledger).   *)
(*                                                                         *)
(* Of an execution only its identity and its fee are kept: a fee is the    *)
(* one thing a correction may change (SameExecutionExceptFee).             *)
(*                                                                         *)
(*   venue    the fee the venue reports for an execution, or None          *)
(*   moves    how often the venue has changed a fee                        *)
(*   head     the fee each of OMS and books has on record, or None         *)
(*   entry    the fee each first booked, and the correction it came with   *)
(*   done     the cases whose corrections OMS and books have recorded      *)
(*   case     the execution_recovery_cases row with its history, its       *)
(*            fee proposal and its signature                               *)
(*   acks     per case, the acknowledgements received                      *)
(*   told     the acknowledgements the books have published                *)
(*   inbox    per book, the execution FACTs to be delivered                *)
(*   parked   per book, the ones on the dead-letter subject                *)
(*   alarms   cases with a parked FACT that the OMS has yet to hear of     *)
(*   plan     what a handler has decided to do from what it read           *)
(*   fresh    handlers for which the order's version is the one they read  *)
(*   current  handlers for which the case's version is the one they read   *)
(*   failures deliveries that failed so far                                *)
(***************************************************************************)
EXTENDS Integers, FiniteSets

CONSTANTS
    Execs,        \* the order's executions
    Cases,        \* observations that the venue and the OMS disagree
    Books,        \* the position book and the ledger
    Handlers,     \* OMS handlers of recovery events and fee approvals
    Fees,         \* fees an execution may have
    First,        \* the fee an execution is first reported with
    Streamed,     \* executions the adapter's stream also reports to the books
    Faulty,       \* books whose deliveries may fail
    MaxMoves,     \* bound on moves
    MaxFailures,  \* bound on failures
    Oms,          \* the OMS's own journal
    None

ASSUME Recovering ==
    /\ First \in Fees /\ None \notin Fees \cup Cases
    /\ None \notin [Execs -> Fees \cup {None}]
    /\ Oms \notin Books
    /\ IsFiniteSet(Execs) /\ IsFiniteSet(Books)
    /\ MaxMoves \in Nat /\ MaxFailures \in Nat

VARIABLES
    venue, moves, head, entry, done, case, acks, told, inbox, parked, alarms,
    plan, fresh, current, failures

venueVars == <<venue, moves>>
bookVars == <<told, parked, alarms>>
workVars == <<plan, fresh, current>>
vars == <<venueVars, head, entry, done, case, acks, inbox, bookVars, workVars, failures>>

Idle == [case |-> None, act |-> "none"]
MaybeFee == Fees \cup {None}
Facts == [case : Cases \cup {None}, exec : Execs, fee : Fees, prev : MaybeFee]
Statuses == {"observed", "investigating", "blocked", "corrected"}
Histories == [Execs -> MaybeFee]

RecoveryCase ==
    [status : Statuses, history : Histories \cup {None}, committed : BOOLEAN,
     changes : Histories \cup {None}, signed : BOOLEAN]

TypeOK ==
    /\ venue \in Histories /\ moves \in 0..MaxMoves
    /\ head \in [Books \cup {Oms} -> Histories]
    /\ entry \in [Books \cup {Oms} -> [Execs -> [fee : MaybeFee, by : Cases \cup {None}]]]
    /\ done \in [Books \cup {Oms} -> [Execs -> SUBSET Cases]]
    /\ case \in [Cases -> RecoveryCase]
    /\ acks \in [Cases -> SUBSET (Execs \X Books)]
    /\ told \subseteq Cases \X Execs \X Books
    /\ inbox \in [Books -> SUBSET Facts] /\ parked \in [Books -> SUBSET Facts]
    /\ alarms \subseteq Cases
    /\ plan \in [Handlers -> [case : Cases \cup {None}, act : {"none", "commit", "block"}]]
    /\ fresh \subseteq Handlers /\ current \subseteq Handlers
    /\ failures \in 0..MaxFailures

Nothing == [x \in Execs |-> None]

Init ==
    /\ venue = Nothing /\ moves = 0
    /\ head = [b \in Books \cup {Oms} |-> Nothing]
    /\ entry = [b \in Books \cup {Oms} |-> [x \in Execs |-> [fee |-> None, by |-> None]]]
    /\ done = [b \in Books \cup {Oms} |-> [x \in Execs |-> {}]]
    /\ case = [c \in Cases |-> [status |-> "observed", history |-> None, committed |-> FALSE,
                                changes |-> None, signed |-> FALSE]]
    /\ acks = [c \in Cases |-> {}] /\ told = {}
    /\ inbox = [b \in Books |-> {}] /\ parked = [b \in Books |-> {}] /\ alarms = {}
    /\ plan = [h \in Handlers |-> Idle] /\ fresh = {} /\ current = {}
    /\ failures = 0

-----------------------------------------------------------------------------
Fill(x, f) == [case |-> None, exec |-> x, fee |-> f, prev |-> None]

\* Every book has a consumer group of its own
Announced(facts) == [b \in Books |-> inbox[b] \cup facts]

\* The venue executes; the adapter's stream publishes a fill, or misses it
Execute(x) ==
    /\ venue[x] = None
    /\ venue' = [venue EXCEPT ![x] = First]
    /\ inbox' = IF x \in Streamed THEN Announced({Fill(x, First)}) ELSE inbox
    /\ UNCHANGED <<moves, head, entry, done, case, acks, bookVars, workVars, failures>>

ReviseFee(x, f) ==
    /\ venue[x] \notin {None, f} /\ moves < MaxMoves
    /\ venue' = [venue EXCEPT ![x] = f] /\ moves' = moves + 1
    /\ UNCHANGED <<head, entry, done, case, acks, inbox, bookVars, workVars, failures>>

\* The OMS folds a fill it is given: claim, journal, order and FACT in one
\* transaction (Save with a fill)
FoldFill(x) ==
    /\ venue[x] # None /\ head[Oms][x] = None
    /\ head' = [head EXCEPT ![Oms][x] = venue[x]]
    /\ entry' = [entry EXCEPT ![Oms][x] = [fee |-> venue[x], by |-> None]]
    /\ inbox' = Announced({Fill(x, venue[x])})
    /\ fresh' = {}
    /\ UNCHANGED <<venueVars, done, case, acks, bookVars, plan, current, failures>>

-----------------------------------------------------------------------------
\* Any write to the row of c is conditional on its version, and moves it
Bumped(c) == {h \in current : plan[h].case # c}

\* The cases with c in another status
Closed(c, status) == [case EXCEPT ![c] = [case[c] EXCEPT !.status = status]]

\* HandleRecovery of a case nobody has looked into: the venue's complete
\* history is frozen, or something about the case stops the investigation
Freeze(c) ==
    /\ case[c].status = "observed"
    /\ \/ case' = [case EXCEPT ![c] = [case[c] EXCEPT !.status = "investigating", !.history = venue]]
       \/ case' = Closed(c, "blocked")
    /\ UNCHANGED <<venueVars, head, entry, done, acks, inbox, bookVars, workVars, failures>>

\* The executions of c's history
Targets(c) == {x \in Execs : case[c].history[x] # None}

\* approvedFeeChanges: the signed changes of c, if there are any
Approved(c, x) == IF case[c].signed THEN case[c].changes[x] ELSE None

(***************************************************************************)
(* What CommitRecovery cannot commit: a signed change whose baseline is no *)
(* longer the journal's, a journalled execution the history does not have, *)
(* or has with another fee that nobody signed.                             *)
(***************************************************************************)
Contradicted(c) ==
    \E x \in Execs :
        \/ Approved(c, x) \notin {None, head[Oms][x]}
        \/ /\ head[Oms][x] # None
           /\ \/ case[c].history[x] = None
              \/ case[c].history[x] # head[Oms][x] /\ Approved(c, x) = None

\* CommitRecovery up to its transaction, by HandleRecovery or, after a signature,
\* by HandleFeeCorrection: case, history, order, journal and approval are read
Compare(h, c) ==
    /\ plan[h] = Idle
    /\ case[c].status = "investigating" /\ ~case[c].committed
    /\ plan' = [plan EXCEPT ![h] =
                  [case |-> c, act |-> IF Contradicted(c) THEN "block" ELSE "commit"]]
    /\ fresh' = fresh \cup {h} /\ current' = current \cup {h}
    /\ UNCHANGED <<venueVars, head, entry, done, case, acks, inbox, bookVars, failures>>

Recovered(c, x) ==
    [case |-> c, exec |-> x, fee |-> case[c].history[x], prev |-> Approved(c, x)]

\* The transaction's writes: journal and order, corrections, case and FACTs
Write(c) ==
    /\ head' = [head EXCEPT ![Oms] = [x \in Execs |->
                    IF x \in Targets(c) THEN case[c].history[x] ELSE head[Oms][x]]]
    /\ entry' = [entry EXCEPT ![Oms] = [x \in Execs |->
                    IF x \in Targets(c) /\ head[Oms][x] = None
                    THEN [fee |-> case[c].history[x], by |-> None] ELSE entry[Oms][x]]]
    /\ done' = [done EXCEPT ![Oms] = [x \in Execs |->
                    IF Approved(c, x) # None THEN done[Oms][x] \cup {c} ELSE done[Oms][x]]]
    /\ case' = [case EXCEPT ![c] = [case[c] EXCEPT !.committed = TRUE,
                    !.status = IF Targets(c) = {} THEN "corrected" ELSE case[c].status]]
    /\ inbox' = Announced({Recovered(c, x) : x \in Targets(c)})
    /\ fresh' = {} /\ current' = Bumped(c)

\* A bug in CommitRecovery: the order is written whatever its version
CommitUnversioned(h) ==
    LET c == plan[h].case IN
    /\ plan[h].act = "commit" /\ plan' = [plan EXCEPT ![h] = Idle]
    /\ IF h \in current
       THEN Write(c)
       ELSE /\ fresh' = fresh \ {h} /\ current' = current \ {h}
            /\ UNCHANGED <<head, entry, done, case, inbox>>
    /\ UNCHANGED <<venueVars, acks, bookVars, failures>>

\* CommitRecovery's transaction: journal and order, corrections, case, targets
\* and FACTs, if neither the order nor the case has moved
Commit(h) ==
    LET c == plan[h].case IN
    /\ plan[h].act = "commit" /\ plan' = [plan EXCEPT ![h] = Idle]
    /\ IF h \in fresh \cap current
       THEN Write(c)
       ELSE /\ fresh' = fresh \ {h} /\ current' = current \ {h}
            /\ UNCHANGED <<head, entry, done, case, inbox>>
    /\ UNCHANGED <<venueVars, acks, bookVars, failures>>

\* blockRecovery, if the case has not moved
Block(h) ==
    LET c == plan[h].case IN
    /\ plan[h].act = "block" /\ plan' = [plan EXCEPT ![h] = Idle]
    /\ fresh' = fresh \ {h}
    /\ IF h \in current
       THEN case' = Closed(c, "blocked") /\ current' = Bumped(c)
       ELSE case' = case /\ current' = current \ {h}
    /\ UNCHANGED <<venueVars, head, entry, done, acks, inbox, bookVars, failures>>

\* The handler dies or returns an error; its message comes again
Abandon(h) ==
    /\ plan[h] # Idle /\ plan' = [plan EXCEPT ![h] = Idle]
    /\ fresh' = fresh \ {h} /\ current' = current \ {h}
    /\ UNCHANGED <<venueVars, head, entry, done, case, acks, inbox, bookVars, failures>>

-----------------------------------------------------------------------------
Open(c) == ~case[c].committed /\ case[c].status \in {"blocked", "investigating"}

\* ProposeFeeCorrection: the fees in which history and journal differ; it
\* writes the order's row to serialise with fills
ProposeFeeCorrection(c) ==
    /\ Open(c) /\ case[c].history # None /\ case[c].changes = None
    /\ \A x \in Execs : head[Oms][x] # None => case[c].history[x] # None
    /\ LET Differs(x) == head[Oms][x] \notin {None, case[c].history[x]} IN
       /\ \E x \in Execs : Differs(x)
       /\ case' = [case EXCEPT ![c] = [case[c] EXCEPT !.changes =
                      [x \in Execs |-> IF Differs(x) THEN head[Oms][x] ELSE None]]]
    /\ fresh' = {}
    /\ UNCHANGED <<venueVars, head, entry, done, acks, inbox, bookVars, plan, current, failures>>

\* ApproveFeeCorrection by somebody else, in time, of these changes
ApproveFeeCorrection(c) ==
    /\ Open(c) /\ case[c].changes # None /\ ~case[c].signed
    /\ case' = [case EXCEPT ![c] = [case[c] EXCEPT !.signed = TRUE, !.status = "investigating"]]
    /\ current' = Bumped(c)
    /\ UNCHANGED <<venueVars, head, entry, done, acks, inbox, bookVars, plan, fresh, failures>>

\* HandleFeeCorrection blocks the case on an approval that does not qualify
RefuseApproval(c) ==
    /\ Open(c) /\ case[c].changes # None /\ ~case[c].signed
    /\ case' = Closed(c, "blocked")
    /\ current' = Bumped(c)
    /\ UNCHANGED <<venueVars, head, entry, done, acks, inbox, bookVars, plan, fresh, failures>>

-----------------------------------------------------------------------------
\* The case's correction is on record already (RecordFeeRevision's no-op)
Repeated(b, m) == m.prev # None /\ m.case \in done[b][m.exec]

\* A bug in ApprovedFeeDelta: a correction is taken whatever fee it corrects
AgreesAnyBaseline(b, m) ==
    \/ head[b][m.exec] = None \/ Repeated(b, m) \/ m.prev # None
    \/ m.prev = None /\ m.fee = head[b][m.exec]
    \/ m.case = None /\ m.fee = entry[b][m.exec].fee

(***************************************************************************)
(* Whether a book takes a FACT: an execution it does not have, a           *)
(* correction it has recorded or whose baseline is the fee on record, or a *)
(* repetition of the fee on record; an ordinary fill may also repeat the   *)
(* fee first booked (verifyPositionDuplicate, prepareExecutionEntry).      *)
(***************************************************************************)
Agrees(b, m) ==
    \/ head[b][m.exec] = None \/ Repeated(b, m) \/ m.prev = head[b][m.exec]
    \/ m.prev = None /\ m.fee = head[b][m.exec]
    \/ m.case = None /\ m.fee = entry[b][m.exec].fee

Alarmed(m) == alarms \cup ({m.case} \ {None})

\* The FACT is done with, or its bus acknowledgement is lost and it comes again
Taken(b, m) ==
    \/ inbox' = [inbox EXCEPT ![b] = @ \ {m}] /\ UNCHANGED failures
    \/ /\ b \in Faulty /\ failures < MaxFailures /\ failures' = failures + 1
       /\ UNCHANGED inbox

\* One transaction of a book (Apply, Append): entry, correction, outbox and
\* acknowledgement
FoldFact(b, m) ==
    LET x == m.exec
        new == head[b][x] = None
        corrects == m.prev # None /\ ~Repeated(b, m)
    IN
    /\ m \in inbox[b] /\ Agrees(b, m) /\ Taken(b, m)
    /\ head' = [head EXCEPT ![b][x] = IF new \/ corrects THEN m.fee ELSE head[b][x]]
    /\ entry' = [entry EXCEPT ![b][x] =
            IF new THEN [fee |-> m.fee, by |-> IF corrects THEN m.case ELSE None]
            ELSE entry[b][x]]
    /\ done' = [done EXCEPT ![b][x] = 
            IF corrects THEN done[b][x] \cup {m.case} ELSE done[b][x]]
    /\ told' = told \cup ({<<m.case, x, b>>} \ {<<None, x, b>>})
    /\ UNCHANGED <<venueVars, case, acks, parked, alarms, workVars>>

ParkFact(b, m) ==
    /\ m \in inbox[b]
    /\ inbox' = [inbox EXCEPT ![b] = @ \ {m}]
    /\ parked' = [parked EXCEPT ![b] = @ \cup {m}] /\ alarms' = Alarmed(m)
    /\ UNCHANGED <<venueVars, head, entry, done, case, acks, told, workVars>>

\* A FACT the book contradicts is refused and parked
RefuseFact(b, m) == ~Agrees(b, m) /\ ParkFact(b, m) /\ UNCHANGED failures

\* A fold fails for a reason of its own, and its FACT is parked
FailFold(b, m) ==
    /\ b \in Faulty /\ failures < MaxFailures /\ failures' = failures + 1
    /\ ParkFact(b, m)

\* A bug in the redriver: what is taken off the dead-letter subject is dropped
RedriveLoses(b, m) ==
    /\ m \in parked[b]
    /\ parked' = [parked EXCEPT ![b] = @ \ {m}]
    /\ UNCHANGED <<venueVars, head, entry, done, case, acks, told, inbox, alarms, workVars, failures>>

\* The redriver returns a parked FACT to its subject
Redrive(b, m) ==
    /\ m \in parked[b]
    /\ parked' = [parked EXCEPT ![b] = @ \ {m}]
    /\ inbox' = [inbox EXCEPT ![b] = @ \cup {m}]
    /\ UNCHANGED <<venueVars, head, entry, done, case, acks, told, alarms, workVars, failures>>

-----------------------------------------------------------------------------
\* A bug in AcknowledgeRecovery: one book's word closes the case
AcknowledgeOneBook(c, x, b) ==
    /\ <<c, x, b>> \in told /\ case[c].status # "corrected"
    /\ acks' = [acks EXCEPT ![c] = acks[c] \cup {<<x, b>>}]
    /\ IF Cardinality(acks[c] \cup {<<x, b>>}) >= Cardinality(Targets(c))
       THEN case' = Closed(c, "corrected") /\ current' = Bumped(c)
       ELSE UNCHANGED <<case, current>>
    /\ UNCHANGED <<venueVars, head, entry, done, inbox, bookVars, plan, fresh, failures>>

\* A bug in AcknowledgeRecovery: a blocked case takes no acknowledgement
AcknowledgeUnblocked(c, x, b) ==
    /\ <<c, x, b>> \in told /\ case[c].status = "investigating" /\ <<x, b>> \notin acks[c]
    /\ acks' = [acks EXCEPT ![c] = acks[c] \cup {<<x, b>>}]
    /\ IF Cardinality(acks[c] \cup {<<x, b>>}) = Cardinality(Targets(c) \X Books)
       THEN case' = Closed(c, "corrected") /\ current' = Bumped(c)
       ELSE UNCHANGED <<case, current>>
    /\ UNCHANGED <<venueVars, head, entry, done, inbox, bookVars, plan, fresh, failures>>

\* AcknowledgeRecovery: the case is corrected when every book has confirmed every
\* target, blocked or not
AcknowledgeRecovery(c, x, b) ==
    /\ <<c, x, b>> \in told /\ case[c].status # "corrected" /\ <<x, b>> \notin acks[c]
    /\ acks' = [acks EXCEPT ![c] = acks[c] \cup {<<x, b>>}]
    /\ IF Cardinality(acks[c] \cup {<<x, b>>}) = Cardinality(Targets(c) \X Books)
       THEN case' = Closed(c, "corrected") /\ current' = Bumped(c)
       ELSE UNCHANGED <<case, current>>
    /\ UNCHANGED <<venueVars, head, entry, done, inbox, bookVars, plan, fresh, failures>>

\* A bug in HandleRecoveryParked: a corrected case is blocked
ParkCorrected(c) ==
    /\ c \in alarms /\ alarms' = alarms \ {c}
    /\ case' = Closed(c, "blocked") /\ current' = Bumped(c)
    /\ UNCHANGED <<venueVars, head, entry, done, acks, told, inbox, parked, plan, fresh, failures>>

\* HandleRecoveryParked: a parked FACT of the case blocks it, unless it is closed
HandleRecoveryParked(c) ==
    /\ c \in alarms /\ alarms' = alarms \ {c}
    /\ IF case[c].status \in {"corrected", "blocked"}
       THEN UNCHANGED <<case, current>>
       ELSE case' = Closed(c, "blocked") /\ current' = Bumped(c)
    /\ UNCHANGED <<venueVars, head, entry, done, acks, told, inbox, parked, plan, fresh, failures>>

-----------------------------------------------------------------------------
VenueStep == \E x \in Execs : Execute(x) \/ FoldFill(x) \/ \E f \in Fees : ReviseFee(x, f)

HandlerStep ==
    \E h \in Handlers :
        Commit(h) \/ Block(h) \/ Abandon(h) \/ \E c \in Cases : Compare(h, c)

CaseStep ==
    \E c \in Cases :
        \/ Freeze(c) \/ ProposeFeeCorrection(c) \/ ApproveFeeCorrection(c)
        \/ RefuseApproval(c) \/ HandleRecoveryParked(c)
        \/ \E x \in Execs, b \in Books : AcknowledgeRecovery(c, x, b)

BookStep ==
    \E b \in Books :
        \/ \E m \in inbox[b] : FoldFact(b, m) \/ RefuseFact(b, m) \/ FailFold(b, m)
        \/ \E m \in parked[b] : Redrive(b, m)

Next == VenueStep \/ HandlerStep \/ CaseStep \/ BookStep

Spec == Init /\ [][Next]_vars

-----------------------------------------------------------------------------
(***************************************************************************)
(* Fairness: the relays publish what is enqueued, the bus delivers a       *)
(* message again until a handler has got through with it, and operators    *)
(* redrive what is parked. A handler that is given up and begun again with *)
(* every delivery gets through in the end, which is strong fairness of its *)
(* steps. Nothing makes the venue execute or people sign.                  *)
(***************************************************************************)
Fairness ==
    /\ \A c \in Cases : WF_vars(Freeze(c)) /\ WF_vars(HandleRecoveryParked(c))
    /\ \A h \in Handlers :
        /\ \A c \in Cases : SF_vars(Compare(h, c))
        /\ SF_vars(Commit(h)) /\ SF_vars(Block(h))
    /\ \A c \in Cases, x \in Execs, b \in Books : WF_vars(AcknowledgeRecovery(c, x, b))
    /\ \A b \in Books, c \in Cases \cup {None}, x \in Execs :
        LET Of(m) == m.case = c /\ m.exec = x IN
        /\ WF_vars(\E m \in inbox[b] : Of(m) /\ (FoldFact(b, m) \/ RefuseFact(b, m)))
        /\ WF_vars(\E m \in parked[b] : Of(m) /\ Redrive(b, m))

FairSpec == Spec /\ Fairness

-----------------------------------------------------------------------------
(***************************************************************************)
(* A corrected case is in all the books: every execution of its history is *)
(* in the OMS's journal, in the position book and in the ledger, and each  *)
(* of the three has recorded the fee corrections signed in it              *)
(* (AcknowledgeRecovery closes a case "only after both books confirm every *)
(* target").                                                               *)
(***************************************************************************)
CorrectedIsBooked ==
    \A c \in Cases : case[c].status = "corrected" =>
        \A x \in Targets(c), b \in Books \cup {Oms} :
            /\ head[b][x] # None
            /\ Approved(c, x) # None => c \in done[b][x]

(***************************************************************************)
(* A corrected case stays corrected, a committed one is not committed      *)
(* again, opened or signed late, and the history that was frozen and the   *)
(* changes that were signed never become others (FreezeRecoveryHistory,    *)
(* CommitRecovery, ApproveFeeCorrection, BlockRecovery).                   *)
(***************************************************************************)
CaseIsFinal ==
    [][\A c \in Cases :
        /\ case[c].status = "corrected" => case'[c] = case[c]
        /\ case[c].committed =>
            case'[c] = [case[c] EXCEPT !.status = case'[c].status]
        /\ case[c].history # None => case'[c].history = case[c].history
        /\ case[c].signed => case'[c].signed /\ case'[c].changes = case[c].changes]_vars

(***************************************************************************)
(* No journal loses an execution, and none changes a fee on record except  *)
(* by a signed correction that names the fee it replaces and that this     *)
(* journal records with the change, once (RecordFeeRevision; cash moves by *)
(* exactly this difference, feeAdjustment).                                *)
(***************************************************************************)
FeesMoveBySignature ==
    [][\A b \in Books \cup {Oms}, x \in Execs :
        head[b][x] # None /\ head'[b][x] # head[b][x] =>
            \E c \in Cases :
                /\ case[c].signed /\ case[c].changes[x] = head[b][x]
                /\ case[c].history[x] = head'[b][x]
                /\ done'[b][x] \ done[b][x] = {c}]_vars

\* What is still on its way to b, or parked, about x
Underway(b, x) == {m \in inbox[b] \cup parked[b] : m.exec = x}

(***************************************************************************)
(* A book that first booked an execution at the fee the OMS did has the    *)
(* OMS's fee and the OMS's corrections on record once no FACT about the    *)
(* execution is on its way or parked, whatever order the corrections came  *)
(* in: a disagreement always shows as a parked FACT (the conflict errors   *)
(* of verifyPositionDuplicate and prepareExecutionEntry). It is not so for *)
(* a book that first booked another fee, from the venue's stream, or that  *)
(* first heard of the execution through a correction: corrections that     *)
(* come in another order may then all be taken and end in another fee.     *)
(***************************************************************************)
FeesAgree ==
    \A b \in Books, x \in Execs :
        entry[b][x] = entry[Oms][x] /\ Underway(b, x) = {} =>
            head[b][x] = head[Oms][x] /\ done[b][x] = done[Oms][x]

(***************************************************************************)
(* What the OMS has journalled reaches both books, however often a fold    *)
(* fails and its FACT is parked and driven again (FoldFill and             *)
(* CommitRecovery enqueue the FACT with the journal entry).                *)
(***************************************************************************)
BooksFollow ==
    \A b \in Books, x \in Execs : head[Oms][x] # None ~> head[b][x] # None

\* A book contradicts a FACT of c
Disputed(c) == \E b \in Books : \E m \in inbox[b] \cup parked[b] : m.case = c /\ ~Agrees(b, m)

(***************************************************************************)
(* A case is closed: it ends blocked, for an operator, or corrected, and   *)
(* once the OMS has committed it it ends corrected, even from blocked,     *)
(* unless a book contradicts one of its FACTs for ever (HandleRecovery,    *)
(* AcknowledgeRecovery, HandleRecoveryParked).                             *)
(***************************************************************************)
CasesClose ==
    \A c \in Cases :
        /\ []<>(case[c].status \in {"blocked", "corrected"})
        /\ (case[c].committed ~> case[c].status = "corrected") \/ []<>Disputed(c)
=============================================================================
