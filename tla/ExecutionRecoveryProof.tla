----------------------- MODULE ExecutionRecoveryProof -----------------------
(***************************************************************************)
(* What recovery promises, proved for any executions, cases, books,        *)
(* handlers, fees and failures.                                            *)
(***************************************************************************)
EXTENDS ExecutionRecovery, TLAPS

\* What sets the constants apart.
LEMMA Apart == None \notin Fees /\ None \notin Cases /\ Oms \notin Books /\ First \in Fees
BY Zenon, Recovering

\* The bounds are numbers.
LEMMA Bounds == MaxMoves \in Nat /\ MaxFailures \in Nat
BY Zenon, Recovering

\* What a case's fields say of one another.
CaseInv ==
    \A c \in Cases :
        /\ case[c].status = "observed" => case[c].history = None
        /\ case[c].status = "investigating" => case[c].history # None
        /\ case[c].changes # None => case[c].history # None
        /\ case[c].signed => case[c].changes # None
        /\ case[c].committed => case[c].history # None
        /\ case[c].status = "corrected" => case[c].committed

\* While a handler's versions are current, what it read is still so.
PlanInv ==
    \A h \in Handlers : plan[h].act # "none" =>
        /\ plan[h].case \in Cases
        /\ h \in current =>
            /\ case[plan[h].case].status = "investigating"
            /\ ~case[plan[h].case].committed
        /\ h \in fresh \cap current /\ plan[h].act = "commit" => ~Contradicted(plan[h].case)

\* A FACT of a case says what the committed case says.
Sound(m) ==
    IF m.case = None
    THEN m.prev = None
    ELSE /\ case[m.case].committed
         /\ case[m.case].history[m.exec] = m.fee
         /\ m.prev = Approved(m.case, m.exec)

FactInv ==
    \A b \in Books :
        /\ \A m \in inbox[b] : Sound(m)
        /\ \A m \in parked[b] : Sound(m)

\* x is on record with b, together with what c corrects about it.
Has(b, c, x) == head[b][x] # None /\ (Approved(c, x) # None => c \in done[b][x])

ToldInv ==
    \A c \in Cases, x \in Execs, b \in Books : <<c, x, b>> \in told =>
        case[c].committed /\ x \in Targets(c) /\ Has(b, c, x)

AckInv ==
    \A c \in Cases, x \in Execs, b \in Books : <<x, b>> \in acks[c] => <<c, x, b>> \in told

PostedInv == \A c \in Cases : case[c].committed => \A x \in Targets(c) : Has(Oms, c, x)

ClosedInv ==
    \A c \in Cases : case[c].status = "corrected" =>
        \A x \in Targets(c), b \in Books : <<x, b>> \in acks[c]

DoneInv == \A c \in Cases, x \in Execs : c \in done[Oms][x] => case[c].committed

RInv ==
    /\ TypeOK /\ CaseInv /\ PlanInv /\ FactInv /\ ToldInv /\ AckInv
    /\ PostedInv /\ ClosedInv /\ DoneInv

-----------------------------------------------------------------------------
(* What a step may do to a case.                                           *)

CaseMove(c) ==
    \/ case'[c] = case[c]
    \/ /\ case[c].status = "observed"
       /\ case'[c] = [case[c] EXCEPT !.status = "investigating", !.history = venue]
    \/ /\ case[c].status # "corrected"
       /\ case'[c] = [case[c] EXCEPT !.status = "blocked"]
    \/ /\ case[c].status = "investigating" /\ ~case[c].committed
       /\ case'[c] = [case[c] EXCEPT !.committed = TRUE,
                         !.status = IF Targets(c) = {} THEN "corrected" ELSE case[c].status]
    \/ /\ Open(c) /\ case[c].history # None /\ case[c].changes = None
       /\ \E d \in Histories : case'[c] = [case[c] EXCEPT !.changes = d]
    \/ /\ Open(c) /\ case[c].changes # None /\ ~case[c].signed
       /\ case'[c] = [case[c] EXCEPT !.signed = TRUE, !.status = "investigating"]
    \/ /\ case[c].status # "corrected" /\ case[c].committed
       /\ case'[c] = [case[c] EXCEPT !.status = "corrected"]

\* A history holds a fee for every target.
LEMMA CaseTypes ==
    ASSUME RInv, NEW c \in Cases
    PROVE  /\ case[c] \in RecoveryCase
           /\ case[c].status \in Statuses
           /\ case[c].committed \in BOOLEAN /\ case[c].signed \in BOOLEAN
           /\ case[c].history # None => case[c].history \in Histories
           /\ case[c].changes # None => case[c].changes \in Histories
           /\ case[c].history # None => \A x \in Targets(c) : case[c].history[x] \in Fees
           /\ \A x \in Execs : Approved(c, x) \in MaybeFee
<1>1. case[c] \in RecoveryCase
    BY Zenon DEF RInv, TypeOK
<1>2. /\ case[c].status \in Statuses
      /\ case[c].committed \in BOOLEAN /\ case[c].signed \in BOOLEAN
      /\ case[c].history # None => case[c].history \in Histories
      /\ case[c].changes # None => case[c].changes \in Histories
    BY Zenon, <1>1 DEF RecoveryCase
<1>3. case[c].history # None => \A x \in Targets(c) : case[c].history[x] \in Fees
    BY Zenon, <1>2 DEF Targets, Histories, MaybeFee
<1>4. case[c].signed => case[c].changes \in Histories
    BY Zenon, <1>2 DEF RInv, CaseInv
<1>5. \A x \in Execs : Approved(c, x) \in MaybeFee
    BY Zenon, <1>4 DEF Approved, Histories, MaybeFee
<1> QED BY Zenon, <1>1, <1>2, <1>3, <1>5

\* The steps of venue, books and of a handler that only reads leave cases alone.
LEMMA CaseAlone ==
    ASSUME VenueStep \/ BookStep \/ UNCHANGED vars
    PROVE  case' = case
<1>1. CASE VenueStep
    BY Zenon, <1>1 DEF VenueStep, Execute, ReviseFee, FoldFill
<1>2. CASE BookStep
  <2>1. PICK b \in Books :
            \/ \E m \in inbox[b] : FoldFact(b, m) \/ RefuseFact(b, m) \/ FailFold(b, m)
            \/ \E m \in parked[b] : Redrive(b, m)
    BY Zenon, <1>2 DEF BookStep
  <2>2. CASE \E m \in inbox[b] : FoldFact(b, m) \/ RefuseFact(b, m) \/ FailFold(b, m)
    BY Zenon, <2>2 DEF FoldFact, RefuseFact, FailFold, ParkFact
  <2>3. CASE \E m \in parked[b] : Redrive(b, m)
    BY Zenon, <2>3 DEF Redrive
  <2> QED BY Zenon, <2>1, <2>2, <2>3
<1>3. CASE UNCHANGED vars
    BY Zenon, <1>3 DEF vars
<1> QED BY Zenon, <1>1, <1>2, <1>3

\* Every step moves a case in one of the ways of CaseMove.
LEMMA CaseMoves ==
    ASSUME RInv, [Next]_vars
    PROVE  \A c \in Cases : CaseMove(c)
<1> SUFFICES ASSUME NEW k \in Cases PROVE CaseMove(k)
    BY Zenon
<1> USE DEF CaseMove
<1>t. case \in [Cases -> RecoveryCase]
    BY Zenon DEF RInv, TypeOK
<1>1. CASE VenueStep \/ BookStep \/ UNCHANGED vars
    BY Zenon, <1>1, CaseAlone
<1>2. CASE HandlerStep
  <2>1. PICK h \in Handlers : Commit(h) \/ Block(h) \/ Abandon(h) \/ \E c \in Cases : Compare(h, c)
    BY Zenon, <1>2 DEF HandlerStep
  <2>2. CASE Commit(h)
    <3> DEFINE c == plan[h].case
    <3>1. CASE h \notin fresh \cap current
        BY Zenon, <2>2, <3>1 DEF Commit
    <3>2. CASE h \in fresh \cap current
      <4>1. c \in Cases /\ case[c].status = "investigating" /\ ~case[c].committed
        BY Zenon, <2>2, <3>2 DEF RInv, PlanInv, Commit
      <4>2. case' = [case EXCEPT ![c] = [case[c] EXCEPT !.committed = TRUE,
                    !.status = IF Targets(c) = {} THEN "corrected" ELSE case[c].status]]
        BY Zenon, <2>2, <3>2 DEF Commit, Write
      <4>3. CASE k = c
        <5>1. case'[k] = [case[k] EXCEPT !.committed = TRUE,
                    !.status = IF Targets(k) = {} THEN "corrected" ELSE case[k].status]
            BY Zenon, <4>2, <4>3, <1>t
        <5> QED BY Zenon, <5>1, <4>1, <4>3
      <4> QED BY Zenon, <4>1, <4>2, <4>3, <1>t
    <3> QED BY Zenon, <3>1, <3>2
  <2>3. CASE Block(h)
    <3>1. CASE h \notin current
        BY Zenon, <2>3, <3>1 DEF Block
    <3>2. CASE h \in current
      <4>1. plan[h].case \in Cases /\ case[plan[h].case].status = "investigating"
        BY Zenon, <2>3, <3>2 DEF RInv, PlanInv, Block
      <4> QED BY <2>3, <3>2, <4>1, <1>t DEF Block, Closed
    <3> QED BY Zenon, <3>1, <3>2
  <2>4. CASE Abandon(h) \/ \E c \in Cases : Compare(h, c)
    BY Zenon, <2>4 DEF Abandon, Compare
  <2> QED BY Zenon, <2>1, <2>2, <2>3, <2>4
<1>3. CASE CaseStep
  <2>1. PICK c \in Cases :
            \/ Freeze(c) \/ ProposeFeeCorrection(c) \/ ApproveFeeCorrection(c)
            \/ RefuseApproval(c) \/ HandleRecoveryParked(c)
            \/ \E x \in Execs, b \in Books : AcknowledgeRecovery(c, x, b)
    BY Zenon, <1>3 DEF CaseStep
  <2>2. CASE Freeze(c)
    BY Zenon, <2>2, <1>t DEF Freeze, Closed
  <2>3. CASE ProposeFeeCorrection(c)
    <3> DEFINE d == [x \in Execs |-> IF head[Oms][x] \notin {None, case[c].history[x]}
                                     THEN head[Oms][x] ELSE None]
    <3>1. case' = [case EXCEPT ![c] = [case[c] EXCEPT !.changes = d]]
        BY Zenon, <2>3 DEF ProposeFeeCorrection
    <3>2. d \in Histories
        BY DEF RInv, TypeOK, Histories, MaybeFee
    <3>3. Open(c) /\ case[c].history # None /\ case[c].changes = None
        BY Zenon, <2>3 DEF ProposeFeeCorrection
    <3> HIDE DEF d
    <3> QED BY Zenon, <3>1, <3>2, <3>3, <1>t
  <2>4. CASE ApproveFeeCorrection(c)
    BY Zenon, <2>4, <1>t DEF ApproveFeeCorrection
  <2>5. CASE RefuseApproval(c)
    BY Zenon, <2>5, <1>t DEF RefuseApproval, Closed, Open
  <2>6. CASE HandleRecoveryParked(c)
    BY Zenon, <2>6, <1>t DEF HandleRecoveryParked, Closed
  <2>7. ASSUME NEW x \in Execs, NEW b \in Books, AcknowledgeRecovery(c, x, b) PROVE CaseMove(k)
    <3>1. case[c].committed /\ case[c].status # "corrected"
        BY Zenon, <2>7 DEF AcknowledgeRecovery, RInv, ToldInv
    <3> QED BY Zenon, <2>7, <3>1, <1>t DEF AcknowledgeRecovery, Closed
  <2> QED BY Zenon, <2>1, <2>2, <2>3, <2>4, <2>5, <2>6, <2>7
<1> QED BY Zenon, <1>1, <1>2, <1>3 DEF Next
-----------------------------------------------------------------------------
(* Cases go forward only, and nothing that was recorded is taken back.      *)

\* The fields a way to move leaves alone.
FieldMove(c) ==
    \/ case'[c] = case[c]
    \/ /\ case'[c] \in RecoveryCase
       /\ \/ /\ case[c].status = "observed" /\ case'[c].status = "investigating"
             /\ case'[c].history # None /\ case'[c].committed = case[c].committed
             /\ case'[c].changes = case[c].changes /\ case'[c].signed = case[c].signed
          \/ /\ case[c].status # "corrected" /\ case'[c].history = case[c].history
             /\ case'[c] = [case[c] EXCEPT !.status = case'[c].status]
             /\ case'[c].committed = case[c].committed
             /\ case'[c].changes = case[c].changes /\ case'[c].signed = case[c].signed
             /\ \/ case'[c].status = "blocked"
                \/ case'[c].status = "corrected" /\ case[c].committed
          \/ /\ ~case[c].committed /\ case[c].history # None /\ case'[c].history = case[c].history
             /\ case[c].status # "corrected" /\ case'[c].status # "observed"
             /\ case'[c].status = "corrected" => case'[c].committed
             /\ case[c].signed => case'[c].signed /\ case'[c].changes = case[c].changes
             /\ case'[c].signed => case'[c].changes # None

\* The ways of CaseMove, by field.
LEMMA FieldMoves ==
    ASSUME RInv, NEW c \in Cases, CaseMove(c)
    PROVE  FieldMove(c)
<1>1. case[c] \in RecoveryCase
    BY Zenon, CaseTypes
<1>2. venue \in Histories /\ None \notin Histories
    BY Zenon, Recovering DEF RInv, TypeOK, Histories, MaybeFee
<1>3. /\ case[c].status = "investigating" => case[c].history # None
      /\ case[c].changes # None => case[c].history # None
      /\ case[c].signed => case[c].changes # None
      /\ case[c].status = "corrected" => case[c].committed
    BY Zenon DEF RInv, CaseInv
<1>4. CASE case'[c] = case[c]
    BY Zenon, <1>4 DEF FieldMove
<1>5. CASE /\ case[c].status = "observed"
           /\ case'[c] = [case[c] EXCEPT !.status = "investigating", !.history = venue]
    BY Zenon, <1>1, <1>2, <1>5 DEF FieldMove, RecoveryCase, Statuses
<1>6. CASE /\ case[c].status # "corrected"
           /\ case'[c] = [case[c] EXCEPT !.status = "blocked"]
    BY Zenon, <1>1, <1>6 DEF FieldMove, RecoveryCase, Statuses
<1>7. CASE /\ case[c].status = "investigating" /\ ~case[c].committed
           /\ case'[c] = [case[c] EXCEPT !.committed = TRUE,
                             !.status = IF Targets(c) = {} THEN "corrected" ELSE case[c].status]
    BY Zenon, <1>1, <1>3, <1>7 DEF FieldMove, RecoveryCase, Statuses
<1>8. CASE /\ Open(c) /\ case[c].history # None /\ case[c].changes = None
           /\ \E d \in Histories : case'[c] = [case[c] EXCEPT !.changes = d]
    BY Zenon, <1>1, <1>2, <1>3, <1>8 DEF FieldMove, RecoveryCase, Statuses, Open
<1>9. CASE /\ Open(c) /\ case[c].changes # None /\ ~case[c].signed
           /\ case'[c] = [case[c] EXCEPT !.signed = TRUE, !.status = "investigating"]
    BY Zenon, <1>1, <1>3, <1>9 DEF FieldMove, RecoveryCase, Statuses, Open
<1>10. CASE /\ case[c].status # "corrected" /\ case[c].committed
            /\ case'[c] = [case[c] EXCEPT !.status = "corrected"]
    BY Zenon, <1>1, <1>10 DEF FieldMove, RecoveryCase, Statuses
<1> QED BY Zenon, <1>4, <1>5, <1>6, <1>7, <1>8, <1>9, <1>10 DEF CaseMove

\* What a case's fields say of one another is kept by every way a case moves.
LEMMA CaseInvStep ==
    ASSUME RInv, \A c \in Cases : CaseMove(c)
    PROVE  CaseInv'
<1> SUFFICES ASSUME NEW c \in Cases
             PROVE  /\ case'[c].status = "observed" => case'[c].history = None
                    /\ case'[c].status = "investigating" => case'[c].history # None
                    /\ case'[c].changes # None => case'[c].history # None
                    /\ case'[c].signed => case'[c].changes # None
                    /\ case'[c].committed => case'[c].history # None
                    /\ case'[c].status = "corrected" => case'[c].committed
    BY Zenon DEF CaseInv
<1>1. case[c] \in RecoveryCase /\ FieldMove(c)
    BY Zenon, CaseTypes, FieldMoves
<1>2. CASE case'[c] = case[c]
    BY <1>2 DEF RInv, CaseInv
<1>3. CASE case'[c] # case[c]
    BY Zenon, <1>1, <1>3 DEF FieldMove, RInv, CaseInv
<1> QED BY Zenon, <1>2, <1>3

Kept(c) ==
    /\ case[c].status = "corrected" => case'[c] = case[c]
    /\ case[c].committed => case'[c] = [case[c] EXCEPT !.status = case'[c].status]
    /\ case[c].history # None => case'[c].history = case[c].history
    /\ case[c].signed => case'[c].signed /\ case'[c].changes = case[c].changes

\* A case keeps what has been decided in it.
LEMMA CaseKept ==
    ASSUME RInv, \A c \in Cases : CaseMove(c)
    PROVE  \A c \in Cases : Kept(c)
<1> SUFFICES ASSUME NEW c \in Cases PROVE Kept(c)
    BY Zenon
<1>1. case[c] \in RecoveryCase /\ FieldMove(c)
    BY Zenon, CaseTypes, FieldMoves
<1>2. CASE case'[c] = case[c]
    BY Zenon, <1>1, <1>2 DEF Kept, RecoveryCase
<1>3. CASE case'[c] # case[c]
    BY Zenon, <1>1, <1>3 DEF FieldMove, Kept, RInv, CaseInv
<1> QED BY Zenon, <1>2, <1>3

\* A committed case keeps its targets and its corrections.
LEMMA CommittedKept ==
    ASSUME RInv, \A d \in Cases : CaseMove(d), NEW c \in Cases, case[c].committed
    PROVE  /\ case'[c].committed
           /\ case'[c].history = case[c].history
           /\ Targets(c)' = Targets(c)
           /\ \A x \in Execs : Approved(c, x)' = Approved(c, x)
<1>1. case[c] \in RecoveryCase
    BY Zenon, CaseTypes
<1>2. case'[c] = [case[c] EXCEPT !.status = case'[c].status]
    BY Zenon, CaseKept DEF Kept
<1>3. /\ case'[c].committed = case[c].committed
      /\ case'[c].history = case[c].history
      /\ case'[c].changes = case[c].changes
      /\ case'[c].signed = case[c].signed
    BY Zenon, <1>1, <1>2 DEF RecoveryCase
<1> QED BY Zenon, <1>3 DEF Targets, Approved

\* How a step changes a journal.
JournalMove(b, x) ==
    \/ head'[b][x] = head[b][x] /\ done'[b][x] = done[b][x]
    \/ head[b][x] = None /\ head'[b][x] \in Fees /\ done'[b][x] = done[b][x]
    \/ \E c \in Cases :
        /\ case[c].committed \/ (b = Oms /\ case'[c].committed)
        /\ case[c].history # None /\ case[c].history[x] \in Fees
        /\ Approved(c, x) # None /\ head[b][x] \in {None, Approved(c, x)}
        /\ head'[b][x] = case[c].history[x]
        /\ c \notin done[b][x] /\ done'[b][x] = done[b][x] \cup {c}

\* A step that touches no journal.
LEMMA JournalAlone ==
    ASSUME \/ HandlerStep /\ ~\E h \in Handlers : h \in fresh \cap current /\ Commit(h)
           \/ CaseStep \/ UNCHANGED vars
    PROVE  head' = head /\ done' = done
BY Zenon DEF HandlerStep, CaseStep, vars, Commit, Block, Abandon, Compare, Freeze,
   ProposeFeeCorrection,
       ApproveFeeCorrection, RefuseApproval, HandleRecoveryParked, AcknowledgeRecovery

\* CommitRecovery's transaction, as what it does to the OMS's journal.
LEMMA CommitJournal ==
    ASSUME RInv, NEW h \in Handlers, h \in fresh \cap current, Commit(h), NEW x \in Execs
    PROVE  JournalMove(Oms, x)
<1> DEFINE c == plan[h].case
<1>1. c \in Cases /\ case[c].status = "investigating" /\ ~case[c].committed /\ ~Contradicted(c)
    BY Zenon DEF RInv, PlanInv, Commit
<1>2. Write(c)
    BY Zenon DEF Commit
<1> HIDE DEF c
<1>t. /\ head \in [Books \cup {Oms} -> Histories]
      /\ done \in [Books \cup {Oms} -> [Execs -> SUBSET Cases]]
      /\ case \in [Cases -> RecoveryCase]
    BY Zenon DEF RInv, TypeOK
<1>3. head'[Oms][x] = IF x \in Targets(c) THEN case[c].history[x] ELSE head[Oms][x]
    BY Zenon, <1>2, <1>t DEF Write
<1>4. done'[Oms][x] = IF Approved(c, x) # None THEN done[Oms][x] \cup {c} ELSE done[Oms][x]
    BY Zenon, <1>2, <1>t DEF Write
<1>5. case[c].history # None /\ \A y \in Targets(c) : case[c].history[y] \in Fees
    BY Zenon, <1>1, CaseTypes DEF RInv, CaseInv
<1>6. case'[c].committed
    BY Zenon, <1>1, <1>2, <1>t DEF Write, RecoveryCase
<1>7. c \notin done[Oms][x]
    BY Zenon, <1>1 DEF RInv, DoneInv
<1>8. /\ Approved(c, x) \in {None, head[Oms][x]}
      /\ head[Oms][x] # None =>
            /\ case[c].history[x] # None
            /\ case[c].history[x] = head[Oms][x] \/ Approved(c, x) # None
    BY Zenon, <1>1 DEF Contradicted
<1>9. Targets(c) = {y \in Execs : case[c].history[y] # None}
    BY Zenon DEF Targets
<1>10. CASE Approved(c, x) # None
    BY Zenon, <1>1, <1>3, <1>4, <1>5, <1>6, <1>7, <1>8, <1>9, <1>10 DEF JournalMove
<1>11. CASE Approved(c, x) = None
    BY Zenon, <1>3, <1>4, <1>5, <1>8, <1>9, <1>11 DEF JournalMove
<1> QED BY Zenon, <1>10, <1>11

\* A book's transaction, as what it does to the book.
LEMMA FoldJournal ==
    ASSUME RInv, NEW b \in Books, NEW m \in inbox[b], FoldFact(b, m)
    PROVE  JournalMove(b, m.exec)
<1> DEFINE x == m.exec
<1>t. /\ head \in [Books \cup {Oms} -> Histories]
      /\ done \in [Books \cup {Oms} -> [Execs -> SUBSET Cases]]
      /\ inbox \in [Books -> SUBSET Facts]
    BY Zenon DEF RInv, TypeOK
<1>1. m \in Facts /\ Sound(m) /\ Agrees(b, m)
    BY Zenon, <1>t DEF FoldFact, RInv, FactInv
<1>2. x \in Execs /\ m.fee \in Fees /\ m.case \in Cases \cup {None} /\ m.prev \in MaybeFee
    BY Zenon, <1>1 DEF Facts
<1>3. head'[b][x] = IF head[b][x] = None \/ (m.prev # None /\ ~Repeated(b, m))
                    THEN m.fee ELSE head[b][x]
    BY Zenon, <1>t, <1>2 DEF FoldFact, Histories
<1>4. done'[b][x] = IF m.prev # None /\ ~Repeated(b, m)
                    THEN done[b][x] \cup {m.case} ELSE done[b][x]
    BY Zenon, <1>t, <1>2 DEF FoldFact
<1>5. CASE m.prev # None /\ ~Repeated(b, m)
  <2>1. /\ m.case \in Cases /\ case[m.case].committed
        /\ case[m.case].history[x] = m.fee /\ Approved(m.case, x) = m.prev
    BY Zenon, <1>1, <1>2, <1>5 DEF Sound
  <2>2. m.case \notin done[b][x] /\ head[b][x] \in {None, m.prev}
    BY Zenon, <1>1, <1>5, <2>1, Apart DEF Repeated, Agrees
  <2>3. case[m.case].history # None
    BY Zenon, <2>1 DEF RInv, CaseInv
  <2> QED BY Zenon, <1>2, <1>3, <1>4, <1>5, <2>1, <2>2, <2>3 DEF JournalMove
<1>6. CASE ~(m.prev # None /\ ~Repeated(b, m))
    BY Zenon, <1>2, <1>3, <1>4, <1>6 DEF JournalMove
<1> QED BY Zenon, <1>5, <1>6

\* Every step changes a journal in one of the ways of JournalMove.
LEMMA JournalMoves ==
    ASSUME RInv, [Next]_vars
    PROVE  \A b \in Books \cup {Oms}, x \in Execs : JournalMove(b, x)
<1> SUFFICES ASSUME NEW b \in Books \cup {Oms}, NEW x \in Execs PROVE JournalMove(b, x)
    BY Zenon
<1>t. /\ head \in [Books \cup {Oms} -> Histories]
      /\ done \in [Books \cup {Oms} -> [Execs -> SUBSET Cases]]
      /\ venue \in Histories
      /\ inbox \in [Books -> SUBSET Facts]
    BY Zenon DEF RInv, TypeOK
<1>1. CASE head' = head /\ done' = done
    BY Zenon, <1>1 DEF JournalMove
<1>2. CASE \E h \in Handlers : h \in fresh \cap current /\ Commit(h)
  <2>1. PICK h \in Handlers : h \in fresh \cap current /\ Commit(h)
    BY Zenon, <1>2
  <2>2. CASE b = Oms
    BY Zenon, <2>1, <2>2, CommitJournal
  <2>3. CASE b # Oms
    BY Zenon, <2>1, <2>3, <1>t DEF Commit, Write, JournalMove
  <2> QED BY Zenon, <2>2, <2>3
<1>3. CASE VenueStep
  <2>1. PICK y \in Execs : Execute(y) \/ FoldFill(y) \/ \E f \in Fees : ReviseFee(y, f)
    BY Zenon, <1>3 DEF VenueStep
  <2>2. CASE FoldFill(y)
    <3>1. head' = [head EXCEPT ![Oms][y] = venue[y]] /\ done' = done /\ head[Oms][y] = None
        BY Zenon, <2>2 DEF FoldFill
    <3>2. venue[y] \in Fees
        BY Zenon, <2>2, <1>t DEF FoldFill, Histories, MaybeFee
    <3> QED BY Zenon, <3>1, <3>2, <1>t DEF JournalMove, Histories
  <2> QED BY Zenon, <2>1, <2>2, <1>1 DEF Execute, ReviseFee
<1>4. CASE BookStep
  <2>1. PICK k \in Books :
            \/ \E m \in inbox[k] : FoldFact(k, m) \/ RefuseFact(k, m) \/ FailFold(k, m)
            \/ \E m \in parked[k] : Redrive(k, m)
    BY Zenon, <1>4 DEF BookStep
  <2>2. ASSUME NEW m \in inbox[k], FoldFact(k, m) PROVE JournalMove(b, x)
    <3>1. m.exec \in Execs
        BY <1>t DEF Facts
    <3>2. CASE b = k /\ x = m.exec
        BY Zenon, <2>2, <3>2, FoldJournal
    <3>3. CASE ~(b = k /\ x = m.exec)
      <4>1. head'[b][x] = head[b][x]
        BY Zenon, <2>2, <3>1, <3>3, <1>t DEF FoldFact, Histories
      <4>2. done'[b][x] = done[b][x]
        BY Zenon, <2>2, <3>1, <3>3, <1>t DEF FoldFact
      <4> QED BY Zenon, <4>1, <4>2 DEF JournalMove
    <3> QED BY Zenon, <3>2, <3>3
  <2>3. CASE \/ \E m \in inbox[k] : RefuseFact(k, m) \/ FailFold(k, m)
             \/ \E m \in parked[k] : Redrive(k, m)
    BY Zenon, <2>3, <1>1 DEF RefuseFact, FailFold, ParkFact, Redrive
  <2> QED BY Zenon, <2>1, <2>2, <2>3
<1> QED BY Zenon, <1>1, <1>2, <1>3, <1>4, JournalAlone DEF Next
\* Once booked, an execution and its corrections stay booked.
LEMMA HasKept ==
    ASSUME RInv, [Next]_vars, NEW c \in Cases, case[c].committed,
           NEW b \in Books \cup {Oms}, NEW x \in Execs, Has(b, c, x)
    PROVE  Has(b, c, x)'
<1>1. JournalMove(b, x) /\ Approved(c, x)' = Approved(c, x)
    BY Zenon, JournalMoves, CaseMoves, CommittedKept
<1>2. head[b][x] # None => head'[b][x] # None
    BY Zenon, <1>1, Apart DEF JournalMove
<1>3. done[b][x] \subseteq done'[b][x]
    BY Zenon, <1>1 DEF JournalMove
<1> QED BY Zenon, <1>1, <1>2, <1>3 DEF Has

-----------------------------------------------------------------------------
(* FACTs and acknowledgements.                                             *)

\* What comes newly to a book.
FactMove(m) ==
    \/ m \in Facts /\ m.case = None /\ m.prev = None
    \/ \E c \in Cases, x \in Execs :
        /\ m = Recovered(c, x) /\ x \in Targets(c)
        /\ case[c].history # None /\ case'[c].committed
        /\ case'[c].history = case[c].history
        /\ Approved(c, x)' = Approved(c, x)

\* CommitRecovery's transaction, as what it announces.
LEMMA CommitFacts ==
    ASSUME RInv, NEW h \in Handlers, h \in fresh \cap current, Commit(h)
    PROVE  \A b \in Books : \A m \in inbox'[b] : m \in inbox[b] \/ FactMove(m)
<1>0. PICK c \in Cases : c = plan[h].case
    BY Zenon DEF RInv, PlanInv, Commit
<1>1. case[c].status = "investigating" /\ ~case[c].committed
    BY Zenon, <1>0 DEF RInv, PlanInv, Commit
<1>2. Write(c)
    BY Zenon, <1>0 DEF Commit
<1>t. case \in [Cases -> RecoveryCase]
    BY Zenon DEF RInv, TypeOK
<1>3. /\ case'[c].committed /\ case'[c].history = case[c].history
      /\ case'[c].changes = case[c].changes /\ case'[c].signed = case[c].signed
    BY Zenon, <1>1, <1>2, <1>t DEF Write, RecoveryCase
<1>4. case[c].history # None /\ \A x \in Execs : Approved(c, x)' = Approved(c, x)
    BY Zenon, <1>1, <1>3 DEF Approved, RInv, CaseInv
<1>5. \A b \in Books : inbox'[b] = inbox[b] \cup {Recovered(c, x) : x \in Targets(c)}
    BY Zenon, <1>2 DEF Write, Announced
<1>6. Targets(c) \subseteq Execs
    BY Zenon DEF Targets
<1>7. \A x \in Targets(c) : FactMove(Recovered(c, x))
    BY Zenon, <1>3, <1>4, <1>6 DEF FactMove
<1> QED BY <1>5, <1>7

\* A book is sent nothing but fills and what a committed case recovered.
LEMMA FactMoves ==
    ASSUME RInv, [Next]_vars
    PROVE  \A b \in Books : \A m \in inbox'[b] \cup parked'[b] :
                m \in inbox[b] \cup parked[b] \/ FactMove(m)
<1> SUFFICES ASSUME NEW b \in Books, NEW m \in inbox'[b] \cup parked'[b]
             PROVE  m \in inbox[b] \cup parked[b] \/ FactMove(m)
    BY Zenon
<1>t. /\ inbox \in [Books -> SUBSET Facts] /\ parked \in [Books -> SUBSET Facts]
      /\ venue \in Histories
    BY Zenon DEF RInv, TypeOK
<1>1. CASE inbox' = inbox /\ parked' = parked
    BY Zenon, <1>1
<1>2. CASE HandlerStep
  <2>1. PICK h \in Handlers : Commit(h) \/ Block(h) \/ Abandon(h) \/ \E c \in Cases : Compare(h, c)
    BY Zenon, <1>2 DEF HandlerStep
  <2>2. CASE Commit(h) /\ h \in fresh \cap current
    BY Zenon, <2>2, CommitFacts DEF Commit, bookVars
  <2>3. CASE ~(Commit(h) /\ h \in fresh \cap current)
    BY Zenon, <2>1, <2>3, <1>1 DEF Commit, Block, Abandon, Compare, bookVars
  <2> QED BY Zenon, <2>2, <2>3
<1>3. CASE CaseStep
    BY Zenon, <1>1, <1>3 DEF CaseStep, Freeze, ProposeFeeCorrection, ApproveFeeCorrection,
       RefuseApproval,
       HandleRecoveryParked, AcknowledgeRecovery, bookVars
<1>4. CASE VenueStep
  <2>1. PICK y \in Execs : Execute(y) \/ FoldFill(y) \/ \E f \in Fees : ReviseFee(y, f)
    BY Zenon, <1>4 DEF VenueStep
  <2>2. \A f \in Fees : FactMove(Fill(y, f))
    BY Zenon DEF Fill, FactMove, Facts, MaybeFee
  <2>3. CASE Execute(y)
    BY Zenon, <2>2, <2>3, Apart DEF Execute, Announced, bookVars
  <2>4. CASE FoldFill(y)
    BY Zenon, <2>2, <2>4, <1>t DEF FoldFill, Announced, bookVars, Histories, MaybeFee
  <2> QED BY Zenon, <2>1, <2>3, <2>4, <1>1 DEF ReviseFee, bookVars
<1>5. CASE BookStep
  <2>1. PICK k \in Books :
            \/ \E n \in inbox[k] : FoldFact(k, n) \/ RefuseFact(k, n) \/ FailFold(k, n)
            \/ \E n \in parked[k] : Redrive(k, n)
    BY Zenon, <1>5 DEF BookStep
  <2>2. ASSUME NEW n \in inbox[k], FoldFact(k, n)
        PROVE  inbox'[b] \subseteq inbox[b] /\ parked' = parked
    BY Zenon, <2>2, <1>t DEF FoldFact, Taken
  <2>3. ASSUME NEW n \in inbox[k], ParkFact(k, n)
        PROVE  inbox'[b] \cup parked'[b] = inbox[b] \cup parked[b]
    BY Zenon, <2>3, <1>t DEF ParkFact
  <2>4. ASSUME NEW n \in parked[k], Redrive(k, n)
        PROVE  inbox'[b] \cup parked'[b] = inbox[b] \cup parked[b]
    BY Zenon, <2>4, <1>t DEF Redrive
  <2> QED BY Zenon, <2>1, <2>2, <2>3, <2>4 DEF RefuseFact, FailFold
<1>6. CASE UNCHANGED vars
    BY Zenon, <1>1, <1>6 DEF vars, bookVars
<1> QED BY Zenon, <1>2, <1>3, <1>4, <1>5, <1>6 DEF Next

\* A FACT that was sound stays so, and what comes newly is.
LEMMA FactInvStep ==
    ASSUME RInv, [Next]_vars
    PROVE  FactInv'
<1> SUFFICES ASSUME NEW b \in Books, NEW m \in inbox'[b] \cup parked'[b]
             PROVE  Sound(m)'
    BY Zenon DEF FactInv
<1>1. CASE m \in inbox[b] \cup parked[b]
  <2>1. Sound(m) /\ m \in Facts
    BY Zenon, <1>1 DEF RInv, FactInv, TypeOK
  <2>2. CASE m.case = None
    BY Zenon, <2>1, <2>2 DEF Sound
  <2>3. CASE m.case # None
    <3>1. m.case \in Cases /\ m.exec \in Execs /\ case[m.case].committed
        BY Zenon, <2>1, <2>3 DEF Facts, Sound
    <3>2. /\ case'[m.case].committed /\ case'[m.case].history = case[m.case].history
          /\ Approved(m.case, m.exec)' = Approved(m.case, m.exec)
        BY Zenon, <3>1, CaseMoves, CommittedKept
    <3> QED BY Zenon, <2>1, <2>3, <3>2 DEF Sound
  <2> QED BY Zenon, <2>2, <2>3
<1>2. CASE FactMove(m)
    BY <1>2, Apart DEF FactMove, Recovered, Sound
<1> QED BY Zenon, <1>1, <1>2, FactMoves

\* A book tells only what it has booked.
LEMMA FoldTells ==
    ASSUME RInv, [Next]_vars, NEW b \in Books, NEW m \in inbox[b], FoldFact(b, m), m.case # None
    PROVE  /\ m.case \in Cases /\ m.exec \in Execs /\ case[m.case].committed
           /\ m.exec \in Targets(m.case) /\ Has(b, m.case, m.exec)'
<1>t. /\ head \in [Books \cup {Oms} -> Histories]
      /\ done \in [Books \cup {Oms} -> [Execs -> SUBSET Cases]]
      /\ inbox \in [Books -> SUBSET Facts]
    BY Zenon DEF RInv, TypeOK
<1>1. m \in Facts /\ Sound(m)
    BY Zenon, <1>t DEF RInv, FactInv
<1>2. m.exec \in Execs /\ m.fee \in Fees /\ m.case \in Cases
    BY Zenon, <1>1 DEF Facts
<1>3. /\ case[m.case].committed /\ case[m.case].history[m.exec] = m.fee
      /\ m.prev = Approved(m.case, m.exec)
    BY Zenon, <1>1 DEF Sound
<1>4. m.exec \in Targets(m.case)
    BY Zenon, <1>2, <1>3, Apart DEF Targets
<1>5. head'[b][m.exec] # None
    BY Zenon, <1>t, <1>2, Apart DEF FoldFact, Histories
<1>6. m.prev # None => m.case \in done'[b][m.exec]
    BY Zenon, <1>t, <1>2 DEF FoldFact, Repeated
<1>7. Approved(m.case, m.exec)' = m.prev
    BY Zenon, <1>2, <1>3, CaseMoves, CommittedKept
<1> QED BY Zenon, <1>2, <1>3, <1>4, <1>5, <1>6, <1>7 DEF Has

\* Only a book's transaction tells anything, and only AcknowledgeRecovery hears it.
LEMMA ToldMoves ==
    ASSUME RInv, [Next]_vars
    PROVE  /\ \/ told' = told
              \/ \E b \in Books : \E m \in inbox[b] :
                    FoldFact(b, m) /\ told' = told \cup ({<<m.case, m.exec, b>>} \ {<<None, m.exec, b>>})
           /\ \/ acks' = acks
              \/ \E c \in Cases, x \in Execs, b \in Books : AcknowledgeRecovery(c, x, b)
<1>1. CASE VenueStep \/ UNCHANGED vars
    BY Zenon, <1>1 DEF VenueStep, Execute, ReviseFee, FoldFill, vars, bookVars
<1>2. CASE HandlerStep
    BY Zenon, <1>2 DEF HandlerStep, Commit, Block, Abandon, Compare, bookVars
<1>3. CASE CaseStep
    BY Zenon, <1>3 DEF CaseStep, Freeze, ProposeFeeCorrection, ApproveFeeCorrection, RefuseApproval,
       HandleRecoveryParked, AcknowledgeRecovery, bookVars
<1>4. CASE BookStep
  <2>1. ASSUME NEW b \in Books, NEW m \in inbox[b], FoldFact(b, m)
        PROVE  /\ told' = told \cup ({<<m.case, m.exec, b>>} \ {<<None, m.exec, b>>})
               /\ acks' = acks
    BY Zenon, <2>1 DEF FoldFact
  <2>2. ASSUME NEW b \in Books, NEW m, ParkFact(b, m) \/ Redrive(b, m)
        PROVE  told' = told /\ acks' = acks
    BY Zenon, <2>2 DEF ParkFact, Redrive
  <2> QED BY Zenon, <1>4, <2>1, <2>2 DEF BookStep, RefuseFact, FailFold
<1> QED BY Zenon, <1>1, <1>2, <1>3, <1>4 DEF Next

\* What the books have told stays true.
LEMMA ToldInvStep ==
    ASSUME RInv, [Next]_vars
    PROVE  ToldInv'
<1> SUFFICES ASSUME NEW c \in Cases, NEW x \in Execs, NEW b \in Books, <<c, x, b>> \in told'
             PROVE  case'[c].committed /\ x \in Targets(c)' /\ Has(b, c, x)'
    BY Zenon DEF ToldInv
<1>1. CASE <<c, x, b>> \in told
  <2>1. case[c].committed /\ x \in Targets(c) /\ Has(b, c, x)
    BY Zenon, <1>1 DEF RInv, ToldInv
  <2> QED BY Zenon, <2>1, CaseMoves, CommittedKept, HasKept
<1>2. CASE <<c, x, b>> \notin told
  <2>1. PICK k \in Books : \E m \in inbox[k] :
            FoldFact(k, m) /\ told' = told \cup ({<<m.case, m.exec, k>>} \ {<<None, m.exec, k>>})
    BY Zenon, <1>2, ToldMoves
  <2>2. PICK m \in inbox[k] :
            FoldFact(k, m) /\ told' = told \cup ({<<m.case, m.exec, k>>} \ {<<None, m.exec, k>>})
    BY Zenon, <2>1
  <2>3. c = m.case /\ x = m.exec /\ b = k /\ m.case # None
    BY Zenon, <1>2, <2>2, Apart
  <2> QED BY Zenon, <2>2, <2>3, FoldTells, CaseMoves, CommittedKept
<1> QED BY Zenon, <1>1, <1>2
\* An acknowledgement that is recorded was told.
LEMMA AckInvStep ==
    ASSUME RInv, [Next]_vars
    PROVE  AckInv'
<1> SUFFICES ASSUME NEW c \in Cases, NEW x \in Execs, NEW b \in Books, <<x, b>> \in acks'[c]
             PROVE  <<c, x, b>> \in told'
    BY Zenon DEF AckInv
<1>1. told \subseteq told'
    BY Zenon, ToldMoves
<1>2. CASE acks' = acks
    BY Zenon, <1>1, <1>2 DEF RInv, AckInv
<1>3. ASSUME NEW d \in Cases, NEW y \in Execs, NEW k \in Books, AcknowledgeRecovery(d, y, k)
      PROVE  <<c, x, b>> \in told
  <2>1. <<d, y, k>> \in told /\ acks' = [acks EXCEPT ![d] = acks[d] \cup {<<y, k>>}]
    BY Zenon, <1>3 DEF AcknowledgeRecovery
  <2>2. <<x, b>> \in acks[c] \/ (c = d /\ x = y /\ b = k)
    BY Zenon, <2>1 DEF RInv, TypeOK
  <2> QED BY Zenon, <2>1, <2>2 DEF RInv, AckInv
<1> QED BY Zenon, <1>1, <1>2, <1>3, ToldMoves

\* Only CommitRecovery commits a case.
LEMMA Committing ==
    ASSUME RInv, [Next]_vars, NEW c \in Cases, ~case[c].committed, case'[c].committed
    PROVE  \E h \in Handlers : h \in fresh \cap current /\ Commit(h) /\ c = plan[h].case
<1>t. case \in [Cases -> RecoveryCase]
    BY Zenon DEF RInv, TypeOK
<1>1. ASSUME NEW d \in Cases, NEW s, case' = Closed(d, s) PROVE FALSE
    BY Zenon, <1>1, <1>t DEF Closed, RecoveryCase
<1>2. CASE VenueStep \/ BookStep \/ UNCHANGED vars
    BY Zenon, <1>2, CaseAlone
<1>3. CASE HandlerStep
  <2>1. PICK h \in Handlers : Commit(h) \/ Block(h) \/ Abandon(h) \/ \E d \in Cases : Compare(h, d)
    BY Zenon, <1>3 DEF HandlerStep
  <2>2. CASE Commit(h)
    <3>1. h \in fresh \cap current
        BY Zenon, <2>2 DEF Commit
    <3>2. plan[h].case \in Cases
        BY Zenon, <2>2 DEF Commit, RInv, PlanInv
    <3>3. c = plan[h].case
        BY Zenon, <2>2, <3>1, <3>2, <1>t DEF Commit, Write
    <3> QED BY Zenon, <2>2, <3>1, <3>3
  <2>3. CASE Block(h)
    <3>1. plan[h].case \in Cases
        BY Zenon, <2>3 DEF Block, RInv, PlanInv
    <3> QED BY Zenon, <2>3, <3>1, <1>1 DEF Block
  <2> QED BY Zenon, <2>1, <2>2, <2>3 DEF Abandon, Compare
<1>4. CASE CaseStep
  <2>1. PICK d \in Cases :
            \/ Freeze(d) \/ ProposeFeeCorrection(d) \/ ApproveFeeCorrection(d)
            \/ RefuseApproval(d) \/ HandleRecoveryParked(d)
            \/ \E x \in Execs, b \in Books : AcknowledgeRecovery(d, x, b)
    BY Zenon, <1>4 DEF CaseStep
  <2>2. CASE Freeze(d)
    BY Zenon, <2>2, <1>1, <1>t DEF Freeze, RecoveryCase
  <2>3. CASE ProposeFeeCorrection(d)
    BY Zenon, <2>3, <1>t DEF ProposeFeeCorrection, RecoveryCase
  <2>4. CASE ApproveFeeCorrection(d)
    BY Zenon, <2>4, <1>t DEF ApproveFeeCorrection, RecoveryCase
  <2>5. CASE RefuseApproval(d)
    BY Zenon, <2>5, <1>1 DEF RefuseApproval
  <2>6. CASE HandleRecoveryParked(d)
    BY Zenon, <2>6, <1>1 DEF HandleRecoveryParked
  <2>7. CASE \E x \in Execs, b \in Books : AcknowledgeRecovery(d, x, b)
    BY Zenon, <2>7, <1>1 DEF AcknowledgeRecovery
  <2> QED BY Zenon, <2>1, <2>2, <2>3, <2>4, <2>5, <2>6, <2>7
<1> QED BY Zenon, <1>2, <1>3, <1>4 DEF Next

\* What a case commits is on record with the OMS.
LEMMA PostedInvStep ==
    ASSUME RInv, [Next]_vars
    PROVE  PostedInv'
<1> SUFFICES ASSUME NEW c \in Cases, case'[c].committed, NEW x \in Targets(c)'
             PROVE  Has(Oms, c, x)'
    BY Zenon DEF PostedInv
<1>0. x \in Execs
    BY Zenon DEF Targets
<1>1. CASE case[c].committed
    BY Zenon, <1>0, <1>1, CaseMoves, CommittedKept, HasKept DEF RInv, PostedInv
<1>2. CASE ~case[c].committed
  <2>1. PICK h \in Handlers : h \in fresh \cap current /\ Commit(h) /\ c = plan[h].case
    BY Zenon, <1>2, Committing
  <2>2. Write(c)
    BY Zenon, <2>1 DEF Commit
  <2>t. /\ head \in [Books \cup {Oms} -> Histories]
        /\ done \in [Books \cup {Oms} -> [Execs -> SUBSET Cases]]
        /\ case \in [Cases -> RecoveryCase]
    BY Zenon DEF RInv, TypeOK
  <2>3. /\ case'[c].history = case[c].history
        /\ case'[c].changes = case[c].changes /\ case'[c].signed = case[c].signed
    BY Zenon, <2>2, <2>t DEF Write, RecoveryCase
  <2>4. Targets(c)' = Targets(c) /\ Approved(c, x)' = Approved(c, x)
    BY Zenon, <2>3 DEF Targets, Approved
  <2>5. head'[Oms][x] # None
    BY Zenon, <1>0, <2>2, <2>4, <2>t DEF Write, Targets
  <2>6. Approved(c, x) # None => c \in done'[Oms][x]
    BY Zenon, <1>0, <2>2, <2>t DEF Write
  <2> QED BY Zenon, <2>4, <2>5, <2>6 DEF Has
<1> QED BY Zenon, <1>1, <1>2

\* The corrections on record with the OMS are of committed cases.
LEMMA DoneInvStep ==
    ASSUME RInv, [Next]_vars
    PROVE  DoneInv'
<1> SUFFICES ASSUME NEW c \in Cases, NEW x \in Execs, c \in done'[Oms][x]
             PROVE  case'[c].committed
    BY Zenon DEF DoneInv
<1>1. JournalMove(Oms, x)
    BY Zenon, JournalMoves
<1>2. c \in done[Oms][x] \/ case[c].committed \/ case'[c].committed
    BY Zenon, <1>1 DEF JournalMove
<1> QED BY Zenon, <1>2, CaseMoves, CommittedKept DEF RInv, DoneInv

\* The acknowledgements of a case are as many as it needs only if they are all.
\* CountingHolds proves it, where the facts about finite sets are at hand.
Counting ==
    \A T \in SUBSET Execs : \A A \in SUBSET (T \X Books) :
        Cardinality(A) = Cardinality(T \X Books) => A = T \X Books

\* Only CommitRecovery and AcknowledgeRecovery close a case.
LEMMA Correcting ==
    ASSUME RInv, [Next]_vars, NEW c \in Cases,
           case[c].status # "corrected", case'[c].status = "corrected"
    PROVE  \/ \E h \in Handlers : h \in fresh \cap current /\ Commit(h) /\ c = plan[h].case
           \/ \E x \in Execs, b \in Books : AcknowledgeRecovery(c, x, b)
<1>t. case \in [Cases -> RecoveryCase]
    BY Zenon DEF RInv, TypeOK
<1>1. ASSUME NEW d \in Cases, case' = Closed(d, "blocked") PROVE FALSE
    BY Zenon, <1>1, <1>t DEF Closed, RecoveryCase
<1>2. CASE VenueStep \/ BookStep \/ UNCHANGED vars
    BY Zenon, <1>2, CaseAlone
<1>3. CASE HandlerStep
  <2>1. PICK h \in Handlers : Commit(h) \/ Block(h) \/ Abandon(h) \/ \E d \in Cases : Compare(h, d)
    BY Zenon, <1>3 DEF HandlerStep
  <2>2. CASE Commit(h)
    <3>1. h \in fresh \cap current
        BY Zenon, <2>2 DEF Commit
    <3>2. plan[h].case \in Cases
        BY Zenon, <2>2 DEF Commit, RInv, PlanInv
    <3>3. c = plan[h].case
        BY Zenon, <2>2, <3>1, <3>2, <1>t DEF Commit, Write
    <3> QED BY Zenon, <2>2, <3>1, <3>3
  <2>3. CASE Block(h)
    <3>1. plan[h].case \in Cases
        BY Zenon, <2>3 DEF Block, RInv, PlanInv
    <3> QED BY Zenon, <2>3, <3>1, <1>1 DEF Block
  <2> QED BY Zenon, <2>1, <2>2, <2>3 DEF Abandon, Compare
<1>4. CASE CaseStep
  <2>1. PICK d \in Cases :
            \/ Freeze(d) \/ ProposeFeeCorrection(d) \/ ApproveFeeCorrection(d)
            \/ RefuseApproval(d) \/ HandleRecoveryParked(d)
            \/ \E x \in Execs, b \in Books : AcknowledgeRecovery(d, x, b)
    BY Zenon, <1>4 DEF CaseStep
  <2>2. CASE Freeze(d)
    BY Zenon, <2>2, <1>1, <1>t DEF Freeze, RecoveryCase
  <2>3. CASE ProposeFeeCorrection(d)
    BY Zenon, <2>3, <1>t DEF ProposeFeeCorrection, RecoveryCase
  <2>4. CASE ApproveFeeCorrection(d)
    BY Zenon, <2>4, <1>t DEF ApproveFeeCorrection, RecoveryCase
  <2>5. CASE RefuseApproval(d)
    BY Zenon, <2>5, <1>1 DEF RefuseApproval
  <2>6. CASE HandleRecoveryParked(d)
    BY Zenon, <2>6, <1>1 DEF HandleRecoveryParked
  <2>7. ASSUME NEW x \in Execs, NEW b \in Books, AcknowledgeRecovery(d, x, b)
        PROVE  c = d
    BY Zenon, <2>7, <1>t DEF AcknowledgeRecovery, Closed
  <2> QED BY Zenon, <2>1, <2>2, <2>3, <2>4, <2>5, <2>6, <2>7
<1> QED BY Zenon, <1>2, <1>3, <1>4 DEF Next

\* A case is closed with all its acknowledgements.
LEMMA ClosedInvStep ==
    ASSUME Counting, RInv, [Next]_vars
    PROVE  ClosedInv'
<1> SUFFICES ASSUME NEW c \in Cases, case'[c].status = "corrected",
                    NEW x \in Targets(c)', NEW b \in Books
             PROVE  <<x, b>> \in acks'[c]
    BY Zenon DEF ClosedInv
<1>t. /\ case \in [Cases -> RecoveryCase]
      /\ acks \in [Cases -> SUBSET (Execs \X Books)]
    BY Zenon DEF RInv, TypeOK
<1>1. CASE case[c].status = "corrected"
  <2>1. case'[c] = case[c]
    BY Zenon, <1>1, CaseMoves, CaseKept DEF Kept
  <2>2. x \in Targets(c)
    BY Zenon, <2>1 DEF Targets
  <2>3. <<x, b>> \in acks[c]
    BY Zenon, <1>1, <2>2 DEF RInv, ClosedInv
  <2>4. acks[c] \subseteq acks'[c]
    BY Zenon, ToldMoves, <1>t DEF AcknowledgeRecovery
  <2> QED BY Zenon, <2>3, <2>4
<1>2. CASE case[c].status # "corrected"
  <2>1. CASE \E h \in Handlers : h \in fresh \cap current /\ Commit(h) /\ c = plan[h].case
    <3>1. Write(c)
        BY Zenon, <2>1 DEF Commit
    <3>2. case'[c].history = case[c].history /\ Targets(c) = {}
        BY Zenon, <1>2, <3>1, <1>t DEF Write, RecoveryCase
    <3> QED BY Zenon, <3>2 DEF Targets
  <2>2. CASE \E y \in Execs, k \in Books : AcknowledgeRecovery(c, y, k)
    <3>1. PICK y \in Execs, k \in Books : AcknowledgeRecovery(c, y, k)
        BY Zenon, <2>2
    <3> DEFINE A == acks[c] \cup {<<y, k>>}
    <3>2. /\ Cardinality(A) = Cardinality(Targets(c) \X Books)
          /\ case' = Closed(c, "corrected")
        BY Zenon, <1>2, <3>1 DEF AcknowledgeRecovery
    <3>3. acks'[c] = A
        BY Zenon, <3>1, <1>t DEF AcknowledgeRecovery
    <3>4. \A z \in Execs, j \in Books : <<z, j>> \in A => z \in Targets(c)
        BY Zenon, <3>1 DEF AcknowledgeRecovery, RInv, AckInv, ToldInv
    <3>5. A \subseteq Execs \X Books
        BY <1>t
    <3>6. A \subseteq Targets(c) \X Books
        BY <3>4, <3>5
    <3> HIDE DEF A
    <3>7. A = Targets(c) \X Books
      <4>1. Targets(c) \in SUBSET Execs
        BY Zenon DEF Targets
      <4> QED BY Zenon, <3>2, <3>6, <4>1 DEF Counting
    <3>8. case'[c].history = case[c].history
        BY Zenon, <3>2, <1>t DEF Closed, RecoveryCase
    <3>9. x \in Targets(c)
        BY Zenon, <3>8 DEF Targets
    <3> QED BY Zenon, <3>3, <3>7, <3>9
  <2>3. (\E h \in Handlers : h \in fresh \cap current /\ Commit(h) /\ c = plan[h].case)
        \/ (\E y \in Execs, k \in Books : AcknowledgeRecovery(c, y, k))
    BY Zenon, <1>2, Correcting
  <2> QED BY Zenon, <2>1, <2>2, <2>3
<1> QED BY Zenon, <1>1, <1>2
-----------------------------------------------------------------------------
(* A handler that can still write has read what is so.                     *)

PlanMove(k) ==
    \/ plan'[k] = Idle
    \/ /\ plan'[k] = plan[k]
       /\ k \in fresh' => k \in fresh
       /\ k \in current' => k \in current
       /\ k \in current' /\ plan[k].case \in Cases /\ case[plan[k].case].status = "investigating" =>
            /\ case'[plan[k].case].status = case[plan[k].case].status
            /\ case'[plan[k].case].committed = case[plan[k].case].committed
            /\ k \in fresh' =>
                case'[plan[k].case] = case[plan[k].case] /\ head'[Oms] = head[Oms]
    \/ \E c \in Cases :
        /\ plan'[k] = [case |-> c, act |-> IF Contradicted(c) THEN "block" ELSE "commit"]
        /\ case[c].status = "investigating" /\ ~case[c].committed
        /\ case' = case /\ head' = head

\* Every step moves a handler in one of the ways of PlanMove.
LEMMA PlanMoves ==
    ASSUME RInv, [Next]_vars
    PROVE  \A k \in Handlers : PlanMove(k)
<1> SUFFICES ASSUME NEW k \in Handlers PROVE PlanMove(k)
    BY Zenon
<1> USE DEF PlanMove
<1>t. /\ case \in [Cases -> RecoveryCase]
      /\ head \in [Books \cup {Oms} -> Histories]
      /\ plan \in [Handlers -> [case : Cases \cup {None}, act : {"none", "commit", "block"}]]
    BY Zenon DEF RInv, TypeOK
<1>1. ASSUME NEW c \in Cases, NEW s, case' = Closed(c, s), current' = Bumped(c),
             plan' = plan, fresh' = fresh, head' = head
      PROVE  PlanMove(k)
  <2>1. k \in current' /\ plan[k].case \in Cases => case'[plan[k].case] = case[plan[k].case]
    BY Zenon, <1>1, <1>t DEF Closed, Bumped
  <2> QED BY Zenon, <1>1, <2>1 DEF Bumped
<1>2. CASE VenueStep
  <2>1. PICK y \in Execs : Execute(y) \/ FoldFill(y) \/ \E f \in Fees : ReviseFee(y, f)
    BY Zenon, <1>2 DEF VenueStep
  <2>2. CASE FoldFill(y)
    BY Zenon, <2>2 DEF FoldFill
  <2>3. CASE Execute(y) \/ \E f \in Fees : ReviseFee(y, f)
    BY Zenon, <2>3 DEF Execute, ReviseFee, workVars
  <2> QED BY Zenon, <2>1, <2>2, <2>3
<1>3. CASE HandlerStep
  <2>1. PICK h \in Handlers : Commit(h) \/ Block(h) \/ Abandon(h) \/ \E c \in Cases : Compare(h, c)
    BY Zenon, <1>3 DEF HandlerStep
  <2>2. CASE Commit(h)
    <3>1. CASE h \notin fresh \cap current
        BY Zenon, <2>2, <3>1, <1>t DEF Commit
    <3>2. CASE h \in fresh \cap current /\ k # h
      <4>1. /\ plan[h].case \in Cases /\ plan'[k] = plan[k] /\ fresh' = {}
            /\ current' = Bumped(plan[h].case)
        BY Zenon, <2>2, <3>2, <1>t DEF Commit, Write, RInv, PlanInv
      <4>2. k \in current' /\ plan[k].case \in Cases => case'[plan[k].case] = case[plan[k].case]
        BY Zenon, <2>2, <3>2, <4>1, <1>t DEF Commit, Write, Bumped
      <4> QED BY Zenon, <4>1, <4>2 DEF Bumped
    <3>3. CASE k = h
        BY Zenon, <2>2, <3>3, <1>t DEF Commit
    <3> QED BY Zenon, <3>1, <3>2, <3>3
  <2>3. CASE Block(h)
    <3>1. CASE h \notin current
        BY Zenon, <2>3, <3>1, <1>t DEF Block
    <3>2. CASE h \in current /\ k # h
      <4>1. /\ plan[h].case \in Cases /\ plan'[k] = plan[k] /\ fresh' = fresh \ {h}
            /\ current' = Bumped(plan[h].case) /\ head' = head
        BY Zenon, <2>3, <3>2, <1>t DEF Block, RInv, PlanInv
      <4>2. k \in current' /\ plan[k].case \in Cases => case'[plan[k].case] = case[plan[k].case]
        BY Zenon, <2>3, <3>2, <4>1, <1>t DEF Block, Closed, Bumped
      <4> QED BY Zenon, <4>1, <4>2 DEF Bumped
    <3>3. CASE k = h
        BY Zenon, <2>3, <3>3, <1>t DEF Block
    <3> QED BY Zenon, <3>1, <3>2, <3>3
  <2>4. CASE Abandon(h)
    BY Zenon, <2>4, <1>t DEF Abandon
  <2>5. ASSUME NEW c \in Cases, Compare(h, c) PROVE PlanMove(k)
    <3>1. CASE k = h
        BY Zenon, <2>5, <3>1, <1>t DEF Compare
    <3>2. CASE k # h
        BY Zenon, <2>5, <3>2, <1>t DEF Compare
    <3> QED BY Zenon, <3>1, <3>2
  <2> QED BY Zenon, <2>1, <2>2, <2>3, <2>4, <2>5
<1>4. CASE CaseStep
  <2>1. PICK c \in Cases :
            \/ Freeze(c) \/ ProposeFeeCorrection(c) \/ ApproveFeeCorrection(c)
            \/ RefuseApproval(c) \/ HandleRecoveryParked(c)
            \/ \E x \in Execs, b \in Books : AcknowledgeRecovery(c, x, b)
    BY Zenon, <1>4 DEF CaseStep
  <2>2. CASE Freeze(c)
    <3>1. \A d \in Cases : case[d].status = "investigating" => case'[d] = case[d]
        BY Zenon, <2>2, <1>t DEF Freeze, Closed
    <3> QED BY Zenon, <2>2, <3>1 DEF Freeze, workVars
  <2>3. CASE ProposeFeeCorrection(c)
    <3>1. \A d \in Cases : case'[d].status = case[d].status /\ case'[d].committed = case[d].committed
        BY <2>3, <1>t DEF ProposeFeeCorrection, RecoveryCase
    <3> QED BY Zenon, <2>3, <3>1 DEF ProposeFeeCorrection
  <2>4. CASE ApproveFeeCorrection(c)
    <3>1. k \in current' /\ plan[k].case \in Cases => case'[plan[k].case] = case[plan[k].case]
        BY Zenon, <2>4, <1>t DEF ApproveFeeCorrection, Bumped
    <3> QED BY Zenon, <2>4, <3>1 DEF ApproveFeeCorrection, Bumped
  <2>5. CASE RefuseApproval(c)
    BY Zenon, <2>5, <1>1 DEF RefuseApproval
  <2>6. CASE HandleRecoveryParked(c)
    BY Zenon, <2>6, <1>1 DEF HandleRecoveryParked
  <2>7. ASSUME NEW x \in Execs, NEW b \in Books, AcknowledgeRecovery(c, x, b) PROVE PlanMove(k)
    BY Zenon, <2>7, <1>1 DEF AcknowledgeRecovery
  <2> QED BY Zenon, <2>1, <2>2, <2>3, <2>4, <2>5, <2>6, <2>7
<1>5. CASE BookStep
  <2>1. ASSUME NEW b \in Books, NEW m, FoldFact(b, m) \/ ParkFact(b, m) \/ Redrive(b, m)
        PROVE  plan' = plan /\ fresh' = fresh /\ current' = current /\ case' = case
    BY Zenon, <2>1 DEF FoldFact, ParkFact, Redrive, workVars
  <2>2. ASSUME NEW b \in Books, NEW m, FoldFact(b, m)
        PROVE  head'[Oms] = head[Oms]
    BY Zenon, <2>2, <1>t, Apart DEF FoldFact
  <2>3. ASSUME NEW b \in Books, NEW m, ParkFact(b, m) \/ Redrive(b, m)
        PROVE  head'[Oms] = head[Oms]
    BY Zenon, <2>3 DEF ParkFact, Redrive
  <2>4. /\ plan' = plan /\ fresh' = fresh /\ current' = current /\ case' = case
        /\ head'[Oms] = head[Oms]
    BY Zenon, <1>5, <2>1, <2>2, <2>3 DEF BookStep, RefuseFact, FailFold
  <2> QED BY Zenon, <2>4
<1>6. CASE UNCHANGED vars
    BY Zenon, <1>6 DEF vars, workVars
<1> QED BY Zenon, <1>2, <1>3, <1>4, <1>5, <1>6 DEF Next

\* What a handler read is so until its versions have moved.
LEMMA PlanInvStep ==
    ASSUME RInv, [Next]_vars
    PROVE  PlanInv'
<1> SUFFICES ASSUME NEW h \in Handlers, NEW c, c = plan'[h].case, plan'[h].act # "none"
             PROVE  /\ c \in Cases
                    /\ h \in current' => case'[c].status = "investigating" /\ ~case'[c].committed
                    /\ h \in fresh' \cap current' /\ plan'[h].act = "commit" => ~Contradicted(c)'
    BY Zenon DEF PlanInv
<1>1. PlanMove(h)
    BY Zenon, PlanMoves
<1>2. ASSUME case'[c] = case[c], head'[Oms] = head[Oms]
      PROVE  Contradicted(c)' = Contradicted(c)
  <2>1. \A x \in Execs : Approved(c, x)' = Approved(c, x)
    BY Zenon, <1>2 DEF Approved
  <2>2. case'[c].history = case[c].history
    BY Zenon, <1>2
  <2> QED BY Zenon, <1>2, <2>1, <2>2 DEF Contradicted
<1>3. ASSUME plan'[h] = plan[h],
             h \in fresh' => h \in fresh, h \in current' => h \in current,
             h \in current' /\ c \in Cases /\ case[c].status = "investigating" =>
                /\ case'[c].status = case[c].status /\ case'[c].committed = case[c].committed
                /\ h \in fresh' => case'[c] = case[c] /\ head'[Oms] = head[Oms]
      PROVE  /\ c \in Cases
             /\ h \in current' => case'[c].status = "investigating" /\ ~case'[c].committed
             /\ h \in fresh' \cap current' /\ plan'[h].act = "commit" => ~Contradicted(c)'
  <2>1. /\ c \in Cases
        /\ h \in current => case[c].status = "investigating" /\ ~case[c].committed
        /\ h \in fresh \cap current /\ plan[h].act = "commit" => ~Contradicted(c)
    BY Zenon, <1>3 DEF RInv, PlanInv
  <2>2. h \in current' => case'[c].status = "investigating" /\ ~case'[c].committed
    BY Zenon, <1>3, <2>1
  <2>3. h \in fresh' \cap current' => Contradicted(c)' = Contradicted(c)
    BY Zenon, <1>2, <1>3, <2>1
  <2> QED BY Zenon, <1>3, <2>1, <2>2, <2>3
<1>4. CASE \E d \in Cases :
            /\ plan'[h] = [case |-> d, act |-> IF Contradicted(d) THEN "block" ELSE "commit"]
            /\ case[d].status = "investigating" /\ ~case[d].committed
            /\ case' = case /\ head' = head
  <2>1. PICK d \in Cases :
            /\ plan'[h] = [case |-> d, act |-> IF Contradicted(d) THEN "block" ELSE "commit"]
            /\ case[d].status = "investigating" /\ ~case[d].committed
            /\ case' = case /\ head' = head
    BY Zenon, <1>4
  <2>2. c = d /\ (plan'[h].act = "commit" => ~Contradicted(d))
    BY <2>1
  <2>3. Contradicted(c)' = Contradicted(c)
    BY Zenon, <1>2, <2>1
  <2> QED BY Zenon, <2>1, <2>2, <2>3
<1>5. plan'[h] # Idle
    BY DEF Idle
<1>6. CASE /\ plan'[h] = plan[h]
           /\ h \in fresh' => h \in fresh
           /\ h \in current' => h \in current
           /\ h \in current' /\ plan[h].case \in Cases /\ case[plan[h].case].status = "investigating" =>
                /\ case'[plan[h].case].status = case[plan[h].case].status
                /\ case'[plan[h].case].committed = case[plan[h].case].committed
                /\ h \in fresh' =>
                    case'[plan[h].case] = case[plan[h].case] /\ head'[Oms] = head[Oms]
  <2>1. plan[h].case = c
    BY Zenon, <1>6
  <2> QED BY Zenon, <1>3, <1>6, <2>1
<1> QED BY Zenon, <1>1, <1>4, <1>5, <1>6 DEF PlanMove
-----------------------------------------------------------------------------
(* Types.                                                                  *)

Row == [fee : MaybeFee, by : Cases \cup {None}]
Plans == [case : Cases \cup {None}, act : {"none", "commit", "block"}]

\* A step of the venue keeps the types.
LEMMA VenueTypes ==
    ASSUME RInv, VenueStep
    PROVE  TypeOK'
<1> USE DEF RInv, TypeOK
<1>1. PICK y \in Execs : Execute(y) \/ FoldFill(y) \/ \E f \in Fees : ReviseFee(y, f)
    BY Zenon DEF VenueStep
<1>2. \A f \in Fees : Fill(y, f) \in Facts
    BY Zenon DEF Fill, Facts, MaybeFee
<1>3. ASSUME NEW f \in Fees PROVE Announced({Fill(y, f)}) \in [Books -> SUBSET Facts]
    BY Zenon, <1>2 DEF Announced
<1>4. CASE Execute(y)
  <2>1. venue' \in Histories
    BY Zenon, <1>4, Apart DEF Execute, Histories, MaybeFee
  <2>2. inbox' \in [Books -> SUBSET Facts]
    BY Zenon, <1>3, <1>4, Apart DEF Execute
  <2> QED BY Zenon, <1>4, <2>1, <2>2 DEF Execute, bookVars, workVars
<1>5. CASE FoldFill(y)
  <2>1. venue[y] \in Fees
    BY Zenon, <1>5 DEF FoldFill, Histories, MaybeFee
  <2>2. inbox' \in [Books -> SUBSET Facts]
    BY Zenon, <1>3, <1>5, <2>1 DEF FoldFill
  <2>3. head' \in [Books \cup {Oms} -> Histories]
    BY Zenon, <1>5, <2>1 DEF FoldFill, Histories, MaybeFee
  <2>4. [fee |-> venue[y], by |-> None] \in Row
    BY Zenon, <2>1 DEF Row, MaybeFee
  <2>5. entry' \in [Books \cup {Oms} -> [Execs -> Row]]
    BY Zenon, <1>5, <2>4 DEF FoldFill, Row
  <2> QED BY Zenon, <1>5, <2>2, <2>3, <2>5 DEF FoldFill, venueVars, bookVars, Row
<1>6. ASSUME NEW f \in Fees, ReviseFee(y, f) PROVE TypeOK'
  <2>1. venue' \in Histories
    BY Zenon, <1>6 DEF ReviseFee, Histories, MaybeFee
  <2>2. moves' \in 0..MaxMoves
    <3>1. moves \in 0..MaxMoves /\ moves < MaxMoves /\ moves' = moves + 1
        BY Zenon, <1>6 DEF ReviseFee
    <3> HIDE DEF RInv, TypeOK
    <3> QED BY <3>1, Bounds
  <2> QED BY Zenon, <1>6, <2>1, <2>2 DEF ReviseFee, bookVars, workVars
<1> QED BY Zenon, <1>1, <1>4, <1>5, <1>6

\* CommitRecovery's transaction keeps the types of what it writes.
LEMMA WriteTypes ==
    ASSUME RInv, NEW c \in Cases, case[c].history # None, Write(c)
    PROVE  /\ head' \in [Books \cup {Oms} -> Histories]
           /\ entry' \in [Books \cup {Oms} -> [Execs -> Row]]
           /\ done' \in [Books \cup {Oms} -> [Execs -> SUBSET Cases]]
           /\ case' \in [Cases -> RecoveryCase]
           /\ inbox' \in [Books -> SUBSET Facts]
           /\ fresh' \subseteq Handlers /\ current' \subseteq Handlers
<1>t. /\ head \in [Books \cup {Oms} -> Histories]
      /\ entry \in [Books \cup {Oms} -> [Execs -> Row]]
      /\ done \in [Books \cup {Oms} -> [Execs -> SUBSET Cases]]
      /\ case \in [Cases -> RecoveryCase]
      /\ inbox \in [Books -> SUBSET Facts] /\ current \subseteq Handlers
    BY Zenon DEF RInv, TypeOK, Row
<1>1. \A x \in Targets(c) : case[c].history[x] \in Fees
    BY Zenon, CaseTypes
<1>2. head' \in [Books \cup {Oms} -> Histories]
  <2>1. head[Oms] \in [Execs -> Fees \cup {None}]
    BY Zenon, <1>t DEF Histories, MaybeFee
  <2>2. [x \in Execs |-> IF x \in Targets(c) THEN case[c].history[x] ELSE head[Oms][x]] \in Histories
    BY Zenon, <1>1, <2>1 DEF Histories, MaybeFee
  <2> QED BY Zenon, <2>2, <1>t DEF Write
<1>3. entry' \in [Books \cup {Oms} -> [Execs -> Row]]
  <2> DEFINE e == [x \in Execs |-> IF x \in Targets(c) /\ head[Oms][x] = None
                        THEN [fee |-> case[c].history[x], by |-> None] ELSE entry[Oms][x]]
  <2>1. \A x \in Targets(c) : [fee |-> case[c].history[x], by |-> None] \in Row
    BY Zenon, <1>1 DEF Row, MaybeFee
  <2>2. e \in [Execs -> Row]
    BY Zenon, <2>1, <1>t
  <2> QED BY Zenon, <2>2, <1>t DEF Write
<1>4. done' \in [Books \cup {Oms} -> [Execs -> SUBSET Cases]]
  <2>1. [x \in Execs |-> IF Approved(c, x) # None THEN done[Oms][x] \cup {c} ELSE done[Oms][x]]
            \in [Execs -> SUBSET Cases]
    BY <1>t
  <2> QED BY Zenon, <2>1, <1>t DEF Write
<1>5. case' \in [Cases -> RecoveryCase]
  <2>1. [case[c] EXCEPT !.committed = TRUE,
             !.status = IF Targets(c) = {} THEN "corrected" ELSE case[c].status] \in RecoveryCase
    BY Zenon, <1>t DEF RecoveryCase, Statuses
  <2> QED BY Zenon, <2>1, <1>t DEF Write
<1>6. inbox' \in [Books -> SUBSET Facts]
  <2>1. \A x \in Targets(c) : Recovered(c, x) \in Facts
    BY Zenon, <1>1, CaseTypes DEF Recovered, Facts, Targets
  <2>2. \A b \in Books : inbox[b] \cup {Recovered(c, x) : x \in Targets(c)} \subseteq Facts
    BY Zenon, <2>1, <1>t
  <2> QED BY Zenon, <2>2 DEF Write, Announced
<1> QED BY Zenon, <1>t, <1>2, <1>3, <1>4, <1>5, <1>6 DEF Write, Bumped

\* A status more or less keeps a case's type.
LEMMA ClosedTypes ==
    ASSUME RInv, NEW c \in Cases, NEW s \in Statuses
    PROVE  Closed(c, s) \in [Cases -> RecoveryCase]
<1>1. case \in [Cases -> RecoveryCase]
    BY Zenon DEF RInv, TypeOK
<1>2. [case[c] EXCEPT !.status = s] \in RecoveryCase
    BY Zenon, <1>1 DEF RecoveryCase
<1> QED BY Zenon, <1>1, <1>2 DEF Closed

\* A step of a handler keeps the types.
LEMMA HandlerTypes ==
    ASSUME RInv, HandlerStep
    PROVE  TypeOK'
<1>1. PICK h \in Handlers : Commit(h) \/ Block(h) \/ Abandon(h) \/ \E c \in Cases : Compare(h, c)
    BY Zenon DEF HandlerStep
<1>2. Idle \in Plans
    BY Zenon DEF Idle, Plans
<1>3. plan \in [Handlers -> Plans] /\ TypeOK
    BY Zenon DEF RInv, TypeOK, Plans
<1>4. [plan EXCEPT ![h] = Idle] \in [Handlers -> Plans]
    BY Zenon, <1>2, <1>3
<1>5. CASE Commit(h)
  <2>1. plan' \in [Handlers -> Plans]
    BY Zenon, <1>4, <1>5 DEF Commit
  <2>2. CASE h \notin fresh \cap current
    BY Zenon, <1>3, <1>5, <2>1, <2>2 DEF Commit, TypeOK, venueVars, bookVars, Plans
  <2>3. CASE h \in fresh \cap current
    <3>1. /\ plan[h].case \in Cases /\ case[plan[h].case].history # None
          /\ Write(plan[h].case)
        BY Zenon, <1>5, <2>3 DEF RInv, PlanInv, CaseInv, Commit
    <3>2. /\ head' \in [Books \cup {Oms} -> Histories]
          /\ entry' \in [Books \cup {Oms} -> [Execs -> Row]]
          /\ done' \in [Books \cup {Oms} -> [Execs -> SUBSET Cases]]
          /\ case' \in [Cases -> RecoveryCase]
          /\ inbox' \in [Books -> SUBSET Facts]
          /\ fresh' \subseteq Handlers /\ current' \subseteq Handlers
        BY Zenon, <3>1, WriteTypes
    <3> QED BY Zenon, <1>3, <1>5, <2>1, <3>2 DEF Commit, TypeOK, venueVars, bookVars, Plans, Row
  <2> QED BY Zenon, <2>2, <2>3
<1>6. CASE Block(h)
  <2>1. plan' \in [Handlers -> Plans]
    BY Zenon, <1>4, <1>6 DEF Block
  <2>2. case' \in [Cases -> RecoveryCase]
    BY Zenon, <1>3, <1>6, ClosedTypes DEF Block, RInv, PlanInv, TypeOK, Statuses
  <2>3. fresh' \subseteq Handlers /\ current' \subseteq Handlers
    BY Zenon, <1>3, <1>6 DEF Block, Bumped, TypeOK
  <2> QED BY Zenon, <1>3, <1>6, <2>1, <2>2, <2>3 DEF Block, TypeOK, venueVars, bookVars, Plans
<1>7. CASE Abandon(h)
    BY Zenon, <1>3, <1>4, <1>7 DEF Abandon, TypeOK, venueVars, bookVars, Plans
<1>8. ASSUME NEW c \in Cases, Compare(h, c) PROVE TypeOK'
  <2>1. plan' \in [Handlers -> Plans]
    BY Zenon, <1>3, <1>8 DEF Compare, Plans
  <2> QED BY Zenon, <1>3, <1>8, <2>1 DEF Compare, TypeOK, venueVars, bookVars, Plans
<1> QED BY Zenon, <1>1, <1>5, <1>6, <1>7, <1>8

\* A step of a case keeps the types.
LEMMA CaseStepTypes ==
    ASSUME RInv, CaseStep, \A c \in Cases : CaseMove(c)
    PROVE  TypeOK'
<1>1. PICK c \in Cases :
            \/ Freeze(c) \/ ProposeFeeCorrection(c) \/ ApproveFeeCorrection(c)
            \/ RefuseApproval(c) \/ HandleRecoveryParked(c)
            \/ \E x \in Execs, b \in Books : AcknowledgeRecovery(c, x, b)
    BY Zenon DEF CaseStep
<1>t. TypeOK
    BY Zenon DEF RInv
<1>2. case' \in [Cases -> RecoveryCase]
  <2>1. \A d \in Cases : case'[d] \in RecoveryCase
    BY Zenon, FieldMoves, CaseTypes DEF FieldMove
  <2>2. case' = [d \in Cases |-> case'[d]]
    BY Zenon, <1>1, <1>t DEF TypeOK, Freeze, ProposeFeeCorrection, ApproveFeeCorrection,
       RefuseApproval,
       HandleRecoveryParked, AcknowledgeRecovery, Closed
  <2> QED BY Zenon, <2>1, <2>2
<1>3. current' \subseteq Handlers /\ fresh' \subseteq Handlers /\ alarms' \subseteq Cases /\ plan' = plan
    BY Zenon, <1>1, <1>t DEF TypeOK, Freeze, ProposeFeeCorrection, ApproveFeeCorrection,
       RefuseApproval,
       HandleRecoveryParked, AcknowledgeRecovery, Bumped, workVars, bookVars
<1>4. acks' \in [Cases -> SUBSET (Execs \X Books)]
  <2>1. acks \in [Cases -> SUBSET (Execs \X Books)]
    BY Zenon, <1>t DEF TypeOK
  <2>2. ASSUME NEW x \in Execs, NEW b \in Books, AcknowledgeRecovery(c, x, b)
        PROVE  acks' \in [Cases -> SUBSET (Execs \X Books)]
    <3>1. acks[c] \cup {<<x, b>>} \in SUBSET (Execs \X Books)
        BY <2>1
    <3> QED BY Zenon, <2>1, <2>2, <3>1 DEF AcknowledgeRecovery
  <2>3. CASE acks' = acks
    BY Zenon, <2>1, <2>3
  <2> QED BY Zenon, <1>1, <2>2, <2>3 DEF Freeze, ProposeFeeCorrection, ApproveFeeCorrection,
       RefuseApproval, HandleRecoveryParked
<1>5. UNCHANGED <<venue, moves, head, entry, done, told, inbox, parked, failures>>
    BY Zenon, <1>1 DEF Freeze, ProposeFeeCorrection, ApproveFeeCorrection, RefuseApproval,
       HandleRecoveryParked, AcknowledgeRecovery, venueVars, bookVars
<1> QED BY Zenon, <1>t, <1>2, <1>3, <1>4, <1>5 DEF TypeOK

\* The type of a table of tables survives an update of one of its fields.
LEMMA Update2 ==
    ASSUME NEW A, NEW B, NEW C, NEW F \in [A -> [B -> C]],
           NEW i \in A, NEW j \in B, NEW c \in C
    PROVE  [F EXCEPT ![i][j] = c] \in [A -> [B -> C]]
BY Zenon

\* A step of a book keeps the types.
LEMMA BookTypes ==
    ASSUME RInv, BookStep
    PROVE  TypeOK'
<1>1. PICK b \in Books :
            \/ \E m \in inbox[b] : FoldFact(b, m) \/ RefuseFact(b, m) \/ FailFold(b, m)
            \/ \E m \in parked[b] : Redrive(b, m)
    BY Zenon DEF BookStep
<1>t. TypeOK
    BY Zenon DEF RInv
<1>u. /\ head \in [Books \cup {Oms} -> Histories]
      /\ entry \in [Books \cup {Oms} -> [Execs -> Row]]
      /\ done \in [Books \cup {Oms} -> [Execs -> SUBSET Cases]]
      /\ told \subseteq Cases \X Execs \X Books
    BY Zenon, <1>t DEF TypeOK, Row
<1>v. /\ inbox \in [Books -> SUBSET Facts] /\ parked \in [Books -> SUBSET Facts]
      /\ failures \in 0..MaxFailures
    BY Zenon, <1>t DEF TypeOK
<1>2. \A m \in inbox[b] \cup parked[b] :
        /\ m \in Facts /\ m.exec \in Execs /\ m.fee \in Fees
        /\ m.case \in Cases \cup {None} /\ (m.prev # None => m.case \in Cases)
  <2>1. TAKE m \in inbox[b] \cup parked[b]
  <2>2. m \in Facts /\ Sound(m)
    BY Zenon, <1>v DEF RInv, FactInv
  <2>3. m.exec \in Execs /\ m.fee \in Fees /\ m.case \in Cases \cup {None}
    BY Zenon, <2>2 DEF Facts
  <2> QED BY Zenon, <2>2, <2>3 DEF Sound
<1>3. ASSUME NEW m \in inbox[b], FoldFact(b, m) PROVE TypeOK'
  <2>0. /\ b \in Books \cup {Oms} /\ m.exec \in Execs /\ m.fee \in Fees
        /\ m.case \in Cases \cup {None} /\ (m.prev # None => m.case \in Cases)
    BY Zenon, <1>2
  <2> DEFINE new == head[b][m.exec] = None
             corrects == m.prev # None /\ ~Repeated(b, m)
             f == IF new \/ corrects THEN m.fee ELSE head[b][m.exec]
             r == IF new THEN [fee |-> m.fee, by |-> IF corrects THEN m.case ELSE None]
                  ELSE entry[b][m.exec]
             D == IF corrects THEN done[b][m.exec] \cup {m.case} ELSE done[b][m.exec]
  <2>f. /\ head' = [head EXCEPT ![b][m.exec] = f]
        /\ entry' = [entry EXCEPT ![b][m.exec] = r]
        /\ done' = [done EXCEPT ![b][m.exec] = D]
    BY Zenon, <1>3 DEF FoldFact
  <2>1. head' \in [Books \cup {Oms} -> Histories]
    <3>1. head \in [Books \cup {Oms} -> [Execs -> MaybeFee]]
        BY Zenon, <1>u DEF Histories
    <3>2. f \in MaybeFee
        BY Zenon, <2>0, <3>1 DEF MaybeFee
    <3> HIDE DEF f
    <3> QED BY Zenon, <2>0, <2>f, <3>1, <3>2, Update2 DEF Histories
  <2>2. r \in Row
    <3>1. entry[b][m.exec] \in Row
        BY <2>0, <1>u
    <3>2. \A by \in Cases \cup {None} : [fee |-> m.fee, by |-> by] \in Row
        BY Zenon, <2>0 DEF Row, MaybeFee
    <3> QED BY Zenon, <2>0, <3>1, <3>2
  <2>4. entry' \in [Books \cup {Oms} -> [Execs -> Row]]
    <3> HIDE DEF r
    <3> QED BY Zenon, <1>u, <2>0, <2>f, <2>2, Update2
  <2>5. done' \in [Books \cup {Oms} -> [Execs -> SUBSET Cases]]
    <3>1. done[b][m.exec] \subseteq Cases
        BY Zenon, <2>0, <1>u
    <3>2. D \in SUBSET Cases
        BY Zenon, <2>0, <3>1
    <3> HIDE DEF D
    <3> QED BY Zenon, <1>u, <2>0, <2>f, <3>2, Update2
  <2>6. told' \subseteq Cases \X Execs \X Books
    <3>1. told' = told \cup ({<<m.case, m.exec, b>>} \ {<<None, m.exec, b>>})
        BY Zenon, <1>3 DEF FoldFact
    <3>2. m.case # None => <<m.case, m.exec, b>> \in Cases \X Execs \X Books
        BY Zenon, <1>2
    <3> QED BY Zenon, <1>u, <3>1, <3>2
  <2>7. inbox' \in [Books -> SUBSET Facts]
    BY Zenon, <1>3, <1>v DEF FoldFact, Taken
  <2>8. failures' \in 0..MaxFailures
    <3>1. failures' = failures \/ (failures < MaxFailures /\ failures' = failures + 1)
        BY Zenon, <1>3 DEF FoldFact, Taken
    <3> QED BY <1>v, <3>1, Bounds
  <2> QED BY Zenon, <1>3, <1>t, <2>1, <2>4, <2>5, <2>6, <2>7, <2>8
          DEF FoldFact, TypeOK, venueVars, workVars, Row
<1>4. ASSUME NEW m \in inbox[b], ParkFact(b, m), failures' \in 0..MaxFailures PROVE TypeOK'
  <2>1. inbox' \in [Books -> SUBSET Facts] /\ parked' \in [Books -> SUBSET Facts]
    BY Zenon, <1>2, <1>4, <1>t DEF ParkFact, TypeOK
  <2>2. alarms' \subseteq Cases
    BY Zenon, <1>2, <1>4, <1>t DEF ParkFact, TypeOK, Alarmed
  <2> QED BY Zenon, <1>4, <1>t, <2>1, <2>2 DEF ParkFact, TypeOK, venueVars, workVars
<1>5. ASSUME NEW m \in parked[b], Redrive(b, m) PROVE TypeOK'
  <2>1. inbox' \in [Books -> SUBSET Facts] /\ parked' \in [Books -> SUBSET Facts]
    BY Zenon, <1>2, <1>5, <1>t DEF Redrive, TypeOK
  <2> QED BY Zenon, <1>5, <1>t, <2>1 DEF Redrive, TypeOK, venueVars, workVars
<1>6. ASSUME NEW m \in inbox[b], RefuseFact(b, m) \/ FailFold(b, m)
      PROVE  ParkFact(b, m) /\ failures' \in 0..MaxFailures
  <2>1. /\ ParkFact(b, m)
        /\ failures' = failures \/ (failures < MaxFailures /\ failures' = failures + 1)
    BY Zenon, <1>6 DEF RefuseFact, FailFold
  <2> QED BY <1>v, <2>1, Bounds
<1> QED BY Zenon, <1>1, <1>3, <1>4, <1>5, <1>6

-----------------------------------------------------------------------------
(* The theorems.                                                           *)

\* The OMS and the books begin with nothing, and every case unobserved.
LEMMA RInvInit ==
    ASSUME Init
    PROVE  RInv
<1> USE DEF Init
<1>1. TypeOK
  <2>1. Nothing \in Histories
    BY Zenon DEF Nothing, Histories, MaybeFee
  <2>2. [fee |-> None, by |-> None] \in Row
    BY Zenon DEF Row, MaybeFee
  <2>3. [x \in Execs |-> [fee |-> None, by |-> None]] \in [Execs -> Row]
    BY Zenon, <2>2
  <2>4. entry \in [Books \cup {Oms} -> [Execs -> Row]]
    BY Zenon, <2>3
  <2>5. case \in [Cases -> RecoveryCase]
    BY Zenon DEF RecoveryCase, Statuses
  <2>6. moves \in 0..MaxMoves /\ failures \in 0..MaxFailures
    BY Bounds
  <2>7. plan \in [Handlers -> Plans]
    BY Zenon DEF Idle, Plans
  <2> QED BY Zenon, <2>1, <2>4, <2>5, <2>6, <2>7 DEF TypeOK, Row, Plans
<1>2. CaseInv /\ PlanInv
    BY Zenon DEF CaseInv, PlanInv, Idle
<1>3. FactInv /\ ToldInv /\ AckInv
    BY Zenon DEF FactInv, ToldInv, AckInv
<1>4. PostedInv /\ ClosedInv /\ DoneInv
    BY Zenon DEF PostedInv, ClosedInv, DoneInv
<1> QED BY Zenon, <1>1, <1>2, <1>3, <1>4 DEF RInv

\* RInv is inductive.
LEMMA RInvStep ==
    ASSUME Counting, RInv, [Next]_vars
    PROVE  RInv'
<1>1. CaseInv'
    BY Zenon, CaseMoves, CaseInvStep
<1>2. TypeOK'
  <2>1. CASE UNCHANGED vars
    BY Zenon, <2>1 DEF RInv, TypeOK, vars, venueVars, bookVars, workVars
  <2> QED BY Zenon, <2>1, CaseMoves, VenueTypes, HandlerTypes, CaseStepTypes, BookTypes DEF Next
<1>3. PlanInv' /\ FactInv' /\ ToldInv' /\ AckInv' /\ PostedInv' /\ ClosedInv' /\ DoneInv'
    BY Zenon, PlanInvStep, FactInvStep, ToldInvStep, AckInvStep, PostedInvStep, ClosedInvStep,
       DoneInvStep
<1> QED BY Zenon, <1>1, <1>2, <1>3 DEF RInv

-----------------------------------------------------------------------------
(* Fees as paths. The corrections a journal has recorded lead from the fee  *)
(* first booked to the fee on record, each from its baseline to its fee. So *)
(* of any fee the recorded corrections arrive at it as often as they leave  *)
(* it, except at the two ends, and the same corrections end in the same fee *)
(* whatever order they came in.                                             *)

Into(b, x, v) == {c \in done[b][x] : case[c].history[x] = v}
From(b, x, v) == {c \in done[b][x] : Approved(c, x) = v}
One(p) == IF p THEN 1 ELSE 0

Balanced(b, x) ==
    \A v \in Fees :
        Cardinality(Into(b, x, v)) + One(entry[b][x].fee = v)
            = Cardinality(From(b, x, v)) + One(head[b][x] = v)

\* A correction a journal may have on record: committed, from a fee to a fee.
Recorded(c, x) == case[c].committed /\ Approved(c, x) \in Fees /\ case[c].history[x] \in Fees

Booked(b, x) ==
    /\ head[b][x] = None => entry[b][x].fee = None /\ done[b][x] = {}
    /\ head[b][x] # None => entry[b][x].fee # None
    /\ IsFiniteSet(done[b][x])
    /\ \A c \in done[b][x] : Recorded(c, x)
    /\ entry[b][x].by = None /\ head[b][x] # None => Balanced(b, x)

\* What the OMS has corrected is recorded by a book or on its way there.
SentInv ==
    \A b \in Books, x \in Execs : \A c \in done[Oms][x] :
        c \in done[b][x] \/ \E m \in Underway(b, x) : m.case = c

FeeInv ==
    /\ \A b \in Books \cup {Oms}, x \in Execs : Booked(b, x)
    /\ \A x \in Execs : entry[Oms][x].by = None
    /\ SentInv

\* What the proof uses of sets of cases being counted.
CasesCount ==
    \A S \in SUBSET Cases : IsFiniteSet(S) =>
        /\ Cardinality(S) \in Nat
        /\ \A T \in SUBSET S : IsFiniteSet(T)
        /\ \A c \in Cases \ S :
            IsFiniteSet(S \cup {c}) /\ Cardinality(S \cup {c}) = Cardinality(S) + 1

\* How a step changes what a journal first booked.
EntryMove(b, x) ==
    IF head[b][x] # None \/ head'[b][x] = None
    THEN entry'[b][x] = entry[b][x]
    ELSE /\ entry'[b][x].fee = head'[b][x]
         /\ entry'[b][x].by = None => done'[b][x] = done[b][x]
         /\ b = Oms => entry'[b][x].by = None

\* What a step does to the first entries.
LEMMA EntryMoves ==
    ASSUME RInv, [Next]_vars
    PROVE  \A b \in Books \cup {Oms}, x \in Execs : EntryMove(b, x)
<1> SUFFICES ASSUME NEW b \in Books \cup {Oms}, NEW x \in Execs PROVE EntryMove(b, x)
    BY Zenon
<1>t. /\ head \in [Books \cup {Oms} -> Histories]
      /\ done \in [Books \cup {Oms} -> [Execs -> SUBSET Cases]]
      /\ entry \in [Books \cup {Oms} -> [Execs -> Row]]
      /\ venue \in Histories
      /\ inbox \in [Books -> SUBSET Facts]
    BY Zenon DEF RInv, TypeOK, Row
<1>1. ASSUME head'[b][x] = head[b][x], entry'[b][x] = entry[b][x] PROVE EntryMove(b, x)
    BY Zenon, <1>1 DEF EntryMove
<1>2. ASSUME NEW h \in Handlers, h \in fresh \cap current, Commit(h) PROVE EntryMove(b, x)
  <2>0. PICK c \in Cases : c = plan[h].case /\ ~Contradicted(c)
    BY Zenon, <1>2 DEF RInv, PlanInv, Commit
  <2>1. Write(c)
    BY Zenon, <1>2, <2>0 DEF Commit
  <2>2. CASE b # Oms
    BY Zenon, <2>1, <2>2, <1>1, <1>t DEF Write
  <2>3. CASE b = Oms
    <3>1. head'[Oms][x] = IF x \in Targets(c) THEN case[c].history[x] ELSE head[Oms][x]
        BY Zenon, <2>1, <1>t DEF Write
    <3>2. done'[Oms][x] = IF Approved(c, x) # None THEN done[Oms][x] \cup {c} ELSE done[Oms][x]
        BY Zenon, <2>1, <1>t DEF Write
    <3>3. entry'[Oms][x] = IF x \in Targets(c) /\ head[Oms][x] = None
                           THEN [fee |-> case[c].history[x], by |-> None] ELSE entry[Oms][x]
        BY Zenon, <2>1, <1>t DEF Write
    <3>4. Approved(c, x) \in {None, head[Oms][x]}
        BY Zenon, <2>0 DEF Contradicted
    <3>5. CASE head[Oms][x] # None \/ x \notin Targets(c)
        BY Zenon, <2>3, <3>1, <3>3, <3>5 DEF EntryMove
    <3>6. CASE head[Oms][x] = None /\ x \in Targets(c)
      <4>1. entry'[Oms][x] = [fee |-> case[c].history[x], by |-> None]
        BY Zenon, <3>3, <3>6
      <4>2. entry'[Oms][x].fee = head'[Oms][x] /\ entry'[Oms][x].by = None
        BY <3>1, <3>6, <4>1
      <4>3. done'[Oms][x] = done[Oms][x] /\ head'[Oms][x] # None
        BY Zenon, <3>1, <3>2, <3>4, <3>6 DEF Targets
      <4> QED BY Zenon, <2>3, <3>6, <4>2, <4>3 DEF EntryMove
    <3> QED BY Zenon, <3>5, <3>6
  <2> QED BY Zenon, <2>2, <2>3
<1>3. ASSUME NEW y \in Execs, FoldFill(y) PROVE EntryMove(b, x)
  <2>1. /\ head' = [head EXCEPT ![Oms][y] = venue[y]] /\ done' = done
        /\ entry' = [entry EXCEPT ![Oms][y] = [fee |-> venue[y], by |-> None]]
    BY Zenon, <1>3 DEF FoldFill
  <2>2. CASE b = Oms /\ x = y
    <3>1. head'[b][x] = venue[y] /\ entry'[b][x] = [fee |-> venue[y], by |-> None]
        BY Zenon, <2>1, <2>2, <1>t DEF Histories
    <3>2. venue[y] # None /\ head[b][x] = None
        BY Zenon, <1>3, <2>2 DEF FoldFill
    <3>3. entry'[b][x].fee = head'[b][x] /\ entry'[b][x].by = None /\ head'[b][x] # None
        BY <3>1, <3>2
    <3> QED BY Zenon, <2>1, <3>2, <3>3 DEF EntryMove
  <2>3. CASE ~(b = Oms /\ x = y)
    <3>1. head'[b][x] = head[b][x]
        BY Zenon, <2>1, <2>3, <1>t DEF Histories
    <3>2. entry'[b][x] = entry[b][x]
        BY Zenon, <2>1, <2>3, <1>t
    <3> QED BY Zenon, <3>1, <3>2, <1>1
  <2> QED BY Zenon, <2>2, <2>3
<1>4. ASSUME NEW k \in Books, NEW m \in inbox[k], FoldFact(k, m) PROVE EntryMove(b, x)
  <2>1. m \in Facts /\ Sound(m)
    BY Zenon, <1>t DEF RInv, FactInv
  <2>2. m.exec \in Execs /\ m.fee \in Fees /\ m.case \in Cases \cup {None}
    BY Zenon, <2>1 DEF Facts
  <2>3. CASE b = k /\ x = m.exec
    <3> DEFINE corrects == m.prev # None /\ ~Repeated(k, m)
    <3>1. head'[b][x] = IF head[b][x] = None \/ corrects THEN m.fee ELSE head[b][x]
        BY Zenon, <1>4, <2>2, <2>3, <1>t DEF FoldFact, Histories
    <3>2. done'[b][x] = IF corrects THEN done[b][x] \cup {m.case} ELSE done[b][x]
        BY Zenon, <1>4, <2>2, <2>3, <1>t DEF FoldFact
    <3>3. entry'[b][x] = IF head[b][x] = None
                         THEN [fee |-> m.fee, by |-> IF corrects THEN m.case ELSE None]
                         ELSE entry[b][x]
        BY Zenon, <1>4, <2>2, <2>3, <1>t DEF FoldFact
    <3>4. corrects => m.case # None
        BY Zenon, <2>1 DEF Sound
    <3>5. b # Oms
        BY Zenon, <2>3, Apart
    <3> HIDE DEF corrects
    <3>6. CASE head[b][x] # None
        BY Zenon, <3>3, <3>6 DEF EntryMove
    <3>7. CASE head[b][x] = None
      <4>1. head'[b][x] = m.fee /\ m.fee # None
        BY Zenon, <3>1, <3>7, <2>2, Apart
      <4>2. entry'[b][x].fee = m.fee /\ entry'[b][x].by = IF corrects THEN m.case ELSE None
        BY <3>3, <3>7
      <4>3. entry'[b][x].by = None => done'[b][x] = done[b][x]
        BY Zenon, <4>2, <3>2, <3>4
      <4> QED BY Zenon, <4>1, <4>2, <4>3, <3>5, <3>7 DEF EntryMove
    <3> QED BY Zenon, <3>6, <3>7
  <2>4. CASE ~(b = k /\ x = m.exec)
    <3>1. head'[b][x] = head[b][x]
        BY Zenon, <1>4, <2>2, <2>4, <1>t DEF FoldFact, Histories
    <3>2. entry'[b][x] = entry[b][x]
        BY Zenon, <1>4, <2>2, <2>4, <1>t DEF FoldFact
    <3> QED BY Zenon, <3>1, <3>2, <1>1
  <2> QED BY Zenon, <2>3, <2>4
<1>5. CASE HandlerStep /\ ~\E h \in Handlers : h \in fresh \cap current /\ Commit(h)
    BY Zenon, <1>5, <1>1 DEF HandlerStep, Commit, Block, Abandon, Compare
<1>6. CASE CaseStep
    BY Zenon, <1>6, <1>1 DEF CaseStep, Freeze, ProposeFeeCorrection, ApproveFeeCorrection,
       RefuseApproval, HandleRecoveryParked, AcknowledgeRecovery
<1>7. CASE VenueStep
    BY Zenon, <1>7, <1>1, <1>3 DEF VenueStep, Execute, ReviseFee
<1>8. CASE BookStep
    BY Zenon, <1>8, <1>1, <1>4 DEF BookStep, RefuseFact, FailFold, ParkFact, Redrive
<1>9. CASE UNCHANGED vars
    BY Zenon, <1>9, <1>1 DEF vars
<1> QED BY Zenon, <1>2, <1>5, <1>6, <1>7, <1>8, <1>9 DEF Next

\* A FACT leaves a book's subject and its dead letters only by being folded.
LEMMA FactsStay ==
    ASSUME RInv, [Next]_vars, NEW b \in Books, NEW m \in inbox[b] \cup parked[b]
    PROVE  m \in inbox'[b] \cup parked'[b] \/ FoldFact(b, m)
<1>t. inbox \in [Books -> SUBSET Facts] /\ parked \in [Books -> SUBSET Facts]
    BY Zenon DEF RInv, TypeOK
<1>0. ASSUME NEW F, inbox' = Announced(F) \/ inbox' = inbox, parked' = parked
      PROVE  m \in inbox'[b] \cup parked'[b]
  <2>1. Announced(F)[b] = inbox[b] \cup F
    BY Zenon DEF Announced
  <2> QED BY Zenon, <1>0, <2>1
<1>1. CASE VenueStep
    BY Zenon, <1>0, <1>1 DEF VenueStep, Execute, FoldFill, ReviseFee, bookVars
<1>2. CASE HandlerStep
    BY Zenon, <1>0, <1>2 DEF HandlerStep, Commit, Write, Block, Abandon, Compare, bookVars
<1>3. CASE CaseStep
    BY Zenon, <1>3 DEF CaseStep, Freeze, ProposeFeeCorrection, ApproveFeeCorrection,
       RefuseApproval, HandleRecoveryParked, AcknowledgeRecovery, bookVars
<1>4. CASE BookStep
  <2>1. ASSUME NEW k \in Books, NEW n \in inbox[k], FoldFact(k, n)
        PROVE  m \in inbox'[b] \cup parked'[b] \/ FoldFact(b, m)
    <3>1. parked' = parked /\ (inbox' = [inbox EXCEPT ![k] = @ \ {n}] \/ inbox' = inbox)
        BY Zenon, <2>1 DEF FoldFact, Taken
    <3>2. CASE b = k /\ m = n
        BY Zenon, <2>1, <3>2
    <3>3. CASE ~(b = k /\ m = n)
        BY Zenon, <3>1, <3>3, <1>t
    <3> QED BY Zenon, <3>2, <3>3
  <2>2. ASSUME NEW k \in Books, NEW n, ParkFact(k, n) PROVE m \in inbox'[b] \cup parked'[b]
    BY Zenon, <2>2, <1>t DEF ParkFact
  <2>3. ASSUME NEW k \in Books, NEW n, Redrive(k, n) PROVE m \in inbox'[b] \cup parked'[b]
    BY Zenon, <2>3, <1>t DEF Redrive
  <2> QED BY Zenon, <1>4, <2>1, <2>2, <2>3 DEF BookStep, RefuseFact, FailFold
<1>5. CASE UNCHANGED vars
    BY Zenon, <1>5 DEF vars, bookVars
<1> QED BY Zenon, <1>1, <1>2, <1>3, <1>4, <1>5 DEF Next

\* What the OMS corrects, it announces to every book.
LEMMA SentStep ==
    ASSUME RInv, RInv', FeeInv, [Next]_vars
    PROVE  SentInv'
<1> SUFFICES ASSUME NEW b \in Books, NEW x \in Execs, NEW c \in done'[Oms][x]
             PROVE  c \in done'[b][x] \/ \E m \in Underway(b, x)' : m.case = c
    BY Zenon DEF SentInv
<1>t. /\ head \in [Books \cup {Oms} -> Histories]
      /\ done \in [Books \cup {Oms} -> [Execs -> SUBSET Cases]]
      /\ done' \in [Books \cup {Oms} -> [Execs -> SUBSET Cases]]
      /\ inbox \in [Books -> SUBSET Facts] /\ parked \in [Books -> SUBSET Facts]
    BY Zenon DEF RInv, TypeOK
<1>0. c \in Cases
    BY Zenon, <1>t
<1>1. CASE c \in done[Oms][x]
  <2>1. CASE c \in done[b][x]
    <3>1. JournalMove(b, x)
        BY Zenon, JournalMoves
    <3> QED BY Zenon, <2>1, <3>1 DEF JournalMove
  <2>2. ASSUME NEW m \in Underway(b, x), m.case = c
        PROVE  c \in done'[b][x] \/ \E n \in Underway(b, x)' : n.case = c
    <3>1. m \in inbox[b] \cup parked[b] /\ m.exec = x
        BY Zenon DEF Underway
    <3>2. CASE m \in inbox'[b] \cup parked'[b]
        BY Zenon, <2>2, <3>1, <3>2 DEF Underway
    <3>3. CASE FoldFact(b, m)
      <4>1. m \in inbox[b]
        BY Zenon, <3>3 DEF FoldFact
      <4>2. Has(b, c, x)'
        BY Zenon, <2>2, <3>1, <3>3, <4>1, <1>0, FoldTells, Apart
      <4>3. Booked(Oms, x)
        BY Zenon DEF FeeInv
      <4>4. Recorded(c, x)
        BY Zenon, <1>1, <4>3 DEF Booked
      <4>5. Approved(c, x)' = Approved(c, x)
        BY Zenon, <4>4, <1>0, CaseMoves, CommittedKept DEF Recorded
      <4> QED BY Zenon, <4>2, <4>4, <4>5, Apart DEF Has, Recorded
    <3> QED BY Zenon, <3>1, <3>2, <3>3, FactsStay
  <2> QED BY Zenon, <1>1, <2>1, <2>2 DEF FeeInv, SentInv
<1>2. CASE c \notin done[Oms][x]
  <2>1. PICK h \in Handlers : h \in fresh \cap current /\ Commit(h)
    <3>1. CASE VenueStep
        BY Zenon, <3>1, <1>2 DEF VenueStep, Execute, FoldFill, ReviseFee
    <3>2. CASE BookStep
      <4>1. ASSUME NEW k \in Books, NEW m \in inbox[k], FoldFact(k, m)
            PROVE  done'[Oms] = done[Oms]
        BY Zenon, <4>1, <1>t, Apart DEF FoldFact
      <4> QED BY Zenon, <3>2, <4>1, <1>2 DEF BookStep, RefuseFact, FailFold, ParkFact, Redrive
    <3> QED BY Zenon, <3>1, <3>2, <1>2, JournalAlone DEF Next
  <2>2. PICK k \in Cases : k = plan[h].case /\ ~Contradicted(k)
    BY Zenon, <2>1 DEF RInv, PlanInv, Commit
  <2>3. Write(k)
    BY Zenon, <2>1, <2>2 DEF Commit
  <2>4. done'[Oms][x] = IF Approved(k, x) # None THEN done[Oms][x] \cup {k} ELSE done[Oms][x]
    BY Zenon, <2>3, <1>t DEF Write
  <2>5. c = k /\ Approved(k, x) # None
    BY Zenon, <2>4, <1>2
  <2>6. case[k].history[x] # None
    BY Zenon, <2>2, <2>5 DEF Contradicted
  <2>7. Recovered(k, x) \in inbox'[b]
    BY Zenon, <2>3, <2>6 DEF Write, Announced, Targets
  <2>8. Recovered(k, x).exec = x /\ Recovered(k, x).case = k
    BY Zenon DEF Recovered
  <2> QED BY Zenon, <2>5, <2>7, <2>8 DEF Underway
<1> QED BY Zenon, <1>1, <1>2

\* One correction more: one arrival at its fee and one departure from its baseline.
LEMMA OneMore ==
    ASSUME CasesCount, NEW b, NEW x, NEW c \in Cases,
           done[b][x] \in SUBSET Cases, IsFiniteSet(done[b][x]), c \notin done[b][x],
           done'[b][x] = done[b][x] \cup {c},
           \A d \in done'[b][x] : /\ case'[d].history[x] = case[d].history[x]
                                  /\ Approved(d, x)' = Approved(d, x)
    PROVE  \A v :
            /\ Cardinality(Into(b, x, v)) \in Nat /\ Cardinality(From(b, x, v)) \in Nat
            /\ Cardinality(Into(b, x, v)') = Cardinality(Into(b, x, v)) + One(case[c].history[x] = v)
            /\ Cardinality(From(b, x, v)') = Cardinality(From(b, x, v)) + One(Approved(c, x) = v)
<1> SUFFICES ASSUME NEW v
             PROVE  /\ Cardinality(Into(b, x, v)) \in Nat /\ Cardinality(From(b, x, v)) \in Nat
                    /\ Cardinality(Into(b, x, v)')
                            = Cardinality(Into(b, x, v)) + One(case[c].history[x] = v)
                    /\ Cardinality(From(b, x, v)')
                            = Cardinality(From(b, x, v)) + One(Approved(c, x) = v)
    BY Zenon
<1>1. ASSUME NEW S \in SUBSET done[b][x]
      PROVE  /\ Cardinality(S) \in Nat /\ c \notin S
             /\ Cardinality(S \cup {c}) = Cardinality(S) + 1
  <2>1. S \in SUBSET Cases /\ c \in Cases \ S
    BY Zenon
  <2>2. IsFiniteSet(S)
    BY Zenon DEF CasesCount
  <2> QED BY Zenon, <2>1, <2>2 DEF CasesCount
<1>2. Into(b, x, v) \in SUBSET done[b][x] /\ From(b, x, v) \in SUBSET done[b][x]
    BY Zenon DEF Into, From
<1>3. Into(b, x, v)' = Into(b, x, v) \cup {d \in {c} : case[c].history[x] = v}
    BY Zenon DEF Into
<1>4. From(b, x, v)' = From(b, x, v) \cup {d \in {c} : Approved(c, x) = v}
    BY DEF From
<1>5. ASSUME NEW S \in SUBSET done[b][x], NEW p \in BOOLEAN, NEW T,
             T = S \cup {d \in {c} : p}
      PROVE  Cardinality(S) \in Nat /\ Cardinality(T) = Cardinality(S) + One(p)
  <2>1. CASE p
    <3>1. T = S \cup {c} /\ One(p) = 1
        BY Zenon, <1>5, <2>1 DEF One
    <3> QED BY Zenon, <3>1, <1>1
  <2>2. CASE ~p
    <3>1. T = S /\ One(p) = 0
        BY Zenon, <1>5, <2>2 DEF One
    <3>2. Cardinality(S) \in Nat
        BY Zenon, <1>1
    <3> QED BY <3>1, <3>2
  <2> QED BY Zenon, <2>1, <2>2
<1>6. /\ Cardinality(Into(b, x, v)) \in Nat
      /\ Cardinality(Into(b, x, v)') = Cardinality(Into(b, x, v)) + One(case[c].history[x] = v)
    BY Zenon, <1>2, <1>3, <1>5
<1>7. /\ Cardinality(From(b, x, v)) \in Nat
      /\ Cardinality(From(b, x, v)') = Cardinality(From(b, x, v)) + One(Approved(c, x) = v)
    BY Zenon, <1>2, <1>4, <1>5
<1> QED BY Zenon, <1>6, <1>7

\* A journal's record stays a path from its first fee to its last.
LEMMA BookedStep ==
    ASSUME CasesCount, RInv, RInv', [Next]_vars, NEW b \in Books \cup {Oms}, NEW x \in Execs,
           Booked(b, x)
    PROVE  Booked(b, x)'
<1>t. /\ done[b][x] \in SUBSET Cases /\ done'[b][x] \in SUBSET Cases
      /\ \A c \in Cases : Approved(c, x) \in MaybeFee
  <2>1. \A c \in Cases : Approved(c, x) \in MaybeFee
    BY Zenon, CaseTypes
  <2>2. /\ done \in [Books \cup {Oms} -> [Execs -> SUBSET Cases]]
        /\ done' \in [Books \cup {Oms} -> [Execs -> SUBSET Cases]]
    BY Zenon DEF RInv, TypeOK
  <2>3. done[b][x] \in SUBSET Cases /\ done'[b][x] \in SUBSET Cases
    BY <2>2
  <2> QED BY Zenon, <2>1, <2>3
<1>1. JournalMove(b, x) /\ EntryMove(b, x)
    BY Zenon, JournalMoves, EntryMoves
<1>2. \A c \in done[b][x] :
        /\ Recorded(c, x) /\ Recorded(c, x)'
        /\ case'[c].history[x] = case[c].history[x] /\ Approved(c, x)' = Approved(c, x)
  <2> SUFFICES ASSUME NEW c \in done[b][x]
               PROVE  /\ Recorded(c, x) /\ Recorded(c, x)'
                      /\ case'[c].history[x] = case[c].history[x]
                      /\ Approved(c, x)' = Approved(c, x)
    BY Zenon
  <2>1. c \in Cases /\ Recorded(c, x)
    BY Zenon, <1>t DEF Booked
  <2>2. /\ case'[c].committed /\ case'[c].history = case[c].history
        /\ Approved(c, x)' = Approved(c, x)
    BY Zenon, <2>1, CaseMoves, CommittedKept DEF Recorded
  <2> QED BY Zenon, <2>1, <2>2 DEF Recorded
<1>3. CASE done'[b][x] = done[b][x]
  <2>1. \A v : Into(b, x, v)' = Into(b, x, v) /\ From(b, x, v)' = From(b, x, v)
    BY Zenon, <1>2, <1>3 DEF Into, From
  <2>2. IsFiniteSet(done'[b][x]) /\ \A c \in done'[b][x] : Recorded(c, x)'
    BY Zenon, <1>2, <1>3 DEF Booked
  <2>3. CASE head'[b][x] = head[b][x]
    <3>1. entry'[b][x] = entry[b][x]
        BY Zenon, <1>1, <2>3 DEF EntryMove
    <3>2. Balanced(b, x) => Balanced(b, x)'
      <4>1. ASSUME NEW v \in Fees,
                   Cardinality(Into(b, x, v)) + One(entry[b][x].fee = v)
                        = Cardinality(From(b, x, v)) + One(head[b][x] = v)
            PROVE  Cardinality(Into(b, x, v)') + One(entry'[b][x].fee = v)
                        = Cardinality(From(b, x, v)') + One(head'[b][x] = v)
        <5>1. Into(b, x, v)' = Into(b, x, v) /\ From(b, x, v)' = From(b, x, v)
            BY Zenon, <2>1
        <5> QED BY Zenon, <2>3, <3>1, <4>1, <5>1
      <4> QED BY Zenon, <4>1 DEF Balanced
    <3> QED BY Zenon, <1>3, <2>2, <2>3, <3>1, <3>2 DEF Booked
  <2>4. CASE head[b][x] = None /\ head'[b][x] \in Fees
    <3>1. entry'[b][x].fee = head'[b][x] /\ head'[b][x] # None
        BY Zenon, <1>1, <2>4, Apart DEF EntryMove
    <3>2. done[b][x] = {}
        BY Zenon, <2>4 DEF Booked
    <3>3. \A v : Into(b, x, v)' = {} /\ From(b, x, v)' = {}
        BY Zenon, <2>1, <3>2 DEF Into, From
    <3>4. Balanced(b, x)'
        BY Zenon, <3>1, <3>3 DEF Balanced
    <3> QED BY Zenon, <2>2, <3>1, <3>4 DEF Booked
  <2> QED BY Zenon, <1>1, <1>3, <2>3, <2>4 DEF JournalMove
<1>4. CASE done'[b][x] # done[b][x]
  <2>1. PICK c \in Cases :
        /\ case[c].committed \/ case'[c].committed
        /\ case[c].history # None /\ case[c].history[x] \in Fees
        /\ Approved(c, x) # None /\ head[b][x] \in {None, Approved(c, x)}
        /\ head'[b][x] = case[c].history[x]
        /\ c \notin done[b][x] /\ done'[b][x] = done[b][x] \cup {c}
    BY Zenon, <1>1, <1>4 DEF JournalMove
  <2>2. /\ case'[c].committed /\ case'[c].history = case[c].history
        /\ Approved(c, x)' = Approved(c, x)
    <3>1. Kept(c) /\ case[c].signed
        BY Zenon, <2>1, CaseMoves, CaseKept DEF Approved
    <3>2. case'[c].history = case[c].history /\ Approved(c, x)' = Approved(c, x)
        BY Zenon, <2>1, <3>1 DEF Kept, Approved
    <3>3. case[c].committed => case'[c].committed
        BY Zenon, CaseMoves, CommittedKept
    <3> QED BY Zenon, <2>1, <3>2, <3>3
  <2>3. Recorded(c, x)'
    BY Zenon, <1>t, <2>1, <2>2 DEF Recorded, MaybeFee
  <2>4. IsFiniteSet(done'[b][x]) /\ \A d \in done'[b][x] : Recorded(d, x)'
    BY Zenon, <1>2, <1>t, <2>1, <2>3 DEF Booked, CasesCount
  <2>5. head'[b][x] # None
    BY Zenon, <2>1, Apart
  <2>6. CASE head[b][x] = None
    <3>1. entry'[b][x].fee = head'[b][x] /\ entry'[b][x].by # None
        BY Zenon, <1>1, <1>4, <2>5, <2>6 DEF EntryMove
    <3> QED BY Zenon, <2>4, <2>5, <3>1 DEF Booked
  <2>7. CASE head[b][x] # None
    <3>1. entry'[b][x] = entry[b][x] /\ head[b][x] = Approved(c, x)
        BY Zenon, <1>1, <2>1, <2>7 DEF EntryMove
    <3>2. \A v :
            /\ Cardinality(Into(b, x, v)) \in Nat /\ Cardinality(From(b, x, v)) \in Nat
            /\ Cardinality(Into(b, x, v)') = Cardinality(Into(b, x, v)) + One(case[c].history[x] = v)
            /\ Cardinality(From(b, x, v)') = Cardinality(From(b, x, v)) + One(Approved(c, x) = v)
      <4>1. \A d \in done'[b][x] : /\ case'[d].history[x] = case[d].history[x]
                                   /\ Approved(d, x)' = Approved(d, x)
        BY Zenon, <1>2, <2>1, <2>2
      <4>2. IsFiniteSet(done[b][x])
        BY Zenon DEF Booked
      <4>3. done[b][x] \in SUBSET Cases /\ c \notin done[b][x]
            /\ done'[b][x] = done[b][x] \cup {c}
        BY Zenon, <1>t, <2>1
      <4> QED BY <4>1, <4>2, <4>3, OneMore
    <3>3. ASSUME Balanced(b, x), NEW v \in Fees
          PROVE  Cardinality(Into(b, x, v)') + One(entry'[b][x].fee = v)
                    = Cardinality(From(b, x, v)') + One(head'[b][x] = v)
      <4>1. PICK i, f, p, q, r : /\ i = Cardinality(Into(b, x, v)) /\ f = Cardinality(From(b, x, v))
                                 /\ p = One(entry[b][x].fee = v) /\ q = One(head[b][x] = v)
                                 /\ r = One(head'[b][x] = v)
        BY Zenon
      <4>2. i \in Nat /\ f \in Nat /\ p \in Nat /\ q \in Nat /\ r \in Nat
        BY <3>2, <4>1 DEF One
      <4>3. i + p = f + q
        BY Zenon, <3>3, <4>1 DEF Balanced
      <4>4. Cardinality(Into(b, x, v)') = i + r /\ Cardinality(From(b, x, v)') = f + q
        BY Zenon, <3>1, <3>2, <2>1, <4>1
      <4>5. One(entry'[b][x].fee = v) = p
        BY Zenon, <3>1, <4>1
      <4>6. (i + r) + p = (f + q) + r
        BY <4>2, <4>3
      <4> QED BY Zenon, <4>1, <4>4, <4>5, <4>6
    <3>4. Balanced(b, x) => Balanced(b, x)'
        BY Zenon, <3>3 DEF Balanced
    <3>5. entry'[b][x].fee # None
        BY Zenon, <2>7, <3>1 DEF Booked
    <3> QED BY Zenon, <2>4, <2>5, <2>7, <3>1, <3>4, <3>5 DEF Booked
  <2> QED BY Zenon, <2>6, <2>7
<1> QED BY Zenon, <1>3, <1>4

\* FeeInv is inductive, given RInv.
LEMMA FeeInvStep ==
    ASSUME CasesCount, RInv, RInv', FeeInv, [Next]_vars
    PROVE  FeeInv'
<1>1. \A b \in Books \cup {Oms}, x \in Execs : Booked(b, x)'
    BY Zenon, BookedStep DEF FeeInv
<1>2. \A x \in Execs : entry'[Oms][x].by = None
    BY Zenon, EntryMoves DEF EntryMove, FeeInv
<1>3. SentInv'
    BY Zenon, SentStep
<1> QED BY Zenon, <1>1, <1>2, <1>3 DEF FeeInv

\* Nothing is booked at first.
LEMMA FeeInvInit ==
    ASSUME Init, IsFiniteSet({})
    PROVE  FeeInv
<1>1. ASSUME NEW b \in Books \cup {Oms}, NEW x \in Execs
      PROVE  /\ head[b][x] = None /\ done[b][x] = {}
             /\ entry[b][x].fee = None /\ entry[b][x].by = None
    BY Zenon DEF Init, Nothing
<1>2. ASSUME NEW b \in Books \cup {Oms}, NEW x \in Execs PROVE Booked(b, x)
  <2>1. /\ head[b][x] = None /\ done[b][x] = {} /\ entry[b][x].fee = None
    BY Zenon, <1>1
  <2> QED BY Zenon, <2>1 DEF Booked
<1>3. SentInv
    BY Zenon, <1>1 DEF SentInv
<1> QED BY Zenon, <1>1, <1>2, <1>3 DEF FeeInv

\* The same corrections from the same first fee end in the same fee.
LEMMA FeesFollow ==
    ASSUME CasesCount, RInv, FeeInv
    PROVE  FeesAgree
<1> SUFFICES ASSUME NEW b \in Books, NEW x \in Execs, entry[b][x] = entry[Oms][x],
                    Underway(b, x) = {}
             PROVE  head[b][x] = head[Oms][x] /\ done[b][x] = done[Oms][x]
    BY Zenon DEF FeesAgree
<1>t. /\ done[b][x] \in SUBSET Cases /\ head[Oms][x] \in MaybeFee
  <2>1. /\ done \in [Books \cup {Oms} -> [Execs -> SUBSET Cases]]
        /\ head \in [Books \cup {Oms} -> [Execs -> MaybeFee]]
    BY Zenon DEF RInv, TypeOK, Histories
  <2> QED BY <2>1
<1>1. Booked(b, x) /\ Booked(Oms, x) /\ entry[Oms][x].by = None
    BY Zenon DEF FeeInv
<1>2. done[Oms][x] \subseteq done[b][x]
    BY Zenon DEF FeeInv, SentInv
<1>3. done[b][x] \subseteq done[Oms][x]
  <2> SUFFICES ASSUME NEW c \in done[b][x] PROVE c \in done[Oms][x]
    BY Zenon
  <2>1. c \in Cases /\ Recorded(c, x)
    BY Zenon, <1>1, <1>t DEF Booked
  <2>2. x \in Targets(c)
    BY Zenon, <2>1, Apart DEF Targets, Recorded
  <2>3. Has(Oms, c, x)
    BY Zenon, <2>1, <2>2 DEF RInv, PostedInv, Recorded
  <2> QED BY Zenon, <2>1, <2>3, Apart DEF Has, Recorded
<1>4. done[b][x] = done[Oms][x]
    BY Zenon, <1>2, <1>3
<1>5. CASE head[Oms][x] = None
    BY Zenon, <1>1, <1>4, <1>5 DEF Booked
<1>6. CASE head[Oms][x] # None
  <2> DEFINE v == head[Oms][x]
             i == Cardinality(Into(b, x, v))
             f == Cardinality(From(b, x, v))
  <2>1. v \in Fees /\ head[b][x] # None
    BY Zenon, <1>1, <1>6, <1>t DEF Booked, MaybeFee
  <2>2. Balanced(b, x) /\ Balanced(Oms, x)
    BY Zenon, <1>1, <1>6, <2>1 DEF Booked
  <2>3. Into(Oms, x, v) = Into(b, x, v) /\ From(Oms, x, v) = From(b, x, v)
    BY Zenon, <1>4 DEF Into, From
  <2>4. IsFiniteSet(done[b][x]) /\ From(b, x, v) \in SUBSET done[b][x]
    BY Zenon, <1>1 DEF Booked, From
  <2>5. f \in Nat
    BY Zenon, <1>t, <2>4 DEF CasesCount
  <2>6. i + One(entry[b][x].fee = v) = f + One(head[b][x] = v)
    BY Zenon, <2>1, <2>2 DEF Balanced
  <2>7. i + One(entry[b][x].fee = v) = f + One(v = v)
    <3>1. Cardinality(Into(Oms, x, v)) + One(entry[Oms][x].fee = v)
            = Cardinality(From(Oms, x, v)) + One(head[Oms][x] = v)
        BY Zenon, <2>1, <2>2 DEF Balanced
    <3> QED BY Zenon, <2>3, <3>1
  <2>8. f + One(head[b][x] = v) = f + One(v = v)
    BY Zenon, <2>6, <2>7
  <2> HIDE DEF v, i, f
  <2>9. head[b][x] = v
    BY <2>5, <2>8 DEF One
  <2> QED BY Zenon, <2>9, <1>4 DEF v
<1> QED BY Zenon, <1>4, <1>5, <1>6

-----------------------------------------------------------------------------
INSTANCE FiniteSetTheorems

\* As many acknowledgements as targets and books are all of them.
LEMMA CountingHolds == Counting
<1> SUFFICES ASSUME NEW T \in SUBSET Execs, NEW A \in SUBSET (T \X Books),
                    Cardinality(A) = Cardinality(T \X Books)
             PROVE  A = T \X Books
    BY Zenon DEF Counting
<1>1. IsFiniteSet(T)
    BY Zenon, Recovering, FS_Subset
<1>2. IsFiniteSet(T \X Books)
    BY Zenon, <1>1, Recovering, FS_Product
<1> QED BY Zenon, <1>2, FS_Subset

\* RInv holds for ever.
THEOREM RecoveryInvariant == Spec => []RInv
<1>1. Init => RInv
    BY Zenon, RInvInit
<1>2. RInv /\ [Next]_vars => RInv'
    BY Zenon, RInvStep, CountingHolds
<1> QED BY <1>1, <1>2, PTL DEF Spec

(***************************************************************************)
(* A corrected case is in the OMS's journal and in every book, with its    *)
(* corrections: AcknowledgeRecovery closes it on the last of the           *)
(* acknowledgements, each of which a book wrote with its entry.            *)
(***************************************************************************)
THEOREM CorrectedIsBookedAlways == Spec => []CorrectedIsBooked
<1>1. ASSUME RInv PROVE CorrectedIsBooked
  <2> SUFFICES ASSUME NEW c \in Cases, case[c].status = "corrected",
                      NEW x \in Targets(c), NEW b \in Books \cup {Oms}
               PROVE  Has(b, c, x)
    BY Zenon DEF CorrectedIsBooked, Has
  <2>1. x \in Execs /\ case[c].committed
    BY Zenon, <1>1 DEF Targets, RInv, CaseInv
  <2>2. CASE b = Oms
    BY Zenon, <1>1, <2>1, <2>2 DEF RInv, PostedInv
  <2>3. CASE b \in Books
    BY Zenon, <1>1, <2>1, <2>3 DEF RInv, ClosedInv, AckInv, ToldInv
  <2> QED BY Zenon, <2>2, <2>3
<1> QED BY <1>1, RecoveryInvariant, PTL

(***************************************************************************)
(* A case goes forward only: corrected is final, a committed case changes  *)
(* in status only, and no frozen history and no signature is replaced.     *)
(***************************************************************************)
THEOREM CaseIsFinalAlways == Spec => CaseIsFinal
<1>1. ASSUME RInv, [Next]_vars PROVE [\A c \in Cases : Kept(c)]_vars
    BY Zenon, <1>1, CaseMoves, CaseKept
<1>2. ASSUME [\A c \in Cases : Kept(c)]_vars
      PROVE  [\A c \in Cases :
                /\ case[c].status = "corrected" => case'[c] = case[c]
                /\ case[c].committed => case'[c] = [case[c] EXCEPT !.status = case'[c].status]
                /\ case[c].history # None => case'[c].history = case[c].history
                /\ case[c].signed => case'[c].signed /\ case'[c].changes = case[c].changes]_vars
    BY Zenon, <1>2 DEF Kept
<1> QED BY <1>1, <1>2, RecoveryInvariant, PTL DEF Spec, CaseIsFinal

(***************************************************************************)
(* A fee on record changes only by a signed correction of just that fee,   *)
(* which the same journal records then and once: CommitRecovery's versions *)
(* carry the comparison into the transaction, and a book checks the        *)
(* baseline itself.                                                        *)
(***************************************************************************)
THEOREM FeesMoveBySignatureAlways == Spec => FeesMoveBySignature
<1>1. ASSUME RInv, [Next]_vars, NEW b \in Books \cup {Oms}, NEW x \in Execs,
             head[b][x] # None, head'[b][x] # head[b][x]
      PROVE  \E c \in Cases :
                /\ case[c].signed /\ case[c].changes[x] = head[b][x]
                /\ case[c].history[x] = head'[b][x]
                /\ done'[b][x] \ done[b][x] = {c}
  <2>1. PICK c \in Cases :
            /\ Approved(c, x) # None /\ head[b][x] \in {None, Approved(c, x)}
            /\ head'[b][x] = case[c].history[x]
            /\ c \notin done[b][x] /\ done'[b][x] = done[b][x] \cup {c}
    <3>1. JournalMove(b, x)
        BY Zenon, <1>1, JournalMoves
    <3> QED BY Zenon, <1>1, <3>1 DEF JournalMove
  <2>2. case[c].signed /\ case[c].changes[x] = head[b][x]
    BY Zenon, <1>1, <2>1 DEF Approved
  <2>3. done'[b][x] \ done[b][x] = {c}
    BY Zenon, <2>1
  <2> QED BY Zenon, <2>1, <2>2, <2>3
<1>2. ASSUME RInv, [Next]_vars
      PROVE  [\A b \in Books \cup {Oms}, x \in Execs :
                head[b][x] # None /\ head'[b][x] # head[b][x] =>
                    \E c \in Cases :
                        /\ case[c].signed /\ case[c].changes[x] = head[b][x]
                        /\ case[c].history[x] = head'[b][x]
                        /\ done'[b][x] \ done[b][x] = {c}]_vars
    BY Zenon, <1>1, <1>2
<1> QED BY <1>2, RecoveryInvariant, PTL DEF Spec, FeesMoveBySignature

\* A finite set of cases grows by one with each new case.
LEMMA CasesCountHolds == CasesCount
<1> SUFFICES ASSUME NEW S \in SUBSET Cases, IsFiniteSet(S)
             PROVE  /\ Cardinality(S) \in Nat
                    /\ \A T \in SUBSET S : IsFiniteSet(T)
                    /\ \A c \in Cases \ S :
                        IsFiniteSet(S \cup {c}) /\ Cardinality(S \cup {c}) = Cardinality(S) + 1
    BY Zenon DEF CasesCount
<1>1. Cardinality(S) \in Nat
    BY Zenon, FS_CardinalityType
<1>2. \A T \in SUBSET S : IsFiniteSet(T)
    BY Zenon, FS_Subset
<1>3. \A c \in Cases \ S :
        IsFiniteSet(S \cup {c}) /\ Cardinality(S \cup {c}) = Cardinality(S) + 1
    BY Zenon, FS_AddElement
<1> QED BY Zenon, <1>1, <1>2, <1>3

(***************************************************************************)
(* A book that first booked an execution at the OMS's fee has the OMS's    *)
(* fee and corrections on record once no FACT about the execution is on    *)
(* its way or parked, whatever order the corrections came in and however   *)
(* many there were: a book takes a correction only from its baseline       *)
(* (ApprovedFeeDelta), so the corrections recorded lead from the first     *)
(* fee to the last.                                                        *)
(***************************************************************************)
THEOREM FeesAgreeAlways == Spec => []FeesAgree
<1>1. Init => FeeInv
    BY Zenon, FeeInvInit, FS_EmptySet
<1>2. RInv /\ RInv' /\ FeeInv /\ [Next]_vars => FeeInv'
    BY Zenon, FeeInvStep, CasesCountHolds
<1>3. RInv /\ FeeInv => FeesAgree
    BY Zenon, FeesFollow, CasesCountHolds
<1> QED BY <1>1, <1>2, <1>3, RecoveryInvariant, PTL DEF Spec
=============================================================================
