--------------------------- MODULE ScheduleProof ---------------------------
(***************************************************************************)
(* What a scheduled parent order promises, proved for any number of        *)
(* slices, replicas, cancels, halts and faults.                            *)
(***************************************************************************)
EXTENDS Schedule, FiniteSetTheorems, WellFoundedInduction, TLAPS

-----------------------------------------------------------------------------
(* The inductive invariant.                                                *)

\* What a tick read of the children stays true: a child that exists exists, and
\* a child that has ended has traded what it had.  What the tick still has to
\* send leaves no gap behind.
TickInv(r) ==
    /\ drv[r].seen \subseteq Sent
    /\ \A i \in drv[r].ended : child[i] = "ended" /\ drv[r].fills[i] = filled[i]
    /\ drv[r].pc \in {"retire", "save"} => Finished(r)
    /\ drv[r].pc = "create" => drv[r].todo # {}
    /\ drv[r].pc = "save" /\ drv[r].ver = ver => parent = "working"
    /\ drv[r].pc = "save" => drv[r].ver <= ver

GapInv(r) ==
    halts = 0 =>
      /\ parent = "working" =>
           \A j \in drv[r].todo : \A i \in Index : i < j => i \in Sent \cup drv[r].todo
      /\ drv[r].pc = "create" =>
           \A i \in Index : i < First(drv[r].todo) => i \in Sent

\* A child that a cancel listed has ended or is still to be withdrawn.
CancelInv(c) ==
    cxl[c].pc = "withdraw" =>
      /\ cxl[c].sent \subseteq cxl[c].todo \cup Ended
      /\ cxl[c].todo \subseteq Sent
      /\ cxl[c].ver <= ver
      /\ cxl[c].ver = ver => parent = "working"

SInv ==
    /\ TypeOK
    /\ \A r \in Replicas : TickInv(r) /\ GapInv(r)
    /\ \A c \in Cancels : CancelInv(c)
    /\ ExpiredTruth
    /\ CancelledTruth
    /\ SentIsPrefix
    /\ halts = 0 => ~halted

-----------------------------------------------------------------------------
(* The first slice of a set.                                               *)

\* A nonempty set of slices has a first one.
LEMMA FirstIsLeast ==
    ASSUME NEW S \in SUBSET Index, S # {}
    PROVE  First(S) \in S /\ \A j \in S : First(S) <= j
<1> DEFINE Below(x) == {j \in S : j <= x}
           Sets == {Below(x) : x \in S}
<1>1. \A i \in S : i \in Int
    BY ScheduleAssumption DEF Index
<1>2. IsFiniteSet(S)
    <2>1. IsFiniteSet(1 .. Slices)
        BY ScheduleAssumption, FS_Interval
    <2> QED
        BY <2>1, FS_Subset DEF Index
<1>3. \A D \in Sets : D \in SUBSET S
    OBVIOUS
<1>4. \A D \in Sets : D \in FiniteSubsetsOf(S)
    BY <1>2, <1>3, FS_Subset DEF FiniteSubsetsOf
<1>5. Sets # {}
    OBVIOUS
<1>6. PICK D \in Sets : \A E \in Sets : ~(<<E, D>> \in StrictSubsetOrdering(S))
    <2> HIDE DEF Sets
    <2> QED
        BY <1>4, <1>5, WFMin, FS_StrictSubsetOrderingWellFounded
<1>7. PICK x \in S : D = Below(x)
    OBVIOUS
<1>8. ASSUME NEW y \in S, y < x PROVE FALSE
    <2>1. Below(y) \subseteq Below(x)
        BY <1>1, <1>8
    <2>2. x \in Below(x) /\ x \notin Below(y)
        BY <1>1, <1>8
    <2>3. Below(y) \in Sets
        OBVIOUS
    <2> HIDE DEF Below, Sets
    <2> QED
        BY <1>3, <1>6, <1>7, <2>1, <2>2, <2>3 DEF StrictSubsetOrdering
<1>9. \A y \in S : x <= y
    BY <1>1, <1>8
<1> QED
    BY <1>9 DEF First

-----------------------------------------------------------------------------
(* What a step that leaves an actor alone preserves of it.                 *)

\* Children only appear, and an end is final.
Grows ==
    /\ Sent \subseteq Sent'
    /\ \A i \in Index : child[i] = "ended" => child'[i] = "ended" /\ filled'[i] = filled[i]

\* The parent's row changes with its version, to an end.
Versioned ==
    \/ ver' = ver /\ parent' = parent
    \/ ver' = ver + 1 /\ parent' # "working"

\* A tick that takes no step keeps its invariant.
LEMMA TickStays ==
    ASSUME TypeOK, Grows, Versioned, NEW r \in Replicas, drv'[r] = drv[r], TickInv(r)
    PROVE  TickInv(r)'
<1>1. drv[r].ver \in Nat /\ ver \in Nat /\ drv[r].ended \subseteq Index
    BY DEF TypeOK
<1>2. (drv[r].seen \subseteq Sent)'
    BY DEF TickInv, Grows
<1>3. (\A i \in drv[r].ended : child[i] = "ended" /\ drv[r].fills[i] = filled[i])'
    BY <1>1 DEF TickInv, Grows
<1>4. (drv[r].pc = "save" /\ drv[r].ver = ver => parent = "working")'
    BY <1>1 DEF TickInv, Versioned
<1>5. (drv[r].pc = "save" => drv[r].ver <= ver)'
    BY <1>1 DEF TickInv, Versioned
<1> QED
    BY <1>2, <1>3, <1>4, <1>5 DEF TickInv, Finished

\* Nor does it get a gap to fill.
LEMMA GapStays ==
    ASSUME Grows, Versioned, NEW r \in Replicas, drv'[r] = drv[r], GapInv(r),
           halts' = 0 => halts = 0
    PROVE  GapInv(r)'
<1>1. parent' = "working" => parent = "working"
    BY DEF Versioned
<1> QED
    BY <1>1 DEF GapInv, Grows

\* A cancel that takes no step keeps its invariant.
LEMMA CancelStays ==
    ASSUME TypeOK, Grows, Versioned, NEW c \in Cancels, cxl'[c] = cxl[c], CancelInv(c)
    PROVE  CancelInv(c)'
<1>1. cxl[c].ver \in Nat /\ ver \in Nat
    BY DEF TypeOK
<1>2. Ended \subseteq Ended' /\ Sent \subseteq Sent'
    BY DEF Grows, Ended
<1> QED
    BY <1>1, <1>2 DEF CancelInv, Versioned

\* What an ended parent announced stays true.
LEMMA TruthStays ==
    ASSUME TypeOK, TypeOK', Grows, parent' = parent, report' = report,
           ExpiredTruth, CancelledTruth
    PROVE  ExpiredTruth' /\ CancelledTruth'
<1>1. Ended \subseteq Ended' /\ Ended' \subseteq Index
    BY DEF Grows, Ended
<1>2. ASSUME Ended = Index PROVE filled' = filled
    <2>1. \A i \in Index : filled'[i] = filled[i]
        BY <1>2 DEF Grows, Ended
    <2> QED
        BY <2>1 DEF TypeOK
<1> QED
    BY <1>1, <1>2 DEF ExpiredTruth, CancelledTruth

-----------------------------------------------------------------------------
(* The steps of a driver.                                                  *)

\* What a driver's step has to show.
LEMMA DriverStep ==
    ASSUME SInv, TypeOK', Grows, Versioned, NEW r \in Replicas,
           \A q \in Replicas \ {r} : drv'[q] = drv[q],
           cxl' = cxl, halts' = halts, halted' = halted,
           TickInv(r)', GapInv(r)', ExpiredTruth', CancelledTruth', SentIsPrefix'
    PROVE  SInv'
<1>1. \A q \in Replicas : TickInv(q)' /\ GapInv(q)'
    <2> SUFFICES ASSUME NEW q \in Replicas, q # r PROVE TickInv(q)' /\ GapInv(q)'
        OBVIOUS
    <2>1. TypeOK /\ TickInv(q) /\ GapInv(q) /\ drv'[q] = drv[q]
        BY DEF SInv
    <2> QED
        BY <2>1, TickStays, GapStays
<1>2. \A c \in Cancels : CancelInv(c)'
    <2> SUFFICES ASSUME NEW c \in Cancels PROVE CancelInv(c)'
        OBVIOUS
    <2>1. TypeOK /\ CancelInv(c) /\ cxl'[c] = cxl[c]
        BY DEF SInv
    <2> QED
        BY <2>1, CancelStays
<1>3. (halts = 0 => ~halted)'
    BY DEF SInv
<1> QED
    BY <1>1, <1>2, <1>3 DEF SInv

\* A step that leaves the orders alone.
LEMMA OrdersStay ==
    ASSUME SInv, TypeOK', UNCHANGED <<parent, ver, child, filled, halts, report>>
    PROVE  /\ Grows /\ Versioned /\ Sent' = Sent /\ Ended' = Ended
           /\ ExpiredTruth' /\ CancelledTruth' /\ SentIsPrefix'
<1>1. Sent' = Sent /\ Ended' = Ended
    BY DEF Sent, Ended
<1>2. Grows /\ Versioned
    BY <1>1 DEF Grows, Versioned
<1>3. TypeOK /\ ExpiredTruth /\ CancelledTruth /\ SentIsPrefix
    BY DEF SInv
<1>4. ExpiredTruth' /\ CancelledTruth'
    BY <1>2, <1>3, TruthStays
<1>5. SentIsPrefix'
    BY <1>1, <1>3 DEF SentIsPrefix
<1> QED
    BY <1>1, <1>2, <1>4, <1>5

\* The record of an idle driver satisfies its invariant in any state.
LEMMA IdleTick ==
    ASSUME NEW r \in Replicas, drv'[r] = NoTick
    PROVE  TickInv(r)' /\ GapInv(r)'
    BY DEF TickInv, GapInv, NoTick, Finished

\* The sets a state derives are sets of slices.
LEMMA Subsets == Sent \subseteq Index /\ Ended \subseteq Sent /\ DueNow \subseteq Index
    BY DEF Sent, Ended, DueNow

\* A tick starts with what is true of the children, and no gap.
LEMMA ListStep ==
    ASSUME SInv, NEW r \in Replicas, List(r)
    PROVE  SInv'
<1>1. TypeOK /\ (halts = 0 => ~halted)
    BY DEF SInv
<1>2. drv[r].pc = "idle" /\ parent = "working" /\ UNCHANGED <<cxl, halts, halted>>
    BY DEF List
<1>3. /\ \A q \in Replicas \ {r} : drv'[q] = drv[q]
      /\ drv'[r] = [pc |-> "emit", seen |-> Sent, ended |-> Ended, fills |-> filled,
                    todo |-> DueNow, made |-> FALSE, ver |-> 0]
    BY <1>1 DEF List, TypeOK
<1>4. TypeOK'
    BY <1>1, Subsets DEF List, TypeOK
<1>5. /\ Grows /\ Versioned /\ Sent' = Sent /\ Ended' = Ended
      /\ ExpiredTruth' /\ CancelledTruth' /\ SentIsPrefix'
    BY <1>4, OrdersStay DEF List
<1>6. TickInv(r)'
    BY <1>3, <1>5 DEF TickInv, Finished, List, Ended
<1>7. GapInv(r)'
    <2>1. \A j \in DueNow : \A i \in Index : i < j => i \in Sent \cup DueNow
        BY <1>1 DEF DueNow, TypeOK, Index
    <2> QED
        BY <2>1, <1>3, <1>5 DEF GapInv
<1> QED
    BY <1>2, <1>3, <1>4, <1>5, <1>6, <1>7, DriverStep

\* The type of a tick, and the tick r is at once it passed a slice.
TickType == [pc : {"idle", "emit", "create", "retire", "save"},
             seen : SUBSET Index, ended : SUBSET Index, fills : [Index -> 0 .. SliceQty],
             todo : SUBSET Index, made : BOOLEAN, ver : Nat]
After(r) == [drv[r] EXCEPT !.pc = "emit", !.made = TRUE,
                           !.todo = drv[r].todo \ {First(drv[r].todo)}]

\* An idle driver has the type of a driver.
LEMMA NoTickType == NoTick \in TickType
    BY ScheduleAssumption DEF NoTick, TickType

\* Passing a slice: what the tick is at afterwards.
LEMMA PassedIs ==
    ASSUME TypeOK, NEW r \in Replicas, drv[r].todo # {}
    PROVE  /\ \A q \in Replicas \ {r} : Passed(r)[q] = drv[q]
           /\ Passed(r)[r] = After(r)
           /\ Passed(r) \in [Replicas -> TickType]
           /\ First(drv[r].todo) \in drv[r].todo
           /\ \A j \in drv[r].todo : First(drv[r].todo) <= j
           /\ First(drv[r].todo) \in Index
<1>1. drv[r].todo \in SUBSET Index
    BY DEF TypeOK
<1>2. /\ First(drv[r].todo) \in drv[r].todo
      /\ \A j \in drv[r].todo : First(drv[r].todo) <= j
    BY <1>1, FirstIsLeast
<1>3. drv \in [Replicas -> TickType]
    BY DEF TypeOK, TickType
<1>4. Passed(r) = [drv EXCEPT ![r] = After(r)]
    BY DEF Passed, After
<1>5. After(r) \in TickType
    <2>1. drv[r] \in TickType /\ drv[r].todo \ {First(drv[r].todo)} \in SUBSET Index
        BY <1>1, <1>3
    <2> QED
        BY <2>1 DEF After, TickType
<1> HIDE DEF After
<1> QED
    BY <1>1, <1>2, <1>3, <1>4, <1>5

\* A slice that is passed over leaves no gap, one to be created is the next.
LEMMA AuthorizeStep ==
    ASSUME SInv, NEW r \in Replicas, Authorize(r)
    PROVE  SInv'
<1>1. /\ TypeOK /\ TickInv(r) /\ GapInv(r) /\ (halts = 0 => ~halted)
      /\ drv[r].todo # {}
    BY DEF SInv, Authorize
<1>2. UNCHANGED <<parent, ver, child, filled, due, halted, halts, faults, claim, cxl, report>>
    BY DEF Authorize
<1> DEFINE f == First(drv[r].todo)
<1>3. f \in drv[r].todo /\ (\A j \in drv[r].todo : f <= j) /\ f \in Index
    BY <1>1, PassedIs
<1>4. CASE drv' = Passed(r) /\ (f \in Sent \/ halted \/ parent # "working")
    <2>1. (\A q \in Replicas \ {r} : drv'[q] = drv[q]) /\ drv'[r] = After(r)
        BY <1>1, <1>4, PassedIs
    <2>2. TypeOK'
        <3>1. drv' \in [Replicas -> TickType]
            BY <1>1, <1>4, PassedIs
        <3> QED
            BY <1>1, <1>2, <3>1 DEF TypeOK, TickType
    <2>3. /\ Grows /\ Versioned /\ Sent' = Sent
          /\ ExpiredTruth' /\ CancelledTruth' /\ SentIsPrefix'
        BY <1>2, <2>2, OrdersStay
    <2>4. /\ drv'[r].pc = "emit" /\ drv'[r].todo = drv[r].todo \ {f}
          /\ drv'[r].seen = drv[r].seen /\ drv'[r].ended = drv[r].ended
          /\ drv'[r].fills = drv[r].fills
        BY <1>1, <2>1 DEF After, TypeOK
    <2>5. TickInv(r)'
        BY <1>1, <1>2, <2>3, <2>4 DEF TickInv
    <2>6. GapInv(r)'
        BY <1>1, <1>2, <1>4, <2>3, <2>4 DEF GapInv
    <2> QED
        BY <1>2, <2>1, <2>2, <2>3, <2>5, <2>6, DriverStep
<1>5. CASE /\ drv' = [drv EXCEPT ![r] = [@ EXCEPT !.pc = "create"]]
           /\ f \notin Sent /\ ~halted /\ parent = "working"
    <2>1. /\ \A q \in Replicas \ {r} : drv'[q] = drv[q]
          /\ drv'[r] = [drv[r] EXCEPT !.pc = "create"]
        BY <1>1, <1>5 DEF TypeOK
    <2>2. TypeOK'
        <3>1. drv \in [Replicas -> TickType]
            BY <1>1 DEF TypeOK, TickType
        <3>2. [drv[r] EXCEPT !.pc = "create"] \in TickType
            BY <3>1 DEF TickType
        <3>3. drv' \in [Replicas -> TickType]
            BY <1>5, <3>1, <3>2
        <3> QED
            BY <1>1, <1>2, <3>3 DEF TypeOK, TickType
    <2>3. /\ Grows /\ Versioned /\ Sent' = Sent
          /\ ExpiredTruth' /\ CancelledTruth' /\ SentIsPrefix'
        BY <1>2, <2>2, OrdersStay
    <2>4. /\ drv'[r].pc = "create" /\ drv'[r].todo = drv[r].todo
          /\ drv'[r].seen = drv[r].seen /\ drv'[r].ended = drv[r].ended
          /\ drv'[r].fills = drv[r].fills
        BY <1>1, <2>1 DEF TypeOK
    <2>5. TickInv(r)'
        BY <1>1, <1>2, <2>3, <2>4 DEF TickInv
    <2>6. ASSUME halts = 0, NEW i \in Index, i < f PROVE i \in Sent
        <3>1. i \in Sent \cup drv[r].todo
            BY <1>1, <1>3, <1>5, <2>6 DEF GapInv
        <3>2. i \notin drv[r].todo
            BY <1>3, <2>6, ScheduleAssumption DEF Index
        <3> QED
            BY <3>1, <3>2
    <2>7. GapInv(r)'
        BY <1>1, <1>2, <2>3, <2>4, <2>6 DEF GapInv
    <2> QED
        BY <1>2, <2>1, <2>2, <2>3, <2>5, <2>7, DriverStep
<1> QED
    BY <1>4, <1>5 DEF Authorize

\* The slice that Create admits is the next of the prefix.
LEMMA CreateStep ==
    ASSUME SInv, NEW r \in Replicas, Create(r)
    PROVE  SInv'
<1>1. /\ TypeOK /\ TickInv(r) /\ GapInv(r) /\ drv[r].pc = "create"
      /\ ExpiredTruth /\ CancelledTruth /\ SentIsPrefix
    BY DEF SInv, Create
<1>2. UNCHANGED <<parent, ver, filled, due, halted, halts, faults, claim, cxl, report>>
    BY DEF Create
<1>3. drv[r].todo # {} /\ drv' = Passed(r)
    BY <1>1 DEF TickInv, Create
<1> DEFINE f == First(drv[r].todo)
<1>4. f \in drv[r].todo /\ (\A j \in drv[r].todo : f <= j) /\ f \in Index
    BY <1>1, <1>3, PassedIs
<1>5. (\A q \in Replicas \ {r} : drv'[q] = drv[q]) /\ drv'[r] = After(r)
    BY <1>1, <1>3, PassedIs
<1>6. child' = IF f \in Sent THEN child ELSE [child EXCEPT ![f] = "live"]
    BY DEF Create
<1> HIDE DEF f
<1>7. TypeOK'
    <2>1. drv' \in [Replicas -> TickType]
        BY <1>1, <1>3, PassedIs
    <2>2. child' \in [Index -> {"none", "live", "frozen", "ended"}]
        BY <1>1, <1>4, <1>6 DEF TypeOK
    <2> QED
        BY <1>1, <1>2, <2>1, <2>2 DEF TypeOK, TickType
<1>8. Sent' = Sent \cup {f} /\ \A i \in Index : child[i] = "ended" => child'[i] = "ended"
    BY <1>1, <1>4, <1>6 DEF TypeOK, Sent
<1>9. Grows /\ Versioned
    BY <1>2, <1>8 DEF Grows, Versioned
<1>10. ExpiredTruth' /\ CancelledTruth'
    BY <1>1, <1>2, <1>7, <1>9, TruthStays
<1>11. /\ drv'[r].pc = "emit" /\ drv'[r].todo = drv[r].todo \ {f}
       /\ drv'[r].seen = drv[r].seen /\ drv'[r].ended = drv[r].ended
       /\ drv'[r].fills = drv[r].fills
    BY <1>1, <1>5 DEF After, TypeOK, f
<1>12. TickInv(r)'
    <2>1. drv[r].ended \subseteq Index
        BY <1>1 DEF TypeOK
    <2> QED
        BY <1>1, <1>2, <1>8, <1>11, <2>1 DEF TickInv
<1>13. GapInv(r)'
    BY <1>1, <1>2, <1>8, <1>11 DEF GapInv
<1>14. SentIsPrefix'
    <2>1. halts = 0 => \A i \in Index : i < f => i \in Sent
        BY <1>1 DEF GapInv, f
    <2> QED
        BY <1>1, <1>2, <1>8, <2>1 DEF SentIsPrefix
<1> QED
    BY <1>2, <1>5, <1>7, <1>9, <1>10, <1>12, <1>13, <1>14, DriverStep

\* A step that sets one tick keeps the type of the ticks.
LEMMA DrvType ==
    ASSUME TypeOK, NEW r \in Replicas, NEW t \in TickType,
           drv' = [drv EXCEPT ![r] = t]
    PROVE  /\ drv' \in [Replicas -> TickType] /\ drv'[r] = t
           /\ \A q \in Replicas \ {r} : drv'[q] = drv[q]
<1>1. drv \in [Replicas -> TickType]
    BY DEF TypeOK, TickType
<1> HIDE DEF TickType
<1> QED
    BY <1>1

\* A driver that gives its tick up, and leaves the orders alone.
LEMMA IdleStep ==
    ASSUME SInv, NEW r \in Replicas, drv' = [drv EXCEPT ![r] = NoTick],
           UNCHANGED <<parent, ver, child, filled, due, halted, halts, cxl, report>>,
           faults' \in 0 .. MaxFaults,
           claim' \in [Replicas -> Replicas \cup Cancels \cup {None}]
    PROVE  SInv'
<1>1. TypeOK
    BY DEF SInv
<1>2. /\ drv' \in [Replicas -> TickType] /\ drv'[r] = NoTick
      /\ \A q \in Replicas \ {r} : drv'[q] = drv[q]
    BY <1>1, NoTickType, DrvType
<1>3. TypeOK'
    BY <1>1, <1>2 DEF TypeOK, TickType
<1>4. /\ Grows /\ Versioned /\ ExpiredTruth' /\ CancelledTruth' /\ SentIsPrefix'
    BY <1>3, OrdersStay
<1>5. TickInv(r)' /\ GapInv(r)'
    BY <1>2, IdleTick
<1> QED
    BY <1>2, <1>3, <1>4, <1>5, DriverStep

\* A tick that goes on to retire has read a finished parent.
LEMMA EndTickStep ==
    ASSUME SInv, NEW r \in Replicas, EndTick(r)
    PROVE  SInv'
<1>1. TypeOK /\ TickInv(r) /\ drv[r].todo = {}
    BY DEF SInv, EndTick
<1>2. UNCHANGED <<parent, ver, child, filled, due, halted, halts, faults, claim, cxl, report>>
    BY DEF EndTick
<1>3. CASE drv' = [drv EXCEPT ![r] = NoTick]
    BY <1>1, <1>2, <1>3, IdleStep DEF TypeOK
<1>4. CASE drv' = [drv EXCEPT ![r] = [@ EXCEPT !.pc = "retire"]] /\ Finished(r)
    <2> DEFINE t == [drv[r] EXCEPT !.pc = "retire"]
    <2>1. t \in TickType /\ drv' = [drv EXCEPT ![r] = t]
        <3>1. drv \in [Replicas -> TickType]
            BY <1>1 DEF TypeOK, TickType
        <3>2. t \in TickType
            BY <3>1 DEF TickType
        <3> QED
            BY <1>4, <3>2
    <2>2. /\ drv' \in [Replicas -> TickType] /\ drv'[r] = t
          /\ \A q \in Replicas \ {r} : drv'[q] = drv[q]
        <3> HIDE DEF t
        <3> QED
            BY <1>1, <2>1, DrvType
    <2>3. TypeOK'
        BY <1>1, <1>2, <2>2 DEF TypeOK, TickType
    <2>4. /\ Grows /\ Versioned /\ Sent' = Sent
          /\ ExpiredTruth' /\ CancelledTruth' /\ SentIsPrefix'
        BY <1>2, <2>3, OrdersStay
    <2>5. /\ drv'[r].pc = "retire" /\ drv'[r].todo = {}
          /\ drv'[r].seen = drv[r].seen /\ drv'[r].ended = drv[r].ended
          /\ drv'[r].fills = drv[r].fills
        BY <1>1, <2>2 DEF TypeOK
    <2>6. TickInv(r)' /\ GapInv(r)'
        BY <1>1, <1>2, <1>4, <2>4, <2>5 DEF TickInv, GapInv, Finished
    <2> QED
        BY <1>2, <2>2, <2>3, <2>4, <2>6, DriverStep
<1> QED
    BY <1>3, <1>4 DEF EndTick

\* The version that Reload reads is that of a working parent.
LEMMA ReloadStep ==
    ASSUME SInv, NEW r \in Replicas, Reload(r)
    PROVE  SInv'
<1>1. TypeOK /\ TickInv(r) /\ GapInv(r) /\ drv[r].pc = "retire"
    BY DEF SInv, Reload
<1>2. UNCHANGED <<parent, ver, child, filled, due, halted, halts, faults, cxl, report>>
    BY DEF Reload
<1>3. CASE parent # "working"
    BY <1>1, <1>2, <1>3, IdleStep DEF TypeOK, Reload
<1>4. CASE parent = "working"
    <2> DEFINE t == [drv[r] EXCEPT !.pc = "save", !.ver = ver]
    <2>1. t \in TickType /\ drv' = [drv EXCEPT ![r] = t]
        <3>1. drv \in [Replicas -> TickType] /\ ver \in Nat
            BY <1>1 DEF TypeOK, TickType
        <3>2. t \in TickType
            BY <3>1 DEF TickType
        <3>3. drv' = [drv EXCEPT ![r] = t]
            BY <1>4 DEF Reload
        <3> QED
            BY <3>2, <3>3
    <2>2. /\ drv' \in [Replicas -> TickType] /\ drv'[r] = t
          /\ \A q \in Replicas \ {r} : drv'[q] = drv[q]
        <3> HIDE DEF t
        <3> QED
            BY <1>1, <2>1, DrvType
    <2>3. claim' \in [Replicas -> Replicas \cup Cancels \cup {None}]
        BY <1>1, <1>4 DEF TypeOK, Reload
    <2>4. TypeOK'
        BY <1>1, <1>2, <2>2, <2>3 DEF TypeOK, TickType
    <2>5. /\ Grows /\ Versioned /\ Sent' = Sent
          /\ ExpiredTruth' /\ CancelledTruth' /\ SentIsPrefix'
        BY <1>2, <2>4, OrdersStay
    <2>6. /\ drv'[r].pc = "save" /\ drv'[r].todo = drv[r].todo /\ drv'[r].ver = ver
          /\ drv'[r].seen = drv[r].seen /\ drv'[r].ended = drv[r].ended
          /\ drv'[r].fills = drv[r].fills
        BY <1>1, <2>2 DEF TypeOK
    <2>7. GapInv(r)'
        BY <1>1, <1>2, <2>5, <2>6 DEF GapInv
    <2>8. ver \in Nat
        BY <1>1 DEF TypeOK
    <2>9. TickInv(r)'
        BY <1>1, <1>2, <1>4, <2>5, <2>6, <2>8 DEF TickInv, Finished
    <2> QED
        BY <1>2, <2>2, <2>4, <2>5, <2>7, <2>9, DriverStep
<1> QED
    BY <1>3, <1>4

\* The parent is retired with the truth: what the tick read before the claim
\* was final.
LEMMA RetireStep ==
    ASSUME SInv, NEW r \in Replicas, Retire(r)
    PROVE  SInv'
<1>1. TypeOK /\ TickInv(r) /\ SentIsPrefix /\ drv[r].pc = "save"
    BY DEF SInv, Retire
<1>2. UNCHANGED <<child, filled, due, halted, halts, faults, cxl>>
    BY DEF Retire
<1>3. drv' = [drv EXCEPT ![r] = NoTick]
    BY DEF Retire
<1>4. claim' \in [Replicas -> Replicas \cup Cancels \cup {None}]
    BY <1>1 DEF TypeOK, Retire
<1>5. CASE drv[r].ver # ver
    BY <1>1, <1>2, <1>3, <1>4, <1>5, IdleStep DEF TypeOK, Retire
<1>6. CASE drv[r].ver = ver
    <2>1. /\ parent' = "expired" /\ ver' = ver + 1
          /\ report' = [sent |-> drv[r].seen, fills |-> drv[r].fills]
        BY <1>6 DEF Retire
    <2>2. /\ drv' \in [Replicas -> TickType] /\ drv'[r] = NoTick
          /\ \A q \in Replicas \ {r} : drv'[q] = drv[q]
        BY <1>1, <1>3, NoTickType, DrvType
    <2>3. drv[r].seen \in SUBSET Index /\ drv[r].fills \in [Index -> 0 .. SliceQty]
        BY <1>1 DEF TypeOK
    <2>4. TypeOK'
        BY <1>1, <1>2, <1>4, <2>1, <2>2, <2>3 DEF TypeOK, TickType
    <2>5. Sent' = Sent /\ Ended' = Ended
        BY <1>2 DEF Sent, Ended
    <2>6. Grows /\ Versioned
        BY <1>2, <2>1, <2>5 DEF Grows, Versioned
    <2>7. drv[r].seen = Index /\ drv[r].ended = Index
        BY <1>1 DEF TickInv, Finished
    <2>8. Ended = Index /\ drv[r].fills = filled
        <3>1. \A i \in Index : child[i] = "ended" /\ drv[r].fills[i] = filled[i]
            BY <1>1, <2>7 DEF TickInv
        <3>2. filled \in [Index -> 0 .. SliceQty]
            BY <1>1 DEF TypeOK
        <3> QED
            BY <2>3, <3>1, <3>2 DEF Ended
    <2>9. ExpiredTruth' /\ CancelledTruth'
        BY <1>2, <2>1, <2>5, <2>7, <2>8 DEF ExpiredTruth, CancelledTruth
    <2>10. SentIsPrefix'
        BY <1>1, <1>2, <2>5 DEF SentIsPrefix
    <2>11. TickInv(r)' /\ GapInv(r)'
        BY <2>2, IdleTick
    <2> QED
        BY <1>2, <2>2, <2>4, <2>6, <2>9, <2>10, <2>11, DriverStep
<1> QED
    BY <1>5, <1>6

\* A tick that fails forgets what it read.
LEMMA FailTickStep ==
    ASSUME SInv, NEW r \in Replicas, FailTick(r)
    PROVE  SInv'
<1>1. TypeOK
    BY DEF SInv
<1>2. faults' \in 0 .. MaxFaults
    BY <1>1, ScheduleAssumption DEF TypeOK, FailTick, Fault
<1>3. claim' \in [Replicas -> Replicas \cup Cancels \cup {None}]
    BY <1>1 DEF TypeOK, FailTick
<1> QED
    BY <1>2, <1>3, IdleStep DEF FailTick

-----------------------------------------------------------------------------
(* The steps of a cancel.                                                  *)

\* The type of a cancel's record.
CancelType == [pc : {"idle", "withdraw", "done"},
               sent : SUBSET Index, todo : SUBSET Index, ver : Nat]

\* What a cancel's step has to show.
LEMMA CancelActs ==
    ASSUME SInv, TypeOK', Grows, Versioned, NEW c \in Cancels,
           NEW t \in CancelType, cxl' = [cxl EXCEPT ![c] = t],
           drv' = drv, halts' = halts, halted' = halted,
           CancelInv(c)', ExpiredTruth', CancelledTruth', SentIsPrefix'
    PROVE  SInv'
<1>1. \A q \in Replicas : TickInv(q)' /\ GapInv(q)'
    <2> SUFFICES ASSUME NEW q \in Replicas PROVE TickInv(q)' /\ GapInv(q)'
        OBVIOUS
    <2>1. TypeOK /\ TickInv(q) /\ GapInv(q) /\ drv'[q] = drv[q]
        BY DEF SInv
    <2> QED
        BY <2>1, TickStays, GapStays
<1>2. \A d \in Cancels : CancelInv(d)'
    <2> SUFFICES ASSUME NEW d \in Cancels, d # c PROVE CancelInv(d)'
        OBVIOUS
    <2>1. TypeOK /\ CancelInv(d)
        BY DEF SInv
    <2>2. cxl'[d] = cxl[d]
        BY <2>1 DEF TypeOK
    <2> QED
        BY <2>1, <2>2, CancelStays
<1>3. (halts = 0 => ~halted)'
    BY DEF SInv
<1> QED
    BY <1>1, <1>2, <1>3 DEF SInv

\* A step that sets one cancel keeps the type of the cancels.
LEMMA CxlType ==
    ASSUME TypeOK, NEW c \in Cancels, NEW t \in CancelType,
           cxl' = [cxl EXCEPT ![c] = t]
    PROVE  cxl' \in [Cancels -> CancelType] /\ cxl'[c] = t
<1>1. cxl \in [Cancels -> CancelType]
    BY DEF TypeOK, CancelType
<1> HIDE DEF CancelType
<1> QED
    BY <1>1

\* A cancel that leaves the orders alone and withdraws nothing.
LEMMA CancelRests ==
    ASSUME SInv, NEW c \in Cancels, NEW t \in CancelType, cxl' = [cxl EXCEPT ![c] = t],
           UNCHANGED <<parent, ver, child, filled, due, halted, halts, faults, drv, report>>,
           claim' \in [Replicas -> Replicas \cup Cancels \cup {None}],
           \/ t.pc # "withdraw"
           \/ /\ t.sent \subseteq t.todo \cup Ended /\ t.todo \subseteq Sent
              /\ t.ver = ver /\ parent = "working"
    PROVE  SInv'
<1>1. TypeOK
    BY DEF SInv
<1>2. cxl' \in [Cancels -> CancelType] /\ cxl'[c] = t
    BY <1>1, CxlType
<1>3. TypeOK'
    BY <1>1, <1>2 DEF TypeOK, CancelType
<1>4. /\ Grows /\ Versioned /\ Sent' = Sent /\ Ended' = Ended
      /\ ExpiredTruth' /\ CancelledTruth' /\ SentIsPrefix'
    BY <1>3, OrdersStay
<1>5. CancelInv(c)'
    <2>1. ver \in Nat
        BY <1>1 DEF TypeOK
    <2> QED
        BY <1>2, <1>4, <2>1 DEF CancelInv
<1> QED
    BY <1>3, <1>4, <1>5, CancelActs

\* A cancel lists the children there are.
LEMMA BeginStep ==
    ASSUME SInv, NEW c \in Cancels, BeginCancel(c)
    PROVE  SInv'
<1>1. TypeOK /\ Home[c] \in Replicas
    BY ScheduleAssumption DEF SInv
<1>2. UNCHANGED <<parent, ver, child, filled, due, halted, halts, faults, drv, report>>
    BY DEF BeginCancel
<1>3. claim' \in [Replicas -> Replicas \cup Cancels \cup {None}]
    <2>1. claim' = claim \/ claim' = [claim EXCEPT ![Home[c]] = c]
        BY DEF BeginCancel
    <2> QED
        BY <1>1, <2>1 DEF TypeOK
<1>4. CASE parent = "working"
    <2> DEFINE t == [pc |-> "withdraw", sent |-> Sent, todo |-> Sent \ Ended, ver |-> ver]
    <2>1. t \in CancelType
        BY <1>1, Subsets DEF CancelType, TypeOK
    <2>2. /\ cxl' = [cxl EXCEPT ![c] = t] /\ t.sent \subseteq t.todo \cup Ended
          /\ t.todo \subseteq Sent /\ t.ver = ver
        BY <1>4 DEF BeginCancel
    <2> HIDE DEF t
    <2> QED
        BY <1>2, <1>3, <1>4, <2>1, <2>2, CancelRests
<1>5. CASE parent # "working"
    <2> DEFINE t == [cxl[c] EXCEPT !.pc = "done"]
    <2>1. t \in CancelType /\ t.pc # "withdraw"
        <3>1. cxl[c] \in CancelType
            BY <1>1 DEF TypeOK, CancelType
        <3> QED
            BY <3>1 DEF CancelType
    <2>2. cxl' = [cxl EXCEPT ![c] = t]
        BY <1>5 DEF BeginCancel
    <2> HIDE DEF t
    <2> QED
        BY <1>2, <1>3, <2>1, <2>2, CancelRests
<1> QED
    BY <1>4, <1>5

\* A cancel that has not begun has the type of a cancel.
LEMMA NoCancelType == NoCancel \in CancelType /\ NoCancel.pc # "withdraw"
    BY DEF NoCancel, CancelType

\* A delivery that fails forgets what it listed.
LEMMA FailCancelStep ==
    ASSUME SInv, NEW c \in Cancels, FailCancel(c)
    PROVE  SInv'
<1>1. TypeOK /\ Home[c] \in Replicas
    BY ScheduleAssumption DEF SInv
<1>2. claim' \in [Replicas -> Replicas \cup Cancels \cup {None}]
    BY <1>1 DEF TypeOK, FailCancel
<1> QED
    BY <1>2, NoCancelType, CancelRests DEF FailCancel

\* A child that is withdrawn had been sent, and ends.
LEMMA WithdrawStep ==
    ASSUME SInv, NEW c \in Cancels, Withdraw(c)
    PROVE  SInv'
<1>1. /\ TypeOK /\ CancelInv(c) /\ cxl[c].pc = "withdraw"
      /\ ExpiredTruth /\ CancelledTruth /\ SentIsPrefix
    BY DEF SInv, Withdraw
<1>2. UNCHANGED <<parent, ver, filled, due, halted, halts, faults, claim, drv, report>>
    BY DEF Withdraw
<1>3. cxl[c].todo \in SUBSET Index /\ cxl[c].todo # {} /\ cxl[c].ver \in Nat
    BY <1>1 DEF TypeOK, Withdraw
<1>4. PICK i \in cxl[c].todo :
          /\ child' = [child EXCEPT ![i] = "ended"]
          /\ cxl' = [cxl EXCEPT ![c] = [@ EXCEPT !.todo = cxl[c].todo \ {i}]]
    BY <1>3, FirstIsLeast DEF Withdraw
<1>5. i \in Index /\ i \in Sent
    BY <1>1, <1>3 DEF CancelInv
<1> DEFINE t == [cxl[c] EXCEPT !.todo = cxl[c].todo \ {i}]
<1>6. /\ t \in CancelType /\ t.pc = "withdraw" /\ t.todo = cxl[c].todo \ {i}
      /\ t.sent = cxl[c].sent /\ t.ver = cxl[c].ver
    <2>1. cxl[c] \in CancelType
        BY <1>1 DEF TypeOK, CancelType
    <2> QED
        BY <1>1, <2>1 DEF CancelType
<1>7. cxl' = [cxl EXCEPT ![c] = t]
    BY <1>4
<1> HIDE DEF t
<1>8. cxl' \in [Cancels -> CancelType] /\ cxl'[c] = t
    BY <1>1, <1>6, <1>7, CxlType
<1>9. child' \in [Index -> {"none", "live", "frozen", "ended"}]
    BY <1>1, <1>4, <1>5 DEF TypeOK
<1>10. TypeOK'
    BY <1>1, <1>2, <1>8, <1>9 DEF TypeOK, CancelType
<1>11. child \in [Index -> {"none", "live", "frozen", "ended"}]
    BY <1>1 DEF TypeOK
<1>12. Sent' = Sent /\ Ended' = Ended \cup {i}
    BY <1>4, <1>5, <1>11 DEF Sent, Ended
<1>13. Grows /\ Versioned
    BY <1>2, <1>4, <1>5, <1>11, <1>12 DEF Grows, Versioned
<1>14. ExpiredTruth' /\ CancelledTruth'
    BY <1>1, <1>2, <1>10, <1>13, TruthStays
<1>15. SentIsPrefix'
    BY <1>1, <1>2, <1>12 DEF SentIsPrefix
<1>16. CancelInv(c)'
    BY <1>1, <1>2, <1>6, <1>8, <1>12 DEF CancelInv
<1> QED
    BY <1>2, <1>6, <1>7, <1>10, <1>13, <1>14, <1>15, <1>16, CancelActs

\* The parent is cancelled when nothing that was listed is left.
LEMMA SaveCancelStep ==
    ASSUME SInv, NEW c \in Cancels, SaveCancel(c)
    PROVE  SInv'
<1>1. /\ TypeOK /\ CancelInv(c) /\ SentIsPrefix /\ Home[c] \in Replicas
      /\ cxl[c].pc = "withdraw" /\ cxl[c].todo = {}
    BY ScheduleAssumption DEF SInv, SaveCancel
<1>2. UNCHANGED <<child, filled, due, halted, halts, faults, drv>>
    BY DEF SaveCancel
<1>3. claim' \in [Replicas -> Replicas \cup Cancels \cup {None}]
    BY <1>1 DEF TypeOK, SaveCancel
<1>4. CASE cxl[c].ver # ver
    BY <1>2, <1>3, <1>4, NoCancelType, CancelRests DEF SaveCancel
<1>5. CASE cxl[c].ver = ver
    <2> DEFINE t == [cxl[c] EXCEPT !.pc = "done"]
    <2>1. t \in CancelType /\ t.pc = "done"
        <3>1. cxl[c] \in CancelType
            BY <1>1 DEF TypeOK, CancelType
        <3> QED
            BY <3>1 DEF CancelType
    <2>2. /\ cxl' = [cxl EXCEPT ![c] = t] /\ parent' = "cancelled" /\ ver' = ver + 1
          /\ report' = [sent |-> cxl[c].sent, fills |-> NoReport.fills]
        BY <1>5 DEF SaveCancel
    <2> HIDE DEF t
    <2>3. cxl' \in [Cancels -> CancelType] /\ cxl'[c] = t
        BY <1>1, <2>1, <2>2, CxlType
    <2>4. cxl[c].sent \in SUBSET Index /\ NoReport.fills \in [Index -> 0 .. SliceQty]
        BY <1>1, ScheduleAssumption DEF TypeOK, NoReport
    <2>5. TypeOK'
        <3>1. report' \in [sent : SUBSET Index, fills : [Index -> 0 .. SliceQty]]
            BY <2>2, <2>4
        <3>2. ver' \in Nat /\ parent' \in {"working", "cancelled", "expired"}
            BY <1>1, <2>2 DEF TypeOK
        <3>3. cxl' \in [Cancels -> [pc : {"idle", "withdraw", "done"},
                                    sent : SUBSET Index, todo : SUBSET Index, ver : Nat]]
            BY <2>3 DEF CancelType
        <3> QED
            BY <1>1, <1>2, <1>3, <3>1, <3>2, <3>3 DEF TypeOK
    <2>6. Sent' = Sent /\ Ended' = Ended
        BY <1>2 DEF Sent, Ended
    <2>7. Grows /\ Versioned
        BY <1>2, <2>2, <2>6 DEF Grows, Versioned
    <2>8. ExpiredTruth' /\ CancelledTruth'
        BY <1>1, <2>2, <2>6 DEF ExpiredTruth, CancelledTruth, CancelInv
    <2>9. SentIsPrefix'
        BY <1>1, <1>2, <2>6 DEF SentIsPrefix
    <2>10. CancelInv(c)'
        BY <2>1, <2>3 DEF CancelInv
    <2> QED
        BY <1>2, <2>1, <2>2, <2>5, <2>7, <2>8, <2>9, <2>10, CancelActs
<1> QED
    BY <1>4, <1>5

-----------------------------------------------------------------------------
(* The steps of the world.                                                 *)

\* What a step of the world has to show.
LEMMA WorldActs ==
    ASSUME SInv, TypeOK', Grows, UNCHANGED <<parent, ver, drv, cxl, report>>,
           Sent' = Sent, halts' = 0 => halts = 0, (halts = 0 => ~halted)'
    PROVE  SInv'
<1>1. TypeOK /\ ExpiredTruth /\ CancelledTruth /\ SentIsPrefix
    BY DEF SInv
<1>2. Versioned
    BY DEF Versioned
<1>3. \A q \in Replicas : TickInv(q)' /\ GapInv(q)'
    <2> SUFFICES ASSUME NEW q \in Replicas PROVE TickInv(q)' /\ GapInv(q)'
        OBVIOUS
    <2>1. TickInv(q) /\ GapInv(q) /\ drv'[q] = drv[q]
        BY DEF SInv
    <2> QED
        BY <1>1, <1>2, <2>1, TickStays, GapStays
<1>4. \A c \in Cancels : CancelInv(c)'
    <2> SUFFICES ASSUME NEW c \in Cancels PROVE CancelInv(c)'
        OBVIOUS
    <2>1. CancelInv(c) /\ cxl'[c] = cxl[c]
        BY DEF SInv
    <2> QED
        BY <1>1, <1>2, <2>1, CancelStays
<1>5. ExpiredTruth' /\ CancelledTruth'
    BY <1>1, TruthStays
<1>6. SentIsPrefix'
    BY <1>1 DEF SentIsPrefix
<1> QED
    BY <1>3, <1>4, <1>5, <1>6 DEF SInv

\* The clock and the halts leave the orders alone.
LEMMA ClockStep ==
    ASSUME SInv, BecomeDue \/ Halt \/ Resume
    PROVE  SInv'
<1>1. TypeOK /\ (halts = 0 => ~halted)
    BY DEF SInv
<1>2. UNCHANGED <<parent, ver, child, filled, faults, claim, drv, cxl, report>>
    BY DEF BecomeDue, Halt, Resume
<1>3. /\ due' \in 0 .. Slices /\ halted' \in BOOLEAN /\ halts' \in 0 .. MaxHalts
      /\ (halts' = 0 => halts = 0) /\ (halts' = 0 => ~halted')
    <2>1. CASE BecomeDue
        BY <1>1, <2>1, ScheduleAssumption DEF TypeOK, BecomeDue
    <2>2. CASE Halt
        BY <1>1, <2>2, ScheduleAssumption DEF TypeOK, Halt
    <2>3. CASE Resume
        BY <1>1, <2>3 DEF TypeOK, Resume
    <2> QED
        BY <2>1, <2>2, <2>3
<1>4. TypeOK'
    BY <1>1, <1>2, <1>3 DEF TypeOK
<1>5. Sent' = Sent /\ Grows
    BY <1>2 DEF Sent, Grows
<1> QED
    BY <1>2, <1>3, <1>4, <1>5, WorldActs

\* A child's own steps: it exists, and it trades only while it has not ended.
LEMMA ChildStep ==
    ASSUME SInv, NEW i \in Index, Trade(i) \/ End(i) \/ Freeze(i) \/ Resolve(i)
    PROVE  SInv'
<1>1. TypeOK /\ (halts = 0 => ~halted)
    BY DEF SInv
<1>2. UNCHANGED <<parent, ver, due, halted, halts, claim, drv, cxl, report>>
    BY DEF Trade, End, Freeze, Resolve
<1>3. faults' \in 0 .. MaxFaults
    BY <1>1, ScheduleAssumption DEF TypeOK, Trade, End, Freeze, Resolve, Fault
<1>4. child \in [Index -> {"none", "live", "frozen", "ended"}]
    BY <1>1 DEF TypeOK
<1>5. CASE Trade(i)
    <2>1. child' = child /\ child[i] = "live" /\ filled[i] < SliceQty
        BY <1>5 DEF Trade
    <2>2. filled' = [filled EXCEPT ![i] = filled[i] + 1]
        BY <1>5 DEF Trade
    <2>3. filled' \in [Index -> 0 .. SliceQty]
        BY <1>1, <2>1, <2>2, ScheduleAssumption DEF TypeOK
    <2>4. TypeOK'
        BY <1>1, <1>2, <1>3, <2>1, <2>3 DEF TypeOK
    <2>5. \A k \in Index : k # i => filled'[k] = filled[k]
        BY <1>1, <2>2 DEF TypeOK
    <2>6. Sent' = Sent /\ Grows
        BY <2>1, <2>5 DEF Sent, Grows
    <2> QED
        BY <1>1, <1>2, <2>4, <2>6, WorldActs
<1>6. CASE End(i) \/ Freeze(i) \/ Resolve(i)
    <2>1. PICK s \in {"live", "frozen", "ended"} : child' = [child EXCEPT ![i] = s]
        BY <1>6 DEF End, Freeze, Resolve
    <2>2. filled' = filled /\ child[i] \in {"live", "frozen"}
        BY <1>6 DEF End, Freeze, Resolve
    <2>3. child' \in [Index -> {"none", "live", "frozen", "ended"}]
        BY <1>4, <2>1
    <2>4. TypeOK'
        BY <1>1, <1>2, <1>3, <2>2, <2>3 DEF TypeOK
    <2>5. Sent' = Sent
        BY <1>4, <2>1, <2>2 DEF Sent
    <2>6. Grows
        BY <1>4, <2>1, <2>2, <2>5 DEF Grows
    <2> QED
        BY <1>1, <1>2, <2>4, <2>5, <2>6, WorldActs
<1> QED
    BY <1>5, <1>6

-----------------------------------------------------------------------------
(* The theorems.                                                           *)

\* Nothing has been read, sent or announced at first.
LEMMA InitInv == Init => SInv
<1> SUFFICES ASSUME Init PROVE SInv
    OBVIOUS
<1>1. TypeOK
    <2>1. drv \in [Replicas -> TickType]
        BY NoTickType DEF Init
    <2>2. cxl \in [Cancels -> CancelType]
        BY NoCancelType DEF Init
    <2>3. report \in [sent : SUBSET Index, fills : [Index -> 0 .. SliceQty]]
        BY ScheduleAssumption DEF Init, NoReport
    <2> QED
        <3>1. /\ child \in [Index -> {"none", "live", "frozen", "ended"}]
              /\ filled \in [Index -> 0 .. SliceQty]
              /\ due \in 0 .. Slices /\ halts \in 0 .. MaxHalts /\ faults \in 0 .. MaxFaults
            BY ScheduleAssumption DEF Init
        <3>2. /\ parent \in {"working", "cancelled", "expired"}
              /\ ver \in Nat /\ halted \in BOOLEAN
              /\ claim \in [Replicas -> Replicas \cup Cancels \cup {None}]
            BY DEF Init
        <3> QED
            BY <2>1, <2>2, <2>3, <3>1, <3>2 DEF TypeOK, TickType, CancelType
<1>2. \A r \in Replicas : TickInv(r) /\ GapInv(r)
    BY DEF Init, NoTick, TickInv, GapInv
<1>3. \A c \in Cancels : CancelInv(c)
    BY DEF Init, NoCancel, CancelInv
<1>4. ExpiredTruth /\ CancelledTruth /\ SentIsPrefix /\ (halts = 0 => ~halted)
    BY DEF Init, ExpiredTruth, CancelledTruth, SentIsPrefix, Sent
<1> QED
    BY <1>1, <1>2, <1>3, <1>4 DEF SInv

\* Every step of a driver, of a cancel and of the world preserves it.
LEMMA NextInv == SInv /\ [Next]_vars => SInv'
<1> SUFFICES ASSUME SInv, [Next]_vars PROVE SInv'
    OBVIOUS
<1>1. ASSUME NEW r \in Replicas, Drive(r) \/ FailTick(r) PROVE SInv'
    BY <1>1, ListStep, AuthorizeStep, CreateStep, EndTickStep, ReloadStep, RetireStep,
       FailTickStep DEF Drive
<1>2. ASSUME NEW c \in Cancels, CancelStep(c) PROVE SInv'
    BY <1>2, BeginStep, WithdrawStep, SaveCancelStep, FailCancelStep DEF CancelStep
<1>3. ASSUME World PROVE SInv'
    BY <1>3, ClockStep, ChildStep DEF World
<1>4. CASE UNCHANGED vars
    <2>1. UNCHANGED <<parent, ver, child, filled, due, halted, halts, faults, claim, drv,
                      cxl, report>>
        BY <1>4 DEF vars
    <2>2. TypeOK' /\ (halts = 0 => ~halted)'
        BY <2>1 DEF SInv, TypeOK
    <2>3. Sent' = Sent /\ Grows
        BY <2>1 DEF Sent, Grows
    <2> QED
        BY <2>1, <2>2, <2>3, WorldActs
<1> QED
    BY <1>1, <1>2, <1>3, <1>4 DEF Next

\* What drivers and cancels have read of the children is a lower bound that is
\* exact once final (DriveSchedules, retireIfFinished, cancelChildren).
THEOREM Invariance == Spec => []SInv
    BY InitInv, NextInv, PTL DEF Spec

\* The state of a scheduled parent keeps its types.
THEOREM TypeCorrect == Spec => []TypeOK
<1>1. SInv => TypeOK
    BY DEF SInv
<1> QED
    BY <1>1, Invariance, PTL

\* A parent is retired only when its whole schedule has been sent and has ended,
\* and the fact says what its children traded (retireIfFinished).
THEOREM ExpiredIsTrue == Spec => []ExpiredTruth
<1>1. SInv => ExpiredTruth
    BY DEF SInv
<1> QED
    BY <1>1, Invariance, PTL

\* A parent is cancelled only when every child it names has ended
\* (cancelChildren), for any number of cancels that fail and come again.
THEOREM CancelledIsTrue == Spec => []CancelledTruth
<1>1. SInv => CancelledTruth
    BY DEF SInv
<1> QED
    BY <1>1, Invariance, PTL

\* Without a halt, any number of drivers send a prefix of the schedule
\* (driveOne, emitChild).
THEOREM PrefixIsSent == Spec => []SentIsPrefix
<1>1. SInv => SentIsPrefix
    BY DEF SInv
<1> QED
    BY <1>1, Invariance, PTL

\* No child is admitted once the parent has ended and the admissions that had
\* read it before are through (authorizeChild).
THEOREM NoChildAfterStop == Spec => StoppedStays
<1>1. SInv /\ [Next]_vars => [Stopped => Stopped' /\ Sent' = Sent]_vars
    <2> SUFFICES ASSUME SInv, Next, Stopped PROVE Stopped' /\ Sent' = Sent
        BY DEF vars, Stopped
    <2>1. TypeOK /\ parent # "working" /\ \A q \in Replicas : drv[q].pc # "create"
        BY DEF SInv, Stopped
    <2>2. ASSUME NEW r \in Replicas, Drive(r) \/ FailTick(r) PROVE Stopped' /\ Sent' = Sent
        <3>1. child' = child /\ parent' # "working"
            BY <2>1, <2>2 DEF Drive, FailTick, List, Authorize, Create, EndTick, Reload, Retire
        <3>2. \E t : drv' = [drv EXCEPT ![r] = t] /\ t.pc # "create"
            <4>1. CASE Authorize(r)
                <5>1. drv' = [drv EXCEPT ![r] = After(r)]
                    BY <2>1, <4>1 DEF Authorize, Passed, After
                <5>2. After(r).pc = "emit"
                    BY <2>1 DEF After, TypeOK
                <5> HIDE DEF After
                <5> QED
                    BY <5>1, <5>2
            <4>2. CASE EndTick(r)
                <5>1. CASE drv' = [drv EXCEPT ![r] = NoTick]
                    <6>1. NoTick.pc = "idle"
                        BY DEF NoTick
                    <6> QED
                        BY <5>1, <6>1
                <5>2. CASE drv' = [drv EXCEPT ![r] = [@ EXCEPT !.pc = "retire"]]
                    <6> DEFINE t == [drv[r] EXCEPT !.pc = "retire"]
                    <6>1. t.pc = "retire" /\ drv' = [drv EXCEPT ![r] = t]
                        BY <2>1, <5>2 DEF TypeOK
                    <6> HIDE DEF t
                    <6> QED
                        BY <6>1
                <5> QED
                    BY <4>2, <5>1, <5>2 DEF EndTick
            <4>3. CASE Reload(r) \/ Retire(r) \/ FailTick(r)
                <5>1. drv' = [drv EXCEPT ![r] = NoTick] /\ NoTick.pc = "idle"
                    BY <2>1, <4>3 DEF Reload, Retire, FailTick, NoTick
                <5> QED
                    BY <5>1
            <4> QED
                BY <2>1, <2>2, <4>1, <4>2, <4>3 DEF Drive, List, Create
        <3>3. \A q \in Replicas : drv'[q].pc # "create"
            BY <2>1, <3>2 DEF TypeOK
        <3> QED
            BY <3>1, <3>3 DEF Stopped, Sent
    <2>3. ASSUME NEW c \in Cancels, CancelStep(c) PROVE Stopped' /\ Sent' = Sent
        <3>1. parent' # "working" /\ drv' = drv
            BY <2>1, <2>3 DEF CancelStep, BeginCancel, Withdraw, SaveCancel, FailCancel
        <3>2. Sent' = Sent
            <4>1. CASE Withdraw(c)
                <5>1. CancelInv(c) /\ cxl[c].todo \in SUBSET Index /\ cxl[c].todo # {}
                      /\ cxl[c].pc = "withdraw"
                    BY <2>1, <4>1 DEF SInv, TypeOK, Withdraw
                <5>2. PICK i \in cxl[c].todo : child' = [child EXCEPT ![i] = "ended"]
                    BY <4>1, <5>1, FirstIsLeast DEF Withdraw
                <5>3. i \in Sent /\ i \in Index
                    BY <5>1, <5>2 DEF CancelInv
                <5> QED
                    BY <2>1, <5>2, <5>3 DEF TypeOK, Sent
            <4> QED
                BY <2>3, <4>1 DEF CancelStep, BeginCancel, SaveCancel, FailCancel, Sent
        <3> QED
            BY <2>1, <3>1, <3>2 DEF Stopped
    <2>4. ASSUME World PROVE Stopped' /\ Sent' = Sent
        <3>1. parent' = parent /\ drv' = drv
            BY <2>4 DEF World, BecomeDue, Halt, Resume, Trade, End, Freeze, Resolve
        <3>2. CASE child' = child
            BY <2>1, <3>1, <3>2 DEF Stopped, Sent
        <3>3. CASE \E i \in Index : End(i) \/ Freeze(i) \/ Resolve(i)
            <4>1. PICK i \in Index : End(i) \/ Freeze(i) \/ Resolve(i)
                BY <3>3
            <4>2. PICK s \in {"live", "frozen", "ended"} : child' = [child EXCEPT ![i] = s]
                BY <4>1 DEF End, Freeze, Resolve
            <4>3. child[i] \in {"live", "frozen"}
                BY <4>1 DEF End, Freeze, Resolve
            <4> QED
                BY <2>1, <3>1, <4>2, <4>3 DEF Stopped, Sent, TypeOK
        <3> QED
            BY <2>4, <3>2, <3>3 DEF World, BecomeDue, Halt, Resume, Trade
    <2> QED
        BY <2>2, <2>3, <2>4 DEF Next
<1> QED
    BY <1>1, Invariance, PTL DEF Spec, StoppedStays

=============================================================================
