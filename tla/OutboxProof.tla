---------------------------- MODULE OutboxProof ----------------------------
(***************************************************************************)
(* Proofs about Outbox, for any number of keys, writers, drainers and      *)
(* processes, any batch size, any pool size and any set of faults.         *)
(***************************************************************************)
EXTENDS Outbox, FiniteSetTheorems, WellFoundedInduction, TLAPS

(***************************************************************************)
(* A set of ids is a finite set of numbers.                                *)
(***************************************************************************)
LEMMA IdSets ==
    ASSUME NEW S \in SUBSET Ids
    PROVE  IsFiniteSet(S) /\ \A i \in S : i \in Int
<1>1. IsFiniteSet(1 .. MaxId)
    BY MaxIdAssumption, FS_Interval
<1>2. IsFiniteSet(S)
    BY Zenon, <1>1, FS_Subset DEF Ids
<1>3. \A i \in S : i \in Int
    BY MaxIdAssumption DEF Ids
<1> QED
    BY Zenon, <1>2, <1>3

(***************************************************************************)
(* The least id of a nonempty set of ids exists.                           *)
(***************************************************************************)
LEMMA LeastExists ==
    ASSUME NEW S \in SUBSET Ids, S # {}
    PROVE  Least(S) \in S /\ \A j \in S : Least(S) =< j
<1> DEFINE Down(x) == {j \in S : j =< x}
           Downs == {Down(x) : x \in S}
<1>1. IsFiniteSet(S) /\ \A i \in S : i \in Int
    BY Zenon, IdSets
<1>2. \A D \in Downs : D \in SUBSET S
    BY Zenon
<1>3. \A D \in Downs : D \in FiniteSubsetsOf(S)
    BY Zenon, <1>1, <1>2, FS_Subset DEF FiniteSubsetsOf
<1>4. Downs # {}
    BY Zenon
<1>5. PICK D \in Downs : \A E \in Downs : ~(<<E, D>> \in StrictSubsetOrdering(S))
    <2> HIDE DEF Downs
    <2> QED
        BY Zenon, <1>3, <1>4, WFMin, FS_StrictSubsetOrderingWellFounded
<1>6. PICK x \in S : D = Down(x)
    BY Zenon
<1>7. ASSUME NEW y \in S, y < x PROVE FALSE
  <2>1. Down(y) \subseteq Down(x)
    BY <1>1, <1>7
  <2>2. x \in Down(x) /\ x \notin Down(y)
    BY <1>1, <1>7
  <2>3. Down(y) \in Downs
    BY Zenon
  <2> HIDE DEF Down, Downs
  <2> QED
    BY Zenon, <1>2, <1>5, <1>6, <2>1, <2>2, <2>3 DEF StrictSubsetOrdering
<1>8. \A y \in S : x =< y
    BY <1>1, <1>7
<1> QED
    BY Zenon, <1>8 DEF Least

(***************************************************************************)
(* A batch is a prefix: with an id it contains every older id of the set.  *)
(***************************************************************************)
LEMMA FirstBatchIsPrefix ==
    ASSUME NEW S \in SUBSET Ids, NEW i \in FirstBatch(S), NEW j \in S, j < i
    PROVE  j \in FirstBatch(S)
<1> DEFINE Below(n) == {m \in S : m < n}
<1>1. IsFiniteSet(S) /\ \A m \in S : m \in Int
    BY Zenon, IdSets
<1>2. i \in S /\ Cardinality(Below(i)) < Batch
    BY Zenon DEF FirstBatch
<1>3. IsFiniteSet(Below(i)) /\ IsFiniteSet(Below(j))
    BY Zenon, <1>1, FS_Subset
<1>4. Below(j) \in SUBSET Below(i)
    BY <1>1, <1>2
<1>5. Cardinality(Below(j)) =< Cardinality(Below(i))
    <2> HIDE DEF Below
    <2> QED
        BY Zenon, <1>3, <1>4, FS_Subset
<1>6. Cardinality(Below(j)) \in Nat /\ Cardinality(Below(i)) \in Nat
    BY Zenon, <1>3, FS_CardinalityType
<1>7. Cardinality(Below(j)) < Batch
    <2> HIDE DEF Below
    <2> QED
        BY <1>2, <1>5, <1>6, BatchAssumption
<1> QED
    BY Zenon, <1>7 DEF FirstBatch

(***************************************************************************)
(* The greatest id of a nonempty set of ids exists.                        *)
(***************************************************************************)
LEMMA GreatestExists ==
    ASSUME NEW S \in SUBSET Ids, S # {}
    PROVE  \E x \in S : \A y \in S : y =< x
<1> DEFINE Up(x) == {j \in S : x =< j}
           Ups == {Up(x) : x \in S}
<1>1. IsFiniteSet(S) /\ \A i \in S : i \in Int
    BY Zenon, IdSets
<1>2. \A D \in Ups : D \in SUBSET S
    BY Zenon
<1>3. \A D \in Ups : D \in FiniteSubsetsOf(S)
    BY Zenon, <1>1, <1>2, FS_Subset DEF FiniteSubsetsOf
<1>4. Ups # {}
    BY Zenon
<1>5. PICK D \in Ups : \A E \in Ups : ~(<<E, D>> \in StrictSubsetOrdering(S))
    <2> HIDE DEF Ups
    <2> QED
        BY Zenon, <1>3, <1>4, WFMin, FS_StrictSubsetOrderingWellFounded
<1>6. PICK x \in S : D = Up(x)
    BY Zenon
<1>7. ASSUME NEW y \in S, x < y PROVE FALSE
  <2>1. Up(y) \subseteq Up(x)
    BY <1>1, <1>7
  <2>2. x \in Up(x) /\ x \notin Up(y)
    BY <1>1, <1>7
  <2>3. Up(y) \in Ups
    BY Zenon
  <2> HIDE DEF Up, Ups
  <2> QED
    BY Zenon, <1>2, <1>5, <1>6, <2>1, <2>2, <2>3 DEF StrictSubsetOrdering
<1> QED
    BY <1>1, <1>7

(***************************************************************************)
(* A batch that is not full is all there was: if Pending returns other     *)
(* than Batch records, it returns every record it selects from.            *)
(***************************************************************************)
LEMMA ShortBatchIsAll ==
    ASSUME NEW S \in SUBSET Ids, Cardinality(FirstBatch(S)) # Batch
    PROVE  FirstBatch(S) = S
<1> DEFINE FB == FirstBatch(S)
           Below(n) == {m \in S : m < n}
<1>1. IsFiniteSet(S) /\ \A m \in S : m \in Int
    BY Zenon, IdSets
<1>2. FB \in SUBSET S /\ FB \in SUBSET Ids
    BY Zenon DEF FirstBatch
<1>3. IsFiniteSet(FB) /\ Cardinality(FB) \in Nat
    BY Zenon, <1>1, <1>2, FS_Subset, FS_CardinalityType
<1>4. SUFFICES ASSUME S \ FB # {} PROVE FALSE
    BY Zenon, <1>2
<1>5. PICK x \in S \ FB : \A y \in S \ FB : x =< y
    <2>1. S \ FB \in SUBSET Ids
        BY Zenon
    <2> HIDE DEF FB
    <2> QED
        BY Zenon, <1>4, <2>1, LeastExists
<1>6. ASSUME NEW m \in S PROVE m < x <=> m \in FB
    <2>1. CASE m \in FB
        BY <2>1, <1>1, <1>5, FirstBatchIsPrefix
    <2>2. CASE m \notin FB
        BY <2>2, <1>1, <1>5
    <2> QED
        BY Zenon, <2>1, <2>2
<1>7. Below(x) = FB
    <2> HIDE DEF FB
    <2> QED BY Zenon, <1>2, <1>6
<1>8. ~(Cardinality(FB) < Batch)
    BY Zenon, <1>5, <1>7 DEF FirstBatch
<1>9. FB # {}
    BY <1>8, FS_EmptySet, BatchAssumption
<1>10. PICK g \in FB : \A y \in FB : y =< g
    <2> HIDE DEF FB
    <2> QED BY Zenon, <1>2, <1>9, GreatestExists
<1>11. Below(g) = FB \ {g}
    <2>1. \A m \in S : m < g => m \in FB
        BY Zenon, <1>10, FirstBatchIsPrefix
    <2> HIDE DEF FB
    <2> QED BY <1>1, <1>2, <1>10, <2>1
<1>12. Cardinality(Below(g)) < Batch
    BY Zenon, <1>10 DEF FirstBatch
<1>13. Cardinality(FB \ {g}) = Cardinality(FB) - 1
    <2> HIDE DEF FB
    <2> QED BY Zenon, <1>3, <1>10, FS_RemoveElement
<1> QED
    <2> HIDE DEF FB, Below
    <2> QED BY <1>3, <1>8, <1>11, <1>12, <1>13, BatchAssumption DEF FB

-----------------------------------------------------------------------------
(***************************************************************************)
(* The inductive invariant.  FirstPublishInOrder is not inductive alone:   *)
(* it needs that an open transaction's ids lie above every committed id of *)
(* its key (TxInv, from the row lock), and that a drainer's batch leaves   *)
(* no gap behind it (PendInv, from reading the batch in id order and from  *)
(* marking only what was sent).                                            *)
(***************************************************************************)
RowInv == \A i \in committed : i < nextId /\ keyOf[i] \in Keys

TxInv ==
    /\ \A k, l \in Keys : rowLock[k] # None /\ rowLock[k] = rowLock[l] => k = l
    /\ \A w \in Writers : \A i \in txIds[w] :
        /\ i < nextId
        /\ \E k \in Keys : keyOf[i] = k /\ rowLock[k] = w
        /\ \A j \in committed : keyOf[j] = keyOf[i] => j < i

PendOf(d) ==
    /\ todo[d] \subseteq committed
    /\ pc[d] \notin {"idle", "next"} => cur[d] \in Keys
    /\ pc[d] \notin {"publish", "mark", "refused"} => pend[d] = {}
    /\ pc[d] = "mark" => pend[d] # {} /\ Least(pend[d]) \in sent
    /\ \A i \in pend[d] :
        /\ i \in committed /\ keyOf[i] = cur[d]
        /\ \A j \in committed :
            keyOf[j] = cur[d] /\ j < i => j \in sent \/ j \in pend[d]

FlushOf(f) ==
    /\ pc[f] # "next"
    /\ flushed[f] => pc[f] = "idle" /\ owed[f] \subseteq sent
    /\ pc[f] # "idle" => \A i \in owed[f] : i \in committed /\ keyOf[i] = cur[f]
    /\ pc[f] \in {"publish", "mark"} /\ ~full[f]
          => owed[f] \subseteq sent \cup pend[f]

PendInv == \A d \in Drainers : PendOf(d)
FlushInv == \A f \in Flushers : FlushOf(f)

IInv ==
    /\ TypeOK /\ RowInv /\ TxInv /\ MarkedWasSent /\ FirstPublishInOrder
    /\ PendInv /\ FlushInv

(***************************************************************************)
(* The initial state is well typed.                                        *)
(***************************************************************************)
LEMMA TypeInit == Init => TypeOK
    BY MaxIdAssumption DEF Init, TypeOK, Ids, Draining

(***************************************************************************)
(* The id a drainer works on is an id.                                     *)
(***************************************************************************)
LEMMA LeastIsId ==
    ASSUME TypeOK, NEW d \in Drainers, pend[d] # {}
    PROVE  Least(pend[d]) \in Ids
    BY Zenon, LeastExists DEF TypeOK

(***************************************************************************)
(* Type correctness of every step.                                         *)
(***************************************************************************)
LEMMA TypeStep ==
    ASSUME TypeOK, PendInv, [Next]_vars
    PROVE  TypeOK'
<1> USE DEF TypeOK
<1>1. ASSUME NEW w \in Writers, NEW k \in Keys, BeginTx(w, k) PROVE TypeOK'
    BY Zenon, <1>1 DEF BeginTx, dbVars, drainVars, busVars
<1>2. ASSUME NEW w \in Writers, NEW k \in Keys, Enqueue(w, k) PROVE TypeOK'
    <2>1. nextId \in Ids /\ nextId + 1 \in 1 .. MaxId + 1
        BY <1>2, MaxIdAssumption DEF Enqueue, Ids
    <2> QED
        BY <1>2, <2>1 DEF Enqueue, drainVars, busVars
<1>3. ASSUME NEW w \in Writers, NEW k \in Keys, CommitTx(w, k) PROVE TypeOK'
    BY Zenon, <1>3 DEF CommitTx, EndTx, drainVars, busVars
<1>4. ASSUME NEW w \in Writers, NEW k \in Keys, RollbackTx(w, k) PROVE TypeOK'
    BY Zenon, <1>4 DEF RollbackTx, EndTx, drainVars, busVars
<1>5. ASSUME NEW d \in Drainers, StartPass(d) PROVE TypeOK'
    BY Zenon, <1>5 DEF StartPass, FirstBatch, Heads, Unpublished, dbVars, txVars, busVars
<1>6. ASSUME NEW d \in Drainers, NextKey(d) PROVE TypeOK'
    <2>1. keyOf[Least(todo[d])] \in Keys \cup {None}
        BY Zenon, <1>6, LeastExists DEF NextKey
    <2> QED
        BY Zenon, <1>6, <2>1 DEF NextKey, dbVars, txVars, busVars, Draining
<1>7. ASSUME NEW d \in Drainers, EndPass(d) PROVE TypeOK'
    BY Zenon, <1>7 DEF EndPass, dbVars, txVars, busVars
<1>8. ASSUME NEW d \in Flushers, NEW k \in Keys, StartFlush(d, k) PROVE TypeOK'
    BY Zenon, <1>8 DEF StartFlush, OfKey, Drainers, dbVars, txVars, busVars
<1>9. ASSUME NEW d \in Drainers, TryLock(d) PROVE TypeOK'
    BY <1>9 DEF TryLock, Draining, dbVars, txVars, busVars
<1>10. ASSUME NEW d \in Drainers, WaitLock(d) PROVE TypeOK'
    BY Zenon, <1>10 DEF WaitLock, dbVars, txVars, busVars
<1>11. ASSUME NEW d \in Drainers, GrantLock(d) PROVE TypeOK'
    BY Zenon, <1>11 DEF GrantLock, Draining, dbVars, txVars, busVars
<1>12. ASSUME NEW d \in Drainers, Pending(d) PROVE TypeOK'
    BY Zenon, <1>12 DEF Pending, FirstBatch, OfKey, Unpublished, Draining, dbVars, txVars,
        busVars
<1>13. ASSUME NEW i \in Ids, Store(i) PROVE
        sent' \subseteq Ids /\ lastSent' \in [Keys -> 0 .. MaxId]
    <2>1. i \in 0 .. MaxId
        BY MaxIdAssumption DEF Ids
    <2> QED
        BY Zenon, <1>13, <2>1 DEF Store
<1>14. ASSUME NEW d \in Drainers, Publish(d) PROVE TypeOK'
    BY Zenon, <1>13, <1>14, LeastIsId DEF Publish, Draining, dbVars, txVars
<1>15. ASSUME NEW d \in Drainers, PublishRefused(d) PROVE TypeOK'
    BY Zenon, <1>15 DEF PublishRefused, Draining, dbVars, txVars, busVars
<1>16. ASSUME NEW d \in Drainers, PublishUnacked(d) PROVE TypeOK'
    BY Zenon, <1>13, <1>16, LeastIsId DEF PublishUnacked, Draining, dbVars, txVars
<1>17. ASSUME NEW d \in Drainers, MarkPublished(d) PROVE TypeOK'
    BY Zenon, <1>17, LeastIsId DEF MarkPublished, PendInv, PendOf, Draining, txVars, busVars
<1>18. ASSUME NEW d \in Drainers, Unlock(d) PROVE lock' \in [Keys -> Drainers \cup {None}]
    BY Zenon, <1>18 DEF Unlock
<1>19. ASSUME NEW d \in Drainers, MarkFailed(d) PROVE TypeOK'
    BY Zenon, <1>18, <1>19 DEF MarkFailed, Return, txVars, busVars
<1>20. ASSUME NEW d \in Drainers, FinishKey(d) PROVE TypeOK'
    BY Zenon, <1>18, <1>20 DEF FinishKey, Return, txVars, busVars
<1>21. ASSUME NEW d \in Drainers, DbError(d) PROVE TypeOK'
    BY Zenon, <1>18, <1>21, LeastIsId DEF DbError, Abort, PendInv, PendOf, txVars, busVars
<1>22. ASSUME NEW d \in Drainers, TimeOut(d) PROVE TypeOK'
    BY Zenon, <1>18, <1>22 DEF TimeOut, Abort, txVars, busVars
<1>23. ASSUME NEW d \in Drainers, LoseSession(d) PROVE TypeOK'
    BY Zenon, <1>23 DEF LoseSession, dbVars, txVars, drainVars, busVars
<1>24. ASSUME NEW p \in Procs, Crash(p) PROVE TypeOK'
    BY Zenon, <1>24 DEF Crash, dbVars, busVars
<1>25. CASE UNCHANGED vars
    BY Zenon, <1>25 DEF vars, dbVars, txVars, drainVars, busVars
<1> QED
    BY Zenon, <1>1, <1>2, <1>3, <1>4, <1>5, <1>6, <1>7, <1>8, <1>9, <1>10, <1>11, <1>12,
       <1>14, <1>15, <1>16, <1>17, <1>19, <1>20, <1>21, <1>22, <1>23, <1>24, <1>25
       DEF Next, WriterStep, DrainStep, DrainFault

(***************************************************************************)
(* Rows and transactions.  The only steps that matter are the writers';    *)
(* a crash only rolls transactions back.                                   *)
(***************************************************************************)
LEMMA TxStep ==
    ASSUME TypeOK, RowInv, TxInv, [Next]_vars
    PROVE  RowInv' /\ TxInv'
<1> USE DEF TypeOK, RowInv, TxInv
<1>1. ASSUME NEW w \in Writers, NEW k \in Keys, BeginTx(w, k) PROVE RowInv' /\ TxInv'
    <2>1. /\ nextId' = nextId /\ keyOf' = keyOf /\ committed' = committed
          /\ txIds' = txIds /\ rowLock[k] = None /\ \A l \in Keys : rowLock[l] # w
          /\ \A l \in Keys : rowLock'[l] = IF l = k THEN w ELSE rowLock[l]
        BY Zenon, <1>1 DEF BeginTx, dbVars
    <2>2. \A v \in Writers : v # None
        BY NoneAssumption DEF Actors
    <2>3. \A l, m \in Keys : rowLock'[l] # None /\ rowLock'[l] = rowLock'[m] => l = m
        BY <2>1
    <2>4. ASSUME NEW v \in Writers, NEW i \in txIds[v]
          PROVE  \E l \in Keys : keyOf'[i] = l /\ rowLock'[l] = v
        BY <2>1, <2>2
    <2> QED
        BY <2>1, <2>3, <2>4
<1>2. ASSUME NEW w \in Writers, NEW k \in Keys, Enqueue(w, k) PROVE RowInv' /\ TxInv'
    <2>1. nextId \in Ids /\ nextId \in Int /\ nextId \notin committed
        BY <1>2, MaxIdAssumption DEF Enqueue, Ids
    <2>2. \A i \in Ids : i \in Int
        BY Zenon, IdSets
    <2>3. \A i \in committed : keyOf'[i] = keyOf[i] /\ i < nextId /\ i < nextId'
        BY <1>2, <2>1, <2>2 DEF Enqueue
    <2>4. RowInv'
        BY Zenon, <1>2, <2>3 DEF Enqueue
    <2>5. ASSUME NEW v \in Writers, NEW i \in txIds[v]
          PROVE  i \in Ids /\ keyOf'[i] = keyOf[i] /\ i < nextId /\ i < nextId'
        BY <1>2, <2>1, <2>2 DEF Enqueue
    <2>6. ASSUME NEW v \in Writers, NEW i \in txIds'[v]
          PROVE  /\ i < nextId'
                 /\ \E l \in Keys : keyOf'[i] = l /\ rowLock'[l] = v
                 /\ \A j \in committed' : keyOf'[j] = keyOf'[i] => j < i
        <3>1. CASE i \in txIds[v]
            BY <1>2, <2>3, <2>5, <3>1 DEF Enqueue
        <3>2. CASE i \notin txIds[v]
            <4>1. i = nextId /\ v = w /\ keyOf'[i] = k
                BY <1>2, <2>1, <2>6, <3>2 DEF Enqueue
            <4> QED
                BY <1>2, <2>1, <2>3, <4>1 DEF Enqueue
        <3> QED
            BY Zenon, <3>1, <3>2
    <2> QED
        BY <1>2, <2>4, <2>6 DEF Enqueue
<1>3. ASSUME NEW w \in Writers, NEW k \in Keys, EndTx(w, k),
             committed' = committed \/ committed' = committed \cup txIds[w]
      PROVE  RowInv' /\ TxInv'
    <2>1. /\ nextId' = nextId /\ keyOf' = keyOf
          /\ \A l \in Keys : rowLock'[l] = IF l = k THEN None ELSE rowLock[l]
          /\ \A v \in Writers : txIds'[v] = IF v = w THEN {} ELSE txIds[v]
        BY Zenon, <1>3 DEF EndTx
    <2>2. RowInv'
        BY <1>3, <2>1
    <2>3. ASSUME NEW v \in Writers, NEW i \in txIds'[v]
          PROVE  /\ i < nextId'
                 /\ \E l \in Keys : keyOf'[i] = l /\ rowLock'[l] = v
                 /\ \A j \in committed' : keyOf'[j] = keyOf'[i] => j < i
        <3>1. v # w /\ i \in txIds[v]
            BY Zenon, <2>1, <2>3
        <3>2. PICK l \in Keys : keyOf[i] = l /\ rowLock[l] = v
            BY Zenon, <3>1
        <3>3. l # k
            BY Zenon, <1>3, <3>1, <3>2 DEF EndTx
        <3>4. \A j \in txIds[w] : keyOf[j] # l
            BY <3>1, <3>2
        <3> QED
            BY Zenon, <1>3, <2>1, <3>1, <3>2, <3>3, <3>4
    <2>4. ASSUME NEW l \in Keys, NEW m \in Keys, rowLock'[l] # None, rowLock'[l] = rowLock'[m]
          PROVE  l = m
        <3>1. l # k /\ m # k
            BY Zenon, <2>1, <2>4
        <3>2. rowLock[l] # None /\ rowLock[l] = rowLock[m]
            BY Zenon, <2>1, <2>4, <3>1
        <3> QED
            BY Zenon, <3>2
    <2> QED
        BY Zenon, <2>2, <2>3, <2>4
<1>4. ASSUME NEW p \in Procs, Crash(p) PROVE RowInv' /\ TxInv'
    <2>1. /\ nextId' = nextId /\ keyOf' = keyOf /\ committed' = committed
          /\ \A l \in Keys : rowLock'[l] =
                IF rowLock[l] # None /\ Home[rowLock[l]] = p THEN None ELSE rowLock[l]
          /\ \A v \in Writers : txIds'[v] =
                IF v # None /\ Home[v] = p THEN {} ELSE txIds[v]
        BY Zenon, <1>4 DEF Crash, dbVars
    <2>2. RowInv'
        BY Zenon, <2>1
    <2>3. \A l, m \in Keys : rowLock'[l] # None /\ rowLock'[l] = rowLock'[m] => l = m
        BY <2>1
    <2>4. ASSUME NEW v \in Writers, NEW i \in txIds'[v]
          PROVE  /\ i < nextId'
                 /\ \E l \in Keys : keyOf'[i] = l /\ rowLock'[l] = v
                 /\ \A j \in committed' : keyOf'[j] = keyOf'[i] => j < i
        <3>1. i \in txIds[v] /\ ~(v # None /\ Home[v] = p)
            BY Zenon, <2>1, <2>4
        <3> QED
            BY <2>1, <3>1
    <2> QED
        BY Zenon, <2>2, <2>3, <2>4
<1>5. CASE UNCHANGED <<nextId, keyOf, committed, rowLock, txIds>>
    BY Zenon, <1>5
<1>6. ASSUME NEW d \in Drainers, StartPass(d) \/ DrainStep(d) \/ DrainFault(d)
      PROVE  UNCHANGED <<nextId, keyOf, committed, rowLock, txIds>>
    BY Zenon, <1>6 DEF StartPass, DrainStep, DrainFault, NextKey, EndPass, TryLock, WaitLock,
        GrantLock, Pending, Publish, MarkPublished, FinishKey, MarkFailed, TimeOut,
        PublishRefused, DbError, PublishUnacked, LoseSession, Return, Abort, dbVars,
        txVars
<1>7. ASSUME NEW d \in Flushers, NEW k \in Keys, StartFlush(d, k)
      PROVE  UNCHANGED <<nextId, keyOf, committed, rowLock, txIds>>
    BY Zenon, <1>7 DEF StartFlush, dbVars, txVars
<1>8. CASE UNCHANGED vars
    BY Zenon, <1>5, <1>8 DEF vars, dbVars, txVars
<1> QED
    BY Zenon, <1>1, <1>2, <1>3, <1>4, <1>5, <1>6, <1>7, <1>8
       DEF Next, WriterStep, CommitTx, RollbackTx

(***************************************************************************)
(* What the broker has.  Publish and PublishUnacked store a record behind  *)
(* which there is no gap; a commit adds records only above those stored.   *)
(***************************************************************************)
LEMMA SentStep ==
    ASSUME TypeOK, RowInv, TxInv, MarkedWasSent, FirstPublishInOrder, PendInv, [Next]_vars
    PROVE  MarkedWasSent' /\ FirstPublishInOrder'
<1> USE DEF TypeOK, MarkedWasSent, FirstPublishInOrder, OfKey
<1>1. ASSUME NEW d \in Drainers, pend[d] # {}, Store(Least(pend[d])),
             UNCHANGED <<keyOf, committed, marked>>
      PROVE  MarkedWasSent' /\ FirstPublishInOrder'
    <2> DEFINE h == Least(pend[d])
    <2>1. h \in pend[d] /\ \A j \in pend[d] : h =< j
        BY Zenon, <1>1, LeastExists
    <2>2. h \in committed /\ keyOf[h] = cur[d] /\ h \in Ids
        BY Zenon, <2>1 DEF PendInv, PendOf
    <2>3. \A j \in Ids : j \in Int
        BY Zenon, IdSets
    <2>4. ASSUME NEW j \in committed, keyOf[j] = keyOf[h], j < h PROVE j \in sent
        <3>1. j \in sent \/ j \in pend[d]
            BY Zenon, <2>1, <2>2, <2>4 DEF PendInv, PendOf
        <3>2. j \notin pend[d]
            BY <2>1, <2>2, <2>3, <2>4
        <3> QED
            BY Zenon, <3>1, <3>2
    <2>5. sent' = sent \cup {h}
        BY Zenon, <1>1 DEF Store
    <2> HIDE DEF h
    <2> QED
        BY Zenon, <1>1, <2>2, <2>4, <2>5
<1>2. ASSUME NEW w \in Writers, NEW k \in Keys, Enqueue(w, k)
      PROVE  MarkedWasSent' /\ FirstPublishInOrder'
    <2>1. nextId \notin committed
        BY <1>2, MaxIdAssumption DEF Enqueue, RowInv, Ids
    <2>2. \A i \in committed : keyOf'[i] = keyOf[i]
        BY Zenon, <1>2, <2>1 DEF Enqueue
    <2> QED
        BY Zenon, <1>2, <2>2 DEF Enqueue, busVars
<1>3. ASSUME NEW w \in Writers, NEW k \in Keys, CommitTx(w, k)
      PROVE  MarkedWasSent' /\ FirstPublishInOrder'
    <2>1. committed' = committed \cup txIds[w] /\ UNCHANGED <<keyOf, marked, sent>>
        BY Zenon, <1>3 DEF CommitTx, EndTx, busVars
    <2>2. \A i \in Ids : i \in Int
        BY Zenon, IdSets
    <2>3. ASSUME NEW i \in sent, NEW j \in txIds[w], keyOf[j] = keyOf[i] PROVE ~(j < i)
        BY <2>2, <2>3 DEF TxInv
    <2> QED
        BY Zenon, <2>1, <2>3
<1>4. ASSUME NEW d \in Drainers, marked' = marked \cup {Least(pend[d])}, pc[d] = "mark",
             UNCHANGED <<keyOf, committed, sent>>
      PROVE  MarkedWasSent' /\ FirstPublishInOrder'
    BY Zenon, <1>4 DEF PendInv, PendOf
<1>5. CASE UNCHANGED <<keyOf, committed, marked, sent>>
    BY Zenon, <1>5
<1>6. ASSUME NEW d \in Drainers, DrainStep(d) \/ DrainFault(d)
      PROVE  MarkedWasSent' /\ FirstPublishInOrder'
    <2>1. CASE Publish(d) \/ PublishUnacked(d)
        BY Zenon, <1>1, <2>1 DEF Publish, PublishUnacked, dbVars
    <2>2. CASE MarkPublished(d)
        BY Zenon, <1>4, <2>2 DEF MarkPublished, busVars
    <2>3. CASE DbError(d)
        BY Zenon, <1>4, <1>5, <2>3 DEF DbError, Abort, busVars
    <2>4. CASE NextKey(d) \/ EndPass(d) \/ TryLock(d) \/ WaitLock(d) \/ GrantLock(d)
               \/ Pending(d) \/ FinishKey(d) \/ MarkFailed(d) \/ TimeOut(d)
               \/ PublishRefused(d) \/ LoseSession(d)
        BY Zenon, <1>5, <2>4 DEF NextKey, EndPass, TryLock, WaitLock, GrantLock, Pending,
            FinishKey, MarkFailed, TimeOut, PublishRefused, LoseSession, Return, Abort,
            dbVars, busVars
    <2> QED
        BY Zenon, <1>6, <2>1, <2>2, <2>3, <2>4 DEF DrainStep, DrainFault
<1>7. ASSUME NEW w \in Writers, NEW k \in Keys, BeginTx(w, k) \/ RollbackTx(w, k)
      PROVE  MarkedWasSent' /\ FirstPublishInOrder'
    BY Zenon, <1>5, <1>7 DEF BeginTx, RollbackTx, EndTx, dbVars, busVars
<1>8. ASSUME NEW d \in Drainers, StartPass(d) PROVE MarkedWasSent' /\ FirstPublishInOrder'
    BY Zenon, <1>5, <1>8 DEF StartPass, dbVars, busVars
<1>9. ASSUME NEW d \in Flushers, NEW k \in Keys, StartFlush(d, k)
      PROVE  MarkedWasSent' /\ FirstPublishInOrder'
    BY Zenon, <1>5, <1>9 DEF StartFlush, dbVars, busVars
<1>10. ASSUME NEW p \in Procs, Crash(p) PROVE MarkedWasSent' /\ FirstPublishInOrder'
    BY Zenon, <1>5, <1>10 DEF Crash, dbVars, busVars
<1>11. CASE UNCHANGED vars
    BY Zenon, <1>5, <1>11 DEF vars, dbVars, busVars
<1> QED
    BY Zenon, <1>2, <1>3, <1>6, <1>7, <1>8, <1>9, <1>10, <1>11 DEF Next, WriterStep

(***************************************************************************)
(* Steps only ever add: what the broker has and what is committed grow, a  *)
(* committed row keeps its key, and a newly committed row has a higher id  *)
(* than every committed row of its key.                                    *)
(***************************************************************************)
Grow ==
    /\ sent \subseteq sent' /\ committed \subseteq committed'
    /\ \A i \in committed : keyOf'[i] = keyOf[i]
    /\ \A i \in committed, j \in committed' :
        keyOf'[j] = keyOf[i] /\ j \notin committed => i < j

\* A step that does not concern drainer d
Frame(d) ==
    /\ pc'[d] = pc[d] /\ cur'[d] = cur[d] /\ todo'[d] = todo[d]
    /\ pend'[d] = pend[d] /\ full'[d] = full[d]

(***************************************************************************)
(* Every step of the outbox grows in the sense above.                      *)
(***************************************************************************)
LEMMA GrowStep ==
    ASSUME TypeOK, RowInv, TxInv, [Next]_vars
    PROVE  Grow
<1> USE DEF TypeOK, Grow
<1>1. ASSUME NEW w \in Writers, NEW k \in Keys, Enqueue(w, k) PROVE Grow
    <2>1. nextId \notin committed
        BY <1>1, MaxIdAssumption DEF Enqueue, RowInv, Ids
    <2> QED
        BY Zenon, <1>1, <2>1 DEF Enqueue, busVars
<1>2. ASSUME NEW w \in Writers, NEW k \in Keys, CommitTx(w, k) PROVE Grow
    <2>1. committed' = committed \cup txIds[w] /\ UNCHANGED <<keyOf, sent>>
        BY Zenon, <1>2 DEF CommitTx, EndTx, busVars
    <2> QED
        BY Zenon, <2>1 DEF TxInv
<1>3. CASE UNCHANGED <<keyOf, committed>> /\ sent \subseteq sent'
    BY Zenon, <1>3
<1>4. ASSUME NEW d \in Drainers, StartPass(d) \/ DrainStep(d) \/ DrainFault(d)
      PROVE  UNCHANGED <<keyOf, committed>> /\ sent \subseteq sent'
    BY Zenon, <1>4 DEF StartPass, DrainStep, DrainFault, NextKey, EndPass, TryLock, WaitLock,
        GrantLock, Pending, Publish, MarkPublished, FinishKey, MarkFailed, TimeOut,
        PublishRefused, DbError, PublishUnacked, LoseSession, Return, Abort, Store,
        dbVars, busVars
<1>5. ASSUME NEW w \in Writers, NEW k \in Keys, BeginTx(w, k) \/ RollbackTx(w, k)
      PROVE  Grow
    BY Zenon, <1>3, <1>5 DEF BeginTx, RollbackTx, EndTx, dbVars, busVars
<1>6. ASSUME NEW d \in Flushers, NEW k \in Keys, StartFlush(d, k) PROVE Grow
    BY Zenon, <1>3, <1>6 DEF StartFlush, dbVars, busVars
<1>7. ASSUME NEW p \in Procs, Crash(p) PROVE Grow
    BY Zenon, <1>3, <1>7 DEF Crash, dbVars, busVars
<1>8. CASE UNCHANGED vars
    BY Zenon, <1>3, <1>8 DEF vars, dbVars, busVars
<1> QED
    BY Zenon, <1>1, <1>2, <1>3, <1>4, <1>5, <1>6, <1>7, <1>8 DEF Next, WriterStep

(***************************************************************************)
(* A step that does not concern a drainer keeps its part of the invariant. *)
(***************************************************************************)
LEMMA PendFrame ==
    ASSUME TypeOK, TypeOK', Grow, NEW d \in Drainers, PendOf(d), Frame(d)
    PROVE  PendOf(d)'
<1>1. \A i \in Ids : i \in Int
    BY Zenon, IdSets
<1>2. ASSUME NEW i \in pend[d], NEW j \in committed', keyOf'[j] = cur[d], j < i
      PROVE  j \in sent' \/ j \in pend[d]
    <2>1. i \in committed /\ keyOf[i] = cur[d] /\ i \in Ids /\ j \in Ids
        BY Zenon DEF PendOf, TypeOK
    <2>2. CASE j \in committed
        BY Zenon, <1>2, <2>1, <2>2 DEF PendOf, Grow
    <2>3. CASE j \notin committed
        <3>1. i < j
            BY Zenon, <1>2, <2>1, <2>3 DEF Grow
        <3> QED
            BY <1>1, <1>2, <2>1, <3>1
    <2> QED
        BY Zenon, <2>2, <2>3
<1>3. \A i \in pend[d] : i \in committed' /\ keyOf'[i] = cur[d]
    BY Zenon DEF PendOf, Grow
<1>4. /\ todo[d] \subseteq committed'
      /\ pc[d] \notin {"idle", "next"} => cur[d] \in Keys
      /\ pc[d] \notin {"publish", "mark", "refused"} => pend[d] = {}
      /\ pc[d] = "mark" => pend[d] # {} /\ Least(pend[d]) \in sent'
    BY Zenon DEF PendOf, Grow
<1>5. Least(pend'[d]) = Least(pend[d])
    BY Zenon DEF Frame
<1> QED
    BY Zenon, <1>2, <1>3, <1>4, <1>5 DEF PendOf, Frame

(***************************************************************************)
(* A drainer that ends up with no batch keeps its part of the invariant.   *)
(***************************************************************************)
LEMMA PendEmpty ==
    ASSUME Grow, NEW d \in Drainers, PendOf(d), pend'[d] = {},
           todo'[d] \subseteq todo[d] \/ todo'[d] \subseteq committed,
           pc'[d] # "mark", pc'[d] \notin {"idle", "next"} => cur'[d] \in Keys
    PROVE  PendOf(d)'
    BY Zenon DEF PendOf, Grow

(***************************************************************************)
(* The batch of every drainer stays gap-free.                              *)
(***************************************************************************)
LEMMA PendStep ==
    ASSUME TypeOK, TypeOK', RowInv, TxInv, MarkedWasSent, PendInv, Grow, [Next]_vars
    PROVE  PendInv'
<1>1. ASSUME NEW d \in Drainers PROVE PendOf(d)
    BY Zenon DEF PendInv
<1>2. ASSUME NEW d \in Drainers, NEW e \in Drainers, e # d,
             StartPass(d) \/ DrainStep(d) \/ DrainFault(d)
      PROVE  Frame(e)
    BY ZenonT(60), <1>2 DEF TypeOK, Frame, StartPass, DrainStep, DrainFault, NextKey, EndPass,
        TryLock, WaitLock, GrantLock, Pending, Publish, MarkPublished, FinishKey,
        MarkFailed, TimeOut, PublishRefused, DbError, PublishUnacked, LoseSession,
        Return, Abort, drainVars
<1>3. ASSUME NEW d \in Drainers, StartPass(d) PROVE PendOf(d)'
    <2>1. /\ pend' = pend /\ pc'[d] = "next" /\ pc[d] = "idle"
          /\ todo'[d] = FirstBatch(Heads)
        BY Zenon, <1>3 DEF StartPass, TypeOK
    <2>2. FirstBatch(Heads) \subseteq committed
        BY Zenon DEF FirstBatch, Heads, Unpublished
    <2> QED
        BY Zenon, <1>1, <2>1, <2>2, PendEmpty DEF PendOf
<1>4. ASSUME NEW d \in Drainers, NextKey(d) PROVE PendOf(d)'
    <2>1. /\ pend' = pend /\ pc'[d] = "lock" /\ pc[d] = "next" /\ todo[d] # {}
          /\ todo'[d] \subseteq todo[d] /\ cur'[d] = keyOf[Least(todo[d])]
        BY Zenon, <1>4 DEF NextKey, TypeOK
    <2>2. Least(todo[d]) \in committed
        BY Zenon, <1>1, <2>1, LeastExists DEF TypeOK, PendOf
    <2>3. cur'[d] \in Keys
        BY Zenon, <2>1, <2>2 DEF RowInv
    <2> QED
        BY Zenon, <1>1, <2>1, <2>3, PendEmpty DEF PendOf
<1>5. ASSUME NEW d \in Drainers, EndPass(d) \/ WaitLock(d) PROVE PendOf(d)'
    <2>1. /\ pend' = pend /\ todo' = todo /\ cur' = cur /\ pc[d] \in {"next", "lock"}
          /\ pc'[d] = "idle" \/ (pc[d] = "lock" /\ pc'[d] = "wait")
        BY Zenon, <1>5 DEF EndPass, WaitLock, TypeOK
    <2> QED
        BY Zenon, <1>1, <2>1, PendEmpty DEF PendOf
<1>6. ASSUME NEW d \in Drainers, TryLock(d) \/ GrantLock(d) PROVE PendOf(d)'
    <2>1. /\ pend' = pend /\ todo' = todo /\ cur' = cur /\ pc[d] \in {"lock", "wait"}
          /\ pc'[d] \in {"read", "next"}
        BY Zenon, <1>6 DEF TryLock, GrantLock, TypeOK
    <2> QED
        BY Zenon, <1>1, <2>1, PendEmpty DEF PendOf
<1>7. ASSUME NEW d \in Drainers, Pending(d) PROVE PendOf(d)'
    <2> DEFINE S == OfKey(Unpublished, cur[d])
    <2>1. /\ pend'[d] = FirstBatch(S) /\ cur' = cur /\ todo' = todo /\ pc[d] = "read"
          /\ pc'[d] = "publish" /\ UNCHANGED <<keyOf, committed, marked, sent>>
        BY Zenon, <1>7 DEF Pending, TypeOK, dbVars, busVars
    <2>2. S \in SUBSET Ids /\ FirstBatch(S) \subseteq S
        BY Zenon DEF OfKey, Unpublished, TypeOK, FirstBatch
    <2>3. ASSUME NEW i \in FirstBatch(S), NEW j \in committed, keyOf[j] = cur[d], j < i
          PROVE  j \in sent \/ j \in FirstBatch(S)
        <3>1. CASE j \in marked
            BY Zenon, <3>1 DEF MarkedWasSent
        <3>2. CASE j \notin marked
            <4>1. j \in S
                BY Zenon, <2>3, <3>2 DEF OfKey, Unpublished
            <4> HIDE DEF S
            <4> QED
                BY Zenon, <2>2, <2>3, <4>1, FirstBatchIsPrefix
        <3> QED
            BY Zenon, <3>1, <3>2
    <2>4. \A i \in FirstBatch(S) : i \in committed /\ keyOf[i] = cur[d]
        BY Zenon, <2>2 DEF OfKey, Unpublished
    <2> HIDE DEF S
    <2> QED
        BY ZenonT(60), <1>1, <2>1, <2>3, <2>4 DEF PendOf
<1>8. ASSUME NEW d \in Drainers, Publish(d) \/ PublishUnacked(d) \/ PublishRefused(d)
      PROVE  PendOf(d)'
    <2>1. /\ pend' = pend /\ cur' = cur /\ todo' = todo /\ pc[d] = "publish"
          /\ pend[d] # {} /\ UNCHANGED <<keyOf, committed>> /\ sent \subseteq sent'
          /\ \/ pc'[d] = "refused"
             \/ pc'[d] = "mark" /\ Least(pend[d]) \in sent'
        BY Zenon, <1>8 DEF Publish, PublishUnacked, PublishRefused, Store, TypeOK, dbVars,
            busVars
    <2>2. Least(pend'[d]) = Least(pend[d])
        BY Zenon, <2>1
    <2> QED
        BY Zenon, <1>1, <2>1, <2>2 DEF PendOf
<1>9. ASSUME NEW d \in Drainers, MarkPublished(d) PROVE PendOf(d)'
    <2>1. /\ pend'[d] = pend[d] \ {Least(pend[d])} /\ cur' = cur /\ todo' = todo
          /\ pc[d] = "mark" /\ pc'[d] = "publish"
          /\ UNCHANGED <<keyOf, committed, sent>>
        BY Zenon, <1>9 DEF MarkPublished, TypeOK, busVars
    <2>2. Least(pend[d]) \in sent
        BY Zenon, <1>1, <2>1 DEF PendOf
    <2>3. ASSUME NEW i \in pend'[d], NEW j \in committed, keyOf[j] = cur[d], j < i
          PROVE  j \in sent \/ j \in pend'[d]
        BY Zenon, <1>1, <2>1, <2>2, <2>3 DEF PendOf
    <2>4. \A i \in pend'[d] : i \in committed /\ keyOf[i] = cur[d]
        BY Zenon, <1>1, <2>1 DEF PendOf
    <2> QED
        BY Zenon, <1>1, <2>1, <2>3, <2>4 DEF PendOf
<1>10. ASSUME NEW d \in Drainers, FinishKey(d) \/ MarkFailed(d) \/ TimeOut(d) \/ DbError(d)
       PROVE  PendOf(d)'
    <2>1. /\ pend'[d] = {} /\ pc'[d] \in {"idle", "next"}
          /\ todo'[d] = todo[d] \/ todo'[d] = {}
        <3>1. CASE \E ok \in BOOLEAN : Return(d, ok)
            BY Zenon, <3>1 DEF Return, TypeOK
        <3>2. CASE Abort(d)
            BY Zenon, <3>2 DEF Abort, TypeOK
        <3>3. FinishKey(d) => Return(d, ~full[d]) /\ (~full[d]) \in BOOLEAN
            BY Zenon DEF FinishKey, TypeOK
        <3>4. MarkFailed(d) => Return(d, FALSE)
            BY Zenon DEF MarkFailed
        <3>5. TimeOut(d) \/ DbError(d) => Abort(d)
            BY Zenon DEF TimeOut, DbError
        <3> QED
            BY Zenon, <1>10, <3>1, <3>2, <3>3, <3>4, <3>5
    <2> QED
        BY Zenon, <1>1, <2>1, PendEmpty
<1>11. ASSUME NEW d \in Drainers, LoseSession(d) PROVE PendOf(d)'
    BY Zenon, <1>1, <1>11, PendFrame DEF LoseSession, Frame, drainVars
<1>12. ASSUME NEW d \in Drainers, StartPass(d) \/ DrainStep(d) \/ DrainFault(d)
       PROVE  PendInv'
    <2>1. PendOf(d)'
        BY Zenon, <1>3, <1>4, <1>5, <1>6, <1>7, <1>8, <1>9, <1>10, <1>11, <1>12
           DEF DrainStep, DrainFault
    <2>2. ASSUME NEW e \in Drainers, e # d PROVE PendOf(e)'
        BY Zenon, <1>1, <1>2, <1>12, <2>2, PendFrame
    <2> QED
        BY Zenon, <2>1, <2>2 DEF PendInv
<1>13. ASSUME NEW d \in Flushers, NEW k \in Keys, StartFlush(d, k) PROVE PendInv'
    <2>1. d \in Drainers
        BY Zenon DEF Drainers
    <2>2. /\ pend' = pend /\ todo' = todo /\ pc[d] = "idle" /\ pc'[d] = "lock"
          /\ cur'[d] = k
        BY Zenon, <1>13, <2>1 DEF StartFlush, TypeOK
    <2>3. PendOf(d)'
        BY Zenon, <1>1, <2>1, <2>2, PendEmpty DEF PendOf
    <2>4. ASSUME NEW e \in Drainers, e # d PROVE Frame(e)
        BY Zenon, <1>13, <2>4 DEF StartFlush, Frame, TypeOK
    <2> QED
        BY Zenon, <1>1, <2>3, <2>4, PendFrame DEF PendInv
<1>14. ASSUME NEW p \in Procs, Crash(p), NEW d \in Drainers PROVE PendOf(d)'
    <2>1. Frame(d) \/ (pend'[d] = {} /\ todo'[d] = {} /\ pc'[d] = "idle")
        BY Zenon, <1>14 DEF Crash, Frame
    <2> QED
        BY Zenon, <1>1, <2>1, PendFrame, PendEmpty
<1>15. CASE UNCHANGED drainVars
    BY Zenon, <1>1, <1>15, PendFrame DEF drainVars, Frame, PendInv
<1>16. ASSUME NEW w \in Writers, WriterStep(w) PROVE UNCHANGED drainVars
    BY Zenon, <1>16 DEF WriterStep, BeginTx, Enqueue, CommitTx, RollbackTx, EndTx
<1> QED
    BY Zenon, <1>12, <1>13, <1>14, <1>15, <1>16 DEF Next, vars, PendInv

(***************************************************************************)
(* What a flusher owes.                                                    *)
(***************************************************************************)
LEMMA FlushFrame ==
    ASSUME Grow, NEW f \in Flushers, FlushOf(f), Frame(f),
           flushed'[f] = flushed[f], owed'[f] = owed[f]
    PROVE  FlushOf(f)'
    BY Zenon DEF FlushOf, Frame, Grow

(***************************************************************************)
(* The debts of every flusher are kept.                                    *)
(***************************************************************************)
LEMMA FlushStep ==
    ASSUME TypeOK, TypeOK', MarkedWasSent, PendInv, FlushInv, Grow, [Next]_vars
    PROVE  FlushInv'
<1>1. ASSUME NEW f \in Flushers PROVE f \in Drainers /\ FlushOf(f) /\ PendOf(f)
    BY Zenon DEF FlushInv, PendInv, Drainers
<1>2. ASSUME NEW f \in Flushers, flushed'[f] = FALSE \/ flushed'[f] = flushed[f],
             owed' = owed, pc'[f] = "idle",
             flushed'[f] => pc[f] = "idle"
      PROVE  FlushOf(f)'
    BY Zenon, <1>1, <1>2 DEF FlushOf, Grow
<1>3. ASSUME NEW f \in Flushers, flushed' = flushed, owed' = owed, cur'[f] = cur[f],
             pc[f] # "idle", pc'[f] \notin {"idle", "next", "publish", "mark"}
      PROVE  FlushOf(f)'
    BY Zenon, <1>1, <1>3 DEF FlushOf, Grow
<1>4. ASSUME NEW f \in Flushers, Pending(f) PROVE FlushOf(f)'
    <2> DEFINE S == OfKey(Unpublished, cur[f])
    <2>1. /\ pend'[f] = FirstBatch(S) /\ cur' = cur /\ pc[f] = "read"
          /\ full'[f] = (Cardinality(FirstBatch(S)) = Batch)
          /\ flushed' = flushed /\ owed' = owed /\ pc'[f] = "publish"
          /\ UNCHANGED <<keyOf, committed, marked, sent>>
        BY Zenon, <1>1, <1>4 DEF Pending, TypeOK, dbVars, busVars
    <2>2. S \in SUBSET Ids
        BY Zenon DEF OfKey, Unpublished, TypeOK
    <2>3. ~full'[f] => pend'[f] = S
        <3> HIDE DEF S
        <3> QED
            BY Zenon, <2>1, <2>2, ShortBatchIsAll
    <2>4. owed[f] \subseteq marked \cup S
        BY Zenon, <1>1, <2>1 DEF FlushOf, OfKey, Unpublished
    <2> HIDE DEF S
    <2> QED
        BY Zenon, <1>1, <2>1, <2>3, <2>4 DEF FlushOf, MarkedWasSent
<1>5. ASSUME NEW f \in Flushers, Publish(f) PROVE FlushOf(f)'
    <2>1. /\ pend' = pend /\ cur' = cur /\ full' = full /\ flushed' = flushed
          /\ owed' = owed /\ pc[f] = "publish" /\ pc'[f] = "mark"
        BY Zenon, <1>1, <1>5 DEF Publish, TypeOK
    <2> QED
        BY Zenon, <1>1, <2>1 DEF FlushOf, Grow
<1>6. ASSUME NEW f \in Flushers, MarkPublished(f) PROVE FlushOf(f)'
    <2>1. /\ pend'[f] = pend[f] \ {Least(pend[f])} /\ cur' = cur /\ full' = full
          /\ flushed' = flushed /\ owed' = owed /\ pc[f] = "mark"
          /\ pc'[f] = "publish" /\ UNCHANGED <<keyOf, committed, sent>>
        BY Zenon, <1>1, <1>6 DEF MarkPublished, TypeOK, busVars
    <2>2. Least(pend[f]) \in sent
        BY Zenon, <1>1, <2>1 DEF PendOf
    <2> QED
        BY Zenon, <1>1, <2>1, <2>2 DEF FlushOf
<1>7. ASSUME NEW f \in Flushers, FinishKey(f) PROVE FlushOf(f)'
    <2>1. /\ pc[f] = "publish" /\ pend[f] = {} /\ owed' = owed /\ sent' = sent
          /\ flushed'[f] = ~full[f]
        BY Zenon, <1>7 DEF FinishKey, Return, busVars
    <2>2. pc'[f] = "idle"
        BY Zenon, <1>1, <1>7, KindsAssumption DEF FinishKey, Return, TypeOK
    <2>3. ~full[f] => owed[f] \subseteq sent
        BY Zenon, <1>1, <2>1 DEF FlushOf
    <2> QED
        BY Zenon, <2>1, <2>2, <2>3 DEF FlushOf
<1>8. ASSUME NEW f \in Flushers, MarkFailed(f) PROVE FlushOf(f)'
    <2>1. owed' = owed /\ flushed'[f] = FALSE
        BY Zenon, <1>8 DEF MarkFailed, Return
    <2>2. pc'[f] = "idle"
        BY Zenon, <1>1, <1>8, KindsAssumption DEF MarkFailed, Return, TypeOK
    <2> QED
        BY Zenon, <1>2, <2>1, <2>2
<1>9. ASSUME NEW f \in Flushers, TimeOut(f) \/ DbError(f) PROVE FlushOf(f)'
    <2>1. owed' = owed /\ flushed' = flushed /\ pc'[f] = "idle" /\ pc[f] # "idle"
        BY Zenon, <1>1, <1>9 DEF TimeOut, DbError, Abort, TypeOK
    <2>2. ~flushed[f]
        BY Zenon, <1>1, <2>1 DEF FlushOf
    <2> QED
        BY Zenon, <1>2, <2>1, <2>2
<1>10. ASSUME NEW f \in Flushers, WaitLock(f) \/ GrantLock(f) \/ PublishRefused(f)
                                  \/ PublishUnacked(f)
       PROVE  FlushOf(f)'
    <2>1. flushed' = flushed /\ owed' = owed /\ cur' = cur /\ pc[f] # "idle"
          /\ pc'[f] \in {"wait", "read", "refused"}
        BY Zenon, <1>1, <1>10 DEF WaitLock, GrantLock, PublishRefused, PublishUnacked, TypeOK
    <2> QED
        BY Zenon, <1>3, <2>1
<1>11. ASSUME NEW f \in Flushers, LoseSession(f) PROVE FlushOf(f)'
    BY Zenon, <1>1, <1>11, FlushFrame DEF LoseSession, Frame, drainVars
<1>12. ASSUME NEW f \in Flushers PROVE ~(StartPass(f) \/ NextKey(f) \/ EndPass(f) \/ TryLock(f))
    BY Zenon, <1>1, KindsAssumption DEF FlushOf, StartPass, NextKey, EndPass, TryLock
<1>13. ASSUME NEW d \in Drainers, StartPass(d) \/ DrainStep(d) \/ DrainFault(d)
       PROVE  FlushInv'
    <2>1. ASSUME NEW f \in Flushers, f = d PROVE FlushOf(f)'
        BY Zenon, <1>4, <1>5, <1>6, <1>7, <1>8, <1>9, <1>10, <1>11, <1>12, <1>13, <2>1
           DEF DrainStep, DrainFault
    <2>2. ASSUME NEW f \in Flushers, f # d
          PROVE  Frame(f) /\ flushed'[f] = flushed[f] /\ owed'[f] = owed[f]
        <3>1. f \in Drainers
            BY Zenon, <1>1
        <3>2. CASE FinishKey(d) \/ MarkFailed(d)
            BY ZenonT(60), <2>2, <3>1, <3>2 DEF TypeOK, Frame, FinishKey, MarkFailed, Return
        <3>3. CASE TimeOut(d) \/ DbError(d)
            BY ZenonT(60), <2>2, <3>1, <3>3 DEF TypeOK, Frame, TimeOut, DbError, Abort
        <3>4. CASE ~(FinishKey(d) \/ MarkFailed(d) \/ TimeOut(d) \/ DbError(d))
            BY ZenonT(60), <1>13, <2>2, <3>1, <3>4 DEF TypeOK, Frame, StartPass, DrainStep,
                DrainFault, NextKey, EndPass, TryLock, WaitLock, GrantLock, Pending,
                Publish, MarkPublished, PublishRefused, PublishUnacked, LoseSession,
                drainVars
        <3> QED
            BY Zenon, <3>2, <3>3, <3>4
    <2> QED
        BY Zenon, <1>1, <2>1, <2>2, FlushFrame DEF FlushInv
<1>14. ASSUME NEW d \in Flushers, NEW k \in Keys, StartFlush(d, k) PROVE FlushInv'
    <2>1. d \in Drainers
        BY Zenon, <1>1
    <2>2. /\ pc'[d] = "lock" /\ cur'[d] = k /\ ~flushed'[d]
          /\ owed'[d] = OfKey(committed, k) /\ UNCHANGED <<keyOf, committed>>
        BY Zenon, <1>14, <2>1 DEF StartFlush, TypeOK, dbVars
    <2>3. FlushOf(d)'
        BY Zenon, <2>2 DEF FlushOf, OfKey
    <2>4. ASSUME NEW f \in Flushers, f # d
          PROVE  Frame(f) /\ flushed'[f] = flushed[f] /\ owed'[f] = owed[f]
        BY Zenon, <1>1, <1>14, <2>1, <2>4 DEF StartFlush, Frame, TypeOK
    <2> QED
        BY Zenon, <1>1, <2>3, <2>4, FlushFrame DEF FlushInv
<1>15. ASSUME NEW p \in Procs, Crash(p), NEW f \in Flushers PROVE FlushOf(f)'
    <2>1. owed' = owed
        BY Zenon, <1>15 DEF Crash
    <2>2. CASE f # None /\ Home[f] = p
        <3>1. pc'[f] = "idle" /\ flushed'[f] = FALSE
            BY Zenon, <1>1, <1>15, <2>2 DEF Crash
        <3> QED
            BY Zenon, <1>2, <2>1, <3>1
    <2>3. CASE ~(f # None /\ Home[f] = p)
        <3>1. Frame(f) /\ flushed'[f] = flushed[f]
            BY Zenon, <1>1, <1>15, <2>3 DEF Crash, Frame
        <3> QED
            BY Zenon, <1>1, <2>1, <3>1, FlushFrame
    <2> QED
        BY Zenon, <2>2, <2>3
<1>16. CASE UNCHANGED drainVars
    BY Zenon, <1>1, <1>16, FlushFrame DEF drainVars, Frame, FlushInv
<1>17. ASSUME NEW w \in Writers, WriterStep(w) PROVE UNCHANGED drainVars
    BY Zenon, <1>17 DEF WriterStep, BeginTx, Enqueue, CommitTx, RollbackTx, EndTx
<1> QED
    BY Zenon, <1>13, <1>14, <1>15, <1>16, <1>17 DEF Next, vars, FlushInv

-----------------------------------------------------------------------------
(***************************************************************************)
(* The inductive invariant holds in every reachable state.                 *)
(***************************************************************************)
THEOREM Invariance == Spec => []IInv
<1>1. Init => IInv
    <2> SUFFICES ASSUME Init PROVE IInv
        BY Zenon
    <2>1. TypeOK
        BY Zenon, TypeInit
    <2>2. RowInv /\ TxInv /\ MarkedWasSent /\ FirstPublishInOrder
        BY Zenon DEF Init, RowInv, TxInv, MarkedWasSent, FirstPublishInOrder
    <2>3. PendInv
        BY Zenon DEF Init, PendInv, PendOf
    <2>4. FlushInv
        BY Zenon DEF Init, FlushInv, FlushOf, Drainers
    <2> QED
        BY Zenon, <2>1, <2>2, <2>3, <2>4 DEF IInv
<1>2. IInv /\ [Next]_vars => IInv'
    <2> SUFFICES ASSUME IInv, [Next]_vars PROVE IInv'
        BY Zenon
    <2>1. /\ TypeOK /\ RowInv /\ TxInv /\ MarkedWasSent /\ FirstPublishInOrder
          /\ PendInv /\ FlushInv
        BY Zenon DEF IInv
    <2>2. TypeOK' /\ Grow
        BY Zenon, <2>1, TypeStep, GrowStep
    <2>3. RowInv' /\ TxInv'
        BY Zenon, <2>1, TxStep
    <2>4. MarkedWasSent' /\ FirstPublishInOrder'
        BY Zenon, <2>1, SentStep
    <2>5. PendInv' /\ FlushInv'
        BY Zenon, <2>1, <2>2, PendStep, FlushStep
    <2> QED
        BY Zenon, <2>2, <2>3, <2>4, <2>5 DEF IInv
<1> QED
    BY <1>1, <1>2, PTL DEF Spec

(***************************************************************************)
(* Per key, the broker stores every committed record for the first time in *)
(* id order: for any number of keys, handlers and replicas, whatever       *)
(* faults happen, the loss of lock sessions included.                      *)
(***************************************************************************)
THEOREM OrderedPublication == Spec => []FirstPublishInOrder
<1>1. IInv => FirstPublishInOrder
    BY Zenon DEF IInv
<1> QED
    BY <1>1, Invariance, PTL

(***************************************************************************)
(* No FACT is lost by the marking of rows, none is published for a state   *)
(* change that did not commit.                                             *)
(***************************************************************************)
THEOREM NothingLostOrInvented == Spec => []MarkedWasSent
<1>1. IInv => MarkedWasSent
    BY Zenon DEF IInv
<1> QED
    BY <1>1, Invariance, PTL

(***************************************************************************)
(* A Flush that returns nil has delivered what was committed before it.    *)
(***************************************************************************)
THEOREM FlushDelivers == Spec => []FlushedMeansSent
<1>1. IInv => FlushedMeansSent
    BY Zenon DEF IInv, FlushInv, FlushOf, FlushedMeansSent
<1> QED
    BY <1>1, Invariance, PTL

-----------------------------------------------------------------------------
(***************************************************************************)
(* Refinement: the rows and the broker, seen as one log per key, take only *)
(* the steps of OutboxLog.                                                 *)
(***************************************************************************)
(***************************************************************************)
(* A commit appends to its key's log.                                      *)
(***************************************************************************)
LEMMA CommitAppends ==
    ASSUME IInv, NEW w \in Writers, NEW k \in Keys, CommitTx(w, k)
    PROVE  Log!Append(k, txIds[w])
<1>1. /\ committed' = committed \cup txIds[w] /\ UNCHANGED <<keyOf, sent>>
      /\ rowLock[k] = w
    BY Zenon DEF CommitTx, EndTx, busVars
<1>2. w # None
    BY Zenon, NoneAssumption DEF Actors
<1>3. ASSUME NEW n \in txIds[w]
      PROVE  keyOf[n] = k /\ \A j \in committed : keyOf[j] = k => j < n
    <2>1. PICK l \in Keys : keyOf[n] = l /\ rowLock[l] = w
        BY Zenon DEF IInv, TxInv
    <2>2. l = k
        BY <1>1, <1>2, <2>1 DEF IInv, TxInv
    <2> QED
        BY Zenon, <2>1, <2>2 DEF IInv, TxInv
<1>4. \A n \in txIds[w] : \A r \in {Row(i) : i \in committed} : r[1] = k => r[2] < n
    BY SMTT(60), <1>3 DEF Row
<1>5. {Row(i) : i \in committed}' = {Row(i) : i \in committed} \cup {<<k, n>> : n \in txIds[w]}
    <2>1. {Row(i) : i \in committed}' = {<<keyOf[i], i>> : i \in committed \cup txIds[w]}
        BY Zenon, <1>1 DEF Row
    <2>2. {<<keyOf[i], i>> : i \in committed \cup txIds[w]}
            = {<<keyOf[i], i>> : i \in committed} \cup {<<keyOf[i], i>> : i \in txIds[w]}
        BY Zenon
    <2>3. {<<keyOf[i], i>> : i \in txIds[w]} = {<<k, n>> : n \in txIds[w]}
        BY Zenon, <1>3
    <2> QED
        BY Zenon, <2>1, <2>2, <2>3 DEF Row
<1>6. {Row(i) : i \in sent}' = {Row(i) : i \in sent}
    BY Zenon, <1>1 DEF Row
<1> QED
    BY Zenon, <1>4, <1>5, <1>6 DEF Log!Append

(***************************************************************************)
(* Storing a drainer's next record delivers it in its log.                 *)
(***************************************************************************)
LEMMA StoreDelivers ==
    ASSUME IInv, NEW d \in Drainers, pend[d] # {}, Store(Least(pend[d])),
           UNCHANGED <<keyOf, committed>>
    PROVE  \E r \in {Row(i) : i \in committed} : Log!Deliver(r)
<1> DEFINE h == Least(pend[d])
<1>1. h \in pend[d] /\ \A j \in pend[d] : h =< j
    BY Zenon, LeastExists DEF IInv, TypeOK
<1>2. h \in committed /\ keyOf[h] = cur[d] /\ h \in Ids
    BY Zenon, <1>1 DEF IInv, PendInv, PendOf, TypeOK
<1>3. \A j \in Ids : j \in Int
    BY Zenon, IdSets
<1>4. ASSUME NEW j \in committed, keyOf[j] = keyOf[h], j < h PROVE j \in sent
    <2>1. j \in sent \/ j \in pend[d]
        BY Zenon, <1>1, <1>2, <1>4 DEF IInv, PendInv, PendOf
    <2>2. j \notin pend[d]
        BY SMTT(60), <1>1, <1>2, <1>3, <1>4 DEF IInv, TypeOK
    <2> QED
        BY Zenon, <2>1, <2>2
<1>5. sent' = sent \cup {h}
    BY Zenon DEF Store
<1> HIDE DEF h
<1>6. \A s \in {Row(i) : i \in committed} :
        Log!Before(s, Row(h)) => s \in {Row(i) : i \in sent}
    <2> SUFFICES ASSUME NEW i \in committed, Log!Before(Row(i), Row(h))
                 PROVE  Row(i) \in {Row(j) : j \in sent}
        BY Zenon
    <2>1. keyOf[i] = keyOf[h] /\ i < h
        BY Zenon DEF Row, Log!Before
    <2>2. i \in sent
        BY Zenon, <2>1, <1>4
    <2> QED
        BY Zenon, <2>2
<1>7. {Row(i) : i \in sent}' = {Row(i) : i \in sent} \cup {Row(h)}
    BY Zenon, <1>5 DEF Row
<1>8. {Row(i) : i \in committed}' = {Row(i) : i \in committed}
    BY Zenon DEF Row
<1>9. Log!Deliver(Row(h))
    BY Zenon, <1>6, <1>7, <1>8 DEF Log!Deliver
<1> QED
    BY Zenon, <1>2, <1>9

(***************************************************************************)
(* Steps that change neither the rows nor what was sent stutter.           *)
(***************************************************************************)
LEMMA OtherStutter ==
    ASSUME IInv, UNCHANGED <<committed, sent>>, \A i \in committed : keyOf'[i] = keyOf[i]
    PROVE  UNCHANGED Log!logVars
<1>1. sent \subseteq committed
    BY Zenon DEF IInv, MarkedWasSent
<1>2. {Row(i) : i \in committed}' = {Row(i) : i \in committed}
    BY Zenon DEF Row
<1>3. {Row(i) : i \in sent}' = {Row(i) : i \in sent}
    BY Zenon, <1>1 DEF Row
<1> QED
    BY Zenon, <1>2, <1>3 DEF Log!logVars

(***************************************************************************)
(* The outbox implements OutboxLog: every behaviour of the relay and its   *)
(* writers, faults included, is one of the per-key logs.                   *)
(***************************************************************************)
THEOREM Refinement == Spec => ImplementsLog
<1>1. Init => Log!Init
    BY Zenon DEF Init, Log!Init
<1>2. ASSUME IInv, [Next]_vars PROVE [Log!Next]_(Log!logVars)
    <2>1. ASSUME NEW w \in Writers, NEW k \in Keys, CommitTx(w, k) PROVE Log!Next
        <3>1. txIds[w] \in SUBSET (1 .. MaxId)
            BY Zenon, <1>2 DEF IInv, TypeOK, Ids
        <3> QED
            BY Zenon, <1>2, <2>1, <3>1, CommitAppends DEF Log!Next
    <2>2. ASSUME NEW d \in Drainers, Publish(d) \/ PublishUnacked(d) PROVE Log!Next
        <3>1. pend[d] # {} /\ Store(Least(pend[d])) /\ UNCHANGED <<keyOf, committed>>
            BY Zenon, <2>2 DEF Publish, PublishUnacked, dbVars
        <3> QED
            BY Zenon, <1>2, <3>1, StoreDelivers DEF Log!Next
    <2>3. ASSUME NEW w \in Writers, NEW k \in Keys, Enqueue(w, k)
          PROVE  UNCHANGED Log!logVars
        <3>1. Grow /\ UNCHANGED <<committed, sent>>
            BY Zenon, <1>2, <2>3, GrowStep DEF IInv, Enqueue, busVars
        <3> QED
            BY Zenon, <1>2, <3>1, OtherStutter DEF Grow
    <2>4. CASE UNCHANGED <<keyOf, committed, sent>>
        BY Zenon, <1>2, <2>4, OtherStutter
    <2>5. ASSUME NEW w \in Writers, NEW k \in Keys, BeginTx(w, k) \/ RollbackTx(w, k)
          PROVE  UNCHANGED <<keyOf, committed, sent>>
        BY Zenon, <2>5 DEF BeginTx, RollbackTx, EndTx, dbVars, busVars
    <2>6. ASSUME NEW d \in Drainers, StartPass(d) \/ DrainStep(d) \/ DrainFault(d),
                 ~Publish(d), ~PublishUnacked(d)
          PROVE  UNCHANGED <<keyOf, committed, sent>>
        BY Zenon, <2>6 DEF StartPass, DrainStep, DrainFault, NextKey, EndPass, TryLock, WaitLock,
            GrantLock, Pending, MarkPublished, FinishKey, MarkFailed, TimeOut,
            PublishRefused, DbError, LoseSession, Return, Abort, dbVars, busVars
    <2>7. ASSUME NEW d \in Flushers, NEW k \in Keys, StartFlush(d, k)
          PROVE  UNCHANGED <<keyOf, committed, sent>>
        BY Zenon, <2>7 DEF StartFlush, dbVars, busVars
    <2>8. ASSUME NEW p \in Procs, Crash(p) PROVE UNCHANGED <<keyOf, committed, sent>>
        BY Zenon, <2>8 DEF Crash, dbVars, busVars
    <2>9. UNCHANGED vars => UNCHANGED <<keyOf, committed, sent>>
        BY Zenon DEF vars, dbVars, busVars
    <2> QED
        BY Zenon, <1>2, <2>1, <2>2, <2>3, <2>4, <2>5, <2>6, <2>7, <2>8, <2>9
           DEF Next, WriterStep
<1> QED
    BY <1>1, <1>2, Invariance, PTL DEF Spec, ImplementsLog, Log!Spec

-----------------------------------------------------------------------------
(***************************************************************************)
(* The order of redeliveries.  While lock sessions live, the drainer at    *)
(* work on a key holds its lock (LockInv), so it alone marks rows of that  *)
(* key and its batch stays unmarked (FreshOf); and the broker holds        *)
(* nothing beyond the first unmarked row (LastInv).                        *)
(***************************************************************************)
LockInv == \A d \in Drainers : pc[d] \in Draining => lock[cur[d]] = d

LastOf(k) ==
    /\ lastSent[k] # 0 => lastSent[k] \in committed /\ keyOf[lastSent[k]] = k
    /\ \A j \in committed : keyOf[j] = k /\ j < lastSent[k] => j \in marked

FreshOf(d) ==
    \A i \in pend[d] :
        /\ i \notin marked
        /\ \A j \in committed :
            keyOf[j] = cur[d] /\ j < i => j \in marked \/ j \in pend[d]

BackInv ==
    /\ LockInv /\ \A k \in Keys : LastOf(k)
    /\ \A d \in Drainers : FreshOf(d)

(***************************************************************************)
(* A drainer keeps the lock of its key from LockKey to the release.        *)
(***************************************************************************)
LEMMA LockStep ==
    ASSUME TypeOK, PendInv, LockInv, "session" \notin Faults, [Next]_vars
    PROVE  LockInv'
<1>1. \A d \in Drainers : d # None /\ (pc[d] \in Draining => cur[d] \in Keys)
    BY Zenon, NoneAssumption DEF Actors, PendInv, PendOf, Draining
<1>2. CASE UNCHANGED <<pc, cur, lock>>
    BY Zenon, <1>2 DEF LockInv
<1>3. ASSUME NEW d \in Drainers, Frame(d), lock'[cur[d]] = lock[cur[d]],
             pc[d] \in Draining
      PROVE  lock'[cur'[d]] = d
    BY Zenon, <1>3 DEF LockInv, Frame
<1>4. ASSUME NEW d \in Drainers, TryLock(d) \/ GrantLock(d) PROVE LockInv'
    <2>1. /\ cur' = cur /\ pc[d] \in {"lock", "wait"} /\ cur[d] \in Keys
          /\ \A e \in Drainers \ {d} : pc'[e] = pc[e]
          /\ \/ pc'[d] = "next" /\ lock' = lock
             \/ lock[cur[d]] = None /\ lock' = [lock EXCEPT ![cur[d]] = d]
        BY Zenon, <1>4 DEF TryLock, GrantLock, TypeOK, PendInv, PendOf
    <2> QED
        BY <1>1, <2>1 DEF LockInv, TypeOK, Draining
<1>5. ASSUME NEW d \in Drainers, Unlock(d), pc'[d] \notin Draining,
             \A e \in Drainers \ {d} : Frame(e)
      PROVE  LockInv'
    <2>1. ASSUME NEW e \in Drainers, e # d, pc[e] \in Draining
          PROVE  lock'[cur[e]] = e
        BY Zenon, <1>1, <1>5, <2>1 DEF LockInv, Unlock
    <2> QED
        BY Zenon, <1>5, <2>1 DEF LockInv, Frame
<1>6. ASSUME NEW d \in Drainers, FinishKey(d) \/ MarkFailed(d) \/ TimeOut(d) \/ DbError(d)
      PROVE  LockInv'
    <2>1. Unlock(d) /\ pc'[d] \in {"idle", "next"} /\ \A e \in Drainers \ {d} : Frame(e)
        <3>1. CASE \E ok \in BOOLEAN : Return(d, ok)
            BY Zenon, <3>1 DEF Return, Frame, TypeOK
        <3>2. CASE Abort(d)
            BY Zenon, <3>2 DEF Abort, Frame, TypeOK
        <3>3. FinishKey(d) => Return(d, ~full[d]) /\ (~full[d]) \in BOOLEAN
            BY Zenon DEF FinishKey, TypeOK
        <3>4. MarkFailed(d) => Return(d, FALSE)
            BY Zenon DEF MarkFailed
        <3>5. TimeOut(d) \/ DbError(d) => Abort(d)
            BY Zenon DEF TimeOut, DbError
        <3> QED
            BY Zenon, <1>6, <3>1, <3>2, <3>3, <3>4, <3>5
    <2> QED
        BY Zenon, <1>5, <2>1 DEF Draining
<1>7. ASSUME NEW d \in Drainers, StartPass(d) \/ NextKey(d) \/ EndPass(d) \/ WaitLock(d)
      PROVE  LockInv'
    <2>1. /\ lock' = lock /\ pc'[d] \notin Draining
          /\ \A e \in Drainers \ {d} : pc'[e] = pc[e] /\ cur'[e] = cur[e]
        BY Zenon, <1>7 DEF StartPass, NextKey, EndPass, WaitLock, TypeOK, Draining
    <2> QED
        BY Zenon, <2>1 DEF LockInv
<1>8. ASSUME NEW d \in Drainers,
             Pending(d) \/ Publish(d) \/ PublishUnacked(d) \/ PublishRefused(d)
                \/ MarkPublished(d)
      PROVE  LockInv'
    <2>1. /\ lock' = lock /\ cur' = cur /\ pc[d] \in Draining
          /\ \A e \in Drainers \ {d} : pc'[e] = pc[e]
        BY Zenon, <1>8 DEF Pending, Publish, PublishUnacked, PublishRefused, MarkPublished,
            TypeOK, Draining
    <2> QED
        BY Zenon, <2>1 DEF LockInv
<1>9. ASSUME NEW d \in Flushers, NEW k \in Keys, StartFlush(d, k) PROVE LockInv'
    <2>1. /\ lock' = lock /\ pc'[d] \notin Draining
          /\ \A e \in Drainers \ {d} : pc'[e] = pc[e] /\ cur'[e] = cur[e]
        BY Zenon, <1>9 DEF StartFlush, TypeOK, Draining, Drainers
    <2> QED
        BY Zenon, <2>1 DEF LockInv
<1>10. ASSUME NEW p \in Procs, Crash(p) PROVE LockInv'
    <2>1. ASSUME NEW d \in Drainers, pc'[d] \in Draining PROVE lock'[cur'[d]] = d
        <3>1. Home[d] # p /\ pc'[d] = pc[d] /\ cur'[d] = cur[d]
            BY Zenon, <1>1, <1>10, <2>1 DEF Crash, Draining
        <3>2. lock[cur[d]] = d /\ cur[d] \in Keys
            BY Zenon, <1>1, <2>1, <3>1 DEF LockInv
        <3> QED
            BY Zenon, <1>10, <3>1, <3>2 DEF Crash
    <2> QED
        BY Zenon, <2>1 DEF LockInv
<1>11. ASSUME NEW w \in Writers, WriterStep(w) PROVE LockInv'
    BY Zenon, <1>2, <1>11 DEF WriterStep, BeginTx, Enqueue, CommitTx, RollbackTx, EndTx, drainVars
<1>12. \A d \in Drainers : ~LoseSession(d)
    BY Zenon DEF LoseSession
<1> QED
    BY Zenon, <1>2, <1>4, <1>6, <1>7, <1>8, <1>9, <1>10, <1>11, <1>12
       DEF Next, DrainStep, DrainFault, vars, drainVars

(***************************************************************************)
(* What the broker holds of a key stays behind the first unmarked row when *)
(* a step stores nothing.                                                  *)
(***************************************************************************)
LEMMA LastKept ==
    ASSUME TypeOK, TypeOK', Grow, NEW k \in Keys, LastOf(k),
           lastSent'[k] = lastSent[k], marked \subseteq marked'
    PROVE  LastOf(k)'
<1>1. ASSUME NEW j \in committed', keyOf'[j] = k, j < lastSent[k]
      PROVE  j \in marked'
    <2>1. j \in 1 .. MaxId /\ lastSent[k] \in 0 .. MaxId
        BY Zenon DEF TypeOK, Ids
    <2>2. lastSent[k] # 0
        BY <1>1, <2>1, MaxIdAssumption
    <2>3. lastSent[k] \in committed /\ keyOf[lastSent[k]] = k
        BY Zenon, <2>2 DEF LastOf
    <2>4. j \in committed
        <3>1. j \notin committed => lastSent[k] < j
            BY Zenon, <1>1, <2>3 DEF Grow
        <3> QED
            BY <1>1, <2>1, <3>1, MaxIdAssumption
    <2> QED
        BY Zenon, <1>1, <2>4 DEF LastOf, Grow
<1>2. lastSent[k] # 0 => lastSent[k] \in committed' /\ keyOf'[lastSent[k]] = k
    BY Zenon DEF LastOf, Grow
<1> QED
    BY Zenon, <1>1, <1>2 DEF LastOf

(***************************************************************************)
(* A batch that a step leaves alone stays unmarked and gap-free.           *)
(***************************************************************************)
LEMMA FreshKept ==
    ASSUME TypeOK, TypeOK', Grow, NEW d \in Drainers, PendOf(d), FreshOf(d),
           pend'[d] = pend[d], cur'[d] = cur[d], marked \subseteq marked',
           marked' \cap pend[d] = {}
    PROVE  FreshOf(d)'
<1>1. ASSUME NEW i \in pend[d], NEW j \in committed', keyOf'[j] = cur[d], j < i
      PROVE  j \in marked' \/ j \in pend[d]
    <2>1. i \in committed /\ keyOf[i] = cur[d] /\ i \in 1 .. MaxId /\ j \in 1 .. MaxId
        BY Zenon DEF PendOf, TypeOK, Ids
    <2>2. j \in committed
        <3>1. j \notin committed => i < j
            BY Zenon, <1>1, <2>1 DEF Grow
        <3> QED
            BY <1>1, <2>1, <3>1, MaxIdAssumption
    <2> QED
        BY Zenon, <1>1, <2>2 DEF FreshOf, Grow
<1> QED
    BY Zenon, <1>1 DEF FreshOf

(***************************************************************************)
(* What a step may do to a drainer's batch: leave it, empty it, read it,   *)
(* or take the marked record off it.                                       *)
(***************************************************************************)
LEMMA BatchMoves ==
    ASSUME TypeOK, PendInv, [Next]_vars, NEW e \in Drainers
    PROVE  \/ pend'[e] = pend[e] /\ cur'[e] = cur[e]
           \/ pend'[e] = {} \/ Pending(e) \/ MarkPublished(e)
<1> DEFINE Goal == \/ pend'[e] = pend[e] /\ cur'[e] = cur[e]
                   \/ pend'[e] = {} \/ Pending(e) \/ MarkPublished(e)
<1>1. ASSUME NEW d \in Drainers,
             TryLock(d) \/ GrantLock(d) \/ EndPass(d) \/ WaitLock(d) \/ StartPass(d)
                \/ Publish(d) \/ PublishUnacked(d) \/ PublishRefused(d) \/ LoseSession(d)
      PROVE  UNCHANGED <<pend, cur>>
    BY Zenon, <1>1 DEF TryLock, GrantLock, EndPass, WaitLock, StartPass, Publish, PublishUnacked,
        PublishRefused, LoseSession, drainVars
<1>2. ASSUME NEW d \in Drainers, NextKey(d) PROVE Goal
    BY Zenon, <1>2 DEF NextKey, PendInv, PendOf, TypeOK
<1>3. ASSUME NEW d \in Drainers, Pending(d) \/ MarkPublished(d) PROVE Goal
    BY Zenon, <1>3 DEF Pending, MarkPublished, TypeOK
<1>4. ASSUME NEW d \in Drainers, FinishKey(d) \/ MarkFailed(d) \/ TimeOut(d) \/ DbError(d)
      PROVE  Goal
    <2>1. /\ pend' = [pend EXCEPT ![d] = {}]
          /\ cur' = [cur EXCEPT ![d] = None]
        BY Zenon, <1>4 DEF FinishKey, MarkFailed, TimeOut, DbError, Return, Abort
    <2> QED
        BY Zenon, <2>1 DEF TypeOK
<1>5. ASSUME NEW d \in Flushers, NEW k \in Keys, StartFlush(d, k) PROVE Goal
    BY Zenon, <1>5 DEF StartFlush, PendInv, PendOf, TypeOK, Drainers
<1>6. ASSUME NEW p \in Procs, Crash(p) PROVE Goal
    BY Zenon, <1>6 DEF Crash
<1>7. ASSUME NEW w \in Writers, WriterStep(w) PROVE UNCHANGED <<pend, cur>>
    BY Zenon, <1>7 DEF WriterStep, BeginTx, Enqueue, CommitTx, RollbackTx, EndTx, drainVars
<1> QED
    BY Zenon, <1>1, <1>2, <1>3, <1>4, <1>5, <1>6, <1>7
       DEF Next, DrainStep, DrainFault, vars, drainVars

\* Drainer d marks the record it has published, and no other batch changes
Marks(d) ==
    /\ pc[d] = "mark" /\ marked' = marked \cup {Least(pend[d])}
    /\ UNCHANGED <<lastSent, keyOf, committed>>
    /\ \A e \in Drainers \ {d} : pend'[e] = pend[e] /\ cur'[e] = cur[e]
    /\ \/ pend'[d] = {}
       \/ pend'[d] = pend[d] \ {Least(pend[d])} /\ cur'[d] = cur[d]

(***************************************************************************)
(* Only a publish moves what the broker stored last, and only the drainer  *)
(* that has published marks a row.                                         *)
(***************************************************************************)
LEMMA WhoWrites ==
    ASSUME TypeOK, [Next]_vars
    PROVE  \/ UNCHANGED <<marked, lastSent>>
           \/ \E d \in Drainers : Publish(d) \/ PublishUnacked(d) \/ Marks(d)
<1>1. ASSUME NEW d \in Drainers,
             StartPass(d) \/ NextKey(d) \/ EndPass(d) \/ TryLock(d) \/ WaitLock(d)
                \/ GrantLock(d) \/ Pending(d) \/ PublishRefused(d) \/ LoseSession(d)
                \/ FinishKey(d) \/ MarkFailed(d) \/ TimeOut(d)
      PROVE  UNCHANGED <<marked, lastSent>>
    BY Zenon, <1>1 DEF StartPass, NextKey, EndPass, TryLock, WaitLock, GrantLock, Pending,
        FinishKey, MarkFailed, TimeOut, PublishRefused, LoseSession, Return, Abort,
        dbVars, busVars
<1>2. ASSUME NEW d \in Drainers, MarkPublished(d) PROVE Marks(d)
    BY Zenon, <1>2 DEF MarkPublished, Marks, TypeOK, busVars
<1>3. ASSUME NEW d \in Drainers, DbError(d)
      PROVE  Marks(d) \/ UNCHANGED <<marked, lastSent>>
    BY Zenon, <1>3 DEF DbError, Abort, Marks, TypeOK, busVars
<1>4. ASSUME NEW w \in Writers, WriterStep(w) PROVE UNCHANGED <<marked, lastSent>>
    BY Zenon, <1>4 DEF WriterStep, BeginTx, Enqueue, CommitTx, RollbackTx, EndTx, dbVars, busVars
<1>5. ASSUME NEW d \in Flushers, NEW k \in Keys, StartFlush(d, k)
      PROVE  UNCHANGED <<marked, lastSent>>
    BY Zenon, <1>5 DEF StartFlush, dbVars, busVars
<1>6. ASSUME NEW p \in Procs, Crash(p) PROVE UNCHANGED <<marked, lastSent>>
    BY Zenon, <1>6 DEF Crash, dbVars, busVars
<1>7. UNCHANGED vars => UNCHANGED <<marked, lastSent>>
    BY Zenon DEF vars, dbVars, busVars
<1> QED
    BY Zenon, <1>1, <1>2, <1>3, <1>4, <1>5, <1>6, <1>7 DEF Next, DrainStep, DrainFault

(***************************************************************************)
(* A batch is read as the first unmarked rows of its key.                  *)
(***************************************************************************)
LEMMA FreshRead ==
    ASSUME TypeOK, NEW d \in Drainers, Pending(d)
    PROVE  FreshOf(d)'
<1> DEFINE S == OfKey(Unpublished, cur[d])
<1>1. pend'[d] = FirstBatch(S) /\ cur' = cur /\ UNCHANGED <<keyOf, committed, marked>>
    BY Zenon DEF Pending, TypeOK, dbVars
<1>2. S \in SUBSET Ids /\ FirstBatch(S) \subseteq S /\ S \cap marked = {}
    BY Zenon DEF OfKey, Unpublished, TypeOK, FirstBatch
<1>3. \A j \in committed : keyOf[j] = cur[d] => j \in marked \/ j \in S
    BY Zenon DEF OfKey, Unpublished
<1> HIDE DEF S
<1>4. ASSUME NEW i \in FirstBatch(S), NEW j \in committed, keyOf[j] = cur[d], j < i
      PROVE  j \in marked \/ j \in FirstBatch(S)
    BY Zenon, <1>2, <1>3, <1>4, FirstBatchIsPrefix
<1> QED
    BY Zenon, <1>1, <1>2, <1>4 DEF FreshOf

(***************************************************************************)
(* What a drainer stores next is no older than what the broker stored last *)
(* of the key, and everything older is marked.                             *)
(***************************************************************************)
LEMMA StoresOn ==
    ASSUME IInv, BackInv, NEW d \in Drainers, Publish(d) \/ PublishUnacked(d),
           NEW k \in Keys
    PROVE  lastSent'[k] >= lastSent[k] /\ LastOf(k)'
<1> DEFINE l == Least(pend[d])
<1>1. TypeOK /\ PendOf(d) /\ LastOf(k) /\ FreshOf(d)
    BY Zenon DEF IInv, PendInv, BackInv
<1>2. /\ pend[d] # {} /\ lastSent' = [lastSent EXCEPT ![keyOf[l]] = l]
      /\ UNCHANGED <<keyOf, committed, marked>>
    BY Zenon DEF Publish, PublishUnacked, Store, dbVars
<1>3. l \in pend[d] /\ \A j \in pend[d] : l <= j
    BY Zenon, <1>1, <1>2, LeastExists DEF TypeOK
<1>4. /\ l \in committed /\ keyOf[l] = cur[d] /\ l \notin marked
      /\ \A j \in committed : keyOf[j] = cur[d] /\ j < l => j \in marked \/ j \in pend[d]
    BY Zenon, <1>1, <1>3 DEF PendOf, FreshOf
<1>5. l \in 1 .. MaxId /\ lastSent[k] \in 0 .. MaxId /\ committed \subseteq 1 .. MaxId
    BY Zenon, <1>1, <1>4 DEF TypeOK, Ids
<1> HIDE DEF l
<1>6. CASE keyOf[l] = k
    <2>1. lastSent'[k] = l
        BY Zenon, <1>1, <1>2, <1>6 DEF TypeOK
    <2>2. ~(l < lastSent[k])
        BY Zenon, <1>1, <1>4, <1>6 DEF LastOf
    <2>3. ASSUME NEW j \in committed, keyOf[j] = k, j < l PROVE j \in marked
        <3>1. j \notin pend[d]
            BY <1>3, <1>5, <2>3, MaxIdAssumption
        <3> QED
            BY Zenon, <1>4, <1>6, <2>3, <3>1
    <2>4. LastOf(k)'
        BY <1>2, <1>4, <1>6, <2>1, <2>3 DEF LastOf
    <2> QED
        BY <1>5, <2>1, <2>2, <2>4, MaxIdAssumption
<1>7. CASE keyOf[l] # k
    <2>1. lastSent'[k] = lastSent[k]
        BY Zenon, <1>1, <1>2, <1>7 DEF TypeOK
    <2>2. LastOf(k)'
        BY <1>1, <1>2, <2>1 DEF LastOf
    <2> QED
        BY <1>5, <2>1, <2>2, MaxIdAssumption
<1> QED
    BY Zenon, <1>6, <1>7

(***************************************************************************)
(* The order of redeliveries is kept by every step.                        *)
(***************************************************************************)
LEMMA BackStep ==
    ASSUME IInv, TypeOK', Grow, BackInv, "session" \notin Faults, [Next]_vars
    PROVE  BackInv' /\ \A k \in Keys : lastSent'[k] >= lastSent[k]
<1>1. TypeOK /\ PendInv /\ LockInv /\ \A d \in Drainers : PendOf(d) /\ FreshOf(d)
    BY Zenon DEF IInv, PendInv, BackInv
<1>2. LockInv'
    BY Zenon, <1>1, LockStep
<1>3. \A k \in Keys : lastSent[k] \in Int
    BY <1>1, MaxIdAssumption DEF TypeOK
<1>4. ASSUME NEW d \in Drainers, pc[d] = "mark", NEW e \in Drainers, e # d
      PROVE  Least(pend[d]) \notin pend[e]
    <2>1. pend[d] # {} /\ Least(pend[d]) \in pend[d]
        BY Zenon, <1>1, <1>4, LeastExists DEF PendOf, TypeOK
    <2>2. keyOf[Least(pend[d])] = cur[d] /\ lock[cur[d]] = d
        BY Zenon, <1>1, <1>4, <2>1 DEF PendOf, LockInv, Draining
    <2>3. \A i \in pend[e] : keyOf[i] = cur[e] /\ lock[cur[e]] = e
        BY Zenon, <1>1 DEF PendOf, LockInv, Draining
    <2> QED
        BY Zenon, <1>4, <2>2, <2>3
<1>5. ASSUME UNCHANGED lastSent, marked \subseteq marked', NEW k \in Keys
      PROVE  LastOf(k)' /\ lastSent'[k] >= lastSent[k]
    BY <1>1, <1>3, <1>5, LastKept DEF BackInv
<1>6. CASE UNCHANGED <<marked, lastSent>>
    <2>1. ASSUME NEW e \in Drainers PROVE FreshOf(e)'
        <3>1. CASE pend'[e] = pend[e] /\ cur'[e] = cur[e]
            <4>1. marked \subseteq marked' /\ marked' \cap pend[e] = {}
                BY Zenon, <1>1, <1>6 DEF FreshOf
            <4> QED
                BY Zenon, <1>1, <3>1, <4>1, FreshKept
        <3>2. CASE pend'[e] = {}
            BY Zenon, <3>2 DEF FreshOf
        <3>3. CASE Pending(e)
            BY Zenon, <1>1, <3>3, FreshRead
        <3>4. ~MarkPublished(e)
            <4>1. SUFFICES ASSUME MarkPublished(e) PROVE FALSE
                BY Zenon
            <4>2. pc[e] = "mark" /\ Least(pend[e]) \in marked
                BY Zenon, <1>6, <4>1 DEF MarkPublished
            <4>3. Least(pend[e]) \in pend[e]
                BY Zenon, <1>1, <4>2, LeastExists DEF PendOf, TypeOK
            <4> QED
                BY Zenon, <1>1, <4>2, <4>3 DEF FreshOf
        <3> QED
            BY Zenon, <1>1, <3>1, <3>2, <3>3, <3>4, BatchMoves
    <2> QED
        BY Zenon, <1>2, <1>5, <1>6, <2>1 DEF BackInv
<1>7. ASSUME NEW d \in Drainers, Publish(d) \/ PublishUnacked(d)
      PROVE  BackInv' /\ \A k \in Keys : lastSent'[k] >= lastSent[k]
    <2>1. UNCHANGED <<marked, pend, cur, keyOf, committed>>
        BY Zenon, <1>7 DEF Publish, PublishUnacked, dbVars
    <2>2. \A e \in Drainers : FreshOf(e)'
        BY Zenon, <1>1, <2>1 DEF FreshOf
    <2> QED
        BY Zenon, <1>2, <1>7, <2>2, StoresOn DEF BackInv
<1>8. ASSUME NEW d \in Drainers, Marks(d)
      PROVE  BackInv' /\ \A k \in Keys : lastSent'[k] >= lastSent[k]
    <2>1. marked \subseteq marked' /\ UNCHANGED lastSent
        BY Zenon, <1>8 DEF Marks
    <2>2. ASSUME NEW e \in Drainers, e # d PROVE FreshOf(e)'
        <3>1. pend'[e] = pend[e] /\ cur'[e] = cur[e]
            BY Zenon, <1>8, <2>2 DEF Marks
        <3>2. marked' \cap pend[e] = {}
            BY <1>1, <1>4, <1>8, <2>2 DEF Marks, FreshOf
        <3> QED
            BY Zenon, <1>1, <2>1, <3>1, <3>2, FreshKept
    <2>3. FreshOf(d)'
        BY Zenon, <1>1, <1>8 DEF Marks, FreshOf
    <2> QED
        BY Zenon, <1>2, <1>5, <2>1, <2>2, <2>3 DEF BackInv
<1> QED
    BY Zenon, <1>1, <1>6, <1>7, <1>8, WhoWrites

(***************************************************************************)
(* While no lock session is lost, the broker's stream of a key never steps *)
(* back to an older record, whatever else fails (LockKey, drainKey).       *)
(***************************************************************************)
THEOREM StreamNeverStepsBack == "session" \notin Faults => (Spec => NeverBackwards)
<1> SUFFICES ASSUME "session" \notin Faults PROVE Spec => NeverBackwards
    BY Zenon
<1>1. Init => BackInv
    BY Zenon DEF Init, BackInv, LockInv, LastOf, FreshOf, Draining
<1>2. ASSUME IInv, BackInv, [Next]_vars
      PROVE  BackInv' /\ [\A k \in Keys : lastSent'[k] >= lastSent[k]]_vars
    <2>1. TypeOK' /\ Grow
        BY Zenon, <1>2, TypeStep, GrowStep DEF IInv
    <2> QED
        BY Zenon, <1>2, <2>1, BackStep
<1> QED
    BY <1>1, <1>2, Invariance, PTL DEF Spec, NeverBackwards

=============================================================================
