------------------------------- MODULE Outbox -------------------------------
(***************************************************************************)
(* The transactional outbox and its relay (kanz/internal/outbox).          *)
(*                                                                         *)
(* A writer changes an aggregate and enqueues the FACTs of the change in   *)
(* one Postgres transaction.  The versioned write of that transaction      *)
(* (Create's INSERT, Save's compare-and-set) holds the aggregate's row     *)
(* from the change to the commit.  Ids come from a sequence, which is not  *)
(* transactional: a rollback burns the ids it took.                        *)
(*                                                                         *)
(* Drainers publish the records.  A background drainer is a service's      *)
(* Relay.Run goroutine: it repeats DrainOnce.  A flusher is a handler that *)
(* calls Relay.Flush for one key.  Every drain of a key pins one pooled    *)
(* connection for the session advisory lock of that key; reading and       *)
(* marking records borrow a further connection of the same pool.           *)
(*                                                                         *)
(* Records are identified by their id.  An operation on a SET of ids is    *)
(* ordered by id, as ORDER BY id makes it in the code.                     *)
(***************************************************************************)
EXTENDS Integers, FiniteSets

CONSTANTS
    Keys,        \* partition keys: order ids
    Writers,     \* handlers that change aggregates
    Background,  \* drainers running Relay.Run
    Flushers,    \* drainers running Relay.Flush
    Bounded,     \* the drainers whose context has a deadline
    Procs,       \* service processes; each has one connection pool
    Home,        \* the process a writer or drainer runs in
    PoolSize,    \* pg.ServiceMaxConns: connections in a process's pool
    Batch,       \* relay batch: records per key and keys per pass
    Poison,      \* keys whose records the broker always refuses
    Faults,      \* which faults happen: see FaultKinds
    MaxId,       \* bound: ids the sequence hands out
    None         \* no writer, no drainer, no key

Drainers == Background \cup Flushers
Actors == Drainers \cup Writers
Ids == 1 .. MaxId

\* "db": a database call fails; "broker": a publish is refused or its answer
\* is lost; "session": a lock's session dies; "crash": a process crashes
FaultKinds == {"db", "broker", "session", "crash"}

ASSUME BatchAssumption == Batch \in Nat \ {0}
ASSUME MaxIdAssumption == MaxId \in Nat
ASSUME NoneAssumption == None \notin Keys \cup Actors
ASSUME HomeAssumption == Home \in [Actors -> Procs]
ASSUME FaultsAssumption == Faults \subseteq FaultKinds
ASSUME KindsAssumption == Background \cap Flushers = {}

VARIABLES
    nextId,     \* the id sequence
    keyOf,      \* the partition_key column of a row
    committed,  \* ids of the rows a committed transaction wrote
    marked,     \* ids of the rows with published_at set
    rowLock,    \* key -> the writer whose transaction holds the aggregate row
    txIds,      \* writer -> the ids its open transaction has inserted
    lock,       \* key -> the drainer holding the key's advisory lock
    pc,         \* drainer -> where it is
    cur,        \* drainer -> the key it drains
    todo,       \* drainer -> DrainOnce's remaining keys, by their oldest id
    pend,       \* drainer -> the records Pending returned, not yet done
    full,       \* drainer -> whether Pending returned a full batch
    flushed,    \* flusher -> whether its last Flush returned nil
    owed,       \* flusher -> history: ids of its key committed when it began
    sent,       \* ids of the records the broker has stored at least once
    lastSent    \* key -> id of the record the broker stored last

dbVars == <<nextId, keyOf, committed, marked>>
txVars == <<rowLock, txIds>>
drainVars == <<pc, cur, todo, pend, full, flushed, owed>>
busVars == <<sent, lastSent>>
vars == <<dbVars, txVars, lock, drainVars, busVars>>

Least(S) == CHOOSE i \in S : \A j \in S : i =< j

\* ORDER BY id LIMIT Batch
FirstBatch(S) == {i \in S : Cardinality({j \in S : j < i}) < Batch}

OfKey(S, k) == {i \in S : keyOf[i] = k}
Unpublished == committed \ marked

\* GROUP BY partition_key ORDER BY MIN(id): each pending key's oldest record
Heads == {i \in Unpublished : \A j \in OfKey(Unpublished, keyOf[i]) : i =< j}

Draining == {"read", "publish", "mark", "refused"}

\* The drainers of process p with a connection checked out for a key's lock
Pinned(p) == {d \in Drainers : Home[d] = p /\ pc[d] \in Draining \cup {"wait"}}
ConnFree(d) == Cardinality(Pinned(Home[d])) < PoolSize

TypeOK ==
    /\ nextId \in 1 .. MaxId + 1
    /\ keyOf \in [Ids -> Keys \cup {None}]
    /\ committed \subseteq Ids /\ marked \subseteq Ids /\ sent \subseteq Ids
    /\ rowLock \in [Keys -> Writers \cup {None}]
    /\ txIds \in [Writers -> SUBSET Ids]
    /\ lock \in [Keys -> Drainers \cup {None}]
    /\ pc \in [Drainers -> {"idle", "next", "lock", "wait"} \cup Draining]
    /\ cur \in [Drainers -> Keys \cup {None}]
    /\ todo \in [Drainers -> SUBSET Ids]
    /\ pend \in [Drainers -> SUBSET Ids]
    /\ full \in [Drainers -> BOOLEAN]
    /\ flushed \in [Flushers -> BOOLEAN]
    /\ owed \in [Flushers -> SUBSET Ids]
    /\ lastSent \in [Keys -> 0 .. MaxId]

Init ==
    /\ nextId = 1 /\ keyOf = [i \in Ids |-> None]
    /\ committed = {} /\ marked = {} /\ sent = {}
    /\ rowLock = [k \in Keys |-> None] /\ txIds = [w \in Writers |-> {}]
    /\ lock = [k \in Keys |-> None]
    /\ pc = [d \in Drainers |-> "idle"] /\ cur = [d \in Drainers |-> None]
    /\ todo = [d \in Drainers |-> {}] /\ pend = [d \in Drainers |-> {}]
    /\ full = [d \in Drainers |-> FALSE]
    /\ flushed = [d \in Flushers |-> FALSE]
    /\ owed = [d \in Flushers |-> {}]
    /\ lastSent = [k \in Keys |-> 0]

-----------------------------------------------------------------------------
(***************************************************************************)
(* Writers.  BeginTx is the point where a versioned write succeeds: the    *)
(* INSERT ... ON CONFLICT or the UPDATE ... WHERE version takes the row    *)
(* and keeps it until the transaction ends.  A write that conflicts        *)
(* changes nothing and is a stuttering step.                               *)
(***************************************************************************)
BeginTx(w, k) ==
    /\ \A l \in Keys : rowLock[l] # w
    /\ rowLock[k] = None
    /\ rowLock' = [rowLock EXCEPT ![k] = w]
    /\ UNCHANGED <<dbVars, txIds, lock, drainVars, busVars>>

\* Enqueue takes its id when it runs, not when the transaction commits
Enqueue(w, k) ==
    /\ rowLock[k] = w
    /\ nextId =< MaxId
    /\ nextId' = nextId + 1
    /\ keyOf' = [keyOf EXCEPT ![nextId] = k]
    /\ txIds' = [txIds EXCEPT ![w] = @ \cup {nextId}]
    /\ UNCHANGED <<committed, marked, rowLock, lock, drainVars, busVars>>

EndTx(w, k) ==
    /\ rowLock[k] = w
    /\ rowLock' = [rowLock EXCEPT ![k] = None]
    /\ txIds' = [txIds EXCEPT ![w] = {}]
    /\ UNCHANGED <<nextId, keyOf, marked, lock, drainVars, busVars>>

CommitTx(w, k) ==
    /\ txIds[w] # {}
    /\ EndTx(w, k)
    /\ committed' = committed \cup txIds[w]

RollbackTx(w, k) ==
    /\ EndTx(w, k)
    /\ UNCHANGED committed

-----------------------------------------------------------------------------
(***************************************************************************)
(* Drainers.                                                               *)
(***************************************************************************)
\* DrainOnce: one pass over at most Batch keys, oldest head first
StartPass(d) ==
    /\ d \in Background /\ pc[d] = "idle"
    /\ ConnFree(d)
    /\ todo' = [todo EXCEPT ![d] = FirstBatch(Heads)]
    /\ pc' = [pc EXCEPT ![d] = "next"]
    /\ UNCHANGED <<dbVars, txVars, lock, cur, pend, full, flushed,
                   owed, busVars>>

NextKey(d) ==
    /\ pc[d] = "next" /\ todo[d] # {}
    /\ LET head == Least(todo[d]) IN
        /\ cur' = [cur EXCEPT ![d] = keyOf[head]]
        /\ todo' = [todo EXCEPT ![d] = @ \ {head}]
    /\ pc' = [pc EXCEPT ![d] = "lock"]
    /\ UNCHANGED <<dbVars, txVars, lock, pend, full, flushed, owed,
                   busVars>>

EndPass(d) ==
    /\ pc[d] = "next" /\ todo[d] = {}
    /\ pc' = [pc EXCEPT ![d] = "idle"]
    /\ UNCHANGED <<dbVars, txVars, lock, cur, todo, pend, full,
                   flushed, owed, busVars>>

\* Flush(key), called by a handler at any point of its work
StartFlush(d, k) ==
    /\ d \in Flushers /\ pc[d] = "idle"
    /\ cur' = [cur EXCEPT ![d] = k]
    /\ pc' = [pc EXCEPT ![d] = "lock"]
    /\ flushed' = [flushed EXCEPT ![d] = FALSE]
    /\ owed' = [owed EXCEPT ![d] = OfKey(committed, k)]
    /\ UNCHANGED <<dbVars, txVars, lock, todo, pend, full, busVars>>

\* LockKey(wait = false): take a connection, try the lock, give it back on a loss
TryLock(d) ==
    /\ d \in Background /\ pc[d] = "lock"
    /\ ConnFree(d)
    /\ \/ /\ lock[cur[d]] = None
          /\ lock' = [lock EXCEPT ![cur[d]] = d]
          /\ pc' = [pc EXCEPT ![d] = "read"]
       \/ /\ lock[cur[d]] # None
          /\ pc' = [pc EXCEPT ![d] = "next"]
          /\ UNCHANGED lock
    /\ UNCHANGED <<dbVars, txVars, cur, todo, pend, full, flushed, owed,
                   busVars>>

\* LockKey(wait = true) pins its connection first and waits for the lock on it
WaitLock(d) ==
    /\ d \in Flushers /\ pc[d] = "lock"
    /\ ConnFree(d)
    /\ pc' = [pc EXCEPT ![d] = "wait"]
    /\ UNCHANGED <<dbVars, txVars, lock, cur, todo, pend, full, flushed, owed,
                   busVars>>

\* Mutant of GrantLock: the wait ends without the lock
GrantLockEarly(d) ==
    /\ pc[d] = "wait"
    /\ pc' = [pc EXCEPT ![d] = "read"]
    /\ UNCHANGED <<dbVars, txVars, lock, cur, todo, pend, full, flushed,
                   owed, busVars>>

GrantLock(d) ==
    /\ pc[d] = "wait" /\ lock[cur[d]] = None
    /\ lock' = [lock EXCEPT ![cur[d]] = d]
    /\ pc' = [pc EXCEPT ![d] = "read"]
    /\ UNCHANGED <<dbVars, txVars, cur, todo, pend, full, flushed,
                   owed, busVars>>

\* Mutant of Pending: the newest records first (ORDER BY id DESC)
PendingNewestFirst(d) ==
    /\ pc[d] = "read"
    /\ ConnFree(d)
    /\ LET S == OfKey(Unpublished, cur[d])
           batch == {i \in S : Cardinality({j \in S : j > i}) < Batch}
       IN
        /\ pend' = [pend EXCEPT ![d] = batch]
        /\ full' = [full EXCEPT ![d] = Cardinality(batch) = Batch]
    /\ pc' = [pc EXCEPT ![d] = "publish"]
    /\ UNCHANGED <<dbVars, txVars, lock, cur, todo, flushed, owed, busVars>>

\* Pending, on a connection of its own
Pending(d) ==
    /\ pc[d] = "read"
    /\ ConnFree(d)
    /\ LET batch == FirstBatch(OfKey(Unpublished, cur[d])) IN
        /\ pend' = [pend EXCEPT ![d] = batch]
        /\ full' = [full EXCEPT ![d] = Cardinality(batch) = Batch]
    /\ pc' = [pc EXCEPT ![d] = "publish"]
    /\ UNCHANGED <<dbVars, txVars, lock, cur, todo, flushed, owed,
                   busVars>>

Store(i) ==
    /\ sent' = sent \cup {i}
    /\ lastSent' = [lastSent EXCEPT ![keyOf[i]] = i]

Publish(d) ==
    /\ pc[d] = "publish" /\ pend[d] # {}
    /\ cur[d] \notin Poison
    /\ Store(Least(pend[d]))
    /\ pc' = [pc EXCEPT ![d] = "mark"]
    /\ UNCHANGED <<dbVars, txVars, lock, cur, todo, pend, full,
                   flushed, owed>>

\* The broker refuses the record, or the record cannot be rebuilt
PublishRefused(d) ==
    /\ pc[d] = "publish" /\ pend[d] # {}
    /\ cur[d] \in Poison \/ "broker" \in Faults
    /\ pc' = [pc EXCEPT ![d] = "refused"]
    /\ UNCHANGED <<dbVars, txVars, lock, cur, todo, pend, full, flushed, owed,
                   busVars>>

\* The broker stored the record and the answer was lost
PublishUnacked(d) ==
    /\ pc[d] = "publish" /\ pend[d] # {}
    /\ cur[d] \notin Poison /\ "broker" \in Faults
    /\ Store(Least(pend[d]))
    /\ pc' = [pc EXCEPT ![d] = "refused"]
    /\ UNCHANGED <<dbVars, txVars, lock, cur, todo, pend, full, flushed, owed>>

MarkPublished(d) ==
    /\ pc[d] = "mark"
    /\ ConnFree(d)
    /\ marked' = marked \cup {Least(pend[d])}
    /\ pend' = [pend EXCEPT ![d] = @ \ {Least(@)}]
    /\ pc' = [pc EXCEPT ![d] = "publish"]
    /\ UNCHANGED <<nextId, keyOf, committed, txVars, lock, cur, todo, full,
                   flushed, owed, busVars>>

\* The deferred release: a lost session holds no lock any more
Unlock(d) ==
    lock' = [k \in Keys |-> IF lock[k] = d THEN None ELSE lock[k]]

\* drainKey returns: to DrainOnce's loop, or out of Flush with result ok
Return(d, ok) ==
    /\ Unlock(d)
    /\ pend' = [pend EXCEPT ![d] = {}]
    /\ full' = [full EXCEPT ![d] = FALSE]
    /\ cur' = [cur EXCEPT ![d] = None]
    /\ pc' = [pc EXCEPT ![d] = IF d \in Background THEN "next" ELSE "idle"]
    /\ flushed' = [f \in Flushers |-> IF f = d THEN ok ELSE flushed[f]]
    /\ UNCHANGED <<nextId, keyOf, committed, txVars, todo, owed, busVars>>

\* Mutant of MarkFailed: skip the refused record and carry on with the key
MarkFailedAndSkip(d) ==
    /\ pc[d] = "refused"
    /\ ConnFree(d)
    /\ pend' = [pend EXCEPT ![d] = @ \ {Least(@)}]
    /\ pc' = [pc EXCEPT ![d] = "publish"]
    /\ UNCHANGED <<dbVars, txVars, lock, cur, todo, full, flushed, owed, busVars>>

\* Mutant of MarkFailed: a stalled key ends the whole pass
MarkFailedEndsPass(d) ==
    /\ pc[d] = "refused"
    /\ ConnFree(d)
    /\ Unlock(d)
    /\ pend' = [pend EXCEPT ![d] = {}]
    /\ full' = [full EXCEPT ![d] = FALSE]
    /\ cur' = [cur EXCEPT ![d] = None]
    /\ todo' = [todo EXCEPT ![d] = {}]
    /\ pc' = [pc EXCEPT ![d] = "idle"]
    /\ UNCHANGED <<dbVars, txVars, flushed, owed, busVars>>

\* The record is recorded as failed and the key stalls
MarkFailed(d) ==
    /\ pc[d] = "refused"
    /\ ConnFree(d)
    /\ Return(d, FALSE)
    /\ UNCHANGED marked

\* Mutant of FinishKey: a full batch is taken for an empty queue
FinishKeyFullIsDone(d) ==
    /\ pc[d] = "publish" /\ pend[d] = {}
    /\ Return(d, TRUE)
    /\ UNCHANGED marked

\* Every record of the batch is out; a full batch is a stall
FinishKey(d) ==
    /\ pc[d] = "publish" /\ pend[d] = {}
    /\ Return(d, ~full[d])
    /\ UNCHANGED marked

\* An infrastructure error ends DrainOnce or Flush altogether
Abort(d) ==
    /\ Unlock(d)
    /\ pend' = [pend EXCEPT ![d] = {}]
    /\ full' = [full EXCEPT ![d] = FALSE]
    /\ cur' = [cur EXCEPT ![d] = None]
    /\ todo' = [todo EXCEPT ![d] = {}]
    /\ pc' = [pc EXCEPT ![d] = "idle"]
    /\ UNCHANGED <<nextId, keyOf, committed, txVars, flushed, owed, busVars>>

\* A statement fails; a MarkPublished that fails may have landed
DbError(d) ==
    /\ "db" \in Faults
    /\ pc[d] \in {"lock", "wait", "read", "mark", "refused"}
    /\ Abort(d)
    /\ \/ marked' = marked
       \/ pc[d] = "mark" /\ marked' = marked \cup {Least(pend[d])}

\* lock_timeout ends a wait for the advisory lock; a context deadline ends a
\* wait for a pooled connection, for the drainers that have one
TimeOut(d) ==
    /\ \/ pc[d] = "wait" /\ lock[cur[d]] # None
       \/ /\ d \in Bounded
          /\ pc[d] \in {"lock", "read", "mark", "refused"}
          /\ ~ConnFree(d)
    /\ Abort(d)
    /\ UNCHANGED marked

\* The session behind d's advisory lock dies; d does not find out
LoseSession(d) ==
    /\ "session" \in Faults
    /\ pc[d] \in Draining /\ lock[cur[d]] = d
    /\ lock' = [lock EXCEPT ![cur[d]] = None]
    /\ UNCHANGED <<dbVars, txVars, drainVars, busVars>>

\* Process p dies: its transactions roll back and its sessions end
Crash(p) ==
    /\ "crash" \in Faults
    /\ LET Here(a) == a # None /\ Home[a] = p
           Reset(f, v) == [d \in Drainers |-> IF Here(d) THEN v ELSE f[d]]
       IN
        /\ rowLock' = [k \in Keys |-> IF Here(rowLock[k]) THEN None ELSE rowLock[k]]
        /\ txIds' = [w \in Writers |-> IF Here(w) THEN {} ELSE txIds[w]]
        /\ lock' = [k \in Keys |-> IF Here(lock[k]) THEN None ELSE lock[k]]
        /\ pc' = Reset(pc, "idle") /\ cur' = Reset(cur, None)
        /\ todo' = Reset(todo, {}) /\ pend' = Reset(pend, {})
        /\ full' = Reset(full, FALSE)
        /\ flushed' = [f \in Flushers |-> IF Here(f) THEN FALSE ELSE flushed[f]]
    /\ UNCHANGED <<dbVars, owed, busVars>>

-----------------------------------------------------------------------------
WriterStep(w) ==
    \E k \in Keys : BeginTx(w, k) \/ Enqueue(w, k) \/ CommitTx(w, k) \/ RollbackTx(w, k)

\* What a drainer does once it has started, faults aside
DrainStep(d) ==
    \/ NextKey(d) \/ EndPass(d) \/ TryLock(d) \/ WaitLock(d) \/ GrantLock(d)
    \/ Pending(d) \/ Publish(d) \/ MarkPublished(d) \/ FinishKey(d)
    \/ MarkFailed(d) \/ TimeOut(d) \/ PublishRefused(d)

DrainFault(d) == DbError(d) \/ PublishUnacked(d) \/ LoseSession(d)

Next ==
    \/ \E w \in Writers : WriterStep(w)
    \/ \E d \in Drainers : StartPass(d) \/ DrainStep(d) \/ DrainFault(d)
    \/ \E d \in Flushers, k \in Keys : StartFlush(d, k)
    \/ \E p \in Procs : Crash(p)

Spec == Init /\ [][Next]_vars

(***************************************************************************)
(* Relay.Run ticks for as long as its process lives, and a call that has   *)
(* started runs on.  A relay waiting for a connection in the middle of a   *)
(* drain gets one when connections keep coming back: the pool serves its   *)
(* waiters in turn.  No writer or handler is obliged to start anything.    *)
(***************************************************************************)
Fairness ==
    /\ \A d \in Drainers : WF_vars(StartPass(d) \/ DrainStep(d))
    /\ \A d \in Background : SF_vars(Pending(d)) /\ SF_vars(MarkPublished(d))
LiveSpec == Spec /\ Fairness

-----------------------------------------------------------------------------
(***************************************************************************)
(* The promise of Queue (outbox.go): per key, records reach the broker in  *)
(* id order.  A record is stored for the first time only after every       *)
(* committed older record of its key, whatever crashes, lost answers and   *)
(* lost lock sessions do.                                                  *)
(***************************************************************************)
FirstPublishInOrder ==
    \A i \in sent : \A j \in OfKey(committed, keyOf[i]) : j < i => j \in sent

(***************************************************************************)
(* Nothing is lost and nothing is invented: a row carries published_at     *)
(* only if the broker has the FACT, and the broker has no FACT of a state  *)
(* change that did not commit.                                             *)
(***************************************************************************)
MarkedWasSent == marked \subseteq sent /\ sent \subseteq committed

(***************************************************************************)
(* Flush returning nil (relay.go Flush) means that every FACT of the order *)
(* that was committed when it was called is with the broker: the handler   *)
(* may publish its next FACT directly.                                     *)
(***************************************************************************)
FlushedMeansSent == \A f \in Flushers : flushed[f] => owed[f] \subseteq sent

(***************************************************************************)
(* While lock sessions live, a redelivery repeats at most the last record  *)
(* of a key: the stream of a key never steps back to an older record.      *)
(***************************************************************************)
NeverBackwards ==
    [][\A k \in Keys : lastSent'[k] >= lastSent[k]]_vars

(***************************************************************************)
(* "one stuck order must not shadow every order behind it" (relay.go       *)
(* DrainOnce): a committed record of a key the broker accepts is published *)
(* eventually, even if no handler ever flushes it.                         *)
(***************************************************************************)
HealthyKeysDrain ==
    \A i \in Ids, k \in Keys \ Poison :
        (i \in committed /\ keyOf[i] = k) ~> (i \in sent)

Row(i) == <<keyOf[i], i>>
Log == INSTANCE OutboxLog WITH
    log <- {Row(i) : i \in committed}, out <- {Row(i) : i \in sent}

(***************************************************************************)
(* The outbox implements one log per key (OutboxLog), under every fault.   *)
(***************************************************************************)
ImplementsLog == Log!Spec

=============================================================================
