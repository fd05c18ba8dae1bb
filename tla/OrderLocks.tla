----------------------------- MODULE OrderLocks -----------------------------
(***************************************************************************)
(* The per-order claims of one OMS process (services/oms/internal/order,   *)
(* orderlock.go and claimscope.go).                                        *)
(*                                                                         *)
(* A table maps an order id to a lock object: a channel of capacity one    *)
(* and a count of the goroutines that point at it.  Objects are made on    *)
(* first use and dropped from the table with their last reference.  The    *)
(* table is guarded by a mutex that is never held across a channel         *)
(* operation, so a claim is three steps: ref (under the mutex), the        *)
(* channel operation, and, sooner or later, unref (under the mutex).       *)
(*                                                                         *)
(* A delivery in Tries gives up at once when the order is held (claim: a   *)
(* submit, the sweep); the others wait in line (awaitClaim: a cancel, an   *)
(* amendment, a retirement) until they are handed the lock or their clock  *)
(* runs out.  The cancel of a scheduled parent claims its children, one    *)
(* after the other, while it holds the parent.                             *)
(***************************************************************************)
EXTENDS Naturals, FiniteSets, Sequences, Functions

CONSTANTS
    Orders,         \* order ids
    Children,       \* [Orders -> SUBSET Orders], the slices of a parent
    Deliveries,     \* goroutines that handle a command, or a tick
    Tries,          \* those that claim without waiting
    Locks,          \* identities for lock objects
    None

\* One delivery's claims: a scheduled parent's and one child's
MaxClaimDepth == 2

(***************************************************************************)
(* validateSchedule refuses a command with both a parent and a schedule,   *)
(* so a child has no children.                                             *)
(***************************************************************************)
ASSUME LocksAssumption ==
    /\ IsFiniteSet(Orders)
    /\ IsFiniteSet(Deliveries)
    /\ Children \in [Orders -> SUBSET Orders]
    /\ \A o \in Orders : \A c \in Children[o] : Children[c] = {}
    /\ Tries \subseteq Deliveries
    /\ None \notin Orders \cup Deliveries \cup Locks

VARIABLES
    table,   \* orderLocks.locks: the lock object of an order, or None
    refs,    \* orderLock.refs
    holder,  \* whose element fills orderLock.sem, or None
    queue,   \* the goroutines blocked in a send on orderLock.sem, in order
    ptr,     \* the lock object a delivery has a reference to, per order
    pc,      \* where a delivery is
    want,    \* the order whose claim it is taking or leaving
    scope,   \* claimScope: the orders it holds, outermost first
    todo     \* the children a cancel has still to withdraw

vars == <<table, refs, holder, queue, ptr, pc, want, scope, todo>>

Pairs == Deliveries \X Orders

TypeOK ==
    /\ table \in [Orders -> Locks \cup {None}]
    /\ refs \in [Locks -> Nat]
    /\ holder \in [Locks -> Deliveries \cup {None}]
    /\ queue \in [Locks -> Seq(Deliveries)]
    /\ ptr \in [Pairs -> Locks \cup {None}]
    /\ pc \in [Deliveries -> {"idle", "send", "queued", "drop", "work", "unref"}]
    /\ want \in [Deliveries -> Orders \cup {None}]
    /\ scope \in [Deliveries -> Seq(Orders)]
    /\ todo \in [Deliveries -> SUBSET Orders]

Init ==
    /\ table = [o \in Orders |-> None]
    /\ refs = [l \in Locks |-> 0]
    /\ holder = [l \in Locks |-> None]
    /\ queue = [l \in Locks |-> <<>>]
    /\ ptr = [p \in Pairs |-> None]
    /\ pc = [d \in Deliveries |-> "idle"]
    /\ want = [d \in Deliveries |-> None]
    /\ scope = [d \in Deliveries |-> <<>>]
    /\ todo = [d \in Deliveries |-> {}]
-----------------------------------------------------------------------------
\* The three operators of SequencesExt this module needs
Last(s) == s[Len(s)]
Front(s) == SubSeq(s, 1, Len(s) - 1)
RemoveAt(s, i) == SubSeq(s, 1, i - 1) \o SubSeq(s, i + 1, Len(s))

Held(d) == Range(scope[d])

\* The lock of the claim the delivery is taking or leaving
Lock(d) == ptr[<<d, want[d]>>]

\* An object the collector may have taken: no entry and no pointer leads to it
Garbage(l) ==
    /\ \A o \in Orders : table[o] # l
    /\ \A p \in Pairs : ptr[p] # l

(***************************************************************************)
(* ref: find the order's lock or make one, and count oneself, in one       *)
(* critical section.                                                       *)
(***************************************************************************)
RefOld(d, o) ==
    /\ table[o] # None
    /\ refs' = [refs EXCEPT ![table[o]] = @ + 1]
    /\ ptr' = [ptr EXCEPT ![<<d, o>>] = table[o]]
    /\ UNCHANGED <<table, holder, queue>>

RefNew(d, o) ==
    /\ table[o] = None
    /\ \E l \in Locks :
         /\ Garbage(l)
         /\ table' = [table EXCEPT ![o] = l]
         /\ refs' = [refs EXCEPT ![l] = 1]
         /\ holder' = [holder EXCEPT ![l] = None]
         /\ queue' = [queue EXCEPT ![l] = <<>>]
         /\ ptr' = [ptr EXCEPT ![<<d, o>>] = l]

Ref(d, o) == RefOld(d, o) \/ RefNew(d, o)

(***************************************************************************)
(* unref: uncount oneself; with the last reference the entry goes, if it   *)
(* is this lock's.                                                         *)
(***************************************************************************)
Unlisted(o, l) ==
    IF refs[l] = 1 /\ table[o] = l
      THEN [table EXCEPT ![o] = None]
      ELSE table
-----------------------------------------------------------------------------
\* A command, or a tick, that wants one order
Start(d, o) ==
    /\ pc[d] = "idle"
    /\ Ref(d, o)
    /\ pc' = [pc EXCEPT ![d] = "send"]
    /\ want' = [want EXCEPT ![d] = o]
    /\ UNCHANGED <<scope, todo>>

(***************************************************************************)
(* enterClaim lets a delivery in that does not hold the order already and  *)
(* is not too deep.                                                        *)
(***************************************************************************)
MayEnter(d, o) == o \notin Held(d) /\ Len(scope[d]) < MaxClaimDepth

\* The children the cancel of the innermost order has still to withdraw
Due(d) == todo[d] \cap Children[Last(scope[d])]

(***************************************************************************)
(* cancelChildren turns to a live child, under the parent's claim ...      *)
(***************************************************************************)
ClaimChild(d, c) ==
    /\ pc[d] = "work"
    /\ c \in Due(d)
    /\ MayEnter(d, c)
    /\ Ref(d, c)
    /\ pc' = [pc EXCEPT ![d] = "send"]
    /\ want' = [want EXCEPT ![d] = c]
    /\ todo' = [todo EXCEPT ![d] = @ \ {c}]
    /\ UNCHANGED scope

\* ... or stops: too little budget for another claim, or enterClaim refuses
StopFanOut(d) ==
    /\ pc[d] = "work"
    /\ Due(d) # {}
    /\ todo' = [todo EXCEPT ![d] = {}]
    /\ UNCHANGED <<table, refs, holder, queue, ptr, pc, want, scope>>

(***************************************************************************)
(* The handler works under the lock; a cancel reads which children live.   *)
(***************************************************************************)
Enter(d) ==
    /\ pc' = [pc EXCEPT ![d] = "work"]
    /\ scope' = [scope EXCEPT ![d] = Append(@, want[d])]
    /\ \E live \in SUBSET (IF d \in Tries THEN {} ELSE Children[want[d]]) :
         todo' = [todo EXCEPT ![d] = @ \cup live]
    /\ UNCHANGED <<table, refs, ptr, want>>

\* Mutant of Acquire: a channel with room for a second element
AcquireSecond(d) ==
    /\ pc[d] = "send"
    /\ holder' = [holder EXCEPT ![Lock(d)] = d]
    /\ Enter(d)
    /\ UNCHANGED queue

\* The send takes the lock while the channel is empty
Acquire(d) ==
    /\ pc[d] = "send"
    /\ holder[Lock(d)] = None
    /\ holder' = [holder EXCEPT ![Lock(d)] = d]
    /\ Enter(d)
    /\ UNCHANGED queue

\* Mutant of Busy: the reference taken to look is not dropped
BusyForgotten(d) ==
    /\ pc[d] = "send"
    /\ d \in Tries
    /\ holder[Lock(d)] # None
    /\ pc' = [pc EXCEPT ![d] = "idle"]
    /\ UNCHANGED <<table, refs, holder, queue, ptr, want, scope, todo>>

\* claim: the channel is full, so drop the reference taken to look
Busy(d) ==
    /\ pc[d] = "send"
    /\ d \in Tries
    /\ holder[Lock(d)] # None
    /\ pc' = [pc EXCEPT ![d] = "drop"]
    /\ UNCHANGED <<table, refs, holder, queue, ptr, want, scope, todo>>

\* awaitClaim: the channel is full, so block
Block(d) ==
    /\ pc[d] = "send"
    /\ d \notin Tries
    /\ holder[Lock(d)] # None
    /\ queue' = [queue EXCEPT ![Lock(d)] = Append(@, d)]
    /\ pc' = [pc EXCEPT ![d] = "queued"]
    /\ UNCHANGED <<table, refs, holder, ptr, want, scope, todo>>

\* A blocked sender whose element has moved into the channel runs again
Wake(d) ==
    /\ pc[d] = "queued"
    /\ holder[Lock(d)] = d
    /\ Enter(d)
    /\ UNCHANGED <<holder, queue>>

(***************************************************************************)
(* claimWait, the delivery's budget or a shutdown ends the wait; the error *)
(* ends the cancel of the parent too.                                      *)
(***************************************************************************)
GiveUp(d) ==
    /\ d \notin Tries
    /\ \/ /\ pc[d] = "send"
          /\ UNCHANGED queue
       \/ /\ pc[d] = "queued"
          /\ \E i \in DOMAIN queue[Lock(d)] :
               /\ queue[Lock(d)][i] = d
               /\ queue' = [queue EXCEPT ![Lock(d)] = RemoveAt(@, i)]
    /\ pc' = [pc EXCEPT ![d] = "drop"]
    /\ todo' = [todo EXCEPT ![d] = {}]
    /\ UNCHANGED <<table, refs, holder, ptr, want, scope>>

\* Mutant of Release: the lock is freed and nobody is woken
ReleaseSilent(d) ==
    /\ pc[d] = "work"
    /\ Due(d) = {}
    /\ holder' = [holder EXCEPT ![ptr[<<d, Last(scope[d])>>]] = None]
    /\ want' = [want EXCEPT ![d] = Last(scope[d])]
    /\ scope' = [scope EXCEPT ![d] = Front(@)]
    /\ pc' = [pc EXCEPT ![d] = "unref"]
    /\ UNCHANGED <<table, refs, queue, ptr, todo>>

(***************************************************************************)
(* releaser: the receive empties the channel, or hands it to the first     *)
(* blocked sender in the same step; the reference goes afterwards.         *)
(***************************************************************************)
Release(d) ==
    /\ pc[d] = "work"
    /\ Due(d) = {}
    /\ LET o == Last(scope[d])
           l == ptr[<<d, o>>]
       IN  /\ holder' = [holder EXCEPT
                          ![l] = IF queue[l] = <<>> THEN None ELSE Head(queue[l])]
           /\ queue' = [queue EXCEPT ![l] = IF @ = <<>> THEN <<>> ELSE Tail(@)]
           /\ want' = [want EXCEPT ![d] = o]
    /\ scope' = [scope EXCEPT ![d] = Front(@)]
    /\ pc' = [pc EXCEPT ![d] = "unref"]
    /\ UNCHANGED <<table, refs, ptr, todo>>

Unref(d) ==
    /\ pc[d] \in {"drop", "unref"}
    /\ table' = Unlisted(want[d], Lock(d))
    /\ refs' = [refs EXCEPT ![Lock(d)] = @ - 1]
    /\ ptr' = [ptr EXCEPT ![<<d, want[d]>>] = None]
    /\ pc' = [pc EXCEPT ![d] = IF scope[d] = <<>> THEN "idle" ELSE "work"]
    /\ want' = [want EXCEPT ![d] = None]
    /\ UNCHANGED <<holder, queue, scope, todo>>

\* What a delivery does by itself, once it has started and while no clock runs out
Proceed(d) ==
    \/ \E c \in Orders : ClaimChild(d, c)
    \/ StopFanOut(d)
    \/ Acquire(d)
    \/ Busy(d)
    \/ Block(d)
    \/ Wake(d)
    \/ Release(d)
    \/ Unref(d)

Next ==
    \E d \in Deliveries :
      \/ \E o \in Orders : Start(d, o)
      \/ GiveUp(d)
      \/ Proceed(d)

Spec == Init /\ [][Next]_vars

(***************************************************************************)
(* Every call made under a claim returns: the venue's and the store's have *)
(* deadlines (claimscope.go).  No clock is assumed to run out.             *)
(***************************************************************************)
Fairness == \A d \in Deliveries : WF_vars(Proceed(d))

LiveSpec == Spec /\ Fairness
-----------------------------------------------------------------------------
(***************************************************************************)
(* No two goroutines of a process hold the same order (claim, awaitClaim). *)
(***************************************************************************)
Exclusive ==
    \A d, e \in Deliveries : d # e => Held(d) \cap Held(e) = {}

(***************************************************************************)
(* What unref's comment relies on: "while any reference is outstanding the *)
(* entry cannot have been deleted or replaced, so cur == l always holds".  *)
(***************************************************************************)
HeldIsTabled ==
    \A d \in Deliveries, o \in Orders :
      ptr[<<d, o>>] # None => table[o] = ptr[<<d, o>>]

(***************************************************************************)
(* The table does not grow: an entry belongs to a goroutine that is using  *)
(* the order now (unref).                                                  *)
(***************************************************************************)
NoLeak ==
    \A o \in Orders :
      table[o] # None =>
        \E d \in Deliveries : pc[d] # "idle" /\ ptr[<<d, o>>] = table[o]

(***************************************************************************)
(* A lock that is free has nobody blocked on it: releases, expired waits   *)
(* and new attempts never strand a waiter (releaser, awaitClaim).          *)
(***************************************************************************)
NoLostWakeup == \A l \in Locks : holder[l] = None => queue[l] = <<>>

(***************************************************************************)
(* A lock that is taken has a taker who will release it: it was not handed *)
(* to a waiter whose clock had run out (releaser, awaitClaim).             *)
(***************************************************************************)
NoOrphan ==
    \A l \in Locks : \A d \in Deliveries :
      holder[l] = d =>
        \E o \in Orders :
          /\ ptr[<<d, o>>] = l
          /\ o \in Held(d) \/ (pc[d] = "queued" /\ want[d] = o)

(***************************************************************************)
(* enterClaim's refusals are for programming errors: the cancel of a       *)
(* scheduled parent never meets one.                                       *)
(***************************************************************************)
NeverRefused ==
    \A d \in Deliveries : pc[d] = "work" => \A c \in Due(d) : MayEnter(d, c)

(***************************************************************************)
(* A waiter is served even if no clock runs out, parents and children      *)
(* claimed at the same time included: "LOCKS NEST, ONE LEVEL, PARENT       *)
(* BEFORE CHILD ... IT CANNOT DEADLOCK" (awaitClaim).                      *)
(***************************************************************************)
Served == \A d \in Deliveries : (pc[d] = "queued") ~> (pc[d] # "queued")

\* Who owns an order, from the scopes of the deliveries.
Owner ==
    [o \in Orders |->
       IF \E d \in Deliveries : o \in Held(d)
         THEN CHOOSE d \in Deliveries : o \in Held(d)
         ELSE None]

Claim == INSTANCE OrderClaim WITH owner <- Owner

(***************************************************************************)
(* The table of locks is one owner per order (OrderClaim), whatever the    *)
(* objects behind it do.                                                   *)
(***************************************************************************)
ImplementsClaim == Claim!Spec
=============================================================================
