---------------------------- MODULE BusConsumer ----------------------------
(***************************************************************************)
(* One durable subscription of the event bus (pkg/bus): what happens to an *)
(* event between the stream and a handler.                                 *)
(*                                                                         *)
(* The broker offers a message to one of the pods that share the durable,  *)
(* and offers it again when AckWait has passed without an answer or the    *)
(* delay of a nak is over, MaxDeliver times at most.  A pod fetches ahead  *)
(* and dispatches from its buffer, one message at a time.  A dispatch      *)
(* claims the event's idempotency key in the pod's dedup window, runs the  *)
(* handler, and ends with an ack (handled, parked in the dead-letter       *)
(* stream, or a duplicate) or a nak.  An operator redrives parked          *)
(* messages onto the stream once they are old enough.                      *)
(*                                                                         *)
(* Time is a number of ticks.  What is short against a tick (an answer, a  *)
(* publish, the start of a dispatch) happens between two ticks.            *)
(***************************************************************************)
EXTENDS Integers, FiniteSets, Sequences

CONSTANTS
    Pods,          \* the replicas of the consuming service
    Keys,          \* events, by idempotency key
    Kinds,         \* what an event may be: see kind
    AckWait,       \* ticks until an unanswered delivery is offered again
    Budget,        \* ticks a handler's context lasts: HandlerBudget(AckWait)
    Lease,         \* dedupClaimLease
    TTL,           \* how long a committed key is held
    Dupe,          \* the streams' duplicate window
    Margin,        \* redriveDedupMargin
    NakBase, NakMax,
    MaxDeliver, MaxAckPending, MaxAttempts, MaxRedrives,
    MaxFaults      \* crashes, lost answers and failed publishes in a behaviour

ASSUME BusAssumption ==
    /\ IsFiniteSet(Keys) /\ Keys # {}
    /\ Kinds \subseteq {"plain", "malformed", "slow", "retained"}
    /\ {AckWait, Budget, Lease, TTL, Dupe, Margin, NakBase, NakMax} \subseteq Nat \ {0}
    /\ {MaxDeliver, MaxAckPending, MaxAttempts} \subseteq Nat \ {0}
    /\ {MaxRedrives, MaxFaults} \subseteq Nat
    /\ Budget < AckWait /\ AckWait < Lease /\ Lease <= TTL /\ Dupe <= Margin

\* The rule ConsumerTuning is sized by, with the budget as the worst case.
Tuned == MaxAckPending * Budget < AckWait

\* A message of the stream: an event and how often it was redriven.
Msgs == Keys \X (0 .. MaxRedrives)

Key(m) == m[1]

\* Mutant of MinAge: just above the window
MinAgeTight == TTL + 1

\* DefaultMinAge: how old a parked message must be to be redriven.
MinAge == TTL + Margin

VARIABLES
    kind,     \* of an event: plain, one that does not unframe or validate, one
              \* whose handler may use up its budget, one with retained retries
    msg,      \* the stream's messages and the durable's state of each
    buf,      \* the messages a pod has fetched and not dispatched
    job,      \* the dispatch a pod is at
    window,   \* DedupWindow.expiry: ticks a key is still held for, per pod
    dlq,      \* the dead-letter stream
    handled,  \* how often a handler succeeded on an event, up to two
    faults    \* faults so far

vars == <<kind, msg, buf, job, window, dlq, handled, faults>>

NoMsg == [state |-> "absent", age |-> 0, wait |-> 0, count |-> 0]
NotParked == [state |-> "absent", age |-> 0, class |-> "transient"]
Idle == [at |-> "idle", m |-> CHOOSE m \in Msgs : TRUE, left |-> 0,
         attempt |-> 0, err |-> "none"]

Init ==
    /\ kind \in [Keys -> Kinds]
    /\ msg = [m \in Msgs |->
                IF m[2] = 0 THEN [NoMsg EXCEPT !.state = "stored"] ELSE NoMsg]
    /\ buf = [p \in Pods |-> <<>>]
    /\ job = [p \in Pods |-> Idle]
    /\ window = [p \in Pods |-> [k \in Keys |-> 0]]
    /\ dlq = [m \in Msgs |-> NotParked]
    /\ handled = [k \in Keys |-> 0]
    /\ faults = 0

Fault == faults < MaxFaults /\ faults' = faults + 1

-----------------------------------------------------------------------------
(* The broker: an explicit-ack durable with pull consumers.                *)

Stored(m) == msg[m].state = "stored"

\* Delivered and neither acked nor given up.
Pending(m) == Stored(m) /\ msg[m].count > 0

\* Mutant of Bounded: retained retries under a finite MaxDeliver
BoundedAlways(m) == TRUE

\* A consumer with retained retries must have an unbounded MaxDeliver.
Bounded(m) == kind[Key(m)] # "retained"

Spent(m) ==
    /\ Stored(m) /\ msg[m].wait = 0
    /\ msg[m].count = MaxDeliver /\ Bounded(m)

Least(a, b) == IF a < b THEN a ELSE b

\* The delivery clock of a message starts when it is fetched.
Fetch(p, m) ==
    /\ Stored(m) /\ msg[m].wait = 0 /\ ~Spent(m)
    /\ Cardinality({x \in Msgs \ {m} : Pending(x)}) < MaxAckPending
    /\ msg' = [msg EXCEPT ![m].wait = AckWait,
                          ![m].count = Least(@ + 1, MaxDeliver)]
    /\ buf' = [buf EXCEPT ![p] = Append(@, m)]
    /\ UNCHANGED <<kind, job, window, dlq, handled, faults>>

\* nakDelay: 2s, 4s, 8s ... 60s.
nakDelay[n \in Nat] ==
    IF n <= 1 THEN Least(NakBase, NakMax) ELSE Least(2 * nakDelay[n - 1], NakMax)

\* A publish to the stream.  The duplicate window swallows the id of a recent
\* one; a second copy of a message that is still stored is not told apart.
Publish(m) ==
    IF Stored(m) \/ (msg[m].state = "acked" /\ msg[m].age < Dupe)
    THEN msg
    ELSE [msg EXCEPT ![m] = [NoMsg EXCEPT !.state = "stored"]]

\* A publish to the dead-letter stream: the parked copy keeps the id.
Parked(m, class) ==
    IF dlq[m].state # "absent" /\ dlq[m].age < Dupe
    THEN dlq
    ELSE [dlq EXCEPT ![m] = [state |-> "parked", age |-> 0, class |-> class]]

-----------------------------------------------------------------------------
(* DedupWindow: Claim leases a key, Commit holds it for the whole window,  *)
(* Release drops it.                                                       *)

Held(p, k) == window[p][k] > 0

Claim(p, k) == [window EXCEPT ![p][k] = Lease]

Commit(p, k) == [window EXCEPT ![p][k] = TTL]
Release(p, k) == [window EXCEPT ![p][k] = 0]

-----------------------------------------------------------------------------
(* Consumer.Subscribe: the steps of one dispatch.                          *)

At(p, at) == [job EXCEPT ![p].at = at]

\* The dispatcher takes the oldest message of its buffer.  A message that does
\* not unframe is parked without a claim; a duplicate is acked and skipped.
Begin(p) ==
    /\ job[p].at = "idle" /\ buf[p] # <<>>
    /\ buf' = [buf EXCEPT ![p] = Tail(@)]
    /\ LET m == Head(buf[p])
           at(x, e) == [at |-> x, m |-> m, left |-> Budget, attempt |-> 1, err |-> e]
       IN \/ /\ kind[Key(m)] = "malformed"
             /\ job' = [job EXCEPT ![p] = at("park", "terminal")]
             /\ UNCHANGED window
          \/ /\ kind[Key(m)] # "malformed" /\ Held(p, Key(m))
             /\ job' = [job EXCEPT ![p] = at("ack", "none")]
             /\ UNCHANGED window
          \/ /\ kind[Key(m)] # "malformed" /\ ~Held(p, Key(m))
             /\ job' = [job EXCEPT ![p] = at("run", "none")]
             /\ window' = Claim(p, Key(m))
    /\ UNCHANGED <<kind, msg, dlq, handled, faults>>

\* The handler returns nil.
Succeed(p) ==
    /\ job[p].at = "run" /\ job[p].left > 0
    /\ LET k == Key(job[p].m) IN
         /\ window' = Commit(p, k)
         /\ handled' = [handled EXCEPT ![k] = Least(@ + 1, 2)]
    /\ job' = At(p, "ack")
    /\ UNCHANGED <<kind, msg, buf, dlq, faults>>

\* The handler returns an error or panics.  A panic is terminal and is not
\* retried; the last transient failure on a retained subject is left to the
\* broker; every other last failure goes to the dead-letter stream.
Fail(p, err, panic) ==
    /\ job[p].at = "run"
    /\ panic => err = "terminal"
    /\ LET k == Key(job[p].m)
           last == panic \/ job[p].attempt = MaxAttempts
           retain == last /\ kind[k] = "retained" /\ err = "transient"
       IN /\ job' = [job EXCEPT ![p].at = IF ~last THEN "backoff"
                                          ELSE IF retain THEN "nak" ELSE "park",
                                ![p].err = err]
          /\ window' = IF retain THEN Release(p, k) ELSE window
    /\ UNCHANGED <<kind, msg, buf, dlq, handled, faults>>

\* sleepWithCtx between two attempts; the context may end first.
Backoff(p) ==
    /\ job[p].at = "backoff"
    /\ \/ /\ job[p].left > 0
          /\ job' = [job EXCEPT ![p].at = "run", ![p].attempt = @ + 1]
          /\ UNCHANGED window
       \/ /\ job[p].left = 0
          /\ job' = At(p, "nak")
          /\ window' = Release(p, Key(job[p].m))
    /\ UNCHANGED <<kind, msg, buf, dlq, handled, faults>>

\* Mutant of Park: the claim is kept when the publish fails
ParkKeepsClaim(p) ==
    /\ job[p].at = "park"
    /\ LET m == job[p].m IN
          \/ /\ job[p].left > 0
             /\ dlq' = Parked(m, job[p].err)
             /\ window' = Commit(p, Key(m))
             /\ job' = At(p, "ack")
             /\ UNCHANGED faults
          \/ /\ IF job[p].left > 0 THEN Fault ELSE UNCHANGED faults
             /\ job' = At(p, "nak")
             /\ UNCHANGED <<dlq, window>>
    /\ UNCHANGED <<kind, msg, buf, handled>>

\* publishDLQ, under the context the handler had, and what follows it.  A
\* failed publish may have reached the stream.
Park(p) ==
    /\ job[p].at = "park"
    /\ LET m == job[p].m
           claimed == kind[Key(m)] # "malformed"
       IN \/ /\ job[p].left > 0
             /\ dlq' = Parked(m, job[p].err)
             /\ window' = IF claimed THEN Commit(p, Key(m)) ELSE window
             /\ job' = At(p, "ack")
             /\ UNCHANGED faults
          \/ /\ IF job[p].left > 0 THEN Fault ELSE UNCHANGED faults
             /\ \/ UNCHANGED dlq
                \/ job[p].left > 0 /\ dlq' = Parked(m, job[p].err)
             /\ window' = IF claimed THEN Release(p, Key(m)) ELSE window
             /\ job' = At(p, "nak")
    /\ UNCHANGED <<kind, msg, buf, handled>>

\* The subscriber answers the broker: an ack settles the message, a nak sets
\* its delay.  An answer that is lost is only logged.
Answer(p) ==
    /\ job[p].at \in {"ack", "nak"}
    /\ job' = [job EXCEPT ![p] = Idle]
    /\ LET m == job[p].m IN
         \/ /\ msg' = IF ~Stored(m) THEN msg
                      ELSE IF job[p].at = "ack" THEN [msg EXCEPT ![m] = [NoMsg EXCEPT !.state = "acked", !.age = msg[m].age]]
                      ELSE [msg EXCEPT ![m].wait = nakDelay[msg[m].count]]
            /\ UNCHANGED faults
         \/ Fault /\ UNCHANGED msg
    /\ UNCHANGED <<kind, buf, window, dlq, handled>>

-----------------------------------------------------------------------------
(* The rest of the world.                                                  *)

\* A pod dies and is replaced: its buffer, its dispatch and its window go.
Crash(p) ==
    /\ Fault
    /\ buf' = [buf EXCEPT ![p] = <<>>]
    /\ job' = [job EXCEPT ![p] = Idle]
    /\ window' = [window EXCEPT ![p] = [k \in Keys |-> 0]]
    /\ UNCHANGED <<kind, msg, dlq, handled>>

\* DedupWindow.gc at capacity, driven by the claims of other events.
Evict(p, k) ==
    /\ Held(p, k)
    /\ window' = Release(p, k)
    /\ UNCHANGED <<kind, msg, buf, job, dlq, handled, faults>>

\* Mutant of Redrive: the parked copy is acked on a later run
RedriveKeeps(m) ==
    /\ dlq[m].state = "parked"
    /\ dlq[m].class = "transient"
    /\ m[2] < MaxRedrives
    /\ dlq[m].age >= MinAge
    /\ msg' = Publish(<<Key(m), m[2] + 1>>)
    /\ UNCHANGED <<kind, buf, job, window, dlq, handled, faults>>

\* PlanRedrive allows the parked copy and the run republishes it; the parked
\* copy is acked unless the run dies in between.
Redrive(m) ==
    /\ dlq[m].state = "parked"
    /\ dlq[m].class = "transient"
    /\ m[2] < MaxRedrives
    /\ dlq[m].age >= MinAge
    /\ msg' = Publish(<<Key(m), m[2] + 1>>)
    /\ \/ dlq' = [dlq EXCEPT ![m].state = "drained"] /\ UNCHANGED faults
       \/ Fault /\ UNCHANGED dlq
    /\ UNCHANGED <<kind, buf, job, window, handled>>

\* Mutant of Due: the context of a handler has no deadline
DueUnbounded(p) ==
    \/ job[p].at \in {"backoff", "park", "ack", "nak"}
    \/ job[p].at = "idle" /\ buf[p] # <<>>
    \/ job[p].at = "run" /\ kind[Key(job[p].m)] # "slow" /\ job[p].left = 1

\* What must happen before time passes: the pause between two attempts, the
\* answer, the publish and the start of a dispatch are short, and a handler
\* returns when its context ends.
Due(p) ==
    \/ job[p].at \in {"backoff", "park", "ack", "nak"}
    \/ job[p].at = "idle" /\ buf[p] # <<>>
    \/ /\ job[p].at = "run"
       /\ job[p].left = IF kind[Key(job[p].m)] = "slow" THEN 0 ELSE 1

Less(n) == IF n = 0 THEN 0 ELSE n - 1

\* The age of what is in a stream, counted up to where it stops mattering.
Older(r, max) == IF r.state = "absent" THEN 0 ELSE Least(r.age + 1, max)

Tick ==
    /\ \A p \in Pods : ~Due(p)
    /\ msg' = [m \in Msgs |-> [msg[m] EXCEPT !.wait = Less(@), !.age = Older(msg[m], Dupe)]]
    /\ job' = [p \in Pods |-> [job[p] EXCEPT !.left = Less(@)]]
    /\ window' = [p \in Pods |-> [k \in Keys |-> Less(window[p][k])]]
    /\ dlq' = [m \in Msgs |-> [dlq[m] EXCEPT !.age = Older(dlq[m], MinAge)]]
    /\ UNCHANGED <<kind, buf, handled, faults>>

-----------------------------------------------------------------------------
Dispatch(p) ==
    \/ Begin(p)
    \/ Succeed(p)
    \/ \E err \in {"transient", "terminal"}, panic \in BOOLEAN : Fail(p, err, panic)
    \/ Backoff(p)
    \/ Park(p)
    \/ Answer(p)

Next ==
    \/ \E p \in Pods, m \in Msgs : Fetch(p, m)
    \/ \E p \in Pods : Dispatch(p) \/ Crash(p)
    \/ \E p \in Pods, k \in Keys : Evict(p, k)
    \/ \E m \in Msgs : Redrive(m)
    \/ Tick

\* Time passes, the broker offers what it may, and a pod works off its buffer.
\* Nothing makes an operator redrive, a pod crash or a window overflow.
Fairness ==
    /\ WF_vars(Tick)
    /\ WF_vars(\E p \in Pods, m \in Msgs : Fetch(p, m))
    /\ \A p \in Pods : WF_vars(Dispatch(p))

Spec == Init /\ [][Next]_vars /\ Fairness

-----------------------------------------------------------------------------
\* An event is never lost to an ack: it was handled, or a message of it is in
\* the stream unacked, or a parked copy of it is in the dead-letter stream.
\* The acks of duplicates and of redriven copies are what could break it.
Accounted ==
    \A k \in Keys :
        \/ handled[k] > 0
        \/ \E m \in Msgs : Key(m) = k /\ (Stored(m) \/ dlq[m].state = "parked")

\* Two pods never run the handler on one message: a handler's context ends,
\* queue included, before the broker offers the message again.
OneRunner ==
    \A p, q \in Pods :
        /\ p # q
        /\ job[p].at \in {"run", "backoff"} /\ job[q].at \in {"run", "backoff"}
        => job[p].m # job[q].m

\* A behaviour without a fault handles an event once at most, redrives and
\* evictions included.
OnceWithoutFault ==
    faults = 0 => \A k \in Keys : handled[k] <= 1

\* An event with retained retries is tried again and again until a handler
\* takes it or refuses it for good: it is never parked for a failure that may
\* pass, and the broker never stops offering it.
RetainedRetried ==
    \A k \in Keys :
        kind[k] = "retained" =>
            []<>(\/ handled[k] > 0
                 \/ \E m \in Msgs : Key(m) = k /\ dlq[m].class = "terminal"
                 \/ \E p \in Pods : job[p].at = "run" /\ Key(job[p].m) = k)

\* Every event is in the end handled or parked, whatever fails on the way, if
\* its handler answers in its budget and its retries are not retained.
EventSettles ==
    \A k \in Keys :
        <>(\/ kind[k] \in {"slow", "retained"}
           \/ handled[k] > 0
           \/ \E m \in Msgs : Key(m) = k /\ dlq[m].state = "parked")

=============================================================================
