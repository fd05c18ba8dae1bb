-------------------------- MODULE BusConsumerProof --------------------------
(***************************************************************************)
(* Proofs about BusConsumer, for any pods, events, kinds, bounds, windows  *)
(* and faults.                                                             *)
(***************************************************************************)
EXTENDS BusConsumer, TLAPS

\* Of wait it is said below that it is a number where that matters.
MsgType(wait) ==
    [state : {"absent", "stored", "acked"}, age : 0..Dupe, wait : {wait}, count : Nat]

ParkType ==
    [state : {"absent", "parked", "drained"}, age : 0..MinAge,
     class : {"none", "transient", "terminal"}]

JobType ==
    [at : {"idle", "run", "backoff", "park", "ack", "nak"}, m : Msgs, left : 0..Budget,
     attempt : Nat, err : {"none", "transient", "terminal"}]

TypeOK ==
    /\ kind \in [Keys -> Kinds]
    /\ msg = [m \in Msgs |-> msg[m]] /\ \A m \in Msgs : msg[m] \in MsgType(msg[m].wait)
    /\ buf \in [Pods -> Seq(Msgs)]
    /\ job \in [Pods -> JobType]
    /\ window \in [Pods -> [Keys -> 0..TTL]]
    /\ dlq \in [Msgs -> ParkType]
    /\ handled \in [Keys -> 0..2]
    /\ faults \in Nat

-----------------------------------------------------------------------------
(***************************************************************************)
(* No event is lost.  A key that is held in a window and not being worked  *)
(* on was handled, or was parked so late that its parked copy is too young *)
(* to be redriven; so is the event of a job that is about to ack.  A parked *)
(* copy whose redriven copy would be swallowed was either redriven already *)
(* or parked again since.                                                  *)
(***************************************************************************)
\* A parked copy of the event, no older than that.
Young(k, age) ==
    handled[k] > 0 \/ \E x \in Msgs : Key(x) = k /\ dlq[x].state = "parked" /\ dlq[x].age <= age

Working(p, k) == job[p].at \in {"run", "backoff", "park"} /\ Key(job[p].m) = k

\* What a key that is held says, and the dispatch of a pod.
HeldInv(p, k) ==
    Held(p, k) =>
        /\ kind[k] # "malformed"
        /\ Working(p, k) \/ Young(k, TTL + Dupe - 1 - window[p][k])

PodInv(p) ==
    /\ job[p].at \in {"run", "backoff"} => kind[Key(job[p].m)] # "malformed"
    /\ job[p].at = "ack" => Young(Key(job[p].m), TTL + Dupe - 1)
    /\ \A k \in Keys : HeldInv(p, k)

DrainInv == \A m \in Msgs : dlq[m].state = "drained" => dlq[m].age = MinAge

Again(m) == <<Key(m), m[2] + 1>>

RedriveInv ==
    \A m \in Msgs :
        /\ m[2] < MaxRedrives /\ msg[Again(m)].state # "absent" /\ msg[Again(m)].age < Dupe
        => dlq[m].age = MinAge \/ dlq[m].age <= msg[Again(m)].age

\* The redrive of a parked copy that would be swallowed.
Swallowed(m) ==
    /\ m[2] < MaxRedrives /\ dlq[m].age = MinAge
    /\ msg[Again(m)].state = "acked" /\ msg[Again(m)].age < Dupe

Kept(k) ==
    \/ handled[k] > 0
    \/ \E m \in Msgs :
        /\ Key(m) = k
        /\ Stored(m) \/ (dlq[m].state = "parked" /\ ~Swallowed(m))

LossInv ==
    /\ \A p \in Pods : PodInv(p)
    /\ DrainInv /\ RedriveInv
    /\ \A k \in Keys : Kept(k)

-----------------------------------------------------------------------------
(***************************************************************************)
(* A message is in the hands of one pod, and its turn there comes, and its *)
(* handler's context ends, before the broker's patience does.              *)
(***************************************************************************)
Busy(p) == job[p].at # "idle"

Queue(i) == i * Budget

Out(m, n) == Stored(m) /\ msg[m].count > 0 /\ msg[m].wait \in Nat /\ n < msg[m].wait

HandInv(p) ==
    /\ ~Busy(p) => job[p].left = 0
    /\ job[p].at = "run" /\ kind[Key(job[p].m)] # "slow" => job[p].left > 0
    /\ Busy(p) => Out(job[p].m, job[p].left)
    /\ \A i \in DOMAIN buf[p] : Out(buf[p][i], job[p].left + Queue(i))
    /\ \A i, j \in DOMAIN buf[p] : buf[p][i] = buf[p][j] => i = j
    /\ Busy(p) => \A i \in DOMAIN buf[p] : buf[p][i] # job[p].m

Has(p, m) == (Busy(p) /\ job[p].m = m) \/ \E i \in DOMAIN buf[p] : buf[p][i] = m

OneHand == \A p, q \in Pods, m \in Msgs : Has(p, m) /\ Has(q, m) => p = q

HandsInv == OneHand /\ \A p \in Pods : HandInv(p)

-----------------------------------------------------------------------------
(***************************************************************************)
(* Without a fault an event has one copy: the last redriven one, which is  *)
(* in the stream, or parked, or done with; a job is about to ack it if it  *)
(* is in the stream and handled or parked.                                 *)
(***************************************************************************)
Acking(m) == \E p \in Pods : job[p].at = "ack" /\ job[p].m = m

OneCopy(k, r) ==
    /\ \A s \in 0..MaxRedrives :
        /\ s > r => msg[<<k, s>>].state = "absent" /\ dlq[<<k, s>>].state = "absent"
        /\ s < r => msg[<<k, s>>].state = "acked" /\ dlq[<<k, s>>].state # "parked"
    /\ msg[<<k, r>>].state # "absent"
    /\ dlq[<<k, r>>].state # "drained"
    /\ handled[k] > 0 => handled[k] = 1 /\ dlq[<<k, r>>].state = "absent"
    /\ Stored(<<k, r>>) /\ (handled[k] > 0 \/ dlq[<<k, r>>].state = "parked") =>
        Acking(<<k, r>>)
    /\ Stored(<<k, r>>) /\ dlq[<<k, r>>].state = "parked" => dlq[<<k, r>>].age = 0

OnceInv == faults = 0 => \A k \in Keys : \E r \in 0..MaxRedrives : OneCopy(k, r)

-----------------------------------------------------------------------------
(* Types, and what a step does to each record.                             *)

\* The bounds are numbers, in the order the tuning checks.
LEMMA Numbers ==
    /\ AckWait \in Nat \ {0} /\ Budget \in Nat \ {0} /\ Lease \in Nat \ {0}
    /\ TTL \in Nat \ {0} /\ Dupe \in Nat \ {0} /\ Margin \in Nat \ {0}
    /\ MaxDeliver \in Nat \ {0} /\ MaxAckPending \in Nat \ {0} /\ MaxAttempts \in Nat \ {0}
    /\ MaxRedrives \in Nat /\ MaxFaults \in Nat
    /\ Budget < AckWait /\ Lease <= TTL /\ Dupe <= Margin
    /\ MinAge \in Nat /\ MinAge = TTL + Margin
BY BusAssumption DEF MinAge

\* A message is an event and the number of its redrives.
LEMMA MsgsFacts ==
    /\ Msgs # {}
    /\ \A m \in Msgs : /\ Key(m) \in Keys /\ m[2] \in 0..MaxRedrives /\ m = <<Key(m), m[2]>>
                       /\ m[2] < MaxRedrives => Again(m) \in Msgs
    /\ \A k \in Keys, r \in 0..MaxRedrives : <<k, r>> \in Msgs /\ Key(<<k, r>>) = k
    /\ \A x, y \in Msgs : Again(x) = Again(y) => x = y
<1>1. \A m \in Msgs : Key(m) \in Keys /\ m[2] \in 0..MaxRedrives /\ m = <<Key(m), m[2]>>
    BY DEF Msgs, Key
<1>2. \A k \in Keys, r \in 0..MaxRedrives : <<k, r>> \in Msgs /\ Key(<<k, r>>) = k
    BY Zenon DEF Msgs, Key
<1>3. \A m \in Msgs : m[2] < MaxRedrives => Again(m) \in Msgs
    BY <1>1, <1>2, Numbers DEF Again
<1>4. \A x, y \in Msgs : Again(x) = Again(y) => x = y
    BY <1>1 DEF Again
<1>5. Msgs # {}
  <2>1. PICK k \in Keys : TRUE BY Zenon, BusAssumption
  <2>2. 0 \in 0..MaxRedrives BY Numbers
  <2> QED BY Zenon, <1>2, <2>1, <2>2
<1> QED BY Zenon, <1>1, <1>2, <1>3, <1>4, <1>5

\* A pod at rest has no time left to run.
LEMMA IdleType == Idle \in JobType /\ Idle.at = "idle" /\ Idle.left = 0
<1>1. (CHOOSE m \in Msgs : TRUE) \in Msgs
    BY Zenon, MsgsFacts
<1> QED BY <1>1, Numbers DEF Idle, JobType

\* A step of one pod's job, or of one message, or of one parked copy.
JobMoves(p) == job' \in [Pods -> JobType] /\ \A q \in Pods \ {p} : job'[q] = job[q]

MsgMoves(m) ==
    /\ msg' = [x \in Msgs |-> msg'[x]]
    /\ msg'[m] \in MsgType(msg'[m].wait)
    /\ \A x \in Msgs \ {m} : msg'[x] = msg[x]

DlqMoves(m) == dlq' \in [Msgs -> ParkType] /\ \A x \in Msgs \ {m} : dlq'[x] = dlq[x]

WindowMoves(p, k) ==
    /\ window' \in [Pods -> [Keys -> 0..TTL]]
    /\ \A q \in Pods, j \in Keys : q # p \/ j # k => window'[q][j] = window[q][j]

\* One pod's job is replaced.
LEMMA SetJob ==
    ASSUME TypeOK, NEW p \in Pods, NEW r \in JobType, job' = [job EXCEPT ![p] = r]
    PROVE  JobMoves(p) /\ job'[p] = r
BY Zenon DEF TypeOK, JobMoves

\* One message's delivery state is replaced.
LEMMA SetMsg ==
    ASSUME TypeOK, NEW m \in Msgs, NEW w, NEW r \in MsgType(w), msg' = [msg EXCEPT ![m] = r]
    PROVE  MsgMoves(m) /\ msg'[m] = r
<1>1. r.wait = w
    BY Zenon DEF MsgType
<1>2. DOMAIN msg = Msgs
    BY Zenon DEF TypeOK
<1> QED BY Zenon, <1>1, <1>2 DEF TypeOK, MsgMoves

\* One parked copy is replaced.
LEMMA SetDlq ==
    ASSUME TypeOK, NEW m \in Msgs, NEW r \in ParkType, dlq' = [dlq EXCEPT ![m] = r]
    PROVE  DlqMoves(m) /\ dlq'[m] = r
BY Zenon DEF TypeOK, DlqMoves

\* One key of one pod's window is replaced.
LEMMA SetWindow ==
    ASSUME TypeOK, NEW p \in Pods, NEW k \in Keys, NEW n \in 0..TTL,
           window' = [window EXCEPT ![p][k] = n]
    PROVE  WindowMoves(p, k) /\ window'[p][k] = n
<1> DEFINE f == [window[p] EXCEPT ![k] = n]
<1>1. f \in [Keys -> 0..TTL] /\ f[k] = n /\ \A j \in Keys \ {k} : f[j] = window[p][j]
    BY Zenon DEF TypeOK
<1>2. window' = [window EXCEPT ![p] = f]
    BY Zenon
<1> HIDE DEF f
<1> QED BY Zenon, <1>1, <1>2 DEF TypeOK, WindowMoves

\* Such replacements keep the types.
LEMMA TypeMoves ==
    ASSUME TypeOK, kind' = kind, buf' \in [Pods -> Seq(Msgs)],
           job' = job \/ \E p \in Pods : JobMoves(p),
           msg' = msg \/ \E m \in Msgs : MsgMoves(m),
           dlq' = dlq \/ \E m \in Msgs : DlqMoves(m),
           window' = window \/ \E p \in Pods, k \in Keys : WindowMoves(p, k),
           handled' \in [Keys -> 0..2], faults' \in Nat
    PROVE  TypeOK'
<1>1. msg' = [m \in Msgs |-> msg'[m]] /\ \A m \in Msgs : msg'[m] \in MsgType(msg'[m].wait)
    BY Zenon DEF TypeOK, MsgMoves
<1>2. job' \in [Pods -> JobType] /\ dlq' \in [Msgs -> ParkType]
      /\ window' \in [Pods -> [Keys -> 0..TTL]]
    BY Zenon DEF TypeOK, JobMoves, DlqMoves, WindowMoves
<1> QED BY Zenon, <1>1, <1>2 DEF TypeOK

\* What a step leaves of the queues, of the counts and of a job's message.
LEMMA Numerals ==
    /\ \A a, b \in Nat : Least(a, b) \in Nat /\ Least(a, b) <= a /\ Least(a, b) <= b
    /\ \A a, b \in Nat : a > 0 /\ b > 0 => Least(a, b) > 0
    /\ \A h \in 0..2 : Least(h + 1, 2) \in 0..2 /\ Least(h + 1, 2) > 0
                       /\ Least(h + 1, 2) >= h /\ (h = 0 => Least(h + 1, 2) = 1)
    /\ \A n \in Nat : Less(n) \in Nat /\ Less(n) <= n /\ (n > 0 => Less(n) = n - 1)
BY DEF Least, Less

\* A job goes on at another point.
LEMMA AtDo ==
    ASSUME TypeOK, NEW p \in Pods, NEW at \in {"idle", "run", "backoff", "park", "ack", "nak"},
           job' = At(p, at)
    PROVE  JobMoves(p) /\ job'[p].at = at /\ job'[p].m = job[p].m /\ job'[p].left = job[p].left
<1>1. [job[p] EXCEPT !.at = at] \in JobType
    BY Zenon DEF TypeOK, JobType
<1>2. job' = [job EXCEPT ![p] = [job[p] EXCEPT !.at = at]]
    BY Zenon DEF At
<1>3. JobMoves(p) /\ job'[p] = [job[p] EXCEPT !.at = at]
    BY Zenon, <1>1, <1>2, SetJob
<1> QED BY <1>3 DEF TypeOK, JobType

\* A parked copy is there after its publish, new or swallowed as a duplicate.
LEMMA ParkedDo ==
    ASSUME TypeOK, DrainInv, NEW m \in Msgs, NEW c \in {"none", "transient", "terminal"},
           dlq' = Parked(m, c)
    PROVE  /\ dlq' = dlq \/ (DlqMoves(m) /\ dlq'[m].age = 0)
           /\ dlq'[m].state = "parked" /\ dlq'[m].age < Dupe
<1>1. CASE dlq[m].state # "absent" /\ dlq[m].age < Dupe
  <2>1. dlq' = dlq BY Zenon, <1>1 DEF Parked
  <2>2. dlq[m] \in ParkType BY Zenon DEF TypeOK
  <2>3. dlq[m].state # "drained" BY <1>1, <2>2, Numbers DEF DrainInv, ParkType
  <2> QED BY Zenon, <1>1, <2>1, <2>2, <2>3 DEF ParkType
<1>2. CASE ~(dlq[m].state # "absent" /\ dlq[m].age < Dupe)
  <2> DEFINE r == [state |-> "parked", age |-> 0, class |-> c]
  <2>1. r \in ParkType /\ r.state = "parked" /\ r.age = 0 BY Numbers DEF ParkType
  <2>2. dlq' = [dlq EXCEPT ![m] = r] BY Zenon, <1>2 DEF Parked
  <2> HIDE DEF r
  <2>3. DlqMoves(m) /\ dlq'[m] = r BY Zenon, <2>1, <2>2, SetDlq
  <2> QED BY <2>1, <2>3, Numbers
<1> QED BY Zenon, <1>1, <1>2

\* Release forgets the key.
LEMMA ReleaseDo ==
    ASSUME TypeOK, NEW p \in Pods, NEW k \in Keys, window' = Release(p, k)
    PROVE  WindowMoves(p, k) /\ window'[p][k] = 0
<1>1. 0 \in 0..TTL
    BY Numbers
<1> QED BY Zenon, <1>1, SetWindow DEF Release

\* Commit holds the key for the whole retention.
LEMMA CommitDo ==
    ASSUME TypeOK, NEW p \in Pods, NEW k \in Keys, window' = Commit(p, k)
    PROVE  WindowMoves(p, k) /\ window'[p][k] = TTL
<1>1. TTL \in 0..TTL
    BY Numbers
<1> QED BY Zenon, <1>1, SetWindow DEF Commit

\* Claim holds the key for a lease.
LEMMA ClaimDo ==
    ASSUME TypeOK, NEW p \in Pods, NEW k \in Keys, window' = Claim(p, k)
    PROVE  WindowMoves(p, k) /\ window'[p][k] = Lease
<1>1. Lease \in 0..TTL
    BY Numbers
<1> QED BY Zenon, <1>1, SetWindow DEF Claim

\* What an offer of the broker does.
LEMMA FetchDo ==
    ASSUME TypeOK, NEW p \in Pods, NEW m \in Msgs, Fetch(p, m)
    PROVE  /\ TypeOK'
           /\ MsgMoves(m)
           /\ msg'[m].state = msg[m].state /\ msg'[m].age = msg[m].age
           /\ msg'[m].wait = AckWait /\ msg'[m].count > 0
<1> DEFINE c == Least(msg[m].count + 1, MaxDeliver)
           r == [msg[m] EXCEPT !.wait = AckWait, !.count = c]
<1>1. msg[m] \in MsgType(msg[m].wait)
    BY Zenon DEF TypeOK
<1>2. c \in Nat /\ c > 0
  <2>1. msg[m].count + 1 \in Nat /\ msg[m].count + 1 > 0 BY <1>1 DEF MsgType
  <2> QED BY <2>1, Numbers DEF Least
<1>3. msg' = [msg EXCEPT ![m] = r]
    BY Zenon DEF Fetch, TypeOK
<1> HIDE DEF c
<1>4. /\ r \in MsgType(AckWait) /\ r.state = msg[m].state /\ r.age = msg[m].age
      /\ r.wait = AckWait /\ r.count > 0
    BY Zenon, <1>1, <1>2 DEF MsgType
<1> HIDE DEF r
<1>5. MsgMoves(m) /\ msg'[m] = r
    BY Zenon, <1>3, <1>4, SetMsg
<1>6. buf' \in [Pods -> Seq(Msgs)]
    BY DEF Fetch, TypeOK
<1>7. TypeOK'
    BY Zenon, <1>5, <1>6, TypeMoves DEF Fetch, TypeOK
<1> QED BY Zenon, <1>4, <1>5, <1>7

\* What taking the next message off the buffer does.
LEMMA BeginDo ==
    ASSUME TypeOK, NEW p \in Pods, Begin(p)
    PROVE  LET m == Head(buf[p]) IN
           /\ TypeOK' /\ m \in Msgs /\ JobMoves(p)
           /\ buf[p] # <<>> /\ buf' = [buf EXCEPT ![p] = Tail(buf[p])]
           /\ job'[p].m = m /\ job'[p].left = Budget
           /\ \/ /\ kind[Key(m)] = "malformed"
                 /\ job'[p].at = "park" /\ window' = window
              \/ /\ kind[Key(m)] # "malformed" /\ Held(p, Key(m))
                 /\ job'[p].at = "ack" /\ window' = window
              \/ /\ kind[Key(m)] # "malformed" /\ ~Held(p, Key(m))
                 /\ job'[p].at = "run"
                 /\ WindowMoves(p, Key(m)) /\ window'[p][Key(m)] = Lease
<1> DEFINE m == Head(buf[p])
           r(x, e) == [at |-> x, m |-> m, left |-> Budget, attempt |-> 1, err |-> e]
<1>1. buf[p] \in Seq(Msgs) /\ buf[p] # <<>>
    BY Zenon DEF TypeOK, Begin
<1>2. m \in Msgs /\ Tail(buf[p]) \in Seq(Msgs)
    BY <1>1
<1>3. buf' \in [Pods -> Seq(Msgs)] /\ buf' = [buf EXCEPT ![p] = Tail(buf[p])]
    BY Zenon, <1>2 DEF TypeOK, Begin
<1>4. Key(m) \in Keys
    BY Zenon, <1>2, MsgsFacts
<1>5. /\ r("park", "terminal") \in JobType /\ r("ack", "none") \in JobType
      /\ r("run", "none") \in JobType
    <2> HIDE DEF m
    <2> QED BY <1>2, Numbers DEF JobType
<1>6. \/ /\ kind[Key(m)] = "malformed"
         /\ job' = [job EXCEPT ![p] = r("park", "terminal")] /\ window' = window
      \/ /\ kind[Key(m)] # "malformed" /\ Held(p, Key(m))
         /\ job' = [job EXCEPT ![p] = r("ack", "none")] /\ window' = window
      \/ /\ kind[Key(m)] # "malformed" /\ ~Held(p, Key(m))
         /\ job' = [job EXCEPT ![p] = r("run", "none")]
         /\ window' = Claim(p, Key(m))
    BY Zenon DEF Begin
<1>7. /\ kind' = kind /\ msg' = msg /\ dlq' = dlq
      /\ handled' \in [Keys -> 0..2] /\ faults' \in Nat
    BY Zenon DEF Begin, TypeOK
<1> HIDE DEF m
<1>8. /\ JobMoves(p) /\ job'[p].m = m /\ job'[p].left = Budget
      /\ \/ /\ kind[Key(m)] = "malformed"
            /\ job'[p].at = "park" /\ window' = window
         \/ /\ kind[Key(m)] # "malformed" /\ Held(p, Key(m))
            /\ job'[p].at = "ack" /\ window' = window
         \/ /\ kind[Key(m)] # "malformed" /\ ~Held(p, Key(m))
            /\ job'[p].at = "run"
            /\ WindowMoves(p, Key(m)) /\ window'[p][Key(m)] = Lease
  <2>1. CASE job' = [job EXCEPT ![p] = r("park", "terminal")] /\ kind[Key(m)] = "malformed"
             /\ window' = window
    <3>1. JobMoves(p) /\ job'[p] = r("park", "terminal") BY Zenon, <1>5, <2>1, SetJob
    <3> QED BY <2>1, <3>1
  <2>2. CASE job' = [job EXCEPT ![p] = r("ack", "none")] /\ kind[Key(m)] # "malformed"
             /\ Held(p, Key(m)) /\ window' = window
    <3>1. JobMoves(p) /\ job'[p] = r("ack", "none") BY Zenon, <1>5, <2>2, SetJob
    <3> QED BY <2>2, <3>1
  <2>3. CASE job' = [job EXCEPT ![p] = r("run", "none")] /\ kind[Key(m)] # "malformed"
             /\ ~Held(p, Key(m)) /\ window' = Claim(p, Key(m))
    <3>1. JobMoves(p) /\ job'[p] = r("run", "none") BY Zenon, <1>5, <2>3, SetJob
    <3>2. WindowMoves(p, Key(m)) /\ window'[p][Key(m)] = Lease BY Zenon, <1>4, <2>3, ClaimDo
    <3> QED BY <2>3, <3>1, <3>2
  <2> QED BY Zenon, <1>6, <2>1, <2>2, <2>3
<1>9. TypeOK'
    BY Zenon, <1>3, <1>4, <1>7, <1>8, TypeMoves
<1> QED BY Zenon, <1>1, <1>2, <1>3, <1>8, <1>9 DEF m

\* What the type says of a pod's job.
LEMMA JobFacts ==
    ASSUME TypeOK, NEW p \in Pods
    PROVE  /\ job[p] \in JobType /\ job[p].m \in Msgs /\ Key(job[p].m) \in Keys
           /\ job[p].err \in {"none", "transient", "terminal"} /\ job[p].left \in 0..Budget
<1>1. job[p] \in JobType
    BY Zenon DEF TypeOK
<1>2. /\ job[p].m \in Msgs /\ job[p].err \in {"none", "transient", "terminal"}
      /\ job[p].left \in 0..Budget
    BY Zenon, <1>1 DEF JobType
<1> QED BY Zenon, <1>1, <1>2, MsgsFacts

\* What a handler's success does.
LEMMA SucceedDo ==
    ASSUME TypeOK, NEW p \in Pods, Succeed(p)
    PROVE  LET k == Key(job[p].m) IN
           /\ TypeOK' /\ JobMoves(p) /\ WindowMoves(p, k)
           /\ job'[p].at = "ack" /\ job'[p].m = job[p].m /\ job'[p].left = job[p].left
           /\ window'[p][k] = TTL
           /\ handled'[k] > 0 /\ (handled[k] = 0 => handled'[k] = 1)
           /\ \A j \in Keys : handled'[j] >= handled[j] /\ (j # k => handled'[j] = handled[j])
<1> DEFINE k == Key(job[p].m)
<1>1. k \in Keys
    BY Zenon, JobFacts
<1>2. JobMoves(p) /\ job'[p].at = "ack" /\ job'[p].m = job[p].m /\ job'[p].left = job[p].left
    BY Zenon, AtDo DEF Succeed
<1>3. window' = Commit(p, k) /\ handled' = [handled EXCEPT ![k] = Least(handled[k] + 1, 2)]
    BY Zenon DEF Succeed
<1> HIDE DEF k
<1>4. WindowMoves(p, k) /\ window'[p][k] = TTL
    BY Zenon, <1>1, <1>3, CommitDo
<1>5. /\ handled' \in [Keys -> 0..2] /\ handled'[k] > 0 /\ (handled[k] = 0 => handled'[k] = 1)
      /\ \A j \in Keys : handled'[j] >= handled[j] /\ (j # k => handled'[j] = handled[j])
  <2> DEFINE n == Least(handled[k] + 1, 2)
  <2>1. n \in 0..2 /\ n > 0 /\ n >= handled[k] /\ (handled[k] = 0 => n = 1)
    BY Zenon, <1>1, Numerals DEF TypeOK
  <2> HIDE DEF n
  <2>2. handled' = [handled EXCEPT ![k] = n]
    BY Zenon, <1>3 DEF n
  <2>3. handled \in [Keys -> 0..2]
    BY Zenon DEF TypeOK
  <2>4. /\ handled' \in [Keys -> 0..2] /\ handled'[k] = n
        /\ \A j \in Keys : j # k => handled'[j] = handled[j]
    BY Zenon, <1>1, <2>1, <2>2, <2>3
  <2>5. \A j \in Keys : handled'[j] >= handled[j]
    BY <2>1, <2>3, <2>4
  <2> QED BY Zenon, <2>1, <2>4, <2>5
<1>6. kind' = kind /\ buf' \in [Pods -> Seq(Msgs)] /\ msg' = msg /\ dlq' = dlq /\ faults' \in Nat
    BY Zenon DEF Succeed, TypeOK
<1>7. TypeOK'
    BY Zenon, <1>1, <1>2, <1>4, <1>5, <1>6, TypeMoves
<1> QED BY Zenon, <1>2, <1>4, <1>5, <1>7 DEF k

\* What a handler's failure does.
LEMMA FailDo ==
    ASSUME TypeOK, NEW p \in Pods, NEW err \in {"transient", "terminal"}, NEW panic,
           Fail(p, err, panic)
    PROVE  LET k == Key(job[p].m) IN
           /\ TypeOK' /\ JobMoves(p)
           /\ job'[p].m = job[p].m /\ job'[p].left = job[p].left
           /\ \/ job'[p].at \in {"backoff", "park"} /\ window' = window
              \/ job'[p].at = "nak" /\ WindowMoves(p, k) /\ window'[p][k] = 0
<1> DEFINE k == Key(job[p].m)
<1>1. k \in Keys
    BY Zenon, JobFacts
<1>2. PICK at \in {"backoff", "park", "nak"} :
        /\ job' = [job EXCEPT ![p] = [job[p] EXCEPT !.at = at, !.err = err]]
        /\ IF at = "nak" THEN window' = Release(p, k) ELSE window' = window
  <2> DEFINE last == panic \/ job[p].attempt = MaxAttempts
             retain == last /\ kind[k] = "retained" /\ err = "transient"
             at == IF ~last THEN "backoff" ELSE IF retain THEN "nak" ELSE "park"
  <2>1. job' = [job EXCEPT ![p] = [job[p] EXCEPT !.at = at, !.err = err]]
    BY Zenon DEF Fail, TypeOK
  <2>2. window' = IF retain THEN Release(p, k) ELSE window
    BY Zenon DEF Fail
  <2>3. at \in {"backoff", "park", "nak"} /\ (at = "nak" <=> retain)
    BY Zenon
  <2> HIDE DEF at, retain
  <2> QED BY Zenon, <2>1, <2>2, <2>3
<1>3. [job[p] EXCEPT !.at = at, !.err = err] \in JobType
    BY Zenon, JobFacts DEF JobType
<1>4. JobMoves(p) /\ job'[p] = [job[p] EXCEPT !.at = at, !.err = err]
    BY Zenon, <1>2, <1>3, SetJob
<1>5. job'[p].at = at /\ job'[p].m = job[p].m /\ job'[p].left = job[p].left
    BY Zenon, <1>4, JobFacts DEF JobType
<1> HIDE DEF k
<1>6. \/ at \in {"backoff", "park"} /\ window' = window
      \/ at = "nak" /\ WindowMoves(p, k) /\ window'[p][k] = 0
    BY Zenon, <1>1, <1>2, ReleaseDo
<1>7. /\ kind' = kind /\ buf' \in [Pods -> Seq(Msgs)] /\ msg' = msg /\ dlq' = dlq
      /\ handled' \in [Keys -> 0..2] /\ faults' \in Nat
    BY Zenon DEF Fail, TypeOK
<1>8. TypeOK'
    BY Zenon, <1>1, <1>4, <1>6, <1>7, TypeMoves
<1> QED BY Zenon, <1>4, <1>5, <1>6, <1>8 DEF k

\* What a wait before the next attempt does.
LEMMA BackoffDo ==
    ASSUME TypeOK, NEW p \in Pods, Backoff(p)
    PROVE  LET k == Key(job[p].m) IN
           /\ TypeOK' /\ JobMoves(p)
           /\ job'[p].m = job[p].m /\ job'[p].left = job[p].left
           /\ \/ job'[p].at = "run" /\ job[p].left > 0 /\ window' = window
              \/ job'[p].at = "nak" /\ WindowMoves(p, k) /\ window'[p][k] = 0
<1> DEFINE k == Key(job[p].m)
<1>1. k \in Keys
    BY Zenon, JobFacts
<1>2. /\ kind' = kind /\ buf' \in [Pods -> Seq(Msgs)] /\ msg' = msg /\ dlq' = dlq
      /\ handled' \in [Keys -> 0..2] /\ faults' \in Nat
    BY Zenon DEF Backoff, TypeOK
<1>3. /\ JobMoves(p) /\ job'[p].m = job[p].m /\ job'[p].left = job[p].left
      /\ \/ job'[p].at = "run" /\ job[p].left > 0 /\ window' = window
         \/ job'[p].at = "nak" /\ WindowMoves(p, k) /\ window'[p][k] = 0
  <2> DEFINE n == job[p].attempt + 1
             r == [job[p] EXCEPT !.at = "run", !.attempt = n]
  <2>1. CASE job[p].left > 0 /\ job' = [job EXCEPT ![p] = r] /\ window' = window
    <3>1. r \in JobType /\ r.at = "run" /\ r.m = job[p].m /\ r.left = job[p].left
      <4>1. n \in Nat
        BY JobFacts DEF JobType
      <4> HIDE DEF n
      <4> QED BY Zenon, <4>1, JobFacts DEF JobType
    <3> HIDE DEF r
    <3> QED BY Zenon, <2>1, <3>1, SetJob
  <2>2. CASE job' = At(p, "nak") /\ window' = Release(p, k)
    BY Zenon, <1>1, <2>2, AtDo, ReleaseDo
  <2> QED BY Zenon, <2>1, <2>2 DEF Backoff, TypeOK
<1>4. TypeOK'
    BY Zenon, <1>1, <1>2, <1>3, TypeMoves
<1> QED BY Zenon, <1>3, <1>4

\* What parking an event does.
LEMMA ParkDo ==
    ASSUME TypeOK, DrainInv, NEW p \in Pods, Park(p)
    PROVE  LET m == job[p].m
               k == Key(m)
           IN
           /\ TypeOK' /\ JobMoves(p)
           /\ job'[p].m = m /\ job'[p].left = job[p].left
           /\ dlq' = dlq \/ (DlqMoves(m) /\ dlq'[m].age = 0 /\ dlq'[m].state = "parked")
           /\ kind[k] = "malformed" => window' = window
           /\ kind[k] # "malformed" => WindowMoves(p, k)
           /\ \/ /\ job'[p].at = "ack" /\ faults' = faults
                 /\ dlq'[m].state = "parked" /\ dlq'[m].age < Dupe
              \/ /\ job'[p].at = "nak" /\ (faults' = faults => dlq' = dlq)
                 /\ kind[k] # "malformed" => window'[p][k] = 0
<1> DEFINE m == job[p].m
           k == Key(m)
<1>1. m \in Msgs /\ k \in Keys /\ job[p].err \in {"none", "transient", "terminal"}
    BY Zenon, JobFacts
<1>2. /\ kind' = kind /\ buf' \in [Pods -> Seq(Msgs)] /\ msg' = msg
      /\ handled' \in [Keys -> 0..2] /\ faults' \in Nat
    BY DEF Park, TypeOK, Fault
<1>3. dlq' = Parked(m, job[p].err) =>
        /\ dlq' = dlq \/ (DlqMoves(m) /\ dlq'[m].age = 0 /\ dlq'[m].state = "parked")
        /\ dlq'[m].state = "parked" /\ dlq'[m].age < Dupe
    BY Zenon, <1>1, ParkedDo
<1>4. CASE /\ dlq' = Parked(m, job[p].err) /\ job' = At(p, "ack") /\ faults' = faults
           /\ window' = IF kind[k] # "malformed" THEN Commit(p, k) ELSE window
  <2>1. /\ JobMoves(p) /\ job'[p].m = m /\ job'[p].left = job[p].left /\ job'[p].at = "ack"
        /\ kind[k] # "malformed" => WindowMoves(p, k)
        /\ kind[k] = "malformed" => window' = window
    <3> HIDE DEF k
    <3> QED BY Zenon, <1>1, <1>4, AtDo, CommitDo
  <2>2. TypeOK'
    BY Zenon, <1>1, <1>2, <1>3, <1>4, <2>1, TypeMoves
  <2> QED BY Zenon, <1>3, <1>4, <2>1, <2>2
<1>5. CASE /\ dlq' = dlq \/ dlq' = Parked(m, job[p].err)
           /\ faults' = faults => dlq' = dlq
           /\ job' = At(p, "nak")
           /\ window' = IF kind[k] # "malformed" THEN Release(p, k) ELSE window
  <2>1. /\ JobMoves(p) /\ job'[p].m = m /\ job'[p].left = job[p].left /\ job'[p].at = "nak"
        /\ kind[k] # "malformed" => WindowMoves(p, k) /\ window'[p][k] = 0
        /\ kind[k] = "malformed" => window' = window
    <3> HIDE DEF k
    <3> QED BY Zenon, <1>1, <1>5, AtDo, ReleaseDo
  <2>2. TypeOK'
    BY Zenon, <1>1, <1>2, <1>3, <1>5, <2>1, TypeMoves
  <2> QED BY Zenon, <1>3, <1>5, <2>1, <2>2
<1>6. faults' = faults => ~Fault
    BY DEF Fault, TypeOK
<1> QED BY Zenon, <1>4, <1>5, <1>6 DEF Park

\* What the answer to the broker does.
LEMMA AnswerDo ==
    ASSUME TypeOK, NEW p \in Pods, Answer(p)
    PROVE  LET m == job[p].m IN
           /\ TypeOK' /\ JobMoves(p) /\ job'[p] = Idle
           /\ \/ msg' = msg /\ (faults' = faults => ~Stored(m))
              \/ /\ Stored(m) /\ MsgMoves(m) /\ faults' = faults /\ msg'[m].age = msg[m].age
                 /\ \/ job[p].at = "ack" /\ msg'[m].state = "acked"
                    \/ job[p].at = "nak" /\ msg'[m].state = "stored"
<1> DEFINE m == job[p].m
<1>1. m \in Msgs
    BY Zenon, JobFacts
<1>2. /\ kind' = kind /\ buf' \in [Pods -> Seq(Msgs)] /\ dlq' = dlq /\ window' = window
      /\ handled' \in [Keys -> 0..2] /\ faults' \in Nat
    BY DEF Answer, TypeOK, Fault
<1>3. JobMoves(p) /\ job'[p] = Idle
    BY Zenon, IdleType, SetJob DEF Answer
<1>4. job[p].at \in {"ack", "nak"}
    BY Zenon DEF Answer
<1> HIDE DEF m
<1>5. \/ msg' = msg /\ (faults' = faults => ~Stored(m))
      \/ /\ Stored(m) /\ MsgMoves(m) /\ faults' = faults /\ msg'[m].age = msg[m].age
         /\ \/ job[p].at = "ack" /\ msg'[m].state = "acked"
            \/ job[p].at = "nak" /\ msg'[m].state = "stored"
  <2> DEFINE w == nakDelay[msg[m].count]
             a == [NoMsg EXCEPT !.state = "acked", !.age = msg[m].age]
             b == [msg[m] EXCEPT !.wait = w]
  <2>1. msg[m] \in MsgType(msg[m].wait)
    BY Zenon, <1>1 DEF TypeOK
  <2>2. a \in MsgType(0) /\ a.state = "acked" /\ a.age = msg[m].age
    BY Zenon, <2>1, Numbers DEF MsgType, NoMsg
  <2>3. b \in MsgType(w) /\ b.state = msg[m].state /\ b.age = msg[m].age
    <3> HIDE DEF w
    <3> QED BY Zenon, <2>1 DEF MsgType
  <2>4. \/ msg' = msg /\ (~Stored(m) \/ Fault)
        \/ Stored(m) /\ job[p].at = "ack" /\ msg' = [msg EXCEPT ![m] = a] /\ faults' = faults
        \/ Stored(m) /\ job[p].at = "nak" /\ msg' = [msg EXCEPT ![m] = b] /\ faults' = faults
    BY Zenon, <1>4 DEF Answer, m, TypeOK
  <2> HIDE DEF a, b
  <2>5. CASE msg' = msg /\ (~Stored(m) \/ Fault)
    BY <2>5 DEF Fault, TypeOK
  <2>6. CASE Stored(m) /\ job[p].at = "ack" /\ msg' = [msg EXCEPT ![m] = a] /\ faults' = faults
    BY Zenon, <1>1, <2>2, <2>6, SetMsg
  <2>7. CASE Stored(m) /\ job[p].at = "nak" /\ msg' = [msg EXCEPT ![m] = b] /\ faults' = faults
    <3>1. MsgMoves(m) /\ msg'[m] = b
      BY Zenon, <1>1, <2>3, <2>7, SetMsg
    <3>2. msg[m].state = "stored"
      BY Zenon, <2>7 DEF Stored
    <3> QED BY Zenon, <2>3, <2>7, <3>1, <3>2
  <2> QED BY Zenon, <2>4, <2>5, <2>6, <2>7
<1>6. TypeOK'
    BY Zenon, <1>1, <1>2, <1>3, <1>5, TypeMoves
<1> QED BY Zenon, <1>3, <1>5, <1>6 DEF m

\* What a pod's crash does.
LEMMA CrashDo ==
    ASSUME TypeOK, NEW p \in Pods, Crash(p)
    PROVE  /\ TypeOK' /\ JobMoves(p) /\ job'[p] = Idle /\ faults' # faults
           /\ \A k \in Keys : window'[p][k] = 0 /\ \A q \in Pods \ {p} : window'[q] = window[q]
<1>1. JobMoves(p) /\ job'[p] = Idle
    BY Zenon, IdleType, SetJob DEF Crash
<1>2. [k \in Keys |-> 0] \in [Keys -> 0..TTL]
    BY Numbers
<1>3. /\ window' \in [Pods -> [Keys -> 0..TTL]]
      /\ window'[p] = [k \in Keys |-> 0] /\ \A q \in Pods \ {p} : window'[q] = window[q]
  <2> DEFINE f == [k \in Keys |-> 0]
  <2>1. f \in [Keys -> 0..TTL] /\ window' = [window EXCEPT ![p] = f]
    BY Zenon, <1>2 DEF Crash
  <2> HIDE DEF f
  <2>2. /\ window' \in [Pods -> [Keys -> 0..TTL]]
        /\ window'[p] = f /\ \A q \in Pods \ {p} : window'[q] = window[q]
    BY Zenon, <2>1 DEF TypeOK
  <2> QED BY Zenon, <2>2 DEF f
<1>4. buf' \in [Pods -> Seq(Msgs)] /\ faults' \in Nat /\ faults' # faults
    BY DEF Crash, TypeOK, Fault
<1>5. TypeOK'
    BY Zenon, <1>1, <1>3, <1>4 DEF Crash, TypeOK, JobMoves
<1> QED BY Zenon, <1>1, <1>3, <1>4, <1>5

\* What redriving a parked copy does.
LEMMA RedriveDo ==
    ASSUME TypeOK, NEW y \in Msgs, Redrive(y)
    PROVE  /\ TypeOK' /\ y[2] < MaxRedrives /\ Again(y) \in Msgs
           /\ dlq[y].state = "parked" /\ dlq[y].age = MinAge
           /\ \/ /\ msg' = msg
                 /\ \/ Stored(Again(y))
                    \/ msg[Again(y)].state = "acked" /\ msg[Again(y)].age < Dupe
              \/ MsgMoves(Again(y)) /\ msg'[Again(y)].state = "stored"
           /\ dlq' = dlq \/ (DlqMoves(y) /\ dlq'[y].state = "drained" /\ dlq'[y].age = MinAge)
           /\ faults' = faults => dlq'[y].state = "drained"
<1>1. y[2] < MaxRedrives /\ Again(y) \in Msgs
    BY Zenon, MsgsFacts DEF Redrive
<1>2. dlq[y] \in ParkType
    BY Zenon DEF TypeOK
<1>3. dlq[y].state = "parked" /\ dlq[y].age = MinAge
    BY <1>2, Numbers DEF Redrive, ParkType
<1>4. \/ /\ msg' = msg
         /\ \/ Stored(Again(y))
            \/ msg[Again(y)].state = "acked" /\ msg[Again(y)].age < Dupe
      \/ MsgMoves(Again(y)) /\ msg'[Again(y)].state = "stored"
  <2> DEFINE n == Again(y)
             r == [NoMsg EXCEPT !.state = "stored"]
  <2>1. r \in MsgType(0) /\ r.state = "stored"
    BY Numbers DEF NoMsg, MsgType
  <2>2. msg' = Publish(n)
    BY Zenon DEF Redrive, Again
  <2> HIDE DEF n
  <2>3. CASE Stored(n) \/ (msg[n].state = "acked" /\ msg[n].age < Dupe)
    BY Zenon, <2>2, <2>3 DEF Publish, n
  <2>4. CASE ~(Stored(n) \/ (msg[n].state = "acked" /\ msg[n].age < Dupe))
    <3>1. msg' = [msg EXCEPT ![n] = r] BY Zenon, <2>2, <2>4 DEF Publish
    <3> HIDE DEF r
    <3>2. n \in Msgs BY Zenon, <1>1 DEF n
    <3>3. MsgMoves(n) /\ msg'[n] = r BY Zenon, <2>1, <3>1, <3>2, SetMsg
    <3> QED BY Zenon, <2>1, <3>3 DEF n
  <2> QED BY Zenon, <2>3, <2>4
<1>5. /\ dlq' = dlq \/ (DlqMoves(y) /\ dlq'[y].state = "drained" /\ dlq'[y].age = MinAge)
      /\ faults' = faults => dlq'[y].state = "drained"
      /\ faults' \in Nat
  <2> DEFINE r == [dlq[y] EXCEPT !.state = "drained"]
  <2>1. r \in ParkType /\ r.state = "drained" /\ r.age = MinAge
    BY Zenon, <1>2, <1>3 DEF ParkType
  <2>2. CASE dlq' = [dlq EXCEPT ![y] = r] /\ faults' = faults
    <3> HIDE DEF r
    <3>1. DlqMoves(y) /\ dlq'[y] = r BY Zenon, <2>1, <2>2, SetDlq
    <3> QED BY Zenon, <2>1, <2>2, <3>1 DEF TypeOK
  <2>3. CASE Fault /\ dlq' = dlq
    BY <2>3 DEF Fault, TypeOK
  <2> QED BY Zenon, <2>2, <2>3 DEF Redrive, TypeOK
<1>6. TypeOK'
  <2>1. msg' = msg \/ \E m \in Msgs : MsgMoves(m) BY Zenon, <1>1, <1>4
  <2>2. dlq' = dlq \/ \E m \in Msgs : DlqMoves(m) BY Zenon, <1>5
  <2>3. /\ kind' = kind /\ buf' \in [Pods -> Seq(Msgs)] /\ job' = job /\ window' = window
        /\ handled' \in [Keys -> 0..2]
    BY Zenon DEF Redrive, TypeOK
  <2> QED BY Zenon, <1>5, <2>1, <2>2, <2>3, TypeMoves
<1> QED BY Zenon, <1>1, <1>3, <1>4, <1>5, <1>6

-----------------------------------------------------------------------------
(* No event is lost.                                                       *)

\* What every step but a tick does to a parked copy: nothing, or it is parked
\* anew, or it was old enough to be redriven.
DlqStep(x) ==
    \/ dlq'[x] = dlq[x]
    \/ dlq'[x].state = "parked" /\ dlq'[x].age = 0
    \/ dlq[x].age = MinAge /\ dlq'[x].state = "drained" /\ dlq'[x].age = MinAge

Calm ==
    /\ kind' = kind
    /\ \A k \in Keys : handled'[k] >= handled[k]
    /\ \A x \in Msgs : DlqStep(x)

\* What the type says of a message and its parked copy.
LEMMA CopyFacts ==
    ASSUME TypeOK, NEW x \in Msgs
    PROVE  /\ dlq[x].age \in 0..MinAge /\ msg[x].age \in 0..Dupe /\ msg[x].count \in Nat
           /\ dlq[x].state \in {"absent", "parked", "drained"}
           /\ msg[x].state \in {"absent", "stored", "acked"}
<1>1. dlq[x] \in ParkType /\ msg[x] \in MsgType(msg[x].wait)
    BY Zenon DEF TypeOK
<1> QED BY Zenon, <1>1 DEF ParkType, MsgType

\* What the type says of a key.
LEMMA Counts ==
    ASSUME TypeOK, NEW k \in Keys
    PROVE  handled[k] \in 0..2 /\ \A p \in Pods : window[p][k] \in 0..TTL
BY Zenon DEF TypeOK

\* What every step but a tick, a redrive and an ack does to the streams.
Still ==
    /\ Calm
    /\ \A x \in Msgs : msg'[x].state = msg[x].state /\ msg'[x].age = msg[x].age
    /\ \A x \in Msgs : dlq'[x] = dlq[x] \/ (dlq'[x].state = "parked" /\ dlq'[x].age = 0)

\* Time passes only when nothing is overdue.
LEMMA TickIs ==
    ASSUME Tick
    PROVE  /\ \A p \in Pods : ~Due(p)
           /\ kind' = kind /\ buf' = buf /\ handled' = handled /\ faults' = faults
BY Zenon DEF Tick

\* Time passes for everything.
LEMMA TickDo ==
    ASSUME TypeOK, Tick
    PROVE  /\ TypeOK'
           /\ \A x \in Msgs : /\ msg'[x].state = msg[x].state /\ msg'[x].count = msg[x].count
                              /\ msg'[x].age = Older(msg[x], Dupe)
                              /\ msg'[x].wait = Less(msg[x].wait)
                              /\ dlq'[x].state = dlq[x].state
                              /\ dlq'[x].age = Older(dlq[x], MinAge)
           /\ \A p \in Pods : /\ job'[p].at = job[p].at /\ job'[p].m = job[p].m
                              /\ job'[p].left = Less(job[p].left)
                              /\ \A k \in Keys : window'[p][k] = Less(window[p][k])
<1>OlderFacts.
      /\ \A x \in Msgs : TypeOK => Older(msg[x], Dupe) \in 0..Dupe /\ Older(dlq[x], MinAge) \in 0..MinAge
      /\ \A n \in 0..TTL : Less(n) \in 0..TTL
      /\ \A n \in 0..Budget : Less(n) \in 0..Budget
  <2>1. ASSUME NEW x \in Msgs, TypeOK
        PROVE  Older(msg[x], Dupe) \in 0..Dupe /\ Older(dlq[x], MinAge) \in 0..MinAge
      BY <2>1, CopyFacts, Numbers DEF Older, Least
  <2>2. \A n \in 0..TTL : Less(n) \in 0..TTL
      BY Numbers DEF Less
  <2>3. \A n \in 0..Budget : Less(n) \in 0..Budget
      BY Numbers DEF Less
  <2> QED BY Zenon, <2>1, <2>2, <2>3
<1>TickMsg.
      ASSUME Tick
      PROVE  /\ msg' = [x \in Msgs |-> msg'[x]]
             /\ \A x \in Msgs :
                  msg'[x] = [msg[x] EXCEPT !.wait = Less(msg[x].wait), !.age = Older(msg[x], Dupe)]
  <2> USE <1>TickMsg
  <2>1. msg' = [m \in Msgs |-> [msg[m] EXCEPT !.wait = Less(msg[m].wait), !.age = Older(msg[m], Dupe)]]
      BY Zenon DEF Tick
  <2>2. \A x \in Msgs :
          msg'[x] = [msg[x] EXCEPT !.wait = Less(msg[x].wait), !.age = Older(msg[x], Dupe)]
      BY Zenon, <2>1
  <2> QED BY Zenon, <2>1, <2>2
<1>TickDlq.
      ASSUME Tick
      PROVE  /\ dlq' = [x \in Msgs |-> dlq'[x]]
             /\ \A x \in Msgs : dlq'[x] = [dlq[x] EXCEPT !.age = Older(dlq[x], MinAge)]
  <2> USE <1>TickDlq
  <2>1. dlq' = [m \in Msgs |-> [dlq[m] EXCEPT !.age = Older(dlq[m], MinAge)]]
      BY Zenon DEF Tick
  <2>2. \A x \in Msgs : dlq'[x] = [dlq[x] EXCEPT !.age = Older(dlq[x], MinAge)]
      BY Zenon, <2>1
  <2> QED BY Zenon, <2>1, <2>2
<1>TickJob.
      ASSUME Tick
      PROVE  /\ job' = [p \in Pods |-> job'[p]]
             /\ \A p \in Pods : job'[p] = [job[p] EXCEPT !.left = Less(job[p].left)]
  <2> USE <1>TickJob
  <2>1. job' = [p \in Pods |-> [job[p] EXCEPT !.left = Less(job[p].left)]]
      BY Zenon DEF Tick
  <2>2. \A p \in Pods : job'[p] = [job[p] EXCEPT !.left = Less(job[p].left)]
      BY Zenon, <2>1
  <2> QED BY Zenon, <2>1, <2>2
<1>TickWindow.
      ASSUME Tick
      PROVE  /\ window' = [p \in Pods |-> window'[p]]
             /\ \A p \in Pods : /\ window'[p] = [k \in Keys |-> window'[p][k]]
                                /\ \A k \in Keys : window'[p][k] = Less(window[p][k])
  <2> USE <1>TickWindow
  <2>1. window' = [p \in Pods |-> [k \in Keys |-> Less(window[p][k])]]
      BY Zenon DEF Tick
  <2> QED BY Zenon, <2>1
<1>1. ASSUME NEW x \in Msgs
      PROVE  /\ msg'[x] \in MsgType(msg'[x].wait) /\ msg'[x].wait = Less(msg[x].wait)
             /\ msg'[x].state = msg[x].state /\ msg'[x].count = msg[x].count
             /\ msg'[x].age = Older(msg[x], Dupe)
  <2>1. PICK a, w : a = Older(msg[x], Dupe) /\ w = Less(msg[x].wait)
    BY Zenon
  <2>2. msg'[x] = [msg[x] EXCEPT !.wait = w, !.age = a]
    BY Zenon, <2>1, <1>TickMsg
  <2>3. a \in 0..Dupe
    BY Zenon, <2>1, <1>OlderFacts
  <2>4. msg[x] \in MsgType(msg[x].wait)
    BY Zenon DEF TypeOK
  <2> DEFINE s == [msg[x] EXCEPT !.wait = w]
  <2>5. s \in MsgType(w) /\ s.state = msg[x].state /\ s.count = msg[x].count
    BY Zenon, <2>4 DEF MsgType
  <2>6. msg'[x] = [s EXCEPT !.age = a]
    BY Zenon, <2>2
  <2> HIDE DEF s
  <2>7. /\ msg'[x] \in MsgType(w) /\ msg'[x].wait = w /\ msg'[x].age = a
        /\ msg'[x].state = s.state /\ msg'[x].count = s.count
    BY Zenon, <2>3, <2>5, <2>6 DEF MsgType
  <2> QED BY Zenon, <2>1, <2>5, <2>7
<1>2. ASSUME NEW x \in Msgs
      PROVE  /\ dlq'[x] \in ParkType /\ dlq'[x].state = dlq[x].state
             /\ dlq'[x].age = Older(dlq[x], MinAge)
  <2>1. PICK a : a = Older(dlq[x], MinAge)
    BY Zenon
  <2>2. dlq'[x] = [dlq[x] EXCEPT !.age = a] /\ a \in 0..MinAge
    BY Zenon, <2>1, <1>OlderFacts, <1>TickDlq
  <2>3. dlq[x] \in ParkType
    BY Zenon DEF TypeOK
  <2> QED BY Zenon, <2>1, <2>2, <2>3 DEF ParkType
<1>3. ASSUME NEW p \in Pods
      PROVE  /\ job'[p] \in JobType /\ job'[p].at = job[p].at /\ job'[p].m = job[p].m
             /\ job'[p].left = Less(job[p].left)
  <2>1. PICK n : n = Less(job[p].left)
    BY Zenon
  <2>2. job'[p] = [job[p] EXCEPT !.left = n] /\ n \in 0..Budget
    BY Zenon, <2>1, <1>OlderFacts, JobFacts, <1>TickJob
  <2>3. job[p] \in JobType
    BY Zenon DEF TypeOK
  <2> QED BY Zenon, <2>1, <2>2, <2>3 DEF JobType
<1>4. ASSUME NEW p \in Pods, NEW k \in Keys
      PROVE  window'[p][k] = Less(window[p][k]) /\ window'[p][k] \in 0..TTL
    BY Zenon, Counts, <1>OlderFacts, <1>TickWindow
<1>5. TypeOK'
  <2>1. msg' = [m \in Msgs |-> msg'[m]] /\ \A m \in Msgs : msg'[m] \in MsgType(msg'[m].wait)
    BY Zenon, <1>1, <1>TickMsg
  <2>2. dlq' \in [Msgs -> ParkType]
    BY Zenon, <1>2, <1>TickDlq
  <2>3. job' \in [Pods -> JobType]
    BY Zenon, <1>3, <1>TickJob
  <2>4. window' \in [Pods -> [Keys -> 0..TTL]]
    BY Zenon, <1>4, <1>TickWindow
  <2>5. /\ kind' \in [Keys -> Kinds] /\ buf' \in [Pods -> Seq(Msgs)]
        /\ handled' \in [Keys -> 0..2] /\ faults' \in Nat
    BY Zenon, TickIs DEF TypeOK
  <2> QED BY Zenon, <2>1, <2>2, <2>3, <2>4, <2>5 DEF TypeOK
<1> QED BY Zenon, <1>1, <1>2, <1>3, <1>4, <1>5

\* The types hold at first.
LEMMA InitType ==
    ASSUME Init
    PROVE  /\ TypeOK
           /\ \A m \in Msgs : /\ dlq[m].state = "absent" /\ dlq[m].age = 0
                              /\ msg[m].state = IF m[2] = 0 THEN "stored" ELSE "absent"
                              /\ msg[m].wait = 0
<1>1. NotParked \in ParkType /\ NotParked.state = "absent" /\ NotParked.age = 0
    BY Numbers DEF NotParked, ParkType
<1>2. ASSUME NEW m \in Msgs
      PROVE  /\ msg[m] \in MsgType(msg[m].wait) /\ msg[m].wait = 0
             /\ msg[m].state = IF m[2] = 0 THEN "stored" ELSE "absent"
  <2>1. msg[m] = IF m[2] = 0 THEN [NoMsg EXCEPT !.state = "stored"] ELSE NoMsg
    BY Zenon DEF Init
  <2> QED BY <2>1, Numbers DEF NoMsg, MsgType
<1>3. msg = [m \in Msgs |-> msg[m]]
    BY Zenon DEF Init
<1>4. dlq = [m \in Msgs |-> NotParked]
    BY Zenon DEF Init
<1>5. dlq \in [Msgs -> ParkType] /\ \A m \in Msgs : dlq[m] = NotParked
    BY Zenon, <1>1, <1>4
<1>6. /\ job \in [Pods -> JobType] /\ window \in [Pods -> [Keys -> 0..TTL]]
      /\ kind \in [Keys -> Kinds] /\ handled \in [Keys -> 0..2] /\ faults \in Nat
  <2>1. 0 \in 0..TTL
    BY Numbers
  <2> QED BY <2>1, IdleType DEF Init
<1>7. buf \in [Pods -> Seq(Msgs)]
    BY DEF Init
<1> QED BY Zenon, <1>1, <1>2, <1>3, <1>5, <1>6, <1>7 DEF TypeOK

\* Nothing is owed at first.
LEMMA InitLoss ==
    ASSUME Init
    PROVE  TypeOK /\ LossInv
<1>1. TypeOK /\ \A m \in Msgs : /\ dlq[m].state = "absent" /\ dlq[m].age = 0
                                /\ msg[m].state = IF m[2] = 0 THEN "stored" ELSE "absent"
    BY Zenon, InitType
<1>2. ASSUME NEW p \in Pods PROVE PodInv(p)
  <2>1. job[p] = Idle /\ \A k \in Keys : window[p][k] = 0
    BY Zenon DEF Init
  <2> QED BY <2>1, IdleType DEF PodInv, HeldInv, Held
<1>3. DrainInv
    BY Zenon, <1>1 DEF DrainInv
<1>4. RedriveInv
  <2> SUFFICES ASSUME NEW m \in Msgs, m[2] < MaxRedrives PROVE msg[Again(m)].state = "absent"
    BY Zenon DEF RedriveInv
  <2>1. Again(m) \in Msgs /\ Again(m)[2] = m[2] + 1 /\ m[2] \in 0..MaxRedrives
    BY Zenon, MsgsFacts DEF Again
  <2> QED BY <1>1, <2>1
<1>5. ASSUME NEW k \in Keys PROVE Kept(k)
  <2>1. 0 \in 0..MaxRedrives
    BY Numbers
  <2>2. <<k, 0>> \in Msgs /\ Key(<<k, 0>>) = k /\ <<k, 0>>[2] = 0
    BY Zenon, <2>1, MsgsFacts
  <2>3. Stored(<<k, 0>>)
    BY Zenon, <1>1, <2>2 DEF Stored
  <2> QED BY Zenon, <2>2, <2>3 DEF Kept
<1> QED BY Zenon, <1>1, <1>2, <1>3, <1>4, <1>5 DEF LossInv

\* The actions a step may be.
LEMMA NextCases ==
    ASSUME Next
    PROVE  \/ \E p \in Pods, m \in Msgs : Fetch(p, m)
           \/ \E p \in Pods : Begin(p)
           \/ \E p \in Pods : Succeed(p)
           \/ \E p \in Pods, err \in {"transient", "terminal"}, panic \in BOOLEAN : Fail(p, err, panic)
           \/ \E p \in Pods : Backoff(p)
           \/ \E p \in Pods : Park(p)
           \/ \E p \in Pods : Answer(p)
           \/ \E p \in Pods : Crash(p)
           \/ \E p \in Pods, k \in Keys : Evict(p, k)
           \/ \E m \in Msgs : Redrive(m)
           \/ Tick
BY Zenon DEF Next, Dispatch

\* LossInv is inductive, with the types.
LEMMA StepLoss ==
    ASSUME TypeOK, LossInv, [Next]_vars
    PROVE  TypeOK' /\ LossInv'
<1>EvictDo.
      ASSUME TypeOK, NEW p \in Pods, NEW k \in Keys, Evict(p, k)
      PROVE  TypeOK' /\ WindowMoves(p, k) /\ window'[p][k] = 0
  <2> USE <1>EvictDo
  <2>1. WindowMoves(p, k) /\ window'[p][k] = 0
      BY Zenon, ReleaseDo DEF Evict
  <2> QED BY Zenon, <2>1, TypeMoves DEF Evict, TypeOK
\* A young parked copy stays, as young as it was, until time passes.
<1>YoungKept.
      ASSUME TypeOK, TypeOK', Calm, NEW k \in Keys, NEW a \in Nat, a < MinAge, Young(k, a)
      PROVE  Young(k, a)'
  <2> USE <1>YoungKept
  <2>1. CASE handled[k] > 0
    <3>1. handled[k] \in 0..2 /\ handled'[k] \in 0..2 /\ handled'[k] >= handled[k]
      BY Zenon, Counts DEF Calm, TypeOK
    <3> QED BY <2>1, <3>1 DEF Young
  <2>2. CASE \E x \in Msgs : Key(x) = k /\ dlq[x].state = "parked" /\ dlq[x].age <= a
    <3>1. PICK x \in Msgs : Key(x) = k /\ dlq[x].state = "parked" /\ dlq[x].age <= a
      BY Zenon, <2>2
    <3>2. DlqStep(x) /\ dlq[x].age \in 0..MinAge
      BY Zenon, CopyFacts DEF Calm
    <3>3. dlq'[x].state = "parked" /\ dlq'[x].age <= a
      BY <3>1, <3>2, Numbers DEF DlqStep
    <3> QED BY Zenon, <3>1, <3>3 DEF Young
  <2> QED BY Zenon, <2>1, <2>2 DEF Young
\* The same, of a copy that is at most that old.
<1>YoungWider.
      ASSUME TypeOK, NEW k \in Keys, NEW a \in Nat, NEW b \in Nat, a <= b, Young(k, a)
      PROVE  Young(k, b)
  <2> USE <1>YoungWider
  <2>1. CASE \E x \in Msgs : Key(x) = k /\ dlq[x].state = "parked" /\ dlq[x].age <= a
    <3>1. PICK x \in Msgs : Key(x) = k /\ dlq[x].state = "parked" /\ dlq[x].age <= a
      BY Zenon, <2>1
    <3>2. dlq[x].age \in 0..MinAge
      BY Zenon, CopyFacts
    <3>3. dlq[x].age <= b
      BY <3>1, <3>2, Numbers
    <3> QED BY Zenon, <3>1, <3>3 DEF Young
  <2> QED BY Zenon, <2>1 DEF Young
\* The ages that a window allows.
<1>WindowAge.
      ASSUME NEW n \in 0..TTL
      PROVE  /\ TTL + Dupe - 1 - n \in Nat /\ TTL + Dupe - 1 - n < MinAge
             /\ TTL + Dupe - 1 - n <= TTL + Dupe - 1 /\ Dupe - 1 <= TTL + Dupe - 1 - n
             /\ TTL + Dupe - 1 \in Nat /\ TTL + Dupe - 1 < MinAge
  BY <1>WindowAge, Numbers
\* A key stays held for the same reason while its pod goes on with it.
<1>HeldKept.
      ASSUME TypeOK, TypeOK', Calm, NEW p \in Pods, NEW k \in Keys, HeldInv(p, k),
             window'[p][k] = window[p][k], Working(p, k) => Working(p, k)'
      PROVE  HeldInv(p, k)'
  <2> USE <1>HeldKept
  <2> SUFFICES ASSUME Held(p, k)'
               PROVE  kind'[k] # "malformed" /\ (Working(p, k)' \/ Young(k, TTL + Dupe - 1 - window[p][k])')
      BY Zenon DEF HeldInv
  <2>1. kind'[k] # "malformed" /\ (Working(p, k) \/ Young(k, TTL + Dupe - 1 - window[p][k]))
      BY Zenon DEF HeldInv, Held, Calm
  <2>2. PICK a : a = TTL + Dupe - 1 - window[p][k]
      BY Zenon
  <2>3. a \in Nat /\ a < MinAge
      BY Zenon, <2>2, <1>WindowAge, Counts
  <2> QED BY Zenon, <2>1, <2>2, <2>3, <1>YoungKept
<1>PodKept.
      ASSUME TypeOK, TypeOK', Calm, NEW p \in Pods, PodInv(p),
             job'[p].at = job[p].at /\ job'[p].m = job[p].m,
             \A k \in Keys : window'[p][k] \in {0, window[p][k]}
      PROVE  PodInv(p)'
  <2> USE <1>PodKept
  <2>1. Key(job[p].m) \in Keys
      BY Zenon, JobFacts
  <2>2. job'[p].at \in {"run", "backoff"} => kind'[Key(job'[p].m)] # "malformed"
      BY Zenon DEF PodInv, Calm
  <2>3. job'[p].at = "ack" => Young(Key(job[p].m), TTL + Dupe - 1)'
    <3>1. TTL + Dupe - 1 \in Nat /\ TTL + Dupe - 1 < MinAge
      BY Numbers
    <3> QED BY Zenon, <2>1, <3>1, <1>YoungKept DEF PodInv
  <2>4. ASSUME NEW k \in Keys PROVE HeldInv(p, k)'
    <3>1. CASE window'[p][k] = 0
      BY <3>1 DEF HeldInv, Held
    <3>2. CASE window'[p][k] = window[p][k]
      BY Zenon, <3>2, <1>HeldKept DEF PodInv, Working
    <3> QED BY Zenon, <3>1, <3>2
  <2> QED BY Zenon, <2>2, <2>3, <2>4 DEF PodInv
<1>DrainKept.
      ASSUME TypeOK, DrainInv, Calm
      PROVE  DrainInv'
  <2> USE <1>DrainKept
  <2> SUFFICES ASSUME NEW m \in Msgs, dlq'[m].state = "drained" PROVE dlq'[m].age = MinAge
      BY Zenon DEF DrainInv
  <2> QED BY Zenon DEF DrainInv, Calm, DlqStep
<1>RedriveKept.
      ASSUME TypeOK, TypeOK', RedriveInv, Calm, NEW m \in Msgs, m[2] < MaxRedrives,
             msg'[Again(m)].state # "absent" => msg[Again(m)].state # "absent",
             msg'[Again(m)].age = msg[Again(m)].age,
             msg'[Again(m)].state # "absent", msg'[Again(m)].age < Dupe
      PROVE  dlq'[m].age = MinAge \/ dlq'[m].age <= msg'[Again(m)].age
  <2> USE <1>RedriveKept
  <2>1. Again(m) \in Msgs
      BY Zenon, MsgsFacts
  <2>2. dlq[m].age = MinAge \/ dlq[m].age <= msg[Again(m)].age
      BY Zenon DEF RedriveInv
  <2>3. DlqStep(m) /\ msg[Again(m)].age \in Nat
      BY <2>1, CopyFacts DEF Calm
  <2> QED BY <2>2, <2>3 DEF DlqStep
<1>KeptStill.
      ASSUME TypeOK, TypeOK', Still, NEW k \in Keys, Kept(k)
      PROVE  Kept(k)'
  <2> USE <1>KeptStill
  <2>1. CASE handled[k] > 0
    <3>1. handled[k] \in 0..2 /\ handled'[k] \in 0..2 /\ handled'[k] >= handled[k]
      BY Zenon, Counts DEF Still, Calm, TypeOK
    <3> QED BY <2>1, <3>1 DEF Kept
  <2>2. CASE \E m \in Msgs : Key(m) = k /\ Stored(m)
      BY Zenon, <2>2 DEF Kept, Stored, Still
  <2>3. CASE \E m \in Msgs : Key(m) = k /\ dlq[m].state = "parked" /\ ~Swallowed(m)
    <3>1. PICK m \in Msgs : Key(m) = k /\ dlq[m].state = "parked" /\ ~Swallowed(m)
      BY Zenon, <2>3
    <3>2. dlq'[m] = dlq[m] \/ (dlq'[m].state = "parked" /\ dlq'[m].age = 0)
      BY Zenon DEF Still
    <3>3. m[2] < MaxRedrives => Again(m) \in Msgs
      BY Zenon, MsgsFacts
    <3>4. ~Swallowed(m)'
      BY <3>1, <3>2, <3>3, Numbers DEF Swallowed, Still
    <3> QED BY Zenon, <3>1, <3>2, <3>4 DEF Kept
  <2> QED BY Zenon, <2>1, <2>2, <2>3 DEF Kept
\* The streams are as they should be after a step that is still.
<1>StillKeeps.
      ASSUME TypeOK, TypeOK', LossInv, Still, \A p \in Pods : PodInv(p)'
      PROVE  LossInv'
  <2> USE <1>StillKeeps
  <2>1. DrainInv'
      BY Zenon, <1>DrainKept DEF LossInv, Still
  <2>2. RedriveInv'
    <3> SUFFICES ASSUME NEW m \in Msgs, m[2] < MaxRedrives, msg'[Again(m)].state # "absent",
                        msg'[Again(m)].age < Dupe
                 PROVE  dlq'[m].age = MinAge \/ dlq'[m].age <= msg'[Again(m)].age
      BY Zenon DEF RedriveInv
    <3>1. Again(m) \in Msgs
      BY Zenon, MsgsFacts
    <3> QED BY Zenon, <3>1, <1>RedriveKept DEF LossInv, Still
  <2>3. \A k \in Keys : Kept(k)'
      BY Zenon, <1>KeptStill DEF LossInv
  <2> QED BY Zenon, <2>1, <2>2, <2>3 DEF LossInv
\* The pods that a step leaves alone.
<1>OthersKept.
      ASSUME TypeOK, TypeOK', LossInv, Calm, NEW p \in Pods, JobMoves(p),
             \A q \in Pods \ {p}, k \in Keys : window'[q][k] = window[q][k],
             PodInv(p)'
      PROVE  \A q \in Pods : PodInv(q)'
  <2> USE <1>OthersKept
  <2> SUFFICES ASSUME NEW q \in Pods, q # p PROVE PodInv(q)'
      BY Zenon
  <2>1. PodInv(q) /\ job'[q] = job[q]
      BY Zenon DEF LossInv, JobMoves
  <2>2. \A k \in Keys : window'[q][k] \in {0, window[q][k]}
      BY Zenon
  <2> QED BY Zenon, <2>1, <2>2, <1>PodKept
\* A step that changes no more than a job, a window and a parked copy.
<1>StillIf.
      ASSUME TypeOK, kind' = kind, msg' = msg, \A k \in Keys : handled'[k] >= handled[k],
             dlq' = dlq \/ \E m \in Msgs : /\ DlqMoves(m)
                                           /\ dlq'[m].state = "parked" /\ dlq'[m].age = 0
      PROVE  Still /\ Calm
  <2> USE <1>StillIf
  <2>1. \A x \in Msgs : dlq'[x] = dlq[x] \/ (dlq'[x].state = "parked" /\ dlq'[x].age = 0)
      BY Zenon DEF DlqMoves
  <2>2. Calm
      BY Zenon, <2>1 DEF Calm, DlqStep
  <2> QED BY Zenon, <2>1, <2>2 DEF Still
<1>SameCounts.
      ASSUME TypeOK, handled' = handled
      PROVE  \A k \in Keys : handled'[k] >= handled[k]
  BY <1>SameCounts, Counts
\* The step of a pod keeps what its jobs and windows say if it is accounted for.
<1>PodMove.
      ASSUME TypeOK, TypeOK', Calm, NEW p \in Pods, PodInv(p),
             job'[p].at \in {"run", "backoff"} => kind[Key(job'[p].m)] # "malformed",
             (job[p].at = "ack" => Young(Key(job[p].m), TTL + Dupe - 1))',
             \A k \in Keys : \/ window'[p][k] = 0
                             \/ window'[p][k] = window[p][k] /\ (Working(p, k) => Working(p, k)')
                             \/ HeldInv(p, k)'
      PROVE  PodInv(p)'
  <2> USE <1>PodMove
  <2>1. ASSUME NEW k \in Keys PROVE HeldInv(p, k)'
    <3>1. CASE window'[p][k] = 0
      BY <3>1 DEF HeldInv, Held
    <3>2. CASE window'[p][k] = window[p][k] /\ (Working(p, k) => Working(p, k)')
      BY Zenon, <3>2, <1>HeldKept DEF PodInv
    <3> QED BY Zenon, <3>1, <3>2
  <2>2. kind' = kind
      BY Zenon DEF Calm
  <2> QED BY Zenon, <2>1, <2>2 DEF PodInv
<1>FetchLoss.
      ASSUME TypeOK, LossInv, NEW p \in Pods, NEW m \in Msgs, Fetch(p, m)
      PROVE  LossInv'
  <2> USE <1>FetchLoss
  <2>1. /\ TypeOK' /\ MsgMoves(m)
        /\ msg'[m].state = msg[m].state /\ msg'[m].age = msg[m].age
      BY Zenon, FetchDo
  <2>2. /\ kind' = kind /\ job' = job /\ window' = window /\ dlq' = dlq
        /\ \A k \in Keys : handled'[k] >= handled[k]
      BY Zenon, <1>SameCounts DEF Fetch
  <2>3. Calm
      BY Zenon, <2>2 DEF Calm, DlqStep
  <2>4. Still
      BY Zenon, <2>1, <2>2, <2>3 DEF Still, MsgMoves
  <2>5. \A q \in Pods : PodInv(q)'
      BY Zenon, <2>1, <2>2, <2>3, <1>PodKept DEF LossInv
  <2> QED BY Zenon, <2>1, <2>4, <2>5, <1>StillKeeps
<1>BeginLoss.
      ASSUME TypeOK, LossInv, NEW p \in Pods, Begin(p)
      PROVE  LossInv'
  <2> USE <1>BeginLoss
  <2>1. PICK m \in Msgs :
          /\ TypeOK' /\ JobMoves(p) /\ job'[p].m = m
          /\ \/ job'[p].at = "park" /\ window' = window
             \/ /\ kind[Key(m)] # "malformed" /\ Held(p, Key(m))
                /\ job'[p].at = "ack" /\ window' = window
             \/ /\ kind[Key(m)] # "malformed" /\ job'[p].at = "run"
                /\ WindowMoves(p, Key(m))
      BY Zenon, BeginDo
  <2>2. /\ kind' = kind /\ msg' = msg /\ dlq' = dlq /\ job[p].at = "idle"
        /\ \A k \in Keys : handled'[k] >= handled[k]
      BY Zenon, <1>SameCounts DEF Begin
  <2>3. Still /\ Calm
      BY Zenon, <2>2, <1>StillIf
  <2>4. Key(m) \in Keys /\ PodInv(p)
      BY Zenon, MsgsFacts DEF LossInv
  <2>5. \A k \in Keys : ~Working(p, k)
      BY Zenon, <2>2 DEF Working
  <2>6. job'[p].at = "ack" => Young(Key(m), TTL + Dupe - 1)'
    <3> SUFFICES ASSUME job'[p].at = "ack" PROVE Young(Key(m), TTL + Dupe - 1)'
      BY Zenon
    <3>1. Young(Key(m), TTL + Dupe - 1 - window[p][Key(m)])
      BY Zenon, <2>1, <2>4, <2>5 DEF PodInv, HeldInv
    <3>2. PICK a, b : a = TTL + Dupe - 1 - window[p][Key(m)] /\ b = TTL + Dupe - 1
      BY Zenon
    <3>3. a \in Nat /\ b \in Nat /\ a <= b /\ b < MinAge
      BY Zenon, <2>4, <3>2, <1>WindowAge, Counts
    <3>4. Young(Key(m), b)
      BY Zenon, <2>4, <3>1, <3>2, <3>3, <1>YoungWider
    <3> QED BY Zenon, <2>1, <2>3, <2>4, <3>2, <3>3, <3>4, <1>YoungKept
  <2>7. ASSUME NEW k \in Keys
        PROVE  \/ window'[p][k] = 0
               \/ window'[p][k] = window[p][k] /\ (Working(p, k) => Working(p, k)')
               \/ HeldInv(p, k)'
    <3>1. CASE window'[p][k] = window[p][k]
      BY Zenon, <2>5, <3>1
    <3>2. CASE window'[p][k] # window[p][k]
      <4>1. k = Key(m) /\ job'[p].at = "run" /\ kind[k] # "malformed"
          BY Zenon, <2>1, <3>2 DEF WindowMoves
      <4> QED BY Zenon, <2>1, <2>2, <4>1 DEF HeldInv, Working
    <3> QED BY Zenon, <3>1, <3>2
  <2>8. PodInv(p)'
    <3>1. (job[p].at = "ack" => Young(Key(job[p].m), TTL + Dupe - 1))'
      BY Zenon, <2>1, <2>6
    <3>2. job'[p].at \in {"run", "backoff"} => kind[Key(job'[p].m)] # "malformed"
      BY Zenon, <2>1
    <3> QED BY Zenon, <2>1, <2>3, <2>4, <2>7, <3>1, <3>2, <1>PodMove
  <2>9. \A q \in Pods \ {p}, k \in Keys : window'[q][k] = window[q][k]
      BY Zenon, <2>1 DEF WindowMoves
  <2>10. \A q \in Pods : PodInv(q)'
      BY Zenon, <2>1, <2>3, <2>8, <2>9, <1>OthersKept
  <2> QED BY Zenon, <2>1, <2>3, <2>10, <1>StillKeeps
<1>SucceedLoss.
      ASSUME TypeOK, LossInv, NEW p \in Pods, Succeed(p)
      PROVE  LossInv'
  <2> USE <1>SucceedLoss
  <2>1. PICK k : k = Key(job[p].m)
      BY Zenon
  <2>2. /\ TypeOK' /\ JobMoves(p) /\ WindowMoves(p, k)
        /\ job'[p].at = "ack" /\ job'[p].m = job[p].m /\ handled'[k] > 0
        /\ \A j \in Keys : handled'[j] >= handled[j]
      BY Zenon, <2>1, SucceedDo
  <2>3. kind' = kind /\ msg' = msg /\ dlq' = dlq /\ job[p].at = "run"
      BY Zenon DEF Succeed
  <2>4. Still /\ Calm
      BY Zenon, <2>2, <2>3, <1>StillIf
  <2>5. k \in Keys /\ PodInv(p) /\ kind[k] # "malformed"
      BY Zenon, <2>1, <2>3, JobFacts DEF LossInv, PodInv
  <2>6. ASSUME NEW j \in Keys
        PROVE  \/ window'[p][j] = 0
               \/ window'[p][j] = window[p][j] /\ (Working(p, j) => Working(p, j)')
               \/ HeldInv(p, j)'
    <3>1. CASE j = k
      BY Zenon, <2>2, <2>3, <2>5, <3>1 DEF HeldInv, Young
    <3>2. CASE j # k
      BY Zenon, <2>1, <2>2, <3>2 DEF WindowMoves, Working
    <3> QED BY Zenon, <3>1, <3>2
  <2>7. PodInv(p)'
    <3>1. (job[p].at = "ack" => Young(Key(job[p].m), TTL + Dupe - 1))'
      BY Zenon, <2>1, <2>2 DEF Young
    <3> QED BY Zenon, <2>2, <2>4, <2>5, <2>6, <3>1, <1>PodMove
  <2>8. \A q \in Pods : PodInv(q)'
      BY Zenon, <2>2, <2>4, <2>7, <1>OthersKept DEF WindowMoves
  <2> QED BY Zenon, <2>2, <2>4, <2>8, <1>StillKeeps
\* The pod goes on with its message, or gives it back and drops the claim.
<1>GoOnLoss.
      ASSUME TypeOK, TypeOK', LossInv, NEW p \in Pods, JobMoves(p), NEW k, k = Key(job[p].m),
             kind' = kind, msg' = msg, dlq' = dlq, handled' = handled,
             job[p].at \in {"run", "backoff"}, job'[p].m = job[p].m,
             \/ job'[p].at \in {"run", "backoff", "park"} /\ window' = window
             \/ job'[p].at = "nak" /\ WindowMoves(p, k) /\ window'[p][k] = 0
      PROVE  LossInv'
  <2> USE <1>GoOnLoss
  <2>1. Still /\ Calm
      BY Zenon, <1>SameCounts, <1>StillIf
  <2>2. k \in Keys /\ PodInv(p) /\ kind[k] # "malformed"
      BY Zenon, JobFacts DEF LossInv, PodInv
  <2>3. ASSUME NEW j \in Keys
        PROVE  \/ window'[p][j] = 0
               \/ window'[p][j] = window[p][j] /\ (Working(p, j) => Working(p, j)')
               \/ HeldInv(p, j)'
    <3>1. CASE job'[p].at \in {"run", "backoff", "park"} /\ window' = window
      BY Zenon, <3>1 DEF Working
    <3>2. CASE job'[p].at = "nak" /\ WindowMoves(p, k) /\ window'[p][k] = 0
      BY Zenon, <3>2 DEF WindowMoves, Working
    <3> QED BY Zenon, <3>1, <3>2
  <2>4. PodInv(p)'
    <3>1. (job[p].at = "ack" => Young(Key(job[p].m), TTL + Dupe - 1))'
      BY Zenon
    <3> QED BY Zenon, <2>1, <2>2, <2>3, <3>1, <1>PodMove
  <2>5. \A q \in Pods \ {p}, j \in Keys : window'[q][j] = window[q][j]
      BY Zenon DEF WindowMoves
  <2>6. \A q \in Pods : PodInv(q)'
      BY <2>1, <2>4, <2>5, <1>OthersKept
  <2> QED BY Zenon, <2>1, <2>6, <1>StillKeeps
<1>FailLoss.
      ASSUME TypeOK, LossInv, NEW p \in Pods, NEW err \in {"transient", "terminal"}, NEW panic,
             Fail(p, err, panic)
      PROVE  LossInv'
  <2> USE <1>FailLoss
  <2>1. PICK k : k = Key(job[p].m)
      BY Zenon
  <2>2. /\ TypeOK' /\ JobMoves(p) /\ job'[p].m = job[p].m
        /\ \/ job'[p].at \in {"backoff", "park"} /\ window' = window
           \/ job'[p].at = "nak" /\ WindowMoves(p, k) /\ window'[p][k] = 0
      BY Zenon, <2>1, FailDo
  <2>3. /\ kind' = kind /\ msg' = msg /\ dlq' = dlq /\ handled' = handled
        /\ job[p].at \in {"run", "backoff"}
      BY Zenon DEF Fail
  <2> QED BY Zenon, <2>1, <2>2, <2>3, <1>GoOnLoss
<1>BackoffLoss.
      ASSUME TypeOK, LossInv, NEW p \in Pods, Backoff(p)
      PROVE  LossInv'
  <2> USE <1>BackoffLoss
  <2>1. PICK k : k = Key(job[p].m)
      BY Zenon
  <2>2. /\ TypeOK' /\ JobMoves(p) /\ job'[p].m = job[p].m
        /\ \/ job'[p].at = "run" /\ window' = window
           \/ job'[p].at = "nak" /\ WindowMoves(p, k) /\ window'[p][k] = 0
      BY Zenon, <2>1, BackoffDo
  <2>3. /\ kind' = kind /\ msg' = msg /\ dlq' = dlq /\ handled' = handled
        /\ job[p].at \in {"run", "backoff"}
      BY Zenon DEF Backoff
  <2> QED BY Zenon, <2>1, <2>2, <2>3, <1>GoOnLoss
\* A parked copy is young when its message is acked.
<1>ParkLoss.
      ASSUME TypeOK, LossInv, NEW p \in Pods, Park(p)
      PROVE  LossInv'
  <2> USE <1>ParkLoss
  <2>1. PICK m, k : m = job[p].m /\ k = Key(m)
      BY Zenon
  <2>2. DrainInv
      BY Zenon DEF LossInv
  <2>3. /\ TypeOK' /\ JobMoves(p) /\ job'[p].m = m
        /\ dlq' = dlq \/ (DlqMoves(m) /\ dlq'[m].age = 0 /\ dlq'[m].state = "parked")
        /\ kind[k] = "malformed" => window' = window
        /\ kind[k] # "malformed" => WindowMoves(p, k)
        /\ \/ job'[p].at = "ack" /\ dlq'[m].state = "parked" /\ dlq'[m].age < Dupe
           \/ job'[p].at = "nak" /\ (kind[k] # "malformed" => window'[p][k] = 0)
      BY Zenon, <2>1, <2>2, ParkDo
  <2>4. /\ kind' = kind /\ msg' = msg /\ handled' = handled /\ job[p].at = "park"
        /\ m \in Msgs /\ k \in Keys /\ PodInv(p)
      BY Zenon, <2>1, JobFacts DEF Park, LossInv
  <2>5. Still /\ Calm
      BY Zenon, <2>3, <2>4, <1>SameCounts, <1>StillIf
  <2>6. \A a \in Nat : job'[p].at = "ack" /\ Dupe - 1 <= a => Young(k, a)'
    <3>1. dlq'[m] \in ParkType
      BY Zenon, <2>3, <2>4 DEF TypeOK
    <3>2. dlq'[m].age \in 0..MinAge
      BY Zenon, <3>1 DEF ParkType
    <3>3. \A a \in Nat : job'[p].at = "ack" /\ Dupe - 1 <= a =>
              dlq'[m].state = "parked" /\ dlq'[m].age <= a
      BY <2>3, <3>2, Numbers
    <3> QED BY Zenon, <2>1, <2>4, <3>3 DEF Young
  <2>7. ASSUME NEW j \in Keys
        PROVE  \/ window'[p][j] = 0
               \/ window'[p][j] = window[p][j] /\ (Working(p, j) => Working(p, j)')
               \/ HeldInv(p, j)'
    <3>1. CASE j # k
      BY Zenon, <2>1, <2>3, <3>1 DEF WindowMoves, Working
    <3>2. CASE j = k /\ kind[k] = "malformed"
      <4>1. window[p][k] = 0
          BY <2>4, <3>2, Counts DEF PodInv, HeldInv, Held
      <4> QED BY Zenon, <2>3, <3>2, <4>1
    <3>3. CASE j = k /\ kind[k] # "malformed"
      <4>1. window'[p][k] \in 0..TTL
          BY Zenon, <2>3, <2>4 DEF TypeOK
      <4>2. PICK a : a = TTL + Dupe - 1 - window'[p][k]
          BY Zenon
      <4>3. a \in Nat /\ Dupe - 1 <= a
          BY Zenon, <4>1, <4>2, <1>WindowAge
      <4>4. job'[p].at = "ack" => Young(k, TTL + Dupe - 1 - window[p][k])'
          BY Zenon, <2>6, <4>2, <4>3 DEF Young
      <4> QED BY Zenon, <2>3, <2>4, <3>3, <4>4 DEF HeldInv
    <3> QED BY <3>1, <3>2, <3>3
  <2>8. PodInv(p)'
    <3>1. TTL + Dupe - 1 \in Nat /\ Dupe - 1 <= TTL + Dupe - 1
      BY Numbers
    <3>2. (job[p].at = "ack" => Young(Key(job[p].m), TTL + Dupe - 1))'
      BY Zenon, <2>1, <2>3, <2>6, <3>1
    <3> QED BY Zenon, <2>3, <2>4, <2>5, <2>7, <3>2, <1>PodMove
  <2>9. \A q \in Pods \ {p}, j \in Keys : window'[q][j] = window[q][j]
      BY Zenon, <2>3 DEF WindowMoves
  <2>10. \A q \in Pods : PodInv(q)'
      BY Zenon, <2>3, <2>5, <2>8, <2>9, <1>OthersKept
  <2> QED BY Zenon, <2>3, <2>5, <2>10, <1>StillKeeps
<1>CrashLoss.
      ASSUME TypeOK, LossInv, NEW p \in Pods, Crash(p)
      PROVE  LossInv'
  <2> USE <1>CrashLoss
  <2>1. /\ TypeOK' /\ JobMoves(p) /\ job'[p] = Idle
        /\ \A k \in Keys : window'[p][k] = 0 /\ \A q \in Pods \ {p} : window'[q] = window[q]
      BY Zenon, CrashDo
  <2>2. kind' = kind /\ msg' = msg /\ dlq' = dlq /\ handled' = handled
      BY Zenon DEF Crash
  <2>3. Still /\ Calm
      BY Zenon, <2>2, <1>SameCounts, <1>StillIf
  <2>4. PodInv(p)'
      BY <2>1 DEF PodInv, HeldInv, Held, Idle
  <2>5. \A q \in Pods \ {p}, j \in Keys : window'[q][j] = window[q][j]
      BY Zenon, <2>1
  <2>6. \A q \in Pods : PodInv(q)'
      BY Zenon, <2>1, <2>3, <2>4, <2>5, <1>OthersKept
  <2> QED BY Zenon, <2>1, <2>3, <2>6, <1>StillKeeps
<1>EvictLoss.
      ASSUME TypeOK, LossInv, NEW p \in Pods, NEW k \in Keys, Evict(p, k)
      PROVE  LossInv'
  <2> USE <1>EvictLoss
  <2>1. TypeOK' /\ WindowMoves(p, k) /\ window'[p][k] = 0
      BY Zenon, <1>EvictDo
  <2>2. kind' = kind /\ msg' = msg /\ dlq' = dlq /\ handled' = handled /\ job' = job
      BY Zenon DEF Evict
  <2>3. Still /\ Calm
      BY Zenon, <2>2, <1>SameCounts, <1>StillIf
  <2>4. \A q \in Pods, j \in Keys : window'[q][j] \in {0, window[q][j]}
      BY Zenon, <2>1 DEF WindowMoves
  <2>5. \A q \in Pods : PodInv(q)'
      BY Zenon, <2>1, <2>2, <2>3, <2>4, <1>PodKept DEF LossInv
  <2> QED BY Zenon, <2>1, <2>3, <2>5, <1>StillKeeps
\* An ack of a message whose event is handled, or parked a short while ago.
<1>AckedKept.
      ASSUME TypeOK, TypeOK', LossInv, Calm, dlq' = dlq, NEW m \in Msgs, MsgMoves(m),
             Young(Key(m), TTL + Dupe - 1), NEW k \in Keys
      PROVE  Kept(k)'
  <2> USE <1>AckedKept
  <2>1. CASE k = Key(m)
    <3>1. TTL + Dupe - 1 \in Nat /\ TTL + Dupe - 1 < MinAge
      BY Numbers
    <3>2. CASE handled[k] > 0
      <4>1. handled[k] \in 0..2 /\ handled'[k] \in 0..2 /\ handled'[k] >= handled[k]
          BY Zenon, Counts DEF Calm, TypeOK
      <4> QED BY <3>2, <4>1 DEF Kept
    <3>3. CASE \E x \in Msgs : Key(x) = k /\ dlq[x].state = "parked" /\ dlq[x].age <= TTL + Dupe - 1
      <4>1. PICK x \in Msgs : Key(x) = k /\ dlq[x].state = "parked" /\ dlq[x].age <= TTL + Dupe - 1
          BY Zenon, <3>3
      <4>2. dlq[x].age # MinAge
          BY <3>1, <4>1, CopyFacts
      <4>3. ~Swallowed(x)'
          BY Zenon, <4>2 DEF Swallowed
      <4> QED BY Zenon, <4>1, <4>3 DEF Kept
    <3> QED BY Zenon, <2>1, <3>2, <3>3 DEF Young
  <2>2. CASE k # Key(m)
    <3>1. Kept(k)
      BY Zenon DEF LossInv
    <3>2. CASE handled[k] > 0
      <4>1. handled[k] \in 0..2 /\ handled'[k] \in 0..2 /\ handled'[k] >= handled[k]
          BY Zenon, Counts DEF Calm, TypeOK
      <4> QED BY <3>2, <4>1 DEF Kept
    <3>3. CASE ~(handled[k] > 0)
      <4>1. PICK x \in Msgs : /\ Key(x) = k
                              /\ Stored(x) \/ (dlq[x].state = "parked" /\ ~Swallowed(x))
          BY Zenon, <3>1, <3>3 DEF Kept
      <4>2. msg'[x] = msg[x]
          BY Zenon, <2>2, <4>1 DEF MsgMoves
      <4>3. x[2] < MaxRedrives => msg'[Again(x)] = msg[Again(x)]
          BY <2>2, <4>1, MsgsFacts DEF MsgMoves, Again, Key
      <4>4. Swallowed(x)' => Swallowed(x)
          BY Zenon, <4>3 DEF Swallowed
      <4> QED BY Zenon, <4>1, <4>2, <4>4 DEF Kept, Stored
    <3> QED BY Zenon, <3>2, <3>3
  <2> QED BY Zenon, <2>1, <2>2
<1>AnswerLoss.
      ASSUME TypeOK, LossInv, NEW p \in Pods, Answer(p)
      PROVE  LossInv'
  <2> USE <1>AnswerLoss
  <2>1. PICK m : m = job[p].m
      BY Zenon
  <2>2. /\ TypeOK' /\ JobMoves(p) /\ job'[p] = Idle
        /\ \/ msg' = msg
           \/ /\ Stored(m) /\ MsgMoves(m) /\ msg'[m].age = msg[m].age
              /\ \/ job[p].at = "ack" /\ msg'[m].state = "acked"
                 \/ job[p].at = "nak" /\ msg'[m].state = "stored"
      BY Zenon, <2>1, AnswerDo
  <2>3. /\ kind' = kind /\ dlq' = dlq /\ window' = window /\ handled' = handled
        /\ job[p].at \in {"ack", "nak"} /\ m \in Msgs
      BY Zenon, <2>1, JobFacts DEF Answer
  <2>4. Calm
      BY Zenon, <2>3, <1>SameCounts DEF Calm, DlqStep
  <2>5. PodInv(p)'
    <3>1. \A k \in Keys : window'[p][k] = window[p][k] /\ ~Working(p, k)
      BY Zenon, <2>3 DEF Working
    <3>2. job'[p].at = "idle" /\ PodInv(p)
      BY Zenon, <2>2, IdleType DEF LossInv
    <3>3. (job[p].at = "ack" => Young(Key(job[p].m), TTL + Dupe - 1))'
      BY Zenon, <3>2
    <3> QED BY Zenon, <2>2, <2>4, <3>1, <3>2, <3>3, <1>PodMove
  <2>6. \A q \in Pods : PodInv(q)'
      BY Zenon, <2>2, <2>3, <2>4, <2>5, <1>OthersKept
  <2>7. CASE \A x \in Msgs : msg'[x].state = msg[x].state /\ msg'[x].age = msg[x].age
    <3>1. Still
      BY Zenon, <2>3, <2>4, <2>7 DEF Still
    <3> QED BY Zenon, <2>2, <2>6, <3>1, <1>StillKeeps
  <2>8. CASE /\ Stored(m) /\ MsgMoves(m) /\ msg'[m].age = msg[m].age
             /\ job[p].at = "ack" /\ msg'[m].state = "acked"
    <3>1. \A x \in Msgs : /\ msg'[x].state # "absent" => msg[x].state # "absent"
                          /\ msg'[x].age = msg[x].age
      BY Zenon, <2>8 DEF MsgMoves, Stored
    <3>2. RedriveInv'
      <4> SUFFICES ASSUME NEW x \in Msgs, x[2] < MaxRedrives, msg'[Again(x)].state # "absent",
                          msg'[Again(x)].age < Dupe
                   PROVE  dlq'[x].age = MinAge \/ dlq'[x].age <= msg'[Again(x)].age
          BY Zenon DEF RedriveInv
      <4>1. Again(x) \in Msgs
          BY Zenon, MsgsFacts
      <4> QED BY Zenon, <2>2, <2>4, <3>1, <4>1, <1>RedriveKept DEF LossInv
    <3>3. DrainInv'
      BY Zenon, <2>4, <1>DrainKept DEF LossInv
    <3>4. Young(Key(m), TTL + Dupe - 1)
      BY Zenon, <2>1, <2>8 DEF LossInv, PodInv
    <3>5. \A k \in Keys : Kept(k)'
      BY Zenon, <2>2, <2>3, <2>4, <2>8, <3>4, <1>AckedKept
    <3> QED BY Zenon, <2>6, <3>2, <3>3, <3>5 DEF LossInv
  <2> QED BY Zenon, <2>2, <2>7, <2>8 DEF MsgMoves, Stored
\* A redrive: the parked copy it takes was not one that is swallowed, or
\* another copy accounts for its event.
<1>RedriveLoss.
      ASSUME TypeOK, LossInv, NEW y \in Msgs, Redrive(y)
      PROVE  LossInv'
  <2> USE <1>RedriveLoss
  <2>1. /\ TypeOK' /\ y[2] < MaxRedrives /\ Again(y) \in Msgs
        /\ dlq[y].state = "parked" /\ dlq[y].age = MinAge
        /\ \/ /\ msg' = msg
              /\ \/ Stored(Again(y))
                 \/ msg[Again(y)].state = "acked" /\ msg[Again(y)].age < Dupe
           \/ MsgMoves(Again(y)) /\ msg'[Again(y)].state = "stored"
        /\ dlq' = dlq \/ (DlqMoves(y) /\ dlq'[y].state = "drained" /\ dlq'[y].age = MinAge)
      BY Zenon, RedriveDo
  <2>2. kind' = kind /\ job' = job /\ window' = window /\ handled' = handled
      BY Zenon DEF Redrive
  <2>3. \A x \in Msgs : dlq'[x] = dlq[x] \/ (x = y /\ dlq'[y].state = "drained" /\ dlq'[y].age = MinAge)
      BY Zenon, <2>1 DEF DlqMoves
  <2>4. Calm
      BY Zenon, <2>1, <2>2, <2>3, <1>SameCounts DEF Calm, DlqStep
  <2>5. \A q \in Pods : PodInv(q)'
      BY Zenon, <2>1, <2>2, <2>4, <1>PodKept DEF LossInv
  <2>6. DrainInv'
      BY Zenon, <2>4, <1>DrainKept DEF LossInv
  <2>7. \A x \in Msgs : x # Again(y) => msg'[x] = msg[x]
      BY Zenon, <2>1 DEF MsgMoves
  <2>8. RedriveInv'
    <3> SUFFICES ASSUME NEW x \in Msgs, x[2] < MaxRedrives, msg'[Again(x)].state # "absent",
                        msg'[Again(x)].age < Dupe
                 PROVE  dlq'[x].age = MinAge \/ dlq'[x].age <= msg'[Again(x)].age
      BY Zenon DEF RedriveInv
    <3>1. CASE x = y
      BY Zenon, <2>1, <2>3, <3>1
    <3>2. CASE x # y
      <4>1. Again(x) \in Msgs /\ Again(x) # Again(y)
          BY Zenon, <3>2, MsgsFacts
      <4>2. msg'[Again(x)] = msg[Again(x)]
          BY Zenon, <2>7, <4>1
      <4> QED BY Zenon, <2>1, <2>4, <4>2, <1>RedriveKept DEF LossInv
    <3> QED BY Zenon, <3>1, <3>2
  <2>9. ASSUME NEW k \in Keys PROVE Kept(k)'
    <3>1. CASE handled[k] > 0
      BY Zenon, <2>2, <3>1 DEF Kept
    <3>2. CASE ~(handled[k] > 0)
      <4>1. PICK x \in Msgs : /\ Key(x) = k
                              /\ Stored(x) \/ (dlq[x].state = "parked" /\ ~Swallowed(x))
          BY Zenon, <3>2 DEF LossInv, Kept
      <4>2. CASE Stored(x)
          BY Zenon, <2>1, <2>7, <4>1, <4>2 DEF Kept, Stored
      <4>3. CASE ~Stored(x) /\ x = y
        <5>1. Stored(Again(y))'
          BY Zenon, <2>1, <4>1, <4>3 DEF Swallowed, Stored
        <5>2. Key(Again(y)) = k
          BY Zenon, <4>1, <4>3 DEF Again, Key
        <5> QED BY <2>1, <5>1, <5>2 DEF Kept
      <4>4. CASE ~Stored(x) /\ x # y
        <5>1. x[2] < MaxRedrives => msg'[Again(x)] = msg[Again(x)]
          BY Zenon, <2>7, <4>4, MsgsFacts
        <5>2. dlq'[x] = dlq[x] /\ dlq[x].state = "parked" /\ ~Swallowed(x)
          BY Zenon, <2>3, <4>1, <4>4
        <5>3. ~Swallowed(x)'
          BY Zenon, <5>1, <5>2 DEF Swallowed
        <5> QED BY Zenon, <4>1, <5>2, <5>3 DEF Kept
      <4> QED BY Zenon, <4>2, <4>3, <4>4
    <3> QED BY Zenon, <3>1, <3>2
  <2> QED BY Zenon, <2>5, <2>6, <2>8, <2>9 DEF LossInv
\* How a copy ages.
<1>Ages.
      ASSUME TypeOK, Tick, NEW x \in Msgs
      PROVE  /\ dlq[x].age \in Nat /\ dlq'[x].age \in Nat /\ dlq'[x].age <= dlq[x].age + 1
             /\ dlq[x].age = MinAge /\ dlq[x].state # "absent" => dlq'[x].age = MinAge
             /\ dlq[x].age = MinAge => dlq'[x].age \in {0, MinAge}
             /\ msg[x].age \in Nat /\ msg'[x].age \in Nat
             /\ msg[x].state # "absent" /\ msg'[x].age < Dupe =>
                  msg'[x].age = msg[x].age + 1
  <2> USE <1>Ages
  <2>1. dlq'[x].age = Older(dlq[x], MinAge) /\ msg'[x].age = Older(msg[x], Dupe)
      BY Zenon, TickDo
  <2>2. dlq[x].age \in 0..MinAge /\ msg[x].age \in 0..Dupe
      BY Zenon, CopyFacts
  <2> QED BY <2>1, <2>2, Numbers DEF Older, Least
<1>TickLoss.
      ASSUME TypeOK, LossInv, Tick
      PROVE  LossInv'
  <2> USE <1>TickLoss
  <2>1. /\ TypeOK' /\ kind' = kind /\ handled' = handled
        /\ \A x \in Msgs : msg'[x].state = msg[x].state /\ dlq'[x].state = dlq[x].state
      BY Zenon, TickDo, TickIs
  <2>2. ASSUME NEW p \in Pods PROVE PodInv(p)'
    <3>1. job'[p].at = job[p].at /\ job'[p].m = job[p].m /\ PodInv(p)
      BY Zenon, TickDo DEF LossInv
    <3>2. job[p].at # "ack"
      BY Zenon, TickIs DEF Due
    <3>3. ASSUME NEW k \in Keys PROVE HeldInv(p, k)'
      <4> SUFFICES ASSUME window'[p][k] > 0
                   PROVE  /\ kind[k] # "malformed"
                          /\ Working(p, k) \/ Young(k, TTL + Dupe - 1 - window[p][k])'
          BY Zenon, <2>1, <3>1 DEF HeldInv, Held, Working
      <4>1. /\ window[p][k] \in 0..TTL /\ window[p][k] > 0 /\ window'[p][k] = window[p][k] - 1
          BY TickDo, Counts DEF Less
      <4>2. kind[k] # "malformed" /\ (Working(p, k) \/ Young(k, TTL + Dupe - 1 - window[p][k]))
          BY <3>1, <4>1 DEF PodInv, HeldInv, Held
      <4>3. PICK a, b : a = TTL + Dupe - 1 - window[p][k] /\ b = TTL + Dupe - 1 - window'[p][k]
          BY Zenon
      <4>4. a \in Nat /\ b \in Nat /\ b = a + 1
          BY <4>1, <4>3, Numbers
      <4>5. Young(k, a) => Young(k, b)'
        <5> SUFFICES ASSUME NEW x \in Msgs, Key(x) = k, dlq[x].state = "parked", dlq[x].age <= a
                     PROVE  dlq'[x].state = "parked" /\ dlq'[x].age <= b
          BY Zenon, <2>1 DEF Young
        <5> QED BY <2>1, <4>4, <1>Ages
      <4> QED BY Zenon, <4>2, <4>3, <4>5 DEF Young
    <3> QED BY Zenon, <2>1, <3>1, <3>2, <3>3 DEF PodInv
  <2>3. DrainInv'
    <3> SUFFICES ASSUME NEW x \in Msgs, dlq'[x].state = "drained" PROVE dlq'[x].age = MinAge
      BY Zenon DEF DrainInv
    <3> QED BY Zenon, <2>1, <1>Ages DEF LossInv, DrainInv
  <2>4. RedriveInv'
    <3> SUFFICES ASSUME NEW x \in Msgs, x[2] < MaxRedrives, msg'[Again(x)].state # "absent",
                        msg'[Again(x)].age < Dupe
                 PROVE  dlq'[x].age = MinAge \/ dlq'[x].age <= msg'[Again(x)].age
      BY Zenon DEF RedriveInv
    <3>1. Again(x) \in Msgs
      BY Zenon, MsgsFacts
    <3>2. msg[Again(x)].age \in Nat /\ msg'[Again(x)].age = msg[Again(x)].age + 1
      BY Zenon, <2>1, <3>1, <1>Ages
    <3>3. msg[Again(x)].age < Dupe
      BY <3>2, Numbers
    <3>4. dlq[x].age = MinAge \/ dlq[x].age <= msg[Again(x)].age
      BY Zenon, <2>1, <3>1, <3>3 DEF LossInv, RedriveInv
    <3> QED BY <3>2, <3>4, <1>Ages
  <2>5. ASSUME NEW x \in Msgs, dlq[x].state = "parked", Swallowed(x)' PROVE Swallowed(x)
    <3>1. /\ x[2] < MaxRedrives /\ dlq'[x].age = MinAge /\ Again(x) \in Msgs
          /\ msg'[Again(x)].state = "acked" /\ msg'[Again(x)].age < Dupe
      BY Zenon, <2>5, MsgsFacts DEF Swallowed
    <3>2. /\ msg[Again(x)].state = "acked" /\ msg[Again(x)].age \in Nat
          /\ msg'[Again(x)].age = msg[Again(x)].age + 1
      BY Zenon, <2>1, <3>1, <1>Ages
    <3>3. msg[Again(x)].age < Dupe
      BY <3>1, <3>2, Numbers
    <3>4. dlq[x].age = MinAge \/ dlq[x].age <= msg[Again(x)].age
      BY Zenon, <3>1, <3>2, <3>3 DEF LossInv, RedriveInv
    <3>5. dlq[x].age = MinAge
      BY <3>1, <3>2, <3>4, <1>Ages, Numbers
    <3> QED BY Zenon, <3>1, <3>2, <3>3, <3>5 DEF Swallowed
  <2>6. \A k \in Keys : Kept(k)'
      BY <2>1, <2>5 DEF LossInv, Kept, Stored
  <2> QED BY Zenon, <2>2, <2>3, <2>4, <2>6 DEF LossInv
<1>1. CASE Next
  <2>1. CASE \E p \in Pods, m \in Msgs : Fetch(p, m)
    BY Zenon, <2>1, FetchDo, <1>FetchLoss
  <2>2. CASE \E p \in Pods : Begin(p)
    BY Zenon, <2>2, BeginDo, <1>BeginLoss
  <2>3. CASE \E p \in Pods : Succeed(p)
    BY Zenon, <2>3, SucceedDo, <1>SucceedLoss
  <2>4. CASE \E p \in Pods, err \in {"transient", "terminal"}, panic \in BOOLEAN : Fail(p, err, panic)
    BY <2>4, FailDo, <1>FailLoss
  <2>5. CASE \E p \in Pods : Backoff(p)
    BY Zenon, <2>5, BackoffDo, <1>BackoffLoss
  <2>6. CASE \E p \in Pods : Park(p)
    <3>1. DrainInv
        BY Zenon DEF LossInv
    <3> QED BY Zenon, <2>6, <3>1, ParkDo, <1>ParkLoss
  <2>7. CASE \E p \in Pods : Answer(p)
    BY Zenon, <2>7, AnswerDo, <1>AnswerLoss
  <2>8. CASE \E p \in Pods : Crash(p)
    BY Zenon, <2>8, CrashDo, <1>CrashLoss
  <2>9. CASE \E p \in Pods, k \in Keys : Evict(p, k)
    BY Zenon, <2>9, <1>EvictDo, <1>EvictLoss
  <2>10. CASE \E m \in Msgs : Redrive(m)
    BY Zenon, <2>10, RedriveDo, <1>RedriveLoss
  <2>11. CASE Tick
    BY Zenon, <2>11, TickDo, <1>TickLoss
  <2> QED BY Zenon, <1>1, <2>1, <2>2, <2>3, <2>4, <2>5, <2>6, <2>7, <2>8, <2>9, <2>10, <2>11,
             NextCases
<1>2. CASE UNCHANGED vars
  <2>1. /\ kind' = kind /\ msg' = msg /\ buf' = buf /\ job' = job /\ window' = window
        /\ dlq' = dlq /\ handled' = handled /\ faults' = faults
    BY Zenon, <1>2 DEF vars
  <2>2. TypeOK'
    BY Zenon, <2>1 DEF TypeOK
  <2>3. Still /\ Calm
    BY Zenon, <2>1, <1>SameCounts, <1>StillIf
  <2>4. \A p \in Pods : PodInv(p)'
    BY <2>1, <2>2, <2>3, <1>PodKept DEF LossInv
  <2> QED BY Zenon, <2>2, <2>3, <2>4, <1>StillKeeps
<1> QED BY Zenon, <1>1, <1>2

\* No event is lost between the stream, the dispatches of the pods and the
\* dead-letter stream (consumer.go, nats.go, redrive.go): whatever crashes,
\* whatever answer or publish is lost, whatever a dedup window evicts and
\* whenever an operator redrives, an event that was never handled still has an
\* unacked message or a parked copy.
THEOREM AccountedAlways == Spec => []Accounted
<1>1. Init => TypeOK /\ LossInv
    BY Zenon, InitLoss
<1>2. TypeOK /\ LossInv /\ [Next]_vars => (TypeOK /\ LossInv)'
    BY Zenon, StepLoss
<1>3. LossInv => Accounted
    BY Zenon DEF LossInv, Kept, Accounted
<1> QED BY <1>1, <1>2, <1>3, PTL DEF Spec

-----------------------------------------------------------------------------
(* A message is in one pair of hands.                                      *)

\* What is known of the number of different messages in a set of them.
Pigeon ==
    \A S \in SUBSET Msgs, n \in Nat : \A f \in [1..n -> S] :
        (\A i, j \in 1..n : f[i] = f[j] => i = j) => Cardinality(S) \in Nat /\ n <= Cardinality(S)

\* Each place in the buffer costs one budget.
LEMMA QueueStep ==
    ASSUME NEW i \in Nat
    PROVE  Queue(i) \in Nat /\ Queue(i + 1) = Queue(i) + Budget
BY Numbers DEF Queue

\* What the type says of a pod's buffer.
LEMMA BufFacts ==
    ASSUME TypeOK, NEW p \in Pods
    PROVE  /\ buf[p] \in Seq(Msgs) /\ Len(buf[p]) \in Nat /\ DOMAIN buf[p] = 1..Len(buf[p])
           /\ \A i \in DOMAIN buf[p] : buf[p][i] \in Msgs
BY DEF TypeOK

\* What is in a pod's hands is with the broker, and its wait is not over.
LEMMA InHand ==
    ASSUME TypeOK, NEW p \in Pods, HandInv(p), NEW x \in Msgs, Has(p, x)
    PROVE  Stored(x) /\ msg[x].wait \in Nat /\ msg[x].wait > 0
<1>1. job[p].left \in Nat /\ DOMAIN buf[p] \subseteq Nat
    BY JobFacts, BufFacts, Numbers
<1>2. CASE Busy(p) /\ job[p].m = x
    BY <1>1, <1>2 DEF HandInv, Out
<1>3. CASE \E i \in DOMAIN buf[p] : buf[p][i] = x
  <2>1. PICK i \in DOMAIN buf[p] : buf[p][i] = x
    BY Zenon, <1>3
  <2>2. PICK n : n = job[p].left + Queue(i)
    BY Zenon
  <2>3. Queue(i) \in Nat
    BY Zenon, <1>1, QueueStep
  <2>4. n \in Nat
    BY <1>1, <2>2, <2>3
  <2>5. Out(x, n)
    BY Zenon, <2>1, <2>2 DEF HandInv
  <2> QED BY <2>4, <2>5 DEF Out
<1> QED BY Zenon, <1>2, <1>3 DEF Has

\* No pod has anything in hand at first.
LEMMA InitHands ==
    ASSUME Init
    PROVE  HandsInv
<1>1. \A p \in Pods : job[p] = Idle /\ buf[p] = <<>>
    BY Zenon DEF Init
<1>2. \A p \in Pods : ~Busy(p) /\ job[p].left = 0 /\ job[p].at # "run"
    BY Zenon, <1>1, IdleType DEF Busy
<1> QED BY <1>1, <1>2 DEF HandsInv, HandInv, OneHand, Has

\* HandsInv is inductive, under the tuning rule.
LEMMA StepHands ==
    ASSUME Pigeon, Tuned, TypeOK, LossInv, HandsInv, [Next]_vars
    PROVE  HandsInv'
<1>QueueOne. Queue(1) = Budget
  BY Numbers DEF Queue
\* A queue within the bound is worked off before the broker's patience ends.
<1>QueueFits.
      ASSUME Tuned, NEW n \in Nat, n <= MaxAckPending
      PROVE  Queue(n) < AckWait
  <2> USE <1>QueueFits
  <2>1. PICK d \in Nat : MaxAckPending = n + d
      BY Numbers
  <2>2. MaxAckPending * Budget = n * Budget + d * Budget /\ d * Budget \in Nat /\ n * Budget \in Nat
      BY <2>1, Numbers
  <2> QED BY <2>2, Numbers DEF Tuned, Queue
\* The messages in a pod's hands are pending, and there is room for one more.
<1>HandsFew.
      ASSUME Pigeon, Tuned, TypeOK, NEW p \in Pods, HandInv(p), NEW m \in Msgs,
             msg[m].wait = 0, Cardinality({x \in Msgs \ {m} : Pending(x)}) < MaxAckPending
      PROVE  job[p].left + Queue(Len(buf[p]) + 1) < AckWait
  <2> USE <1>HandsFew
  <2> DEFINE S == {x \in Msgs \ {m} : Pending(x)}
             l == Len(buf[p])
  <2>1. \A x \in Msgs, n \in Nat : Out(x, n) => x \in S
      BY DEF Out, Pending
  <2>2. /\ S \in SUBSET Msgs /\ l \in Nat /\ DOMAIN buf[p] = 1..l
        /\ \A i \in 1..l : buf[p][i] \in Msgs
        /\ job[p].m \in Msgs /\ job[p].left \in 0..Budget
      BY Zenon, BufFacts, JobFacts
  <2>3. Cardinality(S) < MaxAckPending
      BY Zenon
  <2> HIDE DEF S, l
  <2>4. \A i \in 1..l : buf[p][i] \in S
    <3> SUFFICES ASSUME NEW i \in 1..l PROVE buf[p][i] \in S
      BY Zenon
    <3>1. PICK n : n = job[p].left + Queue(i)
      BY Zenon
    <3>2. n \in Nat
      <4>1. i \in Nat /\ job[p].left \in Nat
          BY <2>2, Numbers
      <4>2. Queue(i) \in Nat
          BY Zenon, <4>1, QueueStep
      <4> QED BY <3>1, <4>1, <4>2
    <3>3. Out(buf[p][i], n)
      BY Zenon, <2>2, <3>1 DEF HandInv
    <3> QED BY Zenon, <2>1, <2>2, <3>2, <3>3
  <2>5. \A i, j \in 1..l : buf[p][i] = buf[p][j] => i = j
      BY Zenon, <2>2 DEF HandInv
  <2>6. CASE Busy(p)
    <3>0. job[p].left \in Nat BY <2>2, Numbers
    <3>1. job[p].m \in S /\ \A i \in 1..l : buf[p][i] # job[p].m
      BY Zenon, <2>1, <2>2, <2>6, <3>0 DEF HandInv
    <3> DEFINE f == [i \in 1..(l + 1) |-> IF i = l + 1 THEN job[p].m ELSE buf[p][i]]
    <3>2. f \in [1..(l + 1) -> S]
      BY <2>2, <2>4, <3>1
    <3>3. \A i, j \in 1..(l + 1) : f[i] = f[j] => i = j
      BY <2>2, <2>5, <3>1
    <3> HIDE DEF f
    <3>4. PICK n \in Nat : n = l + 1
      BY <2>2
    <3>5. Cardinality(S) \in Nat /\ n <= Cardinality(S)
      BY <2>2, <3>2, <3>3, <3>4 DEF Pigeon
    <3>6. n + 1 <= MaxAckPending /\ n + 1 \in Nat
      BY <2>3, <3>5, Numbers
    <3>7. Queue(n + 1) < AckWait
      BY Zenon, <3>6, <1>QueueFits
    <3>8. Queue(n) \in Nat /\ Queue(n + 1) = Queue(n) + Budget
      BY Zenon, QueueStep
    <3>9. job[p].left + Queue(n) < AckWait
      BY <2>2, <3>7, <3>8, Numbers
    <3> QED BY Zenon, <3>4, <3>9 DEF l
  <2>7. CASE ~Busy(p)
    <3>1. buf[p] \in [1..l -> S] /\ job[p].left = 0
      <4>1. buf[p] = [i \in 1..l |-> buf[p][i]]
          BY BufFacts DEF l
      <4> QED BY Zenon, <2>4, <2>7, <4>1 DEF HandInv
    <3>2. Cardinality(S) \in Nat /\ l <= Cardinality(S)
      BY Zenon, <2>2, <2>5, <3>1 DEF Pigeon
    <3>3. PICK n \in Nat : n = l + 1
      BY <2>2
    <3>4. n <= MaxAckPending
      BY <2>2, <2>3, <3>2, <3>3, Numbers
    <3>5. Queue(n) \in Nat /\ Queue(n) < AckWait
      BY Zenon, <3>4, QueueStep, <1>QueueFits
    <3>6. job[p].left + Queue(n) < AckWait
      BY <3>1, <3>5, Numbers
    <3> QED BY Zenon, <3>3, <3>6 DEF l
  <2> QED BY Zenon, <2>6, <2>7
\* A pod that goes on with what it has, while what it has is left alone.
<1>HandKept.
      ASSUME TypeOK, NEW p \in Pods, HandInv(p), kind' = kind, buf'[p] = buf[p],
             job'[p].m = job[p].m, job'[p].left = job[p].left,
             job'[p].at = "idle" <=> job[p].at = "idle",
             job'[p].at = job[p].at \/ job[p].left > 0 \/ job'[p].at # "run",
             \A x \in Msgs : Has(p, x) => msg'[x] = msg[x]
      PROVE  HandInv(p)' /\ \A x \in Msgs : Has(p, x)' => Has(p, x)
  <2> USE <1>HandKept
  <2>1. Busy(p)' <=> Busy(p)
      BY Zenon DEF Busy
  <2>2. \A x \in Msgs : Has(p, x)' => Has(p, x)
      BY Zenon, <2>1 DEF Has
  <2>3. Busy(p) => Out(job[p].m, job[p].left)'
    <3>1. Busy(p) => Has(p, job[p].m) /\ job[p].m \in Msgs
      BY Zenon, JobFacts DEF Has
    <3> QED BY Zenon, <3>1 DEF HandInv, Out, Stored
  <2>4. ASSUME NEW i \in DOMAIN buf[p] PROVE Out(buf[p][i], job[p].left + Queue(i))'
    <3>1. Has(p, buf[p][i]) /\ buf[p][i] \in Msgs
      BY Zenon, BufFacts DEF Has
    <3> QED BY Zenon, <3>1 DEF HandInv, Out, Stored
  <2> QED BY Zenon, <2>1, <2>2, <2>3, <2>4 DEF HandInv
\* The step of one pod that takes nothing on.
<1>HandsKept.
      ASSUME TypeOK, HandsInv, NEW p \in Pods, kind' = kind,
             \A q \in Pods \ {p} : buf'[q] = buf[q] /\ job'[q] = job[q],
             \A q \in Pods \ {p}, x \in Msgs : Has(q, x) => msg'[x] = msg[x],
             HandInv(p)', \A x \in Msgs : Has(p, x)' => Has(p, x)
      PROVE  HandsInv'
  <2> USE <1>HandsKept
  <2>1. \A q \in Pods : HandInv(q)' /\ \A x \in Msgs : Has(q, x)' => Has(q, x)
    <3> SUFFICES ASSUME NEW q \in Pods, q # p
                 PROVE  HandInv(q)' /\ \A x \in Msgs : Has(q, x)' => Has(q, x)
      BY Zenon
    <3> QED BY Zenon, <1>HandKept DEF HandsInv
  <2> QED BY Zenon, <2>1 DEF HandsInv, OneHand
<1>FetchHands.
      ASSUME Pigeon, Tuned, TypeOK, HandsInv, NEW p \in Pods, NEW m \in Msgs, Fetch(p, m)
      PROVE  HandsInv'
  <2> USE <1>FetchHands
  <2>1. /\ TypeOK' /\ MsgMoves(m) /\ msg'[m].state = msg[m].state
        /\ msg'[m].wait = AckWait /\ msg'[m].count > 0
      BY Zenon, FetchDo
  <2>2. /\ kind' = kind /\ job' = job /\ Stored(m) /\ msg[m].wait = 0
        /\ Cardinality({x \in Msgs \ {m} : Pending(x)}) < MaxAckPending
      BY Zenon DEF Fetch
  <2>3. buf'[p] = Append(buf[p], m) /\ \A q \in Pods \ {p} : buf'[q] = buf[q]
      BY Zenon DEF Fetch, TypeOK
  <2>4. \A q \in Pods : ~Has(q, m)
      BY <2>2, InHand DEF HandsInv
  <2>5. \A q \in Pods, x \in Msgs : Has(q, x) => msg'[x] = msg[x]
      BY Zenon, <2>1, <2>4 DEF MsgMoves
  <2>6. \A q \in Pods \ {p} : HandInv(q)' /\ \A x \in Msgs : Has(q, x)' => Has(q, x)
    <3> SUFFICES ASSUME NEW q \in Pods, q # p
                 PROVE  HandInv(q)' /\ \A x \in Msgs : Has(q, x)' => Has(q, x)
      BY Zenon
    <3> QED BY Zenon, <2>2, <2>3, <2>5, <1>HandKept DEF HandsInv
  <2>7. PICK l \in Nat : l = Len(buf[p])
      BY Zenon, BufFacts
  <2>8. /\ DOMAIN buf[p] = 1..l /\ DOMAIN buf'[p] = 1..(l + 1) /\ buf'[p][l + 1] = m
        /\ \A i \in 1..l : buf'[p][i] = buf[p][i] /\ buf[p][i] \in Msgs
      BY <2>3, <2>7, BufFacts
  <2>9. \A x \in Msgs : Has(p, x)' => Has(p, x) \/ x = m
      BY <2>2, <2>7, <2>8 DEF Has, Busy
  <2>10. HandInv(p)'
    <3>1. HandInv(p)
      BY Zenon DEF HandsInv
    <3>2. Busy(p) => Out(job[p].m, job[p].left)'
      <4>1. Busy(p) => Has(p, job[p].m) /\ job[p].m \in Msgs
          BY Zenon, JobFacts DEF Has
      <4> QED BY Zenon, <2>2, <2>5, <3>1, <4>1 DEF HandInv, Out, Stored
    <3>3. ASSUME NEW i \in 1..(l + 1) PROVE Out(buf[p][i], job[p].left + Queue(i))'
      <4>1. CASE i \in 1..l
        <5>1. Has(p, buf[p][i]) /\ buf[p][i] \in Msgs /\ buf'[p][i] = buf[p][i]
          BY Zenon, <2>8, <4>1 DEF Has
        <5>2. Out(buf[p][i], job[p].left + Queue(i))
          BY Zenon, <2>8, <3>1, <4>1 DEF HandInv
        <5> QED BY Zenon, <2>2, <2>5, <5>1, <5>2 DEF Out, Stored
      <4>2. CASE i = l + 1
        <5>1. job[p].left + Queue(l + 1) < AckWait
          BY Zenon, <2>2, <2>7, <3>1, <1>HandsFew
        <5> QED BY Zenon, <2>1, <2>2, <2>8, <4>2, <5>1, Numbers DEF Out, Stored
      <4> QED BY <2>7, <4>1, <4>2
    <3>4. \A i \in 1..l : buf[p][i] # m
      BY Zenon, <2>4, <2>8 DEF Has
    <3>5. Busy(p) => job[p].m # m
      BY Zenon, <2>4 DEF Has
    <3>6. \A i, j \in 1..(l + 1) : buf'[p][i] = buf'[p][j] => i = j
      <4>1. \A i, j \in 1..l : buf[p][i] = buf[p][j] => i = j
          BY Zenon, <2>8, <3>1 DEF HandInv
      <4>2. \A i \in 1..(l + 1) : i \in 1..l \/ i = l + 1
          BY <2>7
      <4> QED BY Zenon, <2>8, <3>4, <4>1, <4>2
    <3>7. Busy(p) => \A i \in 1..(l + 1) : buf'[p][i] # job[p].m
      BY <2>7, <2>8, <3>1, <3>5 DEF HandInv
    <3>8. Busy(p)' <=> Busy(p)
      BY Zenon, <2>2 DEF Busy
    <3> QED BY Zenon, <2>2, <2>8, <3>1, <3>2, <3>3, <3>6, <3>7, <3>8 DEF HandInv
  <2> QED BY <2>4, <2>6, <2>9, <2>10 DEF HandsInv, OneHand
<1>TailFacts.
      ASSUME NEW s \in Seq(Msgs), s # <<>>, NEW l, l = Len(s) - 1
      PROVE  /\ l \in Nat /\ DOMAIN s = 1..(l + 1) /\ DOMAIN Tail(s) = 1..l
             /\ \A i \in 1..l : i + 1 \in 1..(l + 1) /\ Tail(s)[i] = s[i + 1]
             /\ 1 \in 1..(l + 1) /\ Head(s) = s[1]
  <2> USE <1>TailFacts
  <2>1. Len(s) \in Nat /\ Len(s) # 0 /\ DOMAIN s = 1..Len(s)
      OBVIOUS
  <2>2. l \in Nat /\ l + 1 = Len(s) /\ 1 \in 1..(l + 1)
      BY <2>1
  <2>3. Tail(s) \in Seq(Msgs) /\ Len(Tail(s)) = Len(s) - 1 /\ Head(s) = s[1]
      BY <2>1
  <2>4. DOMAIN Tail(s) = 1..l
      BY <2>2, <2>3
  <2>5. ASSUME NEW i \in 1..l PROVE i + 1 \in 1..(l + 1) /\ Tail(s)[i] = s[i + 1]
      BY <2>1, <2>2
  <2> QED BY Zenon, <2>1, <2>2, <2>3, <2>4, <2>5
<1>BeginHands.
      ASSUME TypeOK, HandsInv, NEW p \in Pods, Begin(p)
      PROVE  HandsInv'
  <2> USE <1>BeginHands
  <2>1. PICK m \in Msgs : m = Head(buf[p])
      BY Zenon, BeginDo
  <2>2. /\ buf[p] # <<>> /\ buf' = [buf EXCEPT ![p] = Tail(buf[p])] /\ JobMoves(p)
        /\ job'[p].m = m /\ job'[p].left = Budget /\ job'[p].at # "idle"
      BY Zenon, <2>1, BeginDo
  <2>3. kind' = kind /\ msg' = msg /\ job[p].at = "idle" /\ HandInv(p)
      BY Zenon DEF Begin, HandsInv
  <2>4. \A q \in Pods \ {p} : buf'[q] = buf[q] /\ job'[q] = job[q]
      BY Zenon, <2>2 DEF JobMoves, TypeOK
  <2>5. PICK l : l = Len(buf[p]) - 1
      BY Zenon
  <2>6. /\ l \in Nat /\ buf'[p] = Tail(buf[p]) /\ DOMAIN buf[p] = 1..(l + 1) /\ DOMAIN buf'[p] = 1..l
        /\ \A i \in 1..l : i + 1 \in 1..(l + 1) /\ buf'[p][i] = buf[p][i + 1]
        /\ 1 \in 1..(l + 1) /\ m = buf[p][1]
    <3>1. buf[p] \in Seq(Msgs) /\ buf'[p] = Tail(buf[p])
      BY Zenon, <2>2 DEF TypeOK
    <3> QED BY Zenon, <2>1, <2>2, <2>5, <3>1, <1>TailFacts
  <2>7. job[p].left = 0 /\ \A i \in 1..(l + 1) : Out(buf[p][i], job[p].left + Queue(i))
      BY Zenon, <2>3, <2>6 DEF HandInv, Busy
  <2>8. Out(m, Budget)'
    <3>1. 0 + Queue(1) = Budget
      BY <1>QueueOne, Numbers
    <3>2. Out(m, Budget)
      BY Zenon, <2>6, <2>7, <3>1
    <3> QED BY Zenon, <2>3, <3>2 DEF Out, Stored
  <2>9. ASSUME NEW i \in 1..l PROVE Out(buf[p][i], Budget + Queue(i))'
    <3>1. i \in Nat /\ Queue(i) \in Nat /\ Queue(i + 1) = Queue(i) + Budget
      BY <2>6, QueueStep
    <3>2. 0 + Queue(i + 1) = Budget + Queue(i)
      BY <3>1, Numbers
    <3>3. Out(buf[p][i + 1], Budget + Queue(i))
      BY Zenon, <2>6, <2>7, <3>2
    <3> QED BY Zenon, <2>3, <2>6, <3>3 DEF Out, Stored
  <2>10. \A i, j \in 1..l : buf'[p][i] = buf'[p][j] => i = j
    <3>1. \A i, j \in 1..(l + 1) : buf[p][i] = buf[p][j] => i = j
      BY Zenon, <2>3, <2>6 DEF HandInv
    <3>2. \A i, j \in 1..l : i + 1 = j + 1 => i = j
      BY <2>6
    <3> QED BY Zenon, <2>6, <3>1, <3>2
  <2>11. \A i \in 1..l : buf'[p][i] # m
    <3>1. \A i, j \in 1..(l + 1) : buf[p][i] = buf[p][j] => i = j
      BY Zenon, <2>3, <2>6 DEF HandInv
    <3>2. \A i \in 1..l : i + 1 # 1
      BY <2>6
    <3> QED BY Zenon, <2>6, <3>1, <3>2
  <2>12. HandInv(p)'
      BY <2>2, <2>6, <2>8, <2>9, <2>10, <2>11, Numbers DEF HandInv, Busy
  <2>13. \A x \in Msgs : Has(p, x)' => Has(p, x)
      BY Zenon, <2>2, <2>6 DEF Has, Busy
  <2> QED BY Zenon, <2>3, <2>4, <2>12, <2>13, <1>HandsKept
\* The other steps of a dispatch keep its message and its time.
<1>GoOnHands.
      ASSUME TypeOK, HandsInv, NEW p \in Pods, JobMoves(p), kind' = kind, buf' = buf, msg' = msg,
             job[p].at # "idle", job'[p].at # "idle",
             job'[p].m = job[p].m, job'[p].left = job[p].left,
             job'[p].at # "run" \/ job[p].left > 0
      PROVE  HandsInv'
  <2> USE <1>GoOnHands
  <2>1. HandInv(p)' /\ \A x \in Msgs : Has(p, x)' => Has(p, x)
      BY Zenon, <1>HandKept DEF HandsInv
  <2>2. \A q \in Pods \ {p} : buf'[q] = buf[q] /\ job'[q] = job[q]
      BY Zenon DEF JobMoves
  <2> QED BY Zenon, <2>1, <2>2, <1>HandsKept
<1>DispatchHands.
      ASSUME TypeOK, DrainInv, HandsInv, NEW p \in Pods,
             \/ Succeed(p) \/ Backoff(p) \/ Park(p)
             \/ \E err \in {"transient", "terminal"}, panic \in BOOLEAN : Fail(p, err, panic)
      PROVE  HandsInv'
  <2> USE <1>DispatchHands
  <2>1. CASE Succeed(p)
    <3>1. kind' = kind /\ buf' = buf /\ msg' = msg /\ job[p].at # "idle"
      BY Zenon, <2>1 DEF Succeed
    <3> QED BY Zenon, <2>1, <3>1, SucceedDo, <1>GoOnHands
  <2>2. CASE Backoff(p)
    <3>1. kind' = kind /\ buf' = buf /\ msg' = msg /\ job[p].at # "idle"
      BY Zenon, <2>2 DEF Backoff
    <3> QED BY Zenon, <2>2, <3>1, BackoffDo, <1>GoOnHands
  <2>3. CASE Park(p)
    <3>1. kind' = kind /\ buf' = buf /\ msg' = msg /\ job[p].at # "idle"
      BY Zenon, <2>3 DEF Park
    <3> QED BY Zenon, <2>3, <3>1, ParkDo, <1>GoOnHands
  <2>4. ASSUME NEW err \in {"transient", "terminal"}, NEW panic, Fail(p, err, panic) PROVE HandsInv'
    <3>1. kind' = kind /\ buf' = buf /\ msg' = msg /\ job[p].at # "idle"
      BY Zenon, <2>4 DEF Fail
    <3> QED BY Zenon, <2>4, <3>1, FailDo, <1>GoOnHands
  <2> QED BY Zenon, <2>1, <2>2, <2>3, <2>4
\* A pod without a dispatch, whose buffer is shorter and left alone.
<1>AnswerHands.
      ASSUME TypeOK, HandsInv, NEW p \in Pods, Answer(p)
      PROVE  HandsInv'
  <2> USE <1>AnswerHands
  <2>1. PICK m \in Msgs : m = job[p].m
      BY Zenon, JobFacts
  <2>2. JobMoves(p) /\ job'[p] = Idle /\ (msg' = msg \/ MsgMoves(m))
      BY Zenon, <2>1, AnswerDo
  <2>3. kind' = kind /\ buf' = buf /\ Busy(p) /\ HandInv(p)
      BY Zenon DEF Answer, HandsInv, Busy
  <2>4. \A x \in Msgs \ {m} : msg'[x] = msg[x]
      BY Zenon, <2>2 DEF MsgMoves
  <2>5. ASSUME NEW q \in Pods \ {p}, NEW x \in Msgs, Has(q, x) PROVE msg'[x] = msg[x]
    <3>1. Has(p, m)
      BY Zenon, <2>1, <2>3 DEF Has
    <3>2. x # m
      BY Zenon, <2>5, <3>1 DEF HandsInv, OneHand
    <3> QED BY Zenon, <2>4, <3>2
  <2>6. ~Busy(p)' /\ job'[p].left = 0 /\ job'[p].at # "run"
      BY Zenon, <2>2, IdleType DEF Busy
  <2>7. ASSUME NEW i \in DOMAIN buf[p] PROVE Out(buf[p][i], job[p].left + Queue(i))'
    <3>1. buf[p][i] \in Msgs /\ buf[p][i] # m /\ i \in Nat /\ job[p].left \in Nat
      <4>1. buf[p][i] \in Msgs /\ Len(buf[p]) \in Nat /\ i \in 1..Len(buf[p])
        BY Zenon, BufFacts
      <4>2. buf[p][i] # m
        BY Zenon, <2>1, <2>3 DEF HandInv
      <4>3. i \in Nat
        BY <4>1
      <4>4. job[p].left \in 0..Budget
        BY Zenon, JobFacts
      <4>5. job[p].left \in Nat
        BY <4>4, Numbers
      <4> QED BY Zenon, <4>1, <4>2, <4>3, <4>5
    <3>2. PICK n \in Nat : n = Queue(i)
      BY Zenon, <3>1, QueueStep
    <3>3. Out(buf[p][i], job[p].left + n)
      BY Zenon, <2>3, <3>2 DEF HandInv
    <3>4. 0 + n < msg[buf[p][i]].wait
      BY <3>1, <3>3 DEF Out
    <3>5. Out(buf[p][i], 0 + n)'
      BY Zenon, <2>3, <2>4, <3>1, <3>3, <3>4 DEF Out, Stored
    <3> QED BY Zenon, <2>6, <3>2, <3>5 DEF Out, Stored
  <2>8. HandInv(p)'
      BY Zenon, <2>3, <2>6, <2>7 DEF HandInv
  <2>9. \A x \in Msgs : Has(p, x)' => Has(p, x)
      BY Zenon, <2>3, <2>6 DEF Has
  <2>10. \A q \in Pods \ {p} : buf'[q] = buf[q] /\ job'[q] = job[q]
      BY Zenon, <2>2, <2>3 DEF JobMoves
  <2> QED BY Zenon, <2>3, <2>5, <2>8, <2>9, <2>10, <1>HandsKept
<1>CrashHands.
      ASSUME TypeOK, HandsInv, NEW p \in Pods, Crash(p)
      PROVE  HandsInv'
  <2> USE <1>CrashHands
  <2>1. JobMoves(p) /\ job'[p] = Idle /\ kind' = kind /\ msg' = msg
      BY Zenon, CrashDo DEF Crash
  <2>2. buf'[p] = <<>> /\ \A q \in Pods \ {p} : buf'[q] = buf[q]
      BY Zenon DEF Crash, TypeOK
  <2>3. ~Busy(p)' /\ job'[p].left = 0 /\ job'[p].at # "run"
      BY Zenon, <2>1, IdleType DEF Busy
  <2>4. HandInv(p)' /\ \A x \in Msgs : ~Has(p, x)'
      BY <2>2, <2>3 DEF HandInv, Has
  <2> QED BY <2>1, <2>2, <2>4, <1>HandsKept DEF JobMoves
\* A step that is not a pod's: no message in a hand is touched.
<1>AsideHands.
      ASSUME TypeOK, HandsInv, kind' = kind, job' = job, buf' = buf,
             \A x \in Msgs : Stored(x) => msg'[x] = msg[x]
      PROVE  HandsInv'
  <2> USE <1>AsideHands
  <2>1. ASSUME NEW q \in Pods PROVE HandInv(q)' /\ \A x \in Msgs : Has(q, x)' => Has(q, x)
      BY Zenon, InHand, <1>HandKept DEF HandsInv
  <2> QED BY <2>1 DEF HandsInv, OneHand
<1>RedriveHands.
      ASSUME TypeOK, HandsInv, NEW y \in Msgs, Redrive(y)
      PROVE  HandsInv'
  <2> USE <1>RedriveHands
  <2>1. \A x \in Msgs : Stored(x) => msg'[x] = msg[x]
    <3>1. msg' = msg \/ MsgMoves(Again(y))
      BY Zenon, RedriveDo
    <3>2. Stored(Again(y)) => msg' = msg
      BY Zenon DEF Redrive, Publish, Again
    <3> QED BY Zenon, <3>1, <3>2 DEF MsgMoves
  <2>2. kind' = kind /\ job' = job /\ buf' = buf
      BY Zenon DEF Redrive
  <2> QED BY <2>1, <2>2, <1>AsideHands
\* Time passes while every dispatch has some left, and no buffer waits.
<1>TickHands.
      ASSUME TypeOK, HandsInv, Tick
      PROVE  HandsInv'
  <2> USE <1>TickHands
  <2>1. ASSUME NEW p \in Pods
        PROVE  HandInv(p)' /\ \A x \in Msgs : Has(p, x)' => Has(p, x)
    <3>1. /\ job'[p].at = job[p].at /\ job'[p].m = job[p].m /\ job'[p].left = Less(job[p].left)
          /\ kind' = kind /\ buf'[p] = buf[p] /\ ~Due(p) /\ HandInv(p)
      BY Zenon, TickDo, TickIs DEF HandsInv
    <3>2. job[p].at \in {"idle", "run", "backoff", "park", "ack", "nak"} /\ job[p].left \in Nat
      BY JobFacts, Numbers DEF JobType
    <3>3. \A x \in Msgs : /\ msg'[x].state = msg[x].state /\ msg'[x].count = msg[x].count
                          /\ msg'[x].wait = Less(msg[x].wait)
      BY Zenon, TickDo
    <3>4. Busy(p)' <=> Busy(p)
      BY Zenon, <3>1 DEF Busy
    <3>5. CASE ~Busy(p)
      <4>1. buf[p] = <<>> /\ job[p].left = 0 /\ job'[p].left = 0
          BY Zenon, <3>1, <3>5 DEF Due, Busy, HandInv, Less
      <4>2. DOMAIN buf'[p] = {}
          BY <3>1, <4>1
      <4>3. job'[p].at = "idle"
          BY Zenon, <3>1, <3>5 DEF Busy
      <4>4. HandInv(p)'
          BY Zenon, <4>1, <4>2, <4>3 DEF HandInv, Busy
      <4>5. \A x \in Msgs : Has(p, x)' => Has(p, x)
          BY Zenon, <4>2, <4>3 DEF Has, Busy
      <4> QED BY Zenon, <4>4, <4>5
    <3>6. CASE Busy(p)
      <4>1. /\ job[p].at = "run" /\ job[p].left > 0
            /\ kind[Key(job[p].m)] # "slow" => job[p].left > 1
        <5>1. job[p].at = "run"
          BY Zenon, <3>1, <3>2, <3>6 DEF Due, Busy
        <5>2. kind[Key(job[p].m)] = "slow" => job[p].left # 0
          BY Zenon, <3>1, <5>1 DEF Due
        <5>3. kind[Key(job[p].m)] # "slow" => job[p].left # 1 /\ job[p].left > 0
          BY Zenon, <3>1, <5>1 DEF Due, HandInv
        <5> QED BY <3>2, <5>1, <5>2, <5>3
      <4>2. PICK n \in Nat : n = job[p].left
          BY Zenon, <3>2
      <4>3. job'[p].left = n - 1
          BY <3>1, <4>1, <4>2 DEF Less
      <4>4. \A x \in Msgs, d \in Nat : Out(x, n + d) => Out(x, n - 1 + d)'
        <5> SUFFICES ASSUME NEW x \in Msgs, NEW d \in Nat, Out(x, n + d)
                     PROVE  msg'[x].wait \in Nat /\ n - 1 + d < msg'[x].wait
          BY <3>3 DEF Out, Stored
        <5>1. msg[x].wait \in Nat /\ n + d < msg[x].wait
          BY Zenon DEF Out
        <5> QED BY <3>3, <5>1 DEF Less
      <4>5. Out(job[p].m, job[p].left)'
        <5>1. Out(job[p].m, n + 0) /\ job[p].m \in Msgs
          <6>1. Out(job[p].m, job[p].left)
            BY Zenon, <3>1, <3>6 DEF HandInv
          <6>2. job[p].left = n + 0
            BY <4>2
          <6>3. job[p].m \in Msgs
            BY Zenon, JobFacts
          <6> QED BY Zenon, <6>1, <6>2, <6>3
        <5>2. Out(job[p].m, n - 1 + 0)'
          BY <3>1, <4>4, <5>1
        <5>3. n - 1 + 0 = job'[p].left
          BY <4>3
        <5> QED BY <5>2, <5>3 DEF Out
      <4>6. ASSUME NEW i \in DOMAIN buf[p] PROVE Out(buf[p][i], job[p].left + Queue(i))'
        <5>1. buf[p][i] \in Msgs /\ i \in Nat
          BY BufFacts
        <5>2. PICK d \in Nat : d = Queue(i)
          BY Zenon, <5>1, QueueStep
        <5>3. Out(buf[p][i], n + d)
          BY Zenon, <3>1, <4>2, <5>2 DEF HandInv
        <5>4. Out(buf[p][i], n - 1 + d)'
          BY Zenon, <3>1, <4>4, <5>1, <5>3
        <5> QED BY <4>3, <5>2, <5>4 DEF Out
      <4>7. \A x \in Msgs : Has(p, x)' => Has(p, x)
          BY Zenon, <3>1, <3>4 DEF Has
      <4>8. job'[p].at = "run" /\ kind'[Key(job'[p].m)] # "slow" => job'[p].left > 0
          BY <3>1, <4>1, <4>2, <4>3
      <4> QED BY Zenon, <3>1, <3>4, <3>6, <4>5, <4>6, <4>7, <4>8 DEF HandInv
    <3> QED BY Zenon, <3>5, <3>6
  <2> QED BY Zenon, <2>1 DEF HandsInv, OneHand
<1>0. DrainInv
    BY Zenon DEF LossInv
<1>1. CASE Next
  <2>1. CASE \E p \in Pods, m \in Msgs : Fetch(p, m)
    BY Zenon, <2>1, <1>FetchHands
  <2>2. CASE \E p \in Pods : Begin(p)
    BY Zenon, <2>2, <1>BeginHands
  <2>3. CASE \E p \in Pods : Succeed(p) \/ Backoff(p) \/ Park(p)
    BY Zenon, <1>0, <2>3, <1>DispatchHands
  <2>4. CASE \E p \in Pods, err \in {"transient", "terminal"}, panic \in BOOLEAN : Fail(p, err, panic)
    BY Zenon, <1>0, <2>4, <1>DispatchHands
  <2>5. CASE \E p \in Pods : Answer(p)
    BY Zenon, <2>5, <1>AnswerHands
  <2>6. CASE \E p \in Pods : Crash(p)
    BY Zenon, <2>6, <1>CrashHands
  <2>7. CASE \E p \in Pods, k \in Keys : Evict(p, k)
    BY Zenon, <2>7, <1>AsideHands DEF Evict
  <2>8. CASE \E m \in Msgs : Redrive(m)
    BY Zenon, <2>8, <1>RedriveHands
  <2>9. CASE Tick
    BY Zenon, <2>9, <1>TickHands
  <2> QED BY Zenon, <1>1, <2>1, <2>2, <2>3, <2>4, <2>5, <2>6, <2>7, <2>8, <2>9, NextCases
<1>2. CASE UNCHANGED vars
    BY Zenon, <1>2, <1>AsideHands DEF vars
<1> QED BY Zenon, <1>1, <1>2

-----------------------------------------------------------------------------
(* Once, without a fault.                                                  *)

\* There is one copy of every event at first.
LEMMA InitOnce ==
    ASSUME Init
    PROVE  OnceInv
<1>1. \A m \in Msgs : /\ dlq[m].state = "absent"
                      /\ msg[m].state = IF m[2] = 0 THEN "stored" ELSE "absent"
    BY Zenon, InitType
<1> SUFFICES ASSUME NEW k \in Keys PROVE \E r \in 0..MaxRedrives : OneCopy(k, r)
    BY Zenon DEF OnceInv
<1>2. /\ 0 \in 0..MaxRedrives /\ handled[k] = 0
      /\ \A s \in 0..MaxRedrives : <<k, s>> \in Msgs /\ <<k, s>>[2] = s /\ ~(s < 0)
    BY Numbers, MsgsFacts DEF Init
<1>3. OneCopy(k, 0)
    BY Zenon, <1>1, <1>2 DEF OneCopy
<1> QED BY Zenon, <1>2, <1>3

\* OnceInv is inductive.
LEMMA StepOnce ==
    ASSUME TypeOK, LossInv, HandsInv, OnceInv, [Next]_vars
    PROVE  OnceInv'
\* The copies of an event that a step leaves where they are.
<1>CopyKept.
      ASSUME NEW k \in Keys, NEW r \in 0..MaxRedrives, OneCopy(k, r),
             \A s \in 0..MaxRedrives : /\ msg'[<<k, s>>].state = msg[<<k, s>>].state
                                       /\ dlq'[<<k, s>>] = dlq[<<k, s>>],
             handled'[k] = handled[k], Acking(<<k, r>>) => Acking(<<k, r>>)'
      PROVE  OneCopy(k, r)'
  BY <1>CopyKept DEF OneCopy, Stored
\* A step that leaves the copies of every event where they are.
<1>OnceKept.
      ASSUME OnceInv, faults' = faults, handled' = handled, dlq' = dlq,
             \A x \in Msgs : msg'[x].state = msg[x].state,
             \A x \in Msgs : Acking(x) => Acking(x)'
      PROVE  OnceInv'
  <2> USE <1>OnceKept
  <2> SUFFICES ASSUME faults = 0, NEW k \in Keys
               PROVE  \E r \in 0..MaxRedrives : OneCopy(k, r)'
      BY DEF OnceInv
  <2>1. PICK r \in 0..MaxRedrives : OneCopy(k, r)
      BY Zenon DEF OnceInv
  <2>2. \A s \in 0..MaxRedrives : <<k, s>> \in Msgs
      BY MsgsFacts
  <2>3. OneCopy(k, r)'
      BY Zenon, <2>1, <2>2, <1>CopyKept
  <2> QED BY Zenon, <2>3
\* The message of a dispatch is the one copy of its event, and if the dispatch
\* is not about to ack, the event is neither handled nor parked.
<1>DispatchedCopy.
      ASSUME TypeOK, HandsInv, NEW p \in Pods, Busy(p), NEW k \in Keys, NEW r \in 0..MaxRedrives,
             k = Key(job[p].m), OneCopy(k, r)
      PROVE  /\ job[p].m = <<k, r>> /\ Stored(<<k, r>>)
             /\ job[p].at # "ack" => /\ ~(handled[k] > 0) /\ dlq[<<k, r>>].state = "absent"
                                     /\ ~Acking(<<k, r>>)
  <2> USE <1>DispatchedCopy
  <2>1. Has(p, job[p].m) /\ job[p].m \in Msgs
      BY JobFacts DEF Has
  <2>2. Stored(job[p].m)
      BY Zenon, <2>1, InHand DEF HandsInv
  <2>3. PICK s \in 0..MaxRedrives : job[p].m = <<k, s>>
      BY Zenon, <2>1, MsgsFacts
  <2>4. s = r
      BY <2>2, <2>3 DEF OneCopy, Stored
  <2>5. ASSUME job[p].at # "ack" PROVE ~Acking(<<k, r>>)
    <3> SUFFICES ASSUME NEW q \in Pods, job[q].at = "ack", job[q].m = <<k, r>> PROVE FALSE
      BY Zenon DEF Acking
    <3>1. Has(q, job[p].m)
      BY Zenon, <2>3, <2>4 DEF Has, Busy
    <3> QED BY Zenon, <2>1, <2>5, <3>1 DEF HandsInv, OneHand
  <2>6. dlq[<<k, r>>].state \in {"absent", "parked", "drained"}
      BY Zenon, <2>1, <2>3, <2>4, CopyFacts
  <2> QED BY <2>2, <2>3, <2>4, <2>5, <2>6 DEF OneCopy
\* A dispatch that ends well makes its event's copy one that is about to be
\* acked.
<1>SucceedOnce.
      ASSUME TypeOK, HandsInv, OnceInv, NEW p \in Pods, Succeed(p)
      PROVE  OnceInv'
  <2> USE <1>SucceedOnce
  <2>1. PICK j \in Keys : j = Key(job[p].m)
      BY Zenon, JobFacts
  <2>2. /\ JobMoves(p) /\ job'[p].at = "ack" /\ job'[p].m = job[p].m
        /\ (handled[j] = 0 => handled'[j] = 1)
        /\ \A k \in Keys : k # j => handled'[k] = handled[k]
      BY Zenon, <2>1, SucceedDo
  <2>3. msg' = msg /\ dlq' = dlq /\ faults' = faults /\ job[p].at = "run" /\ Busy(p)
      BY DEF Succeed, Busy
  <2>4. \A x \in Msgs : Acking(x) => Acking(x)'
      BY Zenon, <2>2, <2>3 DEF Acking, JobMoves
  <2> SUFFICES ASSUME faults = 0, NEW k \in Keys
               PROVE  \E r \in 0..MaxRedrives : OneCopy(k, r)'
      BY Zenon, <2>3 DEF OnceInv
  <2>5. PICK r \in 0..MaxRedrives : OneCopy(k, r)
      BY Zenon DEF OnceInv
  <2>6. \A s \in 0..MaxRedrives : <<k, s>> \in Msgs
      BY Zenon, MsgsFacts
  <2>7. CASE k # j
    <3>1. OneCopy(k, r)'
      BY Zenon, <2>2, <2>3, <2>4, <2>5, <2>6, <2>7, <1>CopyKept
    <3> QED BY Zenon, <3>1
  <2>8. CASE k = j
    <3>1. /\ job[p].m = <<k, r>> /\ Stored(<<k, r>>) /\ ~(handled[k] > 0)
          /\ dlq[<<k, r>>].state = "absent"
      BY <2>1, <2>3, <2>5, <2>8, <1>DispatchedCopy
    <3>2. handled'[k] = 1
      BY <2>2, <2>8, <3>1, Counts
    <3>3. Acking(<<k, r>>)'
      BY Zenon, <2>2, <3>1 DEF Acking
    <3>4. OneCopy(k, r)'
      BY <2>3, <2>5, <3>1, <3>2, <3>3 DEF OneCopy, Stored
    <3> QED BY Zenon, <3>4
  <2> QED BY Zenon, <2>7, <2>8
<1>ParkOnce.
      ASSUME TypeOK, DrainInv, HandsInv, OnceInv, NEW p \in Pods, Park(p)
      PROVE  OnceInv'
  <2> USE <1>ParkOnce
  <2>1. PICK m \in Msgs : m = job[p].m
      BY Zenon, JobFacts
  <2>2. /\ JobMoves(p) /\ job'[p].m = m
        /\ dlq' = dlq \/ (DlqMoves(m) /\ dlq'[m].age = 0 /\ dlq'[m].state = "parked")
        /\ \/ job'[p].at = "ack" /\ dlq'[m].state = "parked"
           \/ job'[p].at = "nak" /\ (faults' = faults => dlq' = dlq)
      BY <2>1, ParkDo
  <2>3. /\ msg' = msg /\ handled' = handled /\ job[p].at = "park" /\ Busy(p)
        /\ faults \in Nat /\ (faults' = faults \/ faults' = faults + 1)
      BY Zenon DEF Park, Busy, Fault, TypeOK
  <2>4. \A x \in Msgs : Acking(x) => Acking(x)'
      BY Zenon, <2>2, <2>3 DEF Acking, JobMoves
  <2> SUFFICES ASSUME faults' = 0, NEW k \in Keys
               PROVE  \E r \in 0..MaxRedrives : OneCopy(k, r)'
      BY Zenon DEF OnceInv
  <2>5. faults = 0 /\ faults' = faults
      BY <2>3
  <2>6. PICK r \in 0..MaxRedrives : OneCopy(k, r)
      BY Zenon, <2>5 DEF OnceInv
  <2>7. \A s \in 0..MaxRedrives : <<k, s>> \in Msgs /\ Key(<<k, s>>) = k
      BY Zenon, MsgsFacts
  <2>8. CASE \A s \in 0..MaxRedrives : dlq'[<<k, s>>] = dlq[<<k, s>>]
    <3>1. OneCopy(k, r)'
      BY Zenon, <2>3, <2>4, <2>6, <2>7, <2>8, <1>CopyKept
    <3> QED BY Zenon, <3>1
  <2>9. CASE \E s \in 0..MaxRedrives : dlq'[<<k, s>>] # dlq[<<k, s>>]
    <3>1. Key(m) = k /\ job'[p].at = "ack"
      BY Zenon, <2>2, <2>5, <2>7, <2>9 DEF DlqMoves
    <3>2. m = <<k, r>> /\ Stored(m) /\ ~(handled[k] > 0) /\ dlq[m].state = "absent"
      BY Zenon, <2>1, <2>3, <2>6, <3>1, <1>DispatchedCopy
    <3>3. /\ \A s \in 0..MaxRedrives : s # r => dlq'[<<k, s>>] = dlq[<<k, s>>]
          /\ dlq'[m].state = "parked" /\ dlq'[m].age = 0
      <4>1. DlqMoves(m) /\ dlq'[m].age = 0 /\ dlq'[m].state = "parked"
        BY Zenon, <2>2, <2>9
      <4>2. ASSUME NEW s \in 0..MaxRedrives, s # r PROVE dlq'[<<k, s>>] = dlq[<<k, s>>]
        <5>1. <<k, s>> # <<k, r>>
          BY <4>2
        <5>2. <<k, s>> \in Msgs \ {m}
          BY Zenon, <2>7, <3>2, <5>1
        <5> QED BY Zenon, <4>1, <5>2 DEF DlqMoves
      <4> QED BY Zenon, <4>1, <4>2
    <3>4. Acking(m)'
      BY <2>2, <3>1 DEF Acking
    <3>5. OneCopy(k, r)'
      BY Zenon, <2>3, <2>6, <3>2, <3>3, <3>4 DEF OneCopy, Stored
    <3> QED BY Zenon, <3>5
  <2> QED BY Zenon, <2>8, <2>9
\* The answer of a dispatch reaches the broker.
<1>AnswerOnce.
      ASSUME TypeOK, HandsInv, OnceInv, NEW p \in Pods, Answer(p)
      PROVE  OnceInv'
  <2> USE <1>AnswerOnce
  <2>1. PICK m \in Msgs : m = job[p].m
      BY JobFacts
  <2>2. /\ JobMoves(p) /\ job'[p] = Idle
        /\ \/ msg' = msg /\ (faults' = faults => ~Stored(m))
           \/ /\ MsgMoves(m)
              /\ \/ job[p].at = "ack" /\ msg'[m].state = "acked"
                 \/ job[p].at = "nak" /\ msg'[m].state = "stored"
      BY <2>1, AnswerDo
  <2>3. /\ dlq' = dlq /\ handled' = handled /\ Busy(p)
        /\ faults \in Nat /\ (faults' = faults \/ faults' = faults + 1)
      BY Zenon DEF Answer, Busy, Fault, TypeOK
  <2> SUFFICES ASSUME faults' = 0, NEW k \in Keys
               PROVE  \E r \in 0..MaxRedrives : OneCopy(k, r)'
      BY Zenon DEF OnceInv
  <2>4. faults = 0 /\ faults' = faults
      BY <2>3
  <2>5. PICK r \in 0..MaxRedrives : OneCopy(k, r)
      BY Zenon, <2>4 DEF OnceInv
  <2>6. \A s \in 0..MaxRedrives : <<k, s>> \in Msgs /\ Key(<<k, s>>) = k
      BY Zenon, MsgsFacts
  <2>7. Stored(m)
      BY <2>1, <2>3, InHand DEF Has, HandsInv
  <2>8. /\ MsgMoves(m)
        /\ \/ job[p].at = "ack" /\ msg'[m].state = "acked"
           \/ job[p].at = "nak" /\ msg'[m].state = "stored"
      BY Zenon, <2>2, <2>4, <2>7
  <2>9. \A x \in Msgs \ {m} : Acking(x) => Acking(x)'
      BY Zenon, <2>1, <2>2 DEF Acking, JobMoves
  <2>10. CASE k # Key(m)
    <3>1. \A s \in 0..MaxRedrives : <<k, s>> # m
      BY Zenon, <2>6, <2>10
    <3>2. /\ \A s \in 0..MaxRedrives : msg'[<<k, s>>].state = msg[<<k, s>>].state
          /\ Acking(<<k, r>>) => Acking(<<k, r>>)'
      BY Zenon, <2>6, <2>8, <2>9, <3>1 DEF MsgMoves
    <3>3. OneCopy(k, r)'
      BY Zenon, <2>3, <2>5, <3>2, <1>CopyKept
    <3> QED BY Zenon, <3>3
  <2>11. CASE k = Key(m)
    <3>1. /\ m = <<k, r>>
          /\ job[p].at # "ack" => ~(handled[k] > 0) /\ dlq[<<k, r>>].state = "absent"
      BY Zenon, <2>1, <2>3, <2>5, <2>11, <1>DispatchedCopy
    <3>2. \A s \in 0..MaxRedrives : s # r => msg'[<<k, s>>] = msg[<<k, s>>]
      BY Zenon, <2>6, <2>8, <3>1 DEF MsgMoves
    <3>3. OneCopy(k, r)'
      BY <2>3, <2>5, <2>8, <3>1, <3>2 DEF OneCopy, Stored
    <3> QED BY Zenon, <3>3
  <2> QED BY Zenon, <2>10, <2>11
\* A redrive: the parked copy is the last one, its message was acked, and the
\* redriven copy takes its place.
<1>RedriveOnce.
      ASSUME TypeOK, OnceInv, NEW y \in Msgs, Redrive(y)
      PROVE  OnceInv'
  <2> USE <1>RedriveOnce
  <2>1. /\ y[2] < MaxRedrives /\ Again(y) \in Msgs
        /\ dlq[y].state = "parked" /\ dlq[y].age = MinAge
        /\ \/ /\ msg' = msg
              /\ \/ Stored(Again(y))
                 \/ msg[Again(y)].state = "acked" /\ msg[Again(y)].age < Dupe
           \/ MsgMoves(Again(y)) /\ msg'[Again(y)].state = "stored"
        /\ dlq' = dlq \/ (DlqMoves(y) /\ dlq'[y].state = "drained")
        /\ faults' = faults => dlq'[y].state = "drained"
      BY RedriveDo
  <2>2. /\ handled' = handled /\ job' = job
        /\ faults \in Nat /\ (faults' = faults \/ faults' = faults + 1)
      BY Zenon DEF Redrive, Fault, TypeOK
  <2> SUFFICES ASSUME faults' = 0, NEW k \in Keys
               PROVE  \E r \in 0..MaxRedrives : OneCopy(k, r)'
      BY Zenon DEF OnceInv
  <2>3. faults = 0 /\ faults' = faults
      BY <2>2
  <2>4. PICK r \in 0..MaxRedrives : OneCopy(k, r)
      BY Zenon, <2>3 DEF OnceInv
  <2>5. \A s \in 0..MaxRedrives : <<k, s>> \in Msgs /\ Key(<<k, s>>) = k
      BY Zenon, MsgsFacts
  <2>6. DlqMoves(y) /\ dlq'[y].state = "drained"
      BY Zenon, <2>1, <2>3
  <2>7. Key(Again(y)) = Key(y) /\ y = <<Key(y), y[2]>> /\ y[2] \in 0..MaxRedrives
      BY Zenon, MsgsFacts DEF Again, Key
  <2>8. CASE k # Key(y)
    <3>1. \A s \in 0..MaxRedrives : <<k, s>> # y /\ <<k, s>> # Again(y)
      BY Zenon, <2>5, <2>7, <2>8
    <3>2. \A s \in 0..MaxRedrives : /\ msg'[<<k, s>>].state = msg[<<k, s>>].state
                                    /\ dlq'[<<k, s>>] = dlq[<<k, s>>]
      BY Zenon, <2>1, <2>5, <2>6, <3>1 DEF MsgMoves, DlqMoves
    <3>3. Acking(<<k, r>>) => Acking(<<k, r>>)'
      BY Zenon, <2>2 DEF Acking
    <3>4. OneCopy(k, r)'
      BY Zenon, <2>2, <2>4, <3>2, <3>3, <1>CopyKept
    <3> QED BY Zenon, <3>4
  <2>9. CASE k = Key(y)
    <3>1. r = y[2]
      BY <2>1, <2>4, <2>7, <2>9 DEF OneCopy
    <3>2. y = <<k, r>> /\ Again(y) = <<k, r + 1>> /\ r + 1 \in 0..MaxRedrives
      BY <2>1, <2>7, <2>9, <3>1, Numbers DEF Again
    <3>3. dlq[y].age # 0
      BY <2>1, Numbers
    <3>4. msg[<<k, r>>].state = "acked" /\ ~(handled[k] > 0)
      BY <2>1, <2>4, <2>5, <3>2, <3>3, CopyFacts DEF OneCopy, Stored
    <3>5. msg[<<k, r + 1>>].state = "absent" /\ dlq[<<k, r + 1>>].state = "absent"
      BY <2>4, <3>2 DEF OneCopy
    <3>6. MsgMoves(Again(y)) /\ msg'[<<k, r + 1>>].state = "stored"
      BY <2>1, <3>2, <3>5 DEF Stored
    <3>7. /\ \A s \in 0..MaxRedrives : s # r + 1 => msg'[<<k, s>>] = msg[<<k, s>>]
          /\ \A s \in 0..MaxRedrives : s # r => dlq'[<<k, s>>] = dlq[<<k, s>>]
          /\ r + 1 # r
      BY <2>5, <2>6, <3>2, <3>6 DEF MsgMoves, DlqMoves
    <3>8. ASSUME NEW s \in 0..MaxRedrives
          PROVE  /\ s > r + 1 => msg'[<<k, s>>].state = "absent" /\ dlq'[<<k, s>>].state = "absent"
                 /\ s < r + 1 => msg'[<<k, s>>].state = "acked" /\ dlq'[<<k, s>>].state # "parked"
      <4>1. CASE s < r
          BY <2>4, <3>7, <4>1 DEF OneCopy
      <4>2. CASE s = r
          BY <2>6, <3>2, <3>4, <3>7, <4>2
      <4>3. CASE s > r
          BY <2>4, <3>7, <4>3 DEF OneCopy
      <4> QED BY <4>1, <4>2, <4>3
    <3>9. OneCopy(k, r + 1)'
      BY <2>2, <3>2, <3>4, <3>5, <3>6, <3>7, <3>8 DEF OneCopy, Stored
    <3> QED BY Zenon, <3>2, <3>9
  <2> QED BY Zenon, <2>8, <2>9
\* Time does not pass while a dispatch is about to ack.
<1>TickOnce.
      ASSUME TypeOK, OnceInv, Tick
      PROVE  OnceInv'
  <2> USE <1>TickOnce
  <2>1. /\ handled' = handled /\ faults' = faults
        /\ \A x \in Msgs : msg'[x].state = msg[x].state /\ dlq'[x].state = dlq[x].state
      BY Zenon, TickDo, TickIs
  <2>2. \A x \in Msgs : ~Acking(x)
      BY Zenon, TickIs DEF Acking, Due
  <2> SUFFICES ASSUME faults = 0, NEW k \in Keys
               PROVE  \E r \in 0..MaxRedrives : OneCopy(k, r)'
      BY Zenon, <2>1 DEF OnceInv
  <2>3. PICK r \in 0..MaxRedrives : OneCopy(k, r)
      BY Zenon DEF OnceInv
  <2>4. \A s \in 0..MaxRedrives : <<k, s>> \in Msgs
      BY Zenon, MsgsFacts
  <2>5. OneCopy(k, r)'
      BY <2>1, <2>2, <2>3, <2>4 DEF OneCopy, Stored
  <2> QED BY Zenon, <2>5
<1>0. DrainInv
    BY Zenon DEF LossInv
<1>1. CASE Next
  <2>1. ASSUME NEW p \in Pods, NEW m \in Msgs, Fetch(p, m) PROVE OnceInv'
    <3>1. \A x \in Msgs : msg'[x].state = msg[x].state
        BY Zenon, <2>1, FetchDo DEF MsgMoves
    <3>2. /\ faults' = faults /\ handled' = handled /\ dlq' = dlq /\ job' = job
        BY Zenon, <2>1 DEF Fetch
    <3> QED BY Zenon, <3>1, <3>2, <1>OnceKept DEF Acking
  <2>2. ASSUME NEW p \in Pods,
               \/ Begin(p) \/ Backoff(p)
               \/ \E err \in {"transient", "terminal"}, panic \in BOOLEAN : Fail(p, err, panic)
        PROVE  OnceInv'
    <3>1. /\ faults' = faults /\ handled' = handled /\ dlq' = dlq /\ msg' = msg
          /\ job[p].at # "ack"
        BY Zenon, <2>2 DEF Begin, Backoff, Fail
    <3>2. JobMoves(p)
        BY Zenon, <2>2, BeginDo, BackoffDo, FailDo
    <3>3. \A x \in Msgs : Acking(x) => Acking(x)'
        BY Zenon, <3>1, <3>2 DEF Acking, JobMoves
    <3> QED BY Zenon, <3>1, <3>3, <1>OnceKept
  <2>3. CASE \E p \in Pods : Succeed(p)
    BY Zenon, <2>3, <1>SucceedOnce
  <2>4. CASE \E p \in Pods : Park(p)
    BY Zenon, <1>0, <2>4, <1>ParkOnce
  <2>5. CASE \E p \in Pods : Answer(p)
    BY Zenon, <2>5, <1>AnswerOnce
  <2>6. CASE \E p \in Pods : Crash(p)
    <3>1. faults \in Nat /\ faults' = faults + 1
        BY Zenon, <2>6 DEF Crash, Fault, TypeOK
    <3>2. faults' # 0
        BY <3>1
    <3> QED BY Zenon, <3>2 DEF OnceInv
  <2>7. CASE \E p \in Pods, k \in Keys : Evict(p, k)
    BY Zenon, <2>7, <1>OnceKept DEF Evict, Acking
  <2>8. CASE \E m \in Msgs : Redrive(m)
    BY Zenon, <2>8, <1>RedriveOnce
  <2>9. CASE Tick
    BY Zenon, <2>9, <1>TickOnce
  <2> QED BY Zenon, <1>1, <2>1, <2>2, <2>3, <2>4, <2>5, <2>6, <2>7, <2>8, <2>9, NextCases
<1>2. CASE UNCHANGED vars
    BY Zenon, <1>2, <1>OnceKept DEF vars, Acking
<1> QED BY Zenon, <1>1, <1>2

-----------------------------------------------------------------------------
INSTANCE FiniteSetTheorems

\* A buffer without repetition is no longer than what is pending.
LEMMA PigeonHolds == Pigeon
<1>1. IsFiniteSet(Msgs)
  <2>1. IsFiniteSet(0..MaxRedrives)
    BY Numbers, FS_Interval
  <2> QED BY Zenon, <2>1, BusAssumption, FS_Product DEF Msgs
<1> SUFFICES ASSUME NEW S \in SUBSET Msgs, NEW n \in Nat, NEW f \in [1..n -> S],
                    \A i, j \in 1..n : f[i] = f[j] => i = j
             PROVE  Cardinality(S) \in Nat /\ n <= Cardinality(S)
    BY Zenon DEF Pigeon
<1>2. IsFiniteSet(S) /\ Cardinality(S) \in Nat
    BY Zenon, <1>1, FS_Subset, FS_CardinalityType
<1>3. Cardinality(1..n) = n
    BY FS_Interval
<1>4. f \in Injection(1..n, S)
    BY Zenon DEF Injection, IsInjective
<1> QED BY <1>2, <1>3, <1>4, FS_Injection

\* A message is never in the hands of two pods at once, so no two of them run
\* its handler at the same time, if the consumer is sized by the rule that
\* tuning.go states: as many handlings as may be pending fit into AckWait.
THEOREM OneRunnerAlways == Tuned => (Spec => []OneRunner)
<1> SUFFICES ASSUME Tuned PROVE Spec => []OneRunner
    BY Zenon
<1>1. Init => TypeOK /\ LossInv /\ HandsInv
    BY Zenon, InitLoss, InitHands
<1>2. TypeOK /\ LossInv /\ HandsInv /\ [Next]_vars => (TypeOK /\ LossInv /\ HandsInv)'
    BY Zenon, StepLoss, StepHands, PigeonHolds
<1>3. TypeOK /\ HandsInv => OneRunner
    BY Zenon, JobFacts DEF HandsInv, OneHand, OneRunner, Has, Busy
<1> QED BY <1>1, <1>2, <1>3, PTL DEF Spec

\* Under the same rule an event is handled at most once as long as no pod
\* crashes and no answer and no publish is lost, whatever is evicted from a
\* dedup window and however often parked copies are redriven.
THEOREM OnceWithoutFaultAlways == Tuned => (Spec => []OnceWithoutFault)
<1> SUFFICES ASSUME Tuned PROVE Spec => []OnceWithoutFault
    BY Zenon
<1>1. Init => TypeOK /\ LossInv /\ HandsInv /\ OnceInv
    BY Zenon, InitLoss, InitHands, InitOnce
<1>2. TypeOK /\ LossInv /\ HandsInv /\ OnceInv /\ [Next]_vars
        => (TypeOK /\ LossInv /\ HandsInv /\ OnceInv)'
    BY Zenon, StepLoss, StepHands, StepOnce, PigeonHolds
<1>3. TypeOK /\ OnceInv => OnceWithoutFault
  <2> SUFFICES ASSUME TypeOK, OnceInv, faults = 0, NEW k \in Keys PROVE handled[k] <= 1
    BY Zenon DEF OnceWithoutFault
  <2>1. \E r \in 0..MaxRedrives : OneCopy(k, r)
    BY Zenon DEF OnceInv
  <2>2. handled[k] > 0 => handled[k] = 1
    BY Zenon, <2>1 DEF OneCopy
  <2> QED BY <2>2, Counts
<1> QED BY <1>1, <1>2, <1>3, PTL DEF Spec
=============================================================================
