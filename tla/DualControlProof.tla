-------------------------- MODULE DualControlProof --------------------------
(***************************************************************************)
(* What the brake and dual control promise, proved for any number of       *)
(* processes, mode changes, approvals and failures.                        *)
(***************************************************************************)
EXTENDS DualControl, TLAPS

-----------------------------------------------------------------------------
(* The brake.                                                              *)

\* A consumer redelivers only what it has delivered, and delivers only what
\* has been published.
ConsumerInv ==
    \A p \in Procs :
        /\ next[p] <= Len(log) + 1
        /\ \A i \in unacked[p] : i < next[p]

BrakeInv == HaltType /\ ConsumerInv /\ DeafIsClosed /\ OnlyResumeOpens

\* One p's part of OnlyResumeOpens.
Resumed(p) ==
    \E i \in 1..(next[p] - 1) :
        /\ log[i] = "resume"
        /\ \/ i \in unacked[p]
           \/ \A j \in (i + 1)..(next[p] - 1) : log[j] \notin {"halt", "garbled"}

BrakeStep ==
    \/ \E f \in Kinds : Declare(f)
    \/ \E p \in Procs :
        \/ Fold(p, TRUE) \/ Fold(p, FALSE) \/ Refold(p)
        \/ Disconnect(p) \/ Reconnect(p) \/ Arm(p)

\* Publishing a FACT disturbs no consumer.
LEMMA DeclareStep ==
    ASSUME BrakeInv, NEW f \in Kinds, Declare(f)
    PROVE  BrakeInv'
<1> USE FactsBound DEF BrakeInv, Declare
<1>1. /\ Len(log') = Len(log) + 1 /\ Len(log) \in Nat
      /\ \A i \in 1..Len(log) : log'[i] = log[i]
    BY DEF HaltType
<1>2. log' \in Seq(Kinds)
    BY DEF HaltType
<1>3. HaltType'
    BY <1>1, <1>2 DEF HaltType
<1>4. ConsumerInv'
    <2> SUFFICES ASSUME NEW p \in Procs
                 PROVE  /\ next[p] <= Len(log') + 1
                        /\ \A i \in unacked[p] : i < next[p]
        BY DEF ConsumerInv
    <2>1. next[p] \in Nat
        BY DEF HaltType
    <2> QED
        BY <1>1, <2>1 DEF ConsumerInv
<1>5. OnlyResumeOpens'
    <2> SUFFICES ASSUME NEW p \in Procs, open[p]
                 PROVE  Resumed(p)'
        BY DEF OnlyResumeOpens, Resumed
    <2>1. PICK i \in 1..(next[p] - 1) :
            /\ log[i] = "resume"
            /\ \/ i \in unacked[p]
               \/ \A j \in (i + 1)..(next[p] - 1) : log[j] \notin {"halt", "garbled"}
        BY DEF OnlyResumeOpens
    <2>2. next[p] \in Nat /\ next[p] <= Len(log) + 1
        BY DEF ConsumerInv, HaltType
    <2>3. \A j \in 1..(next[p] - 1) : log'[j] = log[j]
        BY <1>1, <2>2
    <2>4. \A j \in (i + 1)..(next[p] - 1) : j \in 1..(next[p] - 1)
        BY <2>2
    <2>5. next'[p] = next[p] /\ unacked'[p] = unacked[p]
        OBVIOUS
    <2>6. log'[i] = "resume"
        BY <2>1, <2>3
    <2>7. \/ i \in unacked'[p]
          \/ \A j \in (i + 1)..(next'[p] - 1) : log'[j] \notin {"halt", "garbled"}
        BY <2>1, <2>3, <2>4, <2>5
    <2>8. i \in 1..(next'[p] - 1)
        BY <2>5
    <2> HIDE DEF BrakeInv, Declare
    <2> QED
        BY <2>6, <2>7, <2>8 DEF Resumed
<1>6. DeafIsClosed'
    BY DEF DeafIsClosed
<1> QED
    BY <1>3, <1>4, <1>5, <1>6

\* A FACT is folded for the first time.
LEMMA FoldStep ==
    ASSUME BrakeInv, NEW p \in Procs, NEW lost \in BOOLEAN, Fold(p, lost)
    PROVE  BrakeInv'
<1> USE FactsBound DEF BrakeInv, Fold
<1>1. next[p] \in 1..Len(log) /\ Len(log) \in Nat /\ Len(log) <= MaxFacts
    BY DEF HaltType
<1>2. next' \in [Procs -> 0..(MaxFacts + 1)]
    BY <1>1 DEF HaltType
<1>3. unacked' \in [Procs -> SUBSET (1..MaxFacts)]
    <2>1. next[p] \in 1..MaxFacts
        BY <1>1
    <2> QED
        BY <2>1 DEF HaltType
<1>4. Observe(open[p], log[next[p]]) \in BOOLEAN
    BY DEF Observe
<1>5. open' \in [Procs -> BOOLEAN]
    BY <1>4 DEF HaltType
<1>6. HaltType'
    BY <1>2, <1>3, <1>5 DEF HaltType
<1>7. \A q \in Procs : next[q] \in Nat
    BY DEF HaltType
<1>8. /\ next'[p] = next[p] + 1
      /\ \A q \in Procs \ {p} : next'[q] = next[q] /\ unacked'[q] = unacked[q] /\ open'[q] = open[q]
      /\ unacked[p] \subseteq unacked'[p] /\ unacked'[p] \subseteq unacked[p] \cup {next[p]}
      /\ open'[p] = Observe(open[p], log[next[p]])
    BY DEF HaltType
<1>9. ConsumerInv'
    <2> SUFFICES ASSUME NEW q \in Procs
                 PROVE  next'[q] <= Len(log) + 1 /\ \A i \in unacked'[q] : i < next'[q]
        BY DEF ConsumerInv
    <2>1. \A i \in unacked[q] : i \in Nat
        BY FactsBound DEF HaltType
    <2>2. CASE q = p
        BY <1>1, <1>7, <1>8, <2>1, <2>2 DEF ConsumerInv
    <2>3. CASE q # p
        BY <1>8, <2>3 DEF ConsumerInv
    <2> QED
        BY <2>2, <2>3
<1>10. DeafIsClosed'
    <2>1. next'[p] # 0
        BY <1>1, <1>8
    <2> QED
        BY <1>8, <2>1 DEF DeafIsClosed
<1>11. ASSUME open'[p] PROVE Resumed(p)'
    <2>1. CASE log[next[p]] = "resume"
        BY <1>1, <1>8, <2>1 DEF Resumed
    <2>2. CASE log[next[p]] # "resume"
        <3>1. open[p] /\ log[next[p]] \notin {"halt", "garbled"}
            BY <1>8, <1>11, <2>2 DEF Observe
        <3>2. PICK i \in 1..(next[p] - 1) :
                /\ log[i] = "resume"
                /\ \/ i \in unacked[p]
                   \/ \A j \in (i + 1)..(next[p] - 1) : log[j] \notin {"halt", "garbled"}
            BY <3>1 DEF OnlyResumeOpens
        <3>3. i \in 1..(next'[p] - 1)
            BY <1>1, <1>8
        <3>4. ASSUME NEW j \in (i + 1)..(next'[p] - 1)
              PROVE  j = next[p] \/ j \in (i + 1)..(next[p] - 1)
            BY <1>1, <1>8
        <3> QED
            BY <1>8, <3>1, <3>2, <3>3, <3>4 DEF Resumed
    <2> QED
        BY <2>1, <2>2
<1>12. OnlyResumeOpens'
    <2> SUFFICES ASSUME NEW q \in Procs, open'[q]
                 PROVE  Resumed(q)'
        BY DEF OnlyResumeOpens, Resumed
    <2>1. CASE q = p
        BY <1>11, <2>1
    <2>2. CASE q # p
        BY <1>8, <2>2 DEF OnlyResumeOpens, Resumed
    <2> QED
        BY <2>1, <2>2
<1> QED
    BY <1>6, <1>9, <1>10, <1>12

\* A FACT is folded again.
LEMMA RefoldStep ==
    ASSUME BrakeInv, NEW p \in Procs, Refold(p)
    PROVE  BrakeInv'
<1> USE FactsBound DEF BrakeInv
<1>1. PICK i \in unacked[p] :
        open' = [open EXCEPT ![p] = Observe(open[p], log[i])]
    BY DEF Refold
<1>2. wire[p] /\ UNCHANGED <<log, next, unacked, wire>>
    BY DEF Refold
<1>3. /\ open'[p] = Observe(open[p], log[i])
      /\ \A q \in Procs \ {p} : open'[q] = open[q]
    BY <1>1 DEF HaltType
<1>4. Observe(open[p], log[i]) \in BOOLEAN
    BY DEF Observe
<1>5. HaltType'
    BY <1>1, <1>2, <1>4 DEF HaltType
<1>6. i \in Nat \ {0} /\ next[p] \in Nat /\ i < next[p]
    BY DEF HaltType, ConsumerInv
<1>7. i \in 1..(next[p] - 1) /\ next[p] # 0
    BY <1>6
<1>8. ConsumerInv'
    BY <1>2 DEF ConsumerInv
<1>9. DeafIsClosed'
    BY <1>2, <1>3, <1>7 DEF DeafIsClosed
<1>10. ASSUME NEW q \in Procs, open'[q] PROVE Resumed(q)'
    <2>1. Resumed(q)' <=> Resumed(q)
        BY <1>2 DEF Resumed
    <2>2. CASE q # p \/ log[i] # "resume"
        <3>1. open[q]
            BY <1>3, <1>10, <2>2 DEF Observe
        <3> QED
            BY <2>1, <3>1 DEF OnlyResumeOpens, Resumed
    <2>3. CASE q = p /\ log[i] = "resume"
        BY <1>7, <2>1, <2>3 DEF Resumed
    <2> QED
        BY <2>2, <2>3
<1>11. OnlyResumeOpens'
    BY <1>10 DEF OnlyResumeOpens, Resumed
<1> QED
    BY <1>5, <1>8, <1>9, <1>11

\* A process is cut off, comes back, or restarts: its gate is closed.
LEMMA ClosingStep ==
    ASSUME BrakeInv, NEW p \in Procs, Disconnect(p) \/ Reconnect(p) \/ Arm(p)
    PROVE  BrakeInv'
<1> USE FactsBound DEF BrakeInv
<1>1. Len(log) \in Nat /\ Len(log) <= MaxFacts /\ UNCHANGED log
    BY DEF HaltType, Disconnect, Reconnect, Arm
<1>2. Last \in 1..(MaxFacts + 1) /\ Last <= Len(log) + 1
    BY <1>1 DEF Last, HaltType
<1>3. HaltType'
    <2>1. next' \in [Procs -> 0..(MaxFacts + 1)]
        <3>1. 0 \in 0..(MaxFacts + 1) /\ Last \in 0..(MaxFacts + 1)
            BY <1>2
        <3> QED
            BY <3>1 DEF HaltType, Disconnect, Reconnect, Arm
    <2>2. unacked' \in [Procs -> SUBSET (1..MaxFacts)]
        BY DEF HaltType, Disconnect, Reconnect, Arm
    <2>3. open' \in [Procs -> BOOLEAN] /\ wire' \in [Procs -> BOOLEAN]
        BY DEF HaltType, Disconnect, Reconnect, Arm
    <2> QED
        BY <1>1, <2>1, <2>2, <2>3 DEF HaltType
<1>4. /\ ~open'[p]
      /\ \A q \in Procs \ {p} : /\ open'[q] = open[q] /\ next'[q] = next[q]
                                /\ unacked'[q] = unacked[q] /\ wire'[q] = wire[q]
    BY DEF HaltType, DeafIsClosed, Disconnect, Reconnect, Arm
<1>5. \/ next'[p] = next[p] /\ unacked'[p] = unacked[p]
      \/ next'[p] \in {Last, 0} /\ unacked'[p] = {}
    BY DEF HaltType, Disconnect, Reconnect, Arm
<1>6. ConsumerInv'
    <2> SUFFICES ASSUME NEW q \in Procs
                 PROVE  next'[q] <= Len(log) + 1 /\ \A i \in unacked'[q] : i < next'[q]
        BY <1>1 DEF ConsumerInv
    <2>1. CASE q # p
        BY <1>4, <2>1 DEF ConsumerInv
    <2>2. CASE q = p
        BY <1>1, <1>2, <1>5, <2>2 DEF ConsumerInv
    <2> QED
        BY <2>1, <2>2
<1>7. DeafIsClosed'
    BY <1>4 DEF DeafIsClosed
<1>8. OnlyResumeOpens'
    <2> SUFFICES ASSUME NEW q \in Procs, open'[q]
                 PROVE  Resumed(q)'
        BY DEF OnlyResumeOpens, Resumed
    <2>1. q # p
        BY <1>4
    <2> QED
        BY <1>1, <1>4, <2>1 DEF OnlyResumeOpens, Resumed
<1> QED
    BY <1>3, <1>6, <1>7, <1>8

\* Every step of the system moves the brake by one of its own steps, or not.
LEMMA BrakeMoves ==
    ASSUME Next
    PROVE  BrakeStep \/ UNCHANGED haltVars
<1>1. ASSUME NEW c \in Cmds, Handle(c) \/ Fail(c)
      PROVE  UNCHANGED haltVars
    BY <1>1 DEF Handle, HandleSubmit, HandleApprove, Refuse, Hold, Create,
                Claim, RecordRefusal, Admit, Fail
<1>2. ASSUME NEW p \in Procs, ExpireProposals(p) \/ SweepFails(p)
      PROVE  UNCHANGED haltVars
    BY <1>2 DEF ExpireProposals, FindExpired, AnnounceExpiry, SweepFails
<1>3. ASSUME NEW p \in Procs, Crash(p) \/ LoseBus(p) \/ LoseAck(p) \/ Brake(p)
      PROVE  BrakeStep
    BY <1>3 DEF Crash, LoseBus, LoseAck, Brake, BrakeStep
<1>4. ASSUME NEW f \in Kinds, Declare(f)
      PROVE  BrakeStep
    BY <1>4 DEF BrakeStep
<1>5. ASSUME DeadlinePasses \/ MarkMoves
      PROVE  UNCHANGED haltVars
    BY <1>5 DEF DeadlinePasses, MarkMoves
<1> QED
    BY <1>1, <1>2, <1>3, <1>4, <1>5 DEF Next

\* The brake's invariant holds in every state of the system.
THEOREM BrakeInvariance == Spec => []BrakeInv
<1>1. Init => BrakeInv
    <2> SUFFICES ASSUME Init PROVE BrakeInv
        OBVIOUS
    <2>1. HaltType
        BY FactsBound DEF Init, HaltInit, HaltType
    <2> QED
        BY <2>1 DEF Init, HaltInit, BrakeInv, ConsumerInv, DeafIsClosed, OnlyResumeOpens
<1>2. BrakeInv /\ [Next]_vars => BrakeInv'
    <2> SUFFICES ASSUME BrakeInv, [Next]_vars PROVE BrakeInv'
        OBVIOUS
    <2>1. CASE UNCHANGED haltVars
        BY <2>1 DEF haltVars, BrakeInv, HaltType, ConsumerInv, DeafIsClosed, OnlyResumeOpens
    <2>2. CASE BrakeStep
        <3>1. ASSUME NEW f \in Kinds, Declare(f) PROVE BrakeInv'
            BY <3>1, DeclareStep
        <3>2. ASSUME NEW p \in Procs, Fold(p, TRUE) \/ Fold(p, FALSE) PROVE BrakeInv'
            BY <3>2, FoldStep
        <3>3. ASSUME NEW p \in Procs, Refold(p) PROVE BrakeInv'
            BY <3>3, RefoldStep
        <3>4. ASSUME NEW p \in Procs, Disconnect(p) \/ Reconnect(p) \/ Arm(p) PROVE BrakeInv'
            BY <3>4, ClosingStep
        <3> QED
            BY <2>2, <3>1, <3>2, <3>3, <3>4 DEF BrakeStep
    <2> QED
        BY <2>1, <2>2, BrakeMoves DEF vars
<1> QED
    BY <1>1, <1>2, PTL DEF Spec

\* A process that cannot hear the brake has its gate closed.
THEOREM DeafAreClosed == Spec => []DeafIsClosed
<1>1. BrakeInv => DeafIsClosed
    BY DEF BrakeInv
<1> QED
    BY <1>1, BrakeInvariance, PTL

\* A gate is open on an operator's word only.
THEOREM ResumeOpens == Spec => []OnlyResumeOpens
<1>1. BrakeInv => OnlyResumeOpens
    BY DEF BrakeInv
<1> QED
    BY <1>1, BrakeInvariance, PTL

-----------------------------------------------------------------------------
(* Dual control.                                                           *)

JobType ==
    /\ bus \subseteq Cmds
    /\ pc \in [Cmds -> Steps] /\ at \in [Cmds -> Procs \cup {None}]
    /\ pc[Submit] \in {"idle", "refuse", "hold", "create"}
    /\ \A a \in Approvals : pc[a] # "hold"
    /\ \A c \in Cmds : pc[c] = "idle" <=> at[c] = None
    /\ failures \in 0..MaxFailures

RestType ==
    /\ kind \in {"limit", "market"} /\ big \in BOOLEAN /\ late \in BOOLEAN
    /\ row \in Rows /\ order \in Cmds \cup {None} /\ answers \subseteq Answers
    /\ sweep \subseteq Procs

\* The handler of an approval has won the claim and not answered yet
Holds(a) == pc[a] \in {"admit", "refuse", "create"}

\* Who signed is whose handler has the signature, and an order at a price of
\* its own is held only above the threshold, where SubmitOrder never creates.
SignInv ==
    /\ \A a \in Approvals :
        Holds(a) => row.approver = Signer[a] /\ Signer[a] # Proposer
    /\ order \in Approvals => row.approver = Signer[order] /\ row.approver # Proposer

ExpiryInv ==
    /\ row.announced => row.held /\ row.approver = None
    /\ "expired" \in answers => row.announced
    /\ sweep # {} => row.held

ClassInv ==
    kind = "limit" =>
        /\ row.held \/ pc[Submit] = "hold" => big
        /\ big => pc[Submit] # "create" /\ order # Submit

DualInv == JobType /\ RestType /\ SignInv /\ ExpiryInv /\ ClassInv

\* The bound on failures is kept.
LEMMA Spending ==
    ASSUME failures \in 0..MaxFailures, failures' = failures \/ Spend
    PROVE  failures' \in 0..MaxFailures
BY Approving DEF Spend

\* A handler that goes on keeps the types of the jobs.
LEMMA GotoJob ==
    ASSUME JobType, NEW c \in Cmds, NEW p \in Procs, NEW s \in Steps \ {"idle"}, Goto(c, p, s),
           c = Submit => s \in {"refuse", "hold", "create"},
           c # Submit => s # "hold"
    PROVE  /\ JobType'
           /\ pc'[c] = s
           /\ \A d \in Cmds \ {c} : pc'[d] = pc[d]
<1> USE DEF JobType, Goto
<1>1. None \notin Procs
    BY Approving
<1>2. /\ pc'[c] = s /\ at'[c] = p
      /\ \A d \in Cmds \ {c} : pc'[d] = pc[d] /\ at'[d] = at[d]
    OBVIOUS
<1>3. pc' \in [Cmds -> Steps] /\ at' \in [Cmds -> Procs \cup {None}]
    OBVIOUS
<1>4. Submit \in Cmds /\ \A a \in Approvals : a \in Cmds /\ a # Submit
    BY Approving DEF Cmds
<1>5. pc'[Submit] \in {"idle", "refuse", "hold", "create"}
    BY <1>2, <1>4
<1>6. \A a \in Approvals : pc'[a] # "hold"
    BY <1>2, <1>4
<1>7. \A d \in Cmds : pc'[d] = "idle" <=> at'[d] = None
    BY <1>1, <1>2
<1> QED
    BY <1>2, <1>3, <1>5, <1>6, <1>7

\* So does one that returns.
LEMMA ReturnJob ==
    ASSUME JobType, NEW c \in Cmds, NEW kept \in SUBSET Cmds, Return(c, kept),
           failures' = failures \/ Spend
    PROVE  /\ JobType'
           /\ pc'[c] = "idle"
           /\ \A d \in Cmds \ {c} : pc'[d] = pc[d]
<1> USE DEF JobType, Return
<1>1. /\ pc'[c] = "idle" /\ at'[c] = None
      /\ \A d \in Cmds \ {c} : pc'[d] = pc[d] /\ at'[d] = at[d]
    OBVIOUS
<1>2. pc' \in [Cmds -> Steps] /\ at' \in [Cmds -> Procs \cup {None}]
    BY DEF Steps
<1>3. Submit \in Cmds /\ \A a \in Approvals : a \in Cmds
    BY DEF Cmds
<1>4. pc'[Submit] \in {"idle", "refuse", "hold", "create"}
    BY <1>1, <1>3
<1>5. \A a \in Approvals : pc'[a] # "hold"
    BY <1>1, <1>3
<1>6. failures' \in 0..MaxFailures
    BY Spending
<1> QED
    BY <1>1, <1>2, <1>4, <1>5, <1>6

\* A write that is done ends its handler.
LEMMA FinishJob ==
    ASSUME JobType, NEW c \in Cmds, Finish(c)
    PROVE  /\ JobType'
           /\ pc'[c] = "idle"
           /\ \A d \in Cmds \ {c} : pc'[d] = pc[d]
<1>1. bus \ {c} \in SUBSET Cmds /\ bus \in SUBSET Cmds
    BY DEF JobType
<1> QED
    BY <1>1, ReturnJob DEF Finish

\* What submit leads to.
LEMMA ScreenJob ==
    ASSUME JobType, NEW c \in Cmds, NEW p \in Procs, Screen(c, p)
    PROVE  /\ JobType'
           /\ \A d \in Cmds \ {c} : pc'[d] = pc[d]
           /\ \/ pc'[c] \in {"idle", "refuse"}
              \/ pc'[c] = "hold" /\ c = Submit /\ big
              \/ pc'[c] = "create" /\ (big => c # Submit)
<1>1. CASE Finish(c)
    BY <1>1, FinishJob
<1>2. CASE Goto(c, p, "refuse")
    BY <1>2, GotoJob DEF Steps
<1>3. CASE big /\ c = Submit /\ Goto(c, p, "hold")
    BY <1>3, GotoJob DEF Steps
<1>4. CASE (big => c # Submit) /\ Goto(c, p, "create")
    BY <1>4, GotoJob DEF Steps
<1> QED
    BY <1>1, <1>2, <1>3, <1>4 DEF Screen

\* Commands, and what a row's fields are.
LEMMA Commands ==
    /\ Submit \in Cmds /\ Submit # None
    /\ \A a \in Approvals : a \in Cmds /\ a # Submit /\ Signer[a] # None /\ Signer[a] \in Signers
    /\ \A c \in Cmds : c # Submit => c \in Approvals
BY Approving DEF Cmds, Signers

\* A step that leaves the stored state alone and moves jobs without taking a
\* signature, holding or creating on its own keeps the invariant.
LEMMA JobsOnly ==
    ASSUME DualInv, JobType', UNCHANGED <<row, order, answers, kind, big>>,
           late' \in BOOLEAN, sweep' \subseteq Procs, sweep' # {} => row.held,
           \A a \in Approvals : Holds(a)' => Holds(a),
           pc'[Submit] = "hold" => pc[Submit] = "hold" \/ big,
           pc'[Submit] = "create" => pc[Submit] = "create" \/ ~big
    PROVE  DualInv'
<1>1. RestType'
    BY DEF DualInv, RestType
<1>2. SignInv'
    BY DEF DualInv, SignInv
<1>3. ExpiryInv'
    BY DEF DualInv, ExpiryInv
<1>4. ClassInv'
    BY DEF DualInv, ClassInv
<1> QED
    BY <1>1, <1>2, <1>3, <1>4 DEF DualInv

\* submit and handleApprove up to their writes, and what fails or returns.
LEMMA HandlerSteps ==
    ASSUME DualInv, NEW c \in Cmds,
           \/ \E p \in Procs : c = Submit /\ HandleSubmit(p)
           \/ \E p \in Procs : c # Submit /\ HandleApprove(c, p)
           \/ c # Submit /\ Admit(c)
           \/ Fail(c)
    PROVE  DualInv'
<1> USE Commands
<1>1. JobType /\ (sweep # {} => row.held) /\ sweep \subseteq Procs /\ late \in BOOLEAN
    BY DEF DualInv, ExpiryInv, RestType
<1>2. ASSUME NEW p \in Procs, c = Submit, HandleSubmit(p) PROVE DualInv'
    <2>1. /\ JobType'
          /\ \A d \in Cmds \ {c} : pc'[d] = pc[d]
          /\ \/ pc'[c] \in {"idle", "refuse"}
             \/ pc'[c] = "hold" /\ big
             \/ pc'[c] = "create" /\ ~big
        BY <1>1, <1>2, ScreenJob DEF HandleSubmit
    <2>2. UNCHANGED <<row, order, answers, kind, big, late, sweep>>
        BY <1>2 DEF HandleSubmit, rowVars, worldVars
    <2>3. \A a \in Approvals : Holds(a)' => Holds(a)
        BY <1>2, <2>1 DEF Holds
    <2> QED
        BY <1>1, <1>2, <2>1, <2>2, <2>3, JobsOnly
<1>3. ASSUME NEW p \in Procs, c # Submit, HandleApprove(c, p) PROVE DualInv'
    <2>1. /\ JobType'
          /\ \A d \in Cmds \ {c} : pc'[d] = pc[d]
          /\ pc'[c] \in {"idle", "claim", "refusal"}
        <3>1. CASE Finish(c)
            BY <1>1, <3>1, FinishJob
        <3>2. CASE Goto(c, p, "claim")
            BY <1>1, <1>3, <3>2, GotoJob DEF Steps
        <3>3. CASE Goto(c, p, "refusal")
            BY <1>1, <1>3, <3>3, GotoJob DEF Steps
        <3> QED
            BY <1>3, <3>1, <3>2, <3>3 DEF HandleApprove
    <2>2. UNCHANGED <<row, order, answers, kind, big, late, sweep>>
        BY <1>3 DEF HandleApprove, rowVars, worldVars
    <2>3. \A a \in Approvals : Holds(a)' => Holds(a)
        BY <2>1 DEF Holds
    <2> QED
        BY <1>1, <1>3, <2>1, <2>2, <2>3, JobsOnly
<1>4. ASSUME c # Submit, Admit(c) PROVE DualInv'
    <2>1. at[c] \in Procs /\ pc[c] = "admit"
        BY <1>1, <1>4 DEF Admit, JobType
    <2>2. /\ JobType'
          /\ \A d \in Cmds \ {c} : pc'[d] = pc[d]
        BY <1>1, <1>4, <2>1, ScreenJob DEF Admit
    <2>3. UNCHANGED <<row, order, answers, kind, big, late, sweep>>
        BY <1>4 DEF Admit, rowVars, worldVars
    <2>4. \A a \in Approvals : Holds(a)' => Holds(a)
        BY <2>1, <2>2 DEF Holds
    <2> QED
        BY <1>1, <1>4, <2>2, <2>3, <2>4, JobsOnly
<1>5. ASSUME Fail(c) PROVE DualInv'
    <2>1. bus \in SUBSET Cmds /\ (failures' = failures \/ Spend) /\ Return(c, bus)
        BY <1>1, <1>5 DEF Fail, JobType
    <2>2. /\ JobType'
          /\ pc'[c] = "idle"
          /\ \A d \in Cmds \ {c} : pc'[d] = pc[d]
        BY <1>1, <2>1, ReturnJob
    <2>3. UNCHANGED <<row, order, answers, kind, big, late, sweep>>
        BY <1>5 DEF Fail, rowVars, worldVars
    <2>4. \A a \in Approvals : Holds(a)' => Holds(a)
        BY <2>2 DEF Holds
    <2> QED
        BY <1>1, <2>2, <2>3, <2>4, JobsOnly
<1> QED
    BY <1>2, <1>3, <1>4, <1>5

\* The handlers' writes: refuse, hold and Create.
LEMMA WriteSteps ==
    ASSUME DualInv, NEW c \in Cmds, Refuse(c) \/ Hold(c) \/ Create(c)
    PROVE  DualInv'
<1> USE Commands
<1>1. JobType /\ RestType
    BY DEF DualInv
<1>2. /\ JobType'
      /\ pc'[c] = "idle"
      /\ \A d \in Cmds \ {c} : pc'[d] = pc[d]
    BY <1>1, FinishJob DEF Refuse, Hold, Create
<1>3. \A a \in Approvals : Holds(a)' => Holds(a)
    BY <1>2 DEF Holds
<1>4. UNCHANGED <<kind, big, late, sweep>>
    BY DEF Refuse, Hold, Create, worldVars
<1>5. CASE Refuse(c)
    <2>1. UNCHANGED <<row, order>> /\ answers' = answers \cup {"rejected"}
        BY <1>5 DEF Refuse
    <2>2. RestType'
        BY <1>1, <1>4, <2>1 DEF RestType, Answers
    <2>3. SignInv' /\ ExpiryInv' /\ ClassInv'
        BY <1>2, <1>3, <1>4, <2>1 DEF DualInv, SignInv, ExpiryInv, ClassInv
    <2> QED
        BY <1>2, <2>2, <2>3 DEF DualInv
<1>6. CASE Hold(c)
    <2>1. /\ row' = [row EXCEPT !.held = TRUE] /\ UNCHANGED order
          /\ answers' = answers \cup {"held"} /\ pc[c] = "hold"
        BY <1>6 DEF Hold
    <2>2. c = Submit
        BY <1>1, <2>1 DEF JobType
    <2>3. /\ row'.held /\ row'.approver = row.approver /\ row'.announced = row.announced
          /\ row' \in Rows
        BY <1>1, <2>1 DEF RestType, Rows
    <2>4. RestType'
        BY <1>1, <1>4, <2>1, <2>3 DEF RestType, Answers
    <2>5. SignInv'
        BY <1>3, <2>1, <2>3 DEF DualInv, SignInv
    <2>6. ExpiryInv'
        BY <1>4, <2>1, <2>3 DEF DualInv, ExpiryInv
    <2>7. ClassInv'
        BY <1>2, <1>4, <2>1, <2>2 DEF DualInv, ClassInv
    <2> QED
        BY <1>2, <2>4, <2>5, <2>6, <2>7 DEF DualInv
<1>7. CASE Create(c)
    <2>1. /\ pc[c] = "create" /\ UNCHANGED row
          /\ \/ order = None /\ order' = c /\ answers' = answers \cup {"accepted"}
             \/ UNCHANGED <<order, answers>>
        BY <1>7 DEF Create
    <2>2. RestType'
        BY <1>1, <1>4, <2>1 DEF RestType, Answers
    <2>3. SignInv'
        BY <1>3, <2>1 DEF DualInv, SignInv, Holds
    <2>4. ExpiryInv'
        BY <1>4, <2>1 DEF DualInv, ExpiryInv
    <2>5. ClassInv'
        BY <1>2, <1>4, <2>1 DEF DualInv, ClassInv
    <2> QED
        BY <1>2, <2>2, <2>3, <2>4, <2>5 DEF DualInv
<1> QED
    BY <1>5, <1>6, <1>7

\* Claim takes the signature of an undecided row, and nobody else has it.
LEMMA ClaimStep ==
    ASSUME DualInv, NEW c \in Approvals, Claim(c)
    PROVE  DualInv'
<1> USE Commands
<1>1. JobType /\ RestType /\ pc[c] = "claim" /\ at[c] \in Procs
    BY DEF DualInv, JobType, Claim
<1>2. UNCHANGED <<kind, big, late, sweep, order, answers>>
    BY DEF Claim, worldVars
<1>3. CASE Undecided /\ Signer[c] # Proposer
    <2>1. row' = [row EXCEPT !.approver = Signer[c]]
        BY <1>3 DEF Claim
    <2>2. /\ row'.held = row.held /\ row'.approver = Signer[c] /\ row'.announced = row.announced
          /\ row' \in Rows
        BY <1>1, <2>1 DEF RestType, Rows
    <2>3. row.approver = None /\ ~row.announced
        BY <1>3 DEF Undecided
    <2>4. JobType' /\ \A d \in Cmds \ {c} : pc'[d] = pc[d]
        <3>1. CASE Goto(c, at[c], "admit")
            BY <1>1, <3>1, GotoJob DEF Steps
        <3>2. CASE Return(c, bus) /\ Spend
            <4>1. bus \in SUBSET Cmds
                BY <1>1 DEF JobType
            <4> QED
                BY <1>1, <3>2, <4>1, ReturnJob
        <3> QED
            BY <1>3, <3>1, <3>2 DEF Claim
    <2>5. \A a \in Approvals : ~Holds(a)
        BY <2>3 DEF DualInv, SignInv
    <2>6. \A a \in Approvals \ {c} : ~Holds(a)'
        BY <2>4, <2>5 DEF Holds
    <2>7. order \notin Approvals
        BY <2>3 DEF DualInv, SignInv
    <2>8. SignInv'
        BY <1>2, <1>3, <2>2, <2>6, <2>7 DEF SignInv
    <2>9. ExpiryInv'
        BY <1>2, <2>2, <2>3 DEF DualInv, ExpiryInv
    <2>10. ClassInv'
        BY <1>2, <2>2, <2>4 DEF DualInv, ClassInv
    <2>11. RestType'
        BY <1>1, <1>2, <2>2 DEF RestType
    <2> QED
        BY <2>4, <2>8, <2>9, <2>10, <2>11 DEF DualInv
<1>4. CASE ~(Undecided /\ Signer[c] # Proposer)
    <2>1. UNCHANGED row /\ Goto(c, at[c], "refusal")
        BY <1>4 DEF Claim
    <2>2. /\ JobType' /\ pc'[c] = "refusal"
          /\ \A d \in Cmds \ {c} : pc'[d] = pc[d]
        BY <1>1, <2>1, GotoJob DEF Steps
    <2>3. \A a \in Approvals : Holds(a)' => Holds(a)
        BY <2>2 DEF Holds
    <2>4. late' \in BOOLEAN /\ sweep' \subseteq Procs /\ (sweep' # {} => row.held)
        BY <1>1, <1>2 DEF RestType, DualInv, ExpiryInv
    <2> QED
        BY <1>2, <2>1, <2>2, <2>3, <2>4, JobsOnly
<1> QED
    BY <1>3, <1>4

\* RecordRefusal writes only the refusal, and only on an unsigned row.
LEMMA RefusalStep ==
    ASSUME DualInv, NEW c \in Approvals, RecordRefusal(c)
    PROVE  DualInv'
<1> USE Commands
<1>1. JobType /\ RestType
    BY DEF DualInv
<1>2. /\ JobType' /\ pc'[c] = "idle"
      /\ \A d \in Cmds \ {c} : pc'[d] = pc[d]
    BY <1>1, FinishJob DEF RecordRefusal
<1>3. UNCHANGED <<kind, big, late, sweep, order, answers>>
    BY DEF RecordRefusal, worldVars
<1>4. /\ row' \in Rows /\ row'.held = row.held
      /\ row'.approver = row.approver /\ row'.announced = row.announced
    BY <1>1 DEF RecordRefusal, RestType, Rows
<1>5. \A a \in Approvals : Holds(a)' => Holds(a)
    BY <1>2 DEF Holds
<1>6. RestType'
    BY <1>1, <1>3, <1>4 DEF RestType
<1>7. SignInv'
    BY <1>3, <1>4, <1>5 DEF DualInv, SignInv
<1>8. ExpiryInv'
    BY <1>3, <1>4 DEF DualInv, ExpiryInv
<1>9. ClassInv'
    BY <1>2, <1>3, <1>4 DEF DualInv, ClassInv
<1> QED
    BY <1>2, <1>6, <1>7, <1>8, <1>9 DEF DualInv

\* The sweep announces an undecided row only.
LEMMA AnnounceStep ==
    ASSUME DualInv, NEW p \in Procs, AnnounceExpiry(p)
    PROVE  DualInv'
<1>1. RestType /\ row.held /\ sweep' \subseteq Procs
    BY DEF DualInv, RestType, ExpiryInv, AnnounceExpiry
<1>2. UNCHANGED <<kind, big, late, order, bus, pc, at, failures>>
    BY DEF AnnounceExpiry, jobVars, worldVars
<1>3. JobType'
    BY <1>2 DEF DualInv, JobType
<1>4. /\ row' \in Rows /\ row'.held /\ row'.approver = row.approver
      /\ row'.announced => row.announced \/ row.approver = None
      /\ row.announced => row'.announced
      /\ "expired" \in answers' => row'.announced \/ "expired" \in answers
      /\ answers' \subseteq Answers
    BY <1>1 DEF AnnounceExpiry, Undecided, RestType, Rows, Answers
<1>5. RestType'
    BY <1>1, <1>2, <1>4 DEF RestType
<1>6. SignInv'
    BY <1>2, <1>4 DEF DualInv, SignInv, Holds
<1>7. ExpiryInv'
    BY <1>4 DEF DualInv, ExpiryInv
<1>8. ClassInv'
    BY <1>1, <1>2, <1>4 DEF DualInv, ClassInv
<1> QED
    BY <1>3, <1>5, <1>6, <1>7, <1>8 DEF DualInv

\* What the processes, the clock and the market do otherwise.
LEMMA OtherSteps ==
    ASSUME DualInv,
           \/ \E p \in Procs : \/ FindExpired(p) \/ SweepFails(p) \/ Crash(p)
                               \/ LoseBus(p) \/ LoseAck(p) \/ Brake(p)
           \/ \E f \in Kinds : Declare(f) /\ UNCHANGED dualVars
           \/ DeadlinePasses
    PROVE  DualInv'
<1> USE Commands
<1>1. JobType /\ RestType /\ (sweep # {} => row.held)
    BY DEF DualInv, ExpiryInv
<1>2. UNCHANGED <<row, order, answers, kind, big, bus>>
    BY DEF FindExpired, SweepFails, Crash, LoseBus, LoseAck, Brake, DeadlinePasses,
           rowVars, worldVars, jobVars, dualVars
<1>3. late' \in BOOLEAN /\ sweep' \subseteq Procs /\ (sweep' # {} => row.held)
    BY <1>1 DEF FindExpired, SweepFails, Crash, LoseBus, LoseAck, Brake, DeadlinePasses,
           worldVars, dualVars, RestType
<1>4. failures' \in 0..MaxFailures
    <2>1. failures' = failures \/ Spend
        BY DEF FindExpired, SweepFails, Crash, LoseBus, LoseAck, Brake, DeadlinePasses, dualVars
    <2>2. failures \in 0..MaxFailures
        BY <1>1 DEF JobType
    <2> QED
        BY <2>1, <2>2, Spending
<1>5. CASE \E p \in Procs : Crash(p)
    <2> PICK p \in Procs : Crash(p)
        BY <1>5
    <2>1. /\ pc' = [c \in Cmds |-> IF at[c] = p THEN "idle" ELSE pc[c]]
          /\ at' = [c \in Cmds |-> IF at[c] = p THEN None ELSE at[c]]
        BY DEF Crash
    <2>2. p # None
        BY Approving
    <2>3. \A c \in Cmds : /\ pc'[c] \in {"idle", pc[c]}
                          /\ pc'[c] = "idle" <=> at'[c] = None
        BY <1>1, <2>1, <2>2 DEF JobType
    <2>4. pc' \in [Cmds -> Steps] /\ at' \in [Cmds -> Procs \cup {None}]
        BY <1>1, <2>1 DEF JobType, Steps
    <2>5. /\ pc'[Submit] \in {"idle", "refuse", "hold", "create"}
          /\ \A a \in Approvals : pc'[a] # "hold"
        BY <1>1, <2>3 DEF JobType
    <2>6. JobType'
        BY <1>1, <1>2, <1>4, <2>3, <2>4, <2>5 DEF JobType
    <2>7. \A a \in Approvals : Holds(a)' => Holds(a)
        BY <2>3 DEF Holds
    <2> QED
        BY <1>2, <1>3, <2>3, <2>6, <2>7, JobsOnly
<1>6. CASE ~\E p \in Procs : Crash(p)
    <2>1. UNCHANGED <<pc, at>>
        BY <1>6 DEF FindExpired, SweepFails, LoseBus, LoseAck, Brake, DeadlinePasses,
           jobVars, dualVars
    <2>2. JobType'
        BY <1>1, <1>2, <1>4, <2>1 DEF JobType
    <2>3. \A a \in Approvals : Holds(a)' => Holds(a)
        BY <2>1 DEF Holds
    <2> QED
        BY <1>2, <1>3, <2>1, <2>2, <2>3, JobsOnly
<1> QED
    BY <1>5, <1>6

\* The mark moves only for an order without a price of its own.
LEMMA MarkStep ==
    ASSUME DualInv, MarkMoves
    PROVE  DualInv'
<1>1. /\ kind = "market" /\ big' = ~big
      /\ UNCHANGED <<row, order, answers, bus, pc, at, kind, late, sweep, failures>>
    BY DEF MarkMoves, rowVars, jobVars
<1>2. JobType'
    BY <1>1 DEF DualInv, JobType
<1>3. RestType'
    BY <1>1 DEF DualInv, RestType
<1>4. SignInv' /\ ExpiryInv' /\ ClassInv'
    BY <1>1 DEF DualInv, SignInv, ExpiryInv, ClassInv, Holds
<1> QED
    BY <1>2, <1>3, <1>4 DEF DualInv

\* Every step keeps the invariant.
LEMMA DualStep ==
    ASSUME DualInv, [Next]_vars
    PROVE  DualInv'
<1> USE Commands
<1>1. ASSUME NEW c \in Cmds, Handle(c) \/ Fail(c) PROVE DualInv'
    <2>1. Claim(c) \/ RecordRefusal(c) \/ Admit(c) => c # Submit
        BY DEF DualInv, JobType, Claim, RecordRefusal, Admit
    <2> QED
        BY <1>1, <2>1, HandlerSteps, WriteSteps, ClaimStep, RefusalStep DEF Handle
<1>2. ASSUME NEW p \in Procs,
             \/ ExpireProposals(p) \/ SweepFails(p) \/ Crash(p) \/ LoseBus(p)
             \/ LoseAck(p) \/ Brake(p)
      PROVE  DualInv'
    BY <1>2, AnnounceStep, OtherSteps DEF ExpireProposals
<1>3. ASSUME NEW f \in Kinds, Declare(f) /\ UNCHANGED dualVars PROVE DualInv'
    BY <1>3, OtherSteps
<1>4. ASSUME DeadlinePasses \/ MarkMoves PROVE DualInv'
    BY <1>4, OtherSteps, MarkStep
<1>5. CASE UNCHANGED vars
    BY <1>5 DEF vars, dualVars, DualInv, JobType, RestType, SignInv, ExpiryInv, ClassInv, Holds
<1> QED
    BY <1>1, <1>2, <1>3, <1>4, <1>5 DEF Next

\* The invariant of dual control holds in every state of the system.
THEOREM DualInvariance == Spec => []DualInv
<1>1. Init => DualInv
    <2> SUFFICES ASSUME Init PROVE DualInv
        OBVIOUS
    <2> USE Commands
    <2>1. bus \subseteq Cmds
        BY DEF Init
    <2>2. JobType
        BY <2>1, Approving DEF Init, JobType, Steps
    <2>3. row \in Rows /\ ~row.held /\ ~row.announced
        BY DEF Init, Rows
    <2>4. RestType
        BY <2>3 DEF Init, RestType
    <2>5. SignInv
        BY Approving DEF Init, SignInv, Holds
    <2>6. ExpiryInv /\ ClassInv
        BY <2>3 DEF Init, ExpiryInv, ClassInv
    <2> QED
        BY <2>2, <2>4, <2>5, <2>6 DEF DualInv
<1> QED
    BY <1>1, DualStep, PTL DEF Spec

\* Every variable of the system has its type.
THEOREM TypeCorrect == Spec => []TypeOK
<1>1. BrakeInv /\ DualInv => TypeOK
    BY DEF BrakeInv, DualInv, JobType, RestType, TypeOK, DualType
<1> QED
    BY <1>1, BrakeInvariance, DualInvariance, PTL

\* No order is admitted on one signature where two are asked for.
THEOREM TwoSigned == Spec => []TwoSignatures
<1>1. DualInv => TwoSignatures
    <2> SUFFICES ASSUME DualInv PROVE TwoSignatures
        OBVIOUS
    <2>1. order \in Cmds \cup {None}
        BY DEF DualInv, RestType
    <2> QED
        BY <2>1, Commands DEF DualInv, SignInv, ClassInv, TwoSignatures
<1> QED
    BY <1>1, DualInvariance, PTL

\* An order announced as expired does not trade.
THEOREM ExpiredStaysOut == Spec => []ExpiredNeverTrades
<1>1. DualInv => ExpiredNeverTrades
    <2> SUFFICES ASSUME DualInv, "expired" \in answers, kind = "limit" PROVE order = None
        BY DEF ExpiredNeverTrades
    <2>1. order \in Cmds \cup {None}
        BY DEF DualInv, RestType
    <2>2. row.held /\ row.approver = None /\ big
        BY DEF DualInv, ExpiryInv, ClassInv
    <2>3. order # Submit
        BY <2>2 DEF DualInv, ClassInv
    <2>4. order \notin Approvals
        BY <2>2, Commands DEF DualInv, SignInv
    <2> QED
        BY <2>1, <2>3, <2>4, Commands
<1> QED
    BY <1>1, DualInvariance, PTL

\* A signed or expired row stays what it is.
THEOREM DecisionsStand == Spec => DecisionStands
<1>1. ASSUME DualInv, [Next]_vars, ~Undecided
      PROVE  row'.approver = row.approver /\ row'.announced = row.announced
    <2>1. row \in Rows
        BY <1>1 DEF DualInv, RestType
    <2>2. ASSUME NEW c \in Cmds, Handle(c) \/ Fail(c)
          PROVE  row'.approver = row.approver /\ row'.announced = row.announced
        BY <1>1, <2>1, <2>2 DEF Handle, HandleSubmit, HandleApprove, Refuse, Hold, Create,
            Claim, RecordRefusal, Admit, Fail, rowVars, Rows
    <2>3. ASSUME NEW p \in Procs,
                 \/ ExpireProposals(p) \/ SweepFails(p) \/ Crash(p) \/ LoseBus(p)
                 \/ LoseAck(p) \/ Brake(p)
          PROVE  row' = row
        BY <1>1, <2>3 DEF ExpireProposals, FindExpired, AnnounceExpiry, SweepFails, Crash,
            LoseBus, LoseAck, Brake, rowVars, dualVars
    <2>4. ASSUME \/ \E f \in Kinds : Declare(f) /\ UNCHANGED dualVars
                 \/ DeadlinePasses \/ MarkMoves \/ UNCHANGED vars
          PROVE  row' = row
        BY <2>4 DEF DeadlinePasses, MarkMoves, vars, rowVars, dualVars
    <2> QED
        BY <1>1, <2>2, <2>3, <2>4 DEF Next
<1>2. DualInv /\ [Next]_vars =>
        [row.held /\ ~Undecided => row'.approver = row.approver /\ row'.announced = row.announced]_vars
    BY <1>1
<1> QED
    BY <1>2, DualInvariance, PTL DEF Spec, DecisionStands

=============================================================================
