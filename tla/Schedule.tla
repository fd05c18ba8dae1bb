------------------------------ MODULE Schedule ------------------------------
(***************************************************************************)
(* A parent order that the OMS works as a schedule of child orders: the    *)
(* driver that every replica runs on a timer (DriveSchedules), the         *)
(* admission of a child (emitChild, the part of handleSubmit that concerns *)
(* a slice), the retirement of a finished parent (retireIfFinished) and    *)
(* its cancel with the withdrawal of its children (cancelChildren).        *)
(*                                                                         *)
(* Replicas share the store and nothing else.  The claim on the parent is  *)
(* per replica and in the form OrderClaim promises; a child order's own    *)
(* life is OrderLifecycle's subject and is cut down here to a child that   *)
(* trades while it is live and then ends.                                  *)
(***************************************************************************)
EXTENDS Naturals

CONSTANTS
    Replicas,
    Cancels,     \* deliveries of the command that cancels the parent
    Home,        \* Home[c]: the replica that works delivery c
    Slices,      \* how many slices the parent's schedule has
    SliceQty,    \* what one slice can trade
    MaxHalts,    \* how often the platform is halted
    MaxFaults,   \* how often a tick fails or a child is quarantined
    None

ASSUME ScheduleAssumption ==
    /\ Slices \in Nat \ {0} /\ SliceQty \in Nat /\ {MaxHalts, MaxFaults} \subseteq Nat
    /\ Home \in [Cancels -> Replicas]
    /\ Replicas \cap Cancels = {} /\ None \notin Replicas \cup Cancels

Index == 1 .. Slices

VARIABLES
    parent,    \* the parent's status
    ver,       \* the version of its row
    child,     \* the status of each slice's order; "none" until it is admitted
    filled,    \* what each child traded
    due,       \* how many slices are due
    halted, halts, faults,
    claim,     \* who has the parent's claim in each replica
    drv,       \* the tick each replica's driver is at
    cxl,       \* where each cancel is
    report     \* what the fact that ended the parent was derived from

vars == <<parent, ver, child, filled, due, halted, halts, faults, claim, drv, cxl, report>>

Sent == {i \in Index : child[i] # "none"}
Ended == {i \in Index : child[i] = "ended"}

NoTick == [pc |-> "idle", seen |-> {}, ended |-> {}, fills |-> [i \in Index |-> 0],
           todo |-> {}, made |-> FALSE, ver |-> 0]
NoCancel == [pc |-> "idle", sent |-> {}, todo |-> {}, ver |-> 0]
NoReport == [sent |-> {}, fills |-> [i \in Index |-> 0]]

TypeOK ==
    /\ parent \in {"working", "cancelled", "expired"}
    /\ ver \in Nat
    /\ child \in [Index -> {"none", "live", "frozen", "ended"}]
    /\ filled \in [Index -> 0 .. SliceQty]
    /\ due \in 0 .. Slices
    /\ halted \in BOOLEAN /\ halts \in 0 .. MaxHalts /\ faults \in 0 .. MaxFaults
    /\ claim \in [Replicas -> Replicas \cup Cancels \cup {None}]
    /\ drv \in [Replicas -> [pc : {"idle", "emit", "create", "retire", "save"},
                             seen : SUBSET Index, ended : SUBSET Index,
                             fills : [Index -> 0 .. SliceQty],
                             todo : SUBSET Index, made : BOOLEAN, ver : Nat]]
    /\ cxl \in [Cancels -> [pc : {"idle", "withdraw", "done"},
                            sent : SUBSET Index, todo : SUBSET Index, ver : Nat]]
    /\ report \in [sent : SUBSET Index, fills : [Index -> 0 .. SliceQty]]

Init ==
    /\ parent = "working" /\ ver = 0
    /\ child = [i \in Index |-> "none"]
    /\ filled = [i \in Index |-> 0]
    /\ due = 0
    /\ halted = FALSE /\ halts = 0 /\ faults = 0
    /\ claim = [r \in Replicas |-> None]
    /\ drv = [r \in Replicas |-> NoTick]
    /\ cxl = [c \in Cancels |-> NoCancel]
    /\ report = NoReport

Fault == faults < MaxFaults /\ faults' = faults + 1

-----------------------------------------------------------------------------
(* The driver of replica r.                                                *)

\* The slices a tick is to send: those due whose order does not exist.
DueNow == {i \in Index : i <= due} \ Sent

\* A tick starts: the working parent and its children are read.
List(r) ==
    /\ drv[r].pc = "idle" /\ parent = "working"
    /\ drv' = [drv EXCEPT ![r] = [pc |-> "emit", seen |-> Sent, ended |-> Ended,
                                  fills |-> filled, todo |-> DueNow,
                                  made |-> FALSE, ver |-> 0]]
    /\ UNCHANGED <<parent, ver, child, filled, due, halted, halts, faults, claim, cxl, report>>

First(S) == CHOOSE i \in S : \A j \in S : i <= j

\* The slice the tick is at counts as sent, and the tick goes on to the next.
Passed(r) ==
    [drv EXCEPT ![r] = [drv[r] EXCEPT !.pc = "emit", !.made = TRUE,
                                      !.todo = drv[r].todo \ {First(drv[r].todo)}]]

\* The admission of a child up to authorizeChild.  An order that exists is
\* resumed, and a refusal is answered: for the driver both are success.
Authorize(r) ==
    /\ drv[r].pc = "emit" /\ drv[r].todo # {}
    /\ \/ /\ First(drv[r].todo) \in Sent \/ halted \/ parent # "working"
          /\ drv' = Passed(r)
       \/ /\ First(drv[r].todo) \notin Sent /\ ~halted /\ parent = "working"
          /\ drv' = [drv EXCEPT ![r] = [@ EXCEPT !.pc = "create"]]
    /\ UNCHANGED <<parent, ver, child, filled, due, halted, halts, faults, claim, cxl, report>>

\* The rest of it: the child's row is created unless another driver has.
Create(r) ==
    /\ drv[r].pc = "create"
    /\ child' = IF First(drv[r].todo) \in Sent THEN child
                ELSE [child EXCEPT ![First(drv[r].todo)] = "live"]
    /\ drv' = Passed(r)
    /\ UNCHANGED <<parent, ver, filled, due, halted, halts, faults, claim, cxl, report>>

\* Mutant of Finished: a schedule that is fully sent is finished
FinishedSent(r) == drv[r].seen = Index

\* What the tick read shows every slice sent and every child at its end.
Finished(r) == drv[r].seen = Index /\ drv[r].ended = Index

\* Mutant of EndTick: only a tick that sent something looks
EndTickMade(r) ==
    /\ drv[r].pc = "emit" /\ drv[r].todo = {}
    /\ drv' = IF drv[r].made /\ Finished(r)
              THEN [drv EXCEPT ![r] = [@ EXCEPT !.pc = "retire"]]
              ELSE [drv EXCEPT ![r] = NoTick]
    /\ UNCHANGED <<parent, ver, child, filled, due, halted, halts, faults, claim, cxl, report>>

\* The end of the tick.  A tick that sent nothing looks for a finished parent.
EndTick(r) ==
    /\ drv[r].pc = "emit" /\ drv[r].todo = {}
    /\ drv' = IF ~drv[r].made /\ Finished(r)
              THEN [drv EXCEPT ![r] = [@ EXCEPT !.pc = "retire"]]
              ELSE [drv EXCEPT ![r] = NoTick]
    /\ UNCHANGED <<parent, ver, child, filled, due, halted, halts, faults, claim, cxl, report>>

\* retireIfFinished claims the parent and reads it again.
Reload(r) ==
    /\ drv[r].pc = "retire" /\ claim[r] = None
    /\ IF parent = "working"
       THEN /\ drv' = [drv EXCEPT ![r] = [@ EXCEPT !.pc = "save", !.ver = ver]]
            /\ claim' = [claim EXCEPT ![r] = r]
       ELSE /\ drv' = [drv EXCEPT ![r] = NoTick]
            /\ UNCHANGED claim
    /\ UNCHANGED <<parent, ver, child, filled, due, halted, halts, faults, cxl, report>>

\* It expires the parent, with a fact derived from the children it had read.
Retire(r) ==
    /\ drv[r].pc = "save"
    /\ IF drv[r].ver = ver
       THEN /\ parent' = "expired" /\ ver' = ver + 1
            /\ report' = [sent |-> drv[r].seen, fills |-> drv[r].fills]
       ELSE UNCHANGED <<parent, ver, report>>
    /\ drv' = [drv EXCEPT ![r] = NoTick]
    /\ claim' = [claim EXCEPT ![r] = None]
    /\ UNCHANGED <<child, filled, due, halted, halts, faults, cxl>>

\* The store or the relay fails, a claim is not had in time, or the process
\* dies: the tick is over and a later one derives what is left.
FailTick(r) ==
    /\ Fault
    /\ drv[r].pc # "idle"
    /\ drv' = [drv EXCEPT ![r] = NoTick]
    /\ claim' = [claim EXCEPT ![r] = IF @ = r THEN None ELSE @]
    /\ UNCHANGED <<parent, ver, child, filled, due, halted, halts, cxl, report>>

-----------------------------------------------------------------------------
(* The cancel of the parent, by delivery c.                                *)

\* handleCancel claims and reads the parent, and lists its children.  A parent
\* that has ended is answered.
BeginCancel(c) ==
    /\ cxl[c].pc = "idle" /\ claim[Home[c]] = None
    /\ IF parent = "working"
       THEN /\ cxl' = [cxl EXCEPT ![c] = [pc |-> "withdraw", sent |-> Sent,
                                          todo |-> Sent \ Ended, ver |-> ver]]
            /\ claim' = [claim EXCEPT ![Home[c]] = c]
       ELSE /\ cxl' = [cxl EXCEPT ![c] = [@ EXCEPT !.pc = "done"]]
            /\ UNCHANGED claim
    /\ UNCHANGED <<parent, ver, child, filled, due, halted, halts, faults, drv, report>>

\* Mutant of Withdraw: the answer of the child's cancel is trusted
WithdrawTrusting(c) ==
    /\ cxl[c].pc = "withdraw" /\ cxl[c].todo # {}
    /\ LET i == First(cxl[c].todo) IN
         /\ child' = [child EXCEPT ![i] = IF @ = "frozen" THEN @ ELSE "ended"]
         /\ cxl' = [cxl EXCEPT ![c] = [@ EXCEPT !.todo = @ \ {i}]]
    /\ UNCHANGED <<parent, ver, filled, due, halted, halts, faults, claim, drv, report>>

\* One child is withdrawn through the ordinary cancel path, and read again.
Withdraw(c) ==
    /\ cxl[c].pc = "withdraw" /\ cxl[c].todo # {}
    /\ LET i == First(cxl[c].todo) IN
         /\ child[i] # "frozen"
         /\ child' = [child EXCEPT ![i] = "ended"]
         /\ cxl' = [cxl EXCEPT ![c] = [@ EXCEPT !.todo = cxl[c].todo \ {i}]]
    /\ UNCHANGED <<parent, ver, filled, due, halted, halts, faults, claim, drv, report>>

\* Every child that was listed has ended: the parent is recorded as cancelled.
SaveCancel(c) ==
    /\ cxl[c].pc = "withdraw" /\ cxl[c].todo = {}
    /\ IF cxl[c].ver = ver
       THEN /\ parent' = "cancelled" /\ ver' = ver + 1
            /\ report' = [sent |-> cxl[c].sent, fills |-> NoReport.fills]
            /\ cxl' = [cxl EXCEPT ![c] = [@ EXCEPT !.pc = "done"]]
       ELSE /\ cxl' = [cxl EXCEPT ![c] = NoCancel]
            /\ UNCHANGED <<parent, ver, report>>
    /\ claim' = [claim EXCEPT ![Home[c]] = None]
    /\ UNCHANGED <<child, filled, due, halted, halts, faults, drv>>

\* A child cannot be withdrawn, the budget is spent, the store fails or the
\* process dies: the delivery is nakked and comes again.
FailCancel(c) ==
    /\ cxl[c].pc = "withdraw"
    /\ cxl' = [cxl EXCEPT ![c] = NoCancel]
    /\ claim' = [claim EXCEPT ![Home[c]] = None]
    /\ UNCHANGED <<parent, ver, child, filled, due, halted, halts, faults, drv, report>>

-----------------------------------------------------------------------------
(* The world: the clock, the platform's halt, and the children's own lives.*)

BecomeDue ==
    /\ due < Slices
    /\ due' = due + 1
    /\ UNCHANGED <<parent, ver, child, filled, halted, halts, faults, claim, drv, cxl, report>>

Halt ==
    /\ ~halted /\ halts < MaxHalts
    /\ halted' = TRUE /\ halts' = halts + 1
    /\ UNCHANGED <<parent, ver, child, filled, due, faults, claim, drv, cxl, report>>

Resume ==
    /\ halted
    /\ halted' = FALSE
    /\ UNCHANGED <<parent, ver, child, filled, due, halts, faults, claim, drv, cxl, report>>

\* A child trades.
Trade(i) ==
    /\ child[i] = "live" /\ filled[i] < SliceQty
    /\ filled' = [filled EXCEPT ![i] = @ + 1]
    /\ UNCHANGED <<parent, ver, child, due, halted, halts, faults, claim, drv, cxl, report>>

\* A child is filled, rejected, cancelled on its own or expires.
End(i) ==
    /\ child[i] = "live"
    /\ child' = [child EXCEPT ![i] = "ended"]
    /\ UNCHANGED <<parent, ver, filled, due, halted, halts, faults, claim, drv, cxl, report>>

\* A child is quarantined, and an operator may resolve it later.
Freeze(i) ==
    /\ Fault
    /\ child[i] = "live"
    /\ child' = [child EXCEPT ![i] = "frozen"]
    /\ UNCHANGED <<parent, ver, filled, due, halted, halts, claim, drv, cxl, report>>

Resolve(i) ==
    /\ child[i] = "frozen"
    /\ child' = [child EXCEPT ![i] = "live"]
    /\ UNCHANGED <<parent, ver, filled, due, halted, halts, faults, claim, drv, cxl, report>>
-----------------------------------------------------------------------------
Drive(r) ==
    List(r) \/ Authorize(r) \/ Create(r) \/ EndTick(r) \/ Reload(r) \/ Retire(r)

CancelStep(c) == BeginCancel(c) \/ Withdraw(c) \/ SaveCancel(c) \/ FailCancel(c)

World ==
    \/ BecomeDue \/ Halt \/ Resume
    \/ \E i \in Index : Trade(i) \/ End(i) \/ Freeze(i) \/ Resolve(i)

Next ==
    \/ \E r \in Replicas : Drive(r) \/ FailTick(r)
    \/ \E c \in Cancels : CancelStep(c)
    \/ World

Spec == Init /\ [][Next]_vars

\* The timer keeps ticking, the window's time passes, a halt is lifted, and a
\* live child comes to its end.
Fairness ==
    /\ \A r \in Replicas : WF_vars(Drive(r))
    /\ WF_vars(BecomeDue) /\ WF_vars(Resume)
    /\ \A i \in Index : WF_vars(End(i))

LiveSpec == Spec /\ Fairness

-----------------------------------------------------------------------------
\* A parent that has expired has its whole schedule behind it, no child of it
\* trades any more, and the unfilled quantity it announced is what its children
\* really left (retireIfFinished reads the children before it has the claim).
ExpiredTruth ==
    parent = "expired" =>
        Ended = Index /\ report.sent = Index /\ report.fills = filled

\* A cancelled parent has withdrawn every child it told the caller had been
\* sent (cancelChildren), whatever the children did meanwhile.
CancelledTruth ==
    parent = "cancelled" => report.sent \subseteq Ended

\* What has been sent is a prefix of the schedule, whichever replicas drive it,
\* as long as no halt makes an admission refuse (driveOne stops at a failure).
SentIsPrefix ==
    halts = 0 => \A i \in Sent : \A j \in Index : j < i => j \in Sent

\* The parent has stopped and no admission of a child is past authorizeChild.
Stopped == parent # "working" /\ \A r \in Replicas : drv[r].pc # "create"

\* Once stopped, a parent acquires no more children, whatever drivers had read
\* of it before (authorizeChild reads the parent again).
StoppedStays == [][Stopped => Stopped' /\ Sent' = Sent]_vars

\* A parent that has stopped acquires no child at all, and leaves none at work:
\* "a child command already in flight when an operator cancels the parent would
\* otherwise land after the cancel and trade" (authorizeChild).
ChildrenStop ==
    parent = "cancelled" => Sent = Ended

\* A scheduled parent does not rest for ever: it is retired or cancelled in the
\* end, unless a child of it stays quarantined.
EventuallyEnds ==
    (\E i \in Index : <>[](child[i] = "frozen")) \/ <>(parent # "working")

=============================================================================
