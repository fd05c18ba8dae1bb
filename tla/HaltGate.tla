------------------------------ MODULE HaltGate ------------------------------
(***************************************************************************)
(* The platform brake (internal/platform/halt): every process on the order *)
(* path holds a Gate, closed until the ModeChanged FACT opens it, and      *)
(* joins the broadcast of those FACTs with Arm, through an ephemeral       *)
(* consumer that starts at the last FACT of the subject.                   *)
(*                                                                         *)
(*   log      the ModeChanged FACTs on the stream, in publication order    *)
(*   open     Gate.mode is NORMAL                                          *)
(*   next     position of the next FACT for p's consumer, 0 for none       *)
(*   unacked  FACTs p has folded and whose ack was lost                    *)
(*   wire     p is connected to the broker                                 *)
(***************************************************************************)
EXTENDS Naturals, Sequences, FiniteSets

CONSTANTS
    Procs,      \* processes that hold a gate
    Kinds,      \* what Handle tells apart in a ModeChanged (see AllKinds)
    MaxFacts    \* bound: ModeChanged FACTs published in a behaviour

\* A system mode other than NORMAL, NORMAL by an operator, NORMAL by
\* "system:...", another component's mode, an undecodable payload
AllKinds == {"halt", "resume", "auto", "other", "garbled"}

ASSUME FactsBound == Kinds \subseteq AllKinds /\ MaxFacts \in Nat

VARIABLES log, open, next, unacked, wire

haltVars == <<log, open, next, unacked, wire>>

HaltType ==
    /\ log \in Seq(Kinds) /\ Len(log) <= MaxFacts
    /\ open \in [Procs -> BOOLEAN]
    /\ next \in [Procs -> 0..(MaxFacts + 1)]
    /\ unacked \in [Procs -> SUBSET (1..MaxFacts)]
    /\ wire \in [Procs -> BOOLEAN]

\* DeliverLastPerSubject: where a new consumer starts
Last == IF log = <<>> THEN 1 ELSE Len(log)

\* Every process is up and armed; nobody has declared a mode yet
HaltInit ==
    /\ log = <<>>
    /\ open = [p \in Procs |-> FALSE]
    /\ next = [p \in Procs |-> 1]
    /\ unacked = [p \in Procs |-> {}]
    /\ wire = [p \in Procs |-> TRUE]

-----------------------------------------------------------------------------
\* kanz-halt, or a detector, publishes a ModeChanged
Declare(f) ==
    /\ Len(log) < MaxFacts
    /\ log' = Append(log, f)
    /\ UNCHANGED <<open, next, unacked, wire>>

\* A bug in Observe: only a FACT nobody can read trips
ObserveGarbledOnly(isOpen, f) == (isOpen \/ f = "resume") /\ f # "garbled"

\* Gate.Handle and Observe: what folding FACT f makes of the gate
Observe(isOpen, f) == (isOpen \/ f = "resume") /\ f \notin {"halt", "garbled"}

\* The consumer hands p its next FACT; Handle always returns nil, so it is
\* acked, and the ack may be lost
Fold(p, lost) ==
    /\ wire[p] /\ next[p] \in 1..Len(log)
    /\ open' = [open EXCEPT ![p] = Observe(open[p], log[next[p]])]
    /\ next' = [next EXCEPT ![p] = next[p] + 1]
    /\ unacked' = IF lost THEN [unacked EXCEPT ![p] = unacked[p] \cup {next[p]}] ELSE unacked
    /\ UNCHANGED <<log, wire>>

\* AckWait runs out on a FACT whose ack was lost: the broadcast path takes no
\* dedup claim, so Handle folds it again; the next ack may be lost as well
Refold(p) ==
    /\ wire[p]
    /\ \E i \in unacked[p] :
        open' = [open EXCEPT ![p] = Observe(open[p], log[i])]
    /\ UNCHANGED <<log, next, unacked, wire>>

\* OnDisconnect: TripOnBusLoss
Disconnect(p) ==
    /\ wire[p]
    /\ wire' = [wire EXCEPT ![p] = FALSE]
    /\ open' = [open EXCEPT ![p] = FALSE]
    /\ UNCHANGED <<log, next, unacked>>

\* The client reconnects, with no effect on the gate; a consumer idle for
\* longer than InactiveThreshold is gone, and with it what it would redeliver
Reconnect(p) ==
    /\ ~wire[p]
    /\ wire' = [wire EXCEPT ![p] = TRUE]
    /\ \/ UNCHANGED <<next, unacked>>
       \/ /\ next' = [next EXCEPT ![p] = 0]
          /\ unacked' = [unacked EXCEPT ![p] = {}]
    /\ UNCHANGED <<log, open>>

\* p restarts: NewGate, then Arm, which may fail and leave it without a
\* consumer
Arm(p) ==
    /\ open' = [open EXCEPT ![p] = FALSE]
    /\ wire' = [wire EXCEPT ![p] = TRUE]
    /\ unacked' = [unacked EXCEPT ![p] = {}]
    /\ \E n \in {Last, 0} : next' = [next EXCEPT ![p] = n]
    /\ UNCHANGED log

-----------------------------------------------------------------------------
(***************************************************************************)
(* "not knowing means not trading" (halt.go TripOnBusLoss, arm.go): a      *)
(* process that is cut off from the broker, or whose consumer is gone, has *)
(* its gate closed.                                                        *)
(***************************************************************************)
DeafIsClosed == \A p \in Procs : open[p] => wire[p] /\ next[p] # 0

(***************************************************************************)
(* Only an explicit operator Resume, or an operator-issued                 *)
(* ModeChanged(NORMAL), clears the latch (halt.go Gate).  Of the FACTs     *)
(* up to its consumer's position, a process with an open gate has folded   *)
(* an operator's NORMAL after every one that trips, across restarts,       *)
(* reconnections and automatic recoveries.  The one exception is a NORMAL  *)
(* whose ack was lost: its redelivery opens a gate that has tripped since. *)
(***************************************************************************)
OnlyResumeOpens ==
    \A p \in Procs : open[p] =>
        \E i \in 1..(next[p] - 1) :
            /\ log[i] = "resume"
            /\ \/ i \in unacked[p]
               \/ \A j \in (i + 1)..(next[p] - 1) : log[j] \notin {"halt", "garbled"}

=============================================================================
