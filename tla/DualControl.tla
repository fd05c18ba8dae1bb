---------------------------- MODULE DualControl ----------------------------
(***************************************************************************)
(* Admission of one order by the OMS (services/oms/internal/order): the    *)
(* SubmitOrder and ApproveOrder handlers, the proposal row that holds an   *)
(* order until a second person signs, the sweep that announces an expired  *)
(* proposal, and the platform brake of each process (HaltGate).            *)
(*                                                                         *)
(*   kind      "limit": valued at its own price; "market": at the mark     *)
(*   big       the order's notional is at or above the threshold now       *)
(*   late      the proposal's expires_at has passed                        *)
(*   row       the order_proposals row                                     *)
(*   order     the command whose handler stored the order, or None         *)
(*   answers   FACTs that answer the SubmitOrder                           *)
(*   bus       the commands sent and not acked yet                         *)
(*   pc, at    per command: its handler's next write, and where it runs    *)
(*   sweep     processes whose sweep has read the row as expired           *)
(*   failures  failed calls, crashes and disconnections so far             *)
(***************************************************************************)
EXTENDS HaltGate

CONSTANTS
    Submit,       \* the SubmitOrder command
    Approvals,    \* ApproveOrder commands
    Signer,       \* Signer[a]: the authenticated issuer of approval a
    Exact,        \* the approvals whose digest is the proposal's
    Proposer,     \* the authenticated issuer of Submit
    MaxFailures,  \* bound on failures
    None

ASSUME Approving ==
    /\ Submit \notin Approvals /\ Exact \subseteq Approvals
    /\ None \notin {Signer[a] : a \in Approvals} \cup {Proposer, Submit} \cup Approvals \cup Procs
    /\ MaxFailures \in Nat

VARIABLES kind, big, late, row, order, answers, bus, pc, at, sweep, failures

rowVars == <<row, order, answers>>
jobVars == <<bus, pc, at>>
worldVars == <<kind, big, late>>
dualVars == <<kind, big, late, row, order, answers, bus, pc, at, sweep, failures>>
vars == <<haltVars, dualVars>>

Cmds == {Submit} \cup Approvals
Signers == {Signer[a] : a \in Approvals}
Steps == {"idle", "refuse", "hold", "create", "claim", "refusal", "admit"}
Answers == {"held", "accepted", "rejected", "expired"}

Rows == [held : BOOLEAN, approver : Signers \cup {None}, announced : BOOLEAN,
         refused : Signers \cup {None}]

DualType ==
    /\ kind \in {"limit", "market"} /\ big \in BOOLEAN /\ late \in BOOLEAN
    /\ row \in Rows /\ order \in Cmds \cup {None} /\ answers \subseteq Answers
    /\ bus \subseteq Cmds
    /\ pc \in [Cmds -> Steps] /\ at \in [Cmds -> Procs \cup {None}]
    /\ pc[Submit] \in {"idle", "refuse", "hold", "create"}
    /\ \A a \in Approvals : pc[a] # "hold"
    /\ \A c \in Cmds : pc[c] = "idle" <=> at[c] = None
    /\ sweep \subseteq Procs /\ failures \in 0..MaxFailures

TypeOK == HaltType /\ DualType

\* Some of the approvals are sent; the broker may deliver them late
Init ==
    /\ HaltInit
    /\ kind \in {"limit", "market"} /\ big \in BOOLEAN /\ late = FALSE
    /\ row = [held |-> FALSE, approver |-> None, announced |-> FALSE, refused |-> None]
    /\ order = None /\ answers = {}
    /\ \E S \in SUBSET Approvals : bus = {Submit} \cup S
    /\ pc = [c \in Cmds |-> "idle"] /\ at = [c \in Cmds |-> None]
    /\ sweep = {} /\ failures = 0

-----------------------------------------------------------------------------
\* A call fails, a process dies, a connection drops
Spend == failures < MaxFailures /\ failures' = failures + 1

\* The handler of c goes on to its next write
Goto(c, p, s) ==
    /\ pc' = [pc EXCEPT ![c] = s] /\ at' = [at EXCEPT ![c] = p]
    /\ UNCHANGED <<bus, failures>>

\* The handler of c returns, and the bus acks c or keeps it
Return(c, kept) ==
    /\ pc' = [pc EXCEPT ![c] = "idle"] /\ at' = [at EXCEPT ![c] = None]
    /\ bus' = kept

\* It returns nil; or, its write done, an error from Flush, from a commit
\* that did land, or a lost ack
Finish(c) ==
    \/ Return(c, bus \ {c}) /\ UNCHANGED failures
    \/ Return(c, bus) /\ Spend

Delivered(c, p) == c \in bus /\ pc[c] = "idle" /\ wire[p]

\* A bug in submit: a redelivered SubmitOrder of a held order passes for its
\* release
ScreenReleases(c, p) ==
    \/ order # None /\ Finish(c)
    \/ order = None /\ Goto(c, p, "refuse")
    \/ /\ order = None /\ open[p]
       /\ Goto(c, p, IF big /\ c = Submit /\ ~row.held THEN "hold" ELSE "create")

(***************************************************************************)
(* submit, up to its one write.  An order that exists is resumed; a closed *)
(* brake refuses, and so may the other checks (schedule, compliance,       *)
(* venue, account, Accept) at any time; then dual control.  Covers         *)
(* compares the approval with the command the row itself stores.           *)
(***************************************************************************)
Screen(c, p) ==
    \/ order # None /\ Finish(c)
    \/ order = None /\ Goto(c, p, "refuse")
    \/ order = None /\ open[p] /\ big /\ c = Submit /\ Goto(c, p, "hold")
    \/ order = None /\ open[p] /\ (big => c # Submit) /\ Goto(c, p, "create")

HandleSubmit(p) ==
    /\ Delivered(Submit, p)
    /\ Screen(Submit, p)
    /\ UNCHANGED <<haltVars, rowVars, worldVars, sweep>>

\* refuse: the REJECTED FACT and the outcome, published directly
Refuse(c) ==
    /\ pc[c] = "refuse" /\ wire[at[c]]
    /\ answers' = answers \cup {"rejected"}
    /\ Finish(c)
    /\ UNCHANGED <<haltVars, row, order, worldVars, sweep>>

\* hold: Put inserts the row with its FACT, or finds it there
Hold(c) ==
    /\ pc[c] = "hold"
    /\ row' = [row EXCEPT !.held = TRUE]
    /\ answers' = answers \cup {"held"}
    /\ Finish(c)
    /\ UNCHANGED <<haltVars, order, worldVars, sweep>>

\* store.Create inserts the order with the ACCEPTED FACT; ErrExists is acked
Create(c) ==
    /\ pc[c] = "create"
    /\ IF order = None
       THEN order' = c /\ answers' = answers \cup {"accepted"}
       ELSE UNCHANGED <<order, answers>>
    /\ Finish(c)
    /\ UNCHANGED <<haltVars, row, worldVars, sweep>>

-----------------------------------------------------------------------------
\* Proposal.Approve: another person, the same payload, in time
MaySign(a) == Signer[a] # Proposer /\ a \in Exact /\ ~late

\* handleApprove, up to its first write: no row is acked
HandleApprove(a, p) ==
    /\ Delivered(a, p)
    /\ \/ ~row.held /\ Finish(a)
       \/ row.held /\ MaySign(a) /\ Goto(a, p, "claim")
       \/ row.held /\ ~MaySign(a) /\ Goto(a, p, "refusal")
    /\ UNCHANGED <<haltVars, rowVars, worldVars, sweep>>

\* Nobody has signed, and no expiry has been announced
Undecided == row.approver = None /\ ~row.announced

\* A bug in Claim: the expiry is not looked at again
ClaimExpired(a) ==
    /\ pc[a] = "claim"
    /\ IF row.approver = None /\ Signer[a] # Proposer
       THEN row' = [row EXCEPT !.approver = Signer[a]] /\ Goto(a, at[a], "admit")
       ELSE UNCHANGED row /\ Goto(a, at[a], "refusal")
    /\ UNCHANGED <<haltVars, order, answers, worldVars, sweep>>

\* Claim: one UPDATE that only an undecided row passes
Claim(a) ==
    /\ pc[a] = "claim"
    /\ IF Undecided /\ Signer[a] # Proposer
       THEN /\ row' = [row EXCEPT !.approver = Signer[a]]
            /\ \/ Goto(a, at[a], "admit")
               \/ Return(a, bus) /\ Spend
       ELSE UNCHANGED row /\ Goto(a, at[a], "refusal")
    /\ UNCHANGED <<haltVars, order, answers, worldVars, sweep>>

\* RecordRefusal: a signed row keeps its history
RecordRefusal(a) ==
    /\ pc[a] = "refusal"
    /\ row' = IF row.approver = None THEN [row EXCEPT !.refused = Signer[a]] ELSE row
    /\ Finish(a)
    /\ UNCHANGED <<haltVars, order, answers, worldVars, sweep>>

\* With the claim won, handleApprove submits the command of the row
Admit(a) ==
    /\ pc[a] = "admit" /\ Screen(a, at[a])
    /\ UNCHANGED <<haltVars, rowVars, worldVars, sweep>>

-----------------------------------------------------------------------------
\* A bug in ExpiredUnannounced: a refused proposal is taken for a decided one
FindUnrefused(p) ==
    /\ p \notin sweep
    /\ row.held /\ Undecided /\ row.refused = None /\ late
    /\ sweep' = sweep \cup {p}
    /\ UNCHANGED <<haltVars, rowVars, jobVars, worldVars, failures>>

\* ExpireProposals on p's ticker: ExpiredUnannounced
FindExpired(p) ==
    /\ p \notin sweep
    /\ row.held /\ Undecided /\ late
    /\ sweep' = sweep \cup {p}
    /\ UNCHANGED <<haltVars, rowVars, jobVars, worldVars, failures>>

\* expireOne: AnnounceExpiry, with the REJECTED FACT and the outcome
AnnounceExpiry(p) ==
    /\ p \in sweep /\ sweep' = sweep \ {p}
    /\ IF Undecided
       THEN /\ row' = [row EXCEPT !.announced = TRUE]
            /\ answers' = answers \cup {"expired"}
       ELSE UNCHANGED <<row, answers>>
    /\ UNCHANGED <<haltVars, order, jobVars, worldVars, failures>>

-----------------------------------------------------------------------------
\* A read or a write of c's handler fails, and it returns the error; so does
\* a publish without a connection
Fail(c) ==
    /\ pc[c] # "idle"
    /\ Return(c, bus)
    /\ \/ Spend
       \/ pc[c] = "refuse" /\ ~wire[at[c]] /\ UNCHANGED failures
    /\ UNCHANGED <<haltVars, rowVars, worldVars, sweep>>

\* A sweep fails; the next tick reads the row again
SweepFails(p) ==
    /\ p \in sweep /\ sweep' = sweep \ {p} /\ Spend
    /\ UNCHANGED <<haltVars, rowVars, jobVars, worldVars>>

\* p dies and comes back; what it was handling is redelivered
Crash(p) ==
    /\ Spend
    /\ Arm(p)
    /\ pc' = [c \in Cmds |-> IF at[c] = p THEN "idle" ELSE pc[c]]
    /\ at' = [c \in Cmds |-> IF at[c] = p THEN None ELSE at[c]]
    /\ sweep' = sweep \ {p}
    /\ UNCHANGED <<rowVars, worldVars, bus>>

LoseBus(p) ==
    /\ Spend
    /\ Disconnect(p)
    /\ UNCHANGED <<rowVars, worldVars, jobVars, sweep>>

-----------------------------------------------------------------------------
\* DefaultTTL runs out
DeadlinePasses ==
    /\ row.held /\ ~late /\ late' = TRUE
    /\ UNCHANGED <<haltVars, rowVars, jobVars, kind, big, sweep, failures>>

\* Decide values an order without a price of its own at the current mark
MarkMoves ==
    /\ kind = "market" /\ big' = ~big
    /\ UNCHANGED <<haltVars, rowVars, jobVars, kind, late, sweep, failures>>

Brake(p) == (Fold(p, FALSE) \/ Refold(p) \/ Reconnect(p)) /\ UNCHANGED dualVars

LoseAck(p) ==
    /\ Fold(p, TRUE) /\ Spend
    /\ UNCHANGED <<rowVars, worldVars, jobVars, sweep>>

Handle(c) ==
    \/ \E p \in Procs : c = Submit /\ HandleSubmit(p)
    \/ \E p \in Procs : c # Submit /\ HandleApprove(c, p)
    \/ Refuse(c) \/ Hold(c) \/ Create(c)
    \/ Claim(c) \/ RecordRefusal(c) \/ Admit(c)

ExpireProposals(p) == FindExpired(p) \/ AnnounceExpiry(p)

Next ==
    \/ \E c \in Cmds : Handle(c) \/ Fail(c)
    \/ \E p \in Procs :
        \/ ExpireProposals(p) \/ SweepFails(p) \/ Crash(p) \/ LoseBus(p)
        \/ LoseAck(p) \/ Brake(p)
    \/ \E f \in Kinds : Declare(f) /\ UNCHANGED dualVars
    \/ DeadlinePasses \/ MarkMoves

Spec == Init /\ [][Next]_vars

(***************************************************************************)
(* The broker redelivers what is not acked and a handler runs to its end;  *)
(* some process's ticker sweeps; clients reconnect; a day passes.  Nobody  *)
(* is obliged to sign, halt or resume.                                     *)
(***************************************************************************)
Fairness ==
    /\ WF_vars(\E c \in Cmds : Handle(c) \/ Fail(c))
    /\ WF_vars(\E p \in Procs : ExpireProposals(p))
    /\ WF_vars(\E p \in Procs : Reconnect(p) /\ UNCHANGED dualVars)
    /\ WF_vars(DeadlinePasses)
LiveSpec == Spec /\ Fairness

-----------------------------------------------------------------------------
(***************************************************************************)
(* Two people (proposals.go Claim, service.go handleApprove): an order an  *)
(* approval admitted carries that approval's signer on its row, and it is  *)
(* somebody other than the proposer; an order at or above the threshold at *)
(* a price of its own has such a signature, however often its commands are *)
(* redelivered.                                                            *)
(***************************************************************************)
TwoSignatures ==
    /\ order \in Approvals => row.approver = Signer[order] /\ row.approver # Proposer
    /\ (order # None /\ kind = "limit" /\ big) => order \in Approvals

(***************************************************************************)
(* An order announced as expired does not trade (proposals.go: an approval *)
(* that was in time when it was read must still lose to the sweep).        *)
(***************************************************************************)
ExpiredNeverTrades ==
    ("expired" \in answers /\ kind = "limit") => order = None

(***************************************************************************)
(* A decision stands: once a row is signed or announced as expired, no     *)
(* later approval, refusal or sweep changes which of the two it is, or who *)
(* signed.                                                                 *)
(***************************************************************************)
DecisionStands ==
    [][row.held /\ ~Undecided =>
        row'.approver = row.approver /\ row'.announced = row.announced]_vars

\* The row is signed and no handler has the signature any more
Stranded ==
    /\ row.approver # None /\ order = None
    /\ \A a \in Approvals : pc[a] \notin {"admit", "refuse", "create"}

(***************************************************************************)
(* "A held order's outcome FACT is the one its approval or its expiry      *)
(* produces" (service.go hold): a SubmitOrder is admitted, refused or      *)
(* announced as expired in the end, whatever fails on the way and whoever  *)
(* signs or does not.  The one exception is a signature whose handler died *)
(* or returned an error before its answer: the redelivered approval then   *)
(* loses the claim, and the redelivered SubmitOrder finds its row.         *)
(***************************************************************************)
AnsweredUnlessStranded ==
    <>(answers \cap {"accepted", "rejected", "expired"} # {} \/ Stranded)

=============================================================================
