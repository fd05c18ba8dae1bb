--------------------------- MODULE OrderLifecycle ---------------------------
(***************************************************************************)
(* One order in the OMS (kanz/services/oms/internal/order), the handlers   *)
(* that drive it, and the venue that works it.                             *)
(*                                                                         *)
(* A handler is one delivery of a command (SubmitOrder, CancelOrder,       *)
(* AmendOrder) or one visit of the sweep.  It runs in a replica of the     *)
(* OMS.  Each of its calls to the store, to the venue adapter or to the    *)
(* exchange is one step, so handlers of both replicas interleave between   *)
(* any two calls.  In one replica the per-order claim excludes the others  *)
(* (module OrderClaim); across replicas there is only the version          *)
(* predicate of Store.Save.                                                *)
(*                                                                         *)
(* The version of a row only grows, so the version a handler holds equals  *)
(* the version of the row exactly when no Save has succeeded since the     *)
(* handler read or wrote the row.  `fresh' is the set of those handlers.   *)
(*                                                                         *)
(* A Save commits the FACTs of a change with the change; module Outbox     *)
(* shows that they are then published in that order.                       *)
(***************************************************************************)
EXTENDS Integers, FiniteSets

CONSTANTS
    Submits,     \* handlers of SubmitOrder deliveries
    Cancels,     \* handlers of CancelOrder deliveries
    Amends,      \* handlers of AmendOrder deliveries
    Sweeps,      \* sweeps of interrupted orders
    Replicas,    \* OMS processes
    Home,        \* the replica a handler runs in
    Qtys,        \* quantities an order is submitted with or amended to
    Prices,      \* whether the venue can price the order: a set of answers
    Faulty,      \* the handlers whose calls may fail or whose process may die
    MaxDeliver,  \* deliveries of a command before the bus parks it
    MaxPlaced,   \* bound: orders placed at the exchange under the order's id
    MaxTrade,    \* bound: trades of the exchange
    None         \* no handler

Commands == Submits \cup Cancels \cup Amends
Handlers == Commands \cup Sweeps
Trades == 1 .. MaxTrade

ASSUME KindsAssumption ==
    /\ Submits \cap Cancels = {} /\ Submits \cap Amends = {}
    /\ Submits \cap Sweeps = {} /\ Cancels \cap Amends = {}
    /\ Cancels \cap Sweeps = {} /\ Amends \cap Sweeps = {}
ASSUME HomeAssumption == Home \in [Handlers -> Replicas]
ASSUME QtysAssumption == Qtys \subseteq Nat \ {0}
ASSUME BoundsAssumption ==
    MaxDeliver \in Nat /\ MaxPlaced \in Nat /\ MaxTrade \in Nat
ASSUME PricesAssumption == Prices \subseteq BOOLEAN
ASSUME NoneAssumption == None \notin Handlers

VARIABLES
    row,        \* the row of the order, with status "NONE" before Create
    claims,     \* order_fills: the trades claimed by a committed fold
    announced,  \* trade -> fill FACTs committed to the outbox for it
    pc,         \* handler -> the call it makes next
    st,         \* handler -> the order state it holds
    fresh,      \* the handlers whose version is the version of the row
    todo,       \* handler -> the venue's trades it has still to fold
    verdict,    \* handler -> the venue's answer it acts on
    tries,      \* command -> deliveries so far
    held,       \* replica -> the holder of the order's claim
    view,       \* the adapter's own record: "none", "live" or "done"
    exch,       \* the exchange's order under this client order id
    placed,     \* orders the exchange accepted under this client order id
    traded,     \* trades of the exchange
    priced      \* the venue has a price source for the order's type

storeVars == <<row, claims, announced>>
handlerVars == <<pc, st, fresh, todo, verdict, tries, held>>
venueVars == <<view, exch, placed, traded, priced>>
vars == <<storeVars, handlerVars, venueVars>>

-----------------------------------------------------------------------------
(* The order aggregate.                                                    *)

Terminal == {"FILLED", "CANCELLED", "REJECTED", "EXPIRED"}
Statuses == Terminal \cup {"PENDING_NEW", "ROUTED", "PARTIALLY_FILLED"}

Order == [status : Statuses \cup {"NONE"}, qty : Nat, filled : Nat,
          ack : BOOLEAN, quar : BOOLEAN, told : BOOLEAN]

\* No order: what a handler at rest holds, and the row before Create.
NoOrder == [status |-> "NONE", qty |-> 0, filled |-> 0,
            ack |-> FALSE, quar |-> FALSE, told |-> FALSE]

Accept(q) == [NoOrder EXCEPT !.status = "PENDING_NEW", !.qty = q]

IsTerminal(o) == o.status \in Terminal

Route(o) == [o EXCEPT !.status = "ROUTED"]

\* A trade is one unit: it fits while the order has leaves.
CanFill(o) == ~IsTerminal(o) /\ o.filled < o.qty

ApplyFill(o) ==
    [o EXCEPT !.filled = o.filled + 1,
              !.status = IF o.filled + 1 = o.qty THEN "FILLED"
                                                 ELSE "PARTIALLY_FILLED"]

Cancel(o) == [o EXCEPT !.status = "CANCELLED"]

Amend(o, q) == [o EXCEPT !.qty = q]

Reject(o) == [o EXCEPT !.status = "REJECTED", !.told = TRUE]

\* The venue withdrew the order: CANCELLED has a marker of its own.
Withdrawn(o, v) == [o EXCEPT !.status = v, !.told = (v = "EXPIRED")]

\* Mutant of VenueMayBeWorking: only an order that has traded is at the venue
VenueHasTraded(o) == o.status = "PARTIALLY_FILLED"

VenueMayBeWorking(o) == o.status \in {"ROUTED", "PARTIALLY_FILLED"}

\* ROUTED is saved before the venue is called, so this order is not there.
NeverSent(o) == o.status = "PENDING_NEW" /\ ~o.ack

OutcomeAnnounced(o) == o.status = "CANCELLED" \/ o.told

-----------------------------------------------------------------------------
(* Venue truth.                                                            *)

\* What the exchange answers about the order addressed by its client id.
Verdict ==
    IF exch.state # "OPEN" THEN exch.state
    ELSE IF exch.trades = {} THEN "WORKING" ELSE "PARTIALLY_FILLED"

Reconcile(o, v) ==
    IF IsTerminal(o) THEN "quarantine"
    ELSE IF v = "WORKING" THEN "leave"
    ELSE IF v \in Terminal \cup {"PARTIALLY_FILLED"} THEN "adopt"
    ELSE IF v = "UNKNOWN" /\ ~o.ack THEN "redrive"
    ELSE "quarantine"

-----------------------------------------------------------------------------
(* What the steps of a handler are made of.                                *)

\* The handler holds o and makes the call l next.
Goto(h, l, o) ==
    /\ pc' = [pc EXCEPT ![h] = l]
    /\ st' = [st EXCEPT ![h] = o]
    /\ UNCHANGED held

\* The handler returns: its deferred release gives the claim up.
Return(h) ==
    /\ pc' = [pc EXCEPT ![h] = "idle"]
    /\ st' = [st EXCEPT ![h] = NoOrder]
    /\ todo' = [todo EXCEPT ![h] = {}]
    /\ verdict' = [verdict EXCEPT ![h] = "none"]
    /\ held' = [held EXCEPT ![Home[h]] = IF @ = h THEN None ELSE @]

Load(h) == fresh' = fresh \cup {h} /\ UNCHANGED storeVars

\* Mutant of Save: a blind upsert
SaveBlind(h, o) ==
    /\ row' = o
    /\ fresh' = {h}
    /\ UNCHANGED <<claims, announced>>

\* Save: the compare-and-set on the version, without a fill to claim.
Save(h, o) ==
    /\ h \in fresh
    /\ row' = o
    /\ fresh' = {h}
    /\ UNCHANGED <<claims, announced>>

\* Save's ErrConflict: nothing is written.
Conflict(h) == h \notin fresh /\ UNCHANGED <<storeVars, fresh>>

NoStore == UNCHANGED <<storeVars, fresh>>
SameWork == UNCHANGED <<todo, verdict>>
OmsOnly == UNCHANGED <<tries, venueVars>>

\* A Save that the handler's last word depends on: it returns either way.
SaveAndReturn(h, o) == (Save(h, o) \/ Conflict(h)) /\ Return(h) /\ OmsOnly

\* A Save after which the handler goes on at l; a conflict is returned.
SaveThen(h, o, l) ==
    /\ \/ Save(h, o) /\ Goto(h, l, o) /\ SameWork
       \/ Conflict(h) /\ Return(h)
    /\ OmsOnly

-----------------------------------------------------------------------------
Init ==
    /\ row = NoOrder
    /\ claims = {}
    /\ announced = [t \in Trades |-> 0]
    /\ pc = [h \in Handlers |-> "idle"]
    /\ st = [h \in Handlers |-> NoOrder]
    /\ fresh = {}
    /\ todo = [h \in Handlers |-> {}]
    /\ verdict = [h \in Handlers |-> "none"]
    /\ tries = [h \in Commands |-> 0]
    /\ held = [r \in Replicas |-> None]
    /\ view = "none"
    /\ exch = [state |-> "UNKNOWN", qty |-> 0, trades |-> {}]
    /\ placed = 0
    /\ traded = 0
    /\ priced \in Prices

Deliver(h) ==
    /\ pc[h] = "idle"
    /\ tries[h] < MaxDeliver
    /\ tries' = [tries EXCEPT ![h] = @ + 1]

\* The states resume has nothing to do for.
Settled(o) == IF IsTerminal(o) THEN OutcomeAnnounced(o) ELSE o.quar

-----------------------------------------------------------------------------
(* submit: admission.                                                      *)

\* The order is new, or this is a redelivery and resume takes over.
StartSubmit(h) ==
    /\ Deliver(h)
    /\ Load(h)
    /\ IF row.status = "NONE" THEN Goto(h, "create", row) /\ SameWork
       ELSE IF Settled(row) THEN Return(h)
       ELSE Goto(h, "rclaim", row) /\ SameWork
    /\ UNCHANGED venueVars

\* The admission controls refuse the command: no order comes to be.
Refuse(h) ==
    /\ pc[h] = "create"
    /\ Return(h)
    /\ NoStore /\ OmsOnly

\* Create is the admission gate: a second one finds the row and returns nil.
Create(h) ==
    /\ pc[h] = "create"
    /\ IF row.status = "NONE"
       THEN \E q \in Qtys :
              /\ row' = Accept(q)
              /\ fresh' = {h}
              /\ UNCHANGED <<claims, announced>>
              /\ Goto(h, "claim", Accept(q)) /\ SameWork
       ELSE NoStore /\ Return(h)
    /\ OmsOnly

\* claim does not wait: a held claim means somebody drives the order.
TryClaim(h, l) ==
    /\ IF held[Home[h]] = None
       THEN /\ held' = [held EXCEPT ![Home[h]] = h]
            /\ pc' = [pc EXCEPT ![h] = l]
            /\ UNCHANGED <<st, todo, verdict>>
       ELSE Return(h)
    /\ NoStore /\ OmsOnly

\* Mutant of ClaimSubmit: admission works the order without the claim
ClaimSubmitUnlocked(h) ==
    /\ pc[h] = "claim"
    /\ Goto(h, "route", st[h]) /\ SameWork
    /\ NoStore /\ OmsOnly

ClaimSubmit(h) == pc[h] = "claim" /\ TryClaim(h, "route")

-----------------------------------------------------------------------------
(* work: route, place, record the acknowledgement, fold the fills.         *)

\* Mutant of SaveRouted: a lost race does not stop the placement
SaveRoutedRegardless(h) ==
    /\ pc[h] = "route"
    /\ Save(h, Route(st[h])) \/ Conflict(h)
    /\ Goto(h, "dispatch", Route(st[h])) /\ SameWork
    /\ OmsOnly

\* ROUTED is saved before the venue is called.
SaveRouted(h) ==
    /\ pc[h] = "route"
    /\ SaveThen(h, Route(st[h]), "dispatch")

\* The adapter records the order, and refuses one it has seen finished.
Dispatch(h) ==
    /\ pc[h] = "dispatch"
    /\ IF view = "done"
       THEN Return(h) /\ UNCHANGED view
       ELSE view' = "live" /\ Goto(h, "place", st[h]) /\ SameWork
    /\ NoStore /\ UNCHANGED <<tries, exch, placed, traded, priced>>

\* The exchange takes the order; n of its units trade at once.
Accepted(h, n) ==
    /\ placed < MaxPlaced /\ traded + n <= MaxTrade
    /\ exch' = [state |-> IF n = st[h].qty THEN "FILLED" ELSE "OPEN",
                qty |-> st[h].qty,
                trades |-> (traded + 1) .. (traded + n)]
    /\ placed' = placed + 1
    /\ traded' = traded + n

\* The exchange refuses the order and remembers that it did.
Refused(h) ==
    /\ exch' = [state |-> "REJECTED", qty |-> st[h].qty, trades |-> {}]
    /\ UNCHANGED <<placed, traded>>

\* A client order id is taken while its order is open: the connector then
\* asks for the original, and that answer lists no trades.  So does an answer
\* recovered after the reply to the placement was lost.
Place(h) ==
    /\ pc[h] = "place" /\ priced
    /\ \/ /\ exch.state = "OPEN"
          /\ UNCHANGED <<exch, placed, traded, todo>>
       \/ /\ exch.state # "OPEN"
          /\ \E n \in 0 .. st[h].qty, lost \in BOOLEAN :
               /\ Accepted(h, n)
               /\ todo' = [todo EXCEPT ![h] = IF lost THEN {} ELSE exch'.trades]
       \/ /\ exch.state = "UNKNOWN"
          /\ Refused(h)
          /\ UNCHANGED todo
    /\ Goto(h, "ack", st[h])
    /\ NoStore /\ UNCHANGED <<tries, verdict, view, priced>>

\* The venue has no price for the order: admission rejects it for good, and
\* resume returns the error.
Unpriced(h) ==
    /\ pc[h] = "place" /\ ~priced
    /\ IF verdict[h] = "none" THEN Goto(h, "reject", st[h]) /\ SameWork
                              ELSE Return(h)
    /\ NoStore /\ OmsOnly

\* The acknowledgement is recorded before any fill.  After a conflict the
\* handler tries to freeze the order with the version it holds.
SaveAck(h) ==
    /\ pc[h] = "ack"
    /\ LET o == [st[h] EXCEPT !.ack = TRUE]
       IN  \/ Save(h, o) /\ Goto(h, "fold", o)
           \/ Conflict(h) /\ Goto(h, "freeze", st[h])
    /\ SameWork /\ OmsOnly

\* quarantine: freeze the order with the version the handler holds.
Freeze(h) ==
    /\ pc[h] = "freeze"
    /\ SaveAndReturn(h, [st[h] EXCEPT !.quar = TRUE])

\* The trade the handler folds next: the venue lists them in order.
Next1(S) == CHOOSE t \in S : \A u \in S : t <= u

\* Mutant of Fold: the fold is not conditional on the version
FoldBlind(h, t) ==
    /\ row' = ApplyFill(st[h])
    /\ claims' = claims \cup {t}
    /\ announced' = [announced EXCEPT ![t] = @ + 1]
    /\ fresh' = {h}
    /\ Goto(h, pc[h], ApplyFill(st[h]))
    /\ todo' = [todo EXCEPT ![h] = @ \ {t}]
    /\ UNCHANGED verdict

\* Save with a fill: claim it, then the version, in one transaction.
Fold(h, t) ==
    /\ h \in fresh
    /\ row' = ApplyFill(st[h])
    /\ claims' = claims \cup {t}
    /\ announced' = [announced EXCEPT ![t] = @ + 1]
    /\ fresh' = {h}
    /\ Goto(h, pc[h], ApplyFill(st[h]))
    /\ todo' = [todo EXCEPT ![h] =
                  IF IsTerminal(ApplyFill(st[h])) THEN {} ELSE @ \ {t}]
    /\ UNCHANGED verdict

\* One turn of the fold loops of work and adopt.  A fill the order cannot
\* take freezes it; one already folded is skipped; a conflict sends work to
\* quarantine and adopt back to the bus.
FoldTurn(h) ==
    /\ pc[h] \in {"fold", "adopt"} /\ todo[h] # {}
    /\ LET t == Next1(todo[h])
       IN  \/ ~CanFill(st[h]) /\ Goto(h, "freeze", st[h]) /\ SameWork /\ NoStore
           \/ /\ CanFill(st[h]) /\ t \in claims
              /\ todo' = [todo EXCEPT ![h] = @ \ {t}]
              /\ UNCHANGED <<pc, st, verdict, held>> /\ NoStore
           \/ CanFill(st[h]) /\ t \notin claims /\ Fold(h, t)
           \/ /\ CanFill(st[h]) /\ t \notin claims /\ Conflict(h)
              /\ IF pc[h] = "fold" THEN Goto(h, "freeze", st[h]) /\ SameWork
                                   ELSE Return(h)
    /\ OmsOnly

\* work is done.  Admission tells the submitter: a filled order is marked as
\* announced together with its outcome; resume just returns.
WorkDone(h) ==
    /\ pc[h] = "fold" /\ todo[h] = {}
    /\ IF verdict[h] = "none" /\ st[h].status = "FILLED"
       THEN SaveAndReturn(h, [st[h] EXCEPT !.told = TRUE])
       ELSE Return(h) /\ NoStore /\ OmsOnly

\* Admission's rejection of an unpriced order, and resume's adoption of a
\* rejection: the order, the FACT and the outcome in one write.
SaveRejected(h) ==
    /\ pc[h] = "reject"
    /\ SaveAndReturn(h, Reject(st[h]))

-----------------------------------------------------------------------------
(* resume: settle an interrupted order against venue truth.                *)

\* Mutant of StartSweep: an order that has begun to trade is not listed
StartSweepUntraded(h) ==
    /\ pc[h] = "idle"
    /\ row.status \in {"PENDING_NEW", "ROUTED"}
    /\ ~row.quar
    /\ Load(h)
    /\ Goto(h, "rclaim", row) /\ SameWork
    /\ OmsOnly

\* Mutant of StartSweep: an order that was never routed is not listed
StartSweepRouted(h) ==
    /\ pc[h] = "idle"
    /\ row.status \in {"ROUTED", "PARTIALLY_FILLED"}
    /\ ~row.quar
    /\ Load(h)
    /\ Goto(h, "rclaim", row) /\ SameWork
    /\ OmsOnly

\* The sweep lists the orders in flight and leaves the frozen ones alone.
StartSweep(h) ==
    /\ pc[h] = "idle"
    /\ row.status \in {"PENDING_NEW", "ROUTED", "PARTIALLY_FILLED"}
    /\ ~row.quar
    /\ Load(h)
    /\ Goto(h, "rclaim", row) /\ SameWork
    /\ OmsOnly

ClaimResume(h) == pc[h] = "rclaim" /\ TryClaim(h, "rload")

\* Under the claim the order is read again: it may have moved.
Reload(h) ==
    /\ pc[h] = "rload"
    /\ Load(h)
    /\ IF Settled(row) THEN Return(h)
       ELSE /\ Goto(h, IF IsTerminal(row) THEN "complete"
                       ELSE IF row.status = "PENDING_NEW" THEN "route"
                       ELSE "query", row)
            /\ verdict' = [verdict EXCEPT ![h] = "resumed"]
            /\ UNCHANGED todo
    /\ OmsOnly

\* completeTerminalOutcome: the outcome has gone out, mark it.
CompleteOutcome(h) ==
    /\ pc[h] = "complete"
    /\ SaveAndReturn(h, [st[h] EXCEPT !.told = TRUE])

\* The venue answers, or cannot say what became of the order.
QueryOrder(h) ==
    /\ pc[h] = "query"
    /\ \E v \in {Verdict, "INDETERMINATE"} :
         LET action == Reconcile(st[h], v)
             Act(l) ==
               /\ Goto(h, l, st[h])
               /\ verdict' = [verdict EXCEPT ![h] = v]
               /\ todo' = [todo EXCEPT ![h] = IF action = "adopt"
                                              THEN exch.trades ELSE {}]
         IN  \/ action = "leave" /\ st[h].ack /\ Return(h)
             \/ action = "leave" /\ ~st[h].ack /\ Act("stamp")
             \/ action = "redrive" /\ Act("route")
             \/ action = "quarantine" /\ Act("freeze")
             \/ action = "adopt" /\ v = "REJECTED" /\ Act("reject")
             \/ /\ action = "adopt" /\ v # "REJECTED"
                /\ Act(IF st[h].ack THEN "applied" ELSE "stamp")
    /\ NoStore /\ OmsOnly

\* The venue holds the order and the row did not say so.
StampAck(h) ==
    /\ pc[h] = "stamp"
    /\ LET o == [st[h] EXCEPT !.ack = TRUE]
       IN  IF verdict[h] = "WORKING" THEN SaveAndReturn(h, o)
                                     ELSE SaveThen(h, o, "applied")

\* adopt leaves out the fills the order has claimed.
AppliedFills(h) ==
    /\ pc[h] = "applied"
    /\ todo' = [todo EXCEPT ![h] = @ \ claims]
    /\ Goto(h, "adopt", st[h])
    /\ UNCHANGED verdict /\ NoStore /\ OmsOnly

\* Mutant of AdoptDone: the withdrawal is written before the fills it carries
AdoptWithdrawalFirst(h) ==
    /\ pc[h] = "adopt"
    /\ todo[h] = {} \/ verdict[h] \in {"CANCELLED", "EXPIRED"}
    /\ IF verdict[h] \in {"CANCELLED", "EXPIRED"} /\ ~IsTerminal(st[h])
       THEN SaveAndReturn(h, Withdrawn(st[h], verdict[h]))
       ELSE Return(h) /\ NoStore /\ OmsOnly

\* All the venue's fills are in: a withdrawal ends what is left.
AdoptDone(h) ==
    /\ pc[h] = "adopt" /\ todo[h] = {}
    /\ IF verdict[h] \in {"CANCELLED", "EXPIRED"} /\ ~IsTerminal(st[h])
       THEN SaveAndReturn(h, Withdrawn(st[h], verdict[h]))
       ELSE Return(h) /\ NoStore /\ OmsOnly

-----------------------------------------------------------------------------
(* handleCancel and handleAmend.                                           *)

StartWait(h) ==
    /\ Deliver(h)
    /\ Goto(h, "wait", NoOrder)
    /\ SameWork /\ NoStore /\ UNCHANGED venueVars

\* awaitClaim waits for the holder; giving up is a failure of the delivery.
AwaitClaim(h) ==
    /\ pc[h] = "wait"
    /\ held[Home[h]] = None
    /\ held' = [held EXCEPT ![Home[h]] = h]
    /\ pc' = [pc EXCEPT ![h] = IF h \in Cancels THEN "cload" ELSE "aload"]
    /\ UNCHANGED st
    /\ SameWork /\ NoStore /\ OmsOnly

\* Mutant of LoadToCancel: without an acknowledgement the venue is not asked
LoadToCancelUnacked(h) ==
    /\ pc[h] = "cload"
    /\ Load(h)
    /\ IF row.status = "NONE" \/ row.quar \/ IsTerminal(row) THEN Return(h)
       ELSE /\ Goto(h, IF row.ack THEN "close" ELSE "csave", row)
            /\ SameWork
    /\ OmsOnly

\* No order, a frozen one and a finished one are refused.  An order that was
\* never routed is withdrawn without asking the venue.
LoadToCancel(h) ==
    /\ pc[h] = "cload"
    /\ Load(h)
    /\ IF row.status = "NONE" \/ row.quar \/ IsTerminal(row) THEN Return(h)
       ELSE /\ Goto(h, IF NeverSent(row) THEN "csave" ELSE "close", row)
            /\ SameWork
    /\ OmsOnly

\* The exchange withdraws an open order; for any other it answers that it
\* holds no such order, which the connector takes for a withdrawal.
Withdraw == [exch EXCEPT !.state = IF @ = "OPEN" THEN "CANCELLED" ELSE @]

CloseAtVenue(h) ==
    /\ pc[h] = "close"
    /\ exch' = Withdraw
    /\ Goto(h, "record", st[h])
    /\ SameWork /\ NoStore /\ UNCHANGED <<tries, view, placed, traded, priced>>

\* The adapter's recordStatus: a verdict already there is kept.
RecordClosed(h) ==
    /\ pc[h] = "record"
    /\ view' = "done"
    /\ Goto(h, "csave", st[h])
    /\ SameWork /\ NoStore /\ UNCHANGED <<tries, exch, placed, traded, priced>>

SaveCancelled(h) ==
    /\ pc[h] = "csave"
    /\ SaveAndReturn(h, Cancel(st[h]))

\* An order the venue may be working is not amended.
LoadToAmend(h) ==
    /\ pc[h] = "aload"
    /\ Load(h)
    /\ IF \/ row.status = "NONE" \/ row.quar
          \/ IsTerminal(row) \/ VenueMayBeWorking(row)
       THEN Return(h)
       ELSE Goto(h, "asave", row) /\ SameWork
    /\ OmsOnly

\* The amendment is saved, or its own terms or admitAmendment refuse it.
SaveAmended(h) ==
    /\ pc[h] = "asave"
    /\ \/ \E q \in Qtys :
            q >= st[h].filled /\ SaveAndReturn(h, Amend(st[h], q))
       \/ Return(h) /\ NoStore /\ OmsOnly

-----------------------------------------------------------------------------
(* Failures and the venue's own steps.                                     *)

\* A call fails, a deadline passes or the process dies: the handler is gone,
\* and what it committed stays.
Fail(h) ==
    /\ h \in Faulty /\ pc[h] # "idle"
    /\ Return(h)
    /\ NoStore /\ OmsOnly

\* One unit of an open order trades.
Trade ==
    /\ exch.state = "OPEN" /\ traded < MaxTrade
    /\ traded' = traded + 1
    /\ exch' = [exch EXCEPT
                  !.trades = @ \cup {traded + 1},
                  !.state = IF Cardinality(exch.trades) + 1 = exch.qty
                            THEN "FILLED" ELSE @]
    /\ UNCHANGED <<view, placed, priced, storeVars, handlerVars>>

\* The exchange ends an open order: an IOC that found no match.
Lapse ==
    /\ exch.state = "OPEN"
    /\ exch' = [exch EXCEPT !.state = "EXPIRED"]
    /\ UNCHANGED <<view, placed, traded, priced, storeVars, handlerVars>>

\* The user-data stream brings the end of the order into the adapter's view.
Progress ==
    /\ view = "live" /\ exch.state \in Terminal
    /\ view' = "done"
    /\ UNCHANGED <<exch, placed, traded, priced, storeVars, handlerVars>>

-----------------------------------------------------------------------------
Start(h) ==
    \/ h \in Submits /\ StartSubmit(h)
    \/ h \in Cancels \cup Amends /\ StartWait(h)
    \/ h \in Sweeps /\ StartSweep(h)

Work(h) ==
    \/ SaveRouted(h) \/ Dispatch(h) \/ Place(h) \/ Unpriced(h) \/ SaveAck(h)
    \/ FoldTurn(h) \/ WorkDone(h) \/ Freeze(h) \/ SaveRejected(h)

Resume(h) ==
    \/ ClaimResume(h) \/ Reload(h) \/ CompleteOutcome(h) \/ QueryOrder(h)
    \/ StampAck(h) \/ AppliedFills(h) \/ AdoptDone(h)

Step(h) ==
    \/ Refuse(h) \/ Create(h) \/ ClaimSubmit(h)
    \/ Work(h) \/ Resume(h)
    \/ AwaitClaim(h) \/ LoadToCancel(h) \/ CloseAtVenue(h) \/ RecordClosed(h)
    \/ SaveCancelled(h) \/ LoadToAmend(h) \/ SaveAmended(h)

Venue == Trade \/ Lapse \/ Progress

Next ==
    \/ \E h \in Handlers : Start(h) \/ Step(h) \/ Fail(h)
    \/ Venue

Spec == Init /\ [][Next]_vars

\* A handler that runs goes on; the periodic sweep comes round again.
Fairness ==
    /\ \A h \in Handlers : WF_vars(Step(h))
    /\ \A h \in Sweeps : WF_vars(StartSweep(h))

LiveSpec == Spec /\ Fairness

-----------------------------------------------------------------------------
(***************************************************************************)
(* The type of every variable.  A replica's claim is held by one of its    *)
(* own handlers.                                                           *)
(***************************************************************************)
Places == {"idle", "create", "claim", "rclaim", "rload", "complete", "query",
           "stamp", "applied", "adopt", "route", "dispatch", "place", "ack",
           "fold", "freeze", "reject", "wait", "cload", "close", "record",
           "csave", "aload", "asave"}

Verdicts == Terminal \cup {"UNKNOWN", "WORKING", "PARTIALLY_FILLED",
                           "INDETERMINATE", "resumed", "none"}

TypeOK ==
    /\ row \in Order
    /\ claims \subseteq Trades
    /\ announced \in [Trades -> Nat]
    /\ pc \in [Handlers -> Places]
    /\ st \in [Handlers -> Order]
    /\ fresh \subseteq Handlers
    /\ todo \in [Handlers -> SUBSET Trades]
    /\ verdict \in [Handlers -> Verdicts]
    /\ tries \in [Commands -> 0 .. MaxDeliver]
    /\ held \in [Replicas -> Handlers \cup {None}]
    /\ view \in {"none", "live", "done"}
    /\ exch \in [state : Terminal \cup {"UNKNOWN", "OPEN"},
                 qty : Nat, trades : SUBSET Trades]
    /\ placed \in 0 .. MaxPlaced
    /\ traded \in 0 .. MaxTrade
    /\ priced \in BOOLEAN

(***************************************************************************)
(* Save folds a venue trade once (claimFill, #782): the filled quantity is *)
(* the number of claimed trades, each claimed trade has exactly one fill   *)
(* FACT, and no trade is claimed that the exchange did not make, whatever  *)
(* redeliveries, sweeps and two replicas do.                               *)
(***************************************************************************)
FoldedOnce ==
    /\ row.filled = Cardinality(claims)
    /\ \A t \in Trades : announced[t] = IF t \in claims THEN 1 ELSE 0
    /\ \A t \in claims : t <= traded

(***************************************************************************)
(* The aggregate's arithmetic (ApplyFill, Amend): an order is never filled *)
(* past its quantity, and it is FILLED exactly when nothing is left, also  *)
(* when an amendment and a fold race.                                      *)
(***************************************************************************)
LeavesAgree ==
    row.status # "NONE" =>
      /\ row.filled <= row.qty
      /\ row.status = "FILLED" <=> row.filled = row.qty

(***************************************************************************)
(* IsTerminal's promise: an order that has ended keeps its end, its fills  *)
(* and its terms.  A fill that arrives at a cancelled order, or a cancel   *)
(* at a filled one, in either replica, changes nothing.                    *)
(***************************************************************************)
TerminalIsFinal ==
    [][IsTerminal(row) => row' = [row EXCEPT !.told = row'.told]]_vars

(***************************************************************************)
(* quarantine's promise: a frozen order is left to a human.  No sweep,     *)
(* redelivery, cancel, amendment or fold moves it.                         *)
(***************************************************************************)
FrozenStays == [][row.quar => row' = row]_vars

(***************************************************************************)
(* What closeAtVenue says of an order that was never routed ("CAS prevents *)
(* a racing placement"): cancelled without asking the venue, it is not at  *)
(* the exchange and no handler of any replica is on its way to place it.   *)
(***************************************************************************)
CancelBeforeRoute ==
    row.status = "CANCELLED" /\ view = "none" =>
      /\ exch.state = "UNKNOWN"
      /\ \A h \in Handlers : pc[h] \notin {"dispatch", "place"}

(***************************************************************************)
(* venue_ack_at is evidence: Reconcile freezes an acknowledged order that  *)
(* the venue does not know, and may place an unacknowledged one again.  An *)
(* acknowledged order is one the exchange has been given.                  *)
(***************************************************************************)
AckIsTrue == row.ack => exch.state # "UNKNOWN"

(***************************************************************************)
(* handleAmend refuses an order the venue may be working, so the quantity  *)
(* the exchange works is the quantity on the books, also when an amendment *)
(* in one replica races the placement in the other.                        *)
(***************************************************************************)
TermsAtVenue == exch.state # "UNKNOWN" => exch.qty = row.qty

(***************************************************************************)
(* The claim makes admission, redelivery and sweep of one process drive an *)
(* order one at a time, and Reconcile places again only what the venue     *)
(* never had: the fund does not trade an order twice.                      *)
(***************************************************************************)
OnePlacement == placed <= 1

(***************************************************************************)
(* closeAtVenue comes before the cancellation is written, "so the ledger   *)
(* never calls an order cancelled while it is still resting on the         *)
(* exchange" (service.go).                                                 *)
(***************************************************************************)
CancelledIsClosed == row.status = "CANCELLED" => exch.state # "OPEN"

(***************************************************************************)
(* adoptWithdrawal writes the end of an order after the trades the venue   *)
(* made before it: an expired order has every trade of the exchange.       *)
(***************************************************************************)
ExpiredIsComplete == row.status = "EXPIRED" => exch.trades \subseteq claims

(***************************************************************************)
(* The sweep's promise: an admitted order whose delivery was interrupted   *)
(* does not stay in doubt.  In the end it is known to be at the venue, has *)
(* ended, or is frozen for a human.                                        *)
(***************************************************************************)
InDoubt ==
    row.status \in {"PENDING_NEW", "ROUTED"} /\ ~row.ack /\ ~row.quar
Settles == InDoubt ~> ~InDoubt

(***************************************************************************)
(* Every trade of the exchange gets into the books, or the order is        *)
(* frozen: a lost reply and a crash between two folds are made up for by   *)
(* the sweep.  A cancel writes no fills, so the trades of an order that is *)
(* cancelled first are left to the recovery of missed executions.          *)
(***************************************************************************)
TradesAreFolded ==
    \A t \in Trades :
      (t \in exch.trades) ~> (t \in claims \/ row.quar \/ row.status = "CANCELLED")
=============================================================================
