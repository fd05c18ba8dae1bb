----------------------------- MODULE OrderProof -----------------------------
(***************************************************************************)
(* Proofs about OrderLifecycle, for any handlers, replicas, quantities and *)
(* bounds.                                                                 *)
(*                                                                         *)
(* None of the properties is inductive.  What carries them is that a       *)
(* handler whose version is current holds the row itself (Snapshot): a     *)
(* Save that succeeds therefore starts from the row, and the guards the    *)
(* handler evaluated on its copy held of the row.  HandlerInv, StoreInv    *)
(* and VenueInv add what a handler's place says about its copy and about   *)
(* the venue.                                                              *)
(***************************************************************************)
EXTENDS OrderLifecycle, TLAPS

\* The places at which a handler holds an order it may yet write.
Live == {"claim", "route", "dispatch", "place", "ack", "fold", "freeze",
         "reject", "query", "stamp", "applied", "adopt", "close", "record",
         "csave", "asave"}

\* The statuses of an order that ROUTED was never saved for.
Unsent == {"NONE", "PENDING_NEW"}

Snapshot(h) == h \in fresh /\ pc[h] \in Live \cup {"complete"} => st[h] = row

HoldsOpen(h) ==
    pc[h] \in Live =>
      /\ st[h].status # "NONE"
      /\ ~st[h].quar
      /\ IsTerminal(st[h]) => pc[h] \in {"fold", "adopt"} /\ todo[h] = {}

HandlerInv(h) ==
    /\ Snapshot(h)
    /\ HoldsOpen(h)
    /\ pc[h] = "complete" => IsTerminal(st[h])
    /\ \A t \in todo[h] : t <= traded
    /\ st[h].ack => exch.state # "UNKNOWN"
    /\ pc[h] \in {"ack", "stamp", "applied", "adopt"} => exch.state # "UNKNOWN"
    /\ pc[h] \in {"dispatch", "place"} =>
         row.status \notin Unsent /\ st[h].qty = row.qty
    /\ pc[h] = "place" => view # "none"
    /\ pc[h] = "csave" /\ view = "none" => NeverSent(st[h])
    /\ pc[h] \in {"claim", "asave"} => st[h].status = "PENDING_NEW"
    /\ pc[h] \in {"rclaim", "rload"} => row.status # "NONE"

\* What every order on the books satisfies.
Sound(o) ==
    /\ o.status # "NONE"
    /\ o.qty > 0
    /\ o.quar => ~IsTerminal(o)
    /\ o.status = "PENDING_NEW" => o.filled = 0
    /\ o.filled <= o.qty
    /\ o.status = "FILLED" <=> o.filled = o.qty

StoreInv == (row = NoOrder \/ Sound(row)) /\ FoldedOnce

VenueInv ==
    /\ \A t \in exch.trades : t <= traded
    /\ exch.state # "UNKNOWN" =>
         view # "none" /\ row.status \notin Unsent /\ exch.qty = row.qty
    /\ AckIsTrue
    /\ CancelBeforeRoute

IInv ==
    /\ TypeOK
    /\ StoreInv
    /\ VenueInv
    /\ \A h \in Handlers : HandlerInv(h)

-----------------------------------------------------------------------------
(* The aggregate's transitions keep the shape of an order.                 *)

(***************************************************************************)
(* Every transition of aggregate.go and every marker the service stamps    *)
(* yields an order again.                                                  *)
(***************************************************************************)
LEMMA OrderOps ==
    /\ NoOrder \in Order
    /\ \A q \in Nat : Accept(q) \in Order
    /\ \A o \in Order :
         /\ Route(o) \in Order
         /\ ApplyFill(o) \in Order
         /\ Cancel(o) \in Order
         /\ Reject(o) \in Order
         /\ \A q \in Nat : Amend(o, q) \in Order
         /\ \A v \in {"CANCELLED", "EXPIRED"} : Withdrawn(o, v) \in Order
         /\ [o EXCEPT !.ack = TRUE] \in Order
         /\ [o EXCEPT !.quar = TRUE] \in Order
         /\ [o EXCEPT !.told = TRUE] \in Order
<1>1. NoOrder \in Order /\ \A q \in Nat : Accept(q) \in Order
  BY Zenon DEF NoOrder, Accept, Order, Statuses
<1>2. ASSUME NEW o \in Order
      PROVE  /\ Route(o) \in Order
             /\ ApplyFill(o) \in Order
             /\ Cancel(o) \in Order
             /\ Reject(o) \in Order
             /\ \A q \in Nat : Amend(o, q) \in Order
             /\ \A v \in {"CANCELLED", "EXPIRED"} : Withdrawn(o, v) \in Order
             /\ [o EXCEPT !.ack = TRUE] \in Order
             /\ [o EXCEPT !.quar = TRUE] \in Order
             /\ [o EXCEPT !.told = TRUE] \in Order
  <2>1. ApplyFill(o) \in Order
    <3>1. o.filled + 1 \in Nat
      BY DEF Order
    <3>2. (IF o.filled + 1 = o.qty THEN "FILLED" ELSE "PARTIALLY_FILLED")
            \in Statuses
      BY Zenon DEF Statuses, Terminal
    <3> QED BY Zenon, <3>1, <3>2 DEF ApplyFill, Order
  <2>2. /\ Route(o) \in Order /\ Cancel(o) \in Order /\ Reject(o) \in Order
        /\ \A q \in Nat : Amend(o, q) \in Order
    BY Zenon, <1>2 DEF Route, Cancel, Reject, Amend, Order, Statuses, Terminal
  <2>3. \A v \in {"CANCELLED", "EXPIRED"} : Withdrawn(o, v) \in Order
    BY Zenon, <1>2 DEF Withdrawn, Order, Statuses, Terminal
  <2>4. /\ [o EXCEPT !.ack = TRUE] \in Order
        /\ [o EXCEPT !.quar = TRUE] \in Order
        /\ [o EXCEPT !.told = TRUE] \in Order
    BY Zenon, <1>2 DEF Order
  <2> QED BY Zenon, <2>1, <2>2, <2>3, <2>4
<1> QED BY Zenon, <1>1, <1>2

\* What a handler's step may do to the variables of handlers and store.
HandlerType ==
    /\ pc \in [Handlers -> Places]
    /\ st \in [Handlers -> Order]
    /\ todo \in [Handlers -> SUBSET Trades]
    /\ verdict \in [Handlers -> Verdicts]
    /\ held \in [Replicas -> Handlers \cup {None}]

StoreType ==
    /\ row \in Order
    /\ claims \subseteq Trades
    /\ announced \in [Trades -> Nat]
    /\ fresh \subseteq Handlers

VenueType ==
    /\ tries \in [Commands -> 0 .. MaxDeliver]
    /\ view \in {"none", "live", "done"}
    /\ exch \in [state : Terminal \cup {"UNKNOWN", "OPEN"},
                 qty : Nat, trades : SUBSET Trades]
    /\ placed \in 0 .. MaxPlaced
    /\ traded \in 0 .. MaxTrade
    /\ priced \in BOOLEAN

\* TypeOK is the conjunction of the types of handlers, store and venue.
LEMMA TypeParts ==
    /\ TypeOK <=> HandlerType /\ StoreType /\ VenueType
    /\ TypeOK' <=> HandlerType' /\ StoreType' /\ VenueType'
BY Zenon DEF TypeOK, HandlerType, StoreType, VenueType

(***************************************************************************)
(* What most steps use of the invariant: the types of the store and the    *)
(* exchange, and that the order on the books, once created, is sound.      *)
(***************************************************************************)
LEMMA Facts ==
    ASSUME IInv
    PROVE  /\ HandlerType /\ StoreType /\ VenueType
           /\ row \in Order /\ traded \in Nat
           /\ row.status = "NONE" => row = NoOrder
           /\ row.status # "NONE" => Sound(row)
<1>1. HandlerType /\ StoreType /\ VenueType BY Zenon, TypeParts DEF IInv
<1>2. row \in Order /\ traded \in Nat
  BY <1>1, BoundsAssumption DEF StoreType, VenueType
<1>3. row = NoOrder \/ Sound(row) BY Zenon DEF IInv, StoreInv
<1>4. Sound(row) => row.status # "NONE" BY Zenon DEF Sound
<1>5. NoOrder.status = "NONE" BY Zenon DEF NoOrder
<1> QED BY <1>1, <1>2, <1>3, <1>4, <1>5

\* What the order's proofs use of the trades being finitely many: a nonempty
\* set of trades has a first one, and a new trade makes a set larger by one.
\* FiniteTradesHold proves it, where the facts about finite sets are at hand.
FiniteTrades ==
    /\ Cardinality({}) = 0
    /\ \A S \in SUBSET Trades : S # {} => Next1(S) \in S
    /\ \A S \in SUBSET Trades : \A t \in Trades \ S : Cardinality(S \cup {t}) = Cardinality(S) + 1

\* Every step keeps every type.
LEMMA TypeStep ==
    ASSUME FiniteTrades, TypeOK, [Next]_vars
    PROVE  TypeOK'
\* A handler that goes on keeps the handlers' types.
<1>GotoType.
      ASSUME HandlerType, NEW h \in Handlers, NEW l \in Places, NEW o \in Order,
             Goto(h, l, o), UNCHANGED <<todo, verdict>>
      PROVE  HandlerType'
  BY Zenon, <1>GotoType DEF HandlerType, Goto
\* A handler that returns keeps the handlers' types.
<1>ReturnType.
      ASSUME HandlerType, NEW h \in Handlers, Return(h)
      PROVE  HandlerType'
  <2> USE <1>ReturnType
  <2>1. pc' \in [Handlers -> Places] BY Zenon DEF HandlerType, Return, Places
  <2>2. st' \in [Handlers -> Order] BY Zenon, OrderOps DEF HandlerType, Return
  <2>3. todo' \in [Handlers -> SUBSET Trades] BY Zenon DEF HandlerType, Return
  <2>4. verdict' \in [Handlers -> Verdicts] BY Zenon DEF HandlerType, Return, Verdicts
  <2>5. held' \in [Replicas -> Handlers \cup {None}]
    BY Zenon, HomeAssumption DEF HandlerType, Return
  <2> QED BY Zenon, <2>1, <2>2, <2>3, <2>4, <2>5 DEF HandlerType
\* Load keeps the store's types.
<1>LoadType.
      ASSUME StoreType, NEW h \in Handlers, Load(h)
      PROVE  StoreType'
  BY Zenon, <1>LoadType DEF StoreType, Load, storeVars
\* Save, won or lost to ErrConflict, keeps the store's types.
<1>SaveType.
      ASSUME StoreType, NEW h \in Handlers, NEW o \in Order,
             Save(h, o) \/ Conflict(h)
      PROVE  StoreType'
  BY Zenon, <1>SaveType DEF StoreType, Save, Conflict, storeVars
\* A step that leaves the store alone keeps its types.
<1>NoStoreType. ASSUME StoreType, NoStore PROVE StoreType'
  BY Zenon, <1>NoStoreType DEF StoreType, NoStore, storeVars
\* A step of the OMS alone keeps the venue's types.
<1>OmsOnlyType. ASSUME VenueType, OmsOnly PROVE VenueType'
  BY Zenon, <1>OmsOnlyType DEF VenueType, OmsOnly, venueVars
\* A handler whose last call is a Save keeps every type.
<1>SaveAndReturnType.
      ASSUME TypeOK, NEW h \in Handlers, NEW o \in Order, SaveAndReturn(h, o)
      PROVE  TypeOK'
  BY Zenon, <1>SaveAndReturnType, TypeParts, <1>ReturnType, <1>SaveType, <1>OmsOnlyType
     DEF SaveAndReturn
\* A handler that saves and goes on keeps every type.
<1>SaveThenType.
      ASSUME TypeOK, NEW h \in Handlers, NEW o \in Order, NEW l \in Places,
             SaveThen(h, o, l)
      PROVE  TypeOK'
  BY Zenon, <1>SaveThenType, TypeParts, <1>ReturnType, <1>GotoType, <1>SaveType, <1>OmsOnlyType
     DEF SaveThen, SameWork
\* A delivery counts its attempt within MaxDeliver.
<1>DeliverType.
      ASSUME VenueType, NEW h \in Commands, Deliver(h), UNCHANGED venueVars
      PROVE  VenueType'
  BY <1>DeliverType, BoundsAssumption DEF VenueType, Deliver, venueVars
\* What QueryOrder answers is a verdict (reconcile.go).
<1>VerdictType. ASSUME VenueType PROVE Verdict \in Verdicts
  BY Zenon, <1>VerdictType DEF VenueType, Verdict, Verdicts
\* An exchange that accepts a placement, trading some of it at once, keeps
\* its types and its bounds.
<1>AcceptedType.
      ASSUME TypeOK, NEW h \in Handlers, NEW n \in 0 .. st[h].qty, Accepted(h, n)
      PROVE  /\ exch' \in [state : Terminal \cup {"UNKNOWN", "OPEN"},
                           qty : Nat, trades : SUBSET Trades]
             /\ exch'.trades \in SUBSET Trades
             /\ placed' \in 0 .. MaxPlaced
             /\ traded' \in 0 .. MaxTrade
  <2> USE <1>AcceptedType
  <2>1. st[h].qty \in Nat /\ n \in Nat /\ traded \in Nat
    BY DEF TypeOK, Order
  <2>2. (traded + 1) .. (traded + n) \in SUBSET Trades
    BY <2>1, BoundsAssumption DEF Accepted, Trades
  <2>3. placed' \in 0 .. MaxPlaced /\ traded' \in 0 .. MaxTrade
    BY <2>1, BoundsAssumption DEF Accepted, TypeOK
  <2>4. (IF n = st[h].qty THEN "FILLED" ELSE "OPEN")
          \in Terminal \cup {"UNKNOWN", "OPEN"}
    BY Zenon DEF Terminal
  <2> QED BY Zenon, <2>1, <2>2, <2>3, <2>4 DEF Accepted
\* Place keeps every type.
<1>PlaceType.
      ASSUME TypeOK, NEW h \in Handlers, Place(h)
      PROVE  TypeOK'
  <2> USE <1>PlaceType
  <2>1. HandlerType /\ StoreType /\ VenueType BY Zenon, TypeParts
  <2>2. StoreType' BY Zenon, <2>1, <1>NoStoreType DEF Place
  <2>3. /\ pc' \in [Handlers -> Places] /\ st' \in [Handlers -> Order]
        /\ verdict' \in [Handlers -> Verdicts]
        /\ held' \in [Replicas -> Handlers \cup {None}]
    BY Zenon, <2>1 DEF Place, HandlerType, Goto, Places
  <2> DEFINE Placed ==
        /\ todo' \in [Handlers -> SUBSET Trades]
        /\ exch' \in [state : Terminal \cup {"UNKNOWN", "OPEN"},
                      qty : Nat, trades : SUBSET Trades]
        /\ placed' \in 0 .. MaxPlaced
        /\ traded' \in 0 .. MaxTrade
  <2>4. Placed
    <3>1. ASSUME UNCHANGED <<exch, placed, traded, todo>> PROVE Placed
      BY Zenon, <3>1, <2>1 DEF HandlerType, VenueType
    <3>2. ASSUME NEW n \in 0 .. st[h].qty, NEW lost \in BOOLEAN, Accepted(h, n),
                 todo' = [todo EXCEPT ![h] = IF lost THEN {} ELSE exch'.trades]
          PROVE  Placed
      <4>1. exch'.trades \in SUBSET Trades BY Zenon, <3>2, <1>AcceptedType
      <4>2. todo' \in [Handlers -> SUBSET Trades]
        BY Zenon, <4>1, <3>2, <2>1 DEF HandlerType
      <4> QED BY Zenon, <4>2, <3>2, <1>AcceptedType
    <3>3. ASSUME Refused(h) /\ UNCHANGED todo PROVE Placed
      <4>1. st[h].qty \in Nat BY Zenon, <2>1 DEF HandlerType, Order
      <4> QED BY Zenon, <4>1, <3>3, <2>1 DEF Refused, HandlerType, VenueType, Terminal
    <3> HIDE DEF Placed
    <3> QED BY Zenon, <3>1, <3>2, <3>3 DEF Place
  <2>5. VenueType' BY Zenon, <2>4, <2>1 DEF Place, VenueType
  <2> QED BY Zenon, <2>2, <2>3, <2>4, <2>5, TypeParts DEF HandlerType
\* One turn of the fold over the venue's fills keeps every type.
<1>FoldTurnType.
      ASSUME FiniteTrades, TypeOK, NEW h \in Handlers, FoldTurn(h)
      PROVE  TypeOK'
  <2> USE <1>FoldTurnType
  <2> DEFINE t == Next1(todo[h])
  <2>1. HandlerType /\ StoreType /\ VenueType BY Zenon, TypeParts
  <2>2. VenueType' BY Zenon, <2>1, <1>OmsOnlyType DEF FoldTurn
  <2>3. st[h] \in Order /\ "freeze" \in Places /\ pc[h] \in Places
    BY Zenon, <2>1 DEF HandlerType, Places
  <2>4. ASSUME Goto(h, "freeze", st[h]), SameWork, NoStore \/ Conflict(h)
        PROVE  HandlerType' /\ StoreType'
    BY Zenon, <2>4, <2>1, <2>3, <1>GotoType, <1>NoStoreType DEF SameWork, Conflict, NoStore
  <2>5. ASSUME todo' = [todo EXCEPT ![h] = @ \ {t}],
               UNCHANGED <<pc, st, verdict, held>>, NoStore
        PROVE  HandlerType' /\ StoreType'
    BY Zenon, <2>5, <2>1, <1>NoStoreType DEF HandlerType
  <2>6. ASSUME Fold(h, t), t \notin claims PROVE HandlerType' /\ StoreType'
    <3>1. ApplyFill(st[h]) \in Order BY Zenon, <2>3, OrderOps
    <3>2. HandlerType' BY Zenon, <3>1, <2>1, <2>3, <2>6 DEF Fold, HandlerType, Goto
    <3>3. claims' \subseteq Trades /\ t \in Trades
      <4>1. todo[h] \in SUBSET Trades /\ todo[h] # {}
        BY Zenon, <2>1 DEF HandlerType, FoldTurn
      <4> QED BY Zenon, <4>1, <2>1, <2>6 DEF Fold, StoreType, FiniteTrades
    <3>4. StoreType' BY <3>1, <3>3, <2>1, <2>6 DEF Fold, StoreType
    <3> QED BY Zenon, <3>2, <3>4
  <2>7. ASSUME Conflict(h), Return(h) PROVE HandlerType' /\ StoreType'
    BY Zenon, <2>7, <2>1, <1>ReturnType, <1>NoStoreType DEF Conflict, NoStore
  <2>8. HandlerType' /\ StoreType'
    BY Zenon, <2>4, <2>5, <2>6, <2>7 DEF FoldTurn
  <2> QED BY Zenon, <2>2, <2>8, TypeParts
\* QueryOrder keeps every type.
<1>QueryOrderType.
      ASSUME TypeOK, NEW h \in Handlers, QueryOrder(h)
      PROVE  TypeOK'
  <2> USE <1>QueryOrderType
  <2>1. HandlerType /\ StoreType /\ VenueType BY Zenon, TypeParts
  <2>2. VenueType' /\ StoreType'
    BY Zenon, <2>1, <1>OmsOnlyType, <1>NoStoreType DEF QueryOrder
  <2>3. st[h] \in Order /\ exch.trades \in SUBSET Trades
    BY Zenon, <2>1 DEF HandlerType, VenueType
  <2>4. HandlerType'
    <3>1. ASSUME Return(h) PROVE HandlerType' BY Zenon, <3>1, <2>1, <1>ReturnType
    <3>2. ASSUME NEW v \in Verdicts, NEW l \in Places, NEW T \in SUBSET Trades,
                 Goto(h, l, st[h]),
                 verdict' = [verdict EXCEPT ![h] = v],
                 todo' = [todo EXCEPT ![h] = T]
          PROVE  HandlerType'
      BY Zenon, <3>2, <2>1, <2>3 DEF HandlerType, Goto
    <3>3. "INDETERMINATE" \in Verdicts /\ Verdict \in Verdicts
      BY Zenon, <2>1, <1>VerdictType DEF Verdicts
    <3>4. {"stamp", "route", "freeze", "reject", "applied"} \subseteq Places
      BY Zenon DEF Places
    <3>5. \A b : (IF b THEN exch.trades ELSE {}) \in SUBSET Trades
      BY Zenon, <2>3
    <3> QED BY <3>1, <3>2, <3>3, <3>4, <3>5 DEF QueryOrder
  <2> QED BY Zenon, <2>2, <2>4, TypeParts
\* A non-blocking claim, won or lost, keeps every type.
<1>TryClaimType.
      ASSUME TypeOK, NEW h \in Handlers, NEW l \in Places, TryClaim(h, l)
      PROVE  TypeOK'
  <2> USE <1>TryClaimType
  <2>1. HandlerType /\ StoreType /\ VenueType BY Zenon, TypeParts
  <2>2. StoreType' /\ VenueType' BY Zenon, <2>1, <1>OmsOnlyType, <1>NoStoreType DEF TryClaim
  <2>3. HandlerType'
    <3>1. CASE held[Home[h]] = None
      BY Zenon, <3>1, <2>1, HomeAssumption DEF TryClaim, HandlerType
    <3>2. CASE held[Home[h]] # None
      BY Zenon, <3>2, <2>1, <1>ReturnType DEF TryClaim
    <3> QED BY Zenon, <3>1, <3>2
  <2> QED BY Zenon, <2>2, <2>3, TypeParts
\* A step of the exchange keeps every type.
<1>VenueStepType. ASSUME TypeOK, Venue PROVE TypeOK'
  <2> USE <1>VenueStepType
  <2>1. HandlerType /\ StoreType /\ VenueType BY Zenon, TypeParts
  <2>2. HandlerType' /\ StoreType'
    BY Zenon, <2>1 DEF Venue, Trade, Lapse, Progress, storeVars, handlerVars,
                HandlerType, StoreType
  <2>3. UNCHANGED tries
    BY Zenon DEF Venue, Trade, Lapse, Progress, handlerVars
  <2>4. CASE Trade
    <3>1. traded + 1 \in Trades /\ traded' \in 0 .. MaxTrade
      BY <2>1, <2>4, BoundsAssumption DEF Trade, VenueType, Trades
    <3>2. exch.trades \cup {traded + 1} \in SUBSET Trades
      BY Zenon, <3>1, <2>1 DEF VenueType
    <3>3. (IF Cardinality(exch.trades) + 1 = exch.qty THEN "FILLED" ELSE exch.state)
            \in Terminal \cup {"UNKNOWN", "OPEN"}
      BY Zenon, <2>1 DEF VenueType, Terminal
    <3>4. exch' \in [state : Terminal \cup {"UNKNOWN", "OPEN"},
                     qty : Nat, trades : SUBSET Trades]
      BY Zenon, <3>2, <3>3, <2>1, <2>4 DEF Trade, VenueType
    <3> QED BY Zenon, <3>1, <3>4, <2>1, <2>2, <2>3, <2>4, TypeParts DEF Trade, VenueType
  <2>5. CASE Lapse
    BY Zenon, <2>1, <2>2, <2>3, <2>5, TypeParts DEF Lapse, VenueType, Terminal
  <2>6. CASE Progress
    BY Zenon, <2>1, <2>2, <2>3, <2>6, TypeParts DEF Progress, VenueType
  <2> QED BY Zenon, <2>4, <2>5, <2>6 DEF Venue
\* A delivery or a sweep that starts keeps every type.
<1>StartType.
      ASSUME TypeOK, NEW h \in Handlers, Start(h)
      PROVE  TypeOK'
  <2> USE <1>StartType
  <2>1. HandlerType /\ StoreType /\ VenueType BY Zenon, TypeParts
  <2>2. row \in Order /\ {"create", "rclaim", "wait"} \subseteq Places
    BY Zenon, <2>1 DEF StoreType, Places
  <2>3. ASSUME h \in Submits, StartSubmit(h) PROVE TypeOK'
    <3>1. VenueType' /\ StoreType'
      BY Zenon, <2>1, <2>3, <1>DeliverType, <1>LoadType DEF StartSubmit, Commands
    <3>2. HandlerType'
      BY Zenon, <2>1, <2>2, <2>3, <1>GotoType, <1>ReturnType DEF StartSubmit, SameWork
    <3> QED BY Zenon, <3>1, <3>2, TypeParts
  <2>4. ASSUME h \in Cancels \cup Amends, StartWait(h) PROVE TypeOK'
    <3>1. VenueType' /\ StoreType'
      BY Zenon, <2>1, <2>4, <1>DeliverType, <1>NoStoreType DEF StartWait, Commands
    <3>2. HandlerType'
      BY Zenon, <2>1, <2>2, <2>4, <1>GotoType, OrderOps DEF StartWait, SameWork
    <3> QED BY Zenon, <3>1, <3>2, TypeParts
  <2>5. ASSUME StartSweep(h) PROVE TypeOK'
    BY Zenon, <2>1, <2>2, <2>5, <1>LoadType, <1>GotoType, <1>OmsOnlyType, TypeParts
       DEF StartSweep, SameWork
  <2> QED BY Zenon, <2>3, <2>4, <2>5 DEF Start
<1>1. HandlerType /\ StoreType /\ VenueType BY Zenon, TypeParts
<1>2. ASSUME NEW h \in Handlers, Step(h) \/ Fail(h) PROVE TypeOK'
  <2>0. /\ st[h] \in Order /\ row \in Order
        /\ Places = {"idle", "create", "claim", "rclaim", "rload", "complete",
             "query", "stamp", "applied", "adopt", "route", "dispatch",
             "place", "ack", "fold", "freeze", "reject", "wait", "cload",
             "close", "record", "csave", "aload", "asave"}
    BY Zenon, <1>1 DEF HandlerType, StoreType, Places
  <2>1. ASSUME Return(h), NoStore, OmsOnly PROVE TypeOK'
    BY Zenon, <2>1, <1>1, <1>ReturnType, <1>NoStoreType, <1>OmsOnlyType, TypeParts
  <2>2. ASSUME NEW l \in Places, NEW o \in Order, Goto(h, l, o), SameWork,
               NoStore \/ Load(h), OmsOnly
        PROVE  TypeOK'
    BY Zenon, <2>2, <1>1, <1>GotoType, <1>NoStoreType, <1>LoadType, <1>OmsOnlyType, TypeParts
       DEF SameWork
  <2>3. ASSUME Return(h), Load(h), OmsOnly PROVE TypeOK'
    BY Zenon, <2>3, <1>1, <1>ReturnType, <1>LoadType, <1>OmsOnlyType, TypeParts
  <2>4. CASE Refuse(h) \/ Fail(h)
    BY Zenon, <2>4, <2>1 DEF Refuse, Fail
  <2>5. CASE Create(h)
    <3>1. ASSUME NEW q \in Qtys, row' = Accept(q), fresh' = {h},
                 UNCHANGED <<claims, announced>>,
                 Goto(h, "claim", Accept(q)), SameWork, OmsOnly
          PROVE  TypeOK'
      <4>1. Accept(q) \in Order BY Zenon, QtysAssumption, OrderOps
      <4>2. HandlerType' BY Zenon, <4>1, <3>1, <2>0, <1>1, <1>GotoType DEF SameWork
      <4>3. StoreType' BY Zenon, <4>1, <3>1, <1>1 DEF StoreType
      <4> QED BY Zenon, <4>2, <4>3, <3>1, <1>1, <1>OmsOnlyType, TypeParts
    <3> QED BY Zenon, <3>1, <2>1, <2>5 DEF Create
  <2>6. CASE ClaimSubmit(h) \/ ClaimResume(h)
    BY Zenon, <2>6, <2>0, <1>TryClaimType DEF ClaimSubmit, ClaimResume
  <2>7. CASE SaveRouted(h)
    BY Zenon, <2>7, <2>0, OrderOps, <1>SaveThenType DEF SaveRouted
  <2>8. CASE Dispatch(h)
    <3>1. StoreType' BY Zenon, <2>8, <1>1, <1>NoStoreType DEF Dispatch
    <3>2. HandlerType' BY Zenon, <2>8, <2>0, <1>1, <1>ReturnType, <1>GotoType
                       DEF Dispatch, SameWork
    <3>3. VenueType' BY Zenon, <2>8, <1>1 DEF Dispatch, VenueType
    <3> QED BY Zenon, <3>1, <3>2, <3>3, TypeParts
  <2>9. CASE Place(h) BY Zenon, <2>9, <1>PlaceType
  <2>10. CASE Unpriced(h) BY Zenon, <2>10, <2>0, <2>1, <2>2 DEF Unpriced
  <2>11. CASE SaveAck(h)
    <3>1. [st[h] EXCEPT !.ack = TRUE] \in Order BY Zenon, <2>0, OrderOps
    <3>2. StoreType' BY Zenon, <3>1, <2>11, <1>1, <1>SaveType DEF SaveAck
    <3>3. HandlerType' BY Zenon, <3>1, <2>11, <2>0, <1>1, <1>GotoType DEF SaveAck, SameWork
    <3> QED BY Zenon, <3>2, <3>3, <2>11, <1>1, <1>OmsOnlyType, TypeParts DEF SaveAck
  <2>12. CASE FoldTurn(h) BY Zenon, <2>12, <1>FoldTurnType
  <2>13. CASE WorkDone(h)
    BY Zenon, <2>13, <2>0, <2>1, OrderOps, <1>SaveAndReturnType DEF WorkDone
  <2>14. CASE Freeze(h) \/ SaveRejected(h) \/ CompleteOutcome(h)
              \/ SaveCancelled(h)
    BY Zenon, <2>14, <2>0, OrderOps, <1>SaveAndReturnType
       DEF Freeze, SaveRejected, CompleteOutcome, SaveCancelled
  <2>15. CASE Reload(h)
    <3>1. ASSUME NEW l \in Places, Goto(h, l, row),
                 verdict' = [verdict EXCEPT ![h] = "resumed"], UNCHANGED todo
          PROVE  HandlerType'
      BY Zenon, <3>1, <2>0, <1>1 DEF HandlerType, Goto, Verdicts
    <3>2. (IF IsTerminal(row) THEN "complete"
           ELSE IF row.status = "PENDING_NEW" THEN "route" ELSE "query") \in Places
      BY Zenon, <2>0
    <3>3. HandlerType' BY Zenon, <3>1, <3>2, <2>15, <1>1, <1>ReturnType DEF Reload
    <3> QED BY Zenon, <3>3, <2>15, <1>1, <1>LoadType, <1>OmsOnlyType, TypeParts DEF Reload
  <2>16. CASE QueryOrder(h) BY Zenon, <2>16, <1>QueryOrderType
  <2>17. CASE StampAck(h)
    BY Zenon, <2>17, <2>0, OrderOps, <1>SaveAndReturnType, <1>SaveThenType DEF StampAck
  <2>18. CASE AppliedFills(h)
    <3>1. HandlerType' BY Zenon, <2>18, <2>0, <1>1 DEF AppliedFills, HandlerType, Goto
    <3> QED BY Zenon, <3>1, <2>18, <1>1, <1>NoStoreType, <1>OmsOnlyType, TypeParts
            DEF AppliedFills
  <2>19. CASE AdoptDone(h)
    BY Zenon, <2>19, <2>0, <2>1, OrderOps, <1>SaveAndReturnType DEF AdoptDone
  <2>20. CASE AwaitClaim(h)
    <3>1. HandlerType'
      BY Zenon, <2>20, <2>0, <1>1, HomeAssumption DEF AwaitClaim, HandlerType, SameWork
    <3> QED BY Zenon, <3>1, <2>20, <1>1, <1>NoStoreType, <1>OmsOnlyType, TypeParts
            DEF AwaitClaim
  <2>21. CASE LoadToCancel(h) \/ LoadToAmend(h)
    BY Zenon, <2>21, <2>0, <2>2, <2>3 DEF LoadToCancel, LoadToAmend
  <2>22. CASE CloseAtVenue(h)
    <3>1. StoreType' /\ HandlerType'
      BY Zenon, <2>22, <2>0, <1>1, <1>NoStoreType, <1>GotoType DEF CloseAtVenue, SameWork
    <3>2. VenueType'
      BY Zenon, <2>22, <1>1 DEF CloseAtVenue, Withdraw, VenueType, Terminal
    <3> QED BY Zenon, <3>1, <3>2, TypeParts
  <2>23. CASE RecordClosed(h)
    <3>1. StoreType' /\ HandlerType'
      BY Zenon, <2>23, <2>0, <1>1, <1>NoStoreType, <1>GotoType DEF RecordClosed, SameWork
    <3>2. VenueType' BY Zenon, <2>23, <1>1 DEF RecordClosed, VenueType
    <3> QED BY Zenon, <3>1, <3>2, TypeParts
  <2>24. CASE SaveAmended(h)
    <3>1. \A q \in Qtys : Amend(st[h], q) \in Order
      BY Zenon, <2>0, QtysAssumption, OrderOps
    <3> QED BY Zenon, <3>1, <2>24, <2>1, <1>SaveAndReturnType DEF SaveAmended
  <2> QED BY Zenon, <1>2, <2>4, <2>5, <2>6, <2>7, <2>8, <2>9, <2>10, <2>11, <2>12,
             <2>13, <2>14, <2>15, <2>16, <2>17, <2>18, <2>19, <2>20, <2>21,
             <2>22, <2>23, <2>24 DEF Step, Work, Resume
<1>3. CASE UNCHANGED vars
  BY Zenon, <1>3 DEF TypeOK, vars, storeVars, handlerVars, venueVars
<1> QED BY Zenon, <1>2, <1>3, <1>StartType, <1>VenueStepType DEF Next

-----------------------------------------------------------------------------
(* The inductive invariant.                                                *)

\* A step of h: the other handlers keep what they hold, and one of them
\* whose version stays current has seen no write.
Alone(h) ==
    /\ \A g \in Handlers \ {h} :
         /\ pc'[g] = pc[g] /\ st'[g] = st[g]
         /\ todo'[g] = todo[g] /\ verdict'[g] = verdict[g]
    /\ \A g \in Handlers \ {h} : g \in fresh' => g \in fresh /\ row' = row

\* What no step of anybody takes back.
Grow ==
    /\ traded <= traded'
    /\ exch.state # "UNKNOWN" => exch'.state # "UNKNOWN"
    /\ view # "none" => view' # "none"
    /\ row.status # "NONE" => row'.status # "NONE"
    /\ row.status \notin Unsent =>
         row'.status \notin Unsent /\ row'.qty = row.qty

\* What Goto leaves of its own handler, and that it leaves the others alone.
LEMMA GotoEffect ==
    ASSUME HandlerType, NEW h \in Handlers, NEW l, NEW o, Goto(h, l, o),
           \/ SameWork
           \/ UNCHANGED verdict /\ \E T : todo' = [todo EXCEPT ![h] = T]
           \/ \E T, v : /\ todo' = [todo EXCEPT ![h] = T]
                        /\ verdict' = [verdict EXCEPT ![h] = v]
           \/ UNCHANGED todo /\ \E v : verdict' = [verdict EXCEPT ![h] = v]
    PROVE  /\ pc'[h] = l /\ st'[h] = o
           /\ \A g \in Handlers \ {h} :
                /\ pc'[g] = pc[g] /\ st'[g] = st[g]
                /\ todo'[g] = todo[g] /\ verdict'[g] = verdict[g]
BY Zenon DEF HandlerType, Goto, SameWork

\* What Return leaves of its own handler, and that it leaves the others
\* alone.
LEMMA ReturnEffect ==
    ASSUME HandlerType, NEW h \in Handlers, Return(h)
    PROVE  /\ pc'[h] = "idle" /\ st'[h] = NoOrder /\ todo'[h] = {}
           /\ \A g \in Handlers \ {h} :
                /\ pc'[g] = pc[g] /\ st'[g] = st[g]
                /\ todo'[g] = todo[g] /\ verdict'[g] = verdict[g]
BY Zenon DEF HandlerType, Return

\* What a Save of o by h has to establish.
Writes(h, o) ==
    /\ Sound(o)
    /\ o.filled = row.filled
    /\ row.status \notin Unsent => o.status \notin Unsent /\ o.qty = row.qty
    /\ o.ack => exch.state # "UNKNOWN"
    /\ o.status = "CANCELLED" /\ view = "none" =>
         row.status \in Unsent \cup {"CANCELLED"}

(***************************************************************************)
(* What the version predicate gives: a handler whose version is current    *)
(* writes over the very order it looked at.                                *)
(***************************************************************************)
LEMMA Holder ==
    ASSUME IInv, NEW h \in Handlers, pc[h] \in Live, h \in fresh
    PROVE  /\ st[h] = row /\ row \in Order /\ Sound(row) /\ ~row.quar
           /\ IsTerminal(row) => pc[h] \in {"fold", "adopt"} /\ todo[h] = {}
           /\ row.ack => exch.state # "UNKNOWN"
           /\ row.filled \in Nat /\ row.qty \in Nat
<1>1. st[h] = row /\ st[h].status # "NONE"
  BY Zenon DEF IInv, HandlerInv, Snapshot, HoldsOpen
<1>2. row \in Order /\ Sound(row)
  BY <1>1 DEF IInv, TypeOK, StoreInv, NoOrder
<1>3. /\ ~row.quar
      /\ IsTerminal(row) => pc[h] \in {"fold", "adopt"} /\ todo[h] = {}
  BY Zenon, <1>1 DEF IInv, HandlerInv, HoldsOpen
<1>4. row.ack => exch.state # "UNKNOWN"
  BY Zenon, <1>1 DEF IInv, HandlerInv
<1> QED BY Zenon, <1>1, <1>2, <1>3, <1>4 DEF Order

\* What a handler that wrote o and goes on at l has to establish.
GoesOn(l, o) ==
    /\ l \in {"dispatch", "fold", "applied"}
    /\ ~o.quar
    /\ ~IsTerminal(o)
    /\ l \in {"fold", "applied"} => exch.state # "UNKNOWN"
    /\ l = "dispatch" => o.status \notin Unsent

\* What a handler that read the row and goes on at l has to establish.
Fits(l) ==
    /\ l \in {"create", "rclaim", "complete", "route", "query", "csave",
              "close", "asave"}
    /\ l \in Live => row.status # "NONE" /\ ~row.quar /\ ~IsTerminal(row)
    /\ l = "rclaim" => row.status # "NONE"
    /\ l = "complete" => IsTerminal(row)
    /\ l = "csave" => NeverSent(row)
    /\ l = "asave" => row.status = "PENDING_NEW"

(***************************************************************************)
(* What a change of the exchange's order, by a handler or by the exchange, *)
(* has to establish.                                                       *)
(***************************************************************************)
ExchangeMoves ==
    /\ traded' \in Nat /\ traded <= traded'
    /\ \A t \in exch'.trades : t <= traded'
    /\ exch'.state # "UNKNOWN" =>
         view # "none" /\ row.status \notin Unsent /\ exch'.qty = row.qty
    /\ exch.state # "UNKNOWN" => exch'.state # "UNKNOWN"

-----------------------------------------------------------------------------
(* The theorems.                                                           *)

\* The invariant holds initially.
LEMMA InitIInv ==
    ASSUME FiniteTrades, Init
    PROVE  IInv
<1>1. TypeOK
  BY OrderOps, BoundsAssumption, PricesAssumption
     DEF Init, TypeOK, Places, Verdicts, Terminal
<1>2. /\ row = NoOrder /\ claims = {} /\ traded = 0
      /\ announced = [t \in Trades |-> 0]
      /\ exch.state = "UNKNOWN" /\ exch.trades = {}
  BY Zenon DEF Init
<1>3. FoldedOnce
  BY Zenon, <1>2 DEF FoldedOnce, NoOrder, FiniteTrades
<1>4. StoreInv BY Zenon, <1>2, <1>3 DEF StoreInv
<1>5. VenueInv
  BY Zenon, <1>2 DEF VenueInv, AckIsTrue, CancelBeforeRoute, NoOrder
<1>6. \A h \in Handlers : HandlerInv(h)
  BY Zenon DEF Init, HandlerInv, Snapshot, HoldsOpen, Live, NoOrder
<1> QED BY Zenon, <1>1, <1>4, <1>5, <1>6 DEF IInv

\* Every step keeps the invariant.
LEMMA StepIInv ==
    ASSUME FiniteTrades, IInv, [Next]_vars
    PROVE  IInv'
\* The next state's count of trades is a number too.
<1>TradedNext. ASSUME TypeOK' PROVE traded' \in Nat
  <2> USE <1>TradedNext
  <2>1. traded' \in 0 .. MaxTrade BY Zenon, TypeParts DEF VenueType
  <2> QED BY <2>1, BoundsAssumption
\* The aggregate's transitions out of an open order, and the markers,
\* yield orders that may be on the books.
<1>SoundOps.
      ASSUME NEW o \in Order, Sound(o)
      PROVE  /\ ~o.quar => Sound([o EXCEPT !.told = TRUE])
             /\ Sound([o EXCEPT !.ack = TRUE])
             /\ ~IsTerminal(o) =>
                  /\ Sound([o EXCEPT !.quar = TRUE])
                  /\ ~o.quar =>
                       /\ Sound(Route(o))
                       /\ Sound(Cancel(o))
                       /\ Sound(Reject(o))
                       /\ \A v \in {"CANCELLED", "EXPIRED"} : Sound(Withdrawn(o, v))
                       /\ CanFill(o) => Sound(ApplyFill(o))
                       /\ \A q \in Nat \ {0} :
                            o.status = "PENDING_NEW" => Sound(Amend(o, q))
  <2> USE <1>SoundOps
  <2>1. /\ ~o.quar => Sound([o EXCEPT !.told = TRUE])
        /\ Sound([o EXCEPT !.ack = TRUE])
        /\ ~IsTerminal(o) => Sound([o EXCEPT !.quar = TRUE])
    BY Zenon DEF Sound, Order, IsTerminal, Terminal
  <2>2. ASSUME ~IsTerminal(o), ~o.quar
        PROVE  /\ Sound(Route(o)) /\ Sound(Cancel(o)) /\ Sound(Reject(o))
               /\ \A v \in {"CANCELLED", "EXPIRED"} : Sound(Withdrawn(o, v))
    BY Zenon, <2>2 DEF Sound, Order, IsTerminal, Terminal, Route, Cancel, Reject, Withdrawn
  <2>3. ASSUME ~IsTerminal(o), ~o.quar, CanFill(o) PROVE Sound(ApplyFill(o))
    <3>1. /\ ApplyFill(o).filled = o.filled + 1
          /\ ApplyFill(o).qty = o.qty
          /\ ApplyFill(o).quar = o.quar
          /\ ApplyFill(o).status = IF o.filled + 1 = o.qty THEN "FILLED"
                                   ELSE "PARTIALLY_FILLED"
      BY Zenon DEF ApplyFill, Order
    <3>2. o.filled \in Nat /\ o.qty \in Nat BY Zenon DEF Order
    <3> QED BY <3>1, <3>2, <2>3 DEF Sound, CanFill
  <2>4. ASSUME NEW q \in Nat \ {0}, o.status = "PENDING_NEW", ~o.quar
        PROVE  Sound(Amend(o, q))
    BY <2>4 DEF Sound, Order, Amend
  <2> QED BY Zenon, <2>1, <2>2, <2>3, <2>4
\* A handler that takes no step keeps its part of the invariant while the
\* store and the venue only grow.
<1>Frame.
      ASSUME IInv, TypeOK', NEW h, Alone(h), Grow,
             NEW g \in Handlers \ {h}
      PROVE  HandlerInv(g)'
  <2> USE <1>Frame
  <2>1. HandlerInv(g) BY Zenon DEF IInv
  <2>2. /\ pc'[g] = pc[g] /\ st'[g] = st[g] /\ todo'[g] = todo[g]
        /\ g \in fresh' => g \in fresh /\ row' = row
    BY Zenon DEF Alone
  <2>3. /\ view' = "none" => view = "none"
        /\ exch'.state = "UNKNOWN" => exch.state = "UNKNOWN"
    BY Zenon DEF Grow
  <2>4. Snapshot(g)' /\ HoldsOpen(g)'
    BY <2>1, <2>2 DEF HandlerInv, Snapshot, HoldsOpen
  <2>5. \A t \in todo'[g] : t <= traded'
    <3>1. \A t \in todo[g] : t \in Int /\ t <= traded
      BY <2>1 DEF HandlerInv, IInv, TypeOK, Trades
    <3>2. traded \in Int /\ traded' \in Int /\ traded <= traded'
      BY BoundsAssumption DEF IInv, TypeOK, Grow
    <3> QED BY <3>1, <3>2, <2>2
  <2>6. pc[g] \in {"dispatch", "place"} =>
          row'.status \notin Unsent /\ st'[g].qty = row'.qty
    BY Zenon, <2>1, <2>2 DEF HandlerInv, Grow
  <2>7. pc[g] \in {"rclaim", "rload"} => row'.status # "NONE"
    BY Zenon, <2>1, <2>2 DEF HandlerInv, Grow
  <2> QED BY Zenon, <2>1, <2>2, <2>3, <2>4, <2>5, <2>6, <2>7 DEF HandlerInv
\* A step that writes neither the store nor the venue: what is left is the
\* handler itself, which does not go to the venue without a write.
<1>Quiet.
      ASSUME IInv, TypeOK', NEW h \in Handlers, Alone(h), HandlerInv(h)',
             UNCHANGED storeVars, UNCHANGED venueVars,
             pc'[h] \notin {"dispatch", "place"} \/ pc'[h] = pc[h]
      PROVE  IInv'
  <2> USE <1>Quiet
  <2>1. Grow BY DEF Grow, storeVars, venueVars, IInv, TypeOK
  <2>2. \A g \in Handlers : HandlerInv(g)' BY Zenon, <2>1, <1>Frame
  <2>3. StoreInv' BY Zenon DEF IInv, StoreInv, FoldedOnce, storeVars, venueVars
  <2>4. VenueInv'
    <3>1. \A g \in Handlers : pc'[g] \in {"dispatch", "place"} => pc[g] = pc'[g]
      BY Zenon DEF Alone
    <3>2. CancelBeforeRoute'
      BY Zenon, <3>1 DEF IInv, VenueInv, CancelBeforeRoute, storeVars, venueVars
    <3> QED BY Zenon, <3>2 DEF IInv, VenueInv, AckIsTrue, storeVars, venueVars
  <2> QED BY Zenon, <2>2, <2>3, <2>4 DEF IInv
\* An idle handler satisfies its part of the invariant.
<1>AtRest.
      ASSUME TypeOK', NEW h \in Handlers, pc'[h] = "idle",
             st'[h] = NoOrder, todo'[h] = {}
      PROVE  HandlerInv(h)'
  <2> USE <1>AtRest
  <2>1. Snapshot(h)' /\ HoldsOpen(h)' BY Zenon DEF Snapshot, HoldsOpen, Live
  <2>2. ~NoOrder.ack BY Zenon DEF NoOrder
  <2> QED BY Zenon, <2>1, <2>2 DEF HandlerInv
\* A handler that returns without a write keeps the invariant.
<1>QuietReturn.
      ASSUME IInv, NEW h \in Handlers, Return(h), NoStore \/ Load(h),
             UNCHANGED venueVars, TypeOK'
      PROVE  IInv'
  <2> USE <1>QuietReturn
  <2>1. Alone(h) /\ UNCHANGED storeVars /\ HandlerInv(h)' /\ pc'[h] = "idle"
    <3>1. HandlerType BY Zenon, TypeParts DEF IInv
    <3>2. UNCHANGED storeVars /\ \A g \in Handlers \ {h} : g \in fresh' => g \in fresh
      BY Zenon DEF NoStore, Load
    <3> QED BY Zenon, <3>1, <3>2, ReturnEffect, <1>AtRest DEF Alone, storeVars
  <2> QED BY Zenon, <2>1, <1>Quiet
\* A Save that wins, of an order its handler may write, keeps the invariant.
<1>SaveStep.
      ASSUME IInv, TypeOK', NEW h \in Handlers, NEW o \in Order,
             Save(h, o), Writes(h, o), UNCHANGED venueVars,
             \A g \in Handlers \ {h} :
                /\ pc'[g] = pc[g] /\ st'[g] = st[g]
                /\ todo'[g] = todo[g] /\ verdict'[g] = verdict[g],
             HandlerInv(h)',
             pc'[h] \in {"dispatch", "place"} => o.status # "CANCELLED"
      PROVE  IInv'
  <2> USE <1>SaveStep
  <2>1. Grow BY SMTT(30) DEF Grow, Save, Writes, Sound, venueVars, IInv, TypeOK
  <2>2. Alone(h) BY Zenon DEF Alone, Save
  <2>3. \A g \in Handlers : HandlerInv(g)' BY Zenon, <2>1, <2>2, <1>Frame
  <2>4. StoreInv'
    BY Zenon DEF IInv, StoreInv, FoldedOnce, Save, Writes, venueVars
  <2>5. VenueInv'
    <3>1. CancelBeforeRoute'
      <4> SUFFICES ASSUME o.status = "CANCELLED", view = "none"
                   PROVE  /\ exch.state = "UNKNOWN"
                          /\ \A g \in Handlers : pc'[g] \notin {"dispatch", "place"}
        BY Zenon DEF CancelBeforeRoute, Save, venueVars
      <4>1. exch.state = "UNKNOWN" BY DEF IInv, VenueInv
      <4>2. \A g \in Handlers : pc[g] \notin {"dispatch", "place"}
        BY Zenon DEF Writes, IInv, HandlerInv, VenueInv, CancelBeforeRoute
      <4> QED BY Zenon, <4>1, <4>2, <2>2 DEF Alone
    <3>2. AckIsTrue' BY Zenon DEF AckIsTrue, Save, Writes, venueVars
    <3>3. exch.state # "UNKNOWN" =>
            o.status \notin Unsent /\ exch.qty = o.qty
      BY Zenon DEF Writes, IInv, VenueInv
    <3> QED BY Zenon, <3>1, <3>2, <3>3 DEF IInv, VenueInv, Save, venueVars
  <2> QED BY Zenon, <2>3, <2>4, <2>5 DEF IInv
\* So does one that is the handler's last call, won or lost.
<1>SaveAndReturnStep.
      ASSUME IInv, TypeOK', NEW h \in Handlers, NEW o \in Order,
             SaveAndReturn(h, o), h \in fresh => Writes(h, o)
      PROVE  IInv'
  <2> USE <1>SaveAndReturnStep
  <2>0. HandlerType BY Zenon, TypeParts DEF IInv
  <2>1. UNCHANGED venueVars /\ Return(h) BY Zenon DEF SaveAndReturn, OmsOnly
  <2>2. CASE Save(h, o)
    <3>1. Writes(h, o) BY Zenon, <2>2 DEF Save
    <3>2. HandlerInv(h)' BY Zenon, <2>0, <2>1, ReturnEffect, <1>AtRest
    <3> QED BY Zenon, <3>1, <3>2, <2>0, <2>1, <2>2, <1>SaveStep, ReturnEffect
  <2>3. CASE Conflict(h)
    BY Zenon, <2>1, <2>3, <1>QuietReturn DEF Conflict, NoStore
  <2> QED BY Zenon, <2>2, <2>3 DEF SaveAndReturn
\* So does one after which the handler goes on.
<1>SaveThenStep.
      ASSUME IInv, TypeOK', NEW h \in Handlers, NEW o \in Order, NEW l,
             Save(h, o), Goto(h, l, o), SameWork, UNCHANGED venueVars,
             Writes(h, o), GoesOn(l, o)
      PROVE  IInv'
  <2> USE <1>SaveThenStep
  <2>0. HandlerType BY Zenon, TypeParts DEF IInv
  <2>1. /\ pc'[h] = l /\ st'[h] = o
        /\ \A g \in Handlers \ {h} :
             /\ pc'[g] = pc[g] /\ st'[g] = st[g]
             /\ todo'[g] = todo[g] /\ verdict'[g] = verdict[g]
    BY Zenon, <2>0, GotoEffect
  <2>2. todo' = todo /\ row' = o BY Zenon DEF SameWork, Save
  <2>3. Snapshot(h)' /\ HoldsOpen(h)'
    BY Zenon, <2>1, <2>2 DEF Snapshot, HoldsOpen, GoesOn, Writes, Sound
  <2>4. HandlerInv(h)'
    BY Zenon, <2>1, <2>2, <2>3 DEF HandlerInv, IInv, GoesOn, Writes, venueVars
  <2>5. pc'[h] \in {"dispatch", "place"} => o.status # "CANCELLED"
    BY Zenon, <2>1 DEF GoesOn, IsTerminal, Terminal
  <2> QED BY Zenon, <2>1, <2>4, <2>5, <1>SaveStep
\* The writes after which the handler returns.
<1>FinalWrites.
      ASSUME IInv, TypeOK', NEW h \in Handlers,
             \/ Freeze(h) \/ SaveRejected(h) \/ CompleteOutcome(h)
             \/ SaveCancelled(h)
      PROVE  IInv'
  <2> USE <1>FinalWrites
  <2>0. st[h] \in Order BY Zenon DEF IInv, TypeOK
  <2>1. CASE Freeze(h)
    <3> DEFINE o == [st[h] EXCEPT !.quar = TRUE]
    <3>1. o \in Order BY Zenon, <2>0, OrderOps
    <3>2. ASSUME h \in fresh PROVE Writes(h, o)
      <4>1. st[h] = row /\ row \in Order /\ Sound(row) /\ ~IsTerminal(row)
        BY Zenon, <2>1, <3>2, Holder DEF Freeze, Live
      <4>2. Sound(o) BY Zenon, <4>1, <1>SoundOps
      <4>3. o.status = row.status /\ o.filled = row.filled /\ o.qty = row.qty
            /\ o.ack = row.ack
        BY Zenon, <4>1 DEF Order
      <4> QED BY Zenon, <4>1, <4>2, <4>3 DEF Writes, IInv, VenueInv, AckIsTrue
    <3> QED BY Zenon, <2>1, <3>1, <3>2, <1>SaveAndReturnStep DEF Freeze
  <2>2. CASE SaveRejected(h)
    <3> DEFINE o == Reject(st[h])
    <3>1. o \in Order BY Zenon, <2>0, OrderOps
    <3>2. ASSUME h \in fresh PROVE Writes(h, o)
      <4>1. st[h] = row /\ row \in Order /\ Sound(row) /\ ~IsTerminal(row)
            /\ ~row.quar
        BY Zenon, <2>2, <3>2, Holder DEF SaveRejected, Live
      <4>2. Sound(o) BY Zenon, <4>1, <1>SoundOps
      <4>3. o.status = "REJECTED" /\ o.filled = row.filled /\ o.qty = row.qty
            /\ o.ack = row.ack
        BY Zenon, <4>1 DEF Order, Reject
      <4> QED BY <4>1, <4>2, <4>3 DEF Writes, IInv, VenueInv, AckIsTrue, Unsent
    <3> QED BY <2>2, <3>1, <3>2, <1>SaveAndReturnStep DEF SaveRejected
  <2>3. CASE CompleteOutcome(h)
    <3> DEFINE o == [st[h] EXCEPT !.told = TRUE]
    <3>1. o \in Order BY Zenon, <2>0, OrderOps
    <3>2. ASSUME h \in fresh PROVE Writes(h, o)
      <4>1. st[h] = row /\ IsTerminal(row)
        BY Zenon, <2>3, <3>2 DEF CompleteOutcome, IInv, HandlerInv, Snapshot
      <4>2. row \in Order /\ Sound(row) /\ ~row.quar
        <5>1. row.status # "NONE" BY Zenon, <4>1 DEF IsTerminal, Terminal
        <5>2. row \in Order /\ Sound(row) BY Zenon, <5>1, Facts
        <5> QED BY Zenon, <5>2, <4>1 DEF Sound
      <4>3. Sound(o) BY Zenon, <4>1, <4>2, <1>SoundOps
      <4>4. o.status = row.status /\ o.filled = row.filled /\ o.qty = row.qty
            /\ o.ack = row.ack
        BY Zenon, <4>1, <4>2 DEF Order
      <4> QED BY Zenon, <4>1, <4>2, <4>3, <4>4 DEF Writes, IInv, VenueInv, AckIsTrue
    <3> QED BY Zenon, <2>3, <3>1, <3>2, <1>SaveAndReturnStep DEF CompleteOutcome
  <2>4. CASE SaveCancelled(h)
    <3> DEFINE o == Cancel(st[h])
    <3>1. o \in Order BY Zenon, <2>0, OrderOps
    <3>2. ASSUME h \in fresh PROVE Writes(h, o)
      <4>1. st[h] = row /\ row \in Order /\ Sound(row) /\ ~IsTerminal(row)
            /\ ~row.quar
        BY Zenon, <2>4, <3>2, Holder DEF SaveCancelled, Live
      <4>2. Sound(o) BY Zenon, <4>1, <1>SoundOps
      <4>3. o.status = "CANCELLED" /\ o.filled = row.filled /\ o.qty = row.qty
            /\ o.ack = row.ack
        BY Zenon, <4>1 DEF Order, Cancel
      <4>4. view = "none" => row.status \in Unsent
        BY <4>1, <2>4 DEF SaveCancelled, IInv, HandlerInv, NeverSent, Unsent
      <4> QED BY Zenon, <4>1, <4>2, <4>3, <4>4 DEF Writes, IInv, VenueInv, AckIsTrue, Unsent
    <3> QED BY Zenon, <2>4, <3>1, <3>2, <1>SaveAndReturnStep DEF SaveCancelled
  <2> QED BY Zenon, <2>1, <2>2, <2>3, <2>4
\* The last writes of work, adopt and handleAmend keep the invariant.
<1>MoreFinalWrites.
      ASSUME IInv, TypeOK', NEW h \in Handlers,
             WorkDone(h) \/ AdoptDone(h) \/ SaveAmended(h)
      PROVE  IInv'
  <2> USE <1>MoreFinalWrites
  <2>0. st[h] \in Order BY Zenon DEF IInv, TypeOK
  <2>1. ASSUME Return(h), NoStore, OmsOnly PROVE IInv'
    BY Zenon, <2>1, <1>QuietReturn DEF OmsOnly
  <2>2. CASE WorkDone(h)
    <3> DEFINE o == [st[h] EXCEPT !.told = TRUE]
    <3>1. o \in Order BY Zenon, <2>0, OrderOps
    <3>2. ASSUME h \in fresh PROVE Writes(h, o)
      <4>1. st[h] = row /\ row \in Order /\ Sound(row) /\ ~row.quar
        BY Zenon, <2>2, <3>2, Holder DEF WorkDone, Live
      <4>2. Sound(o) BY Zenon, <4>1, <1>SoundOps
      <4>3. o.status = row.status /\ o.filled = row.filled /\ o.qty = row.qty
            /\ o.ack = row.ack
        BY Zenon, <4>1 DEF Order
      <4> QED BY Zenon, <4>1, <4>2, <4>3 DEF Writes, IInv, VenueInv, AckIsTrue
    <3> QED BY Zenon, <2>1, <2>2, <3>1, <3>2, <1>SaveAndReturnStep DEF WorkDone
  <2>3. CASE AdoptDone(h)
    <3>1. ASSUME verdict[h] \in {"CANCELLED", "EXPIRED"}, ~IsTerminal(st[h]),
                 SaveAndReturn(h, Withdrawn(st[h], verdict[h]))
          PROVE  IInv'
      <4> DEFINE o == Withdrawn(st[h], verdict[h])
      <4>1. o \in Order BY Zenon, <3>1, <2>0, OrderOps
      <4>2. ASSUME h \in fresh PROVE Writes(h, o)
        <5>1. st[h] = row /\ row \in Order /\ Sound(row) /\ ~IsTerminal(row)
              /\ ~row.quar
          BY Zenon, <2>3, <3>1, <4>2, Holder DEF AdoptDone, Live
        <5>2. Sound(o) BY Zenon, <5>1, <3>1, <1>SoundOps
        <5>3. o.status = verdict[h] /\ o.filled = row.filled /\ o.qty = row.qty
              /\ o.ack = row.ack
          BY Zenon, <5>1 DEF Order, Withdrawn
        <5>4. view # "none" /\ exch.state # "UNKNOWN"
          BY <2>3 DEF AdoptDone, IInv, HandlerInv, VenueInv
        <5> QED BY Zenon, <5>1, <5>2, <5>3, <5>4, <3>1 DEF Writes, Unsent
      <4> QED BY Zenon, <3>1, <4>1, <4>2, <1>SaveAndReturnStep
    <3> QED BY Zenon, <2>1, <2>3, <3>1 DEF AdoptDone
  <2>4. CASE SaveAmended(h)
    <3>1. ASSUME NEW q \in Qtys, SaveAndReturn(h, Amend(st[h], q)) PROVE IInv'
      <4> DEFINE o == Amend(st[h], q)
      <4>0. q \in Nat \ {0} BY Zenon, QtysAssumption
      <4>1. o \in Order BY Zenon, <4>0, <2>0, OrderOps
      <4>2. ASSUME h \in fresh PROVE Writes(h, o)
        <5>1. st[h] = row /\ row \in Order /\ Sound(row) /\ ~IsTerminal(row)
              /\ ~row.quar
          BY Zenon, <2>4, <4>2, Holder DEF SaveAmended, Live
        <5>2. row.status = "PENDING_NEW"
          BY Zenon, <5>1, <2>4 DEF SaveAmended, IInv, HandlerInv
        <5>3. Sound(o) BY Zenon, <4>0, <5>1, <5>2, <1>SoundOps
        <5>4. o.status = row.status /\ o.filled = row.filled /\ o.ack = row.ack
          BY Zenon, <5>1 DEF Order, Amend
        <5> QED BY Zenon, <5>1, <5>2, <5>3, <5>4
                DEF Writes, Unsent, IInv, VenueInv, AckIsTrue
      <4> QED BY Zenon, <3>1, <4>1, <4>2, <1>SaveAndReturnStep
    <3> QED BY Zenon, <2>1, <2>4, <3>1 DEF SaveAmended
  <2> QED BY Zenon, <2>2, <2>3, <2>4
\* The writes after which the handler goes on.
<1>OngoingWrites.
      ASSUME IInv, TypeOK', NEW h \in Handlers,
             SaveRouted(h) \/ StampAck(h) \/ SaveAck(h)
      PROVE  IInv'
  <2> USE <1>OngoingWrites
  <2>0. st[h] \in Order BY Zenon DEF IInv, TypeOK
  <2>1. ASSUME Conflict(h), Return(h), OmsOnly PROVE IInv'
    BY Zenon, <2>1, <1>QuietReturn DEF OmsOnly, Conflict, NoStore
  <2>2. CASE SaveRouted(h)
    <3> DEFINE o == Route(st[h])
    <3>1. ASSUME Save(h, o), Goto(h, "dispatch", o), SameWork, OmsOnly PROVE IInv'
      <4>0. o \in Order BY Zenon, <2>0, OrderOps
      <4>1. st[h] = row /\ row \in Order /\ Sound(row) /\ ~IsTerminal(row)
            /\ ~row.quar
        BY Zenon, <2>2, <3>1, Holder DEF SaveRouted, Live, Save
      <4>2. Sound(o) BY Zenon, <4>1, <1>SoundOps
      <4>3. o.status = "ROUTED" /\ o.filled = row.filled /\ o.qty = row.qty
            /\ o.ack = row.ack /\ o.quar = row.quar
        BY Zenon, <4>1 DEF Order, Route
      <4>4. Writes(h, o)
        BY Zenon, <4>1, <4>2, <4>3 DEF Writes, IInv, VenueInv, AckIsTrue, Unsent
      <4>5. GoesOn("dispatch", o)
        BY Zenon, <4>1, <4>3 DEF GoesOn, Unsent, IsTerminal, Terminal
      <4> QED BY Zenon, <3>1, <4>0, <4>4, <4>5, <1>SaveThenStep DEF OmsOnly
    <3> QED BY Zenon, <2>1, <2>2, <3>1 DEF SaveRouted, SaveThen
  <2>3. ASSUME pc[h] \in {"ack", "stamp"}, h \in fresh
        PROVE  LET o == [st[h] EXCEPT !.ack = TRUE]
               IN  o \in Order /\ Writes(h, o) /\ GoesOn("fold", o)
                   /\ GoesOn("applied", o)
    <3> DEFINE o == [st[h] EXCEPT !.ack = TRUE]
    <3>0. o \in Order BY Zenon, <2>0, OrderOps
    <3>1. st[h] = row /\ row \in Order /\ Sound(row) /\ ~IsTerminal(row)
          /\ ~row.quar
      BY Zenon, <2>3, Holder DEF Live
    <3>2. Sound(o) BY Zenon, <3>1, <1>SoundOps
    <3>3. o.status = row.status /\ o.filled = row.filled /\ o.qty = row.qty
          /\ o.quar = row.quar
      BY Zenon, <3>1 DEF Order
    <3>4. exch.state # "UNKNOWN"
      BY Zenon, <2>3 DEF IInv, HandlerInv
    <3>5. Writes(h, o) BY Zenon, <3>1, <3>2, <3>3, <3>4 DEF Writes
    <3>6. GoesOn("fold", o) /\ GoesOn("applied", o)
      BY Zenon, <3>1, <3>3, <3>4 DEF GoesOn, IsTerminal
    <3> QED BY Zenon, <3>0, <3>5, <3>6
  <2>4. CASE StampAck(h)
    <3> DEFINE o == [st[h] EXCEPT !.ack = TRUE]
    <3>1. pc[h] = "stamp" /\ o \in Order BY Zenon, <2>0, <2>4, OrderOps DEF StampAck
    <3>2. CASE SaveAndReturn(h, o)
      BY Zenon, <2>3, <3>1, <3>2, <1>SaveAndReturnStep
    <3>3. ASSUME Save(h, o), Goto(h, "applied", o), SameWork, OmsOnly PROVE IInv'
      BY Zenon, <2>3, <3>1, <3>3, <1>SaveThenStep DEF OmsOnly, Save
    <3> QED BY Zenon, <2>1, <2>4, <3>2, <3>3 DEF StampAck, SaveThen
  <2>5. CASE SaveAck(h)
    <3> DEFINE o == [st[h] EXCEPT !.ack = TRUE]
    <3>1. pc[h] = "ack" /\ o \in Order BY Zenon, <2>0, <2>5, OrderOps DEF SaveAck
    <3>2. ASSUME Save(h, o), Goto(h, "fold", o), SameWork, OmsOnly PROVE IInv'
      BY Zenon, <2>3, <3>1, <3>2, <1>SaveThenStep DEF OmsOnly, Save
    <3>3. ASSUME Conflict(h), Goto(h, "freeze", st[h]), SameWork, OmsOnly
          PROVE  IInv'
      <4>1. HandlerType BY Zenon, TypeParts DEF IInv
      <4>2. pc'[h] = "freeze" /\ st'[h] = st[h] /\ todo' = todo /\ Alone(h)
        BY Zenon, <3>3, <4>1, GotoEffect DEF Alone, Conflict, storeVars, SameWork
      <4>3. HandlerInv(h)'
        BY Zenon, <3>1, <3>3, <4>2
           DEF IInv, HandlerInv, Snapshot, HoldsOpen, Live, Conflict, OmsOnly,
               venueVars, storeVars
      <4> QED BY Zenon, <3>3, <4>2, <4>3, <1>Quiet DEF Conflict, OmsOnly
    <3> QED BY Zenon, <2>5, <3>2, <3>3 DEF SaveAck
  <2> QED BY Zenon, <2>2, <2>4, <2>5
\* A handler that loads the order and goes where that order fits keeps the
\* invariant.
<1>LoadStep.
      ASSUME IInv, TypeOK', NEW h \in Handlers, NEW l, Load(h), Goto(h, l, row),
             UNCHANGED todo,
             UNCHANGED verdict \/ \E v : verdict' = [verdict EXCEPT ![h] = v],
             UNCHANGED venueVars, Fits(l)
      PROVE  IInv'
  <2> USE <1>LoadStep
  <2>1. HandlerType BY Zenon, TypeParts DEF IInv
  <2>2. pc'[h] = l /\ st'[h] = row /\ Alone(h)
    <3>1. /\ pc'[h] = l /\ st'[h] = row
          /\ \A g \in Handlers \ {h} :
               /\ pc'[g] = pc[g] /\ st'[g] = st[g]
               /\ todo'[g] = todo[g] /\ verdict'[g] = verdict[g]
      <4>1. CASE UNCHANGED verdict BY Zenon, <4>1, <2>1, GotoEffect DEF SameWork
      <4>2. CASE \E v : verdict' = [verdict EXCEPT ![h] = v]
        BY Zenon, <4>2, <2>1, GotoEffect
      <4> QED BY Zenon, <4>1, <4>2
    <3>2. row' = row /\ fresh' = fresh \cup {h} BY Zenon DEF Load, storeVars
    <3> QED BY Zenon, <3>1, <3>2 DEF Alone
  <2>3. row' = row BY Zenon DEF Load, storeVars
  <2>4. HandlerInv(h)'
    <3>1. Snapshot(h)' /\ HoldsOpen(h)'
      BY Zenon, <2>2, <2>3 DEF Snapshot, HoldsOpen, Fits
    <3> QED BY Zenon, <2>2, <2>3, <3>1
            DEF HandlerInv, IInv, VenueInv, AckIsTrue, Fits, venueVars
  <2> QED BY Zenon, <2>2, <2>4, <1>Quiet DEF Fits, Load
\* The steps that read the row or move on without a write.
<1>QuietSteps.
      ASSUME IInv, TypeOK', NEW h \in Handlers,
             \/ Start(h) \/ Refuse(h) \/ Fail(h) \/ ClaimSubmit(h)
             \/ ClaimResume(h) \/ Reload(h) \/ AwaitClaim(h)
             \/ LoadToCancel(h) \/ LoadToAmend(h) \/ Unpriced(h)
             \/ AppliedFills(h) \/ QueryOrder(h)
      PROVE  IInv'
  <2> USE <1>QuietSteps
  <2>0. HandlerType /\ HandlerInv(h) BY Zenon, TypeParts DEF IInv
  <2>1. ASSUME Return(h), NoStore \/ Load(h), UNCHANGED venueVars PROVE IInv'
    BY Zenon, <2>1, <1>QuietReturn
  <2>2. CASE Refuse(h) \/ Fail(h)
    BY Zenon, <2>1, <2>2 DEF Refuse, Fail, OmsOnly
  <2>3. CASE Start(h)
    <3>1. ASSUME StartSubmit(h) PROVE IInv'
      <4>1. Fits("create") /\ (row.status # "NONE" => Fits("rclaim"))
        BY Zenon DEF Fits, Live
      <4> QED BY Zenon, <3>1, <4>1, <2>1, <1>LoadStep DEF StartSubmit, SameWork
    <3>2. ASSUME StartSweep(h) PROVE IInv'
      <4>1. Fits("rclaim") BY Zenon, <3>2 DEF Fits, Live, StartSweep
      <4> QED BY Zenon, <3>2, <4>1, <1>LoadStep DEF StartSweep, SameWork, OmsOnly
    <3>3. ASSUME StartWait(h) PROVE IInv'
      <4>1. pc'[h] = "wait" /\ st'[h] = NoOrder /\ todo' = todo /\ Alone(h)
        <5>1. /\ Goto(h, "wait", NoOrder) /\ SameWork
              /\ row' = row /\ fresh' = fresh /\ todo' = todo
          BY Zenon, <3>3 DEF StartWait, NoStore, SameWork, storeVars
        <5>2. /\ pc'[h] = "wait" /\ st'[h] = NoOrder
              /\ \A g \in Handlers \ {h} :
                   /\ pc'[g] = pc[g] /\ st'[g] = st[g]
                   /\ todo'[g] = todo[g] /\ verdict'[g] = verdict[g]
          BY Zenon, <5>1, <2>0, GotoEffect
        <5> QED BY Zenon, <5>1, <5>2 DEF Alone
      <4>2. \A t \in todo'[h] : t <= traded'
        BY Zenon, <2>0, <3>3, <4>1 DEF HandlerInv, StartWait, venueVars
      <4>3. HandlerInv(h)'
        <5>1. Snapshot(h)' /\ HoldsOpen(h)'
          BY Zenon, <4>1 DEF Snapshot, HoldsOpen, Live
        <5>2. ~NoOrder.ack BY Zenon DEF NoOrder
        <5> QED BY Zenon, <5>1, <5>2, <4>1, <4>2 DEF HandlerInv
      <4> QED BY Zenon, <3>3, <4>1, <4>3, <1>Quiet DEF StartWait, NoStore
    <3> QED BY Zenon, <2>3, <3>1, <3>2, <3>3 DEF Start
  <2>4. ASSUME NEW l \in {"route", "rload", "cload", "aload"},
               pc[h] \in {"claim", "rclaim", "wait"},
               l = "route" => pc[h] = "claim",
               l = "rload" => pc[h] = "rclaim",
               pc' = [pc EXCEPT ![h] = l], UNCHANGED <<st, todo, verdict>>,
               NoStore, UNCHANGED venueVars
        PROVE  IInv'
    <3>1. pc'[h] = l /\ Alone(h)
      BY Zenon, <2>0, <2>4 DEF HandlerType, Alone, NoStore, storeVars
    <3>2. Snapshot(h)' /\ HoldsOpen(h)'
      BY Zenon, <2>0, <2>4, <3>1 DEF HandlerInv, Snapshot, HoldsOpen, Live, NoStore,
                              storeVars, venueVars
    <3>3. HandlerInv(h)'
      BY Zenon, <2>0, <2>4, <3>1, <3>2 DEF HandlerInv, NoStore, storeVars, venueVars
    <3> QED BY Zenon, <2>4, <3>1, <3>3, <1>Quiet DEF NoStore
  <2>5. CASE ClaimSubmit(h) \/ ClaimResume(h)
    BY Zenon, <2>1, <2>4, <2>5 DEF ClaimSubmit, ClaimResume, TryClaim, OmsOnly
  <2>6. CASE AwaitClaim(h)
    BY Zenon, <2>4, <2>6 DEF AwaitClaim, SameWork, OmsOnly
  <2>7. CASE Reload(h)
    <3>1. CASE Settled(row)
      BY Zenon, <2>1, <2>7, <3>1 DEF Reload, OmsOnly
    <3>2. ASSUME ~Settled(row), row.status # "NONE"
          PROVE  Fits(IF IsTerminal(row) THEN "complete"
                      ELSE IF row.status = "PENDING_NEW" THEN "route" ELSE "query")
      BY Zenon, <3>2 DEF Fits, Settled, Live
    <3>3. row.status # "NONE"
      BY Zenon, <2>0, <2>7 DEF Reload, HandlerInv
    <3> QED BY Zenon, <2>7, <3>1, <3>2, <3>3, <1>LoadStep DEF Reload, OmsOnly
  <2>8. CASE LoadToCancel(h)
    <3>1. ASSUME row.status # "NONE", ~row.quar, ~IsTerminal(row)
          PROVE  Fits(IF NeverSent(row) THEN "csave" ELSE "close")
      BY Zenon, <3>1 DEF Fits
    <3> QED BY Zenon, <2>1, <2>8, <3>1, <1>LoadStep DEF LoadToCancel, SameWork, OmsOnly
  <2>9. CASE LoadToAmend(h)
    <3>1. ASSUME row.status # "NONE", ~row.quar, ~IsTerminal(row),
                 ~VenueMayBeWorking(row)
          PROVE  Fits("asave")
      BY Zenon, <3>1 DEF Fits, VenueMayBeWorking, IInv, TypeOK, Order, IsTerminal, Statuses
    <3> QED BY Zenon, <2>1, <2>9, <3>1, <1>LoadStep DEF LoadToAmend, SameWork, OmsOnly
  <2>10. CASE Unpriced(h)
    <3>1. ASSUME Goto(h, "reject", st[h]), SameWork, NoStore, OmsOnly PROVE IInv'
      <4>1. pc'[h] = "reject" /\ st'[h] = st[h] /\ todo' = todo /\ Alone(h)
        BY Zenon, <2>0, <3>1, GotoEffect DEF Alone, NoStore, SameWork, storeVars
      <4>2. HandlerInv(h)'
        BY Zenon, <2>0, <2>10, <3>1, <4>1 DEF HandlerInv, Snapshot, HoldsOpen, Live,
               Unpriced, NoStore, OmsOnly, venueVars, storeVars
      <4> QED BY Zenon, <3>1, <4>1, <4>2, <1>Quiet DEF NoStore, OmsOnly
    <3> QED BY Zenon, <2>1, <2>10, <3>1 DEF Unpriced, OmsOnly
  <2>11. CASE AppliedFills(h)
    <3>1. pc'[h] = "adopt" /\ st'[h] = st[h] /\ Alone(h)
      BY Zenon, <2>0, <2>11, GotoEffect DEF AppliedFills, Alone, NoStore, storeVars
    <3>2. todo'[h] = todo[h] \ claims
      BY Zenon, <2>0, <2>11 DEF AppliedFills, HandlerType
    <3>3. HandlerInv(h)'
      BY Zenon, <2>0, <2>11, <3>1, <3>2 DEF HandlerInv, Snapshot, HoldsOpen, Live,
             AppliedFills, NoStore, OmsOnly, venueVars, storeVars
    <3> QED BY Zenon, <2>11, <3>1, <3>3, <1>Quiet DEF AppliedFills, NoStore, OmsOnly
  <2>12. CASE QueryOrder(h)
    <3>1. ASSUME NEW v, NEW l \in {"stamp", "route", "freeze", "reject", "applied"},
                 NEW T \in SUBSET exch.trades,
                 Goto(h, l, st[h]), NoStore, OmsOnly,
                 verdict' = [verdict EXCEPT ![h] = v],
                 todo' = [todo EXCEPT ![h] = T],
                 l \in {"stamp", "applied"} => exch.state # "UNKNOWN"
          PROVE  IInv'
      <4>1. pc'[h] = l /\ st'[h] = st[h] /\ Alone(h)
        BY Zenon, <2>0, <3>1, GotoEffect DEF Alone, NoStore, storeVars
      <4>2. todo'[h] = T /\ \A t \in T : t <= traded
        BY Zenon, <2>0, <3>1 DEF HandlerType, IInv, VenueInv
      <4>3. HandlerInv(h)'
        BY Zenon, <2>0, <2>12, <3>1, <4>1, <4>2 DEF HandlerInv, Snapshot, HoldsOpen, Live,
               QueryOrder, NoStore, OmsOnly, venueVars, storeVars
      <4> QED BY <3>1, <4>1, <4>3, <1>Quiet DEF NoStore, OmsOnly
    <3>2. \A b : (IF b THEN exch.trades ELSE {}) \in SUBSET exch.trades
      BY Zenon
    <3>3. /\ Reconcile(st[h], Verdict) \in {"leave", "adopt"} =>
               exch.state # "UNKNOWN"
          /\ Reconcile(st[h], "INDETERMINATE") \notin {"leave", "adopt"}
      BY Zenon DEF Reconcile, Verdict, Terminal
    <3> QED BY Zenon, <2>1, <2>12, <3>1, <3>2, <3>3 DEF QueryOrder, OmsOnly
  <2> QED BY Zenon, <2>2, <2>3, <2>5, <2>6, <2>7, <2>8, <2>9, <2>10, <2>11, <2>12
\* store.Create keeps the invariant.
<1>CreateStep.
      ASSUME IInv, TypeOK', NEW h \in Handlers, Create(h)
      PROVE  IInv'
  <2> USE <1>CreateStep
  <2>0. HandlerType BY Zenon, TypeParts DEF IInv
  <2>1. ASSUME NEW q \in Qtys, row.status = "NONE", row' = Accept(q), fresh' = {h},
               UNCHANGED <<claims, announced>>,
               Goto(h, "claim", Accept(q)), SameWork, OmsOnly
        PROVE  IInv'
    <3> DEFINE o == Accept(q)
    <3>1. /\ o.status = "PENDING_NEW" /\ o.qty = q /\ o.filled = 0
          /\ ~o.ack /\ ~o.quar /\ o \in Order /\ q \in Nat /\ q > 0
      <4>1. q \in Nat /\ q > 0 BY QtysAssumption
      <4>2. o \in Order BY Zenon, <4>1, OrderOps
      <4>3. o.status = "PENDING_NEW" /\ o.qty = q BY Zenon DEF Accept, NoOrder
      <4>4. o.filled = 0 /\ ~o.ack /\ ~o.quar BY Zenon DEF Accept, NoOrder
      <4> QED BY Zenon, <4>1, <4>2, <4>3, <4>4
    <3>2. row = NoOrder /\ row.filled = 0
      BY <2>1, Facts DEF NoOrder
    <3>3. exch.state = "UNKNOWN"
      BY Zenon, <2>1 DEF IInv, VenueInv, Unsent
    <3>4. pc'[h] = "claim" /\ st'[h] = o /\ todo' = todo /\ Alone(h)
      <4>1. /\ pc'[h] = "claim" /\ st'[h] = o
            /\ \A g \in Handlers \ {h} :
                 /\ pc'[g] = pc[g] /\ st'[g] = st[g]
                 /\ todo'[g] = todo[g] /\ verdict'[g] = verdict[g]
        BY Zenon, <2>0, <2>1, GotoEffect
      <4> QED BY Zenon, <4>1, <2>1 DEF Alone, SameWork
    <3> HIDE DEF o
    <3>5. row' = o /\ UNCHANGED venueVars BY Zenon, <2>1 DEF o, OmsOnly
    <3>6. Grow
      <4>1. traded' = traded /\ exch' = exch /\ view' = view
        BY Zenon, <3>5 DEF venueVars
      <4>2. traded \in Nat BY Zenon, Facts
      <4> QED BY <4>1, <4>2, <2>1, <3>1, <3>5 DEF Grow, Unsent
    <3>7. HandlerInv(h)'
      <4>1. ~IsTerminal(o) BY Zenon, <3>1 DEF IsTerminal, Terminal
      <4>2. Snapshot(h)' /\ HoldsOpen(h)'
        BY Zenon, <3>1, <3>4, <3>5, <4>1 DEF Snapshot, HoldsOpen
      <4>3. \A t \in todo[h] : t <= traded BY Zenon DEF IInv, HandlerInv
      <4> QED BY Zenon, <4>2, <4>3, <3>1, <3>4, <3>5 DEF HandlerInv, venueVars
    <3>8. StoreInv'
      <4>1. Sound(o) BY <3>1 DEF Sound, IsTerminal, Terminal
      <4>2. FoldedOnce BY Zenon DEF IInv, StoreInv
      <4>3. FoldedOnce'
        BY Zenon, <4>2, <2>1, <3>1, <3>2, <3>5 DEF FoldedOnce, venueVars
      <4> QED BY Zenon, <4>1, <4>3, <3>5 DEF StoreInv
    <3>9. VenueInv'
      BY Zenon, <3>1, <3>3, <3>5
         DEF VenueInv, IInv, AckIsTrue, CancelBeforeRoute, venueVars
    <3> QED BY Zenon, <3>4, <3>6, <3>7, <3>8, <3>9, <1>Frame DEF IInv
  <2> QED BY Zenon, <2>1, <1>QuietReturn DEF Create, OmsOnly
\* A fold: the trade is the exchange's, it was not claimed before, and the
\* order it is applied to is the row.
<1>FoldStep.
      ASSUME FiniteTrades, IInv, TypeOK', NEW h \in Handlers, pc[h] \in {"fold", "adopt"},
             NEW t \in todo[h], t \notin claims, CanFill(st[h]), Fold(h, t),
             OmsOnly
      PROVE  IInv'
  <2> USE <1>FoldStep
  <2>0. HandlerType /\ HandlerInv(h) BY Zenon, TypeParts DEF IInv
  <2>1. st[h] = row /\ row \in Order /\ Sound(row) /\ ~row.quar /\ ~IsTerminal(row)
    BY Zenon, Holder DEF Fold, Live
  <2> DEFINE o == ApplyFill(row)
  <2>2. /\ o.filled = row.filled + 1 /\ o.qty = row.qty
        /\ o.quar = row.quar /\ o.ack = row.ack
        /\ o.status \in {"FILLED", "PARTIALLY_FILLED"}
        /\ row.filled \in Nat /\ o \in Order
    <3>1. o \in Order BY Zenon, <2>1, OrderOps
    <3>2. row.filled \in Nat BY Zenon, <2>1 DEF Order
    <3>3. /\ o.filled = row.filled + 1 /\ o.qty = row.qty
          /\ o.quar = row.quar /\ o.ack = row.ack
          /\ o.status = IF row.filled + 1 = row.qty THEN "FILLED"
                        ELSE "PARTIALLY_FILLED"
      BY Zenon, <2>1 DEF ApplyFill, Order
    <3> HIDE DEF o
    <3> QED BY Zenon, <3>1, <3>2, <3>3
  <2>3. Sound(o) BY Zenon, <2>1, <1>SoundOps
  <2>4. pc'[h] = pc[h] /\ st'[h] = o /\ Alone(h)
    <3>1. /\ pc' = [pc EXCEPT ![h] = pc[h]] /\ st' = [st EXCEPT ![h] = o]
          /\ verdict' = verdict
          /\ todo' = [todo EXCEPT ![h] =
                         IF IsTerminal(o) THEN {} ELSE @ \ {t}]
      BY Zenon, <2>1 DEF Fold, Goto
    <3>2. fresh' = {h} BY Zenon DEF Fold
    <3> HIDE DEF o
    <3> QED BY Zenon, <3>1, <3>2, <2>0 DEF HandlerType, Alone
  <2>5. todo'[h] = IF IsTerminal(o) THEN {} ELSE todo[h] \ {t}
    BY Zenon, <2>0, <2>1 DEF Fold, HandlerType
  <2>6. row' = o /\ UNCHANGED venueVars BY Zenon, <2>1 DEF Fold, OmsOnly
  <2>7. t \in Trades /\ t <= traded
    BY Zenon, <2>0 DEF HandlerType, HandlerInv
  <2> HIDE DEF o
  <2>8. Grow
    <3>1. traded' = traded /\ exch' = exch /\ view' = view
      BY Zenon, <2>6 DEF venueVars
    <3>2. traded \in Nat BY Zenon, Facts
    <3>3. traded <= traded' BY <3>1, <3>2
    <3>4. row'.status # "NONE" /\ row'.status \notin Unsent /\ row'.qty = row.qty
      BY Zenon, <2>2, <2>6 DEF Unsent
    <3> QED BY Zenon, <3>1, <3>3, <3>4 DEF Grow
  <2>9. HandlerInv(h)'
    <3>1. Snapshot(h)' /\ HoldsOpen(h)'
      BY Zenon, <2>1, <2>2, <2>4, <2>5, <2>6 DEF Snapshot, HoldsOpen
    <3>2. st[h].ack => exch.state # "UNKNOWN"
      BY Zenon, <2>0 DEF HandlerInv
    <3> QED BY Zenon, <3>1, <3>2, <2>0, <2>1, <2>2, <2>4, <2>5, <2>6
            DEF HandlerInv, venueVars
  <2>10. FoldedOnce'
    <3>1. claims' = claims \cup {t} /\ announced' = [announced EXCEPT ![t] = @ + 1]
      BY DEF Fold
    <3>2. Cardinality(claims) = row.filled
          /\ announced \in [Trades -> Nat] /\ claims \in SUBSET Trades
      BY DEF IInv, TypeOK, StoreInv, FoldedOnce
    <3>3. Cardinality(claims') = row.filled + 1
      <4>1. t \in Trades /\ t \notin claims BY Zenon, <2>7
      <4> QED BY Zenon, <3>1, <3>2, <4>1 DEF FiniteTrades
    <3>4. \A u \in Trades : announced'[u] = IF u \in claims' THEN 1 ELSE 0
      <4>1. \A u \in Trades : announced[u] = IF u \in claims THEN 1 ELSE 0
        BY Zenon DEF IInv, StoreInv, FoldedOnce
      <4>2. announced'[t] = announced[t] + 1
        BY Zenon, <3>1, <3>2, <2>7
      <4>3. \A u \in Trades \ {t} : announced'[u] = announced[u]
        BY Zenon, <3>1, <3>2
      <4>4. announced[t] = 0 BY Zenon, <4>1, <2>7
      <4>5. announced'[t] = 1 BY <4>2, <4>4
      <4> QED BY Zenon, <4>1, <4>3, <4>5, <3>1
    <3>5. \A u \in claims' : u <= traded
      BY Zenon, <3>1, <2>7 DEF IInv, StoreInv, FoldedOnce
    <3> QED BY Zenon, <3>3, <3>4, <3>5, <2>2, <2>6 DEF FoldedOnce, venueVars
  <2>11. StoreInv' BY Zenon, <2>3, <2>6, <2>10 DEF StoreInv
  <2>12. VenueInv'
    BY Zenon, <2>1, <2>2, <2>6
       DEF VenueInv, IInv, AckIsTrue, CancelBeforeRoute, Unsent, venueVars
  <2> QED BY Zenon, <2>4, <2>8, <2>9, <2>11, <2>12, <1>Frame DEF IInv
\* One turn of the fold, claimFill included, keeps the invariant.
<1>FoldTurnStep.
      ASSUME FiniteTrades, IInv, TypeOK', NEW h \in Handlers, FoldTurn(h)
      PROVE  IInv'
  <2> USE <1>FoldTurnStep
  <2>0. HandlerType /\ HandlerInv(h) BY Zenon, TypeParts DEF IInv
  <2> DEFINE t == Next1(todo[h])
  <2>1. t \in todo[h]
    BY Zenon, <2>0 DEF FoldTurn, HandlerType, FiniteTrades
  <2>2. pc[h] \in {"fold", "adopt"} /\ OmsOnly /\ todo[h] # {} /\ UNCHANGED venueVars
    BY Zenon DEF FoldTurn, OmsOnly
  <2> HIDE DEF t
  <2>3. ASSUME Goto(h, "freeze", st[h]), SameWork, NoStore \/ Conflict(h)
        PROVE  IInv'
    <3>1. pc'[h] = "freeze" /\ st'[h] = st[h] /\ todo' = todo /\ Alone(h)
          /\ UNCHANGED storeVars /\ fresh' = fresh
      BY Zenon, <2>0, <2>3, GotoEffect DEF Alone, Conflict, NoStore, storeVars, SameWork
    <3>2. HandlerInv(h)'
      BY Zenon, <2>0, <2>2, <3>1 DEF HandlerInv, Snapshot, HoldsOpen, Live, storeVars,
                              venueVars
    <3> QED BY Zenon, <2>2, <3>1, <3>2, <1>Quiet
  <2>4. ASSUME todo' = [todo EXCEPT ![h] = @ \ {t}],
               UNCHANGED <<pc, st, verdict, held>>, NoStore
        PROVE  IInv'
    <3>1. todo'[h] = todo[h] \ {t} /\ Alone(h)
      BY Zenon, <2>0, <2>4 DEF HandlerType, Alone, NoStore, storeVars
    <3>2. HandlerInv(h)'
      BY Zenon, <2>0, <2>2, <2>4, <3>1 DEF HandlerInv, Snapshot, HoldsOpen, Live,
                                    NoStore, storeVars, venueVars
    <3> QED BY Zenon, <2>2, <2>4, <3>1, <3>2, <1>Quiet DEF NoStore
  <2>5. ASSUME Conflict(h), Return(h) PROVE IInv'
    BY Zenon, <2>2, <2>5, <1>QuietReturn DEF Conflict, NoStore
  <2>6. ASSUME CanFill(st[h]), t \notin claims, Fold(h, t) PROVE IInv'
    BY Zenon, <2>1, <2>2, <2>6, <1>FoldStep
  <2> QED BY Zenon, <2>3, <2>4, <2>5, <2>6 DEF FoldTurn, t
\* The steps that reach the adapter or the exchange.
<1>StoreKept.
      ASSUME IInv, UNCHANGED storeVars, traded' \in Nat, traded <= traded'
      PROVE  StoreInv'
  <2> USE <1>StoreKept
  <2>1. \A t \in claims : t \in Int /\ t <= traded
    BY DEF IInv, TypeOK, StoreInv, FoldedOnce, Trades
  <2>2. traded \in Int BY DEF IInv, TypeOK
  <2>3. \A t \in claims : t <= traded' BY <2>1, <2>2
  <2> QED BY Zenon, <2>3 DEF IInv, StoreInv, FoldedOnce, storeVars
\* The dispatch of an order and the adapter's refusal of a finished one keep
\* the invariant.
<1>DispatchStep.
      ASSUME IInv, TypeOK', NEW h \in Handlers, Dispatch(h) \/ RecordClosed(h)
      PROVE  IInv'
  <2> USE <1>DispatchStep
  <2>0. HandlerType /\ HandlerInv(h) BY Zenon, TypeParts DEF IInv
  <2>1. ASSUME Return(h), NoStore, UNCHANGED venueVars PROVE IInv'
    BY Zenon, <2>1, <1>QuietReturn
  <2>2. ASSUME NEW l \in {"place", "csave"}, Goto(h, l, st[h]), SameWork, NoStore,
               view' # "none", UNCHANGED <<exch, traded>>,
               l = "place" => pc[h] = "dispatch",
               l = "csave" => pc[h] = "record"
        PROVE  IInv'
    <3>1. pc'[h] = l /\ st'[h] = st[h] /\ todo' = todo /\ Alone(h)
          /\ UNCHANGED storeVars /\ fresh' = fresh
      BY <2>0, <2>2, GotoEffect DEF Alone, NoStore, storeVars, SameWork
    <3>2. Grow
      <4>1. row' = row /\ traded' = traded /\ exch' = exch
        BY <2>2, <3>1 DEF storeVars
      <4>2. traded \in Nat BY Zenon, Facts
      <4> QED BY SMTT(30), <4>1, <4>2, <2>2 DEF Grow
    <3>3. Snapshot(h)' /\ HoldsOpen(h)'
      BY Zenon, <2>0, <2>2, <3>1 DEF HandlerInv, Snapshot, HoldsOpen, Live, storeVars
    <3>4. HandlerInv(h)'
      BY Zenon, <2>0, <2>2, <3>1, <3>3 DEF HandlerInv, storeVars
    <3>5. StoreInv'
      <4>1. traded' \in Nat /\ traded <= traded' BY SMTT(30), <2>2, Facts
      <4> QED BY Zenon, <3>1, <4>1, <1>StoreKept
    <3>6. VenueInv'
      BY Zenon, <2>2, <3>1 DEF IInv, VenueInv, AckIsTrue, CancelBeforeRoute, storeVars
    <3> QED BY <3>1, <3>2, <3>4, <3>5, <3>6, <1>Frame DEF IInv
  <2>3. CASE Dispatch(h)
    BY Zenon, <2>1, <2>2, <2>3 DEF Dispatch, venueVars
  <2>4. CASE RecordClosed(h)
    BY Zenon, <2>2, <2>4 DEF RecordClosed
  <2> QED BY Zenon, <2>3, <2>4
\* A step that moves the exchange forward and writes no row keeps the
\* invariant.
<1>ExchangeStep.
      ASSUME IInv, TypeOK', NEW h, Alone(h), UNCHANGED <<storeVars, view>>,
             ExchangeMoves, h \in Handlers => HandlerInv(h)',
             h \in Handlers => pc'[h] \notin {"dispatch", "place"}
      PROVE  IInv'
  <2> USE <1>ExchangeStep
  <2>1. Grow BY Zenon DEF Grow, ExchangeMoves, storeVars
  <2>2. \A g \in Handlers : HandlerInv(g)' BY Zenon, <2>1, <1>Frame
  <2>3. StoreInv' BY Zenon, <1>StoreKept DEF ExchangeMoves
  <2>4. CancelBeforeRoute'
    <3>1. \A g \in Handlers : pc'[g] \in {"dispatch", "place"} => pc[g] = pc'[g]
      BY Zenon DEF Alone
    <3> QED BY Zenon, <3>1 DEF IInv, VenueInv, CancelBeforeRoute, storeVars, ExchangeMoves
  <2>5. VenueInv'
    BY Zenon, <2>4 DEF IInv, VenueInv, AckIsTrue, storeVars, ExchangeMoves
  <2> QED BY Zenon, <2>2, <2>3, <2>5 DEF IInv
\* Place keeps the invariant.
<1>PlaceStep.
      ASSUME IInv, TypeOK', NEW h \in Handlers, Place(h)
      PROVE  IInv'
  <2> USE <1>PlaceStep
  <2>0. HandlerType /\ HandlerInv(h) BY Zenon, TypeParts DEF IInv
  <2>1. pc'[h] = "ack" /\ st'[h] = st[h]
        /\ UNCHANGED <<storeVars, view, fresh>>
    BY Zenon, <2>0 DEF Place, Goto, HandlerType, NoStore
  <2>2. Alone(h)
    BY Zenon, <2>0, <2>1 DEF Place, Goto, HandlerType, Alone, storeVars
  <2>3. view # "none" /\ row.status \notin Unsent /\ st[h].qty = row.qty
    BY Zenon, <2>0 DEF HandlerInv, Place
  <2>4. traded \in Nat /\ traded' \in Nat /\ st[h].qty \in Nat
    <3>1. st[h] \in Order BY Zenon, <2>0 DEF HandlerType
    <3>2. st[h].qty \in Nat BY Zenon, <3>1 DEF Order
    <3> QED BY Zenon, <3>2, Facts, <1>TradedNext
  <2> DEFINE Told ==
        ExchangeMoves /\ exch'.state # "UNKNOWN" /\ \A t \in todo'[h] : t <= traded'
  <2>5. Told
    <3>1. CASE exch.state = "OPEN" /\ UNCHANGED <<exch, placed, traded, todo>>
      <4>1. exch' = exch /\ traded' = traded /\ todo' = todo BY Zenon, <3>1
      <4>2. \A t \in exch.trades \cup todo[h] : t <= traded
        BY Zenon, <2>0 DEF IInv, VenueInv, HandlerInv
      <4>3. exch.qty = row.qty BY Zenon, <3>1 DEF IInv, VenueInv
      <4>4. exch.state # "UNKNOWN" BY Zenon, <3>1
      <4> QED BY SMTT(30), <4>1, <4>2, <4>3, <4>4, <2>3, <2>4 DEF ExchangeMoves
    <3>2. ASSUME NEW n \in 0 .. st[h].qty, NEW lost \in BOOLEAN, Accepted(h, n),
                 todo' = [todo EXCEPT ![h] = IF lost THEN {} ELSE exch'.trades]
          PROVE  Told
      <4>1. /\ traded' = traded + n /\ n \in Nat
            /\ exch'.trades = (traded + 1) .. (traded + n)
            /\ exch'.qty = st[h].qty /\ exch'.state \in {"FILLED", "OPEN"}
        <5>1. traded' = traded + n BY <3>2 DEF Accepted
        <5>2. n \in Nat BY <2>4
        <5>3. /\ exch'.trades = (traded + 1) .. (traded + n)
              /\ exch'.qty = st[h].qty /\ exch'.state \in {"FILLED", "OPEN"}
          BY Zenon, <3>2 DEF Accepted
        <5> QED BY Zenon, <5>1, <5>2, <5>3
      <4>2. \A t \in exch'.trades : t <= traded'
        <5> DEFINE a == traded
                   b == traded'
        <5>1. a \in Nat /\ b \in Nat /\ b = a + n /\ n \in Nat BY Zenon, <4>1, <2>4
        <5>2. exch'.trades = (a + 1) .. (a + n) BY Zenon, <4>1
        <5> HIDE DEF a, b
        <5>3. \A t \in (a + 1) .. (a + n) : t <= b BY <5>1
        <5> QED BY Zenon, <5>2, <5>3 DEF b
      <4>3. todo'[h] \subseteq exch'.trades
        BY Zenon, <3>2, <2>0 DEF HandlerType
      <4>4. traded <= traded' BY <4>1, <2>4
      <4>5. exch'.state # "UNKNOWN" BY Zenon, <4>1
      <4>6. \A t \in todo'[h] : t <= traded' BY Zenon, <4>2, <4>3
      <4>7. exch'.qty = row.qty BY Zenon, <4>1, <2>3
      <4> QED BY Zenon, <4>2, <4>4, <4>5, <4>6, <4>7, <2>3, <2>4 DEF ExchangeMoves
    <3>3. CASE Refused(h) /\ UNCHANGED todo
      <4>1. /\ exch'.state = "REJECTED" /\ exch'.qty = st[h].qty
            /\ exch'.trades = {} /\ traded' = traded /\ todo' = todo
        BY Zenon, <3>3 DEF Refused
      <4>2. \A t \in todo[h] : t <= traded BY Zenon, <2>0 DEF HandlerInv
      <4> QED BY <4>1, <4>2, <2>3, <2>4 DEF ExchangeMoves
    <3> QED BY Zenon, <3>1, <3>2, <3>3 DEF Place
  <2>6. Snapshot(h)' /\ HoldsOpen(h)'
    BY Zenon, <2>0, <2>1 DEF HandlerInv, Snapshot, HoldsOpen, Live, Place, storeVars
  <2>7. HandlerInv(h)'
    BY Zenon, <2>0, <2>1, <2>5, <2>6 DEF HandlerInv
  <2> QED BY Zenon, <2>1, <2>2, <2>5, <2>7, <1>ExchangeStep
\* The cancel at the venue keeps the invariant.
<1>CloseStep.
      ASSUME IInv, TypeOK', NEW h \in Handlers, CloseAtVenue(h)
      PROVE  IInv'
  <2> USE <1>CloseStep
  <2>0. HandlerType /\ HandlerInv(h) BY Zenon, TypeParts DEF IInv
  <2>1. pc'[h] = "record" /\ st'[h] = st[h] /\ todo' = todo /\ Alone(h)
        /\ UNCHANGED <<storeVars, view, fresh, traded>>
    BY Zenon, <2>0, GotoEffect DEF CloseAtVenue, Alone, NoStore, storeVars, SameWork
  <2>2. /\ exch'.trades = exch.trades /\ exch'.qty = exch.qty
        /\ exch'.state = "UNKNOWN" <=> exch.state = "UNKNOWN"
    BY Zenon DEF CloseAtVenue, Withdraw, IInv, TypeOK
  <2>3. ExchangeMoves
    <3>1. /\ \A t \in exch.trades : t <= traded
          /\ exch.state # "UNKNOWN" =>
               view # "none" /\ row.status \notin Unsent /\ exch.qty = row.qty
      BY Zenon DEF IInv, VenueInv
    <3>2. traded \in Nat BY Zenon, Facts
    <3> QED BY SMTT(30), <3>1, <3>2, <2>1, <2>2 DEF ExchangeMoves
  <2>4. Snapshot(h)' /\ HoldsOpen(h)'
    BY Zenon, <2>0, <2>1 DEF HandlerInv, Snapshot, HoldsOpen, Live, CloseAtVenue, storeVars
  <2>5. HandlerInv(h)'
    BY Zenon, <2>0, <2>1, <2>2, <2>4 DEF HandlerInv
  <2> QED BY Zenon, <2>1, <2>3, <2>5, <1>ExchangeStep
\* A step of the exchange on its own keeps the invariant.
<1>VenueStep.
      ASSUME IInv, TypeOK', Venue
      PROVE  IInv'
  <2> USE <1>VenueStep
  <2>1. UNCHANGED storeVars /\ Alone(None)
    BY Zenon DEF Venue, Trade, Lapse, Progress, handlerVars, storeVars, Alone
  <2>2. traded \in Nat /\ traded' \in Nat BY Zenon, Facts, <1>TradedNext
  <2>3. \A t \in exch.trades : t \in Int /\ t <= traded
    BY DEF IInv, TypeOK, VenueInv, Trades
  <2>4. CASE Trade
    <3>1. /\ exch'.trades = exch.trades \cup {traded + 1} /\ exch'.qty = exch.qty
          /\ exch'.state # "UNKNOWN" /\ exch.state # "UNKNOWN"
          /\ traded' = traded + 1
      BY Zenon, <2>4 DEF Trade, IInv, TypeOK
    <3>2. \A t \in exch'.trades : t <= traded' BY <3>1, <2>2, <2>3
    <3>3. ExchangeMoves
      BY <3>1, <3>2, <2>2 DEF ExchangeMoves, IInv, VenueInv
    <3> QED BY Zenon, <3>3, <2>1, <2>4, <1>ExchangeStep, NoneAssumption DEF Trade
  <2>5. CASE Lapse
    <3>1. exch'.trades = exch.trades /\ exch'.qty = exch.qty
          /\ exch'.state # "UNKNOWN" /\ exch.state # "UNKNOWN"
      BY Zenon, <2>5 DEF Lapse, IInv, TypeOK
    <3>2. ExchangeMoves
      BY <3>1, <2>2, <2>3, <2>5 DEF ExchangeMoves, IInv, VenueInv, Lapse
    <3> QED BY Zenon, <3>2, <2>1, <2>5, <1>ExchangeStep, NoneAssumption DEF Lapse
  <2>6. CASE Progress
    <3>1. Grow /\ view' # "none" /\ UNCHANGED <<exch, traded>>
      BY <2>1, <2>2, <2>6 DEF Progress, Grow, storeVars
    <3>2. \A g \in Handlers : HandlerInv(g)'
      BY Zenon, <3>1, <2>1, <1>Frame, NoneAssumption
    <3>3. StoreInv' BY <3>1, <2>1, <2>2, <1>StoreKept
    <3>4. VenueInv'
      BY Zenon, <3>1, <2>1 DEF IInv, VenueInv, AckIsTrue, CancelBeforeRoute, storeVars
    <3> QED BY Zenon, <3>2, <3>3, <3>4 DEF IInv
  <2> QED BY Zenon, <2>4, <2>5, <2>6 DEF Venue
<1>0. TypeOK' BY Zenon, TypeStep DEF IInv
<1>1. ASSUME NEW h \in Handlers, Start(h) \/ Step(h) \/ Fail(h) PROVE IInv'
  BY Zenon, <1>0, <1>1, <1>FinalWrites, <1>MoreFinalWrites, <1>OngoingWrites, <1>QuietSteps,
     <1>CreateStep, <1>FoldTurnStep, <1>DispatchStep, <1>PlaceStep, <1>CloseStep
     DEF Step, Work, Resume
<1>2. CASE UNCHANGED vars
  <2>1. UNCHANGED storeVars /\ UNCHANGED venueVars /\ UNCHANGED handlerVars
    BY Zenon, <1>2 DEF vars
  <2>2. StoreInv' /\ VenueInv'
    BY Zenon, <2>1 DEF IInv, StoreInv, VenueInv, FoldedOnce, AckIsTrue,
                CancelBeforeRoute, storeVars, venueVars, handlerVars
  <2>3. \A h \in Handlers : HandlerInv(h)'
    BY Zenon, <2>1 DEF IInv, HandlerInv, Snapshot, HoldsOpen, storeVars, venueVars,
                handlerVars
  <2> QED BY Zenon, <1>0, <2>2, <2>3 DEF IInv
<1> QED BY Zenon, <1>0, <1>1, <1>2, <1>VenueStep DEF Next

-----------------------------------------------------------------------------
(* What no step does to an order on the books.                             *)

\* The row a step may leave behind.
RowMoves ==
    \/ row' = row
    \/ row.status = "NONE" /\ row = NoOrder
    \/ ~IsTerminal(row) /\ ~row.quar
    \/ IsTerminal(row) /\ row' = [row EXCEPT !.told = TRUE]

\* Every step moves the row forward or leaves it.
LEMMA RowStep ==
    ASSUME IInv, [Next]_vars
    PROVE  RowMoves
\* A Save between claim and return moves the row forward, or only stamps it.
<1>LiveSaveMoves.
      ASSUME IInv, NEW h \in Handlers, NEW o, pc[h] \in Live, Save(h, o),
             ~IsTerminal(row) \/ o = [st[h] EXCEPT !.told = TRUE]
      PROVE  RowMoves
  BY Zenon, <1>LiveSaveMoves, Holder DEF Save, RowMoves
\* A handler that has the newest version of an order it may still move has
\* one that is not terminal.
<1>LiveIsOpen.
      ASSUME IInv, NEW h \in Handlers, pc[h] \in Live, h \in fresh,
             pc[h] \notin {"fold", "adopt"} \/ todo[h] # {}
                                            \/ ~IsTerminal(st[h])
      PROVE  ~IsTerminal(row)
  BY <1>LiveIsOpen, Zenon, Holder
<1>1. ASSUME row' = row PROVE RowMoves BY Zenon, <1>1 DEF RowMoves
<1>2. ASSUME NEW h \in Handlers, NEW o, pc[h] \in Live, Save(h, o),
             pc[h] \notin {"fold", "adopt"} \/ todo[h] # {}
                                            \/ ~IsTerminal(st[h])
      PROVE  RowMoves
  BY Zenon, <1>2, <1>LiveIsOpen, <1>LiveSaveMoves DEF Save
<1>3. ASSUME NEW h \in Handlers, Step(h) PROVE RowMoves
  <2>1. CASE Create(h)
    BY Zenon, <2>1, <1>1 DEF Create, NoStore, storeVars, RowMoves, IInv, StoreInv, Sound
  <2>2. CASE CompleteOutcome(h)
    <3>1. ASSUME h \in fresh PROVE st[h] = row /\ IsTerminal(row)
      BY Zenon, <2>2, <3>1 DEF CompleteOutcome, IInv, HandlerInv, Snapshot
    <3> QED BY Zenon, <2>2, <3>1, <1>1 DEF CompleteOutcome, SaveAndReturn, Save,
                                    Conflict, storeVars, RowMoves
  <2>31. ASSUME NEW o, pc[h] \in Live, Save(h, o) \/ Conflict(h),
                pc[h] \notin {"fold", "adopt"} \/ todo[h] # {}
                                               \/ ~IsTerminal(st[h])
         PROVE  RowMoves
    <3>1. CASE Save(h, o) BY Zenon, <3>1, <2>31, <1>2
    <3>2. CASE Conflict(h) BY Zenon, <3>2, <1>1 DEF Conflict, storeVars
    <3> QED BY Zenon, <3>1, <3>2, <2>31
  <2>32. CASE Freeze(h)
    <3>1. pc[h] = "freeze" /\ (Save(h, [st[h] EXCEPT !.quar = TRUE]) \/ Conflict(h))
      BY Zenon, <2>32 DEF Freeze, SaveAndReturn
    <3>2. pc[h] \in Live /\ pc[h] \notin {"fold", "adopt"} BY Zenon, <3>1 DEF Live
    <3> QED BY Zenon, <3>1, <3>2, <2>31
  <2>33. CASE SaveRejected(h)
    <3>1. pc[h] = "reject" /\ (Save(h, Reject(st[h])) \/ Conflict(h))
      BY <2>33 DEF SaveRejected, SaveAndReturn
    <3>2. pc[h] \in Live /\ pc[h] \notin {"fold", "adopt"} BY Zenon, <3>1 DEF Live
    <3> QED BY <3>1, <3>2, <2>31
  <2>34. CASE SaveCancelled(h)
    <3>1. pc[h] = "csave" /\ (Save(h, Cancel(st[h])) \/ Conflict(h))
      BY Zenon, <2>34 DEF SaveCancelled, SaveAndReturn
    <3>2. pc[h] \in Live /\ pc[h] \notin {"fold", "adopt"} BY Zenon, <3>1 DEF Live
    <3> QED BY Zenon, <3>1, <3>2, <2>31
  <2>35. CASE SaveRouted(h)
    <3>1. pc[h] = "route" /\ (Save(h, Route(st[h])) \/ Conflict(h))
      BY Zenon, <2>35 DEF SaveRouted, SaveThen
    <3>2. pc[h] \in Live /\ pc[h] \notin {"fold", "adopt"} BY Zenon, <3>1 DEF Live
    <3> QED BY Zenon, <3>1, <3>2, <2>31
  <2>41. CASE SaveAck(h)
    <3>1. pc[h] = "ack" /\ (Save(h, [st[h] EXCEPT !.ack = TRUE]) \/ Conflict(h))
      BY Zenon, <2>41 DEF SaveAck
    <3>2. pc[h] \in Live /\ pc[h] \notin {"fold", "adopt"} BY Zenon, <3>1 DEF Live
    <3> QED BY Zenon, <3>1, <3>2, <2>31
  <2>42. CASE StampAck(h)
    <3>1. pc[h] = "stamp" /\ (Save(h, [st[h] EXCEPT !.ack = TRUE]) \/ Conflict(h))
      BY Zenon, <2>42 DEF StampAck, SaveAndReturn, SaveThen
    <3>2. pc[h] \in Live /\ pc[h] \notin {"fold", "adopt"} BY Zenon, <3>1 DEF Live
    <3> QED BY Zenon, <3>1, <3>2, <2>31
  <2>5. CASE SaveAmended(h)
    <3>1. ASSUME NEW q \in Qtys, SaveAndReturn(h, Amend(st[h], q)) PROVE RowMoves
      <4>1. pc[h] = "asave" /\ (Save(h, Amend(st[h], q)) \/ Conflict(h))
        BY Zenon, <2>5, <3>1 DEF SaveAmended, SaveAndReturn
      <4>2. pc[h] \in Live /\ pc[h] \notin {"fold", "adopt"} BY Zenon, <4>1 DEF Live
      <4> QED BY Zenon, <4>1, <4>2, <2>31
    <3>2. ASSUME NoStore PROVE RowMoves BY Zenon, <3>2, <1>1 DEF NoStore, storeVars
    <3> QED BY Zenon, <3>1, <3>2, <2>5 DEF SaveAmended
  <2>6. CASE AdoptDone(h)
    <3>1. ASSUME NoStore PROVE RowMoves BY Zenon, <3>1, <1>1 DEF NoStore, storeVars
    <3>2. ASSUME SaveAndReturn(h, Withdrawn(st[h], verdict[h])), ~IsTerminal(st[h])
          PROVE  RowMoves
      <4>1. pc[h] \in Live BY Zenon, <2>6 DEF AdoptDone, Live
      <4>2. Save(h, Withdrawn(st[h], verdict[h])) \/ Conflict(h) BY Zenon, <3>2 DEF SaveAndReturn
      <4> QED BY Zenon, <4>1, <4>2, <3>2, <2>31
    <3>3. \/ SaveAndReturn(h, Withdrawn(st[h], verdict[h])) /\ ~IsTerminal(st[h])
          \/ NoStore
      BY Zenon, <2>6 DEF AdoptDone
    <3> QED BY Zenon, <3>1, <3>2, <3>3
  <2>7. CASE WorkDone(h)
    BY <2>7, <1>1, <1>LiveSaveMoves DEF WorkDone, SaveAndReturn, NoStore, Conflict,
         storeVars, Live
  <2>8. CASE FoldTurn(h)
    <3>1. ASSUME h \in fresh PROVE ~IsTerminal(row) /\ ~row.quar
      BY Zenon, <2>8, <3>1, <1>LiveIsOpen, Holder DEF FoldTurn, Live
    <3> QED BY Zenon, <2>8, <3>1, <1>1 DEF FoldTurn, Fold, Conflict, NoStore,
                                    storeVars, RowMoves
  <2>9. CASE \/ Refuse(h) \/ ClaimSubmit(h) \/ Dispatch(h) \/ Place(h)
             \/ Unpriced(h) \/ ClaimResume(h) \/ Reload(h) \/ QueryOrder(h)
             \/ AppliedFills(h) \/ AwaitClaim(h) \/ LoadToCancel(h)
             \/ CloseAtVenue(h) \/ RecordClosed(h) \/ LoadToAmend(h)
    BY Zenon, <2>9, <1>1 DEF Refuse, ClaimSubmit, Dispatch, Place, Unpriced,
         ClaimResume, TryClaim, Reload, QueryOrder, AppliedFills, AwaitClaim,
         LoadToCancel, CloseAtVenue, RecordClosed, LoadToAmend, NoStore, Load,
         storeVars
  <2> QED BY Zenon, <1>3, <2>1, <2>2, <2>32, <2>33, <2>34, <2>35, <2>41, <2>42,
              <2>5, <2>6, <2>7, <2>8, <2>9
          DEF Step, Work, Resume
<1>4. ASSUME NEW h \in Handlers, Start(h) \/ Fail(h) PROVE RowMoves
  BY Zenon, <1>1, <1>4 DEF Start, StartSubmit, StartWait, StartSweep, Fail, Load,
                    NoStore, storeVars
<1>5. CASE Venue
  BY Zenon, <1>1, <1>5 DEF Venue, Trade, Lapse, Progress, storeVars
<1>6. CASE UNCHANGED vars
  BY Zenon, <1>1, <1>6 DEF vars, storeVars
<1> QED BY Zenon, <1>3, <1>4, <1>5, <1>6 DEF Next

-----------------------------------------------------------------------------
(***************************************************************************)
(* All handlers in one replica.  What is proved of it rests on the         *)
(* per-order claim, which a process keeps for itself: every call to the    *)
(* store after the claim, and every call to the venue, is made by its      *)
(* holder, so what the holder learned from the venue is still true when it *)
(* acts on it.  Between replicas nothing takes the claim's place.          *)
(***************************************************************************)
OneReplica == \A g, h \in Handlers : Home[g] = Home[h]

\* The places a handler reaches only with the claim.
Critical == (Live \ {"claim"}) \cup {"rload", "complete", "cload", "aload"}

Withdrawals == {"CANCELLED", "EXPIRED"}

ClaimInv(h) ==
    /\ pc[h] \in Critical => held[Home[h]] = h
    /\ pc[h] = "route" /\ h \in fresh => exch.state = "UNKNOWN"
    /\ pc[h] \in {"dispatch", "place"} =>
         exch.state = "UNKNOWN" /\ row.status = "ROUTED"
    /\ pc[h] \in {"record", "csave"} => exch.state # "OPEN"
    /\ pc[h] \in {"stamp", "applied", "adopt"} /\ verdict[h] \in Withdrawals =>
         /\ exch.state # "OPEN"
         /\ ~IsTerminal(st[h]) => exch.trades \subseteq claims \cup todo[h]

EndInv ==
    /\ exch.state = "UNKNOWN" => placed = 0
    /\ OnePlacement
    /\ row.status \in Withdrawals => exch.state # "OPEN"
    /\ ExpiredIsComplete

OneInv == IInv /\ EndInv /\ \A h \in Handlers : ClaimInv(h)

-----------------------------------------------------------------------------
\* A step that leaves what EndInv speaks of alone.
SameEnd ==
    /\ UNCHANGED <<exch, placed>>
    /\ row'.status = row.status \/ row'.status \notin Withdrawals
    /\ claims \subseteq claims'

\* With one replica, every step keeps the invariant.
LEMMA OneStep ==
    ASSUME FiniteTrades, OneReplica, OneInv, [Next]_vars
    PROVE  OneInv'
\* The claim excludes: at most one handler is past it.
<1>Sole.
      ASSUME OneReplica, OneInv, NEW h \in Handlers, pc[h] \in Critical,
             NEW g \in Handlers \ {h}
      PROVE  pc[g] \notin Critical
  BY Zenon, <1>Sole DEF OneReplica, OneInv, ClaimInv
\* A handler outside its claimed section owes the claim nothing.
<1>NotCritical.
      ASSUME NEW h \in Handlers, pc'[h] \notin Critical
      PROVE  ClaimInv(h)'
  BY Zenon, <1>NotCritical DEF ClaimInv, Critical, Live
\* A step of the holder: the others are not past the claim.
<1>CriticalStep.
      ASSUME OneReplica, OneInv, IInv', NEW h \in Handlers, pc[h] \in Critical,
             \A g \in Handlers \ {h} : pc'[g] = pc[g],
             ClaimInv(h)', EndInv'
      PROVE  OneInv'
  <2> USE <1>CriticalStep
  <2>1. \A g \in Handlers \ {h} : ClaimInv(g)' BY Zenon, <1>Sole, <1>NotCritical
  <2> QED BY Zenon, <2>1 DEF OneInv
\* A handler that returns, and with it releases the claim, keeps the
\* invariant.
<1>CriticalReturn.
      ASSUME OneReplica, OneInv, IInv', NEW h \in Handlers, pc[h] \in Critical,
             Return(h), EndInv'
      PROVE  OneInv'
  <2> USE <1>CriticalReturn
  <2>1. HandlerType BY Zenon, TypeParts DEF OneInv, IInv
  <2>2. pc'[h] = "idle" /\ \A g \in Handlers \ {h} : pc'[g] = pc[g]
    BY Zenon, <2>1, ReturnEffect
  <2>3. ClaimInv(h)' BY Zenon, <2>2, <1>NotCritical DEF Critical, Live
  <2> QED BY Zenon, <2>2, <2>3, <1>CriticalStep
\* A step that neither withdraws the order nor moves the exchange keeps what is known of
\* the order's end.
<1>EndKept. ASSUME OneInv, SameEnd PROVE EndInv'
  BY Zenon, <1>EndKept DEF OneInv, EndInv, SameEnd, OnePlacement, ExpiredIsComplete, Withdrawals
\* So does one that touches neither the store nor the exchange.
<1>QuietEnd.
      ASSUME OneInv, UNCHANGED storeVars,
             UNCHANGED <<exch, placed>>
      PROVE  EndInv'
  <2> USE <1>QuietEnd
  <2>1. SameEnd BY Zenon DEF SameEnd, storeVars
  <2> QED BY Zenon, <2>1, <1>EndKept
\* The writes of the holder that leave no withdrawal behind.
<1>HolderWrites.
      ASSUME OneReplica, OneInv, IInv', NEW h \in Handlers,
             \/ Freeze(h) \/ SaveRejected(h) \/ CompleteOutcome(h)
             \/ WorkDone(h) \/ SaveAmended(h)
      PROVE  OneInv'
  <2> USE <1>HolderWrites
  <2>0. st[h] \in Order BY Zenon DEF OneInv, IInv, TypeOK
  <2>1. pc[h] \in Critical /\ Return(h) /\ UNCHANGED <<exch, placed>>
    BY Zenon DEF Freeze, SaveRejected, CompleteOutcome, WorkDone, SaveAmended,
           SaveAndReturn, OmsOnly, venueVars, Critical, Live
  <2>2. SameEnd
    <3>1. ASSUME NEW o, Save(h, o), o.status \in {st[h].status, "REJECTED"}
          PROVE  SameEnd
      <4>1. st[h] = row
        BY Zenon, <2>1, <3>1 DEF OneInv, IInv, HandlerInv, Snapshot, Save, Critical, Live,
             Freeze, SaveRejected, CompleteOutcome, WorkDone, SaveAmended
      <4> QED BY Zenon, <4>1, <3>1, <2>1 DEF Save, SameEnd, Withdrawals
    <3>2. ASSUME Conflict(h) \/ NoStore PROVE SameEnd
      BY Zenon, <3>2, <2>1 DEF Conflict, NoStore, storeVars, SameEnd
    <3>3. /\ [st[h] EXCEPT !.quar = TRUE].status = st[h].status
          /\ [st[h] EXCEPT !.told = TRUE].status = st[h].status
          /\ Reject(st[h]).status = "REJECTED"
          /\ \A q : Amend(st[h], q).status = st[h].status
      BY Zenon, <2>0 DEF Order, Reject, Amend
    <3> QED BY Zenon, <3>1, <3>2, <3>3 DEF Freeze, SaveRejected, CompleteOutcome,
               WorkDone, SaveAmended, SaveAndReturn
  <2> QED BY Zenon, <2>1, <2>2, <1>EndKept, <1>CriticalReturn
\* The writes that end an order as withdrawn: the holder knows that the
\* exchange has closed it and, for an expiry, that its trades are in.
<1>WithdrawalWrites.
      ASSUME OneReplica, OneInv, IInv', NEW h \in Handlers,
             SaveCancelled(h) \/ AdoptDone(h)
      PROVE  OneInv'
  <2> USE <1>WithdrawalWrites
  <2>0. st[h] \in Order /\ ClaimInv(h) BY Zenon DEF OneInv, IInv, TypeOK
  <2>1. pc[h] \in Critical /\ Return(h) /\ UNCHANGED <<exch, placed>>
    BY Zenon DEF SaveCancelled, AdoptDone, SaveAndReturn, OmsOnly, venueVars, Critical, Live
  <2>2. ASSUME UNCHANGED storeVars PROVE EndInv'
    BY Zenon, <2>1, <2>2, <1>QuietEnd
  <2>3. CASE SaveCancelled(h)
    <3>1. exch.state # "OPEN" BY Zenon, <2>0, <2>3 DEF SaveCancelled, ClaimInv
    <3>2. ASSUME Save(h, Cancel(st[h])) PROVE EndInv'
      <4>1. row'.status = "CANCELLED" BY Zenon, <3>2, <2>0 DEF Save, Cancel, Order
      <4> QED BY <4>1, <3>1, <2>1 DEF OneInv, EndInv, OnePlacement,
                                      ExpiredIsComplete
    <3>3. EndInv'
      BY Zenon, <2>2, <2>3, <3>2 DEF SaveCancelled, SaveAndReturn, Conflict
    <3> QED BY Zenon, <3>3, <2>1, <1>CriticalReturn
  <2>4. CASE AdoptDone(h)
    <3>1. ASSUME verdict[h] \in Withdrawals, ~IsTerminal(st[h]),
                 Save(h, Withdrawn(st[h], verdict[h]))
          PROVE  EndInv'
      <4>1. exch.state # "OPEN" /\ exch.trades \subseteq claims
        BY Zenon, <3>1, <2>0, <2>4 DEF AdoptDone, ClaimInv
      <4>2. claims' = claims BY Zenon, <3>1 DEF Save
      <4> QED BY Zenon, <4>1, <4>2, <2>1 DEF OneInv, EndInv, OnePlacement,
                                      ExpiredIsComplete
    <3>2. EndInv'
      BY Zenon, <2>2, <2>4, <3>1 DEF AdoptDone, SaveAndReturn, Conflict, NoStore, Withdrawals
    <3> QED BY Zenon, <3>2, <2>1, <1>CriticalReturn
  <2> QED BY Zenon, <2>3, <2>4
\* The writes after which the holder goes on.
<1>HolderGoesOn.
      ASSUME OneReplica, OneInv, IInv', NEW h \in Handlers,
             SaveRouted(h) \/ StampAck(h) \/ SaveAck(h)
      PROVE  OneInv'
  <2> USE <1>HolderGoesOn
  <2>0. HandlerType /\ st[h] \in Order /\ ClaimInv(h)
    BY Zenon, TypeParts DEF OneInv, IInv, TypeOK
  <2>1. pc[h] \in Critical /\ UNCHANGED <<exch, placed>>
    BY Zenon DEF SaveRouted, StampAck, SaveAck, SaveThen, SaveAndReturn, OmsOnly,
           venueVars, Critical, Live
  <2>2. ASSUME Conflict(h), Return(h) PROVE OneInv'
    BY Zenon, <2>1, <2>2, <1>QuietEnd, <1>CriticalReturn DEF Conflict
  <2>3. ASSUME NEW l, NEW o, Goto(h, l, o), SameWork
        PROVE  /\ pc'[h] = l /\ st'[h] = o /\ UNCHANGED <<held, todo, verdict>>
               /\ held[Home[h]] = h
               /\ \A g \in Handlers \ {h} : pc'[g] = pc[g]
    <3>1. pc'[h] = l /\ st'[h] = o /\ \A g \in Handlers \ {h} : pc'[g] = pc[g]
      BY Zenon, <2>0, <2>3 DEF Goto, HandlerType
    <3>2. UNCHANGED <<held, todo, verdict>> BY Zenon, <2>3 DEF Goto, SameWork
    <3>3. held[Home[h]] = h BY Zenon, <2>0, <2>1 DEF ClaimInv
    <3> QED BY Zenon, <3>1, <3>2, <3>3
  <2>4. CASE SaveRouted(h)
    <3>1. ASSUME Save(h, Route(st[h])), Goto(h, "dispatch", Route(st[h])), SameWork
          PROVE  OneInv'
      <4>1. row'.status = "ROUTED" /\ exch.state = "UNKNOWN"
        BY Zenon, <2>0, <2>4, <3>1 DEF Save, Route, Order, SaveRouted, ClaimInv
      <4>2. EndInv'
        BY Zenon, <4>1, <2>1, <3>1, <1>EndKept DEF SameEnd, Save, Withdrawals
      <4>3. ClaimInv(h)' BY Zenon, <4>1, <2>1, <2>3, <3>1 DEF ClaimInv
      <4> QED BY Zenon, <4>2, <4>3, <2>1, <2>3, <3>1, <1>CriticalStep
    <3> QED BY Zenon, <2>2, <2>4, <3>1 DEF SaveRouted, SaveThen
  <2>5. ASSUME Save(h, [st[h] EXCEPT !.ack = TRUE]), pc[h] \in {"ack", "stamp"}
        PROVE  EndInv'
    <3>1. st[h] = row
      BY Zenon, <2>5 DEF OneInv, IInv, HandlerInv, Snapshot, Save, Live
    <3>2. row'.status = row.status /\ claims' = claims
      BY Zenon, <3>1, <2>0, <2>5 DEF Save, Order
    <3> QED BY Zenon, <3>2, <2>1, <1>EndKept DEF SameEnd
  <2>6. CASE SaveAck(h)
    <3> DEFINE o == [st[h] EXCEPT !.ack = TRUE]
    <3>1. ASSUME Save(h, o), Goto(h, "fold", o), SameWork PROVE OneInv'
      <4>1. EndInv' BY Zenon, <2>5, <2>6, <3>1 DEF SaveAck
      <4>2. ClaimInv(h)' BY <2>3, <3>1 DEF ClaimInv
      <4> QED BY Zenon, <4>1, <4>2, <2>1, <2>3, <3>1, <1>CriticalStep
    <3>2. ASSUME Conflict(h), Goto(h, "freeze", st[h]), SameWork PROVE OneInv'
      <4>1. EndInv' BY Zenon, <2>1, <3>2, <1>QuietEnd DEF Conflict
      <4>2. ClaimInv(h)' BY <2>3, <3>2 DEF ClaimInv
      <4> QED BY Zenon, <4>1, <4>2, <2>1, <2>3, <3>2, <1>CriticalStep
    <3> QED BY Zenon, <2>6, <3>1, <3>2 DEF SaveAck
  <2>7. CASE StampAck(h)
    <3> DEFINE o == [st[h] EXCEPT !.ack = TRUE]
    <3>1. ASSUME Save(h, o) PROVE EndInv' BY Zenon, <2>5, <2>7, <3>1 DEF StampAck
    <3>2. ASSUME SaveAndReturn(h, o) PROVE OneInv'
      BY Zenon, <2>1, <2>2, <3>1, <3>2, <1>CriticalReturn DEF SaveAndReturn
    <3>3. ASSUME Save(h, o), Goto(h, "applied", o), SameWork PROVE OneInv'
      <4>1. IsTerminal(o) = IsTerminal(st[h]) BY Zenon, <2>0 DEF IsTerminal, Order
      <4>2. claims' = claims BY Zenon, <3>3 DEF Save
      <4>3. ClaimInv(h)'
        BY <4>1, <4>2, <2>0, <2>1, <2>3, <2>7, <3>3 DEF ClaimInv, StampAck
      <4> QED BY Zenon, <4>3, <2>1, <2>3, <3>1, <3>3, <1>CriticalStep
    <3> QED BY Zenon, <2>2, <2>7, <3>2, <3>3 DEF StampAck, SaveThen
  <2> QED BY Zenon, <2>4, <2>6, <2>7
\* The holder's reads and its calls to the venue.
<1>HolderReads.
      ASSUME OneReplica, OneInv, IInv', NEW h \in Handlers,
             \/ Unpriced(h) \/ Reload(h) \/ QueryOrder(h) \/ AppliedFills(h)
             \/ LoadToCancel(h) \/ LoadToAmend(h) \/ Dispatch(h)
             \/ RecordClosed(h)
      PROVE  OneInv'
  <2> USE <1>HolderReads
  <2>0. HandlerType /\ ClaimInv(h) /\ HandlerInv(h)
    BY Zenon, TypeParts DEF OneInv, IInv
  <2>1. /\ pc[h] \in Critical /\ UNCHANGED <<exch, placed>>
        /\ UNCHANGED storeVars /\ fresh \ {h} = fresh' \ {h}
    BY Zenon DEF Unpriced, Reload, QueryOrder, AppliedFills, LoadToCancel, LoadToAmend,
           Dispatch, RecordClosed, NoStore, Load, OmsOnly, venueVars, Critical, Live
  <2>2. EndInv' BY Zenon, <2>1, <1>QuietEnd
  <2>3. ASSUME Return(h) PROVE OneInv' BY Zenon, <2>1, <2>2, <2>3, <1>CriticalReturn
  <2>4. ASSUME NEW l, NEW o, Goto(h, l, o), ClaimInv(h)' PROVE OneInv'
    <3>1. \A g \in Handlers \ {h} : pc'[g] = pc[g]
      BY Zenon, <2>0, <2>4 DEF Goto, HandlerType
    <3> QED BY Zenon, <3>1, <2>1, <2>2, <2>4, <1>CriticalStep
  <2>5. ASSUME NEW l, NEW o, Goto(h, l, o)
        PROVE  pc'[h] = l /\ st'[h] = o /\ held'[Home[h]] = h
    BY Zenon, <2>0, <2>1, <2>5 DEF Goto, HandlerType, ClaimInv
  <2>6. CASE Unpriced(h)
    <3>1. ASSUME Goto(h, "reject", st[h]) PROVE OneInv'
      <4>1. ClaimInv(h)' BY <2>5, <3>1 DEF ClaimInv
      <4> QED BY Zenon, <4>1, <3>1, <2>4
    <3> QED BY Zenon, <2>3, <2>6, <3>1 DEF Unpriced
  <2>7. CASE Reload(h)
    <3>1. ASSUME NEW l \in {"complete", "query", "route"}, Goto(h, l, row),
                 l = "route" => row.status = "PENDING_NEW"
          PROVE  OneInv'
      <4>1. l = "route" => exch'.state = "UNKNOWN"
        BY Zenon, <3>1, <2>1 DEF OneInv, IInv, VenueInv, Unsent
      <4>2. ClaimInv(h)' BY Zenon, <4>1, <2>5, <3>1 DEF ClaimInv
      <4> QED BY Zenon, <4>2, <3>1, <2>4
    <3> QED BY Zenon, <2>3, <2>7, <3>1 DEF Reload
  <2>8. CASE QueryOrder(h)
    <3>0. pc[h] = "query" /\ ~IsTerminal(st[h])
      BY Zenon, <2>0, <2>8 DEF QueryOrder, HandlerInv, HoldsOpen, Live
    <3>1. ASSUME NEW v \in {Verdict, "INDETERMINATE"},
                 NEW l \in {"stamp", "route", "freeze", "reject", "applied"},
                 Goto(h, l, st[h]),
                 verdict' = [verdict EXCEPT ![h] = v],
                 todo' = [todo EXCEPT ![h] =
                            IF Reconcile(st[h], v) = "adopt"
                            THEN exch.trades ELSE {}],
                 l = "route" => Reconcile(st[h], v) = "redrive"
          PROVE  OneInv'
      <4>1. l = "route" => exch.state = "UNKNOWN"
        BY Zenon, <3>1 DEF Reconcile, Verdict
      <4>2. v \in Withdrawals =>
              exch.state # "OPEN" /\ Reconcile(st[h], v) = "adopt"
        BY Zenon, <3>0, <3>1 DEF Withdrawals, Verdict, Reconcile, Terminal
      <4>3. verdict'[h] = v /\ (v \in Withdrawals => todo'[h] = exch.trades)
        BY Zenon, <4>2, <3>1, <2>0 DEF HandlerType
      <4>4. ClaimInv(h)' BY Zenon, <4>1, <4>2, <4>3, <2>1, <2>5, <3>1 DEF ClaimInv
      <4> QED BY Zenon, <4>4, <3>1, <2>4
    <3> QED BY Zenon, <2>3, <2>8, <3>1 DEF QueryOrder
  <2>9. CASE AppliedFills(h)
    <3>1. todo'[h] = todo[h] \ claims /\ verdict' = verdict
      BY Zenon, <2>0, <2>9 DEF AppliedFills, HandlerType
    <3>2. ClaimInv(h)'
      <4>1. pc[h] = "applied" /\ Goto(h, "adopt", st[h]) /\ UNCHANGED storeVars
        BY Zenon, <2>1, <2>9 DEF AppliedFills
      <4>2. pc'[h] = "adopt" /\ st'[h] = st[h] /\ held'[Home[h]] = h
        BY Zenon, <4>1, <2>5
      <4>3. exch' = exch /\ claims' = claims BY Zenon, <4>1, <2>1 DEF storeVars
      <4>4. verdict[h] \in Withdrawals =>
              /\ exch.state # "OPEN"
              /\ ~IsTerminal(st[h]) => exch.trades \subseteq claims \cup todo[h]
        BY Zenon, <4>1, <2>0 DEF ClaimInv
      <4>5. verdict'[h] \in Withdrawals =>
              /\ exch'.state # "OPEN"
              /\ ~IsTerminal(st'[h]) => exch'.trades \subseteq claims' \cup todo'[h]
        BY Zenon, <4>2, <4>3, <4>4, <3>1
      <4> QED BY Zenon, <4>2, <4>5 DEF ClaimInv
    <3> QED BY Zenon, <3>2, <2>4, <2>9 DEF AppliedFills
  <2>10. CASE LoadToCancel(h)
    <3>1. ASSUME NEW l \in {"csave", "close"}, Goto(h, l, row),
                 l = "csave" => NeverSent(row)
          PROVE  OneInv'
      <4>1. l = "csave" => exch'.state = "UNKNOWN"
        BY Zenon, <3>1, <2>1 DEF OneInv, IInv, VenueInv, Unsent, NeverSent
      <4>2. ClaimInv(h)' BY Zenon, <4>1, <2>5, <3>1 DEF ClaimInv
      <4> QED BY Zenon, <4>2, <3>1, <2>4
    <3> QED BY Zenon, <2>3, <2>10, <3>1 DEF LoadToCancel
  <2>11. CASE LoadToAmend(h)
    <3>1. ASSUME Goto(h, "asave", row) PROVE OneInv'
      <4>1. pc'[h] = "asave" /\ held'[Home[h]] = h BY Zenon, <2>5, <3>1
      <4>2. ClaimInv(h)' BY <4>1 DEF ClaimInv
      <4> QED BY Zenon, <4>2, <3>1, <2>4
    <3> QED BY Zenon, <2>3, <2>11, <3>1 DEF LoadToAmend
  <2>12. CASE Dispatch(h)
    <3>1. ASSUME Goto(h, "place", st[h]) PROVE OneInv'
      <4>1. ClaimInv(h)'
        <5>1. pc[h] = "dispatch" /\ exch' = exch /\ row' = row
          BY Zenon, <2>1, <2>12 DEF Dispatch, storeVars
        <5>2. exch.state = "UNKNOWN" /\ row.status = "ROUTED"
          BY Zenon, <5>1, <2>0 DEF ClaimInv
        <5>3. pc'[h] = "place" /\ held'[Home[h]] = h BY Zenon, <2>5, <3>1
        <5> QED BY Zenon, <5>1, <5>2, <5>3 DEF ClaimInv
      <4> QED BY Zenon, <4>1, <3>1, <2>4
    <3> QED BY Zenon, <2>3, <2>12, <3>1 DEF Dispatch
  <2>13. CASE RecordClosed(h)
    <3>1. ClaimInv(h)'
      <4>1. pc'[h] = "csave" /\ held'[Home[h]] = h
        BY Zenon, <2>5, <2>13 DEF RecordClosed
      <4>2. exch'.state # "OPEN" BY Zenon, <2>0, <2>1, <2>13 DEF ClaimInv, RecordClosed
      <4> QED BY Zenon, <4>1, <4>2 DEF ClaimInv
    <3> QED BY Zenon, <3>1, <2>4, <2>13 DEF RecordClosed
  <2> QED BY Zenon, <2>6, <2>7, <2>8, <2>9, <2>10, <2>11, <2>12, <2>13
\* The placement is the first: the holder was told that the exchange does
\* not know the order, and nobody has placed it since.
<1>HolderPlaces.
      ASSUME OneReplica, OneInv, IInv', NEW h \in Handlers, Place(h)
      PROVE  OneInv'
  <2> USE <1>HolderPlaces
  <2>0. HandlerType /\ ClaimInv(h) BY Zenon, TypeParts DEF OneInv, IInv
  <2>1. /\ pc[h] \in Critical /\ exch.state = "UNKNOWN" /\ row.status = "ROUTED"
        /\ held[Home[h]] = h /\ placed = 0
    BY Zenon, <2>0 DEF Place, ClaimInv, Critical, Live, OneInv, EndInv
  <2>2. /\ pc'[h] = "ack" /\ held' = held /\ UNCHANGED storeVars
        /\ \A g \in Handlers \ {h} : pc'[g] = pc[g]
    BY Zenon, <2>0 DEF Place, Goto, HandlerType, NoStore
  <2>3. exch'.state # "UNKNOWN" /\ placed' <= 1
    BY <2>1 DEF Place, Accepted, Refused
  <2>4. EndInv'
    BY Zenon, <2>1, <2>2, <2>3 DEF EndInv, OnePlacement, ExpiredIsComplete, Withdrawals,
                            storeVars
  <2>5. ClaimInv(h)' BY Zenon, <2>1, <2>2 DEF ClaimInv
  <2> QED BY Zenon, <2>1, <2>2, <2>4, <2>5, <1>CriticalStep
\* The claim's holder cancelling at the venue keeps the invariant.
<1>HolderCloses.
      ASSUME OneReplica, OneInv, IInv', NEW h \in Handlers, CloseAtVenue(h)
      PROVE  OneInv'
  <2> USE <1>HolderCloses
  <2>0. HandlerType /\ ClaimInv(h) BY Zenon, TypeParts DEF OneInv, IInv
  <2>1. pc[h] \in Critical /\ held[Home[h]] = h
    BY Zenon, <2>0 DEF CloseAtVenue, ClaimInv, Critical, Live
  <2>2. /\ pc'[h] = "record" /\ held' = held /\ UNCHANGED storeVars
        /\ placed' = placed
        /\ \A g \in Handlers \ {h} : pc'[g] = pc[g]
    BY Zenon, <2>0 DEF CloseAtVenue, Goto, HandlerType, NoStore
  <2>3. /\ exch'.state # "OPEN" /\ exch'.trades = exch.trades
        /\ exch'.state = "UNKNOWN" => exch.state = "UNKNOWN"
    BY Zenon DEF CloseAtVenue, Withdraw, OneInv, IInv, TypeOK
  <2>4. EndInv'
    BY Zenon, <2>2, <2>3 DEF OneInv, EndInv, OnePlacement, ExpiredIsComplete, storeVars
  <2>5. ClaimInv(h)' BY Zenon, <2>1, <2>2, <2>3 DEF ClaimInv
  <2> QED BY Zenon, <2>1, <2>2, <2>4, <2>5, <1>CriticalStep
\* A fold claims the trade it takes off the list.
<1>HolderFolds.
      ASSUME OneReplica, OneInv, IInv', NEW h \in Handlers, FoldTurn(h)
      PROVE  OneInv'
  <2> USE <1>HolderFolds
  <2>0. HandlerType /\ ClaimInv(h) BY Zenon, TypeParts DEF OneInv, IInv
  <2>1. /\ pc[h] \in Critical /\ held[Home[h]] = h /\ UNCHANGED <<exch, placed>>
        /\ pc[h] \in {"fold", "adopt"}
    BY Zenon, <2>0 DEF FoldTurn, ClaimInv, Critical, Live, OmsOnly, venueVars
  <2> DEFINE t == Next1(todo[h])
  <2>2. ASSUME UNCHANGED storeVars PROVE EndInv' BY Zenon, <2>1, <2>2, <1>QuietEnd
  <2>3. ASSUME Goto(h, "freeze", st[h]), UNCHANGED storeVars PROVE OneInv'
    <3>1. pc'[h] = "freeze" /\ held' = held
          /\ \A g \in Handlers \ {h} : pc'[g] = pc[g]
      BY Zenon, <2>0, <2>3 DEF Goto, HandlerType
    <3>2. ClaimInv(h)' BY Zenon, <3>1, <2>1 DEF ClaimInv
    <3> QED BY Zenon, <3>1, <3>2, <2>1, <2>2, <2>3, <1>CriticalStep
  <2>4. ASSUME t \in claims, todo' = [todo EXCEPT ![h] = @ \ {t}],
               UNCHANGED <<pc, st, verdict, held>>, UNCHANGED storeVars
        PROVE  OneInv'
    <3>1. todo'[h] = todo[h] \ {t} /\ claims' = claims
      BY Zenon, <2>0, <2>4 DEF HandlerType, storeVars
    <3>2. ClaimInv(h)' BY Zenon, <3>1, <2>0, <2>1, <2>4 DEF ClaimInv
    <3> QED BY Zenon, <3>2, <2>1, <2>2, <2>4, <1>CriticalStep
  <2>5. ASSUME Return(h), UNCHANGED storeVars PROVE OneInv'
    BY <2>1, <2>2, <2>5, <1>CriticalReturn
  <2>6. ASSUME Fold(h, t), CanFill(st[h]) PROVE OneInv'
    <3>1. /\ pc'[h] = pc[h] /\ held' = held /\ verdict' = verdict
          /\ st'[h] = ApplyFill(st[h]) /\ claims' = claims \cup {t}
          /\ todo'[h] = IF IsTerminal(ApplyFill(st[h])) THEN {} ELSE todo[h] \ {t}
          /\ \A g \in Handlers \ {h} : pc'[g] = pc[g]
      BY Zenon, <2>0, <2>6 DEF Fold, Goto, HandlerType
    <3>2. ~IsTerminal(st[h]) BY Zenon, <2>6 DEF CanFill
    <3>3. ClaimInv(h)' BY Zenon, <3>1, <3>2, <2>0, <2>1 DEF ClaimInv
    <3>4. row'.status \in {"FILLED", "PARTIALLY_FILLED"}
      BY Zenon, <2>0, <2>6 DEF Fold, ApplyFill, HandlerType, Order
    <3>5. EndInv' BY Zenon, <3>1, <3>4, <2>1, <1>EndKept DEF SameEnd, Withdrawals
    <3> QED BY Zenon, <3>1, <3>3, <3>5, <2>1, <1>CriticalStep
  <2> HIDE DEF t
  <2> QED BY Zenon, <2>3, <2>4, <2>5, <2>6 DEF FoldTurn, Conflict, NoStore, t
\* The steps before the claim, taking it, and giving up: the holder, if
\* there is one, finds everything as it left it.
<1>Bystander.
      ASSUME OneReplica, OneInv, IInv', NEW h \in Handlers, SameEnd, Alone(h),
             \A g \in Handlers \ {h} : held[Home[g]] = g => held'[Home[g]] = g,
             row' = row \/ row.status = "NONE", UNCHANGED claims, ClaimInv(h)'
      PROVE  OneInv'
  <2> USE <1>Bystander
  <2>1. ASSUME NEW g \in Handlers \ {h} PROVE ClaimInv(g)'
    <3>1. /\ ClaimInv(g) /\ pc'[g] = pc[g] /\ st'[g] = st[g]
          /\ todo'[g] = todo[g] /\ verdict'[g] = verdict[g]
          /\ g \in fresh' => g \in fresh
      BY Zenon DEF OneInv, Alone
    <3>2. pc[g] \in {"dispatch", "place"} => row' = row
      BY Zenon, <3>1 DEF ClaimInv
    <3> QED BY Zenon, <3>1, <3>2 DEF ClaimInv, SameEnd
  <2>2. EndInv' BY Zenon, <1>EndKept
  <2> QED BY Zenon, <2>1, <2>2 DEF OneInv
\* The steps a handler takes without the claim keep the invariant.
<1>BystanderSteps.
      ASSUME OneReplica, OneInv, IInv', NEW h \in Handlers,
             \/ Start(h) \/ Refuse(h) \/ Fail(h) \/ Create(h)
             \/ ClaimSubmit(h) \/ ClaimResume(h) \/ AwaitClaim(h)
      PROVE  OneInv'
  <2> USE <1>BystanderSteps
  <2>0. HandlerType /\ ClaimInv(h) /\ HandlerInv(h) BY Zenon, TypeParts DEF OneInv, IInv
  <2>1. \A g \in Handlers : Home[g] = Home[h] /\ Home[h] \in Replicas
    BY Zenon, HomeAssumption DEF OneReplica
  <2>2. ASSUME Return(h), UNCHANGED <<storeVars, exch, placed>>,
               fresh' \subseteq fresh \cup {h}
        PROVE  OneInv'
    <3>1. /\ Alone(h) /\ SameEnd /\ pc'[h] = "idle"
          /\ row' = row /\ claims' = claims
      BY Zenon, <2>0, <2>2, ReturnEffect DEF Alone, SameEnd, storeVars
    <3>2. \A g \in Handlers \ {h} : held[Home[g]] = g => held'[Home[g]] = g
      BY Zenon, <2>0, <2>1, <2>2 DEF Return, HandlerType
    <3>3. ClaimInv(h)' BY Zenon, <3>1, <1>NotCritical DEF Critical, Live
    <3> QED BY Zenon, <3>1, <3>2, <3>3, <1>Bystander
  <2>3. ASSUME NEW l \in {"create", "claim", "rclaim", "wait"}, NEW o,
               Goto(h, l, o), SameWork, UNCHANGED <<claims, exch, placed>>,
               \/ fresh' \subseteq fresh \cup {h} /\ row' = row
               \/ fresh' = {h} /\ row.status = "NONE"
                               /\ row'.status \notin Withdrawals
        PROVE  OneInv'
    <3>1. /\ Alone(h) /\ SameEnd /\ pc'[h] = l /\ held' = held
          /\ row' = row \/ row.status = "NONE"
      BY Zenon, <2>0, <2>3, GotoEffect DEF Alone, SameEnd, Goto
    <3>2. ClaimInv(h)' BY Zenon, <3>1, <1>NotCritical DEF Critical, Live
    <3> QED BY Zenon, <3>1, <3>2, <2>3, <1>Bystander
  <2>4. ASSUME NEW l \in {"route", "rload", "cload", "aload"},
               held[Home[h]] = None, held' = [held EXCEPT ![Home[h]] = h],
               pc' = [pc EXCEPT ![h] = l], UNCHANGED <<st, todo, verdict>>,
               NoStore, UNCHANGED <<exch, placed>>,
               l = "route" => pc[h] = "claim"
        PROVE  OneInv'
    <3>1. /\ Alone(h) /\ SameEnd /\ pc'[h] = l /\ held'[Home[h]] = h
          /\ row' = row /\ claims' = claims /\ fresh' = fresh
      BY Zenon, <2>0, <2>1, <2>4 DEF Alone, SameEnd, NoStore, storeVars, HandlerType
    <3>2. \A g \in Handlers \ {h} : held[Home[g]] = g => held'[Home[g]] = g
      BY Zenon, <2>1, <2>4, NoneAssumption
    <3>3. l = "route" /\ h \in fresh => exch.state = "UNKNOWN"
      <4> SUFFICES ASSUME l = "route", h \in fresh PROVE exch.state = "UNKNOWN"
        BY Zenon
      <4>1. st[h] = row /\ st[h].status = "PENDING_NEW"
        BY Zenon, <2>0, <2>4 DEF HandlerInv, Snapshot, Live
      <4> QED BY Zenon, <4>1 DEF OneInv, IInv, VenueInv, Unsent
    <3>4. ClaimInv(h)' BY Zenon, <3>1, <3>3, <2>4 DEF ClaimInv
    <3> QED BY Zenon, <3>1, <3>2, <3>4, <1>Bystander
  <2>5. CASE Refuse(h) \/ Fail(h)
    BY Zenon, <2>2, <2>5 DEF Refuse, Fail, NoStore, OmsOnly, venueVars
  <2>6. CASE Start(h)
    BY Zenon, <2>2, <2>3, <2>6 DEF Start, StartSubmit, StartWait, StartSweep, Load,
                            NoStore, OmsOnly, venueVars, storeVars
  <2>7. CASE Create(h)
    <3>1. ASSUME NEW q \in Qtys PROVE Accept(q).status = "PENDING_NEW"
      BY Zenon DEF Accept, NoOrder
    <3> QED BY Zenon, <2>2, <2>3, <2>7, <3>1 DEF Create, NoStore, OmsOnly, venueVars,
                                          Withdrawals
  <2>8. CASE ClaimSubmit(h) \/ ClaimResume(h)
    BY Zenon, <2>2, <2>4, <2>8 DEF ClaimSubmit, ClaimResume, TryClaim, NoStore, OmsOnly,
                            venueVars
  <2>9. CASE AwaitClaim(h)
    BY Zenon, <2>4, <2>9 DEF AwaitClaim, SameWork, OmsOnly, venueVars
  <2> QED BY Zenon, <2>5, <2>6, <2>7, <2>8, <2>9
\* The steps of the exchange keep the invariant.
<1>ExchangeSteps.
      ASSUME OneReplica, OneInv, IInv', Venue
      PROVE  OneInv'
  <2> USE <1>ExchangeSteps
  <2>1. UNCHANGED <<storeVars, handlerVars, placed>>
    BY Zenon DEF Venue, Trade, Lapse, Progress
  <2>2. ASSUME UNCHANGED exch PROVE OneInv'
    <3>1. EndInv' BY Zenon, <2>1, <2>2, <1>QuietEnd
    <3>2. \A g \in Handlers : ClaimInv(g)'
      BY Zenon, <2>1, <2>2 DEF OneInv, ClaimInv, storeVars, handlerVars
    <3> QED BY Zenon, <3>1, <3>2 DEF OneInv
  <2>3. ASSUME exch.state = "OPEN", exch'.state # "UNKNOWN" PROVE OneInv'
    <3>1. row.status \notin Withdrawals BY Zenon, <2>3 DEF OneInv, EndInv
    <3>2. EndInv'
      BY <3>1, <2>1, <2>3 DEF OneInv, EndInv, OnePlacement, ExpiredIsComplete,
                              Withdrawals, storeVars
    <3>3. \A g \in Handlers : ClaimInv(g)'
      BY Zenon, <2>1, <2>3 DEF OneInv, ClaimInv, storeVars, handlerVars
    <3> QED BY Zenon, <3>2, <3>3 DEF OneInv
  <2>4. CASE Trade \/ Lapse
    BY Zenon, <2>3, <2>4 DEF Trade, Lapse, OneInv, IInv, TypeOK
  <2>5. CASE Progress BY Zenon, <2>2, <2>5 DEF Progress
  <2> QED BY Zenon, <2>4, <2>5 DEF Venue
<1>0. IInv' BY Zenon, StepIInv DEF OneInv
<1>1. ASSUME NEW h \in Handlers, Start(h) \/ Step(h) \/ Fail(h) PROVE OneInv'
  BY Zenon, <1>0, <1>1, <1>HolderWrites, <1>WithdrawalWrites, <1>HolderGoesOn, <1>HolderReads,
     <1>HolderPlaces, <1>HolderCloses, <1>HolderFolds, <1>BystanderSteps
     DEF Step, Work, Resume
<1>2. CASE UNCHANGED vars
  BY Zenon, <1>0, <1>2 DEF vars, storeVars, handlerVars, venueVars, OneInv, EndInv,
                    OnePlacement, ExpiredIsComplete, ClaimInv
<1> QED BY Zenon, <1>0, <1>1, <1>2, <1>ExchangeSteps DEF Next

\* The invariant holds initially.
LEMMA OneInit ==
    ASSUME FiniteTrades, Init
    PROVE  OneInv
<1>1. EndInv
  BY DEF Init, EndInv, OnePlacement, ExpiredIsComplete, Withdrawals, NoOrder
<1>2. \A h \in Handlers : ClaimInv(h)
  BY Zenon DEF Init, ClaimInv, Critical, Live
<1> QED BY Zenon, <1>1, <1>2, InitIInv DEF OneInv

-----------------------------------------------------------------------------
(* The theorems.                                                           *)

INSTANCE FiniteSetTheorems

\* Trades are finitely many.
LEMMA FiniteTradesHold == FiniteTrades
\* A set of trades is a finite set of integers, so it has a least one.
<1>TradeSets.
      ASSUME NEW S \in SUBSET Trades
      PROVE  IsFiniteSet(S) /\ \A t \in S : t \in Int
  <2> USE <1>TradeSets
  <2>1. IsFiniteSet(Trades)
    BY BoundsAssumption, FS_Interval DEF Trades
  <2>2. \A t \in S : t \in Int
    BY DEF Trades
  <2> QED BY Zenon, <2>1, <2>2, FS_Subset
\* The fold loop takes a trade of its list: a nonempty set of trades has a
\* first one.
<1>FirstTrade.
      ASSUME NEW S \in SUBSET Trades, S # {}
      PROVE  Next1(S) \in S
  <2> USE <1>FirstTrade
  <2> DEFINE UpTo(x) == {u \in S : u <= x}
             Prefixes == {UpTo(x) : x \in S}
  <2>1. IsFiniteSet(S) /\ \A u \in S : u \in Int
    BY Zenon, <1>TradeSets
  <2>2. \A P \in Prefixes : P \in SUBSET S
    BY Zenon
  <2>3. \A P \in Prefixes : P \in FiniteSubsetsOf(S)
    BY Zenon, <2>1, <2>2, FS_Subset DEF FiniteSubsetsOf
  <2>4. Prefixes # {}
    BY Zenon
  <2>5. PICK P \in Prefixes :
          \A Q \in Prefixes : ~(<<Q, P>> \in StrictSubsetOrdering(S))
    <3> HIDE DEF Prefixes
    <3> QED BY Zenon, <2>3, <2>4, WFMin, FS_StrictSubsetOrderingWellFounded
  <2>6. PICK x \in S : P = UpTo(x)
    BY Zenon
  <2>7. ASSUME NEW y \in S, y < x PROVE FALSE
    <3>1. UpTo(y) \subseteq UpTo(x) /\ x \in UpTo(x) /\ x \notin UpTo(y)
      BY <2>1, <2>7
    <3>2. UpTo(y) \in Prefixes
      BY Zenon
    <3> HIDE DEF UpTo, Prefixes
    <3> QED BY Zenon, <2>2, <2>5, <2>6, <3>1, <3>2 DEF StrictSubsetOrdering
  <2>8. \A y \in S : x <= y
    BY <2>1, <2>7
  <2> QED BY Zenon, <2>8 DEF Next1
<1>1. Cardinality({}) = 0
  BY Zenon, FS_EmptySet
<1>2. ASSUME NEW S \in SUBSET Trades, NEW t \in Trades \ S
      PROVE  Cardinality(S \cup {t}) = Cardinality(S) + 1
  BY Zenon, <1>TradeSets, FS_AddElement
<1> QED BY Zenon, <1>1, <1>2, <1>FirstTrade DEF FiniteTrades

(***************************************************************************)
(* The inductive invariant holds in every reachable state.                 *)
(***************************************************************************)
THEOREM Invariance == Spec => []IInv
BY FiniteTradesHold, InitIInv, StepIInv, PTL DEF Spec

(***************************************************************************)
(* Every variable keeps its type, for any number of handlers and replicas. *)
(***************************************************************************)
THEOREM TypeCorrect == Spec => []TypeOK
<1>1. IInv => TypeOK BY Zenon DEF IInv
<1> QED BY <1>1, Invariance, PTL

(***************************************************************************)
(* claimFill (#782): every trade is folded and announced at most once, in  *)
(* any number of replicas, with any redeliveries, sweeps and failures.     *)
(***************************************************************************)
THEOREM EachTradeOnce == Spec => []FoldedOnce
<1>1. IInv => FoldedOnce BY Zenon DEF IInv, StoreInv
<1> QED BY <1>1, Invariance, PTL

(***************************************************************************)
(* ApplyFill and Amend: the order on the books is never overfilled, and is *)
(* FILLED exactly when nothing is left.                                    *)
(***************************************************************************)
THEOREM LeavesAlwaysAgree == Spec => []LeavesAgree
<1>1. IInv => LeavesAgree
  <2> SUFFICES ASSUME IInv PROVE LeavesAgree
    BY Zenon
  <2>1. CASE row.status = "NONE"
    BY Zenon, <2>1, Facts DEF LeavesAgree, NoOrder
  <2>2. CASE row.status # "NONE"
    BY Zenon, <2>2, Facts DEF LeavesAgree, Sound
  <2> QED BY Zenon, <2>1, <2>2
<1> QED BY <1>1, Invariance, PTL

(***************************************************************************)
(* closeAtVenue: an order cancelled without asking the venue is not there  *)
(* and nobody is on the way to place it, whichever replica cancelled it.   *)
(***************************************************************************)
THEOREM CancelledBeforeRouteStaysOff == Spec => []CancelBeforeRoute
<1>1. IInv => CancelBeforeRoute BY Zenon DEF IInv, VenueInv
<1> QED BY <1>1, Invariance, PTL

(***************************************************************************)
(* venue_ack_at is stamped only for an order the exchange has been given.  *)
(***************************************************************************)
THEOREM AcknowledgementIsTrue == Spec => []AckIsTrue
<1>1. IInv => AckIsTrue BY Zenon DEF IInv, VenueInv
<1> QED BY <1>1, Invariance, PTL

(***************************************************************************)
(* handleAmend: the exchange works the quantity on the books, however      *)
(* amendments and placements interleave.                                   *)
(***************************************************************************)
THEOREM VenueWorksTheBookedTerms == Spec => []TermsAtVenue
<1>1. IInv => TermsAtVenue BY Zenon DEF IInv, VenueInv, TermsAtVenue
<1> QED BY <1>1, Invariance, PTL

(***************************************************************************)
(* IsTerminal: an order that has ended keeps its status, fills and terms;  *)
(* only the marker of its announcement may still be set.                   *)
(***************************************************************************)
THEOREM EndedStaysEnded == Spec => TerminalIsFinal
<1>1. ASSUME IInv, [Next]_vars
      PROVE  IsTerminal(row) => row' = [row EXCEPT !.told = row'.told]
  <2> SUFFICES ASSUME IsTerminal(row)
               PROVE  row' = [row EXCEPT !.told = row'.told]
    BY Zenon
  <2>1. row' = row \/ row' = [row EXCEPT !.told = TRUE]
    BY Zenon, <1>1, RowStep DEF RowMoves, IsTerminal, Terminal
  <2>2. row \in Order BY Zenon, <1>1 DEF IInv, TypeOK
  <2> QED BY Zenon, <2>1, <2>2 DEF Order
<1>2. IInv /\ [Next]_vars =>
        [IsTerminal(row) => row' = [row EXCEPT !.told = row'.told]]_vars
  BY Zenon, <1>1
<1> QED BY <1>2, Invariance, PTL DEF Spec, TerminalIsFinal

(***************************************************************************)
(* quarantine: no sweep, redelivery, cancel, amendment or fold moves a     *)
(* frozen order.                                                           *)
(***************************************************************************)
THEOREM FrozenIsLeftAlone == Spec => FrozenStays
<1>1. ASSUME IInv, [Next]_vars PROVE row.quar => row' = row
  <2> SUFFICES ASSUME row.quar PROVE row' = row
    BY Zenon
  <2>1. ~IsTerminal(row) /\ row # NoOrder
    <3>1. ~NoOrder.quar BY Zenon DEF NoOrder
    <3>2. Sound(row) BY Zenon, <3>1, <1>1, Facts
    <3> QED BY Zenon, <3>1, <3>2 DEF Sound
  <2> QED BY Zenon, <1>1, <2>1, RowStep DEF RowMoves
<1>2. IInv /\ [Next]_vars => [row.quar => row' = row]_vars
  BY Zenon, <1>1
<1> QED BY <1>2, Invariance, PTL DEF Spec, FrozenStays

(***************************************************************************)
(* The invariant of a single replica.                                      *)
(***************************************************************************)
THEOREM OneReplicaInvariance ==
    ASSUME OneReplica PROVE Spec => []OneInv
BY FiniteTradesHold, OneInit, OneStep, PTL DEF Spec

(***************************************************************************)
(* claim and Reconcile in one replica: the exchange takes the order once,  *)
(* whatever deliveries, sweeps and failures there are.                     *)
(***************************************************************************)
THEOREM PlacedOnce ==
    ASSUME OneReplica PROVE Spec => []OnePlacement
<1>1. OneInv => OnePlacement BY Zenon DEF OneInv, EndInv
<1> QED BY <1>1, OneReplicaInvariance, PTL

(***************************************************************************)
(* closeAtVenue in one replica: no order on the books as cancelled rests   *)
(* at the exchange.                                                        *)
(***************************************************************************)
THEOREM CancelledIsNotResting ==
    ASSUME OneReplica PROVE Spec => []CancelledIsClosed
<1>1. OneInv => CancelledIsClosed
  BY Zenon DEF OneInv, EndInv, CancelledIsClosed, Withdrawals
<1> QED BY <1>1, OneReplicaInvariance, PTL

(***************************************************************************)
(* adoptWithdrawal in one replica: an expired order has all its trades.    *)
(***************************************************************************)
THEOREM ExpiredHasItsTrades ==
    ASSUME OneReplica PROVE Spec => []ExpiredIsComplete
<1>1. OneInv => ExpiredIsComplete BY Zenon DEF OneInv, EndInv
<1> QED BY <1>1, OneReplicaInvariance, PTL
=============================================================================
