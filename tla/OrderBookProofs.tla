--------------------------- MODULE OrderBookProofs ---------------------------
(***************************************************************************)
(* Safety of OrderBook, for every number of orders, users, prices, errors  *)
(* and restarts: TypeOK, HeldOnce, NoOverfill and TradeWithinLimits hold   *)
(* in every reachable state.  IInv is the inductive invariant.             *)
(* Then the refinement of Exchange, what is at the heads of the queues,    *)
(* what a startup repairs, and the market depth.                           *)
(***************************************************************************)
EXTENDS OrderBook, FiniteSums, TLAPS

\* The steps at which the order in hand is matched with another one.
MatchSteps == {"fill", "settle", "trigger ask", "trigger bid", "push", "finish"}

\* Where the orders are: on their own side of the book, placed, and held once.
Places ==
  /\ \A s \in Sides : \A o \in queue[s] \cup stops[s] : o <= placed /\ Side(o) = s
  /\ \A o \in Orders : stage[o] = "new" <=> placed < o
  /\ \A o \in unloaded : o <= placed
  /\ unloaded # {} => matcher.pc = "load"
  /\ HeldOnce

\* What the matching goroutine has in hand.
InMatch ==
  /\ matcher.pc \in MatchSteps \cup {"seek"} =>
       /\ matcher.inc \in Orders /\ matcher.inc <= placed
       /\ ~serving => Side(matcher.inc) = "bid"
  /\ matcher.pc \in MatchSteps =>
       /\ matcher.res \in queue[Other(Side(matcher.inc))]
       /\ User(matcher.res) # User(matcher.inc)
       /\ \A o \in matcher.held : o <= placed /\ Side(o) = Other(Side(matcher.inc))
  /\ matcher.pc \notin MatchSteps => matcher.held = {} /\ matcher.tr = None
  /\ matcher.pc = "push" => matcher.trig \in Orders /\ matcher.trig <= placed
  /\ matcher.pc = "fill" => Matches(matcher.inc, matcher.res) /\ matcher.tr = None

\* The type of an order in memory and in the database is the placed one, except that
\* a stop-loss order may be active; only active ones are matched.
KindsOK ==
  /\ \A o \in Orders :
       \/ mem[o].kind = ticket[o].kind
       \/ mem[o].kind = "StopLossActive" /\ ticket[o].kind = "StopLoss"
  /\ \A o \in Orders :
       \/ saved[o].kind = ticket[o].kind
       \/ saved[o].kind = "StopLossActive" /\ ticket[o].kind = "StopLoss"
  /\ \A o \in Queued \cup matcher.held \cup InHand \cup BeingTriggered : mem[o].kind # "StopLoss"
  /\ \A o \in Dormant : mem[o].kind = "StopLoss"
  /\ \A o \in Orders : stage[o] \in {"check", "park"} => mem[o].kind = "StopLoss"
  /\ \A o \in Orders : stage[o] = "send" => mem[o].kind # "StopLoss"
  /\ \A o \in Orders : saving[o] # "no" => mem[o].kind = "StopLossActive"

\* A dormant order is not filled, and an unfinished TriggerStoploss is one of an order
\* that cannot be filled yet.
FillsOK ==
  /\ NoOverfill
  /\ \A o \in Orders : mem[o].kind = "StopLoss" \/ saved[o].kind = "StopLoss" => filled[o] = 0
  /\ \A o \in Orders : saving[o] # "no" =>
       /\ filled[o] < Qty(o)
       /\ stage[o] = "send" \/ o \in BeingTriggered

IInv == TypeOK /\ Places /\ InMatch /\ KindsOK /\ FillsOK /\ TradeWithinLimits

USE DEF submission, objects, book, market, counters, Orders, Sides, None, Level0,
        TicketsAssumption, PricesAssumption, BoundsAssumption

------------------------------------------------------------------------------

\* What a ticket is made of.
LEMMA TicketParts ==
  ASSUME TypeOK, NEW o \in Orders
  PROVE  /\ Side(o) \in Sides /\ User(o) \in Users
         /\ Qty(o) \in Nat /\ Qty(o) > 0
         /\ ticket[o].price \in Prices /\ ticket[o].price \in Nat \ {0}
         /\ ticket[o].kind \in Kinds \ {"StopLossActive"}
<1>1. ticket[o] \in Ticket
  BY TicketsAssumption DEF TypeOK
<1>2. /\ ticket[o].side \in Sides /\ ticket[o].user \in Users
      /\ ticket[o].kind \in Kinds \ {"StopLossActive"}
      /\ ticket[o].price \in Prices /\ ticket[o].qty \in Nat \ {0}
  BY <1>1 DEF Ticket
<1>3. ticket[o].price \in Nat \ {0}
  BY <1>2, PricesAssumption
<1> QED
  BY <1>2, <1>3 DEF Side, User, Qty

\* Initially nothing is placed.
LEMMA InitIInv == Init => IInv
<1> SUFFICES ASSUME Init PROVE IInv
  OBVIOUS
<1>1. TypeOK
  <2>1. \A o \in Orders : ticket[o] \in Ticket
    BY TicketsAssumption DEF Init
  <2>2. mem \in [Orders -> [kind : Kinds, closed : BOOLEAN]]
    BY <2>1 DEF Init, Ticket
  <2>3. at \in [Orders -> Nat]
    BY BoundsAssumption DEF Init
  <2>4. matcher \in [pc : Steps, inc : Orders \cup {None}, res : Orders \cup {None},
                  held : SUBSET Orders, trig : Orders \cup {None},
                  incSt : Statuses, resSt : Statuses,
                  tr : Prices \cup {None}, qty : Nat]
    BY DEF Init, At, Steps, Statuses
  <2>5. depth \in [Sides -> [Prices \cup {Level0} -> Nat]]
    BY DEF Init, NoDepth
  <2>6. placed \in 0 .. MaxOrders /\ faults \in 0 .. MaxFaults /\ restarts \in 0 .. MaxRestarts
    BY BoundsAssumption DEF Init
  <2>7. queue \in [Sides -> SUBSET Orders] /\ stops \in [Sides -> SUBSET Orders]
    BY DEF Init, NoQueue
  <2> QED
    BY <2>2, <2>3, <2>4, <2>5, <2>6, <2>7 DEF Init, TypeOK
<1>2. Places
  BY DEF Init, Places, HeldOnce, NoQueue, At, Queued, Dormant, InHand, BeingTriggered, BeingAdded
<1>3. InMatch
  BY DEF Init, InMatch, At, MatchSteps, None
<1>4. KindsOK
  BY DEF Init, KindsOK, NoQueue, At, Queued, Dormant, InHand, BeingTriggered
<1>5. FillsOK
  BY <1>1, TicketParts DEF Init, FillsOK, NoOverfill
<1>6. TradeWithinLimits
  BY DEF Init, TradeWithinLimits, At
<1> QED
  BY <1>1, <1>2, <1>3, <1>4, <1>5, <1>6 DEF IInv

------------------------------------------------------------------------------
(* What steps that leave the matching goroutine alone preserve *)

\* The orders that take part in the matching goroutine's current match.
LEMMA PartiesPlaced ==
  ASSUME TypeOK, Places, InMatch, matcher.pc \in MatchSteps
  PROVE  /\ matcher.inc \in Orders /\ matcher.res \in Orders
         /\ matcher.inc <= placed /\ matcher.res <= placed
         /\ Side(matcher.res) = Other(Side(matcher.inc))
         /\ matcher.inc # matcher.res
<1>1. matcher.inc \in Orders /\ matcher.inc <= placed
  BY DEF InMatch
<1>2. Side(matcher.inc) \in Sides
  BY <1>1, TicketParts
<1>3. Other(Side(matcher.inc)) \in Sides
  BY <1>2 DEF Other
<1>4. matcher.res \in queue[Other(Side(matcher.inc))] /\ User(matcher.res) # User(matcher.inc)
  BY DEF InMatch
<1>5. queue[Other(Side(matcher.inc))] \subseteq Orders
  BY <1>3 DEF TypeOK
<1>6. matcher.res \in Orders /\ matcher.res <= placed /\ Side(matcher.res) = Other(Side(matcher.inc))
  BY <1>3, <1>4, <1>5 DEF Places
<1> QED
  BY <1>1, <1>4, <1>6

\* InMatch does not depend on the orders outside the match.
LEMMA InMatchFrame ==
  ASSUME TypeOK, Places, InMatch,
         UNCHANGED <<ticket, queue, matcher, serving>>, placed' \in Nat, placed <= placed',
         \A o \in Queued \cup InHand : mem'[o].kind = mem[o].kind
  PROVE  InMatch'
<1>1. matcher.pc = "fill" => Matches(matcher.inc, matcher.res)'
  <2> SUFFICES ASSUME matcher.pc = "fill" PROVE Matches(matcher.inc, matcher.res)'
    OBVIOUS
  <2>1. matcher.inc \in InHand /\ matcher.res \in Queued
    BY PartiesPlaced, TicketParts DEF InMatch, MatchSteps, InHand, Queued, Other
  <2> QED
    BY <2>1 DEF InMatch, Matches, IsOrderMatching, IsMarket, IsMarketKind, Side
<1>2. placed \in Nat
  BY DEF TypeOK
<1>3. \A o \in Orders : o <= placed => o <= placed'
  BY <1>2
<1> QED
  BY <1>1, <1>3 DEF TypeOK, InMatch, Side, User

\* Only orders that were placed are anywhere.
LEMMA HeldPlaced ==
  ASSUME TypeOK, Places, InMatch,
         NEW o \in Queued \cup Dormant \cup matcher.held \cup InHand \cup BeingTriggered \cup unloaded
  PROVE  o \in Orders /\ o <= placed
<1>1. CASE o \in Queued \cup Dormant
  BY <1>1 DEF TypeOK, Places, Queued, Dormant
<1>2. CASE o \in matcher.held
  BY <1>2 DEF TypeOK, InMatch
<1>3. CASE o \in InHand
  <2>1. matcher.pc \in MatchSteps \cup {"seek"}
    BY <1>3 DEF TypeOK, Steps, MatchSteps, InHand
  <2> QED
    BY <1>3, <2>1 DEF InMatch, InHand
<1>4. CASE o \in BeingTriggered
  BY <1>4 DEF InMatch, BeingTriggered
<1>5. CASE o \in unloaded
  BY <1>5 DEF TypeOK, Places
<1> QED
  BY <1>1, <1>2, <1>3, <1>4, <1>5

\* Place puts a new order with those that are being added.
LEMMA PlaceIInv ==
  ASSUME IInv, NEW o \in Orders, Place(o)
  PROVE  IInv'
<1> USE DEF IInv
<1>0. placed' \in 0 .. MaxOrders /\ placed \in Nat /\ placed' = o /\ placed = o - 1
  BY BoundsAssumption DEF TypeOK, Place
<1>1. TypeOK'
  <2>1. stage' \in [Orders -> {"new", "check", "park", "send", "added"}]
    BY DEF TypeOK, Place
  <2> QED
    BY <1>0, <2>1 DEF TypeOK, Place
<1>2. Places'
  <2>1. \A x \in Orders : stage'[x] = "new" <=> placed' < x
    BY <1>0 DEF TypeOK, Places, Place
  <2>2. BeingAdded' = BeingAdded \cup {o}
    BY DEF TypeOK, BeingAdded, Place
  <2>3. o \notin Queued \cup Dormant \cup matcher.held \cup InHand \cup BeingTriggered \cup unloaded
    <3>1. ~(o <= placed)
      BY <1>0
    <3> QED
      BY <3>1, HeldPlaced
  <2>4. HeldOnce'
    BY <2>2, <2>3 DEF Places, HeldOnce, Queued, Dormant, InHand, BeingTriggered, Place
  <2>5. UNCHANGED <<ticket, queue, stops, unloaded, matcher>> /\ placed <= placed'
    BY <1>0 DEF Place
  <2>6. \A s \in Sides : queue[s] \cup stops[s] \subseteq Orders
    BY DEF TypeOK
  <2>7. \A s \in Sides : \A x \in queue[s] \cup stops[s] : x <= placed' /\ Side(x) = s
    <3>1. \A s \in Sides : \A x \in queue[s] \cup stops[s] : x <= placed /\ Side(x) = s
      BY DEF Places
    <3> QED
      BY <1>0, <2>6, <3>1
  <2>8. \A x \in unloaded : x <= placed'
    BY <1>0 DEF TypeOK, Places
  <2>9. unloaded # {} => matcher.pc = "load"
    BY DEF Places
  <2> QED
    BY <2>1, <2>4, <2>5, <2>7, <2>8, <2>9 DEF Places, Side
<1>3. InMatch'
  <2>1. UNCHANGED <<ticket, queue, matcher, serving, mem>>
    BY DEF Place
  <2> QED
    BY <1>0, <2>1, InMatchFrame
<1>4. KindsOK'
  BY SMTT(60) DEF TypeOK, KindsOK, Queued, Dormant, InHand, BeingTriggered, Place
<1>5. FillsOK'
  BY DEF TypeOK, FillsOK, NoOverfill, BeingTriggered, Places, Qty, Place
<1>6. TradeWithinLimits'
  BY DEF TypeOK, TradeWithinLimits, MatchedAsk, MatchedBid, Side, User, Place
<1> QED
  BY <1>1, <1>2, <1>3, <1>4, <1>5, <1>6

\* An order whose trigger is being saved is not where it could be matched.
LEMMA SaveTriggerIInv ==
  ASSUME IInv, NEW o \in Orders, SaveTrigger(o)
  PROVE  IInv'
<1> USE DEF IInv
<1>0. /\ UNCHANGED <<ticket, at, placed, mem, cached, filled, stage, cancelling, queue,
                     stops, depth, market, matcher, serving, unloaded, restarts>>
      /\ saving[o] # "no" /\ saving' = [saving EXCEPT ![o] = "no"]
  BY DEF SaveTrigger
<1>a. saved' \in [Orders -> [kind : Kinds, closed : BOOLEAN]] /\ faults' \in 0 .. MaxFaults
  <2>1. CASE NoFault /\ saved' = [saved EXCEPT ![o] = [kind |-> "StopLossActive",
                                                     closed |-> saving[o] = "closed"]]
    <3>1. [kind |-> "StopLossActive", closed |-> saving[o] = "closed"] \in [kind : Kinds, closed : BOOLEAN]
      BY DEF Kinds
    <3> QED
      BY <2>1, <3>1 DEF TypeOK, NoFault
  <2>2. CASE Fault /\ saved' = saved
    BY <2>2, BoundsAssumption DEF TypeOK, Fault
  <2> QED
    BY <2>1, <2>2 DEF SaveTrigger
<1>b. \A x \in Orders : \/ saved'[x] = saved[x]
                        \/ x = o /\ saved'[x].kind = "StopLossActive"
  <2>1. CASE saved' = saved
    BY <2>1
  <2>2. CASE saved' # saved
    <3> DEFINE r == [kind |-> "StopLossActive", closed |-> saving[o] = "closed"]
    <3>1. saved' = [saved EXCEPT ![o] = r] /\ r.kind = "StopLossActive"
      BY <2>2 DEF SaveTrigger
    <3> HIDE DEF r
    <3>2. saved \in [Orders -> [kind : Kinds, closed : BOOLEAN]]
      BY DEF TypeOK
    <3> QED
      BY <3>1, <3>2
  <2> QED
    BY <2>1, <2>2
<1>c. \A x \in Orders : saving'[x] # "no" => saving[x] # "no"
  BY <1>0 DEF TypeOK
<1>1. TypeOK'
  <2>1. saving' \in [Orders -> {"no", "open", "closed"}]
    BY <1>0 DEF TypeOK
  <2> QED
    BY <1>0, <1>a, <2>1 DEF TypeOK
<1>2. Places'
  BY <1>0 DEF Places, HeldOnce, Queued, Dormant, InHand, BeingTriggered, BeingAdded, Side
<1>3. InMatch'
  <2>1. placed \in Nat
    BY DEF TypeOK
  <2> QED
    BY <1>0, <2>1, InMatchFrame
<1>4. KindsOK'
  <2>1. ticket[o].kind = "StopLoss"
    BY <1>0, TicketParts DEF KindsOK
  <2> QED
    BY <1>0, <1>b, <1>c, <2>1 DEF KindsOK, Queued, Dormant, InHand, BeingTriggered
<1>5. FillsOK'
  <2>1. filled[o] < Qty(o)
    BY <1>0 DEF FillsOK
  <2>2. NoOverfill'
    <3> SUFFICES ASSUME NEW x \in Orders
                 PROVE  /\ filled[x] <= Qty(x)
                        /\ filled[x] = Qty(x) => mem[x].closed /\ saved'[x].closed
      BY <1>0 DEF NoOverfill, Qty
    <3>1. CASE x = o
      <4>1. filled[o] \in Nat /\ Qty(o) \in Nat
        BY TicketParts DEF TypeOK
      <4> QED
        BY <2>1, <3>1, <4>1
    <3>2. CASE x # o
      BY <1>b, <3>2 DEF FillsOK, NoOverfill
    <3> QED
      BY <3>1, <3>2
  <2> QED
    BY <1>0, <1>b, <1>c, <2>2 DEF FillsOK, Qty, BeingTriggered
<1>6. TradeWithinLimits'
  BY <1>0 DEF TradeWithinLimits, MatchedAsk, MatchedBid, Side, User
<1> QED
  BY <1>1, <1>2, <1>3, <1>4, <1>5, <1>6

\* What StartTrigger does to a dormant order.
LEMMA StartTriggerFacts ==
  ASSUME IInv, NEW o \in Orders, StartTrigger(o), mem[o].kind = "StopLoss"
  PROVE  /\ mem' \in [Orders -> [kind : Kinds, closed : BOOLEAN]]
         /\ saving' \in [Orders -> {"no", "open", "closed"}]
         /\ \A x \in Orders : x # o => mem'[x] = mem[x] /\ saving'[x] = saving[x]
         /\ mem'[o].kind = "StopLossActive" /\ mem'[o].closed = mem[o].closed
         /\ saving'[o] # "no" /\ ticket[o].kind = "StopLoss" /\ filled[o] = 0
<1>1. TypeOK /\ KindsOK /\ FillsOK
  BY DEF IInv
<1>2. ticket[o].kind = "StopLoss"
  BY <1>1 DEF KindsOK
<1>3. filled[o] = 0
  BY <1>1 DEF FillsOK
<1>4. mem' \in [Orders -> [kind : Kinds, closed : BOOLEAN]]
  <2>1. mem \in [Orders -> [kind : Kinds, closed : BOOLEAN]]
    BY <1>1 DEF TypeOK
  <2>2. [mem[o] EXCEPT !.kind = "StopLossActive"] \in [kind : Kinds, closed : BOOLEAN]
    BY <2>1 DEF Kinds
  <2>3. mem' = [mem EXCEPT ![o] = [mem[o] EXCEPT !.kind = "StopLossActive"]]
    BY <2>1 DEF StartTrigger
  <2> QED
    BY <2>1, <2>2, <2>3
<1> QED
  BY <1>1, <1>2, <1>3, <1>4 DEF TypeOK, StartTrigger

\* ... and what it keeps: the parts of KindsOK and FillsOK about the other orders.
LEMMA StartTriggerKeeps ==
  ASSUME IInv, NEW o \in Orders, StartTrigger(o), mem[o].kind = "StopLoss",
         UNCHANGED <<ticket, saved, filled>>
  PROVE  /\ NoOverfill'
         /\ \A x \in Orders : \/ mem'[x].kind = ticket'[x].kind
                              \/ mem'[x].kind = "StopLossActive" /\ ticket'[x].kind = "StopLoss"
         /\ \A x \in Orders : saving'[x] # "no" => mem'[x].kind = "StopLossActive"
         /\ \A x \in Orders : mem'[x].kind = "StopLoss" \/ saved'[x].kind = "StopLoss"
                                => filled'[x] = 0
         /\ \A x \in Orders : saving'[x] # "no" => filled'[x] < Qty(x)'
<1>1. KindsOK /\ FillsOK /\ NoOverfill
  BY DEF IInv, FillsOK
<1>2. Qty(o) > 0 /\ Qty(o)' = Qty(o)
  BY TicketParts DEF IInv, Qty
<1>3. NoOverfill'
  BY <1>1, StartTriggerFacts DEF NoOverfill, Qty
<1>4. \A x \in Orders : saving'[x] # "no" => filled'[x] < Qty(x)'
  BY <1>1, <1>2, StartTriggerFacts DEF FillsOK, Qty
<1>5. \A x \in Orders : mem'[x].kind = "StopLoss" \/ saved'[x].kind = "StopLoss" => filled'[x] = 0
  BY <1>1, StartTriggerFacts DEF FillsOK
<1> QED
  BY <1>1, <1>3, <1>4, <1>5, StartTriggerFacts DEF KindsOK
------------------------------------------------------------------------------
(* AddAskOrder and AddBidOrder *)

\* Where the orders are does not change while one of them is being added.
LEMMA PlacesFrame ==
  ASSUME Places, UNCHANGED <<ticket, placed, queue, stops, matcher, unloaded>>,
         BeingAdded' \subseteq BeingAdded,
         \A x \in Orders : stage'[x] = "new" <=> stage[x] = "new"
  PROVE  Places'
BY DEF Places, HeldOnce, Queued, Dormant, InHand, BeingTriggered, Side

\* A stop-loss order that triggers on arrival is still being added.
LEMMA TriggerOnArrivalIInv ==
  ASSUME IInv, NEW o \in Orders, TriggerOnArrival(o)
  PROVE  IInv'
<1>0. /\ UNCHANGED <<ticket, at, placed, saved, cached, filled, cancelling, queue, stops,
                     depth, market, matcher, serving, unloaded, faults, restarts>>
      /\ stage[o] = "check" /\ stage' = [stage EXCEPT ![o] = "send"]
      /\ StartTrigger(o)
  BY DEF TriggerOnArrival
<1>1. TypeOK /\ Places /\ InMatch /\ KindsOK /\ FillsOK /\ TradeWithinLimits
  BY DEF IInv
<1>2. mem[o].kind = "StopLoss"
  BY <1>0, <1>1 DEF KindsOK
<1>3. stage' \in [Orders -> {"new", "check", "park", "send", "added"}]
  BY <1>0, <1>1 DEF TypeOK
<1>4. \A x \in Orders : stage'[x] = IF x = o THEN "send" ELSE stage[x]
  BY <1>0, <1>1 DEF TypeOK
<1>5. BeingAdded' = BeingAdded
  BY <1>0, <1>4 DEF BeingAdded
<1>6. o \notin Queued \cup Dormant \cup matcher.held \cup InHand \cup BeingTriggered
  BY <1>0, <1>1 DEF Places, HeldOnce, BeingAdded
<1>7. TypeOK'
  BY <1>0, <1>1, <1>2, <1>3, StartTriggerFacts DEF TypeOK
<1>8. Places'
  BY <1>0, <1>1, <1>4, <1>5, PlacesFrame
<1>9. InMatch'
  <2>1. placed \in Nat
    BY <1>1 DEF TypeOK
  <2>2. \A x \in Queued \cup InHand : mem'[x].kind = mem[x].kind
    BY <1>0, <1>1, <1>2, <1>6, HeldPlaced, StartTriggerFacts
  <2> QED
    BY <1>0, <1>1, <2>1, <2>2, InMatchFrame
<1>10. KindsOK'
  <2>1. \A x \in Queued \cup matcher.held \cup InHand \cup BeingTriggered : mem'[x].kind # "StopLoss"
    BY <1>0, <1>1, <1>2, <1>6, HeldPlaced, StartTriggerFacts DEF KindsOK
  <2>2. \A x \in Dormant : mem'[x].kind = "StopLoss"
    BY <1>0, <1>1, <1>2, <1>6, HeldPlaced, StartTriggerFacts DEF KindsOK
  <2>3. \A x \in Orders : /\ stage'[x] \in {"check", "park"} => mem'[x].kind = "StopLoss"
                          /\ stage'[x] = "send" => mem'[x].kind # "StopLoss"
    BY <1>0, <1>1, <1>2, <1>4, StartTriggerFacts DEF KindsOK
  <2>4. \A x \in Orders : \/ saved'[x].kind = ticket'[x].kind
                          \/ saved'[x].kind = "StopLossActive" /\ ticket'[x].kind = "StopLoss"
    BY <1>0, <1>1 DEF KindsOK
  <2> QED
    BY <1>0, <1>2, <2>1, <2>2, <2>3, <2>4, StartTriggerKeeps
    DEF KindsOK, Queued, Dormant, InHand, BeingTriggered
<1>11. FillsOK'
  <2>1. \A x \in Orders : saving'[x] # "no" => stage'[x] = "send" \/ x \in BeingTriggered'
    BY <1>0, <1>1, <1>2, <1>4, StartTriggerFacts DEF FillsOK, BeingTriggered
  <2> QED
    BY <1>0, <1>2, <2>1, StartTriggerKeeps DEF FillsOK
<1>12. TradeWithinLimits'
  BY <1>0, <1>1 DEF TradeWithinLimits, MatchedAsk, MatchedBid, Side, User
<1> QED
  BY <1>7, <1>8, <1>9, <1>10, <1>11, <1>12 DEF IInv

\* One that does not trigger is still being added, too.
LEMMA StayDormantIInv ==
  ASSUME IInv, NEW o \in Orders, StayDormant(o)
  PROVE  IInv'
<1>0. /\ UNCHANGED <<ticket, at, placed, mem, saved, cached, filled, saving, cancelling, queue,
                     stops, depth, market, matcher, serving, unloaded, faults, restarts>>
      /\ stage[o] = "check" /\ stage' = [stage EXCEPT ![o] = "park"]
  BY DEF StayDormant
<1>1. TypeOK /\ Places /\ InMatch /\ KindsOK /\ FillsOK /\ TradeWithinLimits
  BY DEF IInv
<1>2. \A x \in Orders : stage'[x] = IF x = o THEN "park" ELSE stage[x]
  BY <1>0, <1>1 DEF TypeOK
<1>3. BeingAdded' = BeingAdded
  BY <1>0, <1>2 DEF BeingAdded
<1>4. TypeOK'
  <2>1. stage' \in [Orders -> {"new", "check", "park", "send", "added"}]
    BY <1>0, <1>1 DEF TypeOK
  <2> QED
    BY <1>0, <1>1, <2>1 DEF TypeOK
<1>5. Places'
  BY <1>0, <1>1, <1>2, <1>3, PlacesFrame
<1>6. InMatch'
  <2>1. placed \in Nat
    BY <1>1 DEF TypeOK
  <2> QED
    BY <1>0, <1>1, <2>1, InMatchFrame
<1>7. KindsOK'
  BY <1>0, <1>1, <1>2 DEF KindsOK, Queued, Dormant, InHand, BeingTriggered
<1>8. FillsOK'
  BY <1>0, <1>1, <1>2 DEF FillsOK, NoOverfill, Qty, BeingTriggered
<1>9. TradeWithinLimits'
  BY <1>0, <1>1 DEF TradeWithinLimits, MatchedAsk, MatchedBid, Side, User
<1> QED
  BY <1>4, <1>5, <1>6, <1>7, <1>8, <1>9 DEF IInv

\* Park takes it from being added to the stop-loss queue of its side.
LEMMA ParkIInv ==
  ASSUME IInv, NEW o \in Orders, Park(o)
  PROVE  IInv'
<1>0. /\ UNCHANGED <<ticket, at, placed, mem, saved, cached, filled, saving, cancelling, queue,
                     depth, market, matcher, serving, unloaded, faults, restarts>>
      /\ stage[o] = "park" /\ stage' = [stage EXCEPT ![o] = "added"]
      /\ stops' = [stops EXCEPT ![Side(o)] = @ \cup {o}]
  BY DEF Park
<1>1. TypeOK /\ Places /\ InMatch /\ KindsOK /\ FillsOK /\ TradeWithinLimits
  BY DEF IInv
<1>2. Side(o) \in Sides /\ o <= placed /\ o \in BeingAdded
  <2>1. placed \in Nat
    BY <1>1 DEF TypeOK
  <2> QED
    BY <1>0, <1>1, <2>1, TicketParts DEF Places, BeingAdded
<1>3. \A x \in Orders : stage'[x] = IF x = o THEN "added" ELSE stage[x]
  BY <1>0, <1>1 DEF TypeOK
<1>4. BeingAdded' = BeingAdded \ {o} /\ Dormant' = Dormant \cup {o}
  BY <1>0, <1>1, <1>2, <1>3 DEF TypeOK, BeingAdded, Dormant
<1>5. TypeOK'
  <2>1. stage' \in [Orders -> {"new", "check", "park", "send", "added"}]
    BY <1>0, <1>1 DEF TypeOK
  <2>2. stops' \in [Sides -> SUBSET Orders]
    BY <1>0, <1>1 DEF TypeOK
  <2> QED
    BY <1>0, <1>1, <2>1, <2>2 DEF TypeOK
<1>6. Places'
  <2>1. HeldOnce'
    BY <1>0, <1>1, <1>2, <1>4 DEF Places, HeldOnce, Queued, InHand, BeingTriggered
  <2>2. \A s \in Sides : \A x \in queue'[s] \cup stops'[s] : x <= placed' /\ Side(x)' = s
    BY <1>0, <1>1, <1>2 DEF TypeOK, Places, Side
  <2> QED
    BY <1>0, <1>1, <1>3, <2>1, <2>2 DEF Places
<1>7. InMatch'
  <2>1. placed \in Nat
    BY <1>1 DEF TypeOK
  <2> QED
    BY <1>0, <1>1, <2>1, InMatchFrame
<1>8. KindsOK'
  BY <1>0, <1>1, <1>3, <1>4 DEF KindsOK, Queued, InHand, BeingTriggered
<1>9. FillsOK'
  BY <1>0, <1>1, <1>3 DEF FillsOK, NoOverfill, Qty, BeingTriggered
<1>10. TradeWithinLimits'
  BY <1>0, <1>1 DEF TradeWithinLimits, MatchedAsk, MatchedBid, Side, User
<1> QED
  BY <1>5, <1>6, <1>7, <1>8, <1>9, <1>10 DEF IInv
------------------------------------------------------------------------------
(* Cancelling *)

\* Closing orders, in memory or in the database, disturbs neither types nor fills.
LEMMA ClosingKeeps ==
  ASSUME IInv, UNCHANGED <<ticket, filled, stage, saving>>,
         UNCHANGED <<Queued, Dormant, matcher.held, InHand, BeingTriggered>>,
         \A x \in Orders : mem'[x].kind = mem[x].kind /\ (mem[x].closed => mem'[x].closed),
         \A x \in Orders : /\ saved'[x].kind = saved[x].kind \/ saved'[x].kind = mem[x].kind
                           /\ saved[x].closed => saved'[x].closed
  PROVE  KindsOK' /\ FillsOK'
<1>1. KindsOK /\ FillsOK /\ NoOverfill
  BY DEF IInv, FillsOK
<1>2. \A x \in Queued \cup matcher.held \cup InHand \cup BeingTriggered \cup Dormant : x \in Orders
  BY HeldPlaced DEF IInv
<1>3. KindsOK'
  BY <1>1, <1>2 DEF KindsOK
<1>4. NoOverfill'
  BY <1>1 DEF NoOverfill, Qty
<1>5. FillsOK'
  BY <1>1, <1>4 DEF FillsOK, Qty
<1> QED
  BY <1>3, <1>5

\* The records a cancellation under way can be.
Cancels == [order : Orders, object : Kinds \cup {"engine"}]

\* A step that does nothing but close orders preserves the invariant.
LEMMA OnlyClosingIInv ==
  ASSUME IInv,
         UNCHANGED <<ticket, at, placed, filled, stage, saving, queue, stops, market,
                     matcher, serving, unloaded, restarts>>,
         mem' \in [Orders -> [kind : Kinds, closed : BOOLEAN]],
         saved' \in [Orders -> [kind : Kinds, closed : BOOLEAN]],
         cached' \subseteq Orders, cancelling' \subseteq Cancels, faults' \in 0 .. MaxFaults,
         depth' \in [Sides -> [Prices \cup {Level0} -> Nat]],
         \A x \in Orders : mem'[x].kind = mem[x].kind /\ (mem[x].closed => mem'[x].closed),
         \A x \in Orders : /\ saved'[x].kind = saved[x].kind \/ saved'[x].kind = mem[x].kind
                           /\ saved[x].closed => saved'[x].closed
  PROVE  IInv'
<1>1. TypeOK /\ Places /\ InMatch /\ TradeWithinLimits
  BY DEF IInv
<1>2. TypeOK'
  BY <1>1 DEF TypeOK, Cancels
<1>3. Places'
  BY <1>1, PlacesFrame DEF BeingAdded
<1>4. InMatch'
  <2>1. placed \in Nat
    BY <1>1 DEF TypeOK
  <2>2. \A x \in Queued \cup InHand : mem'[x].kind = mem[x].kind
    BY <1>1, HeldPlaced
  <2> QED
    BY <1>1, <2>1, <2>2, InMatchFrame
<1>5. KindsOK' /\ FillsOK'
  BY ClosingKeeps DEF Queued, Dormant, InHand, BeingTriggered
<1>6. TradeWithinLimits'
  BY <1>1 DEF TradeWithinLimits, MatchedAsk, MatchedBid, Side, User
<1> QED
  BY <1>2, <1>3, <1>4, <1>5, <1>6 DEF IInv

\* Closing one object.
LEMMA CloseInMemory ==
  ASSUME TypeOK, NEW o \in Orders, mem' = [mem EXCEPT ![o].closed = TRUE]
  PROVE  /\ mem' \in [Orders -> [kind : Kinds, closed : BOOLEAN]]
         /\ mem'[o].closed
         /\ \A x \in Orders : mem'[x].kind = mem[x].kind /\ (mem[x].closed => mem'[x].closed)
<1>1. mem \in [Orders -> [kind : Kinds, closed : BOOLEAN]]
  BY DEF TypeOK
<1> QED
  BY <1>1

\* models.CancelOrder only closes an order.
LEMMA CancelOrderIInv ==
  ASSUME IInv, NEW o \in Orders, CancelOrder(o)
  PROVE  IInv'
<1>0. UNCHANGED <<ticket, at, placed, filled, stage, saving, queue, stops, depth,
                  market, matcher, serving, unloaded, faults, restarts>>
  BY DEF CancelOrder
<1>1. TypeOK
  BY DEF IInv
<1>2. /\ mem \in [Orders -> [kind : Kinds, closed : BOOLEAN]]
      /\ saved \in [Orders -> [kind : Kinds, closed : BOOLEAN]]
      /\ cached \subseteq Orders /\ cancelling \subseteq Cancels /\ faults \in 0 .. MaxFaults
      /\ depth \in [Sides -> [Prices \cup {Level0} -> Nat]]
  BY <1>0, <1>1 DEF TypeOK, Cancels
<1>3. CASE o \in cached
  <2>1. /\ mem' = [mem EXCEPT ![o].closed = TRUE] /\ saved' = [saved EXCEPT ![o] = mem'[o]]
        /\ cached' = cached \ {o}
        /\ cancelling' = cancelling \cup {[order |-> o, object |-> "engine"]}
    BY <1>3 DEF CancelOrder
  <2>2. saved' \in [Orders -> [kind : Kinds, closed : BOOLEAN]]
    BY <1>1, <1>2, <2>1, CloseInMemory
  <2>3. \A x \in Orders : /\ saved'[x].kind = saved[x].kind \/ saved'[x].kind = mem[x].kind
                          /\ saved[x].closed => saved'[x].closed
    BY <1>1, <1>2, <2>1, CloseInMemory
  <2>4. cached' \subseteq Orders /\ cancelling' \subseteq Cancels
    BY <1>2, <2>1 DEF Cancels
  <2> QED
    BY <1>0, <1>1, <1>2, <2>1, <2>2, <2>3, <2>4, CloseInMemory, OnlyClosingIInv
<1>4. CASE o \notin cached
  <2>1. /\ UNCHANGED <<mem, cached>> /\ saved' = [saved EXCEPT ![o].closed = TRUE]
        /\ cancelling' = cancelling \cup {[order |-> o, object |-> saved[o].kind]}
    BY <1>4 DEF CancelOrder
  <2>2. /\ saved' \in [Orders -> [kind : Kinds, closed : BOOLEAN]]
        /\ \A x \in Orders : /\ saved'[x].kind = saved[x].kind \/ saved'[x].kind = mem[x].kind
                             /\ saved[x].closed => saved'[x].closed
    BY <1>2, <2>1
  <2>3. cached' \subseteq Orders /\ cancelling' \subseteq Cancels
    BY <1>2, <2>1 DEF Cancels
  <2> QED
    BY <1>0, <1>2, <2>1, <2>2, <2>3, OnlyClosingIInv
<1> QED
  BY <1>3, <1>4

\* Errors are counted up to the bound.
LEMMA FaultType ==
  ASSUME TypeOK, Fault
  PROVE  faults' \in 0 .. MaxFaults
<1>1. faults \in Nat /\ MaxFaults \in Nat
  BY BoundsAssumption DEF TypeOK
<1> QED
  BY <1>1 DEF Fault

\* A cancellation that fails half-way only closes the object.
LEMMA CancelOrderFailsIInv ==
  ASSUME IInv, NEW o \in Orders, CancelOrderFails(o)
  PROVE  IInv'
<1>0. /\ UNCHANGED <<ticket, at, placed, saved, filled, stage, saving, cancelling, queue, stops,
                     depth, market, matcher, serving, unloaded, restarts>>
      /\ mem' = [mem EXCEPT ![o].closed = TRUE]
      /\ cached' \subseteq cached
  BY DEF CancelOrderFails
<1>1. TypeOK
  BY DEF IInv
<1>2. /\ saved \in [Orders -> [kind : Kinds, closed : BOOLEAN]]
      /\ cached' \subseteq Orders /\ cancelling \subseteq Cancels /\ faults' \in 0 .. MaxFaults
      /\ depth \in [Sides -> [Prices \cup {Level0} -> Nat]]
  <2>1. faults' \in 0 .. MaxFaults
    BY <1>1, FaultType DEF CancelOrderFails
  <2> QED
    BY <1>0, <1>1, <2>1 DEF TypeOK, Cancels
<1> QED
  BY <1>0, <1>1, <1>2, CloseInMemory, OnlyClosingIInv

\* Taking a quantity out of the depth leaves numbers there.
LEMMA CloseOrderType ==
  ASSUME NEW d \in [Sides -> [Prices \cup {Level0} -> Nat]], NEW s \in Sides,
         NEW level \in Prices \cup {Level0}, NEW n \in Nat
  PROVE  CloseOrder(d, s, level, n) \in [Sides -> [Prices \cup {Level0} -> Nat]]
<1> DEFINE m == d[s][level]
<1>1. m \in Nat
  OBVIOUS
<1>2. (IF n > m THEN 0 ELSE m - n) \in Nat
  BY <1>1
<1> QED
  BY <1>2 DEF CloseOrder

\* Adding a quantity to the depth leaves numbers there.
LEMMA AddOrderType ==
  ASSUME NEW d \in [Sides -> [Prices \cup {Level0} -> Nat]], NEW s \in Sides,
         NEW level \in Prices \cup {Level0}, NEW n \in Nat
  PROVE  AddOrder(d, s, level, n) \in [Sides -> [Prices \cup {Level0} -> Nat]]
<1>1. d[s][level] + n \in Nat
  OBVIOUS
<1> QED
  BY <1>1 DEF AddOrder

\* What is left of an order is a number.
LEMMA UnfilledType ==
  ASSUME TypeOK, FillsOK, NEW o \in Orders
  PROVE  /\ Unfilled(o) \in Nat
         /\ \A k : LevelOf(o, k) \in Prices \cup {Level0}
<1>1. Qty(o) \in Nat /\ filled[o] \in Nat /\ filled[o] <= Qty(o)
  BY TicketParts DEF TypeOK, FillsOK, NoOverfill
<1> QED
  BY <1>1, TicketParts DEF Unfilled, LevelOf

\* CancelAskOrder and CancelBidOrder change nothing but the depth.
LEMMA CancelInBookIInv ==
  ASSUME IInv, NEW c \in cancelling, CancelInBook(c)
  PROVE  IInv'
<1> DEFINE o == c.order
<1>0. /\ UNCHANGED <<ticket, at, placed, mem, saved, cached, filled, stage, saving, queue, stops,
                     market, matcher, serving, unloaded, faults, restarts>>
      /\ cancelling' = cancelling \ {c}
  BY DEF CancelInBook
<1>1. TypeOK /\ FillsOK
  BY DEF IInv
<1>2. o \in Orders
  BY <1>1 DEF TypeOK
<1>3. depth' \in [Sides -> [Prices \cup {Level0} -> Nat]]
  <2>1. depth \in [Sides -> [Prices \cup {Level0} -> Nat]]
    BY <1>1 DEF TypeOK
  <2>2. \A k : CloseOrder(depth, Side(o), LevelOf(o, k), Unfilled(o))
                 \in [Sides -> [Prices \cup {Level0} -> Nat]]
    BY <1>1, <1>2, <2>1, TicketParts, UnfilledType, CloseOrderType
  <2> QED
    BY <2>1, <2>2 DEF CancelInBook
<1>4. /\ mem \in [Orders -> [kind : Kinds, closed : BOOLEAN]]
      /\ saved \in [Orders -> [kind : Kinds, closed : BOOLEAN]]
      /\ cached \subseteq Orders /\ cancelling' \subseteq Cancels /\ faults \in 0 .. MaxFaults
  BY <1>0, <1>1 DEF TypeOK, Cancels
<1> QED
  BY <1>0, <1>3, <1>4, OnlyClosingIInv

------------------------------------------------------------------------------
(* getTopMatchingBid, getTopMatchingAsk *)

\* The order in hand, found nowhere else, looks for a match in a part q of the queues.
Seeking(i, q) ==
  /\ i \in Orders /\ i <= placed /\ mem[i].kind # "StopLoss" /\ saving[i] = "no"
  /\ q \in [Sides -> SUBSET Orders] /\ \A s \in Sides : q[s] \subseteq queue[s] \ {i}
  /\ i \notin Dormant /\ unloaded = {}
  /\ matcher.pc \in {"idle", "seek", "clear"}
  /\ ~serving => Side(i) = "bid"
  /\ stage' \in [Orders -> {"new", "check", "park", "send", "added"}]
  /\ stage'[i] = "added" /\ stage[i] # "new"
  /\ \A x \in Orders : x # i => stage'[x] = stage[x]
  /\ UNCHANGED <<submission, objects, saving, cancelling, stops, market, unloaded, counters>>

\* What a match is: the order found is of another user, those popped are not.
LEMMA StartMatchFacts ==
  ASSUME TypeOK, NEW i, NEW q, Seeking(i, q), StartMatch(i, q)
  PROVE  \E r \in q[Other(Side(i))] : \E h \in SUBSET q[Other(Side(i))] :
           /\ Matches(i, r) /\ User(r) # User(i) /\ r \notin h
           /\ matcher' = [At("fill") EXCEPT !.inc = i, !.res = r, !.held = h]
           /\ queue' = [q EXCEPT ![Other(Side(i))] = @ \ h]
           /\ UNCHANGED <<depth, serving>>
<1>1. PICK r \in BestOf(i, q) : \E h \in PoppedOnTheWay(i, r, q) :
        /\ Matches(i, r)
        /\ matcher' = [At("fill") EXCEPT !.inc = i, !.res = r, !.held = h]
        /\ queue' = [q EXCEPT ![Other(Side(i))] = @ \ h]
        /\ UNCHANGED <<depth, serving>>
  BY DEF StartMatch
<1>2. PICK h \in PoppedOnTheWay(i, r, q) :
        /\ Matches(i, r)
        /\ matcher' = [At("fill") EXCEPT !.inc = i, !.res = r, !.held = h]
        /\ queue' = [q EXCEPT ![Other(Side(i))] = @ \ h]
        /\ UNCHANGED <<depth, serving>>
  BY <1>1
<1>3. r \in q[Other(Side(i))] /\ User(r) # User(i)
  BY <1>1 DEF BestOf
<1>4. \A x \in h : x \in q[Other(Side(i))] /\ User(x) = User(i)
  BY <1>2 DEF PoppedOnTheWay
<1>5. h \in SUBSET q[Other(Side(i))] /\ r \notin h
  BY <1>3, <1>4
<1> QED
  BY <1>2, <1>3, <1>5

\* getTopMatchingBid and getTopMatchingAsk take from the queue what they hold, and the
\* two orders of the match are open to it: of two users, and at matching prices.
LEMMA StartMatchIInv ==
  ASSUME IInv, NEW i, NEW q, Seeking(i, q), StartMatch(i, q)
  PROVE  IInv'
<1>1. TypeOK /\ Places /\ HeldOnce /\ InMatch /\ KindsOK /\ FillsOK
  BY DEF IInv, Places
<1>2. PICK r \in q[Other(Side(i))] : \E h \in SUBSET q[Other(Side(i))] :
        /\ Matches(i, r) /\ User(r) # User(i) /\ r \notin h
        /\ matcher' = [At("fill") EXCEPT !.inc = i, !.res = r, !.held = h]
        /\ queue' = [q EXCEPT ![Other(Side(i))] = @ \ h]
        /\ UNCHANGED <<depth, serving>>
  BY <1>1, StartMatchFacts
<1>3. PICK h \in SUBSET q[Other(Side(i))] :
        /\ Matches(i, r) /\ User(r) # User(i) /\ r \notin h
        /\ matcher' = [At("fill") EXCEPT !.inc = i, !.res = r, !.held = h]
        /\ queue' = [q EXCEPT ![Other(Side(i))] = @ \ h]
        /\ UNCHANGED <<depth, serving>>
  BY <1>2
<1>4. i \in Orders /\ Side(i) \in Sides /\ Other(Side(i)) \in Sides
  BY <1>1, TicketParts DEF Seeking, Other
<1>5. q \in [Sides -> SUBSET Orders] /\ \A s \in Sides : q[s] \subseteq queue[s] \ {i}
  BY DEF Seeking
<1>6. r \in Orders /\ h \subseteq Orders
  BY <1>2, <1>3, <1>4, <1>5
<1>7. /\ matcher'.pc = "fill" /\ matcher'.inc = i /\ matcher'.res = r /\ matcher'.held = h
      /\ matcher'.tr = None
  BY <1>3 DEF At
<1>8. queue' \in [Sides -> SUBSET Orders] /\ r \in queue'[Other(Side(i))]
  BY <1>3, <1>4, <1>5
<1>9. \A s \in Sides : queue'[s] \subseteq queue[s] /\ queue'[s] \cap h = {} /\ i \notin queue'[s]
  <2>1. \A s \in Sides : queue'[s] \subseteq q[s]
    BY <1>3, <1>4, <1>5
  <2>2. queue'[Other(Side(i))] \cap h = {}
    BY <1>3, <1>4, <1>5
  <2>3. \A s \in Sides : s # Other(Side(i)) => queue[s] \cap queue[Other(Side(i))] = {}
    BY <1>1, <1>4 DEF HeldOnce
  <2>4. h \subseteq queue[Other(Side(i))]
    BY <1>4, <1>5
  <2> QED
    BY <1>4, <1>5, <2>1, <2>2, <2>3, <2>4
<1>10. /\ InHand' = {i} /\ BeingTriggered' = {} /\ Queued' \subseteq Queued /\ h \subseteq Queued
       /\ Queued' \cap h = {} /\ i \notin Queued' \cup h /\ Dormant' = Dormant
  BY <1>3, <1>4, <1>5, <1>7, <1>9 DEF InHand, BeingTriggered, Queued, Dormant, Other, Seeking
<1>11. BeingAdded' \subseteq BeingAdded \ {i}
  BY DEF Seeking, BeingAdded
<1>12. TypeOK'
  <2>1. matcher' \in [pc : Steps, inc : Orders \cup {None}, res : Orders \cup {None},
                      held : SUBSET Orders, trig : Orders \cup {None},
                      incSt : Statuses, resSt : Statuses,
                      tr : Prices \cup {None}, qty : Nat]
    BY <1>3, <1>4, <1>6 DEF At, Steps, Statuses
  <2> QED
    BY <1>1, <1>3, <1>8, <2>1 DEF TypeOK, Seeking
<1>13. Places'
  <2>1. HeldOnce'
    <3>1. i \notin Dormant /\ unloaded' = {}
      BY DEF Seeking
    <3>2. queue'["ask"] \cap queue'["bid"] = {}
      BY <1>1, <1>9 DEF HeldOnce
    <3>3. Queued \cap Dormant = {} /\ BeingAdded \cap (Queued \cup Dormant) = {}
      BY <1>1 DEF HeldOnce
    <3> QED
      BY <1>7, <1>10, <1>11, <3>1, <3>2, <3>3 DEF HeldOnce
  <2>2. \A s \in Sides : \A o \in queue'[s] \cup stops'[s] : o <= placed' /\ Side(o)' = s
    BY <1>1, <1>9 DEF Places, Seeking, Side
  <2>3. \A o \in Orders : stage'[o] = "new" <=> placed' < o
    <3>1. i <= placed /\ placed \in Nat /\ i \in Nat
      BY <1>1, <1>4, BoundsAssumption DEF TypeOK, Seeking
    <3> QED
      BY <1>1, <3>1 DEF Places, Seeking
  <2> QED
    BY <1>1, <2>1, <2>2, <2>3 DEF Places, Seeking
<1>14. InMatch'
  <2>1. \A o \in h : o <= placed' /\ Side(o)' = Other(Side(i)')
    BY <1>1, <1>3, <1>4, <1>5 DEF Places, Seeking, Side
  <2>2. Matches(i, r)'
    BY <1>3 DEF Matches, IsOrderMatching, IsMarket, Side, Seeking
  <2>3. User(r)' # User(i)' /\ Side(i)' = Side(i)
    BY <1>3 DEF User, Side, Seeking
  <2> QED
    BY <1>3, <1>4, <1>7, <1>8, <2>1, <2>2, <2>3 DEF InMatch, MatchSteps, Seeking
<1>15. KindsOK'
  <2>1. \A o \in Queued' \cup matcher'.held \cup InHand' \cup BeingTriggered' : mem'[o].kind # "StopLoss"
    <3>1. Queued' \cup matcher'.held \cup InHand' \cup BeingTriggered' \subseteq Queued \cup {i}
      BY <1>7, <1>10
    <3>2. mem' = mem
      BY DEF Seeking
    <3>3. \A o \in Queued : mem[o].kind # "StopLoss"
      BY <1>1 DEF KindsOK
    <3>4. mem[i].kind # "StopLoss"
      BY <1>1 DEF KindsOK, Seeking
    <3> QED
      BY <3>1, <3>2, <3>3, <3>4
  <2> QED
    BY <1>1, <1>10, <2>1 DEF KindsOK, Seeking
<1>16. FillsOK'
  BY <1>1, <1>10 DEF FillsOK, NoOverfill, Qty, Seeking, BeingTriggered
<1>17. TradeWithinLimits'
  BY <1>7 DEF TradeWithinLimits
<1> QED
  BY <1>12, <1>13, <1>14, <1>15, <1>16, <1>17 DEF IInv
\* An order that matches none goes from the goroutine's hand to its queue.
LEMMA PutInQueueIInv ==
  ASSUME IInv, NEW i, NEW q, Seeking(i, q), PutInQueue(i, q)
  PROVE  IInv'
<1>1. TypeOK /\ Places /\ HeldOnce /\ InMatch /\ KindsOK /\ FillsOK
  BY DEF IInv, Places
<1>2. i \in Orders /\ Side(i) \in Sides
  BY <1>1, TicketParts DEF Seeking
<1>3. q \in [Sides -> SUBSET Orders] /\ \A s \in Sides : q[s] \subseteq queue[s] \ {i}
  BY DEF Seeking
<1>4. /\ queue' = [q EXCEPT ![Side(i)] = @ \cup {i}]
      /\ matcher' = At("idle") /\ serving' = TRUE
  BY DEF PutInQueue
<1>5. /\ queue' \in [Sides -> SUBSET Orders]
      /\ \A s \in Sides : \A o \in queue'[s] : o \in queue[s] \/ (o = i /\ s = Side(i))
  BY <1>2, <1>3, <1>4
<1>6. /\ matcher'.pc = "idle" /\ matcher'.held = {} /\ matcher'.tr = None
      /\ InHand' = {} /\ BeingTriggered' = {} /\ Dormant' = Dormant
      /\ Queued' \subseteq Queued \cup {i}
  BY <1>4, <1>5 DEF At, InHand, BeingTriggered, Dormant, Queued, Seeking
<1>7. BeingAdded' \subseteq BeingAdded \ {i}
  BY DEF Seeking, BeingAdded
<1>8. TypeOK'
  <2>1. matcher' \in [pc : Steps, inc : Orders \cup {None}, res : Orders \cup {None},
                      held : SUBSET Orders, trig : Orders \cup {None},
                      incSt : Statuses, resSt : Statuses,
                      tr : Prices \cup {None}, qty : Nat]
    BY <1>4 DEF At, Steps, Statuses
  <2>2. depth' \in [Sides -> [Prices \cup {Level0} -> Nat]]
    <3>1. depth \in [Sides -> [Prices \cup {Level0} -> Nat]]
      BY <1>1 DEF TypeOK
    <3>2. AddOrder(depth, Side(i), Level(i), Unfilled(i)) \in [Sides -> [Prices \cup {Level0} -> Nat]]
      BY <1>1, <1>2, <3>1, UnfilledType, AddOrderType DEF Level
    <3> QED
      BY <3>1, <3>2 DEF PutInQueue
  <2> QED
    BY <1>1, <1>4, <1>5, <2>1, <2>2 DEF TypeOK, Seeking
<1>9. Places'
  <2>1. HeldOnce'
    <3>1. queue'["ask"] \cap queue'["bid"] = {}
      <4>1. queue["ask"] \cap queue["bid"] = {}
        BY <1>1 DEF HeldOnce
      <4>2. \A s \in Sides : s # Side(i) => i \notin queue'[s]
        BY <1>2, <1>3, <1>4
      <4> QED
        BY <1>2, <1>5, <4>1, <4>2
    <3>2. i \notin Dormant /\ unloaded' = {}
      BY DEF Seeking
    <3>3. Queued \cap Dormant = {} /\ BeingAdded \cap (Queued \cup Dormant) = {}
      BY <1>1 DEF HeldOnce
    <3> QED
      BY <1>6, <1>7, <3>1, <3>2, <3>3 DEF HeldOnce
  <2>2. \A s \in Sides : \A o \in queue'[s] \cup stops'[s] : o <= placed' /\ Side(o)' = s
    BY <1>1, <1>5 DEF Places, Seeking, Side
  <2>3. \A o \in Orders : stage'[o] = "new" <=> placed' < o
    <3>1. i <= placed /\ placed \in Nat /\ i \in Nat
      BY <1>1, <1>2, BoundsAssumption DEF TypeOK, Seeking
    <3> QED
      BY <1>1, <3>1 DEF Places, Seeking
  <2> QED
    BY <1>1, <2>1, <2>2, <2>3 DEF Places, Seeking
<1>10. InMatch'
  BY <1>6 DEF InMatch, MatchSteps
<1>11. KindsOK'
  <2>1. \A o \in Queued' \cup matcher'.held \cup InHand' \cup BeingTriggered' : mem'[o].kind # "StopLoss"
    BY <1>1, <1>6 DEF KindsOK, Seeking
  <2> QED
    BY <1>1, <1>6, <2>1 DEF KindsOK, Seeking
<1>12. FillsOK'
  BY <1>1 DEF FillsOK, NoOverfill, Qty, Seeking, BeingTriggered
<1>13. TradeWithinLimits'
  BY <1>6 DEF TradeWithinLimits
<1> QED
  BY <1>8, <1>9, <1>10, <1>11, <1>12, <1>13 DEF IInv

\* An order that is in one of the goroutine's own places is not being triggered.
LEMMA NotBeingAdded ==
  ASSUME IInv, NEW o \in Queued \cup InHand
  PROVE  /\ o \in Orders /\ o <= placed /\ mem[o].kind # "StopLoss"
         /\ stage[o] = "added" /\ saving[o] = "no" /\ o \notin Dormant /\ o \notin BeingAdded
<1>1. TypeOK /\ Places /\ HeldOnce /\ InMatch /\ KindsOK /\ FillsOK
  BY DEF IInv, Places
<1>2. o \in Orders /\ o <= placed
  BY <1>1, HeldPlaced
<1>3. o \notin Dormant /\ o \notin BeingAdded /\ o \notin BeingTriggered
  BY <1>1 DEF HeldOnce
<1>4. stage[o] # "new"
  <2>1. o \in Nat /\ placed \in Nat
    BY <1>1, <1>2, BoundsAssumption DEF TypeOK
  <2> QED
    BY <1>1, <1>2, <2>1 DEF Places
<1>5. stage[o] = "added"
  BY <1>1, <1>2, <1>3, <1>4 DEF TypeOK, BeingAdded
<1> QED
  BY <1>1, <1>2, <1>3, <1>5 DEF KindsOK, FillsOK

\* An order received from its channel was nowhere else.
LEMMA ReceiveSeeks ==
  ASSUME IInv, NEW o \in Orders, Receive(o)
  PROVE  Seeking(o, queue) /\ (StartMatch(o, queue) \/ PutInQueue(o, queue))
<1>1. TypeOK /\ Places /\ HeldOnce /\ InMatch /\ KindsOK /\ FillsOK
  BY DEF IInv, Places
<1>2. /\ serving /\ matcher.pc = "idle"
      /\ stage[o] = "send" /\ saving[o] = "no" /\ stage' = [stage EXCEPT ![o] = "added"]
      /\ UNCHANGED <<submission, objects, saving, cancelling, stops, market, unloaded, counters>>
  BY DEF Receive
<1>3. o <= placed
  BY <1>1, <1>2 DEF TypeOK, Places
<1>4. o \notin Queued /\ o \notin Dormant
  BY <1>1, <1>2 DEF HeldOnce, BeingAdded
<1>5. unloaded = {}
  BY <1>1, <1>2 DEF Places
<1>6. queue \in [Sides -> SUBSET Orders] /\ \A s \in Sides : queue[s] \subseteq queue[s] \ {o}
  BY <1>1, <1>4 DEF TypeOK, Queued
<1>7. /\ stage' \in [Orders -> {"new", "check", "park", "send", "added"}]
      /\ stage'[o] = "added" /\ \A x \in Orders : x # o => stage'[x] = stage[x]
  BY <1>1, <1>2 DEF TypeOK
<1>8. Seeking(o, queue)
  BY <1>1, <1>2, <1>3, <1>4, <1>5, <1>6, <1>7 DEF Seeking, KindsOK
<1> QED
  BY <1>8 DEF Receive

\* ... and is then in the goroutine's hand or its queue.
LEMMA ReceiveIInv ==
  ASSUME IInv, NEW o \in Orders, Receive(o)
  PROVE  IInv'
BY ReceiveSeeks, StartMatchIInv, PutInQueueIInv

\* The loop's next look at the queue is for the order in hand.
LEMMA SeekAgainSeeks ==
  ASSUME IInv, SeekAgain
  PROVE  /\ Seeking(matcher.inc, queue)
         /\ StartMatch(matcher.inc, queue) \/ PutInQueue(matcher.inc, queue)
<1>1. TypeOK /\ Places /\ HeldOnce /\ InMatch
  BY DEF IInv, Places
<1>2. /\ matcher.pc = "seek" /\ matcher.inc \in InHand /\ unloaded = {} /\ stage' = stage
      /\ UNCHANGED <<submission, objects, saving, cancelling, stops, market, unloaded, counters>>
  BY <1>1 DEF SeekAgain, InHand, Places
<1>3. ~serving => Side(matcher.inc) = "bid"
  BY <1>1, <1>2 DEF InMatch
<1>4. queue \in [Sides -> SUBSET Orders] /\ \A s \in Sides : queue[s] \subseteq queue[s] \ {matcher.inc}
  BY <1>1, <1>2 DEF TypeOK, Queued, HeldOnce
<1>5. stage' \in [Orders -> {"new", "check", "park", "send", "added"}]
  BY <1>1, <1>2 DEF TypeOK
<1>6. Seeking(matcher.inc, queue)
  BY <1>2, <1>3, <1>4, <1>5, NotBeingAdded DEF Seeking
<1> QED
  BY <1>6 DEF SeekAgain

\* ... and preserves the invariant.
LEMMA SeekAgainIInv ==
  ASSUME IInv, SeekAgain
  PROVE  IInv'
BY SeekAgainSeeks, StartMatchIInv, PutInQueueIInv

\* The queues without the bid that clearExistingOrders takes.
Rest(b) == [queue EXCEPT !["bid"] = @ \ {b}]

\* The next bid of clearExistingOrders is out of its queue while it looks for a match.
LEMMA ClearNextSeeks ==
  ASSUME IInv, ClearNext, queue["bid"] # {}
  PROVE  \E b \in Tops(queue["bid"]) :
           Seeking(b, Rest(b)) /\ (StartMatch(b, Rest(b)) \/ PutInQueue(b, Rest(b)))
<1>1. TypeOK /\ Places /\ HeldOnce
  BY DEF IInv, Places
<1>2. /\ matcher.pc = "clear" /\ unloaded = {} /\ stage' = stage
      /\ UNCHANGED <<submission, objects, saving, cancelling, stops, market, unloaded, counters>>
  BY <1>1 DEF ClearNext, Places
<1>3. PICK b \in Tops(queue["bid"]) : StartMatch(b, Rest(b)) \/ PutInQueue(b, Rest(b))
  BY DEF ClearNext, Rest
<1>4. b \in queue["bid"] /\ b \in Queued
  BY <1>3 DEF Tops, Queued
<1>5. Side(b) = "bid"
  BY <1>1, <1>4 DEF Places
<1>6. Rest(b) \in [Sides -> SUBSET Orders] /\ \A s \in Sides : Rest(b)[s] \subseteq queue[s] \ {b}
  <2>1. queue \in [Sides -> SUBSET Orders]
    BY <1>1 DEF TypeOK
  <2>2. b \notin queue["ask"]
    BY <1>1, <1>4 DEF HeldOnce
  <2> QED
    BY <2>1, <2>2 DEF Rest
<1>7. stage' \in [Orders -> {"new", "check", "park", "send", "added"}]
  BY <1>1, <1>2 DEF TypeOK
<1>8. Seeking(b, Rest(b))
  BY <1>2, <1>4, <1>5, <1>6, <1>7, NotBeingAdded DEF Seeking
<1> QED
  BY <1>3, <1>8

\* Taking the next bid of clearExistingOrders preserves the invariant.
LEMMA ClearNextIInv ==
  ASSUME IInv, ClearNext
  PROVE  IInv'
<1>1. TypeOK /\ Places /\ HeldOnce /\ InMatch /\ KindsOK /\ FillsOK
  BY DEF IInv, Places
<1>2. /\ matcher.pc = "clear" /\ unloaded = {} /\ stage' = stage
      /\ UNCHANGED <<submission, objects, saving, cancelling, stops, market, unloaded, counters>>
  BY <1>1 DEF ClearNext, Places
<1>3. CASE queue["bid"] = {}
  <2>1. matcher' = At("idle") /\ serving' = TRUE /\ UNCHANGED <<queue, depth>>
    BY <1>3 DEF ClearNext
  <2>2. matcher' \in [pc : Steps, inc : Orders \cup {None}, res : Orders \cup {None},
                      held : SUBSET Orders, trig : Orders \cup {None},
                      incSt : Statuses, resSt : Statuses,
                      tr : Prices \cup {None}, qty : Nat]
    BY <2>1 DEF At, Steps, Statuses
  <2>3. /\ matcher'.pc = "idle" /\ matcher'.held = {} /\ matcher'.tr = None
        /\ InHand' = {} /\ BeingTriggered' = {}
        /\ Dormant' = Dormant /\ Queued' = Queued /\ BeingAdded' = BeingAdded
    BY <1>2, <2>1 DEF At, InHand, BeingTriggered, Dormant, Queued, BeingAdded
  <2>4. TypeOK'
    BY <1>1, <1>2, <2>1, <2>2 DEF TypeOK
  <2>5. Places'
    BY <1>1, <1>2, <2>1, <2>3 DEF Places, HeldOnce, Side
  <2>6. InMatch'
    BY <2>3 DEF InMatch, MatchSteps
  <2>7. KindsOK'
    BY <1>1, <1>2, <2>3 DEF KindsOK
  <2>8. FillsOK'
    BY <1>1, <1>2, <2>3 DEF FillsOK, NoOverfill, Qty, BeingTriggered
  <2>9. TradeWithinLimits'
    BY <2>3 DEF TradeWithinLimits
  <2> QED
    BY <2>4, <2>5, <2>6, <2>7, <2>8, <2>9 DEF IInv
<1>4. CASE queue["bid"] # {}
  BY <1>4, ClearNextSeeks, StartMatchIInv, PutInQueueIInv
<1> QED
  BY <1>3, <1>4
------------------------------------------------------------------------------
(* makeTrade *)

MatcherType == [pc : Steps, inc : Orders \cup {None}, res : Orders \cup {None},
                held : SUBSET Orders, trig : Orders \cup {None},
                incSt : Statuses, resSt : Statuses, tr : Prices \cup {None}, qty : Nat]

\* A step of the goroutine that goes on with the same match leaves the orders where
\* they are.
LEMMA SameMatch ==
  ASSUME IInv, matcher.pc \in MatchSteps \ {"push"}, matcher'.pc \in MatchSteps \ {"fill", "push"},
         matcher'.inc = matcher.inc, matcher'.res = matcher.res, matcher'.held = matcher.held,
         UNCHANGED <<ticket, placed, stage, queue, stops, unloaded, serving>>
  PROVE  /\ Places' /\ InMatch'
         /\ UNCHANGED <<Queued, Dormant, InHand, BeingTriggered>>
<1>1. Places /\ HeldOnce /\ InMatch
  BY DEF IInv, Places
<1>2. UNCHANGED <<Queued, Dormant, InHand, BeingTriggered, BeingAdded>>
  BY DEF Queued, Dormant, InHand, BeingTriggered, BeingAdded, MatchSteps
<1>3. HeldOnce'
  BY <1>1, <1>2 DEF HeldOnce
<1>4. unloaded' = {}
  BY <1>1 DEF Places, MatchSteps
<1>5. Places'
  BY <1>1, <1>3, <1>4 DEF Places, Side
<1>6. InMatch'
  BY <1>1 DEF InMatch, Side, User, MatchSteps
<1> QED
  BY <1>2, <1>5, <1>6

\* What a return of fillOrderFn is, given the rest of the step.
LEMMA FillReturnsFacts ==
  ASSUME IInv, matcher.pc = "fill", NEW i \in Statuses, NEW r \in Statuses,
         NEW t \in Prices \cup {None}, NEW n \in Nat, FillReturns(i, r, t, n),
         UNCHANGED <<ticket, placed, stage, queue, stops, unloaded, serving>>
  PROVE  /\ matcher' \in MatcherType
         /\ matcher'.tr = t /\ matcher'.held = matcher.held
         /\ MatchedAsk' = MatchedAsk /\ MatchedBid' = MatchedBid
         /\ Places' /\ InMatch'
         /\ UNCHANGED <<Queued, Dormant, InHand, BeingTriggered>>
<1>1. matcher \in MatcherType
  BY DEF IInv, TypeOK, MatcherType
<1>2. /\ matcher' \in MatcherType /\ matcher'.pc = "settle" /\ matcher'.tr = t
      /\ matcher'.inc = matcher.inc /\ matcher'.res = matcher.res /\ matcher'.held = matcher.held
  BY <1>1 DEF FillReturns, MatcherType, Steps
<1>3. MatchedAsk' = MatchedAsk /\ MatchedBid' = MatchedBid
  BY <1>2 DEF MatchedAsk, MatchedBid, Side
<1> QED
  BY <1>2, <1>3, SameMatch DEF MatchSteps

\* A return without a trade.
LEMMA NoTradeLimits ==
  ASSUME matcher'.tr = None
  PROVE  TradeWithinLimits'
BY DEF TradeWithinLimits

\* The parties of a match.
LEMMA MatchedParties ==
  ASSUME IInv, matcher.pc = "fill"
  PROVE  /\ MatchedAsk \in Orders /\ MatchedBid \in Orders /\ MatchedAsk # MatchedBid
         /\ {MatchedAsk, MatchedBid} = {matcher.inc, matcher.res}
         /\ {MatchedAsk, MatchedBid} \subseteq Queued \cup InHand
         /\ User(MatchedAsk) # User(MatchedBid)
         /\ IsOrderMatching(MatchedAsk, MatchedBid)
<1>1. TypeOK /\ Places /\ InMatch
  BY DEF IInv
<1>2. /\ matcher.inc \in Orders /\ matcher.res \in Orders /\ matcher.inc # matcher.res
      /\ Side(matcher.res) = Other(Side(matcher.inc)) /\ Side(matcher.inc) \in Sides
  BY <1>1, PartiesPlaced, TicketParts DEF MatchSteps
<1>3. matcher.inc \in InHand /\ matcher.res \in Queued
  BY <1>1, <1>2 DEF InMatch, MatchSteps, InHand, Queued, Other
<1>4. User(matcher.inc) # User(matcher.res) /\ Matches(matcher.inc, matcher.res)
  BY <1>1 DEF InMatch, MatchSteps
<1> QED
  BY <1>2, <1>3, <1>4 DEF MatchedAsk, MatchedBid, Matches, Other

\* A fill that finds an order closed changes no order.
LEMMA FillFindsClosedIInv ==
  ASSUME IInv, FillFindsClosed
  PROVE  IInv'
<1>1. TypeOK
  BY DEF IInv
<1>2. /\ matcher.pc = "fill"
      /\ UNCHANGED <<submission, objects, stage, saving, cancelling, book, market,
                     serving, unloaded, counters>>
  BY DEF FillFindsClosed
<1>3. PICK i \in Statuses, r \in Statuses : FillReturns(i, r, None, 0)
  BY DEF FillFindsClosed, Statuses
<1>4. /\ matcher' \in MatcherType /\ matcher'.tr = None /\ Places' /\ InMatch'
      /\ UNCHANGED <<Queued, Dormant, matcher.held, InHand, BeingTriggered>>
  BY <1>2, <1>3, FillReturnsFacts
<1>5. TypeOK'
  BY <1>1, <1>2, <1>4 DEF TypeOK, MatcherType
<1>6. KindsOK' /\ FillsOK'
  BY <1>2, <1>4, ClosingKeeps
<1> QED
  BY <1>4, <1>5, <1>6, NoTradeLimits DEF IInv

\* A fill that the bidder cannot pay closes the bid and nothing else.
LEMMA FillDropsBidIInv ==
  ASSUME IInv, FillDropsBid
  PROVE  IInv'
<1>1. TypeOK
  BY DEF IInv
<1>2. /\ matcher.pc = "fill"
      /\ mem' = [mem EXCEPT ![MatchedBid].closed = TRUE]
      /\ saved' = [saved EXCEPT ![MatchedBid] = mem'[MatchedBid]]
      /\ cached' = cached \ {MatchedBid}
      /\ UNCHANGED <<submission, filled, stage, saving, cancelling, book,
                     market, serving, unloaded, counters>>
  BY DEF FillDropsBid
<1>3. PICK i \in Statuses, r \in Statuses : FillReturns(i, r, None, 0)
  BY DEF FillDropsBid, Statuses
<1>4. /\ matcher' \in MatcherType /\ matcher'.tr = None /\ Places' /\ InMatch'
      /\ UNCHANGED <<Queued, Dormant, matcher.held, InHand, BeingTriggered>>
  BY <1>2, <1>3, FillReturnsFacts
<1>5. /\ mem' \in [Orders -> [kind : Kinds, closed : BOOLEAN]] /\ mem'[MatchedBid].closed
      /\ \A x \in Orders : mem'[x].kind = mem[x].kind /\ (mem[x].closed => mem'[x].closed)
  BY <1>1, <1>2, MatchedParties, CloseInMemory
<1>6. saved \in [Orders -> [kind : Kinds, closed : BOOLEAN]]
  BY <1>1 DEF TypeOK
<1>7. /\ saved' \in [Orders -> [kind : Kinds, closed : BOOLEAN]]
      /\ \A x \in Orders : /\ saved'[x].kind = saved[x].kind \/ saved'[x].kind = mem[x].kind
                           /\ saved[x].closed => saved'[x].closed
  BY <1>2, <1>5, <1>6, MatchedParties
<1>8. TypeOK'
  BY <1>1, <1>2, <1>4, <1>5, <1>7 DEF TypeOK, MatcherType
<1>9. KindsOK' /\ FillsOK'
  BY <1>2, <1>4, <1>5, <1>7, ClosingKeeps
<1> QED
  BY <1>4, <1>8, <1>9, NoTradeLimits DEF IInv

\* A fill that fails changes no order.
LEMMA FillFailsIInv ==
  ASSUME IInv, FillFails
  PROVE  IInv'
<1>1. TypeOK
  BY DEF IInv
<1>2. /\ matcher.pc = "fill" /\ Fault /\ FillReturns("undone", "undone", None, 0)
      /\ UNCHANGED <<submission, mem, saved, filled, stage, saving, cancelling,
                     book, market, serving, unloaded, restarts>>
  BY DEF FillFails
<1>3. cached' \subseteq cached
  BY DEF FillFails
<1>4. /\ matcher' \in MatcherType /\ matcher'.tr = None /\ Places' /\ InMatch'
      /\ UNCHANGED <<Queued, Dormant, matcher.held, InHand, BeingTriggered>>
  BY <1>2, FillReturnsFacts DEF Statuses
<1>5. TypeOK'
  BY <1>1, <1>2, <1>3, <1>4, FaultType DEF TypeOK, MatcherType
<1>6. KindsOK' /\ FillsOK'
  BY <1>2, <1>4, ClosingKeeps
<1> QED
  BY <1>4, <1>5, <1>6, NoTradeLimits DEF IInv
\* getTradePriceAndQty: the price respects the limits of orders that match, and the
\* quantity is what both orders still want.
LEMMA TradePriceLimits ==
  ASSUME TypeOK, KindsOK, NEW a \in Orders, NEW b \in Orders, IsOrderMatching(a, b),
         mem[a].kind # "StopLoss", mem[b].kind # "StopLoss"
  PROVE  /\ TradePrice(a, b) \in Prices
         /\ ticket[a].kind = "Limit" => TradePrice(a, b) >= ticket[a].price
         /\ ticket[b].kind = "Limit" => TradePrice(a, b) <= ticket[b].price
<1>1. \A o \in {a, b} : IsMarket(o) <=> ticket[o].kind # "Limit"
  BY TicketParts DEF KindsOK, IsMarket, IsMarketKind, Kinds
<1>2. ticket[a].price \in Prices /\ ticket[b].price \in Prices /\ price \in Prices
  BY TicketParts DEF TypeOK
<1>3. ticket[a].price \in Nat /\ ticket[b].price \in Nat
  BY TicketParts
<1>4. CASE IsMarket(a) /\ IsMarket(b)
  BY <1>1, <1>2, <1>4 DEF TradePrice
<1>5. CASE IsMarket(a) /\ ~IsMarket(b)
  BY <1>1, <1>2, <1>3, <1>5 DEF TradePrice
<1>6. CASE ~IsMarket(a) /\ IsMarket(b)
  BY <1>1, <1>2, <1>3, <1>6 DEF TradePrice
<1>7. CASE ~IsMarket(a) /\ ~IsMarket(b)
  <2>1. ticket[b].price >= ticket[a].price
    BY <1>7 DEF IsOrderMatching
  <2>2. TradePrice(a, b) = IF at[a] < at[b] THEN ticket[a].price ELSE ticket[b].price
    BY <1>7 DEF TradePrice
  <2> QED
    BY <1>2, <1>3, <2>1, <2>2
<1> QED
  BY <1>4, <1>5, <1>6, <1>7

\* The quantity of a trade fits in what both orders still want, and closes one of them.
LEMMA TradeQtyFits ==
  ASSUME TypeOK, FillsOK, NEW a \in Orders, NEW b \in Orders, ~mem[a].closed, ~mem[b].closed
  PROVE  /\ TradeQty(a, b) \in Nat /\ TradeQty(a, b) > 0
         /\ filled[a] + TradeQty(a, b) <= Qty(a)
         /\ filled[b] + TradeQty(a, b) <= Qty(b)
<1>1. /\ Qty(a) \in Nat /\ filled[a] \in Nat /\ filled[a] < Qty(a)
      /\ Qty(b) \in Nat /\ filled[b] \in Nat /\ filled[b] < Qty(b)
  <2>1. \A o \in Orders : Qty(o) \in Nat /\ filled[o] \in Nat
    BY TicketParts DEF TypeOK
  <2>2. \A o \in {a, b} : filled[o] <= Qty(o) /\ filled[o] # Qty(o)
    BY DEF FillsOK, NoOverfill
  <2> QED
    BY <2>1, <2>2
<1> QED
  BY <1>1 DEF TradeQty, Unfilled

\* A trade fills both orders within their quantities, at a price within their limits.
LEMMA FillTradesIInv ==
  ASSUME IInv, FillTrades
  PROVE  IInv'
<1> DEFINE a == MatchedAsk  b == MatchedBid
           p == TradePrice(a, b)  n == TradeQty(a, b)
           closes(o) == filled[o] + n = Qty(o)
<1>1. TypeOK /\ Places /\ HeldOnce /\ InMatch /\ KindsOK /\ FillsOK /\ NoOverfill
  BY DEF IInv, Places, FillsOK
<1>2. /\ matcher.pc = "fill" /\ BothOpen
      /\ filled' = [filled EXCEPT ![a] = @ + n, ![b] = @ + n]
      /\ mem' = [mem EXCEPT ![a].closed = closes(a), ![b].closed = closes(b)]
      /\ saved' = [saved EXCEPT ![a] = mem'[a], ![b] = mem'[b]]
      /\ average' \in Prices /\ ((price' = average' /\ NoFault) \/ (Fault /\ UNCHANGED price))
      /\ UNCHANGED <<submission, cached, stage, saving, cancelling, book, serving,
                     unloaded, restarts>>
  <2>1. /\ matcher.pc = "fill" /\ BothOpen
        /\ filled' = [filled EXCEPT ![a] = @ + n, ![b] = @ + n]
    BY DEF FillTrades
  <2>2. /\ mem' = [mem EXCEPT ![a].closed = closes(a), ![b].closed = closes(b)]
        /\ saved' = [saved EXCEPT ![a] = mem'[a], ![b] = mem'[b]]
    BY DEF FillTrades
  <2>3. average' \in Prices /\ ((price' = average' /\ NoFault) \/ (Fault /\ UNCHANGED price))
    BY DEF FillTrades, Averages
  <2>4. UNCHANGED <<submission, cached, stage, saving, cancelling, book, serving,
                    unloaded, restarts>>
    BY DEF FillTrades
  <2> QED
    BY <2>1, <2>2, <2>3, <2>4
<1>3. PICK i \in Statuses, r \in Statuses : FillReturns(i, r, p, n)
  BY DEF FillTrades, Statuses
<1>4. /\ a \in Orders /\ b \in Orders /\ a # b /\ User(a) # User(b) /\ IsOrderMatching(a, b)
      /\ {a, b} = {matcher.inc, matcher.res} /\ {a, b} \subseteq Queued \cup InHand
  BY <1>2, MatchedParties
<1>5. /\ ~mem[a].closed /\ mem[a].kind # "StopLoss" /\ saving[a] = "no"
      /\ ~mem[b].closed /\ mem[b].kind # "StopLoss" /\ saving[b] = "no"
  BY <1>2, <1>4, NotBeingAdded DEF BothOpen
<1>6. /\ p \in Prices
      /\ ticket[a].kind = "Limit" => p >= ticket[a].price
      /\ ticket[b].kind = "Limit" => p <= ticket[b].price
  BY <1>1, <1>4, <1>5, TradePriceLimits
<1>7. n \in Nat /\ n > 0 /\ filled[a] + n <= Qty(a) /\ filled[b] + n <= Qty(b)
  BY <1>1, <1>4, <1>5, TradeQtyFits
<1> HIDE DEF a, b, p, n
<1>8. /\ matcher' \in MatcherType /\ matcher'.tr = p /\ Places' /\ InMatch'
      /\ MatchedAsk' = a /\ MatchedBid' = b
      /\ UNCHANGED <<Queued, Dormant, matcher.held, InHand, BeingTriggered>>
  BY <1>2, <1>3, <1>6, <1>7, FillReturnsFacts DEF a, b
<1>9. /\ filled \in [Orders -> Nat] /\ mem \in [Orders -> [kind : Kinds, closed : BOOLEAN]]
      /\ saved \in [Orders -> [kind : Kinds, closed : BOOLEAN]]
  BY <1>1 DEF TypeOK
<1>10. /\ mem' \in [Orders -> [kind : Kinds, closed : BOOLEAN]]
       /\ \A x \in Orders : mem'[x].kind = mem[x].kind
       /\ \A x \in Orders : mem'[x].closed = IF x \in {a, b} THEN closes(x) ELSE mem[x].closed
  <2> DEFINE ca == closes(a)  cb == closes(b)
  <2>1. mem' = [mem EXCEPT ![a].closed = ca, ![b].closed = cb] /\ ca \in BOOLEAN /\ cb \in BOOLEAN
    BY <1>2
  <2> HIDE DEF ca, cb
  <2>2. /\ mem' \in [Orders -> [kind : Kinds, closed : BOOLEAN]]
        /\ \A x \in Orders : mem'[x].kind = mem[x].kind
        /\ mem'[a].closed = ca /\ mem'[b].closed = cb
        /\ \A x \in Orders \ {a, b} : mem'[x] = mem[x]
    BY <1>4, <1>9, <2>1
  <2> QED
    BY <2>2 DEF ca, cb
<1>11. /\ saved' \in [Orders -> [kind : Kinds, closed : BOOLEAN]]
       /\ \A x \in Orders : saved'[x] = IF x \in {a, b} THEN mem'[x] ELSE saved[x]
  BY <1>2, <1>4, <1>9, <1>10
<1>12. /\ filled' \in [Orders -> Nat]
       /\ \A x \in Orders : filled'[x] = IF x \in {a, b} THEN filled[x] + n ELSE filled[x]
  BY <1>2, <1>4, <1>7, <1>9
<1>13. TypeOK'
  <2>1. price' \in Prices /\ average' \in Prices /\ faults' \in 0 .. MaxFaults
    BY <1>1, <1>2, <1>6, FaultType DEF TypeOK, NoFault
  <2> QED
    BY <1>1, <1>2, <1>8, <1>10, <1>11, <1>12, <2>1 DEF TypeOK, MatcherType
<1>14. KindsOK'
  <2>1. \A x \in Queued \cup matcher.held \cup InHand \cup BeingTriggered \cup Dormant : x \in Orders
    BY <1>1, HeldPlaced
  <2>2. \A x \in Orders : saved'[x].kind = mem[x].kind \/ saved'[x].kind = saved[x].kind
    BY <1>10, <1>11
  <2>3. UNCHANGED <<ticket, stage, saving>>
    BY <1>2
  <2> QED
    BY <1>1, <1>8, <1>10, <2>1, <2>2, <2>3 DEF KindsOK
<1>15. FillsOK'
  <2>1. NoOverfill'
    <3> SUFFICES ASSUME NEW x \in Orders
                 PROVE  /\ filled'[x] <= Qty(x)
                        /\ filled'[x] = Qty(x) => mem'[x].closed /\ saved'[x].closed
      BY <1>2 DEF NoOverfill, Qty
    <3>1. CASE x \in {a, b}
      BY <1>7, <1>10, <1>11, <1>12, <3>1
    <3>2. CASE x \notin {a, b}
      BY <1>1, <1>10, <1>11, <1>12, <3>2 DEF NoOverfill
    <3> QED
      BY <3>1, <3>2
  <2>2. \A x \in Orders : mem'[x].kind = "StopLoss" \/ saved'[x].kind = "StopLoss" => filled'[x] = 0
    BY <1>1, <1>5, <1>10, <1>11, <1>12 DEF FillsOK
  <2>3. \A x \in Orders : saving'[x] # "no" =>
          /\ filled'[x] < Qty(x)'
          /\ stage'[x] = "send" \/ x \in BeingTriggered'
    BY <1>1, <1>2, <1>5, <1>8, <1>12 DEF FillsOK, Qty
  <2> QED
    BY <2>1, <2>2, <2>3 DEF FillsOK
<1>16. TradeWithinLimits'
  BY <1>2, <1>4, <1>6, <1>8 DEF TradeWithinLimits, User
<1> QED
  BY <1>8, <1>13, <1>14, <1>15, <1>16 DEF IInv
\* makeTrade's update of the depth preserves the invariant.
LEMMA SettleIInv ==
  ASSUME IInv, Settle
  PROVE  IInv'
<1> DEFINE party == [s \in Sides |-> IF s = "ask" THEN MatchedAsk ELSE MatchedBid]
<1>1. TypeOK /\ InMatch /\ FillsOK /\ TradeWithinLimits /\ matcher \in MatcherType
  BY DEF IInv, TypeOK, MatcherType
<1>2. /\ matcher.pc = "settle"
      /\ matcher' = [matcher EXCEPT !.pc = IF matcher.tr = None THEN "finish" ELSE "trigger ask"]
      /\ UNCHANGED <<submission, objects, stage, saving, cancelling, queue, stops,
                     market, serving, unloaded, counters>>
  BY DEF Settle
<1>3. /\ matcher' \in MatcherType /\ matcher'.pc \in {"finish", "trigger ask"}
      /\ matcher'.inc = matcher.inc /\ matcher'.res = matcher.res /\ matcher'.held = matcher.held
      /\ matcher'.tr = matcher.tr
  BY <1>1, <1>2 DEF MatcherType, Steps
<1>4. /\ Places' /\ InMatch'
      /\ UNCHANGED <<Queued, Dormant, matcher.held, InHand, BeingTriggered>>
  BY <1>2, <1>3, SameMatch DEF MatchSteps
<1>5. depth' \in [Sides -> [Prices \cup {Level0} -> Nat]]
  <2>1. \A s \in Sides : party[s] \in Orders
    BY <1>1, <1>2, PartiesPlaced DEF IInv, MatchSteps, MatchedAsk, MatchedBid
  <2>2. depth \in [Sides -> [Prices \cup {Level0} -> Nat]] /\ matcher.qty \in Nat
    BY <1>1 DEF TypeOK, MatcherType
  <2>3. \A o \in Orders : ToClose(o) \in Nat /\ Level(o) \in Prices \cup {Level0}
    BY <1>1, <2>2, UnfilledType DEF ToClose, Level
  <2>4. \A s \in Sides : CloseOrder(depth, s, Level(party[s]), ToClose(party[s]))
                           \in [Sides -> [Prices \cup {Level0} -> Nat]]
    BY <2>1, <2>2, <2>3, CloseOrderType
  <2>5. depth' = [s \in Sides |->
                    IF InDepth(party[s])
                    THEN CloseOrder(depth, s, Level(party[s]), ToClose(party[s]))[s]
                    ELSE depth[s]]
    BY DEF Settle
  <2> HIDE DEF party
  <2> QED
    BY <2>2, <2>4, <2>5
<1>6. TypeOK'
  BY <1>1, <1>2, <1>3, <1>5 DEF TypeOK, MatcherType
<1>7. KindsOK' /\ FillsOK'
  BY <1>2, <1>4, ClosingKeeps
<1>8. TradeWithinLimits'
  BY <1>1, <1>2, <1>3 DEF TradeWithinLimits, MatchedAsk, MatchedBid, Side, User
<1> QED
  BY <1>4, <1>6, <1>7, <1>8 DEF IInv

------------------------------------------------------------------------------
(* triggerStopLosses *)

\* triggerStopLosses takes an order from a stop-loss queue into its hand.
LEMMA TriggerIInv ==
  ASSUME IInv, NEW s \in Sides, Trigger(s)
  PROVE  IInv'
<1>1. /\ TypeOK /\ Places /\ HeldOnce /\ InMatch /\ KindsOK /\ FillsOK /\ TradeWithinLimits
      /\ matcher \in MatcherType
  BY DEF IInv, Places, TypeOK, MatcherType
<1>2. /\ matcher.pc = TriggerStep(s)
      /\ UNCHANGED <<submission, saved, cached, filled, stage, cancelling, queue,
                     depth, market, serving, unloaded, counters>>
  BY DEF Trigger
<1>3. PICK o \in StopTops(stops[s]) :
        /\ StartTrigger(o)
        /\ stops' = [stops EXCEPT ![s] = @ \ {o}]
        /\ matcher' = [matcher EXCEPT !.pc = "push", !.trig = o]
  BY DEF Trigger
<1>4. o \in stops[s] /\ o \in Dormant /\ o \in Orders /\ o <= placed
  BY <1>1, <1>3, HeldPlaced DEF StopTops, Dormant
<1>5. mem[o].kind = "StopLoss"
  BY <1>1, <1>4 DEF KindsOK
<1>6. matcher.pc \in {"trigger ask", "trigger bid"}
  BY <1>2 DEF TriggerStep
<1>7. /\ matcher' \in MatcherType /\ matcher'.pc = "push" /\ matcher'.trig = o
      /\ matcher'.inc = matcher.inc /\ matcher'.res = matcher.res /\ matcher'.held = matcher.held
      /\ matcher'.tr = matcher.tr
  BY <1>1, <1>3, <1>4 DEF MatcherType, Steps
<1>8. /\ stops' \in [Sides -> SUBSET Orders] /\ \A t \in Sides : stops'[t] \subseteq stops[t]
      /\ o \notin stops'[s]
  BY <1>1, <1>3 DEF TypeOK
<1>9. /\ InHand' = InHand /\ BeingTriggered' = {o} /\ BeingTriggered = {}
      /\ Queued' = Queued /\ BeingAdded' = BeingAdded
  BY <1>2, <1>6, <1>7 DEF InHand, BeingTriggered, Queued, BeingAdded
<1>10. Dormant' \subseteq Dormant \ {o}
  <2>1. \A t \in Sides : t # s => o \notin stops[t]
    BY <1>1, <1>4 DEF Places
  <2> QED
    BY <1>8, <2>1 DEF Dormant
<1>11. TypeOK'
  BY <1>1, <1>2, <1>3, <1>4, <1>5, <1>7, <1>8, StartTriggerFacts DEF TypeOK, MatcherType
<1>12. Places'
  <2>2. unloaded' = {}
    BY <1>1, <1>2, <1>6 DEF Places
  <2>3. o \notin Queued \cup matcher.held \cup InHand \cup BeingAdded
    BY <1>1, <1>4 DEF HeldOnce
  <2>4. queue' = queue /\ matcher'.held = matcher.held
    BY <1>2, <1>7
  <2>1. HeldOnce'
    BY <1>1, <1>9, <1>10, <2>2, <2>3, <2>4 DEF HeldOnce
  <2> QED
    BY <1>1, <1>2, <1>8, <2>1, <2>2 DEF Places, Side
<1>13. InMatch'
  BY <1>1, <1>2, <1>4, <1>6, <1>7 DEF InMatch, MatchSteps, Side, User
<1>14. KindsOK'
  <2>1. o \notin Queued \cup matcher.held \cup InHand
    BY <1>1, <1>4 DEF HeldOnce
  <2>2. \A x \in Queued \cup matcher.held \cup InHand \cup Dormant : x \in Orders
    BY <1>1, HeldPlaced
  <2>3. \A x \in Queued' \cup matcher'.held \cup InHand' \cup BeingTriggered' : mem'[x].kind # "StopLoss"
    BY <1>1, <1>3, <1>4, <1>5, <1>7, <1>9, <2>1, <2>2, StartTriggerFacts DEF KindsOK
  <2>4. \A x \in Dormant' : mem'[x].kind = "StopLoss"
    BY <1>1, <1>3, <1>4, <1>5, <1>10, <2>2, StartTriggerFacts DEF KindsOK
  <2>5. stage[o] \notin {"check", "park", "send"}
    BY <1>1, <1>4 DEF HeldOnce, BeingAdded
  <2>6. \A x \in Orders : /\ stage'[x] \in {"check", "park"} => mem'[x].kind = "StopLoss"
                          /\ stage'[x] = "send" => mem'[x].kind # "StopLoss"
    BY <1>1, <1>2, <1>3, <1>4, <1>5, <2>5, StartTriggerFacts DEF KindsOK
  <2>7. \A x \in Orders : \/ saved'[x].kind = ticket'[x].kind
                          \/ saved'[x].kind = "StopLossActive" /\ ticket'[x].kind = "StopLoss"
    BY <1>1, <1>2 DEF KindsOK
  <2> QED
    BY <1>2, <1>3, <1>4, <1>5, <2>3, <2>4, <2>6, <2>7, StartTriggerKeeps DEF KindsOK
<1>15. FillsOK'
  <2>1. \A x \in Orders : saving'[x] # "no" => stage'[x] = "send" \/ x \in BeingTriggered'
    BY <1>1, <1>2, <1>3, <1>4, <1>5, <1>9, StartTriggerFacts DEF FillsOK
  <2> QED
    BY <1>2, <1>3, <1>4, <1>5, <2>1, StartTriggerKeeps DEF FillsOK
<1>16. TradeWithinLimits'
  BY <1>1, <1>2, <1>7 DEF TradeWithinLimits, MatchedAsk, MatchedBid, Side, User
<1> QED
  BY <1>11, <1>12, <1>13, <1>14, <1>15, <1>16 DEF IInv

\* ... and from there to the queue of its side.
LEMMA PushTriggeredIInv ==
  ASSUME IInv, PushTriggered
  PROVE  IInv'
<1> DEFINE o == matcher.trig
<1>1. /\ TypeOK /\ Places /\ HeldOnce /\ InMatch /\ KindsOK /\ FillsOK /\ NoOverfill
      /\ TradeWithinLimits /\ matcher \in MatcherType
  BY DEF IInv, Places, FillsOK, TypeOK, MatcherType
<1>2. /\ matcher.pc = "push" /\ saving[o] = "no"
      /\ queue' = [queue EXCEPT ![Side(o)] = @ \cup {o}]
      /\ depth' = AddOrder(depth, Side(o), Level0, Qty(o))
      /\ matcher' = [matcher EXCEPT !.pc = TriggerStep(Side(o)), !.trig = None]
      /\ UNCHANGED <<submission, objects, stage, saving, cancelling, stops, market,
                     serving, unloaded, counters>>
  BY DEF PushTriggered
<1>3. o \in Orders /\ o <= placed /\ BeingTriggered = {o}
  BY <1>1, <1>2 DEF InMatch, BeingTriggered
<1>4. Side(o) \in Sides /\ Qty(o) \in Nat
  BY <1>1, <1>3, TicketParts
<1> HIDE DEF o
<1>5. /\ matcher' \in MatcherType /\ matcher'.pc \in {"trigger ask", "trigger bid"}
      /\ matcher'.inc = matcher.inc /\ matcher'.res = matcher.res /\ matcher'.held = matcher.held
      /\ matcher'.tr = matcher.tr
  BY <1>1, <1>2, <1>4 DEF MatcherType, Steps, TriggerStep
<1>6. /\ queue' \in [Sides -> SUBSET Orders]
      /\ \A s \in Sides : queue'[s] = IF s = Side(o) THEN queue[s] \cup {o} ELSE queue[s]
  BY <1>1, <1>2, <1>3, <1>4 DEF TypeOK
<1>7. /\ Queued' = Queued \cup {o} /\ BeingTriggered' = {} /\ Dormant' = Dormant
      /\ InHand' = InHand /\ BeingAdded' = BeingAdded
  BY <1>2, <1>4, <1>5, <1>6 DEF Queued, BeingTriggered, Dormant, InHand, BeingAdded
<1>8. TypeOK'
  <2>1. depth' \in [Sides -> [Prices \cup {Level0} -> Nat]]
    BY <1>1, <1>2, <1>4, AddOrderType DEF TypeOK
  <2> QED
    BY <1>1, <1>2, <1>5, <1>6, <2>1 DEF TypeOK, MatcherType
<1>9. Places'
  <2>1. o \notin Queued /\ unloaded' = {}
    BY <1>1, <1>2, <1>3 DEF HeldOnce, Places
  <2>2. queue'["ask"] \cap queue'["bid"] = {}
    BY <1>1, <1>4, <1>6, <2>1 DEF HeldOnce, Queued
  <2>3. HeldOnce'
    BY <1>1, <1>3, <1>5, <1>7, <2>1, <2>2 DEF HeldOnce
  <2>4. \A s \in Sides : \A x \in queue'[s] \cup stops'[s] : x <= placed' /\ Side(x)' = s
    BY <1>1, <1>2, <1>3, <1>6 DEF Places, Side
  <2> QED
    BY <1>1, <1>2, <2>1, <2>3, <2>4, ZenonT(40) DEF Places
<1>10. InMatch'
  <2>1. matcher.inc \in Orders /\ Other(Side(matcher.inc)) \in Sides
    BY <1>1, <1>2, TicketParts DEF InMatch, MatchSteps, Other
  <2> QED
    <3>1. matcher.res \in queue'[Other(Side(matcher.inc))]
      BY <1>1, <1>2, <1>6, <2>1 DEF InMatch, MatchSteps
    <3> QED
      BY <1>1, <1>2, <1>5, <3>1 DEF InMatch, MatchSteps, Side, User
<1>11. KindsOK'
  BY <1>1, <1>2, <1>3, <1>5, <1>7 DEF KindsOK
<1>12. FillsOK'
  BY <1>1, <1>2, <1>3, <1>7 DEF FillsOK, NoOverfill, Qty
<1>13. TradeWithinLimits'
  BY <1>1, <1>2, <1>5 DEF TradeWithinLimits, MatchedAsk, MatchedBid, Side, User
<1> QED
  BY <1>8, <1>9, <1>10, <1>11, <1>12, <1>13 DEF IInv

\* The end of a loop of triggerStopLosses preserves the invariant.
LEMMA EndTriggerIInv ==
  ASSUME IInv, NEW s \in Sides, EndTrigger(s)
  PROVE  IInv'
<1>1. TypeOK /\ TradeWithinLimits /\ matcher \in MatcherType
  BY DEF IInv, TypeOK, MatcherType
<1>2. /\ matcher.pc \in {"trigger ask", "trigger bid"}
      /\ matcher' = [matcher EXCEPT !.pc = IF s = "ask" THEN "trigger bid" ELSE "finish"]
      /\ UNCHANGED <<submission, objects, stage, saving, cancelling, book, market,
                     serving, unloaded, counters>>
  BY DEF EndTrigger, TriggerStep
<1>3. /\ matcher' \in MatcherType /\ matcher'.pc \in {"trigger bid", "finish"}
      /\ matcher'.inc = matcher.inc /\ matcher'.res = matcher.res /\ matcher'.held = matcher.held
      /\ matcher'.tr = matcher.tr
  BY <1>1, <1>2 DEF MatcherType, Steps
<1>4. /\ Places' /\ InMatch'
      /\ UNCHANGED <<Queued, Dormant, matcher.held, InHand, BeingTriggered>>
  BY <1>2, <1>3, SameMatch DEF MatchSteps
<1>5. TypeOK'
  BY <1>1, <1>2, <1>3 DEF TypeOK, MatcherType
<1>6. KindsOK' /\ FillsOK'
  BY <1>2, <1>4, ClosingKeeps
<1>7. TradeWithinLimits'
  BY <1>1, <1>2, <1>3 DEF TradeWithinLimits, MatchedAsk, MatchedBid, Side, User
<1> QED
  BY <1>4, <1>5, <1>6, <1>7 DEF IInv
------------------------------------------------------------------------------
(* The end of an iteration *)

\* The orders popped on the way go back to their queue, and the match is over.
LEMMA EndMatchIInv ==
  ASSUME IInv, matcher.pc = "finish",
         queue' \in [Sides -> SUBSET Orders],
         \A s \in Sides : \A o \in queue'[s] :
           o \in queue[s] \/ (o \in matcher.held /\ s = Other(Side(matcher.inc))),
         \/ matcher' = At("idle") \/ matcher' = At("clear")
         \/ matcher' = [At("seek") EXCEPT !.inc = matcher.inc],
         serving' \in BOOLEAN, serving' = serving \/ matcher'.pc = "idle",
         UNCHANGED <<submission, objects, stage, saving, cancelling, stops, depth, market,
                     unloaded, counters>>
  PROVE  IInv'
<1>1. TypeOK /\ Places /\ HeldOnce /\ InMatch /\ KindsOK /\ FillsOK
  BY DEF IInv, Places
<1>2. /\ matcher.inc \in Orders /\ matcher.inc <= placed /\ Side(matcher.inc) \in Sides
      /\ InHand = {matcher.inc} /\ matcher.held \subseteq Orders
  BY <1>1, TicketParts DEF InMatch, MatchSteps, InHand, TypeOK
<1>3. /\ matcher'.pc \in {"idle", "clear", "seek"} /\ matcher'.held = {} /\ matcher'.tr = None
      /\ matcher'.pc = "seek" => matcher'.inc = matcher.inc
  BY DEF At
<1>4. /\ InHand' \subseteq InHand /\ BeingTriggered' = {} /\ BeingTriggered = {}
      /\ Dormant' = Dormant /\ BeingAdded' = BeingAdded /\ Queued' \subseteq Queued \cup matcher.held
  BY <1>2, <1>3 DEF InHand, BeingTriggered, Dormant, BeingAdded, Queued
<1>5. TypeOK'
  <2>1. /\ At("idle") \in MatcherType /\ At("clear") \in MatcherType
        /\ [At("seek") EXCEPT !.inc = matcher.inc] \in MatcherType
    BY <1>2 DEF At, MatcherType, Steps, Statuses
  <2>2. matcher' \in MatcherType
    BY <2>1
  <2> QED
    BY <1>1, <2>2 DEF TypeOK, MatcherType
<1>6. Places'
  <2>1. \A s \in Sides : \A o \in queue'[s] \cup stops'[s] : o <= placed' /\ Side(o)' = s
    BY <1>1, <1>2 DEF Places, InMatch, MatchSteps, Side
  <2>2. queue'["ask"] \cap queue'["bid"] = {}
    BY <2>1 DEF Side
  <2>3. unloaded' = {}
    BY <1>1 DEF Places
  <2>4. HeldOnce'
    BY <1>1, <1>3, <1>4, <2>2, <2>3 DEF HeldOnce
  <2> QED
    BY <1>1, <2>1, <2>3, <2>4 DEF Places
<1>7. InMatch'
  BY <1>1, <1>2, <1>3 DEF InMatch, MatchSteps, Side
<1>8. KindsOK'
  BY <1>1, <1>3, <1>4 DEF KindsOK
<1>9. FillsOK'
  BY <1>1, <1>4 DEF FillsOK, NoOverfill, Qty
<1>10. TradeWithinLimits'
  BY <1>3 DEF TradeWithinLimits
<1> QED
  BY <1>5, <1>6, <1>7, <1>8, <1>9, <1>10 DEF IInv

\* The end of an iteration of processAsk or processBid preserves the invariant.
LEMMA FinishIInv ==
  ASSUME IInv, Finish
  PROVE  IInv'
<1> DEFINE s == Other(Side(matcher.inc))
<1>1. TypeOK /\ InMatch
  BY DEF IInv
<1>2. /\ serving /\ matcher.pc = "finish"
      /\ matcher' = At("idle") \/ matcher' = [At("seek") EXCEPT !.inc = matcher.inc]
      /\ UNCHANGED <<submission, objects, stage, saving, cancelling, stops, depth,
                     market, serving, unloaded, counters>>
  BY DEF Finish
<1>3. s \in Sides
  BY <1>1, <1>2, TicketParts DEF InMatch, MatchSteps, Other
<1>4. PICK gone : queue' = [queue EXCEPT ![s] = (IF ResDone THEN @ \ {gone} ELSE @) \cup matcher.held]
  BY DEF Finish
<1>5. matcher.held \subseteq Orders /\ serving \in BOOLEAN
  BY <1>1 DEF TypeOK
<1> HIDE DEF s
<1>6. /\ queue' \in [Sides -> SUBSET Orders]
      /\ \A t \in Sides : \A o \in queue'[t] : o \in queue[t] \/ (o \in matcher.held /\ t = s)
  BY <1>1, <1>3, <1>4, <1>5 DEF TypeOK
<1> QED
  BY <1>2, <1>5, <1>6, EndMatchIInv DEF s

\* The end of an iteration of clearExistingOrders preserves the invariant.
LEMMA FinishClearingIInv ==
  ASSUME IInv, FinishClearing
  PROVE  IInv'
<1>1. TypeOK /\ InMatch
  BY DEF IInv
<1>2. /\ ~serving /\ matcher.pc = "finish"
      /\ UNCHANGED <<submission, objects, stage, saving, cancelling, stops, depth,
                     market, unloaded, counters>>
  BY DEF FinishClearing
<1>3. /\ matcher' = CASE IncDone -> At("clear")
                      [] ~IncDone /\ ResDone -> [At("seek") EXCEPT !.inc = matcher.inc]
                      [] OTHER -> At("idle")
      /\ serving' = (~IncDone /\ ~ResDone)
  BY DEF FinishClearing
<1>4. /\ \/ matcher' = At("idle") \/ matcher' = At("clear")
         \/ matcher' = [At("seek") EXCEPT !.inc = matcher.inc]
      /\ serving' \in BOOLEAN /\ (serving' = FALSE \/ matcher'.pc = "idle")
  <2>1. CASE IncDone
    BY <1>3, <2>1
  <2>2. CASE ~IncDone /\ ResDone
    BY <1>3, <2>2
  <2>3. CASE ~IncDone /\ ~ResDone
    BY <1>3, <2>3 DEF At
  <2> QED
    BY <2>1, <2>2, <2>3
<1>5. Other(Side(matcher.inc)) = "ask"
  BY <1>1, <1>2 DEF InMatch, MatchSteps, Other
<1>6. PICK gone : queue' = [queue EXCEPT !["ask"] =
                              IF ResDone THEN (queue["ask"] \cup matcher.held) \ {gone}
                                         ELSE queue["ask"] \cup matcher.held]
  BY DEF FinishClearing
<1>7. matcher.held \subseteq Orders /\ serving = FALSE
  BY <1>1, <1>2 DEF TypeOK
<1>8. /\ queue' \in [Sides -> SUBSET Orders]
      /\ \A t \in Sides : \A o \in queue'[t] : o \in queue[t] \/ (o \in matcher.held /\ t = "ask")
  BY <1>1, <1>6, <1>7 DEF TypeOK
<1> QED
  BY <1>2, <1>4, <1>5, <1>7, <1>8, EndMatchIInv

------------------------------------------------------------------------------
(* Crash and startup *)

\* A crash empties the engine; the rows are as consistent as the objects were.
LEMMA RestartIInv ==
  ASSUME IInv, Restart
  PROVE  IInv'
<1>1. TypeOK /\ Places /\ KindsOK /\ FillsOK /\ NoOverfill
  BY DEF IInv, FillsOK
<1>2. /\ mem' = saved /\ cached' = {o \in Orders : ~saved[o].closed}
      /\ stage' = [o \in Orders |-> IF o <= placed THEN "added" ELSE "new"]
      /\ saving' = [o \in Orders |-> "no"] /\ cancelling' = {}
      /\ queue' = NoQueue /\ stops' = NoQueue /\ depth' = NoDepth
      /\ matcher' = At("load") /\ serving' = FALSE /\ unloaded' = OpenInDatabase
      /\ average' = price /\ UNCHANGED <<submission, saved, filled, price, faults>>
  BY DEF Restart
<1>3. /\ InHand' = {} /\ BeingTriggered' = {} /\ Queued' = {} /\ Dormant' = {} /\ BeingAdded' = {}
      /\ matcher'.pc = "load" /\ matcher'.held = {} /\ matcher'.tr = None
  BY <1>2 DEF At, InHand, BeingTriggered, Queued, Dormant, BeingAdded, NoQueue
<1>4. TypeOK'
  <2>1. matcher' \in MatcherType
    BY <1>2 DEF At, MatcherType, Steps, Statuses
  <2>2. queue' \in [Sides -> SUBSET Orders] /\ stops' \in [Sides -> SUBSET Orders]
    BY <1>2 DEF NoQueue
  <2>3. depth' \in [Sides -> [Prices \cup {Level0} -> Nat]]
    BY <1>2 DEF NoDepth
  <2>4. restarts' \in 0 .. MaxRestarts
    <3>1. restarts \in Nat /\ MaxRestarts \in Nat
      BY <1>1, BoundsAssumption DEF TypeOK
    <3> QED
      BY <3>1 DEF Restart
  <2>5. unloaded' \subseteq Orders
    <3>1. placed \in 0 .. MaxOrders /\ MaxOrders \in Nat
      BY <1>1, BoundsAssumption DEF TypeOK
    <3> QED
      BY <1>2, <3>1 DEF OpenInDatabase
  <2>6. /\ stage' \in [Orders -> {"new", "check", "park", "send", "added"}]
        /\ saving' \in [Orders -> {"no", "open", "closed"}]
    BY <1>2
  <2> QED
    BY <1>1, <1>2, <2>1, <2>2, <2>3, <2>4, <2>5, <2>6 DEF TypeOK, MatcherType
<1>5. Places'
  <2>1. \A o \in unloaded' : o <= placed
    <3>1. placed \in Nat
      BY <1>1 DEF TypeOK
    <3> QED
      BY <1>2, <3>1 DEF OpenInDatabase
  <2>2. \A o \in Orders : stage'[o] = "new" <=> placed < o
    <3>1. placed \in Nat /\ \A o \in Orders : o \in Nat
      BY <1>1, BoundsAssumption DEF TypeOK
    <3> QED
      BY <1>2, <3>1
  <2>3. queue'["ask"] = {} /\ queue'["bid"] = {} /\ stops'["ask"] = {} /\ stops'["bid"] = {}
    BY <1>2 DEF NoQueue
  <2> QED
    BY <1>2, <1>3, <2>1, <2>2, <2>3 DEF Places, HeldOnce
<1>6. InMatch'
  BY <1>3 DEF InMatch, MatchSteps
<1>7. KindsOK'
  BY <1>1, <1>2, <1>3 DEF KindsOK
<1>8. FillsOK'
  BY <1>1, <1>2, <1>3 DEF FillsOK, NoOverfill, Qty
<1>9. TradeWithinLimits'
  BY <1>3 DEF TradeWithinLimits
<1> QED
  BY <1>4, <1>5, <1>6, <1>7, <1>8, <1>9 DEF IInv

\* LoadOldAsk and LoadOldBid put an order of the database in one queue.
LEMMA LoadOldIInv ==
  ASSUME IInv, NEW o \in Orders, LoadOld(o)
  PROVE  IInv'
<1>1. /\ TypeOK /\ Places /\ HeldOnce /\ InMatch /\ KindsOK /\ FillsOK /\ NoOverfill
      /\ TradeWithinLimits
  BY DEF IInv, Places, FillsOK
<1>2. /\ matcher.pc = "load" /\ o \in unloaded /\ unloaded' = unloaded \ {o}
      /\ UNCHANGED <<submission, objects, stage, saving, cancelling, market, matcher, serving, counters>>
  BY DEF LoadOld
<1>3. Side(o) \in Sides /\ o <= placed
  BY <1>1, <1>2, TicketParts DEF Places
<1>4. o \notin Queued \cup Dormant \cup BeingAdded
  BY <1>1, <1>2 DEF HeldOnce
<1>5. /\ queue' \in [Sides -> SUBSET Orders] /\ stops' \in [Sides -> SUBSET Orders]
      /\ depth' \in [Sides -> [Prices \cup {Level0} -> Nat]]
      /\ \/ /\ mem[o].kind = "StopLoss" /\ queue' = queue
            /\ \A s \in Sides : stops'[s] = IF s = Side(o) THEN stops[s] \cup {o} ELSE stops[s]
         \/ /\ mem[o].kind # "StopLoss" /\ stops' = stops
            /\ \A s \in Sides : queue'[s] = IF s = Side(o) THEN queue[s] \cup {o} ELSE queue[s]
  <2>1. CASE mem[o].kind = "StopLoss"
    <3>1. stops' = [stops EXCEPT ![Side(o)] = @ \cup {o}] /\ UNCHANGED <<queue, depth>>
      BY <2>1 DEF LoadOld
    <3> QED
      BY <1>1, <1>3, <2>1, <3>1 DEF TypeOK
  <2>2. CASE mem[o].kind # "StopLoss"
    <3>1. /\ queue' = [queue EXCEPT ![Side(o)] = @ \cup {o}] /\ stops' = stops
          /\ depth' = AddOrder(depth, Side(o), Level(o), Unfilled(o))
      BY <2>2 DEF LoadOld
    <3>2. depth \in [Sides -> [Prices \cup {Level0} -> Nat]]
      BY <1>1 DEF TypeOK
    <3>3. depth' \in [Sides -> [Prices \cup {Level0} -> Nat]]
      BY <1>1, <1>3, <3>1, <3>2, UnfilledType, AddOrderType DEF Level
    <3> QED
      BY <1>1, <1>3, <2>2, <3>1, <3>3 DEF TypeOK
  <2> QED
    BY <2>1, <2>2
<1>6. /\ matcher.held = {} /\ InHand = {} /\ InHand' = {} /\ BeingTriggered = {} /\ BeingTriggered' = {}
      /\ BeingAdded' = BeingAdded
  BY <1>1, <1>2 DEF InMatch, MatchSteps, InHand, BeingTriggered, BeingAdded
<1>7. \/ mem[o].kind = "StopLoss" /\ Queued' = Queued /\ Dormant' = Dormant \cup {o}
      \/ mem[o].kind # "StopLoss" /\ Queued' = Queued \cup {o} /\ Dormant' = Dormant
  BY <1>3, <1>5 DEF Queued, Dormant
<1>8. TypeOK'
  BY <1>1, <1>2, <1>5 DEF TypeOK
<1>9. Places'
  <2>1. \A s \in Sides : \A x \in queue'[s] \cup stops'[s] : x <= placed' /\ Side(x)' = s
    BY <1>1, <1>2, <1>3, <1>5 DEF Places, Side
  <2>2. queue'["ask"] \cap queue'["bid"] = {}
    BY <2>1 DEF Side
  <2>3. HeldOnce'
    BY <1>1, <1>2, <1>4, <1>6, <1>7, <2>2 DEF HeldOnce
  <2> QED
    BY <1>1, <1>2, <2>1, <2>3 DEF Places
<1>10. InMatch'
  BY <1>1, <1>2 DEF InMatch, MatchSteps
<1>11. KindsOK'
  BY <1>1, <1>2, <1>6, <1>7 DEF KindsOK
<1>12. FillsOK'
  BY <1>1, <1>2, <1>6 DEF FillsOK, NoOverfill, Qty
<1>13. TradeWithinLimits'
  BY <1>1, <1>2 DEF TradeWithinLimits, MatchedAsk, MatchedBid, Side, User
<1> QED
  BY <1>8, <1>9, <1>10, <1>11, <1>12, <1>13 DEF IInv

\* The start of clearExistingOrders preserves the invariant.
LEMMA StartClearingIInv ==
  ASSUME IInv, StartClearing
  PROVE  IInv'
<1>1. TypeOK /\ Places /\ HeldOnce /\ InMatch /\ KindsOK /\ FillsOK
  BY DEF IInv, Places
<1>2. /\ matcher.pc = "load" /\ unloaded = {} /\ matcher' = At("clear")
      /\ UNCHANGED <<submission, objects, stage, saving, cancelling, book, market,
                     serving, unloaded, counters>>
  BY DEF StartClearing
<1>3. /\ matcher.held = {} /\ InHand = {} /\ InHand' = {} /\ BeingTriggered = {} /\ BeingTriggered' = {}
      /\ matcher'.held = {} /\ matcher'.tr = None /\ matcher'.pc = "clear"
      /\ Queued' = Queued /\ Dormant' = Dormant /\ BeingAdded' = BeingAdded
  BY <1>1, <1>2 DEF At, InMatch, MatchSteps, InHand, BeingTriggered, Queued, Dormant, BeingAdded
<1>4. TypeOK'
  <2>1. matcher' \in MatcherType
    BY <1>2 DEF At, MatcherType, Steps, Statuses
  <2> QED
    BY <1>1, <1>2, <2>1 DEF TypeOK, MatcherType
<1>5. Places'
  BY <1>1, <1>2, <1>3 DEF Places, HeldOnce, Side
<1>6. InMatch'
  BY <1>3 DEF InMatch, MatchSteps
<1>7. KindsOK'
  BY <1>1, <1>2, <1>3 DEF KindsOK
<1>8. FillsOK'
  BY <1>1, <1>2, <1>3 DEF FillsOK, NoOverfill, Qty
<1>9. TradeWithinLimits'
  BY <1>3 DEF TradeWithinLimits
<1> QED
  BY <1>4, <1>5, <1>6, <1>7, <1>8, <1>9 DEF IInv

------------------------------------------------------------------------------

\* A stuttering step.
LEMMA StutterIInv ==
  ASSUME IInv, UNCHANGED vars
  PROVE  IInv'
<1>1. TypeOK /\ Places /\ InMatch /\ TradeWithinLimits
  BY DEF IInv
<1>2. UNCHANGED <<ticket, at, placed, mem, saved, cached, filled, stage, saving, cancelling, queue,
                  stops, depth, market, matcher, serving, unloaded, faults, restarts>>
  BY DEF vars
<1>3. /\ mem \in [Orders -> [kind : Kinds, closed : BOOLEAN]]
      /\ saved \in [Orders -> [kind : Kinds, closed : BOOLEAN]]
      /\ cached \subseteq Orders /\ cancelling \subseteq Cancels /\ faults \in 0 .. MaxFaults
      /\ depth \in [Sides -> [Prices \cup {Level0} -> Nat]]
  BY <1>1 DEF TypeOK, Cancels
<1> QED
  BY <1>2, <1>3, OnlyClosingIInv

\* Every step of the order book keeps the invariant.
LEMMA NextIInv == IInv /\ [Next]_vars => IInv'
<1> SUFFICES ASSUME IInv, [Next]_vars PROVE IInv'
  OBVIOUS
<1>1. ASSUME NEW o \in Orders, Place(o) \/ Adding(o) \/ Receive(o) PROVE IInv'
  BY <1>1, PlaceIInv, TriggerOnArrivalIInv, StayDormantIInv, ParkIInv, SaveTriggerIInv, ReceiveIInv
  DEF Adding
<1>2. ASSUME \/ \E o \in Orders : CancelOrder(o) \/ CancelOrderFails(o)
             \/ \E c \in cancelling : CancelInBook(c)
      PROVE  IInv'
  BY <1>2, CancelOrderIInv, CancelOrderFailsIInv, CancelInBookIInv
<1>3. CASE Matching
  BY <1>3, SeekAgainIInv, FillFindsClosedIInv, FillDropsBidIInv, FillFailsIInv, FillTradesIInv,
     SettleIInv, TriggerIInv, EndTriggerIInv, PushTriggeredIInv, FinishIInv
  DEF Matching
<1>4. CASE Startup
  BY <1>4, LoadOldIInv, StartClearingIInv, ClearNextIInv, FinishClearingIInv DEF Startup
<1>5. CASE Restart
  BY <1>5, RestartIInv
<1>6. CASE UNCHANGED vars
  BY <1>6, StutterIInv
<1> QED
  BY <1>1, <1>2, <1>3, <1>4, <1>5, <1>6 DEF Next

\* The invariant holds in every reachable state.
THEOREM Invariant == Spec => []IInv
BY InitIInv, NextIInv, PTL DEF Spec

\* Types: in particular, no quantity of the market depth is ever negative, though a
\* cancellation may take out of the depth what was never put there.
THEOREM TypeCorrect == Spec => []TypeOK
<1>1. IInv => TypeOK
  BY DEF IInv
<1> QED
  BY <1>1, Invariant, PTL

\* processAsk, processBid, triggerStopLosses and clearExistingOrders never put an order
\* in two places of the engine.
THEOREM OrdersHeldOnce == Spec => []HeldOnce
<1>1. IInv => HeldOnce
  BY DEF IInv, Places
<1> QED
  BY <1>1, Invariant, PTL

\* PerformOrderFillTransaction never fills an order beyond its quantity, whatever
\* cancellations, errors and restarts happen around it.
THEOREM NeverOverfilled == Spec => []NoOverfill
<1>1. IInv => NoOverfill
  BY DEF IInv, FillsOK
<1> QED
  BY <1>1, Invariant, PTL

\* No trade is with oneself or at a price beyond a limit.
THEOREM TradesWithinLimits == Spec => []TradeWithinLimits
<1>1. IInv => TradeWithinLimits
  BY DEF IInv
<1> QED
  BY <1>1, Invariant, PTL

------------------------------------------------------------------------------
(***************************************************************************)
(* What the rows of the database go through, and what the matching         *)
(* goroutine owes the traders, for every number of orders, users, prices   *)
(* and restarts.                                                           *)
(*                                                                         *)
(* As long as no error happens a closed order is never traded again; and   *)
(* as long as, besides, no stop-loss order is cancelled while it is being  *)
(* added or triggered, OrderBook implements Exchange.  Without these       *)
(* hypotheses neither is true: after a fill that fails (FillFails) a bid   *)
(* may be cancelled through a copy of its row and go on trading, and       *)
(* OrderBookReopened opens a closed row again.                             *)
(*                                                                         *)
(* The matching wakes every stop-loss order that a trade reaches, leaves   *)
(* no two orders that could trade, serves the best price first, loses no   *)
(* order, and a startup repairs the book.  The heads of the queues are     *)
(* what it all rests on: getTopMatchingAsk/Bid and triggerStopLosses look  *)
(* at them only.                                                           *)
(***************************************************************************)

\* No transaction fails.
NoErrors == MaxFaults = 0

\* ... and a stop-loss order is cancelled only when it rests.
Calm == NoErrors /\ (CancelInFlight => \A t \in Tickets : t.kind # "StopLoss")

\* The closed rows, as Exchange sees them.
ClosedRows == {o \in Orders : saved[o].closed}

\* An order whose row is closed, that is out of the map or that an unfinished
\* TriggerStoploss will close is closed in memory.
ClosedInMemory ==
  \A o \in Orders : /\ saved[o].closed => mem[o].closed
                    /\ o \notin cached => mem[o].closed
                    /\ saving[o] = "closed" => mem[o].closed

\* The object and the row agree on IsClosed, also when a TriggerStoploss is about to
\* write the row; an order that is not in the map is closed.
Agreed ==
  \A o \in Orders : /\ mem[o].closed <=> saved[o].closed
                    /\ saving[o] # "no" => (saving[o] = "closed" <=> mem[o].closed)
                    /\ o \notin cached => saved[o].closed

\* The server does not crash.
NoCrash == MaxRestarts = 0

\* No stop-loss orders are placed.
NoStopOrders == \A t \in Tickets : t.kind # "StopLoss"

\* A user is on one side of the book only, so that no own orders are skipped.
OneSided == \A t, v \in Tickets : t.user = v.user => t.side = v.side


------------------------------------------------------------------------------
(* What the actions do to the copies of an order *)

\* There is no error to happen.
LEMMA NoFaults ==
  ASSUME TypeOK, NoErrors
  PROVE  ~Fault
<1>1. faults \in 0 .. 0
  BY DEF TypeOK, NoErrors
<1>2. faults = 0
  BY <1>1
<1> QED
  BY <1>2 DEF Fault, NoErrors

\* The parties of a trade are open, and each has its two copies set alike.
LEMMA TradeFacts ==
  ASSUME IInv, FillTrades, NEW a, NEW b, a = MatchedAsk, b = MatchedBid
  PROVE  /\ a \in Orders /\ b \in Orders /\ a # b
         /\ ~mem[a].closed /\ ~mem[b].closed
         /\ \A x \in Orders : saved'[x] = IF x \in {a, b} THEN mem'[x] ELSE saved[x]
         /\ \A x \in Orders : mem'[x].closed = IF x \in {a, b}
                                               THEN filled[x] + TradeQty(a, b) = Qty(x)
                                               ELSE mem[x].closed
         /\ filled' = [filled EXCEPT ![a] = @ + TradeQty(a, b), ![b] = @ + TradeQty(a, b)]
         /\ UNCHANGED <<ticket, placed, cached, saving>>
<1> DEFINE n == TradeQty(a, b)
           ca == filled[a] + n = Qty(a)
           cb == filled[b] + n = Qty(b)
<1>1. TypeOK /\ matcher.pc = "fill"
  BY DEF IInv, FillTrades
<1>2. /\ a \in Orders /\ b \in Orders /\ a # b
      /\ {a, b} = {matcher.inc, matcher.res}
  BY <1>1, MatchedParties
<1>3. /\ BothOpen
      /\ filled' = [filled EXCEPT ![a] = @ + n, ![b] = @ + n]
      /\ mem' = [mem EXCEPT ![a].closed = ca, ![b].closed = cb]
      /\ saved' = [saved EXCEPT ![a] = mem'[a], ![b] = mem'[b]]
      /\ UNCHANGED <<ticket, placed, cached, saving>>
  BY DEF FillTrades
<1>4. /\ mem \in [Orders -> [kind : Kinds, closed : BOOLEAN]]
      /\ saved \in [Orders -> [kind : Kinds, closed : BOOLEAN]]
      /\ ca \in BOOLEAN /\ cb \in BOOLEAN
  BY <1>1 DEF TypeOK
<1>5. \A x \in Orders : saved'[x] = IF x \in {a, b} THEN mem'[x] ELSE saved[x]
  BY <1>2, <1>3, <1>4
<1> HIDE DEF ca, cb
<1>6. /\ mem'[a].closed = ca /\ mem'[b].closed = cb
      /\ \A x \in Orders \ {a, b} : mem'[x] = mem[x]
  BY <1>2, <1>3, <1>4
<1>7. \A x \in Orders : mem'[x].closed = IF x \in {a, b}
                                            THEN filled[x] + TradeQty(a, b) = Qty(x)
                                            ELSE mem[x].closed
  <2> TAKE x \in Orders
  <2>1. CASE x = a
    BY <1>6, <2>1 DEF ca
  <2>2. CASE x = b
    BY <1>6, <2>2 DEF cb
  <2>3. CASE x \notin {a, b}
    BY <1>6, <2>3
  <2> QED
    BY <2>1, <2>2, <2>3
<1>8. ~mem[a].closed /\ ~mem[b].closed
  BY <1>2, <1>3 DEF BothOpen
<1> QED
  BY <1>2, <1>3, <1>5, <1>7, <1>8

\* A bid that is dropped is closed in memory and in the database, and was open.
LEMMA DropFacts ==
  ASSUME IInv, FillDropsBid, NEW b, b = MatchedBid
  PROVE  /\ b \in Orders /\ b <= placed /\ ~mem[b].closed
         /\ mem'[b].closed /\ saved'[b].closed /\ cached' = cached \ {b}
         /\ \A x \in Orders \ {b} : mem'[x] = mem[x] /\ saved'[x] = saved[x]
         /\ UNCHANGED <<ticket, placed, filled, saving>>
<1>1. TypeOK /\ matcher.pc = "fill" /\ BothOpen
  BY DEF IInv, FillDropsBid
<1>2. b \in Orders /\ b <= placed /\ b \in {matcher.inc, matcher.res}
  BY <1>1, MatchedParties, NotBeingAdded
<1>3. /\ mem' = [mem EXCEPT ![b].closed = TRUE]
      /\ saved' = [saved EXCEPT ![b] = mem'[b]]
      /\ cached' = cached \ {b}
      /\ UNCHANGED <<ticket, placed, filled, saving>>
  BY DEF FillDropsBid
<1>4. /\ mem \in [Orders -> [kind : Kinds, closed : BOOLEAN]]
      /\ saved \in [Orders -> [kind : Kinds, closed : BOOLEAN]]
  BY <1>1 DEF TypeOK
<1>5. mem'[b].closed /\ \A x \in Orders \ {b} : mem'[x] = mem[x]
  BY <1>2, <1>3, <1>4
<1> QED
  BY <1>1, <1>2, <1>3, <1>4, <1>5 DEF BothOpen


\* The steps that touch no copy of an order.
Quiet == UNCHANGED <<ticket, placed, objects, saving>>

\* What can happen when no error does.
LEMMA CalmSteps ==
  ASSUME TypeOK, NoErrors, [Next]_vars
  PROVE  \/ Quiet
         \/ \E o \in Orders : Place(o) \/ TriggerOnArrival(o) \/ SaveTrigger(o) \/ CancelOrder(o)
         \/ FillDropsBid \/ FillTrades
         \/ \E s \in Sides : Trigger(s)
         \/ Restart
<1>1. ASSUME NEW o \in Orders, StayDormant(o) \/ Park(o) \/ Receive(o) PROVE Quiet
  BY <1>1 DEF StayDormant, Park, Receive, Quiet
<1>2. ASSUME NEW o \in Orders, CancelOrderFails(o) PROVE FALSE
  BY <1>2, NoFaults DEF CancelOrderFails
<1>3. ASSUME NEW c \in cancelling, CancelInBook(c) PROVE Quiet
  BY <1>3 DEF CancelInBook, Quiet
<1>4. ASSUME SeekAgain \/ FillFindsClosed \/ Settle \/ PushTriggered \/ Finish PROVE Quiet
  BY <1>4 DEF SeekAgain, FillFindsClosed, Settle, PushTriggered, Finish, Quiet
<1>5. ASSUME NEW s \in Sides, EndTrigger(s) PROVE Quiet
  BY <1>5 DEF EndTrigger, Quiet
<1>6. ASSUME FillFails PROVE FALSE
  BY <1>6, NoFaults DEF FillFails
<1>7. ASSUME Startup PROVE Quiet
  BY <1>7 DEF Startup, LoadOld, StartClearing, ClearNext, FinishClearing, Quiet
<1>8. ASSUME UNCHANGED vars PROVE Quiet
  BY <1>8 DEF vars, Quiet
<1> QED
  BY <1>1, <1>2, <1>3, <1>4, <1>5, <1>6, <1>7, <1>8 DEF Next, Matching, Adding

\* What waking a stop-loss order does to its copies.
LEMMA WakeFacts ==
  ASSUME IInv, \/ \E o \in Orders : TriggerOnArrival(o)
               \/ \E s \in Sides : Trigger(s)
  PROVE  \E o \in Orders : /\ ticket[o].kind = "StopLoss"
                           /\ saving'[o] = IF mem[o].closed THEN "closed" ELSE "open"
                           /\ \A x \in Orders : x # o => saving'[x] = saving[x]
                           /\ \A x \in Orders : mem'[x].closed = mem[x].closed
                           /\ UNCHANGED <<ticket, placed, saved, cached, filled>>
<1>1. TypeOK /\ KindsOK
  BY DEF IInv
<1>2. PICK o \in Orders : /\ StartTrigger(o) /\ mem[o].kind = "StopLoss"
                          /\ UNCHANGED <<ticket, placed, saved, cached, filled>>
  <2>1. ASSUME NEW o \in Orders, TriggerOnArrival(o)
        PROVE  /\ StartTrigger(o) /\ mem[o].kind = "StopLoss"
               /\ UNCHANGED <<ticket, placed, saved, cached, filled>>
    BY <1>1, <2>1 DEF TriggerOnArrival, KindsOK
  <2>2. ASSUME NEW s \in Sides, Trigger(s)
        PROVE  \E o \in Orders : /\ StartTrigger(o) /\ mem[o].kind = "StopLoss"
                                 /\ UNCHANGED <<ticket, placed, saved, cached, filled>>
    <3>1. PICK o \in StopTops(stops[s]) : StartTrigger(o)
      BY <2>2 DEF Trigger
    <3>2. o \in stops[s] /\ o \in Orders /\ o \in Dormant
      BY <1>1 DEF StopTops, TypeOK, Dormant
    <3> QED
      BY <1>1, <2>2, <3>1, <3>2 DEF Trigger, KindsOK
  <2> QED
    BY <2>1, <2>2
<1>3. mem \in [Orders -> [kind : Kinds, closed : BOOLEAN]]
  BY <1>1 DEF TypeOK
<1>4. saving \in [Orders -> {"no", "open", "closed"}]
  BY <1>1 DEF TypeOK
<1>5. saving'[o] = IF mem[o].closed THEN "closed" ELSE "open"
  BY <1>2, <1>4 DEF StartTrigger
<1> QED
  BY <1>2, <1>5, StartTriggerFacts

\* What a cancellation does to the copies of its order.
LEMMA CancelFacts ==
  ASSUME TypeOK, NEW o \in Orders, CancelOrder(o)
  PROVE  /\ saved'[o].closed
         /\ o \in cached => ~mem[o].closed /\ mem'[o].closed /\ cached' = cached \ {o}
         /\ o \notin cached => ~saved[o].closed /\ mem' = mem /\ cached' = cached
         /\ \A x \in Orders \ {o} : mem'[x] = mem[x] /\ saved'[x] = saved[x]
         /\ UNCHANGED <<ticket, placed, filled, saving>>
<1>1. /\ mem \in [Orders -> [kind : Kinds, closed : BOOLEAN]]
      /\ saved \in [Orders -> [kind : Kinds, closed : BOOLEAN]]
  BY DEF TypeOK
<1>2. UNCHANGED <<ticket, placed, filled, saving>>
  BY DEF CancelOrder
<1>3. CASE o \in cached
  <2>1. /\ ~mem[o].closed /\ mem' = [mem EXCEPT ![o].closed = TRUE]
        /\ saved' = [saved EXCEPT ![o] = mem'[o]] /\ cached' = cached \ {o}
    BY <1>3 DEF CancelOrder
  <2>2. mem'[o].closed /\ \A x \in Orders \ {o} : mem'[x] = mem[x]
    BY <1>1, <2>1
  <2> QED
    BY <1>1, <1>2, <1>3, <2>1, <2>2
<1>4. CASE o \notin cached
  <2>1. /\ ~saved[o].closed /\ saved' = [saved EXCEPT ![o].closed = TRUE]
        /\ mem' = mem /\ cached' = cached
    BY <1>4 DEF CancelOrder
  <2> QED
    BY <1>1, <1>2, <1>4, <2>1
<1> QED
  BY <1>3, <1>4

\* What db.Save of TriggerStoploss does, when it succeeds.
LEMMA SaveFacts ==
  ASSUME TypeOK, NoErrors, NEW o \in Orders, SaveTrigger(o)
  PROVE  /\ saving[o] # "no"
         /\ saved'[o].closed <=> saving[o] = "closed"
         /\ \A x \in Orders \ {o} : saved'[x] = saved[x]
         /\ \A x \in Orders : saving'[x] # "no" => x # o /\ saving'[x] = saving[x]
         /\ UNCHANGED <<ticket, placed, mem, cached, filled>>
<1> DEFINE r == [kind |-> "StopLossActive", closed |-> saving[o] = "closed"]
<1>1. saved' = [saved EXCEPT ![o] = r]
  BY NoFaults DEF SaveTrigger
<1>2. r.closed <=> saving[o] = "closed"
  OBVIOUS
<1> HIDE DEF r
<1>3. saved'[o] = r /\ \A x \in Orders \ {o} : saved'[x] = saved[x]
  BY <1>1 DEF TypeOK
<1>4. saving' = [saving EXCEPT ![o] = "no"]
  BY DEF SaveTrigger
<1>5. \A x \in Orders : saving'[x] # "no" => x # o /\ saving'[x] = saving[x]
  BY <1>4 DEF TypeOK
<1> QED
  BY <1>2, <1>3, <1>5 DEF SaveTrigger

\* What a restart does: the rows are all there is.
LEMMA RestartFacts ==
  ASSUME Restart
  PROVE  /\ mem' = saved
         /\ cached' = {o \in Orders : ~saved[o].closed}
         /\ \A o \in Orders : saving'[o] = "no"
         /\ UNCHANGED <<ticket, placed, saved, filled>>
BY DEF Restart

------------------------------------------------------------------------------
(* A closed order is not traded *)

\* No order is closed in the database and open in memory, not even by what an
\* unfinished TriggerStoploss is about to write.
LEMMA ClosedInMemoryInit == Init => ClosedInMemory
BY DEF Init, ClosedInMemory

LEMMA ClosedInMemoryStep ==
  ASSUME IInv, NoErrors, ClosedInMemory, [Next]_vars
  PROVE  ClosedInMemory'
<1>1. TypeOK
  BY DEF IInv
<1>2. CASE Quiet
  BY <1>2 DEF Quiet, ClosedInMemory
<1>3. ASSUME NEW o \in Orders, Place(o) PROVE ClosedInMemory'
  BY <1>3 DEF Place, ClosedInMemory
<1>4. ASSUME \/ \E o \in Orders : TriggerOnArrival(o)
             \/ \E s \in Sides : Trigger(s)
      PROVE  ClosedInMemory'
  BY <1>4, WakeFacts DEF ClosedInMemory
<1>5. ASSUME NEW o \in Orders, SaveTrigger(o) PROVE ClosedInMemory'
  BY <1>1, <1>5, SaveFacts DEF ClosedInMemory
<1>6. ASSUME NEW o \in Orders, CancelOrder(o) PROVE ClosedInMemory'
  BY <1>1, <1>6, CancelFacts DEF ClosedInMemory
<1>7. ASSUME FillDropsBid PROVE ClosedInMemory'
  BY <1>7, DropFacts DEF ClosedInMemory
<1>8. ASSUME FillTrades PROVE ClosedInMemory'
  BY <1>8, TradeFacts DEF ClosedInMemory
<1>9. CASE Restart
  BY <1>9, RestartFacts DEF ClosedInMemory
<1> QED
  BY <1>1, <1>2, <1>3, <1>4, <1>5, <1>6, <1>7, <1>8, <1>9, CalmSteps

\* Only a trade fills an order, and its parties are open in memory.
LEMMA OnlyOpenFilled ==
  ASSUME IInv, NoErrors, ClosedInMemory, [Next]_vars, NEW o \in Orders, saved[o].closed
  PROVE  filled'[o] = filled[o]
<1>1. TypeOK
  BY DEF IInv
<1>2. mem[o].closed
  BY DEF ClosedInMemory
<1>3. CASE FillTrades
  <2>1. /\ ~mem[MatchedAsk].closed /\ ~mem[MatchedBid].closed
        /\ \E n \in {TradeQty(MatchedAsk, MatchedBid)} :
             filled' = [filled EXCEPT ![MatchedAsk] = @ + n, ![MatchedBid] = @ + n]
    BY <1>3, TradeFacts
  <2> QED
    BY <1>1, <1>2, <2>1 DEF TypeOK
<1>4. CASE ~FillTrades
  <2>1. UNCHANGED filled
    BY <1>1, <1>4, CalmSteps, WakeFacts, SaveFacts, CancelFacts, DropFacts, RestartFacts
    DEF Place, Quiet
  <2> QED
    BY <2>1
<1> QED
  BY <1>3, <1>4

\* However placing, cancelling, matching, triggering and restarting interleave, an order
\* that is closed in the database is not traded any more, as long as no error happens.
\* (An error in the fill of a bid that cannot be paid takes the bid out of bidsMap but
\* leaves it in its queue: a cancellation then closes the row alone, and the bid trades:
\* OrderBookSplit.cfg.)
THEOREM ClosedOrdersNotTraded == NoErrors => (Spec => ClosedNeverTrades)
<1> SUFFICES ASSUME NoErrors PROVE Spec => ClosedNeverTrades
  OBVIOUS
<1>1. Init => ClosedInMemory
  BY ClosedInMemoryInit
<1>2. IInv /\ ClosedInMemory /\ [Next]_vars => ClosedInMemory'
  BY ClosedInMemoryStep
<1>3. IInv /\ ClosedInMemory /\ [Next]_vars
      => [\A o \in Orders : saved[o].closed => filled'[o] = filled[o]]_vars
  BY OnlyOpenFilled
<1> QED
  BY <1>1, <1>2, <1>3, Invariant, PTL DEF Spec, ClosedNeverTrades

------------------------------------------------------------------------------
(* The rows go through what Exchange promises *)

LEMMA AgreedInit == Init => Agreed
BY DEF Init, Agreed

\* An order that may be cancelled is in no unfinished TriggerStoploss.
LEMMA NothingBeingSaved ==
  ASSUME IInv, Calm, NEW o \in Orders, MayCancel(o)
  PROVE  saving[o] = "no"
<1>1. TypeOK /\ HeldOnce /\ KindsOK /\ FillsOK
  BY DEF IInv, Places
<1>2. CASE CancelInFlight
  <2>1. ticket[o].kind # "StopLoss" /\ ticket[o].kind # "StopLossActive"
    BY <1>1, <1>2, TicketParts DEF Calm, TypeOK
  <2> QED
    BY <1>1, <2>1 DEF KindsOK
<1>3. CASE Resting(o)
  <2>1. o \in Queued \cup Dormant \cup matcher.held
    BY <1>3 DEF Resting, Queued, Dormant
  <2>2. o \notin BeingAdded /\ o \notin BeingTriggered
    BY <1>1, <2>1 DEF HeldOnce
  <2> QED
    BY <1>1, <2>2 DEF FillsOK, BeingAdded
<1> QED
  BY <1>2, <1>3 DEF MayCancel

\* The parties of a match are in no unfinished TriggerStoploss either.
LEMMA PartiesNotSaved ==
  ASSUME IInv, matcher.pc = "fill", NEW o \in {MatchedAsk, MatchedBid}
  PROVE  saving[o] = "no" /\ o <= placed
BY MatchedParties, NotBeingAdded

LEMMA AgreedStep ==
  ASSUME IInv, Calm, Agreed, [Next]_vars
  PROVE  Agreed'
<1>1. TypeOK /\ NoErrors
  BY DEF IInv, Calm
<1>2. CASE Quiet
  BY <1>2 DEF Quiet, Agreed
<1>3. ASSUME NEW o \in Orders, Place(o) PROVE Agreed'
  BY <1>3 DEF Place, Agreed
<1>4. ASSUME \/ \E o \in Orders : TriggerOnArrival(o)
             \/ \E s \in Sides : Trigger(s)
      PROVE  Agreed'
  BY <1>4, WakeFacts DEF Agreed
<1>5. ASSUME NEW o \in Orders, SaveTrigger(o) PROVE Agreed'
  BY <1>1, <1>5, SaveFacts DEF Agreed
<1>6. ASSUME NEW o \in Orders, CancelOrder(o) PROVE Agreed'
  <2>1. saving[o] = "no"
    BY <1>6, NothingBeingSaved DEF CancelOrder
  <2> QED
    BY <1>1, <1>6, <2>1, CancelFacts DEF Agreed
<1>7. ASSUME FillDropsBid PROVE Agreed'
  <2>1. saving[MatchedBid] = "no"
    BY <1>7, PartiesNotSaved DEF FillDropsBid
  <2>2. /\ MatchedBid \in Orders /\ mem'[MatchedBid].closed /\ saved'[MatchedBid].closed
        /\ cached' = cached \ {MatchedBid}
        /\ \A x \in Orders \ {MatchedBid} : mem'[x] = mem[x] /\ saved'[x] = saved[x]
        /\ UNCHANGED saving
    BY <1>7, DropFacts
  <2> QED
    BY <2>1, <2>2 DEF Agreed
<1>8. ASSUME FillTrades PROVE Agreed'
  <2>1. saving[MatchedAsk] = "no" /\ saving[MatchedBid] = "no"
    BY <1>8, PartiesNotSaved DEF FillTrades
  <2>2. /\ ~mem[MatchedAsk].closed /\ ~mem[MatchedBid].closed
        /\ \A x \in Orders \ {MatchedAsk, MatchedBid} :
             saved'[x] = saved[x] /\ mem'[x].closed = mem[x].closed
        /\ \A x \in Orders \cap {MatchedAsk, MatchedBid} : saved'[x] = mem'[x]
        /\ UNCHANGED <<cached, saving>>
    BY <1>8, TradeFacts
  <2> QED
    BY <2>1, <2>2 DEF Agreed
<1>9. CASE Restart
  BY <1>9, RestartFacts DEF Agreed
<1> QED
  BY <1>1, <1>2, <1>3, <1>4, <1>5, <1>6, <1>7, <1>8, <1>9, CalmSteps

\* Initially there is nothing in the database.
LEMMA ExchangeInit == Init => Promise!Init
BY DEF Init, Promise!Init, Promise!Orders

\* A trade of the engine is one of the exchange.
LEMMA TradeImplements ==
  ASSUME IInv, Agreed, FillTrades, NEW a, NEW b, a = MatchedAsk, b = MatchedBid
  PROVE  Promise!Trade(a, b)
<1> DEFINE n == TradeQty(a, b)
<1>1. TypeOK /\ KindsOK /\ FillsOK /\ matcher.pc = "fill"
  BY DEF IInv, FillTrades
<1>2. /\ a \in Orders /\ b \in Orders /\ a # b /\ a \in Queued \cup InHand /\ b \in Queued \cup InHand
      /\ User(a) # User(b) /\ IsOrderMatching(a, b)
  BY <1>1, MatchedParties
<1>3. /\ a <= placed /\ b <= placed
      /\ mem[a].kind # "StopLoss" /\ mem[b].kind # "StopLoss"
  BY <1>2, NotBeingAdded
<1>4. Side(a) = "ask" /\ Side(b) = "bid"
  <2>1. /\ matcher.inc \in Orders
        /\ Side(matcher.res) = Other(Side(matcher.inc)) /\ Side(matcher.inc) \in Sides
    BY <1>1, PartiesPlaced, TicketParts DEF IInv, MatchSteps
  <2> QED
    BY <2>1 DEF MatchedAsk, MatchedBid, Other
<1>5. /\ ~mem[a].closed /\ ~mem[b].closed
      /\ \A x \in Orders : saved'[x] = IF x \in {a, b} THEN mem'[x] ELSE saved[x]
      /\ \A x \in Orders : mem'[x].closed = IF x \in {a, b}
                                            THEN filled[x] + n = Qty(x)
                                            ELSE mem[x].closed
      /\ filled' = [filled EXCEPT ![a] = @ + n, ![b] = @ + n]
      /\ UNCHANGED <<ticket, placed>>
  BY TradeFacts
<1>6. n = IF Promise!Unfilled(a) < Promise!Unfilled(b) THEN Promise!Unfilled(a) ELSE Promise!Unfilled(b)
  BY DEF TradeQty, Unfilled, Qty, Promise!Unfilled
<1> HIDE DEF n
<1>7. Promise!Open(a) /\ Promise!Open(b)
  <2>1. ~saved[a].closed /\ ~saved[b].closed
    BY <1>2, <1>5 DEF Agreed
  <2> QED
    <3>1. placed \in Nat
      BY <1>1, BoundsAssumption DEF TypeOK
    <3>2. a \in 1 .. placed /\ b \in 1 .. placed
      BY <1>2, <1>3, <3>1, BoundsAssumption
    <3> QED
      BY <2>1, <3>2 DEF Promise!Open
<1>8. Promise!Agree(a, b)
  <2>1. \A o \in {a, b} : IsMarket(o) <=> ticket[o].kind # "Limit"
    BY <1>1, <1>2, <1>3, TicketParts DEF KindsOK, IsMarket, IsMarketKind, Kinds
  <2>2. ticket[a].price \in Nat /\ ticket[b].price \in Nat
    BY <1>1, <1>2, TicketParts
  <2> QED
    BY <1>2, <2>1, <2>2 DEF IsOrderMatching, Promise!Agree
<1>9. \A x \in {a, b} : filled'[x] = filled[x] + n
  BY <1>1, <1>2, <1>5 DEF TypeOK
<1>10. ClosedRows' = ClosedRows \cup {x \in {a, b} : filled'[x] = ticket[x].qty}
  <2>1. \A x \in Orders \ {a, b} : saved'[x].closed = saved[x].closed
    BY <1>5
  <2>2. \A x \in {a, b} : saved'[x].closed = (filled'[x] = ticket[x].qty)
    <3>1. \A x \in {a, b} : x \in Orders /\ saved'[x] = mem'[x]
                            /\ mem'[x].closed = (filled[x] + n = Qty(x))
      BY <1>2, <1>5
    <3> QED
      BY <1>9, <3>1 DEF Qty
  <2>3. a \notin ClosedRows /\ b \notin ClosedRows
    BY <1>2, <1>5 DEF Agreed, ClosedRows
  <2> QED
    BY <1>2, <2>1, <2>2, <2>3 DEF ClosedRows
<1> QED
  BY <1>2, <1>4, <1>5, <1>6, <1>7, <1>8, <1>10 DEF Promise!Trade, ClosedRows, Side, User

\* Closing an order that was open.
LEMMA CloseImplements ==
  ASSUME TypeOK, NEW o \in Orders, o <= placed, ~saved[o].closed, saved'[o].closed,
         \A x \in Orders \ {o} : saved'[x] = saved[x],
         UNCHANGED <<ticket, placed, filled>>
  PROVE  Promise!Close(o)
<1>1. ClosedRows' = ClosedRows \cup {o}
  BY DEF ClosedRows
<1>2. Promise!Open(o)
  BY BoundsAssumption DEF Promise!Open, TypeOK
<1> QED
  BY <1>1, <1>2 DEF Promise!Close, ClosedRows

\* Every step of the order book is one of the exchange, or changes nothing it shows.
LEMMA ExchangeStep ==
  ASSUME IInv, Calm, Agreed, [Next]_vars
  PROVE  [Promise!Next]_(Promise!vars)
<1> DEFINE Same == UNCHANGED <<ticket, placed, filled>> /\ \A o \in Orders : (saved'[o].closed <=> saved[o].closed)
<1>1. TypeOK /\ NoErrors
  BY DEF IInv, Calm
<1>2. ASSUME Same PROVE UNCHANGED Promise!vars
  BY <1>2 DEF Promise!vars
<1>3. CASE Quiet
  BY <1>2, <1>3 DEF Quiet
<1>4. ASSUME NEW o \in Orders, Place(o) PROVE Promise!Next
  <2>1. placed < MaxOrders /\ placed' = placed + 1
    BY <1>1, <1>4, BoundsAssumption DEF Place, TypeOK
  <2>2. UNCHANGED <<ticket, saved, filled>>
    BY <1>4 DEF Place
  <2> QED
    BY <2>1, <2>2 DEF Promise!Next, Promise!Place
<1>5. ASSUME \/ \E o \in Orders : TriggerOnArrival(o)
             \/ \E s \in Sides : Trigger(s)
      PROVE  Same
  BY <1>5, WakeFacts
<1>6. ASSUME NEW o \in Orders, SaveTrigger(o) PROVE Same
  BY <1>1, <1>6, SaveFacts DEF Agreed
<1>7. ASSUME NEW o \in Orders, CancelOrder(o) PROVE Promise!Close(o)
  <2>1. o <= placed
    BY <1>7 DEF CancelOrder, MayCancel
  <2>2. ~saved[o].closed
    BY <1>1, <1>7, CancelFacts DEF Agreed
  <2> QED
    BY <1>1, <1>7, <2>1, <2>2, CancelFacts, CloseImplements
<1>8. ASSUME FillDropsBid PROVE \E o \in Orders : Promise!Close(o)
  BY <1>1, <1>8, DropFacts, CloseImplements DEF Agreed
<1>9. ASSUME FillTrades PROVE Promise!Next
  <2>1. MatchedAsk \in Orders /\ MatchedBid \in Orders
    BY <1>9, MatchedParties DEF FillTrades
  <2>2. PICK a \in Orders, b \in Orders : a = MatchedAsk /\ b = MatchedBid
    BY <2>1
  <2>3. Promise!Trade(a, b)
    BY <1>9, <2>2, TradeImplements
  <2> QED
    BY <2>3 DEF Promise!Next, Promise!Orders
<1>10. CASE Restart
  BY <1>2, <1>10, RestartFacts
<1> QED
  BY <1>1, <1>2, <1>3, <1>4, <1>5, <1>6, <1>7, <1>8, <1>9, <1>10, CalmSteps
  DEF Promise!Next, Promise!Orders

\* The engine with its queues, cancellations, triggers and restarts does to the rows of
\* the database what Exchange promises, as long as no error happens and a stop-loss order
\* is cancelled only when it rests.  (Otherwise TriggerStoploss writes an old IsClosed
\* back, as OrderBookReopened.cfg shows.)
THEOREM OrderBookImplementsExchange == Calm => (Spec => ImplementsExchange)
<1> SUFFICES ASSUME Calm PROVE Spec => ImplementsExchange
  OBVIOUS
<1>1. Init => Agreed /\ Promise!Init
  BY AgreedInit, ExchangeInit
<1>2. IInv /\ Agreed /\ [Next]_vars => Agreed'
  BY AgreedStep
<1>3. IInv /\ Agreed /\ [Next]_vars => [Promise!Next]_(Promise!vars)
  BY ExchangeStep
<1> QED
  BY <1>1, <1>2, <1>3, Invariant, PTL DEF Spec, ImplementsExchange, Promise!Spec

\* A step of the exchange opens no closed order.
LEMMA ExchangeClosedForGood ==
  ASSUME [Promise!Next]_(Promise!vars), NEW o \in Orders, saved[o].closed
  PROVE  saved'[o].closed
<1>1. o \in ClosedRows
  BY DEF ClosedRows
<1>2. ClosedRows \subseteq ClosedRows'
  BY DEF ClosedRows, Promise!Next, Promise!Place, Promise!Close, Promise!Trade, Promise!vars
<1> QED
  BY <1>1, <1>2 DEF ClosedRows

\* Under the same conditions no closed row is ever written back as an open one, neither by
\* the two saves of a trade, of a cancellation and of a trigger, nor by a restart.
THEOREM ClosedOrdersStayClosed == Calm => (Spec => ClosedForGood)
<1> SUFFICES ASSUME Calm PROVE Spec => ClosedForGood
  OBVIOUS
<1>1. [Promise!Next]_(Promise!vars)
      => [\A o \in Orders : saved[o].closed => saved'[o].closed]_vars
  BY ExchangeClosedForGood
<1> QED
  BY <1>1, OrderBookImplementsExchange, PTL DEF ImplementsExchange, Promise!Spec, ClosedForGood

------------------------------------------------------------------------------
(* The heads of the queues *)

LEMMA OrdersFinite == IsFiniteSet(Orders)
BY FS_Interval, BoundsAssumption

\* askComparator and bidComparator are strict orders.
LEMMA BetterOrder ==
  ASSUME TypeOK, NEW x \in Orders, NEW y \in Orders, NEW z \in Orders,
         Side(x) = Side(y), Side(y) = Side(z)
  PROVE  /\ ~Better(x, x)
         /\ Better(x, y) /\ Better(y, z) => Better(x, z)
<1>1. \A o \in {x, y, z} : /\ at[o] \in Nat /\ ticket[o].price \in Nat /\ Qty(o) \in Nat
  BY TicketParts DEF TypeOK
<1>2. ~Better(x, x)
  BY <1>1 DEF Better, Cheaper
<1>3. ASSUME Better(x, y), Better(y, z) PROVE Better(x, z)
  BY <1>1, <1>3 DEF Better, Cheaper
<1> QED
  BY <1>2, <1>3

\* A set of orders of one side has a best one.
LEMMA BestOrder ==
  ASSUME TypeOK, NEW s, NEW Q, Q \subseteq Orders, Q # {}, \A x \in Q : Side(x) = s
  PROVE  \E x \in Q : \A y \in Q : ~Better(y, x)
<1> DEFINE R == {p \in Q \X Q : Better(p[1], p[2])}
<1>1. IsFiniteSet(Q)
  BY OrdersFinite, FS_Subset
<1>2. \A x, y \in Q : <<x, y>> \in R <=> Better(x, y)
  OBVIOUS
<1> HIDE DEF R
<1>3. \A x, y, z \in Q : ~Better(x, x) /\ (Better(x, y) /\ Better(y, z) => Better(x, z))
  BY BetterOrder
<1>4. StrictOrder(R, Q)
  BY <1>2, <1>3 DEF StrictOrder
<1>5. \E x \in Q : \A y \in Q : <<y, x>> \notin R
  BY <1>1, <1>4, BestElement
<1> QED
  BY <1>2, <1>5

\* An order matches whatever comes before an order that it matches.
LEMMA BetterMatches ==
  ASSUME TypeOK, NEW i \in Orders, NEW x \in Orders, NEW y \in Orders,
         Side(x) = Other(Side(i)), Side(y) = Other(Side(i)), Matches(i, x), Better(y, x)
  PROVE  Matches(i, y)
<1>1. \A o \in {i, x, y} : ticket[o].price \in Nat /\ Side(o) \in Sides
  BY TicketParts
<1> QED
  BY <1>1 DEF Matches, IsOrderMatching, Better, Cheaper, Other

\* Skipping the own orders, the goroutine finds a match if there is one.
LEMMA BestOfFindsMatch ==
  ASSUME TypeOK, NEW i \in Orders, NEW q \in [Sides -> SUBSET Orders],
         \A s \in Sides : \A x \in q[s] : Side(x) = s,
         NEW m \in q[Other(Side(i))], User(m) # User(i), Matches(i, m)
  PROVE  \E r \in BestOf(i, q) : Matches(i, r)
<1> DEFINE s == Other(Side(i))
           Q == {y \in q[s] : User(y) # User(i) /\ Matches(i, y)}
<1>1. s \in Sides
  BY TicketParts DEF Other
<1>2. Q \subseteq Orders /\ Q # {} /\ \A x \in Q : Side(x) = s
  BY <1>1
<1>3. PICK r \in Q : \A y \in Q : ~Better(y, r)
  <2> HIDE DEF Q
  <2> QED
    BY <1>2, BestOrder
<1>4. \A y \in q[s] : User(y) # User(i) => ~Better(y, r)
  <2> SUFFICES ASSUME NEW y \in q[s], User(y) # User(i), Better(y, r) PROVE FALSE
    OBVIOUS
  <2>1. Matches(i, y)
    BY <1>1, <1>2, <1>3, BetterMatches
  <2> QED
    BY <1>3, <2>1
<1> QED
  BY <1>3, <1>4 DEF BestOf

------------------------------------------------------------------------------
(* Stop-loss orders: the head of the heap is reached first *)

\* If a price reaches a stop-loss order of a queue, it reaches one at its head.
LEMMA HeadReached ==
  ASSUME TypeOK, NEW s \in Sides, NEW q, q \subseteq Orders, \A x \in q : Side(x) = s,
         NEW p \in Nat, NEW o \in q, Reached(o, p)
  PROVE  \E x \in StopTops(q) : Reached(x, p)
<1> DEFINE Q == {x \in q : Reached(x, p)}
           Ahead(y, x) == \/ Cheaper(x, y)
                          \/ ticket[x].price = ticket[y].price /\ Qty(y) > Qty(x)
           R == {v \in q \X q : Ahead(v[1], v[2])}
<1>1. IsFiniteSet(q)
  BY OrdersFinite, FS_Subset
<1>2. \A x \in q : ticket[x].price \in Nat /\ Qty(x) \in Nat /\ Side(x) = s
  BY TicketParts
<1>3. StrictOrder(R, Q)
  <2>1. \A x \in q : ~Ahead(x, x)
    <3> TAKE x \in q
    <3>1. ticket[x].price \in Nat /\ Qty(x) \in Nat
      BY <1>2
    <3> QED
      BY <3>1 DEF Cheaper
  <2>2. \A x, y, z \in q : Ahead(x, y) /\ Ahead(y, z) => Ahead(x, z)
    BY <1>2 DEF Cheaper
  <2>3. \A x, y \in q : <<y, x>> \in R <=> Ahead(y, x)
    OBVIOUS
  <2> HIDE DEF R, Ahead
  <2> QED
    BY <2>1, <2>2, <2>3 DEF StrictOrder
<1>4. \A x, y \in q : Ahead(y, x) /\ Reached(x, p) => Reached(y, p)
  <2> TAKE x, y \in q
  <2>1. ticket[x].price \in Nat /\ ticket[y].price \in Nat /\ Side(x) = s /\ Side(y) = s
    BY <1>2
  <2>2. s = "ask" \/ s = "bid"
    OBVIOUS
  <2> QED
    BY <2>1, <2>2 DEF Cheaper, Reached
<1>5. \A x \in q : (\A y \in q : ~Ahead(y, x)) => x \in StopTops(q)
  BY DEF StopTops
<1>6. Q \subseteq q /\ Q # {} /\ IsFiniteSet(Q)
  BY <1>1, FS_Subset
<1>7. PICK x \in Q : \A y \in Q : <<y, x>> \notin R
  <2> HIDE DEF R, Q
  <2> QED
    BY <1>3, <1>6, BestElement
<1>8. \A y \in q : ~Ahead(y, x)
  <2>1. \A y \in Q : ~Ahead(y, x)
    BY <1>7
  <2> QED
    BY <1>4, <2>1
<1> QED
  BY <1>5, <1>7, <1>8

\* A step that ends the search on a side finds nothing left to wake on it.
LEMMA AllTriggered ==
  ASSUME IInv, [Next]_vars, NEW s \in Sides, matcher.pc = TriggerStep(s),
         matcher'.pc \notin {TriggerStep(s), "push", "load"}
  PROVE  \A o \in stops[s] : ~Reached(o, matcher.tr)
<1>1. TypeOK /\ Places /\ matcher \in MatcherType
  BY DEF IInv, TypeOK, MatcherType
<1>2. matcher.pc \in {"trigger ask", "trigger bid"}
  BY DEF TriggerStep
<1>3. UNCHANGED matcher \/ Trigger("ask") \/ Trigger("bid") \/ EndTrigger("ask")
                        \/ EndTrigger("bid") \/ matcher'.pc = "load"
  <2>1. ASSUME NEW o \in Orders, \/ Place(o) \/ Adding(o)
                                 \/ CancelOrder(o) \/ CancelOrderFails(o) \/ LoadOld(o)
        PROVE  UNCHANGED matcher
    BY <2>1 DEF Place, Adding, TriggerOnArrival, StayDormant, Park, SaveTrigger,
                CancelOrder, CancelOrderFails, LoadOld
  <2>2. ASSUME NEW c \in cancelling, CancelInBook(c) PROVE UNCHANGED matcher
    BY <2>2 DEF CancelInBook
  <2>3. \A o \in Orders : ~Receive(o)
    BY <1>2 DEF Receive
  <2>4. ~ \/ SeekAgain \/ FillFindsClosed \/ FillDropsBid \/ FillFails \/ FillTrades \/ Settle
          \/ PushTriggered \/ Finish \/ StartClearing \/ ClearNext \/ FinishClearing
    BY <1>2 DEF SeekAgain, FillFindsClosed, FillDropsBid, FillFails, FillTrades, Settle,
                PushTriggered, Finish, StartClearing, ClearNext, FinishClearing
  <2>5. Restart => matcher'.pc = "load"
    BY DEF Restart, At
  <2>6. UNCHANGED vars => UNCHANGED matcher
    BY DEF vars
  <2> QED
    BY <2>1, <2>2, <2>3, <2>4, <2>5, <2>6 DEF Next, Matching, Startup
<1>4. EndTrigger(s)
  <2>1. matcher' # matcher
    OBVIOUS
  <2>2. ~Trigger("ask") /\ ~Trigger("bid")
    <3>1. ASSUME NEW v \in Sides, Trigger(v) PROVE matcher'.pc = "push"
      <4>1. \E o : matcher' = [matcher EXCEPT !.pc = "push", !.trig = o]
        BY <3>1 DEF Trigger
      <4> QED
        BY <1>1, <4>1 DEF MatcherType
    <3> QED
      BY <3>1
  <2>3. PICK v \in Sides : EndTrigger(v)
    BY <1>3, <2>1, <2>2
  <2>4. matcher.pc = TriggerStep(v)
    BY <2>3 DEF EndTrigger
  <2>5. v = s
    <3>1. TriggerStep(v) = TriggerStep(s)
      BY <2>4
    <3>2. (v = "ask" \/ v = "bid") /\ (s = "ask" \/ s = "bid")
      BY <2>3
    <3>3. CASE v = "ask" /\ s = "bid"
      BY <3>1, <3>3 DEF TriggerStep
    <3>4. CASE v = "bid" /\ s = "ask"
      BY <3>1, <3>4 DEF TriggerStep
    <3> QED
      BY <3>2, <3>3, <3>4
  <2> QED
    BY <2>3, <2>5
<1>5. \A o \in StopTops(stops[s]) : ~Reached(o, matcher.tr)
  BY <1>4 DEF EndTrigger
<1>6. stops[s] \subseteq Orders /\ \A x \in stops[s] : Side(x) = s
  BY <1>1 DEF TypeOK, Places
<1>7. matcher.tr \in Nat
  <2>1. matcher.tr \in Prices \cup {None}
    BY <1>1 DEF MatcherType
  <2>2. \A p \in Prices : p \in Nat
    BY PricesAssumption
  <2> QED
    BY <2>1, <2>2
<1> QED
  BY <1>5, <1>6, <1>7, <1>1, HeadReached

\* triggerStopLosses ends on a side only when no stop-loss order of it is left that the
\* price of the trade reaches, with any errors and restarts around it.
THEOREM AllStopLossesTriggered == Spec => TriggersAll
<1>1. IInv /\ [Next]_vars
      => [\A s \in Sides :
            matcher.pc = TriggerStep(s) /\ matcher'.pc \notin {TriggerStep(s), "push", "load"}
            => \A o \in stops[s] : ~Reached(o, matcher.tr)]_vars
  BY AllTriggered
<1> QED
  BY <1>1, Invariant, PTL DEF Spec, TriggersAll

------------------------------------------------------------------------------
(* No two orders are left that could trade *)

\* The orders that are open to a match: those of the queues and those popped on the way.
Pool == Queued \cup matcher.held

\* Two limit or market orders are at prices at which they trade.
WouldTrade(a, b) ==
  ticket[a].kind = "Market" \/ ticket[b].kind = "Market" \/ ticket[b].price >= ticket[a].price

Uncrossed ==
  \A a, b \in Pool :
    /\ Side(a) = "ask" /\ Side(b) = "bid"
    /\ Open(a) /\ Open(b) /\ User(a) # User(b)
    /\ ticket[a].kind # "StopLoss" /\ ticket[b].kind # "StopLoss"
    => ~WouldTrade(a, b)

\* What triggerStopLosses is waking is a stop-loss order.
WakesStopLoss == matcher.pc = "push" => ticket[matcher.trig].kind = "StopLoss"

\* Orders that are not stop-loss orders match as their tickets say.
LEMMA TicketsDecide ==
  ASSUME TypeOK, KindsOK, NEW a \in Orders, NEW b \in Orders,
         ticket[a].kind # "StopLoss", ticket[b].kind # "StopLoss"
  PROVE  IsOrderMatching(a, b) <=> WouldTrade(a, b)
<1>1. \A o \in {a, b} : ticket[o].kind \in {"Limit", "Market"} /\ mem[o].kind = ticket[o].kind
  BY TicketParts DEF KindsOK, Kinds
<1> QED
  BY <1>1 DEF IsOrderMatching, WouldTrade, IsMarket, IsMarketKind

LEMMA PoolPlaced ==
  ASSUME IInv, NEW o \in Pool
  PROVE  o \in Orders /\ o <= placed
BY HeldPlaced DEF IInv, Pool

\* No step but a restart changes a ticket or opens a closed order.
LEMMA ClosedStays ==
  ASSUME IInv, [Next]_vars, ~Restart
  PROVE  /\ UNCHANGED <<ticket, at>>
         /\ \A o \in Orders : mem[o].closed => mem'[o].closed
<1>1. TypeOK
  BY DEF IInv
<1> DEFINE Closes == \A o \in Orders : mem[o].closed => mem'[o].closed
<1>2. UNCHANGED <<ticket, at>>
  <2>1. ASSUME NEW o \in Orders, Place(o) \/ Adding(o) \/ Receive(o) \/ CancelOrder(o)
                                 \/ CancelOrderFails(o) \/ LoadOld(o)
        PROVE  UNCHANGED <<ticket, at>>
    BY <2>1 DEF Place, Adding, TriggerOnArrival, StayDormant, Park, SaveTrigger, Receive,
       CancelOrder, CancelOrderFails, LoadOld
  <2>2. ASSUME NEW c \in cancelling, CancelInBook(c) PROVE UNCHANGED <<ticket, at>>
    BY <2>2 DEF CancelInBook
  <2>3. ASSUME NEW s \in Sides, Trigger(s) \/ EndTrigger(s) PROVE UNCHANGED <<ticket, at>>
    BY <2>3 DEF Trigger, EndTrigger
  <2> QED
    BY <2>1, <2>2, <2>3 DEF Next, Matching, Startup, SeekAgain, FillFindsClosed, FillDropsBid,
       FillFails, FillTrades, Settle, PushTriggered, Finish, StartClearing, ClearNext,
       FinishClearing, vars
<1>3. Closes
  <2>1. ASSUME NEW o \in Orders, Place(o) \/ StayDormant(o) \/ Park(o) \/ SaveTrigger(o)
                                 \/ Receive(o) \/ LoadOld(o)
        PROVE  UNCHANGED mem
    BY <2>1 DEF Place, StayDormant, Park, SaveTrigger, Receive, LoadOld
  <2>2. ASSUME NEW o \in Orders, TriggerOnArrival(o) PROVE Closes
    BY <2>2, WakeFacts
  <2>3. ASSUME NEW o \in Orders, CancelOrder(o) PROVE Closes
    BY <1>1, <2>3, CancelFacts
  <2>4. ASSUME NEW o \in Orders, CancelOrderFails(o) PROVE Closes
    BY <1>1, <2>4, CloseInMemory DEF CancelOrderFails
  <2>5. ASSUME NEW c \in cancelling, CancelInBook(c) PROVE UNCHANGED mem
    BY <2>5 DEF CancelInBook
  <2>6. ASSUME NEW s \in Sides, Trigger(s) \/ EndTrigger(s) PROVE Closes
    BY <2>6, WakeFacts DEF EndTrigger
  <2>7. FillDropsBid => Closes
    BY DropFacts
  <2>8. FillTrades => Closes
    BY TradeFacts
  <2>9. ASSUME \/ SeekAgain \/ FillFindsClosed \/ FillFails \/ Settle \/ PushTriggered \/ Finish
               \/ StartClearing \/ ClearNext \/ FinishClearing \/ UNCHANGED vars
        PROVE  UNCHANGED mem
    BY <2>9 DEF SeekAgain, FillFindsClosed, FillFails, Settle, PushTriggered, Finish,
       StartClearing, ClearNext, FinishClearing, vars
  <2>10. UNCHANGED mem => Closes
    OBVIOUS
  <2> HIDE DEF Closes
  <2> QED
    BY <2>1, <2>2, <2>3, <2>4, <2>5, <2>6, <2>7, <2>8, <2>9, <2>10
    DEF Next, Adding, Matching, Startup
<1> QED
  BY <1>2, <1>3

\* What a step keeps that neither opens an order nor adds one to the pool.
LEMMA UncrossedFrame ==
  ASSUME IInv, Uncrossed, UNCHANGED ticket, Pool' \subseteq Pool,
         \A o \in Orders : mem[o].closed => mem'[o].closed
  PROVE  Uncrossed'
<1>1. \A o \in Pool' : o \in Pool /\ o \in Orders /\ o <= placed
  BY PoolPlaced
<1>2. \A o \in Pool' : Open(o)' => Open(o)
  BY <1>1 DEF Open
<1> QED
  BY <1>1, <1>2 DEF Uncrossed, Side, User, WouldTrade

\* The match found for an order holds orders of the queue that it was looked for in.
LEMMA StartMatchPool ==
  ASSUME IInv, NEW i, NEW q, Seeking(i, q), StartMatch(i, q)
  PROVE  Pool' \subseteq q["ask"] \cup q["bid"] /\ UNCHANGED serving /\ matcher'.pc = "fill"
<1>1. TypeOK
  BY DEF IInv
<1>2. PICK r \in q[Other(Side(i))] : \E h \in SUBSET q[Other(Side(i))] :
        /\ matcher' = [At("fill") EXCEPT !.inc = i, !.res = r, !.held = h]
        /\ queue' = [q EXCEPT ![Other(Side(i))] = @ \ h]
        /\ UNCHANGED <<depth, serving>>
  BY <1>1, StartMatchFacts
<1>3. PICK h \in SUBSET q[Other(Side(i))] :
        /\ matcher' = [At("fill") EXCEPT !.inc = i, !.res = r, !.held = h]
        /\ queue' = [q EXCEPT ![Other(Side(i))] = @ \ h]
  BY <1>2
<1>4. i \in Orders /\ Side(i) \in Sides /\ Other(Side(i)) \in Sides
  BY <1>1, TicketParts DEF Seeking, Other
<1>5. q \in [Sides -> SUBSET Orders]
  BY DEF Seeking
<1>6. matcher'.held = h /\ matcher'.pc = "fill"
  BY <1>3 DEF At
<1>7. \A s \in Sides : queue'[s] \subseteq q[s]
  BY <1>3, <1>4, <1>5
<1>8. h \subseteq q["ask"] \cup q["bid"]
  BY <1>3, <1>4, <1>5
<1> QED
  BY <1>2, <1>6, <1>7, <1>8 DEF Pool, Queued

\* An order that found no match joins the others.
LEMMA PutInQueuePool ==
  ASSUME IInv, NEW i, NEW q, Seeking(i, q), PutInQueue(i, q)
  PROVE  /\ Pool' = q["ask"] \cup q["bid"] \cup {i}
         /\ serving' = TRUE /\ matcher'.pc = "idle"
<1>1. i \in Orders /\ Side(i) \in Sides /\ q \in [Sides -> SUBSET Orders]
  BY TicketParts DEF IInv, Seeking
<1>2. /\ queue' = [q EXCEPT ![Side(i)] = @ \cup {i}]
      /\ matcher' = At("idle") /\ serving' = TRUE
  BY DEF PutInQueue
<1>3. matcher'.held = {} /\ matcher'.pc = "idle"
  BY <1>2 DEF At
<1>4. Queued' = q["ask"] \cup q["bid"] \cup {i}
  BY <1>1, <1>2 DEF Queued
<1> QED
  BY <1>2, <1>3, <1>4 DEF Pool

\* It would trade with none of them.
LEMMA NoneMatches ==
  ASSUME IInv, NEW i, NEW q, Seeking(i, q), PutInQueue(i, q),
         NEW x \in q[Other(Side(i))], User(x) # User(i),
         ticket[x].kind # "StopLoss", ticket[i].kind # "StopLoss"
  PROVE  /\ Side(i) = "ask" => ~WouldTrade(i, x)
         /\ Side(i) = "bid" => ~WouldTrade(x, i)
<1>1. TypeOK /\ KindsOK /\ Places
  BY DEF IInv
<1>2. i \in Orders /\ q \in [Sides -> SUBSET Orders] /\ \A s \in Sides : q[s] \subseteq queue[s]
  BY DEF Seeking
<1>3. Side(i) \in Sides /\ Other(Side(i)) \in Sides
  BY <1>1, <1>2, TicketParts DEF Other
<1>4. \A s \in Sides : \A y \in q[s] : Side(y) = s
  BY <1>1, <1>2 DEF Places
<1>5. x \in Orders /\ Side(x) = Other(Side(i))
  BY <1>2, <1>3, <1>4
<1>6. ~Matches(i, x)
  <2>1. \A r \in BestOf(i, q) : ~Matches(i, r)
    BY DEF PutInQueue
  <2> QED
    BY <1>1, <1>2, <1>4, <2>1, BestOfFindsMatch
<1>7. Side(i) = "ask" => ~IsOrderMatching(i, x)
  BY <1>6 DEF Matches
<1>8. Side(i) = "bid" => ~IsOrderMatching(x, i)
  BY <1>6 DEF Matches
<1> QED
  BY <1>1, <1>2, <1>5, <1>7, <1>8, TicketsDecide

\* fillOrderFn returns with the orders where they were.
LEMMA FillKeepsPool ==
  ASSUME TypeOK, UNCHANGED queue,
         NEW i, NEW r, NEW t, NEW n, FillReturns(i, r, t, n)
  PROVE  /\ Pool' = Pool /\ matcher'.pc = "settle"
         /\ matcher'.inc = matcher.inc /\ matcher'.res = matcher.res /\ matcher'.held = matcher.held
         /\ matcher'.incSt = i /\ matcher'.resSt = r
<1>1. matcher \in MatcherType
  BY DEF TypeOK, MatcherType
<1>2. /\ matcher'.pc = "settle"
      /\ matcher'.inc = matcher.inc /\ matcher'.res = matcher.res /\ matcher'.held = matcher.held
      /\ matcher'.incSt = i /\ matcher'.resSt = r
  BY <1>1 DEF FillReturns, MatcherType
<1> QED
  BY <1>2 DEF Pool, Queued

\* ... and so it is while the trade is settled and the stop-loss orders are looked at.
LEMMA SettleKeeps ==
  ASSUME TypeOK, Settle \/ (\E s \in Sides : Trigger(s) \/ EndTrigger(s))
  PROVE  /\ Pool' = Pool /\ UNCHANGED <<queue, serving>>
         /\ matcher'.pc \in MatchSteps \ {"fill", "settle"}
         /\ matcher'.inc = matcher.inc /\ matcher'.res = matcher.res /\ matcher'.held = matcher.held
         /\ matcher'.incSt = matcher.incSt /\ matcher'.resSt = matcher.resSt
<1>1. matcher \in MatcherType
  BY DEF TypeOK, MatcherType
<1>2. /\ UNCHANGED <<queue, serving>>
      /\ \E p \in {"finish", "trigger ask", "trigger bid"} :
           \/ matcher' = [matcher EXCEPT !.pc = p]
           \/ \E o : matcher' = [matcher EXCEPT !.pc = "push", !.trig = o]
  BY DEF Settle, Trigger, EndTrigger
<1>3. /\ matcher'.pc \in MatchSteps \ {"fill", "settle"}
      /\ matcher'.inc = matcher.inc /\ matcher'.res = matcher.res /\ matcher'.held = matcher.held
      /\ matcher'.incSt = matcher.incSt /\ matcher'.resSt = matcher.resSt
  <2>1. CASE \E p \in {"finish", "trigger ask", "trigger bid"} : matcher' = [matcher EXCEPT !.pc = p]
    BY <1>1, <2>1 DEF MatcherType, MatchSteps
  <2>2. CASE \E o : matcher' = [matcher EXCEPT !.pc = "push", !.trig = o]
    BY <1>1, <2>2 DEF MatcherType, MatchSteps
  <2> QED
    BY <1>2, <2>1, <2>2
<1> QED
  BY <1>2, <1>3 DEF Pool, Queued

\* The orders popped on the way go back to their queue, and the head may go.
LEMMA FinishPool ==
  ASSUME IInv, Finish \/ FinishClearing
  PROVE  Pool' \subseteq Pool /\ matcher'.pc \in {"idle", "seek", "clear"}
<1>1. TypeOK /\ InMatch
  BY DEF IInv
<1>2. matcher.inc \in Orders /\ matcher.pc = "finish"
  BY <1>1 DEF InMatch, MatchSteps, Finish, FinishClearing
<1>3. Other(Side(matcher.inc)) \in Sides
  BY <1>1, <1>2, TicketParts DEF Other
<1>4. queue \in [Sides -> SUBSET Orders]
  BY <1>1 DEF TypeOK
<1>5. matcher'.pc \in {"idle", "seek", "clear"} /\ matcher'.held = {}
  BY DEF Finish, FinishClearing, At
<1>6. \A s \in Sides : queue'[s] \subseteq queue[s] \cup matcher.held
  <2>1. CASE Finish
    BY <1>3, <1>4, <2>1 DEF Finish
  <2>2. CASE FinishClearing
    BY <1>3, <1>4, <2>2 DEF FinishClearing
  <2> QED
    BY <2>1, <2>2
<1> QED
  BY <1>5, <1>6 DEF Pool, Queued

\* What a step may do to the pool.
LEMMA PoolSteps ==
  ASSUME IInv, [Next]_vars
  PROVE  \/ Restart \/ PushTriggered
         \/ \E o \in Orders : LoadOld(o)
         \/ \E i \in Orders : \E q \in [Sides -> SUBSET Orders] :
              Seeking(i, q) /\ (StartMatch(i, q) \/ PutInQueue(i, q))
         \/ Pool' \subseteq Pool
<1>1. TypeOK
  BY DEF IInv
<1> DEFINE Same == UNCHANGED <<queue, matcher>>
           Seeks == \E i \in Orders : \E q \in [Sides -> SUBSET Orders] :
                      Seeking(i, q) /\ (StartMatch(i, q) \/ PutInQueue(i, q))
<1>2. Same => Pool' \subseteq Pool
  BY DEF Pool, Queued
<1>3. ASSUME NEW o \in Orders, Place(o) \/ Adding(o) \/ CancelOrder(o) \/ CancelOrderFails(o)
      PROVE  Same
  BY <1>3 DEF Place, Adding, TriggerOnArrival, StayDormant, Park, SaveTrigger,
              CancelOrder, CancelOrderFails
<1>4. ASSUME NEW c \in cancelling, CancelInBook(c) PROVE Same
  BY <1>4 DEF CancelInBook
<1>5. ASSUME NEW i, NEW q, Seeking(i, q), StartMatch(i, q) \/ PutInQueue(i, q) PROVE Seeks
  <2>1. i \in Orders /\ q \in [Sides -> SUBSET Orders]
    BY <1>5 DEF Seeking
  <2> QED
    BY <1>5, <2>1
<1>6. ASSUME NEW o \in Orders, Receive(o) PROVE Seeks
  <2> HIDE DEF Seeks
  <2> QED
    BY <1>5, <1>6, ReceiveSeeks
<1>7. ASSUME SeekAgain PROVE Seeks
  <2> HIDE DEF Seeks
  <2> QED
    BY <1>5, <1>7, SeekAgainSeeks
<1>8. ASSUME ClearNext PROVE Seeks \/ Pool' \subseteq Pool
  <2>1. CASE queue["bid"] = {}
    BY <1>8, <2>1 DEF ClearNext, Pool, Queued, At
  <2>2. CASE queue["bid"] # {}
    <3> HIDE DEF Seeks
    <3> QED
      BY <1>5, <1>8, <2>2, ClearNextSeeks
  <2> QED
    BY <2>1, <2>2
<1>9. ASSUME FillFindsClosed \/ FillDropsBid \/ FillFails \/ FillTrades PROVE Pool' \subseteq Pool
  <2>1. UNCHANGED queue
    BY <1>9 DEF FillFindsClosed, FillDropsBid, FillFails, FillTrades
  <2>2. \E i, r, t, n : FillReturns(i, r, t, n)
    BY <1>9 DEF FillFindsClosed, FillDropsBid, FillFails, FillTrades
  <2> QED
    BY <1>1, <2>1, <2>2, FillKeepsPool
<1>10. StartClearing => Pool' \subseteq Pool
  BY DEF StartClearing, Pool, Queued, At
<1>11. UNCHANGED vars => Same
  BY DEF vars
<1>12. \/ Restart \/ PushTriggered \/ (\E o \in Orders : LoadOld(o)) \/ Seeks
       \/ Pool' \subseteq Pool
  <2> HIDE DEF Same, Seeks
  <2>1. CASE Matching
    BY <1>1, <1>7, <1>9, <2>1, SettleKeeps, FinishPool DEF Matching
  <2>2. CASE Startup
    BY <1>8, <1>10, <2>2, FinishPool DEF Startup
  <2> QED
    BY <1>2, <1>3, <1>4, <1>6, <1>11, <2>1, <2>2 DEF Next
<1> QED
  BY <1>12

\* An order that matched none joins a pool in which none would trade.
LEMMA PutInQueueUncrossed ==
  ASSUME IInv, IInv', Uncrossed, NEW i \in Orders, NEW q \in [Sides -> SUBSET Orders],
         Seeking(i, q), PutInQueue(i, q)
  PROVE  Uncrossed'
<1>1. TypeOK /\ Places
  BY DEF IInv
<1>2. /\ Pool' = q["ask"] \cup q["bid"] \cup {i}
      /\ \A s \in Sides : q[s] \subseteq queue[s] \ {i}
      /\ UNCHANGED <<ticket, placed, mem>>
  BY PutInQueuePool DEF Seeking
<1>3. q["ask"] \cup q["bid"] \subseteq Pool
  BY <1>2 DEF Pool, Queued
<1>4. \A s \in Sides : \A x \in q[s] : Side(x) = s
  BY <1>1, <1>2 DEF Places
<1> SUFFICES ASSUME NEW a \in Pool', NEW b \in Pool', Side(a) = "ask", Side(b) = "bid",
                    Open(a), Open(b), User(a) # User(b),
                    ticket[a].kind # "StopLoss", ticket[b].kind # "StopLoss"
             PROVE  ~WouldTrade(a, b)
  BY <1>2 DEF Uncrossed, Side, User, Open, WouldTrade
<1>5. CASE a = i
  <2>1. b \in q[Other(Side(i))]
    BY <1>2, <1>4, <1>5 DEF Other
  <2> QED
    BY <1>5, <2>1, NoneMatches
<1>6. CASE b = i
  <2>1. a \in q[Other(Side(i))]
    BY <1>2, <1>4, <1>6 DEF Other
  <2> QED
    BY <1>6, <2>1, NoneMatches
<1>7. CASE a # i /\ b # i
  BY <1>2, <1>3, <1>7 DEF Uncrossed
<1> QED
  BY <1>5, <1>6, <1>7

\* A triggered order is an active stop-loss order.
LEMMA PushUncrossed ==
  ASSUME IInv, Uncrossed, WakesStopLoss, PushTriggered
  PROVE  Uncrossed'
<1> DEFINE o == matcher.trig
<1>1. TypeOK /\ InMatch /\ matcher \in MatcherType
  BY DEF IInv, TypeOK, MatcherType
<1>2. /\ matcher.pc = "push" /\ o \in Orders
      /\ queue' = [queue EXCEPT ![Side(o)] = @ \cup {o}]
      /\ UNCHANGED <<ticket, placed, mem>>
      /\ \E p : matcher' = [matcher EXCEPT !.pc = p, !.trig = None]
  BY <1>1 DEF PushTriggered, InMatch
<1>3. Side(o) \in Sides /\ queue \in [Sides -> SUBSET Orders]
  BY <1>1, <1>2, TicketParts DEF TypeOK
<1> HIDE DEF o
<1>4. matcher'.held = matcher.held
  BY <1>1, <1>2 DEF MatcherType
<1>5. Pool' \subseteq Pool \cup {o}
  BY <1>2, <1>3, <1>4 DEF Pool, Queued
<1>6. ticket[o].kind = "StopLoss"
  BY <1>2 DEF WakesStopLoss, o
<1> QED
  BY <1>2, <1>5, <1>6 DEF Uncrossed, Side, User, Open, WouldTrade

LEMMA UncrossedStep ==
  ASSUME IInv, IInv', Uncrossed, WakesStopLoss, [Next]_vars, ~Restart, \A o \in Orders : ~LoadOld(o)
  PROVE  Uncrossed'
<1>1. UNCHANGED ticket /\ \A o \in Orders : mem[o].closed => mem'[o].closed
  BY ClosedStays
<1>2. CASE Pool' \subseteq Pool
  BY <1>1, <1>2, UncrossedFrame
<1>3. CASE PushTriggered
  BY <1>3, PushUncrossed
<1>4. ASSUME NEW i \in Orders, NEW q \in [Sides -> SUBSET Orders], Seeking(i, q),
             StartMatch(i, q) \/ PutInQueue(i, q)
      PROVE  Uncrossed'
  <2>1. CASE StartMatch(i, q)
    <3>1. q["ask"] \subseteq queue["ask"] /\ q["bid"] \subseteq queue["bid"]
      BY <1>4 DEF Seeking
    <3>2. Pool' \subseteq q["ask"] \cup q["bid"]
      BY <1>4, <2>1, StartMatchPool
    <3>3. Pool' \subseteq Pool
      BY <3>1, <3>2 DEF Pool, Queued
    <3> QED
      BY <1>1, <3>3, UncrossedFrame
  <2>2. CASE PutInQueue(i, q)
    BY <1>4, <2>2, PutInQueueUncrossed
  <2> QED
    BY <1>4, <2>1, <2>2
<1> QED
  BY <1>2, <1>3, <1>4, PoolSteps

\* A step that begins to wake an order takes it from a stop-loss queue.
LEMMA WakesStopLossStep ==
  ASSUME IInv, WakesStopLoss, [Next]_vars
  PROVE  WakesStopLoss'
<1> SUFFICES ASSUME matcher'.pc = "push" PROVE ticket'[matcher'.trig].kind = "StopLoss"
  BY DEF WakesStopLoss
<1>1. TypeOK /\ KindsOK /\ matcher \in MatcherType
  BY DEF IInv, TypeOK, MatcherType
<1>2. ASSUME NEW s \in Sides, Trigger(s) PROVE ticket'[matcher'.trig].kind = "StopLoss"
  <2>1. PICK o \in StopTops(stops[s]) :
          matcher' = [matcher EXCEPT !.pc = "push", !.trig = o] /\ UNCHANGED ticket
    BY <1>2 DEF Trigger
  <2>2. matcher'.trig = o
    BY <1>1, <2>1 DEF MatcherType
  <2>3. o \in Orders /\ o \in Dormant
    BY <1>1, <2>1 DEF StopTops, TypeOK, Dormant
  <2> QED
    BY <1>1, <2>1, <2>2, <2>3 DEF KindsOK
<1>3. ASSUME UNCHANGED matcher, UNCHANGED ticket PROVE ticket'[matcher'.trig].kind = "StopLoss"
  BY <1>3 DEF WakesStopLoss
<1>4. ~Restart
  BY DEF Restart, At
<1>5. UNCHANGED ticket
  BY <1>4, ClosedStays
<1>6. ASSUME NEW o \in Orders, \/ Place(o) \/ Adding(o) \/ CancelOrder(o) \/ CancelOrderFails(o)
                               \/ LoadOld(o)
      PROVE  UNCHANGED matcher
  BY <1>6 DEF Place, Adding, TriggerOnArrival, StayDormant, Park, SaveTrigger,
              CancelOrder, CancelOrderFails, LoadOld
<1>7. ASSUME NEW c \in cancelling, CancelInBook(c) PROVE UNCHANGED matcher
  BY <1>7 DEF CancelInBook
<1>8. ASSUME NEW i, NEW q, Seeking(i, q), StartMatch(i, q) \/ PutInQueue(i, q) PROVE FALSE
  <2>1. i \in Orders /\ q \in [Sides -> SUBSET Orders]
    BY <1>8 DEF Seeking
  <2> QED
    BY <1>8, <2>1, StartMatchPool, PutInQueuePool
<1>9. ~SeekAgain /\ \A o \in Orders : ~Receive(o)
  BY <1>8, SeekAgainSeeks, ReceiveSeeks
<1>10. ~ClearNext
  <2>1. CASE queue["bid"] = {}
    BY <2>1 DEF ClearNext, At
  <2>2. CASE queue["bid"] # {}
    BY <1>8, <2>2, ClearNextSeeks
  <2> QED
    BY <2>1, <2>2
<1>11. ~FillFindsClosed /\ ~FillDropsBid /\ ~FillFails /\ ~FillTrades
  <2>1. ASSUME NEW i, NEW r, NEW t, NEW n, FillReturns(i, r, t, n) PROVE FALSE
    BY <1>1, <2>1 DEF FillReturns, MatcherType
  <2> QED
    BY <2>1 DEF FillFindsClosed, FillDropsBid, FillFails, FillTrades
<1>12. ~Settle /\ ~PushTriggered /\ (\A s \in Sides : ~EndTrigger(s))
  <2>1. ASSUME NEW p, NEW t, p # "push",
               matcher' = [matcher EXCEPT !.pc = p] \/ matcher' = [matcher EXCEPT !.pc = p, !.trig = t]
        PROVE  FALSE
    <3>1. CASE matcher' = [matcher EXCEPT !.pc = p]
      <4>1. matcher'.pc = p
        BY <1>1, <3>1 DEF MatcherType
      <4> QED
        BY <2>1, <4>1
    <3>2. CASE matcher' = [matcher EXCEPT !.pc = p, !.trig = t]
      <4>1. matcher'.pc = p
        BY <1>1, <3>2 DEF MatcherType
      <4> QED
        BY <2>1, <4>1
    <3> QED
      BY <2>1, <3>1, <3>2
  <2>2. ~Settle
    BY <2>1 DEF Settle, TriggerStep
  <2>3. ~PushTriggered
    <3>1. PushTriggered =>
            matcher' = [matcher EXCEPT !.pc = TriggerStep(Side(matcher.trig)), !.trig = None]
      BY DEF PushTriggered
    <3>2. TriggerStep(Side(matcher.trig)) # "push"
      BY DEF TriggerStep
    <3> QED
      BY <2>1, <3>1, <3>2
  <2>4. \A s \in Sides : ~EndTrigger(s)
    BY <2>1 DEF EndTrigger, TriggerStep
  <2> QED
    BY <2>2, <2>3, <2>4
<1>13. ~Finish /\ ~FinishClearing
  BY FinishPool
<1>14. ~StartClearing
  BY DEF StartClearing, At
<1>15. UNCHANGED vars => UNCHANGED matcher
  BY DEF vars
<1> QED
  BY <1>2, <1>3, <1>4, <1>5, <1>6, <1>7, <1>9, <1>10, <1>11, <1>12, <1>13, <1>14, <1>15
  DEF Next, Matching, Startup

\* The server serves.
Serves == serving /\ matcher.pc \notin {"load", "clear"}

LEMMA NoRestart ==
  ASSUME IInv, NoCrash
  PROVE  ~Restart
<1>1. restarts \in 0 .. 0
  BY DEF IInv, TypeOK, NoCrash
<1>2. ~(restarts < MaxRestarts)
  BY <1>1 DEF NoCrash
<1> QED
  BY <1>2 DEF Restart

\* It does so until it crashes.
LEMMA ServesStep ==
  ASSUME IInv, Serves, [Next]_vars, ~Restart
  PROVE  Serves' /\ \A o \in Orders : ~LoadOld(o)
<1>1. TypeOK /\ matcher \in MatcherType
  BY DEF IInv, TypeOK, MatcherType
<1>3. (\A o \in Orders : ~LoadOld(o)) /\ ~StartClearing /\ ~ClearNext /\ ~FinishClearing
  BY DEF Serves, LoadOld, StartClearing, ClearNext, FinishClearing
<1>4. ASSUME NEW o \in Orders, Place(o) \/ Adding(o) \/ CancelOrder(o) \/ CancelOrderFails(o)
      PROVE  Serves'
  BY <1>4 DEF Serves, Place, Adding, TriggerOnArrival, StayDormant, Park, SaveTrigger,
              CancelOrder, CancelOrderFails
<1>5. ASSUME NEW c \in cancelling, CancelInBook(c) PROVE Serves'
  BY <1>5 DEF CancelInBook, Serves
<1>6. ASSUME NEW i, NEW q, Seeking(i, q), StartMatch(i, q) \/ PutInQueue(i, q) PROVE Serves'
  BY <1>6, StartMatchPool, PutInQueuePool DEF Serves
<1>7. ASSUME SeekAgain \/ (\E o \in Orders : Receive(o)) PROVE Serves'
  BY <1>6, <1>7, SeekAgainSeeks, ReceiveSeeks
<1>8. ASSUME FillFindsClosed \/ FillDropsBid \/ FillFails \/ FillTrades PROVE Serves'
  <2>1. UNCHANGED <<queue, serving>> /\ \E i, r, t, n : FillReturns(i, r, t, n)
    BY <1>8 DEF FillFindsClosed, FillDropsBid, FillFails, FillTrades
  <2> QED
    BY <1>1, <2>1, FillKeepsPool DEF Serves
<1>9. ASSUME Settle \/ (\E s \in Sides : Trigger(s) \/ EndTrigger(s)) PROVE Serves'
  BY <1>1, <1>9, SettleKeeps DEF Serves, MatchSteps
<1>10. ASSUME PushTriggered PROVE Serves'
  <2>1. \E p \in {"trigger ask", "trigger bid"} : matcher' = [matcher EXCEPT !.pc = p, !.trig = None]
    BY <1>10 DEF PushTriggered, TriggerStep
  <2>2. matcher'.pc \notin {"load", "clear"}
    BY <1>1, <2>1 DEF MatcherType
  <2> QED
    BY <1>10, <2>2 DEF PushTriggered, Serves
<1>11. ASSUME Finish PROVE Serves'
  BY <1>11 DEF Finish, At, Serves
<1>12. UNCHANGED vars => Serves'
  BY DEF vars, Serves
<1> QED
  BY <1>3, <1>4, <1>5, <1>7, <1>8, <1>9, <1>10, <1>11, <1>12 DEF Next, Matching, Startup

------------------------------------------------------------------------------
(* The order that is matched stays at the head of its queue *)

\* Of the orders left in the queue none comes before the one matched, and those popped
\* on the way are the user's own.
Heads ==
  matcher.pc \in MatchSteps =>
    /\ \A y \in queue[Other(Side(matcher.inc))] : ~Better(y, matcher.res)
    /\ \A o \in matcher.held : User(o) = User(matcher.inc)

\* Without stop-loss orders no order changes its type, so the queues keep their order.
LEMMA NoOrderChanges ==
  ASSUME IInv, NoStopOrders, NEW o \in Orders
  PROVE  /\ mem[o].kind = ticket[o].kind /\ ticket[o].kind # "StopLoss"
         /\ saving[o] = "no" /\ stage[o] \notin {"check", "park"} /\ o \notin Dormant
<1>1. TypeOK /\ KindsOK
  BY DEF IInv
<1>2. ticket[o] \in Tickets
  BY <1>1 DEF TypeOK
<1>3. ticket[o].kind # "StopLoss"
  BY <1>2 DEF NoStopOrders
<1>4. ticket[o].kind # "StopLossActive"
  BY <1>1, TicketParts
<1> QED
  BY <1>1, <1>3, <1>4 DEF KindsOK

LEMMA SameOrder ==
  ASSUME IInv, IInv', NoStopOrders, UNCHANGED <<ticket, at>>, NEW x \in Orders, NEW y \in Orders
  PROVE  Better(x, y)' <=> Better(x, y)
<1>1. \A o \in {x, y} : mem[o].kind = ticket[o].kind /\ mem'[o].kind = ticket[o].kind
  <2>1. \A o \in Orders : mem[o].kind = ticket[o].kind
    BY NoOrderChanges
  <2>2. TypeOK' /\ KindsOK'
    BY DEF IInv
  <2>3. \A o \in Orders : ticket'[o] \in Tickets
    BY <2>2 DEF TypeOK
  <2>4. \A o \in Orders : ticket'[o].kind # "StopLoss"
    BY <2>3 DEF NoStopOrders
  <2> QED
    BY <2>1, <2>2, <2>4 DEF KindsOK
<1> QED
  BY <1>1 DEF Better, Cheaper, IsMarket, Side, Qty

\* What getTopMatchingBid and getTopMatchingAsk leave in the queue.
LEMMA StartMatchHeads ==
  ASSUME TypeOK, NEW i, NEW q, Seeking(i, q), StartMatch(i, q)
  PROVE  \E r, h :
           /\ r \in Orders /\ matcher'.inc = i /\ matcher'.res = r /\ matcher'.held = h
           /\ h \subseteq q[Other(Side(i))]
           /\ queue' = [q EXCEPT ![Other(Side(i))] = @ \ h]
           /\ \A y \in q[Other(Side(i))] \ h : ~Better(y, r)
           /\ \A o \in h : User(o) = User(i)
<1>1. PICK r \in BestOf(i, q) : \E h \in PoppedOnTheWay(i, r, q) :
        /\ matcher' = [At("fill") EXCEPT !.inc = i, !.res = r, !.held = h]
        /\ queue' = [q EXCEPT ![Other(Side(i))] = @ \ h]
  BY DEF StartMatch
<1>2. PICK h \in PoppedOnTheWay(i, r, q) :
        /\ matcher' = [At("fill") EXCEPT !.inc = i, !.res = r, !.held = h]
        /\ queue' = [q EXCEPT ![Other(Side(i))] = @ \ h]
  BY <1>1
<1>3. i \in Orders /\ q \in [Sides -> SUBSET Orders]
  BY DEF Seeking
<1>4. Other(Side(i)) \in Sides
  BY <1>3, TicketParts DEF Other
<1>5. r \in q[Other(Side(i))] /\ \A y \in q[Other(Side(i))] : User(y) # User(i) => ~Better(y, r)
  BY <1>1 DEF BestOf
<1>6. h \subseteq q[Other(Side(i))] /\ \A o \in h : User(o) = User(i)
  BY <1>2 DEF PoppedOnTheWay
<1>7. \A y \in q[Other(Side(i))] : User(y) = User(i) /\ Better(y, r) => y \in h
  BY <1>2 DEF PoppedOnTheWay
<1>8. matcher'.inc = i /\ matcher'.res = r /\ matcher'.held = h
  BY <1>2 DEF At
<1>9. \A y \in q[Other(Side(i))] \ h : ~Better(y, r)
  BY <1>5, <1>7
<1>10. r \in Orders
  BY <1>3, <1>4, <1>5
<1> QED
  BY <1>2, <1>6, <1>8, <1>9, <1>10

\* A match goes on with the same orders, or a new one begins.
SameParties ==
  /\ matcher.pc \in MatchSteps
  /\ UNCHANGED <<queue, serving>>
  /\ matcher'.inc = matcher.inc /\ matcher'.res = matcher.res /\ matcher'.held = matcher.held

LEMMA MatchGoesOn ==
  ASSUME IInv, [Next]_vars, matcher'.pc \in MatchSteps
  PROVE  \/ SameParties
         \/ PushTriggered
         \/ \E i \in Orders : \E q \in [Sides -> SUBSET Orders] :
              /\ Seeking(i, q) /\ StartMatch(i, q)
              /\ \/ serving
                 \/ i = matcher.inc /\ q = queue /\ matcher.pc = "seek"
                 \/ i \in Tops(queue["bid"]) /\ q = Rest(i)
<1> DEFINE Starts == \E i \in Orders : \E q \in [Sides -> SUBSET Orders] :
              /\ Seeking(i, q) /\ StartMatch(i, q)
              /\ \/ serving
                 \/ i = matcher.inc /\ q = queue /\ matcher.pc = "seek"
                 \/ i \in Tops(queue["bid"]) /\ q = Rest(i)
<1>1. TypeOK /\ matcher \in MatcherType
  BY DEF IInv, TypeOK, MatcherType
<1>2. UNCHANGED <<queue, serving, matcher>> => SameParties
  BY DEF SameParties
<1>3. ASSUME NEW o \in Orders, Place(o) \/ Adding(o) \/ CancelOrder(o) \/ CancelOrderFails(o)
      PROVE  SameParties
  BY <1>2, <1>3 DEF Place, Adding, TriggerOnArrival, StayDormant, Park, SaveTrigger,
              CancelOrder, CancelOrderFails
<1>4. ASSUME NEW c \in cancelling, CancelInBook(c) PROVE SameParties
  BY <1>2, <1>4 DEF CancelInBook
<1>5. ASSUME NEW i, NEW q, Seeking(i, q), StartMatch(i, q) \/ PutInQueue(i, q),
             \/ serving
             \/ i = matcher.inc /\ q = queue /\ matcher.pc = "seek"
             \/ i \in Tops(queue["bid"]) /\ q = Rest(i)
      PROVE  Starts
  <2>1. i \in Orders /\ q \in [Sides -> SUBSET Orders]
    BY <1>5 DEF Seeking
  <2>2. StartMatch(i, q)
    BY <1>5, PutInQueuePool DEF MatchSteps
  <2> QED
    BY <1>5, <2>1, <2>2
<1>6. ASSUME NEW o \in Orders, Receive(o) PROVE Starts
  <2>1. serving
    BY <1>6 DEF Receive
  <2> HIDE DEF Starts
  <2> QED
    BY <1>5, <1>6, <2>1, ReceiveSeeks
<1>7. ASSUME SeekAgain PROVE Starts
  <2>1. matcher.pc = "seek"
    BY <1>7 DEF SeekAgain
  <2> HIDE DEF Starts
  <2> QED
    BY <1>5, <1>7, <2>1, SeekAgainSeeks
<1>8. ASSUME ClearNext PROVE Starts
  <2>1. queue["bid"] # {}
    <3>1. queue["bid"] = {} => matcher'.pc = "idle"
      BY <1>8 DEF ClearNext, At
    <3> QED
      BY <3>1 DEF MatchSteps
  <2> HIDE DEF Starts
  <2> QED
    BY <1>5, <1>8, <2>1, ClearNextSeeks
<1>9. ASSUME FillFindsClosed \/ FillDropsBid \/ FillFails \/ FillTrades PROVE SameParties
  <2>1. UNCHANGED <<queue, serving>> /\ \E i, r, t, n : FillReturns(i, r, t, n)
    BY <1>9 DEF FillFindsClosed, FillDropsBid, FillFails, FillTrades
  <2>2. matcher.pc \in MatchSteps
    BY <1>9 DEF FillFindsClosed, FillDropsBid, FillFails, FillTrades, MatchSteps
  <2> QED
    BY <1>1, <2>1, <2>2, FillKeepsPool DEF SameParties
<1>10. ASSUME Settle \/ (\E s \in Sides : Trigger(s) \/ EndTrigger(s)) PROVE SameParties
  <2>1. matcher.pc \in MatchSteps
    BY <1>10 DEF Settle, Trigger, EndTrigger, TriggerStep, MatchSteps
  <2> QED
    BY <1>1, <1>10, <2>1, SettleKeeps DEF SameParties
<1>11. ~Finish /\ ~FinishClearing
  BY FinishPool DEF MatchSteps
<1>12. ~StartClearing /\ ~Restart
  <2>1. Restart => matcher'.pc = "load"
    BY DEF Restart, At
  <2>2. StartClearing => matcher'.pc = "clear"
    BY DEF StartClearing, At
  <2> QED
    BY <2>1, <2>2 DEF MatchSteps
<1>13. ASSUME NEW o \in Orders, LoadOld(o) PROVE FALSE
  BY <1>13 DEF LoadOld, MatchSteps
<1>14. UNCHANGED vars => SameParties
  BY <1>2 DEF vars
<1>15. SameParties \/ PushTriggered \/ Starts
  <2> HIDE DEF Starts
  <2> QED
    BY <1>3, <1>4, <1>6, <1>7, <1>8, <1>9, <1>10, <1>11, <1>12, <1>13, <1>14
    DEF Next, Matching, Startup
<1> QED
  BY <1>15

\* Without stop-loss orders triggerStopLosses pushes nothing.
LEMMA NothingPushed ==
  ASSUME IInv, NoStopOrders, WakesStopLoss
  PROVE  matcher.pc # "push" /\ ~PushTriggered
<1>1. matcher.pc = "push" => matcher.trig \in Orders
  BY DEF IInv, InMatch
<1> QED
  BY <1>1, NoOrderChanges DEF WakesStopLoss, PushTriggered

LEMMA HeadsStep ==
  ASSUME IInv, IInv', NoStopOrders, WakesStopLoss, Heads, [Next]_vars
  PROVE  Heads'
<1>1. TypeOK
  BY DEF IInv
<1> SUFFICES ASSUME matcher'.pc \in MatchSteps PROVE Heads'
  BY DEF Heads
<1>2. ~Restart
  <2>1. Restart => matcher'.pc = "load"
    BY DEF Restart, At
  <2> QED
    BY <2>1 DEF MatchSteps
<1>3. UNCHANGED <<ticket, at>>
  BY <1>2, ClosedStays
<1>4. \A x, y \in Orders : Better(x, y)' <=> Better(x, y)
  BY <1>3, SameOrder
<1>5. CASE SameParties
  <2>1. matcher.inc \in Orders /\ matcher.res \in Orders
    BY <1>1, <1>5, PartiesPlaced DEF IInv, SameParties
  <2>2. Other(Side(matcher.inc)) \in Sides
    BY <1>1, <2>1, TicketParts DEF Other
  <2>3. queue[Other(Side(matcher.inc))] \subseteq Orders
    BY <1>1, <2>2 DEF TypeOK
  <2>4. PICK r \in Orders : r = matcher.res
    BY <2>1
  <2>5. \A y \in queue[Other(Side(matcher.inc))] : ~Better(y, r)
    BY <1>5, <2>4 DEF Heads, SameParties
  <2>6. \A y \in queue[Other(Side(matcher.inc))] : ~Better(y, r)'
    BY <1>4, <2>3, <2>5
  <2>7. matcher'.res = r
    BY <1>5, <2>4 DEF SameParties
  <2> QED
    BY <1>3, <1>5, <2>6, <2>7 DEF Heads, SameParties, Side, User
<1>6. ASSUME NEW i \in Orders, NEW q \in [Sides -> SUBSET Orders], Seeking(i, q), StartMatch(i, q)
      PROVE  Heads'
  <2>1. PICK r, h :
           /\ r \in Orders /\ matcher'.inc = i /\ matcher'.res = r /\ matcher'.held = h
           /\ h \subseteq q[Other(Side(i))]
           /\ queue' = [q EXCEPT ![Other(Side(i))] = @ \ h]
           /\ \A y \in q[Other(Side(i))] \ h : ~Better(y, r)
           /\ \A o \in h : User(o) = User(i)
    BY <1>1, <1>6, StartMatchHeads
  <2>2. Other(Side(i)) \in Sides
    BY <1>1, TicketParts DEF Other
  <2>3. queue'[Other(Side(i))] = q[Other(Side(i))] \ h /\ q[Other(Side(i))] \subseteq Orders
    BY <2>1, <2>2
  <2>4. \A y \in queue'[Other(Side(i))] : ~Better(y, r)'
    BY <1>4, <2>1, <2>3
  <2> QED
    BY <1>3, <2>1, <2>4 DEF Heads, Side, User
<1> QED
  BY <1>5, <1>6, MatchGoesOn, NothingPushed

------------------------------------------------------------------------------
(* No order is lost *)

\* The object and the row agree on IsClosed.
CopiesAgree == \A o \in Orders : mem[o].closed <=> saved[o].closed

\* A party of a match that makeTrade is done with is closed.
Done ==
  matcher.pc \in MatchSteps \ {"fill"} =>
    /\ IncDone => saved[matcher.inc].closed
    /\ ResDone => saved[matcher.res].closed

\* Without errors every match ends one of its parties.
Ends == matcher.pc \in MatchSteps \ {"fill"} => IncDone \/ ResDone

\* The orders that the engine knows, and those that are open.
Known == Queued \cup matcher.held \cup InHand \cup BeingAdded \cup unloaded
Kept == OpenInDatabase \subseteq Known

\* Without stop-loss orders no closed row is opened.
LEMMA RowsStayClosed ==
  ASSUME IInv, NoStopOrders, CopiesAgree, [Next]_vars
  PROVE  \A o \in Orders : saved[o].closed => saved'[o].closed
<1>1. TypeOK
  BY DEF IInv
<1> DEFINE Stay == \A o \in Orders : saved[o].closed => saved'[o].closed
<1>2. UNCHANGED saved => Stay
  OBVIOUS
<1>3. ASSUME NEW o \in Orders, \/ Place(o) \/ TriggerOnArrival(o) \/ StayDormant(o) \/ Park(o)
                               \/ Receive(o) \/ CancelOrderFails(o) \/ LoadOld(o)
      PROVE  UNCHANGED saved
  BY <1>3 DEF Place, TriggerOnArrival, StayDormant, Park, Receive, CancelOrderFails, LoadOld
<1>4. \A o \in Orders : ~SaveTrigger(o)
  BY NoOrderChanges DEF SaveTrigger
<1>5. ASSUME NEW o \in Orders, CancelOrder(o) PROVE Stay
  BY <1>1, <1>5, CancelFacts
<1>6. ASSUME NEW c \in cancelling, CancelInBook(c) PROVE UNCHANGED saved
  BY <1>6 DEF CancelInBook
<1>7. FillDropsBid => Stay
  BY DropFacts
<1>8. FillTrades => Stay
  BY TradeFacts DEF CopiesAgree
<1>9. ASSUME NEW s \in Sides, Trigger(s) \/ EndTrigger(s) PROVE UNCHANGED saved
  BY <1>9 DEF Trigger, EndTrigger
<1>10. ASSUME \/ SeekAgain \/ FillFindsClosed \/ FillFails \/ Settle \/ PushTriggered \/ Finish
              \/ StartClearing \/ ClearNext \/ FinishClearing \/ Restart \/ UNCHANGED vars
       PROVE  UNCHANGED saved
  BY <1>10 DEF SeekAgain, FillFindsClosed, FillFails, Settle, PushTriggered, Finish,
     StartClearing, ClearNext, FinishClearing, Restart, vars
<1> HIDE DEF Stay
<1>11. Stay
  BY <1>2, <1>3, <1>4, <1>5, <1>6, <1>7, <1>8, <1>9, <1>10 DEF Next, Adding, Matching, Startup
<1> QED
  BY <1>11 DEF Stay

\* Only placing an order makes a row.
LEMMA OpenBefore ==
  ASSUME IInv, NoStopOrders, CopiesAgree, [Next]_vars, \A o \in Orders : ~Place(o)
  PROVE  OpenInDatabase' \subseteq OpenInDatabase /\ UNCHANGED placed
<1>1. UNCHANGED placed
  <2>1. ASSUME NEW o \in Orders, \/ Adding(o) \/ Receive(o) \/ CancelOrder(o) \/ CancelOrderFails(o)
                                 \/ LoadOld(o)
        PROVE  UNCHANGED placed
    BY <2>1 DEF Adding, TriggerOnArrival, StayDormant, Park, SaveTrigger, Receive, CancelOrder,
       CancelOrderFails, LoadOld
  <2>2. ASSUME NEW c \in cancelling, CancelInBook(c) PROVE UNCHANGED placed
    BY <2>2 DEF CancelInBook
  <2>3. ASSUME NEW s \in Sides, Trigger(s) \/ EndTrigger(s) PROVE UNCHANGED placed
    BY <2>3 DEF Trigger, EndTrigger
  <2>4. ASSUME \/ SeekAgain \/ FillFindsClosed \/ FillDropsBid \/ FillFails \/ FillTrades \/ Settle
               \/ PushTriggered \/ Finish \/ StartClearing \/ ClearNext \/ FinishClearing
               \/ Restart \/ UNCHANGED vars
        PROVE  UNCHANGED placed
    BY <2>4 DEF SeekAgain, FillFindsClosed, FillDropsBid, FillFails, FillTrades, Settle,
       PushTriggered, Finish, StartClearing, ClearNext, FinishClearing, Restart, vars
  <2> QED
    BY <2>1, <2>2, <2>3, <2>4 DEF Next, Matching, Startup
<1>2. 1 .. placed \subseteq Orders
  BY BoundsAssumption DEF IInv, TypeOK
<1>3. \A o \in 1 .. placed : saved[o].closed => saved'[o].closed
  BY <1>2, RowsStayClosed
<1> QED
  BY <1>1, <1>3 DEF OpenInDatabase

\* A trade closes the row of a party if it fills it.
LEMMA TradeCloses ==
  ASSUME IInv, FillTrades
  PROVE  \A x \in {MatchedAsk, MatchedBid} :
           saved'[x].closed <=> filled[x] + TradeQty(MatchedAsk, MatchedBid) = Qty(x)
<1>1. PICK a, b : a = MatchedAsk /\ b = MatchedBid
  OBVIOUS
<1>2. \A x \in {a, b} : saved'[x].closed <=> filled[x] + TradeQty(a, b) = Qty(x)
  BY <1>1, TradeFacts
<1> QED
  BY <1>1, <1>2

\* What fillOrderFn reports of the parties of a match is what it wrote.
LEMMA FillDone ==
  ASSUME IInv, CopiesAgree, FillFindsClosed \/ FillDropsBid \/ FillFails \/ FillTrades
  PROVE  /\ Done'
         /\ ~FillFails => Ends'
<1>1. TypeOK /\ matcher.pc = "fill" /\ matcher.pc \in MatchSteps
  BY DEF IInv, FillFindsClosed, FillDropsBid, FillFails, FillTrades, MatchSteps
<1>2. PICK i, r, a, b :
        i = matcher.inc /\ r = matcher.res /\ a = MatchedAsk /\ b = MatchedBid
  OBVIOUS
<1>3. /\ i \in Orders /\ r \in Orders /\ a \in Orders /\ b \in Orders /\ {a, b} = {i, r}
      /\ a # b /\ i # r
  BY <1>1, <1>2, MatchedParties, PartiesPlaced DEF IInv
<1>4. UNCHANGED queue
  BY DEF FillFindsClosed, FillDropsBid, FillFails, FillTrades
<1>5. ASSUME NEW si, NEW sr, NEW t, NEW n, FillReturns(si, sr, t, n),
             si # "undone" => saved'[i].closed, sr # "undone" => saved'[r].closed
      PROVE  Done'
  <2>1. matcher'.inc = i /\ matcher'.res = r /\ matcher'.incSt = si /\ matcher'.resSt = sr
    BY <1>1, <1>2, <1>4, <1>5, FillKeepsPool
  <2> QED
    BY <1>5, <2>1 DEF Done, IncDone, ResDone
<1>6. ASSUME NEW si, NEW sr, NEW t, NEW n, FillReturns(si, sr, t, n),
             si # "undone" \/ sr # "undone"
      PROVE  Ends'
  <2>1. matcher'.incSt = si /\ matcher'.resSt = sr
    BY <1>1, <1>4, <1>6, FillKeepsPool
  <2> QED
    BY <1>6, <2>1 DEF Ends, IncDone, ResDone
<1>7. CASE FillFindsClosed
  <2> DEFINE si == IF mem[i].closed THEN "closed" ELSE "undone"
             sr == IF mem[r].closed THEN "closed" ELSE "undone"
  <2>1. FillReturns(si, sr, None, 0) /\ ~BothOpen /\ UNCHANGED saved
    BY <1>2, <1>7 DEF FillFindsClosed
  <2>2. si # "undone" => saved'[i].closed
    BY <1>3, <2>1 DEF CopiesAgree
  <2>3. sr # "undone" => saved'[r].closed
    BY <1>3, <2>1 DEF CopiesAgree
  <2>4. si # "undone" \/ sr # "undone"
    BY <1>2, <2>1 DEF BothOpen
  <2> HIDE DEF si, sr
  <2> QED
    BY <1>5, <1>6, <2>1, <2>2, <2>3, <2>4
<1>8. CASE FillDropsBid
  <2> DEFINE si == IF i = b THEN "done" ELSE "undone"
             sr == IF r = b THEN "done" ELSE "undone"
  <2>1. FillReturns(si, sr, None, 0)
    BY <1>2, <1>8 DEF FillDropsBid
  <2>2. saved'[b].closed
    BY <1>2, <1>8, DropFacts
  <2>3. si # "undone" => saved'[i].closed
    BY <2>2
  <2>4. sr # "undone" => saved'[r].closed
    BY <2>2
  <2>5. si # "undone" \/ sr # "undone"
    BY <1>3
  <2> HIDE DEF si, sr
  <2> QED
    BY <1>5, <1>6, <2>1, <2>3, <2>4, <2>5
<1>9. CASE FillFails
  <2>1. FillReturns("undone", "undone", None, 0)
    BY <1>9 DEF FillFails
  <2> QED
    BY <1>5, <1>9, <2>1
<1>10. CASE FillTrades
  <2> DEFINE n == TradeQty(a, b)
             st(o) == IF filled[o] + n = Qty(o) THEN "done" ELSE "undone"
  <2>1. FillReturns(st(i), st(r), TradePrice(a, b), n)
    BY <1>2, <1>10 DEF FillTrades
  <2>2. \A x \in {i, r} : saved'[x].closed <=> filled[x] + n = Qty(x)
    <3>1. \A x \in {a, b} : saved'[x].closed <=> filled[x] + n = Qty(x)
      BY <1>2, <1>10, TradeCloses
    <3> HIDE DEF n
    <3> QED
      BY <1>3, <3>1
  <2>3. st(i) # "undone" => saved'[i].closed
    BY <2>2
  <2>4. st(r) # "undone" => saved'[r].closed
    BY <2>2
  <2>5. st(a) # "undone" \/ st(b) # "undone"
    <3>1. \A x \in {a, b} : Qty(x) \in Nat /\ filled[x] \in Nat
      BY <1>1, <1>3, TicketParts DEF TypeOK
    <3> QED
      BY <3>1 DEF TradeQty, Unfilled
  <2>6. st(i) # "undone" \/ st(r) # "undone"
    BY <1>3, <2>5
  <2> HIDE DEF st, n
  <2> QED
    BY <1>5, <1>6, <2>1, <2>3, <2>4, <2>6
<1> QED
  BY <1>7, <1>8, <1>9, <1>10

\* While makeTrade settles the trade its parties stay closed.
LEMMA DoneStep ==
  ASSUME IInv, IInv', NoStopOrders, WakesStopLoss, CopiesAgree, Done, [Next]_vars
  PROVE  Done' /\ (Ends /\ ~FillFails => Ends')
<1>1. TypeOK /\ matcher \in MatcherType
  BY DEF IInv, TypeOK, MatcherType
<1>2. CASE FillFindsClosed \/ FillDropsBid \/ FillFails \/ FillTrades
  BY <1>2, FillDone
<1>3. CASE matcher'.pc \notin MatchSteps \ {"fill"}
  BY <1>3 DEF Done, Ends
<1>4. CASE UNCHANGED matcher
  <2>1. matcher.pc \in MatchSteps => matcher.inc \in Orders /\ matcher.res \in Orders
    BY <1>1, PartiesPlaced DEF IInv
  <2> QED
    BY <1>4, <2>1, RowsStayClosed DEF Done, Ends, IncDone, ResDone
<1>5. CASE Settle \/ (\E s \in Sides : Trigger(s) \/ EndTrigger(s))
  <2>1. matcher.pc \in MatchSteps \ {"fill"}
    BY <1>5 DEF Settle, Trigger, EndTrigger, TriggerStep, MatchSteps
  <2>2. matcher.inc \in Orders /\ matcher.res \in Orders
    BY <1>1, <2>1, PartiesPlaced DEF IInv
  <2>3. /\ matcher'.inc = matcher.inc /\ matcher'.res = matcher.res
        /\ matcher'.incSt = matcher.incSt /\ matcher'.resSt = matcher.resSt
    BY <1>1, <1>5, SettleKeeps
  <2>4. saved[matcher.inc].closed => saved'[matcher.inc].closed
    BY <2>2, RowsStayClosed
  <2>5. saved[matcher.res].closed => saved'[matcher.res].closed
    BY <2>2, RowsStayClosed
  <2> QED
    BY <2>1, <2>3, <2>4, <2>5 DEF Done, Ends, IncDone, ResDone
<1>6. ASSUME NEW o \in Orders, \/ Place(o) \/ Adding(o) \/ CancelOrder(o) \/ CancelOrderFails(o)
                               \/ LoadOld(o)
      PROVE  UNCHANGED matcher
  BY <1>6 DEF Place, Adding, TriggerOnArrival, StayDormant, Park, SaveTrigger,
              CancelOrder, CancelOrderFails, LoadOld
<1>7. ASSUME NEW c \in cancelling, CancelInBook(c) PROVE UNCHANGED matcher
  BY <1>7 DEF CancelInBook
<1>8. ASSUME NEW i, NEW q, Seeking(i, q), StartMatch(i, q) \/ PutInQueue(i, q)
      PROVE  matcher'.pc \notin MatchSteps \ {"fill"}
  BY <1>8, StartMatchPool, PutInQueuePool DEF MatchSteps
<1>9. ASSUME \/ SeekAgain \/ ClearNext \/ Finish \/ FinishClearing \/ StartClearing \/ Restart
             \/ \E o \in Orders : Receive(o)
      PROVE  matcher'.pc \notin MatchSteps \ {"fill"}
  <2>1. CASE SeekAgain \/ \E o \in Orders : Receive(o)
    BY <1>8, <2>1, SeekAgainSeeks, ReceiveSeeks
  <2>2. CASE Finish \/ FinishClearing
    BY <2>2, FinishPool DEF MatchSteps
  <2>3. CASE StartClearing \/ Restart
    <3>1. matcher'.pc \in {"clear", "load"}
      BY <2>3 DEF StartClearing, Restart, At
    <3> QED
      BY <3>1 DEF MatchSteps
  <2>4. CASE ClearNext /\ queue["bid"] = {}
    <3>1. matcher'.pc = "idle"
      BY <2>4 DEF ClearNext, At
    <3> QED
      BY <3>1 DEF MatchSteps
  <2>5. CASE ClearNext /\ queue["bid"] # {}
    BY <1>8, <2>5, ClearNextSeeks
  <2> QED
    BY <1>9, <2>1, <2>2, <2>3, <2>4, <2>5
<1>10. UNCHANGED vars => UNCHANGED matcher
  BY DEF vars
<1> QED
  BY <1>2, <1>3, <1>4, <1>5, <1>6, <1>7, <1>9, <1>10, NothingPushed DEF Next, Matching, Startup

\* Looking for a match moves orders between the hand, the queues and those popped.
LEMMA SeekingKeeps ==
  ASSUME IInv, NEW i, NEW q, Seeking(i, q), StartMatch(i, q) \/ PutInQueue(i, q),
         Queued \subseteq q["ask"] \cup q["bid"] \cup {i}, InHand \subseteq {i}
  PROVE  Known \subseteq Known'
<1>1. TypeOK /\ InMatch
  BY DEF IInv
<1>2. i \in Orders /\ q \in [Sides -> SUBSET Orders] /\ Side(i) \in Sides /\ Other(Side(i)) \in Sides
  BY <1>1, TicketParts DEF Seeking, Other
<1>3. matcher.held = {} /\ unloaded = {}
  BY <1>1 DEF InMatch, Seeking, MatchSteps
<1>4. BeingAdded \subseteq BeingAdded' \cup {i}
  BY DEF Seeking, BeingAdded
<1>5. q["ask"] \cup q["bid"] \cup {i} \subseteq Known'
  <2>1. CASE StartMatch(i, q)
    <3>1. PICK r, h :
             /\ r \in Orders /\ matcher'.inc = i /\ matcher'.res = r /\ matcher'.held = h
             /\ h \subseteq q[Other(Side(i))]
             /\ queue' = [q EXCEPT ![Other(Side(i))] = @ \ h]
      BY <1>1, <2>1, StartMatchHeads
    <3>2. matcher'.pc = "fill"
      BY <2>1, StartMatchPool
    <3>3. \A s \in Sides : q[s] \subseteq queue'[s] \cup h
      BY <1>2, <3>1
    <3>4. q["ask"] \cup q["bid"] \subseteq Queued' \cup h
      BY <3>3 DEF Queued
    <3>5. InHand' = {i}
      BY <3>1, <3>2 DEF InHand
    <3> QED
      BY <3>1, <3>4, <3>5 DEF Known
  <2>2. CASE PutInQueue(i, q)
    <3>1. queue' = [q EXCEPT ![Side(i)] = @ \cup {i}]
      BY <2>2 DEF PutInQueue
    <3>2. q["ask"] \cup q["bid"] \cup {i} \subseteq Queued'
      BY <1>2, <3>1 DEF Queued
    <3> QED
      BY <3>2 DEF Known
  <2> QED
    BY <2>1, <2>2
<1>6. BeingAdded' \subseteq Known'
  BY DEF Known
<1> QED
  BY <1>3, <1>4, <1>5, <1>6 DEF Known

\* The end of a match loses only the orders that it closed.
LEMMA FinishKeeps ==
  ASSUME IInv, Heads, Done, Ends, Finish \/ FinishClearing, FinishClearing => matcher.held = {}
  PROVE  \A o \in Known : o \in Known' \/ saved[o].closed
<1> DEFINE i == matcher.inc
           r == matcher.res
           s == Other(Side(i))
<1>1. TypeOK /\ Places /\ InMatch /\ matcher.pc = "finish" /\ matcher.pc \in MatchSteps \ {"fill"}
  BY DEF IInv, Finish, FinishClearing, MatchSteps
<1>2. i \in Orders /\ s \in Sides /\ queue \in [Sides -> SUBSET Orders]
  BY <1>1, PartiesPlaced, TicketParts DEF TypeOK, Other
<1>3. r \in queue[s] /\ r \in Tops(queue[s])
  BY <1>1 DEF InMatch, Heads, Tops
<1>4. /\ IncDone => saved[i].closed
      /\ ResDone => saved[r].closed
      /\ IncDone \/ ResDone
  BY <1>1 DEF Done, Ends
<1>5. /\ UNCHANGED <<stage, unloaded, saved>>
      /\ ~IncDone /\ ResDone => matcher' = [At("seek") EXCEPT !.inc = i]
  BY DEF Finish, FinishClearing
<1>6. BeingAdded' = BeingAdded /\ unloaded' = unloaded
  BY <1>5 DEF BeingAdded
<1>7. InHand = {i}
  BY <1>1 DEF InHand
<1>8. i \in InHand' \/ saved[i].closed
  <2>1. CASE ~IncDone
    <3>1. matcher'.pc = "seek" /\ matcher'.inc = i
      BY <1>4, <1>5, <2>1 DEF At
    <3> QED
      BY <3>1 DEF InHand
  <2>2. CASE IncDone
    BY <1>4, <2>2
  <2> QED
    BY <2>1, <2>2
<1> HIDE DEF i, r, s
<1>9. queue' = [queue EXCEPT ![s] = (IF ResDone THEN @ \ {r} ELSE @) \cup matcher.held]
  <2>1. CASE Finish
    <3>1. Popped(queue[s], r) = {r}
      BY <1>3 DEF Popped
    <3> QED
      BY <2>1, <3>1 DEF Finish, i, r, s
  <2>2. CASE FinishClearing
    <3>1. s = "ask"
      BY <1>1, <2>2 DEF InMatch, FinishClearing, MatchSteps, Other, s, i
    <3>2. matcher.held = {} /\ queue["ask"] \cup matcher.held = queue[s]
      BY <2>2, <3>1
    <3>3. Popped(queue[s], r) = {r}
      BY <1>3 DEF Popped
    <3>4. queue' = [queue EXCEPT !["ask"] = IF ResDone THEN queue[s] \ {r} ELSE queue[s]]
      BY <2>2, <3>2, <3>3 DEF FinishClearing, r
    <3> QED
      BY <1>2, <3>1, <3>2, <3>4
  <2> QED
    BY <2>1, <2>2
<1>10. \A o \in Queued : o \in Queued' \/ saved[o].closed
  <2>1. \A v \in Sides : \A o \in queue[v] : o \in queue'[v] \/ saved[o].closed
    BY <1>2, <1>4, <1>9
  <2> QED
    BY <2>1 DEF Queued
<1>11. matcher.held \subseteq Queued'
  <2>1. matcher.held \subseteq queue'[s]
    BY <1>2, <1>9
  <2> QED
    BY <1>2, <2>1 DEF Queued
<1> QED
  BY <1>6, <1>7, <1>8, <1>10, <1>11 DEF Known

\* No step but a restart takes an order out of the engine's sight, unless it closed it.
LEMMA KnownStep ==
  ASSUME IInv, NoStopOrders, WakesStopLoss, Heads, Done, [Next]_vars, ~Restart,
         Finish \/ FinishClearing => Ends, FinishClearing => matcher.held = {}
  PROVE  \A o \in Known : o \in Known' \/ saved[o].closed
<1>1. TypeOK /\ Places /\ InMatch
  BY DEF IInv
<1> DEFINE Same == UNCHANGED <<queue, matcher, unloaded>> /\ BeingAdded \subseteq BeingAdded'
<1>2. ASSUME Same PROVE Known \subseteq Known'
  <2>1. Queued' = Queued /\ InHand' = InHand
    BY <1>2 DEF Queued, InHand
  <2> QED
    BY <1>2, <2>1 DEF Known
<1>3. ASSUME NEW o \in Orders, Place(o) PROVE Same
  BY <1>1, <1>3 DEF Place, BeingAdded, TypeOK
<1>4. ASSUME NEW o \in Orders, Adding(o) PROVE FALSE
  BY <1>4, NoOrderChanges DEF Adding, TriggerOnArrival, StayDormant, Park, SaveTrigger
<1>5. ASSUME NEW o \in Orders, CancelOrder(o) \/ CancelOrderFails(o) PROVE Same
  BY <1>5 DEF CancelOrder, CancelOrderFails, BeingAdded
<1>6. ASSUME NEW c \in cancelling, CancelInBook(c) PROVE Same
  BY <1>6 DEF CancelInBook, BeingAdded
<1>7. ASSUME FillFindsClosed \/ FillDropsBid \/ FillFails \/ FillTrades
      PROVE  Known \subseteq Known'
  <2>1. UNCHANGED <<queue, unloaded, stage>> /\ matcher.pc = "fill"
        /\ \E i, r, t, n : FillReturns(i, r, t, n)
    BY <1>7 DEF FillFindsClosed, FillDropsBid, FillFails, FillTrades
  <2>2. matcher'.inc = matcher.inc /\ matcher'.held = matcher.held /\ matcher'.pc = "settle"
    BY <1>1, <2>1, FillKeepsPool
  <2>3. InHand' = InHand
    BY <2>1, <2>2 DEF InHand
  <2> QED
    BY <2>1, <2>2, <2>3 DEF Known, Queued, BeingAdded
<1>8. ASSUME Settle \/ (\E s \in Sides : Trigger(s) \/ EndTrigger(s)) PROVE Known \subseteq Known'
  <2>1. UNCHANGED <<unloaded, stage>> /\ matcher.pc \in {"settle", "trigger ask", "trigger bid"}
    BY <1>8 DEF Settle, Trigger, EndTrigger, TriggerStep
  <2>2. /\ matcher'.inc = matcher.inc /\ matcher'.held = matcher.held /\ UNCHANGED queue
        /\ matcher'.pc \in MatchSteps
    BY <1>1, <1>8, SettleKeeps
  <2>3. InHand' = InHand
    BY <2>1, <2>2 DEF InHand, MatchSteps
  <2> QED
    BY <2>1, <2>2, <2>3 DEF Known, Queued, BeingAdded
<1>9. ASSUME NEW o \in Orders, Receive(o) PROVE Known \subseteq Known'
  <2>1. InHand = {}
    BY <1>9 DEF Receive, InHand
  <2>2. Queued \subseteq queue["ask"] \cup queue["bid"] \cup {o}
    BY DEF Queued
  <2> QED
    BY <1>9, <2>1, <2>2, ReceiveSeeks, SeekingKeeps
<1>10. ASSUME SeekAgain PROVE Known \subseteq Known'
  <2>1. InHand \subseteq {matcher.inc}
    BY DEF InHand
  <2>2. Queued \subseteq queue["ask"] \cup queue["bid"] \cup {matcher.inc}
    BY DEF Queued
  <2> QED
    BY <1>10, <2>1, <2>2, SeekAgainSeeks, SeekingKeeps
<1>11. ASSUME ClearNext PROVE Known \subseteq Known'
  <2>1. matcher.pc = "clear" /\ InHand = {} /\ matcher.held = {} /\ UNCHANGED <<unloaded, stage>>
    BY <1>1, <1>11 DEF ClearNext, InHand, InMatch, MatchSteps
  <2>2. CASE queue["bid"] = {}
    <3>1. UNCHANGED queue
      BY <1>11, <2>2 DEF ClearNext
    <3> QED
      BY <2>1, <3>1 DEF Known, Queued, BeingAdded
  <2>3. CASE queue["bid"] # {}
    <3>1. PICK b \in Tops(queue["bid"]) :
            Seeking(b, Rest(b)) /\ (StartMatch(b, Rest(b)) \/ PutInQueue(b, Rest(b)))
      BY <1>11, <2>3, ClearNextSeeks
    <3>2. Queued \subseteq Rest(b)["ask"] \cup Rest(b)["bid"] \cup {b}
      BY <1>1 DEF Queued, Rest, TypeOK
    <3> QED
      BY <2>1, <3>1, <3>2, SeekingKeeps
  <2> QED
    BY <2>2, <2>3
<1>12. ASSUME NEW o \in Orders, LoadOld(o) PROVE Known \subseteq Known'
  <2>1. /\ matcher.pc = "load" /\ InHand = {} /\ InHand' = {} /\ matcher' = matcher /\ stage' = stage
        /\ unloaded' = unloaded \ {o}
        /\ queue' = [queue EXCEPT ![Side(o)] = @ \cup {o}]
    BY <1>12, NoOrderChanges DEF LoadOld, InHand
  <2>2. Side(o) \in Sides /\ queue \in [Sides -> SUBSET Orders]
    BY <1>1, TicketParts DEF TypeOK
  <2>3. Queued' = Queued \cup {o}
    BY <2>1, <2>2 DEF Queued
  <2> QED
    BY <2>1, <2>3 DEF Known, BeingAdded
<1>13. ASSUME StartClearing PROVE Known \subseteq Known'
  <2>1. /\ InHand = {} /\ matcher.held = {} /\ UNCHANGED <<queue, unloaded, stage>>
    BY <1>1, <1>13 DEF StartClearing, InHand, InMatch, MatchSteps
  <2> QED
    BY <2>1 DEF Known, Queued, BeingAdded
<1>14. UNCHANGED vars => Same
  BY DEF vars, BeingAdded
<1> HIDE DEF Same
<1>15. \/ Known \subseteq Known' \/ Finish \/ FinishClearing
  BY <1>2, <1>3, <1>4, <1>5, <1>6, <1>7, <1>8, <1>9, <1>10, <1>11, <1>12, <1>13, <1>14, NothingPushed
  DEF Next, Matching, Startup
<1> QED
  BY <1>15, FinishKeeps

\* ... so every open order stays in sight.
LEMMA KeptStep ==
  ASSUME IInv, NoStopOrders, WakesStopLoss, CopiesAgree, Heads, Done, Kept, [Next]_vars, ~Restart,
         Finish \/ FinishClearing => Ends, FinishClearing => matcher.held = {}
  PROVE  Kept'
<1>1. ASSUME NEW o \in Orders, Place(o) PROVE Kept'
  <2>1. TypeOK
    BY DEF IInv
  <2>2. /\ placed' = o /\ o = placed + 1 /\ UNCHANGED <<saved, mem>>
        /\ stage' = [stage EXCEPT ![o] = IF mem[o].kind = "StopLoss" THEN "check" ELSE "send"]
    BY <1>1 DEF Place
  <2>3. o \in BeingAdded'
    BY <2>1, <2>2 DEF BeingAdded, TypeOK
  <2>4. OpenInDatabase' \subseteq OpenInDatabase \cup {o}
    <3>1. placed \in Int
      BY <2>1, BoundsAssumption DEF TypeOK
    <3>2. \A x \in 1 .. placed' : x \in 1 .. placed \/ x = o
      BY <2>2, <3>1
    <3> QED
      BY <2>2, <3>2 DEF OpenInDatabase
  <2>5. \A x \in OpenInDatabase : x \in Known'
    BY KnownStep DEF Kept, OpenInDatabase
  <2> QED
    BY <2>3, <2>4, <2>5 DEF Kept, Known
<1>2. CASE \A o \in Orders : ~Place(o)
  <2>1. OpenInDatabase' \subseteq OpenInDatabase /\ \A o \in OpenInDatabase' : ~saved'[o].closed
    BY <1>2, OpenBefore DEF OpenInDatabase
  <2>2. \A o \in OpenInDatabase : ~saved[o].closed
    BY DEF OpenInDatabase
  <2> QED
    BY <2>1, <2>2, KnownStep DEF Kept
<1> QED
  BY <1>1, <1>2

\* A restart finds every open row.
LEMMA RestartKept == Restart => Kept' /\ CopiesAgree' /\ Done' /\ Ends' /\ ~serving'
<1> SUFFICES ASSUME Restart PROVE Kept' /\ CopiesAgree' /\ Done' /\ Ends' /\ ~serving'
  OBVIOUS
<1>1. /\ unloaded' = OpenInDatabase /\ mem' = saved /\ UNCHANGED <<saved, placed>>
      /\ matcher' = At("load") /\ serving' = FALSE
  BY DEF Restart
<1>2. matcher'.pc = "load"
  BY <1>1 DEF At
<1>3. OpenInDatabase' = OpenInDatabase
  BY <1>1 DEF OpenInDatabase
<1>4. Kept'
  BY <1>1, <1>3 DEF Kept, Known
<1> QED
  BY <1>1, <1>2, <1>4 DEF CopiesAgree, Done, Ends, MatchSteps

\* Nobody has own orders to skip when every user is on one side of the book.
LEMMA NothingSkipped ==
  ASSUME IInv, OneSided, Heads
  PROVE  matcher.held = {}
<1>1. TypeOK /\ InMatch
  BY DEF IInv
<1>2. CASE matcher.pc \in MatchSteps
  <2> SUFFICES ASSUME NEW o \in matcher.held PROVE FALSE
    OBVIOUS
  <2>1. User(o) = User(matcher.inc) /\ Side(o) = Other(Side(matcher.inc))
    BY <1>1, <1>2 DEF Heads, InMatch
  <2>2. o \in Orders /\ matcher.inc \in Orders
    BY <1>1, <1>2, PartiesPlaced, HeldPlaced DEF IInv
  <2>3. ticket[o] \in Tickets /\ ticket[matcher.inc] \in Tickets
    BY <1>1, <2>2 DEF TypeOK
  <2>4. Side(o) = Side(matcher.inc)
    BY <2>1, <2>3 DEF OneSided, Side, User
  <2> QED
    BY <1>1, <2>1, <2>2, <2>4, TicketParts DEF Other
<1>3. CASE matcher.pc \notin MatchSteps
  BY <1>1, <1>3 DEF InMatch
<1> QED
  BY <1>2, <1>3

\* The book of a market without stop-loss orders in which no error happens, and which
\* either does not crash or has every user on one side.
Orderly == NoErrors /\ NoStopOrders /\ (NoCrash \/ OneSided)

KeptInv ==
  /\ WakesStopLoss /\ Heads /\ Agreed /\ Done /\ Ends /\ Kept
  /\ NoCrash => Serves

LEMMA KeptInvInit == Init => KeptInv
<1> SUFFICES ASSUME Init PROVE KeptInv
  OBVIOUS
<1>1. matcher.pc = "idle" /\ placed = 0 /\ serving = TRUE
  BY DEF Init, At
<1>2. 1 .. placed = {}
  BY <1>1
<1> QED
  BY <1>1, <1>2, AgreedInit
  DEF KeptInv, WakesStopLoss, Heads, Done, Ends, Kept, OpenInDatabase, Serves, MatchSteps

LEMMA KeptInvStep ==
  ASSUME IInv, IInv', Orderly, KeptInv, [Next]_vars
  PROVE  KeptInv'
<1>1. TypeOK /\ NoErrors /\ NoStopOrders /\ Calm /\ CopiesAgree
  <2>1. NoErrors /\ NoStopOrders /\ TypeOK
    BY DEF IInv, Orderly
  <2>2. Calm
    BY <2>1 DEF Calm, NoStopOrders
  <2>3. CopiesAgree
    BY DEF KeptInv, Agreed, CopiesAgree
  <2> QED
    BY <2>1, <2>2, <2>3
<1>2. ~FillFails
  BY <1>1, NoFaults DEF FillFails
<1>3. WakesStopLoss' /\ Heads' /\ Agreed' /\ Done' /\ Ends'
  BY <1>1, <1>2, WakesStopLossStep, HeadsStep, AgreedStep, DoneStep DEF KeptInv
<1>4. Kept'
  <2>1. CASE Restart
    BY <2>1, RestartKept
  <2>2. CASE ~Restart
    <3>1. FinishClearing => matcher.held = {}
      <4>1. NoCrash => ~FinishClearing
        BY DEF KeptInv, Serves, FinishClearing
      <4>2. OneSided => matcher.held = {}
        BY NothingSkipped DEF KeptInv
      <4> QED
        BY <4>1, <4>2 DEF Orderly
    <3> QED
      BY <1>1, <2>2, <3>1, KeptStep DEF KeptInv
  <2> QED
    BY <2>1, <2>2
<1>5. NoCrash => Serves'
  BY ServesStep, NoRestart DEF KeptInv
<1> QED
  BY <1>3, <1>4, <1>5 DEF KeptInv

\* What is known, open and not in a hand is in a queue, asleep or on its way in.
LEMMA KeptLosesNothing ==
  ASSUME IInv, Kept
  PROVE  NothingLost
<1> SUFFICES ASSUME Idle PROVE OpenInDatabase \subseteq Queued \cup Dormant \cup BeingAdded
  BY DEF NothingLost
<1>1. matcher.held = {} /\ unloaded = {} /\ InHand = {}
  BY DEF IInv, InMatch, Places, Idle, MatchSteps, InHand
<1> QED
  BY <1>1 DEF Kept, Known

\* Whatever is cancelled meanwhile, popping, skipping, pushing back and startups lose no
\* order that is open in the database. (With stop-loss orders the code loses one:
\* OrderBookLost.cfg. On an error the order in hand is dropped. A startup pops before it
\* pushes own orders back, so it may pop one of those.)
THEOREM NoOrderLost == Orderly => (Spec => []NothingLost)
<1> SUFFICES ASSUME Orderly PROVE Spec => []NothingLost
  OBVIOUS
<1>1. Init => KeptInv
  BY KeptInvInit
<1>2. IInv /\ IInv' /\ KeptInv /\ [Next]_vars => KeptInv'
  BY KeptInvStep
<1>3. IInv /\ KeptInv => NothingLost
  BY KeptLosesNothing DEF KeptInv
<1> QED
  BY <1>1, <1>2, <1>3, Invariant, PTL DEF Spec

------------------------------------------------------------------------------
(* The best price first *)

\* An order that is open in the database and was added before is in the queue, behind
\* the one that is traded.
LEMMA BestTraded ==
  ASSUME IInv, Orderly, KeptInv, [Next]_vars, serving, filled' # filled,
         NEW o \in 1 .. placed, Side(o) = Side(matcher.res), User(o) # User(matcher.inc),
         ~saved[o].closed, stage[o] = "added", mem[o].kind # "StopLoss"
  PROVE  /\ IsMarket(o) /\ IsMarket(matcher.res) => at[matcher.res] <= at[o]
         /\ ~IsMarket(matcher.res) => ~IsMarket(o) /\ ~Cheaper(o, matcher.res)
<1>1. TypeOK /\ Places /\ InMatch /\ KindsOK /\ NoErrors
  BY DEF IInv, Orderly
<1>2. FillTrades
  <2>1. ~FillTrades => UNCHANGED filled
    BY <1>1, CalmSteps, WakeFacts, SaveFacts, CancelFacts, DropFacts, RestartFacts DEF Place, Quiet
  <2> QED
    BY <2>1
<1>3. matcher.pc = "fill" /\ matcher.pc \in MatchSteps
  BY <1>2 DEF FillTrades, MatchSteps
<1> DEFINE i == matcher.inc
           r == matcher.res
           s == Other(Side(i))
<1>4. o \in Orders
  BY <1>1, BoundsAssumption DEF TypeOK
<1>5. i \in Orders /\ r \in Orders /\ Side(r) = s /\ Side(i) \in Sides /\ s \in Sides
  BY <1>1, <1>3, PartiesPlaced, TicketParts DEF Other
<1>6. o \in Known
  BY <1>4 DEF KeptInv, Kept, OpenInDatabase
<1>7. unloaded = {} /\ InHand = {i}
  BY <1>1, <1>3 DEF Places, InHand
<1>8. o \notin InHand
  BY <1>5, <1>7 DEF Other
<1>9. o \notin matcher.held
  BY <1>3 DEF KeptInv, Heads
<1>10. o \notin BeingAdded
  BY DEF BeingAdded
<1>11. o \in queue[s]
  <2>1. \A v \in Sides : o \in queue[v] => v = s
    BY <1>1, <1>5 DEF Places
  <2> QED
    BY <1>6, <1>7, <1>8, <1>9, <1>10, <2>1 DEF Known, Queued
<1>12. ~Better(o, r)
  BY <1>3, <1>11 DEF KeptInv, Heads
<1>13. at[o] \in Nat /\ at[r] \in Nat
  BY <1>1, <1>4, <1>5 DEF TypeOK
<1> QED
  BY <1>12, <1>13 DEF Better

\* An incoming order trades with the best order of another user there is, whatever was
\* skipped, pushed back, filled in part and cancelled before.
THEOREM BestPriceFirst == Orderly => (Spec => Priority)
<1> SUFFICES ASSUME Orderly PROVE Spec => Priority
  OBVIOUS
<1>1. Init => KeptInv
  BY KeptInvInit
<1>2. IInv /\ IInv' /\ KeptInv /\ [Next]_vars => KeptInv'
  BY KeptInvStep
<1>3. IInv /\ KeptInv /\ [Next]_vars
      => [serving /\ filled' # filled =>
           LET i == matcher.inc  r == matcher.res
           IN \A o \in 1 .. placed :
                /\ Side(o) = Side(r) /\ User(o) # User(i)
                /\ ~saved[o].closed /\ stage[o] = "added" /\ mem[o].kind # "StopLoss"
                => /\ IsMarket(o) /\ IsMarket(r) => at[r] <= at[o]
                   /\ ~IsMarket(r) => ~IsMarket(o) /\ ~Cheaper(o, r)]_vars
  BY BestTraded
<1> QED
  BY <1>1, <1>2, <1>3, Invariant, PTL DEF Spec, Priority

------------------------------------------------------------------------------
(* A startup repairs the book *)

\* While the old bids are cleared, none that is left comes before the one in hand.
BidsBehind ==
  matcher.pc \in MatchSteps \cup {"seek"} => \A y \in queue["bid"] : ~Better(y, matcher.inc)

\* What holds before the server serves, whatever happened before it crashed.
RepairInv ==
  /\ WakesStopLoss /\ Heads
  /\ ~serving => CopiesAgree /\ Done /\ Kept /\ BidsBehind

\* Before the server serves nothing is placed or cancelled.
LEMMA NotServing ==
  ASSUME IInv, NoStopOrders, WakesStopLoss, ~serving, [Next]_vars
  PROVE  \/ Restart \/ Startup \/ SeekAgain
         \/ FillFindsClosed \/ FillDropsBid \/ FillFails \/ FillTrades
         \/ Settle \/ (\E s \in Sides : Trigger(s) \/ EndTrigger(s))
         \/ \E c \in cancelling : CancelInBook(c)
         \/ UNCHANGED vars
<1>1. ASSUME NEW o \in Orders PROVE ~Adding(o)
  BY NoOrderChanges DEF Adding, TriggerOnArrival, StayDormant, Park, SaveTrigger
<1>2. ASSUME NEW o \in Orders
      PROVE  ~Place(o) /\ ~Receive(o) /\ ~CancelOrder(o) /\ ~CancelOrderFails(o)
  BY DEF Place, Receive, CancelOrder, CancelOrderFails, MayCancel
<1>3. ~Finish
  BY DEF Finish
<1> QED
  BY <1>1, <1>2, <1>3, NothingPushed DEF Next, Matching

\* The objects and the rows agree until then.
LEMMA CopiesAgreeStep ==
  ASSUME IInv, NoStopOrders, WakesStopLoss, ~serving, CopiesAgree, [Next]_vars
  PROVE  CopiesAgree'
<1>1. UNCHANGED <<mem, saved>> => CopiesAgree'
  BY DEF CopiesAgree
<1>2. ASSUME \/ Startup \/ SeekAgain \/ FillFindsClosed \/ FillFails \/ Settle \/ UNCHANGED vars
             \/ \E s \in Sides : EndTrigger(s)
             \/ \E c \in cancelling : CancelInBook(c)
      PROVE  UNCHANGED <<mem, saved>>
  BY <1>2 DEF Startup, LoadOld, StartClearing, ClearNext, FinishClearing, SeekAgain,
     FillFindsClosed, FillFails, Settle, EndTrigger, CancelInBook, vars
<1>3. Restart => CopiesAgree'
  BY RestartKept
<1>4. FillDropsBid => CopiesAgree'
  BY DropFacts DEF CopiesAgree
<1>5. ASSUME FillTrades PROVE CopiesAgree'
  <2>1. /\ \A x \in Orders \ {MatchedAsk, MatchedBid} :
             saved'[x] = saved[x] /\ mem'[x].closed = mem[x].closed
        /\ \A x \in Orders \cap {MatchedAsk, MatchedBid} : saved'[x] = mem'[x]
    BY <1>5, TradeFacts
  <2> QED
    BY <2>1 DEF CopiesAgree
<1>6. ASSUME NEW s \in Sides, Trigger(s) PROVE CopiesAgree'
  BY <1>6, WakeFacts DEF CopiesAgree
<1> QED
  BY <1>1, <1>2, <1>3, <1>4, <1>5, <1>6, NotServing

\* clearExistingOrders takes the best bid first.
LEMMA BidsBehindStep ==
  ASSUME IInv, IInv', NoStopOrders, WakesStopLoss, BidsBehind, ~serving, ~serving', [Next]_vars
  PROVE  BidsBehind'
<1>1. TypeOK /\ InMatch /\ matcher \in MatcherType
  BY DEF IInv, TypeOK, MatcherType
<1> SUFFICES ASSUME matcher'.pc \in MatchSteps \cup {"seek"} PROVE BidsBehind'
  BY DEF BidsBehind
<1>2. ~Restart
  <2>1. Restart => matcher'.pc = "load"
    BY DEF Restart, At
  <2> QED
    BY <2>1 DEF MatchSteps
<1>3. UNCHANGED <<ticket, at>>
  BY <1>2, ClosedStays
<1>4. \A x, y \in Orders : Better(x, y)' <=> Better(x, y)
  BY <1>3, SameOrder
<1>5. queue["bid"] \subseteq Orders
  BY <1>1 DEF TypeOK
<1>6. ASSUME NEW i \in Orders, matcher'.inc = i, queue'["bid"] \subseteq queue["bid"],
             \A y \in queue["bid"] : ~Better(y, i)
      PROVE  BidsBehind'
  <2>1. \A y \in queue'["bid"] : ~Better(y, i)'
    BY <1>4, <1>5, <1>6
  <2> QED
    BY <1>6, <2>1 DEF BidsBehind
<1>7. ASSUME matcher.pc \in MatchSteps \cup {"seek"}, matcher'.inc = matcher.inc,
             queue'["bid"] \subseteq queue["bid"]
      PROVE  BidsBehind'
  <2>1. PICK i \in Orders : i = matcher.inc
    BY <1>1, <1>7 DEF InMatch
  <2>2. \A y \in queue["bid"] : ~Better(y, i)
    BY <1>7, <2>1 DEF BidsBehind
  <2> QED
    BY <1>6, <1>7, <2>1, <2>2
<1>8. CASE matcher'.pc \in MatchSteps
  <2>1. CASE SameParties
    BY <1>7, <2>1 DEF SameParties
  <2>2. ASSUME NEW i \in Orders, NEW q \in [Sides -> SUBSET Orders],
               Seeking(i, q), StartMatch(i, q),
               \/ i = matcher.inc /\ q = queue /\ matcher.pc = "seek"
               \/ i \in Tops(queue["bid"]) /\ q = Rest(i)
        PROVE  BidsBehind'
    <3>1. PICK r, h :
             /\ r \in Orders /\ matcher'.inc = i /\ matcher'.res = r /\ matcher'.held = h
             /\ queue' = [q EXCEPT ![Other(Side(i))] = @ \ h]
      BY <1>1, <2>2, StartMatchHeads
    <3>2. Other(Side(i)) \in Sides
      BY <1>1, TicketParts DEF Other
    <3>3. queue'["bid"] \subseteq q["bid"] /\ q["bid"] \subseteq queue["bid"]
      BY <2>2, <3>1, <3>2 DEF Seeking
    <3>4. CASE i = matcher.inc /\ matcher.pc = "seek"
      BY <1>7, <3>1, <3>3, <3>4
    <3>5. CASE i \in Tops(queue["bid"])
      BY <1>6, <3>1, <3>3, <3>5 DEF Tops
    <3> QED
      BY <2>2, <3>4, <3>5
  <2> QED
    BY <1>8, <2>1, <2>2, MatchGoesOn, NothingPushed
<1>9. CASE matcher'.pc = "seek"
  <2>1. ASSUME FinishClearing PROVE BidsBehind'
    <3>1. queue'["bid"] = queue["bid"] /\ matcher.pc = "finish"
      BY <1>1, <2>1 DEF FinishClearing, TypeOK
    <3>2. matcher'.inc = matcher.inc
      BY <1>9, <2>1 DEF FinishClearing, At
    <3> QED
      BY <1>7, <3>1, <3>2 DEF MatchSteps
  <2>2. ASSUME UNCHANGED <<queue, matcher>> PROVE BidsBehind'
    BY <1>7, <1>9, <2>2
  <2>3. ASSUME \/ SeekAgain \/ ClearNext \/ StartClearing
               \/ FillFindsClosed \/ FillDropsBid \/ FillFails \/ FillTrades
               \/ Settle \/ \E s \in Sides : Trigger(s) \/ EndTrigger(s)
        PROVE  FALSE
    <3>1. ASSUME NEW i, NEW q, Seeking(i, q), StartMatch(i, q) \/ PutInQueue(i, q) PROVE FALSE
      BY <1>9, <3>1, StartMatchPool, PutInQueuePool
    <3>2. CASE SeekAgain
      BY <3>1, <3>2, SeekAgainSeeks
    <3>3. CASE ClearNext
      <4>1. CASE queue["bid"] = {}
        BY <1>9, <3>3, <4>1 DEF ClearNext, At
      <4>2. CASE queue["bid"] # {}
        BY <3>1, <3>3, <4>2, ClearNextSeeks
      <4> QED
        BY <4>1, <4>2
    <3>4. CASE StartClearing
      BY <1>9, <3>4 DEF StartClearing, At
    <3>5. CASE FillFindsClosed \/ FillDropsBid \/ FillFails \/ FillTrades
      <4>1. UNCHANGED queue /\ \E i, r, t, n : FillReturns(i, r, t, n)
        BY <3>5 DEF FillFindsClosed, FillDropsBid, FillFails, FillTrades
      <4> QED
        BY <1>1, <1>9, <4>1, FillKeepsPool
    <3>6. CASE Settle \/ \E s \in Sides : Trigger(s) \/ EndTrigger(s)
      BY <1>1, <1>9, <3>6, SettleKeeps DEF MatchSteps
    <3> QED
      BY <2>3, <3>2, <3>3, <3>4, <3>5, <3>6
  <2>4. ASSUME NEW o \in Orders, LoadOld(o) PROVE FALSE
    BY <1>9, <2>4 DEF LoadOld
  <2>5. ASSUME NEW c \in cancelling, CancelInBook(c) PROVE UNCHANGED <<queue, matcher>>
    BY <2>5 DEF CancelInBook
  <2>6. UNCHANGED vars => UNCHANGED <<queue, matcher>>
    BY DEF vars
  <2> QED
    BY <1>2, <2>1, <2>2, <2>3, <2>4, <2>5, <2>6, NotServing DEF Startup
<1> QED
  BY <1>8, <1>9

\* Only the end of clearExistingOrders begins to serve.
LEMMA ServingKept ==
  ASSUME \/ (\E o \in Orders : LoadOld(o)) \/ StartClearing
         \/ FillFindsClosed \/ FillDropsBid \/ FillFails \/ FillTrades
         \/ Settle \/ (\E s \in Sides : Trigger(s) \/ EndTrigger(s))
         \/ (\E c \in cancelling : CancelInBook(c)) \/ UNCHANGED vars
  PROVE  UNCHANGED serving
BY DEF LoadOld, StartClearing, FillFindsClosed, FillDropsBid, FillFails, FillTrades,
   Settle, Trigger, EndTrigger, CancelInBook, vars

\* ... and if it serves, it is not starting.
LEMMA ServingStep ==
  ASSUME IInv, NoStopOrders, WakesStopLoss, serving => Serves, [Next]_vars
  PROVE  /\ serving' => Serves'
         /\ serving /\ ~Restart => serving'
<1>1. CASE serving /\ ~Restart
  BY <1>1, ServesStep DEF Serves
<1>2. CASE Restart
  BY <1>2, RestartKept
<1>3. CASE ~serving /\ ~Restart
  <2> SUFFICES ASSUME serving' PROVE Serves'
    BY <1>3
  <2>1. ASSUME NEW i, NEW q, Seeking(i, q), StartMatch(i, q) \/ PutInQueue(i, q) PROVE Serves'
    BY <2>1, StartMatchPool, PutInQueuePool DEF Serves
  <2>2. CASE SeekAgain
    BY <2>1, <2>2, SeekAgainSeeks
  <2>3. CASE ClearNext
    <3>1. CASE queue["bid"] = {}
      BY <2>3, <3>1 DEF ClearNext, At, Serves
    <3>2. CASE queue["bid"] # {}
      BY <2>1, <2>3, <3>2, ClearNextSeeks
    <3> QED
      BY <3>1, <3>2
  <2>4. CASE FinishClearing
    <3>1. ~IncDone /\ ~ResDone
      BY <2>4 DEF FinishClearing
    <3>2. matcher' = At("idle")
      BY <2>4, <3>1 DEF FinishClearing
    <3> QED
      BY <3>2 DEF At, Serves
  <2> QED
    BY <1>3, <2>2, <2>3, <2>4, NotServing, ServingKept DEF Startup
<1> QED
  BY <1>1, <1>2, <1>3

\* Before the server serves, every open order is in sight.
LEMMA RepairKeeps ==
  ASSUME IInv, IInv', NoStopOrders, OneSided, RepairInv, ~serving, [Next]_vars, ~Restart,
         FinishClearing => IncDone \/ ResDone
  PROVE  Kept'
<1>1. Finish \/ FinishClearing => Ends
  BY DEF Finish, Ends
<1>2. matcher.held = {}
  BY NothingSkipped DEF RepairInv
<1> QED
  BY <1>1, <1>2, KeptStep DEF RepairInv

LEMMA RepairInvStep ==
  ASSUME IInv, IInv', NoStopOrders, OneSided, RepairInv, serving => Serves, [Next]_vars
  PROVE  RepairInv'
<1>1. WakesStopLoss' /\ Heads'
  BY WakesStopLossStep, HeadsStep DEF RepairInv
<1>2. ASSUME ~serving' PROVE CopiesAgree' /\ Done' /\ Kept' /\ BidsBehind'
  <2>1. CASE Restart
    <3>1. matcher'.pc = "load"
      BY <2>1 DEF Restart, At
    <3> QED
      BY <2>1, <3>1, RestartKept DEF BidsBehind, MatchSteps
  <2>2. CASE ~Restart
    <3>1. ~serving /\ CopiesAgree /\ Done /\ Kept /\ BidsBehind /\ WakesStopLoss
      BY <1>2, <2>2, ServingStep DEF RepairInv
    <3>2. FinishClearing => IncDone \/ ResDone
      BY <1>2 DEF FinishClearing
    <3> QED
      BY <1>2, <2>2, <3>1, <3>2, CopiesAgreeStep, DoneStep, RepairKeeps, BidsBehindStep
  <2> QED
    BY <2>1, <2>2
<1> QED
  BY <1>1, <1>2 DEF RepairInv

\* When the best bid matches no ask, no bid does.
LEMMA ClearedUncrossed ==
  ASSUME IInv, IInv', NoStopOrders, OneSided, NEW i \in Orders, NEW q \in [Sides -> SUBSET Orders],
         Seeking(i, q), PutInQueue(i, q), ~serving, \A y \in q["bid"] : ~Better(y, i)
  PROVE  Uncrossed'
<1>1. TypeOK /\ Places
  BY DEF IInv
<1>2. /\ Pool' = q["ask"] \cup q["bid"] \cup {i}
      /\ \A s \in Sides : q[s] \subseteq queue[s] \ {i}
      /\ UNCHANGED <<ticket, placed, mem>>
      /\ Side(i) = "bid"
  BY PutInQueuePool DEF Seeking
<1>3. \A s \in Sides : \A x \in q[s] : Side(x) = s
  BY <1>1, <1>2 DEF Places
<1>4. ASSUME NEW a \in q["ask"] PROVE ~WouldTrade(a, i)
  <2>1. a \in Orders /\ Side(a) = "ask"
    BY <1>3
  <2>2. ticket[a] \in Tickets /\ ticket[i] \in Tickets
    BY <1>1, <2>1 DEF TypeOK
  <2>3. User(a) # User(i)
    BY <1>2, <2>1, <2>2 DEF OneSided, User, Side
  <2>4. ticket[a].kind # "StopLoss" /\ ticket[i].kind # "StopLoss"
    BY <2>1, NoOrderChanges
  <2>5. a \in q[Other(Side(i))]
    BY <1>2 DEF Other
  <2> QED
    BY <1>2, <2>3, <2>4, <2>5, NoneMatches
<1>5. ASSUME NEW a \in q["ask"], NEW b \in q["bid"] PROVE ~WouldTrade(a, b)
  <2>1. a \in Orders /\ b \in Orders /\ Side(b) = "bid" /\ ~Better(b, i)
    BY <1>3
  <2>2. \A o \in {a, b, i} : ticket[o].price \in Nat
    BY <1>1, <2>1, TicketParts
  <2>3. \A o \in {b, i} : IsMarket(o) <=> ticket[o].kind = "Market"
    <3>1. \A o \in {b, i} : mem[o].kind = ticket[o].kind /\ ticket[o].kind # "StopLossActive"
      BY <1>1, <2>1, TicketParts, NoOrderChanges
    <3> QED
      BY <3>1 DEF IsMarket, IsMarketKind
  <2>4. ~WouldTrade(a, i)
    BY <1>4
  <2> QED
    BY <1>2, <2>1, <2>2, <2>3, <2>4 DEF Better, Cheaper, WouldTrade
<1> SUFFICES ASSUME NEW a \in Pool', NEW b \in Pool', Side(a) = "ask", Side(b) = "bid"
             PROVE  ~WouldTrade(a, b)
  BY <1>2 DEF Uncrossed, Side, User, Open, WouldTrade
<1>6. a \in q["ask"] /\ b \in q["bid"] \cup {i}
  BY <1>2, <1>3
<1> QED
  BY <1>4, <1>5, <1>6

\* Unless an error ended it, the startup leaves no two orders that would trade.
LEMMA RepairUncrosses ==
  ASSUME IInv, IInv', NoStopOrders, OneSided, RepairInv, ~serving, serving', [Next]_vars,
         matcher.pc # "finish"
  PROVE  Uncrossed'
<1>1. TypeOK /\ InMatch /\ BidsBehind /\ WakesStopLoss /\ ~Restart /\ ~FinishClearing
  BY RestartKept DEF IInv, RepairInv, FinishClearing
<1>2. SeekAgain \/ ClearNext
  BY <1>1, NotServing, ServingKept DEF Startup
<1>3. ASSUME NEW i, NEW q, Seeking(i, q), StartMatch(i, q) \/ PutInQueue(i, q),
             \A y \in q["bid"] : ~Better(y, i)
      PROVE  Uncrossed'
  <2>1. i \in Orders /\ q \in [Sides -> SUBSET Orders]
    BY <1>3 DEF Seeking
  <2>2. PutInQueue(i, q)
    BY <1>3, StartMatchPool
  <2> QED
    BY <1>3, <2>1, <2>2, ClearedUncrossed
<1>4. CASE SeekAgain
  <2>1. \A y \in queue["bid"] : ~Better(y, matcher.inc)
    BY <1>1, <1>4 DEF BidsBehind, SeekAgain
  <2> QED
    BY <1>3, <1>4, <2>1, SeekAgainSeeks
<1>5. CASE ClearNext /\ queue["bid"] # {}
  <2>1. PICK b \in Tops(queue["bid"]) :
          Seeking(b, Rest(b)) /\ (StartMatch(b, Rest(b)) \/ PutInQueue(b, Rest(b)))
    BY <1>5, ClearNextSeeks
  <2>2. Rest(b)["bid"] \subseteq queue["bid"]
    BY <1>1 DEF Rest, TypeOK
  <2>3. \A y \in Rest(b)["bid"] : ~Better(y, b)
    BY <2>1, <2>2 DEF Tops
  <2> QED
    BY <1>3, <2>1, <2>3
<1>6. CASE ClearNext /\ queue["bid"] = {}
  <2>1. UNCHANGED <<ticket, queue>> /\ matcher' = At("idle")
    BY <1>6 DEF ClearNext
  <2>2. Pool' = queue["ask"]
    BY <1>6, <2>1 DEF Pool, Queued, At
  <2>3. \A x \in Pool' : Side(x)' = "ask"
    BY <2>1, <2>2 DEF IInv, Places, Side
  <2> QED
    BY <2>3 DEF Uncrossed
<1> QED
  BY <1>2, <1>4, <1>5, <1>6

\* What is uncrossed is not crossed for isOrderMatching either.
LEMMA UncrossedIsNotCrossed ==
  ASSUME IInv, Uncrossed
  PROVE  NotCrossed
<1>1. TypeOK /\ KindsOK /\ Places
  BY DEF IInv
<1> SUFFICES ASSUME Idle, NEW a \in queue["ask"], NEW b \in queue["bid"],
                    Open(a), Open(b), User(a) # User(b),
                    ticket[a].kind # "StopLoss", ticket[b].kind # "StopLoss"
             PROVE  ~IsOrderMatching(a, b)
  BY DEF NotCrossed
<1>2. a \in Orders /\ b \in Orders /\ Side(a) = "ask" /\ Side(b) = "bid"
  BY <1>1 DEF Places, TypeOK
<1>3. a \in Pool /\ b \in Pool
  BY DEF Pool, Queued
<1>4. ~WouldTrade(a, b)
  BY <1>2, <1>3 DEF Uncrossed
<1> QED
  BY <1>1, <1>2, <1>4, TicketsDecide

\* What a startup has to do: it begins with nothing served and ends serving.
StartInv == RepairInv /\ (serving => Serves)

LEMMA StartInvInit == Init => StartInv
<1> SUFFICES ASSUME Init PROVE StartInv
  OBVIOUS
<1>1. matcher.pc = "idle" /\ serving = TRUE
  BY DEF Init, At
<1> QED
  BY <1>1 DEF StartInv, RepairInv, WakesStopLoss, Heads, Serves, MatchSteps

LEMMA StartInvStep ==
  ASSUME IInv, IInv', NoStopOrders, OneSided, StartInv, [Next]_vars
  PROVE  StartInv'
<1>1. WakesStopLoss
  BY DEF StartInv, RepairInv
<1> QED
  BY <1>1, RepairInvStep, ServingStep DEF StartInv

LEMMA StartEnds ==
  ASSUME IInv, IInv', NoStopOrders, OneSided, StartInv, [Next]_vars,
         ~serving, serving', matcher.pc # "finish"
  PROVE  Kept' /\ Uncrossed'
<1>1. ~Restart /\ ~FinishClearing
  BY RestartKept DEF FinishClearing
<1> QED
  BY <1>1, RepairKeeps, RepairUncrosses DEF StartInv

\* A startup that no error ends repairs whatever the crash and the errors before it left:
\* no open order is missing and no two orders match. (A user with orders on both sides
\* would have some of them skipped, and clearExistingOrders stops at the first bid that
\* meets no ask.)
THEOREM StartupsRepair == NoStopOrders /\ OneSided => (Spec => StartupRepairs)
<1> SUFFICES ASSUME NoStopOrders, OneSided PROVE Spec => StartupRepairs
  OBVIOUS
<1>1. Init => StartInv
  BY StartInvInit
<1>2. IInv /\ IInv' /\ StartInv /\ [Next]_vars => StartInv'
  BY StartInvStep
<1>3. IInv /\ IInv' /\ StartInv /\ [Next]_vars /\ ~serving /\ serving' /\ matcher.pc # "finish"
      => Kept' /\ Uncrossed'
  BY StartEnds
<1>4. IInv /\ Kept => NothingLost
  BY KeptLosesNothing
<1>5. IInv /\ Uncrossed => NotCrossed
  BY UncrossedIsNotCrossed
<1>6. [](IInv /\ StartInv) /\ [][Next]_vars
      => [][~serving /\ serving' /\ matcher.pc # "finish" => (NothingLost /\ NotCrossed)']_vars
  <2> DEFINE G == NothingLost /\ NotCrossed
  <2>1. IInv /\ Kept /\ Uncrossed => G
    BY <1>4, <1>5
  <2> HIDE DEF G
  <2>2. (IInv /\ IInv' /\ StartInv /\ [Next]_vars) /\ (IInv /\ Kept /\ Uncrossed => G)'
        => [~serving /\ serving' /\ matcher.pc # "finish" => G']_vars
    BY <1>3
  <2>3. [](IInv /\ StartInv) /\ [][Next]_vars
        => [][~serving /\ serving' /\ matcher.pc # "finish" => G']_vars
    BY <2>1, <2>2, PTL
  <2> QED
    BY <2>3 DEF G
<1> QED
  BY <1>1, <1>2, <1>6, Invariant, PTL DEF Spec, StartupRepairs

------------------------------------------------------------------------------
(* Nothing that could trade is left waiting *)

\* What keeps the book uncrossed as long as the server runs.
RunInv == Uncrossed /\ WakesStopLoss /\ Serves

\* What keeps it so across crashes.
CrashInv == KeptInv /\ StartInv /\ (serving => Uncrossed)

LEMMA NothingPlaced == Init => Uncrossed
<1> SUFFICES ASSUME Init PROVE Uncrossed
  OBVIOUS
<1>1. queue = NoQueue /\ matcher = At("idle")
  BY DEF Init
<1>2. Pool = {}
  BY <1>1 DEF Pool, Queued, NoQueue, At
<1> QED
  BY <1>2 DEF Uncrossed

LEMMA RunInvStep ==
  ASSUME IInv, IInv', NoCrash, RunInv, [Next]_vars
  PROVE  RunInv'
<1>1. ~Restart /\ Uncrossed /\ WakesStopLoss /\ Serves
  BY NoRestart DEF RunInv
<1>2. Serves' /\ \A o \in Orders : ~LoadOld(o)
  BY <1>1, ServesStep
<1> QED
  BY <1>1, <1>2, UncrossedStep, WakesStopLossStep DEF RunInv

LEMMA CrashInvStep ==
  ASSUME IInv, IInv', NoErrors, NoStopOrders, OneSided, CrashInv, [Next]_vars
  PROVE  CrashInv'
<1>1. KeptInv' /\ StartInv'
  BY KeptInvStep, StartInvStep DEF CrashInv, Orderly
<1>2. ASSUME serving' PROVE Uncrossed'
  <2>1. ~Restart /\ WakesStopLoss
    BY <1>2, RestartKept DEF CrashInv, KeptInv
  <2>2. CASE serving
    <3>1. Serves /\ Uncrossed
      BY <2>2 DEF CrashInv, StartInv
    <3>2. \A o \in Orders : ~LoadOld(o)
      BY <2>1, <3>1, ServesStep
    <3> QED
      BY <2>1, <3>1, <3>2, UncrossedStep
  <2>3. CASE ~serving /\ matcher.pc # "finish"
    BY <1>2, <2>3, RepairUncrosses DEF CrashInv, StartInv
  <2>4. CASE ~serving /\ matcher.pc = "finish"
    <3>1. IncDone \/ ResDone
      BY <2>4 DEF CrashInv, KeptInv, Ends, MatchSteps
    <3>2. ~FinishClearing
      BY <1>2, <2>4, <3>1 DEF FinishClearing
    <3>3. ~SeekAgain /\ ~ClearNext /\ NoStopOrders
      BY <2>4 DEF SeekAgain, ClearNext
    <3> QED
      BY <1>2, <2>1, <2>4, <3>2, <3>3, NotServing, ServingKept DEF Startup
  <2> QED
    BY <2>2, <2>3, <2>4
<1> QED
  BY <1>1, <1>2 DEF CrashInv

\* The goroutine never waits while two orders could trade: with any errors and stop-loss
\* orders as long as the server runs, and across crashes too when no error ends a startup
\* and no order is skipped in one.
THEOREM NeverCrossed ==
  NoCrash \/ (NoErrors /\ NoStopOrders /\ OneSided) => (Spec => []NotCrossed)
<1>1. IInv /\ Uncrossed => NotCrossed
  BY UncrossedIsNotCrossed
<1>2. ASSUME NoCrash PROVE Spec => []NotCrossed
  <2>1. Init => RunInv
    BY NothingPlaced, StartInvInit DEF RunInv, StartInv, RepairInv, Init
  <2>2. IInv /\ IInv' /\ RunInv /\ [Next]_vars => RunInv'
    BY <1>2, RunInvStep
  <2>3. RunInv => Uncrossed
    BY DEF RunInv
  <2> QED
    BY <1>1, <2>1, <2>2, <2>3, Invariant, PTL DEF Spec
<1>3. ASSUME NoErrors, NoStopOrders, OneSided PROVE Spec => []NotCrossed
  <2>1. Init => CrashInv
    BY NothingPlaced, StartInvInit, KeptInvInit DEF CrashInv
  <2>2. IInv /\ IInv' /\ CrashInv /\ [Next]_vars => CrashInv'
    BY <1>3, CrashInvStep
  <2>3. Idle => serving
    BY DEF Idle
  <2>4. IInv /\ CrashInv => NotCrossed
    BY <1>1, <2>3 DEF CrashInv, NotCrossed
  <2> QED
    BY <2>1, <2>2, <2>4, Invariant, PTL DEF Spec
<1> QED
  BY <1>2, <1>3

------------------------------------------------------------------------------
(* The depth is what the orders want *)

HIDE DEF Orders, Sides, Level0

\* Every bid can be paid: market bids alone reserve nothing.
AllPayable == \A t \in Tickets : t.side = "bid" => t.kind # "Market"

\* What the depth counts: the orders in the queues, those popped on the way and, during a
\* startup, the one in hand.
InBook == Queued \cup matcher.held \cup (IF serving THEN {} ELSE InHand)

\* The cancellation of an order is not yet passed on to the book.
Passing(o) == [order |-> o, object |-> "engine"] \in cancelling

\* What an order has in the depth: what it wants while it is open or its cancellation on the
\* way, and what was traded and is not settled.
Wanted(o) == IF Passing(o) \/ (o \in InBook /\ ~mem[o].closed) THEN Unfilled(o) ELSE 0
Settling(o) ==
  IF matcher.pc = "settle" /\ matcher.tr # None /\ o \in {matcher.inc, matcher.res} /\ InDepth(o)
  THEN matcher.qty ELSE 0
Due == [o \in Orders |-> Wanted(o) + Settling(o)]

\* The depth d is the sum of the parts f of the orders t.
LevelIn(t, o) == IF IsMarketKind(t[o].kind) THEN Level0 ELSE t[o].price
Levels == Prices \cup {Level0}
AtLevel(t, s, l) == {o \in Orders : t[o].side = s /\ LevelIn(t, o) = l}
Fits(t, d, f) ==
  \A s \in Sides, l \in Levels : d[s][l] = SumFunctionOnSet(f, AtLevel(t, s, l))

\* An order that is not matched yet is open, but for those cancelled at rest.
Matched == matcher.pc \in MatchSteps \ {"fill"}
OpenUntilMatched ==
  /\ \A o \in Orders : stage[o] # "added" \/ o \in unloaded => ~mem[o].closed
  /\ matcher.pc \in MatchSteps \cup {"seek"} /\ mem[matcher.inc].closed => Matched /\ IncDone
  /\ ~serving => /\ cancelling = {}
                 /\ \A o \in Queued \cup matcher.held :
                      mem[o].closed => Matched /\ o = matcher.res /\ ResDone
  /\ \A c \in cancelling : c.object = "engine" /\ mem[c.order].closed
  /\ matcher.pc = "settle" /\ matcher.tr = None => matcher.resSt = "closed" /\ serving
  /\ matcher.pc \in {"load", "clear"} => ~serving

DepthInv == OpenUntilMatched /\ Fits(ticket, depth, Due)

LEMMA LevelFinite ==
  ASSUME NEW t, NEW s, NEW l
  PROVE  IsFiniteSet(AtLevel(t, s, l)) /\ AtLevel(t, s, l) \subseteq Orders
<1>1. AtLevel(t, s, l) \subseteq Orders
  BY DEF AtLevel
<1> QED
  BY <1>1, OrdersFinite, FS_Subset

\* Nothing has a part in an empty depth.
LEMMA FitsNone ==
  ASSUME NEW t, NEW f, \A o \in Orders : f[o] = 0
  PROVE  Fits(t, NoDepth, f)
<1> SUFFICES ASSUME NEW s \in Sides, NEW l \in Levels
             PROVE  NoDepth[s][l] = SumFunctionOnSet(f, AtLevel(t, s, l))
  BY DEF Fits
<1>1. NoDepth[s][l] = 0
  BY DEF NoDepth, Levels
<1>2. SumFunctionOnSet(f, AtLevel(t, s, l)) = 0
  BY LevelFinite, SumZero
<1> QED
  BY <1>1, <1>2

\* The parts may be given by another function.
LEMMA FitsSame ==
  ASSUME NEW t, NEW d, NEW f, NEW g, Fits(t, d, f), \A o \in Orders : g[o] = f[o]
  PROVE  Fits(t, d, g)
<1> SUFFICES ASSUME NEW s \in Sides, NEW l \in Levels
             PROVE  SumFunctionOnSet(f, AtLevel(t, s, l)) = SumFunctionOnSet(g, AtLevel(t, s, l))
  BY DEF Fits
<1> QED
  BY LevelFinite, SumSame

\* The sum of a level after one part changed.
LEMMA PartChanged ==
  ASSUME NEW t, NEW s, NEW l, NEW f \in [Orders -> Nat], NEW g \in [Orders -> Nat], NEW o \in Orders,
         \A x \in Orders \ {o} : g[x] = f[x]
  PROVE  /\ SumFunctionOnSet(f, AtLevel(t, s, l)) \in Nat
         /\ o \notin AtLevel(t, s, l) =>
              SumFunctionOnSet(g, AtLevel(t, s, l)) = SumFunctionOnSet(f, AtLevel(t, s, l))
         /\ o \in AtLevel(t, s, l) =>
              /\ f[o] <= SumFunctionOnSet(f, AtLevel(t, s, l))
              /\ SumFunctionOnSet(g, AtLevel(t, s, l))
                   = SumFunctionOnSet(f, AtLevel(t, s, l)) - f[o] + g[o]
<1>1. PICK S : S = AtLevel(t, s, l)
  OBVIOUS
<1>2. IsFiniteSet(S) /\ S \subseteq Orders
  BY <1>1, LevelFinite
<1>3. \A x \in S : f[x] \in Nat /\ g[x] \in Nat /\ f[x] \in Int /\ g[x] \in Int
  BY <1>2
<1>4. SumFunctionOnSet(f, S) \in Nat
  BY <1>2, <1>3, SumNat
<1>5. ASSUME o \notin S PROVE SumFunctionOnSet(g, S) = SumFunctionOnSet(f, S)
  <2>1. \A x \in S : f[x] = g[x]
    BY <1>2, <1>5
  <2> QED
    BY <1>2, <2>1, SumSame
<1>6. ASSUME o \in S
      PROVE  /\ f[o] <= SumFunctionOnSet(f, S)
             /\ SumFunctionOnSet(g, S) = SumFunctionOnSet(f, S) - f[o] + g[o]
  <2>1. \A x \in S \ {o} : f[x] = g[x]
    BY <1>2
  <2> QED
    BY <1>2, <1>3, <1>6, <2>1, SumBounds, SumChange
<1> QED
  BY <1>1, <1>4, <1>5, <1>6

Depths == [Sides -> [Levels -> Nat]]

\* A quantity that an order has in the depth is taken out: the depth does not become negative.
LEMMA FitsTaken ==
  ASSUME NEW t, NEW d \in Depths, NEW f \in [Orders -> Nat], Fits(t, d, f),
         NEW o \in Orders, t[o].side \in Sides, LevelIn(t, o) \in Levels,
         NEW n \in Nat, n <= f[o]
  PROVE  Fits(t, CloseOrder(d, t[o].side, LevelIn(t, o), n), [f EXCEPT ![o] = @ - n])
<1>1. PICK g : g = [f EXCEPT ![o] = @ - n]
  OBVIOUS
<1>2. PICK e : e = CloseOrder(d, t[o].side, LevelIn(t, o), n)
  OBVIOUS
<1>3. f[o] - n \in Nat
  OBVIOUS
<1>4. g \in [Orders -> Nat] /\ g[o] = f[o] - n /\ \A x \in Orders \ {o} : g[x] = f[x]
  BY <1>1, <1>3
<1>5. SUFFICES ASSUME NEW s \in Sides, NEW l \in Levels
               PROVE  e[s][l] = SumFunctionOnSet(g, AtLevel(t, s, l))
  BY <1>1, <1>2 DEF Fits
<1>6. d[s][l] = SumFunctionOnSet(f, AtLevel(t, s, l)) /\ d[s][l] \in Nat
  BY DEF Fits, Depths
<1>7. CASE o \in AtLevel(t, s, l)
  <2>1. s = t[o].side /\ l = LevelIn(t, o)
    BY <1>7 DEF AtLevel
  <2>2. e[s][l] = IF n > d[s][l] THEN 0 ELSE d[s][l] - n
    BY <1>2, <2>1 DEF CloseOrder, Depths
  <2>3. f[o] <= d[s][l] /\ SumFunctionOnSet(g, AtLevel(t, s, l)) = d[s][l] - f[o] + g[o]
    BY <1>4, <1>6, <1>7, PartChanged
  <2> QED
    BY <1>3, <1>4, <1>6, <2>2, <2>3
<1>8. CASE o \notin AtLevel(t, s, l)
  <2>1. s # t[o].side \/ l # LevelIn(t, o)
    BY <1>8 DEF AtLevel
  <2>2. e[s][l] = d[s][l]
    BY <1>2, <2>1 DEF CloseOrder, Depths
  <2> QED
    BY <1>4, <1>6, <1>8, <2>2, PartChanged
<1> QED
  BY <1>7, <1>8

\* ... or added.
LEMMA FitsAdded ==
  ASSUME NEW t, NEW d \in Depths, NEW f \in [Orders -> Nat], Fits(t, d, f),
         NEW o \in Orders, t[o].side \in Sides, LevelIn(t, o) \in Levels, NEW n \in Nat
  PROVE  Fits(t, AddOrder(d, t[o].side, LevelIn(t, o), n), [f EXCEPT ![o] = @ + n])
<1>1. PICK g : g = [f EXCEPT ![o] = @ + n]
  OBVIOUS
<1>2. PICK e : e = AddOrder(d, t[o].side, LevelIn(t, o), n)
  OBVIOUS
<1>3. f[o] + n \in Nat
  OBVIOUS
<1>4. g \in [Orders -> Nat] /\ g[o] = f[o] + n /\ \A x \in Orders \ {o} : g[x] = f[x]
  BY <1>1, <1>3
<1>5. SUFFICES ASSUME NEW s \in Sides, NEW l \in Levels
               PROVE  e[s][l] = SumFunctionOnSet(g, AtLevel(t, s, l))
  BY <1>1, <1>2 DEF Fits
<1>6. d[s][l] = SumFunctionOnSet(f, AtLevel(t, s, l)) /\ d[s][l] \in Nat
  BY DEF Fits, Depths
<1>7. CASE o \in AtLevel(t, s, l)
  <2>1. s = t[o].side /\ l = LevelIn(t, o)
    BY <1>7 DEF AtLevel
  <2>2. e[s][l] = d[s][l] + n
    BY <1>2, <2>1 DEF AddOrder, Depths
  <2>3. SumFunctionOnSet(g, AtLevel(t, s, l)) = d[s][l] - f[o] + g[o]
    BY <1>4, <1>6, <1>7, PartChanged
  <2> QED
    BY <1>3, <1>4, <1>6, <2>2, <2>3
<1>8. CASE o \notin AtLevel(t, s, l)
  <2>1. s # t[o].side \/ l # LevelIn(t, o)
    BY <1>8 DEF AtLevel
  <2>2. e[s][l] = d[s][l]
    BY <1>2, <2>1 DEF AddOrder, Depths
  <2> QED
    BY <1>4, <1>6, <1>8, <2>2, PartChanged
<1> QED
  BY <1>7, <1>8

USE DEF Orders, Sides, Level0

\* What the theorem supposes.
Tidy == Orderly /\ ~CancelInFlight /\ AllPayable

LEMMA DueType ==
  ASSUME IInv
  PROVE  /\ Due \in [Orders -> Nat] /\ depth \in Depths
         /\ \A o \in Orders : /\ Due[o] = Wanted(o) + Settling(o)
                              /\ Unfilled(o) \in Nat /\ Wanted(o) \in Nat /\ Settling(o) \in Nat
                              /\ ticket[o].side \in Sides /\ LevelIn(ticket, o) \in Levels
<1>1. TypeOK /\ FillsOK
  BY DEF IInv
<1>2. depth \in Depths /\ matcher.qty \in Nat
  BY <1>1 DEF TypeOK, Depths, Levels
<1>3. ASSUME NEW o \in Orders
      PROVE  /\ Unfilled(o) \in Nat /\ Wanted(o) \in Nat /\ Settling(o) \in Nat
             /\ ticket[o].side \in Sides /\ LevelIn(ticket, o) \in Levels
  <2>1. Unfilled(o) \in Nat
    BY <1>1, UnfilledType
  <2>2. Wanted(o) \in Nat /\ Settling(o) \in Nat
    BY <1>2, <2>1 DEF Wanted, Settling
  <2>3. ticket[o].side \in Sides /\ LevelIn(ticket, o) \in Levels
    BY <1>1, TicketParts DEF Side, LevelIn, Levels
  <2> QED
    BY <2>1, <2>2, <2>3
<1>4. \A o \in Orders : Due[o] = Wanted(o) + Settling(o)
  BY DEF Due
<1>5. Due \in [Orders -> Nat]
  BY <1>3 DEF Due
<1> QED
  BY <1>2, <1>3, <1>4, <1>5

\* The level of an order is that of its ticket.
LEMMA LevelKept ==
  ASSUME IInv, NoStopOrders, NEW o \in Orders
  PROVE  Side(o) = ticket[o].side /\ Level(o) = LevelIn(ticket, o)
BY NoOrderChanges DEF Side, Level, LevelOf, LevelIn

\* The depth stays, and so does the part of every order.
LEMMA DepthSame ==
  ASSUME IInv, IInv', DepthInv, UNCHANGED <<ticket, depth>>,
         \A o \in Orders : (Wanted(o) + Settling(o))' = Wanted(o) + Settling(o)
  PROVE  Fits(ticket, depth, Due)'
<1>1. \A o \in Orders : Due'[o] = Due[o]
  BY DueType DEF Due
<1>2. Fits(ticket, depth, Due')
  BY <1>1, FitsSame DEF DepthInv
<1> QED
  BY <1>2

\* A quantity that order o has in the depth is taken out of it.
LEMMA DepthTaken ==
  ASSUME IInv, IInv', DepthInv, NoStopOrders, UNCHANGED ticket, NEW o \in Orders, NEW n \in Nat,
         depth' = CloseOrder(depth, Side(o), Level(o), n),
         n <= Wanted(o) + Settling(o),
         (Wanted(o) + Settling(o))' = Wanted(o) + Settling(o) - n,
         \A x \in Orders \ {o} : (Wanted(x) + Settling(x))' = Wanted(x) + Settling(x)
  PROVE  Fits(ticket, depth, Due)'
<1>1. /\ \A x \in Orders \ {o} : Due'[x] = Due[x]
      /\ Due'[o] = Due[o] - n /\ n <= Due[o] /\ Due \in [Orders -> Nat]
  BY DueType DEF Due
<1>2. \A x \in Orders : Due'[x] = [Due EXCEPT ![o] = @ - n][x]
  BY <1>1
<1>3. Fits(ticket, depth', [Due EXCEPT ![o] = @ - n])
  BY <1>1, DueType, LevelKept, FitsTaken DEF DepthInv
<1>4. Fits(ticket, depth', Due')
  BY <1>2, <1>3, FitsSame
<1> QED
  BY <1>4

\* Order o joins the book.
LEMMA DepthAdded ==
  ASSUME IInv, IInv', DepthInv, NoStopOrders, UNCHANGED ticket, NEW o \in Orders, NEW n \in Nat,
         depth' = AddOrder(depth, Side(o), Level(o), n),
         (Wanted(o) + Settling(o))' = Wanted(o) + Settling(o) + n,
         \A x \in Orders \ {o} : (Wanted(x) + Settling(x))' = Wanted(x) + Settling(x)
  PROVE  Fits(ticket, depth, Due)'
<1>1. /\ \A x \in Orders \ {o} : Due'[x] = Due[x]
      /\ Due'[o] = Due[o] + n /\ Due \in [Orders -> Nat]
  BY DueType DEF Due
<1>3. \A x \in Orders : Due'[x] = [Due EXCEPT ![o] = @ + n][x]
  BY <1>1
<1>4. Fits(ticket, depth', [Due EXCEPT ![o] = @ + n])
  BY <1>1, DueType, LevelKept, FitsAdded DEF DepthInv
<1>5. Fits(ticket, depth', Due')
  BY <1>3, <1>4, FitsSame
<1> QED
  BY <1>5

\* Steps that leave the book alone.
LEMMA SameBook ==
  ASSUME IInv, IInv', DepthInv,
         UNCHANGED <<ticket, mem, filled, cancelling, queue, matcher, serving, depth>>,
         \A o \in Orders : stage'[o] # "added" \/ o \in unloaded' => stage[o] # "added" \/ o \in unloaded
  PROVE  DepthInv'
<1>1. UNCHANGED <<Queued, InHand, InBook>>
  BY DEF Queued, InHand, InBook
<1>2. OpenUntilMatched'
  BY <1>1 DEF DepthInv, OpenUntilMatched, Matched, IncDone, ResDone
<1>3. \A o \in Orders : (Wanted(o) + Settling(o))' = Wanted(o) + Settling(o)
  BY <1>1 DEF Wanted, Settling, Passing, InDepth, Unfilled, Qty
<1> QED
  BY <1>2, <1>3, DepthSame DEF DepthInv

LEMMA PlaceDepth ==
  ASSUME IInv, IInv', DepthInv, NEW o \in Orders, Place(o)
  PROVE  DepthInv'
<1>1. TypeOK /\ Places
  BY DEF IInv
<1>2. stage[o] = "new"
  BY <1>1 DEF Place, TypeOK, Places
<1>3. \A x \in Orders \ {o} : stage'[x] = stage[x]
  BY <1>1 DEF Place, TypeOK
<1>4. UNCHANGED <<ticket, mem, filled, cancelling, queue, matcher, serving, depth, unloaded>>
  BY DEF Place
<1> QED
  BY <1>2, <1>3, <1>4, SameBook

\* An order is cancelled where it rests, and keeps its part until the book is told.
LEMMA CancelDepth ==
  ASSUME IInv, IInv', DepthInv, Tidy, Agreed, NEW o \in Orders, CancelOrder(o)
  PROVE  DepthInv'
<1>1. TypeOK /\ Places /\ HeldOnce /\ InMatch /\ NoStopOrders /\ OpenUntilMatched
  BY DEF IInv, Places, Tidy, Orderly, DepthInv
<1>2. serving /\ Resting(o)
  BY DEF CancelOrder, MayCancel, Tidy
<1>3. o \in Queued \cup matcher.held
  <2>1. o \notin Dormant
    BY <1>1, NoOrderChanges
  <2> QED
    BY <1>2, <2>1 DEF Resting, Queued, Dormant
<1>4. o \in cached /\ ~mem[o].closed /\ mem'[o].closed
  BY <1>1, CancelFacts DEF Agreed
<1>5. /\ \A x \in Orders \ {o} : mem'[x] = mem[x]
      /\ UNCHANGED <<ticket, filled, stage, queue, depth, matcher, serving, unloaded>>
      /\ cancelling' = cancelling \cup {[order |-> o, object |-> "engine"]}
  BY <1>1, <1>4, CancelFacts DEF CancelOrder
<1>6. UNCHANGED <<Queued, InHand, InBook>>
  BY <1>5 DEF Queued, InHand, InBook
<1>7. stage[o] = "added" /\ o \notin unloaded /\ o \notin InHand
  <2>1. unloaded = {}
    BY <1>1, <1>2 DEF OpenUntilMatched, Places
  <2>2. o <= placed /\ o \notin BeingAdded /\ o \notin InHand
    BY <1>1, <1>3, HeldPlaced DEF HeldOnce
  <2>3. stage[o] # "new"
    <3>1. o \in Nat /\ placed \in Nat
      BY <1>1, BoundsAssumption DEF TypeOK
    <3> QED
      BY <1>1, <2>2, <3>1 DEF Places
  <2> QED
    BY <1>1, <2>1, <2>2, <2>3 DEF TypeOK, BeingAdded
<1>8. matcher.pc \in MatchSteps \cup {"seek"} => matcher.inc \in Orders \ {o}
  BY <1>1, <1>7 DEF InMatch, InHand, MatchSteps
<1>9. \A c \in cancelling : c.order \in Orders
  BY <1>1 DEF TypeOK
<1>10. OpenUntilMatched'
  BY <1>1, <1>2, <1>4, <1>5, <1>7, <1>8, <1>9 DEF OpenUntilMatched, Matched, IncDone, ResDone
<1>11. \A x \in Orders \ {o} : Passing(x)' <=> Passing(x)
  BY <1>5 DEF Passing
<1>12. Passing(o)' /\ o \in InBook
  BY <1>3, <1>5 DEF Passing, InBook
<1>13. \A x \in Orders : (Wanted(x) + Settling(x))' = Wanted(x) + Settling(x)
  <2> TAKE x \in Orders
  <2>1. Settling(x)' = Settling(x) /\ Unfilled(x)' = Unfilled(x)
    BY <1>5 DEF Settling, InDepth, Unfilled, Qty
  <2>2. Wanted(x)' = Wanted(x)
    <3>1. CASE x = o
      BY <1>4, <1>12, <2>1, <3>1 DEF Wanted
    <3>2. CASE x # o
      BY <1>5, <1>6, <1>11, <2>1, <3>2 DEF Wanted
    <3> QED
      BY <3>1, <3>2
  <2> QED
    BY <2>1, <2>2
<1> QED
  BY <1>5, <1>10, <1>13, DepthSame DEF DepthInv

\* The book is told, and takes out what the order still wants.
LEMMA CancelInBookDepth ==
  ASSUME IInv, IInv', DepthInv, NoStopOrders, NEW c \in cancelling, CancelInBook(c)
  PROVE  DepthInv'
<1>1. TypeOK /\ OpenUntilMatched
  BY DEF IInv, DepthInv
<1>2. PICK o \in Orders : c = [order |-> o, object |-> "engine"]
  BY <1>1 DEF TypeOK, OpenUntilMatched
<1>3. mem[o].kind # "StopLoss" /\ mem[o].closed
  BY <1>1, <1>2, NoOrderChanges DEF OpenUntilMatched
<1>4. /\ cancelling' = cancelling \ {c} /\ depth' = CloseOrder(depth, Side(o), Level(o), Unfilled(o))
      /\ UNCHANGED <<ticket, mem, filled, stage, queue, matcher, serving, unloaded>>
  BY <1>2, <1>3 DEF CancelInBook, Level
<1>5. UNCHANGED <<Queued, InHand, InBook>>
  BY <1>4 DEF Queued, InHand, InBook
<1>6. OpenUntilMatched'
  BY <1>1, <1>4, <1>5 DEF OpenUntilMatched, Matched, IncDone, ResDone
<1>7. \A x \in Orders : Settling(x)' = Settling(x) /\ Unfilled(x)' = Unfilled(x)
  BY <1>4 DEF Settling, InDepth, Unfilled, Qty
<1>8. \A x \in Orders \ {o} : (Wanted(x) + Settling(x))' = Wanted(x) + Settling(x)
  <2> TAKE x \in Orders \ {o}
  <2>1. Passing(x)' <=> Passing(x)
    BY <1>2, <1>4 DEF Passing
  <2> QED
    BY <1>4, <1>5, <1>7, <2>1 DEF Wanted
<1>9. /\ (Wanted(o) + Settling(o))' = Wanted(o) + Settling(o) - Unfilled(o)
      /\ Unfilled(o) <= Wanted(o) + Settling(o)
  <2>1. Passing(o) /\ ~Passing(o)'
    BY <1>2, <1>4 DEF Passing
  <2>2. Wanted(o) = Unfilled(o) /\ Wanted(o)' = 0
    BY <1>3, <1>4, <2>1 DEF Wanted
  <2>3. Unfilled(o) \in Nat /\ Settling(o) \in Nat
    BY DueType
  <2> QED
    BY <1>7, <2>2, <2>3
<1>10. Unfilled(o) \in Nat
  BY DueType
<1> QED
  BY <1>4, <1>6, <1>8, <1>9, <1>10, DepthTaken DEF DepthInv

\* An order i of which nothing is in a queue or popped looks for a match in q; at startup
\* it is in the depth.
Looking(i, q) ==
  /\ Seeking(i, q) /\ ~mem[i].closed /\ matcher.held = {}
  /\ InBook = q["ask"] \cup q["bid"] \cup (IF serving THEN {} ELSE {i})

\* A match that was found leaves the orders in the depth.
LEMMA StartMatchDepth ==
  ASSUME IInv, IInv', DepthInv, NEW i, NEW q, Looking(i, q), StartMatch(i, q)
  PROVE  DepthInv'
<1>1. TypeOK /\ OpenUntilMatched /\ Seeking(i, q)
  BY DEF IInv, DepthInv, Looking
<1>2. i \in Orders /\ q \in [Sides -> SUBSET Orders] /\ Side(i) \in Sides /\ Other(Side(i)) \in Sides
  BY <1>1, TicketParts DEF Seeking, Other
<1>3. PICK r, h :
        /\ r \in Orders /\ matcher'.inc = i /\ matcher'.res = r /\ matcher'.held = h
        /\ h \subseteq q[Other(Side(i))]
        /\ queue' = [q EXCEPT ![Other(Side(i))] = @ \ h]
  BY <1>1, StartMatchHeads
<1>4. UNCHANGED <<ticket, depth, serving, mem, filled, cancelling, unloaded>>
  BY <1>1 DEF Seeking, StartMatch
<1>5. matcher'.pc = "fill"
  BY <1>1, StartMatchPool
<1>6. Queued' \cup matcher'.held = q["ask"] \cup q["bid"]
  BY <1>2, <1>3 DEF Queued
<1>7. InHand' = {i}
  BY <1>3, <1>5 DEF InHand
<1>8. InBook' = InBook
  BY <1>4, <1>6, <1>7 DEF InBook, Looking
<1>9. ~Matched /\ matcher.pc # "settle" /\ ~Matched'
  BY <1>1, <1>5 DEF Seeking, Matched, MatchSteps
<1>10. ~serving => \A o \in Queued' \cup matcher'.held : ~mem[o].closed
  <2>1. \A s \in Sides : q[s] \subseteq queue[s]
    BY <1>1 DEF Seeking
  <2>2. q["ask"] \cup q["bid"] \subseteq Queued
    BY <2>1 DEF Queued
  <2> QED
    BY <1>1, <1>6, <1>9, <2>2 DEF OpenUntilMatched
<1>11. OpenUntilMatched'
  <2>1. \A o \in Orders : stage'[o] # "added" \/ o \in unloaded' => ~mem'[o].closed
    BY <1>1, <1>4 DEF Seeking, OpenUntilMatched, Looking
  <2> QED
    BY <1>1, <1>3, <1>4, <1>5, <1>10, <2>1 DEF OpenUntilMatched, Looking
<1>12. \A o \in Orders : (Wanted(o) + Settling(o))' = Wanted(o) + Settling(o)
  BY <1>4, <1>5, <1>8, <1>9 DEF Wanted, Settling, Passing, Unfilled, Qty
<1> QED
  BY <1>4, <1>11, <1>12, DepthSame DEF DepthInv

\* An order that found no match joins the depth with its queue, if it was not there before.
LEMMA PutInQueueDepth ==
  ASSUME IInv, IInv', DepthInv, NoStopOrders, NEW i, NEW q, Looking(i, q), PutInQueue(i, q)
  PROVE  DepthInv'
<1>1. TypeOK /\ Places /\ OpenUntilMatched /\ Seeking(i, q)
  BY DEF IInv, DepthInv, Looking
<1>2. /\ i \in Orders /\ i \notin q["ask"] \cup q["bid"]
      /\ q \in [Sides -> SUBSET Orders] /\ Side(i) \in Sides
  BY <1>1, TicketParts DEF Seeking
<1>3. UNCHANGED <<ticket, mem, filled, cancelling, unloaded>>
  BY <1>1 DEF Seeking
<1>4. /\ queue' = [q EXCEPT ![Side(i)] = @ \cup {i}] /\ matcher' = At("idle") /\ serving' = TRUE
      /\ depth' = IF serving THEN AddOrder(depth, Side(i), Level(i), Unfilled(i)) ELSE depth
  BY DEF PutInQueue
<1>5. matcher'.pc = "idle" /\ matcher'.held = {}
  BY <1>4 DEF At
<1>6. InBook' = q["ask"] \cup q["bid"] \cup {i}
  <2>1. Queued' = q["ask"] \cup q["bid"] \cup {i}
    BY <1>2, <1>4 DEF Queued
  <2> QED
    BY <1>4, <1>5, <2>1 DEF InBook
<1>7. matcher.pc # "settle"
  BY <1>1 DEF Seeking
<1>8. OpenUntilMatched'
  <2>1. \A o \in Orders : stage'[o] # "added" \/ o \in unloaded' => ~mem'[o].closed
    BY <1>1, <1>3 DEF Seeking, OpenUntilMatched, Looking
  <2> QED
    BY <1>1, <1>3, <1>4, <1>5, <2>1 DEF OpenUntilMatched, MatchSteps
<1>9. \A o \in Orders : /\ Settling(o) = 0 /\ Settling(o)' = 0
                        /\ Unfilled(o)' = Unfilled(o) /\ (Passing(o)' <=> Passing(o))
  BY <1>3, <1>5, <1>7 DEF Settling, Unfilled, Qty, Passing
<1>10. CASE ~serving
  <2>1. InBook' = InBook /\ UNCHANGED <<ticket, depth>>
    BY <1>3, <1>4, <1>6, <1>10 DEF Looking
  <2>2. \A o \in Orders : (Wanted(o) + Settling(o))' = Wanted(o) + Settling(o)
    BY <1>3, <1>9, <2>1 DEF Wanted
  <2> QED
    BY <1>8, <2>1, <2>2, DepthSame DEF DepthInv
<1>11. CASE serving
  <2>1. InBook = q["ask"] \cup q["bid"] /\ ~mem[i].closed
    BY <1>11 DEF Looking
  <2>2. ~Passing(i)
    BY <1>1, <2>1 DEF Passing, OpenUntilMatched
  <2>3. Unfilled(i) \in Nat
    BY <1>2, DueType
  <2>4. (Wanted(i) + Settling(i))' = Wanted(i) + Settling(i) + Unfilled(i)
    <3>1. Wanted(i) = 0 /\ Wanted(i)' = Unfilled(i)
      BY <1>2, <1>3, <1>6, <1>9, <2>1, <2>2 DEF Wanted
    <3> QED
      BY <1>2, <1>9, <2>3, <3>1
  <2>5. \A x \in Orders \ {i} : (Wanted(x) + Settling(x))' = Wanted(x) + Settling(x)
    BY <1>3, <1>6, <1>9, <2>1 DEF Wanted
  <2>6. depth' = AddOrder(depth, Side(i), Level(i), Unfilled(i)) /\ UNCHANGED ticket
    BY <1>3, <1>4, <1>11
  <2>7. Fits(ticket, depth, Due)'
    BY <1>2, <2>3, <2>4, <2>5, <2>6, DepthAdded
  <2> QED
    BY <1>8, <2>7 DEF DepthInv
<1> QED
  BY <1>10, <1>11

\* processAsk, processBid and clearExistingOrders look for a match.
LEMMA LookDepth ==
  ASSUME IInv, IInv', DepthInv, NoStopOrders, SeekAgain \/ ClearNext \/ \E o \in Orders : Receive(o)
  PROVE  DepthInv'
<1>1. TypeOK /\ Places /\ HeldOnce /\ InMatch /\ OpenUntilMatched
  BY DEF IInv, Places, DepthInv
<1>2. ASSUME NEW i, NEW q, Looking(i, q), StartMatch(i, q) \/ PutInQueue(i, q) PROVE DepthInv'
  BY <1>2, StartMatchDepth, PutInQueueDepth
<1>3. ASSUME NEW o \in Orders, Receive(o) PROVE DepthInv'
  <2>1. serving /\ matcher.pc = "idle" /\ stage[o] = "send" /\ matcher.held = {}
    BY <1>1, <1>3 DEF Receive, InMatch, MatchSteps
  <2>2. ~mem[o].closed
    BY <1>1, <2>1 DEF OpenUntilMatched
  <2>3. InBook = queue["ask"] \cup queue["bid"]
    BY <2>1 DEF InBook, Queued
  <2>4. Looking(o, queue)
    BY <1>3, <2>1, <2>2, <2>3, ReceiveSeeks DEF Looking
  <2> QED
    BY <1>2, <1>3, <2>4, ReceiveSeeks
<1>4. CASE SeekAgain
  <2>1. matcher.pc = "seek" /\ matcher.held = {} /\ InHand = {matcher.inc}
    BY <1>1, <1>4 DEF SeekAgain, InMatch, MatchSteps, InHand
  <2>2. ~mem[matcher.inc].closed
    BY <1>1, <2>1 DEF OpenUntilMatched, Matched, MatchSteps
  <2>3. InBook = queue["ask"] \cup queue["bid"] \cup (IF serving THEN {} ELSE {matcher.inc})
    BY <2>1 DEF InBook, Queued
  <2>4. Looking(matcher.inc, queue)
    BY <1>4, <2>1, <2>2, <2>3, SeekAgainSeeks DEF Looking
  <2> QED
    BY <1>2, <1>4, <2>4, SeekAgainSeeks
<1>5. CASE ClearNext /\ queue["bid"] # {}
  <2>1. PICK b \in Tops(queue["bid"]) :
          Seeking(b, Rest(b)) /\ (StartMatch(b, Rest(b)) \/ PutInQueue(b, Rest(b)))
    BY <1>5, ClearNextSeeks
  <2>2. matcher.pc = "clear" /\ ~serving /\ InHand = {} /\ matcher.held = {} /\ ~Matched
    BY <1>1, <1>5 DEF ClearNext, OpenUntilMatched, InHand, InMatch, Matched, MatchSteps
  <2>3. b \in queue["bid"]
    BY <2>1 DEF Tops
  <2>4. ~mem[b].closed
    BY <1>1, <2>2, <2>3 DEF OpenUntilMatched, Queued
  <2>5. InBook = Rest(b)["ask"] \cup Rest(b)["bid"] \cup {b}
    BY <1>1, <2>2, <2>3 DEF InBook, Queued, Rest, TypeOK
  <2>6. Looking(b, Rest(b))
    BY <2>1, <2>2, <2>4, <2>5 DEF Looking
  <2> QED
    BY <1>2, <2>1, <2>6
<1>6. CASE ClearNext /\ queue["bid"] = {}
  <2>1. /\ matcher.pc = "clear" /\ ~serving /\ InHand = {} /\ matcher.held = {}
        /\ matcher' = At("idle") /\ serving' = TRUE
        /\ UNCHANGED <<ticket, mem, filled, stage, cancelling, unloaded, queue, depth>>
    BY <1>1, <1>6 DEF ClearNext, OpenUntilMatched, InHand, InMatch, MatchSteps
  <2>2. matcher'.pc = "idle" /\ matcher'.held = {}
    BY <2>1 DEF At
  <2>3. InBook' = InBook
    BY <2>1, <2>2 DEF InBook, Queued
  <2>4. OpenUntilMatched'
    BY <1>1, <2>1, <2>2 DEF OpenUntilMatched, MatchSteps
  <2>5. \A o \in Orders : (Wanted(o) + Settling(o))' = Wanted(o) + Settling(o)
    BY <2>1, <2>2, <2>3 DEF Wanted, Settling, Passing, Unfilled, Qty
  <2> QED
    BY <2>1, <2>4, <2>5, DepthSame DEF DepthInv
<1> QED
  BY <1>3, <1>4, <1>5, <1>6

\* Every bid is covered: no bid is dropped.
LEMMA NeverDropped ==
  ASSUME IInv, NoStopOrders, AllPayable
  PROVE  ~FillDropsBid
<1> SUFFICES ASSUME FillDropsBid PROVE FALSE
  OBVIOUS
<1>1. TypeOK /\ KindsOK /\ matcher.pc = "fill"
  BY DEF IInv, FillDropsBid
<1>2. PICK a, b : a = MatchedAsk /\ b = MatchedBid
  OBVIOUS
<1>3. a \in Orders /\ b \in Orders /\ {a, b} = {matcher.inc, matcher.res} /\ IsOrderMatching(a, b)
  BY <1>1, <1>2, MatchedParties
<1>4. Side(b) = "bid"
  <2>1. Side(matcher.res) = Other(Side(matcher.inc)) /\ Side(matcher.inc) \in Sides
    BY <1>1, PartiesPlaced, TicketParts DEF IInv, MatchSteps
  <2> QED
    BY <1>2, <2>1 DEF MatchedBid, Other
<1>5. ticket[b].kind = "Limit"
  <2>1. ticket[b] \in Tickets
    BY <1>1, <1>3 DEF TypeOK
  <2>2. ticket[b].kind # "Market" /\ ticket[b].kind # "StopLoss"
    BY <1>4, <2>1 DEF AllPayable, NoStopOrders, Side
  <2> QED
    BY <1>1, <1>3, <2>2, TicketParts DEF Kinds
<1>6. mem[a].kind # "StopLoss" /\ mem[b].kind # "StopLoss"
  BY <1>3, NoOrderChanges
<1>7. TradePrice(a, b) <= ticket[b].price
  BY <1>1, <1>3, <1>5, <1>6, TradePriceLimits
<1> QED
  BY <1>2, <1>5, <1>7 DEF FillDropsBid, Covered

\* While a match is made the orders of the book stay where they are.
LEMMA SameInBook ==
  ASSUME TypeOK, matcher.pc \in MatchSteps, matcher'.pc \in MatchSteps,
         matcher'.inc = matcher.inc, matcher'.held = matcher.held, UNCHANGED <<queue, serving>>
  PROVE  InBook' = InBook
<1>1. Queued' = Queued /\ InHand' = InHand
  BY DEF Queued, InHand, MatchSteps
<1> QED
  BY <1>1 DEF InBook

\* An order that was cancelled in time keeps its part until its cancellation is passed on.
LEMMA FillFindsClosedDepth ==
  ASSUME IInv, IInv', DepthInv, FillFindsClosed
  PROVE  DepthInv'
<1>1. TypeOK /\ InMatch /\ OpenUntilMatched /\ matcher \in MatcherType
  BY DEF IInv, DepthInv, TypeOK, MatcherType
<1>2. /\ matcher.pc = "fill" /\ ~BothOpen
      /\ UNCHANGED <<ticket, mem, filled, stage, cancelling, queue, depth, serving, unloaded>>
  BY DEF FillFindsClosed
<1>3. ~mem[matcher.inc].closed /\ mem[matcher.res].closed
  BY <1>1, <1>2 DEF OpenUntilMatched, Matched, BothOpen, MatchSteps
<1>4. serving
  <2>1. matcher.res \in Queued
    BY <1>1, <1>2, PartiesPlaced, TicketParts DEF IInv, InMatch, MatchSteps, Queued, Other
  <2> QED
    BY <1>1, <1>2, <1>3, <2>1 DEF OpenUntilMatched, Matched
<1>5. FillReturns("undone", "closed", None, 0)
  BY <1>3 DEF FillFindsClosed
<1>6. /\ matcher'.pc = "settle" /\ matcher'.inc = matcher.inc /\ matcher'.res = matcher.res
      /\ matcher'.held = matcher.held /\ matcher'.resSt = "closed" /\ matcher'.tr = None
  BY <1>1, <1>5 DEF FillReturns, MatcherType
<1>7. InBook' = InBook
  BY <1>1, <1>2, <1>6, SameInBook DEF MatchSteps
<1>8. OpenUntilMatched'
  BY <1>1, <1>2, <1>3, <1>4, <1>6 DEF OpenUntilMatched
<1>9. \A o \in Orders : (Wanted(o) + Settling(o))' = Wanted(o) + Settling(o)
  BY <1>2, <1>6, <1>7 DEF Wanted, Settling, Passing, Unfilled, Qty
<1> QED
  BY <1>2, <1>8, <1>9, DepthSame DEF DepthInv

\* What a trade of n does to its parties.
LEMMA TradeParts ==
  ASSUME IInv, FillTrades
  PROVE  \E n \in Nat :
           /\ \A x \in {matcher.inc, matcher.res} :
                /\ x \in Orders /\ ~mem[x].closed /\ filled[x] + n <= Qty(x)
                /\ filled'[x] = filled[x] + n
                /\ mem'[x].closed <=> filled[x] + n = Qty(x)
           /\ \A x \in Orders \ {matcher.inc, matcher.res} :
                filled'[x] = filled[x] /\ mem'[x].closed = mem[x].closed
           /\ matcher'.pc = "settle" /\ matcher'.inc = matcher.inc /\ matcher'.res = matcher.res
           /\ matcher'.held = matcher.held /\ matcher'.tr # None /\ matcher'.qty = n
           /\ matcher'.incSt = IF filled[matcher.inc] + n = Qty(matcher.inc) THEN "done" ELSE "undone"
           /\ matcher'.resSt = IF filled[matcher.res] + n = Qty(matcher.res) THEN "done" ELSE "undone"
<1>1. /\ TypeOK /\ KindsOK /\ FillsOK /\ matcher \in MatcherType
      /\ matcher.pc = "fill" /\ UNCHANGED queue
  BY DEF IInv, TypeOK, MatcherType, FillTrades
<1>2. PICK a, b, i, r :
        a = MatchedAsk /\ b = MatchedBid /\ i = matcher.inc /\ r = matcher.res
  OBVIOUS
<1>3. PICK n, p : n = TradeQty(a, b) /\ p = TradePrice(a, b)
  OBVIOUS
<1>4. {a, b} = {i, r} /\ IsOrderMatching(a, b) /\ {a, b} \subseteq Queued \cup InHand
  BY <1>1, <1>2, MatchedParties
<1>5. /\ a \in Orders /\ b \in Orders /\ a # b /\ ~mem[a].closed /\ ~mem[b].closed
      /\ \A x \in Orders : mem'[x].closed = IF x \in {a, b} THEN filled[x] + n = Qty(x)
                                                             ELSE mem[x].closed
      /\ filled' = [filled EXCEPT ![a] = @ + n, ![b] = @ + n]
  BY <1>2, <1>3, TradeFacts
<1>6. n \in Nat /\ filled[a] + n <= Qty(a) /\ filled[b] + n <= Qty(b)
  BY <1>1, <1>3, <1>5, TradeQtyFits
<1>7. p \in Prices /\ p # None
  <2>1. p \in Prices
    BY <1>1, <1>3, <1>4, <1>5, NotBeingAdded, TradePriceLimits
  <2> QED
    BY <2>1, PricesAssumption
<1>8. FillReturns(IF filled[i] + n = Qty(i) THEN "done" ELSE "undone",
                  IF filled[r] + n = Qty(r) THEN "done" ELSE "undone", p, n)
  BY <1>2, <1>3 DEF FillTrades
<1>9. /\ matcher'.pc = "settle" /\ matcher'.inc = i /\ matcher'.res = r
      /\ matcher'.held = matcher.held /\ matcher'.tr = p /\ matcher'.qty = n
      /\ matcher'.incSt = IF filled[i] + n = Qty(i) THEN "done" ELSE "undone"
      /\ matcher'.resSt = IF filled[r] + n = Qty(r) THEN "done" ELSE "undone"
  BY <1>1, <1>2, <1>8 DEF FillReturns, MatcherType
<1>10. \A x \in {a, b} : /\ x \in Orders /\ ~mem[x].closed /\ filled[x] + n <= Qty(x)
                         /\ filled'[x] = filled[x] + n
                         /\ mem'[x].closed <=> filled[x] + n = Qty(x)
  BY <1>1, <1>5, <1>6 DEF TypeOK
<1>11. \A x \in Orders \ {a, b} : filled'[x] = filled[x] /\ mem'[x].closed = mem[x].closed
  BY <1>1, <1>5 DEF TypeOK
<1> QED
  BY <1>2, <1>4, <1>6, <1>7, <1>9, <1>10, <1>11

\* What a trade takes from the wants of its parties is to be settled.
LEMMA FillTradesDepth ==
  ASSUME IInv, IInv', DepthInv, FillTrades
  PROVE  DepthInv'
<1>1. TypeOK /\ Places /\ HeldOnce /\ InMatch /\ FillsOK /\ OpenUntilMatched
  BY DEF IInv, DepthInv, Places
<1>2. /\ matcher.pc = "fill" /\ matcher.pc \in MatchSteps /\ ~Matched
      /\ UNCHANGED <<ticket, stage, cancelling, queue, depth, serving, unloaded>>
  BY DEF FillTrades, MatchSteps, Matched
<1>3. PICK i, r : i = matcher.inc /\ r = matcher.res
  OBVIOUS
<1>4. PICK n \in Nat :
        /\ \A x \in {i, r} : /\ x \in Orders /\ ~mem[x].closed /\ filled[x] + n <= Qty(x)
                             /\ filled'[x] = filled[x] + n
                             /\ mem'[x].closed <=> filled[x] + n = Qty(x)
        /\ \A x \in Orders \ {i, r} : filled'[x] = filled[x] /\ mem'[x].closed = mem[x].closed
        /\ matcher'.pc = "settle" /\ matcher'.inc = i /\ matcher'.res = r
        /\ matcher'.held = matcher.held /\ matcher'.tr # None /\ matcher'.qty = n
        /\ matcher'.incSt = IF filled[i] + n = Qty(i) THEN "done" ELSE "undone"
        /\ matcher'.resSt = IF filled[r] + n = Qty(r) THEN "done" ELSE "undone"
  BY <1>3, TradeParts
<1>5. /\ i # r /\ r \in Queued /\ i \in InHand /\ i \notin Queued \cup matcher.held
      /\ InHand = {i} /\ stage[i] = "added" /\ stage[r] = "added" /\ unloaded = {}
  <2>1. i # r /\ Side(r) = Other(Side(i)) /\ i \in Orders /\ InHand = {i}
    BY <1>1, <1>2, <1>3, PartiesPlaced DEF InHand
  <2>2. r \in Queued
    BY <1>1, <1>2, <1>3, <2>1, TicketParts DEF InMatch, Queued, Other
  <2>3. unloaded = {}
    BY <1>1, <1>2 DEF Places
  <2> QED
    BY <1>1, <2>1, <2>2, <2>3, NotBeingAdded DEF HeldOnce
<1>6. InBook' = InBook
  BY <1>1, <1>2, <1>3, <1>4, SameInBook DEF MatchSteps
<1>7. \A c \in cancelling : c.order \in Orders \ {i, r}
  <2>1. \A c \in cancelling : c.order \in Orders
    BY <1>1 DEF TypeOK
  <2>2. \A c \in cancelling : mem[c.order].closed
    BY <1>1 DEF OpenUntilMatched
  <2>3. ~mem[i].closed /\ ~mem[r].closed
    BY <1>4
  <2> QED
    BY <2>1, <2>2, <2>3
<1>8. OpenUntilMatched'
  <2>1. \A o \in Orders : stage'[o] # "added" \/ o \in unloaded' => ~mem'[o].closed
    BY <1>1, <1>2, <1>4, <1>5 DEF OpenUntilMatched
  <2>2. mem'[i].closed => matcher'.incSt = "done"
    BY <1>4
  <2>3. mem'[r].closed => matcher'.resSt = "done"
    BY <1>4
  <2>4. ~serving => \A o \in Queued \cup matcher.held : mem'[o].closed => o = r
    <3>1. Queued \cup matcher.held \subseteq Orders
      BY <1>1, HeldPlaced
    <3> QED
      BY <1>1, <1>2, <1>4, <1>5, <3>1 DEF OpenUntilMatched
  <2>5. \A c \in cancelling : c.object = "engine" /\ mem'[c.order].closed
    BY <1>1, <1>4, <1>7 DEF OpenUntilMatched
  <2>6. Matched' /\ Queued' = Queued
    BY <1>2, <1>4 DEF Matched, MatchSteps, Queued
  <2>7. mem'[matcher'.inc].closed => IncDone'
    BY <1>4, <2>2 DEF IncDone
  <2>8. ~serving' => /\ cancelling' = {}
                     /\ \A o \in Queued' \cup matcher'.held :
                          mem'[o].closed => o = matcher'.res /\ ResDone'
    BY <1>1, <1>2, <1>4, <2>3, <2>4, <2>6 DEF ResDone, OpenUntilMatched
  <2>9. matcher'.pc = "settle" /\ matcher'.tr # None
    BY <1>4
  <2> QED
    BY <1>2, <2>1, <2>5, <2>6, <2>7, <2>8, <2>9 DEF OpenUntilMatched
<1>9. \A o \in Orders : Passing(o)' <=> Passing(o)
  BY <1>2 DEF Passing
<1>10. \A o \in {i, r} : ~Passing(o)
  BY <1>7 DEF Passing
<1>11. ASSUME NEW o \in {i, r} PROVE (Wanted(o) + Settling(o))' = Wanted(o) + Settling(o)
  <2>1. /\ Unfilled(o) \in Nat /\ Unfilled(o)' = Unfilled(o) - n /\ n <= Unfilled(o)
        /\ mem'[o].closed <=> n = Unfilled(o)
    <3>1. filled[o] \in Nat /\ Qty(o) \in Nat /\ Qty(o)' = Qty(o)
      BY <1>1, <1>2, <1>4, TicketParts DEF TypeOK, Qty
    <3> QED
      BY <1>4, <3>1 DEF Unfilled
  <2>2. Settling(o) = 0
    BY <1>2 DEF Settling
  <2>3. ~Passing(o) /\ ~Passing(o)' /\ ~mem[o].closed
    BY <1>4, <1>9, <1>10
  <2>4. CASE o \in InBook
    <3>1. InDepth(o)'
      BY <1>2, <1>4, <1>5, <2>4 DEF InDepth, InBook
    <3>2. Settling(o)' = n
      BY <1>4, <3>1 DEF Settling
    <3>3. Wanted(o) = Unfilled(o)
      BY <2>3, <2>4 DEF Wanted
    <3>4. Wanted(o)' = Unfilled(o) - n
      <4>1. CASE mem'[o].closed
        BY <2>1, <2>3, <4>1 DEF Wanted
      <4>2. CASE ~mem'[o].closed
        BY <1>6, <2>1, <2>4, <4>2 DEF Wanted
      <4> QED
        BY <4>1, <4>2
    <3> QED
      BY <2>1, <2>2, <3>2, <3>3, <3>4
  <2>5. CASE o \notin InBook
    <3>1. o = i /\ serving
      BY <1>5, <2>5 DEF InBook
    <3>2. ~InDepth(o)'
      BY <1>2, <1>4, <1>5, <3>1 DEF InDepth
    <3>3. Settling(o)' = 0
      BY <3>2 DEF Settling
    <3>4. Wanted(o) = 0 /\ Wanted(o)' = 0
      BY <1>6, <2>3, <2>5 DEF Wanted
    <3> QED
      BY <2>2, <3>3, <3>4
  <2> QED
    BY <2>4, <2>5
<1>12. ASSUME NEW o \in Orders \ {i, r} PROVE (Wanted(o) + Settling(o))' = Wanted(o) + Settling(o)
  <2>1. Unfilled(o)' = Unfilled(o)
    BY <1>2, <1>4 DEF Unfilled, Qty
  <2>2. Settling(o) = 0 /\ Settling(o)' = 0
    BY <1>2, <1>4 DEF Settling
  <2>3. Wanted(o)' = Wanted(o)
    BY <1>4, <1>6, <1>9, <2>1 DEF Wanted
  <2> QED
    BY <2>2, <2>3
<1>13. \A o \in Orders : (Wanted(o) + Settling(o))' = Wanted(o) + Settling(o)
  BY <1>11, <1>12
<1> QED
  BY <1>2, <1>8, <1>13, DepthSame DEF DepthInv

\* What makeTrade and triggerStopLosses do after the fill.
LEMMA AfterFill ==
  ASSUME IInv, DepthInv, Settle \/ \E s \in Sides : EndTrigger(s)
  PROVE  /\ OpenUntilMatched' /\ UNCHANGED ticket
         /\ \A o \in Orders : Wanted(o)' = Wanted(o) /\ Settling(o)' = 0
<1>1. TypeOK /\ OpenUntilMatched
  BY DEF IInv, DepthInv
<1>2. /\ matcher.pc \in MatchSteps /\ Matched
      /\ UNCHANGED <<ticket, mem, filled, stage, cancelling, unloaded>>
  BY DEF Settle, EndTrigger, TriggerStep, MatchSteps, Matched
<1>3. /\ UNCHANGED <<queue, serving>> /\ matcher'.pc \in MatchSteps \ {"fill", "settle"}
      /\ matcher'.inc = matcher.inc /\ matcher'.res = matcher.res /\ matcher'.held = matcher.held
      /\ matcher'.incSt = matcher.incSt /\ matcher'.resSt = matcher.resSt
  BY <1>1, SettleKeeps
<1>4. Matched' /\ matcher'.pc \notin {"settle", "load", "clear"}
  BY <1>3 DEF Matched, MatchSteps
<1>5. InBook' = InBook
  BY <1>1, <1>2, <1>3, SameInBook
<1>6. OpenUntilMatched'
  BY <1>1, <1>2, <1>3, <1>4 DEF OpenUntilMatched, IncDone, ResDone, Queued
<1> QED
  BY <1>2, <1>4, <1>5, <1>6 DEF Wanted, Settling, Passing, Unfilled, Qty

LEMMA EndTriggerDepth ==
  ASSUME IInv, IInv', DepthInv, NEW s \in Sides, EndTrigger(s)
  PROVE  DepthInv'
<1>1. /\ OpenUntilMatched' /\ UNCHANGED <<ticket, depth>>
      /\ \A o \in Orders : Wanted(o)' = Wanted(o) /\ Settling(o)' = 0
  BY AfterFill DEF EndTrigger
<1>2. \A o \in Orders : Settling(o) = 0
  BY DEF EndTrigger, TriggerStep, Settling
<1> QED
  BY <1>1, <1>2, DepthSame DEF DepthInv

\* A quantity n of the ask a and a quantity m of the bid b are taken out of the depth d, which
\* becomes e, and of the parts f of the orders, which become g.
TakenOnBothSides(t, d, f, a, n, b, m, e, g) ==
  /\ d \in Depths /\ f \in [Orders -> Nat] /\ Fits(t, d, f)
  /\ a \in Orders /\ b \in Orders /\ a # b /\ t[a].side = "ask" /\ t[b].side = "bid"
  /\ LevelIn(t, a) \in Levels /\ LevelIn(t, b) \in Levels
  /\ n \in Nat /\ m \in Nat /\ n <= f[a] /\ m <= f[b]
  /\ e["ask"] = CloseOrder(d, "ask", LevelIn(t, a), n)["ask"]
  /\ e["bid"] = CloseOrder(d, "bid", LevelIn(t, b), m)["bid"]
  /\ g[a] = f[a] - n /\ g[b] = f[b] - m /\ \A x \in Orders \ {a, b} : g[x] = f[x]

\* The depth goes on being the sum of the parts.
LEMMA BothTaken ==
  ASSUME NEW t, NEW d, NEW f, NEW a, NEW n, NEW b, NEW m, NEW e, NEW g,
         TakenOnBothSides(t, d, f, a, n, b, m, e, g)
  PROVE  Fits(t, e, g)
<1> USE DEF TakenOnBothSides
<1>1. PICK k, l : k = LevelIn(t, a) /\ l = LevelIn(t, b)
  OBVIOUS
<1>2. PICK c : c = CloseOrder(d, "ask", k, n)
  OBVIOUS
<1>3. PICK h : h = [f EXCEPT ![a] = @ - n]
  OBVIOUS
<1>4. h \in [Orders -> Nat] /\ h[b] = f[b]
  <2>1. f[a] - n \in Nat
    OBVIOUS
  <2> QED
    BY <1>3, <2>1
<1>5. c \in Depths
  BY <1>1, <1>2, CloseOrderType DEF Depths, Levels
<1>6. Fits(t, c, h)
  BY <1>1, <1>2, <1>3, FitsTaken
<1>7. Fits(t, CloseOrder(c, "bid", l, m), [h EXCEPT ![b] = @ - m])
  BY <1>1, <1>4, <1>5, <1>6, FitsTaken
<1>8. \A s \in Sides : e[s] = CloseOrder(c, "bid", l, m)[s]
  <2>1. c["bid"] = d["bid"] /\ "bid" \in DOMAIN c /\ "bid" \in DOMAIN d
    BY <1>2, <1>5 DEF CloseOrder, Depths
  <2>2. CloseOrder(c, "bid", l, m)["ask"] = c["ask"]
    BY <1>5 DEF CloseOrder, Depths
  <2>3. CloseOrder(c, "bid", l, m)["bid"] = CloseOrder(d, "bid", l, m)["bid"]
    BY <2>1 DEF CloseOrder
  <2> QED
    BY <1>1, <1>2, <2>2, <2>3
<1>9. Fits(t, e, [h EXCEPT ![b] = @ - m])
  BY <1>7, <1>8 DEF Fits
<1>10. \A x \in Orders : g[x] = [h EXCEPT ![b] = @ - m][x]
  BY <1>3, <1>4
<1> QED
  BY <1>9, <1>10, FitsSame

\* What was traded is taken out of the depth.
LEMMA SettleDepth ==
  ASSUME IInv, IInv', DepthInv, NoStopOrders, Settle
  PROVE  DepthInv'
<1>1. TypeOK /\ InMatch /\ OpenUntilMatched /\ matcher.pc = "settle"
  BY DEF IInv, DepthInv, Settle
<1>2. /\ OpenUntilMatched' /\ UNCHANGED ticket
      /\ \A o \in Orders : Wanted(o)' = Wanted(o) /\ Settling(o)' = 0
  BY AfterFill
<1>3. PICK a, b : a = MatchedAsk /\ b = MatchedBid
  OBVIOUS
<1>4. /\ a \in Orders /\ b \in Orders /\ a # b /\ {a, b} = {matcher.inc, matcher.res}
      /\ ticket[a].side = "ask" /\ ticket[b].side = "bid" /\ matcher.inc # matcher.res
  <2>1. /\ matcher.inc \in Orders /\ matcher.res \in Orders /\ matcher.inc # matcher.res
        /\ Side(matcher.res) = Other(Side(matcher.inc)) /\ Side(matcher.inc) \in Sides
    BY <1>1, PartiesPlaced, TicketParts DEF IInv, MatchSteps
  <2> QED
    BY <1>3, <2>1 DEF MatchedAsk, MatchedBid, Other, Side
<1>5. \A o \in {a, b} : IF InDepth(o) THEN ToClose(o) = Settling(o) ELSE Settling(o) = 0
  <2>1. CASE matcher.tr # None
    BY <1>1, <1>4, <2>1 DEF ToClose, Settling
  <2>2. CASE matcher.tr = None
    <3>1. matcher.resSt = "closed" /\ serving
      BY <1>1, <2>2 DEF OpenUntilMatched
    <3>2. \A o \in {a, b} : InDepth(o) => ToClose(o) = 0
      BY <1>4, <2>2, <3>1 DEF InDepth, ToClose
    <3> QED
      BY <2>2, <3>2 DEF Settling
  <2> QED
    BY <2>1, <2>2
<1>6. /\ depth \in Depths /\ Due \in [Orders -> Nat]
      /\ \A o \in Orders : /\ Due[o] = Wanted(o) + Settling(o)
                           /\ Wanted(o) \in Nat /\ Settling(o) \in Nat
                           /\ LevelIn(ticket, o) \in Levels /\ LevelIn(ticket, o) = Level(o)
  BY DueType, LevelKept
<1>7. ASSUME NEW s \in Sides, NEW o \in {a, b}, s = ticket[o].side
      PROVE  depth'[s] = CloseOrder(depth, s, LevelIn(ticket, o), Settling(o))[s]
  <2>1. depth'[s] = IF InDepth(o) THEN CloseOrder(depth, s, Level(o), ToClose(o))[s] ELSE depth[s]
    BY <1>3, <1>4, <1>7 DEF Settle
  <2>2. o \in Orders /\ Level(o) = LevelIn(ticket, o)
    BY <1>4, <1>6
  <2>3. CASE InDepth(o)
    BY <1>5, <2>1, <2>2, <2>3
  <2>4. CASE ~InDepth(o)
    <3>1. Settling(o) = 0 /\ depth'[s] = depth[s]
      BY <1>5, <2>1, <2>4
    <3>2. \A l \in Levels : CloseOrder(depth, s, l, 0)[s] = depth[s]
      BY <1>6 DEF CloseOrder, Depths
    <3> QED
      BY <1>6, <2>2, <3>1, <3>2
  <2> QED
    BY <2>3, <2>4
<1>8. /\ depth'["ask"] = CloseOrder(depth, "ask", LevelIn(ticket, a), Settling(a))["ask"]
      /\ depth'["bid"] = CloseOrder(depth, "bid", LevelIn(ticket, b), Settling(b))["bid"]
  BY <1>4, <1>7
<1>9. /\ Due'[a] = Due[a] - Settling(a) /\ Due'[b] = Due[b] - Settling(b)
      /\ Settling(a) <= Due[a] /\ Settling(b) <= Due[b]
      /\ \A x \in Orders \ {a, b} : Due'[x] = Due[x]
  <2>1. \A x \in Orders : Due'[x] = Wanted(x)
    BY <1>2, <1>6 DEF Due
  <2>2. \A x \in Orders \ {a, b} : Settling(x) = 0
    BY <1>4 DEF Settling
  <2> QED
    BY <1>4, <1>6, <2>1, <2>2
<1>10. Fits(ticket, depth', Due')
  <2>1. PICK t, d, f, e, g, n, m :
          /\ t = ticket /\ d = depth /\ f = Due /\ e = depth' /\ g = Due'
          /\ n = Settling(a) /\ m = Settling(b)
    OBVIOUS
  <2>2. /\ d \in Depths /\ f \in [Orders -> Nat] /\ Fits(t, d, f)
        /\ n \in Nat /\ m \in Nat /\ n <= f[a] /\ m <= f[b]
    BY <1>4, <1>6, <1>9, <2>1 DEF DepthInv
  <2>3. /\ t[a].side = "ask" /\ t[b].side = "bid"
        /\ LevelIn(t, a) \in Levels /\ LevelIn(t, b) \in Levels
    BY <1>4, <1>6, <2>1
  <2>4. /\ e["ask"] = CloseOrder(d, "ask", LevelIn(t, a), n)["ask"]
        /\ e["bid"] = CloseOrder(d, "bid", LevelIn(t, b), m)["bid"]
    BY <1>8, <2>1
  <2>5. g[a] = f[a] - n /\ g[b] = f[b] - m /\ \A x \in Orders \ {a, b} : g[x] = f[x]
    BY <1>9, <2>1
  <2>6. TakenOnBothSides(t, d, f, a, n, b, m, e, g)
    BY <1>4, <2>2, <2>3, <2>4, <2>5 DEF TakenOnBothSides
  <2>7. Fits(t, e, g)
    BY <2>6, BothTaken
  <2> QED
    BY <2>1, <2>7
<1> QED
  BY <1>2, <1>10 DEF DepthInv

\* The end of an iteration takes the order matched out of its queue, and no other.
LEMMA FinishQueue ==
  ASSUME IInv, Heads, Finish \/ FinishClearing, FinishClearing => matcher.held = {}
  PROVE  queue' = [queue EXCEPT ![Other(Side(matcher.inc))] =
                     (IF ResDone THEN @ \ {matcher.res} ELSE @) \cup matcher.held]
<1> DEFINE i == matcher.inc
           r == matcher.res
           s == Other(Side(i))
<1>1. TypeOK /\ InMatch /\ matcher.pc = "finish" /\ matcher.pc \in MatchSteps
  BY DEF IInv, Finish, FinishClearing, MatchSteps
<1>2. s \in Sides /\ queue \in [Sides -> SUBSET Orders]
  BY <1>1, PartiesPlaced, TicketParts DEF IInv, TypeOK, Other
<1>3. r \in queue[s] /\ r \in Tops(queue[s])
  BY <1>1 DEF InMatch, Heads, Tops
<1> HIDE DEF i, r, s
<1>4. Popped(queue[s], r) = {r}
  BY <1>3 DEF Popped
<1>5. CASE Finish
  BY <1>4, <1>5 DEF Finish, i, r, s
<1>6. CASE FinishClearing
  <2>1. s = "ask"
    BY <1>1, <1>6 DEF InMatch, FinishClearing, MatchSteps, Other, s, i
  <2>2. matcher.held = {} /\ queue["ask"] \cup matcher.held = queue[s]
    BY <1>6, <2>1
  <2>3. queue' = [queue EXCEPT !["ask"] = IF ResDone THEN queue[s] \ {r} ELSE queue[s]]
    BY <1>4, <1>6, <2>2 DEF FinishClearing, r
  <2> QED
    BY <1>2, <2>1, <2>2, <2>3 DEF i, r, s
<1> QED
  BY <1>5, <1>6 DEF i, r, s

\* The orders that leave the book are closed, and their cancellation, if any, is not passed on.
LEMMA FinishDepth ==
  ASSUME IInv, IInv', DepthInv, Heads, Done, Ends, Agreed, Finish \/ FinishClearing,
         FinishClearing => matcher.held = {}
  PROVE  DepthInv'
<1>1. /\ TypeOK /\ Places /\ InMatch /\ OpenUntilMatched
      /\ matcher.pc = "finish" /\ matcher.pc \in MatchSteps \ {"fill"}
  BY DEF IInv, DepthInv, Finish, FinishClearing, MatchSteps
<1>2. PICK i, r, s : i = matcher.inc /\ r = matcher.res /\ s = Other(Side(i))
  OBVIOUS
<1>3. /\ i \in Orders /\ r \in Orders /\ s \in Sides /\ queue \in [Sides -> SUBSET Orders]
      /\ matcher.held \subseteq Orders /\ InHand = {i} /\ r \in queue[s]
  BY <1>1, <1>2, PartiesPlaced, TicketParts DEF TypeOK, Other, InHand, InMatch
<1>4. /\ UNCHANGED <<ticket, mem, filled, stage, cancelling, unloaded, depth>>
      /\ IncDone \/ ResDone
  BY <1>1 DEF Finish, FinishClearing, Ends
<1>5. queue' = [queue EXCEPT ![s] = (IF ResDone THEN @ \ {r} ELSE @) \cup matcher.held]
  BY <1>2, FinishQueue
<1>6. (IncDone => mem[i].closed) /\ (ResDone => mem[r].closed)
  BY <1>1, <1>2, <1>3 DEF Done, Agreed
<1>7. ~IncDone => ~mem[i].closed
  BY <1>1, <1>2 DEF OpenUntilMatched
<1>8. /\ matcher'.held = {} /\ matcher'.pc \in {"idle", "seek", "clear"}
      /\ matcher'.pc = "seek" => matcher'.inc = i /\ ~IncDone
      /\ ~IncDone => matcher'.pc = "seek"
      /\ matcher'.pc = "clear" => ~serving
      /\ serving' = serving
  <2>1. CASE Finish
    BY <1>2, <1>4, <2>1 DEF Finish, At
  <2>2. CASE FinishClearing
    <3>1. serving = FALSE
      BY <1>1, <2>2 DEF FinishClearing, TypeOK
    <3>2. serving' = FALSE
      BY <1>4, <2>2 DEF FinishClearing
    <3>3. CASE IncDone
      BY <2>2, <3>1, <3>2, <3>3 DEF FinishClearing, At
    <3>4. CASE ~IncDone
      BY <1>2, <1>4, <2>2, <3>1, <3>2, <3>4 DEF FinishClearing, At
    <3> QED
      BY <3>3, <3>4
  <2> QED
    BY <2>1, <2>2
<1>9. Queued' = (Queued \cup matcher.held) \ (IF ResDone THEN {r} ELSE {})
  <2>1. queue["ask"] \cap queue["bid"] = {} /\ r \notin matcher.held
    BY <1>1, <1>3 DEF Places, HeldOnce, Queued
  <2> QED
    BY <1>3, <1>5, <2>1 DEF Queued
<1>10. InHand' = IF IncDone THEN {} ELSE {i}
  BY <1>8 DEF InHand
<1>11. \A o \in Orders : ~mem[o].closed => (o \in InBook' <=> o \in InBook)
  BY <1>3, <1>6, <1>8, <1>9, <1>10 DEF InBook
<1>12. \A o \in Orders : (Wanted(o) + Settling(o))' = Wanted(o) + Settling(o)
  <2> TAKE o \in Orders
  <2>1. Settling(o) = 0 /\ Settling(o)' = 0
    BY <1>1, <1>8 DEF Settling
  <2>2. Unfilled(o)' = Unfilled(o) /\ (Passing(o)' <=> Passing(o)) /\ mem' = mem
    BY <1>4 DEF Unfilled, Qty, Passing
  <2>3. Wanted(o)' = Wanted(o)
    BY <1>11, <2>2 DEF Wanted
  <2> QED
    BY <2>1, <2>3
<1>13. OpenUntilMatched'
  <2>1. matcher'.pc \in MatchSteps \cup {"seek"} => ~mem'[matcher'.inc].closed
    BY <1>4, <1>7, <1>8 DEF MatchSteps
  <2>2. ~serving' => cancelling' = {} /\ \A o \in Queued' \cup matcher'.held : ~mem'[o].closed
    BY <1>1, <1>2, <1>4, <1>8, <1>9 DEF OpenUntilMatched
  <2>3. matcher'.pc \notin {"settle", "load"} /\ (matcher'.pc = "clear" => ~serving')
    BY <1>8
  <2> QED
    BY <1>1, <1>4, <2>1, <2>2, <2>3 DEF OpenUntilMatched
<1> QED
  BY <1>4, <1>12, <1>13, DepthSame DEF DepthInv

\* A restart empties the depth, and loadOldOrders puts each open order back.
LEMMA RestartDepth ==
  ASSUME IInv, DepthInv, Agreed, NoStopOrders, Restart
  PROVE  DepthInv'
<1>1. TypeOK /\ Places /\ OpenUntilMatched
  BY DEF IInv, DepthInv
<1>2. /\ mem' = saved /\ cancelling' = {} /\ queue' = NoQueue /\ depth' = NoDepth
      /\ matcher' = At("load") /\ serving' = FALSE /\ unloaded' = OpenInDatabase
      /\ stage' = [o \in Orders |-> IF o <= placed THEN "added" ELSE "new"]
      /\ UNCHANGED <<ticket, placed>>
  BY DEF Restart
<1>3. matcher'.pc = "load" /\ matcher'.held = {}
  BY <1>2 DEF At
<1>4. Queued' = {} /\ InHand' = {}
  BY <1>2, <1>3 DEF Queued, NoQueue, InHand
<1>5. InBook' = {}
  BY <1>3, <1>4 DEF InBook
<1>6. OpenUntilMatched'
  <2>1. ASSUME NEW o \in Orders, stage'[o] # "added" PROVE ~mem'[o].closed
    <3>1. o \in Nat /\ placed \in Nat /\ placed < o
      BY <1>1, <1>2, <2>1, BoundsAssumption DEF TypeOK
    <3>2. stage[o] # "added"
      BY <1>1, <3>1 DEF Places
    <3> QED
      BY <1>1, <1>2, <3>2 DEF OpenUntilMatched, Agreed
  <2>2. \A o \in unloaded' : ~mem'[o].closed
    BY <1>2 DEF OpenInDatabase
  <2> QED
    BY <1>2, <1>3, <1>4, <2>1, <2>2 DEF OpenUntilMatched, MatchSteps
<1>7. \A o \in Orders : Due'[o] = 0
  BY <1>2, <1>3, <1>5 DEF Due, Wanted, Settling, Passing
<1>8. Fits(ticket, NoDepth, Due')
  BY <1>7, FitsNone
<1> QED
  BY <1>2, <1>6, <1>8 DEF DepthInv

LEMMA LoadOldDepth ==
  ASSUME IInv, IInv', DepthInv, NoStopOrders, NEW o \in Orders, LoadOld(o)
  PROVE  DepthInv'
<1>1. TypeOK /\ Places /\ HeldOnce /\ InMatch /\ OpenUntilMatched
  BY DEF IInv, DepthInv, Places
<1>2. /\ matcher.pc = "load" /\ o \in unloaded /\ ~serving /\ matcher.held = {} /\ InHand = {}
      /\ ~mem[o].closed /\ cancelling = {} /\ o \notin Queued
  BY <1>1 DEF LoadOld, OpenUntilMatched, InMatch, MatchSteps, InHand, HeldOnce
<1>3. /\ unloaded' = unloaded \ {o} /\ queue' = [queue EXCEPT ![Side(o)] = @ \cup {o}]
      /\ depth' = AddOrder(depth, Side(o), Level(o), Unfilled(o))
      /\ UNCHANGED <<ticket, mem, filled, stage, cancelling, matcher, serving>>
  <2>1. mem[o].kind # "StopLoss"
    BY NoOrderChanges
  <2> QED
    BY <2>1 DEF LoadOld
<1>4. Queued' = Queued \cup {o}
  <2>1. Side(o) \in Sides /\ queue \in [Sides -> SUBSET Orders]
    BY <1>1, TicketParts DEF TypeOK
  <2> QED
    BY <1>3, <2>1 DEF Queued
<1>5. InHand' = {}
  BY <1>2, <1>3 DEF InHand
<1>6. InBook = Queued /\ InBook' = Queued \cup {o}
  BY <1>2, <1>3, <1>4, <1>5 DEF InBook
<1>7. OpenUntilMatched'
  BY <1>1, <1>2, <1>3, <1>4 DEF OpenUntilMatched, MatchSteps, Matched
<1>8. \A x \in Orders : /\ Settling(x) = 0 /\ Settling(x)' = 0
                        /\ ~Passing(x) /\ ~Passing(x)' /\ Unfilled(x)' = Unfilled(x)
  BY <1>2, <1>3 DEF Settling, Passing, Unfilled, Qty
<1>9. \A x \in Orders \ {o} : (Wanted(x) + Settling(x))' = Wanted(x) + Settling(x)
  BY <1>3, <1>6, <1>8 DEF Wanted
<1>10. Unfilled(o) \in Nat
  BY DueType
<1>11. (Wanted(o) + Settling(o))' = Wanted(o) + Settling(o) + Unfilled(o)
  <2>1. Wanted(o) = 0 /\ Wanted(o)' = Unfilled(o)
    BY <1>2, <1>3, <1>6, <1>8 DEF Wanted
  <2> QED
    BY <1>8, <1>10, <2>1
<1>12. Fits(ticket, depth, Due)'
  BY <1>3, <1>9, <1>10, <1>11, DepthAdded
<1> QED
  BY <1>7, <1>12 DEF DepthInv

LEMMA StartClearingDepth ==
  ASSUME IInv, IInv', DepthInv, StartClearing
  PROVE  DepthInv'
<1>1. TypeOK /\ InMatch /\ OpenUntilMatched
  BY DEF IInv, DepthInv
<1>2. /\ matcher.pc = "load" /\ matcher' = At("clear") /\ matcher.held = {} /\ ~serving
      /\ UNCHANGED <<ticket, mem, filled, stage, cancelling, unloaded, queue, depth, serving>>
  BY <1>1 DEF StartClearing, InMatch, MatchSteps, OpenUntilMatched
<1>3. matcher'.pc = "clear" /\ matcher'.held = {}
  BY <1>2 DEF At
<1>4. InHand = {} /\ InHand' = {} /\ Queued' = Queued
  BY <1>2, <1>3 DEF InHand, Queued
<1>5. InBook' = InBook
  BY <1>2, <1>3, <1>4 DEF InBook
<1>6. OpenUntilMatched'
  BY <1>1, <1>2, <1>3, <1>4 DEF OpenUntilMatched, MatchSteps, Matched
<1>7. \A o \in Orders : (Wanted(o) + Settling(o))' = Wanted(o) + Settling(o)
  BY <1>2, <1>3, <1>5 DEF Wanted, Settling, Passing, Unfilled, Qty
<1> QED
  BY <1>2, <1>6, <1>7, DepthSame DEF DepthInv

LEMMA InitDepth == Init => DepthInv
<1> SUFFICES ASSUME Init PROVE DepthInv
  OBVIOUS
<1>1. /\ queue = NoQueue /\ depth = NoDepth /\ cancelling = {} /\ serving = TRUE /\ unloaded = {}
      /\ matcher.pc = "idle" /\ matcher.held = {}
      /\ mem = [o \in Orders |-> [kind |-> ticket[o].kind, closed |-> FALSE]]
  BY DEF Init, At
<1>2. Queued = {} /\ InBook = {}
  BY <1>1 DEF Queued, InBook, NoQueue
<1>3. \A o \in Orders : ~mem[o].closed
  BY <1>1
<1>4. OpenUntilMatched
  BY <1>1, <1>2, <1>3 DEF OpenUntilMatched, MatchSteps
<1>5. \A o \in Orders : Due[o] = 0
  BY <1>1, <1>2 DEF Due, Wanted, Settling, Passing
<1> QED
  BY <1>1, <1>4, <1>5, FitsNone DEF DepthInv

LEMMA DepthInvStep ==
  ASSUME IInv, IInv', Tidy, KeptInv, DepthInv, [Next]_vars
  PROVE  DepthInv'
<1>1. /\ TypeOK /\ Agreed /\ Heads /\ Done /\ Ends /\ WakesStopLoss
      /\ NoErrors /\ NoStopOrders /\ AllPayable
  BY DEF IInv, KeptInv, Tidy, Orderly
<1>2. ASSUME NEW o \in Orders, Place(o) \/ Receive(o) \/ CancelOrder(o) \/ LoadOld(o)
      PROVE  DepthInv'
  BY <1>1, <1>2, PlaceDepth, LookDepth, CancelDepth, LoadOldDepth
<1>3. ASSUME NEW o \in Orders, Adding(o) \/ CancelOrderFails(o) PROVE FALSE
  <2>1. ~CancelOrderFails(o)
    BY <1>1, NoFaults DEF CancelOrderFails
  <2>2. ~Adding(o)
    BY <1>1, NoOrderChanges DEF Adding, TriggerOnArrival, StayDormant, Park, SaveTrigger
  <2> QED
    BY <1>3, <2>1, <2>2
<1>4. ASSUME NEW c \in cancelling, CancelInBook(c) PROVE DepthInv'
  BY <1>1, <1>4, CancelInBookDepth
<1>5. CASE SeekAgain \/ ClearNext
  BY <1>1, <1>5, LookDepth
<1>6. CASE FillFindsClosed \/ FillDropsBid \/ FillFails \/ FillTrades
  <2>1. ~FillDropsBid /\ ~FillFails
    BY <1>1, NeverDropped, NoFaults DEF FillFails
  <2> QED
    BY <1>6, <2>1, FillFindsClosedDepth, FillTradesDepth
<1>7. CASE Settle
  BY <1>1, <1>7, SettleDepth
<1>8. ASSUME NEW s \in Sides, Trigger(s) \/ EndTrigger(s) PROVE DepthInv'
  <2>1. ~Trigger(s)
    <3>1. stops[s] = {}
      BY <1>1, NoOrderChanges DEF TypeOK, Dormant
    <3> QED
      BY <3>1 DEF Trigger, StopTops
  <2> QED
    BY <1>8, <2>1, EndTriggerDepth
<1>9. CASE Finish \/ FinishClearing
  <2>1. FinishClearing => matcher.held = {}
    <3>1. NoCrash => ~FinishClearing
      BY DEF KeptInv, Serves, FinishClearing
    <3>2. OneSided => matcher.held = {}
      BY <1>1, NothingSkipped
    <3> QED
      BY <3>1, <3>2 DEF Tidy, Orderly
  <2> QED
    BY <1>1, <1>9, <2>1, FinishDepth
<1>10. CASE Restart
  BY <1>1, <1>10, RestartDepth
<1>11. CASE StartClearing
  BY <1>11, StartClearingDepth
<1>12. CASE UNCHANGED vars
  <2>1. UNCHANGED <<ticket, mem, filled, cancelling, queue, matcher, serving, depth, stage, unloaded>>
    BY <1>12 DEF vars
  <2> QED
    BY <2>1, SameBook
<1>13. ~PushTriggered
  BY <1>1, NothingPushed
<1> QED
  BY <1>2, <1>3, <1>4, <1>5, <1>6, <1>7, <1>8, <1>9, <1>10, <1>11, <1>12, <1>13
  DEF Next, Matching, Startup

\* At rest the depth counts the open orders of the queues and nothing else.
LEMMA DepthAtRest ==
  ASSUME IInv, NoStopOrders, DepthInv
  PROVE  DepthMatches
<1> SUFFICES ASSUME Idle, cancelling = {}, NEW s \in Sides, NEW l \in Prices \cup {Level0}
             PROVE  LET there == {o \in queue[s] : Open(o) /\ Level(o) = l}
                    IN depth[s][l] = SumFunctionOnSet([o \in there |-> Unfilled(o)], there)
  BY DEF DepthMatches
<1>1. PICK there : there = {o \in queue[s] : Open(o) /\ Level(o) = l}
  OBVIOUS
<1>2. PICK level : level = AtLevel(ticket, s, l)
  OBVIOUS
<1>3. TypeOK /\ Places /\ InMatch
  BY DEF IInv
<1>4. queue \in [Sides -> SUBSET Orders] /\ matcher.held = {} /\ serving /\ matcher.pc = "idle"
  BY <1>3 DEF TypeOK, InMatch, MatchSteps, Idle
<1>5. InBook = Queued
  BY <1>4 DEF InBook
<1>6. \A o \in Orders : Due[o] = IF o \in Queued /\ ~mem[o].closed THEN Unfilled(o) ELSE 0
  <2> TAKE o \in Orders
  <2>1. Due[o] = Wanted(o) + Settling(o) /\ Unfilled(o) \in Nat
    BY DueType
  <2>2. Settling(o) = 0 /\ ~Passing(o)
    BY <1>4 DEF Settling, Passing
  <2> QED
    BY <1>5, <2>1, <2>2 DEF Wanted
<1>7. \A o \in Orders : Side(o) = ticket[o].side /\ Level(o) = LevelIn(ticket, o)
  BY LevelKept
<1>8. \A v \in Sides : \A o \in queue[v] : o \in Orders /\ o <= placed /\ Side(o) = v
  BY <1>3, <1>4 DEF Places
<1>9. there \subseteq level
  BY <1>1, <1>2, <1>7, <1>8 DEF AtLevel
<1>10. \A o \in there : o \in Orders /\ Due[o] = Unfilled(o)
  BY <1>1, <1>6, <1>8 DEF Queued, Open
<1>11. \A o \in level \ there : Due[o] = 0
  <2> SUFFICES ASSUME NEW o \in level, o \in Queued, ~mem[o].closed PROVE o \in there
    BY <1>2, <1>6 DEF AtLevel
  <2>1. o \in Orders /\ Side(o) = s /\ Level(o) = l
    BY <1>2, <1>7 DEF AtLevel
  <2>2. o \in queue[s] /\ o <= placed
    BY <1>8, <2>1 DEF Queued
  <2> QED
    BY <1>1, <2>1, <2>2 DEF Open
<1>12. IsFiniteSet(level) /\ IsFiniteSet(there) /\ \A o \in level : Due[o] \in Int
  <2>1. IsFiniteSet(level) /\ level \subseteq Orders
    BY <1>2, LevelFinite
  <2>2. Due \in [Orders -> Nat]
    BY DueType
  <2>3. IsFiniteSet(there)
    BY <1>9, <2>1, FS_Subset
  <2> QED
    BY <2>1, <2>2, <2>3
<1>13. depth[s][l] = SumFunctionOnSet(Due, level)
  BY <1>2 DEF DepthInv, Fits, Levels
<1>14. SumFunctionOnSet(Due, level) = SumFunctionOnSet(Due, there)
  BY <1>9, <1>11, <1>12, SumDrop
<1>15. SumFunctionOnSet(Due, there) = SumFunctionOnSet([o \in there |-> Unfilled(o)], there)
  BY <1>10, <1>12, SumSame
<1> QED
  BY <1>1, <1>13, <1>14, <1>15

\* Without errors, stop-loss orders and cancellations of orders in flight, when every bid can be
\* paid, and with crashes if every user is on one side of the book, the depth is right whenever
\* no step is under way: what is added to it when an order joins its queue or is loaded, and
\* taken out by trades, by cancellations that come late and by the clamp at zero, is what the
\* orders want. (MarketDepth.go's quantities. They go wrong with a bid that cannot be paid,
\* a cancellation in flight, a stop-loss order or an error.)
THEOREM DepthAlwaysMatches == Tidy => (Spec => []DepthMatches)
<1> SUFFICES ASSUME Tidy PROVE Spec => []DepthMatches
  OBVIOUS
<1>0. Orderly /\ NoStopOrders
  BY DEF Tidy, Orderly
<1>1. Init => KeptInv /\ DepthInv
  BY KeptInvInit, InitDepth
<1>2. IInv /\ IInv' /\ KeptInv /\ [Next]_vars => KeptInv'
  BY <1>0, KeptInvStep
<1>3. IInv /\ IInv' /\ KeptInv /\ DepthInv /\ [Next]_vars => DepthInv'
  BY DepthInvStep
<1>4. IInv /\ DepthInv => DepthMatches
  BY <1>0, DepthAtRest
<1> QED
  BY <1>1, <1>2, <1>3, <1>4, Invariant, PTL DEF Spec
=============================================================================
