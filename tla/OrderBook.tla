------------------------------ MODULE OrderBook ------------------------------
(***************************************************************************)
(* The order book of one stock: matchingengine/OrderBook.go with the       *)
(* priority queues (pqueue.go), the trade price (helpers.go), the orders'  *)
(* two copies (the objects of asksMap/bidsMap and the rows of the          *)
(* database) and the quantities of datastreams/MarketDepth.go.             *)
(*                                                                         *)
(* Who acts: the matching goroutine (one per stock, started by             *)
(* StartStockMatching), one goroutine per placed order running             *)
(* AddAskOrder/AddBidOrder, one per cancellation running                   *)
(* models.CancelOrder and then CancelAskOrder/CancelBidOrder, and the      *)
(* crash of the server, after which NewMatchingEngine reloads the orders.  *)
(*                                                                         *)
(* fillOrderFn and models.CancelOrder hold the locks of the users they     *)
(* touch, so each is one step here; UserLocks models those locks.  Money   *)
(* is abstracted to whether a bid can pay.                                 *)
(***************************************************************************)
EXTENDS Integers, FiniteSets, FiniteSetsExt

CONSTANTS
  Users,          \* the traders
  Prices,         \* the prices that occur, in the orders and on the market
  Tickets,        \* the orders that may be placed
  MaxOrders,      \* bound: orders placed in a behaviour
  MaxSeconds,     \* bound: the seconds in which they are placed
  MaxFaults,      \* bound: database or lock errors in a behaviour
  MaxRestarts,    \* bound: crashes of the server in a behaviour
  CancelInFlight  \* whether an order may be cancelled while it is being added

Sides == {"ask", "bid"}
Kinds == {"Limit", "Market", "StopLoss", "StopLossActive"}
Ticket == [side : Sides, user : Users, kind : Kinds \ {"StopLossActive"},
           price : Prices, qty : Nat \ {0}]

ASSUME PricesAssumption == Prices \subseteq Nat \ {0} /\ Prices # {}
ASSUME TicketsAssumption == Tickets \subseteq Ticket
ASSUME BoundsAssumption ==
  MaxOrders \in Nat /\ MaxSeconds \in Nat /\ MaxFaults \in Nat /\ MaxRestarts \in Nat
ASSUME CancelAssumption == CancelInFlight \in BOOLEAN

Orders == 1 .. MaxOrders   \* AUTO_INCREMENT ids

VARIABLES
  ticket,      \* what each order asks for (fixed when it is placed)
  at,          \* CreatedAt of each order, in seconds: ties happen
  placed,      \* orders 1 .. placed are committed to the database
  mem,         \* OrderType and IsClosed of the object the engine holds
  saved,       \* OrderType and IsClosed of the row in the database
  cached,      \* orders whose object is in asksMap/bidsMap, for a cancel to find
  filled,      \* StockQuantityFulfilled, equal in the object and in the row
  stage,       \* where AddAskOrder/AddBidOrder is for each order
  saving,      \* the IsClosed an unfinished TriggerStoploss is about to save
  cancelling,  \* cancels committed but not yet passed on to the book: the order, and
               \* its object ("engine") or the OrderType of a copy loaded from its row
  queue,       \* ob.asks and ob.bids
  stops,       \* ob.askStoploss and ob.bidStoploss
  depth,       \* askDepth and bidDepth
  price,       \* CurrentPrice of the stock
  average,     \* avgLastPrice of the stock, rounded down: price, until a save fails
  matcher,     \* the matching goroutine: its step and its local variables
  serving,     \* StartStockMatching has returned: requests are served
  unloaded,    \* open orders loadOldOrders has still to load
  faults, restarts

submission == <<ticket, at, placed>>
objects == <<mem, saved, cached, filled>>
book == <<queue, stops, depth>>
market == <<price, average>>
counters == <<faults, restarts>>
vars == <<submission, objects, stage, saving, cancelling, book, market,
          matcher, serving, unloaded, counters>>

------------------------------------------------------------------------------
(* Orders *)

None == 0   \* no order; also: no trade price
Level0 == 0 \* the depth's price level of market orders

Other(s) == IF s = "ask" THEN "bid" ELSE "ask"
Side(o) == ticket[o].side
User(o) == ticket[o].user
Qty(o) == ticket[o].qty
Unfilled(o) == Qty(o) - filled[o]
IsMarketKind(k) == k \in {"Market", "StopLossActive"}
IsMarket(o) == IsMarketKind(mem[o].kind)

\* x asks for a better price than y, from the other side's point of view.
Cheaper(x, y) == IF Side(x) = "ask" THEN ticket[x].price < ticket[y].price
                                    ELSE ticket[x].price > ticket[y].price

\* Mutant: a larger order comes before a better priced one.
BetterBySize(x, y) ==
  \/ IsMarket(x) /\ ~IsMarket(y)
  \/ IsMarket(x) = IsMarket(y) /\ Qty(x) > Qty(y)

\* askComparator on ob.asks, bidComparator on ob.bids: x comes before y.
Better(x, y) ==
  \/ IsMarket(x) /\ IsMarket(y) /\ at[x] < at[y]
  \/ IsMarket(x) /\ ~IsMarket(y)
  \/ /\ ~IsMarket(x) /\ ~IsMarket(y)
     /\ Cheaper(x, y) \/ (ticket[x].price = ticket[y].price /\ Qty(x) > Qty(y))

\* The orders that may be at the head of a queue. Of equal ones the heap keeps
\* one that depends on its history: any of them here.
Tops(q) == {x \in q : ~ \E y \in q : Better(y, x)}

\* What Pop returns after the head was r and orders were pushed on top of it:
\* r keeps its place unless some order comes before it.
Popped(q, r) == IF r \in Tops(q) THEN {r} ELSE Tops(q)

\* Mutant: stop-loss queues ordered like the others.
StopTopsAsQueue(q) == Tops(q)

\* Stop-loss queues are ordered the other way round by price.
StopTops(q) == {x \in q : ~ \E y \in q :
                  \/ Cheaper(x, y)
                  \/ ticket[x].price = ticket[y].price /\ Qty(y) > Qty(x)}

\* The market price p triggers the stop-loss order o.
Reached(o, p) == IF Side(o) = "ask" THEN p <= ticket[o].price
                                    ELSE p >= ticket[o].price

IsOrderMatching(a, b) ==
  IsMarket(a) \/ IsMarket(b) \/ ticket[b].price >= ticket[a].price

\* Mutant: a limit order trades with a market order at the market price.
TradePriceOfMarket(a, b) ==
  IF IsMarket(a) \/ IsMarket(b) THEN price
  ELSE IF at[a] < at[b] THEN ticket[a].price ELSE ticket[b].price

TradePrice(a, b) ==
  CASE IsMarket(a) /\ IsMarket(b) -> price
    [] IsMarket(a) /\ ~IsMarket(b) -> ticket[b].price
    [] ~IsMarket(a) /\ IsMarket(b) -> ticket[a].price
    [] OTHER -> IF at[a] < at[b] THEN ticket[a].price ELSE ticket[b].price

\* Mutant: forgets what an order has been filled before.
TradeQtyWhole(a, b) == IF Qty(a) < Qty(b) THEN Qty(a) ELSE Qty(b)

TradeQty(a, b) == IF Unfilled(a) < Unfilled(b) THEN Unfilled(a) ELSE Unfilled(b)

(* The market depth: quantities by price level *)

LevelOf(o, kind) == IF IsMarketKind(kind) THEN Level0 ELSE ticket[o].price
Level(o) == LevelOf(o, mem[o].kind)
AddOrder(d, s, level, n) == [d EXCEPT ![s][level] = @ + n]
\* Mutant: the depth may become negative.
CloseOrderUnclamped(d, s, level, n) == [d EXCEPT ![s][level] = @ - n]

CloseOrder(d, s, level, n) == [d EXCEPT ![s][level] = IF n > @ THEN 0 ELSE @ - n]
NoDepth == [s \in Sides |-> [p \in Prices \cup {Level0} |-> 0]]

(* The matching goroutine's local state *)

Statuses == {"closed", "done", "undone"}   \* AlreadyClosed, Done, Undone
Steps == {"idle", "seek", "fill", "settle", "trigger ask", "trigger bid",
          "push", "finish", "load", "clear"}
At(step) == [pc |-> step, inc |-> None, res |-> None, held |-> {}, trig |-> None,
             incSt |-> "undone", resSt |-> "undone", tr |-> None, qty |-> 0]
TriggerStep(s) == IF s = "ask" THEN "trigger ask" ELSE "trigger bid"
NoQueue == [s \in Sides |-> {}]

Init ==
  /\ ticket \in [Orders -> Tickets]
  /\ at \in [Orders -> 1 .. MaxSeconds]
  /\ \A o \in Orders : o > 1 => at[o] \in {at[o - 1], at[o - 1] + 1}
  /\ \A o \in Orders : at[1] = 1
  /\ placed = 0
  /\ mem = [o \in Orders |-> [kind |-> ticket[o].kind, closed |-> FALSE]]
  /\ saved = mem
  /\ cached = Orders
  /\ filled = [o \in Orders |-> 0]
  /\ stage = [o \in Orders |-> "new"]
  /\ saving = [o \in Orders |-> "no"]
  /\ cancelling = {}
  /\ queue = NoQueue /\ stops = NoQueue /\ depth = NoDepth
  /\ price \in Prices /\ average = price
  /\ matcher = At("idle")
  /\ serving = TRUE
  /\ unloaded = {}
  /\ faults = 0 /\ restarts = 0

Fault == faults < MaxFaults /\ faults' = faults + 1
NoFault == UNCHANGED faults
------------------------------------------------------------------------------
(* Placing an order: AddAskOrder, AddBidOrder *)

\* PlaceAskOrder/PlaceBidOrder committed the order; "go AddAskOrder" follows.
Place(o) ==
  /\ serving
  /\ o = placed + 1
  /\ placed' = o
  /\ stage' = [stage EXCEPT ![o] = IF mem[o].kind = "StopLoss" THEN "check" ELSE "send"]
  /\ UNCHANGED <<ticket, at, objects, saving, cancelling, book, market,
                 matcher, serving, unloaded, counters>>

\* TriggerStoploss up to its db.Save, which writes the whole row as it was now.
StartTrigger(o) ==
  /\ mem' = [mem EXCEPT ![o].kind = "StopLossActive"]
  /\ saving' = [saving EXCEPT ![o] = IF mem[o].closed THEN "closed" ELSE "open"]

\* db.Save of TriggerStoploss; its error is logged or ignored.
SaveTrigger(o) ==
  /\ saving[o] # "no"
  /\ saving' = [saving EXCEPT ![o] = "no"]
  /\ \/ /\ saved' = [saved EXCEPT ![o] = [kind |-> "StopLossActive",
                                          closed |-> saving[o] = "closed"]]
        /\ NoFault
     \/ Fault /\ UNCHANGED saved
  /\ UNCHANGED <<submission, mem, cached, filled, stage, cancelling, book, market,
                 matcher, serving, unloaded, restarts>>

\* A new stop-loss order whose trigger price the market has already reached.
TriggerOnArrival(o) ==
  /\ stage[o] = "check"
  /\ Reached(o, price)
  /\ StartTrigger(o)
  /\ stage' = [stage EXCEPT ![o] = "send"]
  /\ UNCHANGED <<submission, saved, cached, filled, cancelling, book, market,
                 matcher, serving, unloaded, counters>>

\* ... or has not: it will go to the stop-loss queue.
StayDormant(o) ==
  /\ stage[o] = "check"
  /\ ~Reached(o, price)
  /\ stage' = [stage EXCEPT ![o] = "park"]
  /\ UNCHANGED <<submission, objects, saving, cancelling, book, market,
                 matcher, serving, unloaded, counters>>

Park(o) ==
  /\ stage[o] = "park"
  /\ stage' = [stage EXCEPT ![o] = "added"]
  /\ stops' = [stops EXCEPT ![Side(o)] = @ \cup {o}]
  /\ UNCHANGED <<submission, objects, saving, cancelling, queue, depth, market,
                 matcher, serving, unloaded, counters>>

------------------------------------------------------------------------------
(* Cancelling an order: models.CancelOrder, then CancelAskOrder/CancelBidOrder *)

Resting(o) == \E s \in Sides : o \in queue[s] \cup stops[s] \cup matcher.held
MayCancel(o) == serving /\ o <= placed /\ (CancelInFlight \/ Resting(o))

\* Close (which also drops the order from the map), the CancelOrderTransaction and the
\* commit, under the user's lock.  An order that is not in the map is closed through a
\* copy of its row.
CancelOrder(o) ==
  /\ MayCancel(o)
  /\ IF o \in cached
     THEN /\ ~mem[o].closed
          /\ mem' = [mem EXCEPT ![o].closed = TRUE]
          /\ saved' = [saved EXCEPT ![o] = mem'[o]]
          /\ cached' = cached \ {o}
          /\ cancelling' = cancelling \cup {[order |-> o, object |-> "engine"]}
     ELSE /\ ~saved[o].closed
          /\ saved' = [saved EXCEPT ![o].closed = TRUE]
          /\ cancelling' = cancelling \cup {[order |-> o, object |-> saved[o].kind]}
          /\ UNCHANGED <<mem, cached>>
  /\ UNCHANGED <<submission, filled, stage, saving, book, market,
                 matcher, serving, unloaded, counters>>

\* An error after Close marked the object: the transaction is rolled back, the
\* object stays closed, and Close may already have dropped it from the map.
CancelOrderFails(o) ==
  /\ MayCancel(o)
  /\ Fault
  /\ o \in cached /\ ~mem[o].closed
  /\ mem' = [mem EXCEPT ![o].closed = TRUE]
  /\ cached' \in {cached, cached \ {o}}
  /\ UNCHANGED <<submission, saved, filled, stage, saving, cancelling, book, market,
                 matcher, serving, unloaded, restarts>>

\* CancelAskOrder/CancelBidOrder: only the depth is updated.
CancelInBook(c) ==
  LET o == c.order
      kind == IF c.object = "engine" THEN mem[o].kind ELSE c.object
  IN /\ cancelling' = cancelling \ {c}
     /\ depth' = IF kind = "StopLoss" THEN depth
                 ELSE CloseOrder(depth, Side(o), LevelOf(o, kind), Unfilled(o))
     /\ UNCHANGED <<submission, objects, stage, saving, queue, stops, market,
                    matcher, serving, unloaded, counters>>

------------------------------------------------------------------------------
(* The matching goroutine: processAsk, processBid *)

\* Mutant: looks at the head of the queue only.
BestOfHead(i, q) == {r \in Tops(q[Other(Side(i))]) : User(r) # User(i)}

\* The best orders of other users that the order i may trade with, in q.
BestOf(i, q) ==
  LET others == {r \in q[Other(Side(i))] : User(r) # User(i)}
  IN {r \in others : ~ \E x \in others : Better(x, r)}

Matches(i, r) == IF Side(i) = "ask" THEN IsOrderMatching(i, r)
                                     ELSE IsOrderMatching(r, i)

\* The own orders of i's user popped on the way to r: those before r, and any of
\* those equal to r.
PoppedOnTheWay(i, r, q) ==
  LET own == {x \in q[Other(Side(i))] : User(x) = User(i)}
      before == {x \in own : Better(x, r)}
      equal == {x \in own : ~Better(x, r) /\ ~Better(r, x)}
  IN {before \cup e : e \in SUBSET equal}

\* Mutant: the own orders on the way are read but not popped.
StartMatchPeeks(i, q) ==
  \E r \in BestOf(i, q) :
    /\ Matches(i, r)
    /\ \E h \in PoppedOnTheWay(i, r, q) :
         matcher' = [At("fill") EXCEPT !.inc = i, !.res = r, !.held = h]
    /\ queue' = q
    /\ UNCHANGED <<depth, serving>>

\* getTopMatchingBid/getTopMatchingAsk found r for i, which is in no queue.
StartMatch(i, q) ==
  \E r \in BestOf(i, q) :
    /\ Matches(i, r)
    /\ \E h \in PoppedOnTheWay(i, r, q) :
         /\ matcher' = [At("fill") EXCEPT !.inc = i, !.res = r, !.held = h]
         /\ queue' = [q EXCEPT ![Other(Side(i))] = @ \ h]
    /\ UNCHANGED <<depth, serving>>

\* They found none: i is pushed on its own queue.  At startup i is already in
\* the depth, and StartStockMatching returns.
PutInQueue(i, q) ==
  /\ \A r \in BestOf(i, q) : ~Matches(i, r)
  /\ queue' = [q EXCEPT ![Side(i)] = @ \cup {i}]
  /\ depth' = IF serving THEN AddOrder(depth, Side(i), Level(i), Unfilled(i)) ELSE depth
  /\ matcher' = At("idle")
  /\ serving' = TRUE

\* waitForOrder takes a new order from askChan or bidChan.
Receive(o) ==
  /\ serving /\ matcher.pc = "idle"
  /\ stage[o] = "send" /\ saving[o] = "no"
  /\ stage' = [stage EXCEPT ![o] = "added"]
  /\ StartMatch(o, queue) \/ PutInQueue(o, queue)
  /\ UNCHANGED <<submission, objects, saving, cancelling, stops, market,
                 unloaded, counters>>

\* The loop of processAsk, processBid and clearExistingOrders goes on.
SeekAgain ==
  /\ matcher.pc = "seek"
  /\ StartMatch(matcher.inc, queue) \/ PutInQueue(matcher.inc, queue)
  /\ UNCHANGED <<submission, objects, stage, saving, cancelling, stops, market,
                 unloaded, counters>>
(* makeTrade, with PerformOrderFillTransaction as fillOrderFn *)

MatchedAsk == IF Side(matcher.inc) = "ask" THEN matcher.inc ELSE matcher.res
MatchedBid == IF Side(matcher.inc) = "bid" THEN matcher.inc ELSE matcher.res

\* fillOrderFn returns: the status of the two orders, and the price and the quantity
\* of the trade.
FillReturns(incSt, resSt, tr, n) ==
  matcher' = [matcher EXCEPT !.pc = "settle", !.incSt = incSt, !.resSt = resSt,
                             !.tr = tr, !.qty = n]

\* The bid's reserve covers a trade at p, whatever cash the bidder has left: a
\* limit bid reserved its limit, a stop-loss bid its trigger price.
Covered(b, p) == ticket[b].kind # "Market" /\ p <= ticket[b].price

\* Mutant: only the order in hand is checked again under the locks.
BothOpenUnchecked == ~mem[matcher.inc].closed

BothOpen == ~mem[matcher.inc].closed /\ ~mem[matcher.res].closed

\* An order was cancelled before the user locks were obtained.
FillFindsClosed ==
  LET st(o) == IF mem[o].closed THEN "closed" ELSE "undone"
  IN /\ matcher.pc = "fill"
     /\ ~BothOpen
     /\ FillReturns(st(matcher.inc), st(matcher.res), None, 0)
     /\ UNCHANGED <<submission, objects, stage, saving, cancelling, book, market,
                    serving, unloaded, counters>>

\* The bidder cannot pay: the bid is closed, and what it reserved is returned.
FillDropsBid ==
  LET a == MatchedAsk  b == MatchedBid
      st(o) == IF o = b THEN "done" ELSE "undone"
  IN /\ matcher.pc = "fill"
     /\ BothOpen
     /\ ~Covered(b, TradePrice(a, b))
     /\ mem' = [mem EXCEPT ![b].closed = TRUE]
     /\ saved' = [saved EXCEPT ![b] = mem'[b]]
     /\ cached' = cached \ {b}
     /\ FillReturns(st(matcher.inc), st(matcher.res), None, 0)
     /\ UNCHANGED <<submission, filled, stage, saving, cancelling, book,
                    market, serving, unloaded, counters>>

\* The locks, the reserve or the transaction failed: everything is as before,
\* except that Close of an unpayable bid may have dropped it from bidsMap.
FillFails ==
  LET a == MatchedAsk  b == MatchedBid
      unpayable == BothOpen /\ ~Covered(b, TradePrice(a, b))
  IN /\ matcher.pc = "fill"
     /\ Fault
     /\ FillReturns("undone", "undone", None, 0)
     /\ cached' \in {cached} \cup (IF unpayable THEN {cached \ {b}} ELSE {})
     /\ UNCHANGED <<submission, mem, saved, filled, stage, saving, cancelling,
                    book, market, serving, unloaded, restarts>>

\* UpdateStockPrice moves the average some way towards the price of the trade; as a
\* rounding error may be cut off with the fraction, it can end up one lower.
Averages(p) == {x \in Prices : \/ average <= x /\ x <= p
                               \/ p - 1 <= x /\ x <= average}

\* The trade: both orders are written back whole, then UpdateStockPrice runs.  When
\* its save fails the price is put back, not the average; the error is suppressed.
FillTrades ==
  LET a == MatchedAsk  b == MatchedBid
      p == TradePrice(a, b)
      n == TradeQty(a, b)
      closes(o) == filled[o] + n = Qty(o)
      st(o) == IF closes(o) THEN "done" ELSE "undone"
  IN /\ matcher.pc = "fill"
     /\ BothOpen
     /\ filled' = [filled EXCEPT ![a] = @ + n, ![b] = @ + n]
     /\ mem' = [mem EXCEPT ![a].closed = closes(a), ![b].closed = closes(b)]
     /\ saved' = [saved EXCEPT ![a] = mem'[a], ![b] = mem'[b]]
     /\ average' \in Averages(p)
     /\ \/ price' = average' /\ NoFault
        \/ Fault /\ UNCHANGED price
     /\ FillReturns(st(matcher.inc), st(matcher.res), p, n)
     /\ UNCHANGED <<submission, cached, stage, saving, cancelling, book, serving,
                    unloaded, restarts>>

\* The quantity makeTrade takes out of the depth for a party of the match.
ToClose(o) ==
  LET st == IF o = matcher.inc THEN matcher.incSt ELSE matcher.resSt
  IN IF matcher.tr # None THEN matcher.qty
     ELSE IF st = "closed" THEN 0 ELSE Unfilled(o)

\* Mutant: closes the depth of an order that was never added to it.
InDepthAlways(o) == TRUE

\* An order being processed is not in the depth yet; at startup all are.
InDepth(o) == o = matcher.res \/ ~serving

Settle ==
  /\ matcher.pc = "settle"
  /\ LET party == [s \in Sides |-> IF s = "ask" THEN MatchedAsk ELSE MatchedBid]
     IN depth' = [s \in Sides |->
                    IF InDepth(party[s])
                    THEN CloseOrder(depth, s, Level(party[s]), ToClose(party[s]))[s]
                    ELSE depth[s]]
  /\ matcher' = [matcher EXCEPT !.pc = IF matcher.tr = None THEN "finish" ELSE "trigger ask"]
  /\ UNCHANGED <<submission, objects, stage, saving, cancelling, queue, stops,
                 market, serving, unloaded, counters>>

(* triggerStopLosses *)

Trigger(s) ==
  /\ matcher.pc = TriggerStep(s)
  /\ \E o \in StopTops(stops[s]) :
       /\ Reached(o, matcher.tr)
       /\ StartTrigger(o)
       /\ stops' = [stops EXCEPT ![s] = @ \ {o}]
       /\ matcher' = [matcher EXCEPT !.pc = "push", !.trig = o]
  /\ UNCHANGED <<submission, saved, cached, filled, stage, cancelling, queue,
                 depth, market, serving, unloaded, counters>>

PushTriggered ==
  LET o == matcher.trig
  IN /\ matcher.pc = "push"
     /\ saving[o] = "no"
     /\ queue' = [queue EXCEPT ![Side(o)] = @ \cup {o}]
     /\ depth' = AddOrder(depth, Side(o), Level0, Qty(o))
     /\ matcher' = [matcher EXCEPT !.pc = TriggerStep(Side(o)), !.trig = None]
     /\ UNCHANGED <<submission, objects, stage, saving, cancelling, stops, market,
                    serving, unloaded, counters>>

EndTrigger(s) ==
  /\ matcher.pc = TriggerStep(s)
  /\ \A o \in StopTops(stops[s]) : ~Reached(o, matcher.tr)
  /\ matcher' = [matcher EXCEPT !.pc = IF s = "ask" THEN "trigger bid" ELSE "finish"]
  /\ UNCHANGED <<submission, objects, stage, saving, cancelling, book, market,
                 serving, unloaded, counters>>

------------------------------------------------------------------------------
(* The end of an iteration: the queue is popped and the own orders are pushed  *)
(* back                                                                        *)

\* Mutants: a resting order is popped after every match, an order found closed is left in
\* its queue.
ResDoneAlways == TRUE
ResDoneUnlessClosed == matcher.resSt = "done"

IncDone == matcher.incSt # "undone"
ResDone == matcher.resSt # "undone"

\* processAsk and processBid pop first.  On an error the order in hand is dropped.
Finish ==
  LET s == Other(Side(matcher.inc))
  IN /\ serving /\ matcher.pc = "finish"
     /\ \E gone \in Popped(queue[s], matcher.res) :
          queue' = [queue EXCEPT ![s] =
                      (IF ResDone THEN @ \ {gone} ELSE @) \cup matcher.held]
     /\ matcher' = IF IncDone \/ ~ResDone THEN At("idle")
                   ELSE [At("seek") EXCEPT !.inc = matcher.inc]
     /\ UNCHANGED <<submission, objects, stage, saving, cancelling, stops, depth,
                    market, serving, unloaded, counters>>

\* clearExistingOrders pushes them back first.  On an error it returns.
FinishClearing ==
  LET asks == queue["ask"] \cup matcher.held
  IN /\ ~serving /\ matcher.pc = "finish"
     /\ \E gone \in Popped(asks, matcher.res) :
          queue' = [queue EXCEPT !["ask"] = IF ResDone THEN asks \ {gone} ELSE asks]
     /\ matcher' = CASE IncDone -> At("clear")
                     [] ~IncDone /\ ResDone -> [At("seek") EXCEPT !.inc = matcher.inc]
                     [] OTHER -> At("idle")
     /\ serving' = (~IncDone /\ ~ResDone)
     /\ UNCHANGED <<submission, objects, stage, saving, cancelling, stops, depth,
                    market, unloaded, counters>>
------------------------------------------------------------------------------
(* Crash and startup: loadOldOrders, LoadOldAsk/LoadOldBid, clearExistingOrders *)

OpenInDatabase == {o \in 1 .. placed : ~saved[o].closed}

Restart ==
  /\ restarts < MaxRestarts /\ restarts' = restarts + 1
  /\ mem' = saved
  /\ cached' = {o \in Orders : ~saved[o].closed}
  /\ stage' = [o \in Orders |-> IF o <= placed THEN "added" ELSE "new"]
  /\ saving' = [o \in Orders |-> "no"]
  /\ cancelling' = {}
  /\ queue' = NoQueue /\ stops' = NoQueue /\ depth' = NoDepth
  /\ matcher' = At("load")
  /\ serving' = FALSE
  /\ unloaded' = OpenInDatabase
  /\ average' = price   \* LoadStocks
  /\ UNCHANGED <<submission, saved, filled, price, faults>>

LoadOld(o) ==
  /\ matcher.pc = "load"
  /\ o \in unloaded /\ \A x \in unloaded : o <= x
  /\ unloaded' = unloaded \ {o}
  /\ IF mem[o].kind = "StopLoss"
     THEN /\ stops' = [stops EXCEPT ![Side(o)] = @ \cup {o}]
          /\ UNCHANGED <<queue, depth>>
     ELSE /\ queue' = [queue EXCEPT ![Side(o)] = @ \cup {o}]
          /\ depth' = AddOrder(depth, Side(o), Level(o), Unfilled(o))
          /\ UNCHANGED stops
  /\ UNCHANGED <<submission, objects, stage, saving, cancelling, market, matcher,
                 serving, counters>>

StartClearing ==
  /\ matcher.pc = "load" /\ unloaded = {}
  /\ matcher' = At("clear")
  /\ UNCHANGED <<submission, objects, stage, saving, cancelling, book, market,
                 serving, unloaded, counters>>

\* clearExistingOrders takes the next bid from the queue, if there is one.
ClearNext ==
  /\ matcher.pc = "clear"
  /\ IF queue["bid"] = {}
     THEN matcher' = At("idle") /\ serving' = TRUE /\ UNCHANGED <<queue, depth>>
     ELSE \E b \in Tops(queue["bid"]) :
            LET rest == [queue EXCEPT !["bid"] = @ \ {b}]
            IN StartMatch(b, rest) \/ PutInQueue(b, rest)
  /\ UNCHANGED <<submission, objects, stage, saving, cancelling, stops, market,
                 unloaded, counters>>

------------------------------------------------------------------------------

Matching ==
  \/ SeekAgain
  \/ FillFindsClosed \/ FillDropsBid \/ FillFails \/ FillTrades
  \/ Settle
  \/ \E s \in Sides : Trigger(s) \/ EndTrigger(s)
  \/ PushTriggered
  \/ Finish

Startup ==
  \/ \E o \in Orders : LoadOld(o)
  \/ StartClearing \/ ClearNext \/ FinishClearing

Adding(o) == TriggerOnArrival(o) \/ StayDormant(o) \/ Park(o) \/ SaveTrigger(o)

Next ==
  \/ \E o \in Orders :
       \/ Place(o) \/ Adding(o) \/ Receive(o)
       \/ CancelOrder(o) \/ CancelOrderFails(o)
  \/ \E c \in cancelling : CancelInBook(c)
  \/ Matching
  \/ Startup
  \/ Restart

Spec == Init /\ [][Next]_vars

\* Every goroutine that can run does; users place and cancel as they like.  Go's
\* select picks a ready channel at random, so no waiting order is passed over for
\* ever; a behaviour has MaxOrders orders, so weak fairness says as much.
Fairness ==
  /\ WF_vars(Matching) /\ WF_vars(Startup)
  /\ \A o \in Orders : WF_vars(Adding(o)) /\ WF_vars(Receive(o))
  /\ WF_vars(\E c \in cancelling : CancelInBook(c))

FairSpec == Spec /\ Fairness

------------------------------------------------------------------------------
(* Properties *)

TypeOK ==
  /\ ticket \in [Orders -> Tickets]
  /\ at \in [Orders -> Nat]
  /\ placed \in 0 .. MaxOrders
  /\ mem \in [Orders -> [kind : Kinds, closed : BOOLEAN]]
  /\ saved \in [Orders -> [kind : Kinds, closed : BOOLEAN]]
  /\ cached \subseteq Orders
  /\ filled \in [Orders -> Nat]
  /\ stage \in [Orders -> {"new", "check", "park", "send", "added"}]
  /\ saving \in [Orders -> {"no", "open", "closed"}]
  /\ cancelling \subseteq [order : Orders, object : Kinds \cup {"engine"}]
  /\ queue \in [Sides -> SUBSET Orders]
  /\ stops \in [Sides -> SUBSET Orders]
  /\ depth \in [Sides -> [Prices \cup {Level0} -> Nat]]
  /\ price \in Prices /\ average \in Prices
  /\ matcher \in [pc : Steps, inc : Orders \cup {None}, res : Orders \cup {None},
                  held : SUBSET Orders, trig : Orders \cup {None},
                  incSt : Statuses, resSt : Statuses,
                  tr : Prices \cup {None}, qty : Nat]
  /\ serving \in BOOLEAN
  /\ unloaded \subseteq Orders
  /\ faults \in 0 .. MaxFaults /\ restarts \in 0 .. MaxRestarts

Idle == serving /\ matcher.pc = "idle"
Open(o) == o <= placed /\ ~mem[o].closed

\* The sets an order can be in: being added, queued, dormant, popped on the way to
\* a match, being processed, being triggered, to be loaded.
InHand == IF matcher.pc \in {"idle", "load", "clear"} THEN {} ELSE {matcher.inc}
BeingTriggered == IF matcher.pc = "push" THEN {matcher.trig} ELSE {}
BeingAdded == {o \in Orders : stage[o] \in {"check", "park", "send"}}
Queued == queue["ask"] \cup queue["bid"]
Dormant == stops["ask"] \cup stops["bid"]

\* The matching engine never holds an order twice: pushing back, popping and
\* triggering in the wrong order could put an order in a queue a second time, and
\* it would then be matched twice. (processAsk, processBid, triggerStopLosses.)
HeldOnce ==
  /\ queue["ask"] \cap queue["bid"] = {}
  /\ Queued \cap (Dormant \cup matcher.held \cup InHand \cup BeingTriggered) = {}
  /\ Dormant \cap (matcher.held \cup InHand \cup BeingTriggered) = {}
  /\ matcher.held \cap (InHand \cup BeingTriggered) = {}
  /\ InHand \cap BeingTriggered = {}
  /\ BeingAdded \cap (Queued \cup Dormant \cup matcher.held \cup InHand \cup BeingTriggered) = {}
  /\ unloaded \cap (Queued \cup Dormant \cup BeingAdded) = {}

\* No order is filled beyond its quantity, and one filled completely is closed, in
\* the engine and in the database, at every moment. (StockQuantityFulfilled.)
NoOverfill ==
  \A o \in Orders : /\ filled[o] <= Qty(o)
                    /\ filled[o] = Qty(o) => mem[o].closed /\ saved[o].closed

\* A trade is between different users, and its price is within the limits of both
\* parties. (getTopMatching*, isOrderMatching and getTradePriceAndQty together.)
TradeWithinLimits ==
  matcher.tr # None =>
    LET a == MatchedAsk  b == MatchedBid
    IN /\ User(a) # User(b)
       /\ ticket[a].kind = "Limit" => matcher.tr >= ticket[a].price
       /\ ticket[b].kind = "Limit" => matcher.tr <= ticket[b].price

\* When the goroutine waits for orders, no two open limit or market orders of
\* different users are left in the queues that could trade with each other.
NotCrossed ==
  Idle => \A a \in queue["ask"], b \in queue["bid"] :
            /\ Open(a) /\ Open(b) /\ User(a) # User(b)
            /\ ticket[a].kind # "StopLoss" /\ ticket[b].kind # "StopLoss"
            => ~IsOrderMatching(a, b)

\* Every order that is open in the database is somewhere in the engine.
NothingLost ==
  Idle => OpenInDatabase \subseteq Queued \cup Dormant \cup BeingAdded

\* When no step is under way, the depth of a level is what the open orders of the
\* queue still want there.
DepthMatches ==
  Idle /\ cancelling = {} =>
    \A s \in Sides, l \in Prices \cup {Level0} :
      LET there == {o \in queue[s] : Open(o) /\ Level(o) = l}
      IN depth[s][l] = SumFunctionOnSet([o \in there |-> Unfilled(o)], there)

\* An order closed in the database is not traded any more.
ClosedNeverTrades ==
  [][\A o \in Orders : saved[o].closed => filled'[o] = filled[o]]_vars

\* A closed order is never opened again in the database.
ClosedForGood ==
  [][\A o \in Orders : saved[o].closed => saved'[o].closed]_vars

\* Price-time priority: an incoming order trades with r only if no open order of
\* a third user that was added before asks for a better price, or is an older
\* market order. (The heaps, the skipping of own orders and the popping together.)
Priority ==
  [][serving /\ filled' # filled =>
       LET i == matcher.inc  r == matcher.res
       IN \A o \in 1 .. placed :
            /\ Side(o) = Side(r) /\ User(o) # User(i)
            /\ ~saved[o].closed /\ stage[o] = "added" /\ mem[o].kind # "StopLoss"
            => /\ IsMarket(o) /\ IsMarket(r) => at[r] <= at[o]
               /\ ~IsMarket(r) => ~IsMarket(o) /\ ~Cheaper(o, r)]_vars

\* triggerStopLosses leaves no order of a side asleep that the trade reached,
\* though it looks at the head of the heap only.
TriggersAll ==
  [][\A s \in Sides :
       matcher.pc = TriggerStep(s) /\ matcher'.pc \notin {TriggerStep(s), "push", "load"}
       => \A o \in stops[s] : ~Reached(o, matcher.tr)]_vars

\* Whatever errors happened before the crash, a startup repairs them: unless an error
\* ends clearExistingOrders early, it finds every order that is open in the database
\* and leaves no two that match. (loadOldOrders, clearExistingOrders.)
StartupRepairs ==
  [][~serving /\ serving' /\ matcher.pc # "finish"
       => (NothingLost /\ NotCrossed)']_vars

\* A stop-loss order does not sleep at a price that triggers it.
NoMissedTrigger ==
  Idle => \A o \in Dormant : Open(o) => ~Reached(o, price)

\* Every limit order that is placed is settled: closed, or resting in its queue, with
\* the goroutine ready for more. (The loops of processAsk, processBid and
\* triggerStopLosses end, and no one waits on the channels for ever.)
EverySettles ==
  \A o \in Orders :
    (o <= placed /\ ticket[o].kind = "Limit") ~> (Idle /\ (mem[o].closed \/ o \in Queued))

\* The rows of the database go through what Exchange promises, with the engine, its
\* queues, the cancellations and a crash behind them: a row is closed once, and a trade
\* fills two open rows that agree.
Promise == INSTANCE Exchange WITH closed <- {o \in Orders : saved[o].closed}
ImplementsExchange == Promise!Spec
=============================================================================
