------------------------------- MODULE Exchange -------------------------------
(***************************************************************************)
(* What the exchange promises its users, told by the rows of the database: *)
(* orders are placed one after another, each is closed once and for good,  *)
(* and an ask and a bid that agree on a price are filled together, by what *)
(* both still want, for as long as both are open.  There is no engine, no  *)
(* queue and no crash here: OrderBook implements it.                       *)
(***************************************************************************)
EXTENDS Integers

CONSTANTS
  MaxOrders,   \* bound: orders placed in a behaviour
  Tickets      \* the orders that may be placed

VARIABLES
  ticket,      \* what each order asks for
  placed,      \* orders 1 .. placed are there
  closed,      \* the closed ones
  filled       \* how much of each order is filled

vars == <<ticket, placed, closed, filled>>

Orders == 1 .. MaxOrders
Unfilled(o) == ticket[o].qty - filled[o]
Open(o) == o \in 1 .. placed /\ o \notin closed

Init ==
  /\ ticket \in [Orders -> Tickets]
  /\ placed = 0 /\ closed = {}
  /\ filled = [o \in Orders |-> 0]

Place ==
  /\ placed < MaxOrders /\ placed' = placed + 1
  /\ UNCHANGED <<ticket, closed, filled>>

\* Its user takes it back, or it is a bid that cannot be paid.
Close(o) ==
  /\ Open(o)
  /\ closed' = closed \cup {o}
  /\ UNCHANGED <<ticket, placed, filled>>

\* A limit binds; a market order or a woken stop-loss order takes any price.
Agree(a, b) ==
  ticket[a].kind = "Limit" /\ ticket[b].kind = "Limit" => ticket[a].price <= ticket[b].price

Trade(a, b) ==
  /\ Open(a) /\ Open(b)
  /\ ticket[a].side = "ask" /\ ticket[b].side = "bid" /\ ticket[a].user # ticket[b].user
  /\ Agree(a, b)
  /\ LET n == IF Unfilled(a) < Unfilled(b) THEN Unfilled(a) ELSE Unfilled(b)
     IN filled' = [filled EXCEPT ![a] = @ + n, ![b] = @ + n]
  /\ closed' = closed \cup {o \in {a, b} : filled'[o] = ticket[o].qty}
  /\ UNCHANGED <<ticket, placed>>

Next == Place \/ \E o \in Orders : Close(o) \/ \E b \in Orders : Trade(o, b)
Spec == Init /\ [][Next]_vars
=============================================================================
