---------------------------- MODULE MCOrderBook ----------------------------
(* Small instances of OrderBook: the orders that may be placed in each run. *)
EXTENDS OrderBook

T(s, u, k, p, q) == [side |-> s, user |-> u, kind |-> k, price |-> p, qty |-> q]

\* Limit orders of two users that cross at different prices, and market orders.
CoreTickets ==
  {T("ask", "u1", "Limit", 1, 1), T("ask", "u2", "Limit", 2, 2),
   T("bid", "u1", "Limit", 2, 1), T("bid", "u2", "Limit", 1, 2),
   T("bid", "u1", "Market", 1, 2), T("ask", "u2", "Market", 1, 1)}

\* Limit orders that trade at 2, and stop-loss orders: of the asks the trade reaches
\* one of two.
StopTickets ==
  {T("ask", "u2", "Limit", 2, 1), T("bid", "u3", "Limit", 2, 1),
   T("ask", "u1", "StopLoss", 1, 1), T("ask", "u1", "StopLoss", 2, 1),
   T("bid", "u1", "StopLoss", 2, 1)}

\* Every ask is of one user and every bid of the other: no own orders are skipped.
OneSidedTickets ==
  {T("ask", "u1", "Limit", 1, 1), T("ask", "u1", "Limit", 2, 2),
   T("bid", "u2", "Limit", 2, 1), T("bid", "u2", "Limit", 1, 2), T("ask", "u1", "Market", 1, 1)}

\* ... with partial fills, and a bid that may not be payable.
FaultTickets ==
  {T("ask", "u1", "Limit", 1, 2), T("bid", "u2", "Limit", 2, 3), T("bid", "u2", "Market", 1, 1)}

\* A stop-loss ask, and two orders of others whose trade triggers it.
LostTickets ==
  {T("ask", "u1", "StopLoss", 1, 1), T("ask", "u2", "Limit", 1, 1), T("bid", "u3", "Limit", 1, 1)}
=============================================================================
