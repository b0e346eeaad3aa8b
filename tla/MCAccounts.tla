------------------------------ MODULE MCAccounts ------------------------------
(***************************************************************************)
(* Accounts of two users, with tickets by which one can sell short and buy *)
(* back, at a profit and at a loss.                                        *)
(***************************************************************************)
EXTENDS Accounts

CONSTANTS u1, u2

T(side, user, kind, p, n) == [side |-> side, user |-> user, kind |-> kind, price |-> p, qty |-> n]

MCTickets ==
  {T("ask", u1, "Limit", 120, 1), T("bid", u2, "Limit", 120, 1), T("bid", u2, "Market", 100, 2),
   T("ask", u2, "StopLoss", 100, 2), T("bid", u1, "Market", 100, 1), T("bid", u1, "Limit", 100, 1)}

\* u1 sells short at 120, spends what he has on a bid and buys back at 100.
MCDebtTickets ==
  {T("ask", u1, "Limit", 120, 1), T("bid", u2, "Limit", 120, 1), T("bid", u1, "Limit", 100, 2)}
=============================================================================
