------------------------------- MODULE Accounts -------------------------------
(***************************************************************************)
(* The money and the stocks of the users, for one stock: models/User.go    *)
(* (PlaceAskOrder, PlaceBidOrder, CancelOrder, PerformOrderFillTransaction *)
(* with its taxes, PerformBuyFromExchangeTransaction and                   *)
(* PerformMortgageTransaction), OrderDepositTransaction.go,                *)
(* MortgageDetail.go and ShortSell.go.                                     *)
(*                                                                         *)
(* Each of these holds the locks of the users it touches and is one        *)
(* database transaction, so it is one step here.  ShortSellBank is under   *)
(* no lock and is read outside the transactions that write it: lending and *)
(* taking back have a step for each read and one for the commit.           *)
(*                                                                         *)
(* Which orders are matched is OrderBook's matter; here any two orders     *)
(* that match may be filled, at any moment.                                *)
(***************************************************************************)
EXTENDS Integers, Sequences, FiniteSetsExt

CONSTANTS
  Users,          \* the traders
  Prices,         \* the prices that occur, in the orders and on the market
  Tickets,        \* the orders that may be placed
  StartCash,      \* STARTING_CASH
  StartExchange,  \* StocksInExchange at the start
  StartBank,      \* AvailableStocks of ShortSellBank at the start
  BorrowLimit,    \* SHORT_SELL_BORROW_LIMIT
  TaxPercents,    \* of TaxBrackets: which one applies depends on Total
  Word,           \* bound: unsigned numbers wrap at Word (2^64, 2^32 in the code)
  MaxOrders,      \* bound: orders placed in a behaviour
  MaxDeals,       \* bound: exchange purchases and mortgages in a behaviour
  MaxFaults,      \* bound: transactions that are rolled back in a behaviour
  BankUpdates     \* bound: updates of ShortSellBank that are under way at once

Sides == {"ask", "bid"}
Ticket == [side : Sides, user : Users, kind : {"Limit", "Market", "StopLoss"},
           price : Prices, qty : Nat \ {0}]

ASSUME UsersAssumption == IsFiniteSet(Users)
ASSUME PricesAssumption == Prices \subseteq Nat \ {0} /\ IsFiniteSet(Prices)
ASSUME TicketsAssumption == Tickets \subseteq Ticket
ASSUME StartAssumption ==
  StartCash \in Nat /\ StartExchange \in Nat /\ StartBank \in Nat /\ BorrowLimit \in Nat
ASSUME WordAssumption == Word \in Nat \ {0} /\ StartCash < Word /\ StartBank < Word
ASSUME TaxAssumption == TaxPercents \subseteq 0 .. 25
ASSUME BoundsAssumption ==
  MaxOrders \in Nat /\ MaxDeals \in Nat /\ MaxFaults \in Nat /\ BankUpdates \in Nat

VARIABLES
  orders,     \* the orders that reached the matching engine, by id
  cash,       \* Cash of each user
  reserved,   \* ReservedCash of each user
  ledger,     \* the sums over each user's rows of Transactions
  summary,    \* TransactionSummary: what a user holds by his trades, and at which price
  mortgaged,  \* MortgageDetails: stocksInBank of each user by mortgagePrice
  exchange,   \* StocksInExchange
  bank,       \* AvailableStocks of ShortSellBank
  updating,   \* transactions that have still to write ShortSellBank
  price,      \* CurrentPrice
  deals, faults

rows == <<ledger, summary>>
purse == <<cash, reserved>>
vars == <<orders, purse, rows, mortgaged, exchange, bank, updating, price, deals, faults>>

Init ==
  /\ orders = <<>>
  /\ cash = [u \in Users |-> StartCash]
  /\ reserved = [u \in Users |-> 0]
  /\ ledger = [u \in Users |-> [total |-> 0, reservedCash |-> 0,
                                stocks |-> 0, reservedStocks |-> 0, tax |-> 0]]
  /\ summary = [u \in Users |-> [held |-> 0, price |-> 0]]
  /\ mortgaged = [u \in Users |-> [p \in Prices |-> 0]]
  /\ exchange = StartExchange /\ bank = StartBank
  /\ updating = {}
  /\ price \in Prices
  /\ deals = 0 /\ faults = 0

------------------------------------------------------------------------------
(* Amounts *)

Unsigned(x) == x % Word
Signed(x) == IF 2 * x >= Word THEN x - Word ELSE x   \* int64 of a uint64
Least(x, y) == IF x < y THEN x ELSE y

\* A user's sums e after a row of Transactions with these values.
Row(e, total, reservedCash, stocks, reservedStocks, tax) ==
  [total |-> e.total + total, reservedCash |-> e.reservedCash + reservedCash,
   stocks |-> e.stocks + stocks, reservedStocks |-> e.reservedStocks + reservedStocks,
   tax |-> e.tax + tax]

\* The rows a transaction adds for the user u.
Post(l, u, total, reservedCash, stocks, reservedStocks) ==
  [l EXCEPT ![u] = Row(@, total, reservedCash, stocks, reservedStocks, 0)]
\* Mutant: a tax that is never entered in Transactions.
PostTaxNowhere(l, u, tax) == l

\* The row of a TaxTransaction.
PostTax(l, u, tax) == [l EXCEPT ![u] = Row(@, -tax, 0, 0, 0, tax)]

Unfilled(o) == o.qty - o.filled
OrderPrice(t) == IF t.kind = "Market" THEN price ELSE t.price   \* getOrderFeePrice
OrderFee(t) == (3 * t.qty * OrderPrice(t)) \div 100             \* ORDER_FEE_PERCENT

\* ORDER_PRICE_WINDOW: a limit order is at most 20 percent off the market.
InWindow(t) ==
  t.kind = "Limit" => (4 * price) \div 5 <= t.price /\ t.price <= (6 * price) \div 5

\* Lends of ShortSellLends that are not squared off.
LentTo(u, o) == IF o.user = u THEN o.lent ELSE 0
Lent(u) == SumFunction([i \in DOMAIN orders |-> LentTo(u, orders[i])])

\* The lock of u is held while a lend to him is under way.
Free(u) == \A x \in updating : x.what = "lend" => x.order.user # u

\* A share of what a bid reserved: for n of its stocks.
ShareOf(o, n) == (o.deposit * n) \div o.qty

------------------------------------------------------------------------------
(* TransactionSummary and taxes.  The average price is rounded down here. *)

\* Mutant: a loss is taxed as well.
ProfitOrLoss(n, gain) == n * gain

Profit(n, gain) == IF gain > 0 THEN n * gain ELSE 0

\* getTaxForBiddingUser: who buys back what he sold short is taxed.
TaxOnBuying(s, n, p, percent) ==
  IF s.held < 0 THEN (Profit(Least(n, -s.held), s.price - p) * percent) \div 100 ELSE 0
\* Mutant: a purchase that covers a short position starts a new summary.
BoughtAnew(s, n, p) == [held |-> n, price |-> p]

Bought(s, n, p) ==
  [held |-> s.held + n,
   price |-> IF s.held >= 0 THEN (s.held * s.price + n * p) \div (s.held + n)
             ELSE IF n >= -s.held THEN p ELSE s.price]

\* getTaxForAskingUser: who sells what he holds is taxed.
TaxOnSelling(s, n, p, percent) ==
  IF s.held > 0 THEN (Profit(Least(n, s.held), p - s.price) * percent) \div 100 ELSE 0
Sold(s, n, p) ==
  [held |-> s.held - n,
   price |-> IF s.held <= 0 THEN (n * p - s.held * s.price) \div (n - s.held)
             ELSE IF n >= s.held THEN p ELSE s.price]

------------------------------------------------------------------------------
(* Placing *)

NewOrder(t, deposit, lent, saved) ==
  [side |-> t.side, user |-> t.user, kind |-> t.kind, price |-> t.price, qty |-> t.qty,
   filled |-> 0, open |-> TRUE, deposit |-> deposit, lent |-> lent, saved |-> saved]

\* The stocks PlaceAskOrder has to borrow for t, if any.
Short(t) == LET n == ledger[t.user].stocks
            IN IF n >= 0 THEN t.qty - n ELSE t.qty

MayBorrow(t) == Short(t) > 0 => /\ Short(t) <= bank
                                /\ Lent(t.user) + Short(t) <= BorrowLimit

MayPlace(t) ==
  /\ Len(orders) + Cardinality({x \in updating : x.what = "lend"}) < MaxOrders
  /\ Free(t.user) /\ InWindow(t)
  /\ IF t.side = "ask" THEN MayBorrow(t) /\ Signed(cash[t.user]) >= OrderFee(t)
     ELSE Signed(cash[t.user]) >= t.qty * OrderPrice(t) + OrderFee(t)

\* PlaceAskOrder: the fee is paid, the stocks of the order are reserved.
AskRows(l, t, fee) == Post(Post(l, t.user, -fee, 0, 0, 0), t.user, 0, 0, -t.qty, t.qty)

PlaceAsk(t) ==
  /\ t.side = "ask" /\ MayPlace(t) /\ Short(t) <= 0
  /\ orders' = Append(orders, NewOrder(t, 0, 0, TRUE))
  /\ cash' = [cash EXCEPT ![t.user] = Unsigned(@ - OrderFee(t))]
  /\ ledger' = AskRows(ledger, t, OrderFee(t))
  /\ UNCHANGED <<reserved, summary, mortgaged, exchange, bank, updating, price, deals, faults>>

\* PlaceBidOrder: the fee is paid, the price of the order is reserved.
PlaceBid(t) ==
  LET deposit == t.qty * OrderPrice(t)
  IN /\ t.side = "bid" /\ MayPlace(t)
     /\ orders' = Append(orders, NewOrder(t, deposit, 0, TRUE))
     /\ cash' = [cash EXCEPT ![t.user] = Unsigned(@ - OrderFee(t) - deposit)]
     /\ reserved' = [reserved EXCEPT ![t.user] = Unsigned(@ + deposit)]
     /\ ledger' = Post(Post(ledger, t.user, -OrderFee(t), 0, 0, 0),
                       t.user, -deposit, deposit, 0, 0)
     /\ UNCHANGED <<summary, mortgaged, exchange, bank, updating, price, deals, faults>>

Fault == faults < MaxFaults /\ faults' = faults + 1

\* An error in the transaction: it is rolled back and Cash is put back, but errorHelper
\* returns the err of the outer scope, nil: PlaceOrder adds the order to the book.
PlaceFails(t) ==
  /\ Fault
  /\ MayPlace(t)
  /\ orders' = Append(orders, NewOrder(t, 0, 0, FALSE))
  /\ UNCHANGED <<purse, rows, mortgaged, exchange, bank, updating, price, deals>>

------------------------------------------------------------------------------
(* Short selling: updateShortSellBank *)

Room == Cardinality(updating) < BankUpdates

\* PlaceAskOrder of an order that has to borrow, up to its checks ...
StartLend(t) ==
  /\ t.side = "ask" /\ MayPlace(t) /\ Short(t) > 0 /\ Room
  /\ updating' = updating \cup
       {[what |-> "lend", order |-> NewOrder(t, 0, Short(t), TRUE), fee |-> OrderFee(t),
         step |-> "read", seen |-> 0]}
  /\ UNCHANGED <<orders, purse, rows, mortgaged, exchange, bank, price, deals, faults>>

\* ... and SquareOffLends at the lend of the order i.
StartReturn(i) ==
  /\ orders[i].lent > 0 /\ Room
  /\ \A x \in updating : x.what = "lend"
  /\ updating' = updating \cup
       {[what |-> "return", order |-> i, fee |-> 0, step |-> "read", seen |-> 0]}
  /\ UNCHANGED <<orders, purse, rows, mortgaged, exchange, bank, price, deals, faults>>

\* getAvailableLendStocks reads what is committed.
ReadBank(x) ==
  /\ x.step = "read"
  /\ updating' = (updating \ {x}) \cup {[x EXCEPT !.step = "write", !.seen = bank]}
  /\ UNCHANGED <<orders, purse, rows, mortgaged, exchange, bank, price, deals, faults>>

\* The rest of PlaceAskOrder: ShortSellTransaction, the lend, the reserve, the commit.
CommitLend(x) ==
  LET o == x.order
  IN /\ x.what = "lend" /\ x.step = "write"
     /\ updating' = updating \ {x}
     /\ bank' = Unsigned(x.seen - o.lent)
     /\ orders' = Append(orders, o)
     /\ cash' = [cash EXCEPT ![o.user] = Unsigned(@ - x.fee)]
     /\ ledger' = AskRows(Post(ledger, o.user, 0, 0, o.lent, 0), o, x.fee)
     /\ UNCHANGED <<reserved, summary, mortgaged, exchange, price, deals, faults>>

\* Mutant: the lend is marked, the stocks stay with the user.
CommitReturnKept(x) ==
  LET o == orders[x.order]
  IN /\ x.what = "return" /\ x.step = "write"
     /\ updating' = updating \ {x}
     /\ bank' = Unsigned(x.seen + o.lent)
     /\ orders' = [orders EXCEPT ![x.order].lent = 0]
     /\ UNCHANGED <<purse, rows, mortgaged, exchange, price, deals, faults>>

CommitReturn(x) ==
  LET o == orders[x.order]
  IN /\ x.what = "return" /\ x.step = "write"
     /\ updating' = updating \ {x}
     /\ bank' = Unsigned(x.seen + o.lent)
     /\ orders' = [orders EXCEPT ![x.order].lent = 0]
     /\ ledger' = Post(ledger, o.user, 0, 0, -o.lent, 0)
     /\ UNCHANGED <<purse, summary, mortgaged, exchange, price, deals, faults>>

------------------------------------------------------------------------------
(* Cancelling *)

\* Mutant: the whole deposit of a bid is given back.
RefundWhole(o) == o.deposit

\* saveBidCancelOrderTransaction: what is left of the deposit.
Refund(o) == ShareOf(o, Unfilled(o))

CancelAsk(i) ==
  LET o == orders[i]
  IN /\ o.side = "ask" /\ o.open /\ Free(o.user)
     /\ orders' = [orders EXCEPT ![i].open = FALSE]
     /\ ledger' = Post(ledger, o.user, 0, 0, Unfilled(o), -Unfilled(o))
     /\ UNCHANGED <<purse, summary, mortgaged, exchange, bank, updating, price, deals, faults>>

\* The bid o is closed and what is left of its deposit is returned: also the end of a
\* fill that the bidder cannot pay.
CloseBid(i) ==
  LET o == orders[i]
  IN /\ orders' = [orders EXCEPT ![i].open = FALSE]
     /\ cash' = [cash EXCEPT ![o.user] = Unsigned(@ + Refund(o))]
     /\ reserved' = [reserved EXCEPT ![o.user] = Unsigned(@ - Refund(o))]
     /\ ledger' = Post(ledger, o.user, Refund(o), -Refund(o), 0, 0)
     /\ UNCHANGED <<summary, mortgaged, exchange, bank, updating, price, deals, faults>>

CancelBid(i) ==
  /\ orders[i].side = "bid" /\ orders[i].open /\ orders[i].saved /\ Free(orders[i].user)
  /\ CloseBid(i)

\* A cancellation that is rolled back, as that of a bid without a deposit row always is:
\* Close has marked the object, which stays closed.
CancelFails(i) ==
  /\ orders[i].open /\ Free(orders[i].user)
  /\ \/ orders[i].side = "bid" /\ ~orders[i].saved /\ UNCHANGED faults
     \/ Fault
  /\ orders' = [orders EXCEPT ![i].open = FALSE]
  /\ UNCHANGED <<purse, rows, mortgaged, exchange, bank, updating, price, deals>>

------------------------------------------------------------------------------
(* Filling: PerformOrderFillTransaction *)

AtMarket(o) == o.kind # "Limit"   \* a stop-loss order trades when it has become active

\* getTradePriceAndQty; of two limit orders of one second the bid decides.
TradePrices(a, b) ==
  LET ask == orders[a]  bid == orders[b]
  IN CASE AtMarket(ask) /\ AtMarket(bid) -> {price}
       [] AtMarket(ask) /\ ~AtMarket(bid) -> {bid.price}
       [] ~AtMarket(ask) /\ AtMarket(bid) -> {ask.price}
       [] bid.price < ask.price -> {}
       [] OTHER -> IF a < b THEN {ask.price, bid.price} ELSE {bid.price}

MayFill(a, b) ==
  /\ orders[a].side = "ask" /\ orders[b].side = "bid"
  /\ orders[a].open /\ orders[b].open /\ orders[b].saved
  /\ orders[a].user # orders[b].user
  /\ Free(orders[a].user) /\ Free(orders[b].user)

FillQty(a, b) == Least(Unfilled(orders[a]), Unfilled(orders[b]))
CashLeft(b, n, p) == Signed(cash[orders[b].user]) - n * p + ShareOf(orders[b], n)

\* UpdateStockPrice moves the price some way to that of the trade.
Between(p) == {x \in Prices : Least(price, p) <= x /\ x <= price + p - Least(price, p)}

FillOrder(o, n) == [o EXCEPT !.filled = @ + n, !.open = o.filled + n # o.qty]

\* Mutant: the buyer pays the whole price and loses his reserve besides.
BuyerRowsTwice(l, u, n, p, share) == Post(l, u, -n * p, -share, n, 0)

SellerRows(l, u, n, p) == Post(l, u, n * p, 0, 0, -n)
BuyerRows(l, u, n, p, share) == Post(l, u, share - n * p, -share, n, 0)

Fill(a, b) ==
  LET seller == orders[a].user
      buyer == orders[b].user
      n == FillQty(a, b)
      share == ShareOf(orders[b], n)
  IN /\ MayFill(a, b)
     /\ \E p \in TradePrices(a, b), percentA \in TaxPercents, percentB \in TaxPercents :
          LET taxA == TaxOnSelling(summary[seller], n, p, percentA)
              taxB == TaxOnBuying(summary[buyer], n, p, percentB)
          IN /\ CashLeft(b, n, p) >= 0
             /\ orders' = [orders EXCEPT ![a] = FillOrder(@, n), ![b] = FillOrder(@, n)]
             /\ cash' = [cash EXCEPT ![seller] = Unsigned(@ + n * p - taxA),
                                     ![buyer] = Unsigned(CashLeft(b, n, p) - taxB)]
             /\ reserved' = [reserved EXCEPT ![buyer] = IF @ > share THEN @ - share ELSE 0]
             /\ summary' = [summary EXCEPT ![seller] = Sold(@, n, p), ![buyer] = Bought(@, n, p)]
             /\ ledger' = PostTax(PostTax(BuyerRows(SellerRows(ledger, seller, n, p),
                                                    buyer, n, p, share),
                                          seller, taxA), buyer, taxB)
             /\ price' \in Between(p)
     /\ UNCHANGED <<mortgaged, exchange, bank, updating, deals, faults>>

\* The bidder has not enough cash: his bid is closed.
DropBid(a, b) ==
  /\ MayFill(a, b)
  /\ \E p \in TradePrices(a, b) : CashLeft(b, FillQty(a, b), p) < 0
  /\ CloseBid(b)

------------------------------------------------------------------------------
(* The exchange and mortgages *)

Deal == deals < MaxDeals /\ deals' = deals + 1

\* PerformBuyFromExchangeTransaction: the tax is taken off after the check of the cash.
BuyFromExchange(u, wanted) ==
  LET n == Least(wanted, exchange)
  IN /\ Deal /\ Free(u)
     /\ n > 0 /\ price * n <= cash[u]
     /\ \E percent \in TaxPercents :
          LET tax == TaxOnBuying(summary[u], n, price, percent)
          IN /\ cash' = [cash EXCEPT ![u] = Unsigned(@ - price * n - tax)]
             /\ ledger' = PostTax(Post(ledger, u, -price * n, 0, n, 0), u, tax)
     /\ summary' = [summary EXCEPT ![u] = Bought(@, n, price)]
     /\ exchange' = exchange - n
     /\ UNCHANGED <<orders, reserved, mortgaged, bank, updating, price, faults>>

\* PerformMortgageTransaction: n stocks go to the bank at price p and back if n < 0.
MortgageTransaction(u, n, p, total) ==
  /\ Deal /\ Free(u)
  /\ mortgaged' = [mortgaged EXCEPT ![u][p] = @ + n]
  /\ cash' = [cash EXCEPT ![u] = Unsigned(@ + total)]
  /\ ledger' = Post(ledger, u, total, 0, -n, 0)
  /\ UNCHANGED <<orders, reserved, summary, exchange, bank, updating, price, faults>>

\* mortgageStocksAction, at MORTGAGE_DEPOSIT_RATE
Mortgage(u, n) ==
  /\ n <= ledger[u].stocks
  /\ MortgageTransaction(u, n, price, (price * n * 80) \div 100)

\* retrieveStocksAction, at MORTGAGE_RETRIEVE_RATE; the cash is compared with the whole price.
Retrieve(u, n, p) ==
  /\ Signed(cash[u]) >= p * n
  /\ n <= mortgaged[u][p]
  /\ MortgageTransaction(u, -n, p, -((p * n * 90) \div 100))

------------------------------------------------------------------------------

Quantities == {1, 2}   \* bound: stocks in an exchange purchase or a mortgage

Next ==
  \/ \E t \in Tickets : PlaceAsk(t) \/ PlaceBid(t) \/ PlaceFails(t) \/ StartLend(t)
  \/ \E i \in DOMAIN orders : StartReturn(i) \/ CancelAsk(i) \/ CancelBid(i)
                                             \/ CancelFails(i)
  \/ \E x \in updating : ReadBank(x) \/ CommitLend(x) \/ CommitReturn(x)
  \/ \E a, b \in DOMAIN orders : Fill(a, b) \/ DropBid(a, b)
  \/ \E u \in Users, n \in Quantities : \/ BuyFromExchange(u, n)
                                        \/ Mortgage(u, n)
                                        \/ \E p \in Prices : Retrieve(u, n, p)

Spec == Init /\ [][Next]_vars

------------------------------------------------------------------------------
(* Properties *)

Unsigneds == 0 .. Word - 1
Order == [side : Sides, user : Users, kind : {"Limit", "Market", "StopLoss"}, price : Prices,
          qty : Nat \ {0}, filled : Nat, open : BOOLEAN, deposit : Nat, lent : Nat,
          saved : BOOLEAN]

\* Cash, ReservedCash and AvailableStocks are unsigned; no order is filled too far.
TypeOK ==
  /\ \A i \in DOMAIN orders : orders[i] \in Order /\ orders[i].filled <= orders[i].qty
  /\ cash \in [Users -> Unsigneds]
  /\ reserved \in [Users -> Unsigneds]
  /\ ledger \in [Users -> [total : Int, reservedCash : Int, stocks : Int,
                           reservedStocks : Int, tax : Nat]]
  /\ summary \in [Users -> [held : Int, price : Nat]]
  /\ mortgaged \in [Users -> [Prices -> Nat]]
  /\ exchange \in 0 .. StartExchange
  /\ bank \in Unsigneds
  /\ \A x \in updating : x.seen \in Unsigneds
  /\ price \in Prices
  /\ deals \in 0 .. MaxDeals /\ faults \in 0 .. MaxFaults

\* What a user has is what his rows of Transactions add up to: every change of Cash and
\* ReservedCash, on every path, has its row. (The balances and the ledger are written
\* separately by each operation.)
LedgerAgrees ==
  \A u \in Users : /\ cash[u] = Unsigned(StartCash + ledger[u].total)
                   /\ reserved[u] = ledger[u].reservedCash

\* What the open order o of u still needs: cash for a bid, stocks for an ask.
CashNeed(u, o) == IF o.open /\ o.user = u /\ o.side = "bid" THEN Refund(o) ELSE 0
StockNeed(u, o) == IF o.open /\ o.user = u /\ o.side = "ask" THEN Unfilled(o) ELSE 0
CashNeeds(u) == SumFunction([i \in DOMAIN orders |-> CashNeed(u, orders[i])])
StockNeeds(u) == SumFunction([i \in DOMAIN orders |-> StockNeed(u, orders[i])])

\* What a user has reserved is what his open orders still need: through partial fills,
\* better prices, cancellations and bids that are dropped, nothing stays reserved for
\* ever and nothing is given back twice.
ReservesMatch ==
  \A u \in Users : reserved[u] = CashNeeds(u) /\ ledger[u].reservedStocks = StockNeeds(u)

\* While no transaction has failed the reserves match; afterwards a user still has
\* reserved what his bids need, so that every one of them can be paid or refunded.
ReservesCover ==
  /\ faults = 0 => ReservesMatch
  /\ \A u \in Users : CashNeeds(u) <= reserved[u]

StocksOf(u) == ledger[u].stocks + ledger[u].reservedStocks
MortgagedBy(u) == SumFunction(mortgaged[u])

\* No stock appears or disappears: with the users, in the exchange, in the bank of
\* stocks to lend, mortgaged.
StocksConserved ==
  exchange + bank + SumFunction([u \in Users |-> StocksOf(u) + MortgagedBy(u)])
    = StartExchange + StartBank

\* The position a user is taxed by is the one he has: what he owns, without what he
\* borrowed, with what he mortgaged. (TransactionSummary against Transactions,
\* ShortSellLends and MortgageDetails.)
PositionMatches ==
  \A u \in Users : summary[u].held = StocksOf(u) - Lent(u) + MortgagedBy(u)

\* Only a tax takes a user's cash below zero: every other payment was checked or reserved.
\* (PerformBuyFromExchangeTransaction: "User does not have enough cash", and no error.)
DebtIsTax == \A u \in Users : Signed(cash[u]) + ledger[u].tax >= 0

Wealth == SumFunction([u \in Users |-> ledger[u].total + ledger[u].reservedCash])
Taxes == SumFunction([u \in Users |-> ledger[u].tax])

\* Trades move money between the users and make none; only taxes leave: what a fill takes
\* from the buyer's cash and reserve the seller gets, whatever the prices were.
TradesMakeNoMoney ==
  [][[i \in DOMAIN orders |-> orders'[i].filled] # [i \in DOMAIN orders |-> orders[i].filled]
     => Wealth' + Taxes' = Wealth + Taxes]_vars
=============================================================================
