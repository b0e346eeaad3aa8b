---------------------------- MODULE AccountsProofs ----------------------------
(***************************************************************************)
(* The books balance, for every number of users, orders, prices, deals and *)
(* failed transactions: TypeOK, PositionMatches and TradesMakeNoMoney hold *)
(* of every behaviour; LedgerAgrees and ReservesCover when the tickets'    *)
(* money is small beside Word (ReservesFit, on the constants alone);       *)
(* StocksConserved when at most one transaction at a time updates          *)
(* ShortSellBank.                                                          *)
(***************************************************************************)
EXTENDS Accounts, FiniteSums

LedgerRow == [total : Int, reservedCash : Int, stocks : Int, reservedStocks : Int, tax : Nat]
Summary == [held : Int, price : Nat]

\* The updates of ShortSellBank that may be under way.
Lends == [what : {"lend"}, order : Order, fee : Nat, step : {"read", "write"}, seen : Unsigneds]
Returns == [what : {"return"}, order : DOMAIN orders, fee : {0}, step : {"read", "write"},
            seen : Unsigneds]

\* An order as it is placed: it is open and nothing is filled yet.
Fresh(o) == o \in Order /\ o.open /\ o.filled = 0

\* TypeOK, and what it rests on: an open order still wants something, so that no average
\* price is divided by zero.
TInv ==
  /\ orders \in Seq(Order)
  /\ \A i \in DOMAIN orders : /\ orders[i].filled <= orders[i].qty
                              /\ orders[i].open => orders[i].filled < orders[i].qty
  /\ cash \in [Users -> Unsigneds]
  /\ reserved \in [Users -> Unsigneds]
  /\ ledger \in [Users -> LedgerRow]
  /\ summary \in [Users -> Summary]
  /\ mortgaged \in [Users -> [Prices -> Nat]]
  /\ exchange \in 0 .. StartExchange
  /\ bank \in Unsigneds
  /\ updating \subseteq Lends \cup Returns
  /\ \A x \in updating : x.what = "lend" => Fresh(x.order) /\ x.order.side = "ask"
  /\ price \in Prices
  /\ deals \in 0 .. MaxDeals /\ faults \in 0 .. MaxFaults

USE DEF rows, purse, Sides

------------------------------------------------------------------------------
(* Arithmetic *)

\* A balance that is kept modulo Word follows its ledger.
LEMMA BalanceFollows ==
  ASSUME NEW c \in Unsigneds, NEW total \in Int, NEW d \in Int, NEW start \in Int,
         c = Unsigned(start + total)
  PROVE  Unsigned(c + d) = Unsigned(start + (total + d))
<1> DEFINE a == start + total
<1>1. a \in Int /\ Word \in Nat \ {0} /\ a + d = start + (total + d) /\ c = Unsigned(a)
  BY WordAssumption
<1> HIDE DEF a
<1>2. ((a % Word) + d) % Word = (a + d) % Word
  BY <1>1, ModAdd
<1> QED
  BY <1>1, <1>2 DEF Unsigned

\* The signed reading of a balance is the balance, modulo Word.
LEMMA SignedAgrees ==
  ASSUME NEW c \in Unsigneds, NEW d \in Int
  PROVE  Signed(c) \in Int /\ Unsigned(Signed(c) + d) = Unsigned(c + d)
<1>1. c \in Int /\ Word \in Nat \ {0}
  BY WordAssumption DEF Unsigneds
<1>2. CASE Signed(c) = c
  BY <1>1, <1>2
<1>3. CASE Signed(c) = c - Word
  <2> DEFINE e == c + d
             f == e - Word
  <2>1. e \in Int /\ f \in Int
    BY <1>1
  <2> HIDE DEF e
  <2>2. e % Word \in 0 .. Word - 1 /\ e \div Word \in Int /\ e = Word * (e \div Word) + (e % Word)
    BY <1>1, <2>1, ModParts
  <2> DEFINE q == (e \div Word) - 1
             r == e % Word
  <2>3. q \in Int /\ r \in 0 .. Word - 1 /\ f = Word * q + r
    BY <1>1, <2>1, <2>2
  <2> HIDE DEF f, q, r
  <2>4. f % Word = r
    BY <1>1, <2>1, <2>3, ModUnique
  <2>5. Signed(c) + d = f
    BY <1>1, <1>3 DEF f, e
  <2> QED
    BY <1>1, <1>3, <2>4, <2>5 DEF r, e, Unsigned
<1> QED
  BY <1>1, <1>2, <1>3 DEF Signed

LEMMA UnsignedType ==
  ASSUME NEW x \in Int
  PROVE  Unsigned(x) \in Unsigneds
BY WordAssumption DEF Unsigned, Unsigneds

\* A number that fits in a word is not changed.
LEMMA UnsignedFits ==
  ASSUME NEW x \in Nat, x < Word
  PROVE  Unsigned(x) = x
<1>1. x = Word * 0 + x /\ x \in 0 .. Word - 1
  BY WordAssumption
<1> QED
  BY <1>1, WordAssumption, ModUnique DEF Unsigned

LEMMA Products ==
  ASSUME NEW a \in Nat, NEW b \in Nat
  PROVE  a * b \in Nat
OBVIOUS

\* A product of positive numbers divided by one of them.
LEMMA DivExact ==
  ASSUME NEW q \in Nat \ {0}, NEW k \in Nat
  PROVE  (q * k) \div q = k
OBVIOUS

LEMMA Quotients ==
  ASSUME NEW a \in Nat, NEW b \in Nat \ {0}
  PROVE  a \div b \in Nat
OBVIOUS

------------------------------------------------------------------------------
(* Sums of functions *)

LEMMA FunctionSum ==
  ASSUME NEW f
  PROVE  SumFunction(f) = SumFunctionOnSet(f, DOMAIN f)
BY DEF SumFunction, FoldFunction, SumFunctionOnSet

\* The sum after a change at one place.
LEMMA SumChanges ==
  ASSUME NEW S, IsFiniteSet(S), NEW f \in [S -> Int], NEW g \in [S -> Int], NEW e \in S,
         \A x \in S \ {e} : g[x] = f[x]
  PROVE  /\ SumFunction(f) \in Int
         /\ SumFunction(g) = SumFunction(f) + (g[e] - f[e])
<1>1. SumFunctionOnSet(g, S) = SumFunctionOnSet(f, S) - f[e] + g[e]
  BY SumChange
<1>2. SumFunctionOnSet(f, S) \in Int
  BY SumInt
<1>3. f[e] \in Int /\ g[e] \in Int
  OBVIOUS
<1> QED
  BY <1>1, <1>2, <1>3, FunctionSum

\* ... and at two.
LEMMA SumChangesTwice ==
  ASSUME NEW S, IsFiniteSet(S), NEW f \in [S -> Int], NEW g \in [S -> Int],
         NEW d \in S, NEW e \in S, d # e, \A x \in S \ {d, e} : g[x] = f[x]
  PROVE  /\ SumFunction(f) \in Int
         /\ SumFunction(g) = SumFunction(f) + (g[d] - f[d]) + (g[e] - f[e])
<1> DEFINE h == [f EXCEPT ![d] = g[d]]
<1>1. h \in [S -> Int] /\ h[d] = g[d] /\ h[e] = f[e] /\ \A x \in S \ {d} : h[x] = f[x]
  OBVIOUS
<1>2. \A x \in S \ {e} : g[x] = h[x]
  BY <1>1
<1> HIDE DEF h
<1>3. SumFunction(f) \in Int /\ SumFunction(h) = SumFunction(f) + (h[d] - f[d])
  BY <1>1, SumChanges
<1>4. SumFunction(g) = SumFunction(h) + (g[e] - h[e])
  BY <1>1, <1>2, SumChanges
<1>5. f[d] \in Int /\ g[d] \in Int /\ f[e] \in Int /\ g[e] \in Int
  OBVIOUS
<1> QED
  BY <1>1, <1>3, <1>4, <1>5

\* A sum over a sequence to which an element is appended.
LEMMA SumAppended ==
  ASSUME NEW n \in Nat, NEW f \in [1 .. n -> Int], NEW g \in [1 .. n + 1 -> Int],
         \A i \in 1 .. n : g[i] = f[i]
  PROVE  /\ SumFunction(f) \in Int
         /\ SumFunction(g) = SumFunction(f) + g[n + 1]
<1>a. IsFiniteSet(1 .. n)
  BY FS_Interval
<1>1. IsFiniteSet(1 .. n) /\ 1 .. n + 1 = (1 .. n) \cup {n + 1} /\ n + 1 \notin 1 .. n
  BY <1>a
<1>2. SumFunctionOnSet(g, (1 .. n) \cup {n + 1}) = SumFunctionOnSet(g, 1 .. n) + g[n + 1]
  BY <1>1, SumAdd
<1>3. SumFunctionOnSet(g, 1 .. n) = SumFunctionOnSet(f, 1 .. n)
  BY <1>1, SumSame
<1>4. SumFunctionOnSet(f, 1 .. n) \in Int
  BY <1>1, SumInt
<1> QED
  BY <1>1, <1>2, <1>3, <1>4, FunctionSum

\* No element is more than the sum of natural numbers.
LEMMA SumCovers ==
  ASSUME NEW S, IsFiniteSet(S), NEW f \in [S -> Nat], NEW e \in S
  PROVE  SumFunction(f) \in Nat /\ f[e] <= SumFunction(f)
BY SumBounds, SumNat, FunctionSum

------------------------------------------------------------------------------
(* The rows of Transactions *)

LEMMA RowType ==
  ASSUME NEW e \in LedgerRow, NEW a \in Int, NEW b \in Int, NEW c \in Int, NEW d \in Int,
         NEW t \in Nat
  PROVE  Row(e, a, b, c, d, t) \in LedgerRow
BY DEF Row, LedgerRow

LEMMA PostAt ==
  ASSUME NEW l \in [Users -> LedgerRow], NEW u \in Users, NEW a \in Int, NEW b \in Int,
         NEW c \in Int, NEW d \in Int
  PROVE  /\ Post(l, u, a, b, c, d) \in [Users -> LedgerRow]
         /\ Post(l, u, a, b, c, d)[u] = Row(l[u], a, b, c, d, 0)
         /\ \A v \in Users \ {u} : Post(l, u, a, b, c, d)[v] = l[v]
BY RowType DEF Post

LEMMA PostTaxAt ==
  ASSUME NEW l \in [Users -> LedgerRow], NEW u \in Users, NEW t \in Nat
  PROVE  /\ PostTax(l, u, t) \in [Users -> LedgerRow]
         /\ PostTax(l, u, t)[u] = Row(l[u], -t, 0, 0, 0, t)
         /\ \A v \in Users \ {u} : PostTax(l, u, t)[v] = l[v]
BY RowType DEF PostTax

\* Rows after rows.
LEMMA RowRow ==
  ASSUME NEW r \in LedgerRow, NEW a \in Int, NEW b \in Int, NEW c \in Int, NEW d \in Int,
         NEW t \in Int, NEW e \in Int, NEW f \in Int, NEW g \in Int, NEW h \in Int, NEW s \in Int
  PROVE  Row(Row(r, a, b, c, d, t), e, f, g, h, s) = Row(r, a + e, b + f, c + g, d + h, t + s)
BY DEF Row, LedgerRow

LEMMA PostPostAt ==
  ASSUME NEW l \in [Users -> LedgerRow], NEW u \in Users, NEW a \in Int, NEW b \in Int,
         NEW c \in Int, NEW d \in Int, NEW e \in Int, NEW f \in Int, NEW g \in Int, NEW h \in Int,
         NEW m, m = Post(Post(l, u, a, b, c, d), u, e, f, g, h)
  PROVE  /\ m \in [Users -> LedgerRow]
         /\ m[u] = Row(l[u], a + e, b + f, c + g, d + h, 0)
         /\ \A v \in Users \ {u} : m[v] = l[v]
<1> DEFINE k == Post(l, u, a, b, c, d)
<1>1. /\ k \in [Users -> LedgerRow] /\ k[u] = Row(l[u], a, b, c, d, 0)
      /\ \A v \in Users \ {u} : k[v] = l[v]
  BY PostAt
<1> HIDE DEF k
<1>2. /\ m \in [Users -> LedgerRow] /\ m[u] = Row(k[u], e, f, g, h, 0)
      /\ \A v \in Users \ {u} : m[v] = k[v]
  BY <1>1, PostAt DEF k
<1>3. l[u] \in LedgerRow
  OBVIOUS
<1>4. Row(Row(l[u], a, b, c, d, 0), e, f, g, h, 0) = Row(l[u], a + e, b + f, c + g, d + h, 0)
  <2> DEFINE q == l[u]
  <2> HIDE DEF q
  <2>1. q \in LedgerRow
    BY <1>3 DEF q
  <2>2. Row(Row(q, a, b, c, d, 0), e, f, g, h, 0) = Row(q, a + e, b + f, c + g, d + h, 0)
    BY <2>1 DEF Row, LedgerRow
  <2> QED
    BY <2>2 DEF q
<1> QED
  BY <1>1, <1>2, <1>4

\* The rows of an order to sell.
LEMMA AskRowsAt ==
  ASSUME NEW l \in [Users -> LedgerRow], NEW t, t.user \in Users, t.qty \in Nat, NEW fee \in Nat,
         NEW m, m = AskRows(l, t, fee)
  PROVE  /\ m \in [Users -> LedgerRow]
         /\ m[t.user] = Row(l[t.user], -fee, 0, -t.qty, t.qty, 0)
         /\ \A v \in Users \ {t.user} : m[v] = l[v]
<1> DEFINE u == t.user
           n == t.qty
           minus == -n
           cost == -fee
<1>1. u \in Users /\ n \in Int /\ minus \in Int /\ cost \in Int
  OBVIOUS
<1>2. m = Post(Post(l, u, cost, 0, 0, 0), u, 0, 0, minus, n)
  BY DEF AskRows
<1> HIDE DEF u, n, minus, cost
<1>3. /\ m \in [Users -> LedgerRow] /\ m[u] = Row(l[u], cost + 0, 0 + 0, 0 + minus, 0 + n, 0)
      /\ \A v \in Users \ {u} : m[v] = l[v]
  BY <1>1, <1>2, PostPostAt
<1>4. cost + 0 = cost /\ 0 + minus = minus /\ 0 + n = n
  BY <1>1
<1> QED
  BY <1>3, <1>4 DEF u, n, minus, cost

\* The ledger gets a row with these values for u, and one of his alone.
Entered(u, total, reservedCash, stocks, reservedStocks, tax) ==
  /\ u \in Users /\ ledger' \in [Users -> LedgerRow]
  /\ ledger'[u] = Row(ledger[u], total, reservedCash, stocks, reservedStocks, tax)
  /\ \A v \in Users \ {u} : ledger'[v] = ledger[v]

LEMMA PostEnters ==
  ASSUME ledger \in [Users -> LedgerRow], NEW u \in Users, NEW a \in Int, NEW b \in Int,
         NEW c \in Int, NEW d \in Int, ledger' = Post(ledger, u, a, b, c, d)
  PROVE  Entered(u, a, b, c, d, 0)
BY PostAt DEF Entered

LEMMA RowFields ==
  ASSUME NEW e \in LedgerRow, NEW a, NEW b, NEW c, NEW d, NEW t, NEW r, r = Row(e, a, b, c, d, t)
  PROVE  /\ r.total = e.total + a /\ r.reservedCash = e.reservedCash + b
         /\ r.stocks = e.stocks + c /\ r.reservedStocks = e.reservedStocks + d
         /\ r.tax = e.tax + t
         /\ e.total \in Int /\ e.reservedCash \in Int /\ e.stocks \in Int
         /\ e.reservedStocks \in Int /\ e.tax \in Nat
BY DEF Row, LedgerRow

------------------------------------------------------------------------------
(* Orders *)

LEMMA TicketType ==
  ASSUME NEW t \in Tickets
  PROVE  /\ t.side \in Sides /\ t.user \in Users /\ t.kind \in {"Limit", "Market", "StopLoss"}
         /\ t.price \in Prices /\ t.price \in Nat /\ t.qty \in Nat /\ t.qty > 0
<1>1. /\ t.side \in Sides /\ t.user \in Users /\ t.kind \in {"Limit", "Market", "StopLoss"}
      /\ t.price \in Prices /\ t.qty \in Nat \ {0}
  BY TicketsAssumption DEF Ticket
<1>2. t.price \in Nat
  BY <1>1, PricesAssumption
<1> QED
  BY <1>1, <1>2

LEMMA OrderType ==
  ASSUME NEW o \in Order
  PROVE  /\ o.side \in Sides /\ o.user \in Users /\ o.kind \in {"Limit", "Market", "StopLoss"}
         /\ o.price \in Prices /\ o.price \in Nat /\ o.qty \in Nat /\ o.qty > 0
         /\ o.filled \in Nat /\ o.open \in BOOLEAN /\ o.deposit \in Nat /\ o.lent \in Nat
         /\ o.saved \in BOOLEAN
<1>1. /\ o.side \in Sides /\ o.user \in Users /\ o.kind \in {"Limit", "Market", "StopLoss"}
      /\ o.price \in Prices /\ o.qty \in Nat \ {0}
      /\ o.filled \in Nat /\ o.open \in BOOLEAN /\ o.deposit \in Nat /\ o.lent \in Nat
      /\ o.saved \in BOOLEAN
  BY DEF Order
<1>2. o.price \in Nat
  BY <1>1, PricesAssumption
<1> QED
  BY <1>1, <1>2

LEMMA OrdersAre ==
  ASSUME TInv
  PROVE  /\ DOMAIN orders = 1 .. Len(orders) /\ Len(orders) \in Nat
         /\ IsFiniteSet(DOMAIN orders)
         /\ \A i \in DOMAIN orders : orders[i] \in Order /\ Unfilled(orders[i]) \in Nat
<1>1. DOMAIN orders = 1 .. Len(orders) /\ Len(orders) \in Nat
  BY DEF TInv
<1>2. IsFiniteSet(1 .. Len(orders))
  BY <1>1, FS_Interval
<1>3. \A i \in DOMAIN orders : orders[i] \in Order
  BY DEF TInv
<1>4. \A i \in DOMAIN orders : Unfilled(orders[i]) \in Nat
  BY <1>3, OrderType DEF TInv, Unfilled
<1> QED
  BY <1>1, <1>2, <1>3, <1>4

\* What an order costs.
LEMMA CostType ==
  ASSUME TInv, NEW t \in Tickets
  PROVE  OrderPrice(t) \in Nat /\ OrderFee(t) \in Nat /\ t.qty * OrderPrice(t) \in Nat
<1>1. price \in Nat
  BY PricesAssumption DEF TInv
<1>2. OrderPrice(t) \in Nat
  BY <1>1, TicketType DEF OrderPrice
<1>3. t.qty * OrderPrice(t) \in Nat /\ 3 * t.qty \in Nat
  BY <1>2, TicketType
<1>4. (3 * t.qty) * OrderPrice(t) \in Nat
  BY <1>2, <1>3, Products
<1>5. OrderFee(t) \in Nat
  BY <1>4, Quotients DEF OrderFee
<1> QED
  BY <1>2, <1>3, <1>5

LEMMA NewOrderFresh ==
  ASSUME NEW t \in Tickets, NEW d \in Nat, NEW n \in Nat, NEW b \in BOOLEAN
  PROVE  Fresh(NewOrder(t, d, n, b))
BY TicketType DEF NewOrder, Fresh, Order

\* An order reaches the book.
Added(o) == Fresh(o) /\ orders' = Append(orders, o)

LEMMA AddedOrders ==
  ASSUME TInv, NEW o, Added(o)
  PROVE  /\ orders' \in Seq(Order) /\ o \in Order
         /\ DOMAIN orders' = 1 .. Len(orders) + 1 /\ DOMAIN orders \subseteq DOMAIN orders'
         /\ orders'[Len(orders) + 1] = o
         /\ \A i \in 1 .. Len(orders) : orders'[i] = orders[i]
         /\ \A i \in DOMAIN orders' : /\ orders'[i].filled <= orders'[i].qty
                                      /\ orders'[i].open => orders'[i].filled < orders'[i].qty
<1>1. /\ orders \in Seq(Order) /\ o \in Order /\ o.filled = 0 /\ orders' = Append(orders, o)
      /\ Len(orders) \in Nat /\ DOMAIN orders = 1 .. Len(orders)
  BY OrdersAre DEF Added, Fresh, TInv
<1>2. /\ orders' \in Seq(Order) /\ Len(orders') = Len(orders) + 1
      /\ orders'[Len(orders) + 1] = o
      /\ \A i \in 1 .. Len(orders) : orders'[i] = orders[i]
  BY <1>1
<1>3. DOMAIN orders' = 1 .. Len(orders) + 1
  BY <1>1, <1>2
<1>4. o.filled < o.qty
  BY <1>1, OrderType
<1>5. \A i \in DOMAIN orders' : i \in 1 .. Len(orders) \/ i = Len(orders) + 1
  BY <1>1, <1>3
<1>6. \A i \in DOMAIN orders' :
        /\ orders'[i].filled <= orders'[i].qty
        /\ orders'[i].open => orders'[i].filled < orders'[i].qty
  <2> TAKE i \in DOMAIN orders'
  <2>1. CASE i = Len(orders) + 1
    BY <1>1, <1>2, <1>4, <2>1, OrderType
  <2>2. CASE i \in 1 .. Len(orders)
    BY <1>1, <1>2, <2>2 DEF TInv
  <2> QED
    BY <1>5, <2>1, <2>2
<1>7. DOMAIN orders \subseteq DOMAIN orders'
  BY <1>1, <1>3
<1> QED
  BY <1>1, <1>2, <1>3, <1>6, <1>7

\* The order i becomes o, which is filled no less and asks for the same.
Changed(i, o) ==
  /\ i \in DOMAIN orders /\ o \in Order
  /\ o.user = orders[i].user /\ o.side = orders[i].side /\ o.qty = orders[i].qty
  /\ o.deposit = orders[i].deposit /\ o.saved = orders[i].saved
  /\ o.filled <= o.qty /\ (o.open => o.filled < o.qty)

LEMMA ChangedOrders ==
  ASSUME TInv, NEW i, NEW o, Changed(i, o), orders' = [orders EXCEPT ![i] = o]
  PROVE  /\ orders' \in Seq(Order)
         /\ DOMAIN orders' = DOMAIN orders
         /\ orders'[i] = o
         /\ \A j \in DOMAIN orders \ {i} : orders'[j] = orders[j]
         /\ \A j \in DOMAIN orders' : /\ orders'[j].filled <= orders'[j].qty
                                      /\ orders'[j].open => orders'[j].filled < orders'[j].qty
<1>1. orders \in Seq(Order) /\ i \in DOMAIN orders /\ o \in Order
  BY DEF TInv, Changed
<1>2. /\ orders' \in Seq(Order) /\ Len(orders') = Len(orders)
      /\ DOMAIN orders' = DOMAIN orders /\ orders'[i] = o
      /\ \A j \in DOMAIN orders \ {i} : orders'[j] = orders[j]
  BY <1>1
<1> QED
  BY <1>1, <1>2 DEF TInv, Changed

\* The pending updates stay well formed when the book keeps its orders.
LEMMA UpdatingType ==
  ASSUME TInv, updating' \subseteq updating, DOMAIN orders \subseteq DOMAIN orders'
  PROVE  /\ updating' \subseteq (Lends \cup Returns)'
         /\ \A x \in updating' : x.what = "lend" => Fresh(x.order) /\ x.order.side = "ask"
<1>1. Returns \subseteq Returns' /\ Lends = Lends'
  BY DEF Returns, Lends
<1>2. updating \subseteq Lends \cup Returns
  BY DEF TInv
<1>3. \A x \in updating : x.what = "lend" => Fresh(x.order) /\ x.order.side = "ask"
  BY DEF TInv
<1> QED
  BY <1>1, <1>2, <1>3

------------------------------------------------------------------------------
(* TypeOK *)

LEMMA InitTInv == Init => TInv
<1> SUFFICES ASSUME Init PROVE TInv
  OBVIOUS
<1>1. 0 \in Unsigneds /\ StartCash \in Unsigneds /\ StartBank \in Unsigneds
  BY WordAssumption, StartAssumption DEF Unsigneds
<1>2. ledger \in [Users -> LedgerRow]
  BY DEF Init, LedgerRow
<1>3. summary \in [Users -> Summary]
  BY DEF Init, Summary
<1>4. exchange \in 0 .. StartExchange /\ deals \in 0 .. MaxDeals /\ faults \in 0 .. MaxFaults
  BY StartAssumption, BoundsAssumption DEF Init
<1> QED
  BY <1>1, <1>2, <1>3, <1>4 DEF Init, TInv

LEMMA PlaceAskTInv ==
  ASSUME TInv, NEW t \in Tickets, PlaceAsk(t)
  PROVE  TInv'
<1> DEFINE o == NewOrder(t, 0, 0, TRUE)
<1>1. Added(o)
  BY NewOrderFresh DEF Added, PlaceAsk
<1> HIDE DEF o
<1>2. OrderFee(t) \in Nat /\ t.user \in Users /\ t.qty \in Nat
  BY CostType, TicketType
<1>3. cash' \in [Users -> Unsigneds]
  <2>1. Unsigned(cash[t.user] - OrderFee(t)) \in Unsigneds
    <3>1. cash[t.user] \in Int
      BY <1>2, WordAssumption DEF TInv, Unsigneds
    <3> QED
      BY <1>2, <3>1, UnsignedType
  <2> QED
    BY <2>1 DEF TInv, PlaceAsk
<1>4. ledger' \in [Users -> LedgerRow]
  BY <1>2, AskRowsAt DEF TInv, PlaceAsk
<1>5. updating' = updating /\ DOMAIN orders \subseteq DOMAIN orders'
  BY <1>1, AddedOrders DEF PlaceAsk
<1>6. UNCHANGED <<reserved, summary, mortgaged, exchange, bank, updating, price, deals, faults>>
  BY DEF PlaceAsk
<1> QED
  BY <1>1, <1>3, <1>4, <1>5, <1>6, AddedOrders, UpdatingType DEF TInv

LEMMA PlaceBidTInv ==
  ASSUME TInv, NEW t \in Tickets, PlaceBid(t)
  PROVE  TInv'
<1> DEFINE d == t.qty * OrderPrice(t)
           o == NewOrder(t, d, 0, TRUE)
<1>2. OrderFee(t) \in Nat /\ t.user \in Users /\ t.qty \in Nat /\ d \in Nat
  BY CostType, TicketType
<1>1. Added(o)
  BY <1>2, NewOrderFresh DEF Added, PlaceBid
<1>7. /\ cash' = [cash EXCEPT ![t.user] = Unsigned(@ - OrderFee(t) - d)]
      /\ reserved' = [reserved EXCEPT ![t.user] = Unsigned(@ + d)]
      /\ ledger' = Post(Post(ledger, t.user, -OrderFee(t), 0, 0, 0), t.user, -d, d, 0, 0)
  BY DEF PlaceBid
<1> HIDE DEF o, d
<1>3. cash' \in [Users -> Unsigneds] /\ reserved' \in [Users -> Unsigneds]
  <2>1. cash[t.user] \in Int /\ reserved[t.user] \in Int
    BY <1>2, WordAssumption DEF TInv, Unsigneds
  <2>2. /\ Unsigned(cash[t.user] - OrderFee(t) - d) \in Unsigneds
        /\ Unsigned(reserved[t.user] + d) \in Unsigneds
    BY <1>2, <2>1, UnsignedType
  <2> QED
    BY <1>7, <2>2 DEF TInv
<1>4. ledger' \in [Users -> LedgerRow]
  <2> DEFINE fee == -OrderFee(t)
             minus == -d
  <2>1. fee \in Int /\ minus \in Int /\ ledger' = Post(Post(ledger, t.user, fee, 0, 0, 0), t.user, minus, d, 0, 0)
    BY <1>2, <1>7
  <2>2. ledger \in [Users -> LedgerRow] /\ t.user \in Users /\ d \in Int /\ 0 \in Int
    BY <1>2 DEF TInv
  <2> HIDE DEF fee, minus, TInv
  <2>3. Post(Post(ledger, t.user, fee, 0, 0, 0), t.user, minus, d, 0, 0) \in [Users -> LedgerRow]
    BY <2>1, <2>2, PostPostAt
  <2> QED
    BY <2>1, <2>3
<1>5. updating' = updating /\ DOMAIN orders \subseteq DOMAIN orders'
  BY <1>1, AddedOrders DEF PlaceBid
<1>6. UNCHANGED <<summary, mortgaged, exchange, bank, updating, price, deals, faults>>
  BY DEF PlaceBid
<1> QED
  BY <1>1, <1>3, <1>4, <1>5, <1>6, AddedOrders, UpdatingType DEF TInv

LEMMA FaultStep ==
  ASSUME TInv, Fault
  PROVE  faults' \in 0 .. MaxFaults /\ faults' > 0
BY BoundsAssumption DEF TInv, Fault

LEMMA PlaceFailsTInv ==
  ASSUME TInv, NEW t \in Tickets, PlaceFails(t)
  PROVE  TInv'
<1> DEFINE o == NewOrder(t, 0, 0, FALSE)
<1>1. Added(o)
  BY NewOrderFresh DEF Added, PlaceFails
<1> HIDE DEF o
<1>2. faults' \in 0 .. MaxFaults
  BY FaultStep DEF PlaceFails
<1>3. UNCHANGED <<purse, rows, mortgaged, exchange, bank, updating, price, deals>>
  BY DEF PlaceFails
<1> QED
  BY <1>1, <1>2, <1>3, AddedOrders, UpdatingType DEF TInv

\* The steps that change nothing but the pending updates.
LEMMA UpdatingTInv ==
  ASSUME TInv, NEW x,
         UNCHANGED <<orders, purse, rows, mortgaged, exchange, bank, price, deals, faults>>,
         updating' \subseteq updating \cup {x}, x \in Lends \cup Returns,
         x.what = "lend" => Fresh(x.order) /\ x.order.side = "ask"
  PROVE  TInv'
<1>1. Lends' = Lends /\ Returns' = Returns
  BY DEF Lends, Returns
<1> QED
  BY <1>1 DEF TInv

LEMMA StartLendTInv ==
  ASSUME TInv, NEW t \in Tickets, StartLend(t)
  PROVE  TInv'
<1> DEFINE o == NewOrder(t, 0, Short(t), TRUE)
           x == [what |-> "lend", order |-> o, fee |-> OrderFee(t), step |-> "read", seen |-> 0]
<1>1. Short(t) \in Nat
  BY TicketType DEF TInv, LedgerRow, Short, StartLend
<1>2. Fresh(o) /\ o.side = "ask"
  BY <1>1, NewOrderFresh DEF StartLend, NewOrder
<1>3. updating' = updating \cup {x}
  BY DEF StartLend
<1> HIDE DEF o
<1>4. x \in Lends /\ x.order = o
  BY <1>2, CostType, WordAssumption DEF Fresh, Lends, Unsigneds
<1> HIDE DEF x
<1> QED
  BY <1>2, <1>3, <1>4, UpdatingTInv DEF StartLend

LEMMA StartReturnTInv ==
  ASSUME TInv, NEW i \in DOMAIN orders, StartReturn(i)
  PROVE  TInv'
<1> DEFINE x == [what |-> "return", order |-> i, fee |-> 0, step |-> "read", seen |-> 0]
<1>1. updating' = updating \cup {x}
  BY DEF StartReturn
<1>2. x \in Returns /\ x.what # "lend"
  BY WordAssumption DEF Returns, Unsigneds
<1> HIDE DEF x
<1> QED
  BY <1>1, <1>2, UpdatingTInv DEF StartReturn

\* What the fields of a pending update are.
LEMMA UpdateType ==
  ASSUME TInv, NEW x \in updating
  PROVE  /\ x.what \in {"lend", "return"} /\ x.step \in {"read", "write"} /\ x.seen \in Unsigneds
         /\ x.seen \in Nat
         /\ x.what = "lend" => /\ x \in Lends /\ x.order \in Order /\ x.fee \in Nat
                               /\ Fresh(x.order) /\ x.order.side = "ask"
         /\ x.what = "return" => x \in Returns /\ x.order \in DOMAIN orders
<1>1. x \in Lends \/ x \in Returns
  BY DEF TInv
<1>2. \A n \in Unsigneds : n \in Nat
  BY WordAssumption DEF Unsigneds
<1>3. CASE x \in Lends
  BY <1>2, <1>3 DEF TInv, Lends
<1>4. CASE x \in Returns
  BY <1>2, <1>4 DEF TInv, Returns
<1> QED
  BY <1>1, <1>3, <1>4

LEMMA ReadBankTInv ==
  ASSUME TInv, NEW x \in updating, ReadBank(x)
  PROVE  TInv'
<1> DEFINE s == [x EXCEPT !.step = "write"]
           y == [s EXCEPT !.seen = bank]
<1>1. updating' = (updating \ {x}) \cup {y}
  BY DEF ReadBank
<1>2. bank \in Unsigneds
  BY DEF TInv
<1>3. CASE x.what = "lend"
  <2>1. x \in Lends /\ Fresh(x.order) /\ x.order.side = "ask"
    BY <1>3, UpdateType
  <2>2. s \in Lends /\ s.order = x.order
    BY <2>1 DEF Lends
  <2> HIDE DEF s
  <2>3. y \in Lends /\ y.order = x.order
    BY <1>2, <2>2 DEF Lends
  <2> HIDE DEF y
  <2> QED
    BY <1>1, <2>1, <2>3, UpdatingTInv DEF ReadBank
<1>4. CASE x.what = "return"
  <2>1. x \in Returns
    BY <1>4, UpdateType
  <2>2. s \in Returns
    BY <2>1 DEF Returns
  <2> HIDE DEF s
  <2>3. y \in Returns
    BY <1>2, <2>2 DEF Returns
  <2>4. y.what # "lend"
    BY <2>3 DEF Returns
  <2> HIDE DEF y
  <2> QED
    BY <1>1, <2>3, <2>4, UpdatingTInv DEF ReadBank
<1> QED
  BY <1>3, <1>4, UpdateType

LEMMA CommitLendTInv ==
  ASSUME TInv, NEW x \in updating, CommitLend(x)
  PROVE  TInv'
<1> DEFINE o == x.order
<1>1. /\ Fresh(o) /\ o \in Order /\ o.side = "ask" /\ x.fee \in Nat /\ x.seen \in Nat
  BY UpdateType DEF CommitLend
<1>2. Added(o)
  BY <1>1 DEF Added, CommitLend
<1>3. o.user \in Users /\ o.qty \in Nat /\ o.lent \in Nat
  BY <1>1, OrderType
<1>7. /\ bank' = Unsigned(x.seen - o.lent)
      /\ cash' = [cash EXCEPT ![o.user] = Unsigned(@ - x.fee)]
      /\ ledger' = AskRows(Post(ledger, o.user, 0, 0, o.lent, 0), o, x.fee)
      /\ updating' \subseteq updating
      /\ UNCHANGED <<reserved, summary, mortgaged, exchange, price, deals, faults>>
  BY DEF CommitLend
<1> HIDE DEF o
<1>4. cash' \in [Users -> Unsigneds] /\ bank' \in Unsigneds
  <2>1. cash[o.user] \in Int
    BY <1>3, WordAssumption DEF TInv, Unsigneds
  <2>2. Unsigned(cash[o.user] - x.fee) \in Unsigneds /\ Unsigned(x.seen - o.lent) \in Unsigneds
    BY <1>1, <1>3, <2>1, UnsignedType
  <2> QED
    BY <1>7, <2>2 DEF TInv
<1>5. ledger' \in [Users -> LedgerRow]
  <2> DEFINE k == Post(ledger, o.user, 0, 0, o.lent, 0)
  <2>a. ledger \in [Users -> LedgerRow] /\ 0 \in Int /\ o.lent \in Int
    BY <1>3 DEF TInv
  <2>1. k \in [Users -> LedgerRow]
    BY <1>3, <2>a, PostAt
  <2>2. ledger' = AskRows(k, o, x.fee)
    BY <1>7
  <2> HIDE DEF k
  <2>3. AskRows(k, o, x.fee) \in [Users -> LedgerRow]
    BY <1>1, <1>3, <2>1, AskRowsAt
  <2> QED
    BY <2>2, <2>3
<1>6. DOMAIN orders \subseteq DOMAIN orders'
  BY <1>2, AddedOrders
<1> QED
  BY <1>2, <1>4, <1>5, <1>6, <1>7, AddedOrders, UpdatingType DEF TInv

LEMMA CommitReturnTInv ==
  ASSUME TInv, NEW x \in updating, CommitReturn(x)
  PROVE  TInv'
<1> DEFINE i == x.order
           o == orders[i]
           p == [o EXCEPT !.lent = 0]
<1>1. i \in DOMAIN orders /\ x.seen \in Nat
  BY UpdateType DEF CommitReturn
<1>2. o \in Order
  BY <1>1, OrdersAre
<1>3. /\ orders' = [orders EXCEPT ![i] = p]
      /\ bank' = Unsigned(x.seen + o.lent)
      /\ ledger' = Post(ledger, o.user, 0, 0, -o.lent, 0)
      /\ updating' \subseteq updating
      /\ UNCHANGED <<purse, summary, mortgaged, exchange, price, deals, faults>>
  BY DEF CommitReturn
<1>4. Changed(i, p)
  <2>1. o.filled <= o.qty /\ (o.open => o.filled < o.qty)
    BY <1>1 DEF TInv
  <2> HIDE DEF o
  <2>2. /\ p \in Order /\ p.user = o.user /\ p.side = o.side /\ p.qty = o.qty
        /\ p.deposit = o.deposit /\ p.saved = o.saved /\ p.filled = o.filled /\ p.open = o.open
    BY <1>2 DEF Order
  <2> QED
    BY <1>1, <2>1, <2>2 DEF Changed, o
<1>5. o.user \in Users /\ o.lent \in Nat
  BY <1>2, OrderType
<1> HIDE DEF i, o, p
<1>6. ledger' \in [Users -> LedgerRow] /\ bank' \in Unsigneds
  <2> DEFINE minus == -o.lent
  <2>1. minus \in Int /\ x.seen + o.lent \in Int
    BY <1>1, <1>5
  <2>2. bank' \in Unsigneds
    BY <1>3, <2>1, UnsignedType
  <2>3. ledger \in [Users -> LedgerRow] /\ ledger' = Post(ledger, o.user, 0, 0, minus, 0) /\ 0 \in Int
    BY <1>3 DEF TInv
  <2> HIDE DEF minus
  <2>4. Entered(o.user, 0, 0, minus, 0, 0)
    BY <1>5, <2>1, <2>3, PostEnters
  <2> QED
    BY <2>2, <2>4 DEF Entered
<1>7. DOMAIN orders \subseteq DOMAIN orders'
  BY <1>3, <1>4, ChangedOrders
<1> QED
  BY <1>3, <1>4, <1>6, <1>7, ChangedOrders, UpdatingType DEF TInv

\* An order is closed and does not change otherwise.
LEMMA ClosedOrder ==
  ASSUME TInv, NEW i \in DOMAIN orders, NEW p, p = [orders[i] EXCEPT !.open = FALSE]
  PROVE  Changed(i, p) /\ p.lent = orders[i].lent /\ ~p.open /\ p.filled = orders[i].filled
<1> DEFINE o == orders[i]
<1>1. o \in Order /\ o.filled <= o.qty
  BY OrdersAre DEF TInv
<1> HIDE DEF o
<1>2. p = [o EXCEPT !.open = FALSE]
  BY DEF o
<1>3. /\ p \in Order /\ p.user = o.user /\ p.side = o.side /\ p.qty = o.qty
      /\ p.deposit = o.deposit /\ p.saved = o.saved /\ p.filled = o.filled
      /\ p.lent = o.lent /\ ~p.open
  BY <1>1, <1>2 DEF Order
<1> QED
  BY <1>1, <1>3 DEF Changed, o

LEMMA CancelAskTInv ==
  ASSUME TInv, NEW i \in DOMAIN orders, CancelAsk(i)
  PROVE  TInv'
<1> DEFINE o == orders[i]
           n == Unfilled(o)
           minus == -n
           p == [o EXCEPT !.open = FALSE]
<1>1. /\ orders' = [orders EXCEPT ![i] = p]
      /\ ledger' = Post(ledger, o.user, 0, 0, n, minus)
      /\ UNCHANGED <<purse, summary, mortgaged, exchange, bank, updating, price, deals, faults>>
  BY DEF CancelAsk
<1>2. Changed(i, p)
  BY ClosedOrder
<1>3. o.user \in Users /\ n \in Int /\ minus \in Int
  BY OrdersAre, OrderType
<1> HIDE DEF o, n, minus, p
<1>4. ledger' \in [Users -> LedgerRow]
  <2>1. ledger \in [Users -> LedgerRow] /\ 0 \in Int
    BY DEF TInv
  <2> QED
    BY <1>1, <1>3, <2>1, PostEnters DEF Entered
<1>5. DOMAIN orders \subseteq DOMAIN orders'
  BY <1>1, <1>2, ChangedOrders
<1> QED
  BY <1>1, <1>2, <1>4, <1>5, ChangedOrders, UpdatingType DEF TInv

\* What a bid gets back is what is left of its deposit.
LEMMA RefundType ==
  ASSUME NEW o \in Order, NEW n \in Nat
  PROVE  ShareOf(o, n) \in Nat
<1>1. o.deposit * n \in Nat /\ o.qty \in Nat \ {0}
  BY OrderType, Products
<1> QED
  BY <1>1, Quotients DEF ShareOf

LEMMA CloseBidTInv ==
  ASSUME TInv, NEW i \in DOMAIN orders, CloseBid(i)
  PROVE  TInv'
<1> DEFINE o == orders[i]
           n == Refund(o)
           minus == -n
           p == [o EXCEPT !.open = FALSE]
<1>1. /\ orders' = [orders EXCEPT ![i] = p]
      /\ cash' = [cash EXCEPT ![o.user] = Unsigned(@ + n)]
      /\ reserved' = [reserved EXCEPT ![o.user] = Unsigned(@ - n)]
      /\ ledger' = Post(ledger, o.user, n, minus, 0, 0)
      /\ UNCHANGED <<summary, mortgaged, exchange, bank, updating, price, deals, faults>>
  BY DEF CloseBid
<1>2. Changed(i, p)
  BY ClosedOrder
<1>3. o.user \in Users /\ n \in Nat /\ n \in Int /\ minus \in Int
  BY OrdersAre, OrderType, RefundType DEF Refund
<1> HIDE DEF o, n, minus, p
<1>4. ledger' \in [Users -> LedgerRow]
  <2>1. ledger \in [Users -> LedgerRow] /\ 0 \in Int
    BY DEF TInv
  <2> QED
    BY <1>1, <1>3, <2>1, PostEnters DEF Entered
<1>5. DOMAIN orders \subseteq DOMAIN orders'
  BY <1>1, <1>2, ChangedOrders
<1>6. cash' \in [Users -> Unsigneds] /\ reserved' \in [Users -> Unsigneds]
  <2>1. cash[o.user] \in Int /\ reserved[o.user] \in Int
    BY <1>3, WordAssumption DEF TInv, Unsigneds
  <2>2. Unsigned(cash[o.user] + n) \in Unsigneds /\ Unsigned(reserved[o.user] - n) \in Unsigneds
    BY <1>3, <2>1, UnsignedType
  <2> QED
    BY <1>1, <2>2 DEF TInv
<1> QED
  BY <1>1, <1>2, <1>4, <1>5, <1>6, ChangedOrders, UpdatingType DEF TInv

LEMMA CancelFailsTInv ==
  ASSUME TInv, NEW i \in DOMAIN orders, CancelFails(i)
  PROVE  TInv'
<1> DEFINE p == [orders[i] EXCEPT !.open = FALSE]
<1>1. /\ orders' = [orders EXCEPT ![i] = p]
      /\ UNCHANGED <<purse, rows, mortgaged, exchange, bank, updating, price, deals>>
  BY DEF CancelFails
<1>2. Changed(i, p)
  BY ClosedOrder
<1> HIDE DEF p
<1>3. faults' \in 0 .. MaxFaults
  BY FaultStep DEF CancelFails, TInv
<1>4. DOMAIN orders \subseteq DOMAIN orders'
  BY <1>1, <1>2, ChangedOrders
<1> QED
  BY <1>1, <1>2, <1>3, <1>4, ChangedOrders, UpdatingType DEF TInv

------------------------------------------------------------------------------
(* Trades *)

LEMMA LeastType ==
  ASSUME NEW x \in Int, NEW y \in Int
  PROVE  Least(x, y) \in Int /\ Least(x, y) <= x /\ Least(x, y) <= y /\ Least(x, y) \in {x, y}
BY DEF Least

LEMMA ProfitType ==
  ASSUME NEW n \in Nat, NEW gain \in Int
  PROVE  Profit(n, gain) \in Nat
<1>1. CASE gain > 0
  BY <1>1, Products DEF Profit
<1>2. CASE ~(gain > 0)
  BY <1>2 DEF Profit
<1> QED
  BY <1>1, <1>2

LEMMA TaxesType ==
  ASSUME NEW s \in Summary, NEW n \in Nat, NEW p \in Nat, NEW percent \in TaxPercents
  PROVE  TaxOnSelling(s, n, p, percent) \in Nat /\ TaxOnBuying(s, n, p, percent) \in Nat
<1>1. s.held \in Int /\ s.price \in Nat /\ percent \in Nat
  BY TaxAssumption DEF Summary
<1>2. TaxOnSelling(s, n, p, percent) \in Nat
  <2>1. CASE s.held > 0
    <3>1. Least(n, s.held) \in Nat /\ p - s.price \in Int
      BY <1>1, <2>1 DEF Least
    <3>2. Profit(Least(n, s.held), p - s.price) \in Nat
      BY <3>1, ProfitType
    <3>3. Profit(Least(n, s.held), p - s.price) * percent \in Nat
      BY <1>1, <3>2, Products
    <3> QED
      BY <2>1, <3>3, Quotients DEF TaxOnSelling
  <2> QED
    BY <1>1, <2>1 DEF TaxOnSelling
<1>3. TaxOnBuying(s, n, p, percent) \in Nat
  <2>1. CASE s.held < 0
    <3>1. Least(n, -s.held) \in Nat /\ s.price - p \in Int
      BY <1>1, <2>1 DEF Least
    <3>2. Profit(Least(n, -s.held), s.price - p) \in Nat
      BY <3>1, ProfitType
    <3>3. Profit(Least(n, -s.held), s.price - p) * percent \in Nat
      BY <1>1, <3>2, Products
    <3> QED
      BY <2>1, <3>3, Quotients DEF TaxOnBuying
  <2> QED
    BY <1>1, <2>1 DEF TaxOnBuying
<1> QED
  BY <1>2, <1>3

\* The average of n stocks at p and h at q.
LEMMA AverageType ==
  ASSUME NEW h \in Nat, NEW q \in Nat, NEW n \in Nat \ {0}, NEW p \in Nat
  PROVE  (h * q + n * p) \div (h + n) \in Nat
<1>1. h * q \in Nat /\ n * p \in Nat
  BY Products
<1>2. h * q + n * p \in Nat /\ h + n \in Nat \ {0}
  BY <1>1
<1> QED
  BY <1>2, Quotients

LEMMA SummaryType ==
  ASSUME NEW s \in Summary, NEW n \in Nat \ {0}, NEW p \in Nat
  PROVE  /\ s.held \in Int
         /\ Bought(s, n, p) \in Summary /\ Bought(s, n, p).held = s.held + n
         /\ Sold(s, n, p) \in Summary /\ Sold(s, n, p).held = s.held - n
<1> DEFINE h == s.held
           q == s.price
<1>1. h \in Int /\ q \in Nat
  BY DEF Summary
<1>2. /\ Bought(s, n, p) = [held |-> h + n,
                            price |-> IF h >= 0 THEN (h * q + n * p) \div (h + n)
                                      ELSE IF n >= -h THEN p ELSE q]
      /\ Sold(s, n, p) = [held |-> h - n,
                          price |-> IF h <= 0 THEN (n * p - h * q) \div (n - h)
                                    ELSE IF n >= h THEN p ELSE q]
  BY DEF Bought, Sold
<1> HIDE DEF h, q
<1>3. ASSUME h >= 0 PROVE (h * q + n * p) \div (h + n) \in Nat
  <2>1. h \in Nat
    BY <1>1, <1>3
  <2> QED
    BY <1>1, <2>1, AverageType
<1>4. ASSUME h <= 0 PROVE (n * p - h * q) \div (n - h) \in Nat
  <2> DEFINE m == -h
  <2>1. m \in Nat /\ n - h = m + n /\ n * p - h * q = m * q + n * p
    BY <1>1, <1>4
  <2> HIDE DEF m
  <2> QED
    BY <1>1, <2>1, AverageType
<1>5. h + n \in Int /\ h - n \in Int
  BY <1>1
<1>6. Bought(s, n, p).price \in Nat
  <2>1. CASE h >= 0
    BY <1>2, <1>3, <2>1
  <2>2. CASE ~(h >= 0)
    BY <1>1, <1>2, <2>2
  <2> QED
    BY <2>1, <2>2
<1>7. Sold(s, n, p).price \in Nat
  <2>1. CASE h <= 0
    BY <1>2, <1>4, <2>1
  <2>2. CASE ~(h <= 0)
    BY <1>1, <1>2, <2>2
  <2> QED
    BY <2>1, <2>2
<1> QED
  <2>1. Bought(s, n, p).held = h + n /\ Sold(s, n, p).held = h - n
    BY <1>2
  <2>2. Bought(s, n, p) \in Summary /\ Sold(s, n, p) \in Summary
    BY <1>2, <1>5, <1>6, <1>7 DEF Summary
  <2> QED
    BY <1>1, <2>1, <2>2 DEF h

\* The two orders of a trade, and how much is traded.
LEMMA FillParties ==
  ASSUME TInv, NEW a \in DOMAIN orders, NEW b \in DOMAIN orders, MayFill(a, b),
         NEW n, n = FillQty(a, b)
  PROVE  /\ a # b /\ orders[a].user # orders[b].user
         /\ orders[a].side = "ask" /\ orders[b].side = "bid"
         /\ orders[a].open /\ orders[b].open /\ orders[b].saved
         /\ orders[a].user \in Users /\ orders[b].user \in Users
         /\ n \in Nat \ {0} /\ n <= Unfilled(orders[a]) /\ n <= Unfilled(orders[b])
         /\ ShareOf(orders[b], n) \in Nat
<1>1. /\ orders[a].side = "ask" /\ orders[b].side = "bid"
      /\ orders[a].open /\ orders[b].open /\ orders[b].saved
      /\ orders[a].user # orders[b].user
  BY DEF MayFill
<1> DEFINE x == Unfilled(orders[a])
           y == Unfilled(orders[b])
<1>2. /\ orders[a] \in Order /\ orders[b] \in Order
      /\ x \in Nat \ {0} /\ y \in Nat \ {0}
  <2>1. \A i \in DOMAIN orders : orders[i].open =>
          orders[i].qty \in Nat /\ orders[i].filled \in Nat /\ orders[i].filled < orders[i].qty
    BY OrdersAre, OrderType DEF TInv
  <2>2. \A i \in DOMAIN orders : orders[i].open => Unfilled(orders[i]) \in Nat \ {0}
    BY <2>1 DEF Unfilled
  <2> QED
    BY <1>1, <2>2, OrdersAre
<1>3. n \in Nat \ {0} /\ n <= x /\ n <= y
  <2>1. n = Least(x, y)
    BY DEF FillQty
  <2> HIDE DEF x, y
  <2> QED
    BY <1>2, <2>1 DEF Least
<1> QED
  BY <1>1, <1>2, <1>3, OrderType, RefundType

LEMMA FilledOrder ==
  ASSUME TInv, NEW i \in DOMAIN orders, NEW n \in Nat \ {0}, n <= Unfilled(orders[i]),
         NEW p, p = FillOrder(orders[i], n)
  PROVE  /\ Changed(i, p) /\ p.filled = orders[i].filled + n /\ p.lent = orders[i].lent
         /\ Unfilled(p) = Unfilled(orders[i]) - n
         /\ p.open <=> n # Unfilled(orders[i])
<1> DEFINE o == orders[i]
           f == o.filled + n
           k == [o EXCEPT !.filled = f]
           open == f # o.qty
<1>1. o \in Order /\ o.qty \in Nat /\ o.filled \in Nat /\ n <= o.qty - o.filled
  BY OrdersAre, OrderType DEF Unfilled
<1>2. f \in Nat /\ f <= o.qty /\ f = o.filled + n /\ (open <=> n # o.qty - o.filled)
  BY <1>1
<1>3. open \in BOOLEAN /\ (open <=> f # o.qty)
  OBVIOUS
<1>4. p = [k EXCEPT !.open = open]
  BY DEF FillOrder
<1> HIDE DEF f, o, open
<1>5. /\ k \in Order /\ k.user = o.user /\ k.side = o.side /\ k.qty = o.qty
      /\ k.deposit = o.deposit /\ k.saved = o.saved /\ k.filled = f /\ k.lent = o.lent
  BY <1>1, <1>2 DEF Order
<1> HIDE DEF k
<1>6. /\ p \in Order /\ p.user = k.user /\ p.side = k.side /\ p.qty = k.qty
      /\ p.deposit = k.deposit /\ p.saved = k.saved /\ p.filled = k.filled /\ p.lent = k.lent
      /\ p.open <=> open
  BY <1>3, <1>4, <1>5 DEF Order
<1>7. Changed(i, p)
  BY <1>1, <1>2, <1>3, <1>5, <1>6 DEF Changed, o
<1> QED
  BY <1>1, <1>2, <1>5, <1>6, <1>7 DEF Unfilled, o

\* The ledger l becomes m by a trade of n stocks at p, for which the buyer had reserved
\* share.
TradeEntered(l, m, s, u, n, p, share, taxA, taxB) ==
  /\ m \in [Users -> LedgerRow]
  /\ m[s] = Row(l[s], n * p - taxA, 0, 0, -n, taxA)
  /\ m[u] = Row(l[u], share - n * p - taxB, -share, n, 0, taxB)
  /\ \A v \in Users \ {s, u} : m[v] = l[v]

LEMMA TradeRowsAt ==
  ASSUME NEW l \in [Users -> LedgerRow], NEW s \in Users, NEW u \in Users, s # u,
         NEW n \in Nat, NEW p \in Nat, NEW share \in Nat, NEW taxA \in Nat, NEW taxB \in Nat
  PROVE  TradeEntered(l, PostTax(PostTax(BuyerRows(SellerRows(l, s, n, p), u, n, p, share),
                                         s, taxA), u, taxB),
                      s, u, n, p, share, taxA, taxB)
<1> DEFINE m == PostTax(PostTax(BuyerRows(SellerRows(l, s, n, p), u, n, p, share), s, taxA),
                        u, taxB)
<1> DEFINE gain == n * p
           sold == -n
           paid == share - n * p
           used == -share
           costA == -taxA
           costB == -taxB
           l1 == SellerRows(l, s, n, p)
           l2 == BuyerRows(l1, u, n, p, share)
           l3 == PostTax(l2, s, taxA)
<1>1. gain \in Int /\ sold \in Int /\ paid \in Int /\ used \in Int /\ costA \in Int /\ costB \in Int
  <2>1. n * p \in Nat
    BY Products
  <2> QED
    BY <2>1
<1>2. l1 = Post(l, s, gain, 0, 0, sold) /\ l2 = Post(l1, u, paid, used, n, 0)
  BY DEF SellerRows, BuyerRows
<1>3. m = PostTax(l3, u, taxB) /\ l3 = PostTax(l2, s, taxA)
  OBVIOUS
<1>4. /\ n * p - taxA = gain + costA /\ share - n * p - taxB = paid + costB
      /\ \A e, c, r, d : Row(e, -taxA, c, r, d, taxA) = Row(e, costA, c, r, d, taxA)
      /\ \A e, c, r, d : Row(e, -taxB, c, r, d, taxB) = Row(e, costB, c, r, d, taxB)
  BY <1>1
<1>13. -n = sold /\ -share = used
  OBVIOUS
<1>z. 0 \in Int /\ n \in Int /\ taxA \in Int /\ taxB \in Int
  OBVIOUS
<1> HIDE DEF gain, sold, paid, used, l1, l2, l3, m
<1>5. /\ l1 \in [Users -> LedgerRow] /\ l1[s] = Row(l[s], gain, 0, 0, sold, 0)
      /\ \A v \in Users \ {s} : l1[v] = l[v]
  BY <1>1, <1>2, <1>z, PostAt
<1>6. /\ l2 \in [Users -> LedgerRow] /\ l2[u] = Row(l1[u], paid, used, n, 0, 0)
      /\ \A v \in Users \ {u} : l2[v] = l1[v]
  BY <1>1, <1>2, <1>5, <1>z, PostAt
<1>7. /\ l3 \in [Users -> LedgerRow] /\ l3[s] = Row(l2[s], costA, 0, 0, 0, taxA)
      /\ \A v \in Users \ {s} : l3[v] = l2[v]
  BY <1>3, <1>4, <1>6, PostTaxAt
<1>8. /\ m \in [Users -> LedgerRow] /\ m[u] = Row(l3[u], costB, 0, 0, 0, taxB)
      /\ \A v \in Users \ {u} : m[v] = l3[v]
  BY <1>3, <1>4, <1>7, PostTaxAt
<1>9. l[s] \in LedgerRow /\ l[u] \in LedgerRow
  OBVIOUS
<1> HIDE DEF costA, costB
<1>10. m[s] = Row(l[s], gain + costA, 0, 0, sold, taxA)
  <2>1. m[s] = Row(Row(l[s], gain, 0, 0, sold, 0), costA, 0, 0, 0, taxA)
    BY <1>5, <1>6, <1>7, <1>8
  <2>2. m[s] = Row(l[s], gain + costA, 0 + 0, 0 + 0, sold + 0, 0 + taxA)
    BY <1>1, <1>9, <1>z, <2>1, RowRow
  <2>3. 0 + 0 = 0 /\ sold + 0 = sold /\ 0 + taxA = taxA
    BY <1>1
  <2> QED
    BY <2>2, <2>3
<1>11. m[u] = Row(l[u], paid + costB, used, n, 0, taxB)
  <2>1. m[u] = Row(Row(l[u], paid, used, n, 0, 0), costB, 0, 0, 0, taxB)
    BY <1>5, <1>6, <1>7, <1>8
  <2>2. m[u] = Row(l[u], paid + costB, used + 0, n + 0, 0 + 0, 0 + taxB)
    BY <1>1, <1>9, <1>z, <2>1, RowRow
  <2>3. 0 + 0 = 0 /\ used + 0 = used /\ n + 0 = n /\ 0 + taxB = taxB
    BY <1>1
  <2> QED
    BY <2>2, <2>3
<1>12. \A v \in Users \ {s, u} : m[v] = l[v]
  BY <1>5, <1>6, <1>7, <1>8
<1> QED
  BY <1>4, <1>8, <1>10, <1>11, <1>12, <1>13 DEF m, TradeEntered

\* What a trade of n stocks at the price p changes.
Traded(a, b, n, p, taxA, taxB) ==
  LET seller == orders[a].user
      buyer == orders[b].user
      share == ShareOf(orders[b], n)
  IN /\ p \in Nat /\ taxA \in Nat /\ taxB \in Nat
     /\ CashLeft(b, n, p) >= 0
     /\ orders' = [orders EXCEPT ![a] = FillOrder(@, n), ![b] = FillOrder(@, n)]
     /\ cash' = [cash EXCEPT ![seller] = Unsigned(@ + n * p - taxA),
                             ![buyer] = Unsigned(CashLeft(b, n, p) - taxB)]
     /\ reserved' = [reserved EXCEPT ![buyer] = IF @ > share THEN @ - share ELSE 0]
     /\ summary' = [summary EXCEPT ![seller] = Sold(@, n, p), ![buyer] = Bought(@, n, p)]
     /\ TradeEntered(ledger, ledger', seller, buyer, n, p, share, taxA, taxB)
     /\ price' \in Prices
     /\ UNCHANGED <<mortgaged, exchange, bank, updating, deals, faults>>

LEMMA FillIsTrade ==
  ASSUME TInv, NEW a \in DOMAIN orders, NEW b \in DOMAIN orders, Fill(a, b)
  PROVE  /\ MayFill(a, b)
         /\ \E p, taxA, taxB : Traded(a, b, FillQty(a, b), p, taxA, taxB)
<1> DEFINE n == FillQty(a, b)
           seller == orders[a].user
           buyer == orders[b].user
           share == ShareOf(orders[b], n)
<1>1. MayFill(a, b) /\ UNCHANGED <<mortgaged, exchange, bank, updating, deals, faults>>
  BY DEF Fill
<1>2. PICK p \in TradePrices(a, b), percentA \in TaxPercents, percentB \in TaxPercents :
        LET taxA == TaxOnSelling(summary[seller], n, p, percentA)
            taxB == TaxOnBuying(summary[buyer], n, p, percentB)
        IN /\ CashLeft(b, n, p) >= 0
           /\ orders' = [orders EXCEPT ![a] = FillOrder(@, n), ![b] = FillOrder(@, n)]
           /\ cash' = [cash EXCEPT ![seller] = Unsigned(@ + n * p - taxA),
                                   ![buyer] = Unsigned(CashLeft(b, n, p) - taxB)]
           /\ reserved' = [reserved EXCEPT ![buyer] = IF @ > share THEN @ - share ELSE 0]
           /\ summary' = [summary EXCEPT ![seller] = Sold(@, n, p), ![buyer] = Bought(@, n, p)]
           /\ ledger' = PostTax(PostTax(BuyerRows(SellerRows(ledger, seller, n, p),
                                                  buyer, n, p, share),
                                        seller, taxA), buyer, taxB)
           /\ price' \in Between(p)
  BY DEF Fill
<1> DEFINE taxA == TaxOnSelling(summary[seller], n, p, percentA)
           taxB == TaxOnBuying(summary[buyer], n, p, percentB)
<1>3. /\ orders[a].user # orders[b].user /\ orders[a].user \in Users /\ orders[b].user \in Users
      /\ n \in Nat \ {0} /\ share \in Nat
  BY <1>1, FillParties
<1>4. p \in Nat
  <2>1. p \in {price, orders[a].price, orders[b].price}
    BY DEF TradePrices
  <2>2. orders[a].price \in Prices /\ orders[b].price \in Prices /\ price \in Prices
    BY OrdersAre, OrderType DEF TInv
  <2> QED
    BY <2>1, <2>2, PricesAssumption
<1>5. taxA \in Nat /\ taxB \in Nat
  <2>1. summary[seller] \in Summary /\ summary[buyer] \in Summary
    BY <1>3 DEF TInv
  <2> QED
    BY <1>3, <1>4, <2>1, TaxesType
<1>6. price' \in Prices
  BY <1>2 DEF Between
<1>7. TradeEntered(ledger, ledger', seller, buyer, n, p, share, taxA, taxB)
  <2>1. ledger' = PostTax(PostTax(BuyerRows(SellerRows(ledger, seller, n, p),
                                            buyer, n, p, share), seller, taxA), buyer, taxB)
    BY <1>2
  <2>2. ledger \in [Users -> LedgerRow] /\ n \in Nat /\ share \in Nat
    BY <1>3 DEF TInv
  <2>3. seller \in Users /\ buyer \in Users /\ seller # buyer
    BY <1>3
  <2> HIDE DEF n, seller, buyer, share, taxA, taxB
  <2> QED
    BY <1>4, <1>5, <2>1, <2>2, <2>3, TradeRowsAt
<1>8. Traded(a, b, n, p, taxA, taxB)
  BY <1>1, <1>2, <1>4, <1>5, <1>6, <1>7 DEF Traded
<1> QED
  BY <1>1, <1>8

\* The orders after a trade.
LEMMA TradedOrders ==
  ASSUME TInv, NEW a \in DOMAIN orders, NEW b \in DOMAIN orders, MayFill(a, b),
         NEW n, n = FillQty(a, b), NEW p, NEW taxA, NEW taxB, Traded(a, b, n, p, taxA, taxB)
  PROVE  /\ orders' \in Seq(Order) /\ DOMAIN orders' = DOMAIN orders
         /\ orders'[a] = FillOrder(orders[a], n) /\ orders'[b] = FillOrder(orders[b], n)
         /\ \A i \in DOMAIN orders \ {a, b} : orders'[i] = orders[i]
         /\ \A i \in DOMAIN orders' : /\ orders'[i].filled <= orders'[i].qty
                                      /\ orders'[i].open => orders'[i].filled < orders'[i].qty
<1> DEFINE x == FillOrder(orders[a], n)
           y == FillOrder(orders[b], n)
<1>1. Changed(a, x) /\ Changed(b, y) /\ a # b
  BY FillParties, FilledOrder
<1>2. orders' = [[orders EXCEPT ![a] = x] EXCEPT ![b] = y]
  BY <1>1 DEF Traded
<1>3. /\ x \in Order /\ x.filled <= x.qty /\ (x.open => x.filled < x.qty)
      /\ y \in Order /\ y.filled <= y.qty /\ (y.open => y.filled < y.qty)
  BY <1>1 DEF Changed
<1> HIDE DEF x, y
<1>4. /\ orders' \in Seq(Order) /\ DOMAIN orders' = DOMAIN orders
      /\ orders'[a] = x /\ orders'[b] = y
      /\ \A i \in DOMAIN orders \ {a, b} : orders'[i] = orders[i]
  <2>1. orders \in Seq(Order)
    BY DEF TInv
  <2> DEFINE os == [orders EXCEPT ![a] = x]
  <2>2. os \in Seq(Order) /\ DOMAIN os = DOMAIN orders /\ os[a] = x /\ os[b] = orders[b]
        /\ \A i \in DOMAIN orders \ {a} : os[i] = orders[i]
    BY <1>1, <1>3, <2>1
  <2>3. orders' = [os EXCEPT ![b] = y]
    BY <1>2
  <2> HIDE DEF os
  <2> QED
    BY <1>1, <1>3, <2>2, <2>3
<1> QED
  BY <1>1, <1>3, <1>4 DEF TInv, x, y

\* The summaries after a trade.
LEMMA TradedSummary ==
  ASSUME TInv, NEW a \in DOMAIN orders, NEW b \in DOMAIN orders, MayFill(a, b),
         NEW n, n = FillQty(a, b), NEW p, NEW taxA, NEW taxB, Traded(a, b, n, p, taxA, taxB),
         NEW seller, seller = orders[a].user, NEW buyer, buyer = orders[b].user
  PROVE  /\ summary' \in [Users -> Summary]
         /\ summary'[seller].held = summary[seller].held - n
         /\ summary'[buyer].held = summary[buyer].held + n
         /\ \A v \in Users \ {seller, buyer} : summary'[v] = summary[v]
<1> DEFINE x == Sold(summary[seller], n, p)
           y == Bought(summary[buyer], n, p)
<1>1. seller \in Users /\ buyer \in Users /\ seller # buyer /\ n \in Nat \ {0} /\ p \in Nat
  BY FillParties DEF Traded
<1>2. /\ x \in Summary /\ x.held = summary[seller].held - n
      /\ y \in Summary /\ y.held = summary[buyer].held + n
  BY <1>1, SummaryType DEF TInv
<1>3. summary' = [summary EXCEPT ![seller] = x, ![buyer] = y]
  BY <1>1 DEF Traded
<1>4. summary \in [Users -> Summary]
  BY DEF TInv
<1> HIDE DEF x, y
<1> QED
  BY <1>1, <1>2, <1>3, <1>4

LEMMA FillTInv ==
  ASSUME TInv, NEW a \in DOMAIN orders, NEW b \in DOMAIN orders, Fill(a, b)
  PROVE  TInv'
<1>1. PICK n, p, taxA, taxB : n = FillQty(a, b) /\ Traded(a, b, n, p, taxA, taxB)
  BY FillIsTrade
<1>2. MayFill(a, b)
  BY FillIsTrade
<1> DEFINE seller == orders[a].user
           buyer == orders[b].user
           share == ShareOf(orders[b], n)
<1>3. /\ seller \in Users /\ buyer \in Users /\ seller # buyer
      /\ n \in Nat \ {0} /\ share \in Nat /\ p \in Nat /\ taxA \in Nat /\ taxB \in Nat
  BY <1>1, <1>2, FillParties DEF Traded
<1>4. /\ orders' \in Seq(Order) /\ DOMAIN orders' = DOMAIN orders
      /\ \A i \in DOMAIN orders' : /\ orders'[i].filled <= orders'[i].qty
                                   /\ orders'[i].open => orders'[i].filled < orders'[i].qty
  BY <1>1, <1>2, TradedOrders
<1>5. summary' \in [Users -> Summary]
  BY <1>1, <1>2, TradedSummary
<1>6. /\ cash' = [cash EXCEPT ![seller] = Unsigned(@ + n * p - taxA),
                              ![buyer] = Unsigned(CashLeft(b, n, p) - taxB)]
      /\ reserved' = [reserved EXCEPT ![buyer] = IF @ > share THEN @ - share ELSE 0]
      /\ ledger' \in [Users -> LedgerRow] /\ price' \in Prices
      /\ UNCHANGED <<mortgaged, exchange, bank, updating, deals, faults>>
  BY <1>1 DEF Traded, TradeEntered
<1>7. cash' \in [Users -> Unsigneds]
  <2>1. /\ cash[seller] \in Int /\ Signed(cash[buyer]) \in Int /\ n * p \in Int
    <3>1. cash \in [Users -> Unsigneds]
      BY DEF TInv
    <3>2. cash[seller] \in Int /\ cash[buyer] \in Int
      BY <1>3, <3>1, WordAssumption DEF Unsigneds
    <3>3. n * p \in Int
      <4>1. n \in Nat
        BY <1>3
      <4> QED
        BY <1>3, <4>1, Products
    <3>4. Word \in Int
      BY WordAssumption
    <3> QED
      BY <3>2, <3>3, <3>4 DEF Signed
  <2>2. CashLeft(b, n, p) \in Int
    BY <1>3, <2>1 DEF CashLeft
  <2>3. /\ Unsigned(cash[seller] + n * p - taxA) \in Unsigneds
        /\ Unsigned(CashLeft(b, n, p) - taxB) \in Unsigneds
    BY <1>3, <2>1, <2>2, UnsignedType
  <2> QED
    BY <1>3, <1>6, <2>3 DEF TInv
<1>8. reserved' \in [Users -> Unsigneds]
  <2> DEFINE left == IF reserved[buyer] > share THEN reserved[buyer] - share ELSE 0
  <2> HIDE DEF share, seller, buyer
  <2>1. left \in Unsigneds
    <3>1. reserved \in [Users -> Unsigneds] /\ buyer \in Users /\ share \in Nat
      BY <1>3 DEF TInv
    <3>2. reserved[buyer] \in 0 .. Word - 1 /\ Word \in Int
      BY <3>1, WordAssumption DEF Unsigneds
    <3> QED
      BY <3>1, <3>2 DEF Unsigneds
  <2>2. reserved' = [reserved EXCEPT ![buyer] = left] /\ reserved \in [Users -> Unsigneds]
    BY <1>6 DEF TInv
  <2> QED
    BY <1>3, <2>1, <2>2
<1>9. UNCHANGED updating /\ DOMAIN orders \subseteq DOMAIN orders'
  BY <1>4, <1>6
<1> QED
  BY <1>4, <1>5, <1>6, <1>7, <1>8, <1>9, UpdatingType DEF TInv

------------------------------------------------------------------------------
(* The exchange and mortgages *)

LEMMA DealStep ==
  ASSUME TInv, Deal
  PROVE  deals' \in 0 .. MaxDeals
BY BoundsAssumption DEF TInv, Deal

\* What a purchase of n stocks from the exchange changes.
Purchased(u, n, tax) ==
  /\ n \in Nat \ {0} /\ n <= exchange /\ tax \in Nat /\ price * n <= cash[u]
  /\ cash' = [cash EXCEPT ![u] = Unsigned(@ - price * n - tax)]
  /\ Entered(u, -price * n - tax, 0, n, 0, tax)
  /\ summary' \in [Users -> Summary]
  /\ summary'[u].held = summary[u].held + n
  /\ \A v \in Users \ {u} : summary'[v] = summary[v]
  /\ exchange' = exchange - n
  /\ UNCHANGED <<orders, reserved, mortgaged, bank, updating, price, faults>>

LEMMA PurchaseIs ==
  ASSUME TInv, NEW u \in Users, NEW wanted \in Nat, BuyFromExchange(u, wanted)
  PROVE  \E n, tax : Purchased(u, n, tax)
<1> DEFINE n == Least(wanted, exchange)
           cost == price * n
           minus == -cost
<1>1. /\ price * n <= cash[u] /\ n > 0
      /\ summary' = [summary EXCEPT ![u] = Bought(@, n, price)]
      /\ exchange' = exchange - n
      /\ UNCHANGED <<orders, reserved, mortgaged, bank, updating, price, faults>>
  BY DEF BuyFromExchange
<1>2. PICK percent \in TaxPercents :
        LET tax == TaxOnBuying(summary[u], n, price, percent)
        IN /\ cash' = [cash EXCEPT ![u] = Unsigned(@ - price * n - tax)]
           /\ ledger' = PostTax(Post(ledger, u, -price * n, 0, n, 0), u, tax)
  BY DEF BuyFromExchange
<1> DEFINE tax == TaxOnBuying(summary[u], n, price, percent)
           minusTax == -tax
<1>3. n \in Nat \ {0} /\ n <= exchange /\ price \in Nat
  <2>1. exchange \in Nat /\ price \in Nat
    BY PricesAssumption, StartAssumption DEF TInv
  <2> QED
    BY <1>1, <2>1 DEF Least
<1>4. cost \in Nat /\ minus \in Int /\ tax \in Nat /\ minusTax \in Int
  <2>1. summary[u] \in Summary
    BY DEF TInv
  <2> HIDE DEF n
  <2>2. cost \in Nat /\ tax \in Nat
    BY <1>3, <2>1, Products, TaxesType
  <2> QED
    BY <2>2
<1>5. ledger' = PostTax(Post(ledger, u, minus, 0, n, 0), u, tax)
  <2>1. (-price) * n = minus
    BY <1>3
  <2> QED
    BY <1>2, <2>1
<1>6. Entered(u, minus - tax, 0, n, 0, tax)
  <2> DEFINE l == Post(ledger, u, minus, 0, n, 0)
  <2> HIDE DEF n, minus, tax
  <2>a. ledger \in [Users -> LedgerRow] /\ 0 \in Int /\ n \in Int
    BY <1>3 DEF TInv
  <2>1. /\ l \in [Users -> LedgerRow] /\ l[u] = Row(ledger[u], minus, 0, n, 0, 0)
        /\ \A v \in Users \ {u} : l[v] = ledger[v]
    BY <1>4, <2>a, PostAt
  <2> HIDE DEF l
  <2>2. /\ ledger' \in [Users -> LedgerRow] /\ ledger'[u] = Row(l[u], -tax, 0, 0, 0, tax)
        /\ \A v \in Users \ {u} : ledger'[v] = l[v]
    BY <1>4, <1>5, <2>1, PostTaxAt DEF l
  <2>3. ledger[u] \in LedgerRow
    BY DEF TInv
  <2>4. Row(Row(ledger[u], minus, 0, n, 0, 0), minusTax, 0, 0, 0, tax)
          = Row(ledger[u], minus - tax, 0, n, 0, tax)
    <3> DEFINE e == ledger[u]
    <3> HIDE DEF e, minusTax
    <3>1. e \in LedgerRow /\ tax \in Int
      BY <1>4, <2>3 DEF e
    <3>2. Row(Row(e, minus, 0, n, 0, 0), minusTax, 0, 0, 0, tax)
            = Row(e, minus + minusTax, 0 + 0, n + 0, 0 + 0, 0 + tax)
      BY <1>4, <2>a, <3>1, RowRow
    <3>3. minus + minusTax = minus - tax /\ 0 + 0 = 0 /\ n + 0 = n /\ 0 + tax = tax
      BY <1>3, <1>4 DEF minusTax
    <3> QED
      BY <3>2, <3>3 DEF e
  <2> QED
    BY <2>1, <2>2, <2>4 DEF Entered
<1>7. /\ summary' \in [Users -> Summary]
      /\ summary'[u].held = summary[u].held + n
      /\ \A v \in Users \ {u} : summary'[v] = summary[v]
  <2> DEFINE s == Bought(summary[u], n, price)
  <2> HIDE DEF n
  <2>1. s \in Summary /\ s.held = summary[u].held + n
    BY <1>3, SummaryType DEF TInv
  <2>2. summary' = [summary EXCEPT ![u] = s] /\ summary \in [Users -> Summary]
    BY <1>1 DEF TInv
  <2> HIDE DEF s
  <2> QED
    BY <2>1, <2>2
<1>8. (-price) * n - tax = minus - tax
  BY <1>3, <1>4
<1> HIDE DEF n, tax
<1>9. Purchased(u, n, tax)
  BY <1>1, <1>2, <1>3, <1>4, <1>6, <1>7, <1>8 DEF Purchased, tax, n
<1> QED
  BY <1>9

LEMMA BuyFromExchangeTInv ==
  ASSUME TInv, NEW u \in Users, NEW wanted \in Nat, BuyFromExchange(u, wanted)
  PROVE  TInv'
<1>1. PICK n, tax : Purchased(u, n, tax)
  BY PurchaseIs
<1>2. deals' \in 0 .. MaxDeals
  BY DealStep DEF BuyFromExchange
<1>3. n \in Nat \ {0} /\ n <= exchange /\ tax \in Nat /\ price \in Nat
  BY <1>1, PricesAssumption DEF TInv, Purchased
<1>4. cash' \in [Users -> Unsigneds]
  <2>1. cash[u] \in Int /\ price * n \in Int
    BY <1>3, WordAssumption, Products DEF TInv, Unsigneds
  <2>2. Unsigned(cash[u] - price * n - tax) \in Unsigneds
    BY <1>3, <2>1, UnsignedType
  <2> QED
    BY <1>1, <2>2 DEF TInv, Purchased
<1>5. exchange' \in 0 .. StartExchange
  BY <1>1, <1>3, StartAssumption DEF TInv, Purchased
<1>6. /\ ledger' \in [Users -> LedgerRow] /\ summary' \in [Users -> Summary]
      /\ UNCHANGED <<orders, reserved, mortgaged, bank, updating, price, faults>>
  BY <1>1 DEF Purchased, Entered
<1> QED
  BY <1>2, <1>4, <1>5, <1>6, UpdatingType DEF TInv

\* What a mortgage of n stocks at the price p changes; n is below zero if they come back.
Mortgaged(u, n, p, total) ==
  /\ n \in Int /\ p \in Prices /\ total \in Int /\ mortgaged[u][p] + n \in Nat
  /\ mortgaged' = [mortgaged EXCEPT ![u][p] = @ + n]
  /\ cash' = [cash EXCEPT ![u] = Unsigned(@ + total)]
  /\ Entered(u, total, 0, -n, 0, 0)
  /\ Deal
  /\ UNCHANGED <<orders, reserved, summary, exchange, bank, updating, price, faults>>

LEMMA MortgageIs ==
  ASSUME TInv, NEW u \in Users, NEW n \in Int, NEW p \in Prices, NEW total \in Int,
         MortgageTransaction(u, n, p, total), mortgaged[u][p] + n \in Nat
  PROVE  Mortgaged(u, n, p, total)
<1> DEFINE minus == -n
<1>1. ledger' = Post(ledger, u, total, 0, minus, 0)
  BY DEF MortgageTransaction
<1>2. minus \in Int /\ 0 \in Int /\ ledger \in [Users -> LedgerRow]
  BY DEF TInv
<1> HIDE DEF minus
<1>3. Entered(u, total, 0, minus, 0, 0)
  BY <1>1, <1>2, PostEnters
<1> QED
  BY <1>3 DEF Mortgaged, MortgageTransaction, minus

LEMMA MortgageIsOne ==
  ASSUME TInv, NEW u \in Users, NEW n \in Nat, Mortgage(u, n)
  PROVE  \E total : Mortgaged(u, n, price, total)
<1> DEFINE total == (price * n * 80) \div 100
<1>1. price \in Prices /\ price \in Nat
  BY PricesAssumption DEF TInv
<1>2. total \in Int
  <2>1. price * n \in Nat
    BY <1>1, Products
  <2>2. (price * n) * 80 \in Nat
    BY <2>1, Products
  <2> QED
    BY <2>2, Quotients
<1>3. mortgaged[u][price] + n \in Nat
  <2>1. mortgaged[u][price] \in Nat
    BY <1>1 DEF TInv
  <2> QED
    BY <2>1
<1>4. MortgageTransaction(u, n, price, total)
  BY DEF Mortgage
<1> HIDE DEF total
<1>5. Mortgaged(u, n, price, total)
  BY <1>1, <1>2, <1>3, <1>4, MortgageIs
<1> QED
  BY <1>5

LEMMA RetrieveIsOne ==
  ASSUME TInv, NEW u \in Users, NEW n \in Nat, NEW p \in Prices, Retrieve(u, n, p)
  PROVE  \E d, total : Mortgaged(u, d, p, total)
<1> DEFINE paid == (p * n * 90) \div 100
           total == -paid
           d == -n
<1>1. p \in Nat
  BY PricesAssumption
<1>2. total \in Int
  <2>1. p * n \in Nat
    BY <1>1, Products
  <2>2. (p * n) * 90 \in Nat
    BY <2>1, Products
  <2>3. paid \in Nat
    BY <2>2, Quotients
  <2> QED
    BY <2>3
<1>3. mortgaged[u][p] + d \in Nat /\ d \in Int
  <2>1. mortgaged[u][p] \in Nat /\ n <= mortgaged[u][p]
    BY DEF TInv, Retrieve
  <2> QED
    BY <2>1
<1>4. MortgageTransaction(u, d, p, total)
  BY DEF Retrieve
<1> HIDE DEF total, d
<1>5. Mortgaged(u, d, p, total)
  BY <1>2, <1>3, <1>4, MortgageIs
<1> QED
  BY <1>5

LEMMA MortgagedTInv ==
  ASSUME TInv, NEW u \in Users, NEW n, NEW p, NEW total, Mortgaged(u, n, p, total)
  PROVE  TInv'
<1>1. deals' \in 0 .. MaxDeals
  BY DealStep DEF Mortgaged
<1>2. n \in Int /\ p \in Prices /\ total \in Int /\ mortgaged[u][p] + n \in Nat
  BY DEF Mortgaged
<1>3. cash' \in [Users -> Unsigneds]
  <2>1. cash[u] \in Int
    BY WordAssumption DEF TInv, Unsigneds
  <2>2. Unsigned(cash[u] + total) \in Unsigneds
    BY <1>2, <2>1, UnsignedType
  <2> QED
    BY <2>2 DEF TInv, Mortgaged
<1>4. mortgaged' \in [Users -> [Prices -> Nat]]
  <2> DEFINE m == mortgaged[u]
             q == [m EXCEPT ![p] = @ + n]
  <2>1. m \in [Prices -> Nat] /\ mortgaged \in [Users -> [Prices -> Nat]]
    BY DEF TInv
  <2>2. q \in [Prices -> Nat]
    BY <1>2, <2>1
  <2>3. mortgaged' = [mortgaged EXCEPT ![u] = q]
    BY DEF Mortgaged
  <2> HIDE DEF q
  <2> QED
    BY <2>1, <2>2, <2>3
<1>5. /\ ledger' \in [Users -> LedgerRow]
      /\ UNCHANGED <<orders, reserved, summary, exchange, bank, updating, price, faults>>
  BY DEF Mortgaged, Entered
<1> QED
  BY <1>1, <1>3, <1>4, <1>5, UpdatingType DEF TInv

LEMMA StutterTInv ==
  ASSUME TInv, UNCHANGED vars
  PROVE  TInv'
BY UpdatingType DEF TInv, vars, Lends, Returns

\* The actions of Next, one case for each.
LEMMA NextTInv ==
  ASSUME TInv, [Next]_vars
  PROVE  TInv'
<1>1. ASSUME NEW t \in Tickets, PlaceAsk(t) \/ PlaceBid(t) \/ PlaceFails(t) \/ StartLend(t)
      PROVE  TInv'
  BY <1>1, PlaceAskTInv, PlaceBidTInv, PlaceFailsTInv, StartLendTInv
<1>2. ASSUME NEW i \in DOMAIN orders,
             StartReturn(i) \/ CancelAsk(i) \/ CancelBid(i) \/ CancelFails(i)
      PROVE  TInv'
  BY <1>2, StartReturnTInv, CancelAskTInv, CloseBidTInv, CancelFailsTInv DEF CancelBid
<1>3. ASSUME NEW x \in updating, ReadBank(x) \/ CommitLend(x) \/ CommitReturn(x)
      PROVE  TInv'
  BY <1>3, ReadBankTInv, CommitLendTInv, CommitReturnTInv
<1>4. ASSUME NEW a \in DOMAIN orders, NEW b \in DOMAIN orders, Fill(a, b) \/ DropBid(a, b)
      PROVE  TInv'
  BY <1>4, FillTInv, CloseBidTInv DEF DropBid
<1>5. ASSUME NEW u \in Users, NEW n \in Quantities,
             \/ BuyFromExchange(u, n)
             \/ Mortgage(u, n)
             \/ \E p \in Prices : Retrieve(u, n, p)
      PROVE  TInv'
  <2>1. n \in Nat
    BY DEF Quantities
  <2> QED
    BY <1>5, <2>1, BuyFromExchangeTInv, MortgageIsOne, RetrieveIsOne, MortgagedTInv
<1>6. CASE UNCHANGED vars
  BY <1>6, StutterTInv
<1> QED
  BY <1>1, <1>2, <1>3, <1>4, <1>5, <1>6 DEF Next

LEMMA TInvTypeOK ==
  ASSUME TInv
  PROVE  TypeOK
<1>1. \A i \in DOMAIN orders : orders[i] \in Order /\ orders[i].filled <= orders[i].qty
  BY OrdersAre DEF TInv
<1>2. \A x \in updating : x.seen \in Unsigneds
  BY UpdateType
<1> QED
  BY <1>1, <1>2 DEF TInv, TypeOK, LedgerRow, Summary

THEOREM TypesInvariant == Spec => []TInv
<1>1. Init => TInv
  BY InitTInv
<1>2. TInv /\ [Next]_vars => TInv'
  BY NextTInv
<1> QED
  BY <1>1, <1>2, PTL DEF Spec

\* Cash, ReservedCash and AvailableStocks stay unsigned numbers, no order is filled too
\* far and no average price is taken of no stocks, however many users, orders and failed
\* transactions there are: models/User.go.
THEOREM AccountsTyped == Spec => []TypeOK
<1>1. TInv => TypeOK
  BY TInvTypeOK
<1> QED
  BY <1>1, TypesInvariant, PTL

------------------------------------------------------------------------------
(* The sums over the orders *)

\* What the order o adds to the sums of u.
LEMMA NeedTypes ==
  ASSUME NEW o \in Order, Unfilled(o) \in Nat, NEW u
  PROVE  LentTo(u, o) \in Nat /\ CashNeed(u, o) \in Nat /\ StockNeed(u, o) \in Nat
<1>1. o.lent \in Nat
  BY OrderType
<1>2. Refund(o) \in Nat
  BY RefundType DEF Refund
<1> QED
  BY <1>1, <1>2 DEF LentTo, CashNeed, StockNeed

LEMMA FreshNeeds ==
  ASSUME NEW o, Fresh(o), NEW u
  PROVE  /\ o \in Order /\ Unfilled(o) = o.qty /\ Unfilled(o) \in Nat
         /\ Refund(o) = o.deposit
<1>1. o \in Order /\ o.filled = 0 /\ o.qty \in Nat \ {0} /\ o.deposit \in Nat
  BY OrderType DEF Fresh
<1>2. Unfilled(o) = o.qty
  BY <1>1 DEF Unfilled
<1>3. Refund(o) = o.deposit
  <2> DEFINE d == o.deposit
             q == o.qty
  <2>1. Refund(o) = (d * q) \div q
    BY <1>2 DEF Refund, ShareOf
  <2>2. d \in Nat /\ q \in Nat \ {0}
    BY <1>1
  <2> HIDE DEF d, q
  <2>3. d * q = q * d
    BY <2>2
  <2>4. (q * d) \div q = d
    BY <2>2, DivExact
  <2> QED
    BY <2>1, <2>3, <2>4 DEF d
<1> QED
  BY <1>1, <1>2, <1>3

LEMMA SumTypes ==
  ASSUME TInv, NEW u
  PROVE  /\ [i \in DOMAIN orders |-> LentTo(u, orders[i])] \in [DOMAIN orders -> Nat]
         /\ [i \in DOMAIN orders |-> CashNeed(u, orders[i])] \in [DOMAIN orders -> Nat]
         /\ [i \in DOMAIN orders |-> StockNeed(u, orders[i])] \in [DOMAIN orders -> Nat]
         /\ Lent(u) \in Nat /\ CashNeeds(u) \in Nat /\ StockNeeds(u) \in Nat
<1>1. \A i \in DOMAIN orders : /\ LentTo(u, orders[i]) \in Nat /\ CashNeed(u, orders[i]) \in Nat
                               /\ StockNeed(u, orders[i]) \in Nat
  BY OrdersAre, NeedTypes
<1>2. IsFiniteSet(DOMAIN orders)
  BY OrdersAre
<1>3. /\ [i \in DOMAIN orders |-> LentTo(u, orders[i])] \in [DOMAIN orders -> Nat]
      /\ [i \in DOMAIN orders |-> CashNeed(u, orders[i])] \in [DOMAIN orders -> Nat]
      /\ [i \in DOMAIN orders |-> StockNeed(u, orders[i])] \in [DOMAIN orders -> Nat]
  BY <1>1
<1>4. \A f \in [DOMAIN orders -> Nat] : SumFunction(f) \in Nat
  BY <1>2, FunctionSum, SumNat
<1> QED
  BY <1>3, <1>4 DEF Lent, CashNeeds, StockNeeds

\* An order is added to the sums.
LEMMA AddedSums ==
  ASSUME TInv, TInv', NEW o, Added(o), NEW u
  PROVE  /\ Lent(u)' = Lent(u) + LentTo(u, o)
         /\ CashNeeds(u)' = CashNeeds(u) + CashNeed(u, o)
         /\ StockNeeds(u)' = StockNeeds(u) + StockNeed(u, o)
<1> DEFINE n == Len(orders)
<1>1. /\ n \in Nat /\ DOMAIN orders = 1 .. n /\ DOMAIN orders' = 1 .. n + 1
      /\ orders'[n + 1] = o /\ \A i \in 1 .. n : orders'[i] = orders[i]
  BY AddedOrders, OrdersAre
<1>2. n + 1 \in 1 .. n + 1 /\ 1 .. n \subseteq 1 .. n + 1
  BY <1>1
<1>t. \A i \in DOMAIN orders' : orders'[i] \in Order /\ Unfilled(orders'[i]) \in Nat
  <2>1. \A i \in DOMAIN orders' : orders'[i] \in Order /\ orders'[i].filled <= orders'[i].qty
    BY DEF TInv
  <2> QED
    BY <2>1, OrderType DEF Unfilled
<1>t2. \A i \in 1 .. n + 1 :
         /\ LentTo(u, orders'[i]) \in Nat /\ CashNeed(u, orders'[i]) \in Nat
         /\ StockNeed(u, orders'[i]) \in Nat
  BY <1>1, <1>t, NeedTypes
<1> DEFINE f == [i \in DOMAIN orders |-> LentTo(u, orders[i])]
           g == [i \in DOMAIN orders' |-> LentTo(u, orders'[i])]
           h == [i \in DOMAIN orders |-> CashNeed(u, orders[i])]
           k == [i \in DOMAIN orders' |-> CashNeed(u, orders'[i])]
           l == [i \in DOMAIN orders |-> StockNeed(u, orders[i])]
           m == [i \in DOMAIN orders' |-> StockNeed(u, orders'[i])]
<1>3. f \in [1 .. n -> Int] /\ h \in [1 .. n -> Int] /\ l \in [1 .. n -> Int]
  BY <1>1, <1>2, <1>t2
<1>4. g \in [1 .. n + 1 -> Int] /\ k \in [1 .. n + 1 -> Int] /\ m \in [1 .. n + 1 -> Int]
  BY <1>1, <1>t2
<1>5. \A i \in 1 .. n : g[i] = f[i] /\ k[i] = h[i] /\ m[i] = l[i]
  BY <1>1, <1>2
<1>6. g[n + 1] = LentTo(u, o) /\ k[n + 1] = CashNeed(u, o) /\ m[n + 1] = StockNeed(u, o)
  BY <1>1, <1>2
<1>7. /\ Lent(u) = SumFunction(f) /\ Lent(u)' = SumFunction(g)
      /\ CashNeeds(u) = SumFunction(h) /\ CashNeeds(u)' = SumFunction(k)
      /\ StockNeeds(u) = SumFunction(l) /\ StockNeeds(u)' = SumFunction(m)
  BY DEF Lent, CashNeeds, StockNeeds, LentTo, CashNeed, StockNeed, Refund, ShareOf, Unfilled
<1> HIDE DEF f, g, h, k, l, m, n
<1>8. SumFunction(g) = SumFunction(f) + g[n + 1]
  BY <1>1, <1>3, <1>4, <1>5, SumAppended
<1>9. SumFunction(k) = SumFunction(h) + k[n + 1]
  BY <1>1, <1>3, <1>4, <1>5, SumAppended
<1>10. SumFunction(m) = SumFunction(l) + m[n + 1]
  BY <1>1, <1>3, <1>4, <1>5, SumAppended
<1> QED
  BY <1>6, <1>7, <1>8, <1>9, <1>10

\* An order changes, and with it the sums.
LEMMA ChangedSums ==
  ASSUME TInv, TInv', NEW a \in DOMAIN orders, DOMAIN orders' = DOMAIN orders,
         \A i \in DOMAIN orders \ {a} : orders'[i] = orders[i], NEW u
  PROVE  /\ Lent(u)' = Lent(u) + (LentTo(u, orders'[a]) - LentTo(u, orders[a]))
         /\ CashNeeds(u)' = CashNeeds(u) + (CashNeed(u, orders'[a]) - CashNeed(u, orders[a]))
         /\ StockNeeds(u)' = StockNeeds(u) + (StockNeed(u, orders'[a]) - StockNeed(u, orders[a]))
<1> DEFINE S == DOMAIN orders
<1>1. IsFiniteSet(S)
  BY OrdersAre
<1>t. \A i \in DOMAIN orders' : orders'[i] \in Order /\ Unfilled(orders'[i]) \in Nat
  <2>1. \A i \in DOMAIN orders' : orders'[i] \in Order /\ orders'[i].filled <= orders'[i].qty
    BY DEF TInv
  <2> QED
    BY <2>1, OrderType DEF Unfilled
<1>t2. \A i \in S :
         /\ LentTo(u, orders'[i]) \in Nat /\ CashNeed(u, orders'[i]) \in Nat
         /\ StockNeed(u, orders'[i]) \in Nat
  BY <1>t, NeedTypes
<1> DEFINE f == [i \in DOMAIN orders |-> LentTo(u, orders[i])]
           g == [i \in DOMAIN orders' |-> LentTo(u, orders'[i])]
           h == [i \in DOMAIN orders |-> CashNeed(u, orders[i])]
           k == [i \in DOMAIN orders' |-> CashNeed(u, orders'[i])]
           l == [i \in DOMAIN orders |-> StockNeed(u, orders[i])]
           m == [i \in DOMAIN orders' |-> StockNeed(u, orders'[i])]
<1>3. f \in [S -> Nat] /\ h \in [S -> Nat] /\ l \in [S -> Nat]
  BY SumTypes
<1>4. g \in [S -> Nat] /\ k \in [S -> Nat] /\ m \in [S -> Nat]
  BY <1>t2
<1>5. \A i \in S \ {a} : g[i] = f[i] /\ k[i] = h[i] /\ m[i] = l[i]
  OBVIOUS
<1>6. /\ g[a] = LentTo(u, orders'[a]) /\ k[a] = CashNeed(u, orders'[a])
      /\ m[a] = StockNeed(u, orders'[a])
      /\ f[a] = LentTo(u, orders[a]) /\ h[a] = CashNeed(u, orders[a])
      /\ l[a] = StockNeed(u, orders[a])
  OBVIOUS
<1>7. /\ Lent(u) = SumFunction(f) /\ Lent(u)' = SumFunction(g)
      /\ CashNeeds(u) = SumFunction(h) /\ CashNeeds(u)' = SumFunction(k)
      /\ StockNeeds(u) = SumFunction(l) /\ StockNeeds(u)' = SumFunction(m)
  BY DEF Lent, CashNeeds, StockNeeds, LentTo, CashNeed, StockNeed, Refund, ShareOf, Unfilled
<1> HIDE DEF f, g, h, k, l, m, S
<1>z. \A q \in [S -> Nat] : q \in [S -> Int]
  OBVIOUS
<1>b. a \in S
  BY DEF S
<1>8. SumFunction(g) = SumFunction(f) + (g[a] - f[a])
  BY <1>1, <1>3, <1>4, <1>5, <1>z, <1>b, SumChanges
<1>9. SumFunction(k) = SumFunction(h) + (k[a] - h[a])
  BY <1>1, <1>3, <1>4, <1>5, <1>z, <1>b, SumChanges
<1>10. SumFunction(m) = SumFunction(l) + (m[a] - l[a])
  BY <1>1, <1>3, <1>4, <1>5, <1>z, <1>b, SumChanges
<1> QED
  BY <1>6, <1>7, <1>8, <1>9, <1>10

\* ... and two.
LEMMA TradedSums ==
  ASSUME TInv, TInv', NEW a \in DOMAIN orders, NEW b \in DOMAIN orders, a # b,
         DOMAIN orders' = DOMAIN orders,
         \A i \in DOMAIN orders \ {a, b} : orders'[i] = orders[i], NEW u
  PROVE  /\ Lent(u)' = Lent(u) + (LentTo(u, orders'[a]) - LentTo(u, orders[a]))
                               + (LentTo(u, orders'[b]) - LentTo(u, orders[b]))
         /\ CashNeeds(u)' = CashNeeds(u) + (CashNeed(u, orders'[a]) - CashNeed(u, orders[a]))
                                         + (CashNeed(u, orders'[b]) - CashNeed(u, orders[b]))
         /\ StockNeeds(u)' = StockNeeds(u) + (StockNeed(u, orders'[a]) - StockNeed(u, orders[a]))
                                           + (StockNeed(u, orders'[b]) - StockNeed(u, orders[b]))
<1> DEFINE S == DOMAIN orders
<1>1. IsFiniteSet(S)
  BY OrdersAre
<1>t. \A i \in DOMAIN orders' : orders'[i] \in Order /\ Unfilled(orders'[i]) \in Nat
  <2>1. \A i \in DOMAIN orders' : orders'[i] \in Order /\ orders'[i].filled <= orders'[i].qty
    BY DEF TInv
  <2> QED
    BY <2>1, OrderType DEF Unfilled
<1>t2. \A i \in S :
         /\ LentTo(u, orders'[i]) \in Nat /\ CashNeed(u, orders'[i]) \in Nat
         /\ StockNeed(u, orders'[i]) \in Nat
  BY <1>t, NeedTypes
<1> DEFINE f == [i \in DOMAIN orders |-> LentTo(u, orders[i])]
           g == [i \in DOMAIN orders' |-> LentTo(u, orders'[i])]
           h == [i \in DOMAIN orders |-> CashNeed(u, orders[i])]
           k == [i \in DOMAIN orders' |-> CashNeed(u, orders'[i])]
           l == [i \in DOMAIN orders |-> StockNeed(u, orders[i])]
           m == [i \in DOMAIN orders' |-> StockNeed(u, orders'[i])]
<1>3. f \in [S -> Nat] /\ h \in [S -> Nat] /\ l \in [S -> Nat]
  BY SumTypes
<1>4. g \in [S -> Nat] /\ k \in [S -> Nat] /\ m \in [S -> Nat]
  BY <1>t2
<1>5. \A i \in S \ {a, b} : g[i] = f[i] /\ k[i] = h[i] /\ m[i] = l[i]
  OBVIOUS
<1>6. \A i \in {a, b} :
        /\ g[i] = LentTo(u, orders'[i]) /\ k[i] = CashNeed(u, orders'[i])
        /\ m[i] = StockNeed(u, orders'[i])
        /\ f[i] = LentTo(u, orders[i]) /\ h[i] = CashNeed(u, orders[i])
        /\ l[i] = StockNeed(u, orders[i])
  OBVIOUS
<1>7. /\ Lent(u) = SumFunction(f) /\ Lent(u)' = SumFunction(g)
      /\ CashNeeds(u) = SumFunction(h) /\ CashNeeds(u)' = SumFunction(k)
      /\ StockNeeds(u) = SumFunction(l) /\ StockNeeds(u)' = SumFunction(m)
  BY DEF Lent, CashNeeds, StockNeeds, LentTo, CashNeed, StockNeed, Refund, ShareOf, Unfilled
<1> HIDE DEF f, g, h, k, l, m, S
<1>z. \A q \in [S -> Nat] : q \in [S -> Int]
  OBVIOUS
<1>b. a \in S /\ b \in S
  BY DEF S
<1>8. SumFunction(g) = SumFunction(f) + (g[a] - f[a]) + (g[b] - f[b])
  BY <1>1, <1>3, <1>4, <1>5, <1>z, <1>b, SumChangesTwice
<1>9. SumFunction(k) = SumFunction(h) + (k[a] - h[a]) + (k[b] - h[b])
  BY <1>1, <1>3, <1>4, <1>5, <1>z, <1>b, SumChangesTwice
<1>10. SumFunction(m) = SumFunction(l) + (m[a] - l[a]) + (m[b] - l[b])
  BY <1>1, <1>3, <1>4, <1>5, <1>z, <1>b, SumChangesTwice
<1> QED
  BY <1>6, <1>7, <1>8, <1>9, <1>10

------------------------------------------------------------------------------
(* The rows of the other operations *)

LEMMA PlaceAskRows ==
  ASSUME TInv, NEW t \in Tickets, PlaceAsk(t)
  PROVE  /\ Entered(t.user, -OrderFee(t), 0, -t.qty, t.qty, 0)
         /\ Added(NewOrder(t, 0, 0, TRUE))
<1>1. OrderFee(t) \in Nat /\ t.user \in Users /\ t.qty \in Nat
  BY CostType, TicketType
<1>2. ledger' = AskRows(ledger, t, OrderFee(t)) /\ ledger \in [Users -> LedgerRow]
  BY DEF TInv, PlaceAsk
<1>3. Added(NewOrder(t, 0, 0, TRUE))
  BY NewOrderFresh DEF Added, PlaceAsk
<1>4. /\ ledger' \in [Users -> LedgerRow]
      /\ ledger'[t.user] = Row(ledger[t.user], -OrderFee(t), 0, -t.qty, t.qty, 0)
      /\ \A v \in Users \ {t.user} : ledger'[v] = ledger[v]
  BY <1>1, <1>2, AskRowsAt
<1> QED
  BY <1>1, <1>3, <1>4 DEF Entered

LEMMA PlaceBidRows ==
  ASSUME TInv, NEW t \in Tickets, PlaceBid(t), NEW d, d = t.qty * OrderPrice(t)
  PROVE  /\ Entered(t.user, -OrderFee(t) - d, d, 0, 0, 0)
         /\ Added(NewOrder(t, d, 0, TRUE))
<1> DEFINE fee == -OrderFee(t)
           minus == -d
           u == t.user
<1>1. OrderFee(t) \in Nat /\ u \in Users /\ d \in Nat /\ fee \in Int /\ minus \in Int
  BY CostType, TicketType
<1>2. ledger' = Post(Post(ledger, u, fee, 0, 0, 0), u, minus, d, 0, 0)
  BY DEF PlaceBid
<1>3. Added(NewOrder(t, d, 0, TRUE))
  BY <1>1, NewOrderFresh DEF Added, PlaceBid
<1>4. ledger \in [Users -> LedgerRow] /\ 0 \in Int /\ d \in Int
  BY <1>1 DEF TInv
<1>5. -OrderFee(t) - d = fee + minus /\ 0 + d = d /\ 0 + 0 = 0
  BY <1>1
<1> HIDE DEF fee, minus, u
<1>6. /\ ledger' \in [Users -> LedgerRow]
      /\ ledger'[u] = Row(ledger[u], fee + minus, 0 + d, 0 + 0, 0 + 0, 0)
      /\ \A v \in Users \ {u} : ledger'[v] = ledger[v]
  BY <1>1, <1>2, <1>4, PostPostAt
<1> QED
  BY <1>1, <1>3, <1>5, <1>6 DEF Entered, u

LEMMA CommitLendRows ==
  ASSUME TInv, NEW x \in updating, CommitLend(x), NEW o, o = x.order
  PROVE  /\ Entered(o.user, -x.fee, 0, o.lent - o.qty, o.qty, 0)
         /\ Added(o) /\ o.side = "ask" /\ x.fee \in Nat
<1> DEFINE u == o.user
           fee == -x.fee
           qty == -o.qty
           l == Post(ledger, u, 0, 0, o.lent, 0)
<1>1. /\ Fresh(o) /\ o \in Order /\ o.side = "ask" /\ x.fee \in Nat
  BY UpdateType DEF CommitLend
<1>2. Added(o)
  BY <1>1 DEF Added, CommitLend
<1>3. u \in Users /\ o.qty \in Nat /\ o.lent \in Nat /\ fee \in Int /\ qty \in Int
  BY <1>1, OrderType
<1>4. ledger' = AskRows(l, o, x.fee)
  BY DEF CommitLend
<1>5. ledger \in [Users -> LedgerRow] /\ 0 \in Int /\ o.lent \in Int /\ o.qty \in Int
  BY <1>3 DEF TInv
<1>6. /\ l \in [Users -> LedgerRow] /\ l[u] = Row(ledger[u], 0, 0, o.lent, 0, 0)
      /\ \A v \in Users \ {u} : l[v] = ledger[v]
  <2> DEFINE m == o.lent
  <2>1. u \in Users /\ m \in Int /\ 0 \in Int /\ ledger \in [Users -> LedgerRow]
    BY <1>3, <1>5
  <2>2. l = Post(ledger, u, 0, 0, m, 0)
    OBVIOUS
  <2> HIDE DEF u, m, l
  <2>3. /\ l \in [Users -> LedgerRow] /\ l[u] = Row(ledger[u], 0, 0, m, 0, 0)
        /\ \A v \in Users \ {u} : l[v] = ledger[v]
    BY <2>1, <2>2, PostAt
  <2> QED
    BY <2>3 DEF m
<1> HIDE DEF l
<1>7. /\ ledger' \in [Users -> LedgerRow]
      /\ ledger'[u] = Row(l[u], fee, 0, qty, o.qty, 0)
      /\ \A v \in Users \ {u} : ledger'[v] = l[v]
  BY <1>1, <1>3, <1>4, <1>6, AskRowsAt
<1>8. Row(l[u], fee, 0, qty, o.qty, 0) = Row(ledger[u], fee, 0, o.lent - o.qty, o.qty, 0)
  <2> DEFINE e == ledger[u]
             m == o.lent
             k == o.qty
  <2>1. e \in LedgerRow /\ m \in Int /\ k \in Int /\ l[u] = Row(e, 0, 0, m, 0, 0)
    BY <1>3, <1>5, <1>6
  <2>2. qty = -k
    OBVIOUS
  <2> HIDE DEF e, m, k, fee, qty
  <2>3. Row(l[u], fee, 0, qty, k, 0) = Row(e, 0 + fee, 0 + 0, m + qty, 0 + k, 0 + 0)
    BY <1>3, <1>5, <2>1, RowRow
  <2>4. 0 + fee = fee /\ 0 + 0 = 0 /\ m + qty = m - k /\ 0 + k = k
    BY <1>3, <2>1, <2>2
  <2> QED
    BY <2>3, <2>4 DEF e, m, k
<1> QED
  BY <1>1, <1>2, <1>3, <1>6, <1>7, <1>8 DEF Entered

LEMMA CommitReturnRows ==
  ASSUME TInv, NEW x \in updating, CommitReturn(x), NEW i, i = x.order
  PROVE  /\ i \in DOMAIN orders
         /\ Entered(orders[i].user, 0, 0, -orders[i].lent, 0, 0)
         /\ Changed(i, orders'[i]) /\ DOMAIN orders' = DOMAIN orders
         /\ orders'[i].lent = 0 /\ orders'[i].filled = orders[i].filled
         /\ orders'[i].open = orders[i].open
         /\ \A j \in DOMAIN orders \ {i} : orders'[j] = orders[j]
<1> DEFINE o == orders[i]
           p == [o EXCEPT !.lent = 0]
           minus == -o.lent
<1>1. i \in DOMAIN orders /\ o \in Order
  BY UpdateType, OrdersAre DEF CommitReturn
<1>2. orders' = [orders EXCEPT ![i] = p] /\ ledger' = Post(ledger, o.user, 0, 0, minus, 0)
  BY DEF CommitReturn
<1>3. o.filled <= o.qty /\ (o.open => o.filled < o.qty)
  BY <1>1 DEF TInv
<1>4. o.user \in Users /\ minus \in Int /\ ledger \in [Users -> LedgerRow] /\ 0 \in Int
  BY <1>1, OrderType DEF TInv
<1> HIDE DEF o, minus
<1>5. /\ p \in Order /\ p.user = o.user /\ p.side = o.side /\ p.qty = o.qty
      /\ p.deposit = o.deposit /\ p.saved = o.saved /\ p.filled = o.filled /\ p.open = o.open
      /\ p.lent = 0
  BY <1>1 DEF Order
<1> HIDE DEF p
<1>6. Changed(i, p)
  BY <1>1, <1>3, <1>5 DEF Changed, o
<1>7. Entered(o.user, 0, 0, minus, 0, 0)
  BY <1>2, <1>4, PostEnters
<1> QED
  BY <1>1, <1>2, <1>5, <1>6, <1>7, ChangedOrders DEF o, minus

\* An order that is closed: as far as the orders go.
LEMMA ClosesOrder ==
  ASSUME TInv, NEW i \in DOMAIN orders, orders' = [orders EXCEPT ![i].open = FALSE]
  PROVE  /\ DOMAIN orders' = DOMAIN orders
         /\ orders'[i] \in Order /\ ~orders'[i].open /\ orders'[i].lent = orders[i].lent
         /\ orders'[i].user = orders[i].user
         /\ \A j \in DOMAIN orders \ {i} : orders'[j] = orders[j]
         /\ \A j \in DOMAIN orders : orders'[j].filled = orders[j].filled
<1> DEFINE p == [orders[i] EXCEPT !.open = FALSE]
<1>1. Changed(i, p) /\ p.lent = orders[i].lent /\ ~p.open /\ p.filled = orders[i].filled
  BY ClosedOrder
<1>2. orders' = [orders EXCEPT ![i] = p]
  OBVIOUS
<1> HIDE DEF p
<1>3. /\ DOMAIN orders' = DOMAIN orders /\ orders'[i] = p
      /\ \A j \in DOMAIN orders \ {i} : orders'[j] = orders[j]
  BY <1>1, <1>2, ChangedOrders
<1> QED
  BY <1>1, <1>3 DEF Changed

LEMMA CancelAskRows ==
  ASSUME TInv, NEW i \in DOMAIN orders, CancelAsk(i), NEW n, n = Unfilled(orders[i])
  PROVE  n \in Nat /\ Entered(orders[i].user, 0, 0, n, -n, 0)
<1> DEFINE minus == -n
           u == orders[i].user
<1>1. u \in Users /\ n \in Nat /\ n \in Int /\ minus \in Int /\ 0 \in Int
  BY OrdersAre, OrderType
<1>2. ledger' = Post(ledger, u, 0, 0, n, minus) /\ ledger \in [Users -> LedgerRow]
  BY DEF CancelAsk, TInv
<1> HIDE DEF minus, u
<1>3. Entered(u, 0, 0, n, minus, 0)
  BY <1>1, <1>2, PostEnters
<1> QED
  BY <1>1, <1>3 DEF minus, u

LEMMA CloseBidRows ==
  ASSUME TInv, NEW i \in DOMAIN orders, CloseBid(i), NEW n, n = Refund(orders[i])
  PROVE  n \in Nat /\ Entered(orders[i].user, n, -n, 0, 0, 0)
<1> DEFINE minus == -n
           u == orders[i].user
<1>1. u \in Users /\ n \in Nat /\ n \in Int /\ minus \in Int /\ 0 \in Int
  BY OrdersAre, OrderType, RefundType DEF Refund
<1>2. ledger' = Post(ledger, u, n, minus, 0, 0) /\ ledger \in [Users -> LedgerRow]
  BY DEF CloseBid, TInv
<1> HIDE DEF minus, u
<1>3. Entered(u, n, minus, 0, 0, 0)
  BY <1>1, <1>2, PostEnters
<1> QED
  BY <1>1, <1>3 DEF minus, u

------------------------------------------------------------------------------
(* PositionMatches *)

LEMMA EnteredFields ==
  ASSUME TInv, NEW u, NEW a \in Int, NEW b \in Int, NEW c \in Int, NEW d \in Int, NEW t \in Int,
         Entered(u, a, b, c, d, t), NEW v \in Users
  PROVE  /\ ledger'[v].total = ledger[v].total + (IF v = u THEN a ELSE 0)
         /\ ledger'[v].reservedCash = ledger[v].reservedCash + (IF v = u THEN b ELSE 0)
         /\ ledger'[v].stocks = ledger[v].stocks + (IF v = u THEN c ELSE 0)
         /\ ledger'[v].reservedStocks = ledger[v].reservedStocks + (IF v = u THEN d ELSE 0)
         /\ ledger'[v].tax = ledger[v].tax + (IF v = u THEN t ELSE 0)
         /\ ledger[v].total \in Int /\ ledger[v].reservedCash \in Int /\ ledger[v].stocks \in Int
         /\ ledger[v].reservedStocks \in Int /\ ledger[v].tax \in Int
<1>1. ledger[v] \in LedgerRow
  BY DEF TInv
<1>2. /\ ledger[v].total \in Int /\ ledger[v].reservedCash \in Int /\ ledger[v].stocks \in Int
      /\ ledger[v].reservedStocks \in Int /\ ledger[v].tax \in Int
  BY <1>1 DEF LedgerRow
<1>3. CASE v = u
  <2>1. ledger'[v] = Row(ledger[v], a, b, c, d, t)
    BY <1>3 DEF Entered
  <2> QED
    BY <1>1, <1>2, <1>3, <2>1, RowFields
<1>4. CASE v # u
  <2>1. ledger'[v] = ledger[v]
    BY <1>4 DEF Entered
  <2> QED
    BY <1>2, <1>4, <2>1
<1> QED
  BY <1>3, <1>4

LEMMA PositionTypes ==
  ASSUME TInv, NEW v \in Users
  PROVE  /\ summary[v].held \in Int /\ StocksOf(v) \in Int /\ Lent(v) \in Nat
         /\ MortgagedBy(v) \in Nat
         /\ ledger[v].stocks \in Int /\ ledger[v].reservedStocks \in Int
<1>1. mortgaged[v] \in [Prices -> Nat] /\ summary[v] \in Summary /\ ledger[v] \in LedgerRow
  BY DEF TInv
<1>2. MortgagedBy(v) \in Nat
  <2>1. \A f \in [Prices -> Nat] : SumFunction(f) \in Nat
    BY PricesAssumption, FunctionSum, SumNat
  <2> QED
    BY <1>1, <2>1 DEF MortgagedBy
<1>3. /\ summary[v].held \in Int /\ ledger[v].stocks \in Int /\ ledger[v].reservedStocks \in Int
  BY <1>1 DEF Summary, LedgerRow
<1> QED
  BY <1>2, <1>3, SumTypes DEF StocksOf

\* What is entered for u matches what he was lent.
LEMMA PositionStays ==
  ASSUME TInv, PositionMatches, UNCHANGED <<summary, mortgaged>>,
         NEW u, NEW a \in Int, NEW b \in Int, NEW c \in Int, NEW d \in Int, NEW t \in Int,
         Entered(u, a, b, c, d, t),
         \A v \in Users : Lent(v)' = Lent(v) + (IF v = u THEN c + d ELSE 0)
  PROVE  PositionMatches'
<1> SUFFICES ASSUME NEW v \in Users
             PROVE  summary[v].held = (StocksOf(v) - Lent(v) + MortgagedBy(v))'
  BY DEF PositionMatches
<1>1. summary[v].held = StocksOf(v) - Lent(v) + MortgagedBy(v)
  BY DEF PositionMatches
<1>2. MortgagedBy(v)' = MortgagedBy(v)
  BY DEF MortgagedBy
<1>3. Lent(v)' = Lent(v) + (IF v = u THEN c + d ELSE 0)
  OBVIOUS
<1>4. StocksOf(v)' = StocksOf(v) + (IF v = u THEN c + d ELSE 0)
  <2>1. /\ ledger'[v].stocks = ledger[v].stocks + (IF v = u THEN c ELSE 0)
        /\ ledger'[v].reservedStocks = ledger[v].reservedStocks + (IF v = u THEN d ELSE 0)
    BY EnteredFields
  <2>2. ledger[v].stocks \in Int /\ ledger[v].reservedStocks \in Int
    BY PositionTypes
  <2> QED
    BY <2>1, <2>2 DEF StocksOf
<1> QED
  BY <1>1, <1>2, <1>3, <1>4, PositionTypes

\* A new order for which nothing is lent.
LEMMA PositionAdded ==
  ASSUME TInv, TInv', PositionMatches, UNCHANGED <<summary, mortgaged>>,
         NEW o, Added(o), o.lent = 0,
         NEW u, NEW a \in Int, NEW b \in Int, NEW c \in Int, NEW d \in Int,
         Entered(u, a, b, c, d, 0), c + d = 0
  PROVE  PositionMatches'
<1>1. \A v : LentTo(v, o) = 0
  BY DEF LentTo
<1>2. \A v \in Users : Lent(v)' = Lent(v) + (IF v = u THEN c + d ELSE 0)
  BY <1>1, AddedSums, SumTypes
<1> QED
  BY <1>2, PositionStays

\* Nothing moves, and the orders keep what was lent for them.
LEMMA PositionKept ==
  ASSUME TInv, PositionMatches, UNCHANGED <<summary, mortgaged, ledger>>,
         \A v \in Users : Lent(v)' = Lent(v)
  PROVE  PositionMatches'
BY DEF PositionMatches, StocksOf, MortgagedBy

LEMMA ClosedLent ==
  ASSUME TInv, TInv', NEW i \in DOMAIN orders, orders' = [orders EXCEPT ![i].open = FALSE],
         NEW v
  PROVE  Lent(v)' = Lent(v)
<1>1. /\ DOMAIN orders' = DOMAIN orders /\ orders'[i] \in Order
      /\ orders'[i].lent = orders[i].lent /\ orders'[i].user = orders[i].user
      /\ \A j \in DOMAIN orders \ {i} : orders'[j] = orders[j]
  BY ClosesOrder
<1>2. LentTo(v, orders'[i]) = LentTo(v, orders[i]) /\ LentTo(v, orders[i]) \in Nat
  BY <1>1, OrdersAre, NeedTypes DEF LentTo
<1>3. Lent(v)' = Lent(v) + (LentTo(v, orders'[i]) - LentTo(v, orders[i]))
  BY <1>1, ChangedSums
<1> QED
  BY <1>2, <1>3, SumTypes

LEMMA PlacingPosition ==
  ASSUME TInv, TInv', PositionMatches, NEW t \in Tickets,
         PlaceAsk(t) \/ PlaceBid(t) \/ PlaceFails(t)
  PROVE  PositionMatches'
<1>1. CASE PlaceAsk(t)
  <2> DEFINE o == NewOrder(t, 0, 0, TRUE)
             fee == -OrderFee(t)
             minus == -t.qty
             q == t.qty
  <2>1. o.lent = 0
    BY DEF NewOrder
  <2>2. Entered(t.user, fee, 0, minus, q, 0) /\ Added(o)
    BY <1>1, PlaceAskRows
  <2>3. fee \in Int /\ minus \in Int /\ q \in Int /\ minus + q = 0 /\ 0 \in Int
    BY CostType, TicketType
  <2>4. UNCHANGED <<summary, mortgaged>>
    BY <1>1 DEF PlaceAsk
  <2> HIDE DEF o, fee, minus, q
  <2> QED
    BY <2>1, <2>2, <2>3, <2>4, PositionAdded
<1>2. CASE PlaceBid(t)
  <2> DEFINE d == t.qty * OrderPrice(t)
             o == NewOrder(t, d, 0, TRUE)
             cost == -OrderFee(t) - d
  <2>1. o.lent = 0
    BY DEF NewOrder
  <2>2. Entered(t.user, cost, d, 0, 0, 0) /\ Added(o)
    BY <1>2, PlaceBidRows
  <2>3. cost \in Int /\ d \in Int /\ 0 \in Int /\ 0 + 0 = 0
    BY CostType, TicketType
  <2>4. UNCHANGED <<summary, mortgaged>>
    BY <1>2 DEF PlaceBid
  <2> HIDE DEF o, cost, d
  <2> QED
    BY <2>1, <2>2, <2>3, <2>4, PositionAdded
<1>3. CASE PlaceFails(t)
  <2> DEFINE o == NewOrder(t, 0, 0, FALSE)
  <2>1. Added(o) /\ o.lent = 0
    BY <1>3, NewOrderFresh DEF Added, PlaceFails, NewOrder
  <2>2. UNCHANGED <<summary, mortgaged, ledger>>
    BY <1>3 DEF PlaceFails
  <2> HIDE DEF o
  <2>3. \A v : LentTo(v, o) = 0
    BY <2>1 DEF LentTo
  <2>4. \A v \in Users : Lent(v)' = Lent(v)
    BY <2>1, <2>3, AddedSums, SumTypes
  <2> QED
    BY <2>2, <2>4, PositionKept
<1> QED
  BY <1>1, <1>2, <1>3

LEMMA UpdatingPosition ==
  ASSUME TInv, TInv', PositionMatches, NEW x \in updating, CommitLend(x) \/ CommitReturn(x)
  PROVE  PositionMatches'
<1>1. CASE CommitLend(x)
  <2> DEFINE o == x.order
             fee == -x.fee
             c == o.lent - o.qty
             q == o.qty
  <2>1. Entered(o.user, fee, 0, c, q, 0) /\ Added(o) /\ x.fee \in Nat
    BY <1>1, CommitLendRows
  <2>2. o.lent \in Nat /\ q \in Int /\ fee \in Int /\ c \in Int /\ 0 \in Int /\ c + q = o.lent
    BY <2>1, OrderType DEF Added, Fresh
  <2>3. UNCHANGED <<summary, mortgaged>>
    BY <1>1 DEF CommitLend
  <2> HIDE DEF o, fee, c, q
  <2>4. \A v \in Users : Lent(v)' = Lent(v) + (IF v = o.user THEN c + q ELSE 0)
    <3> TAKE v \in Users
    <3>1. Lent(v)' = Lent(v) + LentTo(v, o)
      BY <2>1, AddedSums
    <3> QED
      BY <2>2, <3>1 DEF LentTo
  <2> QED
    BY <2>1, <2>2, <2>3, <2>4, PositionStays
<1>2. CASE CommitReturn(x)
  <2> DEFINE i == x.order
             o == orders[i]
             c == -o.lent
  <2>1. /\ i \in DOMAIN orders /\ Entered(o.user, 0, 0, c, 0, 0)
        /\ Changed(i, orders'[i]) /\ DOMAIN orders' = DOMAIN orders
        /\ orders'[i].lent = 0
        /\ \A j \in DOMAIN orders \ {i} : orders'[j] = orders[j]
    BY <1>2, CommitReturnRows
  <2>2. o.lent \in Nat /\ c \in Int /\ 0 \in Int
    BY <2>1, OrdersAre, OrderType
  <2>3. UNCHANGED <<summary, mortgaged>>
    BY <1>2 DEF CommitReturn
  <2>4. \A v \in Users : Lent(v)' = Lent(v) + (IF v = o.user THEN c + 0 ELSE 0)
    <3> TAKE v \in Users
    <3>1. Lent(v)' = Lent(v) + (LentTo(v, orders'[i]) - LentTo(v, o))
      BY <2>1, ChangedSums
    <3>2. LentTo(v, orders'[i]) = 0
      BY <2>1 DEF LentTo
    <3>3. LentTo(v, o) = IF v = o.user THEN o.lent ELSE 0
      BY DEF LentTo
    <3> HIDE DEF i, o
    <3> QED
      BY <2>2, <3>1, <3>2, <3>3, SumTypes
  <2> HIDE DEF i, o, c
  <2> QED
    BY <2>1, <2>2, <2>3, <2>4, PositionStays
<1> QED
  BY <1>1, <1>2

LEMMA ClosingPosition ==
  ASSUME TInv, TInv', PositionMatches, NEW i \in DOMAIN orders,
         CancelAsk(i) \/ CloseBid(i) \/ CancelFails(i)
  PROVE  PositionMatches'
<1>1. orders' = [orders EXCEPT ![i].open = FALSE] /\ UNCHANGED <<summary, mortgaged>>
  BY DEF CancelAsk, CloseBid, CancelFails
<1>2. \A v \in Users : Lent(v)' = Lent(v)
  BY <1>1, ClosedLent
<1>3. CASE CancelAsk(i)
  <2> DEFINE n == Unfilled(orders[i])
             minus == -n
             u == orders[i].user
  <2>1. n \in Nat /\ Entered(u, 0, 0, n, minus, 0)
    BY <1>3, CancelAskRows
  <2>2. minus \in Int /\ n \in Int /\ 0 \in Int /\ n + minus = 0
    BY <2>1
  <2> HIDE DEF n, minus, u
  <2>3. \A v \in Users : Lent(v)' = Lent(v) + (IF v = u THEN n + minus ELSE 0)
    BY <1>2, <2>2, SumTypes
  <2> QED
    BY <1>1, <2>1, <2>2, <2>3, PositionStays
<1>4. CASE CloseBid(i)
  <2> DEFINE n == Refund(orders[i])
             minus == -n
             u == orders[i].user
  <2>1. n \in Nat /\ Entered(u, n, minus, 0, 0, 0)
    BY <1>4, CloseBidRows
  <2>2. minus \in Int /\ n \in Int /\ 0 \in Int /\ 0 + 0 = 0
    BY <2>1
  <2> HIDE DEF n, minus, u
  <2>3. \A v \in Users : Lent(v)' = Lent(v) + (IF v = u THEN 0 + 0 ELSE 0)
    BY <1>2, <2>2, SumTypes
  <2> QED
    BY <1>1, <2>1, <2>2, <2>3, PositionStays
<1>5. CASE CancelFails(i)
  BY <1>1, <1>2, <1>5, PositionKept DEF CancelFails
<1> QED
  BY <1>3, <1>4, <1>5

LEMMA FillPosition ==
  ASSUME TInv, TInv', PositionMatches, NEW a \in DOMAIN orders, NEW b \in DOMAIN orders,
         Fill(a, b)
  PROVE  PositionMatches'
<1>1. PICK n, p, taxA, taxB : n = FillQty(a, b) /\ Traded(a, b, n, p, taxA, taxB)
  BY FillIsTrade
<1>2. MayFill(a, b)
  BY FillIsTrade
<1>s. PICK s, u : s = orders[a].user /\ u = orders[b].user
  OBVIOUS
<1>3. /\ a # b /\ s \in Users /\ u \in Users /\ s # u /\ n \in Nat \ {0}
      /\ n <= Unfilled(orders[a]) /\ n <= Unfilled(orders[b])
  BY <1>1, <1>2, <1>s, FillParties
<1>4. /\ DOMAIN orders' = DOMAIN orders
      /\ orders'[a] = FillOrder(orders[a], n) /\ orders'[b] = FillOrder(orders[b], n)
      /\ \A i \in DOMAIN orders \ {a, b} : orders'[i] = orders[i]
  BY <1>1, <1>2, TradedOrders
<1>5. \A v \in Users : Lent(v)' = Lent(v)
  <2> TAKE v \in Users
  <2>1. /\ orders'[a].lent = orders[a].lent /\ orders'[a].user = orders[a].user
        /\ orders'[b].lent = orders[b].lent /\ orders'[b].user = orders[b].user
    BY <1>3, <1>4, FilledOrder DEF Changed
  <2>2. /\ LentTo(v, orders'[a]) = LentTo(v, orders[a]) /\ LentTo(v, orders[a]) \in Nat
        /\ LentTo(v, orders'[b]) = LentTo(v, orders[b]) /\ LentTo(v, orders[b]) \in Nat
    BY <2>1, OrdersAre, NeedTypes DEF LentTo
  <2>3. Lent(v)' = Lent(v) + (LentTo(v, orders'[a]) - LentTo(v, orders[a]))
                           + (LentTo(v, orders'[b]) - LentTo(v, orders[b]))
    BY <1>3, <1>4, TradedSums
  <2> QED
    BY <2>2, <2>3, SumTypes
<1>6. /\ summary'[s].held = summary[s].held - n /\ summary'[u].held = summary[u].held + n
      /\ \A v \in Users \ {s, u} : summary'[v] = summary[v]
  BY <1>1, <1>2, <1>s, TradedSummary
<1>7. \A v \in Users : MortgagedBy(v)' = MortgagedBy(v)
  BY <1>1 DEF MortgagedBy, Traded
<1>8. /\ StocksOf(s)' = StocksOf(s) - n /\ StocksOf(u)' = StocksOf(u) + n
      /\ \A v \in Users \ {s, u} : StocksOf(v)' = StocksOf(v)
  <2> DEFINE share == ShareOf(orders[b], n)
  <2>1. TradeEntered(ledger, ledger', s, u, n, p, share, taxA, taxB)
    BY <1>1, <1>s DEF Traded
  <2> HIDE DEF share
  <2>2. /\ ledger'[s] = Row(ledger[s], n * p - taxA, 0, 0, -n, taxA)
        /\ ledger'[u] = Row(ledger[u], share - n * p - taxB, -share, n, 0, taxB)
        /\ \A v \in Users \ {s, u} : ledger'[v] = ledger[v]
    BY <2>1 DEF TradeEntered
  <2>3. /\ ledger'[s].stocks = ledger[s].stocks + 0
        /\ ledger'[s].reservedStocks = ledger[s].reservedStocks + -n
        /\ ledger'[u].stocks = ledger[u].stocks + n
        /\ ledger'[u].reservedStocks = ledger[u].reservedStocks + 0
    BY <2>2 DEF Row
  <2>4. /\ ledger[s].stocks \in Int /\ ledger[s].reservedStocks \in Int
        /\ ledger[u].stocks \in Int /\ ledger[u].reservedStocks \in Int
    BY <1>3, PositionTypes
  <2>5. \A v \in Users \ {s, u} : StocksOf(v)' = StocksOf(v)
    BY <2>2 DEF StocksOf
  <2>6. StocksOf(s)' = StocksOf(s) - n /\ StocksOf(u)' = StocksOf(u) + n
    BY <1>3, <2>3, <2>4 DEF StocksOf
  <2> QED
    BY <2>5, <2>6
<1>9. ASSUME NEW v \in Users
      PROVE  (summary[v].held = StocksOf(v) - Lent(v) + MortgagedBy(v))'
  <2>1. summary[v].held = StocksOf(v) - Lent(v) + MortgagedBy(v)
    BY DEF PositionMatches
  <2>2. /\ summary[v].held \in Int /\ StocksOf(v) \in Int /\ Lent(v) \in Nat
        /\ MortgagedBy(v) \in Nat
    BY PositionTypes
  <2>3. CASE v = s
    BY <1>3, <1>5, <1>6, <1>7, <1>8, <2>1, <2>2, <2>3
  <2>4. CASE v = u
    BY <1>3, <1>5, <1>6, <1>7, <1>8, <2>1, <2>2, <2>4
  <2>5. CASE v \notin {s, u}
    BY <1>5, <1>6, <1>7, <1>8, <2>1, <2>5
  <2> QED
    BY <2>3, <2>4, <2>5
<1> QED
  BY <1>9 DEF PositionMatches

\* The sums over the orders when no order changes.
LEMMA SumsKept ==
  ASSUME UNCHANGED orders, NEW v
  PROVE  Lent(v)' = Lent(v) /\ CashNeeds(v)' = CashNeeds(v) /\ StockNeeds(v)' = StockNeeds(v)
BY DEF Lent, CashNeeds, StockNeeds, LentTo, CashNeed, StockNeed, Refund, ShareOf, Unfilled

LEMMA PurchasePosition ==
  ASSUME TInv, PositionMatches, NEW u \in Users, NEW n, NEW tax, Purchased(u, n, tax)
  PROVE  PositionMatches'
<1> DEFINE total == -price * n - tax
<1>1. n \in Nat \ {0} /\ tax \in Nat /\ Entered(u, total, 0, n, 0, tax)
  BY DEF Purchased
<1>2. total \in Int /\ 0 \in Int /\ n \in Int /\ tax \in Int
  <2>1. price \in Nat
    BY PricesAssumption DEF TInv
  <2>2. price * n \in Nat
    BY <1>1, <2>1, Products
  <2>3. total = -(price * n) - tax
    BY <1>1, <2>1
  <2> HIDE DEF total
  <2> QED
    BY <1>1, <2>2, <2>3
<1> HIDE DEF total
<1>3. ASSUME NEW v \in Users
      PROVE  (summary[v].held = StocksOf(v) - Lent(v) + MortgagedBy(v))'
  <2>1. summary[v].held = StocksOf(v) - Lent(v) + MortgagedBy(v)
    BY DEF PositionMatches
  <2>2. /\ summary[v].held \in Int /\ StocksOf(v) \in Int /\ Lent(v) \in Nat
        /\ MortgagedBy(v) \in Nat /\ ledger[v].stocks \in Int /\ ledger[v].reservedStocks \in Int
    BY PositionTypes
  <2>3. Lent(v)' = Lent(v) /\ MortgagedBy(v)' = MortgagedBy(v)
    BY SumsKept DEF Purchased, MortgagedBy
  <2>4. /\ ledger'[v].stocks = ledger[v].stocks + (IF v = u THEN n ELSE 0)
        /\ ledger'[v].reservedStocks = ledger[v].reservedStocks + (IF v = u THEN 0 ELSE 0)
    BY <1>1, <1>2, EnteredFields
  <2>5. StocksOf(v)' = StocksOf(v) + (IF v = u THEN n ELSE 0)
    BY <1>1, <2>2, <2>4 DEF StocksOf
  <2>6. summary'[v].held = summary[v].held + (IF v = u THEN n ELSE 0)
    BY <2>2 DEF Purchased
  <2> QED
    BY <1>1, <2>1, <2>2, <2>3, <2>5, <2>6
<1> QED
  BY <1>3 DEF PositionMatches

\* A mortgage moves stocks between the user and the bank.
LEMMA MortgagedSums ==
  ASSUME TInv, NEW u \in Users, NEW n, NEW p, NEW total, Mortgaged(u, n, p, total),
         NEW v \in Users
  PROVE  MortgagedBy(v)' = MortgagedBy(v) + (IF v = u THEN n ELSE 0)
<1>1. n \in Int /\ p \in Prices /\ mortgaged[u][p] + n \in Nat
  BY DEF Mortgaged
<1> DEFINE m == mortgaged[u]
           q == [m EXCEPT ![p] = m[p] + n]
<1>2. m \in [Prices -> Int] /\ m[p] \in Nat /\ mortgaged \in [Users -> [Prices -> Nat]]
  BY <1>1 DEF TInv
<1>3. mortgaged' = [mortgaged EXCEPT ![u] = q]
  BY DEF Mortgaged
<1>4. q \in [Prices -> Int] /\ q[p] = m[p] + n /\ \A x \in Prices \ {p} : q[x] = m[x]
  BY <1>1, <1>2
<1> HIDE DEF q, m
<1>5. mortgaged'[u] = q /\ \A x \in Users \ {u} : mortgaged'[x] = mortgaged[x]
  BY <1>2, <1>3
<1>6. SumFunction(q) = SumFunction(m) + (q[p] - m[p]) /\ SumFunction(m) \in Int
  <2>1. IsFiniteSet(Prices)
    BY PricesAssumption
  <2> QED
    BY <1>1, <1>2, <1>4, <2>1, SumChanges
<1>7. CASE v = u
  BY <1>1, <1>2, <1>4, <1>5, <1>6, <1>7 DEF MortgagedBy, m
<1>8. CASE v # u
  BY <1>5, <1>8, PositionTypes DEF MortgagedBy
<1> QED
  BY <1>7, <1>8

LEMMA MortgagePosition ==
  ASSUME TInv, PositionMatches, NEW u \in Users, NEW n, NEW p, NEW total,
         Mortgaged(u, n, p, total)
  PROVE  PositionMatches'
<1> DEFINE minus == -n
<1>1. n \in Int /\ minus \in Int /\ total \in Int /\ 0 \in Int /\ Entered(u, total, 0, minus, 0, 0)
  BY DEF Mortgaged
<1> HIDE DEF minus
<1>2. ASSUME NEW v \in Users
      PROVE  (summary[v].held = StocksOf(v) - Lent(v) + MortgagedBy(v))'
  <2>1. summary[v].held = StocksOf(v) - Lent(v) + MortgagedBy(v)
    BY DEF PositionMatches
  <2>2. /\ summary[v].held \in Int /\ StocksOf(v) \in Int /\ Lent(v) \in Nat
        /\ MortgagedBy(v) \in Nat /\ ledger[v].stocks \in Int /\ ledger[v].reservedStocks \in Int
    BY PositionTypes
  <2>3. Lent(v)' = Lent(v) /\ summary' = summary
    BY SumsKept DEF Mortgaged
  <2>4. /\ ledger'[v].stocks = ledger[v].stocks + (IF v = u THEN minus ELSE 0)
        /\ ledger'[v].reservedStocks = ledger[v].reservedStocks + (IF v = u THEN 0 ELSE 0)
    BY <1>1, EnteredFields
  <2>5. StocksOf(v)' = StocksOf(v) + (IF v = u THEN minus ELSE 0)
    BY <1>1, <2>2, <2>4 DEF StocksOf
  <2>6. MortgagedBy(v)' = MortgagedBy(v) + (IF v = u THEN n ELSE 0)
    BY MortgagedSums
  <2> QED
    BY <1>1, <2>1, <2>2, <2>3, <2>5, <2>6 DEF minus
<1> QED
  BY <1>2 DEF PositionMatches

LEMMA NextPosition ==
  ASSUME TInv, TInv', PositionMatches, [Next]_vars
  PROVE  PositionMatches'
<1>1. ASSUME NEW t \in Tickets, PlaceAsk(t) \/ PlaceBid(t) \/ PlaceFails(t)
      PROVE  PositionMatches'
  BY <1>1, PlacingPosition
<1>2. ASSUME UNCHANGED <<orders, purse, rows, mortgaged>>
      PROVE  PositionMatches'
  BY <1>2, SumsKept, PositionKept
<1>3. ASSUME NEW i \in DOMAIN orders, CancelAsk(i) \/ CancelBid(i) \/ CancelFails(i)
      PROVE  PositionMatches'
  BY <1>3, ClosingPosition DEF CancelBid
<1>4. ASSUME NEW x \in updating, CommitLend(x) \/ CommitReturn(x)
      PROVE  PositionMatches'
  BY <1>4, UpdatingPosition
<1>5. ASSUME NEW a \in DOMAIN orders, NEW b \in DOMAIN orders, Fill(a, b) \/ DropBid(a, b)
      PROVE  PositionMatches'
  BY <1>5, FillPosition, ClosingPosition DEF DropBid
<1>6. ASSUME NEW u \in Users, NEW n \in Quantities,
             \/ BuyFromExchange(u, n)
             \/ Mortgage(u, n)
             \/ \E p \in Prices : Retrieve(u, n, p)
      PROVE  PositionMatches'
  <2>1. n \in Nat
    BY DEF Quantities
  <2> QED
    BY <1>6, <2>1, PurchaseIs, PurchasePosition, MortgageIsOne, RetrieveIsOne, MortgagePosition
<1>7. ASSUME NEW t \in Tickets, StartLend(t)
      PROVE  PositionMatches'
  BY <1>2, <1>7 DEF StartLend
<1>8. ASSUME NEW i \in DOMAIN orders, StartReturn(i)
      PROVE  PositionMatches'
  BY <1>2, <1>8 DEF StartReturn
<1>9. ASSUME NEW x \in updating, ReadBank(x)
      PROVE  PositionMatches'
  BY <1>2, <1>9 DEF ReadBank
<1>10. CASE UNCHANGED vars
  BY <1>2, <1>10 DEF vars
<1> QED
  BY <1>1, <1>3, <1>4, <1>5, <1>6, <1>7, <1>8, <1>9, <1>10 DEF Next

LEMMA InitSums ==
  ASSUME Init
  PROVE  /\ \A v : Lent(v) = 0 /\ CashNeeds(v) = 0 /\ StockNeeds(v) = 0
         /\ \A v \in Users : MortgagedBy(v) = 0
<1>1. DOMAIN orders = {}
  BY DEF Init
<1>2. \A f : DOMAIN f = {} => SumFunction(f) = 0
  BY FunctionSum, SumEmpty
<1>3. \A v : Lent(v) = 0 /\ CashNeeds(v) = 0 /\ StockNeeds(v) = 0
  BY <1>1, <1>2 DEF Lent, CashNeeds, StockNeeds
<1>4. \A v \in Users : MortgagedBy(v) = 0
  <2>1. \A v \in Users : DOMAIN mortgaged[v] = Prices /\ \A p \in Prices : mortgaged[v][p] = 0
    BY DEF Init
  <2> QED
    BY <2>1, PricesAssumption, FunctionSum, SumZero DEF MortgagedBy
<1> QED
  BY <1>3, <1>4

LEMMA InitPosition == Init => PositionMatches
<1> SUFFICES ASSUME Init, NEW v \in Users
             PROVE  summary[v].held = StocksOf(v) - Lent(v) + MortgagedBy(v)
  BY DEF PositionMatches
<1>1. summary[v].held = 0 /\ StocksOf(v) = 0
  BY DEF Init, StocksOf
<1> QED
  BY <1>1, InitSums

\* TransactionSummary, by which a user is taxed, Transactions, ShortSellLends and
\* MortgageDetails agree on every user's position, through short sales, partial fills,
\* squared-off lends, mortgages, failed transactions and concurrent updates of
\* ShortSellBank, without any condition: models/User.go and models/ShortSell.go.
THEOREM PositionsMatch == Spec => []PositionMatches
<1>1. Init => PositionMatches
  BY InitPosition
<1>2. TInv /\ TInv' /\ PositionMatches /\ [Next]_vars => PositionMatches'
  BY NextPosition
<1> QED
  BY <1>1, <1>2, TypesInvariant, PTL DEF Spec

------------------------------------------------------------------------------
(* TradesMakeNoMoney *)

Fills == [i \in DOMAIN orders |-> orders'[i].filled] # [i \in DOMAIN orders |-> orders[i].filled]

LEMMA FillMakesNoMoney ==
  ASSUME TInv, TInv', NEW a \in DOMAIN orders, NEW b \in DOMAIN orders, Fill(a, b)
  PROVE  Wealth' + Taxes' = Wealth + Taxes
<1>1. PICK n, p, taxA, taxB : n = FillQty(a, b) /\ Traded(a, b, n, p, taxA, taxB)
  BY FillIsTrade
<1>2. MayFill(a, b)
  BY FillIsTrade
<1>3. PICK s, u, share : s = orders[a].user /\ u = orders[b].user /\ share = ShareOf(orders[b], n)
  OBVIOUS
<1>4. /\ s \in Users /\ u \in Users /\ s # u /\ n \in Nat \ {0} /\ share \in Nat
      /\ p \in Nat /\ taxA \in Nat /\ taxB \in Nat
  BY <1>1, <1>2, <1>3, FillParties DEF Traded
<1>5. TradeEntered(ledger, ledger', s, u, n, p, share, taxA, taxB)
  BY <1>1, <1>3 DEF Traded
<1>6. n * p \in Nat
  BY <1>4, Products
<1>7. /\ ledger'[s] = Row(ledger[s], n * p - taxA, 0, 0, -n, taxA)
      /\ ledger'[u] = Row(ledger[u], share - n * p - taxB, -share, n, 0, taxB)
      /\ \A v \in Users \ {s, u} : ledger'[v] = ledger[v]
  BY <1>5 DEF TradeEntered
<1>8. /\ ledger'[s].total = ledger[s].total + (n * p - taxA)
      /\ ledger'[s].reservedCash = ledger[s].reservedCash + 0
      /\ ledger'[s].tax = ledger[s].tax + taxA
      /\ ledger'[u].total = ledger[u].total + (share - n * p - taxB)
      /\ ledger'[u].reservedCash = ledger[u].reservedCash + -share
      /\ ledger'[u].tax = ledger[u].tax + taxB
  BY <1>7 DEF Row
<1>9. \A v \in Users : /\ ledger[v].total \in Int /\ ledger[v].reservedCash \in Int
                       /\ ledger[v].tax \in Int
                       /\ ledger'[v].total \in Int /\ ledger'[v].reservedCash \in Int
                       /\ ledger'[v].tax \in Int
  <2>1. \A v \in Users : ledger[v] \in LedgerRow /\ ledger'[v] \in LedgerRow
    BY DEF TInv
  <2> QED
    BY <2>1 DEF LedgerRow
<1> DEFINE f == [v \in Users |-> ledger[v].total + ledger[v].reservedCash]
           g == [v \in Users |-> ledger'[v].total + ledger'[v].reservedCash]
           h == [v \in Users |-> ledger[v].tax]
           k == [v \in Users |-> ledger'[v].tax]
<1>10. f \in [Users -> Int] /\ g \in [Users -> Int] /\ h \in [Users -> Int] /\ k \in [Users -> Int]
  BY <1>9
<1>11. \A v \in Users \ {s, u} : g[v] = f[v] /\ k[v] = h[v]
  BY <1>7
<1>12. g[s] = f[s] + n * p - taxA /\ k[s] = h[s] + taxA
  BY <1>4, <1>6, <1>8, <1>9
<1>13. g[u] = f[u] - n * p - taxB /\ k[u] = h[u] + taxB
  BY <1>4, <1>6, <1>8, <1>9
<1>14. f[s] \in Int /\ f[u] \in Int /\ h[s] \in Int /\ h[u] \in Int
  BY <1>4, <1>9
<1>15. /\ Wealth = SumFunction(f) /\ Wealth' = SumFunction(g)
       /\ Taxes = SumFunction(h) /\ Taxes' = SumFunction(k)
  BY DEF Wealth, Taxes
<1> HIDE DEF f, g, h, k
<1>16. SumFunction(f) \in Int /\ SumFunction(g) = SumFunction(f) + (g[s] - f[s]) + (g[u] - f[u])
  BY <1>4, <1>10, <1>11, UsersAssumption, SumChangesTwice
<1>17. SumFunction(h) \in Int /\ SumFunction(k) = SumFunction(h) + (k[s] - h[s]) + (k[u] - h[u])
  BY <1>4, <1>10, <1>11, UsersAssumption, SumChangesTwice
<1> QED
  BY <1>4, <1>6, <1>12, <1>13, <1>14, <1>15, <1>16, <1>17

\* No other step fills an order.
LEMMA OnlyFillsFill ==
  ASSUME TInv, [Next]_vars, Fills
  PROVE  \E a, b \in DOMAIN orders : Fill(a, b)
<1> SUFFICES ASSUME ~\E a, b \in DOMAIN orders : Fill(a, b)
             PROVE  \A i \in DOMAIN orders : orders'[i].filled = orders[i].filled
  BY DEF Fills
<1>1. ASSUME NEW o, Added(o)
      PROVE  \A i \in DOMAIN orders : orders'[i].filled = orders[i].filled
  BY <1>1, AddedOrders, OrdersAre
<1>2. ASSUME NEW t \in Tickets, PlaceAsk(t) \/ PlaceBid(t) \/ PlaceFails(t)
      PROVE  \E o : Added(o)
  <2>1. CASE PlaceFails(t)
    BY <2>1, NewOrderFresh DEF Added, PlaceFails
  <2> QED
    BY <1>2, <2>1, PlaceAskRows, PlaceBidRows
<1>3. ASSUME NEW i \in DOMAIN orders, CancelAsk(i) \/ CloseBid(i) \/ CancelFails(i)
      PROVE  \A j \in DOMAIN orders : orders'[j].filled = orders[j].filled
  <2>1. orders' = [orders EXCEPT ![i].open = FALSE]
    BY <1>3 DEF CancelAsk, CloseBid, CancelFails
  <2> QED
    BY <2>1, ClosesOrder
<1>4. ASSUME NEW x \in updating, CommitLend(x)
      PROVE  \E o : Added(o)
  BY <1>4, CommitLendRows
<1>5. ASSUME NEW x \in updating, CommitReturn(x)
      PROVE  \A j \in DOMAIN orders : orders'[j].filled = orders[j].filled
  BY <1>5, CommitReturnRows
<1>6. ASSUME UNCHANGED orders
      PROVE  \A j \in DOMAIN orders : orders'[j].filled = orders[j].filled
  BY <1>6
<1>7. CASE \E t \in Tickets : PlaceAsk(t) \/ PlaceBid(t) \/ PlaceFails(t) \/ StartLend(t)
  BY <1>1, <1>2, <1>6, <1>7 DEF StartLend
<1>8. CASE \E i \in DOMAIN orders : StartReturn(i) \/ CancelAsk(i) \/ CancelBid(i) \/ CancelFails(i)
  BY <1>3, <1>6, <1>8 DEF StartReturn, CancelBid
<1>9. CASE \E x \in updating : ReadBank(x) \/ CommitLend(x) \/ CommitReturn(x)
  BY <1>1, <1>4, <1>5, <1>6, <1>9 DEF ReadBank
<1>10. CASE \E a, b \in DOMAIN orders : DropBid(a, b)
  BY <1>3, <1>10 DEF DropBid
<1>11. CASE \E u \in Users, n \in Quantities : \/ BuyFromExchange(u, n) \/ Mortgage(u, n)
                                               \/ \E p \in Prices : Retrieve(u, n, p)
  BY <1>6, <1>11 DEF BuyFromExchange, Mortgage, Retrieve, MortgageTransaction
<1>12. CASE UNCHANGED vars
  BY <1>6, <1>12 DEF vars
<1> QED
  BY <1>7, <1>8, <1>9, <1>10, <1>11, <1>12 DEF Next

\* A trade moves money between two users and makes none, whatever the prices of the two
\* orders, the deposit and what was rounded: the seller gets what leaves the buyer's cash
\* and reserve, less the taxes. PerformOrderFillTransaction of models/User.go.
THEOREM NoMoneyMade == Spec => TradesMakeNoMoney
<1>1. TInv /\ TInv' /\ [Next]_vars =>
        [[i \in DOMAIN orders |-> orders'[i].filled] # [i \in DOMAIN orders |-> orders[i].filled]
           => Wealth' + Taxes' = Wealth + Taxes]_vars
  BY OnlyFillsFill, FillMakesNoMoney DEF Fills
<1> QED
  BY <1>1, TypesInvariant, PTL DEF Spec, TradesMakeNoMoney

------------------------------------------------------------------------------
(* LedgerAgrees and ReservesCover *)

\* What a bid reserved is a price for each of its stocks, so that the shares of its fills
\* and its refund add up to it; an order without a deposit row reserved nothing.
Backed(o) ==
  /\ \E k \in Nat : o.deposit = o.qty * k
  /\ o.saved \/ o.deposit = 0

DepositsWhole ==
  /\ \A i \in DOMAIN orders : Backed(orders[i])
  /\ \A x \in updating : x.what = "lend" => Backed(x.order)

\* What the orders of a behaviour reserve together is less than Word: no uint64 of
\* ReservedCash wraps. Each order reserves m at most.
OrdersFit(m) ==
  /\ \A t \in Tickets, p \in Prices : t.qty * p <= m
  /\ MaxOrders * m < Word

\* ... and the bound on the reserves that it gives.
ReservesBounded(m) ==
  /\ IsFiniteSet(updating)
  /\ \A u \in Users : reserved[u] <= Len(orders) * m

ReservesInv(m) == LedgerAgrees /\ ReservesCover /\ DepositsWhole /\ ReservesBounded(m)

LEMMA NewOrderBacked ==
  ASSUME NEW t \in Tickets, NEW k \in Nat, NEW d, d = t.qty * k, NEW n
  PROVE  /\ Backed(NewOrder(t, d, n, TRUE))
         /\ Backed(NewOrder(t, 0, n, TRUE)) /\ Backed(NewOrder(t, 0, n, FALSE))
<1>1. t.qty * 0 = 0 /\ 0 \in Nat
  BY TicketType
<1> QED
  BY <1>1 DEF Backed, NewOrder

\* Shares of a deposit.
LEMMA BackedShares ==
  ASSUME NEW o \in Order, Backed(o), NEW n \in Nat
  PROVE  \E k \in Nat : ShareOf(o, n) = k * n
<1>1. PICK k \in Nat : o.deposit = o.qty * k
  BY DEF Backed
<1> DEFINE q == o.qty
           kn == k * n
<1>2. q \in Nat \ {0} /\ kn \in Nat
  BY OrderType, Products
<1>3. ShareOf(o, n) = ((q * k) * n) \div q
  BY <1>1 DEF ShareOf
<1>4. (q * k) * n = q * kn
  <2> HIDE DEF q
  <2> QED
    BY <1>2
<1> HIDE DEF q, kn
<1>5. (q * kn) \div q = kn
  BY <1>2, DivExact
<1> QED
  BY <1>3, <1>4, <1>5 DEF kn

\* What a bid still needs after n more of its stocks were bought.
LEMMA ShareLeaves ==
  ASSUME NEW o \in Order, Backed(o), NEW p \in Order,
         p.qty = o.qty, p.deposit = o.deposit,
         Unfilled(o) \in Nat, NEW n \in Nat, Unfilled(p) = Unfilled(o) - n, n <= Unfilled(o)
  PROVE  /\ Refund(p) = Refund(o) - ShareOf(o, n)
         /\ ShareOf(o, n) \in Nat /\ Refund(o) \in Nat /\ Refund(p) \in Nat
         /\ Unfilled(p) = 0 => Refund(p) = 0
<1>1. PICK k \in Nat : o.deposit = o.qty * k
  BY DEF Backed
<1> DEFINE q == o.qty
           m == Unfilled(o)
           r == m - n
<1>2. q \in Nat \ {0} /\ m \in Nat /\ r \in Nat /\ Unfilled(p) = r
  BY OrderType
<1>3. ASSUME NEW x \in Nat
      PROVE  ((q * k) * x) \div q = k * x
  <2> DEFINE kx == k * x
  <2>1. kx \in Nat
    BY Products
  <2>2. (q * k) * x = q * kx
    <3> HIDE DEF q
    <3> QED
      BY <1>2
  <2> HIDE DEF q, kx
  <2>3. (q * kx) \div q = kx
    BY <1>2, <2>1, DivExact
  <2> QED
    BY <2>2, <2>3 DEF kx
<1>4. Refund(o) = ((q * k) * m) \div q /\ ShareOf(o, n) = ((q * k) * n) \div q
  BY <1>1 DEF Refund, ShareOf
<1>5. Refund(p) = ((q * k) * r) \div q
  BY <1>1, <1>2 DEF Refund, ShareOf
<1> HIDE DEF q, m, r
<1>6. Refund(o) = k * m /\ ShareOf(o, n) = k * n /\ Refund(p) = k * r
  BY <1>2, <1>3, <1>4, <1>5
<1>7. k * r = k * m - k * n
  BY <1>2 DEF r
<1>8. k * m \in Nat /\ k * n \in Nat /\ k * r \in Nat /\ k * 0 = 0
  BY <1>2, Products
<1> QED
  BY <1>2, <1>6, <1>7, <1>8

\* The step enters what changes in the balances and the needs of u.
LEMMA ReservesStay ==
  ASSUME TInv, TInv', LedgerAgrees, ReservesCover,
         NEW u, NEW a \in Int, NEW b \in Int, NEW c \in Int, NEW d \in Int, NEW t \in Int,
         Entered(u, a, b, c, d, t), faults' = faults,
         \A v \in Users : cash'[v] = IF v = u THEN Unsigned(cash[v] + a) ELSE cash[v],
         \A v \in Users : reserved'[v] = reserved[v] + (IF v = u THEN b ELSE 0),
         \A v \in Users : CashNeeds(v)' = CashNeeds(v) + (IF v = u THEN b ELSE 0),
         \A v \in Users : StockNeeds(v)' = StockNeeds(v) + (IF v = u THEN d ELSE 0)
  PROVE  LedgerAgrees' /\ ReservesCover'
<1>1. ASSUME NEW v \in Users
      PROVE  /\ cash'[v] = Unsigned(StartCash + ledger'[v].total)
             /\ reserved'[v] = ledger'[v].reservedCash
             /\ CashNeeds(v)' <= reserved'[v]
             /\ faults = 0 => /\ reserved'[v] = CashNeeds(v)'
                              /\ ledger'[v].reservedStocks = StockNeeds(v)'
  <2>1. /\ cash[v] = Unsigned(StartCash + ledger[v].total) /\ reserved[v] = ledger[v].reservedCash
        /\ CashNeeds(v) <= reserved[v]
        /\ faults = 0 => reserved[v] = CashNeeds(v) /\ ledger[v].reservedStocks = StockNeeds(v)
    BY DEF LedgerAgrees, ReservesCover, ReservesMatch
  <2>2. /\ ledger'[v].total = ledger[v].total + (IF v = u THEN a ELSE 0)
        /\ ledger'[v].reservedCash = ledger[v].reservedCash + (IF v = u THEN b ELSE 0)
        /\ ledger'[v].reservedStocks = ledger[v].reservedStocks + (IF v = u THEN d ELSE 0)
        /\ ledger[v].total \in Int /\ ledger[v].reservedCash \in Int
        /\ ledger[v].reservedStocks \in Int
    BY EnteredFields
  <2>3. cash[v] \in Unsigneds /\ StartCash \in Int /\ CashNeeds(v) \in Nat /\ StockNeeds(v) \in Nat
        /\ reserved[v] \in Int
    <3>1. cash[v] \in Unsigneds /\ reserved[v] \in Unsigneds
      BY DEF TInv
    <3>2. reserved[v] \in Int
      BY <3>1, WordAssumption DEF Unsigneds
    <3> QED
      BY <3>1, <3>2, SumTypes, StartAssumption
  <2>4. cash'[v] = Unsigned(StartCash + ledger'[v].total)
    <3>1. CASE v = u
      <4> DEFINE x == cash[v]
                 y == ledger[v].total
      <4>1. x \in Unsigneds /\ y \in Int /\ x = Unsigned(StartCash + y) /\ StartCash \in Int
        BY <2>1, <2>2, <2>3
      <4>2. cash'[v] = Unsigned(x + a) /\ ledger'[v].total = y + a
        BY <2>2, <3>1
      <4> HIDE DEF x, y
      <4>3. a \in Int
        OBVIOUS
      <4>4. Unsigned(x + a) = Unsigned(StartCash + (y + a))
        BY <4>1, <4>3, BalanceFollows
      <4> QED
        BY <4>2, <4>4
    <3>2. CASE v # u
      BY <2>1, <2>2, <3>2
    <3> QED
      BY <3>1, <3>2
  <2>5. /\ reserved'[v] = reserved[v] + (IF v = u THEN b ELSE 0)
        /\ CashNeeds(v)' = CashNeeds(v) + (IF v = u THEN b ELSE 0)
        /\ StockNeeds(v)' = StockNeeds(v) + (IF v = u THEN d ELSE 0)
    OBVIOUS
  <2> QED
    BY <2>1, <2>2, <2>3, <2>4, <2>5
<1> QED
  BY <1>1 DEF LedgerAgrees, ReservesCover, ReservesMatch

LEMMA BackedAdded ==
  ASSUME TInv, DepositsWhole, NEW o, Added(o), Backed(o), updating' \subseteq updating
  PROVE  DepositsWhole'
<1>1. \A i \in DOMAIN orders' : Backed(orders'[i])
  <2>1. /\ DOMAIN orders' = 1 .. Len(orders) + 1 /\ orders'[Len(orders) + 1] = o
        /\ \A i \in 1 .. Len(orders) : orders'[i] = orders[i]
        /\ DOMAIN orders = 1 .. Len(orders) /\ Len(orders) \in Nat
    BY AddedOrders, OrdersAre
  <2>2. \A i \in DOMAIN orders' : i \in 1 .. Len(orders) \/ i = Len(orders) + 1
    BY <2>1
  <2> QED
    BY <2>1, <2>2 DEF DepositsWhole
<1>2. \A x \in updating' : x.what = "lend" => Backed(x.order)
  BY DEF DepositsWhole
<1> QED
  BY <1>1, <1>2 DEF DepositsWhole, Backed

LEMMA BackedKept ==
  ASSUME DepositsWhole, DOMAIN orders' = DOMAIN orders, updating' \subseteq updating,
         \A i \in DOMAIN orders : /\ orders'[i].deposit = orders[i].deposit
                                  /\ orders'[i].qty = orders[i].qty
                                  /\ orders'[i].saved = orders[i].saved
  PROVE  DepositsWhole'
BY DEF DepositsWhole, Backed

LEMMA BoundedKept ==
  ASSUME TInv, NEW m \in Nat, ReservesBounded(m), updating' \subseteq updating,
         DOMAIN orders' = DOMAIN orders, orders' \in Seq(Order),
         \A u \in Users : reserved'[u] <= reserved[u] /\ reserved'[u] \in Nat
  PROVE  ReservesBounded(m)'
<1>1. IsFiniteSet(updating')
  BY FS_Subset DEF ReservesBounded
<1>2. Len(orders') = Len(orders) /\ Len(orders) \in Nat
  <2>1. DOMAIN orders = 1 .. Len(orders) /\ DOMAIN orders' = 1 .. Len(orders')
        /\ Len(orders) \in Nat /\ Len(orders') \in Nat
    BY DEF TInv
  <2> QED
    BY <2>1
<1>3. Len(orders) * m \in Nat
  BY <1>2, Products
<1>4. \A u \in Users : reserved[u] \in Nat
  BY WordAssumption DEF TInv, Unsigneds
<1>5. \A u \in Users : reserved'[u] <= Len(orders') * m
  BY <1>2, <1>3, <1>4 DEF ReservesBounded
<1> QED
  BY <1>1, <1>5 DEF ReservesBounded

LEMMA BoundedGrows ==
  ASSUME TInv, NEW m \in Nat, ReservesBounded(m), updating' \subseteq updating,
         NEW o, Added(o),
         \A u \in Users : reserved'[u] <= reserved[u] + m /\ reserved'[u] \in Nat
  PROVE  ReservesBounded(m)'
<1>1. IsFiniteSet(updating')
  BY FS_Subset DEF ReservesBounded
<1>2. Len(orders') = Len(orders) + 1 /\ Len(orders) \in Nat
  BY DEF TInv, Added
<1>3. Len(orders) * m \in Nat /\ Len(orders') * m = Len(orders) * m + m
  <2> DEFINE n == Len(orders)
             k == Len(orders')
  <2>1. k = n + 1 /\ n \in Nat
    BY <1>2
  <2> HIDE DEF n, k
  <2>2. n * m \in Nat /\ k * m = n * m + m
    BY <2>1, Products
  <2> QED
    BY <2>2 DEF n, k
<1>4. \A u \in Users : reserved[u] \in Nat
  BY WordAssumption DEF TInv, Unsigneds
<1>5. \A u \in Users : reserved'[u] <= Len(orders') * m
  <2> DEFINE x == Len(orders) * m
             y == Len(orders') * m
  <2>1. \A u \in Users : reserved[u] <= x
    BY DEF ReservesBounded
  <2>2. x \in Nat /\ y = x + m
    BY <1>3
  <2> HIDE DEF x, y
  <2>3. \A u \in Users : reserved'[u] <= y
    BY <1>4, <2>1, <2>2
  <2> QED
    BY <2>3 DEF y
<1> QED
  BY <1>1, <1>5 DEF ReservesBounded

\* The needs of a new order.
LEMMA NewNeeds ==
  ASSUME NEW o, Fresh(o), NEW v
  PROVE  /\ CashNeed(v, o) = IF v = o.user /\ o.side = "bid" THEN o.deposit ELSE 0
         /\ StockNeed(v, o) = IF v = o.user /\ o.side = "ask" THEN o.qty ELSE 0
BY FreshNeeds DEF Fresh, CashNeed, StockNeed

LEMMA ReservedType ==
  ASSUME TInv, NEW v \in Users
  PROVE  reserved[v] \in Nat /\ cash[v] \in Int /\ cash[v] \in Unsigneds
BY WordAssumption DEF TInv, Unsigneds

\* There was room for one more order.
LEMMA PlacingRoom ==
  ASSUME TInv, NEW t \in Tickets, MayPlace(t), NEW m \in Nat, ReservesBounded(m),
         NEW d \in Nat, OrdersFit(m), d <= m, NEW u \in Users
  PROVE  reserved[u] + d < Word
<1> DEFINE L == {x \in updating : x.what = "lend"}
           n == Len(orders)
           nm == n * m
<1>1. IsFiniteSet(L)
  BY FS_Subset DEF ReservesBounded
<1>2. Cardinality(L) \in Nat
  BY <1>1, FS_CardinalityType
<1>3. n \in Nat /\ n + Cardinality(L) < MaxOrders
  BY OrdersAre DEF MayPlace
<1>4. reserved[u] \in Nat /\ reserved[u] <= nm
  BY ReservedType DEF ReservesBounded
<1> HIDE DEF L, n
<1>5. n + 1 <= MaxOrders
  BY <1>2, <1>3, BoundsAssumption
<1>6. nm \in Nat /\ MaxOrders * m \in Nat /\ nm + m <= MaxOrders * m
  <2>1. PICK e \in Nat : MaxOrders = (n + 1) + e
    BY <1>3, <1>5, BoundsAssumption
  <2>2. e * m \in Nat /\ nm \in Nat
    BY <1>3, <2>1, Products
  <2>3. MaxOrders * m = nm + m + e * m
    BY <1>3, <2>1
  <2> HIDE DEF nm
  <2> QED
    BY <2>2, <2>3
<1> HIDE DEF nm
<1>7. MaxOrders * m < Word
  BY DEF OrdersFit
<1> QED
  BY <1>4, <1>6, <1>7, WordAssumption

LEMMA PlaceAskReserves ==
  ASSUME TInv, TInv', NEW m \in Nat, ReservesInv(m), NEW t \in Tickets, PlaceAsk(t)
  PROVE  ReservesInv(m)'
<1> DEFINE o == NewOrder(t, 0, 0, TRUE)
           fee == -OrderFee(t)
           q == t.qty
           minus == -q
           u == t.user
<1>1. Entered(u, fee, 0, minus, q, 0) /\ Added(o)
  BY PlaceAskRows
<1>2. /\ fee \in Int /\ q \in Nat /\ q \in Int /\ minus \in Int /\ 0 \in Int /\ u \in Users
      /\ OrderFee(t) \in Nat
  BY CostType, TicketType
<1>3. /\ o.user = u /\ o.side = "ask" /\ o.qty = q /\ Fresh(o)
  BY <1>1 DEF NewOrder, Added, PlaceAsk
<1>4. Backed(o)
  <2>1. t.qty * 0 = 0
    BY TicketType
  <2> QED
    BY <2>1, NewOrderBacked
<1>5. /\ cash' = [cash EXCEPT ![u] = Unsigned(@ - OrderFee(t))]
      /\ UNCHANGED <<reserved, updating, faults>>
  BY DEF PlaceAsk
<1>6. \A v \in Users : cash'[v] = IF v = u THEN Unsigned(cash[v] + fee) ELSE cash[v]
  <2>1. \A v \in Users : cash[v] - OrderFee(t) = cash[v] + fee
    BY <1>2, ReservedType
  <2> QED
    BY <1>5, <2>1 DEF TInv
<1> HIDE DEF o, fee, q, minus, u
<1>7. \A v \in Users : /\ reserved'[v] = reserved[v] + (IF v = u THEN 0 ELSE 0)
                       /\ CashNeeds(v)' = CashNeeds(v) + (IF v = u THEN 0 ELSE 0)
                       /\ StockNeeds(v)' = StockNeeds(v) + (IF v = u THEN q ELSE 0)
  BY <1>1, <1>3, <1>5, NewNeeds, AddedSums, ReservedType
<1>8. LedgerAgrees' /\ ReservesCover'
  BY <1>1, <1>2, <1>5, <1>6, <1>7, ReservesStay DEF ReservesInv
<1>9. DepositsWhole'
  BY <1>1, <1>4, <1>5, BackedAdded DEF ReservesInv
<1>10. ReservesBounded(m)'
  BY <1>1, <1>5, ReservedType, BoundedGrows DEF ReservesInv
<1> QED
  BY <1>8, <1>9, <1>10 DEF ReservesInv

LEMMA CommitLendReserves ==
  ASSUME TInv, TInv', NEW m \in Nat, ReservesInv(m), NEW x \in updating, CommitLend(x)
  PROVE  ReservesInv(m)'
<1> DEFINE o == x.order
           fee == -x.fee
           q == o.qty
           c == o.lent - q
           u == o.user
<1>1. Entered(u, fee, 0, c, q, 0) /\ Added(o) /\ o.side = "ask" /\ x.fee \in Nat
  BY CommitLendRows
<1>2. /\ fee \in Int /\ q \in Nat /\ q \in Int /\ c \in Int /\ 0 \in Int /\ u \in Users
  BY <1>1, OrderType DEF Added, Fresh
<1>3. Fresh(o) /\ Backed(o)
  BY <1>1 DEF Added, CommitLend, ReservesInv, DepositsWhole
<1>5. /\ cash' = [cash EXCEPT ![u] = Unsigned(@ - x.fee)]
      /\ updating' \subseteq updating /\ UNCHANGED <<reserved, faults>>
  BY DEF CommitLend
<1>6. \A v \in Users : cash'[v] = IF v = u THEN Unsigned(cash[v] + fee) ELSE cash[v]
  <2>1. \A v \in Users : cash[v] - x.fee = cash[v] + fee
    BY <1>1, ReservedType
  <2> QED
    BY <1>5, <2>1 DEF TInv
<1>z. o.user = u /\ o.qty = q
  OBVIOUS
<1> HIDE DEF o, fee, q, c, u
<1>7. \A v \in Users : /\ reserved'[v] = reserved[v] + (IF v = u THEN 0 ELSE 0)
                       /\ CashNeeds(v)' = CashNeeds(v) + (IF v = u THEN 0 ELSE 0)
                       /\ StockNeeds(v)' = StockNeeds(v) + (IF v = u THEN q ELSE 0)
  BY <1>1, <1>3, <1>5, <1>z, NewNeeds, AddedSums, ReservedType
<1>8. LedgerAgrees' /\ ReservesCover'
  BY <1>1, <1>2, <1>5, <1>6, <1>7, ReservesStay DEF ReservesInv
<1>9. DepositsWhole'
  BY <1>1, <1>3, <1>5, BackedAdded DEF ReservesInv
<1>10. ReservesBounded(m)'
  BY <1>1, <1>5, ReservedType, BoundedGrows DEF ReservesInv
<1> QED
  BY <1>8, <1>9, <1>10 DEF ReservesInv

LEMMA PlaceBidReserves ==
  ASSUME TInv, TInv', NEW m \in Nat, OrdersFit(m), ReservesInv(m), NEW t \in Tickets, PlaceBid(t)
  PROVE  ReservesInv(m)'
<1> DEFINE p == OrderPrice(t)
           d == t.qty * p
           o == NewOrder(t, d, 0, TRUE)
           cost == -OrderFee(t) - d
           u == t.user
<1>1. Entered(u, cost, d, 0, 0, 0) /\ Added(o)
  BY PlaceBidRows
<1>2. /\ cost \in Int /\ d \in Nat /\ d \in Int /\ 0 \in Int /\ u \in Users
      /\ OrderFee(t) \in Nat /\ p \in Nat
  BY CostType, TicketType
<1>3. o.user = u /\ o.side = "bid" /\ o.deposit = d /\ Fresh(o)
  BY <1>1 DEF NewOrder, Added, PlaceBid
<1>4. Backed(o)
  BY <1>2, NewOrderBacked
<1>5. /\ cash' = [cash EXCEPT ![u] = Unsigned(@ - OrderFee(t) - d)]
      /\ reserved' = [reserved EXCEPT ![u] = Unsigned(@ + d)]
      /\ MayPlace(t) /\ UNCHANGED <<updating, faults>>
  BY DEF PlaceBid
<1>6. \A v \in Users : cash'[v] = IF v = u THEN Unsigned(cash[v] + cost) ELSE cash[v]
  <2>1. \A v \in Users : cash[v] - OrderFee(t) - d = cash[v] + cost
    BY <1>2, ReservedType
  <2> QED
    BY <1>5, <2>1 DEF TInv
<1>d. d <= m
  <2>1. p \in Prices
    BY TicketType DEF TInv, OrderPrice
  <2> QED
    BY <2>1 DEF OrdersFit
<1> HIDE DEF o, cost, u, d, p
<1>7. \A v \in Users : reserved'[v] = reserved[v] + (IF v = u THEN d ELSE 0)
  <2>1. reserved[u] + d < Word
    BY <1>2, <1>5, <1>d, PlacingRoom DEF ReservesInv
  <2>2. Unsigned(reserved[u] + d) = reserved[u] + d
    BY <1>2, <2>1, ReservedType, UnsignedFits
  <2>3. reserved \in [Users -> Unsigneds] /\ reserved' = [reserved EXCEPT ![u] = reserved[u] + d]
    BY <1>5, <2>2 DEF TInv
  <2>4. \A v \in Users : reserved[v] \in Int
    BY ReservedType
  <2> QED
    BY <2>3, <2>4
<1>8. \A v \in Users : /\ CashNeeds(v)' = CashNeeds(v) + (IF v = u THEN d ELSE 0)
                       /\ StockNeeds(v)' = StockNeeds(v) + (IF v = u THEN 0 ELSE 0)
  BY <1>1, <1>3, <1>5, NewNeeds, AddedSums
<1>9. LedgerAgrees' /\ ReservesCover'
  BY <1>1, <1>2, <1>5, <1>6, <1>7, <1>8, ReservesStay DEF ReservesInv
<1>10. DepositsWhole'
  BY <1>1, <1>4, <1>5, BackedAdded DEF ReservesInv
<1>11. ReservesBounded(m)'
  <2>1. \A v \in Users : reserved'[v] <= reserved[v] + m /\ reserved'[v] \in Nat
    BY <1>2, <1>7, <1>d, ReservedType
  <2> QED
    BY <1>1, <1>5, <2>1, BoundedGrows DEF ReservesInv
<1> QED
  BY <1>9, <1>10, <1>11 DEF ReservesInv

LEMMA PlaceFailsReserves ==
  ASSUME TInv, TInv', NEW m \in Nat, ReservesInv(m), NEW t \in Tickets, PlaceFails(t)
  PROVE  ReservesInv(m)'
<1> DEFINE o == NewOrder(t, 0, 0, FALSE)
<1>1. Added(o)
  BY NewOrderFresh DEF Added, PlaceFails
<1>2. o.deposit = 0 /\ Fresh(o)
  BY <1>1 DEF NewOrder, Added
<1>3. Backed(o)
  <2>1. t.qty * 0 = 0
    BY TicketType
  <2> QED
    BY <2>1, NewOrderBacked
<1>4. UNCHANGED <<cash, reserved, ledger, updating>> /\ faults' > 0
  BY FaultStep DEF PlaceFails
<1> HIDE DEF o
<1>5. \A v \in Users : CashNeeds(v)' = CashNeeds(v)
  BY <1>1, <1>2, NewNeeds, AddedSums, SumTypes
<1>6. LedgerAgrees' /\ ReservesCover'
  BY <1>4, <1>5 DEF ReservesInv, LedgerAgrees, ReservesCover
<1>7. DepositsWhole'
  BY <1>1, <1>3, <1>4, BackedAdded DEF ReservesInv
<1>8. ReservesBounded(m)'
  BY <1>1, <1>4, ReservedType, BoundedGrows DEF ReservesInv
<1> QED
  BY <1>6, <1>7, <1>8 DEF ReservesInv

\* A step after which every order asks for the same.
LEMMA OrdersKeep ==
  ASSUME TInv, TInv', DOMAIN orders' = DOMAIN orders, NEW i \in DOMAIN orders,
         \A j \in DOMAIN orders \ {i} : orders'[j] = orders[j],
         NEW v, CashNeed(v, orders'[i]) = CashNeed(v, orders[i])
  PROVE  CashNeeds(v)' = CashNeeds(v)
<1>1. CashNeed(v, orders[i]) \in Nat
  BY OrdersAre, NeedTypes
<1> QED
  BY <1>1, ChangedSums, SumTypes

LEMMA CommitReturnReserves ==
  ASSUME TInv, TInv', NEW m \in Nat, ReservesInv(m), NEW x \in updating, CommitReturn(x)
  PROVE  ReservesInv(m)'
<1> DEFINE i == x.order
           o == orders[i]
           c == -o.lent
           u == o.user
<1>1. /\ i \in DOMAIN orders /\ Entered(u, 0, 0, c, 0, 0)
      /\ Changed(i, orders'[i]) /\ DOMAIN orders' = DOMAIN orders
      /\ orders'[i].filled = o.filled /\ orders'[i].open = o.open
      /\ \A j \in DOMAIN orders \ {i} : orders'[j] = orders[j]
  BY CommitReturnRows
<1>2. o.lent \in Nat /\ c \in Int /\ 0 \in Int
  BY <1>1, OrdersAre, OrderType
<1>3. /\ orders'[i].user = o.user /\ orders'[i].side = o.side /\ orders'[i].qty = o.qty
      /\ orders'[i].deposit = o.deposit /\ orders'[i].saved = o.saved
  BY <1>1 DEF Changed
<1>4. /\ updating' \subseteq updating
      /\ UNCHANGED <<cash, reserved, faults>>
  BY DEF CommitReturn
<1>5. \A v : /\ CashNeed(v, orders'[i]) = CashNeed(v, o)
             /\ StockNeed(v, orders'[i]) = StockNeed(v, o)
  BY <1>1, <1>3 DEF CashNeed, StockNeed, Refund, ShareOf, Unfilled
<1>6. \A v \in Users : CashNeed(v, o) \in Nat /\ StockNeed(v, o) \in Nat
  BY <1>1, OrdersAre, NeedTypes
<1> HIDE DEF c, u, i, o
<1>7. \A v \in Users : /\ reserved'[v] = reserved[v] + (IF v = u THEN 0 ELSE 0)
                       /\ CashNeeds(v)' = CashNeeds(v) + (IF v = u THEN 0 ELSE 0)
                       /\ StockNeeds(v)' = StockNeeds(v) + (IF v = u THEN 0 ELSE 0)
  <2> TAKE v \in Users
  <2>1. /\ CashNeeds(v)' = CashNeeds(v) + (CashNeed(v, orders'[i]) - CashNeed(v, orders[i]))
        /\ StockNeeds(v)' = StockNeeds(v) + (StockNeed(v, orders'[i]) - StockNeed(v, orders[i]))
    BY <1>1, ChangedSums
  <2> QED
    BY <1>4, <1>5, <1>6, <2>1, SumTypes, ReservedType DEF o
<1>8. \A v \in Users : cash'[v] = IF v = u THEN Unsigned(cash[v] + 0) ELSE cash[v]
  <2> TAKE v \in Users
  <2>1. cash[v] \in Nat /\ cash[v] < Word /\ cash[v] + 0 = cash[v]
    BY ReservedType, WordAssumption DEF Unsigneds
  <2>2. Unsigned(cash[v]) = cash[v]
    BY <2>1, UnsignedFits
  <2> QED
    BY <1>4, <2>1, <2>2
<1>9. LedgerAgrees' /\ ReservesCover'
  BY <1>1, <1>2, <1>4, <1>7, <1>8, ReservesStay DEF ReservesInv
<1>10. DepositsWhole'
  BY <1>1, <1>3, <1>4, BackedKept DEF ReservesInv, o
<1>11. ReservesBounded(m)'
  <2>1. orders' \in Seq(Order) /\ \A v \in Users : reserved'[v] <= reserved[v] /\ reserved'[v] \in Nat
    BY <1>4, ReservedType DEF TInv
  <2> QED
    BY <1>1, <1>4, <2>1, BoundedKept DEF ReservesInv
<1> QED
  BY <1>9, <1>10, <1>11 DEF ReservesInv

\* An order is closed: it needs nothing any more.
LEMMA ClosedNeeds ==
  ASSUME TInv, TInv', NEW i \in DOMAIN orders, orders' = [orders EXCEPT ![i].open = FALSE],
         orders[i].open, NEW v
  PROVE  /\ CashNeeds(v)' = CashNeeds(v)
              - (IF v = orders[i].user /\ orders[i].side = "bid" THEN Refund(orders[i]) ELSE 0)
         /\ StockNeeds(v)' = StockNeeds(v)
              - (IF v = orders[i].user /\ orders[i].side = "ask" THEN Unfilled(orders[i]) ELSE 0)
<1>1. /\ DOMAIN orders' = DOMAIN orders /\ ~orders'[i].open
      /\ \A j \in DOMAIN orders \ {i} : orders'[j] = orders[j]
  BY ClosesOrder
<1>2. CashNeed(v, orders'[i]) = 0 /\ StockNeed(v, orders'[i]) = 0
  BY <1>1 DEF CashNeed, StockNeed
<1>3. /\ CashNeed(v, orders[i]) = IF v = orders[i].user /\ orders[i].side = "bid"
                                  THEN Refund(orders[i]) ELSE 0
      /\ StockNeed(v, orders[i]) = IF v = orders[i].user /\ orders[i].side = "ask"
                                   THEN Unfilled(orders[i]) ELSE 0
  BY DEF CashNeed, StockNeed
<1>4. /\ CashNeeds(v)' = CashNeeds(v) + (CashNeed(v, orders'[i]) - CashNeed(v, orders[i]))
      /\ StockNeeds(v)' = StockNeeds(v) + (StockNeed(v, orders'[i]) - StockNeed(v, orders[i]))
  BY <1>1, ChangedSums
<1>5. CashNeed(v, orders[i]) \in Nat /\ StockNeed(v, orders[i]) \in Nat
  BY OrdersAre, NeedTypes
<1> QED
  BY <1>2, <1>3, <1>4, <1>5, SumTypes

LEMMA ClosedDeposits ==
  ASSUME TInv, TInv', DepositsWhole, NEW i \in DOMAIN orders,
         orders' = [orders EXCEPT ![i].open = FALSE], UNCHANGED updating
  PROVE  DepositsWhole'
<1> DEFINE p == [orders[i] EXCEPT !.open = FALSE]
<1>1. Changed(i, p)
  BY ClosedOrder
<1>2. orders' = [orders EXCEPT ![i] = p]
  OBVIOUS
<1> HIDE DEF p
<1>3. /\ DOMAIN orders' = DOMAIN orders /\ orders'[i] = p
      /\ \A j \in DOMAIN orders \ {i} : orders'[j] = orders[j]
  BY <1>1, <1>2, ChangedOrders
<1> QED
  BY <1>1, <1>3, BackedKept DEF Changed

LEMMA CancelAskReserves ==
  ASSUME TInv, TInv', NEW m \in Nat, ReservesInv(m), NEW i \in DOMAIN orders, CancelAsk(i)
  PROVE  ReservesInv(m)'
<1> DEFINE n == Unfilled(orders[i])
           minus == -n
           u == orders[i].user
<1>1. n \in Nat /\ Entered(u, 0, 0, n, minus, 0)
  BY CancelAskRows
<1>2. n \in Int /\ minus \in Int /\ 0 \in Int
  BY <1>1
<1>3. /\ orders' = [orders EXCEPT ![i].open = FALSE] /\ orders[i].open /\ orders[i].side = "ask"
      /\ UNCHANGED <<cash, reserved, updating, faults>>
  BY DEF CancelAsk
<1>4. \A v : /\ CashNeeds(v)' = CashNeeds(v) - 0
             /\ StockNeeds(v)' = StockNeeds(v) - (IF v = u THEN n ELSE 0)
  BY <1>3, ClosedNeeds
<1>m. minus = -n
  OBVIOUS
<1> HIDE DEF n, minus, u
<1>5. \A v \in Users : /\ reserved'[v] = reserved[v] + (IF v = u THEN 0 ELSE 0)
                       /\ CashNeeds(v)' = CashNeeds(v) + (IF v = u THEN 0 ELSE 0)
                       /\ StockNeeds(v)' = StockNeeds(v) + (IF v = u THEN minus ELSE 0)
  BY <1>1, <1>3, <1>4, <1>m, SumTypes, ReservedType
<1>6. \A v \in Users : cash'[v] = IF v = u THEN Unsigned(cash[v] + 0) ELSE cash[v]
  <2> TAKE v \in Users
  <2>1. cash[v] \in Nat /\ cash[v] < Word /\ cash[v] + 0 = cash[v]
    BY ReservedType, WordAssumption DEF Unsigneds
  <2>2. Unsigned(cash[v]) = cash[v]
    BY <2>1, UnsignedFits
  <2> QED
    BY <1>3, <2>1, <2>2
<1>7. LedgerAgrees' /\ ReservesCover'
  BY <1>1, <1>2, <1>3, <1>5, <1>6, ReservesStay DEF ReservesInv
<1>8. DepositsWhole'
  BY <1>3, ClosedDeposits DEF ReservesInv
<1>9. ReservesBounded(m)'
  <2>1. orders' \in Seq(Order) /\ \A v \in Users : reserved'[v] <= reserved[v] /\ reserved'[v] \in Nat
    BY <1>3, ReservedType DEF TInv
  <2>2. DOMAIN orders' = DOMAIN orders
    BY <1>3, ClosesOrder
  <2> QED
    BY <1>3, <2>1, <2>2, BoundedKept DEF ReservesInv
<1> QED
  BY <1>7, <1>8, <1>9 DEF ReservesInv

\* No order needs more than its user has reserved.
LEMMA NeedCovered ==
  ASSUME TInv, ReservesCover, NEW i \in DOMAIN orders, orders[i].open, orders[i].side = "bid"
  PROVE  Refund(orders[i]) \in Nat /\ Refund(orders[i]) <= reserved[orders[i].user]
<1> DEFINE u == orders[i].user
           f == [j \in DOMAIN orders |-> CashNeed(u, orders[j])]
<1>1. u \in Users /\ Refund(orders[i]) \in Nat
  BY OrdersAre, OrderType, RefundType DEF Refund
<1>2. f[i] = Refund(orders[i])
  BY DEF CashNeed
<1>3. f \in [DOMAIN orders -> Nat] /\ CashNeeds(u) = SumFunction(f) /\ IsFiniteSet(DOMAIN orders)
  BY SumTypes, OrdersAre DEF CashNeeds
<1> HIDE DEF f
<1>4. f[i] <= CashNeeds(u) /\ CashNeeds(u) \in Nat
  BY <1>3, SumCovers
<1>5. CashNeeds(u) <= reserved[u] /\ reserved[u] \in Nat
  BY <1>1, ReservedType DEF ReservesCover
<1> QED
  BY <1>1, <1>2, <1>4, <1>5

LEMMA CloseBidReserves ==
  ASSUME TInv, TInv', NEW m \in Nat, ReservesInv(m), NEW i \in DOMAIN orders,
         orders[i].open, orders[i].side = "bid", CloseBid(i)
  PROVE  ReservesInv(m)'
<1> DEFINE n == Refund(orders[i])
           minus == -n
           u == orders[i].user
<1>1. n \in Nat /\ Entered(u, n, minus, 0, 0, 0)
  BY CloseBidRows
<1>2. n \in Int /\ minus \in Int /\ 0 \in Int /\ u \in Users
  BY <1>1 DEF Entered
<1>3. /\ orders' = [orders EXCEPT ![i].open = FALSE]
      /\ cash' = [cash EXCEPT ![u] = Unsigned(@ + n)]
      /\ reserved' = [reserved EXCEPT ![u] = Unsigned(@ - n)]
      /\ UNCHANGED <<updating, faults>>
  BY DEF CloseBid
<1>4. \A v : /\ CashNeeds(v)' = CashNeeds(v) - (IF v = u THEN n ELSE 0)
             /\ StockNeeds(v)' = StockNeeds(v) - 0
  BY <1>3, ClosedNeeds
<1>5. n <= reserved[u]
  BY NeedCovered DEF ReservesInv
<1>m. minus = -n
  OBVIOUS
<1> HIDE DEF n, minus, u
<1>6. \A v \in Users : reserved'[v] = reserved[v] + (IF v = u THEN minus ELSE 0)
  <2>1. reserved[u] - n \in Nat /\ reserved[u] - n < Word
    <3>1. reserved[u] \in Nat
      BY <1>2, ReservedType
    <3>2. reserved[u] < Word
      BY <1>2, WordAssumption DEF TInv, Unsigneds
    <3> QED
      BY <1>1, <1>5, <3>1, <3>2, WordAssumption
  <2>2. Unsigned(reserved[u] - n) = reserved[u] - n
    BY <2>1, UnsignedFits
  <2>3. \A v \in Users : reserved'[v] = IF v = u THEN Unsigned(reserved[u] - n) ELSE reserved[v]
    BY <1>3 DEF TInv
  <2> QED
    BY <1>1, <1>m, <2>2, <2>3, ReservedType
<1>7. \A v \in Users : /\ CashNeeds(v)' = CashNeeds(v) + (IF v = u THEN minus ELSE 0)
                       /\ StockNeeds(v)' = StockNeeds(v) + (IF v = u THEN 0 ELSE 0)
  BY <1>1, <1>4, <1>m, SumTypes
<1>8. \A v \in Users : cash'[v] = IF v = u THEN Unsigned(cash[v] + n) ELSE cash[v]
  BY <1>3 DEF TInv
<1>9. LedgerAgrees' /\ ReservesCover'
  BY <1>1, <1>2, <1>3, <1>6, <1>7, <1>8, ReservesStay DEF ReservesInv
<1>10. DepositsWhole'
  BY <1>3, ClosedDeposits DEF ReservesInv
<1>11. ReservesBounded(m)'
  <2>1. orders' \in Seq(Order) /\ \A v \in Users : reserved'[v] <= reserved[v] /\ reserved'[v] \in Nat
    <3>1. orders' \in Seq(Order) /\ \A v \in Users : reserved'[v] \in Unsigneds
      BY DEF TInv
    <3>2. \A v \in Users : reserved'[v] \in Nat
      BY <3>1, WordAssumption DEF Unsigneds
    <3> QED
      BY <1>1, <1>6, <1>m, <3>1, <3>2, ReservedType
  <2>2. DOMAIN orders' = DOMAIN orders
    BY <1>3, ClosesOrder
  <2> QED
    BY <1>3, <2>1, <2>2, BoundedKept DEF ReservesInv
<1> QED
  BY <1>9, <1>10, <1>11 DEF ReservesInv

LEMMA CancelFailsReserves ==
  ASSUME TInv, TInv', NEW m \in Nat, ReservesInv(m), NEW i \in DOMAIN orders, CancelFails(i)
  PROVE  ReservesInv(m)'
<1>1. /\ orders' = [orders EXCEPT ![i].open = FALSE] /\ orders[i].open
      /\ UNCHANGED <<cash, reserved, ledger, updating>>
  BY DEF CancelFails
<1>2. LedgerAgrees'
  BY <1>1 DEF ReservesInv, LedgerAgrees
<1>3. Refund(orders[i]) \in Nat
  BY OrdersAre, RefundType DEF Refund
<1>4. \A v : /\ CashNeeds(v)' = CashNeeds(v)
                   - (IF v = orders[i].user /\ orders[i].side = "bid" THEN Refund(orders[i]) ELSE 0)
             /\ StockNeeds(v)' = StockNeeds(v)
                   - (IF v = orders[i].user /\ orders[i].side = "ask"
                      THEN Unfilled(orders[i]) ELSE 0)
  BY <1>1, ClosedNeeds
<1>5. \A v \in Users : CashNeeds(v)' <= reserved'[v]
  <2> DEFINE r == Refund(orders[i])
  <2> HIDE DEF r
  <2>1. \A v \in Users : CashNeeds(v)' <= CashNeeds(v) /\ CashNeeds(v)' \in Int
    BY <1>3, <1>4, SumTypes DEF r
  <2>2. \A v \in Users : CashNeeds(v) <= reserved[v] /\ CashNeeds(v) \in Int /\ reserved[v] \in Int
    BY SumTypes, ReservedType DEF ReservesInv, ReservesCover
  <2> QED
    BY <1>1, <2>1, <2>2
<1>6. faults' = 0 => ReservesMatch'
  <2>1. CASE Fault
    BY <2>1, FaultStep
  <2>2. CASE orders[i].side = "bid" /\ ~orders[i].saved /\ UNCHANGED faults
    <3>1. orders[i].deposit = 0
      BY <2>2 DEF ReservesInv, DepositsWhole, Backed
    <3>2. Refund(orders[i]) = 0
      <4> DEFINE q == orders[i].qty
                 n == Unfilled(orders[i])
      <4>1. q \in Nat \ {0} /\ n \in Nat
        BY OrdersAre, OrderType
      <4>2. Refund(orders[i]) = (0 * n) \div q
        BY <3>1 DEF Refund, ShareOf
      <4> HIDE DEF q, n
      <4>3. 0 * n = q * 0
        BY <4>1
      <4>4. (q * 0) \div q = 0
        BY <4>1, DivExact
      <4> QED
        BY <4>2, <4>3, <4>4
    <3>3. \A v \in Users : CashNeeds(v)' = CashNeeds(v) /\ StockNeeds(v)' = StockNeeds(v)
      BY <1>4, <2>2, <3>2, SumTypes
    <3> QED
      BY <1>1, <2>2, <3>3 DEF ReservesInv, ReservesCover, ReservesMatch
  <2> QED
    BY <2>1, <2>2 DEF CancelFails
<1>7. ReservesCover'
  BY <1>5, <1>6 DEF ReservesCover
<1>8. DepositsWhole'
  BY <1>1, ClosedDeposits DEF ReservesInv
<1>9. ReservesBounded(m)'
  <2>1. orders' \in Seq(Order) /\ \A v \in Users : reserved'[v] <= reserved[v] /\ reserved'[v] \in Nat
    BY <1>1, ReservedType DEF TInv
  <2>2. DOMAIN orders' = DOMAIN orders
    BY <1>1, ClosesOrder
  <2> QED
    BY <1>1, <2>1, <2>2, BoundedKept DEF ReservesInv
<1> QED
  BY <1>2, <1>7, <1>8, <1>9 DEF ReservesInv

\* The two needs of a trade.
LEMMA TradedNeeds ==
  ASSUME TInv, TInv', DepositsWhole,
         NEW a \in DOMAIN orders, NEW b \in DOMAIN orders, MayFill(a, b),
         NEW n, n = FillQty(a, b), NEW p, NEW taxA, NEW taxB, Traded(a, b, n, p, taxA, taxB),
         NEW share, share = ShareOf(orders[b], n), NEW v
  PROVE  /\ share \in Nat /\ share <= Refund(orders[b])
         /\ CashNeeds(v)' = CashNeeds(v) - (IF v = orders[b].user THEN share ELSE 0)
         /\ StockNeeds(v)' = StockNeeds(v) - (IF v = orders[a].user THEN n ELSE 0)
<1> DEFINE x == orders[a]
           y == orders[b]
           xx == orders'[a]
           yy == orders'[b]
<1>1. /\ a # b /\ x.side = "ask" /\ y.side = "bid" /\ x.open /\ y.open
      /\ n \in Nat \ {0} /\ n <= Unfilled(x) /\ n <= Unfilled(y)
  BY FillParties
<1>2. /\ DOMAIN orders' = DOMAIN orders
      /\ xx = FillOrder(x, n) /\ yy = FillOrder(y, n)
      /\ \A i \in DOMAIN orders \ {a, b} : orders'[i] = orders[i]
  BY TradedOrders
<1>3. /\ Changed(a, xx) /\ Unfilled(xx) = Unfilled(x) - n /\ (xx.open <=> n # Unfilled(x))
      /\ Changed(b, yy) /\ Unfilled(yy) = Unfilled(y) - n /\ (yy.open <=> n # Unfilled(y))
  BY <1>1, <1>2, FilledOrder
<1>4. /\ xx.user = x.user /\ xx.side = x.side /\ yy.user = y.user /\ yy.side = y.side
      /\ yy.qty = y.qty /\ yy.deposit = y.deposit /\ yy \in Order
  BY <1>3 DEF Changed
<1>5. /\ x \in Order /\ y \in Order /\ Unfilled(x) \in Nat /\ Unfilled(y) \in Nat
      /\ Backed(y)
  BY OrdersAre DEF DepositsWhole
<1>6. /\ Refund(yy) = Refund(y) - share /\ share \in Nat /\ Refund(y) \in Nat
      /\ Refund(yy) \in Nat /\ (Unfilled(yy) = 0 => Refund(yy) = 0)
  BY <1>1, <1>3, <1>4, <1>5, ShareLeaves
<1>7. /\ CashNeeds(v)' = CashNeeds(v) + (CashNeed(v, xx) - CashNeed(v, x))
                                      + (CashNeed(v, yy) - CashNeed(v, y))
      /\ StockNeeds(v)' = StockNeeds(v) + (StockNeed(v, xx) - StockNeed(v, x))
                                        + (StockNeed(v, yy) - StockNeed(v, y))
  BY <1>1, <1>2, TradedSums
<1> HIDE DEF x, y, xx, yy
<1>8. CashNeed(v, xx) = 0 /\ CashNeed(v, x) = 0 /\ StockNeed(v, yy) = 0 /\ StockNeed(v, y) = 0
  BY <1>1, <1>4 DEF CashNeed, StockNeed
<1>9. /\ CashNeed(v, y) = IF v = y.user THEN Refund(y) ELSE 0
      /\ CashNeed(v, yy) = IF v = y.user THEN Refund(y) - share ELSE 0
  <2>1. ~yy.open => Refund(yy) = 0
    BY <1>1, <1>3, <1>5, <1>6
  <2> QED
    BY <1>1, <1>4, <1>6, <2>1 DEF CashNeed
<1>10. /\ StockNeed(v, x) = IF v = x.user THEN Unfilled(x) ELSE 0
       /\ StockNeed(v, xx) = IF v = x.user THEN Unfilled(x) - n ELSE 0
  BY <1>1, <1>3, <1>4, <1>5 DEF StockNeed
<1>11. CashNeeds(v) \in Nat /\ StockNeeds(v) \in Nat
  BY SumTypes
<1>12. /\ CashNeeds(v)' = CashNeeds(v) - (IF v = y.user THEN share ELSE 0)
       /\ StockNeeds(v)' = StockNeeds(v) - (IF v = x.user THEN n ELSE 0)
  BY <1>1, <1>5, <1>6, <1>7, <1>8, <1>9, <1>10, <1>11
<1>13. share <= Refund(y)
  BY <1>6
<1> QED
  BY <1>6, <1>12, <1>13 DEF x, y

\* What a step leaves true of one user, to whom it gives a in cash, b in reserved cash and
\* d in reserved stocks.
LEMMA UserStays ==
  ASSUME TInv, LedgerAgrees, ReservesCover, faults' = faults,
         NEW v \in Users, NEW a \in Int, NEW b \in Int, NEW d \in Int,
         cash'[v] = Unsigned(cash[v] + a), ledger'[v].total = ledger[v].total + a,
         reserved'[v] = reserved[v] + b, ledger'[v].reservedCash = ledger[v].reservedCash + b,
         ledger'[v].reservedStocks = ledger[v].reservedStocks + d,
         CashNeeds(v)' = CashNeeds(v) + b, StockNeeds(v)' = StockNeeds(v) + d
  PROVE  /\ cash'[v] = Unsigned(StartCash + ledger'[v].total)
         /\ reserved'[v] = ledger'[v].reservedCash
         /\ CashNeeds(v)' <= reserved'[v]
         /\ faults = 0 => /\ reserved'[v] = CashNeeds(v)'
                          /\ ledger'[v].reservedStocks = StockNeeds(v)'
<1>1. /\ cash[v] = Unsigned(StartCash + ledger[v].total) /\ reserved[v] = ledger[v].reservedCash
      /\ CashNeeds(v) <= reserved[v]
      /\ faults = 0 => reserved[v] = CashNeeds(v) /\ ledger[v].reservedStocks = StockNeeds(v)
  BY DEF LedgerAgrees, ReservesCover, ReservesMatch
<1>2. /\ cash[v] \in Unsigneds /\ reserved[v] \in Nat /\ StartCash \in Int
      /\ CashNeeds(v) \in Nat /\ StockNeeds(v) \in Nat
  BY ReservedType, SumTypes, StartAssumption
<1>3. ledger[v].total \in Int
  <2>1. ledger[v] \in LedgerRow
    BY DEF TInv
  <2> QED
    BY <2>1 DEF LedgerRow
<1>4. cash'[v] = Unsigned(StartCash + ledger'[v].total)
  <2> DEFINE x == cash[v]
             y == ledger[v].total
  <2>1. x \in Unsigneds /\ y \in Int /\ x = Unsigned(StartCash + y) /\ StartCash \in Int
    BY <1>1, <1>2, <1>3
  <2>2. cash'[v] = Unsigned(x + a) /\ ledger'[v].total = y + a
    OBVIOUS
  <2> HIDE DEF x, y
  <2> QED
    BY <2>1, <2>2, BalanceFollows
<1> QED
  BY <1>1, <1>2, <1>4

LEMMA FillReserves ==
  ASSUME TInv, TInv', NEW m \in Nat, ReservesInv(m),
         NEW a \in DOMAIN orders, NEW b \in DOMAIN orders, Fill(a, b)
  PROVE  ReservesInv(m)'
<1>1. PICK n, p, taxA, taxB : n = FillQty(a, b) /\ Traded(a, b, n, p, taxA, taxB)
  BY FillIsTrade
<1>2. MayFill(a, b)
  BY FillIsTrade
<1>3. PICK s, u, share : s = orders[a].user /\ u = orders[b].user /\ share = ShareOf(orders[b], n)
  OBVIOUS
<1>4. /\ s \in Users /\ u \in Users /\ s # u /\ n \in Nat \ {0} /\ share \in Nat
      /\ p \in Nat /\ taxA \in Nat /\ taxB \in Nat
  BY <1>1, <1>2, <1>3, FillParties DEF Traded
<1>5. /\ CashLeft(b, n, p) = Signed(cash[u]) - n * p + share
      /\ cash' = [cash EXCEPT ![s] = Unsigned(@ + n * p - taxA),
                              ![u] = Unsigned(CashLeft(b, n, p) - taxB)]
      /\ reserved' = [reserved EXCEPT ![u] = IF @ > share THEN @ - share ELSE 0]
      /\ UNCHANGED <<updating, faults>>
      /\ TradeEntered(ledger, ledger', s, u, n, p, share, taxA, taxB)
  BY <1>1, <1>3 DEF Traded, CashLeft
<1>6. \A v : /\ share <= Refund(orders[b])
             /\ CashNeeds(v)' = CashNeeds(v) - (IF v = u THEN share ELSE 0)
             /\ StockNeeds(v)' = StockNeeds(v) - (IF v = s THEN n ELSE 0)
  BY <1>1, <1>2, <1>3, TradedNeeds DEF ReservesInv
<1>7. PICK gain \in Nat : gain = n * p
  BY <1>4, Products
<1>8. PICK x, y, z : x = gain - taxA /\ y = share - gain - taxB /\ z = -share
  OBVIOUS
<1>9. x \in Int /\ y \in Int /\ z \in Int /\ -n \in Int /\ 0 \in Int
  BY <1>4, <1>7, <1>8
<1>10. /\ ledger'[s] = Row(ledger[s], n * p - taxA, 0, 0, -n, taxA)
       /\ ledger'[u] = Row(ledger[u], share - n * p - taxB, -share, n, 0, taxB)
       /\ \A v \in Users \ {s, u} : ledger'[v] = ledger[v]
  BY <1>5 DEF TradeEntered
<1>11. share <= reserved[u] /\ reserved[u] \in Nat
  <2>1. Refund(orders[b]) \in Nat /\ Refund(orders[b]) <= reserved[u]
    BY <1>2, <1>3, FillParties, NeedCovered DEF ReservesInv
  <2> QED
    BY <1>4, <1>6, <2>1, ReservedType
<1>12. \A v \in Users : reserved'[v] = reserved[v] + (IF v = u THEN z ELSE 0)
  <2>1. (IF reserved[u] > share THEN reserved[u] - share ELSE 0) = reserved[u] - share
    BY <1>4, <1>11
  <2>2. \A v \in Users : reserved'[v] = IF v = u THEN reserved[u] - share ELSE reserved[v]
    BY <1>4, <1>5, <2>1 DEF TInv
  <2> QED
    BY <1>4, <1>8, <2>2, ReservedType
<1>13. \A v \in Users : /\ CashNeeds(v)' = CashNeeds(v) + (IF v = u THEN z ELSE 0)
                        /\ StockNeeds(v)' = StockNeeds(v) + (IF v = s THEN -n ELSE 0)
  BY <1>4, <1>6, <1>8, SumTypes
<1>14. cash'[s] = Unsigned(cash[s] + x)
  <2>1. cash'[s] = Unsigned(cash[s] + n * p - taxA)
    BY <1>4, <1>5 DEF TInv
  <2>2. cash[s] + n * p - taxA = cash[s] + x
    BY <1>4, <1>7, <1>8, ReservedType
  <2> QED
    BY <2>1, <2>2
<1>15. cash'[u] = Unsigned(cash[u] + y)
  <2>1. cash'[u] = Unsigned(CashLeft(b, n, p) - taxB)
    BY <1>4, <1>5 DEF TInv
  <2>2. cash[u] \in Unsigneds
    BY <1>4, ReservedType
  <2>3. Signed(cash[u]) \in Int /\ Unsigned(Signed(cash[u]) + y) = Unsigned(cash[u] + y)
    BY <1>9, <2>2, SignedAgrees
  <2>4. CashLeft(b, n, p) - taxB = Signed(cash[u]) + y
    BY <1>4, <1>5, <1>7, <1>8, <2>3
  <2> QED
    BY <2>1, <2>3, <2>4
<1>16. ASSUME NEW v \in Users
       PROVE  /\ cash'[v] = Unsigned(StartCash + ledger'[v].total)
              /\ reserved'[v] = ledger'[v].reservedCash
              /\ CashNeeds(v)' <= reserved'[v]
              /\ faults = 0 => /\ reserved'[v] = CashNeeds(v)'
                               /\ ledger'[v].reservedStocks = StockNeeds(v)'
  <2>1. CASE v = s
    <3>1. /\ ledger'[v].total = ledger[v].total + x
          /\ ledger'[v].reservedCash = ledger[v].reservedCash + 0
          /\ ledger'[v].reservedStocks = ledger[v].reservedStocks + -n
      BY <1>7, <1>8, <1>10, <2>1 DEF Row
    <3>2. /\ reserved'[v] = reserved[v] + 0 /\ CashNeeds(v)' = CashNeeds(v) + 0
          /\ StockNeeds(v)' = StockNeeds(v) + -n
      BY <1>4, <1>12, <1>13, <2>1
    <3>3. cash'[v] = Unsigned(cash[v] + x) /\ faults' = faults
      BY <1>5, <1>14, <2>1
    <3> QED
      BY <1>9, <3>1, <3>2, <3>3, UserStays DEF ReservesInv
  <2>2. CASE v = u
    <3>1. /\ ledger'[v].total = ledger[v].total + y
          /\ ledger'[v].reservedCash = ledger[v].reservedCash + z
          /\ ledger'[v].reservedStocks = ledger[v].reservedStocks + 0
      BY <1>7, <1>8, <1>10, <2>2 DEF Row
    <3>2. /\ reserved'[v] = reserved[v] + z /\ CashNeeds(v)' = CashNeeds(v) + z
          /\ StockNeeds(v)' = StockNeeds(v) + 0
      BY <1>4, <1>12, <1>13, <2>2
    <3>3. cash'[v] = Unsigned(cash[v] + y) /\ faults' = faults
      BY <1>5, <1>15, <2>2
    <3> QED
      BY <1>9, <3>1, <3>2, <3>3, UserStays DEF ReservesInv
  <2>3. CASE v \notin {s, u}
    <3>1. ledger'[v] = ledger[v]
      BY <1>10, <2>3
    <3>2. reserved'[v] = reserved[v] /\ CashNeeds(v)' = CashNeeds(v) /\ StockNeeds(v)' = StockNeeds(v)
      BY <1>12, <1>13, <2>3, ReservedType, SumTypes
    <3>3. cash'[v] = cash[v]
      BY <1>4, <1>5, <2>3 DEF TInv
    <3> QED
      BY <3>1, <3>2, <3>3 DEF ReservesInv, LedgerAgrees, ReservesCover, ReservesMatch
  <2> QED
    BY <2>1, <2>2, <2>3
<1>17. LedgerAgrees' /\ ReservesCover'
  BY <1>5, <1>16 DEF LedgerAgrees, ReservesCover, ReservesMatch
<1>18. /\ DOMAIN orders' = DOMAIN orders
       /\ \A i \in DOMAIN orders : /\ orders'[i].deposit = orders[i].deposit
                                   /\ orders'[i].qty = orders[i].qty
                                   /\ orders'[i].saved = orders[i].saved
  <2>1. /\ DOMAIN orders' = DOMAIN orders
        /\ orders'[a] = FillOrder(orders[a], n) /\ orders'[b] = FillOrder(orders[b], n)
        /\ \A i \in DOMAIN orders \ {a, b} : orders'[i] = orders[i]
    BY <1>1, <1>2, TradedOrders
  <2>2. Changed(a, orders'[a]) /\ Changed(b, orders'[b])
    BY <1>1, <1>2, <2>1, FillParties, FilledOrder
  <2> QED
    BY <2>1, <2>2 DEF Changed
<1>19. DepositsWhole'
  BY <1>5, <1>18, BackedKept DEF ReservesInv
<1>20. ReservesBounded(m)'
  <2>1. orders' \in Seq(Order) /\ \A v \in Users : reserved'[v] <= reserved[v] /\ reserved'[v] \in Nat
    <3>1. orders' \in Seq(Order) /\ \A v \in Users : reserved'[v] \in Unsigneds
      BY DEF TInv
    <3>2. \A v \in Users : reserved'[v] \in Nat
      BY <3>1, WordAssumption DEF Unsigneds
    <3> QED
      BY <1>4, <1>8, <1>12, <3>1, <3>2, ReservedType
  <2> QED
    BY <1>5, <1>18, <2>1, BoundedKept DEF ReservesInv
<1> QED
  BY <1>17, <1>19, <1>20 DEF ReservesInv

\* The steps that change none of the orders.
LEMMA OrdersSameReserves ==
  ASSUME TInv, TInv', NEW m \in Nat, ReservesInv(m), UNCHANGED <<orders, reserved, updating>>,
         LedgerAgrees', ReservesCover'
  PROVE  ReservesInv(m)'
<1>1. DepositsWhole'
  BY BackedKept DEF ReservesInv
<1>2. ReservesBounded(m)'
  BY BoundedKept, ReservedType DEF ReservesInv, TInv
<1> QED
  BY <1>1, <1>2 DEF ReservesInv

LEMMA PurchaseReserves ==
  ASSUME TInv, TInv', NEW m \in Nat, ReservesInv(m), NEW u \in Users, NEW n, NEW tax,
         Purchased(u, n, tax)
  PROVE  ReservesInv(m)'
<1> DEFINE total == -price * n - tax
<1>1. n \in Nat \ {0} /\ tax \in Nat /\ Entered(u, total, 0, n, 0, tax)
  BY DEF Purchased
<1>2. PICK cost \in Nat : cost = price * n
  <2>1. price \in Nat
    BY PricesAssumption DEF TInv
  <2> QED
    BY <1>1, <2>1, Products
<1>3. total = -cost - tax /\ total \in Int /\ 0 \in Int /\ n \in Int /\ tax \in Int
  <2>1. price \in Nat
    BY PricesAssumption DEF TInv
  <2>2. total = -(price * n) - tax
    BY <1>1, <2>1
  <2> HIDE DEF total
  <2> QED
    BY <1>1, <1>2, <2>2
<1>4. /\ cash' = [cash EXCEPT ![u] = Unsigned(@ - price * n - tax)]
      /\ UNCHANGED <<orders, reserved, updating, faults>>
  BY DEF Purchased
<1> HIDE DEF total
<1>5. \A v \in Users : cash'[v] = IF v = u THEN Unsigned(cash[v] + total) ELSE cash[v]
  <2>1. cash[u] - price * n - tax = cash[u] + total
    BY <1>1, <1>2, <1>3, ReservedType
  <2> QED
    BY <1>4, <2>1 DEF TInv
<1>6. \A v \in Users : /\ reserved'[v] = reserved[v] + (IF v = u THEN 0 ELSE 0)
                       /\ CashNeeds(v)' = CashNeeds(v) + (IF v = u THEN 0 ELSE 0)
                       /\ StockNeeds(v)' = StockNeeds(v) + (IF v = u THEN 0 ELSE 0)
  BY <1>4, SumsKept, SumTypes, ReservedType
<1>7. LedgerAgrees' /\ ReservesCover'
  BY <1>1, <1>3, <1>4, <1>5, <1>6, ReservesStay DEF ReservesInv
<1> QED
  BY <1>4, <1>7, OrdersSameReserves

LEMMA MortgageReserves ==
  ASSUME TInv, TInv', NEW m \in Nat, ReservesInv(m), NEW u \in Users, NEW n, NEW p, NEW total,
         Mortgaged(u, n, p, total)
  PROVE  ReservesInv(m)'
<1> DEFINE minus == -n
<1>1. /\ n \in Int /\ minus \in Int /\ total \in Int /\ 0 \in Int
      /\ Entered(u, total, 0, minus, 0, 0)
  BY DEF Mortgaged
<1>2. /\ cash' = [cash EXCEPT ![u] = Unsigned(@ + total)]
      /\ UNCHANGED <<orders, reserved, updating, faults>>
  BY DEF Mortgaged
<1> HIDE DEF minus
<1>3. \A v \in Users : cash'[v] = IF v = u THEN Unsigned(cash[v] + total) ELSE cash[v]
  BY <1>2 DEF TInv
<1>4. \A v \in Users : /\ reserved'[v] = reserved[v] + (IF v = u THEN 0 ELSE 0)
                       /\ CashNeeds(v)' = CashNeeds(v) + (IF v = u THEN 0 ELSE 0)
                       /\ StockNeeds(v)' = StockNeeds(v) + (IF v = u THEN 0 ELSE 0)
  BY <1>2, SumsKept, SumTypes, ReservedType
<1>5. LedgerAgrees' /\ ReservesCover'
  BY <1>1, <1>2, <1>3, <1>4, ReservesStay DEF ReservesInv
<1> QED
  BY <1>2, <1>5, OrdersSameReserves

\* Nothing but the pending updates changes, by one that is backed.
LEMMA UpdatingReserves ==
  ASSUME TInv, TInv', NEW m \in Nat, ReservesInv(m),
         UNCHANGED <<orders, cash, reserved, ledger, faults>>,
         NEW x, updating' \subseteq updating \cup {x}, x.what = "lend" => Backed(x.order)
  PROVE  ReservesInv(m)'
<1>1. LedgerAgrees' /\ ReservesCover'
  BY SumsKept DEF ReservesInv, LedgerAgrees, ReservesCover, ReservesMatch
<1>2. DepositsWhole'
  BY DEF ReservesInv, DepositsWhole, Backed
<1>3. ReservesBounded(m)'
  <2>1. IsFiniteSet(updating \cup {x})
    BY FS_AddElement DEF ReservesInv, ReservesBounded
  <2>2. IsFiniteSet(updating')
    BY <2>1, FS_Subset
  <2> QED
    BY <2>2 DEF ReservesInv, ReservesBounded
<1> QED
  BY <1>1, <1>2, <1>3 DEF ReservesInv

LEMMA StartReserves ==
  ASSUME TInv, TInv', NEW m \in Nat, ReservesInv(m),
         \/ \E t \in Tickets : StartLend(t)
         \/ \E i \in DOMAIN orders : StartReturn(i)
         \/ \E x \in updating : ReadBank(x)
  PROVE  ReservesInv(m)'
<1>1. ASSUME NEW t \in Tickets, StartLend(t)
      PROVE  ReservesInv(m)'
  <2> DEFINE o == NewOrder(t, 0, Short(t), TRUE)
             x == [what |-> "lend", order |-> o, fee |-> OrderFee(t), step |-> "read", seen |-> 0]
  <2>1. Backed(o)
    <3>1. t.qty * 0 = 0
      BY TicketType
    <3> QED
      BY <3>1, NewOrderBacked
  <2>2. updating' = updating \cup {x} /\ UNCHANGED <<orders, cash, reserved, ledger, faults>>
    BY <1>1 DEF StartLend
  <2> HIDE DEF o
  <2>3. x.order = o
    OBVIOUS
  <2> HIDE DEF x
  <2> QED
    BY <2>1, <2>2, <2>3, UpdatingReserves
<1>2. ASSUME NEW i \in DOMAIN orders, StartReturn(i)
      PROVE  ReservesInv(m)'
  <2> DEFINE x == [what |-> "return", order |-> i, fee |-> 0, step |-> "read", seen |-> 0]
  <2>1. updating' = updating \cup {x} /\ UNCHANGED <<orders, cash, reserved, ledger, faults>>
    BY <1>2 DEF StartReturn
  <2>2. x.what # "lend"
    OBVIOUS
  <2> HIDE DEF x
  <2> QED
    BY <2>1, <2>2, UpdatingReserves
<1>3. ASSUME NEW x \in updating, ReadBank(x)
      PROVE  ReservesInv(m)'
  <2> DEFINE y == [x EXCEPT !.step = "write", !.seen = bank]
  <2>1. updating' = (updating \ {x}) \cup {y} /\ UNCHANGED <<orders, cash, reserved, ledger, faults>>
    BY <1>3 DEF ReadBank
  <2>2. x \in Lends \/ x \in Returns
    BY DEF TInv
  <2>3. y.what = x.what /\ y.order = x.order
    BY <2>2 DEF Lends, Returns
  <2>4. x.what = "lend" => Backed(x.order)
    BY DEF ReservesInv, DepositsWhole
  <2> HIDE DEF y
  <2> QED
    BY <2>1, <2>3, <2>4, UpdatingReserves
<1> QED
  BY <1>1, <1>2, <1>3

LEMMA NextReserves ==
  ASSUME TInv, TInv', NEW m \in Nat, OrdersFit(m), ReservesInv(m), [Next]_vars
  PROVE  ReservesInv(m)'
<1>1. ASSUME NEW t \in Tickets, PlaceAsk(t) \/ PlaceBid(t) \/ PlaceFails(t) \/ StartLend(t)
      PROVE  ReservesInv(m)'
  BY <1>1, PlaceAskReserves, PlaceBidReserves, PlaceFailsReserves, StartReserves
<1>2. ASSUME NEW i \in DOMAIN orders,
             StartReturn(i) \/ CancelAsk(i) \/ CancelBid(i) \/ CancelFails(i)
      PROVE  ReservesInv(m)'
  BY <1>2, StartReserves, CancelAskReserves, CloseBidReserves, CancelFailsReserves DEF CancelBid
<1>3. ASSUME NEW x \in updating, ReadBank(x) \/ CommitLend(x) \/ CommitReturn(x)
      PROVE  ReservesInv(m)'
  BY <1>3, StartReserves, CommitLendReserves, CommitReturnReserves
<1>4. ASSUME NEW a \in DOMAIN orders, NEW b \in DOMAIN orders, Fill(a, b) \/ DropBid(a, b)
      PROVE  ReservesInv(m)'
  BY <1>4, FillReserves, CloseBidReserves DEF DropBid, MayFill
<1>5. ASSUME NEW u \in Users, NEW n \in Quantities,
             \/ BuyFromExchange(u, n)
             \/ Mortgage(u, n)
             \/ \E p \in Prices : Retrieve(u, n, p)
      PROVE  ReservesInv(m)'
  <2>1. n \in Nat
    BY DEF Quantities
  <2> QED
    BY <1>5, <2>1, PurchaseIs, PurchaseReserves, MortgageIsOne, RetrieveIsOne, MortgageReserves
<1>6. CASE UNCHANGED vars
  <2>1. UNCHANGED <<orders, cash, reserved, ledger, faults, updating>>
    BY <1>6 DEF vars
  <2>2. LedgerAgrees' /\ ReservesCover'
    BY <2>1, SumsKept DEF ReservesInv, LedgerAgrees, ReservesCover, ReservesMatch
  <2> QED
    BY <2>1, <2>2, OrdersSameReserves
<1> QED
  BY <1>1, <1>2, <1>3, <1>4, <1>5, <1>6 DEF Next

LEMMA InitReserves ==
  ASSUME Init, NEW m \in Nat
  PROVE  ReservesInv(m)
<1>1. DOMAIN orders = {} /\ Len(orders) = 0 /\ updating = {}
  BY DEF Init
<1>2. LedgerAgrees
  <2>1. StartCash \in Nat /\ StartCash < Word /\ StartCash + 0 = StartCash
    BY StartAssumption, WordAssumption
  <2>2. Unsigned(StartCash) = StartCash
    BY <2>1, UnsignedFits
  <2>3. \A u \in Users : /\ cash[u] = StartCash /\ ledger[u].total = 0
                         /\ reserved[u] = 0 /\ ledger[u].reservedCash = 0
    BY DEF Init
  <2> QED
    BY <2>1, <2>2, <2>3 DEF LedgerAgrees
<1>3. ReservesCover
  BY InitSums DEF Init, ReservesCover, ReservesMatch
<1>4. DepositsWhole
  BY <1>1 DEF DepositsWhole
<1>5. ReservesBounded(m)
  <2>1. Len(orders) * m = 0
    BY <1>1
  <2> QED
    BY <1>1, <2>1, FS_EmptySet DEF Init, ReservesBounded
<1> QED
  BY <1>2, <1>3, <1>4, <1>5 DEF ReservesInv

\* No behaviour reserves so much that ReservedCash wraps.
ReservesFit == \E m \in Nat : OrdersFit(m)

THEOREM ReservesInvariant ==
  ASSUME NEW m \in Nat, OrdersFit(m)
  PROVE  Spec => []ReservesInv(m)
<1>1. Init => ReservesInv(m)
  BY InitReserves
<1>2. TInv /\ TInv' /\ ReservesInv(m) /\ [Next]_vars => ReservesInv(m)'
  BY NextReserves
<1> QED
  BY <1>1, <1>2, TypesInvariant, PTL DEF Spec

\* What a user has is what his rows of Transactions add up to: every change of Cash and of
\* ReservedCash, on every path, also the failed ones, has its row, while no reserve wraps
\* around. models/User.go and OrderDepositTransaction.go.
THEOREM LedgerRight == ReservesFit => (Spec => []LedgerAgrees)
<1> SUFFICES ASSUME NEW m \in Nat, OrdersFit(m)
             PROVE  Spec => []LedgerAgrees
  BY DEF ReservesFit
<1>1. ReservesInv(m) => LedgerAgrees
  BY DEF ReservesInv
<1> QED
  BY <1>1, ReservesInvariant, PTL

\* What is reserved covers what the open bids still need, after every partial fill, better
\* price, refund and failed transaction, and is exactly that, and the reserved stocks what
\* the open asks need, while no transaction has failed.
THEOREM ReservesRight == ReservesFit => (Spec => []ReservesCover)
<1> SUFFICES ASSUME NEW m \in Nat, OrdersFit(m)
             PROVE  Spec => []ReservesCover
  BY DEF ReservesFit
<1>1. ReservesInv(m) => ReservesCover
  BY DEF ReservesInv
<1> QED
  BY <1>1, ReservesInvariant, PTL

------------------------------------------------------------------------------
(* StocksConserved *)

LentOut == SumFunction([i \in DOMAIN orders |-> orders[i].lent])
Holding(u) == StocksOf(u) + MortgagedBy(u)
Holdings == SumFunction([u \in Users |-> Holding(u)])

\* One transaction at a time updates ShortSellBank: what it read is still so when it
\* writes, and what it lends is there.
BankInv ==
  /\ IsFiniteSet(updating) /\ \A x, y \in updating : x = y
  /\ \A x \in updating : /\ x.step = "write" => x.seen = bank
                         /\ x.what = "lend" => x.order.lent <= bank
  /\ bank + LentOut = StartBank
  /\ exchange + bank + Holdings = StartExchange + StartBank

LEMMA LentOutType ==
  ASSUME TInv
  PROVE  /\ [i \in DOMAIN orders |-> orders[i].lent] \in [DOMAIN orders -> Nat]
         /\ LentOut \in Nat
         /\ \A i \in DOMAIN orders : orders[i].lent <= LentOut
<1> DEFINE f == [i \in DOMAIN orders |-> orders[i].lent]
<1>1. f \in [DOMAIN orders -> Nat] /\ IsFiniteSet(DOMAIN orders)
  BY OrdersAre, OrderType
<1>2. \A i \in DOMAIN orders : f[i] = orders[i].lent
  OBVIOUS
<1>3. LentOut = SumFunction(f)
  BY DEF LentOut
<1> HIDE DEF f
<1>4. SumFunction(f) \in Nat
  BY <1>1, FunctionSum, SumNat
<1>5. \A i \in DOMAIN orders : f[i] <= SumFunction(f)
  BY <1>1, SumCovers
<1> QED
  BY <1>1, <1>2, <1>3, <1>4, <1>5 DEF f

LEMMA LentOutAdded ==
  ASSUME TInv, NEW o, Added(o)
  PROVE  LentOut' = LentOut + o.lent /\ o.lent \in Nat
<1> DEFINE n == Len(orders)
           f == [i \in DOMAIN orders |-> orders[i].lent]
           g == [i \in DOMAIN orders' |-> orders'[i].lent]
<1>1. /\ n \in Nat /\ DOMAIN orders = 1 .. n /\ DOMAIN orders' = 1 .. n + 1
      /\ orders'[n + 1] = o /\ \A i \in 1 .. n : orders'[i] = orders[i]
      /\ orders' \in Seq(Order) /\ o \in Order
  BY AddedOrders, OrdersAre
<1>2. \A i \in 1 .. n + 1 : orders'[i].lent \in Nat
  <2>1. \A i \in 1 .. n + 1 : orders'[i] \in Order
    BY <1>1
  <2> QED
    BY <2>1, OrderType
<1>3. n + 1 \in 1 .. n + 1 /\ 1 .. n \subseteq 1 .. n + 1
  BY <1>1
<1>4. f \in [1 .. n -> Int] /\ g \in [1 .. n + 1 -> Int] /\ g[n + 1] = o.lent
  BY <1>1, <1>2, <1>3
<1>5. \A i \in 1 .. n : g[i] = f[i]
  BY <1>1, <1>3
<1>6. LentOut = SumFunction(f) /\ LentOut' = SumFunction(g)
  BY DEF LentOut
<1> HIDE DEF f, g, n
<1>7. SumFunction(g) = SumFunction(f) + g[n + 1]
  BY <1>1, <1>4, <1>5, SumAppended
<1> QED
  BY <1>1, <1>4, <1>6, <1>7, OrderType

LEMMA LentOutChanged ==
  ASSUME TInv, TInv', DOMAIN orders' = DOMAIN orders, NEW a \in DOMAIN orders,
         \A i \in DOMAIN orders \ {a} : orders'[i].lent = orders[i].lent
  PROVE  LentOut' = LentOut + (orders'[a].lent - orders[a].lent)
<1> DEFINE S == DOMAIN orders
           f == [i \in DOMAIN orders |-> orders[i].lent]
           g == [i \in DOMAIN orders' |-> orders'[i].lent]
<1>1. f \in [S -> Int] /\ IsFiniteSet(S)
  BY LentOutType, OrdersAre
<1>2. g \in [S -> Int]
  <2>1. \A i \in S : orders'[i] \in Order
    BY DEF TInv
  <2>2. \A i \in S : orders'[i].lent \in Nat
    BY <2>1, OrderType
  <2> QED
    BY <2>2
<1>3. \A i \in S \ {a} : g[i] = f[i]
  OBVIOUS
<1>4. f[a] = orders[a].lent /\ g[a] = orders'[a].lent
  OBVIOUS
<1>5. LentOut = SumFunction(f) /\ LentOut' = SumFunction(g)
  BY DEF LentOut
<1>6. a \in S
  OBVIOUS
<1> HIDE DEF f, g, S
<1>7. SumFunction(g) = SumFunction(f) + (g[a] - f[a])
  BY <1>1, <1>2, <1>3, <1>6, SumChanges
<1> QED
  BY <1>4, <1>5, <1>7

\* The holdings when one user's change.
LEMMA HoldingsChange ==
  ASSUME TInv, NEW u \in Users, NEW x \in Int,
         \A v \in Users : Holding(v)' = Holding(v) + (IF v = u THEN x ELSE 0)
  PROVE  Holdings \in Int /\ Holdings' = Holdings + x
<1> DEFINE f == [v \in Users |-> Holding(v)]
           g == [v \in Users |-> Holding(v)']
<1>1. \A v \in Users : Holding(v) \in Int
  BY PositionTypes DEF Holding
<1>2. f \in [Users -> Int] /\ g \in [Users -> Int]
  BY <1>1
<1>3. \A v \in Users \ {u} : g[v] = f[v]
  BY <1>1
<1>4. g[u] = f[u] + x /\ f[u] \in Int
  BY <1>1
<1>5. Holdings = SumFunction(f) /\ Holdings' = SumFunction(g)
  BY DEF Holdings
<1> HIDE DEF f, g
<1>6. SumFunction(f) \in Int /\ SumFunction(g) = SumFunction(f) + (g[u] - f[u])
  BY <1>2, <1>3, UsersAssumption, SumChanges
<1> QED
  BY <1>4, <1>5, <1>6

LEMMA HoldingsKept ==
  ASSUME TInv, \A v \in Users : Holding(v)' = Holding(v)
  PROVE  Holdings' = Holdings /\ Holdings \in Int
<1> DEFINE f == [v \in Users |-> Holding(v)]
           g == [v \in Users |-> Holding(v)']
<1>1. f = g
  OBVIOUS
<1>2. Holdings = SumFunction(f) /\ Holdings' = SumFunction(g)
  BY DEF Holdings
<1>3. f \in [Users -> Int]
  BY PositionTypes DEF Holding
<1> HIDE DEF f, g
<1>4. SumFunction(f) \in Int
  BY <1>3, UsersAssumption, FunctionSum, SumInt
<1> QED
  BY <1>1, <1>2, <1>4

\* What is entered for u, without a mortgage.
LEMMA HoldingEntered ==
  ASSUME TInv, UNCHANGED mortgaged,
         NEW u, NEW a \in Int, NEW b \in Int, NEW c \in Int, NEW d \in Int, NEW t \in Int,
         Entered(u, a, b, c, d, t)
  PROVE  Holdings \in Int /\ Holdings' = Holdings + (c + d)
<1>1. \A v \in Users : Holding(v)' = Holding(v) + (IF v = u THEN c + d ELSE 0)
  <2> TAKE v \in Users
  <2>1. MortgagedBy(v)' = MortgagedBy(v)
    BY DEF MortgagedBy
  <2>2. /\ ledger'[v].stocks = ledger[v].stocks + (IF v = u THEN c ELSE 0)
        /\ ledger'[v].reservedStocks = ledger[v].reservedStocks + (IF v = u THEN d ELSE 0)
    BY EnteredFields
  <2>3. /\ ledger[v].stocks \in Int /\ ledger[v].reservedStocks \in Int /\ MortgagedBy(v) \in Nat
    BY PositionTypes
  <2> QED
    BY <2>1, <2>2, <2>3 DEF Holding, StocksOf
<1>2. u \in Users /\ c + d \in Int
  BY DEF Entered
<1> QED
  BY <1>1, <1>2, HoldingsChange

LEMMA NumbersAre ==
  ASSUME TInv
  PROVE  /\ bank \in Nat /\ bank < Word /\ exchange \in Nat /\ StartBank \in Nat
         /\ StartExchange \in Nat /\ StartBank < Word
BY WordAssumption, StartAssumption DEF TInv, Unsigneds

\* A step that leaves ShortSellBank and what is lent alone.
LEMMA BankKept ==
  ASSUME TInv, BankInv, UNCHANGED <<updating, bank>>, LentOut' = LentOut,
         exchange' + Holdings' = exchange + Holdings,
         Holdings \in Int, Holdings' \in Int, exchange' \in Int
  PROVE  BankInv'
<1>1. exchange' + bank + Holdings' = exchange + bank + Holdings
  BY NumbersAre
<1>2. exchange + bank + Holdings = StartExchange + StartBank /\ bank + LentOut = StartBank
  BY DEF BankInv
<1>3. /\ IsFiniteSet(updating) /\ \A x, y \in updating : x = y
      /\ \A x \in updating : /\ x.step = "write" => x.seen = bank
                             /\ x.what = "lend" => x.order.lent <= bank
  BY DEF BankInv
<1> QED
  BY <1>1, <1>2, <1>3 DEF BankInv

LEMMA PlacingBank ==
  ASSUME TInv, TInv', BankInv, NEW t \in Tickets, PlaceAsk(t) \/ PlaceBid(t) \/ PlaceFails(t)
  PROVE  BankInv'
<1>1. CASE PlaceAsk(t)
  <2> DEFINE o == NewOrder(t, 0, 0, TRUE)
             fee == -OrderFee(t)
             minus == -t.qty
             q == t.qty
  <2>1. Entered(t.user, fee, 0, minus, q, 0) /\ Added(o) /\ o.lent = 0
    BY <1>1, PlaceAskRows DEF NewOrder
  <2>2. fee \in Int /\ minus \in Int /\ q \in Int /\ minus + q = 0 /\ 0 \in Int
    BY CostType, TicketType
  <2>3. UNCHANGED <<mortgaged, exchange, bank, updating>>
    BY <1>1 DEF PlaceAsk
  <2> HIDE DEF o, fee, minus, q
  <2>4. LentOut' = LentOut
    BY <2>1, LentOutAdded, LentOutType
  <2>5. Holdings \in Int /\ Holdings' = Holdings + (minus + q)
    BY <2>1, <2>2, <2>3, HoldingEntered
  <2> QED
    BY <2>2, <2>3, <2>4, <2>5, NumbersAre, BankKept
<1>2. CASE PlaceBid(t)
  <2> DEFINE d == t.qty * OrderPrice(t)
             o == NewOrder(t, d, 0, TRUE)
             cost == -OrderFee(t) - d
  <2>1. Entered(t.user, cost, d, 0, 0, 0) /\ Added(o) /\ o.lent = 0
    BY <1>2, PlaceBidRows DEF NewOrder
  <2>2. cost \in Int /\ d \in Int /\ 0 \in Int
    BY CostType, TicketType
  <2>3. UNCHANGED <<mortgaged, exchange, bank, updating>>
    BY <1>2 DEF PlaceBid
  <2> HIDE DEF o, cost, d
  <2>4. LentOut' = LentOut
    BY <2>1, LentOutAdded, LentOutType
  <2>5. Holdings \in Int /\ Holdings' = Holdings + (0 + 0)
    BY <2>1, <2>2, <2>3, HoldingEntered
  <2> QED
    BY <2>3, <2>4, <2>5, NumbersAre, BankKept
<1>3. CASE PlaceFails(t)
  <2> DEFINE o == NewOrder(t, 0, 0, FALSE)
  <2>1. Added(o) /\ o.lent = 0
    BY <1>3, NewOrderFresh DEF Added, PlaceFails, NewOrder
  <2>2. UNCHANGED <<mortgaged, exchange, bank, updating, ledger>>
    BY <1>3 DEF PlaceFails
  <2> HIDE DEF o
  <2>3. LentOut' = LentOut
    BY <2>1, LentOutAdded, LentOutType
  <2>4. Holdings' = Holdings /\ Holdings \in Int
    BY <2>2, HoldingsKept DEF Holding, StocksOf, MortgagedBy
  <2> QED
    BY <2>2, <2>3, <2>4, NumbersAre, BankKept
<1> QED
  BY <1>1, <1>2, <1>3

LEMMA ClosingBank ==
  ASSUME TInv, TInv', BankInv, NEW i \in DOMAIN orders,
         CancelAsk(i) \/ CloseBid(i) \/ CancelFails(i)
  PROVE  BankInv'
<1>1. /\ orders' = [orders EXCEPT ![i].open = FALSE]
      /\ UNCHANGED <<mortgaged, exchange, bank, updating>>
  BY DEF CancelAsk, CloseBid, CancelFails
<1>2. LentOut' = LentOut
  <2>1. /\ DOMAIN orders' = DOMAIN orders /\ orders'[i].lent = orders[i].lent
        /\ \A j \in DOMAIN orders \ {i} : orders'[j] = orders[j]
    BY <1>1, ClosesOrder
  <2>2. LentOut' = LentOut + (orders'[i].lent - orders[i].lent)
    BY <2>1, LentOutChanged
  <2>3. orders[i].lent \in Nat
    BY OrdersAre, OrderType
  <2> QED
    BY <2>1, <2>2, <2>3, LentOutType
<1>3. Holdings' = Holdings /\ Holdings \in Int
  <2>1. CASE CancelAsk(i)
    <3> DEFINE n == Unfilled(orders[i])
               minus == -n
               u == orders[i].user
    <3>1. n \in Nat /\ Entered(u, 0, 0, n, minus, 0)
      BY <2>1, CancelAskRows
    <3>2. n \in Int /\ minus \in Int /\ 0 \in Int /\ n + minus = 0
      BY <3>1
    <3> HIDE DEF n, minus, u
    <3>3. Holdings \in Int /\ Holdings' = Holdings + (n + minus)
      BY <1>1, <3>1, <3>2, HoldingEntered
    <3> QED
      BY <3>2, <3>3
  <2>2. CASE CloseBid(i)
    <3> DEFINE n == Refund(orders[i])
               minus == -n
               u == orders[i].user
    <3>1. n \in Nat /\ Entered(u, n, minus, 0, 0, 0)
      BY <2>2, CloseBidRows
    <3>2. n \in Int /\ minus \in Int /\ 0 \in Int
      BY <3>1
    <3> HIDE DEF n, minus, u
    <3>3. Holdings \in Int /\ Holdings' = Holdings + (0 + 0)
      BY <1>1, <3>1, <3>2, HoldingEntered
    <3> QED
      BY <3>3
  <2>3. CASE CancelFails(i)
    <3>1. UNCHANGED <<ledger, mortgaged>>
      BY <2>3 DEF CancelFails
    <3> QED
      BY <3>1, HoldingsKept DEF Holding, StocksOf, MortgagedBy
  <2> QED
    BY <2>1, <2>2, <2>3
<1> QED
  BY <1>1, <1>2, <1>3, NumbersAre, BankKept

LEMMA FillBank ==
  ASSUME TInv, TInv', BankInv, NEW a \in DOMAIN orders, NEW b \in DOMAIN orders, Fill(a, b)
  PROVE  BankInv'
<1>1. PICK n, p, taxA, taxB : n = FillQty(a, b) /\ Traded(a, b, n, p, taxA, taxB)
  BY FillIsTrade
<1>2. MayFill(a, b)
  BY FillIsTrade
<1>3. PICK s, u, share : s = orders[a].user /\ u = orders[b].user /\ share = ShareOf(orders[b], n)
  OBVIOUS
<1>4. s \in Users /\ u \in Users /\ s # u /\ a # b /\ n \in Nat \ {0}
      /\ n <= Unfilled(orders[a]) /\ n <= Unfilled(orders[b])
  BY <1>1, <1>2, <1>3, FillParties
<1>5. /\ TradeEntered(ledger, ledger', s, u, n, p, share, taxA, taxB)
      /\ UNCHANGED <<mortgaged, exchange, bank, updating>>
  BY <1>1, <1>3 DEF Traded
<1>6. LentOut' = LentOut
  <2>1. /\ DOMAIN orders' = DOMAIN orders
        /\ orders'[a] = FillOrder(orders[a], n) /\ orders'[b] = FillOrder(orders[b], n)
        /\ \A i \in DOMAIN orders \ {a, b} : orders'[i] = orders[i]
    BY <1>1, <1>2, TradedOrders
  <2>2. orders'[a].lent = orders[a].lent /\ orders'[b].lent = orders[b].lent
    BY <1>4, <2>1, FilledOrder
  <2>3. LentOut' = LentOut + (orders'[a].lent - orders[a].lent)
    BY <2>1, <2>2, LentOutChanged
  <2>4. orders[a].lent \in Nat
    BY OrdersAre, OrderType
  <2> QED
    BY <2>2, <2>3, <2>4, LentOutType
<1>7. /\ ledger'[s] = Row(ledger[s], n * p - taxA, 0, 0, -n, taxA)
      /\ ledger'[u] = Row(ledger[u], share - n * p - taxB, -share, n, 0, taxB)
      /\ \A v \in Users \ {s, u} : ledger'[v] = ledger[v]
  BY <1>5 DEF TradeEntered
<1>8. /\ ledger'[s].stocks = ledger[s].stocks + 0
      /\ ledger'[s].reservedStocks = ledger[s].reservedStocks + -n
      /\ ledger'[u].stocks = ledger[u].stocks + n
      /\ ledger'[u].reservedStocks = ledger[u].reservedStocks + 0
  BY <1>7 DEF Row
<1>9. \A v \in Users : /\ ledger[v].stocks \in Int /\ ledger[v].reservedStocks \in Int
                       /\ MortgagedBy(v) \in Nat /\ Holding(v) \in Int
                       /\ MortgagedBy(v)' = MortgagedBy(v)
  <2>1. \A v \in Users : MortgagedBy(v)' = MortgagedBy(v)
    BY <1>5 DEF MortgagedBy
  <2> QED
    BY <2>1, PositionTypes DEF Holding
<1>10. Holding(s)' = Holding(s) - n /\ Holding(u)' = Holding(u) + n
  BY <1>4, <1>8, <1>9 DEF Holding, StocksOf
<1>11. \A v \in Users \ {s, u} : Holding(v)' = Holding(v)
  BY <1>7, <1>9 DEF Holding, StocksOf
<1>12. Holdings' = Holdings /\ Holdings \in Int
  <2> DEFINE f == [v \in Users |-> Holding(v)]
             g == [v \in Users |-> Holding(v)']
  <2>1. f \in [Users -> Int] /\ g \in [Users -> Int]
    BY <1>4, <1>9, <1>10, <1>11
  <2>2. \A v \in Users \ {s, u} : g[v] = f[v]
    BY <1>11
  <2>3. g[s] = f[s] - n /\ g[u] = f[u] + n /\ f[s] \in Int /\ f[u] \in Int
    BY <1>4, <1>9, <1>10
  <2>4. Holdings = SumFunction(f) /\ Holdings' = SumFunction(g)
    BY DEF Holdings
  <2> HIDE DEF f, g
  <2>5. SumFunction(f) \in Int /\ SumFunction(g) = SumFunction(f) + (g[s] - f[s]) + (g[u] - f[u])
    BY <1>4, <2>1, <2>2, UsersAssumption, SumChangesTwice
  <2> QED
    BY <1>4, <2>3, <2>4, <2>5
<1> QED
  BY <1>5, <1>6, <1>12, NumbersAre, BankKept

LEMMA DealsBank ==
  ASSUME TInv, TInv', BankInv, NEW u \in Users,
         \/ \E n, tax : Purchased(u, n, tax)
         \/ \E n, p, total : Mortgaged(u, n, p, total)
  PROVE  BankInv'
<1>1. ASSUME NEW n, NEW tax, Purchased(u, n, tax)
      PROVE  BankInv'
  <2> DEFINE total == -price * n - tax
  <2>1. n \in Nat \ {0} /\ tax \in Nat /\ Entered(u, total, 0, n, 0, tax) /\ exchange' = exchange - n
        /\ UNCHANGED <<orders, mortgaged, bank, updating>>
    BY <1>1 DEF Purchased
  <2>2. total \in Int /\ 0 \in Int /\ n \in Int /\ tax \in Int
    <3>1. price \in Nat
      BY PricesAssumption DEF TInv
    <3>2. price * n \in Nat
      BY <2>1, <3>1, Products
    <3>3. total = -(price * n) - tax
      BY <2>1, <3>1
    <3> HIDE DEF total
    <3> QED
      BY <2>1, <3>2, <3>3
  <2> HIDE DEF total
  <2>3. Holdings \in Int /\ Holdings' = Holdings + (n + 0)
    BY <2>1, <2>2, HoldingEntered
  <2>4. LentOut' = LentOut
    BY <2>1 DEF LentOut
  <2> QED
    BY <2>1, <2>2, <2>3, <2>4, NumbersAre, BankKept
<1>2. ASSUME NEW n, NEW p, NEW total, Mortgaged(u, n, p, total)
      PROVE  BankInv'
  <2> DEFINE minus == -n
  <2>1. /\ n \in Int /\ minus \in Int /\ total \in Int /\ 0 \in Int
        /\ Entered(u, total, 0, minus, 0, 0)
        /\ UNCHANGED <<orders, exchange, bank, updating>>
    BY <1>2 DEF Mortgaged
  <2>m. minus = -n
    OBVIOUS
  <2> HIDE DEF minus
  <2>2. \A v \in Users : Holding(v)' = Holding(v)
    <3> TAKE v \in Users
    <3>1. MortgagedBy(v)' = MortgagedBy(v) + (IF v = u THEN n ELSE 0)
      BY <1>2, MortgagedSums
    <3>2. /\ ledger'[v].stocks = ledger[v].stocks + (IF v = u THEN minus ELSE 0)
          /\ ledger'[v].reservedStocks = ledger[v].reservedStocks + (IF v = u THEN 0 ELSE 0)
      BY <2>1, EnteredFields
    <3>3. /\ ledger[v].stocks \in Int /\ ledger[v].reservedStocks \in Int /\ MortgagedBy(v) \in Nat
      BY PositionTypes
    <3>4. CASE v = u
      BY <2>1, <2>m, <3>1, <3>2, <3>3, <3>4 DEF Holding, StocksOf
    <3>5. CASE v # u
      BY <3>1, <3>2, <3>3, <3>5 DEF Holding, StocksOf
    <3> QED
      BY <3>4, <3>5
  <2>3. Holdings' = Holdings /\ Holdings \in Int
    BY <2>2, HoldingsKept
  <2>4. LentOut' = LentOut
    BY <2>1 DEF LentOut
  <2> QED
    BY <2>1, <2>3, <2>4, NumbersAre, BankKept
<1> QED
  BY <1>1, <1>2

\* There is room for an update only when none is under way.
LEMMA RoomIsEmpty ==
  ASSUME BankUpdates <= 1, IsFiniteSet(updating), Room
  PROVE  updating = {}
<1>1. Cardinality(updating) \in Nat
  BY FS_CardinalityType
<1>2. Cardinality(updating) = 0
  BY <1>1, BoundsAssumption DEF Room
<1> QED
  BY <1>2, FS_EmptySet

\* A single update that is under way.
LEMMA BankOne ==
  ASSUME TInv, BankInv, UNCHANGED <<orders, ledger, mortgaged, exchange, bank>>,
         NEW y, updating' = {y}, y.step = "write" => y.seen = bank,
         y.what = "lend" => y.order.lent <= bank
  PROVE  BankInv'
<1>1. LentOut' = LentOut
  BY DEF LentOut
<1>2. Holdings' = Holdings
  BY HoldingsKept DEF Holding, StocksOf, MortgagedBy
<1>3. IsFiniteSet({y})
  BY FS_Singleton
<1> QED
  BY <1>1, <1>2, <1>3 DEF BankInv

LEMMA StartBankInv ==
  ASSUME TInv, BankInv, BankUpdates <= 1,
         \/ \E t \in Tickets : StartLend(t)
         \/ \E i \in DOMAIN orders : StartReturn(i)
         \/ \E x \in updating : ReadBank(x)
  PROVE  BankInv'
<1>f. IsFiniteSet(updating)
  BY DEF BankInv
<1>1. ASSUME NEW t \in Tickets, StartLend(t)
      PROVE  BankInv'
  <2> DEFINE o == NewOrder(t, 0, Short(t), TRUE)
             x == [what |-> "lend", order |-> o, fee |-> OrderFee(t), step |-> "read", seen |-> 0]
  <2>1. updating = {}
    BY <1>f, <1>1, RoomIsEmpty DEF StartLend
  <2>2. updating' = {x} /\ UNCHANGED <<orders, ledger, mortgaged, exchange, bank>>
    BY <1>1, <2>1 DEF StartLend
  <2>3. o.lent <= bank
    <3>1. Short(t) > 0 /\ MayBorrow(t) /\ o.lent = Short(t)
      BY <1>1 DEF StartLend, MayPlace, NewOrder
    <3> QED
      BY <3>1 DEF MayBorrow
  <2> HIDE DEF o
  <2>4. x.order = o /\ x.step # "write"
    OBVIOUS
  <2> HIDE DEF x
  <2> QED
    BY <2>2, <2>3, <2>4, BankOne
<1>2. ASSUME NEW i \in DOMAIN orders, StartReturn(i)
      PROVE  BankInv'
  <2> DEFINE x == [what |-> "return", order |-> i, fee |-> 0, step |-> "read", seen |-> 0]
  <2>1. updating = {}
    BY <1>f, <1>2, RoomIsEmpty DEF StartReturn
  <2>2. updating' = {x} /\ UNCHANGED <<orders, ledger, mortgaged, exchange, bank>>
    BY <1>2, <2>1 DEF StartReturn
  <2>3. x.what # "lend" /\ x.step # "write"
    OBVIOUS
  <2> HIDE DEF x
  <2> QED
    BY <2>2, <2>3, BankOne
<1>3. ASSUME NEW x \in updating, ReadBank(x)
      PROVE  BankInv'
  <2> DEFINE y == [x EXCEPT !.step = "write", !.seen = bank]
  <2>1. updating' = {y} /\ UNCHANGED <<orders, ledger, mortgaged, exchange, bank>>
    BY <1>3 DEF ReadBank, BankInv
  <2>2. x \in Lends \/ x \in Returns
    BY DEF TInv
  <2>3. y.what = x.what /\ y.order = x.order /\ y.seen = bank
    BY <2>2 DEF Lends, Returns
  <2>4. x.what = "lend" => x.order.lent <= bank
    BY DEF BankInv
  <2> HIDE DEF y
  <2> QED
    BY <2>1, <2>3, <2>4, BankOne
<1> QED
  BY <1>1, <1>2, <1>3

\* No update is under way any more.
LEMMA BankNone ==
  ASSUME TInv, BankInv, updating' = {}, UNCHANGED exchange, NEW d \in Int,
         bank' = bank - d, LentOut' = LentOut + d, Holdings' = Holdings + d, Holdings \in Int
  PROVE  BankInv'
<1>1. exchange + bank + Holdings = StartExchange + StartBank /\ bank + LentOut = StartBank
  BY DEF BankInv
<1>2. exchange \in Int /\ bank \in Int /\ LentOut \in Int
  BY NumbersAre, LentOutType
<1>3. exchange' + bank' + Holdings' = StartExchange + StartBank /\ bank' + LentOut' = StartBank
  BY <1>1, <1>2
<1> QED
  BY <1>3, FS_EmptySet DEF BankInv

LEMMA CommitBankInv ==
  ASSUME TInv, TInv', BankInv, NEW x \in updating, CommitLend(x) \/ CommitReturn(x)
  PROVE  BankInv'
<1>1. updating = {x}
  BY DEF BankInv
<1>2. CASE CommitLend(x)
  <2> DEFINE o == x.order
             fee == -x.fee
             c == o.lent - o.qty
             q == o.qty
  <2>1. Entered(o.user, fee, 0, c, q, 0) /\ Added(o) /\ x.fee \in Nat
    BY <1>2, CommitLendRows
  <2>2. o.lent \in Nat /\ q \in Int /\ fee \in Int /\ c \in Int /\ 0 \in Int /\ c + q = o.lent
    BY <2>1, OrderType DEF Added, Fresh
  <2>3. updating' = {} /\ bank' = Unsigned(bank - o.lent) /\ UNCHANGED <<exchange, mortgaged>>
    BY <1>1, <1>2 DEF CommitLend, BankInv
  <2>4. o.lent <= bank
    BY <1>2 DEF CommitLend, BankInv
  <2> HIDE DEF o, fee, c, q
  <2>5. bank' = bank - o.lent
    <3>1. bank - o.lent \in Nat /\ bank - o.lent < Word
      BY <2>2, <2>4, NumbersAre, WordAssumption
    <3> QED
      BY <2>3, <3>1, UnsignedFits
  <2>6. LentOut' = LentOut + o.lent
    BY <2>1, LentOutAdded
  <2>7. Holdings \in Int /\ Holdings' = Holdings + o.lent
    BY <2>1, <2>2, <2>3, HoldingEntered
  <2> QED
    BY <2>2, <2>3, <2>5, <2>6, <2>7, BankNone
<1>3. CASE CommitReturn(x)
  <2> DEFINE i == x.order
             o == orders[i]
             c == -o.lent
  <2>1. /\ i \in DOMAIN orders /\ Entered(o.user, 0, 0, c, 0, 0)
        /\ DOMAIN orders' = DOMAIN orders /\ orders'[i].lent = 0
        /\ \A j \in DOMAIN orders \ {i} : orders'[j] = orders[j]
    BY <1>3, CommitReturnRows
  <2>2. o.lent \in Nat /\ c \in Int /\ 0 \in Int /\ o.lent <= LentOut
    BY <2>1, OrdersAre, OrderType, LentOutType
  <2>3. updating' = {} /\ bank' = Unsigned(bank + o.lent) /\ UNCHANGED <<exchange, mortgaged>>
    BY <1>1, <1>3 DEF CommitReturn, BankInv
  <2>4. LentOut' = LentOut + (0 - o.lent)
    BY <2>1, LentOutChanged
  <2>5. c = -o.lent
    OBVIOUS
  <2> HIDE DEF i, o, c
  <2>6. bank' = bank - c
    <3>1. bank + LentOut = StartBank /\ LentOut \in Nat
      BY LentOutType DEF BankInv
    <3>2. bank + o.lent \in Nat /\ bank + o.lent < Word
      BY <2>2, <3>1, NumbersAre, WordAssumption
    <3>3. bank' = bank + o.lent
      BY <2>3, <3>2, UnsignedFits
    <3> QED
      BY <2>2, <2>5, <3>3, NumbersAre
  <2>7. LentOut' = LentOut + c
    BY <2>2, <2>4, <2>5, LentOutType
  <2>8. Holdings \in Int /\ Holdings' = Holdings + (c + 0)
    BY <2>1, <2>2, <2>3, HoldingEntered
  <2>9. Holdings' = Holdings + c
    BY <2>2, <2>8
  <2> QED
    BY <2>2, <2>3, <2>6, <2>7, <2>8, <2>9, BankNone
<1> QED
  BY <1>2, <1>3

LEMMA NextBankInv ==
  ASSUME TInv, TInv', BankUpdates <= 1, BankInv, [Next]_vars
  PROVE  BankInv'
<1>1. ASSUME NEW t \in Tickets, PlaceAsk(t) \/ PlaceBid(t) \/ PlaceFails(t) \/ StartLend(t)
      PROVE  BankInv'
  BY <1>1, PlacingBank, StartBankInv
<1>2. ASSUME NEW i \in DOMAIN orders,
             StartReturn(i) \/ CancelAsk(i) \/ CancelBid(i) \/ CancelFails(i)
      PROVE  BankInv'
  BY <1>2, StartBankInv, ClosingBank DEF CancelBid
<1>3. ASSUME NEW x \in updating, ReadBank(x) \/ CommitLend(x) \/ CommitReturn(x)
      PROVE  BankInv'
  BY <1>3, StartBankInv, CommitBankInv
<1>4. ASSUME NEW a \in DOMAIN orders, NEW b \in DOMAIN orders, Fill(a, b) \/ DropBid(a, b)
      PROVE  BankInv'
  BY <1>4, FillBank, ClosingBank DEF DropBid
<1>5. ASSUME NEW u \in Users, NEW n \in Quantities,
             \/ BuyFromExchange(u, n)
             \/ Mortgage(u, n)
             \/ \E p \in Prices : Retrieve(u, n, p)
      PROVE  BankInv'
  <2>1. n \in Nat
    BY DEF Quantities
  <2> QED
    BY <1>5, <2>1, PurchaseIs, MortgageIsOne, RetrieveIsOne, DealsBank
<1>6. CASE UNCHANGED vars
  <2>1. UNCHANGED <<orders, ledger, mortgaged, exchange, bank, updating>>
    BY <1>6 DEF vars
  <2>2. LentOut' = LentOut
    BY <2>1 DEF LentOut
  <2>3. Holdings' = Holdings /\ Holdings \in Int
    BY <2>1, HoldingsKept DEF Holding, StocksOf, MortgagedBy
  <2> QED
    BY <2>1, <2>2, <2>3, NumbersAre, BankKept
<1> QED
  BY <1>1, <1>2, <1>3, <1>4, <1>5, <1>6 DEF Next

LEMMA InitBankInv ==
  ASSUME Init
  PROVE  BankInv
<1>1. LentOut = 0
  BY FunctionSum, SumEmpty DEF Init, LentOut
<1>2. Holdings = 0
  <2>1. \A v \in Users : Holding(v) = 0
    BY InitSums DEF Init, Holding, StocksOf
  <2> DEFINE f == [v \in Users |-> Holding(v)]
  <2>2. DOMAIN f = Users /\ \A v \in Users : f[v] = 0
    BY <2>1
  <2>3. Holdings = SumFunction(f)
    BY DEF Holdings
  <2> HIDE DEF f
  <2> QED
    BY <2>2, <2>3, UsersAssumption, FunctionSum, SumZero
<1> QED
  BY <1>1, <1>2, FS_EmptySet, StartAssumption DEF Init, BankInv

\* No stock appears or disappears between the users, the exchange, the bank that lends and
\* the mortgages, as long as one transaction at a time updates ShortSellBank; two at once
\* lose an update. models/ShortSell.go and models/User.go.
THEOREM StocksKept == BankUpdates <= 1 => (Spec => []StocksConserved)
<1> SUFFICES ASSUME BankUpdates <= 1
             PROVE  Spec => []StocksConserved
  OBVIOUS
<1>1. Init => BankInv
  BY InitBankInv
<1>2. TInv /\ TInv' /\ BankInv /\ [Next]_vars => BankInv'
  BY NextBankInv
<1>3. BankInv => StocksConserved
  BY DEF BankInv, StocksConserved, Holdings, Holding
<1> QED
  BY <1>1, <1>2, <1>3, TypesInvariant, PTL DEF Spec
=============================================================================
