----------------------------- MODULE StocksProofs -----------------------------
(***************************************************************************)
(* That the board agrees with the rows, makes sense and keeps the          *)
(* dividends, for any number of workers, users and operations, any prices  *)
(* and any errors.                                                         *)
(*                                                                         *)
(* The argument for the agreement: unless a load met an update (overlap),  *)
(* whoever waits for or holds an object has the current one (Fresh), so    *)
(* the holder of its lock is the one worker that changes it (Changing).    *)
(* What counts is Base, the stock as it is when that worker is undone: it  *)
(* is the row (Kept), except for the day's fields after a SetDay whose     *)
(* saving failed, and then a load is under way (DayKept).                  *)
(***************************************************************************)
EXTENDS Stocks, FiniteSetTheorems, TLAPS

Ops == {"idle", "trade", "price", "add", "buy", "dividends", "load"}
Pcs == {"idle", "users", "look", "lock", "save", "none left", "details", "revert", "read", "install"}
Row == [price : Nat, real : Nat, dayHigh : Nat, dayLow : Nat, close : Nat,
        exchange : 0 .. MaxUint, market : Nat, bankrupt : BOOLEAN]
Stock == [price : Nat, real : Nat, dayHigh : Nat, dayLow : Nat, close : Nat,
          exchange : 0 .. MaxUint, market : Nat, bankrupt : BOOLEAN,
          volume : Nat, high : Nat, low : Nat]
Object == [holder : Workers \cup {NoOne}, stock : Stock]

AtObject == {"lock", "save", "none left"}
Holding == {"save", "none left"}
PriceOps == {"trade", "price"}

\* What a worker still has to do and whom it holds is not looked at.
IsJob(j) == j \in [op : Ops, pc : Pcs, todo : {j.todo}, held : {j.held},
                   price : Nat, quantity : Nat, object : Nat, changed : Nat,
                   old : Stock, rows : Row]

\* Where a worker is by what it does, when there are n objects.
PlaceOK(j, n) ==
  /\ j.pc = "idle" <=> j.op = "idle"
  /\ j.pc = "idle" => j = Idle
  /\ j.pc \in {"read", "install"} <=> j.op = "load"
  /\ j.pc \in {"details", "revert"} => j.op = "dividends"
  /\ j.pc = "look" => j.op \in PriceOps \cup {"add"}
  /\ j.pc \in AtObject => j.op \in PriceOps \cup {"add", "buy"} /\ j.object \in 1 .. n
  /\ j.pc \in Holding => j.changed \in 1 .. n
  /\ j.pc = "none left" => j.op = "buy"

BoardTypes == row \in Row /\ average \in Nat /\ board \in Seq(Object) /\ Current > 0
UserTypes ==
  /\ holder \in [Users -> Workers \cup {NoOne}]
  /\ paid \in [Users -> Nat] /\ paidRow \in [Users -> Nat]
WorkTypes ==
  /\ work = [x \in Workers |-> work[x]]
  /\ \A x \in Workers : IsJob(work[x]) /\ PlaceOK(work[x], Current)
CountTypes ==
  /\ wedged \subseteq {"map", "object", "users"}
  /\ jobs \in Nat /\ faults \in Nat /\ issued \in Nat /\ bought \in Nat /\ traded \in Nat
  /\ missed \in BOOLEAN /\ overlap \in {"never", "now", "over"}
Types == BoardTypes /\ UserTypes /\ WorkTypes /\ CountTypes

\* The dividends that are paid and not committed are those of a worker that pays them.
Paying(x, u) == Op(x) = "dividends" /\ work[x].pc \in {"users", "revert"} /\ u \in work[x].held
DividendsOK == \A u \in Users :
  /\ paidRow[u] <= paid[u]
  /\ paid[u] # paidRow[u] => \E x \in Workers : Paying(x, u)

\* A price between the low and the high of the day, and of the minute.
DayOK(s) == s.dayLow <= s.dayHigh /\ (s.price # 0 => s.price \in s.dayLow .. s.dayHigh)
MinuteOK(s) == s.low <= s.high /\ (s.price # 0 => s.price \in s.low .. s.high)
Now == board[Current].stock
StockOK(s) == DayOK(s) /\ MinuteOK(s)
JobsSensible == \A x \in Workers : StockOK(work[x].old) /\ DayOK(work[x].rows)
BoardSensible == \A g \in 1 .. Current : StockOK(board[g].stock)
VolumeOK == missed \/ Now.volume = traded
Sensible == DayOK(row) /\ JobsSensible /\ BoardSensible /\ VolumeOK

\* Whoever waits for an object or holds it has the current one, and holds it alone.
Fresh ==
  /\ \A x \in Workers : /\ work[x].pc \in AtObject => work[x].object = Current
                        /\ work[x].pc \in Holding => /\ work[x].changed = Current
                                                     /\ board[Current].holder = x
  /\ Locked(Current) => work[board[Current].holder].pc \in Holding

\* How a worker has changed the stock s.
Changed(j, s, avg) ==
  /\ j.op \in PriceOps =>
       /\ s.real = avg
       /\ s.exchange = j.old.exchange /\ s.market = j.old.market /\ s.bankrupt = j.old.bankrupt
       /\ s.close \in {j.old.close, s.price}
       /\ \/ /\ s.dayHigh = Higher(j.old.dayHigh, s.price)
             /\ s.dayLow = IF s.price > j.old.dayHigh THEN j.old.dayLow
                           ELSE Lower(j.old.dayLow, s.price)
          \/ s.dayHigh = s.price /\ s.dayLow = s.price
  /\ j.op = "buy" /\ j.pc = "save" => j.old.exchange = s.exchange + 1 /\ s.market = j.old.market + 1
Changing == \A x \in Workers : work[x].pc \in Holding => Changed(work[x], Now, average)

\* The stock s when what the worker changed is undone: Restored.
Undone(j, s) ==
  IF j.pc # "save" THEN s
  ELSE IF j.op \in PriceOps THEN j.old
  ELSE IF j.op = "add" THEN [s EXCEPT !.exchange = OneLess(@)]
  ELSE [s EXCEPT !.exchange = j.old.exchange, !.market = j.old.market]

Base == Persistent(IF Locked(Current) THEN Undone(work[board[Current].holder], Now) ELSE Now)

\* A row b is r, but for the fields of the day.
SameButDay(b, r) ==
  /\ b.price = r.price /\ b.real = r.real /\ b.exchange = r.exchange /\ b.market = r.market
  /\ b.bankrupt = r.bankrupt
  /\ b.close \in {r.close, r.price}
  /\ \/ b.dayHigh = r.dayHigh /\ b.dayLow = r.dayLow
     \/ b.dayHigh = r.price /\ b.dayLow = r.price

NoLoad == \A x \in Workers : Op(x) # "load"
Kept == NoLoad => Base = row
DayKept == SameButDay(Base, row)

AverageKept == \/ missed \/ average = row.real
               \/ \E x \in Workers : work[x].pc = "save" /\ Op(x) \in PriceOps

Counted == overlap = "never" => row.exchange + row.market = issued /\ row.market = bought

Steady == overlap # "now" => Fresh /\ Changing /\ Kept /\ DayKept /\ AverageKept /\ Counted

\* Every stock that is added has an operation of its own.
Adds == {x \in Workers : Op(x) = "add"}
AddsCounted == IsFiniteSet(Adds) /\ issued + Cardinality(Adds) <= InExchange + jobs /\ jobs <= MaxJobs

IInv == Types /\ DividendsOK /\ Sensible /\ Steady /\ AddsCounted

------------------------------------------------------------------------------
(* Numbers *)

LEMMA NotBelow ==
  ASSUME NEW n \in Int, NEW m \in Int, NEW c \in Nat \ {0}, n >= c * m
  PROVE  n \div c >= m
<1> DEFINE d == n \div c
<1>1. d \in Int /\ n = c * d + (n % c) /\ n % c \in 0 .. c - 1
  OBVIOUS
<1>2. ASSUME d < m PROVE FALSE
  <2>1. d + 1 <= m
    BY <1>1, <1>2
  <2>2. c * (d + 1) <= c * m
    BY <2>1, <1>1
  <2> QED
    BY <2>2, <1>1
<1> QED
  BY <1>1, <1>2

\* The running average stays a count of units.
LEMMA AveragedNat ==
  ASSUME average \in Nat, NEW p \in Nat, NEW q \in Nat
  PROVE  Averaged(p, q) \in Nat
<1> DEFINE k == Lower(q, Count)
           d == Unit * p - average
           n == k * d
<1>1. k \in Nat /\ k <= Count /\ Count \in Nat \ {0}
  BY BoardAssumption DEF Lower
<1>2. Unit * p \in Nat
  BY BoardAssumption
<1>3. d \in Int /\ d >= 0 - average
  BY <1>2
<1> HIDE DEF k, d
<1>4. n \in Int /\ n \div Count \in Int
  BY <1>1, <1>3
<1>5. n \div Count >= 0 - average
  <2>1. CASE d >= 0
    <3>1. n >= 0
      BY <1>1, <1>3, <2>1
    <3>2. n >= Count * 0
      BY <3>1, <1>1
    <3> HIDE DEF n
    <3>3. n \div Count >= 0
      BY <3>2, <1>1, <1>4, NotBelow
    <3> QED
      BY <3>3, <1>4
  <2>2. CASE d < 0
    <3>1. n >= Count * d
      BY <1>1, <1>3, <2>2
    <3> HIDE DEF n
    <3>2. n \div Count >= d
      BY <3>1, <1>1, <1>3, <1>4, NotBelow
    <3> QED
      BY <3>2, <1>3, <1>4
  <2> QED
    BY <2>1, <2>2, <1>3
<1>6. Averaged(p, q) = average + n \div Count
  BY DEF Averaged, k, d
<1> HIDE DEF n
<1> QED
  BY <1>4, <1>5, <1>6

LEMMA Counts ==
  /\ MaxUint \in Nat /\ InExchange \in Nat /\ MaxJobs \in Nat /\ MaxFaults \in Nat
  /\ MaxUint > 0 /\ InExchange + MaxJobs < MaxUint /\ Unit \in Nat \ {0}
  /\ NoOne \notin Workers
<1>1. MaxUint \in Nat /\ InExchange \in Nat /\ InExchange + MaxJobs < MaxUint
  BY CountsAssumption
<1>2. MaxJobs \in Nat /\ MaxFaults \in Nat /\ Unit \in Nat \ {0}
  BY JobsAssumption, BoardAssumption
<1>3. MaxUint > 0
  BY <1>1, <1>2
<1>4. NoOne \notin Workers
  BY NoOneAssumption DEF NoOne
<1> QED
  BY <1>1, <1>2, <1>3, <1>4

LEMMA OneMoreOneLess ==
  ASSUME NEW n \in 0 .. MaxUint
  PROVE  /\ OneMore(n) \in 0 .. MaxUint /\ OneLess(n) \in 0 .. MaxUint
         /\ OneLess(OneMore(n)) = n /\ OneLess(n) # n
         /\ n < MaxUint => OneMore(n) = n + 1
         /\ n # 0 => OneLess(n) = n - 1
         /\ OneLess(n) < MaxUint => n = OneLess(n) + 1
BY Counts DEF OneMore, OneLess

------------------------------------------------------------------------------
(* Rows and stocks *)

LEMMA PersistentRow ==
  ASSUME NEW s \in Stock
  PROVE  /\ Persistent(s) \in Row
         /\ Persistent(s).price = s.price /\ Persistent(s).real = s.real
         /\ Persistent(s).dayHigh = s.dayHigh /\ Persistent(s).dayLow = s.dayLow
         /\ Persistent(s).close = s.close /\ Persistent(s).exchange = s.exchange
         /\ Persistent(s).market = s.market /\ Persistent(s).bankrupt = s.bankrupt
BY DEF Persistent, Stock, Row

\* Rows with the same fields are the same.
LEMMA SameRow ==
  ASSUME NEW r \in Row, NEW t \in Row, r.price = t.price, r.real = t.real, r.dayHigh = t.dayHigh,
         r.dayLow = t.dayLow, r.close = t.close, r.exchange = t.exchange, r.market = t.market,
         r.bankrupt = t.bankrupt
  PROVE  r = t
BY DEF Row

LEMMA LoadedStock ==
  ASSUME NEW r \in Row
  PROVE  /\ Loaded(r) \in Object /\ Loaded(r).holder = NoOne
         /\ Loaded(r).stock \in Stock /\ Persistent(Loaded(r).stock) = r
         /\ Loaded(r).stock.volume = 0
         /\ DayOK(r) => DayOK(Loaded(r).stock)
         /\ MinuteOK(Loaded(r).stock)
<1>1. /\ Loaded(r).holder = NoOne /\ Loaded(r).stock \in Stock
      /\ Loaded(r) = [holder |-> Loaded(r).holder, stock |-> Loaded(r).stock]
  BY DEF Loaded, Row, Stock
<1>2. Persistent(Loaded(r).stock) = r
  BY DEF Loaded, Row, Persistent
<1>3. /\ Loaded(r).stock.volume = 0 /\ Loaded(r).stock.price = r.price
      /\ Loaded(r).stock.high = r.price /\ Loaded(r).stock.low = r.price
      /\ Loaded(r).stock.dayHigh = r.dayHigh /\ Loaded(r).stock.dayLow = r.dayLow
  BY DEF Loaded, Row
<1>4. r.price \in Nat
  BY DEF Row
<1>5. (DayOK(r) => DayOK(Loaded(r).stock)) /\ MinuteOK(Loaded(r).stock)
  BY <1>3, <1>4 DEF DayOK, MinuteOK
<1>6. Loaded(r) \in Object
  BY <1>1 DEF Object
<1> QED
  BY <1>1, <1>2, <1>3, <1>5, <1>6

LEMMA NoRowRow ==
  /\ NoRow \in Row /\ DayOK(NoRow)
  /\ Loaded(NoRow).stock \in Stock /\ DayOK(Loaded(NoRow).stock) /\ MinuteOK(Loaded(NoRow).stock)
<1>1. NoRow \in Row
  BY Counts DEF NoRow, Row
<1>2. DayOK(NoRow)
  BY DEF NoRow, DayOK
<1> QED
  BY <1>1, <1>2, LoadedStock

\* What Priced changes.
LEMMA PricedStock ==
  ASSUME NEW s \in Stock, NEW avg \in Nat, NEW t, t = Priced(s, avg)
  PROVE  /\ t \in Stock /\ t.price \in Nat
         /\ t.price = avg \div Unit /\ t.real = avg
         /\ t.dayHigh = Higher(s.dayHigh, t.price)
         /\ t.dayLow = IF t.price > s.dayHigh THEN s.dayLow ELSE Lower(s.dayLow, t.price)
         /\ t.high = Higher(s.high, t.price)
         /\ t.low = IF t.price > s.high THEN s.low ELSE Lower(s.low, t.price)
         /\ t.exchange = s.exchange /\ t.market = s.market
         /\ t.bankrupt = s.bankrupt /\ t.close = s.close /\ t.volume = s.volume
<1> DEFINE p == avg \div Unit
<1>1. p \in Nat
  BY Counts
<1>2. Priced(s, avg) =
        [s EXCEPT !.price = p, !.real = avg, !.dayHigh = Higher(s.dayHigh, p),
                  !.dayLow = IF p > s.dayHigh THEN s.dayLow ELSE Lower(s.dayLow, p),
                  !.high = Higher(s.high, p),
                  !.low = IF p > s.high THEN s.low ELSE Lower(s.low, p)]
  BY DEF Priced
<1>3. /\ s.dayHigh \in Nat /\ s.dayLow \in Nat /\ s.high \in Nat /\ s.low \in Nat
  BY DEF Stock
<1> DEFINE a == Higher(s.dayHigh, p)
           b == IF p > s.dayHigh THEN s.dayLow ELSE Lower(s.dayLow, p)
           c == Higher(s.high, p)
           d == IF p > s.high THEN s.low ELSE Lower(s.low, p)
<1>4. a \in Nat /\ b \in Nat /\ c \in Nat /\ d \in Nat
  BY <1>1, <1>3 DEF Higher, Lower
<1>5. Priced(s, avg) = [s EXCEPT !.price = p, !.real = avg, !.dayHigh = a, !.dayLow = b,
                                 !.high = c, !.low = d]
  BY <1>2
<1> HIDE DEF a, b, c, d, p
<1>6. /\ Priced(s, avg) \in Stock
      /\ Priced(s, avg).price = p /\ Priced(s, avg).real = avg
      /\ Priced(s, avg).dayHigh = a /\ Priced(s, avg).dayLow = b
      /\ Priced(s, avg).high = c /\ Priced(s, avg).low = d
      /\ Priced(s, avg).exchange = s.exchange /\ Priced(s, avg).market = s.market
      /\ Priced(s, avg).bankrupt = s.bankrupt /\ Priced(s, avg).close = s.close
      /\ Priced(s, avg).volume = s.volume
  <2>1. s \in [price : Nat, real : Nat, dayHigh : Nat, dayLow : Nat, close : Nat,
               exchange : 0 .. MaxUint, market : Nat, bankrupt : BOOLEAN,
               volume : Nat, high : Nat, low : Nat]
    BY DEF Stock
  <2>2. Priced(s, avg) \in Stock
    BY <1>1, <1>4, <1>5, <2>1 DEF Stock
  <2>3. /\ Priced(s, avg).price = p /\ Priced(s, avg).real = avg
        /\ Priced(s, avg).dayHigh = a /\ Priced(s, avg).dayLow = b
        /\ Priced(s, avg).high = c /\ Priced(s, avg).low = d
    BY <1>5, <2>1
  <2>4. /\ Priced(s, avg).exchange = s.exchange /\ Priced(s, avg).market = s.market
        /\ Priced(s, avg).bankrupt = s.bankrupt /\ Priced(s, avg).close = s.close
        /\ Priced(s, avg).volume = s.volume
    BY <1>5, <2>1
  <2> QED
    BY <2>2, <2>3, <2>4
<1> QED
  BY <1>1, <1>6 DEF a, b, c, d, p

LEMMA PricedSensible ==
  ASSUME NEW s \in Stock, NEW avg \in Nat, DayOK(s), MinuteOK(s)
  PROVE  DayOK(Priced(s, avg)) /\ MinuteOK(Priced(s, avg))
<1>0. PICK t : t = Priced(s, avg)
  OBVIOUS
<1>1. /\ t.price \in Nat
      /\ t.dayHigh = Higher(s.dayHigh, t.price)
      /\ t.dayLow = IF t.price > s.dayHigh THEN s.dayLow ELSE Lower(s.dayLow, t.price)
      /\ t.high = Higher(s.high, t.price)
      /\ t.low = IF t.price > s.high THEN s.low ELSE Lower(s.low, t.price)
  BY <1>0, PricedStock
<1>2. /\ s.dayHigh \in Nat /\ s.dayLow \in Nat /\ s.high \in Nat /\ s.low \in Nat /\ s.price \in Nat
  BY DEF Stock
<1>3. DayOK(t)
  BY <1>1, <1>2 DEF DayOK, Higher, Lower
<1>4. MinuteOK(t)
  BY <1>1, <1>2 DEF MinuteOK, Higher, Lower
<1> QED
  BY <1>0, <1>3, <1>4

\* What is undone is a stock; which fields it changes.
LEMMA UndoneStock ==
  ASSUME NEW s \in Stock, NEW j, IsJob(j), NEW t, t = Undone(j, s)
  PROVE  /\ t \in Stock
         /\ j.pc # "save" => t = s
         /\ j.pc = "save" /\ j.op \in PriceOps => t = j.old
         /\ j.pc = "save" /\ j.op \notin PriceOps =>
              /\ t.exchange = IF j.op = "add" THEN OneLess(s.exchange) ELSE j.old.exchange
              /\ t.market = IF j.op = "add" THEN s.market ELSE j.old.market
              /\ t.price = s.price /\ t.real = s.real /\ t.bankrupt = s.bankrupt
              /\ t.close = s.close /\ t.dayHigh = s.dayHigh /\ t.dayLow = s.dayLow
<1>1. j.old \in Stock /\ j.old.exchange \in 0 .. MaxUint /\ j.old.market \in Nat
  <2>1. j.old \in Stock
    BY DEF IsJob
  <2> QED
    BY <2>1 DEF Stock
<1>2. s.exchange \in 0 .. MaxUint
  BY DEF Stock
<1>3. CASE j.pc = "save" /\ j.op = "add"
  <2>1. OneLess(s.exchange) \in 0 .. MaxUint
    BY <1>2, OneMoreOneLess
  <2>2. t = [s EXCEPT !.exchange = OneLess(s.exchange)]
    BY <1>3 DEF Undone, PriceOps
  <2>3. t \in Stock /\ t.exchange = OneLess(s.exchange) /\ t.market = s.market
    BY <2>1, <2>2 DEF Stock
  <2>4. /\ t.price = s.price /\ t.real = s.real /\ t.bankrupt = s.bankrupt
        /\ t.close = s.close /\ t.dayHigh = s.dayHigh /\ t.dayLow = s.dayLow
    BY <2>2 DEF Stock
  <2> QED
    BY <1>3, <2>3, <2>4 DEF PriceOps
<1>4. CASE j.pc = "save" /\ j.op # "add" /\ j.op \notin PriceOps
  <2>1. PICK e, m : e = j.old.exchange /\ m = j.old.market
    OBVIOUS
  <2>2. t = [s EXCEPT !.exchange = e, !.market = m]
    BY <1>4, <2>1 DEF Undone
  <2>3. t \in Stock /\ t.exchange = e /\ t.market = m
    BY <1>1, <2>1, <2>2 DEF Stock
  <2>4. /\ t.price = s.price /\ t.real = s.real /\ t.bankrupt = s.bankrupt
        /\ t.close = s.close /\ t.dayHigh = s.dayHigh /\ t.dayLow = s.dayLow
    BY <2>2 DEF Stock
  <2> QED
    BY <1>4, <2>1, <2>3, <2>4
<1>5. CASE j.pc # "save"
  BY <1>5 DEF Undone
<1>6. CASE j.pc = "save" /\ j.op \in PriceOps
  BY <1>1, <1>6 DEF Undone
<1> QED
  BY <1>3, <1>4, <1>5, <1>6

\* What is undone depends on what a row keeps alone.
LEMMA UndoneSame ==
  ASSUME NEW s \in Stock, NEW t \in Stock, Persistent(s) = Persistent(t), NEW j, IsJob(j)
  PROVE  Persistent(Undone(j, s)) = Persistent(Undone(j, t))
<1>1. /\ s.price = t.price /\ s.real = t.real /\ s.dayHigh = t.dayHigh /\ s.dayLow = t.dayLow
      /\ s.close = t.close /\ s.exchange = t.exchange /\ s.market = t.market
      /\ s.bankrupt = t.bankrupt
  BY PersistentRow
<1>2. PICK a : a = Undone(j, s)
  OBVIOUS
<1>3. PICK b : b = Undone(j, t)
  OBVIOUS
<1>4. CASE j.pc = "save" /\ j.op \notin PriceOps
  <2>1. a \in Stock /\ b \in Stock
    BY <1>2, <1>3, UndoneStock
  <2>2. /\ a.exchange = b.exchange /\ a.market = b.market /\ a.price = b.price /\ a.real = b.real
        /\ a.bankrupt = b.bankrupt /\ a.close = b.close /\ a.dayHigh = b.dayHigh
        /\ a.dayLow = b.dayLow
    <3>1. /\ a.exchange = IF j.op = "add" THEN OneLess(s.exchange) ELSE j.old.exchange
          /\ a.market = IF j.op = "add" THEN s.market ELSE j.old.market
          /\ a.price = s.price /\ a.real = s.real /\ a.bankrupt = s.bankrupt
          /\ a.close = s.close /\ a.dayHigh = s.dayHigh /\ a.dayLow = s.dayLow
      BY <1>2, <1>4, UndoneStock
    <3>2. /\ b.exchange = IF j.op = "add" THEN OneLess(t.exchange) ELSE j.old.exchange
          /\ b.market = IF j.op = "add" THEN t.market ELSE j.old.market
          /\ b.price = t.price /\ b.real = t.real /\ b.bankrupt = t.bankrupt
          /\ b.close = t.close /\ b.dayHigh = t.dayHigh /\ b.dayLow = t.dayLow
      BY <1>3, <1>4, UndoneStock
    <3> QED
      BY <1>1, <3>1, <3>2
  <2>3. PICK r : r = Persistent(a)
    OBVIOUS
  <2>4. PICK u : u = Persistent(b)
    OBVIOUS
  <2>5. r \in Row /\ u \in Row
    BY <2>1, <2>3, <2>4, PersistentRow
  <2>6. /\ r.price = a.price /\ r.real = a.real /\ r.dayHigh = a.dayHigh /\ r.dayLow = a.dayLow
        /\ r.close = a.close /\ r.exchange = a.exchange /\ r.market = a.market
        /\ r.bankrupt = a.bankrupt
    BY <2>1, <2>3, PersistentRow
  <2>7. /\ u.price = b.price /\ u.real = b.real /\ u.dayHigh = b.dayHigh /\ u.dayLow = b.dayLow
        /\ u.close = b.close /\ u.exchange = b.exchange /\ u.market = b.market
        /\ u.bankrupt = b.bankrupt
    BY <2>1, <2>4, PersistentRow
  <2>8. r = u
    BY <2>2, <2>5, <2>6, <2>7, SameRow
  <2> QED
    BY <1>2, <1>3, <2>3, <2>4, <2>8
<1>5. CASE j.pc = "save" /\ j.op \in PriceOps
  BY <1>5 DEF Undone
<1>6. CASE j.pc # "save"
  BY <1>6 DEF Undone
<1> QED
  BY <1>4, <1>5, <1>6

\* The day's fields may be set while a worker changes the stock.
SetOf(s) == {[s EXCEPT !.close = s.price], [s EXCEPT !.dayHigh = s.price, !.dayLow = s.price]}

LEMMA SetFields ==
  ASSUME NEW s \in Stock, NEW t \in SetOf(s)
  PROVE  /\ t \in Stock /\ t.price = s.price /\ t.real = s.real /\ t.bankrupt = s.bankrupt
         /\ t.exchange = s.exchange /\ t.market = s.market
         /\ t.volume = s.volume /\ t.high = s.high /\ t.low = s.low
         /\ t.close \in {s.close, s.price}
         /\ \/ t.dayHigh = s.dayHigh /\ t.dayLow = s.dayLow
            \/ t.dayHigh = s.price /\ t.dayLow = s.price
<1>1. s.price \in Nat
  BY DEF Stock
<1>2. CASE t = [s EXCEPT !.close = s.price]
  BY <1>1, <1>2 DEF Stock
<1>3. CASE t = [s EXCEPT !.dayHigh = s.price, !.dayLow = s.price]
  BY <1>1, <1>3 DEF Stock
<1> QED
  BY <1>2, <1>3 DEF SetOf

LEMMA SetSensible ==
  ASSUME NEW s \in Stock, NEW t \in SetOf(s), DayOK(s), MinuteOK(s)
  PROVE  DayOK(t) /\ MinuteOK(t)
<1>1. s.price \in Nat
  BY DEF Stock
<1> QED
  BY <1>1, SetFields DEF DayOK, MinuteOK

LEMMA SetSame ==
  ASSUME NEW s \in Stock, NEW t \in SetOf(s), NEW j, IsJob(j), NEW r \in Row,
         SameButDay(Persistent(Undone(j, s)), r)
  PROVE  SameButDay(Persistent(Undone(j, t)), r)
<1>1. PICK a : a = Undone(j, s)
  OBVIOUS
<1>2. PICK b : b = Undone(j, t)
  OBVIOUS
<1>3. /\ t \in Stock /\ t.price = s.price /\ t.real = s.real /\ t.bankrupt = s.bankrupt
      /\ t.exchange = s.exchange /\ t.market = s.market
      /\ t.close \in {s.close, s.price}
      /\ \/ t.dayHigh = s.dayHigh /\ t.dayLow = s.dayLow
         \/ t.dayHigh = s.price /\ t.dayLow = s.price
  BY SetFields
<1>4. a \in Stock /\ b \in Stock
  BY <1>1, <1>2, <1>3, UndoneStock
<1>5. CASE j.pc = "save" /\ j.op \in PriceOps
  BY <1>5 DEF Undone
<1>6. CASE j.pc # "save" \/ j.op \notin PriceOps
  <2>1. /\ a.exchange = b.exchange /\ a.market = b.market /\ a.price = b.price /\ a.real = b.real
        /\ a.bankrupt = b.bankrupt
        /\ b.close \in {a.close, a.price}
        /\ \/ b.dayHigh = a.dayHigh /\ b.dayLow = a.dayLow
           \/ b.dayHigh = a.price /\ b.dayLow = a.price
    <3>1. CASE j.pc # "save"
      BY <1>1, <1>2, <1>3, <3>1 DEF Undone
    <3>2. CASE j.pc = "save" /\ j.op \notin PriceOps
      <4>1. /\ a.exchange = IF j.op = "add" THEN OneLess(s.exchange) ELSE j.old.exchange
            /\ a.market = IF j.op = "add" THEN s.market ELSE j.old.market
            /\ a.price = s.price /\ a.real = s.real /\ a.bankrupt = s.bankrupt
            /\ a.close = s.close /\ a.dayHigh = s.dayHigh /\ a.dayLow = s.dayLow
        BY <1>1, <3>2, UndoneStock
      <4>2. /\ b.exchange = IF j.op = "add" THEN OneLess(t.exchange) ELSE j.old.exchange
            /\ b.market = IF j.op = "add" THEN t.market ELSE j.old.market
            /\ b.price = t.price /\ b.real = t.real /\ b.bankrupt = t.bankrupt
            /\ b.close = t.close /\ b.dayHigh = t.dayHigh /\ b.dayLow = t.dayLow
        BY <1>2, <1>3, <3>2, UndoneStock
      <4> QED
        BY <1>3, <4>1, <4>2
    <3> QED
      BY <1>6, <3>1, <3>2
  <2>2. SameButDay(Persistent(a), r)
    BY <1>1
  <2> QED
    BY <1>2, <1>4, <2>1, <2>2, PersistentRow DEF SameButDay
<1> QED
  BY <1>5, <1>6

\* The row is what is in memory: then so it is when undone, whatever a worker has changed.
LEMMA NothingChanged ==
  ASSUME NEW s \in Stock, NEW j, IsJob(j), NEW avg, Changed(j, s, avg), NEW r \in Row,
         r = Persistent(s), SameButDay(Persistent(Undone(j, s)), r),
         j.pc = "save" => j.op \in PriceOps \cup {"add", "buy"}
  PROVE  Persistent(Undone(j, s)) = r
<1>1. PICK a : a = Undone(j, s)
  OBVIOUS
<1>2. a \in Stock
  BY <1>1, UndoneStock
<1>3. PICK b : b = Persistent(a)
  OBVIOUS
<1>4. b \in Row
  BY <1>2, <1>3, PersistentRow
<1>5. /\ b.price = a.price /\ b.real = a.real /\ b.dayHigh = a.dayHigh /\ b.dayLow = a.dayLow
      /\ b.close = a.close /\ b.exchange = a.exchange /\ b.market = a.market
      /\ b.bankrupt = a.bankrupt
  BY <1>2, <1>3, PersistentRow
<1>6. /\ r.price = s.price /\ r.real = s.real /\ r.dayHigh = s.dayHigh /\ r.dayLow = s.dayLow
      /\ r.close = s.close /\ r.exchange = s.exchange /\ r.market = s.market
      /\ r.bankrupt = s.bankrupt
  BY PersistentRow
<1>7. SameButDay(b, r)
  BY <1>1, <1>3
<1>8. /\ s.exchange \in 0 .. MaxUint /\ s.price \in Nat /\ s.dayHigh \in Nat /\ s.dayLow \in Nat
  BY DEF Stock
<1>9. CASE j.pc # "save"
  BY <1>9 DEF Undone
<1>10. CASE j.pc = "save" /\ j.op \in PriceOps
  <2>1. a = j.old
    BY <1>1, <1>10, UndoneStock
  <2>2. /\ s.close \in {a.close, s.price}
        /\ \/ /\ s.dayHigh = Higher(a.dayHigh, s.price)
              /\ s.dayLow = IF s.price > a.dayHigh THEN a.dayLow ELSE Lower(a.dayLow, s.price)
           \/ s.dayHigh = s.price /\ s.dayLow = s.price
    BY <1>10, <2>1 DEF Changed
  <2>3. b.close = r.close
    BY <1>5, <1>6, <1>7, <2>2 DEF SameButDay
  <2>4. b.dayHigh = r.dayHigh /\ b.dayLow = r.dayLow
    BY <1>5, <1>6, <1>7, <1>8, <2>2 DEF SameButDay, Higher, Lower
  <2>5. b = r
    BY <1>4, <1>7, <2>3, <2>4, SameRow DEF SameButDay
  <2> QED
    BY <1>1, <1>3, <2>5
<1>11. CASE j.pc = "save" /\ j.op = "add"
  <2>1. a.exchange = OneLess(s.exchange)
    BY <1>1, <1>11, UndoneStock DEF PriceOps
  <2>2. a.exchange # s.exchange
    BY <1>8, <2>1, OneMoreOneLess
  <2> QED
    BY <1>5, <1>6, <1>7, <2>2 DEF SameButDay
<1>12. CASE j.pc = "save" /\ j.op = "buy"
  <2>1. a.exchange = j.old.exchange
    BY <1>1, <1>12, UndoneStock DEF PriceOps
  <2>2. a.exchange # s.exchange
    BY <1>8, <1>12, <2>1 DEF Changed
  <2> QED
    BY <1>5, <1>6, <1>7, <2>2 DEF SameButDay
<1> QED
  BY <1>9, <1>10, <1>11, <1>12

\* How a worker has changed the stock is seen in what a row keeps.
LEMMA ChangedSame ==
  ASSUME NEW s \in Stock, NEW t \in Stock, Persistent(s) = Persistent(t), NEW j, NEW avg,
         Changed(j, s, avg)
  PROVE  Changed(j, t, avg)
<1>1. /\ s.price = t.price /\ s.real = t.real /\ s.dayHigh = t.dayHigh /\ s.dayLow = t.dayLow
      /\ s.close = t.close /\ s.exchange = t.exchange /\ s.market = t.market
      /\ s.bankrupt = t.bankrupt
  BY PersistentRow
<1> QED
  BY <1>1 DEF Changed

LEMMA ChangedSet ==
  ASSUME NEW s \in Stock, NEW t \in SetOf(s), NEW j, NEW avg, Changed(j, s, avg)
  PROVE  Changed(j, t, avg)
<1>1. /\ t.price = s.price /\ t.real = s.real /\ t.bankrupt = s.bankrupt
      /\ t.exchange = s.exchange /\ t.market = s.market
      /\ t.close \in {s.close, s.price}
      /\ \/ t.dayHigh = s.dayHigh /\ t.dayLow = s.dayLow
         \/ t.dayHigh = s.price /\ t.dayLow = s.price
  BY SetFields
<1>2. /\ j.op \in PriceOps =>
           /\ t.real = avg
           /\ t.exchange = j.old.exchange /\ t.market = j.old.market
           /\ t.bankrupt = j.old.bankrupt
           /\ t.close \in {j.old.close, t.price}
  BY <1>1 DEF Changed
<1>3. j.op \in PriceOps =>
           \/ /\ t.dayHigh = Higher(j.old.dayHigh, t.price)
              /\ t.dayLow = IF t.price > j.old.dayHigh THEN j.old.dayLow
                            ELSE Lower(j.old.dayLow, t.price)
           \/ t.dayHigh = t.price /\ t.dayLow = t.price
  BY <1>1 DEF Changed
<1>4. j.op = "buy" /\ j.pc = "save" =>
           j.old.exchange = t.exchange + 1 /\ t.market = j.old.market + 1
  BY <1>1 DEF Changed
<1> QED
  BY <1>2, <1>3, <1>4 DEF Changed

------------------------------------------------------------------------------
(* Steps of workers, changes of the board *)

LEMMA WorkStep ==
  ASSUME NEW x \in Workers, NEW j, work = [y \in Workers |-> work[y]],
         work' = [work EXCEPT ![x] = j]
  PROVE  /\ work'[x] = j /\ \A y \in Workers : y # x => work'[y] = work[y]
         /\ work' = [y \in Workers |-> work'[y]]
OBVIOUS

LEMMA OnePlace ==
  ASSUME board \in Seq(Object), NEW g \in 1 .. Current, NEW s \in Stock, NEW b,
         b = [board EXCEPT ![g].stock = s]
  PROVE  /\ b \in Seq(Object) /\ Len(b) = Current
         /\ b[g].stock = s
         /\ \A k \in 1 .. Current : b[k].holder = board[k].holder
         /\ \A k \in 1 .. Current : k # g => b[k] = board[k]
<1>1. board \in [1 .. Current -> Object] /\ Current \in Nat /\ DOMAIN board = 1 .. Current
  BY DEF Current
<1>2. board[g] \in Object /\ board[g] = [holder |-> board[g].holder, stock |-> board[g].stock]
      /\ board[g].holder \in Workers \cup {NoOne}
  <2>1. board[g] \in Object
    BY <1>1
  <2> QED
    BY <2>1 DEF Object
<1>3. PICK o : o = [board[g] EXCEPT !.stock = s]
  OBVIOUS
<1>4. o = [holder |-> board[g].holder, stock |-> s]
  BY <1>2, <1>3
<1>5. o \in Object /\ o.stock = s /\ o.holder = board[g].holder
  BY <1>2, <1>4 DEF Object
<1>6. b = [board EXCEPT ![g] = o]
  BY <1>1, <1>3
<1>7. b \in [1 .. Current -> Object]
  BY <1>1, <1>5, <1>6
<1>8. b \in Seq(Object) /\ Len(b) = Current
  BY <1>1, <1>7
<1> QED
  BY <1>1, <1>5, <1>6, <1>8

Placed(b, g, h, c, s) == [[b EXCEPT ![g].holder = h] EXCEPT ![c].stock = s]

\* The holder of one object and the stock of another, or of the same one.
Places(g, h, c, s) ==
  /\ board' \in Seq(Object) /\ Current' = Current
  /\ board'[g].holder = h /\ board'[c].stock = s
  /\ \A k \in 1 .. Current : k # g => board'[k].holder = board[k].holder
  /\ \A k \in 1 .. Current : k # c => board'[k].stock = board[k].stock

LEMMA TwoPlaces ==
  ASSUME board \in Seq(Object), NEW g \in 1 .. Current, NEW h \in Workers \cup {NoOne},
         NEW c \in 1 .. Current, NEW s \in Stock,
         board' = Placed(board, g, h, c, s)
  PROVE  Places(g, h, c, s)
<1>1. board \in [1 .. Current -> Object] /\ Current \in Nat /\ DOMAIN board = 1 .. Current
  BY DEF Current
<1>2. \A k \in 1 .. Current : board[k] \in Object
  BY <1>1
<1>3. PICK q : q = [board[g] EXCEPT !.holder = h]
  OBVIOUS
<1>4. q \in Object /\ q.holder = h /\ q.stock = board[g].stock
  <2>1. board[g] \in Object
    BY <1>2
  <2>2. board[g] = [holder |-> board[g].holder, stock |-> board[g].stock]
        /\ board[g].stock \in Stock
    BY <2>1 DEF Object
  <2>3. q = [holder |-> h, stock |-> board[g].stock]
    BY <1>3, <2>2
  <2> QED
    BY <2>2, <2>3 DEF Object
<1>b. PICK b : b = [board EXCEPT ![g] = q]
  OBVIOUS
<1>5. /\ b \in [1 .. Current -> Object] /\ DOMAIN b = 1 .. Current /\ b[g].holder = h
      /\ \A k \in 1 .. Current : b[k].stock = board[k].stock
      /\ \A k \in 1 .. Current : k # g => b[k] = board[k]
  BY <1>1, <1>4, <1>b
<1>6. b[c] \in Object /\ b[c] = [holder |-> b[c].holder, stock |-> b[c].stock]
      /\ b[c].holder \in Workers \cup {NoOne}
  <2>1. b[c] \in Object
    BY <1>5
  <2> QED
    BY <2>1 DEF Object
<1>7. PICK o : o = [b[c] EXCEPT !.stock = s]
  OBVIOUS
<1>8. o = [holder |-> b[c].holder, stock |-> s]
  BY <1>6, <1>7
<1>9. o \in Object /\ o.stock = s /\ o.holder = b[c].holder
  BY <1>6, <1>8 DEF Object
<1>10. board' = [b EXCEPT ![c] = o]
  BY <1>1, <1>3, <1>b, <1>5, <1>7 DEF Placed
<1>11. board' \in [1 .. Current -> Object]
  BY <1>5, <1>9, <1>10
<1>12. board' \in Seq(Object) /\ Current' = Current
  BY <1>1, <1>11 DEF Current
<1>13. board'[g].holder = h
  BY <1>4, <1>5, <1>9, <1>10
<1>14. board'[c].stock = s
  BY <1>5, <1>9, <1>10
<1>15. \A k \in 1 .. Current : k # g => board'[k].holder = board[k].holder
  BY <1>4, <1>5, <1>9, <1>10
<1>16. \A k \in 1 .. Current : k # c => board'[k].stock = board[k].stock
  BY <1>4, <1>5, <1>10
<1> QED
  BY <1>12, <1>13, <1>14, <1>15, <1>16 DEF Places

------------------------------------------------------------------------------
(* The types *)

LEMMA PlainJob ==
  ASSUME NEW op \in Ops, NEW pc \in Pcs, NEW todo
  PROVE  /\ IsJob(Job(op, pc, todo))
         /\ Job(op, pc, todo).op = op /\ Job(op, pc, todo).pc = pc
         /\ Job(op, pc, todo).todo = todo /\ Job(op, pc, todo).held = {}
         /\ DayOK(Job(op, pc, todo).old) /\ MinuteOK(Job(op, pc, todo).old)
         /\ DayOK(Job(op, pc, todo).rows)
<1>1. PICK s : s = Loaded(NoRow).stock
  OBVIOUS
<1>2. s \in Stock /\ DayOK(s) /\ MinuteOK(s) /\ NoRow \in Row /\ DayOK(NoRow)
  BY <1>1, NoRowRow
<1>3. PICK r : r = NoRow
  OBVIOUS
<1>4. PICK j : j = Job(op, pc, todo)
  OBVIOUS
<1>5. j = [op |-> op, pc |-> pc, todo |-> todo, held |-> {}, price |-> 0, quantity |-> 0,
           object |-> 0, changed |-> 0, old |-> s, rows |-> r]
  BY <1>1, <1>3, <1>4 DEF Job
<1>6. /\ j.op = op /\ j.pc = pc /\ j.todo = todo /\ j.held = {} /\ j.old = s /\ j.rows = r
  BY <1>5
<1>7. IsJob(j)
  BY <1>2, <1>3, <1>5, <1>6 DEF IsJob
<1> QED
  BY <1>2, <1>3, <1>4, <1>6, <1>7

Asked(op, pc, todo, p, q) == [Job(op, pc, todo) EXCEPT !.price = p, !.quantity = q]

LEMMA PricedJob ==
  ASSUME NEW op \in Ops, NEW pc \in Pcs, NEW todo, NEW p \in Nat, NEW q \in Nat
  PROVE  /\ IsJob(Asked(op, pc, todo, p, q))
         /\ Asked(op, pc, todo, p, q).op = op /\ Asked(op, pc, todo, p, q).pc = pc
         /\ Asked(op, pc, todo, p, q).held = {}
         /\ DayOK(Asked(op, pc, todo, p, q).old) /\ MinuteOK(Asked(op, pc, todo, p, q).old)
         /\ DayOK(Asked(op, pc, todo, p, q).rows)
<1>0. PICK j : j = Asked(op, pc, todo, p, q)
  OBVIOUS
<1>1. PICK s : s = Loaded(NoRow).stock
  OBVIOUS
<1>2. s \in Stock /\ DayOK(s) /\ MinuteOK(s) /\ NoRow \in Row /\ DayOK(NoRow)
  BY <1>1, NoRowRow
<1>3. PICK r : r = NoRow
  OBVIOUS
<1>4. j = [op |-> op, pc |-> pc, todo |-> todo, held |-> {}, price |-> p, quantity |-> q,
           object |-> 0, changed |-> 0, old |-> s, rows |-> r]
  BY <1>0, <1>1, <1>3 DEF Asked, Job
<1>5. /\ j.op = op /\ j.pc = pc /\ j.todo = todo /\ j.held = {} /\ j.old = s /\ j.rows = r
  BY <1>4
<1>6. IsJob(j)
  BY <1>2, <1>3, <1>4, <1>5 DEF IsJob
<1> QED
  BY <1>0, <1>2, <1>3, <1>5, <1>6

LEMMA IdleJob ==
  /\ IsJob(Idle) /\ Idle.op = "idle" /\ Idle.pc = "idle" /\ Idle.held = {}
  /\ DayOK(Idle.old) /\ MinuteOK(Idle.old) /\ DayOK(Idle.rows)
  /\ \A n : PlaceOK(Idle, n)
<1>1. "idle" \in Ops /\ "idle" \in Pcs
  BY DEF Ops, Pcs
<1>2. /\ IsJob(Idle) /\ Idle.op = "idle" /\ Idle.pc = "idle" /\ Idle.held = {}
      /\ DayOK(Idle.old) /\ MinuteOK(Idle.old) /\ DayOK(Idle.rows)
  BY <1>1, PlainJob DEF Idle
<1>3. \A n : PlaceOK(Idle, n)
  BY <1>2 DEF PlaceOK, AtObject, Holding
<1> QED
  BY <1>2, <1>3

LEMMA GoJob ==
  ASSUME NEW i, IsJob(i), NEW pc \in Pcs, NEW j, j = [i EXCEPT !.pc = pc]
  PROVE  /\ IsJob(j) /\ j.op = i.op /\ j.pc = pc /\ j.held = i.held /\ j.old = i.old
         /\ j.rows = i.rows /\ j.object = i.object /\ j.changed = i.changed
<1>1. i = [op |-> i.op, pc |-> i.pc, todo |-> i.todo, held |-> i.held, price |-> i.price,
           quantity |-> i.quantity, object |-> i.object, changed |-> i.changed,
           old |-> i.old, rows |-> i.rows]
      /\ i.op \in Ops /\ i.price \in Nat /\ i.quantity \in Nat /\ i.object \in Nat
      /\ i.changed \in Nat /\ i.old \in Stock /\ i.rows \in Row
  BY DEF IsJob
<1>2. /\ j = [op |-> i.op, pc |-> pc, todo |-> i.todo, held |-> i.held, price |-> i.price,
              quantity |-> i.quantity, object |-> i.object, changed |-> i.changed,
              old |-> i.old, rows |-> i.rows]
  BY <1>1
<1>3. /\ j.op = i.op /\ j.pc = pc /\ j.held = i.held /\ j.old = i.old /\ j.todo = i.todo
      /\ j.rows = i.rows /\ j.object = i.object /\ j.changed = i.changed
  BY <1>2
<1>4. IsJob(j)
  BY <1>1, <1>2, <1>3 DEF IsJob
<1> QED
  BY <1>3, <1>4

\* One worker does something.
LEMMA WorkTypesStep ==
  ASSUME WorkTypes, NEW x \in Workers, NEW j, IsJob(j), work' = [work EXCEPT ![x] = j],
         Current \in Nat, Current' \in Nat, Current' >= Current, PlaceOK(j, Current')
  PROVE  WorkTypes'
<1>1. /\ work'[x] = j /\ \A y \in Workers : y # x => work'[y] = work[y]
      /\ work' = [y \in Workers |-> work'[y]]
  BY WorkStep DEF WorkTypes
<1>2. ASSUME NEW y \in Workers PROVE IsJob(work'[y]) /\ PlaceOK(work'[y], Current')
  <2>1. CASE y = x
    BY <1>1, <2>1
  <2>2. CASE y # x
    <3>1. PICK i : i = work[y]
      OBVIOUS
    <3>2. IsJob(i) /\ PlaceOK(i, Current)
      BY <3>1 DEF WorkTypes
    <3>3. \A k \in 1 .. Current : k \in 1 .. Current'
      OBVIOUS
    <3>4. PICK n : n = Current
      OBVIOUS
    <3>5. PICK m : m = Current'
      OBVIOUS
    <3>6. PlaceOK(i, n) /\ \A k \in 1 .. n : k \in 1 .. m
      BY <3>2, <3>3, <3>4, <3>5
    <3>7. PlaceOK(i, m)
      BY <3>6 DEF PlaceOK
    <3> QED
      BY <1>1, <2>2, <3>1, <3>2, <3>5, <3>7
  <2> QED
    BY <2>1, <2>2
<1> QED
  BY <1>1, <1>2 DEF WorkTypes

LEMMA WorkTypesSame ==
  ASSUME WorkTypes, UNCHANGED work, Current' = Current
  PROVE  WorkTypes'
BY DEF WorkTypes

LEMMA ReturnTypes ==
  ASSUME WorkTypes, UserTypes, NEW x \in Workers, Return(x), Current \in Nat, Current' \in Nat,
         Current' >= Current
  PROVE  WorkTypes' /\ holder' \in [Users -> Workers \cup {NoOne}]
<1>1. WorkTypes'
  BY IdleJob, WorkTypesStep DEF Return
<1>2. holder' \in [Users -> Workers \cup {NoOne}]
  BY DEF Return, UserTypes
<1> QED
  BY <1>1, <1>2

LEMMA BoardFacts ==
  ASSUME BoardTypes
  PROVE  /\ Current \in Nat /\ Current > 0 /\ Current \in 1 .. Current
         /\ \A g \in 1 .. Current : board[g].stock \in Stock
                                    /\ board[g].holder \in Workers \cup {NoOne}
         /\ Now \in Stock
<1>1. board \in [1 .. Current -> Object] /\ Current \in Nat /\ Current > 0
  BY DEF BoardTypes, Current
<1>2. \A g \in 1 .. Current : board[g] \in Object
  BY <1>1
<1>3. \A g \in 1 .. Current : board[g].stock \in Stock /\ board[g].holder \in Workers \cup {NoOne}
  BY <1>2 DEF Object
<1>4. Current \in 1 .. Current
  BY <1>1
<1> QED
  BY <1>1, <1>3, <1>4 DEF Now

LEMMA NextStock ==
  ASSUME BoardTypes'
  PROVE  Now' \in Stock
<1>1. board' \in [1 .. Current' -> Object] /\ Current' \in 1 .. Current'
  BY DEF BoardTypes, Current
<1>2. board'[Current'] \in Object
  BY <1>1
<1> QED
  BY <1>2 DEF Now, Object

\* All that is in memory is read again.
LEMMA RestartedBoard ==
  ASSUME Restarted, row' \in Row
  PROVE  /\ board' \in Seq(Object) /\ Current' = 1 /\ Now' = Loaded(row').stock
         /\ board'[1] = Loaded(row') /\ board'[1].holder = NoOne
         /\ average' \in Nat /\ average' = row'.real
<1>1. PICK o : o = Loaded(row')
  OBVIOUS
<1>2. o \in Object /\ o.holder = NoOne
  BY <1>1, LoadedStock
<1>3. board' = <<o>>
  BY <1>1 DEF Restarted
<1>4. board' \in Seq(Object) /\ Len(board') = 1 /\ board'[1] = o
  BY <1>2, <1>3
<1>5. row'.real \in Nat /\ average' = row'.real
  <2>1. average' = row'.real
    BY DEF Restarted
  <2> QED
    BY <2>1 DEF Row
<1> QED
  BY <1>1, <1>2, <1>4, <1>5 DEF Current, Now
  
LEMMA RestartedTypes ==
  ASSUME Types, Restarted, row' \in Row, paidRow' = paidRow,
         issued' \in Nat, bought' \in Nat, jobs' \in Nat, faults' \in Nat
  PROVE  Types'
<1>1. BoardTypes'
  BY RestartedBoard DEF BoardTypes
<1>2. UserTypes'
  BY DEF Restarted, UserTypes, Types
<1>3. WorkTypes'
  <2>1. work' = [x \in Workers |-> Idle]
    BY DEF Restarted
  <2>2. work' = [x \in Workers |-> work'[x]] /\ \A x \in Workers : work'[x] = Idle
    BY <2>1
  <2> QED
    BY <2>2, IdleJob DEF WorkTypes
<1>4. CountTypes'
  BY DEF Restarted, CountTypes, Types
<1> QED
  BY <1>1, <1>2, <1>3, <1>4 DEF Types

LEMMA StartTypes ==
  ASSUME Types, NEW x \in Workers, NEW j, IsJob(j), PlaceOK(j, Current), Start(x, j)
  PROVE  Types'
<1>1. BoardTypes'
  BY DEF Types, BoardTypes, Current, Start
<1>2. UserTypes'
  BY DEF Types, UserTypes, Start, users
<1>3. WorkTypes'
  <2>1. Current' = Current
    BY DEF Current, Start
  <2>2. Current \in Nat /\ WorkTypes
    BY BoardFacts DEF Types
  <2>3. Current' \in Nat /\ Current' >= Current /\ PlaceOK(j, Current')
    BY <2>1, <2>2
  <2>4. work' = [work EXCEPT ![x] = j]
    BY DEF Start
  <2> QED
    BY <2>2, <2>3, <2>4, WorkTypesStep
<1>4. CountTypes'
  BY DEF Types, CountTypes, Start, history
<1> QED
  BY <1>1, <1>2, <1>3, <1>4 DEF Types

\* The jobs that are begun.
StartOps(j) ==
  /\ j.held = {} /\ DayOK(j.old) /\ MinuteOK(j.old) /\ DayOK(j.rows)
  /\ \/ j.op \in {"trade", "buy", "dividends"} /\ j.pc = "users"
     \/ j.op \in {"price", "add"} /\ j.pc = "look"
     \/ j.op = "load" /\ j.pc = "read"

LEMMA StartPlace ==
  ASSUME NEW j, StartOps(j), NEW n
  PROVE  PlaceOK(j, n)
BY DEF StartOps, PlaceOK, PriceOps, AtObject, Holding

LEMMA BeginCases ==
  ASSUME NEW x \in Workers, Begin(x)
  PROVE  \/ \E j : IsJob(j) /\ StartOps(j) /\ Start(x, j)
         \/ SetPreviousDayClose(x) \/ SetDayHighAndLow(x)
<1>0. \A op \in {"trade", "buy", "dividends"} : op \in Ops
  BY DEF Ops
<1>a. {"users", "look", "read"} \subseteq Pcs /\ {"price", "add", "load"} \subseteq Ops
  BY DEF Ops, Pcs
<1>b. Count \in Nat
  BY BoardAssumption
<1>1. CASE StartTrade(x)
  <2>1. PICK p \in Prices, q \in 1 .. Count, pair \in SUBSET Users :
          Start(x, [Job("trade", "users", InOrder(pair)) EXCEPT !.price = p, !.quantity = q])
    BY <1>1 DEF StartTrade
  <2>2. PICK j : j = Asked("trade", "users", InOrder(pair), p, q)
    OBVIOUS
  <2>3. p \in Nat /\ q \in Nat
    BY BoardAssumption
  <2>6. /\ IsJob(j) /\ j.op = "trade" /\ j.pc = "users" /\ j.held = {}
        /\ DayOK(j.old) /\ MinuteOK(j.old) /\ DayOK(j.rows)
    <3>1. "trade" \in Ops /\ "users" \in Pcs
      BY DEF Ops, Pcs
    <3>2. PICK t : t = InOrder(pair)
      OBVIOUS
    <3>3. j = Asked("trade", "users", t, p, q)
      BY <2>2, <3>2
    <3> QED
      BY <2>3, <3>1, <3>3, PricedJob
  <2>7. StartOps(j)
    BY <2>6 DEF StartOps
  <2>8. Start(x, j)
    BY <2>1, <2>2 DEF Asked
  <2> QED
    BY <2>6, <2>7, <2>8
<1>2. CASE StartUpdateStockPrice(x)
  <2>1. PICK p \in Prices :
          Start(x, [Job("price", "look", <<>>) EXCEPT !.price = p, !.quantity = Count])
    BY <1>2 DEF StartUpdateStockPrice
  <2>2. PICK j : j = Asked("price", "look", <<>>, p, Count)
    OBVIOUS
  <2>3. p \in Nat
    BY BoardAssumption
  <2>6. /\ IsJob(j) /\ j.op = "price" /\ j.pc = "look" /\ j.held = {}
        /\ DayOK(j.old) /\ MinuteOK(j.old) /\ DayOK(j.rows)
    <3>1. "price" \in Ops /\ "look" \in Pcs
      BY DEF Ops, Pcs
    <3>2. PICK t : t = <<>>
      OBVIOUS
    <3>3. PICK o \in Ops, l \in Pcs, c \in Nat : o = "price" /\ l = "look" /\ c = Count
      BY <1>b, <3>1
    <3>4. j = Asked(o, l, t, p, c)
      BY <2>2, <3>2, <3>3
    <3>5. /\ IsJob(j) /\ j.op = o /\ j.pc = l /\ j.held = {}
          /\ DayOK(j.old) /\ MinuteOK(j.old) /\ DayOK(j.rows)
      BY <2>3, <3>4, PricedJob
    <3> QED
      BY <3>3, <3>5
  <2>7. StartOps(j)
    BY <2>6 DEF StartOps
  <2>8. Start(x, j)
    BY <2>1, <2>2 DEF Asked
  <2> QED
    BY <2>6, <2>7, <2>8
<1>3. ASSUME NEW op \in {"add", "buy", "dividends", "load"},
             NEW pc \in {"users", "look", "read"}, NEW t, Start(x, Job(op, pc, t)),
             \/ op \in {"buy", "dividends"} /\ pc = "users"
             \/ op = "add" /\ pc = "look"
             \/ op = "load" /\ pc = "read"
      PROVE  \E j : IsJob(j) /\ StartOps(j) /\ Start(x, j)
  <2>1. op \in Ops /\ pc \in Pcs
    BY <1>0, <1>a
  <2>2. PICK j : j = Job(op, pc, t)
    OBVIOUS
  <2>3. /\ IsJob(j) /\ j.op = op /\ j.pc = pc /\ j.held = {}
        /\ DayOK(j.old) /\ MinuteOK(j.old) /\ DayOK(j.rows)
    BY <2>1, <2>2, PlainJob
  <2>4. StartOps(j)
    BY <1>3, <2>3 DEF StartOps
  <2> QED
    BY <1>3, <2>2, <2>3, <2>4
<1>4. CASE StartAddStocksToExchange(x)
  BY <1>3, <1>4, Zenon DEF StartAddStocksToExchange
<1>5. CASE StartBuyFromExchange(x)
  <2>1. PICK u \in Users : Start(x, Job("buy", "users", <<u>>))
    BY <1>5 DEF StartBuyFromExchange
  <2> QED
    BY <1>3, <2>1, Zenon
<1>6. CASE StartDividends(x)
  <2>1. PICK owners \in SUBSET Users \ {{}} : Start(x, Job("dividends", "users", InOrder(owners)))
    BY <1>6 DEF StartDividends
  <2> QED
    BY <1>3, <2>1, Zenon
<1>7. CASE StartLoadStocks(x)
  BY <1>3, <1>7, Zenon DEF StartLoadStocks
<1> QED
  BY <1>1, <1>2, <1>4, <1>5, <1>6, <1>7 DEF Begin

\* A worker takes a user, looks an object up, changes its stock, reads the rows.
Taking(i, t, h) == [i EXCEPT !.todo = t, !.held = h]
LEMMA TakeJob ==
  ASSUME NEW i, IsJob(i), NEW t, NEW h, NEW j, j = Taking(i, t, h)
  PROVE  /\ IsJob(j)
         /\ j.todo = t /\ j.held = h /\ j.op = i.op /\ j.pc = i.pc /\ j.price = i.price
         /\ j.quantity = i.quantity /\ j.object = i.object /\ j.changed = i.changed
         /\ j.old = i.old /\ j.rows = i.rows
<1>1. /\ i = [op |-> i.op, pc |-> i.pc, todo |-> i.todo, held |-> i.held, price |-> i.price,
              quantity |-> i.quantity, object |-> i.object, changed |-> i.changed,
              old |-> i.old, rows |-> i.rows]
      /\ i.op \in Ops /\ i.pc \in Pcs /\ i.price \in Nat /\ i.quantity \in Nat
      /\ i.object \in Nat /\ i.changed \in Nat /\ i.old \in Stock /\ i.rows \in Row
  BY DEF IsJob
<1>2. j = [op |-> i.op, pc |-> i.pc, todo |-> t, held |-> h, price |-> i.price,
           quantity |-> i.quantity, object |-> i.object, changed |-> i.changed,
           old |-> i.old, rows |-> i.rows]
  BY <1>1 DEF Taking
<1>3. /\ j.todo = t /\ j.held = h /\ j.op = i.op /\ j.pc = i.pc /\ j.price = i.price
      /\ j.quantity = i.quantity /\ j.object = i.object /\ j.changed = i.changed
      /\ j.old = i.old /\ j.rows = i.rows
  BY <1>2
<1>4. IsJob(j)
  BY <1>1, <1>2, <1>3 DEF IsJob
<1> QED
  BY <1>3, <1>4

Looking(i, o, pc) == [i EXCEPT !.object = o, !.pc = pc]
LEMMA LookJob ==
  ASSUME NEW i, IsJob(i), NEW o \in Nat, NEW pc \in Pcs, NEW j, j = Looking(i, o, pc)
  PROVE  /\ IsJob(j)
         /\ j.object = o /\ j.pc = pc /\ j.op = i.op /\ j.todo = i.todo /\ j.held = i.held
         /\ j.price = i.price /\ j.quantity = i.quantity /\ j.changed = i.changed
         /\ j.old = i.old /\ j.rows = i.rows
<1>1. /\ i = [op |-> i.op, pc |-> i.pc, todo |-> i.todo, held |-> i.held, price |-> i.price,
              quantity |-> i.quantity, object |-> i.object, changed |-> i.changed,
              old |-> i.old, rows |-> i.rows]
      /\ i.op \in Ops /\ i.pc \in Pcs /\ i.price \in Nat /\ i.quantity \in Nat
      /\ i.object \in Nat /\ i.changed \in Nat /\ i.old \in Stock /\ i.rows \in Row
  BY DEF IsJob
<1>2. j = [op |-> i.op, pc |-> pc, todo |-> i.todo, held |-> i.held, price |-> i.price,
           quantity |-> i.quantity, object |-> o, changed |-> i.changed,
           old |-> i.old, rows |-> i.rows]
  BY <1>1 DEF Looking
<1>3. /\ j.object = o /\ j.pc = pc /\ j.op = i.op /\ j.todo = i.todo /\ j.held = i.held
      /\ j.price = i.price /\ j.quantity = i.quantity /\ j.changed = i.changed
      /\ j.old = i.old /\ j.rows = i.rows
  BY <1>2
<1>4. IsJob(j)
  BY <1>1, <1>2, <1>3 DEF IsJob
<1> QED
  BY <1>3, <1>4

Making(i, s, c, pc) == [i EXCEPT !.old = s, !.changed = c, !.pc = pc]
LEMMA ChangeJob ==
  ASSUME NEW i, IsJob(i), NEW s \in Stock, NEW c \in Nat, NEW pc \in Pcs, NEW j, j = Making(i, s, c, pc)
  PROVE  /\ IsJob(j)
         /\ j.old = s /\ j.changed = c /\ j.pc = pc /\ j.op = i.op /\ j.todo = i.todo
         /\ j.held = i.held /\ j.price = i.price /\ j.quantity = i.quantity
         /\ j.object = i.object /\ j.rows = i.rows
<1>1. /\ i = [op |-> i.op, pc |-> i.pc, todo |-> i.todo, held |-> i.held, price |-> i.price,
              quantity |-> i.quantity, object |-> i.object, changed |-> i.changed,
              old |-> i.old, rows |-> i.rows]
      /\ i.op \in Ops /\ i.pc \in Pcs /\ i.price \in Nat /\ i.quantity \in Nat
      /\ i.object \in Nat /\ i.changed \in Nat /\ i.old \in Stock /\ i.rows \in Row
  BY DEF IsJob
<1>2. j = [op |-> i.op, pc |-> pc, todo |-> i.todo, held |-> i.held, price |-> i.price,
           quantity |-> i.quantity, object |-> i.object, changed |-> c,
           old |-> s, rows |-> i.rows]
  BY <1>1 DEF Making
<1>3. /\ j.old = s /\ j.changed = c /\ j.pc = pc /\ j.op = i.op /\ j.todo = i.todo
      /\ j.held = i.held /\ j.price = i.price /\ j.quantity = i.quantity
      /\ j.object = i.object /\ j.rows = i.rows
  BY <1>2
<1>4. IsJob(j)
  BY <1>1, <1>2, <1>3 DEF IsJob
<1> QED
  BY <1>3, <1>4

Reading(i, r, pc) == [i EXCEPT !.rows = r, !.pc = pc]
LEMMA ReadJob ==
  ASSUME NEW i, IsJob(i), NEW r \in Row, NEW pc \in Pcs, NEW j, j = Reading(i, r, pc)
  PROVE  /\ IsJob(j)
         /\ j.rows = r /\ j.pc = pc /\ j.op = i.op /\ j.todo = i.todo /\ j.held = i.held
         /\ j.price = i.price /\ j.quantity = i.quantity /\ j.object = i.object
         /\ j.changed = i.changed /\ j.old = i.old
<1>1. /\ i = [op |-> i.op, pc |-> i.pc, todo |-> i.todo, held |-> i.held, price |-> i.price,
              quantity |-> i.quantity, object |-> i.object, changed |-> i.changed,
              old |-> i.old, rows |-> i.rows]
      /\ i.op \in Ops /\ i.pc \in Pcs /\ i.price \in Nat /\ i.quantity \in Nat
      /\ i.object \in Nat /\ i.changed \in Nat /\ i.old \in Stock /\ i.rows \in Row
  BY DEF IsJob
<1>2. j = [op |-> i.op, pc |-> pc, todo |-> i.todo, held |-> i.held, price |-> i.price,
           quantity |-> i.quantity, object |-> i.object, changed |-> i.changed,
           old |-> i.old, rows |-> r]
  BY <1>1 DEF Reading
<1>3. /\ j.rows = r /\ j.pc = pc /\ j.op = i.op /\ j.todo = i.todo /\ j.held = i.held
      /\ j.price = i.price /\ j.quantity = i.quantity /\ j.object = i.object
      /\ j.changed = i.changed /\ j.old = i.old
  BY <1>2
<1>4. IsJob(j)
  BY <1>1, <1>2, <1>3 DEF IsJob
<1> QED
  BY <1>3, <1>4

\* A worker goes on, and the board stays what it is.
LEMMA SameBoardTypes ==
  ASSUME BoardTypes, UNCHANGED <<row, board, average>>
  PROVE  BoardTypes' /\ Current' = Current
BY DEF BoardTypes, Current

LEMMA TakeUserTypes ==
  ASSUME Types, NEW x \in Workers, TakeUser(x)
  PROVE  Types'
<1>1. BoardTypes' /\ Current' = Current /\ Current \in Nat
  BY SameBoardTypes, BoardFacts DEF Types, TakeUser
<1>2. UserTypes'
  <2>1. PICK u : /\ holder' = [holder EXCEPT ![u] = x]
                 /\ paid' = IF Op(x) = "dividends" THEN [paid EXCEPT ![u] = @ + 1] ELSE paid
    BY DEF TakeUser
  <2>2. holder' \in [Users -> Workers \cup {NoOne}]
    BY <2>1 DEF Types, UserTypes
  <2>3. paid' \in [Users -> Nat]
    <3>1. paid \in [Users -> Nat]
      BY DEF Types, UserTypes
    <3>2. [paid EXCEPT ![u] = @ + 1] \in [Users -> Nat]
      <4>1. CASE u \in Users
        <5>1. paid[u] + 1 \in Nat
          BY <3>1, <4>1
        <5> QED
          BY <3>1, <5>1
      <4>2. CASE u \notin Users
        <5>1. [paid EXCEPT ![u] = @ + 1] = [v \in Users |-> paid[v]]
          BY <3>1, <4>2
        <5> QED
          BY <3>1, <5>1
      <4> QED
        BY <4>1, <4>2
    <3> QED
      BY <2>1, <3>1, <3>2
  <2>4. paidRow' \in [Users -> Nat]
    BY DEF TakeUser, Types, UserTypes
  <2> QED
    BY <2>2, <2>3, <2>4 DEF UserTypes
<1>3. WorkTypes'
  <2>1. PICK i : i = work[x]
    OBVIOUS
  <2>2. IsJob(i) /\ PlaceOK(i, Current) /\ i.pc = "users"
    BY <2>1 DEF Types, WorkTypes, TakeUser, At
  <2>3. PICK t, h : work' = [work EXCEPT ![x] = [i EXCEPT !.todo = t, !.held = h]]
    BY <2>1 DEF TakeUser
  <2>4. PICK j : j = Taking(i, t, h)
    OBVIOUS
  <2>5. IsJob(j) /\ j.op = i.op /\ j.pc = i.pc
    BY <2>2, <2>4, TakeJob
  <2>6. PlaceOK(j, Current')
    BY <1>1, <2>2, <2>5 DEF PlaceOK, AtObject, Holding
  <2>7. WorkTypes /\ Current' \in Nat /\ Current' >= Current
    BY <1>1 DEF Types
  <2>8. work' = [work EXCEPT ![x] = j]
    BY <2>3, <2>4 DEF Taking
  <2> QED
    BY <1>1, <2>5, <2>6, <2>7, <2>8, WorkTypesStep
<1>4. CountTypes'
  BY DEF Types, CountTypes, TakeUser, history
<1> QED
  BY <1>1, <1>2, <1>3, <1>4 DEF Types

\* A worker goes from one place to the next.
LEMMA GoTypes ==
  ASSUME Types, NEW x \in Workers, NEW pc \in Pcs, Go(x, pc), Current' = Current,
         pc \notin {"idle", "read", "install"} \cup AtObject,
         work[x].pc \notin {"idle", "read", "install"},
         pc \in {"details", "revert"} => Op(x) = "dividends",
         pc = "look" => Op(x) \in PriceOps \cup {"add"}
  PROVE  WorkTypes'
<1>1. PICK i : i = work[x]
  OBVIOUS
<1>2. IsJob(i) /\ PlaceOK(i, Current) /\ Current \in Nat
  BY <1>1, BoardFacts DEF Types, WorkTypes
<1>3. PICK j : j = [i EXCEPT !.pc = pc]
  OBVIOUS
<1>4. IsJob(j) /\ j.op = i.op /\ j.pc = pc
  BY <1>2, <1>3, GoJob
<1>5. work' = [work EXCEPT ![x] = j]
  BY <1>1, <1>3 DEF Go
<1>6. PlaceOK(j, Current')
  BY <1>1, <1>2, <1>4 DEF PlaceOK, AtObject, Holding, Op
<1>7. WorkTypes /\ Current' \in Nat /\ Current' >= Current
  BY <1>2 DEF Types
<1> QED
  BY <1>2, <1>4, <1>5, <1>6, <1>7, WorkTypesStep

LEMMA QuietTypes ==
  ASSUME Types, NEW x \in Workers,
         LookUp(x) \/ UpdateStockVolume(x) \/ CommitDividends(x) \/ ReadRows(x)
  PROVE  Types'
<1>1. PICK i : i = work[x]
  OBVIOUS
<1>2. IsJob(i) /\ PlaceOK(i, Current) /\ Current \in Nat /\ Current \in 1 .. Current
  BY <1>1, BoardFacts DEF Types, WorkTypes
<1>p. {"lock", "details", "look", "install"} \subseteq Pcs
  BY DEF Pcs
<1>3. CASE LookUp(x)
  <2>1. BoardTypes' /\ Current' = Current
    BY <1>3, SameBoardTypes DEF Types, LookUp
  <2>2. UserTypes' /\ CountTypes'
    BY <1>3 DEF LookUp, Types, UserTypes, CountTypes, users, history
  <2>3. WorkTypes'
    <3>1. PICK pc \in Pcs, n \in Nat : pc = "lock" /\ n = Current
      BY <1>p, <1>2
    <3>2. PICK j : j = Looking(i, n, pc)
      OBVIOUS
    <3>3. IsJob(j) /\ j.op = i.op /\ j.pc = pc /\ j.object = n
      BY <1>2, <3>2, LookJob
    <3>4. work' = [work EXCEPT ![x] = j]
      BY <1>1, <1>3, <3>1, <3>2 DEF LookUp, Looking
    <3>5. i.pc = "look" \/ i.op = "buy"
      BY <1>1, <1>3 DEF LookUp, At, Op
    <3>6. PlaceOK(j, Current')
      BY <1>2, <2>1, <3>1, <3>3, <3>5 DEF PlaceOK, AtObject, Holding, PriceOps
    <3>7. WorkTypes /\ Current' \in Nat /\ Current' >= Current
      BY <1>2, <2>1 DEF Types
    <3> QED
      BY <1>2, <3>3, <3>4, <3>6, <3>7, WorkTypesStep
  <2> QED
    BY <2>1, <2>2, <2>3 DEF Types
<1>4. CASE UpdateStockVolume(x)
  <2>0. i.quantity \in Nat
    BY <1>2 DEF IsJob
  <2>1. PICK s : s = [Now EXCEPT !.volume = @ + i.quantity]
    OBVIOUS
  <2>2. s \in Stock
    BY <2>0, <2>1, BoardFacts DEF Types, Stock
  <2>3. board \in Seq(Object) /\ Current \in 1 .. Current
    BY <1>2 DEF Types, BoardTypes
  <2>4. board' = [board EXCEPT ![Current].stock = s]
    BY <1>1, <1>4, <2>1, <2>3 DEF UpdateStockVolume, Now
  <2>5. board' \in Seq(Object) /\ Len(board') = Current
    BY <2>2, <2>3, <2>4, OnePlace
  <2>6. BoardTypes' /\ Current' = Current
    BY <1>4, <2>5 DEF Types, BoardTypes, Current, UpdateStockVolume
  <2>7. UserTypes' /\ CountTypes'
    BY <1>1, <1>4, <2>0 DEF UpdateStockVolume, Types, UserTypes, CountTypes, users
  <2>8. WorkTypes'
    BY <1>4, <1>p, <2>6, GoTypes DEF UpdateStockVolume, AtObject, At, PriceOps
  <2> QED
    BY <2>6, <2>7, <2>8 DEF Types
<1>5. CASE CommitDividends(x)
  <2>1. BoardTypes' /\ Current' = Current
    BY <1>5, SameBoardTypes DEF Types, CommitDividends
  <2>2. UserTypes' /\ CountTypes'
    BY <1>5 DEF CommitDividends, Types, UserTypes, CountTypes, history
  <2>3. WorkTypes'
    BY <1>5, <1>p, <2>1, GoTypes DEF CommitDividends, AtObject, At
  <2> QED
    BY <2>1, <2>2, <2>3 DEF Types
<1>6. CASE ReadRows(x)
  <2>1. BoardTypes' /\ Current' = Current
    BY <1>6, SameBoardTypes DEF Types, ReadRows
  <2>2. UserTypes' /\ CountTypes'
    BY <1>6 DEF ReadRows, Types, UserTypes, CountTypes, users, history
  <2>3. WorkTypes'
    <3>1. PICK pc \in Pcs, r \in Row : pc = "install" /\ r = row
      BY <1>p DEF Types, BoardTypes
    <3>2. PICK j : j = Reading(i, r, pc)
      OBVIOUS
    <3>3. IsJob(j) /\ j.op = i.op /\ j.pc = pc
      BY <1>2, <3>2, ReadJob
    <3>4. work' = [work EXCEPT ![x] = j]
      BY <1>1, <1>6, <3>1, <3>2 DEF ReadRows, Reading
    <3>5. i.pc = "read"
      BY <1>1, <1>6 DEF ReadRows, At
    <3>6. PlaceOK(j, Current')
      BY <1>2, <2>1, <3>1, <3>3, <3>5 DEF PlaceOK, AtObject, Holding, PriceOps
    <3>7. WorkTypes /\ Current' \in Nat /\ Current' >= Current
      BY <1>2, <2>1 DEF Types
    <3> QED
      BY <1>2, <3>3, <3>4, <3>6, <3>7, WorkTypesStep
  <2> QED
    BY <2>1, <2>2, <2>3 DEF Types
<1> QED
  BY <1>3, <1>4, <1>5, <1>6

\* What a worker that holds an object unlocks, and where it leaves the stock.
LEMMA UnlockBoard ==
  ASSUME BoardTypes, WorkTypes, NEW x \in Workers, work[x].pc \in Holding, NEW s \in Stock,
         Unlock(x, s, work[x].changed)
  PROVE  LET u == IF Op(x) = "buy" THEN Current ELSE work[x].object
             c == work[x].changed
         IN /\ u \in 1 .. Current /\ c \in 1 .. Current
            /\ board' \in Seq(Object) /\ Current' = Current
            /\ board'[u].holder = NoOne /\ board'[c].stock = s
            /\ \A k \in 1 .. Current : k # u => board'[k].holder = board[k].holder
            /\ \A k \in 1 .. Current : k # c => board'[k].stock = board[k].stock
<1>1. PICK u : u = IF Op(x) = "buy" THEN Current ELSE work[x].object
  OBVIOUS
<1>2. PICK c : c = work[x].changed
  OBVIOUS
<1>3. PlaceOK(work[x], Current) /\ Current \in 1 .. Current
  BY BoardFacts DEF WorkTypes
<1>4. u \in 1 .. Current /\ c \in 1 .. Current
  BY <1>1, <1>2, <1>3 DEF PlaceOK, Holding, AtObject
<1>5. PICK h : h = NoOne
  OBVIOUS
<1>6. board' = Placed(board, u, h, c, s)
  BY <1>1, <1>2, <1>5 DEF Unlock, Placed
<1>7. h \in Workers \cup {NoOne} /\ board \in Seq(Object)
  BY <1>5 DEF BoardTypes
<1>8. Places(u, h, c, s)
  BY <1>4, <1>6, <1>7, TwoPlaces
<1> QED
  BY <1>1, <1>2, <1>4, <1>5, <1>8 DEF Places

LEMMA HeldStock ==
  ASSUME BoardTypes, WorkTypes, NEW x \in Workers, work[x].pc \in Holding
  PROVE  /\ IsJob(work[x]) /\ work[x].changed \in 1 .. Current
         /\ board[work[x].changed].stock \in Stock
         /\ work[x].pc = "save" => Restored(x) = Undone(work[x], board[work[x].changed].stock)
         /\ Restored(x) \in Stock \/ work[x].pc # "save"
         /\ work[x].op \in PriceOps \cup {"add", "buy"}
<1>1. PlaceOK(work[x], Current) /\ IsJob(work[x])
  BY DEF WorkTypes
<1>2. work[x].changed \in 1 .. Current /\ work[x].op \in PriceOps \cup {"add", "buy"}
  BY <1>1 DEF PlaceOK, Holding, AtObject
<1>3. PICK s : s = board[work[x].changed].stock
  OBVIOUS
<1>4. s \in Stock
  BY <1>2, <1>3, BoardFacts
<1>5. ASSUME work[x].pc = "save"
      PROVE  Restored(x) = Undone(work[x], s)
  <2>1. CASE work[x].op \in PriceOps
    BY <1>5, <2>1 DEF Restored, Undone, Op, PriceOps
  <2>2. CASE work[x].op = "add"
    BY <1>3, <1>5, <2>2 DEF Restored, Undone, Op, PriceOps
  <2>3. CASE work[x].op = "buy"
    BY <1>3, <1>5, <2>3 DEF Restored, Undone, Op, PriceOps
  <2> QED
    BY <1>2, <2>1, <2>2, <2>3
<1>6. work[x].pc = "save" => Restored(x) \in Stock
  BY <1>1, <1>4, <1>5, UndoneStock
<1> QED
  BY <1>1, <1>2, <1>3, <1>4, <1>5, <1>6

\* A worker gives its object back, or the program ends.
LEMMA EndTypes ==
  ASSUME Types, NEW x \in Workers, work[x].pc \in Holding, NEW s \in Stock,
         \/ Unlock(x, s, work[x].changed) /\ UNCHANGED <<average, paid>>
            /\ traded' = traded /\ missed' \in BOOLEAN /\ overlap' = overlap
         \/ UnlockFails(x),
         row' \in Row, paidRow' = paidRow, jobs' \in Nat, faults' \in Nat,
         issued' \in Nat, bought' \in Nat
  PROVE  Types'
<1>1. CASE UnlockFails(x)
  BY <1>1, RestartedTypes DEF UnlockFails
<1>2. CASE /\ Unlock(x, s, work[x].changed) /\ UNCHANGED <<average, paid>>
           /\ traded' = traded /\ missed' \in BOOLEAN /\ overlap' = overlap
  <2>1. Current' = Current /\ board' \in Seq(Object) /\ Current \in Nat /\ Current > 0
    BY <1>2, UnlockBoard, BoardFacts DEF Types
  <2>2. BoardTypes'
    BY <1>2, <2>1 DEF Types, BoardTypes
  <2>3. Return(x) /\ wedged' \subseteq wedged \cup {"object"}
    BY <1>2 DEF Unlock
  <2>4. WorkTypes' /\ holder' \in [Users -> Workers \cup {NoOne}]
    BY <2>1, <2>3, ReturnTypes DEF Types
  <2>5. UserTypes'
    BY <1>2, <2>4 DEF Types, UserTypes
  <2>6. CountTypes'
    BY <1>2, <2>3 DEF Types, CountTypes
  <2> QED
    BY <2>2, <2>4, <2>5, <2>6 DEF Types
<1> QED
  BY <1>1, <1>2

LEMMA SavingTypes ==
  ASSUME Types, NEW x \in Workers, SaveStock(x) \/ SaveStockFails(x) \/ NotEnoughStocks(x)
  PROVE  Types'
<1>1. BoardTypes /\ WorkTypes /\ CountTypes
  BY DEF Types
<1>2. work[x].pc \in Holding
  BY DEF SaveStock, SaveStockFails, NotEnoughStocks, At, Holding
<1>3. PICK s \in Stock : s = board[work[x].changed].stock
  BY <1>1, <1>2, HeldStock
<1>4. CASE SaveStock(x)
  <2>1. row' \in Row
    BY <1>3, <1>4, PersistentRow DEF SaveStock
  <2>2. issued' \in Nat /\ bought' \in Nat /\ jobs' \in Nat /\ faults' \in Nat
    BY <1>1, <1>4 DEF SaveStock, CountTypes
  <2>3. \/ Unlock(x, s, work[x].changed) /\ UNCHANGED <<average, paid>>
           /\ traded' = traded /\ missed' \in BOOLEAN /\ overlap' = overlap
        \/ UnlockFails(x)
    BY <1>1, <1>3, <1>4 DEF SaveStock, CountTypes
  <2>4. paidRow' = paidRow
    BY <1>4 DEF SaveStock
  <2> QED
    BY <1>2, <2>1, <2>2, <2>3, <2>4, EndTypes
<1>5. CASE SaveStockFails(x)
  <2>0. PICK t \in Stock : t = Restored(x)
    BY <1>1, <1>2, <1>5, HeldStock DEF SaveStockFails, At
  <2>1. row' \in Row
    BY <1>1, <1>5 DEF SaveStockFails, BoardTypes
  <2>2. issued' \in Nat /\ bought' \in Nat /\ jobs' \in Nat /\ faults' \in Nat
    BY <1>1, <1>5 DEF SaveStockFails, CountTypes
  <2>3. \/ Unlock(x, t, work[x].changed) /\ UNCHANGED <<average, paid>>
           /\ traded' = traded /\ missed' \in BOOLEAN /\ overlap' = overlap
        \/ UnlockFails(x)
    BY <1>1, <1>5, <2>0 DEF SaveStockFails, CountTypes
  <2>4. paidRow' = paidRow
    BY <1>5 DEF SaveStockFails
  <2> QED
    BY <1>2, <2>1, <2>2, <2>3, <2>4, EndTypes
<1>6. CASE NotEnoughStocks(x)
  <2>1. row' \in Row
    BY <1>1, <1>6 DEF NotEnoughStocks, BoardTypes
  <2>2. issued' \in Nat /\ bought' \in Nat /\ jobs' \in Nat /\ faults' \in Nat
    BY <1>1, <1>6 DEF NotEnoughStocks, CountTypes
  <2>3. \/ Unlock(x, s, work[x].changed) /\ UNCHANGED <<average, paid>>
           /\ traded' = traded /\ missed' \in BOOLEAN /\ overlap' = overlap
        \/ UnlockFails(x)
    BY <1>1, <1>3, <1>6 DEF NotEnoughStocks, CountTypes
  <2>4. paidRow' = paidRow
    BY <1>6 DEF NotEnoughStocks
  <2> QED
    BY <1>2, <2>1, <2>2, <2>3, <2>4, EndTypes
<1> QED
  BY <1>4, <1>5, <1>6

\* With the lock of the object it found, a worker makes t of the stock s of the object c.
Makes(x, c, s, t) ==
  /\ work[x].pc = "lock" /\ work[x].object \in 1 .. Current
  /\ c = (IF Op(x) = "buy" THEN Current ELSE work[x].object) /\ c \in 1 .. Current
  /\ s = board[c].stock /\ s \in Stock /\ t \in Stock /\ average' \in Nat
  /\ Op(x) \in PriceOps \cup {"add", "buy"}
  /\ Op(x) \in PriceOps => t = Priced(s, average')
  /\ Op(x) = "add" => t = [s EXCEPT !.exchange = OneMore(@)]
  /\ Op(x) = "buy" /\ ~ NoneLeft(s) => t = [s EXCEPT !.exchange = OneLess(@), !.market = @ + 1]
  /\ Op(x) = "buy" /\ NoneLeft(s) => t = s
  /\ Places(work[x].object, x, c, t)
  /\ work'[x].op = Op(x) /\ work'[x].object = work[x].object /\ work'[x].changed = c
  /\ work'[x].old = s /\ work'[x].held = work[x].held /\ work'[x].rows = work[x].rows
  /\ work'[x].pc = (IF Op(x) = "buy" /\ NoneLeft(s) THEN "none left" ELSE "save")
  /\ \A y \in Workers : y # x => work'[y] = work[y]

LEMMA ChangeTypes ==
  ASSUME Types, NEW x \in Workers, ChangeStock(x)
  PROVE  Types' /\ \E c, s, t : Makes(x, c, s, t)
<1>1. PICK g, c, s : /\ g = work[x].object
                     /\ c = IF Op(x) = "buy" THEN Current ELSE g
                     /\ s = board[c].stock
  OBVIOUS
<1>2. PICK i : i = work[x]
  OBVIOUS
<1>3. IsJob(i) /\ PlaceOK(i, Current) /\ i.pc = "lock" /\ i.op = Op(x)
  BY <1>2 DEF Types, WorkTypes, ChangeStock, At, Op
<1>4. BoardTypes /\ WorkTypes /\ CountTypes /\ UserTypes /\ Current \in 1 .. Current
  BY BoardFacts DEF Types
<1>5. g \in 1 .. Current /\ c \in 1 .. Current /\ i.op \in PriceOps \cup {"add", "buy"}
  BY <1>1, <1>2, <1>3, <1>4 DEF PlaceOK, AtObject
<1>6. s \in Stock
  BY <1>1, <1>4, <1>5, BoardFacts
<1>7. average' \in Nat
  <2>1. average \in Nat /\ i.price \in Nat /\ i.quantity \in Nat
    BY <1>3, <1>4 DEF IsJob, BoardTypes
  <2>2. Averaged(i.price, i.quantity) \in Nat
    BY <2>1, AveragedNat
  <2> QED
    BY <1>2, <2>1, <2>2 DEF ChangeStock
<1>8. PICK t : t = (CASE Op(x) \in {"trade", "price"} -> Priced(s, average')
                      [] Op(x) = "add" -> [s EXCEPT !.exchange = OneMore(@)]
                      [] Op(x) = "buy" /\ ~ NoneLeft(s) ->
                           [s EXCEPT !.exchange = OneLess(@), !.market = @ + 1]
                      [] OTHER -> s)
  OBVIOUS
<1>9. /\ Op(x) \in PriceOps => t = Priced(s, average')
      /\ Op(x) = "add" => t = [s EXCEPT !.exchange = OneMore(@)]
      /\ Op(x) = "buy" /\ ~ NoneLeft(s) => t = [s EXCEPT !.exchange = OneLess(@), !.market = @ + 1]
      /\ Op(x) = "buy" /\ NoneLeft(s) => t = s
  <2>1. CASE Op(x) \in PriceOps
    BY <1>8, <2>1 DEF PriceOps
  <2>2. CASE Op(x) = "add"
    BY <1>8, <2>2 DEF PriceOps
  <2>3. CASE Op(x) = "buy" /\ ~ NoneLeft(s)
    BY <1>8, <2>3 DEF PriceOps
  <2>4. CASE Op(x) = "buy" /\ NoneLeft(s)
    BY <1>8, <2>4 DEF PriceOps
  <2> QED
    BY <1>3, <1>5, <2>1, <2>2, <2>3, <2>4 DEF PriceOps
<1>10. t \in Stock
  <2>1. s.exchange \in 0 .. MaxUint /\ s.market \in Nat
    BY <1>6 DEF Stock
  <2>2. OneMore(s.exchange) \in 0 .. MaxUint /\ OneLess(s.exchange) \in 0 .. MaxUint
    BY <2>1, OneMoreOneLess
  <2>3. CASE Op(x) \in PriceOps
    BY <1>6, <1>7, <1>9, <2>3, PricedStock
  <2>4. CASE Op(x) = "add"
    BY <1>6, <1>9, <2>2, <2>4 DEF Stock
  <2>5. CASE Op(x) = "buy" /\ ~ NoneLeft(s)
    <3>1. PICK e, m : e = OneLess(s.exchange) /\ m = s.market + 1
      OBVIOUS
    <3>2. e \in 0 .. MaxUint /\ m \in Nat
      BY <2>1, <2>2, <3>1
    <3>3. t = [s EXCEPT !.exchange = e, !.market = m]
      BY <1>9, <2>5, <3>1
    <3> QED
      BY <1>6, <3>2, <3>3 DEF Stock
  <2>6. CASE Op(x) = "buy" /\ NoneLeft(s)
    BY <1>6, <1>9, <2>6
  <2> QED
    BY <1>3, <1>5, <2>3, <2>4, <2>5, <2>6
<1>11. board' = Placed(board, g, x, c, t)
  BY <1>1, <1>8 DEF ChangeStock, Placed
<1>12. Places(g, x, c, t)
  <2>1. board \in Seq(Object) /\ x \in Workers \cup {NoOne}
    BY <1>4 DEF BoardTypes
  <2> QED
    BY <1>5, <1>10, <1>11, <2>1, TwoPlaces
<1>13. PICK pc : pc = IF Op(x) = "buy" /\ NoneLeft(s) THEN "none left" ELSE "save"
  OBVIOUS
<1>14. pc \in Pcs /\ c \in Nat
  <2>1. c \in Nat
    BY <1>5
  <2>2. pc \in {"save", "none left"}
    BY <1>13
  <2> QED
    BY <2>1, <2>2 DEF Pcs
<1>15. PICK j : j = Making(i, s, c, pc)
  OBVIOUS
<1>16. /\ IsJob(j) /\ j.op = i.op /\ j.pc = pc /\ j.object = i.object /\ j.changed = c
       /\ j.old = s /\ j.held = i.held /\ j.rows = i.rows
  BY <1>3, <1>6, <1>14, <1>15, ChangeJob
<1>17. work' = [work EXCEPT ![x] = j]
  BY <1>1, <1>2, <1>13, <1>15 DEF ChangeStock, Making
<1>18. Current' = Current /\ Current \in Nat /\ Current' \in Nat /\ Current' >= Current
  BY <1>4, <1>12, BoardFacts DEF Places
<1>19. PlaceOK(j, Current')
  <2>1. j.op \in PriceOps \cup {"add", "buy"} /\ j.object \in 1 .. Current /\ j.changed \in 1 .. Current
    BY <1>1, <1>2, <1>5, <1>16
  <2>2. j.pc \in {"save", "none left"} /\ (j.pc = "none left" => j.op = "buy")
    BY <1>3, <1>13, <1>16
  <2> QED
    BY <1>18, <2>1, <2>2 DEF PlaceOK, AtObject, Holding, PriceOps
<1>20. WorkTypes'
  BY <1>4, <1>16, <1>17, <1>18, <1>19, WorkTypesStep
<1>21. work'[x] = j /\ \A y \in Workers : y # x => work'[y] = work[y]
  BY <1>4, <1>17, WorkStep DEF WorkTypes
<1>22. BoardTypes'
  BY <1>4, <1>7, <1>12, <1>18 DEF BoardTypes, Places, ChangeStock
<1>23. UserTypes' /\ CountTypes'
  BY <1>4 DEF UserTypes, CountTypes, ChangeStock, users, history
<1>24. Types'
  BY <1>20, <1>22, <1>23 DEF Types
<1>25. /\ c \in 1 .. Current /\ s \in Stock /\ average' \in Nat /\ work[x].pc = "lock"
       /\ work[x].object \in 1 .. Current /\ Op(x) \in PriceOps \cup {"add", "buy"}
  BY <1>1, <1>2, <1>3, <1>5, <1>6, <1>7
<1>26. /\ work'[x].op = Op(x) /\ work'[x].object = g /\ work'[x].changed = c /\ work'[x].old = s
       /\ work'[x].held = work[x].held /\ work'[x].rows = work[x].rows /\ work'[x].pc = pc
       /\ \A y \in Workers : y # x => work'[y] = work[y]
  BY <1>1, <1>2, <1>3, <1>16, <1>21
<1>27. Makes(x, c, s, t)
  BY <1>1, <1>9, <1>10, <1>12, <1>13, <1>25, <1>26 DEF Makes
<1> QED
  BY <1>24, <1>27

LEMMA LoadBoard ==
  ASSUME BoardTypes, WorkTypes, NEW x \in Workers, LoadStocks(x)
  PROVE  /\ IsJob(work[x]) /\ work[x].rows \in Row
         /\ board' \in Seq(Object) /\ Current' = Current + 1
         /\ board'[Current + 1] = Loaded(work[x].rows)
         /\ \A g \in 1 .. Current : board'[g] = board[g]
<1>1. IsJob(work[x]) /\ Current \in Nat /\ board \in Seq(Object)
  BY BoardFacts DEF WorkTypes, BoardTypes
<1>2. PICK r : r = work[x].rows
  OBVIOUS
<1>3. r \in Row
  BY <1>1, <1>2 DEF IsJob
<1>4. PICK o : o = Loaded(r)
  OBVIOUS
<1>5. o \in Object
  BY <1>3, <1>4, LoadedStock
<1>6. board' = Append(board, o)
  BY <1>2, <1>4 DEF LoadStocks
<1>7. /\ board' \in Seq(Object) /\ Len(board') = Len(board) + 1
      /\ board'[Len(board) + 1] = o
      /\ \A g \in 1 .. Len(board) : board'[g] = board[g]
  BY <1>1, <1>5, <1>6
<1> QED
  BY <1>1, <1>2, <1>3, <1>4, <1>7 DEF Current

LEMMA LeavingTypes ==
  ASSUME Types, NEW x \in Workers,
         GetCompanyDetails(x) \/ DividendsFail(x) \/ LoadStocks(x) \/ LoadStocksFails(x)
  PROVE  Types'
<1>1. BoardTypes /\ WorkTypes /\ CountTypes /\ UserTypes /\ Current \in Nat
  BY BoardFacts DEF Types
<1>2. ASSUME UNCHANGED <<row, board, average>>
      PROVE  BoardTypes' /\ Current' = Current /\ Current' \in Nat /\ Current' >= Current
  BY <1>1, <1>2, SameBoardTypes
<1>3. ASSUME Return(x), Current' \in Nat, Current' >= Current, paid' = paid, paidRow' = paidRow
      PROVE  WorkTypes' /\ UserTypes'
  BY <1>1, <1>3, ReturnTypes DEF UserTypes
<1>4. CASE GetCompanyDetails(x)
  <2>1. CountTypes'
    BY <1>1, <1>4 DEF CountTypes, GetCompanyDetails, history
  <2> QED
    BY <1>2, <1>3, <1>4, <2>1 DEF Types, GetCompanyDetails
<1>5. CASE DividendsFail(x)
  <2>1. CountTypes'
    <3>1. wedged' \subseteq wedged \cup {"users"}
      BY <1>5 DEF DividendsFail
    <3>2. faults' = faults + 1 /\ UNCHANGED <<jobs, history>>
      BY <1>5 DEF DividendsFail
    <3> QED
      BY <1>1, <3>1, <3>2 DEF CountTypes, history
  <2>2. BoardTypes' /\ Current' = Current /\ Current' \in Nat /\ Current' >= Current
    BY <1>2, <1>5 DEF DividendsFail
  <2>3. CASE Return(x)
    BY <1>3, <1>5, <2>1, <2>2, <2>3 DEF Types, DividendsFail
  <2>4. CASE Go(x, "revert") /\ holder' = holder
    <3>1. WorkTypes'
      <4>1. "revert" \in Pcs
        BY DEF Pcs
      <4> QED
        BY <1>5, <2>2, <2>4, <4>1, GoTypes DEF DividendsFail, At, AtObject
    <3>2. UserTypes'
      BY <1>1, <1>5, <2>4 DEF UserTypes, DividendsFail
    <3> QED
      BY <2>1, <2>2, <3>1, <3>2 DEF Types
  <2> QED
    BY <1>5, <2>3, <2>4 DEF DividendsFail
<1>6. CASE LoadStocks(x)
  <2>1. /\ work[x].rows \in Row /\ board' \in Seq(Object) /\ Current' = Current + 1
    BY <1>1, <1>6, LoadBoard
  <2>2. Current' \in Nat /\ Current' >= Current /\ Current' > 0
    BY <1>1, <2>1
  <2>3. average' \in Nat
    BY <1>6, <2>1 DEF LoadStocks, Row
  <2>4. BoardTypes'
    BY <1>1, <1>6, <2>1, <2>2, <2>3 DEF BoardTypes, LoadStocks
  <2>5. CountTypes'
    <3>1. overlap' \in {"never", "now", "over"}
      BY <1>1, <1>6 DEF CountTypes, LoadStocks
    <3>2. /\ traded' = 0 /\ missed' = FALSE /\ UNCHANGED <<wedged, jobs, issued, bought>>
          /\ faults' = faults
      BY <1>6 DEF LoadStocks
    <3> QED
      BY <1>1, <3>1, <3>2 DEF CountTypes
  <2>6. WorkTypes' /\ UserTypes'
    BY <1>3, <1>6, <2>2 DEF LoadStocks
  <2> QED
    BY <2>4, <2>5, <2>6 DEF Types
<1>7. CASE LoadStocksFails(x)
  <2>1. CountTypes'
    BY <1>1, <1>7 DEF CountTypes, LoadStocksFails
  <2> QED
    BY <1>2, <1>3, <1>7, <2>1 DEF Types, LoadStocksFails
<1> QED
  BY <1>4, <1>5, <1>6, <1>7

\* The current object gets another stock.
LEMMA NewStock ==
  ASSUME BoardTypes, NEW s \in Stock, board' = [board EXCEPT ![Current].stock = s]
  PROVE  /\ board' \in Seq(Object) /\ Current' = Current /\ Now' = s
         /\ board'[Current].stock = s
         /\ \A k \in 1 .. Current : board'[k].holder = board[k].holder
         /\ \A k \in 1 .. Current : k # Current => board'[k] = board[k]
<1>1. Current \in 1 .. Current /\ board \in Seq(Object)
  BY BoardFacts DEF BoardTypes
<1>2. PICK g \in 1 .. Current : g = Current
  BY <1>1
<1>3. board' = [board EXCEPT ![g].stock = s]
  BY <1>2
<1>4. /\ board' \in Seq(Object) /\ Len(board') = Current
      /\ board'[g].stock = s
      /\ \A k \in 1 .. Current : board'[k].holder = board[k].holder
      /\ \A k \in 1 .. Current : k # g => board'[k] = board[k]
  BY <1>1, <1>3, OnePlace
<1>5. Current' = Current
  BY <1>4 DEF Current
<1> QED
  BY <1>2, <1>4, <1>5 DEF Now

LEMMA SetDayTypes ==
  ASSUME Types, NEW x \in Workers, NEW t \in SetOf(Now), SetDay(x, t)
  PROVE  Types' /\ t \in Stock /\ Now' = t /\ Current' = Current
         /\ IsJob(work'[x]) /\ StartOps(work'[x]) /\ work'[x].op = "load" /\ work'[x].pc = "read"
         /\ \A y \in Workers : y # x => work'[y] = work[y]
<1>1. BoardTypes /\ WorkTypes /\ CountTypes /\ UserTypes /\ Current \in Nat /\ Now \in Stock
  BY BoardFacts DEF Types
<1>2. t \in Stock
  BY <1>1, SetFields
<1>3. /\ board' \in Seq(Object) /\ Current' = Current /\ Now' = t /\ board'[Current].stock = t
  BY <1>1, <1>2, NewStock DEF SetDay
<1>4. row' \in Row
  BY <1>1, <1>2, <1>3, PersistentRow DEF SetDay, BoardTypes
<1>5. BoardTypes'
  BY <1>1, <1>3, <1>4 DEF BoardTypes, SetDay
<1>6. CountTypes' /\ UserTypes'
  BY <1>1 DEF CountTypes, UserTypes, SetDay, users
<1>7. PICK j : j = Job("load", "read", <<>>)
  OBVIOUS
<1>8. IsJob(j) /\ StartOps(j) /\ j.op = "load" /\ j.pc = "read"
  <2>1. "load" \in Ops /\ "read" \in Pcs
    BY DEF Ops, Pcs
  <2>2. /\ IsJob(j) /\ j.op = "load" /\ j.pc = "read" /\ j.held = {}
        /\ DayOK(j.old) /\ MinuteOK(j.old) /\ DayOK(j.rows)
    BY <1>7, <2>1, PlainJob
  <2> QED
    BY <2>2 DEF StartOps
<1>9. work' = [work EXCEPT ![x] = j]
  BY <1>7 DEF SetDay
<1>10. PlaceOK(j, Current') /\ Current' \in Nat /\ Current' >= Current
  BY <1>1, <1>3, <1>8, StartPlace
<1>11. WorkTypes'
  BY <1>1, <1>8, <1>9, <1>10, WorkTypesStep
<1>12. work'[x] = j /\ \A y \in Workers : y # x => work'[y] = work[y]
  BY <1>1, <1>9, WorkStep DEF WorkTypes
<1>13. Types'
  BY <1>5, <1>6, <1>11 DEF Types
<1> QED
  BY <1>2, <1>3, <1>8, <1>12, <1>13

\* A bankruptcy, and a new minute.
LEMMA BankruptStock ==
  ASSUME NEW s \in Stock, NEW b \in BOOLEAN, NEW t, t = [s EXCEPT !.bankrupt = b, !.price = 0]
  PROVE  /\ t \in Stock /\ t.price = 0 /\ t.real = s.real /\ t.exchange = s.exchange
         /\ t.market = s.market /\ t.volume = s.volume /\ t.dayHigh = s.dayHigh
         /\ t.dayLow = s.dayLow /\ t.high = s.high /\ t.low = s.low
BY DEF Stock

LEMMA NewMinute ==
  ASSUME NEW s \in Stock, NEW t, t = [s EXCEPT !.high = s.price, !.low = s.price, !.volume = 0]
  PROVE  /\ t \in Stock /\ t.volume = 0 /\ MinuteOK(t) /\ (DayOK(s) => DayOK(t))
         /\ Persistent(t) = Persistent(s)
<1>1. s.price \in Nat
  BY DEF Stock
<1>2. /\ t \in Stock /\ t.volume = 0 /\ t.price = s.price /\ t.high = s.price /\ t.low = s.price
      /\ t.dayHigh = s.dayHigh /\ t.dayLow = s.dayLow
  BY <1>1 DEF Stock
<1>3. /\ t.real = s.real /\ t.close = s.close /\ t.exchange = s.exchange /\ t.market = s.market
      /\ t.bankrupt = s.bankrupt
  BY DEF Stock
<1>4. Persistent(t) = Persistent(s)
  BY <1>2, <1>3 DEF Persistent
<1> QED
  BY <1>1, <1>2, <1>4 DEF MinuteOK, DayOK

\* The current object has another stock.
OnlyNow ==
  /\ Current' = Current
  /\ \A k \in 1 .. Current : board'[k].holder = board[k].holder
  /\ \A k \in 1 .. Current : k # Current => board'[k].stock = board[k].stock

LEMMA BoardTypesStep ==
  ASSUME Types
  PROVE  /\ \A b \in BOOLEAN : SetBankruptcy(b) => Types' /\ UNCHANGED work /\ OnlyNow /\
              \E t \in Stock : t = [Now EXCEPT !.bankrupt = b, !.price = 0]
                               /\ Now' = t /\ row' = Persistent(t)
         /\ RecordOneMinuteOHLC => Types' /\ UNCHANGED work /\ OnlyNow /\
              \E t \in Stock : t = [Now EXCEPT !.high = Now.price, !.low = Now.price, !.volume = 0]
                               /\ Now' = t
         /\ InvalidStock => Types'
         /\ Crash => Types'
<1>1. BoardTypes /\ WorkTypes /\ CountTypes /\ UserTypes /\ Current \in Nat /\ Now \in Stock
  BY BoardFacts DEF Types
<1>2. ASSUME NEW b \in BOOLEAN, SetBankruptcy(b)
      PROVE  Types' /\ UNCHANGED work /\ OnlyNow /\
             \E t \in Stock : t = [Now EXCEPT !.bankrupt = b, !.price = 0]
                              /\ Now' = t /\ row' = Persistent(t)
  <2>1. PICK t : t = [Now EXCEPT !.bankrupt = b, !.price = 0]
    OBVIOUS
  <2>2. t \in Stock
    BY <1>1, <2>1, BankruptStock
  <2>3. board' = [board EXCEPT ![Current].stock = t]
    <3>1. DOMAIN board = 1 .. Current /\ Current \in 1 .. Current
      BY <1>1, BoardFacts DEF BoardTypes, Current
    <3>2. board[Current] \in Object
      BY <1>1, <3>1 DEF BoardTypes, Current
    <3>3. DOMAIN board[Current] = {"holder", "stock"}
      BY <3>2 DEF Object
    <3> QED
      BY <1>2, <2>1, <3>1, <3>3 DEF SetBankruptcy, Now
  <2>4. board' \in Seq(Object) /\ Current' = Current /\ Now' = t /\ board'[Current].stock = t
    BY <1>1, <2>2, <2>3, NewStock
  <2>a. OnlyNow
    BY <1>1, <2>2, <2>3, NewStock DEF OnlyNow
  <2>5. row' = Persistent(t)
    BY <1>2, <2>4 DEF SetBankruptcy
  <2>6. BoardTypes'
    BY <1>1, <1>2, <2>2, <2>4, <2>5, PersistentRow DEF BoardTypes, SetBankruptcy
  <2>7. UserTypes' /\ CountTypes' /\ WorkTypes' /\ UNCHANGED work
    BY <1>1, <1>2, <2>4, WorkTypesSame DEF SetBankruptcy, CountTypes, UserTypes, users, history
  <2> QED
    BY <2>1, <2>2, <2>a, <2>4, <2>5, <2>6, <2>7 DEF Types
<1>3. ASSUME RecordOneMinuteOHLC
      PROVE  Types' /\ UNCHANGED work /\ OnlyNow /\
             \E t \in Stock : t = [Now EXCEPT !.high = Now.price, !.low = Now.price, !.volume = 0]
                              /\ Now' = t
  <2>1. PICK t : t = [Now EXCEPT !.high = Now.price, !.low = Now.price, !.volume = 0]
    OBVIOUS
  <2>2. t \in Stock
    BY <1>1, <2>1, NewMinute
  <2>3. board' = [board EXCEPT ![Current].stock = t]
    BY <1>3, <2>1 DEF RecordOneMinuteOHLC, Now
  <2>4. board' \in Seq(Object) /\ Current' = Current /\ Now' = t /\ board'[Current].stock = t
    BY <1>1, <2>2, <2>3, NewStock
  <2>a. OnlyNow
    BY <1>1, <2>2, <2>3, NewStock DEF OnlyNow
  <2>5. BoardTypes'
    BY <1>1, <1>3, <2>4 DEF BoardTypes, RecordOneMinuteOHLC
  <2>6. UserTypes' /\ CountTypes' /\ WorkTypes' /\ UNCHANGED work
    BY <1>1, <1>3, <2>4, WorkTypesSame DEF RecordOneMinuteOHLC, CountTypes, UserTypes, users
  <2> QED
    BY <2>1, <2>2, <2>a, <2>4, <2>5, <2>6 DEF Types
<1>4. ASSUME InvalidStock PROVE Types'
  <2>1. BoardTypes' /\ Current' = Current
    BY <1>1, <1>4, SameBoardTypes DEF InvalidStock
  <2>2. UserTypes' /\ WorkTypes'
    BY <1>1, <1>4, <2>1, WorkTypesSame DEF InvalidStock, UserTypes, users
  <2>3. CountTypes'
    BY <1>1, <1>4 DEF InvalidStock, CountTypes, history
  <2> QED
    BY <2>1, <2>2, <2>3 DEF Types
<1>5. ASSUME Crash PROVE Types'
  <2>1. row' \in Row /\ issued' \in Nat /\ bought' \in Nat /\ jobs' \in Nat /\ faults' \in Nat
    BY <1>1, <1>5 DEF Crash, BoardTypes, CountTypes
  <2> QED
    BY <1>5, <2>1, RestartedTypes DEF Crash
<1> QED
  BY <1>2, <1>3, <1>4, <1>5

LEMMA SetDayCases ==
  ASSUME BoardTypes, NEW x \in Workers, SetPreviousDayClose(x) \/ SetDayHighAndLow(x)
  PROVE  \E t \in SetOf(Now) : SetDay(x, t)
BY DEF SetPreviousDayClose, SetDayHighAndLow, SetOf, Now

LEMMA TypesKept ==
  ASSUME Types, [Next]_vars
  PROVE  Types'
<1>1. ASSUME NEW x \in Workers, Begin(x) PROVE Types'
  <2>1. ASSUME NEW j, IsJob(j), StartOps(j), Start(x, j) PROVE Types'
    BY <2>1, StartTypes, StartPlace
  <2>2. CASE SetPreviousDayClose(x) \/ SetDayHighAndLow(x)
    BY <2>2, SetDayCases, SetDayTypes DEF Types
  <2> QED
    BY <1>1, <2>1, <2>2, BeginCases
<1>2. ASSUME NEW x \in Workers, Proceed(x) PROVE Types'
  BY <1>2, TakeUserTypes, QuietTypes, ChangeTypes, SavingTypes, LeavingTypes DEF Proceed
<1>3. CASE UNCHANGED vars
  <2>1. BoardTypes' /\ WorkTypes'
    BY <1>3, SameBoardTypes, WorkTypesSame DEF vars, Types
  <2>2. UserTypes' /\ CountTypes'
    BY <1>3 DEF vars, Types, UserTypes, CountTypes, users, history
  <2> QED
    BY <2>1, <2>2 DEF Types
<1> QED
  BY <1>1, <1>2, <1>3, BoardTypesStep DEF Next

------------------------------------------------------------------------------
(* The dividends *)

LEMMA PayersStay ==
  ASSUME DividendsOK, paid' = paid, paidRow' = paidRow,
         \A y \in Workers, u \in Users : Paying(y, u) => Paying(y, u)'
  PROVE  DividendsOK'
BY DEF DividendsOK

\* A worker that pays nobody does something.
LEMMA OthersPay ==
  ASSUME DividendsOK, paid' = paid, paidRow' = paidRow, NEW x \in Workers,
         \A u \in Users : ~ Paying(x, u),
         \A y \in Workers : y # x => work'[y] = work[y]
  PROVE  DividendsOK'
<1>1. ASSUME NEW y \in Workers, NEW u \in Users, Paying(y, u)
      PROVE  Paying(y, u)'
  <2>1. y # x
    BY <1>1
  <2>2. work'[y] = work[y]
    BY <2>1
  <2> QED
    BY <1>1, <2>2 DEF Paying, Op
<1> QED
  BY <1>1, PayersStay

LEMMA RestartedDividends ==
  ASSUME Types, Restarted, paidRow' = paidRow
  PROVE  DividendsOK'
BY DEF Restarted, DividendsOK, Types, UserTypes

\* What one worker does is seen in its entry alone.
LEMMA OthersStay ==
  ASSUME Types, NEW x \in Workers,
         \/ \E j : Start(x, j)
         \/ TakeUser(x) \/ UpdateStockVolume(x) \/ LookUp(x) \/ CommitDividends(x)
         \/ GetCompanyDetails(x) \/ DividendsFail(x) \/ ReadRows(x) \/ LoadStocks(x)
         \/ LoadStocksFails(x) \/ Return(x)
  PROVE  \A y \in Workers : y # x => work'[y] = work[y]
<1>1. work = [y \in Workers |-> work[y]]
  BY DEF Types, WorkTypes
<1>2. \E j : work' = [work EXCEPT ![x] = j]
  <2>1. CASE \E j : Start(x, j)
    BY <2>1 DEF Start
  <2>2. CASE TakeUser(x)
    <3>1. PICK t, h : work' = [work EXCEPT ![x] = [work[x] EXCEPT !.todo = t, !.held = h]]
      BY <1>1, <2>2 DEF TakeUser
    <3> QED
      BY <3>1
  <2>3. CASE UpdateStockVolume(x)
    BY <2>3 DEF UpdateStockVolume, Go
  <2>4. CASE LookUp(x)
    BY <2>4 DEF LookUp
  <2>5. CASE CommitDividends(x)
    BY <2>5 DEF CommitDividends, Go
  <2>6. CASE GetCompanyDetails(x)
    BY <2>6 DEF GetCompanyDetails, Return
  <2>7. CASE DividendsFail(x)
    BY <2>7 DEF DividendsFail, Return, Go
  <2>8. CASE ReadRows(x)
    BY <2>8 DEF ReadRows
  <2>9. CASE LoadStocks(x)
    BY <2>9 DEF LoadStocks, Return
  <2>10. CASE LoadStocksFails(x)
    BY <2>10 DEF LoadStocksFails, Return
  <2>11. CASE Return(x)
    BY <2>11 DEF Return
  <2> QED
    BY <2>1, <2>2, <2>3, <2>4, <2>5, <2>6, <2>7, <2>8, <2>9, <2>10, <2>11
<1>3. PICK j : work' = [work EXCEPT ![x] = j]
  BY <1>2
<1> QED
  BY <1>1, <1>3, WorkStep

\* It ends, or the program does.
LEMMA EndCases ==
  ASSUME NEW x \in Workers, SaveStock(x) \/ SaveStockFails(x) \/ NotEnoughStocks(x)
  PROVE  /\ work[x].pc \in Holding /\ paidRow' = paidRow
         /\ (Return(x) /\ paid' = paid) \/ Restarted
BY DEF SaveStock, SaveStockFails, NotEnoughStocks, Unlock, UnlockFails, At, Holding

LEMMA DividendsStep ==
  ASSUME Types, DividendsOK, [Next]_vars
  PROVE  DividendsOK'
<1>0. paid \in [Users -> Nat] /\ paidRow \in [Users -> Nat]
  BY DEF Types, UserTypes
<1>1. ASSUME NEW x \in Workers, Begin(x) PROVE DividendsOK'
  <2>1. ASSUME work[x] = Idle PROVE \A u \in Users : ~ Paying(x, u)
    BY <2>1, IdleJob DEF Paying, Op
  <2>2. ASSUME NEW j, Start(x, j) PROVE DividendsOK'
    <3>1. \A y \in Workers : y # x => work'[y] = work[y]
      BY <2>2, OthersStay
    <3> QED
      BY <2>1, <2>2, <3>1, OthersPay DEF Start, users
  <2>3. CASE SetPreviousDayClose(x) \/ SetDayHighAndLow(x)
    <3>1. PICK t \in SetOf(Now) : SetDay(x, t)
      BY <2>3, SetDayCases DEF Types
    <3>2. \A y \in Workers : y # x => work'[y] = work[y]
      BY <3>1, SetDayTypes
    <3> QED
      BY <2>1, <3>1, <3>2, OthersPay DEF SetDay, users
  <2> QED
    BY <1>1, <2>2, <2>3, BeginCases
<1>2. ASSUME NEW x \in Workers, TakeUser(x) PROVE DividendsOK'
  <2>1. \A y \in Workers : y # x => work'[y] = work[y]
    BY <1>2, OthersStay
  <2>2. PICK v, t : /\ work' = [work EXCEPT ![x] = Taking(work[x], t, work[x].held \cup {v})]
                    /\ paid' = IF Op(x) = "dividends" THEN [paid EXCEPT ![v] = @ + 1] ELSE paid
                    /\ work[x].pc = "users" /\ paidRow' = paidRow
    BY <1>2 DEF TakeUser, Taking, At
  <2>3. /\ work'[x].op = Op(x) /\ work'[x].pc = "users" /\ work'[x].held = work[x].held \cup {v}
    <3>1. PICK i, h : i = work[x] /\ h = work[x].held \cup {v}
      OBVIOUS
    <3>2. IsJob(i) /\ work = [y \in Workers |-> work[y]]
      BY <3>1 DEF Types, WorkTypes
    <3>3. PICK j : j = Taking(i, t, h)
      OBVIOUS
    <3>4. j.op = i.op /\ j.pc = i.pc /\ j.held = h
      BY <3>2, <3>3, TakeJob
    <3>5. work'[x] = j
      BY <2>2, <3>1, <3>2, <3>3, WorkStep
    <3> QED
      BY <2>2, <3>1, <3>4, <3>5 DEF Op
  <2>4. ASSUME NEW y \in Workers, NEW u \in Users, Paying(y, u)
        PROVE  Paying(y, u)'
    BY <2>1, <2>3, <2>4 DEF Paying, Op
  <2>5. CASE Op(x) # "dividends"
    BY <2>2, <2>4, <2>5, PayersStay
  <2>6. CASE Op(x) = "dividends"
    <3>1. Paying(x, v)'
      BY <2>3, <2>6 DEF Paying, Op
    <3>2. ASSUME NEW u \in Users
          PROVE  /\ paidRow'[u] <= paid'[u]
                 /\ paid'[u] # paidRow'[u] => \E y \in Workers : Paying(y, u)'
      <4>1. CASE u = v
        BY <1>0, <2>2, <2>6, <3>1, <4>1 DEF DividendsOK
      <4>2. CASE u # v
        BY <1>0, <2>2, <2>4, <2>6, <4>2 DEF DividendsOK
      <4> QED
        BY <4>1, <4>2
    <3> QED
      BY <3>2 DEF DividendsOK
  <2> QED
    BY <2>5, <2>6
<1>3. ASSUME NEW x \in Workers, CommitDividends(x) PROVE DividendsOK'
  <2>1. \A y \in Workers : y # x => work'[y] = work[y]
    BY <1>3, OthersStay
  <2>2. /\ paidRow' = [u \in Users |-> IF u \in work[x].held THEN paid[u] ELSE paidRow[u]]
        /\ paid' = paid
    BY <1>3 DEF CommitDividends
  <2>3. ASSUME NEW u \in Users
        PROVE  /\ paidRow'[u] <= paid'[u]
               /\ paid'[u] # paidRow'[u] => \E y \in Workers : Paying(y, u)'
    <3>1. CASE u \in work[x].held
      BY <1>0, <2>2, <3>1
    <3>2. CASE u \notin work[x].held
      <4>1. paidRow'[u] = paidRow[u] /\ paid'[u] = paid[u]
        BY <1>0, <2>2, <3>2
      <4>2. ~ Paying(x, u)
        BY <3>2 DEF Paying
      <4>3. \A y \in Workers : Paying(y, u) => Paying(y, u)'
        BY <2>1, <4>2 DEF Paying, Op
      <4> QED
        BY <4>1, <4>3 DEF DividendsOK
    <3> QED
      BY <3>1, <3>2
  <2> QED
    BY <2>3 DEF DividendsOK
<1>4. ASSUME NEW x \in Workers, DividendsFail(x) PROVE DividendsOK'
  <2>1. \A y \in Workers : y # x => work'[y] = work[y]
    BY <1>4, OthersStay
  <2>2. paid' = paid /\ paidRow' = paidRow /\ Op(x) = "dividends"
    BY <1>4 DEF DividendsFail
  <2>3. CASE work[x].held = {}
    BY <2>1, <2>2, <2>3, OthersPay DEF Paying
  <2>4. CASE work[x].held # {}
    <3>1. work' = [work EXCEPT ![x].pc = "revert"]
      BY <1>4, <2>4 DEF DividendsFail, Go
    <3>2. work'[x].op = work[x].op /\ work'[x].pc = "revert" /\ work'[x].held = work[x].held
      <4>1. PICK i : i = work[x]
        OBVIOUS
      <4>2. IsJob(i) /\ work = [y \in Workers |-> work[y]]
        BY <4>1 DEF Types, WorkTypes
      <4>3. PICK pc \in Pcs : pc = "revert"
        BY DEF Pcs
      <4>4. PICK j : j = [i EXCEPT !.pc = pc]
        OBVIOUS
      <4>5. j.op = i.op /\ j.pc = pc /\ j.held = i.held
        BY <4>2, <4>4, GoJob
      <4>6. work'[x] = j
        BY <3>1, <4>1, <4>2, <4>3, <4>4, WorkStep
      <4> QED
        BY <4>1, <4>3, <4>5, <4>6
    <3>3. ASSUME NEW y \in Workers, NEW u \in Users, Paying(y, u)
          PROVE  Paying(y, u)'
      BY <2>1, <3>2, <3>3 DEF Paying, Op
    <3> QED
      BY <2>2, <3>3, PayersStay
  <2> QED
    BY <2>3, <2>4
<1>5. ASSUME NEW x \in Workers,
             UpdateStockVolume(x) \/ LookUp(x) \/ GetCompanyDetails(x) \/ ReadRows(x)
             \/ LoadStocks(x) \/ LoadStocksFails(x)
      PROVE  DividendsOK'
  <2>1. \A y \in Workers : y # x => work'[y] = work[y]
    BY <1>5, OthersStay
  <2>2. \A u \in Users : ~ Paying(x, u)
    BY <1>5 DEF UpdateStockVolume, LookUp, GetCompanyDetails, ReadRows, LoadStocks,
                LoadStocksFails, Paying, At, Op
  <2>3. paid' = paid /\ paidRow' = paidRow
    BY <1>5 DEF UpdateStockVolume, LookUp, GetCompanyDetails, ReadRows, LoadStocks,
                LoadStocksFails, users
  <2> QED
    BY <2>1, <2>2, <2>3, OthersPay
<1>6. ASSUME NEW x \in Workers, ChangeStock(x) PROVE DividendsOK'
  <2>1. PICK c, s, t : Makes(x, c, s, t)
    BY <1>6, ChangeTypes
  <2>2. (\A y \in Workers : y # x => work'[y] = work[y]) /\ \A u \in Users : ~ Paying(x, u)
    BY <2>1 DEF Makes, Paying
  <2>3. paid' = paid /\ paidRow' = paidRow
    BY <1>6 DEF ChangeStock, users
  <2> QED
    BY <2>2, <2>3, OthersPay
<1>7. ASSUME NEW x \in Workers, SaveStock(x) \/ SaveStockFails(x) \/ NotEnoughStocks(x)
      PROVE  DividendsOK'
  <2>1. /\ work[x].pc \in Holding /\ paidRow' = paidRow
        /\ (Return(x) /\ paid' = paid) \/ Restarted
    BY <1>7, EndCases
  <2>2. CASE Restarted
    BY <2>1, <2>2, RestartedDividends
  <2>3. CASE Return(x) /\ paid' = paid
    <3>1. \A y \in Workers : y # x => work'[y] = work[y]
      BY <2>3, OthersStay
    <3>2. \A u \in Users : ~ Paying(x, u)
      BY <2>1 DEF Paying, Holding
    <3> QED
      BY <2>1, <2>3, <3>1, <3>2, OthersPay
  <2> QED
    BY <2>1, <2>2, <2>3
<1>8. ASSUME UNCHANGED <<paid, paidRow, work>> PROVE DividendsOK'
  BY <1>8, PayersStay DEF Paying, Op
<1>9. CASE Crash
  BY <1>9, RestartedDividends DEF Crash
<1>10. CASE \/ InvalidStock \/ RecordOneMinuteOHLC \/ \E b \in BOOLEAN : SetBankruptcy(b)
            \/ UNCHANGED vars
  BY <1>8, <1>10 DEF InvalidStock, RecordOneMinuteOHLC, SetBankruptcy, vars, users
<1>11. ASSUME NEW x \in Workers, Proceed(x) PROVE DividendsOK'
  BY <1>2, <1>3, <1>4, <1>5, <1>6, <1>7, <1>11 DEF Proceed
<1> QED
  BY <1>1, <1>9, <1>10, <1>11 DEF Next

------------------------------------------------------------------------------
(* What a step does to the job of its worker *)

LEMMA GoStep ==
  ASSUME Types, NEW x \in Workers, NEW pc \in Pcs, Go(x, pc)
  PROVE  /\ work'[x].op = Op(x) /\ work'[x].pc = pc /\ work'[x].old = work[x].old
         /\ work'[x].rows = work[x].rows
<1>1. PICK i : i = work[x]
  OBVIOUS
<1>2. IsJob(i) /\ work = [y \in Workers |-> work[y]]
  BY <1>1 DEF Types, WorkTypes
<1>3. PICK j : j = [i EXCEPT !.pc = pc]
  OBVIOUS
<1>4. j.op = i.op /\ j.pc = pc /\ j.old = i.old /\ j.rows = i.rows
  BY <1>2, <1>3, GoJob
<1>5. work'[x] = j
  BY <1>1, <1>2, <1>3, WorkStep DEF Go
<1> QED
  BY <1>1, <1>4, <1>5 DEF Op

LEMMA TakeStep ==
  ASSUME Types, NEW x \in Workers, TakeUser(x)
  PROVE  /\ work[x].pc = "users"
         /\ work'[x].op = Op(x) /\ work'[x].pc = "users" /\ work'[x].old = work[x].old
         /\ work'[x].rows = work[x].rows
<1>1. PICK i : i = work[x]
  OBVIOUS
<1>2. IsJob(i) /\ work = [y \in Workers |-> work[y]]
  BY <1>1 DEF Types, WorkTypes
<1>3. PICK t, h : work' = [work EXCEPT ![x] = Taking(i, t, h)]
  BY <1>1 DEF TakeUser, Taking
<1>4. PICK j : j = Taking(i, t, h)
  OBVIOUS
<1>5. j.op = i.op /\ j.pc = i.pc /\ j.old = i.old /\ j.rows = i.rows
  BY <1>2, <1>4, TakeJob
<1>6. work'[x] = j
  BY <1>2, <1>3, <1>4, WorkStep
<1>7. work[x].pc = "users"
  BY DEF TakeUser, At
<1> QED
  BY <1>1, <1>5, <1>6, <1>7 DEF Op

LEMMA LookStep ==
  ASSUME Types, NEW x \in Workers, LookUp(x)
  PROVE  /\ work[x].pc \in {"look", "users"}
         /\ work'[x].op = Op(x) /\ work'[x].pc = "lock" /\ work'[x].object = Current
         /\ work'[x].old = work[x].old /\ work'[x].rows = work[x].rows
<1>1. PICK i : i = work[x]
  OBVIOUS
<1>2. IsJob(i) /\ work = [y \in Workers |-> work[y]] /\ Current \in Nat
  BY <1>1, BoardFacts DEF Types, WorkTypes
<1>3. PICK n \in Nat, pc \in Pcs : n = Current /\ pc = "lock"
  BY <1>2 DEF Pcs
<1>4. PICK j : j = Looking(i, n, pc)
  OBVIOUS
<1>5. j.op = i.op /\ j.pc = pc /\ j.object = n /\ j.old = i.old /\ j.rows = i.rows
  BY <1>2, <1>4, LookJob
<1>6. work'[x] = j
  BY <1>1, <1>2, <1>3, <1>4, WorkStep DEF LookUp, Looking
<1>7. work[x].pc \in {"look", "users"}
  BY DEF LookUp, At
<1> QED
  BY <1>1, <1>3, <1>5, <1>6, <1>7 DEF Op

LEMMA ReadStep ==
  ASSUME Types, NEW x \in Workers, ReadRows(x)
  PROVE  /\ work[x].pc = "read"
         /\ work'[x].op = Op(x) /\ work'[x].pc = "install" /\ work'[x].rows = row
         /\ work'[x].old = work[x].old
<1>1. PICK i : i = work[x]
  OBVIOUS
<1>2. IsJob(i) /\ work = [y \in Workers |-> work[y]] /\ row \in Row
  BY <1>1 DEF Types, WorkTypes, BoardTypes
<1>3. PICK r \in Row, pc \in Pcs : r = row /\ pc = "install"
  BY <1>2 DEF Pcs
<1>4. PICK j : j = Reading(i, r, pc)
  OBVIOUS
<1>5. j.op = i.op /\ j.pc = pc /\ j.rows = r /\ j.old = i.old
  BY <1>2, <1>4, ReadJob
<1>6. work'[x] = j
  BY <1>1, <1>2, <1>3, <1>4, WorkStep DEF ReadRows, Reading
<1>7. work[x].pc = "read"
  BY DEF ReadRows, At
<1> QED
  BY <1>1, <1>3, <1>5, <1>6, <1>7 DEF Op

LEMMA ReturnStep ==
  ASSUME Types, NEW x \in Workers, Return(x)
  PROVE  work'[x] = Idle
BY DEF Types, WorkTypes, Return

LEMMA StartStep ==
  ASSUME Types, NEW x \in Workers, NEW j, Start(x, j)
  PROVE  work[x] = Idle /\ work'[x] = j
BY DEF Types, WorkTypes, Start

\* A worker that counts a trade, commits or begins to take back dividends.
LEMMA UsersStep ==
  ASSUME Types, NEW x \in Workers,
         UpdateStockVolume(x) \/ CommitDividends(x)
         \/ (DividendsFail(x) /\ ~ Return(x))
  PROVE  /\ work[x].pc = "users" /\ work'[x].pc \in {"look", "details", "revert"}
         /\ work'[x].op = Op(x) /\ work'[x].old = work[x].old /\ work'[x].rows = work[x].rows
<1>1. PICK pc \in {"look", "details", "revert"} : Go(x, pc)
  BY DEF UpdateStockVolume, CommitDividends, DividendsFail
<1>2. pc \in Pcs
  BY DEF Pcs
<1>3. work[x].pc = "users"
  BY DEF UpdateStockVolume, CommitDividends, DividendsFail, At
<1> QED
  BY <1>1, <1>2, <1>3, GoStep

------------------------------------------------------------------------------
(* Prices make sense *)

LEMMA JobsStay ==
  ASSUME JobsSensible, NEW x \in Workers, \A y \in Workers : y # x => work'[y] = work[y],
         StockOK(work'[x].old) /\ DayOK(work'[x].rows)
  PROVE  JobsSensible'
<1>1. ASSUME NEW y \in Workers PROVE StockOK(work'[y].old) /\ DayOK(work'[y].rows)
  <2>1. CASE y = x
    BY <2>1
  <2>2. CASE y # x
    BY <2>2 DEF JobsSensible
  <2> QED
    BY <2>1, <2>2
<1> QED
  BY <1>1 DEF JobsSensible

LEMMA BoardStays ==
  ASSUME BoardTypes, BoardSensible, VolumeOK, DayOK(row),
         UNCHANGED <<row, board, missed, traded>>
  PROVE  BoardSensible' /\ VolumeOK' /\ DayOK(row')
BY DEF BoardSensible, VolumeOK, Now, Current

\* The stock of one object changes.
LEMMA OneStock ==
  ASSUME BoardTypes, BoardSensible, NEW c \in 1 .. Current, NEW s \in Stock, StockOK(s),
         board' \in Seq(Object), Current' = Current, board'[c].stock = s,
         \A k \in 1 .. Current : k # c => board'[k].stock = board[k].stock
  PROVE  /\ BoardSensible'
         /\ c # Current => Now' = Now
         /\ c = Current => Now' = s
<1>1. ASSUME NEW k \in 1 .. Current PROVE StockOK(board'[k].stock)
  <2>1. CASE k = c
    BY <2>1
  <2>2. CASE k # c
    <3>1. board'[k].stock = board[k].stock
      BY <2>2
    <3> QED
      BY <3>1 DEF BoardSensible
  <2> QED
    BY <2>1, <2>2
<1>2. BoardSensible'
  BY <1>1 DEF BoardSensible
<1>3. Current \in 1 .. Current
  BY BoardFacts
<1> QED
  BY <1>2, <1>3 DEF Now

LEMMA RestartedSensible ==
  ASSUME Restarted, row' \in Row, DayOK(row')
  PROVE  Sensible'
<1>1. /\ Current' = 1 /\ Now' = Loaded(row').stock /\ board'[1] = Loaded(row')
  BY RestartedBoard
<1>2. StockOK(Loaded(row').stock) /\ Loaded(row').stock.volume = 0
  BY LoadedStock DEF StockOK
<1>3. BoardSensible'
  BY <1>1, <1>2 DEF BoardSensible
<1>4. VolumeOK'
  BY <1>1, <1>2 DEF VolumeOK, Restarted
<1>5. JobsSensible'
  <2>1. \A x \in Workers : work'[x] = Idle
    BY DEF Restarted
  <2> QED
    BY <2>1, IdleJob DEF JobsSensible, StockOK
<1> QED
  BY <1>3, <1>4, <1>5 DEF Sensible

LEMMA BeginSensible ==
  ASSUME Types, Sensible, NEW x \in Workers, Begin(x)
  PROVE  Sensible'
<1>0. BoardTypes /\ JobsSensible /\ BoardSensible /\ VolumeOK /\ DayOK(row)
  BY DEF Types, Sensible
<1>1. ASSUME NEW j, IsJob(j), StartOps(j), Start(x, j) PROVE Sensible'
  <2>1. work'[x] = j /\ \A y \in Workers : y # x => work'[y] = work[y]
    BY <1>1, StartStep, OthersStay
  <2>2. JobsSensible'
    BY <1>0, <1>1, <2>1, JobsStay DEF StartOps, StockOK
  <2>3. BoardSensible' /\ VolumeOK' /\ DayOK(row')
    BY <1>0, <1>1, BoardStays DEF Start, history
  <2> QED
    BY <2>2, <2>3 DEF Sensible
<1>2. CASE SetPreviousDayClose(x) \/ SetDayHighAndLow(x)
  <2>1. PICK t \in SetOf(Now) : SetDay(x, t)
    BY <1>0, <1>2, SetDayCases
  <2>2. /\ Types' /\ t \in Stock /\ Now' = t /\ Current' = Current
        /\ StartOps(work'[x])
        /\ \A y \in Workers : y # x => work'[y] = work[y]
    BY <2>1, SetDayTypes
  <2>3. JobsSensible'
    BY <1>0, <2>2, JobsStay DEF StartOps, StockOK
  <2>4. Now \in Stock /\ Current \in 1 .. Current /\ StockOK(Now)
    BY <1>0, BoardFacts DEF BoardSensible, Now
  <2>5. StockOK(t) /\ t.volume = Now.volume
    BY <2>4, SetSensible, SetFields DEF StockOK
  <2>6. board' = [board EXCEPT ![Current].stock = t]
    BY <2>1 DEF SetDay
  <2>7. \A k \in 1 .. Current : k # Current => board'[k] = board[k]
    BY <1>0, <2>2, <2>6, NewStock
  <2>8. BoardSensible'
    <3>1. ASSUME NEW k \in 1 .. Current PROVE StockOK(board'[k].stock)
      <4>1. CASE k = Current
        BY <2>2, <2>5, <4>1 DEF Now
      <4>2. CASE k # Current
        BY <1>0, <2>7, <4>2 DEF BoardSensible
      <4> QED
        BY <4>1, <4>2
    <3> QED
      BY <2>2, <3>1 DEF BoardSensible
  <2>9. VolumeOK'
    BY <1>0, <2>1, <2>2, <2>5 DEF VolumeOK, SetDay
  <2>10. DayOK(row')
    <3>1. CASE row' = row
      BY <1>0, <3>1
    <3>2. CASE row' = Persistent(board'[Current].stock)
      <4>1. row' = Persistent(t)
        BY <2>2, <3>2 DEF Now
      <4> QED
        BY <2>2, <2>5, <4>1, PersistentRow DEF StockOK, DayOK
    <3> QED
      BY <2>1, <3>1, <3>2 DEF SetDay
  <2> QED
    BY <2>3, <2>8, <2>9, <2>10 DEF Sensible
<1> QED
  BY <1>1, <1>2, BeginCases

LEMMA QuietSensible ==
  ASSUME Types, Sensible, NEW x \in Workers,
         \/ TakeUser(x) \/ LookUp(x) \/ CommitDividends(x) \/ GetCompanyDetails(x)
         \/ DividendsFail(x) \/ ReadRows(x) \/ LoadStocksFails(x)
  PROVE  Sensible'
<1>0. BoardTypes /\ JobsSensible /\ BoardSensible /\ VolumeOK /\ DayOK(row)
  BY DEF Types, Sensible
<1>1. UNCHANGED <<row, board, missed, traded>>
  BY DEF TakeUser, LookUp, CommitDividends, GetCompanyDetails, DividendsFail, ReadRows,
         LoadStocksFails, history
<1>2. BoardSensible' /\ VolumeOK' /\ DayOK(row')
  BY <1>0, <1>1, BoardStays
<1>3. \A y \in Workers : y # x => work'[y] = work[y]
  BY OthersStay
<1>4. StockOK(work[x].old) /\ DayOK(work[x].rows)
  BY <1>0 DEF JobsSensible
<1>5. StockOK(work'[x].old) /\ DayOK(work'[x].rows)
  <2>1. CASE Return(x)
    BY <2>1, ReturnStep, IdleJob DEF StockOK
  <2>2. CASE TakeUser(x)
    BY <1>4, <2>2, TakeStep
  <2>3. CASE LookUp(x)
    BY <1>4, <2>3, LookStep
  <2>4. CASE CommitDividends(x) \/ (DividendsFail(x) /\ ~ Return(x))
    BY <1>4, <2>4, UsersStep
  <2>5. CASE ReadRows(x)
    BY <1>0, <1>4, <2>5, ReadStep
  <2>6. CASE GetCompanyDetails(x) \/ LoadStocksFails(x)
    BY <2>1, <2>6 DEF GetCompanyDetails, LoadStocksFails
  <2> QED
    BY <2>1, <2>2, <2>3, <2>4, <2>5, <2>6
<1>6. JobsSensible'
  BY <1>0, <1>3, <1>5, JobsStay
<1> QED
  BY <1>2, <1>6 DEF Sensible

LEMMA UndoneSensible ==
  ASSUME NEW s \in Stock, StockOK(s), NEW j, IsJob(j), StockOK(j.old), NEW t, t = Undone(j, s)
  PROVE  /\ StockOK(t)
         /\ j.op \notin PriceOps => t.volume = s.volume
<1>1. CASE j.pc # "save"
  BY <1>1 DEF Undone
<1>2. CASE j.pc = "save" /\ j.op \in PriceOps
  BY <1>2 DEF Undone
<1>3. CASE j.pc = "save" /\ j.op \notin PriceOps
  <2>1. PICK e, m, f : e = j.old.exchange /\ m = j.old.market /\ f = OneLess(s.exchange)
    OBVIOUS
  <2>2. t = [s EXCEPT !.exchange = f] \/ t = [s EXCEPT !.exchange = e, !.market = m]
    BY <1>3, <2>1 DEF Undone
  <2>3. /\ t.price = s.price /\ t.dayHigh = s.dayHigh /\ t.dayLow = s.dayLow
        /\ t.high = s.high /\ t.low = s.low /\ t.volume = s.volume
    BY <2>2 DEF Stock
  <2> QED
    BY <2>3 DEF StockOK, DayOK, MinuteOK
<1> QED
  BY <1>1, <1>2, <1>3

LEMMA CountSensible ==
  ASSUME Types, Sensible, NEW x \in Workers, UpdateStockVolume(x)
  PROVE  Sensible'
<1>0. BoardTypes /\ JobsSensible /\ BoardSensible /\ VolumeOK /\ DayOK(row) /\ traded \in Nat
  BY DEF Types, Sensible, CountTypes
<1>1. PICK q : q = work[x].quantity
  OBVIOUS
<1>2. q \in Nat
  BY <1>1 DEF Types, WorkTypes, IsJob
<1>3. Now \in Stock /\ Current \in 1 .. Current /\ StockOK(Now)
  BY <1>0, BoardFacts DEF BoardSensible, Now
<1>4. PICK t : t = [Now EXCEPT !.volume = @ + q]
  OBVIOUS
<1>5. Now.volume \in Nat
  BY <1>3 DEF Stock
<1>6. /\ t \in Stock /\ t.volume = Now.volume + q /\ t.price = Now.price
      /\ t.high = Now.high /\ t.low = Now.low /\ t.dayHigh = Now.dayHigh /\ t.dayLow = Now.dayLow
  BY <1>2, <1>3, <1>4, <1>5 DEF Stock
<1>7. StockOK(t)
  BY <1>3, <1>6 DEF StockOK, DayOK, MinuteOK
<1>8. board' = [board EXCEPT ![Current].stock = t]
  <2>1. board[Current] \in Object /\ DOMAIN board = 1 .. Current
    BY <1>0, <1>3 DEF BoardTypes, Current
  <2>2. DOMAIN board[Current] = {"holder", "stock"}
    BY <2>1 DEF Object
  <2> QED
    BY <1>1, <1>3, <1>4, <2>1, <2>2 DEF UpdateStockVolume, Now
<1>9. /\ board' \in Seq(Object) /\ Current' = Current /\ Now' = t /\ board'[Current].stock = t
      /\ \A k \in 1 .. Current : k # Current => board'[k] = board[k]
  BY <1>0, <1>6, <1>8, NewStock
<1>10. BoardSensible'
  <2>1. \A k \in 1 .. Current : k # Current => board'[k].stock = board[k].stock
    BY <1>9
  <2> QED
    BY <1>0, <1>3, <1>6, <1>7, <1>9, <2>1, OneStock
<1>11. VolumeOK'
  BY <1>0, <1>1, <1>2, <1>5, <1>6, <1>9 DEF VolumeOK, UpdateStockVolume
<1>12. JobsSensible'
  <2>1. \A y \in Workers : y # x => work'[y] = work[y]
    BY OthersStay
  <2>2. StockOK(work'[x].old) /\ DayOK(work'[x].rows)
    BY <1>0, UsersStep DEF JobsSensible
  <2> QED
    BY <1>0, <2>1, <2>2, JobsStay
<1>13. DayOK(row')
  BY <1>0 DEF UpdateStockVolume
<1> QED
  BY <1>10, <1>11, <1>12, <1>13 DEF Sensible

LEMMA MakesSensible ==
  ASSUME Types, Sensible, NEW x \in Workers, ChangeStock(x)
  PROVE  Sensible'
<1>0. BoardTypes /\ JobsSensible /\ BoardSensible /\ VolumeOK /\ DayOK(row)
  BY DEF Types, Sensible
<1>1. PICK c, s, t : Makes(x, c, s, t)
  BY ChangeTypes
<1>2. /\ c \in 1 .. Current /\ s = board[c].stock /\ s \in Stock /\ t \in Stock
      /\ average' \in Nat /\ Places(work[x].object, x, c, t)
      /\ \A y \in Workers : y # x => work'[y] = work[y]
      /\ work'[x].old = s /\ work'[x].rows = work[x].rows
  BY <1>1 DEF Makes
<1>3. StockOK(s)
  BY <1>0, <1>2 DEF BoardSensible
<1>4. StockOK(t) /\ t.volume = s.volume
  <2>1. CASE Op(x) \in PriceOps
    <3>1. t = Priced(s, average')
      BY <1>1, <2>1 DEF Makes
    <3>2. DayOK(Priced(s, average')) /\ MinuteOK(Priced(s, average'))
      BY <1>2, <1>3, PricedSensible DEF StockOK
    <3>3. t.volume = s.volume
      BY <1>2, <3>1, PricedStock
    <3> QED
      BY <3>1, <3>2, <3>3 DEF StockOK
  <2>2. CASE Op(x) \notin PriceOps
    <3>1. PICK e, f, m : e = OneMore(s.exchange) /\ f = OneLess(s.exchange) /\ m = s.market + 1
      OBVIOUS
    <3>2. \/ t = [s EXCEPT !.exchange = e] \/ t = [s EXCEPT !.exchange = f, !.market = m]
          \/ t = s
      BY <1>1, <2>2, <3>1 DEF Makes
    <3>3. /\ t.price = s.price /\ t.dayHigh = s.dayHigh /\ t.dayLow = s.dayLow
          /\ t.high = s.high /\ t.low = s.low /\ t.volume = s.volume
      BY <1>2, <3>2 DEF Stock
    <3> QED
      BY <1>3, <3>3 DEF StockOK, DayOK, MinuteOK
  <2> QED
    BY <2>1, <2>2
<1>5. BoardSensible' /\ (c # Current => Now' = Now) /\ (c = Current => Now' = t)
  BY <1>0, <1>2, <1>4, OneStock DEF Places
<1>6. VolumeOK'
  <2>1. missed' = missed /\ traded' = traded
    BY DEF ChangeStock, history
  <2>2. Now'.volume = Now.volume
    <3>1. CASE c = Current
      BY <1>2, <1>4, <1>5, <3>1 DEF Now
    <3>2. CASE c # Current
      BY <1>5, <3>2
    <3> QED
      BY <3>1, <3>2
  <2> QED
    BY <1>0, <2>1, <2>2 DEF VolumeOK
<1>7. JobsSensible'
  <2>1. StockOK(work'[x].old) /\ DayOK(work'[x].rows)
    BY <1>0, <1>2, <1>3 DEF JobsSensible
  <2> QED
    BY <1>0, <1>2, <2>1, JobsStay
<1>8. DayOK(row')
  BY <1>0 DEF ChangeStock
<1> QED
  BY <1>5, <1>6, <1>7, <1>8 DEF Sensible

\* A worker leaves the stock s in its object.
LEMMA UnlockSensible ==
  ASSUME Types, Sensible, NEW x \in Workers, work[x].pc \in Holding, NEW s \in Stock, StockOK(s),
         Unlock(x, s, work[x].changed), traded' = traded, DayOK(row'), missed \in BOOLEAN,
         \/ missed' = missed /\ s.volume = board[work[x].changed].stock.volume
         \/ missed' = TRUE
  PROVE  Sensible'
<1>0. BoardTypes /\ JobsSensible /\ BoardSensible /\ VolumeOK /\ WorkTypes
  BY DEF Types, Sensible
<1>1. PICK c : c = work[x].changed
  OBVIOUS
<1>2. /\ c \in 1 .. Current
      /\ board' \in Seq(Object) /\ Current' = Current /\ board'[c].stock = s
      /\ \A k \in 1 .. Current : k # c => board'[k].stock = board[k].stock
  BY <1>0, <1>1, UnlockBoard
<1>3. BoardSensible' /\ (c # Current => Now' = Now) /\ (c = Current => Now' = s)
  BY <1>0, <1>2, OneStock
<1>4. VolumeOK'
  <2>1. CASE missed' = TRUE
    BY <2>1 DEF VolumeOK
  <2>2. CASE missed' = missed /\ s.volume = board[c].stock.volume
    <3>1. Now'.volume = Now.volume
      BY <1>3, <2>2 DEF Now
    <3> QED
      BY <1>0, <2>2, <3>1 DEF VolumeOK
  <2> QED
    BY <1>1, <2>1, <2>2
<1>5. JobsSensible'
  <2>1. Return(x)
    BY DEF Unlock
  <2>2. \A y \in Workers : y # x => work'[y] = work[y]
    BY <2>1, OthersStay
  <2>3. StockOK(work'[x].old) /\ DayOK(work'[x].rows)
    BY <2>1, ReturnStep, IdleJob DEF StockOK
  <2> QED
    BY <1>0, <2>2, <2>3, JobsStay
<1> QED
  BY <1>3, <1>4, <1>5 DEF Sensible

LEMMA SavingSensible ==
  ASSUME Types, Sensible, NEW x \in Workers,
         SaveStock(x) \/ SaveStockFails(x) \/ NotEnoughStocks(x)
  PROVE  Sensible'
<1>0. /\ BoardTypes /\ WorkTypes /\ JobsSensible /\ BoardSensible /\ DayOK(row)
      /\ missed \in BOOLEAN /\ row \in Row
  BY DEF Types, Sensible, CountTypes, BoardTypes
<1>1. work[x].pc \in Holding
  BY EndCases
<1>2. PICK s \in Stock : s = board[work[x].changed].stock
  BY <1>0, <1>1, HeldStock
<1>3. StockOK(s) /\ IsJob(work[x]) /\ StockOK(work[x].old)
  BY <1>0, <1>1, <1>2, HeldStock DEF BoardSensible, JobsSensible
<1>4. CASE SaveStock(x)
  <2>1. row' = Persistent(s) /\ row' \in Row /\ DayOK(row')
    <3>1. row' = Persistent(s)
      BY <1>2, <1>4 DEF SaveStock
    <3> QED
      BY <1>3, <3>1, PersistentRow DEF StockOK, DayOK
  <2>2. CASE UnlockFails(x)
    BY <2>1, <2>2, RestartedSensible DEF UnlockFails
  <2>3. CASE Unlock(x, s, work[x].changed) /\ UNCHANGED <<traded, missed>>
    BY <1>0, <1>1, <1>2, <1>3, <2>1, <2>3, UnlockSensible
  <2> QED
    BY <1>2, <1>4, <2>2, <2>3 DEF SaveStock
<1>5. CASE SaveStockFails(x)
  <2>1. row' = row
    BY <1>5 DEF SaveStockFails
  <2>2. CASE UnlockFails(x)
    BY <1>0, <2>1, <2>2, RestartedSensible DEF UnlockFails
  <2>3. CASE Unlock(x, Restored(x), work[x].changed) /\ traded' = traded
             /\ missed' = (missed \/ Op(x) \in {"trade", "price"})
    <3>1. work[x].pc = "save"
      BY <1>5 DEF SaveStockFails, At
    <3>2. PICK t : t = Undone(work[x], s)
      OBVIOUS
    <3>3. t = Restored(x) /\ t \in Stock
      BY <1>0, <1>1, <1>2, <1>3, <3>1, <3>2, HeldStock, UndoneStock
    <3>4. StockOK(t) /\ (Op(x) \notin PriceOps => t.volume = s.volume)
      BY <1>3, <3>2, UndoneSensible DEF Op
    <3>5. \/ missed' = missed /\ t.volume = s.volume
          \/ missed' = TRUE
      BY <1>0, <2>3, <3>4 DEF PriceOps
    <3> QED
      BY <1>0, <1>1, <1>2, <2>1, <2>3, <3>3, <3>4, <3>5, UnlockSensible
  <2> QED
    BY <1>5, <2>2, <2>3 DEF SaveStockFails
<1>6. CASE NotEnoughStocks(x)
  <2>1. row' = row
    BY <1>6 DEF NotEnoughStocks
  <2>2. CASE UnlockFails(x)
    BY <1>0, <2>1, <2>2, RestartedSensible DEF UnlockFails
  <2>3. CASE Unlock(x, s, work[x].changed) /\ UNCHANGED <<traded, missed>>
    BY <1>0, <1>1, <1>2, <1>3, <2>1, <2>3, UnlockSensible
  <2> QED
    BY <1>2, <1>6, <2>2, <2>3 DEF NotEnoughStocks
<1> QED
  BY <1>4, <1>5, <1>6

LEMMA LoadSensible ==
  ASSUME Types, Sensible, NEW x \in Workers, LoadStocks(x)
  PROVE  Sensible'
<1>0. BoardTypes /\ WorkTypes /\ JobsSensible /\ BoardSensible /\ DayOK(row) /\ Current \in Nat
  BY BoardFacts DEF Types, Sensible
<1>1. PICK r : r = work[x].rows
  OBVIOUS
<1>2. /\ r \in Row /\ Current' = Current + 1 /\ board'[Current + 1] = Loaded(r)
      /\ \A g \in 1 .. Current : board'[g] = board[g]
  BY <1>0, <1>1, LoadBoard
<1>3. StockOK(Loaded(r).stock) /\ Loaded(r).stock.volume = 0
  BY <1>0, <1>1, <1>2, LoadedStock DEF JobsSensible, StockOK
<1>4. BoardSensible'
  <2>1. ASSUME NEW g \in 1 .. Current + 1 PROVE StockOK(board'[g].stock)
    <3>1. CASE g = Current + 1
      BY <1>2, <1>3, <3>1
    <3>2. CASE g # Current + 1
      <4>1. g \in 1 .. Current
        BY <1>0, <3>2
      <4> QED
        BY <1>0, <1>2, <4>1 DEF BoardSensible
    <3> QED
      BY <3>1, <3>2
  <2> QED
    BY <1>2, <2>1 DEF BoardSensible
<1>5. VolumeOK'
  BY <1>2, <1>3 DEF VolumeOK, Now, LoadStocks
<1>6. JobsSensible'
  <2>1. Return(x)
    BY DEF LoadStocks
  <2>2. \A y \in Workers : y # x => work'[y] = work[y]
    BY <2>1, OthersStay
  <2>3. StockOK(work'[x].old) /\ DayOK(work'[x].rows)
    BY <2>1, ReturnStep, IdleJob DEF StockOK
  <2> QED
    BY <1>0, <2>2, <2>3, JobsStay
<1>7. DayOK(row')
  BY <1>0 DEF LoadStocks
<1> QED
  BY <1>4, <1>5, <1>6, <1>7 DEF Sensible

LEMMA SensibleKept ==
  ASSUME Types, Sensible, [Next]_vars
  PROVE  Sensible'
<1>0. /\ BoardTypes /\ JobsSensible /\ BoardSensible /\ VolumeOK /\ DayOK(row)
      /\ Now \in Stock /\ Current \in 1 .. Current
  BY BoardFacts DEF Types, Sensible
<1>1. StockOK(Now)
  BY <1>0 DEF BoardSensible, Now
<1>2. ASSUME NEW x \in Workers, Proceed(x) PROVE Sensible'
  BY <1>2, QuietSensible, CountSensible, MakesSensible, SavingSensible, LoadSensible DEF Proceed
<1>3. ASSUME NEW t \in Stock, StockOK(t), OnlyNow, Now' = t, UNCHANGED work, Types'
      PROVE  JobsSensible' /\ BoardSensible'
  <2>1. board' \in Seq(Object) /\ board'[Current].stock = t /\ Current' = Current
    BY <1>3 DEF Types, BoardTypes, OnlyNow, Now
  <2>2. \A k \in 1 .. Current : k # Current => board'[k].stock = board[k].stock
    BY <1>3 DEF OnlyNow
  <2>3. BoardSensible'
    BY <1>0, <1>3, <2>1, <2>2, OneStock
  <2>4. JobsSensible'
    BY <1>0, <1>3 DEF JobsSensible
  <2> QED
    BY <2>3, <2>4
<1>4. ASSUME NEW b \in BOOLEAN, SetBankruptcy(b) PROVE Sensible'
  <2>1. PICK t \in Stock : t = [Now EXCEPT !.bankrupt = b, !.price = 0]
                           /\ Now' = t /\ row' = Persistent(t)
    BY <1>4, BoardTypesStep
  <2>2. Types' /\ UNCHANGED work /\ OnlyNow
    BY <1>4, BoardTypesStep
  <2>3. /\ t.price = 0 /\ t.volume = Now.volume /\ t.dayHigh = Now.dayHigh
        /\ t.dayLow = Now.dayLow /\ t.high = Now.high /\ t.low = Now.low
    <3>1. Now \in Stock /\ t = [Now EXCEPT !.bankrupt = b, !.price = 0]
      BY <1>0, <2>1
    <3> HIDE DEF Now
    <3> QED
      BY <3>1, BankruptStock
  <2>4. StockOK(t)
    BY <1>1, <2>3 DEF StockOK, DayOK, MinuteOK
  <2>5. DayOK(row')
    BY <2>1, <2>4, PersistentRow DEF StockOK, DayOK
  <2>6. VolumeOK'
    BY <1>0, <1>4, <2>1, <2>3 DEF VolumeOK, SetBankruptcy, history
  <2> QED
    BY <1>3, <2>1, <2>2, <2>4, <2>5, <2>6 DEF Sensible
<1>5. CASE RecordOneMinuteOHLC
  <2>1. PICK t \in Stock : t = [Now EXCEPT !.high = Now.price, !.low = Now.price, !.volume = 0]
                           /\ Now' = t
    BY <1>5, BoardTypesStep
  <2>2. Types' /\ UNCHANGED work /\ OnlyNow
    BY <1>5, BoardTypesStep
  <2>3. StockOK(t) /\ t.volume = 0
    BY <1>0, <1>1, <2>1, NewMinute DEF StockOK
  <2>4. VolumeOK' /\ DayOK(row')
    BY <1>0, <1>5, <2>1, <2>3 DEF VolumeOK, RecordOneMinuteOHLC
  <2> QED
    BY <1>3, <2>1, <2>2, <2>3, <2>4 DEF Sensible
<1>6. ASSUME UNCHANGED <<row, board, work, missed, traded>> PROVE Sensible'
  BY <1>0, <1>6, BoardStays DEF Sensible, JobsSensible
<1>7. CASE InvalidStock \/ UNCHANGED vars
  BY <1>6, <1>7 DEF InvalidStock, vars, history
<1>8. CASE Crash
  <2>1. row' \in Row /\ DayOK(row')
    BY <1>0, <1>8 DEF Crash, BoardTypes
  <2> QED
    BY <1>8, <2>1, RestartedSensible DEF Crash
<1> QED
  BY <1>2, <1>4, <1>5, <1>7, <1>8, BeginSensible DEF Next

------------------------------------------------------------------------------
(* The stocks that are added *)

LEMMA OneAdd ==
  ASSUME AddsCounted, NEW x \in Workers, \A y \in Workers : y # x => work'[y] = work[y]
  PROVE  /\ IsFiniteSet(Adds') /\ IsFiniteSet(Adds)
         /\ Cardinality(Adds) \in Nat /\ Cardinality(Adds') \in Nat
         /\ (Op(x) = "add" <=> work'[x].op = "add") => Cardinality(Adds') = Cardinality(Adds)
         /\ Op(x) = "add" /\ work'[x].op # "add" => Cardinality(Adds') = Cardinality(Adds) - 1
         /\ Cardinality(Adds') <= Cardinality(Adds) + 1
<1>1. IsFiniteSet(Adds) /\ Cardinality(Adds) \in Nat
  BY FS_CardinalityType DEF AddsCounted
<1>2. \A y \in Workers : y # x => (y \in Adds' <=> y \in Adds)
  BY DEF Adds, Op
<1>3. (x \in Adds <=> Op(x) = "add") /\ (x \in Adds' <=> work'[x].op = "add")
  BY DEF Adds, Op
<1>4. Adds \subseteq Workers /\ Adds' \subseteq Workers
  BY DEF Adds
<1>5. CASE x \in Adds <=> x \in Adds'
  <2>1. Adds' = Adds
    BY <1>2, <1>4, <1>5
  <2> QED
    BY <1>1, <1>3, <1>5, <2>1
<1>6. CASE x \in Adds /\ x \notin Adds'
  <2>1. Adds' = Adds \ {x}
    BY <1>2, <1>4, <1>6
  <2>2. IsFiniteSet(Adds \ {x}) /\ Cardinality(Adds \ {x}) = Cardinality(Adds) - 1
    BY <1>1, <1>6, FS_RemoveElement
  <2>3. Cardinality(Adds') = Cardinality(Adds) - 1 /\ IsFiniteSet(Adds')
    BY <2>1, <2>2
  <2>4. Cardinality(Adds') \in Nat
    BY <2>3, FS_CardinalityType
  <2> QED
    BY <1>1, <1>3, <1>6, <2>3, <2>4
<1>7. CASE x \notin Adds /\ x \in Adds'
  <2>1. Adds' = Adds \cup {x}
    BY <1>2, <1>4, <1>7
  <2>2. IsFiniteSet(Adds \cup {x}) /\ Cardinality(Adds \cup {x}) = Cardinality(Adds) + 1
    BY <1>1, <1>7, FS_AddElement
  <2>3. Cardinality(Adds') = Cardinality(Adds) + 1 /\ IsFiniteSet(Adds')
    BY <2>1, <2>2
  <2> QED
    BY <1>1, <1>3, <1>7, <2>3
<1> QED
  BY <1>5, <1>6, <1>7

\* Only SaveStock counts a stock, and then the addition ends; only a beginning counts a job.
LEMMA AddsStep ==
  ASSUME Types, AddsCounted, NEW x \in Workers, \A y \in Workers : y # x => work'[y] = work[y],
         \/ /\ issued' = issued /\ jobs' = jobs + 1 /\ jobs < MaxJobs
         \/ /\ issued' = issued /\ jobs' = jobs /\ work'[x].op \in {Op(x), "idle"}
         \/ /\ issued' = issued + 1 /\ jobs' = jobs /\ Op(x) = "add" /\ work'[x] = Idle
         \/ /\ issued' = issued /\ jobs' = jobs /\ work'[x] = Idle
  PROVE  AddsCounted'
<1>1. /\ issued \in Nat /\ jobs \in Nat /\ jobs <= MaxJobs /\ MaxJobs \in Nat /\ InExchange \in Nat
      /\ issued + Cardinality(Adds) <= InExchange + jobs
  BY Counts DEF Types, CountTypes, AddsCounted
<1>2. /\ IsFiniteSet(Adds') /\ Cardinality(Adds) \in Nat /\ Cardinality(Adds') \in Nat
      /\ (Op(x) = "add" <=> work'[x].op = "add") => Cardinality(Adds') = Cardinality(Adds)
      /\ Op(x) = "add" /\ work'[x].op # "add" => Cardinality(Adds') = Cardinality(Adds) - 1
      /\ Cardinality(Adds') <= Cardinality(Adds) + 1
  BY OneAdd
<1>3. Idle.op = "idle"
  BY IdleJob
<1>4. CASE issued' = issued /\ jobs' = jobs + 1 /\ jobs < MaxJobs
  BY <1>1, <1>2, <1>4 DEF AddsCounted
<1>5. CASE issued' = issued /\ jobs' = jobs /\ work'[x].op \in {Op(x), "idle"}
  BY <1>1, <1>2, <1>5 DEF AddsCounted
<1>6. CASE issued' = issued + 1 /\ jobs' = jobs /\ Op(x) = "add" /\ work'[x] = Idle
  BY <1>1, <1>2, <1>3, <1>6 DEF AddsCounted
<1>7. CASE issued' = issued /\ jobs' = jobs /\ work'[x] = Idle
  BY <1>1, <1>2, <1>3, <1>7 DEF AddsCounted
<1> QED
  BY <1>4, <1>5, <1>6, <1>7

LEMMA AddsKept ==
  ASSUME Types, AddsCounted, [Next]_vars
  PROVE  AddsCounted'
<1>0. /\ BoardTypes /\ issued \in Nat /\ jobs \in Nat /\ jobs <= MaxJobs /\ MaxJobs \in Nat
      /\ InExchange \in Nat /\ issued + Cardinality(Adds) <= InExchange + jobs
      /\ IsFiniteSet(Adds) /\ Cardinality(Adds) \in Nat
  BY Counts, FS_CardinalityType DEF Types, CountTypes, AddsCounted
<1>1. ASSUME NEW x \in Workers, Begin(x) PROVE AddsCounted'
  <2>1. ASSUME NEW j, Start(x, j) PROVE AddsCounted'
    BY <2>1, OthersStay, AddsStep DEF Start, history
  <2>2. CASE SetPreviousDayClose(x) \/ SetDayHighAndLow(x)
    <3>1. PICK t \in SetOf(Now) : SetDay(x, t)
      BY <1>0, <2>2, SetDayCases
    <3>2. \A y \in Workers : y # x => work'[y] = work[y]
      BY <3>1, SetDayTypes
    <3> QED
      BY <3>1, <3>2, AddsStep DEF SetDay
  <2> QED
    BY <1>1, <2>1, <2>2, BeginCases
<1>2. ASSUME NEW x \in Workers,
             \/ TakeUser(x) \/ LookUp(x) \/ CommitDividends(x) \/ GetCompanyDetails(x)
             \/ DividendsFail(x) \/ ReadRows(x) \/ LoadStocksFails(x) \/ UpdateStockVolume(x)
             \/ LoadStocks(x)
      PROVE  AddsCounted'
  <2>1. \A y \in Workers : y # x => work'[y] = work[y]
    BY <1>2, OthersStay
  <2>2. issued' = issued /\ jobs' = jobs
    BY <1>2 DEF TakeUser, LookUp, CommitDividends, GetCompanyDetails, DividendsFail, ReadRows,
                LoadStocksFails, UpdateStockVolume, LoadStocks, history
  <2>3. work'[x].op \in {Op(x), "idle"}
    <3>1. CASE Return(x)
      BY <3>1, ReturnStep, IdleJob
    <3>2. CASE TakeUser(x)
      BY <3>2, TakeStep
    <3>3. CASE LookUp(x)
      BY <3>3, LookStep
    <3>4. CASE CommitDividends(x) \/ UpdateStockVolume(x) \/ (DividendsFail(x) /\ ~ Return(x))
      BY <3>4, UsersStep
    <3>5. CASE ReadRows(x)
      BY <3>5, ReadStep
    <3>6. CASE GetCompanyDetails(x) \/ LoadStocksFails(x) \/ LoadStocks(x)
      BY <3>1, <3>6 DEF GetCompanyDetails, LoadStocksFails, LoadStocks
    <3> QED
      BY <1>2, <3>1, <3>2, <3>3, <3>4, <3>5, <3>6
  <2> QED
    BY <2>1, <2>2, <2>3, AddsStep
<1>3. ASSUME NEW x \in Workers, ChangeStock(x) PROVE AddsCounted'
  <2>1. PICK c, s, t : Makes(x, c, s, t)
    BY <1>3, ChangeTypes
  <2>2. work'[x].op = Op(x) /\ \A y \in Workers : y # x => work'[y] = work[y]
    BY <2>1 DEF Makes
  <2>3. issued' = issued /\ jobs' = jobs
    BY <1>3 DEF ChangeStock, history
  <2> QED
    BY <2>2, <2>3, AddsStep
<1>4. ASSUME Restarted, issued' = issued, jobs' = jobs PROVE AddsCounted'
  <2>1. \A x \in Workers : work'[x] = Idle
    BY <1>4 DEF Restarted
  <2>2. Adds' = {}
    BY <2>1, IdleJob DEF Adds, Op
  <2>3. IsFiniteSet({}) /\ Cardinality({}) = 0
    BY FS_EmptySet
  <2> QED
    BY <1>0, <1>4, <2>2, <2>3 DEF AddsCounted
<1>5. ASSUME NEW x \in Workers, SaveStock(x) \/ SaveStockFails(x) \/ NotEnoughStocks(x)
      PROVE  AddsCounted'
  <2>1. /\ jobs' = jobs
        /\ issued' = issued \/ (issued' = issued + 1 /\ Op(x) = "add")
    <3>1. CASE SaveStock(x)
      <4>1. issued' = issued + IF Op(x) = "add" THEN 1 ELSE 0
        BY <3>1 DEF SaveStock
      <4>2. jobs' = jobs
        BY <3>1 DEF SaveStock
      <4> QED
        BY <1>0, <4>1, <4>2
    <3>2. CASE SaveStockFails(x) \/ NotEnoughStocks(x)
      BY <3>2 DEF SaveStockFails, NotEnoughStocks
    <3> QED
      BY <1>5, <3>1, <3>2
  <2>2. CASE UnlockFails(x)
    BY <1>4, <2>1, <2>2 DEF UnlockFails
  <2>3. CASE Return(x)
    <3>1. work'[x] = Idle /\ \A y \in Workers : y # x => work'[y] = work[y]
      BY <2>3, ReturnStep, OthersStay
    <3> QED
      BY <2>1, <3>1, AddsStep
  <2> QED
    BY <1>5, <2>2, <2>3 DEF SaveStock, SaveStockFails, NotEnoughStocks, Unlock
<1>6. ASSUME UNCHANGED <<work, issued>>, jobs' = jobs \/ (jobs' = jobs + 1 /\ jobs < MaxJobs)
      PROVE  AddsCounted'
  <2>1. Adds' = Adds
    BY <1>6 DEF Adds, Op
  <2> QED
    BY <1>0, <1>6, <2>1 DEF AddsCounted
<1>7. CASE \/ InvalidStock \/ RecordOneMinuteOHLC \/ \E b \in BOOLEAN : SetBankruptcy(b)
           \/ UNCHANGED vars
  BY <1>6, <1>7 DEF InvalidStock, RecordOneMinuteOHLC, SetBankruptcy, vars, history
<1>8. CASE Crash
  BY <1>4, <1>8 DEF Crash
<1>9. ASSUME NEW x \in Workers, Proceed(x) PROVE AddsCounted'
  BY <1>2, <1>3, <1>5, <1>9 DEF Proceed
<1> QED
  BY <1>1, <1>7, <1>8, <1>9 DEF Next

------------------------------------------------------------------------------
(* The board agrees with the rows *)

LEMMA BaseValue ==
  ASSUME Types
  PROVE  /\ ~ Locked(Current) => Base = Persistent(Now)
         /\ \A h \in Workers : board[Current].holder = h => Base = Persistent(Undone(work[h], Now))
         /\ Base \in Row
         /\ Locked(Current) => board[Current].holder \in Workers
<1>0. Now \in Stock /\ board[Current].holder \in Workers \cup {NoOne} /\ NoOne \notin Workers
  BY BoardFacts, Counts DEF Types
<1>1. ~ Locked(Current) => Base = Persistent(Now)
  BY DEF Base
<1>2. ASSUME NEW h \in Workers, board[Current].holder = h
      PROVE  Base = Persistent(Undone(work[h], Now))
  BY <1>0, <1>2 DEF Base, Locked
<1>3. Locked(Current) => board[Current].holder \in Workers
  BY <1>0 DEF Locked
<1>4. Base \in Row
  <2>1. CASE ~ Locked(Current)
    BY <1>0, <1>1, <2>1, PersistentRow
  <2>2. CASE Locked(Current)
    <3>1. PICK h \in Workers : h = board[Current].holder
      BY <1>3, <2>2
    <3>2. IsJob(work[h])
      BY DEF Types, WorkTypes
    <3>3. Undone(work[h], Now) \in Stock
      BY <1>0, <3>2, UndoneStock
    <3> QED
      BY <1>2, <3>1, <3>3, PersistentRow
  <2> QED
    BY <2>1, <2>2
<1> QED
  BY <1>1, <1>2, <1>3, <1>4

\* Nothing changes in what a row keeps of the current stock, nor for its holder.
LEMMA BaseSame ==
  ASSUME Types, Types', Current' = Current, board'[Current].holder = board[Current].holder,
         Persistent(Now') = Persistent(Now),
         \A h \in Workers : board[Current].holder = h => work'[h] = work[h]
  PROVE  Base' = Base
<1>0. Now \in Stock /\ Now' \in Stock
  BY BoardFacts, NextStock DEF Types
<1>1. Locked(Current)' <=> Locked(Current)
  BY DEF Locked
<1>2. CASE ~ Locked(Current)
  BY <1>1, <1>2 DEF Base
<1>3. CASE Locked(Current)
  <2>1. PICK h \in Workers : h = board[Current].holder
    BY <1>3, BaseValue
  <2>2. IsJob(work[h]) /\ work'[h] = work[h]
    BY <2>1 DEF Types, WorkTypes
  <2>3. Persistent(Undone(work[h], Now')) = Persistent(Undone(work[h], Now))
    BY <1>0, <2>2, UndoneSame
  <2>4. Base = Persistent(Undone(work[h], Now))
    BY <2>1, BaseValue
  <2>5. Base' = Persistent(Undone(work'[h], Now'))
    BY <1>1, <1>3, <2>1 DEF Base
  <2> QED
    BY <2>2, <2>3, <2>4, <2>5
<1> QED
  BY <1>2, <1>3

\* A worker that has no object does something, and may look one up.
Quiet(i, j) ==
  i.pc \notin AtObject /\ (j.pc \notin AtObject \/ (j.pc = "lock" /\ j.object = Current))

LEMMA QuietSteady ==
  ASSUME Types, Types', Steady, UNCHANGED <<row, average, issued, bought, missed>>,
         Current' = Current, board'[Current].holder = board[Current].holder,
         Persistent(Now') = Persistent(Now),
         \A y \in Workers : work'[y] = work[y] \/ Quiet(work[y], work'[y]),
         overlap' # "now" => overlap' = overlap /\ (NoLoad' => NoLoad \/ Base = row)
  PROVE  Steady'
<1>1. SUFFICES ASSUME overlap' # "now"
               PROVE  (Fresh /\ Changing /\ Kept /\ DayKept /\ AverageKept /\ Counted)'
  BY DEF Steady
<1>2. /\ Fresh /\ Changing /\ Kept /\ DayKept /\ AverageKept /\ Counted
      /\ overlap' = overlap /\ (NoLoad' => NoLoad \/ Base = row)
  BY <1>1 DEF Steady
<1>3. Holding \subseteq AtObject /\ "lock" \notin Holding /\ "save" \in Holding
  BY DEF Holding, AtObject
<1>4. \A y \in Workers : work[y].pc \in AtObject => work'[y] = work[y]
  BY DEF Quiet
<1>5. \A y \in Workers : work'[y].pc \in Holding => work'[y] = work[y]
  BY <1>3 DEF Quiet
<1>6. \A h \in Workers : board[Current].holder = h => work[h].pc \in Holding /\ work'[h] = work[h]
  <2>1. ASSUME NEW h \in Workers, board[Current].holder = h
        PROVE  work[h].pc \in Holding
    BY <1>2, <2>1, Counts DEF Fresh, Locked
  <2> QED
    BY <1>3, <1>4, <2>1
<1>7. Base' = Base
  BY <1>6, BaseSame
<1>8. Fresh'
  <2>1. ASSUME NEW y \in Workers
        PROVE  /\ work'[y].pc \in AtObject => work'[y].object = Current'
               /\ work'[y].pc \in Holding => /\ work'[y].changed = Current'
                                             /\ board'[Current'].holder = y
    <3>1. CASE work'[y] = work[y]
      BY <1>2, <3>1 DEF Fresh
    <3>2. CASE Quiet(work[y], work'[y])
      BY <1>3, <3>2 DEF Quiet
    <3> QED
      BY <3>1, <3>2
  <2>2. Locked(Current)' => work'[board'[Current'].holder].pc \in Holding
    <3>1. ASSUME Locked(Current)' PROVE work'[board'[Current'].holder].pc \in Holding
      <4>1. Locked(Current)
        BY <3>1 DEF Locked
      <4>2. PICK h \in Workers : h = board[Current].holder
        BY <4>1, BaseValue
      <4> QED
        BY <1>6, <4>2
    <3> QED
      BY <3>1
  <2> QED
    BY <2>1, <2>2 DEF Fresh
<1>9. Changing'
  <2>0. Now \in Stock /\ Now' \in Stock
    BY BoardFacts, NextStock DEF Types
  <2>1. ASSUME NEW y \in Workers, work'[y].pc \in Holding
        PROVE  Changed(work'[y], Now', average')
    <3>1. work'[y] = work[y]
      BY <1>5, <2>1
    <3>2. Changed(work[y], Now, average)
      BY <1>2, <2>1, <3>1 DEF Changing
    <3>3. Changed(work[y], Now', average)
      BY <2>0, <3>2, ChangedSame
    <3> QED
      BY <3>1, <3>3
  <2> QED
    BY <2>1 DEF Changing
<1>10. Kept' /\ DayKept'
  BY <1>2, <1>7 DEF Kept, DayKept
<1>11. AverageKept'
  <2>1. ASSUME NEW y \in Workers, work[y].pc = "save", Op(y) \in PriceOps
        PROVE  work'[y].pc = "save" /\ Op(y)' \in PriceOps
    BY <1>3, <1>4, <2>1 DEF Op
  <2> QED
    BY <1>2, <2>1 DEF AverageKept
<1>12. Counted'
  BY <1>2 DEF Counted
<1> QED
  BY <1>8, <1>9, <1>10, <1>11, <1>12

LEMMA SameButDayItself ==
  ASSUME NEW r
  PROVE  SameButDay(r, r)
BY DEF SameButDay

\* All is read from the rows, and nobody works on an object.
LEMMA ResetSteady ==
  ASSUME Types', \A y \in Workers : work'[y].pc \notin AtObject,
         board'[Current'].holder = NoOne, Persistent(Now') = row', average' = row'.real,
         overlap' = "never" => row'.exchange + row'.market = issued' /\ row'.market = bought'
  PROVE  Steady'
<1>1. ~ Locked(Current)'
  BY DEF Locked
<1>2. Base' = row'
  BY <1>1 DEF Base
<1>3. Fresh'
  BY <1>1 DEF Fresh, Holding, AtObject
<1>4. Changing'
  BY DEF Changing, Holding, AtObject
<1>5. Kept' /\ DayKept'
  BY <1>2, SameButDayItself DEF Kept, DayKept
<1>6. AverageKept' /\ Counted'
  BY DEF AverageKept, Counted
<1> QED
  BY <1>3, <1>4, <1>5, <1>6 DEF Steady

LEMMA RestartedSteady ==
  ASSUME Types', Restarted,
         overlap' = "never" => row'.exchange + row'.market = issued' /\ row'.market = bought'
  PROVE  Steady'
<1>0. row' \in Row
  BY DEF Types, BoardTypes
<1>1. Now' = Loaded(row').stock /\ board'[Current'].holder = NoOne /\ average' = row'.real
  BY <1>0, RestartedBoard
<1>2. Persistent(Now') = row'
  BY <1>0, <1>1, LoadedStock
<1>3. \A y \in Workers : work'[y].pc \notin AtObject
  <2>1. \A y \in Workers : work'[y] = Idle
    BY DEF Restarted
  <2> QED
    BY <2>1, IdleJob DEF AtObject
<1> QED
  BY <1>1, <1>2, <1>3, ResetSteady

\* A worker that holds an object has the current one, and holds it alone.
LEMMA HolderAlone ==
  ASSUME Types, Fresh, NEW x \in Workers, work[x].pc \in Holding
  PROVE  /\ work[x].object = Current /\ work[x].changed = Current
         /\ board[Current].holder = x /\ Locked(Current)
         /\ \A y \in Workers : work[y].pc \in Holding => y = x
<1>1. board[Current].holder = x /\ work[x].changed = Current
  BY DEF Fresh
<1>2. work[x].object = Current
  BY DEF Fresh, Holding, AtObject
<1>3. \A y \in Workers : work[y].pc \in Holding => y = x
  BY <1>1 DEF Fresh
<1>4. Locked(Current)
  BY <1>1, Counts DEF Locked
<1> QED
  BY <1>1, <1>2, <1>3, <1>4

LEMMA UnlockFailsSteady ==
  ASSUME Types, Types', Steady, NEW x \in Workers, work[x].pc \in Holding, UnlockFails(x)
  PROVE  Steady'
<1>1. Restarted /\ board[Current].holder = NoOne
  BY DEF UnlockFails
<1>2. overlap = "now"
  BY <1>1, HolderAlone DEF Steady, Locked
<1>3. overlap' = "over"
  BY <1>1, <1>2 DEF Restarted
<1> QED
  BY <1>1, <1>3, RestartedSteady

\* A worker gives its object back, with the stock s.
LEMMA EndSteady ==
  ASSUME Types, Types', Steady, NEW x \in Workers, work[x].pc \in Holding, NEW s \in Stock,
         Unlock(x, s, work[x].changed), overlap' = overlap, average' = average,
         overlap # "now" =>
           /\ (row' = row /\ Persistent(s) = Base) \/ row' = Persistent(s)
           /\ missed' \/ average = row'.real
           /\ overlap = "never" => row'.exchange + row'.market = issued' /\ row'.market = bought'
  PROVE  Steady'
<1>1. SUFFICES ASSUME overlap # "now"
               PROVE  (Fresh /\ Changing /\ Kept /\ DayKept /\ AverageKept /\ Counted)'
  BY DEF Steady
<1>2. Fresh /\ Kept /\ DayKept
  BY <1>1 DEF Steady
<1>3. /\ work[x].object = Current /\ work[x].changed = Current
      /\ \A y \in Workers : work[y].pc \in Holding => y = x
  BY <1>2, HolderAlone
<1>4. /\ Current' = Current /\ board'[Current].holder = NoOne /\ board'[Current].stock = s
  BY <1>3, UnlockBoard DEF Types
<1>5. Return(x) /\ work'[x] = Idle /\ \A y \in Workers : y # x => work'[y] = work[y]
  BY ReturnStep, OthersStay DEF Unlock
<1>6. Base' = Persistent(s)
  BY <1>4 DEF Base, Now, Locked
<1>7. \A y \in Workers : work'[y].pc \notin Holding
  BY <1>3, <1>5, IdleJob DEF Holding
<1>8. Fresh'
  <2>1. ASSUME NEW y \in Workers, work'[y].pc \in AtObject PROVE work'[y].object = Current'
    <3>1. y # x
      BY <1>5, <2>1, IdleJob DEF AtObject
    <3>2. work'[y] = work[y]
      BY <1>5, <3>1
    <3> QED
      BY <1>2, <1>4, <2>1, <3>2 DEF Fresh
  <2>2. ~ Locked(Current)'
    BY <1>4 DEF Locked
  <2> QED
    BY <1>7, <2>1, <2>2 DEF Fresh
<1>9. Changing'
  BY <1>7 DEF Changing
<1>10. Kept' /\ DayKept'
  <2>1. CASE row' = Persistent(s)
    BY <1>6, <2>1, SameButDayItself DEF Kept, DayKept
  <2>2. CASE row' = row /\ Persistent(s) = Base
    <3>1. DayKept'
      BY <1>2, <1>6, <2>2 DEF DayKept
    <3>2. NoLoad' => NoLoad
      <4>1. Op(x) # "load"
        BY DEF Types, WorkTypes, PlaceOK, Holding, AtObject, PriceOps, Op
      <4> QED
        BY <1>5, <4>1 DEF NoLoad, Op
    <3>3. Kept'
      BY <1>2, <1>6, <2>2, <3>2 DEF Kept
    <3> QED
      BY <3>1, <3>3
  <2> QED
    BY <1>1, <2>1, <2>2
<1>11. AverageKept'
  BY <1>1 DEF AverageKept
<1>12. Counted'
  BY <1>1 DEF Counted
<1> QED
  BY <1>8, <1>9, <1>10, <1>11, <1>12

\* What a worker that holds the object has changed, and what its undoing leaves.
LEMMA SavingFacts ==
  ASSUME Types, Steady, overlap # "now", NEW x \in Workers, work[x].pc \in Holding,
         NEW s, s = board[work[x].changed].stock
  PROVE  /\ s \in Stock /\ s = Now /\ Changed(work[x], s, average) /\ IsJob(work[x])
         /\ Base = Persistent(Undone(work[x], s)) /\ SameButDay(Base, row)
         /\ missed \/ average = row.real \/ (Op(x) \in PriceOps /\ work[x].pc = "save")
         /\ Counted
<1>1. Fresh /\ Changing /\ DayKept /\ AverageKept /\ Counted
  BY DEF Steady
<1>2. /\ work[x].changed = Current /\ board[Current].holder = x
      /\ \A y \in Workers : work[y].pc \in Holding => y = x
  BY <1>1, HolderAlone
<1>3. s = Now /\ s \in Stock
  BY <1>2, BoardFacts DEF Now, Types
<1>4. Changed(work[x], s, average) /\ IsJob(work[x])
  BY <1>1, <1>3 DEF Changing, Types, WorkTypes
<1>5. Base = Persistent(Undone(work[x], s))
  BY <1>2, <1>3, BaseValue
<1>6. missed \/ average = row.real \/ (Op(x) \in PriceOps /\ work[x].pc = "save")
  BY <1>1, <1>2 DEF AverageKept, Holding
<1> QED
  BY <1>1, <1>3, <1>4, <1>5, <1>6 DEF DayKept

LEMMA SaveSteady ==
  ASSUME Types, Types', Steady, AddsCounted, NEW x \in Workers, SaveStock(x)
  PROVE  Steady'
<1>0. work[x].pc \in Holding /\ work[x].pc = "save"
  BY EndCases DEF SaveStock, At
<1>1. PICK s \in Stock : s = board[work[x].changed].stock
  BY <1>0, HeldStock DEF Types
<1>2. CASE UnlockFails(x)
  BY <1>0, <1>2, UnlockFailsSteady
<1>3. CASE Unlock(x, s, work[x].changed) /\ UNCHANGED <<average, missed, overlap>>
  <2>1. row' = Persistent(s)
    BY <1>1 DEF SaveStock
  <2>2. ASSUME overlap # "now"
        PROVE  /\ missed' \/ average = row'.real
               /\ overlap = "never" =>
                    row'.exchange + row'.market = issued' /\ row'.market = bought'
    <3>1. /\ Changed(work[x], s, average) /\ IsJob(work[x])
          /\ Base = Persistent(Undone(work[x], s)) /\ SameButDay(Base, row)
          /\ missed \/ average = row.real \/ Op(x) \in PriceOps
          /\ Counted
      BY <1>0, <1>1, <2>2, SavingFacts
    <3>2. PICK a : a = Undone(work[x], s)
      OBVIOUS
    <3>3. a \in Stock
      BY <3>1, <3>2, UndoneStock
    <3>4. /\ a.real = row.real /\ a.exchange = row.exchange /\ a.market = row.market
      BY <3>1, <3>2, <3>3, PersistentRow DEF SameButDay
    <3>5. /\ row'.real = s.real /\ row'.exchange = s.exchange /\ row'.market = s.market
      BY <2>1, PersistentRow
    <3>6. /\ s.exchange \in 0 .. MaxUint /\ s.market \in Nat /\ issued \in Nat /\ bought \in Nat
          /\ row.exchange \in 0 .. MaxUint /\ row.market \in Nat
      BY DEF Stock, Types, BoardTypes, CountTypes, Row
    <3>7. /\ issued' = issued + (IF Op(x) = "add" THEN 1 ELSE 0)
          /\ bought' = bought + (IF Op(x) = "buy" THEN 1 ELSE 0)
      BY DEF SaveStock
    <3>8. CASE Op(x) \in PriceOps
      <4>1. a = work[x].old
        BY <1>0, <3>1, <3>2, <3>8, UndoneStock DEF Op
      <4>2. s.real = average /\ s.exchange = a.exchange /\ s.market = a.market
        BY <3>1, <3>8, <4>1 DEF Changed, Op
      <4>3. issued' = issued /\ bought' = bought
        BY <3>6, <3>7, <3>8 DEF PriceOps
      <4> QED
        BY <3>1, <3>4, <3>5, <4>2, <4>3 DEF Counted
    <3>9. CASE Op(x) = "add"
      <4>1. a.exchange = OneLess(s.exchange) /\ a.market = s.market /\ a.real = s.real
        BY <1>0, <3>1, <3>2, <3>9, UndoneStock DEF PriceOps, Op
      <4>2. Op(x) \notin PriceOps
        BY <3>9 DEF PriceOps
      <4>3. missed' \/ average = row'.real
        BY <1>3, <3>1, <3>4, <3>5, <4>1, <4>2
      <4>4. ASSUME overlap = "never"
            PROVE  row'.exchange + row'.market = issued' /\ row'.market = bought'
        <5>1. row.exchange + row.market = issued /\ row.market = bought
          BY <3>1, <4>4 DEF Counted
        <5>2. issued < MaxUint
          <6>1. issued + Cardinality(Adds) <= InExchange + jobs /\ jobs <= MaxJobs
                /\ IsFiniteSet(Adds)
            BY DEF AddsCounted
          <6>2. Cardinality(Adds) \in Nat
            BY <6>1, FS_CardinalityType
          <6>3. jobs \in Nat
            BY DEF Types, CountTypes
          <6> QED
            BY <3>6, <6>1, <6>2, <6>3, Counts
        <5>3. OneLess(s.exchange) = row.exchange /\ row.exchange < MaxUint
          BY <3>4, <3>6, <4>1, <5>1, <5>2, Counts
        <5>4. s.exchange = OneLess(s.exchange) + 1
          BY <3>6, <5>3, OneMoreOneLess
        <5>5. s.exchange = row.exchange + 1 /\ s.market = row.market
          BY <3>4, <4>1, <5>3, <5>4
        <5>6. issued' = issued + 1 /\ bought' = bought
          BY <3>6, <3>7, <3>9
        <5> QED
          BY <3>5, <3>6, <5>1, <5>5, <5>6, Counts
      <4> QED
        BY <4>3, <4>4
    <3>10. CASE Op(x) = "buy"
      <4>1. a.exchange = work[x].old.exchange /\ a.market = work[x].old.market /\ a.real = s.real
        BY <1>0, <3>1, <3>2, <3>10, UndoneStock DEF PriceOps, Op
      <4>2. a.exchange = s.exchange + 1 /\ s.market = a.market + 1
        BY <1>0, <3>1, <3>10, <4>1 DEF Changed, Op
      <4>3. Op(x) \notin PriceOps
        BY <3>10 DEF PriceOps
      <4>4. missed' \/ average = row'.real
        BY <1>3, <3>1, <3>4, <3>5, <4>1, <4>3
      <4>5. ASSUME overlap = "never"
            PROVE  row'.exchange + row'.market = issued' /\ row'.market = bought'
        <5>1. row.exchange + row.market = issued /\ row.market = bought
          BY <3>1, <4>5 DEF Counted
        <5>2. issued' = issued /\ bought' = bought + 1
          BY <3>6, <3>7, <3>10
        <5> QED
          BY <3>4, <3>5, <3>6, <4>2, <5>1, <5>2, Counts
      <4> QED
        BY <4>4, <4>5
    <3>11. Op(x) \in PriceOps \cup {"add", "buy"}
      BY <1>0, HeldStock DEF Types, Op
    <3> QED
      BY <3>8, <3>9, <3>10, <3>11
  <2> QED
    BY <1>0, <1>3, <2>1, <2>2, EndSteady
<1> QED
  BY <1>1, <1>2, <1>3 DEF SaveStock

LEMMA NotSavedSteady ==
  ASSUME Types, Types', Steady, NEW x \in Workers, SaveStockFails(x) \/ NotEnoughStocks(x)
  PROVE  Steady'
<1>0. work[x].pc \in Holding
  BY EndCases
<1>1. PICK s \in Stock : s = board[work[x].changed].stock
  BY <1>0, HeldStock DEF Types
<1>2. CASE UnlockFails(x)
  BY <1>0, <1>2, UnlockFailsSteady
<1>3. PICK t : t = Undone(work[x], s)
  OBVIOUS
<1>4. t \in Stock
  BY <1>0, <1>1, <1>3, HeldStock, UndoneStock DEF Types
<1>5. ASSUME Unlock(x, t, work[x].changed), UNCHANGED <<average, overlap, row, issued, bought>>,
             missed' \/ (missed' = missed /\ (work[x].pc # "save" \/ Op(x) \notin PriceOps))
      PROVE  Steady'
  <2>1. ASSUME overlap # "now"
        PROVE  /\ Persistent(t) = Base
               /\ missed' \/ average = row'.real
               /\ overlap = "never" =>
                    row'.exchange + row'.market = issued' /\ row'.market = bought'
    <3>1. /\ Base = Persistent(Undone(work[x], s))
          /\ missed \/ average = row.real \/ (Op(x) \in PriceOps /\ work[x].pc = "save")
          /\ Counted
      BY <1>0, <1>1, <2>1, SavingFacts
    <3> QED
      BY <1>3, <1>5, <3>1 DEF Counted
  <2> QED
    BY <1>0, <1>4, <1>5, <2>1, EndSteady
<1>6. CASE SaveStockFails(x) /\ ~ UnlockFails(x)
  <2>1. work[x].pc = "save"
    BY <1>6 DEF SaveStockFails, At
  <2>2. t = Restored(x)
    BY <1>0, <1>1, <1>3, <2>1, HeldStock DEF Types
  <2>3. missed \in BOOLEAN
    BY DEF Types, CountTypes
  <2>4. missed' = (missed \/ Op(x) \in {"trade", "price"})
    BY <1>6 DEF SaveStockFails
  <2>5. missed' \/ (missed' = missed /\ Op(x) \notin PriceOps)
    BY <2>3, <2>4 DEF PriceOps
  <2> QED
    BY <1>5, <1>6, <2>2, <2>5 DEF SaveStockFails
<1>7. CASE NotEnoughStocks(x) /\ ~ UnlockFails(x)
  <2>1. work[x].pc = "none left"
    BY <1>7 DEF NotEnoughStocks, At
  <2>2. t = s
    BY <1>3, <2>1 DEF Undone
  <2> QED
    BY <1>1, <1>5, <1>7, <2>1, <2>2 DEF NotEnoughStocks
<1> QED
  BY <1>2, <1>6, <1>7

\* What a change of the current stock does, and its undoing.
LEMMA MakesUndone ==
  ASSUME NEW x \in Workers, NEW c, NEW s, NEW t, Makes(x, c, s, t), IsJob(work'[x])
  PROVE  /\ Persistent(Undone(work'[x], t)) = Persistent(s)
         /\ Changed(work'[x], t, average')
<1>1. PICK j : j = work'[x]
  OBVIOUS
<1>2. /\ IsJob(j) /\ j.op = Op(x) /\ j.old = s /\ s \in Stock /\ t \in Stock /\ average' \in Nat
      /\ j.pc = (IF Op(x) = "buy" /\ NoneLeft(s) THEN "none left" ELSE "save")
      /\ Op(x) \in PriceOps \cup {"add", "buy"}
  BY <1>1 DEF Makes
<1>3. /\ s.exchange \in 0 .. MaxUint /\ s.market \in Nat
  BY <1>2 DEF Stock
<1>4. PICK a : a = Undone(j, t)
  OBVIOUS
<1>5. a \in Stock
  BY <1>2, <1>4, UndoneStock
<1>6. CASE Op(x) \in PriceOps
  <2>1. t = Priced(s, average') /\ j.pc = "save" /\ Op(x) \notin {"buy"}
    BY <1>2, <1>6 DEF Makes, PriceOps
  <2>2. a = s
    BY <1>2, <1>4, <1>6, <2>1, UndoneStock
  <2>3. /\ t.real = average' /\ t.exchange = s.exchange /\ t.market = s.market
        /\ t.bankrupt = s.bankrupt /\ t.close = s.close
        /\ t.dayHigh = Higher(s.dayHigh, t.price)
        /\ t.dayLow = IF t.price > s.dayHigh THEN s.dayLow ELSE Lower(s.dayLow, t.price)
    BY <1>2, <2>1, PricedStock
  <2>4. Changed(j, t, average')
    BY <1>2, <2>1, <2>3 DEF Changed
  <2> QED
    BY <1>1, <1>4, <2>2, <2>4
<1>7. CASE Op(x) = "add"
  <2>1. PICK e : e = OneMore(s.exchange)
    OBVIOUS
  <2>2. t = [s EXCEPT !.exchange = e] /\ j.pc = "save" /\ j.op \notin PriceOps
    BY <1>2, <1>7, <2>1 DEF Makes, PriceOps
  <2>3. /\ t.exchange = e /\ t.market = s.market /\ t.price = s.price /\ t.real = s.real
        /\ t.bankrupt = s.bankrupt /\ t.close = s.close /\ t.dayHigh = s.dayHigh
        /\ t.dayLow = s.dayLow
    BY <1>2, <2>2 DEF Stock
  <2>4. /\ a.exchange = OneLess(t.exchange) /\ a.market = t.market
        /\ a.price = t.price /\ a.real = t.real /\ a.bankrupt = t.bankrupt
        /\ a.close = t.close /\ a.dayHigh = t.dayHigh /\ a.dayLow = t.dayLow
    <3>1. t \in Stock /\ IsJob(j) /\ a = Undone(j, t) /\ j.pc = "save" /\ j.op \notin PriceOps
          /\ j.op = "add"
      BY <1>2, <1>4, <1>7, <2>2
    <3> QED
      BY <3>1, UndoneStock
  <2>5. a.exchange = s.exchange
    BY <1>3, <2>1, <2>3, <2>4, OneMoreOneLess
  <2>6. Persistent(a) = Persistent(s)
    BY <2>3, <2>4, <2>5 DEF Persistent
  <2>7. Changed(j, t, average')
    BY <1>2, <1>7, <2>2 DEF Changed
  <2> QED
    BY <1>1, <1>4, <2>6, <2>7
<1>8. CASE Op(x) = "buy" /\ ~ NoneLeft(s)
  <2>1. PICK e, m : e = OneLess(s.exchange) /\ m = s.market + 1
    OBVIOUS
  <2>2. t = [s EXCEPT !.exchange = e, !.market = m] /\ j.pc = "save" /\ j.op \notin PriceOps
    BY <1>2, <1>8, <2>1 DEF Makes, PriceOps
  <2>3. /\ t.exchange = e /\ t.market = m /\ t.price = s.price /\ t.real = s.real
        /\ t.bankrupt = s.bankrupt /\ t.close = s.close /\ t.dayHigh = s.dayHigh
        /\ t.dayLow = s.dayLow
    BY <1>2, <2>2 DEF Stock
  <2>4. /\ a.exchange = s.exchange /\ a.market = s.market
        /\ a.price = t.price /\ a.real = t.real /\ a.bankrupt = t.bankrupt
        /\ a.close = t.close /\ a.dayHigh = t.dayHigh /\ a.dayLow = t.dayLow
    <3>1. t \in Stock /\ IsJob(j) /\ a = Undone(j, t) /\ j.pc = "save" /\ j.op \notin PriceOps
          /\ j.op # "add" /\ j.old = s
      BY <1>2, <1>4, <1>8, <2>2
    <3>2. /\ a.exchange = j.old.exchange /\ a.market = j.old.market
          /\ a.price = t.price /\ a.real = t.real /\ a.bankrupt = t.bankrupt
          /\ a.close = t.close /\ a.dayHigh = t.dayHigh /\ a.dayLow = t.dayLow
      BY <3>1, UndoneStock
    <3> QED
      BY <3>1, <3>2
  <2>5. Persistent(a) = Persistent(s)
    BY <2>3, <2>4 DEF Persistent
  <2>6. s.exchange = t.exchange + 1
    BY <1>3, <1>8, <2>1, <2>3, OneMoreOneLess DEF NoneLeft
  <2>7. Changed(j, t, average')
    BY <1>2, <1>8, <2>1, <2>2, <2>3, <2>6 DEF Changed
  <2> QED
    BY <1>1, <1>4, <2>5, <2>7
<1>9. CASE Op(x) = "buy" /\ NoneLeft(s)
  <2>1. t = s /\ j.pc = "none left" /\ j.op \notin PriceOps
    BY <1>2, <1>9 DEF Makes, PriceOps
  <2>2. a = t
    BY <1>4, <2>1 DEF Undone
  <2>3. Changed(j, t, average')
    BY <2>1 DEF Changed
  <2> QED
    BY <1>1, <1>4, <2>1, <2>2, <2>3
<1> QED
  BY <1>2, <1>6, <1>7, <1>8, <1>9

LEMMA MakesSteady ==
  ASSUME Types, Types', Steady, NEW x \in Workers, ChangeStock(x)
  PROVE  Steady'
<1>1. SUFFICES ASSUME overlap' # "now"
               PROVE  (Fresh /\ Changing /\ Kept /\ DayKept /\ AverageKept /\ Counted)'
  BY DEF Steady
<1>2. UNCHANGED <<row, issued, bought, missed, overlap>>
  BY DEF ChangeStock, history
<1>3. Fresh /\ Changing /\ Kept /\ DayKept /\ AverageKept /\ Counted
  BY <1>1, <1>2 DEF Steady
<1>4. PICK c, s, t : Makes(x, c, s, t)
  BY ChangeTypes
<1>5. /\ work[x].pc = "lock" /\ work'[x].op = Op(x) /\ Op(x) # "load"
      /\ work'[x].pc \in {"none left", "save"} /\ work'[x].object = work[x].object
      /\ work'[x].changed = c /\ s = board[c].stock
      /\ c = (IF Op(x) = "buy" THEN Current ELSE work[x].object)
      /\ Places(work[x].object, x, c, t) /\ Op(x) \in PriceOps \cup {"add", "buy"}
      /\ \A y \in Workers : y # x => work'[y] = work[y]
  BY <1>4 DEF Makes, PriceOps
<1>6. work[x].object = Current /\ c = Current
  BY <1>3, <1>5 DEF Fresh, AtObject
<1>7. Current' = Current /\ board'[Current].holder = x /\ Now' = t
  BY <1>5, <1>6 DEF Places, Now
<1>8. ~ Locked(Current)
  BY <1>6 DEF ChangeStock
<1>9. \A y \in Workers : work[y].pc \notin Holding
  BY <1>3, <1>8, HolderAlone
<1>10. \A y \in Workers : y # x => work'[y].pc \notin Holding
  BY <1>5, <1>9
<1>11. IsJob(work'[x])
  BY DEF Types, WorkTypes
<1>12. Persistent(Undone(work'[x], t)) = Persistent(s) /\ Changed(work'[x], t, average')
  BY <1>4, <1>11, MakesUndone
<1>13. Base = Persistent(s)
  BY <1>5, <1>6, <1>8 DEF Base, Now
<1>14. Base' = Base
  <2>1. Locked(Current)'
    BY <1>7, Counts DEF Locked
  <2>2. Base' = Persistent(Undone(work'[x], Now'))
    BY <1>7, <2>1 DEF Base
  <2> QED
    BY <1>7, <1>12, <1>13, <2>2
<1>15. Fresh'
  <2>1. ASSUME NEW y \in Workers
        PROVE  /\ work'[y].pc \in AtObject => work'[y].object = Current'
               /\ work'[y].pc \in Holding => /\ work'[y].changed = Current'
                                             /\ board'[Current'].holder = y
    <3>1. CASE y = x
      BY <1>5, <1>6, <1>7, <3>1
    <3>2. CASE y # x
      <4>1. work'[y] = work[y] /\ work'[y].pc \notin Holding
        BY <1>5, <1>10, <3>2
      <4> QED
        BY <1>3, <1>7, <4>1 DEF Fresh
    <3> QED
      BY <3>1, <3>2
  <2>2. work'[board'[Current'].holder].pc \in Holding
    BY <1>5, <1>7 DEF Holding
  <2> QED
    BY <2>1, <2>2 DEF Fresh
<1>16. Changing'
  BY <1>7, <1>10, <1>12 DEF Changing
<1>17. NoLoad' => NoLoad
  BY <1>5 DEF NoLoad, Op
<1>18. Kept' /\ DayKept' /\ Counted'
  BY <1>2, <1>3, <1>14, <1>17 DEF Kept, DayKept, Counted
<1>19. AverageKept'
  <2>1. CASE Op(x) \in PriceOps
    <3>1. work'[x].pc = "save"
      BY <1>4, <2>1 DEF Makes, PriceOps
    <3> QED
      BY <1>5, <2>1, <3>1 DEF AverageKept, Op
  <2>2. CASE Op(x) \notin PriceOps
    <3>1. average' = average
      BY <2>2 DEF ChangeStock, PriceOps
    <3>2. missed \/ average = row.real
      BY <1>3, <1>9 DEF AverageKept, Holding
    <3> QED
      BY <1>2, <3>1, <3>2 DEF AverageKept
  <2> QED
    BY <2>1, <2>2
<1> QED
  BY <1>15, <1>16, <1>18, <1>19

LEMMA LoadSteady ==
  ASSUME Types, Types', Steady, NEW x \in Workers, LoadStocks(x)
  PROVE  Steady'
<1>1. SUFFICES ASSUME overlap' # "now" PROVE Steady'
  BY DEF Steady
<1>2. /\ row = work[x].rows /\ \A y \in Workers : work[y].pc \notin AtObject
      /\ overlap' = IF overlap = "now" THEN "over" ELSE overlap
  BY <1>1 DEF LoadStocks, Meets, AtObject
<1>3. /\ row \in Row /\ Current \in Nat /\ Current' = Current + 1
      /\ board'[Current + 1] = Loaded(row) /\ row' = row /\ average' = row.real
  BY <1>2, LoadBoard, BoardFacts DEF Types, LoadStocks
<1>4. board'[Current'].holder = NoOne /\ Persistent(Now') = row'
  BY <1>3, LoadedStock DEF Now
<1>5. \A y \in Workers : work'[y].pc \notin AtObject
  <2>1. Return(x)
    BY DEF LoadStocks
  <2>2. work'[x] = Idle /\ \A y \in Workers : y # x => work'[y] = work[y]
    BY <2>1, ReturnStep, OthersStay
  <2> QED
    BY <1>2, <2>2, IdleJob DEF AtObject
<1>6. overlap' = "never" => row'.exchange + row'.market = issued' /\ row'.market = bought'
  BY <1>2, <1>3 DEF Steady, Counted, LoadStocks
<1> QED
  BY <1>3, <1>4, <1>5, <1>6, ResetSteady

LEMMA LoadFailsSteady ==
  ASSUME Types, Types', Steady, NEW x \in Workers, LoadStocksFails(x)
  PROVE  Steady'
<1>1. \A y \in Workers : y # x => work'[y] = work[y]
  BY OthersStay
<1>2. work'[x] = Idle /\ work[x].pc = "read"
  BY ReturnStep DEF LoadStocksFails, At
<1>3. \A y \in Workers : work'[y] = work[y] \/ Quiet(work[y], work'[y])
  BY <1>1, <1>2, IdleJob DEF Quiet, AtObject
<1>4. /\ UNCHANGED <<row, average, issued, bought, missed, board>>
      /\ overlap' = (IF row = Persistent(Now) THEN overlap ELSE "now")
  BY DEF LoadStocksFails, Now
<1>5. Current' = Current /\ board'[Current].holder = board[Current].holder
      /\ Persistent(Now') = Persistent(Now)
  BY <1>4 DEF Current, Now
<1>6. ASSUME overlap' # "now" PROVE overlap' = overlap /\ Base = row
  <2>1. overlap' = overlap /\ row = Persistent(Now)
    BY <1>4, <1>6
  <2>2. CASE ~ Locked(Current)
    BY <2>1, <2>2, BaseValue
  <2>3. CASE Locked(Current)
    <3>1. Fresh /\ Changing /\ DayKept
      BY <1>6, <2>1 DEF Steady
    <3>2. PICK h \in Workers : h = board[Current].holder
      BY <2>3, BaseValue
    <3>3. work[h].pc \in Holding
      BY <2>3, <3>1, <3>2 DEF Fresh
    <3>4. /\ IsJob(work[h]) /\ work[h].op \in PriceOps \cup {"add", "buy"}
          /\ Changed(work[h], Now, average)
      BY <3>1, <3>3, HeldStock DEF Changing, Types
    <3>5. Base = Persistent(Undone(work[h], Now)) /\ SameButDay(Base, row)
      BY <3>1, <3>2, BaseValue DEF DayKept
    <3>6. Now \in Stock /\ row \in Row
      BY BoardFacts DEF Types, BoardTypes
    <3> QED
      BY <2>1, <3>4, <3>5, <3>6, NothingChanged
  <2> QED
    BY <2>1, <2>2, <2>3
<1> QED
  BY <1>3, <1>4, <1>5, <1>6, QuietSteady

LEMMA SetDaySteady ==
  ASSUME Types, Types', Steady, NEW x \in Workers, NEW t \in SetOf(Now), SetDay(x, t)
  PROVE  Steady'
<1>1. SUFFICES ASSUME overlap' # "now"
               PROVE  (Fresh /\ Changing /\ Kept /\ DayKept /\ AverageKept /\ Counted)'
  BY DEF Steady
<1>2. UNCHANGED <<average, issued, bought, missed>> /\ work[x] = Idle
  BY DEF SetDay
<1>3. /\ overlap' = overlap
      /\ row' = row \/ (row' = Persistent(board'[Current].stock) /\ ~ Locked(Current))
  BY <1>1 DEF SetDay
<1>4. Fresh /\ Changing /\ Kept /\ DayKept /\ AverageKept /\ Counted
  BY <1>1, <1>3 DEF Steady
<1>5. /\ t \in Stock /\ Now' = t /\ Current' = Current
      /\ work'[x].op = "load" /\ work'[x].pc = "read"
      /\ \A y \in Workers : y # x => work'[y] = work[y]
  BY SetDayTypes
<1>6. board'[Current].holder = board[Current].holder
  <2>1. board' = [board EXCEPT ![Current].stock = t] /\ Current \in 1 .. Current
    BY BoardFacts DEF SetDay, Types
  <2> QED
    BY <1>5, <2>1, NewStock DEF Types
<1>7. Now \in Stock /\ row \in Row
  BY BoardFacts DEF Types, BoardTypes
<1>8. work[x].pc = "idle"
  BY <1>2, IdleJob
<1>9. \A y \in Workers : work'[y].pc \in AtObject => work'[y] = work[y]
  BY <1>5 DEF AtObject
<1>10. ASSUME NEW h \in Workers, board[Current].holder = h
       PROVE  work[h].pc \in Holding /\ work'[h] = work[h]
  <2>1. work[h].pc \in Holding
    BY <1>4, <1>10, Counts DEF Fresh, Locked
  <2>2. h # x
    BY <1>8, <2>1 DEF Holding
  <2> QED
    BY <1>5, <2>1, <2>2
<1>11. Fresh'
  <2>1. ASSUME NEW y \in Workers
        PROVE  /\ work'[y].pc \in AtObject => work'[y].object = Current'
               /\ work'[y].pc \in Holding => /\ work'[y].changed = Current'
                                             /\ board'[Current'].holder = y
    BY <1>4, <1>5, <1>6, <1>9 DEF Fresh, Holding, AtObject
  <2>2. ASSUME Locked(Current)' PROVE work'[board'[Current'].holder].pc \in Holding
    <3>1. Locked(Current)
      BY <1>5, <1>6, <2>2 DEF Locked
    <3>2. PICK h \in Workers : h = board[Current].holder
      BY <3>1, BaseValue
    <3> QED
      BY <1>5, <1>6, <1>10, <3>2
  <2> QED
    BY <2>1, <2>2 DEF Fresh
<1>12. Changing'
  <2>1. ASSUME NEW y \in Workers, work'[y].pc \in Holding
        PROVE  Changed(work'[y], Now', average')
    <3>1. work'[y] = work[y]
      BY <1>9, <2>1 DEF Holding, AtObject
    <3>2. Changed(work[y], Now, average)
      BY <1>4, <2>1, <3>1 DEF Changing
    <3>3. Changed(work[y], t, average)
      BY <1>7, <3>2, ChangedSet
    <3> QED
      BY <1>2, <1>5, <3>1, <3>3
  <2> QED
    BY <2>1 DEF Changing
<1>13. Kept'
  BY <1>5 DEF Kept, NoLoad, Op
<1>14. SameButDay(Base', row)
  <2>0. SameButDay(Base, row)
    BY <1>4 DEF DayKept
  <2>1. CASE ~ Locked(Current)
    <3>1. Base = Persistent(Undone(Idle, Now))
      BY <2>1, BaseValue, IdleJob DEF Undone
    <3>2. SameButDay(Persistent(Undone(Idle, t)), row)
      BY <1>7, <2>0, <3>1, IdleJob, SetSame
    <3>3. Base' = Persistent(Undone(Idle, t))
      <4>1. ~ Locked(Current)'
        BY <1>5, <1>6, <2>1 DEF Locked
      <4>2. Base' = Persistent(Now')
        BY <4>1 DEF Base
      <4> QED
        BY <1>5, <4>2, IdleJob DEF Undone
    <3> QED
      BY <3>2, <3>3
  <2>2. CASE Locked(Current)
    <3>1. PICK h \in Workers : h = board[Current].holder
      BY <2>2, BaseValue
    <3>2. Base = Persistent(Undone(work[h], Now)) /\ IsJob(work[h])
      BY <3>1, BaseValue DEF Types, WorkTypes
    <3>3. SameButDay(Persistent(Undone(work[h], t)), row)
      BY <1>7, <2>0, <3>2, SetSame
    <3>4. Base' = Persistent(Undone(work'[h], Now'))
      <4>1. Locked(Current)'
        BY <1>5, <1>6, <2>2 DEF Locked
      <4> QED
        BY <1>5, <1>6, <3>1, <4>1 DEF Base
    <3> QED
      BY <1>5, <1>10, <3>1, <3>3, <3>4
  <2> QED
    BY <2>1, <2>2
<1>15. CASE row' = row
  <2>1. DayKept'
    BY <1>14, <1>15 DEF DayKept
  <2>2. AverageKept'
    <3>1. ASSUME NEW y \in Workers, work[y].pc = "save", Op(y) \in PriceOps
          PROVE  work'[y].pc = "save" /\ Op(y)' \in PriceOps
      BY <1>5, <1>8, <3>1 DEF Op
    <3> QED
      BY <1>2, <1>4, <1>15, <3>1 DEF AverageKept
  <2>3. Counted'
    BY <1>2, <1>3, <1>4, <1>15 DEF Counted
  <2> QED
    BY <1>11, <1>12, <1>13, <2>1, <2>2, <2>3
<1>16. CASE row' = Persistent(board'[Current].stock) /\ ~ Locked(Current)
  <2>1. row' = Persistent(t)
    BY <1>5, <1>16 DEF Now
  <2>2. Base' = row'
    <3>1. ~ Locked(Current)'
      BY <1>5, <1>6, <1>16 DEF Locked
    <3> QED
      BY <1>5, <2>1, <3>1 DEF Base
  <2>3. DayKept'
    BY <2>2, SameButDayItself DEF DayKept
  <2>4. /\ row'.real = row.real /\ row'.exchange = row.exchange /\ row'.market = row.market
    BY <1>14, <2>2 DEF SameButDay
  <2>5. AverageKept'
    <3>1. \A y \in Workers : work[y].pc # "save"
      BY <1>4, <1>16, HolderAlone DEF Holding
    <3> QED
      BY <1>2, <1>4, <2>4, <3>1 DEF AverageKept
  <2>6. Counted'
    BY <1>2, <1>3, <1>4, <2>4 DEF Counted
  <2> QED
    BY <1>11, <1>12, <1>13, <2>3, <2>5, <2>6
<1> QED
  BY <1>3, <1>15, <1>16

LEMMA BankruptcySteady ==
  ASSUME Types, Types', Steady, NEW b \in BOOLEAN, SetBankruptcy(b)
  PROVE  Steady'
<1>1. SUFFICES ASSUME overlap' # "now"
               PROVE  (Fresh /\ Changing /\ Kept /\ DayKept /\ AverageKept /\ Counted)'
  BY DEF Steady
<1>2. UNCHANGED <<average, work, issued, bought, missed, overlap>> /\ ~ Locked(Current)
  BY DEF SetBankruptcy, history
<1>3. Fresh /\ DayKept /\ AverageKept /\ Counted
  BY <1>1, <1>2 DEF Steady
<1>4. PICK t \in Stock : t = [Now EXCEPT !.bankrupt = b, !.price = 0]
                         /\ Now' = t /\ row' = Persistent(t)
  BY BoardTypesStep
<1>5. Current' = Current /\ board'[Current].holder = board[Current].holder
  BY BoardTypesStep, BoardFacts DEF OnlyNow, Types
<1>6. ~ Locked(Current)' /\ \A y \in Workers : work[y].pc \notin Holding
  BY <1>2, <1>3, <1>5, HolderAlone DEF Locked
<1>7. Base' = row' /\ Base = Persistent(Now) /\ Now \in Stock
  BY <1>2, <1>4, <1>6, BaseValue, BoardFacts DEF Base, Types
<1>8. t.real = Now.real /\ t.exchange = Now.exchange /\ t.market = Now.market
  BY <1>4, <1>7, BankruptStock
<1>9. row'.real = row.real /\ row'.exchange = row.exchange /\ row'.market = row.market
  <2>1. Base.real = row.real /\ Base.exchange = row.exchange /\ Base.market = row.market
    BY <1>3 DEF DayKept, SameButDay
  <2>2. Base.real = Now.real /\ Base.exchange = Now.exchange /\ Base.market = Now.market
    BY <1>7, PersistentRow
  <2>3. row'.real = t.real /\ row'.exchange = t.exchange /\ row'.market = t.market
    BY <1>4, PersistentRow
  <2> QED
    BY <1>8, <2>1, <2>2, <2>3
<1>10. Fresh'
  BY <1>2, <1>3, <1>5, <1>6 DEF Fresh
<1>11. Changing'
  BY <1>2, <1>6 DEF Changing
<1>12. Kept' /\ DayKept'
  BY <1>7, SameButDayItself DEF Kept, DayKept
<1>13. AverageKept'
  BY <1>2, <1>3, <1>6, <1>9 DEF AverageKept, Holding
<1>14. Counted'
  BY <1>2, <1>3, <1>9 DEF Counted
<1> QED
  BY <1>10, <1>11, <1>12, <1>13, <1>14

\* The steps that leave the rows and the objects alone, or only count in memory.
LEMMA WaitingSteady ==
  ASSUME Types, Types', Steady, NEW x \in Workers,
         \/ TakeUser(x) \/ LookUp(x) \/ CommitDividends(x) \/ GetCompanyDetails(x)
         \/ DividendsFail(x) \/ ReadRows(x) \/ UpdateStockVolume(x) \/ \E j : StartOps(j) /\ Start(x, j)
  PROVE  Steady'
<1>0. BoardTypes /\ Current \in 1 .. Current /\ Now \in Stock
  BY BoardFacts DEF Types
<1>1. \A y \in Workers : y # x => work'[y] = work[y]
  BY OthersStay
<1>2. /\ UNCHANGED <<row, average, issued, bought, missed>> /\ overlap' = overlap
  BY DEF TakeUser, LookUp, CommitDividends, GetCompanyDetails, DividendsFail, ReadRows,
         UpdateStockVolume, Start, history
<1>3. /\ Current' = Current /\ board'[Current].holder = board[Current].holder
      /\ Persistent(Now') = Persistent(Now)
  <2>1. CASE UpdateStockVolume(x)
    <3>1. PICK q : q = work[x].quantity
      OBVIOUS
    <3>2. PICK t : t = [Now EXCEPT !.volume = @ + q]
      OBVIOUS
    <3>3. q \in Nat /\ Now.volume \in Nat
      <4>1. q \in Nat
        BY <3>1 DEF Types, WorkTypes, IsJob
      <4> QED
        BY <1>0, <4>1 DEF Stock
    <3>4. t \in Stock /\ Persistent(t) = Persistent(Now)
      <4>1. t \in Stock
        BY <1>0, <3>2, <3>3 DEF Stock
      <4>2. /\ t.price = Now.price /\ t.real = Now.real /\ t.dayHigh = Now.dayHigh
            /\ t.dayLow = Now.dayLow /\ t.close = Now.close /\ t.exchange = Now.exchange
            /\ t.market = Now.market /\ t.bankrupt = Now.bankrupt
        BY <1>0, <3>2 DEF Stock
      <4>3. Persistent(t) = Persistent(Now)
        BY <4>2 DEF Persistent
      <4> QED
        BY <4>1, <4>3
    <3>5. board' = [board EXCEPT ![Current].stock = t]
      <4>1. board[Current] \in Object /\ DOMAIN board = 1 .. Current
        BY <1>0 DEF BoardTypes, Current
      <4>2. DOMAIN board[Current] = {"holder", "stock"}
        BY <4>1 DEF Object
      <4> QED
        BY <1>0, <2>1, <3>1, <3>2, <4>1, <4>2 DEF UpdateStockVolume, Now
    <3>6. Current' = Current /\ Now' = t /\ board'[Current].holder = board[Current].holder
      BY <1>0, <3>4, <3>5, NewStock
    <3> QED
      BY <3>4, <3>6
  <2>2. CASE board' = board
    BY <2>2 DEF Current, Now
  <2> QED
    BY <2>1, <2>2 DEF TakeUser, LookUp, CommitDividends, GetCompanyDetails, DividendsFail,
                      ReadRows, Start
<1>4. /\ Quiet(work[x], work'[x])
      /\ work'[x].op = "load" \/ Op(x) # "load"
  <2>1. CASE \E j : StartOps(j) /\ Start(x, j)
    <3>1. PICK j : StartOps(j) /\ Start(x, j)
      BY <2>1
    <3>2. work[x] = Idle /\ work'[x] = j
      BY <3>1, StartStep
    <3>3. j.pc \notin AtObject
      BY <3>1 DEF StartOps, AtObject
    <3> QED
      BY <3>2, <3>3, IdleJob DEF Quiet, AtObject, Op
  <2>2. CASE TakeUser(x)
    <3>1. work[x].pc = "users" /\ work'[x].pc = "users" /\ work'[x].op = Op(x)
      BY <2>2, TakeStep
    <3> QED
      BY <3>1 DEF Quiet, AtObject
  <2>3. CASE LookUp(x)
    <3>1. /\ work[x].pc \in {"look", "users"} /\ work'[x].pc = "lock" /\ work'[x].op = Op(x)
          /\ work'[x].object = Current
      BY <2>3, LookStep
    <3> QED
      BY <3>1 DEF Quiet, AtObject
  <2>4. CASE UpdateStockVolume(x) \/ CommitDividends(x) \/ (DividendsFail(x) /\ ~ Return(x))
    <3>1. /\ work[x].pc = "users" /\ work'[x].pc \in {"look", "details", "revert"}
          /\ work'[x].op = Op(x)
      BY <2>4, UsersStep
    <3> QED
      BY <3>1 DEF Quiet, AtObject
  <2>5. CASE ReadRows(x)
    <3>1. work[x].pc = "read" /\ work'[x].pc = "install" /\ work'[x].op = Op(x)
      BY <2>5, ReadStep
    <3> QED
      BY <3>1 DEF Quiet, AtObject
  <2>6. CASE GetCompanyDetails(x) \/ (DividendsFail(x) /\ Return(x))
    <3>1. /\ Return(x) /\ work[x].pc \in {"details", "users"}
      BY <2>6 DEF GetCompanyDetails, DividendsFail, At
    <3>2. work'[x] = Idle
      BY <3>1, ReturnStep
    <3>3. Op(x) # "load"
      BY <3>1 DEF Types, WorkTypes, PlaceOK, Op
    <3> QED
      BY <3>1, <3>2, <3>3, IdleJob DEF Quiet, AtObject
  <2> QED
    BY <2>1, <2>2, <2>3, <2>4, <2>5, <2>6
<1>5. NoLoad' => NoLoad
  BY <1>1, <1>4 DEF NoLoad, Op
<1> QED
  BY <1>1, <1>2, <1>3, <1>4, <1>5, QuietSteady

LEMMA SteadyKept ==
  ASSUME Types, Types', Steady, AddsCounted, [Next]_vars
  PROVE  Steady'
<1>1. ASSUME NEW x \in Workers, Begin(x) PROVE Steady'
  BY <1>1, BeginCases, WaitingSteady, SetDayCases, SetDaySteady DEF Types
<1>2. ASSUME NEW x \in Workers, Proceed(x) PROVE Steady'
  BY <1>2, WaitingSteady, MakesSteady, SaveSteady, NotSavedSteady, LoadSteady, LoadFailsSteady
     DEF Proceed
<1>3. ASSUME UNCHANGED <<row, average, issued, bought, missed, overlap, work>>,
             Current' = Current, board'[Current].holder = board[Current].holder,
             Persistent(Now') = Persistent(Now)
      PROVE  Steady'
  <2>1. NoLoad' => NoLoad
    BY <1>3 DEF NoLoad, Op
  <2> QED
    BY <1>3, <2>1, QuietSteady
<1>4. CASE InvalidStock \/ UNCHANGED vars
  BY <1>3, <1>4 DEF InvalidStock, vars, history, Current, Now
<1>5. CASE RecordOneMinuteOHLC
  <2>1. PICK t \in Stock : t = [Now EXCEPT !.high = Now.price, !.low = Now.price, !.volume = 0]
                           /\ Now' = t
    BY <1>5, BoardTypesStep
  <2>2. UNCHANGED work /\ OnlyNow
    BY <1>5, BoardTypesStep
  <2>3. Current \in 1 .. Current /\ Now \in Stock
    BY BoardFacts DEF Types
  <2>4. Persistent(Now') = Persistent(Now)
    BY <2>1, <2>3, NewMinute
  <2>5. Current' = Current /\ board'[Current].holder = board[Current].holder
    BY <2>2, <2>3 DEF OnlyNow
  <2>6. UNCHANGED <<row, average, issued, bought, missed, overlap>>
    BY <1>5 DEF RecordOneMinuteOHLC
  <2> QED
    BY <1>3, <2>2, <2>4, <2>5, <2>6
<1>6. CASE Crash
  BY <1>6, RestartedSteady DEF Crash, Restarted, Steady, Counted
<1> QED
  BY <1>1, <1>2, <1>4, <1>5, <1>6, BankruptcySteady DEF Next

------------------------------------------------------------------------------
(* The invariant, and what follows from it *)

LEMMA StocksInit ==
  ASSUME Init
  PROVE  IInv
<1>1. PICK r : r = row
  OBVIOUS
<1>2. StartPrice \in Nat /\ Unit * StartPrice \in Nat /\ InExchange \in 0 .. MaxUint
  <2>1. StartPrice \in Nat /\ Unit \in Nat
    BY BoardAssumption
  <2> QED
    BY <2>1, Counts
<1>3. PICK p, a : p = StartPrice /\ a = Unit * StartPrice
  OBVIOUS
<1>4. r = [price |-> p, real |-> a, dayHigh |-> p, dayLow |-> p, close |-> p,
           exchange |-> InExchange, market |-> 0, bankrupt |-> FALSE]
  BY <1>1, <1>3 DEF Init
<1>5. /\ r \in Row /\ r.real = a /\ r.exchange = InExchange /\ r.market = 0 /\ DayOK(r)
  BY <1>2, <1>3, <1>4 DEF Row, DayOK
<1>6. PICK o : o = Loaded(r)
  OBVIOUS
<1>7. /\ o \in Object /\ o.holder = NoOne /\ o.stock \in Stock /\ Persistent(o.stock) = r
      /\ o.stock.volume = 0 /\ StockOK(o.stock)
  BY <1>5, <1>6, LoadedStock DEF StockOK
<1>8. board = <<o>>
  BY <1>1, <1>6 DEF Init
<1>9. board \in Seq(Object) /\ Current = 1 /\ board[1] = o /\ Now = o.stock
  BY <1>7, <1>8 DEF Current, Now
<1>10. \A x \in Workers : work[x] = Idle
  BY DEF Init
<1>11. Types
  <2>1. BoardTypes
    BY <1>1, <1>2, <1>3, <1>5, <1>9 DEF Init, BoardTypes
  <2>2. UserTypes /\ CountTypes
    BY Counts DEF Init, UserTypes, CountTypes
  <2>3. WorkTypes
    <3>1. work = [x \in Workers |-> work[x]]
      BY DEF Init
    <3> QED
      BY <1>10, <3>1, IdleJob DEF WorkTypes
  <2> QED
    BY <2>1, <2>2, <2>3 DEF Types
<1>12. DividendsOK
  BY DEF Init, DividendsOK
<1>13. Sensible
  <2>1. JobsSensible
    BY <1>10, IdleJob DEF JobsSensible, StockOK
  <2>2. BoardSensible
    BY <1>7, <1>9 DEF BoardSensible
  <2>3. VolumeOK
    BY <1>7, <1>9 DEF Init, VolumeOK
  <2> QED
    BY <1>1, <1>5, <2>1, <2>2, <2>3 DEF Sensible
<1>14. Steady
  <2>1. ~ Locked(Current) /\ \A x \in Workers : work[x].pc \notin AtObject
    BY <1>7, <1>9, <1>10, IdleJob DEF Locked, AtObject
  <2>2. Base = row
    BY <1>1, <1>7, <1>9, <2>1 DEF Base
  <2>3. Fresh /\ Changing
    BY <2>1 DEF Fresh, Changing, Holding, AtObject
  <2>4. Kept /\ DayKept
    BY <2>2, SameButDayItself DEF Kept, DayKept
  <2>5. AverageKept /\ Counted
    BY <1>1, <1>3, <1>5, Counts DEF AverageKept, Counted, Init
  <2> QED
    BY <2>3, <2>4, <2>5 DEF Steady
<1>15. AddsCounted
  <2>1. Adds = {}
    BY <1>10, IdleJob DEF Adds, Op
  <2>2. IsFiniteSet({}) /\ Cardinality({}) = 0
    BY FS_EmptySet
  <2> QED
    BY <2>1, <2>2, Counts DEF AddsCounted, Init
<1> QED
  BY <1>11, <1>12, <1>13, <1>14, <1>15 DEF IInv

LEMMA StocksStep ==
  ASSUME IInv, [Next]_vars
  PROVE  IInv'
<1>1. Types'
  BY TypesKept DEF IInv
<1>2. DividendsOK' /\ Sensible' /\ AddsCounted'
  BY DividendsStep, SensibleKept, AddsKept DEF IInv
<1>3. Steady'
  BY <1>1, SteadyKept DEF IInv
<1> QED
  BY <1>1, <1>2, <1>3 DEF IInv

\* The invariant on which the other theorems rest: the types, who pays dividends, prices that
\* make sense, and, unless a load met an update, the stock being the row once what the holder
\* of its lock has changed is undone (models/Stock.go).
THEOREM StocksInvariant == Spec => []IInv
<1>1. Init => IInv
  BY StocksInit
<1>2. IInv /\ [Next]_vars => IInv'
  BY StocksStep
<1> QED
  BY <1>1, <1>2, PTL DEF Spec

LEMMA AgreementHolds ==
  ASSUME IInv
  PROVE  Agreement
<1>0. Types /\ Steady /\ DividendsOK
  BY DEF IInv
<1>1. TypeOK
  <2>1. average \in Nat /\ wedged \subseteq {"map", "object", "users"}
    BY <1>0 DEF Types, BoardTypes, CountTypes
  <2>2. ASSUME NEW g \in DOMAIN board
        PROVE  /\ board[g].holder \in Workers \cup {NoOne}
               /\ \A f \in DOMAIN board[g].stock \ {"bankrupt"} : board[g].stock[f] \in Nat
    <3>1. board[g].stock \in Stock /\ board[g].holder \in Workers \cup {NoOne}
      <4>1. DOMAIN board = 1 .. Current
        BY <1>0 DEF Types, BoardTypes, Current
      <4> QED
        BY <1>0, <2>2, <4>1, BoardFacts DEF Types
    <3>2. PICK s \in Stock : s = board[g].stock
      BY <3>1
    <3>3. /\ DOMAIN s = {"price", "real", "dayHigh", "dayLow", "close", "exchange", "market",
                         "bankrupt", "volume", "high", "low"}
          /\ s.price \in Nat /\ s.real \in Nat /\ s.dayHigh \in Nat /\ s.dayLow \in Nat
          /\ s.close \in Nat /\ s.exchange \in Nat /\ s.market \in Nat /\ s.volume \in Nat
          /\ s.high \in Nat /\ s.low \in Nat
      BY Counts DEF Stock
    <3>4. \A f \in DOMAIN s \ {"bankrupt"} : s[f] \in Nat
      BY <3>3
    <3> QED
      BY <3>1, <3>2, <3>4
  <2>3. holder \in [Users -> Workers \cup {NoOne}] /\ \A u \in Users : paidRow[u] <= paid[u]
    BY <1>0 DEF Types, UserTypes, DividendsOK
  <2> QED
    BY <2>1, <2>2, <2>3 DEF TypeOK
<1>2. ASSUME overlap # "now", ~ Locked(Current), \A x \in Workers : Op(x) # "load"
      PROVE  Persistent(board[Current].stock) = row /\ (missed \/ average = row.real)
  <2>1. Fresh /\ Kept /\ AverageKept
    BY <1>0, <1>2 DEF Steady
  <2>2. Base = row
    BY <1>2, <2>1 DEF Kept, NoLoad
  <2>3. Base = Persistent(Now)
    BY <1>0, <1>2, BaseValue
  <2>4. \A x \in Workers : work[x].pc # "save"
    BY <1>0, <1>2, <2>1, HolderAlone DEF Holding
  <2> QED
    BY <2>1, <2>2, <2>3, <2>4 DEF AverageKept, Now
<1>3. overlap = "never" => row.exchange + row.market = issued /\ row.market = bought
  BY <1>0 DEF Steady, Counted
<1> QED
  BY <1>1, <1>2, <1>3 DEF Agreement

\* Unless a load met an update, the current object is between the operations what its row
\* says, the average is the one in the row or an update of the price has failed, and no stock
\* was made or lost, for all orders of trades, purchases, additions, days, loads, crashes and
\* errors (Stock.go's lock, save and restore).
THEOREM BoardAgrees == Spec => []Agreement
<1>1. IInv => Agreement
  BY AgreementHolds
<1> QED
  BY <1>1, StocksInvariant, PTL

LEMMA BoardMakesSenseHolds ==
  ASSUME IInv
  PROVE  BoardMakesSense
<1>0. Types /\ DayOK(row) /\ BoardSensible /\ VolumeOK
  BY DEF IInv, Sensible
<1>1. DOMAIN board = 1 .. Current /\ Current \in 1 .. Current
  BY <1>0, BoardFacts DEF Types, BoardTypes, Current
<1>2. ASSUME NEW s \in {row} \cup {board[g].stock : g \in DOMAIN board}, s.price # 0
      PROVE  s.price \in s.dayLow .. s.dayHigh
  <2>1. CASE s = row
    BY <1>0, <1>2, <2>1 DEF DayOK
  <2>2. CASE s # row
    <3>1. PICK g \in 1 .. Current : s = board[g].stock
      BY <1>1, <1>2, <2>2
    <3>2. StockOK(s)
      BY <1>0, <3>1 DEF BoardSensible
    <3> QED
      BY <1>2, <3>2 DEF StockOK, DayOK
  <2> QED
    BY <2>1, <2>2
<1>3. StockOK(board[Current].stock)
  BY <1>0, <1>1 DEF BoardSensible
<1>4. /\ board[Current].stock.price # 0 =>
           board[Current].stock.price \in board[Current].stock.low .. board[Current].stock.high
      /\ missed \/ board[Current].stock.volume = traded
  BY <1>0, <1>3 DEF StockOK, MinuteOK, VolumeOK, Now
<1> QED
  BY <1>2, <1>4 DEF BoardMakesSense

\* A price lies between the lows and the highs, and a minute counts all that was traded in
\* it, whoever trades, records, loads and fails (updateStockPrice, UpdateStockVolume).
THEOREM BoardAlwaysMakesSense == Spec => []BoardMakesSense
<1>1. IInv => BoardMakesSense
  BY BoardMakesSenseHolds
<1> QED
  BY <1>1, StocksInvariant, PTL

\* When no dividends are under way, the cash in memory is that of the rows: all the owners
\* were paid or none, also when the payment fails or the program ends in the middle
\* (PerformDividendsTransaction).
THEOREM DividendsAreKept == Spec => []DividendsKept
<1>1. IInv => DividendsKept
  <2>1. SUFFICES ASSUME IInv, \A x \in Workers : Op(x) # "dividends"
                 PROVE  paid = paidRow
    BY DEF DividendsKept
  <2>2. \A u \in Users : paid[u] = paidRow[u]
    BY <2>1 DEF IInv, DividendsOK, Paying
  <2>3. paid \in [Users -> Nat] /\ paidRow \in [Users -> Nat]
    BY <2>1 DEF IInv, Types, UserTypes
  <2> QED
    BY <2>2, <2>3
<1> QED
  BY <1>1, StocksInvariant, PTL
=============================================================================
