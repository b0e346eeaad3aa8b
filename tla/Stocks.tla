-------------------------------- MODULE Stocks --------------------------------
(***************************************************************************)
(* The stock board: models/Stock.go, the one-minute recorder of            *)
(* StockHistory.go and the dividends of Dividends.go, for one stock.       *)
(*                                                                         *)
(* allStocks maps the id of a stock to an object, with a lock of its own,  *)
(* and LoadStocks replaces all the objects by new ones that it makes from  *)
(* the rows: the board is a sequence of objects of which the last is the   *)
(* current one, while a goroutine may still hold or wait for an older one. *)
(* A goroutine that holds users' locks keeps them until it returns.        *)
(*                                                                         *)
(* The lock of the map is held for a whole step only, so it is not seen,   *)
(* unless it is never given back ("map" in wedged).                        *)
(***************************************************************************)
EXTENDS Integers, FiniteSets, SequencesExt

CONSTANTS
  Workers,       \* goroutines: the matching of orders, requests of users and administrators
  Users,         \* ids of users
  Prices,        \* the prices of trades
  StartPrice,    \* the price of the stock at the start
  Count,         \* averageStockCount
  Unit,          \* a price of 1, as the running average counts
  InExchange,    \* the stocks in the exchange at the start
  MaxUint,       \* the largest count of stocks: below 0 it comes round to this
  MaxJobs,       \* bound: operations in a behaviour
  MaxFaults      \* bound: database errors and crashes in a behaviour

ASSUME BoardAssumption ==
  /\ Users \subseteq Nat /\ Prices \subseteq Nat \ {0} /\ StartPrice \in Prices
  /\ Count \in Nat \ {0} /\ Unit \in Nat \ {0}
ASSUME JobsAssumption == MaxJobs \in Nat /\ MaxFaults \in Nat
ASSUME CountsAssumption == {InExchange, MaxUint} \subseteq Nat /\ InExchange + MaxJobs < MaxUint
ASSUME NoOneAssumption == "no one" \notin Workers

VARIABLES
  row,           \* the row of Stocks
  board,         \* the stock objects, by generation: stock and the holder of its lock
  average,       \* avgLastPrice of the stock, in units
  holder,        \* who holds the lock of each user
  paid,          \* the dividends in each user's cash: in memory
  paidRow,       \* and in his row
  work,          \* what each worker does
  wedged,        \* what is never given back: "map", "object", "users"
  jobs, faults,
  issued,        \* history: the stocks there should be
  bought,        \* history: the stocks that users bought from the exchange
  traded,        \* history: stocks traded since the last record or load
  missed,        \* history: an update of the price failed since the last load
  overlap        \* history: a load met an update: "never", "now", "over"

users == <<holder, paid, paidRow>>
history == <<issued, bought, traded, missed, overlap>>
vars == <<row, board, average, users, work, wedged, jobs, faults, history>>

NoOne == "no one"
Current == Len(board)
Locked(g) == board[g].holder # NoOne

\* What a row keeps of an object, and the object LoadStocks makes of a row.
Persistent(s) == [f \in {"price", "real", "dayHigh", "dayLow", "close",
                         "exchange", "market", "bankrupt"} |-> s[f]]
Loaded(r) ==
  [holder |-> NoOne,
   stock |-> [f \in DOMAIN r \cup {"high", "low", "volume"} |->
               IF f = "volume" THEN 0 ELSE IF f \in {"high", "low"} THEN r.price ELSE r[f]]]

NoRow == [price |-> 0, real |-> 0, dayHigh |-> 0, dayLow |-> 0, close |-> 0,
          exchange |-> 0, market |-> 0, bankrupt |-> FALSE]
\* What a goroutine does: the users it waits for and holds, what it was asked, the object it
\* found, the one it changed and what that was, the rows it read.
Job(op, pc, todo) ==
  [op |-> op, pc |-> pc, todo |-> todo, held |-> {}, price |-> 0, quantity |-> 0,
   object |-> 0, changed |-> 0, old |-> Loaded(NoRow).stock, rows |-> NoRow]
Idle == Job("idle", "idle", <<>>)

Init ==
  /\ row = [price |-> StartPrice, real |-> Unit * StartPrice, dayHigh |-> StartPrice,
            dayLow |-> StartPrice, close |-> StartPrice,
            exchange |-> InExchange, market |-> 0, bankrupt |-> FALSE]
  /\ average = Unit * StartPrice
  /\ board = <<Loaded(row)>>
  /\ holder = [u \in Users |-> NoOne]
  /\ paid = [u \in Users |-> 0] /\ paidRow = paid
  /\ work = [x \in Workers |-> Idle]
  /\ wedged = {} /\ jobs = 0 /\ faults = 0
  /\ issued = InExchange /\ bought = 0 /\ traded = 0 /\ missed = FALSE /\ overlap = "never"

------------------------------------------------------------------------------
(* What the goroutines are asked to do *)

Start(x, job) ==
  /\ work[x] = Idle /\ jobs < MaxJobs
  /\ work' = [work EXCEPT ![x] = job]
  /\ jobs' = jobs + 1
  /\ UNCHANGED <<row, board, average, users, wedged, faults, history>>

InOrder(S) == SetToSortSeq(S, <)

\* A trade holds the locks of its two users until the price is updated.
StartTrade(x) ==
  \E p \in Prices, q \in 1 .. Count, pair \in SUBSET Users :
    /\ Cardinality(pair) = 2
    /\ Start(x, [Job("trade", "users", InOrder(pair)) EXCEPT !.price = p, !.quantity = q])

\* An administrator's price counts as a trade of 10000 stocks.
StartUpdateStockPrice(x) ==
  \E p \in Prices :
    Start(x, [Job("price", "look", <<>>) EXCEPT !.price = p, !.quantity = Count])

StartAddStocksToExchange(x) == Start(x, Job("add", "look", <<>>))

StartBuyFromExchange(x) ==
  /\ ~ board[Current].stock.bankrupt
  /\ \E u \in Users : Start(x, Job("buy", "users", <<u>>))

\* Mutant: the owners come in any order.
StartDividendsUnordered(x) ==
  \E owners \in SUBSET Users \ {{}} : \E todo \in SetToSeqs(owners) :
    Start(x, Job("dividends", "users", todo))

\* GROUP BY userId: the owners come in the order of their ids.
StartDividends(x) ==
  \E owners \in SUBSET Users \ {{}} : Start(x, Job("dividends", "users", InOrder(owners)))

StartLoadStocks(x) == Start(x, Job("load", "read", <<>>))

------------------------------------------------------------------------------
(* Trades, prices, purchases *)

At(x, pc) == work[x].pc = pc
Op(x) == work[x].op
Go(x, pc) == work' = [work EXCEPT ![x].pc = pc]
MapFree == "map" \notin wedged

\* The worker returns and gives the users back.
Return(x) ==
  /\ work' = [work EXCEPT ![x] = Idle]
  /\ holder' = [u \in Users |-> IF holder[u] = x THEN NoOne ELSE holder[u]]

\* The lock of the next user; a dividend is paid with it.
TakeUser(x) ==
  /\ At(x, "users") /\ work[x].todo # <<>>
  /\ LET u == Head(work[x].todo) IN
       /\ holder[u] = NoOne
       /\ holder' = [holder EXCEPT ![u] = x]
       /\ work' = [work EXCEPT ![x].todo = Tail(@), ![x].held = @ \cup {u}]
       /\ paid' = IF Op(x) = "dividends" THEN [paid EXCEPT ![u] = @ + 1] ELSE paid
  /\ UNCHANGED <<row, board, average, paidRow, wedged, jobs, faults, history>>

\* A trade is committed; UpdateStockVolume counts it with the lock of the map alone.
UpdateStockVolume(x) ==
  /\ At(x, "users") /\ Op(x) = "trade" /\ work[x].todo = <<>> /\ MapFree
  /\ board' = [board EXCEPT ![Current].stock.volume = @ + work[x].quantity]
  /\ traded' = traded + work[x].quantity
  /\ Go(x, "look")
  /\ UNCHANGED <<row, average, users, wedged, jobs, faults, issued, bought, missed, overlap>>

\* The object is looked up, then its lock is waited for; a purchase takes no lock of the map.
LookUp(x) ==
  /\ \/ At(x, "look") /\ MapFree
     \/ At(x, "users") /\ Op(x) = "buy" /\ work[x].todo = <<>>
  /\ work' = [work EXCEPT ![x].object = Current, ![x].pc = "lock"]
  /\ UNCHANGED <<row, board, average, users, wedged, jobs, faults, history>>

Higher(a, b) == IF a > b THEN a ELSE b
Lower(a, b) == IF a < b THEN a ELSE b

Averaged(p, q) == average + (Lower(q, Count) * (Unit * p - average)) \div Count

\* The low is not looked at when there is a new high.
Priced(s, avg) ==
  LET p == avg \div Unit
      high(h) == Higher(h, p)
      low(h, l) == IF p > h THEN l ELSE Lower(l, p)
  IN [s EXCEPT !.price = p, !.real = avg,
               !.dayHigh = high(@), !.dayLow = low(s.dayHigh, @),
               !.high = high(@), !.low = low(s.high, @)]

NoneLeft(s) == s.exchange = 0
\* uint64
OneMore(n) == IF n = MaxUint THEN 0 ELSE n + 1
OneLess(n) == IF n = 0 THEN MaxUint ELSE n - 1

\* With the lock of the object it found, a worker changes its stock in memory; a
\* purchase looks the stock up again and may change that of a newer object.
ChangeStock(x) ==
  LET g == work[x].object
      changed == IF Op(x) = "buy" THEN Current ELSE g
      s == board[changed].stock
  IN
  /\ At(x, "lock") /\ ~ Locked(g)
  /\ average' = IF Op(x) \in {"trade", "price"}
                THEN Averaged(work[x].price, work[x].quantity) ELSE average
  /\ board' = [[board EXCEPT ![g].holder = x] EXCEPT ![changed].stock =
       CASE Op(x) \in {"trade", "price"} -> Priced(s, average')
         [] Op(x) = "add" -> [s EXCEPT !.exchange = OneMore(@)]
         [] Op(x) = "buy" /\ ~ NoneLeft(s) -> [s EXCEPT !.exchange = OneLess(@), !.market = @ + 1]
         [] OTHER -> s]
  /\ work' = [work EXCEPT ![x].old = s, ![x].changed = changed,
       ![x].pc = IF Op(x) = "buy" /\ NoneLeft(s) THEN "none left" ELSE "save"]
  /\ UNCHANGED <<row, users, wedged, jobs, faults, history>>

\* All that is in memory is read again from the rows.
Restarted ==
  /\ board' = <<Loaded(row')>>
  /\ average' = row'.real
  /\ holder' = [u \in Users |-> NoOne] /\ paid' = paidRow
  /\ work' = [x \in Workers |-> Idle]
  /\ wedged' = {}
  /\ traded' = 0 /\ missed' = FALSE
  /\ overlap' = IF overlap = "now" THEN "over" ELSE overlap

\* The worker leaves `stock` in the object it changed and unlocks.  The unlocking of a
\* purchase looks the stock up once more: it unlocks the newest object, which ends the
\* program when that is not locked, and leaves its own object locked.
Unlock(x, stock, g) ==
  LET unlocked == IF Op(x) = "buy" THEN Current ELSE work[x].object IN
  /\ board[unlocked].holder # NoOne
  /\ board' = [[board EXCEPT ![unlocked].holder = NoOne] EXCEPT ![g].stock = stock]
  /\ wedged' = IF unlocked = work[x].object THEN wedged ELSE wedged \cup {"object"}
  /\ Return(x)

\* The fatal error of an unlocking that finds no lock.
UnlockFails(x) ==
  /\ Op(x) = "buy" /\ board[Current].holder = NoOne
  /\ Restarted

SaveStock(x) ==
  LET s == board[work[x].changed].stock IN
  /\ At(x, "save")
  /\ row' = Persistent(s)
  /\ issued' = issued + IF Op(x) = "add" THEN 1 ELSE 0
  /\ bought' = bought + IF Op(x) = "buy" THEN 1 ELSE 0
  /\ \/ Unlock(x, s, work[x].changed) /\ UNCHANGED <<average, paid, traded, missed, overlap>>
     \/ UnlockFails(x)
  /\ UNCHANGED <<paidRow, jobs, faults>>

\* Mutant: the stocks in the market are not put back.
RestoredExchange(x) ==
  LET s == board[work[x].changed].stock
      old == work[x].old
  IN CASE Op(x) \in {"trade", "price"} -> old
       [] Op(x) = "add" -> [s EXCEPT !.exchange = OneLess(@)]
       [] Op(x) = "buy" -> [s EXCEPT !.exchange = old.exchange]

\* An update of the price puts the whole object back, the others what they have changed.
Restored(x) ==
  LET s == board[work[x].changed].stock
      old == work[x].old
  IN CASE Op(x) \in {"trade", "price"} -> old
       [] Op(x) = "add" -> [s EXCEPT !.exchange = OneLess(@)]
       [] Op(x) = "buy" -> [s EXCEPT !.exchange = old.exchange, !.market = old.market]

SaveStockFails(x) ==
  /\ At(x, "save") /\ faults < MaxFaults
  /\ faults' = faults + 1 /\ row' = row
  /\ \/ /\ Unlock(x, Restored(x), work[x].changed)
        /\ missed' = (missed \/ Op(x) \in {"trade", "price"})
        /\ UNCHANGED <<average, paid, traded, overlap>>
     \/ UnlockFails(x)
  /\ UNCHANGED <<paidRow, jobs, issued, bought>>

NotEnoughStocks(x) ==
  /\ At(x, "none left") /\ row' = row
  /\ \/ /\ Unlock(x, board[work[x].changed].stock, work[x].changed)
        /\ UNCHANGED <<average, paid, traded, missed, overlap>>
     \/ UnlockFails(x)
  /\ UNCHANGED <<paidRow, jobs, faults, issued, bought>>

------------------------------------------------------------------------------
(* Dividends *)

CommitDividends(x) ==
  /\ At(x, "users") /\ Op(x) = "dividends" /\ work[x].todo = <<>>
  /\ paidRow' = [u \in Users |-> IF u \in work[x].held THEN paid[u] ELSE paidRow[u]]
  /\ Go(x, "details")
  /\ UNCHANGED <<row, board, average, holder, paid, wedged, jobs, faults, history>>

GetCompanyDetails(x) ==
  /\ At(x, "details") /\ ~ Locked(Current)
  /\ Return(x)
  /\ UNCHANGED <<row, board, average, paid, paidRow, wedged, jobs, faults, history>>

\* Mutant: those who were paid keep their dividend.
DividendsFailPaid(x) ==
  /\ At(x, "users") /\ Op(x) = "dividends" /\ faults < MaxFaults
  /\ faults' = faults + 1
  /\ Return(x)
  /\ UNCHANGED <<row, board, average, paid, paidRow, wedged, jobs, history>>

\* RevertToOldState waits for the users again, whom the worker itself holds until it returns.
DividendsFail(x) ==
  /\ At(x, "users") /\ Op(x) = "dividends" /\ faults < MaxFaults
  /\ faults' = faults + 1
  /\ IF work[x].held = {}
     THEN Return(x) /\ wedged' = wedged
     ELSE Go(x, "revert") /\ wedged' = wedged \cup {"users"} /\ holder' = holder
  /\ UNCHANGED <<row, board, average, paid, paidRow, jobs, history>>

------------------------------------------------------------------------------
(* The whole board *)

ReadRows(x) ==
  /\ At(x, "read")
  /\ work' = [work EXCEPT ![x].rows = row, ![x].pc = "install"]
  /\ UNCHANGED <<row, board, average, users, wedged, jobs, faults, history>>

\* Somebody works on an object that is replaced, or saved a row after it was read.
Meets(x) == row # work[x].rows \/ \E y \in Workers : work[y].pc \in {"lock", "save", "none left"}

LoadStocks(x) ==
  /\ At(x, "install") /\ MapFree
  /\ board' = Append(board, Loaded(work[x].rows))
  /\ average' = work[x].rows.real
  /\ traded' = 0 /\ missed' = FALSE
  /\ overlap' = IF Meets(x) THEN "now" ELSE IF overlap = "now" THEN "over" ELSE overlap
  /\ Return(x)
  /\ UNCHANGED <<row, paid, paidRow, wedged, jobs, faults, issued, bought>>

LoadStocksFails(x) ==
  /\ At(x, "read") /\ faults < MaxFaults
  /\ faults' = faults + 1
  /\ overlap' = IF row = Persistent(board[Current].stock) THEN overlap ELSE "now"
  /\ Return(x)
  /\ UNCHANGED <<row, board, average, paid, paidRow, wedged, jobs, issued, bought, traded, missed>>

\* The board is locked, not its stocks: one that is being changed is saved as it stands.
SetDay(x, changed) ==
  /\ MapFree /\ jobs < MaxJobs /\ work[x] = Idle
  /\ jobs' = jobs + 1
  /\ board' = [board EXCEPT ![Current].stock = changed]
  /\ \/ row' = Persistent(board'[Current].stock) /\ faults' = faults
        /\ overlap' = IF Locked(Current) THEN "now" ELSE overlap
     \/ row' = row /\ faults < MaxFaults /\ faults' = faults + 1 /\ overlap' = overlap
  /\ work' = [work EXCEPT ![x] = Job("load", "read", <<>>)]
  /\ UNCHANGED <<average, users, wedged, issued, bought, traded, missed>>

SetPreviousDayClose(x) ==
  LET s == board[Current].stock IN SetDay(x, [s EXCEPT !.close = s.price])
SetDayHighAndLow(x) ==
  LET s == board[Current].stock IN SetDay(x, [s EXCEPT !.dayHigh = s.price, !.dayLow = s.price])

\* The price falls to nothing, also when the stock is no longer bankrupt; the average stays.
SetBankruptcy(isBankrupt) ==
  /\ MapFree /\ ~ Locked(Current) /\ jobs < MaxJobs
  /\ jobs' = jobs + 1
  /\ board' = [board EXCEPT ![Current].stock.bankrupt = isBankrupt, ![Current].stock.price = 0]
  /\ row' = Persistent(board'[Current].stock)
  /\ UNCHANGED <<average, users, work, wedged, faults, history>>

\* SetBankruptcy and SetGivesDividends return with the map locked when there is no such stock.
InvalidStock ==
  /\ MapFree /\ jobs < MaxJobs
  /\ jobs' = jobs + 1
  /\ wedged' = wedged \cup {"map"}
  /\ UNCHANGED <<row, board, average, users, work, faults, history>>

\* Mutant: the volume is not reset.
RecordOneMinuteSum ==
  LET s == board[Current].stock IN
  /\ MapFree /\ ~ Locked(Current)
  /\ board' = [board EXCEPT ![Current].stock = [s EXCEPT !.high = s.price, !.low = s.price]]
  /\ board' # board
  /\ traded' = 0
  /\ UNCHANGED <<row, average, users, work, wedged, jobs, faults, issued, bought, missed, overlap>>

\* What a minute traded goes to its record, and the next minute begins.
RecordOneMinuteOHLC ==
  LET s == board[Current].stock IN
  /\ MapFree /\ ~ Locked(Current)
  /\ board' = [board EXCEPT ![Current].stock =
       [s EXCEPT !.high = s.price, !.low = s.price, !.volume = 0]]
  /\ board' # board
  /\ traded' = 0
  /\ UNCHANGED <<row, average, users, work, wedged, jobs, faults, issued, bought, missed, overlap>>

Crash ==
  /\ faults < MaxFaults /\ faults' = faults + 1 /\ row' = row
  /\ Restarted
  /\ UNCHANGED <<paidRow, jobs, issued, bought>>

------------------------------------------------------------------------------
Begin(x) ==
  \/ StartTrade(x) \/ StartUpdateStockPrice(x) \/ StartAddStocksToExchange(x)
  \/ StartBuyFromExchange(x) \/ StartDividends(x) \/ StartLoadStocks(x)
  \/ SetPreviousDayClose(x) \/ SetDayHighAndLow(x)

Proceed(x) ==
  \/ TakeUser(x) \/ UpdateStockVolume(x) \/ LookUp(x) \/ ChangeStock(x)
  \/ SaveStock(x) \/ SaveStockFails(x) \/ NotEnoughStocks(x)
  \/ CommitDividends(x) \/ GetCompanyDetails(x) \/ DividendsFail(x)
  \/ ReadRows(x) \/ LoadStocks(x) \/ LoadStocksFails(x)

Next ==
  \/ \E x \in Workers : Begin(x) \/ Proceed(x)
  \/ \E b \in BOOLEAN : SetBankruptcy(b)
  \/ InvalidStock \/ RecordOneMinuteOHLC \/ Crash

\* A goroutine that can go on does; the bound on the operations ends any competition for a lock.
Fairness == \A x \in Workers : WF_vars(Proceed(x))

Spec == Init /\ [][Next]_vars /\ Fairness

------------------------------------------------------------------------------
(* Properties *)

\* The rows and the objects have their types.
TypeOK ==
  /\ average \in Nat /\ wedged \subseteq {"map", "object", "users"}
  /\ \A g \in DOMAIN board :
       /\ board[g].holder \in Workers \cup {NoOne}
       /\ \A f \in DOMAIN board[g].stock \ {"bankrupt"} : board[g].stock[f] \in Nat
  /\ holder \in [Users -> Workers \cup {NoOne}]
  /\ \A u \in Users : paidRow[u] <= paid[u]

\* The types are kept.  Unless a load met an update: between the operations the current
\* object is what its row says, the average is the one in the row, or an update of the price
\* has failed; and no stock was made or lost, whoever buys, adds, trades and records at the
\* same time.
Agreement ==
  /\ TypeOK
  /\ (overlap # "now" /\ ~ Locked(Current) /\ \A x \in Workers : Op(x) # "load")
       => Persistent(board[Current].stock) = row /\ (missed \/ average = row.real)
  /\ overlap = "never" => row.exchange + row.market = issued /\ row.market = bought

\* A price lies between the low and the high of the day, and in memory between those of
\* the minute, unless a bankruptcy set it to 0; a minute counts all that was traded in it,
\* unless a failed update has put an older volume back.
BoardMakesSense ==
  /\ \A s \in {row} \cup {board[g].stock : g \in DOMAIN board} :
       s.price # 0 => s.price \in s.dayLow .. s.dayHigh
  /\ LET s == board[Current].stock IN
       /\ s.price # 0 => s.price \in s.low .. s.high
       /\ missed \/ s.volume = traded

\* A dividend is paid to all the owners or to none: when none is under way, the cash in
\* memory is that of the rows.
DividendsKept ==
  (\A x \in Workers : Op(x) # "dividends") => paid = paidRow

\* Whoever works comes to an end, although users, map and stock are locked in several
\* orders: unless a lock is gone that the code never gives back.
WorkEnds == \A x \in Workers : work[x] # Idle ~> (work[x] = Idle \/ wedged # {})

=============================================================================
