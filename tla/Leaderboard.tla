------------------------------ MODULE Leaderboard ------------------------------
(***************************************************************************)
(* The leaderboards: models/LeaderboardRow.go, DailyLeaderboard.go and     *)
(* EndOfDayValues.go, beside trades of two users, which take the same      *)
(* locks.                                                                  *)
(*                                                                         *)
(* A user has a lock in memory, and a row in the database that belongs to  *)
(* the transaction that wrote it until that ends.  The ticker writes the   *)
(* users' rows in one transaction, and the lock of a user is given back    *)
(* before the lock of the next is taken.  TRUNCATE commits what the        *)
(* transaction did before; what follows it is seen row by row.             *)
(***************************************************************************)
EXTENDS Integers, FiniteSets, SequencesExt

CONSTANTS
  Users,        \* the ids of the users that are not blocked
  Workers,      \* the goroutines that serve requests
  Ticker, Free, Lost,
  StartWorth,   \* what each user owns at first
  MaxRounds,    \* bound: rounds of the ticker
  Plans,        \* bound: the requests of a behaviour, in the order they arrive
  MaxFaults     \* bound: errors of the database, other than timeouts

ASSUME UsersAssumption == IsFiniteSet(Users) /\ Users \subseteq Nat /\ Users # {}
ASSUME BoundsAssumption == {StartWorth, MaxRounds, MaxFaults} \subseteq Nat
ASSUME NamesAssumption == Ticker \notin Workers /\ Free \notin Workers \cup {Ticker}
                          /\ Lost \notin Workers \cup {Ticker, Free}

VARIABLES
  holder,   \* who holds a user's lock; Lost when the goroutine returned without giving it back
  writer,   \* the transaction that wrote a user's row, and what it wrote as his worth
  worth,    \* what a user owns, in memory
  rowWorth, \* what he owns in the database
  total,    \* User.Total in memory
  board,    \* the rows of the three tables
  job,      \* what each goroutine does
  todo,     \* the requests that are still to arrive
  rounds, faults,
  torn      \* history: tables whose last writing failed, ran beside another or began from a torn
            \* table, and "Total" when the last round failed before it wrote the leaderboard

boardVars == <<holder, writer, worth, rowWorth, total, board, job, todo, rounds, faults, torn>>

Tables == {"Leaderboard", "Daily", "EndOfDay"}
Idle == [op |-> "idle", at |-> "idle", rows |-> <<>>, i |-> 0, whole |-> TRUE]
NoWriter == [tx |-> Free, worth |-> 0]

BoardInit ==
  /\ holder = [u \in Users |-> Free] /\ writer = [u \in Users |-> NoWriter]
  /\ worth = [u \in Users |-> StartWorth] /\ rowWorth = worth /\ total = worth
  /\ board = [t \in Tables |-> <<>>]
  /\ job = [w \in Workers \cup {Ticker} |-> Idle]
  /\ todo \in Plans /\ rounds = 0 /\ faults = 0
  /\ torn = {}

At(w, op, at) == job[w].op = op /\ job[w].at = at
GoTo(w, at, i) == job' = [job EXCEPT ![w].at = at, ![w].i = i]
Finish(w) == job' = [job EXCEPT ![w] = Idle]
Arrives(op) == todo # <<>> /\ Head(todo) = op /\ todo' = Tail(todo)
Begin(w, op, at, rows, whole) ==
  /\ job[w] = Idle /\ Arrives(op)
  /\ job' = [job EXCEPT ![w] = [op |-> op, at |-> at, rows |-> rows, i |-> 1,
                                     whole |-> whole]]
Fault == faults < MaxFaults /\ faults' = faults + 1
Take(w, u) == holder[u] = Free /\ holder' = [holder EXCEPT ![u] = w]
Give(u) == holder' = [holder EXCEPT ![u] = Free]
RowFree(w, u) == writer[u].tx \in {Free, w}
\* Mutant: the database waits for a row without end.
MayFailWaits(rowsFree) == rowsFree /\ Fault

\* A statement on rows that another transaction keeps waits until the database gives it up.
MayFail(rowsFree) == IF rowsFree THEN Fault ELSE UNCHANGED faults
Released(w) == [u \in Users |-> IF writer[u].tx = w THEN NoWriter ELSE writer[u]]

------------------------------------------------------------------------------
(* A trade of two users: models/User.go locks both, the lower id first *)

StartTrade(w) == \E u, v \in Users :
  /\ u < v /\ Begin(w, "trade", "lock", <<u, v>>, TRUE)
  /\ UNCHANGED <<holder, writer, worth, rowWorth, total, board, rounds, faults, torn>>

LockUser(w) ==
  /\ At(w, "trade", "lock") /\ Take(w, job[w].rows[job[w].i])
  /\ IF job[w].i = 2 THEN GoTo(w, "save", 1) ELSE GoTo(w, "lock", 2)
  /\ UNCHANGED <<writer, worth, rowWorth, total, board, todo, rounds, faults, torn>>

HeldBy(w) == {u \in Users : holder[u] = w}
GiveAll(w) == holder' = [u \in Users |-> IF holder[u] = w THEN Free ELSE holder[u]]

\* One of the two gains what the other loses; both rows are saved as they are in memory.
SaveTrade(w) == \E u, v \in Users :
  /\ At(w, "trade", "save") /\ HeldBy(w) = {u, v} /\ u # v
  /\ RowFree(w, u) /\ RowFree(w, v) /\ worth[u] > 0
  /\ worth' = [worth EXCEPT ![u] = @ - 1, ![v] = @ + 1]
  /\ rowWorth' = [rowWorth EXCEPT ![u] = worth'[u], ![v] = worth'[v]]
  /\ GiveAll(w) /\ Finish(w)
  /\ UNCHANGED <<writer, total, board, todo, rounds, faults, torn>>

\* The trade is undone in memory.
TradeFails(w) ==
  /\ At(w, "trade", "save") /\ MayFail(\A u \in HeldBy(w) : RowFree(w, u))
  /\ GiveAll(w) /\ Finish(w)
  /\ UNCHANGED <<writer, worth, rowWorth, total, board, todo, rounds, torn>>

------------------------------------------------------------------------------
(* The tables *)

\* The rows a query returns, the highest total first; equal totals come in any order.
Sorted(rows) == {s \in SetToSeqs(rows) : \A i \in 1 .. Len(s) - 1 : s[i].total >= s[i + 1].total}

\* Mutant: equal totals get different ranks.
RankedApart(s) == [i \in DOMAIN s |-> [user |-> s[i].user, total |-> s[i].total, rank |-> i]]

\* Equal totals share a rank, and the next lower one counts them all.
Ranked(s) ==
  LET rank[i \in DOMAIN s] ==
        IF i = 1 THEN 1 ELSE IF s[i].total < s[i - 1].total THEN i ELSE rank[i - 1]
  IN [i \in DOMAIN s |-> [user |-> s[i].user, total |-> s[i].total, rank |-> rank[i]]]

\* UpdateDailyLeaderboard follows however UpdateLeaderboard ended.
GoOnDaily == job' = [job EXCEPT ![Ticker] = [Idle EXCEPT !.op = "Daily"]]

Writing(t) == {w \in DOMAIN job : At(w, t, "fill")}
Whole(t) == t \notin torn /\ Writing(t) = {}

\* The transaction so far is committed and the table is empty, for everyone.
Truncate(w, t) ==
  /\ At(w, t, "truncate")
  /\ board' = [board EXCEPT ![t] = <<>>]
  /\ rowWorth' = [u \in Users |-> IF writer[u].tx = w THEN writer[u].worth ELSE rowWorth[u]]
  /\ writer' = Released(w)
  /\ IF job[w].rows = <<>> THEN Finish(w) ELSE GoTo(w, "fill", 1)
  /\ torn' = IF job[w].whole /\ Writing(t) = {}
             THEN torn \ (IF t = "Leaderboard" THEN {t, "Total"} ELSE {t})
             ELSE torn \cup {t}
  /\ UNCHANGED <<holder, worth, total, todo, rounds, faults>>

Fill(w, t) ==
  /\ At(w, t, "fill")
  /\ board' = [board EXCEPT ![t] = Append(@, job[w].rows[job[w].i])]
  /\ IF job[w].i = Len(job[w].rows)
     THEN IF t = "Leaderboard" THEN GoOnDaily
          ELSE Finish(w)
     ELSE GoTo(w, "fill", job[w].i + 1)
  /\ UNCHANGED <<holder, writer, worth, rowWorth, total, todo, rounds, faults, torn>>

\* What was saved since TRUNCATE stays.
FillFails(w, t) ==
  /\ At(w, t, "fill") /\ Fault
  /\ torn' = torn \cup {t}
  /\ IF t = "Leaderboard" THEN GoOnDaily
     ELSE Finish(w)
  /\ UNCHANGED <<holder, writer, worth, rowWorth, total, board, todo, rounds>>

------------------------------------------------------------------------------
(* The ticker: UpdateLeaderboard, then UpdateDailyLeaderboard *)

StartLeaderboard ==
  /\ job[Ticker] = Idle /\ rounds < MaxRounds /\ rounds' = rounds + 1
  /\ \E s \in Sorted({[user |-> u, total |-> rowWorth[u]] : u \in Users}) :
       job' = [job EXCEPT ![Ticker] =
                 [op |-> "Leaderboard", at |-> "take", rows |-> Ranked(s), i |-> 1,
                  whole |-> TRUE]]
  /\ UNCHANGED <<holder, writer, worth, rowWorth, total, board, todo, faults, torn>>

Next1 == job[Ticker].rows[job[Ticker].i].user

TakeUser ==
  /\ At(Ticker, "Leaderboard", "take") /\ Take(Ticker, Next1)
  /\ total' = [total EXCEPT ![Next1] = job[Ticker].rows[job[Ticker].i].total]
  /\ GoTo(Ticker, "save", job[Ticker].i)
  /\ UNCHANGED <<writer, worth, rowWorth, board, todo, rounds, faults, torn>>

\* A user who cannot be loaded: the transaction is left open, with the rows it wrote.
TakeUserFails ==
  /\ At(Ticker, "Leaderboard", "take") /\ Fault
  /\ writer' = [u \in Users |-> IF writer[u].tx = Ticker THEN [writer[u] EXCEPT !.tx = Lost]
                                ELSE writer[u]]
  /\ torn' = torn \cup {"Total"}
  /\ GoOnDaily
  /\ UNCHANGED <<holder, worth, rowWorth, total, board, todo, rounds>>

SaveUser ==
  /\ At(Ticker, "Leaderboard", "save") /\ RowFree(Ticker, Next1)
  /\ writer' = [writer EXCEPT ![Next1] = [tx |-> Ticker, worth |-> worth[Next1]]]
  /\ Give(Next1)
  /\ IF job[Ticker].i = Len(job[Ticker].rows) THEN GoTo(Ticker, "truncate", 1)
     ELSE GoTo(Ticker, "take", job[Ticker].i + 1)
  /\ UNCHANGED <<worth, rowWorth, total, board, todo, rounds, faults, torn>>

\* The error path keeps the user's lock for good.
SaveUserFails ==
  /\ At(Ticker, "Leaderboard", "save") /\ MayFail(RowFree(Ticker, Next1))
  /\ writer' = Released(Ticker)
  /\ holder' = [holder EXCEPT ![Next1] = Lost]
  /\ torn' = torn \cup {"Total"}
  /\ GoOnDaily
  /\ UNCHANGED <<worth, rowWorth, total, board, todo, rounds>>

\* Each row of the leaderboard, less each row of the user among the end-of-day values, or
\* less what he began with when there is none.
Gains ==
  LET l == board["Leaderboard"]
      e == board["EndOfDay"]
      of(i) == {j \in DOMAIN e : e[j].user = l[i].user}
      before(i) == IF of(i) = {} THEN {[n |-> 0, total |-> StartWorth]}
                   ELSE {[n |-> j, total |-> e[j].total] : j \in of(i)}
  IN UNION {{[user |-> l[i].user, total |-> l[i].total - b.total, n |-> b.n] : b \in before(i)} :
            i \in DOMAIN l}

StartDaily ==
  /\ At(Ticker, "Daily", "idle")
  /\ \E s \in Sorted(Gains) :
       job' = [job EXCEPT ![Ticker] =
                 [op |-> "Daily", at |-> "truncate", rows |-> Ranked(s), i |-> 1,
                  whole |-> Whole("Leaderboard") /\ Whole("EndOfDay")]]
  /\ UNCHANGED <<holder, writer, worth, rowWorth, total, board, todo, rounds, faults, torn>>

\* UpdateEndOfDayValues copies the leaderboard.
StartEndOfDay(w) ==
  /\ Begin(w, "EndOfDay", "truncate", board["Leaderboard"], Whole("Leaderboard"))
  /\ UNCHANGED <<holder, writer, worth, rowWorth, total, board, rounds, faults, torn>>

TableStep(w) == \E t \in Tables : Truncate(w, t) \/ Fill(w, t) \/ FillFails(w, t)
TradeStep(w) == LockUser(w) \/ SaveTrade(w) \/ TradeFails(w)
TickerStep ==
  TakeUser \/ TakeUserFails \/ SaveUser \/ SaveUserFails \/ StartDaily \/ TableStep(Ticker)

BoardNext ==
  \/ StartLeaderboard \/ TickerStep
  \/ \E w \in Workers : StartTrade(w) \/ StartEndOfDay(w) \/ TradeStep(w) \/ TableStep(w)

------------------------------------------------------------------------------
(* Properties *)

\* A table that is not torn and not being written lists every user once, or is still empty,
\* and says of each how many have more than he; no user's Total disagrees with it.  The day's
\* leaderboard and the end-of-day values are copies of a leaderboard that was whole.
BoardsRight == \A t \in Tables : Whole(t) =>
  LET rows == ToSet(board[t])
  IN /\ board[t] # <<>> => Len(board[t]) = Cardinality(Users) /\ {r.user : r \in rows} = Users
     /\ t # "EndOfDay" => \A r \in rows : r.rank = 1 + Cardinality({s \in rows : s.total > r.total})
     /\ t = "Leaderboard" /\ job[Ticker] = Idle /\ "Total" \notin torn =>
          \A r \in rows : total[r.user] = r.total

\* Every request and every round ends, although a trade may wait for a row of the ticker's
\* transaction while the ticker waits for a lock of the trade: unless an error left a lock behind.
BoardFairness ==
  /\ WF_boardVars(TickerStep)
  /\ \A w \in Workers : WF_boardVars(TradeStep(w) \/ TableStep(w))
BoardSpec == BoardInit /\ [][BoardNext]_boardVars /\ BoardFairness
LockLost == \E u \in Users : holder[u] = Lost
CallsEnd == \A w \in Workers \cup {Ticker} : job[w] # Idle ~> (job[w] = Idle \/ LockLost)

=============================================================================
