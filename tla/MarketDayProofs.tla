---------------------------- MODULE MarketDayProofs ----------------------------
(***************************************************************************)
(* What happens on a market day, for any number of users, goroutines,      *)
(* days, challenges, rounds of the ticker and errors of the database.      *)
(*                                                                         *)
(* The market: opening and closing it in turn keeps one recorder at work   *)
(* (MarketInv), and the longer records say what the records of their       *)
(* minutes say (LongerInv).                                                *)
(*                                                                         *)
(* The challenges and the leaderboards: RewardedOnce, StatesJudged and     *)
(* BoardsRight, from one invariant of four parts, each inductive with the  *)
(* ones before it.  Shape is what every goroutine and table may look like; *)
(* Money says that the users own what they began with and the rewards that *)
(* are claimed; Orderly says which states there are, and which of them are *)
(* judged, while an administrator opens or closes the day; TablesRight     *)
(* says what each goroutine is about to write to a table, what it has      *)
(* written, and which totals the ticker has set.                           *)
(***************************************************************************)
EXTENDS Market, Challenges, FiniteSums, SequenceTheorems, TLAPS

------------------------------------------------------------------------------
(* The market *)

USE DEF marketVars, records

\* The recorders that exist.
Recorders == DOMAIN recorders

Recorder == [chan : Int, tick : Nat]
Record == [at : Nat, open : TradePrices, high : TradePrices, low : TradePrices,
           close : TradePrices, volume : {1}]

MarketTypes ==
  /\ isMarketOpen \in BOOLEAN /\ paired \in BOOLEAN /\ panics \in BOOLEAN
  /\ recorders \in Seq(Recorder) /\ minutes \in Seq(Record)
  /\ stopChan \in Recorders \cup {0} /\ closedChans \subseteq Recorders
  /\ minute \in Nat

\* The channel of a recorder that has not begun is not made, so it is not closed.
ChannelsMade ==
  \A r \in Alive \ Recording : r # stopChan /\ r \notin closedChans

\* While the market is opened and closed in turn: an open market has its recorder, which
\* either has not begun or waits for the channel that CloseMarket will close; a closed one
\* has at most the recorder that is about to stop.
InTurn ==
  /\ ~ panics
  /\ \A r, s \in Alive : r = s
  /\ IF isMarketOpen
     THEN \A r \in Recording : /\ recorders[r].chan = r
                               /\ stopChan = r /\ r \notin closedChans
     ELSE Alive = Recording
  /\ isMarketOpen => Alive # {}
  /\ Recording # {} => stopChan # 0

\* No record is newer than the last tick of the recorder, or as old as the one before it.
RecordsInOrder ==
  /\ \A i \in DOMAIN minutes : /\ minutes[i].at <= minute
                               /\ \A r \in Recording : minutes[i].at <= recorders[r].tick
  /\ \A i, j \in DOMAIN minutes : i < j => minutes[i].at < minutes[j].at

MarketInv == MarketTypes /\ (paired => ChannelsMade /\ InTurn /\ RecordsInOrder)

LEMMA MarketInvInit == MarketInit => MarketInv
<1> SUFFICES ASSUME MarketInit PROVE MarketInv
  OBVIOUS
<1>1. MarketTypes
  BY EmptySeq DEF MarketInit, MarketTypes, Recorders
<1>2. Alive = {} /\ Recording = {} /\ DOMAIN minutes = {}
  BY DEF MarketInit, Alive, Recording
<1> QED
  BY <1>1, <1>2 DEF MarketInit, MarketInv, ChannelsMade, InTurn, RecordsInOrder

\* A step of a recorder that changes nobody else.
LEMMA OneChanges ==
  ASSUME MarketTypes, NEW r \in Recorders, NEW v \in Recorder,
         recorders' = [recorders EXCEPT ![r] = v]
  PROVE  /\ recorders' \in Seq(Recorder)
         /\ Recorders' = Recorders /\ recorders'[r] = v
         /\ Alive' = IF v = Stopped THEN Alive \ {r} ELSE Alive \cup {r}
         /\ Recording' = IF v \in {Stopped, Starting} THEN Recording \ {r}
                         ELSE Recording \cup {r}
         /\ \A s \in Recorders \ {r} : recorders'[s] = recorders[s]
<1>1. recorders' \in Seq(Recorder) /\ Recorders' = Recorders /\ recorders'[r] = v
      /\ \A s \in Recorders \ {r} : recorders'[s] = recorders[s]
  BY ExceptSeq DEF MarketTypes, Recorders
<1>2. Alive' = {s \in Recorders : recorders'[s] # Stopped}
  BY <1>1 DEF Alive, Recorders, Stopped
<1>3. Recording' = {s \in Alive' : recorders'[s] # Starting}
  BY DEF Recording, Starting
<1>4. Stopped # Starting
  BY DEF Stopped, Starting
<1> QED
  BY <1>1, <1>2, <1>3, <1>4 DEF Alive, Recording, Recorders

\* The sequences hold what they should.
LEMMA RecordOf ==
  ASSUME MarketTypes, NEW i \in DOMAIN minutes
  PROVE  i \in Nat /\ i <= Len(minutes) /\ minutes[i].at \in Nat
<1>1. minutes \in Seq(Record)
  BY DEF MarketTypes
<1>2. i \in 1 .. Len(minutes) /\ Len(minutes) \in Nat
  BY <1>1
<1>3. minutes[i] \in Record
  BY <1>1, <1>2, ElementOfSeq
<1> QED
  BY <1>2, <1>3 DEF Record

LEMMA TickOf ==
  ASSUME MarketTypes, NEW r \in Recorders
  PROVE  recorders[r].tick \in Nat
<1>1. recorders \in Seq(Recorder) /\ r \in 1 .. Len(recorders)
  BY DEF MarketTypes, Recorders
<1>2. recorders[r] \in Recorder
  BY <1>1, ElementOfSeq
<1> QED
  BY <1>2 DEF Recorder

LEMMA OpenMarketKeeps ==
  ASSUME MarketInv, NEW update \in BOOLEAN, OpenMarket(update)
  PROVE  MarketInv'
<1> DEFINE n == Len(recorders) + 1
<1>1. MarketTypes /\ Starting \in Recorder
  BY DEF MarketInv, Starting, Recorder
<1>2. ASSUME ~ update
      PROVE  /\ recorders' \in Seq(Recorder)
             /\ Recorders' = Recorders \cup {n} /\ recorders'[n] = Starting
             /\ \A r \in Recorders : recorders'[r] = recorders[r]
  BY <1>1, <1>2, AppendProperties DEF MarketTypes, Recorders, OpenMarket
<1>3. n \notin Recorders /\ n # 0
  BY <1>1 DEF MarketTypes, Recorders
<1> HIDE DEF n
<1>4. MarketTypes'
  <2>1. recorders' \in Seq(Recorder) /\ Recorders \subseteq Recorders'
    BY <1>1, <1>2 DEF OpenMarket, MarketTypes, Recorders
  <2> QED
    BY <1>1, <2>1 DEF MarketTypes, OpenMarket
<1>5. ASSUME paired' PROVE (ChannelsMade /\ InTurn /\ RecordsInOrder)'
  <2>1. /\ paired /\ ~ isMarketOpen /\ Alive = {} /\ isMarketOpen' /\ ~ update
        /\ UNCHANGED <<stopChan, closedChans, minutes, minute, panics>>
    BY <1>1, <1>5 DEF OpenMarket, MarketTypes
  <2>2. ChannelsMade /\ InTurn /\ RecordsInOrder
    BY <2>1 DEF MarketInv
  <2>3. Alive' = {n} /\ Recording' = {}
    BY <1>2, <1>3, <2>1 DEF Alive, Recording, Recorders, Stopped, Starting
  <2>4. n # stopChan /\ n \notin closedChans
    BY <1>1, <1>3 DEF MarketTypes
  <2> QED
    BY <2>1, <2>2, <2>3, <2>4 DEF ChannelsMade, InTurn, RecordsInOrder
<1> QED
  BY <1>4, <1>5 DEF MarketInv

LEMMA CloseMarketKeeps ==
  ASSUME MarketInv, NEW update \in BOOLEAN, CloseMarket(update)
  PROVE  MarketInv'
<1>1. MarketTypes
  BY DEF MarketInv
<1>2. UNCHANGED <<stopChan, recorders, minutes, minute>> /\ ~ isMarketOpen'
  BY DEF CloseMarket
<1>3. Alive' = Alive /\ Recording' = Recording /\ Recorders' = Recorders
  BY <1>2 DEF Alive, Recording, Recorders
<1>4. MarketTypes'
  BY <1>1, <1>2, <1>3 DEF MarketTypes, CloseMarket
<1>5. ASSUME paired' PROVE (ChannelsMade /\ InTurn /\ RecordsInOrder)'
  <2>1. paired /\ isMarketOpen /\ Alive = Recording /\ ~ update
    BY <1>1, <1>5 DEF CloseMarket, MarketTypes
  <2>2. ChannelsMade /\ InTurn /\ RecordsInOrder
    BY <2>1 DEF MarketInv
  <2>3. ~ panics'
    <3>1. PICK r \in Recording : stopChan = r /\ r \notin closedChans
      BY <2>1, <2>2 DEF InTurn
    <3>2. stopChan # 0
      BY <2>2 DEF InTurn
    <3> QED
      BY <2>1, <2>2, <3>1, <3>2 DEF CloseMarket, InTurn
  <2>4. ChannelsMade'
    BY <1>3, <2>1 DEF ChannelsMade
  <2>5. InTurn'
    BY <1>2, <1>3, <2>1, <2>2, <2>3 DEF InTurn
  <2>6. RecordsInOrder'
    BY <1>2, <1>3, <2>2 DEF RecordsInOrder
  <2> QED
    BY <2>4, <2>5, <2>6
<1> QED
  BY <1>4, <1>5 DEF MarketInv

LEMMA StartRecorderKeeps ==
  ASSUME MarketInv, NEW r \in Recorders, StartRecorder(r)
  PROVE  MarketInv'
<1> DEFINE v == [chan |-> r, tick |-> minute]
<1>1. MarketTypes /\ r \in Nat \ {0}
  BY DEF MarketInv, MarketTypes, Recorders
<1>2. v \in Recorder /\ v # Stopped /\ v # Starting
  BY <1>1 DEF MarketTypes, Recorder, Stopped, Starting
<1>3. recorders' = [recorders EXCEPT ![r] = v] /\ r \in Alive \ Recording /\ stopChan' = r
      /\ UNCHANGED <<isMarketOpen, closedChans, minutes, minute, paired, panics>>
  BY DEF StartRecorder
<1>4. v.chan = r /\ v.tick = minute
  OBVIOUS
<1> HIDE DEF v
<1>5. /\ recorders' \in Seq(Recorder) /\ Recorders' = Recorders /\ recorders'[r] = v
      /\ Alive' = Alive \cup {r} /\ Recording' = Recording \cup {r}
  BY <1>1, <1>2, <1>3, OneChanges
<1>6. MarketTypes'
  BY <1>1, <1>3, <1>5 DEF MarketTypes
<1>7. ASSUME paired PROVE (ChannelsMade /\ InTurn /\ RecordsInOrder)'
  <2>1. ChannelsMade /\ InTurn /\ RecordsInOrder
    BY <1>7 DEF MarketInv
  <2>2. /\ Alive = {r} /\ Alive' = {r} /\ Recording' = {r}
        /\ isMarketOpen /\ r \notin closedChans
    BY <1>3, <1>5, <2>1 DEF InTurn, ChannelsMade, Recording
  <2>3. ChannelsMade' /\ InTurn'
    BY <1>1, <1>3, <1>4, <1>5, <2>1, <2>2 DEF ChannelsMade, InTurn
  <2>4. RecordsInOrder'
    BY <1>3, <1>4, <1>5, <2>1, <2>2 DEF RecordsInOrder
  <2> QED
    BY <2>3, <2>4
<1> QED
  BY <1>3, <1>6, <1>7 DEF MarketInv

LEMMA StopRecorderKeeps ==
  ASSUME MarketInv, NEW r \in Recorders, StopRecorder(r)
  PROVE  MarketInv'
<1>1. MarketTypes /\ Stopped \in Recorder
  BY DEF MarketInv, Stopped, Recorder
<1>2. /\ recorders' = [recorders EXCEPT ![r] = Stopped]
      /\ r \in Recording /\ recorders[r].chan \in closedChans
      /\ UNCHANGED <<isMarketOpen, stopChan, closedChans, minutes, minute, paired, panics>>
  BY DEF StopRecorder
<1>3. /\ recorders' \in Seq(Recorder) /\ Recorders' = Recorders
      /\ Alive' = Alive \ {r} /\ Recording' = Recording \ {r}
      /\ \A s \in Recorders \ {r} : recorders'[s] = recorders[s]
  BY <1>1, <1>2, OneChanges
<1>4. MarketTypes'
  BY <1>1, <1>2, <1>3 DEF MarketTypes
<1>5. ASSUME paired PROVE (ChannelsMade /\ InTurn /\ RecordsInOrder)'
  <2>1. ChannelsMade /\ InTurn /\ RecordsInOrder
    BY <1>5 DEF MarketInv
  <2>2. ~ isMarketOpen
    BY <1>2, <2>1 DEF InTurn
  <2>3. Recording' \subseteq Recorders \ {r}
    BY <1>3 DEF Recording, Alive, Recorders
  <2> QED
    BY <1>2, <1>3, <2>1, <2>2, <2>3 DEF ChannelsMade, InTurn, RecordsInOrder
<1> QED
  BY <1>2, <1>4, <1>5 DEF MarketInv

LEMMA RecordMinuteKeeps ==
  ASSUME MarketInv, NEW r \in Recorders, RecordMinute(r)
  PROVE  MarketInv'
<1> DEFINE v == [chan |-> stopChan, tick |-> minute]
<1>1. MarketTypes /\ stopChan \in Nat
  BY DEF MarketInv, MarketTypes, Recorders
<1>2. /\ recorders' = [recorders EXCEPT ![r] = v]
      /\ r \in Recording /\ recorders[r].tick < minute
      /\ UNCHANGED <<isMarketOpen, stopChan, closedChans, minute, paired, panics>>
  BY DEF RecordMinute
<1>3. v \in Recorder /\ v.chan = stopChan /\ v.tick = minute /\ v # Stopped
      /\ (stopChan # 0 => v # Starting)
  BY <1>1 DEF MarketTypes, Recorder, Stopped, Starting
<1>4. PICK p \in TradePrices :
        \/ minutes' = Append(minutes, [at |-> minute, open |-> p, high |-> p, low |-> p,
                                       close |-> p, volume |-> 1])
        \/ minutes' = minutes
  BY DEF RecordMinute
<1> HIDE DEF v
<1>5. /\ recorders' \in Seq(Recorder) /\ Recorders' = Recorders /\ recorders'[r] = v
      /\ Alive' = Alive \cup {r}
      /\ Recording' = IF v = Starting THEN Recording \ {r} ELSE Recording \cup {r}
  BY <1>1, <1>2, <1>3, OneChanges
<1>6. \/ minutes' = minutes
      \/ /\ minutes' \in Seq(Record)
         /\ DOMAIN minutes' = DOMAIN minutes \cup {Len(minutes) + 1}
         /\ minutes'[Len(minutes) + 1].at = minute
         /\ \A i \in DOMAIN minutes : minutes'[i] = minutes[i]
  <2> DEFINE h == [at |-> minute, open |-> p, high |-> p, low |-> p, close |-> p,
                   volume |-> 1]
  <2>1. h \in Record /\ h.at = minute /\ minutes \in Seq(Record)
    BY <1>1 DEF MarketTypes, Record
  <2>2. minutes' = Append(minutes, h) \/ minutes' = minutes
    BY <1>4
  <2> HIDE DEF h
  <2>3. /\ Append(minutes, h) \in Seq(Record)
        /\ DOMAIN Append(minutes, h) = DOMAIN minutes \cup {Len(minutes) + 1}
        /\ Append(minutes, h)[Len(minutes) + 1] = h
        /\ \A i \in DOMAIN minutes : Append(minutes, h)[i] = minutes[i]
    BY <2>1, AppendProperties
  <2> QED
    BY <2>1, <2>2, <2>3
<1>7. MarketTypes'
  BY <1>1, <1>2, <1>5, <1>6 DEF MarketTypes
<1>8. ASSUME paired PROVE (ChannelsMade /\ InTurn /\ RecordsInOrder)'
  <2>1. ChannelsMade /\ InTurn /\ RecordsInOrder
    BY <1>8 DEF MarketInv
  <2>2. stopChan # 0 /\ Alive = {r} /\ Recording = {r}
    BY <1>2, <2>1 DEF InTurn, Recording
  <2>3. Alive' = {r} /\ Recording' = {r}
    BY <1>3, <1>5, <2>2
  <2>4. ChannelsMade' /\ InTurn'
    BY <1>2, <1>3, <1>5, <2>1, <2>2, <2>3 DEF ChannelsMade, InTurn
  <2>5. RecordsInOrder'
    <3>1. \A i \in DOMAIN minutes : /\ minutes[i].at < minute /\ i \in Nat /\ i <= Len(minutes)
                                    /\ minutes[i].at \in Nat
      <4> TAKE i \in DOMAIN minutes
      <4>1. minutes[i].at \in Nat /\ i \in Nat /\ i <= Len(minutes)
        BY <1>1, RecordOf
      <4>2. minutes[i].at <= recorders[r].tick
        BY <2>1, <2>2 DEF RecordsInOrder
      <4>3. recorders[r].tick \in Nat /\ minute \in Nat
        BY <1>1, TickOf DEF MarketTypes
      <4> QED
        BY <1>2, <4>1, <4>2, <4>3
    <3>2. minute \in Nat /\ recorders'[r].tick = minute /\ UNCHANGED minute
      BY <1>1, <1>2, <1>3, <1>5 DEF MarketTypes
    <3>3. \A i \in DOMAIN minutes' : minutes'[i].at <= minute
      BY <1>6, <3>1, <3>2
    <3>4. \A i, j \in DOMAIN minutes : i < j => minutes[i].at < minutes[j].at
      BY <2>1 DEF RecordsInOrder
    <3>5. \A i, j \in DOMAIN minutes' : i < j => minutes'[i].at < minutes'[j].at
      <4>1. CASE minutes' = minutes
        BY <3>4, <4>1
      <4>2. CASE minutes' # minutes
        BY <1>6, <3>1, <3>2, <3>4, <4>2
      <4> QED
        BY <4>1, <4>2
    <3> QED
      BY <2>3, <3>2, <3>3, <3>5 DEF RecordsInOrder
  <2> QED
    BY <2>4, <2>5
<1> QED
  BY <1>2, <1>7, <1>8 DEF MarketInv

LEMMA MarketInvStep == MarketInv /\ [MarketNext]_marketVars => MarketInv'
<1> SUFFICES ASSUME MarketInv, [MarketNext]_marketVars PROVE MarketInv'
  OBVIOUS
<1>1. CASE UNCHANGED marketVars
  <2>1. Recorders' = Recorders /\ Alive' = Alive /\ Recording' = Recording
    BY <1>1 DEF Recorders, Alive, Recording
  <2> QED
    BY <1>1, <2>1 DEF MarketInv, MarketTypes, ChannelsMade, InTurn, RecordsInOrder
<1>2. CASE PassMinute
  <2>1. Recorders' = Recorders /\ Alive' = Alive /\ Recording' = Recording
    BY <1>2 DEF PassMinute, Recorders, Alive, Recording
  <2>2. MarketTypes /\ minute' = minute + 1
        /\ UNCHANGED <<isMarketOpen, stopChan, closedChans, recorders, minutes, paired, panics>>
    BY <1>2 DEF PassMinute, MarketInv
  <2>3. MarketTypes'
    BY <2>1, <2>2 DEF MarketTypes
  <2>4. \A i \in DOMAIN minutes : minutes[i].at \in Nat
    BY <2>2, RecordOf
  <2> QED
    BY <2>1, <2>2, <2>3, <2>4 DEF MarketInv, MarketTypes, ChannelsMade, InTurn, RecordsInOrder
<1> QED
  BY <1>1, <1>2, OpenMarketKeeps, CloseMarketKeeps, StartRecorderKeeps, StopRecorderKeeps,
     RecordMinuteKeeps DEF MarketNext, Recorders

THEOREM MarketInvariant == MarketSpec => []MarketInv
BY MarketInvInit, MarketInvStep, PTL DEF MarketSpec

\* As long as the administrator opens and closes the market in turn, each call after the
\* recorder has begun or stopped, never do two recorders work, no channel is closed twice
\* and no minute is recorded twice: for any number of calls, minutes and lost records.
THEOREM OneRecorderWorks == MarketSpec => []OneRecorder
<1>1. MarketInv => OneRecorder
  <2> SUFFICES ASSUME MarketInv, paired
               PROVE  /\ Cardinality(Alive) <= 1 /\ ~ panics
                      /\ \A i, j \in DOMAIN minutes : i # j => minutes[i].at # minutes[j].at
    BY DEF OneRecorder
  <2>1. InTurn /\ RecordsInOrder /\ \A i \in DOMAIN minutes : i \in Nat /\ minutes[i].at \in Nat
    BY RecordOf DEF MarketInv
  <2>2. CASE Alive = {}
    BY <2>1, <2>2, FS_EmptySet DEF InTurn, RecordsInOrder
  <2>3. ASSUME NEW r \in Alive PROVE Cardinality(Alive) <= 1
    <3>1. Alive = {r}
      BY <2>1, <2>3 DEF InTurn
    <3> QED
      BY <3>1, FS_Singleton
  <2> QED
    BY <2>1, <2>2, <2>3 DEF InTurn, RecordsInOrder
<1> QED
  BY <1>1, MarketInvariant, PTL

------------------------------------------------------------------------------
(* The longer records *)

\* The minutes of a longer record, by their places in the records M, and what it says of them.
Part(c, M) == {i \in DOMAIN M : c.at - c.span < M[i].at /\ M[i].at <= c.at}
Says(c, M) ==
  /\ \A i \in Part(c, M) : c.low <= M[i].low /\ M[i].high <= c.high
  /\ \E i, k \in Part(c, M) : M[i].high = c.high /\ M[k].low = c.low
  /\ \E i \in Part(c, M) : M[i].open = c.open /\ \A k \in Part(c, M) : i <= k
  /\ \E i \in Part(c, M) : M[i].close = c.close /\ \A k \in Part(c, M) : k <= i
  /\ c.volume = Cardinality(Part(c, M))

LongerInv ==
  /\ lost \in Nat /\ \A c \in longer : c.at \in Nat /\ c.span \in Nat \ {0}
  /\ paired => \A c \in longer :
       /\ c.at <= minute /\ \A r \in Recording : c.at <= recorders[r].tick
       /\ Part(c, minutes) # {} \/ lost = 0 => Says(c, minutes)

LEMMA HighestIs ==
  ASSUME NEW S, IsFiniteSet(S), S # {}, S \subseteq Int
  PROVE  /\ Highest(S) \in S /\ \A q \in S : Highest(S) >= q
         /\ Lowest(S) \in S /\ \A q \in S : Lowest(S) <= q
<1> DEFINE More == {w \in S \X S : w[1] > w[2]}
           Less == {w \in S \X S : w[1] < w[2]}
<1>1. \A x, y \in S : (<<x, y>> \in More <=> x > y) /\ (<<x, y>> \in Less <=> x < y)
  OBVIOUS
<1> HIDE DEF More, Less
<1>2. StrictOrder(More, S) /\ StrictOrder(Less, S)
  BY <1>1 DEF StrictOrder
<1>3. \E x \in S : \A y \in S : <<y, x>> \notin More
  BY <1>2, BestElement
<1>4. \E x \in S : \A y \in S : x >= y
  <2>1. PICK x \in S : \A y \in S : <<y, x>> \notin More
    BY <1>3
  <2>2. ASSUME NEW y \in S PROVE x >= y
    <3>1. ~ (y > x)
      BY <1>1, <2>1
    <3>2. x \in Int /\ y \in Int
      OBVIOUS
    <3> QED
      BY <3>1, <3>2
  <2> QED
    BY <2>2
<1>5. \E x \in S : \A y \in S : <<y, x>> \notin Less
  BY <1>2, BestElement
<1>6. \E x \in S : \A y \in S : x <= y
  <2>1. PICK x \in S : \A y \in S : <<y, x>> \notin Less
    BY <1>5
  <2>2. ASSUME NEW y \in S PROVE x <= y
    <3>1. ~ (y < x)
      BY <1>1, <2>1
    <3>2. x \in Int /\ y \in Int
      OBVIOUS
    <3> QED
      BY <3>1, <3>2
  <2> QED
    BY <2>2
<1> QED
  BY <1>4, <1>6 DEF Highest, Lowest

\* An interval that ends now is no longer than the time so far.
LEMMA EndingIs ==
  ASSUME NEW now \in Nat \ {0}, NEW n \in Nat \ {0}, now % n = 0
  PROVE  n <= now
<1> SUFFICES ASSUME now < n PROVE FALSE
  OBVIOUS
<1>1. now = n * 0 + now /\ now \in 0 .. n - 1
  OBVIOUS
<1>2. now % n = now
  BY <1>1, ModUnique
<1> QED
  BY <1>2

Rising(M) == \A i, j \in DOMAIN M : i < j => M[i].at < M[j].at

\* The record c of n minutes is made from the records M, of which the last m minutes were read.
MadeFrom(c, M, read, now, n, m) ==
  /\ M \in Seq(Record) /\ Rising(M) /\ \A i \in DOMAIN M : M[i].at <= now
  /\ now \in Nat /\ n \in Nat \ {0} /\ m \in Nat /\ n <= m
  /\ read = {i \in DOMAIN M : M[i].at >= now - m} /\ read # {}
  /\ c = recordNMinute(M, read, n, now)

\* Such a record says what its minutes say.
LEMMA RecordedRight ==
  ASSUME NEW c, NEW M, NEW read, NEW now, NEW n, NEW m, MadeFrom(c, M, read, now, n, m)
  PROVE  c.at = now /\ c.span = n /\ (Part(c, M) # {} => Says(c, M))
<1>0. /\ M \in Seq(Record) /\ Rising(M) /\ \A i \in DOMAIN M : M[i].at <= now
      /\ now \in Nat /\ n \in Nat \ {0} /\ m \in Nat /\ n <= m
      /\ read = {i \in DOMAIN M : M[i].at >= now - m} /\ read # {}
      /\ c = recordNMinute(M, read, n, now)
  BY DEF MadeFrom
<1> USE <1>0
<1> DEFINE recent == {i \in read : M[i].at > now - n}
           used == IF recent = {} THEN read ELSE {i \in read : i >= Lowest(recent)}
           f == [i \in used |-> M[i].volume]
           highs == {M[i].high : i \in used}
           lows == {M[i].low : i \in used}
<1>1. c = [at |-> now, span |-> n, open |-> M[Lowest(used)].open, close |-> M[Highest(read)].close,
           high |-> Highest(highs), low |-> Lowest(lows), volume |-> SumFunctionOnSet(f, used)]
  BY DEF recordNMinute
<1> HIDE DEF f, highs, lows
<1>2. c.at = now /\ c.span = n
  BY <1>1
<1>3. DOMAIN M = 1 .. Len(M) /\ Len(M) \in Nat
  OBVIOUS
<1>4. \A i \in DOMAIN M : M[i] \in Record /\ M[i].at \in Nat /\ M[i].volume = 1
                          /\ M[i].high \in Int /\ M[i].low \in Int
  <2> TAKE i \in DOMAIN M
  <2>1. M[i] \in Record
    BY <1>3, ElementOfSeq
  <2>2. /\ M[i].at \in Nat /\ M[i].volume = 1
        /\ M[i].high \in TradePrices /\ M[i].low \in TradePrices
    BY <2>1 DEF Record
  <2>3. TradePrices \subseteq Int
    BY IntervalsAssumption
  <2> QED
    BY <2>1, <2>2, <2>3
<1>5. SUFFICES ASSUME Part(c, M) # {} PROVE Says(c, M)
  BY <1>2
<1>6. recent = Part(c, M)
  <2>1. ASSUME NEW i \in DOMAIN M
        PROVE  (M[i].at >= now - m /\ M[i].at > now - n) <=> (c.at - c.span < M[i].at /\ M[i].at <= c.at)
    <3>1. M[i].at \in Nat /\ M[i].at <= now
      BY <1>4
    <3> DEFINE a == M[i].at
    <3> HIDE DEF a
    <3>2. a \in Nat /\ a <= now
      BY <3>1 DEF a
    <3>3. (a >= now - m /\ a > now - n) <=> (now - n < a /\ a <= now)
      BY <3>2
    <3> QED
      BY <1>2, <3>3 DEF a
  <2>2. recent = {i \in DOMAIN M : M[i].at >= now - m /\ M[i].at > now - n}
    OBVIOUS
  <2> HIDE DEF recent
  <2> QED
    BY <2>1, <2>2 DEF Part
<1>7. /\ read \subseteq DOMAIN M /\ read \subseteq Int /\ IsFiniteSet(read)
      /\ recent \subseteq read /\ recent \subseteq Int /\ IsFiniteSet(recent)
  <2>1. IsFiniteSet(1 .. Len(M))
    BY <1>3, FS_Interval
  <2>2. read \subseteq 1 .. Len(M) /\ recent \subseteq read
    BY <1>3
  <2> HIDE DEF recent
  <2> QED
    BY <1>3, <2>1, <2>2, FS_Subset
<1>8. /\ Lowest(recent) \in recent /\ \A q \in recent : Lowest(recent) <= q
      /\ Highest(read) \in read /\ \A q \in read : Highest(read) >= q
  <2> HIDE DEF recent
  <2> QED
    BY <1>5, <1>6, <1>7, HighestIs
<1>9. used = recent
  <2>1. ASSUME NEW i \in read, i >= Lowest(recent) PROVE i \in recent
    <3>1. Lowest(recent) \in DOMAIN M /\ i \in DOMAIN M
      BY <1>7, <1>8
    <3>2. M[i].at >= M[Lowest(recent)].at
      <4> DEFINE l == Lowest(recent)
      <4> HIDE DEF l
      <4>1. l \in DOMAIN M /\ i \in DOMAIN M /\ i >= l
        BY <2>1, <3>1 DEF l
      <4>2. M[l].at \in Nat /\ M[i].at \in Nat /\ l \in Nat /\ i \in Nat
        BY <1>3, <1>4, <4>1
      <4>3. l < i => M[l].at < M[i].at
        BY <4>1 DEF Rising
      <4>4. l < i \/ l = i
        BY <4>1, <4>2
      <4>5. M[i].at >= M[l].at
        BY <4>2, <4>3, <4>4
      <4> QED
        BY <4>5 DEF l
    <3>3. M[Lowest(recent)].at > now - n
      BY <1>8
    <3> QED
      BY <3>1, <3>2, <3>3, <1>4
  <2> QED
    BY <1>5, <1>6, <1>8, <2>1
<1>10. Highest(read) \in recent
  <2>1. Highest(read) >= Lowest(recent)
    BY <1>7, <1>8
  <2> QED
    BY <1>5, <1>6, <1>8, <1>9, <2>1
<1> DEFINE p == Part(c, M)
<1>11. used = p /\ p # {} /\ p \subseteq DOMAIN M /\ IsFiniteSet(p) /\ p \subseteq Int
  BY <1>5, <1>6, <1>7, <1>9
<1>12. /\ Lowest(used) \in p /\ \A q \in p : Lowest(used) <= q
       /\ Highest(read) \in p /\ \A q \in p : q <= Highest(read)
  BY <1>6, <1>7, <1>8, <1>9, <1>10
<1> HIDE DEF recent, used, p
<1>13. c.volume = Cardinality(p)
  <2>1. \A i \in used : f[i] = 1
    BY <1>4, <1>11 DEF f
  <2>2. SumFunctionOnSet(f, used) = Cardinality(used) * 1
    <3> HIDE <1>0
    <3>1. IsFiniteSet(used)
      BY <1>11
    <3> QED
      BY <2>1, <3>1, SumEqual
  <2>3. Cardinality(used) \in Nat
    BY <1>11, FS_CardinalityType
  <2> QED
    BY <1>1, <1>11, <2>2, <2>3
<1>14. /\ Highest(highs) \in highs /\ \A q \in highs : Highest(highs) >= q
       /\ Lowest(lows) \in lows /\ \A q \in lows : Lowest(lows) <= q
  <2>1. highs \subseteq Int /\ lows \subseteq Int /\ highs # {} /\ lows # {}
    BY <1>4, <1>11 DEF highs, lows
  <2>2. IsFiniteSet(highs)
    <3> DEFINE g == [i \in used |-> M[i].high]
    <3>1. g \in Surjection(used, highs)
      BY DEF Surjection, highs
    <3> QED
      BY <1>11, <3>1, FS_Surjection
  <2>3. IsFiniteSet(lows)
    <3> DEFINE g == [i \in used |-> M[i].low]
    <3>1. g \in Surjection(used, lows)
      BY DEF Surjection, lows
    <3> QED
      BY <1>11, <3>1, FS_Surjection
  <2> QED
    BY <2>1, <2>2, <2>3, HighestIs
<1>15. \A i \in p : c.low <= M[i].low /\ M[i].high <= c.high
  <2> TAKE i \in p
  <2>1. M[i].high \in highs /\ M[i].low \in lows
    BY <1>11 DEF highs, lows
  <2>2. c.high = Highest(highs) /\ c.low = Lowest(lows)
    BY <1>1
  <2>3. c.high \in Int /\ c.low \in Int /\ M[i].high \in Int /\ M[i].low \in Int
    BY <1>4, <1>11, <1>14, <2>2 DEF highs, lows
  <2> QED
    BY <1>14, <2>1, <2>2, <2>3
<1>16. \E i, k \in p : M[i].high = c.high /\ M[k].low = c.low
  <2>1. c.high \in highs /\ c.low \in lows
    BY <1>1, <1>14
  <2> QED
    BY <2>1, <1>11 DEF highs, lows
<1>17. c.open = M[Lowest(used)].open /\ c.close = M[Highest(read)].close
  BY <1>1
<1> QED
  BY <1>12, <1>13, <1>15, <1>16, <1>17 DEF Says, p

LEMMA LongerAre ==
  ASSUME NEW M \in Seq(Record), Rising(M), NEW now \in Nat \ {0}, \A i \in DOMAIN M : M[i].at <= now,
         NEW c \in recorderHigherInterval(now, M)
  PROVE  c.at = now /\ c.span \in Nat \ {0} /\ (Part(c, M) # {} => Says(c, M))
<1> DEFINE ending == {n \in Intervals : now % n = 0}
           read == {i \in DOMAIN M : M[i].at >= now - Highest(ending)}
<1>1. read # {} /\ ending # {} /\ \E n \in ending : c = recordNMinute(M, read, n, now)
  BY DEF recorderHigherInterval
<1>2. PICK n \in ending : c = recordNMinute(M, read, n, now)
  BY <1>1
<1>3. ending \subseteq 1 .. now
  <2> SUFFICES ASSUME NEW k \in ending PROVE k \in 1 .. now
    OBVIOUS
  <2>1. k \in Nat \ {0} /\ now % k = 0
    BY IntervalsAssumption
  <2>2. k <= now
    BY <2>1, EndingIs
  <2> QED
    BY <2>1, <2>2
<1>4. n \in Nat \ {0} /\ Highest(ending) \in Nat /\ n <= Highest(ending)
  <2> HIDE DEF ending, read
  <2>1. IsFiniteSet(1 .. now) /\ ending \subseteq Int
    BY <1>3, FS_Interval
  <2>2. IsFiniteSet(ending)
    BY <1>3, <2>1, FS_Subset
  <2>3. Highest(ending) \in ending /\ Highest(ending) >= n
    BY <2>1, <2>2, <1>1, <1>2, HighestIs
  <2>4. n \in 1 .. now /\ Highest(ending) \in 1 .. now
    BY <1>2, <1>3, <2>3
  <2> QED
    BY <2>3, <2>4
<1>5. PICK m \in Nat : m = Highest(ending) /\ n <= m
  BY <1>4
<1>6. PICK R : R = {i \in DOMAIN M : M[i].at >= now - m} /\ R = read
  BY <1>5
<1> HIDE DEF read, ending
<1>7. MadeFrom(c, M, R, now, n, m) /\ n \in Nat \ {0}
  BY <1>1, <1>2, <1>4, <1>5, <1>6 DEF MadeFrom
<1>8. c.at = now /\ c.span = n /\ (Part(c, M) # {} => Says(c, M))
  BY <1>7, RecordedRight
<1> QED
  BY <1>7, <1>8

\* A later minute changes nothing.
LEMMA SaysKept ==
  ASSUME NEW c, NEW M, NEW N, DOMAIN M \subseteq DOMAIN N, \A i \in DOMAIN M : N[i] = M[i],
         \A i \in DOMAIN N \ DOMAIN M : ~ (N[i].at <= c.at)
  PROVE  Part(c, N) = Part(c, M) /\ (Says(c, M) => Says(c, N))
<1>1. Part(c, N) = Part(c, M) /\ \A i \in Part(c, M) : N[i] = M[i]
  BY DEF Part
<1> QED
  BY <1>1 DEF Says

\* Steps that leave the records alone.
LEMMA LongerKept ==
  ASSUME LongerInv, longer' = longer, minutes' = minutes, lost' = lost, minute' \in Int,
         paired' => paired /\ minute \in Int /\ minute' >= minute
                    /\ \A r \in Recording' : (r \in Recording /\ recorders'[r] = recorders[r])
                                              \/ recorders'[r].tick = minute
  PROVE  LongerInv'
<1>1. lost' \in Nat /\ \A c \in longer' : c.at \in Nat /\ c.span \in Nat \ {0}
  BY DEF LongerInv
<1>2. ASSUME paired', NEW c \in longer'
      PROVE  /\ c.at <= minute' /\ \A r \in Recording' : c.at <= recorders'[r].tick
             /\ Part(c, minutes') # {} \/ lost' = 0 => Says(c, minutes')
  <2>1. /\ c.at <= minute /\ \A r \in Recording : c.at <= recorders[r].tick
        /\ Part(c, minutes) # {} \/ lost = 0 => Says(c, minutes)
        /\ c.at \in Nat
    BY <1>2 DEF LongerInv
  <2>2. Part(c, minutes') # {} \/ lost' = 0 => Says(c, minutes')
    BY <2>1
  <2> QED
    BY <1>2, <2>1, <2>2
<1> QED
  BY <1>1, <1>2 DEF LongerInv

LEMMA RecordMinuteLonger ==
  ASSUME MarketInv, MarketInv', LongerInv, NEW r \in Recorders, RecordMinute(r)
  PROVE  LongerInv'
<1>1. MarketTypes /\ MarketTypes'
  BY DEF MarketInv
<1>2. /\ recorders' = [recorders EXCEPT ![r] = [chan |-> stopChan, tick |-> minute]]
      /\ r \in Recording /\ recorders[r].tick < minute /\ minute' = minute /\ paired' = paired
      /\ longer' = longer \cup recorderHigherInterval(minute, minutes')
  BY DEF RecordMinute
<1>3. PICK h : /\ h.at = minute
               /\ \/ minutes' = Append(minutes, h) /\ lost' = lost
                  \/ minutes' = minutes /\ lost' = lost + 1
  BY DEF RecordMinute
<1>4. recorders[r].tick \in Nat /\ minute \in Nat \ {0}
  BY <1>1, <1>2, TickOf DEF MarketTypes
<1>5. lost' \in Nat /\ (lost' = 0 => lost = 0 /\ minutes' = Append(minutes, h))
  BY <1>3 DEF LongerInv
<1>6. minutes \in Seq(Record) /\ minutes' \in Seq(Record)
  BY <1>1 DEF MarketTypes
<1>7. minutes' = Append(minutes, h) =>
        /\ DOMAIN minutes' = DOMAIN minutes \cup {Len(minutes) + 1}
        /\ minutes'[Len(minutes) + 1] = h
        /\ \A i \in DOMAIN minutes : minutes'[i] = minutes[i]
  <2> DEFINE M == minutes
  <2>1. M \in Seq(Record)
    BY <1>6
  <2> HIDE DEF M
  <2>2. /\ DOMAIN Append(M, h) = DOMAIN M \cup {Len(M) + 1}
        /\ Append(M, h)[Len(M) + 1] = h
        /\ \A i \in DOMAIN M : Append(M, h)[i] = M[i]
    BY <2>1, AppendProperties
  <2> QED
    BY <2>2 DEF M
<1>8. \A i \in DOMAIN minutes' : minutes'[i].at \in Nat
  <2> TAKE i \in DOMAIN minutes'
  <2>1. minutes'[i] \in Record
    BY <1>6, ElementOfSeq
  <2> QED
    BY <2>1 DEF Record
<1>9. \A c \in recorderHigherInterval(minute, minutes') : paired' =>
        /\ c.at = minute /\ c.span \in Nat \ {0}
        /\ Part(c, minutes') # {} \/ lost' = 0 => Says(c, minutes')
  <2> SUFFICES ASSUME NEW c \in recorderHigherInterval(minute, minutes'), paired'
               PROVE  /\ c.at = minute /\ c.span \in Nat \ {0}
                      /\ Part(c, minutes') # {} \/ lost' = 0 => Says(c, minutes')
    OBVIOUS
  <2>1. RecordsInOrder'
    BY DEF MarketInv
  <2>2. Rising(minutes') /\ \A i \in DOMAIN minutes' : minutes'[i].at <= minute
    BY <1>2, <2>1 DEF RecordsInOrder, Rising
  <2>3. c.at = minute /\ c.span \in Nat \ {0} /\ (Part(c, minutes') # {} => Says(c, minutes'))
    BY <1>4, <1>6, <2>2, LongerAre
  <2>4. ASSUME lost' = 0 PROVE Part(c, minutes') # {}
    <3>1. Len(minutes) + 1 \in DOMAIN minutes' /\ minutes'[Len(minutes) + 1].at = minute
      BY <1>3, <1>5, <1>7, <2>4
    <3> QED
      BY <1>4, <2>3, <3>1 DEF Part
  <2> QED
    BY <2>3, <2>4
<1>10. \A c \in longer' : c.at \in Nat /\ c.span \in Nat \ {0}
  <2>1. ASSUME NEW c \in recorderHigherInterval(minute, minutes') PROVE c.at \in Nat /\ c.span \in Nat \ {0}
    <3>1. \E n \in Intervals : \E R : c = recordNMinute(minutes', R, n, minute)
      BY <2>1 DEF recorderHigherInterval
    <3>2. PICK n \in Intervals : c.at = minute /\ c.span = n
      BY <3>1 DEF recordNMinute
    <3> QED
      BY <1>4, <3>2, IntervalsAssumption
  <2> QED
    BY <1>2, <2>1 DEF LongerInv
<1>11. ASSUME paired', NEW c \in longer'
       PROVE  /\ c.at <= minute' /\ \A s \in Recording' : c.at <= recorders'[s].tick
              /\ Part(c, minutes') # {} \/ lost' = 0 => Says(c, minutes')
  <2>1. InTurn /\ InTurn'
    BY <1>2, <1>11 DEF MarketInv
  <2>2. r \in Recorders /\ recorders'[r].tick = minute
    BY <1>1, <1>2 DEF MarketTypes, Recorders
  <2>3. \A s \in Recording' : s = r
    <3>1. Recording' \subseteq Recorders
      BY <1>2, <1>1 DEF Recording, Alive, Recorders, MarketTypes
    <3>2. \A s \in Recorders \ {r} : recorders'[s] = recorders[s]
      BY <1>1, <1>2 DEF MarketTypes, Recorders
    <3>3. \A s \in Recorders \ {r} : s \in Recording' => s \in Recording
      BY <3>2 DEF Recording, Alive, Recorders
    <3>4. \A s \in Recording : s = r
      BY <1>2, <2>1 DEF InTurn, Recording
    <3> QED
      BY <3>1, <3>3, <3>4
  <2>4. CASE c \in recorderHigherInterval(minute, minutes')
    BY <1>2, <1>4, <1>9, <1>11, <2>2, <2>3, <2>4
  <2>5. CASE c \in longer
    <3>1. /\ c.at <= recorders[r].tick /\ c.at \in Nat /\ c.at <= minute
          /\ Part(c, minutes) # {} \/ lost = 0 => Says(c, minutes)
      BY <1>2, <1>11, <2>5 DEF LongerInv
    <3>2. Part(c, minutes') = Part(c, minutes) /\ (Says(c, minutes) => Says(c, minutes'))
      <4>1. CASE minutes' = minutes
        BY <4>1
      <4>2. CASE minutes' = Append(minutes, h)
        <5>1. DOMAIN minutes \subseteq DOMAIN minutes' /\ \A i \in DOMAIN minutes : minutes'[i] = minutes[i]
          BY <1>7, <4>2
        <5>2. \A i \in DOMAIN minutes' \ DOMAIN minutes : ~ (minutes'[i].at <= c.at)
          BY <1>2, <1>3, <1>4, <1>7, <3>1, <4>2
        <5> QED
          BY <5>1, <5>2, SaysKept
      <4> QED
        BY <1>3, <4>1, <4>2
    <3>3. lost' = 0 => lost = 0
      BY <1>5
    <3> QED
      BY <1>2, <1>4, <2>2, <2>3, <3>1, <3>2, <3>3
  <2> QED
    BY <1>2, <2>4, <2>5
<1> QED
  BY <1>5, <1>10, <1>11 DEF LongerInv

LEMMA LongerStep ==
  ASSUME MarketInv, MarketInv', LongerInv, [MarketNext]_marketVars
  PROVE  LongerInv'
<1>1. MarketTypes /\ minute \in Nat /\ minute' \in Nat /\ paired \in BOOLEAN
  BY DEF MarketInv, MarketTypes
<1>2. CASE UNCHANGED marketVars
  <2>1. Recording' = Recording
    BY <1>2 DEF Recording, Alive
  <2> QED
    BY <1>1, <1>2, <2>1, LongerKept
<1>3. CASE PassMinute
  <2>1. Recording' = Recording
    BY <1>3 DEF PassMinute, Recording, Alive
  <2> QED
    BY <1>1, <1>3, <2>1, LongerKept DEF PassMinute
<1>4. ASSUME NEW update \in BOOLEAN, OpenMarket(update) PROVE LongerInv'
  <2>1. ASSUME paired' PROVE paired /\ Recording' = {}
    <3>1. paired /\ Alive = {} /\ ~ update
      BY <1>1, <1>4, <2>1 DEF OpenMarket
    <3>2. recorders' = Append(recorders, Starting)
      BY <1>4, <3>1 DEF OpenMarket
    <3>3. \A s \in DOMAIN recorders' : recorders'[s] \in {Stopped, Starting}
      <4> DEFINE M == recorders
      <4>1. M \in Seq(Recorder)
        BY <1>1 DEF MarketTypes
      <4>2. \A s \in DOMAIN M : M[s] = Stopped
        BY <3>1 DEF Alive
      <4> HIDE DEF M
      <4>3. \A s \in DOMAIN Append(M, Starting) : Append(M, Starting)[s] \in {Stopped, Starting}
        BY <4>1, <4>2, AppendProperties
      <4> QED
        BY <3>2, <4>3 DEF M
    <3> QED
      BY <3>1, <3>3 DEF Recording, Alive
  <2> QED
    BY <1>1, <1>4, <2>1, LongerKept DEF OpenMarket
<1>5. ASSUME NEW update \in BOOLEAN, CloseMarket(update) PROVE LongerInv'
  <2>1. Recording' = Recording /\ recorders' = recorders
    BY <1>5 DEF CloseMarket, Recording, Alive
  <2>2. paired' => paired
    BY <1>1, <1>5 DEF CloseMarket
  <2> QED
    BY <1>1, <1>5, <2>1, <2>2, LongerKept DEF CloseMarket
<1>6. ASSUME NEW r \in Recorders, StartRecorder(r) \/ StopRecorder(r) PROVE LongerInv'
  <2> DEFINE v == IF StartRecorder(r) THEN [chan |-> r, tick |-> minute] ELSE Stopped
  <2>1. recorders' = [recorders EXCEPT ![r] = v] /\ (v = Stopped \/ v.tick = minute)
    BY <1>6 DEF StartRecorder, StopRecorder
  <2> HIDE DEF v
  <2>2. \A s \in Recording' : (s \in Recording /\ recorders'[s] = recorders[s]) \/ recorders'[s].tick = minute
    <3> SUFFICES ASSUME NEW s \in Recording'
                 PROVE  (s \in Recording /\ recorders'[s] = recorders[s]) \/ recorders'[s].tick = minute
      OBVIOUS
    <3>1. s \in DOMAIN recorders /\ recorders'[s] \notin {Stopped, Starting}
      BY <2>1 DEF Recording, Alive
    <3>2. CASE s = r
      BY <2>1, <3>1, <3>2
    <3>3. CASE s # r
      <4>1. recorders'[s] = recorders[s]
        BY <2>1, <3>1, <3>3
      <4> QED
        BY <3>1, <4>1 DEF Recording, Alive
    <3> QED
      BY <3>2, <3>3
  <2> QED
    BY <1>1, <1>6, <2>2, LongerKept DEF StartRecorder, StopRecorder, records
<1> QED
  BY <1>2, <1>3, <1>4, <1>5, <1>6, RecordMinuteLonger DEF MarketNext, Recorders

\* A record of 5 to 60 minutes says what the one-minute records of its time say, with minutes
\* that were not recorded among them, as long as the market is opened and closed in turn: for
\* any intervals, and any number of calls, minutes and lost records.
THEOREM LongerRecordsStayRight == MarketSpec => []LongerRecordsRight
<1>1. MarketInit => LongerInv
  BY DEF MarketInit, LongerInv
<1>2. MarketSpec => []LongerInv
  BY <1>1, LongerStep, MarketInvariant, PTL DEF MarketSpec
<1>3. MarketInv /\ LongerInv => LongerRecordsRight
  <2> SUFFICES ASSUME MarketInv, LongerInv, paired, NEW c \in longer,
                      NEW part, part = {h \in ToSet(minutes) : h.at \in c.at - c.span + 1 .. c.at},
                      part # {} \/ lost = 0
               PROVE  /\ \A h \in part : c.low <= h.low /\ h.high <= c.high
                      /\ \E h, k \in part : h.high = c.high /\ k.low = c.low
                      /\ \E h \in part : h.open = c.open /\ \A k \in part : h.at <= k.at
                      /\ \E h \in part : h.close = c.close /\ \A k \in part : k.at <= h.at
                      /\ c.volume = Cardinality(part)
    BY DEF LongerRecordsRight
  <2> DEFINE p == Part(c, minutes)
  <2>1. \A i \in DOMAIN minutes : i \in Nat /\ minutes[i].at \in Nat
    BY RecordOf DEF MarketInv
  <2>2. c.at \in Nat /\ c.span \in Nat
    BY DEF LongerInv
  <2>3. /\ \A i \in p : minutes[i] \in part
        /\ \A h \in part : \E i \in p : minutes[i] = h
    BY <2>1, <2>2 DEF Part, ToSet
  <2>4. Says(c, minutes)
    BY <2>3 DEF LongerInv
  <2>5. p \subseteq DOMAIN minutes /\ IsFiniteSet(p)
    <3>1. minutes \in Seq(Record)
      BY DEF MarketInv, MarketTypes
    <3>2. DOMAIN minutes = 1 .. Len(minutes) /\ Len(minutes) \in Nat
      BY <3>1
    <3>3. IsFiniteSet(DOMAIN minutes)
      BY <3>2, FS_Interval
    <3> QED
      BY <3>3, FS_Subset DEF Part
  <2>6. \A i, j \in DOMAIN minutes : (i < j => minutes[i].at < minutes[j].at)
    BY DEF MarketInv, RecordsInOrder
  <2>7. \A i, j \in p : i <= j => minutes[i].at <= minutes[j].at
    BY <2>1, <2>5, <2>6
  <2>8. Cardinality(part) = Cardinality(p)
    <3> DEFINE g == [i \in p |-> minutes[i]]
    <3>1. \A i, j \in p : g[i] = g[j] => i = j
      BY <2>1, <2>5, <2>6
    <3>2. g \in Bijection(p, part)
      BY <2>3, <3>1 DEF Bijection, Injection, Surjection, IsInjective
    <3> QED
      BY <2>5, <3>2, FS_Bijection DEF ExistsBijection
  <2> HIDE DEF p
  <2>9. \A h \in part : c.low <= h.low /\ h.high <= c.high
    BY <2>3, <2>4 DEF Says, p
  <2>10. \E h, k \in part : h.high = c.high /\ k.low = c.low
    BY <2>3, <2>4 DEF Says, p
  <2>11. \E h \in part : h.open = c.open /\ \A k \in part : h.at <= k.at
    BY <2>3, <2>4, <2>7 DEF Says, p
  <2>12. \E h \in part : h.close = c.close /\ \A k \in part : k.at <= h.at
    BY <2>3, <2>4, <2>7 DEF Says, p
  <2> QED
    BY <2>4, <2>8, <2>9, <2>10, <2>11, <2>12 DEF Says, p
<1> QED
  BY <1>2, <1>3, MarketInvariant, PTL

------------------------------------------------------------------------------
(* The challenges and the leaderboards *)

TickerOps == {"idle", "Leaderboard", "Daily"}
WorkerOps == {"idle", "trade", "EndOfDay", "add", "open", "close", "claim"}
Everyone == Workers \cup {Ticker}

TableRow == [user : Users, total : Int, rank : Nat]
Challenge == [day : Nat, kind : Kinds]
State == [challenge : Nat, user : Users, initial : Nat, final : Nat \cup {None},
          done : BOOLEAN, claimed : BOOLEAN]
Note == [id : Nat, final : Nat, done : BOOLEAN]

UsersTyped ==
  /\ holder \in [Users -> Everyone \cup {Free, Lost}]
  /\ writer \in [Users -> [tx : {Free, Ticker, Lost}, worth : Nat]]
  /\ worth \in [Users -> Nat] /\ rowWorth \in [Users -> Nat] /\ total \in [Users -> Nat]
TablesTyped == board \in [Tables -> Seq(TableRow)]
DayTyped ==
  /\ day \in Nat /\ isOpen \in BOOLEAN /\ orderly \in BOOLEAN /\ fair \in BOOLEAN
  /\ opened \subseteq Nat /\ late \subseteq Users
  /\ challenges \in Seq(Challenge)
  /\ states \in Seq(State) /\ \A s \in DOMAIN states : states[s].challenge \in DOMAIN challenges

\* What a goroutine keeps in mind by what it does: rows of a table, ids of states (those in
\* S), a day or a challenge.
IsJob(j) == j \in [op : {j.op}, at : {j.at}, rows : {j.rows}, i : Nat, whole : BOOLEAN]
Judging(j) == j.op = "close" /\ j.at \in {"take", "judge"}
CallFits(j, S) ==
  /\ j.op = "add" => j.at = "save" /\ j.rows \in Seq(Challenge)
  /\ j.op = "open" => j.at \in {"check", "save", "flag"} /\ j.rows[1] \in Nat
  /\ j.op = "close" => j.at \in {"check", "take", "judge", "flag"}
  /\ j.op = "close" /\ j.at = "check" => j.rows[1] \in Nat /\ j.i = 1
  /\ Judging(j) => j.rows \in Seq(S) /\ j.i \in 1 .. Len(j.rows) + 1
  /\ Judging(j) /\ j.at = "judge" => j.i <= Len(j.rows)
  /\ j.op = "claim" => j.at \in {"lock", "pay"} /\ j.rows[1] \in S
TableFits(j) ==
  /\ j.op \in Tables /\ j.at # "idle" => j.rows \in Seq(TableRow)
  /\ j.op \in Tables /\ j.at = "fill" => j.i \in 1 .. Len(j.rows)
  /\ j.op = "Leaderboard" =>
       /\ j.at \in {"take", "save", "truncate", "fill"} /\ j.i \in 1 .. Len(j.rows)
       /\ \A i \in 1 .. Len(j.rows) : j.rows[i].total \in Nat
  /\ j.op = "Daily" => j.at \in {"idle", "truncate", "fill"}
  /\ j.op = "EndOfDay" => j.at \in {"truncate", "fill"}
JobFits(w, j, S) ==
  /\ IsJob(j) /\ j.op \in IF w = Ticker THEN TickerOps ELSE WorkerOps
  /\ CallFits(j, S) /\ TableFits(j)
JobsFit == job = [w \in Everyone |-> job[w]]
           /\ \A w \in Everyone : JobFits(w, job[w], DOMAIN states)

\* A transaction that closes the day has a note of each state before the next one.
NotesFit(notes, j, all) ==
  /\ notes \in Seq(Note)
  /\ IF Judging(j) THEN {notes[k].id : k \in 1 .. Len(notes)} = {j.rows[k] : k \in 1 .. j.i - 1}
     ELSE notes = <<>>
  /\ \A k \in 1 .. Len(notes) :
       notes[k].done <=> notes[k].final >= all[notes[k].id].initial + Goal
AllNotesFit == judged = [w \in Workers |-> judged[w]]
               /\ \A w \in Workers : NotesFit(judged[w], job[w], states)

Shape == UsersTyped /\ TablesTyped /\ DayTyped /\ JobsFit /\ AllNotesFit

------------------------------------------------------------------------------
(* Money *)

Claimed == {s \in DOMAIN states : states[s].claimed}
AllMoney == Cardinality(Users) * StartWorth + Reward * Cardinality(Claimed)
Claims(w) == job[w].op = "claim"

Money == fair =>
  /\ rowWorth = worth
  /\ \A u \in Users : writer[u].tx # Free => writer[u].worth = worth[u]
  /\ Total(worth) = AllMoney
  /\ \A w \in Workers : Claims(w) => ~ states[ClaimedState(w)].claimed
  /\ \A v, w \in Workers : Claims(v) /\ Claims(w) /\ ClaimedState(v) = ClaimedState(w) => v = w

------------------------------------------------------------------------------
(* The day *)

DayOf(s) == challenges[states[s].challenge].day
Calls(w) == job[w].op \in {"open", "close"}
SavesDay(d) == \E w \in Workers : At(w, "open", "flag") /\ d = day
Saved(d) == d \in opened \/ SavesDay(d)
\* The day is open and its states are not judged yet.
Unjudged(d) == d = day /\ isOpen /\ \A w \in Workers : ~ At(w, "close", "flag")
JudgedRight(s) == /\ states[s].final # None
                  /\ states[s].done <=> states[s].final >= states[s].initial + Goal
OnlyState(s, c, u) == \A r \in DOMAIN states : (states[r].challenge = c /\ states[r].user = u) <=> r = s

OneCall == \A v, w \in Workers : Calls(v) /\ Calls(w) => v = w
DaysPass ==
  /\ \A d \in opened : d <= day
  /\ isOpen => day \in opened
  /\ \A w \in Workers : job[w].op = "add" => \A i \in DOMAIN job[w].rows : job[w].rows[i].day > day
  /\ \A w \in Workers : job[w].op = "open" \/ At(w, "close", "check") => job[w].rows[1] = day
  /\ \A w \in Workers : At(w, "open", "save") \/ At(w, "open", "flag") => ~ isOpen /\ day \notin opened
  /\ \A w \in Workers : Judging(job[w]) \/ At(w, "close", "flag") => isOpen
StatesSaved == \A c \in DOMAIN challenges : \A u \in Users \ late :
  IF Saved(challenges[c].day)
  THEN \E s \in DOMAIN states : OnlyState(s, c, u)
  ELSE \A r \in DOMAIN states : ~ (states[r].challenge = c /\ states[r].user = u)
DoneIsJudged == \A s \in DOMAIN states :
  states[s].done => DayOf(s) \in opened /\ ~ Unjudged(DayOf(s))
OpenedIsJudged == \A s \in DOMAIN states :
  states[s].user \notin late /\ DayOf(s) \in opened /\ ~ Unjudged(DayOf(s)) => JudgedRight(s)
JudgingAll == \A w \in Workers : Judging(job[w]) =>
  /\ \A j \in DOMAIN job[w].rows : DayOf(job[w].rows[j]) = day
  /\ \A s \in DOMAIN states : DayOf(s) = day /\ states[s].user \notin late =>
       \E j \in DOMAIN job[w].rows : job[w].rows[j] = s
ClaimedIsDone ==
  /\ \A s \in Claimed : states[s].done
  /\ \A w \in Workers : Claims(w) => states[ClaimedState(w)].done

DayRight == OneCall /\ DaysPass /\ StatesSaved /\ DoneIsJudged /\ OpenedIsJudged /\ JudgingAll /\ ClaimedIsDone
Orderly == orderly => DayRight

------------------------------------------------------------------------------
(* The tables *)

Distinct(rows) == \A i, j \in DOMAIN rows : rows[i].user = rows[j].user => i = j
Lists(rows) ==
  /\ Distinct(rows) /\ \A u \in Users : \E i \in DOMAIN rows : rows[i].user = u
  /\ Len(rows) = Cardinality(Users)
RanksRight(rows) == \A i \in DOMAIN rows :
  rows[i].rank = 1 + Cardinality({j \in DOMAIN rows : rows[j].total > rows[i].total})
Full(rows) == Lists(rows) /\ RanksRight(rows)

TableJob(w) ==
  /\ job[w].op \in Tables /\ job[w].at # "idle" /\ job[w].whole =>
       job[w].rows = <<>> \/ Full(job[w].rows)
  /\ job[w].op = "Leaderboard" => job[w].whole /\ Full(job[w].rows)
TableJobs == \A w \in Everyone : TableJob(w)

\* Whoever writes a table that is not torn is alone, and wrote the rows before his next one.
TableOK(t) == t \notin torn =>
  /\ Writing(t) = {} => board[t] = <<>> \/ Full(board[t])
  /\ \A v, w \in Writing(t) : v = w
  /\ \A w \in Writing(t) : job[w].whole /\ board[t] = SubSeq(job[w].rows, 1, job[w].i - 1)
TablesOK == \A t \in Tables : TableOK(t)

TotalsUpTo(rows, n) == \A i \in 1 .. n : total[rows[i].user] = rows[i].total
TotalsOf(rows) == \A i \in DOMAIN rows : total[rows[i].user] = rows[i].total
TotalsOK ==
  /\ At(Ticker, "Leaderboard", "take") => TotalsUpTo(job[Ticker].rows, job[Ticker].i - 1)
  /\ At(Ticker, "Leaderboard", "save") => TotalsUpTo(job[Ticker].rows, job[Ticker].i)
  /\ At(Ticker, "Leaderboard", "truncate") \/ At(Ticker, "Leaderboard", "fill") =>
       TotalsOf(job[Ticker].rows)
  /\ job[Ticker].op # "Leaderboard" /\ {"Leaderboard", "Total"} \cap torn = {} => TotalsOf(board["Leaderboard"])

TablesRight == TableJobs /\ TablesOK /\ TotalsOK

ChallengesInv == Shape /\ Money /\ Orderly /\ TablesRight

USE DEF users, boardVars, challengeVars, At, Tables, Everyone, TickerOps, WorkerOps

------------------------------------------------------------------------------
(* The shape of the state *)

LEMMA Names ==
  /\ Ticker \notin Workers /\ Free \notin Everyone /\ Lost \notin Everyone /\ Lost # Free
  /\ None \notin Int /\ IsFiniteSet(Users) /\ Cardinality(Users) \in Nat /\ Users # {}
  /\ StartWorth \in Nat /\ Goal \in Nat /\ Reward \in Nat
BY NamesAssumption, ChallengesAssumption, UsersAssumption, BoundsAssumption, FS_CardinalityType

\* What GoTo makes of a job.
Went(j, at, i) == [[j EXCEPT !.at = at] EXCEPT !.i = i]

LEMMA GoToIs ==
  ASSUME NEW w \in Everyone, NEW at, NEW i, GoTo(w, at, i), JobsFit
  PROVE  job' = [job EXCEPT ![w] = Went(job[w], at, i)]
BY DEF GoTo, Went, JobsFit, JobFits, IsJob

LEMMA WentIs ==
  ASSUME NEW j, IsJob(j), NEW at, NEW i \in Nat
  PROVE  /\ IsJob(Went(j, at, i))
         /\ Went(j, at, i).op = j.op /\ Went(j, at, i).at = at /\ Went(j, at, i).rows = j.rows
         /\ Went(j, at, i).i = i /\ Went(j, at, i).whole = j.whole
BY DEF Went, IsJob

LEMMA IdleFits ==
  ASSUME NEW w, NEW S
  PROVE  /\ JobFits(w, Idle, S) /\ ~ Judging(Idle) /\ Idle.op = "idle" /\ Idle.at = "idle"
         /\ Idle.rows = <<>> /\ Idle.i = 0 /\ Idle.whole
BY DEF JobFits, Idle, IsJob, CallFits, TableFits, Judging

LEMMA JobStep ==
  ASSUME JobsFit, NEW w \in Everyone, NEW j, job' = [job EXCEPT ![w] = j],
         JobFits(w, j, DOMAIN states'), DOMAIN states \subseteq DOMAIN states'
  PROVE  JobsFit'
<1>1. job' = [v \in Everyone |-> job'[v]]
  BY DEF JobsFit
<1>2. ASSUME NEW v \in Everyone PROVE JobFits(v, job'[v], DOMAIN states')
  <2>1. CASE v = w
    BY <2>1 DEF JobsFit
  <2>2. CASE v # w
    <3> DEFINE k == job[v]
    <3>1. JobFits(v, k, DOMAIN states) /\ job'[v] = k
      BY <2>2 DEF JobsFit
    <3> HIDE DEF k
    <3>2. Judging(k) => k.rows \in Seq(DOMAIN states')
      <4>1. Judging(k) => k.rows \in Seq(DOMAIN states)
        BY <3>1 DEF JobFits, CallFits
      <4> QED
        BY <4>1, SeqMonotonic
    <3> QED
      BY <3>1, <3>2 DEF JobFits, CallFits
  <2> QED
    BY <2>1, <2>2
<1> QED
  BY <1>1, <1>2 DEF JobsFit

LEMMA JobsSame ==
  ASSUME JobsFit, job' = job, DOMAIN states \subseteq DOMAIN states'
  PROVE  JobsFit'
<1>1. job' = [job EXCEPT ![Ticker] = job[Ticker]]
  BY DEF JobsFit
<1> DEFINE k == job[Ticker]
<1>2. JobFits(Ticker, k, DOMAIN states)
  BY DEF JobsFit
<1> HIDE DEF k
<1>3. JobFits(Ticker, k, DOMAIN states')
  BY <1>2, Names DEF JobFits, CallFits, Judging
<1> QED
  BY <1>1, <1>3, JobStep DEF k

\* States are added, and keep what they began with.
Grown(old, new) == \A s \in DOMAIN old : s \in DOMAIN new /\ new[s].initial = old[s].initial

LEMMA NotesGrow ==
  ASSUME NEW notes, NEW j, NEW old, NEW new, NEW w, NotesFit(notes, j, old),
         JobFits(w, j, DOMAIN old), Grown(old, new)
  PROVE  NotesFit(notes, j, new)
<1>1. CASE Judging(j)
  <2>1. \A k \in 1 .. Len(notes) : notes[k].id \in {j.rows[i] : i \in 1 .. j.i - 1}
    BY <1>1 DEF NotesFit
  <2>2. j.rows \in Seq(DOMAIN old) /\ j.i - 1 <= Len(j.rows) /\ j.i \in Int /\ Len(j.rows) \in Nat
    BY <1>1 DEF JobFits, CallFits
  <2>3. \A i \in 1 .. j.i - 1 : j.rows[i] \in DOMAIN old
    BY <2>2, ElementOfSeq
  <2>4. \A k \in 1 .. Len(notes) : new[notes[k].id].initial = old[notes[k].id].initial
    BY <2>1, <2>3 DEF Grown
  <2> QED
    BY <2>4 DEF NotesFit
<1>2. CASE ~ Judging(j)
  BY <1>2 DEF NotesFit
<1> QED
  BY <1>1, <1>2

LEMMA NotesStep ==
  ASSUME JobsFit, AllNotesFit, NEW w \in Everyone, NEW j, job' = [job EXCEPT ![w] = j],
         judged' = [v \in Workers |-> judged'[v]],
         \A v \in Workers \ {w} : judged'[v] = judged[v],
         w \in Workers => NotesFit(judged'[w], j, states'), Grown(states, states')
  PROVE  AllNotesFit'
<1>1. ASSUME NEW v \in Workers PROVE NotesFit(judged'[v], job'[v], states')
  <2>1. CASE v = w
    BY <2>1 DEF JobsFit
  <2>2. CASE v # w
    <3>1. NotesFit(judged[v], job[v], states) /\ JobFits(v, job[v], DOMAIN states)
      BY DEF JobsFit, AllNotesFit
    <3>2. judged'[v] = judged[v] /\ job'[v] = job[v]
      BY <2>2 DEF JobsFit
    <3> QED
      BY <3>1, <3>2, NotesGrow
  <2> QED
    BY <2>1, <2>2
<1> QED
  BY <1>1 DEF AllNotesFit

LEMMA NotesSame ==
  ASSUME JobsFit, AllNotesFit, job' = job, judged' = judged, Grown(states, states')
  PROVE  AllNotesFit'
<1>1. job' = [job EXCEPT ![Ticker] = job[Ticker]]
  BY DEF JobsFit
<1> QED
  BY <1>1, NotesStep, Names DEF AllNotesFit

\* A worker that does not judge, before and after.
LEMMA QuietStep ==
  ASSUME JobsFit, AllNotesFit, NEW w \in Everyone, NEW j, job' = [job EXCEPT ![w] = j],
         ~ Judging(job[w]), ~ Judging(j), JobFits(w, j, DOMAIN states), judged' = judged, states' = states
  PROVE  JobsFit' /\ AllNotesFit'
<1>1. JobsFit'
  BY JobStep
<1>2. Grown(states, states')
  BY DEF Grown
<1>3. w \in Workers => NotesFit(judged'[w], j, states')
  BY DEF AllNotesFit, NotesFit
<1> QED
  BY <1>1, <1>2, <1>3, NotesStep DEF AllNotesFit
------------------------------------------------------------------------------
(* The rows of a table *)

LEMMA LeastNat ==
  ASSUME NEW T, T \subseteq Nat, T # {}
  PROVE  \E n \in T : \A m \in T : n <= m
<1>1. IsWellFoundedOn(OpToRel(<, Nat), Nat)
  BY NatLessThanWellFounded
<1>2. PICK n \in T : \A m \in T : <<m, n>> \notin OpToRel(<, Nat)
  BY <1>1, WFMin
<1>3. \A m \in T : ~ (m < n)
  BY <1>2 DEF OpToRel
<1> QED
  BY <1>3

\* s is a list of n rows, the highest total first.
Descends(s, n) ==
  /\ DOMAIN s = 1 .. n /\ \A i \in 1 .. n : s[i].total \in Int
  /\ \A i \in 1 .. n - 1 : s[i].total >= s[i + 1].total

LEMMA DescendsFar ==
  ASSUME NEW s, NEW n \in Nat, Descends(s, n)
  PROVE  \A i, j \in 1 .. n : i <= j => s[i].total >= s[j].total
<1> DEFINE Bad == {j \in 1 .. n : \E i \in 1 .. j : ~ (s[i].total >= s[j].total)}
<1> SUFFICES ASSUME Bad # {} PROVE FALSE
  OBVIOUS
<1>1. PICK j \in Bad : \A m \in Bad : j <= m
  <2>1. Bad \subseteq Nat
    OBVIOUS
  <2> HIDE DEF Bad
  <2> QED
    BY <2>1, LeastNat
<1>2. j \in 1 .. n
  OBVIOUS
<1>3. PICK i \in 1 .. j : ~ (s[i].total >= s[j].total)
  OBVIOUS
<1>4. i # j /\ j - 1 \in 1 .. n /\ i \in 1 .. j - 1
  BY <1>2, <1>3 DEF Descends
<1>5. j - 1 \notin Bad
  BY <1>1, <1>4
<1>6. s[i].total >= s[j - 1].total
  BY <1>4, <1>5
<1>7. s[j - 1].total >= s[j].total
  <2>1. j - 1 \in 1 .. n - 1 /\ (j - 1) + 1 = j
    BY <1>2, <1>4
  <2> QED
    BY <2>1 DEF Descends
<1>8. s[i].total \in Int /\ s[j].total \in Int /\ s[j - 1].total \in Int
  BY <1>2, <1>4 DEF Descends
<1> QED
  BY <1>3, <1>6, <1>7, <1>8

Higher(s, i) == {j \in DOMAIN s : s[j].total > s[i].total}
IsRank(f, s) ==
  f = [i \in DOMAIN s |-> IF i = 1 THEN 1 ELSE IF s[i].total < s[i - 1].total THEN i ELSE f[i - 1]]
RankOf(s) == CHOOSE f : IsRank(f, s)

LEMMA RankedParts ==
  ASSUME NEW s
  PROVE  Ranked(s) = [i \in DOMAIN s |-> [user |-> s[i].user, total |-> s[i].total,
                                          rank |-> RankOf(s)[i]]]
BY DEF Ranked, RankOf, IsRank

\* The next row has the rank of the row before it, or counts all before it.
LEMMA HigherNext ==
  ASSUME NEW s, NEW n \in Nat, Descends(s, n), NEW i \in 1 .. n
  PROVE  /\ IsFiniteSet(Higher(s, i)) /\ Cardinality(Higher(s, i)) \in Nat
         /\ i = 1 => Cardinality(Higher(s, i)) = 0
         /\ i # 1 => /\ i - 1 \in 1 .. n
                     /\ s[i].total < s[i - 1].total => Cardinality(Higher(s, i)) = i - 1
                     /\ ~ (s[i].total < s[i - 1].total) => Higher(s, i) = Higher(s, i - 1)
<1>1. \A j \in 1 .. n : s[j].total \in Int
  BY DEF Descends
<1>2. \A j, k \in 1 .. n : j <= k => s[j].total >= s[k].total
  BY DescendsFar
<1>3. DOMAIN s = 1 .. n
  BY DEF Descends
<1>4. IsFiniteSet(Higher(s, i)) /\ Cardinality(Higher(s, i)) \in Nat
  <2>1. IsFiniteSet(1 .. n) /\ Higher(s, i) \subseteq 1 .. n
    BY <1>3, FS_Interval DEF Higher
  <2> QED
    BY <2>1, FS_Subset, FS_CardinalityType
<1>5. ASSUME i = 1 PROVE Higher(s, i) = {}
  BY <1>1, <1>2, <1>3, <1>5 DEF Higher
<1>6. ASSUME i # 1, s[i].total < s[i - 1].total PROVE Higher(s, i) = 1 .. i - 1
  <2>1. i - 1 \in 1 .. n
    BY <1>6
  <2>2. \A j \in 1 .. i - 1 : j \in 1 .. n /\ s[j].total >= s[i - 1].total /\ s[j].total \in Int
    BY <2>1, <1>1, <1>2
  <2>3. \A j \in 1 .. n : j > i - 1 => s[i].total >= s[j].total
    BY <1>2
  <2> QED
    BY <2>1, <2>2, <2>3, <1>1, <1>3, <1>6 DEF Higher
<1>7. ASSUME i # 1, ~ (s[i].total < s[i - 1].total) PROVE Higher(s, i) = Higher(s, i - 1)
  <2>1. i - 1 \in 1 .. n /\ i - 1 <= i
    BY <1>7
  <2>2. s[i - 1].total = s[i].total
    BY <2>1, <1>1, <1>2, <1>7
  <2> QED
    BY <2>2 DEF Higher
<1>8. Cardinality({}) = 0 /\ (i # 1 => Cardinality(1 .. i - 1) = i - 1)
  BY FS_EmptySet, FS_Interval
<1> QED
  BY <1>4, <1>5, <1>6, <1>7, <1>8

LEMMA RankExists ==
  ASSUME NEW s, NEW n \in Nat, Descends(s, n)
  PROVE  IsRank(RankOf(s), s)
<1> DEFINE f == [i \in 1 .. n |-> 1 + Cardinality(Higher(s, i))]
<1>1. DOMAIN s = 1 .. n
  BY DEF Descends
<1>2. \A i \in 1 .. n : f[i] = IF i = 1 THEN 1
                               ELSE IF s[i].total < s[i - 1].total THEN i ELSE f[i - 1]
  <2> TAKE i \in 1 .. n
  <2>1. CASE i = 1
    BY <2>1, HigherNext
  <2>2. CASE i # 1 /\ s[i].total < s[i - 1].total
    BY <2>2, HigherNext
  <2>3. CASE i # 1 /\ ~ (s[i].total < s[i - 1].total)
    BY <2>3, HigherNext
  <2> QED
    BY <2>1, <2>2, <2>3
<1>3. f = [i \in DOMAIN s |-> IF i = 1 THEN 1
                              ELSE IF s[i].total < s[i - 1].total THEN i ELSE f[i - 1]]
  BY <1>1, <1>2
<1> HIDE DEF f
<1>4. IsRank(f, s)
  BY <1>3 DEF IsRank
<1> QED
  BY <1>4 DEF RankOf

\* Ranked gives each row one more than the number of the rows above it.
LEMMA RankIs ==
  ASSUME NEW s, NEW n \in Nat, Descends(s, n)
  PROVE  \A i \in 1 .. n : RankOf(s)[i] = 1 + Cardinality(Higher(s, i))
<1> DEFINE f == RankOf(s)
           Bad == {i \in 1 .. n : f[i] # 1 + Cardinality(Higher(s, i))}
<1>1. \A i \in 1 .. n : f[i] = IF i = 1 THEN 1
                               ELSE IF s[i].total < s[i - 1].total THEN i ELSE f[i - 1]
  <2>1. IsRank(f, s)
    BY RankExists
  <2> HIDE DEF f
  <2> QED
    BY <2>1 DEF IsRank, Descends
<1> HIDE DEF f
<1> SUFFICES ASSUME Bad # {} PROVE FALSE
  BY DEF f
<1>2. PICK i \in Bad : \A m \in Bad : i <= m
  <2>1. Bad \subseteq Nat
    OBVIOUS
  <2> HIDE DEF Bad
  <2> QED
    BY <2>1, LeastNat
<1>3. i \in 1 .. n /\ f[i] # 1 + Cardinality(Higher(s, i))
  OBVIOUS
<1>4. i # 1
  BY <1>1, <1>3, HigherNext
<1>5. i - 1 \in 1 .. n /\ i - 1 \notin Bad
  BY <1>2, <1>3, <1>4
<1>6. f[i - 1] = 1 + Cardinality(Higher(s, i - 1))
  BY <1>5
<1>7. CASE s[i].total < s[i - 1].total
  <2>1. f[i] = i /\ Cardinality(Higher(s, i)) = i - 1
    BY <1>1, <1>3, <1>4, <1>7, HigherNext
  <2> QED
    BY <2>1, <1>3
<1>8. CASE ~ (s[i].total < s[i - 1].total)
  <2>1. f[i] = f[i - 1] /\ Higher(s, i) = Higher(s, i - 1)
    BY <1>1, <1>3, <1>4, <1>8, HigherNext
  <2> QED
    BY <2>1, <1>3, <1>6
<1> QED
  BY <1>7, <1>8

\* A sequence as long as a set, that has no element twice, has them all.
LEMMA ListsAll ==
  ASSUME NEW S, IsFiniteSet(S), NEW f \in [1 .. Cardinality(S) -> S],
         \A i, j \in 1 .. Cardinality(S) : f[i] = f[j] => i = j
  PROVE  /\ f \in Seq(S) /\ Len(f) = Cardinality(S) /\ Len(f) \in Nat
         /\ \A x \in S : \E i \in 1 .. Len(f) : f[i] = x
<1> DEFINE n == Cardinality(S)
<1>1. n \in Nat
  BY FS_CardinalityType
<1>2. f \in Injection(1 .. n, S)
  BY DEF Injection, IsInjective
<1>3. Cardinality(1 .. n) = n
  BY <1>1, FS_Interval
<1>4. f \in Surjection(1 .. n, S)
  BY <1>2, <1>3, FS_Injection
<1>5. f \in Seq(S) /\ Len(f) = n
  BY <1>1
<1> QED
  BY <1>1, <1>4, <1>5 DEF Surjection

LEMMA SetToSeqIs ==
  ASSUME NEW S, IsFiniteSet(S), NEW f, f = SetToSeq(S)
  PROVE  /\ f \in Seq(S) /\ Len(f) = Cardinality(S) /\ Len(f) \in Nat
         /\ \A i, j \in 1 .. Len(f) : f[i] = f[j] => i = j
         /\ \A x \in S : \E i \in 1 .. Len(f) : f[i] = x
<1> DEFINE n == Cardinality(S)
<1>1. PICK g : g \in Bijection(1 .. n, S)
  BY FS_CardinalityType DEF ExistsBijection
<1>2. g \in [1 .. n -> S] /\ IsInjective(g)
  BY <1>1 DEF Bijection, Injection
<1>3. f \in [1 .. n -> S] /\ IsInjective(f)
  BY <1>2 DEF SetToSeq
<1>4. \A i, j \in 1 .. n : f[i] = f[j] => i = j
  BY <1>3 DEF IsInjective
<1>5. /\ f \in Seq(S) /\ Len(f) = n /\ Len(f) \in Nat
      /\ \A x \in S : \E i \in 1 .. Len(f) : f[i] = x
  <2>1. f \in [1 .. n -> S]
    BY <1>3
  <2> QED
    BY <1>4, <2>1, ListsAll, ZenonT(60)
<1> QED
  BY <1>4, <1>5

\* What the sorted rows of a finite set are.
LEMMA SortedIs ==
  ASSUME NEW S, IsFiniteSet(S), \A x \in S : x.user \in Users /\ x.total \in Int, NEW s \in Sorted(S)
  PROVE  /\ s \in [1 .. Cardinality(S) -> S] /\ Cardinality(S) \in Nat
         /\ \A i, j \in 1 .. Cardinality(S) : s[i] = s[j] => i = j
         /\ \A x \in S : \E i \in 1 .. Cardinality(S) : s[i] = x
         /\ Descends(s, Cardinality(S))
<1> DEFINE n == Cardinality(S)
<1>1. n \in Nat
  BY FS_CardinalityType
<1>2. s \in [1 .. n -> S] /\ \A i, j \in 1 .. n : s[i] = s[j] => i = j
  BY DEF Sorted, SetToSeqs
<1>3. Len(s) = n /\ \A x \in S : \E i \in 1 .. n : s[i] = x
  <2>1. /\ Len(s) = Cardinality(S)
        /\ \A x \in S : \E i \in 1 .. Len(s) : s[i] = x
    BY <1>2, ListsAll
  <2> QED
    BY <2>1
<1>4. \A i \in 1 .. n - 1 : s[i].total >= s[i + 1].total
  BY <1>3 DEF Sorted
<1> QED
  BY <1>1, <1>2, <1>3, <1>4 DEF Descends

LEMMA RankedTyped ==
  ASSUME NEW S, IsFiniteSet(S), \A x \in S : x.user \in Users /\ x.total \in Int, NEW s \in Sorted(S)
  PROVE  /\ Ranked(s) \in Seq(TableRow) /\ Len(Ranked(s)) = Cardinality(S)
         /\ \A i \in 1 .. Cardinality(S) :
              /\ Ranked(s)[i].user = s[i].user /\ Ranked(s)[i].total = s[i].total
              /\ Ranked(s)[i].rank = 1 + Cardinality(Higher(s, i))
<1> DEFINE n == Cardinality(S)
           r == Ranked(s)
<1>1. s \in [1 .. n -> S] /\ n \in Nat /\ Descends(s, n)
  BY SortedIs
<1>2. r = [i \in 1 .. n |-> [user |-> s[i].user, total |-> s[i].total, rank |-> RankOf(s)[i]]]
  BY <1>1, RankedParts
<1>3. \A i \in 1 .. n : RankOf(s)[i] = 1 + Cardinality(Higher(s, i)) /\ Cardinality(Higher(s, i)) \in Nat
  BY <1>1, RankIs, HigherNext
<1>4. \A i \in 1 .. n : s[i].user \in Users /\ s[i].total \in Int
  BY <1>1
<1> HIDE DEF r
<1>5. r \in [1 .. n -> TableRow]
  BY <1>2, <1>3, <1>4 DEF TableRow
<1>6. r \in Seq(TableRow) /\ Len(r) = n
  BY <1>1, <1>5
<1>7. \A i \in 1 .. n : /\ r[i].user = s[i].user /\ r[i].total = s[i].total
                        /\ r[i].rank = 1 + Cardinality(Higher(s, i))
  BY <1>2, <1>3
<1> QED
  BY <1>6, <1>7 DEF r

\* The ranked rows of a set that has one row of each user are a full table.
LEMMA RankedFull ==
  ASSUME NEW g, \A u \in Users : g[u].user = u /\ g[u].total \in Int,
         NEW s \in Sorted({g[u] : u \in Users})
  PROVE  /\ Ranked(s) \in Seq(TableRow) /\ Full(Ranked(s)) /\ Len(Ranked(s)) > 0
         /\ \A i \in 1 .. Len(Ranked(s)) : \E u \in Users : Ranked(s)[i].total = g[u].total
<1> DEFINE S == {g[u] : u \in Users}
           n == Cardinality(Users)
           r == Ranked(s)
           f == [u \in Users |-> g[u]]
<1>1. f \in Bijection(Users, S)
  BY DEF Bijection, Injection, Surjection, IsInjective
<1>2. IsFiniteSet(S) /\ Cardinality(S) = n
  BY <1>1, Names, FS_Bijection DEF ExistsBijection
<1>3. \A x \in S : x.user \in Users /\ x.total \in Int
  OBVIOUS
<1>4. /\ s \in [1 .. n -> S] /\ n \in Nat
      /\ \A i, j \in 1 .. n : s[i] = s[j] => i = j
      /\ \A x \in S : \E i \in 1 .. n : s[i] = x
      /\ Descends(s, n)
  <2>1. s \in Sorted(S)
    OBVIOUS
  <2> HIDE DEF S
  <2>2. s \in [1 .. Cardinality(S) -> S] /\ Cardinality(S) \in Nat /\ Descends(s, Cardinality(S))
    BY <1>2, <1>3, <2>1, SortedIs
  <2>3. /\ \A i, j \in 1 .. Cardinality(S) : s[i] = s[j] => i = j
        /\ \A x \in S : \E i \in 1 .. Cardinality(S) : s[i] = x
    BY <1>2, <1>3, <2>1, SortedIs
  <2> QED
    BY <1>2, <2>2, <2>3
<1>5. /\ r \in Seq(TableRow) /\ Len(r) = n
      /\ \A i \in 1 .. n : r[i].user = s[i].user /\ r[i].total = s[i].total
                           /\ r[i].rank = 1 + Cardinality(Higher(s, i))
  BY <1>2, <1>3, RankedTyped
<1> HIDE DEF r
<1>6. DOMAIN r = 1 .. n
  BY <1>5
<1>7. Distinct(r)
  <2> SUFFICES ASSUME NEW i \in 1 .. n, NEW j \in 1 .. n, r[i].user = r[j].user PROVE i = j
    BY <1>6 DEF Distinct
  <2>1. s[i] = g[s[i].user] /\ s[j] = g[s[j].user]
    BY <1>4
  <2>2. s[i].user = s[j].user
    BY <1>5
  <2>3. s[i] = s[j]
    BY <2>1, <2>2
  <2> QED
    BY <2>3, <1>4
<1>8. \A u \in Users : \E i \in 1 .. n : r[i].user = u
  <2> TAKE u \in Users
  <2>1. PICK i \in 1 .. n : s[i] = g[u]
    BY <1>4
  <2> QED
    BY <2>1, <1>5
<1>9. RanksRight(r)
  <2> SUFFICES ASSUME NEW i \in 1 .. n
               PROVE  r[i].rank = 1 + Cardinality({j \in 1 .. n : r[j].total > r[i].total})
    BY <1>6 DEF RanksRight
  <2>1. {j \in 1 .. n : r[j].total > r[i].total} = Higher(s, i)
    BY <1>4, <1>5 DEF Higher, Descends
  <2> QED
    BY <2>1, <1>5
<1>10. n > 0
  BY Names, FS_EmptySet
<1>11. \A i \in 1 .. n : \E u \in Users : r[i].total = g[u].total
  BY <1>4, <1>5
<1> QED
  BY <1>5, <1>6, <1>7, <1>8, <1>9, <1>10, <1>11 DEF Full, Lists, r

\* What the gains of the day are counted from, for row i of the leaderboard l.
BeforeOf(l, e, i) ==
  LET of == {j \in DOMAIN e : e[j].user = l[i].user}
  IN IF of = {} THEN {[n |-> 0, total |-> StartWorth]} ELSE {[n |-> j, total |-> e[j].total] : j \in of}
Gain(l, i, b) == [user |-> l[i].user, total |-> l[i].total - b.total, n |-> b.n]

LEMMA GainsParts ==
  LET l == board["Leaderboard"]
      e == board["EndOfDay"]
  IN \A x : x \in Gains <=> \E i \in DOMAIN l : \E b \in BeforeOf(l, e, i) : x = Gain(l, i, b)
BY DEF Gains, BeforeOf, Gain

LEMMA GainsTyped ==
  ASSUME TablesTyped
  PROVE  IsFiniteSet(Gains) /\ \A x \in Gains : x.user \in Users /\ x.total \in Int
<1> DEFINE l == board["Leaderboard"]
           e == board["EndOfDay"]
<1>1. l \in Seq(TableRow) /\ e \in Seq(TableRow)
  BY DEF TablesTyped
<1>2. \A x : x \in Gains <=> \E i \in DOMAIN l : \E b \in BeforeOf(l, e, i) : x = Gain(l, i, b)
  BY GainsParts
<1> HIDE DEF l, e
<1>3. DOMAIN l = 1 .. Len(l) /\ DOMAIN e = 1 .. Len(e) /\ Len(l) \in Nat /\ Len(e) \in Nat
  BY <1>1
<1>4. \A i \in DOMAIN l : l[i] \in TableRow
  BY <1>1, <1>3, ElementOfSeq
<1>5. \A j \in DOMAIN e : e[j] \in TableRow
  BY <1>1, <1>3, ElementOfSeq
<1>6. ASSUME NEW i \in DOMAIN l, NEW b \in BeforeOf(l, e, i)
      PROVE  b.total \in Int /\ b.n \in 0 .. Len(e)
                             /\ b = [n |-> b.n, total |-> IF b.n = 0 THEN StartWorth ELSE e[b.n].total]
  BY <1>3, <1>5, Names DEF BeforeOf, TableRow
<1>7. \A x \in Gains : x.user \in Users /\ x.total \in Int
  BY <1>2, <1>4, <1>6 DEF Gain, TableRow
<1>8. IsFiniteSet(Gains)
  <2> DEFINE P == (1 .. Len(l)) \X (0 .. Len(e))
             f == [p \in P |-> Gain(l, p[1], [n |-> p[2],
                                  total |-> IF p[2] = 0 THEN StartWorth ELSE e[p[2]].total])]
             T == {f[p] : p \in P}
  <2>1. IsFiniteSet(1 .. Len(l)) /\ IsFiniteSet(0 .. Len(e))
    BY <1>3, FS_Interval
  <2>2. IsFiniteSet(P)
    BY <2>1, FS_Product
  <2>3. f \in Surjection(P, T)
    BY DEF Surjection
  <2>4. IsFiniteSet(T)
    BY <2>2, <2>3, FS_Surjection
  <2>5. ASSUME NEW x \in Gains PROVE x \in T
    <3>1. PICK i \in DOMAIN l : \E b \in BeforeOf(l, e, i) : x = Gain(l, i, b)
      BY <1>2
    <3>2. PICK b \in BeforeOf(l, e, i) : x = Gain(l, i, b)
      BY <3>1
    <3>3. <<i, b.n>> \in P /\ x = f[<<i, b.n>>]
      BY <1>3, <1>6, <3>2
    <3> QED
      BY <3>3
  <2> QED
    BY <2>4, <2>5, FS_Subset
<1> QED
  BY <1>7, <1>8

LEMMA NoGains ==
  ASSUME TablesTyped, board["Leaderboard"] = <<>>
  PROVE  Gains = {}
<1>1. DOMAIN board["Leaderboard"] = {}
  OBVIOUS
<1> QED
  BY <1>1, GainsParts

\* Every user has one gain, when the tables it is counted from are whole.
LEMMA GainsWhole ==
  ASSUME TablesTyped, Lists(board["Leaderboard"]),
         board["EndOfDay"] = <<>> \/ Lists(board["EndOfDay"])
  PROVE  \E g : /\ Gains = {g[u] : u \in Users}
                /\ \A u \in Users : g[u].user = u /\ g[u].total \in Int
<1> DEFINE l == board["Leaderboard"]
           e == board["EndOfDay"]
           I(u) == CHOOSE i \in DOMAIN l : l[i].user = u
           J(u) == CHOOSE j \in DOMAIN e : e[j].user = u
           B(u) == IF e = <<>> THEN [n |-> 0, total |-> StartWorth]
                   ELSE [n |-> J(u), total |-> e[J(u)].total]
           g == [u \in Users |-> Gain(l, I(u), B(u))]
<1>1. l \in Seq(TableRow) /\ e \in Seq(TableRow)
  BY DEF TablesTyped
<1>2. \A x : x \in Gains <=> \E i \in DOMAIN l : \E b \in BeforeOf(l, e, i) : x = Gain(l, i, b)
  BY GainsParts
<1>3. Lists(l) /\ (e = <<>> \/ Lists(e))
  OBVIOUS
<1> HIDE DEF l, e
<1>4. \A i \in DOMAIN l : l[i] \in TableRow
  BY <1>1, ElementOfSeq
<1>5. \A j \in DOMAIN e : e[j] \in TableRow
  BY <1>1, ElementOfSeq
<1>6. \A u \in Users : I(u) \in DOMAIN l /\ l[I(u)].user = u
  BY <1>3 DEF Lists
<1>7. \A i \in DOMAIN l : l[i].user \in Users /\ I(l[i].user) = i
  BY <1>3, <1>4 DEF Lists, Distinct, TableRow
<1>8. e # <<>> => \A u \in Users : J(u) \in DOMAIN e /\ e[J(u)].user = u
  BY <1>3 DEF Lists
<1>9. ASSUME NEW u \in Users PROVE BeforeOf(l, e, I(u)) = {B(u)}
  <2> DEFINE of == {j \in DOMAIN e : e[j].user = u}
  <2>1. CASE e = <<>>
    <3>1. of = {}
      BY <2>1
    <3> QED
      BY <2>1, <3>1, <1>6 DEF BeforeOf
  <2>2. CASE e # <<>>
    <3>1. of = {J(u)}
      BY <2>2, <1>3, <1>8 DEF Lists, Distinct
    <3> HIDE DEF J
    <3> QED
      BY <2>2, <3>1, <1>6 DEF BeforeOf
  <2> QED
    BY <2>1, <2>2
<1>10. \A u \in Users : B(u).total \in Int
  BY <1>5, <1>8, Names DEF TableRow
<1>11. \A u \in Users : g[u].user = u /\ g[u].total \in Int
  <2> HIDE DEF I, B
  <2> QED
    BY <1>4, <1>6, <1>10 DEF Gain, TableRow
<1>12. ASSUME NEW x \in Gains PROVE x \in {g[u] : u \in Users}
  <2>0. PICK i \in DOMAIN l : \E b \in BeforeOf(l, e, i) : x = Gain(l, i, b)
    BY <1>2
  <2>1. PICK b \in BeforeOf(l, e, i) : x = Gain(l, i, b)
    BY <2>0
  <2> DEFINE u == l[i].user
  <2>2. u \in Users /\ I(u) = i
    BY <1>7
  <2> HIDE DEF u, I, B
  <2>3. b = B(u)
    BY <1>9, <2>1, <2>2
  <2>4. x = g[u]
    BY <2>1, <2>2, <2>3
  <2> QED
    BY <2>2, <2>4
<1>13. ASSUME NEW u \in Users PROVE g[u] \in Gains
  <2> HIDE DEF I, B
  <2>1. I(u) \in DOMAIN l /\ B(u) \in BeforeOf(l, e, I(u)) /\ g[u] = Gain(l, I(u), B(u))
    BY <1>6, <1>9
  <2> QED
    BY <2>1, <1>2
<1>14. Gains = {g[u] : u \in Users}
  <2> HIDE DEF g
  <2> QED
    BY <1>12, <1>13
<1> HIDE DEF g
<1> QED
  BY <1>11, <1>14

------------------------------------------------------------------------------
(* The shape: trades, the ticker and the tables *)

LEMMA JobIs ==
  ASSUME JobsFit, NEW w \in Everyone
  PROVE  JobFits(w, job[w], DOMAIN states) /\ IsJob(job[w]) /\ CallFits(job[w], DOMAIN states)
         /\ TableFits(job[w])
BY DEF JobsFit, JobFits

LEMMA QuietShape ==
  ASSUME Shape, NEW w \in Everyone, NEW j, job' = [job EXCEPT ![w] = j], ~ Judging(job[w]), ~ Judging(j),
         JobFits(w, j, DOMAIN states), UNCHANGED challengeVars, UsersTyped', TablesTyped'
  PROVE  Shape'
<1>1. DayTyped'
  BY DEF Shape, DayTyped
<1>2. JobsFit' /\ AllNotesFit'
  <2>1. judged' = judged /\ states' = states
    OBVIOUS
  <2> QED
    BY <2>1, QuietStep DEF Shape
<1> QED
  BY <1>1, <1>2 DEF Shape

\* A job that is new.
Begun(op, at, rows, whole) == [op |-> op, at |-> at, rows |-> rows, i |-> 1, whole |-> whole]

LEMMA BeginIs ==
  ASSUME NEW w, NEW op, NEW at, NEW rows, NEW whole, Begin(w, op, at, rows, whole)
  PROVE  /\ job' = [job EXCEPT ![w] = Begun(op, at, rows, whole)]
         /\ job[w] = Idle /\ ~ Judging(job[w])
BY DEF Begin, Begun, Judging, Idle

LEMMA StartTradeShape ==
  ASSUME Shape, NEW w \in Workers, StartTrade(w), UNCHANGED challengeVars
  PROVE  Shape'
<1>1. PICK u \in Users, v \in Users : Begin(w, "trade", "lock", <<u, v>>, TRUE)
  BY DEF StartTrade
<1> DEFINE j == Begun("trade", "lock", <<u, v>>, TRUE)
<1>2. job' = [job EXCEPT ![w] = j] /\ ~ Judging(job[w])
  BY <1>1 DEF Begin, Begun, Judging, Idle
<1>3. JobFits(w, j, DOMAIN states) /\ ~ Judging(j)
  BY Names DEF Begun, JobFits, IsJob, CallFits, TableFits, Judging
<1>4. UsersTyped' /\ TablesTyped'
  BY DEF StartTrade, Shape, UsersTyped, TablesTyped
<1> HIDE DEF j
<1> QED
  BY <1>2, <1>3, <1>4, QuietShape

\* A trade goes on.
LEMMA TradeFits ==
  ASSUME NEW w \in Workers, NEW S, NEW j, JobFits(w, j, S), j.op = "trade", NEW at, NEW i \in Nat
  PROVE  JobFits(w, Went(j, at, i), S) /\ ~ Judging(Went(j, at, i)) /\ ~ Judging(j)
<1> DEFINE k == Went(j, at, i)
<1>1. IsJob(k) /\ k.op = j.op
  BY WentIs DEF JobFits
<1> HIDE DEF k
<1>2. JobFits(w, k, S) /\ ~ Judging(k) /\ ~ Judging(j)
  BY <1>1, Names DEF JobFits, CallFits, TableFits, Judging
<1> QED
  BY <1>2 DEF k

LEMMA LockUserShape ==
  ASSUME Shape, NEW w \in Workers, LockUser(w), UNCHANGED challengeVars
  PROVE  Shape'
<1>1. job[w].op = "trade" /\ JobFits(w, job[w], DOMAIN states)
  BY JobIs DEF LockUser, Shape
<1>2. PICK at \in {"save", "lock"}, i \in Nat : job' = [job EXCEPT ![w] = Went(job[w], at, i)]
  <2>1. GoTo(w, "save", 1) \/ GoTo(w, "lock", 2)
    BY DEF LockUser
  <2> QED
    BY <2>1, GoToIs DEF Shape
<1> DEFINE j == Went(job[w], at, i)
<1>3. JobFits(w, j, DOMAIN states) /\ ~ Judging(j) /\ ~ Judging(job[w])
  BY <1>1, TradeFits
<1>4. UsersTyped' /\ TablesTyped'
  BY DEF LockUser, Take, Shape, UsersTyped, TablesTyped
<1> HIDE DEF j
<1> QED
  BY <1>2, <1>3, <1>4, QuietShape DEF j

LEMMA FinishQuiet ==
  ASSUME Shape, NEW w \in Everyone, Finish(w), ~ Judging(job[w]), UNCHANGED challengeVars,
         UsersTyped', TablesTyped'
  PROVE  Shape'
BY QuietShape, IdleFits DEF Finish

LEMMA SaveTradeUsers ==
  ASSUME UsersTyped, NEW w \in Workers, SaveTrade(w)
  PROVE  UsersTyped'
<1>1. PICK u \in Users, v \in Users :
        /\ worth[u] > 0 /\ worth' = [worth EXCEPT ![u] = @ - 1, ![v] = @ + 1] /\ u # v
        /\ rowWorth' = [rowWorth EXCEPT ![u] = worth'[u], ![v] = worth'[v]]
        /\ writer' = writer /\ total' = total
        /\ holder' = [x \in Users |-> IF holder[x] = w THEN Free ELSE holder[x]]
  BY DEF SaveTrade, GiveAll
<1>2. worth' \in [Users -> Nat]
  <2>1. worth \in [Users -> Nat]
    BY DEF UsersTyped
  <2>2. worth[u] - 1 \in Nat /\ worth[v] + 1 \in Nat
    BY <1>1, <2>1
  <2>3. worth' = [worth EXCEPT ![u] = worth[u] - 1, ![v] = worth[v] + 1]
    BY <1>1
  <2> QED
    BY <2>1, <2>2, <2>3
<1>3. rowWorth' \in [Users -> Nat]
  BY <1>1, <1>2 DEF UsersTyped
<1>4. holder' \in [Users -> Everyone \cup {Free, Lost}]
  BY <1>1 DEF UsersTyped
<1> QED
  BY <1>1, <1>2, <1>3, <1>4 DEF UsersTyped

LEMMA SaveTradeShape ==
  ASSUME Shape, NEW w \in Workers, SaveTrade(w), UNCHANGED challengeVars
  PROVE  Shape'
<1>1. Finish(w) /\ ~ Judging(job[w])
  BY DEF SaveTrade, Judging
<1>2. UsersTyped'
  BY SaveTradeUsers DEF Shape
<1>3. TablesTyped'
  BY DEF Shape, TablesTyped, SaveTrade
<1> QED
  BY <1>1, <1>2, <1>3, FinishQuiet

LEMMA TradeFailsShape ==
  ASSUME Shape, NEW w \in Workers, TradeFails(w), UNCHANGED challengeVars
  PROVE  Shape'
<1>1. Finish(w) /\ ~ Judging(job[w])
  BY DEF TradeFails, Judging
<1>2. UsersTyped' /\ TablesTyped'
  BY DEF TradeFails, GiveAll, Shape, UsersTyped, TablesTyped
<1> QED
  BY <1>1, <1>2, FinishQuiet

------------------------------------------------------------------------------
(* A table is written *)

\* A job on table t goes on to its rows.
LEMMA TableGoes ==
  ASSUME NEW w \in Everyone, NEW S, NEW j, JobFits(w, j, S), NEW t \in Tables, j.op = t, j.at # "idle",
         NEW at \in {"take", "save", "truncate", "fill"}, at \in {"take", "save"} => t = "Leaderboard",
         NEW i \in 1 .. Len(j.rows)
  PROVE  JobFits(w, Went(j, at, i), S) /\ ~ Judging(Went(j, at, i)) /\ ~ Judging(j)
<1> DEFINE k == Went(j, at, i)
<1>0. Len(j.rows) \in Nat
  BY DEF JobFits, TableFits
<1>1. IsJob(k) /\ k.op = j.op /\ k.rows = j.rows /\ k.at = at /\ k.i = i
  BY <1>0, WentIs DEF JobFits
<1> HIDE DEF k
<1>2. JobFits(w, k, S) /\ ~ Judging(k) /\ ~ Judging(j)
  <2>1. ~ Judging(k) /\ ~ Judging(j)
    BY <1>1 DEF Judging
  <2>2. CallFits(k, S)
    BY <1>1, <2>1 DEF CallFits
  <2>3. TableFits(k)
    BY <1>0, <1>1 DEF TableFits, JobFits
  <2> QED
    BY <1>1, <2>1, <2>2, <2>3 DEF JobFits
<1> QED
  BY <1>2 DEF k

Daily == [Idle EXCEPT !.op = "Daily"]
LEMMA DailyFits ==
  ASSUME NEW S
  PROVE  JobFits(Ticker, Daily, S) /\ ~ Judging(Daily) /\ Daily.op = "Daily" /\ Daily.at = "idle"
         /\ Daily.rows = <<>> /\ Daily.whole
BY DEF Daily, Idle, JobFits, IsJob, CallFits, TableFits, Judging

\* Only the ticker writes the leaderboards.
LEMMA TableWriter ==
  ASSUME JobsFit, NEW w \in Everyone, NEW t \in Tables, job[w].op = t
  PROVE  t \in {"Leaderboard", "Daily"} <=> w = Ticker
BY Names DEF JobsFit, JobFits

LEMMA FillEnds ==
  ASSUME Shape, NEW w \in Everyone, NEW t \in Tables, job[w].op = t,
         IF t = "Leaderboard" THEN GoOnDaily ELSE Finish(w)
  PROVE  \E j : /\ job' = [job EXCEPT ![w] = j] /\ j = IF t = "Leaderboard" THEN Daily ELSE Idle
                /\ JobFits(w, j, DOMAIN states) /\ ~ Judging(j) /\ ~ Judging(job[w])
<1>1. ~ Judging(job[w])
  BY DEF Judging
<1>2. CASE t = "Leaderboard"
  <2>1. w = Ticker
    BY <1>2, TableWriter DEF Shape
  <2>2. job' = [job EXCEPT ![w] = Daily]
    BY <1>2, <2>1 DEF GoOnDaily, Daily
  <2> QED
    BY <1>1, <1>2, <2>1, <2>2, DailyFits
<1>3. CASE t # "Leaderboard"
  BY <1>1, <1>3, IdleFits DEF Finish
<1> QED
  BY <1>2, <1>3

LEMMA TruncateShape ==
  ASSUME Shape, NEW w \in Everyone, NEW t \in Tables, Truncate(w, t), UNCHANGED challengeVars
  PROVE  Shape'
<1>1. job[w].op = t /\ job[w].at = "truncate" /\ JobFits(w, job[w], DOMAIN states)
  BY JobIs DEF Truncate, Shape
<1>2. UsersTyped'
  BY DEF Truncate, Released, NoWriter, Shape, UsersTyped
<1>3. TablesTyped'
  BY DEF Truncate, Shape, TablesTyped
<1>4. CASE job[w].rows = <<>>
  <2>1. Finish(w) /\ ~ Judging(job[w])
    BY <1>1, <1>4 DEF Truncate, Judging
  <2> QED
    BY <2>1, <1>2, <1>3, FinishQuiet
<1>5. CASE job[w].rows # <<>>
  <2> DEFINE j == Went(job[w], "fill", 1)
  <2>1. job[w].rows \in Seq(TableRow)
    BY <1>1 DEF JobFits, TableFits
  <2>2. 1 \in 1 .. Len(job[w].rows)
    BY <1>5, <2>1, EmptySeq
  <2>3. job' = [job EXCEPT ![w] = j]
    BY <1>5, GoToIs DEF Truncate, Shape
  <2>4. JobFits(w, j, DOMAIN states) /\ ~ Judging(j) /\ ~ Judging(job[w])
    BY <1>1, <2>2, TableGoes
  <2> HIDE DEF j
  <2> QED
    BY <1>2, <1>3, <2>3, <2>4, QuietShape
<1> QED
  BY <1>4, <1>5

LEMMA FillShape ==
  ASSUME Shape, NEW w \in Everyone, NEW t \in Tables, Fill(w, t), UNCHANGED challengeVars
  PROVE  Shape'
<1>1. job[w].op = t /\ job[w].at = "fill" /\ JobFits(w, job[w], DOMAIN states)
  BY JobIs DEF Fill, Shape
<1>2. UsersTyped'
  BY DEF Fill, Shape, UsersTyped
<1>3. job[w].rows \in Seq(TableRow) /\ job[w].i \in 1 .. Len(job[w].rows) /\ Len(job[w].rows) \in Nat
  BY <1>1 DEF JobFits, TableFits
<1>4. TablesTyped'
  <2>1. job[w].rows[job[w].i] \in TableRow
    BY <1>3, ElementOfSeq
  <2>2. board[t] \in Seq(TableRow)
    BY DEF Shape, TablesTyped
  <2>3. Append(board[t], job[w].rows[job[w].i]) \in Seq(TableRow)
    BY <2>1, <2>2, AppendProperties
  <2> QED
    BY <2>3 DEF Fill, Shape, TablesTyped
<1>5. CASE job[w].i = Len(job[w].rows)
  <2>1. PICK j : /\ job' = [job EXCEPT ![w] = j]
                 /\ JobFits(w, j, DOMAIN states) /\ ~ Judging(j) /\ ~ Judging(job[w])
    BY <1>1, <1>5, FillEnds DEF Fill
  <2> QED
    BY <1>2, <1>4, <2>1, QuietShape
<1>6. CASE job[w].i # Len(job[w].rows)
  <2> DEFINE i == job[w].i + 1
             j == Went(job[w], "fill", i)
  <2>1. i \in 1 .. Len(job[w].rows)
    BY <1>3, <1>6
  <2>2. job' = [job EXCEPT ![w] = j]
    BY <1>6, GoToIs DEF Fill, Shape
  <2>3. JobFits(w, j, DOMAIN states) /\ ~ Judging(j) /\ ~ Judging(job[w])
    BY <1>1, <2>1, TableGoes
  <2> HIDE DEF j
  <2> QED
    BY <1>2, <1>4, <2>2, <2>3, QuietShape
<1> QED
  BY <1>5, <1>6

LEMMA FillFailsShape ==
  ASSUME Shape, NEW w \in Everyone, NEW t \in Tables, FillFails(w, t), UNCHANGED challengeVars
  PROVE  Shape'
<1>1. UsersTyped' /\ TablesTyped'
  BY DEF FillFails, Shape, UsersTyped, TablesTyped
<1>2. PICK j : /\ job' = [job EXCEPT ![w] = j]
               /\ JobFits(w, j, DOMAIN states) /\ ~ Judging(j) /\ ~ Judging(job[w])
  BY FillEnds DEF FillFails
<1> QED
  BY <1>1, <1>2, QuietShape

LEMMA StartEndOfDayShape ==
  ASSUME Shape, NEW w \in Workers, StartEndOfDay(w), UNCHANGED challengeVars
  PROVE  Shape'
<1> DEFINE j == Begun("EndOfDay", "truncate", board["Leaderboard"], Whole("Leaderboard"))
<1>1. job' = [job EXCEPT ![w] = j] /\ ~ Judging(job[w])
  BY BeginIs DEF StartEndOfDay
<1>2. board["Leaderboard"] \in Seq(TableRow) /\ Whole("Leaderboard") \in BOOLEAN
  BY DEF Shape, TablesTyped, Whole
<1>3. JobFits(w, j, DOMAIN states) /\ ~ Judging(j)
  BY <1>2, Names DEF Begun, JobFits, IsJob, CallFits, TableFits, Judging
<1>4. UsersTyped' /\ TablesTyped'
  BY DEF StartEndOfDay, Shape, UsersTyped, TablesTyped
<1> HIDE DEF j
<1> QED
  BY <1>1, <1>3, <1>4, QuietShape

------------------------------------------------------------------------------
(* The ticker *)

\* The rows the ticker ranks: one of each user.
TotalsNow == [u \in Users |-> [user |-> u, total |-> rowWorth[u]]]

LEMMA StartLeaderboardIs ==
  ASSUME UsersTyped, StartLeaderboard
  PROVE  \E rows : /\ job' = [job EXCEPT ![Ticker] = Begun("Leaderboard", "take", rows, TRUE)]
                   /\ rows \in Seq(TableRow) /\ Full(rows) /\ 1 \in 1 .. Len(rows)
                   /\ \A i \in 1 .. Len(rows) : rows[i].total \in Nat
<1> DEFINE g == TotalsNow
<1>1. {[user |-> u, total |-> rowWorth[u]] : u \in Users} = {g[u] : u \in Users}
  BY DEF TotalsNow
<1>2. \A u \in Users : g[u].user = u /\ g[u].total \in Nat
  BY DEF TotalsNow, UsersTyped
<1> HIDE DEF g
<1>3. PICK s \in Sorted({g[u] : u \in Users}) :
        job' = [job EXCEPT ![Ticker] = Begun("Leaderboard", "take", Ranked(s), TRUE)]
  BY <1>1 DEF StartLeaderboard, Begun
<1> DEFINE rows == Ranked(s)
<1>4. /\ rows \in Seq(TableRow) /\ Full(rows) /\ Len(rows) > 0
      /\ \A i \in 1 .. Len(rows) : \E u \in Users : rows[i].total = g[u].total
  BY <1>2, RankedFull
<1> HIDE DEF rows
<1>5. Len(rows) \in Nat /\ 1 \in 1 .. Len(rows)
  BY <1>4
<1>6. \A i \in 1 .. Len(rows) : rows[i].total \in Nat
  BY <1>2, <1>4
<1> QED
  BY <1>3, <1>4, <1>5, <1>6 DEF rows

LEMMA StartLeaderboardShape ==
  ASSUME Shape, StartLeaderboard, UNCHANGED challengeVars
  PROVE  Shape'
<1>1. PICK rows : /\ job' = [job EXCEPT ![Ticker] = Begun("Leaderboard", "take", rows, TRUE)]
                  /\ rows \in Seq(TableRow) /\ Full(rows) /\ 1 \in 1 .. Len(rows)
                  /\ \A i \in 1 .. Len(rows) : rows[i].total \in Nat
  BY StartLeaderboardIs DEF Shape
<1> DEFINE j == Begun("Leaderboard", "take", rows, TRUE)
<1>2. JobFits(Ticker, j, DOMAIN states) /\ ~ Judging(j)
  BY <1>1 DEF Begun, JobFits, IsJob, CallFits, TableFits, Judging
<1>3. ~ Judging(job[Ticker])
  BY DEF StartLeaderboard, Judging, Idle
<1>4. UsersTyped' /\ TablesTyped'
  BY DEF StartLeaderboard, Shape, UsersTyped, TablesTyped
<1> HIDE DEF j
<1> QED
  BY <1>1, <1>2, <1>3, <1>4, QuietShape DEF j

\* The row of the user that the ticker is at.
LEMMA TickerRow ==
  ASSUME JobsFit, job[Ticker].op = "Leaderboard"
  PROVE  /\ JobFits(Ticker, job[Ticker], DOMAIN states) /\ job[Ticker].at # "idle"
         /\ job[Ticker].rows \in Seq(TableRow) /\ job[Ticker].i \in 1 .. Len(job[Ticker].rows)
         /\ Len(job[Ticker].rows) \in Nat
         /\ Next1 \in Users /\ job[Ticker].rows[job[Ticker].i].total \in Nat
<1>1. JobFits(Ticker, job[Ticker], DOMAIN states) /\ TableFits(job[Ticker])
  BY JobIs
<1>2. job[Ticker].at # "idle" /\ job[Ticker].rows \in Seq(TableRow)
  BY <1>1 DEF TableFits
<1>3. job[Ticker].i \in 1 .. Len(job[Ticker].rows) /\ Len(job[Ticker].rows) \in Nat
  BY <1>1, <1>2 DEF TableFits
<1>4. job[Ticker].rows[job[Ticker].i] \in TableRow
  BY <1>2, <1>3, ElementOfSeq
<1>5. job[Ticker].rows[job[Ticker].i].total \in Nat
  BY <1>1, <1>3 DEF TableFits
<1> QED
  BY <1>1, <1>2, <1>3, <1>4, <1>5 DEF Next1, TableRow

LEMMA TakeUserShape ==
  ASSUME Shape, TakeUser, UNCHANGED challengeVars
  PROVE  Shape'
<1> DEFINE j == Went(job[Ticker], "save", job[Ticker].i)
<1>1. /\ job[Ticker].op = "Leaderboard" /\ Next1 \in Users
      /\ job[Ticker].rows[job[Ticker].i].total \in Nat
      /\ JobFits(Ticker, job[Ticker], DOMAIN states) /\ job[Ticker].at # "idle"
      /\ job[Ticker].i \in 1 .. Len(job[Ticker].rows)
  BY TickerRow DEF TakeUser, Shape
<1>2. job' = [job EXCEPT ![Ticker] = j]
  BY GoToIs DEF TakeUser, Shape
<1>3. JobFits(Ticker, j, DOMAIN states) /\ ~ Judging(j) /\ ~ Judging(job[Ticker])
  BY <1>1, TableGoes
<1>4. UsersTyped' /\ TablesTyped'
  BY <1>1 DEF TakeUser, Take, Shape, UsersTyped, TablesTyped
<1> HIDE DEF j
<1> QED
  BY <1>2, <1>3, <1>4, QuietShape

LEMMA GoOnShape ==
  ASSUME Shape, job[Ticker].op = "Leaderboard", GoOnDaily, UNCHANGED challengeVars, UsersTyped', TablesTyped'
  PROVE  Shape'
<1>1. job' = [job EXCEPT ![Ticker] = Daily]
  BY DEF GoOnDaily, Daily
<1>2. ~ Judging(job[Ticker])
  BY DEF Judging
<1> QED
  BY <1>1, <1>2, DailyFits, QuietShape

LEMMA TakeUserFailsShape ==
  ASSUME Shape, TakeUserFails, UNCHANGED challengeVars
  PROVE  Shape'
<1>1. UsersTyped' /\ TablesTyped'
  BY DEF TakeUserFails, Shape, UsersTyped, TablesTyped
<1> QED
  BY <1>1, GoOnShape DEF TakeUserFails

LEMMA SaveUserShape ==
  ASSUME Shape, SaveUser, UNCHANGED challengeVars
  PROVE  Shape'
<1>1. /\ job[Ticker].op = "Leaderboard" /\ Next1 \in Users
      /\ JobFits(Ticker, job[Ticker], DOMAIN states) /\ job[Ticker].at # "idle"
      /\ job[Ticker].i \in 1 .. Len(job[Ticker].rows) /\ Len(job[Ticker].rows) \in Nat
  BY TickerRow DEF SaveUser, Shape
<1>2. PICK at \in {"truncate", "take"}, i \in 1 .. Len(job[Ticker].rows) : GoTo(Ticker, at, i)
  <2>1. CASE job[Ticker].i = Len(job[Ticker].rows)
    BY <1>1, <2>1 DEF SaveUser
  <2>2. CASE job[Ticker].i # Len(job[Ticker].rows)
    <3>1. job[Ticker].i + 1 \in 1 .. Len(job[Ticker].rows)
      BY <1>1, <2>2
    <3> QED
      BY <2>2, <3>1 DEF SaveUser
  <2> QED
    BY <2>1, <2>2
<1> DEFINE j == Went(job[Ticker], at, i)
<1>3. job' = [job EXCEPT ![Ticker] = j]
  BY <1>2, GoToIs DEF Shape
<1>4. JobFits(Ticker, j, DOMAIN states) /\ ~ Judging(j) /\ ~ Judging(job[Ticker])
  BY <1>1, TableGoes
<1>5. UsersTyped' /\ TablesTyped'
  BY <1>1 DEF SaveUser, Give, Shape, UsersTyped, TablesTyped
<1> HIDE DEF j
<1> QED
  BY <1>3, <1>4, <1>5, QuietShape

LEMMA SaveUserFailsShape ==
  ASSUME Shape, SaveUserFails, UNCHANGED challengeVars
  PROVE  Shape'
<1>1. UsersTyped' /\ TablesTyped'
  BY DEF SaveUserFails, Released, NoWriter, Shape, UsersTyped, TablesTyped
<1> QED
  BY <1>1, GoOnShape DEF SaveUserFails

\* What the ticker begins to write as the leaderboard of the day.
LEMMA StartDailyIs ==
  ASSUME TablesTyped, StartDaily
  PROVE  \E rows : /\ job' = [job EXCEPT ![Ticker] = Begun("Daily", "truncate", rows,
                                  Whole("Leaderboard") /\ Whole("EndOfDay"))]
                   /\ rows \in Seq(TableRow)
                   /\ board["Leaderboard"] = <<>> => rows = <<>>
                   /\ /\ Lists(board["Leaderboard"])
                      /\ board["EndOfDay"] = <<>> \/ Lists(board["EndOfDay"])
                      => Full(rows)
<1>1. PICK s \in Sorted(Gains) :
        job' = [job EXCEPT ![Ticker] = Begun("Daily", "truncate", Ranked(s),
                                             Whole("Leaderboard") /\ Whole("EndOfDay"))]
  BY DEF StartDaily, Begun
<1> DEFINE rows == Ranked(s)
<1>2. IsFiniteSet(Gains) /\ \A x \in Gains : x.user \in Users /\ x.total \in Int
  BY GainsTyped
<1>3. rows \in Seq(TableRow) /\ Len(rows) = Cardinality(Gains)
  BY <1>2, RankedTyped
<1>4. ASSUME board["Leaderboard"] = <<>> PROVE rows = <<>>
  <2>1. Len(rows) = 0
    BY <1>3, <1>4, NoGains, FS_EmptySet
  <2> HIDE DEF rows
  <2> QED
    BY <2>1, <1>3, EmptySeq
<1>5. ASSUME Lists(board["Leaderboard"]), board["EndOfDay"] = <<>> \/ Lists(board["EndOfDay"])
      PROVE  Full(rows)
  <2>1. PICK g : Gains = {g[u] : u \in Users} /\ \A u \in Users : g[u].user = u /\ g[u].total \in Int
    BY <1>5, GainsWhole
  <2>2. s \in Sorted({g[u] : u \in Users})
    BY <2>1
  <2> QED
    BY <2>1, <2>2, RankedFull
<1> QED
  BY <1>1, <1>3, <1>4, <1>5

LEMMA StartDailyShape ==
  ASSUME Shape, StartDaily, UNCHANGED challengeVars
  PROVE  Shape'
<1> DEFINE whole == Whole("Leaderboard") /\ Whole("EndOfDay")
<1>1. PICK rows : job' = [job EXCEPT ![Ticker] = Begun("Daily", "truncate", rows, whole)]
                  /\ rows \in Seq(TableRow)
  BY StartDailyIs DEF Shape
<1>2. whole \in BOOLEAN
  OBVIOUS
<1> HIDE DEF whole
<1> DEFINE j == Begun("Daily", "truncate", rows, whole)
<1>3. JobFits(Ticker, j, DOMAIN states) /\ ~ Judging(j)
  BY <1>1, <1>2 DEF Begun, JobFits, IsJob, CallFits, TableFits, Judging
<1>4. ~ Judging(job[Ticker])
  BY DEF StartDaily, Judging
<1>5. UsersTyped' /\ TablesTyped'
  BY DEF StartDaily, Shape, UsersTyped, TablesTyped
<1> HIDE DEF j
<1> QED
  BY <1>1, <1>3, <1>4, <1>5, QuietShape DEF j

LEMMA BoardNextShape ==
  ASSUME Shape, BoardNext, UNCHANGED challengeVars
  PROVE  Shape'
<1>1. ASSUME NEW w \in Everyone, TableStep(w) PROVE Shape'
  BY <1>1, TruncateShape, FillShape, FillFailsShape DEF TableStep
<1>2. ASSUME TickerStep PROVE Shape'
  BY <1>1, <1>2, TakeUserShape, TakeUserFailsShape, SaveUserShape, SaveUserFailsShape, StartDailyShape
     DEF TickerStep
<1>3. ASSUME NEW w \in Workers, StartTrade(w) \/ StartEndOfDay(w) \/ TradeStep(w) \/ TableStep(w)
      PROVE  Shape'
  BY <1>1, <1>3, StartTradeShape, StartEndOfDayShape, LockUserShape, SaveTradeShape, TradeFailsShape
     DEF TradeStep
<1> QED
  BY <1>2, <1>3, StartLeaderboardShape DEF BoardNext

------------------------------------------------------------------------------
(* The shape: the administrators *)

LEMMA ShapeStep ==
  ASSUME Shape, NEW w \in Everyone, NEW j, job' = [job EXCEPT ![w] = j],
         JobFits(w, j, DOMAIN states'), Grown(states, states'),
         judged' = [v \in Workers |-> judged'[v]],
         \A v \in Workers \ {w} : judged'[v] = judged[v],
         w \in Workers => NotesFit(judged'[w], j, states'),
         UsersTyped', TablesTyped', DayTyped'
  PROVE  Shape'
<1>1. DOMAIN states \subseteq DOMAIN states'
  BY DEF Grown
<1> QED
  BY <1>1, JobStep, NotesStep DEF Shape

\* A worker that judges neither before nor after, with the same notes.
LEMMA CallStep ==
  ASSUME Shape, NEW w \in Workers, NEW j, job' = [job EXCEPT ![w] = j],
         JobFits(w, j, DOMAIN states'), Grown(states, states'), judged' = judged,
         ~ Judging(job[w]), ~ Judging(j), UsersTyped', TablesTyped', DayTyped'
  PROVE  Shape'
<1>1. NotesFit(judged'[w], j, states')
  BY DEF Shape, AllNotesFit, NotesFit
<1>2. judged' = [v \in Workers |-> judged'[v]]
  BY DEF Shape, AllNotesFit
<1> QED
  BY <1>1, <1>2, ShapeStep

LEMMA SameStates ==
  ASSUME states' = states
  PROVE  Grown(states, states') /\ DOMAIN states' = DOMAIN states
BY DEF Grown

LEMMA UsersKept ==
  ASSUME Shape, UNCHANGED users
  PROVE  UsersTyped' /\ TablesTyped'
BY DEF Shape, UsersTyped, TablesTyped

LEMMA SetMarketDayShape ==
  ASSUME Shape, SetMarketDay
  PROVE  Shape'
<1>1. UsersTyped' /\ TablesTyped'
  BY UsersKept DEF SetMarketDay
<1>2. DayTyped'
  BY ChallengesAssumption DEF SetMarketDay, Shape, DayTyped
<1>3. JobsFit' /\ AllNotesFit'
  BY SameStates, JobsSame, NotesSame DEF SetMarketDay, Shape
<1> QED
  BY <1>1, <1>2, <1>3 DEF Shape

\* The jobs that calls begin.
LEMMA BegunFits ==
  ASSUME NEW w \in Workers, NEW op, NEW at, NEW rows, NEW S,
         \/ op = "add" /\ at = "save" /\ rows \in Seq(Challenge)
         \/ op \in {"open", "close"} /\ at = "check" /\ rows[1] \in Nat
         \/ op = "claim" /\ at = "lock" /\ rows[1] \in S
  PROVE  JobFits(w, Begun(op, at, rows, TRUE), S) /\ ~ Judging(Begun(op, at, rows, TRUE))
BY Names DEF Begun, JobFits, IsJob, CallFits, TableFits, Judging

LEMMA StartAddShape ==
  ASSUME Shape, NEW w \in Workers, StartAdd(w)
  PROVE  Shape'
<1>1. PICK d \in 1 .. MaxDay, k \in Kinds : Begin(w, "add", "save", <<[day |-> d, kind |-> k]>>, TRUE)
  BY DEF StartAdd
<1> DEFINE rows == <<[day |-> d, kind |-> k]>>
           j == Begun("add", "save", rows, TRUE)
<1>2. job' = [job EXCEPT ![w] = j] /\ ~ Judging(job[w])
  BY <1>1 DEF Begin, Begun, Judging, Idle
<1>3. rows \in Seq(Challenge)
  BY ChallengesAssumption DEF Challenge
<1> HIDE DEF rows
<1>4. JobFits(w, j, DOMAIN states) /\ ~ Judging(j)
  BY <1>3, BegunFits
<1>5. UsersTyped' /\ TablesTyped'
  BY UsersKept DEF StartAdd
<1> HIDE DEF j
<1> QED
  BY <1>2, <1>4, <1>5, QuietShape DEF StartAdd

LEMMA SaveChallengeShape ==
  ASSUME Shape, NEW w \in Workers, SaveChallenge(w)
  PROVE  Shape'
<1>1. job[w].rows \in Seq(Challenge) /\ ~ Judging(job[w])
  BY JobIs DEF SaveChallenge, Shape, CallFits, Judging
<1>2. challenges' \in Seq(Challenge) /\ DOMAIN challenges \subseteq DOMAIN challenges'
  <2>1. CASE challenges' = challenges \o job[w].rows
    <3>1. challenges \in Seq(Challenge)
      BY DEF Shape, DayTyped
    <3>2. /\ challenges' \in Seq(Challenge) /\ Len(challenges') = Len(challenges) + Len(job[w].rows)
      BY <1>1, <2>1, <3>1, ConcatProperties
    <3>3. Len(challenges) \in Nat /\ Len(job[w].rows) \in Nat /\ DOMAIN challenges = 1 .. Len(challenges)
          /\ DOMAIN challenges' = 1 .. Len(challenges')
      BY <1>1, <3>1, <3>2, LenProperties
    <3> QED
      BY <3>2, <3>3
  <2>2. CASE challenges' = challenges
    BY <2>2 DEF Shape, DayTyped
  <2> QED
    BY <2>1, <2>2 DEF SaveChallenge
<1>3. DayTyped'
  BY <1>2 DEF SaveChallenge, Shape, DayTyped
<1>4. UsersTyped' /\ TablesTyped'
  BY UsersKept DEF SaveChallenge
<1>5. job' = [job EXCEPT ![w] = Idle] /\ judged' = judged /\ states' = states
  BY DEF SaveChallenge, Finish
<1> QED
  BY <1>1, <1>3, <1>4, <1>5, IdleFits, SameStates, CallStep

LEMMA StartShape ==
  ASSUME Shape, NEW w \in Workers, NEW op \in {"open", "close"}, Start(w, op)
  PROVE  Shape'
<1> DEFINE j == Begun(op, "check", <<day>>, TRUE)
<1>1. job' = [job EXCEPT ![w] = j] /\ ~ Judging(job[w])
  BY DEF Start, Begin, Begun, Judging, Idle
<1>2. day \in Nat
  BY DEF Shape, DayTyped
<1>3. JobFits(w, j, DOMAIN states) /\ ~ Judging(j)
  BY <1>2, BegunFits
<1>4. UsersTyped' /\ TablesTyped'
  BY UsersKept DEF Start
<1>5. DayTyped' /\ judged' = judged /\ states' = states
  BY DEF Start, Shape, DayTyped
<1> HIDE DEF j
<1> QED
  BY <1>1, <1>3, <1>4, <1>5, SameStates, CallStep

\* A call to open or to close goes on to a step that keeps its rows.
LEMMA CallGoes ==
  ASSUME NEW w \in Workers, NEW S, NEW j, JobFits(w, j, S), NEW at,
         \/ j.op = "open" /\ at \in {"save", "flag"}
         \/ j.op = "close" /\ at = "flag"
         \/ j.op = "claim" /\ at = "pay",
         NEW i \in Nat
  PROVE  JobFits(w, Went(j, at, i), S) /\ ~ Judging(Went(j, at, i))
<1> DEFINE k == Went(j, at, i)
<1>1. IsJob(k) /\ k.op = j.op /\ k.rows = j.rows /\ k.at = at /\ k.i = i
  BY WentIs DEF JobFits
<1> HIDE DEF k
<1>2. JobFits(w, k, S) /\ ~ Judging(k)
  BY <1>1, Names DEF JobFits, CallFits, TableFits, Judging
<1> QED
  BY <1>2 DEF k

LEMMA CheckOpenShape ==
  ASSUME Shape, NEW w \in Workers, CheckOpen(w)
  PROVE  Shape'
<1>1. JobFits(w, job[w], DOMAIN states) /\ job[w].op = "open" /\ ~ Judging(job[w])
  BY JobIs DEF CheckOpen, Shape, Judging
<1>2. UsersTyped' /\ TablesTyped'
  BY UsersKept DEF CheckOpen
<1>3. DayTyped' /\ judged' = judged /\ states' = states
  BY DEF CheckOpen, Shape, DayTyped
<1>4. CASE Finish(w)
  BY <1>1, <1>2, <1>3, <1>4, IdleFits, SameStates, CallStep DEF Finish
<1>5. CASE GoTo(w, "save", 1)
  <2> DEFINE j == Went(job[w], "save", 1)
  <2>1. job' = [job EXCEPT ![w] = j]
    BY <1>5, GoToIs DEF Shape
  <2>2. JobFits(w, j, DOMAIN states) /\ ~ Judging(j)
    BY <1>1, CallGoes
  <2> HIDE DEF j
  <2> QED
    BY <1>1, <1>2, <1>3, <2>1, <2>2, SameStates, CallStep
<1> QED
  BY <1>4, <1>5 DEF CheckOpen

\* Rows are added to the states.
LEMMA AddStates ==
  ASSUME DayTyped, NEW new \in Seq(State), states' = states \o new,
         \A i \in DOMAIN new : new[i].challenge \in DOMAIN challenges,
         challenges' = challenges
  PROVE  /\ states' \in Seq(State) /\ Grown(states, states')
         /\ DOMAIN states \subseteq DOMAIN states'
         /\ \A s \in DOMAIN states : states'[s] = states[s]
         /\ \A i \in DOMAIN new : /\ Len(states) + i \in DOMAIN states' \ DOMAIN states
                                  /\ states'[Len(states) + i] = new[i]
         /\ \A s \in DOMAIN states' \ DOMAIN states : \E i \in DOMAIN new : s = Len(states) + i
         /\ \A s \in DOMAIN states' : states'[s].challenge \in DOMAIN challenges'
<1> DEFINE n == Len(states)
           m == Len(new)
<1>1. states \in Seq(State) /\ n \in Nat /\ m \in Nat
  BY DEF DayTyped
<1>2. states' \in Seq(State) /\ Len(states') = n + m
      /\ \A i \in 1 .. n + m : states'[i] = IF i <= n THEN states[i] ELSE new[i - n]
  BY <1>1, ConcatProperties
<1>3. DOMAIN states = 1 .. n /\ DOMAIN new = 1 .. m /\ DOMAIN states' = 1 .. n + m
  BY <1>1, <1>2
<1>4. \A s \in DOMAIN states : s \in DOMAIN states' /\ states'[s] = states[s]
  BY <1>1, <1>2, <1>3
<1>5. \A i \in DOMAIN new : /\ n + i \in DOMAIN states' \ DOMAIN states
                            /\ states'[n + i] = new[i]
  BY <1>1, <1>2, <1>3
<1>6. \A s \in DOMAIN states' \ DOMAIN states : \E i \in DOMAIN new : s = n + i
  <2> TAKE s \in DOMAIN states' \ DOMAIN states
  <2>1. s - n \in DOMAIN new /\ s = n + (s - n)
    BY <1>1, <1>3
  <2> QED
    BY <2>1
<1>7. \A s \in DOMAIN states' : states'[s].challenge \in DOMAIN challenges'
  BY <1>4, <1>5, <1>6 DEF DayTyped
<1> QED
  BY <1>2, <1>4, <1>5, <1>6, <1>7 DEF Grown

\* The states that saveUsersState adds, and whose they are.
NewStates(d) ==
  LET new == SetToSeq(Of(d) \X Users)
  IN [i \in DOMAIN new |-> NewState(new[i][1], new[i][2], rowWorth[new[i][2]], None)]

LEMMA NewStatesAre ==
  ASSUME Shape, NEW d
  PROVE  /\ NewStates(d) \in Seq(State)
         /\ \A i \in DOMAIN NewStates(d) :
              /\ NewStates(d)[i].challenge \in Of(d) /\ ~ NewStates(d)[i].done /\ ~ NewStates(d)[i].claimed
         /\ \A c \in Of(d), u \in Users : \E i \in DOMAIN NewStates(d) : \A k \in DOMAIN NewStates(d) :
              NewStates(d)[k].challenge = c /\ NewStates(d)[k].user = u <=> k = i
<1> DEFINE S == Of(d) \X Users
           p == SetToSeq(S)
           r == NewStates(d)
<1>1. challenges \in Seq(Challenge) /\ DOMAIN challenges = 1 .. Len(challenges) /\ Len(challenges) \in Nat
  BY DEF Shape, DayTyped
<1>2. IsFiniteSet(Of(d)) /\ Of(d) \subseteq DOMAIN challenges /\ Of(d) \subseteq Nat
  <2>1. Of(d) \subseteq 1 .. Len(challenges) /\ IsFiniteSet(1 .. Len(challenges))
    BY <1>1, FS_Interval DEF Of
  <2> QED
    BY <1>1, <2>1, FS_Subset
<1>3. IsFiniteSet(S)
  BY <1>2, Names, FS_Product
<1>4. /\ p \in Seq(S) /\ Len(p) \in Nat
      /\ \A i, j \in 1 .. Len(p) : p[i] = p[j] => i = j
      /\ \A x \in S : \E i \in 1 .. Len(p) : p[i] = x
  <2>1. p = SetToSeq(S)
    OBVIOUS
  <2> HIDE DEF p, S
  <2> QED
    BY <1>3, <2>1, SetToSeqIs
<1>5. r = [i \in DOMAIN p |-> NewState(p[i][1], p[i][2], rowWorth[p[i][2]], None)]
  BY DEF NewStates
<1> HIDE DEF p, r
<1>6. DOMAIN p = 1 .. Len(p) /\ \A i \in 1 .. Len(p) : p[i] \in S
  BY <1>4, ElementOfSeq
<1>7. \A i \in 1 .. Len(p) : p[i] = <<p[i][1], p[i][2]>> /\ p[i][1] \in Of(d) /\ p[i][2] \in Users
  BY <1>6
<1>8. \A i \in 1 .. Len(p) : /\ r[i].challenge = p[i][1] /\ r[i].user = p[i][2]
                             /\ ~ r[i].done /\ ~ r[i].claimed /\ r[i] \in State
  BY <1>2, <1>5, <1>6, <1>7 DEF NewState, State, Shape, UsersTyped
<1>9. r \in Seq(State) /\ DOMAIN r = 1 .. Len(p)
  BY <1>4, <1>5, <1>6, <1>8
<1>10. ASSUME NEW c \in Of(d), NEW u \in Users
       PROVE  \E i \in DOMAIN r : \A k \in DOMAIN r : r[k].challenge = c /\ r[k].user = u <=> k = i
  <2>1. PICK i \in 1 .. Len(p) : p[i] = <<c, u>>
    BY <1>4
  <2>2. \A k \in 1 .. Len(p) : p[k] = <<c, u>> <=> k = i
    BY <1>4, <2>1
  <2>3. \A k \in 1 .. Len(p) : r[k].challenge = c /\ r[k].user = u <=> p[k] = <<c, u>>
    BY <1>7, <1>8
  <2>4. \A k \in DOMAIN r : r[k].challenge = c /\ r[k].user = u <=> k = i
    BY <1>9, <2>2, <2>3
  <2>5. i \in DOMAIN r
    BY <1>9
  <2> QED
    BY <2>4, <2>5
<1> QED
  BY <1>7, <1>8, <1>9, <1>10 DEF r

LEMMA saveUsersStateShape ==
  ASSUME Shape, NEW w \in Workers, saveUsersState(w)
  PROVE  Shape'
<1> DEFINE j == Went(job[w], "flag", 1)
           new == NewStates(job[w].rows[1])
<1>1. JobFits(w, job[w], DOMAIN states) /\ job[w].op = "open" /\ ~ Judging(job[w])
  BY JobIs DEF saveUsersState, Shape, Judging
<1>2. UsersTyped' /\ TablesTyped'
  BY UsersKept DEF saveUsersState
<1>3. states' = states \o new /\ challenges' = challenges /\ judged' = judged
  BY DEF saveUsersState, NewStates
<1>4. new \in Seq(State) /\ \A i \in DOMAIN new : new[i].challenge \in DOMAIN challenges
  BY NewStatesAre DEF Of
<1> HIDE DEF new
<1>5. /\ states' \in Seq(State) /\ Grown(states, states')
      /\ DOMAIN states \subseteq DOMAIN states'
      /\ \A s \in DOMAIN states' : states'[s].challenge \in DOMAIN challenges'
  BY <1>3, <1>4, AddStates DEF Shape
<1>6. DayTyped'
  BY <1>3, <1>5 DEF saveUsersState, Shape, DayTyped
<1>7. job' = [job EXCEPT ![w] = j]
  BY GoToIs DEF Shape, saveUsersState
<1>8. JobFits(w, job[w], DOMAIN states')
  BY <1>1, <1>5 DEF JobFits, CallFits
<1>9. JobFits(w, j, DOMAIN states') /\ ~ Judging(j)
  BY <1>1, <1>8, CallGoes
<1> HIDE DEF j
<1> QED
  BY <1>1, <1>2, <1>3, <1>5, <1>6, <1>7, <1>9, CallStep

LEMMA OpenFailsShape ==
  ASSUME Shape, NEW w \in Workers, OpenFails(w)
  PROVE  Shape'
<1>1. ~ Judging(job[w]) /\ Finish(w) /\ UNCHANGED challengeVars
  BY DEF OpenFails, Judging
<1>2. UsersTyped' /\ TablesTyped'
  BY UsersKept DEF OpenFails
<1> QED
  BY <1>1, <1>2, FinishQuiet

LEMMA SetIsOpenShape ==
  ASSUME Shape, NEW w \in Workers, NEW op \in {"open", "close"}, SetIsDailyChallengeOpen(w, op)
  PROVE  Shape'
<1>1. ~ Judging(job[w]) /\ job' = [job EXCEPT ![w] = Idle] /\ judged' = judged /\ states' = states
  BY DEF SetIsDailyChallengeOpen, Judging, Finish
<1>2. UsersTyped' /\ TablesTyped'
  BY UsersKept DEF SetIsDailyChallengeOpen
<1>3. op = "open" => job[w].rows[1] \in Nat
  BY JobIs DEF SetIsDailyChallengeOpen, Shape, CallFits
<1>4. DayTyped'
  <2>1. isOpen' \in BOOLEAN /\ orderly' \in BOOLEAN /\ opened' \subseteq Nat
    BY <1>3 DEF SetIsDailyChallengeOpen, Shape, DayTyped
  <2> QED
    BY <2>1 DEF SetIsDailyChallengeOpen, Shape, DayTyped
<1> QED
  BY <1>1, <1>2, <1>4, IdleFits, SameStates, CallStep

\* The job of closing the day, when its states are listed.
Listed(j, rows) == [[j EXCEPT !.at = "take"] EXCEPT !.rows = rows]
StatesOf(d) == {s \in DOMAIN states : challenges[states[s].challenge].day = d}

LEMMA StatesOfList ==
  ASSUME DayTyped, NEW d, NEW rows, rows = SetToSeq(StatesOf(d))
  PROVE  /\ rows \in Seq(DOMAIN states) /\ Len(rows) \in Nat
         /\ \A k \in 1 .. Len(rows) : rows[k] \in StatesOf(d)
         /\ \A s \in StatesOf(d) : \E k \in 1 .. Len(rows) : rows[k] = s
<1>1. DOMAIN states = 1 .. Len(states) /\ Len(states) \in Nat
  BY DEF DayTyped
<1>2. IsFiniteSet(StatesOf(d))
  <2>1. IsFiniteSet(1 .. Len(states)) /\ StatesOf(d) \subseteq 1 .. Len(states)
    BY <1>1, FS_Interval DEF StatesOf
  <2> QED
    BY <2>1, FS_Subset
<1>3. rows \in Seq(StatesOf(d)) /\ Len(rows) \in Nat
      /\ \A s \in StatesOf(d) : \E k \in 1 .. Len(rows) : rows[k] = s
  BY <1>2, SetToSeqIs
<1>4. \A k \in 1 .. Len(rows) : rows[k] \in StatesOf(d)
  BY <1>3, ElementOfSeq
<1>5. rows \in Seq(DOMAIN states)
  BY <1>3, SeqMonotonic DEF StatesOf
<1> QED
  BY <1>3, <1>4, <1>5

LEMMA CheckCloseIs ==
  ASSUME JobsFit, NEW w \in Workers, CheckClose(w)
  PROVE  IF isOpen THEN job' = [job EXCEPT ![w] = Listed(job[w], SetToSeq(StatesOf(job[w].rows[1])))]
         ELSE Finish(w)
BY DEF CheckClose, Listed, StatesOf, JobsFit, JobFits, IsJob

LEMMA CheckCloseShape ==
  ASSUME Shape, NEW w \in Workers, CheckClose(w)
  PROVE  Shape'
<1>1. /\ JobFits(w, job[w], DOMAIN states) /\ job[w].op = "close" /\ job[w].at = "check"
      /\ job[w].i = 1 /\ ~ Judging(job[w])
  BY JobIs DEF CheckClose, Shape, Judging, CallFits
<1>2. UsersTyped' /\ TablesTyped'
  BY UsersKept DEF CheckClose
<1>3. UNCHANGED challengeVars
  BY DEF CheckClose
<1>4. CASE ~ isOpen
  BY <1>1, <1>2, <1>3, <1>4, CheckCloseIs, FinishQuiet DEF Shape
<1>5. CASE isOpen
  <2> DEFINE rows == SetToSeq(StatesOf(job[w].rows[1]))
             j == Listed(job[w], rows)
  <2>1. rows \in Seq(DOMAIN states) /\ Len(rows) \in Nat
    BY StatesOfList DEF Shape
  <2>2. job' = [job EXCEPT ![w] = j]
    BY <1>5, CheckCloseIs DEF Shape
  <2> HIDE DEF rows
  <2>3. /\ IsJob(j) /\ j.op = "close" /\ j.at = "take" /\ j.i = 1 /\ j.rows = rows /\ Judging(j)
    BY <1>1 DEF Listed, JobFits, IsJob, Judging
  <2> HIDE DEF j
  <2>4. JobFits(w, j, DOMAIN states)
    BY <2>1, <2>3, Names DEF JobFits, CallFits, TableFits, Judging
  <2>5. NotesFit(judged[w], j, states)
    <3>1. judged[w] = <<>>
      BY <1>1 DEF Shape, AllNotesFit, NotesFit
    <3> QED
      BY <2>3, <3>1 DEF NotesFit
  <2>6. DayTyped' /\ judged' = judged /\ states' = states
    BY <1>3 DEF Shape, DayTyped
  <2>7. judged' = [v \in Workers |-> judged'[v]]
    BY <2>6 DEF Shape, AllNotesFit
  <2> QED
    BY <1>2, <2>2, <2>4, <2>5, <2>6, <2>7, SameStates, ShapeStep
<1> QED
  BY <1>4, <1>5

\* The state that is judged.
LEMMA JudgedIs ==
  ASSUME Shape, NEW w \in Workers, Judging(job[w]), MoreToJudge(w)
  PROVE  /\ JudgedState(w) \in DOMAIN states /\ states[JudgedState(w)] \in State
         /\ states[JudgedState(w)].user \in Users
         /\ job[w].rows \in Seq(DOMAIN states) /\ job[w].i \in 1 .. Len(job[w].rows)
         /\ Len(job[w].rows) \in Nat
<1>1. job[w].rows \in Seq(DOMAIN states) /\ job[w].i \in 1 .. Len(job[w].rows) + 1
      /\ job[w].i <= Len(job[w].rows)
  BY JobIs DEF Shape, CallFits, MoreToJudge
<1>2. Len(job[w].rows) \in Nat /\ job[w].i \in 1 .. Len(job[w].rows)
  BY <1>1
<1>3. JudgedState(w) \in DOMAIN states
  BY <1>1, <1>2, ElementOfSeq DEF JudgedState
<1>4. states \in Seq(State)
  BY DEF Shape, DayTyped
<1>5. states[JudgedState(w)] \in State
  BY <1>3, <1>4, ElementOfSeq
<1> QED
  BY <1>1, <1>2, <1>3, <1>5 DEF State

\* A job that judges stays one.
LEMMA JudgingGoes ==
  ASSUME NEW w \in Workers, NEW S, NEW j, JobFits(w, j, S), Judging(j), NEW at \in {"take", "judge"},
         NEW i \in 1 .. Len(j.rows) + 1, at = "judge" => i <= Len(j.rows)
  PROVE  /\ JobFits(w, Went(j, at, i), S) /\ Judging(Went(j, at, i))
         /\ Went(j, at, i).rows = j.rows /\ Went(j, at, i).i = i
<1> DEFINE k == Went(j, at, i)
<1>0. Len(j.rows) \in Nat
  BY DEF JobFits, CallFits
<1>1. IsJob(k) /\ k.op = j.op /\ k.rows = j.rows /\ k.at = at /\ k.i = i
  BY <1>0, WentIs DEF JobFits
<1> HIDE DEF k
<1>2. JobFits(w, k, S) /\ Judging(k)
  BY <1>0, <1>1, Names DEF JobFits, CallFits, TableFits, Judging
<1> QED
  BY <1>1, <1>2 DEF k

LEMMA TakeJudgedShape ==
  ASSUME Shape, NEW w \in Workers, TakeJudged(w)
  PROVE  Shape'
<1> DEFINE j == Went(job[w], "judge", job[w].i)
<1>1. JobFits(w, job[w], DOMAIN states) /\ Judging(job[w]) /\ MoreToJudge(w)
  BY JobIs DEF TakeJudged, Shape, Judging
<1>2. job[w].i \in 1 .. Len(job[w].rows) + 1 /\ job[w].i <= Len(job[w].rows)
  BY <1>1, JudgedIs
<1>3. job' = [job EXCEPT ![w] = j]
  BY GoToIs DEF TakeJudged, Shape
<1>4. JobFits(w, j, DOMAIN states) /\ Judging(j) /\ j.rows = job[w].rows /\ j.i = job[w].i
  BY <1>1, <1>2, JudgingGoes
<1> HIDE DEF j
<1>5. UsersTyped' /\ TablesTyped'
  BY DEF TakeJudged, Take, Shape, UsersTyped, TablesTyped
<1>6. DayTyped' /\ judged' = judged /\ states' = states
  BY DEF TakeJudged, Shape, DayTyped
<1>7. NotesFit(judged[w], job[w], states) /\ judged' = [v \in Workers |-> judged'[v]]
  BY <1>6 DEF Shape, AllNotesFit
<1>8. NotesFit(judged[w], j, states)
  BY <1>1, <1>4, <1>7 DEF NotesFit
<1> QED
  BY <1>3, <1>4, <1>5, <1>6, <1>7, <1>8, SameStates, ShapeStep

\* A worker gives up, or has committed what it judged, and forgets its notes.
LEMMA ForgetStep ==
  ASSUME Shape, NEW w \in Workers, NEW j, job' = [job EXCEPT ![w] = j], Forget(w),
         JobFits(w, j, DOMAIN states'), ~ Judging(j), Grown(states, states'),
         UsersTyped', TablesTyped', DayTyped'
  PROVE  Shape'
<1>1. /\ judged' = [v \in Workers |-> judged'[v]] /\ judged'[w] = <<>>
      /\ \A v \in Workers \ {w} : judged'[v] = judged[v]
  BY DEF Forget, Shape, AllNotesFit
<1>2. NotesFit(judged'[w], j, states')
  BY <1>1 DEF NotesFit
<1> QED
  BY <1>1, <1>2, ShapeStep

LEMMA JudgeLostShape ==
  ASSUME Shape, NEW w \in Workers, JudgeLost(w)
  PROVE  Shape'
<1>1. UsersTyped' /\ TablesTyped'
  BY DEF JudgeLost, Shape, UsersTyped, TablesTyped
<1>2. DayTyped' /\ states' = states
  BY DEF JudgeLost, Shape, DayTyped
<1>3. job' = [job EXCEPT ![w] = Idle] /\ Forget(w)
  BY DEF JudgeLost, Finish
<1> QED
  BY <1>1, <1>2, <1>3, IdleFits, SameStates, ForgetStep

LEMMA JudgeFailsShape ==
  ASSUME Shape, NEW w \in Workers, JudgeFails(w)
  PROVE  Shape'
<1>1. UsersTyped' /\ TablesTyped'
  BY DEF JudgeFails, GiveAll, Shape, UsersTyped, TablesTyped
<1>2. DayTyped' /\ states' = states
  BY DEF JudgeFails, Shape, DayTyped
<1>3. job' = [job EXCEPT ![w] = Idle] /\ Forget(w)
  BY DEF JudgeFails, Finish
<1> QED
  BY <1>1, <1>2, <1>3, IdleFits, SameStates, ForgetStep

\* A state is judged: the note of it follows the notes of those before it.
NoteOf(w) == [id |-> JudgedState(w), final |-> FinalValue(w),
              done |-> FinalValue(w) >= states[JudgedState(w)].initial + Goal]

LEMMA NoteIs ==
  ASSUME Shape, NEW w \in Workers, Judging(job[w]), MoreToJudge(w)
  PROVE  /\ NoteOf(w) \in Note /\ NoteOf(w).id = job[w].rows[job[w].i]
         /\ NoteOf(w).final \in Nat
         /\ NoteOf(w).done <=> NoteOf(w).final >= states[NoteOf(w).id].initial + Goal
<1>1. states[JudgedState(w)].user \in Users /\ JudgedState(w) \in DOMAIN states
  BY JudgedIs
<1>2. FinalValue(w) \in Nat
  BY <1>1 DEF FinalValue, Shape, UsersTyped
<1>3. JudgedState(w) \in Nat
  BY <1>1 DEF Shape, DayTyped
<1> DEFINE d == FinalValue(w) >= states[JudgedState(w)].initial + Goal
<1>4. NoteOf(w) = [id |-> JudgedState(w), final |-> FinalValue(w), done |-> d] /\ d \in BOOLEAN
  BY DEF NoteOf
<1>5. JudgedState(w) = job[w].rows[job[w].i]
  BY DEF JudgedState
<1> HIDE DEF d
<1>6. /\ NoteOf(w) \in Note /\ NoteOf(w).id = JudgedState(w) /\ NoteOf(w).final = FinalValue(w)
      /\ NoteOf(w).done = d
  BY <1>2, <1>3, <1>4 DEF Note
<1>7. NoteOf(w).done <=> NoteOf(w).final >= states[NoteOf(w).id].initial + Goal
  BY <1>6 DEF d
<1> QED
  BY <1>2, <1>5, <1>6, <1>7

LEMMA NotesAppend ==
  ASSUME NEW notes, NEW j, NEW all, NotesFit(notes, j, all), Judging(j), j.i \in Nat \ {0},
         NEW n \in Note, n.id = j.rows[j.i], n.done <=> n.final >= all[n.id].initial + Goal,
         NEW k, Judging(k), k.rows = j.rows, k.i = j.i + 1
  PROVE  NotesFit(Append(notes, n), k, all)
<1> DEFINE m == Append(notes, n)
<1>1. notes \in Seq(Note) /\ {notes[x].id : x \in 1 .. Len(notes)} = {j.rows[x] : x \in 1 .. j.i - 1}
  BY DEF NotesFit
<1>2. /\ m \in Seq(Note) /\ Len(m) = Len(notes) + 1 /\ Len(notes) \in Nat
      /\ \A x \in 1 .. Len(notes) : m[x] = notes[x]
      /\ m[Len(notes) + 1] = n
  BY <1>1, AppendProperties
<1> HIDE DEF m
<1>3. {m[x].id : x \in 1 .. Len(m)} = {notes[x].id : x \in 1 .. Len(notes)} \cup {n.id}
  <2>1. 1 .. Len(m) = (1 .. Len(notes)) \cup {Len(notes) + 1}
    BY <1>2
  <2> QED
    BY <2>1, <1>2
<1>4. {k.rows[x] : x \in 1 .. k.i - 1} = {j.rows[x] : x \in 1 .. j.i - 1} \cup {j.rows[j.i]}
  <2>1. 1 .. k.i - 1 = (1 .. j.i - 1) \cup {j.i}
    OBVIOUS
  <2> QED
    BY <2>1
<1>5. \A x \in 1 .. Len(m) : m[x].done <=> m[x].final >= all[m[x].id].initial + Goal
  <2> TAKE x \in 1 .. Len(m)
  <2>1. CASE x \in 1 .. Len(notes)
    BY <2>1, <1>2 DEF NotesFit
  <2>2. CASE x = Len(notes) + 1
    BY <2>2, <1>2
  <2> QED
    BY <2>1, <2>2, <1>2
<1>6. NotesFit(m, k, all)
  BY <1>1, <1>2, <1>3, <1>4, <1>5 DEF NotesFit
<1> QED
  BY <1>6 DEF m

LEMMA JudgeStateShape ==
  ASSUME Shape, NEW w \in Workers, JudgeState(w)
  PROVE  Shape'
<1> DEFINE j == Went(job[w], "take", job[w].i + 1)
<1>1. JobFits(w, job[w], DOMAIN states) /\ Judging(job[w]) /\ MoreToJudge(w)
  BY JobIs DEF JudgeState, Shape, Judging, CallFits, MoreToJudge
<1>2. job[w].i \in 1 .. Len(job[w].rows) /\ Len(job[w].rows) \in Nat
  BY <1>1, JudgedIs
<1>3. job' = [job EXCEPT ![w] = j]
  BY GoToIs DEF JudgeState, Shape
<1>4. JobFits(w, j, DOMAIN states) /\ Judging(j) /\ j.rows = job[w].rows /\ j.i = job[w].i + 1
  <2>1. job[w].i + 1 \in 1 .. Len(job[w].rows) + 1
    BY <1>2
  <2> QED
    BY <1>1, <2>1, JudgingGoes
<1> HIDE DEF j
<1>5. UsersTyped' /\ TablesTyped'
  BY DEF JudgeState, GiveAll, Shape, UsersTyped, TablesTyped
<1>6. DayTyped' /\ states' = states
  BY DEF JudgeState, Shape, DayTyped
<1>7. judged' = [judged EXCEPT ![w] = Append(judged[w], NoteOf(w))]
  BY DEF JudgeState, NoteOf
<1>8. NotesFit(Append(judged[w], NoteOf(w)), j, states)
  <2>1. NotesFit(judged[w], job[w], states)
    BY DEF Shape, AllNotesFit
  <2>2. NoteOf(w) \in Note /\ NoteOf(w).id = job[w].rows[job[w].i]
        /\ (NoteOf(w).done <=> NoteOf(w).final >= states[NoteOf(w).id].initial + Goal)
    BY <1>1, NoteIs
  <2> QED
    BY <1>1, <1>2, <1>4, <2>1, <2>2, NotesAppend
<1>9. /\ judged' = [v \in Workers |-> judged'[v]]
      /\ judged'[w] = Append(judged[w], NoteOf(w))
      /\ \A v \in Workers \ {w} : judged'[v] = judged[v]
  BY <1>7 DEF Shape, AllNotesFit
<1> QED
  BY <1>3, <1>4, <1>5, <1>6, <1>8, <1>9, SameStates, ShapeStep

\* The notes of a transaction, one of which is the note of each state it judged.
LEMMA NotesAre ==
  ASSUME Shape, NEW w \in Workers
  PROVE  /\ \A n \in ToSet(judged[w]) : n \in Note /\ (n.done <=> n.final >= states[n.id].initial + Goal)
         /\ JudgedIn(w) = {judged[w][k].id : k \in 1 .. Len(judged[w])}
         /\ ~ Judging(job[w]) => judged[w] = <<>>
         /\ Judging(job[w]) => JudgedIn(w) = {job[w].rows[k] : k \in 1 .. job[w].i - 1}
<1>1. NotesFit(judged[w], job[w], states)
  BY DEF Shape, AllNotesFit
<1>2. judged[w] \in Seq(Note) /\ DOMAIN judged[w] = 1 .. Len(judged[w])
  BY <1>1 DEF NotesFit
<1>3. ToSet(judged[w]) = {judged[w][k] : k \in 1 .. Len(judged[w])}
  BY <1>2 DEF ToSet
<1>4. \A k \in 1 .. Len(judged[w]) : judged[w][k] \in Note
  BY <1>2, ElementOfSeq
<1>5. JudgedIn(w) = {judged[w][k].id : k \in 1 .. Len(judged[w])}
  BY <1>3 DEF JudgedIn
<1> QED
  BY <1>1, <1>3, <1>4, <1>5 DEF NotesFit

\* What committing the notes makes of the states.
LEMMA CommitIs ==
  ASSUME Shape, NEW w \in Workers, CommitJudged(w), GoTo(w, "flag", 1)
  PROVE  /\ states' \in Seq(State) /\ DOMAIN states' = DOMAIN states
         /\ \A s \in DOMAIN states : /\ states'[s].challenge = states[s].challenge
                                     /\ states'[s].user = states[s].user
                                     /\ states'[s].initial = states[s].initial
                                     /\ states'[s].claimed = states[s].claimed
         /\ \A s \in DOMAIN states \ JudgedIn(w) : states'[s] = states[s]
         /\ \A s \in DOMAIN states : s \in JudgedIn(w) =>
              /\ states'[s].final \in Nat
              /\ states'[s].done <=> states'[s].final >= states'[s].initial + Goal
<1> DEFINE N(s) == CHOOSE n \in ToSet(judged[w]) : n.id = s
           new(s) == [states[s] EXCEPT !.final = N(s).final, !.done = N(s).done]
<1>0. GoTo(w, "flag", 1) => job' # [job EXCEPT ![w] = Idle]
  <2>1. job[w] \in [op : {job[w].op}, at : {job[w].at}, rows : {job[w].rows}, i : Nat, whole : BOOLEAN]
        /\ w \in DOMAIN job
    BY JobIs DEF Shape, JobsFit, IsJob
  <2> QED
    BY <2>1 DEF GoTo, Idle
<1>1. states' = [s \in DOMAIN states |-> IF s \in JudgedIn(w) THEN new(s) ELSE states[s]]
  BY <1>0 DEF CommitJudged, Finish
<1>2. states \in Seq(State) /\ DOMAIN states = 1 .. Len(states) /\ Len(states) \in Nat
  BY DEF Shape, DayTyped
<1>3. \A s \in DOMAIN states : states[s] \in State
  BY <1>2, ElementOfSeq
<1>4. \A s \in JudgedIn(w) : N(s) \in ToSet(judged[w]) /\ N(s).id = s
  BY DEF JudgedIn
<1>5. \A s \in JudgedIn(w) : N(s) \in Note /\ (N(s).done <=> N(s).final >= states[s].initial + Goal)
  BY <1>4, NotesAre
<1> HIDE DEF N
<1>6. ASSUME NEW s \in DOMAIN states, s \in JudgedIn(w)
      PROVE  /\ new(s) \in State /\ new(s).challenge = states[s].challenge /\ new(s).user = states[s].user
             /\ new(s).initial = states[s].initial /\ new(s).claimed = states[s].claimed
             /\ new(s).final = N(s).final /\ new(s).done = N(s).done
  <2>1. N(s).final \in Nat /\ N(s).done \in BOOLEAN
    BY <1>5, <1>6 DEF Note
  <2> QED
    BY <1>3, <2>1 DEF State
<1> HIDE DEF new
<1>7. \A s \in DOMAIN states : states'[s] \in State
  BY <1>1, <1>3, <1>6
<1>8. states' \in Seq(State)
  <2>1. DOMAIN states' = 1 .. Len(states) /\ states' = [s \in 1 .. Len(states) |-> states'[s]]
    BY <1>1, <1>2
  <2> QED
    BY <1>2, <1>7, <2>1
<1>9. \A s \in DOMAIN states : s \in JudgedIn(w) =>
              /\ states'[s].final \in Nat
              /\ states'[s].done <=> states'[s].final >= states'[s].initial + Goal
  <2>1. \A s \in JudgedIn(w) : N(s).final \in Nat
    BY <1>5 DEF Note
  <2> QED
    BY <1>1, <1>5, <1>6, <2>1
<1>10. \A s \in DOMAIN states : /\ states'[s].challenge = states[s].challenge
                                     /\ states'[s].user = states[s].user
                                     /\ states'[s].initial = states[s].initial
                                     /\ states'[s].claimed = states[s].claimed
  BY <1>1, <1>6
<1>11. DOMAIN states' = DOMAIN states /\ \A s \in DOMAIN states \ JudgedIn(w) : states'[s] = states[s]
  BY <1>1
<1> QED
  BY <1>8, <1>9, <1>10, <1>11

LEMMA CommitCases ==
  ASSUME NEW w \in Workers, CommitJudged(w)
  PROVE  GoTo(w, "flag", 1) \/ (Finish(w) /\ states' = states)
BY DEF CommitJudged

LEMMA CommitJudgedShape ==
  ASSUME Shape, NEW w \in Workers, CommitJudged(w)
  PROVE  Shape'
<1>1. UsersTyped' /\ TablesTyped'
  BY UsersKept DEF CommitJudged
<1>2. Forget(w)
  BY DEF CommitJudged
<1>3. CASE Finish(w) /\ states' = states
  <2>1. DayTyped'
    BY <1>3 DEF CommitJudged, Shape, DayTyped
  <2> QED
    BY <1>1, <1>2, <1>3, <2>1, IdleFits, SameStates, ForgetStep DEF Finish
<1>4. CASE GoTo(w, "flag", 1)
  <2> DEFINE j == Went(job[w], "flag", 1)
  <2>1. /\ states' \in Seq(State) /\ DOMAIN states' = DOMAIN states
        /\ \A s \in DOMAIN states : states'[s].challenge = states[s].challenge
        /\ Grown(states, states')
    BY <1>4, CommitIs DEF Grown
  <2>2. DayTyped'
    BY <2>1 DEF CommitJudged, Shape, DayTyped
  <2>3. job' = [job EXCEPT ![w] = j]
    BY <1>4, GoToIs DEF Shape
  <2>4. JobFits(w, job[w], DOMAIN states) /\ job[w].op = "close"
    BY JobIs DEF Shape, CommitJudged
  <2>5. JobFits(w, j, DOMAIN states) /\ ~ Judging(j)
    BY <2>4, CallGoes
  <2> HIDE DEF j
  <2> QED
    BY <1>1, <1>2, <2>1, <2>2, <2>3, <2>5, ForgetStep
<1> QED
  BY <1>3, <1>4, CommitCases

------------------------------------------------------------------------------
(* The shape: the users *)

\* The states that saveNewUserState adds for a user.
LateStates(u) ==
  LET cs == SetToSeq({c \in DOMAIN challenges : challenges[c].day <= day})
  IN [i \in DOMAIN cs |-> NewState(cs[i], u, StartWorth,
                                   IF challenges[cs[i]].day < day THEN StartWorth ELSE None)]

LEMMA LateStatesAre ==
  ASSUME Shape, NEW u \in Users
  PROVE  /\ LateStates(u) \in Seq(State)
         /\ \A i \in DOMAIN LateStates(u) :
              /\ LateStates(u)[i].challenge \in DOMAIN challenges /\ LateStates(u)[i].user = u
              /\ ~ LateStates(u)[i].done /\ ~ LateStates(u)[i].claimed
<1> DEFINE S == {c \in DOMAIN challenges : challenges[c].day <= day}
           p == SetToSeq(S)
           r == LateStates(u)
<1>1. challenges \in Seq(Challenge) /\ DOMAIN challenges = 1 .. Len(challenges) /\ Len(challenges) \in Nat
  BY DEF Shape, DayTyped
<1>2. IsFiniteSet(S) /\ S \subseteq Nat /\ S \subseteq DOMAIN challenges
  <2>1. S \subseteq 1 .. Len(challenges) /\ IsFiniteSet(1 .. Len(challenges))
    BY <1>1, FS_Interval
  <2> QED
    BY <1>1, <2>1, FS_Subset
<1>3. p = SetToSeq(S)
  OBVIOUS
<1>4. r = [i \in DOMAIN p |-> NewState(p[i], u, StartWorth,
                                       IF challenges[p[i]].day < day THEN StartWorth ELSE None)]
  BY DEF LateStates
<1> HIDE DEF p, S, r
<1>5. p \in Seq(S) /\ Len(p) \in Nat /\ DOMAIN p = 1 .. Len(p)
  BY <1>2, <1>3, SetToSeqIs
<1>6. \A i \in 1 .. Len(p) : p[i] \in S
  BY <1>5, ElementOfSeq
<1>7. \A i \in 1 .. Len(p) : /\ r[i].challenge = p[i] /\ r[i].user = u
                             /\ ~ r[i].done /\ ~ r[i].claimed /\ r[i] \in State
  BY <1>2, <1>4, <1>5, <1>6, Names DEF NewState, State
<1>8. r \in Seq(State) /\ DOMAIN r = 1 .. Len(p)
  BY <1>4, <1>5, <1>7
<1> QED
  BY <1>2, <1>6, <1>7, <1>8 DEF r

LEMMA NewUserIs ==
  ASSUME saveNewUserState
  PROVE  \E u \in Users : /\ late' = late \cup {u}
                          /\ states' = states \o LateStates(u) \/ states' = states
BY DEF saveNewUserState, LateStates

LEMMA saveNewUserStateShape ==
  ASSUME Shape, saveNewUserState
  PROVE  Shape'
<1>1. PICK u \in Users : /\ late' = late \cup {u}
                         /\ states' = states \o LateStates(u) \/ states' = states
  BY NewUserIs
<1>2. /\ states' \in Seq(State) /\ Grown(states, states')
      /\ \A s \in DOMAIN states' : states'[s].challenge \in DOMAIN challenges'
  <2>0. challenges' = challenges
    BY DEF saveNewUserState
  <2>1. CASE states' = states \o LateStates(u)
    <3> DEFINE new == LateStates(u)
    <3>1. new \in Seq(State) /\ \A i \in DOMAIN new : new[i].challenge \in DOMAIN challenges
      BY LateStatesAre
    <3>2. states' = states \o new
      BY <2>1
    <3> HIDE DEF new
    <3> QED
      BY <2>0, <3>1, <3>2, AddStates DEF Shape
  <2>2. CASE states' = states
    BY <2>0, <2>2, SameStates DEF Shape, DayTyped
  <2> QED
    BY <1>1, <2>1, <2>2
<1>3. UsersTyped' /\ TablesTyped'
  BY UsersKept DEF saveNewUserState
<1>4. DayTyped'
  BY <1>1, <1>2 DEF saveNewUserState, Shape, DayTyped
<1>5. job' = job /\ judged' = judged /\ DOMAIN states \subseteq DOMAIN states'
  BY <1>2 DEF saveNewUserState, Grown
<1> QED
  BY <1>2, <1>3, <1>4, <1>5, JobsSame, NotesSame DEF Shape

LEMMA StartClaimIs ==
  ASSUME NEW w \in Workers, StartClaim(w)
  PROVE  \E id \in DOMAIN states : /\ job' = [job EXCEPT ![w] = Begun("claim", "lock", <<id>>, TRUE)]
                                   /\ job[w] = Idle /\ states[id].done /\ ~ states[id].claimed
                                   /\ fair' = (fair /\ Claiming(id) = {})
<1>1. PICK id \in DOMAIN states : /\ IsClaimable(states[id]) /\ Begin(w, "claim", "lock", <<id>>, TRUE)
                                   /\ fair' = (fair /\ Claiming(id) = {})
  BY DEF StartClaim
<1>2. job' = [job EXCEPT ![w] = Begun("claim", "lock", <<id>>, TRUE)] /\ job[w] = Idle
  BY <1>1 DEF Begin, Begun
<1> QED
  BY <1>1, <1>2 DEF IsClaimable

LEMMA StartClaimShape ==
  ASSUME Shape, NEW w \in Workers, StartClaim(w)
  PROVE  Shape'
<1>1. PICK id \in DOMAIN states : job' = [job EXCEPT ![w] = Begun("claim", "lock", <<id>>, TRUE)]
                                  /\ job[w] = Idle /\ fair' = (fair /\ Claiming(id) = {})
  BY StartClaimIs
<1> DEFINE j == Begun("claim", "lock", <<id>>, TRUE)
<1>2. JobFits(w, j, DOMAIN states) /\ ~ Judging(j)
  <2>1. <<id>>[1] \in DOMAIN states
    OBVIOUS
  <2> QED
    BY <2>1, BegunFits
<1>3. UsersTyped' /\ TablesTyped'
  BY UsersKept DEF StartClaim
<1>4. DayTyped' /\ judged' = judged /\ states' = states
  BY <1>1 DEF StartClaim, Shape, DayTyped
<1>5. ~ Judging(job[w])
  BY <1>1 DEF Judging, Idle
<1> HIDE DEF j
<1> QED
  BY <1>1, <1>2, <1>3, <1>4, <1>5, SameStates, CallStep DEF j

\* The state that is claimed.
LEMMA ClaimIs ==
  ASSUME Shape, NEW w \in Workers, Claims(w)
  PROVE  /\ ClaimedState(w) \in DOMAIN states /\ states[ClaimedState(w)] \in State
         /\ Claimant(w) \in Users /\ ~ Judging(job[w])
<1>1. ClaimedState(w) \in DOMAIN states
  BY JobIs DEF Shape, CallFits, Claims, ClaimedState
<1>2. states[ClaimedState(w)] \in State
  BY <1>1, ElementOfSeq DEF Shape, DayTyped
<1> QED
  BY <1>1, <1>2 DEF Claimant, State, Judging, Claims

LEMMA LockClaimantShape ==
  ASSUME Shape, NEW w \in Workers, LockClaimant(w)
  PROVE  Shape'
<1> DEFINE j == Went(job[w], "pay", 1)
<1>1. JobFits(w, job[w], DOMAIN states) /\ job[w].op = "claim" /\ ~ Judging(job[w])
  BY JobIs DEF LockClaimant, Shape, Judging
<1>2. job' = [job EXCEPT ![w] = j]
  BY GoToIs DEF LockClaimant, Shape
<1>3. JobFits(w, j, DOMAIN states) /\ ~ Judging(j)
  BY <1>1, CallGoes
<1>4. UsersTyped' /\ TablesTyped'
  BY DEF LockClaimant, Take, Shape, UsersTyped, TablesTyped
<1> HIDE DEF j
<1> QED
  BY <1>1, <1>2, <1>3, <1>4, QuietShape DEF LockClaimant

LEMMA PaysIs ==
  ASSUME Shape, NEW w \in Workers, Claims(w), PayReward(w)
  PROVE  /\ states' \in Seq(State) /\ DOMAIN states' = DOMAIN states
         /\ \A s \in DOMAIN states : /\ states'[s].challenge = states[s].challenge
                                     /\ states'[s].user = states[s].user
                                     /\ states'[s].initial = states[s].initial
                                     /\ states'[s].final = states[s].final
                                     /\ states'[s].done = states[s].done
                                     /\ states'[s].claimed <=> (s = ClaimedState(w) \/ states[s].claimed)
<1> DEFINE c == ClaimedState(w)
           new == [states[c] EXCEPT !.claimed = TRUE]
<1>1. c \in DOMAIN states /\ states[c] \in State
  BY ClaimIs
<1>2. states' = [states EXCEPT ![c] = new]
  BY DEF PayReward
<1>3. states \in Seq(State)
  BY DEF Shape, DayTyped
<1>4. /\ new \in State /\ new.challenge = states[c].challenge /\ new.user = states[c].user
      /\ new.initial = states[c].initial /\ new.final = states[c].final /\ new.done = states[c].done
      /\ new.claimed = TRUE
  BY <1>1 DEF State
<1> HIDE DEF new, c
<1>5. states' \in Seq(State) /\ DOMAIN states' = DOMAIN states
  BY <1>1, <1>2, <1>3, <1>4, ExceptSeq
<1>6. \A s \in DOMAIN states : states'[s] = IF s = c THEN new ELSE states[s]
  BY <1>1, <1>2, <1>3
<1>7. \A s \in DOMAIN states : states[s].claimed \in BOOLEAN
  <2>1. \A s \in DOMAIN states : states[s] \in State
    BY <1>3, ElementOfSeq
  <2> QED
    BY <2>1 DEF State
<1> QED
  BY <1>4, <1>5, <1>6, <1>7 DEF c

LEMMA PaidUsers ==
  ASSUME Shape, NEW w \in Workers, Claims(w), Paid(w)
  PROVE  worth' \in [Users -> Nat]
BY ClaimIs, Names DEF Paid, Shape, UsersTyped

LEMMA PayRewardShape ==
  ASSUME Shape, NEW w \in Workers, PayReward(w)
  PROVE  Shape'
<1>1. Claims(w) /\ ~ Judging(job[w]) /\ Claimant(w) \in Users
  BY ClaimIs DEF PayReward, Claims
<1>2. worth' \in [Users -> Nat]
  BY <1>1, PaidUsers DEF PayReward
<1>3. rowWorth' \in [Users -> Nat]
  BY <1>1, <1>2 DEF PayReward, Shape, UsersTyped
<1>4. UsersTyped' /\ TablesTyped'
  BY <1>2, <1>3 DEF PayReward, GiveAll, Shape, UsersTyped, TablesTyped
<1>5. /\ states' \in Seq(State) /\ Grown(states, states') /\ DOMAIN states' = DOMAIN states
      /\ \A s \in DOMAIN states' : states'[s].challenge = states[s].challenge
  BY <1>1, PaysIs DEF Grown
<1>6. DayTyped'
  BY <1>5 DEF PayReward, Shape, DayTyped
<1>7. job' = [job EXCEPT ![w] = Idle] /\ judged' = judged
  BY DEF PayReward, Finish
<1> QED
  BY <1>1, <1>4, <1>5, <1>6, <1>7, IdleFits, CallStep

LEMMA PayFailsShape ==
  ASSUME Shape, NEW w \in Workers, PayFails(w)
  PROVE  Shape'
<1>1. Claims(w) /\ ~ Judging(job[w])
  BY ClaimIs DEF PayFails, Claims
<1>2. worth' \in [Users -> Nat]
  BY <1>1, PaidUsers DEF PayFails
<1>3. UsersTyped' /\ TablesTyped'
  BY <1>2 DEF PayFails, GiveAll, Shape, UsersTyped, TablesTyped
<1>4. DayTyped'
  BY DEF PayFails, Shape, DayTyped
<1>5. job' = [job EXCEPT ![w] = Idle] /\ judged' = judged /\ states' = states
  BY DEF PayFails, Finish
<1> QED
  BY <1>1, <1>3, <1>4, <1>5, IdleFits, SameStates, CallStep

LEMMA NextShape ==
  ASSUME Shape, ChallengesNext
  PROVE  Shape'
<1>1. CASE BoardNext /\ UNCHANGED challengeVars
  BY <1>1, BoardNextShape
<1>2. CASE SetMarketDay
  BY <1>2, SetMarketDayShape
<1>3. CASE saveNewUserState
  BY <1>3, saveNewUserStateShape
<1>4. ASSUME NEW w \in Workers, AdminStep(w) PROVE Shape'
  BY <1>4, SaveChallengeShape, CheckOpenShape, saveUsersStateShape, OpenFailsShape, CheckCloseShape,
     TakeJudgedShape, JudgeLostShape, JudgeStateShape, JudgeFailsShape, CommitJudgedShape,
     SetIsOpenShape DEF AdminStep
<1>5. ASSUME NEW w \in Workers, ClaimStep(w) PROVE Shape'
  BY <1>5, LockClaimantShape, PayRewardShape, PayFailsShape DEF ClaimStep
<1>6. ASSUME NEW w \in Workers, StartAdd(w) \/ Start(w, "open") \/ Start(w, "close") \/ StartClaim(w)
      PROVE  Shape'
  BY <1>6, StartAddShape, StartShape, StartClaimShape
<1> QED
  BY <1>1, <1>2, <1>3, <1>4, <1>5, <1>6 DEF ChallengesNext

LEMMA InitShape ==
  ASSUME ChallengesInit
  PROVE  Shape
<1>1. PICK k \in Kinds : challenges = <<[day |-> 1, kind |-> k]>>
  BY DEF ChallengesInit
<1>2. challenges \in Seq(Challenge) /\ states \in Seq(State) /\ DOMAIN states = {}
  BY <1>1 DEF Challenge, ChallengesInit
<1>3. DayTyped
  BY <1>2 DEF ChallengesInit, DayTyped
<1>4. UsersTyped /\ TablesTyped
  BY Names DEF ChallengesInit, BoardInit, NoWriter, UsersTyped, TablesTyped
<1>5. job = [w \in Everyone |-> Idle]
  BY DEF ChallengesInit, BoardInit
<1>6. JobsFit
  BY <1>5, IdleFits DEF JobsFit
<1>7. AllNotesFit
  BY <1>5, IdleFits DEF ChallengesInit, AllNotesFit, NotesFit
<1> QED
  BY <1>3, <1>4, <1>6, <1>7 DEF Shape

LEMMA StutterShape ==
  ASSUME Shape, UNCHANGED challengesVars
  PROVE  Shape'
<1>1. UsersTyped' /\ TablesTyped' /\ DayTyped'
  BY DEF challengesVars, Shape, UsersTyped, TablesTyped, DayTyped
<1>2. job' = job /\ judged' = judged /\ states' = states
  BY DEF challengesVars
<1> QED
  BY <1>1, <1>2, SameStates, JobsSame, NotesSame DEF Shape

------------------------------------------------------------------------------
(* Who steps *)

CallOps == {"add", "open", "close", "claim"}

LEMMA GoesOn ==
  ASSUME JobsFit, NEW w \in Everyone, NEW at, NEW i, GoTo(w, at, i)
  PROVE  /\ job'[w].op = job[w].op /\ job'[w].rows = job[w].rows /\ job'[w].at = at /\ job'[w].i = i
         /\ job'[w].whole = job[w].whole
         /\ \A v \in Everyone \ {w} : job'[v] = job[v]
BY DEF GoTo, JobsFit, JobFits, IsJob

LEMMA Ends ==
  ASSUME JobsFit, NEW w \in Everyone, Finish(w)
  PROVE  job'[w] = Idle /\ job'[w].op = "idle" /\ \A v \in Everyone \ {w} : job'[v] = job[v]
BY DEF Finish, JobsFit, Idle

LEMMA Begins ==
  ASSUME JobsFit, NEW w \in Everyone, NEW op, NEW at, NEW rows, NEW whole, Begin(w, op, at, rows, whole)
  PROVE  /\ job[w] = Idle /\ job[w].op = "idle"
         /\ job'[w] = [op |-> op, at |-> at, rows |-> rows, i |-> 1, whole |-> whole]
         /\ job'[w].op = op /\ job'[w].at = at /\ job'[w].rows = rows /\ job'[w].i = 1
         /\ \A v \in Everyone \ {w} : job'[v] = job[v]
BY DEF Begin, JobsFit, Idle

LEMMA GoesOnDaily ==
  ASSUME JobsFit, GoOnDaily
  PROVE  job'[Ticker] = Daily /\ job'[Ticker].op = "Daily" /\ \A v \in Workers : job'[v] = job[v]
BY Names DEF GoOnDaily, Daily, JobsFit, Idle

\* A step of the board leaves what the calls do alone.
CallsKept == \A v \in Workers : job'[v] = job[v] \/ (job[v].op \notin CallOps /\ job'[v].op \notin CallOps)

LEMMA OneKept ==
  ASSUME NEW w \in Everyone, \A v \in Everyone \ {w} : job'[v] = job[v],
         w \in Workers => job[w].op \notin CallOps /\ job'[w].op \notin CallOps
  PROVE  CallsKept
BY DEF CallsKept

LEMMA TableKeepsCalls ==
  ASSUME JobsFit, NEW w \in Everyone, TableStep(w)
  PROVE  CallsKept
<1>1. PICK t \in Tables : Truncate(w, t) \/ Fill(w, t) \/ FillFails(w, t)
  BY DEF TableStep
<1>2. job[w].op = t /\ t \notin CallOps
  BY <1>1 DEF Truncate, Fill, FillFails, CallOps
<1>3. \/ \E i : GoTo(w, "fill", i)
      \/ Finish(w)
      \/ t = "Leaderboard" /\ GoOnDaily
  BY <1>1 DEF Truncate, Fill, FillFails
<1>4. CASE \E i : GoTo(w, "fill", i)
  BY <1>2, <1>4, GoesOn, OneKept
<1>5. CASE Finish(w)
  BY <1>2, <1>5, Ends, OneKept DEF CallOps
<1>6. CASE t = "Leaderboard" /\ GoOnDaily
  BY <1>6, GoesOnDaily DEF CallsKept
<1> QED
  BY <1>3, <1>4, <1>5, <1>6

LEMMA TickerKeepsCalls ==
  ASSUME JobsFit, StartLeaderboard \/ TickerStep
  PROVE  CallsKept
<1>1. CASE TableStep(Ticker)
  BY <1>1, TableKeepsCalls
<1>2. CASE StartLeaderboard \/ TakeUser \/ TakeUserFails \/ SaveUser \/ SaveUserFails \/ StartDaily
  <2>1. \A v \in Workers : job'[v] = job[v]
    BY <1>2, Names DEF StartLeaderboard, TakeUser, TakeUserFails, SaveUser, SaveUserFails, StartDaily,
                       GoOnDaily, GoTo, JobsFit
  <2> QED
    BY <2>1 DEF CallsKept
<1> QED
  BY <1>1, <1>2 DEF TickerStep

LEMMA BoardKeepsCalls ==
  ASSUME JobsFit, BoardNext
  PROVE  CallsKept
<1>1. ASSUME NEW w \in Workers, StartTrade(w) PROVE CallsKept
  <2>1. PICK u \in Users, v \in Users : Begin(w, "trade", "lock", <<u, v>>, TRUE)
    BY <1>1 DEF StartTrade
  <2>2. job[w].op = "idle" /\ job'[w].op = "trade" /\ \A x \in Everyone \ {w} : job'[x] = job[x]
    BY <2>1, Begins
  <2> QED
    BY <2>2, OneKept DEF CallOps
<1>2. ASSUME NEW w \in Workers, StartEndOfDay(w) PROVE CallsKept
  <2>1. Begin(w, "EndOfDay", "truncate", board["Leaderboard"], Whole("Leaderboard"))
    BY <1>2 DEF StartEndOfDay
  <2>2. job[w].op = "idle" /\ job'[w].op = "EndOfDay" /\ \A x \in Everyone \ {w} : job'[x] = job[x]
    BY <2>1, Begins
  <2> QED
    BY <2>2, OneKept DEF CallOps
<1>3. ASSUME NEW w \in Workers, TradeStep(w) PROVE CallsKept
  <2>1. job[w].op = "trade" /\ (Finish(w) \/ GoTo(w, "save", 1) \/ GoTo(w, "lock", 2))
    BY <1>3 DEF TradeStep, LockUser, SaveTrade, TradeFails
  <2>2. job'[w].op \in {"trade", "idle"} /\ \A v \in Everyone \ {w} : job'[v] = job[v]
    BY <2>1, Ends, GoesOn
  <2> QED
    BY <2>1, <2>2, OneKept DEF CallOps
<1>4. ASSUME NEW w \in Workers, TableStep(w) PROVE CallsKept
  BY <1>4, TableKeepsCalls
<1> QED
  BY <1>1, <1>2, <1>3, <1>4, TickerKeepsCalls DEF BoardNext

\* A call steps: the others do not, and it stays the call that it is until it ends.
LEMMA AdminSteps ==
  ASSUME JobsFit, NEW w \in Workers, AdminStep(w) \/ ClaimStep(w)
  PROVE  /\ job[w].op \in CallOps /\ (job'[w].op = job[w].op \/ job'[w] = Idle)
         /\ \A v \in Everyone \ {w} : job'[v] = job[v]
         /\ job[w].op = "claim" <=> ClaimStep(w)
         /\ job'[w].op \in {"open", "claim"} => job'[w].rows = job[w].rows
<1>1. ASSUME AdminStep(w)
      PROVE  /\ job[w].op \in {"add", "open", "close"}
             /\ \/ CheckClose(w) /\ ~ Finish(w)
                \/ Finish(w)
                \/ \E at, i : GoTo(w, at, i)
  BY <1>1 DEF AdminStep, SaveChallenge, CheckOpen, saveUsersState, OpenFails, CheckClose, TakeJudged, JudgeLost,
              JudgeState, JudgeFails, CommitJudged, SetIsDailyChallengeOpen
<1>2. ASSUME ClaimStep(w) PROVE job[w].op = "claim" /\ (Finish(w) \/ \E at, i : GoTo(w, at, i))
  BY <1>2 DEF ClaimStep, LockClaimant, PayReward, PayFails
<1>3. ASSUME CheckClose(w), ~ Finish(w)
      PROVE  job[w].op = "close" /\ job'[w].op = "close" /\ \A v \in Everyone \ {w} : job'[v] = job[v]
  <2>1. job' = [job EXCEPT ![w] = Listed(job[w], SetToSeq(StatesOf(job[w].rows[1])))]
    BY <1>3, CheckCloseIs
  <2>2. Listed(job[w], SetToSeq(StatesOf(job[w].rows[1]))).op = job[w].op
    BY JobIs DEF Listed, IsJob
  <2> QED
    BY <1>3, <2>1, <2>2 DEF CheckClose, JobsFit
<1>4. ASSUME AdminStep(w) \/ ClaimStep(w)
      PROVE  /\ (job'[w].op = job[w].op \/ job'[w] = Idle)
             /\ \A v \in Everyone \ {w} : job'[v] = job[v]
             /\ job'[w].op \in {"open", "claim"} => job'[w].rows = job[w].rows
  <2>1. CASE Finish(w)
    BY <2>1, Ends
  <2>2. CASE \E at, i : GoTo(w, at, i)
    BY <2>2, GoesOn
  <2> QED
    BY <1>1, <1>2, <1>3, <1>4, <2>1, <2>2
<1> QED
  BY <1>1, <1>2, <1>4 DEF CallOps

------------------------------------------------------------------------------
(* The money *)

WritersRight == \A u \in Users : writer[u].tx # Free => writer[u].worth = worth[u]

LEMMA ClaimedTyped ==
  ASSUME Shape
  PROVE  IsFiniteSet(Claimed) /\ Cardinality(Claimed) \in Nat /\ Claimed \subseteq DOMAIN states
<1>1. IsFiniteSet(1 .. Len(states)) /\ Claimed \subseteq 1 .. Len(states) /\ Claimed \subseteq DOMAIN states
  <2>1. DOMAIN states = 1 .. Len(states) /\ Len(states) \in Nat
    BY DEF Shape, DayTyped
  <2> QED
    BY <2>1, FS_Interval DEF Claimed
<1> QED
  BY <1>1, FS_Subset, FS_CardinalityType

\* A step that moves no money, claims nothing and begins no claim.
LEMMA MoneyKept ==
  ASSUME Shape, Money, fair' => fair, worth' = worth, fair => rowWorth' = rowWorth,
         fair => \A u \in Users : writer'[u].tx # Free => writer'[u].worth = worth[u],
         DOMAIN states \subseteq DOMAIN states',
         \A s \in DOMAIN states : states'[s].claimed <=> states[s].claimed,
         \A s \in DOMAIN states' \ DOMAIN states : ~ states'[s].claimed,
         \A v \in Workers : job'[v].op = "claim" => job[v].op = "claim" /\ job'[v].rows = job[v].rows
  PROVE  Money'
<1>1. Claimed' = Claimed
  BY DEF Claimed
<1> SUFFICES ASSUME fair' PROVE Money'
  BY DEF Money
<1>2. rowWorth = worth /\ Total(worth) = AllMoney
  BY DEF Money
<1>3. rowWorth' = worth' /\ Total(worth') = AllMoney'
  BY <1>1, <1>2 DEF AllMoney
<1>4. ASSUME NEW v \in Workers, Claims(v)'
      PROVE  /\ Claims(v) /\ ClaimedState(v)' = ClaimedState(v) /\ ClaimedState(v) \in DOMAIN states
             /\ ~ states'[ClaimedState(v)].claimed
  <2>1. Claims(v) /\ ClaimedState(v)' = ClaimedState(v)
    BY <1>4 DEF Claims, ClaimedState
  <2>2. ClaimedState(v) \in DOMAIN states /\ ~ states[ClaimedState(v)].claimed
    BY <2>1, ClaimIs DEF Money
  <2> QED
    BY <2>1, <2>2
<1>5. \A v, w \in Workers : Claims(v)' /\ Claims(w)' /\ ClaimedState(v)' = ClaimedState(w)' => v = w
  BY <1>4 DEF Money
<1>6. \A u \in Users : writer'[u].tx # Free => writer'[u].worth = worth'[u]
  OBVIOUS
<1>7. \A v \in Workers : Claims(v)' => ~ states'[ClaimedState(v)'].claimed
  BY <1>4
<1> QED
  BY <1>3, <1>5, <1>6, <1>7 DEF Money

\* The claims of a step of the board.
LEMMA BoardClaims ==
  ASSUME JobsFit, BoardNext
  PROVE  \A v \in Workers : job'[v].op = "claim" => job[v].op = "claim" /\ job'[v].rows = job[v].rows
BY BoardKeepsCalls DEF CallsKept, CallOps

\* Two users trade: one gains what the other loses.
LEMMA TradeTotal ==
  ASSUME NEW f \in [Users -> Nat], NEW u \in Users, NEW v \in Users, u # v,
         NEW g, g = [f EXCEPT ![u] = @ - 1, ![v] = @ + 1]
  PROVE  Total(g) = Total(f)
<1> DEFINE h == [f EXCEPT ![u] = @ - 1]
<1>1. \A x \in Users : f[x] \in Int /\ h[x] \in Int /\ g[x] \in Int
  OBVIOUS
<1>2. (\A x \in Users \ {u} : f[x] = h[x]) /\ (\A x \in Users \ {v} : h[x] = g[x])
  OBVIOUS
<1>3. h[u] = f[u] - 1 /\ g[v] = h[v] + 1
  OBVIOUS
<1> HIDE DEF h
<1>4. SumFunctionOnSet(h, Users) = SumFunctionOnSet(f, Users) - f[u] + h[u]
  BY <1>1, <1>2, Names, SumChange
<1>5. SumFunctionOnSet(g, Users) = SumFunctionOnSet(h, Users) - h[v] + g[v]
  <2>1. IsFiniteSet(Users) /\ (\A x \in Users : h[x] \in Int /\ g[x] \in Int)
    BY <1>1, Names
  <2>2. \A x \in Users \ {v} : h[x] = g[x]
    BY <1>2
  <2> QED
    BY ONLY <2>1, <2>2, SumChange
<1>6. SumFunctionOnSet(f, Users) \in Int /\ SumFunctionOnSet(h, Users) \in Int
  BY <1>1, Names, SumInt
<1> QED
  BY <1>1, <1>3, <1>4, <1>5, <1>6 DEF Total

LEMMA SaveTradeMoney ==
  ASSUME Shape, Money, NEW w \in Workers, SaveTrade(w), UNCHANGED challengeVars
  PROVE  Money'
<1> SUFFICES ASSUME fair' PROVE Money'
  BY DEF Money
<1>1. PICK u \in Users, v \in Users :
        /\ u # v /\ RowFree(w, u) /\ RowFree(w, v)
        /\ worth' = [worth EXCEPT ![u] = @ - 1, ![v] = @ + 1]
        /\ rowWorth' = [rowWorth EXCEPT ![u] = worth'[u], ![v] = worth'[v]]
        /\ writer' = writer /\ Finish(w)
  BY DEF SaveTrade
<1>2. fair /\ rowWorth = worth /\ Total(worth) = AllMoney /\ worth \in [Users -> Nat]
  BY DEF Money, Shape, UsersTyped
<1>3. rowWorth' = worth'
  BY <1>1, <1>2
<1>4. Total(worth') = Total(worth)
  <2>1. u # v /\ worth' = [worth EXCEPT ![u] = @ - 1, ![v] = @ + 1] /\ worth \in [Users -> Nat]
    BY <1>1, <1>2
  <2> QED
    BY <2>1, TradeTotal, ZenonT(60)
<1>5. AllMoney' = AllMoney
  BY DEF AllMoney, Claimed
<1>6. writer[u].tx = Free /\ writer[v].tx = Free
  BY <1>1, Names DEF RowFree, Shape, UsersTyped
<1>7. \A x \in Users : writer'[x].tx # Free => writer'[x].worth = worth'[x]
  BY <1>1, <1>2, <1>6 DEF Money
<1>8. \A x \in Workers : Claims(x)' => Claims(x) /\ ClaimedState(x)' = ClaimedState(x)
  BY <1>1, Ends DEF Shape, Claims, ClaimedState
<1>9. /\ \A x \in Workers : Claims(x)' => ~ states'[ClaimedState(x)'].claimed
      /\ \A x, y \in Workers : Claims(x)' /\ Claims(y)' /\ ClaimedState(x)' = ClaimedState(y)' => x = y
  BY <1>2, <1>8 DEF Money
<1> QED
  BY <1>2, <1>3, <1>4, <1>5, <1>7, <1>9 DEF Money

LEMMA BoardMoney ==
  ASSUME Shape, Money, BoardNext, UNCHANGED challengeVars
  PROVE  Money'
<1>1. /\ fair' => fair
      /\ DOMAIN states \subseteq DOMAIN states'
      /\ \A s \in DOMAIN states : states'[s].claimed <=> states[s].claimed
      /\ \A s \in DOMAIN states' \ DOMAIN states : ~ states'[s].claimed
  OBVIOUS
<1>2. \A v \in Workers : job'[v].op = "claim" => job[v].op = "claim" /\ job'[v].rows = job[v].rows
  BY BoardClaims DEF Shape
<1>3. ASSUME worth' = worth, rowWorth' = rowWorth, writer' = writer PROVE Money'
  BY <1>1, <1>2, <1>3, MoneyKept DEF Money
<1>4. ASSUME worth' = worth, fair => rowWorth' = rowWorth,
             fair => \A u \in Users : writer'[u].tx # Free => writer'[u].worth = worth[u]
      PROVE  Money'
  BY <1>1, <1>2, <1>4, MoneyKept
<1>5. ASSUME NEW w \in Everyone, NEW t \in Tables, Truncate(w, t) PROVE Money'
  <2>1. worth' = worth
    BY <1>5 DEF Truncate
  <2>2. w # Free /\ w \in Everyone
    BY Names
  <2>3. ASSUME fair PROVE rowWorth' = rowWorth
    <3>1. \A u \in Users : rowWorth'[u] = rowWorth[u]
      BY <1>5, <2>2, <2>3 DEF Truncate, Money
    <3>2. rowWorth' = [u \in Users |-> rowWorth'[u]] /\ rowWorth = [u \in Users |-> rowWorth[u]]
      BY <1>5 DEF Truncate, Shape, UsersTyped
    <3> QED
      BY <3>1, <3>2
  <2>4. ASSUME fair PROVE \A u \in Users : writer'[u].tx # Free => writer'[u].worth = worth[u]
    BY <1>5, <2>4 DEF Truncate, Released, NoWriter, Money
  <2> QED
    BY <2>1, <2>3, <2>4, <1>4
<1>6. ASSUME NEW w \in Everyone, TableStep(w) PROVE Money'
  <2>1. PICK t \in Tables : Truncate(w, t) \/ Fill(w, t) \/ FillFails(w, t)
    BY <1>6 DEF TableStep
  <2> QED
    BY <2>1, <1>3, <1>5 DEF Fill, FillFails
<1>7. CASE TakeUserFails
  <2>1. \A u \in Users : writer'[u].tx # Free => writer[u].tx # Free /\ writer'[u].worth = writer[u].worth
    BY <1>7, Names DEF TakeUserFails, Shape, UsersTyped
  <2>2. fair => \A u \in Users : writer'[u].tx # Free => writer'[u].worth = worth[u]
    BY <2>1 DEF Money
  <2> QED
    BY <1>7, <2>2, <1>4 DEF TakeUserFails
<1>8. CASE SaveUser
  <2>1. Next1 \in Users
    BY <1>8, TickerRow DEF SaveUser, Shape
  <2>2. fair => \A u \in Users : writer'[u].tx # Free => writer'[u].worth = worth[u]
    BY <1>8, <2>1 DEF SaveUser, Shape, UsersTyped, Money
  <2> QED
    BY <1>8, <2>2, <1>4 DEF SaveUser
<1>9. CASE SaveUserFails
  <2>1. fair => \A u \in Users : writer'[u].tx # Free => writer'[u].worth = worth[u]
    BY <1>9 DEF SaveUserFails, Released, NoWriter, Money
  <2> QED
    BY <1>9, <2>1, <1>4 DEF SaveUserFails
<1>10. CASE TickerStep
  <2>1. CASE TakeUser \/ StartDaily
    BY <2>1, <1>3 DEF TakeUser, StartDaily
  <2>2. CASE TableStep(Ticker)
    BY <2>2, <1>6
  <2> QED
    BY <1>7, <1>8, <1>9, <1>10, <2>1, <2>2 DEF TickerStep
<1>11. ASSUME NEW w \in Workers, StartTrade(w) \/ StartEndOfDay(w) \/ TradeStep(w) \/ TableStep(w)
       PROVE  Money'
  <2>1. CASE StartTrade(w) \/ StartEndOfDay(w) \/ LockUser(w) \/ TradeFails(w)
    BY <2>1, <1>3 DEF StartTrade, StartEndOfDay, LockUser, TradeFails
  <2>2. CASE TableStep(w)
    BY <2>2, <1>6
  <2>3. CASE SaveTrade(w)
    BY <2>3, SaveTradeMoney
  <2> QED
    BY <1>11, <2>1, <2>2, <2>3 DEF TradeStep
<1>12. CASE StartLeaderboard
  BY <1>12, <1>3 DEF StartLeaderboard
<1> QED
  BY <1>10, <1>11, <1>12 DEF BoardNext

\* A step of the calls that moves no money, claims nothing and begins no claim.
LEMMA CallMoney ==
  ASSUME Shape, Money, fair' => fair, worth' = worth, rowWorth' = rowWorth, writer' = writer,
         DOMAIN states \subseteq DOMAIN states',
         \A s \in DOMAIN states : states'[s].claimed <=> states[s].claimed,
         \A s \in DOMAIN states' \ DOMAIN states : ~ states'[s].claimed,
         \A v \in Workers : job'[v].op = "claim" => job[v].op = "claim" /\ job'[v].rows = job[v].rows
  PROVE  Money'
BY MoneyKept DEF Money

\* The same, with the same states.
LEMMA SameMoney ==
  ASSUME Shape, Money, fair' => fair, worth' = worth, rowWorth' = rowWorth, writer' = writer,
         states' = states,
         \A v \in Workers : job'[v].op = "claim" => job[v].op = "claim" /\ job'[v].rows = job[v].rows
  PROVE  Money'
BY CallMoney

LEMMA AdminClaims ==
  ASSUME Shape, NEW w \in Workers, AdminStep(w) \/ ClaimStep(w)
  PROVE  \A v \in Workers : job'[v].op = "claim" => job[v].op = "claim" /\ job'[v].rows = job[v].rows
<1>1. Idle.op = "idle"
  BY IdleFits
<1> QED
  BY <1>1, AdminSteps DEF Shape

LEMMA AdminMoney ==
  ASSUME Shape, Money, NEW w \in Workers, AdminStep(w)
  PROVE  Money'
<1>1. \A v \in Workers : job'[v].op = "claim" => job[v].op = "claim" /\ job'[v].rows = job[v].rows
  BY AdminClaims
<1>2. CASE saveUsersState(w)
  <2> DEFINE new == NewStates(job[w].rows[1])
  <2>1. states' = states \o new /\ challenges' = challenges
    BY <1>2 DEF saveUsersState, NewStates
  <2>2. /\ new \in Seq(State) /\ \A i \in DOMAIN new : new[i].challenge \in DOMAIN challenges
        /\ \A i \in DOMAIN new : ~ new[i].claimed
    BY NewStatesAre DEF Of
  <2> HIDE DEF new
  <2>3. /\ DOMAIN states \subseteq DOMAIN states'
        /\ \A s \in DOMAIN states : states'[s] = states[s]
        /\ \A s \in DOMAIN states' \ DOMAIN states : ~ states'[s].claimed
    BY <2>1, <2>2, AddStates DEF Shape
  <2> QED
    BY <1>1, <1>2, <2>3, CallMoney DEF saveUsersState
<1>3. CASE CommitJudged(w)
  <2>1. CASE GoTo(w, "flag", 1)
    <3>1. DOMAIN states' = DOMAIN states /\ \A s \in DOMAIN states : states'[s].claimed = states[s].claimed
      BY <1>3, <2>1, CommitIs
    <3> QED
      BY <1>1, <1>3, <3>1, CallMoney DEF CommitJudged
  <2>2. CASE states' = states
    BY <1>1, <1>3, <2>2, SameMoney DEF CommitJudged
  <2> QED
    BY <1>3, <2>1, <2>2, CommitCases
<1>4. CASE SaveChallenge(w) \/ CheckOpen(w) \/ OpenFails(w) \/ CheckClose(w)
           \/ \E op \in {"open", "close"} : SetIsDailyChallengeOpen(w, op)
  BY <1>1, <1>4, SameMoney DEF SaveChallenge, CheckOpen, OpenFails, CheckClose, SetIsDailyChallengeOpen
<1>5. CASE TakeJudged(w) \/ JudgeLost(w) \/ JudgeState(w) \/ JudgeFails(w)
  BY <1>1, <1>5, SameMoney DEF TakeJudged, JudgeLost, JudgeState, JudgeFails
<1> QED
  BY <1>2, <1>3, <1>4, <1>5 DEF AdminStep

\* A claim begins: nobody else claims the same reward.
LEMMA StartClaimMoney ==
  ASSUME Shape, Money, NEW w \in Workers, StartClaim(w)
  PROVE  Money'
<1> SUFFICES ASSUME fair' PROVE Money'
  BY DEF Money
<1>1. PICK id \in DOMAIN states : /\ job' = [job EXCEPT ![w] = Begun("claim", "lock", <<id>>, TRUE)]
                                  /\ ~ states[id].claimed /\ fair /\ Claiming(id) = {}
  BY StartClaimIs
<1>2. Claims(w)' /\ ClaimedState(w)' = id
  BY <1>1 DEF Shape, JobsFit, Claims, ClaimedState, Begun
<1>3. \A v \in Workers \ {w} : job'[v] = job[v]
  BY <1>1 DEF Shape, JobsFit
<1>4. \A v \in Workers \ {w} : Claims(v)' => Claims(v) /\ ClaimedState(v)' = ClaimedState(v) /\ ClaimedState(v) # id
  BY <1>1, <1>3 DEF Claims, ClaimedState, Claiming
<1>5. rowWorth' = worth' /\ Total(worth') = AllMoney'
  BY <1>1 DEF StartClaim, Money, AllMoney, Claimed
<1>6. \A u \in Users : writer'[u].tx # Free => writer'[u].worth = worth'[u]
  BY <1>1 DEF StartClaim, Money
<1>7. states' = states
  BY DEF StartClaim
<1>8. \A v \in Workers : Claims(v)' => ~ states'[ClaimedState(v)'].claimed
  BY <1>1, <1>2, <1>4, <1>7 DEF Money
<1>9. \A v, x \in Workers : Claims(v)' /\ Claims(x)' /\ ClaimedState(v)' = ClaimedState(x)' => v = x
  BY <1>1, <1>2, <1>4 DEF Money
<1> QED
  BY <1>5, <1>6, <1>8, <1>9 DEF Money

LEMMA PayRewardMoney ==
  ASSUME Shape, Money, NEW w \in Workers, PayReward(w)
  PROVE  Money'
<1> SUFFICES ASSUME fair' PROVE Money'
  BY DEF Money
<1> DEFINE c == ClaimedState(w)
           u == Claimant(w)
<1>0. Claims(w)
  BY DEF PayReward, Claims
<1>1. /\ fair /\ rowWorth = worth /\ Total(worth) = AllMoney /\ c \in DOMAIN states \ Claimed
      /\ u \in Users /\ worth \in [Users -> Nat]
  BY <1>0, ClaimIs DEF PayReward, Money, Claimed, Shape, UsersTyped
<1>2. /\ worth' = [worth EXCEPT ![u] = @ + Reward] /\ rowWorth' = [rowWorth EXCEPT ![u] = worth'[u]]
      /\ writer' = writer
  BY DEF PayReward, Paid
<1>3. DOMAIN states' = DOMAIN states
      /\ \A s \in DOMAIN states : states'[s].claimed <=> (s = c \/ states[s].claimed)
  BY <1>0, PaysIs
<1>3a. writer[u].tx = Free
  <2>1. RowFree(w, u)
    BY DEF PayReward, PayFree
  <2> QED
    BY <1>1, <2>1, Names DEF RowFree, Shape, UsersTyped
<1>3b. \A x \in Workers : Claims(x)' => x # w /\ Claims(x) /\ ClaimedState(x)' = ClaimedState(x)
  BY Ends DEF PayReward, Shape, Claims, ClaimedState
<1> HIDE DEF c, u
<1>4. Claimed' = Claimed \cup {c}
  BY <1>1, <1>3 DEF Claimed
<1>5. rowWorth' = worth'
  BY <1>1, <1>2
<1>6. SumFunctionOnSet(worth', Users) = SumFunctionOnSet(worth, Users) - worth[u] + worth'[u]
  <2>1. \A x \in Users : worth[x] \in Int /\ worth'[x] \in Int
    BY <1>1, <1>2, Names
  <2>2. \A x \in Users \ {u} : worth[x] = worth'[x]
    BY <1>1, <1>2
  <2>3. u \in Users /\ IsFiniteSet(Users)
    BY <1>1, Names
  <2> QED
    BY ONLY <2>1, <2>2, <2>3, SumChange
<1>7. worth'[u] = worth[u] + Reward /\ worth[u] \in Int
  BY <1>1, <1>2
<1>8. Total(worth') = AllMoney'
  <2> DEFINE n == Cardinality(Claimed)
  <2>1. n \in Nat /\ IsFiniteSet(Claimed)
    BY ClaimedTyped
  <2>2. Cardinality(Claimed \cup {c}) = n + 1
    BY <1>1, <2>1, FS_AddElement
  <2> HIDE DEF n
  <2>3. Reward * (n + 1) = Reward * n + Reward /\ Reward * n \in Int
    BY <2>1, Names, TimesNext
  <2>4. Cardinality(Users) * StartWorth \in Int
    BY Names
  <2>5. AllMoney = Cardinality(Users) * StartWorth + Reward * n
    BY DEF AllMoney, n
  <2>6. AllMoney' = Cardinality(Users) * StartWorth + Reward * (n + 1)
    BY <1>4, <2>2 DEF AllMoney
  <2>7. SumFunctionOnSet(worth, Users) = AllMoney
    BY <1>1 DEF Total
  <2>8. SumFunctionOnSet(worth', Users) = AllMoney + Reward
    BY <1>6, <1>7, <2>3, <2>4, <2>5, <2>7, Names
  <2> QED
    BY <2>3, <2>4, <2>5, <2>6, <2>8, Names DEF Total
<1>9. \A x \in Users : writer'[x].tx # Free => writer'[x].worth = worth'[x]
  BY <1>1, <1>2, <1>3a DEF Money
<1>10. \A x \in Workers : Claims(x)' => ~ states'[ClaimedState(x)'].claimed
  <2> TAKE x \in Workers
  <2> HAVE Claims(x)'
  <2>1. x # w /\ Claims(x) /\ ClaimedState(x)' = ClaimedState(x)
    BY <1>3b
  <2>2. ClaimedState(x) \in DOMAIN states /\ ~ states[ClaimedState(x)].claimed /\ ClaimedState(x) # c
    BY <1>0, <1>1, <2>1, ClaimIs DEF Money, c
  <2> QED
    BY <1>3, <2>1, <2>2
<1>11. \A x, y \in Workers : Claims(x)' /\ Claims(y)' /\ ClaimedState(x)' = ClaimedState(y)' => x = y
  BY <1>1, <1>3b DEF Money
<1> QED
  BY <1>5, <1>8, <1>9, <1>10, <1>11 DEF Money

LEMMA NextMoney ==
  ASSUME Shape, Money, ChallengesNext
  PROVE  Money'
<1>1. CASE BoardNext /\ UNCHANGED challengeVars
  BY <1>1, BoardMoney
<1>2. CASE SetMarketDay
  BY <1>2, SameMoney DEF SetMarketDay
<1>3. CASE saveNewUserState
  <2>0. (fair' => fair) /\ worth' = worth /\ rowWorth' = rowWorth /\ writer' = writer
    <3>1. UNCHANGED <<users, fair>>
      BY <1>3 DEF saveNewUserState
    <3> QED
      BY <3>1 DEF users
  <2>1. PICK u \in Users : states' = states \o LateStates(u) \/ states' = states
    BY <1>3, NewUserIs
  <2>2. \A v \in Workers : job'[v].op = "claim" => job[v].op = "claim" /\ job'[v].rows = job[v].rows
    BY <1>3 DEF saveNewUserState
  <2>3. CASE states' = states \o LateStates(u)
    <3> DEFINE new == LateStates(u)
    <3>1. /\ new \in Seq(State) /\ \A i \in DOMAIN new : new[i].challenge \in DOMAIN challenges
          /\ \A i \in DOMAIN new : ~ new[i].claimed
      BY LateStatesAre
    <3>2. states' = states \o new /\ challenges' = challenges
      BY <1>3, <2>3 DEF saveNewUserState
    <3> HIDE DEF new
    <3>3. /\ DOMAIN states \subseteq DOMAIN states'
          /\ \A s \in DOMAIN states : states'[s] = states[s]
          /\ \A s \in DOMAIN states' \ DOMAIN states : ~ states'[s].claimed
      BY <3>1, <3>2, AddStates DEF Shape
    <3> QED
      BY <2>0, <2>2, <3>3, CallMoney
  <2>4. CASE states' = states
    BY <2>0, <2>2, <2>4, SameMoney
  <2> QED
    BY <2>1, <2>3, <2>4
<1>4. ASSUME NEW w \in Workers, AdminStep(w) PROVE Money'
  BY <1>4, AdminMoney
<1>5. ASSUME NEW w \in Workers, LockClaimant(w) PROVE Money'
  <2>1. \A v \in Workers : job'[v].op = "claim" => job[v].op = "claim" /\ job'[v].rows = job[v].rows
    BY <1>5, AdminClaims DEF ClaimStep
  <2> QED
    BY <1>5, <2>1, SameMoney DEF LockClaimant
<1>6. ASSUME NEW w \in Workers, PayFails(w) PROVE Money'
  BY <1>6 DEF PayFails, Money
<1>7. ASSUME NEW w \in Workers, StartAdd(w) PROVE Money'
  <2>1. PICK d \in 1 .. MaxDay, k \in Kinds : Begin(w, "add", "save", <<[day |-> d, kind |-> k]>>, TRUE)
    BY <1>7 DEF StartAdd
  <2>2. job'[w].op = "add" /\ \A v \in Everyone \ {w} : job'[v] = job[v]
    <3>1. JobsFit /\ w \in Everyone
      BY DEF Shape, Everyone
    <3> QED
      BY <2>1, <3>1, Begins, ZenonT(60)
  <2>3. \A v \in Workers : job'[v].op = "claim" => job[v].op = "claim" /\ job'[v].rows = job[v].rows
    BY <2>2
  <2> QED
    BY <1>7, <2>3, SameMoney DEF StartAdd
<1>8. ASSUME NEW w \in Workers, NEW op \in {"open", "close"}, Start(w, op) PROVE Money'
  <2>1. Begin(w, op, "check", <<day>>, TRUE)
    BY <1>8 DEF Start
  <2>2. job'[w].op = op /\ \A v \in Everyone \ {w} : job'[v] = job[v]
    BY <2>1, Begins DEF Shape
  <2>3. \A v \in Workers : job'[v].op = "claim" => job[v].op = "claim" /\ job'[v].rows = job[v].rows
    BY <2>2
  <2> QED
    BY <1>8, <2>3, SameMoney DEF Start
<1>9. ASSUME NEW w \in Workers, ClaimStep(w) PROVE Money'
  BY <1>5, <1>6, <1>9, PayRewardMoney DEF ClaimStep
<1> QED
  BY <1>1, <1>2, <1>3, <1>4, <1>7, <1>8, <1>9, StartClaimMoney DEF ChallengesNext

LEMMA InitMoney ==
  ASSUME ChallengesInit
  PROVE  Money
<1>1. /\ worth = [u \in Users |-> StartWorth] /\ rowWorth = worth /\ states = <<>>
      /\ \A u \in Users : writer[u].tx = Free
      /\ \A w \in Workers : job[w].op = "idle"
  BY DEF ChallengesInit, BoardInit, NoWriter, Idle
<1>2. Claimed = {} /\ Cardinality(Claimed) = 0
  BY <1>1, FS_EmptySet DEF Claimed
<1>3. SumFunctionOnSet(worth, Users) = Cardinality(Users) * StartWorth
  <2>1. \A u \in Users : worth[u] = StartWorth
    BY <1>1
  <2> QED
    BY <2>1, Names, SumEqual
<1>4. Total(worth) = AllMoney
  <2>1. Cardinality(Users) * StartWorth \in Int /\ Reward * 0 = 0
    BY Names
  <2> QED
    BY <1>2, <1>3, <2>1 DEF Total, AllMoney
<1> QED
  BY <1>1, <1>4 DEF Money, Claims

LEMMA StutterMoney ==
  ASSUME Shape, Money, UNCHANGED challengesVars
  PROVE  Money'
BY SameMoney DEF challengesVars

------------------------------------------------------------------------------
(* The day *)

\* A goroutine that goes from j to k begins no call and leaves none that has written: a
\* call of its own it goes on with, or ends before it sets the flag.
Quiet(j, k) ==
  /\ k.op \in CallOps => k.op = j.op /\ k.rows = j.rows
  /\ k.op \in {"open", "close"} => k.at = j.at \/ (Judging(j) /\ Judging(k))
  /\ j.op \in {"open", "close"} /\ j.at = "flag" => k = j
AllQuiet == \A v \in Workers : Quiet(job[v], job'[v])

LEMMA QuietSame ==
  ASSUME NEW j
  PROVE  Quiet(j, j)
BY DEF Quiet

LEMMA QuietAll ==
  ASSUME NEW w \in Workers, \A v \in Workers \ {w} : job'[v] = job[v], Quiet(job[w], job'[w])
  PROVE  AllQuiet
BY QuietSame DEF AllQuiet

LEMMA QuietFacts ==
  ASSUME AllQuiet, NEW v \in Workers
  PROVE  /\ Calls(v)' => Calls(v)
         /\ At(v, "open", "save")' => At(v, "open", "save")
         /\ At(v, "open", "flag")' <=> At(v, "open", "flag")
         /\ At(v, "close", "flag")' <=> At(v, "close", "flag")
         /\ At(v, "close", "check")' => At(v, "close", "check")
         /\ Judging(job[v])' => Judging(job[v])
         /\ job'[v].op \in CallOps => job'[v].op = job[v].op /\ job'[v].rows = job[v].rows
BY DEF AllQuiet, Quiet, Calls, Judging, CallOps

\* Goroutines go on, and nothing of the day changes.
LEMMA DayKept ==
  ASSUME DayRight, AllQuiet, day' = day, isOpen' = isOpen, challenges' = challenges, states' = states,
         opened' = opened, late' = late
  PROVE  DayRight'
<1>1. OneCall'
  BY QuietFacts DEF DayRight, OneCall
<1>2. DaysPass'
  <2>1. (\A d \in opened' : d <= day') /\ (isOpen' => day' \in opened')
    BY DEF DayRight, DaysPass
  <2>2. ASSUME NEW w \in Workers, job'[w].op = "add" PROVE \A i \in DOMAIN job'[w].rows : job'[w].rows[i].day > day'
    BY <2>2, QuietFacts DEF DayRight, DaysPass, CallOps
  <2>3. ASSUME NEW w \in Workers, job'[w].op = "open" \/ At(w, "close", "check")' PROVE job'[w].rows[1] = day'
    BY <2>3, QuietFacts DEF DayRight, DaysPass, CallOps
  <2>4. ASSUME NEW w \in Workers, At(w, "open", "save")' \/ At(w, "open", "flag")'
        PROVE  ~ isOpen' /\ day' \notin opened'
    BY <2>4, QuietFacts DEF DayRight, DaysPass
  <2>5. ASSUME NEW w \in Workers, Judging(job[w])' \/ At(w, "close", "flag")' PROVE isOpen'
    BY <2>5, QuietFacts DEF DayRight, DaysPass
  <2> QED
    BY <2>1, <2>2, <2>3, <2>4, <2>5 DEF DaysPass
<1>3. \A d : Saved(d)' <=> Saved(d)
  BY QuietFacts DEF Saved, SavesDay
<1>4. \A d : Unjudged(d)' <=> Unjudged(d)
  BY QuietFacts DEF Unjudged
<1>5. StatesSaved'
  BY <1>3 DEF DayRight, StatesSaved, OnlyState
<1>6. DoneIsJudged' /\ OpenedIsJudged'
  BY <1>4 DEF DayRight, DoneIsJudged, OpenedIsJudged, DayOf, JudgedRight
<1>7. JudgingAll'
  <2>1. ASSUME NEW w \in Workers, Judging(job[w])' PROVE Judging(job[w]) /\ job'[w].rows = job[w].rows
    BY <2>1, QuietFacts DEF Judging, CallOps
  <2> QED
    BY <2>1 DEF DayRight, JudgingAll, DayOf
<1>8. ClaimedIsDone'
  <2>1. \A w \in Workers : Claims(w)' => Claims(w) /\ ClaimedState(w)' = ClaimedState(w)
    BY QuietFacts DEF Claims, ClaimedState, CallOps
  <2> QED
    BY <2>1 DEF DayRight, ClaimedIsDone, Claimed
<1> QED
  BY <1>1, <1>2, <1>5, <1>6, <1>7, <1>8 DEF DayRight

LEMMA BoardQuiet ==
  ASSUME JobsFit, BoardNext
  PROVE  AllQuiet
BY BoardKeepsCalls, QuietSame DEF CallsKept, CallOps, AllQuiet, Quiet

LEMMA EndsQuiet ==
  ASSUME JobsFit, NEW w \in Workers, Finish(w), ~ At(w, "open", "flag"), ~ At(w, "close", "flag")
  PROVE  AllQuiet
<1>1. job'[w].op = "idle" /\ \A v \in Everyone \ {w} : job'[v] = job[v]
  BY Ends
<1>2. Quiet(job[w], job'[w])
  BY <1>1 DEF Quiet, CallOps
<1> QED
  BY <1>1, <1>2, QuietAll

LEMMA GoesOnQuiet ==
  ASSUME JobsFit, NEW w \in Workers, NEW at, NEW i, GoTo(w, at, i),
         job[w].op = "claim" \/ (Judging(job[w]) /\ at \in {"take", "judge"})
  PROVE  AllQuiet
<1>1. /\ job'[w].op = job[w].op /\ job'[w].rows = job[w].rows /\ job'[w].at = at
      /\ \A v \in Everyone \ {w} : job'[v] = job[v]
  BY GoesOn
<1>2. Quiet(job[w], job'[w])
  BY <1>1 DEF Quiet, Judging
<1> QED
  BY <1>1, <1>2, QuietAll

\* The steps that touch nothing of the day.
LEMMA QuietDay ==
  ASSUME Shape, DayRight, NEW w \in Workers,
         \/ OpenFails(w) \/ TakeJudged(w) \/ JudgeLost(w) \/ JudgeState(w) \/ JudgeFails(w)
         \/ LockClaimant(w) \/ PayFails(w)
         \/ CheckOpen(w) /\ isOpen
         \/ CheckClose(w) /\ ~ isOpen
         \/ CommitJudged(w) /\ Finish(w) /\ states' = states
         \/ SaveChallenge(w) /\ challenges' = challenges
  PROVE  DayRight'
<1>1. day' = day /\ isOpen' = isOpen /\ challenges' = challenges /\ states' = states /\ opened' = opened
      /\ late' = late
  BY DEF OpenFails, TakeJudged, JudgeLost, JudgeState, JudgeFails, LockClaimant, PayFails, CheckOpen,
         CheckClose, CommitJudged, SaveChallenge
<1>2. CASE OpenFails(w) \/ JudgeLost(w) \/ JudgeFails(w) \/ PayFails(w) \/ (CheckOpen(w) /\ isOpen)
           \/ (CheckClose(w) /\ ~ isOpen) \/ (CommitJudged(w) /\ Finish(w)) \/ SaveChallenge(w)
  <2>1. Finish(w)
    BY <1>2 DEF OpenFails, JudgeLost, JudgeFails, PayFails, CheckOpen, CheckClose, SaveChallenge
  <2>2. ~ At(w, "open", "flag") /\ ~ At(w, "close", "flag")
    BY <1>2 DEF OpenFails, JudgeLost, JudgeFails, PayFails, CheckOpen, CheckClose, CommitJudged, SaveChallenge
  <2>3. AllQuiet
    BY <2>1, <2>2, EndsQuiet DEF Shape
  <2> QED
    BY <1>1, <2>3, DayKept
<1>3. CASE TakeJudged(w) \/ JudgeState(w) \/ LockClaimant(w)
  <2>1. PICK at \in {"take", "judge", "pay"}, i \in {job[w].i, job[w].i + 1, 1} :
          /\ GoTo(w, at, i)
          /\ job[w].op = "claim" \/ (Judging(job[w]) /\ at \in {"take", "judge"})
    BY <1>3 DEF TakeJudged, JudgeState, LockClaimant, Judging
  <2>2. AllQuiet
    BY <2>1, GoesOnQuiet DEF Shape
  <2> QED
    BY <1>1, <2>2, DayKept
<1> QED
  BY <1>2, <1>3

\* Which day a state is of, while the challenges stay.
LEMMA DaySame ==
  ASSUME DayTyped, challenges' = challenges, DOMAIN states \subseteq DOMAIN states',
         \A s \in DOMAIN states : states'[s].challenge = states[s].challenge /\ states'[s].user = states[s].user
  PROVE  \A s \in DOMAIN states : DayOf(s)' = DayOf(s)
BY DEF DayOf

LEMMA SetMarketDayDay ==
  ASSUME Shape, DayRight, SetMarketDay, orderly'
  PROVE  DayRight'
<1>1. /\ day' > day /\ ~ isOpen /\ isOpen' = isOpen /\ AdminsAtWork = {}
      /\ job' = job /\ challenges' = challenges /\ states' = states /\ opened' = opened /\ late' = late
      /\ day \in Int /\ day' \in Int
  <2>1. PICK d \in 1 .. MaxDay :
          /\ day' = d /\ orderly' = (orderly /\ d > day /\ ~ isOpen /\ AdminsAtWork = {})
          /\ job' = job /\ isOpen' = isOpen /\ challenges' = challenges /\ states' = states
          /\ opened' = opened /\ late' = late
    BY DEF SetMarketDay
  <2>2. d > day /\ ~ isOpen /\ AdminsAtWork = {}
    BY <2>1
  <2>3. day \in Int /\ d \in Int
    BY ChallengesAssumption DEF Shape, DayTyped
  <2> QED
    BY <2>1, <2>2, <2>3
<1>2. \A w \in Workers : job[w].op \notin {"add", "open", "close"}
  BY <1>1 DEF AdminsAtWork
<1>3. OneCall' /\ JudgingAll'
  BY <1>1, <1>2 DEF OneCall, Calls, JudgingAll, Judging
<1>4. DaysPass'
  <2>1. \A d \in opened : d \in Int
    BY DEF Shape, DayTyped
  <2>2. \A d \in opened' : d <= day'
    BY <1>1, <2>1 DEF DayRight, DaysPass
  <2> QED
    BY <1>1, <1>2, <2>2 DEF DaysPass, Judging
<1>5. \A d : (Saved(d)' <=> Saved(d)) /\ ~ Unjudged(d)' /\ ~ Unjudged(d)
  BY <1>1, <1>2 DEF Saved, SavesDay, Unjudged
<1>6. StatesSaved'
  BY <1>1, <1>5 DEF DayRight, StatesSaved, OnlyState
<1>7. DoneIsJudged' /\ OpenedIsJudged'
  BY <1>1, <1>5 DEF DayRight, DoneIsJudged, OpenedIsJudged, DayOf, JudgedRight
<1>8. ClaimedIsDone'
  BY <1>1 DEF DayRight, ClaimedIsDone, Claimed, Claims, ClaimedState
<1> QED
  BY <1>3, <1>4, <1>6, <1>7, <1>8 DEF DayRight

\* A goroutine begins a call: which conjuncts look at the new job.
LEMMA StartsDay ==
  ASSUME Shape, DayRight, NEW w \in Workers, NEW k, job' = [job EXCEPT ![w] = k],
         job[w].op = "idle", k.op \in CallOps,
         k.op = "add" => \A i \in DOMAIN k.rows : k.rows[i].day > day,
         k.op \in {"open", "close"} => AdminsAtWork = {} /\ k.at = "check" /\ k.rows[1] = day,
         k.op = "claim" => states[k.rows[1]].done,
         day' = day, isOpen' = isOpen, challenges' = challenges, states' = states,
         opened' = opened, late' = late
  PROVE  DayRight'
<1>1. job'[w] = k /\ \A v \in Workers \ {w} : job'[v] = job[v]
  BY DEF Shape, JobsFit
<1>2. OneCall'
  <2>1. CASE k.op \in {"open", "close"}
    BY <1>1, <2>1 DEF OneCall, Calls, AdminsAtWork
  <2>2. CASE k.op \notin {"open", "close"}
    BY <1>1, <2>2 DEF DayRight, OneCall, Calls
  <2> QED
    BY <2>1, <2>2
<1>3. DaysPass'
  <2>1. (\A d \in opened' : d <= day') /\ (isOpen' => day' \in opened')
    BY DEF DayRight, DaysPass
  <2>2. ASSUME NEW v \in Workers, job'[v].op = "add" PROVE \A i \in DOMAIN job'[v].rows : job'[v].rows[i].day > day'
    BY <2>2, <1>1 DEF DayRight, DaysPass
  <2>3. ASSUME NEW v \in Workers, job'[v].op = "open" \/ At(v, "close", "check")' PROVE job'[v].rows[1] = day'
    BY <2>3, <1>1 DEF DayRight, DaysPass
  <2>4. ASSUME NEW v \in Workers, At(v, "open", "save")' \/ At(v, "open", "flag")'
        PROVE  ~ isOpen' /\ day' \notin opened'
    BY <2>4, <1>1 DEF DayRight, DaysPass
  <2>5. ASSUME NEW v \in Workers, Judging(job[v])' \/ At(v, "close", "flag")' PROVE isOpen'
    BY <2>5, <1>1 DEF DayRight, DaysPass, Judging
  <2> QED
    BY <2>1, <2>2, <2>3, <2>4, <2>5 DEF DaysPass
<1>4. \A v \in Workers : (At(v, "open", "flag")' <=> At(v, "open", "flag"))
                         /\ (At(v, "close", "flag")' <=> At(v, "close", "flag"))
  BY <1>1
<1>5. \A d : (Saved(d)' <=> Saved(d)) /\ (Unjudged(d)' <=> Unjudged(d))
  BY <1>4 DEF Saved, SavesDay, Unjudged
<1>6. StatesSaved'
  BY <1>5 DEF DayRight, StatesSaved, OnlyState
<1>7. DoneIsJudged' /\ OpenedIsJudged'
  BY <1>5 DEF DayRight, DoneIsJudged, OpenedIsJudged, DayOf, JudgedRight
<1>8. JudgingAll'
  <2>1. ASSUME NEW v \in Workers, Judging(job[v])' PROVE Judging(job[v]) /\ job'[v] = job[v]
    BY <1>1, <2>1 DEF Judging
  <2> QED
    BY <2>1 DEF DayRight, JudgingAll, DayOf
<1>9. ClaimedIsDone'
  BY <1>1 DEF DayRight, ClaimedIsDone, Claimed, Claims, ClaimedState
<1> QED
  BY <1>2, <1>3, <1>6, <1>7, <1>8, <1>9 DEF DayRight

LEMMA StartAddDay ==
  ASSUME Shape, DayRight, NEW w \in Workers, StartAdd(w)
  PROVE  DayRight'
<1>1. PICK d \in 1 .. MaxDay, k \in Kinds :
        d > day /\ Begin(w, "add", "save", <<[day |-> d, kind |-> k]>>, TRUE)
  BY DEF StartAdd
<1> DEFINE rows == <<[day |-> d, kind |-> k]>>
           j == Begun("add", "save", rows, TRUE)
<1>2. job' = [job EXCEPT ![w] = j] /\ job[w].op = "idle"
  BY <1>1 DEF Begin, Begun, Idle
<1>3. \A i \in DOMAIN rows : rows[i].day > day
  BY <1>1
<1> HIDE DEF rows
<1>4. j.op = "add" /\ j.rows = rows
  BY DEF Begun
<1> HIDE DEF j
<1> QED
  BY <1>2, <1>3, <1>4, StartsDay DEF StartAdd, CallOps

LEMMA StartDay ==
  ASSUME Shape, DayRight, NEW w \in Workers, NEW op \in {"open", "close"}, Start(w, op), orderly'
  PROVE  DayRight'
<1> DEFINE j == Begun(op, "check", <<day>>, TRUE)
<1>1. job' = [job EXCEPT ![w] = j] /\ job[w].op = "idle"
  BY DEF Start, Begin, Begun, Idle
<1>2. j.op = op /\ j.at = "check" /\ j.rows[1] = day
  BY DEF Begun
<1>3. AdminsAtWork = {}
  BY DEF Start
<1> HIDE DEF j
<1> QED
  BY <1>1, <1>2, <1>3, StartsDay DEF Start, CallOps

LEMMA StartClaimDay ==
  ASSUME Shape, DayRight, NEW w \in Workers, StartClaim(w)
  PROVE  DayRight'
<1>1. PICK id \in DOMAIN states : job' = [job EXCEPT ![w] = Begun("claim", "lock", <<id>>, TRUE)]
                                  /\ job[w] = Idle /\ states[id].done
  BY StartClaimIs
<1> DEFINE j == Begun("claim", "lock", <<id>>, TRUE)
<1>2. j.op = "claim" /\ j.rows[1] = id /\ job[w].op = "idle"
  BY <1>1 DEF Begun, Idle
<1>3. job' = [job EXCEPT ![w] = j]
  BY <1>1
<1> HIDE DEF j
<1> QED
  BY <1>1, <1>2, <1>3, StartsDay DEF StartClaim, CallOps

\* The call of a worker is the only one.
LEMMA OnlyCall ==
  ASSUME DayRight, NEW w \in Workers, Calls(w)
  PROVE  \A v \in Workers \ {w} : job[v].op \notin {"open", "close"}
BY DEF DayRight, OneCall, Calls

\* A challenge is added.
LEMMA SaveChallengeDay ==
  ASSUME Shape, DayRight, NEW w \in Workers, SaveChallenge(w)
  PROVE  DayRight'
<1> DEFINE rows == job[w].rows
<1>1. /\ rows \in Seq(Challenge) /\ job[w].op = "add" /\ Finish(w)
      /\ day' = day /\ isOpen' = isOpen /\ states' = states /\ opened' = opened /\ late' = late
  BY JobIs DEF SaveChallenge, Shape, CallFits
<1>2. CASE challenges' = challenges
  BY <1>2, QuietDay
<1>3. CASE challenges' = challenges \o rows
  <2>1. AllQuiet
    BY <1>1, EndsQuiet DEF Shape
  <2>2. challenges \in Seq(Challenge) /\ DOMAIN challenges = 1 .. Len(challenges) /\ Len(challenges) \in Nat
        /\ DOMAIN rows = 1 .. Len(rows) /\ Len(rows) \in Nat
    BY <1>1 DEF Shape, DayTyped
  <2> HIDE DEF rows
  <2>3. /\ Len(challenges') = Len(challenges) + Len(rows) /\ challenges' \in Seq(Challenge)
        /\ \A i \in 1 .. Len(challenges) + Len(rows) :
             challenges'[i] = IF i <= Len(challenges) THEN challenges[i] ELSE rows[i - Len(challenges)]
    BY <1>1, <1>3, <2>2, ConcatProperties
  <2>4. DOMAIN challenges' = 1 .. Len(challenges) + Len(rows)
    BY <2>3
  <2>5. \A c \in DOMAIN challenges : c \in DOMAIN challenges' /\ challenges'[c] = challenges[c]
    BY <2>2, <2>3, <2>4
  <2>6. ASSUME NEW c \in DOMAIN challenges' \ DOMAIN challenges PROVE challenges'[c].day > day
    <3>1. c - Len(challenges) \in DOMAIN rows /\ challenges'[c] = rows[c - Len(challenges)]
      BY <2>2, <2>3, <2>4
    <3>2. \A i \in DOMAIN rows : rows[i].day > day
      BY <1>1 DEF DayRight, DaysPass, rows
    <3> QED
      BY <3>1, <3>2
  <2>7. \A s \in DOMAIN states : DayOf(s)' = DayOf(s) /\ states[s].challenge \in DOMAIN challenges
    BY <1>1, <2>5 DEF DayOf, Shape, DayTyped
  <2>8. OneCall'
    BY <2>1, QuietFacts DEF DayRight, OneCall
  <2>9. DaysPass'
    <3>1. (\A d \in opened' : d <= day') /\ (isOpen' => day' \in opened')
      BY <1>1 DEF DayRight, DaysPass
    <3>2. ASSUME NEW v \in Workers, job'[v].op = "add" PROVE \A i \in DOMAIN job'[v].rows : job'[v].rows[i].day > day'
      BY <3>2, <1>1, <2>1, QuietFacts DEF DayRight, DaysPass, CallOps
    <3>3. ASSUME NEW v \in Workers, job'[v].op = "open" \/ At(v, "close", "check")' PROVE job'[v].rows[1] = day'
      BY <3>3, <1>1, <2>1, QuietFacts DEF DayRight, DaysPass, CallOps
    <3>4. ASSUME NEW v \in Workers, At(v, "open", "save")' \/ At(v, "open", "flag")'
          PROVE  ~ isOpen' /\ day' \notin opened'
      BY <3>4, <1>1, <2>1, QuietFacts DEF DayRight, DaysPass
    <3>5. ASSUME NEW v \in Workers, Judging(job[v])' \/ At(v, "close", "flag")' PROVE isOpen'
      BY <3>5, <1>1, <2>1, QuietFacts DEF DayRight, DaysPass
    <3> QED
      BY <3>1, <3>2, <3>3, <3>4, <3>5 DEF DaysPass
  <2>10. \A d : (Saved(d)' <=> Saved(d)) /\ (Unjudged(d)' <=> Unjudged(d))
    BY <1>1, <2>1, QuietFacts DEF Saved, SavesDay, Unjudged
  <2>11. StatesSaved'
    <3>1. ASSUME NEW c \in DOMAIN challenges', NEW u \in Users \ late'
          PROVE  IF Saved(challenges[c].day)' THEN \E s \in DOMAIN states' : OnlyState(s, c, u)'
                 ELSE \A r \in DOMAIN states' : ~ (states'[r].challenge = c /\ states'[r].user = u)
      <4>1. CASE c \in DOMAIN challenges
        BY <4>1, <1>1, <2>5, <2>10 DEF DayRight, StatesSaved, OnlyState
      <4>2. CASE c \notin DOMAIN challenges
        <5>1. challenges'[c].day > day
          BY <4>2, <2>6
        <5>2. \A d \in opened : d <= day /\ d \in Nat
          BY DEF DayRight, DaysPass, Shape, DayTyped
        <5>3. challenges'[c].day \in Nat /\ day \in Nat
          <6>1. c \in 1 .. Len(challenges') /\ challenges' \in Seq(Challenge)
            BY <2>3, <2>4
          <6>2. challenges'[c] \in Challenge
            BY <6>1, ElementOfSeq
          <6> QED
            BY <6>2 DEF Challenge, Shape, DayTyped
        <5>4. ~ Saved(challenges'[c].day)
          BY <5>1, <5>2, <5>3 DEF Saved, SavesDay
        <5>5. ~ Saved(challenges[c].day)'
          BY <2>10, <5>4
        <5> QED
          BY <4>2, <5>5, <1>1, <2>7
      <4> QED
        BY <4>1, <4>2
    <3> QED
      BY <3>1 DEF StatesSaved
  <2>12. DoneIsJudged' /\ OpenedIsJudged'
    BY <1>1, <2>7, <2>10 DEF DayRight, DoneIsJudged, OpenedIsJudged, JudgedRight
  <2>13. JudgingAll'
    <3>1. ASSUME NEW v \in Workers, Judging(job[v])' PROVE Judging(job[v]) /\ job'[v].rows = job[v].rows
      BY <2>1, <3>1, QuietFacts DEF Judging, CallOps
    <3>2. ASSUME NEW v \in Workers, Judging(job[v]), NEW i \in DOMAIN job[v].rows PROVE job[v].rows[i] \in DOMAIN states
      <4>1. job[v].rows \in Seq(DOMAIN states)
        BY <3>2, JobIs DEF Shape, CallFits
      <4> QED
        BY <4>1, <3>2, ElementOfSeq
    <3> QED
      BY <1>1, <3>1, <3>2, <2>7 DEF DayRight, JudgingAll
  <2>14. ClaimedIsDone'
    <3>1. \A v \in Workers : Claims(v)' => Claims(v) /\ ClaimedState(v)' = ClaimedState(v)
      BY <2>1, QuietFacts DEF Claims, ClaimedState, CallOps
    <3> QED
      BY <1>1, <3>1 DEF DayRight, ClaimedIsDone, Claimed
  <2> QED
    BY <2>8, <2>9, <2>11, <2>12, <2>13, <2>14 DEF DayRight
<1> QED
  BY <1>2, <1>3 DEF SaveChallenge

\* A call to open or to close steps, and stays that call or ends: no other was and is there.
LEMMA CallAlone ==
  ASSUME Shape, DayRight, NEW w \in Workers, Calls(w), \A v \in Everyone \ {w} : job'[v] = job[v],
         job'[w].op = job[w].op \/ job'[w] = Idle
  PROVE  /\ OneCall'
         /\ \A v \in Workers \ {w} : job'[v] = job[v] /\ job'[v].op \notin {"open", "close"}
                                     /\ job[v].op \notin {"open", "close"}
         /\ \A v \in Workers : job'[v].op \in {"add", "claim"} => v # w /\ job'[v] = job[v]
<1>1. \A v \in Workers \ {w} : job[v].op \notin {"open", "close"}
  BY OnlyCall
<1>2. Idle.op = "idle"
  BY IdleFits
<1>3. job'[w].op \notin {"add", "claim"}
  BY <1>2 DEF Calls
<1> QED
  BY <1>1, <1>2, <1>3 DEF OneCall, Calls

LEMMA AddsKept ==
  ASSUME DayRight, day' = day, \A v \in Workers : job'[v].op \in {"add", "claim"} => job'[v] = job[v]
  PROVE  \A v \in Workers : job'[v].op = "add" => \A i \in DOMAIN job'[v].rows : job'[v].rows[i].day > day'
BY DEF DayRight, DaysPass

LEMMA ClaimsDone ==
  ASSUME Shape, DayRight, \A v \in Workers : job'[v].op \in {"add", "claim"} => job'[v] = job[v],
         DOMAIN states \subseteq DOMAIN states',
         \A s \in DOMAIN states : (states[s].claimed \/ (\E v \in Workers : Claims(v) /\ ClaimedState(v) = s))
                                  /\ states[s].done => states'[s].done,
         \A s \in DOMAIN states : states'[s].claimed => states[s].claimed,
         \A s \in DOMAIN states' \ DOMAIN states : ~ states'[s].claimed
  PROVE  ClaimedIsDone'
<1>1. \A s \in Claimed' : states'[s].done
  BY DEF DayRight, ClaimedIsDone, Claimed
<1>2. ASSUME NEW v \in Workers, Claims(v)' PROVE states'[ClaimedState(v)'].done
  <2>1. Claims(v) /\ ClaimedState(v)' = ClaimedState(v)
    BY <1>2 DEF Claims, ClaimedState
  <2>2. ClaimedState(v) \in DOMAIN states /\ states[ClaimedState(v)].done
    BY <2>1, ClaimIs DEF DayRight, ClaimedIsDone
  <2> QED
    BY <2>1, <2>2
<1> QED
  BY <1>1, <1>2 DEF ClaimedIsDone

\* Opening the day goes on: the challenges were closed and the day was not opened before.
LEMMA CheckOpenDay ==
  ASSUME Shape, DayRight, NEW w \in Workers, CheckOpen(w), orderly'
  PROVE  DayRight'
<1>1. CASE isOpen
  BY <1>1, QuietDay
<1>2. CASE ~ isOpen
  <2>1. /\ job[w].op = "open" /\ job[w].at = "check" /\ GoTo(w, "save", 1) /\ job[w].rows[1] \notin opened
        /\ day' = day /\ isOpen' = isOpen /\ challenges' = challenges /\ states' = states
        /\ opened' = opened /\ late' = late
    BY <1>2 DEF CheckOpen
  <2>2. /\ job'[w].op = "open" /\ job'[w].at = "save" /\ job'[w].rows = job[w].rows
        /\ \A v \in Everyone \ {w} : job'[v] = job[v]
    BY <2>1, GoesOn DEF Shape
  <2>3. Calls(w) /\ job[w].rows[1] = day
    BY <2>1 DEF Calls, DayRight, DaysPass
  <2>4. /\ OneCall'
        /\ \A v \in Workers \ {w} : job'[v] = job[v] /\ job'[v].op \notin {"open", "close"}
        /\ \A v \in Workers : job'[v].op \in {"add", "claim"} => v # w /\ job'[v] = job[v]
    BY <2>1, <2>2, <2>3, CallAlone
  <2>5. DaysPass'
    <3>1. (\A d \in opened' : d <= day') /\ ~ isOpen' /\ day' \notin opened'
      BY <1>2, <2>1, <2>3 DEF DayRight, DaysPass
    <3>2. \A v \in Workers : job'[v].op = "add" => \A i \in DOMAIN job'[v].rows : job'[v].rows[i].day > day'
      BY <2>1, <2>4, AddsKept
    <3>3. \A v \in Workers : job'[v].op = "open" \/ At(v, "close", "check")' => job'[v].rows[1] = day'
      BY <2>1, <2>2, <2>3, <2>4
    <3>4. \A v \in Workers : ~ Judging(job[v])' /\ ~ At(v, "close", "flag")'
      BY <2>2, <2>4 DEF Judging
    <3> QED
      BY <3>1, <3>2, <3>3, <3>4 DEF DaysPass
  <2>6. \A v \in Workers : (At(v, "open", "flag")' <=> At(v, "open", "flag"))
                           /\ (At(v, "close", "flag")' <=> At(v, "close", "flag"))
    BY <2>1, <2>2
  <2>7. \A d : (Saved(d)' <=> Saved(d)) /\ (Unjudged(d)' <=> Unjudged(d))
    BY <2>1, <2>6 DEF Saved, SavesDay, Unjudged
  <2>8. StatesSaved'
    BY <2>1, <2>7 DEF DayRight, StatesSaved, OnlyState
  <2>9. DoneIsJudged' /\ OpenedIsJudged'
    BY <2>1, <2>7 DEF DayRight, DoneIsJudged, OpenedIsJudged, DayOf, JudgedRight
  <2>10. JudgingAll'
    BY <2>2, <2>4 DEF JudgingAll, Judging
  <2>11. ClaimedIsDone'
    BY <2>1, <2>4, ClaimsDone
  <2> QED
    BY <2>4, <2>5, <2>8, <2>9, <2>10, <2>11 DEF DayRight
<1> QED
  BY <1>1, <1>2

\* Opening saves the states of the day: from then on every user has one of each challenge.
LEMMA saveUsersStateDay ==
  ASSUME Shape, DayRight, NEW w \in Workers, saveUsersState(w)
  PROVE  DayRight'
<1> DEFINE new == NewStates(day)
<1>1. /\ job[w].op = "open" /\ job[w].at = "save" /\ GoTo(w, "flag", 1)
      /\ day' = day /\ isOpen' = isOpen /\ challenges' = challenges /\ opened' = opened /\ late' = late
      /\ states' = states \o NewStates(job[w].rows[1])
  BY DEF saveUsersState, NewStates
<1>2. /\ job'[w].op = "open" /\ job'[w].at = "flag" /\ job'[w].rows = job[w].rows
      /\ \A v \in Everyone \ {w} : job'[v] = job[v]
  BY <1>1, GoesOn DEF Shape
<1>3. Calls(w) /\ job[w].rows[1] = day /\ ~ isOpen /\ day \notin opened
  BY <1>1 DEF Calls, DayRight, DaysPass
<1>4. /\ OneCall'
      /\ \A v \in Workers \ {w} : job'[v] = job[v] /\ job'[v].op \notin {"open", "close"}
                                  /\ job[v].op \notin {"open", "close"}
      /\ \A v \in Workers : job'[v].op \in {"add", "claim"} => v # w /\ job'[v] = job[v]
  BY <1>1, <1>2, <1>3, CallAlone
<1>5. /\ new \in Seq(State) /\ \A i \in DOMAIN new : new[i].challenge \in DOMAIN challenges
      /\ \A i \in DOMAIN new : challenges[new[i].challenge].day = day /\ ~ new[i].done /\ ~ new[i].claimed
      /\ \A c \in Of(day), u \in Users : \E i \in DOMAIN new : \A k \in DOMAIN new :
              new[k].challenge = c /\ new[k].user = u <=> k = i
  BY NewStatesAre DEF Of
<1>6. states' = states \o new
  BY <1>1, <1>3
<1> HIDE DEF new
<1>7. /\ DOMAIN states \subseteq DOMAIN states'
      /\ \A s \in DOMAIN states : states'[s] = states[s]
      /\ \A i \in DOMAIN new : Len(states) + i \in DOMAIN states' \ DOMAIN states
                               /\ states'[Len(states) + i] = new[i]
      /\ \A s \in DOMAIN states' \ DOMAIN states : \E i \in DOMAIN new : s = Len(states) + i
      /\ \A s \in DOMAIN states' : states'[s].challenge \in DOMAIN challenges'
  BY <1>1, <1>5, <1>6, AddStates DEF Shape
<1>8. \A s \in DOMAIN states : DayOf(s)' = DayOf(s)
  BY <1>1, <1>7, DaySame DEF Shape
<1>9. \A s \in DOMAIN states' \ DOMAIN states : DayOf(s)' = day /\ ~ states'[s].done /\ ~ states'[s].claimed
                                                /\ states'[s].challenge \in Of(day)
  <2> SUFFICES ASSUME NEW s \in DOMAIN states' \ DOMAIN states
               PROVE  /\ DayOf(s)' = day /\ ~ states'[s].done /\ ~ states'[s].claimed
                      /\ states'[s].challenge \in Of(day)
    OBVIOUS
  <2>1. PICK i \in DOMAIN new : states'[s] = new[i]
    BY <1>7
  <2>2. new[i].challenge \in DOMAIN challenges /\ challenges[new[i].challenge].day = day
        /\ ~ new[i].done /\ ~ new[i].claimed
    BY <1>5
  <2>3. challenges' = challenges
    BY <1>1
  <2> QED
    BY <2>1, <2>2, <2>3 DEF DayOf, Of
<1>10. \A d : (Saved(d)' <=> (d \in opened \/ d = day)) /\ (Saved(d) <=> d \in opened)
              /\ ~ Unjudged(d)' /\ ~ Unjudged(d)
  BY <1>1, <1>2, <1>3, <1>4 DEF Saved, SavesDay, Unjudged
<1>11. DaysPass'
  <2>1. (\A d \in opened' : d <= day') /\ ~ isOpen' /\ day' \notin opened'
    BY <1>1, <1>3 DEF DayRight, DaysPass
  <2>2. \A v \in Workers : job'[v].op = "add" => \A i \in DOMAIN job'[v].rows : job'[v].rows[i].day > day'
    BY <1>1, <1>4, AddsKept
  <2>3. \A v \in Workers : job'[v].op = "open" \/ At(v, "close", "check")' => job'[v].rows[1] = day'
    BY <1>1, <1>2, <1>3, <1>4
  <2>4. \A v \in Workers : ~ Judging(job[v])' /\ ~ At(v, "close", "flag")'
    BY <1>2, <1>4 DEF Judging
  <2> QED
    BY <2>1, <2>2, <2>3, <2>4 DEF DaysPass
<1>12. StatesSaved'
  <2>1. ASSUME NEW c \in DOMAIN challenges, NEW u \in Users \ late
        PROVE  IF Saved(challenges[c].day)' THEN \E s \in DOMAIN states' : OnlyState(s, c, u)'
               ELSE \A r \in DOMAIN states' : ~ (states'[r].challenge = c /\ states'[r].user = u)
    <3>1. CASE challenges[c].day = day
      <4>1. c \in Of(day) /\ u \in Users
        BY <3>1 DEF Of
      <4>2. PICK i \in DOMAIN new : \A k \in DOMAIN new :
              new[k].challenge = c /\ new[k].user = u <=> k = i
        BY <4>1, <1>5
      <4>3. \A r \in DOMAIN states : ~ (states[r].challenge = c /\ states[r].user = u)
        BY <3>1, <1>3, <1>10 DEF DayRight, StatesSaved
      <4>4. PICK s \in DOMAIN states' \ DOMAIN states : s = Len(states) + i /\ states'[s] = new[i]
        BY <1>7
      <4>5. ASSUME NEW r \in DOMAIN states'
            PROVE  (states'[r].challenge = c /\ states'[r].user = u) <=> r = s
        <5>1. CASE r \in DOMAIN states
          BY <5>1, <4>3, <4>4, <1>7
        <5>2. CASE r \notin DOMAIN states
          <6>1. PICK k \in DOMAIN new : r = Len(states) + k
            BY <5>2, <1>7
          <6>2. states'[r] = new[k]
            BY <6>1, <1>7
          <6>3. k = i <=> r = s
            <7>1. Len(states) \in Int /\ k \in Int /\ i \in Int
              BY <1>5 DEF Shape, DayTyped
            <7> QED
              BY <4>4, <6>1, <7>1
          <6> QED
            BY <6>2, <6>3, <4>2
        <5> QED
          BY <5>1, <5>2
      <4>6. OnlyState(s, c, u)'
        BY <4>5 DEF OnlyState
      <4>7. Saved(challenges[c].day)'
        BY <3>1, <1>1, <1>10
      <4> QED
        BY <4>4, <4>6, <4>7
    <3>2. CASE challenges[c].day # day
      <4>1. Saved(challenges[c].day)' <=> Saved(challenges[c].day)
        BY <3>2, <1>1, <1>10
      <4>2. \A r \in DOMAIN states' \ DOMAIN states : states'[r].challenge # c
        BY <3>2, <1>9 DEF Of
      <4>3. CASE Saved(challenges[c].day)
        <5>1. PICK s \in DOMAIN states : OnlyState(s, c, u)
          BY <4>3 DEF DayRight, StatesSaved
        <5>2. s \in DOMAIN states' /\ OnlyState(s, c, u)'
          BY <5>1, <4>2, <1>7 DEF OnlyState
        <5> QED
          BY <4>1, <4>3, <5>2
      <4>4. CASE ~ Saved(challenges[c].day)
        <5>1. \A r \in DOMAIN states : ~ (states[r].challenge = c /\ states[r].user = u)
          BY <4>4 DEF DayRight, StatesSaved
        <5> QED
          BY <4>1, <4>2, <4>4, <5>1, <1>7
      <4> QED
        BY <4>3, <4>4
    <3> QED
      BY <3>1, <3>2
  <2> QED
    BY <1>1, <2>1 DEF StatesSaved
<1>13. DoneIsJudged'
  BY <1>1, <1>7, <1>8, <1>9, <1>10 DEF DayRight, DoneIsJudged
<1>14. OpenedIsJudged'
  BY <1>1, <1>3, <1>7, <1>8, <1>9, <1>10 DEF DayRight, OpenedIsJudged, JudgedRight
<1>15. JudgingAll'
  BY <1>2, <1>4 DEF JudgingAll, Judging
<1>16. ClaimedIsDone'
  BY <1>4, <1>7, <1>9, ClaimsDone
<1> QED
  BY <1>4, <1>11, <1>12, <1>13, <1>14, <1>15, <1>16 DEF DayRight

\* The flag is set: the day is open, or closed.
LEMMA SetIsOpenDay ==
  ASSUME Shape, DayRight, NEW w \in Workers, NEW op \in {"open", "close"}, SetIsDailyChallengeOpen(w, op),
         orderly'
  PROVE  DayRight'
<1>1. /\ job[w].op = op /\ job[w].at = "flag" /\ Finish(w)
      /\ isOpen' = (op = "open")
      /\ opened' = IF op = "open" THEN opened \cup {job[w].rows[1]} ELSE opened
      /\ day' = day /\ challenges' = challenges /\ states' = states /\ late' = late
  BY DEF SetIsDailyChallengeOpen
<1>2. job'[w] = Idle /\ job'[w].op = "idle" /\ \A v \in Everyone \ {w} : job'[v] = job[v]
  BY <1>1, Ends DEF Shape
<1>3. Calls(w)
  BY <1>1 DEF Calls
<1>4. /\ OneCall'
      /\ \A v \in Workers \ {w} : job'[v] = job[v] /\ job'[v].op \notin {"open", "close"}
                                  /\ job[v].op \notin {"open", "close"}
      /\ \A v \in Workers : job'[v].op \in {"add", "claim"} => v # w /\ job'[v] = job[v]
  BY <1>2, <1>3, CallAlone
<1>5. \A v \in Workers : job'[v].op \notin {"open", "close"}
  BY <1>2, <1>4
<1>6. \A v \in Workers : ~ Judging(job[v])' /\ ~ At(v, "close", "flag")' /\ ~ At(v, "open", "flag")'
  BY <1>5 DEF Judging
<1>7. JudgingAll'
  BY <1>6 DEF JudgingAll
<1>8. ClaimedIsDone'
  BY <1>1, <1>4, ClaimsDone
<1>9. \A v \in Workers : job'[v].op = "add" => \A i \in DOMAIN job'[v].rows : job'[v].rows[i].day > day'
  BY <1>1, <1>4, AddsKept
<1>10. CASE op = "open"
  <2>1. job[w].rows[1] = day /\ ~ isOpen /\ day \notin opened /\ isOpen' /\ opened' = opened \cup {day}
    BY <1>1, <1>10 DEF DayRight, DaysPass
  <2>2. day <= day
    BY DEF Shape, DayTyped
  <2>3. DaysPass'
    BY <1>1, <1>5, <1>6, <1>9, <2>1, <2>2 DEF DayRight, DaysPass
  <2>4. \A d : /\ Saved(d)' <=> Saved(d)
               /\ Unjudged(d)' <=> d = day
               /\ ~ Unjudged(d)
    BY <1>1, <1>6, <1>10, <2>1 DEF Saved, SavesDay, Unjudged
  <2>5. StatesSaved'
    BY <1>1, <2>4 DEF DayRight, StatesSaved, OnlyState
  <2>6. \A s \in DOMAIN states : DayOf(s)' = DayOf(s)
    BY <1>1 DEF DayOf
  <2>7. DoneIsJudged'
    BY <1>1, <2>1, <2>4, <2>6 DEF DayRight, DoneIsJudged
  <2>8. OpenedIsJudged'
    BY <1>1, <2>1, <2>4, <2>6 DEF DayRight, OpenedIsJudged, JudgedRight
  <2> QED
    BY <1>4, <1>7, <1>8, <2>3, <2>5, <2>7, <2>8 DEF DayRight
<1>11. CASE op = "close"
  <2>1. ~ isOpen' /\ opened' = opened
    BY <1>1, <1>11
  <2>2. DaysPass'
    BY <1>1, <1>5, <1>6, <1>9, <2>1 DEF DayRight, DaysPass
  <2>3. \A d : /\ Saved(d)' <=> Saved(d)
               /\ ~ Unjudged(d)' /\ ~ Unjudged(d)
    BY <1>1, <1>4, <1>6, <1>11, <2>1 DEF Saved, SavesDay, Unjudged
  <2>4. StatesSaved'
    BY <1>1, <2>3 DEF DayRight, StatesSaved, OnlyState
  <2>5. DoneIsJudged' /\ OpenedIsJudged'
    BY <1>1, <2>1, <2>3 DEF DayRight, DoneIsJudged, OpenedIsJudged, DayOf, JudgedRight
  <2> QED
    BY <1>4, <1>7, <1>8, <2>2, <2>4, <2>5 DEF DayRight
<1> QED
  BY <1>10, <1>11

\* Closing begins: all states of the day are listed.
LEMMA CheckCloseDay ==
  ASSUME Shape, DayRight, NEW w \in Workers, CheckClose(w)
  PROVE  DayRight'
<1>1. CASE ~ isOpen
  BY <1>1, QuietDay
<1>2. CASE isOpen
  <2>0. PICK rows : rows = SetToSeq(StatesOf(day))
    OBVIOUS
  <2>1. /\ job[w].op = "close" /\ job[w].at = "check"
        /\ day' = day /\ isOpen' = isOpen /\ challenges' = challenges /\ states' = states
        /\ opened' = opened /\ late' = late
    BY DEF CheckClose
  <2>2. Calls(w) /\ job[w].rows[1] = day
    BY <2>1 DEF Calls, DayRight, DaysPass
  <2>3. job' = [job EXCEPT ![w] = Listed(job[w], rows)]
    BY <1>2, <2>0, <2>2, CheckCloseIs DEF Shape
  <2>4. /\ rows \in Seq(DOMAIN states) /\ Len(rows) \in Nat
        /\ \A k \in 1 .. Len(rows) : rows[k] \in StatesOf(day)
        /\ \A s \in StatesOf(day) : \E k \in 1 .. Len(rows) : rows[k] = s
    BY <2>0, StatesOfList DEF Shape
  <2>5. IsJob(job[w])
    BY JobIs DEF Shape
  <2>6. /\ job'[w].op = "close" /\ job'[w].at = "take" /\ job'[w].rows = rows
        /\ \A v \in Everyone \ {w} : job'[v] = job[v]
    BY <2>1, <2>3, <2>5 DEF Shape, JobsFit, IsJob, Listed
  <2>7. /\ OneCall'
        /\ \A v \in Workers \ {w} : job'[v] = job[v] /\ job'[v].op \notin {"open", "close"}
        /\ \A v \in Workers : job'[v].op \in {"add", "claim"} => v # w /\ job'[v] = job[v]
    BY <2>1, <2>2, <2>6, CallAlone
  <2>8. DaysPass'
    <3>1. (\A d \in opened' : d <= day') /\ isOpen' /\ day' \in opened'
      BY <1>2, <2>1 DEF DayRight, DaysPass
    <3>2. \A v \in Workers : job'[v].op = "add" => \A i \in DOMAIN job'[v].rows : job'[v].rows[i].day > day'
      BY <2>1, <2>7, AddsKept
    <3>3. \A v \in Workers : job'[v].op # "open" /\ ~ At(v, "close", "check")'
      BY <2>6, <2>7
    <3> QED
      BY <3>1, <3>2, <3>3 DEF DaysPass
  <2>9. \A v \in Workers : (At(v, "open", "flag")' <=> At(v, "open", "flag"))
                           /\ (At(v, "close", "flag")' <=> At(v, "close", "flag"))
    BY <2>1, <2>6
  <2>10. \A d : (Saved(d)' <=> Saved(d)) /\ (Unjudged(d)' <=> Unjudged(d))
    BY <2>1, <2>9 DEF Saved, SavesDay, Unjudged
  <2>11. StatesSaved'
    BY <2>1, <2>10 DEF DayRight, StatesSaved, OnlyState
  <2>12. DoneIsJudged' /\ OpenedIsJudged'
    BY <2>1, <2>10 DEF DayRight, DoneIsJudged, OpenedIsJudged, DayOf, JudgedRight
  <2>13. JudgingAll'
    <3>1. \A v \in Workers : Judging(job[v])' => v = w
      BY <2>7 DEF Judging
    <3>2. DOMAIN rows = 1 .. Len(rows)
      BY <2>4
    <3>3. \A k \in DOMAIN rows : DayOf(rows[k])' = day
      BY <2>1, <2>4, <3>2 DEF DayOf, StatesOf
    <3>4. \A s \in DOMAIN states : DayOf(s)' = day => \E k \in DOMAIN rows : rows[k] = s
      BY <2>1, <2>4, <3>2 DEF DayOf, StatesOf
    <3> QED
      BY <2>1, <2>6, <3>1, <3>3, <3>4 DEF JudgingAll, DayOf
  <2>14. ClaimedIsDone'
    BY <2>1, <2>7, ClaimsDone
  <2> QED
    BY <2>7, <2>8, <2>11, <2>12, <2>13, <2>14 DEF DayRight
<1> QED
  BY <1>1, <1>2

\* The judgement of the day is committed: all its states were judged, none of them was done.
LEMMA CommitJudgedDay ==
  ASSUME Shape, DayRight, NEW w \in Workers, CommitJudged(w)
  PROVE  DayRight'
<1>1. CASE Finish(w) /\ states' = states
  BY <1>1, QuietDay
<1>2. CASE GoTo(w, "flag", 1)
  <2>1. /\ job[w].op = "close" /\ job[w].at = "take" /\ ~ MoreToJudge(w) /\ Judging(job[w])
        /\ day' = day /\ isOpen' = isOpen /\ challenges' = challenges /\ opened' = opened /\ late' = late
    BY DEF CommitJudged, Judging
  <2>2. Calls(w) /\ isOpen /\ day \in opened
    BY <2>1 DEF Calls, DayRight, DaysPass
  <2>3. /\ job'[w].op = "close" /\ job'[w].at = "flag"
        /\ \A v \in Everyone \ {w} : job'[v] = job[v]
    BY <1>2, <2>1, GoesOn DEF Shape
  <2>4. /\ OneCall'
        /\ \A v \in Workers \ {w} : job'[v] = job[v] /\ job'[v].op \notin {"open", "close"}
                                    /\ job[v].op \notin {"open", "close"}
        /\ \A v \in Workers : job'[v].op \in {"add", "claim"} => v # w /\ job'[v] = job[v]
    BY <2>1, <2>2, <2>3, CallAlone
  <2>5. /\ DOMAIN states' = DOMAIN states
        /\ \A s \in DOMAIN states : /\ states'[s].challenge = states[s].challenge
                                    /\ states'[s].user = states[s].user
                                    /\ states'[s].claimed = states[s].claimed
        /\ \A s \in DOMAIN states \ JudgedIn(w) : states'[s] = states[s]
        /\ \A s \in DOMAIN states : s \in JudgedIn(w) =>
              /\ states'[s].final \in Nat
              /\ states'[s].done <=> states'[s].final >= states'[s].initial + Goal
    BY <1>2, CommitIs
  <2>6. \A s \in JudgedIn(w) : s \in DOMAIN states' => JudgedRight(s)'
    BY <2>5, Names DEF JudgedRight
  <2>7. \A s \in DOMAIN states : DayOf(s)' = DayOf(s)
    BY <2>1, <2>5, DaySame DEF Shape
  <2>8. JudgedIn(w) = {job[w].rows[k] : k \in DOMAIN job[w].rows}
    <3>1. /\ job[w].rows \in Seq(DOMAIN states) /\ job[w].i \in 1 .. Len(job[w].rows) + 1
      BY <2>1, JobIs DEF Shape, CallFits
    <3>2. 1 .. job[w].i - 1 = 1 .. Len(job[w].rows) /\ DOMAIN job[w].rows = 1 .. Len(job[w].rows)
      BY <2>1, <3>1 DEF MoreToJudge
    <3> QED
      BY <2>1, <3>2, NotesAre
  <2>9. /\ \A s \in JudgedIn(w) : DayOf(s) = day
        /\ \A s \in DOMAIN states : DayOf(s) = day /\ states[s].user \notin late => s \in JudgedIn(w)
    BY <2>1, <2>8 DEF DayRight, JudgingAll
  <2>10. \A d : ~ Unjudged(d)' /\ (Unjudged(d) <=> d = day) /\ (Saved(d) <=> Saved(d)')
    BY <2>1, <2>2, <2>3, <2>4 DEF Unjudged, Saved, SavesDay
  <2>11. DaysPass'
    <3>1. (\A d \in opened' : d <= day') /\ isOpen' /\ day' \in opened'
      BY <2>1, <2>2 DEF DayRight, DaysPass
    <3>2. \A v \in Workers : job'[v].op = "add" => \A i \in DOMAIN job'[v].rows : job'[v].rows[i].day > day'
      BY <2>1, <2>4, AddsKept
    <3>3. \A v \in Workers : job'[v].op # "open" /\ ~ At(v, "close", "check")'
      BY <2>3, <2>4
    <3> QED
      BY <3>1, <3>2, <3>3 DEF DaysPass
  <2>12. StatesSaved'
    BY <2>1, <2>5, <2>10 DEF DayRight, StatesSaved, OnlyState
  <2>13. DoneIsJudged'
    <3>1. ASSUME NEW s \in DOMAIN states, states'[s].done PROVE DayOf(s) \in opened
      <4>1. CASE s \in JudgedIn(w)
        BY <4>1, <2>2, <2>9
      <4>2. CASE s \notin JudgedIn(w)
        BY <3>1, <4>2, <2>5 DEF DayRight, DoneIsJudged
      <4> QED
        BY <4>1, <4>2
    <3> QED
      BY <2>1, <2>5, <2>7, <2>10, <3>1 DEF DoneIsJudged
  <2>14. OpenedIsJudged'
    <3>1. ASSUME NEW s \in DOMAIN states, states[s].user \notin late, DayOf(s) \in opened PROVE JudgedRight(s)'
      <4>1. CASE s \in JudgedIn(w)
        BY <4>1, <2>5, <2>6
      <4>2. CASE s \notin JudgedIn(w)
        <5>1. DayOf(s) # day
          BY <3>1, <4>2, <2>9
        <5>2. JudgedRight(s)
          BY <3>1, <5>1, <2>10 DEF DayRight, OpenedIsJudged
        <5> QED
          BY <4>2, <5>2, <2>5 DEF JudgedRight
      <4> QED
        BY <4>1, <4>2
    <3> QED
      BY <2>1, <2>5, <2>7, <3>1 DEF OpenedIsJudged
  <2>15. JudgingAll'
    BY <2>3, <2>4 DEF JudgingAll, Judging
  <2>16. ClaimedIsDone'
    <3>1. \A s \in DOMAIN states : states[s].done => s \notin JudgedIn(w)
      BY <2>9, <2>10 DEF DayRight, DoneIsJudged
    <3>2. \A s \in DOMAIN states : states[s].done => states'[s].done
      BY <3>1, <2>5
    <3> QED
      BY <2>4, <2>5, <3>2, ClaimsDone
  <2> QED
    BY <2>4, <2>11, <2>12, <2>13, <2>14, <2>15, <2>16 DEF DayRight
<1> QED
  BY <1>1, <1>2, CommitCases

\* A user who verifies his phone number gets states that are not of those that are counted.
LEMMA saveNewUserStateDay ==
  ASSUME Shape, DayRight, saveNewUserState
  PROVE  DayRight'
<1>1. PICK u \in Users : /\ late' = late \cup {u}
                         /\ states' = states \o LateStates(u) \/ states' = states
  BY NewUserIs
<1>2. /\ job' = job /\ day' = day /\ isOpen' = isOpen /\ challenges' = challenges /\ opened' = opened
  BY DEF saveNewUserState
<1>3. /\ DOMAIN states \subseteq DOMAIN states'
      /\ \A s \in DOMAIN states : states'[s] = states[s]
      /\ \A s \in DOMAIN states' \ DOMAIN states :
           states'[s].user = u /\ ~ states'[s].done /\ ~ states'[s].claimed
  <2>1. CASE states' = states \o LateStates(u)
    <3> DEFINE new == LateStates(u)
    <3>1. /\ new \in Seq(State) /\ \A i \in DOMAIN new : new[i].challenge \in DOMAIN challenges
          /\ \A i \in DOMAIN new : new[i].user = u /\ ~ new[i].done /\ ~ new[i].claimed
      BY LateStatesAre
    <3>2. states' = states \o new
      BY <2>1
    <3> HIDE DEF new
    <3>3. /\ DOMAIN states \subseteq DOMAIN states'
          /\ \A s \in DOMAIN states : states'[s] = states[s]
          /\ \A i \in DOMAIN new : states'[Len(states) + i] = new[i]
          /\ \A s \in DOMAIN states' \ DOMAIN states : \E i \in DOMAIN new : s = Len(states) + i
      BY <1>2, <3>1, <3>2, AddStates DEF Shape
    <3> QED
      BY <3>1, <3>3
  <2>2. CASE states' = states
    BY <2>2
  <2> QED
    BY <1>1, <2>1, <2>2
<1>4. \A s \in DOMAIN states : DayOf(s)' = DayOf(s)
  BY <1>2, <1>3, DaySame DEF Shape
<1>5. OneCall' /\ DaysPass'
  BY <1>2 DEF DayRight, OneCall, Calls, DaysPass
<1>6. \A d : (Saved(d)' <=> Saved(d)) /\ (Unjudged(d)' <=> Unjudged(d))
  BY <1>2 DEF Saved, SavesDay, Unjudged
<1>7. StatesSaved'
  <2>1. ASSUME NEW c \in DOMAIN challenges, NEW x \in Users \ late'
        PROVE  IF Saved(challenges[c].day)' THEN \E s \in DOMAIN states' : OnlyState(s, c, x)'
               ELSE \A r \in DOMAIN states' : ~ (states'[r].challenge = c /\ states'[r].user = x)
    <3>1. x \in Users \ late /\ x # u
      BY <1>1
    <3>2. CASE Saved(challenges[c].day)
      <4>1. PICK s \in DOMAIN states : OnlyState(s, c, x)
        BY <3>1, <3>2 DEF DayRight, StatesSaved
      <4>2. s \in DOMAIN states' /\ OnlyState(s, c, x)'
        BY <3>1, <4>1, <1>3 DEF OnlyState
      <4>3. Saved(challenges[c].day)'
        BY <1>2, <1>6, <3>2
      <4> QED
        BY <4>2, <4>3
    <3>3. CASE ~ Saved(challenges[c].day)
      <4>1. \A r \in DOMAIN states : ~ (states[r].challenge = c /\ states[r].user = x)
        BY <3>1, <3>3 DEF DayRight, StatesSaved
      <4>2. ~ Saved(challenges[c].day)'
        BY <1>2, <1>6, <3>3
      <4> QED
        BY <3>1, <4>1, <4>2, <1>3
    <3> QED
      BY <3>2, <3>3
  <2> QED
    BY <1>2, <2>1 DEF StatesSaved
<1>8. DoneIsJudged'
  BY <1>2, <1>3, <1>4, <1>6 DEF DayRight, DoneIsJudged
<1>9. OpenedIsJudged'
  BY <1>1, <1>2, <1>3, <1>4, <1>6 DEF DayRight, OpenedIsJudged, JudgedRight
<1>10. JudgingAll'
  <2>1. ASSUME NEW v \in Workers, Judging(job[v]), NEW i \in DOMAIN job[v].rows PROVE job[v].rows[i] \in DOMAIN states
    <3>1. job[v].rows \in Seq(DOMAIN states)
      BY <2>1, JobIs DEF Shape, CallFits
    <3> QED
      BY <3>1, <2>1, ElementOfSeq
  <2> QED
    BY <1>1, <1>2, <1>3, <1>4, <2>1 DEF DayRight, JudgingAll
<1>11. ClaimedIsDone'
  BY <1>2, <1>3, ClaimsDone
<1> QED
  BY <1>5, <1>7, <1>8, <1>9, <1>10, <1>11 DEF DayRight

LEMMA PayRewardDay ==
  ASSUME Shape, DayRight, NEW w \in Workers, PayReward(w)
  PROVE  DayRight'
<1>1. /\ Claims(w) /\ job[w].op = "claim" /\ Finish(w)
      /\ day' = day /\ isOpen' = isOpen /\ challenges' = challenges /\ opened' = opened /\ late' = late
  BY DEF PayReward, Claims
<1>2. job'[w].op = "idle" /\ \A v \in Everyone \ {w} : job'[v] = job[v]
  BY <1>1, Ends DEF Shape
<1>3. /\ DOMAIN states' = DOMAIN states
      /\ \A s \in DOMAIN states : /\ states'[s].challenge = states[s].challenge
                                  /\ states'[s].user = states[s].user
                                  /\ states'[s].initial = states[s].initial
                                  /\ states'[s].final = states[s].final
                                  /\ states'[s].done = states[s].done
                                  /\ states'[s].claimed <=> (s = ClaimedState(w) \/ states[s].claimed)
  BY <1>1, PaysIs
<1>4. \A s \in DOMAIN states : DayOf(s)' = DayOf(s)
  BY <1>1, <1>3, DaySame DEF Shape
<1>5. AllQuiet
  BY <1>1, EndsQuiet DEF Shape
<1>6. OneCall'
  BY <1>5, QuietFacts DEF DayRight, OneCall
<1>7. \A v \in Workers : job'[v].op # "claim" \/ v # w
  BY <1>2
<1>8. \A v \in Workers : job'[v].op \in {"add", "open", "close"} => job'[v] = job[v]
  BY <1>2
<1>9. DaysPass'
  BY <1>1, <1>2, <1>8 DEF DayRight, DaysPass, Judging
<1>10. \A d : (Saved(d)' <=> Saved(d)) /\ (Unjudged(d)' <=> Unjudged(d))
  BY <1>1, <1>5, QuietFacts DEF Saved, SavesDay, Unjudged
<1>11. StatesSaved'
  BY <1>1, <1>3, <1>10 DEF DayRight, StatesSaved, OnlyState
<1>12. DoneIsJudged' /\ OpenedIsJudged'
  BY <1>1, <1>3, <1>4, <1>10 DEF DayRight, DoneIsJudged, OpenedIsJudged, JudgedRight
<1>13. JudgingAll'
  <2>1. ASSUME NEW v \in Workers, Judging(job[v]), NEW i \in DOMAIN job[v].rows PROVE job[v].rows[i] \in DOMAIN states
    <3>1. job[v].rows \in Seq(DOMAIN states)
      BY <2>1, JobIs DEF Shape, CallFits
    <3> QED
      BY <3>1, <2>1, ElementOfSeq
  <2>2. \A v \in Workers : Judging(job[v])' => Judging(job[v]) /\ job'[v] = job[v]
    BY <1>8 DEF Judging
  <2> QED
    BY <1>1, <1>3, <1>4, <2>1, <2>2 DEF DayRight, JudgingAll
<1>14. ClaimedIsDone'
  <2>1. states[ClaimedState(w)].done
    BY <1>1 DEF DayRight, ClaimedIsDone
  <2>2. \A s \in Claimed' : states'[s].done
    BY <1>3, <2>1 DEF DayRight, ClaimedIsDone, Claimed
  <2>3. ASSUME NEW v \in Workers, Claims(v)' PROVE states'[ClaimedState(v)'].done
    <3>1. Claims(v) /\ ClaimedState(v)' = ClaimedState(v)
      BY <2>3, <1>2 DEF Claims, ClaimedState
    <3>2. ClaimedState(v) \in DOMAIN states /\ states[ClaimedState(v)].done
      BY <3>1, ClaimIs DEF DayRight, ClaimedIsDone
    <3> QED
      BY <3>1, <3>2, <1>3
  <2> QED
    BY <2>2, <2>3 DEF ClaimedIsDone
<1> QED
  BY <1>6, <1>9, <1>11, <1>12, <1>13, <1>14 DEF DayRight

\* Once the administrators did not wait for each other, they never did.
LEMMA OrderlyBefore ==
  ASSUME Shape, ChallengesNext, orderly'
  PROVE  orderly
<1>1. CASE SetMarketDay \/ saveNewUserState \/ (BoardNext /\ UNCHANGED challengeVars)
  BY <1>1 DEF SetMarketDay, saveNewUserState
<1>2. ASSUME NEW w \in Workers, AdminStep(w) PROVE orderly
  <2>1. CASE CheckOpen(w)
    BY <2>1 DEF CheckOpen
  <2>2. CASE \E op \in {"open", "close"} : SetIsDailyChallengeOpen(w, op)
    BY <2>2 DEF SetIsDailyChallengeOpen
  <2>3. CASE SaveChallenge(w) \/ saveUsersState(w) \/ OpenFails(w) \/ CheckClose(w)
    BY <2>3 DEF SaveChallenge, saveUsersState, OpenFails, CheckClose
  <2>4. CASE TakeJudged(w) \/ JudgeLost(w) \/ JudgeState(w) \/ JudgeFails(w) \/ CommitJudged(w)
    BY <2>4 DEF TakeJudged, JudgeLost, JudgeState, JudgeFails, CommitJudged
  <2> QED
    BY <1>2, <2>1, <2>2, <2>3, <2>4 DEF AdminStep
<1>3. ASSUME NEW w \in Workers, ClaimStep(w) \/ StartAdd(w) \/ StartClaim(w) PROVE orderly
  BY <1>3 DEF ClaimStep, LockClaimant, PayReward, PayFails, StartAdd, StartClaim
<1>4. ASSUME NEW w \in Workers, Start(w, "open") \/ Start(w, "close") PROVE orderly
  BY <1>4 DEF Start
<1> QED
  BY <1>1, <1>2, <1>3, <1>4 DEF ChallengesNext

LEMMA NextDay ==
  ASSUME Shape, Orderly, ChallengesNext
  PROVE  Orderly'
<1> SUFFICES ASSUME orderly' PROVE DayRight'
  BY DEF Orderly
<1>0. DayRight
  BY OrderlyBefore DEF Orderly
<1>1. CASE BoardNext /\ UNCHANGED challengeVars
  <2>1. AllQuiet
    BY <1>1, BoardQuiet DEF Shape
  <2> QED
    BY <1>0, <1>1, <2>1, DayKept
<1>2. CASE SetMarketDay
  BY <1>0, <1>2, SetMarketDayDay
<1>3. CASE saveNewUserState
  BY <1>0, <1>3, saveNewUserStateDay
<1>4. ASSUME NEW w \in Workers, AdminStep(w) PROVE DayRight'
  BY <1>0, <1>4, SaveChallengeDay, CheckOpenDay, saveUsersStateDay, QuietDay, CheckCloseDay,
     CommitJudgedDay, SetIsOpenDay DEF AdminStep
<1>5. ASSUME NEW w \in Workers, ClaimStep(w) PROVE DayRight'
  BY <1>0, <1>5, QuietDay, PayRewardDay DEF ClaimStep
<1>6. ASSUME NEW w \in Workers, StartAdd(w) \/ Start(w, "open") \/ Start(w, "close") \/ StartClaim(w)
      PROVE  DayRight'
  BY <1>0, <1>6, StartAddDay, StartDay, StartClaimDay
<1> QED
  BY <1>1, <1>2, <1>3, <1>4, <1>5, <1>6 DEF ChallengesNext

LEMMA InitDay ==
  ASSUME ChallengesInit
  PROVE  Orderly
<1>1. /\ states = <<>> /\ DOMAIN states = {} /\ isOpen = FALSE /\ opened = {}
      /\ \A w \in Workers : job[w].op = "idle"
  BY DEF ChallengesInit, BoardInit, Idle
<1>2. OneCall /\ DaysPass /\ DoneIsJudged /\ OpenedIsJudged /\ JudgingAll /\ ClaimedIsDone
  BY <1>1 DEF OneCall, Calls, DaysPass, DoneIsJudged, OpenedIsJudged, JudgingAll, Judging, ClaimedIsDone, Claimed,
              Claims
<1>3. StatesSaved
  BY <1>1 DEF StatesSaved, Saved, SavesDay
<1> QED
  BY <1>2, <1>3 DEF Orderly, DayRight

LEMMA StutterDay ==
  ASSUME Orderly, UNCHANGED challengesVars
  PROVE  Orderly'
<1> SUFFICES ASSUME orderly' PROVE DayRight'
  BY DEF Orderly
<1>1. DayRight /\ job' = job
  BY DEF Orderly, challengesVars
<1>2. AllQuiet
  BY <1>1, QuietSame DEF AllQuiet
<1> QED
  BY <1>1, <1>2, DayKept DEF challengesVars

------------------------------------------------------------------------------
(* The tables *)

LEMMA WritingIs ==
  ASSUME JobsFit, NEW t
  PROVE  Writing(t) = {w \in Everyone : At(w, t, "fill")}
BY DEF Writing, JobsFit

LEMMA WritingNext ==
  ASSUME JobsFit', NEW t
  PROVE  Writing(t)' = {w \in Everyone : At(w, t, "fill")'}
BY DEF Writing, JobsFit

\* A table that nobody writes.
LEMMA TableKept ==
  ASSUME JobsFit, JobsFit', NEW t \in Tables, TableOK(t), t \notin torn' => t \notin torn,
         board'[t] = board[t],
         \A v \in Everyone : job'[v] = job[v] \/ (~ At(v, t, "fill") /\ ~ At(v, t, "fill")')
  PROVE  TableOK(t)'
<1>1. Writing(t)' = Writing(t)
  BY WritingIs, WritingNext
<1>2. \A w \in Writing(t) : job'[w] = job[w]
  BY WritingIs
<1> QED
  BY <1>1, <1>2 DEF TableOK

LEMMA TableJobKept ==
  ASSUME NEW v, TableJob(v), job'[v] = job[v]
  PROVE  TableJob(v)'
BY DEF TableJob

LEMMA TableJobNone ==
  ASSUME NEW v, job'[v].op \notin Tables
  PROVE  TableJob(v)'
BY DEF TableJob

LEMMA TableJobWith ==
  ASSUME NEW v, NEW rows, job'[v].rows = rows,
         job'[v].op \in Tables /\ job'[v].at # "idle" /\ job'[v].whole => rows = <<>> \/ Full(rows),
         job'[v].op = "Leaderboard" => job'[v].whole /\ Full(rows)
  PROVE  TableJob(v)'
<1>1. ASSUME Full(rows) PROVE Full(job[v].rows)'
  BY <1>1 DEF Full, Lists, Distinct, RanksRight
<1> QED
  BY <1>1 DEF TableJob

\* The totals, while what the ticker does with them stays.
LEMMA TotalsKept ==
  ASSUME TotalsOK, total' = total, board'["Leaderboard"] = board["Leaderboard"],
         job'[Ticker] = job[Ticker] \/ (job[Ticker].op # "Leaderboard" /\ job'[Ticker].op # "Leaderboard"),
         {"Leaderboard", "Total"} \cap torn' = {} => {"Leaderboard", "Total"} \cap torn = {}
  PROVE  TotalsOK'
BY DEF TotalsOK, TotalsUpTo, TotalsOf

\* A step that is not one of the tables.
LEMMA TablesKept ==
  ASSUME JobsFit, JobsFit', TablesRight, board' = board, total' = total, torn' = torn,
         \A v \in Everyone : job'[v] = job[v] \/ (job[v].op \notin Tables /\ job'[v].op \notin Tables)
  PROVE  TablesRight'
<1>1. ASSUME NEW v \in Everyone PROVE TableJob(v)'
  BY TableJobKept, TableJobNone DEF TablesRight, TableJobs
<1>2. ASSUME NEW t \in Tables PROVE TableOK(t)'
  <2>1. \A v \in Everyone : job'[v] = job[v] \/ (~ At(v, t, "fill") /\ ~ At(v, t, "fill")')
    OBVIOUS
  <2> QED
    BY <2>1, TableKept DEF TablesRight, TablesOK
<1>3. TotalsOK'
  BY TotalsKept DEF TablesRight
<1> QED
  BY <1>1, <1>2, <1>3 DEF TablesRight, TableJobs, TablesOK

LEMMA OtherTables ==
  ASSUME JobsFit, JobsFit', TablesRight, board' = board, total' = total, torn' = torn,
         NEW w \in Everyone, job[w].op \notin Tables, job'[w].op \notin Tables,
         \A v \in Everyone \ {w} : job'[v] = job[v]
  PROVE  TablesRight'
<1>1. \A v \in Everyone : job'[v] = job[v] \/ (job[v].op \notin Tables /\ job'[v].op \notin Tables)
  OBVIOUS
<1> QED
  BY <1>1, TablesKept

\* The calls leave the tables alone.
LEMMA CallTables ==
  ASSUME Shape, JobsFit', TablesRight, ChallengesNext, ~ BoardNext
  PROVE  TablesRight'
<1>1. board' = board /\ total' = total /\ torn' = torn
  <2>1. CASE SetMarketDay \/ saveNewUserState
    BY <2>1 DEF SetMarketDay, saveNewUserState
  <2>2. ASSUME NEW w \in Workers, AdminStep(w) PROVE board' = board /\ total' = total /\ torn' = torn
    BY <2>2 DEF AdminStep, SaveChallenge, CheckOpen, saveUsersState, OpenFails, CheckClose, TakeJudged,
                JudgeLost, JudgeState, JudgeFails, CommitJudged, SetIsDailyChallengeOpen
  <2>3. ASSUME NEW w \in Workers, ClaimStep(w) \/ StartAdd(w) \/ StartClaim(w) \/ Start(w, "open") \/ Start(w, "close")
        PROVE  board' = board /\ total' = total /\ torn' = torn
    BY <2>3 DEF ClaimStep, LockClaimant, PayReward, PayFails, StartAdd, StartClaim, Start
  <2> QED
    BY <2>1, <2>2, <2>3 DEF ChallengesNext
<1>2. \A v \in Everyone : job'[v] = job[v] \/ (job[v].op \notin Tables /\ job'[v].op \notin Tables)
  <2>1. CASE SetMarketDay \/ saveNewUserState
    BY <2>1 DEF SetMarketDay, saveNewUserState
  <2>2. ASSUME NEW w \in Workers, AdminStep(w) \/ ClaimStep(w)
        PROVE  \A v \in Everyone : job'[v] = job[v] \/ (job[v].op \notin Tables /\ job'[v].op \notin Tables)
    <3>1. /\ job[w].op \in CallOps /\ (job'[w].op = job[w].op \/ job'[w] = Idle)
          /\ \A v \in Everyone \ {w} : job'[v] = job[v]
      BY <2>2, AdminSteps DEF Shape
    <3>2. job[w].op \notin Tables /\ job'[w].op \notin Tables
      BY <3>1, IdleFits DEF CallOps
    <3> QED
      BY <3>1, <3>2
  <2>3. ASSUME NEW w \in Workers, NEW k, job' = [job EXCEPT ![w] = k], job[w].op = "idle", k.op \in CallOps
        PROVE  \A v \in Everyone : job'[v] = job[v] \/ (job[v].op \notin Tables /\ job'[v].op \notin Tables)
    <3>1. job'[w] = k /\ \A v \in Everyone \ {w} : job'[v] = job[v]
      BY <2>3 DEF Shape, JobsFit
    <3> QED
      BY <2>3, <3>1 DEF CallOps
  <2>4. ASSUME NEW w \in Workers, StartAdd(w) \/ StartClaim(w) \/ Start(w, "open") \/ Start(w, "close")
        PROVE  \E op \in CallOps : \E at, rows : Begin(w, op, at, rows, TRUE)
    BY <2>4 DEF StartAdd, StartClaim, Start, CallOps
  <2>5. ASSUME NEW w \in Workers, NEW op \in CallOps, NEW at, NEW rows, Begin(w, op, at, rows, TRUE)
        PROVE  \A v \in Everyone : job'[v] = job[v] \/ (job[v].op \notin Tables /\ job'[v].op \notin Tables)
    <3>1. job' = [job EXCEPT ![w] = Begun(op, at, rows, TRUE)] /\ job[w].op = "idle"
      BY <2>5 DEF Begin, Begun, Idle
    <3>2. Begun(op, at, rows, TRUE).op \in CallOps
      BY DEF Begun
    <3> QED
      BY <2>3, <3>1, <3>2
  <2> QED
    BY <2>1, <2>2, <2>4, <2>5 DEF ChallengesNext
<1> QED
  BY <1>1, <1>2, TablesKept DEF Shape

\* So do the trades.
LEMMA TradeTables ==
  ASSUME JobsFit, JobsFit', TablesRight, NEW w \in Workers, StartTrade(w) \/ TradeStep(w)
  PROVE  TablesRight'
<1>1. board' = board /\ total' = total /\ torn' = torn
  BY DEF StartTrade, TradeStep, LockUser, SaveTrade, TradeFails
<1>2. job[w].op \notin Tables /\ job'[w].op \notin Tables /\ \A v \in Everyone \ {w} : job'[v] = job[v]
  <2>1. CASE StartTrade(w)
    <3>1. PICK u \in Users, v \in Users : Begin(w, "trade", "lock", <<u, v>>, TRUE)
      BY <2>1 DEF StartTrade
    <3>2. job[w].op = "idle" /\ job'[w].op = "trade" /\ \A x \in Everyone \ {w} : job'[x] = job[x]
      BY <3>1, Begins
    <3> QED
      BY <3>2
  <2>2. CASE TradeStep(w)
    <3>1. job[w].op = "trade" /\ (Finish(w) \/ GoTo(w, "save", 1) \/ GoTo(w, "lock", 2))
      BY <2>2 DEF TradeStep, LockUser, SaveTrade, TradeFails
    <3> QED
      BY <3>1, Ends, GoesOn
  <2> QED
    BY <2>1, <2>2
<1> QED
  BY <1>1, <1>2, OtherTables

\* A step on a table that nobody fills meanwhile: the others are kept.
LEMMA NoFill ==
  ASSUME JobsFit, JobsFit', TablesOK, NEW w \in Everyone, \A v \in Everyone \ {w} : job'[v] = job[v],
         board' = board, job[w].at # "fill", job'[w].at # "fill", torn \subseteq torn'
  PROVE  TablesOK'
<1>1. ASSUME NEW t \in Tables PROVE TableOK(t)'
  <2>1. \A v \in Everyone : job'[v] = job[v] \/ (~ At(v, t, "fill") /\ ~ At(v, t, "fill")')
    OBVIOUS
  <2> QED
    BY <2>1, TableKept DEF TablesOK
<1> QED
  BY <1>1 DEF TablesOK

LEMMA OtherJobs ==
  ASSUME TableJobs, NEW w \in Everyone, \A v \in Everyone \ {w} : job'[v] = job[v], TableJob(w)'
  PROVE  TableJobs'
BY TableJobKept DEF TableJobs

LEMMA OnTicker ==
  ASSUME JobsFit, NEW k, job' = [job EXCEPT ![Ticker] = k]
  PROVE  job'[Ticker] = k /\ \A v \in Everyone \ {Ticker} : job'[v] = job[v]
BY DEF JobsFit

LEMMA StartLeaderboardTables ==
  ASSUME Shape, JobsFit', TablesRight, StartLeaderboard
  PROVE  TablesRight'
<1>1. PICK rows : /\ job' = [job EXCEPT ![Ticker] = Begun("Leaderboard", "take", rows, TRUE)]
                  /\ Full(rows)
  BY StartLeaderboardIs DEF Shape
<1>2. /\ job'[Ticker] = Begun("Leaderboard", "take", rows, TRUE)
      /\ \A v \in Everyone \ {Ticker} : job'[v] = job[v]
  BY <1>1, OnTicker DEF Shape
<1>3. /\ job'[Ticker].op = "Leaderboard" /\ job'[Ticker].at = "take" /\ job'[Ticker].rows = rows
      /\ job'[Ticker].i = 1 /\ job'[Ticker].whole /\ job[Ticker].at # "fill"
  BY <1>2 DEF Begun, StartLeaderboard, Idle
<1>4. TableJob(Ticker)'
  BY <1>1, <1>3, TableJobWith
<1>5. TableJobs'
  BY <1>2, <1>4, OtherJobs DEF TablesRight
<1>6. TablesOK'
  BY <1>2, <1>3, NoFill DEF TablesRight, StartLeaderboard, Shape
<1>7. TotalsOK'
  BY <1>3 DEF TotalsOK, TotalsUpTo
<1> QED
  BY <1>5, <1>6, <1>7 DEF TablesRight

\* The ticker goes on with the rows that it has.
LEMMA TickerGoes ==
  ASSUME Shape, JobsFit', TablesRight, NEW at, NEW i, GoTo(Ticker, at, i), job[Ticker].op = "Leaderboard",
         job[Ticker].at \in {"take", "save"}, at \in {"take", "save", "truncate"},
         board' = board, torn' = torn
  PROVE  /\ TableJobs' /\ TablesOK'
         /\ job'[Ticker].op = "Leaderboard" /\ job'[Ticker].at = at /\ job'[Ticker].i = i
         /\ job'[Ticker].rows = job[Ticker].rows
         /\ job[Ticker].rows \in Seq(TableRow) /\ Distinct(job[Ticker].rows)
         /\ DOMAIN job[Ticker].rows = 1 .. Len(job[Ticker].rows) /\ Len(job[Ticker].rows) \in Nat
<1>1. /\ job'[Ticker].op = job[Ticker].op /\ job'[Ticker].rows = job[Ticker].rows /\ job'[Ticker].at = at
      /\ job'[Ticker].i = i /\ job'[Ticker].whole = job[Ticker].whole
      /\ \A v \in Everyone \ {Ticker} : job'[v] = job[v]
  BY GoesOn DEF Shape
<1>2. TableJob(Ticker)
  BY DEF TablesRight, TableJobs
<1>3. TableJob(Ticker)'
  <2>1. PICK rows : rows = job[Ticker].rows
    OBVIOUS
  <2>2. Full(rows) /\ job[Ticker].whole
    BY <1>2, <2>1 DEF TableJob
  <2> QED
    BY <1>1, <2>1, <2>2, TableJobWith
<1>4. TableJobs'
  BY <1>1, <1>3, OtherJobs DEF TablesRight
<1>5. TablesOK'
  BY <1>1, NoFill DEF TablesRight, Shape
<1>6. job[Ticker].rows \in Seq(TableRow)
  BY TickerRow DEF Shape
<1>7. Distinct(job[Ticker].rows)
  BY <1>2 DEF TableJob, Full, Lists
<1> QED
  BY <1>1, <1>4, <1>5, <1>6, <1>7

LEMMA TakeUserTables ==
  ASSUME Shape, JobsFit', TablesRight, TakeUser
  PROVE  TablesRight'
<1> DEFINE rows == job[Ticker].rows
           i == job[Ticker].i
<1>1. /\ GoTo(Ticker, "save", i) /\ job[Ticker].op = "Leaderboard" /\ job[Ticker].at = "take"
      /\ total' = [total EXCEPT ![Next1] = rows[i].total] /\ board' = board /\ torn' = torn
  BY DEF TakeUser
<1>2. /\ TableJobs' /\ TablesOK'
      /\ job'[Ticker].op = "Leaderboard" /\ job'[Ticker].at = "save" /\ job'[Ticker].i = i
      /\ job'[Ticker].rows = rows
      /\ rows \in Seq(TableRow) /\ Distinct(rows)
      /\ DOMAIN rows = 1 .. Len(rows) /\ Len(rows) \in Nat
  BY <1>1, TickerGoes
<1>3. i \in 1 .. Len(rows) /\ Next1 \in Users /\ Next1 = rows[i].user
  BY <1>1, TickerRow DEF Shape, Next1
<1>4. TotalsUpTo(rows, i - 1)
  BY <1>1 DEF TablesRight, TotalsOK
<1>5. total \in [Users -> Nat]
  BY DEF Shape, UsersTyped
<1> HIDE DEF rows, i
<1>6. ASSUME NEW k \in 1 .. i PROVE total'[rows[k].user] = rows[k].total
  <2>1. CASE k = i
    BY <2>1, <1>1, <1>3, <1>5
  <2>2. CASE k # i
    <3>1. k \in 1 .. i - 1 /\ k \in DOMAIN rows /\ i \in DOMAIN rows
      BY <1>2, <1>3, <2>2
    <3>2. rows[k].user # Next1
      BY <1>2, <1>3, <2>2, <3>1 DEF Distinct
    <3>3. total[rows[k].user] = rows[k].total
      BY <1>4, <3>1 DEF TotalsUpTo
    <3>4. rows[k] \in TableRow
      BY <1>2, <3>1, ElementOfSeq
    <3>5. rows[k].user \in Users
      BY <3>4 DEF TableRow
    <3> QED
      BY <1>1, <1>5, <3>2, <3>3, <3>5
  <2> QED
    BY <2>1, <2>2
<1>7. TotalsOK'
  BY <1>2, <1>6 DEF TotalsOK, TotalsUpTo
<1> QED
  BY <1>2, <1>7 DEF TablesRight

LEMMA SaveUserTables ==
  ASSUME Shape, JobsFit', TablesRight, SaveUser
  PROVE  TablesRight'
<1> DEFINE rows == job[Ticker].rows
           i == job[Ticker].i
<1>1. /\ job[Ticker].op = "Leaderboard" /\ job[Ticker].at = "save"
      /\ total' = total /\ board' = board /\ torn' = torn
      /\ IF i = Len(rows) THEN GoTo(Ticker, "truncate", 1) ELSE GoTo(Ticker, "take", i + 1)
  BY DEF SaveUser
<1>2. TotalsUpTo(rows, i) /\ i \in 1 .. Len(rows)
  BY <1>1, TickerRow DEF TablesRight, TotalsOK, Shape
<1>3. CASE i = Len(rows)
  <2>1. /\ TableJobs' /\ TablesOK'
        /\ job'[Ticker].op = "Leaderboard" /\ job'[Ticker].at = "truncate"
        /\ job'[Ticker].rows = rows /\ DOMAIN rows = 1 .. Len(rows)
    BY <1>1, <1>3, TickerGoes
  <2> HIDE DEF rows, i
  <2>2. TotalsOK'
    BY <1>1, <1>2, <1>3, <2>1 DEF TotalsOK, TotalsOf, TotalsUpTo
  <2> QED
    BY <2>1, <2>2 DEF TablesRight
<1>4. CASE i # Len(rows)
  <2>1. /\ TableJobs' /\ TablesOK'
        /\ job'[Ticker].op = "Leaderboard" /\ job'[Ticker].at = "take" /\ job'[Ticker].i = i + 1
        /\ job'[Ticker].rows = rows /\ Len(rows) \in Nat
    BY <1>1, <1>4, TickerGoes
  <2> HIDE DEF rows, i
  <2>2. (i + 1) - 1 = i
    BY <1>2, <2>1
  <2>3. TotalsOK'
    BY <1>1, <1>2, <2>1, <2>2 DEF TotalsOK, TotalsUpTo
  <2> QED
    BY <2>1, <2>3 DEF TablesRight
<1> QED
  BY <1>3, <1>4

LEMMA DailyJob ==
  ASSUME NEW v, job'[v] = Daily
  PROVE  TableJob(v)' /\ job'[v].op = "Daily" /\ job'[v].at = "idle"
BY DailyFits DEF TableJob

\* The leaderboard was given up before it was written.
LEMMA TickerFailsTables ==
  ASSUME Shape, JobsFit', TablesRight, TakeUserFails \/ SaveUserFails
  PROVE  TablesRight'
<1>1. /\ GoOnDaily /\ job[Ticker].at \in {"take", "save"} /\ torn' = torn \cup {"Total"}
      /\ board' = board
  BY DEF TakeUserFails, SaveUserFails
<1>2. job'[Ticker] = Daily /\ \A v \in Everyone \ {Ticker} : job'[v] = job[v]
  BY <1>1, GoesOnDaily DEF Shape
<1>3. TableJob(Ticker)' /\ job'[Ticker].op = "Daily" /\ job'[Ticker].at = "idle"
  BY <1>2, DailyJob
<1>4. TableJobs'
  BY <1>2, <1>3, OtherJobs DEF TablesRight
<1>5. TablesOK'
  BY <1>1, <1>2, <1>3, NoFill DEF TablesRight, Shape
<1>6. TotalsOK'
  BY <1>1, <1>3 DEF TotalsOK
<1> QED
  BY <1>4, <1>5, <1>6 DEF TablesRight

LEMMA WholeIs ==
  ASSUME TablesOK, NEW t \in Tables, Whole(t)
  PROVE  board[t] = <<>> \/ Full(board[t])
BY DEF TablesOK, TableOK, Whole

LEMMA StartDailyTables ==
  ASSUME Shape, JobsFit', TablesRight, StartDaily
  PROVE  TablesRight'
<1> DEFINE whole == Whole("Leaderboard") /\ Whole("EndOfDay")
<1>1. PICK rows : /\ job' = [job EXCEPT ![Ticker] = Begun("Daily", "truncate", rows, whole)]
                  /\ board["Leaderboard"] = <<>> => rows = <<>>
                  /\ /\ Lists(board["Leaderboard"])
                     /\ board["EndOfDay"] = <<>> \/ Lists(board["EndOfDay"])
                     => Full(rows)
  BY StartDailyIs DEF Shape
<1>2. ASSUME whole PROVE rows = <<>> \/ Full(rows)
  BY <1>1, <1>2, WholeIs DEF TablesRight, Full
<1> HIDE DEF whole
<1>3. job'[Ticker] = Begun("Daily", "truncate", rows, whole) /\ \A v \in Everyone \ {Ticker} : job'[v] = job[v]
  BY <1>1, OnTicker DEF Shape
<1>4. /\ job'[Ticker].op = "Daily" /\ job'[Ticker].at = "truncate" /\ job'[Ticker].rows = rows
      /\ job'[Ticker].whole = whole
  BY <1>3 DEF Begun
<1>5. TableJob(Ticker)'
  BY <1>2, <1>4 DEF TableJob, Full, Lists, Distinct, RanksRight
<1>6. TableJobs'
  BY <1>3, <1>5, OtherJobs DEF TablesRight
<1>7. job[Ticker].op = "Daily" /\ job[Ticker].at = "idle" /\ board' = board /\ torn' = torn /\ total' = total
  BY DEF StartDaily
<1>8. TablesOK'
  BY <1>3, <1>4, <1>7, NoFill DEF TablesRight, Shape
<1>9. TotalsOK'
  BY <1>4, <1>7, TotalsKept DEF TablesRight
<1> QED
  BY <1>6, <1>8, <1>9 DEF TablesRight

LEMMA StartEndOfDayTables ==
  ASSUME Shape, JobsFit', TablesRight, NEW w \in Workers, StartEndOfDay(w)
  PROVE  TablesRight'
<1> DEFINE whole == Whole("Leaderboard")
           rows == board["Leaderboard"]
<1>1. Begin(w, "EndOfDay", "truncate", rows, whole)
  BY DEF StartEndOfDay
<1>2. whole => rows = <<>> \/ Full(rows)
  BY WholeIs DEF TablesRight
<1> HIDE DEF whole
<1>3. /\ job[w].op = "idle" /\ job[w].at = "idle"
      /\ job'[w] = [op |-> "EndOfDay", at |-> "truncate", rows |-> rows, i |-> 1, whole |-> whole]
      /\ \A v \in Everyone \ {w} : job'[v] = job[v]
  BY <1>1, Begins DEF Shape, Idle
<1>4. TableJob(w)'
  <2>1. /\ job'[w].op = "EndOfDay" /\ job'[w].at = "truncate" /\ job'[w].rows = rows
        /\ job'[w].whole = whole
    BY <1>3
  <2>2. PICK copy : copy = rows
    OBVIOUS
  <2> QED
    BY <1>2, <2>1, <2>2, TableJobWith
<1>5. TableJobs'
  BY <1>3, <1>4, OtherJobs DEF TablesRight
<1>6. board' = board /\ torn' = torn /\ total' = total /\ job'[Ticker] = job[Ticker]
  BY <1>3, Names DEF StartEndOfDay
<1>7. TablesOK'
  BY <1>3, <1>6, NoFill DEF TablesRight, Shape
<1>8. TotalsOK'
  BY <1>6, TotalsKept DEF TablesRight
<1> QED
  BY <1>5, <1>7, <1>8 DEF TablesRight

\* A step of the writing of one table: the others are kept.
LEMMA OneTable ==
  ASSUME JobsFit, JobsFit', TablesOK, NEW w \in Everyone, NEW t \in Tables, job[w].op = t,
         \A v \in Everyone \ {w} : job'[v] = job[v], job'[w].op = t \/ job'[w].at # "fill",
         \A u \in Tables \ {t} : board'[u] = board[u] /\ (u \notin torn' => u \notin torn),
         TableOK(t)'
  PROVE  TablesOK'
<1>1. ASSUME NEW u \in Tables \ {t} PROVE TableOK(u)'
  <2>1. \A v \in Everyone : job'[v] = job[v] \/ (~ At(v, u, "fill") /\ ~ At(v, u, "fill")')
    OBVIOUS
  <2>2. TableOK(u)
    BY DEF TablesOK
  <2> HIDE DEF Tables
  <2> QED
    BY <2>1, <2>2, TableKept
<1> QED
  BY <1>1 DEF TablesOK

LEMMA Writer ==
  ASSUME JobsFit, NEW w \in Everyone, NEW t \in Tables, job[w].op = t
  PROVE  /\ w # Ticker => t = "EndOfDay"
         /\ w = Ticker => t # "EndOfDay"
         /\ job[w].at # "idle" => job[w].rows \in Seq(TableRow)
         /\ t = "Leaderboard" => job[w].rows # <<>>
<1>1. /\ job[w].op \in IF w = Ticker THEN TickerOps ELSE WorkerOps
      /\ TableFits(job[w])
  BY DEF JobsFit, JobFits
<1>2. t = "Leaderboard" => job[w].i \in 1 .. Len(job[w].rows)
  BY <1>1 DEF TableFits
<1>3. Len(<<>>) = 0
  OBVIOUS
<1> QED
  BY <1>1, <1>2, <1>3 DEF TableFits

\* A job that goes on with its rows, and one that ends.
LEMMA TableJobGoes ==
  ASSUME NEW v, TableJob(v), job[v].at # "idle", job'[v].op = job[v].op, job'[v].rows = job[v].rows,
         job'[v].whole = job[v].whole
  PROVE  TableJob(v)'
<1>1. PICK rows : rows = job[v].rows
  OBVIOUS
<1> QED
  BY <1>1, TableJobWith DEF TableJob

LEMMA TableJobEnds ==
  ASSUME NEW v, job'[v] = Daily \/ job'[v] = Idle
  PROVE  TableJob(v)' /\ job'[v].op \in {"Daily", "idle"} /\ job'[v].at = "idle"
BY DailyJob, TableJobNone, IdleFits

LEMMA TruncateTables ==
  ASSUME Shape, JobsFit', TablesRight, NEW w \in Everyone, NEW t \in Tables, Truncate(w, t)
  PROVE  TablesRight'
<1>1. /\ job[w].op = t /\ job[w].at = "truncate" /\ total' = total
      /\ board' = [board EXCEPT ![t] = <<>>]
      /\ torn' = IF job[w].whole /\ Writing(t) = {}
                 THEN torn \ (IF t = "Leaderboard" THEN {t, "Total"} ELSE {t})
                 ELSE torn \cup {t}
  BY DEF Truncate
<1>2. \/ job[w].rows = <<>> /\ Finish(w)
      \/ job[w].rows # <<>> /\ GoTo(w, "fill", 1)
  BY DEF Truncate
<1>3. \/ job[w].rows = <<>> /\ job'[w] = Idle /\ job'[w].op = "idle" /\ job'[w].at = "idle"
      \/ /\ job[w].rows # <<>> /\ job'[w].op = t /\ job'[w].rows = job[w].rows /\ job'[w].at = "fill"
         /\ job'[w].i = 1 /\ job'[w].whole = job[w].whole
  BY <1>1, <1>2, Ends, GoesOn, IdleFits DEF Shape
<1>4. \A v \in Everyone \ {w} : job'[v] = job[v]
  BY <1>2, Ends, GoesOn DEF Shape
<1>5. board'[t] = <<>> /\ \A u \in Tables \ {t} : board'[u] = board[u]
  BY <1>1 DEF Shape, TablesTyped
<1>6. TableJob(w)'
  BY <1>1, <1>3, TableJobEnds, TableJobGoes DEF TablesRight, TableJobs
<1>7. TableJobs'
  BY <1>4, <1>6, OtherJobs DEF TablesRight
<1>8. TableOK(t)'
  <2>1. SUFFICES ASSUME t \notin torn' PROVE /\ Writing(t)' = {} => board'[t] = <<>>
                                             /\ \A v, x \in Writing(t)' : v = x
                                             /\ \A x \in Writing(t)' : job'[x].whole /\ board'[t] = SubSeq(job'[x].rows, 1, job'[x].i - 1)
    BY DEF TableOK
  <2>2. job[w].whole /\ Writing(t) = {}
    BY <1>1, <2>1
  <2>3. \A v \in Everyone \ {w} : ~ At(v, t, "fill")'
    BY <1>4, <2>2, WritingIs DEF Shape
  <2>4. \A x \in Writing(t)' : x = w
    BY <2>3, WritingNext
  <2>5. ASSUME w \in Writing(t)' PROVE job'[w].whole /\ board'[t] = SubSeq(job'[w].rows, 1, job'[w].i - 1)
    <3>1. job'[w].at = "fill"
      BY <2>5, WritingNext
    <3>2. job'[w].whole /\ job'[w].i = 1
      BY <1>3, <2>2, <3>1
    <3>3. SubSeq(job'[w].rows, 1, job'[w].i - 1) = <<>>
      BY <3>2, SubSeqEmpty
    <3> QED
      BY <1>5, <3>2, <3>3
  <2> QED
    BY <1>5, <2>4, <2>5
<1>9. TablesOK'
  <2>1. \A u \in Tables \ {t} : u \notin torn' => u \notin torn
    BY <1>1
  <2>2. job'[w].op = t \/ job'[w].at # "fill"
    BY <1>3
  <2> QED
    BY <1>1, <1>4, <1>5, <1>8, <2>1, <2>2, OneTable DEF Shape, TablesRight
<1>10. TotalsOK'
  <2>1. CASE t # "Leaderboard"
    <3>1. /\ board'["Leaderboard"] = board["Leaderboard"]
          /\ {"Leaderboard", "Total"} \cap torn' = {} => {"Leaderboard", "Total"} \cap torn = {}
      BY <1>1, <1>5, <2>1
    <3>2. job'[Ticker] = job[Ticker] \/ (job[Ticker].op # "Leaderboard" /\ job'[Ticker].op # "Leaderboard")
      BY <1>1, <1>3, <1>4, <2>1
    <3> QED
      BY <1>1, <3>1, <3>2, TotalsKept DEF TablesRight
  <2>2. CASE t = "Leaderboard"
    <3>1. w = Ticker /\ job[w].rows # <<>>
      BY <1>1, <2>2, Writer DEF Shape
    <3>2. TotalsOf(job[Ticker].rows)
      BY <1>1, <2>2, <3>1 DEF TablesRight, TotalsOK
    <3>3. job'[Ticker].op = "Leaderboard" /\ job'[Ticker].at = "fill" /\ job'[Ticker].rows = job[Ticker].rows
      BY <1>3, <2>2, <3>1
    <3> QED
      BY <1>1, <3>2, <3>3 DEF TotalsOK, TotalsOf
  <2> QED
    BY <2>1, <2>2
<1> QED
  BY <1>7, <1>9, <1>10 DEF TablesRight

LEMMA FillTables ==
  ASSUME Shape, JobsFit', TablesRight, NEW w \in Everyone, NEW t \in Tables, Fill(w, t)
  PROVE  TablesRight'
<1> DEFINE rows == job[w].rows
           i == job[w].i
<1>1. /\ job[w].op = t /\ job[w].at = "fill" /\ total' = total /\ torn' = torn
      /\ board' = [board EXCEPT ![t] = Append(board[t], rows[i])]
      /\ w # Ticker => t = "EndOfDay"
  BY Writer DEF Fill, Shape
<1>2. /\ rows \in Seq(TableRow) /\ i \in 1 .. Len(rows) /\ Len(rows) \in Nat
  BY <1>1, JobIs DEF Shape, TableFits
<1>3. \/ i = Len(rows) /\ (job'[w] = IF t = "Leaderboard" THEN Daily ELSE Idle)
      \/ /\ i # Len(rows) /\ job'[w].op = t /\ job'[w].rows = rows /\ job'[w].at = "fill"
         /\ job'[w].i = i + 1 /\ job'[w].whole = job[w].whole
  <2>1. CASE i = Len(rows)
    <3>1. PICK j : job' = [job EXCEPT ![w] = j] /\ j = IF t = "Leaderboard" THEN Daily ELSE Idle
      BY <1>1, <2>1, FillEnds DEF Fill
    <3> QED
      BY <2>1, <3>1 DEF Shape, JobsFit
  <2>2. CASE i # Len(rows)
    <3>1. GoTo(w, "fill", i + 1)
      BY <2>2 DEF Fill
    <3> QED
      BY <1>1, <2>2, <3>1, GoesOn DEF Shape
  <2> QED
    BY <2>1, <2>2
<1>4. \A v \in Everyone \ {w} : job'[v] = job[v]
  <2>1. \E j : job' = [job EXCEPT ![w] = j]
    <3>1. CASE i = Len(rows)
      BY <1>1, <3>1, FillEnds DEF Fill
    <3>2. CASE i # Len(rows)
      BY <3>2, GoToIs DEF Fill, Shape
    <3> QED
      BY <3>1, <3>2
  <2> QED
    BY <2>1 DEF Shape, JobsFit
<1>5. board'[t] = Append(board[t], rows[i]) /\ \A u \in Tables \ {t} : board'[u] = board[u]
  BY <1>1 DEF Shape, TablesTyped
<1>6. TableJob(w)'
  <2>1. TableJob(w)
    BY DEF TablesRight, TableJobs
  <2> QED
    BY <1>1, <1>3, <2>1, TableJobEnds, TableJobGoes
<1>7. TableJobs'
  BY <1>4, <1>6, OtherJobs DEF TablesRight
<1>8. ASSUME t \notin torn
      PROVE  /\ board'[t] = SubSeq(rows, 1, i) /\ job[w].whole
             /\ \A v \in Everyone \ {w} : ~ At(v, t, "fill")
             /\ i = Len(rows) => board'[t] = rows /\ Full(rows)
  <2>1. w \in Writing(t) /\ TableOK(t)
    BY <1>1, WritingIs DEF Shape, TablesRight, TablesOK
  <2>2. /\ \A v \in Writing(t) : v = w
        /\ job[w].whole /\ board[t] = SubSeq(rows, 1, i - 1)
    BY <1>8, <2>1 DEF TableOK
  <2>3. TableJob(w)
    BY DEF TablesRight, TableJobs
  <2>4. rows = <<>> \/ Full(rows)
    BY <1>1, <2>2, <2>3 DEF TableJob
  <2> HIDE DEF rows, i
  <2>5. SubSeq(rows, 1, i) = SubSeq(rows, 1, i - 1) \o <<rows[i]>>
    BY <1>2, SubSeqRecursiveSecond
  <2>6. Append(board[t], rows[i]) = board[t] \o <<rows[i]>>
    <3>1. board[t] \in Seq(TableRow)
      BY DEF Shape, TablesTyped
    <3>2. rows[i] \in TableRow
      BY <1>2, ElementOfSeq
    <3> QED
      BY <3>1, <3>2
  <2>7. SubSeq(rows, 1, Len(rows)) = rows
    BY <1>2, SubSeqFull
  <2>8. rows # <<>>
    BY <1>2
  <2> QED
    BY <1>5, <2>2, <2>4, <2>5, <2>6, <2>7, <2>8, WritingIs DEF Shape
<1> HIDE DEF rows, i
<1>9. TableOK(t)'
  <2>1. SUFFICES ASSUME t \notin torn' PROVE TableOK(t)'
    BY DEF TableOK
  <2>2. /\ board'[t] = SubSeq(rows, 1, i) /\ job[w].whole
        /\ \A v \in Everyone \ {w} : ~ At(v, t, "fill")'
        /\ i = Len(rows) => board'[t] = rows /\ Full(rows)
    BY <1>1, <1>4, <1>8, <2>1
  <2>3. \A x \in Writing(t)' : x = w
    BY <2>2, WritingNext
  <2>4. CASE i = Len(rows)
    <3>1. job'[w].at = "idle"
      BY <1>3, <2>4, <1>2, TableJobEnds, DailyFits, IdleFits
    <3>2. Writing(t)' = {}
      BY <2>3, <3>1, WritingNext
    <3>3. PICK copy : copy = rows
      OBVIOUS
    <3>4. Full(copy) /\ board'[t] = copy
      BY <2>2, <2>4, <3>3
    <3>5. Full(board[t])'
      BY <3>4 DEF Full, Lists, Distinct, RanksRight
    <3> QED
      BY <3>2, <3>5 DEF TableOK
  <2>5. CASE i # Len(rows)
    <3>1. job'[w].at = "fill" /\ job'[w].op = t /\ job'[w].rows = rows /\ job'[w].i = i + 1 /\ job'[w].whole
      BY <1>3, <2>2, <2>5
    <3>2. job'[w].i - 1 = i
      BY <1>2, <3>1
    <3>3. w \in Writing(t)'
      BY <3>1, WritingNext
    <3> QED
      BY <2>2, <2>3, <3>1, <3>2, <3>3 DEF TableOK
  <2> QED
    BY <2>4, <2>5
<1>10. job'[w].op = t \/ (job'[w].at = "idle" /\ job'[w].op # "Leaderboard")
  BY <1>3, TableJobEnds, DailyFits, IdleFits
<1>11. TablesOK'
  BY <1>1, <1>4, <1>5, <1>9, <1>10, OneTable DEF Shape, TablesRight
<1>12. TotalsOK'
  <2>1. CASE t # "Leaderboard"
    <3>1. board'["Leaderboard"] = board["Leaderboard"]
      BY <1>5, <2>1
    <3>2. job'[Ticker] = job[Ticker] \/ (job[Ticker].op # "Leaderboard" /\ job'[Ticker].op # "Leaderboard")
      BY <1>1, <1>4, <1>10, <2>1
    <3> QED
      BY <1>1, <3>1, <3>2, TotalsKept DEF TablesRight
  <2>2. CASE t = "Leaderboard"
    <3>1. w = Ticker
      BY <1>1, <2>2
    <3>2. TotalsOf(rows)
      BY <1>1, <2>2, <3>1 DEF TablesRight, TotalsOK, rows
    <3>3. CASE i = Len(rows)
      <4>1. job'[Ticker].op = "Daily"
        BY <1>3, <2>2, <3>1, <3>3, DailyFits
      <4>2. "Leaderboard" \notin torn => board'["Leaderboard"] = rows
        BY <1>8, <2>2, <3>3
      <4>3. "Leaderboard" \notin torn => TotalsOf(board["Leaderboard"])'
        BY <1>1, <3>2, <4>2 DEF TotalsOf
      <4> QED
        BY <1>1, <4>1, <4>3 DEF TotalsOK
    <3>4. CASE i # Len(rows)
      <4>1. job'[Ticker].op = "Leaderboard" /\ job'[Ticker].at = "fill" /\ job'[Ticker].rows = rows
        BY <1>3, <2>2, <3>1, <3>4
      <4> QED
        BY <1>1, <3>2, <4>1 DEF TotalsOK, TotalsOf
    <3> QED
      BY <3>3, <3>4
  <2> QED
    BY <2>1, <2>2
<1> QED
  BY <1>7, <1>11, <1>12 DEF TablesRight

LEMMA FillFailsTables ==
  ASSUME Shape, JobsFit', TablesRight, NEW w \in Everyone, NEW t \in Tables, FillFails(w, t)
  PROVE  TablesRight'
<1>1. /\ job[w].op = t /\ job[w].at = "fill" /\ total' = total /\ board' = board
      /\ torn' = torn \cup {t}
      /\ w # Ticker => t = "EndOfDay"
  BY Writer DEF FillFails, Shape
<1>2. PICK j : job' = [job EXCEPT ![w] = j] /\ j = IF t = "Leaderboard" THEN Daily ELSE Idle
  BY <1>1, FillEnds DEF FillFails
<1>3. job'[w] = j /\ \A v \in Everyone \ {w} : job'[v] = job[v]
  BY <1>2 DEF Shape, JobsFit
<1>4. TableJob(w)' /\ job'[w].op \in {"Daily", "idle"} /\ job'[w].at = "idle"
  BY <1>2, <1>3, TableJobEnds
<1>5. TableJobs'
  BY <1>3, <1>4, OtherJobs DEF TablesRight
<1>6. TableOK(t)'
  BY <1>1 DEF TableOK
<1>7. TablesOK'
  BY <1>1, <1>3, <1>4, <1>6, OneTable DEF Shape, TablesRight
<1>8. TotalsOK'
  <2>1. CASE t = "Leaderboard"
    BY <1>1, <1>4, <2>1 DEF TotalsOK
  <2>2. CASE t # "Leaderboard"
    <3>1. job'[Ticker] = job[Ticker] \/ (job[Ticker].op # "Leaderboard" /\ job'[Ticker].op # "Leaderboard")
      BY <1>1, <1>3, <1>4, <2>2
    <3> QED
      BY <1>1, <3>1, TotalsKept DEF TablesRight
  <2> QED
    BY <2>1, <2>2
<1> QED
  BY <1>5, <1>7, <1>8 DEF TablesRight

LEMMA NextTables ==
  ASSUME Shape, JobsFit', TablesRight, ChallengesNext
  PROVE  TablesRight'
<1>1. CASE ~ BoardNext
  BY <1>1, CallTables
<1>2. CASE BoardNext
  <2>1. ASSUME NEW w \in Everyone, TableStep(w) PROVE TablesRight'
    BY <2>1, TruncateTables, FillTables, FillFailsTables DEF TableStep
  <2>2. CASE TickerStep
    BY <2>1, <2>2, TakeUserTables, SaveUserTables, TickerFailsTables, StartDailyTables DEF TickerStep
  <2>3. ASSUME NEW w \in Workers, StartTrade(w) \/ StartEndOfDay(w) \/ TradeStep(w) \/ TableStep(w)
        PROVE  TablesRight'
    BY <2>1, <2>3, TradeTables, StartEndOfDayTables DEF Shape
  <2> QED
    BY <1>2, <2>2, <2>3, StartLeaderboardTables DEF BoardNext
<1> QED
  BY <1>1, <1>2

LEMMA InitTables ==
  ASSUME ChallengesInit
  PROVE  TablesRight
<1>1. /\ board = [t \in Tables |-> <<>>] /\ \A w \in Everyone : job[w] = Idle
      /\ DOMAIN job = Everyone /\ torn = {}
  BY DEF ChallengesInit, BoardInit
<1>2. \A w \in Everyone : job[w].op = "idle" /\ job[w].at = "idle"
  BY <1>1, IdleFits
<1>3. TableJobs
  BY <1>2 DEF TableJobs, TableJob
<1>4. \A t \in Tables : Writing(t) = {}
  BY <1>1, <1>2 DEF Writing
<1>5. TablesOK
  BY <1>1, <1>4 DEF TablesOK, TableOK
<1>6. board["Leaderboard"] = <<>> /\ DOMAIN board["Leaderboard"] = {}
  BY <1>1
<1>7. TotalsOK
  BY <1>2, <1>6 DEF TotalsOK, TotalsOf
<1> QED
  BY <1>3, <1>5, <1>7 DEF TablesRight

LEMMA StutterTables ==
  ASSUME Shape, Shape', TablesRight, UNCHANGED challengesVars
  PROVE  TablesRight'
<1>1. job' = job /\ board' = board /\ total' = total /\ torn' = torn
  BY DEF challengesVars
<1> QED
  BY <1>1, TablesKept DEF Shape

------------------------------------------------------------------------------
(* What the runs check *)

\* The rows above one are as many in the set of rows as in the list.
LEMMA HigherRows ==
  ASSUME NEW rows, Distinct(rows), NEW total0, IsFiniteSet(DOMAIN rows)
  PROVE  Cardinality({r \in ToSet(rows) : r.total > total0})
           = Cardinality({j \in DOMAIN rows : rows[j].total > total0})
<1> DEFINE J == {j \in DOMAIN rows : rows[j].total > total0}
           R == {r \in ToSet(rows) : r.total > total0}
           f == [j \in J |-> rows[j]]
<1>1. \A j \in J : f[j] \in R
  BY DEF ToSet
<1>2. \A i, j \in J : f[i] = f[j] => i = j
  BY DEF Distinct
<1>3. \A r \in R : \E j \in J : f[j] = r
  BY DEF ToSet
<1>4. f \in Bijection(J, R)
  BY <1>1, <1>2, <1>3 DEF Bijection, Injection, Surjection, IsInjective
<1>5. IsFiniteSet(J)
  BY FS_Subset
<1> QED
  BY <1>4, <1>5, FS_Bijection DEF ExistsBijection

LEMMA BoardRight ==
  ASSUME Shape, TablesRight, NEW t \in Tables, Whole(t)
  PROVE  LET rows == ToSet(board[t])
         IN /\ board[t] # <<>> => Len(board[t]) = Cardinality(Users) /\ {r.user : r \in rows} = Users
            /\ t # "EndOfDay" => \A r \in rows : r.rank = 1 + Cardinality({s \in rows : s.total > r.total})
            /\ t = "Leaderboard" /\ job[Ticker] = Idle /\ "Total" \notin torn =>
                 \A r \in rows : total[r.user] = r.total
<1> DEFINE b == board[t]
<1>1. b \in Seq(TableRow) /\ DOMAIN b = 1 .. Len(b) /\ Len(b) \in Nat
  BY DEF Shape, TablesTyped
<1>2. b = <<>> \/ Full(b)
  BY WholeIs DEF TablesRight
<1>3. t = "Leaderboard" /\ job[Ticker] = Idle /\ "Total" \notin torn => TotalsOf(b)
  <2>1. SUFFICES ASSUME t = "Leaderboard", job[Ticker] = Idle, "Total" \notin torn PROVE TotalsOf(b)
    OBVIOUS
  <2>2. job[Ticker].op # "Leaderboard"
    BY <2>1, IdleFits
  <2>3. {"Leaderboard", "Total"} \cap torn = {}
    BY <2>1 DEF Whole
  <2> QED
    BY <2>1, <2>2, <2>3 DEF TablesRight, TotalsOK
<1>4. \A i \in DOMAIN b : b[i].user \in Users
  <2>1. \A i \in DOMAIN b : b[i] \in TableRow
    BY <1>1, ElementOfSeq
  <2> QED
    BY <2>1 DEF TableRow
<1> HIDE DEF b
<1>5. \A r : r \in ToSet(b) <=> \E i \in DOMAIN b : r = b[i]
  BY DEF ToSet
<1>6. b # <<>> => Len(b) = Cardinality(Users) /\ {r.user : r \in ToSet(b)} = Users
  BY <1>2, <1>4, <1>5 DEF Full, Lists
<1>7. \A r \in ToSet(b) : r.rank = 1 + Cardinality({s \in ToSet(b) : s.total > r.total})
  <2>1. CASE b = <<>>
    <3>1. DOMAIN b = {}
      BY <2>1
    <3> QED
      BY <3>1, <1>5
  <2>2. CASE Full(b)
    <3>1. IsFiniteSet(DOMAIN b)
      BY <1>1, FS_Interval
    <3>2. ASSUME NEW i \in DOMAIN b
          PROVE  b[i].rank = 1 + Cardinality({s \in ToSet(b) : s.total > b[i].total})
      BY <2>2, <3>1, HigherRows DEF Full, Lists, RanksRight
    <3> QED
      BY <1>5, <3>2
  <2> QED
    BY <1>2, <2>1, <2>2
<1>8. t = "Leaderboard" /\ job[Ticker] = Idle /\ "Total" \notin torn =>
        \A r \in ToSet(b) : total[r.user] = r.total
  BY <1>3, <1>5 DEF TotalsOf
<1> QED
  BY <1>6, <1>7, <1>8 DEF b

LEMMA JudgedBetweenCalls == Shape /\ Orderly => StatesJudged
<1> SUFFICES ASSUME Shape, Orderly, orderly, NEW d \in opened, NEW c \in Of(d), NEW u \in Users \ late
             PROVE  \E s \in DOMAIN states :
                      /\ \A r \in DOMAIN states : (states[r].challenge = c /\ states[r].user = u) <=> r = s
                      /\ (~ isOpen \/ d # day) => /\ states[s].final # None
                                                  /\ states[s].done <=> states[s].final >= states[s].initial + Goal
  BY DEF StatesJudged
<1>1. c \in DOMAIN challenges /\ challenges[c].day = d /\ Saved(d)
  BY DEF Of, Saved
<1>2. PICK s \in DOMAIN states : OnlyState(s, c, u)
  BY <1>1 DEF Orderly, DayRight, StatesSaved
<1>3. states[s].challenge = c /\ states[s].user = u /\ DayOf(s) = d
  BY <1>1, <1>2 DEF OnlyState, DayOf
<1>4. ~ isOpen \/ d # day => JudgedRight(s)
  BY <1>3 DEF Orderly, DayRight, OpenedIsJudged, Unjudged
<1> QED
  BY <1>2, <1>4 DEF OnlyState, JudgedRight

\* The shape of the state, the money, the challenges of the day and the tables are as the
\* calls and the ticker leave them, whatever runs beside what, for any number of users,
\* goroutines, challenges, days and errors of the database.
THEOREM ChallengesInvariant == ChallengesSpec => []ChallengesInv
<1>1. ChallengesInit => ChallengesInv
  BY InitShape, InitMoney, InitDay, InitTables DEF ChallengesInv
<1>2. ChallengesInv /\ [ChallengesNext]_challengesVars => ChallengesInv'
  <2>1. ASSUME ChallengesInv, ChallengesNext PROVE ChallengesInv'
    <3>1. Shape'
      BY <2>1, NextShape DEF ChallengesInv
    <3>2. JobsFit'
      BY <3>1 DEF Shape
    <3> QED
      BY <2>1, <3>1, <3>2, NextMoney, NextDay, NextTables DEF ChallengesInv
  <2>2. ASSUME ChallengesInv, UNCHANGED challengesVars PROVE ChallengesInv'
    BY <2>2, StutterShape, StutterMoney, StutterDay, StutterTables DEF ChallengesInv
  <2> QED
    BY <2>1, <2>2
<1> QED
  BY <1>1, <1>2, PTL DEF ChallengesSpec

\* Claiming a reward pays it once, and only for a challenge that closing the day judged done,
\* as long as no claim fails or runs beside another claim of the same reward.
THEOREM RewardsPaidOnce == ChallengesSpec => []RewardedOnce
<1>1. ChallengesInv => RewardedOnce
  BY DEF ChallengesInv, Money, AllMoney, Claimed, Orderly, DayRight, ClaimedIsDone, RewardedOnce
<1> QED
  BY <1>1, ChallengesInvariant, PTL

\* Opening a day gives every user one state of each of its challenges, and closing it judges
\* them all, however often closing failed before, as long as the administrators wait for
\* each other, the day moves forward while it is closed, and Config is written.
THEOREM StatesAlwaysJudged == ChallengesSpec => []StatesJudged
<1>1. ChallengesInv => StatesJudged
  BY JudgedBetweenCalls DEF ChallengesInv
<1> QED
  BY <1>1, ChallengesInvariant, PTL

\* A table whose last writing ended lists every user once, or is still empty, with the rank
\* that the totals give him, although the ticker, the administrators and the trades change
\* the users and the tables meanwhile; and a user's Total is the one in his row.
THEOREM BoardsAlwaysRight == ChallengesSpec => []BoardsRight
<1>1. ChallengesInv => BoardsRight
  BY BoardRight DEF ChallengesInv, BoardsRight
<1> QED
  BY <1>1, ChallengesInvariant, PTL
================================================================================
