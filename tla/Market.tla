-------------------------------- MODULE Market --------------------------------
(***************************************************************************)
(* Opening and closing the market and recording its prices:                *)
(* models/MarketClose.go and StockHistory.go, for one stock.               *)
(*                                                                         *)
(* OpenMarket starts a goroutine, the recorder, which makes the channel    *)
(* that stops it only when it runs, in a global variable.  A recorder      *)
(* waits for a tick or for the channel that the variable held when it      *)
(* began to wait.                                                          *)
(***************************************************************************)
EXTENDS Integers, FiniteSets, SequencesExt

CONSTANTS
  TradePrices,   \* the prices of a minute
  Intervals,     \* the minutes of the longer records: 5, 15, 30 and 60 in the code
  MaxMinutes,    \* bound: minutes in a behaviour
  MaxCalls,      \* bound: calls of OpenMarket and CloseMarket
  MaxUnpaired,   \* bound: the calls after which no call out of turn is followed by another
  MaxLost        \* bound: one-minute records the database refuses

ASSUME IntervalsAssumption == Intervals \subseteq Nat \ {0} /\ TradePrices \subseteq Nat
ASSUME MinutesAssumption == {MaxMinutes, MaxCalls, MaxUnpaired, MaxLost} \subseteq Nat

VARIABLES
  isMarketOpen,  \* in memory; the row of Config is written with it
  stopChan,      \* stopStockHistoryRecorderChan: the recorder that made the channel, 0 for nil
  closedChans,   \* the channels that are closed
  recorders,     \* the recorders: the channel each waits for and the minute of its last tick
  minute,        \* the minutes that passed
  minutes,       \* the one-minute records, the newest last
  longer,        \* the longer records
  calls, lost,
  paired,        \* history: the calls so far opened and closed in turn, each after the recorder
                 \* had begun, or stopped
  panics         \* history: a channel was closed twice, or nil was

marketVars == <<isMarketOpen, stopChan, closedChans, recorders, minute, minutes, longer, calls,
                lost, paired, panics>>

MarketInit ==
  /\ isMarketOpen = FALSE
  /\ stopChan = 0 /\ closedChans = {}
  /\ recorders = <<>>
  /\ minute = 0 /\ minutes = <<>> /\ longer = {}
  /\ calls = 0 /\ lost = 0
  /\ paired = TRUE /\ panics = FALSE

records == <<minute, minutes, longer, lost>>
MayCall == calls < (IF paired THEN MaxCalls ELSE MaxUnpaired)
Starting == [chan |-> 0, tick |-> 0]
Stopped == [chan |-> -1, tick |-> 0]
Alive == {r \in DOMAIN recorders : recorders[r] # Stopped}
Recording == {r \in Alive : recorders[r] # Starting}

------------------------------------------------------------------------------
(* The administrator *)

\* With updateDayHighAndLow the call returns what SetDayHighAndLow returns, and no recorder.
OpenMarket(updateDayHighAndLow) ==
  /\ MayCall /\ calls' = calls + 1
  /\ isMarketOpen' = TRUE
  /\ recorders' = IF updateDayHighAndLow THEN recorders ELSE Append(recorders, Starting)
  /\ paired' = (paired /\ ~ isMarketOpen /\ ~ updateDayHighAndLow /\ Alive = {})
  /\ UNCHANGED <<stopChan, closedChans, records, panics>>

\* Mutant: the channel is let go, not closed.
CloseMarketQuietly(updatePreviousDayClose) ==
  /\ MayCall /\ calls' = calls + 1
  /\ isMarketOpen' = FALSE
  /\ stopChan' = IF updatePreviousDayClose THEN stopChan ELSE 0
  /\ paired' = (paired /\ isMarketOpen /\ ~ updatePreviousDayClose /\ Alive = Recording)
  /\ UNCHANGED <<closedChans, recorders, records, panics>>

\* Likewise, with updatePreviousDayClose the recorder goes on.
CloseMarket(updatePreviousDayClose) ==
  /\ MayCall /\ calls' = calls + 1
  /\ isMarketOpen' = FALSE
  /\ IF updatePreviousDayClose THEN UNCHANGED <<closedChans, panics>>
     ELSE IF stopChan \in {0} \cup closedChans
     THEN panics' = TRUE /\ UNCHANGED closedChans
     ELSE closedChans' = closedChans \cup {stopChan} /\ UNCHANGED panics
  /\ paired' = (paired /\ isMarketOpen /\ ~ updatePreviousDayClose
                /\ Alive = Recording)
  /\ UNCHANGED <<stopChan, recorders, records>>

------------------------------------------------------------------------------
(* A recorder *)

\* Mutant: the channel is made only when there is none.
StartRecorderOnce(r) ==
  /\ r \in Alive \ Recording
  /\ stopChan' = IF stopChan = 0 THEN r ELSE stopChan
  /\ recorders' = [recorders EXCEPT ![r] = [chan |-> stopChan', tick |-> minute]]
  /\ UNCHANGED <<isMarketOpen, closedChans, records, calls, paired, panics>>

StartRecorder(r) ==
  /\ r \in Alive \ Recording
  /\ stopChan' = r
  /\ recorders' = [recorders EXCEPT ![r] = [chan |-> r, tick |-> minute]]
  /\ UNCHANGED <<isMarketOpen, closedChans, records, calls, paired, panics>>

StopRecorder(r) ==
  /\ r \in Recording /\ recorders[r].chan \in closedChans
  /\ recorders' = [recorders EXCEPT ![r] = Stopped]
  /\ UNCHANGED <<isMarketOpen, stopChan, closedChans, records, calls, paired, panics>>

PassMinute ==
  /\ minute < MaxMinutes /\ minute' = minute + 1
  /\ UNCHANGED <<isMarketOpen, stopChan, closedChans, recorders, minutes, longer, calls, lost,
                 paired, panics>>

Highest(S) == CHOOSE p \in S : \A q \in S : p >= q
Lowest(S) == CHOOSE p \in S : \A q \in S : p <= q

\* Mutant: the minute at the far end counts too.
recordNMinuteAndOne(recorded, read, n, now) ==
  LET recent == {i \in read : recorded[i].at >= now - n}
      used == IF recent = {} THEN read ELSE {i \in read : i >= Lowest(recent)}
  IN [at |-> now, span |-> n,
      open |-> recorded[Lowest(used)].open, close |-> recorded[Highest(read)].close,
      high |-> Highest({recorded[i].high : i \in used}),
      low |-> Lowest({recorded[i].low : i \in used}),
      volume |-> SumFunctionOnSet([i \in used |-> recorded[i].volume], used)]

\* Of the records read, those from the first one after now - n make the record of n minutes:
\* all of them when none is that new.
recordNMinute(recorded, read, n, now) ==
  LET recent == {i \in read : recorded[i].at > now - n}
      used == IF recent = {} THEN read ELSE {i \in read : i >= Lowest(recent)}
  IN [at |-> now, span |-> n,
      open |-> recorded[Lowest(used)].open, close |-> recorded[Highest(read)].close,
      high |-> Highest({recorded[i].high : i \in used}),
      low |-> Lowest({recorded[i].low : i \in used}),
      volume |-> SumFunctionOnSet([i \in used |-> recorded[i].volume], used)]

\* The records are read as far back as the longest interval that ends now.
recorderHigherInterval(now, recorded) ==
  LET ending == {n \in Intervals : now % n = 0}
      read == {i \in DOMAIN recorded : recorded[i].at >= now - Highest(ending)}
  IN IF ending = {} \/ read = {} THEN {} ELSE {recordNMinute(recorded, read, n, now) : n \in ending}

\* One tick, which may be taken before a channel that is closed as well: the record of the
\* minute is saved unless the database refuses it, then the longer ones, and the recorder
\* waits for the channel that is now in the variable.
RecordMinute(r) ==
  /\ r \in Recording /\ recorders[r].tick < minute
  /\ \E p \in TradePrices :
       LET h == [at |-> minute, open |-> p, high |-> p, low |-> p, close |-> p,
                 volume |-> 1]
       IN \/ minutes' = Append(minutes, h) /\ lost' = lost
          \/ minutes' = minutes /\ lost < MaxLost /\ lost' = lost + 1
  /\ longer' = longer \cup recorderHigherInterval(minute, minutes')
  /\ recorders' = [recorders EXCEPT ![r] = [chan |-> stopChan, tick |-> minute]]
  /\ UNCHANGED <<isMarketOpen, stopChan, closedChans, minute, calls, paired, panics>>

MarketNext ==
  \/ \E update \in BOOLEAN : OpenMarket(update) \/ CloseMarket(update)
  \/ \E r \in DOMAIN recorders : StartRecorder(r) \/ StopRecorder(r) \/ RecordMinute(r)
  \/ PassMinute

------------------------------------------------------------------------------
(* Properties *)

\* While the market is opened and closed in turn, one recorder works at a time and nothing
\* panics: no minute is recorded twice.
OneRecorder == paired =>
  /\ Cardinality(Alive) <= 1 /\ ~ panics
  /\ \A i, j \in DOMAIN minutes : i # j => minutes[i].at # minutes[j].at

\* A longer record says what the one-minute records of its time say together, also when some
\* of its minutes were not recorded; only if the database refused all of them it repeats older
\* ones.
LongerRecordsRight == paired => \A c \in longer :
  LET part == {h \in ToSet(minutes) : h.at \in c.at - c.span + 1 .. c.at}
  IN part # {} \/ lost = 0 =>
       /\ \A h \in part : c.low <= h.low /\ h.high <= c.high
       /\ \E h, k \in part : h.high = c.high /\ k.low = c.low
       /\ \E h \in part : h.open = c.open /\ \A k \in part : h.at <= k.at
       /\ \E h \in part : h.close = c.close /\ \A k \in part : k.at <= h.at
       /\ c.volume = Cardinality(part)

\* Once the market is closed its recorder stops.
MarketFairness == \A r \in 1 .. MaxCalls :
  WF_marketVars(r \in DOMAIN recorders /\ (StartRecorder(r) \/ StopRecorder(r)))
MarketSpec == MarketInit /\ [][MarketNext]_marketVars /\ MarketFairness
RecorderStops == (paired /\ ~ isMarketOpen) ~> (Alive = {} \/ isMarketOpen)

=============================================================================
