-------------------------------- MODULE Streams --------------------------------
(***************************************************************************)
(* Subscriptions and streams: grpcapi/streamservice and datastreams, for   *)
(* the order updates of one user, whose listeners are a group of a         *)
(* MulticastStream, and the depth of one stock, a BroadcastStream.         *)
(*                                                                         *)
(* A client subscribes, opens a connection for the updates and may         *)
(* unsubscribe or break the connection at any time.  An update is handed   *)
(* to one listener after another: to the handler of its connection, which  *)
(* waits for it, or to nobody once the subscription's done is closed.      *)
(***************************************************************************)
EXTENDS Integers, FiniteSets

CONSTANTS
  MaxSubs,      \* bound: subscriptions, numbered as they are made
  MaxConns,     \* bound: connections, numbered as they are opened
  Senders,      \* goroutines that send order updates
  Run,          \* the goroutine that sends the depth
  MaxBroken,    \* bound: connections that break
  MaxGroups,    \* bound: groups made
  MaxSends,     \* bound: order updates sent
  MaxChanges    \* bound: changes of the depth

ASSUME StreamsAssumption ==
  /\ {MaxSubs, MaxConns, MaxBroken, MaxGroups, MaxSends, MaxChanges} \subseteq Nat
  /\ Run \notin Senders

VARIABLES
  subs,        \* subscriptionsMap: the type of the stream, "none" before and "removed" after
  done,        \* the subscriptions whose doneChan is closed
  closing,     \* the subscriptions that Unsubscribe has removed and not yet closed
  conn,        \* the handlers: GetMyOrderUpdates and GetMarketDepthUpdates
  adding,      \* the connections whose goroutine sent the snapshot and adds the listener
  broken,      \* the connections that broke
  group,       \* the user's group in groups.m, 0 when he has none
  groupsMade,
  listeners,   \* the connection that each stream has for a subscription
  depth, diff, \* the quantity at a price, and its change since the last update
  cast,        \* the update that each sender hands on
  view,        \* the quantity a client has made of snapshot and updates
  sends, changes,
  disturbed    \* history: connections that shared a subscription, or began beside an update

vars == <<subs, done, closing, conn, adding, broken, group, groupsMade, listeners, depth, diff,
          cast, view, sends, changes, disturbed>>

Subs == 1 .. MaxSubs
Conns == 1 .. MaxConns
None == 0
Depth == -1
Streams == {Depth} \cup 1 .. MaxGroups
NoListener == [s \in Subs |-> None]
IdleCast == [at |-> "idle", stream |-> 0, left |-> {}, dead |-> {}, change |-> 0]

StreamsInit ==
  /\ subs = [s \in Subs |-> "none"] /\ done = {} /\ closing = {}
  /\ conn = [c \in Conns |-> [at |-> "idle", sub |-> None, stream |-> 0]]
  /\ adding = {} /\ broken = {}
  /\ group = 0 /\ groupsMade = 0 /\ listeners = [k \in Streams |-> NoListener]
  /\ depth = 1 /\ diff = 0   \* orders that were there before
  /\ cast = [p \in Senders \cup {Run} |-> IdleCast]
  /\ view = [c \in Conns |-> 0]
  /\ sends = 0 /\ changes = 0 /\ disturbed = {}

ConnAt(c, at) == conn[c].at = at
ConnTo(c, at) == conn' = [conn EXCEPT ![c].at = at]
CastTo(p, at) == cast' = [cast EXCEPT ![p].at = at]
Live(s) == {c \in Conns : conn[c].sub = s /\ ~ ConnAt(c, "ended")}
Joined(k) == {s \in Subs : listeners[k][s] # None}
Unlocked(k) == \A p \in DOMAIN cast : ~ (cast[p].at = "sending" /\ cast[p].stream = k)
SendingOrders == {p \in Senders : cast[p] # IdleCast}
subscriptions == <<subs, done, closing>>
groups == <<group, groupsMade, listeners>>
data == <<depth, diff, view, sends, changes>>

------------------------------------------------------------------------------
(* Subscriptions: DalalStreamService *)

Subscribe(s) ==
  /\ subs[s] = "none" /\ \A t \in 1 .. s - 1 : subs[t] # "none"
  /\ \E t \in {"orders", "depth"} : subs' = [subs EXCEPT ![s] = t]
  /\ UNCHANGED <<done, closing, conn, adding, broken, groups, cast, data, disturbed>>

\* The subscription is taken from the map, then its channel is closed.
Unsubscribe(s) ==
  /\ subs[s] \in {"orders", "depth"}
  /\ subs' = [subs EXCEPT ![s] = "removed"] /\ closing' = closing \cup {s}
  /\ UNCHANGED <<done, conn, adding, broken, groups, cast, data, disturbed>>

\* Closing a channel again panics, which ends the call and nothing else.
UnsubscribeCloses(s) ==
  /\ s \in closing
  /\ done' = done \cup {s} /\ closing' = closing \ {s}
  /\ UNCHANGED <<subs, conn, adding, broken, groups, cast, data, disturbed>>

------------------------------------------------------------------------------
(* A handler *)

GetUpdates(c, s) ==
  /\ ConnAt(c, "idle") /\ subs[s] \in {"orders", "depth"}
  /\ \A d \in 1 .. c - 1 : ~ ConnAt(d, "idle")
  /\ conn' = [conn EXCEPT ![c] =
       [at |-> IF subs[s] = "orders" THEN "joining" ELSE "snapshot", sub |-> s,
        stream |-> IF subs[s] = "orders" THEN 0 ELSE Depth]]
  /\ disturbed' = disturbed \cup (IF Live(s) = {} THEN {} ELSE Live(s) \cup {c})
  /\ UNCHANGED <<subscriptions, adding, broken, groups, cast, data>>

\* The group is found or made under the map's lock, and joined after it is given back.
FindGroup(c) ==
  /\ ConnAt(c, "joining")
  /\ IF group = 0
     THEN groupsMade < MaxGroups /\ groupsMade' = groupsMade + 1 /\ group' = groupsMade'
     ELSE UNCHANGED <<group, groupsMade>>
  /\ conn' = [conn EXCEPT ![c].at = "found", ![c].stream = group']
  /\ disturbed' = IF SendingOrders = {} THEN disturbed ELSE disturbed \cup {c}
  /\ UNCHANGED <<subscriptions, adding, broken, listeners, cast, data>>

AddListener(c) ==
  /\ ConnAt(c, "found") /\ Unlocked(conn[c].stream)
  /\ listeners' = [listeners EXCEPT ![conn[c].stream][conn[c].sub] = c]
  /\ ConnTo(c, "loop")
  /\ UNCHANGED <<subscriptions, adding, broken, group, groupsMade, cast, data, disturbed>>

\* A goroutine hands the snapshot to the handler and then adds the listener, unless done is
\* closed first.
SendSnapshot(c) ==
  /\ ConnAt(c, "snapshot")
  /\ ConnTo(c, "reading") /\ adding' = adding \cup {c}
  /\ UNCHANGED <<subscriptions, broken, groups, cast, data, disturbed>>

\* The snapshot is the map of the depth itself, read when the handler sends it to the client.
ReadSnapshot(c) ==
  /\ ConnAt(c, "reading")
  /\ view' = [view EXCEPT ![c] = depth]
  /\ ConnTo(c, "loop")
  /\ disturbed' = IF diff = 0 /\ cast[Run] = IdleCast THEN disturbed ELSE disturbed \cup {c}
  /\ UNCHANGED <<subscriptions, adding, broken, groups, depth, diff, cast, sends, changes>>

AddDepthListener(c) ==
  /\ c \in adding /\ Unlocked(Depth)
  /\ listeners' = [listeners EXCEPT ![Depth][conn[c].sub] = c]
  /\ adding' = adding \ {c}
  /\ UNCHANGED <<subscriptions, conn, broken, group, groupsMade, cast, data, disturbed>>

InLoop(c) == conn[c].at \in {"loop", "snapshot"}

Break(c) ==
  /\ ~ ConnAt(c, "idle") /\ ~ ConnAt(c, "ended") /\ c \notin broken
  /\ Cardinality(broken) < MaxBroken /\ broken' = broken \cup {c}
  /\ UNCHANGED <<subscriptions, conn, adding, groups, cast, data, disturbed>>

EndDone(c) ==
  /\ InLoop(c) /\ conn[c].sub \in done
  /\ ConnTo(c, "ended")
  /\ UNCHANGED <<subscriptions, adding, broken, groups, cast, data, disturbed>>

\* The handler takes the subscription from the map, whether it is there or not, and closes done.
EndBroken(c) ==
  /\ InLoop(c) /\ c \in broken
  /\ subs' = [subs EXCEPT ![conn[c].sub] = "removed"]
  /\ ConnTo(c, "closing")
  /\ UNCHANGED <<done, closing, adding, broken, groups, cast, data, disturbed>>

\* Mutant: the handler leaves without closing done.
CloseDoneNot(c) ==
  /\ ConnAt(c, "closing")
  /\ ConnTo(c, "ended")
  /\ UNCHANGED <<subscriptions, adding, broken, groups, cast, data, disturbed>>

CloseDone(c) ==
  /\ ConnAt(c, "closing")
  /\ done' = done \cup {conn[c].sub}
  /\ ConnTo(c, "ended")
  /\ UNCHANGED <<subs, closing, adding, broken, groups, cast, data, disturbed>>

------------------------------------------------------------------------------
(* An update: BroadcastUpdateToGroup, the run of the depth, BroadcastUpdate *)

SendOrder(p) ==
  /\ cast[p] = IdleCast /\ sends < MaxSends /\ sends' = sends + 1
  /\ group # 0
  /\ cast' = [cast EXCEPT ![p] = [IdleCast EXCEPT !.at = "found", !.stream = group]]
  /\ disturbed' = disturbed \cup {c \in Conns : ConnAt(c, "found")}
  /\ UNCHANGED <<subscriptions, conn, adding, broken, groups, depth, diff, view, changes>>

Broadcast(p) ==
  /\ cast[p].at = "found"
  /\ cast' = [cast EXCEPT ![p].at = "sending", ![p].left = Joined(cast[p].stream)]
  /\ UNCHANGED <<subscriptions, conn, adding, broken, groups, data, disturbed>>

\* AddOrder and CloseOrder
ChangeDepth == \E n \in {-1, 1} :
  /\ changes < MaxChanges /\ changes' = changes + 1
  /\ depth + n >= 0 /\ depth' = depth + n /\ diff' = diff + n
  /\ UNCHANGED <<subscriptions, conn, adding, broken, groups, cast, view, sends, disturbed>>

\* Mutant: what was taken stays for the next update.
CollectDiffKept ==
  /\ cast[Run] = IdleCast /\ Joined(Depth) # {} /\ diff # 0
  /\ cast' = [cast EXCEPT ![Run] = [IdleCast EXCEPT !.at = "found", !.stream = Depth,
                                                     !.change = diff]]
  /\ disturbed' = disturbed \cup adding
  /\ UNCHANGED <<subscriptions, conn, adding, broken, groups, depth, diff, view, sends, changes>>

\* Nothing is taken while there is no listener.
CollectDiff ==
  /\ cast[Run] = IdleCast /\ Joined(Depth) # {} /\ diff # 0
  /\ diff' = 0
  /\ cast' = [cast EXCEPT ![Run] = [IdleCast EXCEPT !.at = "found", !.stream = Depth,
                                                     !.change = diff]]
  /\ disturbed' = disturbed \cup adding
  /\ UNCHANGED <<subscriptions, conn, adding, broken, groups, depth, view, sends, changes>>

\* The listeners come in any order; a closed one may be taken for alive while its handler waits.
HandOver(p, s) ==
  LET c == listeners[cast[p].stream][s]
  IN /\ cast[p].at = "sending" /\ s \in cast[p].left
     /\ ConnAt(c, "loop")
     /\ view' = IF cast[p].stream = Depth THEN [view EXCEPT ![c] = @ + cast[p].change] ELSE view
     /\ cast' = [cast EXCEPT ![p].left = @ \ {s}]
     /\ UNCHANGED <<subscriptions, conn, adding, broken, groups, depth, diff, sends, changes,
                    disturbed>>

FindDead(p, s) ==
  /\ cast[p].at = "sending" /\ s \in cast[p].left \cap done
  /\ cast' = [cast EXCEPT ![p].left = @ \ {s}, ![p].dead = @ \cup {s}]
  /\ UNCHANGED <<subscriptions, conn, adding, broken, groups, data, disturbed>>

\* The read lock is given back; only when a listener was dead is the write lock taken.
EndSending(p) ==
  /\ cast[p].at = "sending" /\ cast[p].left = {}
  /\ CastTo(p, IF cast[p].dead = {} THEN "count" ELSE "removing")
  /\ UNCHANGED <<subscriptions, conn, adding, broken, groups, data, disturbed>>

RemoveDead(p) ==
  /\ cast[p].at = "removing" /\ Unlocked(cast[p].stream)
  /\ listeners' = [listeners EXCEPT ![cast[p].stream] =
                     [s \in Subs |-> IF s \in cast[p].dead THEN None ELSE @[s]]]
  /\ CastTo(p, "count")
  /\ UNCHANGED <<subscriptions, conn, adding, broken, group, groupsMade, data, disturbed>>

\* Mutant: a group that lost a listener is deleted.
CountListenersLost(p) ==
  /\ cast[p].at = "count"
  /\ cast' = [cast EXCEPT ![p] = IF p # Run /\ cast[p].dead # {}
                                 THEN [@ EXCEPT !.at = "deleting", !.dead = {}] ELSE IdleCast]
  /\ UNCHANGED <<subscriptions, conn, adding, broken, groups, data, disturbed>>

CountListeners(p) ==
  /\ cast[p].at = "count"
  /\ cast' = [cast EXCEPT ![p] = IF p # Run /\ Joined(cast[p].stream) = {}
                                 THEN [@ EXCEPT !.at = "deleting", !.dead = {}] ELSE IdleCast]
  /\ UNCHANGED <<subscriptions, conn, adding, broken, groups, data, disturbed>>

\* Whatever group the map has by then.
DeleteGroup(p) ==
  /\ cast[p].at = "deleting"
  /\ group' = 0
  /\ cast' = [cast EXCEPT ![p] = IdleCast]
  /\ UNCHANGED <<subscriptions, conn, adding, broken, groupsMade, listeners, data, disturbed>>

HandlerStep(c) ==
  \/ FindGroup(c) \/ AddListener(c) \/ SendSnapshot(c) \/ ReadSnapshot(c)
  \/ EndDone(c) \/ EndBroken(c) \/ CloseDone(c)
CastStep(p) ==
  \/ Broadcast(p) \/ EndSending(p) \/ RemoveDead(p) \/ CountListeners(p) \/ DeleteGroup(p)
  \/ \E s \in Subs : HandOver(p, s) \/ FindDead(p, s)

StreamsNext ==
  \/ \E s \in Subs : Subscribe(s) \/ Unsubscribe(s) \/ UnsubscribeCloses(s)
  \/ \E c \in Conns : HandlerStep(c) \/ AddDepthListener(c) \/ Break(c)
                       \/ \E s \in Subs : GetUpdates(c, s)
  \/ \E p \in Senders : SendOrder(p)
  \/ \E p \in Senders \cup {Run} : CastStep(p)
  \/ ChangeDepth \/ CollectDiff

------------------------------------------------------------------------------
(* Properties *)

Attached(c) == ConnAt(c, "loop") /\ c \notin adding /\ conn[c].sub \notin done /\ c \notin disturbed

\* A client whose subscription is his own and is not closed is a listener of the stream that
\* updates are sent to: no removal of dead listeners or of the empty group loses him.
ListenersReached == \A c \in Conns : Attached(c) =>
  LET k == IF conn[c].stream = Depth THEN Depth ELSE group
  IN k # 0 /\ listeners[k][conn[c].sub] = c

\* ... and what he knows of the depth, with the updates on their way, is the depth.
OnItsWay(c) ==
  LET r == cast[Run]
  IN IF r.at = "found" \/ (r.at = "sending" /\ conn[c].sub \in r.left) THEN r.change ELSE 0
ViewRight == \A c \in Conns : (Attached(c) /\ conn[c].stream = Depth) =>
  view[c] + OnItsWay(c) + diff = depth

\* An update is handed to everyone in the end, whoever leaves meanwhile.
StreamsFairness ==
  /\ \A c \in Conns : WF_vars(HandlerStep(c)) /\ WF_vars(AddDepthListener(c))
  /\ \A p \in Senders \cup {Run} : WF_vars(CastStep(p))
  /\ \A s \in Subs : WF_vars(UnsubscribeCloses(s))
StreamsSpec == StreamsInit /\ [][StreamsNext]_vars /\ StreamsFairness
UpdatesEnd == \A p \in Senders \cup {Run} : cast[p].at = "found" ~> cast[p] = IdleCast

=============================================================================
