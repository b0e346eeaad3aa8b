---------------------------- MODULE StreamsProofs ----------------------------
(***************************************************************************)
(* That a client whose subscription is his own is never lost as a          *)
(* listener, and that what he knows of the depth, with the updates on      *)
(* their way, is the depth: for any number of subscriptions, connections   *)
(* and senders.                                                            *)
(*                                                                         *)
(* The argument: of two connections with one subscription both are         *)
(* disturbed, or the subscription is closed (Alone), so nobody takes a     *)
(* client's place among the listeners; only closed subscriptions are       *)
(* found dead (CastsRight), so nobody removes him; and as long as he is    *)
(* there, every sender is busy with his group and none is about to delete  *)
(* it (Grouped).  A snapshot is right when it is read (Viewed), because    *)
(* nothing was taken from the depth's changes and not yet handed out, and  *)
(* nothing is taken between the snapshot and the first update he gets.     *)
(***************************************************************************)
EXTENDS Streams, TLAPS

Places == {"idle", "joining", "found", "snapshot", "reading", "loop", "closing", "ended"}
CastPlaces == {"idle", "found", "sending", "removing", "count", "deleting"}
AllSenders == Senders \cup {Run}

TypeOK ==
  /\ subs \in [Subs -> {"none", "orders", "depth", "removed"}]
  /\ done \subseteq Subs /\ closing \subseteq Subs
  /\ conn \in [Conns -> [at : Places, sub : Subs \cup {None}, stream : Streams \cup {0}]]
  /\ adding \subseteq Conns /\ broken \subseteq Conns /\ disturbed \subseteq Conns
  /\ group \in 0 .. MaxGroups /\ groupsMade \in 0 .. MaxGroups
  /\ listeners \in [Streams -> [Subs -> Conns \cup {None}]]
  /\ depth \in Nat /\ diff \in Int /\ sends \in Nat /\ changes \in Nat
  /\ cast \in [AllSenders -> [at : CastPlaces, stream : Streams \cup {0}, left : SUBSET Subs,
                              dead : SUBSET Subs, change : Int]]
  /\ view \in [Conns -> Int]

\* What a connection has, by where its handler is.
Placed == \A c \in Conns :
  /\ ConnAt(c, "idle") <=> conn[c].sub = None
  /\ conn[c].at \in {"snapshot", "reading"} => conn[c].stream = Depth
  /\ conn[c].at \in {"found", "loop", "closing"} => conn[c].stream # 0
  /\ ConnAt(c, "found") => conn[c].stream # Depth
  /\ ConnAt(c, "ended") => conn[c].sub \in done
  /\ c \in adding => conn[c].stream = Depth /\ conn[c].at \notin {"idle", "joining", "snapshot"}

\* Whoever is a listener under a subscription has that subscription.
Registered == \A k \in Streams, s \in Subs :
  listeners[k][s] # None => conn[listeners[k][s]].sub = s

\* Connections that share a subscription that is not closed are disturbed.
Alone == \A c, d \in Conns :
  c # d /\ conn[c].sub = conn[d].sub /\ conn[c].sub # None
    => conn[c].sub \in done \/ c \in disturbed

\* The senders of orders are busy with groups, the run of the depth with the depth; the dead
\* are closed.
CastsRight == \A p \in AllSenders :
  /\ cast[p].at = "idle" => cast[p] = IdleCast
  /\ cast[p].at # "idle" => (cast[p].stream = Depth <=> p = Run) /\ cast[p].stream # 0
  /\ p = Run => cast[p].at # "deleting"
  /\ cast[p].dead \subseteq done

Quiet(c) == c \notin disturbed /\ conn[c].sub \notin done

\* A client of orders: his group is the user's group and stays it.
Grouped == \A c \in Conns : Quiet(c) /\ conn[c].stream # Depth =>
  /\ ConnAt(c, "found") => /\ group = conn[c].stream
                           /\ \A p \in Senders : cast[p] = IdleCast
  /\ ConnAt(c, "loop") => /\ group = conn[c].stream
                          /\ listeners[group][conn[c].sub] = c
                          /\ \A p \in Senders : cast[p] = IdleCast \/
                               (cast[p].stream = group /\ cast[p].at # "deleting")

\* A client of the depth is a listener from when his goroutine adds him.
DepthJoined == \A c \in Conns :
  Quiet(c) /\ conn[c].stream = Depth /\ conn[c].at \in {"reading", "loop"} /\ c \notin adding
    => listeners[Depth][conn[c].sub] = c

\* His view, from when he reads the snapshot.
Viewed == \A c \in Conns : Quiet(c) /\ conn[c].stream = Depth /\ ConnAt(c, "loop") =>
  /\ view[c] + OnItsWay(c) + diff = depth
  /\ c \in adding => cast[Run] = IdleCast

IInv == TypeOK /\ Placed /\ Registered /\ Alone /\ CastsRight /\ Grouped /\ DepthJoined /\ Viewed

USE DEF NoListener, IdleCast, ConnAt, ConnTo, CastTo, Joined, Unlocked, subscriptions, groups, data,
        Places, CastPlaces, AllSenders

\* Numbers of subscriptions, connections and groups are no None, and the depth is no group.
LEMMA Numbers ==
  /\ None \notin Subs /\ None \notin Conns /\ None = 0
  /\ Depth \in Streams /\ 0 \notin Streams /\ Depth # 0
  /\ \A k \in 1 .. MaxGroups : k \in Streams /\ k # Depth /\ k # 0 /\ k \in 0 .. MaxGroups
  /\ 0 \in 0 .. MaxGroups
BY StreamsAssumption DEF Subs, Conns, Streams, None, Depth

\* A handler that goes to another place keeps the type of the handlers, and so does a sender
\* that takes another record.
LEMMA HandlersTyped ==
  ASSUME IInv, NEW c \in Conns, NEW at \in Places, ConnTo(c, at)
  PROVE  conn' \in [Conns -> [at : Places, sub : Subs \cup {None}, stream : Streams \cup {0}]]
<1>1. conn \in [Conns -> [at : Places, sub : Subs \cup {None}, stream : Streams \cup {0}]]
  BY DEF IInv, TypeOK
<1>2. conn[c] \in [at : Places, sub : Subs \cup {None}, stream : Streams \cup {0}]
  BY <1>1
<1>3. [conn[c] EXCEPT !.at = at] \in [at : Places, sub : Subs \cup {None}, stream : Streams \cup {0}]
  BY <1>2
<1>4. conn' = [conn EXCEPT ![c] = [conn[c] EXCEPT !.at = at]]
  BY <1>1
<1> QED
  BY <1>1, <1>3, <1>4

LEMMA CastsTyped ==
  ASSUME IInv, NEW p \in AllSenders, NEW r, cast' = [cast EXCEPT ![p] = r],
         r \in [at : CastPlaces, stream : Streams \cup {0}, left : SUBSET Subs,
                dead : SUBSET Subs, change : Int]
  PROVE  cast' \in [AllSenders -> [at : CastPlaces, stream : Streams \cup {0}, left : SUBSET Subs,
                                   dead : SUBSET Subs, change : Int]]
<1>1. cast \in [AllSenders -> [at : CastPlaces, stream : Streams \cup {0}, left : SUBSET Subs,
                               dead : SUBSET Subs, change : Int]]
  BY DEF IInv, TypeOK
<1> QED
  BY <1>1

------------------------------------------------------------------------------
(* The start, and steps that disturb little *)

LEMMA InitIInv == StreamsInit => IInv
<1> SUFFICES ASSUME StreamsInit PROVE IInv
  OBVIOUS
<1> USE DEF StreamsInit
<1>1. TypeOK
  <2>1. conn \in [Conns -> [at : Places, sub : Subs \cup {None}, stream : Streams \cup {0}]]
    OBVIOUS
  <2>2. cast \in [AllSenders -> [at : CastPlaces, stream : Streams \cup {0}, left : SUBSET Subs,
                                 dead : SUBSET Subs, change : Int]]
    OBVIOUS
  <2>3. listeners \in [Streams -> [Subs -> Conns \cup {None}]]
    OBVIOUS
  <2> QED
    BY <2>1, <2>2, <2>3, Numbers DEF TypeOK
<1>2. Placed /\ Registered /\ Alone
  BY DEF Placed, Registered, Alone
<1>3. CastsRight /\ Grouped /\ DepthJoined /\ Viewed
  BY DEF CastsRight, Grouped, DepthJoined, Viewed
<1> QED
  BY <1>1, <1>2, <1>3 DEF IInv

\* Steps that change the map of subscriptions or the connections that broke, and nothing else.
LEMMA MapIInv ==
  ASSUME IInv, UNCHANGED <<done, conn, adding, groups, cast, data, disturbed>>,
         subs' \in [Subs -> {"none", "orders", "depth", "removed"}],
         closing' \subseteq Subs, broken' \subseteq Conns
  PROVE  IInv'
<1>1. TypeOK'
  BY DEF IInv, TypeOK
<1>2. Placed' /\ Registered' /\ Alone'
  BY DEF IInv, Placed, Registered, Alone
<1>3. CastsRight' /\ Grouped' /\ DepthJoined' /\ Viewed'
  BY DEF IInv, CastsRight, Grouped, DepthJoined, Viewed, Quiet, OnItsWay
<1> QED
  BY <1>1, <1>2, <1>3 DEF IInv

\* Closing a subscription: its clients have nothing more to claim.
LEMMA CloseIInv ==
  ASSUME IInv, NEW s \in Subs, UnsubscribeCloses(s)
  PROVE  IInv'
<1> USE DEF UnsubscribeCloses
<1>1. TypeOK'
  BY DEF IInv, TypeOK
<1>2. Placed' /\ Registered' /\ Alone'
  BY DEF IInv, Placed, Registered, Alone
<1>3. CastsRight'
  BY DEF IInv, CastsRight
<1>4. Grouped' /\ DepthJoined' /\ Viewed'
  BY DEF IInv, Grouped, DepthJoined, Viewed, Quiet, OnItsWay
<1> QED
  BY <1>1, <1>2, <1>3, <1>4 DEF IInv

------------------------------------------------------------------------------
(* The handlers *)

LEMMA GetUpdatesIInv ==
  ASSUME IInv, NEW c \in Conns, NEW s \in Subs, GetUpdates(c, s)
  PROVE  IInv'
<1> USE DEF GetUpdates
<1>1. /\ ConnAt(c, "idle") /\ conn[c].sub = None /\ c \notin adding
      /\ conn'[c].at \in {"joining", "snapshot"} /\ conn'[c].sub = s
      /\ conn'[c].stream \in {0, Depth} /\ (ConnAt(c, "snapshot")' => conn'[c].stream = Depth)
      /\ \A d \in Conns : d # c => conn'[d] = conn[d]
      /\ disturbed \subseteq disturbed'
  BY DEF IInv, TypeOK, Placed
<1>2. TypeOK'
  BY Numbers DEF IInv, TypeOK, Live
<1>3. Placed'
  BY <1>1, Numbers DEF IInv, Placed
<1>4. Registered'
  BY <1>1, Numbers DEF IInv, TypeOK, Registered
<1>5. ASSUME NEW d \in Conns, d # c, conn[d].sub = s
      PROVE  s \in done \/ (d \in disturbed' /\ c \in disturbed')
  BY <1>5 DEF IInv, Placed, Live
<1>6. Alone'
  BY <1>1, <1>5 DEF IInv, Alone
<1>7. CastsRight'
  BY DEF IInv, CastsRight
<1>8. Grouped' /\ DepthJoined'
  BY <1>1 DEF IInv, Grouped, DepthJoined, Quiet
<1>9. Viewed'
  BY <1>1 DEF IInv, Viewed, Quiet, OnItsWay
<1> QED
  BY <1>2, <1>3, <1>4, <1>6, <1>7, <1>8, <1>9 DEF IInv

LEMMA FindGroupIInv ==
  ASSUME IInv, NEW c \in Conns, FindGroup(c)
  PROVE  IInv'
<1>1. /\ ConnAt(c, "joining")
      /\ \A d \in Conns : d # c => conn'[d] = conn[d]
      /\ \A d \in Conns : conn'[d].sub = conn[d].sub
      /\ disturbed \subseteq disturbed' /\ disturbed' \subseteq disturbed \cup {c}
      /\ UNCHANGED <<subscriptions, adding, broken, listeners, cast, data>>
  BY DEF FindGroup, IInv, TypeOK
<1>2. /\ group' \in 1 .. MaxGroups /\ (group # 0 => group' = group)
      /\ groupsMade' \in 0 .. MaxGroups
  <2>1. group \in 0 .. MaxGroups /\ groupsMade \in 0 .. MaxGroups /\ MaxGroups \in Nat
    BY StreamsAssumption DEF IInv, TypeOK
  <2> QED
    BY <2>1 DEF FindGroup
<1>3. conn'[c].at = "found" /\ conn'[c].stream = group' /\ conn'[c].stream # Depth
  BY <1>2, Numbers DEF FindGroup, IInv, TypeOK
<1>4. TypeOK'
  <2>1. conn' \in [Conns -> [at : Places, sub : Subs \cup {None}, stream : Streams \cup {0}]]
    <3>1. group' \in Streams
      BY <1>2, Numbers
    <3>2. conn \in [Conns -> [at : Places, sub : Subs \cup {None}, stream : Streams \cup {0}]]
      BY DEF IInv, TypeOK
    <3>3. conn' = [conn EXCEPT ![c].at = "found", ![c].stream = group']
      BY DEF FindGroup
    <3> QED
      BY <3>1, <3>2, <3>3
  <2> QED
    BY <1>1, <1>2, <2>1 DEF IInv, TypeOK
<1>5. Placed'
  BY <1>1, <1>2, <1>3, Numbers DEF IInv, Placed
<1>6. Registered' /\ Alone'
  BY <1>1 DEF IInv, TypeOK, Registered, Alone
<1>7. CastsRight'
  BY <1>1 DEF IInv, CastsRight
<1>8. c \notin disturbed' => \A p \in Senders : cast[p] = IdleCast
  BY DEF SendingOrders, FindGroup
<1>9. \A d \in Conns : Quiet(d)' => Quiet(d)
  BY <1>1 DEF Quiet
<1>10. Grouped'
  <2> SUFFICES ASSUME NEW d \in Conns, Quiet(d)', conn'[d].stream # Depth
               PROVE  /\ conn'[d].at = "found" =>
                           /\ group' = conn'[d].stream
                           /\ \A p \in Senders : cast[p] = IdleCast
                      /\ conn'[d].at = "loop" =>
                           /\ group' = conn'[d].stream
                           /\ listeners[group'][conn'[d].sub] = d
                           /\ \A p \in Senders : cast[p] = IdleCast \/
                                (cast[p].stream = group' /\ cast[p].at # "deleting")
    BY <1>1 DEF Grouped
  <2>1. CASE d = c
    BY <2>1, <1>3, <1>8 DEF Quiet
  <2>2. CASE d # c
    <3>1. conn'[d] = conn[d] /\ Quiet(d)
      BY <1>1, <1>9, <2>2
    <3>2. conn[d].at \in {"found", "loop"} => group # 0
      BY <3>1 DEF IInv, Grouped, Placed
    <3> QED
      BY <3>1, <3>2, <1>2 DEF IInv, Grouped
  <2> QED
    BY <2>1, <2>2
<1>11. DepthJoined'
  BY <1>1, <1>3, <1>9 DEF IInv, DepthJoined
<1>12. Viewed'
  BY <1>1, <1>3, <1>9 DEF IInv, Viewed, OnItsWay
<1> QED
  BY <1>4, <1>5, <1>6, <1>7, <1>10, <1>11, <1>12 DEF IInv

\* A listener takes the place of nobody who is not disturbed.
LEMMA OwnPlace ==
  ASSUME IInv, NEW c \in Conns, NEW d \in Conns, c # d, Quiet(d), conn[d].sub # None
  PROVE  conn[c].sub # conn[d].sub
BY DEF IInv, Alone, Quiet

LEMMA AddListenerIInv ==
  ASSUME IInv, NEW c \in Conns, AddListener(c)
  PROVE  IInv'
<1> USE DEF AddListener
<1> DEFINE k == conn[c].stream  s == conn[c].sub
<1>1. /\ ConnAt(c, "found") /\ k \in 1 .. MaxGroups /\ s \in Subs
      /\ conn'[c] = [conn[c] EXCEPT !.at = "loop"]
      /\ \A d \in Conns : d # c => conn'[d] = conn[d]
      /\ \A d \in Conns : conn'[d].sub = conn[d].sub /\ conn'[d].stream = conn[d].stream
  BY Numbers DEF IInv, TypeOK, Placed, Streams
<1>2. /\ listeners'[k][s] = c
      /\ \A j \in Streams, t \in Subs : <<j, t>> # <<k, s>> => listeners'[j][t] = listeners[j][t]
  BY <1>1 DEF IInv, TypeOK
<1>3. TypeOK'
  BY <1>1 DEF IInv, TypeOK
<1>4. c \notin adding
  BY <1>1 DEF IInv, Placed
<1>5. Placed' /\ Alone'
  BY <1>1, <1>4 DEF IInv, TypeOK, Placed, Alone
<1>6. Registered'
  BY <1>1, <1>2 DEF IInv, TypeOK, Registered
<1>7. CastsRight'
  BY DEF IInv, CastsRight
<1>8. Grouped'
  <2> SUFFICES ASSUME NEW d \in Conns, Quiet(d)', conn'[d].stream # Depth
               PROVE  /\ conn'[d].at = "found" =>
                           /\ group = conn'[d].stream
                           /\ \A p \in Senders : cast[p] = IdleCast
                      /\ conn'[d].at = "loop" =>
                           /\ group = conn'[d].stream
                           /\ listeners'[group][conn'[d].sub] = d
                           /\ \A p \in Senders : cast[p] = IdleCast \/
                                (cast[p].stream = group /\ cast[p].at # "deleting")
    BY DEF Grouped
  <2>1. Quiet(d)
    BY <1>1 DEF Quiet
  <2>2. CASE d = c
    BY <2>1, <2>2, <1>1, <1>2 DEF IInv, Grouped
  <2>3. CASE d # c
    <3>1. CASE conn[d].at = "loop"
      <4>1. group = conn[d].stream /\ listeners[group][conn[d].sub] = d /\ conn[d].sub \in Subs
            /\ group \in Streams
        BY <2>1, <2>3, <3>1, <1>1 DEF IInv, Grouped, TypeOK, Placed
      <4>2. conn[d].sub # s
        BY <2>1, <2>3, <4>1, OwnPlace, Numbers
      <4> QED
        BY <4>1, <4>2, <1>1, <1>2, <2>1, <2>3 DEF IInv, Grouped
    <3>2. CASE conn[d].at # "loop"
      BY <3>2, <2>1, <2>3, <1>1 DEF IInv, Grouped
    <3> QED
      BY <3>1, <3>2
  <2> QED
    BY <2>2, <2>3
<1>9. DepthJoined'
  BY <1>1, <1>2 DEF IInv, DepthJoined, Quiet, TypeOK, Placed
<1>10. Viewed'
  BY <1>1, Numbers DEF IInv, Viewed, Quiet, OnItsWay
<1> QED
  BY <1>3, <1>5, <1>6, <1>7, <1>8, <1>9, <1>10 DEF IInv

LEMMA SendSnapshotIInv ==
  ASSUME IInv, NEW c \in Conns, SendSnapshot(c)
  PROVE  IInv'
<1>1. /\ ConnAt(c, "snapshot") /\ conn'[c].at = "reading" /\ conn'[c].stream = Depth
      /\ \A d \in Conns : d # c => conn'[d] = conn[d]
      /\ \A d \in Conns : conn'[d].sub = conn[d].sub
      /\ adding' = adding \cup {c}
      /\ UNCHANGED <<subscriptions, broken, groups, cast, data, disturbed>>
  BY DEF SendSnapshot, IInv, TypeOK, Placed
<1>2. TypeOK'
  <2>1. conn' \in [Conns -> [at : Places, sub : Subs \cup {None}, stream : Streams \cup {0}]]
    BY HandlersTyped DEF SendSnapshot
  <2>2. adding' \subseteq Conns
    BY <1>1 DEF IInv, TypeOK
  <2> QED
    BY <1>1, <2>1, <2>2 DEF IInv, TypeOK
<1>3. Placed'
  BY <1>1 DEF IInv, Placed
<1>4. Registered' /\ Alone'
  BY <1>1, Numbers DEF IInv, TypeOK, Registered, Alone
<1>5. CastsRight'
  BY <1>1 DEF IInv, CastsRight
<1>6. Grouped' /\ DepthJoined'
  BY <1>1 DEF IInv, Grouped, DepthJoined, Quiet
<1>7. Viewed'
  BY <1>1 DEF IInv, Viewed, Quiet, OnItsWay
<1> QED
  BY <1>2, <1>3, <1>4, <1>5, <1>6, <1>7 DEF IInv

LEMMA ReadSnapshotIInv ==
  ASSUME IInv, NEW c \in Conns, ReadSnapshot(c)
  PROVE  IInv'
<1>1. /\ ConnAt(c, "reading") /\ conn'[c].at = "loop" /\ conn[c].stream = Depth
      /\ \A d \in Conns : d # c => conn'[d] = conn[d]
      /\ \A d \in Conns : conn'[d].sub = conn[d].sub /\ conn'[d].stream = conn[d].stream
      /\ disturbed \subseteq disturbed'
      /\ c \notin disturbed' => diff = 0 /\ cast[Run] = IdleCast
      /\ view'[c] = depth /\ \A d \in Conns : d # c => view'[d] = view[d]
      /\ UNCHANGED <<subscriptions, adding, broken, groups, depth, diff, cast>>
  BY DEF ReadSnapshot, IInv, TypeOK, Placed
<1>2. TypeOK'
  BY DEF ReadSnapshot, IInv, TypeOK
<1>3. Placed'
  BY <1>1, Numbers DEF IInv, Placed
<1>4. Registered' /\ Alone'
  BY <1>1, Numbers DEF IInv, TypeOK, Registered, Alone
<1>5. CastsRight'
  BY <1>1 DEF IInv, CastsRight
<1>6. Grouped' /\ DepthJoined'
  BY <1>1 DEF IInv, Grouped, DepthJoined, Quiet
<1>7. ASSUME NEW d \in Conns, Quiet(d)', conn[d].stream = Depth, conn'[d].at = "loop"
      PROVE  /\ view'[d] + OnItsWay(d)' + diff = depth
             /\ d \in adding => cast[Run] = IdleCast
  <2>1. CASE d = c
    <3>1. OnItsWay(d)' = 0 /\ diff = 0 /\ cast[Run] = IdleCast
      BY <1>1, <1>7, <2>1 DEF Quiet, OnItsWay
    <3> QED
      BY <3>1, <2>1, <1>1 DEF IInv, TypeOK
  <2>2. CASE d # c
    <3>1. Quiet(d) /\ OnItsWay(d)' = OnItsWay(d) /\ conn[d].at = "loop"
      BY <1>1, <1>7, <2>2 DEF Quiet, OnItsWay
    <3> QED
      BY <3>1, <2>2, <1>1, <1>7 DEF IInv, Viewed
  <2> QED
    BY <2>1, <2>2
<1>8. Viewed'
  BY <1>1, <1>7 DEF Viewed
<1> QED
  BY <1>2, <1>3, <1>4, <1>5, <1>6, <1>8 DEF IInv

LEMMA AddDepthListenerIInv ==
  ASSUME IInv, NEW c \in Conns, AddDepthListener(c)
  PROVE  IInv'
<1> DEFINE s == conn[c].sub
<1>1. /\ c \in adding /\ s \in Subs /\ conn[c].stream = Depth
      /\ adding' = adding \ {c}
      /\ UNCHANGED <<subscriptions, conn, broken, group, groupsMade, cast, data, disturbed>>
  BY DEF AddDepthListener, IInv, TypeOK, Placed
<1>2. /\ listeners'[Depth][s] = c
      /\ \A j \in Streams, t \in Subs : <<j, t>> # <<Depth, s>> => listeners'[j][t] = listeners[j][t]
  BY <1>1, Numbers DEF AddDepthListener, IInv, TypeOK
<1>3. TypeOK'
  BY <1>1 DEF AddDepthListener, IInv, TypeOK
<1>4. Placed' /\ Alone'
  BY <1>1 DEF IInv, Placed, Alone
<1>5. Registered'
  BY <1>1, <1>2 DEF IInv, Registered
<1>6. CastsRight'
  BY <1>1 DEF IInv, CastsRight
<1>7. \A d \in Conns : Quiet(d)' <=> Quiet(d)
  BY <1>1 DEF Quiet
<1>8. Grouped'
  <2> SUFFICES ASSUME NEW d \in Conns, Quiet(d), conn[d].stream # Depth, conn[d].at = "loop"
               PROVE  listeners'[group][conn[d].sub] = d
    BY <1>1, <1>7 DEF IInv, Grouped
  <2>1. group = conn[d].stream /\ listeners[group][conn[d].sub] = d /\ conn[d].sub \in Subs
        /\ group \in Streams
    BY Numbers DEF IInv, Grouped, TypeOK, Placed
  <2> QED
    BY <2>1, <1>2
<1>9. DepthJoined'
  <2> SUFFICES ASSUME NEW d \in Conns, Quiet(d), conn[d].stream = Depth,
                      conn[d].at \in {"reading", "loop"}, d \notin adding \ {c}
               PROVE  listeners'[Depth][conn[d].sub] = d
    BY <1>1, <1>7 DEF DepthJoined
  <2>1. CASE d = c
    BY <2>1, <1>2
  <2>2. CASE d # c
    <3>1. listeners[Depth][conn[d].sub] = d
      BY <2>2 DEF IInv, DepthJoined
    <3>2. conn[d].sub # s /\ conn[d].sub \in Subs
      BY <2>2, OwnPlace, Numbers DEF IInv, TypeOK, Placed
    <3> QED
      BY <3>1, <3>2, <1>2, Numbers
  <2> QED
    BY <2>1, <2>2
<1>10. Viewed'
  BY <1>1, <1>7 DEF IInv, Viewed, OnItsWay
<1> QED
  BY <1>3, <1>4, <1>5, <1>6, <1>8, <1>9, <1>10 DEF IInv

\* A handler that ends or begins to: it is in no loop afterwards.
LEMMA LeaveIInv ==
  ASSUME IInv, NEW c \in Conns, NEW at \in {"closing", "ended"}, ConnTo(c, at),
         InLoop(c) \/ ConnAt(c, "closing"),
         at = "ended" => conn[c].sub \in done',
         subs' \in [Subs -> {"none", "orders", "depth", "removed"}],
         done \subseteq done', done' \subseteq Subs,
         UNCHANGED <<closing, adding, broken, groups, cast, data, disturbed>>
  PROVE  IInv'
<1>1. /\ conn'[c].at = at
      /\ \A d \in Conns : d # c => conn'[d] = conn[d]
      /\ \A d \in Conns : conn'[d].sub = conn[d].sub /\ conn'[d].stream = conn[d].stream
  BY DEF IInv, TypeOK
<1>2. TypeOK'
  <2>1. conn' \in [Conns -> [at : Places, sub : Subs \cup {None}, stream : Streams \cup {0}]]
    BY HandlersTyped
  <2> QED
    BY <2>1 DEF IInv, TypeOK
<1>3. conn[c].at \in {"loop", "snapshot", "closing"} /\ conn[c].sub # None /\ conn[c].stream # 0
  BY Numbers DEF InLoop, IInv, Placed
<1>4. Placed'
  <2> SUFFICES ASSUME NEW d \in Conns
               PROVE  /\ conn'[d].at = "idle" <=> conn'[d].sub = None
                      /\ conn'[d].at \in {"snapshot", "reading"} => conn'[d].stream = Depth
                      /\ conn'[d].at \in {"found", "loop", "closing"} => conn'[d].stream # 0
                      /\ conn'[d].at = "found" => conn'[d].stream # Depth
                      /\ conn'[d].at = "ended" => conn'[d].sub \in done'
                      /\ d \in adding => conn'[d].stream = Depth
                                         /\ conn'[d].at \notin {"idle", "joining", "snapshot"}
    BY DEF Placed
  <2>1. CASE d = c
    BY <2>1, <1>1, <1>3 DEF IInv, Placed
  <2>2. CASE d # c
    BY <2>2, <1>1 DEF IInv, Placed
  <2> QED
    BY <2>1, <2>2
<1>5. Registered' /\ Alone'
  BY <1>1, Numbers DEF IInv, TypeOK, Registered, Alone
<1>6. CastsRight'
  BY DEF IInv, CastsRight
<1>7. Grouped' /\ DepthJoined'
  BY <1>1 DEF IInv, Grouped, DepthJoined, Quiet
<1>8. Viewed'
  BY <1>1 DEF IInv, Viewed, Quiet, OnItsWay
<1> QED
  BY <1>2, <1>4, <1>5, <1>6, <1>7, <1>8 DEF IInv

LEMMA EndIInv ==
  ASSUME IInv, NEW c \in Conns, EndDone(c) \/ EndBroken(c) \/ CloseDone(c)
  PROVE  IInv'
<1>1. conn[c].at # "idle" => conn[c].sub \in Subs
  BY DEF IInv, TypeOK, Placed
<1>2. done \subseteq Subs /\ subs \in [Subs -> {"none", "orders", "depth", "removed"}]
  BY DEF IInv, TypeOK
<1>3. CASE EndDone(c)
  BY <1>2, <1>3, LeaveIInv DEF EndDone
<1>4. CASE EndBroken(c)
  BY <1>2, <1>4, LeaveIInv DEF EndBroken
<1>5. CASE CloseDone(c)
  BY <1>1, <1>2, <1>5, LeaveIInv DEF CloseDone
<1> QED
  BY <1>3, <1>4, <1>5

------------------------------------------------------------------------------
(* The updates *)

LEMMA SendOrderIInv ==
  ASSUME IInv, NEW p \in Senders, SendOrder(p)
  PROVE  IInv'
<1>1. /\ p \in AllSenders /\ p # Run /\ group # 0 /\ group \in Streams /\ group # Depth
      /\ cast'[p] = [IdleCast EXCEPT !.at = "found", !.stream = group]
      /\ \A q \in AllSenders : q # p => cast'[q] = cast[q]
      /\ disturbed' = disturbed \cup {c \in Conns : ConnAt(c, "found")}
      /\ UNCHANGED <<subscriptions, conn, adding, broken, groups, depth, diff, view, changes>>
  BY Numbers, StreamsAssumption DEF SendOrder, IInv, TypeOK
<1>2. TypeOK'
  <2>1. sends' \in Nat
    BY DEF SendOrder, IInv, TypeOK
  <2>2. cast' \in [AllSenders -> [at : CastPlaces, stream : Streams \cup {0}, left : SUBSET Subs,
                                  dead : SUBSET Subs, change : Int]]
    BY <1>1 DEF SendOrder, IInv, TypeOK
  <2> QED
    BY <1>1, <2>1, <2>2 DEF IInv, TypeOK
<1>3. Placed' /\ Registered' /\ Alone'
  BY <1>1 DEF IInv, Placed, Registered, Alone
<1>4. CastsRight'
  <2> SUFFICES ASSUME NEW q \in AllSenders
               PROVE  /\ cast'[q].at = "idle" => cast'[q] = IdleCast
                      /\ cast'[q].at # "idle" =>
                           (cast'[q].stream = Depth <=> q = Run) /\ cast'[q].stream # 0
                      /\ q = Run => cast'[q].at # "deleting"
                      /\ cast'[q].dead \subseteq done
    BY <1>1 DEF CastsRight
  <2>1. CASE q = p
    BY <2>1, <1>1, Numbers
  <2>2. CASE q # p
    BY <2>2, <1>1 DEF IInv, CastsRight
  <2> QED
    BY <2>1, <2>2
<1>5. \A d \in Conns : Quiet(d)' => Quiet(d) /\ conn[d].at # "found"
  BY <1>1 DEF Quiet
<1>6. Grouped'
  <2> SUFFICES ASSUME NEW d \in Conns, Quiet(d)', conn[d].stream # Depth
               PROVE  /\ conn[d].at # "found"
                      /\ conn[d].at = "loop" =>
                           /\ group = conn[d].stream
                           /\ listeners[group][conn[d].sub] = d
                           /\ \A q \in Senders : cast'[q] = IdleCast \/
                                (cast'[q].stream = group /\ cast'[q].at # "deleting")
    BY <1>1 DEF Grouped
  <2>1. Quiet(d) /\ conn[d].at # "found"
    BY <1>5
  <2>2. ASSUME conn[d].at = "loop", NEW q \in Senders
        PROVE  cast'[q] = IdleCast \/ (cast'[q].stream = group /\ cast'[q].at # "deleting")
    <3>1. CASE q = p
      BY <3>1, <1>1
    <3>2. CASE q # p
      BY <3>2, <1>1, <2>1, <2>2 DEF IInv, Grouped
    <3> QED
      BY <3>1, <3>2
  <2> QED
    BY <2>1, <2>2 DEF IInv, Grouped
<1>7. DepthJoined'
  BY <1>1, <1>5 DEF IInv, DepthJoined
<1>8. cast'[Run] = cast[Run]
  BY <1>1
<1>9. Viewed'
  BY <1>1, <1>5, <1>8 DEF IInv, Viewed, OnItsWay
<1> QED
  BY <1>2, <1>3, <1>4, <1>6, <1>7, <1>9 DEF IInv

LEMMA ChangeDepthIInv ==
  ASSUME IInv, ChangeDepth
  PROVE  IInv'
<1>1. PICK n \in {-1, 1} : depth + n >= 0 /\ depth' = depth + n /\ diff' = diff + n
  BY DEF ChangeDepth
<1>2. UNCHANGED <<subscriptions, conn, adding, broken, groups, cast, view, sends, disturbed>>
      /\ changes' = changes + 1
  BY DEF ChangeDepth
<1>3. TypeOK'
  BY <1>1, <1>2 DEF IInv, TypeOK
<1>4. Placed' /\ Registered' /\ Alone'
  BY <1>2 DEF IInv, Placed, Registered, Alone
<1>5. CastsRight' /\ Grouped' /\ DepthJoined'
  BY <1>2 DEF IInv, CastsRight, Grouped, DepthJoined, Quiet
<1>6. Viewed'
  <2> SUFFICES ASSUME NEW c \in Conns, Quiet(c), conn[c].stream = Depth, ConnAt(c, "loop")
               PROVE  view[c] + OnItsWay(c) + diff' = depth' /\ (c \in adding => cast[Run] = IdleCast)
    BY <1>2 DEF Viewed, Quiet, OnItsWay
  <2>1. view[c] + OnItsWay(c) + diff = depth /\ (c \in adding => cast[Run] = IdleCast)
    BY DEF IInv, Viewed
  <2>2. view[c] \in Int /\ OnItsWay(c) \in Int /\ diff \in Int /\ depth \in Int
    BY DEF IInv, TypeOK, OnItsWay
  <2> QED
    BY <2>1, <2>2, <1>1
<1> QED
  BY <1>3, <1>4, <1>5, <1>6 DEF IInv

LEMMA CollectDiffIInv ==
  ASSUME IInv, CollectDiff
  PROVE  IInv'
<1>1. /\ cast[Run] = IdleCast
      /\ cast'[Run] = [IdleCast EXCEPT !.at = "found", !.stream = Depth, !.change = diff]
      /\ \A q \in AllSenders : q # Run => cast'[q] = cast[q]
      /\ diff' = 0 /\ disturbed' = disturbed \cup adding
      /\ UNCHANGED <<subscriptions, conn, adding, broken, groups, depth, view, sends, changes>>
  BY DEF CollectDiff, IInv, TypeOK
<1>2. TypeOK'
  <2>1. cast' \in [AllSenders -> [at : CastPlaces, stream : Streams \cup {0}, left : SUBSET Subs,
                                  dead : SUBSET Subs, change : Int]]
    <3> DEFINE r == [IdleCast EXCEPT !.at = "found", !.stream = Depth, !.change = diff]
    <3>1. diff \in Int
      BY DEF IInv, TypeOK
    <3>2. r \in [at : CastPlaces, stream : Streams \cup {0}, left : SUBSET Subs,
                 dead : SUBSET Subs, change : Int]
      BY <3>1, Numbers
    <3>3. cast' = [cast EXCEPT ![Run] = r]
      BY DEF CollectDiff
    <3> HIDE DEF r
    <3> QED
      BY <3>2, <3>3, CastsTyped
  <2>2. disturbed' \subseteq Conns /\ diff' \in Int
    BY <1>1 DEF IInv, TypeOK
  <2>3. UNCHANGED <<subs, done, closing, conn, adding, broken, group, groupsMade, listeners,
                    depth, view, sends, changes>>
    BY <1>1
  <2> QED
    BY <2>1, <2>2, <2>3 DEF IInv, TypeOK
<1>3. Placed' /\ Registered' /\ Alone'
  BY <1>1 DEF IInv, Placed, Registered, Alone
<1>4. CastsRight'
  <2> SUFFICES ASSUME NEW q \in AllSenders
               PROVE  /\ cast'[q].at = "idle" => cast'[q] = IdleCast
                      /\ cast'[q].at # "idle" =>
                           (cast'[q].stream = Depth <=> q = Run) /\ cast'[q].stream # 0
                      /\ q = Run => cast'[q].at # "deleting"
                      /\ cast'[q].dead \subseteq done
    BY <1>1 DEF CastsRight
  <2>1. CASE q = Run
    BY <2>1, <1>1, Numbers
  <2>2. CASE q # Run
    <3>1. cast'[q] = cast[q]
      BY <2>2, <1>1
    <3> QED
      BY <3>1 DEF IInv, CastsRight
  <2> QED
    BY <2>1, <2>2
<1>5. \A d \in Conns : Quiet(d)' => Quiet(d) /\ d \notin adding
  BY <1>1 DEF Quiet
<1>6. Grouped'
  BY <1>1, <1>5, StreamsAssumption DEF IInv, Grouped
<1>7. DepthJoined'
  BY <1>1, <1>5 DEF IInv, DepthJoined
<1>8. Viewed'
  <2> SUFFICES ASSUME NEW c \in Conns, Quiet(c), c \notin adding, conn[c].stream = Depth,
                      ConnAt(c, "loop")
               PROVE  view[c] + OnItsWay(c)' + diff' = depth
    BY <1>1, <1>5 DEF Viewed
  <2>1. view[c] + OnItsWay(c) + diff = depth
    BY DEF IInv, Viewed
  <2>2. view[c] \in Int /\ OnItsWay(c) = 0 /\ diff \in Int /\ depth \in Int
    BY <1>1 DEF IInv, TypeOK, OnItsWay
  <2>3. OnItsWay(c)' = diff
    BY <1>1 DEF OnItsWay
  <2> QED
    BY <2>1, <2>2, <2>3, <1>1
<1> QED
  BY <1>2, <1>3, <1>4, <1>6, <1>7, <1>8 DEF IInv

\* Steps of a sender that hand nothing over and change no stream: what they may do to his cast.
LEMMA CastIInv ==
  ASSUME IInv, NEW p \in AllSenders, cast[p] # IdleCast, NEW r, cast' = [cast EXCEPT ![p] = r],
         r \in [at : CastPlaces, stream : Streams \cup {0}, left : SUBSET Subs,
                dead : SUBSET Subs, change : Int],
         r.at = "idle" => r = IdleCast,
         r.at # "idle" => r.stream = cast[p].stream,
         r.at = "deleting" => p # Run /\ Joined(cast[p].stream) = {},
         r.dead \subseteq done,
         \A c \in Conns : Quiet(c) /\ conn[c].stream = Depth /\ ConnAt(c, "loop") /\ p = Run
           => OnItsWay(c)' = OnItsWay(c),
         UNCHANGED <<subscriptions, conn, adding, broken, groups, data, disturbed>>
  PROVE  IInv'
<1>1. cast'[p] = r /\ \A q \in AllSenders : q # p => cast'[q] = cast[q]
  BY DEF IInv, TypeOK
<1>2. TypeOK'
  BY DEF IInv, TypeOK
<1>3. Placed' /\ Registered' /\ Alone'
  BY DEF IInv, Placed, Registered, Alone
<1>4. cast[p].at # "idle"
  BY DEF IInv, CastsRight
<1>5. CastsRight'
  <2> SUFFICES ASSUME NEW q \in AllSenders
               PROVE  /\ cast'[q].at = "idle" => cast'[q] = IdleCast
                      /\ cast'[q].at # "idle" =>
                           (cast'[q].stream = Depth <=> q = Run) /\ cast'[q].stream # 0
                      /\ q = Run => cast'[q].at # "deleting"
                      /\ cast'[q].dead \subseteq done
    BY DEF CastsRight
  <2>1. CASE q = p
    <3>1. (cast[p].stream = Depth <=> p = Run) /\ cast[p].stream # 0
      BY <1>4 DEF IInv, CastsRight
    <3> QED
      BY <2>1, <3>1, <1>1
  <2>2. CASE q # p
    <3>1. cast'[q] = cast[q]
      BY <2>2, <1>1
    <3> QED
      BY <3>1 DEF IInv, CastsRight
  <2> QED
    BY <2>1, <2>2
<1>6. \A c \in Conns : Quiet(c)' <=> Quiet(c)
  BY DEF Quiet
<1>7. Grouped'
  <2> SUFFICES ASSUME NEW d \in Conns, Quiet(d), conn[d].stream # Depth, NEW q \in Senders
               PROVE  /\ conn[d].at = "found" => cast'[q] = IdleCast
                      /\ conn[d].at = "loop" =>
                           cast'[q] = IdleCast \/
                             (cast'[q].stream = group /\ cast'[q].at # "deleting")
    BY <1>6 DEF IInv, Grouped
  <2>1. CASE q # p
    BY <2>1, <1>1 DEF IInv, Grouped
  <2>2. CASE q = p
    <3>1. conn[d].at # "found"
      BY <2>2 DEF IInv, Grouped
    <3>2. ASSUME conn[d].at = "loop" PROVE r = IdleCast \/ (r.stream = group /\ r.at # "deleting")
      <4>1. group = conn[d].stream /\ listeners[group][conn[d].sub] = d /\ cast[p].stream = group
        BY <2>2, <3>2 DEF IInv, Grouped
      <4>2. conn[d].sub \in Subs
        BY <3>2 DEF IInv, Placed, TypeOK
      <4>3. Joined(cast[p].stream) # {}
        BY <4>1, <4>2, Numbers
      <4> QED
        BY <4>1, <4>3
    <3> QED
      BY <3>1, <3>2, <2>2, <1>1
  <2> QED
    BY <2>1, <2>2
<1>8. DepthJoined'
  BY <1>6 DEF IInv, DepthJoined
<1>9. Viewed'
  <2> SUFFICES ASSUME NEW c \in Conns, Quiet(c), conn[c].stream = Depth, ConnAt(c, "loop")
               PROVE  view[c] + OnItsWay(c)' + diff = depth /\ (c \in adding => cast'[Run] = IdleCast)
    BY <1>6 DEF Viewed
  <2>1. view[c] + OnItsWay(c) + diff = depth /\ (c \in adding => cast[Run] = IdleCast)
    BY DEF IInv, Viewed
  <2>2. p # Run => cast'[Run] = cast[Run]
    BY <1>1
  <2>3. p # Run => OnItsWay(c)' = OnItsWay(c)
    BY <2>2 DEF OnItsWay
  <2> QED
    BY <2>1, <2>2, <2>3
<1> QED
  BY <1>2, <1>3, <1>5, <1>7, <1>8, <1>9 DEF IInv

\* A client of the depth in his loop is a listener while an update is handed out, or none is.
LEMMA InTheDepth ==
  ASSUME IInv, NEW c \in Conns, Quiet(c), conn[c].stream = Depth, ConnAt(c, "loop"),
         cast[Run] # IdleCast
  PROVE  /\ c \notin adding /\ listeners[Depth][conn[c].sub] = c /\ conn[c].sub \in Subs
         /\ conn[c].sub \in Joined(Depth)
<1>1. c \notin adding
  BY DEF IInv, Viewed
<1>2. listeners[Depth][conn[c].sub] = c
  BY <1>1 DEF IInv, DepthJoined
<1>3. conn[c].sub \in Subs
  BY DEF IInv, TypeOK, Placed
<1> QED
  BY <1>1, <1>2, <1>3, Numbers

LEMMA BroadcastIInv ==
  ASSUME IInv, NEW p \in AllSenders, Broadcast(p)
  PROVE  IInv'
<1> DEFINE r == [cast[p] EXCEPT !.at = "sending", !.left = Joined(cast[p].stream)]
<1>1. cast' = [cast EXCEPT ![p] = r] /\ cast[p].at = "found"
      /\ UNCHANGED <<subscriptions, conn, adding, broken, groups, data, disturbed>>
  BY DEF Broadcast, IInv, TypeOK
<1>2. /\ r \in [at : CastPlaces, stream : Streams \cup {0}, left : SUBSET Subs,
                dead : SUBSET Subs, change : Int]
      /\ r.at = "sending" /\ r.stream = cast[p].stream /\ r.dead = cast[p].dead
  <2>1. cast[p] \in [at : CastPlaces, stream : Streams \cup {0}, left : SUBSET Subs,
                     dead : SUBSET Subs, change : Int]
    BY DEF IInv, TypeOK
  <2> QED
    BY <2>1
<1>3. r.dead \subseteq done
  BY <1>2 DEF IInv, CastsRight
<1>4. ASSUME NEW c \in Conns, Quiet(c), conn[c].stream = Depth, ConnAt(c, "loop"), p = Run
      PROVE  OnItsWay(c)' = OnItsWay(c)
  <2>1. cast[Run] # IdleCast /\ cast[p].stream = Depth
    BY <1>1, <1>4 DEF IInv, CastsRight
  <2>2. conn[c].sub \in Joined(cast[p].stream)
    BY <1>4, <2>1, InTheDepth
  <2>3. cast'[Run] = r
    BY <1>1, <1>4 DEF IInv, TypeOK
  <2>4. r.change = cast[p].change /\ r.left = Joined(cast[p].stream) /\ r.at = "sending"
    BY DEF IInv, TypeOK
  <2>5. OnItsWay(c)' = r.change
    BY <2>2, <2>3, <2>4, <1>1 DEF OnItsWay
  <2>6. OnItsWay(c) = cast[p].change
    BY <1>1, <1>4 DEF OnItsWay
  <2> QED
    BY <2>4, <2>5, <2>6
<1>5. cast[p] # IdleCast
  BY <1>1
<1> HIDE DEF r
<1> QED
  BY <1>1, <1>2, <1>3, <1>4, <1>5, CastIInv

LEMMA FindDeadIInv ==
  ASSUME IInv, NEW p \in AllSenders, NEW s \in Subs, FindDead(p, s)
  PROVE  IInv'
<1> DEFINE r == [cast[p] EXCEPT !.left = @ \ {s}, !.dead = @ \cup {s}]
<1>1. cast' = [cast EXCEPT ![p] = r] /\ cast[p].at = "sending" /\ s \in done
      /\ UNCHANGED <<subscriptions, conn, adding, broken, groups, data, disturbed>>
  BY DEF FindDead, IInv, TypeOK
<1>2. /\ r \in [at : CastPlaces, stream : Streams \cup {0}, left : SUBSET Subs,
                dead : SUBSET Subs, change : Int]
      /\ r.at = "sending" /\ r.stream = cast[p].stream /\ r.dead = cast[p].dead \cup {s}
      /\ r.left = cast[p].left \ {s} /\ r.change = cast[p].change
  BY <1>1 DEF IInv, TypeOK
<1>3. r.dead \subseteq done
  BY <1>1, <1>2 DEF IInv, CastsRight
<1>4. ASSUME NEW c \in Conns, Quiet(c), conn[c].stream = Depth, ConnAt(c, "loop"), p = Run
      PROVE  OnItsWay(c)' = OnItsWay(c)
  <2>1. conn[c].sub # s
    BY <1>1, <1>4 DEF Quiet
  <2>2. cast'[Run] = r
    BY <1>1, <1>4 DEF IInv, TypeOK
  <2> HIDE DEF r
  <2>3. OnItsWay(c)' = IF conn[c].sub \in r.left THEN r.change ELSE 0
    BY <2>2, <1>1, <1>2 DEF OnItsWay
  <2> QED
    BY <2>1, <2>3, <1>1, <1>2, <1>4 DEF OnItsWay
<1>5. cast[p] # IdleCast
  BY <1>1
<1> HIDE DEF r
<1> QED
  BY <1>1, <1>2, <1>3, <1>4, <1>5, CastIInv

LEMMA EndSendingIInv ==
  ASSUME IInv, NEW p \in AllSenders, EndSending(p)
  PROVE  IInv'
<1> DEFINE r == [cast[p] EXCEPT !.at = IF cast[p].dead = {} THEN "count" ELSE "removing"]
<1>1. cast' = [cast EXCEPT ![p] = r] /\ cast[p].at = "sending" /\ cast[p].left = {}
      /\ UNCHANGED <<subscriptions, conn, adding, broken, groups, data, disturbed>>
  BY DEF EndSending, IInv, TypeOK
<1>2. /\ r \in [at : CastPlaces, stream : Streams \cup {0}, left : SUBSET Subs,
                dead : SUBSET Subs, change : Int]
      /\ r.at \in {"count", "removing"} /\ r.stream = cast[p].stream /\ r.dead = cast[p].dead
  BY <1>1 DEF IInv, TypeOK
<1>3. r.dead \subseteq done
  BY <1>2 DEF IInv, CastsRight
<1> HIDE DEF r
<1>4. ASSUME NEW c \in Conns, p = Run
      PROVE  OnItsWay(c)' = OnItsWay(c)
  <2>1. cast'[Run] = r
    BY <1>1, <1>4 DEF IInv, TypeOK
  <2> QED
    BY <2>1, <1>1, <1>2, <1>4 DEF OnItsWay
<1>5. cast[p] # IdleCast
  BY <1>1
<1> QED
  BY <1>1, <1>2, <1>3, <1>4, <1>5, CastIInv

LEMMA CountListenersIInv ==
  ASSUME IInv, NEW p \in AllSenders, CountListeners(p)
  PROVE  IInv'
<1> DEFINE r == IF p # Run /\ Joined(cast[p].stream) = {}
                THEN [cast[p] EXCEPT !.at = "deleting", !.dead = {}] ELSE IdleCast
<1>1. cast' = [cast EXCEPT ![p] = r] /\ cast[p].at = "count"
      /\ UNCHANGED <<subscriptions, conn, adding, broken, groups, data, disturbed>>
  BY DEF CountListeners, IInv, TypeOK
<1>2. /\ r \in [at : CastPlaces, stream : Streams \cup {0}, left : SUBSET Subs,
                dead : SUBSET Subs, change : Int]
      /\ r.at = "idle" => r = IdleCast
      /\ r.at # "idle" => r.stream = cast[p].stream
      /\ r.at \in {"idle", "deleting"} /\ r.dead = {}
      /\ r.at = "deleting" => p # Run /\ Joined(cast[p].stream) = {}
  <2>1. CASE p # Run /\ Joined(cast[p].stream) = {}
    <3>1. r = [cast[p] EXCEPT !.at = "deleting", !.dead = {}]
      BY <2>1
    <3> HIDE DEF r
    <3>2. cast[p] \in [at : CastPlaces, stream : Streams \cup {0}, left : SUBSET Subs,
                       dead : SUBSET Subs, change : Int]
      BY DEF IInv, TypeOK
    <3>3. r.at = "deleting" /\ r.stream = cast[p].stream /\ r.dead = {}
      BY <3>1, <3>2
    <3>4. r \in [at : CastPlaces, stream : Streams \cup {0}, left : SUBSET Subs,
                 dead : SUBSET Subs, change : Int]
      BY <3>1, <3>2
    <3> QED
      BY <3>3, <3>4, <2>1
  <2>2. CASE ~ (p # Run /\ Joined(cast[p].stream) = {})
    <3>1. r = IdleCast
      BY <2>2
    <3> HIDE DEF r
    <3>2. r.at = "idle" /\ r.dead = {}
      BY <3>1
    <3>3. r \in [at : CastPlaces, stream : Streams \cup {0}, left : SUBSET Subs,
                 dead : SUBSET Subs, change : Int]
      BY <3>1
    <3> QED
      BY <3>1, <3>2, <3>3
  <2> QED
    BY <2>1, <2>2
<1> HIDE DEF r
<1>3. ASSUME NEW c \in Conns, p = Run
      PROVE  OnItsWay(c)' = OnItsWay(c)
  <2>1. cast'[Run] = r
    BY <1>1, <1>3 DEF IInv, TypeOK
  <2> QED
    BY <2>1, <1>1, <1>2, <1>3 DEF OnItsWay
<1>4. cast[p] # IdleCast
  BY <1>1
<1> QED
  BY <1>1, <1>2, <1>3, <1>4, CastIInv

\* An update is handed to the handler that the listener is.
LEMMA HandOverIInv ==
  ASSUME IInv, NEW p \in AllSenders, NEW s \in Subs, HandOver(p, s)
  PROVE  IInv'
<1> DEFINE r == [cast[p] EXCEPT !.left = @ \ {s}]
           k == cast[p].stream
           l == listeners[k][s]
<1>1. /\ cast[p].at = "sending" /\ s \in cast[p].left
      /\ cast' = [cast EXCEPT ![p] = r]
      /\ view' = IF k = Depth THEN [view EXCEPT ![l] = @ + cast[p].change] ELSE view
      /\ UNCHANGED <<subscriptions, conn, adding, broken, groups, depth, diff, sends, changes, disturbed>>
  BY DEF HandOver, IInv, TypeOK
<1>2. /\ r \in [at : CastPlaces, stream : Streams \cup {0}, left : SUBSET Subs,
                dead : SUBSET Subs, change : Int]
      /\ r.at = "sending" /\ r.stream = k /\ r.dead = cast[p].dead
      /\ r.left = cast[p].left \ {s} /\ r.change = cast[p].change
  BY <1>1 DEF IInv, TypeOK
<1> HIDE DEF r
<1>3. cast'[p] = r /\ \A q \in AllSenders : q # p => cast'[q] = cast[q]
  BY <1>1 DEF IInv, TypeOK
<1>4. k \in Streams /\ (k = Depth <=> p = Run)
  BY <1>1 DEF IInv, CastsRight, TypeOK
<1>5. view' \in [Conns -> Int]
  <2>1. view \in [Conns -> Int] /\ cast[p].change \in Int
    BY DEF IInv, TypeOK
  <2>2. CASE k = Depth
    <3>1. view' = [view EXCEPT ![l] = @ + cast[p].change]
      BY <2>2, <1>1
    <3>2. l \in Conns \cup {None}
      BY <1>1, <1>4 DEF IInv, TypeOK
    <3> HIDE DEF l, k
    <3>3. CASE l \in Conns
      BY <2>1, <3>1, <3>3
    <3>4. CASE l = None
      BY <2>1, <3>1, <3>4, Numbers
    <3> QED
      BY <3>2, <3>3, <3>4
  <2>3. CASE k # Depth
    BY <2>1, <2>3, <1>1
  <2> QED
    BY <2>2, <2>3
<1>6. TypeOK'
  BY <1>1, <1>2, <1>5 DEF IInv, TypeOK
<1>7. Placed' /\ Registered' /\ Alone'
  BY <1>1 DEF IInv, Placed, Registered, Alone
<1>8. CastsRight'
  BY <1>1, <1>2, <1>3 DEF IInv, CastsRight
<1>9. \A c \in Conns : Quiet(c)' <=> Quiet(c)
  BY <1>1 DEF Quiet
<1>10. Grouped'
  <2>1. \A q \in Senders : cast'[q] = IdleCast => cast[q] = IdleCast
    BY <1>1, <1>2, <1>3
  <2>2. \A q \in Senders : cast'[q].stream = cast[q].stream /\ cast'[q].at = cast[q].at
    BY <1>1, <1>2, <1>3
  <2>3. \A q \in Senders : cast[q] = IdleCast => cast'[q] = IdleCast
    BY <1>1, <1>3
  <2> QED
    BY <1>1, <1>9, <2>1, <2>2, <2>3 DEF IInv, Grouped
<1>11. DepthJoined'
  BY <1>1, <1>9 DEF IInv, DepthJoined
<1>12. Viewed'
  <2> SUFFICES ASSUME NEW c \in Conns, Quiet(c), conn[c].stream = Depth, ConnAt(c, "loop")
               PROVE  view'[c] + OnItsWay(c)' + diff = depth /\ (c \in adding => cast'[Run] = IdleCast)
    BY <1>1, <1>9 DEF Viewed
  <2>1. view[c] + OnItsWay(c) + diff = depth /\ (c \in adding => cast[Run] = IdleCast)
    BY DEF IInv, Viewed
  <2>2. view[c] \in Int /\ cast[p].change \in Int /\ diff \in Int /\ depth \in Int
    BY DEF IInv, TypeOK
  <2>3. CASE p # Run
    <3>1. cast'[Run] = cast[Run] /\ view' = view
      BY <2>3, <1>1, <1>3, <1>4
    <3>2. OnItsWay(c)' = OnItsWay(c)
      BY <3>1, <1>1 DEF OnItsWay
    <3> QED
      BY <2>1, <3>1, <3>2
  <2>4. CASE p = Run
    <3>1. c \notin adding /\ listeners[Depth][conn[c].sub] = c /\ conn[c].sub \in Subs
      BY <1>1, <2>4, InTheDepth
    <3>2. k = Depth /\ view' = [view EXCEPT ![l] = @ + cast[p].change]
      BY <2>4, <1>1, <1>4
    <3>3. OnItsWay(c) = IF conn[c].sub \in cast[p].left THEN cast[p].change ELSE 0
      BY <1>1, <2>4 DEF OnItsWay
    <3>4. OnItsWay(c)' = IF conn[c].sub \in cast[p].left \ {s} THEN cast[p].change ELSE 0
      BY <1>1, <1>2, <1>3, <2>4 DEF OnItsWay
    <3>5. CASE conn[c].sub = s
      <4>1. l = c
        BY <3>1, <3>2, <3>5
      <4>2. view'[c] = view[c] + cast[p].change
        BY <4>1, <3>2 DEF IInv, TypeOK
      <4> QED
        BY <4>2, <3>1, <3>3, <3>4, <3>5, <2>1, <2>2, <1>1
    <3>6. CASE conn[c].sub # s
      <4>1. l # c
        BY <3>6, <3>2, Numbers DEF IInv, Registered
      <4>2. view'[c] = view[c]
        BY <4>1, <3>2 DEF IInv, TypeOK
      <4> QED
        BY <4>2, <3>1, <3>3, <3>4, <3>6, <2>1
    <3> QED
      BY <3>5, <3>6
  <2> QED
    BY <2>3, <2>4
<1> QED
  BY <1>6, <1>7, <1>8, <1>10, <1>11, <1>12 DEF IInv

\* Only closed subscriptions lose their listener.
LEMMA RemoveDeadIInv ==
  ASSUME IInv, NEW p \in AllSenders, RemoveDead(p)
  PROVE  IInv'
<1> DEFINE r == [cast[p] EXCEPT !.at = "count"]
           k == cast[p].stream
<1>1. /\ cast[p].at = "removing" /\ cast' = [cast EXCEPT ![p] = r]
      /\ UNCHANGED <<subscriptions, conn, adding, broken, group, groupsMade, data, disturbed>>
  BY DEF RemoveDead, IInv, TypeOK
<1>2. /\ r \in [at : CastPlaces, stream : Streams \cup {0}, left : SUBSET Subs,
                dead : SUBSET Subs, change : Int]
      /\ r.at = "count" /\ r.stream = k /\ r.dead = cast[p].dead
  <2>1. cast[p] \in [at : CastPlaces, stream : Streams \cup {0}, left : SUBSET Subs,
                     dead : SUBSET Subs, change : Int]
    BY DEF IInv, TypeOK
  <2> QED
    BY <2>1
<1> HIDE DEF r
<1>3. cast'[p] = r /\ \A q \in AllSenders : q # p => cast'[q] = cast[q]
  BY <1>1 DEF IInv, TypeOK
<1>4. listeners' \in [Streams -> [Subs -> Conns \cup {None}]]
  <2>1. listeners \in [Streams -> [Subs -> Conns \cup {None}]]
    BY DEF IInv, TypeOK
  <2>2. listeners' = [listeners EXCEPT ![k] =
                        [s \in Subs |-> IF s \in cast[p].dead THEN None ELSE listeners[k][s]]]
    BY DEF RemoveDead
  <2> HIDE DEF k
  <2>3. listeners'[k] = [s \in Subs |-> IF s \in cast[p].dead THEN None ELSE listeners[k][s]]
        \/ k \notin Streams
    BY <2>1, <2>2
  <2> QED
    BY <2>1, <2>2, <2>3
<1>5. \A j \in Streams, s \in Subs :
        /\ listeners'[j][s] \in {None, listeners[j][s]}
        /\ s \notin done => listeners'[j][s] = listeners[j][s]
  <2>1. cast[p].dead \subseteq done
    BY DEF IInv, CastsRight
  <2> QED
    BY <2>1 DEF RemoveDead, IInv, TypeOK
<1>6. TypeOK'
  BY <1>1, <1>2, <1>4 DEF IInv, TypeOK
<1>7. Placed' /\ Alone'
  BY <1>1 DEF IInv, Placed, Alone
<1>8. Registered'
  BY <1>1, <1>5 DEF IInv, Registered
<1>9. CastsRight'
  BY <1>1, <1>2, <1>3 DEF IInv, CastsRight
<1>10. \A c \in Conns : Quiet(c)' <=> Quiet(c)
  BY <1>1 DEF Quiet
<1>11. Grouped'
  <2> SUFFICES ASSUME NEW d \in Conns, Quiet(d), conn[d].stream # Depth
               PROVE  /\ conn[d].at = "found" =>
                           /\ group = conn[d].stream
                           /\ \A q \in Senders : cast'[q] = IdleCast
                      /\ conn[d].at = "loop" =>
                           /\ group = conn[d].stream
                           /\ listeners'[group][conn[d].sub] = d
                           /\ \A q \in Senders : cast'[q] = IdleCast \/
                                (cast'[q].stream = group /\ cast'[q].at # "deleting")
    BY <1>1, <1>10 DEF Grouped
  <2>1. ASSUME conn[d].at = "found"
        PROVE  group = conn[d].stream /\ \A q \in Senders : cast'[q] = IdleCast
    BY <2>1, <1>1, <1>3 DEF IInv, Grouped
  <2>2. ASSUME conn[d].at = "loop"
        PROVE  /\ group = conn[d].stream
               /\ listeners'[group][conn[d].sub] = d
               /\ \A q \in Senders : cast'[q] = IdleCast \/
                    (cast'[q].stream = group /\ cast'[q].at # "deleting")
    <3>1. group = conn[d].stream /\ listeners[group][conn[d].sub] = d
          /\ conn[d].sub \in Subs /\ conn[d].sub \notin done /\ group \in Streams
      BY <2>2, Numbers DEF IInv, Grouped, TypeOK, Placed, Quiet
    <3>2. ASSUME NEW q \in Senders
          PROVE  cast'[q] = IdleCast \/ (cast'[q].stream = group /\ cast'[q].at # "deleting")
      <4>1. cast[q] = IdleCast \/ (cast[q].stream = group /\ cast[q].at # "deleting")
        BY <2>2 DEF IInv, Grouped
      <4> QED
        BY <4>1, <1>1, <1>2, <1>3
    <3> QED
      BY <3>1, <3>2, <1>5
  <2> QED
    BY <2>1, <2>2
<1>12. DepthJoined'
  BY <1>1, <1>5, <1>10, Numbers DEF IInv, DepthJoined, TypeOK, Placed, Quiet
<1>13. Viewed'
  <2>1. cast'[Run] # IdleCast => cast[Run] # IdleCast
    BY <1>1, <1>3
  <2>2. \A c \in Conns : OnItsWay(c)' = OnItsWay(c)
    BY <1>1, <1>2, <1>3 DEF OnItsWay
  <2> QED
    BY <1>1, <1>10, <2>1, <2>2 DEF IInv, Viewed
<1> QED
  BY <1>6, <1>7, <1>8, <1>9, <1>11, <1>12, <1>13 DEF IInv

\* The group that is deleted is that of no client who is not disturbed.
LEMMA DeleteGroupIInv ==
  ASSUME IInv, NEW p \in AllSenders, DeleteGroup(p)
  PROVE  IInv'
<1>1. /\ cast[p].at = "deleting" /\ group' = 0 /\ p \in Senders /\ p # Run
      /\ cast' = [cast EXCEPT ![p] = IdleCast]
      /\ cast'[p] = IdleCast /\ \A q \in AllSenders : q # p => cast'[q] = cast[q]
      /\ UNCHANGED <<subscriptions, conn, adding, broken, groupsMade, listeners, data, disturbed>>
  BY DEF DeleteGroup, IInv, TypeOK, CastsRight
<1>2. TypeOK'
  <2>1. cast' \in [AllSenders -> [at : CastPlaces, stream : Streams \cup {0}, left : SUBSET Subs,
                                  dead : SUBSET Subs, change : Int]]
    BY <1>1 DEF IInv, TypeOK
  <2> QED
    BY <1>1, <2>1, Numbers DEF IInv, TypeOK
<1>3. Placed' /\ Registered' /\ Alone'
  BY <1>1 DEF IInv, Placed, Registered, Alone
<1>4. CastsRight'
  BY <1>1 DEF IInv, CastsRight
<1>5. \A c \in Conns : Quiet(c)' <=> Quiet(c)
  BY <1>1 DEF Quiet
<1>6. \A d \in Conns : Quiet(d) /\ conn[d].stream # Depth => conn[d].at \notin {"found", "loop"}
  BY <1>1 DEF IInv, Grouped
<1>7. Grouped'
  BY <1>1, <1>5, <1>6 DEF Grouped
<1>8. DepthJoined'
  BY <1>1, <1>5 DEF IInv, DepthJoined
<1>9. Viewed'
  <2>1. cast'[Run] = cast[Run]
    BY <1>1
  <2> QED
    BY <1>1, <1>5, <2>1 DEF IInv, Viewed, OnItsWay
<1> QED
  BY <1>2, <1>3, <1>4, <1>7, <1>8, <1>9 DEF IInv

------------------------------------------------------------------------------
(* The theorems *)

LEMMA StepIInv == IInv /\ [StreamsNext]_vars => IInv'
<1> SUFFICES ASSUME IInv, [StreamsNext]_vars PROVE IInv'
  OBVIOUS
<1>1. ASSUME NEW s \in Subs, Subscribe(s) \/ Unsubscribe(s) PROVE IInv'
  <2>1. subs' \in [Subs -> {"none", "orders", "depth", "removed"}]
    BY <1>1 DEF Subscribe, Unsubscribe, IInv, TypeOK
  <2>2. closing' \subseteq Subs /\ broken' \subseteq Conns
    BY <1>1 DEF Subscribe, Unsubscribe, IInv, TypeOK
  <2>3. UNCHANGED <<done, conn, adding, groups, cast, data, disturbed>>
    BY <1>1 DEF Subscribe, Unsubscribe
  <2> QED
    BY <2>1, <2>2, <2>3, MapIInv
<1>2. ASSUME NEW s \in Subs, UnsubscribeCloses(s) PROVE IInv'
  BY <1>2, CloseIInv
<1>3. ASSUME NEW c \in Conns, HandlerStep(c) PROVE IInv'
  BY <1>3, FindGroupIInv, AddListenerIInv, SendSnapshotIInv, ReadSnapshotIInv, EndIInv
     DEF HandlerStep
<1>4. ASSUME NEW c \in Conns, AddDepthListener(c) PROVE IInv'
  BY <1>4, AddDepthListenerIInv
<1>5. ASSUME NEW c \in Conns, Break(c) PROVE IInv'
  BY <1>5, MapIInv DEF Break, IInv, TypeOK
<1>6. ASSUME NEW c \in Conns, NEW s \in Subs, GetUpdates(c, s) PROVE IInv'
  BY <1>6, GetUpdatesIInv
<1>7. ASSUME NEW p \in Senders, SendOrder(p) PROVE IInv'
  BY <1>7, SendOrderIInv
<1>8. ASSUME NEW p \in AllSenders, CastStep(p) PROVE IInv'
  BY <1>8, BroadcastIInv, EndSendingIInv, RemoveDeadIInv, CountListenersIInv, DeleteGroupIInv,
     HandOverIInv, FindDeadIInv DEF CastStep
<1>9. CASE ChangeDepth
  BY <1>9, ChangeDepthIInv
<1>10. CASE CollectDiff
  BY <1>10, CollectDiffIInv
<1>11. CASE UNCHANGED vars
  <2>1. UNCHANGED <<done, conn, adding, groups, cast, data, disturbed>> /\ UNCHANGED <<subs, closing, broken>>
    BY <1>11 DEF vars
  <2> QED
    BY <2>1, MapIInv DEF IInv, TypeOK
<1> QED
  BY <1>1, <1>2, <1>3, <1>4, <1>5, <1>6, <1>7, <1>8, <1>9, <1>10, <1>11 DEF StreamsNext

\* The inductive invariant holds in every state of the streams, from StreamsInit on.
THEOREM StreamsInvariant == StreamsSpec => []IInv
BY InitIInv, StepIInv, PTL DEF StreamsSpec

\* A client whose subscription is his own and not closed is a listener of the stream that the
\* updates are sent to, however listeners and groups come and go: MulticastStream removes dead
\* listeners and empty groups between its lookups, and none of that loses him.
THEOREM ListenersAlwaysReached == StreamsSpec => []ListenersReached
<1>1. IInv => ListenersReached
  <2> SUFFICES ASSUME IInv, NEW c \in Conns, Attached(c)
               PROVE  LET k == IF conn[c].stream = Depth THEN Depth ELSE group
                      IN k # 0 /\ listeners[k][conn[c].sub] = c
    BY DEF ListenersReached
  <2>1. Quiet(c) /\ ConnAt(c, "loop") /\ c \notin adding
    BY DEF Attached, Quiet
  <2>2. CASE conn[c].stream = Depth
    BY <2>1, <2>2, Numbers DEF IInv, DepthJoined
  <2>3. CASE conn[c].stream # Depth
    BY <2>1, <2>3 DEF IInv, Grouped, Placed
  <2> QED
    BY <2>2, <2>3
<1> QED
  BY <1>1, StreamsInvariant, PTL

\* A client's depth, made of the snapshot and the updates he was handed, together with the
\* update on its way to him and the changes not yet sent, is the depth of the book: no update
\* between the snapshot that GetMarketDepthUpdates sends and its listener is lost or doubled.
THEOREM ViewAlwaysRight == StreamsSpec => []ViewRight
<1>1. IInv => ViewRight
  BY DEF IInv, Viewed, ViewRight, Attached, Quiet
<1> QED
  BY <1>1, StreamsInvariant, PTL
=============================================================================
