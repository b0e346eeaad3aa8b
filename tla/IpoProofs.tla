------------------------------- MODULE IpoProofs -------------------------------
(***************************************************************************)
(* The bidders' money and the slots of an offering, for any number of      *)
(* bidders, requests and administrators, with any errors and crashes.      *)
(***************************************************************************)
EXTENDS Ipo, FiniteSums, SequenceTheorems

USE DEF purse, locks, history

\* The money of all bids that there can be is below Word.
BidsFit == SlotPrice * MaxBids < Word

------------------------------------------------------------------------------
(* The inductive invariant *)

Unsigneds == 0 .. Word - 1
Bid == [user : Users, status : {"open", "closed", "fulfilled"}]
ListingPrices == {p \in Int : 10 * p >= 9 * StockPrice - 9 /\ 10 * p <= 11 * StockPrice}
Listing == [price : ListingPrices, shares : Nat, allotted : SUBSET Nat]
Bidding == [pc : {"cash", "look", "create"}, user : Users, biddable : BOOLEAN]
Cancelling == [pc : {"offer", "cancel"}, user : Users, bid : Nat]
Quiet == {"idle", "close", "list"}
Active == {"allot all", "draw", "allot drawn", "refund"}
Allotment == [pc : Quiet \cup Active, todo : Seq(Nat), stock : Nat, count : Nat]

Types ==
  /\ biddable \in BOOLEAN /\ cut \in BOOLEAN
  /\ bids \in Seq(Bid) /\ Len(bids) <= MaxBids
  /\ cash \in [Users -> Unsigneds] /\ reserved \in [Users -> Unsigneds]
  /\ spent \in [Users -> Unsigneds]
  /\ kept \subseteq Users /\ pinned \subseteq Users
  /\ listed \in Seq(Listing)
  /\ req \in [Requests -> {Idle} \cup Bidding \cup Cancelling]
  /\ adm \in [Admins -> Allotment]
  /\ stale \subseteq Ids

\* What is kept of a bid or of a stock is the number of one.
Numbers ==
  /\ \A r \in Requests : req[r].pc \in {"offer", "cancel"} =>
       req[r].bid \in Ids /\ bids[req[r].bid].user = req[r].user
  /\ \A a \in Admins : ToSet(adm[a].todo) \subseteq Ids
  /\ \A i \in DOMAIN listed : listed[i].allotted \subseteq Ids

FulfilledOf(u) == {b \in Ids : bids[b].user = u /\ bids[b].status = "fulfilled"}
Clean(u) == \A b \in stale : bids[b].user # u

\* The money of each bidder.
Balanced == \A u \in Users : (cash[u] + reserved[u] + spent[u]) % Word = StartCash
BidsPaid ==
  \A u \in Users : Clean(u) => /\ reserved[u] = SlotPrice * Cardinality(OpenOf(u))
                               /\ spent[u] = SlotPrice * Cardinality(FulfilledOf(u))

\* Each allotment has a stock of its own, and what it has allotted and has still to
\* allot is no more than there is.
Given(a) == listed[adm[a].stock].allotted
Apart == \A a, o \in Admins : a # o => adm[a].stock = 0 \/ adm[a].stock # adm[o].stock
HasStock(a) ==
  IF adm[a].pc \in Quiet THEN adm[a].stock = 0 /\ adm[a].todo = <<>>
  ELSE adm[a].stock \in DOMAIN listed /\ listed[adm[a].stock].shares = 0
Fits(a) ==
  /\ adm[a].pc = "draw" => Given(a) = {} /\ adm[a].todo = <<>>
  /\ adm[a].pc = "allot all" => /\ Cardinality(Given(a) \cup ToSet(adm[a].todo)) <= adm[a].count
                                /\ adm[a].count <= SlotQuantity
  /\ adm[a].pc = "allot drawn" =>
       Cardinality(Given(a) \cup ToSet(adm[a].todo)) <= SlotQuantity
Allotments == Apart /\ \A a \in Admins : HasStock(a) /\ Fits(a)

\* When the bidding is closed, each open bid that came in time is in the hands of an
\* allotment, or of one that has still to read the open bids.
InHands(b) ==
  \E a \in Admins : \/ adm[a].pc \in {"list", "draw", "allot drawn"}
                    \/ adm[a].pc \in {"allot all", "refund"} /\ b \in ToSet(adm[a].todo)
Settling == ~ biddable /\ ~ cut => \A b \in OpenBids \ late : InHands(b)

IpoInv == Types /\ Numbers /\ Balanced /\ Allotments /\ SlotsRespected /\ Settling

------------------------------------------------------------------------------
(* Sequences of bids *)

LEMMA TodoParts ==
  ASSUME NEW s \in Seq(Nat), s # <<>>
  PROVE  /\ Head(s) \in ToSet(s) /\ Tail(s) \in Seq(Nat)
         /\ ToSet(s) = {Head(s)} \cup ToSet(Tail(s))
<1>1. /\ Len(s) \in Nat \ {0} /\ DOMAIN s = 1 .. Len(s)
      /\ Head(s) = s[1] /\ Tail(s) \in Seq(Nat) /\ DOMAIN Tail(s) = 1 .. Len(s) - 1
      /\ \A i \in 1 .. Len(s) - 1 : Tail(s)[i] = s[i + 1]
  BY HeadTailProperties
<1>2. Head(s) \in ToSet(s)
  BY <1>1 DEF ToSet
<1>3. ToSet(Tail(s)) \subseteq ToSet(s)
  BY <1>1 DEF ToSet
<1>4. ASSUME NEW i \in DOMAIN s PROVE s[i] \in {Head(s)} \cup ToSet(Tail(s))
  <2>1. CASE i = 1
    BY <1>1, <2>1
  <2>2. CASE i # 1
    <3>1. i - 1 \in DOMAIN Tail(s) /\ Tail(s)[i - 1] = s[i]
      BY <1>1, <2>2
    <3> QED
      BY <3>1 DEF ToSet
  <2> QED
    BY <2>1, <2>2
<1> QED
  BY <1>1, <1>2, <1>3, <1>4 DEF ToSet

LEMMA EmptyTodo == <<>> \in Seq(Nat) /\ ToSet(<<>>) = {}
BY DEF ToSet

LEMMA NumbersFinite ==
  ASSUME NEW n \in Nat, NEW S, S \subseteq 1 .. n
  PROVE  IsFiniteSet(S) /\ Cardinality(S) \in Nat
<1>1. IsFiniteSet(1 .. n)
  BY FS_Interval
<1>2. IsFiniteSet(S)
  BY <1>1, FS_Subset
<1> QED
  BY <1>2, FS_CardinalityType

\* Ordered by number, a set is neither more nor less than it was.
LEMMA InOrderHasAll ==
  ASSUME NEW n \in Nat, NEW S, S \subseteq 1 .. n
  PROVE  InOrder(S) \in Seq(Nat) /\ ToSet(InOrder(S)) = S
<1> DEFINE Below(b) == {c \in S : c < b}
           rank == [b \in S |-> Cardinality(Below(b)) + 1]
           k == Cardinality(S)
<1>1. IsFiniteSet(S) /\ k \in Nat
  BY NumbersFinite
<1>2. \A b \in S : /\ IsFiniteSet(Below(b)) /\ Cardinality(Below(b)) \in Nat
                   /\ Cardinality(Below(b)) < k
  <2> TAKE b \in S
  <2>1. IsFiniteSet(S \ {b}) /\ Cardinality(S \ {b}) = k - 1
    BY <1>1, FS_RemoveElement
  <2>2. Below(b) \subseteq S \ {b}
    OBVIOUS
  <2> HIDE DEF Below, k
  <2>3. IsFiniteSet(Below(b)) /\ Cardinality(Below(b)) <= k - 1
    BY <2>1, <2>2, FS_Subset
  <2>4. Cardinality(Below(b)) \in Nat
    BY <2>3, FS_CardinalityType
  <2> QED
    BY <1>1, <2>3, <2>4
<1>3. \A b, c \in S : b < c => rank[b] < rank[c]
  <2> SUFFICES ASSUME NEW b \in S, NEW c \in S, b < c
               PROVE  Cardinality(Below(b)) < Cardinality(Below(c))
    BY <1>2
  <2>1. Below(b) \subseteq Below(c) /\ b \in Below(c) /\ b \notin Below(b)
    <3>1. \A d \in S : d \in Nat
      OBVIOUS
    <3>2. \A d \in Below(b) : d \in Below(c)
      BY <3>1
    <3>3. b \in Below(c) /\ b \notin Below(b)
      BY <3>1
    <3> HIDE DEF Below
    <3> QED
      BY <3>2, <3>3
  <2> HIDE DEF Below
  <2>2. Cardinality(Below(b)) <= Cardinality(Below(c))
        /\ Cardinality(Below(b)) # Cardinality(Below(c))
    BY <1>2, <2>1, FS_Subset
  <2> QED
    BY <1>2, <2>2
<1>4. \A b, c \in S : rank[b] = rank[c] => b = c
  <2> SUFFICES ASSUME NEW b \in S, NEW c \in S, b # c PROVE rank[b] # rank[c]
    OBVIOUS
  <2>1. rank[b] \in Nat /\ rank[c] \in Nat
    BY <1>2
  <2>2. b < c \/ c < b
    OBVIOUS
  <2> QED
    BY <1>3, <2>1, <2>2
<1>5. rank \in [S -> 1 .. k]
  BY <1>1, <1>2
<1>6. rank \in Injection(S, 1 .. k)
  <2> HIDE DEF rank
  <2> QED
    BY <1>4, <1>5 DEF Injection, IsInjective
<1>7. IsFiniteSet(1 .. k) /\ Cardinality(1 .. k) = k
  BY <1>1, FS_Interval
<1>8. rank \in Surjection(S, 1 .. k)
  BY <1>1, <1>6, <1>7, FS_Injection
<1>9. \A i \in 1 .. k : \E b \in S : Cardinality(Below(b)) = i - 1
  <2> TAKE i \in 1 .. k
  <2>1. PICK b \in S : rank[b] = i
    <3> HIDE DEF rank, k
    <3> QED
      BY <1>8 DEF Surjection
  <2>2. i = Cardinality(Below(b)) + 1
    BY <2>1
  <2>3. Cardinality(Below(b)) = i - 1
    <3> HIDE DEF Below
    <3> QED
      BY <1>2, <2>2
  <2> QED
    BY <2>3
<1>10. InOrder(S) = [i \in 1 .. k |-> CHOOSE b \in S : Cardinality(Below(b)) = i - 1]
  BY DEF InOrder
<1>11. \A b, c \in S : Cardinality(Below(b)) = Cardinality(Below(c)) => b = c
  BY <1>4
<1> HIDE DEF Below, rank, k
<1>12. \A i \in 1 .. k : InOrder(S)[i] \in S /\ Cardinality(Below(InOrder(S)[i])) = i - 1
  BY <1>9, <1>10
<1>13. InOrder(S) \in Seq(Nat)
  <2>1. \A i \in 1 .. k : InOrder(S)[i] \in Nat
    <3>1. S \subseteq Nat
      OBVIOUS
    <3> QED
      BY <1>12, <3>1
  <2>2. InOrder(S) = [i \in 1 .. k |-> InOrder(S)[i]]
    BY <1>10
  <2> QED
    BY <1>1, <2>1, <2>2, IsASeq
<1>14. DOMAIN InOrder(S) = 1 .. k
  BY <1>10
<1>15. ASSUME NEW b \in S PROVE b \in ToSet(InOrder(S))
  <2> DEFINE i == Cardinality(Below(b)) + 1
  <2>1. i \in 1 .. k /\ Cardinality(Below(b)) = i - 1
    BY <1>1, <1>2
  <2>2. InOrder(S)[i] = b
    BY <1>11, <1>12, <2>1
  <2> QED
    BY <1>14, <2>1, <2>2 DEF ToSet
<1> QED
  BY <1>12, <1>13, <1>14, <1>15 DEF ToSet

\* A drawing holds bids of the set that was drawn from.
LEMMA DrawnSet ==
  ASSUME NEW n \in Nat, NEW S, S \subseteq 1 .. n, NEW drawn \in SetToSeqs(S)
  PROVE  drawn \in Seq(Nat) /\ ToSet(drawn) \subseteq S
<1> DEFINE k == Cardinality(S)
<1>1. k \in Nat
  BY NumbersFinite
<1>2. drawn \in [1 .. k -> S]
  BY DEF SetToSeqs
<1> HIDE DEF k
<1>3. drawn \in Seq(Nat)
  <2>1. S \subseteq Nat
    OBVIOUS
  <2>2. drawn \in [1 .. k -> Nat]
    BY <1>2, <2>1
  <2> QED
    BY <1>1, <2>2, SeqDef
<1> QED
  BY <1>2, <1>3 DEF ToSet

------------------------------------------------------------------------------
(* Rows and money *)

LEMMA TimesMonotonic ==
  ASSUME NEW k \in Nat, NEW m \in Nat, NEW n \in Nat, m <= n
  PROVE  k * m \in Nat /\ k * n \in Nat /\ k * n >= k * m
<1>1. k * n = k * m + k * (n - m) /\ k * m \in Nat /\ k * (n - m) \in Nat
  OBVIOUS
<1> QED
  BY <1>1

LEMMA BidParts ==
  ASSUME Types, NEW b \in Ids
  PROVE  /\ b \in 1 .. Len(bids) /\ bids[b] \in Bid
         /\ bids[b].user \in Users /\ bids[b].status \in {"open", "closed", "fulfilled"}
<1>1. bids \in Seq(Bid) /\ b \in 1 .. Len(bids)
  BY DEF Types, Ids
<1>2. bids[b] \in Bid
  BY <1>1, ElementOfSeq
<1> QED
  BY <1>1, <1>2 DEF Bid

LEMMA IdsNumbers ==
  ASSUME Types
  PROVE  /\ Ids = 1 .. Len(bids) /\ Len(bids) \in Nat /\ Ids \subseteq Nat
         /\ \A S : S \subseteq Ids => IsFiniteSet(S) /\ Cardinality(S) \in Nat
<1>1. Ids = 1 .. Len(bids) /\ Len(bids) \in Nat
  BY DEF Types, Ids
<1>2. \A S : S \subseteq Ids => IsFiniteSet(S) /\ Cardinality(S) \in Nat
  BY <1>1, NumbersFinite
<1> QED
  BY <1>1, <1>2

LEMMA WriteFacts ==
  ASSUME Types, NEW b \in Ids, NEW status \in {"closed", "fulfilled"}, Write(b, status)
  PROVE  /\ bids' \in Seq(Bid) /\ Len(bids') = Len(bids) /\ Ids' = Ids
         /\ bids'[b].user = bids[b].user /\ bids'[b].status = status
         /\ \A c \in Ids \ {b} : bids'[c] = bids[c]
         /\ OpenBids' = OpenBids \ {b}
         /\ stale' \subseteq Ids /\ stale \subseteq stale' /\ (b \notin OpenBids => b \in stale')
<1>1. bids \in Seq(Bid) /\ b \in 1 .. Len(bids) /\ bids[b] \in Bid
  BY BidParts DEF Types
<1> DEFINE v == [bids[b] EXCEPT !.status = status]
<1>2. bids' = [bids EXCEPT ![b] = v]
  BY DEF Write
<1>3. v \in Bid /\ v.user = bids[b].user /\ v.status = status
  BY <1>1 DEF Bid
<1> HIDE DEF v
<1>4. /\ bids' \in Seq(Bid) /\ Len(bids') = Len(bids)
      /\ \A c \in 1 .. Len(bids) : bids'[c] = IF c = b THEN v ELSE bids[c]
  BY <1>1, <1>2, <1>3, ExceptSeq
<1>5. Ids = 1 .. Len(bids) /\ Ids' = Ids
  BY <1>1, <1>4 DEF Ids
<1>6. OpenBids' = OpenBids \ {b}
  BY <1>3, <1>4, <1>5 DEF OpenBids
<1>7. stale' \subseteq Ids /\ stale \subseteq stale' /\ (b \notin OpenBids => b \in stale')
  BY <1>5 DEF Write, Types
<1> QED
  BY <1>3, <1>4, <1>5, <1>6, <1>7

\* Money moves within what a bidder has.
LEMMA MoveFacts ==
  ASSUME Types, Balanced, NEW u \in Users, NEW d \in Nat, NEW e \in Nat, Move(u, d, e)
  PROVE  /\ cash' \in [Users -> Unsigneds] /\ reserved' \in [Users -> Unsigneds]
         /\ spent' \in [Users -> Unsigneds]
         /\ reserved'[u] = (reserved[u] - d) % Word /\ spent'[u] = (spent[u] + d - e) % Word
         /\ \A w \in Users \ {u} : reserved'[w] = reserved[w] /\ spent'[w] = spent[w]
         /\ Balanced'
<1>1. \A w \in Users : cash[w] \in Int /\ reserved[w] \in Int /\ spent[w] \in Int
  BY WordAssumption DEF Types, Unsigneds
<1>2. Word \in Nat \ {0}
  BY WordAssumption
<1> DEFINE c == cash[u] + e
           r == reserved[u] - d
           s == spent[u] + d - e
<1>3. c \in Int /\ r \in Int /\ s \in Int /\ c + r + s = cash[u] + reserved[u] + spent[u]
  BY <1>1
<1>4. /\ cash' = [cash EXCEPT ![u] = c % Word] /\ reserved' = [reserved EXCEPT ![u] = r % Word]
      /\ spent' = [spent EXCEPT ![u] = s % Word]
  BY DEF Move, Types
<1> HIDE DEF c, r, s
<1>5. c % Word \in Unsigneds /\ r % Word \in Unsigneds /\ s % Word \in Unsigneds
  BY <1>2, <1>3, ModParts DEF Unsigneds
<1>6. ((c % Word) + (r % Word) + (s % Word)) % Word = StartCash
  <2>1. ((c % Word) + (r % Word) + (s % Word)) % Word = (c + r + s) % Word
    <3>1. c \in Int /\ r \in Int /\ s \in Int /\ Word \in Nat \ {0}
      BY <1>2, <1>3
    <3> QED
      BY <3>1, ModSum, ZenonT(40)
  <2>2. (cash[u] + reserved[u] + spent[u]) % Word = StartCash
    BY DEF Balanced
  <2> QED
    BY <1>3, <2>1, <2>2
<1>7. /\ cash'[u] = c % Word /\ reserved'[u] = r % Word /\ spent'[u] = s % Word
      /\ \A w \in Users \ {u} : /\ cash'[w] = cash[w] /\ reserved'[w] = reserved[w]
                                /\ spent'[w] = spent[w]
  BY <1>4 DEF Types
<1>8. Balanced'
  BY <1>6, <1>7 DEF Balanced
<1>9. /\ cash' \in [Users -> Unsigneds] /\ reserved' \in [Users -> Unsigneds]
      /\ spent' \in [Users -> Unsigneds]
  BY <1>4, <1>5 DEF Types
<1> QED
  BY <1>7, <1>8, <1>9 DEF r, s

------------------------------------------------------------------------------
(* The bidders' requests *)

\* The allotments go by the stocks and the administrators.
LEMMA AllotmentsFrame ==
  ASSUME IpoInv, UNCHANGED <<listed, adm>>
  PROVE  Allotments' /\ SlotsRespected'
<1>1. Apart' /\ SlotsRespected'
  BY DEF IpoInv, Allotments, Apart, SlotsRespected
<1>2. ASSUME NEW a \in Admins PROVE HasStock(a)' /\ Fits(a)'
  BY DEF IpoInv, Allotments, HasStock, Fits, Given
<1> QED
  BY <1>1, <1>2 DEF Allotments

\* What a request keeps in mind changes no row.
LEMMA RequestKeeps ==
  ASSUME IpoInv, UNCHANGED <<biddable, bids, purse, pinned, listed, adm, history>>,
         kept' \subseteq Users, NEW r \in Requests, NEW v \in {Idle} \cup Bidding \cup Cancelling,
         req' = [req EXCEPT ![r] = v],
         v.pc \in {"offer", "cancel"} => v.bid \in Ids /\ bids[v.bid].user = v.user
  PROVE  IpoInv'
<1>1. Ids' = Ids
  BY DEF Ids
<1>2. Types'
  <2>1. req' \in [Requests -> {Idle} \cup Bidding \cup Cancelling]
    BY DEF IpoInv, Types
  <2> QED
    BY <1>1, <2>1 DEF IpoInv, Types
<1>3. Numbers'
  <2>1. \A x \in Requests : req'[x] = IF x = r THEN v ELSE req[x]
    BY DEF IpoInv, Types
  <2>2. \A x \in Requests : req'[x].pc \in {"offer", "cancel"} =>
          req'[x].bid \in Ids /\ bids[req'[x].bid].user = req'[x].user
    BY <2>1 DEF IpoInv, Numbers
  <2> QED
    BY <1>1, <2>2 DEF IpoInv, Numbers
<1>4. Balanced' /\ Allotments' /\ SlotsRespected'
  BY AllotmentsFrame DEF IpoInv, Balanced
<1>5. Settling'
  BY <1>1 DEF IpoInv, Settling, InHands, OpenBids
<1> QED
  BY <1>2, <1>3, <1>4, <1>5 DEF IpoInv

LEMMA IdleRequest == Idle.pc = "idle"
BY DEF Idle

\* The step that a request is at decides what it keeps in mind.
LEMMA RequestParts ==
  ASSUME IpoInv, NEW r \in Requests
  PROVE  /\ req[r].pc \in {"cash", "look", "create"} => req[r] \in Bidding
         /\ req[r].pc \in {"offer", "cancel"} => req[r] \in Cancelling
         /\ req[r] # Idle => req[r].user \in Users
<1>1. req[r] \in {Idle} \cup Bidding \cup Cancelling
  BY DEF IpoInv, Types
<1>2. \A x \in Bidding : x.pc \in {"cash", "look", "create"} /\ x.user \in Users
  BY DEF Bidding
<1>3. \A x \in Cancelling : x.pc \in {"offer", "cancel"} /\ x.user \in Users
  BY DEF Cancelling
<1> QED
  BY <1>1, <1>2, <1>3, IdleRequest

LEMMA RequestStepsKeep ==
  ASSUME IpoInv, NEW r \in Requests,
         \/ \E u \in Users : StartCreate(r, u)
         \/ \E b \in Ids : StartCancel(r, b)
         \/ CheckCash(r) \/ LookForOpenBid(r) \/ ReadOffer(r) \/ SaveFails(r)
  PROVE  IpoInv' /\ UNCHANGED <<bids, purse, stale>>
<1>1. req \in [Requests -> {Idle} \cup Bidding \cup Cancelling] /\ kept \subseteq Users
      /\ biddable \in BOOLEAN
  BY DEF IpoInv, Types
<1>2. CASE Answer(r) /\ UNCHANGED <<biddable, bids, purse, pinned, listed, adm, history>>
           /\ kept' \subseteq Users
  BY <1>2, RequestKeeps, IdleRequest DEF Answer
<1>3. ASSUME NEW u \in Users, StartCreate(r, u) PROVE IpoInv'
  <2> DEFINE v == [pc |-> "cash", user |-> u, biddable |-> biddable]
  <2>1. v \in Bidding /\ v.pc = "cash" /\ req' = [req EXCEPT ![r] = v]
    BY <1>1, <1>3 DEF Bidding, StartCreate
  <2> HIDE DEF v
  <2> QED
    BY <1>1, <1>3, <2>1, RequestKeeps DEF StartCreate
<1>4. ASSUME NEW b \in Ids, StartCancel(r, b) PROVE IpoInv'
  <2> DEFINE v == [pc |-> "offer", user |-> bids[b].user, bid |-> b]
  <2>1. bids[b].user \in Users /\ b \in Nat
    BY BidParts DEF IpoInv
  <2>2. v \in Cancelling /\ v.bid = b /\ v.user = bids[b].user /\ req' = [req EXCEPT ![r] = v]
    BY <1>4, <2>1 DEF Cancelling, StartCancel
  <2> HIDE DEF v
  <2> QED
    BY <1>1, <1>4, <2>2, RequestKeeps DEF StartCancel
<1>5. ASSUME NEW step \in {"look", "create"}, req[r].pc \in {"cash", "look"},
             req' = [req EXCEPT ![r].pc = step],
             UNCHANGED <<biddable, bids, purse, locks, listed, adm, history>>
      PROVE  IpoInv'
  <2> DEFINE v == [req[r] EXCEPT !.pc = step]
  <2>1. req[r] \in Bidding
    BY <1>5, RequestParts
  <2>2. v \in Bidding /\ v.pc = step /\ req' = [req EXCEPT ![r] = v]
    BY <1>5, <2>1 DEF Bidding
  <2> HIDE DEF v
  <2> QED
    BY <1>1, <1>5, <2>2, RequestKeeps
<1>6. CASE CheckCash(r)
  <2>1. CASE Answer(r)
    <3>1. req[r].user \in Users
      BY <1>6, RequestParts, IdleRequest DEF CheckCash
    <3>2. kept' \subseteq Users
      BY <1>1, <1>6, <3>1 DEF CheckCash
    <3> QED
      BY <1>2, <1>6, <2>1, <3>2 DEF CheckCash
  <2>2. CASE ~ Answer(r)
    BY <1>5, <1>6, <2>2 DEF CheckCash
  <2> QED
    BY <1>6, <2>1, <2>2 DEF CheckCash
<1>7. CASE LookForOpenBid(r)
  <2>1. CASE Answer(r)
    BY <1>1, <1>2, <1>7, <2>1 DEF LookForOpenBid
  <2>2. CASE ~ Answer(r)
    BY <1>5, <1>7, <2>2 DEF LookForOpenBid
  <2> QED
    BY <2>1, <2>2
<1>8. CASE ReadOffer(r)
  <2>1. CASE Answer(r)
    BY <1>1, <1>2, <1>8, <2>1 DEF ReadOffer
  <2>2. CASE ~ Answer(r)
    <3> DEFINE v == [req[r] EXCEPT !.pc = "cancel"]
    <3>1. req[r] \in Cancelling
      BY <1>8, RequestParts DEF ReadOffer
    <3>2. /\ v \in Cancelling /\ v.bid = req[r].bid /\ v.user = req[r].user
          /\ req' = [req EXCEPT ![r] = v]
      BY <1>8, <2>2, <3>1 DEF Cancelling, ReadOffer
    <3>3. req[r].bid \in Ids /\ bids[req[r].bid].user = req[r].user
      BY <1>8 DEF IpoInv, Numbers, ReadOffer
    <3> HIDE DEF v
    <3> QED
      BY <1>1, <1>8, <3>2, <3>3, RequestKeeps DEF ReadOffer
  <2> QED
    BY <2>1, <2>2
<1>9. CASE SaveFails(r)
  BY <1>1, <1>2, <1>9 DEF SaveFails
<1>10. UNCHANGED <<bids, purse, stale>>
  BY DEF StartCreate, StartCancel, CheckCash, LookForOpenBid, ReadOffer, SaveFails
<1> QED
  BY <1>3, <1>4, <1>6, <1>7, <1>8, <1>9, <1>10

\* A new bid is open; it came late unless the bidding was open.
LEMMA SaveNewIpoBidKeeps ==
  ASSUME IpoInv, NEW r \in Requests, SaveNewIpoBid(r)
  PROVE  IpoInv'
<1> DEFINE u == req[r].user
           v == [user |-> u, status |-> "open"]
           n == Len(bids) + 1
<1>1. Types /\ u \in Users
  BY RequestParts, IdleRequest DEF IpoInv, SaveNewIpoBid
<1>2. v \in Bid /\ v.user = u /\ v.status = "open"
  BY <1>1 DEF Bid
<1>3. /\ bids' = Append(bids, v) /\ Len(bids) < MaxBids
      /\ reserved' = [reserved EXCEPT ![u] = (@ + SlotPrice) % Word]
      /\ cash' = [cash EXCEPT ![u] = (@ - SlotPrice) % Word]
      /\ late' = (IF biddable THEN late ELSE late \cup {n})
      /\ req' = [req EXCEPT ![r] = Idle]
      /\ UNCHANGED <<biddable, spent, locks, listed, adm, stale, cut>>
  BY DEF SaveNewIpoBid, Answer
<1> HIDE DEF u, v
<1>4. /\ bids' \in Seq(Bid) /\ Len(bids') = n /\ bids'[n] = v
      /\ \A b \in Ids : bids'[b] = bids[b]
      /\ Ids' = Ids \cup {n} /\ n \notin Ids /\ n <= MaxBids
  <2>1. bids \in Seq(Bid) /\ Ids = 1 .. Len(bids) /\ Len(bids) \in Nat /\ MaxBids \in Nat
    BY <1>1, IdsNumbers, BoundsAssumption DEF Types
  <2>2. /\ bids' \in Seq(Bid) /\ Len(bids') = n /\ bids'[n] = v
        /\ \A b \in 1 .. Len(bids) : bids'[b] = bids[b]
    BY <1>2, <1>3, <2>1, AppendProperties
  <2> QED
    BY <1>3, <2>1, <2>2 DEF Ids
<1> HIDE DEF n
<1>5. Types'
  <2>1. req' \in [Requests -> {Idle} \cup Bidding \cup Cancelling]
    BY <1>1, <1>3 DEF Types
  <2>2. cash' \in [Users -> Unsigneds] /\ reserved' \in [Users -> Unsigneds]
    <3>1. Word \in Nat \ {0} /\ SlotPrice \in Int
      BY WordAssumption, OfferAssumption
    <3>2. cash[u] \in Int /\ reserved[u] \in Int
      BY <1>1, <3>1 DEF Types, Unsigneds
    <3>3. (cash[u] - SlotPrice) % Word \in Unsigneds /\ (reserved[u] + SlotPrice) % Word \in Unsigneds
      BY <3>1, <3>2 DEF Unsigneds
    <3> QED
      BY <1>1, <1>3, <3>3 DEF Types
  <2> QED
    BY <1>1, <1>3, <1>4, <2>1, <2>2 DEF Types
<1>6. Numbers'
  <2>1. \A x \in Requests : req'[x] = IF x = r THEN Idle ELSE req[x]
    BY <1>1, <1>3 DEF Types
  <2>2. \A x \in Requests : req'[x].pc \in {"offer", "cancel"} =>
          req'[x].bid \in Ids' /\ bids'[req'[x].bid].user = req'[x].user
    BY <1>4, <2>1, IdleRequest DEF IpoInv, Numbers
  <2> QED
    BY <1>3, <1>4, <2>2 DEF IpoInv, Numbers
<1>7. Balanced'
  <2> SUFFICES ASSUME NEW w \in Users
               PROVE  (cash'[w] + reserved'[w] + spent'[w]) % Word = StartCash
    BY DEF Balanced
  <2>1. (cash[w] + reserved[w] + spent[w]) % Word = StartCash
    BY DEF IpoInv, Balanced
  <2>2. CASE w # u
    <3>1. cash'[w] = cash[w] /\ reserved'[w] = reserved[w] /\ spent'[w] = spent[w]
      BY <1>1, <1>3, <2>2 DEF Types
    <3> QED
      BY <2>1, <3>1
  <2>3. CASE w = u
    <3> DEFINE c == cash[u] - SlotPrice
               d == reserved[u] + SlotPrice
               s == spent[u]
    <3>1. Word \in Nat \ {0} /\ SlotPrice \in Int
      BY WordAssumption, OfferAssumption
    <3>2. cash[u] \in Int /\ reserved[u] \in Int /\ s \in 0 .. Word - 1
      BY <1>1, <3>1 DEF Types, Unsigneds
    <3>3. c \in Int /\ d \in Int /\ s \in Int /\ c + d + s = cash[u] + reserved[u] + spent[u]
      BY <3>1, <3>2
    <3>4. s = Word * 0 + s
      BY <3>1, <3>2
    <3>5. cash'[u] = c % Word /\ reserved'[u] = d % Word /\ spent'[u] = s
      BY <1>1, <1>3 DEF Types
    <3> HIDE DEF c, d, s
    <3>6. ((c % Word) + (d % Word) + (s % Word)) % Word = (c + d + s) % Word
      <4>1. c \in Int /\ d \in Int /\ s \in Int /\ Word \in Nat \ {0}
        BY <3>1, <3>3
      <4> QED
        BY <4>1, ModSum, ZenonT(40)
    <3>7. s % Word = s
      BY <3>1, <3>2, <3>3, <3>4, ModUnique
    <3> QED
      BY <2>1, <2>3, <3>3, <3>5, <3>6, <3>7
  <2> QED
    BY <2>2, <2>3
<1>8. Allotments' /\ SlotsRespected'
  BY <1>3, AllotmentsFrame
<1>9. Settling'
  <2>1. OpenBids' = OpenBids \cup {n}
    BY <1>2, <1>4 DEF OpenBids
  <2> QED
    BY <1>3, <2>1 DEF IpoInv, Settling, InHands
<1> QED
  BY <1>5, <1>6, <1>7, <1>8, <1>9 DEF IpoInv

\* A bid is settled.
LEMMA SaveCancelledIpoBidKeeps ==
  ASSUME IpoInv, NEW r \in Requests, SaveCancelledIpoBid(r)
  PROVE  IpoInv'
<1> DEFINE u == req[r].user
           b == req[r].bid
<1>1. Types /\ Balanced /\ SlotPrice \in Nat
  BY OfferAssumption DEF IpoInv
<1>2. u \in Users /\ b \in Ids
  BY RequestParts, IdleRequest DEF IpoInv, Numbers, SaveCancelledIpoBid
<1>3. /\ Write(b, "closed") /\ Move(u, SlotPrice, SlotPrice) /\ req' = [req EXCEPT ![r] = Idle]
      /\ UNCHANGED <<biddable, locks, listed, adm, late, cut>>
  BY DEF SaveCancelledIpoBid, Answer
<1> HIDE DEF u, b
<1>4. /\ bids' \in Seq(Bid) /\ Len(bids') = Len(bids) /\ Ids' = Ids
      /\ bids'[b].user = bids[b].user /\ \A c \in Ids \ {b} : bids'[c] = bids[c]
      /\ OpenBids' = OpenBids \ {b} /\ stale' \subseteq Ids
  BY <1>1, <1>2, <1>3, WriteFacts
<1>5. /\ cash' \in [Users -> Unsigneds] /\ reserved' \in [Users -> Unsigneds]
      /\ spent' \in [Users -> Unsigneds] /\ Balanced'
  BY <1>1, <1>2, <1>3, MoveFacts
<1>6. Types'
  <2>1. req' \in [Requests -> {Idle} \cup Bidding \cup Cancelling]
    BY <1>1, <1>3 DEF Types
  <2> QED
    BY <1>1, <1>3, <1>4, <1>5, <2>1 DEF Types
<1>7. Numbers'
  <2>1. \A x \in Requests : req'[x] = IF x = r THEN Idle ELSE req[x]
    BY <1>1, <1>3 DEF Types
  <2>2. \A x \in Requests : req'[x].pc \in {"offer", "cancel"} =>
          req'[x].bid \in Ids /\ bids'[req'[x].bid].user = req'[x].user
    BY <1>4, <2>1, IdleRequest DEF IpoInv, Numbers
  <2> QED
    BY <1>3, <1>4, <2>2 DEF IpoInv, Numbers
<1>8. Allotments' /\ SlotsRespected'
  BY <1>3, AllotmentsFrame
<1>9. Settling'
  BY <1>3, <1>4 DEF IpoInv, Settling, InHands
<1> QED
  BY <1>5, <1>6, <1>7, <1>8, <1>9 DEF IpoInv

------------------------------------------------------------------------------
(* The allotments *)

LEMMA AdminParts ==
  ASSUME IpoInv, NEW a \in Admins
  PROVE  /\ adm[a] \in Allotment /\ adm[a].todo \in Seq(Nat) /\ ToSet(adm[a].todo) \subseteq Ids
         /\ adm[a].pc \in Quiet \cup Active /\ adm[a].stock \in Nat /\ adm[a].count \in Nat
<1>1. adm[a] \in Allotment /\ ToSet(adm[a].todo) \subseteq Ids
  BY DEF IpoInv, Types, Numbers
<1> QED
  BY <1>1 DEF Allotment

LEMMA ListingParts ==
  ASSUME IpoInv, NEW i \in DOMAIN listed
  PROVE  /\ listed[i] \in Listing /\ listed[i].price \in ListingPrices /\ listed[i].shares \in Nat
         /\ listed[i].allotted \subseteq Ids /\ i \in 1 .. Len(listed)
         /\ IsFiniteSet(listed[i].allotted) /\ Cardinality(listed[i].allotted) \in Nat
<1>1. listed \in Seq(Listing) /\ listed[i].allotted \subseteq Ids /\ Types
  BY DEF IpoInv, Types, Numbers
<1>2. listed[i] \in Listing /\ i \in 1 .. Len(listed)
  BY <1>1, ElementOfSeq
<1> QED
  BY <1>1, <1>2, IdsNumbers DEF Listing

\* Where an administrator goes and what he takes along; every other stays where he is.
LEMMA AdminGoes ==
  ASSUME IpoInv, NEW a \in Admins, NEW v \in Allotment, adm' = [adm EXCEPT ![a] = v],
         ToSet(v.todo) \subseteq Ids'
  PROVE  /\ adm' \in [Admins -> Allotment] /\ adm'[a] = v
         /\ \A o \in Admins \ {a} : adm'[o] = adm[o]
         /\ Ids \subseteq Ids' => \A o \in Admins : ToSet(adm'[o].todo) \subseteq Ids'
BY DEF IpoInv, Types, Numbers

\* A step that only moves an administrator keeps the rows and the stocks.
LEMMA AdminKeeps ==
  ASSUME IpoInv, NEW a \in Admins, NEW v \in Allotment, adm' = [adm EXCEPT ![a] = v],
         ToSet(v.todo) \subseteq Ids, biddable' \in BOOLEAN, cut' \in BOOLEAN,
         kept' \subseteq Users, pinned' \subseteq Users,
         UNCHANGED <<bids, purse, listed, req, stale, late>>,
         \/ v.pc \in Quiet /\ v.stock = 0 /\ v.todo = <<>>
         \/ v.pc \in Active /\ v.stock = adm[a].stock /\ adm[a].pc \in Active,
         v.pc \in {"allot all", "draw"} => v = adm[a],
         v.pc = "allot drawn" =>
           v = adm[a] \/ Cardinality(Given(a) \cup ToSet(v.todo)) <= SlotQuantity,
         Settling'
  PROVE  IpoInv'
<1>1. Ids' = Ids
  BY DEF Ids
<1>2. /\ adm' \in [Admins -> Allotment] /\ adm'[a] = v
      /\ \A o \in Admins \ {a} : adm'[o] = adm[o]
      /\ \A o \in Admins : ToSet(adm'[o].todo) \subseteq Ids'
  BY <1>1, AdminGoes
<1>3. Types' /\ Numbers' /\ Balanced' /\ SlotsRespected'
  BY <1>1, <1>2 DEF IpoInv, Types, Numbers, Balanced, SlotsRespected
<1>4. Allotments'
  <2>1. Apart /\ \A o \in Admins : HasStock(o) /\ Fits(o)
    BY DEF IpoInv, Allotments
  <2>2. \A o \in Admins : adm'[o].stock \in {0, adm[o].stock}
    BY <1>2
  <2>3. Apart'
    BY <2>1, <2>2 DEF Apart
  <2>4. ASSUME NEW o \in Admins, o # a PROVE HasStock(o)' /\ Fits(o)'
    BY <1>2, <2>1, <2>4 DEF HasStock, Fits, Given
  <2>5. HasStock(a)'
    BY <1>2, <2>1 DEF HasStock, Quiet, Active
  <2>6. Fits(a)'
    BY <1>2, <2>1 DEF Fits, Given, Quiet, Active
  <2> QED
    BY <2>3, <2>4, <2>5, <2>6 DEF Allotments
<1> QED
  BY <1>3, <1>4 DEF IpoInv

LEMMA WaitingParts ==
  /\ Waiting \in Allotment /\ Waiting.pc = "idle" /\ Waiting.todo = <<>> /\ Waiting.stock = 0
  /\ ToSet(Waiting.todo) = {}
BY EmptyTodo DEF Waiting, Allotment, Quiet

\* An administrator who goes on within the steps that have no stock yet.
LEMMA QuietParts ==
  ASSUME IpoInv, NEW a \in Admins, adm[a].pc \in Quiet, NEW step \in Quiet
  PROVE  LET v == [adm[a] EXCEPT !.pc = step]
         IN  /\ v \in Allotment /\ v.pc = step /\ v.stock = 0 /\ v.todo = <<>>
             /\ ToSet(v.todo) = {}
<1>1. adm[a] \in Allotment /\ adm[a].stock = 0 /\ adm[a].todo = <<>>
  BY AdminParts DEF IpoInv, Allotments, HasStock
<1> QED
  BY <1>1, EmptyTodo DEF Allotment, Quiet

LEMMA BiddingStepsKeep ==
  ASSUME IpoInv, NEW a \in Admins, AllowIpoBidding(a) \/ StartAllot(a) \/ CloseBidding(a)
  PROVE  IpoInv' /\ UNCHANGED <<bids, purse, stale>>
<1>1. Types
  BY DEF IpoInv
<1>2. CASE AllowIpoBidding(a)
  <2>1. biddable' = TRUE /\ UNCHANGED <<bids, purse, locks, listed, req, adm, history>>
    BY <1>2 DEF AllowIpoBidding
  <2>2. Types' /\ Numbers' /\ Balanced'
    BY <1>1, <2>1 DEF IpoInv, Types, Numbers, Balanced, Ids
  <2>3. Settling'
    BY <2>1 DEF Settling
  <2> QED
    BY <2>1, <2>2, <2>3, AllotmentsFrame DEF IpoInv
<1>3. CASE StartAllot(a) \/ CloseBidding(a)
  <2> DEFINE step == IF StartAllot(a) THEN "close" ELSE "list"
             v == [adm[a] EXCEPT !.pc = step]
  <2>1. adm[a].pc \in Quiet /\ step \in Quiet
    BY <1>3 DEF StartAllot, CloseBidding, Quiet
  <2>2. ~ (StartAllot(a) /\ CloseBidding(a))
    BY DEF StartAllot, CloseBidding
  <2>3. /\ adm' = [adm EXCEPT ![a] = v]
        /\ UNCHANGED <<bids, purse, locks, listed, req, history>>
        /\ biddable' \in BOOLEAN /\ (step = "close" => biddable')
    BY <1>1, <1>3, <2>2 DEF StartAllot, CloseBidding, Go, Types
  <2> HIDE DEF step
  <2>4. v \in Allotment /\ v.pc = step /\ v.stock = 0 /\ v.todo = <<>> /\ ToSet(v.todo) = {}
    BY <2>1, QuietParts
  <2> HIDE DEF v
  <2>5. adm'[a] = v
    BY <1>1, <2>3 DEF Types
  <2>6. Settling'
    <3>1. CASE step = "close"
      BY <2>3, <3>1 DEF Settling
    <3>2. CASE step # "close"
      <4>1. adm'[a].pc = "list"
        BY <2>4, <2>5, <3>2 DEF step
      <4> QED
        BY <4>1 DEF Settling, InHands
    <3> QED
      BY <3>1, <3>2
  <2>7. cut' \in BOOLEAN /\ kept' \subseteq Users /\ pinned' \subseteq Users
    BY <1>1, <2>3 DEF Types
  <2>8. v.pc \notin {"allot all", "draw", "allot drawn"}
    BY <2>1, <2>4 DEF Quiet
  <2> QED
    BY <2>1, <2>3, <2>4, <2>6, <2>7, <2>8, AdminKeeps
<1>4. UNCHANGED <<bids, purse, stale>>
  BY DEF AllowIpoBidding, StartAllot, CloseBidding
<1> QED
  BY <1>2, <1>3, <1>4

\* An error leaves the rest of an allotment undone; so does a crash.
LEMMA AllotFailsKeeps ==
  ASSUME IpoInv, NEW a \in Admins, AllotFails(a)
  PROVE  IpoInv' /\ UNCHANGED <<bids, purse, stale>>
<1>1. Types
  BY DEF IpoInv
<1>2. /\ adm' = [adm EXCEPT ![a] = Waiting] /\ cut' = (cut \/ adm[a].pc # "close")
      /\ UNCHANGED <<biddable, bids, purse, kept, listed, req, stale, late>>
  BY DEF AllotFails, Return
<1>3. pinned' \subseteq Users /\ adm[a].pc # "idle"
  <2>1. ASSUME adm[a].todo # <<>> PROVE Bidder(a) \in Users
    <3>1. Head(adm[a].todo) \in Ids
      BY <2>1, AdminParts, TodoParts
    <3> QED
      BY <1>1, <3>1, BidParts DEF Bidder, Next1
  <2> QED
    BY <1>1, <2>1 DEF AllotFails, Allotting, Types
<1>4. cut' \in BOOLEAN
  BY <1>1, <1>2 DEF Types
<1>5. Settling'
  <2> SUFFICES ASSUME ~ biddable, ~ cut, adm[a].pc = "close", NEW b \in OpenBids' \ late'
               PROVE  InHands(b)'
    BY <1>2 DEF Settling
  <2>1. PICK o \in Admins : \/ adm[o].pc \in {"list", "draw", "allot drawn"}
                            \/ adm[o].pc \in {"allot all", "refund"} /\ b \in ToSet(adm[o].todo)
    BY <1>2 DEF IpoInv, Settling, InHands, OpenBids, Ids
  <2>2. o # a /\ adm'[o] = adm[o]
    BY <1>1, <1>2, <2>1 DEF Types
  <2> QED
    BY <2>1, <2>2 DEF InHands
<1>6. IpoInv'
  <2> DEFINE v == Waiting
  <2>1. /\ v \in Allotment /\ v.pc \in Quiet /\ v.todo = <<>> /\ v.stock = 0
        /\ ToSet(v.todo) \subseteq Ids
        /\ v.pc \notin {"allot all", "draw", "allot drawn"}
    BY WaitingParts DEF Quiet
  <2>2. biddable' \in BOOLEAN /\ kept' \subseteq Users
    BY <1>1, <1>2 DEF Types
  <2> HIDE DEF v
  <2>3. adm' = [adm EXCEPT ![a] = v]
    BY <1>2 DEF v
  <2> QED
    BY <1>2, <1>3, <1>4, <1>5, <2>1, <2>2, <2>3, AdminKeeps
<1> QED
  BY <1>2, <1>6

LEMMA CrashKeeps ==
  ASSUME IpoInv, Crash
  PROVE  IpoInv' /\ UNCHANGED <<bids, purse, stale>>
<1>1. Types
  BY DEF IpoInv
<1>2. /\ req' = [r \in Requests |-> Idle] /\ adm' = [a \in Admins |-> Waiting]
      /\ kept' = {} /\ pinned' = {}
      /\ cut' = (cut \/ \E a \in Admins : adm[a].pc \notin {"idle", "close"})
      /\ UNCHANGED <<biddable, bids, purse, listed, stale, late>>
  BY DEF Crash
<1>3. \A a \in Admins : adm'[a] = Waiting
  BY <1>2
<1>4. Types'
  BY <1>1, <1>2, WaitingParts DEF Types, Ids
<1>5. Numbers'
  BY <1>2, <1>3, WaitingParts, IdleRequest DEF IpoInv, Numbers, Ids
<1>6. Balanced' /\ SlotsRespected'
  BY <1>2 DEF IpoInv, Balanced, SlotsRespected
<1>7. Allotments'
  BY <1>3, WaitingParts DEF Allotments, Apart, HasStock, Fits, Quiet
<1>8. Settling'
  <2> SUFFICES ASSUME ~ biddable, ~ cut, \A a \in Admins : adm[a].pc \in {"idle", "close"}
               PROVE  OpenBids \ late = {}
    BY <1>2 DEF Settling, OpenBids, Ids
  <2> QED
    BY DEF IpoInv, Settling, InHands
<1> QED
  BY <1>2, <1>4, <1>5, <1>6, <1>7, <1>8 DEF IpoInv

\* What an allotment does to its stock leaves those of the others alone.
LEMMA OthersKeep ==
  ASSUME IpoInv, NEW a \in Admins, NEW v \in Allotment, adm' = [adm EXCEPT ![a] = v],
         v.stock = adm[a].stock \/ v.stock \notin DOMAIN listed,
         \A k \in DOMAIN listed \ {adm[a].stock} : k \in DOMAIN listed' /\ listed'[k] = listed[k]
  PROVE  Apart' /\ \A o \in Admins \ {a} : HasStock(o)' /\ Fits(o)'
<1>1. adm \in [Admins -> Allotment] /\ Apart /\ \A o \in Admins : HasStock(o) /\ Fits(o)
  BY DEF IpoInv, Types, Allotments
<1>2. \A o \in Admins : (adm[o].stock = 0 /\ adm[o].pc \in Quiet) \/ adm[o].stock \in DOMAIN listed
  BY <1>1 DEF HasStock
<1>3. adm'[a] = v /\ \A o \in Admins \ {a} : adm'[o] = adm[o]
  BY <1>1
<1>4. Apart'
  <2> SUFFICES ASSUME NEW x \in Admins, NEW y \in Admins, x # y
               PROVE  adm'[x].stock = 0 \/ adm'[x].stock # adm'[y].stock
    BY DEF Apart
  <2>1. CASE v.stock = adm[a].stock
    BY <1>1, <1>3, <2>1 DEF Apart
  <2>2. CASE v.stock \notin DOMAIN listed
    BY <1>1, <1>2, <1>3, <2>2 DEF Apart
  <2> QED
    BY <2>1, <2>2
<1>5. ASSUME NEW o \in Admins \ {a} PROVE HasStock(o)' /\ Fits(o)'
  <2>1. CASE adm[o].stock = 0 /\ adm[o].pc \in Quiet
    BY <1>1, <1>3, <2>1 DEF HasStock, Fits, Quiet
  <2>2. CASE adm[o].stock \in DOMAIN listed /\ adm[o].stock # 0
    <3>1. adm[o].stock # adm[a].stock
      BY <1>1, <2>2 DEF Apart
    <3>2. /\ adm[o].stock \in DOMAIN listed'
          /\ listed'[adm[o].stock] = listed[adm[o].stock] /\ adm'[o] = adm[o]
      BY <1>3, <2>2, <3>1
    <3> QED
      BY <1>1, <3>2 DEF HasStock, Fits, Given
  <2>3. 0 \notin DOMAIN listed
    <3>1. DOMAIN listed = 1 .. Len(listed)
      BY DEF IpoInv, Types
    <3> QED
      BY <3>1
  <2> QED
    BY <1>2, <2>1, <2>2, <2>3
<1> QED
  BY <1>4, <1>5

\* The row of one stock changes.
LEMMA ListingChanges ==
  ASSUME IpoInv, NEW i \in DOMAIN listed, NEW x \in Listing, listed' = [listed EXCEPT ![i] = x]
  PROVE  /\ listed' \in Seq(Listing) /\ DOMAIN listed' = DOMAIN listed
         /\ listed'[i] = x /\ \A k \in DOMAIN listed \ {i} : listed'[k] = listed[k]
<1>1. listed \in Seq(Listing) /\ i \in 1 .. Len(listed)
  BY DEF IpoInv, Types
<1> QED
  BY <1>1, ExceptSeq

LEMMA ListingPriceBounds ==
  ASSUME NEW count \in Nat
  PROVE  ListingPrice(count) \in ListingPrices
<1> DEFINE percent(n) == (StockPrice * n) \div 100
<1>1. StockPrice \in Nat
  BY OfferAssumption
<1>2. \A n \in {90, 95, 105, 110} :
        percent(n) \in Int /\ 10 * percent(n) >= 9 * StockPrice - 9
                           /\ 10 * percent(n) <= 11 * StockPrice
  BY <1>1
<1>3. StockPrice \in ListingPrices /\ \A n \in {90, 95, 105, 110} : percent(n) \in ListingPrices
  BY <1>1, <1>2 DEF ListingPrices
<1>4. ListingPrice(count) \in {StockPrice, percent(90), percent(95), percent(105), percent(110)}
  BY DEF ListingPrice
<1> QED
  BY <1>3, <1>4

\* The stock of an offering is listed once the bidding is closed; the open bids are all
\* allotted, or some of them drawn.
LEMMA ListStockKeeps ==
  ASSUME IpoInv, NEW a \in Admins, ListStock(a)
  PROVE  IpoInv' /\ UNCHANGED <<bids, purse, stale>>
<1> DEFINE count == Cardinality(OpenBids)
           n == Len(listed) + 1
           x == [price |-> ListingPrice(count), shares |-> 0, allotted |-> {}]
           v == [pc |-> IF count <= SlotQuantity THEN "allot all" ELSE "draw",
                 todo |-> IF count <= SlotQuantity THEN InOrder(OpenBids) ELSE <<>>,
                 stock |-> n, count |-> count]
<1>1. Types /\ OpenBids \subseteq Ids /\ count \in Nat /\ SlotQuantity \in Nat
  BY IdsNumbers, OfferAssumption DEF IpoInv, OpenBids
<1>2. InOrder(OpenBids) \in Seq(Nat) /\ ToSet(InOrder(OpenBids)) = OpenBids
  BY <1>1, IdsNumbers, InOrderHasAll
<1>3. /\ listed' = Append(listed, x) /\ adm' = [adm EXCEPT ![a] = v]
      /\ UNCHANGED <<biddable, bids, purse, locks, req, history>>
  BY DEF ListStock
<1>4. x \in Listing /\ x.shares = 0 /\ x.allotted = {}
  BY <1>1, ListingPriceBounds DEF Listing
<1>5. Len(listed) \in Nat /\ listed \in Seq(Listing) /\ DOMAIN listed = 1 .. Len(listed)
  BY <1>1 DEF Types
<1>6. /\ v \in Allotment /\ v.stock = n /\ v.count = count
      /\ count <= SlotQuantity => v.pc = "allot all" /\ ToSet(v.todo) = OpenBids
      /\ ~ (count <= SlotQuantity) => v.pc = "draw" /\ v.todo = <<>> /\ ToSet(v.todo) = {}
  BY <1>1, <1>2, <1>5, EmptyTodo DEF Allotment, Active
<1> HIDE DEF x, v
<1>7. /\ listed' \in Seq(Listing) /\ DOMAIN listed' = DOMAIN listed \cup {n} /\ listed'[n] = x
      /\ \A k \in DOMAIN listed : listed'[k] = listed[k]
      /\ n \notin DOMAIN listed
  BY <1>3, <1>4, <1>5, AppendProperties
<1> HIDE DEF n
<1>8. /\ Ids' = Ids /\ OpenBids' = OpenBids
  BY <1>3 DEF Ids, OpenBids
<1>9. /\ adm' \in [Admins -> Allotment] /\ adm'[a] = v
      /\ \A o \in Admins : ToSet(adm'[o].todo) \subseteq Ids'
  <2>1. ToSet(v.todo) \subseteq Ids'
    BY <1>1, <1>6, <1>8
  <2> QED
    BY <1>3, <1>6, <1>8, <2>1, AdminGoes
<1>10. Types' /\ Balanced'
  BY <1>1, <1>3, <1>7, <1>8, <1>9 DEF IpoInv, Types, Balanced
<1>11. Numbers'
  BY <1>3, <1>4, <1>7, <1>8, <1>9 DEF IpoInv, Numbers
<1>12. SlotsRespected'
  <2>1. ASSUME NEW k \in DOMAIN listed'
        PROVE  /\ Cardinality(listed'[k].allotted) <= SlotQuantity
               /\ \/ listed'[k].shares = 0
                  \/ listed'[k].shares >= StocksPerSlot * Cardinality(listed'[k].allotted)
    <3>1. CASE k \in DOMAIN listed
      BY <1>7, <3>1 DEF IpoInv, SlotsRespected
    <3>2. CASE k = n
      <4>1. listed'[k].allotted = {} /\ listed'[k].shares = 0
        BY <1>4, <1>7, <3>2
      <4>2. Cardinality(listed'[k].allotted) = 0
        BY <4>1, FS_EmptySet
      <4> QED
        BY <1>1, <4>1, <4>2
    <3> QED
      BY <1>7, <2>1, <3>1, <3>2
  <2> QED
    BY <2>1 DEF SlotsRespected
<1>13. Allotments'
  <2>1. Apart' /\ \A o \in Admins \ {a} : HasStock(o)' /\ Fits(o)'
    BY <1>3, <1>6, <1>7, OthersKeep
  <2>2. HasStock(a)'
    BY <1>4, <1>6, <1>7, <1>9 DEF HasStock, Quiet
  <2>3. Fits(a)'
    <3>1. Given(a)' = {}
      BY <1>4, <1>6, <1>7, <1>9 DEF Given
    <3>2. CASE count <= SlotQuantity
      <4>1. (Given(a) \cup ToSet(adm[a].todo))' = OpenBids
        BY <1>6, <1>9, <3>1, <3>2
      <4>2. Cardinality((Given(a) \cup ToSet(adm[a].todo))') <= adm'[a].count
        <5>1. adm'[a].count = count
          BY <1>6, <1>9
        <5>2. Cardinality((Given(a) \cup ToSet(adm[a].todo))') = count
          BY <4>1
        <5>3. count <= count
          BY <1>1
        <5> QED
          BY <5>1, <5>2, <5>3
      <4> QED
        BY <1>6, <1>9, <3>2, <4>2 DEF Fits
    <3>3. CASE ~ (count <= SlotQuantity)
      BY <1>6, <1>9, <3>1, <3>3 DEF Fits
    <3> QED
      BY <3>2, <3>3
  <2> QED
    BY <2>1, <2>2, <2>3 DEF Allotments
<1>14. Settling'
  <2> SUFFICES ASSUME NEW b \in OpenBids PROVE InHands(b)'
    BY <1>8 DEF Settling
  <2> QED
    BY <1>6, <1>9 DEF InHands
<1> QED
  BY <1>3, <1>10, <1>11, <1>12, <1>13, <1>14 DEF IpoInv

LEMMA DrawBidsKeeps ==
  ASSUME IpoInv, NEW a \in Admins, DrawBids(a)
  PROVE  IpoInv' /\ UNCHANGED <<bids, purse, stale>>
<1>0. PICK S \in SUBSET OpenBids :
        /\ Cardinality(S) = IF Cardinality(OpenBids) < SlotQuantity
                            THEN Cardinality(OpenBids) ELSE SlotQuantity
        /\ \E drawn \in SetToSeqs(S) :
             adm' = [adm EXCEPT ![a].pc = "allot drawn", ![a].todo = drawn]
  BY DEF DrawBids
<1>1. PICK drawn \in SetToSeqs(S) :
        adm' = [adm EXCEPT ![a].pc = "allot drawn", ![a].todo = drawn]
  BY <1>0
<1>2. adm[a].pc = "draw" /\ UNCHANGED <<biddable, bids, purse, locks, listed, req, history>>
  BY DEF DrawBids
<1>3. Types /\ OpenBids \subseteq Ids /\ SlotQuantity \in Nat
  BY OfferAssumption DEF IpoInv, OpenBids
<1>4. drawn \in Seq(Nat) /\ ToSet(drawn) \subseteq S /\ S \subseteq Ids
  BY <1>3, IdsNumbers, DrawnSet
<1> DEFINE v == [adm[a] EXCEPT !.pc = "allot drawn", !.todo = drawn]
<1>5. adm[a] \in Allotment
  BY AdminParts
<1>6. /\ v \in Allotment /\ v.pc = "allot drawn" /\ v.todo = drawn /\ v.stock = adm[a].stock
      /\ adm' = [adm EXCEPT ![a] = v]
  BY <1>1, <1>3, <1>4, <1>5 DEF Allotment, Active, Types
<1> HIDE DEF v
<1>7. Cardinality(Given(a) \cup ToSet(v.todo)) <= SlotQuantity
  <2>1. Given(a) = {}
    BY <1>2 DEF IpoInv, Allotments, Fits
  <2>2. /\ Cardinality(OpenBids) \in Nat
        /\ IsFiniteSet(S) /\ Cardinality(S) \in Nat /\ Cardinality(S) <= SlotQuantity
    <3>1. /\ Cardinality(OpenBids) \in Nat
          /\ IsFiniteSet(S) /\ Cardinality(S) \in Nat
      BY <1>3, <1>4, IdsNumbers
    <3>2. Cardinality(S) <= SlotQuantity
      <4> DEFINE c == Cardinality(OpenBids)
                 d == Cardinality(S)
      <4>1. d = IF c < SlotQuantity THEN c ELSE SlotQuantity
        BY <1>0
      <4>2. c \in Nat /\ d \in Nat
        BY <3>1
      <4> HIDE DEF c, d
      <4>3. d <= SlotQuantity
        BY <1>3, <4>1, <4>2
      <4> QED
        BY <4>3 DEF d
    <3> QED
      BY <3>1, <3>2
  <2>3. IsFiniteSet(ToSet(drawn)) /\ Cardinality(ToSet(drawn)) <= Cardinality(S)
        /\ Cardinality(ToSet(drawn)) \in Nat
    BY <1>4, <2>2, FS_Subset, FS_CardinalityType
  <2>4. Given(a) \cup ToSet(v.todo) = ToSet(drawn)
    BY <1>6, <2>1
  <2> QED
    BY <1>3, <2>2, <2>3, <2>4
<1>8. Settling'
  <2>1. adm'[a] = v
    BY <1>3, <1>6 DEF Types
  <2> QED
    BY <1>6, <2>1 DEF Settling, InHands
<1>9. IpoInv'
  <2>1. ToSet(v.todo) \subseteq Ids
    BY <1>4, <1>6
  <2>2. biddable' \in BOOLEAN /\ cut' \in BOOLEAN /\ kept' \subseteq Users /\ pinned' \subseteq Users
    BY <1>2, <1>3 DEF Types
  <2>3. v.pc \in Active /\ adm[a].pc \in Active /\ v.pc \notin {"allot all", "draw"}
    BY <1>2, <1>6 DEF Active
  <2> QED
    BY <1>2, <1>6, <1>7, <1>8, <2>1, <2>2, <2>3, AdminKeeps
<1> QED
  BY <1>2, <1>9

LEMMA ReadUnfulfilledKeeps ==
  ASSUME IpoInv, NEW a \in Admins, ReadUnfulfilled(a)
  PROVE  IpoInv' /\ UNCHANGED <<bids, purse, stale>>
<1>1. /\ adm[a].pc = "allot drawn"
      /\ adm' = [adm EXCEPT ![a].pc = "refund", ![a].todo = InOrder(OpenBids)]
      /\ UNCHANGED <<biddable, bids, purse, locks, listed, req, history>>
  BY DEF ReadUnfulfilled
<1>2. Types /\ OpenBids \subseteq Ids
  BY DEF IpoInv, OpenBids
<1>3. InOrder(OpenBids) \in Seq(Nat) /\ ToSet(InOrder(OpenBids)) = OpenBids
  BY <1>2, IdsNumbers, InOrderHasAll
<1> DEFINE v == [adm[a] EXCEPT !.pc = "refund", !.todo = InOrder(OpenBids)]
<1>4. adm[a] \in Allotment
  BY AdminParts
<1>5. /\ v \in Allotment /\ v.pc = "refund" /\ v.todo = InOrder(OpenBids)
      /\ v.stock = adm[a].stock /\ adm' = [adm EXCEPT ![a] = v] /\ adm'[a] = v
  BY <1>1, <1>2, <1>3, <1>4 DEF Allotment, Active, Types
<1> HIDE DEF v
<1>6. Settling'
  <2> SUFFICES ASSUME NEW b \in OpenBids PROVE InHands(b)'
    BY <1>1 DEF Settling, OpenBids, Ids
  <2> QED
    BY <1>3, <1>5 DEF InHands
<1>7. IpoInv'
  <2>1. ToSet(v.todo) \subseteq Ids
    BY <1>2, <1>3, <1>5
  <2>2. biddable' \in BOOLEAN /\ cut' \in BOOLEAN /\ kept' \subseteq Users /\ pinned' \subseteq Users
    BY <1>1, <1>2 DEF Types
  <2>3. /\ v.pc \in Active /\ adm[a].pc \in Active
        /\ v.pc \notin {"allot all", "draw", "allot drawn"}
    BY <1>1, <1>5 DEF Active
  <2> QED
    BY <1>1, <1>5, <1>6, <2>1, <2>2, <2>3, AdminKeeps
<1> QED
  BY <1>1, <1>7

\* The stock gets a share for each slot that it can have allotted.
LEMMA SaveStockKeeps ==
  ASSUME IpoInv, NEW a \in Admins, SaveStock(a)
  PROVE  IpoInv' /\ UNCHANGED <<bids, purse, stale>>
<1> DEFINE i == adm[a].stock
           c == IF adm[a].pc = "allot all" THEN adm[a].count ELSE SlotQuantity
           x == [listed[i] EXCEPT !.shares = StocksPerSlot * c]
           v == Waiting
<1>1. Types /\ SlotQuantity \in Nat /\ StocksPerSlot \in Nat /\ adm[a].count \in Nat
  BY OfferAssumption, AdminParts DEF IpoInv
<1>2. /\ adm[a].pc \in {"allot all", "refund"} /\ adm[a].todo = <<>>
      /\ listed' = [listed EXCEPT ![i].shares = StocksPerSlot * c]
      /\ adm' = [adm EXCEPT ![a] = v]
      /\ UNCHANGED <<biddable, bids, purse, locks, req, history>>
  BY DEF SaveStock, Return
<1>3. i \in DOMAIN listed /\ Fits(a)
  BY <1>2 DEF IpoInv, Allotments, HasStock, Quiet
<1>4. /\ listed[i] \in Listing /\ Cardinality(listed[i].allotted) \in Nat
      /\ listed[i].allotted \subseteq Ids
  BY <1>3, ListingParts
<1>5. c \in Nat /\ StocksPerSlot * c \in Nat
  <2>1. c \in Nat
    BY <1>1
  <2> HIDE DEF c
  <2>2. c <= c
    BY <2>1
  <2> QED
    BY <1>1, <2>1, <2>2, TimesMonotonic
<1>6. Cardinality(listed[i].allotted) <= c
  <2>1. CASE adm[a].pc = "refund"
    BY <1>3, <2>1 DEF IpoInv, SlotsRespected
  <2>2. CASE adm[a].pc = "allot all"
    <3>1. listed[i].allotted \cup ToSet(adm[a].todo) = listed[i].allotted
      BY <1>2, EmptyTodo
    <3>2. Cardinality(Given(a) \cup ToSet(adm[a].todo)) <= c
      BY <1>3, <2>2 DEF Fits
    <3> QED
      BY <3>1, <3>2 DEF Given
  <2> QED
    BY <1>2, <2>1, <2>2
<1> HIDE DEF c
<1>7. /\ x \in Listing /\ x.shares = StocksPerSlot * c /\ x.allotted = listed[i].allotted
      /\ listed' = [listed EXCEPT ![i] = x]
  BY <1>1, <1>2, <1>3, <1>4, <1>5 DEF Listing, Types
<1>8. /\ v \in Allotment /\ v.pc \in Quiet /\ v.todo = <<>> /\ v.stock = 0
      /\ ToSet(v.todo) = {} /\ v.pc \notin {"draw", "allot all", "allot drawn"}
  BY WaitingParts DEF Quiet
<1> HIDE DEF i, x, v
<1>9. /\ listed' \in Seq(Listing) /\ DOMAIN listed' = DOMAIN listed
      /\ listed'[i] = x /\ \A k \in DOMAIN listed \ {i} : listed'[k] = listed[k]
  BY <1>3, <1>7, ListingChanges
<1>10. Ids' = Ids /\ OpenBids' = OpenBids
  BY <1>2 DEF Ids, OpenBids
<1>11. /\ adm' \in [Admins -> Allotment] /\ adm'[a] = v
       /\ \A o \in Admins \ {a} : adm'[o] = adm[o]
       /\ \A o \in Admins : ToSet(adm'[o].todo) \subseteq Ids'
  <2>1. ToSet(v.todo) \subseteq Ids'
    BY <1>8
  <2> QED
    BY <1>2, <1>8, <1>10, <2>1, AdminGoes
<1>12. Types' /\ Balanced'
  BY <1>1, <1>2, <1>9, <1>10, <1>11 DEF IpoInv, Types, Balanced
<1>13. Numbers'
  BY <1>2, <1>4, <1>7, <1>9, <1>10, <1>11 DEF IpoInv, Numbers
<1>14. SlotsRespected'
  <2>1. StocksPerSlot * c >= StocksPerSlot * Cardinality(listed[i].allotted)
    BY <1>1, <1>4, <1>5, <1>6, TimesMonotonic
  <2>2. Cardinality(x.allotted) <= SlotQuantity /\ x.shares >= StocksPerSlot * Cardinality(x.allotted)
    BY <1>3, <1>7, <2>1 DEF IpoInv, SlotsRespected
  <2> QED
    BY <1>9, <2>2 DEF IpoInv, SlotsRespected
<1>15. Allotments'
  <2>1. 0 \notin DOMAIN listed
    BY <1>1 DEF Types
  <2>2. Apart' /\ \A o \in Admins \ {a} : HasStock(o)' /\ Fits(o)'
    BY <1>2, <1>8, <1>9, <2>1, OthersKeep DEF i
  <2>3. HasStock(a)' /\ Fits(a)'
    BY <1>8, <1>11 DEF HasStock, Fits
  <2> QED
    BY <2>2, <2>3 DEF Allotments
<1>16. Settling'
  <2> SUFFICES ASSUME ~ biddable, ~ cut, NEW b \in OpenBids \ late PROVE InHands(b)'
    BY <1>2, <1>10 DEF Settling
  <2>1. PICK o \in Admins : \/ adm[o].pc \in {"list", "draw", "allot drawn"}
                            \/ adm[o].pc \in {"allot all", "refund"} /\ b \in ToSet(adm[o].todo)
    BY DEF IpoInv, Settling, InHands
  <2>2. o # a
    BY <1>2, <2>1, EmptyTodo
  <2> QED
    BY <1>11, <2>1, <2>2 DEF InHands
<1> QED
  BY <1>2, <1>12, <1>13, <1>14, <1>15, <1>16 DEF IpoInv

\* Each slot is allotted or refunded in a step of its own.
LEMMA AllotSlotKeeps ==
  ASSUME IpoInv, NEW a \in Admins, AllotSlot(a)
  PROVE  IpoInv'
<1> DEFINE i == adm[a].stock
           b == Next1(a)
           u == Bidder(a)
           x == [listed[i] EXCEPT !.allotted = @ \cup {b}]
           v == [adm[a] EXCEPT !.todo = Tail(@)]
<1>1. Types /\ Balanced /\ SlotPrice \in Nat /\ 0 \in Nat /\ SlotQuantity \in Nat
  BY OfferAssumption DEF IpoInv
<1>2. /\ adm[a].pc \in {"allot all", "allot drawn"} /\ adm[a].todo # <<>>
      /\ Write(b, "fulfilled") /\ Move(u, SlotPrice, 0)
      /\ listed' = [listed EXCEPT ![i].allotted = @ \cup {b}]
      /\ adm' = [adm EXCEPT ![a].todo = Tail(@)]
      /\ UNCHANGED <<biddable, locks, req, late, cut>>
  BY DEF AllotSlot, Allotting, Done1
<1>3. /\ adm[a].todo \in Seq(Nat) /\ ToSet(adm[a].todo) \subseteq Ids /\ adm[a] \in Allotment
      /\ b \in ToSet(adm[a].todo) /\ Tail(adm[a].todo) \in Seq(Nat)
      /\ ToSet(adm[a].todo) = {b} \cup ToSet(Tail(adm[a].todo))
  BY <1>2, AdminParts, TodoParts DEF Next1
<1>4. b \in Ids /\ u \in Users
  BY <1>1, <1>3, BidParts DEF Bidder
<1>5. i \in DOMAIN listed /\ listed[i].shares = 0 /\ Fits(a)
  BY <1>2 DEF IpoInv, Allotments, HasStock, Quiet
<1>6. listed[i] \in Listing /\ listed[i].allotted \subseteq Ids /\ Ids \subseteq Nat
  BY <1>1, <1>5, ListingParts, IdsNumbers
<1>7. /\ x \in Listing /\ x.shares = 0 /\ x.allotted = listed[i].allotted \cup {b}
      /\ listed' = [listed EXCEPT ![i] = x]
  BY <1>1, <1>2, <1>4, <1>5, <1>6 DEF Listing, Types
<1>8. /\ v \in Allotment /\ v.pc = adm[a].pc /\ v.todo = Tail(adm[a].todo)
      /\ v.stock = i /\ v.count = adm[a].count /\ adm' = [adm EXCEPT ![a] = v]
  BY <1>1, <1>2, <1>3 DEF Allotment, Types
<1> HIDE DEF i, b, u, x, v
<1>9. /\ listed' \in Seq(Listing) /\ DOMAIN listed' = DOMAIN listed
      /\ listed'[i] = x /\ \A k \in DOMAIN listed \ {i} : listed'[k] = listed[k]
  BY <1>5, <1>7, ListingChanges
<1>10. /\ bids' \in Seq(Bid) /\ Len(bids') = Len(bids) /\ Ids' = Ids
       /\ bids'[b].user = bids[b].user /\ \A c \in Ids \ {b} : bids'[c] = bids[c]
       /\ OpenBids' = OpenBids \ {b} /\ stale' \subseteq Ids
  BY <1>1, <1>2, <1>4, WriteFacts
<1>11. /\ cash' \in [Users -> Unsigneds] /\ reserved' \in [Users -> Unsigneds]
       /\ spent' \in [Users -> Unsigneds] /\ Balanced'
  BY <1>1, <1>2, <1>4, MoveFacts
<1>12. /\ adm' \in [Admins -> Allotment] /\ adm'[a] = v
       /\ \A o \in Admins \ {a} : adm'[o] = adm[o]
       /\ \A o \in Admins : ToSet(adm'[o].todo) \subseteq Ids'
  <2>1. ToSet(v.todo) \subseteq Ids'
    BY <1>3, <1>8, <1>10
  <2> QED
    BY <1>8, <1>10, <2>1, AdminGoes
<1>13. Types'
  BY <1>1, <1>2, <1>9, <1>10, <1>11, <1>12 DEF Types
<1>14. Numbers'
  <2>1. \A r \in Requests : req[r].pc \in {"offer", "cancel"} =>
          req[r].bid \in Ids /\ bids'[req[r].bid].user = req[r].user
    BY <1>10 DEF IpoInv, Numbers
  <2>2. \A k \in DOMAIN listed' : listed'[k].allotted \subseteq Ids
    BY <1>4, <1>7, <1>9 DEF IpoInv, Numbers
  <2> QED
    BY <1>2, <1>10, <1>12, <2>1, <2>2 DEF Numbers
<1>15. Given(a)' = listed[i].allotted \cup {b}
  BY <1>7, <1>8, <1>9, <1>12 DEF Given
<1>16. (Given(a) \cup ToSet(adm[a].todo))' = Given(a) \cup ToSet(adm[a].todo)
  BY <1>3, <1>8, <1>12, <1>15 DEF Given, i
<1>17. Fits(a)'
  <2>1. Cardinality((Given(a) \cup ToSet(adm[a].todo))')
          = Cardinality(Given(a) \cup ToSet(adm[a].todo))
    BY <1>16
  <2>2. adm'[a].pc = adm[a].pc /\ adm'[a].count = adm[a].count
    BY <1>8, <1>12
  <2> QED
    BY <1>2, <1>5, <2>1, <2>2 DEF Fits
<1>18. Allotments'
  <2>1. Apart' /\ \A o \in Admins \ {a} : HasStock(o)' /\ Fits(o)'
    BY <1>8, <1>9, OthersKeep DEF i
  <2>2. HasStock(a)'
    BY <1>2, <1>5, <1>7, <1>8, <1>9, <1>12 DEF HasStock, Quiet
  <2> QED
    BY <1>17, <2>1, <2>2 DEF Allotments
<1>19. Cardinality(x.allotted) <= SlotQuantity
  <2>1. x.allotted \subseteq (Given(a) \cup ToSet(adm[a].todo))
    BY <1>3, <1>7 DEF Given, i
  <2>2. Given(a) \cup ToSet(adm[a].todo) \subseteq Ids
    BY <1>3, <1>6 DEF Given, i
  <2>3. Cardinality(Given(a) \cup ToSet(adm[a].todo)) <= SlotQuantity
    <3>1. CASE adm[a].pc = "allot drawn"
      BY <1>5, <3>1 DEF Fits
    <3>2. CASE adm[a].pc = "allot all"
      <4>1. adm[a].count \in Nat /\ Cardinality(Given(a) \cup ToSet(adm[a].todo)) \in Nat
        BY <1>1, <2>2, AdminParts, IdsNumbers
      <4>2. /\ Cardinality(Given(a) \cup ToSet(adm[a].todo)) <= adm[a].count
            /\ adm[a].count <= SlotQuantity
        BY <1>5, <3>2 DEF Fits
      <4> DEFINE m == Cardinality(Given(a) \cup ToSet(adm[a].todo))
                 n == adm[a].count
      <4>3. m \in Nat /\ n \in Nat /\ m <= n /\ n <= SlotQuantity
        BY <4>1, <4>2
      <4> HIDE DEF m, n
      <4>4. m <= SlotQuantity
        BY <1>1, <4>3
      <4> QED
        BY <4>4 DEF m
    <3> QED
      BY <1>2, <3>1, <3>2
  <2> DEFINE whole == Given(a) \cup ToSet(adm[a].todo)
  <2>4. IsFiniteSet(whole) /\ Cardinality(whole) \in Nat /\ Cardinality(whole) <= SlotQuantity
        /\ x.allotted \subseteq whole
    BY <1>1, <2>1, <2>2, <2>3, IdsNumbers
  <2> HIDE DEF whole
  <2>5. IsFiniteSet(x.allotted) /\ Cardinality(x.allotted) <= Cardinality(whole)
    BY <2>4, FS_Subset
  <2>6. Cardinality(x.allotted) \in Nat
    BY <2>5, FS_CardinalityType
  <2> QED
    BY <1>1, <2>4, <2>5, <2>6
<1>20. SlotsRespected'
  BY <1>7, <1>9, <1>19 DEF IpoInv, SlotsRespected
<1>21. Settling'
  <2> SUFFICES ASSUME ~ biddable, ~ cut, NEW c \in OpenBids \ late, c # b PROVE InHands(c)'
    BY <1>2, <1>10 DEF Settling
  <2>1. PICK o \in Admins : \/ adm[o].pc \in {"list", "draw", "allot drawn"}
                            \/ adm[o].pc \in {"allot all", "refund"} /\ c \in ToSet(adm[o].todo)
    BY DEF IpoInv, Settling, InHands
  <2>2. CASE o # a
    BY <1>12, <2>1, <2>2 DEF InHands
  <2>3. CASE o = a
    BY <1>3, <1>8, <1>12, <2>1, <2>3 DEF InHands
  <2> QED
    BY <2>2, <2>3
<1> QED
  BY <1>11, <1>13, <1>14, <1>18, <1>20, <1>21 DEF IpoInv

LEMMA RefundSlotKeeps ==
  ASSUME IpoInv, NEW a \in Admins, RefundSlot(a)
  PROVE  IpoInv'
<1> DEFINE b == Next1(a)
           u == Bidder(a)
           v == [adm[a] EXCEPT !.todo = Tail(@)]
<1>1. Types /\ Balanced /\ SlotPrice \in Nat
  BY OfferAssumption DEF IpoInv
<1>2. /\ adm[a].pc = "refund" /\ adm[a].todo # <<>>
      /\ Write(b, "closed") /\ Move(u, SlotPrice, SlotPrice)
      /\ adm' = [adm EXCEPT ![a].todo = Tail(@)]
      /\ UNCHANGED <<biddable, locks, listed, req, late, cut>>
  BY DEF RefundSlot, Done1
<1>3. /\ adm[a].todo \in Seq(Nat) /\ ToSet(adm[a].todo) \subseteq Ids /\ adm[a] \in Allotment
      /\ b \in ToSet(adm[a].todo) /\ Tail(adm[a].todo) \in Seq(Nat)
      /\ ToSet(adm[a].todo) = {b} \cup ToSet(Tail(adm[a].todo))
  BY <1>2, AdminParts, TodoParts DEF Next1
<1>4. b \in Ids /\ u \in Users
  BY <1>1, <1>3, BidParts DEF Bidder
<1>5. /\ v \in Allotment /\ v.pc = "refund" /\ v.todo = Tail(adm[a].todo)
      /\ v.stock = adm[a].stock /\ adm' = [adm EXCEPT ![a] = v]
  BY <1>1, <1>2, <1>3 DEF Allotment, Types
<1> HIDE DEF b, u, v
<1>6. /\ bids' \in Seq(Bid) /\ Len(bids') = Len(bids) /\ Ids' = Ids
      /\ bids'[b].user = bids[b].user /\ \A c \in Ids \ {b} : bids'[c] = bids[c]
      /\ OpenBids' = OpenBids \ {b} /\ stale' \subseteq Ids
  BY <1>1, <1>2, <1>4, WriteFacts
<1>7. /\ cash' \in [Users -> Unsigneds] /\ reserved' \in [Users -> Unsigneds]
      /\ spent' \in [Users -> Unsigneds] /\ Balanced'
  BY <1>1, <1>2, <1>4, MoveFacts
<1>8. /\ adm' \in [Admins -> Allotment] /\ adm'[a] = v
      /\ \A o \in Admins \ {a} : adm'[o] = adm[o]
      /\ \A o \in Admins : ToSet(adm'[o].todo) \subseteq Ids'
  <2>1. ToSet(v.todo) \subseteq Ids'
    BY <1>3, <1>5, <1>6
  <2> QED
    BY <1>5, <1>6, <2>1, AdminGoes
<1>9. Types'
  BY <1>1, <1>2, <1>6, <1>7, <1>8 DEF Types
<1>10. Numbers'
  <2>1. \A r \in Requests : req[r].pc \in {"offer", "cancel"} =>
          req[r].bid \in Ids /\ bids'[req[r].bid].user = req[r].user
    BY <1>6 DEF IpoInv, Numbers
  <2> QED
    BY <1>2, <1>6, <1>8, <2>1 DEF IpoInv, Numbers
<1>11. Allotments' /\ SlotsRespected'
  <2>1. Apart' /\ \A o \in Admins \ {a} : HasStock(o)' /\ Fits(o)'
    BY <1>2, <1>5, OthersKeep
  <2>2. HasStock(a)' /\ Fits(a)'
    BY <1>2, <1>5, <1>8 DEF IpoInv, Allotments, HasStock, Fits, Quiet
  <2>3. SlotsRespected'
    BY <1>2 DEF IpoInv, SlotsRespected
  <2> QED
    BY <2>1, <2>2, <2>3 DEF Allotments
<1>12. Settling'
  <2> SUFFICES ASSUME ~ biddable, ~ cut, NEW c \in OpenBids \ late, c # b PROVE InHands(c)'
    BY <1>2, <1>6 DEF Settling
  <2>1. PICK o \in Admins : \/ adm[o].pc \in {"list", "draw", "allot drawn"}
                            \/ adm[o].pc \in {"allot all", "refund"} /\ c \in ToSet(adm[o].todo)
    BY DEF IpoInv, Settling, InHands
  <2>2. CASE o # a
    BY <1>8, <2>1, <2>2 DEF InHands
  <2>3. CASE o = a
    BY <1>2, <1>3, <1>5, <1>8, <2>1, <2>3 DEF InHands
  <2> QED
    BY <2>2, <2>3
<1> QED
  BY <1>7, <1>9, <1>10, <1>11, <1>12 DEF IpoInv

------------------------------------------------------------------------------
(* The theorems *)

LEMMA IpoInvInit == Init => IpoInv
<1> SUFFICES ASSUME Init PROVE IpoInv
  OBVIOUS
<1>1. bids = <<>> /\ listed = <<>> /\ Ids = {} /\ DOMAIN listed = {} /\ OpenBids = {}
  BY DEF Init, Ids, OpenBids
<1>2. Types
  <2>1. StartCash \in Unsigneds /\ 0 \in Unsigneds
    BY WordAssumption DEF Unsigneds
  <2>2. bids \in Seq(Bid) /\ Len(bids) <= MaxBids /\ listed \in Seq(Listing)
    BY <1>1, EmptySeq, BoundsAssumption
  <2> QED
    BY <1>1, <2>1, <2>2, WaitingParts DEF Init, Types
<1>3. Numbers
  BY <1>1, WaitingParts, IdleRequest DEF Init, Numbers
<1>4. Balanced
  <2>1. StartCash \in 0 .. Word - 1 /\ Word \in Nat \ {0} /\ StartCash \in Int
        /\ StartCash = Word * 0 + StartCash
    BY WordAssumption
  <2>2. StartCash % Word = StartCash
    BY <2>1, ModUnique
  <2>3. StartCash + 0 + 0 = StartCash
    BY <2>1
  <2> QED
    BY <2>2, <2>3 DEF Init, Balanced
<1>5. Allotments
  BY WaitingParts DEF Init, Allotments, Apart, HasStock, Fits, Quiet
<1>6. SlotsRespected /\ Settling
  BY <1>1 DEF SlotsRespected, Settling
<1> QED
  BY <1>2, <1>3, <1>4, <1>5, <1>6 DEF IpoInv

LEMMA IpoInvStep == IpoInv /\ [Next]_vars => IpoInv'
<1> SUFFICES ASSUME IpoInv, [Next]_vars PROVE IpoInv'
  OBVIOUS
<1>1. CASE UNCHANGED vars
  <2>1. Types' /\ Numbers' /\ Balanced' /\ Settling'
    BY <1>1 DEF vars, IpoInv, Types, Numbers, Balanced, Settling, InHands, OpenBids, Ids
  <2> QED
    BY <1>1, <2>1, AllotmentsFrame DEF vars, IpoInv
<1>2. ASSUME NEW r \in Requests,
             (\E u \in Users : StartCreate(r, u)) \/ (\E b \in Ids : StartCancel(r, b)) \/ Serve(r)
      PROVE  IpoInv'
  BY <1>2, RequestStepsKeep, SaveNewIpoBidKeeps, SaveCancelledIpoBidKeeps DEF Serve
<1>3. ASSUME NEW a \in Admins, AllowIpoBidding(a) \/ StartAllot(a) \/ AllotSlots(a)
      PROVE  IpoInv'
  BY <1>3, BiddingStepsKeep, ListStockKeeps, DrawBidsKeeps, AllotSlotKeeps, ReadUnfulfilledKeeps,
     RefundSlotKeeps, SaveStockKeeps, AllotFailsKeeps DEF AllotSlots
<1> QED
  BY <1>1, <1>2, <1>3, CrashKeeps DEF Next

THEOREM IpoInvariant == Spec => []IpoInv
BY IpoInvInit, IpoInvStep, PTL DEF Spec

\* No offering hands out more slots than it has, and a stock listed to the end has shares
\* for all that were allotted: however many administrators close the bidding at once and
\* whatever errors and crashes come between.
THEOREM SlotsAreRespected == Spec => []SlotsRespected
BY IpoInvariant, PTL DEF IpoInv

\* When an allotment is over, every bid that came in time is settled, unless an error or a
\* crash cut an allotment short.
THEOREM BidsAreSettled == Spec => []AllSettled
<1>1. IpoInv => AllSettled
  <2> SUFFICES ASSUME Settling, ~ biddable, ~ cut,
                      \A a \in Admins : adm[a].pc \in {"idle", "close"}
               PROVE  OpenBids \subseteq late
    BY DEF AllSettled, IpoInv
  <2> QED
    BY DEF Settling, InHands
<1> QED
  BY <1>1, IpoInvariant, PTL

------------------------------------------------------------------------------
(* The money of the bids *)

\* What a number of bids costs is not taken modulo Word.
LEMMA CostFits ==
  ASSUME IpoInv, BidsFit, NEW S, S \subseteq 1 .. MaxBids
  PROVE  /\ IsFiniteSet(S) /\ Cardinality(S) \in Nat
         /\ SlotPrice * Cardinality(S) \in 0 .. Word - 1
<1>1. SlotPrice \in Nat /\ MaxBids \in Nat /\ Word \in Nat
  BY OfferAssumption, BoundsAssumption, WordAssumption
<1>2. IsFiniteSet(1 .. MaxBids) /\ Cardinality(1 .. MaxBids) = MaxBids
  BY <1>1, FS_Interval
<1>3. IsFiniteSet(S) /\ Cardinality(S) <= MaxBids
  BY <1>2, FS_Subset
<1>4. Cardinality(S) \in Nat
  BY <1>3, FS_CardinalityType
<1>5. SlotPrice * Cardinality(S) \in Nat /\ SlotPrice * MaxBids \in Nat
      /\ SlotPrice * MaxBids >= SlotPrice * Cardinality(S)
  BY <1>1, <1>3, <1>4, TimesMonotonic
<1> QED
  BY <1>1, <1>3, <1>4, <1>5 DEF BidsFit

LEMMA OneMore ==
  ASSUME NEW k \in Nat, NEW n \in Nat
  PROVE  k * (n + 1) = k * n + k
OBVIOUS

LEMMA FitsWord ==
  ASSUME NEW x \in 0 .. Word - 1
  PROVE  x % Word = x
<1>1. Word \in Nat \ {0} /\ x \in Int /\ x = Word * 0 + x
  BY WordAssumption
<1> QED
  BY <1>1, ModUnique

\* A new bid is paid for from the cash.
LEMMA NewBidPaid ==
  ASSUME IpoInv, IpoInv', BidsFit, BidsPaid, NEW r \in Requests, SaveNewIpoBid(r)
  PROVE  BidsPaid'
<1> DEFINE u == req[r].user
           v == [user |-> u, status |-> "open"]
           n == Len(bids) + 1
<1>1. Types /\ Types' /\ u \in Users /\ SlotPrice \in Nat
  BY RequestParts, IdleRequest, OfferAssumption DEF IpoInv, SaveNewIpoBid
<1>2. v \in Bid /\ v.user = u /\ v.status = "open"
  BY <1>1 DEF Bid
<1>3. /\ bids' = Append(bids, v)
      /\ reserved' = [reserved EXCEPT ![u] = (@ + SlotPrice) % Word]
      /\ UNCHANGED <<spent, stale>>
  BY DEF SaveNewIpoBid
<1> HIDE DEF u, v
<1>4. /\ bids'[n] = v /\ \A b \in Ids : bids'[b] = bids[b]
      /\ Ids' = Ids \cup {n} /\ n \notin Ids
  <2>1. bids \in Seq(Bid) /\ Ids = 1 .. Len(bids) /\ Len(bids) \in Nat
    BY <1>1, IdsNumbers DEF Types
  <2>2. /\ bids' \in Seq(Bid) /\ Len(bids') = n /\ bids'[n] = v
        /\ \A b \in 1 .. Len(bids) : bids'[b] = bids[b]
    BY <1>2, <1>3, <2>1, AppendProperties
  <2> QED
    BY <2>1, <2>2 DEF Ids
<1> HIDE DEF n
<1>5. Ids' \subseteq 1 .. MaxBids
  <2>1. Ids' = 1 .. Len(bids') /\ Len(bids') \in Nat /\ Len(bids') <= MaxBids /\ MaxBids \in Nat
    BY <1>1, BoundsAssumption DEF Types, Ids
  <2> QED
    BY <2>1
<1> SUFFICES ASSUME NEW w \in Users, Clean(w)'
             PROVE  (/\ reserved[w] = SlotPrice * Cardinality(OpenOf(w))
                     /\ spent[w] = SlotPrice * Cardinality(FulfilledOf(w)))'
  BY DEF BidsPaid
<1>6. Clean(w)
  BY <1>1, <1>3, <1>4 DEF Clean, Types
<1>7. /\ reserved[w] = SlotPrice * Cardinality(OpenOf(w))
      /\ spent[w] = SlotPrice * Cardinality(FulfilledOf(w))
  BY <1>6 DEF BidsPaid
<1>8. FulfilledOf(w)' = FulfilledOf(w)
  BY <1>2, <1>4 DEF FulfilledOf
<1>9. CASE w # u
  <2>1. OpenOf(w)' = OpenOf(w)
    BY <1>2, <1>4, <1>9 DEF OpenOf, OpenBids
  <2>2. reserved'[w] = reserved[w]
    BY <1>1, <1>3, <1>9 DEF Types
  <2> QED
    BY <1>3, <1>7, <1>8, <2>1, <2>2
<1>10. CASE w = u
  <2> DEFINE S == OpenOf(u)
             T == S \cup {n}
  <2>1. OpenOf(w)' = T /\ S \subseteq Ids /\ n \notin S
    BY <1>2, <1>4, <1>10 DEF OpenOf, OpenBids
  <2>2. S \subseteq 1 .. MaxBids /\ T \subseteq 1 .. MaxBids
    BY <1>4, <1>5, <2>1
  <2>3. reserved'[u] = (SlotPrice * Cardinality(S) + SlotPrice) % Word
    BY <1>1, <1>3, <1>7, <1>10 DEF Types
  <2> HIDE DEF S
  <2>4. /\ IsFiniteSet(S) /\ Cardinality(S) \in Nat
        /\ SlotPrice * Cardinality(T) \in 0 .. Word - 1
    BY <2>2, CostFits
  <2>5. Cardinality(T) = Cardinality(S) + 1
    BY <2>1, <2>4, FS_AddElement
  <2>6. SlotPrice * Cardinality(T) = SlotPrice * Cardinality(S) + SlotPrice
    BY <1>1, <2>4, <2>5, OneMore
  <2> HIDE DEF T
  <2>7. reserved'[u] = SlotPrice * Cardinality(T)
    BY <2>3, <2>4, <2>6, FitsWord
  <2> QED
    BY <1>3, <1>7, <1>8, <1>10, <2>1, <2>7
<1> QED
  BY <1>9, <1>10

\* A bid that is settled leaves the reserve; its money goes back or for the slot.
LEMMA SettledBidPaid ==
  ASSUME IpoInv, BidsFit, BidsPaid, NEW b \in Ids, NEW status \in {"closed", "fulfilled"},
         Write(b, status), NEW e \in {0, SlotPrice}, status = "fulfilled" <=> e = 0,
         Move(bids[b].user, SlotPrice, e)
  PROVE  BidsPaid'
<1> DEFINE u == bids[b].user
<1>1. /\ Types /\ Balanced /\ u \in Users /\ SlotPrice \in Nat \ {0}
      /\ bids[b].status \in {"open", "closed", "fulfilled"}
  BY BidParts, OfferAssumption DEF IpoInv
<1>2. /\ Ids' = Ids
      /\ bids'[b].user = u /\ bids'[b].status = status
      /\ \A c \in Ids \ {b} : bids'[c] = bids[c]
      /\ stale \subseteq stale' /\ (b \notin OpenBids => b \in stale')
  BY <1>1, WriteFacts
<1>3. /\ reserved'[u] = (reserved[u] - SlotPrice) % Word
      /\ spent'[u] = (spent[u] + SlotPrice - e) % Word
      /\ \A w \in Users \ {u} : reserved'[w] = reserved[w] /\ spent'[w] = spent[w]
  BY <1>1, MoveFacts
<1> HIDE DEF u
<1>4. Ids \subseteq 1 .. MaxBids
  <2>1. Ids = 1 .. Len(bids) /\ Len(bids) \in Nat /\ Len(bids) <= MaxBids /\ MaxBids \in Nat
    BY <1>1, BoundsAssumption DEF Types, Ids
  <2> QED
    BY <2>1
<1> SUFFICES ASSUME NEW w \in Users, Clean(w)'
             PROVE  (/\ reserved[w] = SlotPrice * Cardinality(OpenOf(w))
                     /\ spent[w] = SlotPrice * Cardinality(FulfilledOf(w)))'
  BY DEF BidsPaid
<1>5. Clean(w)
  <2>1. \A c \in Ids : bids'[c].user = bids[c].user
    BY <1>2 DEF u
  <2> QED
    BY <1>1, <1>2, <2>1 DEF Clean, Types
<1>6. /\ reserved[w] = SlotPrice * Cardinality(OpenOf(w))
      /\ spent[w] = SlotPrice * Cardinality(FulfilledOf(w))
  BY <1>5 DEF BidsPaid
<1>7. CASE w # u
  <2>1. OpenOf(w)' = OpenOf(w)
    BY <1>2, <1>7 DEF OpenOf, OpenBids, u
  <2>2. FulfilledOf(w)' = FulfilledOf(w)
    BY <1>2, <1>7 DEF FulfilledOf, u
  <2> QED
    BY <1>3, <1>6, <1>7, <2>1, <2>2
<1>8. CASE w = u
  <2>1. b \in OpenBids
    BY <1>2, <1>8 DEF Clean, u
  <2> DEFINE S == OpenOf(u)
             T == S \ {b}
             F == FulfilledOf(u)
             G == F \cup {b}
  <2>2. b \in S /\ bids[b].status = "open" /\ S \subseteq Ids /\ F \subseteq Ids /\ b \notin F
    BY <1>1, <2>1 DEF OpenOf, OpenBids, FulfilledOf, u
  <2>3. OpenOf(w)' = T
    BY <1>2, <1>8, <2>1 DEF OpenOf, OpenBids, u
  <2>4. FulfilledOf(w)' = IF status = "fulfilled" THEN G ELSE F
    <3>1. FulfilledOf(w)' = {c \in Ids : bids'[c].user = u /\ bids'[c].status = "fulfilled"}
      BY <1>2, <1>8 DEF FulfilledOf
    <3>2. CASE status = "fulfilled"
      BY <1>2, <3>1, <3>2 DEF FulfilledOf
    <3>3. CASE status # "fulfilled"
      BY <1>2, <2>2, <3>1, <3>3 DEF FulfilledOf
    <3> QED
      BY <3>2, <3>3
  <2>5. T \subseteq 1 .. MaxBids /\ S \subseteq 1 .. MaxBids
        /\ F \subseteq 1 .. MaxBids /\ G \subseteq 1 .. MaxBids
    BY <1>4, <2>2
  <2>6. reserved[u] = SlotPrice * Cardinality(S) /\ spent[u] = SlotPrice * Cardinality(F)
    BY <1>6, <1>8
  <2> HIDE DEF S, F
  <2>7. /\ IsFiniteSet(T) /\ Cardinality(T) \in Nat /\ SlotPrice * Cardinality(T) \in 0 .. Word - 1
        /\ IsFiniteSet(F) /\ Cardinality(F) \in Nat /\ SlotPrice * Cardinality(F) \in 0 .. Word - 1
        /\ SlotPrice * Cardinality(G) \in 0 .. Word - 1
        /\ IsFiniteSet(S) /\ Cardinality(S) \in Nat /\ SlotPrice * Cardinality(S) \in 0 .. Word - 1
    BY <2>5, CostFits
  <2>8. Cardinality(S) = Cardinality(T) + 1
    BY <2>2, <2>7, FS_RemoveElement
  <2>9. Cardinality(G) = Cardinality(F) + 1
    BY <2>2, <2>7, FS_AddElement
  <2>10. /\ SlotPrice * Cardinality(S) = SlotPrice * Cardinality(T) + SlotPrice
         /\ SlotPrice * Cardinality(G) = SlotPrice * Cardinality(F) + SlotPrice
    BY <1>1, <2>7, <2>8, <2>9, OneMore
  <2> HIDE DEF T, G
  <2>11. reserved'[u] = SlotPrice * Cardinality(T)
    <3> DEFINE x == SlotPrice * Cardinality(T)
               y == SlotPrice * Cardinality(S)
    <3>1. x \in 0 .. Word - 1 /\ y = x + SlotPrice /\ reserved[u] = y
      BY <2>6, <2>7, <2>10
    <3> HIDE DEF x, y
    <3>2. reserved[u] - SlotPrice = x
      BY <1>1, <3>1
    <3>3. x % Word = x
      BY <3>1, FitsWord
    <3> QED
      BY <1>3, <3>2, <3>3 DEF x
  <2>12. spent'[u] = SlotPrice * Cardinality(FulfilledOf(w)')
    <3> DEFINE x == SlotPrice * Cardinality(F)
               y == SlotPrice * Cardinality(G)
    <3>1. x \in 0 .. Word - 1 /\ y \in 0 .. Word - 1 /\ y = x + SlotPrice /\ spent[u] = x
      BY <2>6, <2>7, <2>10
    <3> HIDE DEF x, y
    <3>2. CASE e = 0
      <4>1. spent[u] + SlotPrice - e = y
        BY <1>1, <3>1, <3>2
      <4>2. y % Word = y
        BY <3>1, FitsWord
      <4>3. Cardinality(FulfilledOf(w)') = Cardinality(G)
        BY <2>4, <3>2
      <4> QED
        BY <1>3, <4>1, <4>2, <4>3 DEF y
    <3>3. CASE e = SlotPrice
      <4>1. spent[u] + SlotPrice - e = x
        BY <1>1, <3>1, <3>3
      <4>2. x % Word = x
        BY <3>1, FitsWord
      <4>3. Cardinality(FulfilledOf(w)') = Cardinality(F)
        BY <1>1, <2>4, <3>3
      <4> QED
        BY <1>3, <4>1, <4>2, <4>3 DEF x
    <3> QED
      BY <3>2, <3>3
  <2> QED
    BY <1>8, <2>3, <2>11, <2>12
<1> QED
  BY <1>7, <1>8

LEMMA BidsPaidStep ==
  ASSUME IpoInv, IpoInv', BidsFit, BidsPaid, [Next]_vars
  PROVE  BidsPaid'
<1>1. CASE UNCHANGED <<bids, purse, stale>>
  <2>1. \A u \in Users : /\ OpenOf(u)' = OpenOf(u) /\ FulfilledOf(u)' = FulfilledOf(u)
                         /\ Clean(u)' <=> Clean(u)
    BY <1>1 DEF OpenOf, OpenBids, FulfilledOf, Clean, Ids
  <2> QED
    BY <1>1, <2>1 DEF BidsPaid
<1>2. ASSUME NEW r \in Requests, SaveCancelledIpoBid(r) PROVE BidsPaid'
  <2>1. /\ req[r].bid \in Ids /\ bids[req[r].bid].user = req[r].user
        /\ Write(req[r].bid, "closed") /\ Move(req[r].user, SlotPrice, SlotPrice)
    BY <1>2 DEF SaveCancelledIpoBid, IpoInv, Numbers
  <2>2. SlotPrice # 0
    BY OfferAssumption
  <2> QED
    BY <2>1, <2>2, SettledBidPaid
<1>3. ASSUME NEW a \in Admins, AllotSlot(a) \/ RefundSlot(a) PROVE BidsPaid'
  <2>1. adm[a].todo # <<>>
    BY <1>3 DEF AllotSlot, RefundSlot, Allotting
  <2>2. Next1(a) \in Ids /\ Bidder(a) = bids[Next1(a)].user
    BY <2>1, AdminParts, TodoParts DEF Next1, Bidder
  <2>3. SlotPrice # 0
    BY OfferAssumption
  <2>4. CASE AllotSlot(a)
    BY <2>2, <2>4, SettledBidPaid DEF AllotSlot
  <2>5. CASE RefundSlot(a)
    BY <2>2, <2>3, <2>5, SettledBidPaid DEF RefundSlot
  <2> QED
    BY <1>3, <2>4, <2>5
<1>4. ASSUME NEW a \in Admins, AllowIpoBidding(a) \/ StartAllot(a) \/ AllotSlots(a)
      PROVE  BidsPaid'
  BY <1>1, <1>3, <1>4, BiddingStepsKeep, ListStockKeeps, DrawBidsKeeps, ReadUnfulfilledKeeps,
     SaveStockKeeps, AllotFailsKeeps DEF AllotSlots
<1>5. ASSUME NEW r \in Requests,
             (\E u \in Users : StartCreate(r, u)) \/ (\E b \in Ids : StartCancel(r, b)) \/ Serve(r)
      PROVE  BidsPaid'
  BY <1>1, <1>2, <1>5, RequestStepsKeep, NewBidPaid DEF Serve
<1>6. UNCHANGED vars => UNCHANGED <<bids, purse, stale>>
  BY DEF vars
<1> QED
  BY <1>1, <1>4, <1>5, <1>6, CrashKeeps DEF Next

LEMMA RowsTyped == IpoInv => TypeOK
<1> SUFFICES ASSUME IpoInv PROVE TypeOK
  OBVIOUS
<1>1. Types
  BY DEF IpoInv
<1>2. \A b \in Ids : bids[b].user \in Users /\ bids[b].status \in {"open", "closed", "fulfilled"}
  BY <1>1, BidParts
<1>3. \A i \in DOMAIN listed : 10 * listed[i].price \in 9 * StockPrice - 9 .. 11 * StockPrice
                               /\ listed[i].shares \in Nat /\ listed[i].allotted \subseteq Ids
  <2> TAKE i \in DOMAIN listed
  <2>1. /\ listed[i].price \in ListingPrices /\ listed[i].shares \in Nat
        /\ listed[i].allotted \subseteq Ids
    BY ListingParts
  <2>2. StockPrice \in Nat
    BY OfferAssumption
  <2>3. 10 * listed[i].price \in 9 * StockPrice - 9 .. 11 * StockPrice
    BY <2>1, <2>2 DEF ListingPrices
  <2> QED
    BY <2>1, <2>3
<1>4. \A a \in Admins : adm[a].stock \in 0 .. Len(listed) /\ ToSet(adm[a].todo) \subseteq Ids
  <2> TAKE a \in Admins
  <2>1. HasStock(a) /\ DOMAIN listed = 1 .. Len(listed) /\ Len(listed) \in Nat
    BY <1>1 DEF IpoInv, Allotments, Types
  <2>2. adm[a].stock \in 0 .. Len(listed)
    BY <2>1 DEF HasStock
  <2> QED
    BY <2>2, AdminParts
<1> QED
  BY <1>1, <1>2, <1>3, <1>4 DEF TypeOK, Types, Unsigneds

\* Every bidder's money is accounted for, also when bids race with each other and with the
\* allotment; and as long as none of his bids is written by one who read it before another
\* closed it, his reserve is what his open bids cost and he pays once for each slot.  (The
\* code adds to the reserve and the payments in numbers that wrap: BidsFit.)
THEOREM MoneyIsAccounted == BidsFit => (Spec => []MoneyAccounted)
<1> SUFFICES ASSUME BidsFit PROVE Spec => []MoneyAccounted
  OBVIOUS
<1>1. Init => BidsPaid
  <2> SUFFICES ASSUME Init PROVE BidsPaid
    OBVIOUS
  <2>1. \A u \in Users : OpenOf(u) = {} /\ FulfilledOf(u) = {} /\ reserved[u] = 0 /\ spent[u] = 0
    BY DEF Init, OpenOf, OpenBids, FulfilledOf, Ids
  <2>2. SlotPrice * 0 = 0 /\ Cardinality({}) = 0
    BY OfferAssumption, FS_EmptySet
  <2> QED
    BY <2>1, <2>2 DEF BidsPaid
<1>2. IpoInv /\ IpoInv' /\ BidsPaid /\ [Next]_vars => BidsPaid'
  BY BidsPaidStep
<1>3. IpoInv /\ BidsPaid => MoneyAccounted
  BY RowsTyped DEF MoneyAccounted, IpoInv, Balanced, BidsPaid, Clean, FulfilledOf
<1> QED
  BY <1>1, <1>2, <1>3, IpoInvariant, PTL DEF Spec
=============================================================================
