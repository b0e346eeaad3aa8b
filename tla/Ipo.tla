--------------------------------- MODULE Ipo ---------------------------------
(***************************************************************************)
(* The public offering of one stock: models/Ipo.go and IpoBid.go.  Users   *)
(* bid for slots at a fixed price and may cancel; an administrator opens   *)
(* the bidding and closes it, which hands the slots out.                   *)
(*                                                                         *)
(* A transaction holds the user's lock from its first change to the        *)
(* commit, so it is one step.  What is read before - the offering, the     *)
(* bid, the open bids of the user - is a step of its own.  Of the users'   *)
(* locks only one thing can be seen between the steps: CreateIpoBid keeps  *)
(* the lock of a user who has too little cash.                             *)
(***************************************************************************)
EXTENDS Integers, FiniteSets, SequencesExt

CONSTANTS
  Users,       \* the bidders
  Requests,    \* goroutines that serve bidders, one call after another
  Admins,      \* goroutines that serve administrators
  SlotPrice, SlotQuantity, StocksPerSlot, StockPrice,  \* the row of IpoStocks
  StartCash,   \* the cash of each user
  Word,        \* bound: unsigned numbers wrap at Word (2^64 in the code)
  MaxBids,     \* bound: bids in a behaviour
  MaxListed,   \* bound: stocks listed in a behaviour
  MaxWorking,  \* bound: goroutines at work at a time
  MaxFaults    \* bound: database errors and crashes in a behaviour

ASSUME OfferAssumption ==
  /\ SlotPrice \in Nat \ {0} /\ SlotQuantity \in Nat \ {0}
  /\ StocksPerSlot \in Nat \ {0} /\ StockPrice \in Nat
ASSUME WordAssumption == Word \in Nat /\ StartCash \in Nat /\ StartCash < Word
ASSUME BoundsAssumption == {MaxBids, MaxWorking, MaxListed, MaxFaults} \subseteq Nat

VARIABLES
  biddable,        \* isBiddable of the row of IpoStocks
  bids,            \* the rows of IpoBids, by id
  cash, reserved,  \* Cash and ReservedCash of each user
  kept,            \* users whose lock is never given back
  pinned,          \* users whose rows a transaction that was left open still locks
  listed,          \* the stocks that AllotSlots created: price, shares, what was allotted
  req,             \* what each request does
  adm,             \* what each administrator does
  faults,
  spent,           \* history: what each user paid for slots
  stale,           \* history: bids written by one who took them for open when they were not
  late,            \* history: bids committed while the bidding was closed
  cut              \* history: an allotment ended in the middle

purse == <<cash, reserved, spent>>
locks == <<kept, pinned>>
history == <<stale, late, cut>>
vars == <<biddable, bids, purse, locks, listed, req, adm, faults, history>>

Idle == [pc |-> "idle"]
Waiting == [pc |-> "idle", todo |-> <<>>, stock |-> 0, count |-> 0]

Init ==
  /\ biddable = FALSE
  /\ bids = <<>>
  /\ cash = [u \in Users |-> StartCash] /\ reserved = [u \in Users |-> 0]
  /\ kept = {} /\ pinned = {}
  /\ listed = <<>>
  /\ req = [r \in Requests |-> Idle]
  /\ adm = [a \in Admins |-> Waiting]
  /\ faults = 0
  /\ spent = [u \in Users |-> 0]
  /\ stale = {} /\ late = {} /\ cut = FALSE

Ids == DOMAIN bids
OpenBids == {b \in Ids : bids[b].status = "open"}
OpenOf(u) == {b \in OpenBids : bids[b].user = u}

\* A transaction of u that comes to its commit, and one that the database refuses.
MayCommit(u) == u \notin kept \cup pinned
\* Mutant: the database waits for a row for ever.
MayFailWaits(u) == u \notin kept /\ faults < MaxFaults

MayFail(u) == u \notin kept /\ (faults < MaxFaults \/ u \in pinned)
CountFault(u) == faults' = IF u \in pinned THEN faults ELSE faults + 1

\* What u has is moved: d from the reserve, and e of it back to the cash.
Move(u, d, e) ==
  /\ reserved' = [reserved EXCEPT ![u] = (@ - d) % Word]
  /\ cash' = [cash EXCEPT ![u] = (@ + e) % Word]
  /\ spent' = [spent EXCEPT ![u] = (@ + d - e) % Word]

\* The whole row of bid b is saved as one that read it open leaves it.
Write(b, status) ==
  /\ bids' = [bids EXCEPT ![b].status = status]
  /\ stale' = IF b \in OpenBids THEN stale ELSE stale \cup {b}

------------------------------------------------------------------------------
(* Bidding *)

Working ==
  Cardinality({r \in Requests : req[r] # Idle} \cup {a \in Admins : adm[a] # Waiting})
MayStart == Working < MaxWorking

Answer(r) == req' = [req EXCEPT ![r] = Idle]

StartCreate(r, u) ==
  /\ req[r] = Idle /\ MayStart /\ Len(bids) < MaxBids
  /\ req' = [req EXCEPT ![r] = [pc |-> "cash", user |-> u, biddable |-> biddable]]
  /\ UNCHANGED <<biddable, bids, purse, locks, listed, adm, faults, history>>

\* Too little cash is answered with the user's lock held.
CheckCash(r) ==
  /\ req[r].pc = "cash" /\ req[r].user \notin kept
  /\ \/ /\ cash[req[r].user] < SlotPrice
        /\ kept' = kept \cup {req[r].user}
        /\ Answer(r)
     \/ /\ cash[req[r].user] >= SlotPrice
        /\ kept' = kept
        /\ IF req[r].biddable THEN req' = [req EXCEPT ![r].pc = "look"] ELSE Answer(r)
  /\ UNCHANGED <<biddable, bids, purse, pinned, listed, adm, faults, history>>

LookForOpenBid(r) ==
  /\ req[r].pc = "look"
  /\ IF OpenOf(req[r].user) = {} THEN req' = [req EXCEPT ![r].pc = "create"] ELSE Answer(r)
  /\ UNCHANGED <<biddable, bids, purse, locks, listed, adm, faults, history>>

SaveNewIpoBid(r) ==
  LET u == req[r].user IN
  /\ req[r].pc = "create" /\ MayCommit(u) /\ Len(bids) < MaxBids
  /\ bids' = Append(bids, [user |-> u, status |-> "open"])
  /\ reserved' = [reserved EXCEPT ![u] = (@ + SlotPrice) % Word]
  /\ cash' = [cash EXCEPT ![u] = (@ - SlotPrice) % Word]
  /\ late' = IF biddable THEN late ELSE late \cup {Len(bids) + 1}
  /\ Answer(r)
  /\ UNCHANGED <<biddable, spent, locks, listed, adm, faults, stale, cut>>

StartCancel(r, b) ==
  /\ req[r] = Idle /\ MayStart /\ b \in OpenBids
  /\ req' = [req EXCEPT ![r] = [pc |-> "offer", user |-> bids[b].user, bid |-> b]]
  /\ UNCHANGED <<biddable, bids, purse, locks, listed, adm, faults, history>>

ReadOffer(r) ==
  /\ req[r].pc = "offer"
  /\ IF biddable THEN req' = [req EXCEPT ![r].pc = "cancel"] ELSE Answer(r)
  /\ UNCHANGED <<biddable, bids, purse, locks, listed, adm, faults, history>>

SaveCancelledIpoBid(r) ==
  LET u == req[r].user IN
  /\ req[r].pc = "cancel" /\ MayCommit(u)
  /\ Write(req[r].bid, "closed")
  /\ Move(u, SlotPrice, SlotPrice)
  /\ Answer(r)
  /\ UNCHANGED <<biddable, locks, listed, adm, faults, late, cut>>

\* The cash is put back, the transaction is rolled back.
SaveFails(r) ==
  /\ req[r].pc \in {"create", "cancel"} /\ MayFail(req[r].user)
  /\ CountFault(req[r].user)
  /\ Answer(r)
  /\ UNCHANGED <<biddable, bids, purse, locks, listed, adm, history>>

------------------------------------------------------------------------------
(* The administrators *)

Go(a, step) == adm' = [adm EXCEPT ![a].pc = step]
Return(a) == adm' = [adm EXCEPT ![a] = Waiting]

\* Opened by two at once, it is open all the same: the read and the save are one step.
AllowIpoBidding(a) ==
  /\ adm[a].pc = "idle" /\ ~ biddable
  /\ biddable' = TRUE
  /\ UNCHANGED <<bids, purse, locks, listed, req, adm, faults, history>>

StartAllot(a) ==
  /\ adm[a].pc = "idle" /\ biddable /\ MayStart
  /\ Len(listed) + Cardinality({o \in Admins : adm[o].pc \in {"close", "list"}}) < MaxListed
  /\ Go(a, "close")
  /\ UNCHANGED <<biddable, bids, purse, locks, listed, req, faults, history>>

CloseBidding(a) ==
  /\ adm[a].pc = "close"
  /\ biddable' = FALSE
  /\ Go(a, "list")
  /\ UNCHANGED <<bids, purse, locks, listed, req, faults, history>>

\* By the ratio of bids to slots.
ListingPrice(count) ==
  LET percent(n) == (StockPrice * n) \div 100
      ratio == 100 * count
  IN CASE ratio >= 95 * SlotQuantity /\ ratio <= 105 * SlotQuantity -> StockPrice
       [] ratio > 105 * SlotQuantity /\ ratio < 120 * SlotQuantity -> percent(105)
       [] ratio > 80 * SlotQuantity /\ ratio < 95 * SlotQuantity -> percent(95)
       [] ratio >= 120 * SlotQuantity -> percent(110)
       [] OTHER -> percent(90)

\* The numbers of S, each after those below it.
InOrder(S) ==
  [i \in 1 .. Cardinality(S) |-> CHOOSE b \in S : Cardinality({c \in S : c < b}) = i - 1]

\* The open bids are read and the stock is created, with no shares as yet.
ListStock(a) ==
  LET count == Cardinality(OpenBids) IN
  /\ adm[a].pc = "list"
  /\ listed' = Append(listed, [price |-> ListingPrice(count), shares |-> 0, allotted |-> {}])
  /\ adm' = [adm EXCEPT ![a] =
       [pc |-> IF count <= SlotQuantity THEN "allot all" ELSE "draw",
        todo |-> IF count <= SlotQuantity THEN InOrder(OpenBids) ELSE <<>>,
        stock |-> Len(listed) + 1, count |-> count]]
  /\ UNCHANGED <<biddable, bids, purse, locks, req, faults, history>>

\* Mutant: no LIMIT.
DrawBidsAll(a) ==
  /\ adm[a].pc = "draw"
  /\ \E drawn \in SetToSeqs(OpenBids) :
       adm' = [adm EXCEPT ![a].pc = "allot drawn", ![a].todo = drawn]
  /\ UNCHANGED <<biddable, bids, purse, locks, listed, req, faults, history>>

\* ORDER BY RAND() LIMIT SlotQuantity
DrawBids(a) ==
  /\ adm[a].pc = "draw"
  /\ \E S \in SUBSET OpenBids :
       /\ Cardinality(S) = IF Cardinality(OpenBids) < SlotQuantity
                           THEN Cardinality(OpenBids) ELSE SlotQuantity
       /\ \E drawn \in SetToSeqs(S) :
            adm' = [adm EXCEPT ![a].pc = "allot drawn", ![a].todo = drawn]
  /\ UNCHANGED <<biddable, bids, purse, locks, listed, req, faults, history>>

Allotting(a) == adm[a].pc \in {"allot all", "allot drawn"} /\ adm[a].todo # <<>>
Next1(a) == Head(adm[a].todo)
Bidder(a) == bids[Next1(a)].user
Done1(a) == adm' = [adm EXCEPT ![a].todo = Tail(@)]

AllotSlot(a) ==
  /\ Allotting(a) /\ MayCommit(Bidder(a))
  /\ Write(Next1(a), "fulfilled")
  /\ Move(Bidder(a), SlotPrice, 0)
  /\ listed' = [listed EXCEPT ![adm[a].stock].allotted = @ \cup {Next1(a)}]
  /\ Done1(a)
  /\ UNCHANGED <<biddable, locks, req, faults, late, cut>>

\* Mutant: the bids that were not drawn are forgotten.
ReadUnfulfilledNone(a) ==
  /\ adm[a].pc = "allot drawn" /\ adm[a].todo = <<>>
  /\ adm' = [adm EXCEPT ![a].pc = "refund"]
  /\ UNCHANGED <<biddable, bids, purse, locks, listed, req, faults, history>>

\* The bids that were not drawn, read again.
ReadUnfulfilled(a) ==
  /\ adm[a].pc = "allot drawn" /\ adm[a].todo = <<>>
  /\ adm' = [adm EXCEPT ![a].pc = "refund", ![a].todo = InOrder(OpenBids)]
  /\ UNCHANGED <<biddable, bids, purse, locks, listed, req, faults, history>>

\* Mutant: the cash goes back, the bid stays open.
RefundSlotOpen(a) ==
  /\ adm[a].pc = "refund" /\ adm[a].todo # <<>> /\ MayCommit(Bidder(a))
  /\ Write(Next1(a), bids[Next1(a)].status)
  /\ Move(Bidder(a), SlotPrice, SlotPrice)
  /\ Done1(a)
  /\ UNCHANGED <<biddable, locks, listed, req, faults, late, cut>>

RefundSlot(a) ==
  /\ adm[a].pc = "refund" /\ adm[a].todo # <<>> /\ MayCommit(Bidder(a))
  /\ Write(Next1(a), "closed")
  /\ Move(Bidder(a), SlotPrice, SlotPrice)
  /\ Done1(a)
  /\ UNCHANGED <<biddable, locks, listed, req, faults, late, cut>>

SaveStock(a) ==
  /\ adm[a].pc \in {"allot all", "refund"} /\ adm[a].todo = <<>>
  /\ listed' = [listed EXCEPT ![adm[a].stock].shares =
       StocksPerSlot * IF adm[a].pc = "allot all" THEN adm[a].count ELSE SlotQuantity]
  /\ Return(a)
  /\ UNCHANGED <<biddable, bids, purse, locks, req, faults, history>>

\* Everything AllotSlots has still to do is left undone.  A refund that fails
\* rolls nothing back: its transaction stays open, with the rows it has saved.
AllotFails(a) ==
  /\ \/ /\ adm[a].pc \in {"close", "list", "draw", "allot drawn", "allot all", "refund"}
        /\ faults < MaxFaults /\ adm[a].todo = <<>>
        /\ faults' = faults + 1 /\ pinned' = pinned
     \/ /\ Allotting(a) /\ MayFail(Bidder(a))
        /\ CountFault(Bidder(a)) /\ pinned' = pinned
     \/ /\ adm[a].pc = "refund" /\ adm[a].todo # <<>> /\ MayFail(Bidder(a))
        /\ CountFault(Bidder(a)) /\ pinned' \in {pinned, pinned \cup {Bidder(a)}}
  /\ cut' = (cut \/ adm[a].pc # "close")
  /\ Return(a)
  /\ UNCHANGED <<biddable, bids, purse, kept, listed, req, stale, late>>

\* The server ends and starts again; the rows are what is left.
Crash ==
  /\ faults < MaxFaults /\ faults' = faults + 1
  /\ req' = [r \in Requests |-> Idle] /\ adm' = [a \in Admins |-> Waiting]
  /\ kept' = {} /\ pinned' = {}
  /\ cut' = (cut \/ \E a \in Admins : adm[a].pc \notin {"idle", "close"})
  /\ UNCHANGED <<biddable, bids, purse, listed, stale, late>>

------------------------------------------------------------------------------
Serve(r) ==
  \/ CheckCash(r) \/ LookForOpenBid(r) \/ SaveNewIpoBid(r)
  \/ ReadOffer(r) \/ SaveCancelledIpoBid(r) \/ SaveFails(r)

AllotSlots(a) ==
  \/ CloseBidding(a) \/ ListStock(a) \/ DrawBids(a) \/ AllotSlot(a)
  \/ ReadUnfulfilled(a) \/ RefundSlot(a) \/ SaveStock(a) \/ AllotFails(a)

Next ==
  \/ \E r \in Requests : \/ \E u \in Users : StartCreate(r, u)
                         \/ \E b \in Ids : StartCancel(r, b)
                         \/ Serve(r)
  \/ \E a \in Admins : AllowIpoBidding(a) \/ StartAllot(a) \/ AllotSlots(a)
  \/ Crash

\* A goroutine that can take its next step takes it.
Fairness == \A a \in Admins : WF_vars(AllotSlots(a))

Spec == Init /\ [][Next]_vars /\ Fairness

------------------------------------------------------------------------------
(* Properties *)

\* The rows and the purses have their types.
TypeOK ==
  /\ biddable \in BOOLEAN
  /\ \A b \in Ids : bids[b].user \in Users /\ bids[b].status \in {"open", "closed", "fulfilled"}
  /\ cash \in [Users -> 0 .. Word - 1] /\ reserved \in [Users -> 0 .. Word - 1]
  /\ kept \subseteq Users /\ pinned \subseteq Users
  /\ \A i \in DOMAIN listed : 10 * listed[i].price \in 9 * StockPrice - 9 .. 11 * StockPrice
                              /\ listed[i].shares \in Nat /\ listed[i].allotted \subseteq Ids
  /\ \A a \in Admins : adm[a].stock \in 0 .. Len(listed) /\ ToSet(adm[a].todo) \subseteq Ids

\* The types are kept; a bidder's money is in his cash, in his reserve or paid for slots,
\* also when bids race with each other and with the allotment; and as long as none of his
\* bids was written by one who had read it before another closed it, his reserve is what
\* his open bids cost and he has paid for each slot he was given, once.
MoneyAccounted == TypeOK /\
  \A u \in Users :
    /\ (cash[u] + reserved[u] + spent[u]) % Word = StartCash
    /\ (\A b \in stale : bids[b].user # u) =>
         /\ reserved[u] = SlotPrice * Cardinality(OpenOf(u))
         /\ spent[u] = SlotPrice *
              Cardinality({b \in Ids : bids[b].user = u /\ bids[b].status = "fulfilled"})

\* No offering hands out more slots than it has, and a stock that was listed to the end has
\* enough shares for all that were allotted.
SlotsRespected ==
  \A i \in DOMAIN listed :
    /\ Cardinality(listed[i].allotted) <= SlotQuantity
    /\ \/ listed[i].shares = 0
       \/ listed[i].shares >= StocksPerSlot * Cardinality(listed[i].allotted)

\* When the bidding is closed and no allotment is under way, every bid has been settled,
\* except those that came in late and those that an allotment cut short left behind.
AllSettled ==
  (~ biddable /\ (\A a \in Admins : adm[a].pc \in {"idle", "close"}) /\ ~ cut)
    => OpenBids \subseteq late

\* An allotment ends, unless it waits for a bidder whose lock is never given back.
AllotmentEnds ==
  \A a \in Admins :
    adm[a].pc # "idle" ~>
      \/ adm[a].pc = "idle"
      \/ adm[a].todo # <<>> /\ Bidder(a) \in kept

=============================================================================
