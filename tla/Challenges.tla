------------------------------- MODULE Challenges -------------------------------
(***************************************************************************)
(* The daily challenges: models/DailyChallenge.go and Config.go, with the  *)
(* leaderboard, whose Total a challenge on the net worth is judged by.     *)
(*                                                                         *)
(* Opening the challenges of the market day saves a state for every user;  *)
(* closing them judges the states, taking each user's lock in turn within  *)
(* one transaction; a user claims the reward of a state that is judged     *)
(* done.  The day and whether challenges are open are a row of Config,     *)
(* which is read and written outside these transactions.                   *)
(***************************************************************************)
EXTENDS Leaderboard

CONSTANTS
  Kinds,        \* the challenge types used
  Goal,         \* Value: by how much a user must grow
  Reward,
  MaxDay,       \* bound: market days
  None

ASSUME ChallengesAssumption ==
  /\ Kinds \subseteq {"Cash", "NetWorth", "StockWorth", "SpecificStock"}
  /\ {Goal, Reward, MaxDay} \subseteq Nat /\ None \notin Int

VARIABLES
  day, isOpen,  \* Config
  challenges,   \* the rows of DailyChallenge; the id is the index
  states,       \* the rows of UserState
  judged,       \* what a transaction that closes the day wrote and has not committed
  rowsLost,     \* rows of UserState whose transaction was left open
  opened,       \* history: the days that were opened
  late,         \* history: users whose phone number was verified
  orderly,      \* history: the administrators waited for each other, moved the day only forward
                \* and not while it was open, opened it once, and Config was written
  fair          \* history: no claim failed, or ran beside another claim of the same reward

challengeVars == <<day, isOpen, challenges, states, judged, rowsLost, opened, late, orderly, fair>>
users == <<holder, writer, worth, rowWorth, total, board, rounds, torn>>

ChallengesInit ==
  /\ BoardInit
  /\ day = 1 /\ isOpen = FALSE
  /\ \E k \in Kinds : challenges = <<[day |-> 1, kind |-> k]>>
  /\ states = <<>> /\ judged = [w \in Workers |-> <<>>] /\ rowsLost = {}
  /\ opened = {} /\ late = {} /\ orderly = TRUE /\ fair = TRUE

AdminsAtWork == {w \in Workers : job[w].op \in {"add", "open", "close"}}
Of(d) == {c \in DOMAIN challenges : challenges[c].day = d}
JudgedIn(w) == {n.id : n \in ToSet(judged[w])}
Forget(w) == judged' = [judged EXCEPT ![w] = <<>>]
StateFree(w, id) == id \notin rowsLost /\ \A v \in Workers \ {w} : id \notin JudgedIn(v)

------------------------------------------------------------------------------
(* The administrators *)

SetMarketDay == \E d \in 1 .. MaxDay :
  /\ Arrives("setday")
  /\ d # day /\ day' = d
  /\ orderly' = (orderly /\ d > day /\ ~ isOpen /\ AdminsAtWork = {})
  /\ UNCHANGED <<users, job, faults, isOpen, challenges, states, judged, rowsLost>>
  /\ UNCHANGED <<opened, late, fair>>

\* A challenge is for a later day.
StartAdd(w) == \E d \in 1 .. MaxDay, k \in Kinds :
  /\ d > day /\ Begin(w, "add", "save", <<[day |-> d, kind |-> k]>>, TRUE)
  /\ UNCHANGED <<users, faults, challengeVars>>

SaveChallenge(w) ==
  /\ At(w, "add", "save")
  /\ \/ challenges' = challenges \o job[w].rows /\ UNCHANGED faults
     \/ Fault /\ UNCHANGED challenges
  /\ Finish(w)
  /\ UNCHANGED <<users, todo, day, isOpen, states, judged, rowsLost, opened, late, orderly, fair>>

\* Both calls read the day and then, as a step of its own, whether challenges are open.
Start(w, op) ==
  /\ Begin(w, op, "check", <<day>>, TRUE)
  /\ orderly' = (orderly /\ AdminsAtWork = {})
  /\ UNCHANGED <<users, faults, day, isOpen, challenges, states, judged, rowsLost>>
  /\ UNCHANGED <<opened, late, fair>>

CheckOpen(w) ==
  /\ At(w, "open", "check")
  /\ IF isOpen THEN Finish(w) /\ UNCHANGED orderly
     ELSE /\ GoTo(w, "save", 1)
          /\ orderly' = (orderly /\ job[w].rows[1] \notin opened)
  /\ UNCHANGED <<users, todo, faults, day, isOpen, challenges, states, judged, rowsLost>>
  /\ UNCHANGED <<opened, late, fair>>

NewState(c, u, initial, final) ==
  [challenge |-> c, user |-> u, initial |-> initial, final |-> final, done |-> FALSE,
   claimed |-> FALSE]

\* One transaction: a state of each challenge of the day for each user, from one query.
saveUsersState(w) ==
  /\ At(w, "open", "save")
  /\ LET new == SetToSeq(Of(job[w].rows[1]) \X Users)
     IN states' = states \o [i \in DOMAIN new |->
          NewState(new[i][1], new[i][2], rowWorth[new[i][2]], None)]
  /\ GoTo(w, "flag", 1)
  /\ UNCHANGED <<users, todo, faults, day, isOpen, challenges, judged, rowsLost>>
  /\ UNCHANGED <<opened, late, orderly, fair>>

OpenFails(w) ==
  /\ At(w, "open", "save") /\ Fault
  /\ Finish(w)
  /\ UNCHANGED <<users, todo, challengeVars>>

SetIsDailyChallengeOpen(w, op) ==
  /\ At(w, op, "flag")
  /\ \/ isOpen' = (op = "open") /\ UNCHANGED <<faults, orderly>>
     \/ Fault /\ orderly' = FALSE /\ UNCHANGED isOpen
  /\ opened' = IF op = "open" THEN opened \cup {job[w].rows[1]} ELSE opened
  /\ Finish(w)
  /\ UNCHANGED <<users, todo, day, challenges, states, judged, rowsLost, late, fair>>

CheckClose(w) ==
  /\ At(w, "close", "check")
  /\ IF isOpen
     THEN LET of == {s \in DOMAIN states : challenges[states[s].challenge].day = job[w].rows[1]}
          IN job' = [job EXCEPT ![w].at = "take", ![w].rows = SetToSeq(of)]
     ELSE Finish(w)
  /\ UNCHANGED <<users, todo, faults, challengeVars>>

JudgedState(w) == job[w].rows[job[w].i]
JudgedKind(w) == challenges[states[JudgedState(w)].challenge].kind
MoreToJudge(w) == job[w].i <= Len(job[w].rows)

\* The worth of stocks is read without the user's lock.
TakeJudged(w) ==
  /\ At(w, "close", "take") /\ MoreToJudge(w)
  /\ IF JudgedKind(w) = "StockWorth" THEN UNCHANGED holder
     ELSE Take(w, states[JudgedState(w)].user)
  /\ GoTo(w, "judge", job[w].i)
  /\ UNCHANGED <<writer, worth, rowWorth, total, board, rounds, torn, todo, faults, challengeVars>>

\* Errors that leave the transaction open: of loading a user or the worth of his stocks, and
\* of counting his stock, which keeps his lock too.
JudgeLost(w) ==
  /\ job[w].op = "close"
  /\ \/ job[w].at = "take" /\ MoreToJudge(w) /\ UNCHANGED holder
     \/ job[w].at = "judge" /\ JudgedKind(w) = "SpecificStock"
        /\ holder' = [holder EXCEPT ![states[JudgedState(w)].user] = Lost]
     \/ job[w].at = "judge" /\ JudgedKind(w) = "StockWorth" /\ UNCHANGED holder
  /\ Fault
  /\ rowsLost' = rowsLost \cup JudgedIn(w)
  /\ Finish(w) /\ Forget(w)
  /\ UNCHANGED <<writer, worth, rowWorth, total, board, rounds, torn, todo>>
  /\ UNCHANGED <<day, isOpen, challenges, states, opened, late, orderly, fair>>

FinalValue(w) ==
  LET u == states[JudgedState(w)].user
  IN CASE JudgedKind(w) = "NetWorth" -> total[u]
       [] JudgedKind(w) = "StockWorth" -> rowWorth[u]
       [] OTHER -> worth[u]

JudgeState(w) ==
  /\ At(w, "close", "judge") /\ StateFree(w, JudgedState(w))
  /\ judged' = [judged EXCEPT ![w] =
       Append(@, [id |-> JudgedState(w), final |-> FinalValue(w),
                  done |-> FinalValue(w) >= states[JudgedState(w)].initial + Goal])]
  /\ GoTo(w, "take", job[w].i + 1)
  /\ GiveAll(w)
  /\ UNCHANGED <<writer, worth, rowWorth, total, board, rounds, torn, todo, faults>>
  /\ UNCHANGED <<day, isOpen, challenges, states, rowsLost, opened, late, orderly, fair>>

\* Mutant: a state that cannot be saved is passed over.
JudgeFailsGoesOn(w) ==
  /\ At(w, "close", "judge") /\ MayFail(StateFree(w, JudgedState(w)))
  /\ GiveAll(w) /\ GoTo(w, "take", job[w].i + 1)
  /\ UNCHANGED <<writer, worth, rowWorth, total, board, rounds, torn, todo, challengeVars>>

JudgeFails(w) ==
  /\ At(w, "close", "judge") /\ MayFail(StateFree(w, JudgedState(w)))
  /\ GiveAll(w) /\ Finish(w) /\ Forget(w)
  /\ UNCHANGED <<writer, worth, rowWorth, total, board, rounds, torn, todo>>
  /\ UNCHANGED <<day, isOpen, challenges, states, rowsLost, opened, late, orderly, fair>>

CommitJudged(w) ==
  /\ At(w, "close", "take") /\ ~ MoreToJudge(w)
  /\ \/ /\ states' = [s \in DOMAIN states |->
             IF s \in JudgedIn(w)
             THEN LET n == CHOOSE n \in ToSet(judged[w]) : n.id = s
                  IN [states[s] EXCEPT !.final = n.final, !.done = n.done]
             ELSE states[s]]
        /\ GoTo(w, "flag", 1) /\ UNCHANGED faults
     \/ Fault /\ Finish(w) /\ UNCHANGED states
  /\ Forget(w)
  /\ UNCHANGED <<users, todo, day, isOpen, challenges, rowsLost, opened, late, orderly, fair>>

------------------------------------------------------------------------------
(* The users *)

\* VerifyOTP, which holds the user's lock throughout, ends with saveNewUserState: a state of
\* every challenge up to the day, also of those the user has a state of.
saveNewUserState == \E u \in Users :
  /\ Arrives("verify")
  /\ holder[u] = Free /\ writer[u].tx = Free
  /\ LET cs == SetToSeq({c \in DOMAIN challenges : challenges[c].day <= day})
     IN \/ states' = states \o [i \in DOMAIN cs |->
             NewState(cs[i], u, StartWorth,
                      IF challenges[cs[i]].day < day THEN StartWorth ELSE None)]
           /\ UNCHANGED faults
        \/ Fault /\ UNCHANGED states
  /\ late' = late \cup {u}
  /\ UNCHANGED <<users, job, day, isOpen, challenges, judged, rowsLost, opened, orderly, fair>>

Claiming(id) == {w \in Workers : job[w].op = "claim" /\ job[w].rows[1] = id}
\* Mutant: whether the reward was claimed is not looked at.
IsClaimableAgain(s) == s.done

IsClaimable(s) == s.done /\ ~ s.claimed

\* The row is read before the user's lock is taken.  The check that the day is still open is
\* never true: the query names the day otherwise than the field it is read into.
StartClaim(w) == \E id \in DOMAIN states :
  /\ IsClaimable(states[id])
  /\ Begin(w, "claim", "lock", <<id>>, TRUE)
  /\ fair' = (fair /\ Claiming(id) = {})
  /\ UNCHANGED <<users, faults, day, isOpen, challenges, states, judged, rowsLost>>
  /\ UNCHANGED <<opened, late, orderly>>

ClaimedState(w) == job[w].rows[1]
Claimant(w) == states[ClaimedState(w)].user

LockClaimant(w) ==
  /\ At(w, "claim", "lock") /\ Take(w, Claimant(w))
  /\ GoTo(w, "pay", 1)
  /\ UNCHANGED <<writer, worth, rowWorth, total, board, rounds, torn, todo, faults, challengeVars>>

Paid(w) == worth' = [worth EXCEPT ![Claimant(w)] = @ + Reward]
PayFree(w) == RowFree(w, Claimant(w)) /\ StateFree(w, ClaimedState(w))

PayReward(w) ==
  /\ At(w, "claim", "pay") /\ PayFree(w)
  /\ Paid(w)
  /\ rowWorth' = [rowWorth EXCEPT ![Claimant(w)] = worth'[Claimant(w)]]
  /\ states' = [states EXCEPT ![ClaimedState(w)].claimed = TRUE]
  /\ GiveAll(w) /\ Finish(w)
  /\ UNCHANGED <<writer, total, board, rounds, torn, todo, faults, day, isOpen, challenges>>
  /\ UNCHANGED <<judged, rowsLost, opened, late, orderly, fair>>

\* The transaction is undone, the cash in memory is not.
PayFails(w) ==
  /\ At(w, "claim", "pay") /\ MayFail(PayFree(w))
  /\ Paid(w)
  /\ fair' = FALSE
  /\ GiveAll(w) /\ Finish(w)
  /\ UNCHANGED <<writer, rowWorth, total, board, rounds, torn, todo, day, isOpen, challenges>>
  /\ UNCHANGED <<states, judged, rowsLost, opened, late, orderly>>

AdminStep(w) ==
  \/ SaveChallenge(w)
  \/ CheckOpen(w) \/ saveUsersState(w) \/ OpenFails(w)
  \/ CheckClose(w) \/ TakeJudged(w) \/ JudgeLost(w) \/ JudgeState(w) \/ JudgeFails(w)
  \/ CommitJudged(w)
  \/ \E op \in {"open", "close"} : SetIsDailyChallengeOpen(w, op)
ClaimStep(w) == LockClaimant(w) \/ PayReward(w) \/ PayFails(w)

ChallengesNext ==
  \/ BoardNext /\ UNCHANGED challengeVars
  \/ SetMarketDay \/ saveNewUserState
  \/ \E w \in Workers :
       \/ StartAdd(w) \/ Start(w, "open") \/ Start(w, "close") \/ StartClaim(w)
       \/ AdminStep(w) \/ ClaimStep(w)

------------------------------------------------------------------------------
(* Properties *)

Total(f) == SumFunctionOnSet(f, Users)

\* A reward is paid once, and for a challenge that was done: while claims neither fail nor
\* run beside each other, what the users own, in memory and in the database, is what they
\* began with and the rewards marked as claimed.
RewardedOnce == fair =>
  LET claimed == {s \in DOMAIN states : states[s].claimed}
      all == Cardinality(Users) * StartWorth + Reward * Cardinality(claimed)
  IN /\ Total(worth) = all /\ Total(rowWorth) = all
     /\ orderly => \A s \in claimed : states[s].done

\* Between the administrators' calls every user has one state of each challenge of a day
\* that was opened, and it is judged once the day is closed, however closing failed before;
\* the users who verified a phone number apart.
StatesJudged == (orderly /\ AdminsAtWork = {}) =>
  \A d \in opened : \A c \in Of(d), u \in Users \ late :
    \E s \in DOMAIN states :
      /\ \A r \in DOMAIN states : (states[r].challenge = c /\ states[r].user = u) <=> r = s
      /\ (~ isOpen \/ d # day) => /\ states[s].final # None
                                  /\ states[s].done <=> states[s].final >= states[s].initial + Goal

challengesVars == <<boardVars, challengeVars>>
ChallengesFairness ==
  /\ WF_challengesVars(TickerStep /\ UNCHANGED challengeVars)
  /\ \A w \in Workers :
       WF_challengesVars(AdminStep(w) \/ ClaimStep(w)
                         \/ ((TradeStep(w) \/ TableStep(w)) /\ UNCHANGED challengeVars))
ChallengesSpec == ChallengesInit /\ [][ChallengesNext]_challengesVars /\ ChallengesFairness

=============================================================================
