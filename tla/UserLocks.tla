------------------------------ MODULE UserLocks ------------------------------
(***************************************************************************)
(* The users' locks: getUserExclusively, getUserPairExclusive, GetUserCopy *)
(* and Logout of models/User.go, with the pattern of every transaction     *)
(* under such a lock (PerformOrderFillTransaction): change the user's      *)
(* object, save it whole, put the object back when the database refuses.   *)
(*                                                                         *)
(* userLocks.m maps a user to an object with its RWMutex.  Its own mutex   *)
(* is held for a look-up and across the load of a missing user, so either  *)
(* is one step.  A goroutine makes one call.  The cash of a user is        *)
(* counted from what it was at the start; every transaction adds 1.        *)
(***************************************************************************)
EXTENDS Integers

CONSTANTS
  Users,     \* user ids
  Procs,     \* goroutines, one per call
  None,      \* no object, no goroutine
  Calls,     \* the kinds of call that are made
  MaxFaults  \* bound: database errors in a behaviour

ASSUME UsersAssumption == Users \subseteq Nat
ASSUME NoneAssumption == None \notin Procs /\ None \notin Procs \X Users
ASSUME CallsAssumption == Calls \subseteq {"one", "pair", "copy", "logout"}
ASSUME FaultsAssumption == MaxFaults \in Nat

Objects == Procs \X Users   \* <<p, u>>: what p allocated for u

VARIABLES
  entry,     \* userLocks.m: the object of a user, if there is one
  writer,    \* the goroutine that holds the RWMutex of an object
  cash,      \* Cash of an object
  loaded,    \* objects that were filled from the database: the others are blank
  row,       \* Cash in the database
  pc, kind, want,  \* of a goroutine: where it is, its call, the users it is about
  ptr,       \* ... the object it got for each user
  old,       \* ... biddingUserOldCash etc., or what GetUserCopy read
  faults,
  credited,  \* history: transactions committed for a user
  disturbed  \* history: users whose entry Logout deleted, GetUserCopy made or no
             \* load filled

vars == <<entry, writer, cash, loaded, row, pc, kind, want, ptr, old, faults,
          credited, disturbed>>
database == <<row, credited>>
objects == <<writer, cash, loaded>>
call == <<kind, want>>

Singles == {{u} : u \in Users}
Pairs == {{u, v} : u, v \in Users} \ Singles   \* nobody trades with himself

\* A goroutine makes one call, sooner or later.
Init ==
  /\ entry = [u \in Users |-> None]
  /\ writer = [o \in Objects |-> None]
  /\ cash = [o \in Objects |-> 0]
  /\ loaded = {}
  /\ row = [u \in Users |-> 0]
  /\ kind \in [Procs -> Calls]
  /\ want \in [Procs -> SUBSET Users]
  /\ \A p \in Procs : want[p] \in IF kind[p] = "pair" THEN Pairs ELSE Singles
  /\ pc = [p \in Procs |-> IF kind[p] = "logout" THEN "logout" ELSE "find"]
  /\ ptr = [p \in Procs |-> [u \in Users |-> None]]
  /\ old = [p \in Procs |-> [u \in Users |-> 0]]
  /\ faults = 0
  /\ credited = [u \in Users |-> 0]
  /\ disturbed = {}

Fault == faults < MaxFaults /\ faults' = faults + 1

------------------------------------------------------------------------------

Holds(p, u) == ptr[p][u] # None /\ writer[ptr[p][u]] = p
Locked(p) == {u \in Users : Holds(p, u)}

\* Mutant: the pair is locked in any order.
IsNextAny(p, u) == u \in want[p] \ Locked(p)

\* getUserPairExclusive locks the smaller id first.
IsNext(p, u) ==
  /\ u \in want[p] \ Locked(p)
  /\ \A v \in want[p] \ Locked(p) : u <= v

\* The user is in the map: the map is unlocked before the user's lock is sought.
Find(p, u) ==
  /\ pc[p] = "find" /\ IsNext(p, u)
  /\ entry[u] # None
  /\ ptr' = [ptr EXCEPT ![p][u] = entry[u]]
  /\ pc' = [pc EXCEPT ![p] = "lock"]
  /\ UNCHANGED <<entry, objects, database, call, old, faults, disturbed>>

\* Mutant: a loaded user is not put in the map.
LoadUnshared(p, u) ==
  /\ pc[p] = "find" /\ IsNext(p, u)
  /\ entry[u] = None
  /\ ptr' = [ptr EXCEPT ![p][u] = <<p, u>>]
  /\ \/ /\ loaded' = loaded \cup {<<p, u>>}
        /\ cash' = [cash EXCEPT ![<<p, u>>] = row[u]]
        /\ pc' = [pc EXCEPT ![p] = IF kind[p] = "copy" THEN "reread" ELSE "lock"]
        /\ disturbed' = IF kind[p] = "copy" THEN disturbed \cup {u} ELSE disturbed
        /\ UNCHANGED faults
     \/ /\ Fault
        /\ pc' = [pc EXCEPT ![p] = IF kind[p] = "copy" THEN "reread" ELSE "release"]
        /\ disturbed' = disturbed \cup {u}
        /\ UNCHANGED <<loaded, cash>>
  /\ UNCHANGED <<entry, writer, database, call, old>>

\* The user is not in the map: a blank object is put there, then filled by db.First.
\* An error leaves it blank; getUserExclusively returns it, GetUserCopy goes on.
Load(p, u) ==
  /\ pc[p] = "find" /\ IsNext(p, u)
  /\ entry[u] = None
  /\ entry' = [entry EXCEPT ![u] = <<p, u>>]
  /\ ptr' = [ptr EXCEPT ![p][u] = <<p, u>>]
  /\ \/ /\ loaded' = loaded \cup {<<p, u>>}
        /\ cash' = [cash EXCEPT ![<<p, u>>] = row[u]]
        /\ pc' = [pc EXCEPT ![p] = IF kind[p] = "copy" THEN "reread" ELSE "lock"]
        /\ disturbed' = IF kind[p] = "copy" THEN disturbed \cup {u} ELSE disturbed
        /\ UNCHANGED faults
     \/ /\ Fault
        /\ pc' = [pc EXCEPT ![p] = IF kind[p] = "copy" THEN "reread" ELSE "release"]
        /\ disturbed' = disturbed \cup {u}
        /\ UNCHANGED <<loaded, cash>>
  /\ UNCHANGED <<writer, database, call, old>>

\* u.Lock(): then the other user of a pair, or the caller's work.
Lock(p, u) ==
  /\ pc[p] = "lock" /\ kind[p] # "copy"
  /\ IsNext(p, u) /\ ptr[p][u] # None
  /\ writer[ptr[p][u]] = None
  /\ writer' = [writer EXCEPT ![ptr[p][u]] = p]
  /\ pc' = [pc EXCEPT ![p] = IF want[p] \subseteq Locked(p) \cup {u} THEN "work" ELSE "find"]
  /\ UNCHANGED <<entry, cash, loaded, database, call, ptr, old, faults, disturbed>>

------------------------------------------------------------------------------
(* The work under the locks: one database transaction *)

Mine(p, o) == \E u \in want[p] : o = ptr[p][u]

\* The objects are changed first; what they were is kept.
Work(p) ==
  /\ pc[p] = "work"
  /\ old' = [old EXCEPT ![p] = [u \in Users |-> IF u \in want[p] THEN cash[ptr[p][u]] ELSE 0]]
  /\ cash' = [o \in Objects |-> IF Mine(p, o) THEN cash[o] + 1 ELSE cash[o]]
  /\ pc' = [pc EXCEPT ![p] = "save"]
  /\ UNCHANGED <<entry, writer, loaded, database, call, ptr, faults, disturbed>>

\* tx.Save writes each object whole; a blank one has no id, so another row gets it.
Commit(p) ==
  /\ pc[p] = "save"
  /\ row' = [u \in Users |-> IF u \in want[p] /\ ptr[p][u] \in loaded
                             THEN cash[ptr[p][u]] ELSE row[u]]
  /\ credited' = [u \in Users |-> IF u \in want[p] THEN credited[u] + 1 ELSE credited[u]]
  /\ pc' = [pc EXCEPT ![p] = "release"]
  /\ UNCHANGED <<entry, objects, call, ptr, old, faults, disturbed>>

\* Mutant: the objects keep what the database refused.
RollbackRowOnly(p) ==
  /\ pc[p] = "save"
  /\ Fault
  /\ pc' = [pc EXCEPT ![p] = "release"]
  /\ UNCHANGED <<entry, objects, database, call, ptr, old, disturbed>>

\* revertToOldState and the rollback.
Rollback(p) ==
  /\ pc[p] = "save"
  /\ Fault
  /\ cash' = [o \in Objects |-> IF Mine(p, o) THEN old[p][o[2]] ELSE cash[o]]
  /\ pc' = [pc EXCEPT ![p] = "release"]
  /\ UNCHANGED <<entry, writer, loaded, database, call, ptr, old, disturbed>>

\* close(ch): a goroutine of its own unlocks, for a pair one for each user.
Unlock(p, u) ==
  /\ pc[p] = "release" /\ Holds(p, u)
  /\ writer' = [writer EXCEPT ![ptr[p][u]] = None]
  /\ UNCHANGED <<entry, cash, loaded, database, pc, call, ptr, old, faults, disturbed>>

\* The goroutine and its local variables are gone.
End(p) ==
  /\ pc[p] = "release" /\ Locked(p) = {}
  /\ pc' = [pc EXCEPT ![p] = "done"]
  /\ ptr' = [ptr EXCEPT ![p] = [u \in Users |-> None]]
  /\ old' = [old EXCEPT ![p] = [u \in Users |-> 0]]
  /\ UNCHANGED <<entry, objects, database, call, faults, disturbed>>

------------------------------------------------------------------------------
(* GetUserCopy and Logout *)

\* The second db.First of GetUserCopy reads the row with no lock held ...
Reread(p, u) ==
  /\ pc[p] = "reread" /\ u \in want[p]
  /\ \/ /\ old' = [old EXCEPT ![p][u] = row[u]]
        /\ pc' = [pc EXCEPT ![p] = "store"]
        /\ UNCHANGED faults
     \/ Fault /\ pc' = [pc EXCEPT ![p] = "release"] /\ UNCHANGED old
  /\ UNCHANGED <<entry, objects, database, call, ptr, disturbed>>

\* ... and writes it into the object, which others may hold by now.
Store(p, u) ==
  /\ pc[p] = "store" /\ u \in want[p]
  /\ cash' = [cash EXCEPT ![ptr[p][u]] = old[p][u]]
  /\ loaded' = loaded \cup {ptr[p][u]}
  /\ pc' = [pc EXCEPT ![p] = "lock"]
  /\ UNCHANGED <<entry, writer, database, call, ptr, old, faults, disturbed>>

\* u.RLock(), the copy and u.RUnlock().
Copy(p, u) ==
  /\ pc[p] = "lock" /\ kind[p] = "copy" /\ u \in want[p]
  /\ writer[ptr[p][u]] = None
  /\ pc' = [pc EXCEPT ![p] = "release"]
  /\ UNCHANGED <<entry, objects, database, call, ptr, old, faults, disturbed>>

Logout(p, u) ==
  /\ pc[p] = "logout" /\ u \in want[p]
  /\ entry' = [entry EXCEPT ![u] = None]
  /\ disturbed' = disturbed \cup {u}
  /\ pc' = [pc EXCEPT ![p] = "release"]
  /\ UNCHANGED <<objects, database, call, ptr, old, faults>>

------------------------------------------------------------------------------

Step(p) ==
  \/ \E u \in Users : \/ Find(p, u) \/ Load(p, u) \/ Lock(p, u) \/ Unlock(p, u)
                      \/ Reread(p, u) \/ Store(p, u) \/ Copy(p, u) \/ Logout(p, u)
  \/ Work(p) \/ Commit(p) \/ Rollback(p) \/ End(p)

Terminated == (\A p \in Procs : pc[p] = "done") /\ UNCHANGED vars

Next ==
  \/ \E p \in Procs : Step(p)
  \/ Terminated

Spec == Init /\ [][Next]_vars

\* Every goroutine goes on as long as it can; each makes one call, so a lock that is
\* free again and again is free for good in the end.
FairSpec == Spec /\ \A p \in Procs : WF_vars(Step(p))

------------------------------------------------------------------------------
(* Properties *)

\* Cash is unsigned.
TypeOK ==
  /\ entry \in [Users -> Objects \cup {None}]
  /\ writer \in [Objects -> Procs \cup {None}]
  /\ cash \in [Objects -> Nat]
  /\ loaded \subseteq Objects
  /\ row \in [Users -> Nat]
  /\ pc \in [Procs -> {"find", "lock", "work", "save", "release", "done",
                       "reread", "store", "logout"}]
  /\ kind \in [Procs -> {"one", "pair", "copy", "logout"}]
  /\ want \in [Procs -> SUBSET Users]
  /\ ptr \in [Procs -> [Users -> Objects \cup {None}]]
  /\ old \in [Procs -> [Users -> Nat]]
  /\ faults \in 0 .. MaxFaults
  /\ credited \in [Users -> Nat]
  /\ disturbed \subseteq Users

\* Two goroutines never work on the same user at the same time, as long as the user's
\* entry was made by getUserExclusively and stays. ("exclusive write access")
MutualExclusion ==
  \A u \in Users \ disturbed, p, q \in Procs : Holds(p, u) /\ Holds(q, u) => p = q

\* The database has every transaction that was committed, and no other: no update is
\* overwritten by an object that does not know of it, under the same condition.
EveryUpdateCounts == \A u \in Users \ disturbed : row[u] = credited[u]

\* The same without the condition, as the comments of getUserExclusively and
\* GetUserCopy promise it.
NoUpdateLost == \A u \in Users : row[u] = credited[u]

\* Every call ends: the order of the ids keeps goroutines that lock pairs from waiting
\* for each other, and no error path keeps a lock.
EveryCallEnds == \A p \in Procs : <>(pc[p] = "done")
=============================================================================
