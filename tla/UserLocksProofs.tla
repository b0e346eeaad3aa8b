--------------------------- MODULE UserLocksProofs ---------------------------
(***************************************************************************)
(* That the users' locks exclude each other, and that no committed update  *)
(* is lost, for any number of users and goroutines, as long as a user's    *)
(* entry was made by getUserExclusively and has stayed in the map.         *)
(*                                                                         *)
(* The argument: while the entry of u stays, whoever has an object for u   *)
(* has that of the map (Shared), so its one RWMutex decides (Held).  That  *)
(* is inductive.  For the updates the object must agree with the row       *)
(* whenever nobody is between changing and saving it (Counted).            *)
(***************************************************************************)
EXTENDS UserLocks, TLAPS

Holding == {"find", "lock", "work", "save", "release"}

Own == /\ \A u \in Users : entry[u] # None => entry[u][2] = u
       /\ \A p \in Procs, u \in Users : ptr[p][u] # None => ptr[p][u][2] = u

Shared == \A u \in Users \ disturbed, p \in Procs :
            ptr[p][u] # None => ptr[p][u] = entry[u]

Held == \A o \in Objects, p \in Procs :
          writer[o] = p => /\ ptr[p][o[2]] = o
                           /\ o[2] \in want[p]
                           /\ pc[p] \in Holding

Working == \A p \in Procs : pc[p] \in {"work", "save"} =>
             \A u \in want[p] : Holds(p, u)

Copying == \A p \in Procs :
             /\ kind[p] = "copy" => \A u, v \in want[p] : u = v
             /\ pc[p] \in {"reread", "store"} =>
                  want[p] \subseteq disturbed /\ \A u \in want[p] : ptr[p][u] # None

Saving(u) == \E p \in Procs : writer[entry[u]] = p /\ pc[p] = "save"

Balanced(u) ==
  /\ ~Saving(u) => cash[entry[u]] = row[u]
  /\ \A p \in Procs : writer[entry[u]] = p /\ pc[p] = "save" =>
       cash[entry[u]] = row[u] + 1 /\ old[p][u] = row[u]

Counted == \A u \in Users \ disturbed :
             /\ row[u] = credited[u]
             /\ entry[u] # None => entry[u] \in loaded /\ Balanced(u)

IInv == TypeOK /\ Own /\ Shared /\ Held /\ Working /\ Copying /\ Counted
\* No goroutine has anything at the start.
LEMMA InitIInv == Init => IInv
<1> SUFFICES ASSUME Init PROVE IInv
  OBVIOUS
<1> USE DEF Init
<1>1. TypeOK
  <2>1. kind \in [Procs -> {"one", "pair", "copy", "logout"}]
    BY CallsAssumption
  <2>2. pc \in [Procs -> {"find", "logout"}]
    OBVIOUS
  <2>3. faults \in 0 .. MaxFaults
    BY FaultsAssumption
  <2>4. disturbed \subseteq Users /\ loaded \subseteq Objects
    OBVIOUS
  <2> QED
    BY <2>1, <2>2, <2>3, <2>4 DEF TypeOK
<1>2. Own /\ Shared /\ Working /\ Counted
  BY DEF Own, Shared, Working, Counted
<1>3. Held
  BY NoneAssumption DEF Held
<1>4. Copying
  <2> SUFFICES ASSUME NEW p \in Procs, kind[p] = "copy"
               PROVE  \A u, v \in want[p] : u = v
    BY DEF Copying
  <2>1. want[p] \in Singles
    BY DEF Pairs
  <2> QED
    BY <2>1 DEF Singles
<1> QED
  BY <1>1, <1>2, <1>3, <1>4 DEF IInv

\* The object a goroutine locks is that of the map, and nobody else's.
LEMMA HoldsObject ==
  ASSUME IInv, NEW p \in Procs, NEW u \in Users, Holds(p, u)
  PROVE  ptr[p][u] \in Objects /\ ptr[p][u][2] = u /\ u \in want[p] /\ pc[p] \in Holding
BY DEF IInv, TypeOK, Own, Held, Holds

\* Finding the entry of a user in the map preserves the invariant.
LEMMA FindIInv ==
  ASSUME IInv, NEW p \in Procs, NEW u \in Users, Find(p, u)
  PROVE  IInv'
<1> USE DEF Find, database, objects, call
<1>1. ~Holds(p, u) /\ u \in want[p] /\ pc[p] = "find"
  BY DEF IsNext, Locked
<1>2. entry[u] \in Objects /\ entry[u][2] = u
  BY DEF IInv, TypeOK, Own
<1>3. \A q \in Procs, v \in Users : <<q, v>> # <<p, u>> => ptr'[q][v] = ptr[q][v]
  BY DEF IInv, TypeOK
<1>4. ptr'[p][u] = entry[u]
  BY DEF IInv, TypeOK
<1>5. \A q \in Procs, v \in Users : Holds(q, v) => Holds(q, v)'
  BY <1>1, <1>3 DEF Holds
<1>6. TypeOK'
  BY <1>2 DEF IInv, TypeOK
<1>7. Own'
  BY <1>2, <1>3, <1>4 DEF IInv, Own
<1>8. Shared'
  BY <1>3, <1>4 DEF IInv, Shared
<1>9. Held'
  <2> SUFFICES ASSUME NEW o \in Objects, NEW q \in Procs, writer[o] = q
               PROVE  ptr'[q][o[2]] = o /\ o[2] \in want[q] /\ pc'[q] \in Holding
    BY DEF Held
  <2>1. ptr[q][o[2]] = o /\ o[2] \in want[q] /\ pc[q] \in Holding /\ o[2] \in Users
    BY DEF IInv, Held, Objects
  <2>2. Holds(q, o[2])
    BY <2>1, NoneAssumption DEF Holds, Objects
  <2>3. <<q, o[2]>> # <<p, u>>
    BY <2>2, <1>1
  <2> QED
    BY <2>1, <2>3, <1>3 DEF Holding, IInv, TypeOK
<1>10. Working'
  BY <1>1, <1>5 DEF IInv, TypeOK, Working
<1>11. Copying'
  BY <1>1, <1>3 DEF IInv, TypeOK, Copying
<1>12. Counted'
  <2> SUFFICES ASSUME NEW v \in Users \ disturbed
               PROVE  /\ row[v] = credited[v]
                      /\ entry[v] # None => entry[v] \in loaded /\ Balanced(v)'
    BY DEF Counted
  <2>1. Saving(v)' <=> Saving(v)
    BY <1>1 DEF IInv, TypeOK, Saving
  <2> QED
    BY <2>1, <1>1 DEF IInv, TypeOK, Counted, Balanced
<1> QED
  BY <1>6, <1>7, <1>8, <1>9, <1>10, <1>11, <1>12 DEF IInv
\* Loading a user that is not in the map preserves the invariant: nobody has an
\* object for him then, unless his entry was deleted.
LEMMA LoadIInv ==
  ASSUME IInv, NEW p \in Procs, NEW u \in Users, Load(p, u)
  PROVE  IInv'
<1> DEFINE new == <<p, u>>
<1> USE DEF Load, database, call, Fault
<1>1. ~Holds(p, u) /\ u \in want[p] /\ pc[p] = "find"
  BY DEF IsNext, Locked
<1>2. new \in Objects /\ new[2] = u /\ new # None
  BY NoneAssumption DEF Objects
<1>3. /\ \A q \in Procs, v \in Users : <<q, v>> # <<p, u>> => ptr'[q][v] = ptr[q][v]
      /\ ptr'[p][u] = new
  BY DEF IInv, TypeOK
<1>4. /\ \A v \in Users : v # u => entry'[v] = entry[v]
      /\ entry'[u] = new
  BY DEF IInv, TypeOK
<1>5. /\ \A q \in Procs : q # p => pc'[q] = pc[q]
      /\ pc'[p] \in {"reread", "lock", "release"}
      /\ pc'[p] = "reread" => kind[p] = "copy" /\ u \in disturbed'
  BY DEF IInv, TypeOK
<1>6. disturbed \subseteq disturbed'
  OBVIOUS
<1>7. loaded \subseteq loaded' /\ \A o \in Objects : o # new => cash'[o] = cash[o]
  BY DEF IInv, TypeOK
<1>8. \A q \in Procs, v \in Users : Holds(q, v) => Holds(q, v)'
  BY <1>1, <1>3 DEF Holds
<1>9. \A o \in Objects, q \in Procs : writer[o] = q =>
        /\ <<q, o[2]>> # <<p, u>>
        /\ ptr[q][o[2]] = o /\ o[2] \in want[q] /\ pc[q] \in Holding /\ o[2] \in Users
  <2> SUFFICES ASSUME NEW o \in Objects, NEW q \in Procs, writer[o] = q
               PROVE  /\ <<q, o[2]>> # <<p, u>>
                      /\ ptr[q][o[2]] = o /\ o[2] \in want[q] /\ pc[q] \in Holding
                      /\ o[2] \in Users
    OBVIOUS
  <2>1. ptr[q][o[2]] = o /\ o[2] \in want[q] /\ pc[q] \in Holding /\ o[2] \in Users
    BY DEF IInv, Held, Objects
  <2>2. Holds(q, o[2])
    BY <2>1, NoneAssumption DEF Holds, Objects
  <2> QED
    BY <2>1, <2>2, <1>1
<1>10. TypeOK'
  <2>1. pc' \in [Procs -> {"find", "lock", "work", "save", "release", "done",
                          "reread", "store", "logout"}]
    BY <1>1 DEF IInv, TypeOK
  <2>2. ptr' \in [Procs -> [Users -> Objects \cup {None}]]
    BY <1>2 DEF IInv, TypeOK
  <2>3. entry' \in [Users -> Objects \cup {None}]
    BY <1>2 DEF IInv, TypeOK
  <2>4. cash' \in [Objects -> Nat] /\ loaded' \subseteq Objects
    BY <1>2 DEF IInv, TypeOK
  <2>5. faults' \in 0 .. MaxFaults
    BY FaultsAssumption DEF IInv, TypeOK
  <2>6. disturbed' \subseteq Users
    BY DEF IInv, TypeOK
  <2> QED
    BY <2>1, <2>2, <2>3, <2>4, <2>5, <2>6 DEF IInv, TypeOK
<1>11. Own'
  BY <1>2, <1>3, <1>4 DEF IInv, Own
<1>12. Shared'
  <2> SUFFICES ASSUME NEW v \in Users \ disturbed', NEW q \in Procs, ptr'[q][v] # None
               PROVE  ptr'[q][v] = entry'[v]
    BY DEF Shared
  <2>1. CASE v = u
    BY <2>1, <1>3, <1>4, <1>6 DEF IInv, Shared
  <2>2. CASE v # u
    BY <2>2, <1>3, <1>4, <1>6 DEF IInv, Shared
  <2> QED
    BY <2>1, <2>2
<1>13. Held'
  <2> SUFFICES ASSUME NEW o \in Objects, NEW q \in Procs, writer[o] = q
               PROVE  ptr'[q][o[2]] = o /\ o[2] \in want[q] /\ pc'[q] \in Holding
    BY DEF Held
  <2>1. o[2] # u => pc'[p] # "reread" \/ q # p
    BY <1>1, <1>5, <1>9 DEF IInv, Copying
  <2> QED
    BY <2>1, <1>3, <1>5, <1>9 DEF Holding
<1>14. Working'
  BY <1>5, <1>8 DEF IInv, TypeOK, Working
<1>15. Copying'
  <2> SUFFICES ASSUME NEW q \in Procs
               PROVE  /\ kind[q] = "copy" => \A w, v \in want[q] : w = v
                      /\ pc'[q] \in {"reread", "store"} =>
                           want[q] \subseteq disturbed' /\ \A v \in want[q] : ptr'[q][v] # None
    BY DEF Copying
  <2>1. kind[q] = "copy" => \A w, v \in want[q] : w = v
    BY DEF IInv, Copying
  <2>2. CASE q = p
    BY <2>1, <2>2, <1>1, <1>2, <1>3, <1>5
  <2>3. CASE q # p
    BY <2>3, <1>3, <1>5, <1>6 DEF IInv, TypeOK, Copying
  <2> QED
    BY <2>1, <2>2, <2>3
<1>16. Counted'
  <2> SUFFICES ASSUME NEW v \in Users \ disturbed'
               PROVE  /\ row[v] = credited[v]
                      /\ entry'[v] # None => entry'[v] \in loaded' /\ Balanced(v)'
    BY DEF Counted
  <2>1. row[v] = credited[v]
    BY <1>6 DEF IInv, Counted
  <2>2. CASE v = u
    <3>1. new \in loaded' /\ cash'[new] = row[u]
      BY <2>2, <1>2 DEF IInv, TypeOK
    <3>2. writer[new] \notin Procs
      <4> SUFFICES ASSUME NEW q \in Procs, writer[new] = q
                   PROVE  FALSE
        OBVIOUS
      <4>1. ptr[q][u] = new
        BY <1>2, <1>9
      <4> QED
        BY <4>1, <1>2, <1>6, <2>2 DEF IInv, Shared
    <3> QED
      BY <2>1, <2>2, <3>1, <3>2, <1>4 DEF Balanced, Saving
  <2>3. CASE v # u
    <3> SUFFICES ASSUME entry'[v] # None
                 PROVE  entry'[v] \in loaded' /\ Balanced(v)'
      BY <2>1
    <3>1. entry'[v] = entry[v] /\ entry[v] \in Objects /\ entry[v][2] = v
      BY <2>3, <1>4 DEF IInv, TypeOK, Own
    <3>2. entry[v] \in loaded /\ Balanced(v)
      BY <3>1, <1>6 DEF IInv, Counted
    <3>3. cash'[entry[v]] = cash[entry[v]]
      BY <3>1, <2>3, <1>2, <1>7
    <3>4. \A q \in Procs : pc'[q] = "save" <=> pc[q] = "save"
      BY <1>1, <1>5
    <3>5. Saving(v)' <=> Saving(v)
      BY <3>1, <3>4 DEF Saving
    <3> QED
      BY <3>1, <3>2, <3>3, <3>4, <3>5, <1>7 DEF Balanced
  <2> QED
    BY <2>1, <2>2, <2>3
<1> QED
  BY <1>10, <1>11, <1>12, <1>13, <1>14, <1>15, <1>16 DEF IInv
\* Obtaining the lock of an object preserves the invariant.
LEMMA LockIInv ==
  ASSUME IInv, NEW p \in Procs, NEW u \in Users, Lock(p, u)
  PROVE  IInv'
<1> USE DEF Lock, database, call
<1> DEFINE o == ptr[p][u]
<1>1. ~Holds(p, u) /\ u \in want[p] /\ pc[p] = "lock" /\ kind[p] # "copy"
  BY DEF IsNext, Locked
<1>2. o \in Objects /\ o[2] = u /\ writer[o] = None
  BY DEF IInv, TypeOK, Own
<1>3. /\ writer'[o] = p
      /\ \A x \in Objects : x # o => writer'[x] = writer[x]
  BY <1>2 DEF IInv, TypeOK
<1>4. /\ \A q \in Procs : q # p => pc'[q] = pc[q]
      /\ pc'[p] \in {"work", "find"}
      /\ pc'[p] = "work" => want[p] \subseteq Locked(p) \cup {u}
  BY DEF IInv, TypeOK
<1>5. \A q \in Procs, v \in Users : Holds(q, v) => Holds(q, v)'
  <2> SUFFICES ASSUME NEW q \in Procs, NEW v \in Users, Holds(q, v)
               PROVE  Holds(q, v)'
    OBVIOUS
  <2>1. ptr[q][v] \in Objects /\ ptr[q][v] # o
    BY <1>2, NoneAssumption DEF Holds, IInv, TypeOK
  <2> QED
    BY <2>1, <1>3 DEF Holds
<1>6. Holds(p, u)'
  BY <1>2, <1>3, NoneAssumption DEF Holds
<1>7. TypeOK'
  <2>1. pc' \in [Procs -> {"find", "lock", "work", "save", "release", "done",
                          "reread", "store", "logout"}]
    BY DEF IInv, TypeOK
  <2>2. writer' \in [Objects -> Procs \cup {None}]
    BY DEF IInv, TypeOK
  <2> QED
    BY <2>1, <2>2 DEF IInv, TypeOK
<1>8. Own' /\ Shared'
  BY DEF IInv, Own, Shared
<1>9. Held'
  BY <1>1, <1>2, <1>3, <1>4, NoneAssumption DEF IInv, Held, Holding
<1>10. Working'
  <2> SUFFICES ASSUME NEW q \in Procs, pc'[q] \in {"work", "save"}, NEW v \in want[q]
               PROVE  Holds(q, v)'
    BY DEF Working
  <2>1. v \in Users
    BY DEF IInv, TypeOK
  <2>2. CASE q = p
    BY <2>1, <2>2, <1>4, <1>5, <1>6 DEF Locked
  <2>3. CASE q # p
    BY <2>1, <2>3, <1>4, <1>5 DEF IInv, Working
  <2> QED
    BY <2>2, <2>3
<1>11. Copying'
  BY <1>4 DEF IInv, Copying
<1>12. Counted'
  <2> SUFFICES ASSUME NEW v \in Users \ disturbed, entry[v] # None
               PROVE  Balanced(v)'
    BY DEF IInv, Counted
  <2>1. entry[v] \in Objects /\ Balanced(v)
    BY DEF IInv, TypeOK, Counted
  <2>2. \A q \in Procs : writer'[entry[v]] = q /\ pc'[q] = "save"
                           <=> writer[entry[v]] = q /\ pc[q] = "save"
    <3>1. CASE entry[v] = o
      BY <3>1, <1>2, <1>3, <1>4, NoneAssumption
    <3>2. CASE entry[v] # o
      BY <3>2, <2>1, <1>1, <1>3, <1>4
    <3> QED
      BY <3>1, <3>2
  <2> QED
    BY <2>1, <2>2 DEF Balanced, Saving
<1> QED
  BY <1>7, <1>8, <1>9, <1>10, <1>11, <1>12 DEF IInv

\* Releasing one lock preserves the invariant.
LEMMA UnlockIInv ==
  ASSUME IInv, NEW p \in Procs, NEW u \in Users, Unlock(p, u)
  PROVE  IInv'
<1> USE DEF Unlock, database, call
<1> DEFINE o == ptr[p][u]
<1>1. pc[p] = "release" /\ o \in Objects /\ writer[o] = p
  BY DEF Holds, IInv, TypeOK
<1>2. /\ writer'[o] = None
      /\ \A x \in Objects : x # o => writer'[x] = writer[x]
  BY <1>1 DEF IInv, TypeOK
<1>3. \A q \in Procs, v \in Users : q # p /\ Holds(q, v) => Holds(q, v)'
  <2> SUFFICES ASSUME NEW q \in Procs, NEW v \in Users, q # p, Holds(q, v)
               PROVE  Holds(q, v)'
    OBVIOUS
  <2>1. ptr[q][v] \in Objects /\ ptr[q][v] # o
    BY <1>1 DEF Holds, IInv, TypeOK
  <2> QED
    BY <2>1, <1>2 DEF Holds
<1>4. TypeOK'
  BY DEF IInv, TypeOK
<1>5. Own' /\ Shared'
  BY DEF IInv, Own, Shared
<1>6. Held'
  BY <1>2, NoneAssumption DEF IInv, Held
<1>7. Working'
  BY <1>1, <1>3 DEF IInv, TypeOK, Working
<1>8. Copying'
  BY DEF IInv, Copying
<1>9. Counted'
  <2> SUFFICES ASSUME NEW v \in Users \ disturbed, entry[v] # None
               PROVE  Balanced(v)'
    BY DEF IInv, Counted
  <2>1. entry[v] \in Objects /\ Balanced(v)
    BY DEF IInv, TypeOK, Counted
  <2>2. \A q \in Procs : writer'[entry[v]] = q /\ pc[q] = "save"
                           <=> writer[entry[v]] = q /\ pc[q] = "save"
    <3>1. CASE entry[v] = o
      BY <3>1, <1>1, <1>2, NoneAssumption
    <3>2. CASE entry[v] # o
      BY <3>2, <2>1, <1>2
    <3> QED
      BY <3>1, <3>2
  <2> QED
    BY <2>1, <2>2 DEF Balanced, Saving
<1> QED
  BY <1>4, <1>5, <1>6, <1>7, <1>8, <1>9 DEF IInv
\* A goroutine at work has an object of its own for each of its users; for a user
\* whose entry is undisturbed it is that of the map.
LEMMA AtWork ==
  ASSUME IInv, NEW p \in Procs, pc[p] \in {"work", "save"}
  PROVE  /\ \A u \in want[p] : /\ u \in Users /\ ptr[p][u] \in Objects
                               /\ ptr[p][u][2] = u /\ writer[ptr[p][u]] = p
         /\ \A u \in Users \ disturbed : entry[u] # None =>
              (Mine(p, entry[u]) <=> u \in want[p]) /\ (u \in want[p] <=> writer[entry[u]] = p)
         /\ \A u \in want[p] \ disturbed : entry[u] = ptr[p][u]
<1>1. ASSUME NEW u \in want[p]
      PROVE  /\ u \in Users /\ ptr[p][u] \in Objects
             /\ ptr[p][u][2] = u /\ writer[ptr[p][u]] = p /\ ptr[p][u] # None
  BY DEF IInv, TypeOK, Own, Working, Holds
<1>2. ASSUME NEW u \in want[p] \ disturbed
      PROVE  entry[u] = ptr[p][u]
  BY <1>1 DEF IInv, Shared
<1>3. ASSUME NEW u \in Users \ disturbed, entry[u] # None
      PROVE  (Mine(p, entry[u]) <=> u \in want[p]) /\ (u \in want[p] <=> writer[entry[u]] = p)
  <2>1. entry[u] \in Objects /\ entry[u][2] = u
    BY <1>3 DEF IInv, TypeOK, Own
  <2>2. u \in want[p] => Mine(p, entry[u]) /\ writer[entry[u]] = p
    BY <1>1, <1>2 DEF Mine
  <2>3. Mine(p, entry[u]) => u \in want[p]
    BY <1>1, <2>1 DEF Mine
  <2>4. writer[entry[u]] = p => u \in want[p]
    BY <2>1 DEF IInv, Held
  <2> QED
    BY <2>2, <2>3, <2>4
<1> QED
  BY <1>1, <1>2, <1>3

\* Changing the objects preserves the invariant.
LEMMA WorkIInv ==
  ASSUME IInv, NEW p \in Procs, Work(p)
  PROVE  IInv'
<1> USE DEF Work, database, call
<1>1. pc[p] = "work" /\ pc'[p] = "save" /\ \A q \in Procs : q # p => pc'[q] = pc[q]
  BY DEF IInv, TypeOK
<1>2. \A u \in want[p] : u \in Users /\ ptr[p][u] \in Objects /\ ptr[p][u][2] = u
  BY <1>1, AtWork
<1>3. TypeOK'
  <2>1. cash' \in [Objects -> Nat]
    BY DEF IInv, TypeOK
  <2>2. [u \in Users |-> IF u \in want[p] THEN cash[ptr[p][u]] ELSE 0] \in [Users -> Nat]
    BY <1>2 DEF IInv, TypeOK
  <2>3. old' \in [Procs -> [Users -> Nat]]
    BY <2>2 DEF IInv, TypeOK
  <2>4. pc' \in [Procs -> {"find", "lock", "work", "save", "release", "done",
                          "reread", "store", "logout"}]
    BY DEF IInv, TypeOK
  <2> QED
    BY <2>1, <2>3, <2>4 DEF IInv, TypeOK
<1>4. Own' /\ Shared'
  BY DEF IInv, Own, Shared
<1>5. Held'
  BY <1>1 DEF IInv, Held, Holding
<1>6. Working'
  BY <1>1 DEF IInv, Working, Holds
<1>7. Copying'
  BY <1>1 DEF IInv, Copying
<1>8. Counted'
  <2> SUFFICES ASSUME NEW v \in Users \ disturbed, entry[v] # None
               PROVE  Balanced(v)'
    BY DEF IInv, Counted
  <2>1. entry[v] \in Objects /\ Balanced(v)
    BY DEF IInv, TypeOK, Counted
  <2>2. (Mine(p, entry[v]) <=> v \in want[p]) /\ (v \in want[p] <=> writer[entry[v]] = p)
    BY <1>1, AtWork
  <2>3. CASE writer[entry[v]] = p
    <3>1. cash'[entry[v]] = cash[entry[v]] + 1
      BY <2>1, <2>2, <2>3
    <3>2. old'[p][v] = cash[entry[v]]
      BY <1>1, <2>2, <2>3, AtWork DEF IInv, TypeOK
    <3>3. ~Saving(v)
      BY <1>1, <2>3 DEF Saving
    <3> QED
      BY <1>1, <2>1, <2>3, <3>1, <3>2, <3>3 DEF Balanced, Saving
  <2>4. CASE writer[entry[v]] # p
    <3>1. cash'[entry[v]] = cash[entry[v]]
      BY <2>1, <2>2, <2>4
    <3>2. \A q \in Procs : writer[entry[v]] = q => pc'[q] = pc[q] /\ old'[q] = old[q]
      BY <1>1, <2>4 DEF IInv, TypeOK
    <3> QED
      BY <2>1, <3>1, <3>2 DEF Balanced, Saving
  <2> QED
    BY <2>3, <2>4
<1> QED
  BY <1>3, <1>4, <1>5, <1>6, <1>7, <1>8 DEF IInv

\* Committing them preserves the invariant.
LEMMA CommitIInv ==
  ASSUME IInv, NEW p \in Procs, Commit(p)
  PROVE  IInv'
<1> USE DEF Commit, objects, call
<1>1. pc[p] = "save" /\ pc'[p] = "release" /\ \A q \in Procs : q # p => pc'[q] = pc[q]
  BY DEF IInv, TypeOK
<1>2. TypeOK'
  <2>1. row' \in [Users -> Nat] /\ credited' \in [Users -> Nat]
    BY DEF IInv, TypeOK
  <2>2. pc' \in [Procs -> {"find", "lock", "work", "save", "release", "done",
                          "reread", "store", "logout"}]
    BY DEF IInv, TypeOK
  <2> QED
    BY <2>1, <2>2 DEF IInv, TypeOK
<1>3. Own' /\ Shared'
  BY DEF IInv, Own, Shared
<1>4. Held'
  BY <1>1 DEF IInv, Held, Holding
<1>5. Working'
  BY <1>1 DEF IInv, Working, Holds
<1>6. Copying'
  BY <1>1 DEF IInv, Copying
<1>7. Counted'
  <2> SUFFICES ASSUME NEW v \in Users \ disturbed
               PROVE  /\ row'[v] = credited'[v]
                      /\ entry[v] # None => entry[v] \in loaded /\ Balanced(v)'
    BY DEF Counted
  <2>1. row[v] = credited[v] /\ (entry[v] # None => entry[v] \in loaded /\ Balanced(v))
    BY DEF IInv, Counted
  <2>2. CASE v \in want[p]
    <3>1. entry[v] = ptr[p][v] /\ entry[v] # None /\ writer[entry[v]] = p
      BY <1>1, <2>2, AtWork, NoneAssumption DEF Objects
    <3>2. cash[entry[v]] = row[v] + 1 /\ entry[v] \in loaded
      BY <1>1, <2>1, <3>1 DEF Balanced
    <3>3. row'[v] = row[v] + 1 /\ credited'[v] = credited[v] + 1
      BY <2>2, <3>1, <3>2
    <3>4. \A q \in Procs : writer[entry[v]] = q => pc'[q] = "release"
      BY <1>1, <3>1
    <3> QED
      BY <2>1, <3>2, <3>3, <3>4 DEF Balanced, Saving
  <2>3. CASE v \notin want[p]
    <3>1. row'[v] = row[v] /\ credited'[v] = credited[v]
      BY <2>3
    <3>2. entry[v] # None => writer[entry[v]] # p
      BY <1>1, <2>3, AtWork
    <3>3. entry[v] # None => \A q \in Procs : writer[entry[v]] = q => pc'[q] = pc[q]
      BY <1>1, <3>2
    <3> QED
      BY <2>1, <3>1, <3>3 DEF Balanced, Saving
  <2> QED
    BY <2>2, <2>3
<1> QED
  BY <1>2, <1>3, <1>4, <1>5, <1>6, <1>7 DEF IInv
\* Putting the objects back preserves the invariant.
LEMMA RollbackIInv ==
  ASSUME IInv, NEW p \in Procs, Rollback(p)
  PROVE  IInv'
<1> USE DEF Rollback, database, call, Fault
<1>1. pc[p] = "save" /\ pc'[p] = "release" /\ \A q \in Procs : q # p => pc'[q] = pc[q]
  BY DEF IInv, TypeOK
<1>2. TypeOK'
  <2>1. cash' \in [Objects -> Nat]
    BY DEF IInv, TypeOK, Objects
  <2>2. pc' \in [Procs -> {"find", "lock", "work", "save", "release", "done",
                          "reread", "store", "logout"}]
    BY DEF IInv, TypeOK
  <2>3. faults' \in 0 .. MaxFaults
    BY FaultsAssumption DEF IInv, TypeOK
  <2> QED
    BY <2>1, <2>2, <2>3 DEF IInv, TypeOK
<1>3. Own' /\ Shared'
  BY DEF IInv, Own, Shared
<1>4. Held'
  BY <1>1 DEF IInv, Held, Holding
<1>5. Working'
  BY <1>1 DEF IInv, Working, Holds
<1>6. Copying'
  BY <1>1 DEF IInv, Copying
<1>7. Counted'
  <2> SUFFICES ASSUME NEW v \in Users \ disturbed, entry[v] # None
               PROVE  Balanced(v)'
    BY DEF IInv, Counted
  <2>1. entry[v] \in Objects /\ entry[v][2] = v /\ Balanced(v)
    BY DEF IInv, TypeOK, Own, Counted
  <2>2. (Mine(p, entry[v]) <=> v \in want[p]) /\ (v \in want[p] <=> writer[entry[v]] = p)
    BY <1>1, AtWork
  <2>3. CASE writer[entry[v]] = p
    <3>1. cash'[entry[v]] = old[p][v]
      BY <2>1, <2>2, <2>3
    <3>2. old[p][v] = row[v]
      BY <1>1, <2>1, <2>3 DEF Balanced
    <3>3. \A q \in Procs : writer[entry[v]] = q => pc'[q] = "release"
      BY <1>1, <2>3
    <3> QED
      BY <3>1, <3>2, <3>3 DEF Balanced, Saving
  <2>4. CASE writer[entry[v]] # p
    <3>1. cash'[entry[v]] = cash[entry[v]]
      BY <2>1, <2>2, <2>4
    <3>2. \A q \in Procs : writer[entry[v]] = q => pc'[q] = pc[q]
      BY <1>1, <2>4
    <3> QED
      BY <2>1, <3>1, <3>2 DEF Balanced, Saving
  <2> QED
    BY <2>3, <2>4
<1> QED
  BY <1>2, <1>3, <1>4, <1>5, <1>6, <1>7 DEF IInv

\* A step of a goroutine p that is not between changing and saving, and that changes
\* none of the maps, the locks, the objects and the rows, preserves what the other
\* conjuncts say.
LEMMA LocalStep ==
  ASSUME IInv, NEW p \in Procs, UNCHANGED <<entry, writer, cash, loaded, row, credited,
           kind, want, ptr, disturbed>>,
         pc[p] \notin {"work", "save"}, pc'[p] \notin {"work", "save"},
         (\E o \in Objects : writer[o] = p) => pc'[p] \in Holding,
         \A q \in Procs : q # p => pc'[q] = pc[q] /\ old'[q] = old[q]
  PROVE  Own' /\ Shared' /\ Held' /\ Working' /\ Counted'
<1>1. Own' /\ Shared'
  BY DEF IInv, Own, Shared
<1>2. Held'
  BY DEF IInv, Held
<1>3. Working'
  BY DEF IInv, Working, Holds
<1>4. Counted'
  <2> SUFFICES ASSUME NEW v \in Users \ disturbed, entry[v] # None
               PROVE  Balanced(v)'
    BY DEF IInv, Counted
  <2>1. Balanced(v)
    BY DEF IInv, Counted
  <2>2. \A q \in Procs : pc'[q] = "save" => pc[q] = "save" /\ old'[q] = old[q]
    OBVIOUS
  <2>3. \A q \in Procs : pc[q] = "save" => pc'[q] = "save"
    OBVIOUS
  <2> QED
    BY <2>1, <2>2, <2>3 DEF Balanced, Saving
<1> QED
  BY <1>1, <1>2, <1>3, <1>4

\* GetUserCopy's second read preserves the invariant.
LEMMA RereadIInv ==
  ASSUME IInv, NEW p \in Procs, NEW u \in Users, Reread(p, u)
  PROVE  IInv'
<1> USE DEF Reread, objects, database, call, Fault
<1>1. /\ pc[p] = "reread" /\ pc'[p] \in {"store", "release"}
      /\ \A q \in Procs : q # p => pc'[q] = pc[q] /\ old'[q] = old[q]
  BY DEF IInv, TypeOK
<1>2. ~ \E o \in Objects : writer[o] = p
  BY <1>1 DEF IInv, Held, Holding
<1>3. TypeOK'
  <2>1. old' \in [Procs -> [Users -> Nat]]
    <3>1. row[u] \in Nat /\ old \in [Procs -> [Users -> Nat]]
      BY DEF IInv, TypeOK
    <3>2. old' = [old EXCEPT ![p] = [old[p] EXCEPT ![u] = row[u]]] \/ old' = old
      BY DEF Reread
    <3>3. [old[p] EXCEPT ![u] = row[u]] \in [Users -> Nat]
      BY <3>1
    <3> QED
      BY <3>1, <3>2, <3>3
  <2>2. pc' \in [Procs -> {"find", "lock", "work", "save", "release", "done",
                          "reread", "store", "logout"}]
    BY DEF IInv, TypeOK
  <2>3. faults' \in 0 .. MaxFaults
    BY FaultsAssumption DEF IInv, TypeOK
  <2> QED
    BY <2>1, <2>2, <2>3 DEF IInv, TypeOK
<1>4. Own' /\ Shared' /\ Held' /\ Working' /\ Counted'
  BY <1>1, <1>2, LocalStep
<1>5. Copying'
  BY <1>1 DEF IInv, Copying
<1> QED
  BY <1>3, <1>4, <1>5 DEF IInv

\* GetUserCopy's write preserves the invariant: the user is disturbed.
LEMMA StoreIInv ==
  ASSUME IInv, NEW p \in Procs, NEW u \in Users, Store(p, u)
  PROVE  IInv'
<1> USE DEF Store, database, call
<1> DEFINE o == ptr[p][u]
<1>1. /\ pc[p] = "store" /\ pc'[p] = "lock"
      /\ \A q \in Procs : q # p => pc'[q] = pc[q]
  BY DEF IInv, TypeOK
<1>2. u \in disturbed /\ o \in Objects /\ o[2] = u
  BY <1>1 DEF IInv, Copying, TypeOK, Own
<1>3. loaded \subseteq loaded' /\ \A x \in Objects : x # o => cash'[x] = cash[x]
  BY DEF IInv, TypeOK
<1>4. TypeOK'
  <2>1. cash' \in [Objects -> Nat] /\ loaded' \subseteq Objects
    BY <1>2 DEF IInv, TypeOK
  <2>2. pc' \in [Procs -> {"find", "lock", "work", "save", "release", "done",
                          "reread", "store", "logout"}]
    BY DEF IInv, TypeOK
  <2> QED
    BY <2>1, <2>2 DEF IInv, TypeOK
<1>5. Own' /\ Shared'
  BY DEF IInv, Own, Shared
<1>6. Held'
  BY <1>1 DEF IInv, Held, Holding
<1>7. Working'
  BY <1>1 DEF IInv, Working, Holds
<1>8. Copying'
  BY <1>1 DEF IInv, Copying
<1>9. Counted'
  <2> SUFFICES ASSUME NEW v \in Users \ disturbed, entry[v] # None
               PROVE  entry[v] \in loaded' /\ Balanced(v)'
    BY DEF IInv, Counted
  <2>1. entry[v] \in loaded /\ entry[v] \in Objects /\ entry[v][2] = v /\ Balanced(v)
    BY DEF IInv, TypeOK, Own, Counted
  <2>2. cash'[entry[v]] = cash[entry[v]]
    BY <1>2, <1>3, <2>1
  <2>3. \A q \in Procs : pc'[q] = "save" <=> pc[q] = "save"
    BY <1>1
  <2> QED
    BY <1>3, <2>1, <2>2, <2>3 DEF Balanced, Saving
<1> QED
  BY <1>4, <1>5, <1>6, <1>7, <1>8, <1>9 DEF IInv

\* Reading the copy preserves the invariant.
LEMMA CopyIInv ==
  ASSUME IInv, NEW p \in Procs, NEW u \in Users, Copy(p, u)
  PROVE  IInv'
<1> USE DEF Copy, objects, database, call
<1>1. /\ pc[p] = "lock" /\ pc'[p] = "release"
      /\ \A q \in Procs : q # p => pc'[q] = pc[q]
  BY DEF IInv, TypeOK
<1>2. TypeOK'
  BY DEF IInv, TypeOK
<1>3. Own' /\ Shared' /\ Held' /\ Working' /\ Counted'
  BY <1>1, LocalStep DEF Holding
<1>4. Copying'
  BY <1>1 DEF IInv, Copying
<1> QED
  BY <1>2, <1>3, <1>4 DEF IInv

\* Logout preserves the invariant: the user is disturbed.
LEMMA LogoutIInv ==
  ASSUME IInv, NEW p \in Procs, NEW u \in Users, Logout(p, u)
  PROVE  IInv'
<1> USE DEF Logout, objects, database, call
<1>1. /\ pc[p] = "logout" /\ pc'[p] = "release"
      /\ \A q \in Procs : q # p => pc'[q] = pc[q]
  BY DEF IInv, TypeOK
<1>2. \A v \in Users \ disturbed' : entry'[v] = entry[v] /\ v \in Users \ disturbed
  BY DEF IInv, TypeOK
<1>3. TypeOK'
  BY DEF IInv, TypeOK
<1>4. Own'
  BY DEF IInv, TypeOK, Own
<1>5. Shared'
  BY <1>2 DEF IInv, Shared
<1>6. Held'
  BY <1>1 DEF IInv, Held, Holding
<1>7. Working'
  BY <1>1 DEF IInv, Working, Holds
<1>8. Copying'
  BY <1>1 DEF IInv, Copying
<1>9. Counted'
  <2> SUFFICES ASSUME NEW v \in Users \ disturbed', entry[v] # None
               PROVE  entry[v] \in loaded /\ Balanced(v)'
    BY <1>2 DEF IInv, Counted
  <2>1. entry[v] \in loaded /\ Balanced(v)
    BY <1>2 DEF IInv, Counted
  <2>2. \A q \in Procs : pc'[q] = "save" <=> pc[q] = "save"
    BY <1>1
  <2> QED
    BY <1>2, <2>1, <2>2 DEF Balanced, Saving
<1> QED
  BY <1>3, <1>4, <1>5, <1>6, <1>7, <1>8, <1>9 DEF IInv

\* The end of a goroutine, which holds no lock, preserves the invariant.
LEMMA EndIInv ==
  ASSUME IInv, NEW p \in Procs, End(p)
  PROVE  IInv'
<1> USE DEF End, objects, database, call
<1>1. /\ pc[p] = "release" /\ pc'[p] = "done"
      /\ \A q \in Procs : q # p => pc'[q] = pc[q] /\ ptr'[q] = ptr[q] /\ old'[q] = old[q]
      /\ \A v \in Users : ptr'[p][v] = None
  BY DEF IInv, TypeOK
<1>2. \A o \in Objects : writer[o] # p
  <2> SUFFICES ASSUME NEW o \in Objects, writer[o] = p
               PROVE  FALSE
    OBVIOUS
  <2>1. ptr[p][o[2]] = o /\ o[2] \in Users /\ o # None
    BY NoneAssumption DEF IInv, Held, Objects
  <2> QED
    BY <2>1 DEF Locked, Holds
<1>3. TypeOK'
  <2>1. ptr' \in [Procs -> [Users -> Objects \cup {None}]] /\ old' \in [Procs -> [Users -> Nat]]
    BY DEF IInv, TypeOK
  <2>2. pc' \in [Procs -> {"find", "lock", "work", "save", "release", "done",
                          "reread", "store", "logout"}]
    BY DEF IInv, TypeOK
  <2> QED
    BY <2>1, <2>2 DEF IInv, TypeOK
<1>4. Own'
  BY <1>1 DEF IInv, Own
<1>5. Shared'
  BY <1>1 DEF IInv, Shared
<1>6. Held'
  BY <1>1, <1>2 DEF IInv, Held
<1>7. Working'
  BY <1>1 DEF IInv, Working, Holds
<1>8. Copying'
  BY <1>1 DEF IInv, Copying
<1>9. Counted'
  <2> SUFFICES ASSUME NEW v \in Users \ disturbed, entry[v] # None
               PROVE  Balanced(v)'
    BY DEF IInv, Counted
  <2>1. entry[v] \in Objects /\ Balanced(v)
    BY DEF IInv, TypeOK, Counted
  <2>2. \A q \in Procs : writer[entry[v]] = q => pc'[q] = pc[q] /\ old'[q] = old[q]
    BY <1>1, <1>2, <2>1
  <2> QED
    BY <2>1, <2>2 DEF Balanced, Saving
<1> QED
  BY <1>3, <1>4, <1>5, <1>6, <1>7, <1>8, <1>9 DEF IInv

\* The invariant is inductive: every step of every goroutine preserves it.
LEMMA NextIInv == IInv /\ [Next]_vars => IInv'
<1> SUFFICES ASSUME IInv, [Next]_vars PROVE IInv'
  OBVIOUS
<1>1. CASE UNCHANGED vars
  BY <1>1 DEF vars, IInv, TypeOK, Own, Shared, Held, Holds, Working, Copying, Counted,
              Balanced, Saving
<1>2. ASSUME NEW p \in Procs, NEW u \in Users,
             Find(p, u) \/ Load(p, u) \/ Lock(p, u) \/ Unlock(p, u)
             \/ Reread(p, u) \/ Store(p, u) \/ Copy(p, u) \/ Logout(p, u)
      PROVE  IInv'
  BY <1>2, FindIInv, LoadIInv, LockIInv, UnlockIInv, RereadIInv, StoreIInv, CopyIInv,
     LogoutIInv
<1>3. ASSUME NEW p \in Procs, Work(p) \/ Commit(p) \/ Rollback(p) \/ End(p)
      PROVE  IInv'
  BY <1>3, WorkIInv, CommitIInv, RollbackIInv, EndIInv
<1> QED
  BY <1>1, <1>2, <1>3 DEF Next, Step, Terminated

\* IInv holds in every behaviour of the users' locks.
THEOREM LocksInvariant == Spec => []IInv
BY InitIInv, NextIInv, PTL DEF Spec

\* The locks exclude: at most one goroutine works on a user whose entry was made by
\* getUserExclusively and has stayed in the map.
THEOREM LocksExclude == Spec => []MutualExclusion
<1>1. IInv => MutualExclusion
  <2> SUFFICES ASSUME IInv, NEW u \in Users \ disturbed, NEW p \in Procs, NEW q \in Procs,
                      Holds(p, u), Holds(q, u)
               PROVE  p = q
    BY DEF MutualExclusion
  <2>1. ptr[p][u] = entry[u] /\ ptr[q][u] = entry[u]
    BY DEF IInv, Shared, Holds
  <2> QED
    BY <2>1 DEF Holds
<1> QED
  BY <1>1, LocksInvariant, PTL

\* No committed update of such a user is overwritten, and none that was rolled back
\* reaches the database later.
THEOREM UpdatesCount == Spec => []EveryUpdateCounts
<1>1. IInv => EveryUpdateCounts
  BY DEF IInv, Counted, EveryUpdateCounts
<1> QED
  BY <1>1, LocksInvariant, PTL
=============================================================================
