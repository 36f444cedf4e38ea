------------------------- MODULE DelayedWritesProofs -------------------------
(***************************************************************************)
(* What DelayedWrites promises, proved for every set of objects and        *)
(* managers, all intervals and any statements that fail.  The argument is  *)
(* about one object at a time: at most one batch of it is anywhere between *)
(* Update and the callback, an entry of the map knows whether there is     *)
(* one, and as long as there is one the entry stays where it is.           *)
(***************************************************************************)
EXTENDS DelayedWrites, TLAPS

\* The batch of an object is in the queue, or its callback in the other one, but never
\* two of them; an entry says whether it is so, and without an entry there is none.
OneBatch(o) ==
  /\ sqlQueue[o] # << >> => results[o] = 0 /\ Len(sqlQueue[o]) = 1
  /\ cached[o] => (inPersistence[o] <=> sqlQueue[o] # << >> \/ results[o] > 0)
  /\ ~cached[o] /\ manager[ManagerOf[o]] = "open" =>
       sqlQueue[o] = << >> /\ results[o] = 0 /\ ~inPersistence[o]

\* Versions grow from the database over the queue to the memory.
Growing(o) ==
  /\ object[o] <= newest[o] /\ stored[o] <= newest[o]
  /\ cached[o] => stored[o] <= object[o]
  /\ sqlQueue[o] # << >> => Head(sqlQueue[o]) <= newest[o]
  /\ cached[o] /\ sqlQueue[o] # << >> =>
       stored[o] <= Head(sqlQueue[o]) /\ Head(sqlQueue[o]) <= object[o]

\* What the database holds once the queue is empty.
Final(o) == IF sqlQueue[o] = << >> THEN stored[o] ELSE Head(sqlQueue[o])

\* An entry that is neither held nor marked is as the database will have it; an object
\* without an entry is in the database as it was left, or will be.
Kept(o) ==
  /\ cached[o] \/ manager[ManagerOf[o]] = "open" => ~overtaken[o]
  /\ ~cached[o] \/ manager[ManagerOf[o]] # "open" => useCount[o] = 0
  /\ ~cached[o] => ~dirty[o]
  /\ cached[o] /\ ~dropped[o] => object[o] = newest[o]
  /\ cached[o] /\ useCount[o] = 0 /\ ~dirty[o] /\ ~dropped[o] => Final(o) = object[o]
  /\ ~cached[o] /\ ~dropped[o] /\ ~overtaken[o] => Final(o) = newest[o]

EntryInv(o) == OneBatch(o) /\ Growing(o) /\ Kept(o)

\* The order of the end: objects, managers, thread.
Ends ==
  /\ \A o \in Objects : manager[ManagerOf[o]] = "closed" => ~cached[o]
  /\ thread # "running" => \A m \in Managers : manager[m] = "closed"
  /\ thread = "stopped" => Drained

CacheInv ==
  /\ CacheTypeOK
  /\ \A o \in Objects : EntryInv(o)
  /\ Ends
  /\ AssertOnlyAfterShutdown

-----------------------------------------------------------------------------
(* Types.                                                                  *)

\* A save leaves two numbers per object in place.
LEMMA SaveType ==
  ASSUME CacheTypeOK, NEW o \in Objects, NEW v \in Nat, Save(o, v)
  PROVE  stored' \in [Objects -> Nat] /\ dropped' \in [Objects -> BOOLEAN]
  <1>1. stored \in [Objects -> Nat] /\ dropped \in [Objects -> BOOLEAN]
    BY DEF CacheTypeOK
  <1>2. CASE stored' = [stored EXCEPT ![o] = v] /\ UNCHANGED dropped
    BY <1>1, <1>2
  <1>3. CASE dropped' = [dropped EXCEPT ![o] = TRUE] /\ UNCHANGED stored
    BY <1>1, <1>3
  <1> QED BY <1>2, <1>3 DEF Save

\* What Update makes of the maps of all objects.
LEMMA UpdateType ==
  ASSUME CacheTypeOK, NEW m \in Managers, Update(m)
  PROVE  CacheTypeOK'
  <1>1. CASE m \in AutoManagers /\ AssertFails
    BY <1>1 DEF CacheTypeOK, Update, entryVars, queueVars
  <1>2. CASE ~(m \in AutoManagers /\ AssertFails)
    <2>1. /\ cached' \in [Objects -> BOOLEAN] /\ dirty' \in [Objects -> BOOLEAN]
          /\ inPersistence' \in [Objects -> BOOLEAN]
      <3>1. /\ cached' = [o \in Objects |-> cached[o] /\ ~Removes(m, o)]
            /\ dirty' = [o \in Objects |-> dirty[o] /\ ~Saves(m, o)]
            /\ inPersistence' = [o \in Objects |-> InNow(m, o) \/ Saves(m, o)]
        BY <1>2 DEF Update
      <3>2. \A o \in Objects : /\ (cached[o] /\ ~Removes(m, o)) \in BOOLEAN
                               /\ (dirty[o] /\ ~Saves(m, o)) \in BOOLEAN
                               /\ (InNow(m, o) \/ Saves(m, o)) \in BOOLEAN
        OBVIOUS
      <3> QED BY <3>1, <3>2, Zenon
    <2>2. object' \in [Objects -> Nat] /\ age' \in [Objects -> Nat]
      <3>1. \A o \in Objects : object[o] \in Nat /\ SinceNow(m, o) \in Nat
        BY DEF CacheTypeOK, SinceNow, AgeNow
      <3>2. /\ object' = [o \in Objects |-> IF Removes(m, o) THEN 0 ELSE object[o]]
            /\ age' = [o \in Objects |-> IF Removes(m, o) THEN 0 ELSE SinceNow(m, o)]
        BY <1>2 DEF Update
      <3> QED BY <3>1, <3>2
    <2>3. sqlQueue' \in [Objects -> Seq(Nat)]
      <3>1. \A o \in Objects :
              sqlQueue[o] \in Seq(Nat) /\ Append(sqlQueue[o], object[o]) \in Seq(Nat)
        BY DEF CacheTypeOK
      <3>2. sqlQueue' = [o \in Objects |->
                           IF Saves(m, o) THEN Append(sqlQueue[o], object[o]) ELSE sqlQueue[o]]
        BY <1>2 DEF Update
      <3> QED BY <3>1, <3>2
    <2>4. results' \in [Objects -> Nat]
      BY <1>2, SMTT(30) DEF Update, CacheTypeOK
    <2> QED BY <1>2, <2>1, <2>2, <2>3, <2>4 DEF CacheTypeOK, Update, endVars
  <1> QED BY <1>1, <1>2

LEMMA ShutdownType ==
  ASSUME CacheTypeOK, NEW m \in Managers, Shutdown(m)
  PROVE  CacheTypeOK'
  <1>1. CASE AssertFails
    BY <1>1 DEF CacheTypeOK, Shutdown
  <1>2. CASE ~AssertFails
    <2>1. /\ inPersistence' = [o \in Objects |-> StillIn(o)]
          /\ age' = [o \in Objects |-> AgeNow(o)]
          /\ results' = [o \in Objects |-> 0]
          /\ manager' = [manager EXCEPT ![m] = "closing"]
      BY <1>2 DEF Shutdown
    <2>2. inPersistence' \in [Objects -> BOOLEAN]
      <3>1. \A o \in Objects : StillIn(o) \in BOOLEAN
        BY Zenon DEF StillIn
      <3> QED BY <2>1, <3>1
    <2>3. age' \in [Objects -> Nat]
      <3>1. \A o \in Objects : AgeNow(o) \in Nat
        BY DEF CacheTypeOK, AgeNow
      <3> QED BY <2>1, <3>1
    <2>4. /\ results' \in [Objects -> Nat]
          /\ manager' \in [Managers -> {"open", "closing", "closed"}]
      BY <2>1 DEF CacheTypeOK
    <2>5. UNCHANGED <<cached, object, useCount, dirty, stored, sqlQueue, thread, overtaken,
                      newest, dropped, halted>>
      BY <1>2 DEF Shutdown
    <2> QED BY <2>2, <2>3, <2>4, <2>5 DEF CacheTypeOK
  <1> QED BY <1>1, <1>2

\* The variables have their types in every step.
LEMMA CacheTypeStep ==
  ASSUME CacheTypeOK, [CacheNext]_cacheVars
  PROVE  CacheTypeOK'
  <1> USE CacheAssumption
  <1>1. ASSUME NEW o \in Objects, Attach(o) PROVE CacheTypeOK'
    BY <1>1 DEF CacheTypeOK, Attach, queueVars, endVars
  <1>2. ASSUME NEW o \in Objects, FindInCache(o) PROVE CacheTypeOK'
    BY <1>2 DEF CacheTypeOK, FindInCache, queueVars, endVars
  <1>3. ASSUME NEW o \in Objects, Change(o) PROVE CacheTypeOK'
    BY <1>3, SMTT(30) DEF CacheTypeOK, Change, queueVars, endVars
  <1>4. ASSUME NEW o \in Objects, Release(o) PROVE CacheTypeOK'
    BY <1>4, SMTT(30) DEF CacheTypeOK, Release, DirtyAfterRelease, queueVars, endVars
  <1>5. ASSUME NEW o \in Objects, Execute(o) PROVE CacheTypeOK'
    <2>1. /\ sqlQueue[o] \in Seq(Nat) /\ sqlQueue[o] # << >>
          /\ Head(sqlQueue[o]) \in Nat /\ Tail(sqlQueue[o]) \in Seq(Nat)
      BY <1>5 DEF CacheTypeOK, Execute
    <2>2. stored' \in [Objects -> Nat] /\ dropped' \in [Objects -> BOOLEAN]
      BY <1>5, <2>1, SaveType DEF Execute
    <2>3. sqlQueue' \in [Objects -> Seq(Nat)] /\ results' \in [Objects -> Nat]
      BY <1>5, <2>1 DEF CacheTypeOK, Execute
    <2> QED BY <1>5, <2>2, <2>3 DEF CacheTypeOK, Execute, entryVars, endVars
  <1>6. ASSUME NEW o \in Objects, ShutdownObject(o) PROVE CacheTypeOK'
    <2>1. stored' \in [Objects -> Nat] /\ dropped' \in [Objects -> BOOLEAN]
      BY <1>6, SaveType DEF CacheTypeOK, ShutdownObject
    <2>2. overtaken' \in [Objects -> BOOLEAN]
      BY <1>6 DEF CacheTypeOK, ShutdownObject
    <2> QED BY <1>6, <2>1, <2>2 DEF CacheTypeOK, ShutdownObject
  <1>7. ASSUME NEW m \in Managers, ShutdownEnd(m) PROVE CacheTypeOK'
    BY <1>7 DEF CacheTypeOK, ShutdownEnd, entryVars, queueVars
  <1>8. CASE CacheTick
    BY <1>8, SMTT(30) DEF CacheTypeOK, CacheTick, queueVars, endVars
  <1>9. CASE StopServer
    BY <1>9 DEF CacheTypeOK, StopServer, entryVars, queueVars
  <1>10. CASE ThreadEnds
    BY <1>10 DEF CacheTypeOK, ThreadEnds, entryVars
  <1>11. CASE UNCHANGED cacheVars
    BY <1>11 DEF CacheTypeOK, cacheVars, entryVars, queueVars, endVars
  <1> QED BY <1>1, <1>2, <1>3, <1>4, <1>5, <1>6, <1>7, <1>8, <1>9, <1>10, <1>11,
             UpdateType, ShutdownType DEF CacheNext

-----------------------------------------------------------------------------
(* One object over one step.                                               *)

\* An object whose parts a step leaves alone stays as it should be; that its age grows
\* makes no difference.
LEMMA Untouched ==
  ASSUME NEW o \in Objects, EntryInv(o),
         cached'[o] = cached[o], object'[o] = object[o], useCount'[o] = useCount[o],
         dirty'[o] = dirty[o], inPersistence'[o] = inPersistence[o],
         stored'[o] = stored[o], sqlQueue'[o] = sqlQueue[o], results'[o] = results[o],
         manager'[ManagerOf[o]] = manager[ManagerOf[o]], newest'[o] = newest[o],
         dropped'[o] = dropped[o], overtaken'[o] = overtaken[o]
  PROVE  EntryInv(o)'
  BY DEF EntryInv, OneBatch, Growing, Kept, Final

\* The users: whoever takes an object that is not in the map loads it as it was left.
LEMMA AttachKeeps ==
  ASSUME CacheTypeOK, NEW o \in Objects, EntryInv(o), NEW p \in Objects, Attach(p)
  PROVE  EntryInv(o)'
  <1> USE CacheAssumption DEF CacheTypeOK
  <1>1. CASE o # p
    BY <1>1, Untouched DEF Attach, queueVars, endVars
  <1>2. CASE o = p
    <2>1. /\ cached'[o] /\ useCount'[o] = useCount[o] + 1 /\ manager[ManagerOf[o]] = "open"
          /\ object'[o] = IF cached[o] THEN object[o] ELSE stored[o]
          /\ UNCHANGED <<dirty, inPersistence, stored, sqlQueue, results, manager, overtaken,
                         newest, dropped>>
      BY <1>2 DEF Attach, Working, queueVars, endVars
    <2>2. OneBatch(o)'
      BY <2>1 DEF EntryInv, OneBatch
    <2>3. Growing(o)'
      BY <2>1, SMTT(30) DEF EntryInv, OneBatch, Growing
    <2>4. Kept(o)'
      BY <2>1, SMTT(30) DEF EntryInv, OneBatch, Kept, Final
    <2> QED BY <2>2, <2>3, <2>4 DEF EntryInv
  <1> QED BY <1>1, <1>2

LEMMA FindKeeps ==
  ASSUME CacheTypeOK, NEW o \in Objects, EntryInv(o), NEW p \in Objects, FindInCache(p)
  PROVE  EntryInv(o)'
  <1> USE CacheAssumption DEF CacheTypeOK
  <1>1. CASE o # p
    BY <1>1, Untouched DEF FindInCache, queueVars, endVars
  <1>2. CASE o = p
    <2>1. /\ cached[o] /\ useCount'[o] = useCount[o] + 1 /\ manager[ManagerOf[o]] = "open"
          /\ UNCHANGED <<cached, object, dirty, inPersistence, stored, sqlQueue, results, manager,
                         overtaken, newest, dropped>>
      BY <1>2 DEF FindInCache, Working, queueVars, endVars
    <2> QED BY <2>1 DEF EntryInv, OneBatch, Growing, Kept, Final
  <1> QED BY <1>1, <1>2

LEMMA ChangeKeeps ==
  ASSUME CacheTypeOK, NEW o \in Objects, EntryInv(o), NEW p \in Objects, Change(p)
  PROVE  EntryInv(o)'
  <1> USE CacheAssumption DEF CacheTypeOK
  <1>1. CASE o # p
    BY <1>1, Untouched DEF Change, queueVars, endVars
  <1>2. CASE o = p
    <2>1. /\ useCount[o] > 0 /\ manager[ManagerOf[o]] = "open"
          /\ newest'[o] = newest[o] + 1 /\ object'[o] = newest[o] + 1
          /\ UNCHANGED <<cached, useCount, dirty, inPersistence, stored, sqlQueue, results, manager,
                         overtaken, dropped>>
      BY <1>2 DEF Change, Working, queueVars, endVars
    <2>2. cached[o]
      BY <2>1 DEF EntryInv, Kept
    <2>3. sqlQueue[o] # << >> => Head(sqlQueue[o]) \in Nat
      BY SMTT(30)
    <2>4. OneBatch(o)' /\ Growing(o)'
      BY <2>1, <2>2, <2>3, SMTT(30) DEF EntryInv, OneBatch, Growing
    <2>5. Kept(o)'
      BY <2>1, <2>2 DEF EntryInv, Kept
    <2> QED BY <2>4, <2>5 DEF EntryInv
  <1> QED BY <1>1, <1>2

LEMMA ReleaseKeeps ==
  ASSUME CacheTypeOK, NEW o \in Objects, EntryInv(o), NEW p \in Objects, Release(p)
  PROVE  EntryInv(o)'
  <1> USE CacheAssumption DEF CacheTypeOK
  <1>1. CASE o # p
    BY <1>1, Untouched DEF Release, queueVars, endVars
  <1>2. CASE o = p
    <2>1. /\ useCount[o] > 0 /\ manager[ManagerOf[o]] = "open"
          /\ dirty'[o] /\ useCount'[o] = useCount[o] - 1
          /\ UNCHANGED <<cached, object, inPersistence, stored, sqlQueue, results, manager,
                         overtaken, newest, dropped>>
      BY <1>2 DEF Release, Working, DirtyAfterRelease, queueVars, endVars
    <2> QED BY <2>1 DEF EntryInv, OneBatch, Growing, Kept, Final
  <1> QED BY <1>1, <1>2

\* Update: an entry is saved or removed only when no batch of it is on its way, and the
\* entry that is removed is in the database already.
LEMMA UpdateKeeps ==
  ASSUME CacheTypeOK, NEW o \in Objects, EntryInv(o), NEW m \in Managers, Update(m)
  PROVE  EntryInv(o)'
  <1> USE CacheAssumption
  <1>1. CASE m \in AutoManagers /\ AssertFails
    BY <1>1, Untouched DEF Update, entryVars, queueVars
  <1>2. CASE ~(m \in AutoManagers /\ AssertFails)
    <2> DEFINE left == IF m \in AutoManagers THEN 0 ELSE results[o]
    <2>1. /\ cached'[o] = (cached[o] /\ ~Removes(m, o))
          /\ object'[o] = IF Removes(m, o) THEN 0 ELSE object[o]
          /\ dirty'[o] = (dirty[o] /\ ~Saves(m, o))
          /\ inPersistence'[o] = (InNow(m, o) \/ Saves(m, o))
          /\ sqlQueue'[o] = IF Saves(m, o) THEN Append(sqlQueue[o], object[o]) ELSE sqlQueue[o]
          /\ results'[o] = left
          /\ UNCHANGED <<useCount, stored, manager, overtaken, newest, dropped>>
      <3>1. /\ cached' = [x \in Objects |-> cached[x] /\ ~Removes(m, x)]
            /\ object' = [x \in Objects |-> IF Removes(m, x) THEN 0 ELSE object[x]]
            /\ dirty' = [x \in Objects |-> dirty[x] /\ ~Saves(m, x)]
            /\ inPersistence' = [x \in Objects |-> InNow(m, x) \/ Saves(m, x)]
            /\ sqlQueue' = [x \in Objects |->
                              IF Saves(m, x) THEN Append(sqlQueue[x], object[x]) ELSE sqlQueue[x]]
            /\ results' = IF m \in AutoManagers THEN [x \in Objects |-> 0] ELSE results
            /\ UNCHANGED <<useCount, stored, manager, overtaken, newest, dropped>>
        BY <1>2, Zenon DEF Update, endVars
      <3> QED BY <3>1, Zenon
    <2>2. /\ Saves(m, o) => cached[o] /\ ~InNow(m, o) /\ (useCount[o] > 0 \/ dirty[o])
          /\ Removes(m, o) => cached[o] /\ ~InNow(m, o) /\ useCount[o] = 0 /\ ~dirty[o]
          /\ Saves(m, o) \/ Removes(m, o) => manager[ManagerOf[o]] = "open"
          /\ ~(Saves(m, o) /\ Removes(m, o))
      BY DEF Saves, Removes, Update, Working, CacheTypeOK
    <2>3. InNow(m, o) <=> inPersistence[o] /\ (m \in AutoManagers => results[o] = 0)
      BY DEF InNow, StillIn, Completed, CacheTypeOK
    <2>4. /\ results[o] \in Nat /\ object[o] \in Nat /\ stored[o] \in Nat /\ newest[o] \in Nat
          /\ useCount[o] \in Nat /\ sqlQueue[o] \in Seq(Nat)
          /\ cached[o] \in BOOLEAN /\ dirty[o] \in BOOLEAN /\ dropped[o] \in BOOLEAN
          /\ overtaken[o] \in BOOLEAN /\ inPersistence[o] \in BOOLEAN
      BY DEF CacheTypeOK
    <2>5. cached[o] /\ ~InNow(m, o) => sqlQueue[o] = << >> /\ left = 0
      BY <2>3, <2>4 DEF EntryInv, OneBatch
    <2>6. Saves(m, o) => /\ sqlQueue'[o] # << >> /\ Len(sqlQueue'[o]) = 1
                         /\ Head(sqlQueue'[o]) = object[o]
      <3>1. ASSUME NEW v \in Nat
            PROVE  Append(<< >>, v) # << >> /\ Len(Append(<< >>, v)) = 1
                     /\ Head(Append(<< >>, v)) = v
        OBVIOUS
      <3>2. Saves(m, o) => sqlQueue'[o] = Append(<< >>, object[o])
        BY <2>1, <2>2, <2>5, Zenon
      <3> QED BY <2>4, <3>1, <3>2, Zenon
    <2>7. cached[o] => (InNow(m, o) <=> sqlQueue[o] # << >> \/ left > 0)
      BY <2>3, <2>4 DEF EntryInv, OneBatch
    <2>8. CASE Saves(m, o)
      <3>1. /\ cached[o] /\ cached'[o] /\ object'[o] = object[o] /\ ~dirty'[o]
            /\ inPersistence'[o] /\ results'[o] = 0
        BY <2>1, <2>2, <2>5, <2>8
      <3>2. OneBatch(o)'
        BY <2>6, <2>8, <3>1 DEF OneBatch
      <3>3. Growing(o)'
        BY <2>1, <2>4, <2>6, <2>8, <3>1 DEF EntryInv, Growing
      <3>4. Kept(o)'
        BY <2>1, <2>2, <2>4, <2>6, <2>8, <3>1 DEF EntryInv, Kept, Final
      <3> QED BY <3>2, <3>3, <3>4 DEF EntryInv
    <2>9. CASE Removes(m, o)
      <3>1. /\ cached[o] /\ ~cached'[o] /\ object'[o] = 0 /\ ~dirty'[o] /\ ~inPersistence'[o]
            /\ results'[o] = 0 /\ sqlQueue'[o] = << >> /\ sqlQueue[o] = << >>
        BY <2>1, <2>2, <2>5, <2>9
      <3>2. OneBatch(o)'
        BY <3>1 DEF OneBatch
      <3>3. Growing(o)'
        BY <2>1, <2>4, <3>1 DEF EntryInv, Growing
      <3>4. Kept(o)'
        BY <2>1, <2>2, <2>4, <2>9, <3>1 DEF EntryInv, Kept, Final
      <3> QED BY <3>2, <3>3, <3>4 DEF EntryInv
    <2>10. CASE ~Saves(m, o) /\ ~Removes(m, o)
      <3>1. /\ cached'[o] = cached[o] /\ dirty'[o] = dirty[o]
            /\ inPersistence'[o] <=> InNow(m, o)
        BY <2>1, <2>4, <2>10, Zenon
      <3>5. object'[o] = object[o] /\ sqlQueue'[o] = sqlQueue[o] /\ results'[o] = left
        BY <2>1, <2>10, Zenon
      <3>2. OneBatch(o)'
        BY <2>1, <2>3, <2>4, <2>7, <3>1, <3>5 DEF EntryInv, OneBatch
      <3>3. Growing(o)'
        BY <2>1, <3>1, <3>5 DEF EntryInv, Growing
      <3>4. Kept(o)'
        BY <2>1, <3>1, <3>5 DEF EntryInv, Kept, Final
      <3> QED BY <3>2, <3>3, <3>4 DEF EntryInv
    <2> QED BY <2>8, <2>9, <2>10
  <1> QED BY <1>1, <1>2

\* The delay thread: its save is what the entry waits for, or it is lost.
LEMMA ExecuteKeeps ==
  ASSUME CacheTypeOK, NEW o \in Objects, EntryInv(o), NEW p \in Objects, Execute(p)
  PROVE  EntryInv(o)'
  <1> USE CacheAssumption
  <1>1. CASE o # p
    BY <1>1, Untouched DEF Execute, Save, entryVars, endVars, CacheTypeOK
  <1>2. CASE o = p
    <2>1. /\ sqlQueue[o] \in Seq(Nat) /\ sqlQueue[o] # << >> /\ results[o] \in Nat
          /\ sqlQueue'[o] = Tail(sqlQueue[o]) /\ results'[o] = results[o] + 1
          /\ UNCHANGED <<cached, object, useCount, dirty, inPersistence, manager, overtaken,
                         newest>>
      BY <1>2 DEF Execute, entryVars, endVars, CacheTypeOK
    <2>2. \/ stored'[o] = Head(sqlQueue[o]) /\ dropped'[o] = dropped[o]
          \/ stored'[o] = stored[o] /\ dropped'[o]
      BY <1>2 DEF Execute, Save, CacheTypeOK
    <2>3. results[o] = 0 /\ Len(sqlQueue[o]) = 1
      BY <2>1 DEF EntryInv, OneBatch
    <2>4. results'[o] = 1
      BY <2>1, <2>3
    <2>8. sqlQueue'[o] = << >>
      <3>1. Len(Tail(sqlQueue[o])) = 0 /\ Tail(sqlQueue[o]) \in Seq(Nat)
        BY <2>1, <2>3
      <3>2. ASSUME NEW q \in Seq(Nat), Len(q) = 0 PROVE q = << >>
        BY <3>2
      <3> QED BY <2>1, <3>1, <3>2, Zenon
    <2>5. OneBatch(o)'
      <3>1. /\ cached[o] => inPersistence[o]
            /\ ~(~cached[o] /\ manager[ManagerOf[o]] = "open")
        BY <2>1, Zenon DEF EntryInv, OneBatch
      <3>2. results'[o] > 0
        BY <2>4
      <3> QED BY <2>1, <2>8, <3>1, <3>2, Zenon DEF OneBatch
    <2>6. Growing(o)'
      BY <2>1, <2>2, <2>8 DEF EntryInv, Growing
    <2>7. Kept(o)'
      BY <2>1, <2>2, <2>8 DEF EntryInv, Kept, Final
    <2> QED BY <2>5, <2>6, <2>7 DEF EntryInv
  <1> QED BY <1>1, <1>2

\* Time passes, and the thread and the managers end, without touching an entry.
LEMMA OthersKeep ==
  ASSUME CacheTypeOK, Ends, NEW o \in Objects, EntryInv(o),
         CacheTick \/ StopServer \/ UNCHANGED cacheVars
  PROVE  EntryInv(o)'
  <1> USE CacheAssumption
  <1>1. /\ UNCHANGED <<cached, object, useCount, dirty, inPersistence, stored, sqlQueue, results,
                       manager, newest, dropped, overtaken>>
    BY DEF CacheTick, StopServer, cacheVars, entryVars, queueVars, endVars
  <1> QED BY <1>1, Untouched

\* A manager whose last entry is gone is closed.
LEMMA ShutdownEndKeeps ==
  ASSUME CacheTypeOK, NEW o \in Objects, EntryInv(o), NEW m \in Managers, ShutdownEnd(m)
  PROVE  EntryInv(o)'
  <1> USE CacheAssumption
  <1>1. /\ UNCHANGED <<cached, object, useCount, dirty, inPersistence, stored, sqlQueue, results,
                       newest, dropped, overtaken>>
    BY DEF ShutdownEnd, entryVars, queueVars
  <1>2. manager'[ManagerOf[o]] = "open" <=> manager[ManagerOf[o]] = "open"
    BY DEF ShutdownEnd, CacheTypeOK
  <1> QED BY <1>1, <1>2 DEF EntryInv, OneBatch, Growing, Kept, Final

\* The callbacks that are never called belong to objects that are gone.
LEMMA ThreadEndsKeeps ==
  ASSUME CacheTypeOK, Ends, NEW o \in Objects, EntryInv(o), ThreadEnds
  PROVE  EntryInv(o)'
  <1> USE CacheAssumption
  <1>1. manager[ManagerOf[o]] = "closed" /\ ~cached[o]
    BY DEF ThreadEnds, Ends
  <1>2. /\ UNCHANGED <<cached, object, useCount, dirty, inPersistence, stored, sqlQueue, manager,
                       newest, dropped, overtaken>>
        /\ results'[o] = 0
    BY DEF ThreadEnds, entryVars
  <1> QED BY <1>1, <1>2 DEF EntryInv, OneBatch, Growing, Kept, Final

\* Shutdown runs the callbacks; nobody holds an object of this manager any more.
LEMMA ShutdownKeeps ==
  ASSUME CacheTypeOK, NEW o \in Objects, EntryInv(o), NEW m \in Managers, Shutdown(m)
  PROVE  EntryInv(o)'
  <1> USE CacheAssumption
  <1>1. CASE AssertFails
    BY <1>1, Untouched DEF Shutdown
  <1>2. CASE ~AssertFails
    <2>1. /\ UNCHANGED <<cached, object, useCount, dirty, stored, sqlQueue, newest, dropped,
                         overtaken>>
          /\ inPersistence'[o] = StillIn(o) /\ results'[o] = 0
          /\ manager' = [manager EXCEPT ![m] = "closing"]
          /\ ManagerOf[o] = m => useCount[o] = 0
      BY <1>2 DEF Shutdown
    <2>2. StillIn(o) <=> inPersistence[o] /\ results[o] = 0
      BY DEF StillIn, Completed, CacheTypeOK
    <2>3. \/ manager'[ManagerOf[o]] = manager[ManagerOf[o]]
          \/ manager'[ManagerOf[o]] # "open" /\ useCount[o] = 0
      BY <2>1 DEF CacheTypeOK
    <2>4. OneBatch(o)'
      <3>1. cached[o] => (StillIn(o) <=> sqlQueue[o] # << >>)
        BY <2>2 DEF EntryInv, OneBatch, CacheTypeOK
      <3>2. ~cached[o] /\ manager'[ManagerOf[o]] = "open" =>
              sqlQueue[o] = << >> /\ ~StillIn(o)
        BY <2>2, <2>3 DEF EntryInv, OneBatch
      <3> QED BY <2>1, <3>1, <3>2 DEF EntryInv, OneBatch
    <2>5. Growing(o)'
      BY <2>1 DEF EntryInv, Growing
    <2>6. Kept(o)'
      BY <2>1, <2>3 DEF EntryInv, Kept, Final
    <2> QED BY <2>4, <2>5, <2>6 DEF EntryInv
  <1> QED BY <1>1, <1>2

\* The loop of Shutdown: a marked object is saved, unless that fails or the batch that
\* is still queued undoes it; another one is in the database, or its batch is queued.
LEMMA ShutdownObjectKeeps ==
  ASSUME CacheTypeOK, NEW o \in Objects, EntryInv(o), NEW p \in Objects, ShutdownObject(p)
  PROVE  EntryInv(o)'
  <1> USE CacheAssumption
  <1>1. CASE o # p
    BY <1>1, Untouched DEF ShutdownObject, Save, CacheTypeOK
  <1>2. CASE o = p
    <2>1. /\ manager[ManagerOf[o]] = "closing" /\ cached[o] /\ ~cached'[o]
          /\ object'[o] = 0 /\ ~dirty'[o] /\ ~inPersistence'[o]
          /\ UNCHANGED <<useCount, sqlQueue, results, manager, newest>>
      BY <1>2 DEF ShutdownObject, CacheTypeOK
    <2>2. \/ dirty[o] /\ stored'[o] = object[o] /\ dropped'[o] = dropped[o]
          \/ dirty[o] /\ stored'[o] = stored[o] /\ dropped'[o]
          \/ ~dirty[o] /\ stored'[o] = stored[o] /\ dropped'[o] = dropped[o]
      BY <1>2 DEF ShutdownObject, SavesDirectly, Save, CacheTypeOK
    <2>3. dirty[o] => overtaken'[o] = (sqlQueue[o] # << >>)
      BY <1>2 DEF ShutdownObject, SavesDirectly, CacheTypeOK
    <2>4. /\ results[o] \in Nat /\ object[o] \in Nat /\ stored[o] \in Nat /\ newest[o] \in Nat
      BY DEF CacheTypeOK
    <2>5. OneBatch(o)'
      BY <2>1 DEF EntryInv, OneBatch
    <2>6. Growing(o)'
      BY <2>1, <2>2, <2>4 DEF EntryInv, Growing
    <2>7. Kept(o)'
      BY <2>1, <2>2, <2>3 DEF EntryInv, Kept, Final
    <2> QED BY <2>5, <2>6, <2>7 DEF EntryInv
  <1> QED BY <1>1, <1>2

-----------------------------------------------------------------------------
(* The end.                                                                *)

\* The managers are closed one after the other, and the thread outlives them.
LEMMA EndsStep ==
  ASSUME CacheTypeOK, CacheTypeOK', Ends, \A o \in Objects : EntryInv(o),
         [CacheNext]_cacheVars
  PROVE  Ends'
  <1> USE CacheAssumption
  <1> DEFINE Closed(o) == manager[ManagerOf[o]] = "closed"
  <1>1. ASSUME UNCHANGED <<manager, thread>>,
               \A o \in Objects : cached'[o] => cached[o] \/ ~Closed(o),
               thread = "stopped" => Drained'
        PROVE  Ends'
    BY <1>1 DEF Ends
  <1>2. thread = "stopped" => \A m \in Managers : ~Working(m)
    BY DEF Ends, Working
  <1>3. \A o \in Objects : Closed(o) => ~Working(ManagerOf[o])
    BY DEF Working
  <1>4. ASSUME NEW o \in Objects, Attach(o) \/ FindInCache(o) \/ Change(o) \/ Release(o)
        PROVE  Ends'
    <2>1. UNCHANGED <<manager, thread, sqlQueue>> /\ Working(ManagerOf[o])
      BY <1>4 DEF Attach, FindInCache, Change, Release, queueVars, endVars
    <2>2. \A p \in Objects : p # o => cached'[p] = cached[p]
      BY <1>4 DEF Attach, FindInCache, Change, Release, CacheTypeOK
    <2> QED BY <1>1, <1>2, <1>3, <2>1, <2>2 DEF Drained, Ends
  <1>5. ASSUME NEW o \in Objects, Execute(o) PROVE Ends'
    BY <1>1, <1>5 DEF Execute, entryVars, endVars
  <1>6. ASSUME NEW o \in Objects, ShutdownObject(o) PROVE Ends'
    <2>1. UNCHANGED <<manager, thread, sqlQueue>>
      BY <1>6 DEF ShutdownObject
    <2>2. \A p \in Objects : cached'[p] => cached[p]
      BY <1>6 DEF ShutdownObject, CacheTypeOK
    <2> QED BY <1>1, <2>1, <2>2 DEF Drained, Ends
  <1>7. ASSUME NEW m \in Managers, Update(m) PROVE Ends'
    <2>1. UNCHANGED <<manager, thread>> /\ Working(m)
      BY <1>7 DEF Update, endVars
    <2>2. \A p \in Objects : cached'[p] => cached[p]
      BY <1>7, Zenon DEF Update, entryVars
    <2> QED BY <1>1, <1>2, <2>1, <2>2
  <1>8. ASSUME NEW m \in Managers, Shutdown(m) PROVE Ends'
    <2>1. UNCHANGED <<cached, thread, sqlQueue>> /\ Working(m)
      BY <1>8 DEF Shutdown
    <2>2. thread = "running"
      BY <2>1 DEF Working, Ends, CacheTypeOK
    <2>3. \A n \in Managers : manager'[n] = "closed" => manager[n] = "closed"
      BY <1>8 DEF Shutdown, CacheTypeOK
    <2> QED BY <2>1, <2>2, <2>3 DEF Ends
  <1>9. ASSUME NEW m \in Managers, ShutdownEnd(m) PROVE Ends'
    <2>1. UNCHANGED <<cached, thread, sqlQueue>> /\ manager[m] = "closing"
      BY <1>9 DEF ShutdownEnd, entryVars, queueVars
    <2>2. \A n \in Managers : manager'[n] = IF n = m THEN "closed" ELSE manager[n]
      BY <1>9 DEF ShutdownEnd, CacheTypeOK
    <2>3. \A o \in Objects : ManagerOf[o] = m => ~cached[o]
      BY <1>9 DEF ShutdownEnd
    <2> QED BY <2>1, <2>2, <2>3 DEF Ends, Drained
  <1>10. CASE CacheTick
    BY <1>1, <1>10 DEF CacheTick, queueVars, endVars, Drained, Ends
  <1>11. CASE StopServer
    BY <1>11 DEF StopServer, entryVars, queueVars, Ends
  <1>12. CASE ThreadEnds
    BY <1>12 DEF ThreadEnds, entryVars, Ends, Drained
  <1>13. CASE UNCHANGED cacheVars
    BY <1>1, <1>13 DEF cacheVars, entryVars, queueVars, endVars, Drained, Ends
  <1> QED BY <1>4, <1>5, <1>6, <1>7, <1>8, <1>9, <1>10, <1>11, <1>12, <1>13 DEF CacheNext

\* The ASSERT fails only for a callback without an entry, whose manager is not open.
LEMMA AssertStep ==
  ASSUME CacheTypeOK, CacheTypeOK', \A o \in Objects : EntryInv(o), AssertOnlyAfterShutdown,
         [CacheNext]_cacheVars
  PROVE  AssertOnlyAfterShutdown'
  <1> USE CacheAssumption
  <1>1. AssertFails => \E m \in Managers : manager[m] # "open"
    <2> SUFFICES ASSUME NEW o \in Objects, Completed(o), ~cached[o]
                 PROVE  manager[ManagerOf[o]] # "open"
      BY DEF AssertFails, CacheTypeOK
    <2> QED BY DEF Completed, EntryInv, OneBatch
  <1>2. \A m \in Managers : manager[m] # "open" => manager'[m] # "open"
    BY DEF CacheTypeOK, CacheNext, cacheVars, Attach, FindInCache, Change, Release, Execute,
           ShutdownObject, Update, Shutdown, ShutdownEnd, CacheTick, StopServer, ThreadEnds,
           endVars
  <1>3. halted' => halted \/ AssertFails
    BY DEF CacheNext, cacheVars, Attach, FindInCache, Change, Release, Execute,
           ShutdownObject, Update, Shutdown, ShutdownEnd, CacheTick, StopServer, ThreadEnds,
           endVars
  <1> QED BY <1>1, <1>2, <1>3 DEF AssertOnlyAfterShutdown

-----------------------------------------------------------------------------
(* The invariant and what follows from it.                                 *)

LEMMA CacheInvInit == CacheInit => CacheInv
  <1> SUFFICES ASSUME CacheInit PROVE CacheInv
    OBVIOUS
  <1> USE CacheAssumption DEF CacheInit
  <1>1. CacheTypeOK
    <2>1. << >> \in Seq(Nat)
      OBVIOUS
    <2>2. sqlQueue \in [Objects -> Seq(Nat)]
      BY <2>1
    <2>3. manager \in [Managers -> {"open", "closing", "closed"}]
      OBVIOUS
    <2>4. /\ object \in [Objects -> Nat] /\ stored \in [Objects -> Nat]
          /\ newest \in [Objects -> Nat] /\ useCount \in [Objects -> Nat]
          /\ age \in [Objects -> Nat] /\ results \in [Objects -> Nat]
      OBVIOUS
    <2>5. /\ cached \in [Objects -> BOOLEAN] /\ dirty \in [Objects -> BOOLEAN]
          /\ inPersistence \in [Objects -> BOOLEAN] /\ halted \in BOOLEAN
          /\ dropped \in [Objects -> BOOLEAN] /\ overtaken \in [Objects -> BOOLEAN]
      OBVIOUS
    <2> QED BY <2>2, <2>3, <2>4, <2>5 DEF CacheTypeOK
  <1>2. ASSUME NEW o \in Objects PROVE EntryInv(o)
    BY DEF EntryInv, OneBatch, Growing, Kept, Final
  <1>3. Ends
    BY DEF Ends
  <1>4. AssertOnlyAfterShutdown
    BY DEF AssertOnlyAfterShutdown
  <1> QED BY <1>1, <1>2, <1>3, <1>4 DEF CacheInv

LEMMA CacheInvStep == CacheInv /\ [CacheNext]_cacheVars => CacheInv'
  <1> SUFFICES ASSUME CacheInv, [CacheNext]_cacheVars PROVE CacheInv'
    OBVIOUS
  <1>1. CacheTypeOK /\ Ends /\ AssertOnlyAfterShutdown /\ \A o \in Objects : EntryInv(o)
    BY DEF CacheInv
  <1>2. CacheTypeOK'
    BY <1>1, CacheTypeStep
  <1>3. ASSUME NEW o \in Objects PROVE EntryInv(o)'
    BY <1>1, AttachKeeps, FindKeeps, ChangeKeeps, ReleaseKeeps, UpdateKeeps, ExecuteKeeps,
       OthersKeep, ShutdownEndKeeps, ThreadEndsKeeps, ShutdownKeeps, ShutdownObjectKeeps
       DEF CacheNext
  <1>4. Ends'
    BY <1>1, <1>2, EndsStep
  <1>5. AssertOnlyAfterShutdown'
    BY <1>1, <1>2, AssertStep
  <1> QED BY <1>2, <1>3, <1>4, <1>5 DEF CacheInv

LEMMA CacheInvariant == CacheSpec => []CacheInv
  BY CacheInvInit, CacheInvStep, PTL DEF CacheSpec

\* The variables of the cache and of the delay thread have their types, whatever the
\* number of objects, managers, users and seconds.
THEOREM CacheTypeCorrect == CacheSpec => []CacheTypeOK
  <1>1. CacheInv => CacheTypeOK
    BY DEF CacheInv
  <1> QED BY <1>1, CacheInvariant, PTL

\* As long as the manager of an object is open and its statements succeed, whoever takes
\* the object finds it as the last user left it: in the map, or in the database when
\* Update (CacheMgr.h:178) has removed it from there.
THEOREM LastChangeRead == CacheSpec => []ReadsLastChange
  <1>1. CacheInv => ReadsLastChange
    <2> SUFFICES ASSUME CacheInv, NEW o \in Objects, manager[ManagerOf[o]] = "open", ~dropped[o]
                 PROVE  newest[o] = IF cached[o] THEN object[o] ELSE stored[o]
      BY DEF ReadsLastChange
    <2> QED BY DEF CacheInv, EntryInv, OneBatch, Kept, Final
  <1> QED BY <1>1, CacheInvariant, PTL

\* The ASSERT of OnPersistenceComp (CacheMgr.h:236) holds until a manager is shut down.
THEOREM CallbackHasObject == CacheSpec => []AssertOnlyAfterShutdown
  <1>1. CacheInv => AssertOnlyAfterShutdown
    BY DEF CacheInv
  <1> QED BY <1>1, CacheInvariant, PTL

\* After the delay thread has ended, every change that no failed statement lost is in the
\* database, unless Shutdown wrote it in front of an older batch (CacheMgr.h:206).
THEOREM ChangesStoredAtStop == CacheSpec => []StoredAtStop
  <1>1. CacheInv => StoredAtStop
    <2> SUFFICES ASSUME CacheInv, thread = "stopped", NEW o \in Objects, ~dropped[o], ~overtaken[o]
                 PROVE  stored[o] = newest[o]
      BY Zenon DEF StoredAtStop, CacheInv, CacheTypeOK
    <2>1. ~cached[o]
      BY CacheAssumption DEF CacheInv, Ends
    <2>2. sqlQueue[o] = << >>
      BY DEF CacheInv, Ends, Drained
    <2> QED BY <2>1, <2>2 DEF CacheInv, EntryInv, Kept, Final
  <1> QED BY <1>1, CacheInvariant, PTL

\* A batch never takes the database back to an older version of an object, however late
\* the delay thread comes to it (SqlOperation.cpp:223), until the manager is shut down.
THEOREM StoredMovesForward == CacheSpec => StoredForward
  <1>1. CacheInv /\ [CacheNext]_cacheVars =>
          [\A o \in Objects : manager[ManagerOf[o]] = "open" => stored'[o] >= stored[o]]_cacheVars
    <2> SUFFICES ASSUME CacheInv, CacheNext, NEW o \in Objects, manager[ManagerOf[o]] = "open"
                 PROVE  stored'[o] >= stored[o]
      BY DEF cacheVars
    <2>1. stored[o] \in Nat
      BY DEF CacheInv, CacheTypeOK
    <2>2. CASE Execute(o)
      <3>1. stored'[o] = stored[o] \/ stored'[o] = Head(sqlQueue[o])
        BY <2>2 DEF Execute, Save, CacheInv, CacheTypeOK
      <3>2. cached[o] /\ sqlQueue[o] # << >>
        BY <2>2 DEF Execute, CacheInv, EntryInv, OneBatch
      <3>3. stored[o] <= Head(sqlQueue[o]) /\ Head(sqlQueue[o]) \in Nat
        BY <3>2 DEF CacheInv, CacheTypeOK, EntryInv, Growing
      <3> QED BY <2>1, <3>1, <3>3
    <2>3. ASSUME NEW p \in Objects, p # o, Execute(p) \/ ShutdownObject(p)
          PROVE  stored'[o] = stored[o]
      BY <2>3 DEF Execute, ShutdownObject, Save, CacheInv, CacheTypeOK
    <2>4. ~ShutdownObject(o)
      BY DEF ShutdownObject
    <2>5. ASSUME ~\E p \in Objects : Execute(p) \/ ShutdownObject(p)
          PROVE  stored' = stored
      BY <2>5 DEF CacheNext, Attach, FindInCache, Change, Release, Update, Shutdown, ShutdownEnd,
                  CacheTick, StopServer, ThreadEnds, queueVars
    <2> QED BY <2>1, <2>2, <2>3, <2>4, <2>5
  <1> QED BY <1>1, CacheInvariant, PTL DEF CacheSpec, StoredForward

\* One batch of an object at most is on its way: in m_sqlQueue, or executed with its
\* callback waiting.
OnTheirWay == \A o \in Objects : Len(sqlQueue[o]) + results[o] <= 1

\* m_inPersistence keeps Update (CacheMgr.h:170) from queueing a second batch of an object
\* before the callback of the first one, at any interval and however slow the thread is,
\* and until the end no callback comes twice.
THEOREM OneOnItsWay == CacheSpec => []OnTheirWay
  <1> DEFINE AtMostOne == \A o \in Objects : results[o] <= 1
  <1>1. CacheInit => AtMostOne
    <2> SUFFICES ASSUME CacheInit, NEW o \in Objects PROVE results[o] <= 1
      OBVIOUS
    <2>1. results = [q \in Objects |-> 0]
      BY DEF CacheInit
    <2> QED BY <2>1
  <1>2. ASSUME CacheInv, AtMostOne, [CacheNext]_cacheVars PROVE AtMostOne'
    <2> SUFFICES ASSUME NEW o \in Objects PROVE results'[o] <= 1
      OBVIOUS
    <2>1. results \in [Objects -> Nat] /\ results[o] <= 1
      BY <1>2 DEF CacheInv, CacheTypeOK
    <2>2. ASSUME NEW p \in Objects, Execute(p) PROVE results'[o] <= 1
      <3>1. results[p] = 0
        BY <1>2, <2>2 DEF Execute, CacheInv, EntryInv, OneBatch
      <3>2. results' = [results EXCEPT ![p] = results[p] + 1]
        BY <2>2 DEF Execute
      <3> QED BY <2>1, <3>1, <3>2
    <2>3. ASSUME NEW m \in Managers, Update(m) \/ Shutdown(m) PROVE results'[o] <= 1
      <3>1. results' = results \/ results' = [q \in Objects |-> 0]
        BY <2>3, Zenon DEF Update, Shutdown, queueVars
      <3> QED BY <2>1, <3>1
    <2>4. CASE ThreadEnds
      BY <2>4 DEF ThreadEnds
    <2>5. CASE UNCHANGED results
      BY <2>1, <2>5
    <2>6. ASSUME NEW p \in Objects,
                 Attach(p) \/ FindInCache(p) \/ Change(p) \/ Release(p) \/ ShutdownObject(p)
          PROVE  UNCHANGED results
      BY <2>6 DEF Attach, FindInCache, Change, Release, ShutdownObject, queueVars
    <2>7. ASSUME NEW m \in Managers, ShutdownEnd(m) PROVE UNCHANGED results
      BY <2>7 DEF ShutdownEnd, queueVars
    <2>8. ASSUME CacheTick \/ StopServer \/ UNCHANGED cacheVars PROVE UNCHANGED results
      BY <2>8 DEF CacheTick, StopServer, queueVars, cacheVars
    <2> QED BY <1>2, <2>2, <2>3, <2>4, <2>5, <2>6, <2>7, <2>8 DEF CacheNext
  <1>3. ASSUME CacheInv, AtMostOne PROVE OnTheirWay
    <2> SUFFICES ASSUME NEW o \in Objects PROVE Len(sqlQueue[o]) + results[o] <= 1
      BY DEF OnTheirWay
    <2>1. results[o] \in Nat /\ results[o] <= 1 /\ sqlQueue[o] \in Seq(Nat)
      BY <1>3 DEF CacheInv, CacheTypeOK
    <2>2. CASE sqlQueue[o] = << >>
      <3>1. Len(sqlQueue[o]) = 0
        BY <2>2
      <3> QED BY <2>1, <3>1
    <2>3. CASE sqlQueue[o] # << >>
      <3>1. Len(sqlQueue[o]) = 1 /\ results[o] = 0
        BY <1>3, <2>3 DEF CacheInv, EntryInv, OneBatch
      <3> QED BY <3>1
    <2> QED BY <2>2, <2>3
  <1> QED BY <1>1, <1>2, <1>3, CacheInvariant, PTL DEF CacheSpec
=============================================================================
