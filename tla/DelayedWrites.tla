---------------------------- MODULE DelayedWrites ----------------------------
(***************************************************************************)
(* The write-behind cache (transition/CacheMgr.h) over the delay thread of *)
(* a Database (transition/database).  The world thread attaches, changes   *)
(* and releases objects, and calls Update and Shutdown of the managers;    *)
(* the delay thread executes the batches of statements they queue and      *)
(* queues a callback for each.  Several managers, one per kind of object,  *)
(* share one Database.                                                     *)
(*                                                                         *)
(* The contents of an object is the number of its last change.  An object  *)
(* is loaded and saved whole.  The order of batches of different objects   *)
(* has no effect, so that m_sqlQueue is kept as one queue per object, and  *)
(* the time as the age of each object since m_persistenceTime.             *)
(***************************************************************************)
EXTENDS Integers, Sequences

CONSTANTS
  Objects,       \* keys of the managers' maps
  Managers,      \* CacheMgr objects on one Database
  ManagerOf,     \* the manager an object belongs to
  AutoManagers,  \* those constructed with dbUpdateAuto
  Interval,      \* game.persistence_interval (180 s)
  RemoveDelay,   \* game.remove_from_cache_delay (120 s)
  MaxUse,        \* bound: pointers to an object at one time
  MaxChanges,    \* bound: changes of an object
  Fallible       \* bound: objects whose statements may fail

ASSUME CacheAssumption ==
  /\ ManagerOf \in [Objects -> Managers]
  /\ AutoManagers \subseteq Managers
  /\ Interval \in Nat /\ RemoveDelay \in Nat
  /\ MaxUse \in Nat /\ MaxChanges \in Nat

VARIABLES
  cached,        \* m_cacheMap has an entry for the object
  object,        \* the contents of the object in memory
  useCount,      \* m_useCount
  dirty,         \* m_dirty
  inPersistence, \* m_inPersistence
  age,           \* seconds since m_persistenceTime
  stored,        \* the contents in the database
  sqlQueue,      \* contents of the batches of the object in m_sqlQueue
  results,       \* callbacks for the object in m_pResultQueue
  manager,       \* "open", "closing" inside of Shutdown, "closed"
  thread,        \* the delay thread: "running", "stopping" after Stop, "stopped"
  newest,        \* history: the last change of the object
  dropped,       \* history: a statement that saves the object failed
  overtaken,     \* history: Shutdown saved the object while a batch of it was queued
  halted         \* an ASSERT failed

entryVars == <<cached, object, useCount, dirty, inPersistence, age>>
queueVars == <<stored, sqlQueue, results>>
endVars   == <<manager, thread, overtaken, halted>>
cacheVars == <<entryVars, queueVars, endVars, newest, dropped>>

CacheInit ==
  /\ cached        = [o \in Objects |-> FALSE]
  /\ object        = [o \in Objects |-> 0]
  /\ useCount      = [o \in Objects |-> 0]
  /\ dirty         = [o \in Objects |-> FALSE]
  /\ inPersistence = [o \in Objects |-> FALSE]
  /\ age           = [o \in Objects |-> 0]
  /\ stored        = [o \in Objects |-> 0]
  /\ sqlQueue      = [o \in Objects |-> << >>]
  /\ results       = [o \in Objects |-> 0]
  /\ manager       = [m \in Managers |-> "open"]
  /\ thread        = "running"
  /\ newest        = [o \in Objects |-> 0]
  /\ dropped       = [o \in Objects |-> FALSE]
  /\ overtaken     = [o \in Objects |-> FALSE]
  /\ halted        = FALSE

\* The world thread is not inside of Shutdown, and the manager still works.
Working(m) == ~halted /\ manager[m] = "open" /\ \A n \in Managers : manager[n] # "closing"

-----------------------------------------------------------------------------
(* The users of an object.                                                 *)

\* Attach: take the object from the map or load it, and start its age anew.  When
\* Exist or LoadData fails nothing changes.
Attach(o) ==
  /\ Working(ManagerOf[o]) /\ useCount[o] < MaxUse
  /\ cached' = [cached EXCEPT ![o] = TRUE]
  /\ object' = [object EXCEPT ![o] = IF cached[o] THEN @ ELSE stored[o]]
  /\ useCount' = [useCount EXCEPT ![o] = @ + 1]
  /\ age' = [age EXCEPT ![o] = 0]
  /\ UNCHANGED <<dirty, inPersistence, queueVars, endVars, newest, dropped>>

\* FindInCache, which leaves the age alone.
FindInCache(o) ==
  /\ Working(ManagerOf[o]) /\ cached[o] /\ useCount[o] < MaxUse
  /\ useCount' = [useCount EXCEPT ![o] = @ + 1]
  /\ UNCHANGED <<cached, object, dirty, inPersistence, age, queueVars, endVars, newest, dropped>>

\* A user changes the object it holds; the manager is not told.
Change(o) ==
  /\ Working(ManagerOf[o]) /\ useCount[o] > 0 /\ newest[o] < MaxChanges
  /\ newest' = [newest EXCEPT ![o] = @ + 1]
  /\ object' = [object EXCEPT ![o] = newest[o] + 1]
  /\ UNCHANGED <<cached, useCount, dirty, inPersistence, age, queueVars, endVars, dropped>>

\* Mutant: the release does not mark the object.
DirtyAfterReleaseNever(o) == dirty[o]

\* AutoRelease marks the object whether it was changed or not.
DirtyAfterRelease(o) == TRUE

\* AutoRelease, which the last copy of a pointer runs.
Release(o) ==
  /\ Working(ManagerOf[o]) /\ useCount[o] > 0
  /\ dirty' = [dirty EXCEPT ![o] = DirtyAfterRelease(o)]
  /\ useCount' = [useCount EXCEPT ![o] = @ - 1]
  /\ UNCHANGED <<cached, object, inPersistence, age, queueVars, endVars, newest, dropped>>

-----------------------------------------------------------------------------
(* Update.                                                                 *)

\* OnPersistenceComp for each callback in the result queue: the batch is done, well
\* or not, and the age starts anew.  It ASSERTs that the object is still there.
Completed(o)  == results[o] > 0
AssertFails   == \E o \in Objects : Completed(o) /\ ~cached[o]
StillIn(o)    == inPersistence[o] /\ ~Completed(o)
AgeNow(o)     == IF Completed(o) THEN 0 ELSE age[o]

\* What Update(m) sees: after ProcessResultQueue, if it calls it.
InNow(m, o)   == IF m \in AutoManagers THEN StillIn(o) ELSE inPersistence[o]
SinceNow(m, o) == IF m \in AutoManagers THEN AgeNow(o) ELSE age[o]

\* Update saves the object.
Saves(m, o) ==
  /\ ManagerOf[o] = m /\ cached[o]
  /\ useCount[o] > 0 \/ dirty[o]
  /\ ~InNow(m, o)
  /\ SinceNow(m, o) > Interval

\* Mutant: an object is removed while its batch is on its way.
RemovesInPersistence(m, o) ==
  /\ ManagerOf[o] = m /\ cached[o]
  /\ useCount[o] = 0 /\ ~dirty[o]
  /\ SinceNow(m, o) > RemoveDelay

\* Update takes the object out of the map.
Removes(m, o) ==
  /\ ManagerOf[o] = m /\ cached[o]
  /\ useCount[o] = 0 /\ ~dirty[o] /\ ~InNow(m, o)
  /\ SinceNow(m, o) > RemoveDelay

Update(m) ==
  /\ Working(m)
  /\ IF m \in AutoManagers /\ AssertFails
     THEN halted' = TRUE /\ UNCHANGED <<entryVars, queueVars, manager, thread, overtaken>>
     ELSE /\ cached' = [o \in Objects |-> cached[o] /\ ~Removes(m, o)]
          /\ object' = [o \in Objects |-> IF Removes(m, o) THEN 0 ELSE object[o]]
          /\ dirty' = [o \in Objects |-> dirty[o] /\ ~Saves(m, o)]
          /\ inPersistence' = [o \in Objects |-> InNow(m, o) \/ Saves(m, o)]
          /\ age' = [o \in Objects |-> IF Removes(m, o) THEN 0 ELSE SinceNow(m, o)]
          /\ sqlQueue' = [o \in Objects |->
                            IF Saves(m, o) THEN Append(sqlQueue[o], object[o]) ELSE sqlQueue[o]]
          /\ results' = IF m \in AutoManagers THEN [o \in Objects |-> 0] ELSE results
          /\ UNCHANGED <<useCount, stored, endVars>>
  /\ UNCHANGED <<newest, dropped>>

-----------------------------------------------------------------------------
(* The delay thread.                                                       *)

\* The statements that save v are executed, or they fail, of which nobody is told:
\* the results of the batch and of ExecuteDirect are not looked at.
Save(o, v) ==
  \/ stored' = [stored EXCEPT ![o] = v] /\ UNCHANGED dropped
  \/ o \in Fallible /\ dropped' = [dropped EXCEPT ![o] = TRUE] /\ UNCHANGED stored

\* ProcessRequests: execute one batch as a transaction and queue its callback.
Execute(o) ==
  /\ ~halted /\ thread # "stopped" /\ sqlQueue[o] # << >>
  /\ sqlQueue' = [sqlQueue EXCEPT ![o] = Tail(@)]
  /\ results' = [results EXCEPT ![o] = @ + 1]
  /\ Save(o, Head(sqlQueue[o]))
  /\ UNCHANGED <<entryVars, endVars, newest>>

Oldest == IF Interval > RemoveDelay THEN Interval + 1 ELSE RemoveDelay + 1

\* A second passes.  An age past both limits need not grow.
CacheTick ==
  /\ ~halted /\ \E o \in Objects : cached[o] /\ age[o] < Oldest
  /\ age' = [o \in Objects |-> IF cached[o] /\ age[o] < Oldest THEN age[o] + 1 ELSE age[o]]
  /\ UNCHANGED <<cached, object, useCount, dirty, inPersistence, queueVars, endVars,
                 newest, dropped>>

-----------------------------------------------------------------------------
(* The end.  The owner of the managers calls Shutdown of each, when nobody *)
(* holds an object any more (ASSERT), and then StopServer of the Database. *)

\* Shutdown: ProcessResultQueue runs the callbacks that are there; a batch that is
\* still queued goes on in the delay thread.
Shutdown(m) ==
  /\ Working(m) /\ \A o \in Objects : ManagerOf[o] = m => useCount[o] = 0
  /\ IF AssertFails
     THEN halted' = TRUE /\ UNCHANGED <<inPersistence, age, results, manager>>
     ELSE /\ inPersistence' = [o \in Objects |-> StillIn(o)]
          /\ age' = [o \in Objects |-> AgeNow(o)]
          /\ results' = [o \in Objects |-> 0]
          /\ manager' = [manager EXCEPT ![m] = "closing"]
          /\ UNCHANGED halted
  /\ UNCHANGED <<cached, object, useCount, dirty, stored, sqlQueue, thread, overtaken,
                 newest, dropped>>

\* Mutant: only an object without a batch on its way is saved.
SavesDirectlyIdle(o) == dirty[o] /\ ~inPersistence[o]

\* Shutdown saves what is marked.
SavesDirectly(o) == dirty[o]

\* The loop of Shutdown saves an object on the other connection and deletes it.
ShutdownObject(o) ==
  /\ ~halted /\ manager[ManagerOf[o]] = "closing" /\ cached[o]
  /\ IF SavesDirectly(o)
     THEN /\ Save(o, object[o])
          /\ overtaken' = [overtaken EXCEPT ![o] = sqlQueue[o] # << >>]
     ELSE UNCHANGED <<stored, dropped, overtaken>>
  /\ cached' = [cached EXCEPT ![o] = FALSE]
  /\ object' = [object EXCEPT ![o] = 0]
  /\ dirty' = [dirty EXCEPT ![o] = FALSE]
  /\ inPersistence' = [inPersistence EXCEPT ![o] = FALSE]
  /\ age' = [age EXCEPT ![o] = 0]
  /\ UNCHANGED <<useCount, sqlQueue, results, manager, thread, halted, newest>>

\* Shutdown clears the map.
ShutdownEnd(m) ==
  /\ ~halted /\ manager[m] = "closing"
  /\ \A o \in Objects : ManagerOf[o] = m => ~cached[o]
  /\ manager' = [manager EXCEPT ![m] = "closed"]
  /\ UNCHANGED <<entryVars, queueVars, thread, overtaken, halted, newest, dropped>>

\* HaltDelayThread: Stop, and wait for the thread.
StopServer ==
  /\ ~halted /\ thread = "running" /\ \A m \in Managers : manager[m] = "closed"
  /\ thread' = "stopping"
  /\ UNCHANGED <<entryVars, queueVars, manager, overtaken, halted, newest, dropped>>

\* The loop of the thread, or its destructor, has emptied the queue.
Drained == \A o \in Objects : sqlQueue[o] = << >>

\* The thread is gone, and the result queue with the callbacks in it.
ThreadEnds ==
  /\ ~halted /\ thread = "stopping" /\ Drained
  /\ thread' = "stopped"
  /\ results' = [o \in Objects |-> 0]
  /\ UNCHANGED <<entryVars, stored, sqlQueue, manager, overtaken, halted, newest, dropped>>

CacheNext ==
  \/ \E o \in Objects : \/ Attach(o)
                        \/ FindInCache(o)
                        \/ Change(o)
                        \/ Release(o)
                        \/ Execute(o)
                        \/ ShutdownObject(o)
  \/ \E m \in Managers : Update(m) \/ Shutdown(m) \/ ShutdownEnd(m)
  \/ CacheTick
  \/ StopServer
  \/ ThreadEnds

CacheSpec == CacheInit /\ [][CacheNext]_cacheVars

-----------------------------------------------------------------------------
(* Properties.                                                             *)

\* The variables have their types.
CacheTypeOK ==
  /\ cached \in [Objects -> BOOLEAN] /\ dirty \in [Objects -> BOOLEAN]
  /\ inPersistence \in [Objects -> BOOLEAN] /\ halted \in BOOLEAN
  /\ dropped \in [Objects -> BOOLEAN] /\ overtaken \in [Objects -> BOOLEAN]
  /\ object \in [Objects -> Nat] /\ stored \in [Objects -> Nat] /\ newest \in [Objects -> Nat]
  /\ useCount \in [Objects -> Nat] /\ age \in [Objects -> Nat] /\ results \in [Objects -> Nat]
  /\ sqlQueue \in [Objects -> Seq(Nat)]
  /\ manager \in [Managers -> {"open", "closing", "closed"}]
  /\ thread \in {"running", "stopping", "stopped"}

\* The callback of an object has an object to go to until some manager is shut down:
\* the ASSERT of OnPersistenceComp cannot fail before.  (After Shutdown of one manager
\* with a batch on its way, the next ProcessResultQueue of another one fails it.)
AssertOnlyAfterShutdown == halted => \E m \in Managers : manager[m] # "open"

\* Read your writes: an object that Update took out of the map is in the database as
\* its last user left it, unless a statement failed; and in the map it is so, too.
ReadsLastChange ==
  \A o \in Objects : manager[ManagerOf[o]] = "open" /\ ~dropped[o] =>
    newest[o] = IF cached[o] THEN object[o] ELSE stored[o]

\* The database never goes back to an older version of an object before Shutdown.
StoredForward ==
  [][\A o \in Objects : manager[ManagerOf[o]] = "open" => stored'[o] >= stored[o]]_cacheVars

\* When the delay thread is gone, every change is stored, but for failed statements and
\* for the objects that Shutdown saved while an older batch of theirs was queued.
StoredAtStop ==
  thread = "stopped" =>
    \A o \in Objects : dropped[o] \/ overtaken[o] \/ stored[o] = newest[o]

\* A change reaches the database at last, or the statement fails, or the managers are
\* shut down; or the object is attached again and again, which starts its age anew.
\* (Update, Execute and Tick are fair.)
SavedAtLast ==
  \A o \in Objects, v \in 1 .. MaxChanges :
    \/ []<><<Attach(o)>>_cacheVars
    \/ object[o] = v ~> \/ stored[o] >= v \/ dropped[o]
                     \/ \E m \in Managers : manager[m] # "open"
=============================================================================
