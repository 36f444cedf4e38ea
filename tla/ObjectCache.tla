----------------------------- MODULE ObjectCache -----------------------------
(***************************************************************************)
(* CObjCtrl: objects in memory, at most m_MaxCapacity of them, in a list   *)
(* with the one that was asked for last in front (m_listIndex; m_mapData   *)
(* has the same objects by key).  A full cache saves and deletes the one   *)
(* at the end of the list, and OnTimer those that were loaded long ago;    *)
(* resident objects stay.  Loading and saving is left to a subclass and    *)
(* may fail.                                                               *)
(*                                                                         *)
(* The list is modelled by its keys and by the relation "is in front of".  *)
(* The contents of an object is the number of its last change.  The caller *)
(* of GetData uses the pointer until the next GetData or OnTimer, as the   *)
(* comment in ObjAdmin.h demands.                                          *)
(***************************************************************************)
EXTENDS Integers, FiniteSets

CONSTANTS
  Keys,       \* keys of objects
  Capacity,   \* m_MaxCapacity
  AliveTime,  \* MAX_ALIVE_TIME (21600 s)
  NoKey,      \* the caller has no pointer
  MaxVersion  \* bound: changes of an object

ASSUME ObjectAssumption ==
  NoKey \notin Keys /\ Capacity \in Nat \ {0} /\ AliveTime \in Nat /\ MaxVersion \in Nat

VARIABLES
  listed,    \* keys of the objects in m_listIndex
  inFront,   \* pairs of them: the first one is in front of the second
  contents,  \* contents of the objects in memory
  loadedFor, \* time since timestamp
  resident,  \* m_ResidentData
  saved,     \* contents of the objects in the storage
  latest,    \* history: the last change of each object
  gotAfter,  \* history: pairs of keys, the first one was got after the second
  using      \* the key of the pointer that the caller has

objVars == <<listed, inFront, contents, loadedFor, resident, saved, latest, gotAfter, using>>

ObjInit ==
  /\ listed = {} /\ inFront = {} /\ gotAfter = {} /\ resident = {} /\ using = NoKey
  /\ contents = [k \in Keys |-> 0] /\ loadedFor = [k \in Keys |-> 0]
  /\ saved = [k \in Keys |-> 0] /\ latest = [k \in Keys |-> 0]

\* The pairs of R without those of K; and k put in front of the keys S in R.
Without(R, K)    == {r \in R : r[1] \notin K /\ r[2] \notin K}
ToFront(R, k, S) == Without(R, {k}) \cup ({k} \X (S \ {k}))

\* SaveInnerData succeeds for the objects K.
SaveInnerData(K) == saved' = [k \in Keys |-> IF k \in K THEN contents[k] ELSE saved[k]]

\* Objects that are not in memory have no contents and no time.
Forget(f, K) == [k \in Keys |-> IF k \in K THEN 0 ELSE f[k]]

\* The caller gets the pointer of k.
Got(k) == gotAfter' = ToFront(gotAfter, k, Keys) /\ using' = k

-----------------------------------------------------------------------------
(* GetData.                                                                *)

\* Mutant: a hit leaves the object at its place.
HitStays(k) == inFront

\* A hit moves the object to the front; its time goes on.
Hit(k) == ToFront(inFront, k, listed)

GetHit(k) ==
  /\ k \in listed
  /\ inFront' = Hit(k)
  /\ Got(k)
  /\ UNCHANGED <<listed, contents, loadedFor, resident, saved, latest>>

\* The object that has to go for a new one: the last in the list that is not resident.
Victim(v) == v \in listed \ resident /\ \A k \in listed : <<v, k>> \in inFront => k \in resident

\* A miss, for which the objects gone have been saved and deleted: GetInnerData loads
\* the object, or fails.
Load(k, gone) ==
  /\ SaveInnerData(gone)
  /\ loadedFor' = Forget(loadedFor, gone)
  /\ UNCHANGED <<resident, latest>>
  /\ \/ /\ listed' = (listed \ gone) \cup {k}
        /\ inFront' = ToFront(Without(inFront, gone), k, listed \ gone)
        /\ contents' = [Forget(contents, gone) EXCEPT ![k] = saved[k]]
        /\ Got(k)
     \/ /\ listed' = listed \ gone
        /\ inFront' = Without(inFront, gone)
        /\ contents' = Forget(contents, gone)
        /\ using' = NoKey
        /\ UNCHANGED gotAfter

\* A miss with room, and one without: when the victim cannot be saved, or there is none,
\* GetData returns NULL before it changed anything.
GetMiss(k) == k \notin listed /\ Cardinality(listed) < Capacity /\ Load(k, {})

GetMissFull(k) ==
  /\ k \notin listed /\ Cardinality(listed) >= Capacity
  /\ \/ \E v \in listed : Victim(v) /\ Load(k, {v})
     \/ /\ using' = NoKey
        /\ UNCHANGED <<listed, inFront, contents, loadedFor, resident, saved, latest, gotAfter>>

\* The caller changes the object.
Modify ==
  /\ using # NoKey /\ latest[using] < MaxVersion
  /\ latest' = [latest EXCEPT ![using] = @ + 1]
  /\ contents' = [contents EXCEPT ![using] = latest[using] + 1]
  /\ UNCHANGED <<listed, inFront, loadedFor, resident, saved, gotAfter, using>>

-----------------------------------------------------------------------------
(* The timer, and the rest.                                                *)

\* Objects whose time is up.
Expired == {k \in listed \ resident : loadedFor[k] > AliveTime}

\* Mutant: the object that cannot be saved is deleted with the others.
DeletedToFailure(last) == {k \in Expired : k = last \/ <<k, last>> \in inFront}

\* What OnTimer saves before it comes to an object.
SavedBefore(last) == {k \in Expired : <<k, last>> \in inFront}

\* What it deletes before.
DeletedBefore(last) == SavedBefore(last)

\* OnTimer goes through the list, saves the objects that it saves and deletes others.
Clean(kept, gone) ==
  /\ SaveInnerData(kept)
  /\ listed' = listed \ gone
  /\ inFront' = Without(inFront, gone)
  /\ contents' = Forget(contents, gone)
  /\ loadedFor' = Forget(loadedFor, gone)
  /\ using' = NoKey
  /\ UNCHANGED <<resident, latest, gotAfter>>

\* To the end; or the first object that cannot be saved ends it.
OnObjTimer ==
  \/ Clean(Expired, Expired)
  \/ \E last \in Expired : Clean(SavedBefore(last), DeletedBefore(last))

\* SaveAllData: whether an object could be saved is not looked at.
SaveAllData ==
  /\ \E K \in SUBSET listed : SaveInnerData(K)
  /\ UNCHANGED <<listed, inFront, contents, loadedFor, resident, latest, gotAfter, using>>

AddResidentKey(k) ==
  /\ resident' = resident \cup {k}
  /\ UNCHANGED <<listed, inFront, contents, loadedFor, saved, latest, gotAfter, using>>

ClearResidentKey ==
  /\ resident' = {}
  /\ UNCHANGED <<listed, inFront, contents, loadedFor, saved, latest, gotAfter, using>>

\* A second passes; past the limit the time need not grow.
ObjTick ==
  /\ \E k \in listed : loadedFor[k] <= AliveTime
  /\ loadedFor' = [k \in Keys |-> IF k \in listed /\ loadedFor[k] <= AliveTime
                                  THEN loadedFor[k] + 1 ELSE loadedFor[k]]
  /\ UNCHANGED <<listed, inFront, contents, resident, saved, latest, gotAfter, using>>

ObjNext ==
  \/ \E k \in Keys : GetHit(k) \/ GetMiss(k) \/ GetMissFull(k) \/ AddResidentKey(k)
  \/ Modify
  \/ OnObjTimer
  \/ SaveAllData
  \/ ClearResidentKey
  \/ ObjTick

ObjSpec == ObjInit /\ [][ObjNext]_objVars

-----------------------------------------------------------------------------
(* Properties.                                                             *)

\* The variables have their types.
ObjTypeOK ==
  /\ listed \subseteq Keys /\ IsFiniteSet(listed) /\ inFront \subseteq listed \X listed
  /\ gotAfter \subseteq Keys \X Keys /\ resident \subseteq Keys
  /\ contents \in [Keys -> Nat] /\ loadedFor \in [Keys -> Nat]
  /\ saved \in [Keys -> Nat] /\ latest \in [Keys -> Nat] /\ using \in Keys \cup {NoKey}

\* No change is lost, however loads, saves and evictions fail: an object is in memory,
\* or in the storage when it is not, as it was changed last; the pointer that the caller
\* has is to an object in memory; and there are no more objects than the capacity.
ChangesKept ==
  /\ \A k \in Keys : latest[k] = IF k \in listed THEN contents[k] ELSE saved[k]
  /\ using # NoKey => using \in listed
  /\ Cardinality(listed) <= Capacity

\* GetData makes room by the object that was not asked for for the longest time, of
\* those that are not resident; resident objects never leave.
LongestUnusedGoes ==
  [][\A out \in listed \ listed' :
       /\ out \notin resident
       /\ loadedFor[out] > AliveTime \/
            \A other \in listed \cap listed' :
              <<out, other>> \in gotAfter => other \in resident]_objVars
=============================================================================
