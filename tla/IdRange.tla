------------------------------- MODULE IdRange -------------------------------
(***************************************************************************)
(* Identifiers of objects: CObjID over CLinkedList.  All identifiers that  *)
(* were ever made are in one list; those before the cursor are given out,  *)
(* the others are free.  An identifier that is given back is unlinked and  *)
(* appended at the end.  When the cursor is at the end, the range grows.   *)
(* Callers give back what they hold, once.                                 *)
(***************************************************************************)
EXTENDS Integers, Sequences, FiniteSets

CONSTANTS
  IdStart,  \* m_dwIDStart at first
  IdNumMax, \* m_dwIDNumMax
  Step,     \* m_dwStep
  IdInit,   \* dwIDInitNum
  Increase  \* m_dwIncrease

ASSUME RangeAssumption ==
  /\ IdStart \in Nat /\ IdNumMax \in Nat /\ IdInit \in Nat
  /\ Step \in Nat \ {0} /\ Increase \in Nat \ {0}

VARIABLES
  list,    \* the identifiers, from pHead to pTail
  cursor,  \* where pCurPosition is in the list; behind its end when it is NULL
  nextId,  \* m_dwIDStart
  idCount, \* m_dwCount
  holding  \* the identifiers that callers have

rangeVars == <<list, cursor, nextId, idCount, holding>>

\* Resize appends n identifiers.
Made(from, n) == [i \in 1 .. n |-> from + (i - 1) * Step]

RangeInit ==
  /\ list = Made(IdStart, IdInit)
  /\ cursor = 1
  /\ nextId = IdStart + IdInit * Step
  /\ idCount = 0
  /\ holding = {}

\* GetNext of the list: the cursor goes on.
GetFree ==
  /\ cursor <= Len(list)
  /\ holding' = holding \cup {list[cursor]}
  /\ cursor' = cursor + 1
  /\ idCount' = idCount + 1
  /\ UNCHANGED <<list, nextId>>

\* CObjID::GetNext finds the list used up and calls Resize; beyond the range it returns
\* NULL.  The guard compares how many are in use with the width of the range, in which
\* each of them takes a step.
GetGrown ==
  /\ cursor > Len(list)
  /\ idCount + Increase * Step < IdNumMax
  /\ list' = list \o Made(nextId, Increase)
  /\ nextId' = nextId + Increase * Step
  /\ holding' = holding \cup {nextId}
  /\ cursor' = cursor + 1
  /\ idCount' = idCount + 1

\* Mutant: Append leaves the cursor where it is when that is the end.
CursorAfterStays(p) == IF cursor > Len(list) THEN cursor ELSE cursor - 1

\* Where the cursor is after the node at place p, which is before it, was moved to the
\* end: at the same node, or at this one when it was NULL.
CursorAfter(p) == cursor - 1

\* Mutant: the node is put back behind the cursor.
MovedToCursor(p) ==
  SubSeq(list, 1, p - 1) \o SubSeq(list, p + 1, cursor - 1)
    \o <<list[p]>> \o SubSeq(list, cursor, Len(list))

\* The node at place p is unlinked and appended.
MovedToEnd(p) == SubSeq(list, 1, p - 1) \o SubSeq(list, p + 1, Len(list)) \o <<list[p]>>

\* CObjID::Remove.
GiveIdBack(p) ==
  /\ p < cursor
  /\ list' = MovedToEnd(p)
  /\ cursor' = CursorAfter(p)
  /\ idCount' = idCount - 1
  /\ holding' = holding \ {list[p]}
  /\ UNCHANGED nextId

RangeNext == GetFree \/ GetGrown \/ \E p \in DOMAIN list : GiveIdBack(p)

RangeSpec == RangeInit /\ [][RangeNext]_rangeVars

-----------------------------------------------------------------------------
(* Properties.                                                             *)

\* The variables have their types; m_dwCount is the number of identifiers in use, the
\* one that GetNext compares with the range.
RangeTypeOK ==
  /\ list \in Seq(Nat) /\ cursor \in 1 .. Len(list) + 1 /\ nextId \in Nat
  /\ holding \subseteq Nat /\ idCount = Cardinality(holding)

Pool == INSTANCE IdPool WITH
  held <- holding, free <- SubSeq(list, cursor, Len(list))

\* The list with its cursor implements the pool: an identifier has one holder at a time,
\* none gets lost, and those that were given back are given out in that order, before
\* the range grows.
GivenOutInTurn == Pool!PoolSpec
=============================================================================
