------------------------------- MODULE IdPool -------------------------------
(***************************************************************************)
(* What a CObjID promises: nobody gets an identifier that another one      *)
(* holds, and the identifiers that were given back rest as long as others  *)
(* are there: the longest free one goes first.                             *)
(***************************************************************************)
EXTENDS Integers, Sequences

VARIABLES
  held, \* identifiers that callers have
  free  \* identifiers to give out, in the order in which they became free

Distinct(s)  == \A i, j \in DOMAIN s : s[i] = s[j] => i = j
ElementsOf(s) == {s[i] : i \in DOMAIN s}

\* The longest free identifier is given out.
Get == free # << >> /\ held' = held \cup {Head(free)} /\ free' = Tail(free)

\* None is free: new ones are made and the first is given out.
GetNew ==
  /\ free = << >> /\ held \subseteq held'
  /\ Distinct(free') /\ ElementsOf(free') \cap held' = {}
  /\ \E i \in held' : i \notin held /\ held' = held \cup {i}

\* A holder gives an identifier back.
GiveBack == \E i \in held : held' = held \ {i} /\ free' = Append(free, i)

PoolInit == held = {} /\ Distinct(free)
PoolSpec == PoolInit /\ [][Get \/ GetNew \/ GiveBack]_<<held, free>>
=============================================================================
