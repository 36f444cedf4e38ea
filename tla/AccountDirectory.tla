-------------------------- MODULE AccountDirectory --------------------------
(***************************************************************************)
(* What the account functions of CenterDBCtrl are for: a directory that    *)
(* gives every name at most one passport, and every passport at most one   *)
(* role on a game server.  Looking up and creating is one step here.       *)
(***************************************************************************)
CONSTANTS
  Names,      \* what a passport is looked up by
  Passports,  \* passport ids
  Origins,    \* game servers, by the number that players see
  Roles       \* role ids

VARIABLES
  passportsOf,  \* the passports of each name
  rolesOf       \* the roles: triples of passport, game server and role

vars == <<passportsOf, rolesOf>>

Init ==
  /\ passportsOf = [n \in Names |-> {}]
  /\ rolesOf = {}

\* A name without a passport gets one that no name has.
CreatePassport(n, p) ==
  /\ passportsOf[n] = {}
  /\ \A m \in Names : p \notin passportsOf[m]
  /\ passportsOf' = [passportsOf EXCEPT ![n] = {p}]
  /\ UNCHANGED rolesOf

\* A passport without a role on game server o gets one that nobody has.
CreateRole(p, o, r) ==
  /\ \A e \in rolesOf : <<e[1], e[2]>> # <<p, o>> /\ e[3] # r
  /\ rolesOf' = rolesOf \cup {<<p, o, r>>}
  /\ UNCHANGED passportsOf

Next ==
  \/ \E n \in Names, p \in Passports : CreatePassport(n, p)
  \/ \E p \in Passports, o \in Origins, r \in Roles : CreateRole(p, o, r)

Spec == Init /\ [][Next]_vars
=============================================================================
