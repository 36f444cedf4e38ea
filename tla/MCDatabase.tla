------------------------------ MODULE MCDatabase -----------------------------
(***************************************************************************)
(* The components that work on a database, with two actors each: two login *)
(* servers for GmCommand and Accounts, two game servers for GameServers,   *)
(* two managers for DelayedWrites.  They use tables of their own, so that  *)
(* each one makes its steps in a part of the state space of its own, in    *)
(* which the others stay as they were at first.                            *)
(***************************************************************************)
EXTENDS GmCommand, Accounts, GameServers, DelayedWrites, TLC

VARIABLE part

allVars == <<part, gmVars, accVars, serverVars, cacheVars>>

\* Commands that are due at once, or over.
ShortMenu ==
  {[opr |-> "set_gm_auth", target |-> "passport", passport |-> "p", valid |-> TRUE,
    param |-> c[1], start |-> c[2], end |-> c[2]] : c \in {<<1, 0>>, <<2, 1>>}}

\* A manager for each object.
OwnManager == [o \in Objects |-> o]

Init ==
  /\ part \in {"commands", "accounts", "servers", "cache"}
  /\ GmInit /\ AccInit /\ ServersInit /\ CacheInit

Next ==
  \/ part = "commands" /\ GmNext /\ UNCHANGED <<part, accVars, serverVars, cacheVars>>
  \/ part = "accounts" /\ AccNext /\ UNCHANGED <<part, gmVars, serverVars, cacheVars>>
  \/ part = "servers" /\ ServersNext /\ UNCHANGED <<part, gmVars, accVars, cacheVars>>
  \/ part = "cache" /\ CacheNext /\ UNCHANGED <<part, gmVars, accVars, serverVars>>

Spec == Init /\ [][Next]_allVars

\* Each component sees its own servers or clients only, so that the two of each kind can
\* change places in all components at once.
Moved(f, S) == {f[x] : x \in S} = S /\ \A x \in S : f[x] # x

Symmetry ==
  {f \in Permutations(Servers \cup Clients \cup GameServers) :
     \/ \A x \in DOMAIN f : f[x] = x
     \/ Moved(f, Servers) /\ Moved(f, Clients) /\ Moved(f, GameServers)}
=============================================================================
