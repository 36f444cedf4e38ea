---------------------------- MODULE MCNetSession ----------------------------
(* Model values for NetSession: interchangeable connections and descriptors. *)
EXTENDS NetSession, TLC

Symmetry == Permutations(Clients) \cup Permutations(Fds)
=============================================================================
