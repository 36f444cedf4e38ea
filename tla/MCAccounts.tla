------------------------------ MODULE MCAccounts ------------------------------
(* Small instances of Accounts: the symmetries of clients and names.         *)
EXTENDS Accounts, TLC

Symmetry == Permutations(Clients) \cup Permutations(TokenNames) \cup Permutations(Origins)
=============================================================================
