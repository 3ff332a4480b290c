----------------------------- MODULE MCAccounts -----------------------------
(* Accounts for TLC: names, passwords and requests are interchangeable.    *)
EXTENDS Accounts, TLC

Symmetry == Permutations(Names) \cup Permutations(Passwords) \cup Permutations(Requests)
=============================================================================
