----------------------------- MODULE MCSessions -----------------------------
(* Sessions with few accounts, for TLC. *)
EXTENDS Sessions, TLC

\* Accounts are alike, and so are sessions.
MCSymmetry == Permutations(Account) \cup Permutations(Session)
=============================================================================
