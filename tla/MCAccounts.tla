------------------------------ MODULE MCAccounts ------------------------------
(***************************************************************************)
(* Instances of Accounts for TLC.                                          *)
(***************************************************************************)
EXTENDS Accounts, TLC

\* Sound: no property names an email, a password or a worker.
Symmetry == Permutations(Emails) \cup Permutations(Passwords) \cup Permutations(Workers)
=============================================================================
