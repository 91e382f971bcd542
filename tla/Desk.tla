---------------------------------- MODULE Desk ----------------------------------
(***************************************************************************)
(* The requests in flight that Library and Profiles share: a server runs   *)
(* the requests of moderators and of users side by side.                   *)
(***************************************************************************)
EXTENDS Integers, FiniteSets

CONSTANT Workers  \* the requests the server runs at the same time

ASSUME WorkersFinite == IsFiniteSet(Workers)

VARIABLE job      \* the request each worker is running

Idle == [op |-> "none"]

\* The request of w is over, answered or not.
End(w) == job' = [job EXCEPT ![w] = Idle]
=============================================================================
