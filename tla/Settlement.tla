------------------------------ MODULE Settlement ------------------------------
(***************************************************************************)
(* What the payment component promises, without requests, tables or        *)
(* interleavings: a captured session is written to the ledger at most once *)
(* and at most one session settles an order; the buyer is told at most     *)
(* once, and only about an order that is in the ledger; nothing that was   *)
(* captured, recorded or sent is ever taken back.                          *)
(***************************************************************************)
EXTENDS Naturals

CONSTANTS Order, Session, None

VARIABLES
  captured,  \* [Session -> Order \cup {None}]: the order a paid session is for
  ledger,    \* [Order -> Session \cup {None}]: the session that settled an order
  told       \* [Order -> Nat]: confirmations sent

Init ==
  /\ captured = [s \in Session |-> None]
  /\ ledger = [o \in Order |-> None]
  /\ told = [o \in Order |-> 0]

\* The customer pays a session for an order.
Capture(s, o) ==
  /\ captured[s] = None
  /\ captured' = [captured EXCEPT ![s] = o]
  /\ UNCHANGED <<ledger, told>>

\* A captured session settles its order, once.
Record(s, o) ==
  /\ captured[s] = o
  /\ ledger[o] = None
  /\ ledger' = [ledger EXCEPT ![o] = s]
  /\ UNCHANGED <<captured, told>>

\* The buyer of a settled order is told, once.
Tell(o) ==
  /\ ledger[o] # None
  /\ told[o] = 0
  /\ told' = [told EXCEPT ![o] = 1]
  /\ UNCHANGED <<captured, ledger>>

Next ==
  \/ \E s \in Session, o \in Order : Capture(s, o) \/ Record(s, o)
  \/ \E o \in Order : Tell(o)

Spec == Init /\ [][Next]_<<captured, ledger, told>>

\* Every captured order is settled, by one of its sessions.
Live == \A s \in Session, o \in Order : captured[s] = o ~> ledger[o] # None
=============================================================================
