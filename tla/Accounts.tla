------------------------------- MODULE Accounts -------------------------------
(***************************************************************************)
(* The accounts of the shop: registration, activation, passwords and       *)
(* logins, with Workers requests in flight at a time, emails that do not   *)
(* arrive and requests that are lost half way.                             *)
(***************************************************************************)
EXTENDS Activation, Sessions

Next ==
  \/ \E w \in Workers : \/ ActivationArrives(w) \/ SessionArrives(w)
                        \/ ActivationStep(w) \/ SessionStep(w)
                        \/ LoseRequest(w)
  \/ \E t \in Token : Expire(t)
  \/ Tick

Spec == AccountInit /\ [][Next]_accountVars

TypeOK == AccountTypeOK

\* A user has at most one activation and one reset token, whatever resends,
\* resets, registrations and activations overlap (services/accounts.py:39-46,
\* routes/accounts.py:286-289; models/accounts.py:170, 180).
OneTokenPerUser ==
  \A r, s \in tokens : r.table = s.table /\ r.user = s.user => r = s

\* The activation token that is stored for an inactive user was mailed, or will be
\* by a request in flight, or that email was lost: no race of two resends or of a
\* resend with a registration leaves the user with a live token nobody sends
\* (routes/accounts.py:135-139, 255-263).
NoStrandedToken ==
  \A r \in tokens :
    r.table = "activation" =>
      \/ mail[r.token] \in {"sent", "lost"}
      \/ \E w \in Workers : areq[w].pc \in {"refresh", "mail"} /\ areq[w].token = r.token

\* A request that is about to activate an account or to set its password holds a
\* token of the right kind that was generated for that account, also when the
\* token was replaced since it was looked up, and the row it goes on to delete is
\* that token's (routes/accounts.py:192-202, 315-326).
OwnTokenOnly ==
  \A w \in Workers :
    Is(w, {"activate", "reset_password"}, "commit") =>
      /\ owner[areq[w].token] = areq[w].user
      /\ areq[w].rows = {[ user |-> areq[w].user, token |-> areq[w].token,
                           table |-> IF areq[w].op = "activate" THEN "activation" ELSE "reset" ]}

\* A refresh token that a login returned stays good until it is logged out, through
\* other logins of the user in the same second (routes/accounts.py:447-456).
SessionsLast == \A r \in handed \ revoked : CanRefresh(r)
=============================================================================
