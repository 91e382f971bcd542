------------------------------ MODULE Activation ------------------------------
(***************************************************************************)
(* Registration and activation: an account is inactive until its owner     *)
(* presents the token that was mailed to it, or an admin activates it.     *)
(***************************************************************************)
EXTENDS AccountStore

sessionsUnchanged == <<expired, refreshTokens, handed, revoked, now>>

\* register_user looks the email up: 409 when it is taken.
Register(w, e, pw) ==
  /\ RoomForToken
  /\ users[e].state = "none"
  /\ Begin(w, [NoRequest EXCEPT !.op = "register", !.pc = "commit",
                                !.user = e, !.password = pw])
  /\ UNCHANGED <<users, tokens, owner, mail, lost, sessionsUnchanged>>

\* The user and its token are inserted in one transaction.  users.email is
\* unique: IntegrityError, 500, when the email got taken meanwhile.
CommitRegister(w) ==
  LET e == areq[w].user
  IN  /\ Is(w, {"register"}, "commit")
      /\ IF users[e].state = "none"
         THEN \E t \in Token :
                /\ Fresh(t)
                /\ users' = [users EXCEPT ![e] = [ state |-> "inactive",
                                                   password |-> areq[w].password ]]
                /\ tokens' = tokens \cup {[table |-> "activation", user |-> e, token |-> t]}
                /\ owner' = [owner EXCEPT ![t] = e]
                /\ areq' = [areq EXCEPT ![w].pc = "mail", ![w].token = t]
         ELSE Respond(w) /\ UNCHANGED <<users, tokens, owner>>
      /\ UNCHANGED <<mail, lost, sessionsUnchanged>>

\* _send_email logs and swallows whatever the SMTP client raises.
SendActivationEmail(w) ==
  /\ areq[w].pc = "mail"
  /\ \/ /\ mail' = [mail EXCEPT ![areq[w].token] = "sent"]
        /\ UNCHANGED lost
     \/ /\ lost < MaxLost
        /\ mail' = [mail EXCEPT ![areq[w].token] = "lost"]
        /\ lost' = lost + 1
  /\ Respond(w)
  /\ UNCHANGED <<users, tokens, owner, sessionsUnchanged>>

\* Mutant of Activate: looks the token up without the email.
ActivateByTokenAlone(w, e, t) ==
  /\ mail[t] = "sent"
  /\ \E r \in tokens :
       /\ r.table = "activation" /\ r.token = t
       /\ users[e].state = "inactive"
       /\ Begin(w, [NoRequest EXCEPT !.op = "activate", !.pc = "commit",
                                     !.user = e, !.token = t, !.rows = {r}])
  /\ UNCHANGED <<users, tokens, owner, mail, lost, sessionsUnchanged>>

\* activate_account finds the token by email and value, and the user with it.
\* Tokens come from somebody's mailbox.  400 when there is no such row or the
\* user is active; an expired one is deleted before the 400.
Activate(w, e, t) ==
  LET row == [table |-> "activation", user |-> e, token |-> t]
  IN  /\ mail[t] = "sent"
      /\ row \in tokens
      /\ t \in expired \/ users[e].state = "inactive"
      /\ Begin(w, [NoRequest EXCEPT !.op = "activate",
                                    !.pc = IF t \in expired THEN "drop_token" ELSE "commit",
                                    !.user = e, !.token = t, !.rows = {row}])
      /\ UNCHANGED <<users, tokens, owner, mail, lost, sessionsUnchanged>>

\* An expired token, or (reset_password) a token that does not match what was
\* presented, is deleted by primary key: 400.
DropToken(w) ==
  /\ areq[w].pc = "drop_token"
  /\ tokens' = tokens \ areq[w].rows
  /\ Respond(w)
  /\ UNCHANGED <<users, owner, mail, lost, sessionsUnchanged>>

\* The user and the token by primary key; a row that is gone is only a warning.
\* The email that follows carries no token and cannot fail the request.
CommitActivate(w) ==
  /\ Is(w, {"activate"}, "commit")
  /\ users' = [users EXCEPT ![areq[w].user].state = "active"]
  /\ tokens' = tokens \ areq[w].rows
  /\ Respond(w)
  /\ UNCHANGED <<owner, mail, lost, sessionsUnchanged>>

\* resend_activation: the generic answer unless the user exists and is inactive.
ResendActivation(w, e) ==
  /\ RoomForToken
  /\ users[e].state = "inactive"
  /\ Begin(w, [NoRequest EXCEPT !.op = "resend_activation", !.pc = "delete_old", !.user = e])
  /\ UNCHANGED <<users, tokens, owner, mail, lost, sessionsUnchanged>>

TableOf(op) == IF op = "request_password_reset" THEN "reset" ELSE "activation"

\* DELETE ... WHERE user_id = ...: the rows that are there now.
DeleteOld(w) ==
  /\ areq[w].pc = "delete_old"
  /\ areq' = [areq EXCEPT ![w].pc = "commit",
                          ![w].rows = RowsOf(TableOf(areq[w].op), areq[w].user)]
  /\ UNCHANGED <<users, tokens, owner, mail, lost, sessionsUnchanged>>

\* Mutant of UniqueUser: user_id is not unique in the token tables.
AnyUser(w) == TRUE

\* user_id is unique in both token tables: the deleted rows do not count.
UniqueUser(w) == RowsOf(TableOf(areq[w].op), areq[w].user) \subseteq areq[w].rows

\* Mutant of CommitReplace: mails the new token only when there was an old one.
ReplaceQuietly(w) ==
  LET op == areq[w].op
  IN  /\ Is(w, {"resend_activation", "request_password_reset"}, "commit")
      /\ IF UniqueUser(w)
         THEN \E t \in Token :
                /\ Fresh(t)
                /\ tokens' = (tokens \ areq[w].rows) \cup
                     {[table |-> TableOf(op), user |-> areq[w].user, token |-> t]}
                /\ owner' = [owner EXCEPT ![t] = areq[w].user]
                /\ IF op = "resend_activation" /\ areq[w].rows # {}
                   THEN areq' = [areq EXCEPT ![w].pc = "refresh", ![w].token = t]
                   ELSE Respond(w)
         ELSE Respond(w) /\ UNCHANGED <<tokens, owner>>
      /\ UNCHANGED <<users, mail, lost, sessionsUnchanged>>

\* resend_activation_token, and the same statements in request_password_reset_token:
\* the old rows go and a new one comes in one commit; IntegrityError, 500, when
\* another request put one there.  The reset email carries no token, so what
\* follows the commit of request_password_reset_token changes nothing.
CommitReplace(w) ==
  LET op == areq[w].op
  IN  /\ Is(w, {"resend_activation", "request_password_reset"}, "commit")
      /\ IF UniqueUser(w)
         THEN \E t \in Token :
                /\ Fresh(t)
                /\ tokens' = (tokens \ areq[w].rows) \cup
                     {[table |-> TableOf(op), user |-> areq[w].user, token |-> t]}
                /\ owner' = [owner EXCEPT ![t] = areq[w].user]
                /\ IF op = "resend_activation"
                   THEN areq' = [areq EXCEPT ![w].pc = "refresh", ![w].token = t]
                   ELSE Respond(w)
         ELSE Respond(w) /\ UNCHANGED <<tokens, owner>>
      /\ UNCHANGED <<users, mail, lost, sessionsUnchanged>>

\* db.refresh reads the new row again and fails, 500, when it is gone by now.
RefreshRow(w) ==
  /\ areq[w].pc = "refresh"
  /\ IF \E r \in tokens : r.token = areq[w].token
     THEN Proceed(w, "mail")
     ELSE Respond(w)
  /\ UNCHANGED <<users, tokens, owner, mail, lost, sessionsUnchanged>>

\* activate_user_manually by an admin: 404, or 400 when the user is active.
ActivateManually(w, e) ==
  /\ users[e].state = "inactive"
  /\ Begin(w, [NoRequest EXCEPT !.op = "activate_user_manually", !.pc = "delete_old",
                                !.user = e])
  /\ UNCHANGED <<users, tokens, owner, mail, lost, sessionsUnchanged>>

CommitManual(w) ==
  /\ Is(w, {"activate_user_manually"}, "commit")
  /\ users' = [users EXCEPT ![areq[w].user].state = "active"]
  /\ tokens' = tokens \ areq[w].rows
  /\ Respond(w)
  /\ UNCHANGED <<owner, mail, lost, sessionsUnchanged>>

ActivationArrives(w) ==
  \/ \E e \in Emails, pw \in Passwords : Register(w, e, pw)
  \/ \E e \in Emails, t \in Token : Activate(w, e, t)
  \/ \E e \in Emails : ResendActivation(w, e) \/ ActivateManually(w, e)

ActivationStep(w) ==
  \/ CommitRegister(w)
  \/ SendActivationEmail(w)
  \/ DropToken(w)
  \/ CommitActivate(w)
  \/ DeleteOld(w)
  \/ CommitReplace(w)
  \/ RefreshRow(w)
  \/ CommitManual(w)
=============================================================================
