------------------------------- MODULE Sessions -------------------------------
(***************************************************************************)
(* Passwords and logins: changing and resetting a password, and the        *)
(* refresh tokens that login_user stores and logout_user deletes.          *)
(***************************************************************************)
EXTENDS AccountStore

passwordUnchanged == <<owner, expired, mail, refreshTokens, handed, revoked, now, lost>>
loginUnchanged == <<users, tokens, owner, expired, mail, now, lost>>

\* request_password_reset_token: the generic answer unless the user is active.
\* The statements that follow are those of resend_activation.
RequestPasswordReset(w, e) ==
  /\ RoomForToken
  /\ users[e].state = "active"
  /\ Begin(w, [NoRequest EXCEPT !.op = "request_password_reset", !.pc = "delete_old",
                                !.user = e])
  /\ UNCHANGED <<users, tokens, passwordUnchanged>>

\* reset_password loads the user: 400 unless it is active.  The client presents
\* the token of this user or any other; a mistyped one is refused the same way.
ResetPassword(w, e, t, pw) ==
  /\ users[e].state = "active"
  /\ owner[t] # None
  /\ Begin(w, [NoRequest EXCEPT !.op = "reset_password", !.pc = "find_token",
                                !.user = e, !.token = t, !.password = pw])
  /\ UNCHANGED <<users, tokens, passwordUnchanged>>

\* The user's token row: 400 when there is none.  A row that is expired, or is
\* not the token that was presented, is deleted before the 400.
FindResetToken(w) ==
  LET rows == RowsOf("reset", areq[w].user)
  IN  /\ areq[w].pc = "find_token"
      /\ IF rows = {}
         THEN Respond(w)
         ELSE \E row \in rows :
                areq' = [areq EXCEPT ![w].rows = {row},
                           ![w].pc = IF row.token # areq[w].token \/ row.token \in expired
                                     THEN "drop_token" ELSE "commit"]
      /\ UNCHANGED <<users, tokens, passwordUnchanged>>

\* The password and the token by primary key; a row that is gone is only a warning.
CommitReset(w) ==
  /\ Is(w, {"reset_password"}, "commit")
  /\ users' = [users EXCEPT ![areq[w].user].password = areq[w].password]
  /\ tokens' = tokens \ areq[w].rows
  /\ Respond(w)
  /\ UNCHANGED passwordUnchanged

\* change_password, with the access token of an earlier login and the old password.
ChangePassword(w, e, pw) ==
  /\ \E h \in handed : h.user = e
  /\ Begin(w, [NoRequest EXCEPT !.op = "change_password", !.pc = "commit",
                                !.user = e, !.password = pw])
  /\ UNCHANGED <<users, tokens, passwordUnchanged>>

CommitChange(w) ==
  /\ Is(w, {"change_password"}, "commit")
  /\ users' = [users EXCEPT ![areq[w].user].password = areq[w].password]
  /\ Respond(w)
  /\ UNCHANGED <<tokens, passwordUnchanged>>

-----------------------------------------------------------------------------
(* Logins *)

RoomForLogin ==
  Cardinality(handed) + Cardinality({w \in Workers : areq[w].op = "login"}) < MaxLogins

\* login_user: 400 unless the user is active and the password is right.  The
\* JWTs are made before the next statement.
Login(w, e) ==
  /\ RoomForLogin
  /\ users[e].state = "active"
  /\ Begin(w, [NoRequest EXCEPT !.op = "login", !.pc = "commit", !.user = e, !.second = now])
  /\ UNCHANGED <<refreshTokens, handed, revoked, loginUnchanged>>

\* Mutant of Issued: rounds the second up.
IssuedRoundedUp(w) == [user |-> areq[w].user, second |-> areq[w].second + 1]

Issued(w) == [user |-> areq[w].user, second |-> areq[w].second]

\* Mutant of CommitLogin: a login ends the earlier sessions of the user.
CommitLoginAlone(w) ==
  /\ Is(w, {"login"}, "commit")
  /\ refreshTokens' = {r \in refreshTokens : r.user # areq[w].user} \cup {Issued(w)}
  /\ handed' = handed \cup {Issued(w)}
  /\ Respond(w)
  /\ UNCHANGED <<revoked, loginUnchanged>>

\* The refresh token is inserted; when the same one is there already the
\* IntegrityError is rolled back, and the client gets the token either way.
CommitLogin(w) ==
  /\ Is(w, {"login"}, "commit")
  /\ refreshTokens' = refreshTokens \cup {Issued(w)}
  /\ handed' = handed \cup {Issued(w)}
  /\ Respond(w)
  /\ UNCHANGED <<revoked, loginUnchanged>>

\* logout_user deletes the token that the client presents, valid or not; it
\* reads nothing before that.
Logout(w, r) ==
  /\ "logout" \in AccountEndpoints
  /\ areq[w] = NoRequest
  /\ r \in handed
  /\ refreshTokens' = refreshTokens \ {r}
  /\ revoked' = revoked \cup {r}
  /\ UNCHANGED <<handed, areq, loginUnchanged>>

\* refresh_access_token answers with a new access token for a token in the
\* table (its expiry, seven days, is beyond MaxSeconds); it changes nothing.
CanRefresh(r) == r \in refreshTokens

Tick ==
  /\ now < MaxSeconds
  /\ now' = now + 1
  /\ UNCHANGED <<accountTables, expired, mail, handed, revoked, areq, lost>>

SessionArrives(w) ==
  \/ \E e \in Emails : RequestPasswordReset(w, e) \/ Login(w, e)
  \/ \E e \in Emails, t \in Token, pw \in Passwords : ResetPassword(w, e, t, pw)
  \/ \E e \in Emails, pw \in Passwords : ChangePassword(w, e, pw)
  \/ \E r \in handed : Logout(w, r)

SessionStep(w) ==
  \/ FindResetToken(w)
  \/ CommitReset(w)
  \/ CommitChange(w)
  \/ CommitLogin(w)
=============================================================================
