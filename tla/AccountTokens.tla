---------------------------- MODULE AccountTokens ----------------------------
(***************************************************************************)
(* The tokens of accounts are right, for any number of users, requests in  *)
(* flight, tokens and logins: every user has one at most, the user is told *)
(* of it, it acts on no other account, and a login lasts until its logout. *)
(***************************************************************************)
EXTENDS Accounts, TLAPS

-----------------------------------------------------------------------------
(* The inductive invariant *)

\* What a request remembers, when own is the owner of each token and us the users.
RequestOK(r, own, us) ==
  /\ r.op = "none" => r = NoRequest
  /\ r.op # "none" => r.user \in Emails
  /\ r.pc \in {"refresh", "mail"} => r.token \in Token
  /\ r.pc \in {"refresh", "mail", "drop_token"} => r.op # "none"
  /\ r.pc = "delete_old" =>
       r.op \in {"resend_activation", "activate_user_manually", "request_password_reset"}
  /\ r.pc = "find_token" => r.op = "reset_password"
  /\ r.op \in {"resend_activation", "request_password_reset"} => us[r.user].state # "none"
  /\ \A x \in r.rows : x.user = r.user
  /\ r.op \in {"activate", "reset_password"} => r.token \in Token
  /\ r.op \in {"activate", "reset_password"} /\ r.pc = "commit" =>
       /\ own[r.token] = r.user
       /\ r.rows = {[ user |-> r.user, token |-> r.token,
                      table |-> IF r.op = "activate" THEN "activation" ELSE "reset" ]}

RequestsInv ==
  /\ areq \in [Workers -> AccountRequest]
  /\ \A w \in Workers : RequestOK(areq[w], owner, users)

\* A stored token was generated for the user of its row, and that user exists.
RowsOwned == \A r \in tokens : owner[r.token] = r.user /\ users[r.user].state # "none"

TablesTyped ==
  /\ users \in [Emails -> User]
  /\ tokens \subseteq TokenRow
  /\ owner \in [Token -> Emails \cup {None}]
  /\ expired \subseteq Token
  /\ mail \in [Token -> {"none", "sent", "lost"}]
  /\ lost \in 0..MaxLost

TokensInv == RowsOwned /\ OneTokenPerUser /\ NoStrandedToken

LoginsInv ==
  /\ refreshTokens \subseteq RefreshToken
  /\ handed \subseteq RefreshToken
  /\ revoked \subseteq RefreshToken
  /\ now \in 0..MaxSeconds
  /\ SessionsLast

AccountInv == TablesTyped /\ RequestsInv /\ TokensInv /\ LoginsInv

\* Tokens keep their owner and users do not disappear.
Grows ==
  /\ \A t \in Token : owner[t] # None => owner'[t] = owner[t]
  /\ \A e \in Emails : users[e].state # "none" => users'[e].state # "none"

-----------------------------------------------------------------------------
(* What a step does to the requests *)

LEMMA NoRequestOK ==
  ASSUME NEW own, NEW us
  PROVE  NoRequest \in AccountRequest /\ RequestOK(NoRequest, own, us)
BY AccountConstantsOk DEF NoRequest, AccountRequest, RequestOK

LEMMA RequestsKept ==
  ASSUME AccountInv, Grows, NEW w \in Workers, NEW r \in AccountRequest,
         areq' = [areq EXCEPT ![w] = r], RequestOK(r, owner', users')
  PROVE  RequestsInv'
<1>1. areq' \in [Workers -> AccountRequest]
  BY DEF AccountInv, RequestsInv
<1>2. ASSUME NEW x \in Workers PROVE RequestOK(areq'[x], owner', users')
  <2>1. CASE x = w
    BY <2>1 DEF AccountInv, RequestsInv
  <2>2. CASE x # w
    <3>1. areq'[x] = areq[x] /\ areq[x] \in AccountRequest /\ RequestOK(areq[x], owner, users)
      BY <2>2 DEF AccountInv, RequestsInv
    <3>2. areq[x].op \in {"resend_activation", "request_password_reset"}
            => users'[areq[x].user].state # "none"
      BY <3>1 DEF RequestOK, Grows
    <3>3. areq[x].op \in {"activate", "reset_password"} /\ areq[x].pc = "commit"
            => owner'[areq[x].token] = areq[x].user
      BY <3>1, AccountConstantsOk DEF RequestOK, Grows
    <3> QED BY <3>1, <3>2, <3>3 DEF RequestOK
  <2> QED BY <2>1, <2>2
<1> QED BY <1>1, <1>2 DEF RequestsInv

LEMMA RespondKept ==
  ASSUME AccountInv, Grows, NEW w \in Workers, Respond(w)
  PROVE  RequestsInv'
BY NoRequestOK, RequestsKept DEF Respond

\* No stored activation token is forgotten: w sends no email, and the rows that are
\* new are those that its request will mail.
LEMMA MailKept ==
  ASSUME AccountInv, NEW w \in Workers, areq[w].pc \notin {"refresh", "mail"},
         NEW r, areq' = [areq EXCEPT ![w] = r], mail' = mail,
         \A x \in tokens' \ tokens : x.table = "activation" =>
            r.pc \in {"refresh", "mail"} /\ r.token = x.token
  PROVE  NoStrandedToken'
<1>1. areq'[w] = r /\ \A x \in Workers \ {w} : areq'[x] = areq[x]
  BY DEF AccountInv, RequestsInv
<1>2. ASSUME NEW x \in tokens', x.table = "activation", x \in tokens
      PROVE  \/ mail'[x.token] \in {"sent", "lost"}
             \/ \E y \in Workers : areq'[y].pc \in {"refresh", "mail"} /\ areq'[y].token = x.token
  <2>1. \/ mail[x.token] \in {"sent", "lost"}
        \/ \E y \in Workers : areq[y].pc \in {"refresh", "mail"} /\ areq[y].token = x.token
    BY <1>2 DEF AccountInv, TokensInv, NoStrandedToken
  <2> QED BY <1>1, <2>1
<1> QED BY <1>1, <1>2 DEF NoStrandedToken

-----------------------------------------------------------------------------
(* Arriving requests *)

\* A request that is only accepted changes nothing else.
LEMMA BeginKeeps ==
  ASSUME AccountInv, NEW w \in Workers, NEW r \in AccountRequest, Begin(w, r),
         RequestOK(r, owner, users), r.pc \notin {"refresh", "mail"},
         UNCHANGED <<users, tokens, owner, expired, mail, lost, refreshTokens, handed, revoked, now>>
  PROVE  AccountInv'
<1>1. Grows
  BY DEF Grows
<1>2. areq' = [areq EXCEPT ![w] = r] /\ areq[w] = NoRequest
  BY DEF Begin
<1>3. RequestsInv'
  BY <1>1, <1>2, RequestsKept
<1>4. NoStrandedToken'
  <2>1. areq[w].pc \notin {"refresh", "mail"}
    BY <1>2 DEF NoRequest
  <2>2. \A x \in tokens' \ tokens : x.table = "activation" =>
           r.pc \in {"refresh", "mail"} /\ r.token = x.token
    OBVIOUS
  <2> QED BY <1>2, <2>1, <2>2, MailKept
<1> QED BY <1>3, <1>4 DEF AccountInv, TablesTyped, TokensInv, RowsOwned, OneTokenPerUser,
                          LoginsInv, SessionsLast, CanRefresh

\* A worker without a request refers to nothing.
LEMMA ArrivalsKeep ==
  ASSUME AccountInv, NEW w \in Workers,
         \/ \E e \in Emails, pw \in Passwords : Register(w, e, pw) \/ ChangePassword(w, e, pw)
         \/ \E e \in Emails, t \in Token : Activate(w, e, t)
         \/ \E e \in Emails, t \in Token, pw \in Passwords : ResetPassword(w, e, t, pw)
         \/ \E e \in Emails : \/ ResendActivation(w, e) \/ ActivateManually(w, e)
                              \/ RequestPasswordReset(w, e) \/ Login(w, e)
  PROVE  AccountInv'
<1> DEFINE Typed(r) == r \in AccountRequest /\ RequestOK(r, owner, users)
                       /\ r.pc \notin {"refresh", "mail"}
<1> USE DEF sessionsUnchanged, passwordUnchanged, loginUnchanged
<1>1. NoRequest \in AccountRequest
  BY NoRequestOK
<1>2. ASSUME NEW e \in Emails, NEW pw \in Passwords, Register(w, e, pw)
      PROVE  AccountInv'
  <2> DEFINE r == [NoRequest EXCEPT !.op = "register", !.pc = "commit", !.user = e, !.password = pw]
  <2>1. Typed(r)
    BY <1>1 DEF NoRequest, AccountRequest, AllAccountEndpoints, RequestOK
  <2> QED BY <1>2, <2>1, BeginKeeps DEF Register
<1>3. ASSUME NEW e \in Emails, NEW pw \in Passwords, ChangePassword(w, e, pw)
      PROVE  AccountInv'
  <2> DEFINE r == [NoRequest EXCEPT !.op = "change_password", !.pc = "commit",
                                    !.user = e, !.password = pw]
  <2>1. Typed(r)
    BY <1>1 DEF NoRequest, AccountRequest, AllAccountEndpoints, RequestOK
  <2> QED BY <1>3, <2>1, BeginKeeps DEF ChangePassword
<1>4. ASSUME NEW e \in Emails, NEW t \in Token, Activate(w, e, t)
      PROVE  AccountInv'
  <2> DEFINE row == [table |-> "activation", user |-> e, token |-> t]
             r == [NoRequest EXCEPT !.op = "activate",
                     !.pc = IF t \in expired THEN "drop_token" ELSE "commit",
                     !.user = e, !.token = t, !.rows = {row}]
  <2>1. owner[t] = e /\ row \in TokenRow
    BY <1>4 DEF Activate, AccountInv, TablesTyped, TokensInv, RowsOwned
  <2>2. r \in AccountRequest
    BY <1>1, <2>1 DEF NoRequest, AccountRequest, AllAccountEndpoints
  <2>3. Typed(r)
    BY <2>1, <2>2 DEF NoRequest, RequestOK
  <2> QED BY <1>4, <2>3, BeginKeeps DEF Activate
<1>5. ASSUME NEW e \in Emails, NEW t \in Token, NEW pw \in Passwords, ResetPassword(w, e, t, pw)
      PROVE  AccountInv'
  <2> DEFINE r == [NoRequest EXCEPT !.op = "reset_password", !.pc = "find_token",
                                    !.user = e, !.token = t, !.password = pw]
  <2>1. Typed(r)
    BY <1>1 DEF NoRequest, AccountRequest, AllAccountEndpoints, RequestOK
  <2> QED BY <1>5, <2>1, BeginKeeps DEF ResetPassword
<1>6. ASSUME NEW e \in Emails, ResendActivation(w, e) PROVE AccountInv'
  <2> DEFINE r == [NoRequest EXCEPT !.op = "resend_activation", !.pc = "delete_old", !.user = e]
  <2>1. Typed(r)
    BY <1>1, <1>6 DEF NoRequest, AccountRequest, AllAccountEndpoints, RequestOK, ResendActivation
  <2> QED BY <1>6, <2>1, BeginKeeps DEF ResendActivation
<1>7. ASSUME NEW e \in Emails, ActivateManually(w, e) PROVE AccountInv'
  <2> DEFINE r == [NoRequest EXCEPT !.op = "activate_user_manually", !.pc = "delete_old",
                                    !.user = e]
  <2>1. Typed(r)
    BY <1>1 DEF NoRequest, AccountRequest, AllAccountEndpoints, RequestOK
  <2> QED BY <1>7, <2>1, BeginKeeps DEF ActivateManually
<1>8. ASSUME NEW e \in Emails, RequestPasswordReset(w, e) PROVE AccountInv'
  <2> DEFINE r == [NoRequest EXCEPT !.op = "request_password_reset", !.pc = "delete_old",
                                    !.user = e]
  <2>1. Typed(r)
    BY <1>1, <1>8 DEF NoRequest, AccountRequest, AllAccountEndpoints, RequestOK, RequestPasswordReset
  <2> QED BY <1>8, <2>1, BeginKeeps DEF RequestPasswordReset
<1>9. ASSUME NEW e \in Emails, Login(w, e) PROVE AccountInv'
  <2> DEFINE r == [NoRequest EXCEPT !.op = "login", !.pc = "commit", !.user = e, !.second = now]
  <2>1. now \in 0..MaxSeconds
    BY DEF AccountInv, LoginsInv
  <2>2. Typed(r)
    BY <1>1, <2>1 DEF NoRequest, AccountRequest, AllAccountEndpoints, RequestOK
  <2> QED BY <1>9, <2>2, BeginKeeps DEF Login
<1> QED BY <1>2, <1>3, <1>4, <1>5, <1>6, <1>7, <1>8, <1>9

-----------------------------------------------------------------------------
(* Steps of a request that only change what it remembers *)

LEMMA ReadingsKeep ==
  ASSUME AccountInv, NEW w \in Workers,
         DeleteOld(w) \/ RefreshRow(w) \/ FindResetToken(w)
  PROVE  AccountInv'
<1> USE DEF sessionsUnchanged, passwordUnchanged
<1>1. UNCHANGED <<users, tokens, owner, expired, mail, lost, refreshTokens, handed, revoked, now>>
  BY DEF DeleteOld, RefreshRow, FindResetToken
<1>2. Grows
  BY <1>1 DEF Grows
<1>3. areq[w] \in AccountRequest /\ RequestOK(areq[w], owner, users)
  BY DEF AccountInv, RequestsInv
<1>4. RequestsInv' /\ NoStrandedToken'
  <2>1. CASE DeleteOld(w)
    <3> DEFINE rows == RowsOf(TableOf(areq[w].op), areq[w].user)
               r == [areq[w] EXCEPT !.pc = "commit", !.rows = rows]
    <3>1. rows \subseteq TokenRow /\ \A x \in rows : x.user = areq[w].user
      BY DEF RowsOf, AccountInv, TablesTyped
    <3> HIDE DEF rows
    <3>2. areq' = [areq EXCEPT ![w] = r] /\ areq[w].pc = "delete_old"
      BY <2>1 DEF DeleteOld, rows, AccountInv, RequestsInv
    <3>3. areq[w].op \notin {"none", "activate", "reset_password"}
      BY <1>3, <3>2 DEF RequestOK
    <3>4. r \in AccountRequest /\ r.pc = "commit" /\ RequestOK(r, owner', users')
      BY <1>1, <1>3, <3>1, <3>3 DEF AccountRequest, RequestOK
    <3> QED BY <1>1, <1>2, <3>2, <3>4, RequestsKept, MailKept
  <2>2. CASE RefreshRow(w)
    <3>1. CASE \E x \in tokens : x.token = areq[w].token
      <4> DEFINE r == [areq[w] EXCEPT !.pc = "mail"]
      <4>1. areq' = [areq EXCEPT ![w] = r] /\ areq[w].pc = "refresh"
        BY <2>2, <3>1 DEF RefreshRow, Proceed, AccountInv, RequestsInv
      <4>2. r \in AccountRequest /\ RequestOK(r, owner', users')
        BY <1>1, <1>3, <4>1 DEF AccountRequest, RequestOK
      <4>3. r.pc = "mail" /\ r.token = areq[w].token
        BY <1>3 DEF AccountRequest
      <4>4. NoStrandedToken'
        BY <1>1, <4>1, <4>3 DEF AccountInv, RequestsInv, TokensInv, NoStrandedToken
      <4> QED BY <1>2, <4>1, <4>2, <4>4, RequestsKept
    <3>2. CASE \A x \in tokens : x.token # areq[w].token
      <4>1. Respond(w)
        BY <2>2, <3>2 DEF RefreshRow
      <4>2. NoStrandedToken'
        BY <1>1, <3>2, <4>1
        DEF Respond, AccountInv, RequestsInv, TokensInv, NoStrandedToken
      <4> QED BY <1>2, <4>1, <4>2, RespondKept
    <3> QED BY <3>1, <3>2
  <2>3. CASE FindResetToken(w)
    <3>1. areq[w].pc = "find_token" /\ areq[w].op = "reset_password"
      BY <1>3, <2>3 DEF FindResetToken, RequestOK
    <3>2. CASE Respond(w)
      BY <1>1, <1>2, <3>1, <3>2, RespondKept, MailKept DEF Respond
    <3>3. CASE ~Respond(w)
      <4>1. PICK row \in RowsOf("reset", areq[w].user) :
              areq' = [areq EXCEPT ![w].rows = {row},
                         ![w].pc = IF row.token # areq[w].token \/ row.token \in expired
                                   THEN "drop_token" ELSE "commit"]
        BY <2>3, <3>3 DEF FindResetToken
      <4> DEFINE label == IF row.token # areq[w].token \/ row.token \in expired
                          THEN "drop_token" ELSE "commit"
                 r == [areq[w] EXCEPT !.rows = {row}, !.pc = label]
      <4>2. areq' = [areq EXCEPT ![w] = r]
        BY <4>1 DEF AccountInv, RequestsInv
      <4>3. /\ row \in TokenRow /\ row.user = areq[w].user /\ owner[row.token] = row.user
            /\ row = [user |-> areq[w].user, token |-> row.token, table |-> "reset"]
        BY <4>1 DEF RowsOf, AccountInv, TablesTyped, TokensInv, RowsOwned, TokenRow
      <4>4. label \in {"drop_token", "commit"} /\ (label = "commit" => row.token = areq[w].token)
        OBVIOUS
      <4> HIDE DEF label
      <4>5. r \in AccountRequest /\ r.pc = label /\ r.rows = {row} /\ r.op = "reset_password"
            /\ r.user = areq[w].user /\ r.token = areq[w].token
        BY <1>3, <3>1, <4>3, <4>4 DEF AccountRequest
      <4>6. r.token \in Token /\ r.user \in Emails
        BY <1>3, <3>1, <4>5 DEF RequestOK
      <4>7. RequestOK(r, owner', users')
        BY <1>1, <4>3, <4>4, <4>5, <4>6 DEF RequestOK
      <4>8. r.pc \notin {"refresh", "mail"} /\ areq[w].pc \notin {"refresh", "mail"}
        BY <3>1, <4>4, <4>5
      <4> HIDE DEF r
      <4> QED BY <1>1, <1>2, <4>2, <4>5, <4>7, <4>8, RequestsKept, MailKept
    <3> QED BY <3>2, <3>3
  <2> QED BY <2>1, <2>2, <2>3
<1> QED BY <1>1, <1>4 DEF AccountInv, TablesTyped, TokensInv, RowsOwned, OneTokenPerUser,
                          LoginsInv, SessionsLast, CanRefresh

-----------------------------------------------------------------------------
(* Commits *)

\* The commits that only delete tokens and change what is known of a user.
LEMMA DeletionsKeep ==
  ASSUME AccountInv, NEW w \in Workers,
         \/ DropToken(w) \/ CommitActivate(w) \/ CommitManual(w)
         \/ CommitReset(w) \/ CommitChange(w)
  PROVE  AccountInv'
<1> USE DEF sessionsUnchanged, passwordUnchanged
<1>1. areq[w] \in AccountRequest /\ RequestOK(areq[w], owner, users)
  BY DEF AccountInv, RequestsInv
<1>2. /\ Respond(w) /\ tokens' \subseteq tokens
      /\ UNCHANGED <<owner, expired, mail, lost, refreshTokens, handed, revoked, now>>
      /\ areq[w].pc \in {"drop_token", "commit"} /\ areq[w].op # "none"
  BY <1>1 DEF DropToken, CommitActivate, CommitManual, CommitReset, CommitChange, Is, RequestOK
<1>3. areq[w].user \in Emails
  BY <1>1, <1>2 DEF RequestOK
<1>4. \/ users' = users
      \/ users' = [users EXCEPT ![areq[w].user].state = "active"]
      \/ users' = [users EXCEPT ![areq[w].user].password = areq[w].password]
  BY DEF DropToken, CommitActivate, CommitManual, CommitReset, CommitChange
<1>5. users' \in [Emails -> User] /\ Grows
  BY <1>1, <1>2, <1>3, <1>4 DEF AccountInv, TablesTyped, User, AccountRequest, Grows
<1>6. RequestsInv'
  BY <1>2, <1>5, RespondKept
<1>7. NoStrandedToken'
  BY <1>2, MailKept DEF Respond
<1>8. RowsOwned'
  BY <1>2, <1>5 DEF AccountInv, TokensInv, RowsOwned, TablesTyped, TokenRow, Grows
<1>9. OneTokenPerUser'
  BY <1>2 DEF AccountInv, TokensInv, OneTokenPerUser
<1> QED BY <1>2, <1>5, <1>6, <1>7, <1>8, <1>9
        DEF AccountInv, TablesTyped, TokensInv, LoginsInv, SessionsLast, CanRefresh

\* The new token t of user e is stored beside the rows kept, and r is what the request
\* remembers then.  What is left of the old rows is of other users or of the other table.
StoresToken(w, t, table, e, kept, r) ==
  /\ Fresh(t)
  /\ kept \subseteq tokens /\ \A x \in kept : ~(x.table = table /\ x.user = e)
  /\ tokens' = kept \cup {[table |-> table, user |-> e, token |-> t]}
  /\ owner' = [owner EXCEPT ![t] = e]
  /\ users' \in [Emails -> User] /\ users'[e].state # "none"
  /\ \A x \in Emails : users[x].state # "none" => users'[x].state # "none"
  /\ areq' = [areq EXCEPT ![w] = r] /\ RequestOK(r, owner', users')
  /\ areq[w].pc \notin {"refresh", "mail"}
  /\ table = "activation" => r.pc \in {"refresh", "mail"} /\ r.token = t
  /\ UNCHANGED <<expired, mail, lost, refreshTokens, handed, revoked, now>>

LEMMA NewTokenKeeps ==
  ASSUME AccountInv, NEW w \in Workers, NEW t \in Token, NEW table \in {"activation", "reset"},
         NEW e \in Emails, NEW kept, NEW r \in AccountRequest,
         StoresToken(w, t, table, e, kept, r)
  PROVE  AccountInv'
<1> USE DEF StoresToken
<1> DEFINE new == [table |-> table, user |-> e, token |-> t]
<1>1. new \in TokenRow /\ new.table = table /\ new.user = e /\ new.token = t
  BY DEF TokenRow
<1>2. owner' \in [Token -> Emails \cup {None}] /\ owner'[t] = e
  BY DEF AccountInv, TablesTyped
<1>3. Grows
  BY DEF Grows, Fresh, AccountInv, TablesTyped
<1>4. RequestsInv'
  BY <1>3, RequestsKept
<1>5. NoStrandedToken'
  BY <1>1, MailKept
<1>6. RowsOwned'
  <2>1. \A x \in tokens : x \in TokenRow /\ owner[x.token] = x.user /\ x.user \in Emails
                          /\ users[x.user].state # "none"
    BY DEF AccountInv, TablesTyped, TokensInv, RowsOwned, TokenRow
  <2>2. \A x \in tokens : owner'[x.token] = x.user
    BY <1>3, <2>1, AccountConstantsOk DEF Grows, TokenRow
  <2> QED BY <1>1, <1>2, <2>1, <2>2 DEF RowsOwned
<1>7. OneTokenPerUser'
  <2> HIDE DEF new
  <2>1. \A x, y \in kept : x.table = y.table /\ x.user = y.user => x = y
    BY DEF AccountInv, TokensInv, OneTokenPerUser
  <2>2. tokens' = kept \cup {new}
    BY DEF new
  <2> QED BY <1>1, <2>1, <2>2 DEF OneTokenPerUser
<1> QED BY <1>1, <1>2, <1>4, <1>5, <1>6, <1>7
        DEF AccountInv, TablesTyped, TokensInv, LoginsInv, SessionsLast, CanRefresh

LEMMA RegistrationKeeps ==
  ASSUME AccountInv, NEW w \in Workers, CommitRegister(w) PROVE AccountInv'
<1> DEFINE e == areq[w].user
<1> USE DEF sessionsUnchanged
<1>1. areq[w] \in AccountRequest /\ RequestOK(areq[w], owner, users)
  BY DEF AccountInv, RequestsInv
<1>2. areq[w].op = "register" /\ areq[w].pc = "commit" /\ e \in Emails
  BY <1>1 DEF CommitRegister, Is, RequestOK
<1>3. CASE users[e].state # "none"
  <2>1. Respond(w) /\ UNCHANGED <<users, tokens, owner, expired, mail, lost, refreshTokens,
                                  handed, revoked, now>>
    BY <1>3 DEF CommitRegister
  <2>2. RequestsInv'
    BY <2>1, RespondKept DEF Grows
  <2>3. NoStrandedToken'
    BY <1>2, <2>1, MailKept DEF Respond
  <2> QED BY <2>1, <2>2, <2>3
          DEF AccountInv, TablesTyped, TokensInv, RowsOwned, OneTokenPerUser, LoginsInv,
              SessionsLast, CanRefresh
<1>4. CASE users[e].state = "none"
  <2>1. PICK t \in Token :
          /\ Fresh(t)
          /\ users' = [users EXCEPT ![e] = [state |-> "inactive", password |-> areq[w].password]]
          /\ tokens' = tokens \cup {[table |-> "activation", user |-> e, token |-> t]}
          /\ owner' = [owner EXCEPT ![t] = e]
          /\ areq' = [areq EXCEPT ![w].pc = "mail", ![w].token = t]
    BY <1>4 DEF CommitRegister
  <2> DEFINE r == [areq[w] EXCEPT !.pc = "mail", !.token = t]
  <2>2. areq' = [areq EXCEPT ![w] = r]
    BY <2>1 DEF AccountInv, RequestsInv
  <2>3. /\ r \in AccountRequest /\ r.pc = "mail" /\ r.token = t /\ r.op = "register"
        /\ RequestOK(r, owner', users')
    BY <1>1, <1>2 DEF AccountRequest, RequestOK
  <2>4. /\ users' \in [Emails -> User] /\ users'[e].state # "none"
        /\ \A x \in Emails : users[x].state # "none" => users'[x].state # "none"
    BY <1>1, <1>2, <2>1 DEF AccountInv, TablesTyped, User, AccountRequest
  <2>5. \A x \in tokens : ~(x.table = "activation" /\ x.user = e)
    BY <1>4 DEF AccountInv, TokensInv, RowsOwned
  <2>6. UNCHANGED <<expired, mail, lost, refreshTokens, handed, revoked, now>>
    BY DEF CommitRegister
  <2> HIDE DEF r, e
  <2>7. StoresToken(w, t, "activation", e, tokens, r)
    BY <1>2, <2>1, <2>2, <2>3, <2>4, <2>5, <2>6 DEF StoresToken
  <2> QED BY <1>2, <2>3, <2>7, NewTokenKeeps
<1> QED BY <1>3, <1>4

LEMMA ReplacementKeeps ==
  ASSUME AccountInv, NEW w \in Workers, CommitReplace(w) PROVE AccountInv'
<1> DEFINE e == areq[w].user
           table == TableOf(areq[w].op)
<1> USE DEF sessionsUnchanged
<1>1. areq[w] \in AccountRequest /\ RequestOK(areq[w], owner, users)
  BY DEF AccountInv, RequestsInv
<1>2. /\ areq[w].op \in {"resend_activation", "request_password_reset"} /\ areq[w].pc = "commit"
      /\ e \in Emails /\ users[e].state # "none"
      /\ UNCHANGED <<users, expired, mail, lost, refreshTokens, handed, revoked, now>>
  BY <1>1 DEF CommitReplace, Is, RequestOK
<1>3. CASE ~UniqueUser(w)
  <2>1. Respond(w) /\ UNCHANGED <<tokens, owner>>
    BY <1>3 DEF CommitReplace
  <2>2. RequestsInv'
    BY <1>2, <2>1, RespondKept DEF Grows
  <2>3. NoStrandedToken'
    BY <1>2, <2>1, MailKept DEF Respond
  <2> QED BY <1>2, <2>1, <2>2, <2>3
          DEF AccountInv, TablesTyped, TokensInv, RowsOwned, OneTokenPerUser, LoginsInv,
              SessionsLast, CanRefresh
<1>4. CASE UniqueUser(w)
  <2>1. PICK t \in Token :
          /\ Fresh(t)
          /\ tokens' = (tokens \ areq[w].rows) \cup {[table |-> table, user |-> e, token |-> t]}
          /\ owner' = [owner EXCEPT ![t] = e]
          /\ IF areq[w].op = "resend_activation"
             THEN areq' = [areq EXCEPT ![w].pc = "refresh", ![w].token = t]
             ELSE Respond(w)
    BY <1>4 DEF CommitReplace
  <2> DEFINE kept == tokens \ areq[w].rows
  <2>2. kept \subseteq tokens /\ \A x \in kept : ~(x.table = table /\ x.user = e)
    BY <1>4 DEF UniqueUser, RowsOf
  <2>3. table \in {"activation", "reset"} /\ (table = "activation" => areq[w].op = "resend_activation")
    BY <1>2 DEF TableOf
  <2>4. PICK r \in AccountRequest :
          /\ areq' = [areq EXCEPT ![w] = r]
          /\ RequestOK(r, owner', users')
          /\ areq[w].op = "resend_activation" => r.pc = "refresh" /\ r.token = t
    <3>1. CASE areq[w].op = "resend_activation"
      <4> DEFINE r == [areq[w] EXCEPT !.pc = "refresh", !.token = t]
      <4>1. areq' = [areq EXCEPT ![w] = r]
        BY <2>1, <3>1 DEF AccountInv, RequestsInv
      <4>2. /\ r \in AccountRequest /\ r.pc = "refresh" /\ r.token = t
            /\ RequestOK(r, owner', users')
        BY <1>1, <1>2, <3>1 DEF AccountRequest, RequestOK
      <4> QED BY <4>1, <4>2
    <3>2. CASE areq[w].op # "resend_activation"
      BY <2>1, <3>2, NoRequestOK DEF Respond
    <3> QED BY <3>1, <3>2
  <2> HIDE DEF e, table, kept
  <2>5. tokens' = kept \cup {[table |-> table, user |-> e, token |-> t]}
    BY <2>1 DEF kept
  <2>6. users' \in [Emails -> User]
    BY <1>2 DEF AccountInv, TablesTyped
  <2>7. StoresToken(w, t, table, e, kept, r)
    BY <1>2, <2>1, <2>2, <2>3, <2>4, <2>5, <2>6 DEF StoresToken
  <2> QED BY <1>2, <2>3, <2>4, <2>7, NewTokenKeeps
<1> QED BY <1>3, <1>4

-----------------------------------------------------------------------------
(* Emails, lost requests, logins and time *)

LEMMA MailingsKeep ==
  ASSUME AccountInv, NEW w \in Workers, SendActivationEmail(w) \/ LoseRequest(w)
  PROVE  AccountInv'
<1> USE DEF sessionsUnchanged, accountTables
<1>1. areq[w] \in AccountRequest /\ RequestOK(areq[w], owner, users)
  BY DEF AccountInv, RequestsInv
<1>2. /\ Respond(w)
      /\ UNCHANGED <<users, tokens, owner, expired, refreshTokens, handed, revoked, now>>
  BY DEF SendActivationEmail, LoseRequest
<1>3. lost' \in 0..MaxLost
  BY AccountConstantsOk DEF SendActivationEmail, LoseRequest, AccountInv, TablesTyped
<1>4. CASE areq[w].pc \in {"refresh", "mail"}
  <2>1. areq[w].token \in Token
    BY <1>1, <1>4 DEF RequestOK
  <2>2. PICK fate \in {"sent", "lost"} : mail' = [mail EXCEPT ![areq[w].token] = fate]
    BY <1>4 DEF SendActivationEmail, LoseRequest
  <2>3. mail' \in [Token -> {"none", "sent", "lost"}]
    BY <2>1, <2>2 DEF AccountInv, TablesTyped
  <2>4. NoStrandedToken'
    <3>1. ASSUME NEW x \in tokens, x.table = "activation"
          PROVE  \/ mail'[x.token] \in {"sent", "lost"}
                 \/ \E y \in Workers : areq'[y].pc \in {"refresh", "mail"} /\ areq'[y].token = x.token
      <4>1. x.token \in Token
        BY DEF AccountInv, TablesTyped, TokenRow
      <4>2. CASE x.token = areq[w].token
        BY <2>2, <4>1, <4>2 DEF AccountInv, TablesTyped
      <4>3. CASE x.token # areq[w].token
        <5>1. mail'[x.token] = mail[x.token]
          BY <2>2, <4>1, <4>3 DEF AccountInv, TablesTyped
        <5>2. \A y \in Workers \ {w} : areq'[y] = areq[y]
          BY <1>2 DEF Respond, AccountInv, RequestsInv
        <5> QED BY <3>1, <4>3, <5>1, <5>2 DEF AccountInv, TokensInv, NoStrandedToken
      <4> QED BY <4>2, <4>3
    <3> QED BY <1>2, <3>1 DEF NoStrandedToken
  <2>5. RequestsInv'
    BY <1>2, RespondKept DEF Grows
  <2> QED BY <1>2, <1>3, <2>3, <2>4, <2>5
          DEF AccountInv, TablesTyped, TokensInv, RowsOwned, OneTokenPerUser, LoginsInv,
              SessionsLast, CanRefresh
<1>5. CASE areq[w].pc \notin {"refresh", "mail"}
  <2>1. mail' = mail
    BY <1>5 DEF SendActivationEmail, LoseRequest
  <2>2. RequestsInv'
    BY <1>2, RespondKept DEF Grows
  <2>3. NoStrandedToken'
    BY <1>2, <1>5, <2>1, MailKept DEF Respond
  <2> QED BY <1>2, <1>3, <2>1, <2>2, <2>3
          DEF AccountInv, TablesTyped, TokensInv, RowsOwned, OneTokenPerUser, LoginsInv,
              SessionsLast, CanRefresh
<1> QED BY <1>4, <1>5

LEMMA LoginKeeps ==
  ASSUME AccountInv, NEW w \in Workers, CommitLogin(w) PROVE AccountInv'
<1> USE DEF loginUnchanged
<1>1. areq[w] \in AccountRequest /\ RequestOK(areq[w], owner, users)
  BY DEF AccountInv, RequestsInv
<1>2. areq[w].op = "login" /\ areq[w].pc = "commit" /\ areq[w].user \in Emails
  BY <1>1 DEF CommitLogin, Is, RequestOK
<1>3. Respond(w) /\ UNCHANGED <<users, tokens, owner, expired, mail, now, lost, revoked>>
  BY DEF CommitLogin
<1>4. Issued(w) \in RefreshToken
  BY <1>1, <1>2 DEF Issued, RefreshToken, AccountRequest
<1>5. LoginsInv'
  BY <1>3, <1>4 DEF CommitLogin, AccountInv, LoginsInv, SessionsLast, CanRefresh
<1>6. RequestsInv'
  BY <1>3, RespondKept DEF Grows
<1>7. NoStrandedToken'
  BY <1>2, <1>3, MailKept DEF Respond
<1> QED BY <1>3, <1>5, <1>6, <1>7 DEF AccountInv, TablesTyped, TokensInv, RowsOwned, OneTokenPerUser

\* What happens outside of the token tables and of the requests.
LEMMA RestKeeps ==
  ASSUME AccountInv,
         \/ \E w \in Workers, r \in handed : Logout(w, r)
         \/ \E t \in Token : Expire(t)
         \/ Tick
         \/ UNCHANGED accountVars
  PROVE  AccountInv'
<1> USE DEF loginUnchanged, accountTables, accountVars
<1>1. UNCHANGED <<users, tokens, owner, mail, lost, areq>>
  BY DEF Logout, Expire, Tick
<1>2. expired' \subseteq Token
  BY DEF Logout, Expire, Tick, AccountInv, TablesTyped
<1>3. LoginsInv'
  BY AccountConstantsOk
  DEF Logout, Expire, Tick, AccountInv, LoginsInv, SessionsLast, CanRefresh
<1> QED BY <1>1, <1>2, <1>3
        DEF AccountInv, TablesTyped, RequestsInv, TokensInv, RowsOwned, OneTokenPerUser,
            NoStrandedToken

-----------------------------------------------------------------------------
(* The theorems *)

LEMMA InitAccounts == AccountInit => AccountInv
<1> SUFFICES ASSUME AccountInit PROVE AccountInv
  OBVIOUS
<1>1. RequestsInv
  BY NoRequestOK DEF AccountInit, RequestsInv
<1>2. TablesTyped /\ TokensInv /\ LoginsInv
  BY AccountConstantsOk
  DEF AccountInit, TablesTyped, User, TokensInv, RowsOwned, OneTokenPerUser, NoStrandedToken,
      LoginsInv, SessionsLast
<1> QED BY <1>1, <1>2 DEF AccountInv

LEMMA StepAccounts == AccountInv /\ [Next]_accountVars => AccountInv'
<1> SUFFICES ASSUME AccountInv, [Next]_accountVars PROVE AccountInv'
  OBVIOUS
<1>1. ASSUME NEW w \in Workers, ActivationArrives(w) \/ SessionArrives(w)
      PROVE  AccountInv'
  BY <1>1, ArrivalsKeep, RestKeeps DEF ActivationArrives, SessionArrives
<1>2. ASSUME NEW w \in Workers, ActivationStep(w) \/ SessionStep(w) \/ LoseRequest(w)
      PROVE  AccountInv'
  BY <1>2, ReadingsKeep, DeletionsKeep, RegistrationKeeps, ReplacementKeeps, MailingsKeep,
     LoginKeeps
  DEF ActivationStep, SessionStep
<1>3. ASSUME NEW t \in Token, Expire(t) PROVE AccountInv'
  BY <1>3, RestKeeps
<1>4. CASE Tick \/ UNCHANGED accountVars
  BY <1>4, RestKeeps
<1> QED BY <1>1, <1>2, <1>3, <1>4 DEF Next

\* The inductive invariant holds in every reachable state.
THEOREM AccountInvariant == Spec => []AccountInv
BY InitAccounts, StepAccounts, PTL DEF Spec

\* Every row, token and request keeps its type, whatever the interleaving of the
\* endpoints of routes/accounts.py.
THEOREM AccountsTyped == Spec => []TypeOK
<1>1. AccountInv => TypeOK
  BY DEF AccountInv, TablesTyped, RequestsInv, LoginsInv, TypeOK, AccountTypeOK
<1> QED BY <1>1, AccountInvariant, PTL

\* However registrations, resends, resets, activations and failures overlap, a user has
\* one activation and one reset token at most, and the activation token that is
\* stored is the one that was mailed or is about to be (routes/accounts.py:95-139,
\* 236-263, 286-289).
THEOREM TokensCorrect == Spec => [](OneTokenPerUser /\ NoStrandedToken)
<1>1. AccountInv => OneTokenPerUser /\ NoStrandedToken
  BY DEF AccountInv, TokensInv
<1> QED BY <1>1, AccountInvariant, PTL

\* An account is activated, and its password reset, only with a token that was generated
\* for it, also when the token was replaced in between (routes/accounts.py:185-202,
\* 315-326).
THEOREM TokensActOnTheirOwner == Spec => []OwnTokenOnly
<1>1. AccountInv => OwnTokenOnly
  BY DEF AccountInv, RequestsInv, RequestOK, OwnTokenOnly, Is
<1> QED BY <1>1, AccountInvariant, PTL

\* A refresh token that a client holds is good until it is logged out
\* (routes/accounts.py:447-456, 475).
THEOREM LoginsLast == Spec => []SessionsLast
<1>1. AccountInv => SessionsLast
  BY DEF AccountInv, LoginsInv
<1> QED BY <1>1, AccountInvariant, PTL
=============================================================================
