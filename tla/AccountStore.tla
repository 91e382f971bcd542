----------------------------- MODULE AccountStore -----------------------------
(***************************************************************************)
(* The state of the account endpoints (routes/accounts.py): the users, the *)
(* activation and password reset tokens, the refresh tokens, the mail, and *)
(* the requests in flight.  The rules of Store.tla hold here too: a SELECT *)
(* is a step that sees what is committed, the writes of a request take     *)
(* effect in the step that commits, and a unique constraint that does not  *)
(* hold then rolls the request back.  DELETE ... WHERE user_id = ... is a  *)
(* step of its own: it deletes, at the commit, the rows it saw.            *)
(*                                                                         *)
(* Emails stand for users: no endpoint deletes a user or changes an email. *)
(***************************************************************************)
EXTENDS Integers, FiniteSets

CONSTANTS
  Emails,            \* the addresses people register with, in lower case
  Passwords,         \* passwords that pass validate_password_strength
  Workers,           \* the requests the server runs at the same time
  AccountEndpoints,  \* the endpoints that clients call in this instance
  MaxTokens,         \* bound on the activation and reset tokens ever generated
  MaxSeconds,        \* bound on the clock
  MaxLogins,         \* bound on the refresh tokens ever returned
  MaxExpired,        \* bound on the tokens that are left to expire
  MaxLost,           \* bound on the requests lost half way and the emails lost
  None               \* no email, no password

AllAccountEndpoints ==
  { "register", "activate", "resend_activation", "activate_user_manually",
    "request_password_reset", "reset_password", "change_password",
    "login", "logout" }

ASSUME AccountConstantsOk ==
  /\ AccountEndpoints \subseteq AllAccountEndpoints
  /\ MaxTokens \in Nat /\ MaxSeconds \in Nat /\ MaxLogins \in Nat
  /\ MaxExpired \in Nat /\ MaxLost \in Nat
  /\ None \notin Emails /\ None \notin Passwords

Token == 1..MaxTokens
\* A row of activation_tokens or of password_reset_tokens.
TokenRow == [table : {"activation", "reset"}, user : Emails, token : Token]
\* A refresh token is a JWT over the user and the second of its expiry: two
\* logins of a user within a second get the same one.
RefreshToken == [user : Emails, second : 0..MaxSeconds]

VARIABLES
  users,      \* table users
  tokens,     \* tables activation_tokens and password_reset_tokens
  owner,      \* the user each token was generated for, None if not generated
  expired,    \* tokens older than 24 hours
  mail,       \* what became of the activation email with each token
  refreshTokens,  \* table refresh_tokens
  handed,     \* refresh tokens that a login returned to its client
  revoked,    \* refresh tokens that were logged out
  now,        \* the clock, in seconds
  areq,       \* the request each worker is running
  lost        \* requests and emails lost so far

accountTables == <<users, tokens, owner, refreshTokens>>
accountVars == <<accountTables, expired, mail, handed, revoked, now, areq, lost>>

User == [state : {"none", "inactive", "active"}, password : Passwords \cup {None}]

AccountRequest ==
  [ op : AllAccountEndpoints \cup {"none"},
    pc : {"idle", "delete_old", "find_token", "drop_token", "commit", "refresh", "mail"},
    user : Emails \cup {None}, token : Token \cup {0}, rows : SUBSET TokenRow,
    password : Passwords \cup {None}, second : 0..MaxSeconds ]

NoRequest == [ op |-> "none", pc |-> "idle", user |-> None, token |-> 0, rows |-> {},
               password |-> None, second |-> 0 ]

AccountTypeOK ==
  /\ users \in [Emails -> User]
  /\ tokens \subseteq TokenRow
  /\ owner \in [Token -> Emails \cup {None}]
  /\ expired \subseteq Token
  /\ mail \in [Token -> {"none", "sent", "lost"}]
  /\ refreshTokens \subseteq RefreshToken
  /\ handed \subseteq RefreshToken
  /\ revoked \subseteq RefreshToken
  /\ now \in 0..MaxSeconds
  /\ areq \in [Workers -> AccountRequest]
  /\ lost \in 0..MaxLost

AccountInit ==
  /\ users = [e \in Emails |-> [state |-> "none", password |-> None]]
  /\ tokens = {}
  /\ owner = [t \in Token |-> None]
  /\ expired = {}
  /\ mail = [t \in Token |-> "none"]
  /\ refreshTokens = {} /\ handed = {} /\ revoked = {}
  /\ now = 0
  /\ areq = [w \in Workers |-> NoRequest]
  /\ lost = 0

-----------------------------------------------------------------------------
(* The life of a request. *)

\* A free worker takes a request that got past its first statement; one that
\* the first statement refuses changes nothing: it stutters.
Begin(w, r) ==
  /\ r.op \in AccountEndpoints
  /\ areq[w] = NoRequest
  /\ areq' = [areq EXCEPT ![w] = r]

Is(w, ops, label) == areq[w].op \in ops /\ areq[w].pc = label
Proceed(w, label) == areq' = [areq EXCEPT ![w].pc = label]
Respond(w) == areq' = [areq EXCEPT ![w] = NoRequest]

\* The process dies or the client disconnects.  An email that was due is not sent.
LoseRequest(w) ==
  /\ lost < MaxLost
  /\ areq[w] # NoRequest
  /\ Respond(w)
  /\ lost' = lost + 1
  /\ mail' = IF areq[w].pc \in {"refresh", "mail"}
             THEN [mail EXCEPT ![areq[w].token] = "lost"]
             ELSE mail
  /\ UNCHANGED <<accountTables, expired, handed, revoked, now>>

-----------------------------------------------------------------------------
(* Tokens *)

RowsOf(table, e) == {r \in tokens : r.table = table /\ r.user = e}

\* secrets.token: the value is new.
Fresh(t) == /\ owner[t] = None
            /\ \A x \in 1..(t - 1) : owner[x] # None

\* Every request in flight that may generate a token finds a free one.
Generators == {"register", "resend_activation", "request_password_reset"}
RoomForToken ==
  Cardinality({t \in Token : owner[t] # None})
    + Cardinality({w \in Workers : /\ areq[w].op \in Generators
                                   /\ areq[w].pc \in {"delete_old", "commit"}}) < MaxTokens

\* A token is valid for 24 hours.
Expire(t) ==
  /\ owner[t] # None
  /\ t \notin expired
  /\ Cardinality(expired) < MaxExpired
  /\ expired' = expired \cup {t}
  /\ UNCHANGED <<accountTables, mail, handed, revoked, now, areq, lost>>
=============================================================================
