-------------------------------- MODULE Store --------------------------------
(***************************************************************************)
(* The shared state of the shop: the PostgreSQL tables that the cart, the  *)
(* order, the payment and the catalogue endpoints read and write, the      *)
(* Stripe checkout sessions, and the requests in flight.                   *)
(*                                                                         *)
(* A request runs in one database transaction at READ COMMITTED isolation  *)
(* (database/session.py).  Every awaited SELECT is a step that sees what   *)
(* is committed at that moment; the writes of a request are buffered and   *)
(* take effect together in the step that commits.  A unique or foreign key *)
(* constraint that does not hold at the commit fails the request: the      *)
(* transaction is rolled back and the client gets a 500.  The row locks    *)
(* PostgreSQL takes between a write and its commit make conflicting        *)
(* writers wait for that commit, so they act before or after it as here.   *)
(***************************************************************************)
EXTENDS Integers, FiniteSets, FiniteSetsExt, Money

CONSTANTS
  Users,        \* registered customers; a moderator is one of them
  Movies,       \* movie ids
  Prices,       \* the prices, in cents, that a movie can have
  Workers,      \* the requests the server runs at the same time
  Endpoints,    \* the endpoints that clients call in this instance
  MaxOrders,    \* bound on the orders ever placed
  MaxSessions,  \* bound on the Stripe sessions ever created
  MaxCrashes,   \* bound on the requests that are lost half way
  None          \* no user, no movie

AllEndpoints ==
  { "get_cart", "add_to_cart", "remove_from_cart", "clear_cart",
    "create_order", "cancel_order",
    "create_payment_session", "payment_success", "stripe_webhook",
    "update_movie", "delete_movie" }

ASSUME ConstantsOk ==
  /\ Prices \subseteq Nat \ {0}
  /\ Endpoints \subseteq AllEndpoints
  /\ MaxOrders \in Nat /\ MaxSessions \in Nat /\ MaxCrashes \in Nat
  /\ None \notin Users /\ None \notin Movies

OrderId == 1..MaxOrders
SessionId == 1..MaxSessions

\* A row of order_items without its keys: one movie at the price of the order.
Line == [movie : Movies, price : Prices]

Total(lines) == MapThenSumSet(LAMBDA l : l.price, lines)
\* What Stripe charges at each price (a function, which TLC computes once).
UnitAmounts == [p \in Prices |-> UnitAmount(p)]
Charge(lines) == MapThenSumSet(LAMBDA l : UnitAmounts[l.price], lines)

VARIABLES
  carts,      \* table carts: the users that have a cart row (user_id is unique)
  cartItems,  \* table cart_items: the movies in each user's cart
  catalog,    \* table movies: the movies that exist
  price,      \* movies.price
  orders,     \* tables orders and order_items
  payments,   \* tables payments and payment_items
  notes,      \* table notifications
  mails,      \* confirmation emails sent for each order
  sessions,   \* Stripe: checkout sessions
  acked,      \* Stripe: sessions whose webhook was answered with a 2xx
  req,        \* the request each worker is running
  crashes     \* requests lost so far

tables == <<carts, cartItems, catalog, price, orders, payments, notes>>
vars == <<tables, mails, sessions, acked, req, crashes>>

OrderStatus == {"absent", "pending", "paid", "canceled"}
Order == [ user : Users \cup {None}, status : OrderStatus,
           items : SUBSET Line, total : {Total(l) : l \in SUBSET Line} ]
Payment == [ order : OrderId, user : Users, session : SessionId,
             amount : {Charge(l) : l \in SUBSET Line}, items : SUBSET Line ]
Note == [to : Users, movie : Movies, about : {"excluded", "deleted"}]
Session == [ state : {"none", "open", "paid"}, order : OrderId \cup {0},
             user : Users \cup {None}, amount : {Charge(l) : l \in SUBSET Line} ]

Label == { "idle", "load_cart", "insert_cart", "purchased", "paid_ids",
           "pending_ids", "stripe_call", "find_payment", "load_order",
           "cart_count", "commit", "mail", "answer" }

Request == [ op : AllEndpoints \cup {"none"}, pc : Label,
             user : Users \cup {None}, movie : Movies \cup {None},
             order : OrderId \cup {0}, session : SessionId \cup {0},
             lines : SUBSET Line, owned : SUBSET Movies, inCarts : BOOLEAN ]

Idle == [ op |-> "none", pc |-> "idle", user |-> None, movie |-> None,
          order |-> 0, session |-> 0, lines |-> {}, owned |-> {},
          inCarts |-> FALSE ]

NoOrder == [user |-> None, status |-> "absent", items |-> {}, total |-> Total({})]
NoSession == [state |-> "none", order |-> 0, user |-> None, amount |-> Charge({})]

TablesTypeOK ==
  /\ carts \subseteq Users
  /\ cartItems \in [Users -> SUBSET Movies]
  /\ catalog \subseteq Movies
  /\ price \in [Movies -> Prices]
  /\ orders \in [OrderId -> Order]
  /\ payments \subseteq Payment
  /\ notes \subseteq Note

StoreTypeOK ==
  /\ TablesTypeOK
  /\ mails \in [OrderId -> Nat]
  /\ sessions \in [SessionId -> Session]
  /\ acked \subseteq SessionId
  /\ req \in [Workers -> Request]
  /\ crashes \in Nat

StoreInit ==
  /\ carts = {}
  /\ cartItems = [u \in Users |-> {}]
  /\ catalog = Movies
  /\ price \in [Movies -> Prices]
  /\ orders = [o \in OrderId |-> NoOrder]
  /\ payments = {}
  /\ notes = {}
  /\ mails = [o \in OrderId |-> 0]
  /\ sessions = [s \in SessionId |-> NoSession]
  /\ acked = {}
  /\ req = [w \in Workers |-> Idle]
  /\ crashes = 0

-----------------------------------------------------------------------------
(* The life of a request. *)

\* A free worker takes a request that got past its first statement.  A request
\* that its first statement refuses (404, 400) changes nothing: it stutters.
Accept(w, r) ==
  /\ r.op \in Endpoints
  /\ req[w] = Idle
  /\ req' = [req EXCEPT ![w] = r]

At(w, op, label) == req[w].op = op /\ req[w].pc = label
Goto(w, label) == req' = [req EXCEPT ![w].pc = label]
\* The response is sent (or the exception handler answers): the request is over.
Reply(w) == req' = [req EXCEPT ![w] = Idle]

\* The process dies or the client disconnects: the open transaction is rolled
\* back and the rest of the handler never runs.
Crash(w) ==
  /\ crashes < MaxCrashes
  /\ req[w] # Idle
  /\ Reply(w)
  /\ crashes' = crashes + 1
  /\ UNCHANGED <<tables, mails, sessions, acked>>

-----------------------------------------------------------------------------
(* Queries shared by the endpoints. *)

Placed == {o \in OrderId : orders[o].status # "absent"}
MoviesOf(lines) == {l.movie : l \in lines}

\* The movies in orders of this user with this status
\* (orders.py: _get_paid_movie_ids, _get_pending_movie_ids).
MovieIds(user, status) ==
  UNION { MoviesOf(orders[o].items) :
            o \in {x \in OrderId : /\ orders[x].user = user
                                   /\ orders[x].status = status} }
=============================================================================
