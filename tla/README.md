# A TLA+ model of the online cinema

This directory specifies and checks the online cinema API in `src/`: a FastAPI
application over PostgreSQL (SQLAlchemy, asyncpg) that sells movies, takes payments
with Stripe and keeps accounts, reactions and notifications. Paths such as `orders.py`
below are relative to `src/src/routes/` unless they name another directory.

- **Modelled and checked:** cart, orders, payments (with Stripe and the customer), the
  catalogue and what it does to sales, the price conversion, accounts and logins,
  reactions and comments, profiles and their avatars.
- **Proved for every value of the constants:** typing of the checkout system, its payment
  ledger and its tables, that it implements an abstract `Settlement`, and which single
  overlap of requests each rule of carts and orders depends on; the price conversion, in
  doubles and for every price of the schema; the token and login invariants of accounts; the
  typing and consistency of reactions, comments and their notifications, and that they
  implement an abstract `Opinions`; that the locks of
  the catalogue's statements are enough for whole movies, and that edits of profiles survive.
- **Six disagreements** between the code and its own documentation have a run that
  shows each.

## 1. The system

### Components, state and operations

| Component | Source | State | Operations |
|---|---|---|---|
| cart | `cart.py` | `carts`, `cart_items` | get, add, remove, clear; all create the cart on first use |
| orders | `orders.py` | `orders`, `order_items`, `notifications` | create from the cart, cancel, list, get |
| payments | `payments.py`, `services/payments.py` | `payments`, `payment_items`, `orders.status` | open a Stripe session, success redirect, webhook, list |
| catalogue | `movies.py`, `services/movies_service.py` | `movies` and its genres, directors, stars, certifications | create, update, delete, search, list |
| accounts | `accounts.py`, `services/accounts.py`, `security/` | `users`, `activation_tokens`, `password_reset_tokens`, `refresh_tokens` | register, activate, resend, manual activation, password change/reset, login, refresh, logout, change group |
| reactions | `movies.py` | `movie_favorites`, `movie_likes`, `movie_ratings`, `movie_comments`, reply notifications | add/remove favorite, like, dislike, cancel, rate, comment, reply, delete |
| notifications | `notifications.py` | `notifications` | list, mark as read |
| profiles | `profiles.py`, `storages/` | `user_profiles`, an S3 bucket | get or create, update, upload an avatar |
| admin | `admin.py` | — | listings of carts, orders and payments |
| cleanup | `tasks/` | token tables | Celery jobs that delete expired tokens |
| email | `notifications/` | — | SMTP |

### How the parts interact

Every request is a coroutine on one event loop, in one database transaction of its own at
PostgreSQL's default READ COMMITTED. No endpoint locks what it reads (`FOR UPDATE` is never
used) and none raises the isolation level, so **what a request read can be old when it
commits**; only the unique and foreign key constraints, and the locks that a write holds to
the end of its transaction, stand between two requests.
Components interact through tables that they share:

- `create_order` reads the cart and the orders and empties the cart; `add_to_cart` and
  `delete_movie` read the orders to see what was sold.
- a settlement writes `payments`, `payment_items` and the status of an order;
  `cancel_order` writes that same status.
- `delete_movie` deletes, by cascades of the schema, rows of `cart_items`, `order_items`,
  `payment_items`, likes, ratings and comments of any user.
- `create_movie` and `update_movie` insert the genres, directors and stars that they name, so
  requests for different movies meet in the same rows; both write statement by statement,
  in one transaction.
- An avatar goes to the object store before the database knows of it.
- Stripe keeps the checkout sessions. A customer pays on its page and comes back through
  `payment_success`; independently Stripe calls `stripe_webhook` until it gets a 2xx. Both
  run `_process_paid_session`.

### What is hard here

Overlapping requests (all of the above), a webhook that is delivered again, the process
dying between commit, email and answer, legal sequences of calls that end in a state nobody
wanted (cancel, reorder, pay both), constraint violations as the only conflict detection,
transactions that wait for each other's locks half way, two stores that no transaction
spans, and a conversion of decimals through binary floating point. The list, line by line, with the
properties that cover each entry, is `hazards` in `PROJECT.json`.

### What makes each component correct

- **payments:** one payment per order and per session; only captured money is recorded;
  a PAID order has its payment and the payment has the order's items; at most one
  confirmation, never before the payment; a webhook is acknowledged only when the order
  is settled; captured money is settled in the end.
- **orders:** a movie is never in two pending orders, nor in two paid ones, of a user; an
  order's items, prices and owner stay what they were; PAID is final.
- **cart:** an owned movie does not get in; what leaves the cart for an order is in the
  order or announced as excluded.
- **catalogue:** nothing refers to a movie that is gone; nothing that was bought disappears;
  a title belongs to one movie; a movie and its links appear together, a new tag with a movie
  that has it; an edit replaces what it names and keeps to that.
- **price conversion:** what Stripe charges is what was ordered, at most a cent per item less and
  never more.
- **accounts:** one token per user, of which the user hears; a token acts only on its own
  account; a session lasts until its logout.
- **reactions:** one reaction and one rating per user and movie; replies hang on a
  comment and are announced; nothing hangs on a deleted movie; a click takes effect as a whole
  and on nothing else, and a deleted comment takes its thread along and no more.
- **profiles:** an avatar is a file that is there and that its user uploaded; edits and uploads do not undo each other.

## 2. The modules

```
Money ── Store ──┬── Cart ─────┐
                 ├── Orders ───┤
                 ├── Payments ─┼── Checkout ──┬── MCCheckout        (TLC)
                 └── Catalog ──┘      │       └── CheckoutTypes ──┬── CheckoutLedger                      (TLAPS)
                              Settlement (abstract, by INSTANCE) └── CheckoutRows ── CheckoutOverlap
Money ── MoneyRounding      (TLAPS)

AccountStore ──┬── Activation ─┬── Accounts ── MCAccounts
               └── Sessions ───┘       └── AccountTokens   (TLAPS)
Reactions ── Comments ──┬── MCReactions
                 │      └── ReactionRows    (TLAPS)
             Opinions (abstract, by INSTANCE)
Desk ──┬── Library ──┬── Content ── Edits ──┬── MCContent
       └── Profiles ─┘                      └── ContentRows    (TLAPS)
```

### One way of modelling requests

The four models share their conventions.

- `Workers` are the requests in flight. `req[w]` (`areq[w]`, `doing[w]`, `job[w]`) is the handler's
  local state: the endpoint, where it is (`pc`) and what it has read. A worker is a slot of
  the model; the server itself has no limit.
- **A SELECT is a step**, which sees what is committed then. The loads of related rows that
  SQLAlchemy issues for one query (`selectinload`) are one step with it. A read whose only
  use is the response is left out.
- **The writes of a handler take effect in its commit step**, all or none. A unique or
  foreign key constraint that does not hold in that moment rolls everything back and ends
  the request with a 500. Where a `DELETE ... WHERE` is followed by other statements
  (token tables, reactions) it is a step of its own, which fixes the rows the commit
  deletes. The row locks between a write and its commit order conflicting writers; the
  order is that of the commits. `Library`, whose transactions write again and again before
  they commit, has the locks in its state instead.
- A `DELETE` or `UPDATE` by primary key acts on whatever the row is by then. If the row is
  gone, SQLAlchemy only warns about a DELETE and raises `StaleDataError` for an UPDATE.
- A request that its first statement refuses changes nothing: it is a stuttering step, so
  the guard of the arriving action is the check of the first statement.
- `Crash` (`LoseRequest`, `Abandon`) is the process dying, or the client disconnecting, between any
  two steps: the transaction is rolled back and the rest never runs.
- An operator whose comment starts with "Mutant of" is a plausible bug, used by nothing in
  the model. Put in place of the operator it names, it makes a property fail, which shows
  that the property depends on the code.

### Checkout

| Module | Models | Correspondence |
|---|---|---|
| `Store` | the tables of `models/cart.py`, `orders.py`, `payments.py`, `movies.py`; sessions; requests | `carts`/`cartItems`/`catalog`/`price`/`orders`/`payments`/`notes` are tables; an order row carries its `order_items` as `Line`s (movie, price at order), a payment its `payment_items`. `sessions` and `acked` are Stripe's, `mails` counts the confirmations sent |
| `Cart` | `cart.py` | `OpenCart`, `AddToCart` arrive; `CheckPurchased` = `_is_movie_purchased`; `CartMissing`, `InsertCart`, `CartLoaded` = `_get_or_create_cart`, whose insert is committed separately; `CommitAdd`, `CommitRemove`, `CommitClear` |
| `Orders` | `create_order`, `cancel_order` | `CreateOrder` loads the cart, `ReadPaidIds`, `ReadPendingIds` (with the loop and its 409 and 400), `CommitOrder`; `CancelOrder` reads, `CommitCancel` writes |
| `Payments` | `payments.py`, `StripeService` | `CreatePaymentSession`, `CreateCheckoutSession`; `Settle` arrives from either endpoint, then `FindPayment`, `LoadOrder`, `CommitPayment`, `SendConfirmation`, `AnswerSettled` = `_process_paid_session` |
| `Catalog` | `update_movie` (price), `delete_movie` | `CheckUnsold`, `CountCarts`, `CommitDelete` with its cascades, `DeleteRefused` (a favorite's foreign key has no ON DELETE; see `Comments` for that table) |
| `Checkout` | the composition, the properties | `Arrive`, `Step`, `Crash`, `CustomerPays`; `FairSpec` |
| `Settlement` | nothing: the promise of the payment component | `Capture`, `Record`, `Tell` |
| `Money` | `int(float(price) * 100)`, `services/payments.py:19` | `DirectUnitAmount` rounds as IEEE does, step by step; `UnitAmountOf` is a closed form that TLC can evaluate at 53 bits, and that is proved equal to it; `Store` tabulates it for its prices (`UnitAmounts`) |

The status of an order, and "absent" for a row that was never inserted, is in
`orders[o].status`. Order ids and session ids are given out in order. Prices are positive
integers of cents; the request schema accepts any `price: float`, but free movies and negative
prices are left out, since they change no property but the conversion's.

Stripe and the customer are external. They are modelled from how `services/payments.py`
uses them: a session is created open, the customer may pay it at any time (Stripe's 24 hour
expiry only makes fewer things happen), and the event is delivered, any number of times at
once, until an answer was a 2xx. `_send_email` swallows every exception, so an email is sent
or not and the request continues.

### Accounts

`AccountStore` has the tables (`users`, `tokens` for both token tables, `refreshTokens`),
who each token was generated for (`owner`), what became of the activation email that carries
it (`mail`), the clock in seconds, and what clients hold (`handed`, `revoked`).
`Activation` has `register_user`, `activate_account`, `resend_activation_token` and
`activate_user_manually`; `Sessions` has the password endpoints and login, refresh and
logout. Some choices follow from the code:

- an email is a user: no endpoint deletes a user or changes an email;
- `resend_activation` and `request_password_reset` run the same statements on different
  tables: `DeleteOld` and `CommitReplace` are shared. The reset email carries no token
  (`accounts.py:296`), so nothing follows that commit, and whoever resets a password in
  the model presents some token that was generated;
- `activate_account` finds its row by email and value, while `reset_password` finds the row
  of the user and *deletes* it when it is not what was presented;
- a refresh token is a JWT over the user id and the second it expires, so logins in one
  second share one (`RefreshToken`). The insert's IntegrityError is caught.

Not in the model: `change_user_group`, the letter case of emails, the wrong-password branch
of `login_user` and `change_password` (it changes nothing), and expired refresh tokens
(seven days, far beyond `MaxSeconds`).

### Reactions

`Reactions` has favorites, likes and dislikes and ratings; `Comments` extends it with
comments, replies, deletions and what `delete_movie` does to these tables. `rows` of a
request are the ids its earlier DELETE or SELECT saw. `Thread` is what deleting a comment
deletes: the ORM's cascade over the replies it loaded, then the database's. A comment that
is gone by then has no thread left, and its deletion is a success that changes nothing.
`Opinions` models nothing: it is the promise of the component, in which a like, a rating, a
comment, a deletion is one step without requests or statements in between.
`notifications` of purchases and deletions are in `Store.notes`, those of replies in
`Reactions.notices`.

### Content: the catalogue and the profiles

`Desk` is the requests in flight; `Library` the endpoints of moderators, `Profiles` those of
`profiles.py`, `Content` the two side by side. `Edits` adds a history variable for one property:
`disturbed` is the updates of a movie that another request which saves the same movie overlaps. No
action reads it (`EditsAreContent` proves that `Edits` behaves as `Content`).

`Library` follows `create_movie`, `update_movie` and `delete_movie` statement by statement:

| Source | Actions |
|---|---|
| `create_movie`, its flush | `CreateMovie`, `InsertMovie` |
| `update_movie`; the UPDATE that its first SELECT flushes | `UpdateMovie`, `UpdateRow`, `UpdateTitle` |
| `validate_ids`, `get_or_create_by_names`, kind by kind (`prepare_related`) | `ValidateIds`; `FindNames`, `InsertNames` |
| `sync_associations`: DELETE, then INSERT by INSERT with its foreign key | `FindLinks`, `Unlink`; `AddLink`, `ShareMovie` |
| `delete_movie`: the links that the flush loads, and the movie | `DeleteMovie`, `LoadLinks`, `DropLinks`, `DropMovie` |
| `db.commit()`; a rollback | `Commit`; `Abandon`, `DeadlockDetected` |

- The tables are `title` (a movie's unique name, year and time as one value), `tags` (genres,
  directors and stars, by their unique names) and `links` (the three association tables).
- What a transaction has written is in its job until it commits: `claims` of titles, tags
  `made`, links `dropped` and `added`. With its `locks` on the row of its movie this is
  what other transactions wait for (`Held`, `Against`, `Free`): an uncommitted row of a
  unique index blocks a second insert of the value; a foreign key takes a share lock on
  the movie that is linked, which conflicts with the key lock of a DELETE and of an UPDATE
  of the unique columns, and not with the row lock of any other UPDATE.
- `Deadlocked` says that a request waits for requests that wait for each other;
  `DeadlockDetected` ends one of them, which one is open.
- A DELETE of `sync_associations` sees the links that are committed when it starts (`FindLinks`), and
  deletes each of them once it has its lock (`Unlink`). A link that another transaction has deleted
  by then is passed over (`Without`), also when that transaction inserted the same link again, and
  a link that another transaction inserted meanwhile is not seen at all: two updates that replace
  the genres of one movie leave both lists (run `edit_race`).
- Left out: the other columns (one flag: the request sets some or not), `certification_id`
  (`Abandon`), requests that change a part of the title, and what a deletion does
  elsewhere, which `Catalog` and `Comments` have.

`Profiles` has `_get_or_create_profile` with its own commit, the UPDATE of the columns that
differ from what was loaded, and the upload, whose file is in the `bucket` before and
whatever happens next. A file is its number, so its owner is the user in its key.

## 3. The runs

All constants are model values or small sets; the six passing runs explore up to 4
million states each and end within three minutes. `CHECK_DEADLOCK FALSE` is given throughout:
the bounds below end every behaviour.

| Bound | What it limits |
|---|---|
| `MaxOrders`, `MaxSessions` | ids; a request that may still need one reserves it, so no handler ever waits for an id |
| `MaxCrashes`, `MaxLost`, `MaxExpired` | requests lost; emails and requests lost; tokens left to expire |
| `MaxTokens`, `MaxLogins`, `MaxSeconds` | tokens generated; refresh tokens handed out; the clock |
| `MaxRows`, `MaxFavorites` | likes, ratings and comments inserted; favorites at a time |
| `MaxMovies`, `MaxFiles` | movies ever inserted; files ever uploaded |

### Passing

- **settlement** — one order, two sessions, three requests in flight, one crash, and the order
  canceled or its movie deleted at any moment. Three is the smallest number with a redirect
  and a webhook of one session against a settlement of the other, and two of them against a
  cancellation or a deletion. Shows the payment invariants, and that every step is a step of
  `Settlement` or a stutter.
- **serial** — one request at a time, two movies at two prices that a moderator changes at any
  time, two orders, two sessions, a crash, every endpoint but the deletion of movies. The
  rules of the documentation hold then: no movie in two pending orders, PAID is final, an
  owned movie never gets into the cart, a session charges the conversion of what its
  order's items cost when they were ordered (`ChargeIsOrderPrice`), which is never more than the
  total that the order shows and at most a cent per item less (`NeverOvercharged`). The theorems of `CheckoutOverlap` say how much of "one request at a time"
  each rule needs. Two orders let an order be canceled and repeated, two sessions let both be
  paid. The prices are 29 and 100 cents: one that the conversion cuts, to 28, and one that it does not.
  The charges come from the closed form of the conversion at 53 bits; TLC's integers are too small
  for the step-by-step form there. At 12 to 20 bits the assumption `ClosedFormIsCode` of
  `MCCheckout` compares the two for the prices 1 to 1000; that they agree at 53 bits, for every
  DECIMAL(10, 2), is a theorem (`MoneyRounding!DoubleConversion`).
- **progress** — under `FairSpec`: captured money is settled, every request is answered.
- **accounts** — two users, two requests in flight, three tokens, one lost and one expired.
  Three tokens are two resends for one user beside another user's token.
- **reactions** — two users, one of them a moderator, two movies, two requests in flight, three
  rows and two favorites. Three rows are a comment, a reply and a reply to the reply. With two
  requests in flight, two clicks of one user, or a click and a deletion, overlap at every step.
  Every step is a step of `Opinions` or a stutter.
- **content** — two requests in flight over two movies, two titles, two genres and a director,
  two users and two files. A request names both genres, so that two of them insert the
  names in opposite orders; or lists one genre by id and names the director, so that it
  clears the stars and mixes ids with names; or lists the other genre by id, so that it replaces
  what either of the others leaves. Two movies are a new one beside one that is
  updated or deleted, and a title that is given up and claimed again. Two files are two uploads
  that overlap, of one user or of two. Whatever overlaps it, an update leaves
  its movie with all that it lists and touches no kind that it does not mention (`EditIsWhole`);
  where no other change of the movie overlaps it, it replaces what it mentions
  (`LoneEditReplaces`). The requests of moderators and those of users share no table and no lock,
  so the constraint `OnePart` explores each kind to the end while the tables of the other are still
  empty, and does not multiply the two.

### Violations: where the code and its documentation disagree

Each of these runs checks one property that the repository's own text states, and TLC finds a
behaviour of the code against it. For the first three a theorem of `CheckoutOverlap` names the
condition that excludes it: `OrdersAlone`, `CancelsAlone` and `PaidInTime`; for the last,
`ContentRows!LoneEditsReplace` does.

| Run | The text | What happens |
|---|---|---|
| `duplicate_order` | "Movies already in a PENDING order cause a `409` conflict" (`orders.py:77`) | two `create_order` requests both read before either commits; nothing in the schema stops the second |
| `cancel_race` | "Only orders with status `pending` can be canceled" (`orders.py:250`) | the cancellation reads pending, the order is settled, the cancellation overwrites PAID: a paid order is canceled |
| `late_payment` | "Movies already purchased (in a PAID order) are skipped" (`orders.py:76`, `cart.py:103`) | *one request at a time:* cancel an order whose Stripe page is open, order the movie again, pay both |
| `second_session` | "Creates payment record, marks order as PAID" (`payments.py:239`) | *one request at a time:* a customer pays two sessions of one order; the second is acknowledged and recorded nowhere |
| `delete_race` | "Cannot delete a movie that has been purchased in a paid order" (`movies.py:486`) | the deletion checks, the order is paid, the deletion cascades into the paid order |
| `edit_race` | "`genre_ids` / `genre_names` — **replaces** existing genres entirely" (`movies.py:433`) | two updates of one movie: each DELETE sees only what is committed, so the movie ends up with the genres of both |

Noticed while modelling, and too plain or too local for a run:

- `create_order` deletes every row of the cart it finds at the end, so a movie added between
  its read and its commit is lost (`orders.py:152`, against "Cart items are cleared after order creation" and the new order holding
  "all eligible items in the user's cart", `:72`, `:82`);
- when all movies of a cart are owned the 400 rolls back the notifications that were just
  added (`orders.py:134`, against `:76`);
- redirect and webhook at the same time: one of them ends in a 500 on the unique
  `payments.order_id`, although the record is described as "idempotent — safe to
  call multiple times" (`payments.py:162`). No harm is done; `CapturedIsSettled` shows that;
- a token that was logged out is valid again after a login in the same second, because it
  is the same JWT (`accounts.py:447-456`);
- `add_favorite` is called idempotent (`movies.py:538`), yet two at once end one in a 500;
- the reset email carries no token (`accounts.py:296`), though its template refers to "the
  token from the link below";
- an update with a `certification_id` that does not exist ends in a 500 on the foreign key,
  where the documentation has "`400` — Invalid data (e.g. non-existent certification_id)"
  (`movies.py:441`);
- a request can deadlock with another in PostgreSQL, and is then a 500: names are inserted in the
  order in which the client lists them (`services/movies_service.py:18`), and a deletion
  and an update of one movie lock its links and its row in different orders;
- the Celery jobs open the SQLite session of the tests (`tasks/celery_app.py:10`) and so never
  clean the PostgreSQL tables (`README.md:417` of the repository).

### Fairness

`FairSpec` assumes

- weak fairness of `Step(w)` for each worker: the event loop resumes a coroutine when its
  await completes, and the database and Stripe answer or fail;
- strong fairness of the delivery of each session's webhook. Stripe repeats it until it is
  acknowledged; the server takes it whenever it comes. Here it needs a free worker, and workers
  are free again and again rather than always, hence strong.

`Content` states no fairness: a request that waits for a lock is served in PostgreSQL's queue,
which the model does not have, and without it a waiter may be passed over for ever.

Nothing is assumed of clients, customers, moderators or crashes. With `MaxCrashes` bounded, a
delivery is eventually not lost; a server that dies on every delivery would settle nothing.

## 4. The proofs

TLAPS checks the following for any sets of users, movies, prices and workers and any bounds,
from the ASSUME of each model alone: `ConstantsOk` (prices are positive, `None` is not a user or
a movie, bounds are naturals), `AccountConstantsOk`, `ReactionConstantsOk`,
`LibraryConstantsOk` (a request that lists a tag mentions its kind) and `ProfileConstantsOk`
(the same kind), and `WorkersFinite`: `Content` counts the insertions in flight against `MaxMovies` and
`Reactions` those against `MaxRows`, and only that needs the requests to be finitely many.

**`CheckoutTypes!TypeCorrect`: `Spec => []TypeOK`.** `TypeOK` is not inductive: a commit indexes
tables by what a request holds. `TypeInv` adds `RequestOK`, which says what the request of each
endpoint refers to (a settlement: a paid session, with the order and the buyer of that session), and
that a pending order has an owner and a session an order and a buyer. One lemma per component, one
step per action.

**`CheckoutLedger`: `LedgerCorrect`, `NothingLost`, `ConfirmedOnce`.** The inductive invariant is
`LedgerInv`. It conjoins the payment invariants with three facts that make them inductive:

- `AckedIsPaid`: acknowledged sessions are paid. Otherwise the session behind `AckedIsRecorded`
  could still be one that does not exist, and be created for another order.
- `MailPending`: a request that is past its commit has the payment of its order in the books,
  and until it sends the confirmation nobody has. Otherwise `SendConfirmation` could be the second.
- `MailUnique`: two requests about to send are for different orders. It holds since a request gets
  to `mail` only by inserting the payment, which the unique `order_id` allows once.

Most steps are `Quiet`: they touch neither payments nor emails, make no order PAID, change no
paid session. `QuietKeepsLedger` deals with them all; only the commit, the confirmation, and
`CommitDelete` (which rewrites the items of payments) need an argument of their own.

**`CheckoutLedger!Implementation`: `Spec => ImplementsSettlement`.** The mapping:

| `Settlement` | `Checkout` |
|---|---|
| `captured[s]` | the order of session `s` once it is paid (`CapturedFor`) |
| `ledger[o]` | the session of the payment of `o` (`SettledBy`) |
| `told` | `mails` |

`CustomerPays` is `Capture`, a successful `CommitPayment` is `Record`, a confirmation that is
sent is `Tell`, all else stutters. `CommitDelete` replaces every payment record but keeps its
order and session, so `SettledBy` does not move. `LedgerInv` supplies what the abstract guards
ask for: the session is captured for that order, and the buyer has not been told.

**`CheckoutRows`: `NothingDangles`, `PaymentItemsCorrect`, `BooksAreAppendOnly`, `PricesAreFixed`.**
`RowInv` adds to the properties that every order that a session, a payment or a request refers to
was placed, and that the lines which a settlement has loaded are *at least* those its order still
has (`RequestFits`): deletions only take lines away, so a settlement that passes the foreign keys
of its items at its commit has exactly those of the order. Where `delete_movie` is not among the
endpoints they are the same lines, whence `PricesAreFixed`, whose ASSUME says so.

**`CheckoutOverlap`: `OnePendingOrder`, `PaidIsPaid`, `OrderTakesTheCart`, `CartTakesNoOwned`,
`NobodyBuysTwice`, `OneRequestIsSafe`.** No endpoint locks what it reads, so these rules do not
hold of `Spec` alone. Each theorem assumes that one kind of overlap never happens, and nothing
about anything else: every other request may be in flight, sessions be paid late, movies
deleted, requests lost.

| Theorem | Rule | Holds as long as |
|---|---|---|
| `OnePendingOrder` | no movie is in two pending orders of a user | `OrdersAlone`: a user does not place two orders at once |
| `PaidIsPaid` | a payment leaves its order PAID, and PAID is final | `CancelsAlone`: an order is not canceled while it is settled |
| `OrderTakesTheCart` | what leaves the cart is in the order or announced as excluded | `CartsStill`: a user adds nothing while placing an order |
| `CartTakesNoOwned` | an owned movie does not get into the cart | `AddsAlone`: no order of a user is settled while the user adds |
| `NobodyBuysTwice` | no movie is in two paid orders of a user | `OrdersAlone`, `OrdersUnsettled` (none of a user's orders is settled while the user places one) and `PaidInTime` (no canceled order is paid) |

A lock per user or order (`FOR UPDATE`) would establish all of them but `PaidInTime`, which asks
`cancel_order` to expire the Stripe sessions of the order. They are conditions on behaviours, which TLC explores as a constraint; without
any one of them it finds the rule broken (`duplicate_order`, `cancel_race` and `late_payment` are
three of these). `OneRequestIsSafe` is the corollary that `serial` checks: with one request at a
time all but `PaidInTime` hold.

The argument has two halves. `Learning`: no step of a request makes it count on something it has
not just read, which is shown for each way to move on (`EditLearns`, `GotoLearns`, ...). `Effects`:
each table changes to the disadvantage of a reader in one way only. A movie becomes pending only
by `CommitOrder`, paid only by `CommitPayment`, gets into a cart only by `CommitAdd`, and an order
stops being PAID only by `CommitCancel`. Every rule has an inductive invariant of its own, which says
that what its request has read is still so (`PendingSeen`, `CancelUnpaid`, `CartCovered`,
`AddUnowned`), and its condition excludes the one effect that would make it old. `NobodyBuysTwice`
needs more: that no movie is twice among the pending *and* paid orders (`SoleOrders`), which a
late payment of a canceled order would break.

**`MoneyRounding`: `DoubleConversion`, `ConversionAtPrecision`.** For
every price that DECIMAL(10, 2) can hold, in the 53 bits of a double: the closed form is what
`int(float(price) * 100)` computes; it is the price or a cent less; multiples of 25 cents are exact. The second theorem says the same
of every significand with two bits more than the price.
The significand of `p/100` is `x = p * 2^scale` divided by 100 and rounded, so 100 times it is
`x` plus an error below 50 (`SignificandError`; there is no tie, as `x` is a multiple of 4). The
product drops the last 6 or 7 bits of that (`ScaledPrice`), all of which are 0 in `x`, so it ends up
at most one unit beside `x` (`ProductRounded`), and a unit below `x` truncates to `p - 1`
(`Truncated`). The unit halves below a power of two, where dropped bits are 6 although `p` alone
would make them 7; `Conversion` has these three cases. The powers of two are a recursive function,
for which the module derives what it needs from the library's theorem that well-founded sets have
least elements: induction with a set in place of an operator (`Induction`), and that a recursion
defines a function (`Recursion`).

**`AccountTokens`: `TokensCorrect`, `TokensActOnTheirOwner`, `LoginsLast`, `AccountsTyped`.** The
inductive invariant `AccountInv` adds two things to the properties. `RowsOwned`: a stored token was
generated for the user of its row, and that user exists, so a registration that finds its email
free finds no tokens either. `RequestOK`: what each request holds; the rows a request deletes are
of its user, and at the commit of an activation or a reset they are the row of the token that was
presented. Tokens keep their owner for good (`Grows`), which is why a token that was replaced
after it was looked up still belongs to the account. `NewTokenKeeps` is the one argument for the
three endpoints that store a token: what is kept of the old rows has no row of that user and
table, by the unique `user_id`.

**`ReactionRows`: `ReactionsCorrect`, `RepliesCorrect`, `ReactionsTyped`, `ClicksAreWhole`.** `ReactionInv` is stated table by table. It
adds that ids were given out, and once (`RowsOK`), that notifications are about replies that were
inserted, and that a reply about to be stored is on the movie of its comment as long as that
comment exists. `RowAdded` is the insert under a unique constraint; `CommentAdded` shows that a new
comment has no replies yet; `ThreadClosed` that a reply to a member of a deleted thread is a
member, so no orphan is left; `CommentsDeleted` covers both ways to delete comments. `ReactionsTyped`
is about more than types: ids stay within `MaxRows`. A request that may insert reserves its id
when it arrives, so the invariant (`IdsReserved`) bounds the ids given out *plus* the number of
requests that still may insert; every step of a request moves it out of that set or leaves it
there, and an insertion takes one from the number and adds one id.

`ClicksAreWhole` is the refinement of `Opinions`: its tables are those of the model without the ids
of likes and ratings. What it adds to the invariant is whose rows a request holds (`OwnsInv`): the
likes that a DELETE saw and the rating that a SELECT found are the user's, and who is about
to delete a comment wrote it or is a moderator; both last because an id never changes its user
(`Heirs`). Together with the unique constraint a commit replaces all rows of its user and movie
and no other (`ReactionClicks`, `RatingClicks`). In `Opinions` the comments that a deletion takes
are characterised from within: the comment, and what replies to something that is gone.
`ThreadClosed` and `ThreadGrounded` show that the least closed set of the code's two
cascades is that. The refinement found a mistake of this model: a comment deleted by two requests
had everything as its thread for the second.

**`ContentRows`: `LinksCorrect`, `TitlesUnique`, `CreatedWhole`, `EditedWhole`, `LoneEditsReplace`,
`AvatarCorrect`, `EditsKept`, `ContentTyped`.** `LibraryInv` says of each request of the catalogue (`Fits`) what its
statements so far have achieved: listed tags of the kinds it has prepared exist or are its own
(`Prepared`); it touches links of its movie and of kinds it lists, and has added all of the kinds
it has synced (`Linked`); a title it claims is no other movie's and it has the key lock
(`Claimed`); it locked the movie before it counts on it (`Settled`, `Placed`). Of two requests it
says that a key lock excludes every lock of the other on that movie, and that claims are disjoint
(`Apart`). This is why the foreign key works: who is about to commit a link has the share lock,
so nobody who has deleted the movie is about to commit; and why a title is unique although it is
free the moment it is given up: until then it is among the claims. One lemma per action shows that
its own request still `Fits` and stays `Apart` from the others (`GoRows`, `MoreLocks`, `EndRows`
for those that write nothing); only `Commit` changes the tables, and `CommitKeepsOthers` shows
that what the others know survives it, and `OthersGoOn` that it still does for a DELETE
that passes over links which are gone (`FewerRows`).

`EditedWhole` is about the request that commits: it leaves every tag that it lists itself, and
the kinds that it does not mention as they are. That it leaves nothing else needs more
(`LoneEditsReplace`), since `edit_race` shows that it may. `EditInv` says of an update that is not
`disturbed` that it has deleted, or is about to delete, every committed link of the kinds it is
past (`Replaces`). Its own statements keep that; only a commit adds links, and the commit of another
request on the same movie disturbs it, while one on another movie adds no link of this one.

`ProfileInv` says that the file of an upload that went on is
in the bucket and that who is about to write a profile has one.

**Only model-checked:** liveness (`CapturedIsSettled`, `RequestsFinish`), which is out of the
prover's reach, and `NeverOvercharged`, which compares sums over the items of an order; for a single
price it is `DoubleConversion`. Every other property of a passing run is a theorem.

## 5. Not modelled

- **notifications:** a listing, and a flag that its owner sets by primary key; nothing reads it.
- **admin, and the searches and lists of movies, genres and stars:** they only read.
- **cleanup:** see above: it changes no table that the models have.
- **`change_user_group`:** it writes a column that only the role check (`security/deps.py:55`)
  reads, before any handler starts. A request that passed the check goes on after its user was
  demoted, and admins can demote each other until none is left; no text rules out either.
- **dependencies, configuration, request validation, templates:** requests come from users that
  passed authentication, with bodies that the schemas accept.
- **certifications, descriptions and the other columns of a movie:** nothing depends on them. A
  certification that does not exist is one of the reasons of `Abandon`.
- **an update of only a part of (name, year, time):** two of them can meet in a title that neither
  asked for; the unique constraint decides as it does for whole titles.

## 6. The plan

Done, in this order: `Money`; `Store`, `Cart`, `Orders`, `Payments`, `Catalog`, `Checkout` with its runs;
`CheckoutTypes`; `Settlement`; `CheckoutLedger`; accounts and `AccountTokens`; reactions and `ReactionRows`;
`CheckoutRows`; `Library`, `Profiles`, `Content` and `ContentRows`; `MoneyRounding`; `CheckoutOverlap`; `Opinions`; `Edits`.

What would be next:

1. PostgreSQL's lock queue in `Library`, and with it that every request of the catalogue ends.
2. An abstract specification of accounts (an account is activated by its owner or by an admin, a
   password is set by its owner), refined by the modules, as `Settlement` and `Opinions` are.
3. Roles as state, should the role check ever be repeated at the commit.

## 7. Running it

```
tlasany Checkout.tla                                   # parse a module
tlc -workers 2 -config MCSettlement.cfg MCCheckout     # a run of PROJECT.json
tlapm CheckoutLedger.tla                               # a proof module
```

`PROJECT.json` lists the runs with their properties, the mutants, the source lines behind every
definition, the findings, the hazards and the theorems.
