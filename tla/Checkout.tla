------------------------------- MODULE Checkout -------------------------------
(***************************************************************************)
(* The shop: carts, orders, payments and the catalogue over one database,  *)
(* with Workers requests in flight at a time, Stripe and the customers on  *)
(* the other side, and requests that are lost half way.                    *)
(***************************************************************************)
EXTENDS Cart, Orders, Payments, Catalog

Init == StoreInit

Arrive(w) ==
  \/ CartArrives(w)
  \/ OrderArrives(w)
  \/ PaymentArrives(w)
  \/ CatalogArrives(w)

\* The next statement of the request that worker w runs.
Step(w) ==
  \/ CartStep(w)
  \/ OrderStep(w)
  \/ PaymentStep(w)
  \/ CatalogStep(w)

Next ==
  \/ \E w \in Workers : Arrive(w) \/ Step(w) \/ Crash(w)
  \/ \E s \in SessionId : CustomerPays(s)

Spec == Init /\ [][Next]_vars

(***************************************************************************)
(* The event loop keeps running a request until it is answered.  Stripe    *)
(* keeps delivering an event that was not acknowledged; strong fairness,   *)
(* because the server takes a delivery whenever it comes, while here it    *)
(* waits for one of the Workers to be free.                                *)
(***************************************************************************)
Fairness ==
  /\ \A w \in Workers : WF_vars(Step(w))
  /\ \A s \in SessionId : SF_vars(\E w \in Workers : StripeWebhook(w, s))

FairSpec == Spec /\ Fairness

TypeOK == StoreTypeOK
-----------------------------------------------------------------------------
(* Payments *)

\* payments.order_id is unique and a session is settled once: the redirect and
\* the webhook together record a session once, and no order is paid twice in the
\* books (models/payments.py:25-27, routes/payments.py:45-53).
OnePaymentPerOrder ==
  \A p, q \in payments : p.order = q.order \/ p.session = q.session => p = q

\* A payment is only recorded for money that Stripe captured, for the order, the
\* user and the amount of the session (routes/payments.py:41-63).
PaymentIsCaptured ==
  \A p \in payments :
    LET s == sessions[p.session]
    IN  s.state = "paid" /\ s.order = p.order /\ s.user = p.user /\ s.amount = p.amount

\* An order that is PAID has its payment: the status and the payment are written
\* in one transaction (routes/payments.py:64-75).
PaidOrderHasPayment ==
  \A o \in OrderId : orders[o].status = "paid" => \E p \in payments : p.order = o

\* The items of a payment are the items of its order, through every race of the
\* settlement with the deletion of a movie (routes/payments.py:67-72; the cascades
\* of models/orders.py:50 and models/payments.py:54-56).
PaymentItemsAreOrderItems ==
  \A p \in payments : p.items = orders[p.order].items

\* The confirmation is sent at most once per order and only after its payment is
\* committed, however often the redirect and the webhook run (routes/payments.py:75-87).
ConfirmationOnce ==
  \A o \in OrderId : mails[o] <= 1 /\ (mails[o] = 1 => \E p \in payments : p.order = o)

\* Stripe is told to stop only after the payment of the order is in the books
\* (routes/payments.py:282-288).
AckedIsRecorded ==
  \A s \in acked : \E p \in payments : p.order = sessions[s].order

\* A charge is the conversion of what the items of the order cost when they were ordered,
\* whatever happens to the price of the movies later (orders.py:149,
\* services/payments.py:19).  The conversion itself may lose a cent of an item.
ChargeIsOrderPrice ==
  \A s \in SessionId : sessions[s].state # "none" =>
    sessions[s].amount = Charge(orders[sessions[s].order].items)

\* A customer is never asked for more than the total that the order shows, and for at
\* most one cent per item less: the total is summed from the movies when the order is
\* placed, the charge from the items at checkout, converted one by one (orders.py:136-150,
\* services/payments.py:19).
NeverOvercharged ==
  \A s \in SessionId : sessions[s].state # "none" =>
    LET o == orders[sessions[s].order]
    IN  sessions[s].amount \in (o.total - Cardinality(o.items))..o.total

-----------------------------------------------------------------------------
(* Orders and carts *)

\* A user never has a movie in two PENDING orders (routes/orders.py:77, 126-130).
NoDuplicatePending ==
  \A o, x \in Placed :
    /\ orders[o].user = orders[x].user
    /\ orders[o].status = "pending" /\ orders[x].status = "pending"
    /\ MoviesOf(orders[o].items) \cap MoviesOf(orders[x].items) # {}
    => o = x

\* A user never has a movie in two PAID orders: nobody buys a movie twice
\* (routes/orders.py:76, 118-125).
NoDoublePurchase ==
  \A o, x \in Placed :
    /\ orders[o].user = orders[x].user
    /\ orders[o].status = "paid" /\ orders[x].status = "paid"
    /\ MoviesOf(orders[o].items) \cap MoviesOf(orders[x].items) # {}
    => o = x

\* An order with a payment is PAID: what was paid for is delivered.
PaymentMakesPaid ==
  \A p \in payments : orders[p.order].status = "paid"

\* Carts and the orders that are not sold yet refer to movies that exist: no
\* interleaving gets past the foreign keys (models/cart.py:34, models/orders.py:49).
NoDanglingMovie ==
  /\ \A u \in Users : cartItems[u] \subseteq catalog
  /\ \A o \in OrderId : MoviesOf(orders[o].items) \subseteq catalog

-----------------------------------------------------------------------------
(* What a step may never do *)

\* The books are append only: a recorded payment keeps its order, its session and
\* its amount.
PaymentsArePermanent ==
  [][\A p \in payments : \E q \in payments' :
        q.order = p.order /\ q.session = p.session /\ q.amount = p.amount]_vars

\* A PAID order stays PAID: only a pending order can be canceled (orders.py:250).
PaidStaysPaid ==
  [][\A o \in OrderId : orders[o].status = "paid" => orders'[o].status = "paid"]_vars

\* The items and prices of an order that was placed do not change.
OrderIsFixed ==
  [][\A o \in Placed : /\ orders'[o].items = orders[o].items
                       /\ orders'[o].total = orders[o].total
                       /\ orders'[o].user = orders[o].user]_vars

\* A movie that was bought is not taken from its buyer (movies.py:486).
PurchaseIsKept ==
  [][\A o \in Placed : orders[o].status = "paid" =>
        orders[o].items \subseteq orders'[o].items]_vars

\* Placing an order empties the cart into the order: a movie that leaves the cart
\* is in the new order or the user is notified that it was excluded (orders.py:71-82).
PlacingDropsNothing ==
  [][\A u \in Users : \A o \in OrderId :
        orders[o].status = "absent" /\ orders'[o].status = "pending" /\ orders'[o].user = u
        => \A m \in cartItems[u] \ cartItems'[u] :
              \/ m \in MoviesOf(orders'[o].items)
              \/ [to |-> u, movie |-> m, about |-> "excluded"] \in notes']_vars

\* A movie that the user owns does not get into the cart (cart.py:103, 134-135).
NeverAddsOwned ==
  [][\A u \in Users :
        (cartItems'[u] \ cartItems[u]) \cap MovieIds(u, "paid") = {}]_vars

\* A paid session that the webhook acknowledged has its payment record
\* (payments.py:239-240).
AckedHasOwnPayment == \A s \in acked : \E p \in payments : p.session = s
-----------------------------------------------------------------------------
(* Progress *)

\* Money that was captured is recorded: every paid session ends up with a payment
\* for its order, through crashes, failed commits and lost redirects.
CapturedIsSettled ==
  \A s \in SessionId :
    sessions[s].state = "paid" ~> \E p \in payments : p.order = sessions[s].order

\* Every request is answered.
RequestsFinish == \A w \in Workers : req[w].pc # "idle" ~> req[w].pc = "idle"
-----------------------------------------------------------------------------
(* The payment component implements Settlement. *)

\* The order that a paid session was for.
CapturedFor == [s \in SessionId |-> IF sessions[s].state = "paid" THEN sessions[s].order ELSE 0]

\* The session that settled order o according to the payments in P, 0 if none did.
Settler(P, o) ==
  IF \E p \in P : p.order = o THEN (CHOOSE p \in P : p.order = o).session ELSE 0

SettledBy == [o \in OrderId |-> Settler(payments, o)]

Ledger == INSTANCE Settlement WITH
  Order <- OrderId, Session <- SessionId, None <- 0,
  captured <- CapturedFor, ledger <- SettledBy, told <- mails

\* Every step of the shop is a step of Settlement or leaves it alone.
ImplementsSettlement == Ledger!Spec
=============================================================================
