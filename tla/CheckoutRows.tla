----------------------------- MODULE CheckoutRows -----------------------------
(***************************************************************************)
(* The rows of the shop fit together, for any number of requests in        *)
(* flight: carts and orders refer to movies that exist, the items of a     *)
(* payment are those of its order, nothing is taken out of the books, and  *)
(* without deletions an order costs for ever what it cost when it was      *)
(* placed.                                                                 *)
(***************************************************************************)
EXTENDS CheckoutTypes

-----------------------------------------------------------------------------
(* The inductive invariant *)

OrderOps == {"cancel_order", "create_payment_session"} \cup SettleOps
Deleting == "delete_movie" \in Endpoints

\* What a request knows of its order, when the table of orders is O: it was placed,
\* and what the request has loaded of it is what it still has, or more when a
\* movie was deleted since.
RequestFits(O, r) ==
  /\ r.op \in Endpoints \cup {"none"}
  /\ r.op \in OrderOps => O[r.order].status # "absent"
  /\ r.op \in SettleOps /\ r.pc = "commit" => O[r.order].items \subseteq r.lines
  /\ r.op = "create_payment_session" /\ ~Deleting => r.lines = O[r.order].items

RequestsFit == \A w \in Workers : RequestFits(orders, req[w])

SessionsPlaced ==
  \A s \in SessionId :
    sessions[s].state # "none" => orders[sessions[s].order].status # "absent"
PaymentsPlaced == \A p \in payments : orders[p.order].status # "absent"

RowInv ==
  /\ TypeInv
  /\ RequestsFit
  /\ SessionsPlaced
  /\ PaymentsPlaced
  /\ NoDanglingMovie
  /\ PaymentItemsAreOrderItems
  /\ Deleting \/ ChargeIsOrderPrice

LEMMA RowTypes ==
  ASSUME TypeInv
  PROVE  /\ payments \subseteq Payment
         /\ orders \in [OrderId -> Order]
         /\ cartItems \in [Users -> SUBSET Movies]
         /\ catalog \subseteq Movies
         /\ sessions \in [SessionId -> Session]
         /\ req \in [Workers -> Request]
         /\ \A w \in Workers : req[w].op \in OrderOps => req[w].order \in OrderId
         /\ \A s \in SessionId : sessions[s].state # "none" => sessions[s].order \in OrderId
BY DEF TypeInv, TypeOK, StoreTypeOK, TablesTypeOK, RequestsOK, RequestOK, SessionsOwned, OrderOps

\* An order that was placed keeps everything but its status.
KeepsOrders ==
  \A o \in OrderId : orders[o].status # "absent" =>
    /\ orders'[o].status # "absent"
    /\ orders'[o].items = orders[o].items
    /\ orders'[o].total = orders[o].total
    /\ orders'[o].user = orders[o].user

\* ... or loses items to a deletion.
CutsOrders ==
  \A o \in OrderId : orders[o].status # "absent" =>
    /\ orders'[o].status # "absent"
    /\ orders'[o].items \subseteq orders[o].items
    /\ ~Deleting => orders'[o].items = orders[o].items

-----------------------------------------------------------------------------
(* The requests *)

LEMMA EditFits ==
  ASSUME RowInv, CutsOrders, NEW w \in Workers, NEW r, req' = [req EXCEPT ![w] = r],
         RequestFits(orders', r)
  PROVE  RequestsFit'
<1>1. SUFFICES ASSUME NEW x \in Workers PROVE RequestFits(orders', req'[x])
  BY DEF RequestsFit
<1>2. CASE x = w
  BY <1>2, RowTypes DEF RowInv
<1>3. CASE x # w
  <2>1. req'[x] = req[x] /\ RequestFits(orders, req[x])
    BY <1>3, RowTypes DEF RowInv, RequestsFit
  <2>2. req[x].op \in OrderOps => req[x].order \in OrderId
    BY RowTypes DEF RowInv
  <2> QED BY <2>1, <2>2 DEF RequestFits, CutsOrders, OrderOps
<1> QED BY <1>2, <1>3

LEMMA ReplyFits ==
  ASSUME RowInv, CutsOrders, NEW w \in Workers, Reply(w) PROVE RequestsFit'
<1>1. RequestFits(orders', Idle)
  BY DEF RequestFits, Idle, OrderOps, SettleOps
<1> QED BY <1>1, EditFits DEF Reply

LEMMA AcceptFits ==
  ASSUME RowInv, CutsOrders, NEW w \in Workers, NEW r, Accept(w, r), RequestFits(orders', r)
  PROVE  RequestsFit'
BY EditFits DEF Accept

LEMMA GotoFits ==
  ASSUME RowInv, CutsOrders, NEW w \in Workers, NEW label, Goto(w, label),
         label = "commit" => req[w].op \notin SettleOps
  PROVE  RequestsFit'
<1> DEFINE r == [req[w] EXCEPT !.pc = label]
<1>1. req[w] \in Request /\ RequestFits(orders, req[w])
  BY RowTypes DEF RowInv, RequestsFit
<1>2. r.op = req[w].op /\ r.pc = label /\ r.order = req[w].order /\ r.lines = req[w].lines
  BY <1>1 DEF Request
<1>3. req[w].op \in OrderOps => req[w].order \in OrderId
  BY RowTypes DEF RowInv
<1>4. req' = [req EXCEPT ![w] = r]
  BY RowTypes DEF Goto, RowInv
<1> HIDE DEF r
<1>5. RequestFits(orders', r)
  BY <1>1, <1>2, <1>3 DEF RequestFits, CutsOrders, OrderOps
<1> QED BY <1>4, <1>5, EditFits

-----------------------------------------------------------------------------
(* Most steps are calm: they record no payment, delete no movie, change no *)
(* order that was placed, and put only movies that exist into carts and    *)
(* orders.                                                                 *)

Calm ==
  /\ UNCHANGED <<catalog, payments>>
  /\ \A u \in Users : cartItems'[u] \subseteq cartItems[u] \cup catalog
  /\ \A o \in OrderId : orders'[o] = orders[o] \/ MoviesOf(orders'[o].items) \subseteq catalog
  /\ KeepsOrders
  /\ \A s \in SessionId :
       \/ sessions'[s].order = sessions[s].order /\ sessions'[s].amount = sessions[s].amount
            /\ (sessions'[s].state # "none" => sessions[s].state # "none")
       \/ /\ sessions'[s].order \in OrderId
          /\ orders[sessions'[s].order].status # "absent"
          /\ Deleting \/ sessions'[s].amount = Charge(orders[sessions'[s].order].items)

LEMMA KeepsCuts == KeepsOrders => CutsOrders
BY DEF KeepsOrders, CutsOrders

LEMMA CalmKeepsRows == RowInv /\ TypeInv' /\ Calm /\ RequestsFit' => RowInv'
<1> SUFFICES ASSUME RowInv, TypeInv', Calm, RequestsFit' PROVE RowInv'
  OBVIOUS
<1>1. SessionsPlaced'
  BY RowTypes DEF RowInv, Calm, KeepsOrders, SessionsPlaced
<1>2. PaymentsPlaced' /\ PaymentItemsAreOrderItems'
  <2>1. \A p \in payments : p.order \in OrderId
    BY RowTypes DEF RowInv, Payment
  <2> QED BY <2>1 DEF RowInv, Calm, KeepsOrders, PaymentsPlaced, PaymentItemsAreOrderItems
<1>3. NoDanglingMovie'
  BY DEF RowInv, Calm, NoDanglingMovie
<1>4. Deleting \/ ChargeIsOrderPrice'
  <2> SUFFICES ASSUME ~Deleting, NEW s \in SessionId, sessions'[s].state # "none"
               PROVE  sessions'[s].amount = Charge(orders'[sessions'[s].order].items)
    BY DEF ChargeIsOrderPrice
  <2>1. sessions'[s].order \in OrderId
    BY RowTypes DEF TypeInv, SessionsOwned
  <2>2. orders[sessions'[s].order].status # "absent"
    BY RowTypes DEF RowInv, Calm, SessionsPlaced
  <2>3. orders'[sessions'[s].order].items = orders[sessions'[s].order].items
    BY <2>1, <2>2 DEF Calm, KeepsOrders
  <2>4. sessions'[s].amount = Charge(orders[sessions'[s].order].items)
    BY DEF RowInv, Calm, ChargeIsOrderPrice
  <2> QED BY <2>3, <2>4
<1> QED BY <1>1, <1>2, <1>3, <1>4 DEF RowInv

-----------------------------------------------------------------------------
(* The calm steps *)

\* A step that leaves these tables alone is calm.
LEMMA Untouched ==
  ASSUME RowInv, UNCHANGED <<catalog, payments, cartItems, orders, sessions>>
  PROVE  Calm /\ CutsOrders
BY DEF Calm, KeepsOrders, CutsOrders

LEMMA CartIsCalm ==
  ASSUME RowInv, NEW w \in Workers, CartArrives(w) \/ CartStep(w)
  PROVE  Calm /\ RequestsFit'
<1>1. UNCHANGED <<catalog, payments, orders, sessions>>
  BY DEF CartArrives, OpenCart, AddToCart, CartStep, CheckPurchased, CartMissing,
         InsertCart, CartLoaded, CommitAdd, CommitRemove, CommitClear, cartUnchanged
<1>2. \A u \in Users : cartItems'[u] \subseteq cartItems[u] \cup catalog
  <2>1. CASE CommitAdd(w)
    BY <2>1, RowTypes DEF CommitAdd, RowInv
  <2>2. CASE CommitRemove(w)
    BY <2>2, RowTypes DEF CommitRemove, RowInv
  <2>3. CASE CommitClear(w)
    BY <2>3, RowTypes DEF CommitClear, RowInv
  <2> QED BY <2>1, <2>2, <2>3 DEF CartArrives, OpenCart, AddToCart, CartStep, CheckPurchased,
             CartMissing, InsertCart, CartLoaded
<1>3. Calm /\ CutsOrders
  BY <1>1, <1>2 DEF Calm, KeepsOrders, CutsOrders
<1>4. ASSUME NEW op \in CartEndpoints, NEW u, NEW m, OpenCart(w, op, u, m) PROVE RequestsFit'
  <2> DEFINE r == [Idle EXCEPT !.op = op, !.pc = "load_cart", !.user = u, !.movie = m]
  <2>1. Accept(w, r) /\ r.op = op
    BY <1>4 DEF OpenCart, Idle
  <2> HIDE DEF r
  <2>2. RequestFits(orders', r)
    BY <2>1 DEF RequestFits, Accept, OrderOps, SettleOps, CartEndpoints
  <2> QED BY <1>3, <2>1, <2>2, AcceptFits
<1>5. ASSUME NEW u, NEW m, AddToCart(w, u, m) PROVE RequestsFit'
  <2> DEFINE r == [Idle EXCEPT !.op = "add_to_cart", !.pc = "purchased", !.user = u, !.movie = m]
  <2>1. Accept(w, r) /\ r.op = "add_to_cart"
    BY <1>5 DEF AddToCart, Idle
  <2> HIDE DEF r
  <2>2. RequestFits(orders', r)
    BY <2>1 DEF RequestFits, Accept, OrderOps, SettleOps
  <2> QED BY <1>3, <2>1, <2>2, AcceptFits
<1>6. CASE CartStep(w)
  <2>1. \/ Reply(w)
        \/ \E label \in {"load_cart", "insert_cart"} : Goto(w, label)
        \/ Goto(w, "commit") /\ req[w].pc = "load_cart"
    BY <1>6 DEF CartStep, CheckPurchased, CartMissing, InsertCart, CartLoaded, CommitAdd,
                CommitRemove, CommitClear
  <2>2. req[w].pc = "load_cart" => req[w].op \notin SettleOps
    BY DEF RowInv, TypeInv, RequestsOK, RequestOK, CartEndpoints, SettleOps
  <2> QED BY <1>3, <2>1, <2>2, ReplyFits, GotoFits
<1> QED BY <1>3, <1>4, <1>5, <1>6 DEF CartArrives

\* The lines of a new order are those whose movies the foreign key let through.
LEMMA OrderIsCalm ==
  ASSUME RowInv, NEW w \in Workers, OrderArrives(w) \/ OrderStep(w)
  PROVE  Calm /\ RequestsFit'
<1>1. UNCHANGED <<catalog, payments, sessions>>
  BY DEF OrderArrives, CreateOrder, CancelOrder, OrderStep, ReadPaidIds, ReadPendingIds,
         CommitOrder, CommitCancel, ordersUnchanged
<1>2. ASSUME NEW u, CreateOrder(w, u) PROVE Calm /\ RequestsFit'
  <2> DEFINE lines == {[movie |-> m, price |-> price[m]] : m \in cartItems[u]}
  <2> HIDE DEF lines
  <2> DEFINE r == [Idle EXCEPT !.op = "create_order", !.pc = "paid_ids",
                               !.user = u, !.lines = lines]
  <2>1. Accept(w, r) /\ r.op = "create_order" /\ UNCHANGED <<orders, cartItems>>
    BY <1>2 DEF CreateOrder, Idle, lines
  <2> HIDE DEF r
  <2>2. RequestFits(orders', r)
    BY <2>1 DEF RequestFits, Accept, OrderOps, SettleOps
  <2> QED BY <1>1, <2>1, <2>2, AcceptFits, Untouched
<1>3. ASSUME NEW o \in OrderId, CancelOrder(w, o) PROVE Calm /\ RequestsFit'
  <2> DEFINE r == [Idle EXCEPT !.op = "cancel_order", !.pc = "commit",
                               !.user = orders[o].user, !.order = o]
  <2>1. Accept(w, r) /\ r.op = "cancel_order" /\ r.order = o /\ UNCHANGED <<orders, cartItems>>
    BY <1>3 DEF CancelOrder, Idle
  <2> HIDE DEF r
  <2>2. RequestFits(orders', r)
    BY <1>3, <2>1 DEF RequestFits, Accept, OrderOps, SettleOps, CancelOrder
  <2> QED BY <1>1, <2>1, <2>2, AcceptFits, Untouched
<1>4. CASE ReadPaidIds(w)
  <2> DEFINE owned == MovieIds(req[w].user, "paid")
             r == [req[w] EXCEPT !.pc = "pending_ids", !.owned = owned]
  <2> HIDE DEF owned
  <2>1. req' = [req EXCEPT ![w] = r] /\ r.op = "create_order" /\ UNCHANGED <<orders, cartItems>>
    BY <1>4, RowTypes DEF ReadPaidIds, At, owned, RowInv, Request
  <2>2. r.op \in Endpoints \cup {"none"}
    BY <1>4, <2>1 DEF ReadPaidIds, At, RowInv, RequestsFit, RequestFits
  <2> HIDE DEF r
  <2>3. RequestFits(orders', r)
    BY <2>1, <2>2 DEF RequestFits, OrderOps, SettleOps
  <2> QED BY <1>1, <2>1, <2>3, EditFits, Untouched
<1>5. CASE ReadPendingIds(w)
  BY <1>1, <1>5, ReplyFits, GotoFits, Untouched DEF ReadPendingIds, At, SettleOps
<1>6. CASE CommitOrder(w)
  <2> DEFINE order == NewOrder(w)
  <2>1. MoviesOf(order.items) = MoviesOf(Orderable(w))
    BY DEF NewOrder
  <2> HIDE DEF order
  <2>2. CASE UNCHANGED <<orders, cartItems>>
    BY <1>1, <1>6, <2>2, ReplyFits, Untouched DEF CommitOrder
  <2>3. CASE /\ MoviesOf(Orderable(w)) \subseteq catalog
             /\ \E o \in OrderId : /\ orders[o].status = "absent"
                                   /\ orders' = [orders EXCEPT ![o] = order]
             /\ cartItems' = [cartItems EXCEPT ![req[w].user] = {}]
    <3>1. \A u \in Users : cartItems'[u] \subseteq cartItems[u]
      BY <2>3, RowTypes DEF RowInv
    <3>2. KeepsOrders
      BY <2>3, RowTypes DEF KeepsOrders, RowInv
    <3>3. \A o \in OrderId : orders'[o] = orders[o] \/ MoviesOf(orders'[o].items) \subseteq catalog
      BY <2>1, <2>3, RowTypes DEF RowInv
    <3>4. Calm
      BY <1>1, <3>1, <3>2, <3>3 DEF Calm
    <3> QED BY <1>6, <3>2, <3>4, KeepsCuts, ReplyFits DEF CommitOrder
  <2> QED BY <1>6, <2>2, <2>3 DEF CommitOrder, NextOrder, order
<1>7. CASE CommitCancel(w)
  <2>1. KeepsOrders /\ \A o \in OrderId : orders'[o].items = orders[o].items
    BY <1>7, RowTypes DEF CommitCancel, KeepsOrders, RowInv, Order
  <2>2. Calm
    BY <1>1, <1>7, <2>1 DEF CommitCancel, Calm, RowInv, NoDanglingMovie
  <2> QED BY <1>7, <2>1, <2>2, KeepsCuts, ReplyFits DEF CommitCancel
<1> QED BY <1>2, <1>3, <1>4, <1>5, <1>6, <1>7 DEF OrderArrives, OrderStep

LEMMA PaymentIsCalm ==
  ASSUME RowInv, NEW w \in Workers, PaymentArrives(w) \/ PaymentStep(w), ~CommitPayment(w)
  PROVE  Calm /\ RequestsFit'
<1>1. UNCHANGED <<catalog, cartItems, orders, payments>>
  BY DEF PaymentArrives, CreatePaymentSession, PaymentSuccess, StripeWebhook, Settle,
         PaymentStep, CreateCheckoutSession, FindPayment, LoadOrder, SendConfirmation,
         AnswerSettled, paymentsUnchanged
<1>2. CutsOrders /\ KeepsOrders
  BY <1>1 DEF CutsOrders, KeepsOrders
<1>3. ASSUME NEW o \in OrderId, CreatePaymentSession(w, o) PROVE Calm /\ RequestsFit'
  <2> DEFINE items == orders[o].items
             r == [Idle EXCEPT !.op = "create_payment_session", !.pc = "stripe_call",
                               !.user = orders[o].user, !.order = o, !.lines = items]
  <2>1. /\ Accept(w, r) /\ r.op = "create_payment_session" /\ r.order = o
        /\ r.lines = items /\ UNCHANGED sessions
    BY <1>3 DEF CreatePaymentSession, Idle
  <2> HIDE DEF r
  <2>2. RequestFits(orders', r)
    BY <1>1, <1>3, <2>1 DEF RequestFits, Accept, OrderOps, SettleOps, CreatePaymentSession
  <2> QED BY <1>1, <1>2, <2>1, <2>2, AcceptFits, Untouched
<1>4. ASSUME NEW s \in SessionId, NEW op \in SettleOps, Settle(w, op, s)
      PROVE  Calm /\ RequestsFit'
  <2> DEFINE r == [Idle EXCEPT !.op = op, !.pc = "find_payment", !.session = s,
                               !.user = sessions[s].user, !.order = sessions[s].order]
  <2>1. /\ Accept(w, r) /\ r.op = op /\ r.pc = "find_payment"
        /\ r.order = sessions[s].order /\ UNCHANGED sessions
    BY <1>4 DEF Settle, Idle
  <2> HIDE DEF r
  <2>2. orders[sessions[s].order].status # "absent"
    BY <1>4 DEF Settle, RowInv, SessionsPlaced
  <2>3. RequestFits(orders', r)
    BY <1>1, <2>1, <2>2 DEF RequestFits, Accept, OrderOps, SettleOps
  <2> QED BY <1>1, <1>2, <2>1, <2>3, AcceptFits, Untouched
<1>5. CASE CreateCheckoutSession(w)
  <2>1. /\ req[w].order \in OrderId
        /\ orders[req[w].order].status # "absent"
        /\ Deleting \/ req[w].lines = orders[req[w].order].items
    BY <1>5, RowTypes DEF CreateCheckoutSession, At, RowInv, RequestsFit, RequestFits, OrderOps
  <2> DEFINE new == [ state |-> "open", order |-> req[w].order, user |-> req[w].user,
                      amount |-> Charge(req[w].lines) ]
  <2>2. /\ new.order \in OrderId
        /\ orders[new.order].status # "absent"
        /\ Deleting \/ new.amount = Charge(orders[new.order].items)
    BY <2>1
  <2>3. sessions' = sessions \/ \E s \in SessionId : sessions' = [sessions EXCEPT ![s] = new]
    BY <1>5 DEF CreateCheckoutSession
  <2> HIDE DEF new
  <2>4. Calm
    BY <1>1, <1>2, <2>2, <2>3, RowTypes DEF Calm, RowInv
  <2> QED BY <1>2, <1>5, <2>4, ReplyFits DEF CreateCheckoutSession
<1>6. CASE FindPayment(w) \/ SendConfirmation(w) \/ AnswerSettled(w)
  <2>1. Calm
    BY <1>1, <1>6, Untouched DEF FindPayment, SendConfirmation, AnswerSettled
  <2> QED BY <1>2, <1>6, <2>1, ReplyFits, GotoFits
             DEF FindPayment, SendConfirmation, AnswerSettled, Settled
<1>7. CASE LoadOrder(w)
  <2>1. Calm
    BY <1>1, <1>7, Untouched DEF LoadOrder
  <2>2. CASE Settled(w)
    BY <1>2, <2>1, <2>2, ReplyFits DEF Settled
  <2>3. CASE req' = [req EXCEPT ![w].pc = "commit", ![w].lines = orders[req[w].order].items]
    <3> DEFINE items == orders[req[w].order].items
               r == [req[w] EXCEPT !.pc = "commit", !.lines = items]
    <3>1. req[w] \in Request /\ RequestFits(orders, req[w]) /\ req[w].op \in SettleOps
      BY <1>7, RowTypes DEF LoadOrder, RowInv, RequestsFit, TypeInv, RequestsOK, RequestOK
    <3> HIDE DEF items
    <3>2. /\ req' = [req EXCEPT ![w] = r]
          /\ r.op = req[w].op /\ r.order = req[w].order /\ r.lines = items
      BY <2>3, <3>1, RowTypes DEF items, RowInv, Request
    <3> HIDE DEF r
    <3>3. RequestFits(orders', r)
      BY <1>1, <3>1, <3>2 DEF RequestFits, OrderOps, SettleOps, items
    <3> QED BY <1>2, <2>1, <3>2, <3>3, EditFits
  <2> QED BY <1>7, <2>2, <2>3 DEF LoadOrder
<1> QED BY <1>3, <1>4, <1>5, <1>6, <1>7
           DEF PaymentArrives, PaymentSuccess, StripeWebhook, PaymentStep, SettleOps

LEMMA CatalogIsCalm ==
  ASSUME RowInv, NEW w \in Workers, CatalogArrives(w) \/ CatalogStep(w), ~CommitDelete(w)
  PROVE  Calm /\ RequestsFit'
<1>1. UNCHANGED <<catalog, cartItems, orders, payments, sessions>>
  BY DEF CatalogArrives, UpdatePrice, DeleteMovie, CatalogStep, CheckUnsold, CountCarts,
         DeleteRefused, catalogUnchanged
<1>2. Calm /\ CutsOrders
  BY <1>1, Untouched
<1> SUFFICES RequestsFit'
  BY <1>2
<1>3. ASSUME NEW m, NEW p, UpdatePrice(w, m, p) PROVE RequestsFit'
  BY <1>1, <1>3 DEF UpdatePrice, RowInv, RequestsFit
<1>4. ASSUME NEW u, NEW m, DeleteMovie(w, u, m) PROVE RequestsFit'
  <2> DEFINE r == [Idle EXCEPT !.op = "delete_movie", !.pc = "purchased", !.user = u, !.movie = m]
  <2>1. Accept(w, r) /\ r.op = "delete_movie"
    BY <1>4 DEF DeleteMovie, Idle
  <2> HIDE DEF r
  <2>2. RequestFits(orders', r)
    BY <2>1 DEF RequestFits, Accept, OrderOps, SettleOps
  <2> QED BY <1>2, <2>1, <2>2, AcceptFits
<1>5. CASE CheckUnsold(w) \/ DeleteRefused(w)
  BY <1>2, <1>5, ReplyFits, GotoFits DEF CheckUnsold, DeleteRefused
<1>6. CASE CountCarts(w)
  <2> DEFINE count == \E u \in Users : req[w].movie \in cartItems[u]
             r == [req[w] EXCEPT !.pc = "commit", !.inCarts = count]
  <2>1. req' = [req EXCEPT ![w].pc = "commit", ![w].inCarts = count]
    BY <1>6, Zenon DEF CountCarts
  <2>2. req[w] \in Request /\ req[w].op = "delete_movie" /\ req[w].op \in Endpoints \cup {"none"}
    BY <1>6, RowTypes DEF CountCarts, At, RowInv, RequestsFit, RequestFits
  <2> HIDE DEF count
  <2>3. req' = [req EXCEPT ![w] = r] /\ r.op = req[w].op
    BY <2>1, <2>2, RowTypes DEF RowInv, Request
  <2> HIDE DEF r
  <2>4. RequestFits(orders', r)
    BY <2>2, <2>3 DEF RequestFits, OrderOps, SettleOps
  <2> QED BY <1>2, <2>3, <2>4, EditFits
<1> QED BY <1>3, <1>4, <1>5, <1>6 DEF CatalogArrives, CatalogStep

LEMMA CrashIsCalm ==
  ASSUME RowInv, NEW w \in Workers, Crash(w) PROVE Calm /\ RequestsFit'
BY Untouched, ReplyFits DEF Crash, tables

LEMMA CustomerIsCalm ==
  ASSUME RowInv, NEW s \in SessionId, CustomerPays(s) PROVE Calm /\ RequestsFit'
<1>1. sessions' = [sessions EXCEPT ![s].state = "paid"] /\ sessions[s].state = "open"
  BY DEF CustomerPays
<1>2. UNCHANGED <<catalog, cartItems, orders, payments, req>>
  BY DEF CustomerPays, paymentsUnchanged
<1>3. \A t \in SessionId : /\ sessions'[t].order = sessions[t].order
                           /\ sessions'[t].amount = sessions[t].amount
                           /\ sessions'[t].state # "none" => sessions[t].state # "none"
  BY <1>1, RowTypes DEF RowInv, Session
<1>4. Calm
  BY <1>2, <1>3 DEF Calm, KeepsOrders
<1> QED BY <1>2, <1>4 DEF RowInv, RequestsFit
-----------------------------------------------------------------------------
(* The two steps that change the books *)

\* A commit that the foreign key let through takes all the items of the order:
\* those that are left are those that the request loaded.
LEMMA CommitKeepsRows ==
  ASSUME RowInv, TypeInv', NEW w \in Workers, CommitPayment(w)
  PROVE  RowInv' /\ KeepsOrders
<1> DEFINE o == req[w].order
           new == NewPayment(w)
<1>1. UNCHANGED <<catalog, cartItems, sessions>>
  BY DEF CommitPayment, paymentsUnchanged
<1>2. CASE ~PaymentInserts(w)
  <2>1. UNCHANGED <<orders, payments>> /\ Reply(w)
    BY <1>2 DEF CommitPayment
  <2> QED BY <1>1, <2>1, Untouched, ReplyFits, CalmKeepsRows DEF Calm
<1>3. CASE PaymentInserts(w)
  <2>1. /\ req[w].op \in SettleOps /\ req[w].pc = "commit"
        /\ payments' = payments \cup {new}
        /\ orders' = [orders EXCEPT ![o].status = "paid"]
        /\ Goto(w, "mail")
    BY <1>3 DEF CommitPayment
  <2>2. o \in OrderId /\ orders[o].status # "absent" /\ req[w].lines = orders[o].items
    BY <1>3, <2>1, RowTypes
       DEF PaymentInserts, RowInv, RequestsFit, RequestFits, OrderOps
  <2>3. \A x \in OrderId : /\ orders'[x].items = orders[x].items
                           /\ orders'[x].total = orders[x].total
                           /\ orders'[x].user = orders[x].user
                           /\ orders[x].status # "absent" => orders'[x].status # "absent"
    BY <2>1, RowTypes DEF RowInv, Order
  <2>4. KeepsOrders /\ CutsOrders
    BY <2>3 DEF KeepsOrders, CutsOrders
  <2>5. RequestsFit'
    BY <2>1, <2>4, GotoFits
  <2>6. new.order = o /\ new.items = orders[o].items
    BY <2>2 DEF NewPayment
  <2> HIDE DEF new
  <2>7. \A p \in payments : p.order \in OrderId
    BY RowTypes DEF RowInv, Payment
  <2>8. PaymentsPlaced' /\ PaymentItemsAreOrderItems'
    BY <2>1, <2>2, <2>3, <2>6, <2>7 DEF RowInv, PaymentsPlaced, PaymentItemsAreOrderItems
  <2>9. SessionsPlaced' /\ (Deleting \/ ChargeIsOrderPrice')
    BY <1>1, <2>3, RowTypes DEF RowInv, SessionsPlaced, ChargeIsOrderPrice
  <2>10. NoDanglingMovie'
    BY <1>1, <2>3 DEF RowInv, NoDanglingMovie
  <2> QED BY <2>4, <2>5, <2>8, <2>9, <2>10 DEF RowInv
<1> QED BY <1>2, <1>3

\* A deletion takes the movie out of every table at once.
LEMMA DeleteKeepsRows ==
  ASSUME RowInv, TypeInv', NEW w \in Workers, CommitDelete(w)
  PROVE  RowInv'
<1> DEFINE m == req[w].movie
           cut(p) == [p EXCEPT !.items = Without(m, @)]
<1>1. /\ catalog' = catalog \ {m}
      /\ cartItems' = [u \in Users |-> cartItems[u] \ {m}]
      /\ orders' = [o \in OrderId |-> [orders[o] EXCEPT !.items = Without(m, @)]]
      /\ payments' = {cut(p) : p \in payments}
      /\ Reply(w)
      /\ UNCHANGED sessions
  BY DEF CommitDelete, catalogUnchanged
<1>2. Deleting
  BY DEF CommitDelete, At, RowInv, RequestsFit, RequestFits, Deleting
<1>3. \A o \in OrderId : /\ orders'[o].status = orders[o].status
                         /\ orders'[o].items = Without(m, orders[o].items)
  BY <1>1, RowTypes DEF RowInv, Order
<1>4. \A p \in payments : p.order \in OrderId /\ cut(p).order = p.order
                          /\ cut(p).items = Without(m, p.items)
  BY RowTypes DEF RowInv, Payment
<1> HIDE DEF cut
<1>5. CutsOrders
  BY <1>2, <1>3 DEF CutsOrders, Without
<1>6. RequestsFit'
  BY <1>1, <1>5, ReplyFits
<1>7. SessionsPlaced'
  BY <1>1, <1>3, RowTypes DEF RowInv, SessionsPlaced
<1>8. PaymentsPlaced' /\ PaymentItemsAreOrderItems'
  BY <1>1, <1>3, <1>4 DEF RowInv, PaymentsPlaced, PaymentItemsAreOrderItems
<1>9. NoDanglingMovie'
  BY <1>1, <1>3, RowTypes DEF RowInv, NoDanglingMovie, MoviesOf, Without
<1> QED BY <1>2, <1>6, <1>7, <1>8, <1>9 DEF RowInv
-----------------------------------------------------------------------------
LEMMA InitRows == Init => RowInv
<1> SUFFICES ASSUME Init PROVE RowInv
  OBVIOUS
<1>1. TypeInv
  BY InitTypes
<1>2. RequestsFit
  BY DEF Init, StoreInit, RequestsFit, RequestFits, Idle, OrderOps, SettleOps
<1> QED BY <1>1, <1>2
   DEF Init, StoreInit, RowInv, SessionsPlaced, PaymentsPlaced, NoDanglingMovie,
       PaymentItemsAreOrderItems, ChargeIsOrderPrice, NoOrder, NoSession, MoviesOf

\* Every step but a deletion keeps the orders as they were placed.
LEMMA StepRows ==
  ASSUME RowInv, [Next]_vars
  PROVE  /\ RowInv'
         /\ \/ Calm
            \/ \E w \in Workers : CommitPayment(w) /\ KeepsOrders
            \/ \E w \in Workers : CommitDelete(w)
<1>1. TypeInv'
  BY StepTypes DEF RowInv
<1>2. ASSUME NEW w \in Workers, Arrive(w) \/ Step(w) \/ Crash(w),
             ~CommitPayment(w), ~CommitDelete(w)
      PROVE  RowInv' /\ Calm
  BY <1>1, <1>2, CartIsCalm, OrderIsCalm, PaymentIsCalm, CatalogIsCalm, CrashIsCalm,
     CalmKeepsRows DEF Arrive, Step
<1>3. ASSUME NEW s \in SessionId, CustomerPays(s) PROVE RowInv' /\ Calm
  BY <1>1, <1>3, CustomerIsCalm, CalmKeepsRows
<1>4. CASE UNCHANGED vars
  <2>1. Calm /\ RequestsFit'
    BY <1>4, Untouched DEF vars, tables, RowInv, RequestsFit
  <2> QED BY <1>1, <2>1, CalmKeepsRows
<1>5. ASSUME NEW w \in Workers, CommitPayment(w) PROVE RowInv' /\ KeepsOrders
  BY <1>1, <1>5, CommitKeepsRows
<1>6. ASSUME NEW w \in Workers, CommitDelete(w) PROVE RowInv'
  BY <1>1, <1>6, DeleteKeepsRows
<1> QED BY <1>2, <1>3, <1>4, <1>5, <1>6 DEF Next

\* The inductive invariant holds in every reachable state.
THEOREM RowInvariant == Spec => []RowInv
<1>1. RowInv /\ [Next]_vars => RowInv'
  BY StepRows
<1> QED BY <1>1, InitRows, PTL DEF Spec

\* No request, however long ago it looked, puts a movie that is gone into a cart or an
\* order (models/cart.py:34, models/orders.py:49).
THEOREM NothingDangles == Spec => []NoDanglingMovie
<1>1. RowInv => NoDanglingMovie
  BY DEF RowInv
<1> QED BY <1>1, RowInvariant, PTL

\* Through any race of settlements with deletions the items of a payment are those of
\* its order: a settlement that lost an item between its two statements fails
\* (routes/payments.py:67-72, models/payments.py:54-56).
THEOREM PaymentItemsCorrect == Spec => []PaymentItemsAreOrderItems
<1>1. RowInv => PaymentItemsAreOrderItems
  BY DEF RowInv
<1> QED BY <1>1, RowInvariant, PTL

KeepsPayments ==
  \A p \in payments : \E q \in payments' :
    q.order = p.order /\ q.session = p.session /\ q.amount = p.amount

\* The books are append only: no endpoint takes a payment back or changes its order,
\* its session or its amount.
THEOREM BooksAreAppendOnly == Spec => PaymentsArePermanent
<1>1. RowInv /\ [Next]_vars => [KeepsPayments]_vars
  <2> SUFFICES ASSUME RowInv, [Next]_vars PROVE KeepsPayments
    OBVIOUS
  <2>1. CASE Calm
    BY <2>1 DEF Calm, KeepsPayments
  <2>2. ASSUME NEW w \in Workers, CommitPayment(w) PROVE KeepsPayments
    BY <2>2 DEF CommitPayment, KeepsPayments
  <2>3. ASSUME NEW w \in Workers, CommitDelete(w) PROVE KeepsPayments
    <3> DEFINE cut(p) == [p EXCEPT !.items = Without(req[w].movie, @)]
    <3>1. payments' = {cut(p) : p \in payments}
      BY <2>3 DEF CommitDelete
    <3>2. \A p \in payments : /\ cut(p).order = p.order /\ cut(p).session = p.session
                              /\ cut(p).amount = p.amount
      BY RowTypes DEF RowInv, Payment
    <3> HIDE DEF cut
    <3> QED BY <3>1, <3>2 DEF KeepsPayments
  <2> QED BY <2>1, <2>2, <2>3, StepRows
<1> QED BY <1>1, RowInvariant, PTL DEF Spec, PaymentsArePermanent, KeepsPayments

FixesOrders ==
  \A o \in Placed : /\ orders'[o].items = orders[o].items
                    /\ orders'[o].total = orders[o].total
                    /\ orders'[o].user = orders[o].user

\* Where no movie is deleted, a charge is what the order cost when it was placed, and
\* neither a change of price nor any other request changes an order that was placed
\* (routes/orders.py:136-150, services/payments.py:19).
THEOREM PricesAreFixed ==
  ASSUME "delete_movie" \notin Endpoints
  PROVE  Spec => []ChargeIsOrderPrice /\ OrderIsFixed
<1>1. RowInv => ChargeIsOrderPrice
  BY DEF RowInv, Deleting
<1>2. RowInv /\ [Next]_vars => [FixesOrders]_vars
  <2> SUFFICES ASSUME RowInv, [Next]_vars PROVE FixesOrders
    OBVIOUS
  <2>1. ASSUME NEW w \in Workers, CommitDelete(w) PROVE FALSE
    BY <2>1 DEF CommitDelete, At, RowInv, RequestsFit, RequestFits
  <2>2. KeepsOrders
    BY <2>1, StepRows DEF Calm
  <2> QED BY <2>2 DEF KeepsOrders, FixesOrders, Placed
<1> QED BY <1>1, <1>2, RowInvariant, PTL DEF Spec, OrderIsFixed, FixesOrders
=============================================================================
