--------------------------- MODULE CheckoutOverlap ---------------------------
(***************************************************************************)
(* Which overlaps of requests the rules of carts and orders depend on.  No *)
(* endpoint locks what it reads, so each rule needs that one kind of       *)
(* request does not run while another one does, for the same user or the   *)
(* same order.  Under that one condition the rule holds, for any users,    *)
(* movies and orders, and with everything else in flight at the same time: *)
(* settlements, late payments, deletions, changes of price, lost requests. *)
(* With one request at a time all four conditions hold.                    *)
(***************************************************************************)
EXTENDS CheckoutRows

-----------------------------------------------------------------------------
(* The conditions *)

\* A user does not place two orders at once.
OrdersAlone ==
  \A w, x \in Workers :
    /\ req[w].op = "create_order" /\ req[x].op = "create_order"
    /\ req[w].user = req[x].user
    => w = x

\* An order is not canceled while it is settled.
CancelsAlone ==
  \A w, x \in Workers :
    req[w].op = "cancel_order" /\ req[x].op \in SettleOps => req[w].order # req[x].order

\* A user adds nothing to the cart while an order is placed from it.
CartsStill ==
  \A w, x \in Workers :
    req[w].op = "create_order" /\ req[x].op = "add_to_cart" => req[w].user # req[x].user

\* No order of a user is settled while the user adds a movie to the cart.
AddsAlone ==
  \A w, x \in Workers :
    req[w].op = "add_to_cart" /\ req[x].op \in SettleOps
    => req[w].user # orders[req[x].order].user

\* No order of a user is settled while the user places an order.
OrdersUnsettled ==
  \A w, x \in Workers :
    req[w].op = "create_order" /\ req[x].op \in SettleOps
    => req[w].user # orders[req[x].order].user

\* Nobody pays for an order that is canceled.
PaidInTime ==
  \A w \in Workers : req[w].op \in SettleOps => orders[req[w].order].status # "canceled"

OneAtATime == \A w, x \in Workers : w = x

-----------------------------------------------------------------------------
(* What a request has read and counts on when it writes *)

Wanted(r) == MoviesOf({l \in r.lines : l.movie \notin r.owned})

PendingSeen(r) ==
  r.op = "create_order" /\ r.pc = "commit" => Wanted(r) \cap MovieIds(r.user, "pending") = {}
PaidSeen(r) ==
  r.op = "create_order" /\ r.pc \in {"pending_ids", "commit"} =>
    Wanted(r) \cap MovieIds(r.user, "paid") = {}
CancelUnpaid(r) == r.op = "cancel_order" => orders[r.order].status # "paid"
CartCovered(r) == r.op = "create_order" => cartItems[r.user] \subseteq MoviesOf(r.lines)
AddUnowned(r) ==
  r.op = "add_to_cart" /\ r.pc # "purchased" => r.movie \notin MovieIds(r.user, "paid")

\* One inductive invariant for each rule.
PendingInv == TypeInv /\ NoDuplicatePending /\ \A w \in Workers : PendingSeen(req[w])
PaidInv == TypeInv /\ PaymentMakesPaid /\ \A w \in Workers : CancelUnpaid(req[w])
CartInv == TypeInv /\ \A w \in Workers : CartCovered(req[w])
AddInv == TypeInv /\ \A w \in Workers : AddUnowned(req[w])

\* No movie is twice in the orders of a user that are pending or paid.
Live == {"pending", "paid"}
SoleOrders ==
  \A o, x \in OrderId :
    /\ orders[o].user = orders[x].user
    /\ orders[o].status \in Live /\ orders[x].status \in Live
    /\ MoviesOf(orders[o].items) \cap MoviesOf(orders[x].items) # {}
    => o = x
SoleInv == RowInv /\ SoleOrders /\ \A w \in Workers : PendingSeen(req[w]) /\ PaidSeen(req[w])

\* A request that was q and is r now knows no less of the tables of before.
Ready(r) == PendingSeen(r) /\ PaidSeen(r) /\ CancelUnpaid(r) /\ CartCovered(r) /\ AddUnowned(r)
Learns(q, r) ==
  /\ PendingSeen(q) => PendingSeen(r)
  /\ PaidSeen(q) => PaidSeen(r)
  /\ CancelUnpaid(q) => CancelUnpaid(r)
  /\ CartCovered(q) => CartCovered(r)
  /\ AddUnowned(q) => AddUnowned(r)
Learning == \A w \in Workers : Learns(req[w], req'[w])

LEMMA OverlapTypes ==
  ASSUME TypeInv
  PROVE  /\ payments \subseteq Payment
         /\ orders \in [OrderId -> Order]
         /\ cartItems \in [Users -> SUBSET Movies]
         /\ req \in [Workers -> Request]
         /\ \A w \in Workers : RequestOK(req[w])
BY DEF TypeInv, TypeOK, StoreTypeOK, TablesTypeOK, RequestsOK

-----------------------------------------------------------------------------
(* The ways in which a request moves on *)

\* Only these endpoints count on what they have read.
Careful == {"create_order", "cancel_order", "add_to_cart"}

LEMMA CarelessIsReady == \A r : r.op \notin Careful => Ready(r)
BY DEF Ready, Careful, PendingSeen, PaidSeen, CancelUnpaid, CartCovered, AddUnowned

LEMMA ReadyLearns == \A q, r : Ready(r) => Learns(q, r)
BY DEF Ready, Learns

LEMMA EditLearns ==
  ASSUME TypeInv, NEW w \in Workers, NEW r, req' = [req EXCEPT ![w] = r], Learns(req[w], r)
  PROVE  Learning
<1>1. \A x \in Workers : req'[x] = IF x = w THEN r ELSE req[x]
  BY OverlapTypes
<1>2. \A q : Learns(q, q)
  BY DEF Learns
<1> QED BY <1>1, <1>2 DEF Learning

LEMMA ReplyLearns == ASSUME TypeInv, NEW w \in Workers, Reply(w) PROVE Learning
<1>1. Ready(Idle)
  BY CarelessIsReady DEF Idle, Careful
<1> QED BY <1>1, ReadyLearns, EditLearns DEF Reply

LEMMA AcceptLearns ==
  ASSUME TypeInv, NEW w \in Workers, NEW r, Accept(w, r), Ready(r) PROVE Learning
BY ReadyLearns, EditLearns DEF Accept

LEMMA GotoLearns ==
  ASSUME TypeInv, NEW w \in Workers, NEW label, Goto(w, label),
         req[w].op = "add_to_cart" /\ req[w].pc = "purchased" =>
           req[w].movie \notin MovieIds(req[w].user, "paid"),
         req[w].op = "create_order" =>
           /\ req[w].pc = "pending_ids" /\ label = "commit"
           /\ MoviesOf(Orderable(w)) \cap MovieIds(req[w].user, "pending") = {}
  PROVE  Learning
<1> DEFINE r == [req[w] EXCEPT !.pc = label]
<1>1. req[w] \in Request
  BY OverlapTypes
<1>2. /\ r.op = req[w].op /\ r.pc = label /\ r.order = req[w].order /\ r.lines = req[w].lines
      /\ r.owned = req[w].owned /\ r.user = req[w].user /\ r.movie = req[w].movie
  BY <1>1 DEF Request
<1>3. req' = [req EXCEPT ![w] = r]
  BY OverlapTypes DEF Goto
<1> HIDE DEF r
<1>4. Learns(req[w], r)
  BY <1>2 DEF Learns, PendingSeen, PaidSeen, CancelUnpaid, CartCovered, AddUnowned, Orderable, Wanted
<1> QED BY <1>3, <1>4, EditLearns

-----------------------------------------------------------------------------
(* The steps that only read *)

Reads == UNCHANGED <<orders, cartItems, payments>>

\* The steps that write to the carts, the orders and the payments.
Writes(w) ==
  \/ CommitAdd(w)
  \/ CommitRemove(w) \/ CommitClear(w)
  \/ CommitOrder(w)
  \/ CommitCancel(w)
  \/ CommitPayment(w)
  \/ CommitDelete(w)

LEMMA CartReads ==
  ASSUME TypeInv, NEW w \in Workers, CartArrives(w) \/ CartStep(w), ~Writes(w)
  PROVE  Reads /\ Learning
<1>1. Reads
  BY DEF CartArrives, OpenCart, AddToCart, CartStep, CheckPurchased, CartMissing,
         InsertCart, CartLoaded, cartUnchanged, Reads, Writes
<1> SUFFICES Learning
  BY <1>1
<1>2. ASSUME NEW op \in CartEndpoints, NEW u, NEW m, OpenCart(w, op, u, m) PROVE Learning
  <2> DEFINE r == [Idle EXCEPT !.op = op, !.pc = "load_cart", !.user = u, !.movie = m]
  <2>1. Accept(w, r) /\ r.op \in CartEndpoints \ {"add_to_cart"}
    BY <1>2 DEF OpenCart, Idle
  <2> HIDE DEF r
  <2>2. Ready(r)
    BY <2>1, CarelessIsReady DEF Careful, CartEndpoints
  <2> QED BY <2>1, <2>2, AcceptLearns
<1>3. ASSUME NEW u, NEW m, AddToCart(w, u, m) PROVE Learning
  <2> DEFINE r == [Idle EXCEPT !.op = "add_to_cart", !.pc = "purchased", !.user = u, !.movie = m]
  <2>1. Accept(w, r) /\ r.op = "add_to_cart" /\ r.pc = "purchased"
    BY <1>3 DEF AddToCart, Idle
  <2> HIDE DEF r
  <2>2. Ready(r)
    BY <2>1 DEF Ready, PendingSeen, PaidSeen, CancelUnpaid, CartCovered, AddUnowned
  <2> QED BY <2>1, <2>2, AcceptLearns
<1>4. CASE CheckPurchased(w)
  BY <1>4, ReplyLearns, GotoLearns DEF CheckPurchased, At
<1>5. CASE CartMissing(w) \/ InsertCart(w) \/ CartLoaded(w)
  <2>1. /\ req[w].op \in CartEndpoints /\ req[w].pc # "purchased"
        /\ Reply(w) \/ \E label \in {"insert_cart", "load_cart", "commit"} : Goto(w, label)
    BY <1>5, OverlapTypes DEF CartMissing, InsertCart, CartLoaded, RequestOK
  <2> QED BY <2>1, ReplyLearns, GotoLearns DEF CartEndpoints
<1> QED BY <1>1, <1>2, <1>3, <1>4, <1>5 DEF CartArrives, CartStep, Writes

LEMMA OrderReads ==
  ASSUME TypeInv, NEW w \in Workers, OrderArrives(w) \/ OrderStep(w), ~Writes(w)
  PROVE  Reads /\ Learning
<1>1. Reads
  BY DEF OrderArrives, CreateOrder, CancelOrder, OrderStep, ReadPaidIds, ReadPendingIds,
         ordersUnchanged, Reads, Writes
<1> SUFFICES Learning
  BY <1>1
<1>2. ASSUME NEW u \in Users, CreateOrder(w, u) PROVE Learning
  <2> DEFINE lines == {[movie |-> m, price |-> price[m]] : m \in cartItems[u]}
  <2>1. cartItems[u] \subseteq MoviesOf(lines)
    <3>1. \A m \in cartItems[u] : /\ [movie |-> m, price |-> price[m]] \in lines
                                  /\ [movie |-> m, price |-> price[m]].movie = m
      OBVIOUS
    <3> HIDE DEF lines
    <3> QED BY <3>1 DEF MoviesOf
  <2> HIDE DEF lines
  <2> DEFINE r == [Idle EXCEPT !.op = "create_order", !.pc = "paid_ids",
                               !.user = u, !.lines = lines]
  <2>2. /\ Accept(w, r) /\ r.op = "create_order" /\ r.pc = "paid_ids" /\ r.user = u
        /\ r.lines = lines
    BY <1>2 DEF CreateOrder, Idle, lines
  <2> HIDE DEF r
  <2>3. Ready(r)
    BY <2>1, <2>2 DEF Ready, PendingSeen, PaidSeen, CancelUnpaid, CartCovered, AddUnowned
  <2> QED BY <2>2, <2>3, AcceptLearns
<1>3. ASSUME NEW o \in OrderId, CancelOrder(w, o) PROVE Learning
  <2> DEFINE r == [Idle EXCEPT !.op = "cancel_order", !.pc = "commit",
                               !.user = orders[o].user, !.order = o]
  <2>1. Accept(w, r) /\ r.op = "cancel_order" /\ r.order = o /\ orders[o].status = "pending"
    BY <1>3 DEF CancelOrder, Idle
  <2> HIDE DEF r
  <2>2. Ready(r)
    BY <2>1 DEF Ready, PendingSeen, PaidSeen, CancelUnpaid, CartCovered, AddUnowned
  <2> QED BY <2>1, <2>2, AcceptLearns
<1>4. CASE ReadPaidIds(w)
  <2> DEFINE owned == MovieIds(req[w].user, "paid")
             r == [req[w] EXCEPT !.pc = "pending_ids", !.owned = owned]
  <2>1. req[w] \in Request /\ req[w].op = "create_order"
    BY <1>4, OverlapTypes DEF ReadPaidIds, At
  <2> HIDE DEF owned
  <2>2. /\ req' = [req EXCEPT ![w] = r]
        /\ r.op = "create_order" /\ r.pc = "pending_ids" /\ r.user = req[w].user
        /\ r.lines = req[w].lines /\ r.owned = owned
    BY <1>4, <2>1, OverlapTypes DEF ReadPaidIds, owned, Request
  <2> HIDE DEF r
  <2>3. Wanted(r) \cap MovieIds(r.user, "paid") = {}
    BY <2>2 DEF owned, Wanted, MoviesOf
  <2>4. Learns(req[w], r)
    BY <2>1, <2>2, <2>3 DEF Learns, PendingSeen, PaidSeen, CancelUnpaid, CartCovered, AddUnowned
  <2> QED BY <2>2, <2>4, EditLearns
<1>5. CASE ReadPendingIds(w)
  BY <1>5, ReplyLearns, GotoLearns DEF ReadPendingIds, At
<1> QED BY <1>1, <1>2, <1>3, <1>4, <1>5 DEF OrderArrives, OrderStep, Writes

LEMMA PaymentReads ==
  ASSUME TypeInv, NEW w \in Workers, PaymentArrives(w) \/ PaymentStep(w), ~Writes(w)
  PROVE  Reads /\ Learning
<1>1. Reads
  BY DEF PaymentArrives, CreatePaymentSession, PaymentSuccess, StripeWebhook, Settle,
         PaymentStep, CreateCheckoutSession, FindPayment, LoadOrder, SendConfirmation,
         AnswerSettled, paymentsUnchanged, Reads, Writes
<1> SUFFICES Learning
  BY <1>1
<1>3. ASSUME NEW o \in OrderId, CreatePaymentSession(w, o) PROVE Learning
  <2> DEFINE items == orders[o].items
             r == [Idle EXCEPT !.op = "create_payment_session", !.pc = "stripe_call",
                               !.user = orders[o].user, !.order = o, !.lines = items]
  <2>1. Accept(w, r) /\ r.op = "create_payment_session"
    BY <1>3 DEF CreatePaymentSession, Idle
  <2> HIDE DEF r
  <2>2. Ready(r)
    BY <2>1, CarelessIsReady DEF Careful
  <2> QED BY <2>1, <2>2, AcceptLearns
<1>4. ASSUME NEW s \in SessionId, NEW op \in SettleOps, Settle(w, op, s) PROVE Learning
  <2> DEFINE r == [Idle EXCEPT !.op = op, !.pc = "find_payment", !.session = s,
                               !.user = sessions[s].user, !.order = sessions[s].order]
  <2>1. Accept(w, r) /\ r.op = op
    BY <1>4 DEF Settle, Idle
  <2> HIDE DEF r
  <2>2. Ready(r)
    BY <2>1, CarelessIsReady DEF Careful, SettleOps
  <2> QED BY <2>1, <2>2, AcceptLearns
<1>5. CASE CreateCheckoutSession(w)
  BY <1>5, ReplyLearns DEF CreateCheckoutSession
<1>6. CASE FindPayment(w) \/ LoadOrder(w) \/ SendConfirmation(w) \/ AnswerSettled(w)
  <2>1. req[w].op \in SettleOps /\ req[w] \in Request
    BY <1>6, OverlapTypes DEF FindPayment, LoadOrder, SendConfirmation, AnswerSettled, RequestOK
  <2>2. CASE Reply(w)
    BY <2>2, ReplyLearns
  <2>3. ASSUME NEW label, Goto(w, label) PROVE Learning
    BY <2>1, <2>3, GotoLearns DEF SettleOps
  <2>4. CASE req' = [req EXCEPT ![w].pc = "commit", ![w].lines = orders[req[w].order].items]
    <3> DEFINE items == orders[req[w].order].items
               r == [req[w] EXCEPT !.pc = "commit", !.lines = items]
    <3> HIDE DEF items
    <3>1. req' = [req EXCEPT ![w] = r] /\ r.op = req[w].op
      BY <2>1, <2>4, OverlapTypes DEF items, Request
    <3> HIDE DEF r
    <3>2. Ready(r)
      BY <2>1, <3>1, CarelessIsReady DEF Careful, SettleOps
    <3> QED BY <3>1, <3>2, ReadyLearns, EditLearns
  <2> QED BY <1>6, <2>2, <2>3, <2>4
             DEF FindPayment, LoadOrder, SendConfirmation, AnswerSettled, Settled
<1> QED BY <1>1, <1>3, <1>4, <1>5, <1>6
           DEF PaymentArrives, PaymentSuccess, StripeWebhook, PaymentStep, SettleOps, Writes

LEMMA CatalogReads ==
  ASSUME TypeInv, NEW w \in Workers, CatalogArrives(w) \/ CatalogStep(w), ~Writes(w)
  PROVE  Reads /\ Learning
<1>1. Reads
  BY DEF CatalogArrives, UpdatePrice, DeleteMovie, CatalogStep, CheckUnsold, CountCarts,
         DeleteRefused, catalogUnchanged, Reads, Writes
<1> SUFFICES Learning
  BY <1>1
<1>2. \A r : r.op = "delete_movie" => Ready(r)
  BY CarelessIsReady DEF Careful
<1>3. ASSUME NEW m, NEW p, UpdatePrice(w, m, p) PROVE Learning
  BY <1>3 DEF UpdatePrice, catalogUnchanged, Learning, Learns
<1>4. ASSUME NEW u, NEW m, DeleteMovie(w, u, m) PROVE Learning
  <2> DEFINE r == [Idle EXCEPT !.op = "delete_movie", !.pc = "purchased", !.user = u, !.movie = m]
  <2>1. Accept(w, r) /\ r.op = "delete_movie"
    BY <1>4 DEF DeleteMovie, Idle
  <2> HIDE DEF r
  <2> QED BY <1>2, <2>1, AcceptLearns
<1>5. CASE CheckUnsold(w) \/ DeleteRefused(w)
  BY <1>5, ReplyLearns, GotoLearns DEF CheckUnsold, DeleteRefused, At
<1>6. CASE CountCarts(w)
  <2> DEFINE count == \E u \in Users : req[w].movie \in cartItems[u]
             r == [req[w] EXCEPT !.pc = "commit", !.inCarts = count]
  <2>1. req' = [req EXCEPT ![w].pc = "commit", ![w].inCarts = count]
    BY <1>6, Zenon DEF CountCarts
  <2>2. req[w] \in Request /\ req[w].op = "delete_movie"
    BY <1>6, OverlapTypes DEF CountCarts, At
  <2> HIDE DEF count
  <2>3. req' = [req EXCEPT ![w] = r] /\ r.op = "delete_movie"
    BY <2>1, <2>2, OverlapTypes DEF Request
  <2> HIDE DEF r
  <2> QED BY <1>2, <2>3, ReadyLearns, EditLearns
<1> QED BY <1>1, <1>3, <1>4, <1>5, <1>6 DEF CatalogArrives, CatalogStep, Writes

LEMMA OtherReads ==
  ASSUME TypeInv,
         \/ \E w \in Workers : Crash(w)
         \/ \E s \in SessionId : CustomerPays(s)
         \/ UNCHANGED vars
  PROVE  Reads /\ Learning
<1>1. Reads
  BY DEF Crash, CustomerPays, paymentsUnchanged, vars, tables, Reads
<1>2. CASE \E w \in Workers : Crash(w)
  BY <1>1, <1>2, ReplyLearns DEF Crash
<1>3. CASE UNCHANGED req
  BY <1>1, <1>3 DEF Learning, Learns
<1> QED BY <1>2, <1>3 DEF CustomerPays, vars

LEMMA StepCases ==
  ASSUME TypeInv, [Next]_vars
  PROVE  (Reads /\ Learning) \/ \E w \in Workers : Writes(w)
BY CartReads, OrderReads, PaymentReads, CatalogReads, OtherReads DEF Next, Arrive, Step
-----------------------------------------------------------------------------
(* What the writes do to the tables *)

\* No order gets this status, and those that have it keep their user and get no movies.
Shrinks(status) ==
  \A o \in OrderId : orders'[o].status = status =>
    /\ orders[o].status = status
    /\ orders'[o].user = orders[o].user
    /\ MoviesOf(orders'[o].items) \subseteq MoviesOf(orders[o].items)
CartsShrink == \A u \in Users : cartItems'[u] \subseteq cartItems[u]
BooksShrink == \A p \in payments' : \E q \in payments : q.order = p.order

\* What no step does, where the rules hold.
KeepsPaid == \A o \in OrderId : orders[o].status = "paid" => orders'[o].status = "paid"
DropsNothing ==
  \A u \in Users : \A o \in OrderId :
    orders[o].status = "absent" /\ orders'[o].status = "pending" /\ orders'[o].user = u
    => \A m \in cartItems[u] \ cartItems'[u] :
          \/ m \in MoviesOf(orders'[o].items)
          \/ [to |-> u, movie |-> m, about |-> "excluded"] \in notes'
AddsUnowned ==
  \A u \in Users : (cartItems'[u] \ cartItems[u]) \cap MovieIds(u, "paid") = {}

LEMMA ShrunkIds ==
  ASSUME NEW status, Shrinks(status), NEW u
  PROVE  MovieIds(u, status)' \subseteq MovieIds(u, status)
BY DEF Shrinks, MovieIds, MoviesOf

LEMMA ReadsShrink ==
  ASSUME Reads
  PROVE  /\ \A status : Shrinks(status)
         /\ CartsShrink /\ BooksShrink /\ KeepsPaid
BY DEF Reads, Shrinks, CartsShrink, BooksShrink, KeepsPaid

LEMMA CartEffects ==
  ASSUME TypeInv, NEW w \in Workers, CommitAdd(w) \/ CommitRemove(w) \/ CommitClear(w)
  PROVE  /\ Learning /\ BooksShrink /\ KeepsPaid
         /\ \A status : Shrinks(status)
         /\ CommitAdd(w) \/ CartsShrink
<1>1. UNCHANGED <<orders, payments>> /\ Reply(w)
  BY DEF CommitAdd, CommitRemove, CommitClear, cartUnchanged
<1>2. CommitAdd(w) \/ CartsShrink
  BY OverlapTypes DEF CommitRemove, CommitClear, CartsShrink
<1> QED BY <1>1, <1>2, ReplyLearns DEF Shrinks, BooksShrink, KeepsPaid

\* An order is placed, or a movie of it is gone and nothing is written.
Places(w, o) ==
  /\ NextOrder(o)
  /\ orders' = [orders EXCEPT ![o] = NewOrder(w)]
  /\ cartItems' = [cartItems EXCEPT ![req[w].user] = {}]
  /\ notes' = notes \cup {[to |-> req[w].user, movie |-> l.movie, about |-> "excluded"] :
                            l \in req[w].lines \ Orderable(w)}

LEMMA OrderEffects ==
  ASSUME TypeInv, NEW w \in Workers, CommitOrder(w)
  PROVE  /\ Learning /\ BooksShrink /\ KeepsPaid /\ CartsShrink /\ Shrinks("paid")
         /\ UNCHANGED payments /\ Reply(w)
         /\ Reads \/ \E o \in OrderId : Places(w, o)
<1>1. UNCHANGED payments /\ Reply(w)
  BY DEF CommitOrder, ordersUnchanged
<1>2. Reads \/ \E o \in OrderId : Places(w, o)
  BY <1>1 DEF CommitOrder, Reads, Places
<1>3. ASSUME NEW o \in OrderId, Places(w, o) PROVE KeepsPaid /\ CartsShrink /\ Shrinks("paid")
  <2> DEFINE new == NewOrder(w)
  <2>1. new.status = "pending"
    BY DEF NewOrder
  <2> HIDE DEF new
  <2>2. orders[o].status = "absent" /\ orders'[o] = new
        /\ \A x \in OrderId : x # o => orders'[x] = orders[x]
    BY <1>3, OverlapTypes DEF Places, NextOrder, new
  <2>3. CartsShrink
    BY <1>3, OverlapTypes DEF Places, CartsShrink
  <2> QED BY <2>1, <2>2, <2>3 DEF KeepsPaid, Shrinks
<1> QED BY <1>1, <1>2, <1>3, ReplyLearns, ReadsShrink DEF BooksShrink

\* An order that is made PAID or canceled keeps its user and its items.
StatusIsSet(x, status) == orders' = [orders EXCEPT ![x].status = status]

LEMMA StatusEffects ==
  ASSUME TypeInv, NEW x, NEW status, StatusIsSet(x, status)
  PROVE  /\ \A o \in OrderId :
              /\ orders'[o].user = orders[o].user /\ orders'[o].items = orders[o].items
              /\ orders'[o].status = IF o = x THEN status ELSE orders[o].status
         /\ \A other : other # status => Shrinks(other)
<1>1. \A o \in OrderId :
        /\ orders'[o].user = orders[o].user /\ orders'[o].items = orders[o].items
        /\ orders'[o].status = IF o = x THEN status ELSE orders[o].status
  BY OverlapTypes DEF Order, StatusIsSet
<1> QED BY <1>1 DEF Shrinks

LEMMA CancelEffects ==
  ASSUME TypeInv, NEW w \in Workers, CommitCancel(w)
  PROVE  /\ Learning /\ BooksShrink /\ CartsShrink /\ Shrinks("pending") /\ Shrinks("paid")
         /\ orders[req[w].order].status # "paid" => KeepsPaid
<1>1. /\ StatusIsSet(req[w].order, "canceled")
      /\ UNCHANGED <<cartItems, payments>> /\ Reply(w)
  BY DEF CommitCancel, ordersUnchanged, StatusIsSet
<1>2. Shrinks("pending") /\ Shrinks("paid")
  BY <1>1, StatusEffects
<1>3. orders[req[w].order].status # "paid" => KeepsPaid
  BY <1>1, StatusEffects DEF KeepsPaid
<1> QED BY <1>1, <1>2, <1>3, ReplyLearns DEF BooksShrink, CartsShrink

\* A settlement is recorded, or a constraint refuses it.
Records(w) ==
  /\ payments' = payments \cup {NewPayment(w)}
  /\ StatusIsSet(req[w].order, "paid")
  /\ Goto(w, "mail")

LEMMA PaymentEffects ==
  ASSUME TypeInv, NEW w \in Workers, CommitPayment(w)
  PROVE  /\ Learning /\ CartsShrink /\ Shrinks("pending") /\ KeepsPaid
         /\ req[w].op \in SettleOps
         /\ Reads \/ Records(w)
<1>1. UNCHANGED cartItems /\ req[w].op \in SettleOps
  BY DEF CommitPayment, paymentsUnchanged
<1>2. (Reads /\ Reply(w)) \/ Records(w)
  BY <1>1 DEF CommitPayment, Records, StatusIsSet, Reads
<1>3. CASE Records(w)
  <2>1. Learning
    BY <1>1, <1>3, GotoLearns DEF Records, SettleOps
  <2>2. Shrinks("pending") /\ KeepsPaid
    BY <1>3, StatusEffects DEF Records, KeepsPaid
  <2> QED BY <1>1, <1>3, <2>1, <2>2 DEF CartsShrink
<1>4. CASE Reads /\ Reply(w)
  BY <1>1, <1>4, ReplyLearns, ReadsShrink
<1> QED BY <1>2, <1>3, <1>4

LEMMA DeleteEffects ==
  ASSUME TypeInv, NEW w \in Workers, CommitDelete(w)
  PROVE  /\ Learning /\ BooksShrink /\ CartsShrink /\ KeepsPaid
         /\ \A status : Shrinks(status)
<1> DEFINE m == req[w].movie
           cut(p) == [p EXCEPT !.items = Without(m, @)]
<1>1. /\ cartItems' = [u \in Users |-> cartItems[u] \ {m}]
      /\ orders' = [o \in OrderId |-> [orders[o] EXCEPT !.items = Without(m, @)]]
      /\ payments' = {cut(p) : p \in payments}
      /\ Reply(w)
  BY DEF CommitDelete
<1>2. \A o \in OrderId :
        /\ orders'[o].status = orders[o].status /\ orders'[o].user = orders[o].user
        /\ MoviesOf(orders'[o].items) \subseteq MoviesOf(orders[o].items)
  BY <1>1, OverlapTypes DEF Order, Without, MoviesOf
<1>3. \A p \in payments : cut(p).order = p.order
  BY OverlapTypes DEF Payment
<1> HIDE DEF cut
<1>4. BooksShrink /\ CartsShrink
  BY <1>1, <1>3 DEF BooksShrink, CartsShrink
<1> QED BY <1>1, <1>2, <1>4, ReplyLearns DEF KeepsPaid, Shrinks

\* Each thing that a rule forbids is done by one endpoint.
LEMMA Effects ==
  ASSUME TypeInv, [Next]_vars
  PROVE  /\ Learning
         /\ Shrinks("pending") \/ \E w \in Workers : CommitOrder(w)
         /\ Shrinks("paid") \/ \E w \in Workers : CommitPayment(w)
         /\ BooksShrink \/ \E w \in Workers : CommitPayment(w)
         /\ CartsShrink \/ \E w \in Workers : CommitAdd(w)
         /\ KeepsPaid \/ \E w \in Workers : CommitCancel(w)
BY StepCases, ReadsShrink, CartEffects, OrderEffects, CancelEffects, PaymentEffects,
   DeleteEffects DEF Writes

-----------------------------------------------------------------------------
(* The rules, one by one *)

\* No step but the commit of an order puts a movie into a pending order.
LEMMA PendingStaysSeen ==
  ASSUME TypeInv, OrdersAlone, [Next]_vars, \A w \in Workers : PendingSeen(req[w]),
         NEW x \in Workers
  PROVE  PendingSeen(req[x])'
<1>1. Learning
  BY Effects
<1>2. PICK r : r = req'[x]
  OBVIOUS
<1>3. PendingSeen(r)
  BY <1>1, <1>2 DEF Learning, Learns
<1>4. CASE Shrinks("pending")
  <2>1. MovieIds(r.user, "pending")' \subseteq MovieIds(r.user, "pending")
    BY <1>4, ShrunkIds
  <2> QED BY <1>2, <1>3, <2>1 DEF PendingSeen
<1>5. CASE r.op # "create_order"
  BY <1>2, <1>5 DEF PendingSeen
<1>6. ASSUME NEW w \in Workers, CommitOrder(w), NEW o \in OrderId, Places(w, o),
             r.op = "create_order"
      PROVE  PendingSeen(req[x])'
  <2>1. x # w /\ r = req[x]
    BY <1>2, <1>6, OrderEffects, OverlapTypes DEF Reply, Idle
  <2>2. r.user # req[w].user
    BY <1>6, <2>1 DEF OrdersAlone, CommitOrder, At
  <2>3. \A y \in OrderId : orders'[y].user = r.user => orders'[y] = orders[y]
    BY <1>6, <2>2, OverlapTypes DEF Places, NewOrder
  <2>4. MovieIds(r.user, "pending")' \subseteq MovieIds(r.user, "pending")
    BY <2>3 DEF MovieIds
  <2> QED BY <1>2, <1>3, <2>4 DEF PendingSeen
<1> QED BY <1>4, <1>5, <1>6, Effects, OrderEffects, ReadsShrink

\* A placed order has none of the movies of the orders that its request has seen.
LEMMA PlacedIsNew ==
  ASSUME TypeInv, NEW w \in Workers, NEW o \in OrderId, Places(w, o), NEW status,
         Wanted(req[w]) \cap MovieIds(req[w].user, status) = {}
  PROVE  /\ \A x \in OrderId : x # o => orders'[x] = orders[x]
         /\ orders'[o].status = "pending" /\ orders'[o].user = req[w].user
         /\ \A x \in OrderId :
              orders[x].user = req[w].user /\ orders[x].status = status
              => MoviesOf(orders[x].items) \cap MoviesOf(orders'[o].items) = {}
<1> DEFINE new == NewOrder(w)
<1>1. /\ new.user = req[w].user /\ new.status = "pending"
      /\ MoviesOf(new.items) = Wanted(req[w])
  BY DEF NewOrder, Orderable, Wanted
<1> HIDE DEF new
<1>2. orders'[o] = new /\ \A x \in OrderId : x # o => orders'[x] = orders[x]
  BY OverlapTypes DEF Places, new
<1>3. ASSUME NEW x \in OrderId, orders[x].user = req[w].user, orders[x].status = status
      PROVE  MoviesOf(orders[x].items) \cap MoviesOf(new.items) = {}
  BY <1>1, <1>3 DEF MovieIds
<1> QED BY <1>1, <1>2, <1>3

LEMMA PendingStep ==
  ASSUME PendingInv, OrdersAlone, [Next]_vars
  PROVE  PendingInv'
<1>1. TypeInv /\ TypeInv' /\ \A w \in Workers : PendingSeen(req[w])
  BY StepTypes DEF PendingInv
<1>2. \A x \in Workers : PendingSeen(req[x])'
  BY <1>1, PendingStaysSeen
<1>3. CASE Shrinks("pending")
  <2>1. NoDuplicatePending'
    BY <1>3 DEF PendingInv, NoDuplicatePending, Placed, Shrinks
  <2> QED BY <1>1, <1>2, <2>1 DEF PendingInv
<1>4. ASSUME NEW w \in Workers, CommitOrder(w), NEW o \in OrderId, Places(w, o)
      PROVE  PendingInv'
  <2>1. Wanted(req[w]) \cap MovieIds(req[w].user, "pending") = {}
    BY <1>1, <1>4 DEF PendingSeen, CommitOrder, At
  <2>2. /\ \A x \in OrderId : x # o => orders'[x] = orders[x]
        /\ orders'[o].status = "pending" /\ orders'[o].user = req[w].user
        /\ \A x \in OrderId :
             orders[x].user = req[w].user /\ orders[x].status = "pending"
             => MoviesOf(orders[x].items) \cap MoviesOf(orders'[o].items) = {}
    BY <1>1, <1>4, <2>1, PlacedIsNew
  <2>3. NoDuplicatePending'
    BY <2>2 DEF PendingInv, NoDuplicatePending, Placed
  <2> QED BY <1>1, <1>2, <2>3 DEF PendingInv
<1> QED BY <1>1, <1>3, <1>4, Effects, OrderEffects, ReadsShrink

\* No step but the commit of a settlement makes an order PAID, and no step but the
\* commit of a cancellation makes it anything else.
LEMMA PaidStep ==
  ASSUME PaidInv, CancelsAlone, [Next]_vars
  PROVE  PaidInv' /\ KeepsPaid
<1>1. TypeInv /\ TypeInv' /\ Learning
  BY StepTypes, Effects DEF PaidInv
<1>2. KeepsPaid
  <2>1. ASSUME NEW w \in Workers, CommitCancel(w) PROVE KeepsPaid
    BY <1>1, <2>1, CancelEffects DEF PaidInv, CancelUnpaid, CommitCancel, At
  <2> QED BY <1>1, <2>1, Effects
<1>3. \A p \in payments : p.order \in OrderId
  BY <1>1, OverlapTypes DEF Payment
<1>4. \A w \in Workers : req'[w].op = "cancel_order" => req'[w].order \in OrderId
  BY <1>1 DEF TypeInv, RequestsOK, RequestOK
<1>5. CASE Shrinks("paid") /\ BooksShrink
  <2>1. PaymentMakesPaid'
    BY <1>2, <1>3, <1>5 DEF PaidInv, PaymentMakesPaid, BooksShrink, KeepsPaid
  <2>2. ASSUME NEW w \in Workers PROVE CancelUnpaid(req[w])'
    <3>1. PICK r : r = req'[w]
      OBVIOUS
    <3>2. CancelUnpaid(r)
      BY <1>1, <3>1 DEF PaidInv, Learning, Learns
    <3> QED BY <1>4, <1>5, <3>1, <3>2 DEF CancelUnpaid, Shrinks
  <2> QED BY <1>1, <1>2, <2>1, <2>2 DEF PaidInv
<1>6. ASSUME NEW w \in Workers, CommitPayment(w), Records(w) PROVE PaidInv'
  <2> DEFINE x == req[w].order
  <2>1. req[w].op \in SettleOps
    BY <1>1, <1>6, PaymentEffects
  <2>2. x \in OrderId
    BY <1>1, <2>1, SettleFacts
  <2>3. \A o \in OrderId :
          orders'[o].status = IF o = x THEN "paid" ELSE orders[o].status
    BY <1>1, <1>6, StatusEffects DEF Records
  <2>4. PaymentMakesPaid'
    <3>1. \A p \in payments' : p \in payments \/ p.order = x
      BY <1>6 DEF Records, NewPayment
    <3> QED BY <1>3, <2>2, <2>3, <3>1 DEF PaidInv, PaymentMakesPaid
  <2>5. ASSUME NEW v \in Workers PROVE CancelUnpaid(req[v])'
    <3>1. PICK r : r = req'[v]
      OBVIOUS
    <3>2. CASE r.op = "cancel_order"
      <4>1. v # w /\ r = req[v]
        BY <1>1, <1>6, <2>1, <3>1, <3>2, OverlapTypes DEF Records, Goto, SettleOps, Request
      <4>2. r.order # x /\ CancelUnpaid(r)
        BY <2>1, <3>2, <4>1 DEF CancelsAlone, PaidInv
      <4> QED BY <1>4, <2>3, <3>1, <3>2, <4>2 DEF CancelUnpaid
    <3> QED BY <3>1, <3>2 DEF CancelUnpaid
  <2> QED BY <1>1, <2>4, <2>5 DEF PaidInv
<1> QED BY <1>1, <1>2, <1>5, <1>6, Effects, PaymentEffects, ReadsShrink

\* No step but the commit of an added movie puts one into a cart.
LEMMA CoverStep ==
  ASSUME CartInv, CartsStill, [Next]_vars
  PROVE  CartInv' /\ DropsNothing
<1>1. TypeInv /\ TypeInv' /\ Learning
  BY StepTypes, Effects DEF CartInv
<1>2. ASSUME NEW x \in Workers PROVE CartCovered(req[x])'
  <2>1. PICK r : r = req'[x]
    OBVIOUS
  <2>2. CartCovered(r)
    BY <1>1, <2>1 DEF CartInv, Learning, Learns
  <2>3. CASE r.op # "create_order"
    BY <2>1, <2>3 DEF CartCovered
  <2>4. CASE CartsShrink /\ r.op = "create_order"
    <3>1. r.user \in Users
      BY <1>1, <2>1, <2>4 DEF TypeInv, RequestsOK, RequestOK, UserOps
    <3> QED BY <2>1, <2>2, <2>4, <3>1 DEF CartCovered, CartsShrink
  <2>5. ASSUME NEW w \in Workers, CommitAdd(w), r.op = "create_order"
        PROVE  CartCovered(req[x])'
    <3>1. x # w /\ r = req[x]
      BY <1>1, <2>1, <2>5, OverlapTypes DEF CommitAdd, Reply, Idle
    <3>2. r.user # req[w].user
      BY <2>5, <3>1 DEF CartsStill, CommitAdd, At
    <3>3. r.user \in Users
      BY <1>1, <2>5, <3>1, OverlapTypes DEF RequestOK, UserOps
    <3>4. cartItems'[r.user] = cartItems[r.user]
      BY <1>1, <2>5, <3>2, <3>3, OverlapTypes DEF CommitAdd
    <3> QED BY <2>1, <2>2, <3>4 DEF CartCovered
  <2> QED BY <1>1, <2>3, <2>4, <2>5, Effects
<1>3. ASSUME Shrinks("pending") PROVE DropsNothing
  BY <1>3 DEF Shrinks, DropsNothing
<1>4. ASSUME NEW w \in Workers, CommitOrder(w), NEW o \in OrderId, Places(w, o)
      PROVE  DropsNothing
  <2> DEFINE u == req[w].user
             new == NewOrder(w)
             sold == MoviesOf(Orderable(w))
  <2>1. cartItems[u] \subseteq MoviesOf(req[w].lines)
    BY <1>4 DEF CartInv, CartCovered, CommitOrder, At
  <2>2. new.user = u /\ MoviesOf(new.items) = sold
    BY DEF NewOrder
  <2> HIDE DEF new
  <2>3. orders'[o] = new /\ \A x \in OrderId : x # o => orders'[x] = orders[x]
    BY <1>1, <1>4, OverlapTypes DEF Places, new
  <2>4. ASSUME NEW m \in cartItems[u]
        PROVE  m \in sold \/ [to |-> u, movie |-> m, about |-> "excluded"] \in notes'
    <3>1. PICK l \in req[w].lines : l.movie = m
      BY <2>1, <2>4 DEF MoviesOf
    <3>2. CASE l \in Orderable(w)
      BY <3>1, <3>2 DEF MoviesOf
    <3>3. CASE l \notin Orderable(w)
      BY <1>4, <3>1, <3>3 DEF Places
    <3> QED BY <3>2, <3>3
  <2>5. ASSUME NEW x \in OrderId, orders[x].status = "absent", orders'[x].status = "pending"
        PROVE  x = o
    BY <2>3, <2>5
  <2> HIDE DEF u, sold
  <2> QED BY <2>2, <2>3, <2>4, <2>5 DEF DropsNothing
<1> QED BY <1>1, <1>2, <1>3, <1>4, Effects, OrderEffects, ReadsShrink DEF CartInv

\* Only a settlement adds to what its owner has bought.
LEMMA RecordedIds ==
  ASSUME TypeInv, NEW w \in Workers, Records(w), NEW u, u # orders[req[w].order].user
  PROVE  MovieIds(u, "paid")' \subseteq MovieIds(u, "paid")
<1>1. \A o \in OrderId :
        /\ orders'[o].user = orders[o].user /\ orders'[o].items = orders[o].items
        /\ orders'[o].status = IF o = req[w].order THEN "paid" ELSE orders[o].status
  BY StatusEffects DEF Records
<1> QED BY <1>1 DEF MovieIds

LEMMA OwnedStep ==
  ASSUME AddInv, AddsAlone, [Next]_vars
  PROVE  AddInv' /\ AddsUnowned
<1>1. TypeInv /\ TypeInv' /\ Learning
  BY StepTypes, Effects DEF AddInv
<1>2. ASSUME NEW x \in Workers PROVE AddUnowned(req[x])'
  <2>1. PICK r : r = req'[x]
    OBVIOUS
  <2>2. AddUnowned(r)
    BY <1>1, <2>1 DEF AddInv, Learning, Learns
  <2>3. CASE MovieIds(r.user, "paid")' \subseteq MovieIds(r.user, "paid")
    BY <2>1, <2>2, <2>3 DEF AddUnowned
  <2>4. CASE r.op # "add_to_cart"
    BY <2>1, <2>4 DEF AddUnowned
  <2>5. ASSUME NEW w \in Workers, CommitPayment(w), Records(w), r.op = "add_to_cart"
        PROVE  MovieIds(r.user, "paid")' \subseteq MovieIds(r.user, "paid")
    <3>1. req[w].op \in SettleOps
      BY <1>1, <2>5, PaymentEffects
    <3>2. x # w /\ r = req[x]
      BY <1>1, <2>1, <2>5, <3>1, OverlapTypes DEF Records, Goto, SettleOps, Request
    <3>3. r.user # orders[req[w].order].user
      BY <2>5, <3>1, <3>2 DEF AddsAlone
    <3> QED BY <1>1, <2>5, <3>3, RecordedIds
  <2>6. CASE Shrinks("paid")
    BY <2>3, <2>6, ShrunkIds
  <2> QED BY <1>1, <2>3, <2>4, <2>5, <2>6, Effects, PaymentEffects, ReadsShrink
<1>3. AddsUnowned
  <2>1. CASE CartsShrink
    BY <2>1 DEF CartsShrink, AddsUnowned
  <2>2. ASSUME NEW w \in Workers, CommitAdd(w) PROVE AddsUnowned
    <3>1. req[w].movie \notin MovieIds(req[w].user, "paid")
      BY <2>2 DEF CommitAdd, At, AddInv, AddUnowned
    <3>2. \A u \in Users : cartItems'[u] \ cartItems[u]
                          \subseteq (IF u = req[w].user THEN {req[w].movie} ELSE {})
      BY <1>1, <2>2, OverlapTypes DEF CommitAdd
    <3> QED BY <3>1, <3>2 DEF AddsUnowned
  <2> QED BY <1>1, <2>1, <2>2, Effects
<1> QED BY <1>1, <1>2, <1>3 DEF AddInv

\* What was read of the paid orders and of the pending ones, one after the other, is
\* still so at the commit, and a settlement only moves a movie from the one to the other.
LEMMA SoleStep ==
  ASSUME SoleInv, OrdersAlone, OrdersUnsettled, PaidInTime, [Next]_vars
  PROVE  SoleInv'
<1>1. /\ TypeInv /\ RowInv' /\ Learning
      /\ \A w \in Workers : PendingSeen(req[w]) /\ PaidSeen(req[w])
  BY StepRows, Effects DEF SoleInv, RowInv
<1>2. \A x \in Workers : PendingSeen(req[x])'
  BY <1>1, PendingStaysSeen
<1>3. ASSUME NEW x \in Workers PROVE PaidSeen(req[x])'
  <2>1. PICK r : r = req'[x]
    OBVIOUS
  <2>2. PaidSeen(r)
    BY <1>1, <2>1 DEF Learning, Learns
  <2>3. CASE MovieIds(r.user, "paid")' \subseteq MovieIds(r.user, "paid")
    BY <2>1, <2>2, <2>3 DEF PaidSeen
  <2>4. CASE r.op # "create_order"
    BY <2>1, <2>4 DEF PaidSeen
  <2>5. ASSUME NEW w \in Workers, CommitPayment(w), Records(w), r.op = "create_order"
        PROVE  MovieIds(r.user, "paid")' \subseteq MovieIds(r.user, "paid")
    <3>1. req[w].op \in SettleOps
      BY <1>1, <2>5, PaymentEffects
    <3>2. x # w /\ r = req[x]
      BY <1>1, <2>1, <2>5, <3>1, OverlapTypes DEF Records, Goto, SettleOps, Request
    <3>3. r.user # orders[req[w].order].user
      BY <2>5, <3>1, <3>2 DEF OrdersUnsettled
    <3> QED BY <1>1, <2>5, <3>3, RecordedIds
  <2>6. CASE Shrinks("paid")
    BY <2>3, <2>6, ShrunkIds
  <2> QED BY <1>1, <2>3, <2>4, <2>5, <2>6, Effects, PaymentEffects, ReadsShrink
<1>4. CASE Shrinks("pending") /\ Shrinks("paid")
  <2>1. SoleOrders'
    BY <1>4 DEF SoleInv, SoleOrders, Live, Shrinks
  <2> QED BY <1>1, <1>2, <1>3, <2>1 DEF SoleInv
<1>5. ASSUME NEW w \in Workers, CommitOrder(w), NEW o \in OrderId, Places(w, o)
      PROVE  SoleInv'
  <2> DEFINE Disjoint(status) ==
               \A x \in OrderId :
                 orders[x].user = req[w].user /\ orders[x].status = status
                 => MoviesOf(orders[x].items) \cap MoviesOf(orders'[o].items) = {}
  <2>1. /\ Wanted(req[w]) \cap MovieIds(req[w].user, "pending") = {}
        /\ Wanted(req[w]) \cap MovieIds(req[w].user, "paid") = {}
    BY <1>1, <1>5 DEF PendingSeen, PaidSeen, CommitOrder, At
  <2>2. /\ \A x \in OrderId : x # o => orders'[x] = orders[x]
        /\ orders'[o].status = "pending" /\ orders'[o].user = req[w].user
        /\ Disjoint("pending")
    BY <1>1, <1>5, <2>1, PlacedIsNew
  <2>3. Disjoint("paid")
    BY <1>1, <1>5, <2>1, PlacedIsNew
  <2>4. SoleOrders'
    BY <2>2, <2>3 DEF SoleInv, SoleOrders, Live
  <2> QED BY <1>1, <1>2, <1>3, <2>4 DEF SoleInv
<1>6. ASSUME NEW w \in Workers, CommitPayment(w), Records(w) PROVE SoleInv'
  <2>1. req[w].op \in SettleOps
    BY <1>1, <1>6, PaymentEffects
  <2>2. req[w].order \in OrderId /\ orders[req[w].order].status \in Live
    BY <1>1, <2>1, SettleFacts, OverlapTypes
       DEF SoleInv, RowInv, RequestsFit, RequestFits, OrderOps, PaidInTime, Live, Order, OrderStatus
  <2>3. \A o \in OrderId :
          /\ orders'[o].user = orders[o].user /\ orders'[o].items = orders[o].items
          /\ orders'[o].status = IF o = req[w].order THEN "paid" ELSE orders[o].status
    BY <1>1, <1>6, StatusEffects DEF Records
  <2>4. SoleOrders'
    BY <2>2, <2>3 DEF SoleInv, SoleOrders, Live
  <2> QED BY <1>1, <1>2, <1>3, <2>4 DEF SoleInv
<1> QED BY <1>1, <1>4, <1>5, <1>6, Effects, OrderEffects, PaymentEffects, ReadsShrink

-----------------------------------------------------------------------------
LEMMA InitOverlap == Init => PendingInv /\ PaidInv /\ CartInv /\ AddInv /\ SoleInv
<1> SUFFICES ASSUME Init PROVE PendingInv /\ PaidInv /\ CartInv /\ AddInv /\ SoleInv
  OBVIOUS
<1>1. TypeInv /\ RowInv
  BY InitTypes, InitRows
<1>2. \A w \in Workers : Ready(req[w])
  BY CarelessIsReady DEF Init, StoreInit, Idle, Careful
<1>3. NoDuplicatePending /\ PaymentMakesPaid /\ SoleOrders
  BY DEF Init, StoreInit, NoDuplicatePending, PaymentMakesPaid, SoleOrders, Placed, NoOrder, Live
<1> QED BY <1>1, <1>2, <1>3 DEF PendingInv, PaidInv, CartInv, AddInv, SoleInv, Ready

LEMMA UniqueRequest ==
  ASSUME OneAtATime
  PROVE  OrdersAlone /\ CancelsAlone /\ CartsStill /\ AddsAlone /\ OrdersUnsettled
<1>1. \A w, x \in Workers : w = x
  BY DEF OneAtATime
<1> QED BY <1>1 DEF OrdersAlone, CancelsAlone, CartsStill, AddsAlone, OrdersUnsettled, SettleOps

\* Where no user places two orders at once no movie is in two pending orders of a user:
\* the look at the pending orders is enough against everything else that runs meanwhile
\* (routes/orders.py:77, 126-130).
THEOREM OnePendingOrder == Spec /\ []OrdersAlone => []NoDuplicatePending
<1>1. PendingInv /\ OrdersAlone /\ [Next]_vars => PendingInv'
  BY PendingStep
<1>2. PendingInv => NoDuplicatePending
  BY DEF PendingInv
<1> QED BY <1>1, <1>2, InitOverlap, PTL DEF Spec

\* Where no order is canceled while it is settled an order with a payment is PAID and
\* stays so: a cancellation saw it unpaid, and a settlement brings a canceled order back
\* (routes/orders.py:250, routes/payments.py:51-73).
THEOREM PaidIsPaid == Spec /\ []CancelsAlone => []PaymentMakesPaid /\ PaidStaysPaid
<1>1. PaidInv /\ CancelsAlone /\ [Next]_vars => PaidInv' /\ [KeepsPaid]_vars
  BY PaidStep
<1>2. PaidInv => PaymentMakesPaid
  BY DEF PaidInv
<1> QED BY <1>1, <1>2, InitOverlap, PTL DEF Spec, PaidStaysPaid, KeepsPaid

\* Where a user adds nothing while an order is placed, what the order takes out of the cart
\* is in the order or announced as excluded (routes/orders.py:71-82, 152).
THEOREM OrderTakesTheCart == Spec /\ []CartsStill => PlacingDropsNothing
<1>1. CartInv /\ CartsStill /\ [Next]_vars => CartInv' /\ [DropsNothing]_vars
  BY CoverStep
<1> QED BY <1>1, InitOverlap, PTL DEF Spec, PlacingDropsNothing, DropsNothing

\* Where no order of a user is settled while the user adds a movie, no movie that the user
\* bought gets into the cart, though the check and the insert are three statements apart
\* (routes/cart.py:103, 134-135).
THEOREM CartTakesNoOwned == Spec /\ []AddsAlone => NeverAddsOwned
<1>1. AddInv /\ AddsAlone /\ [Next]_vars => AddInv' /\ [AddsUnowned]_vars
  BY OwnedStep
<1> QED BY <1>1, InitOverlap, PTL DEF Spec, NeverAddsOwned, AddsUnowned

\* Nobody buys a movie twice where a user places one order at a time, no order of the user
\* is settled meanwhile, and nobody pays for an order that is canceled
\* (routes/orders.py:76, 118-125; routes/payments.py:51-53).
THEOREM NobodyBuysTwice ==
  Spec /\ []OrdersAlone /\ []OrdersUnsettled /\ []PaidInTime => []NoDoublePurchase
<1>1. SoleInv /\ OrdersAlone /\ OrdersUnsettled /\ PaidInTime /\ [Next]_vars => SoleInv'
  BY SoleStep
<1>2. SoleInv => NoDoublePurchase
  BY DEF SoleInv, SoleOrders, NoDoublePurchase, Placed, Live
<1> QED BY <1>1, <1>2, InitOverlap, PTL DEF Spec

\* With one request at a time all the rules hold, the last one where customers pay in time.
THEOREM OneRequestIsSafe ==
  ASSUME OneAtATime
  PROVE  Spec => /\ []NoDuplicatePending /\ []PaymentMakesPaid
                 /\ PaidStaysPaid /\ PlacingDropsNothing /\ NeverAddsOwned
                 /\ []PaidInTime => []NoDoublePurchase
<1>1. OrdersAlone /\ CancelsAlone /\ CartsStill /\ AddsAlone /\ OrdersUnsettled
  BY UniqueRequest
<1> QED BY <1>1, OnePendingOrder, PaidIsPaid, OrderTakesTheCart, CartTakesNoOwned, NobodyBuysTwice, PTL
=============================================================================
