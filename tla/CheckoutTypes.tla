---------------------------- MODULE CheckoutTypes ----------------------------
(***************************************************************************)
(* Type correctness of Checkout, for any users, movies, prices, workers    *)
(* and bounds.  TypeOK is not inductive: that a settlement writes a        *)
(* well-formed payment depends on what its request remembers, and that on  *)
(* what Stripe was told about the session.                                 *)
(***************************************************************************)
EXTENDS Checkout, TLAPS

\* A pending order has an owner, a Stripe session an order and a buyer.
OrdersOwned == \A o \in OrderId : orders[o].status = "pending" => orders[o].user \in Users
SessionsOwned ==
  \A s \in SessionId :
    sessions[s].state # "none" => sessions[s].order \in OrderId /\ sessions[s].user \in Users

UserOps == CartEndpoints \cup
  {"create_order", "cancel_order", "create_payment_session", "delete_movie"}

\* What the handler of each endpoint has at hand once it accepted a request.
RequestOK(r) ==
  /\ r.op = "none" => r = Idle
  /\ r.op \in UserOps => r.user \in Users
  /\ r.op = "delete_movie" => r.movie \in Movies
  /\ r.op \in {"create_payment_session", "cancel_order"} => r.order \in OrderId
  /\ r.op \in SettleOps => /\ r.session \in SessionId
                           /\ sessions[r.session].state = "paid"
                           /\ r.order = sessions[r.session].order
                           /\ r.user = sessions[r.session].user
  /\ r.pc \in {"find_payment", "load_order", "mail", "answer"} => r.op \in SettleOps
  /\ r.pc \in {"load_cart", "insert_cart"} => r.op \in CartEndpoints

RequestsOK == \A w \in Workers : RequestOK(req[w])

TypeInv == TypeOK /\ OrdersOwned /\ SessionsOwned /\ RequestsOK

\* The part of TypeInv that is about the requests, and the part that is not.
RequestInv == req \in [Workers -> Request] /\ RequestsOK
DataInv == /\ TablesTypeOK
           /\ mails \in [OrderId -> Nat]
           /\ sessions \in [SessionId -> Session]
           /\ acked \subseteq SessionId
           /\ crashes \in Nat
           /\ OrdersOwned
           /\ SessionsOwned

LEMMA TypeInvParts ==
  /\ TypeInv <=> RequestInv /\ DataInv
  /\ TypeInv' <=> RequestInv' /\ DataInv'
BY DEF TypeInv, RequestInv, DataInv, TypeOK, StoreTypeOK

LEMMA IdleIsRequest == Idle \in Request /\ RequestOK(Idle)
<1>1. None \notin Users
  BY ConstantsOk
<1> QED BY DEF Idle, Request, RequestOK, Label, UserOps, SettleOps, CartEndpoints
-----------------------------------------------------------------------------
(* The ways in which a step changes the requests. *)

LEMMA AcceptKeepsRequests ==
  ASSUME RequestInv, NEW w \in Workers, NEW r \in Request, Accept(w, r),
         RequestOK(r), sessions' = sessions
  PROVE  RequestInv'
BY DEF RequestInv, RequestsOK, RequestOK, Accept

LEMMA ReplyKeepsRequests ==
  ASSUME RequestInv, NEW w \in Workers, Reply(w), sessions' = sessions
  PROVE  RequestInv'
BY IdleIsRequest DEF RequestInv, RequestsOK, RequestOK, Reply

LEMMA GotoKeepsRequests ==
  ASSUME RequestInv, NEW w \in Workers, NEW label \in Label, Goto(w, label),
         req[w].pc # "idle", sessions' = sessions,
         label \in {"find_payment", "load_order", "mail", "answer"} => req[w].op \in SettleOps,
         label \in {"load_cart", "insert_cart"} => req[w].op \in CartEndpoints
  PROVE  RequestInv'
<1>1. req[w] \in Request /\ RequestOK(req[w])
  BY DEF RequestInv, RequestsOK
<1>2. req[w].op # "none"
  BY <1>1 DEF RequestOK, Idle
<1>3. [req[w] EXCEPT !.pc = label] \in Request
  BY <1>1 DEF Request
<1>4. RequestOK([req[w] EXCEPT !.pc = label])
  BY <1>1, <1>2 DEF RequestOK, Request
<1>5. req' = [req EXCEPT ![w] = [req[w] EXCEPT !.pc = label]]
  BY DEF Goto, RequestInv
<1> QED BY <1>3, <1>4, <1>5 DEF RequestInv, RequestsOK, RequestOK

\* A worker whose request is at a label that is not "idle" runs an endpoint.
LEMMA BusyHasOp ==
  ASSUME RequestInv, NEW w \in Workers, req[w].pc # "idle"
  PROVE  req[w].op # "none"
BY DEF RequestInv, RequestsOK, RequestOK, Idle
-----------------------------------------------------------------------------
(* Carts *)

LEMMA CartTypes ==
  ASSUME TypeInv, NEW w \in Workers, CartArrives(w) \/ CartStep(w)
  PROVE  TypeInv'
<1> USE TypeInvParts
<1>1. sessions' = sessions /\ OrdersOwned' /\ SessionsOwned'
  BY DEF CartArrives, OpenCart, AddToCart, CartStep, CheckPurchased, CartMissing,
         InsertCart, CartLoaded, CommitAdd, CommitRemove, CommitClear, cartUnchanged,
         DataInv, OrdersOwned, SessionsOwned
<1>2. SUFFICES RequestInv' /\ carts' \subseteq Users /\ cartItems' \in [Users -> SUBSET Movies]
  BY <1>1 DEF CartArrives, OpenCart, AddToCart, CartStep, CheckPurchased, CartMissing,
         InsertCart, CartLoaded, CommitAdd, CommitRemove, CommitClear, cartUnchanged,
         DataInv, TablesTypeOK
<1>3. ASSUME NEW op \in CartEndpoints, NEW u \in Users, NEW m \in Movies \cup {None},
             OpenCart(w, op, u, m)
      PROVE  RequestInv' /\ carts' = carts /\ cartItems' = cartItems
  <2> DEFINE r == [Idle EXCEPT !.op = op, !.pc = "load_cart", !.user = u, !.movie = m]
  <2>1. r \in Request
    BY <1>3 DEF Idle, Request, Label, AllEndpoints, CartEndpoints
  <2>2. RequestOK(r)
    BY <1>3 DEF RequestOK, Idle, CartEndpoints, SettleOps
  <2> QED BY <1>1, <1>3, <2>1, <2>2, AcceptKeepsRequests DEF OpenCart
<1>4. ASSUME NEW u \in Users, NEW m \in Movies, AddToCart(w, u, m)
      PROVE  RequestInv' /\ carts' = carts /\ cartItems' = cartItems
  <2> DEFINE r == [Idle EXCEPT !.op = "add_to_cart", !.pc = "purchased",
                               !.user = u, !.movie = m]
  <2>1. r \in Request
    BY DEF Idle, Request, Label, AllEndpoints
  <2>2. RequestOK(r)
    BY DEF RequestOK, Idle, CartEndpoints, SettleOps
  <2> QED BY <1>1, <1>4, <2>1, <2>2, AcceptKeepsRequests DEF AddToCart
<1>5. CASE CheckPurchased(w)
  BY <1>1, <1>5, ReplyKeepsRequests, GotoKeepsRequests
     DEF CheckPurchased, At, Label, CartEndpoints, DataInv, TablesTypeOK
<1>6. CASE CartMissing(w)
  BY <1>1, <1>6, GotoKeepsRequests
     DEF CartMissing, Label, RequestInv, RequestsOK, RequestOK, DataInv, TablesTypeOK
<1>7. CASE InsertCart(w)
  <2>1. req[w].op \in CartEndpoints /\ req[w].user \in Users
    BY <1>7 DEF InsertCart, RequestInv, RequestsOK, RequestOK, UserOps
  <2> QED BY <1>1, <1>7, <2>1, ReplyKeepsRequests, GotoKeepsRequests
             DEF InsertCart, Label, DataInv, TablesTypeOK
<1>8. CASE CartLoaded(w)
  BY <1>1, <1>8, ReplyKeepsRequests, GotoKeepsRequests
     DEF CartLoaded, Label, DataInv, TablesTypeOK
<1>9. CASE CommitAdd(w) \/ CommitRemove(w) \/ CommitClear(w)
  <2>1. RequestInv' /\ carts' = carts
    BY <1>1, <1>9, ReplyKeepsRequests DEF CommitAdd, CommitRemove, CommitClear
  <2>2. cartItems' \in [Users -> SUBSET Movies]
    BY <1>9 DEF CommitAdd, CommitRemove, CommitClear, DataInv, TablesTypeOK
  <2> QED BY <2>1, <2>2 DEF DataInv, TablesTypeOK
<1> QED BY <1>3, <1>4, <1>5, <1>6, <1>7, <1>8, <1>9
           DEF CartArrives, CartStep, DataInv, TablesTypeOK
-----------------------------------------------------------------------------
(* Orders *)

LEMMA OrderTypes ==
  ASSUME TypeInv, NEW w \in Workers, OrderArrives(w) \/ OrderStep(w)
  PROVE  TypeInv'
<1> USE TypeInvParts
<1>1. sessions' = sessions /\ SessionsOwned'
  BY DEF OrderArrives, CreateOrder, CancelOrder, OrderStep, ReadPaidIds, ReadPendingIds,
         CommitOrder, CommitCancel, ordersUnchanged, DataInv, SessionsOwned
<1> DEFINE Goal == /\ RequestInv'
                   /\ orders' \in [OrderId -> Order]
                   /\ OrdersOwned'
                   /\ notes' \subseteq Note
                   /\ cartItems' \in [Users -> SUBSET Movies]
<1>2. Goal => TypeInv'
  BY <1>1 DEF OrderArrives, CreateOrder, CancelOrder, OrderStep, ReadPaidIds, ReadPendingIds,
         CommitOrder, CommitCancel, ordersUnchanged, DataInv, TablesTypeOK
<1>3. UNCHANGED <<orders, notes, cartItems>> /\ RequestInv' => Goal
  BY DEF DataInv, TablesTypeOK, OrdersOwned
<1> SUFFICES Goal
  BY <1>2
<1>4. ASSUME NEW u \in Users, CreateOrder(w, u) PROVE Goal
  <2> DEFINE lines == {[movie |-> m, price |-> price[m]] : m \in cartItems[u]}
             r == [Idle EXCEPT !.op = "create_order", !.pc = "paid_ids",
                               !.user = u, !.lines = lines]
  <2>1. lines \in SUBSET Line
    BY DEF Line, DataInv, TablesTypeOK
  <2> HIDE DEF lines
  <2>2. r \in Request
    BY <2>1 DEF Idle, Request, Label, AllEndpoints
  <2>3. RequestOK(r)
    BY DEF RequestOK, Idle, CartEndpoints, SettleOps
  <2>4. Accept(w, r) /\ UNCHANGED <<orders, notes, cartItems>>
    BY <1>4 DEF CreateOrder, lines
  <2> QED BY <1>1, <1>3, <2>2, <2>3, <2>4, AcceptKeepsRequests
<1>5. ASSUME NEW o \in OrderId, CancelOrder(w, o) PROVE Goal
  <2> DEFINE r == [Idle EXCEPT !.op = "cancel_order", !.pc = "commit",
                               !.user = orders[o].user, !.order = o]
  <2>1. orders[o].user \in Users
    BY <1>5 DEF CancelOrder, DataInv, OrdersOwned
  <2>2. r \in Request
    BY <2>1 DEF Idle, Request, Label, AllEndpoints
  <2>3. RequestOK(r)
    BY <2>1 DEF RequestOK, Idle, CartEndpoints, SettleOps
  <2> QED BY <1>1, <1>3, <1>5, <2>2, <2>3, AcceptKeepsRequests DEF CancelOrder
<1>6. CASE ReadPaidIds(w)
  <2> DEFINE owned == MovieIds(req[w].user, "paid")
             r == [req[w] EXCEPT !.pc = "pending_ids", !.owned = owned]
  <2>1. owned \in SUBSET Movies
    BY DEF MovieIds, MoviesOf, DataInv, TablesTypeOK, Order, Line
  <2> HIDE DEF owned
  <2>2. req[w] \in Request /\ RequestOK(req[w]) /\ req[w].op = "create_order"
    BY <1>6 DEF RequestInv, RequestsOK, ReadPaidIds, At
  <2>3. r \in Request
    BY <2>1, <2>2 DEF Request, Label
  <2>4. RequestOK(r)
    BY <2>2, <2>3 DEF RequestOK, Request
  <2>5. req' = [req EXCEPT ![w] = r]
    BY <1>6 DEF ReadPaidIds, RequestInv, owned
  <2>6. RequestInv'
    BY <1>1, <2>3, <2>4, <2>5 DEF RequestInv, RequestsOK, RequestOK
  <2> QED BY <1>3, <1>6, <2>6 DEF ReadPaidIds
<1>7. CASE ReadPendingIds(w)
  <2>1. RequestInv'
    BY <1>1, <1>7, ReplyKeepsRequests, GotoKeepsRequests DEF ReadPendingIds, At, Label
  <2> QED BY <1>3, <1>7, <2>1 DEF ReadPendingIds
<1>8. CASE CommitOrder(w)
  <2> DEFINE u == req[w].user
             items == Orderable(w)
             order == NewOrder(w)
             excluded == {[to |-> u, movie |-> l.movie, about |-> "excluded"] :
                            l \in req[w].lines \ items}
  <2>1. RequestInv'
    BY <1>1, <1>8, ReplyKeepsRequests DEF CommitOrder
  <2>2. u \in Users /\ req[w].lines \in SUBSET Line
    BY <1>8 DEF CommitOrder, At, RequestInv, RequestsOK, RequestOK, UserOps, Request
  <2>3. items \in SUBSET Line
    BY <2>2 DEF Orderable
  <2>4. order \in Order
    BY <2>2, <2>3 DEF NewOrder, Order, OrderStatus
  <2>5. excluded \subseteq Note
    BY <2>2 DEF Note, Line
  <2>6. CASE UNCHANGED <<orders, cartItems, notes>>
    BY <1>3, <2>1, <2>6
  <2>7. CASE /\ \E o \in OrderId : orders' = [orders EXCEPT ![o] = order]
             /\ cartItems' = [cartItems EXCEPT ![u] = {}]
             /\ notes' = notes \cup excluded
    <3> HIDE DEF order, excluded
    <3>1. orders' \in [OrderId -> Order] /\ notes' \subseteq Note
      BY <2>4, <2>5, <2>7 DEF DataInv, TablesTypeOK
    <3>2. cartItems' \in [Users -> SUBSET Movies]
      BY <2>7 DEF DataInv, TablesTypeOK
    <3>3. order.user \in Users
      BY <2>2 DEF order, NewOrder
    <3>4. OrdersOwned'
      BY <2>7, <3>3 DEF OrdersOwned, DataInv, TablesTypeOK
    <3> QED BY <2>1, <3>1, <3>2, <3>4
  <2> QED BY <1>8, <2>6, <2>7 DEF CommitOrder
<1>9. CASE CommitCancel(w)
  <2>1. RequestInv'
    BY <1>1, <1>9, ReplyKeepsRequests DEF CommitCancel
  <2>2. req[w].order \in OrderId /\ req[w].user \in Users
    BY <1>9 DEF CommitCancel, At, RequestInv, RequestsOK, RequestOK, UserOps
  <2>3. orders' \in [OrderId -> Order]
    BY <1>9, <2>2 DEF CommitCancel, DataInv, TablesTypeOK, Order, OrderStatus
  <2>4. OrdersOwned'
    BY <1>9, <2>3 DEF CommitCancel, DataInv, TablesTypeOK, OrdersOwned, Order
  <2> QED BY <1>9, <2>1, <2>3, <2>4 DEF CommitCancel, DataInv, TablesTypeOK
<1> QED BY <1>4, <1>5, <1>6, <1>7, <1>8, <1>9 DEF OrderArrives, OrderStep
-----------------------------------------------------------------------------
(* Payments *)

\* The settlement of a session starts with what Stripe knows about it.
LEMMA SettleTypes ==
  ASSUME TypeInv, NEW w \in Workers, NEW op \in SettleOps, NEW s \in SessionId,
         Settle(w, op, s)
  PROVE  TypeInv'
<1> USE TypeInvParts
<1> DEFINE r == [Idle EXCEPT !.op = op, !.pc = "find_payment", !.session = s,
                             !.user = sessions[s].user, !.order = sessions[s].order]
<1>1. sessions[s].user \in Users /\ sessions[s].order \in OrderId
  BY DEF Settle, DataInv, SessionsOwned
<1>2. r \in Request
  BY <1>1 DEF Idle, Request, Label, AllEndpoints, SettleOps
<1>3. RequestOK(r)
  BY <1>1 DEF RequestOK, Idle, SettleOps, CartEndpoints, UserOps, Settle
<1>4. RequestInv'
  BY <1>2, <1>3, AcceptKeepsRequests DEF Settle
<1> QED BY <1>4 DEF Settle, DataInv, TablesTypeOK, OrdersOwned, SessionsOwned, paymentsUnchanged

\* The session a settlement works on is paid, and names an order and a user.
LEMMA SettleFacts ==
  ASSUME TypeInv, NEW w \in Workers, req[w].op \in SettleOps
  PROVE  /\ req[w].session \in SessionId
         /\ sessions[req[w].session].state = "paid"
         /\ req[w].order = sessions[req[w].session].order
         /\ req[w].user = sessions[req[w].session].user
         /\ req[w].order \in OrderId
         /\ req[w].user \in Users
BY TypeInvParts DEF RequestInv, RequestsOK, RequestOK, DataInv, SessionsOwned

LEMMA SettledTypes ==
  ASSUME TypeInv, NEW w \in Workers, req[w].op \in SettleOps, Settled(w),
         sessions' = sessions
  PROVE  RequestInv' /\ acked' \subseteq SessionId
<1>1. RequestInv'
  BY TypeInvParts, ReplyKeepsRequests DEF Settled
<1>2. acked' \subseteq SessionId
  BY TypeInvParts, SettleFacts DEF Settled, DataInv
<1> QED BY <1>1, <1>2

LEMMA PaymentTypes ==
  ASSUME TypeInv, NEW w \in Workers, PaymentArrives(w) \/ PaymentStep(w)
  PROVE  TypeInv'
<1> USE TypeInvParts
<1> DEFINE Data == <<carts, cartItems, catalog, price, orders, payments, notes,
                     mails, sessions, crashes>>
<1>1. UNCHANGED Data /\ RequestInv' /\ acked' \subseteq SessionId => TypeInv'
  BY DEF DataInv, TablesTypeOK, OrdersOwned, SessionsOwned
<1>2. ASSUME NEW o \in OrderId, CreatePaymentSession(w, o) PROVE TypeInv'
  <2> DEFINE r == [Idle EXCEPT !.op = "create_payment_session", !.pc = "stripe_call",
                               !.user = orders[o].user, !.order = o,
                               !.lines = orders[o].items]
  <2>1. orders[o].user \in Users /\ orders[o].items \in SUBSET Line
    BY <1>2 DEF CreatePaymentSession, DataInv, TablesTypeOK, OrdersOwned, Order
  <2>2. r \in Request
    BY <2>1 DEF Idle, Request, Label, AllEndpoints
  <2>3. RequestOK(r)
    BY <2>1 DEF RequestOK, Idle, SettleOps, CartEndpoints
  <2>4. RequestInv'
    BY <1>2, <2>2, <2>3, AcceptKeepsRequests DEF CreatePaymentSession
  <2> QED BY <1>1, <1>2, <2>4 DEF CreatePaymentSession, paymentsUnchanged, DataInv
<1>3. ASSUME NEW s \in SessionId, PaymentSuccess(w, s) \/ StripeWebhook(w, s) PROVE TypeInv'
  BY <1>3, SettleTypes DEF PaymentSuccess, StripeWebhook, SettleOps
<1>4. CASE CreateCheckoutSession(w)
  <2> DEFINE new == [ state |-> "open", order |-> req[w].order, user |-> req[w].user,
                      amount |-> Charge(req[w].lines) ]
  <2>1. req[w].order \in OrderId /\ req[w].user \in Users /\ req[w].lines \in SUBSET Line
    BY <1>4 DEF CreateCheckoutSession, At, RequestInv, RequestsOK, RequestOK, UserOps, Request
  <2>2. new \in Session /\ new.order \in OrderId /\ new.user \in Users /\ new.state = "open"
    BY <2>1 DEF Session
  <2> HIDE DEF new
  <2>3. \/ sessions' = sessions
        \/ \E s \in SessionId : /\ sessions[s].state = "none"
                               /\ sessions' = [sessions EXCEPT ![s] = new]
    BY <1>4 DEF CreateCheckoutSession, NextSession, new
  <2>4. sessions' \in [SessionId -> Session] /\ SessionsOwned'
    BY <2>2, <2>3 DEF DataInv, SessionsOwned
  <2>5. req' = [req EXCEPT ![w] = Idle]
    BY <1>4 DEF CreateCheckoutSession, Reply
  <2>6. RequestInv'
    <3>1. req' \in [Workers -> Request]
      BY <2>5, IdleIsRequest DEF RequestInv
    <3>2. ASSUME NEW x \in Workers PROVE RequestOK(req[x])'
      <4>1. CASE req'[x] = req[x]
        BY <2>2, <2>3, <4>1 DEF RequestOK, RequestInv, RequestsOK, DataInv
      <4>2. CASE req'[x] = Idle
        BY <4>2, IdleIsRequest DEF RequestOK, Idle, SettleOps
      <4> QED BY <2>5, <4>1, <4>2 DEF RequestInv
    <3> QED BY <3>1, <3>2 DEF RequestInv, RequestsOK
  <2> QED BY <1>4, <2>4, <2>6
             DEF CreateCheckoutSession, paymentsUnchanged, DataInv, TablesTypeOK, OrdersOwned
<1>5. CASE FindPayment(w)
  <2>1. req[w].op \in SettleOps
    BY <1>5 DEF FindPayment, RequestInv, RequestsOK, RequestOK
  <2>2. RequestInv' /\ acked' \subseteq SessionId
    BY <1>5, <2>1, SettledTypes, GotoKeepsRequests DEF FindPayment, Label, DataInv
  <2> QED BY <1>1, <1>5, <2>2 DEF FindPayment, paymentsUnchanged
<1>6. CASE LoadOrder(w)
  <2>1. req[w] \in Request /\ RequestOK(req[w]) /\ req[w].op \in SettleOps
    BY <1>6 DEF LoadOrder, RequestInv, RequestsOK, RequestOK
  <2>2. CASE Settled(w)
    <3>1. RequestInv' /\ acked' \subseteq SessionId
      BY <1>6, <2>1, <2>2, SettledTypes DEF LoadOrder
    <3> QED BY <1>1, <1>6, <3>1 DEF LoadOrder, paymentsUnchanged
  <2>3. CASE /\ req' = [req EXCEPT ![w].pc = "commit",
                                   ![w].lines = orders[req[w].order].items]
             /\ UNCHANGED acked
    <3> DEFINE r == [req[w] EXCEPT !.pc = "commit", !.lines = orders[req[w].order].items]
    <3>1. orders[req[w].order].items \in SUBSET Line
      BY <2>1, SettleFacts DEF DataInv, TablesTypeOK, Order
    <3>2. r \in Request
      BY <2>1, <3>1 DEF Request, Label
    <3>3. RequestOK(r)
      BY <2>1, <3>2 DEF RequestOK, Request, SettleOps
    <3>4. req' = [req EXCEPT ![w] = r]
      BY <2>3 DEF RequestInv
    <3>5. RequestInv'
      BY <1>6, <3>2, <3>3, <3>4 DEF LoadOrder, RequestInv, RequestsOK, RequestOK
    <3> QED BY <1>1, <1>6, <2>3, <3>5 DEF LoadOrder, paymentsUnchanged, DataInv
  <2> QED BY <1>6, <2>2, <2>3 DEF LoadOrder
<1>7. CASE CommitPayment(w)
  <2> DEFINE o == req[w].order
             new == NewPayment(w)
  <2>1. RequestInv'
    BY <1>7, ReplyKeepsRequests, GotoKeepsRequests DEF CommitPayment, Label
  <2>2. new \in Payment /\ o \in OrderId
    BY <1>7, SettleFacts
       DEF CommitPayment, NewPayment, Payment, Session, DataInv, RequestInv, Request
  <2>3. orders' = orders \/ orders' = [orders EXCEPT ![o].status = "paid"]
    BY <1>7 DEF CommitPayment
  <2>4. orders' \in [OrderId -> Order] /\ OrdersOwned'
    BY <2>2, <2>3 DEF DataInv, TablesTypeOK, OrdersOwned, Order, OrderStatus
  <2>5. payments' \subseteq Payment
    <3> HIDE DEF new
    <3>1. payments' = payments \/ payments' = payments \cup {new}
      BY <1>7 DEF CommitPayment, new
    <3> QED BY <2>2, <3>1 DEF DataInv, TablesTypeOK
  <2> QED BY <1>7, <2>1, <2>4, <2>5
             DEF CommitPayment, paymentsUnchanged, DataInv, TablesTypeOK, SessionsOwned
<1>8. CASE SendConfirmation(w)
  <2>1. req[w].op \in SettleOps
    BY <1>8 DEF SendConfirmation, RequestInv, RequestsOK, RequestOK
  <2>2. RequestInv'
    BY <1>8, <2>1, GotoKeepsRequests DEF SendConfirmation, Label
  <2>3. mails' \in [OrderId -> Nat]
    BY <1>8 DEF SendConfirmation, DataInv
  <2> QED BY <1>8, <2>2, <2>3
             DEF SendConfirmation, paymentsUnchanged, DataInv, TablesTypeOK, OrdersOwned, SessionsOwned
<1>9. CASE AnswerSettled(w)
  <2>1. req[w].op \in SettleOps
    BY <1>9 DEF AnswerSettled, RequestInv, RequestsOK, RequestOK
  <2>2. RequestInv' /\ acked' \subseteq SessionId
    BY <1>9, <2>1, SettledTypes DEF AnswerSettled
  <2> QED BY <1>1, <1>9, <2>2 DEF AnswerSettled, paymentsUnchanged
<1> QED BY <1>2, <1>3, <1>4, <1>5, <1>6, <1>7, <1>8, <1>9 DEF PaymentArrives, PaymentStep

\* The customer pays: the requests in flight still agree with Stripe.
LEMMA CustomerTypes ==
  ASSUME TypeInv, NEW s \in SessionId, CustomerPays(s)
  PROVE  TypeInv'
<1> USE TypeInvParts
<1>1. sessions' = [sessions EXCEPT ![s].state = "paid"]
  BY DEF CustomerPays
<1>2. sessions' \in [SessionId -> Session] /\ SessionsOwned'
  BY <1>1 DEF CustomerPays, DataInv, SessionsOwned, Session
<1>3. ASSUME NEW w \in Workers PROVE RequestOK(req[w])'
  BY <1>1 DEF CustomerPays, RequestInv, RequestsOK, RequestOK, DataInv, Session
<1>4. RequestInv'
  BY <1>3 DEF CustomerPays, RequestInv, RequestsOK
<1> QED BY <1>2, <1>4 DEF CustomerPays, paymentsUnchanged, DataInv, TablesTypeOK, OrdersOwned
-----------------------------------------------------------------------------
(* The catalogue, and lost requests *)

LEMMA CatalogTypes ==
  ASSUME TypeInv, NEW w \in Workers, CatalogArrives(w) \/ CatalogStep(w)
  PROVE  TypeInv'
<1> USE TypeInvParts
<1> DEFINE Data == <<carts, cartItems, catalog, price, orders, payments, notes,
                     mails, sessions, acked, crashes>>
<1>1. UNCHANGED Data /\ RequestInv' => TypeInv'
  BY DEF DataInv, TablesTypeOK, OrdersOwned, SessionsOwned
<1>2. ASSUME NEW m \in Movies, NEW p \in Prices, UpdatePrice(w, m, p) PROVE TypeInv'
  <2>1. price' \in [Movies -> Prices]
    BY <1>2 DEF UpdatePrice, DataInv, TablesTypeOK
  <2> QED BY <1>2, <2>1
             DEF UpdatePrice, catalogUnchanged, DataInv, TablesTypeOK, OrdersOwned,
                 SessionsOwned, RequestInv, RequestsOK, RequestOK
<1>3. ASSUME NEW u \in Users, NEW m \in Movies, DeleteMovie(w, u, m) PROVE TypeInv'
  <2> DEFINE r == [Idle EXCEPT !.op = "delete_movie", !.pc = "purchased",
                               !.user = u, !.movie = m]
  <2>1. r \in Request
    BY DEF Idle, Request, Label, AllEndpoints
  <2>2. RequestOK(r)
    BY DEF RequestOK, Idle, SettleOps, CartEndpoints
  <2>3. RequestInv'
    BY <1>3, <2>1, <2>2, AcceptKeepsRequests DEF DeleteMovie, catalogUnchanged
  <2> QED BY <1>1, <1>3, <2>3 DEF DeleteMovie, catalogUnchanged
<1>4. CASE CheckUnsold(w) \/ DeleteRefused(w)
  <2>1. RequestInv'
    BY <1>4, ReplyKeepsRequests, GotoKeepsRequests
       DEF CheckUnsold, DeleteRefused, catalogUnchanged, At, Label
  <2> QED BY <1>1, <1>4, <2>1 DEF CheckUnsold, DeleteRefused, catalogUnchanged
<1>5. CASE CountCarts(w)
  <2> DEFINE count == \E u \in Users : req[w].movie \in cartItems[u]
             r == [req[w] EXCEPT !.pc = "commit", !.inCarts = count]
  <2>1. req[w] \in Request /\ RequestOK(req[w]) /\ req[w].op = "delete_movie"
    BY <1>5 DEF CountCarts, At, RequestInv, RequestsOK
  <2>2. r \in Request
    <3> HIDE DEF count
    <3>1. (count \in BOOLEAN) => r \in Request
      BY <2>1 DEF Request, Label
    <3> QED BY <3>1, Zenon DEF count
  <2>3. RequestOK(r)
    <3> HIDE DEF count
    <3> QED BY <2>1 DEF RequestOK, Request, SettleOps, CartEndpoints
  <2>4. req' = [req EXCEPT ![w] = r]
    <3>1. req' = [req EXCEPT ![w].pc = "commit", ![w].inCarts = count]
      BY <1>5, Zenon DEF CountCarts
    <3> HIDE DEF count
    <3> QED BY <3>1 DEF RequestInv
  <2>5. RequestInv'
    <3> HIDE DEF r
    <3> QED BY <1>5, <2>2, <2>3, <2>4
               DEF CountCarts, catalogUnchanged, RequestInv, RequestsOK, RequestOK
  <2> QED BY <1>1, <1>5, <2>5 DEF CountCarts, catalogUnchanged
<1>6. CASE CommitDelete(w)
  <2> DEFINE m == req[w].movie
  <2>1. m \in Movies /\ req[w].user \in Users
    BY <1>6 DEF CommitDelete, At, RequestInv, RequestsOK, RequestOK, UserOps
  <2>2. RequestInv'
    BY <1>6, ReplyKeepsRequests DEF CommitDelete, catalogUnchanged
  <2>3. \A lines \in SUBSET Line : Without(m, lines) \in SUBSET Line
    BY DEF Without
  <2>4. orders' \in [OrderId -> Order] /\ OrdersOwned'
    <3>1. ASSUME NEW o \in OrderId
          PROVE  /\ orders'[o] \in Order
                 /\ orders'[o].status = orders[o].status
                 /\ orders'[o].user = orders[o].user
      BY <1>6, <2>3 DEF CommitDelete, DataInv, TablesTypeOK, Order
    <3>2. orders' = [o \in OrderId |-> [orders[o] EXCEPT !.items = Without(m, @)]]
      BY <1>6 DEF CommitDelete
    <3> QED BY <3>1, <3>2 DEF OrdersOwned, DataInv
  <2>5. payments' \subseteq Payment
    BY <1>6, <2>3 DEF CommitDelete, DataInv, TablesTypeOK, Payment
  <2>6. notes' \subseteq Note
    BY <1>6, <2>1 DEF CommitDelete, DataInv, TablesTypeOK, Note
  <2>7. cartItems' \in [Users -> SUBSET Movies] /\ catalog' \subseteq Movies
    BY <1>6 DEF CommitDelete, DataInv, TablesTypeOK
  <2> QED BY <1>6, <2>2, <2>4, <2>5, <2>6, <2>7
             DEF CommitDelete, catalogUnchanged, DataInv, TablesTypeOK, SessionsOwned
<1> QED BY <1>2, <1>3, <1>4, <1>5, <1>6 DEF CatalogArrives, CatalogStep

LEMMA CrashTypes ==
  ASSUME TypeInv, NEW w \in Workers, Crash(w)
  PROVE  TypeInv'
<1>1. RequestInv'
  BY TypeInvParts, ReplyKeepsRequests DEF Crash
<1> QED BY <1>1, TypeInvParts
           DEF Crash, tables, DataInv, TablesTypeOK, OrdersOwned, SessionsOwned
-----------------------------------------------------------------------------
LEMMA InitTypes == Init => TypeInv
<1> SUFFICES ASSUME Init PROVE TypeInv
  OBVIOUS
<1> USE DEF Init, StoreInit
<1>1. NoOrder \in Order
  BY DEF NoOrder, Order, OrderStatus
<1>2. NoSession \in Session
  BY DEF NoSession, Session
<1>3. RequestInv
  BY IdleIsRequest DEF RequestInv, RequestsOK
<1>4. OrdersOwned /\ SessionsOwned
  BY DEF OrdersOwned, SessionsOwned, NoOrder, NoSession
<1>5. DataInv
  BY <1>1, <1>2, <1>4 DEF DataInv, TablesTypeOK
<1> QED BY <1>3, <1>5, TypeInvParts

LEMMA StepTypes == TypeInv /\ [Next]_vars => TypeInv'
<1> SUFFICES ASSUME TypeInv, [Next]_vars PROVE TypeInv'
  OBVIOUS
<1>1. ASSUME NEW w \in Workers, Arrive(w) \/ Step(w) \/ Crash(w) PROVE TypeInv'
  BY <1>1, CartTypes, OrderTypes, PaymentTypes, CatalogTypes, CrashTypes DEF Arrive, Step
<1>2. ASSUME NEW s \in SessionId, CustomerPays(s) PROVE TypeInv'
  BY <1>2, CustomerTypes
<1>3. CASE UNCHANGED vars
  BY <1>3 DEF vars, tables, TypeInv, TypeOK, StoreTypeOK, TablesTypeOK, OrdersOwned,
              SessionsOwned, RequestsOK, RequestOK
<1> QED BY <1>1, <1>2, <1>3 DEF Next

\* The strengthened type invariant holds in every reachable state.
THEOREM TypesInvariant == Spec => []TypeInv
<1> QED BY InitTypes, StepTypes, PTL DEF Spec

\* Every table, session and request keeps its type, whatever the interleaving of
\* the endpoints of routes/cart.py, orders.py, payments.py and movies.py.
THEOREM TypeCorrect == Spec => []TypeOK
<1>1. TypeInv => TypeOK
  BY DEF TypeInv
<1> QED BY <1>1, TypesInvariant, PTL
=============================================================================
