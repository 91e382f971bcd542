---------------------------- MODULE CheckoutLedger ----------------------------
(***************************************************************************)
(* The books of the shop are right: one payment per order, backed by money *)
(* that Stripe captured, and one confirmation at most; and the shop        *)
(* implements Settlement.  For any number of requests in flight, orders,   *)
(* sessions and crashes.                                                   *)
(***************************************************************************)
EXTENDS CheckoutTypes

-----------------------------------------------------------------------------
(* The inductive invariant *)

\* Stripe stops delivering the webhook of paid sessions only.
AckedIsPaid == \A s \in acked : sessions[s].state = "paid"

\* A request past its commit has the payment of its order in the books, and when it
\* is about to send the confirmation nobody else has, or is about to.
MailPending ==
  \A w \in Workers :
    /\ req[w].pc \in {"mail", "answer"} => \E p \in payments : p.order = req[w].order
    /\ req[w].pc = "mail" => mails[req[w].order] = 0

MailUnique ==
  \A w, x \in Workers :
    req[w].pc = "mail" /\ req[x].pc = "mail" /\ req[w].order = req[x].order => w = x

LedgerInv ==
  /\ TypeInv
  /\ OnePaymentPerOrder
  /\ PaymentIsCaptured
  /\ PaidOrderHasPayment
  /\ AckedIsPaid
  /\ AckedIsRecorded
  /\ MailPending
  /\ MailUnique
  /\ ConfirmationOnce

\* No request gets past the commit of a payment.
NoNewCommit == \A w \in Workers : req'[w].pc \in {"mail", "answer"} => req'[w] = req[w]

(***************************************************************************)
(* Most steps leave the books alone: they record no payment, send no       *)
(* confirmation, make no order PAID and change no session that is paid,    *)
(* and they acknowledge only sessions whose order has its payment.         *)
(***************************************************************************)
Quiet ==
  /\ UNCHANGED <<payments, mails>>
  /\ \A o \in OrderId : orders'[o].status = "paid" => orders[o].status = "paid"
  /\ \A s \in SessionId : sessions[s].state = "paid" => sessions'[s] = sessions[s]
  /\ \A s \in acked' : \/ s \in acked
                       \/ /\ sessions[s].state = "paid"
                          /\ \E p \in payments : p.order = sessions[s].order
  /\ NoNewCommit

LEMMA QuietKeepsLedger == LedgerInv /\ TypeInv' /\ Quiet => LedgerInv'
<1> SUFFICES ASSUME LedgerInv, TypeInv', Quiet PROVE LedgerInv'
  OBVIOUS
<1> USE DEF LedgerInv, Quiet, NoNewCommit
<1>1. OnePaymentPerOrder'
  BY DEF OnePaymentPerOrder
<1>2. PaymentIsCaptured'
  <2>1. \A p \in payments : p.session \in SessionId
    BY DEF TypeInv, TypeOK, StoreTypeOK, TablesTypeOK, Payment
  <2> QED BY <2>1 DEF PaymentIsCaptured
<1>3. PaidOrderHasPayment'
  BY DEF PaidOrderHasPayment
<1>4. AckedIsPaid' /\ AckedIsRecorded'
  <2>1. acked' \subseteq SessionId
    BY DEF TypeInv, TypeOK, StoreTypeOK
  <2> QED BY <2>1 DEF AckedIsPaid, AckedIsRecorded
<1>5. MailPending' /\ MailUnique'
  BY DEF MailPending, MailUnique
<1>6. ConfirmationOnce'
  BY DEF ConfirmationOnce
<1> QED BY <1>1, <1>2, <1>3, <1>4, <1>5, <1>6

-----------------------------------------------------------------------------
(* The quiet steps *)

LEMMA EditNoCommit ==
  ASSUME TypeInv, NEW w \in Workers, NEW r, r.pc \notin {"mail", "answer"}, req' = [req EXCEPT ![w] = r]
  PROVE  NoNewCommit
BY DEF NoNewCommit, TypeInv, TypeOK, StoreTypeOK

LEMMA AcceptNoCommit ==
  ASSUME TypeInv, NEW w \in Workers, NEW r, r.pc \notin {"mail", "answer"}, Accept(w, r)
  PROVE  NoNewCommit
BY EditNoCommit DEF Accept

LEMMA ReplyNoCommit ==
  ASSUME TypeInv, NEW w \in Workers, Reply(w)
  PROVE  NoNewCommit
BY EditNoCommit DEF Reply, Idle

LEMMA GotoNoCommit ==
  ASSUME TypeInv, NEW w \in Workers, NEW label, label \notin {"mail", "answer"}, Goto(w, label)
  PROVE  NoNewCommit
<1>1. req' = [req EXCEPT ![w] = [req[w] EXCEPT !.pc = label]]
  BY DEF Goto, TypeInv, TypeOK, StoreTypeOK
<1>2. [req[w] EXCEPT !.pc = label].pc = label
  BY DEF TypeInv, TypeOK, StoreTypeOK, Request
<1> QED BY <1>1, <1>2, EditNoCommit

LEMMA CartIsQuiet ==
  ASSUME TypeInv, NEW w \in Workers, CartArrives(w) \/ CartStep(w) PROVE Quiet
<1>1. UNCHANGED <<payments, mails, orders, sessions, acked>>
  BY DEF CartArrives, OpenCart, AddToCart, CartStep, CheckPurchased, CartMissing,
         InsertCart, CartLoaded, CommitAdd, CommitRemove, CommitClear, cartUnchanged
<1>2. ASSUME NEW op, NEW u, NEW m, OpenCart(w, op, u, m) PROVE NoNewCommit
  BY <1>2, AcceptNoCommit DEF OpenCart, Idle
<1>3. ASSUME NEW u, NEW m, AddToCart(w, u, m) PROVE NoNewCommit
  BY <1>3, AcceptNoCommit DEF AddToCart, Idle
<1>4. CASE CartStep(w)
  <2>1. Reply(w) \/ \E label \in {"load_cart", "insert_cart", "commit"} : Goto(w, label)
    BY <1>4 DEF CartStep, CheckPurchased, CartMissing, InsertCart, CartLoaded, CommitAdd,
                CommitRemove, CommitClear
  <2>2. NoNewCommit
    BY <2>1, ReplyNoCommit, GotoNoCommit
  <2> QED BY <1>1, <2>2 DEF Quiet
<1> QED BY <1>1, <1>2, <1>3, <1>4 DEF Quiet, CartArrives

LEMMA OrderIsQuiet ==
  ASSUME TypeInv, NEW w \in Workers, OrderArrives(w) \/ OrderStep(w) PROVE Quiet
<1>1. UNCHANGED <<payments, mails, sessions, acked>>
  BY DEF OrderArrives, CreateOrder, CancelOrder, OrderStep, ReadPaidIds, ReadPendingIds,
         CommitOrder, CommitCancel, ordersUnchanged
<1>2. ASSUME NEW u, CreateOrder(w, u) PROVE NoNewCommit /\ orders' = orders
  <2> DEFINE lines == {[movie |-> m, price |-> price[m]] : m \in cartItems[u]}
             r == [Idle EXCEPT !.op = "create_order", !.pc = "paid_ids",
                               !.user = u, !.lines = lines]
  <2> HIDE DEF lines
  <2>1. r.pc \notin {"mail", "answer"}
    BY DEF Idle
  <2>2. Accept(w, r) /\ orders' = orders
    BY <1>2 DEF CreateOrder, lines
  <2> QED BY <2>1, <2>2, AcceptNoCommit
<1>3. ASSUME NEW o, CancelOrder(w, o) PROVE NoNewCommit /\ orders' = orders
  BY <1>3, AcceptNoCommit DEF CancelOrder, Idle
<1>4. CASE ReadPaidIds(w)
  <2> DEFINE owned == MovieIds(req[w].user, "paid")
             r == [req[w] EXCEPT !.pc = "pending_ids", !.owned = owned]
  <2> HIDE DEF owned
  <2>1. req' = [req EXCEPT ![w] = r] /\ orders' = orders
    BY <1>4 DEF ReadPaidIds, owned, TypeInv, TypeOK, StoreTypeOK
  <2>2. r.pc \notin {"mail", "answer"}
    BY DEF TypeInv, TypeOK, StoreTypeOK, Request
  <2> QED BY <2>1, <2>2, EditNoCommit, <1>1 DEF Quiet
<1>5. CASE ReadPendingIds(w)
  BY <1>1, <1>5, ReplyNoCommit, GotoNoCommit DEF ReadPendingIds, Quiet
<1>6. CASE CommitOrder(w)
  <2>1. NoNewCommit
    BY <1>6, ReplyNoCommit DEF CommitOrder
  <2> DEFINE order == NewOrder(w)
  <2>2. order.status = "pending"
    BY DEF NewOrder
  <2> HIDE DEF order
  <2>3. orders' = orders \/ \E o \in OrderId : orders' = [orders EXCEPT ![o] = order]
    BY <1>6 DEF CommitOrder, order
  <2>4. \A o \in OrderId : orders'[o].status = "paid" => orders[o].status = "paid"
    BY <2>2, <2>3 DEF TypeInv, TypeOK, StoreTypeOK, TablesTypeOK
  <2> QED BY <1>1, <2>1, <2>4 DEF Quiet
<1>7. CASE CommitCancel(w)
  <2>1. NoNewCommit
    BY <1>7, ReplyNoCommit DEF CommitCancel
  <2>2. \A o \in OrderId : orders'[o].status = "paid" => orders[o].status = "paid"
    BY <1>7 DEF CommitCancel, TypeInv, TypeOK, StoreTypeOK, TablesTypeOK, Order
  <2> QED BY <1>1, <2>1, <2>2 DEF Quiet
<1> QED BY <1>1, <1>2, <1>3, <1>4, <1>5, <1>6, <1>7 DEF OrderArrives, OrderStep, Quiet

LEMMA CatalogIsQuiet ==
  ASSUME TypeInv, NEW w \in Workers, CatalogArrives(w) \/ CatalogStep(w),
         ~CommitDelete(w)
  PROVE  Quiet
<1>1. UNCHANGED <<orders, payments, mails, sessions, acked>>
  BY DEF CatalogArrives, UpdatePrice, DeleteMovie, CatalogStep, CheckUnsold, CountCarts,
         DeleteRefused, catalogUnchanged
<1> SUFFICES NoNewCommit
  BY <1>1 DEF Quiet
<1>2. ASSUME NEW m, NEW p, UpdatePrice(w, m, p) PROVE NoNewCommit
  BY <1>2 DEF UpdatePrice, NoNewCommit
<1>3. ASSUME NEW u, NEW m, DeleteMovie(w, u, m) PROVE NoNewCommit
  BY <1>3, AcceptNoCommit DEF DeleteMovie, Idle
<1>4. CASE CheckUnsold(w) \/ DeleteRefused(w)
  BY <1>4, ReplyNoCommit, GotoNoCommit DEF CheckUnsold, DeleteRefused
<1>5. CASE CountCarts(w)
  <2> DEFINE count == \E u \in Users : req[w].movie \in cartItems[u]
             r == [req[w] EXCEPT !.pc = "commit", !.inCarts = count]
  <2>1. req' = [req EXCEPT ![w].pc = "commit", ![w].inCarts = count]
    BY <1>5, Zenon DEF CountCarts
  <2> HIDE DEF count
  <2>2. req' = [req EXCEPT ![w] = r] /\ r.pc \notin {"mail", "answer"}
    BY <2>1 DEF TypeInv, TypeOK, StoreTypeOK, Request
  <2> QED BY <2>2, EditNoCommit
<1> QED BY <1>2, <1>3, <1>4, <1>5 DEF CatalogArrives, CatalogStep

LEMMA CrashIsQuiet ==
  ASSUME TypeInv, NEW w \in Workers, Crash(w) PROVE Quiet
BY ReplyNoCommit DEF Quiet, Crash, tables

LEMMA CustomerIsQuiet ==
  ASSUME TypeInv, NEW s \in SessionId, CustomerPays(s) PROVE Quiet
BY DEF Quiet, NoNewCommit, CustomerPays, paymentsUnchanged, TypeInv, TypeOK, StoreTypeOK
-----------------------------------------------------------------------------
(* The settlement *)

LEMMA LedgerTyped ==
  ASSUME TypeInv
  PROVE  /\ payments \subseteq Payment
         /\ orders \in [OrderId -> Order]
         /\ mails \in [OrderId -> Nat]
         /\ sessions \in [SessionId -> Session]
         /\ acked \subseteq SessionId
         /\ req \in [Workers -> Request]
BY DEF TypeInv, TypeOK, StoreTypeOK, TablesTypeOK

\* A settlement that ends with a 2xx leaves no webhook unanswered for an order
\* without a payment.
LEMMA SettledIsQuiet ==
  ASSUME LedgerInv, NEW w \in Workers, req[w].op \in SettleOps, Settled(w),
         \E p \in payments : p.order = req[w].order,
         UNCHANGED <<payments, mails, orders, sessions>>
  PROVE  Quiet
<1>1. NoNewCommit
  BY ReplyNoCommit DEF Settled, LedgerInv
<1>2. /\ sessions[req[w].session].state = "paid"
      /\ req[w].order = sessions[req[w].session].order
  BY SettleFacts DEF LedgerInv
<1>3. acked' = acked \/ acked' = acked \cup {req[w].session}
  BY DEF Settled
<1> QED BY <1>1, <1>2, <1>3 DEF Quiet

LEMMA PaymentIsQuiet ==
  ASSUME LedgerInv, NEW w \in Workers, PaymentArrives(w) \/ PaymentStep(w),
         ~CommitPayment(w), ~SendConfirmation(w)
  PROVE  Quiet
<1> USE DEF LedgerInv
<1>1. ASSUME NEW o, CreatePaymentSession(w, o) PROVE Quiet
  <2>1. NoNewCommit
    BY <1>1, AcceptNoCommit DEF CreatePaymentSession, Idle
  <2> QED BY <1>1, <2>1 DEF CreatePaymentSession, Quiet
<1>2. ASSUME NEW s, PaymentSuccess(w, s) \/ StripeWebhook(w, s) PROVE Quiet
  <2>1. NoNewCommit
    BY <1>2, AcceptNoCommit DEF PaymentSuccess, StripeWebhook, Settle, Idle
  <2> QED BY <1>2, <2>1 DEF PaymentSuccess, StripeWebhook, Settle, Quiet
<1>3. CASE CreateCheckoutSession(w)
  <2> DEFINE new == [ state |-> "open", order |-> req[w].order, user |-> req[w].user,
                      amount |-> Charge(req[w].lines) ]
  <2> HIDE DEF new
  <2>1. \/ sessions' = sessions
        \/ \E s \in SessionId : /\ sessions[s].state = "none"
                               /\ sessions' = [sessions EXCEPT ![s] = new]
    BY <1>3 DEF CreateCheckoutSession, NextSession, new
  <2>2. \A s \in SessionId : sessions[s].state = "paid" => sessions'[s] = sessions[s]
    BY <2>1, LedgerTyped
  <2>3. NoNewCommit
    BY <1>3, ReplyNoCommit DEF CreateCheckoutSession
  <2> QED BY <1>3, <2>2, <2>3 DEF CreateCheckoutSession, Quiet
<1>4. CASE FindPayment(w)
  <2>1. req[w].op \in SettleOps
    BY <1>4 DEF FindPayment, TypeInv, RequestsOK, RequestOK
  <2>2. CASE /\ \E p \in payments : p.session = req[w].session
             /\ Settled(w)
    <3>1. \E p \in payments : p.order = req[w].order
      BY <2>1, <2>2, SettleFacts DEF PaymentIsCaptured
    <3> QED BY <1>4, <2>1, <2>2, <3>1, SettledIsQuiet DEF FindPayment
  <2>3. CASE Goto(w, "load_order") /\ UNCHANGED acked
    BY <1>4, <2>3, GotoNoCommit DEF FindPayment, Quiet
  <2> QED BY <1>4, <2>2, <2>3 DEF FindPayment
<1>5. CASE LoadOrder(w)
  <2>1. req[w].op \in SettleOps
    BY <1>5 DEF LoadOrder, TypeInv, RequestsOK, RequestOK
  <2>2. CASE orders[req[w].order].status = "paid" /\ Settled(w)
    <3>1. \E p \in payments : p.order = req[w].order
      BY <2>1, <2>2, SettleFacts DEF PaidOrderHasPayment
    <3> QED BY <1>5, <2>1, <2>2, <3>1, SettledIsQuiet DEF LoadOrder
  <2>3. CASE /\ req' = [req EXCEPT ![w].pc = "commit",
                                   ![w].lines = orders[req[w].order].items]
             /\ UNCHANGED acked
    <3> DEFINE items == orders[req[w].order].items
               r == [req[w] EXCEPT !.pc = "commit", !.lines = items]
    <3> HIDE DEF items
    <3>1. req' = [req EXCEPT ![w] = r] /\ r.pc \notin {"mail", "answer"}
      BY <2>3, LedgerTyped DEF Request, items
    <3>2. NoNewCommit
      BY <3>1, EditNoCommit
    <3> QED BY <1>5, <2>3, <3>2 DEF LoadOrder, Quiet
  <2> QED BY <1>5, <2>2, <2>3 DEF LoadOrder
<1>6. CASE AnswerSettled(w)
  <2>1. req[w].op \in SettleOps
    BY <1>6 DEF AnswerSettled, TypeInv, RequestsOK, RequestOK
  <2>2. \E p \in payments : p.order = req[w].order
    BY <1>6 DEF AnswerSettled, MailPending
  <2> QED BY <1>6, <2>1, <2>2, SettledIsQuiet DEF AnswerSettled
<1> QED BY <1>1, <1>2, <1>3, <1>4, <1>5, <1>6 DEF PaymentArrives, PaymentStep

\* What a successful commit does, and that it is the first for its order and session.
LEMMA CommitFacts ==
  ASSUME LedgerInv, NEW w \in Workers, CommitPayment(w), PaymentInserts(w)
  PROVE  /\ payments' = payments \cup {NewPayment(w)}
         /\ orders' = [orders EXCEPT ![req[w].order].status = "paid"]
         /\ req' = [req EXCEPT ![w].pc = "mail"]
         /\ UNCHANGED <<mails, sessions, acked>>
         /\ req[w].order \in OrderId
         /\ sessions[req[w].session].state = "paid"
         /\ sessions[req[w].session].order = req[w].order
         /\ \A p \in payments : p.order # req[w].order /\ p.session # req[w].session
<1>1. req[w].op \in SettleOps
  BY DEF CommitPayment
<1>2. \A p \in payments : p.order # req[w].order
  BY DEF PaymentInserts
<1>3. \A p \in payments : p.session # req[w].session
  BY <1>1, <1>2, SettleFacts DEF LedgerInv, PaymentIsCaptured
<1> QED BY <1>1, <1>2, <1>3, SettleFacts
           DEF CommitPayment, NewPayment, Goto, paymentsUnchanged, LedgerInv

LEMMA CommitKeepsLedger ==
  ASSUME LedgerInv, TypeInv', NEW w \in Workers, CommitPayment(w)
  PROVE  LedgerInv'
<1>1. CASE ~PaymentInserts(w)
  <2>1. NoNewCommit
    BY <1>1, ReplyNoCommit DEF CommitPayment, LedgerInv
  <2>2. Quiet
    BY <1>1, <2>1 DEF CommitPayment, Quiet
  <2> QED BY <2>2, QuietKeepsLedger
<1>2. CASE PaymentInserts(w)
  <2> DEFINE o == req[w].order
             new == NewPayment(w)
  <2>1. /\ payments' = payments \cup {new}
        /\ orders' = [orders EXCEPT ![o].status = "paid"]
        /\ req' = [req EXCEPT ![w].pc = "mail"]
        /\ UNCHANGED <<mails, sessions, acked>>
        /\ o \in OrderId
        /\ \A p \in payments : p.order # o /\ p.session # req[w].session
    BY <1>2, CommitFacts
  <2>2. new.order = o /\ new.session = req[w].session
    BY DEF NewPayment
  <2>3. sessions[new.session].state = "paid" /\ sessions[new.session].order = new.order
        /\ sessions[new.session].user = new.user /\ sessions[new.session].amount = new.amount
    BY <1>2, SettleFacts DEF CommitPayment, NewPayment, LedgerInv
  <2> HIDE DEF new
  <2>4. OnePaymentPerOrder'
    BY <2>1, <2>2 DEF LedgerInv, OnePaymentPerOrder
  <2>5. PaymentIsCaptured'
    BY <2>1, <2>3 DEF LedgerInv, PaymentIsCaptured
  <2>6. PaidOrderHasPayment'
    BY <2>1, <2>2, LedgerTyped DEF LedgerInv, PaidOrderHasPayment, Order
  <2>7. AckedIsPaid' /\ AckedIsRecorded'
    BY <2>1 DEF LedgerInv, AckedIsPaid, AckedIsRecorded
  <2>8. ConfirmationOnce'
    BY <2>1 DEF LedgerInv, ConfirmationOnce
  <2>9. mails[o] = 0
    BY <2>1, LedgerTyped DEF LedgerInv, ConfirmationOnce
  <2>10. \A x \in Workers : req[x].pc = "mail" => req[x].order # o
    BY <2>1 DEF LedgerInv, MailPending
  <2>11. \A z \in Workers :
           /\ req'[z].order = req[z].order
           /\ req'[z].pc = req[z].pc \/ z = w
    BY <2>1, LedgerTyped DEF LedgerInv, Request
  <2>12. MailPending'
    BY <2>1, <2>2, <2>9, <2>11 DEF LedgerInv, MailPending
  <2>13. ASSUME NEW x \in Workers, NEW y \in Workers,
                req'[x].pc = "mail", req'[y].pc = "mail", req'[x].order = req'[y].order
         PROVE  x = y
    <3>1. req'[x].order = req[x].order /\ req'[y].order = req[y].order
      BY <2>11
    <3>2. req[x].order = req[y].order
      BY <2>13, <3>1
    <3>3. CASE req[x].pc = "mail" /\ req[y].pc = "mail"
      BY <3>2, <3>3 DEF LedgerInv, MailUnique
    <3>4. CASE x = w \/ y = w
      BY <2>10, <2>11, <2>13, <3>2, <3>4
    <3> QED BY <2>11, <2>13, <3>3, <3>4
  <2>14. MailUnique'
    BY <2>13 DEF MailUnique
  <2> QED BY <2>4, <2>5, <2>6, <2>7, <2>8, <2>12, <2>14 DEF LedgerInv
<1> QED BY <1>1, <1>2

LEMMA ConfirmationKeepsLedger ==
  ASSUME LedgerInv, TypeInv', NEW w \in Workers, SendConfirmation(w)
  PROVE  LedgerInv'
<1> DEFINE o == req[w].order
<1>1. /\ req[w].pc = "mail"
      /\ UNCHANGED <<payments, orders, sessions, acked>>
      /\ req' = [req EXCEPT ![w].pc = "answer"]
      /\ mails' = mails \/ mails' = [mails EXCEPT ![o] = @ + 1]
  BY DEF SendConfirmation, Goto
<1>2. /\ \E p \in payments : p.order = o
      /\ mails[o] = 0
      /\ o \in OrderId
  BY <1>1, SettleFacts DEF LedgerInv, MailPending, TypeInv, RequestsOK, RequestOK
<1>3. /\ OnePaymentPerOrder' /\ PaymentIsCaptured' /\ PaidOrderHasPayment'
      /\ AckedIsPaid' /\ AckedIsRecorded'
  BY <1>1 DEF LedgerInv, OnePaymentPerOrder, PaymentIsCaptured, PaidOrderHasPayment,
              AckedIsPaid, AckedIsRecorded
<1>4. ConfirmationOnce'
  BY <1>1, <1>2, LedgerTyped DEF LedgerInv, ConfirmationOnce
<1>5. \A x \in Workers : /\ req'[x].order = req[x].order
                         /\ x # w => req'[x] = req[x]
                         /\ x = w => req'[x].pc = "answer"
  BY <1>1, LedgerTyped DEF LedgerInv, Request
<1>6. \A x \in Workers : req'[x].pc = "mail" => x # w /\ req[x].order # o
  BY <1>1, <1>5 DEF LedgerInv, MailUnique
<1>7. MailPending'
  <2>1. ASSUME NEW x \in Workers, req'[x].pc \in {"mail", "answer"}
        PROVE  \E p \in payments' : p.order = req'[x].order
    BY <1>1, <1>2, <1>5, <2>1 DEF LedgerInv, MailPending
  <2>2. ASSUME NEW x \in Workers, req'[x].pc = "mail"
        PROVE  mails'[req'[x].order] = 0
    <3>1. mails[req[x].order] = 0
      BY <1>5, <1>6, <2>2 DEF LedgerInv, MailPending
    <3>2. req[x].order \in OrderId
      BY <1>5, <1>6, <2>2, SettleFacts DEF LedgerInv, TypeInv, RequestsOK, RequestOK
    <3>3. mails'[req[x].order] = mails[req[x].order]
      BY <1>1, <1>6, <2>2, <3>2, LedgerTyped DEF LedgerInv
    <3> QED BY <1>5, <3>1, <3>3
  <2> QED BY <2>1, <2>2 DEF MailPending
<1>8. MailUnique'
  BY <1>5, <1>6 DEF LedgerInv, MailUnique
<1> QED BY <1>3, <1>4, <1>7, <1>8 DEF LedgerInv

\* Deleting a movie changes the items of payments, not the payments.
LEMMA DeleteKeepsLedger ==
  ASSUME LedgerInv, TypeInv', NEW w \in Workers, CommitDelete(w)
  PROVE  LedgerInv'
<1> DEFINE cut(p) == [p EXCEPT !.items = Without(req[w].movie, @)]
<1>1. /\ payments' = {cut(p) : p \in payments}
      /\ UNCHANGED <<mails, sessions, acked>>
      /\ Reply(w)
  BY DEF CommitDelete, catalogUnchanged
<1>2. \A p \in payments : /\ cut(p).order = p.order /\ cut(p).session = p.session
                         /\ cut(p).user = p.user /\ cut(p).amount = p.amount
  BY LedgerTyped DEF LedgerInv, Payment
<1> HIDE DEF cut
<1>3. \A o \in OrderId : orders'[o].status = orders[o].status
  BY LedgerTyped DEF LedgerInv, CommitDelete, Order
<1>4. \A o : (\E p \in payments : p.order = o) => \E p \in payments' : p.order = o
  BY <1>1, <1>2
<1>5. OnePaymentPerOrder'
  BY <1>1, <1>2 DEF LedgerInv, OnePaymentPerOrder
<1>6. PaymentIsCaptured'
  BY <1>1, <1>2 DEF LedgerInv, PaymentIsCaptured
<1>7. PaidOrderHasPayment'
  BY <1>3, <1>4 DEF LedgerInv, PaidOrderHasPayment
<1>8. AckedIsPaid' /\ AckedIsRecorded'
  BY <1>1, <1>4 DEF LedgerInv, AckedIsPaid, AckedIsRecorded
<1>9. NoNewCommit
  BY <1>1, ReplyNoCommit DEF LedgerInv
<1>10. MailPending' /\ MailUnique'
  BY <1>1, <1>4, <1>9 DEF LedgerInv, MailPending, MailUnique, NoNewCommit
<1>11. ConfirmationOnce'
  BY <1>1, <1>4 DEF LedgerInv, ConfirmationOnce
<1> QED BY <1>5, <1>6, <1>7, <1>8, <1>10, <1>11 DEF LedgerInv
-----------------------------------------------------------------------------
LEMMA InitLedger == Init => LedgerInv
<1> SUFFICES ASSUME Init PROVE LedgerInv
  OBVIOUS
<1>1. TypeInv
  BY InitTypes
<1> QED BY <1>1
   DEF Init, StoreInit, LedgerInv, OnePaymentPerOrder, PaymentIsCaptured,
       PaidOrderHasPayment, AckedIsPaid, AckedIsRecorded, MailPending, MailUnique,
       ConfirmationOnce, NoOrder, Idle

LEMMA StepLedger == LedgerInv /\ [Next]_vars => LedgerInv'
<1> SUFFICES ASSUME LedgerInv, [Next]_vars PROVE LedgerInv'
  OBVIOUS
<1>1. TypeInv /\ TypeInv'
  BY StepTypes DEF LedgerInv
<1>2. ASSUME NEW w \in Workers, Arrive(w) \/ Step(w) \/ Crash(w)
      PROVE  LedgerInv'
  <2>1. CASE CommitPayment(w)
    BY <1>1, <2>1, CommitKeepsLedger
  <2>2. CASE SendConfirmation(w)
    BY <1>1, <2>2, ConfirmationKeepsLedger
  <2>3. CASE CommitDelete(w)
    BY <1>1, <2>3, DeleteKeepsLedger
  <2>4. CASE ~CommitPayment(w) /\ ~SendConfirmation(w) /\ ~CommitDelete(w)
    <3>1. Quiet
      BY <1>1, <1>2, <2>4, CartIsQuiet, OrderIsQuiet, PaymentIsQuiet, CatalogIsQuiet,
         CrashIsQuiet DEF Arrive, Step
    <3> QED BY <1>1, <3>1, QuietKeepsLedger
  <2> QED BY <2>1, <2>2, <2>3, <2>4
<1>3. ASSUME NEW s \in SessionId, CustomerPays(s) PROVE LedgerInv'
  BY <1>1, <1>3, CustomerIsQuiet, QuietKeepsLedger
<1>4. CASE UNCHANGED vars
  <2>1. Quiet
    BY <1>4 DEF vars, tables, Quiet, NoNewCommit
  <2> QED BY <1>1, <2>1, QuietKeepsLedger
<1> QED BY <1>2, <1>3, <1>4 DEF Next

\* The inductive invariant holds in every reachable state.
THEOREM LedgerInvariant == Spec => []LedgerInv
BY InitLedger, StepLedger, PTL DEF Spec

\* The redirect and the webhook of any number of sessions, in any order and in any
\* number of concurrent deliveries, record at most one payment for an order, and
\* only for money that Stripe captured (routes/payments.py:39-75).
THEOREM LedgerCorrect == Spec => [](OnePaymentPerOrder /\ PaymentIsCaptured)
<1>1. LedgerInv => OnePaymentPerOrder /\ PaymentIsCaptured
  BY DEF LedgerInv
<1> QED BY <1>1, LedgerInvariant, PTL

\* No order is PAID without its payment, and Stripe stops delivering a webhook only
\* when the order of the session has one (routes/payments.py:51-53, 282-288).
THEOREM NothingLost == Spec => [](PaidOrderHasPayment /\ AckedIsRecorded)
<1>1. LedgerInv => PaidOrderHasPayment /\ AckedIsRecorded
  BY DEF LedgerInv
<1> QED BY <1>1, LedgerInvariant, PTL

\* A buyer gets at most one confirmation of an order, and only of one whose payment
\* is committed (routes/payments.py:75-87).
THEOREM ConfirmedOnce == Spec => []ConfirmationOnce
<1>1. LedgerInv => ConfirmationOnce
  BY DEF LedgerInv
<1> QED BY <1>1, LedgerInvariant, PTL

-----------------------------------------------------------------------------
(***************************************************************************)
(* The shop implements Settlement: its initial states are initial states   *)
(* of Settlement, and every step of a worker, of Stripe or of a customer   *)
(* is a Capture, a Record, a Tell or a stutter.                            *)
(***************************************************************************)
AbstractVars == <<CapturedFor, SettledBy, mails>>

LEMMA SettlerOfPayment ==
  ASSUME NEW P, \A p, q \in P : p.order = q.order => p = q, NEW p \in P
  PROVE  Settler(P, p.order) = p.session
BY DEF Settler

LEMMA SettlerOfNone ==
  ASSUME NEW P, NEW o, \A p \in P : p.order # o
  PROVE  Settler(P, o) = 0
BY DEF Settler

\* Only the customer makes a session paid.
LEMMA CaptureOnlyByCustomer ==
  ASSUME TypeInv, NEW w \in Workers, Arrive(w) \/ Step(w) \/ Crash(w)
  PROVE  CapturedFor' = CapturedFor
<1>1. CASE sessions' = sessions
  BY <1>1 DEF CapturedFor
<1>2. CASE CreateCheckoutSession(w)
  <2> DEFINE new == [ state |-> "open", order |-> req[w].order, user |-> req[w].user,
                      amount |-> Charge(req[w].lines) ]
  <2>1. new.state = "open"
    OBVIOUS
  <2> HIDE DEF new
  <2>2. \/ sessions' = sessions
        \/ \E s \in SessionId : /\ sessions[s].state = "none"
                               /\ sessions' = [sessions EXCEPT ![s] = new]
    BY <1>2 DEF CreateCheckoutSession, NextSession, new
  <2>3. ASSUME NEW s \in SessionId
        PROVE  (IF sessions'[s].state = "paid" THEN sessions'[s].order ELSE 0)
                 = (IF sessions[s].state = "paid" THEN sessions[s].order ELSE 0)
    BY <2>1, <2>2, LedgerTyped
  <2> QED BY <2>3 DEF CapturedFor
<1>3. sessions' = sessions \/ CreateCheckoutSession(w)
  <2>1. CASE CartArrives(w) \/ CartStep(w)
    BY <2>1 DEF CartArrives, OpenCart, AddToCart, CartStep, CheckPurchased, CartMissing,
         InsertCart, CartLoaded, CommitAdd, CommitRemove, CommitClear, cartUnchanged
  <2>2. CASE OrderArrives(w) \/ OrderStep(w)
    BY <2>2 DEF OrderArrives, CreateOrder, CancelOrder, OrderStep, ReadPaidIds,
         ReadPendingIds, CommitOrder, CommitCancel, ordersUnchanged
  <2>3. CASE PaymentArrives(w) \/ PaymentStep(w)
    BY <2>3 DEF PaymentArrives, CreatePaymentSession, PaymentSuccess, StripeWebhook, Settle,
         PaymentStep, FindPayment, LoadOrder, CommitPayment, SendConfirmation,
         AnswerSettled
  <2>4. CASE CatalogArrives(w) \/ CatalogStep(w)
    BY <2>4 DEF CatalogArrives, UpdatePrice, DeleteMovie, CatalogStep, CheckUnsold,
         CountCarts, CommitDelete, DeleteRefused, catalogUnchanged
  <2>5. CASE Crash(w)
    BY <2>5 DEF Crash
  <2> QED BY <2>1, <2>2, <2>3, <2>4, <2>5 DEF Arrive, Step
<1> QED BY <1>1, <1>2, <1>3

LEMMA CustomerCaptures ==
  ASSUME LedgerInv, NEW s \in SessionId, CustomerPays(s)
  PROVE  Ledger!Next
<1> DEFINE o == sessions[s].order
<1>1. o \in OrderId
  BY DEF LedgerInv, TypeInv, SessionsOwned, CustomerPays
<1>2. CapturedFor[s] = 0
  BY DEF CapturedFor, CustomerPays
<1>3. CapturedFor' = [CapturedFor EXCEPT ![s] = o]
  <2>1. ASSUME NEW x \in SessionId
        PROVE  CapturedFor'[x] = IF x = s THEN o ELSE CapturedFor[x]
    BY LedgerTyped DEF CapturedFor, CustomerPays, LedgerInv, Session
  <2> QED BY <2>1 DEF CapturedFor
<1>4. UNCHANGED <<SettledBy, mails>>
  BY DEF CustomerPays, SettledBy
<1> QED BY <1>1, <1>2, <1>3, <1>4 DEF Ledger!Next, Ledger!Capture

LEMMA CommitRecords ==
  ASSUME LedgerInv, LedgerInv', NEW w \in Workers, CommitPayment(w)
  PROVE  Ledger!Next \/ UNCHANGED AbstractVars
<1>1. CapturedFor' = CapturedFor
  BY CaptureOnlyByCustomer DEF LedgerInv, Step, PaymentStep
<1>2. CASE ~PaymentInserts(w)
  BY <1>1, <1>2 DEF CommitPayment, SettledBy, AbstractVars
<1>3. CASE PaymentInserts(w)
  <2> DEFINE o == req[w].order
             s == req[w].session
  <2>1. /\ payments' = payments \cup {NewPayment(w)}
        /\ mails' = mails
        /\ o \in OrderId
        /\ sessions[s].state = "paid" /\ sessions[s].order = o
        /\ \A p \in payments : p.order # o
    BY <1>3, CommitFacts
  <2>2. s \in SessionId
    BY SettleFacts DEF CommitPayment, LedgerInv
  <2>3. NewPayment(w).order = o /\ NewPayment(w).session = s
    BY DEF NewPayment
  <2>4. CapturedFor[s] = o
    BY <2>1, <2>2 DEF CapturedFor
  <2>5. SettledBy[o] = 0
    BY <2>1, SettlerOfNone DEF SettledBy
  <2>6. SettledBy' = [SettledBy EXCEPT ![o] = s]
    <3>1. \A p, q \in payments' : p.order = q.order => p = q
      BY DEF LedgerInv, OnePaymentPerOrder
    <3>2. Settler(payments', o) = s
      <4>1. PICK p \in payments' : p.order = o /\ p.session = s
        BY <2>1, <2>3
      <4>2. Settler(payments', p.order) = p.session
        BY <3>1, SettlerOfPayment
      <4> QED BY <4>1, <4>2
    <3>3. ASSUME NEW x \in OrderId, x # o
          PROVE  Settler(payments', x) = Settler(payments, x)
      <4>1. CASE \E p \in payments : p.order = x
        <5>1. PICK p \in payments : p.order = x
          BY <4>1
        <5>2. Settler(payments, x) = p.session
          BY <5>1, SettlerOfPayment DEF LedgerInv, OnePaymentPerOrder
        <5>3. Settler(payments', x) = p.session
          BY <2>1, <3>1, <5>1, SettlerOfPayment
        <5> QED BY <5>2, <5>3
      <4>2. CASE \A p \in payments : p.order # x
        <5>1. \A p \in payments' : p.order # x
          BY <2>1, <2>3, <3>3, <4>2
        <5> QED BY <4>2, <5>1, SettlerOfNone
      <4> QED BY <4>1, <4>2
    <3> QED BY <3>2, <3>3 DEF SettledBy
  <2> QED BY <1>1, <2>1, <2>2, <2>4, <2>5, <2>6 DEF Ledger!Next, Ledger!Record
<1> QED BY <1>2, <1>3

LEMMA ConfirmationTells ==
  ASSUME LedgerInv, NEW w \in Workers, SendConfirmation(w)
  PROVE  Ledger!Next \/ UNCHANGED AbstractVars
<1> DEFINE o == req[w].order
<1>1. CapturedFor' = CapturedFor
  BY CaptureOnlyByCustomer DEF LedgerInv, Step, PaymentStep
<1>2. SettledBy' = SettledBy
  BY DEF SendConfirmation, SettledBy
<1>3. /\ o \in OrderId /\ mails[o] = 0
      /\ \E p \in payments : p.order = o
  BY SettleFacts DEF SendConfirmation, LedgerInv, MailPending, TypeInv, RequestsOK, RequestOK
<1>4. SettledBy[o] # 0
  <2>1. PICK p \in payments : p.order = o
    BY <1>3
  <2>2. SettledBy[o] = p.session
    BY <1>3, <2>1, SettlerOfPayment DEF LedgerInv, OnePaymentPerOrder, SettledBy
  <2>3. p.session \in SessionId
    BY LedgerTyped DEF LedgerInv, Payment
  <2> QED BY <2>2, <2>3, ConstantsOk DEF SessionId
<1>5. CASE mails' = mails
  BY <1>1, <1>2, <1>5 DEF AbstractVars
<1>6. CASE mails' = [mails EXCEPT ![o] = @ + 1]
  <2>1. mails' = [mails EXCEPT ![o] = 1]
    BY <1>3, <1>6
  <2> QED BY <1>1, <1>2, <1>3, <1>4, <2>1 DEF Ledger!Next, Ledger!Tell
<1> QED BY <1>5, <1>6 DEF SendConfirmation

LEMMA DeleteStutters ==
  ASSUME LedgerInv, LedgerInv', NEW w \in Workers, CommitDelete(w)
  PROVE  UNCHANGED AbstractVars
<1> DEFINE cut(p) == [p EXCEPT !.items = Without(req[w].movie, @)]
<1>1. payments' = {cut(p) : p \in payments} /\ mails' = mails
  BY DEF CommitDelete, catalogUnchanged
<1>2. \A p \in payments : cut(p).order = p.order /\ cut(p).session = p.session
  BY LedgerTyped DEF LedgerInv, Payment
<1> HIDE DEF cut
<1>3. CapturedFor' = CapturedFor
  BY CaptureOnlyByCustomer DEF LedgerInv, Step, CatalogStep
<1>4. ASSUME NEW o \in OrderId
      PROVE  Settler(payments', o) = Settler(payments, o)
  <2>1. CASE \E p \in payments : p.order = o
    <3>1. PICK p \in payments : p.order = o
      BY <2>1
    <3>2. Settler(payments, o) = p.session
      BY <3>1, SettlerOfPayment DEF LedgerInv, OnePaymentPerOrder
    <3>3. cut(p) \in payments' /\ cut(p).order = o /\ cut(p).session = p.session
      BY <1>1, <1>2, <3>1
    <3>4. \A q, r \in payments' : q.order = r.order => q = r
      BY DEF LedgerInv, OnePaymentPerOrder
    <3>5. Settler(payments', o) = p.session
      BY <3>3, <3>4, SettlerOfPayment
    <3> QED BY <3>2, <3>5
  <2>2. CASE \A p \in payments : p.order # o
    <3>1. \A p \in payments' : p.order # o
      BY <1>1, <1>2, <2>2
    <3> QED BY <2>2, <3>1, SettlerOfNone
  <2> QED BY <2>1, <2>2
<1>5. SettledBy' = SettledBy
  BY <1>4 DEF SettledBy
<1> QED BY <1>1, <1>3, <1>5 DEF AbstractVars

\* A quiet step of a worker is a stutter of Settlement.
LEMMA QuietStutters ==
  ASSUME LedgerInv, NEW w \in Workers, Arrive(w) \/ Step(w) \/ Crash(w), Quiet
  PROVE  UNCHANGED AbstractVars
BY CaptureOnlyByCustomer DEF LedgerInv, Quiet, SettledBy, AbstractVars
-----------------------------------------------------------------------------
LEMMA InitImplements == Init => Ledger!Init
<1> SUFFICES ASSUME Init PROVE Ledger!Init
  OBVIOUS
<1>1. CapturedFor = [s \in SessionId |-> 0]
  BY DEF Init, StoreInit, CapturedFor, NoSession
<1>2. SettledBy = [o \in OrderId |-> 0]
  BY SettlerOfNone DEF Init, StoreInit, SettledBy
<1> QED BY <1>1, <1>2 DEF Init, StoreInit, Ledger!Init

LEMMA StepImplements ==
  LedgerInv /\ LedgerInv' /\ [Next]_vars => [Ledger!Next]_AbstractVars
<1> SUFFICES ASSUME LedgerInv, LedgerInv', [Next]_vars
             PROVE  Ledger!Next \/ UNCHANGED AbstractVars
  OBVIOUS
<1>1. ASSUME NEW w \in Workers, Arrive(w) \/ Step(w) \/ Crash(w)
      PROVE  Ledger!Next \/ UNCHANGED AbstractVars
  <2>1. CASE CommitPayment(w)
    BY <2>1, CommitRecords
  <2>2. CASE SendConfirmation(w)
    BY <2>2, ConfirmationTells
  <2>3. CASE CommitDelete(w)
    BY <2>3, DeleteStutters
  <2>4. CASE ~CommitPayment(w) /\ ~SendConfirmation(w) /\ ~CommitDelete(w)
    <3>1. TypeInv
      BY DEF LedgerInv
    <3>2. Quiet
      BY <1>1, <2>4, <3>1, CartIsQuiet, OrderIsQuiet, PaymentIsQuiet, CatalogIsQuiet,
         CrashIsQuiet DEF Arrive, Step
    <3> QED BY <1>1, <3>2, QuietStutters
  <2> QED BY <2>1, <2>2, <2>3, <2>4
<1>2. ASSUME NEW s \in SessionId, CustomerPays(s) PROVE Ledger!Next
  BY <1>2, CustomerCaptures
<1>3. CASE UNCHANGED vars
  BY <1>3 DEF vars, tables, AbstractVars, CapturedFor, SettledBy
<1> QED BY <1>1, <1>2, <1>3 DEF Next

\* Whatever the endpoints, Stripe and the customers do, the payments of the shop
\* behave as Settlement says (routes/payments.py:39-87).
THEOREM Implementation == Spec => ImplementsSettlement
<1>1. Spec => Ledger!Init /\ [][Ledger!Next]_AbstractVars
  BY InitImplements, StepImplements, LedgerInvariant, PTL DEF Spec
<1> QED BY <1>1, PTL DEF ImplementsSettlement, Ledger!Spec, AbstractVars
=============================================================================
