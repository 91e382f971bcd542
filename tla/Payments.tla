------------------------------- MODULE Payments -------------------------------
(***************************************************************************)
(* Stripe checkout and the settlement of paid sessions (routes/payments.py *)
(* and services/payments.py).  A session that the customer paid is settled *)
(* by _process_paid_session, which two endpoints run: the browser redirect *)
(* payment_success, any number of times, and stripe_webhook, which Stripe  *)
(* calls again until it gets a 2xx.                                        *)
(***************************************************************************)
EXTENDS Store

paymentsUnchanged == <<carts, cartItems, catalog, price, notes, crashes>>

-----------------------------------------------------------------------------
(* create_payment_session *)

\* Every session in flight may still be created: keep a free id for each.
RoomForSession ==
  Cardinality({s \in SessionId : sessions[s].state # "none"})
    + Cardinality({w \in Workers : req[w].op = "create_payment_session"}) < MaxSessions

\* The order of the user is loaded with its items: 404, or 400 unless pending.
CreatePaymentSession(w, o) ==
  /\ RoomForSession
  /\ orders[o].status = "pending"
  /\ Accept(w, [Idle EXCEPT !.op = "create_payment_session", !.pc = "stripe_call",
                            !.user = orders[o].user, !.order = o,
                            !.lines = orders[o].items])
  /\ UNCHANGED <<orders, payments, mails, sessions, acked, paymentsUnchanged>>

\* StripeService.create_checkout_session: Stripe opens a session over the items
\* as they were loaded and returns its URL.  It refuses an empty list (an order
\* whose movies were all deleted), which the handler lets through as a 500.
NextSession(s) == /\ sessions[s].state = "none"
                  /\ \A t \in 1..(s - 1) : sessions[t].state # "none"

\* Mutant of CreateCheckoutSession: charges what the movies cost now.
ChargeCurrentPrice(w) ==
  /\ At(w, "create_payment_session", "stripe_call")
  /\ \E s \in SessionId :
       /\ NextSession(s)
       /\ sessions' = [sessions EXCEPT ![s] =
            [ state |-> "open", order |-> req[w].order, user |-> req[w].user,
              amount |-> Charge({[l EXCEPT !.price = price[l.movie]] : l \in req[w].lines}) ]]
  /\ Reply(w)
  /\ UNCHANGED <<orders, payments, mails, acked, paymentsUnchanged>>

CreateCheckoutSession(w) ==
  /\ At(w, "create_payment_session", "stripe_call")
  /\ IF req[w].lines # {}
     THEN \E s \in SessionId :
            /\ NextSession(s)
            /\ sessions' = [sessions EXCEPT ![s] =
                              [ state |-> "open", order |-> req[w].order,
                                user |-> req[w].user, amount |-> Charge(req[w].lines) ]]
     ELSE UNCHANGED sessions
  /\ Reply(w)
  /\ UNCHANGED <<orders, payments, mails, acked, paymentsUnchanged>>

\* Stripe: the customer pays on the hosted page.
CustomerPays(s) ==
  /\ sessions[s].state = "open"
  /\ sessions' = [sessions EXCEPT ![s].state = "paid"]
  /\ UNCHANGED <<orders, payments, mails, acked, req, paymentsUnchanged>>

-----------------------------------------------------------------------------
(* payment_success and stripe_webhook *)

SettleOps == {"payment_success", "stripe_webhook"}

\* Mutant of Settle: does not ask Stripe whether the session is paid.
SettleUnpaid(w, op, s) ==
  /\ sessions[s].state # "none"
  /\ Accept(w, [Idle EXCEPT !.op = op, !.pc = "find_payment", !.session = s,
                            !.user = sessions[s].user, !.order = sessions[s].order])
  /\ UNCHANGED <<orders, payments, mails, sessions, acked, paymentsUnchanged>>

Settle(w, op, s) ==
  /\ sessions[s].state = "paid"
  /\ Accept(w, [Idle EXCEPT !.op = op, !.pc = "find_payment", !.session = s,
                            !.user = sessions[s].user, !.order = sessions[s].order])
  /\ UNCHANGED <<orders, payments, mails, sessions, acked, paymentsUnchanged>>

\* The browser opens (or reloads) the success page: 400 unless Stripe says paid.
PaymentSuccess(w, s) == Settle(w, "payment_success", s)

\* Mutant of StripeWebhook: answers before it processes the event.
AckFirst(w, s) ==
  /\ s \notin acked
  /\ sessions[s].state = "paid"
  /\ Accept(w, [Idle EXCEPT !.op = "stripe_webhook", !.pc = "find_payment", !.session = s,
                            !.user = sessions[s].user, !.order = sessions[s].order])
  /\ acked' = acked \cup {s}
  /\ UNCHANGED <<orders, payments, mails, sessions, paymentsUnchanged>>

\* Stripe delivers checkout.session.completed until a delivery is acknowledged.
StripeWebhook(w, s) == s \notin acked /\ Settle(w, "stripe_webhook", s)

\* The handler returns normally; Stripe takes the 2xx as the acknowledgement.
Settled(w) ==
  /\ Reply(w)
  /\ acked' = IF req[w].op = "stripe_webhook" THEN acked \cup {req[w].session} ELSE acked

\* Mutant of FindPayment: confirms again when the payment exists.
ConfirmAgain(w) ==
  /\ req[w].pc = "find_payment"
  /\ Goto(w, IF \E p \in payments : p.session = req[w].session THEN "mail" ELSE "load_order")
  /\ UNCHANGED <<orders, payments, mails, sessions, acked, paymentsUnchanged>>

\* A payment with the external id of this session exists: nothing to do.
FindPayment(w) ==
  /\ req[w].pc = "find_payment"
  /\ IF \E p \in payments : p.session = req[w].session
     THEN Settled(w)
     ELSE Goto(w, "load_order") /\ UNCHANGED acked
  /\ UNCHANGED <<orders, payments, mails, sessions, paymentsUnchanged>>

\* Mutant of LoadOrder: does nothing for any order that is not pending.
LoadPendingOrder(w) ==
  LET order == orders[req[w].order]
  IN  /\ req[w].pc = "load_order"
      /\ IF order.status # "pending"
         THEN Settled(w)
         ELSE /\ req' = [req EXCEPT ![w].pc = "commit", ![w].lines = order.items]
              /\ UNCHANGED acked
      /\ UNCHANGED <<orders, payments, mails, sessions, paymentsUnchanged>>

\* Mutant of LoadOrder: commits the status before the payment is written.
MarkPaidFirst(w) ==
  /\ req[w].pc = "load_order"
  /\ req' = [req EXCEPT ![w].pc = "commit", ![w].lines = orders[req[w].order].items]
  /\ orders' = [orders EXCEPT ![req[w].order].status = "paid"]
  /\ UNCHANGED <<payments, mails, sessions, acked, paymentsUnchanged>>

\* The order is loaded with its items: nothing to do when it is PAID.
LoadOrder(w) ==
  LET order == orders[req[w].order]
  IN  /\ req[w].pc = "load_order"
      /\ IF order.status = "paid"
         THEN Settled(w)
         ELSE /\ req' = [req EXCEPT ![w].pc = "commit", ![w].lines = order.items]
              /\ UNCHANGED acked
      /\ UNCHANGED <<orders, payments, mails, sessions, paymentsUnchanged>>

\* Mutant of PaymentInserts: payments.order_id is not unique.
PaymentInsertsAlways(w) == req[w].lines \subseteq orders[req[w].order].items

\* Mutant of PaymentInserts: payment_items.order_item_id is no foreign key.
PaymentInsertsStale(w) == \A p \in payments : p.order # req[w].order

\* The inserts go through: payments.order_id is unique, and payment_items has a
\* foreign key to order_items.
PaymentInserts(w) ==
  /\ \A p \in payments : p.order # req[w].order
  /\ req[w].lines \subseteq orders[req[w].order].items

\* The row that the request inserts.
NewPayment(w) ==
  [ order |-> req[w].order, user |-> req[w].user, session |-> req[w].session,
    amount |-> sessions[req[w].session].amount, items |-> req[w].lines ]

\* Mutant of CommitPayment: INSERT ... ON CONFLICT (order_id) DO UPDATE.
UpsertPayment(w) ==
  LET o == req[w].order
  IN  /\ req[w].op \in SettleOps /\ req[w].pc = "commit"
      /\ payments' = {p \in payments : p.order # o} \cup {NewPayment(w)}
      /\ orders' = [orders EXCEPT ![o].status = "paid"]
      /\ Goto(w, "mail")
      /\ UNCHANGED <<mails, sessions, acked, paymentsUnchanged>>

\* Mutant of CommitPayment: forgets the status of the order.
CommitPaymentOnly(w) ==
  /\ req[w].op \in SettleOps /\ req[w].pc = "commit"
  /\ payments' = payments \cup {NewPayment(w)}
  /\ Goto(w, "mail")
  /\ UNCHANGED <<orders, mails, sessions, acked, paymentsUnchanged>>

\* Mutant of CommitPayment: an IntegrityError is swallowed and the handler goes on.
CommitPaymentAnyway(w) ==
  /\ req[w].op \in SettleOps /\ req[w].pc = "commit"
  /\ IF PaymentInserts(w)
     THEN /\ payments' = payments \cup {NewPayment(w)}
          /\ orders' = [orders EXCEPT ![req[w].order].status = "paid"]
     ELSE UNCHANGED <<payments, orders>>
  /\ Goto(w, "mail")
  /\ UNCHANGED <<mails, sessions, acked, paymentsUnchanged>>

\* Flush and commit: the payment with an item per order item, and the order
\* updated to PAID by primary key.  Otherwise IntegrityError: 500, rolled back.
CommitPayment(w) ==
  LET r == req[w]
  IN  /\ r.op \in SettleOps /\ r.pc = "commit"
      /\ IF PaymentInserts(w)
         THEN /\ payments' = payments \cup {NewPayment(w)}
              /\ orders' = [orders EXCEPT ![r.order].status = "paid"]
              /\ Goto(w, "mail")
         ELSE Reply(w) /\ UNCHANGED <<payments, orders>>
      /\ UNCHANGED <<mails, sessions, acked, paymentsUnchanged>>

\* The confirmation email; an exception of the SMTP client is swallowed.
SendConfirmation(w) ==
  /\ req[w].pc = "mail"
  /\ \/ mails' = [mails EXCEPT ![req[w].order] = @ + 1]
     \/ UNCHANGED mails
  /\ Goto(w, "answer")
  /\ UNCHANGED <<orders, payments, sessions, acked, paymentsUnchanged>>

\* The response; when it is lost (a Crash just before) Stripe calls again.
AnswerSettled(w) ==
  /\ req[w].pc = "answer"
  /\ Settled(w)
  /\ UNCHANGED <<orders, payments, mails, sessions, paymentsUnchanged>>

PaymentArrives(w) ==
  \/ \E o \in OrderId : CreatePaymentSession(w, o)
  \/ \E s \in SessionId : PaymentSuccess(w, s) \/ StripeWebhook(w, s)

PaymentStep(w) ==
  \/ CreateCheckoutSession(w)
  \/ FindPayment(w)
  \/ LoadOrder(w)
  \/ CommitPayment(w)
  \/ SendConfirmation(w)
  \/ AnswerSettled(w)
=============================================================================
