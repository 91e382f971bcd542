-------------------------------- MODULE Orders --------------------------------
(***************************************************************************)
(* Placing and cancelling orders (routes/orders.py).                       *)
(***************************************************************************)
EXTENDS Store

ordersUnchanged == <<carts, catalog, price, payments, mails, sessions, acked, crashes>>

\* Every order in flight may still become a row: keep a free id for each.
RoomForOrder ==
  Cardinality(Placed)
    + Cardinality({w \in Workers : req[w].op = "create_order"}) < MaxOrders

\* create_order loads the cart with the movies and their prices: 400 if empty.
CreateOrder(w, u) ==
  LET lines == {[movie |-> m, price |-> price[m]] : m \in cartItems[u]}
  IN  /\ RoomForOrder
      /\ lines # {}
      /\ Accept(w, [Idle EXCEPT !.op = "create_order", !.pc = "paid_ids",
                                !.user = u, !.lines = lines])
      /\ UNCHANGED <<cartItems, orders, notes, ordersUnchanged>>

ReadPaidIds(w) ==
  /\ At(w, "create_order", "paid_ids")
  /\ req' = [req EXCEPT ![w].pc = "pending_ids",
                        ![w].owned = MovieIds(req[w].user, "paid")]
  /\ UNCHANGED <<cartItems, orders, notes, ordersUnchanged>>

\* The lines of the request whose movie the user does not own yet.
Orderable(w) == {l \in req[w].lines : l.movie \notin req[w].owned}

\* Mutant of ReadPendingIds: does not look at the pending orders.
SkipPendingIds(w) ==
  /\ At(w, "create_order", "pending_ids")
  /\ IF Orderable(w) = {} THEN Reply(w) ELSE Goto(w, "commit")
  /\ UNCHANGED <<cartItems, orders, notes, ordersUnchanged>>

\* The loop over the cart: 409 when a movie is in a pending order, 400 when all
\* of them are already purchased.
ReadPendingIds(w) ==
  /\ At(w, "create_order", "pending_ids")
  /\ IF \/ MoviesOf(Orderable(w)) \cap MovieIds(req[w].user, "pending") # {}
        \/ Orderable(w) = {}
     THEN Reply(w)
     ELSE Goto(w, "commit")
  /\ UNCHANGED <<cartItems, orders, notes, ordersUnchanged>>

\* The order id the sequence of the table gives out next.
NextOrder(o) == /\ orders[o].status = "absent"
                /\ \A x \in 1..(o - 1) : orders[x].status # "absent"

\* The row that the request inserts.
NewOrder(w) ==
  [ user |-> req[w].user, status |-> "pending", items |-> Orderable(w),
    total |-> Total(Orderable(w)) ]

\* Mutant of CommitOrder: order_items.movie_id is no foreign key.
CommitOrderNoKey(w) ==
  /\ At(w, "create_order", "commit")
  /\ \E o \in OrderId : NextOrder(o) /\ orders' = [orders EXCEPT ![o] = NewOrder(w)]
  /\ cartItems' = [cartItems EXCEPT ![req[w].user] = {}]
  /\ Reply(w)
  /\ UNCHANGED <<notes, ordersUnchanged>>

\* Mutant of CommitOrder: the excluded movies leave the cart without a notification.
CommitOrderSilently(w) ==
  /\ MoviesOf(Orderable(w)) \subseteq catalog
  /\ CommitOrderNoKey(w)

\* Flush and commit: the order, its items, the notifications about the excluded
\* movies, and the deletion of every row of the cart.  The foreign key of
\* order_items fails the request when a movie is gone: 500.
CommitOrder(w) ==
  LET u == req[w].user
  IN  /\ At(w, "create_order", "commit")
      /\ IF MoviesOf(Orderable(w)) \subseteq catalog
         THEN /\ \E o \in OrderId :
                   /\ NextOrder(o)
                   /\ orders' = [orders EXCEPT ![o] = NewOrder(w)]
              /\ cartItems' = [cartItems EXCEPT ![u] = {}]
              /\ notes' = notes \cup {[to |-> u, movie |-> l.movie, about |-> "excluded"] :
                                        l \in req[w].lines \ Orderable(w)}
         ELSE UNCHANGED <<orders, cartItems, notes>>
      /\ Reply(w)
      /\ UNCHANGED ordersUnchanged

\* Mutant of CancelOrder: does not look at the status.
CancelAnyOrder(w, o) ==
  /\ orders[o].status # "absent"
  /\ Accept(w, [Idle EXCEPT !.op = "cancel_order", !.pc = "commit",
                            !.user = orders[o].user, !.order = o])
  /\ UNCHANGED <<cartItems, orders, notes, ordersUnchanged>>

\* cancel_order loads the order of the user and checks that it is pending ...
CancelOrder(w, o) ==
  /\ orders[o].status = "pending"
  /\ Accept(w, [Idle EXCEPT !.op = "cancel_order", !.pc = "commit",
                            !.user = orders[o].user, !.order = o])
  /\ UNCHANGED <<cartItems, orders, notes, ordersUnchanged>>

\* Mutant of CommitCancel: writes a status that is not in OrderStatusEnum.
CommitCancelMisspelt(w) ==
  /\ At(w, "cancel_order", "commit")
  /\ orders' = [orders EXCEPT ![req[w].order].status = "cancelled"]
  /\ Reply(w)
  /\ UNCHANGED <<cartItems, notes, ordersUnchanged>>

\* ... and updates it by primary key, whatever its status is by then.
CommitCancel(w) ==
  /\ At(w, "cancel_order", "commit")
  /\ orders' = [orders EXCEPT ![req[w].order].status = "canceled"]
  /\ Reply(w)
  /\ UNCHANGED <<cartItems, notes, ordersUnchanged>>

OrderArrives(w) ==
  \/ \E u \in Users : CreateOrder(w, u)
  \/ \E o \in OrderId : CancelOrder(w, o)

OrderStep(w) ==
  \/ ReadPaidIds(w)
  \/ ReadPendingIds(w)
  \/ CommitOrder(w)
  \/ CommitCancel(w)
=============================================================================
