--------------------------------- MODULE Cart ---------------------------------
(***************************************************************************)
(* The cart endpoints (routes/cart.py).  All of them start by fetching the *)
(* cart of the user, and create it when there is none; the row is inserted *)
(* in a commit of its own, so two first requests of a user race for it.    *)
(***************************************************************************)
EXTENDS Store

CartEndpoints == {"get_cart", "add_to_cart", "remove_from_cart", "clear_cart"}

cartUnchanged == <<catalog, price, orders, payments, notes, mails, sessions,
                   acked, crashes>>

\* get_cart, remove_from_cart and clear_cart go to _get_or_create_cart at once.
OpenCart(w, op, u, m) ==
  /\ op \in CartEndpoints \ {"add_to_cart"}
  /\ (m = None) = (op # "remove_from_cart")
  /\ Accept(w, [Idle EXCEPT !.op = op, !.pc = "load_cart", !.user = u, !.movie = m])
  /\ UNCHANGED <<carts, cartItems, cartUnchanged>>

\* add_to_cart first looks the movie up: 404 when it does not exist.
AddToCart(w, u, m) ==
  /\ m \in catalog
  /\ Accept(w, [Idle EXCEPT !.op = "add_to_cart", !.pc = "purchased",
                            !.user = u, !.movie = m])
  /\ UNCHANGED <<carts, cartItems, cartUnchanged>>

\* Mutant of CheckPurchased: asks for pending orders instead of paid ones.
CheckPurchasedPending(w) ==
  /\ At(w, "add_to_cart", "purchased")
  /\ IF req[w].movie \in MovieIds(req[w].user, "pending")
     THEN Reply(w)
     ELSE Goto(w, "load_cart")
  /\ UNCHANGED <<carts, cartItems, cartUnchanged>>

\* _is_movie_purchased: 400 when a paid order of the user has the movie.
CheckPurchased(w) ==
  /\ At(w, "add_to_cart", "purchased")
  /\ IF req[w].movie \in MovieIds(req[w].user, "paid")
     THEN Reply(w)
     ELSE Goto(w, "load_cart")
  /\ UNCHANGED <<carts, cartItems, cartUnchanged>>

\* _load_cart found no row: the endpoint goes on to insert one.
CartMissing(w) ==
  /\ req[w].pc = "load_cart"
  /\ req[w].user \notin carts
  /\ Goto(w, "insert_cart")
  /\ UNCHANGED <<carts, cartItems, cartUnchanged>>

\* Mutant of InsertCart: repeats the insert that failed until it succeeds.
InsertCartAgain(w) ==
  /\ req[w].pc = "insert_cart"
  /\ req[w].user \notin carts
  /\ Goto(w, "load_cart")
  /\ carts' = carts \cup {req[w].user}
  /\ UNCHANGED <<cartItems, cartUnchanged>>

\* The insert of _get_or_create_cart commits and the cart is loaded again, or
\* carts.user_id is no longer free: IntegrityError, 500.
InsertCart(w) ==
  /\ req[w].pc = "insert_cart"
  /\ IF req[w].user \in carts
     THEN Reply(w) /\ UNCHANGED carts
     ELSE Goto(w, "load_cart") /\ carts' = carts \cup {req[w].user}
  /\ UNCHANGED <<cartItems, cartUnchanged>>

\* _load_cart found the cart; what follows in the handler up to its next
\* statement: 409 for a movie that is there already, 404 for one that is not.
CartLoaded(w) ==
  LET here == req[w].movie \in cartItems[req[w].user]
  IN  /\ req[w].pc = "load_cart"
      /\ req[w].user \in carts
      /\ IF \/ req[w].op = "get_cart"
            \/ req[w].op = "add_to_cart" /\ here
            \/ req[w].op = "remove_from_cart" /\ ~here
         THEN Reply(w)
         ELSE Goto(w, "commit")
      /\ UNCHANGED <<carts, cartItems, cartUnchanged>>

\* INSERT INTO cart_items: fails on uq_cart_item when the movie got into the
\* cart meanwhile, and on the foreign key when the movie is gone.
CommitAdd(w) ==
  /\ At(w, "add_to_cart", "commit")
  /\ IF /\ req[w].movie \notin cartItems[req[w].user]
        /\ req[w].movie \in catalog
     THEN cartItems' = [cartItems EXCEPT ![req[w].user] = @ \cup {req[w].movie}]
     ELSE UNCHANGED cartItems
  /\ Reply(w)
  /\ UNCHANGED <<carts, cartUnchanged>>

CommitRemove(w) ==
  /\ At(w, "remove_from_cart", "commit")
  /\ cartItems' = [cartItems EXCEPT ![req[w].user] = @ \ {req[w].movie}]
  /\ Reply(w)
  /\ UNCHANGED <<carts, cartUnchanged>>

CommitClear(w) ==
  /\ At(w, "clear_cart", "commit")
  /\ cartItems' = [cartItems EXCEPT ![req[w].user] = {}]
  /\ Reply(w)
  /\ UNCHANGED <<carts, cartUnchanged>>

CartArrives(w) ==
  \/ \E op \in CartEndpoints, u \in Users, m \in Movies \cup {None} : OpenCart(w, op, u, m)
  \/ \E u \in Users, m \in Movies : AddToCart(w, u, m)

CartStep(w) ==
  \/ CheckPurchased(w)
  \/ CartMissing(w)
  \/ InsertCart(w)
  \/ CartLoaded(w)
  \/ CommitAdd(w)
  \/ CommitRemove(w)
  \/ CommitClear(w)
=============================================================================
