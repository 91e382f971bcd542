------------------------------- MODULE Catalog -------------------------------
(***************************************************************************)
(* What a moderator does to the catalogue while customers shop             *)
(* (routes/movies.py): changing the price of a movie and deleting a movie, *)
(* whose rows in carts, orders and payments the database deletes with it.  *)
(***************************************************************************)
EXTENDS Store

catalogUnchanged == <<carts, mails, sessions, acked, crashes>>

\* Mutant of UpdatePrice: reprices the items of the pending orders too.
UpdatePriceEverywhere(w, m, p) ==
  LET repriced(lines) == {IF l.movie = m THEN [l EXCEPT !.price = p] ELSE l : l \in lines}
  IN  /\ "update_movie" \in Endpoints
      /\ req[w] = Idle
      /\ m \in catalog
      /\ price' = [price EXCEPT ![m] = p]
      /\ orders' = [o \in OrderId |->
                      IF orders[o].status = "pending"
                      THEN [orders[o] EXCEPT !.items = repriced(@)]
                      ELSE orders[o]]
      /\ UNCHANGED <<cartItems, catalog, payments, notes, req, catalogUnchanged>>

\* update_movie with a price: 404 when the movie is gone.  The UPDATE is blind,
\* so what the request read before does not matter.
UpdatePrice(w, m, p) ==
  /\ "update_movie" \in Endpoints
  /\ req[w] = Idle
  /\ m \in catalog
  /\ price' = [price EXCEPT ![m] = p]
  /\ UNCHANGED <<cartItems, catalog, orders, payments, notes, req, catalogUnchanged>>

\* delete_movie loads the movie: 404 when it does not exist.
DeleteMovie(w, moderator, m) ==
  /\ m \in catalog
  /\ Accept(w, [Idle EXCEPT !.op = "delete_movie", !.pc = "purchased",
                            !.user = moderator, !.movie = m])
  /\ UNCHANGED <<cartItems, catalog, price, orders, payments, notes, catalogUnchanged>>

\* _is_movie_purchased: 400 when a paid order of any user has the movie.
CheckUnsold(w) ==
  /\ At(w, "delete_movie", "purchased")
  /\ IF \E u \in Users : req[w].movie \in MovieIds(u, "paid")
     THEN Reply(w)
     ELSE Goto(w, "cart_count")
  /\ UNCHANGED <<cartItems, catalog, price, orders, payments, notes, catalogUnchanged>>

\* The number of carts the movie is in; only whether it is zero matters.
CountCarts(w) ==
  /\ At(w, "delete_movie", "cart_count")
  /\ req' = [req EXCEPT ![w].pc = "commit",
                        ![w].inCarts = \E u \in Users : req[w].movie \in cartItems[u]]
  /\ UNCHANGED <<cartItems, catalog, price, orders, payments, notes, catalogUnchanged>>

Without(m, lines) == {l \in lines : l.movie # m}

\* The DELETE cascades to cart_items, order_items and payment_items of every
\* user, whatever the status of the order, and the moderator is notified.  A row
\* of movie_favorites keeps the movie (its foreign key has no ON DELETE): 500.  A
\* movie deleted meanwhile is a 500 too when it had genres, directors or stars.
DeleteRefused(w) ==
  /\ At(w, "delete_movie", "commit")
  /\ Reply(w)
  /\ UNCHANGED <<cartItems, catalog, price, orders, payments, notes, catalogUnchanged>>

CommitDelete(w) ==
  LET m == req[w].movie
  IN  /\ At(w, "delete_movie", "commit")
      /\ catalog' = catalog \ {m}
      /\ cartItems' = [u \in Users |-> cartItems[u] \ {m}]
      /\ orders' = [o \in OrderId |-> [orders[o] EXCEPT !.items = Without(m, @)]]
      /\ payments' = {[p EXCEPT !.items = Without(m, @)] : p \in payments}
      /\ notes' = notes \cup (IF req[w].inCarts
                              THEN {[to |-> req[w].user, movie |-> m, about |-> "deleted"]}
                              ELSE {})
      /\ Reply(w)
      /\ UNCHANGED <<price, catalogUnchanged>>

CatalogArrives(w) ==
  \/ \E m \in Movies, p \in Prices : UpdatePrice(w, m, p)
  \/ \E u \in Users, m \in Movies : DeleteMovie(w, u, m)

CatalogStep(w) ==
  \/ CheckUnsold(w)
  \/ CountCarts(w)
  \/ CommitDelete(w)
  \/ DeleteRefused(w)
=============================================================================
