------------------------------ MODULE MCCheckout ------------------------------
(***************************************************************************)
(* Instances of Checkout for TLC: the groups of endpoints that the runs    *)
(* let clients call.                                                       *)
(***************************************************************************)
EXTENDS Checkout, TLC

Buying == {"add_to_cart", "create_order"}
Paying == {"create_payment_session", "payment_success", "stripe_webhook"}

BuyAndPay == Buying \cup Paying
BuyPayCancel == BuyAndPay \cup {"cancel_order"}
BuyPayDelete == BuyAndPay \cup {"delete_movie"}
AllButCatalog == CartEndpoints \cup BuyPayCancel
AllButDelete == AllButCatalog \cup {"update_movie"}
BuyPayCancelDelete == BuyPayCancel \cup BuyPayDelete

\* The charges of these instances are computed with the closed form of Money, here compared
\* with the conversion step by step, at significands of which the prices use every bit.
ASSUME ClosedFormIsCode ==
  \A prec \in 12..20, p \in 1..1000 : UnitAmountOf(prec, p) = DirectUnitAmount(prec, p)

\* Sound for the safety runs: no property names a user, a movie or a worker.
Symmetry == Permutations(Movies) \cup Permutations(Workers) \cup Permutations(Users)
=============================================================================
