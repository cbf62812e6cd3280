------------------------------ MODULE MCOrders ------------------------------
(* Orders under TLC: the route sets of the runs, and the symmetry of ids   *)
(* that no definition distinguishes.                                       *)
EXTENDS Orders, TLC

\* Every route, less four that write nothing another route does not write:
\* reject (declineOrder), confirmReturn (markDelivered), review
\* (submitReview) and postUpdate (only a card).
DistinctRoutes == Op \ {"reject", "confirmReturn", "review", "postUpdate"}
\* The in-chat quote flow, and the one other route that writes its rows.
QuoteRoutes == QuoteFlowOps \cup {"updateQuote"}
AllRoutes == Op

Symmetry == Permutations(RequestId) \cup Permutations(BookingId)
               \cup Permutations(QuoteId)
=============================================================================
