------------------------------ MODULE MCCheckout ------------------------------
(* Two deliveries of a request, one of a request that locks the same two   *)
(* products in the opposite order, one of a request that reuses the first  *)
(* one's client_transaction_id with another payload.                       *)
EXTENDS Checkout

CONSTANTS c1, c2, c3, c4, a1, a2, rice, egg, tea, i1, i2

Line(product, qty) == [product |-> product, qty |-> qty]

MCLines == [A |-> <<Line(rice, 1), Line(egg, 1), Line(rice, 1)>>,
            B |-> <<Line(egg, 1), Line(tea, 1), Line(rice, 1)>>,
            X |-> <<Line(tea, 1)>>]

MCRequest == DOMAIN MCLines
MCCid == {i1, i2}
MCCidOf == [A |-> i1, B |-> i2, X |-> i1]
MCRest == [r \in MCRequest |-> "shift"]
MCTender == [A |-> 5, B |-> 9, X |-> 9]

MCProduct == {rice, egg, tea}
MCTracked == {rice, egg}
MCOnePrice == [p \in MCProduct |-> {1}]
MCPrice == (rice :> {1, 2}) @@ (egg :> {1}) @@ (tea :> {1})

MCReqOf == [c \in Call |-> IF c = c3 THEN "B" ELSE IF c = c4 THEN "X" ELSE "A"]
MCInitStock == (rice :> 3) @@ (egg :> 1) @@ (tea :> NoRow)

MCAdjProduct == [a \in Adj |-> IF a = a1 THEN egg ELSE rice]
MCAdjType == [a \in Adj |-> IF a = a1 THEN "ADD" ELSE "DEDUCT"]
MCAdjQty == [a \in Adj |-> 1]

\* egg has no row until the first adjustment adds it.
MCNoEgg == (rice :> 3) @@ (egg :> NoRow) @@ (tea :> NoRow)

\* Deliveries of one request beside the adjustments; orders that lock the same
\* products in opposite orders; a request whose id is reused by another.
MCTogether == {{c1, c2, a1, a2}, {c1, c3, a1}, {c1, c2, c4, a1}}

\* A resend alone, and two orders alone.
MCRetry == {{c1, c2}}
MCOrders == {{c1, c3}}
===============================================================================
