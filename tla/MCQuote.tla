-------------------------------- MODULE MCQuote --------------------------------
(* A product with a group of two options and one of an extra, and a plain  *)
(* one; amounts up to 40 and a tax of 12.5 %, so that halves, zeroes and   *)
(* the upper end of the range all occur.                                   *)
EXTENDS Quote

CONSTANTS p1, p2, ga, gb, o1, o2, o3

MCGroupOf == (o1 :> ga) @@ (o2 :> ga) @@ (o3 :> gb)
MCProductData == {[name |-> "new", price |-> 0, cost |-> 2], [name |-> "new", price |-> 7, cost |-> 5]}
MCFirstProduct == (p1 :> [name |-> "old", price |-> 4, cost |-> 2])
               @@ (p2 :> [name |-> "old", price |-> 15, cost |-> 2])
MCFirstOption == [o \in Option |-> [delta |-> IF o = o1 THEN 0 ELSE 3, active |-> TRUE]]
MCFirstAssigned ==
  {(p1 :> ((ga :> kind) @@ (gb :> "multiple"))) @@ (p2 :> ((ga :> "none") @@ (gb :> "none"))) :
     kind \in {"optionalSingle", "requiredSingle"}}
MCRates == {[enabled |-> TRUE, basisPoints |-> 1250], [enabled |-> FALSE, basisPoints |-> 1250]}

Line(p, opts, n, note) == [product |-> p, options |-> opts, quantity |-> n, note |-> note]
MCCarts ==
  {<<Line(p1, {o1}, 1, Nothing)>>,
   <<Line(p1, {o1, o2}, 1, Nothing)>>,
   <<Line(p1, {o1, o3}, 1, ""), Line(p2, {}, 2, Nothing)>>,
   <<Line(p2, {}, 2, Nothing), Line(p1, {o1, o3}, 1, "")>>,
   <<Line(p2, {}, 1, Nothing), Line(p2, {}, 1, Nothing)>>,
   <<Line(p2, {}, 1, Nothing)>>,
   <<Line(p1, {}, 1, Nothing), Line(p2, {}, 1, Nothing)>>}
MCOldCarts == {<<Line(p2, {}, 1, Nothing)>>}
Pay(m, a, r) == [method |-> m, amount |-> a, received |-> r]
MCPayments == {Pay("CASH", Nothing, 40), Pay("CASH", 40, Nothing), Pay("QRIS", Nothing, Nothing)}
MCSent ==
  {[role |-> IF d = 0 THEN "CASHIER" ELSE "OWNER", lines |-> cart, discount |-> d, payment |-> pay] :
     d \in {0, 4}, cart \in {c \in MCCarts : Len(c) = 2 /\ c[2].product = p2 /\ c[1] # Line(p1, {}, 1, Nothing)},
     pay \in {Pay("CASH", 40, Nothing)}}
  \cup
  {[role |-> "CASHIER", lines |-> <<Line(p2, {}, 1, Nothing)>>, discount |-> d,
    payment |-> Pay("QRIS", Nothing, Nothing)] : d \in {0, 4}}
===============================================================================
