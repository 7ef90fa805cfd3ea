----------------------------- MODULE HeldCheckout -----------------------------
(***************************************************************************)
(* POST /held-orders/:id/checkout (HeldOrdersService.checkout and          *)
(* convertHeldOrder, with the sale core executeTransactionCore inside) of  *)
(* one shift and cashier, beside edits and cancellations of the same       *)
(* orders and direct sales (POST /transactions) that may use the same      *)
(* client_transaction_id.                                                  *)
(*                                                                         *)
(* A conversion is a Serializable transaction, run at most three times.    *)
(* It reads the snapshot of its first statement, view[c]; its update of a  *)
(* row that changed after that snapshot fails with P2034, and so may any   *)
(* of its statements, for a stock row or a dependency that is not modelled *)
(* here.  Edits and direct sales are READ COMMITTED.  What a transaction   *)
(* has inserted or locked is read off its program counter; COMMIT          *)
(* publishes it.                                                           *)
(*                                                                         *)
(* The shift stays OPEN and the body of an order can be sold; closing is   *)
(* in ShiftHeldOrder, products, stock and prices are in Checkout.          *)
(***************************************************************************)
EXTENDS Naturals, FiniteSets

CONSTANTS
  Order, Cid,
  Body,       \* what an order holds: products, quantities, options, notes
  FirstBody,  \* FirstBody[o]: the body that o is created with
  Convert,    \* deliveries of POST /held-orders/:id/checkout
  Sell,       \* deliveries of POST /transactions
  Edit,       \* deliveries of PATCH /held-orders/:id and of its cancel
  target,     \* target[c]: the order of a conversion or an edit
  expected,   \* expected[c]: its expected_version
  cid,        \* cid[c]: the client_transaction_id of a conversion or a sale
  pay,        \* pay[c]: its payment
  body,       \* body[c]: what a sale sells, or an edit puts in the order
  Together,   \* the sets of deliveries that may come
  NoSale, NoBody   \* body[c] = NoBody: the edit is a cancellation

VARIABLES
  order,    \* order[o]: status, version, body, converted_transaction_id
  sales,    \* sales[i]: the COMPLETED transaction under i, and who made it
  pc, try,  \* of every delivery
  view,     \* view[c]: the order and the sale in the snapshot of conversion c
  answer

vars == <<order, sales, pc, try, view, answer>>

Call == Convert \cup Sell \cup Edit
Payer == Convert \cup Sell

ASSUME RequestAssumption ==
  /\ FirstBody \in [Order -> Body]
  /\ target \in [Convert \cup Edit -> Order]
  /\ expected \in [Convert \cup Edit -> Nat \ {0}]
  /\ cid \in [Payer -> Cid]
  /\ DOMAIN pay = Payer
  /\ body \in [Sell \cup Edit -> Body \cup {NoBody}]
  /\ \A d \in Sell : body[d] # NoBody

ASSUME DeliveryAssumption ==
  /\ Convert \cap Sell = {} /\ Convert \cap Edit = {} /\ Sell \cap Edit = {}
  /\ NoBody \notin Body
  /\ NoSale \notin Cid
  /\ NoSale \notin [body : Body, pay : {pay[c] : c \in Payer}, by : Payer]

-----------------------------------------------------------------------------

Row == [status : {"OPEN", "CONVERTED", "CANCELLED"}, version : Nat,
        body : Body, sale : Cid \cup {NoSale}]
SaleRow == [body : Body, pay : {pay[c] : c \in Payer}, by : Payer]

NoView(c) == [order |-> order[target[c]], sale |-> NoSale]

\* "lost": a 500, or no answer at all; "retry": TRANSACTION_RETRY_REQUIRED.
AnswerKind == {"none", "fresh", "replay", "edited", "lost", "retry", "mismatch",
               "notOpen", "stale", "noLink", "otherLink"}

TypeOK ==
  /\ order \in [Order -> Row]
  /\ sales \in [Cid -> SaleRow \cup {NoSale}]
  /\ pc \in [Call -> {"unsent", "read", "claim", "sell", "insert", "cas",
                      "commit", "reply", "done"}]
  /\ try \in [Payer -> 1..3]
  /\ view \in [Convert -> [order : Row, sale : SaleRow \cup {NoSale}]]
  /\ answer \in [Call -> AnswerKind]

Init ==
  /\ order = [o \in Order |-> [status |-> "OPEN", version |-> 1,
                               body |-> FirstBody[o], sale |-> NoSale]]
  /\ sales = [i \in Cid |-> NoSale]
  /\ \E coming \in Together :
       pc = [c \in Call |-> IF c \in coming THEN "unsent" ELSE "done"]
  /\ try = [c \in Payer |-> 1]
  /\ view = [c \in Convert |-> NoView(c)]
  /\ answer = [c \in Call |-> "none"]

-----------------------------------------------------------------------------

Go(c, label) == pc' = [pc EXCEPT ![c] = label]

\* The end of a delivery: its transaction is over, the client is told.
End(c, told) ==
  /\ Go(c, "done")
  /\ answer' = [answer EXCEPT ![c] = told]
  /\ UNCHANGED <<order, sales, try, view>>

\* Broken variant: the attempts are not counted.
RetryUncounted(c) ==
  /\ Go(c, "read")
  /\ UNCHANGED <<order, sales, try, view, answer>>

\* P2034, or P2002 on uq_transactions_client_id: all of it again, from its
\* first statement, three times at most.
Retry(c) ==
  \/ /\ try[c] < 3
     /\ Go(c, "read")
     /\ try' = [try EXCEPT ![c] = try[c] + 1]
     /\ UNCHANGED <<order, sales, view, answer>>
  \/ try[c] = 3 /\ End(c, "retry")

Send(c) ==
  /\ pc[c] = "unsent"
  /\ Go(c, "read")
  /\ UNCHANGED <<order, sales, try, view, answer>>

\* The row lock of a claimed order, and an uncommitted transactions row.
HoldsOrder(c, o) ==
  c \in Convert /\ target[c] = o /\ pc[c] \in {"sell", "commit"}

Inserted(c, i) ==
  /\ c \in Payer /\ cid[c] = i /\ pc[c] = "commit"
  /\ c \in Convert => view[c].sale = NoSale

Same(s, theBody, thePay) == s.body = theBody /\ s.pay = thePay

-----------------------------------------------------------------------------
(* convertHeldOrder.                                                       *)

\* A converted order is answered from its linked transaction, whose payment
\* must be the requested one; expected_version is not looked at.
ReplayAnswer(c) ==
  LET o == order[target[c]]
      s == sales[cid[c]]
  IN CASE s = NoSale -> "noLink"
       [] o.sale # cid[c] -> "otherLink"
       [] s.pay # pay[c] -> "mismatch"
       [] OTHER -> "replay"

\* The first statement takes the snapshot that decides how the attempt goes on.
ReadOrder(c) ==
  LET o == order[target[c]] IN
  /\ pc[c] = "read"
  /\ \/ o.status = "CONVERTED" /\ ReplayAnswer(c) # "replay" /\ End(c, ReplayAnswer(c))
     \/ o.status = "CANCELLED" /\ End(c, "notOpen")
     \/ o.status = "OPEN" /\ o.version # expected[c] /\ End(c, "stale")
     \/ /\ \/ o.status = "CONVERTED" /\ ReplayAnswer(c) = "replay" /\ Go(c, "reply")
           \/ o.status = "OPEN" /\ o.version = expected[c] /\ Go(c, "claim")
        /\ view' = [view EXCEPT ![c] = [order |-> o, sale |-> sales[cid[c]]]]
        /\ UNCHANGED <<order, sales, try, answer>>

\* Broken variant: READ COMMITTED, and a WHERE clause without the version.
ClaimAnyVersion(c) ==
  /\ pc[c] = "claim"
  /\ ~\E d \in Call \ {c} : HoldsOrder(d, target[c])
  /\ \/ order[target[c]].status = "OPEN" /\ Go(c, "sell")
        /\ UNCHANGED <<order, sales, try, view, answer>>
     \/ order[target[c]].status # "OPEN" /\ End(c, "stale")

\* Broken variant: no claim, the order is only written at the end.
ClaimNone(c) ==
  /\ pc[c] = "claim"
  /\ Go(c, "sell")
  /\ UNCHANGED <<order, sales, try, view, answer>>

\* The claim locks the order; P2034 if it changed after the snapshot.
Claim(c) ==
  /\ pc[c] = "claim"
  /\ ~\E d \in Call \ {c} : HoldsOrder(d, target[c])
  /\ \/ order[target[c]] = view[c].order /\ Go(c, "sell")
        /\ UNCHANGED <<order, sales, try, view, answer>>
     \/ order[target[c]] # view[c].order /\ Retry(c)

\* The sale core: a transaction under the same client_transaction_id is taken
\* for the sale of this order if its payload is the same, else one is inserted.
SellOrder(c) ==
  LET i == cid[c]
      s == view[c].sale
  IN
  /\ pc[c] = "sell"
  /\ \/ s # NoSale /\ Same(s, view[c].order.body, pay[c]) /\ Go(c, "commit")
        /\ UNCHANGED <<order, sales, try, view, answer>>
     \/ s # NoSale /\ ~Same(s, view[c].order.body, pay[c]) /\ End(c, "mismatch")
     \/ /\ s = NoSale
        /\ ~\E d \in Call \ {c} : Inserted(d, i)
        /\ \/ sales[i] = NoSale /\ Go(c, "commit")
              /\ UNCHANGED <<order, sales, try, view, answer>>
           \/ sales[i] # NoSale /\ Retry(c)                      \* P2002

\* The terminal update and COMMIT.  The update finds the row as the claim left
\* it, so HELD_ORDER_RESOURCE_CONFLICT is never answered.
CommitOrder(c) ==
  LET i == cid[c]
      o == target[c]
  IN
  /\ pc[c] = "commit"
  /\ order' = [order EXCEPT ![o] =
                 [status |-> "CONVERTED", version |-> expected[c] + 1,
                  body |-> order[o].body, sale |-> i]]
  /\ \/ /\ view[c].sale = NoSale
        /\ sales' = [sales EXCEPT ![i] =
                       [body |-> view[c].order.body, pay |-> pay[c], by |-> c]]
     \/ view[c].sale # NoSale /\ UNCHANGED sales
  /\ Go(c, "reply")
  /\ UNCHANGED <<try, view, answer>>

\* A serialization failure or a deadlock on a row that is not modelled.
Conflict(c) == pc[c] \in {"read", "claim", "sell", "commit"} /\ Retry(c)

\* replayed tells which branch the attempt took; the client may not hear it.
ReplyOrder(c) ==
  LET told == IF view[c].order.status = "OPEN" THEN "fresh" ELSE "replay" IN
  /\ pc[c] = "reply"
  /\ End(c, told) \/ End(c, "lost")

-----------------------------------------------------------------------------
(* TransactionsService.create, as far as it meets conversions.             *)

ReadSale(d) ==
  LET s == sales[cid[d]] IN
  /\ pc[d] = "read"
  /\ \/ s # NoSale /\ ~Same(s, body[d], pay[d]) /\ End(d, "mismatch")
     \/ /\ \/ s = NoSale /\ Go(d, "insert")
           \/ s # NoSale /\ Same(s, body[d], pay[d]) /\ Go(d, "reply")
        /\ UNCHANGED <<order, sales, try, view, answer>>

InsertSale(d) ==
  LET i == cid[d] IN
  /\ pc[d] = "insert"
  /\ ~\E e \in Call \ {d} : Inserted(e, i)
  /\ \/ /\ sales[i] = NoSale
        /\ Go(d, "commit")
        /\ UNCHANGED <<order, sales, try, view, answer>>
     \/ sales[i] # NoSale /\ Retry(d)

CommitSale(d) ==
  /\ pc[d] = "commit"
  /\ sales' = [sales EXCEPT ![cid[d]] = [body |-> body[d], pay |-> pay[d], by |-> d]]
  /\ Go(d, "reply")
  /\ UNCHANGED <<order, try, view, answer>>

ReplySale(d) == pc[d] = "reply" /\ (End(d, "fresh") \/ End(d, "lost"))

-----------------------------------------------------------------------------
(* HeldOrdersService.update and cancel.                                    *)

ReadEdit(e) ==
  LET o == order[target[e]] IN
  /\ pc[e] = "read"
  /\ \/ o.status # "OPEN" /\ End(e, "notOpen")
     \/ o.status = "OPEN" /\ o.version # expected[e] /\ End(e, "stale")
     \/ /\ o.status = "OPEN" /\ o.version = expected[e]
        /\ Go(e, "cas")
        /\ UNCHANGED <<order, sales, try, view, answer>>

\* The row that the edit writes: CANCELLED, or with its new items.
Edited(e) ==
  LET o == order[target[e]] IN
  IF body[e] = NoBody
  THEN [o EXCEPT !.status = "CANCELLED", !.version = @ + 1]
  ELSE [o EXCEPT !.body = body[e], !.version = @ + 1]

\* The conditional update, the new items, and COMMIT.
EditCas(e) ==
  LET o == order[target[e]]
      current == o.status = "OPEN" /\ o.version = expected[e]
  IN
  /\ pc[e] = "cas"
  /\ ~\E d \in Call : HoldsOrder(d, target[e])
  /\ \/ /\ current
        /\ order' = [order EXCEPT ![target[e]] = Edited(e)]
        /\ Go(e, "reply")
        /\ UNCHANGED <<sales, try, view, answer>>
     \/ ~current /\ End(e, "stale")

ReplyEdit(e) == pc[e] = "reply" /\ (End(e, "edited") \/ End(e, "lost"))

-----------------------------------------------------------------------------

\* A domain error that is not modelled, a 500, the transaction timeout, a lost
\* connection or a crash of the server, before COMMIT.
Rollback(c) ==
  /\ pc[c] \in {"read", "claim", "sell", "insert", "cas", "commit"}
  /\ End(c, "lost")

ServeConvert(c) ==
  ReadOrder(c) \/ Claim(c) \/ SellOrder(c) \/ CommitOrder(c) \/ ReplyOrder(c)
ServeSell(d) == ReadSale(d) \/ InsertSale(d) \/ CommitSale(d) \/ ReplySale(d)
ServeEdit(e) == ReadEdit(e) \/ EditCas(e) \/ ReplyEdit(e)

Next ==
  \/ \E c \in Call : Send(c) \/ Rollback(c)
  \/ \E c \in Convert : ServeConvert(c) \/ Conflict(c)
  \/ \E d \in Sell : ServeSell(d)
  \/ \E e \in Edit : ServeEdit(e)

Spec == Init /\ [][Next]_vars

\* Every statement that can run is run.  Nothing is assumed of new requests,
\* nor of failures and conflicts: they may happen as often as they can.
FairSpec ==
  /\ Spec
  /\ \A c \in Convert : WF_vars(ServeConvert(c))
  /\ \A d \in Sell : WF_vars(ServeSell(d))
  /\ \A e \in Edit : WF_vars(ServeEdit(e))

-----------------------------------------------------------------------------

\* A converted order is linked to a recorded sale of exactly what the order
\* holds, however its edits raced with the conversion.
ConvertedOrderSold ==
  \A o \in Order :
    order[o].status = "CONVERTED" =>
      /\ order[o].sale # NoSale /\ sales[order[o].sale] # NoSale
      /\ sales[order[o].sale].body = order[o].body

\* A sale that a conversion has made is the one its order is linked to: an
\* order is never sold twice, whatever ids its deliveries carry, and no sale
\* is left behind by a conversion that did not take effect.
ConversionIsAtomic ==
  \A i \in Cid :
    sales[i] # NoSale /\ sales[i].by \in Convert =>
      order[target[sales[i].by]].sale = i

\* A conversion that was answered with a sale was answered with the sale of
\* its order, paid as it asked; a fresh one took effect at the version that the
\* client had seen, and only one delivery is told that it converted the order.
AnswersAgree ==
  \A c \in Convert :
    answer[c] \in {"fresh", "replay"} =>
      LET o == order[target[c]] IN
      /\ o.status = "CONVERTED" /\ o.sale = cid[c] /\ sales[cid[c]].pay = pay[c]
      /\ answer[c] = "fresh" =>
           /\ o.version = expected[c] + 1
           /\ \A d \in Convert \ {c} : target[d] = target[c] => answer[d] # "fresh"

\* Neither a terminal order nor a recorded sale ever changes.
HistoryFrozen ==
  [][/\ \A o \in Order : order[o].status # "OPEN" => order'[o] = order[o]
     /\ \A i \in Cid : sales[i] # NoSale => sales'[i] = sales[i]]_vars

\* Every conversion is answered or dropped, even if all it meets is conflicts.
EveryConversionEnds == \A c \in Convert : pc[c] = "read" ~> pc[c] = "done"

\* replayed = false: the sale core created a new transaction (the comment of
\* CheckoutHeldOrderResponseDto).
FreshMadeTheSale ==
  \A c \in Convert : answer[c] = "fresh" => sales[cid[c]].by = c
===============================================================================
