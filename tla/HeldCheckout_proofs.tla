-------------------------- MODULE HeldCheckout_proofs --------------------------
(***************************************************************************)
(* Proofs about HeldCheckout for any orders, ids and deliveries.           *)
(***************************************************************************)
EXTENDS HeldCheckout, TLAPS

USE RequestAssumption, DeliveryAssumption

-----------------------------------------------------------------------------
(* The invariant.                                                          *)

Attempt == {"claim", "sell", "commit"}
Holding == {"sell", "commit"}

\* The row lock of an order has one holder.
Holders ==
  \A c, d \in Convert :
    target[c] = target[d] /\ pc[c] \in Holding /\ pc[d] \in Holding => c = d

\* An attempt goes on because its snapshot has the order OPEN at the expected
\* version; from the claim on, the snapshot is the row.
Claimed ==
  \A c \in Convert :
    /\ pc[c] \in Attempt =>
         view[c].order.status = "OPEN" /\ view[c].order.version = expected[c]
    /\ pc[c] \in Holding => view[c].order = order[target[c]]

\* A sale in a snapshot is there for good, and was compared before COMMIT.
Viewed ==
  \A c \in Convert :
    view[c].sale # NoSale =>
      /\ pc[c] \in Attempt => sales[cid[c]] = view[c].sale
      /\ pc[c] = "commit" => Same(view[c].sale, view[c].order.body, pay[c])

\* An uncommitted transactions row is the only one under its id.
Inserters ==
  \A c \in Payer :
    Inserted(c, cid[c]) =>
      /\ sales[cid[c]] = NoSale
      /\ \A d \in Payer : Inserted(d, cid[c]) => d = c

\* The order that a conversion sold is converted, and to that sale.
SaleOfOrder ==
  \A i \in Cid :
    sales[i] # NoSale /\ sales[i].by \in Convert =>
      /\ order[target[sales[i].by]].status = "CONVERTED"
      /\ order[target[sales[i].by]].sale = i

\* c is to be answered, or was answered, with the sale of its order.
Answering(c) == pc[c] = "reply" \/ answer[c] \in {"fresh", "replay"}
Fresh(c) == (pc[c] = "reply" /\ view[c].order.status = "OPEN") \/ answer[c] = "fresh"

Answered ==
  \A c \in Convert :
    /\ Answering(c) =>
         /\ order[target[c]].status = "CONVERTED" /\ order[target[c]].sale = cid[c]
         /\ sales[cid[c]] # NoSale /\ sales[cid[c]].pay = pay[c]
    /\ Fresh(c) =>
         /\ order[target[c]].version = expected[c] + 1
         /\ \A d \in Convert : target[d] = target[c] /\ Fresh(d) => d = c

Locking == Holders /\ Claimed /\ Viewed /\ Inserters
History == ConvertedOrderSold /\ SaleOfOrder /\ Answered
IInv == TypeOK /\ Locking /\ History

LEMMA InitIInv == Init => IInv
  BY DEF Init, IInv, TypeOK, Locking, Holders, Claimed, Viewed, Inserters, Inserted,
         History, ConvertedOrderSold, SaleOfOrder, Answered, Answering, Fresh, Call, Payer,
         Row, SaleRow, NoView, AnswerKind, Attempt, Holding

-----------------------------------------------------------------------------
(* The steps that leave orders, sales and snapshots alone.                 *)

\* A delivery that goes on; told is what it was told before, or is told now.
Moves(c, label, told) ==
  /\ pc' = [pc EXCEPT ![c] = label]
  /\ answer' = [answer EXCEPT ![c] = told]
  /\ try' \in [Payer -> 1..3]

\* A conversion that gives up or starts again, a sale that has not inserted.
Quiet(c, label, told) ==
  /\ Moves(c, label, told)
  /\ label \in {"read", "insert", "cas", "reply", "done"} /\ told \in AnswerKind
  /\ c \in Convert => /\ label # "reply"
                      /\ (told = answer[c] \/ told \notin {"fresh", "replay"})
  /\ UNCHANGED <<order, sales, view>>

LEMMA MovesOne ==
  ASSUME TypeOK, NEW c \in Call, NEW label, NEW told, Moves(c, label, told)
  PROVE  \A d \in Call :
           /\ pc'[d] = IF d = c THEN label ELSE pc[d]
           /\ answer'[d] = IF d = c THEN told ELSE answer[d]
  BY DEF TypeOK, Moves

LEMMA QuietStep ==
  ASSUME IInv, NEW c \in Call, NEW label, NEW told, Quiet(c, label, told)
  PROVE  IInv'
<1>1. TypeOK'
  BY DEF IInv, TypeOK, Quiet, Moves
<1>2. /\ \A d \in Call : pc'[d] = IF d = c THEN label ELSE pc[d]
      /\ \A d \in Call : answer'[d] = IF d = c THEN told ELSE answer[d]
      /\ order' = order /\ sales' = sales /\ view' = view
      /\ label \notin Attempt
      /\ c \in Convert => /\ label # "reply"
                          /\ (told = answer[c] \/ told \notin {"fresh", "replay"})
  BY MovesOne DEF IInv, Quiet, Attempt
<1>3. Locking'
  BY <1>2 DEF IInv, Locking, Holders, Claimed, Viewed, Inserters, Inserted, Attempt,
              Holding, Call, Payer
<1>4. History'
  BY <1>2 DEF IInv, History, ConvertedOrderSold, SaleOfOrder, Answered, Answering,
              Fresh, Call
<1> QED BY <1>1, <1>3, <1>4 DEF IInv

LEMMA EndStep ==
  ASSUME IInv, NEW c \in Call, NEW told \in AnswerKind, End(c, told),
         c \in Convert => told \notin {"fresh", "replay"}
  PROVE  IInv'
<1>1. Quiet(c, "done", told)
  BY DEF End, Go, Quiet, Moves, IInv, TypeOK
<1> QED BY <1>1, QuietStep

LEMMA RetryStep ==
  ASSUME IInv, NEW c \in Payer, Retry(c)
  PROVE  IInv'
<1>1. c \in Call BY DEF Payer, Call
<1>2. CASE try[c] = 3 /\ End(c, "retry")
  BY <1>1, <1>2, EndStep DEF AnswerKind
<1>3. CASE ~(try[c] = 3 /\ End(c, "retry"))
  <2>1. try[c] \in 1..3 BY DEF IInv, TypeOK
  <2>2. try' \in [Payer -> 1..3] BY <1>3, <2>1 DEF Retry, IInv, TypeOK
  <2>3. Quiet(c, "read", answer[c])
    BY <1>1, <1>3, <2>2 DEF Retry, Go, Quiet, Moves, IInv, TypeOK
  <2> QED BY <1>1, <2>3, QuietStep
<1> QED BY <1>2, <1>3

-----------------------------------------------------------------------------
(* Conversions.                                                            *)

LEMMA ReadOrderStep ==
  ASSUME IInv, NEW c \in Convert, ReadOrder(c)
  PROVE  IInv'
<1> DEFINE o == order[target[c]]
           s == sales[cid[c]]
           seen == [order |-> o, sale |-> s]
           GoesOn ==
             /\ \/ o.status = "CONVERTED" /\ ReplayAnswer(c) = "replay" /\ Go(c, "reply")
                \/ o.status = "OPEN" /\ o.version = expected[c] /\ Go(c, "claim")
             /\ view' = [view EXCEPT ![c] = seen]
             /\ UNCHANGED <<order, sales, try, answer>>
<1>0. c \in Call /\ c \in Payer BY DEF Call, Payer
<1>1. CASE \E told \in AnswerKind \ {"fresh", "replay"} : End(c, told)
  BY <1>0, <1>1, EndStep
<1>2. CASE GoesOn
  <2>1. o \in Row /\ s \in SaleRow \cup {NoSale}
    BY <1>0 DEF IInv, TypeOK
  <2>2. PICK label \in {"reply", "claim"} :
          /\ Go(c, label)
          /\ label = "reply" => o.status = "CONVERTED" /\ ReplayAnswer(c) = "replay"
          /\ label = "claim" => o.status = "OPEN" /\ o.version = expected[c]
    BY <1>2
  <2>3. TypeOK'
    BY <1>0, <1>2, <2>1, <2>2 DEF IInv, TypeOK, Go
  <2>4. /\ \A d \in Call : pc'[d] = IF d = c THEN label ELSE pc[d]
        /\ \A d \in Convert : view'[d] = IF d = c THEN seen ELSE view[d]
        /\ order' = order /\ sales' = sales /\ answer' = answer
    BY <1>0, <1>2, <2>2 DEF IInv, TypeOK, Go
  <2>5. label = "reply" => o.sale = cid[c] /\ s # NoSale /\ s.pay = pay[c]
    BY <2>2 DEF ReplayAnswer
  <2>6. seen.order = o /\ seen.sale = s
    OBVIOUS
  <2> HIDE DEF seen
  <2>7. Locking'
    BY <1>0, <2>2, <2>4, <2>6 DEF IInv, Locking, Holders, Claimed, Viewed, Inserters,
       Inserted, Attempt, Holding, Call, Payer
  <2>8. History'
    BY <1>0, <2>2, <2>4, <2>5, <2>6 DEF IInv, History, ConvertedOrderSold, SaleOfOrder,
       Answered, Answering, Fresh, Call
  <2> QED BY <2>3, <2>7, <2>8 DEF IInv
<1>3. ReplayAnswer(c) \in {"noLink", "otherLink", "mismatch", "replay"}
  BY DEF ReplayAnswer
<1>4. GoesOn \/ \E told \in {"noLink", "otherLink", "mismatch", "notOpen", "stale"} : End(c, told)
  BY <1>3 DEF ReadOrder
<1> HIDE DEF GoesOn
<1> QED BY <1>1, <1>2, <1>4 DEF AnswerKind

\* A conversion that goes from label to label within its attempt.
LEMMA OnwardStep ==
  ASSUME IInv, NEW c \in Convert, NEW label \in Holding, Go(c, label),
         pc[c] \in Attempt,
         UNCHANGED <<order, sales, try, view, answer>>,
         view[c].order = order[target[c]],
         \A d \in Convert \ {c} : ~HoldsOrder(d, target[c]),
         label = "commit" =>
           IF view[c].sale = NoSale
           THEN sales[cid[c]] = NoSale /\ ~\E d \in Call \ {c} : Inserted(d, cid[c])
           ELSE Same(view[c].sale, view[c].order.body, pay[c])
  PROVE  IInv'
<1>0. c \in Call /\ c \in Payer BY DEF Call, Payer
<1>1. /\ \A d \in Call : pc'[d] = IF d = c THEN label ELSE pc[d]
      /\ order' = order /\ sales' = sales /\ answer' = answer /\ view' = view
      /\ label \in {"sell", "commit"}
  BY <1>0 DEF IInv, TypeOK, Go, Holding
<1>2. TypeOK'
  BY <1>0, <1>1 DEF IInv, TypeOK, Go
<1>3. (Holders /\ Claimed /\ Viewed)'
  BY <1>0, <1>1 DEF IInv, Locking, Holders, Claimed, Viewed, Attempt, Holding, Call,
     HoldsOrder
<1>4. Inserters'
  BY <1>0, <1>1 DEF IInv, Locking, Inserters, Inserted, Call, Payer, HoldsOrder
<1>5. History'
  BY <1>0, <1>1 DEF IInv, History, ConvertedOrderSold, SaleOfOrder, Answered, Answering,
     Fresh, Call
<1> QED BY <1>2, <1>3, <1>4, <1>5 DEF IInv, Locking

LEMMA ClaimStep ==
  ASSUME IInv, NEW c \in Convert, Claim(c)
  PROVE  IInv'
<1>0. c \in Payer BY DEF Payer
<1>1. CASE order[target[c]] # view[c].order /\ Retry(c)
  BY <1>0, <1>1, RetryStep
<1>2. CASE order[target[c]] = view[c].order /\ Go(c, "sell")
           /\ UNCHANGED <<order, sales, try, view, answer>>
  BY <1>2, OnwardStep DEF Claim, Attempt, Holding, Call
<1> QED BY <1>1, <1>2 DEF Claim

LEMMA SellOrderStep ==
  ASSUME IInv, NEW c \in Convert, SellOrder(c)
  PROVE  IInv'
<1>0. c \in Payer /\ c \in Call /\ pc[c] = "sell" BY DEF Payer, Call, SellOrder
<1>1. CASE End(c, "mismatch")
  BY <1>0, <1>1, EndStep DEF AnswerKind
<1>2. CASE Retry(c)
  BY <1>0, <1>2, RetryStep
<1>3. CASE /\ Go(c, "commit") /\ UNCHANGED <<order, sales, try, view, answer>>
           /\ IF view[c].sale = NoSale
              THEN sales[cid[c]] = NoSale /\ ~\E d \in Call \ {c} : Inserted(d, cid[c])
              ELSE Same(view[c].sale, view[c].order.body, pay[c])
  <2>1. view[c].order = order[target[c]]
    BY <1>0 DEF IInv, Locking, Claimed, Holding
  <2>2. \A d \in Convert \ {c} : ~HoldsOrder(d, target[c])
    BY <1>0 DEF IInv, Locking, Holders, HoldsOrder, Holding
  <2> QED BY <1>0, <1>3, <2>1, <2>2, OnwardStep DEF Attempt, Holding
<1> QED BY <1>1, <1>2, <1>3 DEF SellOrder

LEMMA CommitOrderStep ==
  ASSUME IInv, NEW c \in Convert, CommitOrder(c)
  PROVE  IInv'
<1> DEFINE o == target[c]
           i == cid[c]
           converted == [status |-> "CONVERTED", version |-> expected[c] + 1,
                         body |-> order[o].body, sale |-> i]
           sold == IF view[c].sale = NoSale
                   THEN [body |-> view[c].order.body, pay |-> pay[c], by |-> c]
                   ELSE view[c].sale
<1>0. c \in Call /\ c \in Payer /\ o \in Order /\ i \in Cid /\ pc[c] = "commit"
  BY DEF Call, Payer, CommitOrder
<1>1. /\ view[c].order = order[o] /\ order[o].status = "OPEN"
      /\ order[o].version = expected[c]
  BY <1>0 DEF IInv, Locking, Claimed, Attempt, Holding
<1>2. IF view[c].sale = NoSale THEN sales[i] = NoSale
      ELSE sales[i] = view[c].sale /\ Same(view[c].sale, order[o].body, pay[c])
  BY <1>0, <1>1 DEF IInv, Locking, Viewed, Inserters, Inserted, Attempt
<1>3. /\ order[o] \in Row /\ view[c].sale \in SaleRow \cup {NoSale}
      /\ order[o].body \in Body /\ pay[c] \in {pay[d] : d \in Payer}
      /\ expected[c] + 1 \in Nat
  BY <1>0 DEF IInv, TypeOK, Row, Payer
<1>4. converted \in Row
  BY <1>0, <1>3 DEF Row
<1>5. sold \in SaleRow /\ sold # NoSale
  BY <1>0, <1>1, <1>3 DEF SaleRow
<1>6. sold.body = order[o].body /\ sold.pay = pay[c]
  BY <1>1, <1>2 DEF Same
<1>7. /\ converted.status = "CONVERTED" /\ converted.version = expected[c] + 1
      /\ converted.body = order[o].body /\ converted.sale = i
  OBVIOUS
<1>8. view[c].sale = NoSale => sold.by = c
  OBVIOUS
<1>9. /\ order' = [order EXCEPT ![o] = converted]
      /\ IF view[c].sale = NoSale THEN sales' = [sales EXCEPT ![i] = sold] ELSE sales' = sales
      /\ pc' = [pc EXCEPT ![c] = "reply"]
      /\ UNCHANGED <<try, view, answer>>
  BY DEF CommitOrder, Go
<1> HIDE DEF converted, sold
<1>10. TypeOK'
  BY <1>0, <1>4, <1>5, <1>9 DEF IInv, TypeOK
<1>11. /\ \A d \in Call : pc'[d] = IF d = c THEN "reply" ELSE pc[d]
       /\ \A x \in Order : order'[x] = IF x = o THEN converted ELSE order[x]
       /\ \A x \in Cid : sales'[x] = IF x = i THEN sold ELSE sales[x]
       /\ view' = view /\ answer' = answer
  <2>1. view[c].sale # NoSale => sold = sales[i]
    BY <1>2 DEF sold
  <2> QED BY <1>0, <1>9, <2>1 DEF IInv, TypeOK
<1>12. (Holders /\ Claimed)'
  BY <1>0, <1>11 DEF IInv, Locking, Holders, Claimed, Attempt, Holding, Call
<1>13. Viewed'
  BY <1>0, <1>2, <1>11 DEF IInv, Locking, Viewed, Attempt, Call, Payer, sold
<1>14. Inserters'
  BY <1>0, <1>2, <1>11 DEF IInv, Locking, Inserters, Inserted, Call, Payer, sold
<1>15. ConvertedOrderSold'
  BY <1>0, <1>2, <1>5, <1>6, <1>7, <1>11 DEF IInv, History, ConvertedOrderSold, TypeOK, Row, sold
<1>16. SaleOfOrder'
  BY <1>0, <1>1, <1>2, <1>7, <1>8, <1>11 DEF IInv, History, SaleOfOrder, sold
<1>17. Answered'
  BY <1>0, <1>1, <1>2, <1>5, <1>6, <1>7, <1>11 DEF IInv, History, Answered, Answering, Fresh,
     Call, Payer, sold
<1> QED BY <1>10, <1>12, <1>13, <1>14, <1>15, <1>16, <1>17 DEF IInv, Locking, History

LEMMA ReplyOrderStep ==
  ASSUME IInv, NEW c \in Convert, ReplyOrder(c)
  PROVE  IInv'
<1> DEFINE told == IF view[c].order.status = "OPEN" THEN "fresh" ELSE "replay"
<1>0. c \in Call /\ pc[c] = "reply" BY DEF Call, ReplyOrder
<1>1. CASE End(c, "lost")
  BY <1>0, <1>1, EndStep DEF AnswerKind
<1>2. CASE End(c, told)
  <2>1. TypeOK'
    BY <1>0, <1>2 DEF IInv, TypeOK, End, Go, AnswerKind
  <2>2. /\ \A d \in Call : pc'[d] = IF d = c THEN "done" ELSE pc[d]
        /\ \A d \in Call : answer'[d] = IF d = c THEN told ELSE answer[d]
        /\ order' = order /\ sales' = sales /\ view' = view
    BY <1>0, <1>2 DEF IInv, TypeOK, End, Go
  <2>3. told \in {"fresh", "replay"} /\ (told = "fresh" <=> view[c].order.status = "OPEN")
    OBVIOUS
  <2> HIDE DEF told
  <2>4. Locking'
    BY <1>0, <2>2 DEF IInv, Locking, Holders, Claimed, Viewed, Inserters, Inserted, Attempt,
       Holding, Call, Payer
  <2>5. History'
    BY <1>0, <2>2, <2>3 DEF IInv, History, ConvertedOrderSold, SaleOfOrder, Answered,
       Answering, Fresh, Call
  <2> QED BY <2>1, <2>4, <2>5 DEF IInv
<1> QED BY <1>1, <1>2 DEF ReplyOrder

-----------------------------------------------------------------------------
(* Direct sales and edits.                                                 *)

\* A sale or an edit that goes on and writes nothing.
LEMMA BesideStep ==
  ASSUME IInv, NEW d \in Sell \cup Edit, NEW label \in {"read", "insert", "cas", "reply"},
         Go(d, label), UNCHANGED <<order, sales, try, view, answer>>
  PROVE  IInv'
<1>1. d \in Call /\ d \notin Convert BY DEF Call
<1>2. Quiet(d, label, answer[d])
  BY <1>1 DEF Quiet, Moves, Go, IInv, TypeOK
<1> QED BY <1>1, <1>2, QuietStep

LEMMA ReadSaleStep ==
  ASSUME IInv, NEW d \in Sell, ReadSale(d)
  PROVE  IInv'
<1>1. CASE End(d, "mismatch")
  BY <1>1, EndStep DEF AnswerKind, Call
<1>2. CASE \E label \in {"insert", "reply"} :
             Go(d, label) /\ UNCHANGED <<order, sales, try, view, answer>>
  BY <1>2, BesideStep
<1> QED BY <1>1, <1>2 DEF ReadSale

LEMMA InsertSaleStep ==
  ASSUME IInv, NEW d \in Sell, InsertSale(d)
  PROVE  IInv'
<1>0. d \in Call /\ d \in Payer /\ d \notin Convert BY DEF Call, Payer
<1>1. CASE Retry(d)
  BY <1>0, <1>1, RetryStep
<1>2. CASE /\ sales[cid[d]] = NoSale /\ Go(d, "commit")
           /\ UNCHANGED <<order, sales, try, view, answer>>
           /\ ~\E e \in Call \ {d} : Inserted(e, cid[d])
  <2>1. TypeOK'
    BY <1>0, <1>2 DEF IInv, TypeOK, Go
  <2>2. /\ \A e \in Call : pc'[e] = IF e = d THEN "commit" ELSE pc[e]
        /\ order' = order /\ sales' = sales /\ view' = view /\ answer' = answer
    BY <1>0, <1>2 DEF IInv, TypeOK, Go
  <2>3. (Holders /\ Claimed /\ Viewed)'
    BY <1>0, <2>2 DEF IInv, Locking, Holders, Claimed, Viewed, Attempt, Holding, Call
  <2>4. Inserters'
    BY <1>0, <1>2, <2>2 DEF IInv, Locking, Inserters, Inserted, Call, Payer
  <2>5. History'
    BY <1>0, <2>2 DEF IInv, History, ConvertedOrderSold, SaleOfOrder, Answered, Answering,
       Fresh, Call
  <2> QED BY <2>1, <2>3, <2>4, <2>5 DEF IInv, Locking
<1> QED BY <1>1, <1>2 DEF InsertSale

LEMMA CommitSaleStep ==
  ASSUME IInv, NEW d \in Sell, CommitSale(d)
  PROVE  IInv'
<1> DEFINE i == cid[d]
           sold == [body |-> body[d], pay |-> pay[d], by |-> d]
<1>0. d \in Call /\ d \in Payer /\ d \notin Convert /\ i \in Cid /\ pc[d] = "commit"
  BY DEF Call, Payer, CommitSale
<1>1. sales[i] = NoSale /\ \A e \in Payer : Inserted(e, i) => e = d
  BY <1>0 DEF IInv, Locking, Inserters, Inserted
<1>2. sold \in SaleRow /\ sold # NoSale /\ sold.by = d
  <2>1. body[d] \in Body /\ pay[d] \in {pay[e] : e \in Payer}
    BY <1>0
  <2> QED BY <1>0, <2>1 DEF SaleRow
<1>3. sales' = [sales EXCEPT ![i] = sold] /\ pc' = [pc EXCEPT ![d] = "reply"]
      /\ UNCHANGED <<order, try, view, answer>>
  BY DEF CommitSale, Go
<1> HIDE DEF sold
<1>4. TypeOK'
  BY <1>0, <1>2, <1>3 DEF IInv, TypeOK
<1>5. /\ \A e \in Call : pc'[e] = IF e = d THEN "reply" ELSE pc[e]
      /\ \A x \in Cid : sales'[x] = IF x = i THEN sold ELSE sales[x]
      /\ order' = order /\ view' = view /\ answer' = answer
  BY <1>0, <1>3 DEF IInv, TypeOK
<1>6. (Holders /\ Claimed /\ Viewed)'
  BY <1>0, <1>1, <1>5 DEF IInv, Locking, Holders, Claimed, Viewed, Attempt, Holding, Call, Payer
<1>7. Inserters'
  BY <1>0, <1>1, <1>5 DEF IInv, Locking, Inserters, Inserted, Call, Payer
<1>8. ConvertedOrderSold'
  BY <1>0, <1>1, <1>2, <1>5 DEF IInv, History, ConvertedOrderSold, TypeOK, Row
<1>9. SaleOfOrder'
  BY <1>0, <1>2, <1>5 DEF IInv, History, SaleOfOrder
<1>10. Answered'
  BY <1>0, <1>1, <1>5 DEF IInv, History, Answered, Answering, Fresh, Call, Payer
<1> QED BY <1>4, <1>6, <1>7, <1>8, <1>9, <1>10 DEF IInv, Locking, History

LEMMA ReadEditStep ==
  ASSUME IInv, NEW e \in Edit, ReadEdit(e)
  PROVE  IInv'
<1>1. CASE \E told \in {"notOpen", "stale"} : End(e, told)
  BY <1>1, EndStep DEF AnswerKind, Call
<1>2. CASE Go(e, "cas") /\ UNCHANGED <<order, sales, try, view, answer>>
  BY <1>2, BesideStep
<1> QED BY <1>1, <1>2 DEF ReadEdit

LEMMA EditCasStep ==
  ASSUME IInv, NEW e \in Edit, EditCas(e)
  PROVE  IInv'
<1> DEFINE o == target[e]
<1>0. e \in Call /\ e \notin Convert /\ e \notin Payer /\ o \in Order /\ pc[e] = "cas"
  BY DEF Call, Payer, EditCas
<1>1. CASE End(e, "stale")
  BY <1>0, <1>1, EndStep DEF AnswerKind
<1>2. CASE /\ order[o].status = "OPEN" /\ order[o].version = expected[e]
           /\ order' = [order EXCEPT ![o] = Edited(e)] /\ Go(e, "reply")
           /\ UNCHANGED <<sales, try, view, answer>>
           /\ ~\E d \in Call : HoldsOrder(d, o)
  <2>1. order[o] \in Row BY <1>0 DEF IInv, TypeOK
  <2>2. Edited(e) \in Row /\ Edited(e).status # "CONVERTED"
    <3> DEFINE x == order[o]
    <3>1. Edited(e) = IF body[e] = NoBody
                      THEN [x EXCEPT !.status = "CANCELLED", !.version = x.version + 1]
                      ELSE [x EXCEPT !.body = body[e], !.version = x.version + 1]
      BY DEF Edited
    <3>2. x \in Row /\ x.version + 1 \in Nat /\ x.status = "OPEN"
      BY <1>2, <2>1 DEF Row
    <3>3. body[e] # NoBody => body[e] \in Body
      OBVIOUS
    <3> HIDE DEF x
    <3> QED BY <3>1, <3>2, <3>3 DEF Row
  <2>3. TypeOK'
    BY <1>0, <1>2, <2>2 DEF IInv, TypeOK, Go
  <2>4. /\ \A d \in Call : pc'[d] = IF d = e THEN "reply" ELSE pc[d]
        /\ \A x \in Order : order'[x] = IF x = o THEN Edited(e) ELSE order[x]
        /\ sales' = sales /\ view' = view /\ answer' = answer
    BY <1>0, <1>2 DEF IInv, TypeOK, Go
  <2>5. (Holders /\ Viewed)'
    BY <1>0, <2>4 DEF IInv, Locking, Holders, Viewed, Attempt, Holding, Call
  <2>6. Claimed'
    BY <1>0, <1>2, <2>4 DEF IInv, Locking, Claimed, HoldsOrder, Attempt, Holding, Call
  <2>7. Inserters'
    BY <1>0, <2>4 DEF IInv, Locking, Inserters, Inserted, Call, Payer
  <2>8. History'
    BY <1>0, <1>2, <2>2, <2>4 DEF IInv, History, ConvertedOrderSold, SaleOfOrder, Answered,
       Answering, Fresh, Call, Payer
  <2> QED BY <2>3, <2>5, <2>6, <2>7, <2>8 DEF IInv, Locking
<1> QED BY <1>1, <1>2 DEF EditCas

-----------------------------------------------------------------------------

LEMMA IInvStep == IInv /\ [Next]_vars => IInv'
<1> SUFFICES ASSUME IInv, [Next]_vars PROVE IInv'
  OBVIOUS
<1>1. ASSUME NEW c \in Call, Send(c) PROVE IInv'
  <2>1. Quiet(c, "read", answer[c])
    BY <1>1 DEF Send, Go, Quiet, Moves, IInv, TypeOK
  <2> QED BY <2>1, QuietStep
<1>2. ASSUME NEW c \in Call, Rollback(c) PROVE IInv'
  BY <1>2, EndStep DEF Rollback, AnswerKind
<1>3. ASSUME NEW c \in Convert, ServeConvert(c) PROVE IInv'
  BY <1>3, ReadOrderStep, ClaimStep, SellOrderStep, CommitOrderStep, ReplyOrderStep
  DEF ServeConvert
<1>4. ASSUME NEW c \in Convert, Conflict(c) PROVE IInv'
  BY <1>4, RetryStep DEF Conflict, Payer
<1>5. ASSUME NEW d \in Sell, ServeSell(d) PROVE IInv'
  <2>1. ReplySale(d) => IInv'
    BY EndStep DEF ReplySale, AnswerKind, Call
  <2> QED BY <1>5, <2>1, ReadSaleStep, InsertSaleStep, CommitSaleStep DEF ServeSell
<1>6. ASSUME NEW e \in Edit, ServeEdit(e) PROVE IInv'
  <2>1. ReplyEdit(e) => IInv'
    BY EndStep DEF ReplyEdit, AnswerKind, Call
  <2> QED BY <1>6, <2>1, ReadEditStep, EditCasStep DEF ServeEdit
<1>7. CASE UNCHANGED vars
  BY <1>7 DEF vars, IInv, TypeOK, Locking, Holders, Claimed, Viewed, Inserters, Inserted,
     History, ConvertedOrderSold, SaleOfOrder, Answered, Answering, Fresh
<1> QED BY <1>1, <1>2, <1>3, <1>4, <1>5, <1>6, <1>7 DEF Next

\* Types, for any orders and any number of deliveries.
THEOREM TypeCorrect == Spec => []TypeOK
<1>1. IInv => TypeOK BY DEF IInv
<1> QED BY InitIInv, IInvStep, <1>1, PTL DEF Spec

\* A converted order is linked to a recorded sale of exactly what it holds
\* (convertHeldOrder beside update and the sale core).
THEOREM ConvertedIsSold == Spec => []ConvertedOrderSold
<1>1. IInv => ConvertedOrderSold BY DEF IInv, History
<1> QED BY InitIInv, IInvStep, <1>1, PTL DEF Spec

\* A sale that a conversion has made is the one its order is linked to, so no
\* order is sold twice (convertHeldOrder, one transaction).
THEOREM ConversionAtomic == Spec => []ConversionIsAtomic
<1>1. IInv => ConversionIsAtomic BY DEF IInv, History, SaleOfOrder, ConversionIsAtomic
<1> QED BY InitIInv, IInvStep, <1>1, PTL DEF Spec

\* What a client is told of a conversion is true, and one delivery alone is
\* told that it converted the order (replayed in checkout).
THEOREM AnswersTrue == Spec => []AnswersAgree
<1>1. IInv => AnswersAgree
  BY DEF IInv, History, Answered, Answering, Fresh, AnswersAgree
<1> QED BY InitIInv, IInvStep, <1>1, PTL DEF Spec

\* A converted or cancelled order never changes again, and neither does a
\* recorded sale (the conditional updates and the unique index).
THEOREM HistoryIsFrozen == Spec => HistoryFrozen
<1> DEFINE Frozen == /\ \A o \in Order : order[o].status # "OPEN" => order'[o] = order[o]
                     /\ \A i \in Cid : sales[i] # NoSale => sales'[i] = sales[i]
           Still == order' = order /\ sales' = sales
<1>1. ASSUME IInv, [Next]_vars PROVE [Frozen]_vars
  <2>1. ASSUME NEW c \in Convert, CommitOrder(c) PROVE Frozen
    <3>1. pc[c] = "commit" /\ c \in Payer BY <2>1 DEF CommitOrder, Payer
    <3>2. order[target[c]].status = "OPEN"
      BY <1>1, <3>1 DEF IInv, Locking, Claimed, Attempt, Holding
    <3>3. view[c].sale = NoSale => sales[cid[c]] = NoSale
      BY <1>1, <3>1 DEF IInv, Locking, Inserters, Inserted
    <3> QED BY <1>1, <2>1, <3>2, <3>3 DEF CommitOrder, IInv, TypeOK
  <2>2. ASSUME NEW d \in Sell, CommitSale(d) PROVE Frozen
    <3>1. sales[cid[d]] = NoSale
      BY <1>1, <2>2 DEF CommitSale, IInv, Locking, Inserters, Inserted, Payer
    <3> QED BY <1>1, <2>2, <3>1 DEF CommitSale, IInv, TypeOK
  <2>3. ASSUME NEW e \in Edit, EditCas(e) PROVE Frozen
    BY <1>1, <2>3 DEF EditCas, End, IInv, TypeOK
  <2>4. Still => Frozen
    OBVIOUS
  <2> HIDE DEF Frozen
  <2>5. ASSUME NEW c \in Call, Send(c) \/ Rollback(c) PROVE Frozen
    BY <2>4, <2>5 DEF Send, Rollback, End
  <2>6. ASSUME NEW c \in Convert, Retry(c) PROVE Frozen
    BY <2>4, <2>6 DEF Retry, End
  <2>7. ASSUME NEW c \in Convert, ServeConvert(c) PROVE Frozen
    <3>1. ReadOrder(c) \/ ReplyOrder(c) => Still
      BY DEF ReadOrder, ReplyOrder, End
    <3>2. Claim(c) \/ SellOrder(c) => Retry(c) \/ Still
      BY DEF Claim, SellOrder, End
    <3> QED BY <2>1, <2>4, <2>6, <2>7, <3>1, <3>2 DEF ServeConvert
  <2>8. ASSUME NEW d \in Sell, ServeSell(d) PROVE Frozen
    <3>1. ReadSale(d) \/ InsertSale(d) \/ ReplySale(d) => Still
      BY DEF ReadSale, InsertSale, ReplySale, Retry, End
    <3> QED BY <2>2, <2>4, <2>8, <3>1 DEF ServeSell
  <2>9. ASSUME NEW e \in Edit, ServeEdit(e) PROVE Frozen
    <3>1. ReadEdit(e) \/ ReplyEdit(e) => Still
      BY DEF ReadEdit, ReplyEdit, End
    <3> QED BY <2>3, <2>4, <2>9, <3>1 DEF ServeEdit
  <2>10. CASE UNCHANGED vars
    BY <2>4, <2>10 DEF vars
  <2> QED BY <1>1, <2>5, <2>6, <2>7, <2>8, <2>9, <2>10 DEF Next, Conflict
<1> QED BY InitIInv, IInvStep, <1>1, PTL DEF Spec, HistoryFrozen
===============================================================================
