---------------------------- MODULE Checkout_proofs ----------------------------
(***************************************************************************)
(* Proofs about Checkout, for any number of requests, deliveries, products *)
(* and adjustments.                                                        *)
(***************************************************************************)
EXTENDS Checkout, TLAPS

-----------------------------------------------------------------------------
(* What a transaction has written, and hence locked, at each statement.     *)

LockExclusive ==
  \A w, x \in Writer, p \in Product : Locks(w, p) /\ Locks(x, p) => w = x

\* The rows that call c has decremented: the first taken[c] of its order.
Taken(c, p) == \E k \in 1..taken[c] : stockOrder[reqOf[c]][k] = p

CallWrites ==
  \A c \in Call :
    /\ taken[c] <= Len(stockOrder[reqOf[c]])
    /\ pc[c] = "commit" => taken[c] = Len(stockOrder[reqOf[c]])
    /\ ~Inserted(c) => taken[c] = 0
    /\ \A p \in Product :
         /\ Locks(c, p) <=> Taken(c, p)
         /\ Locks(c, p) => /\ stock[p] # NoRow
                           /\ write[c][p] = stock[p] - demand[reqOf[c]][p]
                           /\ write[c][p] >= 0

AdjWrites ==
  \A a \in Adj :
    /\ \A p \in Product : Locks(a, p) =>
         p = adjProduct[a] /\ adj[a] \in {"update", "commit"}
    /\ adj[a] = "update" /\ Locks(a, adjProduct[a]) =>
         write[a][adjProduct[a]] = 0 /\ stock[adjProduct[a]] = NoRow
    /\ adj[a] = "commit" =>
         /\ Locks(a, adjProduct[a])
         /\ write[a][adjProduct[a]] = OnHand(adjProduct[a]) + AdjDelta(a)
         /\ write[a][adjProduct[a]] >= 0

IInv ==
  /\ TypeOK
  /\ LockExclusive
  /\ CallWrites
  /\ AdjWrites
  /\ NoOversell
  /\ StockLedgerBalanced

LEMMA RequestTypes ==
  ASSUME NEW c \in Call
  PROVE  /\ reqOf[c] \in Request
         /\ cidOf[reqOf[c]] \in Cid
         /\ \A p \in Product : demand[reqOf[c]][p] \in Nat
<1>1. reqOf[c] \in Request BY ProcessAssumption
<1>2. demand[reqOf[c]] \in [Product -> Nat] BY <1>1, PayloadAssumption
<1> QED BY <1>1, <1>2, PayloadAssumption

LEMMA AdjTypes ==
  ASSUME NEW a \in Adj
  PROVE  /\ adjProduct[a] \in Product
         /\ adjType[a] \in {"ADD", "DEDUCT"}
         /\ adjQty[a] \in Nat \ {0}
         /\ AdjDelta(a) = IF adjType[a] = "DEDUCT" THEN -adjQty[a] ELSE adjQty[a]
         /\ AdjDelta(a) \in Int
<1>1. adjQty[a] \in Nat \ {0} BY ProcessAssumption
<1> QED BY <1>1, ProcessAssumption DEF AdjDelta

LEMMA NextInProduct ==
  ASSUME TypeOK, NEW c \in Call, StockLeft(c)
  PROVE  NextStock(c) \in Product /\ taken[c] + 1 \in 1..Len(stockOrder[reqOf[c]])
<1>1. stockOrder[reqOf[c]] \in Seq(Product)
  BY PayloadAssumption, ProcessAssumption
<1>2. taken[c] \in Nat BY DEF TypeOK
<1> QED BY <1>1, <1>2 DEF NextStock, StockLeft

LEMMA IInvInit == Init => IInv
<1> SUFFICES ASSUME Init PROVE IInv
  OBVIOUS
<1> USE DEF Init
<1>1. TypeOK
  BY NullAssumption DEF TypeOK, CallPc, AdjPc, NoAnswer, AnswerKind, NoWrites
<1>2. \A w \in Writer, p \in Product : ~Locks(w, p)
  BY DEF Locks, NoWrites
<1>3. LockExclusive BY <1>2 DEF LockExclusive
<1>4. CallWrites
  BY <1>2, PayloadAssumption, ProcessAssumption DEF CallWrites, Writer, Inserted, Taken
<1>5. AdjWrites BY <1>2 DEF AdjWrites, Writer
<1>6. NoOversell /\ StockLedgerBalanced
  BY NullAssumption DEF NoOversell, StockLedgerBalanced, OnHand
<1> QED BY <1>1, <1>3, <1>4, <1>5, <1>6 DEF IInv

-----------------------------------------------------------------------------
(* Types.                                                                  *)

LEMMA RefuseType ==
  ASSUME TypeOK, NEW c \in Call, NEW kind \in AnswerKind, Refuse(c, kind)
  PROVE  TypeOK'
  BY DEF TypeOK, Refuse, End, Go, Clear, Drop, Told, NoWrites, CallPc, Writer,
         tables, admin

LEMMA RetryType ==
  ASSUME TypeOK, NEW c \in Call, Retry(c)
  PROVE  TypeOK'
<1>1. CASE try[c] = 3 /\ Refuse(c, "retry")
  BY <1>1, RefuseType DEF AnswerKind
<1>2. CASE try[c] < 3
  <2>1. /\ Go(c, "lookup") /\ Clear(c, try[c] + 1) /\ Drop(c)
        /\ UNCHANGED <<tables, admin, answer, adj>>
    BY <1>2 DEF Retry
  <2>2. try[c] \in 1..3 BY DEF TypeOK
  <2>3. try[c] + 1 \in 1..3 BY <1>2, <2>2
  <2> QED
    BY <2>1, <2>3 DEF TypeOK, Go, Clear, Drop, NoWrites, CallPc, Writer, tables, admin
<1> QED BY <1>1, <1>2 DEF Retry

LEMMA CallType ==
  ASSUME TypeOK, NEW c \in Call, Send(c) \/ Serve(c) \/ Rollback(c)
  PROVE  TypeOK'
<1> USE DEF TypeOK, CallPc, Writer, tables, admin
<1>1. CASE Send(c) BY <1>1 DEF Send, Go
<1>2. CASE Lookup(c)
  <2>1. CASE Refuse(c, "mismatch") BY <2>1, RefuseType DEF AnswerKind
  <2>2. CASE Go(c, "validate")
    BY <1>2, <2>2 DEF Lookup, Go, Refuse, End
  <2>3. CASE /\ Go(c, "reply")
             /\ total' = [total EXCEPT ![c] = sale[cidOf[reqOf[c]]].total]
             /\ sale[cidOf[reqOf[c]]] # NoSale
             /\ UNCHANGED <<tables, admin, try, taken, answer, adj, write>>
    BY <2>3, PayloadAssumption, ProcessAssumption DEF Go
  <2> QED BY <1>2, <2>1, <2>2, <2>3 DEF Lookup
<1>3. CASE Validate(c)
  <2>1. CASE Refuse(c, "refused") BY <2>1, RefuseType DEF AnswerKind
  <2>2. CASE /\ TotalAt(reqOf[c], price) > 0
             /\ Go(c, "insert")
             /\ total' = [total EXCEPT ![c] = TotalAt(reqOf[c], price)]
             /\ UNCHANGED <<tables, admin, try, taken, answer, adj, write>>
    <3>1. reqOf[c] \in Request BY ProcessAssumption
    <3>2. TotalAt(reqOf[c], price) \in Int BY <3>1, PayloadAssumption
    <3>3. TotalAt(reqOf[c], price) \in Nat BY <2>2, <3>2
    <3> QED BY <2>2, <3>3 DEF Go
  <2> QED BY <1>3, <2>1, <2>2 DEF Validate
<1>4. CASE Insert(c)
  <2>1. CASE Retry(c) BY <2>1, RetryType
  <2>2. CASE Go(c, "stock") /\ UNCHANGED <<tables, admin, try, taken, total, answer, adj, write>>
    BY <2>2 DEF Go
  <2> QED BY <1>4, <2>1, <2>2 DEF Insert
<1>5. CASE TakeStock(c)
  <2>1. CASE Refuse(c, "insufficient") BY <2>1, RefuseType DEF AnswerKind
  <2> DEFINE p == NextStock(c)
  <2>2. CASE /\ StockLeft(c)
             /\ stock[p] # NoRow
             /\ Put(c, p, stock[p] - demand[reqOf[c]][p])
             /\ taken' = [taken EXCEPT ![c] = taken[c] + 1]
             /\ UNCHANGED <<tables, admin, pc, try, total, answer, adj>>
    <3>1. p \in Product BY <2>2, NextInProduct
    <3>2. stock[p] - demand[reqOf[c]][p] \in Int
      <4>1. stock[p] \in Int BY <2>2, <3>1
      <4>2. demand[reqOf[c]][p] \in Nat BY <3>1, RequestTypes
      <4> QED BY <4>1, <4>2
    <3> HIDE DEF p
    <3> QED BY <2>2, <3>1, <3>2 DEF Put
  <2> QED BY <1>5, <2>1, <2>2 DEF TakeStock
<1>6. CASE Complete(c) BY <1>6 DEF Complete, Go
<1>7. CASE Commit(c)
  <2>1. stock' \in [Product -> Int \cup {NoRow}]
    BY <1>7 DEF Commit, Publish, Locks
  <2>2. sale' \in [Cid -> [by : Request, total : Nat] \cup {NoSale}]
    BY <1>7, RequestTypes DEF Commit
  <2>3. write' \in [Writer -> [Product -> Int \cup {NoWrite}]]
    BY <1>7 DEF Commit, Drop, NoWrites
  <2>4. moved' \in [Product -> Int]
    <3>1. \A p \in Product : moved[p] - demand[reqOf[c]][p] \in Int
      BY RequestTypes
    <3> QED BY <1>7, <3>1 DEF Commit
  <2> QED BY <1>7, <2>1, <2>2, <2>3, <2>4 DEF Commit, Go
<1>8. CASE Reply(c)
  <2>1. CASE End(c, Receipt(total[c]))
    BY <1>8, <2>1 DEF Reply, End, Go, Clear, Receipt, AnswerKind
  <2>2. CASE End(c, Told("lost"))
    BY <1>8, <2>2 DEF Reply, End, Go, Clear, Told, AnswerKind
  <2> QED BY <1>8, <2>1, <2>2 DEF Reply
<1>9. CASE DeadlockVictim(c)
  BY <1>9, RetryType, RefuseType DEF DeadlockVictim, AnswerKind
<1>10. CASE Rollback(c) BY <1>10, RefuseType DEF Rollback, AnswerKind
<1> QED BY <1>1, <1>2, <1>3, <1>4, <1>5, <1>6, <1>7, <1>8, <1>9, <1>10 DEF Serve

LEMMA AdjType ==
  ASSUME TypeOK, NEW a \in Adj, AdjSend(a) \/ AdjServe(a) \/ AdjRollback(a)
  PROVE  TypeOK'
<1> USE DEF TypeOK, AdjPc, Writer, tables, admin, calls, AdjGo
<1>1. CASE AdjSend(a) BY <1>1 DEF AdjSend
<1>2. CASE AdjEnsure(a)
  <2>1. CASE Put(a, adjProduct[a], 0) BY <1>2, <2>1 DEF AdjEnsure, Put
  <2>2. CASE UNCHANGED write BY <1>2, <2>2 DEF AdjEnsure
  <2> QED BY <1>2, <2>1, <2>2 DEF AdjEnsure
<1>3. CASE AdjUpdate(a)
  <2> DEFINE p == adjProduct[a]
             row == Seen(a, p)
  <2>1. row \in Int \cup {NoRow} BY ProcessAssumption DEF Seen, Locks
  <2>2. CASE row # NoRow /\ Put(a, p, row + AdjDelta(a)) /\ AdjGo(a, "commit")
    <3>1. row + AdjDelta(a) \in Int 
      <4>1. AdjDelta(a) \in Int /\ row \in Int BY <2>1, <2>2, AdjTypes
      <4> QED BY <4>1
    <3> HIDE DEF row
    <3> QED BY <1>3, <2>2, <3>1 DEF AdjUpdate, Put
  <2>3. CASE Drop(a) /\ AdjGo(a, "dropped")
    BY <1>3, <2>3 DEF AdjUpdate, Drop, NoWrites
  <2> QED BY <1>3, <2>2, <2>3 DEF AdjUpdate
<1>4. CASE AdjCommit(a)
  <2>1. stock' \in [Product -> Int \cup {NoRow}]
    BY <1>4 DEF AdjCommit, Publish, Locks
  <2>2. moved' \in [Product -> Int]
    <3>1. moved[adjProduct[a]] + AdjDelta(a) \in Int BY AdjTypes
    <3> QED BY <1>4, <3>1 DEF AdjCommit
  <2> QED BY <1>4, <2>1, <2>2 DEF AdjCommit, Drop, NoWrites
<1>5. CASE AdjRollback(a) BY <1>5 DEF AdjRollback, Drop, NoWrites
<1> QED BY <1>1, <1>2, <1>3, <1>4, <1>5 DEF AdjServe

LEMMA TypeStep == TypeOK /\ [Next]_vars => TypeOK'
<1> SUFFICES ASSUME TypeOK, [Next]_vars PROVE TypeOK'
  OBVIOUS
<1>1. ASSUME NEW p \in Product, NEW n \in Price[p], EditPrice(p, n) PROVE TypeOK'
  BY <1>1 DEF EditPrice, TypeOK, tables, calls, AnyPrice
<1>2. CASE CloseShift BY <1>2 DEF CloseShift, TypeOK, tables, calls
<1>3. CASE UNCHANGED vars BY <1>3 DEF vars, TypeOK, tables, admin, calls
<1> QED BY CallType, AdjType, <1>1, <1>2, <1>3 DEF Next

-----------------------------------------------------------------------------
(* Locks and stock.                                                        *)

Safe == LockExclusive /\ CallWrites /\ AdjWrites /\ NoOversell /\ StockLedgerBalanced

\* Steps that touch neither stock nor locks.
LEMMA QuietStep ==
  ASSUME IInv, UNCHANGED <<stock, moved, adj, taken, write>>,
         \A c \in Call : /\ Inserted(c) => pc'[c] \in {"stock", "commit"}
                         /\ pc'[c] = "commit" =>
                              taken[c] = Len(stockOrder[reqOf[c]])
  PROVE  Safe'
  BY DEF IInv, Safe, LockExclusive, CallWrites, AdjWrites, NoOversell,
         StockLedgerBalanced, OnHand, Locks, Taken, Inserted

\* A call that ends or starts again without COMMIT drops its locks.
LEMMA DropStep ==
  ASSUME IInv, NEW c \in Call, UNCHANGED <<stock, moved, adj>>, Drop(c),
         taken' = [taken EXCEPT ![c] = 0],
         NEW label \in CallPc \ {"stock", "commit"}, Go(c, label)
  PROVE  Safe'
<1>1. \A w \in Writer : write'[w] = IF w = c THEN NoWrites ELSE write[w]
  BY DEF IInv, TypeOK, Drop, Writer
<1>2. \A w \in Writer, p \in Product : Locks(w, p)' <=> w # c /\ Locks(w, p)
  BY <1>1 DEF Locks, NoWrites
<1>3. \A d \in Call : /\ taken'[d] = IF d = c THEN 0 ELSE taken[d]
                      /\ pc'[d] = IF d = c THEN label ELSE pc[d]
  BY DEF IInv, TypeOK, Go
<1>4. LockExclusive' BY <1>2 DEF IInv, LockExclusive
<1>5. CallWrites'
  <2> SUFFICES ASSUME NEW d \in Call
               PROVE  /\ taken'[d] <= Len(stockOrder[reqOf[d]])
                      /\ pc'[d] = "commit" => taken'[d] = Len(stockOrder[reqOf[d]])
                      /\ ~Inserted(d)' => taken'[d] = 0
                      /\ \A p \in Product :
                           /\ Locks(d, p)' <=> Taken(d, p)'
                           /\ Locks(d, p)' =>
                                /\ stock[p] # NoRow
                                /\ write'[d][p] = stock[p] - demand[reqOf[d]][p]
                                /\ write'[d][p] >= 0
    BY DEF CallWrites
  <2>1. CASE d = c
    <3>1. Len(stockOrder[reqOf[c]]) \in Nat
      BY RequestTypes, PayloadAssumption
    <3> QED BY <1>2, <1>3, <2>1, <3>1 DEF Writer, Taken
  <2>2. CASE d # c
    BY <1>1, <1>2, <1>3, <2>2 DEF IInv, CallWrites, Writer, Taken, Inserted
  <2> QED BY <2>1, <2>2
<1>6. AdjWrites'
  <2>1. \A a \in Adj : a # c /\ a \in Writer BY ProcessAssumption DEF Writer
  <2>2. \A a \in Adj : /\ write'[a] = write[a]
                        /\ adjProduct[a] \in Product
                        /\ \A p \in Product : Locks(a, p)' <=> Locks(a, p)
    BY <1>1, <1>2, <2>1, AdjTypes
  <2> QED BY <2>2 DEF IInv, AdjWrites, OnHand
<1>7. NoOversell' /\ StockLedgerBalanced'
  BY DEF IInv, NoOversell, StockLedgerBalanced, OnHand
<1> QED BY <1>4, <1>5, <1>6, <1>7 DEF Safe

LEMMA RefuseSafe ==
  ASSUME IInv, NEW c \in Call, NEW kind, Refuse(c, kind)
  PROVE  Safe'
<1>1. "done" \in CallPc \ {"stock", "commit"} BY DEF CallPc
<1> QED BY <1>1, DropStep DEF Refuse, End, Clear, tables

LEMMA RetrySafe ==
  ASSUME IInv, NEW c \in Call, Retry(c)
  PROVE  Safe'
<1>1. "lookup" \in CallPc \ {"stock", "commit"} BY DEF CallPc
<1>2. CASE Refuse(c, "retry") BY <1>2, RefuseSafe
<1>3. CASE Go(c, "lookup") /\ Clear(c, try[c] + 1) /\ Drop(c)
           /\ UNCHANGED <<tables, admin, answer, adj>>
  BY <1>1, <1>3, DropStep DEF Clear, tables
<1> QED BY <1>2, <1>3 DEF Retry

\* A row that somebody has locked is locked by nobody else.
LEMMA Unlocked ==
  ASSUME IInv, NEW w \in Writer, NEW p \in Product, ~Waits(w, p), stock[p] # NoRow
  PROVE  \A x \in Writer : Locks(x, p) => x = w
  BY DEF Waits

LEMMA TakeSafe ==
  ASSUME IInv, NEW c \in Call, TakeStock(c)
  PROVE  Safe'
<1> DEFINE p == NextStock(c)
           qty == demand[reqOf[c]][p]
<1>1. CASE Refuse(c, "insufficient") BY <1>1, RefuseSafe
<1>2. CASE /\ stock[p] # NoRow /\ stock[p] >= qty
           /\ Put(c, p, stock[p] - qty)
           /\ taken' = [taken EXCEPT ![c] = taken[c] + 1]
           /\ UNCHANGED <<tables, admin, pc, try, total, answer, adj>>
  <2>1. /\ pc[c] = "stock" /\ StockLeft(c) /\ ~Waits(c, p)
        /\ c \in Writer /\ c \notin Adj
    BY <1>2, ProcessAssumption DEF TakeStock, Writer
  <2>2. p \in Product /\ taken[c] + 1 \in 1..Len(stockOrder[reqOf[c]])
        /\ stockOrder[reqOf[c]][taken[c] + 1] = p
    BY <2>1, NextInProduct DEF IInv, NextStock
  <2>3. stock[p] \in Int /\ qty \in Nat
    BY <1>2, <2>2, RequestTypes DEF IInv, TypeOK
  <2>4. UNCHANGED <<stock, moved, pc, adj>> BY <1>2 DEF tables
  <2> HIDE DEF p, qty
  <2>5. \A w \in Writer, r \in Product :
          write'[w][r] = IF w = c /\ r = p THEN stock[p] - qty ELSE write[w][r]
    BY <1>2, <2>1 DEF Put, IInv, TypeOK
  <2>6. \A w \in Writer, r \in Product :
          Locks(w, r)' <=> (w = c /\ r = p) \/ Locks(w, r)
    BY <2>1, <2>2, <2>3, <2>5, NullAssumption DEF Locks
  <2>7. \A x \in Writer : Locks(x, p) => x = c
    BY <1>2, <2>1, <2>2, Unlocked
  <2>8. \A d \in Call : taken'[d] = IF d = c THEN taken[d] + 1 ELSE taken[d]
    BY <1>2 DEF IInv, TypeOK
  <2>9. \A d \in Call : taken[d] \in Nat BY DEF IInv, TypeOK
  <2>10. \A d \in Call, r \in Product :
           Taken(d, r)' <=> (d = c /\ r = p) \/ Taken(d, r)
    <3> TAKE d \in Call, r \in Product
    <3>1. CASE d = c
      BY <2>2, <2>8, <2>9, <3>1 DEF Taken
    <3>2. CASE d # c BY <2>8, <3>2 DEF Taken
    <3> QED BY <3>1, <3>2
  <2>11. LockExclusive' BY <2>6, <2>7 DEF IInv, LockExclusive
  <2>12. CallWrites'
    <3> SUFFICES ASSUME NEW d \in Call
                 PROVE  /\ taken'[d] <= Len(stockOrder[reqOf[d]])
                        /\ pc[d] = "commit" => taken'[d] = Len(stockOrder[reqOf[d]])
                        /\ ~Inserted(d) => taken'[d] = 0
                        /\ \A r \in Product :
                             /\ Locks(d, r)' <=> Taken(d, r)'
                             /\ Locks(d, r)' =>
                                  /\ stock[r] # NoRow
                                  /\ write'[d][r] = stock[r] - demand[reqOf[d]][r]
                                  /\ write'[d][r] >= 0
      BY <2>4 DEF CallWrites, Inserted
    <3>1. CASE d = c
      BY <1>2, <2>1, <2>2, <2>3, <2>5, <2>6, <2>8, <2>10, <3>1
         DEF IInv, CallWrites, Inserted, Writer, qty
    <3>2. CASE d # c
      BY <2>5, <2>6, <2>8, <2>10, <3>2 DEF IInv, CallWrites, Inserted, Writer
    <3> QED BY <3>1, <3>2
  <2>13. AdjWrites'
    <3>1. \A a \in Adj : a # c /\ a \in Writer BY <2>1 DEF Writer
    <3>2. \A a \in Adj : /\ adjProduct[a] \in Product
                         /\ \A r \in Product : /\ Locks(a, r)' <=> Locks(a, r)
                                               /\ write'[a][r] = write[a][r]
      BY <2>5, <2>6, <3>1, AdjTypes
    <3> QED BY <2>4, <3>2 DEF IInv, AdjWrites, OnHand
  <2>14. NoOversell' /\ StockLedgerBalanced'
    BY <2>4 DEF IInv, NoOversell, StockLedgerBalanced, OnHand
  <2> QED BY <2>11, <2>12, <2>13, <2>14 DEF Safe
<1> QED BY <1>1, <1>2 DEF TakeStock

\* The holder of a row publishes it; nobody else had written that row.
LEMMA PublishStep ==
  ASSUME IInv, NEW w \in Writer, Publish(w), Drop(w)
  PROVE  /\ \A p \in Product :
              stock'[p] = IF Locks(w, p) THEN write[w][p] ELSE stock[p]
         /\ \A x \in Writer, p \in Product :
              /\ Locks(x, p)' <=> x # w /\ Locks(x, p)
              /\ Locks(x, p)' => write'[x][p] = write[x][p] /\ stock'[p] = stock[p]
         /\ LockExclusive'
<1>1. \A p \in Product : stock'[p] = IF Locks(w, p) THEN write[w][p] ELSE stock[p]
  BY DEF Publish
<1>2. \A x \in Writer : write'[x] = IF x = w THEN NoWrites ELSE write[x]
  BY DEF IInv, TypeOK, Drop
<1>3. \A x \in Writer, p \in Product : Locks(x, p)' <=> x # w /\ Locks(x, p)
  BY <1>2 DEF Locks, NoWrites
<1>4. \A x \in Writer, p \in Product :
        Locks(x, p)' => write'[x][p] = write[x][p] /\ stock'[p] = stock[p]
  BY <1>1, <1>2, <1>3 DEF IInv, LockExclusive
<1>5. LockExclusive' BY <1>3 DEF IInv, LockExclusive
<1> QED BY <1>1, <1>3, <1>4, <1>5

\* A commit takes the demand of the request out of stock, all of it at once.
LEMMA CommitOnHand ==
  ASSUME IInv, NEW c \in Call, Commit(c)
  PROVE  \A p \in Product :
           /\ OnHand(p)' = OnHand(p) - demand[reqOf[c]][p]
           /\ OnHand(p)' >= 0
           /\ stock'[p] \in Int \cup {NoRow}
<1> DEFINE r == reqOf[c]
<1>1. \A p \in Product : stock'[p] = IF Locks(c, p) THEN write[c][p] ELSE stock[p]
  BY DEF Commit, Publish
<1>2. \A p \in Product : demand[r][p] \in Nat /\ stock[p] \in Int \cup {NoRow}
  BY RequestTypes DEF IInv, TypeOK
\* Every product the order takes is locked by now.
<1>3. \A p \in Product : ~Locks(c, p) => demand[r][p] = 0
  <2>1. taken[c] = Len(stockOrder[r]) BY DEF Commit, IInv, CallWrites
  <2>2. r \in Request BY RequestTypes
  <2> QED BY <2>1, <2>2, PayloadAssumption DEF IInv, CallWrites, Taken
<1>4. \A p \in Product :
        Locks(c, p) => /\ stock[p] # NoRow
                       /\ write[c][p] = stock[p] - demand[r][p]
                       /\ write[c][p] >= 0
  BY DEF IInv, CallWrites
<1> TAKE p \in Product
<1>5. stock[p] \in Int \cup {NoRow} /\ demand[r][p] \in Nat /\ OnHand(p) >= 0
      /\ OnHand(p) \in Int
  BY <1>2 DEF IInv, NoOversell, OnHand
<1>6. CASE Locks(c, p)
  <2>1. /\ stock'[p] = stock[p] - demand[r][p] /\ stock'[p] >= 0
        /\ stock[p] \in Int
    BY <1>1, <1>4, <1>5, <1>6
  <2>2. stock'[p] \in Int BY <1>5, <2>1
  <2>3. stock'[p] # NoRow BY <2>2, NullAssumption
  <2> QED BY <1>4, <1>6, <2>1, <2>2, <2>3 DEF OnHand
<1>7. CASE ~Locks(c, p)
  BY <1>1, <1>3, <1>5, <1>7 DEF OnHand
<1> QED BY <1>6, <1>7

LEMMA CommitSafe ==
  ASSUME IInv, NEW c \in Call, Commit(c)
  PROVE  Safe'
<1> DEFINE r == reqOf[c]
<1>1. /\ pc[c] = "commit" /\ Publish(c) /\ Drop(c)
      /\ c \in Writer /\ c \notin Adj
      /\ UNCHANGED adj
  BY ProcessAssumption DEF Commit, Writer
<1>2. /\ \A p \in Product :
           stock'[p] = IF Locks(c, p) THEN write[c][p] ELSE stock[p]
      /\ \A x \in Writer, p \in Product :
           /\ Locks(x, p)' <=> x # c /\ Locks(x, p)
           /\ Locks(x, p)' => write'[x][p] = write[x][p] /\ stock'[p] = stock[p]
      /\ LockExclusive'
  BY <1>1, PublishStep
<1>3. \A p \in Product :
        /\ demand[r][p] \in Nat /\ moved[p] \in Int
        /\ stock[p] \in Int \cup {NoRow}
        /\ moved'[p] = moved[p] - demand[r][p]
  BY RequestTypes DEF IInv, TypeOK, Commit
<1>4. \A p \in Product : /\ OnHand(p)' = OnHand(p) - demand[r][p]
                        /\ OnHand(p)' >= 0
  BY CommitOnHand
<1>5. NoOversell' BY <1>4 DEF NoOversell
<1>6. StockLedgerBalanced'
  BY <1>3, <1>4 DEF IInv, StockLedgerBalanced
<1>7. \A d \in Call : /\ taken'[d] = IF d = c THEN 0 ELSE taken[d]
                      /\ pc'[d] = IF d = c THEN "reply" ELSE pc[d]
  BY DEF IInv, TypeOK, Commit, Go
<1>8. CallWrites'
  <2> SUFFICES ASSUME NEW d \in Call
               PROVE  /\ taken'[d] <= Len(stockOrder[reqOf[d]])
                      /\ pc'[d] = "commit" => taken'[d] = Len(stockOrder[reqOf[d]])
                      /\ ~Inserted(d)' => taken'[d] = 0
                      /\ \A p \in Product :
                           /\ Locks(d, p)' <=> Taken(d, p)'
                           /\ Locks(d, p)' =>
                                /\ stock'[p] # NoRow
                                /\ write'[d][p] = stock'[p] - demand[reqOf[d]][p]
                                /\ write'[d][p] >= 0
    BY DEF CallWrites
  <2>1. CASE d = c
    <3>1. Len(stockOrder[reqOf[c]]) \in Nat
      BY RequestTypes, PayloadAssumption
    <3> QED BY <1>2, <1>7, <2>1, <3>1 DEF Writer, Taken
  <2>2. CASE d # c
    BY <1>2, <1>7, <2>2 DEF IInv, CallWrites, Writer, Taken, Inserted
  <2> QED BY <2>1, <2>2
<1>9. AdjWrites'
  <2>1. \A a \in Adj : a # c /\ a \in Writer BY <1>1 DEF Writer
  <2>2. \A a \in Adj : /\ adjProduct[a] \in Product
                       /\ \A p \in Product :
                            /\ Locks(a, p)' <=> Locks(a, p)
                            /\ Locks(a, p) => write'[a][p] = write[a][p]
                                              /\ stock'[p] = stock[p]
    BY <1>2, <2>1, AdjTypes
  <2> QED BY <1>1, <2>2 DEF IInv, AdjWrites, OnHand
<1> QED BY <1>2, <1>5, <1>6, <1>8, <1>9 DEF Safe

LEMMA CallSafe ==
  ASSUME IInv, NEW c \in Call, Send(c) \/ Serve(c) \/ Rollback(c)
  PROVE  Safe'
<1> USE DEF tables, Go
<1>1. CASE Send(c) BY <1>1, QuietStep DEF Send, IInv, TypeOK, Inserted, CallWrites
<1>2. CASE Lookup(c)
  <2>1. CASE Refuse(c, "mismatch") BY <2>1, RefuseSafe
  <2>2. CASE \E label \in {"validate", "reply"} :
               Go(c, label) /\ UNCHANGED <<tables, taken, adj, write>>
    BY <1>2, <2>2, QuietStep DEF Lookup, IInv, TypeOK, Inserted, CallWrites
  <2> QED BY <1>2, <2>1, <2>2 DEF Lookup
<1>3. CASE Validate(c)
  <2>1. CASE Refuse(c, "refused") BY <2>1, RefuseSafe
  <2>2. CASE Go(c, "insert") /\ UNCHANGED <<tables, taken, adj, write>>
    BY <1>3, <2>2, QuietStep DEF Validate, IInv, TypeOK, Inserted, CallWrites
  <2> QED BY <1>3, <2>1, <2>2 DEF Validate
<1>4. CASE Insert(c)
  <2>1. CASE Retry(c) BY <2>1, RetrySafe
  <2>2. CASE Go(c, "stock") /\ UNCHANGED <<tables, taken, adj, write>>
    BY <2>2, QuietStep DEF IInv, TypeOK, CallWrites, Inserted
  <2> QED BY <1>4, <2>1, <2>2 DEF Insert
<1>5. CASE TakeStock(c) BY <1>5, TakeSafe
<1>6. CASE Complete(c)
  <2>1. taken[c] = Len(stockOrder[reqOf[c]])
    <3>1. Len(stockOrder[reqOf[c]]) \in Nat /\ taken[c] \in Nat
      BY RequestTypes, PayloadAssumption DEF IInv, TypeOK
    <3> QED BY <1>6, <3>1 DEF Complete, StockLeft, IInv, CallWrites
  <2> QED BY <1>6, <2>1, QuietStep DEF Complete, IInv, TypeOK, Inserted, CallWrites
<1>7. CASE Commit(c) BY <1>7, CommitSafe
<1>8. CASE Reply(c)
  <2>1. taken[c] = 0 BY <1>8 DEF Reply, IInv, CallWrites, Inserted
  <2>2. UNCHANGED taken
    BY <1>8, <2>1 DEF Reply, End, Clear, IInv, TypeOK
  <2> QED BY <1>8, <2>2, QuietStep DEF Reply, End, IInv, TypeOK, Inserted, CallWrites
<1>9. CASE DeadlockVictim(c) BY <1>9, RetrySafe, RefuseSafe DEF DeadlockVictim
<1>10. CASE Rollback(c) BY <1>10, RefuseSafe DEF Rollback
<1> QED BY <1>1, <1>2, <1>3, <1>4, <1>5, <1>6, <1>7, <1>8, <1>9, <1>10 DEF Serve

\* An adjustment writes its own row, which it has locked or inserted, or drops it.
LEMMA AdjPutStep ==
  ASSUME IInv, NEW a \in Adj, NEW n \in Int, Put(a, adjProduct[a], n),
         UNCHANGED <<tables, admin, calls>>,
         NEW label, AdjGo(a, label),
         \A x \in Writer : Locks(x, adjProduct[a]) => x = a,
         label \in {"update", "commit"},
         label = "update" => n = 0 /\ stock[adjProduct[a]] = NoRow,
         label = "commit" => n = OnHand(adjProduct[a]) + AdjDelta(a) /\ n >= 0
  PROVE  Safe'
<1> DEFINE p == adjProduct[a]
<1>1. a \in Writer /\ a \notin Call /\ p \in Product
  BY ProcessAssumption DEF Writer
<1>2. UNCHANGED <<stock, moved, pc, taken>> BY DEF tables, calls
<1>3. \A w \in Writer, r \in Product :
        write'[w][r] = IF w = a /\ r = p THEN n ELSE write[w][r]
  BY <1>1 DEF Put, IInv, TypeOK
<1>4. \A w \in Writer, r \in Product :
        Locks(w, r)' <=> (w = a /\ r = p) \/ Locks(w, r)
  BY <1>1, <1>3, NullAssumption DEF Locks
<1>5. LockExclusive' BY <1>4 DEF IInv, LockExclusive
<1>6. \A c \in Call : /\ c # a /\ c \in Writer
                      /\ \A r \in Product : /\ Locks(c, r)' <=> Locks(c, r)
                                            /\ write'[c][r] = write[c][r]
  BY <1>1, <1>3, <1>4 DEF Writer
<1>7. CallWrites'
  BY <1>2, <1>6 DEF IInv, CallWrites, Taken, Inserted
<1>8. \A b \in Adj : adj'[b] = IF b = a THEN label ELSE adj[b]
  BY DEF IInv, TypeOK, AdjGo
<1>9. AdjWrites'
  <2> SUFFICES ASSUME NEW b \in Adj
               PROVE  /\ \A r \in Product : Locks(b, r)' =>
                           r = adjProduct[b] /\ adj'[b] \in {"update", "commit"}
                      /\ adj'[b] = "update" /\ Locks(b, adjProduct[b])' =>
                           write'[b][adjProduct[b]] = 0 /\ stock[adjProduct[b]] = NoRow
                      /\ adj'[b] = "commit" =>
                           /\ Locks(b, adjProduct[b])'
                           /\ write'[b][adjProduct[b]] = OnHand(adjProduct[b]) + AdjDelta(b)
                           /\ write'[b][adjProduct[b]] >= 0
    BY <1>2 DEF AdjWrites, OnHand
  <2>1. CASE b = a
    BY <1>1, <1>3, <1>4, <1>8, <2>1 DEF IInv, AdjWrites
  <2>2. CASE b # a
    <3>1. b \in Writer /\ adjProduct[b] \in Product BY AdjTypes DEF Writer
    <3> QED BY <1>3, <1>4, <1>8, <2>2, <3>1 DEF IInv, AdjWrites
  <2> QED BY <2>1, <2>2
<1>10. NoOversell' /\ StockLedgerBalanced'
  BY <1>2 DEF IInv, NoOversell, StockLedgerBalanced, OnHand
<1> QED BY <1>5, <1>7, <1>9, <1>10 DEF Safe

\* An adjustment that holds no lock and takes none.
LEMMA AdjQuietStep ==
  ASSUME IInv, NEW a \in Adj, UNCHANGED <<tables, admin, calls>>,
         NEW label \in {"ensure", "update", "dropped"}, AdjGo(a, label), Drop(a)
  PROVE  Safe'
<1>1. a \in Writer /\ a \notin Call BY ProcessAssumption DEF Writer
<1>2. UNCHANGED <<stock, moved, pc, taken>> BY DEF tables, calls
<1>3. \A w \in Writer : write'[w] = IF w = a THEN NoWrites ELSE write[w]
  BY <1>1 DEF Drop, IInv, TypeOK
<1>4. \A w \in Writer, r \in Product : Locks(w, r)' <=> w # a /\ Locks(w, r)
  BY <1>3 DEF Locks, NoWrites
<1>5. LockExclusive' BY <1>4 DEF IInv, LockExclusive
<1>6. \A c \in Call : /\ c # a /\ c \in Writer /\ write'[c] = write[c]
                      /\ \A r \in Product : Locks(c, r)' <=> Locks(c, r)
  BY <1>1, <1>3, <1>4 DEF Writer
<1>7. CallWrites'
  BY <1>2, <1>6 DEF IInv, CallWrites, Taken, Inserted
<1>8. \A b \in Adj : adj'[b] = IF b = a THEN label ELSE adj[b]
  BY DEF IInv, TypeOK, AdjGo
<1>9. \A b \in Adj : b \in Writer /\ adjProduct[b] \in Product
  BY AdjTypes DEF Writer
<1>10. AdjWrites'
  BY <1>2, <1>3, <1>4, <1>8, <1>9 DEF IInv, AdjWrites, OnHand
<1>11. NoOversell' /\ StockLedgerBalanced'
  BY <1>2 DEF IInv, NoOversell, StockLedgerBalanced, OnHand
<1> QED BY <1>5, <1>7, <1>10, <1>11 DEF Safe

LEMMA AdjCommitOnHand ==
  ASSUME IInv, NEW a \in Adj, AdjCommit(a)
  PROVE  \A p \in Product :
           /\ OnHand(p) \in Int /\ stock'[p] \in Int \cup {NoRow}
           /\ OnHand(p)' = IF p = adjProduct[a] THEN OnHand(p) + AdjDelta(a)
                                                ELSE OnHand(p)
           /\ OnHand(p)' >= 0
<1> DEFINE q == adjProduct[a]
<1>1. a \in Writer /\ q \in Product /\ AdjDelta(a) \in Int
  BY AdjTypes DEF Writer
<1>2. \A p \in Product : stock'[p] = IF Locks(a, p) THEN write[a][p] ELSE stock[p]
  BY DEF AdjCommit, Publish
<1>3. /\ \A p \in Product : Locks(a, p) <=> p = q
      /\ write[a][q] = OnHand(q) + AdjDelta(a) /\ write[a][q] >= 0
  BY DEF AdjCommit, IInv, AdjWrites
<1>4. \A p \in Product : /\ stock[p] \in Int \cup {NoRow} /\ OnHand(p) \in Int
                         /\ OnHand(p) >= 0
  BY DEF IInv, TypeOK, OnHand, NoOversell
<1>5. write[a][q] \in Int /\ write[a][q] # NoRow
  BY <1>1, <1>3, <1>4, NullAssumption
<1> QED BY <1>2, <1>3, <1>4, <1>5 DEF OnHand

LEMMA AdjCommitSafe ==
  ASSUME IInv, NEW a \in Adj, AdjCommit(a)
  PROVE  Safe'
<1> DEFINE p == adjProduct[a]
<1>1. /\ adj[a] = "commit" /\ Publish(a) /\ Drop(a)
      /\ a \in Writer /\ a \notin Call /\ p \in Product /\ AdjDelta(a) \in Int
      /\ UNCHANGED <<pc, taken>>
  BY ProcessAssumption, AdjTypes DEF AdjCommit, Writer, calls
<1>2. /\ \A r \in Product :
           stock'[r] = IF Locks(a, r) THEN write[a][r] ELSE stock[r]
      /\ \A x \in Writer, r \in Product :
           /\ Locks(x, r)' <=> x # a /\ Locks(x, r)
           /\ Locks(x, r)' => write'[x][r] = write[x][r] /\ stock'[r] = stock[r]
      /\ LockExclusive'
  BY <1>1, PublishStep
<1>3. \A r \in Product :
        /\ OnHand(r)' = IF r = p THEN OnHand(r) + AdjDelta(a) ELSE OnHand(r)
        /\ OnHand(r)' >= 0
  BY AdjCommitOnHand
<1>4. \A r \in Product :
        /\ moved[r] \in Int
        /\ moved'[r] = IF r = p THEN moved[r] + AdjDelta(a) ELSE moved[r]
  BY <1>1 DEF IInv, TypeOK, AdjCommit
<1>5. NoOversell' BY <1>3 DEF NoOversell
<1>6. StockLedgerBalanced' BY <1>3, <1>4 DEF IInv, StockLedgerBalanced
<1>7. CallWrites'
  <2>1. \A c \in Call : /\ c \in Writer
                        /\ \A r \in Product :
                             /\ Locks(c, r)' <=> Locks(c, r)
                             /\ Locks(c, r) => write'[c][r] = write[c][r]
                                               /\ stock'[r] = stock[r]
    BY <1>1, <1>2 DEF Writer
  <2> QED BY <1>1, <2>1 DEF IInv, CallWrites, Taken, Inserted
<1>8. \A b \in Adj : adj'[b] = IF b = a THEN "applied" ELSE adj[b]
  BY DEF IInv, TypeOK, AdjCommit, AdjGo
<1>9. AdjWrites'
  <2>1. \A b \in Adj : /\ b \in Writer /\ adjProduct[b] \in Product
                       /\ \A r \in Product :
                            /\ Locks(b, r)' <=> b # a /\ Locks(b, r)
                            /\ b # a /\ Locks(b, r) =>
                                 write'[b][r] = write[b][r] /\ stock'[r] = stock[r]
    BY <1>2, AdjTypes DEF Writer
  <2> QED BY <1>8, <2>1 DEF IInv, AdjWrites, OnHand
<1> QED BY <1>2, <1>5, <1>6, <1>7, <1>9 DEF Safe

\* A writer without a lock has nothing to drop.
LEMMA NothingToDrop ==
  ASSUME IInv, NEW w \in Writer, UNCHANGED write, \A p \in Product : ~Locks(w, p)
  PROVE  Drop(w)
<1>1. write \in [Writer -> [Product -> Int \cup {NoWrite}]] BY DEF IInv, TypeOK
<1>2. write[w] = NoWrites BY <1>1 DEF Locks, NoWrites
<1>3. write = [write EXCEPT ![w] = NoWrites] BY <1>1, <1>2
<1> QED BY <1>3 DEF Drop

LEMMA AdjUpdateSafe ==
  ASSUME IInv, NEW a \in Adj, AdjUpdate(a)
  PROVE  Safe'
<1> DEFINE p == adjProduct[a]
           row == Seen(a, p)
<1>1. /\ adj[a] = "update" /\ ~Waits(a, p) /\ UNCHANGED <<tables, admin, calls>>
      /\ a \in Writer /\ p \in Product /\ AdjDelta(a) \in Int
  BY AdjTypes DEF AdjUpdate, Writer
<1>2. CASE Drop(a) /\ AdjGo(a, "dropped")
  BY <1>1, <1>2, AdjQuietStep
<1>3. CASE /\ row # NoRow /\ (adjType[a] = "DEDUCT" => row >= adjQty[a])
           /\ Put(a, p, row + AdjDelta(a)) /\ AdjGo(a, "commit")
  \* The row that it sees is the one on record, or the 0 it has inserted.
  <2>1. row \in Int /\ row = OnHand(p)
    <3>1. CASE Locks(a, p)
      BY <1>1, <3>1 DEF IInv, AdjWrites, Seen, OnHand
    <3>2. CASE ~Locks(a, p)
      BY <1>1, <1>3, <3>2 DEF IInv, TypeOK, Seen, OnHand
    <3> QED BY <3>1, <3>2
  <2>2. \A x \in Writer : Locks(x, p) => x = a
    <3>1. CASE Locks(a, p) BY <1>1, <3>1 DEF IInv, LockExclusive
    <3>2. CASE ~Locks(a, p)
      <4>1. stock[p] # NoRow BY <1>3, <3>2 DEF Seen
      <4> QED BY <1>1, <4>1, Unlocked
    <3> QED BY <3>1, <3>2
  <2>3. row + AdjDelta(a) \in Int BY <1>1, <2>1
  <2>4. row + AdjDelta(a) >= 0
    <3>1. OnHand(p) >= 0 BY <1>1 DEF IInv, NoOversell
    <3>2. /\ adjType[a] \in {"ADD", "DEDUCT"} /\ adjQty[a] \in Nat
          /\ AdjDelta(a) = IF adjType[a] = "DEDUCT" THEN -adjQty[a] ELSE adjQty[a]
      BY AdjTypes
    <3> HIDE DEF row
    <3> QED BY <1>3, <2>1, <3>1, <3>2
  <2>5. row + AdjDelta(a) = OnHand(p) + AdjDelta(a) BY <2>1
  <2> HIDE DEF row
  <2> QED BY <1>1, <1>3, <2>2, <2>3, <2>4, <2>5, AdjPutStep
<1> QED BY <1>2, <1>3 DEF AdjUpdate

LEMMA AdjSafe ==
  ASSUME IInv, NEW a \in Adj, AdjSend(a) \/ AdjServe(a) \/ AdjRollback(a)
  PROVE  Safe'
<1>1. a \in Writer /\ adjProduct[a] \in Product BY AdjTypes DEF Writer
<1>2. adj[a] \in {"unsent", "ensure"} => \A p \in Product : ~Locks(a, p)
  BY DEF IInv, AdjWrites
<1>3. CASE AdjSend(a)
  <2>1. Drop(a) BY <1>1, <1>2, <1>3, NothingToDrop DEF AdjSend
  <2>2. \E label \in {"ensure", "update"} : AdjGo(a, label) BY <1>3 DEF AdjSend
  <2> QED BY <1>3, <2>1, <2>2, AdjQuietStep DEF AdjSend
<1>4. CASE AdjEnsure(a)
  <2>1. CASE /\ stock[adjProduct[a]] = NoRow
             /\ \A x \in Writer : ~Locks(x, adjProduct[a])
             /\ Put(a, adjProduct[a], 0)
    BY <1>4, <2>1, AdjPutStep DEF AdjEnsure
  <2>2. CASE UNCHANGED write
    <3>1. Drop(a) BY <1>1, <1>2, <1>4, <2>2, NothingToDrop DEF AdjEnsure
    <3> QED BY <1>4, <3>1, AdjQuietStep DEF AdjEnsure
  <2> QED BY <1>4, <2>1, <2>2 DEF AdjEnsure
<1>5. CASE AdjUpdate(a) BY <1>5, AdjUpdateSafe
<1>6. CASE AdjCommit(a) BY <1>6, AdjCommitSafe
<1>7. CASE AdjRollback(a) BY <1>7, AdjQuietStep DEF AdjRollback
<1> QED BY <1>3, <1>4, <1>5, <1>6, <1>7 DEF AdjServe

LEMMA IInvStep == IInv /\ [Next]_vars => IInv'
<1> SUFFICES ASSUME IInv, [Next]_vars PROVE IInv'
  OBVIOUS
<1>1. TypeOK' BY TypeStep DEF IInv
<1>2. Safe'
  <2>1. ASSUME UNCHANGED <<tables, calls, adj, write>> PROVE Safe'
    BY <2>1, QuietStep DEF tables, calls, IInv, CallWrites, Inserted
  <2>2. ASSUME NEW p \in Product, NEW n \in Price[p], EditPrice(p, n) PROVE Safe'
    BY <2>1, <2>2 DEF EditPrice
  <2>3. CASE CloseShift BY <2>1, <2>3 DEF CloseShift
  <2>4. CASE UNCHANGED vars BY <2>1, <2>4 DEF vars
  <2> QED BY CallSafe, AdjSafe, <2>2, <2>3, <2>4 DEF Next
<1> QED BY <1>1, <1>2 DEF IInv, Safe

-----------------------------------------------------------------------------

\* Every reachable state is well formed; in particular no call is ever served
\* more than three times (createInternal's attempts).
THEOREM TypeCorrect == Spec => []TypeOK
<1>1. IInv => TypeOK BY DEF IInv
<1> QED BY IInvInit, IInvStep, <1>1, PTL DEF Spec

\* The stock of a product is the sum of its movements, for any number of
\* concurrent checkouts and adjustments (checkout, createAdjustment).
THEOREM StockBalanced == Spec => []StockLedgerBalanced
<1>1. IInv => StockLedgerBalanced BY DEF IInv
<1> QED BY IInvInit, IInvStep, <1>1, PTL DEF Spec

\* No interleaving of checkouts and adjustments sells below zero.
THEOREM NeverOversold == Spec => []NoOversell
<1>1. IInv => NoOversell BY DEF IInv
<1> QED BY IInvInit, IInvStep, <1>1, PTL DEF Spec

-----------------------------------------------------------------------------
(* Sales and receipts.                                                     *)

\* The unique index: a call past its insert is the only one with its id, and
\* nothing is recorded under the id yet.
IdReady ==
  \A c, d \in Call :
    Inserted(c) =>
      /\ sale[cidOf[reqOf[c]]] = NoSale
      /\ Inserted(d) /\ cidOf[reqOf[d]] = cidOf[reqOf[c]] => d = c

\* A call that is about to answer holds the total of its recorded sale.
ReplyReady ==
  \A c \in Call :
    pc[c] = "reply" =>
      LET s == sale[cidOf[reqOf[c]]] IN
      s # NoSale /\ Same(s.by, reqOf[c]) /\ s.total = total[c]

RecordInv == IdReady /\ ReplyReady /\ ReceiptsAgree

\* A step of call c, as far as the other calls can tell.
OnlyCall(c) ==
  \A d \in Call \ {c} :
    pc'[d] = pc[d] /\ total'[d] = total[d] /\ answer'[d] = answer[d]

LEMMA SameSelf == \A r \in Request : Same(r, r)
  BY DEF Same

LEMMA SilentStep ==
  ASSUME RecordInv, UNCHANGED <<sale, pc, total, answer>>
  PROVE  RecordInv'
  BY DEF RecordInv, IdReady, ReplyReady, ReceiptsAgree, Inserted

\* A step that neither inserts, records nor prepares an answer.
LEMMA NoReplyStep ==
  ASSUME RecordInv, NEW c \in Call, UNCHANGED sale, OnlyCall(c),
         pc'[c] \notin {"stock", "commit", "reply"},
         answer'[c].kind = "sale" => answer'[c] = answer[c]
  PROVE  RecordInv'
  BY DEF RecordInv, IdReady, ReplyReady, ReceiptsAgree, Inserted, OnlyCall

LEMMA RefuseRecord ==
  ASSUME IInv, RecordInv, NEW c \in Call, NEW kind \in AnswerKind \ {"sale"},
         Refuse(c, kind)
  PROVE  RecordInv' /\ UNCHANGED sale
<1>1. OnlyCall(c) /\ pc'[c] = "done" /\ answer'[c].kind # "sale"
  BY DEF IInv, TypeOK, Refuse, End, Go, Clear, Told, OnlyCall
<1>2. UNCHANGED sale BY DEF Refuse, tables
<1> QED BY <1>1, <1>2, NoReplyStep

LEMMA RetryRecord ==
  ASSUME IInv, RecordInv, NEW c \in Call, Retry(c)
  PROVE  RecordInv' /\ UNCHANGED sale
<1>1. CASE Refuse(c, "retry") BY <1>1, RefuseRecord DEF AnswerKind
<1>2. CASE /\ Go(c, "lookup") /\ Clear(c, try[c] + 1)
           /\ UNCHANGED <<tables, admin, answer, adj>>
  <2>1. OnlyCall(c) /\ pc'[c] = "lookup" /\ UNCHANGED answer
    BY <1>2 DEF IInv, TypeOK, Go, Clear, OnlyCall
  <2>2. UNCHANGED sale BY <1>2 DEF tables
  <2> QED BY <2>1, <2>2, NoReplyStep
<1> QED BY <1>1, <1>2 DEF Retry

\* The commit is the first record under its id, and no receipt names the id.
LEMMA CommitRecord ==
  ASSUME IInv, RecordInv, NEW c \in Call, Commit(c)
  PROVE  /\ RecordInv'
         /\ \A i \in Cid : sale[i] # NoSale => sale'[i] = sale[i]
<1> DEFINE r == reqOf[c]
           i == cidOf[r]
           row == [by |-> r, total |-> total[c]]
<1>1. /\ r \in Request /\ i \in Cid /\ Same(r, r) /\ row # NoSale
      /\ total[c] \in Nat
  BY RequestTypes, SameSelf, NullAssumption DEF IInv, TypeOK
<1>2. /\ OnlyCall(c) /\ pc'[c] = "reply" /\ UNCHANGED <<answer, total>>
      /\ pc[c] = "commit"
  BY DEF Commit, Go, OnlyCall, IInv, TypeOK
<1>3. \A j \in Cid : sale'[j] = IF j = i THEN row ELSE sale[j]
  BY DEF Commit, IInv, TypeOK
<1>4. sale[i] = NoSale
  BY <1>2 DEF RecordInv, IdReady, Inserted
<1>5. \A d \in Call : cidOf[reqOf[d]] \in Cid BY RequestTypes
<1>6. IdReady'
  BY <1>2, <1>3, <1>5 DEF RecordInv, IdReady, Inserted, OnlyCall
<1>7. ReplyReady'
  BY <1>1, <1>2, <1>3, <1>4, <1>5 DEF RecordInv, ReplyReady, OnlyCall
<1>8. ReceiptsAgree'
  BY <1>2, <1>3, <1>4, <1>5 DEF RecordInv, ReceiptsAgree
<1> QED BY <1>3, <1>4, <1>6, <1>7, <1>8 DEF RecordInv

LEMMA CallRecord ==
  ASSUME IInv, RecordInv, NEW c \in Call, Send(c) \/ Serve(c) \/ Rollback(c)
  PROVE  /\ RecordInv'
         /\ \A i \in Cid : sale[i] # NoSale => sale'[i] = sale[i]
<1> USE DEF tables
<1>1. CASE Send(c)
  <2>1. OnlyCall(c) /\ pc'[c] = "lookup" /\ UNCHANGED answer
    BY <1>1 DEF Send, Go, OnlyCall, IInv, TypeOK
  <2> QED BY <1>1, <2>1, NoReplyStep DEF Send
<1>2. CASE Lookup(c)
  <2>1. CASE Refuse(c, "mismatch") BY <2>1, RefuseRecord DEF AnswerKind
  <2>2. CASE Go(c, "validate") /\ UNCHANGED <<sale, total, answer>>
    <3>1. OnlyCall(c) /\ pc'[c] = "validate"
      BY <2>2 DEF Go, OnlyCall, IInv, TypeOK
    <3> QED BY <2>2, <3>1, NoReplyStep
  <2>3. CASE /\ sale[cidOf[reqOf[c]]] # NoSale
             /\ Same(sale[cidOf[reqOf[c]]].by, reqOf[c])
             /\ Go(c, "reply")
             /\ total' = [total EXCEPT ![c] = sale[cidOf[reqOf[c]]].total]
             /\ UNCHANGED <<sale, answer>>
    <3>1. /\ OnlyCall(c) /\ pc'[c] = "reply"
          /\ total'[c] = sale[cidOf[reqOf[c]]].total
      BY <2>3 DEF Go, OnlyCall, IInv, TypeOK
    <3>2. IdReady' /\ ReceiptsAgree'
      BY <2>3, <3>1 DEF RecordInv, IdReady, ReceiptsAgree, Inserted, OnlyCall
    <3>3. ReplyReady'
      BY <2>3, <3>1 DEF RecordInv, ReplyReady, OnlyCall
    <3> QED BY <2>3, <3>2, <3>3 DEF RecordInv
  <2> QED BY <1>2, <2>1, <2>2, <2>3 DEF Lookup
<1>3. CASE Validate(c)
  <2>1. CASE Refuse(c, "refused") BY <2>1, RefuseRecord DEF AnswerKind
  <2>2. CASE /\ Go(c, "insert")
             /\ total' = [total EXCEPT ![c] = TotalAt(reqOf[c], price)]
             /\ UNCHANGED <<sale, answer>>
    <3>1. OnlyCall(c) /\ pc'[c] = "insert"
      BY <2>2 DEF Go, OnlyCall, IInv, TypeOK
    <3> QED BY <2>2, <3>1, NoReplyStep
  <2> QED BY <1>3, <2>1, <2>2 DEF Validate
<1>4. CASE Insert(c)
  <2>1. CASE Retry(c) BY <2>1, RetryRecord
  <2>2. CASE /\ sale[cidOf[reqOf[c]]] = NoSale
             /\ Go(c, "stock") /\ UNCHANGED <<sale, total, answer>>
    <3>1. OnlyCall(c) /\ pc'[c] = "stock"
      BY <2>2 DEF Go, OnlyCall, IInv, TypeOK
    <3>2. IdReady'
      BY <1>4, <2>2, <3>1 DEF Insert, RecordInv, IdReady, Inserted, OnlyCall
    <3>3. ReplyReady' /\ ReceiptsAgree'
      BY <2>2, <3>1 DEF RecordInv, ReplyReady, ReceiptsAgree, OnlyCall
    <3> QED BY <2>2, <3>2, <3>3 DEF RecordInv
  <2> QED BY <1>4, <2>1, <2>2 DEF Insert
<1>5. CASE TakeStock(c)
  <2>1. CASE Refuse(c, "insufficient") BY <2>1, RefuseRecord DEF AnswerKind
  <2>2. CASE UNCHANGED <<sale, pc, total, answer>> BY <2>2, SilentStep
  <2> QED BY <1>5, <2>1, <2>2 DEF TakeStock
<1>6. CASE Complete(c)
  <2>1. OnlyCall(c) /\ pc'[c] = "commit" /\ pc[c] = "stock"
        /\ UNCHANGED <<sale, total, answer>>
    BY <1>6 DEF Complete, Go, OnlyCall, IInv, TypeOK
  <2>2. \A d \in Call : Inserted(d)' <=> Inserted(d)
    BY <2>1 DEF Inserted, OnlyCall
  <2>3. IdReady' BY <2>1, <2>2 DEF RecordInv, IdReady
  <2>4. ReplyReady' /\ ReceiptsAgree'
    BY <2>1 DEF RecordInv, ReplyReady, ReceiptsAgree, OnlyCall
  <2> QED BY <2>1, <2>3, <2>4 DEF RecordInv
<1>7. CASE Commit(c) BY <1>7, CommitRecord
<1>8. CASE Reply(c)
  <2>1. CASE End(c, Told("lost"))
    <3>1. OnlyCall(c) /\ pc'[c] = "done" /\ answer'[c].kind = "lost"
      BY <2>1 DEF End, Go, Clear, Told, OnlyCall, IInv, TypeOK
    <3> QED BY <1>8, <3>1, NoReplyStep DEF Reply
  <2>2. CASE End(c, Receipt(total[c]))
    <3>1. /\ OnlyCall(c) /\ pc'[c] = "done"
          /\ answer'[c] = [kind |-> "sale", total |-> total[c]]
      BY <2>2 DEF End, Go, Clear, Receipt, OnlyCall, IInv, TypeOK
    <3>2. pc[c] = "reply" /\ UNCHANGED sale BY <1>8 DEF Reply
    <3>3. IdReady' /\ ReplyReady'
      BY <3>1, <3>2 DEF RecordInv, IdReady, ReplyReady, Inserted, OnlyCall
    <3>4. ReceiptsAgree'
      BY <3>1, <3>2 DEF RecordInv, ReplyReady, ReceiptsAgree, OnlyCall
    <3> QED BY <3>2, <3>3, <3>4 DEF RecordInv
  <2> QED BY <1>8, <2>1, <2>2 DEF Reply
<1>9. CASE DeadlockVictim(c)
  BY <1>9, RetryRecord, RefuseRecord DEF DeadlockVictim, AnswerKind
<1>10. CASE Rollback(c) BY <1>10, RefuseRecord DEF Rollback, AnswerKind
<1> QED BY <1>1, <1>2, <1>3, <1>4, <1>5, <1>6, <1>7, <1>8, <1>9, <1>10 DEF Serve

LEMMA RecordInit == Init => RecordInv
  BY DEF Init, RecordInv, IdReady, ReplyReady, ReceiptsAgree, Inserted, NoAnswer

LEMMA RecordStep ==
  ASSUME IInv, RecordInv, [Next]_vars
  PROVE  /\ RecordInv'
         /\ \A i \in Cid : sale[i] # NoSale => sale'[i] = sale[i]
<1>1. ASSUME UNCHANGED <<sale, pc, total, answer>>
      PROVE  /\ RecordInv'
             /\ \A i \in Cid : sale[i] # NoSale => sale'[i] = sale[i]
  BY <1>1, SilentStep
<1>2. ASSUME NEW a \in Adj, AdjSend(a) \/ AdjServe(a) \/ AdjRollback(a)
      PROVE  UNCHANGED <<sale, pc, total, answer>>
  BY <1>2 DEF AdjSend, AdjServe, AdjEnsure, AdjUpdate, AdjCommit, AdjRollback,
              tables, calls
<1>3. ASSUME NEW p \in Product, NEW n \in Price[p], EditPrice(p, n)
      PROVE  UNCHANGED <<sale, pc, total, answer>>
  BY <1>3 DEF EditPrice, tables, calls
<1>4. CASE CloseShift BY <1>1, <1>4 DEF CloseShift, tables, calls
<1>5. CASE UNCHANGED vars BY <1>1, <1>5 DEF vars, tables, calls
<1> QED BY <1>1, <1>2, <1>3, <1>4, <1>5, CallRecord DEF Next

\* A receipt names the recorded sale of the payload it answers, at the total
\* that was recorded, however often the request is resent or its id reused
\* (createInternal, assertSameRequest).
THEOREM ReceiptsTrue == Spec => []ReceiptsAgree
<1>1. RecordInv => ReceiptsAgree BY DEF RecordInv
<1>2. IInv /\ RecordInv /\ [Next]_vars => RecordInv' BY RecordStep
<1> QED BY IInvInit, IInvStep, RecordInit, <1>1, <1>2, PTL DEF Spec

\* No step overwrites a recorded sale: uq_transactions_client_id and the bounded
\* retry sell a client_transaction_id at most once.
THEOREM SalesPermanent == Spec => SalesImmutable
<1>1. IInv /\ RecordInv /\ [Next]_vars =>
        [\A i \in Cid : sale[i] # NoSale => sale'[i] = sale[i]]_vars
  BY RecordStep
<1>2. IInv /\ RecordInv /\ [Next]_vars => RecordInv' BY RecordStep
<1> QED BY IInvInit, IInvStep, RecordInit, <1>1, <1>2, PTL DEF Spec, SalesImmutable

-----------------------------------------------------------------------------
(* Checkout implements SaleLedger: however checkouts and adjustments       *)
(* interleave, wait, retry and fail, they look like atomic ones.           *)

\* A call is answered once, when it ends.
Unanswered == \A c \in Call : pc[c] # "done" => answer[c] = NoAnswer

LInv == IInv /\ RecordInv /\ Unanswered

LEMMA LedgerInit == Init => Ledger!Init
<1> SUFFICES ASSUME Init PROVE Ledger!Init
  OBVIOUS
<1>1. \A p \in Product : OnHand(p) \in Nat
  BY NullAssumption DEF Init, OnHand
<1>2. \A c \in Call : answer[c].kind = "none" /\ answer[c] = NoAnswer
  BY DEF Init, NoAnswer
<1> QED
  BY <1>1, <1>2 DEF Ledger!Init, Ledger!NoAnswer, Init, NoAnswer

\* What a call is told when it ends is an answer of the ledger.
LEMMA EndAnswers ==
  ASSUME LInv, NEW c \in Call, pc[c] # "done", NEW told, End(c, told),
         UNCHANGED <<sale, stock>>,
         \/ told.kind \notin {"none", "sale"}
         \/ /\ told = Receipt(sale[cidOf[reqOf[c]]].total)
            /\ sale[cidOf[reqOf[c]]] # NoSale
            /\ Same(sale[cidOf[reqOf[c]]].by, reqOf[c])
  PROVE  Ledger!Answer(c)
<1>1. answer[c] = NoAnswer /\ NoAnswer.kind = "none"
  BY DEF LInv, Unanswered, NoAnswer
<1>2. \A d \in Call : answer'[d] = IF d = c THEN told ELSE answer[d]
  BY DEF End, LInv, IInv, TypeOK
<1>3. \A p \in Product : OnHand(p)' = OnHand(p)
  BY DEF OnHand
<1> QED
  BY <1>1, <1>2, <1>3
     DEF Ledger!Answer, Ledger!NoAnswer, Ledger!Refusal, Ledger!Receipt, NoAnswer, Receipt

\* A step that the ledger does not see.
LEMMA Stutter ==
  ASSUME UNCHANGED <<sale, stock, answer>>
  PROVE  UNCHANGED Ledger!ledgerVars
  BY DEF Ledger!ledgerVars, OnHand

LEMMA RefuseAnswers ==
  ASSUME LInv, NEW c \in Call, pc[c] # "done",
         NEW kind \in AnswerKind \ {"none", "sale"}, Refuse(c, kind)
  PROVE  Ledger!Answer(c)
<1>1. End(c, Told(kind)) /\ UNCHANGED <<sale, stock>> /\ Told(kind).kind = kind
  BY DEF Refuse, tables, Told
<1>2. Told(kind).kind \notin {"none", "sale"} BY <1>1
<1> QED BY <1>1, <1>2, EndAnswers

LEMMA RetryAnswers ==
  ASSUME LInv, NEW c \in Call, pc[c] # "done", Retry(c)
  PROVE  Ledger!Answer(c) \/ UNCHANGED Ledger!ledgerVars
<1>1. CASE Refuse(c, "retry") BY <1>1, RefuseAnswers DEF AnswerKind
<1>2. CASE UNCHANGED <<tables, admin, answer, adj>>
  BY <1>2, Stutter DEF tables
<1> QED BY <1>1, <1>2 DEF Retry

\* COMMIT of a checkout records its sale.
LEMMA CommitRecords ==
  ASSUME LInv, NEW c \in Call, Commit(c)
  PROVE  Ledger!Record(reqOf[c])
<1> DEFINE r == reqOf[c]
           i == cidOf[r]
<1>1. /\ i \in Cid /\ total[c] \in Nat
      /\ \A p \in Product : demand[r][p] \in Nat
  BY RequestTypes DEF LInv, IInv, TypeOK
<1>2. sale[i] = NoSale
  BY DEF Commit, LInv, RecordInv, IdReady, Inserted
<1>3. /\ sale' = [sale EXCEPT ![i] = [by |-> r, total |-> total[c]]]
      /\ sale'[i] = [by |-> r, total |-> total[c]]
      /\ UNCHANGED answer
  BY <1>1 DEF Commit, LInv, IInv, TypeOK
<1>4. \A p \in Product : /\ OnHand(p)' = OnHand(p) - demand[r][p]
                        /\ OnHand(p)' >= 0 /\ OnHand(p) \in Int
  BY CommitOnHand DEF LInv, IInv, TypeOK, OnHand
<1>5. \A p \in Product : OnHand(p) >= demand[r][p] BY <1>1, <1>4
<1>6. sale'[i] \in [by : {r}, total : Nat] BY <1>1, <1>3
<1> QED BY <1>2, <1>3, <1>4, <1>5, <1>6 DEF Ledger!Record

\* COMMIT of an adjustment adjusts the stock.
LEMMA AdjCommitAdjusts ==
  ASSUME LInv, NEW a \in Adj, AdjCommit(a)
  PROVE  Ledger!Adjust(adjProduct[a], AdjDelta(a))
<1>1. adjProduct[a] \in Product BY AdjTypes
<1>2. \A p \in Product :
        /\ OnHand(p)' = IF p = adjProduct[a] THEN OnHand(p) + AdjDelta(a)
                                             ELSE OnHand(p)
        /\ OnHand(p)' >= 0
  BY AdjCommitOnHand DEF LInv
<1>3. OnHand(adjProduct[a]) + AdjDelta(a) >= 0 BY <1>1, <1>2
<1>4. UNCHANGED <<sale, answer>> BY DEF AdjCommit, calls
<1> QED BY <1>1, <1>2, <1>3, <1>4 DEF Ledger!Adjust

\* A call on a cycle of the wait-for graph has decremented a row, so it has not
\* been answered.
LEMMA VictimInserted ==
  ASSUME IInv, NEW c \in Call, InCycle(c)
  PROVE  Inserted(c)
<1>1. PICK x \in Call : WaitsFor(x, c) BY DEF InCycle
<1>2. NextStock(x) \in Product BY <1>1, NextInProduct DEF WaitsFor, IInv
<1>3. Taken(c, NextStock(x)) BY <1>1, <1>2 DEF WaitsFor, IInv, CallWrites
<1>4. taken[c] # 0 BY <1>3 DEF Taken
<1> QED BY <1>4 DEF IInv, CallWrites

LEMMA CallLedger ==
  ASSUME LInv, NEW c \in Call, Send(c) \/ Serve(c) \/ Rollback(c)
  PROVE  /\ pc[c] # "done"
         /\ \/ Ledger!Answer(c)
            \/ Ledger!Record(reqOf[c])
            \/ UNCHANGED Ledger!ledgerVars
<1> USE DEF tables
<1>1. CASE Send(c) BY <1>1, Stutter DEF Send
<1>2. CASE Lookup(c)
  <2>1. CASE Refuse(c, "mismatch")
    BY <1>2, <2>1, RefuseAnswers DEF Lookup, AnswerKind
  <2>2. CASE UNCHANGED <<sale, stock, answer>> BY <1>2, <2>2, Stutter DEF Lookup
  <2> QED BY <1>2, <2>1, <2>2 DEF Lookup
<1>3. CASE Validate(c)
  <2>1. CASE Refuse(c, "refused")
    BY <1>3, <2>1, RefuseAnswers DEF Validate, AnswerKind
  <2>2. CASE UNCHANGED <<sale, stock, answer>> BY <1>3, <2>2, Stutter DEF Validate
  <2> QED BY <1>3, <2>1, <2>2 DEF Validate
<1>4. CASE Insert(c)
  <2>1. CASE Retry(c) BY <1>4, <2>1, RetryAnswers DEF Insert
  <2>2. CASE UNCHANGED <<sale, stock, answer>> BY <1>4, <2>2, Stutter DEF Insert
  <2> QED BY <1>4, <2>1, <2>2 DEF Insert
<1>5. CASE TakeStock(c)
  <2>1. CASE Refuse(c, "insufficient")
    BY <1>5, <2>1, RefuseAnswers DEF TakeStock, AnswerKind
  <2>2. CASE UNCHANGED <<sale, stock, answer>> BY <1>5, <2>2, Stutter DEF TakeStock
  <2> QED BY <1>5, <2>1, <2>2 DEF TakeStock
<1>6. CASE Complete(c) BY <1>6, Stutter DEF Complete
<1>7. CASE Commit(c) BY <1>7, CommitRecords DEF Commit
<1>8. CASE Reply(c)
  <2>1. pc[c] = "reply" /\ UNCHANGED <<sale, stock>> BY <1>8 DEF Reply
  <2>2. CASE End(c, Told("lost"))
    <3>1. Told("lost").kind \notin {"none", "sale"} BY DEF Told
    <3> QED BY <2>1, <2>2, <3>1, EndAnswers
  <2>3. CASE End(c, Receipt(total[c]))
    BY <2>1, <2>3, EndAnswers DEF LInv, RecordInv, ReplyReady
  <2> QED BY <1>8, <2>1, <2>2, <2>3 DEF Reply
<1>9. CASE DeadlockVictim(c)
  <2>1. pc[c] # "done" BY <1>9, VictimInserted DEF DeadlockVictim, LInv, Inserted
  <2> QED BY <1>9, <2>1, RetryAnswers, RefuseAnswers DEF DeadlockVictim, AnswerKind
<1>10. CASE Rollback(c) BY <1>10, RefuseAnswers DEF Rollback, AnswerKind
<1> QED BY <1>1, <1>2, <1>3, <1>4, <1>5, <1>6, <1>7, <1>8, <1>9, <1>10 DEF Serve

LEMMA LedgerStep == LInv /\ [Next]_vars => [Ledger!Next]_Ledger!ledgerVars
<1> SUFFICES ASSUME LInv, [Next]_vars
             PROVE  Ledger!Next \/ UNCHANGED Ledger!ledgerVars
  OBVIOUS
<1>1. ASSUME NEW c \in Call, Send(c) \/ Serve(c) \/ Rollback(c)
      PROVE  Ledger!Next \/ UNCHANGED Ledger!ledgerVars
  BY <1>1, CallLedger, RequestTypes DEF Ledger!Next
<1>2. ASSUME NEW a \in Adj, AdjSend(a) \/ AdjServe(a) \/ AdjRollback(a)
      PROVE  Ledger!Next \/ UNCHANGED Ledger!ledgerVars
  <2>1. CASE AdjCommit(a) BY <2>1, AdjCommitAdjusts, AdjTypes DEF Ledger!Next
  <2>2. CASE UNCHANGED <<sale, stock, answer>> BY <2>2, Stutter
  <2> QED BY <1>2, <2>1, <2>2 DEF AdjSend, AdjServe, AdjEnsure, AdjUpdate,
             AdjRollback, tables, calls
<1>3. ASSUME NEW p \in Product, NEW n \in Price[p], EditPrice(p, n)
      PROVE  UNCHANGED Ledger!ledgerVars
  BY <1>3, Stutter DEF EditPrice, tables, calls
<1>4. CASE CloseShift BY <1>4, Stutter DEF CloseShift, tables, calls
<1>5. CASE UNCHANGED vars BY <1>5, Stutter DEF vars, tables, calls
<1> QED BY <1>1, <1>2, <1>3, <1>4, <1>5 DEF Next

-----------------------------------------------------------------------------

LEMMA EndAnswered ==
  ASSUME TypeOK, Unanswered, NEW c \in Call, NEW told, End(c, told)
  PROVE  Unanswered'
  BY DEF TypeOK, Unanswered, End, Go

LEMMA GoesOn ==
  ASSUME TypeOK, Unanswered, NEW c \in Call, pc[c] # "done", NEW label, Go(c, label),
         UNCHANGED answer
  PROVE  Unanswered'
  BY DEF TypeOK, Unanswered, Go

LEMMA RetryAnswered ==
  ASSUME TypeOK, Unanswered, NEW c \in Call, pc[c] # "done", Retry(c)
  PROVE  Unanswered'
  BY EndAnswered, GoesOn DEF Retry, Refuse

LEMMA AnsweredStep == LInv /\ [Next]_vars => Unanswered'
<1> SUFFICES ASSUME LInv, [Next]_vars PROVE Unanswered'
  OBVIOUS
<1>1. TypeOK /\ Unanswered BY DEF LInv, IInv
<1>2. ASSUME NEW c \in Call, Send(c) \/ Serve(c) \/ Rollback(c) PROVE Unanswered'
  <2>1. pc[c] # "done" BY <1>2, CallLedger
  <2>2. CASE Send(c) BY <1>1, <2>1, <2>2, GoesOn DEF Send
  <2>3. CASE Lookup(c) BY <1>1, <2>1, <2>3, GoesOn, EndAnswered DEF Lookup, Refuse
  <2>4. CASE Validate(c)
    BY <1>1, <2>1, <2>4, GoesOn, EndAnswered DEF Validate, Refuse
  <2>5. CASE Insert(c) BY <1>1, <2>1, <2>5, GoesOn, RetryAnswered DEF Insert
  <2>6. CASE TakeStock(c)
    <3>1. CASE UNCHANGED <<pc, answer>> BY <1>1, <3>1 DEF Unanswered
    <3> QED BY <1>1, <2>6, <3>1, EndAnswered DEF TakeStock, Refuse
  <2>7. CASE Complete(c) BY <1>1, <2>1, <2>7, GoesOn DEF Complete
  <2>8. CASE Commit(c) BY <1>1, <2>1, <2>8, GoesOn DEF Commit
  <2>9. CASE Reply(c) BY <1>1, <2>9, EndAnswered DEF Reply
  <2>10. CASE DeadlockVictim(c)
    BY <1>1, <2>1, <2>10, RetryAnswered, EndAnswered DEF DeadlockVictim, Refuse
  <2>11. CASE Rollback(c) BY <1>1, <2>11, EndAnswered DEF Rollback, Refuse
  <2> QED BY <1>2, <2>2, <2>3, <2>4, <2>5, <2>6, <2>7, <2>8, <2>9, <2>10, <2>11
          DEF Serve
<1>3. ASSUME UNCHANGED calls PROVE Unanswered'
  BY <1>1, <1>3 DEF calls, Unanswered
<1>4. ASSUME NEW a \in Adj, AdjSend(a) \/ AdjServe(a) \/ AdjRollback(a)
      PROVE  UNCHANGED calls
  BY <1>4 DEF AdjSend, AdjServe, AdjEnsure, AdjUpdate, AdjCommit, AdjRollback
<1>5. ASSUME NEW p \in Product, NEW n \in Price[p], EditPrice(p, n)
      PROVE  UNCHANGED calls
  BY <1>5 DEF EditPrice
<1>6. CASE CloseShift BY <1>3, <1>6 DEF CloseShift
<1>7. CASE UNCHANGED vars BY <1>3, <1>7 DEF vars
<1> QED BY <1>2, <1>3, <1>4, <1>5, <1>6, <1>7 DEF Next

\* Checkouts and stock adjustments, with their statements interleaved in any way,
\* with retries, deadlocks, crashes and resent requests, implement the atomic
\* ledger (TransactionsService.create, StockService.createAdjustment).
THEOREM LedgerImplemented == Spec => ImplementsLedger
<1>1. Init => LInv
  BY IInvInit, RecordInit DEF Init, LInv, Unanswered
<1>2. LInv /\ [Next]_vars => LInv'
  BY IInvStep, RecordStep, AnsweredStep DEF LInv
<1> QED BY LedgerInit, LedgerStep, <1>1, <1>2, PTL DEF Spec, ImplementsLedger, Ledger!Spec
===============================================================================
