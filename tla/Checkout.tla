------------------------------- MODULE Checkout -------------------------------
(***************************************************************************)
(* POST /transactions (TransactionsService.createInternal, checkout) and   *)
(* POST /stock/adjustments (StockService.createAdjustment) of one tenant   *)
(* and outlet: concurrent READ COMMITTED transactions, one action per SQL  *)
(* statement that meets another request.                                   *)
(*                                                                         *)
(* A request may be delivered several times, concurrently: the client      *)
(* resends what it got no answer for, with the same client_transaction_id. *)
(* Each delivery is a member of Call.  A transaction keeps what it wrote   *)
(* to product_stocks in write[w]; having an entry there is holding the row *)
(* lock.  COMMIT publishes the entries, anything else drops them.          *)
(***************************************************************************)
EXTENDS Integers, Sequences, SequencesExt

CONSTANTS
  Request, Cid, cidOf,
  lines,      \* lines[r]: its items, in the order of the request
  rest,       \* rest[r]: its other compared fields (session, customer, ...)
  tender,     \* tender[r]: the cash received
  Call, reqOf,
  Product, Tracked, InitStock,
  Price,      \* Price[p]: the prices an admin may set for p
  Adj, adjProduct, adjType, adjQty,  \* the stock adjustments
  Together,   \* the sets of calls and adjustments made beside each other
  NoSale, NoRow, NoWrite

VARIABLES
  sale,       \* sale[i]: the COMPLETED transactions row under i
  stock,      \* stock[p]: product_stocks, NoRow until the row exists
  moved,      \* moved[p]: the sum of the committed stock_movements
  price,      \* price[p]: products.price
  shiftOpen,  \* whether the cashier session of the requests is OPEN
  pc,         \* pc[c]: the next statement of call c,
  try,        \*   the number of its attempt,
  taken,      \*   how many of its stock rows it has decremented,
  total,      \*   and the total it has computed or found
  answer,     \* answer[c]: what the client was told
  adj,        \* adj[a]: the next statement of a, or how it ended
  write       \* write[w][p]: the uncommitted stock of p written by w

tables == <<sale, stock, moved>>
admin == <<price, shiftOpen>>
calls == <<pc, try, taken, total, answer>>

vars == <<tables, admin, calls, adj, write>>

-----------------------------------------------------------------------------
(* The payload of a request.                                               *)

QtyOf(r, p) ==
  FoldLeft(LAMBDA n, line : n + IF line.product = p THEN line.qty ELSE 0,
           0, lines[r])

AnyPrice == UNION {Price[p] : p \in Product}

TotalAt(r, prices) ==
  FoldLeft(LAMBDA n, line : n + line.qty * prices[line.product], 0, lines[r])

\* stockByProduct: the quantities of duplicate lines of a tracked product are
\* added up.
demand == [r \in Request |->
            [p \in Product |-> IF p \in Tracked THEN QtyOf(r, p) ELSE 0]]

\* The keys of stockByProduct in insertion order: a tracked product comes
\* where its first line is.
stockOrder ==
  [r \in Request |->
    LET firsts == {i \in DOMAIN lines[r] :
                     /\ lines[r][i].product \in Tracked
                     /\ \A j \in 1..(i - 1) :
                          lines[r][j].product # lines[r][i].product}
        index == SetToSortSeq(firsts, <)
    IN [k \in DOMAIN index |-> lines[r][index[k]].product]]

\* assertSameRequest: the order of the lines does not matter.
Same(r, t) ==
  /\ ToBag(lines[r]) = ToBag(lines[t])
  /\ rest[r] = rest[t]
  /\ tender[r] = tender[t]

\* What an order takes and owes are natural numbers, and every product that it
\* takes is in its stock order once.
ASSUME PayloadAssumption ==
  /\ cidOf \in [Request -> Cid]
  /\ demand \in [Request -> [Product -> Nat]]
  /\ \A r \in Request : \A f \in [Product -> AnyPrice] : TotalAt(r, f) \in Int
  /\ stockOrder \in [Request -> Seq(Product)]
  /\ \A r \in Request :
       /\ \A k, l \in 1..Len(stockOrder[r]) :
            stockOrder[r][k] = stockOrder[r][l] => k = l
       /\ \A p \in Product : demand[r][p] # 0 =>
            \E k \in 1..Len(stockOrder[r]) : stockOrder[r][k] = p

ASSUME ProcessAssumption ==
  /\ reqOf \in [Call -> Request]
  /\ adjProduct \in [Adj -> Product]
  /\ adjType \in [Adj -> {"ADD", "DEDUCT"}]
  /\ adjQty \in [Adj -> Nat \ {0}]
  /\ Call \cap Adj = {}

ASSUME NullAssumption ==
  /\ NoSale \notin [by : Request, total : Nat]
  /\ NoRow \notin Int /\ NoWrite \notin Int
  /\ InitStock \in [Product -> Nat \cup {NoRow}]

-----------------------------------------------------------------------------

Writer == Call \cup Adj

CallPc == {"unsent", "lookup", "validate", "insert", "stock", "commit",
           "reply", "done"}
AdjPc == {"unsent", "ensure", "update", "commit", "applied", "dropped"}

NoAnswer == [kind |-> "none", total |-> 0]
Told(kind) == [kind |-> kind, total |-> 0]
Receipt(n) == [kind |-> "sale", total |-> n]

\* "lost": the client is told nothing it can use, a 500 or no answer at all;
\* "retry": the 503 TRANSACTION_RETRY_REQUIRED.
AnswerKind == {"none", "sale", "mismatch", "refused", "insufficient",
               "retry", "lost"}

NoWrites == [p \in Product |-> NoWrite]

TypeOK ==
  /\ sale \in [Cid -> [by : Request, total : Nat] \cup {NoSale}]
  /\ stock \in [Product -> Int \cup {NoRow}]
  /\ moved \in [Product -> Int]
  /\ price \in [Product -> AnyPrice]
  /\ shiftOpen \in BOOLEAN
  /\ pc \in [Call -> CallPc]
  /\ try \in [Call -> 1..3]
  /\ taken \in [Call -> Nat]
  /\ total \in [Call -> Nat]
  /\ answer \in [Call -> [kind : AnswerKind, total : Nat]]
  /\ adj \in [Adj -> AdjPc]
  /\ write \in [Writer -> [Product -> Int \cup {NoWrite}]]

Init ==
  /\ sale = [i \in Cid |-> NoSale]
  /\ stock = InitStock
  /\ moved = [p \in Product |-> IF InitStock[p] = NoRow THEN 0 ELSE InitStock[p]]
  /\ price \in {f \in [Product -> AnyPrice] :
                \A p \in Product : f[p] \in Price[p]}
  /\ shiftOpen = TRUE
  /\ \E S \in Together :
       /\ pc = [c \in Call |-> IF c \in S THEN "unsent" ELSE "done"]
       /\ adj = [a \in Adj |-> IF a \in S THEN "unsent" ELSE "dropped"]
  /\ try = [c \in Call |-> 1]
  /\ taken = [c \in Call |-> 0]
  /\ total = [c \in Call |-> 0]
  /\ answer = [c \in Call |-> NoAnswer]
  /\ write = [w \in Writer |-> NoWrites]

-----------------------------------------------------------------------------
(* Row locks of product_stocks.                                            *)

Locks(w, p) == write[w][p] # NoWrite

\* A statement waits for the transaction that holds a row it can see; a row
\* that another transaction has inserted but not committed is invisible.
Waits(w, p) == stock[p] # NoRow /\ \E x \in Writer \ {w} : Locks(x, p)

\* The row as a statement of w sees it once it has the lock.
Seen(w, p) == IF Locks(w, p) THEN write[w][p] ELSE stock[p]

Publish(w) ==
  stock' = [p \in Product |-> IF Locks(w, p) THEN write[w][p] ELSE stock[p]]

Drop(w) == write' = [write EXCEPT ![w] = NoWrites]

Put(w, p, n) ==
  write' = [write EXCEPT ![w] = [q \in Product |-> IF q = p THEN n ELSE write[w][q]]]

-----------------------------------------------------------------------------
(* TransactionsService.                                                    *)

Go(c, label) == pc' = [pc EXCEPT ![c] = label]

\* What c keeps in memory when an attempt starts, and when it is over.
Clear(c, attempt) ==
  /\ try' = [try EXCEPT ![c] = attempt]
  /\ taken' = [taken EXCEPT ![c] = 0]
  /\ total' = [total EXCEPT ![c] = 0]

End(c, told) ==
  /\ Go(c, "done")
  /\ Clear(c, 1)
  /\ answer' = [answer EXCEPT ![c] = told]

\* Broken variant: a refused request leaves its transaction open.
RefuseKeepsLocks(c, kind) ==
  /\ End(c, Told(kind))
  /\ UNCHANGED <<tables, admin, adj, write>>

\* The transaction ends without COMMIT and the client is told why.
Refuse(c, kind) ==
  /\ End(c, Told(kind))
  /\ Drop(c)
  /\ UNCHANGED <<tables, admin, adj>>

\* Broken variant: one attempt too many.
RetryOneMore(c) ==
  \/ /\ try[c] <= 3
     /\ Go(c, "lookup")
     /\ Clear(c, try[c] + 1)
     /\ Drop(c)
     /\ UNCHANGED <<tables, admin, answer, adj>>
  \/ try[c] > 3 /\ Refuse(c, "retry")

\* P2034, or P2002 on uq_transactions_client_id: the whole transaction is run
\* again, three times at most.
Retry(c) ==
  \/ /\ try[c] < 3
     /\ Go(c, "lookup")
     /\ Clear(c, try[c] + 1)
     /\ Drop(c)
     /\ UNCHANGED <<tables, admin, answer, adj>>
  \/ try[c] = 3 /\ Refuse(c, "retry")

Send(c) ==
  /\ pc[c] = "unsent"
  /\ Go(c, "lookup")
  /\ UNCHANGED <<tables, admin, try, taken, total, answer, adj, write>>

\* Broken variant: the payload of the recorded sale is not compared.
LookupAnyPayload(c) ==
  LET s == sale[cidOf[reqOf[c]]] IN
  /\ pc[c] = "lookup"
  /\ \/ s = NoSale /\ Go(c, "validate") /\ UNCHANGED total
     \/ /\ s # NoSale /\ Go(c, "reply")
        /\ total' = [total EXCEPT ![c] = s.total]
  /\ UNCHANGED <<tables, admin, try, taken, answer, adj, write>>

\* The idempotency lookup comes before anything mutable is validated.
Lookup(c) ==
  LET s == sale[cidOf[reqOf[c]]] IN
  /\ pc[c] = "lookup"
  /\ \/ /\ s = NoSale
        /\ Go(c, "validate")
        /\ UNCHANGED <<tables, admin, try, taken, total, answer, adj, write>>
     \/ /\ s # NoSale /\ Same(s.by, reqOf[c])
        /\ Go(c, "reply")
        /\ total' = [total EXCEPT ![c] = s.total]
        /\ UNCHANGED <<tables, admin, try, taken, answer, adj, write>>
     \/ s # NoSale /\ ~Same(s.by, reqOf[c]) /\ Refuse(c, "mismatch")

\* The session, the products and the tender; the total is fixed here.
Validate(c) ==
  LET due == TotalAt(reqOf[c], price)
      valid == shiftOpen /\ due > 0 /\ tender[reqOf[c]] >= due
  IN
  /\ pc[c] = "validate"
  /\ \/ /\ valid
        /\ Go(c, "insert")
        /\ total' = [total EXCEPT ![c] = due]
        /\ UNCHANGED <<tables, admin, try, taken, answer, adj, write>>
     \/ ~valid /\ Refuse(c, "refused")

\* The uncommitted transactions row of c.
Inserted(c) == pc[c] \in {"stock", "commit"}

\* The unique index makes the insert wait for the transaction that has
\* inserted the same id.
Insert(c) ==
  LET i == cidOf[reqOf[c]] IN
  /\ pc[c] = "insert"
  /\ ~\E d \in Call \ {c} : cidOf[reqOf[d]] = i /\ Inserted(d)
  /\ \/ /\ sale[i] = NoSale
        /\ Go(c, "stock")
        /\ UNCHANGED <<tables, admin, try, taken, total, answer, adj, write>>
     \/ sale[i] # NoSale /\ Retry(c)

StockLeft(c) == taken[c] < Len(stockOrder[reqOf[c]])
NextStock(c) == stockOrder[reqOf[c]][taken[c] + 1]

\* Broken variant: the stock is read first and written back, without a lock.
TakeStockNoLock(c) ==
  LET p == NextStock(c)
      qty == demand[reqOf[c]][p]
      enough == stock[p] # NoRow /\ stock[p] >= qty
  IN
  /\ pc[c] = "stock" /\ StockLeft(c)
  /\ \/ /\ enough
        /\ Put(c, p, stock[p] - qty)
        /\ taken' = [taken EXCEPT ![c] = taken[c] + 1]
        /\ UNCHANGED <<tables, admin, pc, try, total, answer, adj>>
     \/ ~enough /\ Refuse(c, "insufficient")

\* Broken variant: the decrement does not ask for enough stock.
TakeStockUnchecked(c) ==
  LET p == NextStock(c) IN
  /\ pc[c] = "stock" /\ StockLeft(c)
  /\ ~Waits(c, p)
  /\ \/ /\ stock[p] # NoRow
        /\ Put(c, p, stock[p] - demand[reqOf[c]][p])
        /\ taken' = [taken EXCEPT ![c] = taken[c] + 1]
        /\ UNCHANGED <<tables, admin, pc, try, total, answer, adj>>
     \/ stock[p] = NoRow /\ Refuse(c, "insufficient")

\* The conditional decrement of the next stock row: one statement.
TakeStock(c) ==
  LET p == NextStock(c)
      qty == demand[reqOf[c]][p]
      enough == stock[p] # NoRow /\ stock[p] >= qty
  IN
  /\ pc[c] = "stock" /\ StockLeft(c)
  /\ ~Waits(c, p)
  /\ \/ /\ enough
        /\ Put(c, p, stock[p] - qty)
        /\ taken' = [taken EXCEPT ![c] = taken[c] + 1]
        /\ UNCHANGED <<tables, admin, pc, try, total, answer, adj>>
     \/ ~enough /\ Refuse(c, "insufficient")

\* The movements, the payment and the COMPLETED status.
Complete(c) ==
  /\ pc[c] = "stock" /\ ~StockLeft(c)
  /\ Go(c, "commit")
  /\ UNCHANGED <<tables, admin, try, taken, total, answer, adj, write>>

Commit(c) ==
  LET r == reqOf[c] IN
  /\ pc[c] = "commit"
  /\ sale' = [sale EXCEPT ![cidOf[r]] = [by |-> r, total |-> total[c]]]
  /\ Publish(c) /\ Drop(c)
  /\ moved' = [p \in Product |-> moved[p] - demand[r][p]]
  /\ Go(c, "reply")
  /\ taken' = [taken EXCEPT ![c] = 0]
  /\ UNCHANGED <<admin, try, total, answer, adj>>

\* The response, which may not reach the client.
Reply(c) ==
  /\ pc[c] = "reply"
  /\ End(c, Receipt(total[c])) \/ End(c, Told("lost"))
  /\ UNCHANGED <<tables, admin, adj, write>>

\* Any failure of an open transaction: a 500, the 5 s timeout of interactive
\* transactions, a lost connection or a crash of the server.
Rollback(c) ==
  /\ pc[c] \in {"lookup", "validate", "insert", "stock", "commit"}
  /\ Refuse(c, "lost")

-----------------------------------------------------------------------------
(* Deadlocks on stock rows: PostgreSQL aborts one transaction of the cycle. *)

WaitsFor(c, d) ==
  /\ pc[c] = "stock" /\ StockLeft(c) /\ c # d
  /\ stock[NextStock(c)] # NoRow /\ Locks(d, NextStock(c))

InCycle(c) ==
  \E S \in SUBSET {d \in Call : pc[d] = "stock"} :
    c \in S /\ {d \in Call : \E x \in S : WaitsFor(x, d)} = S

DeadlockVictim(c) == InCycle(c) /\ (Retry(c) \/ Refuse(c, "lost"))

-----------------------------------------------------------------------------
(* StockService.createAdjustment.                                          *)

AdjGo(a, label) == adj' = [adj EXCEPT ![a] = label]

AdjSend(a) ==
  /\ adj[a] = "unsent"
  /\ AdjGo(a, IF adjType[a] = "ADD" THEN "ensure" ELSE "update")
  /\ UNCHANGED <<tables, admin, calls, write>>

\* createMany with skipDuplicates: it inserts the row, waits for whoever is
\* inserting it, or does nothing.
AdjEnsure(a) ==
  LET p == adjProduct[a] IN
  /\ adj[a] = "ensure"
  /\ \/ stock[p] = NoRow /\ (\A x \in Writer : ~Locks(x, p)) /\ Put(a, p, 0)
     \/ stock[p] # NoRow /\ UNCHANGED write
  /\ AdjGo(a, "update")
  /\ UNCHANGED <<tables, admin, calls>>

AdjDelta(a) == IF adjType[a] = "DEDUCT" THEN -adjQty[a] ELSE adjQty[a]

\* Broken variant: the row is read without a lock and written back.
AdjUpdateNoLock(a) ==
  LET p == adjProduct[a]
      row == Seen(a, p)
      granted == row # NoRow /\ (adjType[a] = "DEDUCT" => row >= adjQty[a])
  IN
  /\ adj[a] = "update"
  /\ \/ granted /\ Put(a, p, row + AdjDelta(a)) /\ AdjGo(a, "commit")
     \/ ~granted /\ Drop(a) /\ AdjGo(a, "dropped")
  /\ UNCHANGED <<tables, admin, calls>>

AdjUpdate(a) ==
  LET p == adjProduct[a]
      row == Seen(a, p)
      granted == row # NoRow /\ (adjType[a] = "DEDUCT" => row >= adjQty[a])
  IN
  /\ adj[a] = "update"
  /\ ~Waits(a, p)
  /\ \/ granted /\ Put(a, p, row + AdjDelta(a)) /\ AdjGo(a, "commit")
     \/ ~granted /\ Drop(a) /\ AdjGo(a, "dropped")      \* Insufficient stock
  /\ UNCHANGED <<tables, admin, calls>>

AdjCommit(a) ==
  /\ adj[a] = "commit"
  /\ Publish(a) /\ Drop(a)
  /\ moved' = [moved EXCEPT ![adjProduct[a]] = moved[adjProduct[a]] + AdjDelta(a)]
  /\ AdjGo(a, "applied")
  /\ UNCHANGED <<sale, admin, calls>>

AdjRollback(a) ==
  /\ adj[a] \in {"ensure", "update", "commit"}
  /\ Drop(a)
  /\ AdjGo(a, "dropped")
  /\ UNCHANGED <<tables, admin, calls>>

-----------------------------------------------------------------------------
(* The rest of the program, as far as a checkout can see it.               *)

EditPrice(p, n) ==
  /\ price' = [price EXCEPT ![p] = n]
  /\ UNCHANGED <<tables, shiftOpen, calls, adj, write>>

CloseShift ==
  /\ shiftOpen' = FALSE
  /\ UNCHANGED <<tables, price, calls, adj, write>>

-----------------------------------------------------------------------------

Serve(c) ==
  \/ Lookup(c) \/ Validate(c) \/ Insert(c) \/ TakeStock(c) \/ Complete(c)
  \/ Commit(c) \/ Reply(c) \/ DeadlockVictim(c)

AdjServe(a) == AdjEnsure(a) \/ AdjUpdate(a) \/ AdjCommit(a)

Next ==
  \/ \E c \in Call : Send(c) \/ Serve(c) \/ Rollback(c)
  \/ \E a \in Adj : AdjSend(a) \/ AdjServe(a) \/ AdjRollback(a)
  \/ \E p \in Product : \E n \in Price[p] : EditPrice(p, n)
  \/ CloseShift

Spec == Init /\ [][Next]_vars

\* Every statement that can run is run: PostgreSQL and the event loop go on.
\* Nothing is assumed of new requests, of failures, or of the admin.
FairSpec ==
  /\ Spec
  /\ \A c \in Call : WF_vars(Serve(c))
  /\ \A a \in Adj : WF_vars(AdjServe(a))

-----------------------------------------------------------------------------

OnHand(p) == IF stock[p] = NoRow THEN 0 ELSE stock[p]
OnHandAtStart(p) == IF InitStock[p] = NoRow THEN 0 ELSE InitStock[p]

\* The stock of a product is the sum of its movements, however checkouts and
\* adjustments interleave, wait, fail and retry.
StockLedgerBalanced == \A p \in Product : OnHand(p) = moved[p]

\* Stock is never sold or deducted below zero.
NoOversell == \A p \in Product : OnHand(p) >= 0

\* Every receipt names the recorded sale of the payload it answers, at the
\* total that was recorded, whatever happened to prices in between.
ReceiptsAgree ==
  \A c \in Call :
    answer[c].kind = "sale" =>
      LET s == sale[cidOf[reqOf[c]]] IN
      s # NoSale /\ Same(s.by, reqOf[c]) /\ s.total = answer[c].total

\* A recorded sale is never overwritten.
SalesImmutable ==
  [][\A i \in Cid : sale[i] # NoSale => sale'[i] = sale[i]]_vars

\* Concurrent checkouts and adjustments look like atomic ones.
Ledger == INSTANCE SaleLedger WITH
  Total <- Nat,
  Delta <- {AdjDelta(a) : a \in Adj},
  stock <- [p \in Product |-> OnHand(p)],
  answer <- [c \in Call |->
              IF answer[c].kind \in {"none", "sale"} THEN answer[c]
              ELSE [kind |-> "refused", total |-> 0]]

ImplementsLedger == Ledger!Spec

\* Every delivered request is answered or dropped: no request waits for ever,
\* even when two of them lock the same products in opposite orders.
EveryCallEnds == \A c \in Call : pc[c] = "lookup" ~> pc[c] = "done"

\* The client's retry is answered with the existing sale, not refused
\* (docs/PROJECT_CONTEXT.md, section 12).
RetryFindsSale ==
  [][\A c \in Call :
       answer[c] = NoAnswer /\ answer'[c].kind = "refused"
         => sale[cidOf[reqOf[c]]] = NoSale]_vars

\* A stable product order keeps two checkouts from waiting for each other
\* (the comment above the stock updates).
NoMutualStockWait ==
  \A c, d \in Call : ~(WaitsFor(c, d) /\ WaitsFor(d, c))
===============================================================================
