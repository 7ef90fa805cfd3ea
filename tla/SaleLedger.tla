------------------------------ MODULE SaleLedger ------------------------------
(***************************************************************************)
(* What POST /transactions and POST /stock/adjustments promise, each in    *)
(* one atomic step: a client_transaction_id is sold at most once, selling  *)
(* it takes its whole demand out of stock at that moment, and whoever asks *)
(* for it again is told the total that was recorded.                       *)
(***************************************************************************)
EXTENDS Integers

CONSTANTS
  Request,    \* the distinct checkout payloads
  Cid,        \* client_transaction_id values
  cidOf,      \* cidOf[r]: the one r carries
  Same(_, _), \* whether two payloads with one id ask for the same sale
  Call,       \* deliveries of a request
  reqOf,      \* reqOf[c]: the request that c delivers
  Product,
  demand,     \* demand[r][p]: the units of p that r takes out of stock
  Total,      \* the totals a sale may have
  Delta,      \* the quantities an adjustment may add or deduct
  NoSale

VARIABLES
  sale,       \* sale[i]: the request and the total sold under i
  stock,      \* stock[p]: units on hand
  answer      \* answer[c]: what the client was told

ledgerVars == <<sale, stock, answer>>

NoAnswer == [kind |-> "none", total |-> 0]
Refusal == [kind |-> "refused", total |-> 0]
Receipt(total) == [kind |-> "sale", total |-> total]

Init ==
  /\ sale = [i \in Cid |-> NoSale]
  /\ stock \in [Product -> Nat]
  /\ answer = [c \in Call |-> NoAnswer]

\* The sale of a request, at a total that the prices of the moment decide.
Record(r) ==
  /\ sale[cidOf[r]] = NoSale
  /\ \A p \in Product : stock[p] >= demand[r][p]
  /\ sale'[cidOf[r]] \in [by : {r}, total : Total]
  /\ sale' = [sale EXCEPT ![cidOf[r]] = sale'[cidOf[r]]]
  /\ stock' = [p \in Product |-> stock[p] - demand[r][p]]
  /\ UNCHANGED answer

Adjust(p, n) ==
  /\ stock[p] + n >= 0
  /\ stock' = [stock EXCEPT ![p] = @ + n]
  /\ UNCHANGED <<sale, answer>>

\* A receipt is only ever given for the recorded sale of the same payload.
Answer(c) ==
  LET i == cidOf[reqOf[c]] IN
  /\ answer[c] = NoAnswer
  /\ \/ answer' = [answer EXCEPT ![c] = Refusal]
     \/ /\ sale[i] # NoSale
        /\ Same(sale[i].by, reqOf[c])
        /\ answer' = [answer EXCEPT ![c] = Receipt(sale[i].total)]
  /\ UNCHANGED <<sale, stock>>

Next ==
  \/ \E r \in Request : Record(r)
  \/ \E p \in Product, n \in Delta : Adjust(p, n)
  \/ \E c \in Call : Answer(c)

Spec == Init /\ [][Next]_ledgerVars
===============================================================================
