------------------------------- MODULE Directory -------------------------------
(***************************************************************************)
(* The records that others refer to, and what is read of the sales: the    *)
(* categories of the products (CategoriesService, ProductsService), the    *)
(* customers of the sales (CustomersService), the history of a customer,   *)
(* the pages of GET /transactions and the report of a day.                 *)
(*                                                                         *)
(* One action is one SQL statement that meets another request.  The        *)
(* statements of categories and products are autocommitted; those of a     *)
(* customer are the last of their transaction, so that the COMMIT is part  *)
(* of them; a sale stays uncommitted between its insert and its COMMIT.    *)
(***************************************************************************)
EXTENDS Integers, Sequences, FiniteSets, SequencesExt

CONSTANTS
  Category, Product, Customer, Sell,
  PutCategory, RemoveCategory, PutProduct,   \* requests about the catalogue
  PutCustomer, RemoveCustomer,               \* requests about customers
  History, Walk,                             \* requests that read the sales
  of,        \* of[r]: the record that r is about
  names,     \* names[r]: the names or the phones that r may write
  target,    \* target[r]: the category that r gives to a product
  total,     \* total[s]: transactions.total of the sale that s makes
  id,        \* id[s]: where its random uuid comes in the order of the ids
  Together,  \* the sets of requests that are sent beside each other
  PageSize, DayLength, MaxTime,
  Fresh, Gone,        \* a row that was not inserted yet, that was deleted
  NoCategory

ASSUME RequestAssumption ==
  /\ \A r \in PutCategory \cup RemoveCategory : of[r] \in Category
  /\ \A r \in PutProduct : of[r] \in Product /\ target[r] \in Category \cup {NoCategory}
  /\ \A r \in PutCustomer \cup RemoveCustomer \cup Sell \cup History : of[r] \in Customer
  /\ History \cap Walk = {}

ASSUME RowAssumption ==
  /\ {Fresh, Gone} \cap (Category \cup Customer) = {} /\ NoCategory \notin Category
  /\ \A r \in PutCategory \cup PutCustomer : {Fresh, Gone} \cap names[r] = {}
  /\ Fresh \notin Nat

ASSUME SaleAssumption ==
  /\ IsFiniteSet(Sell)
  /\ id \in [Sell -> Int] /\ \A s, t \in Sell : id[s] = id[t] => s = t

ASSUME BoundAssumption == PageSize \in Nat \ {0} /\ DayLength \in Nat \ {0} /\ MaxTime \in Nat

VARIABLES
  category,  \* category[c]: its name
  customer,  \* customer[u]: its phone
  product,   \* product[p]: its category
  sale,      \* sale[s]: created_at of its row, Fresh before its COMMIT
  now,       \* the clock of the database
  pc,        \* pc[r]: the next statement of r, or how it was answered
  begun,     \* begun[s]: when the transaction of s began,
  stamp,     \*   and created_at of the row that it has inserted
  seen,      \* seen[r]: the sales in the snapshot of r
  counted,   \* counted[h]: count and sum of a history
  listed,    \* listed[r]: the sales that r has listed
  page       \* page[w]: the next page of a walk

sales == <<sale, begun, stamp, now>>
rows == <<category, customer, product>>
reads == <<seen, counted, listed, page>>
vars == <<sales, rows, reads, pc>>

Reader == History \cup Walk
Request == PutCategory \cup RemoveCategory \cup PutProduct
           \cup PutCustomer \cup RemoveCustomer \cup Sell \cup Reader

Exists(row) == row \notin {Fresh, Gone}

\* Each sale whose row is in S, at its total.
SumOf(S) == MapThenSumSet(LAMBDA s : total[s], S)
Committed == {s \in Sell : sale[s] # Fresh}

\* A row has a name or a phone of its own, unless a request of R makes it.
Initially(row, x, R) == row = x \/ (row = Fresh /\ \E r \in R : of[r] = x)

Init ==
  /\ category \in {f \in [Category -> Category \cup {Fresh}] :
                   \A c \in Category : Initially(f[c], c, PutCategory)}
  /\ customer \in {f \in [Customer -> Customer \cup {Fresh}] :
                   \A u \in Customer : Initially(f[u], u, PutCustomer)}
  /\ product = [p \in Product |-> Fresh]
  /\ sale = [s \in Sell |-> Fresh]
  /\ now = 0
  /\ \E R \in Together : pc = [r \in Request |-> IF r \in R THEN "start" ELSE "unsent"]
  /\ begun = [s \in Sell |-> Fresh]
  /\ stamp = [s \in Sell |-> Fresh]
  /\ seen = [r \in Reader |-> {}]
  /\ counted = [h \in History |-> [count |-> 0, sum |-> 0]]
  /\ listed = [r \in Reader |-> {}]
  /\ page = [w \in Walk |-> 1]

Go(r, label) == pc' = [pc EXCEPT ![r] = label]
Answer(r, what) == Go(r, what) /\ UNCHANGED <<sales, rows, reads>>

-----------------------------------------------------------------------------
(* CategoriesService and the category of a product.                        *)

InUse(c) == \E p \in Product : product[p] = c

\* POST inserts a new row; PUT finds the row and updates it later.
FindCategory(r) ==
  /\ r \in PutCategory /\ pc[r] = "start"
  /\ IF category[of[r]] = Gone THEN Answer(r, "notFound") ELSE Answer(r, "write")

WriteCategory(r) ==
  LET taken == {category[c] : c \in Category \ {of[r]}} IN
  /\ r \in PutCategory /\ pc[r] = "write"
  /\ \/ category[of[r]] = Gone /\ Answer(r, "error")            \* P2025
     \/ category[of[r]] # Gone /\ names[r] \cap taken # {} /\ Answer(r, "nameExists")
     \/ /\ category[of[r]] # Gone
        /\ \E n \in names[r] \ taken : category' = [category EXCEPT ![of[r]] = n]
        /\ Go(r, "written")
        /\ UNCHANGED <<sales, reads, customer, product>>

FindToRemove(r) ==
  /\ r \in RemoveCategory /\ pc[r] = "start"
  /\ IF Exists(category[of[r]]) THEN Answer(r, "count") ELSE Answer(r, "notFound")

CountProducts(r) ==
  /\ r \in RemoveCategory /\ pc[r] = "count"
  /\ IF InUse(of[r]) THEN Answer(r, "inUse") ELSE Answer(r, "delete")

\* Broken variant: the count decides, and no foreign key does.
DeleteCounted(r) ==
  /\ r \in RemoveCategory /\ pc[r] = "delete"
  /\ category' = [category EXCEPT ![of[r]] = Gone]
  /\ Go(r, "removed")
  /\ UNCHANGED <<sales, reads, customer, product>>

\* fk_products_category is RESTRICT: P2003 is not mapped to a 409 here.
DeleteCategory(r) ==
  LET deletable == Exists(category[of[r]]) /\ ~InUse(of[r]) IN
  /\ r \in RemoveCategory /\ pc[r] = "delete"
  /\ \/ ~deletable /\ Answer(r, "error")                  \* P2025, P2003
     \/ /\ deletable
        /\ category' = [category EXCEPT ![of[r]] = Gone]
        /\ Go(r, "removed")
        /\ UNCHANGED <<sales, reads, customer, product>>

\* validateCategory, of a product that is created or updated.
ValidateCategory(r) ==
  /\ r \in PutProduct /\ pc[r] = "start"
  /\ IF target[r] = NoCategory \/ Exists(category[target[r]])
     THEN Answer(r, "write") ELSE Answer(r, "notFound")

WriteProduct(r) ==
  LET valid == target[r] = NoCategory \/ Exists(category[target[r]]) IN
  /\ r \in PutProduct /\ pc[r] = "write"
  /\ \/ ~valid /\ Answer(r, "error")                             \* P2003
     \/ /\ valid
        /\ product' = [product EXCEPT ![of[r]] = target[r]]
        /\ Go(r, "written")
        /\ UNCHANGED <<sales, reads, category, customer>>

-----------------------------------------------------------------------------
(* CustomersService, and the customer of a sale.                           *)

FindCustomer(r) ==
  /\ r \in PutCustomer \cup RemoveCustomer /\ pc[r] = "start"
  /\ IF (r \in PutCustomer /\ customer[of[r]] = Fresh) \/ Exists(customer[of[r]])
     THEN Answer(r, "write") ELSE Answer(r, "notFound")

WriteCustomer(r) ==
  LET taken == {customer[u] : u \in Customer \ {of[r]}} IN
  /\ r \in PutCustomer /\ pc[r] = "write"
  /\ \/ customer[of[r]] = Gone /\ Answer(r, "error")            \* P2025
     \/ customer[of[r]] # Gone /\ names[r] \cap taken # {} /\ Answer(r, "phoneExists")
     \/ /\ customer[of[r]] # Gone
        /\ \E n \in names[r] \ taken : customer' = [customer EXCEPT ![of[r]] = n]
        /\ Go(r, "written")
        /\ UNCHANGED <<sales, reads, category, product>>

\* The rows that refer to u, and those of them that are not committed: their
\* foreign key check holds a KEY SHARE lock on the row of u.
SalesOf(u) == {s \in Committed : of[s] = u}
Uncommitted(u) == {s \in Sell : pc[s] = "commit" /\ of[s] = u}

\* The DELETE waits for the KEY SHARE locks, then the foreign key decides.
DeleteCustomer(r) ==
  /\ r \in RemoveCustomer /\ pc[r] = "write"
  /\ Uncommitted(of[r]) = {}
  /\ \/ ~Exists(customer[of[r]]) /\ Answer(r, "error")            \* P2025
     \/ Exists(customer[of[r]]) /\ SalesOf(of[r]) # {} /\ Answer(r, "hasSales")
     \/ /\ Exists(customer[of[r]]) /\ SalesOf(of[r]) = {}
        /\ customer' = [customer EXCEPT ![of[r]] = Gone]
        /\ Go(r, "removed")
        /\ UNCHANGED <<sales, reads, category, product>>

\* The transaction of a checkout begins, and reads for a while before the
\* customer is looked up.
BeginSale(s) ==
  /\ s \in Sell /\ pc[s] = "start"
  /\ begun' = [begun EXCEPT ![s] = now]
  /\ Go(s, "check")
  /\ UNCHANGED <<rows, reads, sale, stamp, now>>

CheckCustomer(s) ==
  /\ s \in Sell /\ pc[s] = "check"
  /\ Answer(s, IF Exists(customer[of[s]]) THEN "insert" ELSE "notFound")

InFlight(s) == pc[s] \in {"check", "insert", "commit"}

\* Broken variant: created_at comes from the device, which was offline.
StampByDevice(s) == 0..now

\* created_at is the time of the transaction or of the insert, as the default
\* is given by the database or by the client library.
Stamp(s) == {begun[s], now}

InsertSale(s) ==
  /\ s \in Sell /\ pc[s] = "insert"
  /\ \/ ~Exists(customer[of[s]]) /\ Answer(s, "conflict")        \* P2003
     \/ /\ Exists(customer[of[s]])
        /\ \E t \in Stamp(s) : stamp' = [stamp EXCEPT ![s] = t]
        /\ Go(s, "commit")
        /\ UNCHANGED <<rows, reads, sale, begun, now>>

CommitSale(s) ==
  /\ s \in Sell /\ pc[s] = "commit"
  /\ sale' = [sale EXCEPT ![s] = stamp[s]]
  /\ Go(s, "sold")
  /\ UNCHANGED <<rows, reads, begun, stamp, now>>

AbortSale(s) == s \in Sell /\ InFlight(s) /\ Answer(s, "error")

-----------------------------------------------------------------------------
(* CustomersService.transactionHistory: REPEATABLE READ.                   *)

HistoryFind(h) ==
  /\ h \in History /\ pc[h] = "start"
  /\ \/ ~Exists(customer[of[h]]) /\ Answer(h, "notFound")
     \/ /\ Exists(customer[of[h]])
        /\ seen' = [seen EXCEPT ![h] = Committed]
        /\ Go(h, "aggregate")
        /\ UNCHANGED <<sales, rows, counted, listed, page>>

HistoryAggregate(h) ==
  LET mine == {s \in seen[h] : of[s] = of[h]} IN
  /\ h \in History /\ pc[h] = "aggregate"
  /\ counted' = [counted EXCEPT ![h] =
                  [count |-> Cardinality(mine), sum |-> SumOf(mine)]]
  /\ Go(h, "list")
  /\ UNCHANGED <<sales, rows, seen, listed, page>>

\* Broken variant: READ COMMITTED, every statement has its own snapshot.
HistoryListFresh(h) ==
  /\ h \in History /\ pc[h] = "list"
  /\ listed' = [listed EXCEPT ![h] = SalesOf(of[h])]
  /\ Go(h, "shown")
  /\ UNCHANGED <<sales, rows, seen, counted, page>>

HistoryList(h) ==
  /\ h \in History /\ pc[h] = "list"
  /\ listed' = [listed EXCEPT ![h] = {s \in seen[h] : of[s] = of[h]}]
  /\ Go(h, "shown")
  /\ UNCHANGED <<sales, rows, seen, counted, page>>

-----------------------------------------------------------------------------
(* TransactionsService.findAll, called by a client for one page after the  *)
(* other.  A page is one snapshot.                                         *)

\* Broken variant: rows of the same instant come in any order.
ListingsUntied(S) ==
  {q \in SetToSeqs(S) : \A i, j \in DOMAIN q : i < j => sale[q[i]] >= sale[q[j]]}

\* created_at desc, id desc.
Before(s, t) == sale[s] > sale[t] \/ (sale[s] = sale[t] /\ id[s] > id[t])
Listings(S) ==
  {q \in SetToSeqs(S) : \A i, j \in DOMAIN q : i < j => Before(q[i], q[j])}

WalkPage(w) ==
  LET from == (page[w] - 1) * PageSize + 1
      last == Cardinality(Committed) <= page[w] * PageSize
  IN
  /\ w \in Walk /\ pc[w] = "start"
  /\ \E q \in Listings(Committed) :
       listed' = [listed EXCEPT ![w] =
                   @ \cup {q[i] : i \in DOMAIN q \cap from..(from + PageSize - 1)}]
  /\ seen' = [seen EXCEPT ![w] = IF page[w] = 1 THEN Committed ELSE @]
  /\ page' = [page EXCEPT ![w] = @ + 1]
  /\ Go(w, IF last THEN "shown" ELSE "start")
  /\ UNCHANGED <<sales, rows, counted>>

-----------------------------------------------------------------------------
(* ReportsService.dailySales: the report of a day is a function of the     *)
(* rows, start <= created_at < end.                                        *)

DayStart(d) == d * DayLength
InRange(t, from, to) == from <= t /\ t < to

DailySales(d) ==
  SumOf({s \in Committed : InRange(sale[s], DayStart(d), DayStart(d + 1))})

Tick ==
  /\ now < MaxTime
  /\ now' = now + 1
  /\ UNCHANGED <<rows, reads, pc, sale, begun, stamp>>

-----------------------------------------------------------------------------

Next ==
  \/ \E r \in Request :
       \/ FindCategory(r) \/ WriteCategory(r)
       \/ FindToRemove(r) \/ CountProducts(r) \/ DeleteCategory(r)
       \/ ValidateCategory(r) \/ WriteProduct(r)
       \/ FindCustomer(r) \/ WriteCustomer(r) \/ DeleteCustomer(r)
       \/ BeginSale(r) \/ CheckCustomer(r) \/ InsertSale(r) \/ CommitSale(r) \/ AbortSale(r)
       \/ HistoryFind(r) \/ HistoryAggregate(r) \/ HistoryList(r) \/ WalkPage(r)
  \/ Tick

Spec == Init /\ [][Next]_vars

-----------------------------------------------------------------------------

\* No product and no sale is left with a category or a customer that was
\* deleted, whatever was found or counted before the DELETE; and a customer
\* whose deletion was refused because of its sales has some.
ReferencesHold ==
  /\ \A p \in Product : product[p] \in {Fresh, NoCategory} \/ Exists(category[product[p]])
  /\ \A s \in Committed : Exists(customer[of[s]])
  /\ \A r \in RemoveCustomer : pc[r] = "hasSales" => SalesOf(of[r]) # {}

\* The count and the sum of a customer's history are those of its list, while
\* sales commit between the two queries.
HistoryAddsUp ==
  \A h \in History :
    pc[h] = "shown" =>
      counted[h] = [count |-> Cardinality(listed[h]), sum |-> SumOf(listed[h])]

\* A client that reads one page after the other gets every sale that was
\* recorded when it began, whatever is sold meanwhile.
WalkMissesNothing == \A w \in Walk : pc[w] = "shown" => seen[w] \subseteq listed[w]

\* The report of a past day changes only by checkouts that began in it.
PastDayFixed ==
  [][\A d \in 0..(MaxTime \div DayLength) :
       /\ DayStart(d + 1) <= now
       /\ \A s \in Sell : InFlight(s) => begun[s] >= DayStart(d + 1)
       => DailySales(d)' = DailySales(d)]_vars
===============================================================================
