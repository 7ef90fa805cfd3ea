---------------------------- MODULE Directory_proofs ----------------------------
(***************************************************************************)
(* Proofs about categories, customers and the readers of the sales: no     *)
(* reference is left to a deleted row, a history adds up, a walk over the   *)
(* pages misses nothing, and the report of a past day is fixed.             *)
(***************************************************************************)
EXTENDS Directory, FiniteSetTheorems, TLAPS

USE RequestAssumption, RowAssumption, BoundAssumption

Label == {"unsent", "start", "write", "count", "delete", "check", "insert", "commit",
          "aggregate", "list", "written", "removed", "sold", "shown", "notFound",
          "nameExists", "phoneExists", "inUse", "hasSales", "conflict", "error"}

Named(R) == UNION {names[r] : r \in R}

TypeOK ==
  /\ category \in [Category -> Category \cup Named(PutCategory) \cup {Fresh, Gone}]
  /\ customer \in [Customer -> Customer \cup Named(PutCustomer) \cup {Fresh, Gone}]
  /\ product \in [Product -> Category \cup {Fresh, NoCategory}]
  /\ sale \in [Sell -> Nat \cup {Fresh}]
  /\ begun \in [Sell -> Nat \cup {Fresh}]
  /\ stamp \in [Sell -> Nat \cup {Fresh}]
  /\ now \in Nat
  /\ pc \in [Request -> Label]
  /\ seen \in [Reader -> SUBSET Sell]
  /\ listed \in [Reader -> SUBSET Sell]
  /\ counted \in [History -> [count : Nat, sum : {0} \cup {SumOf(S) : S \in SUBSET Sell}]]
  /\ page \in [Walk -> Nat \ {0}]

-----------------------------------------------------------------------------
(* The inductive invariant.                                                *)

\* What a sale in flight refers to stays: its key share lock, then its row.
References ==
  /\ \A p \in Product : product[p] \in {Fresh, NoCategory} \/ Exists(category[product[p]])
  /\ \A s \in Committed : Exists(customer[of[s]])
  /\ \A s \in Sell : pc[s] = "commit" => Exists(customer[of[s]])
  /\ \A r \in RemoveCustomer : pc[r] = "hasSales" => SalesOf(of[r]) # {}

\* A sale is stamped between its BEGIN and its COMMIT.
Stamped ==
  \A s \in Sell :
    /\ InFlight(s) => begun[s] \in Nat /\ begun[s] <= now
    /\ pc[s] = "commit" => stamp[s] \in Nat /\ begun[s] <= stamp[s] /\ stamp[s] <= now
    /\ pc[s] \in {"unsent", "start"} \/ InFlight(s) => sale[s] = Fresh

\* All three of the queries of a history are of one snapshot.
Mine(h) == {s \in seen[h] : of[s] = of[h]}
Histories ==
  \A h \in History :
    /\ pc[h] \in {"list", "shown"} =>
         counted[h] = [count |-> Cardinality(Mine(h)), sum |-> SumOf(Mine(h))]
    /\ pc[h] = "shown" => listed[h] = Mine(h)

\* The sales that are listed before s.  A sale of the first page of a walk that
\* the walk has not met is behind the pages that it has read: rows come in
\* before it and push it back, none goes.
Ahead(s) == {t \in Committed : Before(t, s)}
Walks ==
  \A w \in Walk :
    /\ page[w] # 1 => seen[w] \subseteq Committed
    /\ page[w] = 1 => pc[w] # "shown"
    /\ \A s \in seen[w] \ listed[w] :
         pc[w] # "shown" /\ Cardinality(Ahead(s)) >= (page[w] - 1) * PageSize

IInv == TypeOK /\ References /\ Stamped /\ Histories /\ Walks

LEMMA InitIInv == Init => IInv
<1> SUFFICES ASSUME Init PROVE IInv
  OBVIOUS
<1>1. pc \in [Request -> {"start", "unsent"}]
  BY DEF Init
<1>2. TypeOK
  <2>1. category \in [Category -> Category \cup {Fresh}] /\ customer \in [Customer -> Customer \cup {Fresh}]
    BY DEF Init
  <2> QED
    BY <1>1, <2>1 DEF Init, TypeOK, Label
<1>3. Committed = {}
  BY DEF Init, Committed
<1>4. References
  BY <1>1, <1>3 DEF Init, References, Request
<1>5. Stamped
  BY <1>1 DEF Init, Stamped, InFlight, Request
<1>6. Histories
  BY <1>1 DEF Init, Histories, Request, Reader
<1>7. Walks
  BY <1>1 DEF Init, Walks, Request, Reader
<1> QED
  BY <1>2, <1>4, <1>5, <1>6, <1>7 DEF IInv

-----------------------------------------------------------------------------
(* Steps that leave the sales alone.                                       *)

\* A statement that neither opens nor commits a sale, and no last one of a read.
Quiet == Label \ {"unsent", "start", "check", "insert", "commit", "list", "shown"}

LEMMA SameSales ==
  ASSUME UNCHANGED sale
  PROVE  /\ Committed' = Committed
         /\ \A u : SalesOf(u)' = SalesOf(u)
         /\ \A s \in Sell : Ahead(s)' = Ahead(s)
BY DEF Committed, SalesOf, Ahead, Before

LEMMA QuietReads ==
  ASSUME IInv, NEW r \in Request, NEW label \in Quiet, Go(r, label), UNCHANGED <<sales, reads>>
  PROVE  /\ pc' \in [Request -> Label]
         /\ Stamped' /\ Histories' /\ Walks'
<1>1. pc' = [pc EXCEPT ![r] = label] /\ pc \in [Request -> Label] /\ label \in Label
  BY DEF Go, IInv, TypeOK, Quiet
<1>2. /\ sale' = sale /\ begun' = begun /\ stamp' = stamp /\ now' = now
      /\ seen' = seen /\ counted' = counted /\ listed' = listed /\ page' = page
  BY DEF sales, reads
<1>3. \A q \in Request : pc'[q] = pc[q] \/ pc'[q] \in Quiet
  BY <1>1
<1>4. Stamped'
  BY <1>2, <1>3 DEF IInv, Stamped, InFlight, Quiet, Request
<1>5. Histories'
  BY <1>2, <1>3 DEF IInv, Histories, Mine, Quiet, Request, Reader
<1>6. Walks'
  <2> SUFFICES ASSUME NEW w \in Walk
               PROVE  /\ page[w] # 1 => seen[w] \subseteq Committed
                      /\ page[w] = 1 => pc'[w] # "shown"
                      /\ \A s \in seen[w] \ listed[w] :
                           pc'[w] # "shown" /\ Cardinality(Ahead(s)) >= (page[w] - 1) * PageSize
    <3>1. \A w \in Walk : seen[w] \subseteq Sell
      BY DEF IInv, TypeOK, Reader
    <3> QED
      BY <1>2, <3>1, SameSales DEF Walks
  <2>1. w \in Request /\ (pc'[w] = pc[w] \/ pc'[w] # "shown")
    BY <1>3 DEF Request, Reader, Quiet
  <2> QED
    BY <2>1 DEF IInv, Walks
<1> QED
  BY <1>1, <1>4, <1>5, <1>6

LEMMA QuietStep ==
  ASSUME IInv, NEW r \in Request, NEW label \in Quiet, Go(r, label),
         UNCHANGED <<sales, reads, rows>>,
         label = "hasSales" => SalesOf(of[r]) # {}
  PROVE  IInv'
<1>1. /\ pc' \in [Request -> Label]
      /\ Stamped' /\ Histories' /\ Walks'
  BY QuietReads
<1>2. TypeOK'
  BY <1>1 DEF IInv, TypeOK, sales, reads, rows
<1>3. References'
  <2>1. pc' = [pc EXCEPT ![r] = label] /\ pc \in [Request -> Label]
    BY DEF Go, IInv, TypeOK
  <2>2. UNCHANGED <<sale, category, customer, product>>
    BY DEF sales, rows
  <2>3. \A s \in Sell : pc'[s] = "commit" => pc[s] = "commit"
    BY <2>1 DEF Quiet, Request
  <2>4. \A q \in RemoveCustomer : pc'[q] = "hasSales" => SalesOf(of[q]) # {}
    BY <2>1 DEF IInv, References, Request
  <2> QED
    BY <2>2, <2>3, <2>4, SameSales DEF IInv, References, Exists
<1> QED
  BY <1>1, <1>2, <1>3 DEF IInv

-----------------------------------------------------------------------------
(* One lemma for each group of statements.                                 *)

\* An answer changes nothing else.
LEMMA AnswerStep ==
  ASSUME IInv, NEW r \in Request, NEW label \in Quiet, Answer(r, label),
         label = "hasSales" => SalesOf(of[r]) # {}
  PROVE  IInv'
BY QuietStep DEF Answer

LEMMA CategoryStep ==
  ASSUME IInv, NEW r \in Request,
         FindCategory(r) \/ WriteCategory(r) \/ FindToRemove(r) \/ CountProducts(r)
           \/ DeleteCategory(r)
  PROVE  IInv'
<1> DEFINE quiet == {"notFound", "write", "error", "nameExists", "count", "inUse", "delete"}
<1>1. CASE \E label \in quiet : Answer(r, label)
  BY <1>1, AnswerStep DEF Quiet, Label
<1>2. ASSUME NEW c \in Category, NEW value, NEW label \in {"written", "removed"},
             category' = [category EXCEPT ![c] = value], Go(r, label),
             UNCHANGED <<sales, reads, customer, product>>,
             \/ value \in Named(PutCategory) /\ value \notin {Fresh, Gone}
             \/ value = Gone /\ ~InUse(c)
      PROVE  IInv'
  <2>1. label \in Quiet
    BY <1>2 DEF Quiet, Label
  <2>2. /\ pc' \in [Request -> Label]
        /\ Stamped' /\ Histories' /\ Walks'
    BY <1>2, <2>1, QuietReads
  <2>3. category' \in [Category -> Category \cup Named(PutCategory) \cup {Fresh, Gone}]
    BY <1>2 DEF IInv, TypeOK
  <2>4. TypeOK'
    BY <1>2, <2>2, <2>3 DEF IInv, TypeOK, sales, reads
  <2>5. /\ pc' = [pc EXCEPT ![r] = label] /\ pc \in [Request -> Label]
        /\ sale' = sale /\ customer' = customer /\ product' = product
    BY <1>2 DEF Go, IInv, TypeOK, sales
  <2>6. \A p \in Product : product[p] \in {Fresh, NoCategory} \/ Exists(category'[product[p]])
    <3> SUFFICES ASSUME NEW p \in Product, product[p] \notin {Fresh, NoCategory}
                 PROVE  Exists(category'[product[p]])
      OBVIOUS
    <3>1. product[p] \in Category /\ Exists(category[product[p]])
      BY DEF IInv, TypeOK, References
    <3>2. CASE product[p] = c
      BY <1>2, <3>1, <3>2 DEF InUse, Exists, IInv, TypeOK
    <3>3. CASE product[p] # c
      BY <1>2, <3>1, <3>3 DEF IInv, TypeOK
    <3> QED
      BY <3>2, <3>3
  <2>7. References'
    <3>1. \A s \in Sell : pc'[s] = "commit" => pc[s] = "commit"
      BY <1>2, <2>5 DEF Request
    <3>2. \A q \in RemoveCustomer : pc'[q] = "hasSales" => SalesOf(of[q]) # {}
      BY <1>2, <2>5 DEF IInv, References, Request
    <3>3. (\A p \in Product : product[p] \in {Fresh, NoCategory} \/ Exists(category[product[p]]))'
      BY <2>5, <2>6 DEF Exists
    <3> QED
      BY <2>5, <3>1, <3>2, <3>3, SameSales DEF IInv, References
  <2> QED
    BY <2>2, <2>4, <2>7 DEF IInv
<1>3. CASE FindCategory(r)
  BY <1>1, <1>3 DEF FindCategory
<1>4. CASE WriteCategory(r)
  <2>1. r \in PutCategory /\ of[r] \in Category
    BY <1>4 DEF WriteCategory
  <2>2. CASE \E label \in {"error", "nameExists"} : Answer(r, label)
    BY <1>1, <2>2
  <2>3. ASSUME NEW n \in names[r], category' = [category EXCEPT ![of[r]] = n], Go(r, "written"),
               UNCHANGED <<sales, reads, customer, product>>
        PROVE  IInv'
    <3>1. n \in Named(PutCategory) /\ n \notin {Fresh, Gone}
      BY <2>1, <2>3 DEF Named
    <3> QED
      BY <1>2, <2>1, <2>3, <3>1
  <2> QED
    BY <1>4, <2>2, <2>3 DEF WriteCategory
<1>5. CASE FindToRemove(r) \/ CountProducts(r)
  BY <1>1, <1>5 DEF FindToRemove, CountProducts
<1>6. CASE DeleteCategory(r)
  <2>1. of[r] \in Category
    BY <1>6 DEF DeleteCategory
  <2> QED
    BY <1>1, <1>2, <1>6, <2>1 DEF DeleteCategory
<1> QED
  BY <1>3, <1>4, <1>5, <1>6

LEMMA ProductStep ==
  ASSUME IInv, NEW r \in Request, ValidateCategory(r) \/ WriteProduct(r)
  PROVE  IInv'
<1>1. CASE \E label \in {"write", "notFound", "error"} : Answer(r, label)
  BY <1>1, AnswerStep DEF Quiet, Label
<1>2. CASE /\ r \in PutProduct
           /\ target[r] = NoCategory \/ Exists(category[target[r]])
           /\ product' = [product EXCEPT ![of[r]] = target[r]]
           /\ Go(r, "written")
           /\ UNCHANGED <<sales, reads, category, customer>>
  <2>1. "written" \in Quiet
    BY DEF Quiet, Label
  <2>2. /\ pc' \in [Request -> Label]
        /\ Stamped' /\ Histories' /\ Walks'
    BY <1>2, <2>1, QuietReads
  <2>3. product' \in [Product -> Category \cup {Fresh, NoCategory}]
    BY <1>2 DEF IInv, TypeOK
  <2>4. TypeOK'
    BY <1>2, <2>2, <2>3 DEF IInv, TypeOK, sales, reads
  <2>5. /\ pc' = [pc EXCEPT ![r] = "written"] /\ pc \in [Request -> Label]
        /\ sale' = sale /\ customer' = customer /\ category' = category
    BY <1>2 DEF Go, IInv, TypeOK, sales
  <2>6. (\A p \in Product : product[p] \in {Fresh, NoCategory} \/ Exists(category[product[p]]))'
    BY <1>2, <2>5 DEF IInv, TypeOK, References, Exists
  <2>7. References'
    <3>1. \A s \in Sell : pc'[s] = "commit" => pc[s] = "commit"
      BY <2>5 DEF Request
    <3>2. \A q \in RemoveCustomer : pc'[q] = "hasSales" => SalesOf(of[q]) # {}
      BY <2>5 DEF IInv, References, Request
    <3> QED
      BY <2>5, <2>6, <3>1, <3>2, SameSales DEF IInv, References
  <2> QED
    BY <2>2, <2>4, <2>7 DEF IInv
<1> QED
  BY <1>1, <1>2 DEF ValidateCategory, WriteProduct

LEMMA CustomerStep ==
  ASSUME IInv, NEW r \in Request, FindCustomer(r) \/ WriteCustomer(r) \/ DeleteCustomer(r)
  PROVE  IInv'
<1>1. CASE \E label \in {"write", "notFound", "error", "phoneExists"} : Answer(r, label)
  BY <1>1, AnswerStep DEF Quiet, Label
<1>2. CASE Answer(r, "hasSales") /\ SalesOf(of[r]) # {}
  BY <1>2, AnswerStep DEF Quiet, Label
<1>3. ASSUME NEW u \in Customer, NEW value, NEW label \in {"written", "removed"},
             customer' = [customer EXCEPT ![u] = value], Go(r, label),
             UNCHANGED <<sales, reads, category, product>>,
             \/ value \in Named(PutCustomer) /\ value \notin {Fresh, Gone}
             \/ value = Gone /\ SalesOf(u) = {} /\ Uncommitted(u) = {}
      PROVE  IInv'
  <2>1. label \in Quiet
    BY <1>3 DEF Quiet, Label
  <2>2. /\ pc' \in [Request -> Label]
        /\ Stamped' /\ Histories' /\ Walks'
    BY <1>3, <2>1, QuietReads
  <2>3. customer' \in [Customer -> Customer \cup Named(PutCustomer) \cup {Fresh, Gone}]
    BY <1>3 DEF IInv, TypeOK
  <2>4. TypeOK'
    BY <1>3, <2>2, <2>3 DEF IInv, TypeOK, sales, reads
  <2>5. /\ pc' = [pc EXCEPT ![r] = label] /\ pc \in [Request -> Label]
        /\ sale' = sale /\ category' = category /\ product' = product
    BY <1>3 DEF Go, IInv, TypeOK, sales
  <2>6. \A s \in Sell : pc'[s] = "commit" => pc[s] = "commit"
    BY <1>3, <2>5 DEF Request
  <2>7. \A s \in Sell : s \in Committed \/ pc[s] = "commit" => Exists(customer'[of[s]])
    <3> SUFFICES ASSUME NEW s \in Sell, s \in Committed \/ pc[s] = "commit"
                 PROVE  Exists(customer'[of[s]])
      OBVIOUS
    <3>1. of[s] \in Customer /\ Exists(customer[of[s]])
      BY DEF IInv, References
    <3>2. of[s] = u => value \notin {Fresh, Gone}
      BY <1>3 DEF SalesOf, Uncommitted
    <3> QED
      BY <1>3, <3>1, <3>2 DEF Exists, IInv, TypeOK
  <2>8. \A q \in RemoveCustomer : pc'[q] = "hasSales" => SalesOf(of[q]) # {}
    BY <1>3, <2>5 DEF IInv, References, Request
  <2>9. References'
    <3>1. (\A s \in Committed : Exists(customer[of[s]]))'
      BY <2>5, <2>7, SameSales DEF Exists, Committed
    <3>2. (\A s \in Sell : pc[s] = "commit" => Exists(customer[of[s]]))'
      BY <2>6, <2>7 DEF Exists
    <3>3. (\A p \in Product : product[p] \in {Fresh, NoCategory} \/ Exists(category[product[p]]))'
      BY <2>5 DEF IInv, References, Exists
    <3> QED
      BY <2>5, <2>8, <3>1, <3>2, <3>3, SameSales DEF References
  <2> QED
    BY <2>2, <2>4, <2>9 DEF IInv
<1>4. CASE FindCustomer(r)
  BY <1>1, <1>4 DEF FindCustomer
<1>5. CASE WriteCustomer(r)
  <2>1. r \in PutCustomer /\ of[r] \in Customer
    BY <1>5 DEF WriteCustomer
  <2>2. CASE \E label \in {"error", "phoneExists"} : Answer(r, label)
    BY <1>1, <2>2
  <2>3. ASSUME NEW n \in names[r], customer' = [customer EXCEPT ![of[r]] = n], Go(r, "written"),
               UNCHANGED <<sales, reads, category, product>>
        PROVE  IInv'
    <3>1. n \in Named(PutCustomer) /\ n \notin {Fresh, Gone}
      BY <2>1, <2>3 DEF Named
    <3> QED
      BY <1>3, <2>1, <2>3, <3>1
  <2> QED
    BY <1>5, <2>2, <2>3 DEF WriteCustomer
<1>6. CASE DeleteCustomer(r)
  <2>1. of[r] \in Customer /\ Uncommitted(of[r]) = {}
    BY <1>6 DEF DeleteCustomer
  <2> QED
    BY <1>1, <1>2, <1>3, <1>6, <2>1 DEF DeleteCustomer
<1> QED
  BY <1>4, <1>5, <1>6

-----------------------------------------------------------------------------
(* Sales.                                                                  *)

LEMMA FiniteSales ==
  ASSUME TypeOK
  PROVE  /\ Committed \subseteq Sell /\ IsFiniteSet(Committed) /\ Cardinality(Committed) \in Nat
         /\ \A s \in Sell : IsFiniteSet(Ahead(s)) /\ Cardinality(Ahead(s)) \in Nat
<1>1. \A S \in SUBSET Sell : IsFiniteSet(S) /\ Cardinality(S) \in Nat
  BY SaleAssumption, FS_Subset, FS_CardinalityType
<1>2. Committed \in SUBSET Sell /\ \A s \in Sell : Ahead(s) \in SUBSET Sell
  BY DEF Committed, Ahead
<1> QED
  BY <1>1, <1>2

\* A sale that begins, or that inserts its row.
LEMMA BeginInsertStep ==
  ASSUME IInv, NEW s \in Request,
         BeginSale(s) \/ CheckCustomer(s) \/ InsertSale(s) \/ AbortSale(s)
  PROVE  IInv'
<1>1. CASE \E label \in {"notFound", "conflict", "error"} : Answer(s, label)
  BY <1>1, AnswerStep DEF Quiet, Label
<1>2. ASSUME NEW label \in {"check", "insert", "commit"}, s \in Sell, Go(s, label),
             UNCHANGED <<rows, reads, sale, now>>,
             \/ /\ label = "check" /\ pc[s] = "start" /\ stamp' = stamp
                /\ begun' = [begun EXCEPT ![s] = now]
             \/ label = "insert" /\ pc[s] = "check" /\ begun' = begun /\ stamp' = stamp
             \/ /\ label = "commit" /\ pc[s] = "insert" /\ begun' = begun
                /\ Exists(customer[of[s]])
                /\ stamp' \in {[stamp EXCEPT ![s] = t] : t \in Stamp(s)}
      PROVE  IInv'
  <2>1. pc' = [pc EXCEPT ![s] = label] /\ pc \in [Request -> Label] /\ pc' \in [Request -> Label]
    BY <1>2 DEF Go, IInv, TypeOK, Label
  <2>2. begun \in [Sell -> Nat \cup {Fresh}] /\ stamp \in [Sell -> Nat \cup {Fresh}] /\ now \in Nat
    BY DEF IInv, TypeOK
  <2>3. Stamp(s) \subseteq Nat \cup {Fresh}
    BY <1>2, <2>2 DEF Stamp
  <2>4. begun' \in [Sell -> Nat \cup {Fresh}] /\ stamp' \in [Sell -> Nat \cup {Fresh}]
    BY <1>2, <2>2, <2>3
  <2>5. TypeOK'
    BY <1>2, <2>1, <2>4 DEF IInv, TypeOK, rows, reads
  <2>6. References'
    <3>1. /\ sale' = sale /\ customer' = customer /\ category' = category /\ product' = product
      BY <1>2 DEF rows
    <3>2. \A x \in Sell : pc'[x] = "commit" => Exists(customer[of[x]])
      BY <1>2, <2>1 DEF IInv, References, Request
    <3>3. \A q \in RemoveCustomer : pc'[q] = "hasSales" => SalesOf(of[q]) # {}
      BY <1>2, <2>1 DEF IInv, References, Request
    <3> QED
      BY <3>1, <3>2, <3>3, SameSales DEF IInv, References, Exists
  <2>7. Stamped'
    <3> SUFFICES ASSUME NEW x \in Sell
                 PROVE  /\ InFlight(x)' => begun'[x] \in Nat /\ begun'[x] <= now
                        /\ pc'[x] = "commit" => /\ stamp'[x] \in Nat /\ begun'[x] <= stamp'[x]
                                                /\ stamp'[x] <= now
                        /\ pc'[x] \in {"unsent", "start"} \/ InFlight(x)' => sale[x] = Fresh
      BY <1>2 DEF Stamped, InFlight
    <3>1. CASE x # s
      BY <1>2, <2>1, <2>2, <3>1 DEF IInv, Stamped, InFlight, Request
    <3>2. CASE x = s /\ label \in {"check", "insert"}
      BY <1>2, <2>1, <2>2, <3>2 DEF IInv, Stamped, InFlight, Request
    <3>3. CASE x = s /\ label = "commit"
      BY <1>2, <2>1, <2>2, <3>3 DEF IInv, Stamped, InFlight, Stamp, Request
    <3> QED
      BY <1>2, <3>1, <3>2, <3>3
  <2>8. \A x \in Request : pc'[x] = pc[x] \/ pc'[x] \notin {"list", "shown"}
    BY <1>2, <2>1
  <2>9. Histories'
    BY <1>2, <2>8 DEF IInv, Histories, Mine, reads, Request, Reader
  <2>10. Walks'
    <3> SUFFICES ASSUME NEW w \in Walk
                 PROVE  /\ page[w] # 1 => seen[w] \subseteq Committed
                        /\ page[w] = 1 => pc'[w] # "shown"
                        /\ \A x \in seen[w] \ listed[w] :
                             pc'[w] # "shown" /\ Cardinality(Ahead(x)) >= (page[w] - 1) * PageSize
      <4>1. \A w \in Walk : seen[w] \subseteq Sell
        BY DEF IInv, TypeOK, Reader
      <4> QED
        BY <1>2, <4>1, SameSales DEF Walks, reads
    <3>1. w \in Request /\ (pc'[w] = pc[w] \/ pc'[w] # "shown")
      BY <2>8 DEF Request, Reader
    <3> QED
      BY <3>1 DEF IInv, Walks
  <2> QED
    BY <2>5, <2>6, <2>7, <2>9, <2>10 DEF IInv
<1>3. CASE BeginSale(s) \/ CheckCustomer(s)
  <2>1. CASE BeginSale(s)
    BY <1>2, <2>1 DEF BeginSale
  <2>2. CASE CheckCustomer(s)
    BY <1>1, <1>2, <2>2 DEF CheckCustomer, Answer, sales
  <2> QED
    BY <1>3, <2>1, <2>2
<1>4. CASE InsertSale(s)
  BY <1>1, <1>2, <1>4 DEF InsertSale
<1>5. CASE AbortSale(s)
  BY <1>1, <1>5 DEF AbortSale
<1> QED
  BY <1>3, <1>4, <1>5

\* A row that comes in moves the others back, if at all.
LEMMA CommitGrows ==
  ASSUME IInv, NEW s \in Request, CommitSale(s)
  PROVE  /\ s \in Sell /\ s \notin Committed /\ stamp[s] \in Nat
         /\ Committed' = Committed \cup {s}
         /\ sale'[s] = stamp[s] /\ \A x \in Sell \ {s} : sale'[x] = sale[x]
         /\ \A x \in Committed : Cardinality(Ahead(x)') >= Cardinality(Ahead(x))
<1>1. s \in Sell /\ sale[s] = Fresh /\ stamp[s] \in Nat /\ sale' = [sale EXCEPT ![s] = stamp[s]]
  BY DEF CommitSale, IInv, Stamped, InFlight
<1>2. sale'[s] = stamp[s] /\ \A x \in Sell \ {s} : sale'[x] = sale[x]
  BY <1>1 DEF IInv, TypeOK
<1>3. s \notin Committed /\ Committed' = Committed \cup {s}
  BY <1>1, <1>2 DEF Committed
<1>4. IsFiniteSet(Committed \cup {s})
  BY FiniteSales, FS_AddElement DEF IInv
<1>5. ASSUME NEW x \in Committed
      PROVE  Cardinality(Ahead(x)') >= Cardinality(Ahead(x))
  <2>1. x \in Sell /\ x # s /\ sale'[x] = sale[x]
    BY <1>2, <1>3 DEF Committed
  <2>2. Ahead(x) \subseteq Ahead(x)'
    <3> SUFFICES ASSUME NEW t \in Committed, Before(t, x) PROVE t \in Committed' /\ Before(t, x)'
      BY DEF Ahead
    <3>1. t \in Sell /\ sale'[t] = sale[t]
      BY <1>2, <1>3 DEF Committed
    <3> QED
      BY <1>3, <2>1, <3>1 DEF Before
  <2>3. Ahead(x)' \in SUBSET (Committed \cup {s})
    BY <1>3 DEF Ahead
  <2>4. IsFiniteSet(Ahead(x)') /\ Cardinality(Ahead(x)') \in Nat
    BY <1>4, <2>3, FS_Subset, FS_CardinalityType
  <2>5. Cardinality(Ahead(x)) \in Nat /\ Cardinality(Ahead(x)) <= Cardinality(Ahead(x)')
    BY <2>1, <2>2, <2>4, FS_Subset, FiniteSales DEF IInv
  <2> QED
    BY <2>4, <2>5
<1> QED
  BY <1>1, <1>2, <1>3, <1>5

LEMMA CommitStep ==
  ASSUME IInv, NEW s \in Request, CommitSale(s)
  PROVE  IInv'
<1>1. /\ pc[s] = "commit" /\ pc' = [pc EXCEPT ![s] = "sold"] /\ pc \in [Request -> Label]
      /\ UNCHANGED <<rows, reads, begun, stamp, now>>
      /\ sale' = [sale EXCEPT ![s] = stamp[s]]
  BY DEF CommitSale, Go, IInv, TypeOK
<1>2. /\ s \in Sell /\ s \notin Committed /\ stamp[s] \in Nat
      /\ Committed' = Committed \cup {s}
      /\ sale'[s] = stamp[s] /\ \A x \in Sell \ {s} : sale'[x] = sale[x]
      /\ \A x \in Committed : Cardinality(Ahead(x)') >= Cardinality(Ahead(x))
  BY CommitGrows
<1>3. pc' \in [Request -> Label] /\ \A x \in Request : pc'[x] = pc[x] \/ pc'[x] = "sold"
  BY <1>1 DEF Label
<1>4. TypeOK'
  <2>1. sale' \in [Sell -> Nat \cup {Fresh}]
    BY <1>1, <1>2 DEF IInv, TypeOK
  <2> QED
    BY <1>1, <1>3, <2>1 DEF IInv, TypeOK, rows, reads
<1>5. References'
  <2>1. customer' = customer /\ category' = category /\ product' = product
    BY <1>1 DEF rows
  <2>2. \A x \in Committed \cup {s} : Exists(customer[of[x]])
    BY <1>1, <1>2 DEF IInv, References
  <2>3. \A x \in Sell : pc'[x] = "commit" => Exists(customer[of[x]])
    BY <1>3 DEF IInv, References, Request
  <2>4. \A q \in RemoveCustomer : pc'[q] = "hasSales" => {x \in Committed \cup {s} : of[x] = of[q]} # {}
    BY <1>3 DEF IInv, References, SalesOf, Request
  <2> QED
    BY <1>2, <2>1, <2>2, <2>3, <2>4 DEF IInv, References, Exists, SalesOf
<1>6. Stamped'
  <2> SUFFICES ASSUME NEW x \in Sell
               PROVE  /\ InFlight(x)' => begun[x] \in Nat /\ begun[x] <= now
                      /\ pc'[x] = "commit" => /\ stamp[x] \in Nat /\ begun[x] <= stamp[x]
                                              /\ stamp[x] <= now
                      /\ pc'[x] \in {"unsent", "start"} \/ InFlight(x)' => sale'[x] = Fresh
    BY <1>1 DEF Stamped, InFlight
  <2> QED
    BY <1>1, <1>2 DEF IInv, Stamped, InFlight, Request
<1>7. Histories'
  BY <1>1, <1>3 DEF IInv, Histories, Mine, reads, Request, Reader
<1>8. Walks'
  <2> SUFFICES ASSUME NEW w \in Walk
               PROVE  /\ page[w] # 1 => seen[w] \subseteq Committed'
                      /\ page[w] = 1 => pc'[w] # "shown"
                      /\ \A x \in seen[w] \ listed[w] :
                           pc'[w] # "shown" /\ Cardinality(Ahead(x)') >= (page[w] - 1) * PageSize
    BY <1>1 DEF Walks, reads
  <2>1. w \in Request /\ seen[w] \subseteq Sell /\ page[w] \in Nat \ {0}
    BY DEF Request, Reader, IInv, TypeOK
  <2>2. pc'[w] = pc[w] \/ pc'[w] # "shown"
    BY <1>3, <2>1
  <2>3. ASSUME NEW x \in seen[w] \ listed[w]
        PROVE  pc'[w] # "shown" /\ Cardinality(Ahead(x)') >= (page[w] - 1) * PageSize
    <3>1. pc[w] # "shown" /\ Cardinality(Ahead(x)) >= (page[w] - 1) * PageSize
      BY <2>3 DEF IInv, Walks
    <3>2. x \in Sell /\ Cardinality(Ahead(x)) \in Nat
      BY <2>1, <2>3, FiniteSales DEF IInv
    <3>3. Cardinality(Ahead(x)') \in Nat
      <4>1. Ahead(x)' \in SUBSET Sell
        BY DEF Ahead, Committed
      <4> QED
        BY <4>1, SaleAssumption, FS_Subset, FS_CardinalityType
    <3>4. CASE page[w] = 1
      <4>1. (page[w] - 1) * PageSize = 0
        BY <3>4
      <4> QED
        BY <2>2, <3>1, <3>3, <4>1
    <3>5. CASE page[w] # 1
      <4>1. x \in Committed
        BY <2>3, <3>5 DEF IInv, Walks
      <4>2. (page[w] - 1) * PageSize \in Int
        BY <2>1
      <4> QED
        BY <1>2, <2>2, <3>1, <3>2, <3>3, <4>1, <4>2
    <3> QED
      BY <3>4, <3>5
  <2>4. page[w] # 1 => seen[w] \subseteq Committed
    BY DEF IInv, Walks
  <2>5. page[w] = 1 => pc[w] # "shown"
    BY DEF IInv, Walks
  <2> QED
    BY <1>2, <2>2, <2>3, <2>4, <2>5
<1> QED
  BY <1>4, <1>5, <1>6, <1>7, <1>8 DEF IInv

-----------------------------------------------------------------------------
(* Reads.                                                                  *)

\* What is behind the statement of a read: the rows and the sales stay.
LEMMA ReadRefers ==
  ASSUME IInv, NEW r \in Request, NEW label \in {"aggregate", "list", "shown", "start"},
         pc[r] \in {"start", "aggregate", "list"}, label = "start" => pc[r] = "start",
         Go(r, label), UNCHANGED <<sales, rows>>
  PROVE  /\ pc' = [pc EXCEPT ![r] = label] /\ pc \in [Request -> Label] /\ pc' \in [Request -> Label]
         /\ References' /\ Stamped'
<1>1. pc' = [pc EXCEPT ![r] = label] /\ pc \in [Request -> Label] /\ label \in Label
  BY DEF Go, IInv, TypeOK, Label
<1>2. /\ customer' = customer /\ category' = category /\ product' = product
      /\ sale' = sale /\ begun' = begun /\ stamp' = stamp /\ now' = now
  BY DEF rows, sales
<1>3. \A q \in Request : pc'[q] = pc[q] \/ pc'[q] \in {"aggregate", "list", "shown", "start"}
  BY <1>1
<1>4. References'
  <2>1. \A s \in Sell : pc'[s] = "commit" => Exists(customer[of[s]])
    BY <1>3 DEF IInv, References, Request
  <2>2. \A q \in RemoveCustomer : pc'[q] = "hasSales" => SalesOf(of[q]) # {}
    BY <1>3 DEF IInv, References, Request
  <2> QED
    BY <1>2, <2>1, <2>2, SameSales DEF IInv, References, Exists
<1>5. Stamped'
  BY <1>1, <1>2 DEF IInv, Stamped, InFlight, Request
<1> QED
  BY <1>1, <1>4, <1>5

LEMMA HistoryStep ==
  ASSUME IInv, NEW h \in Request, HistoryFind(h) \/ HistoryAggregate(h) \/ HistoryList(h)
  PROVE  IInv'
<1>1. CASE h \in History /\ Answer(h, "notFound")
  BY <1>1, AnswerStep DEF Quiet, Label
<1>2. ASSUME NEW label \in {"aggregate", "list", "shown"}, h \in History,
             pc[h] \in {"start", "aggregate", "list"},
             Go(h, label), UNCHANGED <<sales, rows, page>>,
             seen' \in [Reader -> SUBSET Sell], listed' \in [Reader -> SUBSET Sell],
             counted' \in [History -> [count : Nat, sum : {0} \cup {SumOf(S) : S \in SUBSET Sell}]],
             \A r \in Reader \ {h} : seen'[r] = seen[r] /\ listed'[r] = listed[r],
             \A r \in History \ {h} : counted'[r] = counted[r],
             label \in {"list", "shown"} =>
               counted'[h] = [count |-> Cardinality(Mine(h)), sum |-> SumOf(Mine(h))]
                 /\ seen'[h] = seen[h],
             label = "shown" => listed'[h] = Mine(h)
      PROVE  IInv'
  <2>1. /\ pc' = [pc EXCEPT ![h] = label] /\ pc \in [Request -> Label] /\ pc' \in [Request -> Label]
        /\ References' /\ Stamped'
    BY <1>2, ReadRefers
  <2>2. TypeOK'
    BY <1>2, <2>1 DEF IInv, TypeOK, sales, rows
  <2>3. Histories'
    <3> SUFFICES ASSUME NEW g \in History
                 PROVE  /\ pc'[g] \in {"list", "shown"} =>
                             counted'[g] = [count |-> Cardinality(Mine(g)'), sum |-> SumOf(Mine(g)')]
                        /\ pc'[g] = "shown" => listed'[g] = Mine(g)'
      BY DEF Histories
    <3>1. g \in Request /\ g \in Reader
      BY DEF Request, Reader
    <3>2. CASE g # h
      <4>1. pc'[g] = pc[g] /\ Mine(g)' = Mine(g) /\ counted'[g] = counted[g] /\ listed'[g] = listed[g]
        BY <1>2, <2>1, <3>1, <3>2 DEF Mine
      <4> QED
        BY <4>1 DEF IInv, Histories
    <3>3. CASE g = h
      <4>1. label \in {"list", "shown"} => Mine(h)' = Mine(h)
        BY <1>2 DEF Mine
      <4> QED
        BY <1>2, <2>1, <3>3, <4>1
    <3> QED
      BY <3>2, <3>3
  <2>4. Walks'
    <3>1. \A w \in Walk : /\ w \in Request /\ w \in Reader /\ w # h
                          /\ seen[w] \subseteq Sell
      BY <1>2 DEF Request, Reader, IInv, TypeOK
    <3>2. \A w \in Walk : pc'[w] = pc[w] /\ seen'[w] = seen[w] /\ listed'[w] = listed[w]
      BY <1>2, <2>1, <3>1
    <3>3. UNCHANGED <<sale, page>>
      BY <1>2 DEF sales
    <3> QED
      BY <3>1, <3>2, <3>3, SameSales DEF IInv, Walks
  <2> QED
    BY <2>1, <2>2, <2>3, <2>4 DEF IInv
<1>3. CASE HistoryFind(h)
  <2>1. CASE Answer(h, "notFound")
    BY <1>1, <1>3, <2>1 DEF HistoryFind
  <2>2. CASE seen' = [seen EXCEPT ![h] = Committed] /\ Go(h, "aggregate")
             /\ UNCHANGED <<sales, rows, counted, listed, page>>
    <3>1. h \in History /\ h \in Reader /\ pc[h] = "start"
      BY <1>3 DEF HistoryFind, Reader
    <3>2. Committed \subseteq Sell
      BY DEF Committed
    <3> QED
      BY <1>2, <2>2, <3>1, <3>2 DEF IInv, TypeOK
  <2> QED
    BY <1>3, <2>1, <2>2 DEF HistoryFind
<1>4. CASE HistoryAggregate(h)
  <2>1. /\ h \in History /\ pc[h] = "aggregate" /\ Go(h, "list")
        /\ counted' = [counted EXCEPT ![h] =
                        [count |-> Cardinality(Mine(h)), sum |-> SumOf(Mine(h))]]
        /\ UNCHANGED <<sales, rows, seen, listed, page>>
    BY <1>4 DEF HistoryAggregate, Mine
  <2>2. Mine(h) \in SUBSET Sell
    BY <2>1 DEF Mine, IInv, TypeOK, Reader
  <2>3. Cardinality(Mine(h)) \in Nat
    BY <2>2, SaleAssumption, FS_Subset, FS_CardinalityType
  <2>4. counted' \in [History -> [count : Nat, sum : {0} \cup {SumOf(S) : S \in SUBSET Sell}]]
    BY <2>1, <2>2, <2>3 DEF IInv, TypeOK
  <2>5. /\ \A r \in History \ {h} : counted'[r] = counted[r]
        /\ counted'[h] = [count |-> Cardinality(Mine(h)), sum |-> SumOf(Mine(h))]
    BY <2>1 DEF IInv, TypeOK
  <2>6. seen' \in [Reader -> SUBSET Sell] /\ listed' \in [Reader -> SUBSET Sell]
    BY <2>1 DEF IInv, TypeOK
  <2> QED
    BY <1>2, <2>1, <2>4, <2>5, <2>6
<1>5. CASE HistoryList(h)
  <2>1. /\ h \in History /\ pc[h] = "list" /\ Go(h, "shown")
        /\ listed' = [listed EXCEPT ![h] = Mine(h)]
        /\ UNCHANGED <<sales, rows, seen, counted, page>>
    BY <1>5 DEF HistoryList, Mine
  <2>2. h \in Reader /\ Mine(h) \in SUBSET Sell
    BY <2>1 DEF Mine, IInv, TypeOK, Reader
  <2>3. /\ listed' \in [Reader -> SUBSET Sell] /\ listed'[h] = Mine(h)
        /\ \A r \in Reader \ {h} : listed'[r] = listed[r]
    BY <2>1, <2>2 DEF IInv, TypeOK
  <2>4. counted[h] = [count |-> Cardinality(Mine(h)), sum |-> SumOf(Mine(h))]
    BY <2>1 DEF IInv, Histories
  <2>5. /\ seen' \in [Reader -> SUBSET Sell]
        /\ counted' \in [History -> [count : Nat, sum : {0} \cup {SumOf(S) : S \in SUBSET Sell}]]
    BY <2>1 DEF IInv, TypeOK
  <2> QED
    BY <1>2, <2>1, <2>3, <2>4, <2>5
<1> QED
  BY <1>3, <1>4, <1>5

\* In a listing, a sale is at the position that the sales before it leave.
LEMMA PositionIsRank ==
  ASSUME TypeOK, NEW q \in Listings(Committed), NEW s \in Committed
  PROVE  \E i \in DOMAIN q : q[i] = s /\ Cardinality(Ahead(s)) = i - 1
<1> DEFINE n == Cardinality(Committed)
<1>1. n \in Nat /\ IsFiniteSet(Committed) /\ Committed \subseteq Sell
  BY FiniteSales
<1>2. /\ q \in [1..n -> Committed]
      /\ \A i, j \in 1..n : i # j => q[i] # q[j]
      /\ \A i, j \in 1..n : i < j => Before(q[i], q[j])
  BY DEF Listings, SetToSeqs
<1>3. IsFiniteSet(1..n) /\ Cardinality(1..n) = n
  BY <1>1, FS_Interval
<1>4. q \in Injection(1..n, Committed)
  BY <1>2 DEF Injection, IsInjective
<1>5. q \in Surjection(1..n, Committed)
  BY <1>1, <1>3, <1>4, FS_Injection
<1>6. PICK i \in 1..n : q[i] = s
  BY <1>5 DEF Surjection
<1>7. \A t \in Committed : sale[t] \in Nat /\ id[t] \in Int
  BY <1>1, SaleAssumption DEF TypeOK, Committed
<1>8. \A j \in 1..n : Before(q[j], s) <=> j < i
  BY <1>2, <1>6, <1>7 DEF Before
<1>9. Ahead(s) = {q[j] : j \in 1..(i - 1)}
  <2>1. \A t \in Ahead(s) : \E j \in 1..n : t = q[j] /\ j < i
    BY <1>5, <1>8 DEF Ahead, Surjection
  <2>2. \A j \in 1..(i - 1) : j \in 1..n /\ j < i
    BY <1>1, <1>6
  <2>3. \A j \in 1..(i - 1) : q[j] \in Ahead(s)
    BY <1>2, <1>8, <2>2 DEF Ahead
  <2>4. \A j \in 1..n : j < i => j \in 1..(i - 1)
    BY <1>1, <1>6
  <2> QED
    BY <2>1, <2>3, <2>4
<1>10. Cardinality(Ahead(s)) = i - 1
  <2> DEFINE g == [j \in 1..(i - 1) |-> q[j]]
  <2>1. i - 1 \in Nat /\ \A j \in 1..(i - 1) : j \in 1..n
    BY <1>1, <1>6
  <2>2. g \in Bijection(1..(i - 1), Ahead(s))
    BY <1>2, <1>9, <2>1 DEF Bijection, Injection, Surjection, IsInjective
  <2>3. ExistsBijection(1..(i - 1), Ahead(s))
    BY <2>2 DEF ExistsBijection
  <2> QED
    BY <2>1, <2>3, FS_CountingElements
<1> QED
  BY <1>2, <1>6, <1>10

LEMMA WalkStep ==
  ASSUME IInv, NEW w \in Request, WalkPage(w)
  PROVE  IInv'
<1> DEFINE from == (page[w] - 1) * PageSize + 1
<1>1. PICK q \in Listings(Committed) :
        listed' = [listed EXCEPT ![w] =
                    @ \cup {q[i] : i \in DOMAIN q \cap from..(from + PageSize - 1)}]
  BY DEF WalkPage
<1> DEFINE met == {q[i] : i \in DOMAIN q \cap from..(from + PageSize - 1)}
           label == IF Cardinality(Committed) <= page[w] * PageSize THEN "shown" ELSE "start"
<1>2. /\ w \in Walk /\ w \in Reader /\ w \notin History /\ pc[w] = "start"
      /\ seen' = [seen EXCEPT ![w] = IF page[w] = 1 THEN Committed ELSE @]
      /\ page' = [page EXCEPT ![w] = @ + 1]
      /\ Go(w, label)
      /\ UNCHANGED <<sales, rows, counted>>
  BY DEF WalkPage, Reader
<1>3. q \in [1..Cardinality(Committed) -> Committed] /\ Committed \subseteq Sell
  BY DEF Listings, SetToSeqs, Committed
<1>4. met \subseteq Sell
  BY <1>3
<1>5. page[w] \in Nat \ {0} /\ seen[w] \subseteq Sell /\ listed[w] \subseteq Sell
  BY <1>2 DEF IInv, TypeOK
<1>6. /\ listed' \in [Reader -> SUBSET Sell] /\ listed'[w] = listed[w] \cup met
      /\ \A r \in Reader \ {w} : listed'[r] = listed[r]
  BY <1>1, <1>2, <1>4 DEF IInv, TypeOK
<1>7. /\ seen' \in [Reader -> SUBSET Sell]
      /\ seen'[w] = IF page[w] = 1 THEN Committed ELSE seen[w]
      /\ \A r \in Reader \ {w} : seen'[r] = seen[r]
  BY <1>2, <1>3 DEF IInv, TypeOK
<1>8. /\ page' \in [Walk -> Nat \ {0}] /\ page'[w] = page[w] + 1
      /\ \A r \in Walk \ {w} : page'[r] = page[r]
  BY <1>2, <1>5 DEF IInv, TypeOK
<1>9. /\ pc' = [pc EXCEPT ![w] = label] /\ pc \in [Request -> Label] /\ pc' \in [Request -> Label]
      /\ References' /\ Stamped'
  BY <1>2, ReadRefers
<1>10. TypeOK'
  BY <1>2, <1>6, <1>7, <1>8, <1>9 DEF IInv, TypeOK, sales, rows
<1>11. Histories'
  <2>1. \A h \in History : h # w /\ h \in Reader /\ h \in Request
    BY <1>2 DEF Reader, Request
  <2>2. \A h \in History : pc'[h] = pc[h] /\ Mine(h)' = Mine(h) /\ listed'[h] = listed[h]
    BY <1>6, <1>7, <1>9, <2>1 DEF Mine
  <2> QED
    BY <1>2, <2>2 DEF IInv, Histories
<1>12. seen'[w] \subseteq Committed
  BY <1>2, <1>7 DEF IInv, Walks
<1>13. ASSUME NEW x \in seen'[w] \ listed'[w]
       PROVE  Cardinality(Ahead(x)) >= page[w] * PageSize /\ label = "start"
  <2>1. x \in Committed
    BY <1>12, <1>13
  <2>2. PICK i \in DOMAIN q : q[i] = x /\ Cardinality(Ahead(x)) = i - 1
    BY <2>1, PositionIsRank DEF IInv
  <2>3. i \in 1..Cardinality(Committed) /\ Cardinality(Committed) \in Nat
    BY <1>3, <2>2, FiniteSales DEF IInv
  <2>4. i \notin from..(from + PageSize - 1)
    BY <1>6, <1>13, <2>2
  <2>5. /\ (page[w] - 1) * PageSize \in Nat /\ page[w] * PageSize \in Nat
        /\ (page[w] - 1) * PageSize + PageSize = page[w] * PageSize
    BY <1>5
  <2>6. i >= from
    <3>1. CASE page[w] = 1
      BY <2>3, <2>5, <3>1
    <3>2. CASE page[w] # 1
      <4>1. Cardinality(Ahead(x)) >= (page[w] - 1) * PageSize
        BY <1>6, <1>7, <1>13, <3>2, <1>2 DEF IInv, Walks
      <4> QED
        BY <2>2, <2>3, <2>5, <4>1
    <3> QED
      BY <3>1, <3>2
  <2>7. i >= page[w] * PageSize + 1
    BY <2>3, <2>4, <2>5, <2>6
  <2> QED
    BY <2>2, <2>3, <2>5, <2>7
<1>14. Walks'
  <2> SUFFICES ASSUME NEW v \in Walk
               PROVE  /\ page'[v] # 1 => seen'[v] \subseteq Committed
                      /\ page'[v] = 1 => pc'[v] # "shown"
                      /\ \A x \in seen'[v] \ listed'[v] :
                           pc'[v] # "shown" /\ Cardinality(Ahead(x)) >= (page'[v] - 1) * PageSize
    <3>1. \A v \in Walk : seen'[v] \subseteq Sell
      BY <1>7 DEF Reader
    <3>2. UNCHANGED sale
      BY <1>2 DEF sales
    <3> QED
      BY <3>1, <3>2, SameSales DEF Walks
  <2>1. v \in Request /\ v \in Reader
    BY DEF Request, Reader
  <2>2. CASE v # w
    BY <1>6, <1>7, <1>8, <1>9, <2>1, <2>2 DEF IInv, Walks
  <2>3. CASE v = w
    <3>1. page'[w] # 1 /\ page'[w] - 1 = page[w]
      BY <1>5, <1>8
    <3>2. pc'[w] = label
      BY <1>9
    <3> HIDE DEF label
    <3> QED
      BY <1>12, <1>13, <2>3, <3>1, <3>2
  <2> QED
    BY <2>2, <2>3
<1> QED
  BY <1>9, <1>10, <1>11, <1>14 DEF IInv

LEMMA TickStep == IInv /\ Tick => IInv'
<1> SUFFICES ASSUME IInv, Tick PROVE IInv'
  OBVIOUS
<1>1. now \in Nat /\ now' = now + 1 /\ UNCHANGED <<rows, reads, pc, sale, begun, stamp>>
  BY DEF Tick, IInv, TypeOK
<1>2. TypeOK'
  BY <1>1 DEF IInv, TypeOK, rows, reads
<1>3. References'
  BY <1>1, SameSales DEF IInv, References, Exists, rows
<1>4. Stamped'
  BY <1>1 DEF IInv, TypeOK, Stamped, InFlight
<1>5. Histories'
  BY <1>1 DEF IInv, Histories, Mine, reads
<1>6. Walks'
  <2>1. \A w \in Walk : seen[w] \subseteq Sell
    BY DEF IInv, TypeOK, Reader
  <2> QED
    BY <1>1, <2>1, SameSales DEF IInv, Walks, reads
<1> QED
  BY <1>2, <1>3, <1>4, <1>5, <1>6 DEF IInv

LEMMA StutterStep == IInv /\ UNCHANGED vars => IInv'
<1> SUFFICES ASSUME IInv, UNCHANGED vars PROVE IInv'
  OBVIOUS
<1>1. UNCHANGED <<sale, begun, stamp, now, pc>> /\ UNCHANGED rows /\ UNCHANGED reads
  BY DEF vars, sales
<1>2. TypeOK' /\ Stamped'
  BY <1>1 DEF IInv, TypeOK, Stamped, InFlight, rows, reads
<1>3. References'
  BY <1>1, SameSales DEF IInv, References, Exists, rows
<1>4. Histories'
  BY <1>1 DEF IInv, Histories, Mine, reads
<1>5. Walks'
  <2>1. \A w \in Walk : seen[w] \subseteq Sell
    BY DEF IInv, TypeOK, Reader
  <2> QED
    BY <1>1, <2>1, SameSales DEF IInv, Walks, reads
<1> QED
  BY <1>2, <1>3, <1>4, <1>5 DEF IInv

LEMMA IInvStep == IInv /\ [Next]_vars => IInv'
BY CategoryStep, ProductStep, CustomerStep, BeginInsertStep, CommitStep, HistoryStep, WalkStep,
   TickStep, StutterStep DEF Next

LEMMA Inductive == Spec => []IInv
BY InitIInv, IInvStep, PTL DEF Spec

-----------------------------------------------------------------------------

\* Types, of any number of requests, sales and pages.
THEOREM TypeCorrect == Spec => []TypeOK
<1>1. IInv => TypeOK
  BY DEF IInv
<1> QED
  BY Inductive, <1>1, PTL

\* A category or customer that something refers to is never deleted, whatever
\* was found or counted before the DELETE (CategoriesService.remove,
\* CustomersService.remove).
THEOREM ReferencesStay == Spec => []ReferencesHold
<1>1. IInv => ReferencesHold
  BY DEF IInv, References, ReferencesHold
<1> QED
  BY Inductive, <1>1, PTL

\* The history of a customer adds up, while sales commit between its queries
\* (CustomersService.transactionHistory).
THEOREM HistoryIsConsistent == Spec => []HistoryAddsUp
<1>1. IInv => HistoryAddsUp
  BY DEF IInv, Histories, HistoryAddsUp
<1> QED
  BY Inductive, <1>1, PTL

\* Page after page, every sale that there was at first is listed, for any
\* page size and any sales meanwhile (TransactionsService.findAll).
THEOREM WalkIsComplete == Spec => []WalkMissesNothing
<1>1. IInv => WalkMissesNothing
  BY DEF IInv, Walks, WalkMissesNothing
<1> QED
  BY Inductive, <1>1, PTL

\* Only a checkout that began on a day changes the report of that day when it
\* is over (ReportsService.dailySales).
THEOREM PastDayIsFixed == Spec => PastDayFixed
<1> DEFINE Fixed(d) ==
      /\ DayStart(d + 1) <= now
      /\ \A s \in Sell : InFlight(s) => begun[s] >= DayStart(d + 1)
      => DailySales(d)' = DailySales(d)
<1>1. ASSUME IInv, [Next]_vars, NEW d \in 0..(MaxTime \div DayLength), DayStart(d + 1) <= now,
             \A s \in Sell : InFlight(s) => begun[s] >= DayStart(d + 1)
      PROVE  DailySales(d)' = DailySales(d)
  <2> DEFINE Of(t) == InRange(t, DayStart(d), DayStart(d + 1))
  <2>1. {s \in Committed' : Of(sale'[s])} = {s \in Committed : Of(sale[s])}
    <3>1. CASE sale' = sale
      BY <3>1 DEF Committed
    <3>2. ASSUME NEW s \in Request, CommitSale(s)
          PROVE  {x \in Committed' : Of(sale'[x])} = {x \in Committed : Of(sale[x])}
      <4>1. /\ s \in Sell /\ s \notin Committed /\ stamp[s] \in Nat
            /\ Committed' = Committed \cup {s}
            /\ sale'[s] = stamp[s] /\ \A x \in Sell \ {s} : sale'[x] = sale[x]
        BY <1>1, <3>2, CommitGrows
      <4>2. begun[s] \in Nat /\ begun[s] <= stamp[s] /\ begun[s] >= DayStart(d + 1)
        BY <1>1, <3>2, <4>1 DEF CommitSale, IInv, Stamped, InFlight
      <4>3. DayStart(d + 1) \in Int
        BY <1>1 DEF DayStart
      <4>4. ~Of(sale'[s])
        BY <4>1, <4>2, <4>3 DEF InRange
      <4>5. \A x \in Committed : x \in Sell \ {s}
        BY <4>1 DEF Committed
      <4> HIDE DEF Of
      <4> QED
        BY <4>1, <4>4, <4>5
    <3>3. sale' = sale \/ \E s \in Request : CommitSale(s)
      BY <1>1 DEF Next, vars, sales, FindCategory, WriteCategory, FindToRemove, CountProducts,
         DeleteCategory, ValidateCategory, WriteProduct, FindCustomer, WriteCustomer,
         DeleteCustomer, BeginSale, CheckCustomer, InsertSale, AbortSale, HistoryFind, HistoryAggregate,
         HistoryList, WalkPage, Tick, Answer
    <3> QED
      BY <3>1, <3>2, <3>3
  <2> QED
    BY <2>1 DEF DailySales
<1>2. IInv /\ [Next]_vars =>
        [\A d \in 0..(MaxTime \div DayLength) : Fixed(d)]_vars
  BY <1>1
<1> QED
  BY Inductive, <1>2, PTL DEF Spec, PastDayFixed
=============================================================================
