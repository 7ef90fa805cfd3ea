--------------------------------- MODULE Quote ---------------------------------
(***************************************************************************)
(* What a cart costs: the estimate of a held order                         *)
(* (HeldOrdersService.resolveItems, totals), the price of a sale           *)
(* (TransactionsService.checkout), and how a recorded sale is read again:  *)
(* its receipt, its replay and the sales reports, while the catalogue and  *)
(* the tax rate are edited in between.                                     *)
(*                                                                         *)
(* Requests are atomic here: Checkout and HeldCheckout interleave them.    *)
(* The user, outlet, session and stock of a sale are theirs too.  Amounts  *)
(* are whole Rupiah and MaxSafe stands for Number.MAX_SAFE_INTEGER.        *)
(***************************************************************************)
EXTENDS TaxUtil, Sequences, FiniteSets, Functions, TLC

CONSTANTS
  Product, Group, Option,
  groupOf,     \* the modifier group of an option
  ProductData, \* what a product may be made: [name, price, cost]
  Deltas,      \* and the price of an option
  Rates,       \* the tax of a tenant, [enabled, basisPoints]
  Carts,       \* sequences of lines, [product, options, quantity, note]
  Payments,    \* [method, amount, received]
  Discounts,
  Sent,        \* the requests for a direct sale that clients send
  MaxSafe,
  FirstProduct, FirstOption, FirstAssigned, FirstRates, \* the catalogue at first
  OldCarts,    \* of sales that were recorded before V1
  MaxEdits, MaxSales, \* bounds
  Nothing      \* a null or an absent field

\* Prices and costs are not negative (the CHECKs on products and on
\* modifier_options), a tax rate is at most 100 % (that on tenants), and the
\* DTOs bound what a request says: at least one line, a quantity of at least
\* one, and safe integers for the discount and the tender.
DeltaRows == Deltas \cup {FirstOption[o].delta : o \in Option}
ProductRows == ProductData \cup Range(FirstProduct)

ASSUME CatalogueAssumption ==
  /\ IsFiniteSet(Product) /\ IsFiniteSet(Option)
  /\ FirstProduct \in [Product -> Range(FirstProduct)]
  /\ \A data \in ProductRows : data.name # Nothing /\ {data.price, data.cost} \subseteq Nat
  /\ FirstOption \in [Option -> [delta : DeltaRows, active : BOOLEAN]] /\ DeltaRows \subseteq Nat

ASSUME RateAssumption ==
  Rates \cup FirstRates \subseteq [enabled : BOOLEAN, basisPoints : 0..10000]

ASSUME CartAssumption ==
  \A lines \in Carts :
    /\ lines \in Seq(Range(lines)) /\ lines # <<>>
    /\ \A line \in Range(lines) :
         /\ line = [product |-> line.product, options |-> line.options,
                    quantity |-> line.quantity, note |-> line.note]
         /\ line.product \in Product /\ line.options \subseteq Option
         /\ line.quantity \in Nat \ {0}

ASSUME RequestAssumption ==
  /\ MaxSafe \in Nat /\ Nothing \notin Int
  /\ \A payment \in Payments :
       {payment.amount, payment.received} \subseteq 0..MaxSafe \cup {Nothing}
  /\ \A q \in Sent :
       q.lines \in Carts /\ q.payment \in Payments /\ q.discount \in 0..MaxSafe
  /\ OldCarts \subseteq Carts

VARIABLES
  product,     \* the row of a product
  option,      \* the row of a modifier option, [delta, active]
  assigned,    \* assigned[p][g]: the row of product_modifier_groups, or "none"
  groupOn,     \* the modifier groups with is_active
  rate,
  order,       \* a held order
  sales,       \* the transactions, with their items and payment
  asked,       \* history: the request that each sale answered
  edits

catalogue == <<product, option, assigned, groupOn, rate>>
vars == <<catalogue, order, sales, asked, edits>>

\* A required MULTIPLE assignment is refused by everything that writes one.
Kind == {"none", "requiredSingle", "optionalSingle", "multiple"}

-----------------------------------------------------------------------------
\* Lines

Live(p) == {g \in groupOn : assigned[p][g] # "none"}
Picked(line, g) == {o \in line.options : groupOf[o] = g}

OptionsFit(line) ==
  \A o \in line.options : option[o].active /\ groupOf[o] \in Live(line.product)

SelectionFits(line, g) ==
  LET count == Cardinality(Picked(line, g)) IN
  /\ assigned[line.product][g] = "requiredSingle" => count = 1
  /\ assigned[line.product][g] = "optionalSingle" => count <= 1

\* Broken variant: a line without options is not looked at.
SaleLineFitsLoose(line) ==
  OptionsFit(line) /\ (line.options # {} => \A g \in Live(line.product) : SelectionFits(line, g))

\* The checkout: without options, only a required group is looked for.
SaleLineFits(line) ==
  IF line.options = {}
  THEN \A g \in Live(line.product) : assigned[line.product][g] # "requiredSingle"
  ELSE OptionsFit(line) /\ \A g \in Live(line.product) : SelectionFits(line, g)

EffectivePrice(line) ==
  product[line.product].price + SumFunction([o \in line.options |-> option[o].delta])
LineTotal(line) == EffectivePrice(line) * line.quantity
Subtotal(lines) == SumFunction([i \in DOMAIN lines |-> LineTotal(lines[i])])

\* Broken variant: only negative amounts are refused.
MoneyUnbounded(value) == value >= 0

Money(value) == value \in 0..MaxSafe

\* The held order: every line is in range, not only their sum.
HoldLineFits(line) ==
  /\ OptionsFit(line)
  /\ \A g \in Live(line.product) : SelectionFits(line, g)
  /\ Money(EffectivePrice(line)) /\ Money(LineTotal(line))

-----------------------------------------------------------------------------
\* The sale

Priced(lines, discount) ==
  LET sum == Subtotal(lines)
      taxed == CalculateTax(rate.enabled, rate.basisPoints, sum - discount)
  IN  [subtotal |-> sum, discount |-> discount, tax |-> taxed.tax, total |-> taxed.total]

PaymentShapeFits(payment) ==
  IF payment.method = "CASH"
  THEN (payment.amount = Nothing) # (payment.received = Nothing)
  ELSE payment.amount = Nothing /\ payment.received = Nothing

ResolveTender(payment) ==
  IF payment.method # "CASH" THEN Nothing
  ELSE IF payment.received # Nothing THEN payment.received ELSE payment.amount

\* What may be sent under the id of a recorded sale; roles are not compared.
Request ==
  [role : {"OWNER"}, lines : Carts, discount : Discounts, payment : Payments]

SaleAccepts(q) ==
  LET due == Priced(q.lines, q.discount) IN
  /\ PaymentShapeFits(q.payment)
  /\ q.discount > 0 => q.role # "CASHIER"
  /\ \A i \in DOMAIN q.lines : SaleLineFits(q.lines[i])
  /\ q.discount <= due.subtotal
  /\ Money(due.subtotal) /\ Money(due.tax) /\ Money(due.total)
  /\ due.total > 0
  /\ ResolveTender(q.payment) # Nothing => ResolveTender(q.payment) >= due.total

\* The snapshots of a line that the sale keeps.
ItemRow(line) ==
  [product |-> line.product, quantity |-> line.quantity, note |-> line.note,
   options |-> {[option |-> o, delta |-> option[o].delta] : o \in line.options},
   name |-> product[line.product].name, base |-> product[line.product].price,
   unit |-> EffectivePrice(line), cost |-> product[line.product].cost,
   subtotal |-> LineTotal(line)]

\* Broken variant: the change is what the discount and the tax leave out.
PaymentRowGross(payment, due) ==
  [method |-> payment.method, amount |-> due.total, received |-> ResolveTender(payment),
   change |-> IF ResolveTender(payment) = Nothing THEN Nothing
              ELSE ResolveTender(payment) - due.subtotal]

PaymentRow(payment, due) ==
  [method |-> payment.method, amount |-> due.total, received |-> ResolveTender(payment),
   change |-> IF ResolveTender(payment) = Nothing THEN Nothing
              ELSE ResolveTender(payment) - due.total]

SaleRow(q) ==
  [items |-> [i \in DOMAIN q.lines |-> ItemRow(q.lines[i])],
   due |-> Priced(q.lines, q.discount),
   payment |-> PaymentRow(q.payment, Priced(q.lines, q.discount))]

Record(q) ==
  /\ SaleAccepts(q) /\ Len(sales) < MaxSales
  /\ sales' = Append(sales, SaleRow(q))
  /\ asked' = Append(asked, q)

\* A row from before V1: no snapshots, and the tender in payments.amount.
OldPayment == [method |-> "CASH", amount |-> MaxSafe, received |-> Nothing]
OldRequest(cart) ==
  [role |-> "CASHIER", lines |-> cart, discount |-> 0, payment |-> OldPayment]
OldSaleRow(cart) ==
  [items |-> [i \in DOMAIN cart |->
               [ItemRow(cart[i]) EXCEPT !.name = Nothing, !.base = Nothing]],
   due |-> Priced(cart, 0),
   payment |-> [method |-> "CASH", amount |-> MaxSafe, received |-> Nothing,
                change |-> Nothing]]

-----------------------------------------------------------------------------
\* Reading a sale

\* Broken variant: a join with the product of today.
ReceiptItemJoined(item) ==
  [name |-> product[item.product].name, base |-> product[item.product].price,
   unit |-> item.unit, quantity |-> item.quantity, subtotal |-> item.subtotal,
   note |-> item.note, options |-> item.options]

\* The names of a row without snapshots are those of the product now.
ReceiptItem(item) ==
  LET v1 == item.name # Nothing IN
  [name |-> IF v1 THEN item.name ELSE product[item.product].name,
   base |-> IF v1 THEN item.base ELSE item.unit,
   unit |-> item.unit, quantity |-> item.quantity, subtotal |-> item.subtotal,
   note |-> item.note, options |-> item.options]

ReceiptChange(sale) ==
  LET paid == sale.payment IN
  IF paid.method # "CASH" THEN Nothing
  ELSE IF paid.change # Nothing THEN paid.change
  ELSE IF paid.received = Nothing /\ paid.amount >= sale.due.total
       THEN paid.amount - sale.due.total
  ELSE Nothing

Receipt(i) ==
  [items |-> [j \in DOMAIN sales[i].items |-> ReceiptItem(sales[i].items[j])],
   totals |-> sales[i].due, payment |-> sales[i].payment,
   change |-> ReceiptChange(sales[i])]

\* assertSameRequest: the lines as a multiset, whatever their order.
LineKey(line) == <<line.product, line.quantity, line.note, line.options>>
StoredKey(item) ==
  <<item.product, item.quantity, item.note, {m.option : m \in item.options}>>
Times(keys, k) == Cardinality({i \in DOMAIN keys : keys[i] = k})

\* Broken variant: the lines as a set.
SameBagAsSet(a, b) == {a[i] : i \in DOMAIN a} = {b[i] : i \in DOMAIN b}

SameBag(a, b) ==
  Len(a) = Len(b) /\ \A i \in DOMAIN a : Times(a, a[i]) = Times(b, a[i])

SamePayment(paid, payment) ==
  /\ paid.method = payment.method
  /\ IF payment.method = "CASH"
     THEN (IF paid.received # Nothing THEN paid.received ELSE paid.amount)
          = ResolveTender(payment)
     ELSE paid.received = Nothing /\ paid.change = Nothing

SameRequest(sale, q) ==
  /\ sale.due.discount = q.discount
  /\ SamePayment(sale.payment, q.payment)
  /\ SameBag([i \in DOMAIN sale.items |-> StoredKey(sale.items[i])],
             [i \in DOMAIN q.lines |-> LineKey(q.lines[i])])

\* Some of SalesSummary and of TopProducts: over all sales, for all products.
Items == UNION {{<<i, j>> : j \in DOMAIN sales[i].items} : i \in DOMAIN sales}
Item(x) == sales[x[1]].items[x[2]]
ItemsOf(p) == {x \in Items : Item(x).product = p}
CostOf(x) == Item(x).quantity * Item(x).cost

Summary ==
  [gross |-> SumFunction([i \in DOMAIN sales |-> sales[i].due.subtotal]),
   discount |-> SumFunction([i \in DOMAIN sales |-> sales[i].due.discount]),
   net |-> SumFunction([i \in DOMAIN sales |-> sales[i].due.subtotal - sales[i].due.discount]),
   tax |-> SumFunction([i \in DOMAIN sales |-> sales[i].due.tax]),
   total |-> SumFunction([i \in DOMAIN sales |-> sales[i].due.total]),
   cogs |-> SumFunction([x \in Items |-> CostOf(x)])]

\* A product bears the discount of a sale by its share of the subtotal; the
\* shares are exact here, over the product of all subtotals, and ROUND is half up.
Scale == FoldFunction(LAMBDA a, b : a * b, 1, [i \in DOMAIN sales |-> sales[i].due.subtotal])
\* Broken variant: the discount is not shared out.
NetShareGross(x) == Item(x).subtotal * Scale

NetShare(x) ==
  LET due == sales[x[1]].due IN
  Item(x).subtotal * (due.subtotal - due.discount) * (Scale \div due.subtotal)

ProductNet(p) ==
  (2 * SumFunction([x \in ItemsOf(p) |-> NetShare(x)]) + Scale) \div (2 * Scale)
ProductCost(p) == SumFunction([x \in ItemsOf(p) |-> CostOf(x)])

ProductRow(p) ==
  [gross |-> SumFunction([x \in ItemsOf(p) |-> Item(x).subtotal]),
   cogs |-> ProductCost(p), profit |-> ProductNet(p) - ProductCost(p)]

-----------------------------------------------------------------------------

NoOrder == [status |-> "none", lines |-> <<>>, due |-> Nothing, fresh |-> FALSE]

Init ==
  /\ product = FirstProduct /\ option = FirstOption
  /\ assigned \in FirstAssigned
  /\ groupOn = Group
  /\ rate \in FirstRates
  /\ order = NoOrder
  /\ \E old \in {<<>>} \cup {<<cart>> : cart \in {c \in OldCarts : SaleAccepts(OldRequest(c))}} :
       /\ sales = [i \in DOMAIN old |-> OldSaleRow(old[i])]
       /\ asked = [i \in DOMAIN old |-> OldRequest(old[i])]
  /\ edits = 0

\* Broken variant: the order keeps the estimate of its first items.
EstimateKept(lines) == IF order.status = "OPEN" THEN order.due ELSE Priced(lines, 0)

Estimate(lines) == Priced(lines, 0)

HoldAccepts(lines) ==
  /\ \A i \in DOMAIN lines : HoldLineFits(lines[i])
  /\ Money(Estimate(lines).subtotal) /\ Money(Estimate(lines).tax) /\ Money(Estimate(lines).total)

\* An empty note of a held order is none.
HeldLines(lines) ==
  [i \in DOMAIN lines |->
    [lines[i] EXCEPT !.note = IF @ = "" THEN Nothing ELSE @]]

\* create, and update with items; fresh: priced by the catalogue as it is.
PutOrder(lines) ==
  /\ HoldAccepts(lines)
  /\ order' = [status |-> "OPEN", lines |-> HeldLines(lines), due |-> Estimate(lines),
               fresh |-> TRUE]
  /\ UNCHANGED <<catalogue, sales, asked, edits>>

HoldOrder(lines) == order.status = "none" /\ PutOrder(lines)
UpdateOrder(lines) == order.status = "OPEN" /\ PutOrder(lines)

\* A conversion prices the items again and grants no discount.
Converted(payment) ==
  [role |-> "CASHIER", lines |-> order.lines, discount |-> 0, payment |-> payment]

ConvertOrder(payment) ==
  /\ order.status = "OPEN"
  /\ Record(Converted(payment))
  /\ order' = [order EXCEPT !.status = "CONVERTED"]
  /\ UNCHANGED <<catalogue, edits>>

Sell(q) == Record(q) /\ UNCHANGED <<catalogue, order, edits>>

Edit ==
  /\ edits < MaxEdits /\ edits' = edits + 1
  /\ order' = [order EXCEPT !.fresh = FALSE]
  /\ UNCHANGED <<sales, asked>>

UpdateProduct(p, data) ==
  /\ Edit /\ product' = [product EXCEPT ![p] = data]
  /\ UNCHANGED <<option, assigned, groupOn, rate>>

UpdateOption(o, d) ==
  /\ Edit /\ option' = [option EXCEPT ![o].delta = d]
  /\ UNCHANGED <<product, assigned, groupOn, rate>>

SwitchOption(o) ==
  /\ Edit /\ option' = [option EXCEPT ![o].active = ~@]
  /\ UNCHANGED <<product, assigned, groupOn, rate>>

SwitchGroup(g) ==
  /\ Edit /\ groupOn' = IF g \in groupOn THEN groupOn \ {g} ELSE groupOn \cup {g}
  /\ UNCHANGED <<product, option, assigned, rate>>

AssignGroup(p, g, kind) ==
  /\ Edit /\ assigned' = [assigned EXCEPT ![p][g] = kind]
  /\ UNCHANGED <<product, option, groupOn, rate>>

SetRate(r) ==
  /\ Edit /\ rate' = r
  /\ UNCHANGED <<product, option, assigned, groupOn>>

Next ==
  \/ \E lines \in Carts : HoldOrder(lines) \/ UpdateOrder(lines)
  \/ \E payment \in Payments : ConvertOrder(payment)
  \/ \E q \in Sent : Sell(q)
  \/ \E p \in Product, data \in ProductData : UpdateProduct(p, data)
  \/ \E o \in Option : SwitchOption(o) \/ \E d \in Deltas : UpdateOption(o, d)
  \/ \E g \in Group : SwitchGroup(g)
  \/ \E p \in Product, g \in Group, kind \in Kind : AssignGroup(p, g, kind)
  \/ \E r \in Rates : SetRate(r)

Spec == Init /\ [][Next]_vars

-----------------------------------------------------------------------------

\* Every amount that is stored is a safe integer: detail, receipt and held
\* order can be read for ever (money of the three services).
Due == [subtotal : 0..MaxSafe, discount : 0..MaxSafe, tax : 0..MaxSafe, total : 0..MaxSafe]

StoredInRange ==
  /\ order.due # Nothing => order.due \in Due
  /\ \A i \in DOMAIN sales :
       /\ sales[i].due \in Due
       /\ \A j \in DOMAIN sales[i].items :
            {sales[i].items[j].unit, sales[i].items[j].subtotal} \subseteq 0..MaxSafe
       /\ ReceiptChange(sales[i]) # Nothing => ReceiptChange(sales[i]) \in 0..MaxSafe

\* The money that the clerk counts out for a total.
Exact(total) == [method |-> "CASH", amount |-> Nothing, received |-> total]
PlainSale(lines) ==
  [role |-> "CASHIER", lines |-> lines, discount |-> 0,
   payment |-> Exact(Priced(lines, 0).total)]

\* The rules of the held order (resolveItems) and those of the sale (checkout)
\* are written twice.  A cart can be held exactly when it can be sold, but for
\* the cart that costs nothing, which can be held and never sold.
SameRules ==
  \A lines \in Carts :
    SaleAccepts(PlainSale(lines)) <=> HoldAccepts(lines) /\ Estimate(lines).total > 0

\* An open order whose catalogue has not been touched since it was priced is
\* sold for the very estimate that was shown, unless that is nothing.
EstimateHonoured ==
  order.status = "OPEN" /\ order.fresh =>
    /\ Priced(order.lines, 0) = order.due
    /\ SaleAccepts(Converted(Exact(order.due.total))) <=> order.due.total > 0

\* What a receipt shows adds up: the lines to the subtotal, this with discount
\* and tax to the total, and the total with the change to the tender.
ReceiptAddsUp ==
  \A i \in DOMAIN sales :
    LET r == Receipt(i)
        due == r.totals
        tender == ResolveTender(asked[i].payment)
    IN  /\ SumFunction([j \in DOMAIN r.items |-> r.items[j].subtotal]) = due.subtotal
        /\ \A j \in DOMAIN r.items :
             r.items[j].unit * r.items[j].quantity = r.items[j].subtotal
        /\ due.subtotal - due.discount + due.tax = due.total
        /\ tender # Nothing => due.total + r.change = tender

\* A receipt is printed again as it was, whatever becomes of the catalogue:
\* but for the names on a sale from before V1, which kept none.
WithoutNames(r) ==
  [r EXCEPT !.items = [j \in DOMAIN r.items |-> [r.items[j] EXCEPT !.name = Nothing]]]

ReceiptFrozen ==
  [][\A i \in DOMAIN sales :
       /\ WithoutNames(Receipt(i)) = WithoutNames(Receipt(i))'
       /\ sales[i].items[1].name # Nothing => Receipt(i) = Receipt(i)']_vars

\* Two requests that say the same: the lines in any order, and the tender in
\* either of its fields.
Means(q, r) ==
  /\ q.discount = r.discount /\ q.payment.method = r.payment.method
  /\ ResolveTender(q.payment) = ResolveTender(r.payment)
  /\ Len(q.lines) = Len(r.lines)
  /\ \E f \in Bijection(DOMAIN q.lines, DOMAIN r.lines) :
       \A i \in DOMAIN q.lines : q.lines[i] = r.lines[f[i]]

\* A request that is sent again is recognised at any later time, whatever was
\* edited, and no other request passes for it (assertSameRequest).
ReplayExactly ==
  \A i \in DOMAIN sales : \A q \in Request :
    PaymentShapeFits(q.payment) => (SameRequest(sales[i], q) <=> Means(q, asked[i]))

\* The two reports agree: the products sum up to the summary, their profits
\* to its profit but for half a Rupiah each, and net and tax make the total.
Distance(a, b) == IF a < b THEN b - a ELSE a - b
ReportsReconcile ==
  /\ SumFunction([p \in Product |-> ProductRow(p).gross]) = Summary.gross
  /\ SumFunction([p \in Product |-> ProductRow(p).cogs]) = Summary.cogs
  /\ Summary.net + Summary.tax = Summary.total
  /\ 2 * Distance(SumFunction([p \in Product |-> ProductRow(p).profit]),
                  Summary.net - Summary.cogs) <= Cardinality(Product)
===============================================================================
