---------------------------- MODULE ShiftHeldOrder ----------------------------
(***************************************************************************)
(* Cashier shifts, held orders and the sales attached to them, at the      *)
(* grain of the SQL statements that ShiftsService, HeldOrdersService and   *)
(* TransactionsService issue.                                              *)
(*                                                                         *)
(* Every HTTP request is served by one database transaction, a member of   *)
(* Proc.  Its writes are published by the action that commits it.  The row *)
(* locks it holds are read off its program counter: PostgreSQL keeps a     *)
(* lock from the statement that takes it until COMMIT or ROLLBACK.         *)
(*                                                                         *)
(* READ COMMITTED statements read the committed tables of the moment they  *)
(* run.  A Serializable transaction (opening a shift, converting an order) *)
(* reads the snapshot of its first statement, and its update of a row that *)
(* changed after that snapshot fails with P2034.                           *)
(***************************************************************************)
EXTENDS Naturals, FiniteSets

CONSTANTS
  Session,     \* cashier_sessions rows
  User,        \* cashiers
  Owner,       \* Owner[s] is the cashier that opens session s
  Order,       \* held_orders rows
  Sale,        \* transactions rows
  Proc,        \* database transactions in flight
  NoSession, NoOrder,
  MaxVersion,  \* bound on held_orders.version
  MaxSales     \* MaxSales[n]: bound on the sales while n shifts have been opened

ASSUME OwnerAssumption == Owner \in [Session -> User]
ASSUME NullAssumption == NoSession \notin Session /\ NoOrder \notin Order
ASSUME VersionAssumption == MaxVersion \in Nat \ {0}

VARIABLES
  session,   \* session[s]: "NONE" until it is opened, then its status column
  order,     \* order[o]: status, version and origin_cashier_session_id
  sale,      \* sale[x]: the shift of a COMPLETED transaction, and the held
             \* order it converts, if any
  summary,   \* summary[s]: the sales the last deriveSummary of a close read
  txn        \* txn[p]: the next statement of p and the values it has read

vars == <<session, order, sale, summary, txn>>

-----------------------------------------------------------------------------

Pc == {"idle", "openInsert",
       "holdCheck", "holdInsert",
       "closeLock", "closeCount", "closeSummary", "closeCas",
       "saleInsert", "saleCommit",
       "updateCas", "cancelCas",
       "convertClaim", "convertSale", "convertCommit"}

Idle == [pc |-> "idle", s |-> NoSession, o |-> NoOrder, v |-> 0]

NoOrderRow == [status |-> "NONE", version |-> 0, s |-> NoSession]

NoSale == [s |-> NoSession, o |-> NoOrder]

Txn == [pc : Pc, s : Session \cup {NoSession}, o : Order \cup {NoOrder},
        v : 0..MaxVersion]

OrderRow == [status : {"NONE", "OPEN", "CONVERTED", "CANCELLED"},
             version : 0..MaxVersion, s : Session \cup {NoSession}]

SaleRow == [s : Session \cup {NoSession}, o : Order \cup {NoOrder}]

TypeOK ==
  /\ session \in [Session -> {"NONE", "OPEN", "CLOSED"}]
  /\ order \in [Order -> OrderRow]
  /\ sale \in [Sale -> SaleRow]
  /\ summary \in [Session -> SUBSET Sale]
  /\ txn \in [Proc -> Txn]

Init ==
  /\ session = [s \in Session |-> "NONE"]
  /\ order = [o \in Order |-> NoOrderRow]
  /\ sale = [x \in Sale |-> NoSale]
  /\ summary = [s \in Session |-> {}]
  /\ txn = [p \in Proc |-> Idle]

-----------------------------------------------------------------------------
(* Row locks.                                                              *)

\* SELECT ... FOR UPDATE on the session row: held orders take it before they
\* look at the session, closing takes it before it counts the orders.
HoldsForUpdate(p, s) ==
  /\ txn[p].s = s
  /\ txn[p].pc \in {"holdCheck", "holdInsert",
                    "closeCount", "closeSummary", "closeCas"}

\* FOR KEY SHARE on the session row, taken by the foreign-key check of the
\* transactions row a sale inserts.
HoldsKeyShare(p, s) ==
  /\ txn[p].s = s
  /\ txn[p].pc \in {"saleCommit", "convertCommit"}

\* The row lock on a held order from the claim of a conversion onwards.
HoldsOrder(p, o) ==
  /\ txn[p].o = o
  /\ txn[p].pc \in {"convertSale", "convertCommit"}

OtherHoldsForUpdate(p, s) == \E q \in Proc \ {p} : HoldsForUpdate(q, s)
OtherHoldsKeyShare(p, s) == \E q \in Proc \ {p} : HoldsKeyShare(q, s)
OtherHoldsOrder(p, o) == \E q \in Proc \ {p} : HoldsOrder(q, o)

\* The first statement of a transaction, a later one, and its end.
Begin(p, label, s, o, v) ==
  txn' = [txn EXCEPT ![p] = [pc |-> label, s |-> s, o |-> o, v |-> v]]
Goto(p, label) == Begin(p, label, txn[p].s, txn[p].o, txn[p].v)
Done(p) == txn' = [txn EXCEPT ![p] = Idle]

\* The columns that an update of a held order writes.
WriteOrder(o, status, version) ==
  order' = [order EXCEPT ![o] =
              [status |-> status, version |-> version, s |-> order[o].s]]

OpenSessionsOf(u) == {s \in Session : Owner[s] = u /\ session[s] = "OPEN"}
OpenOrdersOf(s) == {o \in Order : order[o].status = "OPEN" /\ order[o].s = s}
SalesOf(s) == {x \in Sale : sale[x].s = s}

\* The id of an inserted sale is generated.  Nothing depends on which of the free
\* ones it is, so it is always the same.
NewSale == CHOOSE x \in Sale : sale[x] = NoSale

\* Bound: the shifts and the sales there are, with those in flight; no more start
\* than MaxSales allows.
Opened ==
  Cardinality({s \in Session : session[s] # "NONE"})
    + Cardinality({q \in Proc : txn[q].pc = "openInsert"})
Sold ==
  Cardinality({x \in Sale : sale[x] # NoSale})
    + Cardinality({q \in Proc : txn[q].pc \in {"saleInsert", "saleCommit",
                                "convertClaim", "convertSale", "convertCommit"}})
SaleRowLeft == Sold < MaxSales[Opened]
ShiftRowLeft == Sold <= MaxSales[Opened + 1]

-----------------------------------------------------------------------------
(* ShiftsService.open: Serializable, arbitrated by the partial unique      *)
(* index on the OPEN session of a user.                                    *)

OpenRead(p, s) ==
  /\ txn[p].pc = "idle"
  /\ session[s] = "NONE"
  /\ \A q \in Proc : txn[q].s # s          \* the id is generated
  /\ ShiftRowLeft
  /\ OpenSessionsOf(Owner[s]) = {}         \* else SHIFT_ALREADY_OPEN
  /\ Begin(p, "openInsert", s, NoOrder, 0)
  /\ UNCHANGED <<session, order, sale, summary>>

\* Broken variant: no unique index on the OPEN session of a user.
OpenInsertNoIndex(p) ==
  /\ txn[p].pc = "openInsert"
  /\ session' = [session EXCEPT ![txn[p].s] = "OPEN"]
  /\ Done(p)
  /\ UNCHANGED <<order, sale, summary>>

OpenInsert(p) ==
  LET s == txn[p].s IN
  /\ txn[p].pc = "openInsert"
  /\ \/ /\ OpenSessionsOf(Owner[s]) = {}
        /\ session' = [session EXCEPT ![s] = "OPEN"]
     \/ /\ OpenSessionsOf(Owner[s]) # {}   \* P2002: SHIFT_ALREADY_OPEN
        /\ UNCHANGED session
  /\ Done(p)
  /\ UNCHANGED <<order, sale, summary>>

-----------------------------------------------------------------------------
(* HeldOrdersService.create: READ COMMITTED; authorizeWrite locks the      *)
(* session row, then looks at it.                                          *)

\* Broken variant: the session is read without FOR UPDATE.
HoldNoLock(p, s, o) ==
  /\ txn[p].pc = "idle"
  /\ session[s] # "NONE"
  /\ order[o].status = "NONE" /\ \A q \in Proc : txn[q].o # o
  /\ Begin(p, "holdCheck", s, o, 0)
  /\ UNCHANGED <<session, order, sale, summary>>

HoldLock(p, s, o) ==
  /\ txn[p].pc = "idle"
  /\ session[s] # "NONE"
  /\ order[o].status = "NONE" /\ \A q \in Proc : txn[q].o # o
  /\ ~OtherHoldsForUpdate(p, s) /\ ~OtherHoldsKeyShare(p, s)
  /\ Begin(p, "holdCheck", s, o, 0)
  /\ UNCHANGED <<session, order, sale, summary>>

\* Broken variant: a refused order leaves its transaction, and its lock, open.
HoldCheckLeak(p) ==
  /\ txn[p].pc = "holdCheck"
  /\ session[txn[p].s] = "OPEN" /\ Goto(p, "holdInsert")
  /\ UNCHANGED <<session, order, sale, summary>>

HoldCheck(p) ==
  /\ txn[p].pc = "holdCheck"
  /\ \/ session[txn[p].s] = "OPEN" /\ Goto(p, "holdInsert")
     \/ session[txn[p].s] # "OPEN" /\ Done(p)        \* INVALID_CASHIER_SESSION
  /\ UNCHANGED <<session, order, sale, summary>>

HoldInsert(p) ==
  /\ txn[p].pc = "holdInsert"
  /\ order' = [order EXCEPT ![txn[p].o] =
                 [status |-> "OPEN", version |-> 1, s |-> txn[p].s]]
  /\ Done(p)
  /\ UNCHANGED <<session, sale, summary>>

-----------------------------------------------------------------------------
(* ShiftsService.close: READ COMMITTED.                                    *)

CloseRead(p, s) ==
  /\ txn[p].pc = "idle"
  /\ session[s] = "OPEN"                   \* else SHIFT_ALREADY_CLOSED
  /\ Begin(p, "closeLock", s, NoOrder, 0)
  /\ UNCHANGED <<session, order, sale, summary>>

CloseLock(p) ==
  /\ txn[p].pc = "closeLock"
  /\ ~OtherHoldsForUpdate(p, txn[p].s) /\ ~OtherHoldsKeyShare(p, txn[p].s)
  /\ Goto(p, "closeCount")
  /\ UNCHANGED <<session, order, sale, summary>>

\* Broken variant: OPEN held orders do not block the close.
CloseCountIgnored(p) ==
  /\ txn[p].pc = "closeCount"
  /\ Goto(p, "closeSummary")
  /\ UNCHANGED <<session, order, sale, summary>>

CloseCount(p) ==
  /\ txn[p].pc = "closeCount"
  /\ \/ OpenOrdersOf(txn[p].s) = {} /\ Goto(p, "closeSummary")
     \/ OpenOrdersOf(txn[p].s) # {} /\ Done(p)       \* OPEN_HELD_ORDERS_EXIST
  /\ UNCHANGED <<session, order, sale, summary>>

CloseSummary(p) ==
  /\ txn[p].pc = "closeSummary"
  /\ summary' = [summary EXCEPT ![txn[p].s] = SalesOf(txn[p].s)]
  /\ Goto(p, "closeCas")
  /\ UNCHANGED <<session, order, sale>>

CloseCas(p) ==
  LET s == txn[p].s IN
  /\ txn[p].pc = "closeCas"
  /\ \/ session[s] = "OPEN" /\ session' = [session EXCEPT ![s] = "CLOSED"]
     \/ session[s] # "OPEN" /\ UNCHANGED session     \* SHIFT_ALREADY_CLOSED
  /\ Done(p)
  /\ UNCHANGED <<order, sale, summary>>

-----------------------------------------------------------------------------
(* TransactionsService.create: READ COMMITTED; the session is read without *)
(* a lock, the insert takes FOR KEY SHARE on it.                           *)

SaleRead(p, s) ==
  /\ txn[p].pc = "idle"
  /\ session[s] = "OPEN"                   \* else INVALID_CASHIER_SESSION
  /\ SaleRowLeft
  /\ Begin(p, "saleInsert", s, NoOrder, 0)
  /\ UNCHANGED <<session, order, sale, summary>>

SaleInsert(p) ==
  /\ txn[p].pc = "saleInsert"
  /\ ~OtherHoldsForUpdate(p, txn[p].s)
  /\ Goto(p, "saleCommit")
  /\ UNCHANGED <<session, order, sale, summary>>

SaleCommit(p) ==
  /\ txn[p].pc = "saleCommit"
  /\ \E x \in Sale :
       /\ sale[x] = NoSale /\ x = NewSale
       /\ sale' = [sale EXCEPT ![x] = [s |-> txn[p].s, o |-> NoOrder]]
  /\ Done(p)
  /\ UNCHANGED <<session, order, summary>>

-----------------------------------------------------------------------------
(* HeldOrdersService.update and cancel: READ COMMITTED; the version read   *)
(* first is compared again by the conditional update.                      *)

EditRead(p, o, label) ==
  /\ txn[p].pc = "idle"
  /\ order[o].status = "OPEN" /\ order[o].version < MaxVersion
  /\ Begin(p, label, NoSession, o, order[o].version)
  /\ UNCHANGED <<session, order, sale, summary>>

\* The WHERE clause of every conditional update of a held order.
StillOpenAt(o, v) == order[o].status = "OPEN" /\ order[o].version = v

\* Broken variant: the WHERE clause forgets the version.
UpdateCasNoVersion(p) ==
  LET o == txn[p].o IN
  /\ txn[p].pc = "updateCas"
  /\ ~OtherHoldsOrder(p, o)
  /\ order[o].status = "OPEN"
  /\ WriteOrder(o, "OPEN", order[o].version + 1)
  /\ Done(p)
  /\ UNCHANGED <<session, sale, summary>>

UpdateCas(p) ==
  LET o == txn[p].o IN
  /\ txn[p].pc = "updateCas"
  /\ ~OtherHoldsOrder(p, o)
  /\ \/ /\ StillOpenAt(o, txn[p].v)
        /\ WriteOrder(o, "OPEN", txn[p].v + 1)
     \/ /\ ~StillOpenAt(o, txn[p].v)                 \* VERSION_CONFLICT
        /\ UNCHANGED order
  /\ Done(p)
  /\ UNCHANGED <<session, sale, summary>>

\* Broken variant: the row is updated by its id alone.
CancelById(p) ==
  LET o == txn[p].o IN
  /\ txn[p].pc = "cancelCas"
  /\ ~OtherHoldsOrder(p, o)
  /\ WriteOrder(o, "CANCELLED", txn[p].v + 1)
  /\ Done(p)
  /\ UNCHANGED <<session, sale, summary>>

CancelCas(p) ==
  LET o == txn[p].o IN
  /\ txn[p].pc = "cancelCas"
  /\ ~OtherHoldsOrder(p, o)
  /\ \/ /\ StillOpenAt(o, txn[p].v)
        /\ WriteOrder(o, "CANCELLED", txn[p].v + 1)
     \/ /\ ~StillOpenAt(o, txn[p].v)                 \* VERSION_CONFLICT
        /\ UNCHANGED order
  /\ Done(p)
  /\ UNCHANGED <<session, sale, summary>>

-----------------------------------------------------------------------------
(* HeldOrdersService.checkout: one Serializable attempt of                 *)
(* convertHeldOrder with the sale core inside it.  Its                     *)
(* client_transaction_id is a fresh one, so the core inserts a sale; ids   *)
(* that are used again, and the retries, are in HeldCheckout.              *)

ConvertRead(p, o) ==
  /\ txn[p].pc = "idle"
  /\ order[o].status = "OPEN" /\ order[o].version < MaxVersion
  /\ session[order[o].s] = "OPEN"          \* else INVALID_CASHIER_SESSION
  /\ SaleRowLeft
  /\ Begin(p, "convertClaim", order[o].s, o, order[o].version)
  /\ UNCHANGED <<session, order, sale, summary>>

ConvertClaim(p) ==
  LET o == txn[p].o IN
  /\ txn[p].pc = "convertClaim"
  /\ ~OtherHoldsOrder(p, o)
  /\ \/ StillOpenAt(o, txn[p].v) /\ Goto(p, "convertSale")
     \/ ~StillOpenAt(o, txn[p].v) /\ Done(p)         \* P2034
  /\ UNCHANGED <<session, order, sale, summary>>

ConvertSale(p) ==
  /\ txn[p].pc = "convertSale"
  /\ ~OtherHoldsForUpdate(p, txn[p].s)
  /\ Goto(p, "convertCommit")
  /\ UNCHANGED <<session, order, sale, summary>>

ConvertCommit(p) ==
  LET o == txn[p].o IN
  /\ txn[p].pc = "convertCommit"
  /\ \E x \in Sale :
       /\ sale[x] = NoSale /\ x = NewSale
       /\ sale' = [sale EXCEPT ![x] = [s |-> txn[p].s, o |-> o]]
  /\ WriteOrder(o, "CONVERTED", txn[p].v + 1)
  /\ Done(p)
  /\ UNCHANGED <<session, summary>>

-----------------------------------------------------------------------------

\* Any failure before COMMIT: a domain error, an exhausted stock row, the
\* interactive transaction timeout, a lost connection, a crash of the server.
Rollback(p) ==
  /\ txn[p].pc # "idle"
  /\ Done(p)
  /\ UNCHANGED <<session, order, sale, summary>>

Shift(p) ==
  \/ \E s \in Session : OpenRead(p, s) \/ CloseRead(p, s)
  \/ OpenInsert(p)
  \/ CloseLock(p) \/ CloseCount(p) \/ CloseSummary(p) \/ CloseCas(p)

Hold(p) ==
  \/ \E s \in Session, o \in Order : HoldLock(p, s, o)
  \/ HoldCheck(p) \/ HoldInsert(p)
  \/ \E o \in Order : EditRead(p, o, "updateCas") \/ EditRead(p, o, "cancelCas")
  \/ UpdateCas(p) \/ CancelCas(p)

Sell(p) ==
  \/ \E s \in Session : SaleRead(p, s)
  \/ SaleInsert(p) \/ SaleCommit(p)
  \/ \E o \in Order : ConvertRead(p, o)
  \/ ConvertClaim(p) \/ ConvertSale(p) \/ ConvertCommit(p)

Next == \E p \in Proc : Shift(p) \/ Hold(p) \/ Sell(p) \/ Rollback(p)

Spec == Init /\ [][Next]_vars

\* PostgreSQL runs every statement of an open transaction.  A close that waits
\* for the row lock is woken when its holders end, and has then to be there
\* before the next one: it does not lose that race for ever.  But it is never
\* granted the lock while somebody holds it.  Nothing is assumed of new requests,
\* and nothing of rollbacks: a request may fail, but need not.
Running(p) ==
  \/ OpenInsert(p) \/ HoldCheck(p) \/ HoldInsert(p)
  \/ CloseCount(p) \/ CloseSummary(p) \/ CloseCas(p)
  \/ UpdateCas(p) \/ CancelCas(p)
  \/ SaleInsert(p) \/ SaleCommit(p)
  \/ ConvertClaim(p) \/ ConvertSale(p) \/ ConvertCommit(p)

FairSpec == Spec /\ \A p \in Proc : WF_vars(Running(p)) /\ SF_vars(CloseLock(p))

-----------------------------------------------------------------------------

\* An OPEN held order belongs to a shift that is still OPEN: a shift never
\* closes under an order (ShiftsService.close against HeldOrdersService.create,
\* the M16D invariant).
OpenOrderOnOpenShift ==
  \A o \in Order : order[o].status = "OPEN" => session[order[o].s] = "OPEN"

\* A cashier never has two OPEN shifts, however many open requests race.
OneOpenShiftPerUser ==
  \A s, t \in Session :
    Owner[s] = Owner[t] /\ session[s] = "OPEN" /\ session[t] = "OPEN" => s = t

\* The sale of a converted held order is on the shift that created the order,
\* and if that shift is closed, the summary derived by its close counted it.
ConvertedSaleSummarised ==
  \A x \in Sale :
    sale[x].o # NoOrder =>
      /\ sale[x].s = order[sale[x].o].s
      /\ session[sale[x].s] = "CLOSED" => x \in summary[sale[x].s]

\* A terminal held order never changes again, whatever the requests that read
\* it while it was OPEN still have to do.
TerminalOrderFrozen ==
  [][\A o \in Order :
       order[o].status \in {"CONVERTED", "CANCELLED"} => order'[o] = order[o]]_vars

\* A sale takes FOR KEY SHARE on a session on which another one holds it.  It
\* does not queue behind a close that waits for FOR UPDATE: sales that overlap
\* without end, committed or rolled back, keep the close from its lock.
Overlaps(p) == (SaleInsert(p) \/ ConvertSale(p)) /\ OtherHoldsKeyShare(p, txn[p].s)
SalesStopOverlapping == <>[][\A p \in Proc : ~Overlaps(p)]_vars

\* Once sales no longer overlap, every request to close a shift is answered, however
\* many requests there are and whatever fails (ShiftsService.close).
CloseAnswered ==
  SalesStopOverlapping =>
    \A p \in Proc :
      []<>(txn[p].pc \notin {"closeLock", "closeCount", "closeSummary", "closeCas"})

\* The summary a close derives is final: it counts every sale of the closed
\* shift (the comment of ShiftsService.close).
ClosedShiftIsFinal ==
  \A s \in Session : session[s] = "CLOSED" => SalesOf(s) = summary[s]
===============================================================================
