------------------------- MODULE ShiftHeldOrder_proofs -------------------------
(***************************************************************************)
(* Proofs about ShiftHeldOrder for any number of shifts, orders, sales and *)
(* concurrent requests.                                                    *)
(***************************************************************************)
EXTENDS ShiftHeldOrder, TLAPS

USE OwnerAssumption, NullAssumption, VersionAssumption

-----------------------------------------------------------------------------
(* Part 1: an OPEN held order belongs to an OPEN shift.                    *)

\* The rows a request refers to exist: every request past its first statement,
\* except an edit of an order, works on a session, and those that write an
\* order on an order.
SessionPc == Pc \ {"idle", "updateCas", "cancelCas"}
OrderPc == {"holdCheck", "holdInsert", "updateCas", "cancelCas",
            "convertClaim", "convertSale", "convertCommit"}

EditPc == OrderPc \ {"holdCheck", "holdInsert"}

Refs ==
  /\ \A p \in Proc :
       /\ txn[p].pc \in SessionPc => txn[p].s \in Session
       /\ txn[p].pc \in OrderPc => txn[p].o \in Order
       /\ txn[p].pc \in EditPc => txn[p].v + 1 \in 1..MaxVersion
       /\ txn[p].pc \in EditPc => order[txn[p].o].status # "NONE"
  /\ \A o \in Order : order[o].status # "NONE" => order[o].s \in Session

\* FOR UPDATE is exclusive.
ForUpdateExclusive ==
  \A s \in Session, p, q \in Proc :
    HoldsForUpdate(p, s) /\ HoldsForUpdate(q, s) => p = q

\* What the holder of the lock has read stays true until it commits.
HoldReady ==
  \A p \in Proc : txn[p].pc = "holdInsert" => session[txn[p].s] = "OPEN"

CloseReady ==
  \A p \in Proc, o \in Order :
    txn[p].pc \in {"closeSummary", "closeCas"} /\ order[o].s = txn[p].s
      => order[o].status # "OPEN"

IInv ==
  /\ TypeOK
  /\ Refs
  /\ ForUpdateExclusive
  /\ HoldReady
  /\ CloseReady
  /\ OpenOrderOnOpenShift

LEMMA IInvInit == Init => IInv
  BY DEF Init, IInv, TypeOK, Refs, ForUpdateExclusive, HoldReady, CloseReady,
         OpenOrderOnOpenShift, Idle, NoOrderRow, NoSale, Pc, SessionPc, OrderPc,
         EditPc, HoldsForUpdate, Txn, OrderRow, SaleRow

\* What an update of a held order at the version it read leaves behind.
Written(o, status) ==
  /\ order' \in [Order -> OrderRow]
  /\ \A oo \in Order : order'[oo].s = order[oo].s
  /\ \A oo \in Order : oo # o => order'[oo] = order[oo]
  /\ order'[o].status = status

LEMMA EditWrite ==
  ASSUME TypeOK, Refs, NEW p \in Proc, txn[p].pc \in EditPc,
         NEW status \in {"OPEN", "CANCELLED", "CONVERTED"},
         WriteOrder(txn[p].o, status, txn[p].v + 1)
  PROVE  Written(txn[p].o, status)
  BY DEF TypeOK, Refs, OrderPc, EditPc, WriteOrder, OrderRow, Txn, Written

LEMMA RefsWritten ==
  ASSUME TypeOK, Refs, NEW p \in Proc, txn[p].pc \in EditPc,
         NEW status \in {"OPEN", "CANCELLED", "CONVERTED"},
         Written(txn[p].o, status), Done(p)
  PROVE  Refs'
<1> USE DEF TypeOK, Refs, SessionPc, OrderPc, EditPc, Idle, Done, Written, Txn
<1>1. txn[p].o \in Order OBVIOUS
<1>2. \A o \in Order : order'[o].status # "NONE" <=> order[o].status # "NONE"
  BY <1>1
<1>3. \A q \in Proc : txn'[q] = IF q = p THEN Idle ELSE txn[q]
  OBVIOUS
<1>4. \A o \in Order : order'[o].status # "NONE" => order'[o].s \in Session
  BY <1>2
<1>5. ASSUME NEW q \in Proc
      PROVE  /\ txn'[q].pc \in SessionPc => txn'[q].s \in Session
             /\ txn'[q].pc \in OrderPc => txn'[q].o \in Order
             /\ txn'[q].pc \in EditPc => txn'[q].v + 1 \in 1..MaxVersion
             /\ txn'[q].pc \in EditPc => order'[txn'[q].o].status # "NONE"
  BY <1>2, <1>3
<1> QED BY <1>4, <1>5

\* The type invariant is inductive together with the references.
LEMMA TypeStep == IInv /\ [Next]_vars => TypeOK' /\ Refs'
<1> SUFFICES ASSUME TypeOK, Refs, [Next]_vars PROVE TypeOK' /\ Refs'
  BY DEF IInv
<1> USE DEF TypeOK, Refs, SessionPc, OrderPc, EditPc, Pc, Txn, OrderRow, SaleRow,
            Idle, NoSale, Begin, Done, Goto
<1>1. ASSUME NEW p \in Proc, Shift(p) PROVE TypeOK' /\ Refs'
  <2>1. ASSUME NEW s \in Session, OpenRead(p, s) PROVE TypeOK' /\ Refs'
    BY <2>1 DEF OpenRead
  <2>2. ASSUME NEW s \in Session, CloseRead(p, s) PROVE TypeOK' /\ Refs'
    BY <2>2 DEF CloseRead
  <2>3. CASE OpenInsert(p) BY <2>3 DEF OpenInsert
  <2>4. CASE CloseLock(p) BY <2>4 DEF CloseLock
  <2>5. CASE CloseCount(p)
    <3>1. CASE Goto(p, "closeSummary") BY <2>5, <3>1 DEF CloseCount
    <3>2. CASE Done(p) BY <2>5, <3>2 DEF CloseCount
    <3> QED BY <2>5, <3>1, <3>2 DEF CloseCount
  <2>6. CASE CloseSummary(p) BY <2>6 DEF CloseSummary, SalesOf
  <2>7. CASE CloseCas(p) BY <2>7 DEF CloseCas
  <2> QED BY <1>1, <2>1, <2>2, <2>3, <2>4, <2>5, <2>6, <2>7 DEF Shift
<1>2. ASSUME NEW p \in Proc, Hold(p) PROVE TypeOK' /\ Refs'
  <2>1. ASSUME NEW s \in Session, NEW o \in Order, HoldLock(p, s, o)
        PROVE TypeOK' /\ Refs'
    BY <2>1 DEF HoldLock
  <2>2. CASE HoldCheck(p)
    <3>1. CASE Goto(p, "holdInsert") BY <2>2, <3>1 DEF HoldCheck
    <3>2. CASE Done(p) BY <2>2, <3>2 DEF HoldCheck
    <3> QED BY <2>2, <3>1, <3>2 DEF HoldCheck
  <2>3. CASE HoldInsert(p) BY <2>3 DEF HoldInsert
  <2>4. ASSUME NEW o \in Order, NEW label \in {"updateCas", "cancelCas"},
               EditRead(p, o, label)
        PROVE TypeOK' /\ Refs'
    BY <2>4 DEF EditRead
  <2>5. CASE UpdateCas(p)
    <3>1. CASE WriteOrder(txn[p].o, "OPEN", txn[p].v + 1)
      <4>1. Written(txn[p].o, "OPEN") BY <2>5, <3>1, EditWrite DEF UpdateCas
      <4>2. TypeOK' BY <2>5, <4>1 DEF UpdateCas, Written
      <4>3. Refs' BY <2>5, <4>1, RefsWritten DEF UpdateCas
      <4> QED BY <4>2, <4>3
    <3>2. CASE UNCHANGED order BY <2>5, <3>2 DEF UpdateCas
    <3> QED BY <2>5, <3>1, <3>2 DEF UpdateCas
  <2>6. CASE CancelCas(p)
    <3>1. CASE WriteOrder(txn[p].o, "CANCELLED", txn[p].v + 1)
      <4>1. Written(txn[p].o, "CANCELLED") BY <2>6, <3>1, EditWrite DEF CancelCas
      <4>2. TypeOK' BY <2>6, <4>1 DEF CancelCas, Written
      <4>3. Refs' BY <2>6, <4>1, RefsWritten DEF CancelCas
      <4> QED BY <4>2, <4>3
    <3>2. CASE UNCHANGED order BY <2>6, <3>2 DEF CancelCas
    <3> QED BY <2>6, <3>1, <3>2 DEF CancelCas
  <2> QED BY <1>2, <2>1, <2>2, <2>3, <2>4, <2>5, <2>6 DEF Hold
<1>3. ASSUME NEW p \in Proc, Sell(p) PROVE TypeOK' /\ Refs'
  <2>1. ASSUME NEW s \in Session, SaleRead(p, s) PROVE TypeOK' /\ Refs'
    BY <2>1 DEF SaleRead
  <2>2. CASE SaleInsert(p) BY <2>2 DEF SaleInsert
  <2>3. CASE SaleCommit(p) BY <2>3 DEF SaleCommit
  <2>4. ASSUME NEW o \in Order, ConvertRead(p, o) PROVE TypeOK' /\ Refs'
    BY <2>4 DEF ConvertRead
  <2>5. CASE ConvertClaim(p)
    <3>1. CASE Goto(p, "convertSale") BY <2>5, <3>1 DEF ConvertClaim
    <3>2. CASE Done(p) BY <2>5, <3>2 DEF ConvertClaim
    <3> QED BY <2>5, <3>1, <3>2 DEF ConvertClaim
  <2>6. CASE ConvertSale(p) BY <2>6 DEF ConvertSale
  <2>7. CASE ConvertCommit(p)
    <3>1. PICK x \in Sale :
            sale' = [sale EXCEPT ![x] = [s |-> txn[p].s, o |-> txn[p].o]]
      BY <2>7 DEF ConvertCommit
    <3>2. Written(txn[p].o, "CONVERTED") BY <2>7, EditWrite DEF ConvertCommit
    <3>3. TypeOK' BY <2>7, <3>1, <3>2 DEF ConvertCommit, Written
    <3>4. Refs' BY <2>7, <3>2, RefsWritten DEF ConvertCommit
    <3> QED BY <3>3, <3>4
  <2> QED BY <1>3, <2>1, <2>2, <2>3, <2>4, <2>5, <2>6, <2>7 DEF Sell
<1>4. ASSUME NEW p \in Proc, Rollback(p) PROVE TypeOK' /\ Refs'
  BY <1>4 DEF Rollback
<1>5. CASE UNCHANGED vars BY <1>5 DEF vars
<1> QED BY <1>1, <1>2, <1>3, <1>4, <1>5 DEF Next
\* The part of the invariant about the lock on the session row.
LockInv == ForUpdateExclusive /\ HoldReady /\ CloseReady /\ OpenOrderOnOpenShift

\* Statements that neither take the lock nor go on while holding it.
Unlocked == Pc \ {"holdCheck", "holdInsert", "closeCount", "closeSummary", "closeCas"}

LEMMA UnlockedStep ==
  ASSUME IInv, UNCHANGED <<session, order>>, NEW p \in Proc,
         NEW label \in Unlocked, NEW s, NEW o, NEW v, Begin(p, label, s, o, v)
  PROVE  LockInv'
<1>1. \A q \in Proc : /\ txn'[q].pc = IF q = p THEN label ELSE txn[q].pc
                      /\ q # p => txn'[q] = txn[q]
  BY DEF IInv, TypeOK, Begin
<1> QED
  BY <1>1 DEF IInv, LockInv, Unlocked, Pc, ForUpdateExclusive, HoldReady,
              CloseReady, OpenOrderOnOpenShift, HoldsForUpdate

LEMMA DoneStep ==
  ASSUME IInv, UNCHANGED <<session, order>>, NEW p \in Proc, Done(p)
  PROVE  LockInv'
<1>1. Begin(p, "idle", NoSession, NoOrder, 0) BY DEF Done, Idle, Begin
<1>2. "idle" \in Unlocked BY DEF Unlocked, Pc
<1> QED BY <1>1, <1>2, UnlockedStep

\* The holder of the lock goes on: its row references stay.
LEMMA LockedStep ==
  ASSUME IInv, NEW p \in Proc, NEW label \in Pc \ Unlocked,
         txn[p].pc \in Pc \ Unlocked, Goto(p, label)
  PROVE  ForUpdateExclusive'
<1>1. \A q \in Proc : /\ txn'[q].s = txn[q].s
                      /\ txn'[q].pc = IF q = p THEN label ELSE txn[q].pc
  BY DEF IInv, TypeOK, Goto, Begin
<1> QED
  BY <1>1 DEF IInv, Unlocked, Pc, ForUpdateExclusive, HoldsForUpdate

\* A request that ends releases its locks.
LEMMA DoneExclusive ==
  ASSUME IInv, NEW p \in Proc, Done(p)
  PROVE  /\ ForUpdateExclusive'
         /\ \A q \in Proc : txn'[q] = IF q = p THEN Idle ELSE txn[q]
<1>1. \A q \in Proc : txn'[q] = IF q = p THEN Idle ELSE txn[q]
  BY DEF IInv, TypeOK, Done
<1> QED
  BY <1>1 DEF IInv, Idle, ForUpdateExclusive, HoldsForUpdate

\* Cancelling or converting an order leaves fewer OPEN ones.
LEMMA TerminalWrite ==
  ASSUME IInv, UNCHANGED session, NEW p \in Proc, txn[p].pc \in EditPc,
         NEW status \in {"CANCELLED", "CONVERTED"},
         WriteOrder(txn[p].o, status, txn[p].v + 1), Done(p)
  PROVE  LockInv'
<1>1. Written(txn[p].o, status) BY EditWrite DEF IInv
<1>2. \A o \in Order : /\ order'[o].status = "OPEN" => order[o].status = "OPEN"
                       /\ order'[o].s = order[o].s
  BY <1>1 DEF Written
<1> QED BY <1>2, DoneExclusive DEF IInv, LockInv, HoldReady, CloseReady,
           OpenOrderOnOpenShift, Idle

LEMMA ShiftLockStep ==
  ASSUME IInv, NEW p \in Proc, Shift(p)
  PROVE  LockInv'
<1>1. ASSUME NEW s \in Session, OpenRead(p, s) PROVE LockInv'
  <2>1. Begin(p, "openInsert", s, NoOrder, 0) /\ "openInsert" \in Unlocked
    BY <1>1 DEF OpenRead, Unlocked, Pc
  <2> QED BY <1>1, <2>1, UnlockedStep DEF OpenRead
<1>2. ASSUME NEW s \in Session, CloseRead(p, s) PROVE LockInv'
  <2>1. Begin(p, "closeLock", s, NoOrder, 0) /\ "closeLock" \in Unlocked
    BY <1>2 DEF CloseRead, Unlocked, Pc
  <2> QED BY <1>2, <2>1, UnlockedStep DEF CloseRead
<1>3. CASE OpenInsert(p)
  <2>1. /\ ForUpdateExclusive'
        /\ \A q \in Proc : txn'[q] = IF q = p THEN Idle ELSE txn[q]
    BY <1>3, DoneExclusive DEF OpenInsert
  <2>2. \A s \in Session : session[s] = "OPEN" => session'[s] = "OPEN"
    BY <1>3 DEF OpenInsert, IInv, TypeOK
  <2> QED
    BY <1>3, <2>1, <2>2 DEF OpenInsert, IInv, TypeOK, Refs, SessionPc, Pc, LockInv, Idle,
       HoldReady, CloseReady, OpenOrderOnOpenShift, OrderRow
<1>4. CASE CloseLock(p)
  <2>1. \A q \in Proc : /\ txn'[q].s = txn[q].s
                        /\ txn'[q].pc = IF q = p THEN "closeCount" ELSE txn[q].pc
    BY <1>4 DEF CloseLock, IInv, TypeOK, Goto, Begin
  <2> QED
    BY <1>4, <2>1 DEF CloseLock, OtherHoldsForUpdate, IInv, LockInv, ForUpdateExclusive,
       HoldsForUpdate, HoldReady, CloseReady, OpenOrderOnOpenShift
<1>5. CASE CloseCount(p)
  <2>1. CASE Goto(p, "closeSummary") /\ OpenOrdersOf(txn[p].s) = {}
    <3>1. \A q \in Proc : /\ txn'[q].s = txn[q].s
                          /\ txn'[q].pc = IF q = p THEN "closeSummary" ELSE txn[q].pc
      BY <2>1 DEF IInv, TypeOK, Goto, Begin
    <3>2. ForUpdateExclusive'
      BY <1>5, <2>1, LockedStep DEF CloseCount, Unlocked, Pc
    <3> QED
      BY <1>5, <2>1, <3>1, <3>2 DEF CloseCount, OpenOrdersOf, IInv, LockInv,
         HoldReady, CloseReady, OpenOrderOnOpenShift
  <2>2. CASE Done(p)
    BY <1>5, <2>2, DoneStep DEF CloseCount
  <2> QED BY <1>5, <2>1, <2>2 DEF CloseCount
<1>6. CASE CloseSummary(p)
  <2>1. \A q \in Proc : /\ txn'[q].s = txn[q].s
                        /\ txn'[q].pc = IF q = p THEN "closeCas" ELSE txn[q].pc
    BY <1>6 DEF CloseSummary, IInv, TypeOK, Goto, Begin
  <2>2. ForUpdateExclusive'
    BY <1>6, LockedStep DEF CloseSummary, Unlocked, Pc
  <2> QED
    BY <1>6, <2>1, <2>2 DEF CloseSummary, IInv, LockInv, HoldReady, CloseReady,
       OpenOrderOnOpenShift
<1>7. CASE CloseCas(p)
  <2>1. /\ ForUpdateExclusive'
        /\ \A q \in Proc : txn'[q] = IF q = p THEN Idle ELSE txn[q]
    BY <1>7, DoneExclusive DEF CloseCas
  <2>2. /\ txn[p].s \in Session
        /\ \A s \in Session : s # txn[p].s => session'[s] = session[s]
    BY <1>7 DEF CloseCas, IInv, TypeOK, Refs, SessionPc, Pc
  <2>3. HoldReady'
    \* No other request is past its check of this session.
    <3>1. \A q \in Proc \ {p} : txn[q].pc = "holdInsert" => txn[q].s # txn[p].s
      BY <1>7 DEF CloseCas, IInv, ForUpdateExclusive, HoldsForUpdate, Refs, SessionPc, Pc
    <3> QED
      BY <1>7, <2>1, <2>2, <3>1 DEF IInv, Refs, SessionPc, Pc, HoldReady, Idle
  <2>4. CloseReady' BY <1>7, <2>1 DEF CloseCas, IInv, CloseReady, Idle
  <2>5. OpenOrderOnOpenShift'
    \* The count found no OPEN order of this session, and none was added.
    <3>1. \A o \in Order : order[o].status = "OPEN" => order[o].s # txn[p].s
      BY <1>7 DEF CloseCas, IInv, CloseReady
    <3> QED BY <1>7, <2>2, <3>1 DEF CloseCas, IInv, Refs, OpenOrderOnOpenShift
  <2> QED BY <2>1, <2>3, <2>4, <2>5 DEF LockInv
<1> QED BY <1>1, <1>2, <1>3, <1>4, <1>5, <1>6, <1>7 DEF Shift

LEMMA HoldLockStep ==
  ASSUME IInv, NEW p \in Proc, Hold(p)
  PROVE  LockInv'
<1>1. ASSUME NEW s \in Session, NEW o \in Order, HoldLock(p, s, o) PROVE LockInv'
  <2>1. \A q \in Proc : /\ q # p => txn'[q] = txn[q]
                        /\ txn'[p].s = s /\ txn'[p].pc = "holdCheck"
    BY <1>1 DEF HoldLock, IInv, TypeOK, Begin
  <2> QED
    BY <1>1, <2>1 DEF HoldLock, OtherHoldsForUpdate, IInv, LockInv,
       ForUpdateExclusive, HoldsForUpdate, HoldReady, CloseReady, OpenOrderOnOpenShift
<1>2. CASE HoldCheck(p)
  <2>1. CASE Goto(p, "holdInsert") /\ session[txn[p].s] = "OPEN"
    <3>1. \A q \in Proc : /\ txn'[q].s = txn[q].s
                          /\ txn'[q].pc = IF q = p THEN "holdInsert" ELSE txn[q].pc
      BY <2>1 DEF IInv, TypeOK, Goto, Begin
    <3>2. ForUpdateExclusive'
      BY <1>2, <2>1, LockedStep DEF HoldCheck, Unlocked, Pc
    <3> QED
      BY <1>2, <2>1, <3>1, <3>2 DEF HoldCheck, IInv, LockInv, HoldReady,
         CloseReady, OpenOrderOnOpenShift
  <2>2. CASE Done(p)
    BY <1>2, <2>2, DoneStep DEF HoldCheck
  <2> QED BY <1>2, <2>1, <2>2 DEF HoldCheck
<1>3. CASE HoldInsert(p)
  <2>1. /\ ForUpdateExclusive'
        /\ \A q \in Proc : txn'[q] = IF q = p THEN Idle ELSE txn[q]
    BY <1>3, DoneExclusive DEF HoldInsert
  <2>2. /\ txn[p].s \in Session /\ txn[p].o \in Order
        /\ session[txn[p].s] = "OPEN"
    BY <1>3 DEF HoldInsert, IInv, Refs, SessionPc, OrderPc, Pc, HoldReady
  <2>3. \A o \in Order :
          order'[o] = IF o = txn[p].o
                        THEN [status |-> "OPEN", version |-> 1, s |-> txn[p].s]
                        ELSE order[o]
    BY <1>3 DEF HoldInsert, IInv, TypeOK
  <2>4. HoldReady' BY <1>3, <2>1 DEF HoldInsert, IInv, HoldReady, Idle
  <2>5. CloseReady'
    \* No close of this session is past its count.
    <3>1. \A q \in Proc : txn[q].pc \in {"closeSummary", "closeCas"} =>
            txn[q].s # txn[p].s
      BY <1>3, <2>2 DEF HoldInsert, IInv, ForUpdateExclusive, HoldsForUpdate
    <3> QED BY <2>1, <2>3, <3>1 DEF IInv, CloseReady, Idle
  <2>6. OpenOrderOnOpenShift'
    BY <1>3, <2>2, <2>3 DEF HoldInsert, IInv, OpenOrderOnOpenShift
  <2> QED BY <2>1, <2>4, <2>5, <2>6 DEF LockInv
<1>4. ASSUME NEW o \in Order, NEW label \in {"updateCas", "cancelCas"},
             EditRead(p, o, label)
      PROVE LockInv'
  <2>1. Begin(p, label, NoSession, o, order[o].version) /\ label \in Unlocked
    BY <1>4 DEF EditRead, Unlocked, Pc
  <2> QED BY <1>4, <2>1, UnlockedStep DEF EditRead
<1>5. CASE UpdateCas(p)
  <2>1. CASE StillOpenAt(txn[p].o, txn[p].v) /\ WriteOrder(txn[p].o, "OPEN", txn[p].v + 1)
    <3>1. Written(txn[p].o, "OPEN")
      BY <1>5, <2>1, EditWrite DEF UpdateCas, IInv, EditPc, OrderPc
    <3>2. \A o \in Order : /\ order'[o].status = order[o].status
                           /\ order'[o].s = order[o].s
      BY <2>1, <3>1 DEF Written, StillOpenAt
    <3> QED BY <1>5, <3>2, DoneExclusive DEF UpdateCas, IInv, LockInv, HoldReady,
               CloseReady, OpenOrderOnOpenShift, Idle
  <2>2. CASE UNCHANGED order BY <1>5, <2>2, DoneStep DEF UpdateCas
  <2> QED BY <1>5, <2>1, <2>2 DEF UpdateCas
<1>6. CASE CancelCas(p)
  <2>1. CASE WriteOrder(txn[p].o, "CANCELLED", txn[p].v + 1)
    BY <1>6, <2>1, TerminalWrite DEF CancelCas, EditPc, OrderPc
  <2>2. CASE UNCHANGED order BY <1>6, <2>2, DoneStep DEF CancelCas
  <2> QED BY <1>6, <2>1, <2>2 DEF CancelCas
<1> QED BY <1>1, <1>2, <1>3, <1>4, <1>5, <1>6 DEF Hold

LEMMA SellLockStep ==
  ASSUME IInv, NEW p \in Proc, Sell(p)
  PROVE  LockInv'
<1> USE DEF Unlocked, Pc
<1>1. ASSUME NEW s \in Session, SaleRead(p, s) PROVE LockInv'
  <2>1. Begin(p, "saleInsert", s, NoOrder, 0) /\ "saleInsert" \in Unlocked
    BY <1>1 DEF SaleRead
  <2> QED BY <1>1, <2>1, UnlockedStep DEF SaleRead
<1>2. CASE SaleInsert(p)
  <2>1. "saleCommit" \in Unlocked OBVIOUS
  <2> QED BY <1>2, <2>1, UnlockedStep DEF SaleInsert, Goto
<1>3. CASE SaleCommit(p) BY <1>3, DoneStep DEF SaleCommit
<1>4. ASSUME NEW o \in Order, ConvertRead(p, o) PROVE LockInv'
  <2>1. Begin(p, "convertClaim", order[o].s, o, order[o].version)
        /\ "convertClaim" \in Unlocked
    BY <1>4 DEF ConvertRead
  <2> QED BY <1>4, <2>1, UnlockedStep DEF ConvertRead
<1>5. CASE ConvertClaim(p)
  <2>1. "convertSale" \in Unlocked OBVIOUS
  <2>2. CASE Goto(p, "convertSale")
    BY <1>5, <2>1, <2>2, UnlockedStep DEF ConvertClaim, Goto
  <2>3. CASE Done(p) BY <1>5, <2>3, DoneStep DEF ConvertClaim
  <2> QED BY <1>5, <2>2, <2>3 DEF ConvertClaim
<1>6. CASE ConvertSale(p)
  <2>1. "convertCommit" \in Unlocked OBVIOUS
  <2> QED BY <1>6, <2>1, UnlockedStep DEF ConvertSale, Goto
<1>7. CASE ConvertCommit(p)
  BY <1>7, TerminalWrite DEF ConvertCommit, EditPc, OrderPc
<1> QED BY <1>1, <1>2, <1>3, <1>4, <1>5, <1>6, <1>7 DEF Sell

LEMMA IInvStep == IInv /\ [Next]_vars => IInv'
<1> SUFFICES ASSUME IInv, [Next]_vars PROVE IInv'
  OBVIOUS
<1>1. TypeOK' /\ Refs' BY TypeStep
<1>2. ASSUME NEW p \in Proc, Rollback(p) PROVE LockInv'
  BY <1>2, DoneStep DEF Rollback
<1>3. ASSUME UNCHANGED vars PROVE LockInv'
  BY <1>3 DEF vars, IInv, LockInv, ForUpdateExclusive, HoldsForUpdate, HoldReady,
              CloseReady, OpenOrderOnOpenShift
<1>4. LockInv'
  BY <1>2, <1>3, ShiftLockStep, HoldLockStep, SellLockStep DEF Next
<1> QED BY <1>1, <1>4 DEF IInv, LockInv

\* Every request, row and read value has its type in every reachable state of
\* ShiftHeldOrder, whatever the number of shifts, orders and requests.
THEOREM TypeCorrect == Spec => []TypeOK
<1>1. IInv => TypeOK BY DEF IInv
<1> QED BY IInvInit, IInvStep, <1>1, PTL DEF Spec

\* A shift never closes under an OPEN held order (ShiftsService.close against
\* HeldOrdersService.create), for any number of concurrent requests.
THEOREM NoOrderLeftBehind == Spec => []OpenOrderOnOpenShift
<1>1. IInv => OpenOrderOnOpenShift BY DEF IInv
<1> QED BY IInvInit, IInvStep, <1>1, PTL DEF Spec

-----------------------------------------------------------------------------
(* Part 2: one OPEN shift per cashier.                                     *)

LEMMA OneOpenStep ==
  ASSUME IInv, OneOpenShiftPerUser, [Next]_vars
  PROVE  OneOpenShiftPerUser'
<1> USE DEF OneOpenShiftPerUser
<1>1. ASSUME NEW p \in Proc, OpenInsert(p) PROVE OneOpenShiftPerUser'
  <2>1. CASE UNCHANGED session BY <2>1
  <2>2. CASE /\ OpenSessionsOf(Owner[txn[p].s]) = {}
             /\ session' = [session EXCEPT ![txn[p].s] = "OPEN"]
    BY <2>2 DEF OpenSessionsOf, IInv, TypeOK
  <2> QED BY <1>1, <2>1, <2>2 DEF OpenInsert
<1>2. ASSUME NEW p \in Proc, CloseCas(p) PROVE OneOpenShiftPerUser'
  BY <1>2 DEF CloseCas, IInv, TypeOK
<1>3. CASE UNCHANGED session BY <1>3
<1> QED
  BY <1>1, <1>2, <1>3
     DEF Next, Shift, Hold, Sell, Rollback, vars, OpenRead, CloseRead, CloseLock,
         CloseCount, CloseSummary, HoldLock, HoldCheck, HoldInsert, EditRead,
         UpdateCas, CancelCas, SaleRead, SaleInsert, SaleCommit, ConvertRead,
         ConvertClaim, ConvertSale, ConvertCommit

\* A cashier never has two OPEN shifts (ShiftsService.open), however many
\* requests to open one race: the partial unique index arbitrates them.
THEOREM OneOpenShift == Spec => []OneOpenShiftPerUser
<1>1. Init => OneOpenShiftPerUser BY DEF Init, OneOpenShiftPerUser
<1>2. IInv /\ OneOpenShiftPerUser /\ [Next]_vars => OneOpenShiftPerUser'
  BY OneOpenStep
<1> QED BY IInvInit, IInvStep, <1>1, <1>2, PTL DEF Spec

-----------------------------------------------------------------------------
(* Part 3: terminal orders.                                                *)

HoldPc == {"holdCheck", "holdInsert"}
ClaimedPc == {"convertSale", "convertCommit"}
ConvertPc == ClaimedPc \cup {"convertClaim"}

\* The id of an order that is being created is known to its creator only.
NewOrder ==
  \A p \in Proc :
    txn[p].pc \in HoldPc =>
      /\ order[txn[p].o].status = "NONE"
      /\ \A q \in Proc \ {p} : txn[q].o # txn[p].o

\* A claimed order stays as the claim found it, and is claimed once.
Claimed ==
  \A p \in Proc :
    txn[p].pc \in ClaimedPc =>
      /\ StillOpenAt(txn[p].o, txn[p].v)
      /\ \A q \in Proc \ {p} : ~HoldsOrder(q, txn[p].o)

\* A conversion works on the shift of its order.
ConvertsOnShift ==
  \A p \in Proc : txn[p].pc \in ConvertPc => txn[p].s = order[txn[p].o].s

HInv == NewOrder /\ Claimed /\ ConvertsOnShift

Frozen(o) ==
  order[o].status \in {"CONVERTED", "CANCELLED"} => order'[o] = order[o]

LEMMA HInvInit == Init => HInv
  BY DEF Init, HInv, NewOrder, Claimed, ConvertsOnShift, Idle, HoldPc, ClaimedPc,
         ConvertPc

\* Statements that neither create nor convert an order.
LEMMA ElsewhereStep ==
  ASSUME IInv, HInv, UNCHANGED order, NEW p \in Proc, NEW t,
         txn' = [txn EXCEPT ![p] = t], t.pc \notin HoldPc \cup ConvertPc,
         t.o = txn[p].o \/ t.o = NoOrder \/ order[t.o].status # "NONE"
  PROVE  HInv'
<1>1. \A q \in Proc : txn'[q] = IF q = p THEN t ELSE txn[q]
  BY DEF IInv, TypeOK
<1>2. \A q \in Proc : txn[q].pc \in HoldPc => txn[q].o \in Order
  BY DEF IInv, Refs, HoldPc, OrderPc
<1>3. NewOrder' BY <1>1, <1>2 DEF HInv, NewOrder
<1>4. Claimed'
  BY <1>1 DEF HInv, Claimed, StillOpenAt, HoldsOrder, ConvertPc, ClaimedPc
<1>5. ConvertsOnShift' BY <1>1 DEF HInv, ConvertsOnShift
<1> QED BY <1>3, <1>4, <1>5 DEF HInv

LEMMA EndStep ==
  ASSUME IInv, HInv, UNCHANGED order, NEW p \in Proc, Done(p)
  PROVE  HInv'
<1>1. Idle.pc \notin HoldPc \cup ConvertPc /\ Idle.o = NoOrder
  BY DEF Idle, HoldPc, ConvertPc, ClaimedPc
<1> QED BY <1>1, ElsewhereStep DEF Done

LEMMA BeginElsewhere ==
  ASSUME IInv, HInv, UNCHANGED order, NEW p \in Proc,
         NEW label, label \notin HoldPc \cup ConvertPc, NEW s, NEW o, NEW v,
         Begin(p, label, s, o, v),
         o = txn[p].o \/ o = NoOrder \/ order[o].status # "NONE"
  PROVE  HInv'
  BY ElsewhereStep DEF Begin

\* A conditional update of an OPEN order that nobody else has claimed.
LEMMA OpenWrite ==
  ASSUME IInv, HInv, NEW p \in Proc, NEW status, NEW version,
         txn[p].o \in Order, order[txn[p].o].status = "OPEN",
         ~OtherHoldsOrder(p, txn[p].o),
         WriteOrder(txn[p].o, status, version), Done(p)
  PROVE  HInv' /\ \A o \in Order : Frozen(o)
<1> DEFINE w == txn[p].o
<1>1. \A q \in Proc : txn'[q] = IF q = p THEN Idle ELSE txn[q]
  BY DEF IInv, TypeOK, Done
<1>2. \A o \in Order : /\ o # w => order'[o] = order[o]
                       /\ order'[o].s = order[o].s
  BY DEF WriteOrder, IInv, TypeOK
<1>3. \A q \in Proc : /\ txn[q].pc \in HoldPc \cup ConvertPc => txn[q].o \in Order
                      /\ txn[q].pc \in HoldPc => txn[q].o # w
                      /\ q # p /\ txn[q].pc \in ClaimedPc => txn[q].o # w
  BY DEF IInv, Refs, HInv, NewOrder, OtherHoldsOrder, HoldsOrder, HoldPc,
         ConvertPc, ClaimedPc, OrderPc
<1>4. NewOrder' BY <1>1, <1>2, <1>3 DEF HInv, NewOrder, Idle, HoldPc
<1>5. Claimed'
  BY <1>1, <1>2, <1>3 DEF HInv, Claimed, StillOpenAt, HoldsOrder, Idle, ClaimedPc,
     ConvertPc
<1>6. ConvertsOnShift'
  BY <1>1, <1>2, <1>3 DEF HInv, ConvertsOnShift, Idle, ConvertPc, ClaimedPc
<1>7. \A o \in Order : Frozen(o) BY <1>2 DEF Frozen
<1> QED BY <1>4, <1>5, <1>6, <1>7 DEF HInv

LEMMA HInvStep ==
  ASSUME IInv, HInv, [Next]_vars
  PROVE  HInv' /\ \A o \in Order : Frozen(o)
<1> DEFINE Good == HInv' /\ \A o \in Order : Frozen(o)
<1> USE DEF HoldPc, ConvertPc, ClaimedPc
<1>0. ASSUME HInv', UNCHANGED order PROVE Good
  BY <1>0 DEF Frozen
<1>1. ASSUME NEW p \in Proc, Shift(p) PROVE Good
  <2>1. ASSUME NEW s \in Session, OpenRead(p, s) PROVE HInv'
    BY <2>1, BeginElsewhere DEF OpenRead
  <2>2. ASSUME NEW s \in Session, CloseRead(p, s) PROVE HInv'
    BY <2>2, BeginElsewhere DEF CloseRead
  <2>3. CASE OpenInsert(p) BY <1>0, <2>3, EndStep DEF OpenInsert
  <2>4. CASE CloseLock(p) BY <1>0, <2>4, BeginElsewhere DEF CloseLock, Goto
  <2>5. CASE CloseCount(p)
    BY <1>0, <2>5, BeginElsewhere, EndStep DEF CloseCount, Goto
  <2>6. CASE CloseSummary(p) BY <1>0, <2>6, BeginElsewhere DEF CloseSummary, Goto
  <2>7. CASE CloseCas(p) BY <1>0, <2>7, EndStep DEF CloseCas
  <2>8. UNCHANGED order
    BY <1>1 DEF Shift, OpenRead, CloseRead, OpenInsert, CloseLock, CloseCount,
                CloseSummary, CloseCas
  <2> QED
    BY <1>0, <1>1, <2>1, <2>2, <2>3, <2>4, <2>5, <2>6, <2>7, <2>8 DEF Shift
<1>2. ASSUME NEW p \in Proc, Hold(p) PROVE Good
  <2>1. ASSUME NEW s \in Session, NEW o \in Order, HoldLock(p, s, o) PROVE Good
    <3>1. \A q \in Proc : /\ q # p => txn'[q] = txn[q]
                          /\ txn'[p].pc = "holdCheck" /\ txn'[p].o = o
      BY <2>1 DEF HoldLock, Begin, IInv, TypeOK
    <3>2. NewOrder' BY <2>1, <3>1 DEF HoldLock, HInv, NewOrder
    <3>3. Claimed'
      BY <2>1, <3>1 DEF HoldLock, HInv, Claimed, StillOpenAt, HoldsOrder
    <3>4. ConvertsOnShift' BY <2>1, <3>1 DEF HoldLock, HInv, ConvertsOnShift
    <3> QED BY <1>0, <2>1, <3>2, <3>3, <3>4 DEF HoldLock, HInv
  <2>2. CASE HoldCheck(p)
    <3>1. CASE Done(p) BY <1>0, <2>2, <3>1, EndStep DEF HoldCheck
    <3>2. CASE Goto(p, "holdInsert")
      <4>1. \A q \in Proc : /\ txn'[q].o = txn[q].o /\ txn'[q].v = txn[q].v
                            /\ txn'[q].s = txn[q].s
                            /\ txn'[q].pc = IF q = p THEN "holdInsert" ELSE txn[q].pc
        BY <3>2 DEF Goto, Begin, IInv, TypeOK
      <4>2. NewOrder' BY <2>2, <4>1 DEF HoldCheck, HInv, NewOrder
      <4>3. Claimed'
        BY <2>2, <4>1 DEF HoldCheck, HInv, Claimed, StillOpenAt, HoldsOrder
      <4>4. ConvertsOnShift' BY <2>2, <4>1 DEF HoldCheck, HInv, ConvertsOnShift
      <4> QED BY <1>0, <2>2, <4>2, <4>3, <4>4 DEF HoldCheck, HInv
    <3> QED BY <2>2, <3>1, <3>2 DEF HoldCheck
  <2>3. CASE HoldInsert(p)
    <3> DEFINE w == txn[p].o
    <3>1. \A q \in Proc : txn'[q] = IF q = p THEN Idle ELSE txn[q]
      BY <2>3, DoneExclusive DEF HoldInsert
    <3>2. order[w].status = "NONE" BY <2>3 DEF HoldInsert, HInv, NewOrder
    <3>3. \A o \in Order : o # w => order'[o] = order[o]
      BY <2>3 DEF HoldInsert, IInv, TypeOK
    <3>4. \A q \in Proc : /\ txn[q].pc \in HoldPc \cup ConvertPc => txn[q].o \in Order
                          /\ txn[q].pc \in HoldPc /\ q # p => txn[q].o # w
                          /\ txn[q].pc \in ConvertPc => txn[q].o # w
      BY <2>3, <3>2 DEF HoldInsert, IInv, Refs, HInv, NewOrder, OrderPc, EditPc
    <3>5. NewOrder' BY <3>1, <3>3, <3>4 DEF HInv, NewOrder, Idle
    <3>6. Claimed'
      BY <3>1, <3>3, <3>4 DEF HInv, Claimed, StillOpenAt, HoldsOrder, Idle
    <3>7. ConvertsOnShift' BY <3>1, <3>3, <3>4 DEF HInv, ConvertsOnShift, Idle
    <3>8. \A o \in Order : Frozen(o) BY <3>2, <3>3 DEF Frozen
    <3> QED BY <3>5, <3>6, <3>7, <3>8 DEF HInv
  <2>4. ASSUME NEW o \in Order, NEW label \in {"updateCas", "cancelCas"},
               EditRead(p, o, label)
        PROVE Good
    BY <1>0, <2>4, BeginElsewhere DEF EditRead
  <2>5. ASSUME txn[p].pc \in {"updateCas", "cancelCas"} PROVE txn[p].o \in Order
    BY <2>5 DEF IInv, Refs, OrderPc
  <2>6. CASE UpdateCas(p)
    BY <1>0, <2>5, <2>6, OpenWrite, EndStep DEF UpdateCas, StillOpenAt
  <2>7. CASE CancelCas(p)
    BY <1>0, <2>5, <2>7, OpenWrite, EndStep DEF CancelCas, StillOpenAt
  <2> QED BY <1>2, <2>1, <2>2, <2>3, <2>4, <2>6, <2>7 DEF Hold
<1>3. ASSUME NEW p \in Proc, Sell(p) PROVE Good
  <2>1. ASSUME NEW s \in Session, SaleRead(p, s) PROVE Good
    BY <1>0, <2>1, BeginElsewhere DEF SaleRead
  <2>2. CASE SaleInsert(p) BY <1>0, <2>2, BeginElsewhere DEF SaleInsert, Goto
  <2>3. CASE SaleCommit(p) BY <1>0, <2>3, EndStep DEF SaleCommit
  <2>4. ASSUME NEW o \in Order, ConvertRead(p, o) PROVE Good
    <3>1. \A q \in Proc : /\ q # p => txn'[q] = txn[q]
                          /\ txn'[p].pc = "convertClaim"
                          /\ txn'[p].o = o /\ txn'[p].s = order[o].s
      BY <2>4 DEF ConvertRead, Begin, IInv, TypeOK
    <3>2. NewOrder' BY <2>4, <3>1 DEF ConvertRead, HInv, NewOrder
    <3>3. Claimed'
      BY <2>4, <3>1 DEF ConvertRead, HInv, Claimed, StillOpenAt, HoldsOrder
    <3>4. ConvertsOnShift' BY <2>4, <3>1 DEF ConvertRead, HInv, ConvertsOnShift
    <3> QED BY <1>0, <2>4, <3>2, <3>3, <3>4 DEF ConvertRead, HInv
  <2>5. ASSUME NEW label \in ClaimedPc, Goto(p, label), txn[p].pc \in ConvertPc,
               StillOpenAt(txn[p].o, txn[p].v), ~OtherHoldsOrder(p, txn[p].o),
               UNCHANGED order
        PROVE Good
    <3>1. \A q \in Proc : /\ txn'[q].o = txn[q].o /\ txn'[q].v = txn[q].v
                          /\ txn'[q].s = txn[q].s
                          /\ txn'[q].pc = IF q = p THEN label ELSE txn[q].pc
      BY <2>5 DEF Goto, Begin, IInv, TypeOK
    <3>2. NewOrder' BY <2>5, <3>1 DEF HInv, NewOrder
    <3>3. Claimed'
      BY <2>5, <3>1 DEF HInv, Claimed, StillOpenAt, HoldsOrder, OtherHoldsOrder
    <3>4. ConvertsOnShift' BY <2>5, <3>1 DEF HInv, ConvertsOnShift
    <3> QED BY <1>0, <2>5, <3>2, <3>3, <3>4 DEF HInv
  <2>6. CASE ConvertClaim(p)
    BY <1>0, <2>5, <2>6, EndStep DEF ConvertClaim
  <2>7. ASSUME txn[p].pc \in ClaimedPc
        PROVE  /\ StillOpenAt(txn[p].o, txn[p].v) /\ txn[p].o \in Order
               /\ ~OtherHoldsOrder(p, txn[p].o)
    BY <2>7 DEF HInv, Claimed, OtherHoldsOrder, IInv, Refs, OrderPc
  <2>8. CASE ConvertSale(p) BY <2>5, <2>7, <2>8 DEF ConvertSale
  <2>9. CASE ConvertCommit(p)
    BY <2>7, <2>9, OpenWrite DEF ConvertCommit, StillOpenAt
  <2> QED BY <1>3, <2>1, <2>2, <2>3, <2>4, <2>6, <2>8, <2>9 DEF Sell
<1>4. ASSUME NEW p \in Proc, Rollback(p) PROVE Good
  BY <1>0, <1>4, EndStep DEF Rollback
<1>5. CASE UNCHANGED vars
  BY <1>0, <1>5 DEF vars, HInv, NewOrder, Claimed, ConvertsOnShift, StillOpenAt,
     HoldsOrder
<1> QED BY <1>1, <1>2, <1>3, <1>4, <1>5 DEF Next

\* A CONVERTED or CANCELLED order never changes again, whatever the requests
\* that read it while it was OPEN still do (update, cancel, convertHeldOrder).
THEOREM TerminalFrozen == Spec => TerminalOrderFrozen
<1>1. IInv /\ HInv /\ [Next]_vars => HInv' BY HInvStep
<1>2. IInv /\ HInv /\ [Next]_vars =>
        [\A o \in Order :
           order[o].status \in {"CONVERTED", "CANCELLED"} => order'[o] = order[o]]_vars
  BY HInvStep DEF Frozen
<1> QED BY IInvInit, IInvStep, HInvInit, <1>1, <1>2, PTL DEF Spec, TerminalOrderFrozen

-----------------------------------------------------------------------------
(* Part 4: the close of a shift counts the sale of every converted order.  *)

\* The sale of a conversion names a CONVERTED order, and is on its shift.
SaleOfConverted ==
  \A x \in Sale :
    sale[x].o # NoOrder =>
      /\ sale[x].o \in Order
      /\ order[sale[x].o].status = "CONVERTED"
      /\ sale[x].s = order[sale[x].o].s

\* The summary that a close has derived still counts every converted sale
\* when it updates the session: no order is left that could be converted.
CountedAtClose ==
  \A p \in Proc, x \in Sale :
    /\ txn[p].pc = "closeCas"
    /\ sale[x].o # NoOrder
    /\ sale[x].s = txn[p].s
    => x \in summary[txn[p].s]

SInv == SaleOfConverted /\ CountedAtClose /\ ConvertedSaleSummarised

LEMMA SInvInit == Init => SInv
  BY DEF Init, SInv, SaleOfConverted, CountedAtClose, ConvertedSaleSummarised,
         Idle, NoSale

\* Statements that record no sale, derive no summary and close no shift.
QuietClose ==
  /\ UNCHANGED <<sale, summary>>
  /\ \A s \in Session : session'[s] = "CLOSED" => session[s] = "CLOSED"
  /\ \A q \in Proc : txn'[q].pc = "closeCas" => txn'[q] = txn[q]

LEMMA QuietStep ==
  ASSUME IInv, SInv, QuietClose, \A o \in Order : Frozen(o)
  PROVE  SInv'
<1>1. SaleOfConverted' BY DEF SInv, SaleOfConverted, QuietClose, Frozen
<1>2. CountedAtClose' BY DEF SInv, CountedAtClose, QuietClose
<1>3. \A x \in Sale : sale[x].o # NoOrder => sale[x].s \in Session
  BY DEF SInv, SaleOfConverted, IInv, Refs
<1>4. ConvertedSaleSummarised'
  BY <1>3 DEF SInv, SaleOfConverted, ConvertedSaleSummarised, QuietClose, Frozen
<1> QED BY <1>1, <1>2, <1>4 DEF SInv

\* The transaction of p moves on, to another statement than the last of a close.
LEMMA QuietMove ==
  ASSUME IInv, NEW p \in Proc, NEW t, t.pc # "closeCas",
         txn' = [txn EXCEPT ![p] = t], UNCHANGED <<sale, summary>>,
         \A s \in Session : session'[s] = "CLOSED" => session[s] = "CLOSED"
  PROVE  QuietClose
  BY DEF IInv, TypeOK, QuietClose

LEMMA SInvStep ==
  ASSUME IInv, HInv, SInv, [Next]_vars
  PROVE  SInv'
<1>0. \A o \in Order : Frozen(o) BY HInvStep
<1>1. ASSUME QuietClose PROVE SInv' BY <1>0, <1>1, QuietStep
<1> USE DEF Begin, Goto, Done, Idle
<1>2. ASSUME NEW p \in Proc, Shift(p) PROVE SInv'
  <2>1. ASSUME NEW s \in Session, OpenRead(p, s) PROVE QuietClose
    BY <2>1, QuietMove DEF OpenRead
  <2>2. ASSUME NEW s \in Session, CloseRead(p, s) PROVE QuietClose
    BY <2>2, QuietMove DEF CloseRead
  <2>3. CASE OpenInsert(p)
    <3>1. \A s \in Session : session'[s] = "CLOSED" => session[s] = "CLOSED"
      BY <2>3 DEF OpenInsert, IInv, TypeOK
    <3> QED BY <1>1, <2>3, <3>1, QuietMove DEF OpenInsert
  <2>4. CASE CloseLock(p) BY <1>1, <2>4, QuietMove DEF CloseLock
  <2>5. CASE CloseCount(p)
    <3>1. CASE Goto(p, "closeSummary")
      BY <1>1, <2>5, <3>1, QuietMove DEF CloseCount
    <3>2. CASE Done(p) BY <1>1, <2>5, <3>2, QuietMove DEF CloseCount
    <3> QED BY <2>5, <3>1, <3>2 DEF CloseCount
  <2>6. CASE CloseSummary(p)
    <3> DEFINE w == txn[p].s
    <3>1. w \in Session BY <2>6 DEF CloseSummary, IInv, Refs, SessionPc, Pc
    <3>2. /\ summary'[w] = SalesOf(w)
          /\ \A s \in Session \ {w} : summary'[s] = summary[s]
      BY <2>6, <3>1 DEF CloseSummary, IInv, TypeOK
    <3>3. \A q \in Proc : /\ txn'[q].s = txn[q].s
                          /\ q # p => txn'[q] = txn[q]
      BY <2>6 DEF CloseSummary, IInv, TypeOK
    <3>4. txn'[p].s = w BY <3>3
    <3>5. \A x \in Sale : sale[x].o # NoOrder => sale[x].s \in Session
      BY DEF SInv, SaleOfConverted, IInv, Refs
    <3>6. SaleOfConverted' BY <2>6 DEF CloseSummary, SInv, SaleOfConverted
    <3>7. CountedAtClose'
      BY <2>6, <3>2, <3>3, <3>5 DEF CloseSummary, SInv, CountedAtClose, SalesOf
    <3>8. ConvertedSaleSummarised'
      BY <2>6, <3>2, <3>5
      DEF CloseSummary, SInv, ConvertedSaleSummarised, SalesOf
    <3> QED BY <3>6, <3>7, <3>8 DEF SInv
  <2>7. CASE CloseCas(p)
    <3> DEFINE w == txn[p].s
    <3>1. \A s \in Session : s # w => session'[s] = session[s]
      BY <2>7 DEF CloseCas, IInv, TypeOK
    <3>2. \A q \in Proc : txn'[q] = IF q = p THEN Idle ELSE txn[q]
      BY <2>7 DEF CloseCas, IInv, TypeOK
    <3>3. \A x \in Sale : sale[x].o # NoOrder => sale[x].s \in Session
      BY DEF SInv, SaleOfConverted, IInv, Refs
    <3>4. SaleOfConverted' BY <2>7 DEF CloseCas, SInv, SaleOfConverted
    <3>5. CountedAtClose' BY <2>7, <3>2 DEF CloseCas, SInv, CountedAtClose
    <3>6. ConvertedSaleSummarised'
      BY <2>7, <3>1, <3>3
      DEF CloseCas, SInv, ConvertedSaleSummarised, CountedAtClose
    <3> QED BY <3>4, <3>5, <3>6 DEF SInv
  <2> QED BY <1>1, <1>2, <2>1, <2>2, <2>3, <2>4, <2>5, <2>6, <2>7 DEF Shift
<1>3. ASSUME NEW p \in Proc, Hold(p) PROVE SInv'
  <2>1. ASSUME NEW s \in Session, NEW o \in Order, HoldLock(p, s, o)
        PROVE  QuietClose
    BY <2>1, QuietMove DEF HoldLock
  <2>2. CASE HoldCheck(p)
    <3>1. CASE Goto(p, "holdInsert") BY <1>1, <2>2, <3>1, QuietMove DEF HoldCheck
    <3>2. CASE Done(p) BY <1>1, <2>2, <3>2, QuietMove DEF HoldCheck
    <3> QED BY <2>2, <3>1, <3>2 DEF HoldCheck
  <2>3. CASE HoldInsert(p) BY <1>1, <2>3, QuietMove DEF HoldInsert
  <2>4. ASSUME NEW o \in Order, NEW label \in {"updateCas", "cancelCas"},
               EditRead(p, o, label)
        PROVE QuietClose
    BY <2>4, QuietMove DEF EditRead
  <2>5. CASE UpdateCas(p) BY <1>1, <2>5, QuietMove DEF UpdateCas
  <2>6. CASE CancelCas(p) BY <1>1, <2>6, QuietMove DEF CancelCas
  <2> QED BY <1>1, <1>3, <2>1, <2>2, <2>3, <2>4, <2>5, <2>6 DEF Hold
<1>4. ASSUME NEW p \in Proc, Sell(p) PROVE SInv'
  <2>1. ASSUME NEW s \in Session, SaleRead(p, s) PROVE QuietClose
    BY <2>1, QuietMove DEF SaleRead
  <2>2. CASE SaleInsert(p) BY <1>1, <2>2, QuietMove DEF SaleInsert
  <2>3. CASE SaleCommit(p)
    <3>1. PICK x \in Sale : sale' = [sale EXCEPT ![x] = [s |-> txn[p].s, o |-> NoOrder]]
      BY <2>3 DEF SaleCommit
    <3>2. \A y \in Sale : sale'[y].o # NoOrder => sale'[y] = sale[y]
      BY <3>1 DEF IInv, TypeOK
    <3>3. \A q \in Proc : txn'[q] = IF q = p THEN Idle ELSE txn[q]
      BY <2>3 DEF SaleCommit, IInv, TypeOK
    <3>4. SaleOfConverted' BY <2>3, <3>2 DEF SaleCommit, SInv, SaleOfConverted
    <3>5. CountedAtClose'
      BY <2>3, <3>2, <3>3 DEF SaleCommit, SInv, CountedAtClose
    <3>6. ConvertedSaleSummarised'
      BY <2>3, <3>2 DEF SaleCommit, SInv, ConvertedSaleSummarised
    <3> QED BY <3>4, <3>5, <3>6 DEF SInv
  <2>4. ASSUME NEW o \in Order, ConvertRead(p, o) PROVE QuietClose
    BY <2>4, QuietMove DEF ConvertRead
  <2>5. CASE ConvertClaim(p)
    <3>1. CASE Goto(p, "convertSale")
      BY <1>1, <2>5, <3>1, QuietMove DEF ConvertClaim
    <3>2. CASE Done(p) BY <1>1, <2>5, <3>2, QuietMove DEF ConvertClaim
    <3> QED BY <2>5, <3>1, <3>2 DEF ConvertClaim
  <2>6. CASE ConvertSale(p) BY <1>1, <2>6, QuietMove DEF ConvertSale
  <2>7. CASE ConvertCommit(p)
    <3> DEFINE w == txn[p].o
               z == txn[p].s
    <3>1. /\ w \in Order /\ z \in Session /\ z = order[w].s
          /\ order[w].status = "OPEN"
      BY <2>7 DEF ConvertCommit, IInv, Refs, HInv, Claimed, ConvertsOnShift,
                  ConvertPc, ClaimedPc, StillOpenAt, OrderPc, SessionPc, Pc
    <3>2. session[z] = "OPEN" BY <3>1 DEF IInv, OpenOrderOnOpenShift
    <3>3. \A q \in Proc : txn[q].pc = "closeCas" => txn[q].s # z
      BY <3>1 DEF IInv, CloseReady
    <3>4. PICK x \in Sale : sale' = [sale EXCEPT ![x] = [s |-> z, o |-> w]]
      BY <2>7 DEF ConvertCommit
    <3>5. \A y \in Sale : sale'[y] = IF y = x THEN [s |-> z, o |-> w] ELSE sale[y]
      BY <3>4 DEF IInv, TypeOK
    <3>6. /\ order'[w].status = "CONVERTED" /\ order'[w].s = order[w].s
          /\ \A o \in Order : o # w => order'[o] = order[o]
      BY <2>7, <3>1 DEF ConvertCommit, WriteOrder, IInv, TypeOK
    <3>7. \A q \in Proc : txn'[q] = IF q = p THEN Idle ELSE txn[q]
      BY <2>7 DEF ConvertCommit, IInv, TypeOK
    <3>8. SaleOfConverted' BY <3>1, <3>5, <3>6 DEF SInv, SaleOfConverted
    <3>9. CountedAtClose'
      BY <2>7, <3>3, <3>5, <3>7 DEF ConvertCommit, SInv, CountedAtClose
    <3>10. ConvertedSaleSummarised'
      BY <2>7, <3>1, <3>2, <3>5, <3>6
      DEF ConvertCommit, SInv, ConvertedSaleSummarised, SaleOfConverted
    <3> QED BY <3>8, <3>9, <3>10 DEF SInv
  <2> QED BY <1>1, <1>4, <2>1, <2>2, <2>3, <2>4, <2>5, <2>6, <2>7 DEF Sell
<1>5. ASSUME NEW p \in Proc, Rollback(p) PROVE SInv'
  BY <1>1, <1>5, QuietMove DEF Rollback
<1>6. CASE UNCHANGED vars
  BY <1>6 DEF vars, SInv, SaleOfConverted, CountedAtClose, ConvertedSaleSummarised
<1> QED BY <1>2, <1>3, <1>4, <1>5, <1>6 DEF Next

\* The sale of a converted order is on the shift of the order, and the summary
\* derived by the close of that shift counts it (convertHeldOrder against
\* ShiftsService.close).
THEOREM SaleSummarised == Spec => []ConvertedSaleSummarised
<1>1. IInv /\ HInv /\ [Next]_vars => HInv' BY HInvStep
<1>2. IInv /\ HInv /\ SInv /\ [Next]_vars => SInv' BY SInvStep
<1>3. SInv => ConvertedSaleSummarised BY DEF SInv
<1> QED
  BY IInvInit, IInvStep, HInvInit, SInvInit, <1>1, <1>2, <1>3, PTL DEF Spec
===============================================================================
