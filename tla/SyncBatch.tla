------------------------------- MODULE SyncBatch -------------------------------
(***************************************************************************)
(* POST /sync/transactions (SyncService.transactions): a client uploads    *)
(* the sales it made offline, in batches that it sends again when no       *)
(* answer came.  The batches of a user, served at once or one after        *)
(* another, by a server that may crash between any two statements.         *)
(*                                                                         *)
(* A record is one checkout of TransactionsService, of V1 or of the legacy *)
(* mode: the lookup of its id, the check of its session, and the writes,   *)
(* which the unique index and the row lock of the stock make one step      *)
(* (Checkout shows them one by one).                                       *)
(***************************************************************************)
EXTENDS Integers, Sequences

CONSTANTS
  Entry, Cid, cidOf,
  content,     \* what assertSameRequest compares, the session included
  session,     \* session[r]: of a V1 record, or NoSession of a legacy one
  outlet,      \* outlet[r]
  qty,         \* the stock that a record takes of the one product
  wellFormed,  \* whether the record passes its DTO
  Delivery, batch, \* batch[d]: the records that d uploads, in order
  Session, Outlet, HomeOutlet,
  InitStock,
  NoSale, NoSession

VARIABLES
  sale,        \* sale[i]: the COMPLETED transactions row under i
  stock,
  openSession, \* the cashier sessions that are OPEN
  actor,       \* the user of the batches, [active, role, outlet]
  pc,          \* the next statement of a delivery
  results,     \* its results so far, one for each record
  answer,      \* what the client was told
  complete     \* history: whether all of a batch was recorded when it came

vars == <<sale, stock, openSession, actor, pc, results, answer, complete>>

ASSUME BatchAssumption ==
  /\ cidOf \in [Entry -> Cid]
  /\ session \in [Entry -> Session \cup {NoSession}] /\ outlet \in [Entry -> Outlet]
  /\ qty \in [Entry -> Nat] /\ wellFormed \in [Entry -> BOOLEAN]
  /\ \A d \in Delivery : batch[d] \in Seq(Entry) /\ batch[d] # <<>>
  /\ InitStock \in Nat /\ HomeOutlet \in Outlet
  /\ NoSale \notin Entry /\ NoSession \notin Session

ASSUME LedgerAssumption == NoSale \notin [by : Entry, total : {0}]

-----------------------------------------------------------------------------

\* failed: why; a "gone" actor, a "closed" session, or "error": a 500 or 503.
Status == {"synced", "mismatch", "gone", "closed", "outlet", "stock", "error"}
AnswerKind == {"none", "ok", "invalid", "forbidden", "unauthorized"}

TypeOK ==
  /\ sale \in [Cid -> Entry \cup {NoSale}]
  /\ stock \in Nat
  /\ openSession \subseteq Session
  /\ actor \in [active : BOOLEAN, role : {"CASHIER", "OWNER"}, outlet : Outlet]
  /\ pc \in [Delivery -> {"unsent", "access", "lookup", "session",
                          "write", "reply", "done", "crashed"}]
  /\ results \in [Delivery -> Seq(Status)]
  /\ \A d \in Delivery :
       /\ Len(results[d]) <= Len(batch[d])
       /\ pc[d] \in {"lookup", "session", "write", "reply"} =>
            Len(results[d]) < Len(batch[d])
  /\ answer \in [Delivery -> AnswerKind]
  /\ complete \in [Delivery -> BOOLEAN]

Init ==
  /\ sale = [i \in Cid |-> NoSale]
  /\ stock = InitStock
  /\ openSession = Session
  /\ actor \in [active : {TRUE}, role : {"CASHIER", "OWNER"}, outlet : {HomeOutlet}]
  /\ pc = [d \in Delivery |-> "unsent"]
  /\ results = [d \in Delivery |-> <<>>]
  /\ answer = [d \in Delivery |-> "none"]
  /\ complete = [d \in Delivery |-> FALSE]

-----------------------------------------------------------------------------

Current(d) == batch[d][Len(results[d]) + 1]
Existing(d) == sale[cidOf[Current(d)]]
Same(r, t) == cidOf[r] = cidOf[t] /\ content[r] = content[t]
Recorded(r) == sale[cidOf[r]] # NoSale /\ Same(sale[cidOf[r]], r)
Records(d) == {batch[d][i] : i \in DOMAIN batch[d]}

Go(d, label) == pc' = [pc EXCEPT ![d] = label]
NoSaleMade == UNCHANGED <<sale, stock, openSession, actor>>

\* The end of a request without results.
Refuse(d, told) ==
  /\ Go(d, "done") /\ answer' = [answer EXCEPT ![d] = told]
  /\ NoSaleMade /\ UNCHANGED results

Continue(d, label) == Go(d, label) /\ NoSaleMade /\ UNCHANGED <<results, answer>>

\* validDto: one record that is not valid refuses the batch.
Valid(d) == \A r \in Records(d) : wellFormed[r]

Send(d) ==
  /\ pc[d] = "unsent"
  /\ IF Valid(d) THEN Continue(d, "access") ELSE Refuse(d, "invalid")
  /\ complete' = [complete EXCEPT ![d] = \A r \in Records(d) : Recorded(r)]

\* validateSyncAccess: a cashier uploads to the assigned outlet alone.
ValidateAccess(d) ==
  /\ pc[d] = "access" /\ UNCHANGED complete
  /\ IF ~actor.active THEN Refuse(d, "unauthorized")
     ELSE IF actor.role = "CASHIER" /\ \E r \in Records(d) : outlet[r] # actor.outlet
     THEN Refuse(d, "forbidden")
     ELSE Continue(d, "lookup")

\* The result of a record: on to the next one, whatever it is.
Push(d, status) ==
  /\ results' = [results EXCEPT ![d] = Append(@, status)]
  /\ IF Len(results[d]) + 1 = Len(batch[d])
     THEN Go(d, "done") /\ answer' = [answer EXCEPT ![d] = "ok"]
     ELSE Go(d, "lookup") /\ UNCHANGED answer

Fail(d, status) == Push(d, status) /\ NoSaleMade

\* Broken variant: the session is checked before the lookup.
LookupOpenOnly(d) ==
  LET r == Current(d) IN
  /\ pc[d] = "lookup" /\ UNCHANGED complete
  /\ IF ~actor.active THEN Fail(d, "gone")
     ELSE IF session[r] # NoSession /\ session[r] \notin openSession THEN Fail(d, "closed")
     ELSE IF Existing(d) = NoSale THEN Continue(d, "session")
     ELSE IF Recorded(r) THEN Continue(d, "reply")
     ELSE Fail(d, "mismatch")

\* Broken variant: the payload of the recorded sale is not compared.
LookupAny(d) ==
  /\ pc[d] = "lookup" /\ UNCHANGED complete
  /\ IF ~actor.active THEN Fail(d, "gone")
     ELSE IF Existing(d) = NoSale THEN Continue(d, "session")
     ELSE Continue(d, "reply")

\* The actor, and the idempotency lookup.
Lookup(d) ==
  LET r == Current(d) IN
  /\ pc[d] = "lookup" /\ UNCHANGED complete
  /\ IF ~actor.active THEN Fail(d, "gone")
     ELSE IF Existing(d) = NoSale THEN Continue(d, "session")
     ELSE IF Recorded(r) THEN Continue(d, "reply")
     ELSE Fail(d, "mismatch")

\* A legacy record has no session.
CheckSession(d) ==
  LET s == session[Current(d)] IN
  /\ pc[d] = "session" /\ UNCHANGED complete
  /\ IF s # NoSession /\ s \notin openSession THEN Fail(d, "closed") ELSE Continue(d, "write")

\* Broken variant: nothing keeps an id unique.
WriteAgain(d) ==
  LET r == Current(d) IN
  /\ pc[d] = "write" /\ UNCHANGED complete
  /\ IF stock < qty[r] THEN Fail(d, "stock")
     ELSE /\ sale' = [sale EXCEPT ![cidOf[r]] = r]
          /\ stock' = stock - qty[r]
          /\ Go(d, "reply")
          /\ UNCHANGED <<openSession, actor, results, answer>>

\* The insert comes before the stock: a taken id is looked up again (P2002).
Write(d) ==
  LET r == Current(d) IN
  /\ pc[d] = "write" /\ UNCHANGED complete
  /\ IF Existing(d) # NoSale THEN Continue(d, "lookup")
     ELSE IF stock < qty[r] THEN Fail(d, "stock")
     ELSE /\ sale' = [sale EXCEPT ![cidOf[r]] = r]
          /\ stock' = stock - qty[r]
          /\ Go(d, "reply")
          /\ UNCHANGED <<openSession, actor, results, answer>>

Reply(d) == pc[d] = "reply" /\ Fail(d, "synced") /\ UNCHANGED complete

\* A checkout that ends in a 500 or 503: before its COMMIT, at whatever
\* statement, or after it, when only the server does not know of it.
Break(d) == pc[d] \in {"lookup", "reply"} /\ Fail(d, "error") /\ UNCHANGED complete

-----------------------------------------------------------------------------

\* The server stops: nothing is left of the requests that it was serving.
Crash ==
  /\ \E d \in Delivery : pc[d] \notin {"unsent", "done", "crashed"}
  /\ pc' = [d \in Delivery |->
             IF pc[d] \in {"unsent", "done"} THEN pc[d] ELSE "crashed"]
  /\ NoSaleMade /\ UNCHANGED <<results, answer, complete>>

CloseSession(s) ==
  /\ s \in openSession /\ openSession' = openSession \ {s}
  /\ UNCHANGED <<sale, stock, actor, pc, results, answer, complete>>

\* No request does this: a user is deactivated or moved in the database.
EditActor(new) ==
  /\ actor.active /\ new # actor /\ actor' = new
  /\ UNCHANGED <<sale, stock, openSession, pc, results, answer, complete>>

Serve(d) == ValidateAccess(d) \/ Lookup(d) \/ CheckSession(d) \/ Write(d) \/ Reply(d)

Next ==
  \/ \E d \in Delivery : Send(d) \/ Serve(d) \/ Break(d)
  \/ Crash
  \/ \E s \in Session : CloseSession(s)
  \/ EditActor([actor EXCEPT !.active = FALSE])
  \/ \E o \in Outlet \ {HomeOutlet} : EditActor([actor EXCEPT !.outlet = o])

Spec == Init /\ [][Next]_vars

-----------------------------------------------------------------------------

\* A delivery that passes the DTO brings r.
Brought(r) == \E d \in Delivery : r \in Records(d) /\ Valid(d)

\* An answer has a result for every record, in the order of the batch, and
\* "synced" is only said of a record that is recorded, with that content.  A
\* record that only ever comes in batches with an invalid one is not sold.
ResultsAreTrue ==
  /\ \A d \in Delivery :
       /\ answer[d] = "ok" => Len(results[d]) = Len(batch[d])
       /\ \A i \in DOMAIN results[d] :
            results[d][i] = "synced" => Recorded(batch[d][i])
  /\ \A r \in Entry : ~Brought(r) => sale[cidOf[r]] # r

\* A batch that is sent again after all of it was recorded is confirmed as a
\* whole, whatever became of sessions and stock, unless the user is gone or a
\* checkout fails.  This is how a client gets out of a crash or a lost answer.
ResendConfirms ==
  \A d \in Delivery : complete[d] =>
    \A i \in DOMAIN results[d] : results[d][i] \in {"synced", "gone", "error"}

\* However batches overlap, are cut short and are sent again, their records
\* are sold as single checkouts would be: at most once, for the stock they
\* take, and only what is sold is confirmed.
Position == UNION {{<<d, i>> : i \in DOMAIN batch[d]} : d \in Delivery}
SaleUnder(i) == IF sale[i] = NoSale THEN NoSale ELSE [by |-> sale[i], total |-> 0]
ResultAt(x) ==
  IF x[2] \notin DOMAIN results[x[1]] THEN [kind |-> "none", total |-> 0]
  ELSE [kind |-> IF results[x[1]][x[2]] = "synced" THEN "sale" ELSE "refused", total |-> 0]

Ledger == INSTANCE SaleLedger WITH
  Request <- Entry,
  Call <- Position,
  reqOf <- [x \in Position |-> batch[x[1]][x[2]]],
  Product <- {"product"},
  demand <- [r \in Entry |-> [p \in {"product"} |-> qty[r]]],
  Total <- {0}, Delta <- {},
  sale <- [i \in Cid |-> SaleUnder(i)],
  stock <- [p \in {"product"} |-> stock],
  answer <- [x \in Position |-> ResultAt(x)]

ImplementsLedger == Ledger!Spec
===============================================================================
