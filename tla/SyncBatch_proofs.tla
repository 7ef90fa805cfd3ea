--------------------------- MODULE SyncBatch_proofs ---------------------------
(***************************************************************************)
(* Proofs about SyncBatch for any records, batches and sessions.           *)
(***************************************************************************)
EXTENDS SyncBatch, TLAPS

USE BatchAssumption

-----------------------------------------------------------------------------
(* The invariant.                                                          *)

\* The statements of a checkout.
Working == {"lookup", "session", "write", "reply"}

\* A delivery has no results before its first record.
Begun ==
  \A d \in Delivery : pc[d] \in {"unsent", "access"} => results[d] = <<>>

\* Only valid batches are worked on.
OnlyValid ==
  \A d \in Delivery : pc[d] \in Working \cup {"access"} => Valid(d)

\* A transactions row is under its own id, and a valid batch brought it.
SalesBrought ==
  \A i \in Cid : sale[i] # NoSale => cidOf[sale[i]] = i /\ Brought(sale[i])

\* What is to be confirmed is recorded.
Replying ==
  \A d \in Delivery : pc[d] = "reply" => Recorded(Current(d))

\* The records of a batch that was complete when it came are recorded, so its
\* lookups find them and it never gets to the checks of a new sale.
Confirming ==
  \A d \in Delivery :
    complete[d] =>
      /\ pc[d] \notin {"session", "write"}
      /\ \A i \in DOMAIN batch[d] : Recorded(batch[d][i])

IInv ==
  /\ TypeOK
  /\ Begun /\ OnlyValid /\ SalesBrought /\ Replying /\ Confirming
  /\ ResultsAreTrue /\ ResendConfirms

LEMMA InitIInv == Init => IInv
<1> SUFFICES ASSUME Init PROVE IInv
  OBVIOUS
<1>1. TypeOK
  <2>1. \A d \in Delivery : Len(results[d]) = 0 /\ Len(batch[d]) \in Nat
    BY DEF Init
  <2>2. results \in [Delivery -> Seq(Status)]
    BY DEF Init
  <2>3. actor \in [active : BOOLEAN, role : {"CASHIER", "OWNER"}, outlet : Outlet]
    BY DEF Init
  <2>4. \A d \in Delivery : pc[d] = "unsent"
    BY DEF Init
  <2>5. /\ sale \in [Cid -> Entry \cup {NoSale}] /\ stock \in Nat /\ openSession \subseteq Session
        /\ answer \in [Delivery -> AnswerKind] /\ complete \in [Delivery -> BOOLEAN]
        /\ pc \in [Delivery -> {"unsent", "access", "lookup", "session", "write", "reply",
                                "done", "crashed"}]
    BY DEF Init, AnswerKind
  <2> QED BY <2>1, <2>2, <2>3, <2>4, <2>5 DEF TypeOK
<1>2. Begun /\ OnlyValid /\ SalesBrought /\ Replying /\ Confirming
  BY DEF Init, Begun, OnlyValid, SalesBrought, Replying, Confirming, Working
<1>3. ResultsAreTrue /\ ResendConfirms
  BY DEF Init, ResultsAreTrue, ResendConfirms
<1> QED BY <1>1, <1>2, <1>3 DEF IInv

-----------------------------------------------------------------------------
(* What a delivery and the table of sales look like.                       *)

LEMMA CurrentRecord ==
  ASSUME TypeOK, NEW d \in Delivery, pc[d] \in Working
  PROVE  /\ Len(results[d]) + 1 \in DOMAIN batch[d]
         /\ Current(d) = batch[d][Len(results[d]) + 1]
         /\ Current(d) \in Entry /\ Current(d) \in Records(d)
         /\ cidOf[Current(d)] \in Cid
<1>1. batch[d] \in Seq(Entry) /\ results[d] \in Seq(Status)
  BY DEF TypeOK
<1>2. Len(results[d]) < Len(batch[d])
  BY DEF TypeOK, Working
<1>3. Len(results[d]) + 1 \in DOMAIN batch[d]
  BY <1>1, <1>2
<1> QED BY <1>1, <1>3 DEF Current, Records

LEMMA CompleteCurrent ==
  ASSUME IInv, NEW d \in Delivery, pc[d] \in Working, complete[d]
  PROVE  Recorded(Current(d))
  BY CurrentRecord DEF IInv, Confirming

\* A checkout that goes on to its next statement.
LEMMA ContinueStep ==
  ASSUME IInv, NEW d \in Delivery, NEW label \in Working, Continue(d, label),
         UNCHANGED complete,
         pc[d] \in Working \/ pc[d] = "access",
         label = "reply" => Recorded(Current(d)),
         label \in {"session", "write"} => ~complete[d]
  PROVE  IInv'
<1>1. /\ \A e \in Delivery : pc'[e] = IF e = d THEN label ELSE pc[e]
      /\ UNCHANGED <<sale, stock, openSession, actor, results, answer, complete>>
  BY DEF IInv, TypeOK, Continue, Go, NoSaleMade
<1>2. Len(results[d]) < Len(batch[d])
  <2>1. CASE pc[d] \in Working BY <2>1 DEF IInv, TypeOK, Working
  <2>2. CASE pc[d] = "access"
    <3>1. Len(results[d]) = 0 BY <2>2 DEF IInv, Begun
    <3>2. batch[d] \in Seq(Entry) /\ batch[d] # <<>> OBVIOUS
    <3> QED BY <3>1, <3>2
  <2> QED BY <2>1, <2>2
<1>3. TypeOK'
  <2>1. pc' \in [Delivery -> {"unsent", "access", "lookup", "session", "write", "reply",
                              "done", "crashed"}]
    BY DEF IInv, TypeOK, Continue, Go, Working
  <2> QED BY <1>1, <1>2, <2>1 DEF IInv, TypeOK
<1>4. (Begun /\ OnlyValid /\ SalesBrought)'
  BY <1>1 DEF IInv, Begun, OnlyValid, SalesBrought, Working
<1>5. \A r : Recorded(r)' <=> Recorded(r)
  BY <1>1 DEF Recorded
<1>6. \A e \in Delivery : Current(e)' = Current(e)
  BY <1>1 DEF Current
<1>7. Replying'
  BY <1>1, <1>5, <1>6 DEF IInv, Replying
<1>8. Confirming'
  BY <1>1, <1>5 DEF IInv, Confirming
<1>9. (ResultsAreTrue /\ ResendConfirms)'
  BY <1>1, <1>5 DEF IInv, ResultsAreTrue, ResendConfirms
<1> QED BY <1>3, <1>4, <1>7, <1>8, <1>9 DEF IInv

\* A record that gets its result.
LEMMA FailStep ==
  ASSUME IInv, NEW d \in Delivery, NEW status \in Status, pc[d] \in Working,
         Fail(d, status), UNCHANGED complete,
         status = "synced" => Recorded(Current(d)),
         complete[d] => status \in {"synced", "gone", "error"}
  PROVE  IInv'
<1> DEFINE n == Len(results[d])
           last == n + 1 = Len(batch[d])
<1>1. /\ batch[d] \in Seq(Entry) /\ results[d] \in Seq(Status) /\ n \in Nat
      /\ n < Len(batch[d]) /\ Current(d) = batch[d][n + 1]
  BY CurrentRecord DEF IInv, TypeOK, Working
<1>2. /\ results' = [results EXCEPT ![d] = Append(results[d], status)]
      /\ pc' = [pc EXCEPT ![d] = IF last THEN "done" ELSE "lookup"]
      /\ answer' = IF last THEN [answer EXCEPT ![d] = "ok"] ELSE answer
      /\ UNCHANGED <<sale, stock, openSession, actor, complete>>
  BY DEF Fail, Push, Go, NoSaleMade
<1>3. /\ Append(results[d], status) \in Seq(Status)
      /\ Len(Append(results[d], status)) = n + 1
      /\ \A i \in 1..(n + 1) :
           Append(results[d], status)[i] = IF i = n + 1 THEN status ELSE results[d][i]
  BY <1>1
<1>4. /\ \A e \in Delivery : pc'[e] = IF e = d THEN IF last THEN "done" ELSE "lookup" ELSE pc[e]
      /\ \A e \in Delivery : answer'[e] = IF e = d /\ last THEN "ok" ELSE answer[e]
      /\ \A e \in Delivery : e # d => results'[e] = results[e]
      /\ results'[d] \in Seq(Status) /\ Len(results'[d]) = n + 1
      /\ \A i \in 1..(n + 1) : results'[d][i] = IF i = n + 1 THEN status ELSE results[d][i]
  BY <1>2, <1>3 DEF IInv, TypeOK
<1> HIDE DEF n, last
<1>5. \A e \in Delivery : e # d \/ ~last => answer'[e] = answer[e]
  BY <1>4
<1>6. TypeOK'
  <2>1. pc' \in [Delivery -> {"unsent", "access", "lookup", "session", "write", "reply",
                              "done", "crashed"}]
    BY <1>2 DEF IInv, TypeOK
  <2>2. answer' \in [Delivery -> AnswerKind]
    BY <1>2 DEF IInv, TypeOK, AnswerKind
  <2>3. results' \in [Delivery -> Seq(Status)]
    BY <1>2, <1>3 DEF IInv, TypeOK
  <2>4. ASSUME NEW e \in Delivery
        PROVE  /\ Len(results'[e]) <= Len(batch[e])
               /\ pc'[e] \in Working => Len(results'[e]) < Len(batch[e])
    <3>1. CASE e # d BY <1>4, <3>1 DEF IInv, TypeOK, Working
    <3>2. CASE e = d BY <1>1, <1>4, <3>2 DEF Working, last
    <3> QED BY <3>1, <3>2
  <2> QED BY <1>2, <2>1, <2>2, <2>3, <2>4 DEF IInv, TypeOK, Working
<1>7. Begun' /\ OnlyValid' /\ SalesBrought'
  BY <1>2, <1>4 DEF IInv, Begun, OnlyValid, SalesBrought, Working
<1>8. \A r : Recorded(r)' <=> Recorded(r)
  BY <1>2 DEF Recorded
<1>9. Replying'
  <2>1. ASSUME NEW e \in Delivery, pc'[e] = "reply" PROVE Recorded(Current(e))'
    <3>1. e # d /\ pc[e] = "reply" BY <1>4, <2>1
    <3>2. Current(e)' = Current(e) BY <1>4, <3>1 DEF Current
    <3> QED BY <1>8, <3>1, <3>2 DEF IInv, Replying
  <2> QED BY <2>1 DEF Replying
<1>10. Confirming'
  BY <1>2, <1>4, <1>8 DEF IInv, Confirming
<1>11. ResultsAreTrue'
  <2>1. ASSUME NEW e \in Delivery, answer'[e] = "ok" PROVE Len(results'[e]) = Len(batch[e])
    <3>1. CASE e # d BY <1>4, <2>1, <3>1 DEF IInv, ResultsAreTrue
    <3>2. CASE e = d /\ last BY <1>4, <3>2 DEF last
    <3>3. CASE e = d /\ ~last
      <4>1. answer[d] = "ok" BY <1>5, <2>1, <3>3
      <4>2. Len(results[d]) = Len(batch[d]) BY <4>1 DEF IInv, ResultsAreTrue
      <4> QED BY <1>1, <4>2 DEF n
    <3> QED BY <3>1, <3>2, <3>3
  <2>2. ASSUME NEW e \in Delivery, NEW i \in DOMAIN results'[e], results'[e][i] = "synced"
        PROVE  Recorded(batch[e][i])
    <3>1. CASE e # d BY <1>4, <2>2, <3>1 DEF IInv, ResultsAreTrue
    <3>2. CASE e = d
      <4>1. i \in 1..(n + 1) BY <1>4, <3>2
      <4>2. CASE i = n + 1 BY <1>1, <1>4, <2>2, <3>2, <4>2
      <4>3. CASE i # n + 1
        <5>1. i \in DOMAIN results[d] BY <1>1, <4>1, <4>3 DEF n
        <5> QED BY <1>4, <2>2, <3>2, <4>1, <4>3, <5>1 DEF IInv, ResultsAreTrue
      <4> QED BY <4>2, <4>3
    <3> QED BY <3>1, <3>2
  <2> QED BY <1>2, <1>8, <2>1, <2>2 DEF IInv, ResultsAreTrue
<1>12. ResendConfirms'
  <2>1. ASSUME NEW e \in Delivery, complete[e], NEW i \in DOMAIN results'[e]
        PROVE  results'[e][i] \in {"synced", "gone", "error"}
    <3>1. CASE e # d BY <1>4, <2>1, <3>1 DEF IInv, ResendConfirms
    <3>2. CASE e = d
      <4>1. i \in 1..(n + 1) BY <1>4, <3>2
      <4>2. CASE i = n + 1 BY <1>4, <2>1, <3>2, <4>1, <4>2
      <4>3. CASE i # n + 1
        <5>1. i \in DOMAIN results[d] BY <1>1, <4>1, <4>3 DEF n
        <5> QED BY <1>4, <2>1, <3>2, <4>1, <4>3, <5>1 DEF IInv, ResendConfirms
      <4> QED BY <4>2, <4>3
    <3> QED BY <3>1, <3>2
  <2> QED BY <1>2, <2>1 DEF ResendConfirms
<1> QED BY <1>6, <1>7, <1>9, <1>10, <1>11, <1>12 DEF IInv

-----------------------------------------------------------------------------
(* The statements of a checkout.                                           *)

LEMMA LookupStep ==
  ASSUME IInv, NEW d \in Delivery, Lookup(d)
  PROVE  IInv'
<1>1. pc[d] = "lookup" /\ pc[d] \in Working /\ UNCHANGED complete
  BY DEF Lookup, Working
<1>2. complete[d] => Recorded(Current(d))
  BY <1>1, CompleteCurrent
<1>3. CASE Fail(d, "gone")
  BY <1>1, <1>3, FailStep DEF Status
<1>4. CASE Existing(d) = NoSale /\ Continue(d, "session")
  <2>1. ~complete[d] BY <1>2, <1>4 DEF Existing, Recorded
  <2> QED BY <1>1, <1>4, <2>1, ContinueStep DEF Working
<1>5. CASE Recorded(Current(d)) /\ Continue(d, "reply")
  BY <1>1, <1>5, ContinueStep DEF Working
<1>6. CASE ~Recorded(Current(d)) /\ Fail(d, "mismatch")
  BY <1>1, <1>2, <1>6, FailStep DEF Status
<1> QED BY <1>3, <1>4, <1>5, <1>6 DEF Lookup

LEMMA CheckSessionStep ==
  ASSUME IInv, NEW d \in Delivery, CheckSession(d)
  PROVE  IInv'
<1>1. pc[d] = "session" /\ pc[d] \in Working /\ UNCHANGED complete
  BY DEF CheckSession, Working
<1>2. ~complete[d] BY <1>1 DEF IInv, Confirming
<1>3. CASE Fail(d, "closed")
  BY <1>1, <1>2, <1>3, FailStep DEF Status
<1>4. CASE Continue(d, "write")
  BY <1>1, <1>2, <1>4, ContinueStep DEF Working
<1> QED BY <1>3, <1>4 DEF CheckSession

LEMMA WriteStep ==
  ASSUME IInv, NEW d \in Delivery, Write(d)
  PROVE  IInv'
<1> DEFINE r == Current(d)
<1>1. pc[d] = "write" /\ pc[d] \in Working /\ UNCHANGED complete
  BY DEF Write, Working
<1>2. ~complete[d] BY <1>1 DEF IInv, Confirming
<1>3. CASE Continue(d, "lookup")
  BY <1>1, <1>3, ContinueStep DEF Working
<1>4. CASE Fail(d, "stock")
  BY <1>1, <1>2, <1>4, FailStep DEF Status
<1>5. CASE /\ sale[cidOf[r]] = NoSale /\ ~(stock < qty[r])
           /\ sale' = [sale EXCEPT ![cidOf[r]] = r]
           /\ stock' = stock - qty[r]
           /\ Go(d, "reply")
           /\ UNCHANGED <<openSession, actor, results, answer>>
  <2>1. /\ r \in Entry /\ r \in Records(d) /\ cidOf[r] \in Cid /\ r # NoSale
        /\ Len(results[d]) < Len(batch[d])
    BY <1>1, CurrentRecord DEF IInv, TypeOK
  <2> HIDE DEF r
  <2>2. /\ \A e \in Delivery : pc'[e] = IF e = d THEN "reply" ELSE pc[e]
        /\ \A i \in Cid : sale'[i] = IF i = cidOf[r] THEN r ELSE sale[i]
        /\ UNCHANGED <<openSession, actor, results, answer, complete>>
    BY <1>1, <1>5 DEF IInv, TypeOK, Go
  <2>3. TypeOK'
    <3>1. /\ sale' \in [Cid -> Entry \cup {NoSale}]
          /\ pc' \in [Delivery -> {"unsent", "access", "lookup", "session", "write",
                                   "reply", "done", "crashed"}]
      BY <1>5, <2>1 DEF IInv, TypeOK, Go
    <3>2. stock' \in Nat
      BY <1>5, <2>1 DEF IInv, TypeOK
    <3> QED BY <2>1, <2>2, <3>1, <3>2 DEF IInv, TypeOK
  <2>4. Begun' /\ OnlyValid'
    BY <1>1, <2>2 DEF IInv, Begun, OnlyValid, Working
  <2>5. SalesBrought'
    <3>1. Brought(r)
      BY <1>1, <2>1 DEF IInv, OnlyValid, Brought
    <3> QED BY <2>1, <2>2, <3>1 DEF IInv, SalesBrought
  <2>6. \A t \in Entry : Recorded(t) => Recorded(t)'
    <3>1. ASSUME NEW t \in Entry, Recorded(t) PROVE Recorded(t)'
      <4>1. cidOf[t] \in Cid /\ cidOf[t] # cidOf[r] BY <1>5, <3>1 DEF Recorded
      <4>2. sale'[cidOf[t]] = sale[cidOf[t]] BY <2>2, <4>1
      <4> QED BY <3>1, <4>2 DEF Recorded
    <3> QED BY <3>1
  <2>7. \A e \in Delivery : Current(e)' = Current(e)
    BY <2>2 DEF Current
  <2>8. Recorded(Current(d))'
    BY <2>1, <2>2, <2>7 DEF Recorded, Same, r
  <2>9. Replying'
    <3>1. ASSUME NEW e \in Delivery, pc'[e] = "reply" PROVE Recorded(Current(e))'
      <4>1. CASE e = d BY <2>8, <4>1
      <4>2. CASE e # d
        <5>1. pc[e] = "reply" /\ Recorded(Current(e)) BY <2>2, <3>1, <4>2 DEF IInv, Replying
        <5>2. Current(e) \in Entry BY <5>1, CurrentRecord DEF IInv, Working
        <5> QED BY <2>6, <2>7, <5>1, <5>2
      <4> QED BY <4>1, <4>2
    <3> QED BY <3>1 DEF Replying
  <2>10. \A e \in Delivery : \A i \in DOMAIN batch[e] : batch[e][i] \in Entry
    OBVIOUS
  <2>11. Confirming'
    BY <1>2, <2>2, <2>6, <2>10 DEF IInv, Confirming
  <2>12. ResultsAreTrue'
    <3>1. \A e \in Delivery : \A i \in DOMAIN results[e] : i \in DOMAIN batch[e]
      BY DEF IInv, TypeOK
    <3>2. ASSUME NEW t \in Entry, ~Brought(t) PROVE sale'[cidOf[t]] # t
      <4>1. cidOf[t] \in Cid OBVIOUS
      <4>2. t # r BY <1>1, <2>1, <3>2 DEF IInv, OnlyValid, Brought
      <4> QED BY <2>2, <3>2, <4>1, <4>2 DEF IInv, ResultsAreTrue
    <3> QED BY <2>2, <2>6, <2>10, <3>1, <3>2 DEF IInv, ResultsAreTrue
  <2>13. ResendConfirms'
    BY <2>2 DEF IInv, ResendConfirms
  <2> QED BY <2>3, <2>4, <2>5, <2>9, <2>11, <2>12, <2>13 DEF IInv
<1> QED BY <1>3, <1>4, <1>5 DEF Write, Existing

LEMMA ReplyBreakStep ==
  ASSUME IInv, NEW d \in Delivery, Reply(d) \/ Break(d)
  PROVE  IInv'
<1>1. CASE Reply(d)
  BY <1>1, FailStep DEF Reply, Working, Status, IInv, Replying
<1>2. CASE Break(d)
  BY <1>2, FailStep DEF Break, Working, Status
<1> QED BY <1>1, <1>2

-----------------------------------------------------------------------------
(* Everything else.                                                        *)

\* A delivery is over, or it is let in, and nothing else happens.
LEMMA OverStep ==
  ASSUME IInv, NoSaleMade, UNCHANGED results,
         pc' \in [Delivery -> {"unsent", "access", "done", "crashed", "lookup", "session",
                              "write", "reply"}],
         \A d \in Delivery :
           \/ pc'[d] = pc[d] /\ complete'[d] = complete[d]
           \/ pc'[d] \in {"done", "crashed"} /\ complete'[d] = complete[d]
           \/ /\ pc[d] = "unsent" /\ pc'[d] \in {"access", "done"}
              /\ pc'[d] = "access" => Valid(d)
              /\ complete'[d] => \A i \in DOMAIN batch[d] : Recorded(batch[d][i]),
         answer' \in [Delivery -> AnswerKind], complete' \in [Delivery -> BOOLEAN],
         \A d \in Delivery : answer'[d] = "ok" => answer[d] = "ok"
  PROVE  IInv'
<1>1. /\ UNCHANGED <<sale, stock, openSession, actor, results>>
      /\ \A d \in Delivery : pc'[d] \in Working => pc[d] = pc'[d]
      /\ \A d \in Delivery :
           pc'[d] = "access" => pc[d] = "access" \/ (pc[d] = "unsent" /\ Valid(d))
      /\ \A d \in Delivery : pc'[d] = "unsent" => pc[d] = "unsent"
  <2>1. UNCHANGED <<sale, stock, openSession, actor, results>>
    BY DEF NoSaleMade
  <2>2. \A d \in Delivery : pc'[d] = "access" => pc[d] = "access" \/ (pc[d] = "unsent" /\ Valid(d))
    OBVIOUS
  <2>3. \A d \in Delivery :
          (pc'[d] \in Working => pc[d] = pc'[d]) /\ (pc'[d] = "unsent" => pc[d] = "unsent")
    BY DEF Working
  <2> QED BY <2>1, <2>2, <2>3
<1>2. TypeOK'
  BY <1>1 DEF IInv, TypeOK, Working
<1>3. (Begun /\ OnlyValid /\ SalesBrought)'
  BY <1>1 DEF IInv, Begun, OnlyValid, SalesBrought
<1>4. (\A r : Recorded(r)' <=> Recorded(r)) /\ (\A d \in Delivery : Current(d)' = Current(d))
  BY <1>1 DEF Recorded, Current
<1>5. Replying'
  BY <1>1, <1>4 DEF IInv, Replying, Working
<1>6. Confirming'
  BY <1>1, <1>4 DEF IInv, Confirming
<1>7. ResultsAreTrue'
  BY <1>1, <1>4 DEF IInv, ResultsAreTrue
<1>8. ResendConfirms'
  <2>1. ASSUME NEW d \in Delivery, complete'[d], NEW i \in DOMAIN results[d]
        PROVE  results[d][i] \in {"synced", "gone", "error"}
    <3>1. CASE pc[d] = "unsent"
      <4>1. results[d] = <<>> BY <3>1 DEF IInv, Begun
      <4> QED BY <4>1
    <3>2. CASE pc[d] # "unsent"
      BY <2>1, <3>2 DEF IInv, ResendConfirms
    <3> QED BY <3>1, <3>2
  <2> QED BY <1>1, <2>1 DEF ResendConfirms
<1> QED BY <1>2, <1>3, <1>5, <1>6, <1>7, <1>8 DEF IInv

\* A delivery that is refused as a whole.
LEMMA RefuseStep ==
  ASSUME IInv, NEW d \in Delivery, NEW told \in AnswerKind \ {"ok"}, Refuse(d, told),
         UNCHANGED complete
  PROVE  IInv'
<1>1. /\ pc' = [pc EXCEPT ![d] = "done"] /\ answer' = [answer EXCEPT ![d] = told]
      /\ NoSaleMade /\ UNCHANGED results
  BY DEF Refuse, Go
<1>2. \A e \in Delivery : pc'[e] = IF e = d THEN "done" ELSE pc[e]
  BY <1>1 DEF IInv, TypeOK
<1>3. \A e \in Delivery : answer'[e] = IF e = d THEN told ELSE answer[e]
  BY <1>1 DEF IInv, TypeOK
<1>4. pc' \in [Delivery -> {"unsent", "access", "done", "crashed", "lookup", "session",
                           "write", "reply"}]
  BY <1>1 DEF IInv, TypeOK
<1>5. answer' \in [Delivery -> AnswerKind] /\ complete' \in [Delivery -> BOOLEAN]
  BY <1>1 DEF IInv, TypeOK
<1> QED BY <1>1, <1>2, <1>3, <1>4, <1>5, OverStep

LEMMA SendStep ==
  ASSUME IInv, NEW d \in Delivery, Send(d)
  PROVE  IInv'
<1>1. /\ pc[d] = "unsent" /\ NoSaleMade /\ UNCHANGED results
      /\ complete' = [complete EXCEPT ![d] = \A r \in Records(d) : Recorded(r)]
      /\ IF Valid(d) THEN Go(d, "access") /\ UNCHANGED answer
         ELSE Go(d, "done") /\ answer' = [answer EXCEPT ![d] = "invalid"]
  BY DEF Send, Continue, Refuse
<1> DEFINE label == IF Valid(d) THEN "access" ELSE "done"
<1>2. pc' = [pc EXCEPT ![d] = label]
  BY <1>1 DEF Go
<1>3. label \in {"access", "done"} /\ (label = "access" => Valid(d))
  OBVIOUS
<1> HIDE DEF label
<1>4. \A e \in Delivery : pc'[e] = IF e = d THEN label ELSE pc[e]
  BY <1>2 DEF IInv, TypeOK
<1>5. pc' \in [Delivery -> {"unsent", "access", "done", "crashed", "lookup", "session",
                           "write", "reply"}]
  BY <1>2, <1>3 DEF IInv, TypeOK
<1>6. answer' \in [Delivery -> AnswerKind]
  BY <1>1 DEF IInv, TypeOK, AnswerKind
<1>7. \A e \in Delivery : answer'[e] = "ok" => answer[e] = "ok"
  BY <1>1 DEF IInv, TypeOK
<1> DEFINE all == \A r \in Records(d) : Recorded(r)
<1>8. all \in BOOLEAN /\ (all => \A i \in DOMAIN batch[d] : Recorded(batch[d][i]))
  BY DEF Records
<1>9. complete' = [complete EXCEPT ![d] = all]
  BY <1>1
<1> HIDE DEF all
<1>10. complete' \in [Delivery -> BOOLEAN]
  BY <1>8, <1>9, Zenon DEF IInv, TypeOK
<1>11. \A e \in Delivery \ {d} : complete'[e] = complete[e]
  BY <1>9 DEF IInv, TypeOK
<1>12. complete'[d] = all
  BY <1>9 DEF IInv, TypeOK
<1> QED BY <1>1, <1>3, <1>4, <1>5, <1>6, <1>7, <1>8, <1>10, <1>11, <1>12, OverStep

LEMMA ValidateAccessStep ==
  ASSUME IInv, NEW d \in Delivery, ValidateAccess(d)
  PROVE  IInv'
<1>1. CASE Refuse(d, "unauthorized") \/ Refuse(d, "forbidden")
  BY <1>1, RefuseStep DEF ValidateAccess, AnswerKind
<1>2. CASE Continue(d, "lookup")
  BY <1>2, ContinueStep DEF ValidateAccess, Working
<1> QED BY <1>1, <1>2 DEF ValidateAccess

LEMMA CrashStep ==
  ASSUME IInv, Crash
  PROVE  IInv'
<1>1. /\ \A d \in Delivery : pc'[d] = IF pc[d] \in {"unsent", "done"} THEN pc[d] ELSE "crashed"
      /\ NoSaleMade /\ UNCHANGED <<results, answer, complete>>
  BY DEF Crash
<1>2. pc' \in [Delivery -> {"unsent", "access", "done", "crashed", "lookup", "session",
                           "write", "reply"}]
  BY DEF Crash
<1> QED BY <1>1, <1>2, OverStep DEF IInv, TypeOK

\* Nobody's results depend on sessions or on the user.
LEMMA BesideStep ==
  ASSUME IInv, openSession' \subseteq Session,
         actor' \in [active : BOOLEAN, role : {"CASHIER", "OWNER"}, outlet : Outlet],
         UNCHANGED <<sale, stock, pc, results, answer, complete>>
  PROVE  IInv'
  BY DEF IInv, TypeOK, Begun, OnlyValid, SalesBrought, Replying, Confirming, ResultsAreTrue,
         ResendConfirms, Recorded, Current

LEMMA IInvStep == IInv /\ [Next]_vars => IInv'
<1> SUFFICES ASSUME IInv, [Next]_vars PROVE IInv'
  OBVIOUS
<1>1. ASSUME NEW d \in Delivery, Send(d) \/ Serve(d) \/ Break(d) PROVE IInv'
  BY <1>1, SendStep, ValidateAccessStep, LookupStep, CheckSessionStep, WriteStep,
     ReplyBreakStep DEF Serve
<1>2. ASSUME NEW s \in Session, CloseSession(s) PROVE IInv'
  BY <1>2, BesideStep DEF CloseSession, IInv, TypeOK
<1>3. ASSUME EditActor([actor EXCEPT !.active = FALSE]) PROVE IInv'
  <2>1. [actor EXCEPT !.active = FALSE]
          \in [active : BOOLEAN, role : {"CASHIER", "OWNER"}, outlet : Outlet]
    BY DEF IInv, TypeOK
  <2> QED BY <1>3, <2>1, BesideStep DEF EditActor, IInv, TypeOK
<1>4. ASSUME NEW o \in Outlet, EditActor([actor EXCEPT !.outlet = o]) PROVE IInv'
  <2>1. [actor EXCEPT !.outlet = o]
          \in [active : BOOLEAN, role : {"CASHIER", "OWNER"}, outlet : Outlet]
    BY DEF IInv, TypeOK
  <2> QED BY <1>4, <2>1, BesideStep DEF EditActor, IInv, TypeOK
<1>5. CASE UNCHANGED vars
  BY <1>5, BesideStep DEF vars, IInv, TypeOK
<1> QED BY <1>1, <1>2, <1>3, <1>4, <1>5, CrashStep DEF Next

\* Types, for any batches; no result comes without its record.
THEOREM TypeCorrect == Spec => []TypeOK
<1>1. IInv => TypeOK BY DEF IInv
<1> QED BY InitIInv, IInvStep, <1>1, PTL DEF Spec

\* "synced" is only said of a record that is recorded with that content, and a
\* record of refused batches alone is never sold (SyncService.transactions).
THEOREM ResultsTrue == Spec => []ResultsAreTrue
<1>1. IInv => ResultsAreTrue BY DEF IInv
<1> QED BY InitIInv, IInvStep, <1>1, PTL DEF Spec

\* A batch that is sent again after all of it was recorded is confirmed, what
\* ever happened to sessions and stock (the lookup comes before every check).
THEOREM ResendIsConfirmed == Spec => []ResendConfirms
<1>1. IInv => ResendConfirms BY DEF IInv
<1> QED BY InitIInv, IInvStep, <1>1, PTL DEF Spec

-----------------------------------------------------------------------------
(* The refinement of SaleLedger.                                           *)

LEMMA PositionOf ==
  /\ \A d \in Delivery : \A i \in DOMAIN batch[d] : <<d, i>> \in Position
  /\ \A x \in Position :
       x[1] \in Delivery /\ x[2] \in DOMAIN batch[x[1]] /\ x = <<x[1], x[2]>>
BY DEF Position

LEMMA LedgerInit == Init => Ledger!Init
<1> SUFFICES ASSUME Init PROVE Ledger!Init
  OBVIOUS
<1>1. \A x \in Position : ResultAt(x) = [kind |-> "none", total |-> 0]
  BY PositionOf DEF Init, ResultAt
<1>2. \A i \in Cid : SaleUnder(i) = NoSale
  BY DEF Init, SaleUnder
<1>3. stock \in Nat
  BY DEF Init
<1> QED
  BY <1>1, <1>2, <1>3 DEF Ledger!Init, Ledger!NoAnswer

\* A step that the ledger does not see.
LEMMA LedgerStutters ==
  ASSUME sale' = sale /\ stock' = stock /\ results' = results
  PROVE  UNCHANGED Ledger!ledgerVars
<1>1. /\ \A i \in Cid : SaleUnder(i)' = SaleUnder(i)
      /\ \A x \in Position : ResultAt(x)' = ResultAt(x)
  BY DEF SaleUnder, ResultAt
<1> QED
  BY <1>1 DEF Ledger!ledgerVars

\* The result of a record is its answer.
LEMMA ResultAnswers ==
  ASSUME IInv, NEW d \in Delivery, NEW status \in Status, pc[d] \in Working,
         Fail(d, status), status = "synced" => Recorded(Current(d))
  PROVE  Ledger!Next
<1> PICK n \in DOMAIN batch[d] : n = Len(results[d]) + 1
  BY CurrentRecord DEF IInv
<1> DEFINE c == <<d, n>>
           r == batch[d][n]
           told == [kind |-> IF status = "synced" THEN "sale" ELSE "refused", total |-> 0]
<1>1. Current(d) = r /\ r \in Entry /\ cidOf[r] \in Cid
  BY CurrentRecord DEF IInv
<1>2. results \in [Delivery -> Seq(Status)] /\ results[d] \in Seq(Status)
  BY DEF IInv, TypeOK
<1>3. sale' = sale /\ stock' = stock
      /\ results' = [results EXCEPT ![d] = Append(results[d], status)]
  BY DEF Fail, Push, NoSaleMade
<1>4. c \in Position /\ c[1] = d /\ c[2] = n
  BY <1>1, PositionOf
<1>5. ResultAt(c) = [kind |-> "none", total |-> 0]
  BY <1>2, <1>4 DEF ResultAt
<1>6. results'[d] = Append(results[d], status)
      /\ \A e \in Delivery \ {d} : results'[e] = results[e]
  BY <1>2, <1>3
<1>7. ResultAt(c)' = told
  BY <1>2, <1>4, <1>6 DEF ResultAt
<1>8. \A x \in Position : x # c => ResultAt(x)' = ResultAt(x)
  <2> SUFFICES ASSUME NEW x \in Position, x # c PROVE ResultAt(x)' = ResultAt(x)
    OBVIOUS
  <2>1. x[1] \in Delivery /\ x = <<x[1], x[2]>>
    BY PositionOf
  <2>2. CASE x[1] # d
    BY <1>6, <2>1, <2>2 DEF ResultAt
  <2>3. CASE x[1] = d
    <3>1. x[2] # n
      BY <2>1, <2>3
    <3>2. x[2] \in DOMAIN results'[d] <=> x[2] \in DOMAIN results[d]
      BY <1>2, <1>6, <3>1
    <3>3. x[2] \in DOMAIN results[d] => results'[d][x[2]] = results[d][x[2]]
      BY <1>2, <1>6
    <3> QED
      BY <2>3, <3>2, <3>3 DEF ResultAt
  <2> QED
    BY <2>2, <2>3
<1>9. \A i \in Cid : SaleUnder(i)' = SaleUnder(i)
  BY <1>3 DEF SaleUnder
<1>10. status = "synced" =>
         /\ SaleUnder(cidOf[r]) # NoSale /\ SaleUnder(cidOf[r]).total = 0
         /\ Same(SaleUnder(cidOf[r]).by, r)
  <2> SUFFICES ASSUME Recorded(r)
               PROVE  /\ SaleUnder(cidOf[r]) # NoSale /\ SaleUnder(cidOf[r]).total = 0
                      /\ Same(SaleUnder(cidOf[r]).by, r)
    BY <1>1
  <2>1. sale[cidOf[r]] \in Entry
    BY <1>1 DEF Recorded, IInv, TypeOK
  <2>2. SaleUnder(cidOf[r]) = [by |-> sale[cidOf[r]], total |-> 0]
    BY DEF Recorded, SaleUnder
  <2> QED
    BY <2>1, <2>2, LedgerAssumption DEF Recorded
<1> HIDE DEF c, r, told
<1> DEFINE under == [i \in Cid |-> SaleUnder(i)]
           asked == [x \in Position |-> batch[x[1]][x[2]]]
           answered == [x \in Position |-> ResultAt(x)]
<1>11. answered' = [answered EXCEPT ![c] = told]
  BY <1>4, <1>7, <1>8
<1>12. asked[c] = r /\ cidOf[asked[c]] = cidOf[r]
  BY <1>4 DEF r
<1>13. UNCHANGED <<under, [p \in {"product"} |-> stock]>>
  BY <1>3, <1>9
<1>14. answered[c] = Ledger!NoAnswer
  BY <1>4, <1>5 DEF Ledger!NoAnswer
<1>15. under[cidOf[asked[c]]] = SaleUnder(cidOf[r])
  BY <1>1, <1>12
<1>16. \/ answered' = [answered EXCEPT ![c] = Ledger!Refusal]
       \/ /\ under[cidOf[asked[c]]] # NoSale
          /\ Same(under[cidOf[asked[c]]].by, asked[c])
          /\ answered' = [answered EXCEPT ![c] = Ledger!Receipt(under[cidOf[asked[c]]].total)]
  <2>1. CASE status = "synced"
    <3>1. told = Ledger!Receipt(0)
      BY <2>1 DEF told, Ledger!Receipt
    <3> HIDE DEF under, asked, answered
    <3> QED
      BY <1>10, <1>11, <1>12, <1>15, <2>1, <3>1
  <2>2. CASE status # "synced"
    <3>1. told = Ledger!Refusal
      BY <2>2 DEF told, Ledger!Refusal
    <3> HIDE DEF under, asked, answered
    <3> QED
      BY <1>11, <3>1
  <2> QED
    BY <2>1, <2>2
<1>17. Ledger!Answer(c)
  BY <1>13, <1>14, <1>16 DEF Ledger!Answer
<1> QED
  BY <1>4, <1>17 DEF Ledger!Next

\* A checkout that commits is the sale of its record.
LEMMA WriteRecords ==
  ASSUME IInv, NEW d \in Delivery, Write(d), sale' # sale
  PROVE  Ledger!Next
<1> PICK r \in Entry : r = Current(d)
  BY CurrentRecord DEF Write, Working, IInv
<1> DEFINE i == cidOf[r]
<1>1. pc[d] = "write" /\ sale[i] = NoSale /\ ~(stock < qty[r])
      /\ sale' = [sale EXCEPT ![i] = r] /\ stock' = stock - qty[r] /\ results' = results
  BY DEF Write, Existing, Continue, Fail, NoSaleMade
<1>2. r \in Entry /\ i \in Cid /\ r # NoSale /\ stock \in Nat /\ qty[r] \in Nat
  BY <1>1, CurrentRecord DEF Working, IInv, TypeOK
<1> HIDE DEF i
<1>3. sale'[i] = r /\ \A j \in Cid \ {i} : sale'[j] = sale[j]
  BY <1>1, <1>2 DEF IInv, TypeOK
<1>4. SaleUnder(i) = NoSale /\ SaleUnder(i)' = [by |-> r, total |-> 0]
      /\ \A j \in Cid \ {i} : SaleUnder(j)' = SaleUnder(j)
  BY <1>1, <1>2, <1>3 DEF SaleUnder
<1>5. \A x \in Position : ResultAt(x)' = ResultAt(x)
  BY <1>1 DEF ResultAt
<1>6. stock >= qty[r]
  BY <1>1, <1>2
<1>7. i = cidOf[r]
  BY DEF i
<1> DEFINE under == [j \in Cid |-> SaleUnder(j)]
<1>8. under[i] = NoSale /\ under' = [under EXCEPT ![i] = [by |-> r, total |-> 0]]
      /\ under'[i] = [by |-> r, total |-> 0]
  BY <1>2, <1>4
<1>9. [x \in Position |-> ResultAt(x)]' = [x \in Position |-> ResultAt(x)]
  BY <1>5
<1>10. [r_1 \in Entry |-> [p \in {"product"} |-> qty[r_1]]][r] = [p \in {"product"} |-> qty[r]]
  OBVIOUS
<1>11. [by |-> r, total |-> 0] \in [by : {r}, total : {0}]
  OBVIOUS
<1>12. Ledger!Record(r)
  BY <1>1, <1>6, <1>7, <1>8, <1>9, <1>10, <1>11 DEF Ledger!Record
<1> QED
  BY <1>12 DEF Ledger!Next

LEMMA LedgerStep == IInv /\ [Next]_vars => [Ledger!Next]_Ledger!ledgerVars
<1> SUFFICES ASSUME IInv, [Next]_vars
             PROVE  Ledger!Next \/ UNCHANGED Ledger!ledgerVars
  OBVIOUS
<1>1. CASE sale' = sale /\ stock' = stock /\ results' = results
  BY <1>1, LedgerStutters
<1>2. ASSUME NEW d \in Delivery, NEW status \in Status, pc[d] \in Working,
             Fail(d, status), status = "synced" => Recorded(Current(d))
      PROVE  Ledger!Next
  BY <1>2, ResultAnswers
<1>3. ASSUME NEW d \in Delivery, Lookup(d) \/ CheckSession(d)
      PROVE  Ledger!Next \/ UNCHANGED Ledger!ledgerVars
  <2>1. pc[d] \in Working
    BY <1>3 DEF Lookup, CheckSession, Working
  <2>2. CASE \E status \in {"gone", "mismatch", "closed"} : Fail(d, status)
    BY <1>2, <2>1, <2>2 DEF Status
  <2>3. CASE \E label \in Working : Continue(d, label)
    BY <1>1, <2>3 DEF Continue, NoSaleMade
  <2> QED
    BY <1>3, <2>2, <2>3 DEF Lookup, CheckSession, Working
<1>4. ASSUME NEW d \in Delivery, Write(d)
      PROVE  Ledger!Next \/ UNCHANGED Ledger!ledgerVars
  <2>1. CASE Fail(d, "stock")
    BY <1>2, <1>4, <2>1 DEF Write, Working, Status
  <2>2. CASE Continue(d, "lookup")
    BY <1>1, <2>2 DEF Continue, NoSaleMade
  <2>3. CASE sale' # sale
    BY <1>4, <2>3, WriteRecords
  <2>4. CASE /\ sale' = sale /\ sale' = [sale EXCEPT ![cidOf[Current(d)]] = Current(d)]
             /\ Existing(d) = NoSale
    <3>1. Current(d) \in Entry /\ cidOf[Current(d)] \in Cid
      BY <1>4, CurrentRecord DEF Write, Working, IInv
    <3>2. sale[cidOf[Current(d)]] = Current(d)
      BY <2>4, <3>1 DEF IInv, TypeOK
    <3> QED
      BY <2>4, <3>1, <3>2 DEF Existing
  <2> QED
    BY <1>4, <2>1, <2>2, <2>3, <2>4 DEF Write
<1>5. ASSUME NEW d \in Delivery, Reply(d) \/ Break(d)
      PROVE  Ledger!Next
  BY <1>2, <1>5 DEF Reply, Break, Working, Status, IInv, Replying
<1>6. ASSUME NEW d \in Delivery, Send(d) \/ ValidateAccess(d)
      PROVE  sale' = sale /\ stock' = stock /\ results' = results
  BY <1>6 DEF Send, ValidateAccess, Refuse, Continue, NoSaleMade
<1>7. CASE Crash
  BY <1>1, <1>7 DEF Crash, NoSaleMade
<1>8. ASSUME NEW s \in Session, CloseSession(s)
      PROVE  sale' = sale /\ stock' = stock /\ results' = results
  BY <1>8 DEF CloseSession
<1>9. CASE UNCHANGED vars
  BY <1>1, <1>9 DEF vars
<1>10. ASSUME NEW d \in Delivery, Send(d) \/ Serve(d) \/ Break(d)
       PROVE  Ledger!Next \/ UNCHANGED Ledger!ledgerVars
  BY <1>1, <1>3, <1>4, <1>5, <1>6, <1>10 DEF Serve
<1>11. CASE EditActor([actor EXCEPT !.active = FALSE])
            \/ \E o \in Outlet \ {HomeOutlet} : EditActor([actor EXCEPT !.outlet = o])
  BY <1>1, <1>11 DEF EditActor
<1> QED
  BY <1>1, <1>7, <1>8, <1>9, <1>10, <1>11 DEF Next

\* Batches that overlap, crash and are sent again implement the atomic ledger:
\* each record is sold at most once, for its stock, and confirmed only then
\* (SyncService.transactions over TransactionsService).
THEOREM LedgerImplemented == Spec => ImplementsLedger
BY InitIInv, IInvStep, LedgerInit, LedgerStep, PTL
   DEF Spec, ImplementsLedger, Ledger!Spec
===============================================================================
