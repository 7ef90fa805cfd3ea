----------------------------- MODULE AuthV2_proofs -----------------------------
(***************************************************************************)
(* Proofs about AuthV2 for any number of requests, any limit and any       *)
(* durations.                                                              *)
(***************************************************************************)
EXTENDS AuthV2, TLAPS

USE PinAssumption, NullAssumption, KindAssumption, ConfigAssumption

-----------------------------------------------------------------------------
(* The invariant.                                                          *)

\* Every request began in the past, and one that works on a session names it.
Progressing ==
  \A r \in Request :
    /\ req[r].now <= clock
    /\ req[r].pc \in {"rotate", "expire"} => req[r].token \in Token

\* A snapshot that nobody has overwritten is the row, and found it unlocked.
SnapshotFresh ==
  \A r \in Login :
    req[r].pc = "failWrite" /\ ~req[r].stale =>
      req[r].row = user /\ user.until <= req[r].now

\* A login that will open a session has given the PIN of the hash it read.
Matched ==
  \A r \in Login :
    req[r].pc \in {"resetRead", "reset"} =>
      req[r].row.hash \in Setter /\ NewPin[req[r].row.hash] = Given[r]

\* A row is inserted by the request it is named after, when that is answered;
\* the login that began a chain has opened it; a rotated token is REVOKED.
Rows ==
  \A t \in Token :
    /\ req[t].pc # "done" => session[t].status = "NONE"
    /\ session[t].login # NoToken => session[session[t].login].status # "NONE"
    /\ session[t].from # NoToken => session[session[t].from].status = "REVOKED"

Counter == CountsEveryFailure /\ LockedAtLimit /\ SnapshotFresh

Chain == Rows /\ OneActivePerChain

IInv == TypeOK /\ Progressing /\ Counter /\ Matched /\ Chain

LEMMA InitIInv == Init => IInv
  BY DEF Init, IInv, TypeOK, Progressing, Counter, CountsEveryFailure, LockedAtLimit,
         SnapshotFresh, Matched, Chain, Rows, OneActivePerChain, Active, NoRow,
         NoSession, Blank, UserRow, SessionRow, Progress, Pc, Token, Request

-----------------------------------------------------------------------------
(* What the shapes of step do to one request.                              *)

\* Only request r moves.
Moves(r, x) == req' = [req EXCEPT ![r] = x]

LEMMA MoveOne ==
  ASSUME TypeOK, NEW r \in Request, NEW x, Moves(r, x)
  PROVE  \A q \in Request : req'[q] = IF q = r THEN x ELSE req[q]
  BY DEF TypeOK, Moves

LEMMA RejectMoves ==
  ASSUME NEW r, Reject(r)
  PROVE  Moves(r, Finished) /\ UNCHANGED <<user, session, wrong>>
  BY DEF Reject, Finish, Moves

LEMMA FinishedShape ==
  /\ Finished \in Progress
  /\ Finished.pc = "done" /\ Finished.now = 0
  BY DEF Finished, Blank, NoRow, Progress, UserRow, Pc

\* A step of r that writes neither the row of the user nor a session keeps the
\* invariant, if what r becomes does.
LEMMA QuietMove ==
  ASSUME IInv, NEW r \in Request, NEW x \in Progress, Moves(r, x),
         UNCHANGED <<user, session, wrong, clock>>,
         x.now <= clock,
         x.pc \in {"rotate", "expire"} => x.token \in Token,
         x.pc = "failWrite" /\ ~x.stale => x.row = user /\ user.until <= x.now,
         x.pc \in {"resetRead", "reset"} /\ r \in Login =>
           x.row.hash \in Setter /\ NewPin[x.row.hash] = Given[r],
         x.pc # "done" => req[r].pc # "done"
  PROVE  IInv'
<1>1. \A q \in Request : req'[q] = IF q = r THEN x ELSE req[q]
  BY MoveOne DEF IInv
<1>2. TypeOK' BY DEF IInv, TypeOK, Moves
<1>3. Progressing' BY <1>1 DEF IInv, Progressing
<1>4. Counter'
  BY <1>1
  DEF IInv, Counter, CountsEveryFailure, LockedAtLimit, SnapshotFresh, Request
<1>5. Matched' BY <1>1 DEF IInv, Matched, Request
<1>6. Chain'
  BY <1>1 DEF IInv, Chain, Rows, OneActivePerChain, Active, Token, Request
<1> QED BY <1>2, <1>3, <1>4, <1>5, <1>6 DEF IInv

LEMMA RejectStep ==
  ASSUME IInv, NEW r \in Request, Reject(r), UNCHANGED clock
  PROVE  IInv'
<1>1. 0 <= clock BY DEF IInv, TypeOK
<1> QED BY <1>1, RejectMoves, FinishedShape, QuietMove

\* A write of the users row that keeps the counter exact.
LEMMA UserStep ==
  ASSUME IInv, NEW r \in Request, NEW row \in UserRow, WriteUser(r, row),
         UNCHANGED clock,
         wrong' = row.fails, row.until # 0 <=> row.fails = MaxFails
  PROVE  /\ user' = row /\ wrong' \in 0..MaxFails
         /\ req' \in [Request -> Progress]
         /\ Progressing' /\ Counter' /\ Matched'
         /\ \A q \in Request : req'[q].pc = IF q = r THEN "done" ELSE req[q].pc
<1>1. /\ user' = row
      /\ req' = [q \in Request |->
                  IF q = r THEN Finished
                  ELSE IF req[q].pc = "failWrite" THEN [req[q] EXCEPT !.stale = TRUE]
                  ELSE req[q]]
  BY DEF WriteUser
<1>2. ASSUME NEW q \in Request
      PROVE  /\ q = r => req'[q] = Finished
             /\ q # r => /\ req'[q] \in Progress
                         /\ req'[q].pc = req[q].pc /\ req'[q].now = req[q].now
                         /\ req'[q].token = req[q].token /\ req'[q].row = req[q].row
                         /\ req[q].pc = "failWrite" => req'[q].stale
  <2>1. req[q] \in Progress BY DEF IInv, TypeOK
  <2>2. CASE req[q].pc = "failWrite" BY <1>1, <2>1, <2>2 DEF Progress
  <2>3. CASE req[q].pc # "failWrite" BY <1>1, <2>1, <2>3
  <2> QED BY <2>2, <2>3
<1>3. req' \in [Request -> Progress] BY <1>1, <1>2, FinishedShape
<1>4. Progressing' BY <1>2, FinishedShape DEF IInv, TypeOK, Progressing
<1>5. Matched' BY <1>2, FinishedShape DEF IInv, Matched, Request
<1>6. SnapshotFresh' BY <1>2, FinishedShape DEF SnapshotFresh, Request
<1>7. Counter' BY <1>1, <1>6 DEF Counter, CountsEveryFailure, LockedAtLimit
<1> QED BY <1>1, <1>2, <1>3, <1>4, <1>5, <1>7, FinishedShape DEF UserRow

-----------------------------------------------------------------------------
(* The steps.                                                              *)

LEMMA ClearedRow ==
  ASSUME NEW h \in Setter \cup {NoHash}
  PROVE  /\ Cleared(h) \in UserRow
         /\ Cleared(h).hash = h /\ Cleared(h).fails = 0 /\ Cleared(h).until = 0
  BY DEF Cleared, UserRow

LEMMA SetPinStep ==
  ASSUME IInv, NEW r \in Setter, SetPin(r)
  PROVE  IInv'
<1>1. r \in Request /\ r \notin Token BY DEF Request, Token
<1>2. /\ Cleared(r) \in UserRow
      /\ Cleared(r).fails = 0 /\ Cleared(r).until = 0
  BY ClearedRow
<1>3. /\ wrong' \in 0..MaxFails /\ user' \in UserRow
      /\ req' \in [Request -> Progress]
      /\ Progressing' /\ Counter' /\ Matched'
      /\ \A q \in Request : req'[q].pc = IF q = r THEN "done" ELSE req[q].pc
  BY <1>1, <1>2, UserStep DEF SetPin
<1>4. TypeOK' BY <1>3 DEF SetPin, IInv, TypeOK
<1>5. Chain'
  BY <1>1, <1>3 DEF SetPin, IInv, Chain, Rows, OneActivePerChain, Active, Token, Request
<1> QED BY <1>3, <1>4, <1>5 DEF IInv

LEMMA ArriveStep ==
  ASSUME IInv, NEW r \in Login \cup Refresh, Arrive(r)
  PROVE  IInv'
<1> DEFINE x == [req[r] EXCEPT !.pc = "read", !.now = clock]
<1>1. r \in Request /\ req[r] \in Progress BY DEF Request, IInv, TypeOK
<1>2. Moves(r, x) BY <1>1 DEF Arrive, Moves, IInv, TypeOK
<1>3. clock \in Nat BY DEF IInv, TypeOK
<1>4. x.pc = "read" /\ x.now = clock /\ x \in Progress
  BY <1>1, <1>3 DEF Progress, Pc
<1>5. req[r].pc # "done" /\ UNCHANGED <<user, session, wrong, clock>> BY DEF Arrive
<1> HIDE DEF x
<1> QED BY <1>1, <1>2, <1>3, <1>4, <1>5, QuietMove

LEMMA LoginReadStep ==
  ASSUME IInv, NEW r \in Login, LoginRead(r)
  PROVE  IInv'
<1> DEFINE x == [req[r] EXCEPT
                   !.pc = IF NewPin[user.hash] = Given[r] THEN "resetRead" ELSE "failRead",
                   !.row = Cleared(user.hash)]
<1>1. r \in Request /\ req[r] \in Progress /\ user \in UserRow
  BY DEF Request, IInv, TypeOK
<1>2. CASE Reject(r) BY <1>1, <1>2, RejectStep DEF LoginRead
<1>3. CASE ~Reject(r)
  <2>1. /\ user.hash # NoHash /\ Moves(r, x)
        /\ UNCHANGED <<user, session, wrong, clock>>
    BY <1>1, <1>3 DEF LoginRead, Moves, IInv, TypeOK
  <2>2. user.hash \in Setter /\ Cleared(user.hash) \in UserRow
        /\ Cleared(user.hash).hash = user.hash
    BY <1>1, <2>1, ClearedRow DEF UserRow
  <2>3. /\ x \in Progress /\ x.now = req[r].now /\ x.row.hash = user.hash
        /\ x.pc \in {"resetRead", "failRead"}
        /\ x.pc = "resetRead" => NewPin[user.hash] = Given[r]
    BY <1>1, <2>2 DEF Progress, Pc
  <2>4. x.now <= clock BY <1>1, <2>3 DEF IInv, Progressing
  <2>5. req[r].pc # "done" BY DEF LoginRead
  <2> HIDE DEF x
  <2> QED BY <1>1, <2>1, <2>2, <2>3, <2>4, <2>5, QuietMove
<1> QED BY <1>2, <1>3

LEMMA ResetReadStep ==
  ASSUME IInv, NEW r \in Login, ResetRead(r)
  PROVE  IInv'
<1> DEFINE x == [req[r] EXCEPT !.pc = "reset"]
<1>1. r \in Request /\ req[r] \in Progress BY DEF Request, IInv, TypeOK
<1>2. CASE Reject(r) BY <1>1, <1>2, RejectStep DEF ResetRead
<1>3. CASE ~Reject(r)
  <2>1. Moves(r, x) /\ UNCHANGED <<user, session, wrong, clock>>
    BY <1>3 DEF ResetRead, Goto, Moves
  <2>2. x \in Progress /\ x.pc = "reset" /\ x.now = req[r].now /\ x.row = req[r].row
    BY <1>1 DEF Progress, Pc
  <2>3. x.now <= clock BY <1>1, <2>2 DEF IInv, Progressing
  <2>4. req[r].row.hash \in Setter /\ NewPin[req[r].row.hash] = Given[r]
        /\ req[r].pc # "done"
    BY DEF ResetRead, IInv, Matched
  <2> HIDE DEF x
  <2> QED BY <1>1, <2>1, <2>2, <2>3, <2>4, QuietMove
<1> QED BY <1>2, <1>3

LEMMA ResetStep ==
  ASSUME IInv, NEW r \in Login, Reset(r)
  PROVE  IInv'
<1>1. r \in Request /\ r \in Token /\ req[r] \in Progress /\ user \in UserRow
  BY DEF Request, Token, IInv, TypeOK
<1>2. CASE Reject(r) BY <1>1, <1>2, RejectStep DEF Reset
<1>3. CASE ~Reject(r)
  <2> DEFINE row == Open(r, NoToken, req[r].now + Ttl)
  <2>1. /\ session' = [session EXCEPT ![r] = row]
        /\ WriteUser(r, Cleared(user.hash)) /\ wrong' = 0 /\ UNCHANGED clock
    BY <1>3 DEF Reset
  <2>2. /\ Cleared(user.hash) \in UserRow
        /\ Cleared(user.hash).fails = 0 /\ Cleared(user.hash).until = 0
    BY <1>1, ClearedRow DEF UserRow
  <2>3. /\ wrong' \in 0..MaxFails /\ user' \in UserRow
        /\ req' \in [Request -> Progress]
        /\ Progressing' /\ Counter' /\ Matched'
        /\ \A q \in Request : req'[q].pc = IF q = r THEN "done" ELSE req[q].pc
    BY <1>1, <2>1, <2>2, UserStep
  <2>4. row \in SessionRow /\ row.status = "ACTIVE" /\ row.login = r /\ row.from = NoToken
    BY <1>1 DEF Open, SessionRow, Progress
  <2> HIDE DEF row
  <2>5. TypeOK' BY <2>1, <2>3, <2>4 DEF IInv, TypeOK
  <2>6. \A t \in Token : session'[t] = IF t = r THEN row ELSE session[t]
    BY <2>1 DEF IInv, TypeOK
  <2>7. session[r].status = "NONE"
    BY <1>1 DEF Reset, IInv, Chain, Rows
  <2>8. \A t \in Token : /\ session[t].login \in Token \cup {NoToken}
                         /\ session[t].from \in Token \cup {NoToken}
    BY DEF IInv, TypeOK, SessionRow, Token
  <2>9. \A t \in Token : session[t].login # r /\ session[t].from # r
    BY <1>1, <2>7 DEF IInv, Chain, Rows
  <2>10. Rows'
    BY <1>1, <2>3, <2>4, <2>6, <2>7, <2>8, <2>9 DEF IInv, Chain, Rows, Token, Request
  <2>11. ASSUME NEW t \in Token, NEW u \in Token
         PROVE  /\ Active(t)' /\ Active(u)' /\ session'[t].login = session'[u].login => t = u
                /\ session'[u].from = t => ~Active(t)'
    <3>1. /\ t = r \/ session'[t] = session[t]
          /\ u = r \/ session'[u] = session[u]
      BY <2>6
    <3>2. t # NoToken BY DEF Token
    <3>3. /\ session'[r].login = r /\ session'[r].from = NoToken
      BY <1>1, <2>4, <2>6
    <3> QED BY <3>1, <3>2, <3>3, <2>9 DEF IInv, Chain, OneActivePerChain, Active
  <2>12. OneActivePerChain' BY <2>11 DEF OneActivePerChain, Active
  <2> QED BY <2>3, <2>5, <2>10, <2>12 DEF IInv, Chain
<1> QED BY <1>2, <1>3

LEMMA FailReadStep ==
  ASSUME IInv, NEW r \in Login, FailRead(r)
  PROVE  IInv'
<1> DEFINE x == [req[r] EXCEPT !.pc = "failWrite", !.row = user, !.stale = FALSE]
<1>1. r \in Request /\ req[r] \in Progress /\ user \in UserRow
  BY DEF Request, IInv, TypeOK
<1>2. CASE Reject(r) BY <1>1, <1>2, RejectStep DEF FailRead
<1>3. CASE ~Reject(r)
  <2>1. Moves(r, x) /\ ~Locked(r) /\ UNCHANGED <<user, session, wrong, clock>>
    BY <1>1, <1>3 DEF FailRead, Moves, IInv, TypeOK
  <2>2. x \in Progress /\ x.pc = "failWrite" /\ x.now = req[r].now /\ x.row = user
    BY <1>1 DEF Progress, Pc
  <2>3. x.now <= clock BY <1>1, <2>2 DEF IInv, Progressing
  <2>4. user.until <= x.now BY <1>1, <2>1, <2>2 DEF Locked, UserRow, Progress
  <2>5. req[r].pc # "done" BY DEF FailRead
  <2> HIDE DEF x
  <2> QED BY <1>1, <2>1, <2>2, <2>3, <2>4, <2>5, QuietMove
<1> QED BY <1>2, <1>3

\* The next row of a snapshot that is the row: the counter of wrong PINs and the
\* lock move together.
LEMMA NextRowCounts ==
  ASSUME NEW row \in UserRow, NEW now \in Nat,
         row.until # 0 <=> row.fails = MaxFails
  PROVE  /\ NextRow(row, now) \in UserRow
         /\ NextRow(row, now).fails = 1 + IF row.until # 0 THEN 0 ELSE row.fails
         /\ NextRow(row, now).until # 0 <=> NextRow(row, now).fails = MaxFails
<1> DEFINE fails == 1 + IF row.until # 0 THEN 0 ELSE row.fails
           until == IF fails >= MaxFails THEN now + LockFor ELSE 0
<1>1. fails \in 0..MaxFails /\ until \in Nat BY DEF UserRow
<1>2. until # 0 <=> fails = MaxFails BY <1>1
<1> HIDE DEF fails, until
<1>3. NextRow(row, now) = [row EXCEPT !.fails = fails, !.until = until]
  BY DEF NextRow, fails, until
<1>4. fails = 1 + IF row.until # 0 THEN 0 ELSE row.fails BY DEF fails
<1> QED BY <1>1, <1>2, <1>3, <1>4 DEF UserRow

LEMMA FailWriteStep ==
  ASSUME IInv, NEW r \in Login, FailWrite(r)
  PROVE  IInv'
<1> DEFINE next == NextRow(req[r].row, req[r].now)
<1>1. r \in Request /\ req[r] \in Progress /\ user \in UserRow
  BY DEF Request, IInv, TypeOK
<1>2. req[r].row = user
  BY DEF FailWrite, IInv, Counter, SnapshotFresh
<1>3. (user.until # 0 <=> user.fails = MaxFails) /\ wrong = user.fails
  BY DEF IInv, Counter, LockedAtLimit, CountsEveryFailure
<1>4. /\ next \in UserRow
      /\ next.fails = 1 + IF user.until # 0 THEN 0 ELSE user.fails
      /\ next.until # 0 <=> next.fails = MaxFails
  BY <1>1, <1>2, <1>3, NextRowCounts DEF Progress
<1>5. /\ WriteUser(r, next) /\ UNCHANGED <<session, clock>>
      /\ wrong' = 1 + IF user.until # 0 THEN 0 ELSE wrong
  BY DEF FailWrite
<1> HIDE DEF next
<1>6. wrong' = next.fails BY <1>3, <1>4, <1>5
<1>7. /\ wrong' \in 0..MaxFails /\ user' \in UserRow
      /\ req' \in [Request -> Progress]
      /\ Progressing' /\ Counter' /\ Matched'
      /\ \A q \in Request : req'[q].pc = IF q = r THEN "done" ELSE req[q].pc
  BY <1>1, <1>4, <1>5, <1>6, UserStep
<1>8. TypeOK' BY <1>5, <1>7 DEF IInv, TypeOK
<1>9. Chain'
  BY <1>5, <1>7 DEF IInv, Chain, Rows, OneActivePerChain, Active, Token, Request
<1> QED BY <1>7, <1>8, <1>9 DEF IInv

LEMMA FailAgainStep ==
  ASSUME IInv, NEW r \in Login, FailAgain(r)
  PROVE  IInv'
<1> DEFINE x == [req[r] EXCEPT !.pc = "failRead", !.try = req[r].try + 1,
                               !.row = Cleared(req[r].row.hash), !.stale = FALSE]
<1>1. r \in Request /\ req[r] \in Progress BY DEF Request, IInv, TypeOK
<1>2. CASE Reject(r) BY <1>1, <1>2, RejectStep DEF FailAgain
<1>3. CASE ~Reject(r)
  <2>1. /\ req[r].try < 3 /\ Moves(r, x)
        /\ UNCHANGED <<user, session, wrong, clock>>
    BY <1>1, <1>3 DEF FailAgain, Moves, IInv, TypeOK
  <2>2. Cleared(req[r].row.hash) \in UserRow
    BY <1>1, ClearedRow DEF Progress, UserRow
  <2>3. req[r].try + 1 \in 1..3 BY <1>1, <2>1 DEF Progress
  <2> DEFINE cleared == Cleared(req[r].row.hash)
             again == req[r].try + 1
  <2>4. cleared \in UserRow /\ again \in 1..3 BY <2>2, <2>3
  <2> HIDE DEF cleared, again
  <2>5. x = [req[r] EXCEPT !.pc = "failRead", !.try = again,
                           !.row = cleared, !.stale = FALSE]
    BY DEF cleared, again
  <2> HIDE DEF x
  <2>6. x \in Progress /\ x.pc = "failRead" /\ x.now = req[r].now
    BY <1>1, <2>4, <2>5 DEF Progress, Pc
  <2>7. x.now <= clock BY <1>1, <2>6 DEF IInv, Progressing
  <2>8. req[r].pc # "done" BY DEF FailAgain
  <2> QED BY <1>1, <2>1, <2>6, <2>7, <2>8, QuietMove
<1> QED BY <1>2, <1>3

LEMMA RefreshReadStep ==
  ASSUME IInv, NEW r \in Refresh, RefreshRead(r)
  PROVE  IInv'
<1>1. r \in Request /\ r \notin Login /\ req[r] \in Progress
  BY DEF Request, IInv, TypeOK
<1>2. CASE Reject(r) BY <1>1, <1>2, RejectStep DEF RefreshRead
<1>3. CASE ~Reject(r)
  <2>1. PICK t \in Token :
          req' = [req EXCEPT
                    ![r].pc = IF session[t].expires > req[r].now THEN "rotate" ELSE "expire",
                    ![r].token = t]
    BY <1>3 DEF RefreshRead
  <2> DEFINE label == IF session[t].expires > req[r].now THEN "rotate" ELSE "expire"
             x == [req[r] EXCEPT !.pc = label, !.token = t]
  <2>2. Moves(r, x) BY <1>1, <2>1 DEF Moves, IInv, TypeOK
  <2>3. label \in {"rotate", "expire"} OBVIOUS
  <2> HIDE DEF label
  <2>4. x \in Progress /\ x.pc \in {"rotate", "expire"} /\ x.token = t
        /\ x.now = req[r].now
    BY <1>1, <2>3 DEF Progress, Pc
  <2>5. x.now <= clock BY <1>1, <2>4 DEF IInv, Progressing
  <2>6. req[r].pc # "done" /\ UNCHANGED <<user, session, wrong, clock>>
    BY <1>3 DEF RefreshRead
  <2> HIDE DEF x
  <2> QED BY <1>1, <2>2, <2>4, <2>5, <2>6, QuietMove
<1> QED BY <1>2, <1>3

\* What an answer changes that touches a session alone.
LEMMA FinishStep ==
  ASSUME IInv, NEW r \in Request, Finish(r), UNCHANGED <<user, wrong, clock>>
  PROVE  /\ req' \in [Request -> Progress]
         /\ Progressing' /\ Counter' /\ Matched'
         /\ \A q \in Request : q # r => req'[q] = req[q]
         /\ req'[r].pc = "done"
<1>1. \A q \in Request : req'[q] = IF q = r THEN Finished ELSE req[q]
  BY MoveOne DEF IInv, Finish, Moves
<1>2. req' \in [Request -> Progress]
  BY FinishedShape DEF Finish, IInv, TypeOK
<1>3. Progressing' BY <1>1, FinishedShape DEF IInv, TypeOK, Progressing
<1>4. Counter'
  BY <1>1, FinishedShape
  DEF IInv, Counter, CountsEveryFailure, LockedAtLimit, SnapshotFresh, Request
<1>5. Matched' BY <1>1, FinishedShape DEF IInv, Matched, Request
<1> QED BY <1>1, <1>2, <1>3, <1>4, <1>5, FinishedShape

LEMMA RevokeStep ==
  ASSUME IInv, NEW r \in Request, NEW t \in Token, Finish(r),
         IF Active(t) THEN Revoke(t) ELSE UNCHANGED session,
         UNCHANGED <<user, wrong, clock>>
  PROVE  IInv'
<1>1. /\ req' \in [Request -> Progress]
      /\ Progressing' /\ Counter' /\ Matched'
      /\ \A q \in Request : q # r => req'[q] = req[q]
      /\ req'[r].pc = "done"
  BY FinishStep
<1>2. session \in [Token -> SessionRow] BY DEF IInv, TypeOK
<1>3. /\ session' \in [Token -> SessionRow]
      /\ \A u \in Token : /\ session'[u].login = session[u].login
                          /\ session'[u].from = session[u].from
                          /\ \/ session'[u].status = session[u].status
                             \/ session[u].status = "ACTIVE" /\ session'[u].status = "REVOKED"
  BY <1>2 DEF Active, Revoke, SessionRow
<1>4. TypeOK' BY <1>1, <1>3 DEF IInv, TypeOK
<1>5. \A u \in Token : /\ session[u].login \in Token \cup {NoToken}
                       /\ session[u].from \in Token \cup {NoToken}
  BY <1>2 DEF SessionRow, Token
<1>6. Rows'
  BY <1>1, <1>3, <1>5 DEF IInv, Chain, Rows, Token, Request
<1>7. OneActivePerChain' BY <1>3 DEF IInv, Chain, OneActivePerChain, Active
<1> QED BY <1>1, <1>4, <1>6, <1>7 DEF IInv, Chain

LEMMA RotateStep ==
  ASSUME IInv, NEW r \in Refresh, Rotate(r)
  PROVE  IInv'
<1> DEFINE t == req[r].token
<1>1. r \in Request /\ r \in Token /\ req[r] \in Progress /\ t \in Token
  BY DEF Request, Token, IInv, TypeOK, Progressing, Rotate
<1>2. CASE Reject(r) BY <1>1, <1>2, RejectStep DEF Rotate
<1>3. CASE ~Reject(r)
  <2> DEFINE row == Open(session[t].login, t, req[r].now + Ttl)
  <2>1. /\ session' = [session EXCEPT ![t].status = "REVOKED", ![r] = row]
        /\ Active(t) /\ Finish(r) /\ UNCHANGED <<user, wrong, clock>>
    BY <1>3 DEF Rotate
  <2>2. session \in [Token -> SessionRow] /\ session[t] \in SessionRow
    BY <1>1 DEF IInv, TypeOK
  <2>3. /\ row \in SessionRow /\ row.status = "ACTIVE" /\ row.from = t
        /\ row.login = session[t].login
    BY <1>1, <2>2 DEF Open, SessionRow, Progress
  <2>4. session[r].status = "NONE" /\ session[t].status = "ACTIVE" /\ r # t
    BY <1>1, <2>1 DEF Rotate, Active, IInv, Chain, Rows
  <2> HIDE DEF row, t
  <2>5. /\ session' \in [Token -> SessionRow]
        /\ session'[r] = row
        /\ session'[t].status = "REVOKED"
        /\ session'[t].login = session[t].login /\ session'[t].from = session[t].from
        /\ \A u \in Token : u # r /\ u # t => session'[u] = session[u]
    BY <1>1, <2>1, <2>2, <2>3, <2>4 DEF SessionRow
  <2>6. /\ req' \in [Request -> Progress]
        /\ Progressing' /\ Counter' /\ Matched'
        /\ \A q \in Request : q # r => req'[q] = req[q]
        /\ req'[r].pc = "done"
    BY <1>1, <2>1, FinishStep
  <2>7. TypeOK' BY <2>1, <2>5, <2>6 DEF IInv, TypeOK
  <2>8. \A u \in Token : /\ session[u].login \in Token \cup {NoToken}
                         /\ session[u].from \in Token \cup {NoToken}
    BY <2>2 DEF SessionRow, Token
  <2>9. \A u \in Token : session[u].login # r /\ session[u].from # r
    BY <1>1, <2>4 DEF IInv, Chain, Rows, Token
  <2>10. ASSUME NEW u \in Token
         PROVE  /\ req'[u].pc # "done" => session'[u].status = "NONE"
                /\ session'[u].login # NoToken => session'[session'[u].login].status # "NONE"
                /\ session'[u].from # NoToken => session'[session'[u].from].status = "REVOKED"
    <3>1. session'[u].login \in {session[u].login, session[t].login}
          /\ session'[u].from \in {session[u].from, t}
      BY <2>3, <2>5
    <3>2. req'[u].pc # "done" => session'[u].status = "NONE"
      <4>1. u \in Request BY DEF Token, Request
      <4>2. req[u].pc # "done" => session[u].status = "NONE" BY DEF IInv, Chain, Rows
      <4> QED BY <1>1, <2>4, <2>5, <2>6, <4>1, <4>2
    <3>3. ASSUME NEW v \in Token, session[v].status # "NONE"
          PROVE  session'[v].status # "NONE"
      BY <2>3, <2>4, <2>5, <3>3
    <3>4. ASSUME NEW v \in Token, session[v].status = "REVOKED"
          PROVE  session'[v].status = "REVOKED"
      BY <2>4, <2>5, <3>4
    <3>5. ASSUME NEW v \in Token, session[v].login # NoToken
          PROVE  session'[session[v].login].status # "NONE"
      BY <2>8, <3>3, <3>5 DEF IInv, Chain, Rows
    <3>6. session[u].from # NoToken => session'[session[u].from].status = "REVOKED"
      BY <2>8, <3>4 DEF IInv, Chain, Rows
    <3> QED BY <1>1, <2>5, <3>1, <3>2, <3>5, <3>6
  <2>11. Rows' BY <2>10 DEF Rows
  <2>12. ASSUME NEW u \in Token, NEW v \in Token
         PROVE  /\ Active(u)' /\ Active(v)' /\ session'[u].login = session'[v].login => u = v
                /\ session'[v].from = u => ~Active(u)'
    <3>1. session'[v].from = u => ~Active(u)'
      BY <2>3, <2>4, <2>5, <2>9 DEF IInv, Chain, OneActivePerChain, Active
    <3>2. ASSUME Active(u)', Active(v)', session'[u].login = session'[v].login
          PROVE  u = v
      <4>1. u # t /\ v # t BY <2>5, <3>2 DEF Active
      <4>2. CASE u # r /\ v # r
        BY <2>5, <3>2, <4>1, <4>2 DEF IInv, Chain, OneActivePerChain, Active
      <4>3. ASSUME NEW w \in Token, w # r, w # t, Active(w)'
            PROVE  session'[w].login # session[t].login
        BY <1>1, <2>4, <2>5, <4>3 DEF IInv, Chain, OneActivePerChain, Active
      <4> QED BY <2>3, <2>5, <3>2, <4>1, <4>2, <4>3
    <3> QED BY <3>1, <3>2
  <2>13. OneActivePerChain' BY <2>12 DEF OneActivePerChain, Active
  <2> QED BY <2>6, <2>7, <2>11, <2>13 DEF IInv, Chain
<1> QED BY <1>2, <1>3

LEMMA TickStep ==
  ASSUME IInv, Tick
  PROVE  IInv'
<1>1. clock' \in 0..MaxTime /\ clock' = clock + 1 /\ clock \in Nat
  BY DEF IInv, TypeOK, Tick
<1>2. TypeOK' BY <1>1 DEF IInv, TypeOK, Tick
<1>3. Progressing'
  <2> SUFFICES ASSUME NEW r \in Request
               PROVE  /\ req[r].now <= clock + 1
                      /\ req[r].pc \in {"rotate", "expire"} => req[r].token \in Token
    BY <1>1 DEF Progressing, Tick
  <2>1. req[r].now \in Nat BY DEF IInv, TypeOK, Progress
  <2> QED BY <1>1, <2>1 DEF IInv, Progressing
<1> QED
  BY <1>2, <1>3
  DEF Tick, IInv, Counter, CountsEveryFailure, LockedAtLimit, SnapshotFresh, Matched,
      Chain, Rows, OneActivePerChain, Active

LEMMA IInvStep == IInv /\ [Next]_vars => IInv'
<1> SUFFICES ASSUME IInv, [Next]_vars PROVE IInv' OBVIOUS
<1>1. CASE Tick BY <1>1, TickStep
<1>2. ASSUME NEW r \in Setter, SetPin(r) PROVE IInv' BY <1>2, SetPinStep
<1>3. ASSUME NEW r \in Login \cup Refresh, Arrive(r) \/ Lost(r) PROVE IInv'
  <2>1. r \in Request BY DEF Request
  <2>2. CASE Arrive(r) BY <2>2, ArriveStep
  <2>3. CASE Lost(r) BY <2>1, <2>3, RejectStep DEF Lost
  <2> QED BY <1>3, <2>2, <2>3
<1>4. ASSUME NEW r \in Login, LoginStep(r) PROVE IInv'
  BY <1>4, LoginReadStep, ResetReadStep, ResetStep, FailReadStep, FailWriteStep,
     FailAgainStep
  DEF LoginStep
<1>5. ASSUME NEW r \in Refresh, RefreshStep(r) PROVE IInv'
  <2>1. r \in Request BY DEF Request
  <2>2. CASE RefreshRead(r) BY <2>2, RefreshReadStep
  <2>3. CASE Rotate(r) BY <2>3, RotateStep
  <2>4. CASE Expire(r)
    <3>1. req[r].token \in Token BY <2>1, <2>4 DEF Expire, IInv, Progressing
    <3> QED BY <2>1, <2>4, <3>1, RevokeStep DEF Expire
  <2> QED BY <1>5, <2>2, <2>3, <2>4 DEF RefreshStep
<1>6. ASSUME NEW r \in Logout, LogOut(r) PROVE IInv'
  <2>1. r \in Request BY DEF Request
  <2> QED BY <1>6, <2>1, RevokeStep DEF LogOut
<1>7. CASE UNCHANGED vars
  BY <1>7
  DEF vars, IInv, TypeOK, Progressing, Counter, CountsEveryFailure, LockedAtLimit,
      SnapshotFresh, Matched, Chain, Rows, OneActivePerChain, Active
<1> QED BY <1>1, <1>2, <1>3, <1>4, <1>5, <1>6, <1>7 DEF Next

-----------------------------------------------------------------------------
(* The theorems.                                                           *)

\* The variables keep their types; above all, the counter of failures never
\* passes PIN_MAX_FAILED_ATTEMPTS (recordFailedPin).
THEOREM TypeCorrect == Spec => []TypeOK
<1>1. IInv => TypeOK BY DEF IInv
<1> QED BY <1>1, InitIInv, IInvStep, PTL DEF Spec

\* pin_failed_attempts is the number of wrong PINs since the counter restarted,
\* however many logins fail at once: the transactions of recordFailedPin lose
\* no update.
THEOREM FailuresCounted == Spec => []CountsEveryFailure
<1>1. IInv => CountsEveryFailure BY DEF IInv, Counter
<1> QED BY <1>1, InitIInv, IInvStep, PTL DEF Spec

\* locked_until is set exactly when the counter is at its limit
\* (recordFailedPin, pinLogin, setPin).
THEOREM LockAtLimit == Spec => []LockedAtLimit
<1>1. IInv => LockedAtLimit BY DEF IInv, Counter
<1> QED BY <1>1, InitIInv, IInvStep, PTL DEF Spec

\* Refreshes, logouts and expiries that race leave one ACTIVE token at most of
\* those that come from one login, and none that was rotated (refresh).
THEOREM OneActiveToken == Spec => []OneActivePerChain
<1>1. IInv => OneActivePerChain BY DEF IInv, Chain
<1> QED BY <1>1, InitIInv, IInvStep, PTL DEF Spec

\* A failure that arrives while the user is locked does not move, shorten or
\* lift the lock; only a login or a new PIN end it early (recordFailedPin).
THEOREM LockStays == Spec => LockNotMoved
<1> DEFINE Stays == clock < user.until /\ user'.until # user.until
                      => user' = Cleared(user'.hash)
<1>1. ASSUME IInv, [Next]_vars PROVE Stays
  <2>1. ASSUME NEW h, user' = Cleared(h) PROVE Stays
    BY <2>1 DEF Cleared
  <2>2. ASSUME NEW r \in Login, FailWrite(r) PROVE Stays
    <3>1. user.until <= req[r].now BY <1>1, <2>2 DEF FailWrite, IInv, Counter, SnapshotFresh
    <3>2. req[r].now <= clock BY <1>1 DEF IInv, Progressing, Request
    <3>3. user.until \in Nat /\ req[r].now \in Nat /\ clock \in Nat
      BY <1>1 DEF IInv, TypeOK, UserRow, Progress, Request
    <3> QED BY <3>1, <3>2, <3>3
  <2>3. CASE user' = user BY <2>3
  <2>4. ASSUME NEW r \in Setter, SetPin(r) PROVE Stays BY <2>1, <2>4 DEF SetPin, WriteUser
  <2>5. ASSUME NEW r \in Login, LoginStep(r) PROVE Stays
    <3>1. CASE Reset(r) BY <2>1, <2>3, <3>1 DEF Reset, Reject, WriteUser
    <3> QED
      BY <2>2, <2>3, <2>5, <3>1
      DEF LoginStep, LoginRead, ResetRead, FailRead, FailAgain, Reject
  <2> QED
    BY <1>1, <2>3, <2>4, <2>5
    DEF Next, vars, Tick, Arrive, Lost, Reject, RefreshStep, RefreshRead, Rotate, Expire,
        LogOut
<1> QED BY <1>1, InitIInv, IInvStep, PTL DEF Spec, LockNotMoved

\* A login opens a session only with the PIN in force at its COMMIT, whatever
\* setPin does between its statements (pinLogin).
THEOREM SessionByCurrentPin == Spec => SessionFromCurrentPin
<1> DEFINE Current ==
      \A t \in Token :
        session[t].login # session'[t].login /\ session'[t].from = NoToken =>
          NewPin[user.hash] = Given[session'[t].login]
<1>1. ASSUME IInv, [Next]_vars PROVE Current
  <2>1. CASE UNCHANGED session BY <2>1
  <2>2. ASSUME NEW t \in Token, Revoke(t) PROVE Current
    <3>1. \A u \in Token : session'[u].login = session[u].login
      BY <1>1, <2>2 DEF Revoke, IInv, TypeOK, SessionRow
    <3> QED BY <3>1
  <2>3. ASSUME NEW r \in Login, Reset(r) PROVE Current
    <3>1. CASE Reject(r) BY <2>1, <3>1 DEF Reject
    <3>2. CASE ~Reject(r)
      <4>1. NewPin[user.hash] = Given[r]
        BY <1>1, <2>3, <3>2 DEF Reset, SameHash, IInv, Matched
      <4>2. \A u \in Token : u # r => session'[u] = session[u]
        BY <1>1, <2>3, <3>2 DEF Reset, IInv, TypeOK
      <4>3. session'[r].login = r
        BY <1>1, <2>3, <3>2 DEF Reset, IInv, TypeOK, Token, Open
      <4> QED BY <4>1, <4>2, <4>3
    <3> QED BY <3>1, <3>2
  <2>4. ASSUME NEW r \in Refresh, Rotate(r) PROVE Current
    <3>1. CASE Reject(r) BY <2>1, <3>1 DEF Reject
    <3>2. CASE ~Reject(r)
      <4> DEFINE t == req[r].token
      <4>1. t \in Token /\ r \in Token
        BY <1>1, <2>4 DEF Rotate, IInv, Progressing, Request, Token
      <4>2. session' = [session EXCEPT
                          ![t].status = "REVOKED",
                          ![r] = Open(session[t].login, t, req[r].now + Ttl)]
        BY <2>4, <3>2 DEF Rotate
      <4> HIDE DEF t
      <4>3. session \in [Token -> SessionRow] BY <1>1 DEF IInv, TypeOK
      <4>4. session'[r].from = t BY <4>1, <4>2, <4>3 DEF Open
      <4>5. \A u \in Token : u # r => session'[u].login = session[u].login
        BY <4>1, <4>2, <4>3 DEF SessionRow
      <4>6. t # NoToken BY <4>1 DEF Token
      <4> QED BY <4>4, <4>5, <4>6
    <3> QED BY <3>1, <3>2
  <2>5. ASSUME NEW r \in Login, LoginStep(r) PROVE Current
    BY <2>1, <2>3, <2>5
    DEF LoginStep, LoginRead, ResetRead, FailRead, FailWrite, FailAgain, Reject
  <2>6. ASSUME NEW r \in Refresh, RefreshStep(r) PROVE Current
    <3>1. CASE Expire(r)
      <4>1. req[r].token \in Token BY <1>1, <3>1 DEF Expire, IInv, Progressing, Request
      <4> QED BY <2>1, <2>2, <3>1, <4>1 DEF Expire
    <3> QED BY <2>1, <2>4, <2>6, <3>1 DEF RefreshStep, RefreshRead, Reject
  <2>7. ASSUME NEW r \in Logout, LogOut(r) PROVE Current
    BY <2>1, <2>2, <2>7 DEF LogOut
  <2> QED
    BY <1>1, <2>1, <2>5, <2>6, <2>7 DEF Next, vars, Tick, SetPin, Arrive, Lost, Reject
<1> QED BY <1>1, InitIInv, IInvStep, PTL DEF Spec, SessionFromCurrentPin
===============================================================================
