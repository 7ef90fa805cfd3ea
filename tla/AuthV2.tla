--------------------------------- MODULE AuthV2 ---------------------------------
(***************************************************************************)
(* PIN logins of one user, and the device sessions that they open: the     *)
(* failure counter with its lock, setting the PIN, the rotation of refresh *)
(* tokens, and logout (AuthService, UsersService.setPin).                  *)
(*                                                                         *)
(* bcrypt salts a hash, so pin_hash identifies the request that stored it. *)
(* A login and a refresh each make one random token at most, so a token is *)
(* named after the request that makes it; it identifies a row of           *)
(* device_sessions, since its hash is unique and never changes.            *)
(***************************************************************************)
EXTENDS Naturals

CONSTANTS
  Pin,
  Setter,      \* requests POST /users/:id/pin
  NewPin,      \* NewPin[r] is the PIN that r sets
  Login,       \* requests POST /auth/v2/pin/login
  Given,       \* Given[r] is the PIN that r submits
  Refresh,     \* requests POST /auth/v2/refresh
  Logout,      \* requests POST /auth/v2/logout
  Together,    \* the sets of requests that are sent beside each other
  NoHash, NoToken,
  MaxFails,    \* PIN_MAX_FAILED_ATTEMPTS
  LockFor,     \* PIN_LOCK_DURATION_MINUTES
  Ttl,         \* REFRESH_TOKEN_TTL_DAYS
  MaxTime      \* bound on the clock

ASSUME PinAssumption == NewPin \in [Setter -> Pin] /\ Given \in [Login -> Pin]
ASSUME NullAssumption == NoHash \notin Setter /\ NoToken \notin Login \cup Refresh
ASSUME KindAssumption ==
  /\ Setter \cap Login = {} /\ Setter \cap Refresh = {} /\ Setter \cap Logout = {}
  /\ Login \cap Refresh = {} /\ Login \cap Logout = {} /\ Refresh \cap Logout = {}
ASSUME ConfigAssumption ==
  MaxFails \in Nat \ {0} /\ LockFor \in Nat \ {0} /\ Ttl \in Nat \ {0} /\ MaxTime \in Nat

VARIABLES
  user,      \* the users row: pin_hash, pin_failed_attempts, locked_until (0: null)
  session,   \* session[t]: the device_sessions row of refresh token t
  clock,
  req,       \* req[r]: where request r is, and what it has read
  wrong      \* wrong PINs that were counted since the counter last restarted

vars == <<user, session, clock, req, wrong>>

Token == Login \cup Refresh

Request == Setter \cup Login \cup Refresh \cup Logout

Pc == {"start", "read", "resetRead", "reset", "failRead", "failWrite",
       "rotate", "expire", "done"}

UserRow == [hash : Setter \cup {NoHash}, fails : 0..MaxFails, until : Nat]

\* login is the one that began the chain of rotations, from the token that this
\* one replaced.
SessionRow == [status : {"NONE", "ACTIVE", "REVOKED"}, login : Login \cup {NoToken},
               from : Token \cup {NoToken}, expires : Nat]

NoSession == [status |-> "NONE", login |-> NoToken, from |-> NoToken, expires |-> 0]

\* now is the Date of the handler; row is the users row it has read, stale says
\* that the row was written since; token is the one it presents.
Progress == [pc : Pc, now : Nat, try : 1..3, row : UserRow, stale : BOOLEAN,
             token : Token \cup {NoToken}]

NoRow == [hash |-> NoHash, fails |-> 0, until |-> 0]

Blank(label) == [pc |-> label, now |-> 0, try |-> 1, row |-> NoRow, stale |-> FALSE,
                 token |-> NoToken]

TypeOK ==
  /\ user \in UserRow
  /\ session \in [Token -> SessionRow]
  /\ clock \in 0..MaxTime
  /\ req \in [Request -> Progress]
  /\ wrong \in 0..MaxFails

Init ==
  /\ user = NoRow                          \* users are created without a PIN
  /\ session = [t \in Token |-> NoSession]
  /\ clock = 0
  /\ \E R \in Together :
       req = [r \in Request |-> Blank(IF r \in R THEN "start" ELSE "done")]
  /\ wrong = 0

-----------------------------------------------------------------------------

Goto(r, label) == req' = [req EXCEPT ![r].pc = label]

\* A request that is answered keeps nothing.
Finished == Blank("done")

Finish(r) == req' = [req EXCEPT ![r] = Finished]

\* The request is answered and nothing is written.
Reject(r) ==
  /\ Finish(r)
  /\ UNCHANGED <<user, session, wrong>>

\* A write of the users row by r, its last statement: open snapshots of the row
\* are stale from now on.
WriteUser(r, row) ==
  /\ user' = row
  /\ req' = [q \in Request |->
               IF q = r THEN Finished
               ELSE IF req[q].pc = "failWrite" THEN [req[q] EXCEPT !.stale = TRUE]
               ELSE req[q]]

Cleared(hash) == [hash |-> hash, fails |-> 0, until |-> 0]

\* The row that an insert makes.
Open(login, from, expires) ==
  [status |-> "ACTIVE", login |-> login, from |-> from, expires |-> expires]

-----------------------------------------------------------------------------
(* UsersService.setPin.  The user stays active, so the read before the     *)
(* update finds it.                                                        *)

SetPin(r) ==
  /\ req[r].pc = "start"
  /\ WriteUser(r, Cleared(r))
  /\ wrong' = 0
  /\ UNCHANGED <<session, clock>>

-----------------------------------------------------------------------------
(* AuthService.pinLogin.                                                   *)

\* Both handlers take the time before they read.
Arrive(r) ==
  /\ req[r].pc = "start"
  /\ req' = [req EXCEPT ![r].pc = "read", ![r].now = clock]
  /\ UNCHANGED <<user, session, clock, wrong>>

Locked(r) == user.until > req[r].now

\* The row, with the comparison of the PIN that needs nothing else.
LoginRead(r) ==
  LET matches == NewPin[user.hash] = Given[r] IN
  /\ req[r].pc = "read"
  /\ \/ user.hash = NoHash /\ Reject(r)               \* 401
     \/ user.hash # NoHash /\ Locked(r) /\ Reject(r) \* 423 PIN_LOCKED
     \/ /\ user.hash # NoHash /\ ~Locked(r)
        /\ req' = [req EXCEPT ![r].pc = IF matches THEN "resetRead" ELSE "failRead",
                              ![r].row = Cleared(user.hash)]
        /\ UNCHANGED <<user, session, wrong>>
  /\ UNCHANGED clock

SameHash(r) == user.hash = req[r].row.hash

ResetRead(r) ==
  /\ req[r].pc = "resetRead"
  /\ \/ ~SameHash(r) /\ Reject(r)                     \* 401
     \/ /\ SameHash(r) /\ Goto(r, "reset")
        /\ UNCHANGED <<user, session, wrong>>
  /\ UNCHANGED clock

\* Broken variant: the update of the counter is by id alone.
ResetById(r) ==
  /\ req[r].pc = "reset"
  /\ session' = [session EXCEPT ![r] = Open(r, NoToken, req[r].now + Ttl)]
  /\ WriteUser(r, Cleared(user.hash))
  /\ wrong' = 0
  /\ UNCHANGED clock

\* The conditional update, the insert of the session and COMMIT.
Reset(r) ==
  /\ req[r].pc = "reset"
  /\ \/ ~SameHash(r) /\ Reject(r)                     \* 401
     \/ /\ SameHash(r)
        /\ session' = [session EXCEPT ![r] = Open(r, NoToken, req[r].now + Ttl)]
        /\ WriteUser(r, Cleared(user.hash))
        /\ wrong' = 0
  /\ UNCHANGED clock

\* Broken variant: the transaction does not look at the lock again.
FailReadUnlocked(r) ==
  /\ req[r].pc = "failRead"
  /\ \/ ~SameHash(r) /\ Reject(r)                     \* 401
     \/ /\ SameHash(r)
        /\ req' = [req EXCEPT ![r].pc = "failWrite", ![r].row = user, ![r].stale = FALSE]
        /\ UNCHANGED <<user, session, wrong>>
  /\ UNCHANGED clock

\* recordFailedPin: the first statement of a Serializable attempt.
FailRead(r) ==
  /\ req[r].pc = "failRead"
  /\ \/ ~SameHash(r) /\ Reject(r)                     \* 401
     \/ SameHash(r) /\ Locked(r) /\ Reject(r)     \* 423 PIN_LOCKED
     \/ /\ SameHash(r) /\ ~Locked(r)
        /\ req' = [req EXCEPT ![r].pc = "failWrite", ![r].row = user, ![r].stale = FALSE]
        /\ UNCHANGED <<user, session, wrong>>
  /\ UNCHANGED clock

\* Broken variant: the lock is set one failure late.
NextRowLate(row, now) ==
  LET fails == 1 + IF row.until # 0 THEN 0 ELSE row.fails IN
  [row EXCEPT !.fails = fails, !.until = IF fails > MaxFails THEN now + LockFor ELSE 0]

\* An expired lock restarts the counter; the failure that reaches the limit
\* locks the user.
NextRow(row, now) ==
  LET fails == 1 + IF row.until # 0 THEN 0 ELSE row.fails IN
  [row EXCEPT !.fails = fails, !.until = IF fails >= MaxFails THEN now + LockFor ELSE 0]

\* Broken variant: the transaction is READ COMMITTED.
FailWriteAnyway(r) ==
  LET next == NextRow(req[r].row, req[r].now) IN
  /\ req[r].pc = "failWrite"
  /\ WriteUser(r, next)
  /\ wrong' = 1 + IF user.until # 0 THEN 0 ELSE wrong
  /\ UNCHANGED <<session, clock>>

\* The update of the snapshot, and COMMIT.
FailWrite(r) ==
  LET next == NextRow(req[r].row, req[r].now) IN
  /\ req[r].pc = "failWrite"
  /\ ~req[r].stale                         \* else P2034
  /\ WriteUser(r, next)
  /\ wrong' = 1 + IF user.until # 0 THEN 0 ELSE wrong
  /\ UNCHANGED <<session, clock>>

\* Broken variant: one attempt too many.
FailAgainOneMore(r) ==
  /\ req[r].pc = "failWrite"
  /\ \/ /\ req[r].try <= 3
        /\ req' = [req EXCEPT ![r].pc = "failRead", ![r].try = req[r].try + 1]
        /\ UNCHANGED <<user, session, wrong>>
     \/ req[r].try > 3 /\ Reject(r)
  /\ UNCHANGED clock

\* Broken variant: the attempts are not bounded.
FailAgainForever(r) ==
  /\ req[r].pc = "failWrite"
  /\ Goto(r, "failRead")
  /\ UNCHANGED <<user, session, clock, wrong>>

\* P2034: the row was written since the snapshot, or another serialization
\* failure.  Three attempts are made.
FailAgain(r) ==
  /\ req[r].pc = "failWrite"
  /\ \/ /\ req[r].try < 3
        /\ req' = [req EXCEPT ![r].pc = "failRead", ![r].try = req[r].try + 1,
                              ![r].row = Cleared(req[r].row.hash), ![r].stale = FALSE]
        /\ UNCHANGED <<user, session, wrong>>
     \/ req[r].try = 3 /\ Reject(r)               \* PIN_LOGIN_RETRY_REQUIRED
  /\ UNCHANGED clock

-----------------------------------------------------------------------------
(* AuthService.refresh and logout: a client presents any token, also one    *)
(* that no row has.                                                        *)

Active(t) == session[t].status = "ACTIVE"

Revoke(t) == session' = [session EXCEPT ![t].status = "REVOKED"]

RefreshRead(r) ==
  /\ req[r].pc = "read"
  /\ \E t \in Token :
       \/ ~Active(t) /\ Reject(r)                 \* 401
       \/ /\ Active(t)
          /\ req' = [req EXCEPT
                       ![r].pc = IF session[t].expires > req[r].now THEN "rotate" ELSE "expire",
                       ![r].token = t]
          /\ UNCHANGED <<user, session, wrong>>
  /\ UNCHANGED clock

\* Broken variant: the update that revokes the token is by id alone.
RotateById(r) ==
  LET t == req[r].token IN
  /\ req[r].pc = "rotate"
  /\ session' = [session EXCEPT
                    ![t].status = "REVOKED",
                    ![r] = Open(session[t].login, t, req[r].now + Ttl)]
  /\ Finish(r)
  /\ UNCHANGED <<user, clock, wrong>>

\* The conditional update, the insert of the next session and COMMIT.
Rotate(r) ==
  LET t == req[r].token IN
  /\ req[r].pc = "rotate"
  /\ \/ ~Active(t) /\ Reject(r)                       \* 401
     \/ /\ Active(t)
        /\ session' = [session EXCEPT
                          ![t].status = "REVOKED",
                          ![r] = Open(session[t].login, t, req[r].now + Ttl)]
        /\ Finish(r)
        /\ UNCHANGED <<user, wrong>>
  /\ UNCHANGED clock

\* An expired session is revoked, if it still is ACTIVE.
Expire(r) ==
  LET t == req[r].token IN
  /\ req[r].pc = "expire"
  /\ IF Active(t) THEN Revoke(t) ELSE UNCHANGED session
  /\ Finish(r)
  /\ UNCHANGED <<user, clock, wrong>>

\* 204, whether or not the session was ACTIVE.
LogOut(r) ==
  /\ req[r].pc = "start"
  /\ \E t \in Token : IF Active(t) THEN Revoke(t) ELSE UNCHANGED session
  /\ Finish(r)
  /\ UNCHANGED <<user, clock, wrong>>

-----------------------------------------------------------------------------

\* Any failure before COMMIT.
Lost(r) ==
  /\ req[r].pc \notin {"start", "done"}
  /\ Reject(r)
  /\ UNCHANGED clock

Tick ==
  /\ clock < MaxTime
  /\ clock' = clock + 1
  /\ UNCHANGED <<user, session, req, wrong>>

LoginStep(r) ==
  LoginRead(r) \/ ResetRead(r) \/ Reset(r) \/ FailRead(r) \/ FailWrite(r) \/ FailAgain(r)

RefreshStep(r) == RefreshRead(r) \/ Rotate(r) \/ Expire(r)

Next ==
  \/ Tick
  \/ \E r \in Setter : SetPin(r)
  \/ \E r \in Login \cup Refresh : Arrive(r) \/ Lost(r)
  \/ \E r \in Login : LoginStep(r)
  \/ \E r \in Refresh : RefreshStep(r)
  \/ \E r \in Logout : LogOut(r)

Spec == Init /\ [][Next]_vars

\* PostgreSQL runs the statements of a transaction in flight.  Nothing is
\* assumed of new requests, of failures or of time.
FairSpec ==
  /\ Spec
  /\ \A r \in Login : WF_vars(LoginStep(r))
  /\ \A r \in Refresh : WF_vars(RefreshStep(r))

-----------------------------------------------------------------------------

\* The counter is the number of wrong PINs since it last restarted, however
\* many logins fail at once (recordFailedPin: no update is lost).
CountsEveryFailure == user.fails = wrong

\* The user is locked exactly when the counter is at its limit: no failure, login
\* or new PIN leaves one without the other.
LockedAtLimit == (user.until # 0) <=> (user.fails = MaxFails)

\* A lock in force ends early only by a login or a new PIN, which also clear the
\* counter: failures that still arrive do not move its end, shorten it or lift it
\* (recordFailedPin looks at locked_until again in its transaction).
LockNotMoved ==
  [][clock < user.until /\ user'.until # user.until => user' = Cleared(user'.hash)]_vars

\* A login opens a session only with the PIN in force when it commits, whatever
\* setPin does between its statements (pinLogin).
SessionFromCurrentPin ==
  [][\A t \in Token :
       session[t].login # session'[t].login /\ session'[t].from = NoToken =>
         NewPin[user.hash] = Given[session'[t].login]]_vars

\* Of the tokens that come from one login by rotations, one at most is ACTIVE,
\* and one that was rotated is not: refreshes that race with one token, a
\* resend, a logout and an expiry never leave two (refresh).
OneActivePerChain ==
  \A t, u \in Token :
    /\ Active(t) /\ Active(u) /\ session[t].login = session[u].login => t = u
    /\ session[u].from = t => ~Active(t)

\* A request that has arrived is answered.
EveryRequestEnds ==
  \A r \in Login \cup Refresh : req[r].pc # "start" ~> req[r].pc = "done"
===============================================================================
