---------------------------- MODULE ProductModifiers ----------------------------
(***************************************************************************)
(* The modifier groups of one product, edited by several requests at once  *)
(* (ProductsService: replaceModifierGroups, assignModifierGroup,           *)
(* updateModifierGroupAssignment, removeModifierGroup), beside requests    *)
(* that switch modifier groups on and off (ModifierGroupsService).         *)
(*                                                                         *)
(* Every statement is READ COMMITTED and commits by itself, but for the    *)
(* deleteMany and createMany of a replacement, which are one transaction.  *)
(* A statement takes its snapshot first and then waits for locked rows: it *)
(* meets what became of the rows of its snapshot, and no row that was      *)
(* inserted since.  A waiting statement of a request without a transaction *)
(* is taken to hold nothing; the deadlocks that this leaves out end as     *)
(* Fail does.                                                              *)
(***************************************************************************)
EXTENDS Naturals, Sequences, FiniteSets

CONSTANTS
  Group,
  Replace, Assign, Update, Remove, \* deliveries of the four operations
  Switch,     \* of PATCH and DELETE /modifier-groups/:id
  want,       \* want[r]: the groups of a replacement, in its order; the group
              \* that an assign or an update puts; what a switch makes of is_active
  target,     \* target[u]: the group in the path
  FirstGroups, \* the assignments that the product may have at first
  FirstActive,
  NoDelivery  \* the rows that are there first have been put by none

VARIABLES
  rows,       \* the committed product_modifier_groups of the product
  active,     \* the modifier groups with is_active
  pc,
  seen,       \* seen[r]: the rows in the snapshot of a write
  cut, put,   \* cut[r], put[r]: the rows that r deletes and inserts
  answer

vars == <<rows, active, pc, seen, cut, put, answer>>
tables == <<rows, active>>

Writer == Replace \cup Assign \cup Update \cup Remove
Call == Writer \cup Switch

ASSUME CallAssumption ==
  /\ \A r \in Replace :
       /\ want[r] \in Seq(Group)
       /\ \A i, j \in 1..Len(want[r]) : want[r][i] = want[r][j] => i = j
  /\ \A r \in Assign \cup Update : want[r] \in Group
  /\ \A r \in Switch : want[r] \in BOOLEAN
  /\ \A r \in Update \cup Remove \cup Switch : target[r] \in Group
  /\ FirstGroups \subseteq SUBSET Group /\ FirstActive \subseteq Group
  /\ NoDelivery \notin Call

ASSUME DisjointAssumption ==
  /\ Replace \cap (Assign \cup Update \cup Remove) = {}
  /\ Assign \cap (Update \cup Remove) = {} /\ Update \cap Remove = {}
  /\ Writer \cap Switch = {}

-----------------------------------------------------------------------------

\* id: which delivery inserted the row, and for which group; group: its key,
\* which an update moves; flags: who set required and selection_type last.
NewRow(r, g) == [id |-> <<r, g>>, group |-> g, flags |-> r]
Row == [id : (Writer \cup {NoDelivery}) \X Group, group : Group,
        flags : Writer \cup {NoDelivery}]

IdsOf(set) == {x.id : x \in set}
GroupsOf(set) == {x.group : x \in set}
Wanted(r) == {want[r][i] : i \in 1..Len(want[r])}

\* "error": a 500, for P2002, P2003, P2025 or P2034 that nothing maps.
AnswerKind == {"none", "ok", "notFound", "conflict", "error"}

TypeOK ==
  /\ rows \subseteq Row
  /\ \A x, y \in rows : x.group = y.group => x = y  \* the unique key
  /\ active \subseteq Group
  /\ pc \in [Call -> {"check", "group", "other", "aim", "write", "insert",
                      "reread", "done"}]
  /\ seen \in [Writer -> SUBSET Row]
  /\ cut \in [Writer -> SUBSET Row] /\ put \in [Writer -> SUBSET Row]
  /\ answer \in [Call -> AnswerKind]

Init ==
  /\ \E first \in FirstGroups : rows = {NewRow(NoDelivery, g) : g \in first}
  /\ active = FirstActive
  /\ pc = [r \in Call |-> "check"]
  /\ seen = [r \in Writer |-> {}]
  /\ cut = [r \in Writer |-> {}] /\ put = [r \in Writer |-> {}]
  /\ answer = [r \in Call |-> "none"]

-----------------------------------------------------------------------------

Go(r, label) == pc' = [pc EXCEPT ![r] = label]

Tell(r, told) ==
  /\ Go(r, "done")
  /\ answer' = [answer EXCEPT ![r] = told]

\* A read: on to the next statement, or the end of the request.
Read(r, holds, label, told) ==
  /\ IF holds THEN Go(r, label) /\ UNCHANGED answer ELSE Tell(r, told)
  /\ UNCHANGED <<tables, seen, cut, put>>

\* A replacement that has deleted and not yet committed holds its rows.
Open(q) == q \in Replace /\ pc[q] = "insert"
Locked(r, set) == \E q \in Replace \ {r} : Open(q) /\ IdsOf(cut[q]) \cap IdsOf(set) # {}

\* The unique key of a group: who waits for an open replacement to decide it.
KeyWaits(r, g, q) == q # r /\ Open(q) /\ g \in GroupsOf(cut[q] \cup put[q])
KeyPending(r, g) == \E q \in Replace : KeyWaits(r, g, q)
KeyTaken(g, but) == g \in GroupsOf(rows \ but)

-----------------------------------------------------------------------------
\* PUT /products/:product_id/modifier-groups

ReplaceCheck(r) ==
  /\ r \in Replace /\ pc[r] = "check"
  /\ Read(r, Wanted(r) \subseteq active, "aim", "notFound")

\* A write takes its snapshot; seen[r] is what it is to delete or update.
Aim(r) ==
  /\ r \in Replace \cup Update \cup Remove /\ pc[r] = "aim"
  /\ seen' = [seen EXCEPT ![r] =
                {x \in rows : r \in Replace \/ x.group = target[r]}]
  /\ Go(r, "write")
  /\ UNCHANGED <<tables, cut, put, answer>>

\* Broken variant: rows that were updated since the snapshot are missed.
DeleteUnmoved(r) ==
  /\ r \in Replace /\ pc[r] = "write"
  /\ ~Locked(r, seen[r])
  /\ cut' = [cut EXCEPT ![r] = rows \cap seen[r]]
  /\ Go(r, "insert")
  /\ UNCHANGED <<tables, seen, put, answer>>

\* Broken variant: the delete is not in the transaction of the inserts.
DeleteAtOnce(r) ==
  /\ r \in Replace /\ pc[r] = "write"
  /\ ~Locked(r, seen[r])
  /\ cut' = [cut EXCEPT ![r] = {x \in rows : x.id \in IdsOf(seen[r])}]
  /\ rows' = {x \in rows : x.id \notin IdsOf(seen[r])}
  /\ Go(r, "insert")
  /\ UNCHANGED <<active, seen, put, answer>>

\* deleteMany
Delete(r) ==
  /\ r \in Replace /\ pc[r] = "write"
  /\ ~Locked(r, seen[r])
  /\ cut' = [cut EXCEPT ![r] = {x \in rows : x.id \in IdsOf(seen[r])}]
  /\ Go(r, "insert")
  /\ UNCHANGED <<tables, seen, put, answer>>

\* createMany, row after row in the order of the request.
Insert(r) ==
  /\ Open(r) /\ Cardinality(put[r]) < Len(want[r])
  /\ LET g == want[r][Cardinality(put[r]) + 1] IN
     /\ ~KeyPending(r, g) /\ ~KeyTaken(g, cut[r])
     /\ put' = [put EXCEPT ![r] = @ \cup {NewRow(r, g)}]
  /\ UNCHANGED <<tables, pc, seen, cut, answer>>

\* Broken variant: what was inserted before the failure stays.
RollbackKeeps(r) ==
  /\ rows' = rows \cup put[r]
  /\ Tell(r, "error")
  /\ UNCHANGED <<active, seen, cut, put>>

Rollback(r) == Tell(r, "error") /\ UNCHANGED <<tables, seen, cut, put>>

\* P2002, which replaceModifierGroups does not catch.
InsertTaken(r) ==
  /\ Open(r) /\ Cardinality(put[r]) < Len(want[r])
  /\ LET g == want[r][Cardinality(put[r]) + 1] IN
     ~KeyPending(r, g) /\ KeyTaken(g, cut[r])
  /\ Rollback(r)

Commit(r) ==
  /\ Open(r) /\ Cardinality(put[r]) = Len(want[r])
  /\ rows' = (rows \ cut[r]) \cup put[r]
  /\ Go(r, "reread")
  /\ UNCHANGED <<active, seen, cut, put, answer>>

\* getModifierGroups, for the response: of the assignments at that moment.
Reread(r) ==
  /\ r \in Replace /\ pc[r] = "reread"
  /\ Tell(r, "ok")
  /\ UNCHANGED <<tables, seen, cut, put>>

\* x waits for y, both replacements: for rows to delete, or for a key.
WaitsFor(x, y) ==
  \/ pc[x] = "write" /\ y # x /\ Open(y) /\ IdsOf(cut[y]) \cap IdsOf(seen[x]) # {}
  \/ /\ Open(x) /\ Cardinality(put[x]) < Len(want[x])
     /\ KeyWaits(x, want[x][Cardinality(put[x]) + 1], y)

\* Everyone of a set waits for one of it: PostgreSQL aborts one.
Deadlocked(set) == \A x \in set : \E y \in set : WaitsFor(x, y)

BreakDeadlock(r) ==
  /\ \E set \in SUBSET Replace : r \in set /\ Deadlocked(set)
  /\ Rollback(r)

\* A connection that is lost, or a transaction that times out.
Fail(r) == r \in Replace /\ pc[r] \in {"write", "insert"} /\ Rollback(r)

-----------------------------------------------------------------------------
\* POST /products/:product_id/modifier-groups

AssignCheck(r) ==
  /\ r \in Assign /\ pc[r] = "check"
  /\ Read(r, want[r] \in active, "write", "notFound")

AssignWrite(r) ==
  /\ r \in Assign /\ pc[r] = "write" /\ ~KeyPending(r, want[r])
  /\ IF KeyTaken(want[r], {})
     THEN Tell(r, "conflict") /\ UNCHANGED rows
     ELSE Tell(r, "ok") /\ rows' = rows \cup {NewRow(r, want[r])}
  /\ UNCHANGED <<active, seen, cut, put>>

-----------------------------------------------------------------------------
\* PATCH and DELETE /products/:product_id/modifier-groups/:group_id

FindAssignment(r) ==
  /\ r \in Update \cup Remove /\ pc[r] = "check"
  /\ Read(r, target[r] \in GroupsOf(rows), IF r \in Update THEN "group" ELSE "aim", "notFound")

UpdateGroup(r) ==
  /\ r \in Update /\ pc[r] = "group"
  /\ Read(r, want[r] \in active, IF want[r] = target[r] THEN "aim" ELSE "other", "notFound")

UpdateOther(r) ==
  /\ r \in Update /\ pc[r] = "other"
  /\ Read(r, want[r] \notin GroupsOf(rows), "aim", "conflict")

\* What is left of the row that an update or a removal has found.
Found(r) == {x \in rows : x.id \in IdsOf(seen[r]) /\ x.group = target[r]}

UpdateWrite(r) ==
  /\ r \in Update /\ pc[r] = "write" /\ ~Locked(r, seen[r])
  /\ \/ Found(r) = {} /\ Tell(r, "error") /\ UNCHANGED rows
     \/ /\ Found(r) # {} /\ ~KeyPending(r, want[r])
        /\ IF KeyTaken(want[r], Found(r))
           THEN Tell(r, "conflict") /\ UNCHANGED rows
           ELSE /\ Tell(r, "ok")
                /\ rows' = (rows \ Found(r)) \cup
                     {[id |-> x.id, group |-> want[r], flags |-> r] : x \in Found(r)}
  /\ UNCHANGED <<active, seen, cut, put>>

RemoveWrite(r) ==
  /\ r \in Remove /\ pc[r] = "write" /\ ~Locked(r, seen[r])
  /\ cut' = [cut EXCEPT ![r] = Found(r)]
  /\ rows' = rows \ Found(r)
  /\ Tell(r, IF Found(r) = {} THEN "error" ELSE "ok")
  /\ UNCHANGED <<active, seen, put>>

-----------------------------------------------------------------------------
\* PATCH and DELETE /modifier-groups/:id; groups are never deleted.

SwitchGroup(r) ==
  /\ r \in Switch /\ pc[r] = "check"
  /\ active' = IF want[r] THEN active \cup {target[r]} ELSE active \ {target[r]}
  /\ Tell(r, "ok")
  /\ UNCHANGED <<rows, seen, cut, put>>

-----------------------------------------------------------------------------

ServeReplace(r) ==
  ReplaceCheck(r) \/ Aim(r) \/ Delete(r) \/ Insert(r) \/ InsertTaken(r)
    \/ Commit(r) \/ Reread(r) \/ BreakDeadlock(r)
ServeAssign(r) == AssignCheck(r) \/ AssignWrite(r)
ServeUpdate(r) == FindAssignment(r) \/ UpdateGroup(r) \/ UpdateOther(r) \/ Aim(r) \/ UpdateWrite(r)
ServeRemove(r) == FindAssignment(r) \/ Aim(r) \/ RemoveWrite(r)

Next ==
  \/ \E r \in Replace : ServeReplace(r) \/ Fail(r)
  \/ \E r \in Assign : ServeAssign(r)
  \/ \E r \in Update : ServeUpdate(r)
  \/ \E r \in Remove : ServeRemove(r)
  \/ \E r \in Switch : SwitchGroup(r)

Spec == Init /\ [][Next]_vars

-----------------------------------------------------------------------------

Committed(r) == r \in Replace /\ (pc[r] = "reread" \/ answer[r] = "ok")

\* What a replacement saw when it began to delete is gone once it commits,
\* wherever updates have moved it meanwhile (replaceModifierGroups).
ReplacedIsGone ==
  \A r \in Replace : Committed(r) => IdsOf(rows) \cap IdsOf(seen[r]) = {}

\* A group that every replacement keeps and that nobody removes is assigned
\* at every moment from its first assignment on: no sale meets the product
\* without it.  The $transaction of replaceModifierGroups is what this rests on.
Kept(g) ==
  /\ \A r \in Replace : g \in Wanted(r)
  /\ \A r \in Update \cup Remove : target[r] # g

KeptGroupStays ==
  [][\A g \in GroupsOf(rows) : Kept(g) => g \in GroupsOf(rows)']_vars

\* A request that was refused or that failed has left nothing in the table.
RefusedLeavesNothing ==
  \A r \in Writer : answer[r] \in {"notFound", "conflict", "error"} =>
    \A x \in rows : x.flags # r /\ x.id[1] # r

===============================================================================
