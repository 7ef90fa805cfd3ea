------------------------ MODULE ProductModifiers_proofs ------------------------
(***************************************************************************)
(* Proofs about ProductModifiers for any groups and deliveries.            *)
(***************************************************************************)
EXTENDS ProductModifiers, FiniteSetTheorems, TLAPS

USE CallAssumption, DisjointAssumption

-----------------------------------------------------------------------------
(* The invariant.                                                          *)

\* The statements before the first write.
Early == {"check", "group", "other", "aim", "write"}

\* w has written for good: it is none, a committed replacement, or answered ok.
Settled(w) == w \in Writer => pc[w] = "reread" \/ (pc[w] = "done" /\ answer[w] = "ok")

RowsSettled == \A x \in rows : Settled(x.id[1]) /\ Settled(x.flags)
SeenSettled == \A r \in Writer : \A x \in seen[r] : Settled(x.id[1])

Unanswered == \A r \in Call : pc[r] # "done" => answer[r] = "none"

\* What a replacement has inserted is a prefix of what it wants.
PutPrefix(r) ==
  /\ IsFiniteSet(put[r]) /\ Cardinality(put[r]) <= Len(want[r])
  /\ put[r] = {NewRow(r, want[r][i]) : i \in 1..Cardinality(put[r])}
  /\ pc[r] \in Early => put[r] = {}

PutRows == \A r \in Replace : PutPrefix(r)

\* Between its delete and its COMMIT a replacement still has every row that it
\* saw, wherever it is now, and no row that stays has a group it inserts.
Opened(r) ==
  /\ cut[r] \subseteq rows
  /\ \A x \in rows, y \in seen[r] : x.id = y.id => x \in cut[r]
  /\ \A x \in put[r], y \in rows \ cut[r] : x.group # y.group

OpenReady == \A r \in Replace : pc[r] = "insert" => Opened(r)

\* Two replacements neither delete the same row nor insert the same group.
OpenApart ==
  \A q, r \in Replace :
    q # r /\ pc[q] = "insert" /\ pc[r] = "insert" =>
      /\ \A x \in cut[q], y \in cut[r] : x.id # y.id
      /\ \A x \in put[q], y \in put[r] : x.group # y.group

IInv ==
  /\ TypeOK
  /\ RowsSettled /\ SeenSettled /\ Unanswered
  /\ PutRows /\ OpenReady /\ OpenApart
  /\ ReplacedIsGone

LEMMA InitIInv == Init => IInv
<1> SUFFICES ASSUME Init PROVE IInv
  OBVIOUS
<1>1. TypeOK
  <2>1. PICK first \in FirstGroups : rows = {NewRow(NoDelivery, g) : g \in first}
    BY DEF Init
  <2>2. first \subseteq Group
    BY <2>1
  <2>3. rows \subseteq Row /\ \A x, y \in rows : x.group = y.group => x = y
    BY <2>1, <2>2 DEF NewRow, Row
  <2> QED
    BY <2>3 DEF Init, TypeOK, AnswerKind
<1>2. RowsSettled
  BY DEF Init, RowsSettled, Settled, NewRow, Call
<1>3. PutRows
  <2>1. \A r \in Replace : put[r] = {} /\ Len(want[r]) \in Nat
    BY DEF Init, Writer
  <2>2. IsFiniteSet({}) /\ Cardinality({}) = 0 /\ 1..0 = {}
    BY FS_EmptySet
  <2> SUFFICES ASSUME NEW r \in Replace PROVE PutPrefix(r)
    BY DEF PutRows
  <2>3. put[r] = {} /\ Len(want[r]) \in Nat
    BY <2>1
  <2>4. {NewRow(r, want[r][i]) : i \in 1..0} = {}
    BY <2>2
  <2> QED
    BY <2>2, <2>3, <2>4 DEF PutPrefix
<1> QED
  BY <1>1, <1>2, <1>3 DEF Init, IInv, SeenSettled, Unanswered, OpenReady, OpenApart,
     ReplacedIsGone, Committed, Call, Writer

-----------------------------------------------------------------------------
(* The steps that write nothing.                                           *)

\* r goes on; told is what it was told before, or is told now.
Moves(r, label, told) ==
  /\ pc' = [pc EXCEPT ![r] = label]
  /\ answer' = [answer EXCEPT ![r] = told]

\* On to a read or a write, refused, rolled back, or a success that is told.
Quiet(r, label, told) ==
  \/ pc[r] \in Early /\ label \in Early /\ told = "none"
  \/ pc[r] \in Early \cup {"insert"} /\ label = "done" /\ told \in {"notFound", "conflict", "error"}
  \/ r \in Replace /\ pc[r] = "reread" /\ label = "done" /\ told = "ok"
  \/ r \in Switch /\ pc[r] = "check" /\ label = "done" /\ told = "ok"

\* What r does not write is as settled as before.
LEMMA SettledStays ==
  ASSUME IInv, NEW r \in Call, NEW label, NEW told, Moves(r, label, told),
         pc[r] = "reread" => label = "done" /\ told = "ok", pc[r] # "done",
         NEW w, Settled(w)
  PROVE  Settled(w)'
BY DEF IInv, TypeOK, Moves, Settled, Call

LEMMA QuietStep ==
  ASSUME IInv, NEW r \in Call, NEW label, NEW told, Moves(r, label, told),
         Quiet(r, label, told),
         rows' = rows /\ seen' = seen /\ cut' = cut /\ put' = put, active' \subseteq Group
  PROVE  IInv'
<1>1. pc[r] # "done" /\ (pc[r] = "reread" => label = "done" /\ told = "ok") /\ label # "insert"
  BY DEF Quiet, Early
<1>2. \A w : Settled(w) => Settled(w)'
  BY <1>1, SettledStays
<1>3. TypeOK'
  BY DEF IInv, TypeOK, Moves, Quiet, Early, AnswerKind
<1>4. RowsSettled' /\ SeenSettled'
  BY <1>2 DEF IInv, RowsSettled, SeenSettled
<1>5. Unanswered'
  BY DEF IInv, TypeOK, Unanswered, Moves, Quiet, Early
<1>6. \A q \in Replace : pc'[q] \in Early => pc[q] \in Early
  BY DEF IInv, TypeOK, Moves, Quiet, Early, Call, Writer
<1>7. PutRows'
  BY <1>6 DEF IInv, PutRows, PutPrefix
<1>8. \A q \in Replace : pc'[q] = "insert" => pc[q] = "insert"
  BY <1>1 DEF IInv, TypeOK, Moves, Call, Writer
<1>9. OpenReady' /\ OpenApart'
  BY <1>8 DEF IInv, OpenReady, Opened, OpenApart
<1>10. ReplacedIsGone'
  <2>1. \A q \in Replace : Committed(q)' => Committed(q)
    BY DEF IInv, TypeOK, Moves, Quiet, Early, Committed, Call, Writer
  <2> QED
    BY <2>1 DEF IInv, ReplacedIsGone, IdsOf
<1> QED
  BY <1>3, <1>4, <1>5, <1>7, <1>9, <1>10 DEF IInv

-----------------------------------------------------------------------------
(* The steps that write.                                                   *)

LEMMA AimStep ==
  ASSUME IInv, NEW r \in Replace \cup Update \cup Remove, Aim(r)
  PROVE  IInv'
<1>1. r \in Call /\ r \in Writer /\ pc[r] = "aim" /\ answer' = answer
      /\ rows' = rows /\ active' = active /\ cut' = cut /\ put' = put
      /\ pc' = [pc EXCEPT ![r] = "write"]
      /\ seen' = [seen EXCEPT ![r] = {x \in rows : r \in Replace \/ x.group = target[r]}]
  BY DEF Aim, Go, tables, Call, Writer
<1>2. \A w : Settled(w) => Settled(w)'
  BY <1>1 DEF IInv, TypeOK, Settled, Call
<1>3. \A q \in Writer : seen'[q] = seen[q] \/ seen'[q] \subseteq rows
  BY <1>1 DEF IInv, TypeOK
<1>4. TypeOK'
  BY <1>1, <1>3 DEF IInv, TypeOK
<1>5. RowsSettled' /\ SeenSettled'
  BY <1>1, <1>2, <1>3 DEF IInv, RowsSettled, SeenSettled
<1>6. Unanswered'
  BY <1>1 DEF IInv, TypeOK, Unanswered
<1>7. PutRows'
  BY <1>1 DEF IInv, TypeOK, PutRows, PutPrefix, Early, Call, Writer
<1>8. \A q \in Replace : (pc'[q] = "insert" \/ Committed(q)') =>
        q # r /\ (pc'[q] = pc[q] /\ seen'[q] = seen[q])
  BY <1>1 DEF IInv, TypeOK, Unanswered, Committed, Call, Writer
<1>9. OpenReady' /\ OpenApart'
  BY <1>1, <1>8 DEF IInv, OpenReady, Opened, OpenApart
<1>10. ReplacedIsGone'
  BY <1>1, <1>8 DEF IInv, ReplacedIsGone, Committed, IdsOf
<1> QED
  BY <1>4, <1>5, <1>6, <1>7, <1>9, <1>10 DEF IInv

LEMMA DeleteStep ==
  ASSUME IInv, NEW r \in Replace, Delete(r)
  PROVE  IInv'
<1> DEFINE hit == {x \in rows : x.id \in IdsOf(seen[r])}
<1>1. r \in Call /\ r \in Writer /\ pc[r] = "write" /\ ~Locked(r, seen[r])
      /\ answer' = answer /\ rows' = rows /\ active' = active
      /\ seen' = seen /\ put' = put
      /\ pc' = [pc EXCEPT ![r] = "insert"] /\ cut' = [cut EXCEPT ![r] = hit]
  BY DEF Delete, Go, tables, Call, Writer
<1>2. \A w : Settled(w) => Settled(w)'
  BY <1>1 DEF IInv, TypeOK, Settled, Call
<1>3. cut'[r] = hit /\ \A q \in Writer \ {r} : cut'[q] = cut[q]
  BY <1>1 DEF IInv, TypeOK
<1>4. TypeOK'
  BY <1>1 DEF IInv, TypeOK
<1>5. RowsSettled' /\ SeenSettled'
  BY <1>1, <1>2 DEF IInv, RowsSettled, SeenSettled
<1>6. Unanswered'
  BY <1>1 DEF IInv, TypeOK, Unanswered
<1>7. PutRows' /\ put[r] = {}
  BY <1>1 DEF IInv, TypeOK, PutRows, PutPrefix, Early, Call, Writer
<1>8. \A q \in Replace : pc'[q] = "insert" /\ q # r => pc[q] = "insert" /\ q \in Writer
  BY <1>1 DEF IInv, TypeOK, Call, Writer
<1>9. OpenReady'
  <2>1. Opened(r)'
    BY <1>1, <1>3, <1>7 DEF Opened, IdsOf
  <2>2. ASSUME NEW q \in Replace, q # r, pc'[q] = "insert" PROVE Opened(q)'
    BY <1>1, <1>3, <1>8, <2>2 DEF IInv, OpenReady, Opened
  <2> QED
    BY <2>1, <2>2 DEF OpenReady
<1>10. \A q \in Replace \ {r} : pc[q] = "insert" =>
         \A x \in cut[q], y \in hit : x.id # y.id
  <2> SUFFICES ASSUME NEW q \in Replace \ {r}, pc[q] = "insert",
                      NEW x \in cut[q], NEW y \in hit, x.id = y.id
               PROVE  FALSE
    OBVIOUS
  <2>1. x.id \in IdsOf(cut[q]) /\ y.id \in IdsOf(seen[r])
    BY DEF IdsOf
  <2> QED
    BY <1>1, <2>1 DEF Locked, Open
<1>11. OpenApart'
  <2> SUFFICES ASSUME NEW p \in Replace, NEW q \in Replace, p # q,
                      pc'[p] = "insert", pc'[q] = "insert"
               PROVE  (\A x \in cut'[p], y \in cut'[q] : x.id # y.id)
                      /\ (\A x \in put'[p], y \in put'[q] : x.group # y.group)
    BY DEF OpenApart
  <2> HIDE DEF hit
  <2>1. CASE p = r
    BY <1>1, <1>3, <1>7, <1>8, <1>10, <2>1
  <2>2. CASE q = r
    BY <1>1, <1>3, <1>7, <1>8, <1>10, <2>2
  <2>3. CASE p # r /\ q # r
    BY <1>1, <1>3, <1>8, <2>3 DEF IInv, OpenApart
  <2> QED
    BY <2>1, <2>2, <2>3
<1>12. ReplacedIsGone'
  <2>1. \A q \in Replace : Committed(q)' => Committed(q)
    BY <1>1 DEF IInv, TypeOK, Committed, Call, Writer
  <2> QED
    BY <1>1, <2>1 DEF IInv, ReplacedIsGone, IdsOf
<1> QED
  BY <1>4, <1>5, <1>6, <1>7, <1>9, <1>11, <1>12 DEF IInv

\* The row that an insert adds is the next one wanted, and a new one.
LEMMA InsertNext ==
  ASSUME IInv, NEW r \in Replace, Insert(r)
  PROVE  LET n == Cardinality(put[r]) + 1
         IN  /\ n \in 1..Len(want[r]) /\ want[r][n] \in Group
             /\ put' = [put EXCEPT ![r] = put[r] \cup {NewRow(r, want[r][n])}]
             /\ IsFiniteSet(put'[r]) /\ Cardinality(put'[r]) = n
             /\ put'[r] = {NewRow(r, want[r][i]) : i \in 1..n}
<1> DEFINE n == Cardinality(put[r]) + 1
           new == NewRow(r, want[r][n])
<1>1. r \in Writer /\ PutPrefix(r) /\ Cardinality(put[r]) < Len(want[r])
      /\ want[r] \in Seq(Group)
  BY DEF Insert, IInv, PutRows, Writer
<1>2. Cardinality(put[r]) \in Nat /\ Len(want[r]) \in Nat
  BY <1>1, FS_CardinalityType DEF PutPrefix
<1>3. n \in 1..Len(want[r]) /\ want[r][n] \in Group
  BY <1>1, <1>2
<1>4. put' = [put EXCEPT ![r] = put[r] \cup {new}]
  BY DEF Insert
<1>5. put'[r] = put[r] \cup {new}
  BY <1>1, <1>4 DEF IInv, TypeOK
<1>6. new \notin put[r]
  <2> SUFFICES ASSUME NEW i \in 1..Cardinality(put[r]), NewRow(r, want[r][i]) = new
               PROVE  FALSE
    BY <1>1 DEF PutPrefix
  <2>1. want[r][i] = want[r][n]
    BY DEF NewRow
  <2>2. i \in 1..Len(want[r]) /\ i # n
    BY <1>2, <1>3
  <2> QED
    BY <1>3, <2>1, <2>2
<1>7. IsFiniteSet(put'[r]) /\ Cardinality(put'[r]) = n
  <2>1. IsFiniteSet(put[r])
    BY <1>1 DEF PutPrefix
  <2> HIDE DEF new
  <2>2. IsFiniteSet(put[r] \cup {new})
        /\ Cardinality(put[r] \cup {new}) = Cardinality(put[r]) + 1
    BY <1>6, <2>1, FS_AddElement
  <2> QED
    BY <1>5, <2>2
<1>8. 1..n = (1..Cardinality(put[r])) \cup {n}
  BY <1>2
<1>9. put'[r] = {NewRow(r, want[r][i]) : i \in 1..n}
  BY <1>1, <1>5, <1>8 DEF PutPrefix
<1> QED
  BY <1>3, <1>4, <1>7, <1>9

LEMMA InsertStep ==
  ASSUME IInv, NEW r \in Replace, Insert(r)
  PROVE  IInv'
<1> DEFINE n == Cardinality(put[r]) + 1
           g == want[r][n]
           new == NewRow(r, g)
<1>1. r \in Writer /\ r \in Call /\ pc[r] = "insert"
      /\ ~KeyPending(r, g) /\ ~KeyTaken(g, cut[r])
      /\ rows' = rows /\ active' = active /\ pc' = pc /\ seen' = seen /\ cut' = cut
      /\ answer' = answer
  BY DEF Insert, Open, tables, Call, Writer
<1>2. n \in 1..Len(want[r]) /\ g \in Group
      /\ put' = [put EXCEPT ![r] = put[r] \cup {new}]
      /\ IsFiniteSet(put'[r]) /\ Cardinality(put'[r]) = n
      /\ put'[r] = {NewRow(r, want[r][i]) : i \in 1..n}
  BY InsertNext
<1>3. new \in Row /\ new.group = g
  BY <1>1, <1>2 DEF NewRow, Row
<1> HIDE DEF n, g, new
<1>4. put'[r] = put[r] \cup {new} /\ \A q \in Writer \ {r} : put'[q] = put[q]
  BY <1>1, <1>2 DEF IInv, TypeOK
<1>5. TypeOK'
  BY <1>1, <1>2, <1>3 DEF IInv, TypeOK
<1>6. RowsSettled' /\ SeenSettled' /\ Unanswered' /\ ReplacedIsGone'
  BY <1>1 DEF IInv, RowsSettled, SeenSettled, Settled, Unanswered, ReplacedIsGone,
     Committed, IdsOf
<1>7. PutRows'
  <2>1. PutPrefix(r)'
    <3>1. n <= Len(want[r])
      BY <1>2
    <3>2. put'[r] = {NewRow(r, want[r][i]) : i \in 1..Cardinality(put'[r])}
      BY <1>2
    <3> QED
      BY <1>1, <1>2, <3>1, <3>2 DEF PutPrefix, Early
  <2>2. ASSUME NEW q \in Replace, q # r PROVE PutPrefix(q)'
    BY <1>1, <1>4, <2>2 DEF IInv, PutRows, PutPrefix, Writer
  <2> QED
    BY <2>1, <2>2 DEF PutRows
<1>8. \A y \in rows \ cut[r] : y.group # g
  BY <1>1 DEF KeyTaken, GroupsOf
<1>9. \A q \in Replace \ {r} : pc[q] = "insert" => \A y \in put[q] : y.group # g
  BY <1>1 DEF KeyPending, KeyWaits, Open, GroupsOf
<1>10. OpenReady'
  <2> SUFFICES ASSUME NEW q \in Replace, pc[q] = "insert" PROVE Opened(q)'
    BY <1>1 DEF OpenReady
  <2>1. Opened(q) /\ q \in Writer
    BY DEF IInv, OpenReady, Writer
  <2>2. \A x \in put'[q], y \in rows \ cut[q] : x.group # y.group
    BY <1>3, <1>4, <1>8, <2>1 DEF Opened
  <2> QED
    BY <1>1, <2>1, <2>2 DEF Opened
<1>11. OpenApart'
  <2> SUFFICES ASSUME NEW p \in Replace, NEW q \in Replace, p # q,
                      pc[p] = "insert", pc[q] = "insert"
               PROVE  (\A x \in cut[p], y \in cut[q] : x.id # y.id)
                      /\ (\A x \in put'[p], y \in put'[q] : x.group # y.group)
    BY <1>1 DEF OpenApart
  <2>1. (\A x \in cut[p], y \in cut[q] : x.id # y.id)
        /\ (\A x \in put[p], y \in put[q] : x.group # y.group)
        /\ p \in Writer /\ q \in Writer
    BY DEF IInv, OpenApart, Writer
  <2> QED
    BY <1>3, <1>4, <1>9, <2>1
<1> QED
  BY <1>5, <1>6, <1>7, <1>10, <1>11 DEF IInv

LEMMA CommitStep ==
  ASSUME IInv, NEW r \in Replace, Commit(r)
  PROVE  IInv'
<1>1. r \in Writer /\ r \in Call /\ pc[r] = "insert"
      /\ rows' = (rows \ cut[r]) \cup put[r] /\ pc' = [pc EXCEPT ![r] = "reread"]
      /\ active' = active /\ seen' = seen /\ cut' = cut /\ put' = put /\ answer' = answer
  BY DEF Commit, Open, Go, Call, Writer
<1>2. Opened(r) /\ PutPrefix(r)
  BY <1>1 DEF IInv, OpenReady, PutRows
<1>3. \A x \in put[r] : x.id[1] = r /\ x.flags = r
  BY <1>2 DEF PutPrefix, NewRow
<1>4. ~Settled(r) /\ Settled(r)' /\ \A w : Settled(w) => Settled(w)'
  BY <1>1 DEF IInv, TypeOK, Settled, Call
<1>5. \A q \in Writer : \A x \in put[r], y \in seen[q] : x.id # y.id
  BY <1>3, <1>4 DEF IInv, SeenSettled
<1>6. TypeOK'
  <2>1. put[r] \subseteq Row
    BY <1>1 DEF IInv, TypeOK
  <2>2. \A x, y \in put[r] : x.group = y.group => x = y
    BY <1>2 DEF PutPrefix, NewRow
  <2>3. \A x, y \in rows' : x.group = y.group => x = y
    BY <1>1, <1>2, <2>2 DEF IInv, TypeOK, Opened
  <2>4. rows' \subseteq Row
    BY <1>1, <2>1 DEF IInv, TypeOK
  <2> QED
    BY <1>1, <2>3, <2>4 DEF IInv, TypeOK
<1>7. RowsSettled' /\ SeenSettled'
  BY <1>1, <1>3, <1>4 DEF IInv, RowsSettled, SeenSettled
<1>8. Unanswered'
  BY <1>1 DEF IInv, TypeOK, Unanswered
<1>9. PutRows'
  BY <1>1 DEF IInv, TypeOK, PutRows, PutPrefix, Early, Call, Writer
<1>10. \A q \in Replace : pc'[q] = "insert" => pc[q] = "insert" /\ q # r /\ q \in Writer
  BY <1>1 DEF IInv, TypeOK, Call, Writer
<1>11. OpenApart'
  BY <1>1, <1>10 DEF IInv, OpenApart
<1>12. OpenReady'
  <2> SUFFICES ASSUME NEW q \in Replace, pc'[q] = "insert" PROVE Opened(q)'
    BY DEF OpenReady
  <2>1. Opened(q) /\ q \in Writer
        /\ (\A x \in cut[q], y \in cut[r] : x.id # y.id)
        /\ (\A x \in put[q], y \in put[r] : x.group # y.group)
    BY <1>1, <1>10 DEF IInv, OpenReady, OpenApart
  <2>2. cut[q] \subseteq rows'
    BY <1>1, <2>1 DEF Opened
  <2>3. \A x \in rows', y \in seen[q] : x.id = y.id => x \in cut[q]
    BY <1>1, <1>5, <2>1 DEF Opened
  <2>4. \A x \in put[q], y \in rows' \ cut[q] : x.group # y.group
    BY <1>1, <2>1 DEF Opened
  <2> QED
    BY <1>1, <2>2, <2>3, <2>4 DEF Opened
<1>13. ReplacedIsGone'
  <2> SUFFICES ASSUME NEW q \in Replace, Committed(q)',
                      NEW x \in rows', NEW y \in seen[q], x.id = y.id
               PROVE  FALSE
    BY <1>1 DEF ReplacedIsGone, IdsOf
  <2>1. q \in Writer /\ x \in rows \ cut[r]
    BY <1>1, <1>5 DEF Writer
  <2>2. CASE q = r
    BY <1>2, <2>1, <2>2 DEF Opened
  <2>3. CASE q # r
    <3>1. Committed(q)
      BY <1>1, <2>3 DEF IInv, TypeOK, Committed, Call, Writer
    <3> QED
      BY <2>1, <3>1 DEF IInv, ReplacedIsGone, IdsOf
  <2> QED
    BY <2>2, <2>3
<1> QED
  BY <1>6, <1>7, <1>8, <1>9, <1>11, <1>12, <1>13 DEF IInv

LEMMA AssignStep ==
  ASSUME IInv, NEW r \in Assign, AssignWrite(r), ~KeyTaken(want[r], {})
  PROVE  IInv'
<1> DEFINE new == NewRow(r, want[r])
<1>1. r \in Writer /\ r \in Call /\ r \notin Replace /\ pc[r] = "write"
      /\ ~KeyPending(r, want[r]) /\ want[r] \in Group
      /\ rows' = rows \cup {new} /\ pc' = [pc EXCEPT ![r] = "done"]
      /\ answer' = [answer EXCEPT ![r] = "ok"]
      /\ active' = active /\ seen' = seen /\ cut' = cut /\ put' = put
  BY DEF AssignWrite, Tell, Go, Call, Writer
<1>2. new \in Row /\ new.id[1] = r /\ new.group = want[r] /\ new.flags = r
  BY <1>1 DEF NewRow, Row
<1>3. \A y \in rows : y.group # want[r]
  BY DEF KeyTaken, GroupsOf
<1> HIDE DEF new
<1>4. ~Settled(r) /\ Settled(r)' /\ \A w : Settled(w) => Settled(w)'
  BY <1>1 DEF IInv, TypeOK, Settled, Call
<1>5. \A q \in Writer : \A y \in seen[q] : new.id # y.id
  BY <1>2, <1>4 DEF IInv, SeenSettled
<1>6. TypeOK'
  <2>1. rows' \subseteq Row /\ \A x, y \in rows' : x.group = y.group => x = y
    BY <1>1, <1>2, <1>3 DEF IInv, TypeOK
  <2> QED
    BY <1>1, <2>1 DEF IInv, TypeOK, AnswerKind
<1>7. RowsSettled' /\ SeenSettled'
  BY <1>1, <1>2, <1>4 DEF IInv, RowsSettled, SeenSettled
<1>8. Unanswered'
  BY <1>1 DEF IInv, TypeOK, Unanswered
<1>9. \A q \in Replace : q \in Writer /\ q # r /\ pc'[q] = pc[q] /\ answer'[q] = answer[q]
  BY <1>1 DEF IInv, TypeOK, Call, Writer
<1>10. PutRows' /\ OpenApart'
  BY <1>1, <1>9 DEF IInv, PutRows, PutPrefix, OpenApart
<1>11. OpenReady'
  <2> SUFFICES ASSUME NEW q \in Replace, pc[q] = "insert" PROVE Opened(q)'
    BY <1>9 DEF OpenReady
  <2>1. Opened(q) /\ \A x \in put[q] : x.group # want[r]
    BY <1>1, <1>9 DEF IInv, OpenReady, KeyPending, KeyWaits, Open, GroupsOf
  <2> QED
    BY <1>1, <1>2, <1>5, <1>9, <2>1 DEF Opened
<1>12. ReplacedIsGone'
  <2> SUFFICES ASSUME NEW q \in Replace, Committed(q),
                      NEW x \in rows', NEW y \in seen[q], x.id = y.id
               PROVE  FALSE
    BY <1>1, <1>9 DEF ReplacedIsGone, IdsOf, Committed
  <2>1. q \in Writer /\ x \in rows
    BY <1>1, <1>5, <1>9
  <2> QED
    BY <2>1 DEF IInv, ReplacedIsGone, IdsOf
<1> QED
  BY <1>6, <1>7, <1>8, <1>10, <1>11, <1>12 DEF IInv

\* No open replacement has cut a row that another request writes.
LEMMA FoundFree ==
  ASSUME IInv, NEW r \in Update \cup Remove, ~Locked(r, seen[r])
  PROVE  \A q \in Replace : pc[q] = "insert" =>
           \A x \in Found(r), y \in cut[q] : x.id # y.id
<1> SUFFICES ASSUME NEW q \in Replace, pc[q] = "insert",
                    NEW x \in Found(r), NEW y \in cut[q], x.id = y.id
             PROVE  FALSE
  OBVIOUS
<1>1. x.id \in IdsOf(seen[r]) /\ y.id \in IdsOf(cut[q])
  BY DEF Found, IdsOf
<1>2. q \in Replace \ {r}
  OBVIOUS
<1> QED
  BY <1>1, <1>2 DEF Locked, Open

LEMMA RemoveStep ==
  ASSUME IInv, NEW r \in Remove, RemoveWrite(r)
  PROVE  IInv'
<1> DEFINE told == IF Found(r) = {} THEN "error" ELSE "ok"
<1>1. r \in Writer /\ r \in Call /\ r \notin Replace /\ pc[r] = "write"
      /\ ~Locked(r, seen[r])
      /\ rows' = rows \ Found(r) /\ pc' = [pc EXCEPT ![r] = "done"]
      /\ cut' = [cut EXCEPT ![r] = Found(r)]
      /\ answer' = [answer EXCEPT ![r] = told]
      /\ active' = active /\ seen' = seen /\ put' = put
  BY DEF RemoveWrite, Tell, Go, Call, Writer
<1>2. Found(r) \subseteq rows /\ told \in AnswerKind
  BY DEF Found, AnswerKind
<1> HIDE DEF told
<1>3. \A q \in Replace : q \in Writer /\ q # r /\ pc'[q] = pc[q]
        /\ answer'[q] = answer[q] /\ cut'[q] = cut[q]
  BY <1>1 DEF IInv, TypeOK, Call, Writer
<1>4. \A w : Settled(w) => Settled(w)'
  BY <1>1 DEF IInv, TypeOK, Settled, Call
<1>5. TypeOK'
  BY <1>1, <1>2 DEF IInv, TypeOK
<1>6. RowsSettled' /\ SeenSettled'
  BY <1>1, <1>4 DEF IInv, RowsSettled, SeenSettled
<1>7. Unanswered'
  BY <1>1 DEF IInv, TypeOK, Unanswered
<1>8. PutRows' /\ OpenApart'
  BY <1>1, <1>3 DEF IInv, PutRows, PutPrefix, OpenApart
<1>9. OpenReady'
  <2> SUFFICES ASSUME NEW q \in Replace, pc[q] = "insert" PROVE Opened(q)'
    BY <1>3 DEF OpenReady
  <2>1. Opened(q) /\ \A x \in Found(r), y \in cut[q] : x.id # y.id
    BY <1>1, FoundFree DEF IInv, OpenReady
  <2> QED
    BY <1>1, <1>3, <2>1 DEF Opened
<1>10. ReplacedIsGone'
  <2> SUFFICES ASSUME NEW q \in Replace, Committed(q),
                      NEW x \in rows', NEW y \in seen[q], x.id = y.id
               PROVE  FALSE
    BY <1>1, <1>3 DEF ReplacedIsGone, IdsOf, Committed
  <2>1. x \in rows
    BY <1>1
  <2> QED
    BY <2>1 DEF IInv, ReplacedIsGone, IdsOf
<1> QED
  BY <1>5, <1>6, <1>7, <1>8, <1>9, <1>10 DEF IInv

LEMMA UpdateStep ==
  ASSUME IInv, NEW r \in Update, UpdateWrite(r),
         Found(r) # {}, ~KeyTaken(want[r], Found(r))
  PROVE  IInv'
<1> DEFINE Moved(x) == [id |-> x.id, group |-> want[r], flags |-> r]
           moved == {Moved(x) : x \in Found(r)}
<1>1. r \in Writer /\ r \in Call /\ r \notin Replace /\ pc[r] = "write"
      /\ ~Locked(r, seen[r]) /\ ~KeyPending(r, want[r]) /\ want[r] \in Group
      /\ rows' = (rows \ Found(r)) \cup moved /\ pc' = [pc EXCEPT ![r] = "done"]
      /\ answer' = [answer EXCEPT ![r] = "ok"]
      /\ active' = active /\ seen' = seen /\ cut' = cut /\ put' = put
  BY DEF UpdateWrite, Tell, Go, Call, Writer
<1>2. Found(r) \subseteq rows /\ \A x, y \in Found(r) : x = y
  BY DEF Found, IInv, TypeOK
<1>3. \A z \in moved : z \in Row /\ z.group = want[r] /\ z.flags = r
                      /\ \E x \in Found(r) : z.id = x.id
  BY <1>1, <1>2 DEF Row, IInv, TypeOK
<1>4. \A y \in rows \ Found(r) : y.group # want[r]
  BY DEF KeyTaken, GroupsOf
<1>5. \A y, z \in moved : y = z
  BY <1>2
<1> HIDE DEF moved
<1>6. \A q \in Replace : q \in Writer /\ q # r /\ pc'[q] = pc[q] /\ answer'[q] = answer[q]
  BY <1>1 DEF IInv, TypeOK, Call, Writer
<1>7. Settled(r)' /\ \A w : Settled(w) => Settled(w)'
  BY <1>1 DEF IInv, TypeOK, Settled, Call
<1>8. \A x \in rows' : \E y \in rows : x.id = y.id
  BY <1>1, <1>2, <1>3
<1>9. TypeOK'
  <2>1. rows' \subseteq Row
    BY <1>1, <1>3 DEF IInv, TypeOK
  <2>2. \A x, y \in rows' : x.group = y.group => x = y
    BY <1>1, <1>3, <1>4, <1>5 DEF IInv, TypeOK
  <2> QED
    BY <1>1, <2>1, <2>2 DEF IInv, TypeOK, AnswerKind
<1>10. RowsSettled' /\ SeenSettled'
  <2>1. \A x \in rows' : Settled(x.id[1]) /\ (x \in rows \/ x.flags = r)
    BY <1>1, <1>3, <1>8 DEF IInv, RowsSettled
  <2> QED
    BY <1>1, <1>7, <2>1 DEF IInv, RowsSettled, SeenSettled
<1>11. Unanswered'
  BY <1>1 DEF IInv, TypeOK, Unanswered
<1>12. PutRows' /\ OpenApart'
  BY <1>1, <1>6 DEF IInv, PutRows, PutPrefix, OpenApart
<1>13. OpenReady'
  <2> SUFFICES ASSUME NEW q \in Replace, pc[q] = "insert" PROVE Opened(q)'
    BY <1>6 DEF OpenReady
  <2>1. Opened(q) /\ q \in Writer /\ \A x \in Found(r), y \in cut[q] : x.id # y.id
    BY <1>1, <1>6, FoundFree DEF IInv, OpenReady
  <2>2. \A x \in put[q] : x.group # want[r]
    BY <1>1, <1>6 DEF KeyPending, KeyWaits, Open, GroupsOf
  <2>3. \A z \in moved, y \in seen[q] : z.id # y.id
    BY <1>2, <1>3, <2>1 DEF Opened
  <2>4. cut[q] \subseteq rows'
    BY <1>1, <2>1 DEF Opened
  <2>5. \A x \in rows', y \in seen[q] : x.id = y.id => x \in cut[q]
    BY <1>1, <2>1, <2>3 DEF Opened
  <2>6. \A x \in put[q], y \in rows' \ cut[q] : x.group # y.group
    BY <1>1, <1>3, <2>1, <2>2 DEF Opened
  <2> QED
    BY <1>1, <2>4, <2>5, <2>6 DEF Opened
<1>14. ReplacedIsGone'
  <2> SUFFICES ASSUME NEW q \in Replace, Committed(q),
                      NEW x \in rows', NEW y \in seen[q], x.id = y.id
               PROVE  FALSE
    BY <1>1, <1>6 DEF ReplacedIsGone, IdsOf, Committed
  <2> QED
    BY <1>8 DEF IInv, ReplacedIsGone, IdsOf
<1> QED
  BY <1>9, <1>10, <1>11, <1>12, <1>13, <1>14 DEF IInv

-----------------------------------------------------------------------------
(* Every step.                                                             *)

Refusal == {"notFound", "conflict", "error"}

\* A request that has written nothing goes on, or is refused.
LEMMA ReadStep ==
  ASSUME IInv, NEW r \in Call, NEW label \in Early, NEW told \in Refusal,
         pc[r] \in Early \cup {"insert"}, pc[r] = "insert" => Tell(r, told),
         (Go(r, label) /\ answer' = answer) \/ Tell(r, told),
         rows' = rows /\ active' = active /\ seen' = seen /\ cut' = cut /\ put' = put
  PROVE  IInv'
<1>1. active' \subseteq Group
  BY DEF IInv, TypeOK
<1>2. CASE Tell(r, told)
  <2>1. Moves(r, "done", told) /\ Quiet(r, "done", told)
    BY <1>2 DEF Tell, Go, Moves, Quiet, Refusal
  <2> QED
    BY <1>1, <2>1, QuietStep
<1>3. CASE Go(r, label) /\ answer' = answer /\ pc[r] \in Early
  <2>1. answer[r] = "none"
    BY <1>3 DEF IInv, Unanswered, Early
  <2>2. answer' = [answer EXCEPT ![r] = "none"]
    BY <1>3, <2>1 DEF IInv, TypeOK
  <2>3. Moves(r, label, "none") /\ Quiet(r, label, "none")
    BY <1>3, <2>2 DEF Go, Moves, Quiet
  <2> QED
    BY <1>1, <2>3, QuietStep
<1> QED
  BY <1>2, <1>3

LEMMA ReplaceStep ==
  ASSUME IInv, NEW r \in Replace, ServeReplace(r) \/ Fail(r)
  PROVE  IInv'
<1>1. r \in Call
  BY DEF Call, Writer
<1>2. CASE ReplaceCheck(r)
  BY <1>1, <1>2, ReadStep DEF ReplaceCheck, Read, tables, Early, Refusal
<1>3. CASE Aim(r)
  BY <1>3, AimStep
<1>4. CASE Delete(r)
  BY <1>4, DeleteStep
<1>5. CASE Insert(r)
  BY <1>5, InsertStep
<1>6. CASE InsertTaken(r) \/ BreakDeadlock(r) \/ Fail(r)
  <2>1. Rollback(r) /\ pc[r] \in {"write", "insert"}
    BY <1>6 DEF InsertTaken, BreakDeadlock, Fail, Deadlocked, WaitsFor, Open
  <2> QED
    BY <1>1, <2>1, ReadStep DEF Rollback, tables, Early, Refusal
<1>7. CASE Commit(r)
  BY <1>7, CommitStep
<1>8. CASE Reread(r)
  <2>1. Moves(r, "done", "ok") /\ Quiet(r, "done", "ok") /\ active' \subseteq Group
    BY <1>8 DEF Reread, Tell, Go, Moves, Quiet, tables, IInv, TypeOK
  <2> QED
    BY <1>1, <1>8, <2>1, QuietStep DEF Reread, tables
<1> QED
  BY <1>2, <1>3, <1>4, <1>5, <1>6, <1>7, <1>8 DEF ServeReplace

LEMMA AssignServed ==
  ASSUME IInv, NEW r \in Assign, ServeAssign(r)
  PROVE  IInv'
<1>1. r \in Call
  BY DEF Call, Writer
<1>2. CASE AssignCheck(r)
  BY <1>1, <1>2, ReadStep DEF AssignCheck, Read, tables, Early, Refusal
<1>3. CASE AssignWrite(r) /\ KeyTaken(want[r], {})
  BY <1>1, <1>3, ReadStep DEF AssignWrite, Early, Refusal
<1>4. CASE AssignWrite(r) /\ ~KeyTaken(want[r], {})
  BY <1>4, AssignStep
<1> QED
  BY <1>2, <1>3, <1>4 DEF ServeAssign

LEMMA FindStep ==
  ASSUME IInv, NEW r \in Update \cup Remove, FindAssignment(r)
  PROVE  IInv'
<1>1. r \in Call
  BY DEF Call, Writer
<1> DEFINE label == IF r \in Update THEN "group" ELSE "aim"
<1>2. label \in Early
  BY DEF Early
<1>3. pc[r] = "check" /\ ((Go(r, label) /\ answer' = answer) \/ Tell(r, "notFound"))
      /\ rows' = rows /\ active' = active /\ seen' = seen /\ cut' = cut /\ put' = put
  BY DEF FindAssignment, Read, tables
<1> HIDE DEF label
<1> QED
  BY <1>1, <1>2, <1>3, ReadStep DEF Early, Refusal

LEMMA UpdateServed ==
  ASSUME IInv, NEW r \in Update, ServeUpdate(r)
  PROVE  IInv'
<1>1. r \in Call
  BY DEF Call, Writer
<1>2. CASE FindAssignment(r)
  BY <1>2, FindStep
<1>3. CASE UpdateGroup(r)
  <2> DEFINE label == IF want[r] = target[r] THEN "aim" ELSE "other"
  <2>1. label \in Early
    BY DEF Early
  <2>2. pc[r] = "group" /\ ((Go(r, label) /\ answer' = answer) \/ Tell(r, "notFound"))
        /\ rows' = rows /\ active' = active /\ seen' = seen /\ cut' = cut /\ put' = put
    BY <1>3 DEF UpdateGroup, Read, tables
  <2> HIDE DEF label
  <2> QED
    BY <1>1, <2>1, <2>2, ReadStep DEF Early, Refusal
<1>4. CASE UpdateOther(r)
  BY <1>1, <1>4, ReadStep DEF UpdateOther, Read, tables, Early, Refusal
<1>5. CASE Aim(r)
  BY <1>5, AimStep
<1>6. CASE UpdateWrite(r) /\ (Found(r) = {} \/ KeyTaken(want[r], Found(r)))
  <2>1. pc[r] = "write" /\ rows' = rows /\ active' = active /\ seen' = seen
        /\ cut' = cut /\ put' = put /\ (Tell(r, "error") \/ Tell(r, "conflict"))
    BY <1>6 DEF UpdateWrite
  <2> QED
    BY <1>1, <2>1, ReadStep DEF Early, Refusal
<1>7. CASE UpdateWrite(r) /\ Found(r) # {} /\ ~KeyTaken(want[r], Found(r))
  BY <1>7, UpdateStep
<1> QED
  BY <1>2, <1>3, <1>4, <1>5, <1>6, <1>7 DEF ServeUpdate

LEMMA SwitchStep ==
  ASSUME IInv, NEW r \in Switch, SwitchGroup(r)
  PROVE  IInv'
<1>1. r \in Call /\ active' \subseteq Group
  BY DEF SwitchGroup, Call, IInv, TypeOK
<1>2. Moves(r, "done", "ok") /\ Quiet(r, "done", "ok")
  BY DEF SwitchGroup, Tell, Go, Moves, Quiet
<1> QED
  BY <1>1, <1>2, QuietStep DEF SwitchGroup

LEMMA NextIInv == IInv /\ [Next]_vars => IInv'
<1> SUFFICES ASSUME IInv, [Next]_vars PROVE IInv'
  OBVIOUS
<1>1. ASSUME NEW r \in Replace, ServeReplace(r) \/ Fail(r) PROVE IInv'
  BY <1>1, ReplaceStep
<1>2. ASSUME NEW r \in Assign, ServeAssign(r) PROVE IInv'
  BY <1>2, AssignServed
<1>3. ASSUME NEW r \in Update, ServeUpdate(r) PROVE IInv'
  BY <1>3, UpdateServed
<1>4. ASSUME NEW r \in Remove, ServeRemove(r) PROVE IInv'
  BY <1>4, FindStep, AimStep, RemoveStep DEF ServeRemove
<1>5. ASSUME NEW r \in Switch, SwitchGroup(r) PROVE IInv'
  BY <1>5, SwitchStep
<1>6. CASE UNCHANGED vars
  <2>1. rows' = rows /\ active' = active /\ pc' = pc /\ seen' = seen
        /\ cut' = cut /\ put' = put /\ answer' = answer
    BY <1>6 DEF vars
  <2>2. TypeOK' /\ Unanswered'
    BY <2>1 DEF IInv, TypeOK, Unanswered
  <2>3. RowsSettled' /\ SeenSettled'
    BY <2>1 DEF IInv, RowsSettled, SeenSettled, Settled
  <2>4. PutRows' /\ OpenReady' /\ OpenApart'
    BY <2>1 DEF IInv, PutRows, PutPrefix, OpenReady, Opened, OpenApart
  <2>5. ReplacedIsGone'
    BY <2>1 DEF IInv, ReplacedIsGone, Committed, IdsOf
  <2> QED
    BY <2>2, <2>3, <2>4, <2>5 DEF IInv
<1> QED
  BY <1>1, <1>2, <1>3, <1>4, <1>5, <1>6 DEF Next

LEMMA Inductive == Spec => []IInv
BY InitIInv, NextIInv, PTL DEF Spec

-----------------------------------------------------------------------------
(* What follows.                                                           *)

\* The rows of a product are well formed, and no group is assigned to it
\* twice, whatever requests run beside each other.
THEOREM TypeCorrect == Spec => []TypeOK
<1>1. IInv => TypeOK
  BY DEF IInv
<1> QED
  BY <1>1, Inductive, PTL

\* A replacement that commits has removed every assignment that it saw, even
\* one that an update moved to another group in between.
THEOREM ReplacedGone == Spec => []ReplacedIsGone
<1>1. IInv => ReplacedIsGone
  BY DEF IInv
<1> QED
  BY <1>1, Inductive, PTL

\* A refused, failed or rolled back request leaves no row and no flag behind.
THEOREM RefusedLeft == Spec => []RefusedLeavesNothing
<1>1. ASSUME IInv PROVE RefusedLeavesNothing
  <2> SUFFICES ASSUME NEW r \in Writer, answer[r] \in Refusal, NEW x \in rows
               PROVE  x.flags # r /\ x.id[1] # r
    BY DEF RefusedLeavesNothing, Refusal
  <2>1. ~Settled(r)
    BY <1>1 DEF IInv, Unanswered, Settled, Refusal, Call
  <2> QED
    BY <1>1, <2>1 DEF IInv, RowsSettled
<1> QED
  BY <1>1, Inductive, PTL

\* A group that every replacement keeps, and that no update or removal names,
\* never disappears from a product, not even between two statements.
THEOREM KeptStays == Spec => KeptGroupStays
<1> DEFINE Stays == \A g \in GroupsOf(rows) : Kept(g) => g \in GroupsOf(rows)'
<1>1. ASSUME IInv, [Next]_vars PROVE Stays
  <2> SUFFICES ASSUME NEW x \in rows, Kept(x.group)
               PROVE  \E y \in rows' : y.group = x.group
    BY DEF GroupsOf
  <2>1. CASE x \in rows'
    BY <2>1
  <2>2. ASSUME NEW r \in Replace, Commit(r) PROVE \E y \in rows' : y.group = x.group
    <3>1. put[r] \subseteq rows' /\ Cardinality(put[r]) = Len(want[r]) /\ PutPrefix(r)
      BY <1>1, <2>2 DEF Commit, IInv, PutRows
    <3>2. PICK i \in 1..Len(want[r]) : want[r][i] = x.group
      BY DEF Kept, Wanted
    <3>3. NewRow(r, want[r][i]) \in put[r]
      BY <3>1 DEF PutPrefix
    <3> QED
      BY <3>1, <3>2, <3>3 DEF NewRow
  <2>3. ASSUME NEW r \in Update \cup Remove, rows \ Found(r) \subseteq rows'
        PROVE  x \in rows'
    BY <2>3 DEF Found, Kept
  <2>4. CASE rows' # rows
    <3>1. \/ \E r \in Replace : Commit(r)
          \/ \E r \in Assign : AssignWrite(r)
          \/ \E r \in Update : UpdateWrite(r)
          \/ \E r \in Remove : RemoveWrite(r)
      BY <1>1, <2>4 DEF Next, vars, tables, ServeReplace, ServeAssign, ServeUpdate, ServeRemove,
         ReplaceCheck, Read, Aim, Delete, Insert, InsertTaken, Rollback, Reread,
         BreakDeadlock, Fail, AssignCheck, FindAssignment, UpdateGroup, UpdateOther, SwitchGroup
    <3>2. ASSUME NEW r \in Assign, AssignWrite(r) PROVE x \in rows'
      BY <3>2 DEF AssignWrite
    <3>3. ASSUME NEW r \in Update, UpdateWrite(r) PROVE rows \ Found(r) \subseteq rows'
      BY <3>3 DEF UpdateWrite
    <3>4. ASSUME NEW r \in Remove, RemoveWrite(r) PROVE rows \ Found(r) \subseteq rows'
      BY <3>4 DEF RemoveWrite
    <3> QED
      BY <2>2, <2>3, <3>1, <3>2, <3>3, <3>4
  <2> QED
    BY <2>1, <2>4
<1>2. IInv /\ [Next]_vars => [Stays]_vars
  BY <1>1
<1> QED
  BY <1>2, Inductive, PTL DEF Spec, KeptGroupStays
===============================================================================
