------------------------------ MODULE MCSyncBatch ------------------------------
(* A batch of two records that is sent twice, beside a batch that brings   *)
(* one of them again as V1, and one with an invalid record.                *)
EXTENDS SyncBatch, TLC

CONSTANTS a, b, a1, c, bad, d1, d2, d3, d4, ia, ib, ic, s1, u1, u2

MCEntry == {a, b, a1, c, bad}
MCCidOf == [r \in MCEntry |-> IF r \in {a, a1} THEN ia ELSE IF r = b THEN ib ELSE ic]
MCContent == [r \in MCEntry |-> r]
MCSession == [r \in MCEntry |-> IF r \in {b, a1} THEN s1 ELSE NoSession]
MCOutlet == [r \in MCEntry |-> IF r = c THEN u2 ELSE u1]
MCQty == [r \in MCEntry |-> 1]
MCWellFormed == [r \in MCEntry |-> r # bad]
MCBatch == (d1 :> <<a, b>>) @@ (d2 :> <<a, b>>) @@ (d3 :> <<a1>>) @@ (d4 :> <<c, bad>>)

\* d1 and d2 upload the same records.
MCSymmetry == Permutations({d1, d2})
===============================================================================
