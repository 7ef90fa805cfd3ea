-------------------------------- MODULE MCAuthV2 --------------------------------
(***************************************************************************)
(* Instances of AuthV2 for TLC.                                            *)
(***************************************************************************)
EXTENDS AuthV2, TLC

CONSTANTS p1, p2, s1, s2, l1, l2, l3, l4, r1, r2, o1

\* l1 submits the first PIN of the user, the others the second.
NewPinDef == [s \in Setter |-> IF s = s1 THEN p1 ELSE p2]
GivenDef == [l \in Login |-> IF l = l1 THEN p1 ELSE p2]

\* A PIN that is set and changed beside logins; more wrong PINs than it takes to
\* lock the user; a session that is opened beside a wrong PIN, refreshed twice
\* and closed.
TogetherDef == {Setter \cup {l1, l2, l3}, {s1, l2, l3, l4},
                {s1, l1, l2} \cup Refresh \cup Logout}
===============================================================================
