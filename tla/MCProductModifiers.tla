--------------------------- MODULE MCProductModifiers ---------------------------
(* Two replacements of the modifier groups of a product in opposite orders *)
(* that keep one group, beside an assign, an update that moves a group, a  *)
(* removal and a group that is switched off.                               *)
EXTENDS ProductModifiers

CONSTANTS g1, g2, g3, g4, r1, r2, a1, u1, d1, s1

MCGroup == {g1, g2, g3, g4}
MCFirst == {{}, {g1, g2}}

MCWant == [r \in Replace \cup Assign \cup Update \cup Switch |->
            IF r = r1 THEN <<g1, g3>>
            ELSE IF r = r2 THEN <<g3, g1>>
            ELSE IF r \in Switch THEN FALSE
            ELSE IF r \in Assign THEN g3 ELSE g4]
MCTarget == [r \in Update \cup Remove \cup Switch |->
              IF r \in Switch THEN g3 ELSE g2]
===============================================================================
