---------------------------- MODULE MCHeldCheckout ----------------------------
(* Conversions of o1 under i1, and under i2 at the version that an edit    *)
(* leaves, beside a cancellation and a direct sale under i2 of what o1     *)
(* holds first; conversions of two orders under i2.                        *)
EXTENDS HeldCheckout

CONSTANTS o1, o2, i1, i2, k1, k2, k3, k4, d1, e1, e2, noodles, coffee

MCOrder == {o1, o2}
MCCid == {i1, i2}
MCBody == {noodles, coffee}
MCFirstBody == [o \in MCOrder |-> noodles]

MCTarget == [c \in Convert \cup Edit |-> IF c = k4 THEN o2 ELSE o1]
MCExpected == [c \in Convert \cup Edit |-> IF c = k3 /\ e1 \in Edit THEN 2 ELSE 1]
MCCidOf == [c \in Convert \cup Sell |-> IF c \in {k1, k2} THEN i1 ELSE i2]
MCPay == [c \in Convert \cup Sell |-> "CASH"]
MCContent == [c \in Sell \cup Edit |->
               IF c = d1 THEN noodles ELSE IF c = e1 THEN coffee ELSE NoBody]

MCConvert == {k1, k2, k3, k4}
MCSell == {d1}
MCEdits == {e1, e2}
MCTogether == {{k1, k2, e1}, {k1, k3, d1, e1}, {k1, k3, e1, e2}, {k3, k4, d1}}
MCNone == {}

MCShared == {k3, k4}
MCBothShared == {MCShared}
===============================================================================
