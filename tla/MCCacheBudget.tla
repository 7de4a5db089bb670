---------------------------- MODULE MCCacheBudget ----------------------------
(* Small instances of CacheBudget: the cap admits some operations together,  *)
(* never all, and the reservations differ in size.                           *)
EXTENDS CacheBudget

CONSTANTS r1, r2, r3, r4, a1, a2, a3, l1, l2

Tickets   == {r1, r2, r3, r4}
Addresses == {a1, a2, a3}
Loaders   == {l1, l2}
OneLoader == {l1}

\* r1 is a long context, the others are short ones.
Peaks == [r \in Tickets |-> IF r = r1 THEN 2 ELSE 1]

\* Unusable, too little for anything, enough for one unit, and plenty.
MemInfo == {-1, 1, 3, 9}
=============================================================================
