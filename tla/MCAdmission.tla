----------------------------- MODULE MCAdmission -----------------------------
(* Small instances of Admission: more requests than slots and queue places. *)
EXTENDS Admission, TLC

CONSTANTS r1, r2, r3, r4

Three == {r1, r2, r3}
Four  == {r1, r2, r3, r4}

\* The requests start alike and no action names one of them.
FourAlike == Permutations(Four)

\* The counters the ledger reads; the others only grow.
Ledger == {"rejected_queue_timeout", "cancelled_queued"}
=============================================================================
