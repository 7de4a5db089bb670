--------------------------- MODULE MCStreamStore ---------------------------
(* Instances of StreamStore for TLC.                                       *)
EXTENDS StreamStore, TLC

\* The first object is full, the second is not; the shorter snapshot is the
\* first object of the longer.
Two == {<<"x", "y">>, <<"x", "y", "z">>}

Symmetry == Permutations(Publisher) \cup Permutations(Context)
=============================================================================
