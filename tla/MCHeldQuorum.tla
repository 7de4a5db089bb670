---------------------------- MODULE MCHeldQuorum ----------------------------
(***************************************************************************)
(* A small instance of HeldQuorum: what rank 0 holds changes, and it starts  *)
(* again; the other rank is known by its handshake.                          *)
(***************************************************************************)
EXTENDS HeldQuorum

MCMaxSequence == [r \in Rank |-> IF r = 0 THEN <<3, 0>> ELSE <<0>>]
MCMaxCycle == [r \in Rank |-> IF r = 0 THEN <<5, 1>> ELSE <<0>>]
=============================================================================
