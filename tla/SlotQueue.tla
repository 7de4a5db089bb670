------------------------------ MODULE SlotQueue ------------------------------
(***************************************************************************)
(* What the admission middleware promises its callers about slots: at most  *)
(* Capacity of them hold one, and those that wait get theirs in the order   *)
(* in which they came.  A waiter may give up at any time.  Nothing is said  *)
(* of how a slot changes hands, and one step may pass on several.           *)
(***************************************************************************)
EXTENDS Integers, FiniteSets

CONSTANTS Caller, Capacity

VARIABLES
  stage,   \* "out", "waiting" or "holding"
  place    \* the place of each waiting caller

vars == <<stage, place>>

Waiting == {c \in Caller : stage[c] = "waiting"}
Holding == {c \in Caller : stage[c] = "holding"}

Init ==
  /\ stage = [c \in Caller |-> "out"]
  /\ place = [c \in Caller |-> 0]

\* A newcomer goes behind everyone who waits.
Arrive(c) ==
  /\ stage[c] = "out"
  /\ stage' = [stage EXCEPT ![c] = "waiting"]
  /\ place'[c] \in Nat /\ \A w \in Waiting : place[w] < place'[c]
  /\ place' = [place EXCEPT ![c] = place'[c]]

\* It may take a free slot at once only when nobody waits.
Enter(c) ==
  /\ stage[c] = "out"
  /\ Waiting = {} /\ Cardinality(Holding) < Capacity
  /\ stage' = [stage EXCEPT ![c] = "holding"]
  /\ UNCHANGED place

GiveUp(c) ==
  /\ stage[c] = "waiting"
  /\ stage' = [stage EXCEPT ![c] = "out"]
  /\ place' = [place EXCEPT ![c] = 0]

\* At most one holder leaves, and the first of the line step forward.
Turn(leaving, served) ==
  /\ leaving \subseteq Holding /\ Cardinality(leaving) <= 1
  /\ served \subseteq Waiting
  /\ \A s \in served, w \in Waiting \ served : place[s] < place[w]
  /\ Cardinality((Holding \ leaving) \cup served) <= Capacity
  /\ stage' = [c \in Caller |-> IF c \in leaving THEN "out"
                                ELSE IF c \in served THEN "holding" ELSE stage[c]]
  /\ place' = [c \in Caller |-> IF c \in served THEN 0 ELSE place[c]]

Next ==
  \/ \E c \in Caller : Arrive(c) \/ Enter(c) \/ GiveUp(c)
  \/ \E leaving, served \in SUBSET Caller : Turn(leaving, served)

Spec == Init /\ [][Next]_vars
=============================================================================
