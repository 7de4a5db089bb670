------------------------------ MODULE RunnerK ------------------------------
(***************************************************************************)
(* The draft length of a step, decided in the model runner                  *)
(* (e35-runner-k): every tensor-parallel rank runs the steps the scheduler   *)
(* dispatches, in order and each at its own pace.  On a step that verifies   *)
(* k_hi drafts of a single request, rank 0 chooses between k_lo and k_hi     *)
(* from the drafter's confidence and broadcasts its choice, and every rank   *)
(* verifies that many.  The confidence comes from the speculator of rank 0,  *)
(* which copies it to a ring of host slots without waiting for the copy.     *)
(***************************************************************************)
EXTENDS Integers, Sequences, FiniteSets, SequencesExt

CONSTANTS
  Peers,      \* the ranks other than rank 0
  Req,        \* the requests
  KLo, KHi,   \* _E35_K_LO, _E35_K_HI
  Shapes,     \* the steps the scheduler may dispatch: drafts of each request
  Slots,      \* _E35_SLOTS
  Remembered, \* _E35_MAX_REQUESTS
  MaxSteps,   \* bound: steps dispatched
  MaxFlips    \* bound: changes of the policy flag

ASSUME LengthAssumption == KLo \in Nat /\ KHi \in Nat /\ KLo < KHi
ASSUME ShapeAssumption == \A s \in Shapes :
  /\ DOMAIN s \subseteq Req /\ DOMAIN s # {} /\ s \in [DOMAIN s -> Nat]
  /\ Cardinality(DOMAIN s) <= Remembered
ASSUME RingAssumption == Slots \in Nat \ {0, 1} /\ Remembered \in Nat \ {0}
ASSUME BoundAssumption == MaxSteps \in Nat /\ MaxFlips \in Nat
ASSUME RankAssumption == "zero" \notin Peers

Root == "zero"
Ranks == Peers \cup {Root}
Policies == {"ema", "lag1", "hybrid"}

VARIABLES
  plan,     \* the steps dispatched
  flag,     \* the policy flag's content
  flips,    \* how often it has changed
  pc,       \* where each rank stands
  ran,      \* the drafts each rank verified, step by step
  mail,     \* the broadcasts each peer has not received yet
  down,     \* a rank failed, and the engine with it
  built,    \* the ranks that hold an _E35State
  polled,   \* the policy the runner's switch last read
  last,     \* _e35_last_seq
  active,   \* the speculator's view of the flag
  store,    \* _e35_store: each request's entries, at most the two newest
  next,     \* the slot of the next recording
  slots,    \* the proposal whose confidence each slot holds
  copies,   \* copies the device has not made yet, in order
  made,     \* (history) the last two proposals that drafted for each request
  used      \* (history) what the step's decision was taken from

runner == <<pc, ran, mail, down, built, polled, used>>
recorder == <<last, active, store, next, slots, copies, made>>
vars == <<plan, flag, flips, runner, recorder>>

None == [index |-> "none"]

Init ==
  /\ plan = <<>> /\ flag \in Policies /\ flips = 0
  /\ pc = [r \in Ranks |-> "ready"] /\ ran = [r \in Ranks |-> <<>>]
  /\ mail = [r \in Peers |-> <<>>] /\ down = FALSE /\ built = {}
  /\ polled = "unread" /\ used = None
  /\ last = 0 /\ active = "unread" /\ store = [q \in Req |-> <<>>] /\ next = 0
  /\ slots = [n \in 0..(Slots - 1) |-> 0] /\ copies = <<>>
  /\ made = [q \in Req |-> <<>>]

-----------------------------------------------------------------------------
(* The scheduler dispatches at most two steps ahead of the ranks; an operator *)
(* rewrites the flag.                                                        *)

Dispatch(s) ==
  /\ ~down /\ Len(plan) < MaxSteps
  /\ \A r \in Ranks : Len(plan) < Len(ran[r]) + 2
  /\ plan' = Append(plan, s)
  /\ UNCHANGED <<flag, flips, runner, recorder>>

SetFlag(v) ==
  /\ flips < MaxFlips /\ v # flag
  /\ flag' = v /\ flips' = flips + 1
  /\ UNCHANGED <<plan, runner, recorder>>

-----------------------------------------------------------------------------
(* execute_model.                                                           *)

Step(r) == plan[Len(ran[r]) + 1]
\* e35_participating_request: one request, with k_hi drafts.
Participates(s) == \E q \in Req : DOMAIN s = {q} /\ s[q] = KHi
Request == CHOOSE q \in Req : DOMAIN Step(Root) = {q}

\* What a rank verifies: the drafts of the step, trimmed when k is less.
Trimmed(s, k) == IF k < KHi THEN [q \in DOMAIN s |-> k] ELSE s

Verify(r, s) ==
  /\ ran' = [ran EXCEPT ![r] = Append(@, s)]
  /\ pc' = [pc EXCEPT ![r] = IF r = Root THEN "propose" ELSE "ready"]

Starts(r) == ~down /\ pc[r] = "ready" /\ Len(ran[r]) < Len(plan)

RunUntouched(r) ==
  /\ Starts(r) /\ ~Participates(Step(r))
  /\ Verify(r, Step(r))
  /\ UNCHANGED <<plan, flag, flips, mail, down, built, polled, used, recorder>>

\* The state cannot be built: the error is raised, and stops the engine.
JoinFails(r) ==
  /\ Starts(r) /\ Participates(Step(r)) /\ r \notin built
  /\ down' = TRUE
  /\ UNCHANGED <<plan, flag, flips, pc, ran, mail, built, polled, used, recorder>>

\* Rank 0's switch reads the flag again, or still remembers it.
Poll ==
  /\ Starts(Root) /\ Participates(Step(Root))
  /\ built' = built \cup {Root}
  /\ polled' \in {flag} \cup ({polled} \ {"unread"})
  /\ pc' = [pc EXCEPT ![Root] = "polled"]
  /\ UNCHANGED <<plan, flag, flips, ran, mail, down, used, recorder>>

\* _e35_confidence: the entry of the newest proposal, or the one right before it.
Current(q) == store[q] # <<>> /\ Last(store[q]).seq = last
HasOlder(q) ==      \* mutant: the older entry need not be the one right before
  Current(q) /\ Len(store[q]) = 2
HasPrevious(q) == Current(q) /\ Len(store[q]) = 2 /\ store[q][1].seq = last - 1
Entry(q, index) == store[q][Len(store[q]) - index]
Copied(e) == \A i \in DOMAIN copies : copies[i].seq # e.seq

PreviousReady(q) == HasPrevious(q) /\ Copied(Entry(q, 1))
\* The confidence in the slot, and the draft it stands for.
Reading(q, index) ==
  [index |-> index, holds |-> slots[Entry(q, index).slot],
   draft |-> made[q][Len(made[q]) - index]]

BroadcastIfRead(k, from) ==      \* mutant: an error leaves the path before the broadcast
  /\ mail' = IF from = None THEN mail ELSE [r \in Peers |-> Append(mail[r], k)]
  /\ used' = from
  /\ Verify(Root, Trimmed(Step(Root), k))

\* Rank 0's choice goes to every peer, whatever it is and wherever it came from.
Broadcast(k, from) ==
  /\ mail' = [r \in Peers |-> Append(mail[r], k)]
  /\ used' = from
  /\ Verify(Root, Trimmed(Step(Root), k))

\* The ema policy, no usable confidence under lag1, or an error on the way.
DecideWithout ==
  /\ pc[Root] = "polled"
  /\ Broadcast(KHi, None)
  /\ UNCHANGED <<plan, flag, flips, down, built, polled, recorder>>

DecideFromPrevious ==
  /\ pc[Root] = "polled" /\ polled \in {"lag1", "hybrid"}
  /\ PreviousReady(Request)
  /\ \E k \in {KLo, KHi} : Broadcast(k, Reading(Request, 1))
  /\ UNCHANGED <<plan, flag, flips, down, built, polled, recorder>>

\* Under hybrid, no previous confidence or a small margin: wait for the current.
AwaitCurrent ==
  /\ pc[Root] = "polled" /\ polled = "hybrid" /\ Current(Request)
  /\ pc' = [pc EXCEPT ![Root] = "await"]
  /\ UNCHANGED <<plan, flag, flips, ran, mail, down, built, polled, used, recorder>>

DecideFromCurrent ==
  /\ pc[Root] = "await"
  /\ Copied(Entry(Request, 0))
  /\ \E k \in {KLo, KHi} : Broadcast(k, Reading(Request, 0))
  /\ UNCHANGED <<plan, flag, flips, down, built, polled, recorder>>

ReceiveUntrimmed(r) ==      \* mutant: a peer verifies what was scheduled
  /\ Starts(r) /\ Participates(Step(r)) /\ r # Root /\ mail[r] # <<>>
  /\ built' = built \cup {r}
  /\ Verify(r, Step(r))
  /\ mail' = [mail EXCEPT ![r] = Tail(@)]
  /\ UNCHANGED <<plan, flag, flips, down, polled, used, recorder>>

\* A peer waits for it.
Receive(r) ==
  /\ Starts(r) /\ Participates(Step(r)) /\ r # Root /\ mail[r] # <<>>
  /\ built' = built \cup {r}
  /\ Verify(r, Trimmed(Step(r), Head(mail[r])))
  /\ mail' = [mail EXCEPT ![r] = Tail(@)]
  /\ UNCHANGED <<plan, flag, flips, down, polled, used, recorder>>

-----------------------------------------------------------------------------
(* propose() on rank 0, and the device that makes its copies.               *)

Proposal == last + 1
Drafted == DOMAIN Last(ran[Root])
Copying == Append(copies, [seq |-> Proposal, slot |-> next])

Two(entries) == IF Len(entries) > 2 THEN Tail(entries) ELSE entries
Noted == [q \in Req |-> IF q \in Drafted THEN Two(Append(made[q], Proposal)) ELSE made[q]]

\* _e35_remember: the drafted requests get an entry each, and beyond the bound
\* some that were not drafted are forgotten.
Entered(q) == Two(Append(store[q], [seq |-> Proposal, slot |-> next]))
Kept(gone) == {q \in Req \ gone : q \in Drafted \/ store[q] # <<>>}
Remember(gone) ==
  /\ Cardinality(Kept(gone)) <= Remembered
  /\ gone # {} => Cardinality(Kept({})) > Remembered
  /\ store' = [q \in Req |-> IF q \in Drafted THEN Entered(q)
                            ELSE IF q \in gone THEN <<>> ELSE store[q]]

Recording == IF flag = "ema" THEN "off" ELSE "on"

\* The proposal counts before anything else; the flag is read again, or not.
Counted ==
  /\ pc[Root] = "propose"
  /\ pc' = [pc EXCEPT ![Root] = "ready"]
  /\ last' = Proposal /\ made' = Noted /\ used' = None
  /\ active' \in {Recording} \cup ({active} \ {"unread"})
  /\ UNCHANGED <<plan, flag, flips, ran, mail, down, built, polled, slots>>

\* The flag is off, a graph is being captured, or the attempt failed early.
ProposeUnrecorded ==
  /\ Counted
  /\ UNCHANGED <<store, next, copies>>

\* The attempt failed after the copy had been issued: the slot is not passed.
ProposeHalfRecorded ==
  /\ Counted /\ active' = "on"
  /\ copies' = Copying
  /\ UNCHANGED <<store, next>>

ProposeRecorded ==
  /\ Counted /\ active' = "on"
  /\ copies' = Copying
  /\ \E gone \in SUBSET (Req \ Drafted) : Remember(gone)
  /\ next' = (next + 1) % Slots

Copy ==
  /\ copies # <<>>
  /\ slots' = [slots EXCEPT ![Head(copies).slot] = Head(copies).seq]
  /\ copies' = Tail(copies)
  /\ UNCHANGED <<plan, flag, flips, runner, last, active, store, next, made>>

RankStep(r) == RunUntouched(r) \/ JoinFails(r) \/ Receive(r)
Decision == Poll \/ DecideWithout \/ DecideFromPrevious \/ AwaitCurrent \/ DecideFromCurrent
Propose == ProposeUnrecorded \/ ProposeHalfRecorded \/ ProposeRecorded

Next ==
  \/ \E s \in Shapes : Dispatch(s)
  \/ \E v \in Policies : SetFlag(v)
  \/ \E r \in Ranks : RankStep(r)
  \/ Decision \/ Propose \/ Copy

Spec == Init /\ [][Next]_vars
FairSpec ==
  /\ Spec /\ WF_vars(Decision) /\ WF_vars(Propose) /\ WF_vars(Copy)
  /\ \A r \in Ranks : WF_vars(RankStep(r))
-----------------------------------------------------------------------------
Lengths == {KLo, KHi}
Verified == Shapes \cup {Trimmed(s, KLo) : s \in Shapes}
Entries == [seq : Nat \ {0}, slot : 0..(Slots - 1)]
Source == {None} \cup [index : {0, 1}, holds : Nat, draft : Nat \ {0}]

(* Proposals, slots and copies stay within the ring, and a decision was taken *)
(* from a draft that exists.                                                 *)
TypeOK ==
  /\ plan \in Seq(Shapes) /\ flag \in Policies /\ flips \in 0..MaxFlips
  /\ pc \in [Ranks -> {"ready", "polled", "await", "propose"}]
  /\ ran \in [Ranks -> Seq(Verified)]
  /\ mail \in [Peers -> Seq(Lengths)]
  /\ down \in BOOLEAN /\ built \subseteq Ranks
  /\ polled \in Policies \cup {"unread"} /\ active \in {"unread", "on", "off"}
  /\ last \in Nat /\ next \in 0..(Slots - 1)
  /\ store \in [Req -> Seq(Entries)] /\ \A q \in Req : Len(store[q]) <= 2
  /\ slots \in [0..(Slots - 1) -> Nat] /\ copies \in Seq(Entries)
  /\ made \in [Req -> Seq(Nat \ {0})] /\ used \in Source

(* Every rank verifies the same drafts on the same step, although the broadcast *)
(* carries a bare length and the ranks pass through the steps at their own pace. *)
Agreement ==
  \A r, p \in Ranks : \A n \in DOMAIN ran[r] \cap DOMAIN ran[p] : ran[r][n] = ran[p][n]

(* A length is decided from the confidence of the very draft the step verifies, *)
(* or of the one right before it: never from a slot a later draft has written,  *)
(* nor across a proposal that was not recorded.                                 *)
RightConfidence == used # None => used.holds = used.draft

(* Every step dispatched is run by every rank, unless a rank failed: nobody     *)
(* waits for good in the broadcast, nor rank 0 for a copy.                      *)
EveryStepRuns == []<>(down \/ \A r \in Ranks : Len(ran[r]) = Len(plan))
=============================================================================
