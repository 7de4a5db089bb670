--------------------------- MODULE RunnerKProofs ---------------------------
(***************************************************************************)
(* Proofs about RunnerK, for any number of ranks, requests, slots and steps.  *)
(* First the types and where a rank stands in the plan; then the recorder,    *)
(* whose invariant ties an entry to the copy on its way to the slot; then the *)
(* mailboxes, which hold exactly the decisions of the steps a peer is behind. *)
(***************************************************************************)
EXTENDS RunnerK, SequenceTheorems, TLAPS

-----------------------------------------------------------------------------
(* The operators on the data.                                               *)

(* Appending to at most two entries keeps the last one and the new one.      *)
LEMMA TwoIs ==
  ASSUME NEW S, NEW s \in Seq(S), Len(s) <= 2, NEW x \in S
  PROVE  Two(Append(s, x)) = IF Len(s) = 0 THEN <<x>> ELSE <<s[Len(s)], x>>
<1>1. /\ Append(s, x) \in Seq(S) /\ Len(Append(s, x)) = Len(s) + 1
      /\ \A i \in 1..Len(s) : Append(s, x)[i] = s[i]
      /\ Append(s, x)[Len(s) + 1] = x
  OBVIOUS
<1>2. Len(s) \in {0, 1, 2}
  <2>1. Len(s) \in Nat
    BY LenProperties
  <2>2. \A n \in Nat : n <= 2 => n \in {0, 1, 2}
    OBVIOUS
  <2> QED
    BY <2>1, <2>2
<1>3. CASE Len(s) = 0
  <2> DEFINE t == Append(s, x)
             w == <<x>>
  <2>1. t \in Seq(S) /\ w \in Seq(S) /\ Len(w) = Len(t) /\ w[1] = t[1] /\ Len(t) = 1
    BY <1>1, <1>3
  <2> HIDE DEF t, w
  <2>2. t = w
    <3>1. \A i \in 1..Len(t) : t[i] = w[i]
      BY <2>1
    <3> QED
      BY <2>1, <3>1, SeqEqual
  <2> USE DEF t, w
  <2> QED
    BY <1>1, <1>3, <2>2 DEF Two
<1>4. CASE Len(s) > 0
  <2> DEFINE w == <<s[Len(s)], x>>
  <2>1. w \in Seq(S) /\ Len(w) = 2 /\ w[1] = s[Len(s)] /\ w[2] = x
    BY <1>4
  <2>2. CASE Len(s) = 1
    <3> DEFINE t == Append(s, x)
    <3>1. t \in Seq(S) /\ Len(t) = 2 /\ t[1] = s[1] /\ t[2] = x
      BY <1>1, <2>2
    <3> HIDE DEF t, w
    <3>2. \A i \in 1..Len(t) : t[i] = w[i]
      BY <2>1, <2>2, <3>1
    <3>3. t = w
      BY <2>1, <3>1, <3>2, SeqEqual
    <3> QED
      BY <1>4, <2>2, <3>1, <3>3 DEF Two, t, w
  <2>3. CASE Len(s) = 2
    <3> DEFINE t == Append(s, x)
    <3>1. t \in Seq(S) /\ Len(t) = 3 /\ t[2] = s[2] /\ t[3] = x
      BY <1>1, <2>3
    <3> HIDE DEF t
    <3>2. Tail(t) \in Seq(S) /\ Len(Tail(t)) = 2 /\ Tail(t)[1] = t[2] /\ Tail(t)[2] = t[3]
      <4>1. t # <<>>
        BY <3>1
      <4>2. Tail(t) \in Seq(S) /\ Len(Tail(t)) = Len(t) - 1
            /\ \A i \in 1..Len(Tail(t)) : Tail(t)[i] = t[i + 1]
        BY <3>1, <4>1, HeadTailProperties
      <4> QED
        BY <3>1, <4>2
    <3> HIDE DEF w
    <3>3. \A i \in 1..Len(Tail(t)) : Tail(t)[i] = w[i]
      <4>1. Tail(t)[1] = w[1] /\ Tail(t)[2] = w[2] /\ Len(Tail(t)) = 2
        BY <2>1, <2>3, <3>1, <3>2
      <4>2. \A i \in 1..2 : i = 1 \/ i = 2
        OBVIOUS
      <4> QED
        BY <4>1, <4>2
    <3>4. Tail(t) = w
      BY <2>1, <3>2, <3>3, SeqEqual
    <3> QED
      BY <1>4, <2>3, <3>1, <3>4 DEF Two, t, w
  <2> QED
    BY <1>2, <1>4, <2>2, <2>3
<1> QED
  BY <1>2, <1>3, <1>4

(* What a rank verifies drafts for the requests of the step.                 *)
LEMMA VerifiedShapes ==
  /\ \A s \in Shapes : s \in Verified /\ \A k \in Lengths : Trimmed(s, k) \in Verified
  /\ \A v \in Verified : DOMAIN v \subseteq Req
  /\ \A s \in Shapes : Trimmed(s, KHi) = s
BY ShapeAssumption, LengthAssumption DEF Verified, Trimmed, Lengths

LEMMA ParticipantKnown ==
  ASSUME Participates(Step(Root))
  PROVE  Request \in Req
BY DEF Participates, Request

-----------------------------------------------------------------------------
(* Types, and where each rank stands.                                       *)

(* Rank 0 decides about a step of the plan it has not run, and proposes after *)
(* one it has.                                                               *)
Progress ==
  /\ \A r \in Ranks : Len(ran[r]) <= Len(plan)
  /\ pc[Root] \in {"polled", "await"} =>
       Len(ran[Root]) < Len(plan) /\ Participates(Step(Root))
  /\ pc[Root] = "propose" => ran[Root] # <<>>
  /\ \A r \in Peers : pc[r] = "ready"

(* What the ranks' side of the types is about, and the recorder's.           *)
RunTypes ==
  /\ plan \in Seq(Shapes) /\ flag \in Policies /\ flips \in 0..MaxFlips
  /\ pc \in [Ranks -> {"ready", "polled", "await", "propose"}]
  /\ ran \in [Ranks -> Seq(Verified)]
  /\ mail \in [Peers -> Seq(Lengths)]
  /\ down \in BOOLEAN /\ built \subseteq Ranks
  /\ polled \in Policies \cup {"unread"}
RecorderTypes ==
  /\ active \in {"unread", "on", "off"}
  /\ last \in Nat /\ next \in 0..(Slots - 1)
  /\ store \in [Req -> Seq(Entries)] /\ \A q \in Req : Len(store[q]) <= 2
  /\ slots \in [0..(Slots - 1) -> Nat] /\ copies \in Seq(Entries)
  /\ made \in [Req -> Seq(Nat \ {0})] /\ \A q \in Req : Len(made[q]) <= 2

-----------------------------------------------------------------------------
(* The ranks' side.                                                         *)

(* Every step leaves the ranks' variables well typed and in their place.     *)
LEMMA RunStep ==
  ASSUME RunTypes, Progress, [Next]_vars
  PROVE  RunTypes' /\ Progress'
<1> USE DEF RunTypes, Progress
<1>0. Root \in Ranks /\ Peers \subseteq Ranks /\ Root \notin Peers
  BY RankAssumption DEF Ranks, Root
<1>1. ASSUME NEW r \in Ranks, NEW s \in Verified, Verify(r, s), Len(ran[r]) < Len(plan),
             UNCHANGED plan
      PROVE  /\ ran' \in [Ranks -> Seq(Verified)]
             /\ \A p \in Ranks : Len(ran'[p]) <= Len(plan')
             /\ pc' \in [Ranks -> {"ready", "polled", "await", "propose"}]
             /\ r = Root => pc'[Root] = "propose" /\ ran'[Root] # <<>>
             /\ r # Root => pc'[Root] = pc[Root] /\ ran'[Root] = ran[Root]
             /\ \A p \in Peers : pc'[p] = "ready"
  BY <1>0, <1>1 DEF Verify
<1>2. ASSUME NEW s \in Shapes, Dispatch(s)
      PROVE  RunTypes' /\ Progress'
  <2>1. plan' \in Seq(Shapes) /\ Len(plan') = Len(plan) + 1
        /\ \A i \in 1..Len(plan) : plan'[i] = plan[i]
    BY <1>2 DEF Dispatch
  <2>2. UNCHANGED <<flag, flips, pc, ran, mail, down, built, polled>>
    BY <1>2 DEF Dispatch, runner
  <2>3. pc[Root] \in {"polled", "await"} => Step(Root)' = Step(Root)
    <3>1. SUFFICES ASSUME pc[Root] \in {"polled", "await"}
                   PROVE  Step(Root)' = Step(Root)
      OBVIOUS
    <3>2. Len(ran[Root]) + 1 \in 1..Len(plan) /\ ran' = ran
      BY <1>0, <2>2, <3>1
    <3> QED
      BY <2>1, <3>2 DEF Step
  <2>4. \A r \in Ranks : Len(ran'[r]) <= Len(plan')
    <3> TAKE r \in Ranks
    <3>1. Len(ran[r]) \in Nat /\ Len(plan) \in Nat /\ Len(ran[r]) <= Len(plan)
      BY <1>0
    <3> QED
      BY <2>1, <2>2, <3>1
  <2>5. pc'[Root] \in {"polled", "await"} =>
          Len(ran'[Root]) < Len(plan') /\ Participates(Step(Root))'
    <3>1. Len(ran[Root]) \in Nat /\ Len(plan) \in Nat
      BY <1>0
    <3>2. SUFFICES ASSUME pc[Root] \in {"polled", "await"}
                   PROVE  Len(ran[Root]) < Len(plan') /\ Participates(Step(Root))'
      BY <2>2
    <3>3. Participates(Step(Root)) /\ Len(ran[Root]) < Len(plan) /\ Step(Root)' = Step(Root)
      BY <2>3, <3>2
    <3>4. Participates(Step(Root))'
      BY <3>3 DEF Participates
    <3> QED
      BY <2>1, <3>1, <3>3, <3>4
  <2> QED
    BY <2>1, <2>2, <2>4, <2>5
<1>3. ASSUME NEW v \in Policies, SetFlag(v)
      PROVE  RunTypes' /\ Progress'
  BY <1>3, BoundAssumption DEF SetFlag, runner, Step
<1>4. ASSUME NEW r \in Ranks, RunUntouched(r)
      PROVE  RunTypes' /\ Progress'
  <2>1. Step(r) \in Shapes /\ Step(r) \in Verified /\ Len(ran[r]) < Len(plan)
    BY <1>4, VerifiedShapes DEF RunUntouched, Starts, Step
  <2>2. Verify(r, Step(r)) /\ pc[r] = "ready"
        /\ UNCHANGED <<plan, flag, flips, mail, down, built, polled>>
    BY <1>4 DEF RunUntouched, Starts
  <2> QED
    BY <1>0, <1>1, <2>1, <2>2 DEF Step
<1>5. ASSUME NEW r \in Ranks, JoinFails(r)
      PROVE  RunTypes' /\ Progress'
  BY <1>5 DEF JoinFails, Step
<1>6. ASSUME NEW r \in Ranks, Receive(r)
      PROVE  RunTypes' /\ Progress'
  <2>1. r \in Peers /\ r # Root /\ mail[r] # <<>> /\ mail[r] \in Seq(Lengths)
    BY <1>6 DEF Receive, Ranks
  <2>2. Step(r) \in Shapes /\ Len(ran[r]) < Len(plan)
    BY <1>6 DEF Receive, Starts, Step
  <2>3. Trimmed(Step(r), Head(mail[r])) \in Verified
    BY <2>1, <2>2, VerifiedShapes
  <2>4. mail' \in [Peers -> Seq(Lengths)]
    BY <1>6, <2>1 DEF Receive
  <2>5. built' \subseteq Ranks /\ UNCHANGED <<plan, flag, flips, down, polled>>
        /\ Verify(r, Trimmed(Step(r), Head(mail[r])))
    BY <1>6 DEF Receive
  <2> QED
    BY <1>0, <1>1, <2>1, <2>2, <2>3, <2>4, <2>5 DEF Step
<1>7. CASE Poll
  BY <1>0, <1>7 DEF Poll, Starts, Step
<1>8. CASE AwaitCurrent
  BY <1>0, <1>8 DEF AwaitCurrent, Step
<1>9. ASSUME NEW k \in Lengths, NEW from, Broadcast(k, from),
             pc[Root] \in {"polled", "await"},
             UNCHANGED <<plan, flag, flips, down, built, polled>>
      PROVE  RunTypes' /\ Progress'
  <2>1. Step(Root) \in Shapes /\ Len(ran[Root]) < Len(plan)
    BY <1>0, <1>9 DEF Step
  <2>2. Trimmed(Step(Root), k) \in Verified
    BY <2>1, VerifiedShapes
  <2>3. mail' \in [Peers -> Seq(Lengths)]
    BY <1>9 DEF Broadcast
  <2> QED
    BY <1>0, <1>1, <1>9, <2>1, <2>2, <2>3 DEF Broadcast, Step
<1>10. CASE DecideWithout
  BY <1>9, <1>10 DEF DecideWithout, Lengths
<1>11. CASE DecideFromPrevious
  BY <1>9, <1>11 DEF DecideFromPrevious, Lengths
<1>12. CASE DecideFromCurrent
  BY <1>9, <1>12 DEF DecideFromCurrent, Lengths
<1>13. CASE Propose
  <2>1. Counted
    BY <1>13 DEF Propose, ProposeUnrecorded, ProposeHalfRecorded, ProposeRecorded
  <2> QED
    BY <1>0, <2>1 DEF Counted, Step
<1>14. CASE Copy
  BY <1>14 DEF Copy, runner, Step
<1>15. CASE UNCHANGED vars
  BY <1>15 DEF vars, runner, Step
<1> QED
  BY <1>2, <1>3, <1>4, <1>5, <1>6, <1>7, <1>8, <1>10, <1>11, <1>12, <1>13, <1>14, <1>15
  DEF Next, RankStep, Decision

-----------------------------------------------------------------------------
(* The recorder.                                                            *)

Known(q, n) == \E j \in DOMAIN made[q] : made[q][j] = n

(* Where the confidence of an entry is: no copy to its slot is newer, its own  *)
(* copy goes there, and once that is made the slot holds it and nothing is on  *)
(* its way.                                                                  *)
Reached(e) ==
  /\ \A i \in DOMAIN copies : copies[i].slot = e.slot => copies[i].seq <= e.seq
  /\ \A i \in DOMAIN copies : copies[i].seq = e.seq => copies[i].slot = e.slot
  /\ Copied(e) =>
       /\ slots[e.slot] = e.seq
       /\ \A i \in DOMAIN copies : copies[i].slot # e.slot

MadeInOrder ==
  \A q \in Req :
    /\ \A j \in DOMAIN made[q] : made[q][j] <= last
    /\ Len(made[q]) = 2 => made[q][1] < made[q][2]
CopiesInOrder ==
  /\ \A i \in DOMAIN copies : copies[i].seq <= last
  /\ \A i, j \in DOMAIN copies : i < j => copies[i].seq < copies[j].seq

(* An entry of one of the two newest proposals is of a draft made then, and its *)
(* slot is not written again before the next recording; the newest one's slot   *)
(* is not the next to be written.                                              *)
EntryInv(q, e) ==
  /\ e.seq <= last
  /\ e.seq >= last - 1 => Known(q, e.seq) /\ Reached(e)
  /\ e.seq = last => e.slot # next
EntriesInv == \A q \in Req : \A j \in DOMAIN store[q] : EntryInv(q, store[q][j])

Recorded == MadeInOrder /\ CopiesInOrder /\ EntriesInv

(* A proposal keeps the newest of a request's drafts, and adds its own.       *)
LEMMA NotedKeeps ==
  ASSUME RecorderTypes, MadeInOrder, pc[Root] = "propose", Drafted \subseteq Req, Counted
  PROVE  /\ made' \in [Req -> Seq(Nat \ {0})] /\ \A q \in Req : Len(made'[q]) <= 2
         /\ last' = last + 1 /\ MadeInOrder'
         /\ \A q \in Req : \A n \in Nat : n >= last /\ Known(q, n) => Known(q, n)'
         /\ \A q \in Drafted : Known(q, last)'
<1> USE DEF RecorderTypes
<1>1. last' = last + 1 /\ made' = Noted
  BY DEF Counted, Proposal
<1>2. ASSUME NEW q \in Req
      PROVE  /\ made'[q] \in Seq(Nat \ {0}) /\ Len(made'[q]) <= 2
             /\ \A j \in DOMAIN made'[q] : made'[q][j] <= last + 1
             /\ Len(made'[q]) = 2 => made'[q][1] < made'[q][2]
             /\ \A n \in Nat : n >= last /\ Known(q, n) =>
                  \E j \in DOMAIN made'[q] : made'[q][j] = n
             /\ q \in Drafted => \E j \in DOMAIN made'[q] : made'[q][j] = last + 1
  <2> DEFINE s == made[q]
  <2>1. s \in Seq(Nat \ {0}) /\ Len(s) <= 2 /\ Len(s) \in Nat /\ DOMAIN s = 1..Len(s)
        /\ \A j \in 1..Len(s) : s[j] \in Nat /\ s[j] <= last
    BY LenProperties DEF MadeInOrder
  <2>2. Len(s) = 2 => s[1] < s[2]
    BY DEF MadeInOrder
  <2>3. CASE q \notin Drafted
    <3>1. made'[q] = s
      BY <1>1, <2>3 DEF Noted
    <3> QED
      BY <2>1, <2>2, <2>3, <3>1 DEF Known
  <2>4. CASE q \in Drafted
    <3>1. made'[q] = Two(Append(s, last + 1))
      BY <1>1, <2>4 DEF Noted, Proposal
    <3>2. last + 1 \in Nat \ {0}
      OBVIOUS
    <3>3. made'[q] = IF Len(s) = 0 THEN <<last + 1>> ELSE <<s[Len(s)], last + 1>>
      <4> DEFINE x == last + 1
      <4>1. s \in Seq(Nat \ {0}) /\ Len(s) <= 2 /\ x \in Nat \ {0}
        BY <2>1, <3>2
      <4>2. made'[q] = Two(Append(s, x))
        BY <3>1
      <4> DEFINE P == Nat \ {0}
      <4> HIDE DEF s, x, P
      <4>p. s \in Seq(P) /\ Len(s) <= 2 /\ x \in P
        BY <4>1 DEF P
      <4>3. Two(Append(s, x)) = IF Len(s) = 0 THEN <<x>> ELSE <<s[Len(s)], x>>
        BY <4>p, TwoIs
      <4> QED
        BY <4>2, <4>3 DEF x
    <3> HIDE DEF s
    <3>4. CASE Len(s) = 0
      <4>1. made'[q] = <<last + 1>>
        BY <3>3, <3>4
      <4>2. ~ \E n \in Nat : Known(q, n)
        BY <2>1, <3>4 DEF Known, s
      <4> QED
        BY <4>1, <4>2
    <3>5. CASE Len(s) # 0
      <4>1. made'[q] = <<s[Len(s)], last + 1>> /\ s[Len(s)] \in Nat \ {0} /\ s[Len(s)] <= last
        BY <2>1, <3>3, <3>5
      <4>2. ASSUME NEW n \in Nat, n >= last, Known(q, n)
            PROVE  s[Len(s)] = n
        <5>1. PICK j \in 1..Len(s) : s[j] = n
          BY <2>1, <4>2 DEF Known, s
        <5>2. CASE j = Len(s)
          BY <5>1, <5>2
        <5>3. CASE j # Len(s)
          <6>1. \A m \in Nat : \A i \in 1..m : m <= 2 /\ i # m => m = 2 /\ i = 1
            OBVIOUS
          <6>2. Len(s) = 2 /\ j = 1
            BY <2>1, <5>1, <5>3, <6>1
          <6>3. s[1] \in Nat /\ s[2] \in Nat /\ s[1] = n /\ s[1] < s[2] /\ s[2] <= last
            BY <2>1, <2>2, <5>1, <6>2
          <6> QED
            BY <4>2, <6>3
        <5> QED
          BY <5>2, <5>3
      <4>3. /\ made'[q] \in Seq(Nat \ {0}) /\ Len(made'[q]) = 2 /\ DOMAIN made'[q] = {1, 2}
            /\ made'[q][1] = s[Len(s)] /\ made'[q][2] = last + 1
        BY <4>1
      <4>4. last + 1 > last /\ s[Len(s)] < last + 1
        BY <4>1
      <4>5. /\ \A i \in DOMAIN made'[q] : made'[q][i] <= last + 1
            /\ Len(made'[q]) = 2 => made'[q][1] < made'[q][2]
        BY <4>1, <4>3, <4>4
      <4>6. \A n \in Nat : n >= last /\ Known(q, n) => \E j \in DOMAIN made'[q] : made'[q][j] = n
        BY <4>2, <4>3
      <4>7. \E j \in DOMAIN made'[q] : made'[q][j] = last + 1
        BY <4>3
      <4> QED
        BY <4>3, <4>5, <4>6, <4>7
    <3> QED
      BY <3>4, <3>5
  <2> QED
    BY <2>3, <2>4
<1>3. made' \in [Req -> Seq(Nat \ {0})]
  <2>1. DOMAIN made' = Req /\ made' = [q \in DOMAIN made' |-> made'[q]]
    BY <1>1 DEF Noted
  <2>2. \A q \in Req : made'[q] \in Seq(Nat \ {0})
    BY <1>2
  <2> HIDE DEF RecorderTypes
  <2> QED
    BY <2>1, <2>2
<1>4. MadeInOrder'
  BY <1>1, <1>2 DEF MadeInOrder
<1> HIDE DEF RecorderTypes
<1>5. \A q \in Req : \A n \in Nat : n >= last /\ Known(q, n) => Known(q, n)'
  <2> TAKE q \in Req
  <2> TAKE n \in Nat
  <2>1. n >= last /\ Known(q, n) => \E j \in DOMAIN made'[q] : made'[q][j] = n
    BY <1>2
  <2> QED
    BY <2>1 DEF Known
<1>6. \A q \in Drafted : Known(q, last)'
  <2> TAKE q \in Drafted
  <2>1. \E j \in DOMAIN made'[q] : made'[q][j] = last + 1
    BY <1>2
  <2>2. last' = last + 1
    BY <1>1
  <2> QED
    BY <2>1, <2>2 DEF Known
<1> QED
  BY <1>1, <1>2, <1>3, <1>4, <1>5, <1>6

(* The copies of a proposal come after all others.                           *)
LEMMA CopyingKeeps ==
  ASSUME RecorderTypes, CopiesInOrder, copies' = Copying, last' = last + 1
  PROVE  /\ copies' \in Seq(Entries) /\ Len(copies') = Len(copies) + 1
         /\ \A i \in 1..Len(copies) : copies'[i] = copies[i]
         /\ copies'[Len(copies) + 1] = [seq |-> last + 1, slot |-> next]
         /\ CopiesInOrder'
<1> USE DEF RecorderTypes
<1> DEFINE new == [seq |-> last + 1, slot |-> next]
<1>1. new \in Entries
  BY RingAssumption DEF Entries
<1>2. copies' = Append(copies, new)
  BY DEF Copying, Proposal
<1> HIDE DEF new
<1>3. /\ copies' \in Seq(Entries) /\ Len(copies') = Len(copies) + 1 /\ Len(copies) \in Nat
      /\ \A i \in 1..Len(copies) : copies'[i] = copies[i]
      /\ copies'[Len(copies) + 1] = new
      /\ DOMAIN copies = 1..Len(copies) /\ DOMAIN copies' = 1..(Len(copies) + 1)
  BY <1>1, <1>2
<1>4. \A i \in 1..Len(copies) : copies[i].seq \in Nat /\ copies[i].seq <= last
  <2> TAKE i \in 1..Len(copies)
  <2>1. copies[i] \in Entries /\ i \in DOMAIN copies
    BY <1>3
  <2> QED
    BY <2>1 DEF CopiesInOrder, Entries
<1>5. new.seq = last + 1
  BY DEF new
<1>6. \A i \in DOMAIN copies' : copies'[i].seq <= last'
  BY <1>3, <1>4, <1>5
<1>7. \A i, j \in DOMAIN copies' : i < j => copies'[i].seq < copies'[j].seq
  <2> SUFFICES ASSUME NEW i \in DOMAIN copies', NEW j \in DOMAIN copies', i < j
               PROVE  copies'[i].seq < copies'[j].seq
    OBVIOUS
  <2>1. i \in 1..Len(copies)
    BY <1>3
  <2>2. CASE j \in 1..Len(copies)
    BY <1>3, <2>1, <2>2 DEF CopiesInOrder
  <2>3. CASE j = Len(copies) + 1
    BY <1>3, <1>4, <1>5, <2>1, <2>3
  <2> QED
    BY <1>3, <2>2, <2>3
<1> QED
  BY <1>3, <1>6, <1>7 DEF CopiesInOrder, new

(* What was true of an older entry stays true after a proposal.              *)
LEMMA OlderEntry ==
  ASSUME RecorderTypes, Recorded, pc[Root] = "propose", Drafted \subseteq Req, Counted,
         copies' \in {copies, Copying}, UNCHANGED slots,
         NEW q \in Req, NEW e \in Entries, EntryInv(q, e)
  PROVE  EntryInv(q, e)'
<1> USE DEF RecorderTypes
<1>1. last' = last + 1 /\ \A n \in Nat : n >= last /\ Known(q, n) => Known(q, n)'
  BY NotedKeeps DEF Recorded
<1>2. e.seq \in Nat /\ e.seq <= last /\ e.seq # last'
  BY <1>1 DEF EntryInv, Entries
<1>3. ASSUME e.seq >= last
      PROVE  Reached(e)'
  <2>1. e.seq = last /\ Reached(e) /\ e.slot # next
    BY <1>2, <1>3 DEF EntryInv
  <2>2. CASE copies' = copies
    BY <2>1, <2>2 DEF Reached, Copied
  <2>3. CASE copies' = Copying
    <3>1. /\ Len(copies') = Len(copies) + 1
          /\ \A i \in 1..Len(copies) : copies'[i] = copies[i]
          /\ copies'[Len(copies) + 1] = [seq |-> last + 1, slot |-> next]
          /\ DOMAIN copies = 1..Len(copies) /\ DOMAIN copies' = 1..Len(copies')
          /\ Len(copies) \in Nat
      BY <1>1, <2>3, CopyingKeeps DEF Recorded
    <3>2. \A i \in DOMAIN copies' : \/ i \in DOMAIN copies /\ copies'[i] = copies[i]
                                    \/ copies'[i].seq = last + 1 /\ copies'[i].slot = next
      BY <3>1
    <3>3. \A i \in DOMAIN copies : i \in DOMAIN copies' /\ copies'[i] = copies[i]
      BY <3>1
    <3>4. last + 1 # e.seq
      BY <1>1, <1>2
    <3>5. Copied(e)' => Copied(e)
      BY <3>3 DEF Copied
    <3> QED
      BY <2>1, <3>2, <3>4, <3>5 DEF Reached
  <2> QED
    BY <2>2, <2>3
<1>4. ASSUME e.seq >= last
      PROVE  Known(q, e.seq)'
  <2>1. Known(q, e.seq)
    BY <1>2, <1>4 DEF EntryInv
  <2> QED
    BY <1>1, <1>2, <1>4, <2>1 DEF Known
<1>5. last' - 1 = last
  BY <1>1
<1> QED
  BY <1>1, <1>2, <1>3, <1>4, <1>5 DEF EntryInv

(* The requests of the step a proposal follows.                              *)
LEMMA DraftedKnown ==
  ASSUME RunTypes, Progress, pc[Root] = "propose"
  PROVE  Drafted \subseteq Req
<1>1. ran[Root] \in Seq(Verified) /\ ran[Root] # <<>>
  BY RankAssumption DEF RunTypes, Progress, Ranks, Root
<1>2. Last(ran[Root]) \in Verified
  BY <1>1, EmptySeq DEF Last
<1> QED
  BY <1>2, VerifiedShapes DEF Drafted

(* A proposal that is not recorded, or was only copied.                      *)
LEMMA UnrecordedStep ==
  ASSUME RunTypes, Progress, RecorderTypes, Recorded, ProposeUnrecorded \/ ProposeHalfRecorded
  PROVE  RecorderTypes' /\ Recorded'
<1>1. /\ pc[Root] = "propose" /\ Counted /\ copies' \in {copies, Copying}
      /\ UNCHANGED <<slots, store, next>>
      /\ active' \in {"unread", "on", "off"}
  BY DEF ProposeUnrecorded, ProposeHalfRecorded, Counted, Recording, RecorderTypes
<1>2. Drafted \subseteq Req
  BY <1>1, DraftedKnown
<1>3. /\ made' \in [Req -> Seq(Nat \ {0})] /\ \A q \in Req : Len(made'[q]) <= 2
      /\ last' = last + 1 /\ MadeInOrder'
  BY <1>1, <1>2, NotedKeeps DEF Recorded
<1>4. copies' \in Seq(Entries) /\ CopiesInOrder'
  <2>1. CASE copies' = copies
    <3>1. \A i \in DOMAIN copies : copies[i].seq \in Nat /\ copies[i].seq <= last
      <4> TAKE i \in DOMAIN copies
      <4>1. copies[i] \in Entries
        BY DEF RecorderTypes
      <4> QED
        BY <4>1 DEF Recorded, CopiesInOrder, Entries
    <3>2. last \in Nat
      BY DEF RecorderTypes
    <3> QED
      BY <1>3, <2>1, <3>1, <3>2 DEF Recorded, CopiesInOrder, RecorderTypes
  <2>2. CASE copies' = Copying
    BY <1>3, <2>2, CopyingKeeps DEF Recorded
  <2> QED
    BY <1>1, <2>1, <2>2
<1>5. EntriesInv'
  <2> SUFFICES ASSUME NEW q \in Req, NEW j \in DOMAIN store[q]
               PROVE  EntryInv(q, store[q][j])'
    BY <1>1 DEF EntriesInv
  <2>1. store[q][j] \in Entries /\ EntryInv(q, store[q][j])
    BY DEF RecorderTypes, Recorded, EntriesInv
  <2> DEFINE e == store[q][j]
  <2>2. e' = e
    BY <1>1
  <2>3. \A f \in Entries : EntryInv(q, f) => EntryInv(q, f)'
    BY <1>1, <1>2, OlderEntry
  <2> QED
    BY <2>1, <2>2, <2>3 DEF EntryInv, Known, Reached, Copied
<1> QED
  BY <1>1, <1>3, <1>4, <1>5 DEF RecorderTypes, Recorded

(* The slot after a slot is another one.                                     *)
LEMMA NextMoves ==
  ASSUME NEW s \in Nat, s > 1, NEW n \in 0..(s - 1)
  PROVE  (n + 1) % s # n
<1>1. CASE n = s - 1
  <2>1. s % s = 0
    OBVIOUS
  <2>2. n + 1 = s
    BY <1>1
  <2> QED
    BY <1>1, <2>1, <2>2
<1>2. CASE n < s - 1
  <2>1. (n + 1) % s = n + 1
    BY <1>2
  <2> QED
    BY <2>1
<1> QED
  BY <1>1, <1>2

(* The entry a proposal makes.                                               *)
LEMMA NewEntry ==
  ASSUME RecorderTypes, Recorded, pc[Root] = "propose", Drafted \subseteq Req, Counted,
         copies' = Copying, next' = (next + 1) % Slots, NEW q \in Drafted,
         NEW e, e = [seq |-> Proposal, slot |-> next]
  PROVE  e \in Entries /\ EntryInv(q, e)'
<1> USE DEF RecorderTypes
<1>1. last' = last + 1 /\ Known(q, last)'
  BY NotedKeeps DEF Recorded
<1>2. e \in Entries /\ e.seq = last' /\ e.slot = next
  BY <1>1, RingAssumption DEF Entries, Proposal
<1>3. next # next'
  <2>1. Slots \in Nat /\ Slots > 1
    BY RingAssumption
  <2>2. (next + 1) % Slots # next
    BY <2>1, NextMoves
  <2> QED
    BY <2>2
<1>4. Reached(e)'
  <2>1. /\ Len(copies') = Len(copies) + 1
        /\ \A i \in 1..Len(copies) : copies'[i] = copies[i]
        /\ copies'[Len(copies) + 1] = [seq |-> last + 1, slot |-> next]
        /\ DOMAIN copies' = 1..Len(copies') /\ Len(copies) \in Nat
        /\ CopiesInOrder'
    BY <1>1, CopyingKeeps DEF Recorded
  <2>2. \A i \in 1..Len(copies) : copies[i].seq # last + 1
    <3> TAKE i \in 1..Len(copies)
    <3>1. copies[i] \in Entries /\ copies[i].seq <= last /\ last \in Nat
      BY DEF Recorded, CopiesInOrder
    <3>2. copies[i].seq \in Nat
      BY <3>1 DEF Entries
    <3>3. \A m, n \in Nat : m <= n => m # n + 1
      OBVIOUS
    <3> QED
      BY <3>1, <3>2, <3>3
  <2>3. ~Copied(e)'
    <3>1. Len(copies) + 1 \in DOMAIN copies' /\ copies'[Len(copies) + 1].seq = e.seq
      BY <1>1, <1>2, <2>1
    <3> QED
      BY <3>1 DEF Copied
  <2>4. \A i \in DOMAIN copies' : copies'[i].seq <= e.seq
    BY <1>2, <2>1 DEF CopiesInOrder
  <2>5. \A i \in DOMAIN copies' : copies'[i].seq = e.seq => copies'[i].slot = e.slot
    <3> TAKE i \in DOMAIN copies'
    <3>1. i \in 1..Len(copies) \/ i = Len(copies) + 1
      BY <2>1
    <3> QED
      BY <1>1, <1>2, <2>1, <2>2, <3>1
  <2> QED
    BY <2>3, <2>4, <2>5 DEF Reached
<1> QED
  BY <1>1, <1>2, <1>3, <1>4 DEF EntryInv, Known

(* A recorded proposal.                                                      *)
LEMMA RecordedStep ==
  ASSUME RunTypes, Progress, RecorderTypes, Recorded, ProposeRecorded
  PROVE  RecorderTypes' /\ Recorded'
<1>1. /\ pc[Root] = "propose" /\ Counted /\ copies' = Copying
      /\ UNCHANGED slots /\ next' = (next + 1) % Slots
      /\ active' \in {"unread", "on", "off"}
  BY DEF ProposeRecorded, Counted, Recording, RecorderTypes
<1>2. Drafted \subseteq Req
  BY <1>1, DraftedKnown
<1>3. /\ made' \in [Req -> Seq(Nat \ {0})] /\ \A q \in Req : Len(made'[q]) <= 2
      /\ last' = last + 1 /\ MadeInOrder'
  BY <1>1, <1>2, NotedKeeps DEF Recorded
<1>4. copies' \in Seq(Entries) /\ CopiesInOrder'
  BY <1>1, <1>3, CopyingKeeps DEF Recorded
<1>5. next' \in 0..(Slots - 1)
  BY <1>1, RingAssumption DEF RecorderTypes
<1>6. PICK gone \in SUBSET (Req \ Drafted) : Remember(gone)
  BY DEF ProposeRecorded
<1> DEFINE new == [seq |-> Proposal, slot |-> next]
<1>7. new \in Entries
  BY RingAssumption DEF Entries, Proposal, RecorderTypes
<1>8. store' = [q \in Req |-> IF q \in Drafted THEN Two(Append(store[q], new))
                            ELSE IF q \in gone THEN <<>> ELSE store[q]]
  BY <1>6 DEF Remember, Entered
<1> HIDE DEF new
<1>9. ASSUME NEW q \in Req
      PROVE  /\ store'[q] \in Seq(Entries) /\ Len(store'[q]) <= 2
             /\ \A j \in DOMAIN store'[q] :
                  \/ \E i \in DOMAIN store[q] : store'[q][j] = store[q][i]
                  \/ q \in Drafted /\ store'[q][j] = new
  <2> DEFINE s == store[q]
  <2>1. s \in Seq(Entries) /\ Len(s) <= 2 /\ Len(s) \in Nat /\ DOMAIN s = 1..Len(s)
    BY LenProperties DEF RecorderTypes
  <2>2. CASE q \in Drafted
    <3>1. store'[q] = Two(Append(s, new))
      BY <1>8, <2>2
    <3> HIDE DEF s
    <3>2. store'[q] = IF Len(s) = 0 THEN <<new>> ELSE <<s[Len(s)], new>>
      BY <1>7, <2>1, <3>1, TwoIs
    <3>3. CASE Len(s) = 0
      BY <1>7, <2>2, <3>2, <3>3
    <3>4. CASE Len(s) # 0
      <4>1. Len(s) \in DOMAIN s /\ s[Len(s)] \in Entries
        BY <2>1, <3>4
      <4>2. store'[q] = <<s[Len(s)], new>>
        BY <3>2, <3>4
      <4>3. /\ store'[q] \in Seq(Entries) /\ Len(store'[q]) = 2 /\ DOMAIN store'[q] = {1, 2}
            /\ store'[q][1] = s[Len(s)] /\ store'[q][2] = new
        BY <1>7, <4>1, <4>2
      <4> QED
        BY <2>2, <4>1, <4>3 DEF s
    <3> QED
      BY <3>3, <3>4
  <2>3. CASE q \notin Drafted
    <3>1. CASE store'[q] = <<>>
      BY <3>1
    <3>2. CASE store'[q] = s
      <4>1. \A j \in DOMAIN s : store'[q][j] = s[j]
        BY <3>2
      <4> QED
        BY <2>1, <3>2, <4>1
    <3> QED
      BY <1>8, <2>3, <3>1, <3>2
  <2> QED
    BY <2>2, <2>3
<1>10. EntriesInv'
  <2> SUFFICES ASSUME NEW q \in Req, NEW j \in DOMAIN store'[q]
               PROVE  EntryInv(q, store[q][j])'
    BY DEF EntriesInv
  <2> DEFINE e == store'[q][j]
  <2>1. \A f \in Entries : EntryInv(q, f) => EntryInv(q, f)'
    BY <1>1, <1>2, OlderEntry
  <2>2. CASE \E i \in DOMAIN store[q] : e = store[q][i]
    <3>1. PICK i \in DOMAIN store[q] : e = store[q][i]
      BY <2>2
    <3>2. e \in Entries /\ EntryInv(q, e)
      BY <3>1 DEF Recorded, EntriesInv, RecorderTypes
    <3> QED
      BY <2>1, <3>2 DEF EntryInv, Known, Reached, Copied
  <2>3. CASE q \in Drafted /\ e = new
    <3>1. \A f : f = [seq |-> Proposal, slot |-> next] => EntryInv(q, f)'
      BY <1>1, <1>2, <2>3, NewEntry
    <3> QED
      BY <2>3, <3>1 DEF new, EntryInv, Known, Reached, Copied
  <2> QED
    BY <1>9, <2>2, <2>3
<1>11. store' \in [Req -> Seq(Entries)]
  <2>1. DOMAIN store' = Req /\ store' = [q \in DOMAIN store' |-> store'[q]]
    BY <1>8
  <2> QED
    BY <1>9, <2>1
<1> QED
  BY <1>1, <1>3, <1>4, <1>5, <1>9, <1>10, <1>11 DEF RecorderTypes, Recorded

(* A copy is made.                                                           *)
LEMMA CopyStep ==
  ASSUME RecorderTypes, Recorded, Copy
  PROVE  RecorderTypes' /\ Recorded'
<1> USE DEF RecorderTypes
<1>1. /\ copies # <<>> /\ copies' = Tail(copies)
      /\ slots' = [slots EXCEPT ![Head(copies).slot] = Head(copies).seq]
      /\ UNCHANGED <<last, active, store, next, made>>
  BY DEF Copy
<1>2. Len(copies) >= 1 /\ Len(copies) \in Nat /\ DOMAIN copies = 1..Len(copies)
      /\ Head(copies) = copies[1] /\ copies[1] \in Entries
  BY <1>1
<1>3. /\ copies' \in Seq(Entries) /\ Len(copies') = Len(copies) - 1
      /\ \A i \in 1..Len(copies') : copies'[i] = copies[i + 1]
      /\ DOMAIN copies' = 1..(Len(copies) - 1)
  BY <1>1, <1>2, HeadTailProperties
<1>4. slots' \in [0..(Slots - 1) -> Nat]
  BY <1>1, <1>2 DEF Entries
<1>5. \A i \in DOMAIN copies' : i + 1 \in DOMAIN copies /\ i + 1 # 1 /\ 1 < i + 1
                                /\ copies'[i] = copies[i + 1]
  BY <1>2, <1>3
<1>6. \A i \in DOMAIN copies : i = 1 \/ (i - 1 \in DOMAIN copies' /\ copies'[i - 1] = copies[i])
  BY <1>2, <1>3
<1>7. 1 \in DOMAIN copies
  BY <1>2
<1>8. CopiesInOrder'
  <2>1. \A i \in DOMAIN copies' : copies'[i].seq <= last'
    BY <1>1, <1>5 DEF Recorded, CopiesInOrder
  <2>2. \A i, j \in DOMAIN copies' : i < j => copies'[i].seq < copies'[j].seq
    <3> SUFFICES ASSUME NEW i \in DOMAIN copies', NEW j \in DOMAIN copies', i < j
                 PROVE  copies'[i].seq < copies'[j].seq
      OBVIOUS
    <3>1. i + 1 < j + 1
      BY <1>3
    <3> QED
      BY <1>5, <3>1 DEF Recorded, CopiesInOrder
  <2> QED
    BY <2>1, <2>2 DEF CopiesInOrder
<1>9. ASSUME NEW e \in Entries, Reached(e)
      PROVE  Reached(e)'
  <2>1. /\ \A i \in DOMAIN copies' : copies'[i].slot = e.slot => copies'[i].seq <= e.seq
        /\ \A i \in DOMAIN copies' : copies'[i].seq = e.seq => copies'[i].slot = e.slot
    BY <1>5, <1>9 DEF Reached
  <2>2. CASE Copied(e)
    <3>1. slots[e.slot] = e.seq /\ \A i \in DOMAIN copies : copies[i].slot # e.slot
      BY <1>9, <2>2 DEF Reached
    <3>2. slots'[e.slot] = e.seq
      BY <1>1, <1>2, <1>7, <3>1 DEF Entries
    <3> QED
      BY <1>5, <2>1, <3>1, <3>2 DEF Reached
  <2>3. CASE ~Copied(e)
    <3>1. ASSUME Copied(e)'
          PROVE  slots'[e.slot] = e.seq /\ \A i \in DOMAIN copies' : copies'[i].slot # e.slot
      <4>1. PICK i \in DOMAIN copies : copies[i].seq = e.seq
        BY <2>3 DEF Copied
      <4>2. i = 1
        BY <1>6, <3>1, <4>1 DEF Copied
      <4>3. copies[1].seq = e.seq /\ copies[1].slot = e.slot
        BY <1>7, <1>9, <4>1, <4>2 DEF Reached
      <4>4. slots'[e.slot] = e.seq
        BY <1>1, <1>2, <4>3 DEF Entries
      <4>5. ASSUME NEW n \in DOMAIN copies', copies'[n].slot = e.slot
            PROVE  FALSE
        <5>1. n + 1 \in DOMAIN copies /\ copies[n + 1].slot = e.slot /\ 1 < n + 1
          BY <1>5, <4>5
        <5>2. copies[1].seq < copies[n + 1].seq
          BY <1>7, <5>1 DEF Recorded, CopiesInOrder
        <5>3. copies[n + 1].seq <= e.seq
          BY <1>9, <5>1 DEF Reached
        <5>4. copies[n + 1] \in Entries
          BY <5>1
        <5>5. copies[n + 1].seq \in Nat /\ e.seq \in Nat
          BY <5>4 DEF Entries
        <5> QED
          BY <4>3, <5>2, <5>3, <5>5
      <4> QED
        BY <4>4, <4>5
    <3> QED
      BY <2>1, <3>1 DEF Reached
  <2> QED
    BY <2>2, <2>3
<1>10. EntriesInv'
  <2> SUFFICES ASSUME NEW q \in Req, NEW j \in DOMAIN store[q]
               PROVE  EntryInv(q, store[q][j])'
    BY <1>1 DEF EntriesInv
  <2> DEFINE e == store[q][j]
  <2>1. e \in Entries /\ EntryInv(q, e) /\ e' = e
    BY <1>1 DEF Recorded, EntriesInv
  <2>2. \A f \in Entries : EntryInv(q, f) => EntryInv(q, f)'
    <3> SUFFICES ASSUME NEW f \in Entries, EntryInv(q, f)
                 PROVE  EntryInv(q, f)'
      OBVIOUS
    <3>1. Reached(f) => Reached(f)'
      BY <1>9
    <3> QED
      BY <1>1, <3>1 DEF EntryInv, Known
  <2> HIDE DEF RecorderTypes
  <2> QED
    BY <2>1, <2>2 DEF EntryInv, Known, Reached, Copied
<1>11. MadeInOrder'
  BY <1>1 DEF MadeInOrder, Recorded
<1> QED
  BY <1>1, <1>3, <1>4, <1>8, <1>10, <1>11 DEF Recorded

(* Every step leaves the recorder's invariant.                               *)
LEMMA RecorderStep ==
  ASSUME RunTypes, Progress, RecorderTypes, Recorded, [Next]_vars
  PROVE  RecorderTypes' /\ Recorded'
<1>1. ASSUME UNCHANGED recorder
      PROVE  RecorderTypes' /\ Recorded'
  BY <1>1 DEF recorder, RecorderTypes, Recorded, MadeInOrder, CopiesInOrder, EntriesInv,
              EntryInv, Known, Reached, Copied
<1>2. ASSUME NEW s \in Shapes, Dispatch(s)
      PROVE  UNCHANGED recorder
  BY <1>2 DEF Dispatch
<1>3. ASSUME NEW v \in Policies, SetFlag(v)
      PROVE  UNCHANGED recorder
  BY <1>3 DEF SetFlag
<1>4. ASSUME NEW r \in Ranks, RankStep(r)
      PROVE  UNCHANGED recorder
  BY <1>4 DEF RankStep, RunUntouched, JoinFails, Receive
<1>5. CASE Decision
  <2>1. UNCHANGED recorder
    BY <1>5 DEF Decision, Poll, DecideWithout, DecideFromPrevious, AwaitCurrent,
                DecideFromCurrent
  <2> QED
    BY <1>1, <2>1
<1>6. CASE Propose
  BY <1>6, UnrecordedStep, RecordedStep DEF Propose
<1>7. CASE Copy
  BY <1>7, CopyStep
<1>8. CASE UNCHANGED vars
  BY <1>1, <1>8 DEF vars
<1> QED
  BY <1>1, <1>2, <1>3, <1>4, <1>5, <1>6, <1>7, <1>8 DEF Next

-----------------------------------------------------------------------------
(* What a decision is taken from.                                           *)

(* Rank 0 waits for the confidence of an entry it has.                       *)
Awaiting == pc[Root] = "await" => Current(Request)

LEMMA AwaitStep ==
  ASSUME RunTypes, Progress, Awaiting, [Next]_vars
  PROVE  Awaiting'
<1>0. Root \in Ranks /\ Peers \subseteq Ranks /\ Root \notin Peers
  BY RankAssumption DEF Ranks, Root
<1>1. ASSUME pc'[Root] = pc[Root], ran'[Root] = ran[Root], plan' = plan,
             UNCHANGED <<store, last>>
      PROVE  Awaiting'
  BY <1>1 DEF Awaiting, Current, Request, Step
<1>2. ASSUME NEW s \in Shapes, Dispatch(s)
      PROVE  Awaiting'
  <2>1. plan' = Append(plan, s) /\ UNCHANGED <<pc, ran, store, last>>
    BY <1>2 DEF Dispatch, runner, recorder
  <2>2. SUFFICES ASSUME pc[Root] = "await"
                 PROVE  Current(Request)'
    BY <2>1 DEF Awaiting
  <2>3. Len(ran[Root]) + 1 \in 1..Len(plan)
    BY <1>0, <2>2 DEF Progress, RunTypes
  <2>4. plan'[Len(ran[Root]) + 1] = plan[Len(ran[Root]) + 1]
    BY <2>1, <2>3 DEF RunTypes
  <2> QED
    BY <2>1, <2>2, <2>4 DEF Awaiting, Current, Request, Step
<1>3. ASSUME NEW v \in Policies, SetFlag(v)
      PROVE  Awaiting'
  BY <1>1, <1>3 DEF SetFlag, runner, recorder
<1>4. ASSUME NEW r \in Ranks, RankStep(r)
      PROVE  Awaiting'
  <2>1. UNCHANGED <<plan, store, last>>
    BY <1>4 DEF RankStep, RunUntouched, JoinFails, Receive, recorder
  <2>2. CASE JoinFails(r)
    BY <1>1, <2>1, <2>2 DEF JoinFails
  <2>3. CASE r = Root /\ ~JoinFails(r)
    <3>1. pc[Root] = "ready" /\ \E s : Verify(Root, s)
      BY <1>4, <2>3 DEF RankStep, RunUntouched, Receive, Starts
    <3>2. pc'[Root] = "propose"
      BY <1>0, <3>1 DEF Verify, RunTypes
    <3> QED
      BY <3>2 DEF Awaiting
  <2>4. CASE r # Root /\ ~JoinFails(r)
    <3>1. \E s : Verify(r, s)
      BY <1>4, <2>4 DEF RankStep, RunUntouched, Receive
    <3>2. pc'[Root] = pc[Root] /\ ran'[Root] = ran[Root]
      BY <1>0, <2>4, <3>1 DEF Verify, RunTypes
    <3> QED
      BY <1>1, <2>1, <3>2
  <2> QED
    BY <2>2, <2>3, <2>4
<1>5. CASE Poll
  BY <1>0, <1>5 DEF Poll, Awaiting, RunTypes
<1>6. CASE AwaitCurrent
  <2>1. Current(Request) /\ UNCHANGED <<plan, ran, store, last>>
    BY <1>6 DEF AwaitCurrent, recorder
  <2> QED
    BY <2>1 DEF Awaiting, Current, Request, Step
<1>7. CASE DecideWithout \/ DecideFromPrevious \/ DecideFromCurrent
  <2>1. \E s : Verify(Root, s)
    BY <1>7 DEF DecideWithout, DecideFromPrevious, DecideFromCurrent, Broadcast
  <2>2. pc'[Root] = "propose"
    BY <1>0, <2>1 DEF Verify, RunTypes
  <2> QED
    BY <2>2 DEF Awaiting
<1>8. CASE Propose
  <2>1. Counted
    BY <1>8 DEF Propose, ProposeUnrecorded, ProposeHalfRecorded, ProposeRecorded
  <2>2. pc'[Root] = "ready"
    BY <1>0, <2>1 DEF Counted, RunTypes
  <2> QED
    BY <2>2 DEF Awaiting
<1>9. CASE Copy
  BY <1>1, <1>9 DEF Copy, runner
<1>10. CASE UNCHANGED vars
  BY <1>1, <1>10 DEF vars, runner, recorder
<1> QED
  BY <1>2, <1>3, <1>4, <1>5, <1>6, <1>7, <1>8, <1>9, <1>10 DEF Next, Decision

(* A slot that is read holds the confidence of the draft it stands for.      *)
LEMMA ReadingRight ==
  ASSUME RecorderTypes, Recorded, NEW q \in Req, NEW index \in {0, 1},
         Current(q), index = 1 => HasPrevious(q), Copied(Entry(q, index))
  PROVE  Reading(q, index) \in Source /\ Reading(q, index).holds = Reading(q, index).draft
<1> USE DEF RecorderTypes
<1> DEFINE s == store[q]
           e == Entry(q, index)
           d == made[q]
<1>1. s \in Seq(Entries) /\ Len(s) \in Nat /\ Len(s) <= 2 /\ DOMAIN s = 1..Len(s)
      /\ d \in Seq(Nat \ {0}) /\ Len(d) \in Nat /\ Len(d) <= 2 /\ DOMAIN d = 1..Len(d)
  BY LenProperties
<1>2. Len(s) >= 1 /\ s[Len(s)].seq = last /\ Len(s) \in DOMAIN s
  <2>1. s # <<>> /\ Last(s) = s[Len(s)] /\ Last(s).seq = last
    BY DEF Current, Last
  <2>2. Len(s) # 0
    BY <1>1, <2>1, EmptySeq
  <2> QED
    BY <1>1, <2>1, <2>2
<1>3. EntryInv(q, s[Len(s)])
  BY <1>2 DEF Recorded, EntriesInv
<1>4. PICK j \in DOMAIN d : d[j] = last
  BY <1>2, <1>3 DEF EntryInv, Known
<1>5. /\ \A i \in DOMAIN d : d[i] \in Nat \ {0} /\ d[i] <= last
      /\ Len(d) = 2 => d[1] < d[2]
  BY DEF Recorded, MadeInOrder
<1>6. j = Len(d)
  <2> HIDE DEF d
  <2>1. \A n \in Nat : \A i \in 1..n : n <= 2 /\ i # n => n = 2 /\ i = 1
    OBVIOUS
  <2>2. ASSUME j # Len(d)
        PROVE  FALSE
    <3>1. Len(d) = 2 /\ j = 1
      <4>1. Len(d) \in Nat /\ j \in 1..Len(d) /\ Len(d) <= 2
        BY <1>1, <1>4
      <4> QED
        BY <2>1, <2>2, <4>1
    <3>2. d[1] = last /\ d[1] < d[2] /\ d[2] <= last /\ d[2] \in Nat
      BY <1>1, <1>4, <1>5, <3>1
    <3> QED
      BY <3>2
  <2> QED
    BY <2>2
<1>7. CASE index = 0
  <2>1. e = s[Len(s)]
    BY <1>1, <1>7 DEF Entry
  <2>2. Reached(e) /\ e.seq = last /\ e \in Entries
    BY <1>1, <1>2, <1>3, <2>1 DEF EntryInv
  <2>3. slots[e.slot] = last /\ slots[e.slot] \in Nat
    BY <2>2 DEF Reached
  <2>4. d[Len(d) - index] = last /\ last \in Nat \ {0}
    BY <1>1, <1>4, <1>5, <1>6, <1>7
  <2>5. Reading(q, index) = [index |-> index, holds |-> last, draft |-> last]
    BY <2>3, <2>4 DEF Reading
  <2> QED
    BY <2>4, <2>5 DEF Source
<1>8. CASE index = 1
  <2>1. e = s[1] /\ e.seq = last - 1 /\ e \in Entries /\ 1 \in DOMAIN s
    BY <1>1, <1>8 DEF Entry, HasPrevious
  <2>2. EntryInv(q, e)
    BY <2>1 DEF Recorded, EntriesInv
  <2>3. Reached(e) /\ Known(q, e.seq)
    BY <2>1, <2>2 DEF EntryInv
  <2>4. PICK i \in DOMAIN d : d[i] = last - 1
    BY <2>1, <2>3 DEF Known
  <2>5. slots[e.slot] = last - 1
    BY <2>1, <2>3, <1>8 DEF Reached
  <2>6. i # j
    BY <1>4, <2>4
  <2>7. Len(d) = 2 /\ i = 1
    <3> HIDE DEF d
    <3>1. \A n \in Nat : \A k \in 1..n : n <= 2 /\ k # n => n = 2 /\ k = 1
      OBVIOUS
    <3>2. i # Len(d) /\ i \in 1..Len(d)
      BY <1>1, <1>6, <2>4, <2>6
    <3>3. Len(d) \in Nat /\ Len(d) <= 2
      BY <1>1
    <3> QED
      BY <3>1, <3>2, <3>3
  <2>8. d[Len(d) - index] = last - 1 /\ last - 1 \in Nat \ {0}
    BY <1>5, <1>8, <2>4, <2>7
  <2>9. Reading(q, index) = [index |-> index, holds |-> last - 1, draft |-> last - 1]
    BY <2>5, <2>8 DEF Reading
  <2> QED
    BY <2>8, <2>9 DEF Source
<1> QED
  BY <1>7, <1>8

(* A decision is taken from a draft that exists, and from its confidence.    *)
SourceRight == used \in Source /\ RightConfidence

LEMMA SourceStep ==
  ASSUME RunTypes, Progress, RecorderTypes, Recorded, Awaiting, SourceRight, [Next]_vars
  PROVE  SourceRight'
<1>1. ASSUME UNCHANGED used
      PROVE  SourceRight'
  BY <1>1 DEF SourceRight, RightConfidence, Source, None
<1>2. ASSUME used' = None
      PROVE  SourceRight'
  BY <1>2 DEF SourceRight, RightConfidence, Source, None
<1>3. ASSUME NEW index \in {0, 1}, used' = Reading(Request, index), Current(Request),
             index = 1 => HasPrevious(Request), Copied(Entry(Request, index)),
             Participates(Step(Root))
      PROVE  SourceRight'
  <2>1. Reading(Request, index) \in Source
        /\ Reading(Request, index).holds = Reading(Request, index).draft
    BY <1>3, ParticipantKnown, ReadingRight
  <2>2. used' \in Source /\ used'.holds = used'.draft
    BY <1>3, <2>1
  <2> QED
    BY <2>2 DEF SourceRight, RightConfidence, Source, None
<1>4. ASSUME NEW s \in Shapes, Dispatch(s)
      PROVE  UNCHANGED used
  BY <1>4 DEF Dispatch, runner
<1>5. ASSUME NEW v \in Policies, SetFlag(v)
      PROVE  UNCHANGED used
  BY <1>5 DEF SetFlag, runner
<1>6. ASSUME NEW r \in Ranks, RankStep(r)
      PROVE  UNCHANGED used
  BY <1>6 DEF RankStep, RunUntouched, JoinFails, Receive
<1>7. CASE Poll \/ AwaitCurrent
  BY <1>1, <1>7 DEF Poll, AwaitCurrent
<1>8. CASE DecideWithout
  BY <1>2, <1>8 DEF DecideWithout, Broadcast
<1>9. CASE DecideFromPrevious
  <2>1. pc[Root] = "polled" /\ PreviousReady(Request) /\ used' = Reading(Request, 1)
    BY <1>9 DEF DecideFromPrevious, Broadcast
  <2>2. Participates(Step(Root))
    BY <2>1 DEF Progress
  <2> QED
    BY <1>3, <2>1, <2>2 DEF PreviousReady, HasPrevious
<1>10. CASE DecideFromCurrent
  <2>1. pc[Root] = "await" /\ Copied(Entry(Request, 0)) /\ used' = Reading(Request, 0)
    BY <1>10 DEF DecideFromCurrent, Broadcast
  <2>2. Participates(Step(Root)) /\ Current(Request)
    BY <2>1 DEF Progress, Awaiting
  <2> QED
    BY <1>3, <2>1, <2>2
<1>11. CASE Propose
  BY <1>2, <1>11 DEF Propose, ProposeUnrecorded, ProposeHalfRecorded, ProposeRecorded, Counted
<1>12. CASE Copy
  BY <1>1, <1>12 DEF Copy, runner
<1>13. CASE UNCHANGED vars
  BY <1>1, <1>13 DEF vars, runner
<1> QED
  BY <1>1, <1>4, <1>5, <1>6, <1>7, <1>8, <1>9, <1>10, <1>11, <1>12, <1>13 DEF Next, Decision

-----------------------------------------------------------------------------
IInv ==
  RunTypes /\ Progress /\ RecorderTypes /\ Recorded /\ Awaiting /\ SourceRight

LEMMA StartsRight == Init => IInv
<1> SUFFICES ASSUME Init
             PROVE  IInv
  OBVIOUS
<1>0. Root \in Ranks /\ Peers \subseteq Ranks /\ Root \notin Peers
  BY RankAssumption DEF Ranks, Root
<1>1. RunTypes
  <2>1. /\ plan = <<>> /\ flag \in Policies /\ flips = 0 /\ down = FALSE /\ built = {}
        /\ polled = "unread" /\ pc = [r \in Ranks |-> "ready"]
    BY DEF Init
  <2>2. ran \in [Ranks -> Seq(Verified)]
    BY DEF Init
  <2>3. mail \in [Peers -> Seq(Lengths)]
    BY DEF Init
  <2>4. plan \in Seq(Shapes) /\ flips \in 0..MaxFlips
    BY <2>1, BoundAssumption
  <2>5. pc \in [Ranks -> {"ready", "polled", "await", "propose"}]
    BY <2>1
  <2> QED
    BY <2>1, <2>2, <2>3, <2>4, <2>5 DEF RunTypes
<1>2. Progress
  <2>1. /\ plan = <<>> /\ pc[Root] = "ready"
        /\ \A r \in Ranks : ran[r] = <<>>
        /\ \A r \in Peers : pc[r] = "ready"
    BY <1>0 DEF Init
  <2>2. \A r \in Ranks : Len(ran[r]) <= Len(plan)
    <3>1. Len(<<>>) <= Len(<<>>)
      OBVIOUS
    <3> QED
      BY <2>1, <3>1
  <2> QED
    BY <2>1, <2>2 DEF Progress
<1>3. RecorderTypes
  BY RingAssumption DEF Init, RecorderTypes
<1>4. Recorded
  BY DEF Init, Recorded, MadeInOrder, CopiesInOrder, EntriesInv
<1>5. Awaiting
  BY <1>0 DEF Init, Awaiting
<1>6. SourceRight
  BY DEF Init, SourceRight, RightConfidence, Source
<1> QED
  BY <1>1, <1>2, <1>3, <1>4, <1>5, <1>6 DEF IInv

LEMMA RunnerInductive == Spec => []IInv
<1>1. Init => IInv
  BY StartsRight
<1>2. IInv /\ [Next]_vars => IInv'
  <2> SUFFICES ASSUME IInv, [Next]_vars
               PROVE  IInv'
    OBVIOUS
  <2>1. RunTypes' /\ Progress'
    BY RunStep DEF IInv
  <2>2. RecorderTypes' /\ Recorded'
    BY RecorderStep DEF IInv
  <2>3. Awaiting'
    BY AwaitStep DEF IInv
  <2>4. SourceRight'
    BY SourceStep DEF IInv
  <2> QED
    BY <2>1, <2>2, <2>3, <2>4 DEF IInv
<1> QED
  BY <1>1, <1>2, PTL DEF Spec

(* RunnerK.TypeOK holds for any number of ranks and requests: slots, copies and *)
(* entries stay within the ring, whatever failed while they were recorded.     *)
THEOREM RunnerTypeCorrect == Spec => []TypeOK
<1>1. IInv => TypeOK
  BY DEF IInv, RunTypes, RecorderTypes, SourceRight, TypeOK
<1> QED
  BY <1>1, RunnerInductive, PTL

(* The confidence a length is decided from is that of the draft it stands for, *)
(* with any number of slots from two up.                                       *)
THEOREM ConfidenceIsRight == Spec => []RightConfidence
<1>1. IInv => RightConfidence
  BY DEF IInv, SourceRight
<1> QED
  BY <1>1, RunnerInductive, PTL

-----------------------------------------------------------------------------
(* What a peer has been told.  P is the plan, R what rank 0 has run of it, S  *)
(* what the peer has run, M its mailbox.                                     *)

(* The mailbox holds, in order, rank 0's decisions on the steps the peer is   *)
(* behind: at[j] is the step the j-th was taken on.                          *)
Waiting(P, R, S, M, at) ==
  /\ at \in [1..Len(M) -> Nat]
  /\ \A j \in 1..Len(M) : at[j] > Len(S) /\ at[j] <= Len(R)
  /\ \A j, k \in 1..Len(M) : j < k => at[j] < at[k]
  /\ \A i \in 1..Len(R) : i > Len(S) /\ Participates(P[i]) => \E j \in 1..Len(M) : at[j] = i
  /\ \A j \in 1..Len(M) :
       Participates(P[at[j]]) /\ R[at[j]] = Trimmed(P[at[j]], M[j])

(* The peer has run what rank 0 has; ahead of it, only what takes no decision. *)
Told(P, R, S, M) ==
  /\ \A i \in 1..Len(R) : ~Participates(P[i]) => R[i] = P[i]
  /\ \A i \in 1..Len(S) : i <= Len(R) => S[i] = R[i]
  /\ \A i \in 1..Len(S) : i > Len(R) => ~Participates(P[i]) /\ S[i] = P[i]
  /\ \E at \in [1..Len(M) -> Nat] : Waiting(P, R, S, M, at)

(* A step dispatched is behind everything that was run.                      *)
LEMMA ToldOfPlan ==
  ASSUME NEW P \in Seq(Shapes), NEW R \in Seq(Verified), NEW S \in Seq(Verified),
         NEW M \in Seq(Lengths), NEW s \in Shapes,
         Len(R) <= Len(P), Len(S) <= Len(P), Told(P, R, S, M)
  PROVE  Told(Append(P, s), R, S, M)
<1> DEFINE Q == Append(P, s)
<1>1. \A i \in 1..Len(P) : Q[i] = P[i]
  OBVIOUS
<1>2. /\ Len(P) \in Nat /\ Len(R) \in Nat /\ Len(S) \in Nat /\ Len(M) \in Nat
      /\ \A i \in 1..Len(R) : i \in 1..Len(P)
      /\ \A i \in 1..Len(S) : i \in 1..Len(P)
  BY LenProperties
<1> HIDE DEF Q
<1>3. PICK at \in [1..Len(M) -> Nat] : Waiting(P, R, S, M, at)
  BY DEF Told
<1>4. \A i \in 1..Len(R) : Q[i] = P[i]
  BY <1>1, <1>2
<1>5. \A i \in 1..Len(S) : Q[i] = P[i]
  BY <1>1, <1>2
<1>6. \A j \in 1..Len(M) : Q[at[j]] = P[at[j]]
  <2> SUFFICES ASSUME NEW j \in 1..Len(M)
               PROVE  at[j] \in 1..Len(R)
    BY <1>4
  <2>1. at[j] \in Nat /\ at[j] > Len(S) /\ at[j] <= Len(R)
    BY <1>3 DEF Waiting
  <2> QED
    BY <1>2, <2>1
<1>7. Waiting(Q, R, S, M, at)
  BY <1>3, <1>4, <1>6 DEF Waiting
<1> QED
  BY <1>3, <1>4, <1>5, <1>7 DEF Told, Q

(* Rank 0 runs a step that takes no decision.                                *)
LEMMA ToldOfRoot ==
  ASSUME NEW P \in Seq(Shapes), NEW R \in Seq(Verified), NEW S \in Seq(Verified),
         NEW M \in Seq(Lengths), Len(R) < Len(P), Told(P, R, S, M),
         ~Participates(P[Len(R) + 1]), NEW v \in Verified, v = P[Len(R) + 1]
  PROVE  Told(P, Append(R, v), S, M)
<1> DEFINE T == Append(R, v)
<1>1. /\ Len(R) \in Nat /\ Len(S) \in Nat /\ Len(M) \in Nat
      /\ Len(T) = Len(R) + 1 /\ T[Len(R) + 1] = v /\ \A i \in 1..Len(R) : T[i] = R[i]
  BY LenProperties
<1> HIDE DEF T
<1>2. \A n \in Nat : \A i \in 1..(n + 1) : i \in 1..n \/ i = n + 1
  OBVIOUS
<1>3. \A i \in 1..Len(T) : ~Participates(P[i]) => T[i] = P[i]
  BY <1>1, <1>2 DEF Told
<1>4. \A i \in 1..Len(S) : i <= Len(T) => S[i] = T[i]
  <2> SUFFICES ASSUME NEW i \in 1..Len(S), i <= Len(T)
               PROVE  S[i] = T[i]
    OBVIOUS
  <2>1. CASE i <= Len(R)
    <3>1. i \in 1..Len(R)
      BY <1>1, <2>1
    <3> QED
      BY <1>1, <2>1, <3>1 DEF Told
  <2>2. CASE i > Len(R)
    <3>1. i = Len(R) + 1
      BY <1>1, <2>2
    <3> QED
      BY <1>1, <2>2, <3>1 DEF Told
  <2> QED
    BY <1>1, <2>1, <2>2
<1>5. \A i \in 1..Len(S) : i > Len(T) => ~Participates(P[i]) /\ S[i] = P[i]
  <2> SUFFICES ASSUME NEW i \in 1..Len(S), i > Len(T)
               PROVE  i > Len(R)
    BY DEF Told
  <2> QED
    BY <1>1
<1>6. PICK at \in [1..Len(M) -> Nat] : Waiting(P, R, S, M, at)
  BY DEF Told
<1>7. \A j \in 1..Len(M) : at[j] > Len(S) /\ at[j] <= Len(T) /\ at[j] \in 1..Len(R)
  <2> SUFFICES ASSUME NEW j \in 1..Len(M)
               PROVE  at[j] > Len(S) /\ at[j] <= Len(T) /\ at[j] \in 1..Len(R)
    OBVIOUS
  <2>1. at[j] \in Nat /\ at[j] > Len(S) /\ at[j] <= Len(R)
    BY <1>6 DEF Waiting
  <2> QED
    BY <1>1, <2>1
<1>8. \A i \in 1..Len(T) : i > Len(S) /\ Participates(P[i]) => \E j \in 1..Len(M) : at[j] = i
  BY <1>1, <1>2, <1>6 DEF Waiting
<1>9. Waiting(P, T, S, M, at)
  BY <1>1, <1>6, <1>7, <1>8 DEF Waiting
<1> QED
  BY <1>3, <1>4, <1>5, <1>9 DEF Told, T

(* The peer does.                                                            *)
LEMMA ToldOfPeer ==
  ASSUME NEW P \in Seq(Shapes), NEW R \in Seq(Verified), NEW S \in Seq(Verified),
         NEW M \in Seq(Lengths), Told(P, R, S, M),
         ~Participates(P[Len(S) + 1]), NEW v \in Verified, v = P[Len(S) + 1]
  PROVE  Told(P, R, Append(S, v), M)
<1> DEFINE T == Append(S, v)
<1>1. /\ Len(R) \in Nat /\ Len(S) \in Nat /\ Len(M) \in Nat
      /\ Len(T) = Len(S) + 1 /\ T[Len(S) + 1] = v /\ \A i \in 1..Len(S) : T[i] = S[i]
  BY LenProperties
<1> HIDE DEF T
<1>2. \A n \in Nat : \A i \in 1..(n + 1) : i \in 1..n \/ i = n + 1
  OBVIOUS
<1>3. Len(S) + 1 <= Len(R) => Len(S) + 1 \in 1..Len(R)
  BY <1>1
<1>4. \A i \in 1..Len(T) : i <= Len(R) => T[i] = R[i]
  BY <1>1, <1>2, <1>3 DEF Told
<1>5. \A i \in 1..Len(T) : i > Len(R) => ~Participates(P[i]) /\ T[i] = P[i]
  BY <1>1, <1>2 DEF Told
<1>6. PICK at \in [1..Len(M) -> Nat] : Waiting(P, R, S, M, at)
  BY DEF Told
<1>7. \A j \in 1..Len(M) : at[j] > Len(T) /\ at[j] <= Len(R)
  <2> SUFFICES ASSUME NEW j \in 1..Len(M)
               PROVE  at[j] > Len(T) /\ at[j] <= Len(R)
    OBVIOUS
  <2>1. at[j] \in Nat /\ at[j] > Len(S) /\ at[j] <= Len(R) /\ Participates(P[at[j]])
    BY <1>6 DEF Waiting
  <2>2. at[j] # Len(S) + 1
    BY <2>1
  <2> QED
    BY <1>1, <2>1, <2>2
<1>8. \A i \in 1..Len(R) : i > Len(T) /\ Participates(P[i]) => \E j \in 1..Len(M) : at[j] = i
  <2> SUFFICES ASSUME NEW i \in 1..Len(R), i > Len(T)
               PROVE  i > Len(S)
    BY <1>6 DEF Waiting
  <2> QED
    BY <1>1
<1>9. Waiting(P, R, T, M, at)
  BY <1>1, <1>6, <1>7, <1>8 DEF Waiting
<1> QED
  BY <1>4, <1>5, <1>9 DEF Told, T

(* Rank 0 decides: no peer is past the step, and the decision is the last in  *)
(* every mailbox.                                                            *)
LEMMA ToldOfDecision ==
  ASSUME NEW P \in Seq(Shapes), NEW R \in Seq(Verified), NEW S \in Seq(Verified),
         NEW M \in Seq(Lengths), Told(P, R, S, M), NEW k \in Lengths,
         Participates(P[Len(R) + 1]), NEW v \in Verified, v = Trimmed(P[Len(R) + 1], k)
  PROVE  Told(P, Append(R, v), S, Append(M, k))
<1> DEFINE T == Append(R, v)
           B == Append(M, k)
<1>1. /\ Len(R) \in Nat /\ Len(S) \in Nat /\ Len(M) \in Nat
      /\ Len(T) = Len(R) + 1 /\ T[Len(R) + 1] = v /\ \A i \in 1..Len(R) : T[i] = R[i]
      /\ Len(B) = Len(M) + 1 /\ B[Len(M) + 1] = k /\ \A i \in 1..Len(M) : B[i] = M[i]
  BY LenProperties
<1> HIDE DEF T, B
<1>2. \A n \in Nat : \A i \in 1..(n + 1) : i \in 1..n \/ i = n + 1
  OBVIOUS
<1>3. Len(S) <= Len(R)
  <2> SUFFICES ASSUME Len(S) > Len(R)
               PROVE  FALSE
    BY <1>1
  <2>1. Len(R) + 1 \in 1..Len(S) /\ Len(R) + 1 > Len(R)
    BY <1>1
  <2> QED
    BY <2>1 DEF Told
<1>4. \A i \in 1..Len(T) : ~Participates(P[i]) => T[i] = P[i]
  BY <1>1, <1>2 DEF Told
<1>5. \A i \in 1..Len(S) : S[i] = T[i] /\ ~(i > Len(T))
  <2> SUFFICES ASSUME NEW i \in 1..Len(S)
               PROVE  S[i] = T[i] /\ ~(i > Len(T))
    OBVIOUS
  <2>1. i \in 1..Len(R) /\ i <= Len(R) /\ ~(i > Len(T))
    BY <1>1, <1>3
  <2> QED
    BY <1>1, <2>1 DEF Told
<1>6. PICK at \in [1..Len(M) -> Nat] : Waiting(P, R, S, M, at)
  BY DEF Told
<1> DEFINE to == [j \in 1..Len(B) |-> IF j \in 1..Len(M) THEN at[j] ELSE Len(R) + 1]
<1>7. /\ to \in [1..Len(B) -> Nat] /\ Len(M) + 1 \in 1..Len(B) /\ to[Len(M) + 1] = Len(R) + 1
      /\ \A j \in 1..Len(M) : j \in 1..Len(B) /\ to[j] = at[j]
      /\ \A j \in 1..Len(B) : j \in 1..Len(M) \/ j = Len(M) + 1
  BY <1>1, <1>6
<1> HIDE DEF to
<1>8. \A j \in 1..Len(M) : at[j] \in Nat /\ at[j] > Len(S) /\ at[j] <= Len(R)
                          /\ at[j] \in 1..Len(R)
  <2> SUFFICES ASSUME NEW j \in 1..Len(M)
               PROVE  at[j] \in Nat /\ at[j] > Len(S) /\ at[j] <= Len(R)
                      /\ at[j] \in 1..Len(R)
    OBVIOUS
  <2>1. at[j] \in Nat /\ at[j] > Len(S) /\ at[j] <= Len(R)
    BY <1>6 DEF Waiting
  <2> QED
    BY <1>1, <2>1
<1>9. \A j \in 1..Len(B) : to[j] > Len(S) /\ to[j] <= Len(T)
  <2>1. Len(R) + 1 > Len(S) /\ Len(R) + 1 <= Len(T)
    BY <1>1, <1>3
  <2>2. \A n \in Nat : n <= Len(R) => n <= Len(T)
    BY <1>1
  <2> QED
    BY <1>7, <1>8, <2>1, <2>2
<1>10. \A j, l \in 1..Len(B) : j < l => to[j] < to[l]
  <2> SUFFICES ASSUME NEW j \in 1..Len(B), NEW l \in 1..Len(B), j < l
               PROVE  to[j] < to[l]
    OBVIOUS
  <2>1. j \in 1..Len(M)
    BY <1>1
  <2>2. CASE l \in 1..Len(M)
    BY <1>6, <1>7, <2>1, <2>2 DEF Waiting
  <2>3. CASE l = Len(M) + 1
    <3>1. to[j] = at[j] /\ to[l] = Len(R) + 1
      BY <1>7, <2>1, <2>3
    <3>2. at[j] \in Nat /\ at[j] <= Len(R)
      BY <1>8, <2>1
    <3> QED
      BY <1>1, <3>1, <3>2
  <2> QED
    BY <1>7, <2>2, <2>3
<1>11. \A i \in 1..Len(T) : i > Len(S) /\ Participates(P[i]) => \E j \in 1..Len(B) : to[j] = i
  <2> SUFFICES ASSUME NEW i \in 1..Len(T), i > Len(S), Participates(P[i])
               PROVE  \E j \in 1..Len(B) : to[j] = i
    OBVIOUS
  <2>1. CASE i \in 1..Len(R)
    <3>1. PICK j \in 1..Len(M) : at[j] = i
      BY <1>6, <2>1 DEF Waiting
    <3> QED
      BY <1>7, <3>1
  <2>2. CASE i = Len(R) + 1
    BY <1>7, <2>2
  <2> QED
    BY <1>1, <1>2, <2>1, <2>2
<1>12. \A j \in 1..Len(B) : Participates(P[to[j]]) /\ T[to[j]] = Trimmed(P[to[j]], B[j])
  <2> SUFFICES ASSUME NEW j \in 1..Len(B)
               PROVE  Participates(P[to[j]]) /\ T[to[j]] = Trimmed(P[to[j]], B[j])
    OBVIOUS
  <2>1. CASE j \in 1..Len(M)
    <3>1. to[j] = at[j] /\ B[j] = M[j] /\ T[at[j]] = R[at[j]]
      BY <1>1, <1>7, <1>8, <2>1
    <3> QED
      BY <1>6, <2>1, <3>1 DEF Waiting
  <2>2. CASE j = Len(M) + 1
    BY <1>1, <1>7, <2>2
  <2> QED
    BY <1>7, <2>1, <2>2
<1>13. Waiting(P, T, S, B, to)
  BY <1>7, <1>9, <1>10, <1>11, <1>12 DEF Waiting
<1> QED
  BY <1>4, <1>5, <1>7, <1>13 DEF Told, T, B

(* The peer receives: the head of its mailbox is about the step it is at.     *)
LEMMA ToldOfReceipt ==
  ASSUME NEW P \in Seq(Shapes), NEW R \in Seq(Verified), NEW S \in Seq(Verified),
         NEW M \in Seq(Lengths), M # <<>>, Told(P, R, S, M),
         Participates(P[Len(S) + 1]), NEW v \in Verified,
         v = Trimmed(P[Len(S) + 1], Head(M))
  PROVE  Told(P, R, Append(S, v), Tail(M))
<1> DEFINE T == Append(S, v)
           B == Tail(M)
<1>1. /\ Len(R) \in Nat /\ Len(S) \in Nat /\ Len(M) \in Nat
      /\ Len(T) = Len(S) + 1 /\ T[Len(S) + 1] = v /\ \A i \in 1..Len(S) : T[i] = S[i]
  BY LenProperties
<1>2. /\ Len(B) = Len(M) - 1 /\ Len(M) >= 1 /\ Head(M) = M[1]
      /\ \A i \in 1..Len(B) : B[i] = M[i + 1]
  <2>1. Len(M) # 0
    BY EmptySeq
  <2>2. Len(B) = Len(M) - 1 /\ \A i \in 1..Len(B) : B[i] = M[i + 1]
    BY HeadTailProperties
  <2> QED
    BY <1>1, <2>1, <2>2
<1> HIDE DEF T, B
<1>3. \A n \in Nat : \A i \in 1..(n + 1) : i \in 1..n \/ i = n + 1
  OBVIOUS
<1>4. PICK at \in [1..Len(M) -> Nat] : Waiting(P, R, S, M, at)
  BY DEF Told
<1>5. 1 \in 1..Len(M) /\ at[1] \in Nat /\ at[1] > Len(S) /\ at[1] <= Len(R)
  <2>1. 1 \in 1..Len(M)
    BY <1>1, <1>2
  <2> QED
    BY <1>4, <2>1 DEF Waiting
<1>6. Len(S) + 1 \in 1..Len(R) /\ Len(S) + 1 > Len(S)
  BY <1>1, <1>5
<1>7. at[1] = Len(S) + 1
  <2>1. PICK j \in 1..Len(M) : at[j] = Len(S) + 1
    BY <1>4, <1>6 DEF Waiting
  <2>2. 1 < j => at[1] < at[j]
    BY <1>4, <1>5 DEF Waiting
  <2>3. j = 1 \/ 1 < j
    BY <1>1
  <2> QED
    BY <1>1, <1>5, <2>1, <2>2, <2>3
<1>8. v = R[Len(S) + 1]
  BY <1>2, <1>4, <1>5, <1>7 DEF Waiting
<1>9. \A i \in 1..Len(T) : i <= Len(R) => T[i] = R[i]
  BY <1>1, <1>3, <1>8 DEF Told
<1>10. \A i \in 1..Len(T) : ~(i > Len(R))
  <2> SUFFICES ASSUME NEW i \in 1..Len(T), i > Len(R)
               PROVE  FALSE
    OBVIOUS
  <2> QED
    BY <1>1, <1>6
<1> DEFINE to == [j \in 1..Len(B) |-> at[j + 1]]
<1>11. \A j \in 1..Len(B) : j + 1 \in 1..Len(M) /\ 1 < j + 1
  BY <1>1, <1>2
<1>12. to \in [1..Len(B) -> Nat] /\ \A j \in 1..Len(B) : to[j] = at[j + 1]
  BY <1>4, <1>11
<1> HIDE DEF to
<1>13. \A j \in 1..Len(B) : to[j] > Len(T) /\ to[j] <= Len(R)
  <2> SUFFICES ASSUME NEW j \in 1..Len(B)
               PROVE  to[j] > Len(T) /\ to[j] <= Len(R)
    OBVIOUS
  <2>1. at[1] < at[j + 1] /\ at[j + 1] <= Len(R) /\ at[j + 1] \in Nat
    BY <1>4, <1>5, <1>11 DEF Waiting
  <2> QED
    BY <1>1, <1>7, <1>12, <2>1
<1>14. \A j, l \in 1..Len(B) : j < l => to[j] < to[l]
  <2> SUFFICES ASSUME NEW j \in 1..Len(B), NEW l \in 1..Len(B), j < l
               PROVE  to[j] < to[l]
    OBVIOUS
  <2>1. j + 1 < l + 1
    OBVIOUS
  <2> QED
    BY <1>4, <1>11, <1>12, <2>1 DEF Waiting
<1>15. \A i \in 1..Len(R) : i > Len(T) /\ Participates(P[i]) => \E j \in 1..Len(B) : to[j] = i
  <2> SUFFICES ASSUME NEW i \in 1..Len(R), i > Len(T), Participates(P[i])
               PROVE  \E j \in 1..Len(B) : to[j] = i
    OBVIOUS
  <2>1. i > Len(S) /\ i # Len(S) + 1
    BY <1>1
  <2>2. PICK j \in 1..Len(M) : at[j] = i
    BY <1>4, <2>1 DEF Waiting
  <2>3. j # 1
    BY <1>7, <2>1, <2>2
  <2>4. j - 1 \in 1..Len(B) /\ (j - 1) + 1 = j
    BY <1>1, <1>2, <2>3
  <2> QED
    BY <1>12, <2>2, <2>4
<1>16. \A j \in 1..Len(B) : Participates(P[to[j]]) /\ R[to[j]] = Trimmed(P[to[j]], B[j])
  <2> SUFFICES ASSUME NEW j \in 1..Len(B)
               PROVE  Participates(P[to[j]]) /\ R[to[j]] = Trimmed(P[to[j]], B[j])
    OBVIOUS
  <2>1. to[j] = at[j + 1] /\ B[j] = M[j + 1] /\ j + 1 \in 1..Len(M)
    BY <1>2, <1>11, <1>12
  <2>2. Participates(P[at[j + 1]]) /\ R[at[j + 1]] = Trimmed(P[at[j + 1]], M[j + 1])
    BY <1>4, <2>1 DEF Waiting
  <2> QED
    BY <2>1, <2>2
<1>17. Waiting(P, R, T, B, to)
  BY <1>12, <1>13, <1>14, <1>15, <1>16 DEF Waiting
<1> QED
  BY <1>9, <1>10, <1>12, <1>17 DEF Told, T, B

PeersTold == \A p \in Peers : Told(plan, ran[Root], ran[p], mail[p])

(* Every step leaves every peer told.                                        *)
LEMMA ToldStep ==
  ASSUME RunTypes, Progress, PeersTold, [Next]_vars
  PROVE  PeersTold'
<1>0. Root \in Ranks /\ Peers \subseteq Ranks /\ Root \notin Peers
      /\ \A r \in Ranks : r # Root => r \in Peers
  BY RankAssumption DEF Ranks, Root
<1>a. /\ plan \in Seq(Shapes) /\ \A r \in Ranks : ran[r] \in Seq(Verified)
      /\ \A r \in Peers : mail[r] \in Seq(Lengths)
  BY DEF RunTypes
<1>b. ASSUME NEW r \in Ranks, NEW s \in Verified, Verify(r, s)
      PROVE  /\ ran'[r] = Append(ran[r], s)
             /\ \A o \in Ranks : o # r => ran'[o] = ran[o]
  BY <1>b DEF Verify, RunTypes
<1>c. \A r \in Ranks : Len(ran[r]) \in Nat /\ Len(plan) \in Nat
  BY <1>a, LenProperties
<1>d. ASSUME NEW r \in Ranks, Len(ran[r]) < Len(plan)
      PROVE  Step(r) \in Shapes
  <2>1. Len(ran[r]) + 1 \in 1..Len(plan)
    BY <1>c, <1>d
  <2> QED
    BY <1>a, <2>1 DEF Step
<1>1. ASSUME UNCHANGED <<plan, ran, mail>>
      PROVE  PeersTold'
  BY <1>1 DEF PeersTold, Told, Waiting
<1>2. ASSUME NEW s \in Shapes, Dispatch(s)
      PROVE  PeersTold'
  <2> SUFFICES ASSUME NEW p \in Peers
               PROVE  Told(plan', ran'[Root], ran'[p], mail'[p])
    BY DEF PeersTold
  <2>1. plan' = Append(plan, s) /\ UNCHANGED <<ran, mail>>
    BY <1>2 DEF Dispatch, runner
  <2>2. Len(ran[Root]) <= Len(plan) /\ Len(ran[p]) <= Len(plan)
    BY <1>0 DEF Progress
  <2>3. Told(plan, ran[Root], ran[p], mail[p])
    BY DEF PeersTold
  <2>4. Told(Append(plan, s), ran[Root], ran[p], mail[p])
    BY <1>0, <1>a, <2>2, <2>3, ToldOfPlan
  <2> QED
    BY <2>1, <2>4
<1>3. ASSUME NEW v \in Policies, SetFlag(v)
      PROVE  PeersTold'
  BY <1>1, <1>3 DEF SetFlag, runner
<1>4. ASSUME NEW r \in Ranks, RunUntouched(r)
      PROVE  PeersTold'
  <2> SUFFICES ASSUME NEW p \in Peers
               PROVE  Told(plan', ran'[Root], ran'[p], mail'[p])
    BY DEF PeersTold
  <2>1. /\ Len(ran[r]) < Len(plan) /\ ~Participates(Step(r)) /\ Verify(r, Step(r))
        /\ UNCHANGED <<plan, mail>>
    BY <1>4 DEF RunUntouched, Starts
  <2>2. Step(r) \in Verified
    BY <1>d, <2>1, VerifiedShapes
  <2>3. ran'[r] = Append(ran[r], Step(r)) /\ \A o \in Ranks : o # r => ran'[o] = ran[o]
    BY <1>b, <2>1, <2>2
  <2>4. Told(plan, ran[Root], ran[p], mail[p])
    BY DEF PeersTold
  <2>5. CASE r = Root
    <3>1. Told(plan, Append(ran[Root], Step(Root)), ran[p], mail[p])
      BY <1>0, <1>a, <2>1, <2>2, <2>4, <2>5, ToldOfRoot DEF Step
    <3> QED
      BY <1>0, <2>1, <2>3, <2>5, <3>1
  <2>6. CASE r = p
    <3>1. Told(plan, ran[Root], Append(ran[p], Step(p)), mail[p])
      BY <1>0, <1>a, <2>1, <2>2, <2>4, <2>6, ToldOfPeer DEF Step
    <3> QED
      BY <1>0, <2>1, <2>3, <2>6, <3>1
  <2>7. CASE r # Root /\ r # p
    BY <1>0, <2>1, <2>3, <2>4, <2>7
  <2> QED
    BY <2>5, <2>6, <2>7
<1>5. ASSUME NEW r \in Ranks, JoinFails(r)
      PROVE  PeersTold'
  BY <1>1, <1>5 DEF JoinFails
<1>6. ASSUME NEW r \in Ranks, Receive(r)
      PROVE  PeersTold'
  <2> SUFFICES ASSUME NEW p \in Peers
               PROVE  Told(plan', ran'[Root], ran'[p], mail'[p])
    BY DEF PeersTold
  <2> DEFINE v == Trimmed(Step(r), Head(mail[r]))
  <2>1. /\ Len(ran[r]) < Len(plan) /\ Participates(Step(r)) /\ r # Root /\ mail[r] # <<>>
        /\ Verify(r, v) /\ plan' = plan /\ mail' = [mail EXCEPT ![r] = Tail(@)]
    BY <1>6 DEF Receive, Starts
  <2>2. Head(mail[r]) \in Lengths /\ r \in Peers
    BY <1>0, <1>a, <2>1, HeadTailProperties
  <2>3. v \in Verified
    BY <1>d, <2>1, <2>2, VerifiedShapes
  <2> HIDE DEF v
  <2>4. ran'[r] = Append(ran[r], v) /\ \A o \in Ranks : o # r => ran'[o] = ran[o]
    BY <1>b, <2>1, <2>3
  <2>5. Told(plan, ran[Root], ran[p], mail[p])
    BY DEF PeersTold
  <2>6. mail'[p] = IF p = r THEN Tail(mail[p]) ELSE mail[p]
    BY <2>1 DEF RunTypes
  <2>7. CASE r = p
    <3>1. v = Trimmed(plan[Len(ran[p]) + 1], Head(mail[p])) /\ Participates(plan[Len(ran[p]) + 1])
      BY <2>1, <2>7 DEF v, Step
    <3>2. Told(plan, ran[Root], Append(ran[p], v), Tail(mail[p]))
      BY <1>0, <1>a, <2>1, <2>3, <2>5, <2>7, <3>1, ToldOfReceipt
    <3> QED
      BY <1>0, <2>1, <2>4, <2>6, <2>7, <3>2
  <2>8. CASE r # p
    BY <1>0, <2>1, <2>4, <2>5, <2>6, <2>8
  <2> QED
    BY <2>7, <2>8
<1>7. CASE Poll \/ AwaitCurrent
  BY <1>1, <1>7 DEF Poll, AwaitCurrent
<1>8. ASSUME NEW k \in Lengths, NEW from, Broadcast(k, from), pc[Root] \in {"polled", "await"},
             plan' = plan
      PROVE  PeersTold'
  <2> SUFFICES ASSUME NEW p \in Peers
               PROVE  Told(plan', ran'[Root], ran'[p], mail'[p])
    BY DEF PeersTold
  <2> DEFINE v == Trimmed(Step(Root), k)
  <2>1. Len(ran[Root]) < Len(plan) /\ Participates(Step(Root))
    BY <1>8 DEF Progress
  <2>2. v \in Verified
    BY <1>0, <1>d, <2>1, VerifiedShapes
  <2>3. mail'[p] = Append(mail[p], k) /\ Verify(Root, v)
    BY <1>8 DEF Broadcast
  <2>4. ran'[Root] = Append(ran[Root], v) /\ ran'[p] = ran[p]
    BY <1>0, <1>b, <2>2, <2>3
  <2>5. Told(plan, ran[Root], ran[p], mail[p])
    BY DEF PeersTold
  <2>6. Told(plan, Append(ran[Root], v), ran[p], Append(mail[p], k))
    BY <1>0, <1>a, <2>1, <2>2, <2>5, ToldOfDecision DEF Step
  <2> QED
    BY <1>8, <2>3, <2>4, <2>6
<1>9. CASE DecideWithout \/ DecideFromPrevious \/ DecideFromCurrent
  <2>1. /\ plan' = plan /\ pc[Root] \in {"polled", "await"}
        /\ \E k \in Lengths : \E from : Broadcast(k, from)
    BY <1>9 DEF DecideWithout, DecideFromPrevious, DecideFromCurrent, Lengths
  <2> QED
    BY <1>8, <2>1
<1>10. CASE Propose
  <2>1. Counted
    BY <1>10 DEF Propose, ProposeUnrecorded, ProposeHalfRecorded, ProposeRecorded
  <2> QED
    BY <1>1, <2>1 DEF Counted
<1>11. CASE Copy
  BY <1>1, <1>11 DEF Copy, runner
<1>12. CASE UNCHANGED vars
  BY <1>1, <1>12 DEF vars, runner
<1> QED
  BY <1>2, <1>3, <1>4, <1>5, <1>6, <1>7, <1>9, <1>10, <1>11, <1>12 DEF Next, RankStep, Decision

(* Ranks that were told agree, with rank 0 and with each other.              *)
LEMMA ToldAgree == RunTypes /\ PeersTold => Agreement
<1> SUFFICES ASSUME RunTypes, PeersTold, NEW r \in Ranks, NEW p \in Ranks,
                    NEW n \in DOMAIN ran[r] \cap DOMAIN ran[p]
             PROVE  ran[r][n] = ran[p][n]
  BY DEF Agreement
<1>0. Root \in Ranks /\ \A q \in Ranks : q # Root => q \in Peers
  BY DEF Ranks
<1>1. \A q \in Ranks : DOMAIN ran[q] = 1..Len(ran[q]) /\ Len(ran[q]) \in Nat
  BY LenProperties DEF RunTypes
<1>2. \A q \in Ranks : n \in DOMAIN ran[q] =>
        ran[q][n] = IF n <= Len(ran[Root]) THEN ran[Root][n] ELSE plan[n]
  <2> SUFFICES ASSUME NEW q \in Ranks, n \in DOMAIN ran[q]
               PROVE  ran[q][n] = IF n <= Len(ran[Root]) THEN ran[Root][n] ELSE plan[n]
    OBVIOUS
  <2>1. CASE q = Root
    BY <1>0, <1>1, <2>1
  <2>2. CASE q # Root
    <3>1. Told(plan, ran[Root], ran[q], mail[q])
      BY <1>0, <2>2 DEF PeersTold
    <3>2. n \in 1..Len(ran[q]) /\ (n <= Len(ran[Root]) \/ n > Len(ran[Root]))
          /\ ~(n <= Len(ran[Root]) /\ n > Len(ran[Root]))
      BY <1>0, <1>1
    <3> QED
      BY <3>1, <3>2 DEF Told
  <2> QED
    BY <2>1, <2>2
<1> QED
  BY <1>2

(* Every rank verifies the same drafts on the same step, for any number of     *)
(* ranks, however far apart they run: a mailbox holds exactly the decisions of *)
(* the steps its rank is behind, in their order.                               *)
THEOREM RanksAgree == Spec => []Agreement
<1>1. Init => PeersTold
  <2> SUFFICES ASSUME Init, NEW p \in Peers
               PROVE  Told(plan, ran[Root], ran[p], mail[p])
    BY DEF PeersTold
  <2>1. plan = <<>> /\ ran[Root] = <<>> /\ ran[p] = <<>> /\ mail[p] = <<>>
    BY DEF Init, Ranks
  <2>2. Waiting(<<>>, <<>>, <<>>, <<>>, [j \in 1..0 |-> 0])
    <3>1. Len(<<>>) = 0 /\ 1..0 = {}
      OBVIOUS
    <3> QED
      BY <3>1 DEF Waiting
  <2>3. Told(<<>>, <<>>, <<>>, <<>>)
    <3>1. Len(<<>>) = 0 /\ 1..0 = {}
      OBVIOUS
    <3>2. \E at \in [1..Len(<<>>) -> Nat] : Waiting(<<>>, <<>>, <<>>, <<>>, at)
      <4>1. [j \in 1..0 |-> 0] \in [1..Len(<<>>) -> Nat]
        BY <3>1
      <4> QED
        BY <2>2, <4>1
    <3> QED
      BY <3>1, <3>2 DEF Told
  <2> QED
    BY <2>1, <2>3
<1>2. IInv /\ PeersTold /\ [Next]_vars => PeersTold'
  BY ToldStep DEF IInv
<1>3. IInv /\ PeersTold => Agreement
  BY ToldAgree DEF IInv
<1> QED
  BY <1>1, <1>2, <1>3, RunnerInductive, PTL DEF Spec
=============================================================================
