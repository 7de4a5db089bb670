-------------------------- MODULE HeldQuorumProofs --------------------------
(***************************************************************************)
(* Proofs about HeldQuorum, for any ranks, digests, chunk sizes and limits.   *)
(* A number names one set of a process (Named): the deltas and chunks that     *)
(* are on the way, wait or are gathered speak of numbered sets, whoever sent   *)
(* them and however late they come, so what is put together from them is one.  *)
(***************************************************************************)
EXTENDS HeldQuorum, FiniteSetTheorems, TLAPS

Gens(r) == 1..Len(MaxSequence[r])
Deltas == [sequence : Nat, added : SUBSET Digest, removed : SUBSET Digest]
Chunks == [sequence : Nat, cycle : Nat, index : Nat, count : Nat, held : SUBSET Digest]
Reports ==
  {m \in [rank : Rank, generation : Nat, delta : Deltas, chunk : Chunks] :
     m.generation \in Gens(m.rank)}
States == [rank : Rank, generation : Nat, sequence : Nat, held : SUBSET Digest]
Stages == {"idle", "delta", "drain", "checkpoint", "redrain"}

WorkerTypes ==
  /\ generation \in [Rank -> Nat] /\ \A r \in Rank : generation[r] \in Gens(r)
  /\ held \in [Rank -> SUBSET Digest] /\ observed \in [Rank -> SUBSET Digest]
  /\ found \in [Rank -> SUBSET Digest]
  /\ sequence \in [Rank -> Nat] /\ deltas \in [Rank -> Seq(Deltas)]
  /\ cursor \in [Rank -> Nat] /\ cycle \in [Rank -> Nat] /\ index \in [Rank -> Nat]
  /\ said \subseteq States /\ net \subseteq Reports
BeliefTypes ==
  /\ known \in [Rank -> Nat] /\ \A r \in Rank : known[r] \in Gens(r) \cup {0}
  /\ retired \in [Rank -> Seq(Nat)] /\ accepted \in [Rank -> Nat]
  /\ believed \in [Rank -> SUBSET Digest] /\ pending \in [Rank -> SUBSET Deltas]
  /\ partial \in [Rank -> SUBSET Chunks]
  /\ desync \subseteq Rank /\ requires \subseteq Rank
  /\ offers \in [Rank -> SUBSET Digest] /\ admitted \subseteq Digest
  /\ DOMAIN heard = Rank /\ heard = [r \in Rank |-> heard[r]]
  /\ \A r \in Rank : heard[r] \in [Gens(r) -> Int]
  /\ stage \in Stages /\ (stage # "idle" => report \in Reports)
Types == WorkerTypes /\ BeliefTypes

-----------------------------------------------------------------------------
(* Checkpoints.                                                             *)

LEMMA DigestsFinite ==
  ASSUME NEW S \in SUBSET Digest
  PROVE  IsFiniteSet(S) /\ Cardinality(S) \in Nat
BY DigestAssumption, FS_Subset, FS_CardinalityType

(* The place of a digest in the sorted set.                                  *)
LEMMA PlaceIs ==
  ASSUME NEW S \in SUBSET Digest, NEW d \in S
  PROVE  Place(d, S) \in 0..(Cardinality(S) - 1)
<1> DEFINE L == {e \in S : e < d}
<1>1. L \in SUBSET S /\ d \notin L /\ S \subseteq Int
  BY DigestAssumption
<1>2. IsFiniteSet(S) /\ Cardinality(S) \in Nat /\ Cardinality(L) \in Nat
  BY DigestsFinite, <1>1
<1>3. Cardinality(L) <= Cardinality(S) /\ (Cardinality(L) = Cardinality(S) => L = S)
  BY <1>1, <1>2, FS_Subset
<1> QED BY <1>1, <1>2, <1>3 DEF Place

LEMMA CountIs ==
  ASSUME NEW S \in SUBSET Digest
  PROVE  Count(S) \in Nat \ {0}
<1>1. IsFiniteSet(S) /\ Cardinality(S) \in Nat
  BY DigestsFinite
<1>2. Batch \in Nat \ {0}
  BY SizeAssumption
<1>3. CASE S = {}
  BY <1>3 DEF Count
<1>4. CASE S # {}
  <2>1. Cardinality(S) # 0
    BY <1>1, <1>4, FS_EmptySet
  <2>2. Cardinality(S) - 1 \in Nat
    BY <2>1, <1>1
  <2>3. (Cardinality(S) - 1) \div Batch \in Nat
    BY <2>2, <1>2
  <2> QED BY <2>3, <1>4 DEF Count
<1> QED BY <1>3, <1>4

(* The chunks make up the set.                                               *)
LEMMA ChunksCover ==
  ASSUME NEW S \in SUBSET Digest
  PROVE  S = UNION {Chunk(S, i) : i \in 0..(Count(S) - 1)}
<1>1. ASSUME NEW d \in S
      PROVE  \E i \in 0..(Count(S) - 1) : d \in Chunk(S, i)
  <2> DEFINE i == Place(d, S) \div Batch
  <2>1. Place(d, S) \in Nat /\ Place(d, S) <= Cardinality(S) - 1 /\ Cardinality(S) \in Nat
    BY PlaceIs, DigestsFinite
  <2>2. Batch \in Nat \ {0}
    BY SizeAssumption
  <2>3. ASSUME NEW a \in Nat, NEW b \in Nat, a <= b
        PROVE  a \div Batch \in Nat /\ a \div Batch <= b \div Batch
    BY <2>2, <2>3
  <2>4. i \in Nat /\ i <= (Cardinality(S) - 1) \div Batch
    BY <2>1, <2>3
  <2>5. Count(S) = (Cardinality(S) - 1) \div Batch + 1 /\ Count(S) \in Nat
    BY CountIs DEF Count
  <2>5a. (Cardinality(S) - 1) \div Batch \in Nat
    BY <2>1, <2>3
  <2>6. i \in 0..(Count(S) - 1)
    BY <2>4, <2>5, <2>5a
  <2>7. d \in Chunk(S, i)
    BY DEF Chunk
  <2> QED BY <2>6, <2>7
<1>2. \A i : Chunk(S, i) \subseteq S
  BY DEF Chunk
<1> QED BY <1>1, <1>2

LEMMA CheckpointType ==
  ASSUME NEW S \in SUBSET Digest, NEW n \in Nat, NEW c \in Nat, NEW i \in Nat
  PROVE  Checkpoint(S, n, c, i) \in Chunks
<1>1. Count(S) \in Nat /\ Chunk(S, i) \in SUBSET Digest
  BY CountIs DEF Chunk
<1> QED BY <1>1 DEF Checkpoint, Chunks

LEMMA NewestType ==
  ASSUME NEW T, NEW s \in Seq(T), NEW n \in Nat
  PROVE  Newest(s, n) \in Seq(T)
BY DEF Newest

-----------------------------------------------------------------------------
(* Types.                                                                   *)

LEMMA InitTypes == Init => Types
<1> SUFFICES ASSUME Init PROVE Types
  OBVIOUS
<1> USE DEF Init
<1>1. \A r \in Rank : Len(MaxSequence[r]) \in Nat \ {0} /\ DOMAIN MaxSequence[r] = Gens(r) /\ 1 \in Gens(r)
  BY BoundAssumption DEF Gens
<1>2. net \subseteq Reports
  <2> SUFFICES ASSUME NEW r \in Rank, NEW i \in 0..(Count(Inventory(found[r])) - 1)
               PROVE  [rank |-> r, generation |-> 1, delta |-> None,
                       chunk |-> Checkpoint(Inventory(found[r]), IF found[r] = {} THEN 0 ELSE 1, 1, i)]
                        \in Reports
    BY DEF Handshake
  <2>1. Inventory(found[r]) \in SUBSET Digest
    BY DEF Inventory
  <2>2. i \in Nat
    BY <2>1, CountIs
  <2>3. Checkpoint(Inventory(found[r]), IF found[r] = {} THEN 0 ELSE 1, 1, i) \in Chunks
    BY <2>1, <2>2, CheckpointType
  <2>4. None \in Deltas
    BY DEF None, Deltas
  <2> QED BY <1>1, <2>3, <2>4 DEF Reports
<1>3. WorkerTypes
  BY <1>1, <1>2 DEF WorkerTypes, States
<1>4. BeliefTypes
  BY <1>1 DEF BeliefTypes, Stages
<1> QED BY <1>3, <1>4 DEF Types

LEMMA ReportType ==
  ASSUME Types, NEW r \in Rank
  PROVE  /\ Now(r) \in Nat /\ Cycle(r) \in Nat /\ Index(r) \in Nat
         /\ Kept(r) \in Seq(Deltas) /\ Report(r) \in Reports
<1> USE DEF Types, WorkerTypes
<1>1. Now(r) \in Nat /\ Cycle(r) \in Nat /\ Index(r) \in Nat
  BY DEF Now, Cycle, Index
<1>2. Kept(r) \in Seq(Deltas)
  <2>1. Delta(Now(r), observed[r], held[r]) \in Deltas
    BY <1>1 DEF Delta, Deltas
  <2>2. Append(deltas[r], Delta(Now(r), observed[r], held[r])) \in Seq(Deltas)
    BY <2>1
  <2> QED BY <2>2, NewestType, SizeAssumption DEF Kept
<1>3. (IF Kept(r) = <<>> THEN None ELSE Kept(r)[Turn(r) + 1]) \in Deltas
  <2>1. CASE Kept(r) = <<>>
    BY <2>1 DEF None, Deltas
  <2>2. CASE Kept(r) # <<>>
    <3>1. Len(Kept(r)) \in Nat \ {0}
      BY <1>2, <2>2
    <3>2. cursor[r] % Len(Kept(r)) \in 0..(Len(Kept(r)) - 1)
      BY <3>1
    <3>3. Turn(r) + 1 \in 1..Len(Kept(r))
      BY <3>1, <3>2 DEF Turn
    <3> QED BY <1>2, <2>2, <3>3
  <2> QED BY <2>1, <2>2
<1>4. Checkpoint(held[r], Now(r), Cycle(r), Index(r)) \in Chunks
  BY <1>1, CheckpointType
<1> QED BY <1>1, <1>2, <1>3, <1>4 DEF Report, Reports

LEMMA SendTypes ==
  ASSUME Types, NEW r \in Rank, Send(r)
  PROVE  Types'
<1>1. /\ Now(r) \in Nat /\ Cycle(r) \in Nat /\ Index(r) \in Nat
      /\ Kept(r) \in Seq(Deltas) /\ Report(r) \in Reports
  BY ReportType
<1>2. (IF Kept(r) = <<>> THEN cursor[r] ELSE (Turn(r) + 1) % Len(Kept(r))) \in Nat
  <2>1. CASE Kept(r) = <<>>
    BY <2>1 DEF Types, WorkerTypes
  <2>2. CASE Kept(r) # <<>>
    <3>1. Len(Kept(r)) \in Nat \ {0}
      BY <1>1, <2>2
    <3>2. Turn(r) \in Nat
      BY <3>1 DEF Turn, Types, WorkerTypes
    <3> QED BY <3>1, <3>2, <2>2
  <2> QED BY <2>1, <2>2
<1>3. cursor' \in [Rank -> Nat]
  BY <1>2 DEF Send, Types, WorkerTypes
<1>4. deltas' \in [Rank -> Seq(Deltas)] /\ net' \subseteq Reports
  BY <1>1 DEF Send, Types, WorkerTypes
<1>5. cycle' \in [Rank -> Nat] /\ index' \in [Rank -> Nat] /\ sequence' \in [Rank -> Nat]
  <2>1. /\ cycle \in [Rank -> Nat] /\ index \in [Rank -> Nat] /\ sequence \in [Rank -> Nat]
    BY DEF Types, WorkerTypes
  <2>2. \E last \in BOOLEAN :
          /\ cycle' = [cycle EXCEPT ![r] = IF last THEN Cycle(r) + 1 ELSE Cycle(r)]
          /\ index' = [index EXCEPT ![r] = IF last THEN 0 ELSE Index(r) + 1]
    BY DEF Send
  <2>3. sequence' = [sequence EXCEPT ![r] = Now(r)]
    BY DEF Send
  <2>4. Cycle(r) + 1 \in Nat /\ Index(r) + 1 \in Nat
    BY <1>1
  <2>5. cycle' \in [Rank -> Nat]
    BY <1>1, <2>1, <2>2, <2>4
  <2>6. index' \in [Rank -> Nat]
    BY <1>1, <2>1, <2>2, <2>4
  <2>7. sequence' \in [Rank -> Nat]
    BY <1>1, <2>1, <2>3
  <2> QED
    BY <2>5, <2>6, <2>7
<1>6. said' \subseteq States
  BY <1>1 DEF Send, Types, WorkerTypes, States
<1>7. observed' \in [Rank -> SUBSET Digest]
  BY DEF Send, Types, WorkerTypes
<1>8. WorkerTypes'
  BY <1>3, <1>4, <1>5, <1>6, <1>7 DEF Send, Types, WorkerTypes
<1>9. BeliefTypes'
  <2>1. UNCHANGED <<belief, admitted, stage, report>>
    BY DEF Send
  <2> QED BY <2>1 DEF belief, Types, BeliefTypes
<1> QED BY <1>8, <1>9 DEF Types

LEMMA WorkerTypesKept ==
  ASSUME Types, NEW r \in Rank, Restart(r) \/ \E d \in Digest : Hold(r, d)
  PROVE  Types'
<1>1. CASE Restart(r)
  <2>1. generation' \in [Rank -> Nat] /\ \A s \in Rank : generation'[s] \in Gens(s)
    <3>1. /\ generation' = [generation EXCEPT ![r] = @ + 1] /\ generation \in [Rank -> Nat]
          /\ generation[r] < Len(MaxSequence[r]) /\ \A s \in Rank : generation[s] \in Gens(s)
      BY <1>1 DEF Restart, Types, WorkerTypes
    <3>2. Len(MaxSequence[r]) \in Nat
      BY BoundAssumption
    <3>3. generation[r] + 1 \in Gens(r)
      BY <3>1, <3>2 DEF Gens
    <3> QED BY <3>1, <3>3
  <2>2. held' \in [Rank -> SUBSET Digest]
    BY <1>1 DEF Restart, Types, WorkerTypes
  <2>3. WorkerTypes'
    BY <1>1, <2>1, <2>2 DEF Restart, Types, WorkerTypes
  <2>4. BeliefTypes'
    BY <1>1 DEF Restart, belief, Types, BeliefTypes
  <2> QED BY <2>3, <2>4 DEF Types
<1>2. ASSUME NEW d \in Digest, Hold(r, d)
      PROVE  Types'
  <2>1. held' \in [Rank -> SUBSET Digest]
    BY <1>2 DEF Hold, Types, WorkerTypes
  <2>2. WorkerTypes'
    BY <1>2, <2>1 DEF Hold, Types, WorkerTypes
  <2>3. BeliefTypes'
    BY <1>2 DEF Hold, belief, Types, BeliefTypes
  <2> QED BY <2>2, <2>3 DEF Types
<1> QED BY <1>1, <1>2

LEMMA MarkTypes ==
  ASSUME Types, NEW r \in Rank, Mark(r)
  PROVE  desync' \subseteq Rank /\ offers' \in [Rank -> SUBSET Digest]
BY DEF Mark, Types, BeliefTypes

LEMMA TakeTypes ==
  ASSUME Types, NEW m \in net, TakeReport(m)
  PROVE  Types'
<1> DEFINE r == m.rank
<1>1. /\ m \in Reports /\ r \in Rank /\ m.generation \in Gens(r) /\ m.generation \in Nat
      /\ m.chunk.sequence \in Nat
  BY DEF Types, WorkerTypes, Reports, Chunks
<1>2. WorkerTypes'
  BY DEF TakeReport, worker, Types, WorkerTypes
<1>3. heard' = [heard EXCEPT ![r][m.generation] = m.chunk.sequence]
  BY DEF TakeReport
<1>4. /\ DOMAIN heard' = Rank /\ heard' = [s \in Rank |-> heard'[s]]
      /\ \A s \in Rank : heard'[s] \in [Gens(s) -> Int]
  <2>1. /\ DOMAIN heard = Rank /\ heard = [s \in Rank |-> heard[s]]
        /\ \A s \in Rank : heard[s] \in [Gens(s) -> Int]
    BY DEF Types, BeliefTypes
  <2>2. [heard[r] EXCEPT ![m.generation] = m.chunk.sequence] \in [Gens(r) -> Int]
    BY <1>1, <2>1
  <2>3. heard' = [heard EXCEPT ![r] = [heard[r] EXCEPT ![m.generation] = m.chunk.sequence]]
    BY <1>3
  <2> QED BY <1>1, <2>1, <2>2, <2>3
<1>5. stage' = "delta" /\ report' = m /\ admitted' = admitted
  BY DEF TakeReport
<1>6. CASE UNCHANGED <<known, retired, accepted, believed, pending, partial, desync, requires, offers>>
  BY <1>1, <1>2, <1>4, <1>5, <1>6 DEF Types, BeliefTypes, Stages
<1>7. CASE Begin(r, m.generation)
  <2>1. retired' \in [Rank -> Seq(Nat)]
    <3>1. Append(retired[r], known[r]) \in Seq(Nat)
      BY <1>1 DEF Types, BeliefTypes
    <3>2. Newest(Append(retired[r], known[r]), RetiredLimit) \in Seq(Nat)
      BY <3>1, NewestType, SizeAssumption
    <3> QED BY <1>1, <1>7, <3>2 DEF Begin, Types, BeliefTypes
  <2>2. known' \in [Rank -> Nat] /\ \A s \in Rank : known'[s] \in Gens(s) \cup {0}
    BY <1>1, <1>7 DEF Begin, Types, BeliefTypes
  <2>3. /\ accepted' \in [Rank -> Nat] /\ believed' \in [Rank -> SUBSET Digest]
        /\ pending' \in [Rank -> SUBSET Deltas] /\ partial' \in [Rank -> SUBSET Chunks]
        /\ desync' \subseteq Rank /\ requires' \subseteq Rank
        /\ offers' \in [Rank -> SUBSET Digest]
    BY <1>1, <1>7 DEF Begin, Types, BeliefTypes
  <2> QED BY <1>1, <1>2, <1>4, <1>5, <2>1, <2>2, <2>3 DEF Types, BeliefTypes, Stages
<1> QED BY <1>6, <1>7 DEF TakeReport

(* What the steps between a report and the next have in common.              *)
LEMMA Absorbing ==
  ASSUME Types, Absorb
  PROVE  /\ UNCHANGED <<worker, net, known, retired, heard, admitted>> /\ stage # "idle"
         /\ report \in Reports /\ report.rank \in Rank
         /\ report.delta \in Deltas /\ report.chunk \in Chunks
<1>1. UNCHANGED <<worker, net, known, retired, heard, admitted>> /\ stage # "idle"
  BY DEF Absorb, IgnoreDelta, RefuseDelta, KeepDelta, ApplyDelta, EndDrain, IgnoreChunk, KeepChunk,
         CompleteCheckpoint, belief
<1> QED BY <1>1 DEF Types, BeliefTypes, Reports

LEMMA AbsorbTypes ==
  ASSUME Types, Absorb
  PROVE  Types'
<1> DEFINE r == report.rank
<1>1. /\ UNCHANGED <<worker, net, known, retired, heard, admitted>> /\ stage # "idle"
      /\ report \in Reports /\ r \in Rank
      /\ report.delta \in Deltas /\ report.chunk \in Chunks
  BY Absorbing
<1>2. WorkerTypes'
  BY <1>1 DEF worker, Types, WorkerTypes
<1>3. /\ stage' \in Stages /\ (stage' # "idle" => report' \in Reports)
      /\ accepted' \in [Rank -> Nat] /\ believed' \in [Rank -> SUBSET Digest]
      /\ pending' \in [Rank -> SUBSET Deltas] /\ partial' \in [Rank -> SUBSET Chunks]
      /\ desync' \subseteq Rank /\ requires' \subseteq Rank
      /\ offers' \in [Rank -> SUBSET Digest]
  <2>1. CASE IgnoreDelta
    BY <1>1, <2>1 DEF IgnoreDelta, belief, Types, BeliefTypes, Stages
  <2>2. CASE RefuseDelta
    BY <1>1, <2>2, MarkTypes DEF RefuseDelta, Types, BeliefTypes, Stages
  <2>3. CASE KeepDelta
    <3>1. desync' \subseteq Rank /\ offers' \in [Rank -> SUBSET Digest]
      BY <1>1, <2>3, MarkTypes DEF KeepDelta, Types, BeliefTypes
    <3>2. pending' \in [Rank -> SUBSET Deltas] /\ requires' \subseteq Rank
      BY <1>1, <2>3 DEF KeepDelta, Types, BeliefTypes
    <3> QED BY <1>1, <2>3, <3>1, <3>2 DEF KeepDelta, Types, BeliefTypes, Stages
  <2>4. CASE ApplyDelta
    <3>1. PICK p \in pending[r] :
          /\ pending' = [pending EXCEPT ![r] = @ \ {p}]
          /\ believed' = [believed EXCEPT ![r] = (@ \ p.removed) \cup p.added]
          /\ offers' = [offers EXCEPT ![r] =
               IF r \in desync THEN @ ELSE (@ \ p.removed) \cup p.added]
      BY <2>4 DEF ApplyDelta
    <3>2. p \in Deltas /\ p.added \in SUBSET Digest
      BY <1>1, <3>1 DEF Types, BeliefTypes, Deltas
    <3>3. /\ pending' \in [Rank -> SUBSET Deltas] /\ believed' \in [Rank -> SUBSET Digest]
          /\ offers' \in [Rank -> SUBSET Digest]
      BY <1>1, <3>1, <3>2 DEF Types, BeliefTypes
    <3> QED BY <1>1, <2>4, <3>3 DEF ApplyDelta, Types, BeliefTypes, Stages
  <2>5. CASE EndDrain
    <3>1. desync' \subseteq Rank /\ offers' \in [Rank -> SUBSET Digest]
      <4>1. CASE Mark(r)
        BY <1>1, <4>1, MarkTypes
      <4>2. CASE /\ desync' = desync \ {r}
                 /\ offers' = [offers EXCEPT ![r] = IF r \in desync THEN @ \cup believed[r] ELSE @]
        BY <1>1, <4>2 DEF Types, BeliefTypes
      <4> QED BY <2>5, <4>1, <4>2 DEF EndDrain
    <3> QED BY <1>1, <2>5, <3>1 DEF EndDrain, Types, BeliefTypes, Stages
  <2>6. CASE IgnoreChunk
    BY <1>1, <2>6 DEF IgnoreChunk, Types, BeliefTypes, Stages
  <2>7. CASE KeepChunk
    <3>1. desync' \subseteq Rank /\ offers' \in [Rank -> SUBSET Digest]
      BY <1>1, <2>7, MarkTypes DEF KeepChunk, MarkIfAhead, Types, BeliefTypes
    <3>2. partial' \in [Rank -> SUBSET Chunks]
      BY <1>1, <2>7 DEF KeepChunk, Gathered, Types, BeliefTypes
    <3> QED BY <1>1, <2>7, <3>1, <3>2 DEF KeepChunk, Types, BeliefTypes, Stages
  <2>8. CASE CompleteCheckpoint
    <3>1. Gathered(r, report.chunk) \subseteq Chunks
      BY <1>1 DEF Gathered, Types, BeliefTypes
    <3>2. UNION {p.held : p \in Gathered(r, report.chunk)} \in SUBSET Digest
      BY <3>1 DEF Chunks
    <3>3. report.chunk.sequence \in Nat
      BY <1>1 DEF Chunks
    <3>4. believed' \in [Rank -> SUBSET Digest] /\ accepted' \in [Rank -> Nat]
      BY <1>1, <2>8, <3>2, <3>3 DEF CompleteCheckpoint, Types, BeliefTypes
    <3>5. pending' \in [Rank -> SUBSET Deltas]
      BY <1>1, <2>8 DEF CompleteCheckpoint, Types, BeliefTypes
    <3> QED BY <1>1, <2>8, <3>4, <3>5 DEF CompleteCheckpoint, Types, BeliefTypes, Stages
  <2> QED BY <2>1, <2>2, <2>3, <2>4, <2>5, <2>6, <2>7, <2>8 DEF Absorb
<1>4. BeliefTypes'
  BY <1>1, <1>3 DEF Types, BeliefTypes
<1> QED BY <1>2, <1>4 DEF Types

LEMMA RestoreTypes ==
  ASSUME Types, NEW d \in Digest, Admit(d) \/ RestoreEnds(d)
  PROVE  Types'
<1>1. CASE Admit(d)
  BY <1>1 DEF Admit, worker, belief, Types, WorkerTypes, BeliefTypes
<1>2. CASE RestoreEnds(d)
  <2>1. offers' \in [Rank -> SUBSET Digest] /\ admitted' \subseteq Digest
    BY <1>2 DEF RestoreEnds, Types, BeliefTypes
  <2> QED BY <1>2, <2>1 DEF RestoreEnds, worker, Types, WorkerTypes, BeliefTypes
<1> QED BY <1>1, <1>2

LEMMA StepTypes == Types /\ [Next]_vars => Types'
<1> SUFFICES ASSUME Types, [Next]_vars PROVE Types'
  OBVIOUS
<1>1. CASE UNCHANGED vars
  BY <1>1 DEF vars, worker, belief, Types, WorkerTypes, BeliefTypes
<1>2. CASE \E r \in Rank : Send(r) \/ Restart(r) \/ \E d \in Digest : Hold(r, d)
  BY <1>2, SendTypes, WorkerTypesKept
<1>3. CASE \E m \in net : TakeReport(m)
  BY <1>3, TakeTypes
<1>4. CASE \E d \in Digest : Admit(d) \/ RestoreEnds(d)
  BY <1>4, RestoreTypes
<1>5. CASE Absorb
  BY <1>5, AbsorbTypes
<1> QED BY <1>1, <1>2, <1>3, <1>4, <1>5 DEF Next

-----------------------------------------------------------------------------
(* When a rank counts.                                                      *)

AtHand(r) == stage # "idle" /\ report.rank = r

Heard ==
  /\ stage # "idle" =>
       /\ known[report.rank] = report.generation
       /\ heard[report.rank][report.generation] = report.chunk.sequence
  /\ stage = "redrain" => accepted[report.rank] >= report.chunk.sequence

Counted(r) ==
  /\ r \in requires => r \in desync
  /\ r \in desync \/ known[r] = 0 => offers[r] = {}
  /\ offers[r] \subseteq believed[r]
  /\ pending[r] # {} => r \in desync \/ (stage \in {"drain", "redrain"} /\ report.rank = r)
  /\ offers[r] # {} => AtHand(r) \/ accepted[r] >= heard[r][known[r]]

ConfInv == Types /\ Heard /\ \A r \in Rank : Counted(r)

LEMMA ConfMeans == ConfInv => ConfirmationsCurrent
BY DEF ConfInv, Counted, AtHand, Types, BeliefTypes, ConfirmationsCurrent

LEMMA ConfInit == Init => ConfInv
<1> SUFFICES ASSUME Init PROVE ConfInv
  OBVIOUS
<1>1. Types
  BY InitTypes
<1>2. Heard /\ \A r \in Rank : Counted(r)
  BY DEF Init, Heard, Counted
<1> QED BY <1>1, <1>2 DEF ConfInv

LEMMA ConfTake ==
  ASSUME ConfInv, NEW m \in net, TakeReport(m)
  PROVE  Heard' /\ \A s \in Rank : Counted(s)'
<1> DEFINE r == m.rank
           g == m.generation
<1>1. /\ m \in Reports /\ r \in Rank /\ g \in Gens(r) /\ g # 0
      /\ m.chunk.sequence \in Nat
  BY DEF ConfInv, Types, WorkerTypes, Reports, Chunks, Gens
<1>2. heard' = [heard EXCEPT ![r][g] = m.chunk.sequence] /\ stage' = "delta" /\ report' = m
  BY DEF TakeReport
<1>3. /\ DOMAIN heard = Rank /\ heard[r] \in [Gens(r) -> Int] /\ known \in [Rank -> Nat]
      /\ retired \in [Rank -> Seq(Nat)] /\ accepted \in [Rank -> Nat]
      /\ DOMAIN believed = Rank /\ DOMAIN pending = Rank /\ DOMAIN offers = Rank
  BY <1>1 DEF ConfInv, Types, BeliefTypes
<1>4. heard'[r][g] = m.chunk.sequence /\ \A s \in Rank \ {r} : heard'[s] = heard[s]
  BY <1>1, <1>2, <1>3
<1>5. stage = "idle"
  BY DEF TakeReport
<1>6. CASE /\ g = known[r]
           /\ UNCHANGED <<known, retired, accepted, believed, pending, partial, desync, requires, offers>>
  <2>1. Heard'
    BY <1>2, <1>4, <1>6 DEF Heard
  <2>2. ASSUME NEW s \in Rank PROVE Counted(s)'
    <3>1. CASE s = r
      BY <1>2, <1>5, <1>6, <3>1 DEF ConfInv, Counted, AtHand
    <3>2. CASE s # r
      BY <1>2, <1>4, <1>5, <1>6, <3>2 DEF ConfInv, Counted, AtHand
    <3> QED BY <3>1, <3>2
  <2> QED BY <2>1, <2>2
<1>7. CASE Begin(r, g)
  <2>1. Heard'
    BY <1>1, <1>2, <1>3, <1>4, <1>7 DEF Begin, Heard
  <2>2. ASSUME NEW s \in Rank PROVE Counted(s)'
    <3>1. CASE s = r
      BY <1>1, <1>2, <1>3, <1>7, <3>1 DEF Begin, Counted, AtHand
    <3>2. CASE s # r
      BY <1>2, <1>3, <1>4, <1>5, <1>7, <3>2 DEF Begin, ConfInv, Counted, AtHand
    <3> QED BY <3>1, <3>2
  <2> QED BY <2>1, <2>2
<1> QED BY <1>6, <1>7 DEF TakeReport

(* Ranks that are not the one at hand.                                       *)
LEMMA ConfOthers ==
  ASSUME ConfInv, Absorb, NEW s \in Rank, s # report.rank
  PROVE  Counted(s)'
<1> DEFINE r == report.rank
<1>1. UNCHANGED <<known, heard>> /\ r \in Rank /\ stage # "idle"
  BY Absorbing DEF ConfInv
<1>2. /\ DOMAIN accepted = Rank /\ DOMAIN believed = Rank /\ DOMAIN pending = Rank
      /\ DOMAIN offers = Rank
  BY DEF ConfInv, Types, BeliefTypes
<1>3. /\ accepted'[s] = accepted[s] /\ believed'[s] = believed[s] /\ pending'[s] = pending[s]
      /\ offers'[s] = offers[s]
      /\ (s \in desync' <=> s \in desync) /\ (s \in requires' <=> s \in requires)
  <2> USE <1>1, <1>2
  <2>0. Mark(r) => offers'[s] = offers[s] /\ (s \in desync' <=> s \in desync)
    BY DEF Mark
  <2>1. CASE IgnoreDelta
    BY <2>1 DEF IgnoreDelta, belief
  <2>2. CASE RefuseDelta
    BY <2>2, <2>0 DEF RefuseDelta
  <2>3. CASE KeepDelta
    BY <2>3, <2>0 DEF KeepDelta
  <2>4. CASE ApplyDelta
    BY <2>4 DEF ApplyDelta
  <2>5. CASE EndDrain
    BY <2>5, <2>0 DEF EndDrain
  <2>6. CASE IgnoreChunk
    BY <2>6 DEF IgnoreChunk
  <2>7. CASE KeepChunk
    BY <2>7, <2>0 DEF KeepChunk, MarkIfAhead
  <2>8. CASE CompleteCheckpoint
    BY <2>8 DEF CompleteCheckpoint
  <2> QED BY <2>1, <2>2, <2>3, <2>4, <2>5, <2>6, <2>7, <2>8 DEF Absorb
<1>4. ~AtHand(s) /\ ~(stage \in {"drain", "redrain"} /\ report.rank = s)
  BY DEF AtHand
<1> QED BY <1>1, <1>3, <1>4 DEF ConfInv, Counted, AtHand

(* The rank at hand.                                                         *)
LEMMA ConfAtHand ==
  ASSUME ConfInv, Absorb, NEW r \in Rank, r = report.rank
  PROVE  Heard' /\ Counted(r)'
<1> DEFINE c == report.chunk
<1>1. UNCHANGED <<known, heard>> /\ r = report.rank /\ stage # "idle" /\ c.sequence \in Nat
      /\ report.generation # 0
  BY Absorbing DEF ConfInv, Chunks, Reports, Gens
<1>2. /\ accepted \in [Rank -> Nat] /\ DOMAIN believed = Rank /\ DOMAIN pending = Rank
      /\ DOMAIN offers = Rank /\ DOMAIN partial = Rank
      /\ stage \in Stages
  BY DEF ConfInv, Types, BeliefTypes
<1>3. Heard /\ Counted(r) /\ known[r] # 0 /\ heard[r][known[r]] = c.sequence
  BY <1>1 DEF ConfInv, Heard
<1> USE <1>1, <1>2, <1>3
<1>4. ASSUME Mark(r)
      PROVE  r \in desync' /\ offers'[r] = {}
  BY <1>4 DEF Mark, Counted
<1>5. CASE IgnoreDelta
  BY <1>5 DEF IgnoreDelta, belief, Heard, Counted, AtHand
<1>6. CASE RefuseDelta
  BY <1>6, <1>4 DEF RefuseDelta, Heard, Counted, AtHand
<1>7. CASE KeepDelta
  <2>1. /\ stage' = "drain" /\ UNCHANGED <<accepted, believed, report>>
        /\ r \in requires' => r \in requires \/ Full(r)
    BY <1>7 DEF KeepDelta
  <2>2. (Mark(r) \/ UNCHANGED <<desync, offers>>) /\ (Full(r) => Mark(r))
    BY <1>7 DEF KeepDelta
  <2>3. r \in desync' => offers'[r] = {}
    BY <2>2, <1>4 DEF Counted
  <2>4. offers'[r] \subseteq believed'[r] /\ (r \in requires' => r \in desync')
    BY <2>1, <2>2, <1>4 DEF Counted
  <2> QED BY <2>1, <2>3, <2>4 DEF Heard, Counted, AtHand
<1>8. CASE ApplyDelta
  <2> DEFINE q == report.rank
  <2>0. PICK p \in pending[q] :
          /\ p.sequence = accepted[q] + 1
          /\ pending' = [pending EXCEPT ![q] = @ \ {p}]
          /\ believed' = [believed EXCEPT ![q] = (@ \ p.removed) \cup p.added]
          /\ offers' = [offers EXCEPT ![q] =
               IF q \in desync THEN @ ELSE (@ \ p.removed) \cup p.added]
    BY <1>8 DEF ApplyDelta
  <2>q. q = r
    BY <1>1
  <2> HIDE DEF q
  <2>1. /\ believed' = [believed EXCEPT ![r] = (@ \ p.removed) \cup p.added]
        /\ offers' = [offers EXCEPT ![r] =
             IF r \in desync THEN @ ELSE (@ \ p.removed) \cup p.added]
    BY <2>0, <2>q
  <2>2. /\ stage \in {"drain", "redrain"} /\ accepted'[r] = accepted[r] + 1
        /\ UNCHANGED <<desync, requires, stage, report>>
    BY <1>8 DEF ApplyDelta
  <2>3. offers'[r] \subseteq believed'[r] /\ (r \in desync => offers'[r] = {})
    BY <2>1 DEF Counted
  <2>4. Heard'
    BY <2>2 DEF Heard
  <2> QED BY <2>2, <2>3, <2>4 DEF Counted, AtHand
<1>9. CASE EndDrain
  <2>1. /\ stage \in {"drain", "redrain"} /\ UNCHANGED <<accepted, believed, pending, requires>>
        /\ \/ stage = "drain" /\ stage' = "checkpoint" /\ UNCHANGED report
           \/ stage = "redrain" /\ stage' = "idle"
    BY <1>9 DEF EndDrain
  <2>2. \/ Mark(r)
        \/ /\ pending[r] = {} /\ r \notin requires
           /\ desync' = desync \ {r}
           /\ offers'[r] = IF r \in desync THEN offers[r] \cup believed[r] ELSE offers[r]
    BY <1>9 DEF EndDrain
  <2>3. CASE Mark(r)
    BY <2>1, <2>3, <1>4 DEF Heard, Counted, AtHand
  <2>4. CASE ~Mark(r)
    BY <2>1, <2>2, <2>4 DEF Heard, Counted, AtHand
  <2> QED BY <2>3, <2>4
<1>10. CASE IgnoreChunk
  <2>1. stage' = "idle" /\ UNCHANGED <<accepted, believed, pending, desync, requires, offers>>
    BY <1>10 DEF IgnoreChunk
  <2>2. stage = "checkpoint" /\ ~(c.sequence > accepted[r])
    BY <1>10 DEF IgnoreChunk, Wanted
  <2> QED BY <2>1, <2>2 DEF Heard, Counted, AtHand
<1>11. CASE KeepChunk
  <2>1. stage = "checkpoint" /\ stage' = "idle" /\ UNCHANGED <<accepted, believed, pending, requires>>
    BY <1>11 DEF KeepChunk
  <2>2. \/ Mark(r)
        \/ ~(c.sequence > accepted[r]) /\ UNCHANGED <<desync, offers>>
    BY <1>11 DEF KeepChunk, MarkIfAhead
  <2> QED BY <2>1, <2>2, <1>4 DEF Heard, Counted, AtHand
<1>12. CASE CompleteCheckpoint
  BY <1>12 DEF CompleteCheckpoint, Heard, Counted, AtHand
<1> QED BY <1>5, <1>6, <1>7, <1>8, <1>9, <1>10, <1>11, <1>12 DEF Absorb

LEMMA ConfStep == ConfInv /\ [Next]_vars => ConfInv'
<1> SUFFICES ASSUME ConfInv, [Next]_vars PROVE ConfInv'
  OBVIOUS
<1>1. Types'
  BY StepTypes DEF ConfInv
<1>2. ASSUME UNCHANGED <<belief, stage, report>>
      PROVE  Heard' /\ \A s \in Rank : Counted(s)'
  BY <1>2 DEF belief, ConfInv, Heard, Counted, AtHand
<1>3. Heard' /\ \A s \in Rank : Counted(s)'
  <2>1. CASE UNCHANGED vars
    BY <2>1, <1>2 DEF vars
  <2>2. CASE \E r \in Rank : Send(r) \/ Restart(r) \/ \E d \in Digest : Hold(r, d)
    BY <2>2, <1>2 DEF Send, Restart, Hold
  <2>3. CASE \E m \in net : TakeReport(m)
    BY <2>3, ConfTake
  <2>4. CASE \E d \in Digest : Admit(d)
    BY <2>4, <1>2 DEF Admit
  <2>5. ASSUME NEW d \in Digest, RestoreEnds(d)
        PROVE  Heard' /\ \A s \in Rank : Counted(s)'
    <3>1. UNCHANGED <<known, accepted, believed, pending, desync, requires, heard, stage, report>>
      BY <2>5 DEF RestoreEnds
    <3>2. \A s \in Rank : offers'[s] \subseteq offers[s]
      BY <2>5 DEF RestoreEnds
    <3> QED BY <3>1, <3>2 DEF ConfInv, Heard, Counted, AtHand
  <2>6. CASE Absorb
    BY <2>6, ConfOthers, ConfAtHand, Absorbing DEF ConfInv
  <2> QED BY <2>1, <2>2, <2>3, <2>4, <2>5, <2>6 DEF Next
<1> QED BY <1>1, <1>3 DEF ConfInv

(* A rank counts only while nothing is known to be missing of what its last   *)
(* report named.                                                             *)
THEOREM ConfirmationsAreCurrent == Spec => []ConfirmationsCurrent
<1>1. Spec => []ConfInv
  BY ConfInit, ConfStep, PTL DEF Spec
<1> QED BY <1>1, ConfMeans, PTL

-----------------------------------------------------------------------------
(* What was replaced stays replaced.                                         *)

(* The retired generations are different ones, not the one that is served, and *)
(* every one that was ever heard is among them.                               *)
Remembered(r) ==
  /\ \A k \in DOMAIN retired[r] : retired[r][k] \in Gens(r) /\ retired[r][k] # known[r]
  /\ \A k, l \in DOMAIN retired[r] : retired[r][k] = retired[r][l] => k = l
  /\ \A g \in Gens(r) : heard[r][g] # -1 => g = known[r] \/ IsRetired(r, g)

Enough == \A r \in Rank : Len(MaxSequence[r]) <= RetiredLimit + 1
PastInv == Types /\ \A r \in Rank : Remembered(r)

(* A sequence of different generations that leaves one out.                   *)
LEMMA Distinct ==
  ASSUME NEW L \in Nat, NEW s \in Seq(1..L), NEW g \in 1..L,
         \A k \in DOMAIN s : s[k] # g,
         \A k, l \in DOMAIN s : s[k] = s[l] => k = l
  PROVE  Len(s) <= L - 1
<1>1. /\ IsFiniteSet(1..L) /\ Cardinality(1..L) = L
      /\ IsFiniteSet(1..Len(s)) /\ Cardinality(1..Len(s)) = Len(s) /\ Len(s) \in Nat
      /\ DOMAIN s = 1..Len(s)
  <2>1. Len(s) \in Nat /\ DOMAIN s = 1..Len(s)
    OBVIOUS
  <2>2. IsFiniteSet(1..L) /\ Cardinality(1..L) = L
    BY FS_Interval
  <2>3. IsFiniteSet(1..Len(s)) /\ Cardinality(1..Len(s)) = Len(s)
    <3>1. \A n \in Nat : IsFiniteSet(1..n) /\ Cardinality(1..n) = n
      BY FS_Interval
    <3> QED BY <2>1, <3>1
  <2> QED BY <2>1, <2>2, <2>3
<1>2. IsFiniteSet((1..L) \ {g}) /\ Cardinality((1..L) \ {g}) = L - 1
  BY <1>1, FS_RemoveElement
<1>3. s \in [1..Len(s) -> (1..L) \ {g}]
  BY <1>1
<1>4. ~(Cardinality((1..L) \ {g}) < Cardinality(1..Len(s)))
  <2> DEFINE S == 1..Len(s)  T == (1..L) \ {g}
  <2>1. IsFiniteSet(S) /\ IsFiniteSet(T) /\ s \in [S -> T]
    BY <1>1, <1>2, <1>3
  <2>2. \A k, l \in S : k # l => s[k] # s[l]
    BY <1>1
  <2> HIDE DEF S, T
  <2>3. ~(Cardinality(T) < Cardinality(S))
    BY <2>1, <2>2, FS_PigeonHole
  <2> QED
    BY <2>3 DEF S, T
<1> QED BY <1>1, <1>2, <1>4

LEMMA PastTake ==
  ASSUME PastInv, Enough, NEW m \in net, TakeReport(m)
  PROVE  /\ \A s \in Rank : Remembered(s)'
         /\ \A s \in Rank : known'[s] # known[s] => heard[s][known'[s]] = -1
         /\ \A s \in Rank : known'[s] = known[s] => accepted'[s] = accepted[s]
<1> DEFINE r == m.rank
           g == m.generation
<1>1. /\ m \in Reports /\ r \in Rank /\ g \in Gens(r) /\ m.chunk.sequence \in Nat
  BY DEF PastInv, Types, WorkerTypes, Reports, Chunks
<1>2. /\ DOMAIN heard = Rank /\ \A s \in Rank : heard[s] \in [Gens(s) -> Int]
      /\ known \in [Rank -> Nat] /\ known[r] \in Gens(r) \cup {0}
      /\ retired \in [Rank -> Seq(Nat)] /\ accepted \in [Rank -> Nat]
  BY <1>1 DEF PastInv, Types, BeliefTypes
<1>3. /\ \A h \in Gens(r) : heard'[r][h] = IF h = g THEN m.chunk.sequence ELSE heard[r][h]
      /\ \A s \in Rank \ {r} : heard'[s] = heard[s]
  BY <1>1, <1>2 DEF TakeReport
<1>4. CASE g = known[r] /\ UNCHANGED <<known, retired, accepted>>
  <2>1. ASSUME NEW s \in Rank PROVE Remembered(s)'
    <3>1. CASE s = r
      BY <1>1, <1>3, <1>4, <3>1 DEF PastInv, Remembered, IsRetired
    <3>2. CASE s # r
      BY <1>1, <1>3, <1>4, <3>2 DEF PastInv, Remembered, IsRetired
    <3> QED BY <3>1, <3>2
  <2> QED BY <1>4, <2>1
<1>5. CASE g # known[r] /\ ~IsRetired(r, g) /\ Begin(r, g)
  <2>1. /\ known' = [known EXCEPT ![r] = g] /\ accepted' = [accepted EXCEPT ![r] = 0]
        /\ \A s \in Rank \ {r} : retired'[s] = retired[s]
        /\ retired'[r] = IF known[r] = 0 THEN retired[r]
                         ELSE Newest(Append(retired[r], known[r]), RetiredLimit)
    <3>1. retired' = [retired EXCEPT ![r] =
            IF known[r] = 0 THEN @ ELSE Newest(Append(@, known[r]), RetiredLimit)]
      BY <1>5 DEF Begin
    <3>2. /\ \A s \in Rank \ {r} : retired'[s] = retired[s]
          /\ retired'[r] = IF known[r] = 0 THEN retired[r]
                           ELSE Newest(Append(retired[r], known[r]), RetiredLimit)
      BY <1>1, <1>2, <3>1
    <3> QED BY <1>5, <3>2 DEF Begin
  <2>2. heard[r][g] = -1
    BY <1>1, <1>5 DEF PastInv, Remembered
  <2>3. ASSUME NEW s \in Rank, s # r PROVE Remembered(s)'
    BY <1>1, <1>2, <1>3, <2>1, <2>3 DEF PastInv, Remembered, IsRetired
  <2>4. Remembered(r)'
    <3>0. Remembered(r) /\ known'[r] = g
      BY <1>1, <1>2, <2>1 DEF PastInv
    <3>1. CASE known[r] = 0
      <4>1. retired'[r] = retired[r]
        BY <2>1, <3>1
      <4>2. \A k \in DOMAIN retired[r] : retired[r][k] # g
        BY <1>5 DEF IsRetired
      <4>3. \A h \in Gens(r) : heard'[r][h] # -1 => h = g \/ IsRetired(r, h)
        BY <1>3, <3>0, <3>1 DEF Remembered, Gens
      <4> QED BY <3>0, <4>1, <4>2, <4>3 DEF Remembered, IsRetired
    <3>2. CASE known[r] # 0
      <4> DEFINE old == retired[r]
                 new == Append(old, known[r])
                 L == Len(MaxSequence[r])
      <4>1. /\ old \in Seq(Nat) /\ Len(old) \in Nat /\ Len(new) = Len(old) + 1
            /\ DOMAIN old = 1..Len(old) /\ DOMAIN new = 1..(Len(old) + 1)
            /\ \A k \in DOMAIN old : new[k] = old[k]
            /\ new[Len(old) + 1] = known[r] /\ new \in Seq(Nat)
        <5>1. old \in Seq(Nat) /\ known[r] \in Nat
          BY <1>1, <1>2
        <5>2. \A q \in Seq(Nat), v \in Nat :
                /\ Append(q, v) \in Seq(Nat) /\ Len(Append(q, v)) = Len(q) + 1
                /\ Append(q, v)[Len(q) + 1] = v
                /\ \A k \in 1..Len(q) : Append(q, v)[k] = q[k]
          OBVIOUS
        <5>3. \A q \in Seq(Nat) : Len(q) \in Nat /\ DOMAIN q = 1..Len(q)
          OBVIOUS
        <5> HIDE DEF old
        <5> QED
          BY <5>1, <5>2, <5>3
      <4>2. \A k \in DOMAIN new : k \in DOMAIN old \/ k = Len(old) + 1
        BY <4>1
      <4>3. \A k \in DOMAIN new : new[k] \in Gens(r) /\ new[k] # g
        <5>1. ASSUME NEW k \in DOMAIN old PROVE new[k] \in Gens(r) /\ new[k] # g
          BY <4>1, <3>0, <1>5 DEF Remembered, IsRetired
        <5>2. known[r] \in Gens(r) /\ known[r] # g
          BY <1>2, <1>5, <3>2
        <5> QED BY <5>1, <5>2, <4>1, <4>2
      <4>4. \A k, l \in DOMAIN new : new[k] = new[l] => k = l
        <5>1. \A k \in DOMAIN old : new[k] # known[r]
          BY <4>1, <3>0 DEF Remembered
        <5>2. \A k, l \in DOMAIN old : new[k] = new[l] => k = l
          BY <4>1, <3>0 DEF Remembered
        <5> QED BY <5>1, <5>2, <4>1, <4>2
      <4>5. L \in Nat /\ new \in Seq(1..L) /\ g \in 1..L
        <5>1. L \in Nat
          BY <1>1, BoundAssumption
        <5>2. /\ \A k \in DOMAIN new : new[k] \in 1..L
              /\ new \in Seq(Nat) /\ g \in 1..L
          BY <4>1, <4>3, <1>1 DEF Gens
        <5> HIDE DEF new, L
        <5> QED BY <5>1, <5>2
      <4>6. Len(new) <= L - 1
        BY <4>3, <4>4, <4>5, Distinct
      <4>7. Len(new) <= RetiredLimit
        BY <4>1, <4>5, <4>6, <1>1, SizeAssumption DEF Enough
      <4>8. retired'[r] = new
        BY <2>1, <3>2, <4>1, <4>7, SizeAssumption DEF Newest
      <4>9. \A h \in Gens(r) : heard'[r][h] # -1 => h = g \/ \E k \in DOMAIN new : new[k] = h
        <5> SUFFICES ASSUME NEW h \in Gens(r), heard'[r][h] # -1, h # g
                     PROVE  \E k \in DOMAIN new : new[k] = h
          OBVIOUS
        <5>1. h = known[r] \/ IsRetired(r, h)
          BY <1>3, <3>0 DEF Remembered
        <5>2. CASE h = known[r]
          <6>1. Len(old) + 1 \in DOMAIN new
            BY <4>1
          <6> QED BY <4>1, <5>2, <6>1
        <5>3. CASE IsRetired(r, h)
          BY <5>3, <4>1 DEF IsRetired
        <5> QED BY <5>1, <5>2, <5>3
      <4> HIDE DEF old, new, L
      <4> QED BY <3>0, <4>3, <4>4, <4>8, <4>9 DEF Remembered, IsRetired
    <3> QED BY <3>1, <3>2
  <2> QED BY <1>1, <1>2, <1>5, <2>1, <2>2, <2>3, <2>4
<1> QED BY <1>4, <1>5 DEF TakeReport

(* The state accepted of a process.                                          *)
LEMMA AcceptedForward ==
  ASSUME Types, Absorb, NEW s \in Rank
  PROVE  accepted'[s] >= accepted[s]
<1>1. report.rank \in Rank /\ report.chunk.sequence \in Nat /\ accepted \in [Rank -> Nat]
  BY Absorbing DEF Types, BeliefTypes, Chunks
<1>2. CASE UNCHANGED accepted
  BY <1>1, <1>2
<1>3. CASE ApplyDelta
  BY <1>1, <1>3 DEF ApplyDelta
<1>4. CASE CompleteCheckpoint
  BY <1>1, <1>4 DEF CompleteCheckpoint, Wanted
<1> QED BY <1>2, <1>3, <1>4 DEF Absorb, IgnoreDelta, RefuseDelta, KeepDelta, EndDrain, IgnoreChunk,
      KeepChunk, belief

LEMMA PastStep ==
  ASSUME PastInv, Enough, [Next]_vars
  PROVE  /\ PastInv'
         /\ \A s \in Rank : known'[s] # known[s] => heard[s][known'[s]] = -1
         /\ \A s \in Rank : known'[s] = known[s] => accepted'[s] >= accepted[s]
<1>1. Types'
  BY StepTypes DEF PastInv
<1>2. accepted \in [Rank -> Nat]
  BY DEF PastInv, Types, BeliefTypes
<1>3. CASE UNCHANGED <<known, retired, heard>>
           /\ (UNCHANGED accepted \/ \A s \in Rank : accepted'[s] >= accepted[s])
  BY <1>1, <1>2, <1>3 DEF PastInv, Remembered, IsRetired
<1>4. CASE \E m \in net : TakeReport(m)
  <2>1. PICK m \in net : TakeReport(m)
    BY <1>4
  <2> QED BY <1>1, <1>2, <2>1, PastTake DEF PastInv
<1>5. CASE UNCHANGED vars
  BY <1>3, <1>5 DEF vars, belief
<1>6. CASE \E r \in Rank : Send(r) \/ Restart(r) \/ \E d \in Digest : Hold(r, d)
  BY <1>3, <1>6 DEF Send, Restart, Hold, belief
<1>7. CASE \E d \in Digest : Admit(d) \/ RestoreEnds(d)
  BY <1>3, <1>7 DEF Admit, RestoreEnds, belief
<1>8. CASE Absorb
  BY <1>3, <1>8, Absorbing, AcceptedForward DEF PastInv
<1> QED BY <1>4, <1>5, <1>6, <1>7, <1>8 DEF Next

(* As long as no rank starts again more often than generations are remembered. *)
THEOREM NeverGoesBack ==
  ASSUME Enough
  PROVE  Spec => NeverBack
<1>1. Init => PastInv
  <2> SUFFICES ASSUME Init PROVE \A r \in Rank : Remembered(r)
    BY InitTypes DEF PastInv
  <2> QED BY BoundAssumption DEF Init, Remembered, Gens
<1>2. PastInv /\ [Next]_vars => PastInv'
  BY PastStep
<1>3. PastInv /\ [Next]_vars =>
        [\A r \in Rank :
           /\ known'[r] = known[r] => accepted'[r] >= accepted[r]
           /\ known'[r] # known[r] => heard[r][known'[r]] = -1]_vars
  BY PastStep
<1> QED BY <1>1, <1>2, <1>3, PTL DEF Spec, NeverBack

-----------------------------------------------------------------------------
(* What the numbers mean.                                                    *)

(* Process g of rank r held S in its state n: it said so, or S is the empty set *)
(* every process numbers from, or what the handshake found.                   *)
Named(r, g, n, S) ==
  \/ [rank |-> r, generation |-> g, sequence |-> n, held |-> S] \in said
  \/ n = 0 /\ S = {}
  \/ g = 1 /\ n = 1 /\ found[r] # {} /\ S = found[r]

DeltaOf(r, g, d) ==
  d.sequence # 0 =>
    \E S, T \in SUBSET Digest :
      /\ Named(r, g, d.sequence - 1, S) /\ Named(r, g, d.sequence, T)
      /\ d.added = T \ S /\ d.removed = S \ T
ChunkOf(r, g, c) ==
  \E S \in SUBSET Digest :
    /\ Named(r, g, c.sequence, S)
    /\ c.index < Count(S) /\ c.count = Count(S) /\ c.held = Chunk(S, c.index)
ReportOf(m) == DeltaOf(m.rank, m.generation, m.delta) /\ ChunkOf(m.rank, m.generation, m.chunk)

(* What a process has said of its states.                                    *)
Saying(x) ==
  /\ x.generation <= generation[x.rank]
  /\ x.generation = generation[x.rank] =>
       /\ x.sequence <= sequence[x.rank]
       /\ x.sequence = sequence[x.rank] => x.held = observed[x.rank]
  /\ x.sequence = 0 => x.held = {}
  /\ x.generation = 1 /\ x.sequence = 1 /\ found[x.rank] # {} => x.held = found[x.rank]
Consistent ==
  \A x, y \in said :
    (x.rank = y.rank /\ x.generation = y.generation /\ x.sequence = y.sequence) => x.held = y.held

Working(r) ==
  /\ Named(r, generation[r], sequence[r], observed[r])
  /\ sequence[r] = 0 => observed[r] = {}
  /\ (generation[r] = 1 /\ found[r] # {}) =>
       /\ sequence[r] = 0 => held[r] = found[r]
       /\ sequence[r] = 1 => observed[r] = found[r]
  /\ index[r] < Count(observed[r])
  /\ \A k \in 1..Len(deltas[r]) : DeltaOf(r, generation[r], deltas[r][k])

Believing(r) ==
  /\ Named(r, known[r], accepted[r], believed[r])
  /\ \A p \in pending[r] : DeltaOf(r, known[r], p)
  /\ \A p \in partial[r] : ChunkOf(r, known[r], p)

Sent == \A m \in net : ReportOf(m)
Taken == stage # "idle" => known[report.rank] = report.generation /\ ReportOf(report)
BeliefInv ==
  /\ Types /\ (\A x \in said : Saying(x)) /\ Consistent /\ (\A r \in Rank : Working(r))
  /\ Sent /\ Taken /\ \A r \in Rank : Believing(r)

(* Held sets stand still until the first report, and the handshake names them all. *)
FullHandshake == Settled /\ Cardinality(Digest) <= Startup

(* A number names one set.                                                   *)
LEMMA NamedOnce ==
  ASSUME \A x \in said : Saying(x), Consistent,
         NEW r, NEW g, NEW n, NEW S, NEW T, Named(r, g, n, S), Named(r, g, n, T)
  PROVE  S = T
<1> DEFINE x == [rank |-> r, generation |-> g, sequence |-> n, held |-> S]
           y == [rank |-> r, generation |-> g, sequence |-> n, held |-> T]
<1>1. x \in said =>
        /\ n = 0 => S = {}
        /\ g = 1 /\ n = 1 /\ found[r] # {} => S = found[r]
  BY DEF Saying
<1>2. y \in said =>
        /\ n = 0 => T = {}
        /\ g = 1 /\ n = 1 /\ found[r] # {} => T = found[r]
  BY DEF Saying
<1>3. x \in said /\ y \in said => S = T
  <2>1. /\ x.rank = y.rank /\ x.generation = y.generation /\ x.sequence = y.sequence
        /\ x.held = S /\ y.held = T
    OBVIOUS
  <2> HIDE DEF x, y
  <2> QED BY <2>1 DEF Consistent
<1> QED BY <1>1, <1>2, <1>3 DEF Named

LEMMA NamedKept ==
  ASSUME said \subseteq said', found' = found
  PROVE  /\ \A r, g, n, S : Named(r, g, n, S) => Named(r, g, n, S)'
         /\ \A r, g, d : DeltaOf(r, g, d) => DeltaOf(r, g, d)'
         /\ \A r, g, c : ChunkOf(r, g, c) => ChunkOf(r, g, c)'
         /\ \A m : ReportOf(m) => ReportOf(m)'
<1>1. \A r, g, n, S : Named(r, g, n, S) => Named(r, g, n, S)'
  BY DEF Named
<1>2. \A r, g, d : DeltaOf(r, g, d) => DeltaOf(r, g, d)'
  BY <1>1 DEF DeltaOf
<1>3. \A r, g, c : ChunkOf(r, g, c) => ChunkOf(r, g, c)'
  BY <1>1 DEF ChunkOf
<1> QED BY <1>1, <1>2, <1>3 DEF ReportOf

(* All chunks of a checkpoint are there when there are as many as it counts.  *)
LEMMA Whole ==
  ASSUME NEW r, NEW g, NEW G \in SUBSET Chunks, NEW c \in G,
         \A x \in said : Saying(x), Consistent,
         \A p \in G : ChunkOf(r, g, p) /\ Key(p) = Key(c),
         Cardinality(G) = c.count
  PROVE  Named(r, g, c.sequence, UNION {p.held : p \in G})
<1>1. PICK S \in SUBSET Digest :
        /\ Named(r, g, c.sequence, S)
        /\ c.index < Count(S) /\ c.count = Count(S) /\ c.held = Chunk(S, c.index)
  BY DEF ChunkOf
<1>2. ASSUME NEW p \in G
      PROVE  /\ p.sequence = c.sequence /\ p.cycle = c.cycle /\ p.index \in Nat
             /\ p.index < Count(S) /\ p.count = Count(S) /\ p.held = Chunk(S, p.index)
  <2>1. p.sequence = c.sequence /\ p.cycle = c.cycle /\ p.index \in Nat
    BY DEF Key, Chunks
  <2>2. PICK T \in SUBSET Digest :
          /\ Named(r, g, p.sequence, T)
          /\ p.index < Count(T) /\ p.count = Count(T) /\ p.held = Chunk(T, p.index)
    BY DEF ChunkOf
  <2>3. T = S
    BY <1>1, <2>1, <2>2, NamedOnce
  <2> QED BY <2>1, <2>2, <2>3
<1> DEFINE n == Count(S)
           f == [p \in G |-> p.index]
<1>3. n \in Nat
  BY CountIs
<1>4. f \in [G -> 0..(n - 1)]
  BY <1>2, <1>3
<1>5. ASSUME NEW p \in G, NEW q \in G, p.index = q.index
      PROVE  p = q
  <2>1. p \in Chunks /\ q \in Chunks
    OBVIOUS
  <2>2. /\ p.sequence = q.sequence /\ p.cycle = q.cycle /\ p.count = q.count
        /\ p.held = q.held
    BY <1>2, <1>5
  <2> QED BY <1>5, <2>1, <2>2 DEF Chunks
<1>6. f \in Injection(G, 0..(n - 1))
  BY <1>4, <1>5 DEF Injection, IsInjective
<1>7. IsFiniteSet(0..(n - 1)) /\ Cardinality(0..(n - 1)) = n
  <2>1. \A k \in Nat : IsFiniteSet(0..(k - 1)) /\ Cardinality(0..(k - 1)) = k
    BY FS_Interval
  <2> QED BY <1>3, <2>1
<1>8. f \in Surjection(G, 0..(n - 1))
  BY <1>1, <1>6, <1>7, FS_Injection
<1>9. \A i \in 0..(n - 1) : \E p \in G : p.index = i
  BY <1>8 DEF Surjection
<1>10. S = UNION {Chunk(S, i) : i \in 0..(n - 1)}
  BY ChunksCover
<1>11. \A p \in G : p.index \in 0..(n - 1) /\ p.held = Chunk(S, p.index)
  BY <1>2, <1>3
<1>12. UNION {p.held : p \in G} = UNION {Chunk(S, i) : i \in 0..(n - 1)}
  <2> HIDE DEF n
  <2> QED BY <1>9, <1>11
<1> QED BY <1>1, <1>10, <1>12

LEMMA BeliefInit ==
  ASSUME FullHandshake, Init
  PROVE  BeliefInv
<1>1. Types
  BY InitTypes
<1>2. Sent
  <2> SUFFICES ASSUME NEW r \in Rank, NEW m \in Handshake(r, found[r]) PROVE ReportOf(m)
    BY DEF Init, Sent
  <2> DEFINE S == found[r]
             n == IF S = {} THEN 0 ELSE 1
  <2>1. S \in SUBSET Digest
    BY DEF Init
  <2>2. Inventory(S) = S
    <3>1. ASSUME NEW d \in S PROVE Place(d, S) < Startup
      <4>1. Place(d, S) \in 0..(Cardinality(S) - 1) /\ Cardinality(S) \in Nat
        BY <2>1, PlaceIs, DigestsFinite
      <4>2. Cardinality(S) <= Cardinality(Digest) /\ Cardinality(Digest) \in Nat
        BY <2>1, DigestAssumption, FS_Subset, FS_CardinalityType
      <4>3. Startup \in Nat /\ Cardinality(Digest) <= Startup
        BY SizeAssumption DEF FullHandshake
      <4> HIDE DEF S
      <4> QED BY <4>1, <4>2, <4>3
    <3> QED BY <3>1 DEF Inventory
  <2>3. PICK i \in 0..(Count(S) - 1) :
          m = [rank |-> r, generation |-> 1, delta |-> None, chunk |-> Checkpoint(S, n, 1, i)]
    BY <2>2 DEF Handshake
  <2>4. Named(r, 1, n, S)
    BY DEF Named
  <2>5. i < Count(S)
    BY <2>1, CountIs
  <2>6. ChunkOf(r, 1, m.chunk)
    BY <2>1, <2>3, <2>4, <2>5 DEF ChunkOf, Checkpoint
  <2> QED BY <2>3, <2>6 DEF ReportOf, DeltaOf, None
<1>3. ASSUME NEW r \in Rank PROVE Working(r) /\ Believing(r)
  <2>1. Count({}) = 1
    BY DEF Count
  <2> QED BY <2>1 DEF Init, Working, Believing, Named
<1>4. (\A x \in said : Saying(x)) /\ Consistent /\ Taken
  BY DEF Init, Consistent, Taken
<1> QED BY <1>1, <1>2, <1>3, <1>4 DEF BeliefInv

LEMMA NewestOf ==
  ASSUME NEW T, NEW s \in Seq(T), NEW n \in Nat, NEW k \in 1..Len(Newest(s, n))
  PROVE  \E l \in 1..Len(s) : Newest(s, n)[k] = s[l]
<1>1. CASE ~(Len(s) > n)
  BY <1>1 DEF Newest
<1>2. CASE Len(s) > n
  <2> DEFINE a == Len(s) - n + 1
  <2>1. Len(s) \in Nat /\ a \in Nat \ {0} /\ Newest(s, n) = SubSeq(s, a, Len(s))
    BY <1>2 DEF Newest
  <2>2. \A j \in a..Len(s) : s[j] \in T
    BY <2>1
  <2>3. Len(Newest(s, n)) = n /\ Newest(s, n)[k] = s[a + k - 1]
    <3>1. /\ Len(SubSeq(s, a, Len(s))) = n
          /\ \A j \in 1..n : SubSeq(s, a, Len(s))[j] = s[a + j - 1]
      BY <2>1, <1>2
    <3> QED BY <2>1, <3>1
  <2>4. a + k - 1 \in 1..Len(s)
    BY <2>1, <2>3, <1>2
  <2> QED BY <2>3, <2>4
<1> QED BY <1>1, <1>2

LEMMA BeliefSend ==
  ASSUME BeliefInv, NEW r \in Rank, Send(r)
  PROVE  /\ (\A x \in said' : Saying(x)') /\ Consistent' /\ (\A s \in Rank : Working(s)')
         /\ Sent'
<1>0. PICK g, n, H, O, D, K, m :
        /\ g = generation[r] /\ n = Now(r) /\ H = held[r] /\ O = observed[r] /\ D = deltas[r]
        /\ K = Kept(r) /\ m = Report(r)
  OBVIOUS
<1> DEFINE new == [rank |-> r, generation |-> g, sequence |-> n, held |-> H]
<1>1. /\ said' = said \cup {new} /\ found' = found /\ generation' = generation /\ held' = held
      /\ sequence' = [sequence EXCEPT ![r] = n] /\ observed' = [observed EXCEPT ![r] = held[r]]
      /\ deltas' = [deltas EXCEPT ![r] = Kept(r)] /\ net' = net \cup {m}
  BY <1>0 DEF Send
<1> USE <1>0
<1>2. /\ g \in Nat /\ sequence \in [Rank -> Nat] /\ observed \in [Rank -> SUBSET Digest]
      /\ held \in [Rank -> SUBSET Digest] /\ deltas \in [Rank -> Seq(Deltas)]
      /\ index \in [Rank -> Nat] /\ said \subseteq States
  BY DEF BeliefInv, Types, WorkerTypes
<1>3. /\ \A s, h, k, S : Named(s, h, k, S) => Named(s, h, k, S)'
      /\ \A s, h, d : DeltaOf(s, h, d) => DeltaOf(s, h, d)'
      /\ \A q : ReportOf(q) => ReportOf(q)'
  BY <1>1, NamedKept
<1>4. Working(r) /\ \A x \in said : Saying(x)
  BY DEF BeliefInv
<1>5. Named(r, g, n, H)'
  BY <1>1 DEF Named
<1>6. \/ Changed(r) /\ n = sequence[r] + 1
      \/ H = O /\ n = sequence[r]
  BY DEF Changed, Now
<1>7. /\ n = 0 => H = {}
      /\ g = 1 /\ n = 1 /\ found[r] # {} => H = found[r]
  BY <1>2, <1>4, <1>6 DEF Working
<1>8. \A x \in said : (x.rank = r /\ x.generation = g) =>
        /\ x.sequence <= n
        /\ x.sequence = n => x.held = H
  <2> SUFFICES ASSUME NEW x \in said, x.rank = r, x.generation = g
               PROVE  /\ x.sequence <= n
                      /\ x.sequence = n => x.held = H
    OBVIOUS
  <2>1. x.sequence \in Nat /\ x.sequence <= sequence[r] /\ sequence[r] \in Nat
        /\ (x.sequence = sequence[r] => x.held = O)
    BY <1>2, <1>4 DEF Saying, States
  <2> QED BY <2>1, <1>6
<1>9. \A x \in said' : Saying(x)'
  <2>1. ASSUME NEW x \in said PROVE Saying(x)'
    <3>1. Saying(x) /\ x.rank \in Rank
      BY <1>2, <1>4 DEF States
    <3>2. CASE x.rank = r
      BY <1>1, <1>2, <1>8, <3>1, <3>2 DEF Saying
    <3>3. CASE x.rank # r
      BY <1>1, <1>2, <3>1, <3>3 DEF Saying
    <3> QED BY <3>2, <3>3
  <2>2. Saying(new)'
    <3>1. n \in Nat /\ sequence'[r] = n /\ observed'[r] = H /\ generation'[r] = g /\ found' = found
      BY <1>1, <1>2, <1>6
    <3> QED BY <1>2, <1>7, <3>1 DEF Saying
  <2> QED BY <1>1, <2>1, <2>2
<1>10. Consistent'
  <2>1. \A x \in said : (x.rank = r /\ x.generation = g /\ x.sequence = n) => x.held = H
    BY <1>8
  <2>2. said' = said \cup {new} /\ Consistent
    BY <1>1 DEF BeliefInv
  <2> QED BY <2>1, <2>2 DEF Consistent
<1>11. /\ index[r] < Count(O) /\ Count(H) \in Nat \ {0}
       /\ Index(r) \in Nat /\ Index(r) < Count(H)
  BY <1>2, <1>4, <1>6, CountIs DEF Working, Index, Changed
<1>12. K \in Seq(Deltas)
  BY ReportType DEF BeliefInv
<1>13. \A k \in 1..Len(K) : DeltaOf(r, g, K[k])'
  <2>1. \A k \in 1..Len(D) : DeltaOf(r, g, D[k])'
    BY <1>3, <1>4 DEF Working
  <2>2. CASE ~Described(r)
    BY <2>1, <2>2 DEF Kept
  <2>3. CASE Described(r)
    <3> DEFINE d == Delta(n, O, H)
               all == Append(D, d)
    <3>1. DeltaOf(r, g, d)'
      <4>1. n - 1 = sequence[r]
        BY <1>2, <1>6, <2>3 DEF Described, Changed
      <4>2. Named(r, g, n - 1, O)'
        BY <1>3, <1>4, <4>1 DEF Working
      <4>3. O \in SUBSET Digest /\ H \in SUBSET Digest
        BY <1>2
      <4>4. d.sequence = n /\ d.added = H \ O /\ d.removed = O \ H
        BY DEF Delta
      <4>5. \E S, T \in SUBSET Digest :
              /\ Named(r, g, d.sequence - 1, S)' /\ Named(r, g, d.sequence, T)'
              /\ d.added = T \ S /\ d.removed = S \ T
        <5> HIDE DEF d
        <5> QED BY <1>5, <4>2, <4>3, <4>4
      <4> HIDE DEF d
      <4> QED BY <4>5 DEF DeltaOf
    <3>2. d \in Deltas
      <4>1. n \in Nat
        BY <1>2, <1>6
      <4> QED BY <1>2, <4>1 DEF Delta, Deltas
    <3>3. all \in Seq(Deltas) /\ \A k \in 1..Len(all) : DeltaOf(r, g, all[k])'
      <4>1. D \in Seq(Deltas) /\ Len(D) \in Nat
        BY <1>2
      <4> HIDE DEF d
      <4>2. /\ all \in Seq(Deltas) /\ Len(all) = Len(D) + 1 /\ all[Len(D) + 1] = d
            /\ \A k \in 1..Len(D) : all[k] = D[k]
        BY <3>2, <4>1
      <4> HIDE DEF all
      <4>3. ASSUME NEW k \in 1..Len(all) PROVE DeltaOf(r, g, all[k])'
        <5>1. CASE k = Len(D) + 1
          BY <3>1, <4>2, <5>1
        <5>2. CASE k # Len(D) + 1
          BY <2>1, <4>1, <4>2, <5>2
        <5> QED BY <5>1, <5>2
      <4> QED BY <4>2, <4>3
    <3>4. K = Newest(all, History) /\ History \in Nat
      BY <2>3, SizeAssumption DEF Kept
    <3> HIDE DEF all
    <3> QED BY <3>3, <3>4, NewestOf
  <2> QED BY <2>2, <2>3
<1>14. Working(r)'
  <2>1. index'[r] < Count(H)
    BY <1>2, <1>11 DEF Send
  <2>2. /\ sequence'[r] = n /\ observed'[r] = H /\ held'[r] = H /\ generation'[r] = g
        /\ deltas'[r] = K /\ found' = found
    BY <1>1, <1>2
  <2>3. (g = 1 /\ found[r] # {}) =>
          /\ n = 0 => H = found[r]
          /\ n = 1 => H = found[r]
    BY <1>2, <1>4, <1>6, <1>7 DEF Working
  <2>4. Named(r, generation[r], sequence[r], observed[r])'
    BY <1>5, <2>2
  <2>5. \A k \in 1..Len(deltas'[r]) : DeltaOf(r, generation[r], deltas[r][k])'
    BY <1>13, <2>2
  <2>6. /\ sequence'[r] = 0 => observed'[r] = {}
        /\ (generation'[r] = 1 /\ found'[r] # {}) =>
             /\ sequence'[r] = 0 => held'[r] = found'[r]
             /\ sequence'[r] = 1 => observed'[r] = found'[r]
        /\ index'[r] < Count(observed'[r])
    BY <1>7, <2>1, <2>2, <2>3
  <2> QED BY <2>4, <2>5, <2>6 DEF Working
<1>15. ASSUME NEW s \in Rank, s # r PROVE Working(s)'
  <2>1. /\ sequence'[s] = sequence[s] /\ observed'[s] = observed[s] /\ index'[s] = index[s]
        /\ deltas'[s] = deltas[s] /\ UNCHANGED <<generation, held, found>>
    BY <1>1, <1>2, <1>15 DEF Send
  <2> QED BY <1>3, <2>1 DEF BeliefInv, Working
<1>16. ReportOf(m)'
  <2>1. DeltaOf(r, g, m.delta)'
    <3>1. CASE K = <<>>
      BY <3>1 DEF Report, DeltaOf, None
    <3>2. CASE K # <<>>
      <4>1. Len(K) \in Nat \ {0} /\ cursor[r] \in Nat
        BY <1>12, <3>2 DEF BeliefInv, Types, WorkerTypes
      <4>2. cursor[r] % Len(K) \in 0..(Len(K) - 1)
        BY <4>1
      <4>3. Turn(r) + 1 \in 1..Len(K)
        BY <4>1, <4>2 DEF Turn
      <4>4. m.delta = K[Turn(r) + 1]
        BY <3>2 DEF Report
      <4> QED BY <1>13, <4>3, <4>4
    <3> QED BY <3>1, <3>2
  <2>2. ChunkOf(r, g, m.chunk)'
    <3>1. /\ m.chunk.sequence = n /\ m.chunk.index = Index(r) /\ m.chunk.count = Count(H)
          /\ m.chunk.held = Chunk(H, Index(r))
      BY <1>0 DEF Report, Checkpoint
    <3>2. H \in SUBSET Digest
      BY <1>2
    <3>3. m.chunk.index < Count(H) /\ m.chunk.held = Chunk(H, m.chunk.index)
      BY <1>11, <3>1
    <3> QED BY <1>5, <3>1, <3>2, <3>3 DEF ChunkOf
  <2>3. m.rank = r /\ m.generation = g
    BY DEF Report
  <2> QED BY <2>1, <2>2, <2>3 DEF ReportOf
<1>17. Sent'
  BY <1>1, <1>3, <1>16 DEF BeliefInv, Sent
<1> QED BY <1>9, <1>10, <1>14, <1>15, <1>17

(* While the processes stand still what they have said does.                 *)
LEMMA WorkersStill ==
  ASSUME BeliefInv, UNCHANGED <<worker, net>>
  PROVE  /\ (\A x \in said' : Saying(x)') /\ Consistent' /\ (\A s \in Rank : Working(s)')
         /\ Sent'
<1>1. \A m : ReportOf(m) => ReportOf(m)'
  BY NamedKept DEF worker
<1>2. Sent'
  BY <1>1 DEF BeliefInv, Sent
<1>3. ASSUME NEW s \in Rank PROVE Working(s)'
  <2>1. Working(s)
    BY DEF BeliefInv
  <2>2. /\ UNCHANGED <<generation, held, observed, sequence, deltas, index, found>>
        /\ said \subseteq said' /\ found' = found
    BY DEF worker
  <2>3. /\ \A r, g, n, S : Named(r, g, n, S) => Named(r, g, n, S)'
        /\ \A r, g, d : DeltaOf(r, g, d) => DeltaOf(r, g, d)'
    BY <2>2, NamedKept
  <2> QED BY <2>1, <2>2, <2>3 DEF Working
<1> QED BY <1>2, <1>3 DEF BeliefInv, Saying, Consistent, worker

(* ... and what the scheduler believes keeps its meaning while they go on.    *)
LEMMA BeliefStill ==
  ASSUME BeliefInv, said \subseteq said', found' = found,
         UNCHANGED <<known, accepted, believed, pending, partial, stage, report>>
  PROVE  Taken' /\ \A s \in Rank : Believing(s)'
<1>1. /\ \A r, g, n, S : Named(r, g, n, S) => Named(r, g, n, S)'
      /\ \A r, g, d : DeltaOf(r, g, d) => DeltaOf(r, g, d)'
      /\ \A r, g, c : ChunkOf(r, g, c) => ChunkOf(r, g, c)'
      /\ \A m : ReportOf(m) => ReportOf(m)'
  BY NamedKept
<1>2. Taken'
  BY <1>1 DEF BeliefInv, Taken
<1>3. ASSUME NEW s \in Rank PROVE Believing(s)'
  BY <1>1 DEF BeliefInv, Believing
<1> QED BY <1>2, <1>3

LEMMA BeliefHold ==
  ASSUME BeliefInv, FullHandshake, NEW r \in Rank, NEW d \in Digest, Hold(r, d)
  PROVE  /\ (\A x \in said' : Saying(x)') /\ Consistent' /\ (\A s \in Rank : Working(s)')
         /\ Sent'
<1>1. /\ UNCHANGED <<generation, observed, sequence, deltas, index, net, found, said>>
      /\ held' = [held EXCEPT ![r] = IF d \in @ THEN @ \ {d} ELSE @ \cup {d}]
      /\ generation[r] > 1 \/ found[r] = {} \/ sequence[r] > 0
  BY DEF Hold, Standing, FullHandshake
<1>2. /\ \A s, h, n, S : Named(s, h, n, S) => Named(s, h, n, S)'
      /\ \A s, h, e : DeltaOf(s, h, e) => DeltaOf(s, h, e)'
      /\ \A q : ReportOf(q) => ReportOf(q)'
  BY <1>1, NamedKept
<1>3. generation[r] \in Nat /\ sequence[r] \in Nat /\ held \in [Rank -> SUBSET Digest]
  BY DEF BeliefInv, Types, WorkerTypes
<1>4. ASSUME NEW s \in Rank PROVE Working(s)'
  <2>1. Working(s) /\ (s # r => held'[s] = held[s])
    BY <1>1, <1>3 DEF BeliefInv
  <2>2. (generation[s] = 1 /\ found[s] # {} /\ sequence[s] = 0) => held'[s] = held[s]
    BY <1>1, <1>3, <2>1
  <2> QED BY <1>1, <1>2, <2>1, <2>2 DEF Working
<1> QED BY <1>1, <1>2, <1>4 DEF BeliefInv, Saying, Consistent, Sent

LEMMA BeliefRestart ==
  ASSUME BeliefInv, NEW r \in Rank, Restart(r)
  PROVE  /\ (\A x \in said' : Saying(x)') /\ Consistent' /\ (\A s \in Rank : Working(s)')
         /\ Sent'
<1>1. /\ UNCHANGED <<net, found, said>> /\ generation' = [generation EXCEPT ![r] = @ + 1]
      /\ observed' = [observed EXCEPT ![r] = {}] /\ sequence' = [sequence EXCEPT ![r] = 0]
      /\ deltas' = [deltas EXCEPT ![r] = <<>>] /\ index' = [index EXCEPT ![r] = 0]
      /\ \A s \in Rank \ {r} : held'[s] = held[s]
  BY DEF Restart, BeliefInv, Types, WorkerTypes
<1>2. /\ \A s, h, n, S : Named(s, h, n, S) => Named(s, h, n, S)'
      /\ \A s, h, e : DeltaOf(s, h, e) => DeltaOf(s, h, e)'
      /\ \A q : ReportOf(q) => ReportOf(q)'
  BY <1>1, NamedKept
<1>3. /\ generation \in [Rank -> Nat] /\ generation[r] \in Gens(r) /\ said \subseteq States
      /\ DOMAIN observed = Rank /\ DOMAIN sequence = Rank /\ DOMAIN deltas = Rank /\ DOMAIN index = Rank
  BY DEF BeliefInv, Types, WorkerTypes
<1>4. /\ generation'[r] = generation[r] + 1 /\ generation'[r] # 1 /\ observed'[r] = {}
      /\ sequence'[r] = 0 /\ deltas'[r] = <<>> /\ index'[r] = 0
  BY <1>1, <1>3 DEF Gens
<1>5. Working(r)'
  <2>1. Count({}) = 1
    BY DEF Count
  <2> QED BY <1>4, <2>1 DEF Working, Named
<1>6. ASSUME NEW s \in Rank, s # r PROVE Working(s)'
  <2>1. /\ generation'[s] = generation[s] /\ observed'[s] = observed[s] /\ sequence'[s] = sequence[s]
        /\ deltas'[s] = deltas[s] /\ index'[s] = index[s] /\ held'[s] = held[s]
    BY <1>1, <1>3, <1>6
  <2>2. Working(s)
    BY DEF BeliefInv
  <2> QED BY <1>1, <1>2, <2>1, <2>2 DEF Working
<1>7. ASSUME NEW x \in said PROVE Saying(x)'
  <2>1. Saying(x) /\ x.rank \in Rank /\ x.generation \in Nat
    BY <1>3 DEF BeliefInv, States
  <2>2. CASE x.rank = r
    <3>1. x.generation < generation'[x.rank]
      BY <1>3, <1>4, <2>1, <2>2 DEF Saying
    <3>2. generation'[x.rank] \in Nat
      BY <1>3, <1>4, <2>2
    <3> QED BY <1>1, <2>1, <3>1, <3>2 DEF Saying
  <2>3. CASE x.rank # r
    BY <1>1, <1>3, <2>1, <2>3 DEF Saying
  <2> QED BY <2>2, <2>3
<1> QED BY <1>1, <1>2, <1>5, <1>6, <1>7 DEF BeliefInv, Consistent, Sent

LEMMA BeliefTake ==
  ASSUME BeliefInv, NEW m \in net, TakeReport(m)
  PROVE  Taken' /\ \A s \in Rank : Believing(s)'
<1> DEFINE r == m.rank
           g == m.generation
<1>1. /\ UNCHANGED <<said, found>> /\ stage' = "delta" /\ report' = m /\ ReportOf(m) /\ r \in Rank
  BY DEF TakeReport, worker, BeliefInv, Sent, Types, WorkerTypes, Reports
<1>2. /\ DOMAIN known = Rank /\ DOMAIN accepted = Rank /\ DOMAIN believed = Rank
      /\ DOMAIN pending = Rank /\ DOMAIN partial = Rank
  BY DEF BeliefInv, Types, BeliefTypes
<1>3. /\ \A s, h, n, S : Named(s, h, n, S) => Named(s, h, n, S)'
      /\ \A s, h, d : DeltaOf(s, h, d) => DeltaOf(s, h, d)'
      /\ \A s, h, c : ChunkOf(s, h, c) => ChunkOf(s, h, c)'
      /\ \A q : ReportOf(q) => ReportOf(q)'
  BY <1>1, NamedKept
<1>4. CASE g = known[r] /\ UNCHANGED <<known, accepted, believed, pending, partial>>
  <2>1. Taken'
    BY <1>1, <1>3, <1>4 DEF Taken
  <2>2. ASSUME NEW s \in Rank PROVE Believing(s)'
    BY <1>3, <1>4 DEF BeliefInv, Believing
  <2> QED BY <2>1, <2>2
<1>5. CASE Begin(r, g)
  <2>1. Taken'
    BY <1>1, <1>2, <1>3, <1>5 DEF Taken, Begin
  <2>2. ASSUME NEW s \in Rank, s # r PROVE Believing(s)'
    BY <1>1, <1>2, <1>3, <1>5, <2>2 DEF BeliefInv, Believing, Begin
  <2>3. Believing(r)'
    BY <1>1, <1>2, <1>5 DEF Believing, Begin, Named
  <2> QED BY <2>1, <2>2, <2>3
<1> QED BY <1>4, <1>5 DEF TakeReport

LEMMA BeliefAbsorb ==
  ASSUME BeliefInv, Absorb
  PROVE  Taken' /\ \A s \in Rank : Believing(s)'
<1>0. PICK r, c, d, g : r = report.rank /\ c = report.chunk /\ d = report.delta /\ g = known[r]
  OBVIOUS
<1>1. /\ UNCHANGED <<said, found, known>> /\ stage # "idle" /\ r \in Rank
      /\ d \in Deltas /\ c \in Chunks
  BY <1>0, Absorbing DEF BeliefInv, worker
<1>2. /\ accepted \in [Rank -> Nat] /\ believed \in [Rank -> SUBSET Digest] /\ DOMAIN pending = Rank
      /\ DOMAIN partial = Rank /\ partial[r] \in SUBSET Chunks /\ pending[r] \in SUBSET Deltas
  BY <1>1 DEF BeliefInv, Types, BeliefTypes
<1>3. /\ \A s, h, n, S : Named(s, h, n, S) => Named(s, h, n, S)'
      /\ \A s, h, e : DeltaOf(s, h, e) => DeltaOf(s, h, e)'
      /\ \A s, h, e : ChunkOf(s, h, e) => ChunkOf(s, h, e)'
      /\ \A q : ReportOf(q) => ReportOf(q)'
  BY <1>1, NamedKept
<1>4. DeltaOf(r, g, d) /\ ChunkOf(r, g, c) /\ known[report.rank] = report.generation /\ ReportOf(report)
  BY <1>0, <1>1 DEF BeliefInv, Taken, ReportOf
<1>5. Taken'
  <2>1. stage' = "idle" \/ report' = report
    BY DEF Absorb, IgnoreDelta, RefuseDelta, KeepDelta, ApplyDelta, EndDrain, IgnoreChunk, KeepChunk,
           CompleteCheckpoint
  <2> QED BY <1>1, <1>3, <1>4, <2>1 DEF Taken
<1>6. Believing(r) /\ (\A x \in said : Saying(x)) /\ Consistent
  BY <1>1 DEF BeliefInv
<1>7. ASSUME UNCHANGED <<accepted, believed>>,
             \A s \in Rank : \A p \in pending'[s] : p \in pending[s] \/ (s = r /\ p = d),
             \A s \in Rank : \A p \in partial'[s] : p \in partial[s] \/ (s = r /\ p = c)
      PROVE  \A s \in Rank : Believing(s)'
  <2> SUFFICES ASSUME NEW s \in Rank PROVE Believing(s)'
    OBVIOUS
  <2>1. Believing(s)
    BY DEF BeliefInv
  <2>2. \A p \in pending'[s] : DeltaOf(s, known[s], p)
    BY <1>0, <1>4, <1>7, <2>1 DEF Believing
  <2>3. \A p \in partial'[s] : ChunkOf(s, known[s], p)
    BY <1>0, <1>4, <1>7, <2>1 DEF Believing
  <2> QED BY <1>1, <1>3, <1>7, <2>1, <2>2, <2>3 DEF Believing
<1>8. CASE IgnoreDelta \/ RefuseDelta \/ EndDrain
  <2>1. UNCHANGED <<accepted, believed, pending, partial>>
    BY <1>8 DEF IgnoreDelta, RefuseDelta, EndDrain, belief
  <2>2. /\ \A s \in Rank : \A p \in pending'[s] : p \in pending[s] \/ (s = r /\ p = d)
        /\ \A s \in Rank : \A p \in partial'[s] : p \in partial[s] \/ (s = r /\ p = c)
    BY <2>1
  <2> QED BY <1>5, <1>7, <2>1, <2>2
<1>9. CASE KeepDelta
  <2>1. /\ UNCHANGED <<accepted, believed, partial>>
        /\ pending' = [pending EXCEPT ![r] = (IF Full(r) THEN @ \ {Largest(r)} ELSE @) \cup {d}]
    BY <1>0, <1>9 DEF KeepDelta
  <2>2. /\ \A s \in Rank : \A p \in pending'[s] : p \in pending[s] \/ (s = r /\ p = d)
        /\ \A s \in Rank : \A p \in partial'[s] : p \in partial[s] \/ (s = r /\ p = c)
    BY <1>1, <1>2, <2>1
  <2> QED BY <1>5, <1>7, <2>1, <2>2
<1>10. CASE IgnoreChunk
  <2>1. /\ UNCHANGED <<accepted, believed, pending>>
        /\ partial' = partial \/ partial' = [partial EXCEPT ![r] = {}]
    BY <1>0, <1>10 DEF IgnoreChunk
  <2>2. /\ \A s \in Rank : \A p \in pending'[s] : p \in pending[s] \/ (s = r /\ p = d)
        /\ \A s \in Rank : \A p \in partial'[s] : p \in partial[s] \/ (s = r /\ p = c)
    BY <1>1, <1>2, <2>1
  <2> QED BY <1>5, <1>7, <2>1, <2>2
<1>11. CASE KeepChunk
  <2>1. /\ UNCHANGED <<accepted, believed, pending>>
        /\ partial' = partial \/ partial' = [partial EXCEPT ![r] = Gathered(r, c)]
    BY <1>0, <1>11 DEF KeepChunk
  <2>2. \A p \in Gathered(r, c) : p \in partial[r] \/ p = c
    BY DEF Gathered
  <2>3. /\ \A s \in Rank : \A p \in pending'[s] : p \in pending[s] \/ (s = r /\ p = d)
        /\ \A s \in Rank : \A p \in partial'[s] : p \in partial[s] \/ (s = r /\ p = c)
    BY <1>1, <1>2, <2>1, <2>2
  <2> QED BY <1>5, <1>7, <2>1, <2>3
<1>12. CASE ApplyDelta
  <2>1. PICK p \in pending[r] :
          /\ p.sequence = accepted[r] + 1
          /\ pending' = [pending EXCEPT ![r] = @ \ {p}]
          /\ believed' = [believed EXCEPT ![r] = (@ \ p.removed) \cup p.added]
    BY <1>0, <1>12 DEF ApplyDelta
  <2>2. accepted' = [accepted EXCEPT ![r] = @ + 1] /\ partial' = partial
    BY <1>0, <1>12 DEF ApplyDelta
  <2>3. accepted[r] \in Nat /\ p.sequence # 0 /\ p.sequence - 1 = accepted[r]
    BY <1>1, <1>2, <2>1
  <2>4. PICK S, T \in SUBSET Digest :
          /\ Named(r, g, accepted[r], S) /\ Named(r, g, p.sequence, T)
          /\ p.added = T \ S /\ p.removed = S \ T
    BY <1>0, <1>6, <2>1, <2>3 DEF Believing, DeltaOf
  <2>5. believed[r] = S
    BY <1>0, <1>6, <2>4, NamedOnce DEF Believing
  <2>6. believed'[r] = T /\ accepted'[r] = p.sequence
    BY <1>1, <1>2, <2>1, <2>2, <2>4, <2>5
  <2>7. ASSUME NEW s \in Rank, s # r PROVE Believing(s)'
    <3>1. /\ believed'[s] = believed[s] /\ accepted'[s] = accepted[s] /\ pending'[s] = pending[s]
          /\ partial'[s] = partial[s] /\ known'[s] = known[s]
      BY <1>1, <1>2, <2>1, <2>2, <2>7
    <3> QED BY <1>3, <3>1 DEF BeliefInv, Believing
  <2>8. Believing(r)'
    <3>1. pending'[r] \subseteq pending[r] /\ partial'[r] = partial[r] /\ known'[r] = g
      BY <1>0, <1>1, <1>2, <2>1, <2>2
    <3>2. Named(r, known[r], accepted[r], believed[r])'
      BY <1>3, <2>4, <2>6, <3>1
    <3>3. /\ \A q \in pending'[r] : DeltaOf(r, g, q)'
          /\ \A q \in partial'[r] : ChunkOf(r, g, q)'
      BY <1>0, <1>3, <1>6, <3>1 DEF Believing
    <3> QED BY <3>1, <3>2, <3>3 DEF Believing
  <2> QED BY <1>5, <2>7, <2>8
<1>13. CASE CompleteCheckpoint
  <2> DEFINE G == {p \in partial[r] : Key(p) = Key(c)} \cup {c}
  <2>1. /\ believed' = [believed EXCEPT ![r] = UNION {p.held : p \in G}]
        /\ accepted' = [accepted EXCEPT ![r] = c.sequence]
        /\ pending' = [pending EXCEPT ![r] = {p \in @ : p.sequence > c.sequence}]
        /\ partial' = [partial EXCEPT ![r] = {}]
        /\ Cardinality(G) = c.count
    BY <1>0, <1>13 DEF CompleteCheckpoint, Complete, Gathered
  <2>2. G \in SUBSET Chunks /\ c \in G /\ \A p \in G : ChunkOf(r, g, p) /\ Key(p) = Key(c)
    BY <1>0, <1>1, <1>2, <1>4, <1>6 DEF Believing
  <2>3. Named(r, g, c.sequence, UNION {p.held : p \in G})
    <3> HIDE DEF G
    <3> QED BY <1>6, <2>1, <2>2, Whole
  <2>4. ASSUME NEW s \in Rank, s # r PROVE Believing(s)'
    <3>1. /\ believed'[s] = believed[s] /\ accepted'[s] = accepted[s] /\ pending'[s] = pending[s]
          /\ partial'[s] = partial[s] /\ known'[s] = known[s]
      BY <1>1, <1>2, <2>1, <2>4
    <3> QED BY <1>3, <3>1 DEF BeliefInv, Believing
  <2>5. Believing(r)'
    <3>1. /\ pending'[r] \subseteq pending[r] /\ partial'[r] = {} /\ known'[r] = g
          /\ accepted'[r] = c.sequence /\ believed'[r] = UNION {p.held : p \in G}
      BY <1>0, <1>1, <1>2, <2>1
    <3> HIDE DEF G
    <3>2. Named(r, known[r], accepted[r], believed[r])'
      BY <1>3, <2>3, <3>1
    <3>3. /\ \A q \in pending'[r] : DeltaOf(r, g, q)'
          /\ \A q \in partial'[r] : ChunkOf(r, g, q)'
      BY <1>0, <1>3, <1>6, <3>1 DEF Believing
    <3> QED BY <3>1, <3>2, <3>3 DEF Believing
  <2> QED BY <1>5, <2>4, <2>5
<1>14. \A s \in Rank : Believing(s)'
  BY <1>8, <1>9, <1>10, <1>11, <1>12, <1>13 DEF Absorb
<1> QED BY <1>5, <1>14

LEMMA BeliefStep ==
  ASSUME BeliefInv, FullHandshake, [Next]_vars
  PROVE  BeliefInv'
<1>1. Types'
  BY StepTypes DEF BeliefInv
<1> DEFINE Workers == /\ (\A x \in said : Saying(x)) /\ Consistent /\ (\A s \in Rank : Working(s))
                      /\ Sent
           Scheduler == Taken /\ \A s \in Rank : Believing(s)
<1>2. Workers' /\ Scheduler'
  <2>1. CASE UNCHANGED vars
    BY <2>1, WorkersStill, BeliefStill DEF vars, worker, belief
  <2>2. ASSUME NEW r \in Rank, Send(r) PROVE Workers' /\ Scheduler'
    BY <2>2, BeliefSend, BeliefStill DEF Send, belief
  <2>3. ASSUME NEW r \in Rank, Restart(r) PROVE Workers' /\ Scheduler'
    BY <2>3, BeliefRestart, BeliefStill DEF Restart, belief
  <2>4. ASSUME NEW r \in Rank, NEW d \in Digest, Hold(r, d) PROVE Workers' /\ Scheduler'
    BY <2>4, BeliefHold, BeliefStill DEF Hold, belief
  <2>5. ASSUME NEW m \in net, TakeReport(m) PROVE Workers' /\ Scheduler'
    BY <2>5, BeliefTake, WorkersStill DEF TakeReport
  <2>6. ASSUME NEW d \in Digest, Admit(d) \/ RestoreEnds(d) PROVE Workers' /\ Scheduler'
    BY <2>6, WorkersStill, BeliefStill DEF Admit, RestoreEnds, belief, worker
  <2>7. CASE Absorb
    BY <2>7, BeliefAbsorb, WorkersStill, Absorbing DEF BeliefInv
  <2> HIDE DEF Workers, Scheduler
  <2> QED BY <2>1, <2>2, <2>3, <2>4, <2>5, <2>6, <2>7 DEF Next
<1> QED BY <1>1, <1>2 DEF BeliefInv

LEMMA BeliefMeans == BeliefInv => BeliefAsReported
<1> SUFFICES ASSUME BeliefInv, NEW r \in Rank, NEW x \in said,
                    x.rank = r, x.generation = known[r], x.sequence = accepted[r]
             PROVE  believed[r] = x.held
  BY DEF BeliefAsReported
<1>1. x \in States
  BY DEF BeliefInv, Types, WorkerTypes
<1>2. x = [rank |-> r, generation |-> known[r], sequence |-> accepted[r], held |-> x.held]
  BY <1>1 DEF States
<1>3. Named(r, known[r], accepted[r], x.held)
  BY <1>2 DEF Named
<1> QED BY <1>3, NamedOnce DEF BeliefInv, Believing

(* When the handshake is complete and the held sets stand still until the first *)
(* report, what the scheduler believes is what the rank held.                 *)
THEOREM BeliefsAreAsReported ==
  ASSUME FullHandshake
  PROVE  Spec => []BeliefAsReported
<1>1. Init => BeliefInv
  BY BeliefInit
<1>2. BeliefInv /\ [Next]_vars => BeliefInv'
  BY BeliefStep
<1> QED BY <1>1, <1>2, BeliefMeans, PTL DEF Spec
=============================================================================
