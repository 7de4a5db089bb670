----------------------------- MODULE HeldQuorum -----------------------------
(***************************************************************************)
(* Which cache entries every rank holds (SparkCache base connector): each    *)
(* worker reports its set of held digests to the scheduler, which offers a   *)
(* restore only for a digest that all ranks have confirmed.  A report        *)
(* carries at most one delta between two numbered states of the set and one  *)
(* chunk of a checkpoint of the current one; it may be lost, repeated or     *)
(* overtaken by later ones.  A gap in the numbers withdraws everything the   *)
(* rank has confirmed, until the missing deltas or a whole checkpoint have   *)
(* come.  A worker process that starts again starts a new generation.        *)
(***************************************************************************)
EXTENDS Integers, Sequences, FiniteSets

CONSTANTS
  Rank,        \* the physical ranks, range(_tp_degree)
  Digest,      \* the digests, in the order they are sorted in
  Batch,       \* _QUORUM_REPORT_BATCH_SIZE
  History,     \* _QUORUM_DELTA_HISTORY_SIZE
  PendingLimit,\* _QUORUM_PENDING_DELTA_LIMIT
  RetiredLimit,\* _QUORUM_RETIRED_GENERATION_LIMIT
  Startup,     \* _STARTUP_HANDSHAKE_MAX_DIGESTS
  Settled,     \* a held set stands still from the handshake to the first report
  MaxSequence, \* bound: the states each process of a rank numbers, one process after the other
  MaxCycle     \* bound: the checkpoints each of them begins

ASSUME DigestAssumption == Digest \subseteq Int /\ IsFiniteSet(Digest)
ASSUME SizeAssumption ==
  /\ Batch \in Nat \ {0} /\ History \in Nat \ {0} /\ PendingLimit \in Nat \ {0}
  /\ RetiredLimit \in Nat \ {0} /\ Startup \in Nat /\ Settled \in BOOLEAN
ASSUME BoundAssumption ==
  \A r \in Rank :
    /\ MaxSequence[r] \in Seq(Nat) /\ MaxCycle[r] \in Seq(Nat)
    /\ Len(MaxSequence[r]) > 0 /\ Len(MaxCycle[r]) = Len(MaxSequence[r])

VARIABLES
  generation, \* _stats_generation of each rank's process, numbered from 1
  held,       \* _held
  observed,   \* _stats_observed_held, which the checkpoint items repeat
  sequence,   \* _stats_sequence
  deltas,     \* _stats_delta_history
  cursor,     \* _stats_delta_cursor
  cycle,      \* _stats_checkpoint_cycle
  index,      \* _stats_checkpoint_index
  net,        \* the reports sent: one may be absorbed late, again, or never
  known,      \* _worker_generations; 0 before the first report
  retired,    \* _worker_retired_generations
  accepted,   \* _worker_report_sequences
  believed,   \* _worker_held
  pending,    \* _worker_pending_deltas
  partial,    \* _worker_checkpoints: the chunks of the active checkpoint
  desync,     \* _worker_desynchronized
  requires,   \* _worker_requires_checkpoint
  offers,     \* _quorum, by rank: the digests that count the rank in
  admitted,   \* the digests with a restore under way
  stage,      \* where the scheduler is inside _absorb_quorum
  report,     \* the report it absorbs
  found,      \* (history) what each rank's first process held at the handshake
  said,       \* (history) the states the processes have numbered
  heard       \* (history) the state the last report taken of a process named; -1: none

worker == <<generation, held, observed, sequence, deltas, cursor, cycle, index, found, said>>
belief == <<known, retired, accepted, believed, pending, partial, desync, requires, offers, heard>>
vars == <<worker, net, belief, admitted, stage, report>>

-----------------------------------------------------------------------------
(* Checkpoints.                                                             *)

\* sorted(held) in slices of Batch.
Place(d, S) == Cardinality({e \in S : e < d})
Chunk(S, i) == {d \in S : Place(d, S) \div Batch = i}
Count(S) == IF S = {} THEN 1 ELSE (Cardinality(S) - 1) \div Batch + 1
Checkpoint(S, n, c, i) ==
  [sequence |-> n, cycle |-> c, index |-> i, count |-> Count(S), held |-> Chunk(S, i)]
Key(c) == <<c.sequence, c.cycle>>
Before(j, k) == j[1] < k[1] \/ (j[1] = k[1] /\ j[2] < k[2])

None == [sequence |-> 0, added |-> {}, removed |-> {}]
NoReport == [rank |-> CHOOSE r \in Rank : TRUE, generation |-> 0, delta |-> None,
             chunk |-> Checkpoint({}, 0, 1, 0)]
Delta(n, old, new) == [sequence |-> n, added |-> new \ old, removed |-> old \ new]

Newest(s, n) == IF Len(s) > n THEN SubSeq(s, Len(s) - n + 1, Len(s)) ELSE s

-----------------------------------------------------------------------------
(* The workers.                                                             *)

\* The handshake: the first digests of what discovery found, as checkpoint of
\* the state the first report is going to number.
Inventory(S) == {d \in S : Place(d, S) < Startup}
Handshake(r, S) ==
  {[rank |-> r, generation |-> 1, delta |-> None,
    chunk |-> Checkpoint(Inventory(S), IF S = {} THEN 0 ELSE 1, 1, i)] :
     i \in 0..(Count(Inventory(S)) - 1)}

Init ==
  /\ found \in [Rank -> SUBSET Digest]
  /\ generation = [r \in Rank |-> 1] /\ held = found
  /\ observed = [r \in Rank |-> {}] /\ sequence = [r \in Rank |-> 0]
  /\ deltas = [r \in Rank |-> <<>>] /\ cursor = [r \in Rank |-> 0]
  /\ cycle = [r \in Rank |-> 1] /\ index = [r \in Rank |-> 0]
  /\ net = UNION {Handshake(r, found[r]) : r \in Rank}
  /\ known = [r \in Rank |-> 0] /\ retired = [r \in Rank |-> <<>>]
  /\ accepted = [r \in Rank |-> 0] /\ believed = [r \in Rank |-> {}]
  /\ pending = [r \in Rank |-> {}] /\ partial = [r \in Rank |-> {}]
  /\ desync = {} /\ requires = {} /\ offers = [r \in Rank |-> {}]
  /\ admitted = {} /\ stage = "idle" /\ report = NoReport
  /\ said = {} /\ heard = [r \in Rank |-> [g \in DOMAIN MaxSequence[r] |-> -1]]

\* The handshake's word still stands for the state of the rank.
Standing(r) == Settled => generation[r] > 1 \/ found[r] = {} \/ sequence[r] > 0

\* A store is committed, or an entry expires, is evicted or fails to load.
Hold(r, d) ==
  /\ stage = "idle" /\ Standing(r) /\ sequence[r] < MaxSequence[r][generation[r]]
  /\ held' = [held EXCEPT ![r] = IF d \in @ THEN @ \ {d} ELSE @ \cup {d}]
  /\ UNCHANGED <<generation, observed, sequence, deltas, cursor, cycle, index,
                 net, belief, admitted, stage, report, found, said>>

\* _build_quorum_report_locked: a changed set is numbered, and described by a
\* delta if that is small enough; the deltas kept go out in turn.
Changed(r) == held[r] # observed[r]
Now(r) == IF Changed(r) THEN sequence[r] + 1 ELSE sequence[r]
Described(r) ==
  Changed(r) /\ Cardinality(held[r] \ observed[r]) + Cardinality(observed[r] \ held[r]) <= Batch
Kept(r) ==
  IF Described(r) THEN Newest(Append(deltas[r], Delta(Now(r), observed[r], held[r])), History)
  ELSE deltas[r]
Turn(r) == cursor[r] % Len(Kept(r))
Cycle(r) == IF Changed(r) THEN cycle[r] + 1 ELSE cycle[r]
Index(r) == IF Changed(r) THEN 0 ELSE index[r]
Report(r) ==
  [rank |-> r, generation |-> generation[r],
   delta |-> IF Kept(r) = <<>> THEN None ELSE Kept(r)[Turn(r) + 1],
   chunk |-> Checkpoint(held[r], Now(r), Cycle(r), Index(r))]

Send(r) ==
  /\ stage = "idle" /\ Cycle(r) <= MaxCycle[r][generation[r]]
  /\ Now(r) <= MaxSequence[r][generation[r]]
  /\ net' = net \cup {Report(r)}
  /\ observed' = [observed EXCEPT ![r] = held[r]]
  /\ sequence' = [sequence EXCEPT ![r] = Now(r)]
  /\ deltas' = [deltas EXCEPT ![r] = Kept(r)]
  /\ cursor' = [cursor EXCEPT ![r] =
       IF Kept(r) = <<>> THEN @ ELSE (Turn(r) + 1) % Len(Kept(r))]
  /\ LET last == Index(r) + 1 = Count(held[r])
     IN /\ cycle' = [cycle EXCEPT ![r] = IF last THEN Cycle(r) + 1 ELSE Cycle(r)]
        /\ index' = [index EXCEPT ![r] = IF last THEN 0 ELSE Index(r) + 1]
  /\ said' = said \cup
       {[rank |-> r, generation |-> generation[r], sequence |-> Now(r), held |-> held[r]]}
  /\ UNCHANGED <<generation, held, belief, admitted, stage, report, found>>

\* A process starts again; discovery finds some of the entries.
Restart(r) ==
  /\ stage = "idle" /\ generation[r] < Len(MaxSequence[r])
  /\ generation' = [generation EXCEPT ![r] = @ + 1]
  /\ \E S \in SUBSET held[r] : held' = [held EXCEPT ![r] = S]
  /\ observed' = [observed EXCEPT ![r] = {}] /\ sequence' = [sequence EXCEPT ![r] = 0]
  /\ deltas' = [deltas EXCEPT ![r] = <<>>] /\ cursor' = [cursor EXCEPT ![r] = 0]
  /\ cycle' = [cycle EXCEPT ![r] = 1] /\ index' = [index EXCEPT ![r] = 0]
  /\ UNCHANGED <<net, belief, admitted, stage, report, found, said>>

-----------------------------------------------------------------------------
(* The scheduler absorbs a report: generation, delta, checkpoint.           *)

\* Mutant: the generation that is replaced is not remembered.
BeginUnretired(r, g) ==
  /\ known' = [known EXCEPT ![r] = g] /\ UNCHANGED retired
  /\ accepted' = [accepted EXCEPT ![r] = 0] /\ believed' = [believed EXCEPT ![r] = {}]
  /\ pending' = [pending EXCEPT ![r] = {}] /\ partial' = [partial EXCEPT ![r] = {}]
  /\ desync' = desync \ {r} /\ requires' = requires \ {r}
  /\ offers' = [offers EXCEPT ![r] = {}]

\* _begin_worker_generation, after the old one has been retired.
Begin(r, g) ==
  /\ known' = [known EXCEPT ![r] = g]
  /\ retired' = [retired EXCEPT ![r] =
       IF known[r] = 0 THEN @ ELSE Newest(Append(@, known[r]), RetiredLimit)]
  /\ accepted' = [accepted EXCEPT ![r] = 0] /\ believed' = [believed EXCEPT ![r] = {}]
  /\ pending' = [pending EXCEPT ![r] = {}] /\ partial' = [partial EXCEPT ![r] = {}]
  /\ desync' = desync \ {r} /\ requires' = requires \ {r}
  /\ offers' = [offers EXCEPT ![r] = {}]

IsRetired(r, g) == \E i \in DOMAIN retired[r] : retired[r][i] = g

\* _accept_worker_generation.
TakeReport(m) ==
  /\ stage = "idle" /\ m \in net
  /\ \/ /\ m.generation = known[m.rank]
        /\ UNCHANGED <<known, retired, accepted, believed, pending, partial, desync, requires, offers>>
     \/ /\ m.generation # known[m.rank] /\ ~IsRetired(m.rank, m.generation)
        /\ Begin(m.rank, m.generation)
  /\ heard' = [heard EXCEPT ![m.rank][m.generation] = m.chunk.sequence]
  /\ stage' = "delta" /\ report' = m
  /\ UNCHANGED <<worker, net, admitted>>

\* _mark_worker_desynchronized
Mark(r) ==
  /\ desync' = desync \cup {r}
  /\ offers' = [offers EXCEPT ![r] = IF r \in desync THEN @ ELSE {}]

\* _absorb_worker_delta
Waiting(r, n) == \E p \in pending[r] : p.sequence = n
Fresh(r, d) == d.sequence > accepted[r] /\ ~Waiting(r, d.sequence)
Full(r) == Cardinality(pending[r]) >= PendingLimit
Largest(r) == CHOOSE p \in pending[r] : \A q \in pending[r] : q.sequence <= p.sequence

\* No delta, one that is applied, or one that waits already.
IgnoreDelta ==
  /\ stage = "delta" /\ ~Fresh(report.rank, report.delta)
  /\ stage' = "checkpoint"
  /\ UNCHANGED <<worker, net, belief, admitted, report>>

\* No room for a delta that is later than those that wait.
RefuseDelta ==
  LET r == report.rank
  IN /\ stage = "delta" /\ Fresh(r, report.delta) /\ Full(r)
     /\ report.delta.sequence >= Largest(r).sequence
     /\ requires' = requires \cup {r} /\ Mark(r)
     /\ stage' = "checkpoint"
     /\ UNCHANGED <<worker, net, known, retired, accepted, believed, pending, partial, heard,
                    admitted, report>>

\* The latest gives way to an earlier one; a delta that does not follow the
\* accepted state waits.
KeepDelta ==
  LET r == report.rank
      d == report.delta
  IN /\ stage = "delta" /\ Fresh(r, d)
     /\ Full(r) => d.sequence < Largest(r).sequence
     /\ requires' = IF Full(r) THEN requires \cup {r} ELSE requires
     /\ pending' = [pending EXCEPT ![r] = (IF Full(r) THEN @ \ {Largest(r)} ELSE @) \cup {d}]
     /\ IF Full(r) \/ d.sequence # accepted[r] + 1 THEN Mark(r) ELSE UNCHANGED <<desync, offers>>
     /\ stage' = "drain"
     /\ UNCHANGED <<worker, net, known, retired, accepted, believed, partial, heard, admitted, report>>

\* _drain_worker_deltas: a turn of the loop with _apply_worker_delta, ...
ApplyDelta ==
  LET r == report.rank
  IN /\ stage \in {"drain", "redrain"}
     /\ \E p \in pending[r] :
          /\ p.sequence = accepted[r] + 1
          /\ pending' = [pending EXCEPT ![r] = @ \ {p}]
          /\ believed' = [believed EXCEPT ![r] = (@ \ p.removed) \cup p.added]
          /\ offers' = [offers EXCEPT ![r] =
               IF r \in desync THEN @ ELSE (@ \ p.removed) \cup p.added]
     /\ accepted' = [accepted EXCEPT ![r] = @ + 1]
     /\ UNCHANGED <<worker, net, known, retired, partial, desync, requires, heard, admitted,
                    stage, report>>

\* ... and what follows it: the rank counts again if nothing is missing.
EndDrain ==
  LET r == report.rank
  IN /\ stage \in {"drain", "redrain"} /\ ~Waiting(r, accepted[r] + 1)
     /\ IF pending[r] # {} \/ r \in requires THEN Mark(r)
        ELSE /\ desync' = desync \ {r}
             /\ offers' = [offers EXCEPT ![r] = IF r \in desync THEN @ \cup believed[r] ELSE @]
     /\ IF stage = "drain" THEN stage' = "checkpoint" /\ UNCHANGED report
        ELSE stage' = "idle" /\ report' = NoReport
     /\ UNCHANGED <<worker, net, known, retired, accepted, believed, pending, partial, requires,
                    heard, admitted>>

\* Mutants: the chunks of an overtaken checkpoint are kept; one that runs ahead of
\* the accepted state leaves the rank counted.
GatheredAcross(r, c) == partial[r] \cup {c}
MarkNever(r, c) == UNCHANGED <<desync, offers>>

\* _absorb_worker_checkpoint
Synced(r) == r \notin desync /\ r \notin requires
Wanted(r, c) == c.sequence > accepted[r] \/ (c.sequence = accepted[r] /\ ~Synced(r))
Overtaken(r, c) == \E p \in partial[r] : Before(Key(c), Key(p))
Gathered(r, c) == {p \in partial[r] : Key(p) = Key(c)} \cup {c}
Complete(r, c) == Cardinality(Gathered(r, c)) = c.count
MarkIfAhead(r, c) == IF c.sequence > accepted[r] THEN Mark(r) ELSE UNCHANGED <<desync, offers>>

\* A chunk of an earlier state, or of one the scheduler knows anyway.
IgnoreChunk ==
  LET r == report.rank
  IN /\ stage = "checkpoint" /\ ~Wanted(r, report.chunk)
     /\ partial' = IF report.chunk.sequence = accepted[r] THEN [partial EXCEPT ![r] = {}] ELSE partial
     /\ stage' = "idle" /\ report' = NoReport
     /\ UNCHANGED <<worker, net, known, retired, accepted, believed, pending, desync, requires,
                    offers, heard, admitted>>

KeepChunk ==
  LET r == report.rank
      c == report.chunk
  IN /\ stage = "checkpoint" /\ Wanted(r, c) /\ (Overtaken(r, c) \/ ~Complete(r, c))
     /\ MarkIfAhead(r, c)
     /\ partial' = IF Overtaken(r, c) THEN partial ELSE [partial EXCEPT ![r] = Gathered(r, c)]
     /\ stage' = "idle" /\ report' = NoReport
     /\ UNCHANGED <<worker, net, known, retired, accepted, believed, pending, requires, heard, admitted>>

\* The whole set: it replaces what was believed, and the deltas after it follow.
CompleteCheckpoint ==
  LET r == report.rank
      c == report.chunk
  IN /\ stage = "checkpoint" /\ Wanted(r, c) /\ ~Overtaken(r, c) /\ Complete(r, c)
     /\ believed' = [believed EXCEPT ![r] = UNION {p.held : p \in Gathered(r, c)}]
     /\ accepted' = [accepted EXCEPT ![r] = c.sequence]
     /\ pending' = [pending EXCEPT ![r] = {p \in @ : p.sequence > c.sequence}]
     /\ desync' = desync \cup {r} /\ offers' = [offers EXCEPT ![r] = {}]
     /\ requires' = requires \ {r} /\ partial' = [partial EXCEPT ![r] = {}]
     /\ stage' = "redrain"
     /\ UNCHANGED <<worker, net, known, retired, heard, admitted, report>>

-----------------------------------------------------------------------------
(* Restores, as far as they read or reset the confirmations.                *)

HasFullQuorum(d) == \A r \in Rank : d \in offers[r]

Admit(d) ==
  /\ stage = "idle" /\ HasFullQuorum(d) /\ admitted' = admitted \cup {d}
  /\ UNCHANGED <<worker, net, belief, stage, report>>

\* update_connector_output: a restore ends, or a rank could not load its part.
RestoreEnds(d) ==
  /\ stage = "idle" /\ d \in admitted /\ admitted' = admitted \ {d}
  /\ offers' \in {offers, [r \in Rank |-> offers[r] \ {d}]}
  /\ UNCHANGED <<worker, net, known, retired, accepted, believed, pending, partial, desync, requires,
                 heard, stage, report>>

Absorb ==
  \/ IgnoreDelta \/ RefuseDelta \/ KeepDelta \/ ApplyDelta \/ EndDrain
  \/ IgnoreChunk \/ KeepChunk \/ CompleteCheckpoint

Next ==
  \/ \E r \in Rank : Send(r) \/ Restart(r) \/ \E d \in Digest : Hold(r, d)
  \/ \E m \in net : TakeReport(m)
  \/ \E d \in Digest : Admit(d) \/ RestoreEnds(d)
  \/ Absorb

Spec == Init /\ [][Next]_vars

-----------------------------------------------------------------------------
(* Properties.                                                              *)

\* What the scheduler believes a rank holds is exactly what the rank held in
\* the state that is accepted of it, whatever mixture of handshake, deltas and
\* chunks has brought it there.
BeliefAsReported ==
  \A r \in Rank : \A x \in said :
    (x.rank = r /\ x.generation = known[r] /\ x.sequence = accepted[r])
      => believed[r] = x.held

\* A report of the statistics (a cycle after the handshake's) that brings the
\* whole of the accepted state leaves the scheduler with that set: "Later bounded
\* statistics report entries outside that startup subset."
EntriesReported ==
  [][LET r == report.rank
         c == report.chunk
     IN stage # "idle" /\ stage' = "idle" /\ c.cycle > 1 /\ c.count = 1
        /\ c.sequence = accepted'[r] => believed'[r] = c.held]_vars

\* A rank counts only for what it is believed to hold, and only while nothing is
\* known to be missing: no delta waits, no checkpoint is required, and the state
\* that its last report named is accepted ("Sequence gaps withdraw the rank's
\* confirmations").
ConfirmationsCurrent ==
  \A r \in Rank : offers[r] # {} =>
    /\ r \notin desync /\ offers[r] \subseteq believed[r]
    /\ stage = "idle" => /\ pending[r] = {} /\ r \notin requires
                        /\ accepted[r] >= heard[r][known[r]]

\* Within a process the accepted state only moves on, and a process that was
\* replaced is never taken up again, however late its reports come.
NeverBack ==
  [][\A r \in Rank :
       /\ known'[r] = known[r] => accepted'[r] >= accepted[r]
       /\ known'[r] # known[r] => heard[r][known'[r]] = -1]_vars
=============================================================================
