-------------------------- MODULE ControllerProofs --------------------------
(***************************************************************************)
(* Proofs about Controller, for any number of hosts, commands and remote      *)
(* commands left behind.  The invariant says, of every host no late command   *)
(* acted on, what each stage of a command knows about it: the hosts a loop    *)
(* has passed, and those still in front of it.                               *)
(***************************************************************************)
EXTENDS Controller, TLAPS

Kinds == {"up", "down", "restart", "poweroff"}
Stages == {"idle", "check", "launch", "health", "disarm", "power"} \cup Upward
Calls == {"start", "stop", "remove", "launch"}
Outcomes == {"none", "unprepared", "ready", "failed", "down", "undone", "off", "killed"}
HostStates == [stack : 0..count, flusher : BOOLEAN]
LateCalls == [at : Hosts, does : Calls, by : 0..count]

(* A container is of no launch later than the newest, nor is a late one.       *)
Types ==
  /\ count \in Nat \ {0} /\ kind \in Kinds \cup {"none"} /\ pc \in Stages
  /\ i \in 0..N /\ rc \in {0, 1} /\ torn \in BOOLEAN /\ outcome \in Outcomes
  /\ host \in [Hosts -> HostStates] /\ late \subseteq LateCalls
  /\ before \in [Hosts -> Nat] /\ missed \subseteq Hosts /\ touched \subseteq Hosts

(* What a command knows of itself.                                           *)
Control ==
  /\ outcome # "none" => pc = "idle"
  /\ pc \in {"tear", "launch", "health", "flushOff", "retryOff", "disarm", "cleanTear"} => torn
  /\ pc \in {"check", "flushOn", "downOff", "downTear"} => ~torn
  /\ pc \in {"downOff", "downTear"} /\ rc = 0 => missed = {}

(* What it knows of a host that no late command acted on.                     *)
Stack(h) == host[h].stack
HostInv(h) ==
  /\ pc \in {"downOff", "downTear", "check", "flushOn", "tear"} => Stack(h) # count
  /\ pc \in {"check", "flushOn"} \/ (pc = "cleanOff" /\ ~torn) => Stack(h) = before[h]
  /\ pc = "tear" /\ rc = 0 /\ h < i => Stack(h) = Nothing
  /\ pc = "launch" => Stack(h) = IF h > N - 1 - i THEN count ELSE Nothing
  /\ pc \in {"health", "flushOff", "retryOff", "disarm"} => Stack(h) = count
  /\ pc \in {"flushOff", "retryOff"} /\ rc = 0 /\ h < i => ~host[h].flusher
  /\ pc = "disarm" => ~host[h].flusher
  /\ pc \in {"cleanTear", "downTear"} /\ h < i /\ h \notin missed => Stack(h) = Nothing
  /\ pc = "cleanOff" /\ torn /\ h \notin missed => Stack(h) = Nothing
  /\ pc \in {"cleanOff", "downOff"} /\ h < i /\ h \notin missed => ~host[h].flusher
  /\ pc = "downTear" /\ h \notin missed => ~host[h].flusher
  /\ pc = "power" \/ (pc = "check" /\ kind = "restart") => host[h] = Empty
EndInv(h) ==
  /\ outcome = "ready" => Stack(h) = count /\ ~host[h].flusher
  /\ outcome = "failed" =>
       /\ ~torn => Stack(h) = before[h]
       /\ torn /\ h \notin missed => Stack(h) = Nothing
       /\ h \notin missed => ~host[h].flusher
  /\ outcome \in {"down", "off"} => host[h] = Empty
  /\ outcome = "undone" /\ h \notin missed => host[h] = Empty

IInv == Types /\ Control /\ \A h \in Undisturbed : HostInv(h) /\ EndInv(h)

-----------------------------------------------------------------------------
(* The remote commands.                                                     *)

LEMMA DoesIs ==
  /\ Does("flushOn") = "start"
  /\ \A p \in {"flushOff", "retryOff", "cleanOff", "downOff"} : Does(p) = "stop"
  /\ \A p \in {"tear", "cleanTear", "downTear"} : Does(p) = "remove"
  /\ Does("launch") = "launch"
  /\ \A p \in Upward : Does(p) \in Calls
BY DEF Does, Calls, Upward

(* What each of them leaves of a host.                                       *)
LEMMA DoneIs ==
  ASSUME Types, NEW by \in 0..count, NEW x \in HostStates
  PROVE  /\ \A d \in Calls : Done(d, by, x) \in HostStates
         /\ \A d \in Calls : Broken(d, by, x) \subseteq HostStates
         /\ \A y \in Broken("start", by, x) \cup Broken("stop", by, x) : y.stack = x.stack
         /\ \A y \in Broken("remove", by, x) : y.flusher = x.flusher /\ y.stack \in {x.stack, 0}
         /\ Done("start", by, x).stack = x.stack
         /\ Done("stop", by, x).stack = x.stack /\ Done("stop", by, x).flusher = FALSE
         /\ Done("remove", by, x).stack = 0 /\ Done("remove", by, x).flusher = x.flusher
         /\ Done("launch", by, x).stack = by /\ Done("launch", by, x).flusher = x.flusher
<1>1. 0 \in 0..count /\ x \in [stack : 0..count, flusher : BOOLEAN]
  BY DEF Types, HostStates
<1>2. /\ Done("start", by, x) = [x EXCEPT !.flusher = TRUE]
      /\ Done("stop", by, x) = [x EXCEPT !.flusher = FALSE]
      /\ Done("remove", by, x) = [x EXCEPT !.stack = 0]
      /\ Done("launch", by, x) = [x EXCEPT !.stack = by]
  BY DEF Done, Nothing
<1>3. /\ Half("start", x) = [x EXCEPT !.flusher = FALSE]
      /\ Half("launch", x) = [x EXCEPT !.stack = 0]
      /\ Half("stop", x) = x /\ Half("remove", x) = x
  BY DEF Half, Nothing
<1>4. /\ \A d \in Calls : Done(d, by, x) \in HostStates
      /\ \A d \in Calls : Half(d, x) \in HostStates
  <2>1. /\ [x EXCEPT !.flusher = TRUE] \in HostStates
        /\ [x EXCEPT !.flusher = FALSE] \in HostStates
    BY <1>1 DEF HostStates
  <2>2. /\ [x EXCEPT !.stack = 0] \in HostStates
        /\ [x EXCEPT !.stack = by] \in HostStates
    BY <1>1 DEF HostStates
  <2> QED
    BY <1>2, <1>3, <2>1, <2>2 DEF Calls
<1>5. \A d \in Calls : Broken(d, by, x) \subseteq HostStates
  BY <1>4 DEF Broken
<1>6. \A y \in Broken("start", by, x) \cup Broken("stop", by, x) : y.stack = x.stack
  BY <1>1, <1>2, <1>3 DEF Broken
<1>7. \A y \in Broken("remove", by, x) : y.flusher = x.flusher /\ y.stack \in {x.stack, 0}
  BY <1>1, <1>2, <1>3 DEF Broken
<1> QED
  BY <1>1, <1>2, <1>4, <1>5, <1>6, <1>7

(* What a command leaves, whichever of its three outcomes it has.            *)
LEMMA BrokenIs ==
  ASSUME NEW by, NEW x \in HostStates
  PROVE  /\ \A y \in Broken("start", by, x) \cup Broken("stop", by, x) : y.stack = x.stack
         /\ \A y \in Broken("remove", by, x) : y.flusher = x.flusher /\ y.stack \in {x.stack, 0}
         /\ Done("stop", by, x).flusher = FALSE /\ Done("remove", by, x).stack = 0
<1>1. x \in [stack : 0..count, flusher : BOOLEAN]
  BY DEF HostStates
<1>2. /\ Done("start", by, x) = [x EXCEPT !.flusher = TRUE]
      /\ Done("stop", by, x) = [x EXCEPT !.flusher = FALSE]
      /\ Done("remove", by, x) = [x EXCEPT !.stack = 0]
  BY DEF Done, Nothing
<1>3. /\ Half("start", x) = [x EXCEPT !.flusher = FALSE]
      /\ Half("stop", x) = x /\ Half("remove", x) = x
  BY DEF Half
<1>4. \A y \in Broken("start", by, x) : y.stack = x.stack
  BY <1>1, <1>2, <1>3 DEF Broken
<1>5. \A y \in Broken("stop", by, x) : y.stack = x.stack
  BY <1>1, <1>2, <1>3 DEF Broken
<1>6. \A y \in Broken("remove", by, x) : y.flusher = x.flusher /\ y.stack \in {x.stack, 0}
  BY <1>1, <1>2, <1>3 DEF Broken
<1>7. Done("stop", by, x).flusher = FALSE /\ Done("remove", by, x).stack = 0
  BY <1>1, <1>2
<1> QED
  BY <1>4, <1>5, <1>6, <1>7

(* The same of one host, by the command that is running.                     *)
LEMMA HostDone ==
  ASSUME Types, NEW h \in Hosts
  PROVE  /\ \A z \in Broken("start", count, host[h]) : z.stack = host[h].stack
         /\ \A z \in Broken("stop", count, host[h]) : z.stack = host[h].stack
         /\ \A z \in Broken("remove", count, host[h]) :
              z.flusher = host[h].flusher /\ z.stack \in {host[h].stack, 0}
         /\ Done("stop", count, host[h]).flusher = FALSE
         /\ Done("remove", count, host[h]).stack = 0
<1>1. host[h] \in HostStates
  BY DEF Types
<1> DEFINE c == count  x == host[h]
<1> HIDE DEF c, x
<1>2. x \in HostStates
  BY <1>1 DEF x
<1>3. \A y \in Broken("start", c, x) \cup Broken("stop", c, x) : y.stack = x.stack
  BY <1>2, BrokenIs
<1>4. \A y \in Broken("remove", c, x) : y.flusher = x.flusher /\ y.stack \in {x.stack, 0}
  BY <1>2, BrokenIs
<1>5. Done("stop", c, x).flusher = FALSE /\ Done("remove", c, x).stack = 0
  BY <1>2, BrokenIs
<1> QED
  BY <1>3, <1>4, <1>5 DEF c, x

(* One remote command touches one host.                                      *)
LEMMA OneHost ==
  ASSUME Types, NEW h \in Hosts, NEW d \in Calls, Succeeds(h, d) \/ Fails(h, d)
  PROVE  /\ host' \in [Hosts -> HostStates] /\ late' \subseteq LateCalls
         /\ \A g \in Hosts : g # h => host'[g] = host[g]
         /\ host'[h] \in Broken(d, count, host[h])
         /\ Succeeds(h, d) => host'[h] = Done(d, count, host[h])
<1>1. count \in Nat /\ count \in 0..count /\ host[h] \in HostStates
  BY DEF Types
<1>2. Done(d, count, host[h]) \in HostStates /\ Broken(d, count, host[h]) \subseteq HostStates
  BY <1>1, DoneIs
<1>3. host[h] \in Broken(d, count, host[h]) /\ Done(d, count, host[h]) \in Broken(d, count, host[h])
  BY DEF Broken
<1>4. \A x \in HostStates : [host EXCEPT ![h] = x] \in [Hosts -> HostStates]
  BY DEF Types
<1>5. CASE Succeeds(h, d)
  BY <1>2, <1>3, <1>4, <1>5 DEF Succeeds, Types
<1>6. CASE Fails(h, d)
  <2>1. [at |-> h, does |-> d, by |-> count] \in LateCalls
    BY <1>1 DEF LateCalls
  <2>2. /\ host' \in [Hosts -> HostStates] /\ late' \subseteq LateCalls
        /\ \A g \in Hosts : g # h => host'[g] = host[g]
        /\ host'[h] \in Broken(d, count, host[h])
    <3>1. \/ \E x \in Broken(d, count, host[h]) : host' = [host EXCEPT ![h] = x] /\ late' = late
          \/ host' = host /\ late' = late \cup {[at |-> h, does |-> d, by |-> count]}
      BY <1>6 DEF Fails
    <3>2. CASE \E x \in Broken(d, count, host[h]) : host' = [host EXCEPT ![h] = x] /\ late' = late
      BY <1>2, <1>4, <3>2 DEF Types
    <3>3. CASE host' = host /\ late' = late \cup {[at |-> h, does |-> d, by |-> count]}
      BY <1>3, <2>1, <3>3 DEF Types
    <3> QED
      BY <3>1, <3>2, <3>3
  <2>3. Succeeds(h, d) => host'[h] = Done(d, count, host[h])
    BY DEF Succeeds, Types
  <2> QED
    BY <2>2, <2>3
<1> QED
  BY <1>5, <1>6

(* Every step leaves the types.                                              *)
LEMMA TypesStep ==
  ASSUME Types, [Next]_vars
  PROVE  Types'
<1>0. N \in Nat \ {0} /\ Hosts = 0..(N - 1) /\ 0 \in 0..N /\ Clean(torn) \in Stages
  BY HostAssumption DEF Hosts, Clean, Stages, Upward
<1>a. \A k \in 0..N : k < N => k + 1 \in 0..N /\ k \in Hosts /\ HeadLast(k) \in Hosts
  BY <1>0 DEF HeadLast
<1>b. ASSUME count' = count, host' \in [Hosts -> HostStates], late' \subseteq LateCalls,
             kind' \in Kinds \cup {"none"}, pc' \in Stages, i' \in 0..N, rc' \in {0, 1},
             torn' \in BOOLEAN, outcome' \in Outcomes, before' \in [Hosts -> Nat],
             missed' \subseteq Hosts, touched' \subseteq Hosts
      PROVE  Types'
  BY <1>b DEF Types, HostStates, LateCalls
<1>c. Stacks \in [Hosts -> Nat]
  BY DEF Stacks, Types, HostStates
<1>1. ASSUME NEW k \in Kinds, Command(k)
      PROVE  Types'
  <2>1. /\ count' = count + 1 /\ count' \in Nat \ {0} /\ 0..count \subseteq 0..count'
        /\ host' = host /\ late' = late
    BY <1>1 DEF Command, Types
  <2>2. HostStates \subseteq HostStates' /\ LateCalls \subseteq LateCalls'
    BY <2>1 DEF HostStates, LateCalls
  <2>3. host' \in [Hosts -> HostStates'] /\ late' \subseteq LateCalls'
    BY <2>1, <2>2 DEF Types
  <2>4. /\ kind' \in Kinds /\ pc' \in Stages /\ i' = 0 /\ rc' = 0 /\ torn' = FALSE
        /\ outcome' = "none" /\ before' = Stacks /\ missed' = {} /\ touched' = {}
    BY <1>1 DEF Command, Goto, Stages, Upward
  <2> QED
    BY <1>0, <1>c, <2>1, <2>3, <2>4 DEF Types, Outcomes
<1>2. CASE Visit
  <2>1. i \in Hosts /\ pc \in Upward /\ Does(pc) \in Calls /\ i' \in 0..N
    BY <1>2, <1>a, DoesIs DEF Visit, Types
  <2>2. Succeeds(i, Does(pc)) \/ Fails(i, Does(pc))
    BY <1>2 DEF Visit
  <2>3. host' \in [Hosts -> HostStates] /\ late' \subseteq LateCalls
    BY <2>1, <2>2, OneHost
  <2>4. rc' \in {0, 1} /\ missed' \subseteq Hosts
    BY <1>2, <2>1 DEF Visit, Types
  <2> QED
    BY <1>2, <1>b, <2>1, <2>3, <2>4 DEF Visit, Types
<1>3. CASE Launch
  <2>1. HeadLast(i) \in Hosts /\ i + 1 \in 0..N
    BY <1>3, <1>a DEF Launch, Types
  <2>2. Succeeds(HeadLast(i), "launch") \/ Fails(HeadLast(i), "launch")
    BY <1>3 DEF Launch
  <2>3. host' \in [Hosts -> HostStates] /\ late' \subseteq LateCalls
    BY <2>1, <2>2, OneHost DEF Calls
  <2>4. i' \in 0..N /\ pc' \in Stages /\ rc' \in {0, 1}
    BY <1>0, <1>3, <2>1 DEF Launch, Die, Goto, Types
  <2> QED
    BY <1>3, <1>b, <2>3, <2>4 DEF Launch, Types
<1>4. CASE Prepared \/ Unprepared \/ FlushersOn \/ Proceed \/ Healthy \/ Ready
  <2>1. CASE Prepared \/ FlushersOn
    BY <1>0, <1>b, <2>1 DEF Prepared, FlushersOn, Goto, Types, Stages, Upward
  <2>2. CASE Unprepared \/ Ready
    BY <1>0, <1>b, <2>2 DEF Unprepared, Ready, End, Types, Stages, Outcomes
  <2>3. CASE Proceed
    BY <1>0, <1>b, <2>3 DEF Proceed, Goto, Types, Stages, Upward
  <2>4. CASE Healthy
    BY <1>0, <1>b, <2>4 DEF Healthy, Goto, Types, Stages, Upward
  <2> QED
    BY <1>4, <2>1, <2>2, <2>3, <2>4
<1>5. CASE Refused \/ TimedOut \/ Interrupted \/ CleanUp
  <2>1. CASE Refused \/ TimedOut \/ Interrupted
    <3>1. /\ pc' = Clean(torn) /\ i' = 0 /\ rc' = 0
          /\ UNCHANGED <<host, off, late, count, kind, torn, outcome, before, missed, touched>>
      BY <2>1 DEF Refused, TimedOut, Interrupted, Dies, Die, Goto
    <3> QED
      BY <1>0, <1>b, <3>1 DEF Types
  <2>2. CASE CleanUp
    <3>1. UNCHANGED <<host, off, late, count, torn, before, missed, touched>>
      BY <2>2 DEF CleanUp
    <3>2. CASE pc' = "cleanOff" /\ i' = 0 /\ UNCHANGED <<rc, kind, outcome>>
      BY <1>0, <1>b, <3>1, <3>2 DEF Types, Stages, Upward
    <3>3. CASE End("failed")
      BY <1>0, <1>b, <3>1, <3>3 DEF End, Types, Stages, Outcomes
    <3> QED
      BY <2>2, <3>2, <3>3 DEF CleanUp
  <2> QED
    BY <1>5, <2>1, <2>2
<1>6. CASE Down
  <2>1. CASE DownTears \/ DownEnds
    BY <1>0, <1>c, <1>b, <2>1 DEF DownTears, DownEnds, Goto, End, Types, Stages, Upward, Outcomes
  <2>2. CASE PowerOff \/ PoweredOff
    BY <1>0, <1>a, <1>b, <2>2 DEF PowerOff, PoweredOff, End, Types, Stages, Outcomes
  <2> QED
    BY <1>6, <2>1, <2>2 DEF Down
<1>7. CASE Kill
  <2>1. host' \in [Hosts -> HostStates] /\ late' \subseteq LateCalls
    <3>1. CASE UNCHANGED <<host, late>>
      BY <3>1 DEF Types
    <3>2. CASE \E h \in Calling : Fails(h, Does(pc))
      <4>1. PICK h \in Calling : Fails(h, Does(pc))
        BY <3>2
      <4>2. h \in Hosts /\ Does(pc) \in Calls
        BY <1>a, <4>1, DoesIs DEF Calling, Types, Calls
      <4> QED
        BY <4>1, <4>2, OneHost
    <3> QED
      BY <1>7, <3>1, <3>2 DEF Kill
  <2> QED
    BY <1>0, <1>7, <1>b, <2>1 DEF Kill, End, Types, Stages, Outcomes
<1>8. ASSUME NEW c \in late, Land(c)
      PROVE  Types'
  <2>1. c \in LateCalls /\ c.at \in Hosts /\ c.does \in Calls /\ c.by \in 0..count
    BY DEF Types, LateCalls
  <2>2. Broken(c.does, c.by, host[c.at]) \subseteq HostStates
    <3>1. host[c.at] \in HostStates
      BY <2>1 DEF Types
    <3> QED
      BY <2>1, <3>1, DoneIs
  <2>3. host' \in [Hosts -> HostStates] /\ late' \subseteq LateCalls /\ touched' \subseteq Hosts
    BY <1>8, <2>1, <2>2 DEF Land, Types
  <2> QED
    BY <1>8, <1>b, <2>3 DEF Land, Types
<1>9. CASE UNCHANGED vars
  BY <1>9, <1>b DEF vars, Types
<1> QED
  BY <1>1, <1>2, <1>3, <1>4, <1>5, <1>6, <1>7, <1>8, <1>9 DEF Next, Up, Kinds

(* Every step leaves what a command knows of itself.                         *)
LEMMA ControlStep ==
  ASSUME Types, Control, [Next]_vars
  PROVE  Control'
<1>1. ASSUME NEW k \in Kinds, Command(k)
      PROVE  Control'
  BY <1>1 DEF Command, Goto, Control
<1>2. CASE Visit
  <2>1. /\ pc' = pc /\ torn' = torn /\ outcome' = outcome /\ pc # "idle"
        /\ (rc' = rc /\ missed' = missed) \/ rc' = 1
    BY <1>2 DEF Visit, Upward
  <2> QED
    BY <2>1 DEF Control
<1>3. CASE Launch
  BY <1>3 DEF Launch, Die, Clean, Goto, Control
<1>4. CASE Prepared \/ Unprepared \/ FlushersOn \/ Healthy \/ Ready
  BY <1>4 DEF Prepared, Unprepared, FlushersOn, Healthy, Ready, Goto, End, Control
<1>5. CASE Proceed
  BY <1>5 DEF Proceed, Goto, Control
<1>6. CASE Refused \/ TimedOut \/ Interrupted
  BY <1>6 DEF Refused, TimedOut, Interrupted, Dies, Die, Clean, Goto, Control, Armed
<1>7. CASE CleanUp
  BY <1>7 DEF CleanUp, End, Control
<1>8. CASE Down
  BY <1>8 DEF Down, DownTears, DownEnds, PowerOff, PoweredOff, Goto, End, Control
<1>9. CASE Kill
  BY <1>9 DEF Kill, End, Control
<1>10. ASSUME NEW c \in late, Land(c)
       PROVE  Control'
  BY <1>10 DEF Land, Control
<1>11. CASE UNCHANGED vars
  BY <1>11 DEF vars, Control
<1> QED
  BY <1>1, <1>2, <1>3, <1>4, <1>5, <1>6, <1>7, <1>8, <1>9, <1>10, <1>11 DEF Next, Up, Kinds

-----------------------------------------------------------------------------
(* What every step leaves of a host no late command acted on.                 *)

Knows(h) == HostInv(h) /\ EndInv(h)

(* The visits of the loops that go on after a failure.                       *)
LEMMA VisitKnows ==
  ASSUME Types, Control, NEW h \in Hosts, Knows(h), Visit
  PROVE  Knows(h)'
<1> USE DEF Knows, Types
<1>0. N \in Nat \ {0} /\ Hosts = 0..(N - 1) /\ i \in Hosts /\ h \in Nat
  BY HostAssumption DEF Hosts, Visit
<1>1. /\ pc \in Upward /\ i < N /\ i' = i + 1
      /\ UNCHANGED <<off, count, kind, pc, torn, outcome, before, touched>>
      /\ outcome = "none"
  BY DEF Visit, Control, Upward
<1>2. EndInv(h)'
  BY <1>1 DEF EndInv
<1>3. \/ Succeeds(i, Does(pc)) /\ rc' = rc /\ missed' = missed
      \/ Fails(i, Does(pc)) /\ rc' = 1 /\ missed' = IF pc \in Armed THEN missed ELSE missed \cup {i}
  BY DEF Visit
<1>4. Does(pc) \in Calls
  BY <1>1, DoesIs
<1>5. /\ \A g \in Hosts : g # i => host'[g] = host[g]
      /\ host'[i] \in Broken(Does(pc), count, host[i])
      /\ Succeeds(i, Does(pc)) => host'[i] = Done(Does(pc), count, host[i])
  BY <1>0, <1>3, <1>4, OneHost
<1>6. CASE h # i
  <2>1. host'[h] = host[h] /\ (h < i' => h < i)
    BY <1>0, <1>1, <1>5, <1>6
  <2>2. (rc' = 0 => rc = 0) /\ (h \notin missed' => h \notin missed)
    BY <1>3
  <2>3. pc # "launch"
    BY <1>1 DEF Upward
  <2> QED
    BY <1>1, <1>2, <2>1, <2>2, <2>3 DEF HostInv, Stack
<1>7. CASE h = i
  <2> DEFINE x == host[h]
             y == host'[h]
  <2>1. count \in 0..count /\ x \in HostStates
    OBVIOUS
  <2>2. /\ y \in Broken(Does(pc), count, x)
        /\ Succeeds(i, Does(pc)) => y = Done(Does(pc), count, x)
    BY <1>5, <1>7
  <2>3. ~Succeeds(i, Does(pc)) => rc' = 1 /\ (pc \notin Armed => h \in missed')
    BY <1>3, <1>7
  <2>a. /\ \A z \in Broken("start", count, x) : z.stack = x.stack
        /\ \A z \in Broken("stop", count, x) : z.stack = x.stack
        /\ \A z \in Broken("remove", count, x) : z.flusher = x.flusher /\ z.stack \in {x.stack, 0}
        /\ Done("stop", count, x).flusher = FALSE
        /\ Done("remove", count, x).stack = 0
    BY HostDone
  <2>4. CASE pc = "flushOn"
    <3>1. y.stack = x.stack
      BY <2>2, <2>4, DoesIs, <2>a
    <3> QED
      BY <1>1, <1>2, <2>4, <3>1 DEF HostInv, Stack
  <2>5. CASE pc = "tear"
    <3>1. y.stack \in {x.stack, 0} /\ (rc' = 0 => y.stack = 0)
      BY <2>2, <2>3, <2>5, DoesIs, <2>a
    <3>2. count # 0
      OBVIOUS
    <3> QED
      BY <1>1, <1>2, <2>5, <3>1, <3>2 DEF HostInv, Stack, Nothing
  <2>6. CASE pc \in {"flushOff", "retryOff"}
    <3>1. y.stack = x.stack /\ (rc' = 0 => ~y.flusher)
      BY <2>2, <2>3, <2>6, DoesIs, <2>a
    <3> QED
      BY <1>1, <1>2, <2>6, <3>1 DEF HostInv, Stack
  <2>7. CASE pc = "cleanTear"
    <3>1. h \notin missed' => y.stack = 0
      BY <2>2, <2>3, <2>7, DoesIs, <2>a DEF Armed
    <3> QED
      BY <1>1, <1>2, <2>7, <3>1 DEF HostInv, Stack, Nothing
  <2>8. CASE pc = "cleanOff"
    <3>1. y.stack = x.stack /\ (h \notin missed' => ~y.flusher)
      BY <2>2, <2>3, <2>8, DoesIs, <2>a DEF Armed
    <3>2. h \notin missed' => h \notin missed
      BY <1>3
    <3> QED
      BY <1>1, <1>2, <2>8, <3>1, <3>2 DEF HostInv, Stack
  <2>9. CASE pc = "downOff"
    <3>1. y.stack = x.stack /\ (h \notin missed' => ~y.flusher)
      BY <2>2, <2>3, <2>9, DoesIs, <2>a DEF Armed
    <3> QED
      BY <1>1, <1>2, <2>9, <3>1 DEF HostInv, Stack
  <2>10. CASE pc = "downTear"
    <3>1. y.stack \in {x.stack, 0} /\ y.flusher = x.flusher /\ (h \notin missed' => y.stack = 0)
      BY <2>2, <2>3, <2>10, DoesIs, <2>a DEF Armed
    <3>2. count # 0 /\ (h \notin missed' => h \notin missed)
      BY <1>3
    <3> QED
      BY <1>1, <1>2, <2>10, <3>1, <3>2 DEF HostInv, Stack, Nothing
  <2> QED
    BY <1>1, <2>4, <2>5, <2>6, <2>7, <2>8, <2>9, <2>10 DEF Upward
<1> QED
  BY <1>6, <1>7

(* The launches, from the last rank to rank 0.                               *)
LEMMA LaunchKnows ==
  ASSUME Types, Control, NEW h \in Hosts, Knows(h), Launch
  PROVE  Knows(h)'
<1> USE DEF Knows, Types
<1>0. /\ N \in Nat \ {0} /\ Hosts = 0..(N - 1) /\ h \in Nat /\ i \in Nat /\ i < N
      /\ HeadLast(i) = N - 1 - i /\ HeadLast(i) \in Hosts
  BY HostAssumption DEF Hosts, Launch, HeadLast
<1>1. /\ pc = "launch" /\ torn
      /\ UNCHANGED <<off, count, kind, torn, outcome, before, missed, touched>>
      /\ outcome = "none"
      /\ Stack(h) = IF h > N - 1 - i THEN count ELSE Nothing
  BY DEF Launch, Control, HostInv
<1>2. EndInv(h)'
  BY <1>1 DEF EndInv
<1>3. CASE Fails(HeadLast(i), "launch") /\ Die
  <2>1. pc' = "cleanTear" /\ i' = 0
    BY <1>1, <1>3 DEF Die, Goto, Clean
  <2>2. HostInv(h)'
    BY <1>0, <1>1, <2>1 DEF HostInv
  <2> QED
    BY <1>2, <2>2
<1>4. CASE Succeeds(HeadLast(i), "launch") /\ i' = i + 1 /\ UNCHANGED <<pc, rc>>
  <2>1. /\ \A g \in Hosts : g # HeadLast(i) => host'[g] = host[g]
        /\ host'[HeadLast(i)] = Done("launch", count, host[HeadLast(i)])
    BY <1>0, <1>4, OneHost DEF Calls
  <2>2. host'[HeadLast(i)].stack = count
    <3>1. count \in 0..count /\ host[HeadLast(i)] \in HostStates
      BY <1>0
    <3>2. Done("launch", count, host[HeadLast(i)]).stack = count
      BY <3>1, DoneIs
    <3> QED
      BY <2>1, <3>2
  <2>3. host'[h].stack = IF h > N - 1 - (i + 1) THEN count ELSE Nothing
    <3>1. CASE h = HeadLast(i)
      BY <1>0, <2>2, <3>1
    <3>2. CASE h # HeadLast(i)
      <4>1. h > N - 1 - (i + 1) <=> h > N - 1 - i
        BY <1>0, <3>2
      <4> QED
        BY <1>1, <2>1, <3>2, <4>1 DEF Stack
    <3> QED
      BY <3>1, <3>2
  <2> QED
    BY <1>1, <1>2, <1>4, <2>3 DEF HostInv, Stack
<1> QED
  BY <1>3, <1>4 DEF Launch

(* A command begins: every container is of an earlier launch.                *)
LEMMA CommandKnows ==
  ASSUME Types, Control, NEW h \in Hosts, NEW k \in Kinds, Command(k)
  PROVE  Knows(h)'
<1>1. /\ pc' \in {"check", "downOff"} /\ (pc' = "check" => k = "up") /\ i' = 0 /\ torn' = FALSE
      /\ kind' = k /\ count' = count + 1 /\ before' = Stacks /\ host' = host /\ outcome' = "none"
  BY DEF Command, Goto
<1>2. host[h].stack # count' /\ host'[h].stack = before'[h]
  <2>1. host[h].stack \in 0..count /\ count \in Nat
    BY DEF Types, HostStates
  <2> QED
    BY <1>1, <2>1 DEF Stacks
<1>3. i' = 0 /\ h \in Nat
  BY <1>1, HostAssumption DEF Hosts
<1> QED
  BY <1>1, <1>2, <1>3 DEF Knows, HostInv, EndInv, Stack

(* up's steps from one loop to the next, host by host as they were.           *)
LEMMA UpKnows ==
  ASSUME Types, Control, NEW h \in Hosts, Knows(h),
         Prepared \/ Unprepared \/ FlushersOn \/ Proceed \/ Healthy \/ Ready
  PROVE  Knows(h)'
<1>0. /\ N \in Nat \ {0} /\ Hosts = 0..(N - 1) /\ h \in Nat /\ h < N /\ ~(h < 0)
      /\ h > N - 1 - N /\ ~(h > N - 1 - 0)
  BY HostAssumption DEF Hosts
<1>1. UNCHANGED <<host, count, before, missed>>
  BY DEF Prepared, Unprepared, FlushersOn, Proceed, Healthy, Ready
<1>2. CASE Prepared
  BY <1>0, <1>1, <1>2 DEF Prepared, Goto, Knows, HostInv, EndInv, Stack, Control
<1>3. CASE Unprepared
  BY <1>0, <1>1, <1>3 DEF Unprepared, End, Knows, HostInv, EndInv, Stack, Control
<1>4. CASE FlushersOn
  BY <1>0, <1>1, <1>4 DEF FlushersOn, Passed, Goto, Knows, HostInv, EndInv, Stack, Control
<1>5. CASE Proceed
  <2>1. outcome' = "none" /\ kind' = kind /\ torn' = torn /\ i' = 0 /\ i = N
    BY <1>5 DEF Proceed, Goto, Control, Passed, Failed
  <2>2. EndInv(h)'
    BY <2>1 DEF EndInv
  <2>3. CASE pc = "tear" /\ Passed /\ pc' = "launch"
    BY <1>0, <1>1, <2>1, <2>2, <2>3 DEF Passed, Knows, HostInv, Stack
  <2>4. CASE pc = "launch" /\ Passed /\ pc' = "health"
    BY <1>0, <1>1, <2>1, <2>2, <2>4 DEF Passed, Knows, HostInv, Stack
  <2>5. CASE pc \in {"flushOff", "retryOff"} /\ Passed /\ pc' = "disarm"
    BY <1>0, <1>1, <2>1, <2>2, <2>5 DEF Passed, Knows, HostInv, Stack
  <2>6. CASE pc = "flushOff" /\ Failed /\ pc' = "retryOff"
    BY <1>0, <1>1, <2>1, <2>2, <2>6 DEF Failed, Knows, HostInv, Stack
  <2> QED
    BY <1>5, <2>2, <2>3, <2>4, <2>5, <2>6 DEF Proceed, Goto, Knows
<1>6. CASE Healthy
  BY <1>0, <1>1, <1>6 DEF Healthy, Goto, Knows, HostInv, EndInv, Stack, Control
<1>7. CASE Ready
  BY <1>0, <1>1, <1>7 DEF Ready, End, Knows, HostInv, EndInv, Stack, Control
<1> QED
  BY <1>2, <1>3, <1>4, <1>5, <1>6, <1>7

(* up dies, and its cleanup.                                                 *)
LEMMA DieKnows ==
  ASSUME Types, Control, NEW h \in Hosts, Knows(h),
         Refused \/ TimedOut \/ Interrupted \/ CleanUp
  PROVE  Knows(h)'
<1>0. N \in Nat \ {0} /\ Hosts = 0..(N - 1) /\ h \in Nat /\ h < N /\ ~(h < 0)
  BY HostAssumption DEF Hosts
<1>1. CASE Refused \/ TimedOut \/ Interrupted
  <2>1. /\ UNCHANGED <<host, count, kind, torn, outcome, before, missed>>
        /\ pc \in Armed /\ pc' = Clean(torn) /\ i' = 0
    BY <1>1 DEF Refused, TimedOut, Interrupted, Dies, Die, Goto, Armed
  <2>2. outcome = "none" /\ EndInv(h)'
    BY <2>1 DEF Control, Armed, EndInv
  <2>3. CASE torn
    BY <1>0, <2>1, <2>2, <2>3 DEF Clean, Knows, HostInv, Stack
  <2>4. CASE ~torn
    <3>1. pc = "flushOn"
      BY <2>1, <2>4 DEF Control, Armed, Types
    <3> QED
      BY <1>0, <2>1, <2>2, <2>4, <3>1 DEF Clean, Knows, HostInv, Stack
  <2> QED
    BY <2>3, <2>4
<1>2. CASE CleanUp
  <2>1. i = N /\ UNCHANGED <<host, count, torn, before, missed>>
    BY <1>2 DEF CleanUp
  <2>2. CASE pc = "cleanTear" /\ pc' = "cleanOff" /\ i' = 0 /\ UNCHANGED <<rc, kind, outcome>>
    BY <1>0, <2>1, <2>2 DEF Knows, HostInv, EndInv, Stack, Control
  <2>3. CASE pc = "cleanOff" /\ End("failed")
    BY <1>0, <2>1, <2>3 DEF End, Knows, HostInv, EndInv, Stack, Control, Types
  <2> QED
    BY <1>2, <2>2, <2>3 DEF CleanUp
<1> QED
  BY <1>1, <1>2

(* down, and what follows it.                                                *)
LEMMA DownKnows ==
  ASSUME Types, Control, NEW h \in Hosts, Knows(h), Down
  PROVE  Knows(h)'
<1>0. N \in Nat \ {0} /\ Hosts = 0..(N - 1) /\ h \in Nat /\ h < N /\ ~(h < 0)
  BY HostAssumption DEF Hosts
<1>1. UNCHANGED <<host, count, torn, missed>>
  BY DEF Down, DownTears, DownEnds, PowerOff, PoweredOff
<1>2. CASE DownTears
  BY <1>0, <1>1, <1>2 DEF DownTears, Knows, HostInv, EndInv, Stack, Control
<1>3. CASE DownEnds
  <2>1. pc = "downTear" /\ i = N /\ ~torn /\ outcome = "none"
    BY <1>3 DEF DownEnds, Passed, Failed, Control
  <2>2. h \notin missed => host[h] = Empty
    <3>1. h \notin missed => host[h].stack = Nothing /\ host[h].flusher = FALSE
      BY <1>0, <2>1 DEF Knows, HostInv, Stack, Types, HostStates
    <3>2. host[h] \in [stack : 0..count, flusher : BOOLEAN]
      BY DEF Types, HostStates
    <3> QED
      BY <3>1, <3>2 DEF Empty
  <2>3. rc = 0 => host[h] = Empty
    BY <2>1, <2>2 DEF Control
  <2>4. Empty.stack = Nothing /\ Nothing # count
    BY DEF Empty, Nothing, Types
  <2>5. CASE Failed /\ End("undone")
    BY <1>1, <2>1, <2>2, <2>5 DEF End, Knows, HostInv, EndInv
  <2>6. CASE Passed /\ kind = "down" /\ End("down")
    BY <1>1, <2>1, <2>3, <2>6 DEF Passed, End, Knows, HostInv, EndInv
  <2>7. CASE Passed /\ kind = "restart" /\ Goto("check") /\ before' = Stacks /\ UNCHANGED <<kind, outcome>>
    <3>1. before'[h] = host[h].stack
      BY <2>7 DEF Stacks
    <3> QED
      BY <1>1, <2>1, <2>3, <2>4, <2>7, <3>1 DEF Passed, Goto, Knows, HostInv, EndInv, Stack
  <2>8. CASE Passed /\ kind = "poweroff" /\ Goto("power") /\ UNCHANGED <<kind, outcome, before>>
    BY <1>1, <2>1, <2>3, <2>8 DEF Passed, Goto, Knows, HostInv, EndInv
  <2> QED
    BY <1>3, <2>5, <2>6, <2>7, <2>8 DEF DownEnds
<1>4. CASE PowerOff
  BY <1>1, <1>4 DEF PowerOff, Knows, HostInv, EndInv, Stack, Control
<1>5. CASE PoweredOff
  BY <1>1, <1>5 DEF PoweredOff, End, Knows, HostInv, EndInv, Stack, Control
<1> QED
  BY <1>2, <1>3, <1>4, <1>5 DEF Down

(* What no host but the touched one sees.                                    *)
LEMMA ElsewhereKnows ==
  ASSUME NEW h \in Hosts, Knows(h), host'[h] = host[h],
         UNCHANGED <<count, kind, pc, i, rc, torn, outcome, before, missed>>
  PROVE  Knows(h)'
BY DEF Knows, HostInv, EndInv, Stack

(* A command that was killed promises nothing.                               *)
LEMMA KillKnows ==
  ASSUME NEW h \in Hosts, Kill
  PROVE  Knows(h)'
BY DEF Kill, End, Knows, HostInv, EndInv

-----------------------------------------------------------------------------
LEMMA InitHolds == Init => IInv
<1> SUFFICES ASSUME Init
             PROVE  IInv
  OBVIOUS
<1>0. N \in Nat \ {0} /\ Hosts = 0..(N - 1)
  BY HostAssumption DEF Hosts
<1>1. PICK s \in {0, 1} : host = [h \in Hosts |-> [stack |-> s, flusher |-> FALSE]]
  BY DEF Init, Nothing
<1>2. host \in [Hosts -> HostStates] /\ Stacks \in [Hosts -> Nat]
  BY <1>1 DEF Init, HostStates, Stacks
<1>3. Types
  <2>1. /\ count = 1 /\ kind = "none" /\ pc = "idle" /\ i = 0 /\ rc = 0 /\ torn = FALSE
        /\ outcome = "none" /\ late = {} /\ before = Stacks /\ missed = {} /\ touched = {}
    BY DEF Init
  <2>2. i \in 0..N /\ pc \in Stages /\ outcome \in Outcomes
    BY <1>0, <2>1 DEF Stages, Outcomes
  <2>3. count \in Nat \ {0} /\ rc \in {0, 1}
    BY <2>1
  <2>4. kind \in Kinds \cup {"none"} /\ torn \in BOOLEAN
    BY <2>1
  <2>5. late \subseteq LateCalls /\ before \in [Hosts -> Nat] /\ missed \subseteq Hosts /\ touched \subseteq Hosts
    BY <1>2, <2>1
  <2> QED
    BY <1>2, <2>2, <2>3, <2>4, <2>5 DEF Types
<1>4. Control /\ \A h \in Hosts : HostInv(h) /\ EndInv(h)
  BY DEF Init, Control, HostInv, EndInv
<1> QED
  BY <1>3, <1>4 DEF IInv, Undisturbed

LEMMA StepHolds == IInv /\ [Next]_vars => IInv'
<1> SUFFICES ASSUME IInv, [Next]_vars
             PROVE  IInv'
  OBVIOUS
<1>0. Types /\ Control /\ \A h \in Undisturbed : h \in Hosts /\ Knows(h)
  BY DEF IInv, Undisturbed, Knows
<1>1. Types' /\ Control'
  BY <1>0, TypesStep, ControlStep
<1>2. ASSUME NEW h \in Hosts, h \notin touched'
      PROVE  Knows(h)'
  <2>1. CASE \E k \in {"up", "down", "restart", "poweroff"} : Command(k)
    BY <1>0, <2>1, CommandKnows DEF Kinds
  <2>2. CASE ~\E k \in {"up", "down", "restart", "poweroff"} : Command(k)
    <3>1. touched \subseteq touched'
      BY <2>2 DEF Next, vars, Visit, Launch, Up, Prepared, Unprepared, FlushersOn, Proceed, Healthy,
                  Ready, Refused, TimedOut, Interrupted, Dies, CleanUp, Down, DownTears, DownEnds,
                  PowerOff, PoweredOff, Kill, Land
    <3>2. Knows(h)
      BY <1>0, <1>2, <3>1 DEF Undisturbed
    <3>3. ASSUME NEW c \in late, Land(c)
          PROVE  Knows(h)'
      <4>1. c.at # h
        BY <1>2, <3>3 DEF Land
      <4>2. host'[h] = host[h]
        BY <1>0, <3>3, <4>1 DEF Land, Types
      <4> QED
        BY <3>2, <3>3, <4>2, ElsewhereKnows DEF Land
    <3>4. CASE UNCHANGED vars
      BY <3>2, <3>4, ElsewhereKnows DEF vars
    <3>5. CASE Visit
      BY <1>0, <3>2, <3>5, VisitKnows
    <3>6. CASE Launch
      BY <1>0, <3>2, <3>6, LaunchKnows
    <3>7. CASE Prepared \/ Unprepared \/ FlushersOn \/ Proceed \/ Healthy \/ Ready
      BY <1>0, <3>2, <3>7, UpKnows
    <3>8. CASE Refused \/ TimedOut \/ Interrupted \/ CleanUp
      BY <1>0, <3>2, <3>8, DieKnows
    <3>9. CASE Down
      BY <1>0, <3>2, <3>9, DownKnows
    <3>10. CASE Kill
      BY <3>10, KillKnows
    <3> QED
      BY <2>2, <3>3, <3>4, <3>5, <3>6, <3>7, <3>8, <3>9, <3>10 DEF Next, Up
  <2> QED
    BY <2>1, <2>2
<1>3. \A h \in Undisturbed' : HostInv(h)' /\ EndInv(h)'
  BY <1>2 DEF Undisturbed, Knows
<1> QED
  BY <1>1, <1>3 DEF IInv

LEMMA Holds == Spec => []IInv
BY InitHolds, StepHolds, PTL DEF Spec

-----------------------------------------------------------------------------
(* When up has returned successfully every rank runs the container of this      *)
(* launch and no flusher, and from the trap to its end rank 0 never runs one     *)
(* that another rank does not (the launch loop of cmd_up).                       *)
THEOREM ReadyIsWhole == Spec => []ReadyMeansWhole
<1>1. IInv => ReadyMeansWhole
  <2> SUFFICES ASSUME IInv
               PROVE  ReadyMeansWhole
    OBVIOUS
  <2>0. N \in Nat \ {0} /\ Hosts = 0..(N - 1) /\ i \in 0..N /\ count # 0
    BY HostAssumption DEF Hosts, IInv, Types
  <2>1. \A h \in Undisturbed : h \in Nat /\ h < N /\ HostInv(h) /\ EndInv(h)
    BY <2>0 DEF IInv, Undisturbed
  <2>2. outcome = "ready" => \A h \in Undisturbed : Launched(h) /\ ~host[h].flusher
    BY <2>1 DEF EndInv, Launched, Stack
  <2>3. ASSUME pc \in Armed \cup {"disarm"}, 0 \in Undisturbed, Launched(0)
        PROVE  \A h \in Undisturbed : Launched(h)
    <3>1. CASE pc = "launch"
      <4>1. \A h \in Undisturbed : Stack(h) = IF h > N - 1 - i THEN count ELSE Nothing
        BY <2>1, <3>1 DEF HostInv
      <4>2. 0 > N - 1 - i
        BY <2>0, <2>3, <4>1 DEF Launched, Stack, Nothing
      <4>3. \A h \in Undisturbed : h > N - 1 - i
        BY <2>0, <2>1, <4>2
      <4> QED
        BY <4>1, <4>3 DEF Launched, Stack
    <3>2. CASE pc \in {"flushOn", "tear"}
      BY <2>1, <2>3, <3>2 DEF HostInv, Launched, Stack
    <3>3. CASE pc \in {"health", "flushOff", "retryOff", "disarm"}
      BY <2>1, <3>3 DEF HostInv, Launched, Stack
    <3> QED
      BY <2>3, <3>1, <3>2, <3>3 DEF Armed
  <2> QED
    BY <2>2, <2>3 DEF ReadyMeansWhole
<1> QED
  BY <1>1, Holds, PTL

(* An up that failed leaves the containers as they were before its teardown and  *)
(* none after it, and no flusher, wherever its cleanup could reach (up_cleanup). *)
THEOREM FailureIsClean == Spec => []FailureLeavesClean
<1>1. IInv => FailureLeavesClean
  BY DEF IInv, EndInv, FailureLeavesClean, Stack
<1> QED
  BY <1>1, Holds, PTL

(* A down that succeeds leaves no container and no flusher anywhere, one that    *)
(* fails none on the hosts that answered (cmd_down, and those that call it).      *)
THEOREM DownIsEmpty == Spec => []DownMeansEmpty
<1>1. IInv => DownMeansEmpty
  BY DEF IInv, HostInv, EndInv, DownMeansEmpty
<1> QED
  BY <1>1, Holds, PTL
=============================================================================
