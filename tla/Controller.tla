----------------------------- MODULE Controller -----------------------------
(***************************************************************************)
(* The cluster controller (tp4ctl): up, down, restart and poweroff visit the *)
(* hosts one by one over ssh.  A remote command may fail before, in the      *)
(* middle of or after its work, and may outlive the ssh that gave it up; the *)
(* controller may be interrupted, which up traps, or killed.                 *)
(***************************************************************************)
EXTENDS Integers, FiniteSets

CONSTANTS
  N,            \* NNODES
  MaxCommands,  \* bound: commands given
  MaxLate       \* bound: remote commands that outlive their ssh at a time

ASSUME HostAssumption == N \in Nat \ {0}
ASSUME BoundAssumption == MaxCommands \in Nat /\ MaxLate \in Nat

Hosts == 0..(N - 1)      \* in rank order; rank 0 serves the endpoint

VARIABLES
  host,     \* each host: which launch its container is of, and whether a flusher runs
  off,      \* the hosts powered off
  late,     \* the remote commands that were given up and have yet to act
  count,    \* commands so far; the stack found in the beginning counts as launch 1
  kind,     \* the command
  pc,       \* where it stands
  i,        \* how many hosts its loop has visited
  rc,       \* whether a visit failed
  torn,     \* UP_CLEANUP_STACK
  outcome,  \* how the last command ended
  before,   \* (history) the containers when up began
  missed,   \* (history) the hosts on which down, or the cleanup, failed
  touched   \* (history) the hosts a late command acted on since the command began

vars == <<host, off, late, count, kind, pc, i, rc, torn, outcome, before, missed, touched>>

Nothing == 0
Empty == [stack |-> Nothing, flusher |-> FALSE]
Stacks == [h \in Hosts |-> host[h].stack]

Init ==
  /\ \E s \in {Nothing, 1} : host = [h \in Hosts |-> [stack |-> s, flusher |-> FALSE]]
  /\ off = {} /\ late = {} /\ count = 1
  /\ kind = "none" /\ pc = "idle" /\ i = 0 /\ rc = 0 /\ torn = FALSE
  /\ outcome = "none" /\ before = Stacks /\ missed = {} /\ touched = {}

-----------------------------------------------------------------------------
(* Remote commands.                                                         *)

\* What each loop runs on its hosts; a launch removes what is there first.
Does(loop) ==
  CASE loop = "flushOn"                           -> "start"
    [] loop \in {"flushOff", "retryOff", "cleanOff", "downOff"} -> "stop"
    [] loop \in {"tear", "cleanTear", "downTear"} -> "remove"
    [] loop = "launch"                            -> "launch"

Done(does, by, x) ==
  CASE does = "start"  -> [x EXCEPT !.flusher = TRUE]
    [] does = "stop"   -> [x EXCEPT !.flusher = FALSE]
    [] does = "remove" -> [x EXCEPT !.stack = Nothing]
    [] does = "launch" -> [x EXCEPT !.stack = by]
Half(does, x) ==
  CASE does = "start"  -> [x EXCEPT !.flusher = FALSE]
    [] does = "launch" -> [x EXCEPT !.stack = Nothing]
    [] OTHER           -> x
\* A command that fails, or is cut off, got so far.
Broken(does, by, x) == {x, Half(does, x), Done(does, by, x)}

Succeeds(h, does) ==
  /\ host' = [host EXCEPT ![h] = Done(does, count, @)]
  /\ late' = late

Fails(h, does) ==
  \/ /\ \E x \in Broken(does, count, host[h]) : host' = [host EXCEPT ![h] = x]
     /\ late' = late
  \/ /\ Cardinality(late) < MaxLate
     /\ late' = late \cup {[at |-> h, does |-> does, by |-> count]}
     /\ host' = host

\* A remote command whose ssh was given up still acts, as far as it gets.
Land(c) ==
  /\ c \in late /\ c.at \notin off
  /\ \E x \in Broken(c.does, c.by, host[c.at]) : host' = [host EXCEPT ![c.at] = x]
  /\ late' = late \ {c}
  /\ touched' = touched \cup {c.at}
  /\ UNCHANGED <<off, count, kind, pc, i, rc, torn, outcome, before, missed>>

-----------------------------------------------------------------------------
(* The loops over the hosts.                                                *)

Goto(p) == pc' = p /\ i' = 0 /\ rc' = 0
\* The controller exits; its variables go with it.
End(o) == pc' = "idle" /\ outcome' = o /\ i' = 0 /\ rc' = 0 /\ kind' = "none"

\* up_cleanup: what the EXIT trap does once it is armed.
Clean(stack) == IF stack THEN "cleanTear" ELSE "cleanOff"
Die == Goto(Clean(torn))

Upward == {"flushOn", "tear", "flushOff", "retryOff", "cleanTear", "cleanOff", "downOff", "downTear"}
Armed == {"flushOn", "tear", "launch", "health", "flushOff", "retryOff", "disarm"}

VisitUntilFailure ==      \* mutant: the loop ends at the first host that fails
  /\ pc \in Upward /\ i < N
  /\ \/ Succeeds(i, Does(pc)) /\ i' = i + 1 /\ UNCHANGED <<rc, missed>>
     \/ /\ Fails(i, Does(pc)) /\ i' = N /\ rc' = 1
        /\ missed' = IF pc \in Armed THEN missed ELSE missed \cup {i}
  /\ UNCHANGED <<off, count, kind, pc, torn, outcome, before, touched>>

\* Every host is visited; a failure is remembered, and the loop goes on.
Visit ==
  /\ pc \in Upward /\ i < N
  /\ i' = i + 1
  /\ \/ Succeeds(i, Does(pc)) /\ UNCHANGED <<rc, missed>>
     \/ /\ Fails(i, Does(pc)) /\ rc' = 1
        /\ missed' = IF pc \in Armed THEN missed ELSE missed \cup {i}
  /\ UNCHANGED <<off, count, kind, pc, torn, outcome, before, touched>>

HeadFirst(k) == k      \* mutant: rank 0 is launched before the workers
HeadLast(k) == N - 1 - k

\* The workers before rank 0; the first failure ends it.
Launch ==
  /\ pc = "launch" /\ i < N
  /\ LET h == HeadLast(i) IN
     \/ Succeeds(h, "launch") /\ i' = i + 1 /\ UNCHANGED <<pc, rc>>
     \/ Fails(h, "launch") /\ Die
  /\ UNCHANGED <<off, count, kind, torn, outcome, before, missed, touched>>

Passed == i = N /\ rc = 0
Failed == i = N /\ rc = 1

-----------------------------------------------------------------------------
(* up.                                                                      *)

\* Peers, overlay and fabric are checked before the trap is armed.
Prepared ==
  /\ pc = "check"
  /\ Goto("flushOn") /\ torn' = FALSE
  /\ UNCHANGED <<host, off, late, count, kind, outcome, before, missed, touched>>
Unprepared ==
  /\ pc = "check"
  /\ End("unprepared")
  /\ UNCHANGED <<host, off, late, count, torn, before, missed, touched>>

FlushersOn ==
  /\ pc = "flushOn" /\ Passed
  /\ Goto("tear") /\ torn' = TRUE
  /\ UNCHANGED <<host, off, late, count, kind, outcome, before, missed, touched>>

Proceed ==
  /\ \/ pc = "tear" /\ Passed /\ Goto("launch")
     \/ pc = "launch" /\ Passed /\ Goto("health")
     \/ pc = "flushOff" /\ Passed /\ Goto("disarm")
     \/ pc = "flushOff" /\ Failed /\ Goto("retryOff")
     \/ pc = "retryOff" /\ Passed /\ Goto("disarm")
  /\ UNCHANGED <<host, off, late, count, kind, torn, outcome, before, missed, touched>>

\* /health answers 200; only a container on rank 0 can.
Healthy ==
  /\ pc = "health" /\ host[0].stack # Nothing
  /\ Goto("flushOff")
  /\ UNCHANGED <<host, off, late, count, kind, torn, outcome, before, missed, touched>>

\* up dies: a loop that had to succeed did not, /health did not answer in time,
\* or a signal came that up traps.
Dies(where) ==
  /\ where /\ Die
  /\ UNCHANGED <<host, off, late, count, kind, torn, outcome, before, missed, touched>>
Refused == Dies(pc \in {"flushOn", "tear", "retryOff"} /\ Failed)
TimedOut == Dies(pc = "health")
Interrupted == Dies(pc \in Armed)

Ready ==
  /\ pc = "disarm"
  /\ End("ready")
  /\ UNCHANGED <<host, off, late, count, torn, before, missed, touched>>

CleanUp ==
  /\ i = N
  /\ \/ pc = "cleanTear" /\ pc' = "cleanOff" /\ i' = 0 /\ UNCHANGED <<rc, kind, outcome>>
     \/ pc = "cleanOff" /\ End("failed")
  /\ UNCHANGED <<host, off, late, count, torn, before, missed, touched>>

-----------------------------------------------------------------------------
(* down, and what follows it.                                               *)

DownForgets ==      \* mutant: down answers for its teardown alone
  /\ pc = "downOff" /\ i = N
  /\ Goto("downTear")
  /\ UNCHANGED <<host, off, late, count, kind, torn, outcome, before, missed, touched>>

DownTears ==
  /\ pc = "downOff" /\ i = N
  /\ pc' = "downTear" /\ i' = 0
  /\ UNCHANGED <<host, off, late, count, kind, rc, torn, outcome, before, missed, touched>>

DownEnds ==
  /\ pc = "downTear"
  /\ \/ Failed /\ End("undone") /\ UNCHANGED before
     \/ Passed /\ kind = "down" /\ End("down") /\ UNCHANGED before
     \/ Passed /\ kind = "restart" /\ Goto("check") /\ before' = Stacks /\ UNCHANGED <<kind, outcome>>
     \/ Passed /\ kind = "poweroff" /\ Goto("power") /\ UNCHANGED <<kind, outcome, before>>
  /\ UNCHANGED <<host, off, late, count, torn, missed, touched>>

\* Rank 0 last; a host that cannot be told is passed over.
PowerOff ==
  /\ pc = "power" /\ i < N
  /\ off' \in {off, off \cup {HeadLast(i)}}
  /\ i' = i + 1
  /\ UNCHANGED <<host, late, count, kind, pc, rc, torn, outcome, before, missed, touched>>
PoweredOff ==
  /\ pc = "power" /\ i = N
  /\ End("off")
  /\ UNCHANGED <<host, off, late, count, torn, before, missed, touched>>

-----------------------------------------------------------------------------
(* Commands are given one after the other; one may be killed anywhere, and    *)
(* the remote command it was waiting for cut off or left behind.             *)

Command(k) ==
  /\ pc = "idle" /\ count <= MaxCommands /\ off = {}
  /\ count' = count + 1 /\ kind' = k
  /\ Goto(IF k = "up" THEN "check" ELSE "downOff")
  /\ torn' = FALSE /\ outcome' = "none"
  /\ before' = Stacks /\ missed' = {} /\ touched' = {}
  /\ UNCHANGED <<host, off, late>>

Calling == IF i < N /\ pc \in Upward THEN {i}
           ELSE IF i < N /\ pc = "launch" THEN {HeadLast(i)} ELSE {}
Kill ==
  /\ pc # "idle"
  /\ End("killed")
  /\ \/ UNCHANGED <<host, late>>
     \/ \E h \in Calling : Fails(h, Does(pc))
  /\ UNCHANGED <<off, count, torn, before, missed, touched>>

Up ==
  \/ Prepared \/ Unprepared \/ FlushersOn \/ Launch \/ Proceed \/ Healthy \/ Ready
  \/ Refused \/ TimedOut \/ Interrupted \/ CleanUp
Down == DownTears \/ DownEnds \/ PowerOff \/ PoweredOff

Next ==
  \/ \E k \in {"up", "down", "restart", "poweroff"} : Command(k)
  \/ Visit \/ Up \/ Down \/ Kill
  \/ \E c \in late : Land(c)

Spec == Init /\ [][Next]_vars
-----------------------------------------------------------------------------
Undisturbed == Hosts \ touched

(* When up has returned successfully every rank runs the container of this      *)
(* launch and no flusher; and rank 0's is never started before all the others', *)
(* so that no rank of an earlier stack is ever joined ("it cannot rejoin the    *)
(* existing communicator", docs/operations.md:490).                            *)
Launched(h) == host[h].stack = count
ReadyMeansWhole ==
  /\ outcome = "ready" => \A h \in Undisturbed : Launched(h) /\ ~host[h].flusher
  /\ pc \in Armed \cup {"disarm"} /\ 0 \in Undisturbed /\ Launched(0) =>
       \A h \in Undisturbed : Launched(h)

(* An up that failed or was interrupted before its teardown leaves the containers *)
(* alone; after that it leaves no container, and in both cases no flusher, on     *)
(* any host its own cleanup could reach, whichever other hosts it could not.      *)
FailureLeavesClean ==
  outcome = "failed" => \A h \in Undisturbed :
    /\ ~torn => host[h].stack = before[h]
    /\ torn /\ h \notin missed => host[h].stack = Nothing
    /\ h \notin missed => ~host[h].flusher

(* A down that succeeds, and whatever restart and poweroff do after theirs, finds *)
(* no container and no flusher anywhere; one that fails has still stopped every   *)
(* host that answered.                                                           *)
DownMeansEmpty ==
  /\ outcome \in {"down", "off"} \/ pc = "power" \/ (pc = "check" /\ kind = "restart") =>
       \A h \in Undisturbed : host[h] = Empty
  /\ outcome = "undone" => \A h \in Undisturbed \ missed : host[h] = Empty
=============================================================================
