---------------------------- MODULE AtomicStore ----------------------------
(***************************************************************************)
(* What the streaming snapshot store promises to its callers.  There are    *)
(* no objects, directories or files here: an entry is a whole snapshot that *)
(* appears at once, is never replaced by another, and, once its commit has  *)
(* returned, survives a crash of the machine until it is removed.  A        *)
(* restore delivers exactly the entry its lookup found, or nothing.         *)
(***************************************************************************)
CONSTANTS Context,   \* context digests
          Snap,      \* what can be captured, each a sequence of bytes
          Reader,    \* restores
          None

VARIABLES entry,     \* [Context -> Snap or None], what a lookup finds
          disk,      \* [Context -> Snap or None], what a crash leaves
          acked,     \* entries whose commit has returned
          source,    \* [Reader -> Snap or None], what the lookup found
          result     \* [Reader -> Snap or None], what a restore delivered

vars == <<entry, disk, acked, source, result>>

Init ==
  /\ entry = [c \in Context |-> None]
  /\ disk = [c \in Context |-> None]
  /\ acked = {}
  /\ source = [r \in Reader |-> None]
  /\ result = [r \in Reader |-> None]

\* A commit makes its snapshot visible, where there was none.
Publish(c, s) ==
  /\ entry[c] = None
  /\ entry' = [entry EXCEPT ![c] = s]
  /\ UNCHANGED <<disk, acked, source, result>>

\* What is visible reaches the disk, and a commit may return.
Flush ==
  /\ disk' = entry
  /\ \E C \in SUBSET {c \in Context : entry[c] # None} : acked' = acked \cup C
  /\ UNCHANGED <<entry, source, result>>

\* Entries are removed, with or without their traces on the disk.
Remove(C) ==
  /\ entry' = [c \in Context |-> IF c \in C THEN None ELSE entry[c]]
  /\ disk' \in [Context -> Snap \cup {None}]
  /\ \A c \in Context : disk'[c] = disk[c] \/ (c \in C /\ disk'[c] = None)
  /\ acked' = acked \ C
  /\ UNCHANGED <<source, result>>

\* After a crash each entry is as it was or as it was on the disk.  An entry
\* that was acknowledged is the same in both.
Crash ==
  /\ entry' \in [Context -> Snap \cup {None}]
  /\ \A c \in Context : entry'[c] = entry[c] \/ entry'[c] = disk[c]
  /\ \A c \in acked : entry'[c] = entry[c]
  /\ disk' = entry'
  /\ source' = [r \in Reader |-> None]
  /\ result' = [r \in Reader |-> None]
  /\ UNCHANGED acked

StartRestore(r, c) ==
  /\ source[r] = None
  /\ entry[c] # None
  /\ source' = [source EXCEPT ![r] = entry[c]]
  /\ UNCHANGED <<entry, disk, acked, result>>

Deliver(r) ==
  /\ source[r] # None
  /\ result' = [result EXCEPT ![r] = source[r]]
  /\ UNCHANGED <<entry, disk, acked, source>>

EndRestore(r) ==
  /\ source' = [source EXCEPT ![r] = None]
  /\ result' = [result EXCEPT ![r] = None]
  /\ UNCHANGED <<entry, disk, acked>>

Next ==
  \/ \E c \in Context, s \in Snap : Publish(c, s)
  \/ Flush
  \/ \E C \in SUBSET Context : Remove(C)
  \/ Crash
  \/ \E r \in Reader, c \in Context : StartRestore(r, c)
  \/ \E r \in Reader : Deliver(r) \/ EndRestore(r)

Spec == Init /\ [][Next]_vars
=============================================================================
