---------------------------- MODULE StreamStore ----------------------------
(***************************************************************************)
(* StreamingManifestStore and SnapshotReader of stream_io.py: snapshots are  *)
(* published object by object into chunks/, the manifest last, under a       *)
(* shared lock; readers take no lock at all.  Underneath, the machine may    *)
(* crash and lose what was not synced, files may be damaged, and upstream's  *)
(* maintenance and invalidation remove entries.                              *)
(*                                                                           *)
(* An object file is named by the digest of its bytes, so here the object IS *)
(* its bytes: a slice of the snapshot.  What the file of that name really    *)
(* holds is another matter, and chunks says it.                              *)
(***************************************************************************)
EXTENDS Integers, Sequences, FiniteSets

CONSTANTS
  Context,     \* context digests, the names of manifests
  Unit,        \* the smallest piece of a payload the model tells apart
  Snap,        \* the snapshots that may be captured
  ObjectUnits, \* _PAGE_SNAPSHOT_OBJECT_BYTES
  ChunkUnits,  \* STREAM_CHUNK_BYTES
  Publisher,   \* threads that call commit_page_snapshot
  Reader,      \* threads that restore
  None,        \* no manifest
  Broken,      \* a manifest, or a unit, that is not what was written
  MaxHits      \* a bound: how often files are damaged

ASSUME SnapAssumption  == Snap \subseteq Seq(Unit) \ {<<>>}
ASSUME OtherAssumption == {None, Broken} \cap (Snap \cup Unit) = {} /\ None # Broken
ASSUME SizesAssumption == ObjectUnits \in Nat \ {0} /\ ChunkUnits \in Nat \ {0}
ASSUME HitsAssumption  == MaxHits \in Nat

VARIABLES
  chunks,    \* what lies under the name of each object
  synced,    \* the same, if the machine stopped now
  manifests, \* [Context -> snapshot described, None or Broken]
  msynced,   \* the same, if the machine stopped now
  hurt,      \* history: objects lost or damaged since they were last verified
  acked,     \* history: entries whose commit has returned and that still stand
  pub,       \* where each publisher is inside commit_page_snapshot
  job,       \* the context and the snapshot it commits
  next,      \* the object it is about to publish
  sure,      \* history: that object was not damaged since it was verified
  rd,        \* what each reader is doing
  want,      \* the snapshot its manifest describes
  index,     \* _descriptor_index (in preflight, the file looked at)
  offset,    \* _object_offset
  left,      \* size - copied inside read_exact
  file,      \* _fd: closed, the file of that name, or one no longer linked
  got,       \* the units delivered so far; _position is its length
  fault,     \* history: the reader has a reason to reject
  hits       \* damages so far

disk       == <<chunks, synced, manifests, msynced>>
publishers == <<pub, job, next, sure>>
readers    == <<rd, want, index, offset, left, file, got, fault>>
vars       == <<disk, hurt, acked, publishers, readers, hits>>

-----------------------------------------------------------------------------
(* Snapshots and their objects *)

Least(a, b) == IF a < b THEN a ELSE b

\* range(0, snapshot_bytes, _PAGE_SNAPSHOT_OBJECT_BYTES): the i-th object.
ObjectCount(s) == (Len(s) + ObjectUnits - 1) \div ObjectUnits
Object(s, i) == SubSeq(s, (i - 1) * ObjectUnits + 1, Least(Len(s), i * ObjectUnits))
Objects(s) == {Object(s, i) : i \in 1 .. ObjectCount(s)}
AllObjects == UNION {Objects(s) : s \in Snap}

\* A file may be absent, whole, of another size, or of the right size only.
Contents == {"none", "good", "short", "bad"}

Named(m) == IF m \in Snap THEN Objects(m) ELSE {}
Busy == {p \in Publisher : pub[p] # "idle"}

\* The objects that a publisher, or a reader, has at hand.
Current(p) == Object(job[p].snap, next[p])
Here(r) == Object(want[r], index[r])

Init ==
  /\ chunks = [o \in AllObjects |-> "none"] /\ synced = chunks
  /\ manifests = [c \in Context |-> None] /\ msynced = manifests
  /\ hurt = {} /\ acked = {} /\ hits = 0
  /\ pub = [p \in Publisher |-> "idle"]
  /\ job \in [Publisher -> [context : {None}, snap : {None}]]
  /\ next = [p \in Publisher |-> 1]
  /\ sure = [p \in Publisher |-> FALSE]
  /\ rd = [r \in Reader |-> "idle"]
  /\ want = [r \in Reader |-> None]
  /\ index = [r \in Reader |-> 1]
  /\ offset = [r \in Reader |-> 0]
  /\ left = [r \in Reader |-> 0]
  /\ file = [r \in Reader |-> "closed"]
  /\ got = [r \in Reader |-> <<>>]
  /\ fault = [r \in Reader |-> FALSE]

-----------------------------------------------------------------------------
(* commit_page_snapshot *)

\* A descriptor that is open stays with the file it was opened on when the
\* name o goes to another file, or to none.
Detach(O) ==
  file' = [r \in Reader |-> IF file[r] = "linked" /\ Here(r) \in O
                            THEN chunks[Here(r)] ELSE file[r]]

Goto(p, where) == pub' = [pub EXCEPT ![p] = where]

\* The lock is shared among publishers; a maintenance pass holds it for a
\* single step of this model, so a blocking acquire always returns.
BeginCommit(p) ==
  /\ pub[p] = "idle"
  /\ \E c \in Context, s \in Snap : job' = [job EXCEPT ![p] = [context |-> c, snap |-> s]]
  /\ Goto(p, "object") /\ next' = [next EXCEPT ![p] = 1]
  /\ UNCHANGED <<disk, hurt, acked, sure, readers, hits>>

\* Where the object goes after link, comparison or replacement: into the
\* finally clause, which syncs the directory.
Verified(p) ==
  /\ Goto(p, "sync")
  /\ sure' = [sure EXCEPT ![p] = TRUE]
  /\ UNCHANGED <<synced, manifests, msynced, hurt, acked, job, next, hits>>

\* The object is staged in a private file, whose data is synced, and linked.
LinkObject(p) ==
  /\ pub[p] = "object" /\ chunks[Current(p)] = "none"
  /\ chunks' = [chunks EXCEPT ![Current(p)] = "good"]
  /\ Verified(p) /\ UNCHANGED readers

\* FileExistsError.
LinkExists(p) ==
  /\ pub[p] = "object" /\ chunks[Current(p)] # "none"
  /\ Goto(p, "compare")
  /\ UNCHANGED <<disk, hurt, acked, job, next, sure, readers, hits>>

\* _stream_existing_matches: size and bytes are equal.
DeduplicateBySize(p) ==
  /\ pub[p] = "compare" /\ chunks[Current(p)] \in {"good", "bad"}
  /\ Verified(p) /\ UNCHANGED <<chunks, readers>>
Deduplicate(p) ==
  /\ pub[p] = "compare" /\ chunks[Current(p)] = "good"
  /\ Verified(p) /\ UNCHANGED <<chunks, readers>>

ObjectDiffers(p) ==
  /\ pub[p] = "compare" /\ chunks[Current(p)] \in {"short", "bad"}
  /\ Goto(p, "replace")
  /\ UNCHANGED <<disk, hurt, acked, job, next, sure, readers, hits>>

ReplaceObject(p) ==
  /\ pub[p] = "replace"
  /\ chunks' = [chunks EXCEPT ![Current(p)] = "good"]
  /\ Detach({Current(p)})
  /\ Verified(p) /\ UNCHANGED <<rd, want, index, offset, left, got, fault>>

\* _fsync_directory makes every name in chunks/ durable.
SyncObjects(p) ==
  /\ pub[p] = "sync"
  /\ synced' = chunks
  /\ hurt' = IF sure[p] THEN hurt \ {Current(p)} ELSE hurt
  /\ sure' = [sure EXCEPT ![p] = FALSE]
  /\ IF next[p] = ObjectCount(job[p].snap)
     THEN Goto(p, "manifest") /\ UNCHANGED next
     ELSE Goto(p, "object") /\ next' = [next EXCEPT ![p] = @ + 1]
  /\ UNCHANGED <<chunks, manifests, msynced, acked, job, readers, hits>>

\* _publish_immutable links a file whose data is synced; an equal manifest in
\* its place will do.
PublishManifest(p) ==
  /\ pub[p] = "manifest"
  /\ manifests[job[p].context] \in {None, job[p].snap}
  /\ manifests' = [manifests EXCEPT ![job[p].context] = job[p].snap]
  /\ Goto(p, "msync")
  /\ UNCHANGED <<chunks, synced, msynced, hurt, acked, job, next, sure, readers, hits>>

\* Then the directory is synced, and the receipt is returned.
SyncNothing(p) ==
  /\ pub[p] = "msync"
  /\ acked' = IF manifests[job[p].context] = job[p].snap
              THEN acked \cup {job[p].context} ELSE acked
  /\ Goto(p, "idle") /\ job' = [job EXCEPT ![p] = [context |-> None, snap |-> None]]
  /\ next' = [next EXCEPT ![p] = 1]
  /\ UNCHANGED <<disk, hurt, sure, readers, hits>>
SyncManifest(p) ==
  /\ pub[p] = "msync"
  /\ msynced' = manifests
  /\ acked' = IF manifests[job[p].context] = job[p].snap
              THEN acked \cup {job[p].context} ELSE acked
  /\ Goto(p, "idle") /\ job' = [job EXCEPT ![p] = [context |-> None, snap |-> None]]
  /\ next' = [next EXCEPT ![p] = 1]
  /\ UNCHANGED <<chunks, synced, manifests, hurt, sure, readers, hits>>

\* The commit raises, at any point: CommitConflict when the file to compare
\* with is gone or another manifest is in place, or an error of the file
\* system.  Or its process is killed.  Both give the lock back; a directory
\* that was synced on the way out is as good as one a crash spares.
FailCommit(p) ==
  /\ pub[p] # "idle"
  /\ Goto(p, "idle") /\ job' = [job EXCEPT ![p] = [context |-> None, snap |-> None]]
  /\ next' = [next EXCEPT ![p] = 1] /\ sure' = [sure EXCEPT ![p] = FALSE]
  /\ UNCHANGED <<disk, hurt, acked, readers, hits>>

-----------------------------------------------------------------------------
(* open_snapshot and SnapshotReader *)

ReaderOnly == UNCHANGED <<disk, hurt, acked, publishers, hits>>

\* A lookup that hits, and open_snapshot up to the preflight.
OpenSnapshot(r) ==
  /\ rd[r] = "idle"
  /\ \E c \in Context :
       /\ manifests[c] \in Snap
       /\ want' = [want EXCEPT ![r] = manifests[c]]
       /\ fault' = [fault EXCEPT ![r] = \E o \in Objects(manifests[c]) : chunks[o] # "good"]
  /\ rd' = [rd EXCEPT ![r] = "preflight"]
  /\ UNCHANGED <<index, offset, left, file, got>> /\ ReaderOnly

\* close() and the exception: the restore has failed.
Close(r) ==
  /\ rd' = [rd EXCEPT ![r] = "missed"]
  /\ index' = [index EXCEPT ![r] = 1] /\ offset' = [offset EXCEPT ![r] = 0]
  /\ left' = [left EXCEPT ![r] = 0] /\ file' = [file EXCEPT ![r] = "closed"]
  /\ got' = [got EXCEPT ![r] = <<>>]
  /\ UNCHANGED want
Reject(r) == Close(r) /\ UNCHANGED fault

\* A file may be opened when it is there and has the size of its descriptor.
RightSize(content) == content \in {"good", "bad"}

\* One file of _preflight_files; after the last the constructor returns.
Preflight(r) ==
  /\ rd[r] = "preflight"
  /\ IF ~RightSize(chunks[Here(r)])
     THEN Reject(r)
     ELSE /\ IF index[r] = ObjectCount(want[r])
             THEN rd' = [rd EXCEPT ![r] = "reading"] /\ index' = [index EXCEPT ![r] = 1]
             ELSE index' = [index EXCEPT ![r] = @ + 1] /\ UNCHANGED rd
          /\ UNCHANGED <<want, offset, left, file, got, fault>>
  /\ ReaderOnly

ObjectRead(r) == file[r] # "closed" /\ offset[r] = Len(Here(r))
Between(r) == rd[r] = "reading" /\ left[r] = 0 /\ ~ObjectRead(r)

\* The caller reads the payload in pieces, never past its end.
ReadExactUnbounded(r) ==
  /\ Between(r)
  /\ \E size \in 1 .. Len(want[r]) - Len(got[r]) : left' = [left EXCEPT ![r] = size]
  /\ UNCHANGED <<rd, want, index, offset, file, got, fault>> /\ ReaderOnly
ReadExact(r) ==
  /\ Between(r)
  /\ \E size \in 1 .. Least(ChunkUnits, Len(want[r]) - Len(got[r])) :
       left' = [left EXCEPT ![r] = size]
  /\ UNCHANGED <<rd, want, index, offset, file, got, fault>> /\ ReaderOnly

OpenObject(r) ==
  /\ rd[r] = "reading" /\ left[r] > 0 /\ file[r] = "closed"
  /\ IF ~RightSize(chunks[Here(r)])
     THEN Reject(r)
     ELSE /\ file' = [file EXCEPT ![r] = "linked"]
          /\ offset' = [offset EXCEPT ![r] = 0]
          /\ UNCHANGED <<rd, want, index, left, got, fault>>
  /\ ReaderOnly

\* What the descriptor reads, whatever its name stands for now.
Content(r) == IF file[r] = "linked" THEN chunks[Here(r)] ELSE file[r]

\* count = min(size - copied, remaining)
Count(r) == Least(left[r], Len(Here(r)) - offset[r])

\* A damaged file may still have the right units in this piece.
Piece(r) ==
  LET right == SubSeq(Here(r), offset[r] + 1, offset[r] + Count(r)) IN
  IF Content(r) = "good" THEN {right} ELSE {right, [i \in 1 .. Count(r) |-> Broken]}

\* One turn of read_exact's loop.
ReadPiece(r) ==
  /\ rd[r] = "reading" /\ left[r] > 0 /\ file[r] # "closed" /\ ~ObjectRead(r)
  /\ \/ \E piece \in Piece(r) : got' = [got EXCEPT ![r] = @ \o piece]
        /\ offset' = [offset EXCEPT ![r] = @ + Count(r)]
        /\ left' = [left EXCEPT ![r] = @ - Count(r)]
        /\ UNCHANGED <<rd, want, index, file, fault>>
     \/ Content(r) = "short" /\ Reject(r)
  /\ ReaderOnly

\* The digest of the units read since the object was opened.
DigestOfAll(r) == got[r] = Here(r)
ObjectDigestMatches(r) ==
  SubSeq(got[r], Len(got[r]) - offset[r] + 1, Len(got[r])) = Here(r)

FinishObject(r) ==
  /\ rd[r] = "reading" /\ ObjectRead(r)
  /\ IF RightSize(Content(r)) /\ ObjectDigestMatches(r)
     THEN /\ index' = [index EXCEPT ![r] = @ + 1]
          /\ offset' = [offset EXCEPT ![r] = 0] /\ file' = [file EXCEPT ![r] = "closed"]
          /\ UNCHANGED <<rd, want, left, got, fault>>
     ELSE Reject(r)
  /\ ReaderOnly

\* finish(), which also runs when the caller leaves the reader without an
\* exception, wants every object finished and the digest of the whole payload.
\* A caller that has not read all is to blame for the rejection.
FinishCloses(r) ==
  /\ Between(r)
  /\ rd' = [rd EXCEPT ![r] = "restored"]
  /\ UNCHANGED <<want, index, offset, left, file, got, fault>> /\ ReaderOnly
Finish(r) ==
  /\ Between(r)
  /\ IF index[r] = ObjectCount(want[r]) + 1 /\ file[r] = "closed" /\ got[r] = want[r]
     THEN /\ rd' = [rd EXCEPT ![r] = "restored"]
          /\ UNCHANGED <<want, index, offset, left, file, got, fault>>
     ELSE /\ Close(r)
          /\ fault' = [fault EXCEPT ![r] = @ \/ Len(got[r]) < Len(want[r])]
  /\ ReaderOnly

\* The restore is over, or its caller gives up between two reads.
EndRead(r) ==
  /\ \/ rd[r] \in {"restored", "missed"}
     \/ Between(r)
  /\ rd' = [rd EXCEPT ![r] = "idle"] /\ want' = [want EXCEPT ![r] = None]
  /\ index' = [index EXCEPT ![r] = 1] /\ offset' = [offset EXCEPT ![r] = 0]
  /\ left' = [left EXCEPT ![r] = 0] /\ file' = [file EXCEPT ![r] = "closed"]
  /\ got' = [got EXCEPT ![r] = <<>>] /\ fault' = [fault EXCEPT ![r] = FALSE]
  /\ ReaderOnly

-----------------------------------------------------------------------------
(* Upstream's store, the disk and the machine *)

\* History: whoever reads one of these objects has a reason to fail.
Spoil(O) ==
  fault' = [r \in Reader |-> fault[r] \/ (rd[r] # "idle" /\ Objects(want[r]) \cap O # {})]

\* An object is damaged in place, or renamed away (readers keep the file).
DamageObject(o, d) ==
  /\ hits < MaxHits /\ hits' = hits + 1
  /\ chunks[o] # "none" /\ d # "good"
  /\ chunks' = [chunks EXCEPT ![o] = d]
  /\ synced' \in {synced, [synced EXCEPT ![o] = d]}
  /\ hurt' = hurt \cup {o} /\ Spoil({o})
  /\ IF d = "none" THEN Detach({o}) ELSE UNCHANGED file
  /\ sure' = [p \in Publisher |-> sure[p] /\ Current(p) # o]
  /\ UNCHANGED <<manifests, msynced, acked, pub, job, next, rd, want, index, offset, left, got>>

DamageManifest(c) ==
  /\ hits < MaxHits /\ hits' = hits + 1
  /\ manifests[c] # None
  /\ manifests' = [manifests EXCEPT ![c] = Broken]
  /\ msynced' \in {msynced, [msynced EXCEPT ![c] = Broken]}
  /\ acked' = acked \ {c}
  /\ UNCHANGED <<chunks, synced, hurt, publishers, readers>>

\* invalidate() after a failed restore: no lock, and the removal of the name
\* may or may not have reached the disk.
Invalidate(c) ==
  /\ manifests[c] # None
  /\ manifests' = [manifests EXCEPT ![c] = None]
  /\ msynced' \in {msynced, [msynced EXCEPT ![c] = None]}
  /\ acked' = acked \ {c}
  /\ UNCHANGED <<chunks, synced, hurt, publishers, readers, hits>>

\* maintain() asks for the lock exclusively and without waiting (skipped_busy);
\* it evicts some entries and deletes objects that no manifest names.  One that
\* a removed manifest may still name on the disk counts as lost.
Maintain ==
  /\ Busy = {}
  /\ \E C \in SUBSET Context :
     \E O \in SUBSET (AllObjects \ UNION {Named(manifests[c]) : c \in Context \ C}) :
       /\ C # {} \/ O # {}
       /\ manifests' = [c \in Context |-> IF c \in C THEN None ELSE manifests[c]]
       /\ msynced' \in {msynced, [c \in Context |-> IF c \in C THEN None ELSE msynced[c]]}
       /\ acked' = acked \ C
       /\ chunks' = [o \in AllObjects |-> IF o \in O THEN "none" ELSE chunks[o]]
       /\ synced' \in {synced, [o \in AllObjects |-> IF o \in O THEN "none" ELSE synced[o]]}
       /\ hurt' = hurt \cup {o \in O : \E c \in Context : o \in Named(msynced'[c])}
       /\ Spoil(O) /\ Detach(O)
  /\ UNCHANGED <<publishers, rd, want, index, offset, left, got, hits>>

\* The machine stops: what was not synced may be lost, name by name.
Crash ==
  /\ chunks' \in [AllObjects -> Contents] /\ synced' = chunks'
  /\ \A o \in AllObjects : chunks'[o] \in {chunks[o], synced[o]}
  /\ manifests' \in [Context -> Snap \cup {None, Broken}] /\ msynced' = manifests'
  /\ \A c \in Context : manifests'[c] \in {manifests[c], msynced[c]}
  /\ pub' = [p \in Publisher |-> "idle"]
  /\ job' = [p \in Publisher |-> [context |-> None, snap |-> None]]
  /\ next' = [p \in Publisher |-> 1] /\ sure' = [p \in Publisher |-> FALSE]
  /\ rd' = [r \in Reader |-> "idle"] /\ want' = [r \in Reader |-> None]
  /\ index' = [r \in Reader |-> 1] /\ offset' = [r \in Reader |-> 0]
  /\ left' = [r \in Reader |-> 0] /\ file' = [r \in Reader |-> "closed"]
  /\ got' = [r \in Reader |-> <<>>] /\ fault' = [r \in Reader |-> FALSE]
  /\ UNCHANGED <<hurt, acked, hits>>

-----------------------------------------------------------------------------
Commit(p) ==
  \/ BeginCommit(p) \/ LinkObject(p) \/ LinkExists(p) \/ Deduplicate(p)
  \/ ObjectDiffers(p) \/ ReplaceObject(p) \/ SyncObjects(p)
  \/ PublishManifest(p) \/ SyncManifest(p) \/ FailCommit(p)

Restore(r) ==
  \/ OpenSnapshot(r) \/ Preflight(r) \/ ReadExact(r) \/ OpenObject(r)
  \/ ReadPiece(r) \/ FinishObject(r) \/ Finish(r) \/ EndRead(r)

World ==
  \/ \E o \in AllObjects, d \in Contents : DamageObject(o, d)
  \/ \E c \in Context : DamageManifest(c) \/ Invalidate(c)
  \/ Maintain
  \/ Crash

Next ==
  \/ \E p \in Publisher : Commit(p)
  \/ \E r \in Reader : Restore(r)
  \/ World

Spec == Init /\ [][Next]_vars
-----------------------------------------------------------------------------
(* Properties *)

StoreTypes ==
  /\ chunks \in [AllObjects -> Contents] /\ synced \in [AllObjects -> Contents]
  /\ manifests \in [Context -> Snap \cup {None, Broken}]
  /\ msynced \in [Context -> Snap \cup {None, Broken}]
  /\ hurt \subseteq AllObjects /\ acked \subseteq Context /\ hits \in 0 .. MaxHits
  /\ pub \in [Publisher -> {"idle", "object", "compare", "replace", "sync", "manifest", "msync"}]
  /\ sure \in [Publisher -> BOOLEAN] /\ next \in [Publisher -> Nat]
  /\ job \in [Publisher -> [context : Context \cup {None}, snap : Snap \cup {None}]]
  /\ \A p \in Busy : /\ job[p] \in [context : Context, snap : Snap]
                     /\ next[p] \in 1 .. ObjectCount(job[p].snap)

ReaderTypes ==
  /\ rd \in [Reader -> {"idle", "preflight", "reading", "restored", "missed"}]
  /\ want \in [Reader -> Snap \cup {None}]
  /\ \A r \in Reader : (want[r] = None) <=> (rd[r] = "idle")
  /\ index \in [Reader -> Nat \ {0}] /\ offset \in [Reader -> 0 .. ObjectUnits]
  /\ left \in [Reader -> 0 .. ChunkUnits]
  /\ file \in [Reader -> {"closed", "linked"} \cup Contents]
  /\ got \in [Reader -> Seq(Unit \cup {Broken})]
  /\ fault \in [Reader -> BOOLEAN]

\* Every variable of the store, the publishers and the readers keeps its type:
\* a publisher never looks for an object past the last, a reader never passes
\* the end of an object or of a read.
TypeOK == StoreTypes /\ ReaderTypes

\* Nothing is lost of an object that nothing was done to since.
Backed(o) == o \in hurt \/ (chunks[o] = "good" /\ synced[o] = "good")

\* A manifest that a lookup may find, now or after a crash, names only objects
\* that are whole, now and after a crash, unless something else than the store
\* damaged them: objects first, each synced, the manifest last; an existing
\* object is believed only after a comparison; and maintenance keeps off while
\* a commit is between its objects and its manifest.
ManifestBacked ==
  \A c \in Context : \A o \in Named(manifests[c]) \cup Named(msynced[c]) : Backed(o)

\* An entry whose commit returned its receipt is there, and a crash leaves it.
CommitDurable ==
  \A c \in acked : manifests[c] \in Snap /\ msynced[c] = manifests[c]

\* A reader rejects a snapshot, in the preflight or after half of it has been
\* placed on the device, only when one of its objects was damaged or evicted:
\* its arithmetic over objects, pieces and checksums never fails by itself, and
\* no publisher that links, compares or replaces disturbs it.
RejectsOnlyForCause ==
  \A r \in Reader : rd[r] = "missed" => fault[r]

\* What a caller sees is the store of whole entries.
Visible(m) == IF m \in Snap THEN m ELSE None
Store == INSTANCE AtomicStore WITH
  entry  <- [c \in Context |-> Visible(manifests[c])],
  disk   <- [c \in Context |-> Visible(msynced[c])],
  source <- want,
  result <- [r \in Reader |-> IF rd[r] = "restored" THEN got[r] ELSE None]

\* Every step of the protocol is a step of AtomicStore or invisible: entries
\* appear whole and are never replaced, acknowledged ones survive, and a restore
\* that succeeds has delivered, unit by unit, the snapshot its lookup found,
\* whatever happened to the files while it read.
ImplementsAtomicStore == Store!Spec
=============================================================================
