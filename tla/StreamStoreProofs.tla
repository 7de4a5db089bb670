------------------------- MODULE StreamStoreProofs -------------------------
(***************************************************************************)
(* Proofs about StreamStore, for any contexts, snapshots, publishers and     *)
(* readers, any sizes of objects and reads, and any number of damages.       *)
(***************************************************************************)
EXTENDS StreamStore, FiniteSetTheorems, SequenceTheorems, TLAPS

-----------------------------------------------------------------------------
(* Arithmetic of objects *)

LEMMA Products ==
  ASSUME NEW a \in Int, NEW b \in Int, NEW u \in Nat, a <= b
  PROVE  a * u <= b * u
<1>1. (b - a) * u >= 0
  OBVIOUS
<1>2. (b - a) * u = b * u - a * u
  OBVIOUS
<1> QED
  BY <1>1, <1>2

\* The last object starts before the end of the snapshot and reaches it.
LEMMA CountBounds ==
  ASSUME NEW s \in Snap
  PROVE  /\ Len(s) \in Nat \ {0}
         /\ ObjectCount(s) \in Nat \ {0}
         /\ (ObjectCount(s) - 1) * ObjectUnits < Len(s)
         /\ Len(s) <= ObjectCount(s) * ObjectUnits
<1> DEFINE L == Len(s)
           U == ObjectUnits
           N == ObjectCount(s)
<1>1. L \in Nat \ {0} /\ U \in Nat \ {0}
  BY SnapAssumption, SizesAssumption
<1>2. N = (L + U - 1) \div U
  BY DEF ObjectCount
<1> HIDE DEF L, U, N
<1>3. N \in Int /\ U * N <= L + U - 1 /\ L + U - 1 < U * N + U
  BY <1>1, <1>2
<1>4. U * N = N * U /\ (N - 1) * U = N * U - U /\ N * U \in Int
  BY <1>1, <1>3
<1>5. N >= 1
  <2>1. SUFFICES ASSUME N <= 0 PROVE FALSE
    BY <1>3
  <2>2. N * U <= 0 * U
    BY <2>1, <1>1, <1>3, Products
  <2> QED
    BY <2>2, <1>1, <1>3, <1>4
<1> QED
  BY <1>1, <1>3, <1>4, <1>5 DEF L, U, N

-----------------------------------------------------------------------------
(* Objects and manifests *)

LEMMA ObjectIn ==
  ASSUME NEW s \in Snap, NEW i \in 1 .. ObjectCount(s)
  PROVE  Object(s, i) \in Objects(s) /\ Object(s, i) \in AllObjects
BY DEF Objects, AllObjects

LEMMA NamedIn ==
  ASSUME NEW m
  PROVE  Named(m) \subseteq AllObjects
BY DEF Named, AllObjects

\* What a busy publisher has at hand is an object of its snapshot.
LEMMA CurrentIn ==
  ASSUME StoreTypes, NEW p \in Busy
  PROVE  /\ p \in Publisher /\ job[p].context \in Context /\ job[p].snap \in Snap
         /\ next[p] \in 1 .. ObjectCount(job[p].snap)
         /\ Current(p) \in Objects(job[p].snap) /\ Current(p) \in AllObjects
<1>1. p \in Publisher /\ job[p].context \in Context /\ job[p].snap \in Snap
  BY DEF StoreTypes, Busy
<1>2. next[p] \in 1 .. ObjectCount(job[p].snap)
  BY DEF StoreTypes
<1> QED
  BY <1>1, <1>2, ObjectIn DEF Current

LEMMA InitTypes == Init => StoreTypes
<1> SUFFICES ASSUME Init PROVE StoreTypes
  OBVIOUS
<1>1. job \in [Publisher -> [context : Context \cup {None}, snap : Snap \cup {None}]]
  BY DEF Init
<1> QED
  BY <1>1, HitsAssumption DEF Init, StoreTypes, Contents, Busy

LEMMA StepTypes == StoreTypes /\ [Next]_vars => StoreTypes'
<1> SUFFICES ASSUME StoreTypes, [Next]_vars PROVE StoreTypes'
  OBVIOUS
<1> USE DEF StoreTypes, Contents, disk
<1>h. \A k \in 0 .. MaxHits : k < MaxHits => k + 1 \in 0 .. MaxHits
  BY HitsAssumption
<1>1. ASSUME NEW p \in Publisher, BeginCommit(p) PROVE StoreTypes'
  <2>1. PICK c \in Context, s \in Snap :
          job' = [job EXCEPT ![p] = [context |-> c, snap |-> s]]
    BY <1>1 DEF BeginCommit
  <2>2. 1 \in 1 .. ObjectCount(s)
    BY CountBounds
  <2> QED
    BY <1>1, <2>1, <2>2 DEF BeginCommit, Goto, Busy
<1>2. ASSUME NEW p \in Publisher, LinkObject(p) PROVE StoreTypes'
  BY <1>2 DEF LinkObject, Verified, Goto, Busy
<1>3. ASSUME NEW p \in Publisher, LinkExists(p) \/ ObjectDiffers(p) PROVE StoreTypes'
  BY <1>3 DEF LinkExists, ObjectDiffers, Goto, Busy
<1>4. ASSUME NEW p \in Publisher, Deduplicate(p) PROVE StoreTypes'
  BY <1>4 DEF Deduplicate, Verified, Goto, Busy
<1>5. ASSUME NEW p \in Publisher, ReplaceObject(p) PROVE StoreTypes'
  BY <1>5 DEF ReplaceObject, Verified, Goto, Busy
<1>6. ASSUME NEW p \in Publisher, SyncObjects(p) PROVE StoreTypes'
  <2>1. p \in Busy
    BY <1>6 DEF SyncObjects, Busy
  <2>2. next[p] \in 1 .. ObjectCount(job[p].snap) /\ ObjectCount(job[p].snap) \in Nat
    BY <2>1, CurrentIn, CountBounds
  <2>3. next[p] # ObjectCount(job[p].snap) => next[p] + 1 \in 1 .. ObjectCount(job[p].snap)
    <3>1. \A k, n \in Nat : k \in 1 .. n /\ k # n => k + 1 \in 1 .. n
      OBVIOUS
    <3> HIDE DEF StoreTypes
    <3> QED
      BY <2>2, <3>1
  <2>4. Busy' = Busy
    BY <1>6 DEF SyncObjects, Goto, Busy
  <2>5. /\ next' \in [Publisher -> Nat]
        /\ \A q \in Busy : next'[q] \in 1 .. ObjectCount(job[q].snap)
    <3>1. CASE next[p] = ObjectCount(job[p].snap)
      BY <1>6, <3>1 DEF SyncObjects
    <3>2. CASE next[p] # ObjectCount(job[p].snap)
      <4>1. next' = [next EXCEPT ![p] = next[p] + 1]
        BY <1>6, <3>2 DEF SyncObjects
      <4>2. next[p] + 1 \in Nat
        BY <2>2
      <4>3. \A q \in Busy : next'[q] = IF q = p THEN next[p] + 1 ELSE next[q]
        BY <4>1 DEF Busy
      <4> QED
        BY <4>1, <4>2, <4>3, <2>3, <3>2
    <3> QED
      BY <3>1, <3>2
  <2>6. pub' \in [Publisher -> {"idle", "object", "compare", "replace", "sync", "manifest", "msync"}]
    <3>1. \/ pub' = [pub EXCEPT ![p] = "manifest"]
          \/ pub' = [pub EXCEPT ![p] = "object"]
      BY <1>6 DEF SyncObjects, Goto
    <3> QED
      BY <3>1
  <2>7. job' = job /\ \A q \in Busy : job[q] \in [context : Context, snap : Snap]
    BY <1>6 DEF SyncObjects
  <2>8. \A q \in Busy' : /\ job'[q] \in [context : Context, snap : Snap]
                         /\ next'[q] \in 1 .. ObjectCount(job'[q].snap)
    BY <2>4, <2>5, <2>7
  <2>9. /\ synced' \in [AllObjects -> Contents] /\ hurt' \subseteq AllObjects
        /\ sure' \in [Publisher -> BOOLEAN]
        /\ UNCHANGED <<chunks, manifests, msynced, acked, hits>>
    BY <1>6 DEF SyncObjects
  <2> QED
    BY <2>5, <2>6, <2>7, <2>8, <2>9
<1>7. ASSUME NEW p \in Publisher, PublishManifest(p) PROVE StoreTypes'
  <2>1. p \in Busy
    BY <1>7 DEF PublishManifest, Busy
  <2> QED
    BY <1>7, <2>1, CurrentIn DEF PublishManifest, Goto, Busy
<1>8. ASSUME NEW p \in Publisher, SyncManifest(p) PROVE StoreTypes'
  <2>1. p \in Busy
    BY <1>8 DEF SyncManifest, Busy
  <2> QED
    BY <1>8, <2>1, CurrentIn DEF SyncManifest, Goto, Busy
<1>9. ASSUME NEW p \in Publisher, FailCommit(p) PROVE StoreTypes'
  BY <1>9 DEF FailCommit, Goto, Busy
<1>10. ASSUME NEW r \in Reader, Restore(r) PROVE StoreTypes'
  BY <1>10 DEF Restore, OpenSnapshot, Preflight, ReadExact, OpenObject, ReadPiece,
     FinishObject, Finish, EndRead, ReaderOnly, publishers, Busy
<1>11. ASSUME NEW o \in AllObjects, NEW d \in Contents, DamageObject(o, d) PROVE StoreTypes'
  BY <1>11, <1>h DEF DamageObject, Busy
<1>12. ASSUME NEW c \in Context, DamageManifest(c) PROVE StoreTypes'
  BY <1>12, <1>h DEF DamageManifest, publishers, Busy
<1>13. ASSUME NEW c \in Context, Invalidate(c) PROVE StoreTypes'
  BY <1>13 DEF Invalidate, publishers, Busy
<1>14. CASE Maintain
  BY <1>14 DEF Maintain, publishers, Busy
<1>15. CASE Crash
  BY <1>15 DEF Crash, Busy
<1>16. CASE UNCHANGED vars
  BY <1>16 DEF vars, publishers, Busy
<1> QED
  BY <1>1, <1>2, <1>3, <1>4, <1>5, <1>6, <1>7, <1>8, <1>9, <1>10, <1>11, <1>12, <1>13,
     <1>14, <1>15, <1>16 DEF Next, Commit, World

-----------------------------------------------------------------------------
(* What a manifest names is whole.  The invariant says the same of the        *)
(* objects a busy publisher has passed, and what a publisher knows of the     *)
(* object it is about to sync: it verified that one itself, or something      *)
(* damaged it since.                                                          *)

Passed(p) == IF pub[p] \in {"manifest", "msync"} THEN ObjectCount(job[p].snap) ELSE next[p] - 1
Published(p) == {Object(job[p].snap, i) : i \in 1 .. Passed(p)}

PassedBacked == \A p \in Busy : \A o \in Published(p) : Backed(o)
SureInv ==
  \A p \in Publisher :
    /\ sure[p] => pub[p] = "sync"
    /\ pub[p] = "sync" => IF sure[p] THEN chunks[Current(p)] = "good" ELSE Backed(Current(p))

StoreInv == StoreTypes /\ ManifestBacked /\ PassedBacked /\ SureInv

LEMMA InitStore == Init => StoreInv
<1> SUFFICES ASSUME Init PROVE StoreInv
  OBVIOUS
<1>1. StoreTypes
  BY InitTypes
<1>2. ManifestBacked
  BY OtherAssumption DEF Init, ManifestBacked, Named
<1>3. PassedBacked /\ SureInv
  BY DEF Init, PassedBacked, SureInv, Busy
<1> QED
  BY <1>1, <1>2, <1>3 DEF StoreInv

\* Nothing but a maintenance pass takes an object away unnoticed.
LEMMA BackedKept ==
  ASSUME StoreInv, [Next]_vars, ~Maintain, NEW o \in AllObjects, Backed(o)
  PROVE  Backed(o)'
<1> USE DEF StoreInv, Backed
<1>1. ASSUME NEW p \in Publisher, LinkObject(p) PROVE Backed(o)'
  BY <1>1 DEF LinkObject, Verified, StoreTypes
<1>2. ASSUME NEW p \in Publisher, ReplaceObject(p) PROVE Backed(o)'
  BY <1>2 DEF ReplaceObject, Verified, StoreTypes
<1>3. ASSUME NEW p \in Publisher, SyncObjects(p) PROVE Backed(o)'
  BY <1>3 DEF SyncObjects, SureInv
<1>4. ASSUME NEW p \in Publisher,
             \/ BeginCommit(p) \/ LinkExists(p) \/ Deduplicate(p) \/ ObjectDiffers(p)
             \/ PublishManifest(p) \/ SyncManifest(p) \/ FailCommit(p)
      PROVE  Backed(o)'
  BY <1>4 DEF BeginCommit, LinkExists, Deduplicate, ObjectDiffers, PublishManifest,
     SyncManifest, FailCommit, Verified, disk
<1>5. ASSUME NEW r \in Reader, Restore(r) PROVE Backed(o)'
  BY <1>5 DEF Restore, OpenSnapshot, Preflight, ReadExact, OpenObject, ReadPiece,
     FinishObject, Finish, EndRead, ReaderOnly, disk
<1>6. ASSUME NEW x \in AllObjects, NEW d \in Contents, DamageObject(x, d) PROVE Backed(o)'
  BY <1>6 DEF DamageObject, StoreTypes
<1>7. ASSUME NEW c \in Context, DamageManifest(c) \/ Invalidate(c) PROVE Backed(o)'
  BY <1>7 DEF DamageManifest, Invalidate
<1>8. CASE Crash
  BY <1>8 DEF Crash
<1>9. CASE UNCHANGED vars
  BY <1>9 DEF vars, disk
<1> QED
  BY <1>1, <1>2, <1>3, <1>4, <1>5, <1>6, <1>7, <1>8, <1>9 DEF Next, Commit, World

\* Only a publisher that has passed all its objects makes a manifest name more.
LEMMA StepManifests == StoreInv /\ [Next]_vars => ManifestBacked'
<1> SUFFICES ASSUME StoreInv, [Next]_vars,
                    NEW c \in Context, NEW o \in Named(manifests'[c]) \cup Named(msynced'[c])
             PROVE  Backed(o)'
  BY DEF ManifestBacked
<1>o. o \in AllObjects
  BY NamedIn
<1>1. CASE Maintain
  <2>1. PICK C \in SUBSET Context, O \in SUBSET AllObjects :
          /\ \A e \in Context \ C : O \cap Named(manifests[e]) = {}
          /\ manifests' = [e \in Context |-> IF e \in C THEN None ELSE manifests[e]]
          /\ msynced' \in {msynced, [e \in Context |-> IF e \in C THEN None ELSE msynced[e]]}
          /\ chunks' = [x \in AllObjects |-> IF x \in O THEN "none" ELSE chunks[x]]
          /\ synced' \in {synced, [x \in AllObjects |-> IF x \in O THEN "none" ELSE synced[x]]}
          /\ hurt' = hurt \cup {x \in O : \E e \in Context : x \in Named(msynced'[e])}
    <3>1. PICK C \in SUBSET Context :
          \E O \in SUBSET (AllObjects \ UNION {Named(manifests[e]) : e \in Context \ C}) :
            /\ manifests' = [e \in Context |-> IF e \in C THEN None ELSE manifests[e]]
            /\ msynced' \in {msynced, [e \in Context |-> IF e \in C THEN None ELSE msynced[e]]}
            /\ chunks' = [x \in AllObjects |-> IF x \in O THEN "none" ELSE chunks[x]]
            /\ synced' \in {synced, [x \in AllObjects |-> IF x \in O THEN "none" ELSE synced[x]]}
            /\ hurt' = hurt \cup {x \in O : \E e \in Context : x \in Named(msynced'[e])}
      BY <1>1 DEF Maintain
    <3>2. PICK O \in SUBSET (AllObjects \ UNION {Named(manifests[e]) : e \in Context \ C}) :
            /\ manifests' = [e \in Context |-> IF e \in C THEN None ELSE manifests[e]]
            /\ msynced' \in {msynced, [e \in Context |-> IF e \in C THEN None ELSE msynced[e]]}
            /\ chunks' = [x \in AllObjects |-> IF x \in O THEN "none" ELSE chunks[x]]
            /\ synced' \in {synced, [x \in AllObjects |-> IF x \in O THEN "none" ELSE synced[x]]}
            /\ hurt' = hurt \cup {x \in O : \E e \in Context : x \in Named(msynced'[e])}
      BY <3>1
    <3>3. \A e \in Context \ C : O \cap Named(manifests[e]) = {}
      OBVIOUS
    <3>4. O \in SUBSET AllObjects
      OBVIOUS
    <3> QED
      BY <3>2, <3>3, <3>4
  <2>2. Named(None) = {}
    BY OtherAssumption DEF Named
  <2>3. CASE o \in O
    <3>1. o \notin Named(manifests'[c])
      BY <2>1, <2>2, <2>3
    <3> QED
      BY <2>1, <2>3, <3>1 DEF Backed
  <2>4. CASE o \notin O
    <3>1. o \in Named(manifests[c]) \cup Named(msynced[c])
      BY <2>1, <2>2
    <3>2. Backed(o)
      BY <3>1 DEF StoreInv, ManifestBacked
    <3> QED
      BY <2>1, <2>4, <3>2, <1>o DEF Backed
  <2> QED
    BY <2>3, <2>4
<1>2. CASE ~Maintain
  <2>1. SUFFICES Backed(o)
    BY <1>2, <1>o, BackedKept
  <2>2. ASSUME NEW p \in Publisher, PublishManifest(p) PROVE Backed(o)
    <3>1. msynced' = msynced /\ (manifests'[c] = manifests[c] \/ manifests'[c] = job[p].snap)
      BY <2>2 DEF PublishManifest, StoreInv, StoreTypes
    <3>2. p \in Busy /\ Passed(p) = ObjectCount(job[p].snap)
      BY <2>2 DEF PublishManifest, Busy, Passed
    <3>3. CASE o \in Named(job[p].snap)
      <4>1. o \in Published(p)
        BY <3>2, <3>3, CurrentIn DEF Published, Named, Objects, StoreInv
      <4> QED
        BY <3>2, <4>1 DEF StoreInv, PassedBacked
    <3> QED
      BY <3>1, <3>3 DEF StoreInv, ManifestBacked
  <2>3. ASSUME NEW p \in Publisher, SyncManifest(p) PROVE Backed(o)
    BY <2>3 DEF SyncManifest, StoreInv, ManifestBacked
  <2>4. ASSUME NEW p \in Publisher,
               \/ BeginCommit(p) \/ LinkObject(p) \/ LinkExists(p) \/ Deduplicate(p)
               \/ ObjectDiffers(p) \/ ReplaceObject(p) \/ SyncObjects(p) \/ FailCommit(p)
        PROVE  Backed(o)
    BY <2>4 DEF BeginCommit, LinkObject, LinkExists, Deduplicate, ObjectDiffers,
       ReplaceObject, SyncObjects, FailCommit, Verified, disk, StoreInv, ManifestBacked
  <2>5. ASSUME NEW r \in Reader, Restore(r) PROVE Backed(o)
    BY <2>5 DEF Restore, OpenSnapshot, Preflight, ReadExact, OpenObject, ReadPiece,
       FinishObject, Finish, EndRead, ReaderOnly, disk, StoreInv, ManifestBacked
  <2>6. ASSUME NEW x \in AllObjects, NEW d \in Contents, DamageObject(x, d) PROVE Backed(o)
    BY <2>6 DEF DamageObject, StoreInv, ManifestBacked
  <2>7. ASSUME NEW e \in Context, DamageManifest(e) \/ Invalidate(e) PROVE Backed(o)
    <3>1. PICK m \in {None, Broken} :
            /\ manifests' = [manifests EXCEPT ![e] = m]
            /\ msynced' \in {msynced, [msynced EXCEPT ![e] = m]}
      BY <2>7 DEF DamageManifest, Invalidate
    <3>2. Named(m) = {}
      BY OtherAssumption DEF Named
    <3>3. o \in Named(manifests[c]) \cup Named(msynced[c])
      BY <3>1, <3>2 DEF StoreInv, StoreTypes
    <3> QED
      BY <3>3 DEF StoreInv, ManifestBacked
  <2>8. CASE Crash
    BY <2>8 DEF Crash, StoreInv, ManifestBacked
  <2>9. CASE UNCHANGED vars
    BY <2>9 DEF vars, disk, StoreInv, ManifestBacked
  <2> QED
    BY <1>2, <2>2, <2>3, <2>4, <2>5, <2>6, <2>7, <2>8, <2>9 DEF Next, Commit, World
<1> QED
  BY <1>1, <1>2

\* A publisher passes an object when it has synced the name it verified.
LEMMA StepPassed == StoreInv /\ [Next]_vars => PassedBacked'
<1> SUFFICES ASSUME StoreInv, [Next]_vars, NEW p \in Busy', NEW o \in Published(p)'
             PROVE  Backed(o)'
  BY DEF PassedBacked
<1>t. StoreTypes /\ StoreTypes'
  BY StepTypes DEF StoreInv
<1>o. o \in AllObjects
  <2>1. /\ job'[p].snap \in Snap /\ next'[p] \in 1 .. ObjectCount(job'[p].snap)
        /\ ObjectCount(job'[p].snap) \in Nat
    BY <1>t, CountBounds DEF StoreTypes, Busy
  <2> QED
    BY <2>1, ObjectIn DEF Published, Passed
<1>b. \A q \in Busy : /\ q \in Publisher /\ job[q].snap \in Snap
                      /\ next[q] \in 1 .. ObjectCount(job[q].snap)
                      /\ ObjectCount(job[q].snap) \in Nat
  BY <1>t, CurrentIn, CountBounds
<1>1. CASE Maintain
  BY <1>1 DEF Maintain, publishers, Busy
<1>2. CASE ~Maintain
  <2>1. SUFFICES ASSUME o \notin Published(p) \/ p \notin Busy PROVE Backed(o)'
    BY <1>2, <1>o, BackedKept DEF StoreInv, PassedBacked
  <2>2. ASSUME NEW q \in Publisher, BeginCommit(q) PROVE Backed(o)'
    <3>1. CASE p = q
      BY <2>2, <3>1, <1>t DEF BeginCommit, Goto, Published, Passed, StoreTypes
    <3>2. CASE p # q
      BY <2>1, <2>2, <3>2, <1>t DEF BeginCommit, Goto, Published, Passed, StoreTypes, Busy
    <3> QED
      BY <3>1, <3>2
  <2>3. ASSUME NEW q \in Publisher,
               \/ LinkObject(q) \/ LinkExists(q) \/ Deduplicate(q)
               \/ ObjectDiffers(q) \/ ReplaceObject(q) \/ PublishManifest(q)
        PROVE  Backed(o)'
    <3>1. PICK w \in {"compare", "sync", "replace", "msync"} :
            /\ pub' = [pub EXCEPT ![q] = w] /\ job' = job /\ next' = next /\ q \in Busy
            /\ w = "msync" => pub[q] = "manifest"
            /\ w # "msync" => pub[q] \notin {"manifest", "msync"}
      BY <2>3 DEF LinkObject, LinkExists, Deduplicate, ObjectDiffers, ReplaceObject,
         PublishManifest, Verified, Goto, Busy
    <3>2. Busy' = Busy /\ Passed(p)' = Passed(p)
      BY <3>1, <1>t DEF Busy, Passed, StoreTypes
    <3> QED
      BY <2>1, <3>1, <3>2 DEF Published
  <2>4. ASSUME NEW q \in Publisher, SyncObjects(q) PROVE Backed(o)'
    <3>1. CASE p # q
      BY <2>1, <2>4, <3>1, <1>t DEF SyncObjects, Goto, Published, Passed, StoreTypes, Busy
    <3>2. CASE p = q
      <4>1. q \in Busy /\ pub[q] = "sync" /\ job' = job
        BY <2>4 DEF SyncObjects, Busy
      <4>2. Passed(q) = next[q] - 1
        BY <4>1 DEF Passed
      <4>3. Passed(q)' = next[q]
        <5>1. CASE next[q] = ObjectCount(job[q].snap)
          BY <2>4, <5>1, <4>1, <1>t DEF SyncObjects, Goto, Passed, StoreTypes
        <5>2. CASE next[q] # ObjectCount(job[q].snap)
          <6>1. next'[q] = next[q] + 1 /\ pub'[q] = "object"
            BY <2>4, <5>2, <4>1, <1>t DEF SyncObjects, Goto, StoreTypes
          <6> QED
            BY <6>1, <1>b, <4>1 DEF Passed
        <5> QED
          BY <5>1, <5>2
      <4>4. o = Current(q)
        <5>1. PICK i \in 1 .. next[q] : o = Object(job[q].snap, i)
          BY <3>2, <4>1, <4>3 DEF Published
        <5>2. i \notin 1 .. next[q] - 1
          BY <2>1, <3>2, <4>1, <4>2, <5>1 DEF Published
        <5>3. i = next[q]
          BY <5>1, <5>2, <4>1, <1>b
        <5> QED
          BY <5>1, <5>3 DEF Current
      <4>5. CASE sure[q]
        BY <2>4, <4>1, <4>4, <4>5, <1>o, <1>t DEF StoreInv, SureInv, SyncObjects, Backed, StoreTypes
      <4>6. CASE ~sure[q]
        BY <1>2, <1>o, <4>1, <4>4, <4>6, BackedKept DEF StoreInv, SureInv
      <4> QED
        BY <4>5, <4>6
    <3> QED
      BY <3>1, <3>2
  <2>5. ASSUME NEW q \in Publisher, SyncManifest(q) \/ FailCommit(q) PROVE Backed(o)'
    <3>1. /\ pub' = [pub EXCEPT ![q] = "idle"]
          /\ job' = [job EXCEPT ![q] = [context |-> None, snap |-> None]]
          /\ next' = [next EXCEPT ![q] = 1]
      BY <2>5 DEF SyncManifest, FailCommit, Goto
    <3>2. p # q /\ p \in Busy
      BY <3>1, <1>t DEF Busy, StoreTypes
    <3> QED
      BY <2>1, <3>1, <3>2, <1>t DEF Published, Passed, StoreTypes
  <2>6. ASSUME NEW r \in Reader, Restore(r) PROVE Backed(o)'
    BY <2>1, <2>6 DEF Restore, OpenSnapshot, Preflight, ReadExact, OpenObject, ReadPiece,
       FinishObject, Finish, EndRead, ReaderOnly, publishers, Published, Passed, Busy
  <2>7. ASSUME NEW x \in AllObjects, NEW d \in Contents, DamageObject(x, d) PROVE Backed(o)'
    BY <2>1, <2>7 DEF DamageObject, Published, Passed, Busy
  <2>8. ASSUME NEW e \in Context, DamageManifest(e) \/ Invalidate(e) PROVE Backed(o)'
    BY <2>1, <2>8 DEF DamageManifest, Invalidate, publishers, Published, Passed, Busy
  <2>9. CASE Crash
    BY <2>9 DEF Crash, Busy
  <2>10. CASE UNCHANGED vars
    BY <2>1, <2>10 DEF vars, publishers, Published, Passed, Busy
  <2> QED
    BY <1>2, <2>2, <2>3, <2>4, <2>5, <2>6, <2>7, <2>8, <2>9, <2>10 DEF Next, Commit, World
<1> QED
  BY <1>1, <1>2

\* From the verification of an object to the sync of its name, the object is
\* good or a damage is on record.
LEMMA StepSure == StoreInv /\ [Next]_vars => SureInv'
<1> SUFFICES ASSUME StoreInv, [Next]_vars, NEW p \in Publisher
             PROVE  /\ sure'[p] => pub'[p] = "sync"
                    /\ pub'[p] = "sync" => IF sure'[p] THEN chunks'[Current(p)'] = "good"
                                           ELSE Backed(Current(p))'
  BY DEF SureInv
<1>t. StoreTypes /\ StoreTypes'
  BY StepTypes DEF StoreInv
<1>s. /\ sure[p] => pub[p] = "sync"
      /\ pub[p] = "sync" => IF sure[p] THEN chunks[Current(p)] = "good" ELSE Backed(Current(p))
  BY DEF StoreInv, SureInv
<1>c. pub[p] # "idle" => Current(p) \in AllObjects
  BY <1>t, CurrentIn DEF Busy
<1>k. ~Maintain => \A o \in AllObjects : Backed(o) => Backed(o)'
  BY BackedKept
<1> USE DEF Backed
<1>1. ASSUME NEW q \in Publisher, LinkObject(q) \/ Deduplicate(q) \/ ReplaceObject(q),
             p = q
      PROVE  /\ sure'[p] => pub'[p] = "sync"
             /\ pub'[p] = "sync" => IF sure'[p] THEN chunks'[Current(p)'] = "good"
                                    ELSE Backed(Current(p))'
  BY <1>1, <1>t, <1>c DEF LinkObject, Deduplicate, ReplaceObject, Verified, Goto, Current, StoreTypes
<1>2. ASSUME NEW q \in Publisher, LinkObject(q) \/ Deduplicate(q) \/ ReplaceObject(q),
             p # q
      PROVE  /\ sure'[p] => pub'[p] = "sync"
             /\ pub'[p] = "sync" => IF sure'[p] THEN chunks'[Current(p)'] = "good"
                                    ELSE Backed(Current(p))'
  <2>1. sure'[p] = sure[p] /\ pub'[p] = pub[p] /\ Current(p)' = Current(p)
    BY <1>2, <1>t DEF LinkObject, Deduplicate, ReplaceObject, Verified, Goto, Current, StoreTypes
  <2>2. pub[p] # "idle" /\ chunks[Current(p)] = "good" => chunks'[Current(p)] = "good"
    BY <1>2, <1>t, <1>c DEF LinkObject, Deduplicate, ReplaceObject, Verified, StoreTypes
  <2>3. ~Maintain
    BY <1>2 DEF LinkObject, Deduplicate, ReplaceObject, Maintain, Busy
  <2> QED
    BY <2>1, <2>2, <2>3, <1>s, <1>k, <1>c
<1>3. ASSUME NEW q \in Publisher,
             \/ BeginCommit(q) \/ LinkExists(q) \/ ObjectDiffers(q) \/ SyncObjects(q)
             \/ PublishManifest(q) \/ SyncManifest(q) \/ FailCommit(q)
      PROVE  /\ sure'[p] => pub'[p] = "sync"
             /\ pub'[p] = "sync" => IF sure'[p] THEN chunks'[Current(p)'] = "good"
                                    ELSE Backed(Current(p))'
  <2>1. chunks' = chunks
    BY <1>3 DEF BeginCommit, LinkExists, ObjectDiffers, SyncObjects, PublishManifest,
       SyncManifest, FailCommit, disk
  <2>2. CASE p = q
    <3>1. ~sure[q] \/ SyncObjects(q) \/ FailCommit(q)
      BY <1>3, <1>s, <2>2 DEF BeginCommit, LinkExists, ObjectDiffers, PublishManifest, SyncManifest
    <3> QED
      BY <1>3, <1>t, <2>2, <3>1 DEF BeginCommit, LinkExists, ObjectDiffers, SyncObjects,
         PublishManifest, SyncManifest, FailCommit, Goto, StoreTypes
  <2>3. CASE p # q
    <3>1. sure'[p] = sure[p] /\ pub'[p] = pub[p] /\ job'[p] = job[p] /\ next'[p] = next[p]
      BY <1>3, <1>t, <2>3 DEF BeginCommit, LinkExists, ObjectDiffers, SyncObjects,
         PublishManifest, SyncManifest, FailCommit, Goto, StoreTypes
    <3>2. Current(p)' = Current(p)
      BY <3>1 DEF Current
    <3>3. CASE Maintain
      BY <1>s, <2>1, <3>1, <3>3 DEF Maintain, Busy
    <3>4. CASE ~Maintain
      BY <1>s, <1>k, <1>c, <2>1, <3>1, <3>2, <3>4
    <3> QED
      BY <3>3, <3>4
  <2> QED
    BY <2>2, <2>3
<1>4. ASSUME NEW x \in AllObjects, NEW d \in Contents, DamageObject(x, d)
      PROVE  /\ sure'[p] => pub'[p] = "sync"
             /\ pub'[p] = "sync" => IF sure'[p] THEN chunks'[Current(p)'] = "good"
                                    ELSE Backed(Current(p))'
  <2>1. /\ sure'[p] = (sure[p] /\ Current(p) # x) /\ pub' = pub
        /\ chunks' = [chunks EXCEPT ![x] = d] /\ hurt' = hurt \cup {x}
        /\ job' = job /\ next' = next
    BY <1>4 DEF DamageObject
  <2>2. Current(p)' = Current(p)
    BY <2>1 DEF Current
  <2>3. CASE Current(p) = x
    BY <2>1, <2>2, <2>3, <1>s DEF Backed
  <2>4. CASE Current(p) # x
    <3>1. CASE Maintain
      BY <1>s, <2>1, <3>1 DEF Maintain, Busy
    <3>2. CASE ~Maintain
      <4>1. sure'[p] = sure[p]
        BY <2>1, <2>4, <1>t DEF StoreTypes
      <4>2. pub[p] = "sync" /\ sure[p] => chunks'[Current(p)] = "good"
        BY <2>1, <2>4, <1>s, <1>t, <1>c DEF StoreTypes
      <4> QED
        BY <2>1, <2>2, <3>2, <4>1, <4>2, <1>s, <1>k, <1>c
    <3> QED
      BY <3>1, <3>2
  <2> QED
    BY <2>3, <2>4
<1>5. CASE \/ \E r \in Reader : Restore(r)
           \/ \E e \in Context : DamageManifest(e) \/ Invalidate(e)
           \/ UNCHANGED vars
  <2>1. UNCHANGED <<chunks, synced, hurt, pub, job, next, sure>>
    BY <1>5 DEF Restore, OpenSnapshot, Preflight, ReadExact, OpenObject, ReadPiece,
       FinishObject, Finish, EndRead, ReaderOnly, DamageManifest, Invalidate, disk, publishers, vars
  <2>2. Current(p)' = Current(p)
    BY <2>1 DEF Current
  <2> QED
    BY <2>1, <2>2, <1>s DEF Backed
<1>6. CASE Maintain
  BY <1>6, <1>s DEF Maintain, publishers, Busy
<1>7. CASE Crash
  BY <1>7 DEF Crash
<1> QED
  BY <1>1, <1>2, <1>3, <1>4, <1>5, <1>6, <1>7 DEF Next, Commit, World

\* The inductive invariant of the store.
THEOREM StoreInvariant == Spec => []StoreInv
<1>1. Init => StoreInv
  BY InitStore
<1>2. StoreInv /\ [Next]_vars => StoreInv'
  BY StepTypes, StepManifests, StepPassed, StepSure DEF StoreInv
<1> QED
  BY <1>1, <1>2, PTL DEF Spec

\* A manifest that a lookup finds, now or after a crash, names only objects that
\* are whole unless something other than the store damaged them.
THEOREM ManifestsAreBacked == Spec => []ManifestBacked
<1>1. StoreInv => ManifestBacked
  BY DEF StoreInv
<1> QED
  BY <1>1, StoreInvariant, PTL

-----------------------------------------------------------------------------
(* What was acknowledged is on the disk. *)

LEMMA StepDurable == StoreTypes /\ CommitDurable /\ [Next]_vars => CommitDurable'
<1> SUFFICES ASSUME StoreTypes, CommitDurable, [Next]_vars, NEW c \in acked'
             PROVE  manifests'[c] \in Snap /\ msynced'[c] = manifests'[c]
  BY DEF CommitDurable
<1> USE DEF CommitDurable, StoreTypes
<1>1. ASSUME NEW p \in Publisher, PublishManifest(p)
      PROVE  manifests'[c] \in Snap /\ msynced'[c] = manifests'[c]
  <2>1. c \in acked /\ c \in Context /\ manifests[c] \in Snap /\ msynced'[c] = manifests[c]
    BY <1>1 DEF PublishManifest
  <2>2. manifests'[c] = manifests[c]
    BY <1>1, <2>1, OtherAssumption DEF PublishManifest
  <2> QED
    BY <2>1, <2>2
<1>2. ASSUME NEW p \in Publisher, SyncManifest(p)
      PROVE  manifests'[c] \in Snap /\ msynced'[c] = manifests'[c]
  <2>1. job[p].snap \in Snap
    BY <1>2, CurrentIn DEF SyncManifest, Busy
  <2> QED
    BY <1>2, <2>1 DEF SyncManifest
<1>3. ASSUME NEW p \in Publisher,
             \/ BeginCommit(p) \/ LinkObject(p) \/ LinkExists(p) \/ Deduplicate(p)
             \/ ObjectDiffers(p) \/ ReplaceObject(p) \/ SyncObjects(p) \/ FailCommit(p)
      PROVE  manifests'[c] \in Snap /\ msynced'[c] = manifests'[c]
  BY <1>3 DEF BeginCommit, LinkObject, LinkExists, Deduplicate, ObjectDiffers,
     ReplaceObject, SyncObjects, FailCommit, Verified, disk
<1>4. ASSUME NEW r \in Reader, Restore(r)
      PROVE  manifests'[c] \in Snap /\ msynced'[c] = manifests'[c]
  BY <1>4 DEF Restore, OpenSnapshot, Preflight, ReadExact, OpenObject, ReadPiece,
     FinishObject, Finish, EndRead, ReaderOnly, disk
<1>5. ASSUME NEW o \in AllObjects, NEW d \in Contents, DamageObject(o, d)
      PROVE  manifests'[c] \in Snap /\ msynced'[c] = manifests'[c]
  BY <1>5 DEF DamageObject
<1>6. ASSUME NEW e \in Context, DamageManifest(e) \/ Invalidate(e)
      PROVE  manifests'[c] \in Snap /\ msynced'[c] = manifests'[c]
  BY <1>6 DEF DamageManifest, Invalidate
<1>7. CASE Maintain
  BY <1>7 DEF Maintain
<1>8. CASE Crash
  BY <1>8 DEF Crash
<1>9. CASE UNCHANGED vars
  BY <1>9 DEF vars, disk
<1> QED
  BY <1>1, <1>2, <1>3, <1>4, <1>5, <1>6, <1>7, <1>8, <1>9 DEF Next, Commit, World

\* An entry whose commit returned is there and survives a crash, until something
\* removes it.
THEOREM CommitsAreDurable == Spec => []CommitDurable
<1>1. Init => CommitDurable
  BY DEF Init, CommitDurable
<1>2. StoreInv => StoreTypes
  BY DEF StoreInv
<1> QED
  BY <1>1, <1>2, StepDurable, StoreInvariant, PTL DEF Spec

-----------------------------------------------------------------------------
(* An entry is what it was. *)

\* Whoever looks up a context twice finds the same snapshot, or none in between:
\* only a crash may bring back what the disk still held, and never of an entry
\* whose commit has returned (commit, reset_or_invalidate and maintain).
Replaced(c) == manifests[c] \in Snap /\ manifests'[c] \in Snap /\ manifests'[c] # manifests[c]
EntriesStay == [][\A c \in Context : Replaced(c) => Crash /\ c \notin acked]_vars

LEMMA StepEntries ==
  ASSUME StoreTypes, CommitDurable, [Next]_vars, NEW c \in Context, Replaced(c)
  PROVE  Crash /\ c \notin acked
<1> USE DEF StoreTypes
<1>1. ASSUME NEW p \in Publisher, PublishManifest(p)
      PROVE  FALSE
  <2>1. manifests[job[p].context] \in {None, job[p].snap}
        /\ manifests' = [manifests EXCEPT ![job[p].context] = job[p].snap]
    BY <1>1 DEF PublishManifest
  <2>2. job[p].context = c
    BY <2>1 DEF Replaced
  <2>3. manifests[c] # None
    BY OtherAssumption DEF Replaced
  <2> QED
    BY <2>1, <2>2, <2>3 DEF Replaced
<1>2. ASSUME NEW p \in Publisher, Commit(p), ~PublishManifest(p)
      PROVE  manifests' = manifests
  BY <1>2 DEF Commit, BeginCommit, LinkObject, LinkExists, Deduplicate, ObjectDiffers,
     ReplaceObject, SyncObjects, SyncManifest, FailCommit, Verified, disk
<1>3. ASSUME NEW r \in Reader, Restore(r)
      PROVE  manifests' = manifests
  BY <1>3 DEF Restore, OpenSnapshot, Preflight, ReadExact, OpenObject, ReadPiece,
     FinishObject, Finish, EndRead, ReaderOnly, disk
<1>4. ASSUME NEW o \in AllObjects, NEW d \in Contents, DamageObject(o, d)
      PROVE  manifests' = manifests
  BY <1>4 DEF DamageObject
<1>5. ASSUME NEW e \in Context, DamageManifest(e) \/ Invalidate(e)
      PROVE  FALSE
  <2>1. PICK m \in {None, Broken} : manifests' = [manifests EXCEPT ![e] = m]
    BY <1>5 DEF DamageManifest, Invalidate
  <2> QED
    BY <2>1, OtherAssumption DEF Replaced
<1>6. CASE Maintain
  <2>1. manifests' = manifests \/ \E C \in SUBSET Context :
          manifests' = [e \in Context |-> IF e \in C THEN None ELSE manifests[e]]
    BY <1>6 DEF Maintain
  <2> QED
    BY <2>1, OtherAssumption DEF Replaced
<1>7. CASE Crash
  <2>1. manifests'[c] = msynced[c]
    BY <1>7 DEF Crash, Replaced
  <2> QED
    BY <1>7, <2>1 DEF CommitDurable, Replaced
<1>8. CASE UNCHANGED vars
  BY <1>8 DEF vars, disk, Replaced
<1> QED
  BY <1>1, <1>2, <1>3, <1>4, <1>5, <1>6, <1>7, <1>8 DEF Next, World, Replaced

\* The snapshot of a context is never exchanged for another by any number of
\* publishers, readers and maintenance runs; an acknowledged one not even by a crash.
THEOREM EntriesAreStable == Spec => EntriesStay
<1>1. StoreTypes /\ CommitDurable /\ [Next]_vars
        => [\A c \in Context : Replaced(c) => Crash /\ c \notin acked]_vars
  BY StepEntries
<1>2. StoreInv => StoreTypes
  BY DEF StoreInv
<1> QED
  BY <1>1, <1>2, StoreInvariant, CommitsAreDurable, PTL DEF Spec, EntriesStay
=============================================================================
