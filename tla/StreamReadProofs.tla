-------------------------- MODULE StreamReadProofs --------------------------
(***************************************************************************)
(* Proofs about the readers of StreamStore: their arithmetic over objects,   *)
(* pieces and checksums, and that the store, publishers and readers together *)
(* implement AtomicStore.                                                    *)
(***************************************************************************)
EXTENDS StreamStoreProofs

-----------------------------------------------------------------------------
(* Where the objects of a snapshot start *)

LEMMA LeastFacts ==
  ASSUME NEW a \in Int, NEW b \in Int
  PROVE  /\ Least(a, b) \in Int /\ Least(a, b) <= a /\ Least(a, b) <= b
         /\ Least(a, b) = a \/ Least(a, b) = b
BY DEF Least

Start(s, i) == Least(Len(s), (i - 1) * ObjectUnits)

LEMMA StartFacts ==
  ASSUME NEW s \in Snap
  PROVE  /\ Len(s) \in Nat \ {0} /\ ObjectCount(s) \in Nat \ {0}
         /\ Start(s, 1) = 0 /\ Start(s, ObjectCount(s) + 1) = Len(s)
         /\ \A i \in 1 .. ObjectCount(s) :
              /\ Start(s, i) \in Nat /\ Start(s, i + 1) \in Nat
              /\ Start(s, i) < Start(s, i + 1) /\ Start(s, i + 1) <= Len(s)
              /\ Start(s, i + 1) - Start(s, i) <= ObjectUnits
              /\ Object(s, i) = SubSeq(s, Start(s, i) + 1, Start(s, i + 1))
<1> DEFINE L == Len(s)
           U == ObjectUnits
           N == ObjectCount(s)
<1>1. /\ L \in Nat \ {0} /\ N \in Nat \ {0} /\ U \in Nat \ {0}
      /\ (N - 1) * U < L /\ L <= N * U
  BY CountBounds, SizesAssumption
<1> HIDE DEF L, U, N
<1>2. Start(s, 1) = 0
  BY <1>1 DEF Start, Least, L, U
<1>3. Start(s, N + 1) = L
  <2>1. (N + 1) - 1 = N
    BY <1>1
  <2> QED
    BY <1>1, <2>1 DEF Start, Least, L, U
<1>4. ASSUME NEW i \in 1 .. N
      PROVE  /\ Start(s, i) \in Nat /\ Start(s, i + 1) \in Nat
             /\ Start(s, i) < Start(s, i + 1) /\ Start(s, i + 1) <= L
             /\ Start(s, i + 1) - Start(s, i) <= U
             /\ Object(s, i) = SubSeq(s, Start(s, i) + 1, Start(s, i + 1))
  <2>1. i \in Nat \ {0} /\ i - 1 \in Nat /\ i <= N /\ (i + 1) - 1 = i
    BY <1>1
  <2>2. (i - 1) * U <= (N - 1) * U
    BY <1>1, <2>1, Products
  <2>3. (i - 1) * U \in Nat /\ (N - 1) * U \in Nat /\ i * U = (i - 1) * U + U
    BY <1>1, <2>1
  <2>4. (i - 1) * U < L
    BY <1>1, <2>2, <2>3
  <2>5. Start(s, i) = (i - 1) * U
    BY <1>1, <2>3, <2>4 DEF Start, Least, L, U
  <2>6. Start(s, i + 1) = IF L < i * U THEN L ELSE i * U
    BY <2>1 DEF Start, Least, L, U
  <2>7. Object(s, i) = SubSeq(s, (i - 1) * U + 1, Start(s, i + 1))
    <3>1. Start(s, i + 1) = Least(L, i * U)
      BY <2>6 DEF Least
    <3> QED
      BY <3>1 DEF Object, L, U
  <2> QED
    BY <1>1, <2>3, <2>4, <2>5, <2>6, <2>7
<1> QED
  BY <1>1, <1>2, <1>3, <1>4 DEF L, U, N

LEMMA SnapSeq == \A s \in Snap : s \in Seq(Unit) /\ s \in Seq(Unit \cup {Broken})
<1>1. \A s \in Seq(Unit) : s \in Seq(Unit \cup {Broken})
  OBVIOUS
<1> QED
  BY <1>1, SnapAssumption

LEMMA ObjectFacts ==
  ASSUME NEW s \in Snap, NEW i \in 1 .. ObjectCount(s)
  PROVE  /\ Object(s, i) \in Seq(Unit)
         /\ Len(Object(s, i)) = Start(s, i + 1) - Start(s, i)
         /\ Len(Object(s, i)) \in 1 .. ObjectUnits
<1> DEFINE a == Start(s, i)
           b == Start(s, i + 1)
<1>1. /\ a \in Nat /\ b \in Nat /\ a < b /\ b <= Len(s) /\ b - a <= ObjectUnits
      /\ Object(s, i) = SubSeq(s, a + 1, b)
  BY StartFacts
<1> HIDE DEF a, b
<1>2. s \in Seq(Unit) /\ ObjectUnits \in Nat
  BY SnapSeq, SizesAssumption
<1>3. \A k \in a + 1 .. b : s[k] \in Unit
  <2>1. \A k \in a + 1 .. b : k \in 1 .. Len(s)
    BY <1>1, <1>2
  <2> QED
    BY <1>2, <2>1
<1>4. /\ SubSeq(s, a + 1, b) \in Seq(Unit)
      /\ Len(SubSeq(s, a + 1, b)) = IF a + 1 <= b THEN b - (a + 1) + 1 ELSE 0
  BY <1>1, <1>3, SubSeqProperties
<1>5. Len(Object(s, i)) = b - a /\ b - a \in 1 .. ObjectUnits
  BY <1>1, <1>2, <1>4
<1> QED
  BY <1>1, <1>4, <1>5 DEF a, b

-----------------------------------------------------------------------------
(* Where a reader is.  Len(got) is its _position, and the invariant ties it   *)
(* to the index of the object, the offset in it and what is left to read.     *)

ReadInv(r) ==
  /\ rd[r] # "reading" => file[r] = "closed"
  /\ rd[r] \in {"idle", "preflight"} => got[r] = <<>> /\ left[r] = 0 /\ offset[r] = 0
  /\ rd[r] = "idle" => index[r] = 1
  /\ rd[r] = "preflight" => index[r] \in 1 .. ObjectCount(want[r])
  /\ rd[r] = "reading" =>
       /\ index[r] \in 1 .. ObjectCount(want[r]) + 1
       /\ Len(got[r]) = Start(want[r], index[r]) + offset[r]
       /\ Len(got[r]) + left[r] <= Len(want[r])
       /\ IF file[r] = "closed" THEN offset[r] = 0
          ELSE index[r] <= ObjectCount(want[r]) /\ offset[r] <= Len(Here(r))
  /\ rd[r] = "restored" => got[r] = want[r]

ReaderInv == ReaderTypes /\ \A r \in Reader : ReadInv(r)

LEMMA InitReader == Init => ReaderInv
<1> SUFFICES ASSUME Init PROVE ReaderInv
  OBVIOUS
<1>1. None \notin Snap
  BY OtherAssumption
<1>2. <<>> \in Seq(Unit \cup {Broken}) /\ 0 \in 0 .. ObjectUnits /\ 0 \in 0 .. ChunkUnits
  BY SizesAssumption
<1>3. ReaderTypes
  BY <1>1, <1>2 DEF Init, ReaderTypes
<1>4. \A r \in Reader : ReadInv(r)
  BY DEF Init, ReadInv
<1> QED
  BY <1>3, <1>4 DEF ReaderInv

\* What the reader has at hand while it is at work.
LEMMA HereFacts ==
  ASSUME ReaderInv, NEW r \in Reader, rd[r] # "idle", index[r] <= ObjectCount(want[r])
  PROVE  /\ want[r] \in Snap /\ index[r] \in 1 .. ObjectCount(want[r])
         /\ Here(r) \in Objects(want[r]) /\ Here(r) \in AllObjects
         /\ Here(r) \in Seq(Unit) /\ Len(Here(r)) \in 1 .. ObjectUnits
         /\ Len(Here(r)) = Start(want[r], index[r] + 1) - Start(want[r], index[r])
<1>1. want[r] \in Snap /\ index[r] \in Nat \ {0}
  BY DEF ReaderInv, ReaderTypes
<1>2. index[r] \in 1 .. ObjectCount(want[r])
  BY <1>1, CountBounds
<1> QED
  BY <1>1, <1>2, ObjectIn, ObjectFacts DEF Here

\* A reader with more to read has not passed the last object.
LEMMA MoreToRead ==
  ASSUME ReaderInv, NEW r \in Reader, rd[r] = "reading", Len(got[r]) < Len(want[r])
  PROVE  index[r] <= ObjectCount(want[r])
<1>1. /\ index[r] \in 1 .. ObjectCount(want[r]) + 1 /\ want[r] \in Snap
      /\ Len(got[r]) = Start(want[r], index[r]) + offset[r]
      /\ offset[r] \in Nat
  BY SizesAssumption DEF ReaderInv, ReaderTypes, ReadInv
<1>2. ObjectCount(want[r]) \in Nat /\ Start(want[r], ObjectCount(want[r]) + 1) = Len(want[r])
      /\ Len(want[r]) \in Nat
  BY <1>1, StartFacts
<1>3. index[r] # ObjectCount(want[r]) + 1
  <2>1. SUFFICES ASSUME index[r] = ObjectCount(want[r]) + 1 PROVE FALSE
    OBVIOUS
  <2>2. Len(got[r]) = Len(want[r]) + offset[r]
    BY <1>1, <1>2, <2>1
  <2> QED
    BY <1>1, <1>2, <2>2
<1> QED
  BY <1>1, <1>2, <1>3

LEMMA ReaderFrame ==
  ASSUME NEW r \in Reader, ReadInv(r),
         rd'[r] = rd[r], want'[r] = want[r], index'[r] = index[r], offset'[r] = offset[r],
         left'[r] = left[r], got'[r] = got[r], (file'[r] = "closed") <=> (file[r] = "closed")
  PROVE  ReadInv(r)'
BY DEF ReadInv, Here, Start, Least, Object, ObjectCount

LEMMA CloseKeeps ==
  ASSUME ReaderInv, NEW r \in Reader, rd[r] # "idle", Close(r), fault' \in [Reader -> BOOLEAN]
  PROVE  ReaderInv'
<1>1. <<>> \in Seq(Unit \cup {Broken}) /\ 0 \in 0 .. ObjectUnits /\ 0 \in 0 .. ChunkUnits
  BY SizesAssumption
<1>2. ReaderTypes'
  <2>1. ReaderTypes
    BY DEF ReaderInv
  <2>2. /\ rd' = [rd EXCEPT ![r] = "missed"] /\ want' = want
        /\ index' = [index EXCEPT ![r] = 1] /\ offset' = [offset EXCEPT ![r] = 0]
        /\ left' = [left EXCEPT ![r] = 0] /\ file' = [file EXCEPT ![r] = "closed"]
        /\ got' = [got EXCEPT ![r] = <<>>]
    BY DEF Close
  <2>3. \A q \in Reader : (want'[q] = None) <=> (rd'[q] = "idle")
    BY <2>1, <2>2 DEF ReaderTypes
  <2>4. got' \in [Reader -> Seq(Unit \cup {Broken})]
    BY <1>1, <2>1, <2>2 DEF ReaderTypes
  <2>5. /\ offset' \in [Reader -> 0 .. ObjectUnits] /\ left' \in [Reader -> 0 .. ChunkUnits]
        /\ index' \in [Reader -> Nat \ {0}]
    BY <1>1, <2>1, <2>2 DEF ReaderTypes
  <2> QED
    BY <2>1, <2>2, <2>3, <2>4, <2>5 DEF ReaderTypes
<1>3. ReadInv(r)'
  BY DEF Close, ReaderInv, ReaderTypes, ReadInv
<1>4. ASSUME NEW q \in Reader, q # r PROVE ReadInv(q)'
  <2>1. /\ rd'[q] = rd[q] /\ want'[q] = want[q] /\ index'[q] = index[q] /\ offset'[q] = offset[q]
        /\ left'[q] = left[q] /\ got'[q] = got[q] /\ file'[q] = file[q]
    BY <1>4 DEF Close, ReaderInv, ReaderTypes
  <2> QED
    BY <2>1, ReaderFrame DEF ReaderInv
<1> QED
  BY <1>2, <1>3, <1>4 DEF ReaderInv

\* A step of one reader leaves the others where they are.
LEMMA OthersKept ==
  ASSUME ReaderInv, NEW r \in Reader,
         \A q \in Reader \ {r} :
           /\ rd'[q] = rd[q] /\ want'[q] = want[q] /\ index'[q] = index[q]
           /\ offset'[q] = offset[q] /\ left'[q] = left[q] /\ got'[q] = got[q]
           /\ file'[q] = file[q],
         ReaderTypes', ReadInv(r)'
  PROVE  ReaderInv'
<1>1. ASSUME NEW q \in Reader, q # r PROVE ReadInv(q)'
  BY <1>1, ReaderFrame DEF ReaderInv
<1> QED
  BY <1>1 DEF ReaderInv

LEMMA OpenSnapshotKeeps ==
  ASSUME ReaderInv, StoreTypes, NEW r \in Reader, OpenSnapshot(r)
  PROVE  ReaderInv'
<1>t. ReaderTypes
  BY DEF ReaderInv
<1>1. PICK c \in Context :
        /\ rd[r] = "idle" /\ manifests[c] \in Snap
        /\ want' = [want EXCEPT ![r] = manifests[c]]
        /\ fault' \in [Reader -> BOOLEAN]
        /\ rd' = [rd EXCEPT ![r] = "preflight"]
        /\ UNCHANGED <<index, offset, left, file, got>>
  BY <1>t DEF OpenSnapshot, ReaderTypes
<1>2. ReaderTypes'
  BY <1>t, <1>1, OtherAssumption DEF ReaderTypes
<1>3. ReadInv(r)'
  <2>1. ReadInv(r) /\ 1 \in 1 .. ObjectCount(manifests[c])
    BY <1>1, CountBounds DEF ReaderInv
  <2> QED
    BY <1>t, <1>1, <2>1 DEF ReadInv, ReaderTypes
<1> QED
  BY <1>t, <1>1, <1>2, <1>3, OthersKept DEF ReaderTypes

LEMMA PreflightKeeps ==
  ASSUME ReaderInv, NEW r \in Reader, Preflight(r)
  PROVE  ReaderInv'
<1>t. ReaderTypes /\ ReadInv(r) /\ rd[r] = "preflight"
  BY DEF ReaderInv, Preflight
<1>1. CASE Reject(r)
  BY <1>1, <1>t, CloseKeeps DEF Reject, ReaderTypes
<1>2. CASE /\ IF index[r] = ObjectCount(want[r])
              THEN rd' = [rd EXCEPT ![r] = "reading"] /\ index' = [index EXCEPT ![r] = 1]
              ELSE index' = [index EXCEPT ![r] = @ + 1] /\ UNCHANGED rd
           /\ UNCHANGED <<want, offset, left, file, got, fault>>
  <2>0. /\ want[r] \in Snap /\ ObjectCount(want[r]) \in Nat \ {0} /\ Start(want[r], 1) = 0
        /\ Len(want[r]) \in Nat /\ index[r] \in 1 .. ObjectCount(want[r])
    BY <1>t, StartFacts DEF ReaderTypes, ReadInv
  <2>1. CASE index[r] = ObjectCount(want[r])
    <3>1. rd' = [rd EXCEPT ![r] = "reading"] /\ index' = [index EXCEPT ![r] = 1]
      BY <1>2, <2>1
    <3>2. ReaderTypes'
      BY <1>t, <1>2, <3>1 DEF ReaderTypes
    <3>3. Len(<<>>) = 0 /\ 1 \in 1 .. ObjectCount(want[r]) + 1
      BY <2>0
    <3>4. ReadInv(r)'
      BY <1>t, <1>2, <2>0, <3>1, <3>3 DEF ReadInv, ReaderTypes
    <3> QED
      BY <1>t, <1>2, <3>1, <3>2, <3>4, OthersKept DEF ReaderTypes
  <2>2. CASE index[r] # ObjectCount(want[r])
    <3>1. rd' = rd /\ index' = [index EXCEPT ![r] = index[r] + 1]
      BY <1>2, <2>2
    <3>2. index[r] + 1 \in 1 .. ObjectCount(want[r]) /\ index[r] + 1 \in Nat \ {0}
      BY <2>0, <2>2
    <3>3. ReaderTypes'
      BY <1>t, <1>2, <3>1, <3>2 DEF ReaderTypes
    <3>4. ReadInv(r)'
      BY <1>t, <1>2, <3>1, <3>2 DEF ReadInv, ReaderTypes
    <3> QED
      BY <1>t, <1>2, <3>1, <3>3, <3>4, OthersKept DEF ReaderTypes
  <2> QED
    BY <2>1, <2>2
<1> QED
  BY <1>1, <1>2 DEF Preflight

LEMMA ReadExactKeeps ==
  ASSUME ReaderInv, NEW r \in Reader, ReadExact(r)
  PROVE  ReaderInv'
<1>t. ReaderTypes /\ ReadInv(r) /\ rd[r] = "reading" /\ want[r] \in Snap
  BY DEF ReaderInv, ReadExact, Between, ReaderTypes
<1>1. PICK size \in 1 .. Least(ChunkUnits, Len(want[r]) - Len(got[r])) :
        left' = [left EXCEPT ![r] = size]
  BY DEF ReadExact
<1>2. UNCHANGED <<rd, want, index, offset, file, got, fault>>
  BY DEF ReadExact
<1>3. Len(want[r]) \in Nat /\ Len(got[r]) \in Nat /\ ChunkUnits \in Nat
  BY <1>t, CountBounds, SizesAssumption DEF ReaderTypes
<1>4. size \in 0 .. ChunkUnits /\ Len(got[r]) + size <= Len(want[r])
  <2>1. \A c, w, g \in Nat : \A k \in 1 .. Least(c, w - g) : k \in 0 .. c /\ g + k <= w
    BY DEF Least
  <2> QED
    BY <1>1, <1>3, <2>1
<1>5. ReaderTypes'
  BY <1>t, <1>1, <1>2, <1>4 DEF ReaderTypes
<1>6. ReadInv(r)'
  <2>1. left'[r] = size
    BY <1>t, <1>1 DEF ReaderTypes
  <2>2. Here(r)' = Here(r)
    BY <1>2 DEF Here
  <2> QED
    BY <1>t, <1>2, <1>4, <2>1, <2>2 DEF ReadInv
<1> QED
  BY <1>t, <1>1, <1>2, <1>5, <1>6, OthersKept DEF ReaderTypes

LEMMA OpenObjectKeeps ==
  ASSUME ReaderInv, NEW r \in Reader, OpenObject(r)
  PROVE  ReaderInv'
<1>t. ReaderTypes /\ ReadInv(r) /\ rd[r] = "reading" /\ left[r] > 0 /\ file[r] = "closed"
  BY DEF ReaderInv, OpenObject
<1>1. CASE Reject(r)
  BY <1>1, <1>t, CloseKeeps DEF Reject, ReaderTypes
<1>2. CASE /\ file' = [file EXCEPT ![r] = "linked"]
           /\ offset' = [offset EXCEPT ![r] = 0]
           /\ UNCHANGED <<rd, want, index, left, got, fault>>
  <2>1. want[r] \in Snap /\ Len(want[r]) \in Nat /\ Len(got[r]) \in Nat /\ left[r] \in Nat
    BY <1>t, CountBounds, SizesAssumption DEF ReaderTypes
  <2>2. Len(got[r]) < Len(want[r])
    BY <1>t, <2>1 DEF ReadInv
  <2>3. index[r] <= ObjectCount(want[r]) /\ 0 <= Len(Here(r)) /\ 0 \in 0 .. ObjectUnits
    BY <1>t, <2>2, MoreToRead, HereFacts, SizesAssumption
  <2>4. ReaderTypes'
    BY <1>t, <1>2, <2>3 DEF ReaderTypes
  <2>5. ReadInv(r)'
    <3>1. file'[r] = "linked" /\ offset'[r] = 0 /\ offset[r] = 0
      BY <1>t, <1>2 DEF ReaderTypes, ReadInv
    <3>2. Here(r)' = Here(r)
      BY <1>2 DEF Here
    <3> QED
      BY <1>t, <1>2, <2>3, <3>1, <3>2 DEF ReadInv
  <2> QED
    BY <1>t, <1>2, <2>4, <2>5, OthersKept DEF ReaderTypes
<1> QED
  BY <1>1, <1>2 DEF OpenObject

\* A piece has as many units as read_exact counts, at least one and none past
\* the end of the object.
LEMMA PieceFacts ==
  ASSUME ReaderInv, NEW r \in Reader, rd[r] = "reading", left[r] > 0, file[r] # "closed",
         ~ObjectRead(r)
  PROVE  /\ Count(r) \in Nat \ {0} /\ Count(r) <= left[r]
         /\ offset[r] + Count(r) <= Len(Here(r))
         /\ \A piece \in Piece(r) : piece \in Seq(Unit \cup {Broken}) /\ Len(piece) = Count(r)
<1>1. /\ index[r] <= ObjectCount(want[r]) /\ offset[r] <= Len(Here(r))
      /\ offset[r] \in Nat /\ left[r] \in Nat \ {0}
  BY SizesAssumption DEF ReaderInv, ReadInv, ReaderTypes
<1>2. Here(r) \in Seq(Unit) /\ Len(Here(r)) \in Nat /\ offset[r] # Len(Here(r))
  BY <1>1, HereFacts, SizesAssumption DEF ObjectRead
<1>3. /\ Count(r) \in Nat \ {0} /\ Count(r) <= left[r]
      /\ offset[r] + Count(r) <= Len(Here(r))
  <2>1. \A l \in Nat \ {0} : \A o, n \in Nat :
          o <= n /\ o # n => /\ Least(l, n - o) \in Nat \ {0} /\ Least(l, n - o) <= l
                             /\ o + Least(l, n - o) <= n
    BY DEF Least
  <2> QED
    BY <1>1, <1>2, <2>1 DEF Count
<1>4. DEFINE right == SubSeq(Here(r), offset[r] + 1, offset[r] + Count(r))
<1>5. right \in Seq(Unit \cup {Broken}) /\ Len(right) = Count(r)
  <2>1. \A k \in offset[r] + 1 .. offset[r] + Count(r) : Here(r)[k] \in Unit \cup {Broken}
    <3>1. \A k \in offset[r] + 1 .. offset[r] + Count(r) : k \in 1 .. Len(Here(r))
      BY <1>1, <1>2, <1>3
    <3> QED
      BY <1>2, <3>1
  <2>2. /\ right \in Seq(Unit \cup {Broken})
        /\ Len(right) = IF offset[r] + 1 <= offset[r] + Count(r)
                        THEN offset[r] + Count(r) - (offset[r] + 1) + 1 ELSE 0
    BY <1>1, <1>3, <2>1, SubSeqProperties
  <2>3. \A o \in Nat, n \in Nat \ {0} : o + 1 <= o + n /\ o + n - (o + 1) + 1 = n
    OBVIOUS
  <2>4. /\ offset[r] + 1 <= offset[r] + Count(r)
        /\ offset[r] + Count(r) - (offset[r] + 1) + 1 = Count(r)
    BY <1>1, <1>3, <2>3
  <2> HIDE DEF right
  <2> QED
    BY <2>2, <2>4
<1>6. DEFINE wrong == [i \in 1 .. Count(r) |-> Broken]
<1>7. wrong \in Seq(Unit \cup {Broken}) /\ Len(wrong) = Count(r)
  BY <1>3
<1> QED
  BY <1>3, <1>5, <1>7 DEF Piece

LEMMA ReadPieceKeeps ==
  ASSUME ReaderInv, NEW r \in Reader, ReadPiece(r)
  PROVE  ReaderInv'
<1>t. /\ ReaderTypes /\ ReadInv(r)
      /\ rd[r] = "reading" /\ left[r] > 0 /\ file[r] # "closed" /\ ~ObjectRead(r)
  BY DEF ReaderInv, ReadPiece
<1>1. CASE Reject(r)
  BY <1>1, <1>t, CloseKeeps DEF Reject, ReaderTypes
<1>2. CASE /\ \E piece \in Piece(r) : got' = [got EXCEPT ![r] = @ \o piece]
           /\ offset' = [offset EXCEPT ![r] = @ + Count(r)]
           /\ left' = [left EXCEPT ![r] = @ - Count(r)]
           /\ UNCHANGED <<rd, want, index, file, fault>>
  <2>1. PICK piece \in Piece(r) : got' = [got EXCEPT ![r] = got[r] \o piece]
    BY <1>2
  <2>2. /\ Count(r) \in Nat \ {0} /\ Count(r) <= left[r]
        /\ offset[r] + Count(r) <= Len(Here(r))
        /\ piece \in Seq(Unit \cup {Broken}) /\ Len(piece) = Count(r)
    BY <1>t, PieceFacts
  <2>3. /\ want[r] \in Snap /\ index[r] \in 1 .. ObjectCount(want[r])
        /\ Len(Here(r)) \in 1 .. ObjectUnits /\ ObjectUnits \in Nat /\ ChunkUnits \in Nat
    BY <1>t, HereFacts, SizesAssumption DEF ReadInv
  <2>4. /\ got[r] \in Seq(Unit \cup {Broken}) /\ offset[r] \in Nat /\ left[r] \in 0 .. ChunkUnits
        /\ Start(want[r], index[r]) \in Nat /\ Len(want[r]) \in Nat
    <3>1. got[r] \in Seq(Unit \cup {Broken}) /\ left[r] \in 0 .. ChunkUnits
      BY <1>t DEF ReaderTypes
    <3>2. offset[r] \in Nat
      BY <1>t, <2>3 DEF ReaderTypes
    <3>3. Start(want[r], index[r]) \in Nat /\ Len(want[r]) \in Nat
      BY <2>3, StartFacts
    <3> QED
      BY <3>1, <3>2, <3>3
  <2>5. /\ got[r] \o piece \in Seq(Unit \cup {Broken})
        /\ Len(got[r] \o piece) = Len(got[r]) + Count(r)
    <3>1. \A S : \A s, q \in Seq(S) : s \o q \in Seq(S) /\ Len(s \o q) = Len(s) + Len(q)
      BY ConcatProperties
    <3> QED
      BY <2>2, <2>4, <3>1
  <2>6. offset[r] + Count(r) \in 0 .. ObjectUnits /\ left[r] - Count(r) \in 0 .. ChunkUnits
    <3>1. /\ Count(r) \in Nat /\ offset[r] \in Nat /\ Len(Here(r)) \in Nat
          /\ Len(Here(r)) <= ObjectUnits /\ ObjectUnits \in Nat
      BY <2>2, <2>3, <2>4
    <3>2. left[r] \in Nat /\ left[r] <= ChunkUnits /\ ChunkUnits \in Nat
      BY <2>3, <2>4
    <3>3. \A a, b, c, d \in Nat : a + b <= c /\ c <= d => a + b \in 0 .. d
      OBVIOUS
    <3>4. \A a, b, c \in Nat : b <= a /\ a <= c => a - b \in 0 .. c
      OBVIOUS
    <3> QED
      BY <2>2, <3>1, <3>2, <3>3, <3>4
  <2>7. /\ got'[r] = got[r] \o piece /\ offset'[r] = offset[r] + Count(r)
        /\ left'[r] = left[r] - Count(r)
    BY <1>t, <1>2, <2>1 DEF ReaderTypes
  <2>8. ReaderTypes'
    BY <1>t, <1>2, <2>1, <2>5, <2>6 DEF ReaderTypes
  <2>9. ReadInv(r)'
    <3>1. Here(r)' = Here(r)
      BY <1>2 DEF Here
    <3>2. /\ Len(got[r]) = Start(want[r], index[r]) + offset[r]
          /\ Len(got[r]) + left[r] <= Len(want[r]) /\ Len(got[r]) \in Nat
      BY <1>t, <2>4 DEF ReadInv
    <3>3. /\ Len(got'[r]) = Start(want[r], index[r]) + offset'[r]
          /\ Len(got'[r]) + left'[r] <= Len(want[r])
      <4>1. \A g, a, o, l, w, k \in Nat :
              g = a + o /\ g + l <= w => g + k = a + (o + k) /\ (g + k) + (l - k) <= w
        OBVIOUS
      <4>2. left[r] \in Nat
        BY <2>4, SizesAssumption
      <4>3. /\ Len(got[r]) + Count(r) = Start(want[r], index[r]) + (offset[r] + Count(r))
            /\ (Len(got[r]) + Count(r)) + (left[r] - Count(r)) <= Len(want[r])
        BY <2>2, <2>4, <3>2, <4>1, <4>2
      <4> QED
        BY <2>5, <2>7, <4>3
    <3>4. rd' = rd /\ want' = want /\ index' = index /\ file' = file
      BY <1>2
    <3> QED
      BY <1>t, <2>2, <2>3, <2>7, <3>1, <3>3, <3>4 DEF ReadInv
  <2> QED
    BY <1>t, <1>2, <2>1, <2>8, <2>9, OthersKept DEF ReaderTypes
<1> QED
  BY <1>1, <1>2 DEF ReadPiece

LEMMA FinishObjectKeeps ==
  ASSUME ReaderInv, NEW r \in Reader, FinishObject(r)
  PROVE  ReaderInv'
<1>t. /\ ReaderTypes /\ ReadInv(r)
      /\ rd[r] = "reading" /\ file[r] # "closed" /\ offset[r] = Len(Here(r))
  BY DEF ReaderInv, FinishObject, ObjectRead
<1>1. CASE Reject(r)
  BY <1>1, <1>t, CloseKeeps DEF Reject, ReaderTypes
<1>2. CASE /\ index' = [index EXCEPT ![r] = @ + 1]
           /\ offset' = [offset EXCEPT ![r] = 0] /\ file' = [file EXCEPT ![r] = "closed"]
           /\ UNCHANGED <<rd, want, left, got, fault>>
  <2>1. /\ want[r] \in Snap /\ index[r] \in 1 .. ObjectCount(want[r])
        /\ ObjectCount(want[r]) \in Nat
        /\ Len(Here(r)) = Start(want[r], index[r] + 1) - Start(want[r], index[r])
        /\ Start(want[r], index[r] + 1) \in Nat /\ Start(want[r], index[r]) \in Nat
    BY <1>t, HereFacts, StartFacts DEF ReadInv
  <2>2. /\ index[r] + 1 \in 1 .. ObjectCount(want[r]) + 1 /\ index[r] + 1 \in Nat \ {0}
        /\ 0 \in 0 .. ObjectUnits
    BY <2>1, SizesAssumption
  <2>3. Len(got[r]) = Start(want[r], index[r] + 1) + 0
    BY <1>t, <2>1 DEF ReadInv
  <2>4. ReaderTypes'
    BY <1>t, <1>2, <2>2 DEF ReaderTypes
  <2>5. index'[r] = index[r] + 1 /\ offset'[r] = 0 /\ file'[r] = "closed"
    BY <1>t, <1>2 DEF ReaderTypes
  <2>6. ReadInv(r)'
    <3>1. /\ index'[r] \in 1 .. ObjectCount(want[r]) + 1
          /\ Len(got[r]) = Start(want[r], index'[r]) + offset'[r]
      BY <2>2, <2>3, <2>5
    <3> QED
      BY <1>t, <1>2, <2>5, <3>1 DEF ReadInv
  <2> QED
    BY <1>t, <1>2, <2>4, <2>6, OthersKept DEF ReaderTypes
<1> QED
  BY <1>1, <1>2 DEF FinishObject

LEMMA FinishKeeps ==
  ASSUME ReaderInv, NEW r \in Reader, Finish(r)
  PROVE  ReaderInv'
<1>t. ReaderTypes /\ ReadInv(r) /\ rd[r] = "reading"
  BY DEF ReaderInv, Finish, Between
<1>1. CASE Close(r) /\ fault' = [fault EXCEPT ![r] = @ \/ Len(got[r]) < Len(want[r])]
  <2>1. fault' \in [Reader -> BOOLEAN]
    BY <1>t, <1>1 DEF ReaderTypes
  <2> QED
    BY <1>1, <1>t, <2>1, CloseKeeps
<1>2. CASE /\ file[r] = "closed" /\ got[r] = want[r]
           /\ rd' = [rd EXCEPT ![r] = "restored"]
           /\ UNCHANGED <<want, index, offset, left, file, got, fault>>
  <2>1. ReaderTypes'
    BY <1>t, <1>2 DEF ReaderTypes
  <2>2. ReadInv(r)'
    BY <1>t, <1>2 DEF ReadInv, ReaderTypes
  <2> QED
    BY <1>t, <1>2, <2>1, <2>2, OthersKept DEF ReaderTypes
<1> QED
  BY <1>1, <1>2 DEF Finish

LEMMA EndReadKeeps ==
  ASSUME ReaderInv, NEW r \in Reader, EndRead(r)
  PROVE  ReaderInv'
<1>t. ReaderTypes
  BY DEF ReaderInv
<1>1. /\ rd' = [rd EXCEPT ![r] = "idle"] /\ want' = [want EXCEPT ![r] = None]
      /\ index' = [index EXCEPT ![r] = 1] /\ offset' = [offset EXCEPT ![r] = 0]
      /\ left' = [left EXCEPT ![r] = 0] /\ file' = [file EXCEPT ![r] = "closed"]
      /\ got' = [got EXCEPT ![r] = <<>>] /\ fault' = [fault EXCEPT ![r] = FALSE]
  BY DEF EndRead
<1>2. <<>> \in Seq(Unit \cup {Broken}) /\ 0 \in 0 .. ObjectUnits /\ 0 \in 0 .. ChunkUnits
  BY SizesAssumption
<1>3. ReaderTypes'
  <2>1. \A q \in Reader : (want'[q] = None) <=> (rd'[q] = "idle")
    BY <1>t, <1>1 DEF ReaderTypes
  <2>2. got' \in [Reader -> Seq(Unit \cup {Broken})]
    BY <1>t, <1>1, <1>2 DEF ReaderTypes
  <2>3. /\ offset' \in [Reader -> 0 .. ObjectUnits] /\ left' \in [Reader -> 0 .. ChunkUnits]
        /\ index' \in [Reader -> Nat \ {0}] /\ want' \in [Reader -> Snap \cup {None}]
    BY <1>t, <1>1, <1>2 DEF ReaderTypes
  <2> QED
    BY <1>t, <1>1, <2>1, <2>2, <2>3 DEF ReaderTypes
<1>4. ReadInv(r)'
  BY <1>t, <1>1 DEF ReadInv, ReaderTypes
<1> QED
  BY <1>t, <1>1, <1>3, <1>4, OthersKept DEF ReaderTypes

\* What the rest of the system does to a reader: a descriptor that was opened by
\* name may lose the name, and a damage may be on record.
LEMMA OutsideKeeps ==
  ASSUME ReaderInv, StoreTypes,
         UNCHANGED <<rd, want, index, offset, left, got>>,
         fault' \in [Reader -> BOOLEAN],
         file' = file \/ \E O \in SUBSET AllObjects : Detach(O)
  PROVE  ReaderInv'
<1>t. ReaderTypes
  BY DEF ReaderInv
<1>1. ASSUME NEW r \in Reader
      PROVE  /\ file'[r] \in {"closed", "linked"} \cup Contents
             /\ (file'[r] = "closed") <=> (file[r] = "closed")
  <2>1. CASE file' = file
    BY <1>t, <2>1 DEF ReaderTypes
  <2>2. ASSUME NEW O \in SUBSET AllObjects, Detach(O)
        PROVE  /\ file'[r] \in {"closed", "linked"} \cup Contents
               /\ (file'[r] = "closed") <=> (file[r] = "closed")
    <3>1. file'[r] = IF file[r] = "linked" /\ Here(r) \in O THEN chunks[Here(r)] ELSE file[r]
      BY <2>2 DEF Detach
    <3>2. Here(r) \in O => chunks[Here(r)] \in Contents
      BY DEF StoreTypes
    <3> QED
      BY <1>t, <3>1, <3>2 DEF ReaderTypes, Contents
  <2> QED
    BY <2>1, <2>2
<1>2. file' \in [Reader -> {"closed", "linked"} \cup Contents]
  <2>1. \/ file' = file
        \/ \E O \in SUBSET AllObjects : file' = [r \in Reader |->
             IF file[r] = "linked" /\ Here(r) \in O THEN chunks[Here(r)] ELSE file[r]]
    BY DEF Detach
  <2> QED
    BY <1>t, <1>1, <2>1 DEF ReaderTypes
<1>3. ReaderTypes'
  BY <1>t, <1>2 DEF ReaderTypes
<1>4. ASSUME NEW r \in Reader PROVE ReadInv(r)'
  BY <1>1, ReaderFrame DEF ReaderInv
<1> QED
  BY <1>3, <1>4 DEF ReaderInv

LEMMA SpoilTypes ==
  ASSUME ReaderTypes, NEW O, Spoil(O)
  PROVE  fault' \in [Reader -> BOOLEAN]
BY DEF Spoil, ReaderTypes

\* A step of a publisher, or of the world short of a crash, is of that kind.
LEMMA CommitOutside ==
  ASSUME StoreTypes, NEW p \in Publisher, Commit(p)
  PROVE  /\ UNCHANGED <<rd, want, index, offset, left, got, fault>>
         /\ file' = file \/ (ReplaceObject(p) /\ Detach({Current(p)}))
BY DEF Commit, BeginCommit, LinkObject, LinkExists, Deduplicate, ObjectDiffers, ReplaceObject,
   SyncObjects, PublishManifest, SyncManifest, FailCommit, Verified, readers

LEMMA CommitKeeps ==
  ASSUME ReaderInv, StoreTypes, NEW p \in Publisher, Commit(p)
  PROVE  ReaderInv'
<1>1. ReplaceObject(p) => {Current(p)} \in SUBSET AllObjects
  BY CurrentIn DEF ReplaceObject, Busy
<1>2. fault' \in [Reader -> BOOLEAN]
  BY CommitOutside DEF ReaderInv, ReaderTypes
<1> QED
  BY <1>1, <1>2, CommitOutside, OutsideKeeps

LEMMA WorldKeeps ==
  ASSUME ReaderInv, StoreTypes, World
  PROVE  ReaderInv'
<1>1. ASSUME NEW o \in AllObjects, NEW d \in Contents, DamageObject(o, d) PROVE ReaderInv'
  <2>1. /\ UNCHANGED <<rd, want, index, offset, left, got>> /\ Spoil({o})
        /\ file' = file \/ Detach({o})
    BY <1>1 DEF DamageObject
  <2>2. fault' \in [Reader -> BOOLEAN] /\ {o} \in SUBSET AllObjects
    BY <2>1, SpoilTypes DEF ReaderInv
  <2> QED
    BY <2>1, <2>2, OutsideKeeps
<1>2. ASSUME NEW c \in Context, DamageManifest(c) \/ Invalidate(c) PROVE ReaderInv'
  <2>1. UNCHANGED readers
    BY <1>2 DEF DamageManifest, Invalidate
  <2> QED
    BY <2>1, OutsideKeeps DEF readers, ReaderInv, ReaderTypes
<1>3. CASE Maintain
  <2>1. PICK O \in SUBSET AllObjects : Spoil(O) /\ Detach(O)
    BY <1>3 DEF Maintain
  <2>2. UNCHANGED <<rd, want, index, offset, left, got>>
    BY <1>3 DEF Maintain
  <2>3. fault' \in [Reader -> BOOLEAN]
    BY <2>1, SpoilTypes DEF ReaderInv
  <2> QED
    BY <2>1, <2>2, <2>3, OutsideKeeps
<1>4. CASE Crash
  <2>1. /\ rd' = [r \in Reader |-> "idle"] /\ want' = [r \in Reader |-> None]
        /\ index' = [r \in Reader |-> 1] /\ offset' = [r \in Reader |-> 0]
        /\ left' = [r \in Reader |-> 0] /\ file' = [r \in Reader |-> "closed"]
        /\ got' = [r \in Reader |-> <<>>] /\ fault' = [r \in Reader |-> FALSE]
    BY <1>4 DEF Crash
  <2>2. <<>> \in Seq(Unit \cup {Broken}) /\ 0 \in 0 .. ObjectUnits /\ 0 \in 0 .. ChunkUnits
    BY SizesAssumption
  <2>3. ReaderTypes'
    BY <2>1, <2>2 DEF ReaderTypes
  <2>4. \A r \in Reader : ReadInv(r)'
    BY <2>1 DEF ReadInv
  <2> QED
    BY <2>3, <2>4 DEF ReaderInv
<1> QED
  BY <1>1, <1>2, <1>3, <1>4 DEF World

LEMMA StepReader == StoreTypes /\ ReaderInv /\ [Next]_vars => ReaderInv'
<1> SUFFICES ASSUME StoreTypes, ReaderInv, [Next]_vars PROVE ReaderInv'
  OBVIOUS
<1>1. ASSUME NEW r \in Reader, Restore(r) PROVE ReaderInv'
  BY <1>1, OpenSnapshotKeeps, PreflightKeeps, ReadExactKeeps, OpenObjectKeeps, ReadPieceKeeps,
     FinishObjectKeeps, FinishKeeps, EndReadKeeps DEF Restore
<1>2. CASE UNCHANGED vars
  <2>1. UNCHANGED readers
    BY <1>2 DEF vars
  <2> QED
    BY <2>1, OutsideKeeps DEF readers, ReaderInv, ReaderTypes
<1> QED
  BY <1>1, <1>2, CommitKeeps, WorldKeeps DEF Next

\* The inductive invariant of the readers: how much has been delivered is what the
\* objects finished and the offset in the open one add up to, never more than the
\* snapshot, and a restore that succeeded delivered the snapshot.
THEOREM ReaderInvariant == Spec => []ReaderInv
<1>1. StoreInv => StoreTypes
  BY DEF StoreInv
<1> QED
  BY <1>1, InitReader, StepReader, StoreInvariant, PTL DEF Spec

\* The store, publishers and readers keep their types: no object past the last, no
\* offset past the end of an object, no read past the size asked for.
THEOREM TypesHold == Spec => []TypeOK
<1>1. StoreInv /\ ReaderInv => TypeOK
  BY DEF StoreInv, ReaderInv, TypeOK
<1> QED
  BY <1>1, StoreInvariant, ReaderInvariant, PTL

-----------------------------------------------------------------------------
(* As long as nothing was damaged or evicted under it, what a reader has       *)
(* received is the beginning of the snapshot.                                  *)

Prefix(s, n) == SubSeq(s, 1, n)

SoundInv(r) ==
  rd[r] # "idle" /\ ~fault[r] =>
    /\ rd[r] # "missed"
    /\ \A o \in Objects(want[r]) : chunks[o] = "good"
    /\ file[r] \in {"closed", "linked", "good"}
    /\ rd[r] = "reading" => got[r] = Prefix(want[r], Len(got[r]))

ReadersSound == \A r \in Reader : SoundInv(r)

LEMMA PrefixFacts ==
  ASSUME NEW s \in Snap
  PROVE  /\ Prefix(s, 0) = <<>> /\ Prefix(s, Len(s)) = s
         /\ \A a, b \in 0 .. Len(s) : a <= b =>
              /\ Len(Prefix(s, b)) = b
              /\ SubSeq(Prefix(s, b), a + 1, b) = SubSeq(s, a + 1, b)
              /\ Prefix(s, a) \o SubSeq(s, a + 1, b) = Prefix(s, b)
<1>1. s \in Seq(Unit) /\ Len(s) \in Nat
  BY SnapSeq
<1>2. Prefix(s, 0) = <<>> /\ Prefix(s, Len(s)) = s
  BY <1>1 DEF Prefix
<1>3. ASSUME NEW a \in 0 .. Len(s), NEW b \in 0 .. Len(s), a <= b
      PROVE  /\ Len(Prefix(s, b)) = b
             /\ SubSeq(Prefix(s, b), a + 1, b) = SubSeq(s, a + 1, b)
             /\ Prefix(s, a) \o SubSeq(s, a + 1, b) = Prefix(s, b)
  <2>1. Len(Prefix(s, b)) = b
    BY <1>1, <1>3 DEF Prefix
  <2>2. SubSeq(Prefix(s, b), a + 1, b) = SubSeq(s, a + 1, b)
    BY <1>1, <1>3 DEF Prefix
  <2>3. Prefix(s, a) \o SubSeq(s, a + 1, b) = Prefix(s, b)
    BY <1>1, <1>3 DEF Prefix
  <2> QED
    BY <2>1, <2>2, <2>3
<1> QED
  BY <1>2, <1>3

\* The steps of a publisher: they only make objects good.
LEMMA CommitSound ==
  ASSUME ReadersSound, ReaderInv, StoreTypes, NEW p \in Publisher, Commit(p)
  PROVE  ReadersSound'
<1> SUFFICES ASSUME NEW r \in Reader PROVE SoundInv(r)'
  BY DEF ReadersSound
<1>1. /\ UNCHANGED <<rd, want, index, offset, left, got, fault>>
      /\ file' = file \/ (ReplaceObject(p) /\ Detach({Current(p)}))
  BY CommitOutside
<1>2. \A o \in AllObjects : chunks[o] = "good" => chunks'[o] = "good"
  BY DEF Commit, BeginCommit, LinkObject, LinkExists, Deduplicate, ObjectDiffers, ReplaceObject,
     SyncObjects, PublishManifest, SyncManifest, FailCommit, Verified, disk, StoreTypes
<1>3. SUFFICES ASSUME rd[r] # "idle", ~fault[r]
      PROVE  /\ \A o \in Objects(want[r]) : chunks'[o] = "good"
             /\ file'[r] \in {"closed", "linked", "good"}
  BY <1>1 DEF SoundInv, ReadersSound
<1>4. want[r] \in Snap
  BY <1>3 DEF ReaderInv, ReaderTypes
<1>5. /\ \A o \in Objects(want[r]) : o \in AllObjects /\ chunks[o] = "good"
      /\ file[r] \in {"closed", "linked", "good"}
  BY <1>3, <1>4 DEF SoundInv, ReadersSound, AllObjects
<1>6. CASE file' = file
  BY <1>2, <1>5, <1>6
<1>7. CASE Detach({Current(p)})
  <2>1. file'[r] = IF file[r] = "linked" /\ Here(r) \in {Current(p)}
                   THEN chunks[Here(r)] ELSE file[r]
    BY <1>7 DEF Detach
  <2>2. file[r] = "linked" => Here(r) \in Objects(want[r])
    BY <1>3, HereFacts DEF ReaderInv, ReadInv
  <2> QED
    BY <1>2, <1>5, <2>1, <2>2
<1> QED
  BY <1>1, <1>6, <1>7

\* What damages or evicts objects is on record.
LEMMA SpoilSound ==
  ASSUME ReadersSound, ReaderInv, NEW O, Spoil(O),
         file' = file \/ Detach(O),
         UNCHANGED <<rd, want, index, offset, left, got>>,
         \A o \in AllObjects \ O : chunks'[o] = chunks[o]
  PROVE  ReadersSound'
<1> SUFFICES ASSUME NEW r \in Reader, rd[r] # "idle", ~fault'[r] PROVE SoundInv(r)'
  BY DEF ReadersSound, SoundInv
<1>1. want[r] \in Snap
  BY DEF ReaderInv, ReaderTypes
<1>2. ~fault[r] /\ Objects(want[r]) \cap O = {}
  BY DEF Spoil
<1>3. \A o \in Objects(want[r]) : o \in AllObjects /\ o \notin O /\ chunks[o] = "good"
  BY <1>1, <1>2 DEF AllObjects, SoundInv, ReadersSound
<1>4. file[r] = "linked" => Here(r) \in Objects(want[r])
  BY HereFacts DEF ReaderInv, ReadInv
<1>5. file'[r] = file[r]
  BY <1>3, <1>4 DEF Detach
<1> QED
  BY <1>2, <1>3, <1>5 DEF ReadersSound, SoundInv

LEMMA WorldSound ==
  ASSUME ReadersSound, ReaderInv, StoreTypes, World
  PROVE  ReadersSound'
<1>1. ASSUME NEW o \in AllObjects, NEW d \in Contents, DamageObject(o, d) PROVE ReadersSound'
  <2>1. /\ UNCHANGED <<rd, want, index, offset, left, got>> /\ Spoil({o})
        /\ file' = file \/ Detach({o})
        /\ chunks' = [chunks EXCEPT ![o] = d]
    BY <1>1 DEF DamageObject
  <2>2. \A x \in AllObjects \ {o} : chunks'[x] = chunks[x]
    BY <2>1 DEF StoreTypes
  <2> QED
    BY <2>1, <2>2, SpoilSound
<1>2. ASSUME NEW c \in Context, DamageManifest(c) \/ Invalidate(c) PROVE ReadersSound'
  BY <1>2 DEF DamageManifest, Invalidate, readers, ReadersSound, SoundInv
<1>3. CASE Maintain
  <2>1. PICK O \in SUBSET AllObjects :
          /\ Spoil(O) /\ Detach(O)
          /\ chunks' = [o \in AllObjects |-> IF o \in O THEN "none" ELSE chunks[o]]
    BY <1>3 DEF Maintain
  <2>2. UNCHANGED <<rd, want, index, offset, left, got>>
    BY <1>3 DEF Maintain
  <2>3. \A x \in AllObjects \ O : chunks'[x] = chunks[x]
    BY <2>1
  <2> QED
    BY <2>1, <2>2, <2>3, SpoilSound
<1>4. CASE Crash
  BY <1>4 DEF Crash, ReadersSound, SoundInv
<1> QED
  BY <1>1, <1>2, <1>3, <1>4 DEF World

-----------------------------------------------------------------------------
(* The steps of a reader. *)

\* A step of one reader leaves the others sound.
LEMMA OthersSound ==
  ASSUME ReadersSound, NEW r \in Reader, chunks' = chunks,
         \A q \in Reader \ {r} :
           /\ rd'[q] = rd[q] /\ want'[q] = want[q] /\ got'[q] = got[q]
           /\ file'[q] = file[q] /\ fault'[q] = fault[q],
         SoundInv(r)'
  PROVE  ReadersSound'
<1>1. ASSUME NEW q \in Reader, q # r PROVE SoundInv(q)'
  BY <1>1 DEF SoundInv, ReadersSound
<1> QED
  BY <1>1 DEF ReadersSound

\* A reader that has a reason may reject.
LEMMA RejectSound ==
  ASSUME ReadersSound, ReaderTypes, NEW r \in Reader, chunks' = chunks, Reject(r), fault[r]
  PROVE  ReadersSound'
<1>1. /\ \A q \in Reader \ {r} :
           /\ rd'[q] = rd[q] /\ want'[q] = want[q] /\ got'[q] = got[q]
           /\ file'[q] = file[q] /\ fault'[q] = fault[q]
      /\ fault'[r]
  BY DEF Reject, Close, ReaderTypes
<1>2. SoundInv(r)'
  BY <1>1 DEF SoundInv
<1> QED
  BY <1>1, <1>2, OthersSound

\* An undamaged reader finds what it looks for.
LEMMA AtHand ==
  ASSUME ReadersSound, ReaderInv, NEW r \in Reader, rd[r] # "idle", ~fault[r],
         index[r] <= ObjectCount(want[r])
  PROVE  /\ chunks[Here(r)] = "good" /\ RightSize(chunks[Here(r)])
         /\ file[r] # "closed" => Content(r) = "good"
<1>1. Here(r) \in Objects(want[r])
  BY HereFacts
<1> QED
  BY <1>1 DEF ReadersSound, SoundInv, RightSize, Content

LEMMA OpenSnapshotSound ==
  ASSUME ReadersSound, ReaderInv, NEW r \in Reader, OpenSnapshot(r)
  PROVE  ReadersSound'
<1>t. ReaderTypes /\ ReadInv(r)
  BY DEF ReaderInv
<1>1. PICK c \in Context :
        /\ want' = [want EXCEPT ![r] = manifests[c]]
        /\ fault' = [fault EXCEPT ![r] = \E o \in Objects(manifests[c]) : chunks[o] # "good"]
  BY DEF OpenSnapshot
<1>2. /\ rd[r] = "idle" /\ rd' = [rd EXCEPT ![r] = "preflight"]
      /\ UNCHANGED <<index, offset, left, file, got>> /\ chunks' = chunks
  BY DEF OpenSnapshot, ReaderOnly, disk
<1>3. SoundInv(r)'
  BY <1>t, <1>1, <1>2 DEF SoundInv, ReaderTypes, ReadInv
<1> QED
  BY <1>t, <1>1, <1>2, <1>3, OthersSound DEF ReaderTypes

LEMMA PreflightSound ==
  ASSUME ReadersSound, ReaderInv, NEW r \in Reader, Preflight(r)
  PROVE  ReadersSound'
<1>t. ReaderTypes /\ ReadInv(r) /\ SoundInv(r) /\ rd[r] = "preflight" /\ chunks' = chunks
  BY DEF ReaderInv, Preflight, ReaderOnly, disk, ReadersSound
<1>0. want[r] \in Snap /\ index[r] <= ObjectCount(want[r])
  <2>1. want[r] \in Snap /\ index[r] \in 1 .. ObjectCount(want[r])
    BY <1>t DEF ReaderTypes, ReadInv
  <2> QED
    BY <2>1, CountBounds
<1>1. CASE ~RightSize(chunks[Here(r)])
  <2>1. Reject(r) /\ fault[r]
    BY <1>1, <1>t, <1>0, AtHand DEF Preflight
  <2> QED
    BY <2>1, <1>t, RejectSound
<1>2. CASE RightSize(chunks[Here(r)])
  <2>1. /\ UNCHANGED <<want, offset, left, file, got, fault>>
        /\ rd' = rd \/ rd' = [rd EXCEPT ![r] = "reading"]
    BY <1>2 DEF Preflight
  <2>2. rd'[r] \in {"preflight", "reading"} /\ \A q \in Reader \ {r} : rd'[q] = rd[q]
    BY <1>t, <2>1 DEF ReaderTypes
  <2>3. got[r] = Prefix(want[r], Len(got[r]))
    <3>1. got[r] = <<>> /\ Len(<<>>) = 0
      BY <1>t DEF ReadInv
    <3> QED
      BY <3>1, <1>0, PrefixFacts
  <2>4. SoundInv(r)'
    BY <1>t, <2>1, <2>2, <2>3 DEF SoundInv
  <2> QED
    BY <1>t, <2>1, <2>2, <2>4, OthersSound
<1> QED
  BY <1>1, <1>2

LEMMA ReadExactSound ==
  ASSUME ReadersSound, ReaderInv, NEW r \in Reader, ReadExact(r)
  PROVE  ReadersSound'
BY DEF ReadExact, ReaderOnly, disk, ReadersSound, SoundInv

LEMMA OpenObjectSound ==
  ASSUME ReadersSound, ReaderInv, NEW r \in Reader, OpenObject(r)
  PROVE  ReadersSound'
<1>t. /\ ReaderTypes /\ ReadInv(r) /\ SoundInv(r) /\ chunks' = chunks
      /\ rd[r] = "reading" /\ left[r] > 0 /\ file[r] = "closed"
  BY DEF ReaderInv, OpenObject, ReaderOnly, disk, ReadersSound
<1>0. index[r] <= ObjectCount(want[r])
  <2>1. want[r] \in Snap /\ Len(want[r]) \in Nat /\ Len(got[r]) \in Nat /\ left[r] \in Nat
    BY <1>t, CountBounds, SizesAssumption DEF ReaderTypes
  <2>2. Len(got[r]) < Len(want[r])
    BY <1>t, <2>1 DEF ReadInv
  <2> QED
    BY <1>t, <2>2, MoreToRead
<1>1. CASE ~RightSize(chunks[Here(r)])
  <2>1. Reject(r) /\ fault[r]
    BY <1>1, <1>t, <1>0, AtHand DEF OpenObject
  <2> QED
    BY <2>1, <1>t, RejectSound
<1>2. CASE RightSize(chunks[Here(r)])
  <2>1. file' = [file EXCEPT ![r] = "linked"] /\ UNCHANGED <<rd, want, index, left, got, fault>>
    BY <1>2 DEF OpenObject
  <2>2. file'[r] = "linked" /\ \A q \in Reader \ {r} : file'[q] = file[q]
    BY <1>t, <2>1 DEF ReaderTypes
  <2>3. SoundInv(r)'
    BY <1>t, <2>1, <2>2 DEF SoundInv
  <2> QED
    BY <1>t, <2>1, <2>2, <2>3, OthersSound
<1> QED
  BY <1>1, <1>2

LEMMA ReadPieceSound ==
  ASSUME ReadersSound, ReaderInv, NEW r \in Reader, ReadPiece(r)
  PROVE  ReadersSound'
<1>t. /\ ReaderTypes /\ ReadInv(r) /\ SoundInv(r) /\ chunks' = chunks
      /\ rd[r] = "reading" /\ left[r] > 0 /\ file[r] # "closed" /\ ~ObjectRead(r)
  BY DEF ReaderInv, ReadPiece, ReaderOnly, disk, ReadersSound
<1>0. index[r] <= ObjectCount(want[r])
  BY <1>t DEF ReadInv
<1>1. CASE Content(r) = "short" /\ Reject(r)
  <2>1. fault[r]
    BY <1>1, <1>t, <1>0, AtHand
  <2> QED
    BY <1>1, <2>1, <1>t, RejectSound
<1>2. CASE /\ \E piece \in Piece(r) : got' = [got EXCEPT ![r] = @ \o piece]
           /\ UNCHANGED <<rd, want, index, file, fault>>
  <2>1. PICK piece \in Piece(r) : got' = [got EXCEPT ![r] = got[r] \o piece]
    BY <1>2
  <2>2. got'[r] = got[r] \o piece /\ \A q \in Reader \ {r} : got'[q] = got[q]
    BY <1>t, <2>1 DEF ReaderTypes
  <2>3. ASSUME ~fault[r] PROVE got'[r] = Prefix(want[r], Len(got'[r]))
    <3> DEFINE s == want[r]
               i == index[r]
               a == Start(s, i) + offset[r]
               b == a + Count(r)
    <3>1. /\ s \in Snap /\ i \in 1 .. ObjectCount(s)
          /\ Len(Here(r)) = Start(s, i + 1) - Start(s, i)
          /\ Start(s, i) \in Nat /\ Start(s, i + 1) \in Nat /\ Start(s, i + 1) <= Len(s)
          /\ Here(r) = SubSeq(s, Start(s, i) + 1, Start(s, i + 1))
      BY <1>t, <1>0, HereFacts, StartFacts DEF Here
    <3>2. /\ Count(r) \in Nat \ {0} /\ offset[r] + Count(r) <= Len(Here(r))
          /\ offset[r] \in Nat
      BY <1>t, PieceFacts, SizesAssumption DEF ReaderTypes
    <3>3. piece = SubSeq(Here(r), offset[r] + 1, offset[r] + Count(r))
      BY <1>t, <1>0, <2>3, AtHand DEF Piece
    <3> DEFINE x == Start(s, i)
               y == Start(s, i + 1)
               o == offset[r]
               c == Count(r)
    <3>n. /\ s \in Seq(Unit) /\ Len(s) \in Nat /\ x \in Nat /\ y \in Nat /\ o \in Nat /\ c \in Nat
          /\ x <= y /\ y <= Len(s) /\ o + c <= y - x
      <4>1. s \in Seq(Unit)
        BY <3>1, SnapSeq
      <4>2. x \in Nat /\ y \in Nat /\ o \in Nat /\ c \in Nat /\ y <= Len(s)
        BY <3>1, <3>2
      <4>3. o + c <= y - x
        BY <3>1, <3>2
      <4>4. Len(s) \in Nat
        BY <4>1
      <4> HIDE DEF s, x, y, o, c
      <4>5. x <= y
        BY <4>2, <4>3
      <4> QED
        BY <4>1, <4>2, <4>3, <4>4, <4>5
    <3>4. a \in 0 .. Len(s) /\ b \in 0 .. Len(s) /\ a <= b
      <4>1. a = x + o /\ b = (x + o) + c
        OBVIOUS
      <4> HIDE DEF s, x, y, o, c, a, b
      <4> QED
        BY <3>n, <4>1
    <3>5. piece = SubSeq(s, a + 1, b)
      <4>1. a = x + o /\ b = (x + o) + c
        OBVIOUS
      <4>2. piece = SubSeq(SubSeq(s, x + 1, y), o + 1, o + c)
        BY <3>1, <3>3
      <4> HIDE DEF s, x, y, o, c, a, b
      <4>3. SubSeq(SubSeq(s, x + 1, y), o + 1, o + c) = SubSeq(s, (x + o) + 1, (x + o) + c)
        BY <3>n
      <4> QED
        BY <4>1, <4>2, <4>3
    <3>6. got[r] = Prefix(s, a)
      BY <1>t, <2>3 DEF SoundInv, ReadInv
    <3> HIDE DEF s, a, b
    <3>7. Prefix(s, a) \o SubSeq(s, a + 1, b) = Prefix(s, b) /\ Len(Prefix(s, b)) = b
      BY <3>1, <3>4, PrefixFacts
    <3>8. got'[r] = Prefix(s, b) /\ Len(Prefix(s, b)) = b
      BY <2>2, <3>5, <3>6, <3>7
    <3> QED
      BY <3>8 DEF s
  <2>4. SoundInv(r)'
    BY <1>t, <1>2, <2>3 DEF SoundInv
  <2> QED
    BY <1>t, <1>2, <2>2, <2>4, OthersSound
<1> QED
  BY <1>1, <1>2 DEF ReadPiece

LEMMA FinishObjectSound ==
  ASSUME ReadersSound, ReaderInv, NEW r \in Reader, FinishObject(r)
  PROVE  ReadersSound'
<1>t. /\ ReaderTypes /\ ReadInv(r) /\ SoundInv(r) /\ chunks' = chunks
      /\ rd[r] = "reading" /\ file[r] # "closed" /\ offset[r] = Len(Here(r))
  BY DEF ReaderInv, FinishObject, ObjectRead, ReaderOnly, disk, ReadersSound
<1>0. index[r] <= ObjectCount(want[r])
  BY <1>t DEF ReadInv
<1>1. CASE ~(RightSize(Content(r)) /\ ObjectDigestMatches(r))
  <2>1. Reject(r)
    BY <1>1 DEF FinishObject
  <2>2. ASSUME ~fault[r] PROVE FALSE
    <3> DEFINE s == want[r]
               i == index[r]
               a == Start(s, i)
               b == Start(s, i + 1)
    <3>1. /\ s \in Snap /\ i \in 1 .. ObjectCount(s) /\ Len(Here(r)) = b - a
          /\ a \in Nat /\ b \in Nat /\ a < b /\ b <= Len(s) /\ Len(s) \in Nat
          /\ Here(r) = SubSeq(s, a + 1, b)
      BY <1>t, <1>0, HereFacts, StartFacts DEF Here
    <3>2. RightSize(Content(r))
      BY <1>t, <1>0, <2>2, AtHand DEF RightSize
    <3>3. Len(got[r]) = b /\ got[r] = Prefix(s, Len(got[r]))
      <4>1. Len(got[r]) = a + offset[r] /\ got[r] = Prefix(s, Len(got[r]))
        BY <1>t, <2>2 DEF ReadInv, SoundInv
      <4>2. offset[r] = b - a /\ a \in Nat /\ b \in Nat
        BY <1>t, <3>1
      <4> HIDE DEF a, b
      <4> QED
        BY <4>1, <4>2
    <3>4. got[r] = Prefix(s, b)
      BY <3>3
    <3>5. Len(got[r]) - offset[r] + 1 = a + 1
      BY <1>t, <3>1, <3>3
    <3> HIDE DEF s, a, b
    <3>6. a \in 0 .. Len(s) /\ b \in 0 .. Len(s) /\ a <= b
      BY <3>1
    <3>7. SubSeq(got[r], Len(got[r]) - offset[r] + 1, Len(got[r])) = Here(r)
      BY <3>1, <3>3, <3>4, <3>5, <3>6, PrefixFacts
    <3> QED
      BY <1>1, <3>2, <3>7 DEF ObjectDigestMatches
  <2> QED
    BY <1>t, <2>1, <2>2, RejectSound
<1>2. CASE RightSize(Content(r)) /\ ObjectDigestMatches(r)
  <2>1. file' = [file EXCEPT ![r] = "closed"] /\ UNCHANGED <<rd, want, left, got, fault>>
    BY <1>2 DEF FinishObject
  <2>2. file'[r] = "closed" /\ \A q \in Reader \ {r} : file'[q] = file[q]
    BY <1>t, <2>1 DEF ReaderTypes
  <2>3. SoundInv(r)'
    BY <1>t, <2>1, <2>2 DEF SoundInv
  <2> QED
    BY <1>t, <2>1, <2>2, <2>3, OthersSound
<1> QED
  BY <1>1, <1>2

\* A reader that has received as many units as the snapshot has finished the last
\* object.
LEMMA AllRead ==
  ASSUME ReaderInv, NEW r \in Reader, Between(r), Len(got[r]) >= Len(want[r])
  PROVE  /\ Len(got[r]) = Len(want[r]) /\ file[r] = "closed"
         /\ index[r] = ObjectCount(want[r]) + 1
<1>t. ReaderTypes /\ ReadInv(r) /\ rd[r] = "reading" /\ left[r] = 0 /\ ~ObjectRead(r)
  BY DEF ReaderInv, Between
<1>1. /\ want[r] \in Snap /\ Len(want[r]) \in Nat /\ ObjectCount(want[r]) \in Nat
      /\ Len(got[r]) \in Nat /\ index[r] \in 1 .. ObjectCount(want[r]) + 1
      /\ Len(got[r]) = Start(want[r], index[r]) + offset[r] /\ offset[r] \in Nat
  BY <1>t, CountBounds, SizesAssumption DEF ReaderTypes, ReadInv
<1>2. Len(got[r]) = Len(want[r])
  BY <1>t, <1>1 DEF ReadInv
<1>3. index[r] = ObjectCount(want[r]) + 1
  <2>1. SUFFICES ASSUME index[r] \in 1 .. ObjectCount(want[r]) PROVE FALSE
    BY <1>1
  <2>2. /\ Start(want[r], index[r]) \in Nat /\ Start(want[r], index[r] + 1) \in Nat
        /\ Start(want[r], index[r]) < Start(want[r], index[r] + 1)
        /\ Start(want[r], index[r] + 1) <= Len(want[r])
    BY <1>1, <2>1, StartFacts
  <2>3. offset[r] # 0
    BY <1>1, <1>2, <2>2
  <2>4. file[r] # "closed" /\ offset[r] <= Len(Here(r)) /\ offset[r] # Len(Here(r))
    BY <1>t, <2>3 DEF ReadInv, ObjectRead
  <2>5. Len(Here(r)) = Start(want[r], index[r] + 1) - Start(want[r], index[r])
    BY <1>t, <1>1, <2>1, HereFacts
  <2> QED
    BY <1>1, <1>2, <2>2, <2>4, <2>5
<1>4. file[r] = "closed"
  BY <1>t, <1>1, <1>3 DEF ReadInv
<1> QED
  BY <1>2, <1>3, <1>4

LEMMA FinishSound ==
  ASSUME ReadersSound, ReaderInv, NEW r \in Reader, Finish(r)
  PROVE  ReadersSound'
<1>t. /\ ReaderTypes /\ ReadInv(r) /\ SoundInv(r) /\ chunks' = chunks
      /\ rd[r] = "reading" /\ Between(r)
  BY DEF ReaderInv, Finish, Between, ReaderOnly, disk, ReadersSound
<1>1. CASE index[r] = ObjectCount(want[r]) + 1 /\ file[r] = "closed" /\ got[r] = want[r]
  <2>1. /\ rd' = [rd EXCEPT ![r] = "restored"]
        /\ UNCHANGED <<want, index, offset, left, file, got, fault>>
    BY <1>1 DEF Finish
  <2>2. rd'[r] = "restored" /\ \A q \in Reader \ {r} : rd'[q] = rd[q]
    BY <1>t, <2>1 DEF ReaderTypes
  <2>3. SoundInv(r)'
    BY <1>t, <2>1, <2>2 DEF SoundInv
  <2> QED
    BY <1>t, <2>1, <2>2, <2>3, OthersSound
<1>2. CASE ~(index[r] = ObjectCount(want[r]) + 1 /\ file[r] = "closed" /\ got[r] = want[r])
  <2>1. /\ Close(r) /\ fault' = [fault EXCEPT ![r] = fault[r] \/ Len(got[r]) < Len(want[r])]
    BY <1>2 DEF Finish
  <2>2. fault[r] \/ Len(got[r]) < Len(want[r])
    <3>1. SUFFICES ASSUME ~fault[r], Len(got[r]) >= Len(want[r]) PROVE FALSE
      <4>1. want[r] \in Snap /\ Len(want[r]) \in Nat /\ Len(got[r]) \in Nat
        BY <1>t, CountBounds DEF ReaderTypes
      <4> QED
        BY <4>1
    <3>2. /\ Len(got[r]) = Len(want[r]) /\ file[r] = "closed"
          /\ index[r] = ObjectCount(want[r]) + 1
      BY <1>t, <3>1, AllRead
    <3>3. got[r] = want[r]
      <4>1. want[r] \in Snap /\ got[r] = Prefix(want[r], Len(want[r]))
        BY <1>t, <3>1, <3>2 DEF SoundInv, ReaderTypes
      <4> QED
        BY <4>1, PrefixFacts
    <3> QED
      BY <1>2, <3>2, <3>3
  <2>3. /\ fault'[r]
        /\ \A q \in Reader \ {r} :
             /\ rd'[q] = rd[q] /\ want'[q] = want[q] /\ got'[q] = got[q]
             /\ file'[q] = file[q] /\ fault'[q] = fault[q]
    BY <1>t, <2>1, <2>2 DEF Close, ReaderTypes
  <2>4. SoundInv(r)'
    BY <2>3 DEF SoundInv
  <2> QED
    BY <1>t, <2>3, <2>4, OthersSound
<1> QED
  BY <1>1, <1>2

LEMMA EndReadSound ==
  ASSUME ReadersSound, ReaderInv, NEW r \in Reader, EndRead(r)
  PROVE  ReadersSound'
<1>t. ReaderTypes
  BY DEF ReaderInv
<1>1. /\ rd'[r] = "idle" /\ chunks' = chunks
      /\ \A q \in Reader \ {r} :
           /\ rd'[q] = rd[q] /\ want'[q] = want[q] /\ got'[q] = got[q]
           /\ file'[q] = file[q] /\ fault'[q] = fault[q]
  BY <1>t DEF EndRead, ReaderOnly, disk, ReaderTypes
<1>2. SoundInv(r)'
  BY <1>1 DEF SoundInv
<1> QED
  BY <1>1, <1>2, OthersSound

LEMMA StepSound == StoreTypes /\ ReaderInv /\ ReadersSound /\ [Next]_vars => ReadersSound'
<1> SUFFICES ASSUME StoreTypes, ReaderInv, ReadersSound, [Next]_vars PROVE ReadersSound'
  OBVIOUS
<1>1. ASSUME NEW r \in Reader, Restore(r) PROVE ReadersSound'
  BY <1>1, OpenSnapshotSound, PreflightSound, ReadExactSound, OpenObjectSound, ReadPieceSound,
     FinishObjectSound, FinishSound, EndReadSound DEF Restore
<1>2. CASE UNCHANGED vars
  BY <1>2 DEF vars, disk, readers, ReadersSound, SoundInv
<1> QED
  BY <1>1, <1>2, CommitSound, WorldSound DEF Next

\* A snapshot is rejected only when one of its objects was damaged or evicted, or
\* when the caller finished before it had read all.
THEOREM RejectionsHaveCause == Spec => []RejectsOnlyForCause
<1>1. Init => ReadersSound
  BY DEF Init, ReadersSound, SoundInv
<1>2. StoreInv => StoreTypes
  BY DEF StoreInv
<1>3. ReaderInv /\ ReadersSound => RejectsOnlyForCause
  BY DEF ReadersSound, SoundInv, RejectsOnlyForCause, ReaderInv, ReaderTypes
<1> QED
  BY <1>1, <1>2, <1>3, StepSound, ReaderInvariant, StoreInvariant, PTL DEF Spec

-----------------------------------------------------------------------------
(* The store as its callers see it. *)

\* The abstract state of Store, under names of this module.
EntryOf == [c \in Context |-> Visible(manifests[c])]
DiskOf == [c \in Context |-> Visible(msynced[c])]
ResultOf == [r \in Reader |-> IF rd[r] = "restored" THEN got[r] ELSE None]

LEMMA VisibleFacts ==
  /\ \A s \in Snap : Visible(s) = s /\ s # None
  /\ Visible(None) = None /\ Visible(Broken) = None
  /\ \A m : Visible(m) \in Snap \cup {None} /\ (Visible(m) # None <=> m \in Snap)
BY OtherAssumption DEF Visible

LEMMA InitVisible == Init => Store!Init
<1> SUFFICES ASSUME Init PROVE Store!Init
  OBVIOUS
<1>1. EntryOf = [c \in Context |-> None] /\ DiskOf = [c \in Context |-> None]
  BY VisibleFacts DEF Init, EntryOf, DiskOf
<1>2. ResultOf = [r \in Reader |-> None]
  BY DEF Init, ResultOf
<1> QED
  BY <1>1, <1>2 DEF Init, Store!Init, EntryOf, DiskOf, ResultOf

\* What nobody sees.
LEMMA Invisible ==
  ASSUME UNCHANGED <<manifests, msynced, acked, want, ResultOf>>
  PROVE  UNCHANGED Store!vars
<1>1. EntryOf' = EntryOf /\ DiskOf' = DiskOf
  BY DEF EntryOf, DiskOf
<1> QED
  BY <1>1 DEF Store!vars, EntryOf, DiskOf, ResultOf

LEMMA CommitVisible ==
  ASSUME StoreTypes, NEW p \in Publisher, Commit(p)
  PROVE  Store!Next \/ UNCHANGED Store!vars
<1>1. UNCHANGED <<want, rd, got>> /\ ResultOf' = ResultOf
  BY CommitOutside DEF ResultOf
<1> DEFINE c == job[p].context
           s == job[p].snap
<1>2. CASE PublishManifest(p)
  <2>1. /\ c \in Context /\ s \in Snap /\ manifests[c] \in {None, s}
        /\ manifests' = [manifests EXCEPT ![c] = s] /\ UNCHANGED <<msynced, acked>>
    BY <1>2, CurrentIn DEF PublishManifest, Busy
  <2> HIDE DEF c, s
  <2>2. CASE manifests[c] = None
    <3>1. EntryOf[c] = None /\ EntryOf' = [EntryOf EXCEPT ![c] = s]
      BY <2>1, <2>2, VisibleFacts DEF EntryOf, StoreTypes
    <3>2. Store!Publish(c, s)
      BY <1>1, <2>1, <3>1 DEF Store!Publish, EntryOf, DiskOf, ResultOf
    <3> QED
      BY <2>1, <3>2 DEF Store!Next
  <2>3. CASE manifests[c] = s
    <3>1. manifests' = manifests
      BY <2>1, <2>3 DEF StoreTypes
    <3> QED
      BY <1>1, <2>1, <3>1, Invisible
  <2> QED
    BY <2>1, <2>2, <2>3
<1>3. CASE SyncManifest(p)
  <2>1. /\ c \in Context /\ s \in Snap
        /\ msynced' = manifests /\ manifests' = manifests
        /\ acked' = IF manifests[c] = s THEN acked \cup {c} ELSE acked
    BY <1>3, CurrentIn DEF SyncManifest, Busy
  <2> HIDE DEF c, s
  <2>2. DiskOf' = EntryOf /\ EntryOf' = EntryOf
    BY <2>1 DEF DiskOf, EntryOf
  <2>3. \E C \in SUBSET {e \in Context : EntryOf[e] # None} : acked' = acked \cup C
    <3>1. CASE manifests[c] = s
      <4>1. {c} \in SUBSET {e \in Context : EntryOf[e] # None}
        BY <2>1, <3>1, VisibleFacts DEF EntryOf
      <4> QED
        BY <2>1, <3>1, <4>1
    <3>2. CASE manifests[c] # s
      <4>1. acked' = acked \cup {}
        BY <2>1, <3>2
      <4> QED
        BY <4>1
    <3> QED
      BY <3>1, <3>2
  <2>4. Store!Flush
    BY <1>1, <2>2, <2>3 DEF Store!Flush, EntryOf, DiskOf, ResultOf
  <2> QED
    BY <2>4 DEF Store!Next
<1>4. CASE ~PublishManifest(p) /\ ~SyncManifest(p)
  <2>1. UNCHANGED <<manifests, msynced, acked>>
    BY <1>4 DEF Commit, BeginCommit, LinkObject, LinkExists, Deduplicate, ObjectDiffers,
       ReplaceObject, SyncObjects, FailCommit, Verified, disk
  <2> QED
    BY <1>1, <2>1, Invisible
<1> QED
  BY <1>2, <1>3, <1>4

LEMMA RestoreVisible ==
  ASSUME ReaderInv, ReaderInv', NEW r \in Reader, Restore(r)
  PROVE  Store!Next \/ UNCHANGED Store!vars
<1>t. ReaderTypes /\ ReaderTypes' /\ UNCHANGED <<manifests, msynced, acked>>
  BY DEF ReaderInv, Restore, OpenSnapshot, Preflight, ReadExact, OpenObject, ReadPiece,
     FinishObject, Finish, EndRead, ReaderOnly, disk
<1>e. EntryOf' = EntryOf /\ DiskOf' = DiskOf
  BY <1>t DEF EntryOf, DiskOf
<1>1. CASE OpenSnapshot(r)
  <2>1. PICK c \in Context : manifests[c] \in Snap /\ want' = [want EXCEPT ![r] = manifests[c]]
    BY <1>1 DEF OpenSnapshot
  <2>2. rd[r] = "idle" /\ rd' = [rd EXCEPT ![r] = "preflight"] /\ got' = got
    BY <1>1 DEF OpenSnapshot
  <2>3. ResultOf' = ResultOf
    BY <1>t, <2>2 DEF ResultOf, ReaderTypes
  <2>4. want[r] = None /\ EntryOf[c] = manifests[c] /\ manifests[c] # None
    BY <1>t, <2>1, <2>2, VisibleFacts DEF EntryOf, ReaderTypes
  <2>5. Store!StartRestore(r, c)
    BY <1>t, <1>e, <2>1, <2>3, <2>4 DEF Store!StartRestore, EntryOf, DiskOf, ResultOf
  <2> QED
    BY <2>5 DEF Store!Next
<1>2. CASE EndRead(r)
  <2>1. rd' = [rd EXCEPT ![r] = "idle"] /\ want' = [want EXCEPT ![r] = None]
        /\ got' = [got EXCEPT ![r] = <<>>]
    BY <1>2 DEF EndRead
  <2>2. ResultOf' = [ResultOf EXCEPT ![r] = None]
    BY <1>t, <2>1 DEF ResultOf, ReaderTypes
  <2>3. Store!EndRestore(r)
    BY <1>t, <1>e, <2>1, <2>2 DEF Store!EndRestore, EntryOf, DiskOf, ResultOf
  <2> QED
    BY <2>3 DEF Store!Next
<1>3. CASE Finish(r) /\ rd'[r] = "restored"
  <2>1. /\ rd[r] = "reading" /\ want' = want /\ got' = got
        /\ got[r] = want[r] /\ rd' = [rd EXCEPT ![r] = "restored"]
    BY <1>3, <1>t DEF Finish, Between, Close, ReaderTypes
  <2>2. ResultOf' = [ResultOf EXCEPT ![r] = want[r]]
    BY <1>t, <2>1 DEF ResultOf, ReaderTypes
  <2>3. want[r] # None
    BY <1>t, <2>1 DEF ReaderTypes
  <2>4. Store!Deliver(r)
    BY <1>t, <1>e, <2>1, <2>2, <2>3 DEF Store!Deliver, EntryOf, DiskOf, ResultOf
  <2> QED
    BY <2>4 DEF Store!Next
<1>4. CASE \/ Preflight(r) \/ ReadExact(r) \/ OpenObject(r) \/ ReadPiece(r) \/ FinishObject(r)
           \/ Finish(r) /\ rd'[r] # "restored"
  <2>1. /\ want' = want /\ rd[r] # "restored" /\ rd'[r] # "restored"
        /\ \A q \in Reader \ {r} : rd'[q] = rd[q] /\ got'[q] = got[q]
    <3>1. ASSUME rd[r] # "idle", Close(r)
          PROVE  /\ want' = want /\ rd'[r] # "restored"
                 /\ \A q \in Reader \ {r} : rd'[q] = rd[q] /\ got'[q] = got[q]
      BY <1>t, <3>1 DEF Close, ReaderTypes
    <3>2. CASE Preflight(r)
      BY <1>t, <3>1, <3>2 DEF Preflight, Reject, ReaderTypes
    <3>3. CASE ReadExact(r)
      BY <1>t, <3>3 DEF ReadExact, Between
    <3>4. CASE OpenObject(r)
      BY <1>t, <3>1, <3>4 DEF OpenObject, Reject
    <3>5. CASE ReadPiece(r)
      BY <1>t, <3>1, <3>5 DEF ReadPiece, Reject, ReaderTypes
    <3>6. CASE FinishObject(r)
      BY <1>t, <3>1, <3>6 DEF FinishObject, Reject
    <3>7. CASE Finish(r) /\ rd'[r] # "restored"
      BY <1>t, <3>1, <3>7 DEF Finish, Between, ReaderTypes
    <3> QED
      BY <1>4, <3>2, <3>3, <3>4, <3>5, <3>6, <3>7
  <2>2. ResultOf' = ResultOf
    BY <2>1 DEF ResultOf
  <2> QED
    BY <1>t, <2>1, <2>2, Invisible
<1> QED
  BY <1>1, <1>2, <1>3, <1>4 DEF Restore

\* Entries that are removed, spoilt or evicted, with or without their traces.
LEMMA RemoveVisible ==
  ASSUME StoreTypes, NEW C \in SUBSET Context, NEW m \in {None, Broken},
         manifests' = [c \in Context |-> IF c \in C THEN m ELSE manifests[c]],
         msynced' \in {msynced, [c \in Context |-> IF c \in C THEN m ELSE msynced[c]]},
         acked' = acked \ C, UNCHANGED <<want, rd, got>>
  PROVE  Store!Next
<1>1. Visible(m) = None
  BY VisibleFacts
<1>2. EntryOf' = [c \in Context |-> IF c \in C THEN None ELSE EntryOf[c]]
  BY <1>1 DEF EntryOf
<1>3. /\ DiskOf' \in [Context -> Snap \cup {None}]
      /\ \A c \in Context : DiskOf'[c] = DiskOf[c] \/ (c \in C /\ DiskOf'[c] = None)
  BY <1>1, VisibleFacts DEF DiskOf
<1>4. ResultOf' = ResultOf
  BY DEF ResultOf
<1>5. Store!Remove(C)
  BY <1>2, <1>3, <1>4 DEF Store!Remove, EntryOf, DiskOf, ResultOf
<1> QED
  BY <1>5 DEF Store!Next

LEMMA WorldVisible ==
  ASSUME StoreTypes, CommitDurable, World
  PROVE  Store!Next \/ UNCHANGED Store!vars
<1>1. ASSUME NEW o \in AllObjects, NEW d \in Contents, DamageObject(o, d)
      PROVE  UNCHANGED Store!vars
  BY <1>1, Invisible DEF DamageObject, ResultOf
<1>2. ASSUME NEW c \in Context, DamageManifest(c) \/ Invalidate(c) PROVE Store!Next
  <2>1. PICK m \in {None, Broken} :
          /\ manifests' = [manifests EXCEPT ![c] = m]
          /\ msynced' \in {msynced, [msynced EXCEPT ![c] = m]}
          /\ acked' = acked \ {c}
    BY <1>2 DEF DamageManifest, Invalidate
  <2>2. UNCHANGED <<want, rd, got>>
    BY <1>2 DEF DamageManifest, Invalidate, readers
  <2>3. /\ manifests' = [e \in Context |-> IF e \in {c} THEN m ELSE manifests[e]]
        /\ msynced' \in {msynced, [e \in Context |-> IF e \in {c} THEN m ELSE msynced[e]]}
    BY <2>1 DEF StoreTypes
  <2> QED
    BY <2>1, <2>2, <2>3, RemoveVisible
<1>3. CASE Maintain
  <2>1. PICK C \in SUBSET Context :
          /\ manifests' = [c \in Context |-> IF c \in C THEN None ELSE manifests[c]]
          /\ msynced' \in {msynced, [c \in Context |-> IF c \in C THEN None ELSE msynced[c]]}
          /\ acked' = acked \ C
    BY <1>3 DEF Maintain
  <2>2. UNCHANGED <<want, rd, got>>
    BY <1>3 DEF Maintain
  <2> QED
    BY <2>1, <2>2, RemoveVisible
<1>4. CASE Crash
  <2>1. /\ manifests' \in [Context -> Snap \cup {None, Broken}] /\ msynced' = manifests'
        /\ \A c \in Context : manifests'[c] \in {manifests[c], msynced[c]}
        /\ rd' = [r \in Reader |-> "idle"] /\ want' = [r \in Reader |-> None]
        /\ acked' = acked
    BY <1>4 DEF Crash
  <2>2. EntryOf' \in [Context -> Snap \cup {None}] /\ DiskOf' = EntryOf'
    BY <2>1, VisibleFacts DEF EntryOf, DiskOf
  <2>3. /\ \A c \in Context : EntryOf'[c] = EntryOf[c] \/ EntryOf'[c] = DiskOf[c]
        /\ \A c \in acked : EntryOf'[c] = EntryOf[c]
    BY <2>1 DEF EntryOf, DiskOf, CommitDurable, StoreTypes
  <2>4. ResultOf' = [r \in Reader |-> None]
    BY <2>1 DEF ResultOf
  <2>5. Store!Crash
    BY <2>1, <2>2, <2>3, <2>4 DEF Store!Crash, EntryOf, DiskOf, ResultOf
  <2> QED
    BY <2>5 DEF Store!Next
<1> QED
  BY <1>1, <1>2, <1>3, <1>4 DEF World

LEMMA StepVisible ==
  StoreInv /\ CommitDurable /\ ReaderInv /\ [Next]_vars => [Store!Next]_(Store!vars)
<1> SUFFICES ASSUME StoreInv, CommitDurable, ReaderInv, [Next]_vars
             PROVE  Store!Next \/ UNCHANGED Store!vars
  OBVIOUS
<1>t. StoreTypes /\ ReaderInv'
  BY StepReader DEF StoreInv
<1>1. CASE UNCHANGED vars
  <2>1. UNCHANGED <<manifests, msynced, acked, want, ResultOf>>
    BY <1>1 DEF vars, disk, readers, ResultOf
  <2> QED
    BY <2>1, Invisible
<1> QED
  BY <1>t, <1>1, CommitVisible, RestoreVisible, WorldVisible DEF Next

\* The streaming store implements the store of whole entries: they appear at once
\* and are never replaced, those acknowledged survive crashes, and a restore that
\* succeeds has delivered exactly what its lookup found.
THEOREM StoreIsAtomic == Spec => ImplementsAtomicStore
  BY InitVisible, StepVisible, StoreInvariant, CommitsAreDurable, ReaderInvariant, PTL
     DEF Spec, ImplementsAtomicStore, Store!Spec
=============================================================================
