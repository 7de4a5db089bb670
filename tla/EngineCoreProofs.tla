--------------------------- MODULE EngineCoreProofs ---------------------------
(***************************************************************************)
(* Proofs about EngineCore, for every set of requests, every budget, chunk   *)
(* rule and table of draft lengths: the queues keep every live request once, *)
(* the placeholders a request carries are the tokens its steps in flight may *)
(* still return, and a result is only waited for when one is in flight.      *)
(* From the same invariant: the ring of hand-outs is long enough, the end-    *)
(* drain hold leaves no step behind a finish by length, a step that defers    *)
(* prefills has a decode to schedule, and nobody overtakes in the line.       *)
(***************************************************************************)
EXTENDS EngineCore, FiniteSetTheorems, SequenceTheorems, TLAPS

-----------------------------------------------------------------------------
(* The natural numbers: what no lemma of the library states without an       *)
(* operator parameter.  A set that 0 is in and that is closed under successor *)
(* has every number, because k |-> k + 1 cannot map the members below a gap   *)
(* one to one into themselves.                                               *)

LEMMA SetInduction ==
  ASSUME NEW S, 0 \in S, \A n \in Nat : n \in S => n + 1 \in S
  PROVE  Nat \subseteq S
<1> SUFFICES ASSUME NEW n \in Nat, n \notin S PROVE FALSE
  OBVIOUS
<1> DEFINE A == {k \in 0..n : k \in S}
           f == [k \in A |-> k + 1]
<1>1. IsFiniteSet(A)
  <2>1. IsFiniteSet(0..n)
    BY FS_Interval
  <2> QED
    BY <2>1, FS_Subset
<1>2. \A k \in A : k + 1 \in A
  <2> SUFFICES ASSUME NEW k \in 0..n, k \in S PROVE k + 1 \in 0..n /\ k + 1 \in S
    BY DEF A
  <2>1. k # n
    OBVIOUS
  <2> QED
    BY <2>1
<1>3. f \in Injection(A, A)
  <2>1. f \in [A -> A]
    BY <1>2
  <2>2. \A a, b \in A : a + 1 = b + 1 => a = b
    OBVIOUS
  <2> HIDE DEF A
  <2> QED
    BY <2>1, <2>2 DEF Injection, IsInjective
<1>4. f \in Surjection(A, A)
  <2> HIDE DEF f, A
  <2> QED
    BY <1>1, <1>3, FS_Injection
<1>5. 0 \in A
  OBVIOUS
<1>6. PICK k \in A : f[k] = 0
  <2> HIDE DEF f, A
  <2> QED
    BY <1>4, <1>5 DEF Surjection
<1> QED
  BY <1>6

\* A set of numbers that is not empty has a least one.
LEMMA LeastNumber ==
  ASSUME NEW S, S \subseteq Nat, S # {}
  PROVE  \E s \in S : \A t \in S : s <= t
<1> SUFFICES ASSUME \A s \in S : \E t \in S : t < s PROVE FALSE
  OBVIOUS
<1> DEFINE T == {n \in Nat : \A k \in 0..n : k \notin S}
<1>1. 0 \in T
  OBVIOUS
<1>2. \A n \in Nat : n \in T => n + 1 \in T
  <2> SUFFICES ASSUME NEW n \in Nat, n \in T, n + 1 \in S PROVE FALSE
    OBVIOUS
  <2>1. PICK t \in S : t < n + 1
    OBVIOUS
  <2> QED
    BY <2>1
<1>3. Nat \subseteq T
  <2> HIDE DEF T
  <2> QED
    BY <1>1, <1>2, SetInduction
<1>4. PICK s \in S : s \in Nat
  OBVIOUS
<1>5. s \in T
  BY <1>3, <1>4
<1> QED
  BY <1>4, <1>5

\* The greatest of finitely many numbers.
LEMMA GreatestValue ==
  ASSUME NEW N \in Nat \ {0}, NEW g \in [1..N -> Nat]
  PROVE  \E n \in 1..N : \A m \in 1..N : g[m] <= g[n]
<1> DEFINE Top(k) == \E n \in 1..k : \A m \in 1..k : g[m] <= g[n]
           T == {k \in Nat : k < N => Top(k + 1)}
<1>1. 0 \in T
  OBVIOUS
<1>2. ASSUME NEW k \in Nat, k \in T
      PROVE  k + 1 \in T
  <2> SUFFICES ASSUME k + 1 < N PROVE Top((k + 1) + 1)
    OBVIOUS
  <2>1. PICK n \in 1..(k + 1) : \A m \in 1..(k + 1) : g[m] <= g[n]
    <3>1. k < N
      OBVIOUS
    <3> QED
      BY <1>2, <3>1
  <2>2. (k + 1) + 1 = k + 2 /\ k + 2 \in 1..N
    OBVIOUS
  <2>3. CASE g[k + 2] <= g[n]
    BY <2>1, <2>2, <2>3
  <2>4. CASE ~(g[k + 2] <= g[n])
    <3>1. \A m \in 1..(k + 2) : g[m] <= g[k + 2]
      BY <2>1, <2>2, <2>4
    <3> QED
      BY <2>2, <3>1
  <2> QED
    BY <2>3, <2>4
<1>3. Nat \subseteq T
  <2> HIDE DEF T
  <2> QED
    BY <1>1, <1>2, SetInduction
<1>4. N - 1 \in Nat /\ N - 1 < N /\ (N - 1) + 1 = N
  OBVIOUS
<1>5. N - 1 \in T
  BY <1>3, <1>4
<1>6. Top((N - 1) + 1)
  BY <1>4, <1>5
<1> QED
  BY <1>4, <1>6

-----------------------------------------------------------------------------
(* Sequences without repetitions, and the sets of their entries.             *)

LEMMA ToSetOf ==
  ASSUME NEW S, NEW s \in Seq(S)
  PROVE  /\ ToSet(s) \subseteq S /\ IsFiniteSet(ToSet(s)) /\ Cardinality(ToSet(s)) <= Len(s)
         /\ \A x : x \in ToSet(s) <=> \E i \in 1..Len(s) : s[i] = x
         /\ s = <<>> <=> ToSet(s) = {}
<1>1. s \in [1..Len(s) -> S] /\ Len(s) \in Nat /\ DOMAIN s = 1..Len(s)
  BY LenProperties
<1>2. ToSet(s) = {s[i] : i \in 1..Len(s)}
  BY <1>1 DEF ToSet
<1>3. IsFiniteSet(1..Len(s)) /\ Cardinality(1..Len(s)) = Len(s)
  <2>1. \A n \in Nat : IsFiniteSet(1..n) /\ Cardinality(1..n) = n
    BY FS_Interval
  <2> QED
    BY <1>1, <2>1
<1>4. s \in Surjection(1..Len(s), ToSet(s))
  BY <1>1, <1>2 DEF Surjection
<1>5. IsFiniteSet(ToSet(s)) /\ Cardinality(ToSet(s)) <= Len(s)
  BY <1>3, <1>4, FS_Surjection
<1> QED
  BY <1>1, <1>2, <1>5

LEMMA ConcatSets ==
  ASSUME NEW S, NEW s \in Seq(S), NEW t \in Seq(S)
  PROVE  /\ ToSet(s \o t) = ToSet(s) \cup ToSet(t)
         /\ IsInjective(s \o t) <=>
              IsInjective(s) /\ IsInjective(t) /\ ToSet(s) \cap ToSet(t) = {}
<1> DEFINE u == s \o t
<1>1. /\ u \in Seq(S) /\ Len(u) = Len(s) + Len(t) /\ Len(s) \in Nat /\ Len(t) \in Nat
      /\ \A i \in 1..Len(s) : u[i] = s[i]
      /\ \A i \in 1..Len(t) : u[Len(s) + i] = t[i]
      /\ \A i \in 1..Len(u) : i > Len(s) => i - Len(s) \in 1..Len(t) /\ u[i] = t[i - Len(s)]
  BY ConcatProperties
<1>2. DOMAIN u = 1..Len(u) /\ DOMAIN s = 1..Len(s) /\ DOMAIN t = 1..Len(t)
  BY <1>1, LenProperties
<1> HIDE DEF u
<1>3. ToSet(u) = ToSet(s) \cup ToSet(t)
  <2>1. ToSet(u) \subseteq ToSet(s) \cup ToSet(t)
    <3> SUFFICES ASSUME NEW i \in 1..Len(u) PROVE u[i] \in ToSet(s) \cup ToSet(t)
      BY <1>2 DEF ToSet
    <3>1. CASE i <= Len(s)
      BY <1>1, <1>2, <3>1 DEF ToSet
    <3>2. CASE i > Len(s)
      <4>1. i - Len(s) \in 1..Len(t) /\ u[i] = t[i - Len(s)]
        BY <1>1, <3>2
      <4> QED
        BY <1>2, <4>1 DEF ToSet
    <3> QED
      BY <1>1, <3>1, <3>2
  <2>2. ToSet(s) \subseteq ToSet(u)
    BY <1>1, <1>2 DEF ToSet
  <2>3. ToSet(t) \subseteq ToSet(u)
    <3> SUFFICES ASSUME NEW i \in 1..Len(t) PROVE t[i] \in ToSet(u)
      BY <1>2 DEF ToSet
    <3>1. Len(s) + i \in 1..Len(u) /\ u[Len(s) + i] = t[i]
      BY <1>1
    <3> QED
      BY <1>2, <3>1 DEF ToSet
  <2> QED
    BY <2>1, <2>2, <2>3
<1>4. ASSUME IsInjective(u)
      PROVE  IsInjective(s) /\ IsInjective(t) /\ ToSet(s) \cap ToSet(t) = {}
  <2>1. \A i, j \in 1..Len(u) : u[i] = u[j] => i = j
    BY <1>2, <1>4 DEF IsInjective
  <2>2. IsInjective(s)
    BY <1>1, <1>2, <2>1 DEF IsInjective
  <2>3. \A i, j \in 1..Len(t) : t[i] = t[j] => i = j
    <3> SUFFICES ASSUME NEW i \in 1..Len(t), NEW j \in 1..Len(t), t[i] = t[j] PROVE i = j
      OBVIOUS
    <3>1. /\ Len(s) + i \in 1..Len(u) /\ u[Len(s) + i] = t[i]
          /\ Len(s) + j \in 1..Len(u) /\ u[Len(s) + j] = t[j]
      BY <1>1
    <3>2. Len(s) + i = Len(s) + j
      BY <2>1, <3>1
    <3> QED
      BY <1>1, <3>2
  <2>4. \A i \in 1..Len(s), j \in 1..Len(t) : s[i] # t[j]
    <3> SUFFICES ASSUME NEW i \in 1..Len(s), NEW j \in 1..Len(t), s[i] = t[j] PROVE FALSE
      OBVIOUS
    <3>1. i \in 1..Len(u) /\ Len(s) + j \in 1..Len(u) /\ u[i] = s[i] /\ u[Len(s) + j] = t[j]
      BY <1>1
    <3>2. i = Len(s) + j
      BY <2>1, <3>1
    <3> QED
      BY <1>1, <3>2
  <2> QED
    BY <1>2, <2>2, <2>3, <2>4 DEF IsInjective, ToSet
<1>5. ASSUME IsInjective(s), IsInjective(t), ToSet(s) \cap ToSet(t) = {}
      PROVE  IsInjective(u)
  <2>1. /\ \A i, j \in 1..Len(s) : s[i] = s[j] => i = j
        /\ \A i, j \in 1..Len(t) : t[i] = t[j] => i = j
        /\ \A i \in 1..Len(s), j \in 1..Len(t) : s[i] # t[j]
    <3>1. \A i, j \in 1..Len(s) : s[i] = s[j] => i = j
      BY <1>2, <1>5 DEF IsInjective
    <3>2. \A i, j \in 1..Len(t) : t[i] = t[j] => i = j
      BY <1>2, <1>5 DEF IsInjective
    <3>3. ASSUME NEW i \in 1..Len(s), NEW j \in 1..Len(t) PROVE s[i] # t[j]
      <4>1. s[i] \in ToSet(s)
        BY <1>2 DEF ToSet
      <4>2. t[j] \in ToSet(t)
        BY <1>2 DEF ToSet
      <4> QED
        BY <1>5, <4>1, <4>2
    <3> QED
      BY <3>1, <3>2, <3>3
  <2> SUFFICES ASSUME NEW i \in 1..Len(u), NEW j \in 1..Len(u), u[i] = u[j] PROVE i = j
    BY <1>2 DEF IsInjective
  <2>2. CASE i <= Len(s) /\ j <= Len(s)
    <3>1. i \in 1..Len(s) /\ j \in 1..Len(s)
      BY <2>2, <1>1
    <3> QED
      BY <1>1, <2>1, <3>1
  <2>3. CASE i > Len(s) /\ j > Len(s)
    <3>1. /\ i - Len(s) \in 1..Len(t) /\ u[i] = t[i - Len(s)]
          /\ j - Len(s) \in 1..Len(t) /\ u[j] = t[j - Len(s)]
      BY <1>1, <2>3
    <3>2. i - Len(s) = j - Len(s)
      BY <2>1, <3>1
    <3> QED
      BY <1>1, <3>2
  <2>4. CASE i <= Len(s) /\ j > Len(s)
    <3>1. i \in 1..Len(s) /\ u[i] = s[i] /\ j - Len(s) \in 1..Len(t) /\ u[j] = t[j - Len(s)]
      BY <1>1, <2>4
    <3> QED
      BY <2>1, <3>1
  <2>5. CASE i > Len(s) /\ j <= Len(s)
    <3>1. j \in 1..Len(s) /\ u[j] = s[j] /\ i - Len(s) \in 1..Len(t) /\ u[i] = t[i - Len(s)]
      BY <1>1, <2>5
    <3> QED
      BY <2>1, <3>1
  <2> QED
    BY <1>1, <2>2, <2>3, <2>4, <2>5
<1> QED
  BY <1>3, <1>4, <1>5 DEF u

LEMMA SingleSet ==
  ASSUME NEW S, NEW x \in S
  PROVE  <<x>> \in Seq(S) /\ Len(<<x>>) = 1 /\ ToSet(<<x>>) = {x} /\ IsInjective(<<x>>)
<1>1. <<x>> \in Seq(S) /\ Len(<<x>>) = 1 /\ <<x>>[1] = x /\ DOMAIN <<x>> = {1}
  OBVIOUS
<1> QED
  BY <1>1 DEF ToSet, IsInjective

LEMMA EmptySets == ToSet(<<>>) = {} /\ IsInjective(<<>>)
  BY DEF ToSet, IsInjective

\* Put at the front, and at the end.
LEMMA ConsSets ==
  ASSUME NEW S, NEW s \in Seq(S), NEW x \in S
  PROVE  /\ <<x>> \o s \in Seq(S) /\ Len(<<x>> \o s) = Len(s) + 1
         /\ ToSet(<<x>> \o s) = {x} \cup ToSet(s)
         /\ IsInjective(s) /\ x \notin ToSet(s) => IsInjective(<<x>> \o s)
<1>1. <<x>> \in Seq(S) /\ Len(<<x>>) = 1 /\ ToSet(<<x>>) = {x} /\ IsInjective(<<x>>)
  BY SingleSet
<1>2. Len(s) \in Nat /\ <<x>> \o s \in Seq(S) /\ Len(<<x>> \o s) = Len(<<x>>) + Len(s)
  BY <1>1, ConcatProperties
<1>3. /\ ToSet(<<x>> \o s) = ToSet(<<x>>) \cup ToSet(s)
      /\ IsInjective(<<x>> \o s) <=>
           IsInjective(<<x>>) /\ IsInjective(s) /\ ToSet(<<x>>) \cap ToSet(s) = {}
  BY <1>1, ConcatSets
<1> QED
  BY <1>1, <1>2, <1>3

LEMMA AppendSets ==
  ASSUME NEW S, NEW s \in Seq(S), NEW x \in S
  PROVE  /\ Append(s, x) \in Seq(S) /\ Len(Append(s, x)) = Len(s) + 1
         /\ ToSet(Append(s, x)) = ToSet(s) \cup {x}
         /\ IsInjective(s) /\ x \notin ToSet(s) => IsInjective(Append(s, x))
<1>1. <<x>> \in Seq(S) /\ ToSet(<<x>>) = {x} /\ IsInjective(<<x>>)
  BY SingleSet
<1>2. Append(s, x) \in Seq(S) /\ Len(Append(s, x)) = Len(s) + 1 /\ Append(s, x) = s \o <<x>>
  BY AppendProperties, AppendIsConcat
<1>3. /\ ToSet(s \o <<x>>) = ToSet(s) \cup ToSet(<<x>>)
      /\ IsInjective(s \o <<x>>) <=>
           IsInjective(s) /\ IsInjective(<<x>>) /\ ToSet(s) \cap ToSet(<<x>>) = {}
  BY <1>1, ConcatSets
<1> QED
  BY <1>1, <1>2, <1>3

\* Taken from the front.
LEMMA PopSets ==
  ASSUME NEW S, NEW s \in Seq(S), s # <<>>
  PROVE  /\ Head(s) \in S /\ Tail(s) \in Seq(S) /\ Len(Tail(s)) = Len(s) - 1
         /\ s = <<Head(s)>> \o Tail(s)
         /\ ToSet(s) = {Head(s)} \cup ToSet(Tail(s))
         /\ IsInjective(s) => IsInjective(Tail(s)) /\ Head(s) \notin ToSet(Tail(s))
<1>1. Head(s) \in S /\ Tail(s) \in Seq(S) /\ Len(Tail(s)) = Len(s) - 1
  BY HeadTailProperties
<1>2. s = <<Head(s)>> \o Tail(s)
  OBVIOUS
<1>3. <<Head(s)>> \in Seq(S) /\ ToSet(<<Head(s)>>) = {Head(s)}
  BY <1>1, SingleSet
<1>4. /\ ToSet(<<Head(s)>> \o Tail(s)) = ToSet(<<Head(s)>>) \cup ToSet(Tail(s))
      /\ IsInjective(<<Head(s)>> \o Tail(s)) <=>
           IsInjective(<<Head(s)>>) /\ IsInjective(Tail(s))
             /\ ToSet(<<Head(s)>>) \cap ToSet(Tail(s)) = {}
  BY <1>1, <1>3, ConcatSets
<1> QED
  BY <1>1, <1>2, <1>3, <1>4

\* Cut in two.
LEMMA CutSets ==
  ASSUME NEW S, NEW s \in Seq(S), NEW k \in 0..Len(s)
  PROVE  LET left == SubSeq(s, 1, k)
             right == SubSeq(s, k + 1, Len(s))
         IN /\ left \in Seq(S) /\ Len(left) = k /\ \A i \in 1..k : left[i] = s[i]
            /\ right \in Seq(S) /\ Len(right) = Len(s) - k
            /\ \A i \in 1..(Len(s) - k) : right[i] = s[k + i]
            /\ s = left \o right
            /\ ToSet(s) = ToSet(left) \cup ToSet(right)
            /\ IsInjective(s) =>
                 IsInjective(left) /\ IsInjective(right) /\ ToSet(left) \cap ToSet(right) = {}
<1> DEFINE left == SubSeq(s, 1, k)
           right == SubSeq(s, k + 1, Len(s))
<1>1. Len(s) \in Nat /\ s \in [1..Len(s) -> S]
  BY LenProperties
<1>2. /\ left \in Seq(S) /\ Len(left) = k /\ \A i \in 1..k : left[i] = s[i]
  <2>1. \A i \in 1..k : s[i] \in S
    BY <1>1
  <2>2. /\ left \in Seq(S) /\ Len(left) = IF 1 <= k THEN k - 1 + 1 ELSE 0
        /\ \A i \in 1..(k - 1 + 1) : left[i] = s[1 + i - 1]
    BY <1>1, <2>1, SubSeqProperties
  <2> QED
    BY <1>1, <2>2
<1>3. /\ right \in Seq(S) /\ Len(right) = Len(s) - k
      /\ \A i \in 1..(Len(s) - k) : right[i] = s[k + i]
  <2>1. \A i \in (k + 1)..Len(s) : s[i] \in S
    BY <1>1
  <2>2. k + 1 \in Int /\ Len(s) \in Int
    BY <1>1
  <2>3. right \in Seq(S)
    BY <2>1, <2>2, SubSeqProperties
  <2>4. Len(right) = IF k + 1 <= Len(s) THEN Len(s) - (k + 1) + 1 ELSE 0
    BY <2>1, <2>2, SubSeqProperties
  <2>5. \A i \in 1..(Len(s) - (k + 1) + 1) : right[i] = s[(k + 1) + i - 1]
    BY <2>1, <2>2, SubSeqProperties
  <2> HIDE DEF right
  <2>6. Len(right) = Len(s) - k
    BY <2>2, <2>4
  <2>7. \A i \in 1..(Len(s) - k) : i \in 1..(Len(s) - (k + 1) + 1) /\ (k + 1) + i - 1 = k + i
    BY <2>2
  <2>8. \A i \in 1..(Len(s) - k) : right[i] = s[k + i]
    BY <2>5, <2>7
  <2> QED
    BY <2>3, <2>6, <2>8
<1>4. s = left \o right
  <2>1. /\ 1 \in 1..(Len(s) + 1) /\ k \in (1 - 1)..Len(s) /\ Len(s) \in k..Len(s)
    BY <1>1
  <2>2. left \o right = SubSeq(s, 1, Len(s))
    BY <2>1, ConcatAdjacentSubSeq
  <2> QED
    BY <2>2, SubSeqFull
<1> HIDE DEF left, right
<1>5. /\ ToSet(left \o right) = ToSet(left) \cup ToSet(right)
      /\ IsInjective(left \o right) <=>
           IsInjective(left) /\ IsInjective(right) /\ ToSet(left) \cap ToSet(right) = {}
  BY <1>2, <1>3, ConcatSets
<1> QED
  BY <1>2, <1>3, <1>4, <1>5 DEF left, right

\* Turned round.
LEMMA ReverseSets ==
  ASSUME NEW S, NEW s \in Seq(S)
  PROVE  /\ Reverse(s) \in Seq(S) /\ Len(Reverse(s)) = Len(s)
         /\ \A i \in 1..Len(s) : Reverse(s)[i] = s[Len(s) - i + 1]
         /\ ToSet(Reverse(s)) = ToSet(s)
         /\ IsInjective(s) => IsInjective(Reverse(s))
<1>1. Len(s) \in Nat /\ s \in [1..Len(s) -> S] /\ DOMAIN s = 1..Len(s)
  BY LenProperties
<1> DEFINE u == Reverse(s)
<1>2. /\ u \in [1..Len(s) -> S] /\ DOMAIN u = 1..Len(s)
      /\ \A i \in 1..Len(s) : u[i] = s[Len(s) - i + 1]
  BY <1>1 DEF Reverse
<1>3. u \in Seq(S) /\ Len(u) = Len(s)
  BY <1>1, <1>2, SeqDef
<1>4. \A i \in 1..Len(s) : Len(s) - i + 1 \in 1..Len(s) /\ Len(s) - (Len(s) - i + 1) + 1 = i
  BY <1>1
<1> HIDE DEF u
<1>5. ToSet(u) = ToSet(s)
  <2>1. ToSet(u) \subseteq ToSet(s)
    BY <1>1, <1>2, <1>4 DEF ToSet
  <2>2. \A i \in 1..Len(s) : u[Len(s) - i + 1] = s[i]
    BY <1>2, <1>4
  <2>3. ToSet(s) \subseteq ToSet(u)
    BY <1>1, <1>2, <1>4, <2>2 DEF ToSet
  <2> QED
    BY <2>1, <2>3
<1>6. IsInjective(s) => IsInjective(u)
  <2> SUFFICES ASSUME IsInjective(s), NEW i \in 1..Len(s), NEW j \in 1..Len(s), u[i] = u[j]
               PROVE  i = j
    BY <1>2 DEF IsInjective
  <2>1. s[Len(s) - i + 1] = s[Len(s) - j + 1]
    BY <1>2
  <2>2. Len(s) - i + 1 = Len(s) - j + 1
    BY <1>1, <1>4, <2>1 DEF IsInjective
  <2> QED
    BY <1>1, <2>2
<1> QED
  BY <1>2, <1>3, <1>5, <1>6 DEF u

\* What stays when some entries leave, in the order it stood in: entry n of the
\* rest is the entry of the sequence at Place(n), and Place grows with n.
LEMMA WithoutSets ==
  ASSUME NEW S, NEW s \in Seq(S), NEW gone
  PROVE  LET left == Without(s, gone)
         IN /\ left \in Seq(S) /\ Len(left) <= Len(s)
            /\ ToSet(left) = ToSet(s) \ gone
            /\ IsInjective(s) => IsInjective(left)
            /\ \A m, n \in 1..Len(left) : m < n =>
                 \E i, j \in 1..Len(s) : i < j /\ s[i] = left[m] /\ s[j] = left[n]
<1> DEFINE K == {i \in 1..Len(s) : s[i] \notin gone}
           Below(i) == {j \in K : j <= i}
           R == [i \in K |-> Cardinality(Below(i))]
           c == Cardinality(K)
           Place(n) == CHOOSE i \in K : Cardinality(Below(i)) = n
           u == [n \in 1..c |-> s[Place(n)]]
<1>1. Len(s) \in Nat /\ DOMAIN s = 1..Len(s) /\ s \in [1..Len(s) -> S]
  BY LenProperties
<1>2. Without(s, gone) = u
  BY <1>1 DEF Without
<1>3. IsFiniteSet(K) /\ c \in Nat /\ c <= Len(s)
  <2>1. \A n \in Nat : IsFiniteSet(1..n) /\ Cardinality(1..n) = n
    BY FS_Interval
  <2>2. K \in SUBSET (1..Len(s))
    OBVIOUS
  <2>3. IsFiniteSet(1..Len(s)) /\ Cardinality(1..Len(s)) = Len(s)
    BY <1>1, <2>1
  <2> HIDE DEF K
  <2>4. IsFiniteSet(K) /\ Cardinality(K) <= Cardinality(1..Len(s))
    BY <2>2, <2>3, FS_Subset
  <2>5. Cardinality(K) \in Nat
    BY <2>4, FS_CardinalityType
  <2> QED
    BY <2>3, <2>4, <2>5
<1>4. K \subseteq Nat
  BY <1>1
<1>5. \A i \in K : /\ Below(i) \subseteq K /\ IsFiniteSet(Below(i)) /\ Cardinality(Below(i)) \in 1..c
  <2> SUFFICES ASSUME NEW i \in K
               PROVE  /\ Below(i) \subseteq K /\ IsFiniteSet(Below(i))
                      /\ Cardinality(Below(i)) \in 1..c
    OBVIOUS
  <2>1. Below(i) \in SUBSET K /\ i \in Below(i)
    BY <1>4
  <2> HIDE DEF K, Below
  <2>2. IsFiniteSet(Below(i)) /\ Cardinality(Below(i)) <= c
    BY <1>3, <2>1, FS_Subset
  <2>3. Cardinality(Below(i)) \in Nat /\ Cardinality(Below(i)) # 0
    BY <2>1, <2>2, FS_CardinalityType, FS_EmptySet
  <2> HIDE DEF c
  <2> QED
    BY <1>3, <2>1, <2>2, <2>3
<1>6. \A i, j \in K : i < j => Cardinality(Below(i)) < Cardinality(Below(j))
  <2> SUFFICES ASSUME NEW i \in K, NEW j \in K, i < j
               PROVE  Cardinality(Below(i)) < Cardinality(Below(j))
    OBVIOUS
  <2>1. Below(i) \in SUBSET Below(j) /\ j \in Below(j) /\ j \notin Below(i)
    BY <1>4
  <2>2. IsFiniteSet(Below(j)) /\ Cardinality(Below(i)) \in 1..c /\ Cardinality(Below(j)) \in 1..c
    BY <1>5
  <2> HIDE DEF K, Below, c
  <2>3. /\ Cardinality(Below(i)) <= Cardinality(Below(j))
        /\ Cardinality(Below(j)) = Cardinality(Below(i)) => Below(j) = Below(i)
    BY <2>1, <2>2, FS_Subset
  <2>4. Cardinality(Below(j)) # Cardinality(Below(i))
    BY <2>1, <2>3
  <2> QED
    BY <1>3, <2>2, <2>3, <2>4
<1>7. R \in [K -> 1..c]
  <2> HIDE DEF K, Below, c
  <2> QED
    BY <1>5
<1>8. R \in Injection(K, 1..c)
  <2>1. \A i, j \in K : R[i] = R[j] => i = j
    <3> SUFFICES ASSUME NEW i \in K, NEW j \in K, R[i] = R[j] PROVE i = j
      OBVIOUS
    <3>1. Cardinality(Below(i)) = Cardinality(Below(j))
      OBVIOUS
    <3>2. Cardinality(Below(i)) \in 1..c /\ i \in Nat /\ j \in Nat
      BY <1>4, <1>5
    <3> HIDE DEF K, Below, c
    <3>3. ~(i < j) /\ ~(j < i)
      BY <1>3, <1>6, <3>1, <3>2
    <3> QED
      BY <3>2, <3>3
  <2> HIDE DEF K, R, c
  <2> QED
    BY <1>7, <2>1 DEF Injection, IsInjective
<1>9. R \in Surjection(K, 1..c)
  <2>1. \A n \in Nat : IsFiniteSet(1..n) /\ Cardinality(1..n) = n
    BY FS_Interval
  <2>2. IsFiniteSet(1..c) /\ Cardinality(1..c) = c
    BY <1>3, <2>1
  <2>3. Cardinality(K) = Cardinality(1..c)
    BY <2>2
  <2> HIDE DEF K, R, c
  <2> QED
    BY <1>8, <2>2, <2>3, FS_Injection
<1>10. \A n \in 1..c : Place(n) \in K /\ Cardinality(Below(Place(n))) = n
  <2> SUFFICES ASSUME NEW n \in 1..c PROVE Place(n) \in K /\ Cardinality(Below(Place(n))) = n
    OBVIOUS
  <2>1. \E i \in K : R[i] = n
    <3> HIDE DEF K, R, c
    <3> QED
      BY <1>9 DEF Surjection
  <2>2. \E i \in K : Cardinality(Below(i)) = n
    BY <2>1
  <2> HIDE DEF K, Below, c
  <2> QED
    BY <2>2
<1>11. \A i \in K : R[i] \in 1..c /\ Place(R[i]) = i
  <2> SUFFICES ASSUME NEW i \in K PROVE R[i] \in 1..c /\ Place(R[i]) = i
    OBVIOUS
  <2>1. R[i] \in 1..c
    BY <1>7
  <2>2. Place(R[i]) \in K /\ R[Place(R[i])] = R[i]
    BY <1>10, <2>1
  <2> HIDE DEF K, R, c, Place
  <2> QED
    BY <1>8, <2>1, <2>2 DEF Injection, IsInjective
<1>12. \A m, n \in 1..c : m < n => Place(m) < Place(n)
  <2> SUFFICES ASSUME NEW m \in 1..c, NEW n \in 1..c, m < n PROVE Place(m) < Place(n)
    OBVIOUS
  <2>1. /\ Place(m) \in K /\ Cardinality(Below(Place(m))) = m
        /\ Place(n) \in K /\ Cardinality(Below(Place(n))) = n
    BY <1>10
  <2> HIDE DEF K, Below, c, Place
  <2>2. Place(m) \in Nat /\ Place(n) \in Nat
    BY <1>4, <2>1
  <2>3. m # n
    BY <1>3
  <2>4. Place(m) # Place(n)
    <3> SUFFICES ASSUME Place(m) = Place(n) PROVE FALSE
      OBVIOUS
    <3>1. Cardinality(Below(Place(m))) = Cardinality(Below(Place(n)))
      OBVIOUS
    <3> QED
      BY <2>1, <2>3, <3>1
  <2>5. ~(Place(n) < Place(m))
    <3> SUFFICES ASSUME Place(n) < Place(m) PROVE FALSE
      OBVIOUS
    <3>1. Cardinality(Below(Place(n))) < Cardinality(Below(Place(m)))
      BY <1>6, <2>1
    <3> QED
      BY <1>3, <2>1, <3>1
  <2> QED
    BY <2>2, <2>4, <2>5
<1>13. \A i \in K : i \in 1..Len(s) /\ s[i] \in S /\ s[i] \notin gone
  BY <1>1
<1>14. \A i \in 1..Len(s) : s[i] \notin gone => i \in K
  OBVIOUS
<1> HIDE DEF K, R, c, Place
<1>15. u \in [1..c -> S] /\ \A n \in 1..c : u[n] = s[Place(n)]
  BY <1>10, <1>13
<1>16. u \in Seq(S) /\ Len(u) = c /\ DOMAIN u = 1..c
  BY <1>3, <1>15, SeqDef
<1> HIDE DEF u
<1>17. ToSet(u) = ToSet(s) \ gone
  <2>1. ToSet(u) \subseteq ToSet(s) \ gone
    BY <1>1, <1>10, <1>13, <1>15, <1>16 DEF ToSet
  <2>2. \A i \in 1..Len(s) : s[i] \notin gone => s[i] \in ToSet(u)
    <3> SUFFICES ASSUME NEW i \in 1..Len(s), s[i] \notin gone PROVE s[i] \in ToSet(u)
      OBVIOUS
    <3>1. i \in K
      BY <1>14
    <3>2. R[i] \in 1..c /\ u[R[i]] = s[i]
      BY <1>11, <1>15, <3>1
    <3> QED
      BY <1>16, <3>2 DEF ToSet
  <2>3. ToSet(s) \ gone \subseteq ToSet(u)
    BY <1>1, <2>2 DEF ToSet
  <2> QED
    BY <2>1, <2>3
<1>18. IsInjective(s) => IsInjective(u)
  <2> SUFFICES ASSUME IsInjective(s), NEW m \in 1..c, NEW n \in 1..c, u[m] = u[n]
               PROVE  m = n
    BY <1>16 DEF IsInjective
  <2>1. Place(m) \in 1..Len(s) /\ Place(n) \in 1..Len(s) /\ s[Place(m)] = s[Place(n)]
    BY <1>10, <1>13, <1>15
  <2>2. Place(m) = Place(n)
    BY <1>1, <2>1 DEF IsInjective
  <2>3. Cardinality(Below(Place(m))) = m /\ Cardinality(Below(Place(n))) = n
    BY <1>10
  <2> HIDE DEF Below
  <2> QED
    BY <2>2, <2>3
<1>19. ASSUME NEW m \in 1..c, NEW n \in 1..c, m < n
       PROVE  \E i, j \in 1..Len(s) : i < j /\ s[i] = u[m] /\ s[j] = u[n]
  <2>1. /\ Place(m) \in 1..Len(s) /\ Place(n) \in 1..Len(s) /\ Place(m) < Place(n)
        /\ u[m] = s[Place(m)] /\ u[n] = s[Place(n)]
    BY <1>10, <1>12, <1>13, <1>15, <1>19
  <2> QED
    BY <2>1
<1> QED
  BY <1>2, <1>3, <1>16, <1>17, <1>18, <1>19

-----------------------------------------------------------------------------
(* The inductive invariant.                                                 *)

\* Where the loop stands says how much is in flight, and what a pass has open.
LoopInv ==
  /\ loop = "schedule" <=> stage # "idle"
  /\ stage = "idle" => pass = NoPass
  /\ stage # "waiting" => pass.over = <<>> /\ pass.later = <<>>
  /\ IF loop \in {"aborts", "retire"} THEN batch # <<>>
                                      ELSE Len(batch) <= 1 /\ parked = <<>>

\* A request is added once: the message that adds it is still to be handled
\* exactly as long as the request is new to the engine.
Adds == {i \in DOMAIN input : input[i].type = "add"}
MessageInv ==
  /\ \A r \in Req : req[r].status = "new" => req[r] = Fresh
  /\ \A r \in Req \ sent : req[r].status = "new"
  /\ \A i \in Adds : req[input[i].id].status = "new" /\ input[i].id \in sent
  /\ \A i, j \in Adds : i # j => input[i].id # input[j].id

\* The five places a live request may stand in, as sets without overlap.
Apart(A, B, C, D, E) ==
  /\ A \cap B = {} /\ A \cap C = {} /\ A \cap D = {} /\ A \cap E = {}
  /\ B \cap C = {} /\ B \cap D = {} /\ B \cap E = {}
  /\ C \cap D = {} /\ C \cap E = {} /\ D \cap E = {}

Stand(A, B, C, D, E, all) == Apart(A, B, C, D, E) /\ A \cup B \cup C \cup D \cup E = all

QueueInv ==
  /\ IsInjective(running) /\ IsInjective(pass.over) /\ IsInjective(skipped)
  /\ IsInjective(pass.later) /\ IsInjective(waiting)
  /\ Stand(ToSet(running), ToSet(pass.over), ToSet(skipped), ToSet(pass.later),
           ToSet(waiting), {r \in Req : Live(r)})
  /\ held \subseteq ToSet(running)
  /\ Len(running) <= MaxRunning

\* A pass schedules running requests only, and none it has not come to yet.
Runs(r) == r \in ToSet(running)
PassInv ==
  /\ pass.at > 0
  /\ \A r \in Req :
       /\ pass.out[r] # Nothing => Runs(r)
       /\ pass.out[r].tokens = 0 => pass.out[r] = Nothing
       /\ ~pass.out[r].samples
  /\ stage = "running" =>
       \A i \in 1..Len(running) : i >= pass.at => pass.out[running[i]] = Nothing

\* Only a step that samples uses drafts, and one without tokens does nothing.
Sound(o) == (o.tokens = 0 => o = Nothing) /\ (o.drafts > 0 => o.samples)
OutInv ==
  \A i \in 1..Len(InFlight) : \A r \in Req :
    Sound(InFlight[i][r]) /\ (req[r].status = "new" => InFlight[i][r] = Nothing)

\* What a request's counters c say, when it runs or not, when the pass gave it o,
\* and when the outputs in flight hold tokens for it and may return due of them.
\* A chunk of a prefill has nothing due; a decode stands just before its next token.
Counted(r, c, runs, o, tokens, due) ==
  /\ c.output < MaxTokens[r]
  /\ c.inFlight = tokens
  /\ runs => c.stale = 0 /\ c.owed = due
  /\ ~runs => c.stale = c.inFlight /\ c.owed = 0
  /\ runs /\ o.tokens = 0 /\ c.chunk => c.owed = 0 /\ c.computed < Prompt[r] + c.output
  /\ runs /\ o.tokens = 0 /\ ~c.chunk =>
       c.computed = Prompt[r] + c.output + c.owed - 1 /\ c.output + c.owed > 0
  /\ runs /\ o.tokens > 0 =>
       LET end == c.computed + o.tokens
           decodes == Prompt[r] + c.output + c.owed
       IN /\ end < decodes => c.owed = 0 /\ o.drafts = 0
          /\ end >= decodes => end = decodes + o.drafts

Held(r) == Total(TokensOf, r)     \* tokens of r in flight
Dues(r) == Total(Due, r)          \* and what they may return

CountInv ==
  \A r \in Req : Live(r) => Counted(r, req[r], Runs(r), pass.out[r], Held(r), Dues(r))

Core == TypeOK /\ LoopInv /\ MessageInv /\ QueueInv /\ PassInv /\ OutInv /\ CountInv

-----------------------------------------------------------------------------
(* The arithmetic of a step.                                                *)

LEMMA Division ==
  ASSUME NEW x \in Nat
  PROVE  /\ (x \div Block) * Block \in Int /\ (x \div Block) * Block <= x
         /\ (x \div Block + 1) * Block \in Int
<1>1. Block \in Nat \ {0}
  BY BudgetAssumption
<1>2. x \div Block \in Int
  BY <1>1
<1>3. (x \div Block) * Block <= x
  BY <1>1
<1> QED
  BY <1>1, <1>2, <1>3

LEMMA SmallerOf ==
  ASSUME NEW a \in Int, NEW b \in Int
  PROVE  Smaller(a, b) \in {a, b} /\ Smaller(a, b) <= a /\ Smaller(a, b) <= b
BY DEF Smaller

\* An aligned chunk is never longer than what was asked for, and a request past
\* the end of its prefill gets exactly that.
LEMMA AlignedBounds ==
  ASSUME NEW r \in Req, req[r].output \in Nat, NEW start \in Nat, NEW want \in Nat
  PROVE  /\ Aligned(r, start, want) \in 0..want
         /\ start >= Prompt[r] /\ start >= NumTokens(r) - 1 => Aligned(r, start, want) = want
<1> DEFINE tokens == NumTokens(r)
           prefillEnd == IF Prompt[r] > tokens - 1 THEN Prompt[r] ELSE tokens - 1
           whole == ((start + want) \div Block) * Block
           end == IF start + want < prefillEnd /\ (whole > start \/ Block <= Configured)
                    THEN whole ELSE start + want
           lastCacheable == (tokens \div Block) * Block
           boundary == IF start % Block # 0 THEN (start \div Block + 1) * Block ELSE 0
           stops == {s \in {boundary, lastCacheable} \cup Publication[r] : start < s /\ s < end}
           stop == IF stops = {} THEN end ELSE CHOOSE s \in stops : \A t \in stops : s <= t
<1>1. Prompt[r] \in Nat \ {0} /\ tokens \in Nat /\ Publication[r] \subseteq Nat
  BY RequestAssumption DEF NumTokens
<1>2. whole \in Int /\ whole <= start + want
  <2>1. start + want \in Nat
    OBVIOUS
  <2> QED
    BY <2>1, Division
<1>3. lastCacheable \in Int /\ boundary \in Int
  BY <1>1, Division
<1>4. Aligned(r, start, want) =
        IF start >= prefillEnd THEN want ELSE IF stop > start THEN stop - start ELSE 0
  BY DEF Aligned
<1> HIDE DEF whole, lastCacheable, boundary, tokens
<1>5. end \in Int /\ end <= start + want
  BY <1>2
<1> HIDE DEF end
<1>6. stops \subseteq Nat
  BY <1>1, <1>3
<1>7. \A s \in stops : s < end
  OBVIOUS
<1> HIDE DEF stops
<1>8. stop \in Int /\ stop <= end
  <2>1. CASE stops = {}
    BY <1>5, <2>1
  <2>2. CASE stops # {}
    <3>1. \E s \in stops : \A t \in stops : s <= t
      BY <1>6, <2>2, LeastNumber
    <3>2. stop \in stops
      BY <2>2, <3>1
    <3> HIDE DEF stop
    <3> QED
      BY <1>5, <1>6, <1>7, <3>2
  <2> QED
    BY <2>1, <2>2
<1> HIDE DEF stop
<1>9. prefillEnd \in Int /\ (start >= prefillEnd <=> start >= Prompt[r] /\ start >= tokens - 1)
  BY <1>1
<1> HIDE DEF prefillEnd
<1>10. Aligned(r, start, want) \in 0..want
  BY <1>4, <1>5, <1>8, <1>9
<1> QED
  BY <1>4, <1>9, <1>10 DEF tokens

\* The most drafts a table gives is a number.
LEMMA MostDraftsIsNat == MostDrafts \in Nat
<1> DEFINE lengths == {Drafts[n] : n \in 1..MaxRunning}
<1>1. MaxRunning \in Nat \ {0} /\ Drafts \in [1..MaxRunning -> Nat]
  BY BudgetAssumption, DraftsAssumption
<1>2. \E n \in 1..MaxRunning : \A m \in 1..MaxRunning : Drafts[m] <= Drafts[n]
  BY <1>1, GreatestValue
<1>3. \E n \in lengths : \A m \in lengths : m <= n
  BY <1>2
<1>4. MostDrafts \in lengths
  <2> HIDE DEF lengths
  <2>1. (CHOOSE n \in lengths : \A m \in lengths : m <= n) \in lengths
    BY <1>3
  <2> QED
    BY <2>1 DEF MostDrafts, lengths
<1> QED
  BY <1>1, <1>4

-----------------------------------------------------------------------------
(* What is in flight.                                                       *)

LEMMA EntryParts ==
  /\ Nothing \in Entry /\ Nothing.tokens = 0 /\ Nothing.drafts = 0 /\ ~Nothing.samples
  /\ Empty \in OutputType /\ \A r \in Req : Empty[r] = Nothing
  /\ \A o \in OutputType, r \in Req :
       /\ o[r] \in Entry /\ o[r].tokens \in Nat /\ o[r].drafts \in Nat /\ o[r].samples \in BOOLEAN
       /\ TokensOf(o, r) \in Nat /\ Due(o, r) \in Nat
       /\ o[r] = Nothing => TokensOf(o, r) = 0 /\ Due(o, r) = 0
BY DEF Nothing, Entry, Empty, OutputType, TokensOf, Due

LEMMA InFlightIs ==
  ASSUME TypeOK
  PROVE  /\ InFlight \in Seq(OutputType) /\ Len(InFlight) = Len(batch) + Len(parked)
         /\ Len(InFlight) \in 0..2
         /\ batch # <<>> => Len(batch) > 0 /\ InFlight[1] = batch[1] /\ InFlight # <<>>
         /\ \A i \in 1..Len(InFlight) : InFlight[i] \in OutputType
<1>1. /\ batch \in Seq(OutputType) /\ parked \in Seq(OutputType) /\ Len(batch) + Len(parked) <= 2
  BY DEF TypeOK, QueueSize
<1>2. Len(batch) \in Nat /\ Len(parked) \in Nat
  BY <1>1, LenProperties
<1>3. /\ InFlight \in Seq(OutputType) /\ Len(InFlight) = Len(batch) + Len(parked)
      /\ \A i \in 1..Len(batch) + Len(parked) :
           InFlight[i] = IF i <= Len(batch) THEN batch[i] ELSE parked[i - Len(batch)]
  BY <1>1, ConcatProperties DEF InFlight
<1>4. batch # <<>> => Len(batch) # 0
  BY <1>1, EmptySeq
<1> HIDE DEF InFlight
<1>5. batch # <<>> => Len(batch) > 0 /\ InFlight[1] = batch[1] /\ InFlight # <<>>
  <2> SUFFICES ASSUME batch # <<>> PROVE Len(batch) > 0 /\ InFlight[1] = batch[1] /\ InFlight # <<>>
    OBVIOUS
  <2>1. Len(batch) > 0 /\ 1 \in 1..(Len(batch) + Len(parked)) /\ 1 <= Len(batch)
    BY <1>2, <1>4
  <2>2. InFlight[1] = batch[1]
    BY <1>3, <2>1
  <2>3. Len(InFlight) # 0
    BY <1>2, <1>3, <2>1
  <2> QED
    BY <1>3, <2>1, <2>2, <2>3, EmptySeq
<1>6. \A i \in 1..Len(InFlight) : InFlight[i] \in OutputType
  BY <1>3, ElementOfSeq
<1> QED
  BY <1>1, <1>2, <1>3, <1>5, <1>6

\* The sums over it, output by output.
LEMMA HeldIs ==
  ASSUME TypeOK, NEW r \in Req
  PROVE  /\ Held(r) \in Nat /\ Dues(r) \in Nat
         /\ Len(InFlight) = 0 => Held(r) = 0 /\ Dues(r) = 0
         /\ Len(InFlight) = 1 => /\ Held(r) = TokensOf(InFlight[1], r)
                                 /\ Dues(r) = Due(InFlight[1], r)
         /\ Len(InFlight) = 2 => /\ Held(r) = TokensOf(InFlight[1], r) + TokensOf(InFlight[2], r)
                                 /\ Dues(r) = Due(InFlight[1], r) + Due(InFlight[2], r)
<1>1. Len(InFlight) \in 0..2 /\ \A i \in 1..Len(InFlight) : InFlight[i] \in OutputType
  BY InFlightIs
<1>2. \A i \in 1..Len(InFlight) : TokensOf(InFlight[i], r) \in Nat /\ Due(InFlight[i], r) \in Nat
  BY <1>1, EntryParts
<1>3. /\ Held(r) = (IF 1 <= Len(InFlight) THEN TokensOf(InFlight[1], r) ELSE 0)
                   + (IF 2 <= Len(InFlight) THEN TokensOf(InFlight[2], r) ELSE 0)
      /\ Dues(r) = (IF 1 <= Len(InFlight) THEN Due(InFlight[1], r) ELSE 0)
                   + (IF 2 <= Len(InFlight) THEN Due(InFlight[2], r) ELSE 0)
  BY DEF Held, Dues, Total
<1> QED
  BY <1>1, <1>2, <1>3

-----------------------------------------------------------------------------
(* What a turn of the pass may rely on.                                     *)

LEMMA TypeParts ==
  ASSUME TypeOK
  PROVE  /\ req \in [Req -> Counters]
         /\ running \in Seq(Req) /\ waiting \in Seq(Req) /\ skipped \in Seq(Req)
         /\ pass.over \in Seq(Req) /\ pass.later \in Seq(Req)
         /\ pass.at \in Nat /\ pass.tokens \in Nat /\ pass.inputs \in Int /\ pass.short \in Nat
         /\ pass.defer \in BOOLEAN /\ pass.preempted \in BOOLEAN
         /\ pass.out \in OutputType
         /\ Len(running) \in Nat /\ DOMAIN running = 1..Len(running)
         /\ \A i \in 1..Len(running) : running[i] \in Req /\ Runs(running[i])
         /\ \A r \in Req : Runs(r) => \E i \in 1..Len(running) : running[i] = r
<1>1. running \in Seq(Req)
  BY DEF TypeOK
<1>2. Len(running) \in Nat /\ DOMAIN running = 1..Len(running)
  BY <1>1, LenProperties
<1>3. \A i \in 1..Len(running) : running[i] \in Req /\ Runs(running[i])
  BY <1>1, <1>2, ElementOfSeq DEF Runs, ToSet
<1>4. \A r \in Req : Runs(r) => \E i \in 1..Len(running) : running[i] = r
  BY <1>2 DEF Runs, ToSet
<1> QED
  BY <1>1, <1>2, <1>3, <1>4 DEF TypeOK, PassType

LEMMA CountersParts ==
  \A c \in Counters :
    /\ c.computed \in Nat /\ c.output \in Nat /\ c.owed \in Nat /\ c.spec \in Nat
    /\ c.inFlight \in Nat /\ c.stale \in Nat /\ c.blocks \in Nat /\ c.chunk \in BOOLEAN
BY DEF Counters

LEMMA RequestParts ==
  ASSUME TypeOK, NEW r \in Req
  PROVE  /\ req[r] \in Counters
         /\ req[r].computed \in Nat /\ req[r].output \in Nat /\ req[r].owed \in Nat
         /\ req[r].spec \in Nat /\ req[r].inFlight \in Nat /\ req[r].stale \in Nat
         /\ req[r].blocks \in Nat /\ req[r].chunk \in BOOLEAN
         /\ Prompt[r] \in Nat \ {0} /\ MaxTokens[r] \in Nat \ {0} /\ Hit[r] \in Nat
         /\ Hit[r] < Prompt[r] /\ NumTokens(r) = Prompt[r] + req[r].output /\ NumTokens(r) \in Nat
<1>1. req[r] \in Counters
  BY DEF TypeOK
<1> QED
  BY <1>1, CountersParts, RequestAssumption DEF NumTokens

\* A pass that has budget left has room for a token.
LEMMA RoomIs ==
  ASSUME TypeOK, pass.tokens > 0, pass.inputs > DraftSlots
  PROVE  Room \in Nat \ {0} /\ Room <= pass.tokens /\ Room <= pass.inputs - DraftSlots
<1>1. pass.tokens \in Nat /\ pass.inputs \in Int /\ DraftSlots \in Nat
  BY TypeParts, BudgetAssumption
<1>2. \A t \in Nat, i \in Int, d \in Nat : t > 0 /\ i > d =>
        /\ Smaller(t, i - d) \in Nat \ {0}
        /\ Smaller(t, i - d) <= t /\ Smaller(t, i - d) <= i - d
  BY DEF Smaller
<1> QED
  BY <1>1, <1>2 DEF Room

\* A running request the pass comes to has had nothing yet and is alive; what it
\* may be given fits the step, and a decode gets at least one token.
LEMMA RunningTurn ==
  ASSUME Core, NEW r \in Req, Visiting(r)
  PROVE  /\ Runs(r) /\ Live(r) /\ pass.out[r] = Nothing
         /\ pass.at \in 1..Len(running) /\ running[pass.at] = r
         /\ Counted(r, req[r], TRUE, Nothing, Held(r), Dues(r))
         /\ Room \in Nat \ {0} /\ Room <= pass.tokens /\ Room <= pass.inputs - DraftSlots
         /\ NewTokens(r) \in 0..Room
         /\ req[r].computed + NewTokens(r) <= NumTokens(r) + req[r].spec + req[r].owed
         /\ ~req[r].chunk => NewTokens(r) > 0
         /\ Left(r) \in Int
<1> DEFINE want == NumTokens(r) + req[r].spec + req[r].owed - req[r].computed
<1>1. TypeOK /\ QueueInv /\ PassInv /\ CountInv
  BY DEF Core
<1>2. pass.at \in 1..Len(running) /\ running[pass.at] = r /\ stage = "running"
  BY <1>1, TypeParts DEF Visiting, PassInv
<1>3. Runs(r) /\ pass.out[r] = Nothing
  BY <1>1, <1>2, TypeParts DEF PassInv
<1>4. Live(r)
  BY <1>1, <1>3 DEF QueueInv, Stand, Runs
<1>5. Counted(r, req[r], TRUE, Nothing, Held(r), Dues(r))
  BY <1>1, <1>3, <1>4 DEF CountInv, Counted
<1>6. Room \in Nat \ {0} /\ Room <= pass.tokens /\ Room <= pass.inputs - DraftSlots
  BY <1>1, RoomIs DEF Visiting
<1>7. want \in Nat \ {0}
  BY <1>1, <1>5, RequestParts, EntryParts DEF Counted
<1>8. NewTokens(r) = Aligned(r, req[r].computed, Smaller(want, Room))
  BY DEF NewTokens
<1> HIDE DEF want
<1>9. Smaller(want, Room) \in Nat \ {0} /\ Smaller(want, Room) <= want /\ Smaller(want, Room) <= Room
  BY <1>6, <1>7, SmallerOf
<1>10. req[r].computed \in Nat /\ req[r].output \in Nat
  BY <1>1, RequestParts
<1>11. /\ NewTokens(r) \in 0..Smaller(want, Room)
       /\ req[r].computed >= Prompt[r] /\ req[r].computed >= NumTokens(r) - 1
            => NewTokens(r) = Smaller(want, Room)
  BY <1>8, <1>9, <1>10, AlignedBounds
<1>12. NewTokens(r) \in 0..Room /\ NewTokens(r) <= want
  BY <1>6, <1>7, <1>9, <1>11
<1>13. req[r].computed + NewTokens(r) <= NumTokens(r) + req[r].spec + req[r].owed
  BY <1>1, <1>12, RequestParts DEF want
<1>14. ~req[r].chunk => NewTokens(r) > 0
  <2> SUFFICES ASSUME ~req[r].chunk PROVE NewTokens(r) > 0
    OBVIOUS
  <2>1. req[r].computed >= Prompt[r] /\ req[r].computed >= NumTokens(r) - 1
    BY <1>1, <1>5, RequestParts, EntryParts DEF Counted
  <2> QED
    BY <1>9, <1>11, <2>1
<1>15. Left(r) \in Int
  BY <1>1, RequestParts DEF Left
<1> QED
  BY <1>2, <1>3, <1>4, <1>5, <1>6, <1>12, <1>13, <1>14, <1>15

\* What a grant leaves of the request: the tokens end where its prefill does,
\* short of it, or past it by exactly the drafts it is given.
LEMMA GrantedCount ==
  ASSUME Core, NEW r \in Req, Eligible(r), NewTokens(r) > 0,
         NEW drafts, drafts = NewTokens(r) + req[r].computed - NumTokens(r) - req[r].owed,
         NEW o \in Entry,
         o.tokens = NewTokens(r), o.drafts = IF req[r].spec > 0 /\ drafts > 0 THEN drafts ELSE 0,
         NEW c \in Counters,
         c.computed = req[r].computed, c.output = req[r].output, c.owed = req[r].owed,
         c.inFlight = req[r].inFlight, c.stale = req[r].stale, c.chunk = req[r].chunk
  PROVE  Counted(r, c, TRUE, o, Held(r), Dues(r))
<1>1. TypeOK /\ Visiting(r)
  BY DEF Core, Eligible
<1>2. /\ Counted(r, req[r], TRUE, Nothing, Held(r), Dues(r))
      /\ NewTokens(r) \in Nat
      /\ req[r].computed + NewTokens(r) <= NumTokens(r) + req[r].spec + req[r].owed
  <2>1. /\ Counted(r, req[r], TRUE, Nothing, Held(r), Dues(r))
        /\ Room \in Nat \ {0} /\ NewTokens(r) \in 0..Room
        /\ req[r].computed + NewTokens(r) <= NumTokens(r) + req[r].spec + req[r].owed
    BY <1>1, RunningTurn
  <2>2. NewTokens(r) \in Nat
    BY <2>1
  <2> QED
    BY <2>1, <2>2
<1>3. /\ req[r].computed \in Nat /\ req[r].output \in Nat /\ req[r].owed \in Nat
      /\ req[r].spec \in Nat /\ Prompt[r] \in Nat /\ NumTokens(r) = Prompt[r] + req[r].output
      /\ req[r].chunk \in BOOLEAN
  BY <1>1, RequestParts
<1>4. /\ req[r].chunk => req[r].owed = 0
      /\ ~req[r].chunk => req[r].computed = Prompt[r] + req[r].output + req[r].owed - 1
      /\ req[r].output < MaxTokens[r] /\ req[r].inFlight = Held(r)
      /\ req[r].stale = 0 /\ req[r].owed = Dues(r)
  BY <1>2, EntryParts DEF Counted
<1> DEFINE end == req[r].computed + NewTokens(r)
           decodes == Prompt[r] + req[r].output + req[r].owed
<1>5. end < decodes => req[r].owed = 0 /\ o.drafts = 0
  BY <1>2, <1>3, <1>4
<1>6. end >= decodes => end = decodes + o.drafts
  BY <1>2, <1>3, <1>4
<1> QED
  BY <1>4, <1>5, <1>6 DEF Counted

\* A waiting candidate is alive and stands at the head of its queue; one that is
\* not blocked has nothing in flight and is owed nothing.
LEMMA WaitingTurn ==
  ASSUME Core, NEW r \in Req, Candidate(r)
  PROVE  /\ ~Runs(r) /\ Live(r) /\ pass.out[r] = Nothing
         /\ Counted(r, req[r], FALSE, Nothing, Held(r), Dues(r))
         /\ Room \in Nat \ {0} /\ Room <= pass.tokens /\ Room <= pass.inputs - DraftSlots
         /\ FirstChunk(r) \in 0..Room /\ FirstChunk(r) <= NumTokens(r) - Hit[r]
         /\ Len(running) < MaxRunning
         /\ \/ skipped # <<>> /\ r = Head(skipped)
            \/ skipped = <<>> /\ waiting # <<>> /\ r = Head(waiting)
<1>1. TypeOK /\ QueueInv /\ PassInv /\ CountInv
  BY DEF Core
<1>2. \/ skipped # <<>> /\ r = Head(skipped)
      \/ skipped = <<>> /\ waiting # <<>> /\ r = Head(waiting)
  BY DEF Candidate
<1>3. r \in ToSet(skipped) \/ r \in ToSet(waiting)
  <2>1. CASE skipped # <<>> /\ r = Head(skipped)
    <3>1. skipped \in Seq(Req)
      BY <1>1, TypeParts
    <3>2. ToSet(skipped) = {Head(skipped)} \cup ToSet(Tail(skipped))
      BY <2>1, <3>1, PopSets
    <3> QED
      BY <2>1, <3>2
  <2>2. CASE skipped = <<>> /\ waiting # <<>> /\ r = Head(waiting)
    <3>1. waiting \in Seq(Req)
      BY <1>1, TypeParts
    <3>2. ToSet(waiting) = {Head(waiting)} \cup ToSet(Tail(waiting))
      BY <2>2, <3>1, PopSets
    <3> QED
      BY <2>2, <3>2
  <2> QED
    BY <1>2, <2>1, <2>2
<1>4. ~Runs(r) /\ Live(r)
  BY <1>1, <1>3 DEF QueueInv, Stand, Apart, Runs
<1>5. pass.out[r] = Nothing
  BY <1>1, <1>4 DEF PassInv
<1>6. Counted(r, req[r], FALSE, Nothing, Held(r), Dues(r))
  BY <1>1, <1>4, <1>5 DEF CountInv, Counted
<1>7. Room \in Nat \ {0} /\ Room <= pass.tokens /\ Room <= pass.inputs - DraftSlots
  BY <1>1, RoomIs DEF Candidate
<1> DEFINE want == Smaller(NumTokens(r) - Hit[r], Room)
<1>8. NumTokens(r) - Hit[r] \in Nat \ {0} /\ Hit[r] \in Nat /\ req[r].output \in Nat
  BY <1>1, RequestParts
<1>9. want \in Nat \ {0} /\ want <= NumTokens(r) - Hit[r] /\ want <= Room
  BY <1>7, <1>8, SmallerOf
<1>10. FirstChunk(r) = Aligned(r, Hit[r], want)
  BY DEF FirstChunk
<1> HIDE DEF want
<1>11. FirstChunk(r) \in 0..want
  BY <1>8, <1>9, <1>10, AlignedBounds
<1>12. FirstChunk(r) \in 0..Room /\ FirstChunk(r) <= NumTokens(r) - Hit[r]
  BY <1>7, <1>8, <1>9, <1>11
<1> QED
  BY <1>2, <1>4, <1>5, <1>6, <1>7, <1>12 DEF Candidate

-----------------------------------------------------------------------------
(* Steps that leave the requests, the queues and the pass alone.            *)

LEMMA SameInFlight ==
  ASSUME UNCHANGED <<batch, parked>>
  PROVE  InFlight' = InFlight /\ \A r \in Req : Held(r)' = Held(r) /\ Dues(r)' = Dues(r)
<1>1. InFlight' = InFlight
  BY DEF InFlight
<1> QED
  BY <1>1 DEF Held, Dues, Total, TokensOf, Due

LEMMA SameMessages ==
  ASSUME Core, UNCHANGED <<input, sent>>,
         \A r \in Req : /\ req'[r].status = "new" <=> req[r].status = "new"
                        /\ req[r].status = "new" => req'[r] = req[r]
  PROVE  MessageInv'
<1>1. MessageInv /\ input \in Seq(Message)
  BY DEF Core, TypeOK
<1>2. Adds' = Adds /\ \A i \in Adds : input[i].id \in Req
  <2>1. \A i \in 1..Len(input) : input[i] \in Message
    BY <1>1, ElementOfSeq
  <2>2. DOMAIN input = 1..Len(input)
    BY <1>1, LenProperties
  <2> QED
    BY <2>1, <2>2 DEF Adds, Message
<1> QED
  BY <1>1, <1>2 DEF MessageInv

LEMMA SameOutputs ==
  ASSUME Core, UNCHANGED <<batch, parked>>,
         \A r \in Req : req'[r].status = "new" => req[r].status = "new"
  PROVE  OutInv'
<1>1. InFlight' = InFlight /\ OutInv
  BY SameInFlight DEF Core
<1> QED
  BY <1>1 DEF OutInv

\* The queues when none of them changes and nobody comes or goes.
LEMMA SameQueues ==
  ASSUME Core, UNCHANGED <<running, waiting, skipped>>, held' \subseteq ToSet(running),
         pass'.over = pass.over, pass'.later = pass.later,
         \A r \in Req : req'[r].status = req[r].status
  PROVE  QueueInv' /\ (\A r \in Req : Runs(r)' = Runs(r))
<1>1. {r \in Req : Live(r)}' = {r \in Req : Live(r)} /\ QueueInv
  BY DEF Live, Core
<1> QED
  BY <1>1 DEF QueueInv, Runs

LEMMA Quiet ==
  ASSUME Core, UNCHANGED <<req, running, waiting, skipped, held, stage, pass, batch, parked>>
  PROVE  QueueInv' /\ PassInv' /\ OutInv' /\ CountInv'
<1>1. QueueInv /\ PassInv /\ CountInv /\ held \subseteq ToSet(running)
  BY DEF Core, QueueInv
<1>2. QueueInv' /\ \A r \in Req : Runs(r)' = Runs(r)
  BY <1>1, SameQueues
<1>3. PassInv'
  BY <1>1, <1>2 DEF PassInv
<1>4. OutInv'
  BY SameOutputs
<1>5. CountInv'
  <2>1. \A r \in Req : Held(r)' = Held(r) /\ Dues(r)' = Dues(r)
    BY SameInFlight
  <2> QED
    BY <1>1, <1>2, <2>1 DEF CountInv, Live, Counted
<1> QED
  BY <1>2, <1>3, <1>4, <1>5

LEMMA SendAddKeeps == ASSUME Core, NEW r \in Req, SendAdd(r) PROVE Core'
<1>1. UNCHANGED <<req, running, waiting, skipped, held, stage, pass, batch, parked>>
  BY DEF SendAdd, svars
<1>2. QueueInv' /\ PassInv' /\ OutInv' /\ CountInv'
  BY <1>1, Quiet
<1>3. input \in Seq(Message) /\ [type |-> "add", id |-> r] \in Message
  BY DEF Core, TypeOK, Message
<1>4. /\ input' \in Seq(Message) /\ Len(input') = Len(input) + 1 /\ Len(input) \in Nat
      /\ \A i \in 1..Len(input) : input'[i] = input[i]
      /\ input'[Len(input) + 1] = [type |-> "add", id |-> r]
  BY <1>3, AppendProperties, LenProperties DEF SendAdd
<1>5. TypeOK'
  BY <1>4 DEF Core, TypeOK, SendAdd, svars
<1>6. LoopInv'
  BY DEF Core, LoopInv, SendAdd, svars
<1>7. MessageInv'
  <2>1. DOMAIN input = 1..Len(input) /\ DOMAIN input' = 1..(Len(input) + 1)
    BY <1>3, <1>4, LenProperties
  <2>2. \A i \in Adds' : i = Len(input) + 1 \/ (i \in Adds /\ input'[i] = input[i])
    BY <1>4, <2>1 DEF Adds
  <2>3. MessageInv /\ r \notin sent /\ sent' = sent \cup {r} /\ req' = req
    BY DEF Core, SendAdd, svars
  <2>4. req[r].status = "new" /\ input'[Len(input) + 1].id = r
    BY <1>4, <2>3 DEF MessageInv
  <2>5. \A i \in Adds : input[i].id # r
    BY <2>3 DEF MessageInv
  <2>6. \A i \in Adds' : req'[input'[i].id].status = "new" /\ input'[i].id \in sent'
    BY <2>2, <2>3, <2>4 DEF MessageInv
  <2>7. \A i, j \in Adds' : i # j => input'[i].id # input'[j].id
    BY <2>2, <2>3, <2>4, <2>5 DEF MessageInv
  <2> QED
    BY <2>3, <2>6, <2>7 DEF MessageInv
<1> QED
  BY <1>2, <1>5, <1>6, <1>7 DEF Core

LEMMA SendAbortKeeps == ASSUME Core, NEW r \in Req, SendAbort(r) PROVE Core'
<1>1. UNCHANGED <<req, running, waiting, skipped, held, stage, pass, batch, parked>>
  BY DEF SendAbort, svars
<1>2. QueueInv' /\ PassInv' /\ OutInv' /\ CountInv'
  BY <1>1, Quiet
<1>3. input \in Seq(Message) /\ [type |-> "abort", id |-> r] \in Message
  BY DEF Core, TypeOK, Message
<1>4. /\ input' \in Seq(Message) /\ Len(input') = Len(input) + 1 /\ Len(input) \in Nat
      /\ \A i \in 1..Len(input) : input'[i] = input[i]
      /\ input'[Len(input) + 1] = [type |-> "abort", id |-> r]
  BY <1>3, AppendProperties, LenProperties DEF SendAbort
<1>5. TypeOK'
  BY <1>4 DEF Core, TypeOK, SendAbort, svars
<1>6. LoopInv'
  BY DEF Core, LoopInv, SendAbort, svars
<1>7. MessageInv'
  <2>1. DOMAIN input = 1..Len(input) /\ DOMAIN input' = 1..(Len(input) + 1)
    BY <1>3, <1>4, LenProperties
  <2>2. \A i \in Adds' : i \in Adds /\ input'[i] = input[i]
    BY <1>4, <2>1 DEF Adds
  <2>3. MessageInv /\ sent' = sent /\ req' = req
    BY DEF Core, SendAbort, svars
  <2> QED
    BY <2>2, <2>3 DEF MessageInv
<1> QED
  BY <1>2, <1>5, <1>6, <1>7 DEF Core

LEMMA CompilerKeeps == ASSUME Core, NEW r \in Req, Compiler(r) PROVE Core'
<1>1. /\ UNCHANGED <<req, running, waiting, skipped, held, step, latch, unreported, ring,
                     stage, pass, loop, input, aborts, sent, gaveUp, arrived, batch, parked>>
      /\ compiling' \subseteq compiling
  BY DEF Compiler, Compile, cvars
<1>2. QueueInv' /\ PassInv' /\ OutInv' /\ CountInv'
  BY <1>1, Quiet
<1>3. TypeOK'
  BY <1>1 DEF Core, TypeOK
<1>4. LoopInv'
  BY <1>1 DEF Core, LoopInv
<1>5. MessageInv'
  BY <1>1, SameMessages
<1> QED
  BY <1>2, <1>3, <1>4, <1>5 DEF Core

\* The loop moves on, and forgets the aborts it has seen.
LEMMA LoopMoveKeeps ==
  ASSUME Core, ClearAborts \/ EndPoll \/ EndWindow \/ NothingToSchedule
  PROVE  Core'
<1>1. /\ UNCHANGED <<req, running, waiting, skipped, held, step, latch, unreported, ring,
                     compiling, stage, pass, input, sent, gaveUp, batch, parked>>
      /\ aborts' \subseteq aborts
  BY DEF ClearAborts, EndPoll, EndWindow, NothingToSchedule, svars
<1>2. QueueInv' /\ PassInv' /\ OutInv' /\ CountInv'
  BY <1>1, Quiet
<1>3. TypeOK'
  BY <1>1 DEF Core, TypeOK, ClearAborts, EndPoll, EndWindow, NothingToSchedule
<1>4. LoopInv'
  BY <1>1 DEF Core, LoopInv, ClearAborts, EndPoll, EndWindow, NothingToSchedule
<1>5. MessageInv'
  BY <1>1, SameMessages
<1> QED
  BY <1>2, <1>3, <1>4, <1>5 DEF Core

LEMMA StutterKeeps == ASSUME Core, UNCHANGED vars PROVE Core'
<1>1. /\ UNCHANGED <<req, running, waiting, skipped, held, step, latch, unreported, ring,
                     compiling, stage, pass>>
      /\ UNCHANGED <<loop, input, aborts, sent, gaveUp, arrived, batch, parked>>
  BY DEF vars, svars, cvars
<1>2. QueueInv' /\ PassInv' /\ OutInv' /\ CountInv'
  BY <1>1, Quiet
<1>3. TypeOK'
  BY <1>1 DEF Core, TypeOK
<1>4. LoopInv'
  BY <1>1 DEF Core, LoopInv
<1>5. MessageInv'
  BY <1>1, SameMessages
<1> QED
  BY <1>2, <1>3, <1>4, <1>5 DEF Core

\* A pass begins.
LEMMA StartStepKeeps == ASSUME Core, StartStep PROVE Core'
<1>1. /\ UNCHANGED <<req, running, waiting, skipped, held, latch, unreported, ring, compiling,
                     input, aborts, sent, gaveUp, arrived, batch, parked>>
      /\ stage = "idle" /\ stage' = "running" /\ loop = "step" /\ loop' = "schedule"
      /\ step' = (step + 1) % Interval
  BY DEF StartStep, Begin
<1>2. TypeOK /\ QueueInv /\ CountInv /\ pass = NoPass
  BY <1>1 DEF Core, LoopInv
<1>3. /\ pass'.at = 1 /\ pass'.tokens = Budget /\ pass'.inputs = Configured
      /\ pass'.defer \in BOOLEAN /\ pass'.short = 0 /\ pass'.out = Empty
      /\ pass'.over = <<>> /\ pass'.later = <<>> /\ pass'.preempted = FALSE
  BY DEF StartStep, Begin, NoPass
<1>4. pass.out = Empty /\ pass.over = <<>> /\ pass.later = <<>>
  BY <1>2 DEF NoPass
<1>5. TypeOK'
  <2>1. pass' \in PassType
    <3>1. Budget \in Nat /\ Configured \in Int /\ Empty \in OutputType /\ <<>> \in Seq(Req)
      BY BudgetAssumption, EntryParts
    <3>2. PICK d \in BOOLEAN : pass' = [NoPass EXCEPT !.tokens = Budget, !.inputs = Configured,
                                                     !.defer = d]
      BY DEF StartStep, Begin
    <3> QED
      BY <3>1, <3>2 DEF PassType, NoPass
  <2>2. step' \in 0..(Interval - 1)
    <3>1. step \in Nat /\ Interval \in Nat \ {0}
      BY <1>2, BudgetAssumption DEF TypeOK
    <3> QED
      BY <1>1, <3>1
  <2> QED
    BY <1>1, <1>2, <2>1, <2>2 DEF TypeOK
<1>6. LoopInv'
  BY <1>1, <1>3 DEF Core, LoopInv
<1>7. MessageInv'
  BY <1>1, SameMessages
<1>8. QueueInv' /\ \A r \in Req : Runs(r)' = Runs(r)
  BY <1>1, <1>2, <1>3, <1>4, SameQueues DEF QueueInv
<1>9. PassInv'
  <2>1. running \in Seq(Req) /\ \A i \in 1..Len(running) : running[i] \in Req
    BY <1>2, TypeParts
  <2> QED
    BY <1>1, <1>3, <2>1, EntryParts DEF PassInv
<1>10. OutInv'
  BY <1>1, SameOutputs
<1>11. CountInv'
  <2>1. \A r \in Req : Held(r)' = Held(r) /\ Dues(r)' = Dues(r)
    BY <1>1, SameInFlight
  <2> QED
    BY <1>1, <1>2, <1>3, <1>4, <1>8, <2>1 DEF CountInv, Live, Counted
<1> QED
  BY <1>5, <1>6, <1>7, <1>8, <1>9, <1>10, <1>11 DEF Core

-----------------------------------------------------------------------------
(* The turns of a pass.                                                     *)

\* What a turn leaves of a request whose counters and output it does not touch.
LEMMA SameCount ==
  ASSUME Core, UNCHANGED <<batch, parked>>, NEW q \in Req,
         req'[q] = req[q], Runs(q)' <=> Runs(q), pass'.out[q] = pass.out[q]
  PROVE  Live(q)' => Counted(q, req[q], Runs(q), pass.out[q], Held(q), Dues(q))'
<1>1. Held(q)' = Held(q) /\ Dues(q)' = Dues(q)
  BY SameInFlight
<1>2. Live(q)' => Counted(q, req[q], Runs(q), pass.out[q], Held(q), Dues(q))
  BY DEF Core, CountInv, Live
<1> QED
  BY <1>1, <1>2 DEF Counted

\* Nothing but the queues, the counters and the pass changes in a turn.
Turn ==
  /\ loop = "schedule"
  /\ UNCHANGED <<step, latch, unreported, ring, compiling>>
  /\ UNCHANGED cvars

LEMMA TurnTypes ==
  ASSUME Core, Turn, req' \in [Req -> Counters], pass' \in PassType, held' \subseteq Req,
         running' \in Seq(Req), waiting' \in Seq(Req), skipped' \in Seq(Req),
         stage' \in {"running", "waiting", "built"}
  PROVE  TypeOK'
<1>1. /\ UNCHANGED <<step, latch, unreported, ring, compiling>>
      /\ UNCHANGED <<loop, input, aborts, sent, gaveUp, arrived, batch, parked>>
  BY DEF Turn, cvars
<1>2. TypeOK
  BY DEF Core
<1>3. /\ ring' \in Seq(SUBSET Req) /\ Len(ring') <= RingSlots
      /\ loop' \in {"poll", "coalesce", "step", "schedule", "aborts", "retire"}
      /\ input' \in Seq(Message) /\ aborts' \subseteq Req /\ sent' \subseteq Req
      /\ gaveUp' \subseteq sent' /\ compiling' \subseteq Structured /\ arrived' \in BOOLEAN
      /\ batch' \in Seq(OutputType) /\ parked' \in Seq(OutputType)
      /\ Len(batch') + Len(parked') <= QueueSize
      /\ step' \in 0..(Interval - 1) /\ latch' \in BOOLEAN /\ unreported' \in BOOLEAN
  BY <1>1, <1>2 DEF TypeOK
<1> QED
  BY <1>2, <1>3 DEF TypeOK

\* A request that was held back is one the pass came to.
SkipEach(r) == SkipEnding(r) \/ HoldBack(r) \/ DeferChunk(r) \/ SkipEmpty(r)

LEMMA SkipKeeps == ASSUME Core, NEW r \in Req, Turn, SkipEach(r) PROVE Core'
<1>1. /\ UNCHANGED <<req, running, waiting, skipped, stage>>
      /\ UNCHANGED <<loop, input, sent, batch, parked>>
      /\ Visiting(r) /\ held' \subseteq held \cup {r}
  BY DEF SkipEach, SkipEnding, HoldBack, DeferChunk, SkipEmpty, Eligible, Turn, cvars
<1>2. TypeOK /\ LoopInv /\ QueueInv /\ PassInv /\ CountInv
  BY DEF Core
<1>3. Runs(r) /\ Left(r) \in Int /\ stage = "running" /\ pass.at \in Nat /\ pass.short \in Nat
  BY <1>1, <1>2, RunningTurn, TypeParts DEF Visiting
<1>4. PICK n \in Nat : pass' = [pass EXCEPT !.at = @ + 1, !.short = n]
  <2>1. CASE SkipEnding(r) \/ HoldBack(r) \/ DeferChunk(r)
    <3>1. pass' = [pass EXCEPT !.at = @ + 1]
      BY <2>1 DEF SkipEnding, HoldBack, DeferChunk
    <3>2. pass' = [pass EXCEPT !.at = @ + 1, !.short = pass.short]
      BY <1>2, <3>1 DEF TypeOK, PassType
    <3> QED
      BY <1>3, <3>2
  <2>2. CASE SkipEmpty(r)
    <3>1. ShortAfter(r) \in Nat
      BY <1>3, <2>2 DEF SkipEmpty, Eligible, ShortAfter, Admits
    <3> QED
      BY <2>2, <3>1 DEF SkipEmpty
  <2> QED
    BY <2>1, <2>2 DEF SkipEach
<1>5. /\ pass'.at = pass.at + 1 /\ pass'.out = pass.out
      /\ pass'.over = pass.over /\ pass'.later = pass.later /\ pass' \in PassType
  <2>1. pass \in PassType
    BY <1>2 DEF TypeOK
  <2>2. pass.at + 1 \in Nat
    BY <1>3
  <2> QED
    BY <1>4, <2>1, <2>2 DEF PassType
<1>6. held' \subseteq ToSet(running) /\ ToSet(running) \subseteq Req
  <2>1. running \in Seq(Req)
    BY <1>2, TypeParts
  <2>2. ToSet(running) \subseteq Req
    BY <2>1, ToSetOf
  <2> QED
    BY <1>1, <1>2, <1>3, <2>2 DEF QueueInv, Runs
<1>7. TypeOK'
  BY <1>1, <1>2, <1>3, <1>5, <1>6, TurnTypes DEF TypeOK
<1>8. LoopInv'
  BY <1>1, <1>2, <1>3, <1>5 DEF LoopInv
<1>9. MessageInv'
  BY <1>1, SameMessages
<1>10. QueueInv' /\ \A q \in Req : Runs(q)' = Runs(q)
  BY <1>1, <1>5, <1>6, SameQueues
<1>11. PassInv'
  <2>1. Len(running) \in Nat
    BY <1>2, TypeParts
  <2> QED
    BY <1>1, <1>2, <1>3, <1>5, <1>10, <2>1 DEF PassInv
<1>12. OutInv'
  BY <1>1, SameOutputs
<1>13. CountInv'
  BY <1>1, <1>5, <1>10, SameCount DEF CountInv
<1> QED
  BY <1>7, <1>8, <1>9, <1>10, <1>11, <1>12, <1>13 DEF Core

\* The running pass ends.
LEMMA EndRunningKeeps == ASSUME Core, Turn, EndRunning PROVE Core'
<1>1. /\ UNCHANGED <<req, running, waiting, skipped, held, pass>>
      /\ UNCHANGED <<loop, input, sent, batch, parked>>
      /\ stage = "running" /\ stage' \in {"built", "waiting"}
  BY DEF EndRunning, Turn, cvars
<1>2. TypeOK /\ LoopInv /\ QueueInv /\ PassInv
  BY DEF Core
<1>3. held \subseteq ToSet(running)
  BY <1>2 DEF QueueInv
<1>4. TypeOK'
  BY <1>1, <1>2, TurnTypes DEF TypeOK
<1>5. LoopInv'
  BY <1>1, <1>2 DEF LoopInv
<1>6. MessageInv'
  BY <1>1, SameMessages
<1>7. QueueInv' /\ \A q \in Req : Runs(q)' = Runs(q)
  BY <1>1, <1>3, SameQueues
<1>8. PassInv'
  BY <1>1, <1>2, <1>7 DEF PassInv
<1>9. OutInv'
  BY <1>1, SameOutputs
<1>10. CountInv'
  BY <1>1, <1>7, SameCount DEF CountInv
<1> QED
  BY <1>4, <1>5, <1>6, <1>7, <1>8, <1>9, <1>10 DEF Core

\* A request leaves the head of its queue for another place.
LEMMA PopIs ==
  ASSUME Core, NEW r \in Req, Candidate(r), Pop
  PROVE  /\ skipped' \in Seq(Req) /\ waiting' \in Seq(Req)
         /\ IsInjective(skipped') /\ IsInjective(waiting')
         /\ ToSet(skipped') = ToSet(skipped) \ {r} /\ ToSet(waiting') = ToSet(waiting) \ {r}
         /\ r \in ToSet(skipped) \cup ToSet(waiting)
<1>1. TypeOK /\ QueueInv
  BY DEF Core
<1>2. /\ skipped \in Seq(Req) /\ waiting \in Seq(Req)
      /\ IsInjective(skipped) /\ IsInjective(waiting)
      /\ ToSet(skipped) \cap ToSet(waiting) = {}
  BY <1>1, TypeParts DEF QueueInv, Stand, Apart
<1>3. CASE skipped # <<>>
  <2>1. r = Head(skipped) /\ skipped' = Tail(skipped) /\ waiting' = waiting
    BY <1>3 DEF Candidate, Pop
  <2>2. /\ Tail(skipped) \in Seq(Req)
        /\ ToSet(skipped) = {Head(skipped)} \cup ToSet(Tail(skipped))
        /\ IsInjective(skipped) => /\ IsInjective(Tail(skipped))
                                   /\ Head(skipped) \notin ToSet(Tail(skipped))
    BY <1>2, <1>3, PopSets
  <2> QED
    BY <1>2, <2>1, <2>2
<1>4. CASE skipped = <<>>
  <2>1. waiting # <<>> /\ r = Head(waiting) /\ waiting' = Tail(waiting) /\ skipped' = skipped
    BY <1>4 DEF Candidate, Pop
  <2>2. /\ Tail(waiting) \in Seq(Req)
        /\ ToSet(waiting) = {Head(waiting)} \cup ToSet(Tail(waiting))
        /\ IsInjective(waiting) => /\ IsInjective(Tail(waiting))
                                   /\ Head(waiting) \notin ToSet(Tail(waiting))
    BY <1>2, <2>1, PopSets
  <2> QED
    BY <1>2, <2>1, <2>2
<1> QED
  BY <1>3, <1>4

\* A request is passed over, or set aside.
LEMMA AsideKeeps ==
  ASSUME Core, NEW r \in Req, Turn, PassOver(r) \/ SetAside(r)
  PROVE  Core'
<1>1. /\ UNCHANGED <<req, running, held, stage>>
      /\ UNCHANGED <<loop, input, sent, batch, parked>>
      /\ Candidate(r) /\ Pop /\ stage = "waiting"
  BY DEF PassOver, SetAside, Candidate, Turn, cvars
<1>2. TypeOK /\ LoopInv /\ QueueInv /\ PassInv
  BY DEF Core
<1>3. /\ pass.over \in Seq(Req) /\ pass.later \in Seq(Req)
      /\ IsInjective(pass.over) /\ IsInjective(pass.later)
      /\ Stand(ToSet(running), ToSet(pass.over), ToSet(skipped), ToSet(pass.later),
               ToSet(waiting), {q \in Req : Live(q)})
  BY <1>2, TypeParts DEF QueueInv
<1>4. /\ skipped' \in Seq(Req) /\ waiting' \in Seq(Req)
      /\ IsInjective(skipped') /\ IsInjective(waiting')
      /\ ToSet(skipped') = ToSet(skipped) \ {r} /\ ToSet(waiting') = ToSet(waiting) \ {r}
      /\ r \in ToSet(skipped) \cup ToSet(waiting)
  BY <1>1, PopIs
<1>5. /\ Stand(ToSet(running), {r} \cup ToSet(pass.over), ToSet(skipped'), ToSet(pass.later),
               ToSet(waiting'), {q \in Req : Live(q)})
      /\ Stand(ToSet(running), ToSet(pass.over), ToSet(skipped'), {r} \cup ToSet(pass.later),
               ToSet(waiting'), {q \in Req : Live(q)})
      /\ r \notin ToSet(pass.over) /\ r \notin ToSet(pass.later)
  <2> DEFINE A == ToSet(running)  B == ToSet(pass.over)  C == ToSet(skipped)
             D == ToSet(pass.later)  E == ToSet(waiting)  all == {q \in Req : Live(q)}
  <2>1. Stand(A, B, C, D, E, all) /\ (r \in C \/ r \in E)
    BY <1>3, <1>4
  <2> HIDE DEF A, B, C, D, E, all
  <2>2. /\ Stand(A, {r} \cup B, C \ {r}, D, E \ {r}, all)
        /\ Stand(A, B, C \ {r}, {r} \cup D, E \ {r}, all)
        /\ r \notin B /\ r \notin D
    BY <2>1 DEF Stand, Apart
  <2> QED
    BY <1>4, <2>2 DEF A, B, C, D, E, all
<1>6. /\ <<r>> \o pass.over \in Seq(Req) /\ <<r>> \o pass.later \in Seq(Req)
      /\ ToSet(<<r>> \o pass.over) = {r} \cup ToSet(pass.over)
      /\ ToSet(<<r>> \o pass.later) = {r} \cup ToSet(pass.later)
      /\ IsInjective(<<r>> \o pass.over) /\ IsInjective(<<r>> \o pass.later)
  BY <1>3, <1>5, ConsSets
<1>7. pass \in PassType
  BY <1>2 DEF TypeOK
<1>8. /\ pass' \in PassType /\ pass'.at = pass.at /\ pass'.out = pass.out
      /\ \/ pass'.over = <<r>> \o pass.over /\ pass'.later = pass.later
         \/ pass'.over = pass.over /\ pass'.later = <<r>> \o pass.later
  <2>1. CASE PassOver(r)
    <3>1. pass' = [pass EXCEPT !.over = <<r>> \o pass.over]
      BY <2>1 DEF PassOver
    <3> QED
      BY <1>6, <1>7, <3>1 DEF PassType
  <2>2. CASE SetAside(r)
    <3>1. pass' = [pass EXCEPT !.later = <<r>> \o pass.later]
      BY <2>2 DEF SetAside
    <3> QED
      BY <1>6, <1>7, <3>1 DEF PassType
  <2> QED
    BY <2>1, <2>2
<1>9. TypeOK'
  BY <1>1, <1>2, <1>4, <1>8, TurnTypes DEF TypeOK
<1>10. LoopInv'
  BY <1>1, <1>2 DEF LoopInv
<1>11. MessageInv'
  BY <1>1, SameMessages
<1>12. QueueInv'
  <2>1. {q \in Req : Live(q)}' = {q \in Req : Live(q)}
    BY <1>1 DEF Live
  <2>2. Stand(ToSet(running), ToSet(pass.over), ToSet(skipped), ToSet(pass.later),
              ToSet(waiting), {q \in Req : Live(q)})'
    BY <1>1, <1>5, <1>6, <1>8, <2>1
  <2> QED
    BY <1>1, <1>2, <1>3, <1>4, <1>6, <1>8, <2>2 DEF QueueInv
<1>13. \A q \in Req : Runs(q)' = Runs(q)
  BY <1>1 DEF Runs
<1>14. PassInv'
  BY <1>1, <1>2, <1>8, <1>13 DEF PassInv
<1>15. OutInv'
  BY <1>1, SameOutputs
<1>16. CountInv'
  BY <1>1, <1>8, <1>13, SameCount DEF CountInv
<1> QED
  BY <1>9, <1>10, <1>11, <1>12, <1>14, <1>15, <1>16 DEF Core

\* Those passed over and set aside return to their queues.
LEMMA EndWaitingKeeps == ASSUME Core, UNCHANGED cvars, loop = "schedule", EndWaiting PROVE Core'
<1>1. /\ UNCHANGED <<req, running, held, step, unreported, ring, compiling>>
      /\ UNCHANGED <<loop, input, aborts, sent, gaveUp, arrived, batch, parked>>
      /\ skipped' = Reverse(pass.over) \o skipped /\ waiting' = Reverse(pass.later) \o waiting
      /\ latch' \in {latch, waiting' # <<>>} /\ stage = "waiting" /\ stage' = "built"
      /\ pass' = [pass EXCEPT !.over = <<>>, !.later = <<>>]
  BY DEF EndWaiting, cvars
<1>2. TypeOK /\ LoopInv /\ QueueInv /\ PassInv
  BY DEF Core
<1>3. /\ pass.over \in Seq(Req) /\ pass.later \in Seq(Req)
      /\ skipped \in Seq(Req) /\ waiting \in Seq(Req)
      /\ IsInjective(pass.over) /\ IsInjective(pass.later)
      /\ IsInjective(skipped) /\ IsInjective(waiting)
      /\ Stand(ToSet(running), ToSet(pass.over), ToSet(skipped), ToSet(pass.later),
               ToSet(waiting), {q \in Req : Live(q)})
  BY <1>2, TypeParts DEF QueueInv
<1>4. /\ Reverse(pass.over) \in Seq(Req) /\ Reverse(pass.later) \in Seq(Req)
      /\ ToSet(Reverse(pass.over)) = ToSet(pass.over)
      /\ ToSet(Reverse(pass.later)) = ToSet(pass.later)
      /\ IsInjective(Reverse(pass.over)) /\ IsInjective(Reverse(pass.later))
  BY <1>3, ReverseSets
<1>5. /\ skipped' \in Seq(Req) /\ ToSet(skipped') = ToSet(pass.over) \cup ToSet(skipped)
      /\ IsInjective(skipped')
  <2>1. skipped' \in Seq(Req)
    BY <1>1, <1>3, <1>4, ConcatProperties
  <2>2. /\ ToSet(skipped') = ToSet(Reverse(pass.over)) \cup ToSet(skipped)
        /\ IsInjective(skipped') <=>
             /\ IsInjective(Reverse(pass.over)) /\ IsInjective(skipped)
             /\ ToSet(Reverse(pass.over)) \cap ToSet(skipped) = {}
    BY <1>1, <1>3, <1>4, ConcatSets
  <2> QED
    BY <1>3, <1>4, <2>1, <2>2 DEF Stand, Apart
<1>6. /\ waiting' \in Seq(Req) /\ ToSet(waiting') = ToSet(pass.later) \cup ToSet(waiting)
      /\ IsInjective(waiting')
  <2>1. waiting' \in Seq(Req)
    BY <1>1, <1>3, <1>4, ConcatProperties
  <2>2. /\ ToSet(waiting') = ToSet(Reverse(pass.later)) \cup ToSet(waiting)
        /\ IsInjective(waiting') <=>
             /\ IsInjective(Reverse(pass.later)) /\ IsInjective(waiting)
             /\ ToSet(Reverse(pass.later)) \cap ToSet(waiting) = {}
    BY <1>1, <1>3, <1>4, ConcatSets
  <2> QED
    BY <1>3, <1>4, <2>1, <2>2 DEF Stand, Apart
<1>7. pass'.over = <<>> /\ pass'.later = <<>> /\ pass'.at = pass.at /\ pass'.out = pass.out
  BY <1>1, <1>2 DEF TypeOK, PassType
<1>8. TypeOK'
  <2>1. pass' \in PassType
    <3>1. pass \in PassType /\ <<>> \in Seq(Req)
      BY <1>2 DEF TypeOK
    <3> QED
      BY <1>1, <3>1 DEF PassType
  <2>2. latch' \in BOOLEAN
    BY <1>1, <1>2 DEF TypeOK
  <2> QED
    BY <1>1, <1>2, <1>5, <1>6, <2>1, <2>2 DEF TypeOK
<1>9. LoopInv'
  BY <1>1, <1>2, <1>7 DEF LoopInv
<1>10. MessageInv'
  BY <1>1, SameMessages
<1>11. QueueInv'
  <2>1. ToSet(<<>>) = {} /\ IsInjective(<<>>)
    BY EmptySets
  <2>2. {q \in Req : Live(q)}' = {q \in Req : Live(q)}
    BY <1>1 DEF Live
  <2>3. Stand(ToSet(running), ToSet(pass.over), ToSet(skipped), ToSet(pass.later),
              ToSet(waiting), {q \in Req : Live(q)})'
    BY <1>1, <1>3, <1>5, <1>6, <1>7, <2>1, <2>2 DEF Stand, Apart
  <2> QED
    BY <1>1, <1>2, <1>5, <1>6, <1>7, <2>1, <2>3 DEF QueueInv
<1>12. \A q \in Req : Runs(q)' = Runs(q)
  BY <1>1 DEF Runs
<1>13. PassInv'
  BY <1>1, <1>2, <1>7, <1>12 DEF PassInv
<1>14. OutInv'
  BY <1>1, SameOutputs
<1>15. CountInv'
  BY <1>1, <1>7, <1>12, SameCount DEF CountInv
<1> QED
  BY <1>8, <1>9, <1>10, <1>11, <1>13, <1>14, <1>15 DEF Core

\* A request with no tokens in flight has nothing due.
LEMMA NoneDue == ASSUME Core, NEW r \in Req, Held(r) = 0 PROVE Dues(r) = 0
<1>1. TypeOK /\ OutInv
  BY DEF Core
<1>2. Len(InFlight) \in 0..2 /\ \A i \in 1..Len(InFlight) : InFlight[i] \in OutputType
  BY <1>1, InFlightIs
<1>3. \A i \in 1..Len(InFlight) :
        TokensOf(InFlight[i], r) \in Nat /\ Due(InFlight[i], r) \in Nat
        /\ (TokensOf(InFlight[i], r) = 0 => Due(InFlight[i], r) = 0)
  <2>1. \A i \in 1..Len(InFlight) : InFlight[i][r].tokens = 0 => InFlight[i][r] = Nothing
    BY <1>1 DEF OutInv, Sound
  <2> QED
    BY <1>2, <2>1, EntryParts DEF TokensOf
<1> QED
  BY <1>1, <1>2, <1>3, HeldIs

\* A waiting request is admitted: nothing of it is in flight any more.
LEMMA AdmitKeeps == ASSUME Core, NEW r \in Req, Turn, Admit(r) PROVE Core'
<1> DEFINE chunk == FirstChunk(r)
           o == [tokens |-> chunk, drafts |-> 0, samples |-> FALSE]
           c == [req[r] EXCEPT !.computed = Hit[r], !.blocks = Hit[r] + chunk]
<1>1. /\ UNCHANGED <<held, stage>> /\ UNCHANGED <<loop, input, sent, batch, parked>>
      /\ Candidate(r) /\ Pop /\ stage = "waiting" /\ chunk > 0 /\ req[r].stale <= 0
      /\ running' = Append(running, r)
      /\ req' = [req EXCEPT ![r] = c]
  <2>1. /\ UNCHANGED <<held, stage>> /\ UNCHANGED <<loop, input, sent, batch, parked>>
        /\ Candidate(r) /\ Pop /\ stage = "waiting" /\ chunk > 0
        /\ running' = Append(running, r)
    BY DEF Admit, Candidate, Admissible, Turn, cvars
  <2>2. TypeOK
    BY DEF Core
  <2>3. req[r].stale <= 0
    BY <2>2, RequestParts DEF Admit, Admissible, Blocked
  <2>4. req' = [req EXCEPT ![r].computed = Hit[r], ![r].blocks = Hit[r] + FirstChunk(r)]
    BY DEF Admit
  <2>5. req' = [req EXCEPT ![r] = c]
    BY <2>2, <2>4 DEF TypeOK
  <2> QED
    BY <2>1, <2>3, <2>5
<1>2. TypeOK /\ LoopInv /\ QueueInv /\ PassInv
  BY DEF Core
<1>3. /\ ~Runs(r) /\ Live(r) /\ Counted(r, req[r], FALSE, Nothing, Held(r), Dues(r))
      /\ chunk \in Nat /\ chunk <= pass.tokens /\ chunk <= NumTokens(r) - Hit[r]
      /\ Len(running) < MaxRunning
  <2>1. /\ ~Runs(r) /\ Live(r) /\ Counted(r, req[r], FALSE, Nothing, Held(r), Dues(r))
        /\ Room \in Nat \ {0} /\ Room <= pass.tokens
        /\ FirstChunk(r) \in 0..Room /\ FirstChunk(r) <= NumTokens(r) - Hit[r]
        /\ Len(running) < MaxRunning
    BY <1>1, WaitingTurn
  <2>2. pass.tokens \in Nat
    BY <1>2, TypeParts
  <2> HIDE DEF chunk
  <2>3. chunk \in 0..Room /\ chunk <= NumTokens(r) - Hit[r]
    BY <2>1 DEF chunk
  <2>4. chunk \in Nat /\ chunk <= pass.tokens
    BY <2>1, <2>2, <2>3
  <2> QED
    BY <2>1, <2>3, <2>4
<1> HIDE DEF chunk
<1>4. /\ req[r] \in Counters /\ Hit[r] \in Nat /\ NumTokens(r) = Prompt[r] + req[r].output
      /\ Hit[r] < Prompt[r] /\ Prompt[r] \in Nat /\ req[r].output \in Nat /\ req[r].stale \in Nat
      /\ NumTokens(r) \in Nat
  BY <1>2, RequestParts
<1>5. /\ c \in Counters /\ c.computed = Hit[r] /\ c.output = req[r].output
      /\ c.owed = req[r].owed /\ c.inFlight = req[r].inFlight /\ c.stale = req[r].stale
      /\ c.chunk = req[r].chunk /\ c.status = req[r].status
  <2>1. Hit[r] + chunk \in Nat
    BY <1>3, <1>4
  <2> QED
    BY <1>4, <2>1 DEF Counters
<1>6. o \in Entry /\ o.tokens = chunk /\ o.drafts = 0 /\ ~o.samples
  BY <1>3 DEF Entry
<1> HIDE DEF c, o
<1>7. req' \in [Req -> Counters] /\ req'[r] = c /\ \A q \in Req : q # r => req'[q] = req[q]
  BY <1>1, <1>2, <1>5 DEF TypeOK
<1>8. \A q \in Req : req'[q].status = req[q].status
  BY <1>5, <1>7
<1>9. /\ skipped' \in Seq(Req) /\ waiting' \in Seq(Req)
      /\ IsInjective(skipped') /\ IsInjective(waiting')
      /\ ToSet(skipped') = ToSet(skipped) \ {r} /\ ToSet(waiting') = ToSet(waiting) \ {r}
      /\ r \in ToSet(skipped) \cup ToSet(waiting)
  BY <1>1, PopIs
<1>10. /\ running' \in Seq(Req) /\ Len(running') = Len(running) + 1
       /\ ToSet(running') = ToSet(running) \cup {r} /\ IsInjective(running')
  <2>1. running \in Seq(Req) /\ IsInjective(running) /\ r \notin ToSet(running)
    BY <1>2, <1>3, TypeParts DEF QueueInv, Runs
  <2> QED
    BY <1>1, <2>1, AppendSets
<1>11. /\ pass' \in PassType /\ pass'.at = pass.at /\ pass'.over = pass.over
       /\ pass'.later = pass.later /\ pass'.out = [pass.out EXCEPT ![r] = o]
  <2>1. /\ pass \in PassType /\ pass.short \in Nat /\ pass.tokens \in Nat /\ pass.inputs \in Int
        /\ pass.out \in OutputType /\ DraftSlots \in Nat
    BY <1>2, TypeParts, BudgetAssumption DEF TypeOK
  <2>2. PICK n \in Nat :
          pass' = [pass EXCEPT !.short = n, !.tokens = pass.tokens - chunk,
                               !.inputs = pass.inputs - chunk - DraftSlots,
                               !.out = [pass.out EXCEPT ![r] = o]]
    <3> DEFINE n == IF pass.defer /\ Prefilling(r) THEN pass.short + NumTokens(r) - Hit[r]
                                                   ELSE pass.short
    <3>1. n \in Nat
      BY <1>4, <2>1
    <3>2. pass' = [pass EXCEPT !.short = n, !.tokens = pass.tokens - chunk,
                               !.inputs = pass.inputs - chunk - DraftSlots,
                               !.out = [pass.out EXCEPT ![r] = o]]
      BY <2>1 DEF Admit, chunk, o, PassType
    <3> QED
      BY <3>1, <3>2
  <2>3. pass.tokens - chunk \in Nat /\ pass.inputs - chunk - DraftSlots \in Int
    BY <1>3, <2>1
  <2>4. [pass.out EXCEPT ![r] = o] \in OutputType
    BY <1>6, <2>1 DEF OutputType
  <2> HIDE DEF o, chunk
  <2> QED
    BY <2>1, <2>2, <2>3, <2>4 DEF PassType
<1>12. pass'.out[r] = o /\ \A q \in Req : q # r => pass'.out[q] = pass.out[q]
  BY <1>2, <1>11, TypeParts DEF OutputType
<1>13. (\A q \in Req : Runs(q)' <=> Runs(q) \/ q = r) /\ Runs(r)'
  BY <1>10 DEF Runs
<1>14. TypeOK'
  <2>1. held' \subseteq Req /\ stage' = "waiting"
    BY <1>1, <1>2 DEF TypeOK
  <2> QED
    BY <1>7, <1>9, <1>10, <1>11, <2>1, TurnTypes
<1>15. LoopInv'
  BY <1>1, <1>2, <1>11 DEF LoopInv
<1>16. MessageInv'
  <2>1. \A q \in Req : req[q].status = "new" => req'[q] = req[q]
    BY <1>3, <1>7 DEF Live
  <2> QED
    BY <1>1, <1>8, <2>1, SameMessages
<1>17. QueueInv'
  <2> DEFINE A == ToSet(running)  B == ToSet(pass.over)  C == ToSet(skipped)
             D == ToSet(pass.later)  E == ToSet(waiting)  all == {q \in Req : Live(q)}
  <2>1. Stand(A, B, C, D, E, all) /\ (r \in C \/ r \in E)
    BY <1>2, <1>9 DEF QueueInv
  <2>2. all' = all
    BY <1>8 DEF Live
  <2>3. A' = A \cup {r} /\ B' = B /\ C' = C \ {r} /\ D' = D /\ E' = E \ {r}
    BY <1>9, <1>10, <1>11
  <2> HIDE DEF A, B, C, D, E, all
  <2>4. Stand(A \cup {r}, B, C \ {r}, D, E \ {r}, all)
    BY <2>1 DEF Stand, Apart
  <2>5. Stand(A', B', C', D', E', all')
    BY <2>2, <2>3, <2>4
  <2>6. held' \subseteq A' /\ Len(running') <= MaxRunning
    <3>1. Len(running) \in Nat /\ MaxRunning \in Nat /\ held \subseteq A
      BY <1>2, TypeParts, BudgetAssumption DEF QueueInv, A
    <3> QED
      BY <1>1, <1>3, <1>10, <2>3, <3>1
  <2> QED
    BY <1>2, <1>9, <1>10, <1>11, <2>5, <2>6 DEF QueueInv, A, B, C, D, E, all
<1>18. PassInv'
  <2>1. o.tokens # 0 /\ pass'.at > 0 /\ stage' # "running"
    BY <1>1, <1>2, <1>3, <1>6, <1>11 DEF PassInv
  <2> QED
    BY <1>2, <1>6, <1>12, <1>13, <2>1 DEF PassInv
<1>19. OutInv'
  BY <1>1, <1>8, SameOutputs
<1>20. CountInv'
  <2> SUFFICES ASSUME NEW q \in Req, Live(q)'
               PROVE  Counted(q, req[q], Runs(q), pass.out[q], Held(q), Dues(q))'
    BY DEF CountInv
  <2>1. CASE q # r
    BY <1>1, <1>7, <1>12, <1>13, <2>1, SameCount
  <2>2. CASE q = r
    <3>1. Held(r) \in Nat
      BY <1>2, HeldIs
    <3>2. /\ req[r].stale = 0 /\ Held(r) = 0 /\ req[r].owed = 0 /\ req[r].inFlight = 0
          /\ req[r].output < MaxTokens[r]
      BY <1>1, <1>3, <1>4 DEF Counted
    <3>3. Dues(r) = 0
      BY <3>2, NoneDue
    <3>4. /\ c.output < MaxTokens[r] /\ c.inFlight = 0 /\ c.stale = 0 /\ c.owed = 0
          /\ c.computed = Hit[r] /\ c.output = req[r].output
      BY <1>5, <3>2
    <3>5. Counted(r, c, TRUE, o, 0, 0)
      <4>1. o.tokens = chunk /\ chunk > 0 /\ chunk \in Nat /\ o.drafts = 0
        BY <1>1, <1>3, <1>6
      <4>2. /\ c.computed + o.tokens <= Prompt[r] + c.output + c.owed
            /\ c.computed \in Nat /\ Prompt[r] \in Nat /\ c.output \in Nat
        BY <1>3, <1>4, <3>4, <4>1
      <4> QED
        BY <3>4, <4>1, <4>2 DEF Counted
    <3>6. Held(r)' = 0 /\ Dues(r)' = 0
      BY <1>1, <3>2, <3>3, SameInFlight
    <3> QED
      BY <1>7, <1>12, <1>13, <2>2, <3>5, <3>6 DEF Counted
  <2> QED
    BY <2>1, <2>2
<1> QED
  BY <1>14, <1>15, <1>16, <1>17, <1>18, <1>19, <1>20 DEF Core

\* The last n running requests are preempted: they go to the head of the queue.
Gone == ToSet(running) \ ToSet(running')
LEMMA PreemptIs ==
  ASSUME Core, NEW n \in 0..Len(running), Preempt(n)
  PROVE  /\ running' \in Seq(Req) /\ IsInjective(running') /\ Len(running') = Len(running) - n
         /\ \A i \in 1..Len(running') : running'[i] = running[i]
         /\ ToSet(running') \subseteq ToSet(running)
         /\ waiting' \in Seq(Req) /\ IsInjective(waiting')
         /\ ToSet(waiting') = Gone \cup ToSet(waiting)
         /\ \A q \in Gone : \E i \in 1..Len(running) : i > Len(running) - n /\ running[i] = q
         /\ held' \subseteq ToSet(running')
<1> DEFINE k == Len(running) - n
           left == SubSeq(running, 1, k)
           right == SubSeq(running, k + 1, Len(running))
<1>1. TypeOK /\ QueueInv
  BY DEF Core
<1>2. /\ running \in Seq(Req) /\ IsInjective(running) /\ Len(running) \in Nat
      /\ waiting \in Seq(Req) /\ IsInjective(waiting)
      /\ ToSet(running) \cap ToSet(waiting) = {} /\ held \subseteq ToSet(running)
  BY <1>1, TypeParts DEF QueueInv, Stand, Apart
<1>3. k \in 0..Len(running) /\ Len(running) - k = n
  BY <1>2
<1>4. running' = left /\ waiting' = right \o waiting /\ held' = held \ ToSet(right)
  BY DEF Preempt
<1> HIDE DEF k
<1>5. /\ left \in Seq(Req) /\ Len(left) = k /\ \A i \in 1..k : left[i] = running[i]
      /\ right \in Seq(Req) /\ Len(right) = Len(running) - k
      /\ \A i \in 1..(Len(running) - k) : right[i] = running[k + i]
      /\ ToSet(running) = ToSet(left) \cup ToSet(right)
      /\ IsInjective(left) /\ IsInjective(right) /\ ToSet(left) \cap ToSet(right) = {}
  <2>1. running \in Seq(Req) /\ k \in 0..Len(running)
    BY <1>2, <1>3
  <2>2. /\ left \in Seq(Req) /\ Len(left) = k /\ \A i \in 1..k : left[i] = running[i]
        /\ right \in Seq(Req) /\ Len(right) = Len(running) - k
    BY <2>1, CutSets
  <2>3. \A i \in 1..(Len(running) - k) : right[i] = running[k + i]
    BY <2>1, CutSets
  <2>4. /\ ToSet(running) = ToSet(left) \cup ToSet(right)
        /\ IsInjective(running) =>
             IsInjective(left) /\ IsInjective(right) /\ ToSet(left) \cap ToSet(right) = {}
    BY <2>1, CutSets
  <2> QED
    BY <1>2, <2>2, <2>3, <2>4
<1> HIDE DEF left, right
<1>6. Gone = ToSet(right)
  BY <1>4, <1>5 DEF Gone
<1>7. /\ waiting' \in Seq(Req) /\ ToSet(waiting') = ToSet(right) \cup ToSet(waiting)
      /\ IsInjective(waiting')
  <2>1. waiting' \in Seq(Req)
    BY <1>2, <1>4, <1>5, ConcatProperties
  <2>2. /\ ToSet(waiting') = ToSet(right) \cup ToSet(waiting)
        /\ IsInjective(waiting') <=>
             IsInjective(right) /\ IsInjective(waiting) /\ ToSet(right) \cap ToSet(waiting) = {}
    BY <1>2, <1>4, <1>5, ConcatSets
  <2> QED
    BY <1>2, <1>5, <2>1, <2>2
<1>8. \A q \in Gone : \E i \in 1..Len(running) : i > k /\ running[i] = q
  <2> SUFFICES ASSUME NEW q \in Gone
               PROVE  \E i \in 1..Len(running) : i > k /\ running[i] = q
    OBVIOUS
  <2>1. PICK i \in 1..Len(right) : right[i] = q
    BY <1>5, <1>6, ToSetOf
  <2>2. k + i \in 1..Len(running) /\ k + i > k /\ running[k + i] = q
    BY <1>2, <1>3, <1>5, <2>1
  <2> QED
    BY <2>2
<1>9. held' \subseteq ToSet(running')
  BY <1>2, <1>4, <1>5
<1> QED
  BY <1>3, <1>4, <1>5, <1>6, <1>7, <1>8, <1>9 DEF k

\* So the queues hold the same requests, and what is in flight of those gone is stale.
LEMMA PreemptQueues ==
  ASSUME Core, NEW n \in 0..Len(running), Preempt(n), UNCHANGED skipped,
         pass'.over = pass.over, pass'.later = pass.later,
         \A q \in Req : req'[q].status = req[q].status
  PROVE  QueueInv'
<1> DEFINE A == ToSet(running)  B == ToSet(pass.over)  C == ToSet(skipped)
           D == ToSet(pass.later)  E == ToSet(waiting)  all == {q \in Req : Live(q)}
<1>1. /\ running' \in Seq(Req) /\ IsInjective(running') /\ Len(running') = Len(running) - n
      /\ ToSet(running') \subseteq ToSet(running)
      /\ waiting' \in Seq(Req) /\ IsInjective(waiting')
      /\ ToSet(waiting') = Gone \cup ToSet(waiting)
      /\ held' \subseteq ToSet(running')
  BY PreemptIs
<1>2. QueueInv /\ Len(running) \in Nat
  BY TypeParts DEF Core
<1>3. A' \subseteq A /\ B' = B /\ C' = C /\ D' = D /\ E' = (A \ A') \cup E
  BY <1>1 DEF Gone
<1>4. all' = all
  BY DEF Live
<1>5. Stand(A, B, C, D, E, all)
  BY <1>2 DEF QueueInv
<1>6. Stand(A', B', C', D', E', all')
  <2> HIDE DEF A, B, C, D, E, all
  <2>1. \A F : F \subseteq A => Stand(F, B, C, D, (A \ F) \cup E, all)
    BY <1>5 DEF Stand, Apart
  <2> QED
    BY <1>3, <1>4, <2>1
<1>7. Len(running') <= MaxRunning
  <2>1. Len(running) <= MaxRunning /\ MaxRunning \in Nat
    BY <1>2, BudgetAssumption DEF QueueInv
  <2> QED
    BY <1>1, <1>2, <2>1
<1> QED
  BY <1>1, <1>2, <1>6, <1>7 DEF QueueInv

LEMMA PreemptedCount ==
  ASSUME Core, NEW q \in Req, Live(q)
  PROVE  /\ Preempted(req[q]) \in Counters /\ Preempted(req[q]).status = req[q].status
         /\ Counted(q, Preempted(req[q]), FALSE, Nothing, Held(q), Dues(q))
<1> DEFINE c == Preempted(req[q])
<1>1. req[q] \in Counters /\ req[q].inFlight \in Nat
  BY RequestParts DEF Core
<1>2. /\ c \in Counters /\ c.status = req[q].status /\ c.owed = 0
      /\ c.stale = req[q].inFlight /\ c.inFlight = req[q].inFlight /\ c.output = req[q].output
  BY <1>1 DEF Preempted, Counters
<1> HIDE DEF c
<1>3. req[q].output < MaxTokens[q] /\ req[q].inFlight = Held(q)
  BY DEF Core, CountInv, Counted
<1>4. Counted(q, c, FALSE, Nothing, Held(q), Dues(q))
  BY <1>2, <1>3 DEF Counted
<1> QED
  BY <1>2, <1>4 DEF c

\* Those gone have been given nothing, if the pass has not come to them.
LEMMA GoneIsAhead ==
  ASSUME Core, NEW n \in 0..Len(running), Preempt(n), stage = "running",
         Len(running) - n >= pass.at - 1, NEW q \in Gone
  PROVE  q \in Req /\ Live(q) /\ pass.out[q] = Nothing /\ ~Runs(q)'
<1>1. TypeOK /\ QueueInv /\ PassInv
  BY DEF Core
<1>2. PICK i \in 1..Len(running) : i > Len(running) - n /\ running[i] = q
  BY PreemptIs
<1>3. Len(running) \in Nat /\ pass.at \in Nat /\ q \in Req /\ Runs(q)
  BY <1>1, <1>2, TypeParts
<1>4. i >= pass.at
  BY <1>2, <1>3
<1>5. pass.out[q] = Nothing
  BY <1>1, <1>2, <1>4 DEF PassInv
<1>6. Live(q)
  BY <1>1, <1>3 DEF QueueInv, Stand, Runs
<1> QED
  BY <1>3, <1>5, <1>6 DEF Gone, Runs

\* A running request is given tokens, and those that had to go for them are preempted.
LEMMA GrantKeeps == ASSUME Core, NEW r \in Req, Turn, Grant(r) PROVE Core'
<1> DEFINE new == NewTokens(r)
           drafts == new + req[r].computed - NumTokens(r) - req[r].owed
           need == req[r].computed + new
           c == [req[r] EXCEPT !.spec = 0, !.blocks = IF @ > need THEN @ ELSE need]
           o == [tokens |-> new, samples |-> FALSE,
                 drafts |-> IF req[r].spec > 0 /\ drafts > 0 THEN drafts ELSE 0]
<1>1. /\ UNCHANGED <<skipped, stage>> /\ UNCHANGED <<loop, input, sent, batch, parked>>
      /\ Eligible(r) /\ Visiting(r) /\ stage = "running" /\ new > 0
  BY DEF Grant, Eligible, Visiting, Turn, cvars
<1>2. TypeOK /\ LoopInv /\ QueueInv /\ PassInv
  BY DEF Core
<1>3. /\ Runs(r) /\ Live(r) /\ pass.at \in 1..Len(running) /\ running[pass.at] = r
      /\ new \in Nat /\ new <= pass.tokens /\ Left(r) \in Int
  <2>1. /\ Runs(r) /\ Live(r) /\ pass.at \in 1..Len(running) /\ running[pass.at] = r
        /\ Room \in Nat \ {0} /\ Room <= pass.tokens /\ NewTokens(r) \in 0..Room
        /\ Left(r) \in Int
    BY <1>1, RunningTurn
  <2>2. pass.tokens \in Nat
    BY <1>2, TypeParts
  <2> HIDE DEF new
  <2>3. new \in 0..Room
    BY <2>1 DEF new
  <2>4. new \in Nat /\ new <= pass.tokens
    BY <2>1, <2>2, <2>3
  <2> QED
    BY <2>1, <2>4
<1>4. PICK n \in 0..(Len(running) - pass.at) :
        /\ Preempt(n)
        /\ req' = [q \in Req |-> IF q = r THEN c
                                 ELSE IF q \in Gone THEN Preempted(req[q]) ELSE req[q]]
        /\ pass' = [pass EXCEPT
                      !.at = @ + 1, !.short = ShortAfter(r),
                      !.tokens = @ - new, !.inputs = @ - new - DraftSlots,
                      !.out[r] = o, !.preempted = @ \/ n > 0]
  BY DEF Grant, Gone
<1> HIDE DEF new
<1>5. /\ req[r] \in Counters /\ req[r].computed \in Nat /\ req[r].blocks \in Nat
      /\ req[r].owed \in Nat /\ req[r].spec \in Nat /\ NumTokens(r) \in Nat
  BY <1>2, RequestParts
<1>6. need \in Nat /\ drafts \in Int
  <2>1. new \in Nat
    BY <1>3
  <2> HIDE DEF c, o
  <2>2. need \in Nat
    BY <1>5, <2>1
  <2>3. drafts \in Int
    BY <1>5, <2>1
  <2> QED
    BY <2>2, <2>3
<1> HIDE DEF need, drafts
<1>7. /\ c \in Counters /\ c.computed = req[r].computed /\ c.output = req[r].output
      /\ c.owed = req[r].owed /\ c.inFlight = req[r].inFlight /\ c.stale = req[r].stale
      /\ c.chunk = req[r].chunk /\ c.status = req[r].status
  BY <1>5, <1>6 DEF Counters
<1>8. /\ o \in Entry /\ o.tokens = new /\ ~o.samples
      /\ o.drafts = IF req[r].spec > 0 /\ drafts > 0 THEN drafts ELSE 0
  BY <1>3, <1>6 DEF Entry
<1> HIDE DEF c, o
<1>9. /\ n \in 0..Len(running) /\ Len(running) - n >= pass.at - 1
      /\ Len(running) \in Nat /\ pass.at \in 1..(Len(running) - n) /\ pass.at \in Nat
  <2>1. Len(running) \in Nat /\ pass.at \in 1..Len(running) /\ n \in 0..(Len(running) - pass.at)
    BY <1>2, <1>3, TypeParts
  <2>2. \A l \in Nat : \A k \in 1..l : \A m \in 0..(l - k) :
          m \in 0..l /\ l - m >= k - 1 /\ k \in 1..(l - m) /\ k \in Nat
    OBVIOUS
  <2> QED
    BY <2>1, <2>2
<1>10. /\ running' \in Seq(Req) /\ IsInjective(running') /\ Len(running') = Len(running) - n
       /\ \A i \in 1..Len(running') : running'[i] = running[i]
       /\ ToSet(running') \subseteq ToSet(running)
       /\ waiting' \in Seq(Req) /\ held' \subseteq ToSet(running')
  BY <1>4, <1>9, PreemptIs
<1>11. Runs(r)' /\ r \notin Gone
  <2>1. running'[pass.at] = r /\ DOMAIN running' = 1..Len(running')
    BY <1>3, <1>9, <1>10, LenProperties
  <2>2. r \in ToSet(running')
    BY <1>9, <1>10, <2>1 DEF ToSet
  <2> QED
    BY <2>2 DEF Gone, Runs
<1>12. \A q \in Gone : q \in Req /\ Live(q) /\ pass.out[q] = Nothing /\ ~Runs(q)'
  BY <1>1, <1>4, <1>9, GoneIsAhead
<1>13. /\ req' \in [Req -> Counters] /\ req'[r] = c
       /\ \A q \in Gone : req'[q] = Preempted(req[q])
       /\ \A q \in Req : q # r /\ q \notin Gone => req'[q] = req[q]
       /\ \A q \in Req : req'[q].status = req[q].status
  <2>1. \A q \in Gone : /\ Preempted(req[q]) \in Counters
                        /\ Preempted(req[q]).status = req[q].status
    BY <1>12, PreemptedCount
  <2>2. req \in [Req -> Counters]
    BY <1>2 DEF TypeOK
  <2>3. /\ req'[r] = c
        /\ \A q \in Gone : req'[q] = Preempted(req[q])
        /\ \A q \in Req : q # r /\ q \notin Gone => req'[q] = req[q]
    BY <1>4, <1>11, <1>12
  <2>4. req' \in [Req -> Counters]
    BY <1>4, <1>7, <2>1, <2>2
  <2> QED
    BY <1>7, <2>1, <2>3, <2>4
<1>14. /\ pass' \in PassType /\ pass'.at = pass.at + 1 /\ pass'.over = pass.over
       /\ pass'.later = pass.later /\ pass'.out = [pass.out EXCEPT ![r] = o]
  <2>1. /\ pass \in PassType /\ pass.short \in Nat /\ pass.tokens \in Nat /\ pass.inputs \in Int
        /\ pass.out \in OutputType /\ DraftSlots \in Nat /\ pass.preempted \in BOOLEAN
    BY <1>2, TypeParts, BudgetAssumption DEF TypeOK
  <2>2. ShortAfter(r) \in Nat
    BY <1>1, <1>3, <2>1 DEF Eligible, ShortAfter, Admits
  <2>3. pass' = [pass EXCEPT !.at = pass.at + 1, !.short = ShortAfter(r),
                             !.tokens = pass.tokens - new,
                             !.inputs = pass.inputs - new - DraftSlots,
                             !.out = [pass.out EXCEPT ![r] = o],
                             !.preempted = pass.preempted \/ n > 0]
    BY <1>4, <2>1 DEF PassType
  <2>4. /\ pass.tokens - new \in Nat /\ pass.inputs - new - DraftSlots \in Int
        /\ pass.at + 1 \in Nat
    <3>1. new \in Nat /\ new <= pass.tokens /\ pass.at \in Nat
      BY <1>3, <1>9
    <3> HIDE DEF new
    <3>2. \A a, b \in Nat : b <= a => a - b \in Nat
      OBVIOUS
    <3>3. \A a \in Int, b, d \in Nat : a - b - d \in Int
      OBVIOUS
    <3>4. pass.at + 1 \in Nat
      BY <3>1
    <3>5. pass.tokens - new \in Nat
      BY <2>1, <3>1, <3>2
    <3>6. pass.inputs - new - DraftSlots \in Int
      BY <2>1, <3>1, <3>3
    <3> QED
      BY <3>4, <3>5, <3>6
  <2>5. [pass.out EXCEPT ![r] = o] \in OutputType
    BY <1>8, <2>1 DEF OutputType
  <2>6. (pass.preempted \/ n > 0) \in BOOLEAN
    OBVIOUS
  <2> QED
    BY <2>1, <2>2, <2>3, <2>4, <2>5, <2>6 DEF PassType
<1>15. pass'.out[r] = o /\ \A q \in Req : q # r => pass'.out[q] = pass.out[q]
  BY <1>2, <1>14, TypeParts DEF OutputType
<1>16. \A q \in Req : Runs(q)' <=> Runs(q) /\ q \notin Gone
  BY <1>10 DEF Runs, Gone
<1>17. TypeOK'
  <2>1. held' \subseteq Req /\ skipped' \in Seq(Req) /\ stage' = "running"
    <3>1. ToSet(running') \subseteq Req
      BY <1>10, ToSetOf
    <3> QED
      BY <1>1, <1>2, <1>10, <3>1 DEF TypeOK
  <2> QED
    BY <1>10, <1>13, <1>14, <2>1, TurnTypes
<1>18. LoopInv'
  BY <1>1, <1>2, <1>14 DEF LoopInv
<1>19. MessageInv'
  <2>1. \A q \in Req : req[q].status = "new" => req'[q] = req[q]
    BY <1>3, <1>12, <1>13 DEF Live
  <2> QED
    BY <1>1, <1>13, <2>1, SameMessages
<1>20. QueueInv'
  BY <1>1, <1>4, <1>9, <1>13, <1>14, PreemptQueues
<1>21. PassInv'
  <2>1. o.tokens # 0 /\ pass'.at > 0
    BY <1>1, <1>3, <1>8, <1>9, <1>14
  <2>2. \A q \in Req :
          /\ pass'.out[q] # Nothing => Runs(q)'
          /\ pass'.out[q].tokens = 0 => pass'.out[q] = Nothing
          /\ ~pass'.out[q].samples
    BY <1>2, <1>8, <1>11, <1>12, <1>15, <1>16, <2>1 DEF PassInv
  <2>3. \A i \in 1..Len(running') : i >= pass'.at => pass'.out[running'[i]] = Nothing
    <3> SUFFICES ASSUME NEW i \in 1..Len(running'), i >= pass'.at
                 PROVE  pass'.out[running'[i]] = Nothing
      OBVIOUS
    <3>1. i \in 1..Len(running) /\ i >= pass.at /\ i # pass.at /\ running'[i] = running[i]
      <4>1. \A l, k \in Nat : \A m \in 0..l : \A j \in 1..(l - m) :
              j >= k + 1 => j \in 1..l /\ j >= k /\ j # k
        OBVIOUS
      <4>2. Len(running) \in Nat /\ pass.at \in Nat /\ n \in 0..Len(running)
        BY <1>9
      <4>3. i \in 1..(Len(running) - n) /\ i >= pass.at + 1 /\ running'[i] = running[i]
        BY <1>10, <1>14
      <4> QED
        BY <4>1, <4>2, <4>3
    <3>2. running[i] # r /\ running[i] \in Req
      <4>1. IsInjective(running) /\ DOMAIN running = 1..Len(running) /\ running[i] \in Req
        BY <1>2, <3>1, TypeParts DEF QueueInv
      <4> QED
        BY <1>3, <3>1, <4>1 DEF IsInjective
    <3>3. pass.out[running[i]] = Nothing
      BY <1>1, <1>2, <3>1 DEF PassInv
    <3> QED
      BY <1>15, <3>1, <3>2, <3>3
  <2> QED
    BY <2>1, <2>2, <2>3 DEF PassInv
<1>22. OutInv'
  BY <1>1, <1>13, SameOutputs
<1>23. CountInv'
  <2> SUFFICES ASSUME NEW q \in Req, Live(q)'
               PROVE  Counted(q, req[q], Runs(q), pass.out[q], Held(q), Dues(q))'
    BY DEF CountInv
  <2>1. CASE q # r /\ q \notin Gone
    BY <1>1, <1>13, <1>15, <1>16, <2>1, SameCount
  <2>2. CASE q \in Gone
    <3>1. Counted(q, Preempted(req[q]), FALSE, Nothing, Held(q), Dues(q))
      BY <1>12, <2>2, PreemptedCount
    <3>2. Held(q)' = Held(q) /\ Dues(q)' = Dues(q)
      BY <1>1, SameInFlight
    <3>3. req'[q] = Preempted(req[q]) /\ pass'.out[q] = Nothing /\ Runs(q)' = FALSE
      BY <1>11, <1>12, <1>13, <1>15, <2>2 DEF Runs
    <3> QED
      BY <3>1, <3>2, <3>3 DEF Counted
  <2>3. CASE q = r
    <3>1. Counted(r, c, TRUE, o, Held(r), Dues(r))
      BY <1>1, <1>7, <1>8, GrantedCount DEF new, drafts
    <3>2. Held(q)' = Held(q) /\ Dues(q)' = Dues(q)
      BY <1>1, SameInFlight
    <3>3. req'[q] = c /\ pass'.out[q] = o /\ Runs(q)'
      BY <1>11, <1>13, <1>15, <2>3
    <3> QED
      BY <2>3, <3>1, <3>2, <3>3 DEF Counted
  <2> QED
    BY <2>1, <2>2, <2>3
<1> QED
  BY <1>17, <1>18, <1>19, <1>20, <1>21, <1>22, <1>23 DEF Core

\* Preempting everyone behind it was not enough.
LEMMA GiveUpKeeps == ASSUME Core, NEW r \in Req, Turn, GiveUp(r) PROVE Core'
<1> DEFINE n == Len(running) - pass.at + 1
<1>1. /\ UNCHANGED skipped /\ UNCHANGED <<loop, input, sent, batch, parked>>
      /\ Eligible(r) /\ Visiting(r) /\ stage = "running" /\ stage' = "built"
      /\ Preempt(n)
      /\ req' = [q \in Req |-> IF q \in Gone THEN Preempted(req[q]) ELSE req[q]]
      /\ pass' = [pass EXCEPT !.short = ShortAfter(r), !.preempted = TRUE]
  BY DEF GiveUp, Eligible, Visiting, Turn, cvars, Gone
<1>2. TypeOK /\ LoopInv /\ QueueInv /\ PassInv
  BY DEF Core
<1>3. pass.at \in 1..Len(running) /\ Left(r) \in Int
  BY <1>1, RunningTurn
<1>4. n \in 0..Len(running) /\ Len(running) - n >= pass.at - 1
  <2>1. Len(running) \in Nat
    BY <1>2, TypeParts
  <2>2. \A k \in Nat : \A a \in 1..k : k - a + 1 \in 0..k /\ k - (k - a + 1) >= a - 1
    OBVIOUS
  <2> QED
    BY <1>3, <2>1, <2>2
<1> HIDE DEF n
<1>5. /\ running' \in Seq(Req) /\ ToSet(running') \subseteq ToSet(running)
      /\ waiting' \in Seq(Req) /\ held' \subseteq ToSet(running')
  BY <1>1, <1>4, PreemptIs
<1>6. \A q \in Gone : q \in Req /\ Live(q) /\ pass.out[q] = Nothing /\ ~Runs(q)'
  BY <1>1, <1>4, GoneIsAhead
<1>7. /\ req' \in [Req -> Counters]
      /\ \A q \in Gone : req'[q] = Preempted(req[q])
      /\ \A q \in Req : q \notin Gone => req'[q] = req[q]
      /\ \A q \in Req : req'[q].status = req[q].status
  <2>1. \A q \in Gone : /\ Preempted(req[q]) \in Counters
                        /\ Preempted(req[q]).status = req[q].status
    BY <1>6, PreemptedCount
  <2>2. req \in [Req -> Counters]
    BY <1>2 DEF TypeOK
  <2>3. /\ \A q \in Gone : req'[q] = Preempted(req[q])
        /\ \A q \in Req : q \notin Gone => req'[q] = req[q]
    BY <1>1, <1>6
  <2>4. req' \in [Req -> Counters]
    BY <1>1, <2>1, <2>2
  <2> QED
    BY <2>1, <2>3, <2>4
<1>8. /\ pass' \in PassType /\ pass'.at = pass.at /\ pass'.over = pass.over
      /\ pass'.later = pass.later /\ pass'.out = pass.out
  <2>1. pass \in PassType /\ pass.short \in Nat
    BY <1>2, TypeParts DEF TypeOK
  <2>2. ShortAfter(r) \in Nat
    BY <1>1, <1>3, <2>1 DEF Eligible, ShortAfter, Admits
  <2> QED
    BY <1>1, <2>1, <2>2 DEF PassType
<1>9. \A q \in Req : Runs(q)' <=> Runs(q) /\ q \notin Gone
  BY <1>5 DEF Runs, Gone
<1>10. TypeOK'
  <2>1. ToSet(running') \subseteq Req
    BY <1>5, ToSetOf
  <2>2. held' \subseteq Req /\ skipped' \in Seq(Req)
    BY <1>1, <1>2, <1>5, <2>1 DEF TypeOK
  <2> QED
    BY <1>1, <1>5, <1>7, <1>8, <2>2, TurnTypes
<1>11. LoopInv'
  BY <1>1, <1>2, <1>8 DEF LoopInv
<1>12. MessageInv'
  <2>1. \A q \in Req : req[q].status = "new" => req'[q] = req[q]
    BY <1>6, <1>7 DEF Live
  <2> QED
    BY <1>1, <1>7, <2>1, SameMessages
<1>13. QueueInv'
  BY <1>1, <1>4, <1>7, <1>8, PreemptQueues
<1>14. PassInv'
  BY <1>1, <1>2, <1>6, <1>8, <1>9 DEF PassInv
<1>15. OutInv'
  BY <1>1, <1>7, SameOutputs
<1>16. CountInv'
  <2> SUFFICES ASSUME NEW q \in Req, Live(q)'
               PROVE  Counted(q, req[q], Runs(q), pass.out[q], Held(q), Dues(q))'
    BY DEF CountInv
  <2>1. CASE q \notin Gone
    BY <1>1, <1>7, <1>8, <1>9, <2>1, SameCount
  <2>2. CASE q \in Gone
    <3>1. Counted(q, Preempted(req[q]), FALSE, Nothing, Held(q), Dues(q))
      BY <1>6, <2>2, PreemptedCount
    <3>2. Held(q)' = Held(q) /\ Dues(q)' = Dues(q)
      BY <1>1, SameInFlight
    <3>3. req'[q] = Preempted(req[q]) /\ pass'.out[q] = Nothing /\ Runs(q)' = FALSE
      BY <1>6, <1>7, <1>8, <2>2 DEF Runs
    <3> QED
      BY <3>1, <3>2, <3>3 DEF Counted
  <2> QED
    BY <2>1, <2>2
<1> QED
  BY <1>10, <1>11, <1>12, <1>13, <1>14, <1>15, <1>16 DEF Core

-----------------------------------------------------------------------------
(* The end of a pass: its output joins those in flight.                     *)

\* The sums over what is in flight after a step.
LEMMA NextHeld ==
  ASSUME NEW q \in Req
  PROVE  /\ Held(q)' = (IF 1 <= Len(InFlight') THEN TokensOf(InFlight'[1], q) ELSE 0)
                       + (IF 2 <= Len(InFlight') THEN TokensOf(InFlight'[2], q) ELSE 0)
         /\ Dues(q)' = (IF 1 <= Len(InFlight') THEN Due(InFlight'[1], q) ELSE 0)
                       + (IF 2 <= Len(InFlight') THEN Due(InFlight'[2], q) ELSE 0)
BY DEF Held, Dues, Total, TokensOf, Due

\* A request the pass gave tokens.
LEMMA GivenIs ==
  ASSUME Core, NEW r \in Req, pass.out[r].tokens > 0
  PROVE  /\ Runs(r) /\ Live(r) /\ pass.out[r] \in Entry
         /\ pass.out[r].tokens \in Nat /\ pass.out[r].drafts \in Nat
         /\ Counted(r, req[r], TRUE, pass.out[r], Held(r), Dues(r))
         /\ Cardinality(Scheduled(pass.out)) \in 1..MaxRunning
<1>1. TypeOK /\ QueueInv /\ PassInv /\ CountInv
  BY DEF Core
<1>2. pass.out \in OutputType /\ running \in Seq(Req) /\ Len(running) \in Nat
  BY <1>1, TypeParts
<1>3. pass.out[r] \in Entry /\ pass.out[r].tokens \in Nat /\ pass.out[r].drafts \in Nat
  BY <1>2, EntryParts
<1>4. \A q \in Req : pass.out[q].tokens > 0 => Runs(q)
  BY <1>1, EntryParts DEF PassInv
<1>5. Live(r)
  BY <1>1, <1>4 DEF QueueInv, Stand, Runs
<1>6. Counted(r, req[r], TRUE, pass.out[r], Held(r), Dues(r))
  BY <1>1, <1>4, <1>5 DEF CountInv, Counted
<1>7. Cardinality(Scheduled(pass.out)) \in 1..MaxRunning
  <2>1. Scheduled(pass.out) \subseteq ToSet(running) /\ r \in Scheduled(pass.out)
    BY <1>4 DEF Scheduled, Runs
  <2>2. IsFiniteSet(ToSet(running)) /\ Cardinality(ToSet(running)) <= Len(running)
    BY <1>2, ToSetOf
  <2>3. /\ IsFiniteSet(Scheduled(pass.out))
        /\ Cardinality(Scheduled(pass.out)) <= Cardinality(ToSet(running))
    BY <2>1, <2>2, FS_Subset
  <2>4. Cardinality(Scheduled(pass.out)) \in Nat /\ Cardinality(ToSet(running)) \in Nat
    BY <2>2, <2>3, FS_CardinalityType
  <2>5. Cardinality(Scheduled(pass.out)) # 0
    BY <2>1, <2>3, FS_EmptySet
  <2>6. Len(running) <= MaxRunning /\ MaxRunning \in Nat
    BY <1>1, BudgetAssumption DEF QueueInv
  <2> QED
    BY <1>2, <2>2, <2>3, <2>4, <2>5, <2>6
<1> QED
  BY <1>3, <1>4, <1>5, <1>6, <1>7

\* It moves on by its tokens, and if it samples it is owed the next token and one
\* for each draft.
LEMMA AdvancedIs ==
  ASSUME Core, NEW r \in Req, pass.out[r].tokens > 0, NEW k \in {KLo, KHi}
  PROVE  LET c == Advanced(r, k)
             end == req[r].computed + pass.out[r].tokens
         IN /\ c \in Counters /\ c.status = req[r].status /\ c.computed = end
            /\ c.output = req[r].output /\ c.stale = req[r].stale
            /\ c.inFlight = req[r].inFlight + pass.out[r].tokens
            /\ c.chunk = (end < Prompt[r] + req[r].output + req[r].owed)
            /\ c.owed = IF c.chunk THEN req[r].owed
                                   ELSE req[r].owed + 1 + pass.out[r].drafts
<1> DEFINE c == Advanced(r, k)
           end == req[r].computed + pass.out[r].tokens
           chunk == end < NumTokens(r) + req[r].owed
           owed == IF chunk THEN req[r].owed ELSE req[r].owed + 1 + pass.out[r].drafts
           spec == IF chunk THEN req[r].spec
                   ELSE Smaller(k, Drafts[Cardinality(Scheduled(pass.out))])
           inFlight == req[r].inFlight + pass.out[r].tokens
<1>1. /\ req[r] \in Counters /\ req[r].computed \in Nat /\ req[r].owed \in Nat
      /\ req[r].spec \in Nat /\ req[r].inFlight \in Nat
      /\ NumTokens(r) = Prompt[r] + req[r].output
  BY RequestParts DEF Core
<1>2. /\ pass.out[r].tokens \in Nat /\ pass.out[r].drafts \in Nat
      /\ Cardinality(Scheduled(pass.out)) \in 1..MaxRunning
  BY GivenIs
<1>3. Drafts[Cardinality(Scheduled(pass.out))] \in Nat /\ k \in Nat
  BY <1>2, DraftsAssumption
<1>4. Smaller(k, Drafts[Cardinality(Scheduled(pass.out))]) \in Nat
  BY <1>3 DEF Smaller
<1>5. end \in Nat /\ owed \in Nat /\ spec \in Nat /\ inFlight \in Nat /\ chunk \in BOOLEAN
  BY <1>1, <1>2, <1>4
<1>6. c = [req[r] EXCEPT !.computed = end, !.chunk = chunk, !.inFlight = inFlight,
                         !.owed = owed, !.spec = spec]
  BY <1>1 DEF Advanced, Counters
<1> HIDE DEF c, end, chunk, owed, spec, inFlight
<1>7. /\ c \in Counters /\ c.status = req[r].status /\ c.computed = end
      /\ c.output = req[r].output /\ c.stale = req[r].stale
      /\ c.inFlight = inFlight /\ c.chunk = chunk /\ c.owed = owed
  BY <1>1, <1>5, <1>6 DEF Counters
<1> QED
  BY <1>1, <1>7 DEF c, end, chunk, owed, inFlight

LEMMA OutputIs ==
  ASSUME Core
  PROVE  /\ Output \in OutputType
         /\ \A r \in Req : Sound(Output[r])
         /\ \A r \in Req : ~(pass.out[r].tokens > 0) => Output[r] = Nothing
         /\ \A r \in Req : pass.out[r].tokens > 0 =>
              /\ Output[r].tokens = pass.out[r].tokens
              /\ Output[r].drafts = pass.out[r].drafts
              /\ Output[r].samples = ~Advanced(r, KLo).chunk
<1>1. \A r \in Req : ~(pass.out[r].tokens > 0) => Output[r] = Nothing
  BY DEF Output
<1>2. ASSUME NEW r \in Req, pass.out[r].tokens > 0
      PROVE  /\ Output[r] \in Entry /\ Sound(Output[r])
             /\ Output[r].tokens = pass.out[r].tokens
             /\ Output[r].drafts = pass.out[r].drafts
             /\ Output[r].samples = ~Advanced(r, KLo).chunk
  <2>1. /\ pass.out[r] \in Entry /\ pass.out[r].tokens \in Nat /\ pass.out[r].drafts \in Nat
        /\ Counted(r, req[r], TRUE, pass.out[r], Held(r), Dues(r))
    BY <1>2, GivenIs
  <2>2. /\ Advanced(r, KLo) \in Counters
        /\ Advanced(r, KLo).chunk =
             (req[r].computed + pass.out[r].tokens < Prompt[r] + req[r].output + req[r].owed)
    BY <1>2, AdvancedIs
  <2>3. Output[r] = [pass.out[r] EXCEPT !.samples = ~Advanced(r, KLo).chunk]
    BY <1>2 DEF Output
  <2>4. /\ Output[r] \in Entry /\ Output[r].tokens = pass.out[r].tokens
        /\ Output[r].drafts = pass.out[r].drafts
        /\ Output[r].samples = ~Advanced(r, KLo).chunk
    BY <2>1, <2>3 DEF Entry
  <2>5. Output[r].drafts > 0 => Output[r].samples
    <3> SUFFICES ASSUME pass.out[r].drafts > 0 PROVE Output[r].samples
      BY <2>4
    <3>1. ~(req[r].computed + pass.out[r].tokens < Prompt[r] + req[r].output + req[r].owed)
      BY <1>2, <2>1 DEF Counted
    <3>2. ~Advanced(r, KLo).chunk
      BY <2>2, <3>1
    <3> QED
      BY <2>4, <3>2
  <2> QED
    BY <1>2, <2>4, <2>5 DEF Sound
<1>3. \A r \in Req : Output[r] \in Entry /\ Sound(Output[r])
  BY <1>1, <1>2, EntryParts DEF Sound
<1>4. Output \in OutputType
  <2>1. Output = [r \in Req |-> Output[r]]
    BY DEF Output
  <2> QED
    BY <1>3, <2>1 DEF OutputType
<1> QED
  BY <1>1, <1>2, <1>3, <1>4

\* What is in flight after the output of the pass has joined it.
LEMMA Joins ==
  ASSUME Core, QueueOutput
  PROVE  /\ InFlight' \in Seq(OutputType) /\ Len(InFlight') = Len(InFlight) + 1
         /\ Len(InFlight) \in 0..1
         /\ \A i \in 1..Len(InFlight) : InFlight'[i] = InFlight[i]
         /\ InFlight'[Len(InFlight) + 1] = Output
         /\ batch' \in Seq(OutputType) /\ parked' \in Seq(OutputType)
         /\ Len(batch') + Len(parked') = Len(InFlight) + 1
<1>1. TypeOK /\ LoopInv /\ loop = "schedule"
  BY DEF Core, QueueOutput
<1>2. batch \in Seq(OutputType) /\ parked = <<>> /\ Len(batch) <= 1 /\ Len(batch) \in Nat
  BY <1>1, LenProperties DEF LoopInv, TypeOK
<1>3. InFlight = batch
  BY <1>2, ConcatEmptySeq DEF InFlight
<1>4. Output \in OutputType
  BY OutputIs
<1>5. /\ Append(batch, Output) \in Seq(OutputType)
      /\ Len(Append(batch, Output)) = Len(batch) + 1
      /\ \A i \in 1..Len(batch) : Append(batch, Output)[i] = batch[i]
      /\ Append(batch, Output)[Len(batch) + 1] = Output
  BY <1>2, <1>4, AppendProperties
<1>6. /\ <<Output>> \in Seq(OutputType) /\ Len(<<Output>>) = 1
      /\ <<>> \in Seq(OutputType) /\ Len(<<>>) = 0
  BY <1>4
<1>7. InFlight' = Append(batch, Output) /\ batch' \in Seq(OutputType)
      /\ parked' \in Seq(OutputType) /\ Len(batch') + Len(parked') = Len(batch) + 1
  <2>1. \/ parked' = <<Output>> /\ batch' = batch
        \/ parked' = <<>> /\ batch' = Append(batch, Output)
    BY <1>2 DEF QueueOutput
  <2>2. CASE parked' = <<Output>> /\ batch' = batch
    <3>1. InFlight' = batch \o <<Output>>
      BY <2>2 DEF InFlight
    <3>2. batch \o <<Output>> = Append(batch, Output)
      BY <1>2, <1>4, AppendIsConcat
    <3> QED
      BY <1>2, <1>6, <2>2, <3>1, <3>2
  <2>3. CASE parked' = <<>> /\ batch' = Append(batch, Output)
    <3>1. InFlight' = Append(batch, Output) \o <<>>
      BY <2>3 DEF InFlight
    <3>2. Append(batch, Output) \o <<>> = Append(batch, Output)
      BY <1>5, ConcatEmptySeq
    <3> QED
      BY <1>2, <1>5, <1>6, <2>3, <3>1, <3>2
  <2> QED
    BY <2>1, <2>2, <2>3
<1>8. Len(InFlight) \in 0..1
  <2>1. \A n \in Nat : n <= 1 => n \in 0..1
    OBVIOUS
  <2>2. Len(batch) \in 0..1
    BY <1>2, <2>1
  <2> QED
    BY <1>3, <2>2
<1>9. /\ InFlight' \in Seq(OutputType) /\ Len(InFlight') = Len(InFlight) + 1
      /\ \A i \in 1..Len(InFlight) : InFlight'[i] = InFlight[i]
      /\ InFlight'[Len(InFlight) + 1] = Output
  BY <1>3, <1>5, <1>7
<1>10. Len(batch') + Len(parked') = Len(InFlight) + 1
  BY <1>3, <1>7
<1> QED
  BY <1>7, <1>8, <1>9, <1>10

\* The sums grow by what the output holds.
LEMMA JoinedSums ==
  ASSUME Core, QueueOutput, NEW q \in Req
  PROVE  /\ Held(q)' = Held(q) + TokensOf(Output, q) /\ Dues(q)' = Dues(q) + Due(Output, q)
         /\ TokensOf(Output, q) \in Nat /\ Due(Output, q) \in Nat
<1>1. /\ Len(InFlight') = Len(InFlight) + 1 /\ Len(InFlight) \in 0..1
      /\ \A i \in 1..Len(InFlight) : InFlight'[i] = InFlight[i]
      /\ InFlight'[Len(InFlight) + 1] = Output
  BY Joins
<1>2. TokensOf(Output, q) \in Nat /\ Due(Output, q) \in Nat
  BY OutputIs, EntryParts
<1>3. CASE Len(InFlight) = 0
  <2>1. Held(q) = 0 /\ Dues(q) = 0
    BY <1>3, HeldIs DEF Core
  <2>2. Len(InFlight') = 1 /\ InFlight'[1] = Output
    BY <1>1, <1>3
  <2>3. Held(q)' = TokensOf(Output, q) + 0 /\ Dues(q)' = Due(Output, q) + 0
    BY <2>2, NextHeld
  <2> QED
    BY <1>2, <2>1, <2>3
<1>4. CASE Len(InFlight) = 1
  <2>1. Held(q) = TokensOf(InFlight[1], q) /\ Dues(q) = Due(InFlight[1], q)
    BY <1>4, HeldIs DEF Core
  <2>2. Len(InFlight') = 2 /\ InFlight'[1] = InFlight[1] /\ InFlight'[2] = Output
    BY <1>1, <1>4
  <2>3. /\ Held(q)' = TokensOf(InFlight[1], q) + TokensOf(Output, q)
        /\ Dues(q)' = Due(InFlight[1], q) + Due(Output, q)
    BY <2>2, NextHeld
  <2> QED
    BY <1>2, <2>1, <2>3
<1> QED
  BY <1>1, <1>2, <1>3, <1>4

\* The window of the hand-outs.
LEMMA PushIs ==
  ASSUME NEW S, NEW s \in Seq(S), NEW x \in S, Len(s) <= RingSlots
  PROVE  Push(s, x) \in Seq(S) /\ Len(Push(s, x)) <= RingSlots
<1>1. Append(s, x) \in Seq(S) /\ Len(Append(s, x)) = Len(s) + 1 /\ Len(s) \in Nat
  BY AppendProperties, LenProperties
<1>2. CASE Len(Append(s, x)) > RingSlots
  <2>1. Append(s, x) # <<>>
    BY <1>1, <1>2 DEF RingSlots
  <2>2. Tail(Append(s, x)) \in Seq(S) /\ Len(Tail(Append(s, x))) = Len(Append(s, x)) - 1
    BY <1>1, <2>1, HeadTailProperties
  <2> QED
    BY <1>1, <1>2, <2>2 DEF Push, RingSlots
<1>3. CASE ~(Len(Append(s, x)) > RingSlots)
  BY <1>1, <1>3 DEF Push, RingSlots
<1> QED
  BY <1>2, <1>3

LEMMA QueueOutputKeeps == ASSUME Core, QueueOutput PROVE Core'
<1> DEFINE given(q) == pass.out[q].tokens > 0
<1>1. PICK k \in {KLo, KHi} : UpdateAfterSchedule(k)
  BY DEF QueueOutput
<1>2. /\ UNCHANGED <<running, waiting, skipped, step, latch, compiling>>
      /\ UNCHANGED <<input, aborts, sent, gaveUp, arrived>>
      /\ req' = [q \in Req |-> IF given(q) THEN Advanced(q, k) ELSE req[q]]
      /\ ring' = Push(ring, {q \in Req : Output[q].samples})
      /\ held' \subseteq held /\ unreported' = FALSE
      /\ stage = "built" /\ stage' = "idle" /\ pass' = NoPass
      /\ loop = "schedule" /\ loop' \in {"poll", "aborts"}
  BY <1>1 DEF UpdateAfterSchedule, QueueOutput
<1>3. TypeOK /\ LoopInv /\ MessageInv /\ QueueInv /\ PassInv /\ OutInv /\ CountInv
  BY DEF Core
<1>4. pass.over = <<>> /\ pass.later = <<>> /\ parked = <<>>
  BY <1>2, <1>3 DEF LoopInv
<1>5. /\ pass'.at = 1 /\ pass'.out = Empty /\ pass'.over = <<>> /\ pass'.later = <<>>
      /\ pass' \in PassType
  <2>1. Empty \in OutputType /\ <<>> \in Seq(Req)
    BY EntryParts
  <2> QED
    BY <1>2, <2>1 DEF NoPass, PassType
<1>6. /\ \A q \in Req : given(q) => req'[q] = Advanced(q, k)
      /\ \A q \in Req : ~given(q) => req'[q] = req[q]
  BY <1>2
<1> HIDE DEF given
<1>7. \A q \in Req : given(q) => /\ Advanced(q, k) \in Counters
                                /\ Advanced(q, k).status = req[q].status
  BY AdvancedIs DEF given
<1>8. req' \in [Req -> Counters] /\ \A q \in Req : req'[q].status = req[q].status
  <2>1. \A q \in Req : req[q] \in Counters
    BY <1>3, RequestParts
  <2> QED
    BY <1>2, <1>6, <1>7, <2>1
<1>9. held' \subseteq ToSet(running)
  BY <1>2, <1>3 DEF QueueInv
<1>10. QueueInv' /\ \A q \in Req : Runs(q)' = Runs(q)
  BY <1>2, <1>4, <1>5, <1>8, <1>9, SameQueues
<1>11. \A q \in Req : given(q) => Runs(q) /\ Live(q)
  BY GivenIs DEF given
<1>12. TypeOK'
  <2>1. /\ batch' \in Seq(OutputType) /\ parked' \in Seq(OutputType)
        /\ Len(batch') + Len(parked') <= QueueSize
    <3>1. /\ batch' \in Seq(OutputType) /\ parked' \in Seq(OutputType)
          /\ Len(InFlight) \in 0..1 /\ Len(batch') + Len(parked') = Len(InFlight) + 1
      BY Joins
    <3>2. \A n \in 0..1 : n + 1 <= 2
      OBVIOUS
    <3>3. Len(InFlight) + 1 <= 2
      BY <3>1, <3>2
    <3> QED
      BY <3>1, <3>3 DEF QueueSize
  <2>2. ring' \in Seq(SUBSET Req) /\ Len(ring') <= RingSlots
    <3>1. ring \in Seq(SUBSET Req) /\ Len(ring) <= RingSlots
      BY <1>3 DEF TypeOK
    <3>2. {q \in Req : Output[q].samples} \in SUBSET Req
      OBVIOUS
    <3> QED
      BY <1>2, <3>1, <3>2, PushIs
  <2> QED
    BY <1>2, <1>3, <1>5, <1>8, <2>1, <2>2 DEF TypeOK
<1>13. LoopInv'
  <2>1. batch \in Seq(OutputType) /\ Len(batch) <= 1 /\ Len(batch) \in Nat
    BY <1>2, <1>3, LenProperties DEF LoopInv, TypeOK
  <2>2. Len(Append(batch, Output)) = Len(batch) + 1 /\ Append(batch, Output) # <<>>
    <3>1. Output \in OutputType
      BY OutputIs
    <3>2. Len(Append(batch, Output)) = Len(batch) + 1
      BY <2>1, <3>1, AppendProperties
    <3>3. Append(batch, Output) # <<>>
      BY <2>1, <3>2
    <3> QED
      BY <3>2, <3>3
  <2>3. PendingStructured => batch # <<>>
    <3> SUFFICES ASSUME NEW q \in Structured, Output[q].samples, req[q].owed > 0
                 PROVE  batch # <<>>
      BY DEF PendingStructured
    <3>1. q \in Req
      BY RequestAssumption
    <3>2. given(q)
      BY <3>1, OutputIs, EntryParts DEF given
    <3>3. Counted(q, req[q], TRUE, pass.out[q], Held(q), Dues(q))
      BY <3>1, <3>2, GivenIs DEF given
    <3>4. Dues(q) # 0
      BY <3>3 DEF Counted
    <3>5. Len(InFlight) # 0
      BY <1>3, <3>1, <3>4, HeldIs
    <3>6. InFlight = batch
      BY <1>4, <2>1, ConcatEmptySeq DEF InFlight
    <3> QED
      BY <3>5, <3>6
  <2>4. IF loop' \in {"aborts", "retire"} THEN batch' # <<>>
                                          ELSE Len(batch') <= 1 /\ parked' = <<>>
    <3>1. CASE parked' = <<Output>> /\ loop' = "aborts" /\ batch' = batch /\ PendingStructured
      BY <2>3, <3>1
    <3>2. CASE /\ batch' = Append(batch, Output) /\ parked' = parked
               /\ loop' = "aborts" \/ (loop' = "poll" /\ Len(batch') < QueueSize)
      BY <1>4, <2>1, <2>2, <3>2 DEF QueueSize
    <3> QED
      BY <3>1, <3>2 DEF QueueOutput
  <2> QED
    BY <1>2, <1>5, <2>4 DEF LoopInv
<1>14. MessageInv'
  <2>1. \A q \in Req : req[q].status = "new" => req'[q] = req[q]
    BY <1>6, <1>11 DEF Live
  <2> QED
    BY <1>2, <1>8, <2>1, SameMessages
<1>15. PassInv'
  BY <1>2, <1>5, EntryParts DEF PassInv
<1>16. OutInv'
  <2>1. /\ Len(InFlight') = Len(InFlight) + 1 /\ Len(InFlight) \in 0..1
        /\ \A i \in 1..Len(InFlight) : InFlight'[i] = InFlight[i]
        /\ InFlight'[Len(InFlight) + 1] = Output
    BY Joins
  <2>2. \A q \in Req : Sound(Output[q]) /\ (req[q].status = "new" => Output[q] = Nothing)
    BY <1>11, OutputIs DEF given, Live
  <2>3. \A i \in 1..Len(InFlight') : i \in 1..Len(InFlight) \/ i = Len(InFlight) + 1
    BY <2>1
  <2>4. \A i \in 1..Len(InFlight') : \A q \in Req :
          Sound(InFlight'[i][q]) /\ (req[q].status = "new" => InFlight'[i][q] = Nothing)
    BY <1>3, <2>1, <2>2, <2>3 DEF OutInv
  <2> QED
    BY <1>8, <2>4 DEF OutInv, Sound
<1>17. CountInv'
  <2> SUFFICES ASSUME NEW q \in Req, Live(q)'
               PROVE  Counted(q, req[q], Runs(q), pass.out[q], Held(q), Dues(q))'
    BY DEF CountInv
  <2>1. /\ Held(q)' = Held(q) + TokensOf(Output, q) /\ Dues(q)' = Dues(q) + Due(Output, q)
        /\ Held(q) \in Nat /\ Dues(q) \in Nat
    BY <1>3, JoinedSums, HeldIs
  <2>2. Runs(q)' = Runs(q) /\ Live(q) /\ pass'.out[q] = Nothing
    BY <1>5, <1>8, <1>10, EntryParts DEF Live
  <2>3. CASE ~given(q)
    <3>1. pass.out[q] = Nothing /\ Output[q] = Nothing
      <4>1. pass.out \in OutputType
        BY <1>3, TypeParts
      <4>2. pass.out[q].tokens = 0
        BY <2>3, <4>1, EntryParts DEF given
      <4> QED
        BY <1>3, <2>3, <4>2, OutputIs DEF PassInv, given
    <3>2. TokensOf(Output, q) = 0 /\ Due(Output, q) = 0
      BY <3>1, EntryParts, OutputIs
    <3>3. Counted(q, req[q], Runs(q), Nothing, Held(q), Dues(q))
      BY <1>3, <2>2, <3>1 DEF CountInv
    <3>4. Held(q)' = Held(q) /\ Dues(q)' = Dues(q) /\ req'[q] = req[q]
      BY <1>6, <2>1, <2>3, <3>2
    <3> QED
      BY <2>2, <3>3, <3>4 DEF Counted
  <2>4. CASE given(q)
    <3> DEFINE c == Advanced(q, k)
               end == req[q].computed + pass.out[q].tokens
               decodes == Prompt[q] + req[q].output + req[q].owed
    <3>1. /\ Runs(q) /\ Counted(q, req[q], TRUE, pass.out[q], Held(q), Dues(q))
          /\ pass.out[q].tokens \in Nat /\ pass.out[q].drafts \in Nat
          /\ pass.out[q].tokens > 0
      BY <2>4, GivenIs DEF given
    <3>2. /\ c.computed = end /\ c.output = req[q].output /\ c.stale = req[q].stale
          /\ c.inFlight = req[q].inFlight + pass.out[q].tokens
          /\ c.chunk = (end < decodes)
          /\ c.owed = IF c.chunk THEN req[q].owed ELSE req[q].owed + 1 + pass.out[q].drafts
      BY <2>4, AdvancedIs DEF given
    <3>3. /\ Output[q].tokens = pass.out[q].tokens /\ Output[q].drafts = pass.out[q].drafts
          /\ Output[q].samples = ~(end < decodes)
      <4>1. Advanced(q, KLo).chunk = (end < decodes)
        BY <2>4, AdvancedIs DEF given
      <4> QED
        BY <2>4, <4>1, OutputIs DEF given
    <3>4. /\ req[q].computed \in Nat /\ req[q].output \in Nat /\ req[q].owed \in Nat
          /\ req[q].inFlight \in Nat /\ Prompt[q] \in Nat
      BY <1>3, RequestParts
    <3>5. /\ TokensOf(Output, q) = pass.out[q].tokens
          /\ Due(Output, q) = IF end < decodes THEN 0 ELSE pass.out[q].drafts + 1
      BY <3>3 DEF TokensOf, Due
    <3>6. /\ req[q].output < MaxTokens[q] /\ req[q].inFlight = Held(q)
          /\ req[q].stale = 0 /\ req[q].owed = Dues(q)
          /\ end < decodes => req[q].owed = 0
          /\ end >= decodes => end = decodes + pass.out[q].drafts
      BY <3>1 DEF Counted
    <3> HIDE DEF c, end, decodes
    <3>7. Counted(q, c, TRUE, Nothing, Held(q) + TokensOf(Output, q), Dues(q) + Due(Output, q))
      <4>1. /\ c.output < MaxTokens[q] /\ c.stale = 0
            /\ c.inFlight = Held(q) + TokensOf(Output, q)
        BY <3>2, <3>5, <3>6
      <4>2. CASE end < decodes
        <5>1. c.chunk /\ Due(Output, q) = 0
          BY <3>2, <3>5, <4>2
        <5>2. c.owed = Dues(q) /\ c.owed = 0 /\ c.owed = Dues(q) + Due(Output, q)
          BY <2>1, <3>2, <3>6, <4>2, <5>1
        <5>3. c.computed < Prompt[q] + c.output
          BY <3>2, <3>4, <3>6, <4>2 DEF decodes
        <5> QED
          BY <4>1, <5>1, <5>2, <5>3, EntryParts DEF Counted
      <4>3. CASE ~(end < decodes)
        <5>1. end \in Nat /\ decodes \in Nat
          BY <3>1, <3>4 DEF end, decodes
        <5>2. /\ c.owed = Dues(q) + Due(Output, q) /\ ~c.chunk /\ c.owed > 0
              /\ c.owed = req[q].owed + 1 + pass.out[q].drafts
          <6>1. ~c.chunk /\ Due(Output, q) = pass.out[q].drafts + 1
            BY <3>2, <3>5, <4>3
          <6>2. c.owed = req[q].owed + 1 + pass.out[q].drafts /\ req[q].owed = Dues(q)
            BY <3>2, <3>6, <6>1
          <6> QED
            BY <3>1, <3>4, <6>1, <6>2
        <5>3. c.computed = Prompt[q] + c.output + c.owed - 1 /\ c.output + c.owed > 0
          BY <3>1, <3>2, <3>4, <3>6, <4>3, <5>1, <5>2 DEF decodes
        <5> QED
          BY <4>1, <5>2, <5>3, EntryParts DEF Counted
      <4> QED
        BY <4>2, <4>3
    <3>8. req'[q] = c
      BY <1>6, <2>4 DEF c
    <3> QED
      BY <2>1, <2>2, <3>1, <3>7, <3>8 DEF Counted
  <2> QED
    BY <2>3, <2>4
<1> QED
  BY <1>10, <1>12, <1>13, <1>14, <1>15, <1>16, <1>17 DEF Core

-----------------------------------------------------------------------------
(* Requests come and go between the passes.                                 *)

LEMMA IdleIs ==
  ASSUME Core, stage = "idle"
  PROVE  /\ pass = NoPass /\ pass.at = 1 /\ pass.over = <<>> /\ pass.later = <<>>
         /\ \A q \in Req : pass.out[q] = Nothing
BY EntryParts DEF Core, LoopInv, NoPass

LEMMA IdlePass ==
  ASSUME Core, stage = "idle", UNCHANGED <<stage, pass>>
  PROVE  PassInv'
BY IdleIs, EntryParts DEF PassInv

\* Live requests that leave every queue they stand in.
LEMMA LeaveKeeps ==
  ASSUME Core, stage = "idle", UNCHANGED <<stage, pass>>, NEW gone, Leave(gone),
         \A q \in Req : Live(q)' <=> Live(q) /\ q \notin gone
  PROVE  /\ QueueInv' /\ ToSet(running') = ToSet(running) \ gone
         /\ running' \in Seq(Req) /\ waiting' \in Seq(Req) /\ skipped' \in Seq(Req)
         /\ held' \subseteq held /\ unreported' \in BOOLEAN
<1> DEFINE A == ToSet(running)  B == ToSet(pass.over)  C == ToSet(skipped)
           D == ToSet(pass.later)  E == ToSet(waiting)  all == {q \in Req : Live(q)}
<1>1. TypeOK /\ QueueInv /\ B = {} /\ D = {}
  BY IdleIs, EmptySets DEF Core
<1>2. /\ running \in Seq(Req) /\ waiting \in Seq(Req) /\ skipped \in Seq(Req)
      /\ Len(running) \in Nat /\ unreported \in BOOLEAN
  BY <1>1, TypeParts DEF TypeOK
<1>3. /\ IsInjective(running) /\ IsInjective(skipped) /\ IsInjective(waiting)
      /\ IsInjective(pass.over) /\ IsInjective(pass.later)
      /\ held \subseteq A /\ Len(running) <= MaxRunning /\ Stand(A, B, C, D, E, all)
  BY <1>1 DEF QueueInv
<1>4. /\ running' \in Seq(Req) /\ Len(running') <= Len(running) /\ A' = A \ gone
      /\ IsInjective(running')
  <2>1. running' = Without(running, gone)
    BY DEF Leave
  <2>2. /\ Without(running, gone) \in Seq(Req)
        /\ Len(Without(running, gone)) <= Len(running)
        /\ ToSet(Without(running, gone)) = ToSet(running) \ gone
        /\ IsInjective(running) => IsInjective(Without(running, gone))
    BY <1>2, WithoutSets
  <2> QED
    BY <1>3, <2>1, <2>2
<1>5. skipped' \in Seq(Req) /\ C' = C \ gone /\ IsInjective(skipped')
  <2>1. skipped' = Without(skipped, gone)
    BY DEF Leave
  <2>2. /\ Without(skipped, gone) \in Seq(Req)
        /\ ToSet(Without(skipped, gone)) = ToSet(skipped) \ gone
        /\ IsInjective(skipped) => IsInjective(Without(skipped, gone))
    BY <1>2, WithoutSets
  <2> QED
    BY <1>3, <2>1, <2>2
<1>6. waiting' \in Seq(Req) /\ E' = E \ gone /\ IsInjective(waiting')
  <2>1. waiting' = Without(waiting, gone)
    BY DEF Leave
  <2>2. /\ Without(waiting, gone) \in Seq(Req)
        /\ ToSet(Without(waiting, gone)) = ToSet(waiting) \ gone
        /\ IsInjective(waiting) => IsInjective(Without(waiting, gone))
    BY <1>2, WithoutSets
  <2> QED
    BY <1>3, <2>1, <2>2
<1>7. held' = held \ gone /\ unreported' \in BOOLEAN
  BY <1>2 DEF Leave
<1>8. Len(running') <= MaxRunning
  <2>1. Len(running') \in Nat /\ MaxRunning \in Nat
    BY <1>4, LenProperties, BudgetAssumption
  <2> QED
    BY <1>2, <1>3, <1>4, <2>1
<1>9. Stand(A', B', C', D', E', all')
  <2>1. all' = all \ gone /\ B' = {} /\ D' = {}
    BY <1>1
  <2> HIDE DEF A, B, C, D, E, all
  <2>2. Stand(A \ gone, {}, C \ gone, {}, E \ gone, all \ gone)
    BY <1>1, <1>3 DEF Stand, Apart
  <2> QED
    BY <1>4, <1>5, <1>6, <2>1, <2>2
<1>10. QueueInv'
  <2>1. IsInjective(pass'.over) /\ IsInjective(pass'.later) /\ held' \subseteq A'
    BY <1>3, <1>4, <1>7
  <2> QED
    BY <1>4, <1>5, <1>6, <1>8, <1>9, <2>1 DEF QueueInv
<1> QED
  BY <1>4, <1>5, <1>6, <1>7, <1>10

LEMMA FreedIs ==
  ASSUME NEW why \in {"length", "stopped", "aborted"}
  PROVE  Freed(why) \in Counters /\ Freed(why).status = why
BY DEF Freed, Fresh, Counters

\* Finishing requests from outside: their results still in flight find nobody.
LEMMA FinishIs ==
  ASSUME Core, stage = "idle", NEW gone, \A q \in gone : q \in Req /\ Live(q),
         FinishRequests(gone), UNCHANGED <<batch, parked>>
  PROVE  /\ req' \in [Req -> Counters]
         /\ running' \in Seq(Req) /\ waiting' \in Seq(Req) /\ skipped' \in Seq(Req)
         /\ held' \subseteq held /\ unreported' \in BOOLEAN
         /\ UNCHANGED <<step, latch, ring, compiling, stage, pass>>
         /\ \A q \in Req : /\ req'[q].status = "new" <=> req[q].status = "new"
                           /\ req[q].status = "new" => req'[q] = req[q]
         /\ QueueInv' /\ PassInv' /\ OutInv' /\ CountInv'
<1>1. TypeOK /\ CountInv
  BY DEF Core
<1>2. /\ \A q \in gone : req'[q] = Freed("aborted")
      /\ \A q \in Req : q \notin gone => req'[q] = req[q]
      /\ UNCHANGED <<step, latch, ring, compiling, stage, pass>> /\ Leave(gone)
  BY DEF FinishRequests
<1>3. Freed("aborted") \in Counters /\ Freed("aborted").status = "aborted"
  BY FreedIs
<1>4. req' \in [Req -> Counters]
  <2>1. \A q \in Req : req[q] \in Counters
    BY <1>1, RequestParts
  <2> QED
    BY <1>3, <2>1 DEF FinishRequests
<1>5. \A q \in Req : Live(q)' <=> Live(q) /\ q \notin gone
  BY <1>2, <1>3 DEF Live
<1>6. \A q \in Req : /\ req'[q].status = "new" <=> req[q].status = "new"
                     /\ req[q].status = "new" => req'[q] = req[q]
  BY <1>2, <1>3 DEF Live
<1>7. /\ QueueInv' /\ ToSet(running') = ToSet(running) \ gone
      /\ running' \in Seq(Req) /\ waiting' \in Seq(Req) /\ skipped' \in Seq(Req)
      /\ held' \subseteq held /\ unreported' \in BOOLEAN
  BY <1>2, <1>5, LeaveKeeps
<1>8. PassInv'
  BY <1>2, IdlePass
<1>9. OutInv'
  BY <1>6, SameOutputs
<1>10. CountInv'
  <2> SUFFICES ASSUME NEW q \in Req, Live(q)'
               PROVE  Counted(q, req[q], Runs(q), pass.out[q], Held(q), Dues(q))'
    BY DEF CountInv
  <2>1. q \notin gone
    BY <1>5
  <2>2. req'[q] = req[q] /\ pass'.out[q] = pass.out[q]
    BY <1>2, <2>1
  <2>3. Runs(q)' <=> Runs(q)
    BY <1>7, <2>1 DEF Runs
  <2> QED
    BY <2>2, <2>3, SameCount
<1> QED
  BY <1>2, <1>4, <1>6, <1>7, <1>8, <1>9, <1>10

LEMMA ProcessAbortsKeeps == ASSUME Core, ProcessAborts PROVE Core'
<1> DEFINE gone == {q \in aborts : Live(q)}
<1>1. /\ loop = "aborts" /\ loop' = "retire" /\ aborts' = {} /\ FinishRequests(gone)
      /\ UNCHANGED <<input, sent, gaveUp, arrived, batch, parked>>
  BY DEF ProcessAborts
<1>2. TypeOK /\ LoopInv
  BY DEF Core
<1>3. stage = "idle" /\ batch # <<>>
  BY <1>1, <1>2 DEF LoopInv
<1>4. \A q \in gone : q \in Req /\ Live(q)
  BY <1>2 DEF TypeOK
<1> HIDE DEF gone
<1>5. /\ req' \in [Req -> Counters]
      /\ running' \in Seq(Req) /\ waiting' \in Seq(Req) /\ skipped' \in Seq(Req)
      /\ held' \subseteq held /\ unreported' \in BOOLEAN
      /\ UNCHANGED <<step, latch, ring, compiling, stage, pass>>
      /\ \A q \in Req : /\ req'[q].status = "new" <=> req[q].status = "new"
                        /\ req[q].status = "new" => req'[q] = req[q]
      /\ QueueInv' /\ PassInv' /\ OutInv' /\ CountInv'
  BY <1>1, <1>3, <1>4, FinishIs
<1>6. TypeOK'
  BY <1>1, <1>2, <1>5 DEF TypeOK
<1>7. LoopInv'
  BY <1>1, <1>2, <1>3, <1>5 DEF LoopInv
<1>8. MessageInv'
  BY <1>1, <1>5, SameMessages
<1> QED
  BY <1>5, <1>6, <1>7, <1>8 DEF Core

\* The loop takes the next message; those behind it move up.
LEMMA TakeMessage ==
  ASSUME Core, input # <<>>, input' = Tail(input), UNCHANGED sent,
         \A q \in Req :
           /\ req[q].status = "new" => req'[q] = req[q]
                                       \/ (Head(input).type = "add" /\ q = Head(input).id)
           /\ req'[q].status = "new" => req[q].status = "new",
         Head(input).type = "add" => req'[Head(input).id].status # "new"
  PROVE  /\ Head(input) \in Message /\ input' \in Seq(Message) /\ MessageInv'
         /\ Head(input).type = "add" =>
              /\ req[Head(input).id] = Fresh /\ Head(input).id \in Req
<1>1. MessageInv /\ input \in Seq(Message) /\ sent \subseteq Req
  BY DEF Core, TypeOK
<1>2. /\ Head(input) \in Message /\ Tail(input) \in Seq(Message) /\ Len(input) \in Nat
      /\ Len(input) # 0 /\ Head(input) = input[1] /\ Len(Tail(input)) = Len(input) - 1
      /\ \A i \in 1..(Len(input) - 1) : Tail(input)[i] = input[i + 1]
  BY <1>1, HeadTailProperties, EmptySeq, LenProperties
<1>3. DOMAIN input = 1..Len(input) /\ DOMAIN input' = 1..(Len(input) - 1)
  BY <1>1, <1>2, LenProperties
<1>4. \A i \in Adds' : i + 1 \in Adds /\ i + 1 # 1 /\ input'[i] = input[i + 1] /\ i \in Nat
  BY <1>2, <1>3 DEF Adds
<1>5. Head(input).type = "add" => 1 \in Adds
  BY <1>2, <1>3 DEF Adds
<1>6. \A i \in Adds : input[i].id \in Req
  BY <1>1 DEF MessageInv
<1>7. \A q \in Req : req'[q].status = "new" => req'[q] = Fresh
  BY <1>1 DEF MessageInv
<1>8. \A q \in Req \ sent' : req'[q].status = "new"
  BY <1>1, <1>2, <1>5 DEF MessageInv
<1>9. \A i \in Adds' : req'[input'[i].id].status = "new" /\ input'[i].id \in sent'
  <2> SUFFICES ASSUME NEW i \in Adds'
               PROVE  req'[input'[i].id].status = "new" /\ input'[i].id \in sent'
    OBVIOUS
  <2>1. i + 1 \in Adds /\ i + 1 # 1 /\ input'[i] = input[i + 1]
    BY <1>4
  <2>2. /\ req[input[i + 1].id].status = "new" /\ input[i + 1].id \in sent
        /\ Head(input).type = "add" => input[i + 1].id # Head(input).id
    BY <1>1, <1>2, <1>5, <2>1 DEF MessageInv
  <2> QED
    BY <1>6, <2>1, <2>2
<1>10. \A i, j \in Adds' : i # j => input'[i].id # input'[j].id
  <2> SUFFICES ASSUME NEW i \in Adds', NEW j \in Adds', i # j
               PROVE  input'[i].id # input'[j].id
    OBVIOUS
  <2>1. i + 1 \in Adds /\ j + 1 \in Adds /\ i + 1 # j + 1
    <3>1. i \in Nat /\ j \in Nat /\ i + 1 \in Adds /\ j + 1 \in Adds
      BY <1>4
    <3>2. \A m, n \in Nat : m # n => m + 1 # n + 1
      OBVIOUS
    <3> QED
      BY <3>1, <3>2
  <2>2. input[i + 1].id # input[j + 1].id
    BY <1>1, <2>1 DEF MessageInv
  <2> QED
    BY <1>4, <2>2
<1>11. Head(input).type = "add" => req[Head(input).id] = Fresh /\ Head(input).id \in Req
  BY <1>1, <1>2, <1>5, <1>6 DEF MessageInv
<1> QED
  BY <1>2, <1>7, <1>8, <1>9, <1>10, <1>11 DEF MessageInv

\* A new request joins the end of a queue.
LEMMA AddIs ==
  ASSUME Core, stage = "idle", NEW r \in Req, req[r] = Fresh, AddRequest(r),
         UNCHANGED <<batch, parked>>
  PROVE  /\ req' \in [Req -> Counters] /\ req'[r].status = "live"
         /\ \A q \in Req : q # r => req'[q] = req[q]
         /\ running' \in Seq(Req) /\ waiting' \in Seq(Req) /\ skipped' \in Seq(Req)
         /\ UNCHANGED <<running, held, step, latch, unreported, ring, compiling, stage, pass>>
         /\ QueueInv' /\ PassInv' /\ OutInv' /\ CountInv'
<1> DEFINE c == [Fresh EXCEPT !.status = "live"]
<1>1. TypeOK /\ QueueInv /\ OutInv
  BY DEF Core
<1>2. /\ UNCHANGED <<running, held, step, latch, unreported, ring, compiling, stage, pass>>
      /\ req' = [req EXCEPT ![r] = c]
      /\ \/ skipped' = Append(skipped, r) /\ waiting' = waiting
         \/ skipped' = skipped /\ waiting' = Append(waiting, r)
  BY <1>1 DEF AddRequest, rest, TypeOK
<1>3. /\ c \in Counters /\ c.status = "live" /\ c.output = 0 /\ c.inFlight = 0
      /\ c.stale = 0 /\ c.owed = 0
  BY DEF Fresh, Counters
<1> HIDE DEF c
<1>4. /\ req' \in [Req -> Counters] /\ req'[r] = c /\ ~Live(r) /\ req[r].status = "new"
      /\ \A q \in Req : q # r => req'[q] = req[q]
  BY <1>1, <1>2, <1>3 DEF TypeOK, Live, Fresh
<1>5. /\ running \in Seq(Req) /\ waiting \in Seq(Req) /\ skipped \in Seq(Req)
      /\ IsInjective(waiting) /\ IsInjective(skipped)
      /\ r \notin ToSet(waiting) /\ r \notin ToSet(skipped)
      /\ Stand(ToSet(running), ToSet(pass.over), ToSet(skipped), ToSet(pass.later),
               ToSet(waiting), {q \in Req : Live(q)})
  BY <1>1, <1>4, TypeParts DEF QueueInv, Stand
<1>6. /\ skipped' \in Seq(Req) /\ waiting' \in Seq(Req)
      /\ IsInjective(skipped') /\ IsInjective(waiting')
      /\ \/ ToSet(skipped') = ToSet(skipped) \cup {r} /\ ToSet(waiting') = ToSet(waiting)
         \/ ToSet(skipped') = ToSet(skipped) /\ ToSet(waiting') = ToSet(waiting) \cup {r}
  <2>1. /\ Append(skipped, r) \in Seq(Req) /\ IsInjective(Append(skipped, r))
        /\ ToSet(Append(skipped, r)) = ToSet(skipped) \cup {r}
    BY <1>5, AppendSets
  <2>2. /\ Append(waiting, r) \in Seq(Req) /\ IsInjective(Append(waiting, r))
        /\ ToSet(Append(waiting, r)) = ToSet(waiting) \cup {r}
    BY <1>5, AppendSets
  <2> QED
    BY <1>2, <1>5, <2>1, <2>2
<1>7. QueueInv'
  <2> DEFINE A == ToSet(running)  B == ToSet(pass.over)  C == ToSet(skipped)
             D == ToSet(pass.later)  E == ToSet(waiting)  all == {q \in Req : Live(q)}
  <2>1. Stand(A, B, C, D, E, all) /\ r \notin all
    BY <1>4, <1>5
  <2>2. all' = all \cup {r}
    BY <1>3, <1>4 DEF Live
  <2>3. A' = A /\ B' = B /\ D' = D
    BY <1>2
  <2>4. \/ C' = C \cup {r} /\ E' = E
        \/ C' = C /\ E' = E \cup {r}
    BY <1>6
  <2> HIDE DEF A, B, C, D, E, all
  <2>5. /\ Stand(A, B, C \cup {r}, D, E, all \cup {r})
        /\ Stand(A, B, C, D, E \cup {r}, all \cup {r})
    BY <2>1 DEF Stand, Apart
  <2>6. Stand(A', B', C', D', E', all')
    BY <2>2, <2>3, <2>4, <2>5
  <2> QED
    BY <1>1, <1>2, <1>6, <2>6 DEF QueueInv, A, B, C, D, E, all
<1>8. PassInv'
  BY <1>2, IdlePass
<1>9. OutInv'
  BY <1>3, <1>4, SameOutputs
<1>10. CountInv'
  <2> SUFFICES ASSUME NEW q \in Req, Live(q)'
               PROVE  Counted(q, req[q], Runs(q), pass.out[q], Held(q), Dues(q))'
    BY DEF CountInv
  <2>1. CASE q # r
    BY <1>2, <1>4, <2>1, SameCount DEF Runs
  <2>2. CASE q = r
    <3>1. \A i \in 1..Len(InFlight) : TokensOf(InFlight[i], r) = 0
      BY <1>1, <1>4, EntryParts DEF OutInv, TokensOf
    <3>2. Len(InFlight) \in 0..2
      BY <1>1, InFlightIs
    <3>3. Held(r) = 0
      BY <1>1, <3>1, <3>2, HeldIs
    <3>4. Held(r)' = 0
      BY <3>3, SameInFlight
    <3>5. Runs(r)' = FALSE
      BY <1>2, <1>4, <1>5 DEF Runs, Stand
    <3>6. c.output < MaxTokens[r]
      BY <1>3, RequestAssumption
    <3> QED
      BY <1>3, <1>4, <2>2, <3>4, <3>5, <3>6 DEF Counted
  <2> QED
    BY <2>1, <2>2
<1> QED
  BY <1>2, <1>3, <1>4, <1>5, <1>6, <1>7, <1>8, <1>9, <1>10

LEMMA HandleMessageKeeps == ASSUME Core, HandleMessage PROVE Core'
<1> DEFINE m == Head(input)
<1>1. /\ input # <<>> /\ input' = Tail(input) /\ loop \in {"poll", "coalesce"}
      /\ UNCHANGED <<loop, aborts, sent, gaveUp, batch, parked>>
      /\ Dispatch(m)
  BY DEF HandleMessage
<1>2. TypeOK /\ LoopInv /\ MessageInv
  BY DEF Core
<1>3. stage = "idle"
  BY <1>1, <1>2 DEF LoopInv
<1>4. /\ m \in Message /\ m = input[1] /\ 1 \in DOMAIN input
      /\ m.type = "add" => req[m.id] = Fresh /\ m.id \in Req
  <2>1. input \in Seq(Message) /\ Len(input) # 0 /\ Len(input) \in Nat
    BY <1>1, <1>2, EmptySeq, LenProperties DEF TypeOK
  <2>2. m \in Message /\ m = input[1] /\ 1 \in DOMAIN input
    BY <1>1, <2>1, HeadTailProperties, LenProperties
  <2>3. m.type = "add" => 1 \in Adds
    BY <2>2 DEF Adds
  <2>4. m.type = "add" => req[m.id].status = "new" /\ m.id \in Req
    BY <1>2, <2>2, <2>3 DEF MessageInv, TypeOK
  <2> QED
    BY <1>2, <2>2, <2>4 DEF MessageInv
<1> HIDE DEF m
<1>5. /\ req' \in [Req -> Counters]
      /\ running' \in Seq(Req) /\ waiting' \in Seq(Req) /\ skipped' \in Seq(Req)
      /\ held' \subseteq held /\ unreported' \in BOOLEAN
      /\ UNCHANGED <<step, latch, ring, compiling, stage, pass>>
      /\ \A q \in Req :
           /\ req[q].status = "new" => req'[q] = req[q] \/ (m.type = "add" /\ q = m.id)
           /\ req'[q].status = "new" => req[q].status = "new"
      /\ m.type = "add" => req'[m.id].status # "new"
      /\ QueueInv' /\ PassInv' /\ OutInv' /\ CountInv'
  <2>1. CASE m.type = "add"
    <3>1. AddRequest(m.id) /\ m.id \in Req /\ req[m.id] = Fresh /\ unreported \in BOOLEAN
      BY <1>1, <1>2, <1>4, <2>1 DEF Dispatch, TypeOK
    <3>2. /\ req' \in [Req -> Counters] /\ req'[m.id].status = "live"
          /\ \A q \in Req : q # m.id => req'[q] = req[q]
          /\ running' \in Seq(Req) /\ waiting' \in Seq(Req) /\ skipped' \in Seq(Req)
          /\ UNCHANGED <<running, held, step, latch, unreported, ring, compiling, stage, pass>>
          /\ QueueInv' /\ PassInv' /\ OutInv' /\ CountInv'
      BY <1>1, <1>3, <3>1, AddIs
    <3> QED
      BY <2>1, <3>1, <3>2
  <2>2. CASE m.type # "add"
    <3> DEFINE gone == {q \in {m.id} : Live(q)}
    <3>1. FinishRequests(gone) /\ \A q \in gone : q \in Req /\ Live(q)
      BY <1>1, <1>4, <2>2 DEF Dispatch, Message
    <3> HIDE DEF gone
    <3> QED
      BY <1>1, <1>3, <2>2, <3>1, FinishIs
  <2> QED
    BY <2>1, <2>2
<1>6. /\ input' \in Seq(Message) /\ MessageInv'
  BY <1>1, <1>5, TakeMessage DEF m
<1>7. TypeOK'
  <2>1. arrived' \in BOOLEAN
    BY <1>2 DEF HandleMessage, TypeOK
  <2> QED
    BY <1>1, <1>2, <1>5, <1>6, <2>1 DEF TypeOK
<1>8. LoopInv'
  BY <1>1, <1>2, <1>5 DEF LoopInv
<1> QED
  BY <1>5, <1>6, <1>7, <1>8 DEF Core

-----------------------------------------------------------------------------
(* The oldest result is read.                                               *)

\* The others move up.
LEMMA Leaves ==
  ASSUME Core, Retire
  PROVE  /\ batch # <<>> /\ Len(InFlight) \in 1..2 /\ batch[1] = InFlight[1]
         /\ InFlight[1] \in OutputType
         /\ InFlight' \in Seq(OutputType) /\ Len(InFlight') = Len(InFlight) - 1
         /\ \A i \in 1..(Len(InFlight) - 1) : InFlight'[i] = InFlight[i + 1]
         /\ batch' \in Seq(OutputType) /\ Len(batch') = Len(InFlight) - 1 /\ parked' = <<>>
<1>1. TypeOK /\ LoopInv /\ loop = "retire"
  BY DEF Core, Retire
<1>2. batch # <<>> /\ batch \in Seq(OutputType) /\ parked \in Seq(OutputType)
  BY <1>1 DEF LoopInv, TypeOK
<1>3. /\ Len(InFlight) \in 0..2 /\ InFlight \in Seq(OutputType) /\ InFlight # <<>>
      /\ batch[1] = InFlight[1] /\ \A i \in 1..Len(InFlight) : InFlight[i] \in OutputType
  BY <1>1, <1>2, InFlightIs
<1>4. Len(InFlight) # 0
  BY <1>3, EmptySeq
<1>5. Tail(InFlight) = Tail(batch) \o parked
  BY <1>2 DEF InFlight
<1>6. InFlight' = (Tail(batch) \o parked) \o <<>> /\ batch' = Tail(batch) \o parked
  BY DEF Retire, InFlight
<1>7. /\ Tail(InFlight) \in Seq(OutputType) /\ Len(Tail(InFlight)) = Len(InFlight) - 1
      /\ \A i \in 1..(Len(InFlight) - 1) : Tail(InFlight)[i] = InFlight[i + 1]
  BY <1>3, HeadTailProperties
<1>8. InFlight' = Tail(InFlight)
  BY <1>5, <1>6, <1>7, ConcatEmptySeq
<1>9. \A n \in 0..2 : n # 0 => n \in 1..2 /\ 1 \in 1..n
  OBVIOUS
<1> QED
  BY <1>2, <1>3, <1>4, <1>5, <1>6, <1>7, <1>8, <1>9 DEF Retire

\* The sums shrink by what it held.
LEMMA LeftSums ==
  ASSUME Core, Retire, NEW q \in Req
  PROVE  /\ Held(q) = TokensOf(batch[1], q) + Held(q)'
         /\ Dues(q) = Due(batch[1], q) + Dues(q)'
         /\ Held(q)' \in Nat /\ Dues(q)' \in Nat
         /\ batch[1][q].tokens \in Nat /\ batch[1][q].drafts \in Nat
         /\ TokensOf(batch[1], q) = batch[1][q].tokens
         /\ Due(batch[1], q) = IF batch[1][q].samples THEN batch[1][q].drafts + 1 ELSE 0
<1>1. /\ Len(InFlight) \in 1..2 /\ batch[1] = InFlight[1] /\ InFlight[1] \in OutputType
      /\ InFlight' \in Seq(OutputType) /\ Len(InFlight') = Len(InFlight) - 1
      /\ \A i \in 1..(Len(InFlight) - 1) : InFlight'[i] = InFlight[i + 1]
  BY Leaves
<1>2. /\ TokensOf(InFlight[1], q) \in Nat /\ Due(InFlight[1], q) \in Nat
      /\ InFlight[1][q].tokens \in Nat /\ InFlight[1][q].drafts \in Nat
  BY <1>1, EntryParts
<1>3. /\ TokensOf(InFlight[1], q) = InFlight[1][q].tokens
      /\ Due(InFlight[1], q) = IF InFlight[1][q].samples THEN InFlight[1][q].drafts + 1 ELSE 0
  BY DEF TokensOf, Due
<1>4. CASE Len(InFlight) = 1
  <2>1. Held(q) = TokensOf(InFlight[1], q) /\ Dues(q) = Due(InFlight[1], q)
    BY <1>4, HeldIs DEF Core
  <2>2. Len(InFlight') = 0
    BY <1>1, <1>4
  <2>3. Held(q)' = 0 /\ Dues(q)' = 0
    BY <2>2, NextHeld
  <2> QED
    BY <1>1, <1>2, <1>3, <2>1, <2>3
<1>5. CASE Len(InFlight) = 2
  <2>1. /\ Held(q) = TokensOf(InFlight[1], q) + TokensOf(InFlight[2], q)
        /\ Dues(q) = Due(InFlight[1], q) + Due(InFlight[2], q)
    BY <1>5, HeldIs DEF Core
  <2>2. Len(InFlight') = 1 /\ InFlight'[1] = InFlight[2]
    BY <1>1, <1>5
  <2>3. InFlight[2] \in OutputType
    BY <1>5, InFlightIs DEF Core
  <2>4. TokensOf(InFlight[2], q) \in Nat /\ Due(InFlight[2], q) \in Nat
    BY <2>3, EntryParts
  <2>5. Held(q)' = TokensOf(InFlight[2], q) + 0 /\ Dues(q)' = Due(InFlight[2], q) + 0
    BY <2>2, NextHeld
  <2> QED
    BY <1>1, <1>2, <1>3, <2>1, <2>4, <2>5
<1> QED
  BY <1>1, <1>4, <1>5

\* What update_from_output makes of one request of the step that goes on: n tokens
\* came back, m of them fit its max_tokens.
After(r, o, m, n) ==
  LET late == [req[r] EXCEPT
                 !.inFlight = @ - o.tokens,
                 !.stale = IF Counts(r) THEN 0 ELSE @ - o.tokens,
                 !.output = IF o.samples THEN @ + m ELSE @]
  IN IF Counts(r) /\ o.samples
       THEN [late EXCEPT !.computed = @ - (o.drafts + 1 - n),
                         !.owed = @ - (o.drafts + 1 - n) - m]
       ELSE late

\* A result that does not count belongs to a request that was preempted.
LEMMA AfterCount ==
  ASSUME Core, stage = "idle", Retire, NEW r \in Req, Live(r), batch[1][r].tokens > 0,
         NEW n \in Nat, n > 0, n <= batch[1][r].drafts + 1,
         batch[1][r].samples => req[r].output + Smaller(n, MaxTokens[r] - req[r].output)
                                < MaxTokens[r]
  PROVE  LET c == After(r, batch[1][r], Smaller(n, MaxTokens[r] - req[r].output), n)
         IN /\ c \in Counters /\ c.status = req[r].status
            /\ Counted(r, c, Runs(r), Nothing, Held(r)', Dues(r)')
<1> DEFINE o == batch[1][r]
           m == Smaller(n, MaxTokens[r] - req[r].output)
           c == After(r, o, m, n)
<1>1. TypeOK /\ CountInv
  BY DEF Core
<1>2. pass.out[r] = Nothing
  BY IdleIs
<1>3. Counted(r, req[r], Runs(r), Nothing, Held(r), Dues(r))
  BY <1>1, <1>2 DEF CountInv
<1>4. /\ Held(r) = o.tokens + Held(r)'
      /\ Dues(r) = (IF o.samples THEN o.drafts + 1 ELSE 0) + Dues(r)'
      /\ Held(r)' \in Nat /\ Dues(r)' \in Nat /\ o.tokens \in Nat /\ o.drafts \in Nat
      /\ o.tokens > 0
  BY LeftSums
<1>5. /\ req[r] \in Counters
      /\ req[r].computed \in Nat /\ req[r].output \in Nat /\ req[r].owed \in Nat
      /\ req[r].inFlight \in Nat /\ req[r].stale \in Nat /\ req[r].chunk \in BOOLEAN
      /\ Prompt[r] \in Nat \ {0} /\ MaxTokens[r] \in Nat \ {0}
  BY <1>1, RequestParts
<1>6. /\ req[r].output < MaxTokens[r] /\ req[r].inFlight = Held(r)
      /\ Runs(r) => req[r].stale = 0 /\ req[r].owed = Dues(r)
      /\ ~Runs(r) => req[r].stale = req[r].inFlight /\ req[r].owed = 0
      /\ Runs(r) /\ req[r].chunk => req[r].owed = 0 /\ req[r].computed < Prompt[r] + req[r].output
      /\ Runs(r) /\ ~req[r].chunk =>
           /\ req[r].computed = Prompt[r] + req[r].output + req[r].owed - 1
           /\ req[r].output + req[r].owed > 0
  BY <1>3, EntryParts DEF Counted
<1>7. o.samples => m = n
  BY <1>5 DEF Smaller
<1>8. n <= o.drafts + 1
  OBVIOUS
<1> HIDE DEF o, m
<1>9. CASE ~Runs(r)
  <2>1. req[r].stale > 0 /\ ~Counts(r)
    BY <1>4, <1>5, <1>6, <1>9 DEF Counts
  <2>2. c = [req[r] EXCEPT !.inFlight = req[r].inFlight - o.tokens,
                           !.stale = req[r].stale - o.tokens,
                           !.output = IF o.samples THEN req[r].output + m ELSE req[r].output]
    BY <1>5, <2>1 DEF After, Counters
  <2>3. /\ req[r].inFlight - o.tokens \in Nat /\ req[r].stale - o.tokens \in Nat
        /\ req[r].inFlight - o.tokens = Held(r)'
        /\ req[r].stale - o.tokens = req[r].inFlight - o.tokens
    BY <1>4, <1>5, <1>6, <1>9
  <2>4. (IF o.samples THEN req[r].output + m ELSE req[r].output) \in Nat
    BY <1>5, <1>7
  <2> HIDE DEF c
  <2>5. /\ c \in Counters /\ c.status = req[r].status /\ c.owed = req[r].owed
        /\ c.inFlight = req[r].inFlight - o.tokens /\ c.stale = req[r].stale - o.tokens
        /\ c.output = IF o.samples THEN req[r].output + m ELSE req[r].output
    BY <1>5, <2>2, <2>3, <2>4 DEF Counters
  <2>6. c.output < MaxTokens[r]
    BY <1>6, <2>5 DEF o, m
  <2> QED
    BY <1>6, <1>9, <2>3, <2>5, <2>6 DEF Counted, c, o, m
<1>10. CASE Runs(r) /\ ~o.samples
  <2>1. Counts(r) /\ req[r].stale = 0
    BY <1>6, <1>10 DEF Counts
  <2>2. c = [req[r] EXCEPT !.inFlight = req[r].inFlight - o.tokens,
                           !.stale = 0, !.output = req[r].output]
    BY <1>5, <1>10, <2>1 DEF After, Counters
  <2>3. /\ req[r].inFlight - o.tokens \in Nat /\ req[r].inFlight - o.tokens = Held(r)'
        /\ Dues(r)' = req[r].owed
    BY <1>4, <1>5, <1>6, <1>10
  <2> HIDE DEF c
  <2>4. /\ c \in Counters /\ c.status = req[r].status /\ c.owed = req[r].owed
        /\ c.inFlight = req[r].inFlight - o.tokens /\ c.stale = 0
        /\ c.output = req[r].output /\ c.computed = req[r].computed /\ c.chunk = req[r].chunk
    BY <1>5, <2>2, <2>3 DEF Counters
  <2> QED
    BY <1>6, <1>10, <2>3, <2>4, EntryParts DEF Counted, c, o, m
<1>11. CASE Runs(r) /\ o.samples
  <2> DEFINE computed == req[r].computed - (o.drafts + 1 - n)
             owed == req[r].owed - (o.drafts + 1 - n) - m
  <2>1. Counts(r) /\ req[r].stale = 0 /\ m = n
    BY <1>6, <1>7, <1>11 DEF Counts
  <2>2. c = [req[r] EXCEPT !.inFlight = req[r].inFlight - o.tokens,
                           !.stale = 0, !.output = req[r].output + m,
                           !.computed = computed, !.owed = owed]
    BY <1>5, <1>11, <2>1 DEF After, Counters
  <2>3. /\ req[r].inFlight - o.tokens \in Nat /\ req[r].inFlight - o.tokens = Held(r)'
        /\ req[r].output + m \in Nat
    BY <1>4, <1>5, <1>6, <2>1
  <2>4. owed = Dues(r)' /\ owed = req[r].owed - o.drafts - 1
    BY <1>4, <1>5, <1>6, <1>11, <2>1
  <2>5. ~req[r].chunk
    BY <1>4, <1>6, <1>11
  <2>6. /\ computed = Prompt[r] + (req[r].output + m) + owed - 1
        /\ (req[r].output + m) + owed > 0 /\ computed \in Nat
    BY <1>4, <1>5, <1>6, <1>11, <2>1, <2>4, <2>5
  <2> HIDE DEF c, computed, owed
  <2>7. /\ c \in Counters /\ c.status = req[r].status /\ c.owed = owed
        /\ c.inFlight = req[r].inFlight - o.tokens /\ c.stale = 0
        /\ c.output = req[r].output + m /\ c.computed = computed /\ c.chunk = req[r].chunk
    BY <1>4, <1>5, <2>2, <2>3, <2>4, <2>6 DEF Counters
  <2>8. c.output < MaxTokens[r]
    BY <1>11, <2>7 DEF o, m
  <2>9. c.inFlight = Held(r)' /\ c.stale = 0 /\ c.owed = Dues(r)' /\ ~c.chunk
    BY <2>3, <2>4, <2>5, <2>7
  <2>10. c.computed = Prompt[r] + c.output + c.owed - 1 /\ c.output + c.owed > 0
    BY <2>6, <2>7
  <2>11. Counted(r, c, Runs(r), Nothing, Held(r)', Dues(r)')
    BY <1>11, <2>8, <2>9, <2>10, EntryParts DEF Counted
  <2> QED
    BY <2>7, <2>11 DEF c, o, m
<1> QED
  BY <1>9, <1>10, <1>11

LEMMA RetireKeeps == ASSUME Core, Retire PROVE Core'
<1> DEFINE o == batch[1]
<1>1. /\ loop = "retire" /\ loop' = "poll" /\ parked' = <<>>
      /\ UNCHANGED <<input, aborts, sent, gaveUp, arrived>>
  BY DEF Retire
<1>2. TypeOK /\ LoopInv /\ OutInv /\ CountInv
  BY DEF Core
<1>3. stage = "idle"
  BY <1>1, <1>2 DEF LoopInv
<1>4. PICK gen \in [Req -> 1..(MostDrafts + 1)], eos \in SUBSET Sampling(o) :
        /\ \A r \in Req : gen[r] <= o[r].drafts + 1
        /\ UpdateFromOutput(o, gen, eos)
  BY DEF Retire
<1> DEFINE mine == {r \in Scheduled(o) : Live(r)}
           taken == [r \in Req |-> Smaller(gen[r], MaxTokens[r] - req[r].output)]
           byLength == {r \in mine : o[r].samples /\ req[r].output + taken[r] >= MaxTokens[r]}
           stopped == {r \in mine : o[r].samples /\ r \in eos} \cup byLength
           rejected == [r \in Req |-> o[r].drafts + 1 - gen[r]]
<1>5. /\ \A r \in mine : r \in Req /\ Live(r) /\ o[r].tokens > 0
      /\ \A r \in Req : Live(r) /\ r \notin mine => ~(o[r].tokens > 0)
  BY DEF Scheduled
<1>6. /\ \A r \in byLength : req'[r] = Freed("length")
      /\ \A r \in stopped : req'[r] = Freed("length") \/ req'[r] = Freed("stopped")
      /\ \A r \in mine : r \notin stopped => req'[r] = After(r, o[r], taken[r], gen[r])
      /\ \A r \in Req : r \notin mine => req'[r] = req[r]
      /\ Leave(stopped) /\ UNCHANGED <<step, latch, ring, compiling, stage, pass>>
      /\ DOMAIN req' = Req /\ req' = [r \in Req |-> req'[r]]
  <2>1. \A r \in Req : After(r, o[r], taken[r], gen[r]) =
          LET late == [req[r] EXCEPT
                         !.inFlight = @ - o[r].tokens,
                         !.stale = IF Counts(r) THEN 0 ELSE @ - o[r].tokens,
                         !.output = IF o[r].samples THEN @ + taken[r] ELSE @]
          IN IF Counts(r) /\ o[r].samples
               THEN [late EXCEPT !.computed = @ - rejected[r],
                                 !.owed = @ - rejected[r] - taken[r]]
               ELSE late
    BY DEF After
  <2>2. /\ req' = [r \in Req |-> IF r \in byLength THEN Freed("length")
                                 ELSE IF r \in stopped THEN Freed("stopped")
                                 ELSE IF r \in mine THEN After(r, o[r], taken[r], gen[r])
                                 ELSE req[r]]
        /\ Leave(stopped) /\ UNCHANGED <<step, latch, ring, compiling, stage, pass>>
    BY <1>4, <2>1 DEF UpdateFromOutput
  <2>3. stopped \subseteq mine /\ mine \subseteq Req /\ byLength \subseteq stopped
    BY <1>5
  <2> HIDE DEF mine, byLength, stopped, taken, rejected, o
  <2> QED
    BY <2>2, <2>3
<1>7. \A r \in mine : r \notin stopped =>
        /\ gen[r] \in Nat /\ gen[r] > 0 /\ gen[r] <= o[r].drafts + 1
        /\ taken[r] = Smaller(gen[r], MaxTokens[r] - req[r].output)
        /\ o[r].samples => req[r].output + taken[r] < MaxTokens[r]
  <2> SUFFICES ASSUME NEW r \in mine, r \notin stopped
               PROVE  /\ gen[r] \in Nat /\ gen[r] > 0 /\ gen[r] <= o[r].drafts + 1
                      /\ taken[r] = Smaller(gen[r], MaxTokens[r] - req[r].output)
                      /\ o[r].samples => req[r].output + taken[r] < MaxTokens[r]
    OBVIOUS
  <2>1. r \in Req
    BY <1>5
  <2>2. gen[r] \in Nat /\ gen[r] > 0 /\ gen[r] <= o[r].drafts + 1
    <3>1. gen[r] \in 1..(MostDrafts + 1) /\ MostDrafts \in Nat
      BY <1>4, <2>1, MostDraftsIsNat
    <3> QED
      BY <1>4, <2>1, <3>1
  <2>3. taken[r] = Smaller(gen[r], MaxTokens[r] - req[r].output)
    BY <2>1
  <2>4. o[r].samples => ~(req[r].output + taken[r] >= MaxTokens[r])
    OBVIOUS
  <2>5. taken[r] \in Int /\ req[r].output \in Nat /\ MaxTokens[r] \in Nat
    BY <1>2, <2>1, <2>2, <2>3, RequestParts DEF Smaller
  <2> HIDE DEF taken, mine, stopped, o
  <2> QED
    BY <2>2, <2>3, <2>4, <2>5
<1>8. stopped \subseteq mine
  BY <1>5
<1> HIDE DEF mine, taken, byLength, stopped, rejected
<1>9. \A r \in mine : r \notin stopped =>
        /\ req'[r] \in Counters /\ req'[r].status = req[r].status
        /\ Counted(r, req'[r], Runs(r), Nothing, Held(r)', Dues(r)')
  <2> SUFFICES ASSUME NEW r \in mine, r \notin stopped
               PROVE  /\ req'[r] \in Counters /\ req'[r].status = req[r].status
                      /\ Counted(r, req'[r], Runs(r), Nothing, Held(r)', Dues(r)')
    OBVIOUS
  <2>1. r \in Req /\ Live(r) /\ o[r].tokens > 0
    BY <1>5
  <2>2. /\ gen[r] \in Nat /\ gen[r] > 0 /\ gen[r] <= o[r].drafts + 1
        /\ taken[r] = Smaller(gen[r], MaxTokens[r] - req[r].output)
        /\ o[r].samples => req[r].output + taken[r] < MaxTokens[r]
    BY <1>7
  <2>3. req'[r] = After(r, o[r], Smaller(gen[r], MaxTokens[r] - req[r].output), gen[r])
    BY <1>6, <2>2
  <2> QED
    BY <1>3, <2>1, <2>2, <2>3, AfterCount
<1>10. \A r \in stopped : req'[r] \in Counters /\ req'[r].status \in {"length", "stopped"}
  BY <1>6, FreedIs
<1>11. req' \in [Req -> Counters]
  <2>1. \A r \in Req : req'[r] \in Counters
    BY <1>2, <1>6, <1>9, <1>10, RequestParts
  <2> QED
    BY <1>6, <2>1
<1>12. \A r \in Req : Live(r)' <=> Live(r) /\ r \notin stopped
  BY <1>5, <1>6, <1>8, <1>9, <1>10 DEF Live
<1>13. \A r \in Req : /\ req'[r].status = "new" <=> req[r].status = "new"
                      /\ req[r].status = "new" => req'[r] = req[r]
  BY <1>5, <1>6, <1>8, <1>9, <1>10 DEF Live
<1>14. /\ QueueInv' /\ ToSet(running') = ToSet(running) \ stopped
       /\ running' \in Seq(Req) /\ waiting' \in Seq(Req) /\ skipped' \in Seq(Req)
       /\ held' \subseteq held /\ unreported' \in BOOLEAN
  BY <1>3, <1>6, <1>12, LeaveKeeps
<1>15. /\ Len(InFlight) \in 1..2 /\ InFlight' \in Seq(OutputType)
       /\ Len(InFlight') = Len(InFlight) - 1
       /\ \A i \in 1..(Len(InFlight) - 1) : InFlight'[i] = InFlight[i + 1]
       /\ batch' \in Seq(OutputType) /\ Len(batch') = Len(InFlight) - 1
  BY Leaves
<1>16. Len(batch') \in 0..1
  <2>1. \A n \in 1..2 : n - 1 \in 0..1
    OBVIOUS
  <2> QED
    BY <1>15, <2>1
<1>17. TypeOK'
  <2>1. parked' \in Seq(OutputType) /\ Len(parked') = 0
    BY <1>1
  <2>2. Len(batch') + Len(parked') <= QueueSize
    BY <1>16, <2>1 DEF QueueSize
  <2> QED
    BY <1>1, <1>2, <1>6, <1>11, <1>14, <1>15, <2>1, <2>2 DEF TypeOK
<1>18. LoopInv'
  <2>1. Len(batch') <= 1
    <3>1. \A n \in 0..1 : n <= 1
      OBVIOUS
    <3> QED
      BY <1>16, <3>1
  <2> QED
    BY <1>1, <1>2, <1>3, <1>6, <2>1 DEF LoopInv
<1>19. MessageInv'
  BY <1>1, <1>13, SameMessages
<1>20. PassInv'
  BY <1>3, <1>6, IdlePass
<1>21. OutInv'
  <2>1. \A i \in 1..Len(InFlight') : /\ i + 1 \in 1..Len(InFlight)
                                     /\ InFlight'[i] = InFlight[i + 1]
    BY <1>15
  <2>2. \A i \in 1..Len(InFlight') : \A q \in Req :
          Sound(InFlight'[i][q]) /\ (req[q].status = "new" => InFlight'[i][q] = Nothing)
    BY <1>2, <2>1 DEF OutInv
  <2> QED
    BY <1>13, <2>2 DEF OutInv, Sound
<1>22. CountInv'
  <2> SUFFICES ASSUME NEW q \in Req, Live(q)'
               PROVE  Counted(q, req[q], Runs(q), pass.out[q], Held(q), Dues(q))'
    BY DEF CountInv
  <2>1. q \notin stopped /\ Live(q) /\ (Runs(q)' <=> Runs(q))
    BY <1>12, <1>14 DEF Runs
  <2>2. pass'.out[q] = Nothing /\ pass.out[q] = Nothing
    BY <1>3, <1>6, IdleIs
  <2>3. Counted(q, req'[q], Runs(q), Nothing, Held(q)', Dues(q)')
    <3>1. CASE q \in mine
      BY <1>9, <2>1, <3>1
    <3>2. CASE q \notin mine
      <4>1. /\ Held(q) = o[q].tokens + Held(q)'
            /\ Dues(q) = (IF o[q].samples THEN o[q].drafts + 1 ELSE 0) + Dues(q)'
            /\ Held(q)' \in Nat /\ Dues(q)' \in Nat /\ o[q].tokens \in Nat
        BY LeftSums
      <4>2. o[q] = Nothing
        <5>1. o[q].tokens = 0
          BY <1>5, <2>1, <3>2, <4>1
        <5>2. o = InFlight[1] /\ 1 \in 1..Len(InFlight)
          BY <1>15, Leaves
        <5> QED
          BY <1>2, <5>1, <5>2 DEF OutInv, Sound
      <4>3. Held(q) = Held(q)' /\ Dues(q) = Dues(q)'
        BY <4>1, <4>2, EntryParts
      <4>4. Counted(q, req[q], Runs(q), Nothing, Held(q), Dues(q))
        BY <1>2, <2>1, <2>2 DEF CountInv
      <4> QED
        BY <1>6, <3>2, <4>3, <4>4
    <3> QED
      BY <3>1, <3>2
  <2> QED
    BY <2>1, <2>2, <2>3 DEF Counted
<1> QED
  BY <1>14, <1>17, <1>18, <1>19, <1>20, <1>21, <1>22 DEF Core

-----------------------------------------------------------------------------
(* The theorems.                                                            *)

LEMMA InitCore == Init => Core
<1> SUFFICES ASSUME Init PROVE Core
  OBVIOUS
<1>1. /\ req = [r \in Req |-> Fresh] /\ running = <<>> /\ waiting = <<>> /\ skipped = <<>>
      /\ held = {} /\ step = 0 /\ latch = FALSE /\ unreported = FALSE /\ ring = <<>>
      /\ compiling = Structured /\ stage = "idle" /\ pass = NoPass
      /\ loop = "poll" /\ input = <<>> /\ aborts = {} /\ sent = {} /\ gaveUp = {}
      /\ arrived = FALSE /\ batch = <<>> /\ parked = <<>>
  BY DEF Init, SInit
<1>2. Fresh \in Counters /\ Fresh.status = "new"
  BY DEF Fresh, Counters
<1>3. /\ NoPass \in PassType /\ NoPass.over = <<>> /\ NoPass.later = <<>> /\ NoPass.at = 1
      /\ \A r \in Req : NoPass.out[r] = Nothing
  <2>1. Empty \in OutputType /\ <<>> \in Seq(Req) /\ \A r \in Req : Empty[r] = Nothing
    BY EntryParts
  <2> QED
    BY <2>1 DEF NoPass, PassType
<1>4. \A S : <<>> \in Seq(S) /\ Len(<<>>) = 0
  OBVIOUS
<1>5. 0 \in 0..(Interval - 1)
  BY BudgetAssumption
<1>6. TypeOK
  <2>1. req \in [Req -> Counters]
    BY <1>1, <1>2
  <2>2. Len(batch) + Len(parked) <= QueueSize /\ Len(ring) <= RingSlots
    BY <1>1, <1>4 DEF QueueSize, RingSlots
  <2>3. /\ running \in Seq(Req) /\ waiting \in Seq(Req) /\ skipped \in Seq(Req)
        /\ ring \in Seq(SUBSET Req) /\ input \in Seq(Message)
        /\ batch \in Seq(OutputType) /\ parked \in Seq(OutputType)
    BY <1>1
  <2> QED
    BY <1>1, <1>3, <1>5, <2>1, <2>2, <2>3 DEF TypeOK
<1>7. LoopInv
  BY <1>1, <1>3, <1>4 DEF LoopInv
<1>8. MessageInv
  BY <1>1, <1>2, <1>4 DEF MessageInv, Adds
<1>9. QueueInv
  <2>1. ToSet(<<>>) = {} /\ IsInjective(<<>>)
    BY EmptySets
  <2>2. {r \in Req : Live(r)} = {}
    BY <1>1, <1>2 DEF Live
  <2>3. Stand({}, {}, {}, {}, {}, {})
    BY DEF Stand, Apart
  <2>4. Len(running) <= MaxRunning
    BY <1>1, <1>4, BudgetAssumption
  <2> QED
    BY <1>1, <1>3, <2>1, <2>2, <2>3, <2>4 DEF QueueInv
<1>10. PassInv
  BY <1>1, <1>3, EntryParts DEF PassInv
<1>11. OutInv
  BY <1>1, <1>4, <1>6, InFlightIs DEF OutInv
<1>12. CountInv
  BY <1>1, <1>2 DEF CountInv, Live
<1> QED
  BY <1>6, <1>7, <1>8, <1>9, <1>10, <1>11, <1>12 DEF Core

LEMMA ScheduleKeeps == ASSUME Core, Schedule PROVE Core'
<1>1. CASE EndWaiting
  BY <1>1, EndWaitingKeeps DEF Schedule
<1>2. CASE EndRunning
  <2>1. Turn
    BY <1>2 DEF Turn, Schedule, EndRunning, rest
  <2> QED
    BY <1>2, <2>1, EndRunningKeeps
<1>3. ASSUME NEW r \in Req,
             SkipEach(r) \/ Grant(r) \/ GiveUp(r) \/ PassOver(r) \/ SetAside(r) \/ Admit(r)
      PROVE  Core'
  <2>1. Turn
    BY <1>3 DEF Turn, Schedule, rest, SkipEach, SkipEnding, HoldBack, DeferChunk, SkipEmpty,
                Grant, GiveUp, PassOver, SetAside, Admit
  <2> QED
    BY <1>3, <2>1, SkipKeeps, GrantKeeps, GiveUpKeeps, AsideKeeps, AdmitKeeps
<1> QED
  BY <1>1, <1>2, <1>3 DEF Schedule, SkipEach

LEMMA NextCore == Core /\ [Next]_vars => Core'
<1> SUFFICES ASSUME Core, [Next]_vars PROVE Core'
  OBVIOUS
<1>1. CASE HandleMessage
  BY <1>1, HandleMessageKeeps
<1>2. CASE ClearAborts \/ EndPoll \/ EndWindow \/ NothingToSchedule
  BY <1>2, LoopMoveKeeps
<1>3. CASE StartStep
  BY <1>3, StartStepKeeps
<1>4. CASE Schedule
  BY <1>4, ScheduleKeeps
<1>5. CASE QueueOutput
  BY <1>5, QueueOutputKeeps
<1>6. CASE ProcessAborts
  BY <1>6, ProcessAbortsKeeps
<1>7. CASE Retire
  BY <1>7, RetireKeeps
<1>8. ASSUME NEW r \in Req, SendAdd(r) \/ SendAbort(r) \/ Compiler(r) PROVE Core'
  BY <1>8, SendAddKeeps, SendAbortKeeps, CompilerKeeps
<1>9. CASE UNCHANGED vars
  BY <1>9, StutterKeeps
<1> QED
  BY <1>1, <1>2, <1>3, <1>4, <1>5, <1>6, <1>7, <1>8, <1>9 DEF Next, Engine

THEOREM CoreInvariant == Spec => []Core
<1>1. Init => Core
  BY InitCore
<1>2. Core /\ [Next]_vars => Core'
  BY NextCore
<1> QED
  BY <1>1, <1>2, PTL DEF Spec

\* The counters never go below zero, however many placeholders a result takes back,
\* and no more than two steps are in flight.
THEOREM EngineTypes == Spec => []TypeOK
<1>1. Core => TypeOK
  BY DEF Core
<1> QED
  BY <1>1, CoreInvariant, PTL

\* Whatever a pass passes over, sets aside or preempts, no request is lost or doubled.
THEOREM NobodyLost == Spec => []QueuedOnce
<1>1. Core => QueuedOnce
  <2> SUFFICES ASSUME Core PROVE QueuedOnce
    OBVIOUS
  <2> DEFINE A == ToSet(running)  B == ToSet(pass.over)  C == ToSet(skipped)
             D == ToSet(pass.later)  E == ToSet(waiting)  all == {q \in Req : Live(q)}
             p == running \o pass.over
             q == p \o skipped
             s == q \o pass.later
  <2>1. /\ running \in Seq(Req) /\ pass.over \in Seq(Req) /\ skipped \in Seq(Req)
        /\ pass.later \in Seq(Req) /\ waiting \in Seq(Req)
    BY TypeParts DEF Core
  <2>2. /\ IsInjective(running) /\ IsInjective(pass.over) /\ IsInjective(skipped)
        /\ IsInjective(pass.later) /\ IsInjective(waiting)
        /\ Stand(A, B, C, D, E, all) /\ held \subseteq A
    BY DEF Core, QueueInv
  <2>3. p \in Seq(Req) /\ ToSet(p) = A \cup B /\ IsInjective(p)
    <3>1. p \in Seq(Req)
      BY <2>1, ConcatProperties
    <3>2. A \cap B = {}
      BY <2>2 DEF Stand, Apart
    <3> QED
      BY <2>1, <2>2, <3>1, <3>2, ConcatSets
  <2> HIDE DEF p
  <2>4. q \in Seq(Req) /\ ToSet(q) = ToSet(p) \cup C /\ IsInjective(q)
    <3>1. q \in Seq(Req)
      BY <2>1, <2>3, ConcatProperties
    <3>2. ToSet(p) \cap C = {}
      BY <2>2, <2>3 DEF Stand, Apart
    <3> QED
      BY <2>1, <2>2, <2>3, <3>1, <3>2, ConcatSets
  <2> HIDE DEF q
  <2>5. s \in Seq(Req) /\ ToSet(s) = ToSet(q) \cup D /\ IsInjective(s)
    <3>1. s \in Seq(Req)
      BY <2>1, <2>4, ConcatProperties
    <3>2. ToSet(q) \cap D = {}
      BY <2>2, <2>3, <2>4 DEF Stand, Apart
    <3> QED
      BY <2>1, <2>2, <2>4, <3>1, <3>2, ConcatSets
  <2> HIDE DEF s
  <2>6. ToSet(s \o waiting) = ToSet(s) \cup E /\ IsInjective(s \o waiting)
    <3>1. ToSet(s) \cap E = {}
      BY <2>2, <2>3, <2>4, <2>5 DEF Stand, Apart
    <3> QED
      BY <2>1, <2>2, <2>5, <3>1, ConcatSets
  <2>7. Places = s \o waiting
    BY DEF Places, s, q, p
  <2>8. ToSet(Places) = all
    BY <2>2, <2>3, <2>4, <2>5, <2>6, <2>7 DEF Stand
  <2> QED
    BY <2>2, <2>6, <2>7, <2>8 DEF QueuedOnce
<1> QED
  BY <1>1, CoreInvariant, PTL

\* Placeholders are what the steps in flight may still return, and a preempted
\* request is owed nothing.
THEOREM PlaceholdersExact == Spec => []PlaceholdersBacked
<1>1. Core => PlaceholdersBacked
  <2> SUFFICES ASSUME Core, NEW r \in Req, Live(r)
      PROVE  /\ req[r].inFlight = Held(r)
             /\ IF req[r].stale > 0
                  THEN req[r].stale = req[r].inFlight /\ req[r].owed = 0
                  ELSE req[r].owed = Dues(r)
             /\ stage = "idle" /\ r \in ToSet(running) /\ ~req[r].chunk =>
                  req[r].computed = NumTokens(r) + req[r].owed - 1
    BY DEF PlaceholdersBacked, Held, Dues
  <2>1. Counted(r, req[r], Runs(r), pass.out[r], Held(r), Dues(r)) /\ TypeOK
    BY DEF Core, CountInv
  <2>2. req[r].stale \in Nat
    BY <2>1, RequestParts
  <2>3. CASE Runs(r)
    <3>1. /\ req[r].inFlight = Held(r) /\ req[r].stale = 0 /\ req[r].owed = Dues(r)
      BY <2>1, <2>3 DEF Counted
    <3>2. stage = "idle" /\ ~req[r].chunk => req[r].computed = NumTokens(r) + req[r].owed - 1
      BY <2>1, <2>3, IdleIs, EntryParts DEF Counted, NumTokens
    <3> QED
      BY <3>1, <3>2
  <2>4. CASE ~Runs(r)
    <3>1. /\ req[r].inFlight = Held(r) /\ req[r].stale = Held(r) /\ req[r].owed = 0
      BY <2>1, <2>4 DEF Counted
    <3>2. Held(r) = 0 => Dues(r) = 0
      BY NoneDue
    <3> QED
      BY <2>2, <2>4, <3>1, <3>2 DEF Runs
  <2> QED
    BY <2>3, <2>4
<1> QED
  BY <1>1, CoreInvariant, PTL

\* The loop never waits for a result when none is in flight.
THEOREM NoWaitForNothing == Spec => []ResultAwaited
<1>1. Core => ResultAwaited
  BY DEF Core, LoopInv, ResultAwaited
<1> QED
  BY <1>1, CoreInvariant, PTL

-----------------------------------------------------------------------------
(* The ring of the hand-outs.                                               *)

\* Its newest entries are the sampling requests of the steps in flight.
RingInv ==
  /\ Len(InFlight) <= Len(ring)
  /\ \A i \in 1..Len(InFlight) :
       ring[Len(ring) - Len(InFlight) + i] = {r \in Req : InFlight[i][r].samples}

LEMMA PushKeeps ==
  ASSUME NEW S, NEW s \in Seq(S), NEW x \in S, Len(s) <= RingSlots
  PROVE  /\ Len(Push(s, x)) \in Nat /\ Len(s) \in Nat /\ Len(Push(s, x)) <= Len(s) + 1
         /\ Len(Push(s, x)) >= 2 \/ Len(Push(s, x)) = Len(s) + 1
         /\ Push(s, x)[Len(Push(s, x))] = x
         /\ Len(s) >= 1 /\ Len(Push(s, x)) >= 2 => Push(s, x)[Len(Push(s, x)) - 1] = s[Len(s)]
<1> DEFINE u == Append(s, x)
<1>1. /\ u \in Seq(S) /\ Len(u) = Len(s) + 1 /\ Len(s) \in Nat
      /\ u[Len(s) + 1] = x /\ \A i \in 1..Len(s) : u[i] = s[i]
  BY AppendProperties, LenProperties
<1> HIDE DEF u
<1>2. CASE Len(u) > RingSlots
  <2>1. u # <<>>
    BY <1>1
  <2>2. /\ Len(Tail(u)) = Len(u) - 1
        /\ \A i \in 1..(Len(u) - 1) : Tail(u)[i] = u[i + 1]
    BY <1>1, <2>1, HeadTailProperties
  <2>3. Len(s) = 3
    <3>1. Len(s) \in Nat /\ Len(u) = Len(s) + 1
      BY <1>1
    <3>2. Len(s) <= 3 /\ Len(u) > 3
      BY <1>2 DEF RingSlots
    <3>3. \A n \in Nat : n <= 3 /\ n + 1 > 3 => n = 3
      OBVIOUS
    <3> QED
      BY <3>1, <3>2, <3>3
  <2>4. /\ Len(Tail(u)) = 3 /\ Tail(u)[3] = u[4] /\ Tail(u)[2] = u[3]
    <3>1. Len(u) - 1 = 3
      BY <1>1, <2>3
    <3>2. 2 \in 1..3 /\ 3 \in 1..3 /\ 2 + 1 = 3 /\ 3 + 1 = 4
      OBVIOUS
    <3>3. Len(Tail(u)) = 3 /\ \A i \in 1..3 : Tail(u)[i] = u[i + 1]
      BY <2>2, <3>1
    <3> QED
      BY <3>2, <3>3
  <2>5. Push(s, x) = Tail(u)
    BY <1>2 DEF Push, u
  <2>6. u[4] = x /\ u[3] = s[3]
    <3>1. 3 \in 1..3 /\ 3 + 1 = 4
      OBVIOUS
    <3> QED
      BY <1>1, <2>3, <3>1
  <2> DEFINE w == Push(s, x)
  <2>7. Len(w) = 3 /\ w[3] = x /\ w[2] = s[3]
    BY <2>4, <2>5, <2>6
  <2> HIDE DEF w
  <2>8. /\ Len(w) \in Nat /\ Len(s) \in Nat /\ Len(w) <= Len(s) + 1 /\ Len(w) >= 2
        /\ w[Len(w)] = x /\ w[Len(w) - 1] = s[Len(s)]
    BY <2>3, <2>7
  <2> QED
    BY <2>8 DEF w
<1>3. CASE ~(Len(u) > RingSlots)
  <2>1. Push(s, x) = u
    BY <1>3 DEF Push, u
  <2>2. Len(s) >= 1 => u[(Len(s) + 1) - 1] = s[Len(s)]
    BY <1>1
  <2> QED
    BY <1>1, <2>1, <2>2
<1> QED
  BY <1>2, <1>3

\* Only the end of a pass and the reading of a result change what is in flight.
LEMMA FlightChanges ==
  ASSUME [Next]_vars
  PROVE  QueueOutput \/ Retire \/ UNCHANGED <<ring, batch, parked>>
<1>1. ASSUME NEW r \in Req, SendAdd(r) \/ SendAbort(r) \/ Compiler(r)
      PROVE  UNCHANGED <<ring, batch, parked>>
  BY <1>1 DEF SendAdd, SendAbort, Compiler, Compile, svars, cvars
<1>2. CASE ClearAborts \/ EndPoll \/ EndWindow \/ NothingToSchedule
  BY <1>2 DEF ClearAborts, EndPoll, EndWindow, NothingToSchedule, svars
<1>3. CASE StartStep \/ ProcessAborts
  BY <1>3 DEF StartStep, Begin, ProcessAborts, FinishRequests
<1>4. CASE HandleMessage
  BY <1>4 DEF HandleMessage, Dispatch, AddRequest, FinishRequests, rest
<1>5. CASE Schedule
  BY <1>5 DEF Schedule, cvars, rest, SkipEnding, HoldBack, DeferChunk, SkipEmpty, Grant, GiveUp,
              PassOver, SetAside, Admit, EndRunning, EndWaiting
<1>6. CASE UNCHANGED vars
  BY <1>6 DEF vars, svars, cvars
<1> QED
  BY <1>1, <1>2, <1>3, <1>4, <1>5, <1>6 DEF Next, Engine

LEMMA RingNext == Core /\ RingInv /\ [Next]_vars => RingInv'
<1> SUFFICES ASSUME Core, RingInv, [Next]_vars PROVE RingInv'
  OBVIOUS
<1>1. /\ ring \in Seq(SUBSET Req) /\ Len(ring) <= RingSlots /\ Len(ring) \in Nat /\ TypeOK
  BY LenProperties DEF Core, TypeOK
<1>2. CASE UNCHANGED <<ring, batch, parked>>
  <2>1. InFlight' = InFlight /\ ring' = ring
    BY <1>2 DEF InFlight
  <2> QED
    BY <2>1 DEF RingInv
<1>3. CASE QueueOutput
  <2> DEFINE S == {r \in Req : Output[r].samples}
  <2>1. ring' = Push(ring, S) /\ S \in SUBSET Req
    BY <1>3 DEF QueueOutput, UpdateAfterSchedule
  <2>2. /\ Len(ring') \in Nat /\ Len(ring') <= Len(ring) + 1
        /\ Len(ring') >= 2 \/ Len(ring') = Len(ring) + 1
        /\ ring'[Len(ring')] = S
        /\ Len(ring) >= 1 /\ Len(ring') >= 2 => ring'[Len(ring') - 1] = ring[Len(ring)]
    BY <1>1, <2>1, PushKeeps
  <2> HIDE DEF S
  <2>3. /\ Len(InFlight') = Len(InFlight) + 1 /\ Len(InFlight) \in 0..1
        /\ \A i \in 1..Len(InFlight) : InFlight'[i] = InFlight[i]
        /\ InFlight'[Len(InFlight) + 1] = Output
    BY <1>3, Joins
  <2>4. CASE Len(InFlight) = 0
    <3>1. Len(InFlight') = 1 /\ InFlight'[1] = Output /\ Len(ring') >= 1
      BY <1>1, <2>2, <2>3, <2>4
    <3>2. ring'[Len(ring') - 1 + 1] = {r \in Req : InFlight'[1][r].samples}
      BY <2>2, <3>1 DEF S
    <3> QED
      BY <3>1, <3>2 DEF RingInv
  <2>5. CASE Len(InFlight) = 1
    <3>1. /\ Len(InFlight') = 2 /\ InFlight'[1] = InFlight[1] /\ InFlight'[2] = Output
      BY <2>3, <2>5
    <3>2. Len(ring) >= 1 /\ ring[Len(ring)] = {r \in Req : InFlight[1][r].samples}
      <4>1. Len(ring) >= 1 /\ ring[Len(ring) - 1 + 1] = {r \in Req : InFlight[1][r].samples}
        BY <2>5 DEF RingInv
      <4> QED
        BY <1>1, <4>1
    <3>3. Len(ring') >= 2
      BY <1>1, <2>2, <3>2
    <3>4. /\ ring'[Len(ring') - 2 + 1] = {r \in Req : InFlight'[1][r].samples}
          /\ ring'[Len(ring') - 2 + 2] = {r \in Req : InFlight'[2][r].samples}
      <4>1. Len(ring') - 2 + 1 = Len(ring') - 1 /\ Len(ring') - 2 + 2 = Len(ring')
        BY <2>2
      <4> QED
        BY <2>2, <3>1, <3>2, <3>3, <4>1 DEF S
    <3>5. \A i \in 1..2 : i = 1 \/ i = 2
      OBVIOUS
    <3> QED
      BY <3>1, <3>3, <3>4, <3>5 DEF RingInv
  <2>6. \A n \in 0..1 : n = 0 \/ n = 1
    OBVIOUS
  <2> QED
    BY <2>3, <2>4, <2>5, <2>6
<1>4. CASE Retire
  <2>1. ring' = ring
    BY <1>4 DEF Retire, UpdateFromOutput
  <2>2. /\ Len(InFlight) \in 1..2 /\ Len(InFlight') = Len(InFlight) - 1
        /\ \A i \in 1..(Len(InFlight) - 1) : InFlight'[i] = InFlight[i + 1]
    BY <1>4, Leaves
  <2>3. \A i \in 1..(Len(InFlight) - 1) :
          /\ i + 1 \in 1..Len(InFlight)
          /\ Len(ring) - (Len(InFlight) - 1) + i = Len(ring) - Len(InFlight) + (i + 1)
    BY <1>1, <2>2
  <2>4. Len(InFlight') <= Len(ring)
    BY <1>1, <2>2 DEF RingInv
  <2> QED
    BY <2>1, <2>2, <2>3, <2>4 DEF RingInv
<1> QED
  BY <1>2, <1>3, <1>4, FlightChanges

\* When a result with drafts is read, the ring still names its request: the
\* observation of its acceptance is never dropped.
THEOREM RingIsLongEnough == Spec => []RingCoversResults
<1>1. Init => RingInv
  <2> SUFFICES ASSUME Init PROVE RingInv
    OBVIOUS
  <2>1. Len(InFlight) = 0 /\ Len(ring) = 0
    BY DEF Init, SInit, InFlight
  <2> QED
    BY <2>1 DEF RingInv
<1>2. Core /\ RingInv => RingCoversResults
  <2> SUFFICES ASSUME Core, RingInv, loop = "retire", NEW r \in Req,
                      batch[1][r].drafts > 0
               PROVE  r \in UNION ToSet(ring)
    BY DEF RingCoversResults
  <2>1. TypeOK /\ batch # <<>> /\ OutInv
    BY DEF Core, LoopInv
  <2>2. Len(InFlight) \in 0..2 /\ InFlight[1] = batch[1] /\ Len(InFlight) # 0
    BY <2>1, InFlightIs, EmptySeq
  <2>3. 1 \in 1..Len(InFlight) /\ Len(InFlight) \in Nat
    BY <2>2
  <2>4. InFlight[1][r].samples
    BY <2>1, <2>2, <2>3 DEF OutInv, Sound
  <2>5. /\ ring[Len(ring) - Len(InFlight) + 1] = {q \in Req : InFlight[1][q].samples}
        /\ Len(InFlight) <= Len(ring)
    BY <2>3 DEF RingInv
  <2>6. ring \in Seq(SUBSET Req) /\ Len(ring) \in Nat
    BY <2>1, LenProperties DEF TypeOK
  <2>7. Len(ring) - Len(InFlight) + 1 \in 1..Len(ring)
    BY <2>3, <2>5, <2>6
  <2>8. {q \in Req : InFlight[1][q].samples} \in ToSet(ring)
    <3> DEFINE at == Len(ring) - Len(InFlight) + 1
               named == {q \in Req : InFlight[1][q].samples}
    <3>1. at \in 1..Len(ring) /\ ring[at] = named
      BY <2>5, <2>7
    <3> HIDE DEF at, named
    <3>2. ring[at] \in ToSet(ring)
      BY <2>6, <3>1, ToSetOf
    <3>3. named \in ToSet(ring)
      BY <3>1, <3>2
    <3> QED
      BY <3>3 DEF named
  <2> QED
    BY <2>4, <2>8
<1> QED
  BY <1>1, <1>2, RingNext, CoreInvariant, PTL DEF Spec

-----------------------------------------------------------------------------
(* The end-drain hold.                                                      *)

\* What the hold leaves to schedule cannot be finished by the step before it: not
\* when the pass gives it tokens, and not when its step is the second in flight.
Ends(r, status, output, owed, given) ==
  /\ status = "live" /\ given.tokens > 0 => output + owed < MaxTokens[r]
  /\ status = "live" /\ Len(InFlight) = 2 /\ InFlight[2][r].tokens > 0
       => output + Due(InFlight[1], r) < MaxTokens[r]
  /\ status = "length" => \A i \in 1..Len(InFlight) : InFlight[i][r].tokens = 0

EndInv ==
  EndDrain => \A r \in Req \ Structured :
    Ends(r, req[r].status, req[r].output, req[r].owed, pass.out[r])

\* A step that leaves the batch queue alone.
LEMMA EndKeeps ==
  ASSUME Core, EndInv, UNCHANGED <<batch, parked>>,
         \A r \in Req \ Structured : EndDrain =>
           /\ req'[r].status = "live" /\ pass'.out[r].tokens > 0
                => req'[r].output + req'[r].owed < MaxTokens[r]
           /\ req'[r].status = "live" =>
                \/ req[r].status = "live" /\ req'[r].output = req[r].output
                \/ req[r].status = "new"
           /\ req'[r].status = "length" => req[r].status = "length"
  PROVE  EndInv'
<1> SUFFICES ASSUME EndDrain, NEW r \in Req \ Structured
             PROVE  Ends(r, req[r].status, req[r].output, req[r].owed, pass.out[r])'
  BY DEF EndInv
<1>1. InFlight' = InFlight
  BY SameInFlight
<1>2. Ends(r, req[r].status, req[r].output, req[r].owed, pass.out[r])
  BY DEF EndInv
<1>3. req[r].status = "new" /\ Len(InFlight) = 2 => InFlight[2][r].tokens = 0
  BY EntryParts DEF Core, OutInv
<1> QED
  BY <1>1, <1>2, <1>3 DEF Ends, Due

\* In a pass nothing but what it gives matters.
LEMMA EndTurn ==
  ASSUME Core, EndInv, UNCHANGED <<batch, parked>>,
         \A r \in Req : req'[r].status = req[r].status /\ req'[r].output = req[r].output,
         \A r \in Req \ Structured : EndDrain =>
           \/ pass'.out[r] = pass.out[r] /\ req'[r] = req[r]
           \/ pass'.out[r] = pass.out[r] /\ req'[r].owed = 0
           \/ ~(pass'.out[r].tokens > 0)
           \/ req'[r].output + req'[r].owed < MaxTokens[r]
  PROVE  EndInv'
<1>1. ASSUME NEW r \in Req \ Structured, EndDrain,
             req'[r].status = "live", pass'.out[r].tokens > 0
      PROVE  req'[r].output + req'[r].owed < MaxTokens[r]
  <2>1. Ends(r, req[r].status, req[r].output, req[r].owed, pass.out[r])
    BY <1>1 DEF EndInv
  <2>2. /\ req'[r].status = req[r].status /\ req'[r].output = req[r].output
        /\ req[r].output \in Nat /\ req[r].owed \in Nat /\ MaxTokens[r] \in Nat
    BY RequestParts DEF Core
  <2>3. CASE pass'.out[r] = pass.out[r] /\ req'[r] = req[r]
    BY <1>1, <2>1, <2>2, <2>3 DEF Ends
  <2>4. CASE pass'.out[r] = pass.out[r] /\ req'[r].owed = 0
    <3>1. req[r].output + req[r].owed < MaxTokens[r]
      BY <1>1, <2>1, <2>2, <2>4 DEF Ends
    <3> QED
      BY <2>2, <2>4, <3>1
  <2> QED
    BY <1>1, <2>3, <2>4
<1> QED
  BY <1>1, EndKeeps

LEMMA EndSchedule == ASSUME Core, EndInv, Schedule PROVE EndInv'
<1>1. UNCHANGED <<batch, parked>> /\ TypeOK
  BY DEF Schedule, cvars, Core
<1>2. CASE EndRunning \/ EndWaiting
  <2>1. req' = req /\ pass'.out = pass.out
    BY <1>1, <1>2 DEF EndRunning, EndWaiting, TypeOK, PassType
  <2> QED
    BY <1>1, <2>1, EndTurn
<1>3. ASSUME NEW r \in Req, SkipEach(r) \/ PassOver(r) \/ SetAside(r) PROVE EndInv'
  <2>1. req' = req /\ pass'.out = pass.out
    BY <1>1, <1>3 DEF SkipEach, SkipEnding, HoldBack, DeferChunk, SkipEmpty, PassOver, SetAside,
                      TypeOK, PassType
  <2> QED
    BY <1>1, <2>1, EndTurn
<1>4. ASSUME NEW r \in Req, GiveUp(r) PROVE EndInv'
  <2>1. /\ pass'.out = pass.out
        /\ \A q \in Req : req'[q] = Preempted(req[q]) \/ req'[q] = req[q]
    BY <1>1, <1>4 DEF GiveUp, TypeOK, PassType
  <2>2. \A q \in Req : /\ req'[q].status = req[q].status /\ req'[q].output = req[q].output
                       /\ req'[q] = req[q] \/ req'[q].owed = 0
    BY <1>1, <2>1, RequestParts DEF Preempted, Counters
  <2> QED
    BY <1>1, <2>1, <2>2, EndTurn
<1>5. ASSUME NEW r \in Req, Grant(r) PROVE EndInv'
  <2>1. /\ \A q \in Req : q # r => req'[q] = Preempted(req[q]) \/ req'[q] = req[q]
        /\ \E c \in Counters : req'[r] = c /\ c.status = req[r].status
                               /\ c.output = req[r].output /\ c.owed = req[r].owed
    <3>1. PICK b : req' = [q \in Req |->
                     IF q = r THEN [req[r] EXCEPT !.spec = 0, !.blocks = b]
                     ELSE IF q \in ToSet(running) \ ToSet(running') THEN Preempted(req[q])
                     ELSE req[q]]
                 /\ b \in Nat
      <4>1. req[r].computed + NewTokens(r) \in Nat /\ req[r].blocks \in Nat
        <5>1. Visiting(r)
          BY <1>5 DEF Grant, Eligible
        <5>2. Room \in Nat /\ NewTokens(r) \in 0..Room
          BY <5>1, RunningTurn
        <5> QED
          BY <1>1, <5>2, RequestParts
      <4> DEFINE b == IF req[r].blocks > req[r].computed + NewTokens(r) THEN req[r].blocks
                      ELSE req[r].computed + NewTokens(r)
      <4>2. b \in Nat
        BY <4>1
      <4>3. req' = [q \in Req |->
                     IF q = r THEN [req[r] EXCEPT !.spec = 0, !.blocks = b]
                     ELSE IF q \in ToSet(running) \ ToSet(running') THEN Preempted(req[q])
                     ELSE req[q]]
        <5>1. req[r] \in Counters
          BY <1>1, RequestParts
        <5>2. [req[r] EXCEPT !.spec = 0,
                 !.blocks = IF @ > req[r].computed + NewTokens(r) THEN @
                            ELSE req[r].computed + NewTokens(r)]
              = [req[r] EXCEPT !.spec = 0, !.blocks = b]
          BY <5>1 DEF Counters
        <5> QED
          BY <1>5, <5>2 DEF Grant
      <4> QED
        BY <4>2, <4>3
    <3>2. req[r] \in Counters
      BY <1>1, RequestParts
    <3>3. [req[r] EXCEPT !.spec = 0, !.blocks = b] \in Counters
      BY <3>1, <3>2 DEF Counters
    <3> QED
      BY <3>1, <3>2, <3>3 DEF Counters
  <2>2. \A q \in Req : q # r => pass'.out[q] = pass.out[q]
    BY <1>1, <1>5, TypeParts DEF Grant, OutputType, TypeOK, PassType
  <2>3. \A q \in Req : q # r =>
          /\ req'[q].status = req[q].status /\ req'[q].output = req[q].output
          /\ req'[q] = req[q] \/ req'[q].owed = 0
    <3>1. \A c \in Counters : /\ Preempted(c).status = c.status
                              /\ Preempted(c).output = c.output /\ Preempted(c).owed = 0
      BY DEF Preempted, Counters
    <3>2. \A q \in Req : req[q] \in Counters
      BY <1>1, RequestParts
    <3>3. \A q \in Req : q # r => req'[q] = Preempted(req[q]) \/ req'[q] = req[q]
      BY <2>1
    <3> QED
      BY <3>1, <3>2, <3>3
  <2>4. EndDrain /\ r \notin Structured => req[r].output + req[r].owed < MaxTokens[r]
    <3>1. Eligible(r) /\ Visiting(r)
      BY <1>5 DEF Grant, Eligible
    <3>2. Counted(r, req[r], TRUE, Nothing, Held(r), Dues(r))
      BY <3>1, RunningTurn
    <3>3. req[r].output < MaxTokens[r] /\ (req[r].chunk => req[r].owed = 0)
      BY <3>2, EntryParts DEF Counted
    <3>4. req[r].output \in Nat /\ req[r].owed \in Nat /\ MaxTokens[r] \in Nat
      BY <1>1, RequestParts
    <3>5. EndDrain /\ r \notin Structured /\ ~req[r].chunk /\ req[r].owed > 0
            => ~(req[r].output + req[r].owed >= MaxTokens[r])
      BY <3>1 DEF Eligible, WouldHold
    <3> QED
      BY <3>3, <3>4, <3>5
  <2>5. \A q \in Req : req'[q].status = req[q].status /\ req'[q].output = req[q].output
    BY <2>1, <2>3
  <2>6. \A q \in Req \ Structured : EndDrain =>
           \/ pass'.out[q] = pass.out[q] /\ req'[q] = req[q]
           \/ pass'.out[q] = pass.out[q] /\ req'[q].owed = 0
           \/ req'[q].output + req'[q].owed < MaxTokens[q]
    BY <2>1, <2>2, <2>3, <2>4
  <2> QED
    BY <1>1, <2>5, <2>6, EndTurn
<1>6. ASSUME NEW r \in Req, Admit(r) PROVE EndInv'
  <2>1. Candidate(r) /\ req[r].stale <= 0
    <3>1. req[r].stale \in Nat
      BY <1>1, RequestParts
    <3> QED
      BY <1>6, <3>1 DEF Admit, Admissible, Blocked
  <2>2. /\ \A q \in Req : q # r => req'[q] = req[q]
        /\ req'[r].status = req[r].status /\ req'[r].output = req[r].output
        /\ req'[r].owed = req[r].owed
    BY <1>1, <1>6 DEF Admit, TypeOK, Counters
  <2>3. \A q \in Req : q # r => pass'.out[q] = pass.out[q]
    BY <1>1, <1>6, TypeParts DEF Admit, OutputType, TypeOK, PassType
  <2>4. req[r].owed = 0 /\ req[r].output < MaxTokens[r] /\ req[r].output \in Nat
    BY <1>1, <2>1, WaitingTurn, RequestParts DEF Counted
  <2>5. req'[r].output + req'[r].owed < MaxTokens[r]
    BY <1>1, <2>2, <2>4, RequestParts
  <2> QED
    BY <1>1, <2>2, <2>3, <2>5, EndTurn
<1> QED
  BY <1>2, <1>3, <1>4, <1>5, <1>6 DEF Schedule, SkipEach

\* The pass ends with at most one step before its own: its output's requests are not
\* finished by it.
LEMMA EndQueueOutput == ASSUME Core, EndInv, QueueOutput PROVE EndInv'
<1> SUFFICES ASSUME EndDrain, NEW r \in Req \ Structured
             PROVE  Ends(r, req[r].status, req[r].output, req[r].owed, pass.out[r])'
  BY DEF EndInv
<1>1. /\ Len(InFlight') = Len(InFlight) + 1 /\ Len(InFlight) \in 0..1
      /\ \A i \in 1..Len(InFlight) : InFlight'[i] = InFlight[i]
      /\ InFlight'[Len(InFlight) + 1] = Output
  BY Joins
<1>2. Ends(r, req[r].status, req[r].output, req[r].owed, pass.out[r]) /\ TypeOK
  BY DEF EndInv, Core
<1>3. pass'.out[r].tokens = 0
  BY EntryParts DEF QueueOutput, UpdateAfterSchedule, NoPass
<1>4. req'[r].status = req[r].status /\ req'[r].output = req[r].output
  <2>1. PICK k \in {KLo, KHi} :
          req' = [q \in Req |-> IF pass.out[q].tokens > 0 THEN Advanced(q, k) ELSE req[q]]
    BY DEF QueueOutput, UpdateAfterSchedule
  <2> QED
    BY <2>1, AdvancedIs
<1>5. Output[r].tokens > 0 => pass.out[r].tokens > 0 /\ Live(r)
  <2>1. CASE pass.out[r].tokens > 0
    BY <2>1, GivenIs
  <2>2. CASE ~(pass.out[r].tokens > 0)
    BY <2>2, OutputIs, EntryParts
  <2> QED
    BY <2>1, <2>2
<1>6. Output[r].tokens \in Nat
  BY OutputIs, EntryParts
<1>7. ASSUME req'[r].status = "live", Len(InFlight') = 2, InFlight'[2][r].tokens > 0
      PROVE  req'[r].output + Due(InFlight'[1], r) < MaxTokens[r]
  <2>1. Len(InFlight) = 1 /\ InFlight'[1] = InFlight[1] /\ InFlight'[2] = Output
    BY <1>1, <1>7
  <2>2. pass.out[r].tokens > 0 /\ Live(r)
    BY <1>5, <1>7, <2>1
  <2>3. req[r].output + req[r].owed < MaxTokens[r]
    BY <1>2, <2>2 DEF Ends, Live
  <2>4. req[r].owed = Dues(r)
    BY <2>2, GivenIs DEF Counted
  <2>5. Dues(r) = Due(InFlight[1], r)
    BY <1>2, <2>1, HeldIs
  <2> QED
    BY <1>4, <2>1, <2>3, <2>4, <2>5
<1>8. ASSUME req'[r].status = "length", NEW i \in 1..Len(InFlight')
      PROVE  InFlight'[i][r].tokens = 0
  <2>1. \A j \in 1..Len(InFlight) : InFlight[j][r].tokens = 0
    BY <1>2, <1>4, <1>8 DEF Ends
  <2>2. Output[r].tokens = 0
    BY <1>4, <1>5, <1>6, <1>8 DEF Live
  <2>3. i \in 1..Len(InFlight) \/ i = Len(InFlight) + 1
    BY <1>1
  <2> QED
    BY <1>1, <2>1, <2>2, <2>3
<1> QED
  BY <1>3, <1>7, <1>8 DEF Ends, Due

\* Reading a result: whom it finishes by length, the step behind it leaves out.
LEMMA EndRetire == ASSUME Core, EndInv, Retire PROVE EndInv'
<1> SUFFICES ASSUME EndDrain, NEW r \in Req \ Structured
             PROVE  Ends(r, req[r].status, req[r].output, req[r].owed, pass.out[r])'
  BY DEF EndInv
<1> DEFINE o == batch[1]
<1>1. /\ Len(InFlight) \in 1..2 /\ o = InFlight[1] /\ o \in OutputType
      /\ Len(InFlight') = Len(InFlight) - 1
      /\ \A i \in 1..(Len(InFlight) - 1) : InFlight'[i] = InFlight[i + 1]
  BY Leaves
<1>2. Ends(r, req[r].status, req[r].output, req[r].owed, pass.out[r]) /\ TypeOK
  BY DEF EndInv, Core
<1>3. pass'.out[r].tokens = 0
  <2>1. stage = "idle" /\ pass' = pass
    BY DEF Core, LoopInv, Retire, UpdateFromOutput
  <2> QED
    BY <2>1, IdleIs, EntryParts
<1>4. req'[r].status = "length" =>
        \/ req[r].status = "length"
        \/ /\ Live(r) /\ req[r].output + Due(o, r) >= MaxTokens[r]
  <2> SUFFICES ASSUME req'[r].status = "length", req[r].status # "length"
               PROVE  Live(r) /\ req[r].output + Due(o, r) >= MaxTokens[r]
    OBVIOUS
  <2>1. PICK gen \in [Req -> 1..(MostDrafts + 1)], eos \in SUBSET Sampling(o) :
          /\ \A q \in Req : gen[q] <= o[q].drafts + 1
          /\ UpdateFromOutput(o, gen, eos)
    BY DEF Retire
  <2> DEFINE mine == {q \in Scheduled(o) : Live(q)}
             taken == [q \in Req |-> Smaller(gen[q], MaxTokens[q] - req[q].output)]
             byLength == {q \in mine : o[q].samples /\ req[q].output + taken[q] >= MaxTokens[q]}
             stopped == {q \in mine : o[q].samples /\ q \in eos} \cup byLength
             rejected == [q \in Req |-> o[q].drafts + 1 - gen[q]]
  <2>2. /\ r \in byLength => req'[r].status = "length"
        /\ r \notin byLength /\ r \in stopped => req'[r] = Freed("stopped")
        /\ r \notin stopped /\ r \in mine => req'[r] = After(r, o[r], taken[r], gen[r])
        /\ r \notin mine /\ r \notin stopped => req'[r] = req[r]
    <3>1. req'[r] = IF r \in byLength THEN Freed("length")
                    ELSE IF r \in stopped THEN Freed("stopped")
                    ELSE IF r \in mine THEN After(r, o[r], taken[r], gen[r]) ELSE req[r]
      <4>1. \A q \in Req : After(q, o[q], taken[q], gen[q]) =
              LET late == [req[q] EXCEPT
                             !.inFlight = @ - o[q].tokens,
                             !.stale = IF Counts(q) THEN 0 ELSE @ - o[q].tokens,
                             !.output = IF o[q].samples THEN @ + taken[q] ELSE @]
              IN IF Counts(q) /\ o[q].samples
                   THEN [late EXCEPT !.computed = @ - rejected[q],
                                     !.owed = @ - rejected[q] - taken[q]]
                   ELSE late
        BY DEF After
      <4>2. req' = [q \in Req |-> IF q \in byLength THEN Freed("length")
                                  ELSE IF q \in stopped THEN Freed("stopped")
                                  ELSE IF q \in mine THEN After(q, o[q], taken[q], gen[q])
                                  ELSE req[q]]
        BY <2>1, <4>1 DEF UpdateFromOutput
      <4> HIDE DEF o, mine, taken, byLength, stopped, rejected
      <4> QED
        BY <4>2
    <3>2. byLength \subseteq stopped /\ Freed("length").status = "length"
      BY FreedIs
    <3> HIDE DEF mine, taken, byLength, stopped
    <3> QED
      BY <3>1, <3>2
  <2>3. After(r, o[r], taken[r], gen[r]).status = req[r].status
    <3>1. req[r] \in Counters
      BY <1>2, RequestParts
    <3> HIDE DEF o, taken
    <3> QED
      BY <3>1 DEF After, Counters
  <2>4. r \in mine => Live(r)
    OBVIOUS
  <2>5. r \in byLength
    <3> HIDE DEF mine, taken, byLength, stopped
    <3> QED
      BY <2>2, <2>3, FreedIs
  <2>6. Live(r) /\ o[r].samples /\ req[r].output + taken[r] >= MaxTokens[r]
    BY <2>5
  <2>7. taken[r] <= gen[r] /\ gen[r] <= o[r].drafts + 1 /\ gen[r] \in Nat /\ taken[r] \in Int
    <3>1. gen[r] \in 1..(MostDrafts + 1) /\ MostDrafts \in Nat
      BY <2>1, MostDraftsIsNat
    <3>2. gen[r] \in Nat
      BY <3>1
    <3>3. MaxTokens[r] - req[r].output \in Int
      BY <1>2, RequestParts
    <3> QED
      BY <2>1, <3>2, <3>3, SmallerOf
  <2>8. o[r].drafts \in Nat /\ req[r].output \in Nat /\ MaxTokens[r] \in Nat
    BY <1>1, <1>2, EntryParts, RequestParts
  <2> HIDE DEF taken, o
  <2> QED
    BY <2>6, <2>7, <2>8 DEF Due
<1>5. Len(InFlight') # 2
  BY <1>1
<1>6. ASSUME req'[r].status = "length", NEW i \in 1..Len(InFlight')
      PROVE  InFlight'[i][r].tokens = 0
  <2>1. i + 1 \in 1..Len(InFlight) /\ InFlight'[i] = InFlight[i + 1] /\ Len(InFlight) = 2
        /\ i + 1 = 2
    BY <1>1
  <2>2. CASE req[r].status = "length"
    BY <1>2, <2>1, <2>2 DEF Ends
  <2>3. CASE Live(r) /\ req[r].output + Due(o, r) >= MaxTokens[r]
    <3>1. /\ InFlight[2] \in OutputType /\ req[r].output \in Nat /\ MaxTokens[r] \in Nat
          /\ Due(InFlight[1], r) \in Nat
      BY <1>1, <1>2, <2>1, InFlightIs, EntryParts, RequestParts
    <3>2. InFlight[2][r].tokens \in Nat
      BY <3>1, EntryParts
    <3>3. ~(InFlight[2][r].tokens > 0)
      BY <1>1, <1>2, <2>1, <2>3, <3>1 DEF Ends, Live
    <3> QED
      BY <2>1, <3>2, <3>3
  <2> QED
    BY <1>4, <1>6, <2>2, <2>3
<1> QED
  BY <1>3, <1>5, <1>6 DEF Ends

LEMMA EndNext == Core /\ EndInv /\ [Next]_vars => EndInv'
<1> SUFFICES ASSUME Core, EndInv, [Next]_vars PROVE EndInv'
  OBVIOUS
<1>1. TypeOK
  BY DEF Core
<1>2. CASE UNCHANGED <<req, pass, batch, parked>>
  BY <1>2, EndTurn
<1>3. ASSUME NEW r \in Req, SendAdd(r) \/ SendAbort(r) \/ Compiler(r) PROVE EndInv'
  BY <1>2, <1>3 DEF SendAdd, SendAbort, Compiler, Compile, svars, cvars
<1>4. CASE ClearAborts \/ EndPoll \/ EndWindow \/ NothingToSchedule \/ UNCHANGED vars
  BY <1>2, <1>4 DEF ClearAborts, EndPoll, EndWindow, NothingToSchedule, svars, cvars, vars
<1>5. CASE StartStep
  <2>1. UNCHANGED <<req, batch, parked>> /\ \A r \in Req : pass'.out[r].tokens = 0
    BY <1>5, EntryParts DEF StartStep, Begin, NoPass
  <2> QED
    BY <2>1, EndTurn
<1>6. ASSUME NEW gone, FinishRequests(gone), UNCHANGED <<batch, parked>> PROVE EndInv'
  <2>1. /\ pass' = pass
        /\ \A r \in Req : req'[r] = req[r] \/ req'[r].status = "aborted"
    BY <1>6, FreedIs DEF FinishRequests
  <2>2. \A r \in Req \ Structured : EndDrain =>
          (req[r].status = "live" /\ pass.out[r].tokens > 0
             => req[r].output + req[r].owed < MaxTokens[r])
    BY DEF EndInv, Ends
  <2> QED
    BY <1>6, <2>1, <2>2, EndKeeps
<1>7. CASE ProcessAborts
  BY <1>6, <1>7 DEF ProcessAborts
<1>8. CASE HandleMessage
  <2>1. UNCHANGED <<batch, parked>>
    BY <1>8 DEF HandleMessage
  <2>2. CASE Head(input).type # "add"
    BY <1>6, <1>8, <2>1, <2>2 DEF HandleMessage, Dispatch
  <2>3. CASE Head(input).type = "add"
    <3> DEFINE r == Head(input).id
    <3>1. /\ stage = "idle" /\ req[r].status = "new" /\ r \in Req /\ AddRequest(r)
      <4>1. /\ input \in Seq(Message) /\ input # <<>> /\ loop \in {"poll", "coalesce"}
            /\ Dispatch(Head(input))
        BY <1>1, <1>8 DEF HandleMessage, TypeOK
      <4>2. Head(input) = input[1] /\ 1 \in DOMAIN input
        <5>1. Len(input) # 0 /\ Len(input) \in Nat
          BY <4>1, EmptySeq, LenProperties
        <5> QED
          BY <4>1, <5>1, HeadTailProperties, LenProperties
      <4>3. 1 \in Adds /\ input[1].id = r
        BY <2>3, <4>2 DEF Adds
      <4>4. req[r].status = "new" /\ r \in Req
        BY <1>1, <4>3 DEF Core, MessageInv, TypeOK
      <4> QED
        BY <2>3, <4>1, <4>4 DEF Core, LoopInv, Dispatch
    <3>2. /\ pass' = pass /\ \A q \in Req : q # r => req'[q] = req[q]
          /\ req'[r].status = "live"
      BY <1>1, <3>1 DEF AddRequest, TypeOK, Counters
    <3>3. \A q \in Req : pass'.out[q].tokens = 0
      BY <3>1, <3>2, IdleIs, EntryParts
    <3> HIDE DEF r
    <3> QED
      BY <2>1, <3>1, <3>2, <3>3, EndKeeps
  <2> QED
    BY <2>2, <2>3
<1> QED
  BY <1>3, <1>4, <1>5, <1>7, <1>8, EndSchedule, EndQueueOutput, EndRetire DEF Next, Engine

\* With the end-drain hold no request that reaches max_tokens leaves a step behind it
\* in flight, however many drafts the model accepts.
THEOREM LengthFinishIsLast == Spec => []NoStepPastLengthFinish
<1>1. Init => EndInv
  <2> SUFFICES ASSUME Init, NEW r \in Req \ Structured
               PROVE  Ends(r, req[r].status, req[r].output, req[r].owed, pass.out[r])
    BY DEF EndInv
  <2>1. req[r].status = "new"
    BY DEF Init, SInit, Fresh
  <2> QED
    BY <2>1 DEF Ends
<1>2. Core /\ EndInv => NoStepPastLengthFinish
  <2> SUFFICES ASSUME Core, EndInv, NEW r \in Req \ Structured, EndDrain,
                      req[r].status = "length", NEW i \in DOMAIN InFlight
               PROVE  InFlight[i][r].tokens = 0
    BY DEF NoStepPastLengthFinish
  <2>1. InFlight \in Seq(OutputType)
    BY InFlightIs DEF Core
  <2>2. i \in 1..Len(InFlight)
    BY <2>1, LenProperties
  <2> QED
    BY <2>2 DEF EndInv, Ends
<1> QED
  BY <1>1, <1>2, EndNext, CoreInvariant, PTL DEF Spec

-----------------------------------------------------------------------------
(* The decision to defer.                                                   *)

\* A decode that nothing holds back is still to come in the running pass, with the
\* whole of the step before it.
DecodeAhead ==
  /\ stage = "running" /\ pass.tokens = Budget /\ pass.inputs = Configured
  /\ \E i \in 1..Len(running) :
       i >= pass.at /\ ~req[running[i]].chunk /\ ~WouldHold(running[i])

DeferInv ==
  stage # "idle" /\ pass.defer /\ ~pass.preempted /\ ToSet(running) \cap Structured = {}
    => Scheduled(pass.out) # {} \/ DecodeAhead

\* Whom the vendor's guard is certain about, the hold keeps back as well: a decode's
\* position says no more than its placeholders do.
LEMMA HeldBefore ==
  ASSUME Core, NEW r \in Req \ Structured, EndDrain, Visiting(r), SurelyEnds(r), ~req[r].chunk
  PROVE  WouldHold(r)
<1>1. Counted(r, req[r], TRUE, Nothing, Held(r), Dues(r))
  BY RunningTurn
<1>2. /\ req[r].computed \in Nat /\ req[r].output \in Nat /\ req[r].owed \in Nat
      /\ Prompt[r] \in Nat /\ MaxTokens[r] \in Nat
  BY RequestParts DEF Core
<1>3. req[r].computed = Prompt[r] + req[r].output + req[r].owed - 1
  BY <1>1, EntryParts DEF Counted
<1>4. req[r].owed > 0 /\ req[r].computed + 2 - req[r].owed >= Prompt[r] + MaxTokens[r]
  BY DEF SurelyEnds
<1>5. req[r].output + req[r].owed >= MaxTokens[r]
  BY <1>2, <1>3, <1>4
<1> QED
  BY <1>4, <1>5 DEF WouldHold

\* The pass begins: the decision to defer names the decode.
LEMMA DeferStart == ASSUME Core, DraftSlots < Configured, Begin PROVE DeferInv'
<1> SUFFICES ASSUME pass'.defer PROVE DecodeAhead'
  BY DEF DeferInv
<1>1. TypeOK /\ UNCHANGED <<req, running>> /\ stage' = "running"
  BY DEF Begin, Core
<1>2. /\ pass'.tokens = Budget /\ pass'.inputs = Configured /\ pass'.at = 1
      /\ HasEligibleDecode
  BY DEF Begin, NoPass
<1>3. PICK r \in ToSet(running) : ~req[r].chunk /\ ~WouldHold(r)
  BY <1>2 DEF HasEligibleDecode
<1>4. PICK i \in 1..Len(running) : running[i] = r
  BY <1>1, TypeParts DEF Runs, ToSet
<1>5. i >= 1
  OBVIOUS
<1>6. WouldHold(r)' = WouldHold(r)
  BY <1>1 DEF WouldHold
<1> QED
  BY <1>1, <1>2, <1>3, <1>4, <1>5, <1>6 DEF DecodeAhead

\* A turn that passes over the request it visits does not pass over that decode.
LEMMA DeferSkip ==
  ASSUME Core, EndDrain, DeferInv, NEW r \in Req, SkipEach(r)
  PROVE  DeferInv'
<1> SUFFICES ASSUME pass'.defer, ~pass'.preempted, (ToSet(running) \cap Structured)' = {}
             PROVE  Scheduled(pass'.out) # {} \/ DecodeAhead'
  BY DEF DeferInv
<1>1. TypeOK /\ pass \in PassType /\ pass.at \in Nat
  BY TypeParts DEF Core, TypeOK
<1>2. UNCHANGED <<req, running, stage>> /\ stage = "running" /\ Visiting(r)
  BY DEF SkipEach, SkipEnding, HoldBack, DeferChunk, SkipEmpty, Eligible, Visiting
<1>3. \/ SurelyEnds(r) \/ WouldHold(r) \/ req[r].chunk \/ NewTokens(r) = 0
  BY DEF SkipEach, SkipEnding, HoldBack, DeferChunk, SkipEmpty
<1>4. /\ pass'.at = pass.at + 1 /\ pass'.tokens = pass.tokens /\ pass'.inputs = pass.inputs
      /\ pass'.out = pass.out /\ pass'.defer = pass.defer /\ pass'.preempted = pass.preempted
  BY <1>1 DEF SkipEach, SkipEnding, HoldBack, DeferChunk, SkipEmpty, PassType
<1>5. Scheduled(pass.out) # {} \/ DecodeAhead
  BY <1>2, <1>4 DEF DeferInv
<1>6. Runs(r) /\ running[pass.at] = r /\ NewTokens(r) \in 0..Room
      /\ (~req[r].chunk => NewTokens(r) > 0)
  BY <1>2, RunningTurn
<1>7. CASE DecodeAhead
  <2>1. PICK i \in 1..Len(running) :
          i >= pass.at /\ ~req[running[i]].chunk /\ ~WouldHold(running[i])
    BY <1>7 DEF DecodeAhead
  <2>2. i # pass.at
    <3> SUFFICES ASSUME i = pass.at PROVE FALSE
      OBVIOUS
    <3>1. ~req[r].chunk /\ ~WouldHold(r)
      BY <1>6, <2>1
    <3>2. r \notin Structured
      BY <1>2, <1>6 DEF Runs
    <3>3. ~SurelyEnds(r)
      BY <1>2, <3>1, <3>2, HeldBefore
    <3>4. NewTokens(r) # 0
      BY <1>6, <3>1
    <3> QED
      BY <1>3, <3>1, <3>3, <3>4
  <2>3. i >= pass.at + 1
    BY <1>1, <2>1, <2>2
  <2>4. WouldHold(running[i])' = WouldHold(running[i])
    BY <1>2 DEF WouldHold
  <2>5. DecodeAhead'
    BY <1>2, <1>4, <1>7, <2>1, <2>3, <2>4 DEF DecodeAhead
  <2> QED
    BY <2>5
<1> QED
  BY <1>4, <1>5, <1>7

\* A turn that gives tokens leaves a step that is not empty.
LEMMA DeferGive ==
  ASSUME Core, NEW r \in Req, Grant(r) \/ Admit(r)
  PROVE  DeferInv'
<1>1. TypeOK /\ pass \in PassType /\ pass.out \in OutputType
  BY TypeParts DEF Core, TypeOK
<1>2. pass'.out[r].tokens > 0
  <2>1. CASE Grant(r)
    <3> DEFINE drafts == NewTokens(r) + req[r].computed - NumTokens(r) - req[r].owed
               o == [tokens |-> NewTokens(r), samples |-> FALSE,
                     drafts |-> IF req[r].spec > 0 /\ drafts > 0 THEN drafts ELSE 0]
    <3>1. PICK n : pass' = [pass EXCEPT
                     !.at = @ + 1, !.short = ShortAfter(r),
                     !.tokens = @ - NewTokens(r), !.inputs = @ - NewTokens(r) - DraftSlots,
                     !.out[r] = o, !.preempted = @ \/ n > 0]
      BY <2>1 DEF Grant
    <3>2. o.tokens > 0
      BY <2>1 DEF Grant
    <3> HIDE DEF o
    <3>3. pass'.out = [pass.out EXCEPT ![r] = o]
      BY <1>1, <3>1 DEF PassType
    <3> QED
      BY <1>1, <3>2, <3>3 DEF OutputType
  <2>2. CASE Admit(r)
    <3>1. /\ FirstChunk(r) \in Nat /\ FirstChunk(r) > 0
          /\ pass'.out = [pass.out EXCEPT ![r] = [tokens |-> FirstChunk(r), drafts |-> 0,
                                                   samples |-> FALSE]]
      <4>1. Room \in Nat /\ FirstChunk(r) \in 0..Room
        BY <2>2, WaitingTurn DEF Admit
      <4>2. pass'.out = [pass.out EXCEPT ![r] = [tokens |-> FirstChunk(r), drafts |-> 0,
                                                   samples |-> FALSE]]
        BY <1>1, <2>2 DEF Admit, PassType
      <4> QED
        BY <2>2, <4>1, <4>2 DEF Admit, Admissible
    <3> QED
      BY <1>1, <3>1 DEF OutputType
  <2> QED
    BY <2>1, <2>2
<1> QED
  BY <1>2 DEF DeferInv, Scheduled

\* The running pass does not end before it has come to that decode; the waiting one
\* takes nothing back.
LEMMA DeferEnd ==
  ASSUME Core, DraftSlots < Configured, DeferInv,
         EndRunning \/ EndWaiting \/ \E r \in Req : PassOver(r) \/ SetAside(r)
  PROVE  DeferInv'
<1> SUFFICES ASSUME pass'.defer, ~pass'.preempted, (ToSet(running) \cap Structured)' = {}
             PROVE  Scheduled(pass'.out) # {}
  BY DEF DeferInv
<1>1. TypeOK /\ pass \in PassType
  BY DEF Core, TypeOK
<1>2. /\ running' = running /\ pass'.out = pass.out /\ pass'.defer = pass.defer
      /\ pass'.preempted = pass.preempted
  BY <1>1 DEF EndRunning, EndWaiting, PassOver, SetAside, PassType
<1>3. stage # "idle" /\ (stage = "running" => EndRunning)
  BY DEF EndRunning, EndWaiting, PassOver, SetAside, Candidate
<1>4. Scheduled(pass.out) # {} \/ DecodeAhead
  BY <1>2, <1>3 DEF DeferInv
<1>5. ~DecodeAhead
  <2> SUFFICES ASSUME DecodeAhead PROVE FALSE
    OBVIOUS
  <2>1. PICK i \in 1..Len(running) : i >= pass.at
    BY DEF DecodeAhead
  <2>2. pass.at \in Nat /\ Len(running) \in Nat /\ Budget > 0
    BY <1>1, TypeParts, BudgetAssumption
  <2>3. pass.at <= Len(running)
    BY <2>1, <2>2
  <2>4. pass.at > Len(running) \/ pass.tokens = 0 \/ pass.inputs <= DraftSlots
    BY <1>3 DEF EndRunning, DecodeAhead
  <2> QED
    BY <2>2, <2>3, <2>4, BudgetAssumption DEF DecodeAhead
<1> QED
  BY <1>2, <1>4, <1>5

LEMMA DeferNext ==
  ASSUME Core, EndDrain, DraftSlots < Configured, DeferInv, [Next]_vars
  PROVE  DeferInv'
<1>1. CASE stage' = "idle"
  BY <1>1 DEF DeferInv
<1>2. CASE UNCHANGED svars
  BY <1>2 DEF svars, DeferInv, DecodeAhead, Scheduled, WouldHold
<1>3. CASE UNCHANGED stage /\ loop # "schedule"
  BY <1>1, <1>3 DEF Core, LoopInv
<1>4. ASSUME NEW r \in Req, SendAdd(r) \/ SendAbort(r) \/ Compiler(r) PROVE DeferInv'
  BY <1>3, <1>4 DEF SendAdd, SendAbort, Compiler, Compile, svars, Looking
<1>5. CASE ClearAborts \/ EndPoll \/ EndWindow \/ NothingToSchedule
  BY <1>2, <1>5 DEF ClearAborts, EndPoll, EndWindow, NothingToSchedule
<1>6. CASE ProcessAborts \/ Retire
  BY <1>3, <1>6 DEF ProcessAborts, Retire, FinishRequests, UpdateFromOutput
<1>7. CASE HandleMessage
  BY <1>3, <1>7 DEF HandleMessage, Dispatch, FinishRequests, AddRequest
<1>8. CASE StartStep
  BY <1>8, DeferStart DEF StartStep
<1>9. CASE QueueOutput
  BY <1>1, <1>9 DEF QueueOutput, UpdateAfterSchedule
<1>10. ASSUME NEW r \in Req, GiveUp(r) PROVE DeferInv'
  <2>1. pass \in PassType
    BY DEF Core, TypeOK
  <2>2. pass'.preempted
    BY <1>10, <2>1 DEF GiveUp, PassType
  <2> QED
    BY <2>2 DEF DeferInv
<1>11. CASE Schedule
  BY <1>10, <1>11, DeferSkip, DeferGive, DeferEnd DEF Schedule, SkipEach
<1> QED
  BY <1>2, <1>4, <1>5, <1>6, <1>7, <1>8, <1>9, <1>11 DEF Next, Engine, vars

\* With the end-drain hold, a step that defers prefills schedules something in their
\* place, whatever the hold keeps back, unless it preempts somebody or a request with
\* structured output runs.  The input budget leaves room for a draft.
THEOREM DeferralHasDecode ==
  ASSUME EndDrain = TRUE, DraftSlots < Configured
  PROVE  Spec => []DeferralNeverEmpty
<1>1. Init => DeferInv
  BY DEF Init, SInit, DeferInv
<1>2. DeferInv => DeferralNeverEmpty
  BY DEF DeferInv, DeferralNeverEmpty, DecodeAhead
<1>3. Core /\ DeferInv /\ [Next]_vars => DeferInv'
  BY DeferNext
<1> QED
  BY <1>1, <1>2, <1>3, CoreInvariant, PTL DEF Spec

-----------------------------------------------------------------------------
(* The order of the line.                                                   *)

Before(s, x, y) == \E i, j \in DOMAIN s : i < j /\ s[i] = x /\ s[j] = y

LEMMA BeforeIn ==
  ASSUME NEW S, NEW s \in Seq(S), NEW x, NEW y, Before(s, x, y)
  PROVE  x \in ToSet(s) /\ y \in ToSet(s)
<1>1. DOMAIN s = 1..Len(s)
  BY LenProperties
<1> QED
  BY <1>1 DEF Before, ToSet

\* Nothing stands both before and behind another.
LEMMA BeforeOnce ==
  ASSUME NEW S, NEW s \in Seq(S), IsInjective(s), NEW x, NEW y, Before(s, x, y)
  PROVE  ~Before(s, y, x)
<1>1. DOMAIN s = 1..Len(s) /\ Len(s) \in Nat
  BY LenProperties
<1>2. \A i, j \in 1..Len(s) : s[i] = s[j] => i = j
  BY <1>1 DEF IsInjective
<1> QED
  BY <1>1, <1>2 DEF Before

LEMMA ConcatBefore ==
  ASSUME NEW S, NEW s \in Seq(S), NEW t \in Seq(S), NEW x, NEW y
  PROVE  Before(s \o t, x, y) <=> \/ Before(s, x, y) \/ Before(t, x, y)
                                  \/ x \in ToSet(s) /\ y \in ToSet(t)
<1> DEFINE u == s \o t
<1>1. /\ u \in Seq(S) /\ Len(u) = Len(s) + Len(t) /\ Len(s) \in Nat /\ Len(t) \in Nat
      /\ \A i \in 1..Len(s) : u[i] = s[i]
      /\ \A i \in 1..Len(u) : i > Len(s) => u[i] = t[i - Len(s)]
  BY ConcatProperties, LenProperties
<1>2. DOMAIN u = 1..Len(u) /\ DOMAIN s = 1..Len(s) /\ DOMAIN t = 1..Len(t)
  BY <1>1, LenProperties
<1>3. /\ \A z : z \in ToSet(s) <=> \E i \in 1..Len(s) : s[i] = z
      /\ \A z : z \in ToSet(t) <=> \E i \in 1..Len(t) : t[i] = z
  BY ToSetOf
<1> HIDE DEF u
<1>4. \A i \in 1..Len(t) : Len(s) + i \in 1..Len(u) /\ u[Len(s) + i] = t[i]
  <2> SUFFICES ASSUME NEW i \in 1..Len(t)
               PROVE  Len(s) + i \in 1..Len(u) /\ u[Len(s) + i] = t[i]
    OBVIOUS
  <2>1. Len(s) + i \in 1..Len(u) /\ Len(s) + i > Len(s) /\ (Len(s) + i) - Len(s) = i
    BY <1>1
  <2> QED
    BY <1>1, <2>1
<1>5. \A i \in 1..Len(s) : i \in 1..Len(u)
  BY <1>1
<1>6. ASSUME Before(u, x, y)
      PROVE  Before(s, x, y) \/ Before(t, x, y) \/ (x \in ToSet(s) /\ y \in ToSet(t))
  <2>1. PICK i \in 1..Len(u), j \in 1..Len(u) : i < j /\ u[i] = x /\ u[j] = y
    BY <1>2, <1>6 DEF Before
  <2>2. CASE j <= Len(s)
    <3>1. i \in 1..Len(s) /\ j \in 1..Len(s)
      BY <1>1, <2>1, <2>2
    <3> QED
      BY <1>1, <1>2, <2>1, <3>1 DEF Before
  <2>3. CASE i > Len(s)
    <3>1. /\ i - Len(s) \in 1..Len(t) /\ j - Len(s) \in 1..Len(t)
          /\ i - Len(s) < j - Len(s) /\ j > Len(s)
      BY <1>1, <2>1, <2>3
    <3>2. t[i - Len(s)] = x /\ t[j - Len(s)] = y
      BY <1>1, <2>1, <2>3, <3>1
    <3> QED
      BY <1>2, <3>1, <3>2 DEF Before
  <2>4. CASE i <= Len(s) /\ j > Len(s)
    <3>1. i \in 1..Len(s) /\ j - Len(s) \in 1..Len(t)
      BY <1>1, <2>1, <2>4
    <3>2. s[i] = x /\ t[j - Len(s)] = y
      BY <1>1, <2>1, <2>4, <3>1
    <3> QED
      BY <1>3, <3>1, <3>2
  <2> QED
    BY <1>1, <2>1, <2>2, <2>3, <2>4
<1>7. ASSUME Before(s, x, y) PROVE Before(u, x, y)
  BY <1>1, <1>2, <1>5, <1>7 DEF Before
<1>8. ASSUME Before(t, x, y) PROVE Before(u, x, y)
  <2>1. PICK i \in 1..Len(t), j \in 1..Len(t) : i < j /\ t[i] = x /\ t[j] = y
    BY <1>2, <1>8 DEF Before
  <2>2. Len(s) + i < Len(s) + j
    BY <1>1, <2>1
  <2> QED
    BY <1>2, <1>4, <2>1, <2>2 DEF Before
<1>9. ASSUME x \in ToSet(s), y \in ToSet(t) PROVE Before(u, x, y)
  <2>1. PICK i \in 1..Len(s) : s[i] = x
    BY <1>3, <1>9
  <2>2. PICK j \in 1..Len(t) : t[j] = y
    BY <1>3, <1>9
  <2>3. i < Len(s) + j
    BY <1>1
  <2> QED
    BY <1>1, <1>2, <1>4, <1>5, <2>1, <2>2, <2>3 DEF Before
<1> QED
  BY <1>6, <1>7, <1>8, <1>9 DEF u

LEMMA ReverseBefore ==
  ASSUME NEW S, NEW s \in Seq(S), NEW x, NEW y
  PROVE  Before(Reverse(s), x, y) <=> Before(s, y, x)
<1> DEFINE u == Reverse(s)
<1>1. /\ u \in Seq(S) /\ Len(u) = Len(s) /\ \A i \in 1..Len(s) : u[i] = s[Len(s) - i + 1]
  BY ReverseSets
<1> HIDE DEF u
<1>2. DOMAIN u = 1..Len(s) /\ DOMAIN s = 1..Len(s) /\ Len(s) \in Nat
  BY <1>1, LenProperties
<1>3. \A i \in 1..Len(s) : Len(s) - i + 1 \in 1..Len(s) /\ Len(s) - (Len(s) - i + 1) + 1 = i
  BY <1>2
<1>4. \A i, j \in 1..Len(s) : i < j => Len(s) - j + 1 < Len(s) - i + 1
  BY <1>2
<1>5. \A i \in 1..Len(s) : s[i] = u[Len(s) - i + 1]
  BY <1>1, <1>3
<1>6. ASSUME Before(u, x, y) PROVE Before(s, y, x)
  <2>1. PICK i \in 1..Len(s), j \in 1..Len(s) : i < j /\ u[i] = x /\ u[j] = y
    BY <1>2, <1>6 DEF Before
  <2> DEFINE k == Len(s) - j + 1
             l == Len(s) - i + 1
  <2>2. k \in DOMAIN s /\ l \in DOMAIN s /\ k < l
    BY <1>2, <1>3, <1>4, <2>1
  <2>3. s[k] = y /\ s[l] = x
    BY <1>1, <2>1
  <2> HIDE DEF k, l
  <2> QED
    BY <2>2, <2>3 DEF Before
<1>7. ASSUME Before(s, y, x) PROVE Before(u, x, y)
  <2>1. PICK i \in 1..Len(s), j \in 1..Len(s) : i < j /\ s[i] = y /\ s[j] = x
    BY <1>2, <1>7 DEF Before
  <2> DEFINE k == Len(s) - j + 1
             l == Len(s) - i + 1
  <2>2. k \in DOMAIN u /\ l \in DOMAIN u /\ k < l
    BY <1>2, <1>3, <1>4, <2>1
  <2>3. u[k] = x /\ u[l] = y
    BY <1>5, <2>1
  <2> HIDE DEF k, l
  <2> QED
    BY <2>2, <2>3 DEF Before
<1> QED
  BY <1>6, <1>7 DEF u

LEMMA ShortBefore == \A x, y, z : ~Before(<<z>>, x, y) /\ ~Before(<<>>, x, y)
<1>1. \A z : DOMAIN <<z>> = 1..1
  OBVIOUS
<1>2. \A i, j \in 1..1 : ~(i < j)
  OBVIOUS
<1>3. DOMAIN <<>> = {}
  OBVIOUS
<1> QED
  BY <1>1, <1>2, <1>3 DEF Before

\* The line, from the two queues it is made of.
LineOf(later, queue) == Reverse(later) \o queue

LEMMA LineOrder ==
  ASSUME NEW a \in Seq(Req), NEW b \in Seq(Req), NEW x, NEW y
  PROVE  Before(LineOf(a, b), x, y) <=> \/ Before(a, y, x) \/ Before(b, x, y)
                                        \/ x \in ToSet(a) /\ y \in ToSet(b)
<1>1. Reverse(a) \in Seq(Req) /\ ToSet(Reverse(a)) = ToSet(a)
  BY ReverseSets
<1>2. Before(Reverse(a), x, y) <=> Before(a, y, x)
  BY ReverseBefore
<1>3. Before(Reverse(a) \o b, x, y) <=>
        Before(Reverse(a), x, y) \/ Before(b, x, y) \/ (x \in ToSet(Reverse(a)) /\ y \in ToSet(b))
  BY <1>1, ConcatBefore
<1> QED
  BY <1>1, <1>2, <1>3 DEF LineOf

LEMMA LineBefore ==
  ASSUME NEW a \in Seq(Req), NEW b \in Seq(Req), NEW x, NEW y
  PROVE  /\ LineOf(a, b) \in Seq(Req) /\ ToSet(LineOf(a, b)) = ToSet(a) \cup ToSet(b)
         /\ Before(LineOf(a, b), x, y) <=> \/ Before(a, y, x) \/ Before(b, x, y)
                                           \/ x \in ToSet(a) /\ y \in ToSet(b)
         /\ IsInjective(a) /\ IsInjective(b) /\ ToSet(a) \cap ToSet(b) = {}
              => IsInjective(LineOf(a, b))
<1>1. /\ Reverse(a) \in Seq(Req) /\ ToSet(Reverse(a)) = ToSet(a)
      /\ IsInjective(a) => IsInjective(Reverse(a))
  BY ReverseSets
<1>2. Before(LineOf(a, b), x, y) <=> \/ Before(a, y, x) \/ Before(b, x, y)
                                     \/ x \in ToSet(a) /\ y \in ToSet(b)
  BY LineOrder
<1>3. /\ ToSet(Reverse(a) \o b) = ToSet(Reverse(a)) \cup ToSet(b)
      /\ IsInjective(Reverse(a) \o b) <=> /\ IsInjective(Reverse(a)) /\ IsInjective(b)
                                          /\ ToSet(Reverse(a)) \cap ToSet(b) = {}
  BY <1>1, ConcatSets
<1>4. Reverse(a) \o b \in Seq(Req)
  BY <1>1, ConcatProperties
<1> QED
  BY <1>1, <1>2, <1>3, <1>4 DEF LineOf

\* With nobody set aside the line is the waiting queue.
LEMMA QueueBefore ==
  ASSUME NEW b \in Seq(Req), NEW x, NEW y
  PROVE  Before(LineOf(<<>>, b), x, y) <=> Before(b, x, y)
<1> DEFINE e == <<>>
<1>1. e \in Seq(Req) /\ ToSet(e) = {}
  BY EmptySets
<1>2. ~Before(e, y, x)
  BY ShortBefore
<1> HIDE DEF e
<1>3. Before(LineOf(e, b), x, y) <=> \/ Before(e, y, x) \/ Before(b, x, y)
                                     \/ x \in ToSet(e) /\ y \in ToSet(b)
  BY <1>1, LineOrder
<1>4. Before(LineOf(e, b), x, y) <=> Before(b, x, y)
  BY <1>1, <1>2, <1>3
<1> QED
  BY <1>4 DEF e

\* Of two requests in line before a step and behind it, the step turns nothing round.
Orderly(a, b, c, d) ==
  \A x, y \in ToSet(a) \cup ToSet(b) : Before(LineOf(c, d), y, x) => Before(LineOf(a, b), y, x)

LEMMA PopOrder ==
  ASSUME NEW a \in Seq(Req), NEW b \in Seq(Req), b # <<>>
  PROVE  /\ Orderly(a, b, a, Tail(b))
         /\ Orderly(a, b, <<Head(b)>> \o a, Tail(b))
<1>1. /\ Head(b) \in Req /\ Tail(b) \in Seq(Req) /\ b = <<Head(b)>> \o Tail(b)
      /\ ToSet(b) = {Head(b)} \cup ToSet(Tail(b))
  BY PopSets
<1> DEFINE h == Head(b)  t == Tail(b)
<1>2. <<h>> \in Seq(Req) /\ ToSet(<<h>>) = {h}
  BY <1>1, SingleSet
<1>3. <<h>> \o a \in Seq(Req) /\ ToSet(<<h>> \o a) = {h} \cup ToSet(a)
  BY <1>1, ConsSets
<1> HIDE DEF h, t
<1>4. \A x, y : Before(b, x, y) <=> Before(t, x, y) \/ (x = h /\ y \in ToSet(t))
  <2> SUFFICES ASSUME NEW x, NEW y
               PROVE  Before(b, x, y) <=> Before(t, x, y) \/ (x = h /\ y \in ToSet(t))
    OBVIOUS
  <2>1. t \in Seq(Req) /\ b = <<h>> \o t
    BY <1>1 DEF h, t
  <2>2. Before(<<h>> \o t, x, y) <=> \/ Before(<<h>>, x, y) \/ Before(t, x, y)
                                     \/ x \in ToSet(<<h>>) /\ y \in ToSet(t)
    BY <1>2, <2>1, ConcatBefore
  <2> QED
    BY <1>2, <2>1, <2>2, ShortBefore
<1>5. \A x, y : Before(<<h>> \o a, y, x) <=> Before(a, y, x) \/ (y = h /\ x \in ToSet(a))
  <2> SUFFICES ASSUME NEW x, NEW y
               PROVE  Before(<<h>> \o a, y, x) <=> Before(a, y, x) \/ (y = h /\ x \in ToSet(a))
    OBVIOUS
  <2>1. Before(<<h>> \o a, y, x) <=> \/ Before(<<h>>, y, x) \/ Before(a, y, x)
                                     \/ y \in ToSet(<<h>>) /\ x \in ToSet(a)
    BY <1>2, ConcatBefore
  <2> QED
    BY <1>2, <2>1, ShortBefore
<1>6. t \in Seq(Req) /\ h \in ToSet(b) /\ ToSet(b) = {h} \cup ToSet(t)
  BY <1>1 DEF h, t
<1>7. \A x, y : /\ Before(LineOf(a, t), y, x) => Before(LineOf(a, b), y, x)
                /\ Before(LineOf(<<h>> \o a, t), y, x) => Before(LineOf(a, b), y, x)
  <2> SUFFICES ASSUME NEW x, NEW y
               PROVE  /\ Before(LineOf(a, t), y, x) => Before(LineOf(a, b), y, x)
                      /\ Before(LineOf(<<h>> \o a, t), y, x) => Before(LineOf(a, b), y, x)
    OBVIOUS
  <2>1. /\ Before(LineOf(a, b), y, x) <=> \/ Before(a, x, y) \/ Before(b, y, x)
                                          \/ y \in ToSet(a) /\ x \in ToSet(b)
        /\ Before(LineOf(a, t), y, x) <=> \/ Before(a, x, y) \/ Before(t, y, x)
                                          \/ y \in ToSet(a) /\ x \in ToSet(t)
    BY <1>6, LineBefore
  <2>2. Before(LineOf(<<h>> \o a, t), y, x) <=>
          \/ Before(<<h>> \o a, x, y) \/ Before(t, y, x)
          \/ y \in ToSet(<<h>> \o a) /\ x \in ToSet(t)
    <3>1. <<h>> \o a \in Seq(Req)
      BY <1>3 DEF h
    <3> QED
      BY <1>6, <3>1, LineBefore
  <2>3. ToSet(<<h>> \o a) = {h} \cup ToSet(a)
    BY <1>3 DEF h
  <2> QED
    BY <1>4, <1>5, <1>6, <2>1, <2>2, <2>3
<1> QED
  BY <1>7 DEF Orderly, h, t

\* The line is these two queues, and nobody stands in it twice.
LEMMA LineIs ==
  ASSUME Core
  PROVE  /\ Line = LineOf(pass.later, waiting)
         /\ pass.later \in Seq(Req) /\ waiting \in Seq(Req)
         /\ ToSet(Line) = ToSet(pass.later) \cup ToSet(waiting)
         /\ Line \in Seq(Req) /\ IsInjective(Line)
<1>1. Line = LineOf(pass.later, waiting)
  BY DEF Line, LineOf
<1>2. pass.later \in Seq(Req) /\ waiting \in Seq(Req)
  BY TypeParts DEF Core
<1>3. /\ IsInjective(pass.later) /\ IsInjective(waiting)
      /\ ToSet(pass.later) \cap ToSet(waiting) = {}
  BY DEF Core, QueueInv, Stand, Apart
<1> QED
  BY <1>1, <1>2, <1>3, LineBefore

\* A step that is orderly does not let anybody overtake.
LEMMA OrderlyIs ==
  ASSUME Core, Orderly(pass.later, waiting, pass'.later, waiting'),
         NEW x, NEW y, Ahead(x, y)
  PROVE  ~Ahead(y, x)'
<1>1. /\ Line = LineOf(pass.later, waiting) /\ Line \in Seq(Req) /\ IsInjective(Line)
      /\ ToSet(Line) = ToSet(pass.later) \cup ToSet(waiting)
  BY LineIs
<1>2. Before(Line, x, y) /\ (Ahead(y, x)' => Before(LineOf(pass'.later, waiting'), y, x))
  BY DEF Ahead, Before, Line, LineOf
<1>3. x \in ToSet(Line) /\ y \in ToSet(Line) /\ ~Before(Line, y, x)
  BY <1>1, <1>2, BeforeIn, BeforeOnce
<1> QED
  BY <1>1, <1>2, <1>3 DEF Orderly

\* A newcomer joins behind all.
LEMMA AppendOrder ==
  ASSUME NEW b \in Seq(Req), NEW r \in Req, r \notin ToSet(b)
  PROVE  Orderly(<<>>, b, <<>>, Append(b, r))
<1> SUFFICES ASSUME NEW x \in ToSet(b), NEW y \in ToSet(b),
                    Before(LineOf(<<>>, Append(b, r)), y, x)
             PROVE  Before(LineOf(<<>>, b), y, x)
  BY EmptySets DEF Orderly
<1>1. <<>> \in Seq(Req) /\ <<r>> \in Seq(Req) /\ ToSet(<<r>>) = {r} /\ ToSet(<<>>) = {}
  BY SingleSet, EmptySets
<1>2. Append(b, r) \in Seq(Req) /\ Append(b, r) = b \o <<r>>
  BY AppendIsConcat, AppendSets
<1>3. Before(Append(b, r), y, x)
  BY <1>2, QueueBefore
<1>4. Before(b \o <<r>>, y, x) <=> \/ Before(b, y, x) \/ Before(<<r>>, y, x)
                                   \/ y \in ToSet(b) /\ x \in ToSet(<<r>>)
  BY <1>1, ConcatBefore
<1>5. Before(b, y, x)
  BY <1>1, <1>2, <1>3, <1>4, ShortBefore
<1> QED
  BY <1>5, QueueBefore

\* Those preempted stand before all.
LEMMA PushOrder ==
  ASSUME NEW b \in Seq(Req), NEW gone \in Seq(Req), ToSet(gone) \cap ToSet(b) = {}
  PROVE  Orderly(<<>>, b, <<>>, gone \o b)
<1> SUFFICES ASSUME NEW x \in ToSet(b), NEW y \in ToSet(b),
                    Before(LineOf(<<>>, gone \o b), y, x)
             PROVE  Before(LineOf(<<>>, b), y, x)
  BY EmptySets DEF Orderly
<1>2. gone \o b \in Seq(Req)
  BY ConcatProperties
<1>3. Before(gone \o b, y, x)
  BY <1>2, QueueBefore
<1>4. Before(gone \o b, y, x) <=> \/ Before(gone, y, x) \/ Before(b, y, x)
                                  \/ y \in ToSet(gone) /\ x \in ToSet(b)
  BY ConcatBefore
<1>5. ~Before(gone, y, x)
  BY BeforeIn
<1>6. Before(b, y, x)
  BY <1>3, <1>4, <1>5
<1> QED
  BY <1>6, QueueBefore

\* Those who leave change nothing among the others.
LEMMA WithoutOrder ==
  ASSUME NEW b \in Seq(Req), NEW gone
  PROVE  Orderly(<<>>, b, <<>>, Without(b, gone))
<1> DEFINE c == Without(b, gone)
<1> SUFFICES ASSUME NEW x, NEW y, Before(LineOf(<<>>, c), y, x)
             PROVE  Before(LineOf(<<>>, b), y, x)
  BY EmptySets DEF Orderly
<1>2. /\ c \in Seq(Req)
      /\ \A m, n \in 1..Len(c) : m < n =>
           \E i, j \in 1..Len(b) : i < j /\ b[i] = c[m] /\ b[j] = c[n]
  BY WithoutSets
<1> HIDE DEF c
<1>3. Before(c, y, x)
  BY <1>2, QueueBefore
<1>4. DOMAIN c = 1..Len(c) /\ DOMAIN b = 1..Len(b)
  BY <1>2, LenProperties
<1>5. Before(b, y, x)
  <2>1. PICK m \in 1..Len(c), n \in 1..Len(c) : m < n /\ c[m] = y /\ c[n] = x
    BY <1>3, <1>4 DEF Before
  <2>2. PICK i \in 1..Len(b), j \in 1..Len(b) : i < j /\ b[i] = c[m] /\ b[j] = c[n]
    BY <1>2, <2>1
  <2> QED
    BY <1>4, <2>1, <2>2 DEF Before
<1> QED
  BY <1>5, QueueBefore

LEMMA SameOrder ==
  ASSUME NEW a, NEW b
  PROVE  Orderly(a, b, a, b)
BY DEF Orderly

\* Preempting, in the running pass.
LEMMA PreemptOrder ==
  ASSUME Core, NEW n \in 0..Len(running), Preempt(n), stage = "running",
         pass'.later = pass.later
  PROVE  Orderly(pass.later, waiting, pass'.later, waiting')
<1> DEFINE gone == SubSeq(running, (Len(running) - n) + 1, Len(running))
<1>1. pass.later = <<>> /\ waiting' = gone \o waiting /\ waiting \in Seq(Req)
  BY TypeParts DEF Core, LoopInv, Preempt
<1>2. gone \in Seq(Req) /\ ToSet(gone) \subseteq ToSet(running)
  <2>1. running \in Seq(Req) /\ Len(running) \in Nat
    BY TypeParts DEF Core
  <2> DEFINE k == Len(running) - n
  <2>2. k \in 0..Len(running)
    BY <2>1
  <2> HIDE DEF k
  <2>3. LET left == SubSeq(running, 1, k)
            right == SubSeq(running, k + 1, Len(running))
        IN right \in Seq(Req) /\ ToSet(running) = ToSet(left) \cup ToSet(right)
    BY <2>1, <2>2, CutSets
  <2> QED
    BY <2>3 DEF k
<1>3. ToSet(running) \cap ToSet(waiting) = {}
  BY DEF Core, QueueInv, Stand, Apart
<1> HIDE DEF gone
<1>4. Orderly(<<>>, waiting, <<>>, gone \o waiting)
  BY <1>1, <1>2, <1>3, PushOrder
<1> QED
  BY <1>1, <1>4

\* The candidate leaves the line for another place, or goes round with those set aside.
LEMMA CandidateOrder ==
  ASSUME Core, NEW r \in Req, Candidate(r), Pop,
         pass'.later = pass.later \/ pass'.later = <<r>> \o pass.later
  PROVE  Orderly(pass.later, waiting, pass'.later, waiting')
<1>1. pass.later \in Seq(Req) /\ waiting \in Seq(Req) /\ skipped \in Seq(Req)
  BY TypeParts DEF Core
<1>2. CASE skipped = <<>>
  <2>1. waiting # <<>> /\ r = Head(waiting) /\ waiting' = Tail(waiting)
    BY <1>2 DEF Candidate, Pop
  <2>2. /\ Orderly(pass.later, waiting, pass.later, Tail(waiting))
        /\ Orderly(pass.later, waiting, <<Head(waiting)>> \o pass.later, Tail(waiting))
    BY <1>1, <2>1, PopOrder
  <2> QED
    BY <2>1, <2>2
<1>3. CASE skipped # <<>>
  <2>1. r = Head(skipped) /\ waiting' = waiting
    BY <1>3 DEF Candidate, Pop
  <2>2. CASE pass'.later = pass.later
    BY <2>1, <2>2, SameOrder
  <2>3. CASE pass'.later = <<r>> \o pass.later
    <3>1. r \in ToSet(skipped)
      BY <1>1, <1>3, <2>1, PopSets
    <3>2. r \notin ToSet(pass.later) /\ r \notin ToSet(waiting)
      BY <3>1 DEF Core, QueueInv, Stand, Apart
    <3>3. /\ <<r>> \o pass.later \in Seq(Req) /\ <<r>> \in Seq(Req) /\ ToSet(<<r>>) = {r}
          /\ ToSet(<<r>> \o pass.later) = {r} \cup ToSet(pass.later)
      BY <1>1, ConsSets, SingleSet
    <3> DEFINE S == ToSet(pass.later) \cup ToSet(waiting)
    <3>4. ASSUME NEW x \in S, NEW y \in S,
                 Before(LineOf(<<r>> \o pass.later, waiting), y, x)
          PROVE  Before(LineOf(pass.later, waiting), y, x)
      <4>1. \/ Before(<<r>> \o pass.later, x, y) \/ Before(waiting, y, x)
            \/ y \in {r} \cup ToSet(pass.later) /\ x \in ToSet(waiting)
        BY <1>1, <3>3, <3>4, LineBefore
      <4>2. Before(<<r>> \o pass.later, x, y) <=>
              \/ Before(<<r>>, x, y) \/ Before(pass.later, x, y)
              \/ x \in {r} /\ y \in ToSet(pass.later)
        BY <1>1, <3>3, ConcatBefore
      <4>3. x # r /\ y # r
        BY <3>2
      <4>4. \/ Before(pass.later, x, y) \/ Before(waiting, y, x)
            \/ y \in ToSet(pass.later) /\ x \in ToSet(waiting)
        BY <4>1, <4>2, <4>3, ShortBefore
      <4> QED
        BY <1>1, <4>4, LineBefore
    <3> QED
      BY <2>1, <2>3, <3>4 DEF Orderly
  <2> QED
    BY <2>2, <2>3
<1> QED
  BY <1>2, <1>3

LEMMA ScheduleOrder ==
  ASSUME Core, Schedule
  PROVE  Orderly(pass.later, waiting, pass'.later, waiting')
<1>1. pass \in PassType /\ Len(running) \in Nat
  BY TypeParts DEF Core, TypeOK
<1>2. ASSUME NEW r \in Req, SkipEach(r) \/ EndRunning
      PROVE  Orderly(pass.later, waiting, pass'.later, waiting')
  <2>1. pass'.later = pass.later /\ waiting' = waiting
    BY <1>1, <1>2 DEF SkipEach, SkipEnding, HoldBack, DeferChunk, SkipEmpty, EndRunning, PassType
  <2> QED
    BY <2>1, SameOrder
<1>3. ASSUME NEW r \in Req, Grant(r) \/ GiveUp(r)
      PROVE  Orderly(pass.later, waiting, pass'.later, waiting')
  <2>1. stage = "running" /\ pass'.later = pass.later
    BY <1>1, <1>3 DEF Grant, GiveUp, Eligible, Visiting, PassType
  <2>2. pass.at \in 1..Len(running)
    BY <1>3, RunningTurn DEF Grant, GiveUp, Eligible
  <2>3. PICK n \in 0..Len(running) : Preempt(n)
    <3>1. \A n \in 0..(Len(running) - pass.at) : n \in 0..Len(running)
      BY <1>1, <2>2
    <3>2. Len(running) - pass.at + 1 \in 0..Len(running)
      BY <1>1, <2>2
    <3> QED
      BY <1>3, <3>1, <3>2 DEF Grant, GiveUp
  <2> QED
    BY <2>1, <2>3, PreemptOrder
<1>4. ASSUME NEW r \in Req, PassOver(r) \/ SetAside(r) \/ Admit(r)
      PROVE  Orderly(pass.later, waiting, pass'.later, waiting')
  <2>1. /\ Candidate(r) /\ Pop
        /\ pass'.later = pass.later \/ pass'.later = <<r>> \o pass.later
    BY <1>1, <1>4 DEF PassOver, SetAside, Admit, PassType
  <2> QED
    BY <2>1, CandidateOrder
<1>5. CASE EndWaiting
  <2>1. /\ pass'.later = <<>> /\ waiting' = LineOf(pass.later, waiting)
    BY <1>1, <1>5 DEF EndWaiting, LineOf, PassType
  <2>2. waiting' \in Seq(Req)
    BY <2>1, LineIs
  <2>3. \A x, y : Before(LineOf(<<>>, waiting'), y, x) => Before(waiting', y, x)
    BY <2>2, QueueBefore
  <2> QED
    BY <2>1, <2>3 DEF Orderly
<1>6. CASE EndRunning
  <2>1. pass'.later = pass.later /\ waiting' = waiting
    BY <1>6 DEF EndRunning
  <2> QED
    BY <2>1, SameOrder
<1> QED
  BY <1>2, <1>3, <1>4, <1>5, <1>6 DEF Schedule, SkipEach

LEMMA NextOrder ==
  ASSUME Core, [Next]_vars
  PROVE  Orderly(pass.later, waiting, pass'.later, waiting')
<1>1. CASE UNCHANGED <<waiting, pass>>
  BY <1>1, SameOrder
<1>2. ASSUME NEW r \in Req, SendAdd(r) \/ SendAbort(r) \/ Compiler(r)
      PROVE  UNCHANGED <<waiting, pass>>
  BY <1>2 DEF SendAdd, SendAbort, Compiler, Compile, svars
<1>3. CASE ClearAborts \/ EndPoll \/ EndWindow \/ NothingToSchedule \/ UNCHANGED vars
  BY <1>1, <1>3 DEF ClearAborts, EndPoll, EndWindow, NothingToSchedule, svars, vars
<1>4. CASE StartStep \/ QueueOutput
  <2>1. stage \in {"idle", "built"} /\ waiting' = waiting /\ pass'.later = <<>>
    <3>1. CASE StartStep
      BY <3>1 DEF StartStep, Begin, NoPass
    <3>2. CASE QueueOutput
      BY <3>2 DEF QueueOutput, UpdateAfterSchedule, NoPass
    <3> QED
      BY <1>4, <3>1, <3>2
  <2>2. pass.later = <<>>
    BY <2>1 DEF Core, LoopInv
  <2> QED
    BY <2>1, <2>2, SameOrder
<1>5. ASSUME NEW gone, Leave(gone), UNCHANGED pass, stage = "idle"
      PROVE  Orderly(pass.later, waiting, pass'.later, waiting')
  <2>1. pass.later = <<>> /\ waiting \in Seq(Req) /\ waiting' = Without(waiting, gone)
    BY <1>5, IdleIs, TypeParts DEF Core, Leave
  <2> QED
    BY <1>5, <2>1, WithoutOrder
<1>6. CASE ProcessAborts
  <2>1. stage = "idle"
    BY <1>6 DEF ProcessAborts, Core, LoopInv
  <2> QED
    BY <1>5, <1>6, <2>1 DEF ProcessAborts, FinishRequests
<1>7. CASE Retire
  <2>1. stage = "idle"
    BY <1>7 DEF Retire, Core, LoopInv
  <2> QED
    BY <1>5, <1>7, <2>1 DEF Retire, UpdateFromOutput
<1>8. CASE HandleMessage
  <2>1. stage = "idle" /\ input # <<>> /\ Dispatch(Head(input))
    BY <1>8 DEF HandleMessage, Core, LoopInv
  <2>2. CASE Head(input).type # "add"
    BY <1>5, <2>1, <2>2 DEF Dispatch, FinishRequests
  <2>3. CASE Head(input).type = "add"
    <3> DEFINE r == Head(input).id
    <3>1. AddRequest(r) /\ pass' = pass /\ pass.later = <<>> /\ waiting \in Seq(Req)
      BY <2>1, <2>3, IdleIs, TypeParts DEF Dispatch, AddRequest, Core
    <3>2. req[r].status = "new" /\ r \in Req
      <4>1. input \in Seq(Message)
        BY DEF Core, TypeOK
      <4>2. Head(input) = input[1] /\ 1 \in DOMAIN input
        <5>1. Len(input) # 0 /\ Len(input) \in Nat
          BY <2>1, <4>1, EmptySeq, LenProperties
        <5> QED
          BY <2>1, <4>1, <5>1, HeadTailProperties, LenProperties
      <4>3. 1 \in Adds /\ input[1].id = r
        BY <2>3, <4>2 DEF Adds
      <4> QED
        BY <4>3 DEF Core, MessageInv, TypeOK
    <3> HIDE DEF r
    <3>3. r \notin ToSet(waiting)
      BY <3>2 DEF Core, QueueInv, Stand, Live
    <3>4. waiting' = waiting \/ waiting' = Append(waiting, r)
      BY <3>1 DEF AddRequest
    <3>5. Orderly(<<>>, waiting, <<>>, Append(waiting, r))
      BY <3>1, <3>2, <3>3, AppendOrder
    <3> QED
      BY <3>1, <3>4, <3>5, SameOrder
  <2> QED
    BY <2>2, <2>3
<1>9. CASE Schedule
  BY <1>9, ScheduleOrder
<1> QED
  BY <1>1, <1>2, <1>3, <1>4, <1>6, <1>7, <1>8, <1>9 DEF Next, Engine

\* Prefills set aside on throttled steps keep their places in line, whoever is
\* admitted, preempted, added or finished meanwhile.
THEOREM NobodyOvertakes == Spec => LineKeepsOrder
<1>1. Core /\ [Next]_vars => [\A x, y \in Req : Ahead(x, y) => ~Ahead(y, x)']_vars
  BY NextOrder, OrderlyIs
<1> QED
  BY <1>1, CoreInvariant, PTL DEF Spec, LineKeepsOrder
=============================================================================
