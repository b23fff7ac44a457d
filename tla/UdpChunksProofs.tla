-------------------------- MODULE UdpChunksProofs --------------------------
(* What comes out of a reassembler, for frames of any length, any payload  *)
(* capacity and any collision-free checksum, whatever the network does.    *)
EXTENDS UdpChunks, SequenceTheorems, FiniteSetTheorems, WellFoundedInduction, TLAPS

-----------------------------------------------------------------------------
(* The least-number principle for a set of naturals, which stands in for   *)
(* induction over the chunks of a frame.                                   *)
LEMMA LeastNatural ==
    ASSUME NEW T \in SUBSET Nat, T # {}
    PROVE  \E x \in T : \A y \in T : x <= y
<1> DEFINE R == {ss \in Nat \X Nat : ss[1] < ss[2]}
<1>1. IsWellFoundedOn(R, Nat)
  BY NatLessThanWellFounded, Zenon DEF OpToRel
<1>2. \A x, y \in Nat : y < x => <<y, x>> \in R
  OBVIOUS
<1> HIDE DEF R
<1>3. PICK x \in T : \A y \in T : ~(<<y, x>> \in R)
  BY <1>1, WFMin, Zenon
<1>4. \A y \in T : ~(y < x)
  BY <1>2, <1>3
<1> QED
  BY <1>4

(* The running concatenations of a sequence of sequences. *)
Joins(seqs, h) == h = [i \in 1..Len(seqs) |-> IF i = 1 THEN seqs[i] ELSE h[i - 1] \o seqs[i]]

(* FlattenSeq is the last of the running concatenations, of which each is  *)
(* the one before it and one more sequence.                                *)
LEMMA FlattenJoins ==
    ASSUME NEW S, NEW seqs \in Seq(Seq(S)), Len(seqs) > 0
    PROVE  \E h \in [1..Len(seqs) -> Seq(S)] :
              Joins(seqs, h) /\ FlattenSeq(seqs) = h[Len(seqs)]
<1> DEFINE n == Len(seqs)
           Upto(k, h) == h = [i \in 1..k |-> IF i = 1 THEN seqs[i] ELSE h[i - 1] \o seqs[i]]
           Has(k) == \E h : Upto(k, h) /\ h \in [1..k -> Seq(S)]
           T == {k \in 1..n : ~Has(k)}
<1>1. n \in Nat /\ \A i \in 1..n : seqs[i] \in Seq(S)
  BY LenProperties, ElementOfSeq
<1>2. T \in SUBSET Nat /\ \A k \in T : k \in 1..n
  <2> HIDE DEF Has
  <2> QED
    BY <1>1
<1>3. ASSUME NEW k \in 1..n, k = 1 \/ k - 1 \in (1..n) \ T PROVE k \notin T
  <2>1. CASE k = 1
    <3> DEFINE h == [i \in 1..1 |-> seqs[i]]
    <3>1. Upto(1, h) /\ h \in [1..1 -> Seq(S)]
      BY <1>1
    <3> QED
      BY <2>1, <3>1
  <2>2. CASE k # 1
    <3>1. PICK g : Upto(k - 1, g) /\ g \in [1..(k - 1) -> Seq(S)]
      BY <1>3, <2>2
    <3>2. g[k - 1] \in Seq(S) /\ k - 1 \in 1..(k - 1) /\ k \in Nat
      BY <1>1, <2>2, <3>1
    <3> DEFINE e == g[k - 1] \o seqs[k]
               h == [i \in 1..k |-> IF i = k THEN e ELSE g[i]]
    <3>3. e \in Seq(S)
      BY <1>1, <3>2, ConcatProperties
    <3>4. h \in [1..k -> Seq(S)]
      <4> HIDE DEF e
      <4>1. \A i \in 1..k : i # k => i \in 1..(k - 1)
        BY <3>2
      <4> QED
        BY <3>1, <3>3, <4>1
    <3>5. ASSUME NEW i \in 1..k
          PROVE  h[i] = IF i = 1 THEN seqs[i] ELSE h[i - 1] \o seqs[i]
      <4>1. CASE i = k
        <5>1. h[i] = e /\ k - 1 \in 1..k /\ k - 1 # k
          <6> HIDE DEF e
          <6> QED
            BY <3>2, <4>1
        <5>2. h[k - 1] = g[k - 1]
          BY <5>1
        <5> QED
          BY <2>2, <4>1, <5>1, <5>2
      <4>2. CASE i # k
        <5>1. h[i] = g[i] /\ i \in 1..(k - 1)
          BY <3>2, <4>2
        <5>2. i # 1 => h[i - 1] = g[i - 1]
          BY <3>2, <4>2
        <5> QED
          BY <3>1, <5>1, <5>2
      <4> QED
        BY <4>1, <4>2
    <3>6. Upto(k, h)
      BY <3>5
    <3> QED
      BY <3>4, <3>6
  <2> QED
    BY <2>1, <2>2
<1>4. n \notin T
  <2> HIDE DEF T
  <2> SUFFICES ASSUME T # {} PROVE FALSE
    OBVIOUS
  <2>1. PICK k \in T : \A j \in T : k <= j
    BY <1>2, LeastNatural
  <2>2. k \in 1..n /\ (k # 1 => k - 1 \in 1..n /\ k - 1 \notin T)
    BY <1>1, <1>2, <2>1
  <2> QED
    BY <1>3, <2>2
<1>5. \E h : Joins(seqs, h)
  <2>1. n \in 1..n
    BY <1>1
  <2>2. PICK h : Upto(n, h)
    BY <1>4, <2>1
  <2> QED
    BY <2>2 DEF Joins
<1> DEFINE f == CHOOSE h : Joins(seqs, h)
<1>6. Joins(seqs, f)
  BY <1>5
<1>7. FlattenSeq(seqs) = f[n]
  BY <1>1 DEF FlattenSeq, Joins
<1> HIDE DEF f
<1>8. \A i \in 1..n : f[i] \in Seq(S)
  <2> DEFINE U == {i \in 1..n : f[i] \notin Seq(S)}
  <2>1. U \in SUBSET Nat
    BY <1>1
  <2>2. ASSUME NEW k \in 1..n, k = 1 \/ f[k - 1] \in Seq(S) PROVE f[k] \in Seq(S)
    <3>1. f[k] = IF k = 1 THEN seqs[k] ELSE f[k - 1] \o seqs[k]
      BY <1>6 DEF Joins
    <3> QED
      BY <1>1, <2>2, <3>1, ConcatProperties
  <2> SUFFICES ASSUME U # {} PROVE FALSE
    OBVIOUS
  <2>3. PICK k \in U : \A j \in U : k <= j
    <3> HIDE DEF U
    <3> QED
      BY <2>1, LeastNatural
  <2>4. k # 1 => k - 1 \in 1..n /\ k - 1 \notin U
    BY <1>1, <2>3
  <2> QED
    BY <2>2, <2>4
<1> QED
  BY <1>6, <1>7, <1>8 DEF Joins

-----------------------------------------------------------------------------
(* Where the first k chunks of a frame of len cells end. *)
Cutoff(k, len) == IF k * MaxPayload < len THEN k * MaxPayload ELSE len

(* The chunks of a frame cover it: all but the last are full, and the last *)
(* is not empty.                                                           *)
LEMMA Cuts ==
    ASSUME NEW len \in Nat \ {0}, NEW n, n = (len + MaxPayload - 1) \div MaxPayload
    PROVE  /\ n \in Nat \ {0}
           /\ \A i \in 0..(n - 1) : /\ Cutoff(i, len) = i * MaxPayload
                                    /\ i * MaxPayload \in 0..(len - 1)
                                    /\ Cutoff(i + 1, len) \in (i * MaxPayload + 1)..len
           /\ Cutoff(n, len) = len
<1> DEFINE M == MaxPayload
           a == len + M - 1
<1>1. M \in Nat /\ M > 0 /\ a \in Nat
  BY ChunksAssumption
<1>2. /\ n \in Int /\ n * M <= a /\ a < n * M + M
  BY <1>1
<1>3. n \in Nat /\ n > 0 /\ (n - 1) * M < len /\ len <= n * M
  <2>1. n >= 1
    <3>1. CASE n <= 0
      <4>1. n * M <= 0
        BY <1>1, <1>2, <3>1
      <4> QED
        BY <1>1, <1>2, <4>1
    <3> QED
      BY <1>2, <3>1
  <2>2. (n - 1) * M = n * M - M
    BY <1>1, <1>2
  <2> QED
    BY <1>1, <1>2, <2>1, <2>2
<1>4. ASSUME NEW i \in 0..(n - 1)
      PROVE  /\ i * M \in 0..(len - 1)
             /\ (i + 1) * M \in Nat /\ (i + 1) * M >= i * M + 1
  <2>1. i * M \in Nat /\ (n - 1) * M \in Nat /\ i * M <= (n - 1) * M
    BY <1>1, <1>3
  <2>2. (i + 1) * M = i * M + M
    BY <1>1, <1>3
  <2> QED
    BY <1>1, <1>3, <2>1, <2>2
<1>5. n * M \in Nat
  BY <1>1, <1>3
<1> QED
  BY <1>3, <1>4, <1>5 DEF Cutoff

(* The parts of a frame, joined again, are the frame. *)
LEMMA CutAndJoin ==
    ASSUME NEW S, NEW f \in Seq(S), f # <<>>,
           NEW seqs \in Seq(Seq(S)), Len(seqs) = TotalChunks(f),
           \A i \in 1..Len(seqs) :
               seqs[i] = SubSeq(f, (i - 1) * MaxPayload + 1, Cutoff(i, Len(f)))
    PROVE  FlattenSeq(seqs) = f
<1> DEFINE M == MaxPayload
           len == Len(f)
           n == Len(seqs)
<1>1. len \in Nat \ {0}
  BY EmptySeq
<1>2. /\ n \in Nat \ {0}
      /\ \A i \in 0..(n - 1) : /\ Cutoff(i, len) = i * M /\ i * M \in 0..(len - 1)
                               /\ Cutoff(i + 1, len) \in (i * M + 1)..len
      /\ Cutoff(n, len) = len
  BY <1>1, Cuts DEF TotalChunks
<1>3. PICK h \in [1..n -> Seq(S)] : Joins(seqs, h) /\ FlattenSeq(seqs) = h[n]
  BY <1>2, FlattenJoins
<1> HIDE DEF M, len
<1> DEFINE U == {i \in 1..n : h[i] # SubSeq(f, 1, Cutoff(i, len))}
<1>4. ASSUME NEW i \in 1..n, i = 1 \/ h[i - 1] = SubSeq(f, 1, Cutoff(i - 1, len))
      PROVE  h[i] = SubSeq(f, 1, Cutoff(i, len))
  <2>1. h[i] = IF i = 1 THEN seqs[i] ELSE h[i - 1] \o seqs[i]
    BY <1>3 DEF Joins
  <2>2. i - 1 \in 0..(n - 1) /\ (i - 1) + 1 = i
    BY <1>2
  <2>3. Cutoff(i - 1, len) = (i - 1) * M /\ (i - 1) * M \in 0..(len - 1)
        /\ Cutoff(i, len) \in ((i - 1) * M + 1)..len
    BY <1>2, <2>2
  <2>4. seqs[i] = SubSeq(f, (i - 1) * M + 1, Cutoff(i, len))
    BY DEF M, len
  <2>5. CASE i = 1
    <3>1. (i - 1) * M + 1 = 1
      BY <2>5, ChunksAssumption DEF M
    <3>2. h[i] = SubSeq(f, (i - 1) * M + 1, Cutoff(i, len))
      BY <2>1, <2>4, <2>5, Zenon
    <3> QED
      BY <3>1, <3>2, Zenon
  <2>6. CASE i # 1
    <3> DEFINE k == (i - 1) * M
               e == Cutoff(i, len)
    <3>1. k \in 0..len /\ e \in k..len /\ 1 \in 1..(len + 1)
      BY <1>1, <2>3
    <3>2. h[i] = SubSeq(f, 1, k) \o SubSeq(f, k + 1, e)
      BY <1>4, <2>1, <2>3, <2>4, <2>6
    <3> HIDE DEF k, e
    <3>3. SubSeq(f, 1, k) \o SubSeq(f, k + 1, e) = SubSeq(f, 1, e)
      BY <3>1, ConcatAdjacentSubSeq DEF len
    <3> QED
      BY <3>2, <3>3 DEF e
  <2> QED
    BY <2>5, <2>6
<1>5. U \in SUBSET Nat /\ \A i \in U : i \in 1..n
  BY <1>2
<1>6. \A i \in (1..n) \ U : h[i] = SubSeq(f, 1, Cutoff(i, len))
  OBVIOUS
<1>7. \A i \in U : h[i] # SubSeq(f, 1, Cutoff(i, len))
  OBVIOUS
<1> HIDE DEF U
<1>8. U = {}
  <2> SUFFICES ASSUME U # {} PROVE FALSE
    OBVIOUS
  <2>1. PICK i \in U : \A j \in U : i <= j
    BY <1>5, LeastNatural
  <2>2. i # 1 => i - 1 \in (1..n) \ U
    BY <1>2, <1>5, <2>1
  <2> QED
    BY <1>4, <1>5, <1>6, <1>7, <2>2
<1>9. h[n] = SubSeq(f, 1, len)
  BY <1>2, <1>6, <1>8
<1> QED
  BY <1>3, <1>9, SubSeqFull DEF len

(* Parts of the right lengths, joined and cut again, are the same parts. *)
LEMMA JoinAndCut ==
    ASSUME NEW S, NEW len \in Nat \ {0}, NEW seqs \in Seq(Seq(S)),
           Len(seqs) = (len + MaxPayload - 1) \div MaxPayload,
           \A i \in 1..Len(seqs) : Len(seqs[i]) = Cutoff(i, len) - (i - 1) * MaxPayload
    PROVE  /\ FlattenSeq(seqs) \in Seq(S) /\ Len(FlattenSeq(seqs)) = len
           /\ \A j \in 1..Len(seqs) :
                SubSeq(FlattenSeq(seqs), (j - 1) * MaxPayload + 1, Cutoff(j, len)) = seqs[j]
<1> DEFINE M == MaxPayload
           n == Len(seqs)
           C(i) == Cutoff(i, len)
<1>1. /\ n \in Nat \ {0}
      /\ \A i \in 0..(n - 1) : /\ C(i) = i * M /\ i * M \in 0..(len - 1)
                               /\ C(i + 1) \in (i * M + 1)..len
      /\ C(n) = len
  BY Cuts
<1>2. PICK h \in [1..n -> Seq(S)] : Joins(seqs, h) /\ FlattenSeq(seqs) = h[n]
  BY <1>1, FlattenJoins
<1> DEFINE Good(i) == /\ Len(h[i]) = C(i)
                      /\ \A j \in 1..i : SubSeq(h[i], (j - 1) * M + 1, C(j)) = seqs[j]
<1> HIDE DEF M, C
<1>3. ASSUME NEW i \in 1..n
      PROVE  /\ seqs[i] \in Seq(S) /\ Len(seqs[i]) = C(i) - (i - 1) * M
             /\ C(i - 1) = (i - 1) * M /\ (i - 1) * M \in 0..(len - 1)
             /\ C(i) \in ((i - 1) * M + 1)..len
             /\ i < n => C(i) = i * M
  <2>1. i - 1 \in 0..(n - 1) /\ (i - 1) + 1 = i /\ (i < n => i \in 0..(n - 1))
    BY <1>1
  <2>2. C(i - 1) = (i - 1) * M /\ (i - 1) * M \in 0..(len - 1) /\ C(i) \in ((i - 1) * M + 1)..len
    BY <1>1, <2>1
  <2>3. i < n => C(i) = i * M
    BY <1>1, <2>1
  <2>4. seqs[i] \in Seq(S)
    BY ElementOfSeq
  <2> QED
    BY <2>2, <2>3, <2>4 DEF C, M
<1>4. ASSUME NEW i \in 1..n, i = 1 \/ Good(i - 1) PROVE Good(i)
  <2>1. h[i] = IF i = 1 THEN seqs[i] ELSE h[i - 1] \o seqs[i]
    BY <1>2 DEF Joins
  <2>2. SubSeq(seqs[i], 1, Len(seqs[i])) = seqs[i]
    BY <1>3, SubSeqFull
  <2>3. CASE i = 1
    <3>1. (i - 1) * M = 0
      BY <2>3, ChunksAssumption DEF M
    <3>2. h[i] = seqs[i] /\ Len(h[i]) = C(i)
      BY <1>3, <2>1, <2>3, <3>1
    <3>3. ASSUME NEW j \in 1..i PROVE SubSeq(h[i], (j - 1) * M + 1, C(j)) = seqs[j]
      <4>1. j = i
        BY <2>3
      <4>2. (j - 1) * M + 1 = 1 /\ C(j) = Len(seqs[i])
        BY <1>3, <3>1, <4>1
      <4> QED
        BY <2>2, <3>2, <4>1, <4>2
    <3> QED
      BY <3>2, <3>3
  <2>4. CASE i # 1
    <3> DEFINE k == (i - 1) * M
    <3>1. h[i - 1] \in Seq(S) /\ seqs[i] \in Seq(S) /\ i - 1 \in 1..n /\ i - 1 < n
      <4>1. i - 1 \in 1..n /\ i - 1 < n
        BY <1>1, <2>4
      <4> QED
        BY <1>2, <1>3, <4>1
    <3>2. /\ h[i] = h[i - 1] \o seqs[i] /\ Len(h[i - 1]) = k /\ k \in Nat
          /\ Len(seqs[i]) = C(i) - k /\ C(i) \in (k + 1)..len
      <4>1. h[i] = h[i - 1] \o seqs[i]
        BY <2>1, <2>4, Zenon
      <4>2. C(i - 1) = k /\ k \in 0..(len - 1) /\ Len(seqs[i]) = C(i) - k /\ C(i) \in (k + 1)..len
        BY <1>3
      <4>3. Len(h[i - 1]) = C(i - 1)
        BY <1>4, <2>4, Zenon
      <4> HIDE DEF k
      <4> QED
        BY <4>1, <4>2, <4>3
    <3>3. Len(h[i]) = C(i)
      <4> HIDE DEF k
      <4>1. Len(h[i]) = Len(h[i - 1]) + Len(seqs[i])
        BY <3>1, <3>2, ConcatProperties
      <4> QED
        BY <3>2, <4>1
    <3>4. ASSUME NEW j \in 1..i, j # i
          PROVE  SubSeq(h[i], (j - 1) * M + 1, C(j)) = seqs[j]
      <4>1. j \in 1..n /\ j < n /\ j \in 1..(i - 1)
        BY <1>1, <3>4
      <4>2. C(j) = j * M /\ (j - 1) * M \in Nat /\ C(j) >= (j - 1) * M + 1
        BY <1>3, <4>1
      <4>3. j * M <= k
        BY <4>1, ChunksAssumption DEF M
      <4> DEFINE m == (j - 1) * M + 1
                 b == j * M
      <4>4. m \in Nat \ {0} /\ C(j) >= m /\ C(j) = b
        BY <4>2
      <4>5. b \in Nat /\ b <= k
        BY <4>1, <4>3, ChunksAssumption DEF M
      <4> HIDE DEF m, b, k
      <4>6. m \in 1..Len(h[i - 1]) /\ C(j) \in 1..Len(h[i - 1])
        BY <3>2, <4>4, <4>5
      <4>7. SubSeq(h[i - 1] \o seqs[i], m, C(j)) = SubSeq(h[i - 1], m, C(j))
        BY <3>1, <4>6, SubSeqOfConcat1
      <4>8. SubSeq(h[i - 1], m, C(j)) = seqs[j]
        BY <1>4, <2>4, <4>1 DEF m
      <4> QED
        BY <3>2, <4>7, <4>8 DEF m
    <3>5. SubSeq(h[i], k + 1, C(i)) = seqs[i]
      <4> HIDE DEF k
      <4> DEFINE x == k + 1
                 y == C(i)
                 s == h[i - 1]
                 t == seqs[i]
      <4>1. x \in (Len(s) + 1)..(Len(s) + Len(t)) /\ y \in (Len(s) + 1)..(Len(s) + Len(t))
        BY <3>2
      <4>2. s \in Seq(S) /\ t \in Seq(S) /\ h[i] = s \o t
        BY <3>1, <3>2
      <4>3. x - Len(s) = 1 /\ y - Len(s) = Len(t)
        BY <3>2
      <4> HIDE DEF x, y, s, t
      <4>4. SubSeq(s \o t, x, y) = SubSeq(t, x - Len(s), y - Len(s))
        BY <4>1, <4>2, SubSeqOfConcat2
      <4>5. SubSeq(s \o t, x, y) = SubSeq(t, 1, Len(t))
        BY <4>3, <4>4
      <4> QED
        BY <2>2, <4>2, <4>5 DEF x, y, s, t
    <3> QED
      BY <3>3, <3>4, <3>5
  <2> QED
    BY <2>3, <2>4
<1> DEFINE U == {i \in 1..n : ~Good(i)}
<1> HIDE DEF Good
<1>5. U \in SUBSET Nat /\ \A i \in 1..n : i \in U <=> ~Good(i)
  BY <1>1
<1> HIDE DEF U
<1>6. U = {}
  <2> SUFFICES ASSUME U # {} PROVE FALSE
    OBVIOUS
  <2>1. PICK i \in U : \A j \in U : i <= j
    BY <1>5, LeastNatural
  <2>2. i \in 1..n
    BY DEF U
  <2>3. i # 1 => i - 1 \in 1..n /\ i - 1 \notin U
    BY <1>1, <2>1, <2>2
  <2> QED
    BY <1>4, <1>5, <2>2, <2>3
<1>7. n \in 1..n /\ Good(n)
  BY <1>1, <1>5, <1>6
<1> QED
  BY <1>1, <1>2, <1>7 DEF Good, C, M

-----------------------------------------------------------------------------
(* The ring of neighbour checksums. *)

(* A group whose slots all come from one frame passes verify_all: the      *)
(* check never rejects an undamaged frame.                                 *)
THEOREM OneFrameVerifies ==
    ASSUME NEW n \in Nat \ {0}, NEW parts \in [0..(n - 1) -> Parts]
    PROVE  VerifyAll([i \in 0..(n - 1) |-> Slot(parts, n, i)], n)
<1>1. ASSUME NEW i \in 0..(n - 1)
      PROVE  Before(i, n) \in 0..(n - 1) /\ After(i, n) \in 0..(n - 1)
  BY DEF Before, After
<1> QED
  BY <1>1 DEF VerifyAll, Slot

(* Among more elements than a set has, two are equal. *)
LEMMA TwoEqual ==
    ASSUME NEW G, IsFiniteSet(G), NEW n \in Nat, Cardinality(G) < n, NEW f \in [1..n -> G]
    PROVE  \E x, y \in 1..n : x # y /\ f[x] = f[y]
<1>1. IsFiniteSet(1..n) /\ Cardinality(1..n) = n
  BY FS_Interval
<1> QED
  BY <1>1, FS_PigeonHole

(* Each slot holds the chunk that one of the frames in G has there. *)
FilledFrom(slots, n, G, parts) ==
    \A i \in 0..(n - 1) : \E f \in G : slots[i] = Slot(parts[f], n, i)

(* Slot i, and the slots before and after it, hold what frame who[i] has. *)
VouchedBy(slots, n, parts, who) ==
    \A i \in 0..(n - 1) : \A j \in {Before(i, n), i, After(i, n)} :
        j \in 0..(n - 1) /\ slots[j].payload = parts[who[i]][j]

(* In a group that passes verify_all, each chunk comes with two neighbours *)
(* of the frame it is from.                                                *)
LEMMA NeighboursVouch ==
    ASSUME NEW n \in Nat \ {0}, NEW G, NEW parts \in [G -> [0..(n - 1) -> Parts]],
           NEW slots, VerifyAll(slots, n), FilledFrom(slots, n, G, parts)
    PROVE  \E who \in [0..(n - 1) -> G] : VouchedBy(slots, n, parts, who)
<1> DEFINE who == [i \in 0..(n - 1) |-> CHOOSE f \in G : slots[i] = Slot(parts[f], n, i)]
<1>1. who \in [0..(n - 1) -> G] /\ \A i \in 0..(n - 1) : slots[i] = Slot(parts[who[i]], n, i)
  BY DEF FilledFrom
<1> HIDE DEF who
<1>2. \A i \in 0..(n - 1) :
        /\ parts[who[i]] \in [0..(n - 1) -> Parts]
        /\ slots[i].payload = parts[who[i]][i] /\ slots[i].payload \in Parts
        /\ slots[i].prev = Checksum(parts[who[i]][Before(i, n)])
        /\ slots[i].next = Checksum(parts[who[i]][After(i, n)])
  <2> SUFFICES ASSUME NEW i \in 0..(n - 1)
      PROVE /\ parts[who[i]] \in [0..(n - 1) -> Parts]
            /\ slots[i].payload = parts[who[i]][i] /\ slots[i].payload \in Parts
            /\ slots[i].prev = Checksum(parts[who[i]][Before(i, n)])
            /\ slots[i].next = Checksum(parts[who[i]][After(i, n)])
    OBVIOUS
  <2>1. who[i] \in G /\ slots[i] = Slot(parts[who[i]], n, i)
    BY <1>1
  <2>2. parts[who[i]] \in [0..(n - 1) -> Parts]
    BY <2>1
  <2>3. parts[who[i]][i] \in Parts
    BY <2>2
  <2>4. /\ slots[i].payload = parts[who[i]][i]
        /\ slots[i].prev = Checksum(parts[who[i]][Before(i, n)])
        /\ slots[i].next = Checksum(parts[who[i]][After(i, n)])
    BY <2>1 DEF Slot
  <2> QED
    BY <2>2, <2>3, <2>4
<1>3. ASSUME NEW i \in 0..(n - 1), NEW j \in {Before(i, n), i, After(i, n)}
      PROVE  j \in 0..(n - 1) /\ slots[j].payload = parts[who[i]][j]
  <2>1. Before(i, n) \in 0..(n - 1) /\ After(i, n) \in 0..(n - 1)
    BY DEF Before, After
  <2>2. j \in 0..(n - 1) /\ slots[j].payload \in Parts /\ parts[who[i]][j] \in Parts
    BY <1>2, <2>1
  <2>3. /\ Checksum(slots[Before(i, n)].payload) = slots[i].prev
        /\ Checksum(slots[After(i, n)].payload) = slots[i].next
    BY DEF VerifyAll
  <2>4. j # i => Checksum(slots[j].payload) = Checksum(parts[who[i]][j])
    BY <1>2, <2>3
  <2> QED
    BY <1>2, <2>2, <2>4, ChecksumAssumption
<1> QED
  BY <1>1, <1>3 DEF VouchedBy

(* How many frames of n chunks the ring keeps apart: any number of up to   *)
(* three chunks, three of four chunks, two of five chunks.                 *)
KeptApart(n, frames) ==
    \/ n <= 3
    \/ n = 4 /\ IsFiniteSet(frames) /\ Cardinality(frames) <= 3
    \/ n = 5 /\ IsFiniteSet(frames) /\ Cardinality(frames) <= 2

(* Frames of one shape that the ring keeps apart cannot be mixed: a group  *)
(* that verify_all accepts holds the parts of one of them, whichever chunk *)
(* of which frame each slot came from.                                     *)
THEOREM FewChunksCannotMix ==
    ASSUME NEW n \in Nat \ {0}, NEW G, NEW parts \in [G -> [0..(n - 1) -> Parts]],
           KeptApart(n, G),
           NEW slots, VerifyAll(slots, n), FilledFrom(slots, n, G, parts)
    PROVE  \E f \in G : \A i \in 0..(n - 1) : slots[i].payload = parts[f][i]
<1>0. PICK who \in [0..(n - 1) -> G] : VouchedBy(slots, n, parts, who)
  BY NeighboursVouch
<1> DEFINE P(i) == slots[i].payload
           Q(f, i) == parts[f][i]
<1>1. \A i \in 0..(n - 1) : \A j \in {Before(i, n), i, After(i, n)} :
        j \in 0..(n - 1) /\ P(j) = Q(who[i], j)
  BY <1>0 DEF VouchedBy
<1> HIDE DEF P, Q
<1>2. CASE n <= 3
  <2>1. \A i \in 0..(n - 1) : i \in {Before(0, n), 0, After(0, n)}
    BY <1>2 DEF Before, After
  <2>2. \A i \in 0..(n - 1) : P(i) = Q(who[0], i)
    BY <1>1, <2>1, 0 \in 0..(n - 1)
  <2>3. who[0] \in G
    BY <1>0, 0 \in 0..(n - 1)
  <2> QED
    BY <2>2, <2>3 DEF P, Q
<1>3. CASE n = 4 /\ IsFiniteSet(G) /\ Cardinality(G) <= 3
  <2>1. PICK x, y \in 1..4 : x # y /\ who[x - 1] = who[y - 1]
    <3> DEFINE f == [k \in 1..4 |-> who[k - 1]]
    <3>1. f \in [1..4 -> G]
      BY <1>0, <1>3
    <3>2. Cardinality(G) < 4
      BY <1>3, FS_CardinalityType
    <3>3. \E x, y \in 1..4 : x # y /\ f[x] = f[y]
      <4> HIDE DEF f
      <4>1. \A m \in Nat : Cardinality(G) < m /\ f \in [1..m -> G] =>
              \E i, j \in 1..m : i # j /\ f[i] = f[j]
        BY <1>3, TwoEqual
      <4> QED
        BY <3>1, <3>2, <4>1
    <3> QED
      BY <3>3
  <2> DEFINE u == x - 1
             v == y - 1
  <2>2. u \in 0..3 /\ v \in 0..3 /\ u # v /\ who[u] = who[v]
    BY <2>1
  <2> HIDE DEF u, v
  <2>3. \A i \in 0..3 : i \in {Before(u, 4), u, After(u, 4)} \/ i \in {Before(v, 4), v, After(v, 4)}
    BY <2>2 DEF Before, After
  <2>4. \A i \in 0..(n - 1) : P(i) = Q(who[u], i)
    BY <1>1, <1>3, <2>2, <2>3
  <2>5. who[u] \in G
    BY <1>0, <1>3, <2>2
  <2> QED
    BY <2>4, <2>5 DEF P, Q
<1>4. CASE n = 5 /\ IsFiniteSet(G) /\ Cardinality(G) <= 2
  <2>1. ASSUME NEW x \in G, NEW y \in G, NEW z \in G PROVE x = y \/ y = z \/ x = z
    <3> DEFINE f == [k \in 1..3 |-> IF k = 1 THEN x ELSE IF k = 2 THEN y ELSE z]
    <3>1. f \in [1..3 -> G] /\ f[1] = x /\ f[2] = y /\ f[3] = z
      OBVIOUS
    <3>2. Cardinality(G) < 3
      BY <1>4, FS_CardinalityType
    <3> HIDE DEF f
    <3>3. \E i, j \in 1..3 : i # j /\ f[i] = f[j]
      <4>1. \A m \in Nat : Cardinality(G) < m /\ f \in [1..m -> G] =>
              \E i, j \in 1..m : i # j /\ f[i] = f[j]
        BY <1>4, TwoEqual
      <4> QED
        BY <3>1, <3>2, <4>1
    <3> QED
      BY <3>1, <3>3
  <2>2. \A i \in 0..4 : who[i] \in G
    BY <1>0, <1>4
  <2>3. \/ who[0] = who[2] \/ who[2] = who[4] \/ who[4] = who[1]
        \/ who[1] = who[3] \/ who[3] = who[0]
    <3>1. who[0] = who[2] \/ who[2] = who[4] \/ who[0] = who[4]
      BY <2>1, <2>2
    <3>2. who[2] = who[4] \/ who[4] = who[1] \/ who[2] = who[1]
      BY <2>1, <2>2
    <3>3. who[4] = who[1] \/ who[1] = who[3] \/ who[4] = who[3]
      BY <2>1, <2>2
    <3> QED
      BY <3>1, <3>2, <3>3
  <2>4. ASSUME NEW u \in 0..4, NEW v \in 0..4, who[u] = who[v],
               \A i \in 0..4 : \/ i \in {Before(u, 5), u, After(u, 5)}
                               \/ i \in {Before(v, 5), v, After(v, 5)}
        PROVE  \E f \in G : \A i \in 0..(n - 1) : P(i) = Q(f, i)
    <3>1. \A i \in 0..(n - 1) : P(i) = Q(who[u], i)
      BY <1>1, <1>4, <2>4
    <3> QED
      BY <2>2, <3>1
  <2>5. \A u, v \in 0..4 :
          <<u, v>> \in {<<0, 2>>, <<2, 4>>, <<4, 1>>, <<1, 3>>, <<3, 0>>} =>
             \A i \in 0..4 : \/ i \in {Before(u, 5), u, After(u, 5)}
                             \/ i \in {Before(v, 5), v, After(v, 5)}
    BY DEF Before, After
  <2>6. \E u, v \in 0..4 :
          who[u] = who[v] /\ <<u, v>> \in {<<0, 2>>, <<2, 4>>, <<4, 1>>, <<1, 3>>, <<3, 0>>}
    BY <2>3
  <2>7. \E f \in G : \A i \in 0..(n - 1) : P(i) = Q(f, i)
    BY <2>4, <2>5, <2>6
  <2> QED
    BY <2>7 DEF P, Q
<1> QED
  BY <1>2, <1>3, <1>4 DEF KeptApart

-----------------------------------------------------------------------------
(* Frames, their chunks, and the groups that chunks fill. *)
Cells == UNION {ToSet(f) : f \in Frames}

(* What ChunksAssumption says of a frame and its chunks. *)
LEMMA FrameFacts ==
    ASSUME NEW f \in Frames
    PROVE  /\ f \in Seq(Cells) /\ f # <<>> /\ Len(f) \in Nat \ {0}
           /\ f[1].id \in Ids /\ DecodesAs(f, f[1].type, f[1].id)
           /\ TotalChunks(f) \in Nat \ {0}
           /\ PartsOf(f) \in [0..(TotalChunks(f) - 1) -> Parts]
<1>1. f \in Seq(Cells) /\ DecodesAs(f, f[1].type, f[1].id)
  BY ChunksAssumption DEF Cells
<1>2. f # <<>> /\ Len(f) \in Nat \ {0}
  BY <1>1, EmptySeq, LenProperties DEF DecodesAs
<1>3. TotalChunks(f) \in Nat \ {0}
  BY <1>2, Cuts DEF TotalChunks
<1>4. PartsOf(f) = [i \in 0..(TotalChunks(f) - 1) |-> PartsOf(f)[i]]
  BY DEF PartsOf
<1>5. \A i \in 0..(TotalChunks(f) - 1) : PartsOf(f)[i] \in Parts
  BY ChunksAssumption
<1>6. f[1].id \in Ids
  BY DEF Ids
<1> QED
  BY <1>1, <1>2, <1>3, <1>4, <1>5, <1>6

(* Part i of a sequence of cells, as CutAndJoin and JoinAndCut put it. *)
LEMMA PartFacts ==
    ASSUME NEW f \in Seq(Cells), Len(f) \in Nat \ {0}, NEW i \in 0..(TotalChunks(f) - 1)
    PROVE  /\ PartsOf(f)[i] = SubSeq(f, i * MaxPayload + 1, Cutoff(i + 1, Len(f)))
           /\ PartsOf(f)[i] \in Seq(Cells)
           /\ Len(PartsOf(f)[i]) = Cutoff(i + 1, Len(f)) - i * MaxPayload
<1> DEFINE a == i * MaxPayload
           b == Cutoff(i + 1, Len(f))
<1>1. TotalChunks(f) \in Nat /\ a \in 0..(Len(f) - 1) /\ b \in (a + 1)..Len(f)
  BY Cuts DEF TotalChunks
<1>2. PartsOf(f)[i] = SubSeq(f, a + 1, b)
  BY DEF PartsOf, Cutoff
<1> HIDE DEF a, b
<1>3. /\ SubSeq(f, a + 1, b) \in Seq(Cells)
      /\ Len(SubSeq(f, a + 1, b)) = IF a + 1 <= b THEN b - (a + 1) + 1 ELSE 0
  BY <1>1, SubSeqProperties
<1> QED
  BY <1>1, <1>2, <1>3 DEF a, b

(* A frame of one chunk is its only part. *)
LEMMA OnlyPart ==
    ASSUME NEW f \in Frames, TotalChunks(f) = 1
    PROVE  PartsOf(f)[0] = f
<1>1. PartsOf(f)[0] = SubSeq(f, 0 * MaxPayload + 1, Cutoff(0 + 1, Len(f)))
  BY FrameFacts, PartFacts
<1>2. Cutoff(0 + 1, Len(f)) = Len(f)
  BY FrameFacts, Cuts DEF TotalChunks
<1>3. 0 * MaxPayload + 1 = 1
  BY ChunksAssumption
<1> QED
  BY <1>1, <1>2, <1>3, FrameFacts, SubSeqFull

(* A datagram of a frame. *)
LEMMA DatagramFacts ==
    ASSUME NEW f \in Frames, NEW d \in EncodeUdpChunks(f)
    PROVE  /\ d.type = f[1].type /\ d.id = f[1].id /\ d.frameLen = Len(f)
           /\ d.total = TotalChunks(f) /\ d.chunk \in 0..(TotalChunks(f) - 1)
           /\ d.slot = Slot(PartsOf(f), TotalChunks(f), d.chunk) /\ d.slot # NoSlot
           /\ d.slot.payload = PartsOf(f)[d.chunk]
           /\ d = [type |-> f[1].type, id |-> f[1].id, frameLen |-> Len(f), chunk |-> d.chunk,
                   total |-> TotalChunks(f), slot |-> d.slot]
<1>1. PICK i \in 0..(TotalChunks(f) - 1) :
        d = [type |-> f[1].type, id |-> f[1].id, frameLen |-> Len(f), chunk |-> i,
             total |-> TotalChunks(f), slot |-> Slot(PartsOf(f), TotalChunks(f), i)]
  BY DEF EncodeUdpChunks
<1>2. Slot(PartsOf(f), TotalChunks(f), i) # NoSlot
  BY ChunksAssumption
<1> DEFINE s == Slot(PartsOf(f), TotalChunks(f), i)
<1>3. s.payload = PartsOf(f)[i]
  BY DEF Slot
<1> HIDE DEF s
<1>4. /\ d.type = f[1].type /\ d.id = f[1].id /\ d.frameLen = Len(f) /\ d.chunk = i
      /\ d.total = TotalChunks(f) /\ d.slot = s
  BY <1>1 DEF s
<1> QED
  BY <1>1, <1>2, <1>3, <1>4 DEF s

(* The slots of a complete group hold chunks of frames of the group's      *)
(* shape, which need not be one frame.                                     *)
ShapedSlots(g, F) ==
    \A i \in 0..(g.total - 1) : \E f \in F :
        /\ Len(f) = g.frameLen /\ TotalChunks(f) = g.total
        /\ g.slots[i] = Slot(PartsOf(f), g.total, i)

(* Its assembled frame, cut again, has the payloads of the slots as parts. *)
LEMMA AssembledParts ==
    ASSUME NEW g, ShapedSlots(g, Frames), g.total \in Nat \ {0}
    PROVE  /\ Assembled(g) \in Seq(Cells) /\ Len(Assembled(g)) = g.frameLen
           /\ TotalChunks(Assembled(g)) = g.total
           /\ \A i \in 0..(g.total - 1) : PartsOf(Assembled(g))[i] = g.slots[i].payload
<1> DEFINE n == g.total
           len == g.frameLen
           seqs == [i \in 1..n |-> g.slots[i - 1].payload]
           all == FlattenSeq(seqs)
<1>1. len \in Nat \ {0} /\ n = (len + MaxPayload - 1) \div MaxPayload
  <2>1. PICK f \in Frames : Len(f) = len /\ TotalChunks(f) = n
    <3>1. 0 \in 0..(n - 1)
      OBVIOUS
    <3> QED
      BY <3>1 DEF ShapedSlots
  <2> QED
    BY <2>1, FrameFacts DEF TotalChunks
<1>2. ASSUME NEW i \in 1..n
      PROVE  /\ g.slots[i - 1].payload \in Seq(Cells)
             /\ Len(g.slots[i - 1].payload) = Cutoff(i, len) - (i - 1) * MaxPayload
  <2>1. i - 1 \in 0..(n - 1) /\ (i - 1) + 1 = i
    OBVIOUS
  <2>2. PICK f \in Frames : /\ Len(f) = len /\ TotalChunks(f) = n
                            /\ g.slots[i - 1] = Slot(PartsOf(f), n, i - 1)
    BY <2>1 DEF ShapedSlots
  <2>3. g.slots[i - 1].payload = PartsOf(f)[i - 1]
    BY <2>2 DEF Slot
  <2>4. f \in Seq(Cells) /\ Len(f) \in Nat \ {0}
    BY FrameFacts
  <2> DEFINE k == i - 1
  <2>5. k \in 0..(TotalChunks(f) - 1) /\ k + 1 = i
    BY <2>1, <2>2
  <2> HIDE DEF k
  <2>6. PartsOf(f)[k] \in Seq(Cells) /\ Len(PartsOf(f)[k]) = Cutoff(k + 1, Len(f)) - k * MaxPayload
    BY <2>4, <2>5, PartFacts
  <2> QED
    BY <2>2, <2>3, <2>5, <2>6 DEF k
<1>3. seqs \in Seq(Seq(Cells)) /\ Len(seqs) = n
  BY <1>1, <1>2
<1>4. \A i \in 1..n : seqs[i] = g.slots[i - 1].payload
  OBVIOUS
<1>5. Assembled(g) = SubSeq(all, 1, IF Len(all) < len THEN Len(all) ELSE len)
  BY DEF Assembled
<1> HIDE DEF seqs, n, len
<1>6. /\ all \in Seq(Cells) /\ Len(all) = len
      /\ \A j \in 1..n : SubSeq(all, (j - 1) * MaxPayload + 1, Cutoff(j, len)) = seqs[j]
  <2>1. \A i \in 1..Len(seqs) : Len(seqs[i]) = Cutoff(i, len) - (i - 1) * MaxPayload
    BY <1>2, <1>3, <1>4
  <2>2. Len(seqs) = (len + MaxPayload - 1) \div MaxPayload
    BY <1>1, <1>3
  <2> QED
    BY <1>1, <1>3, <2>1, <2>2, JoinAndCut
<1> HIDE DEF all
<1>7. Assembled(g) = all
  BY <1>1, <1>5, <1>6, SubSeqFull
<1>8. TotalChunks(all) = n
  BY <1>1, <1>6 DEF TotalChunks
<1>9. ASSUME NEW i \in 0..(n - 1) PROVE PartsOf(all)[i] = g.slots[i].payload
  <2> DEFINE j == i + 1
  <2>1. j \in 1..n /\ j - 1 = i
    BY DEF n
  <2>2. PartsOf(all)[i] = SubSeq(all, i * MaxPayload + 1, Cutoff(i + 1, len))
    BY <1>1, <1>6, <1>8, PartFacts
  <2> HIDE DEF j
  <2>3. SubSeq(all, (j - 1) * MaxPayload + 1, Cutoff(j, len)) = seqs[j] /\ seqs[j] = g.slots[j - 1].payload
    BY <1>4, <1>6, <2>1
  <2>4. SubSeq(all, i * MaxPayload + 1, Cutoff(j, len)) = g.slots[i].payload
    BY <2>1, <2>3
  <2> QED
    BY <2>2, <2>4 DEF j
<1> QED
  BY <1>6, <1>7, <1>8, <1>9 DEF n, len

(* A group that holds the parts of one frame assembles to that frame. *)
LEMMA AssembledWhole ==
    ASSUME NEW g, NEW f \in Frames, Len(f) = g.frameLen, TotalChunks(f) = g.total,
           \A i \in 0..(g.total - 1) : g.slots[i].payload = PartsOf(f)[i]
    PROVE  Assembled(g) = f
<1> DEFINE n == g.total
           seqs == [i \in 1..n |-> g.slots[i - 1].payload]
           all == FlattenSeq(seqs)
<1>1. n \in Nat \ {0} /\ f \in Seq(Cells) /\ f # <<>> /\ Len(f) \in Nat \ {0}
  BY FrameFacts
<1>2. ASSUME NEW i \in 1..n
      PROVE  /\ g.slots[i - 1].payload \in Seq(Cells)
             /\ g.slots[i - 1].payload
                  = SubSeq(f, (i - 1) * MaxPayload + 1, Cutoff(i, Len(f)))
  <2> DEFINE k == i - 1
  <2>1. k \in 0..(TotalChunks(f) - 1) /\ k \in 0..(n - 1) /\ k + 1 = i
    BY <1>1
  <2> HIDE DEF k
  <2>2. /\ PartsOf(f)[k] \in Seq(Cells)
        /\ PartsOf(f)[k] = SubSeq(f, k * MaxPayload + 1, Cutoff(k + 1, Len(f)))
    BY <1>1, <2>1, PartFacts
  <2> QED
    BY <2>1, <2>2 DEF k
<1>3. seqs \in Seq(Seq(Cells)) /\ Len(seqs) = n
  BY <1>1, <1>2
<1>4. \A i \in 1..Len(seqs) :
        seqs[i] = SubSeq(f, (i - 1) * MaxPayload + 1, Cutoff(i, Len(f)))
  <2>1. \A i \in 1..n : seqs[i] = g.slots[i - 1].payload
    OBVIOUS
  <2> QED
    BY <1>2, <1>3, <2>1
<1>5. Assembled(g) = SubSeq(all, 1, IF Len(all) < g.frameLen THEN Len(all) ELSE g.frameLen)
  BY DEF Assembled
<1> HIDE DEF seqs
<1>6. all = f
  BY <1>1, <1>3, <1>4, CutAndJoin
<1> QED
  BY <1>1, <1>5, <1>6, SubSeqFull

-----------------------------------------------------------------------------
(* The inductive invariants. *)

(* The frames that are sent are as many as the bound allows. *)
Bounded == IsFiniteSet(sent) /\ Cardinality(sent) <= MaxSends

(* A group was opened by a datagram that this reassembler has seen. *)
Opened == \A id \in Ids : groups[id] # NoGroup => \E d \in arrived : d.id = id

(* Nothing but chunks of f has arrived for the request that f answers. *)
Alone(f) == \A d \in arrived : d.id = f[1].id => d \in EncodeUdpChunks(f)

(* Then the chunks of f that have arrived are in the group of the request. *)
Held(f) ==
    Alone(f) /\ TotalChunks(f) # 1 =>
        \A d \in arrived : d.id = f[1].id =>
            /\ groups[d.id] # NoGroup /\ SameMetadata(groups[d.id], d)
            /\ groups[d.id].slots[d.chunk] = d.slot

(* CompleteIsDelivered, for a frame that may not have been sent. *)
Delivered(f) == Alone(f) /\ EncodeUdpChunks(f) \subseteq arrived => f \in got

IInv == TypeOK /\ Bounded /\ Opened /\ \A f \in Frames : Held(f) /\ Delivered(f)

(* A datagram on the wire is a chunk of a frame that was sent. *)
LEMMA WireFacts ==
    ASSUME TypeOK, NEW d \in net
    PROVE  \E f \in sent : f \in Frames /\ d \in EncodeUdpChunks(f)
BY DEF TypeOK

(* The group of d's request after DeliverChunk(d). *)
NewGroup(d) == [GroupFor(d) EXCEPT !.slots[d.chunk] = d.slot]

(* A chunk fills its own slot of the group and no other. *)
LEMMA NewGroupFacts ==
    ASSUME TypeOK, NEW d \in net, SameMetadata(GroupFor(d), d)
    PROVE  /\ NewGroup(d) = [type |-> d.type, frameLen |-> d.frameLen, total |-> d.total,
                             slots |-> NewGroup(d).slots]
           /\ DOMAIN NewGroup(d).slots = 0..(d.total - 1)
           /\ NewGroup(d).slots[d.chunk] = d.slot
           /\ \A i \in 0..(d.total - 1) : i # d.chunk =>
                NewGroup(d).slots[i] = IF groups[d.id] # NoGroup THEN groups[d.id].slots[i]
                                       ELSE NoSlot
<1>1. PICK f \in sent : f \in Frames /\ d \in EncodeUdpChunks(f)
  BY WireFacts
<1>2. d.id \in Ids /\ d.total \in Nat \ {0} /\ d.chunk \in 0..(d.total - 1)
  BY <1>1, FrameFacts, DatagramFacts
<1> DEFINE old == GroupFor(d)
           c == d.chunk
           x == d.slot
<1>3. /\ old = [type |-> d.type, frameLen |-> d.frameLen, total |-> d.total, slots |-> old.slots]
      /\ DOMAIN old.slots = 0..(d.total - 1)
      /\ \A i \in 0..(d.total - 1) :
            old.slots[i] = IF groups[d.id] # NoGroup THEN groups[d.id].slots[i] ELSE NoSlot
  <2>1. CASE groups[d.id] # NoGroup
    <3>1. old = groups[d.id] /\ GroupOK(old, d.id)
      BY <1>2, <2>1 DEF TypeOK, GroupFor
    <3> HIDE DEF old
    <3> QED
      BY <2>1, <3>1 DEF GroupOK, SameMetadata, old
  <2>2. CASE groups[d.id] = NoGroup
    <3> DEFINE sl == [i \in 0..(d.total - 1) |-> NoSlot]
    <3>1. old = [type |-> d.type, frameLen |-> d.frameLen, total |-> d.total, slots |-> sl]
      BY <2>2 DEF GroupFor
    <3>2. DOMAIN sl = 0..(d.total - 1) /\ \A i \in 0..(d.total - 1) : sl[i] = NoSlot
      OBVIOUS
    <3> HIDE DEF sl, old
    <3>3. old.slots = sl
      BY <3>1
    <3> QED
      BY <2>2, <3>1, <3>2, <3>3
  <2> QED
    BY <2>1, <2>2
<1> HIDE DEF old
<1>4. NewGroup(d) = [type |-> d.type, frameLen |-> d.frameLen, total |-> d.total,
                     slots |-> [old.slots EXCEPT ![c] = x]]
  BY <1>3 DEF NewGroup, old
<1>5. NewGroup(d).slots = [old.slots EXCEPT ![c] = x]
  BY <1>4
<1> QED
  BY <1>2, <1>3, <1>4, <1>5

(* Each chunk in that group has arrived. *)
LEMMA NewGroupArrived ==
    ASSUME TypeOK, NEW d \in net, SameMetadata(GroupFor(d), d),
           NEW i \in 0..(d.total - 1), NewGroup(d).slots[i] # NoSlot
    PROVE  \E e \in arrived \cup {d} :
              /\ e.id = d.id /\ SameMetadata(NewGroup(d), e)
              /\ e.chunk = i /\ e.slot = NewGroup(d).slots[i]
<1> DEFINE g == NewGroup(d)
<1>1. g.type = d.type /\ g.frameLen = d.frameLen /\ g.total = d.total /\ g.slots[d.chunk] = d.slot
  BY NewGroupFacts
<1>2. d.id \in Ids
  BY WireFacts, FrameFacts, DatagramFacts
<1>3. CASE i = d.chunk
  BY <1>1, <1>3 DEF SameMetadata
<1>4. CASE i # d.chunk
  <2>1. groups[d.id] # NoGroup /\ g.slots[i] = groups[d.id].slots[i]
    BY <1>4, NewGroupFacts
  <2>2. GroupOK(groups[d.id], d.id) /\ GroupFor(d) = groups[d.id]
    BY <1>2, <2>1 DEF TypeOK, GroupFor
  <2>3. SameMetadata(groups[d.id], d)
    BY <2>2
  <2>4. PICK e \in arrived : /\ e.id = d.id /\ SameMetadata(groups[d.id], e)
                             /\ e.chunk = i /\ e.slot = groups[d.id].slots[i]
    BY <2>1, <2>2, <2>3 DEF GroupOK, SameMetadata
  <2> QED
    BY <1>1, <2>1, <2>3, <2>4 DEF SameMetadata
<1> QED
  BY <1>3, <1>4

(* The reassembler is empty at first. *)
LEMMA TypeInit == Init => TypeOK
BY ChunksAssumption DEF Init, TypeOK

(* Every step keeps the groups well formed. *)
LEMMA TypeStep == TypeOK /\ [Next]_vars => TypeOK'
<1> SUFFICES ASSUME TypeOK, [Next]_vars PROVE TypeOK'
  OBVIOUS
<1>1. ASSUME NEW f \in Frames, Send(f) PROVE TypeOK'
  <2>1. net' = UNION {EncodeUdpChunks(x) : x \in sent'}
    BY <1>1 DEF Send, TypeOK
  <2>2. \A id \in Ids : groups[id] # NoGroup => GroupOK(groups[id], id)'
    BY <1>1 DEF Send, TypeOK, GroupOK, SameMetadata
  <2> QED
    BY <1>1, <2>1, <2>2 DEF Send, TypeOK
<1>2. ASSUME NEW d \in net, DeliverSingle(d) \/ DeliverMismatch(d) PROVE TypeOK'
  <2>1. /\ UNCHANGED <<sent, net, groups, expiries>> /\ arrived' = arrived \cup {d}
    BY <1>2 DEF DeliverSingle, DeliverMismatch
  <2>2. \A id \in Ids : groups[id] # NoGroup => GroupOK(groups[id], id)'
    BY <2>1 DEF TypeOK, GroupOK, SameMetadata
  <2> QED
    BY <2>1, <2>2 DEF TypeOK
<1>3. ASSUME NEW d \in net, DeliverChunk(d) PROVE TypeOK'
  <2>0. PICK g : g = NewGroup(d)
    OBVIOUS
  <2>1. /\ UNCHANGED <<sent, net, expiries>> /\ arrived' = arrived \cup {d}
        /\ groups' = [groups EXCEPT ![d.id] = g] /\ SameMetadata(GroupFor(d), d)
    BY <1>3, <2>0 DEF DeliverChunk, NewGroup
  <2>2. PICK f \in sent : f \in Frames /\ d \in EncodeUdpChunks(f)
    BY WireFacts
  <2>3. /\ d.id \in Ids /\ d.id = f[1].id /\ d.type = f[1].type
        /\ d.frameLen = Len(f) /\ d.total = TotalChunks(f)
    BY <2>2, FrameFacts, DatagramFacts
  <2>4. GroupOK(g, d.id)'
    <3>1. /\ g = [type |-> d.type, frameLen |-> d.frameLen, total |-> d.total, slots |-> g.slots]
          /\ DOMAIN g.slots = 0..(d.total - 1)
      BY <2>0, <2>1, NewGroupFacts
    <3>2. \A i \in 0..(d.total - 1) : g.slots[i] # NoSlot =>
             \E e \in arrived' : /\ e.id = d.id /\ SameMetadata(g, e)
                                 /\ e.chunk = i /\ e.slot = g.slots[i]
      BY <2>0, <2>1, NewGroupFacts, NewGroupArrived
    <3>3. g.type = d.type /\ g.frameLen = d.frameLen /\ g.total = d.total
      BY <3>1
    <3>4. \E x \in sent' : /\ x[1].id = d.id /\ x[1].type = g.type
                           /\ Len(x) = g.frameLen /\ TotalChunks(x) = g.total
      BY <2>1, <2>3, <3>3
    <3> QED
      BY <3>1, <3>2, <3>3, <3>4 DEF GroupOK, SameMetadata
  <2>5. \A id \in Ids : groups'[id] = IF id = d.id THEN g ELSE groups[id]
    BY <2>1 DEF TypeOK
  <2>6. (\A id \in Ids : groups[id] # NoGroup => GroupOK(groups[id], id))'
    <3> SUFFICES ASSUME NEW id \in Ids, (groups[id] # NoGroup)' PROVE GroupOK(groups[id], id)'
      BY DEF Ids
    <3>1. CASE id = d.id
      BY <2>4, <2>5, <3>1 DEF GroupOK, SameMetadata
    <3>2. CASE id # d.id
      <4>1. groups'[id] = groups[id] /\ GroupOK(groups[id], id)
        BY <2>5, <3>2 DEF TypeOK
      <4> QED
        BY <2>1, <4>1 DEF GroupOK, SameMetadata
    <3> QED
      BY <3>1, <3>2
  <2>7. /\ sent \subseteq Frames /\ net = UNION {EncodeUdpChunks(x) : x \in sent}
        /\ arrived \subseteq net /\ DOMAIN groups = Ids /\ expiries \in 0..MaxExpiries
    BY DEF TypeOK
  <2>8. DOMAIN groups' = Ids /\ arrived' \subseteq net'
    BY <2>1, <2>7
  <2> QED
    BY <2>1, <2>6, <2>7, <2>8 DEF TypeOK
<1>4. CASE Expire
  <2>1. /\ groups' = [id \in Ids |-> NoGroup] /\ arrived' = {} /\ expiries' \in 0..MaxExpiries
        /\ UNCHANGED <<sent, net>>
    BY <1>4, ChunksAssumption DEF Expire, TypeOK
  <2>2. DOMAIN groups' = Ids /\ \A id \in Ids : groups'[id] = NoGroup
    BY <2>1
  <2> QED
    BY <2>1, <2>2 DEF TypeOK
<1>5. CASE UNCHANGED vars
  BY <1>5 DEF vars, TypeOK, GroupOK, SameMetadata
<1> QED
  BY <1>1, <1>2, <1>3, <1>4, <1>5 DEF Next

(* The groups of the reassembler have the shape of frames that were sent,  *)
(* and hold nothing that did not arrive.                                   *)
THEOREM TypeCorrect == Spec => []TypeOK
<1> QED
  BY TypeInit, TypeStep, PTL DEF Spec

-----------------------------------------------------------------------------
(* The answers to one request that have the shape of d's frame. *)
Rivals(d) == {f \in sent : /\ f[1].id = d.id /\ f[1].type = d.type
                           /\ Len(f) = d.frameLen /\ TotalChunks(f) = d.total}

(* A complete group is filled from such answers. *)
LEMMA CompleteGroup ==
    ASSUME TypeOK, NEW d \in net, SameMetadata(GroupFor(d), d), IsComplete(NewGroup(d))
    PROVE  /\ d.total \in Nat \ {0}
           /\ NewGroup(d).type = d.type /\ NewGroup(d).frameLen = d.frameLen
           /\ NewGroup(d).total = d.total
           /\ \A i \in 0..(d.total - 1) :
                /\ \E f \in Rivals(d) : NewGroup(d).slots[i] = Slot(PartsOf(f), d.total, i)
                /\ \E e \in arrived \cup {d} :
                      e.id = d.id /\ e.chunk = i /\ e.slot = NewGroup(d).slots[i]
<1>1. PICK g : g = NewGroup(d)
  OBVIOUS
<1>2. g.type = d.type /\ g.frameLen = d.frameLen /\ g.total = d.total
  BY <1>1, NewGroupFacts
<1>3. d.total \in Nat \ {0}
  BY WireFacts, FrameFacts, DatagramFacts
<1>4. ASSUME NEW i \in 0..(d.total - 1)
      PROVE  /\ \E f \in Rivals(d) : g.slots[i] = Slot(PartsOf(f), d.total, i)
             /\ \E e \in arrived \cup {d} : e.id = d.id /\ e.chunk = i /\ e.slot = g.slots[i]
  <2>1. g.slots[i] # NoSlot
    BY <1>1, <1>2 DEF IsComplete
  <2>2. PICK e \in arrived \cup {d} : /\ e.id = d.id /\ SameMetadata(g, e)
                                      /\ e.chunk = i /\ e.slot = g.slots[i]
    BY <1>1, <2>1, NewGroupArrived
  <2>3. e \in net
    BY DEF TypeOK
  <2>4. PICK f \in sent : f \in Frames /\ e \in EncodeUdpChunks(f)
    BY <2>3, WireFacts
  <2>5. /\ e.type = f[1].type /\ e.id = f[1].id /\ e.frameLen = Len(f) /\ e.total = TotalChunks(f)
        /\ e.slot = Slot(PartsOf(f), TotalChunks(f), e.chunk)
    BY <2>4, DatagramFacts
  <2>6. f \in Rivals(d) /\ g.slots[i] = Slot(PartsOf(f), d.total, i)
    BY <1>2, <2>2, <2>5 DEF Rivals, SameMetadata
  <2> QED
    BY <2>2, <2>6
<1> QED
  BY <1>1, <1>2, <1>3, <1>4

(* A frame is completed only by chunks that this reassembler has seen: an  *)
(* incomplete group dies with it, and no chunk from before the deadline    *)
(* gets into a frame after it, whatever the number of chunks.              *)
THEOREM PartialDies == Spec => PartialDiesAtDeadline
<1> DEFINE Seen == \A f \in got' \ got : \A i \in DOMAIN PartsOf(f) :
                      \E d \in arrived' : /\ d.id = f[1].id /\ d.chunk = i
                                          /\ d.slot.payload = PartsOf(f)[i]
<1>1. TypeOK /\ [Next]_vars => [Seen]_vars
  <2> SUFFICES ASSUME TypeOK, Next, NEW f \in got' \ got, NEW i \in DOMAIN PartsOf(f)
               PROVE  \E d \in arrived' : /\ d.id = f[1].id /\ d.chunk = i
                                          /\ d.slot.payload = PartsOf(f)[i]
    OBVIOUS
  <2>1. ASSUME NEW d \in net, DeliverSingle(d)
        PROVE  \E e \in arrived' : /\ e.id = f[1].id /\ e.chunk = i
                                   /\ e.slot.payload = PartsOf(f)[i]
    <3>1. d.total = 1 /\ f = d.slot.payload /\ d \in arrived'
      BY <2>1 DEF DeliverSingle
    <3>2. PICK x \in Frames : d \in EncodeUdpChunks(x)
      BY WireFacts
    <3>3. /\ TotalChunks(x) = 1 /\ d.id = x[1].id
          /\ d.slot.payload = PartsOf(x)[d.chunk] /\ d.chunk = 0
      BY <3>1, <3>2, DatagramFacts
    <3>4. f = x /\ PartsOf(x)[0] = x
      BY <3>1, <3>3, OnlyPart
    <3>5. i = 0
      BY <3>3, <3>4 DEF PartsOf
    <3> QED
      BY <3>1, <3>3, <3>4, <3>5
  <2>2. ASSUME NEW d \in net, DeliverChunk(d)
        PROVE  \E e \in arrived' : /\ e.id = f[1].id /\ e.chunk = i
                                   /\ e.slot.payload = PartsOf(f)[i]
    <3>0. PICK g : g = NewGroup(d)
      OBVIOUS
    <3>1. /\ SameMetadata(GroupFor(d), d) /\ arrived' = arrived \cup {d}
          /\ f = Assembled(g) /\ Accepts(g, d.id)
      BY <2>2, <3>0 DEF DeliverChunk, NewGroup
    <3>2. /\ d.total \in Nat \ {0} /\ g.frameLen = d.frameLen /\ g.total = d.total
          /\ \A j \in 0..(d.total - 1) :
                /\ \E x \in Rivals(d) : g.slots[j] = Slot(PartsOf(x), d.total, j)
                /\ \E e \in arrived \cup {d} : e.id = d.id /\ e.chunk = j /\ e.slot = g.slots[j]
      BY <3>0, <3>1, CompleteGroup DEF Accepts
    <3>3. ShapedSlots(g, Frames) /\ g.total \in Nat \ {0}
      BY <3>2 DEF ShapedSlots, Rivals, TypeOK
    <3>4. /\ TotalChunks(f) = g.total
          /\ \A j \in 0..(g.total - 1) : PartsOf(f)[j] = g.slots[j].payload
      BY <3>1, <3>3, AssembledParts
    <3>5. i \in 0..(d.total - 1)
      BY <3>2, <3>4 DEF PartsOf
    <3>6. f[1].id = d.id
      BY <3>1 DEF Accepts, DecodesAs
    <3> QED
      BY <3>1, <3>2, <3>4, <3>5, <3>6
  <2>3. got' # got
    OBVIOUS
  <2> QED
    BY <2>1, <2>2, <2>3 DEF Next, Send, DeliverMismatch, Expire
<1> QED
  BY <1>1, TypeCorrect, PTL DEF Spec, PartialDiesAtDeadline

-----------------------------------------------------------------------------
(* Only Send adds a frame, and counts it. *)
LEMMA BoundedStep == Bounded /\ [Next]_vars => Bounded'
<1> SUFFICES ASSUME Bounded, [Next]_vars PROVE Bounded'
  OBVIOUS
<1>1. ASSUME NEW f \in Frames, Send(f) PROVE Bounded'
  <2>1. sent' = sent \cup {f} /\ f \notin sent /\ Cardinality(sent) < MaxSends
    BY <1>1 DEF Send
  <2>2. IsFiniteSet(sent') /\ Cardinality(sent') = Cardinality(sent) + 1
    BY <2>1, FS_AddElement DEF Bounded
  <2>3. Cardinality(sent) \in Nat
    BY FS_CardinalityType DEF Bounded
  <2> QED
    BY <2>1, <2>2, <2>3, ChunksAssumption DEF Bounded
<1>2. CASE UNCHANGED sent
  BY <1>2 DEF Bounded
<1> QED
  BY <1>1, <1>2 DEF Next, DeliverSingle, DeliverMismatch, DeliverChunk, Expire, vars

(* The frames are small enough for the number of times one is sent. *)
Unmixable ==
    \A f \in Frames : \/ TotalChunks(f) <= 3
                      \/ TotalChunks(f) = 4 /\ MaxSends <= 3
                      \/ TotalChunks(f) = 5 /\ MaxSends <= 2

(* Where the answers are of up to three chunks, or of four or five and few *)
(* enough, what comes out of the decoder was sent: chunks of two answers   *)
(* to one request never make a third.  The code does no better: two        *)
(* answers of six chunks, or three of five, can be mixed.                  *)
THEOREM NothingMixed == Unmixable => (Spec => []GotWasSent)
<1> SUFFICES ASSUME Unmixable PROVE Spec => []GotWasSent
  OBVIOUS
<1>1. Init => Bounded /\ GotWasSent
  BY FS_EmptySet, ChunksAssumption DEF Init, Bounded, GotWasSent
<1>2. TypeOK /\ Bounded /\ GotWasSent /\ [Next]_vars => GotWasSent'
  <2> SUFFICES ASSUME TypeOK, Bounded, GotWasSent, [Next]_vars, got' # got PROVE GotWasSent'
    BY DEF GotWasSent, Next, Send, DeliverSingle, DeliverMismatch, DeliverChunk, Expire, vars
  <2>1. ASSUME NEW d \in net, DeliverSingle(d) PROVE GotWasSent'
    <3>1. d.total = 1 /\ got' = got \cup {d.slot.payload} /\ sent' = sent
      BY <2>1 DEF DeliverSingle
    <3>2. PICK x \in sent : x \in Frames /\ d \in EncodeUdpChunks(x)
      BY WireFacts
    <3>3. /\ TotalChunks(x) = 1 /\ d.slot.payload = PartsOf(x)[d.chunk] /\ d.chunk = 0
      BY <3>1, <3>2, DatagramFacts
    <3>4. d.slot.payload = x
      BY <3>2, <3>3, OnlyPart
    <3> QED
      BY <3>1, <3>4 DEF GotWasSent
  <2>2. ASSUME NEW d \in net, DeliverChunk(d) PROVE GotWasSent'
    <3>0. PICK g : g = NewGroup(d)
      OBVIOUS
    <3>1. /\ SameMetadata(GroupFor(d), d) /\ sent' = sent
          /\ got' = got \cup {Assembled(g)} /\ Accepts(g, d.id)
      BY <2>2, <3>0 DEF DeliverChunk, NewGroup
    <3>2. /\ d.total \in Nat \ {0} /\ g.frameLen = d.frameLen /\ g.total = d.total
          /\ \A j \in 0..(d.total - 1) :
                \E x \in Rivals(d) : g.slots[j] = Slot(PartsOf(x), d.total, j)
      BY <3>0, <3>1, CompleteGroup DEF Accepts
    <3> DEFINE G == Rivals(d)
               parts == [x \in G |-> PartsOf(x)]
               n == d.total
    <3>3. G \subseteq sent /\ G \subseteq Frames
          /\ \A x \in G : Len(x) = d.frameLen /\ TotalChunks(x) = n
      BY DEF Rivals, TypeOK
    <3>4. parts \in [G -> [0..(n - 1) -> Parts]]
      BY <3>3, FrameFacts
    <3>5. FilledFrom(g.slots, n, G, parts)
      BY <3>2 DEF FilledFrom
    <3>6. KeptApart(n, G)
      <4>1. PICK x \in G : TotalChunks(x) = n
        BY <3>2, <3>3, 0 \in 0..(d.total - 1)
      <4>2. IsFiniteSet(G) /\ Cardinality(G) <= Cardinality(sent)
        BY <3>3, FS_Subset DEF Bounded
      <4>3. Cardinality(G) \in Nat /\ Cardinality(sent) \in Nat
        BY <4>2, FS_CardinalityType DEF Bounded
      <4>4. Cardinality(G) <= MaxSends
        BY <4>2, <4>3, ChunksAssumption DEF Bounded
      <4>5. x \in Frames
        BY <3>3
      <4> HIDE DEF G
      <4>6. n <= 3 \/ (n = 4 /\ MaxSends <= 3) \/ (n = 5 /\ MaxSends <= 2)
        BY <4>1, <4>5, Unmixable DEF Unmixable
      <4> QED
        BY <4>2, <4>3, <4>4, <4>6, ChunksAssumption DEF KeptApart
    <3>7. VerifyAll(g.slots, n)
      BY <3>1, <3>2 DEF Accepts
    <3> HIDE DEF parts, G, n
    <3>8. PICK x \in G : \A j \in 0..(n - 1) : g.slots[j].payload = parts[x][j]
      <4>1. n \in Nat \ {0}
        BY <3>2 DEF n
      <4> QED
        BY <3>4, <3>5, <3>6, <3>7, <4>1, FewChunksCannotMix
    <3>9. parts[x] = PartsOf(x) /\ x \in Frames /\ x \in sent /\ Len(x) = g.frameLen
          /\ TotalChunks(x) = g.total
      BY <3>2, <3>3 DEF parts, n
    <3>10. \A j \in 0..(g.total - 1) : g.slots[j].payload = PartsOf(x)[j]
      BY <3>2, <3>8, <3>9 DEF n
    <3>11. Assembled(g) = x
      BY <3>9, <3>10, AssembledWhole
    <3> QED
      BY <3>1, <3>9, <3>11 DEF GotWasSent
  <2> QED
    BY <2>1, <2>2 DEF Next, Send, DeliverMismatch, Expire, vars
<1> QED
  BY <1>1, <1>2, TypeCorrect, BoundedStep, PTL DEF Spec

-----------------------------------------------------------------------------
(* A chunk of a frame is known by its number. *)
LEMMA SameChunk ==
    ASSUME NEW f \in Frames, NEW d \in EncodeUdpChunks(f), NEW e \in EncodeUdpChunks(f),
           d.chunk = e.chunk
    PROVE  d = e
<1>1. d.slot = e.slot
  BY DatagramFacts
<1> QED
  BY <1>1, DatagramFacts

(* A chunk of f arrives for a request that nothing else has arrived for:   *)
(* the group takes it, and keeps what it had.                              *)
LEMMA AloneKeeps ==
    ASSUME TypeOK, Opened, NEW f \in Frames, Held(f), Alone(f), TotalChunks(f) # 1,
           NEW d \in EncodeUdpChunks(f), d \in net
    PROVE  /\ SameMetadata(GroupFor(d), d)
           /\ \A e \in arrived \cup {d} : e.id = f[1].id =>
                /\ e \in EncodeUdpChunks(f) /\ SameMetadata(NewGroup(d), e)
                /\ NewGroup(d).slots[e.chunk] = e.slot
<1>1. /\ d.type = f[1].type /\ d.id = f[1].id /\ d.frameLen = Len(f)
      /\ d.total = TotalChunks(f)
  BY DatagramFacts
<1>2. d.id \in Ids
  BY <1>1, FrameFacts
<1>3. SameMetadata(GroupFor(d), d)
  <2>1. CASE groups[d.id] # NoGroup
    <3>1. PICK e \in arrived : e.id = d.id
      BY <1>2, <2>1 DEF Opened
    <3>2. e \in EncodeUdpChunks(f) /\ SameMetadata(groups[d.id], e)
      BY <1>1, <3>1 DEF Alone, Held
    <3>3. e.type = d.type /\ e.frameLen = d.frameLen /\ e.total = d.total
      BY <1>1, <3>2, DatagramFacts
    <3> QED
      BY <2>1, <3>2, <3>3 DEF SameMetadata, GroupFor
  <2>2. CASE groups[d.id] = NoGroup
    BY <2>2 DEF SameMetadata, GroupFor
  <2> QED
    BY <2>1, <2>2
<1>4. ASSUME NEW e \in arrived \cup {d}, e.id = f[1].id
      PROVE  /\ e \in EncodeUdpChunks(f) /\ SameMetadata(NewGroup(d), e)
             /\ NewGroup(d).slots[e.chunk] = e.slot
  <2>1. e \in EncodeUdpChunks(f)
    BY <1>4 DEF Alone
  <2>2. e.type = d.type /\ e.frameLen = d.frameLen /\ e.total = d.total
        /\ e.chunk \in 0..(d.total - 1)
    BY <1>1, <2>1, DatagramFacts
  <2>3. SameMetadata(NewGroup(d), e)
    <3>1. NewGroup(d).type = d.type /\ NewGroup(d).frameLen = d.frameLen /\ NewGroup(d).total = d.total
      BY <1>3, NewGroupFacts
    <3> QED
      BY <2>2, <3>1 DEF SameMetadata
  <2>4. CASE e.chunk = d.chunk
    <3>1. e = d
      BY <2>1, <2>4, SameChunk
    <3> QED
      BY <1>3, <2>1, <2>3, <3>1, NewGroupFacts
  <2>5. CASE e.chunk # d.chunk
    <3>1. e \in arrived
      BY <2>5
    <3>2. groups[d.id] # NoGroup /\ groups[d.id].slots[e.chunk] = e.slot
      BY <1>1, <1>4, <3>1 DEF Held
    <3>3. NewGroup(d).slots[e.chunk] = groups[d.id].slots[e.chunk]
      BY <1>3, <2>2, <2>5, <3>2, NewGroupFacts
    <3> QED
      BY <2>1, <2>3, <3>2, <3>3
  <2> QED
    BY <2>4, <2>5
<1> QED
  BY <1>3, <1>4

(* When the last chunk of f is there, the group is accepted and is f. *)
LEMMA WholeIsAccepted ==
    ASSUME TypeOK, Opened, NEW f \in Frames, Held(f), Alone(f), TotalChunks(f) # 1,
           NEW d \in EncodeUdpChunks(f), d \in net, EncodeUdpChunks(f) \subseteq arrived \cup {d}
    PROVE  Accepts(NewGroup(d), d.id) /\ Assembled(NewGroup(d)) = f
<1> DEFINE n == TotalChunks(f)
           parts == PartsOf(f)
<1>1. /\ d.type = f[1].type /\ d.id = f[1].id /\ d.frameLen = Len(f) /\ d.total = n
  BY DatagramFacts
<1>2. n \in Nat \ {0} /\ parts \in [0..(n - 1) -> Parts] /\ DecodesAs(f, f[1].type, f[1].id)
  BY FrameFacts
<1>3. PICK g : g = NewGroup(d)
  OBVIOUS
<1>4. g.type = d.type /\ g.frameLen = d.frameLen /\ g.total = d.total
  BY <1>3, AloneKeeps, NewGroupFacts
<1>5. ASSUME NEW i \in 0..(n - 1)
      PROVE  g.slots[i] = Slot(parts, n, i) /\ g.slots[i] # NoSlot /\ g.slots[i].payload = parts[i]
  <2>1. PICK e \in EncodeUdpChunks(f) : e.chunk = i
    <3> DEFINE x == [type |-> f[1].type, id |-> f[1].id, frameLen |-> Len(f), chunk |-> i,
                     total |-> n, slot |-> Slot(parts, n, i)]
    <3>1. x \in EncodeUdpChunks(f) /\ x.chunk = i
      BY DEF EncodeUdpChunks
    <3> QED
      BY <3>1
  <2>2. /\ e.id = f[1].id /\ e.slot = Slot(parts, n, i) /\ e.slot # NoSlot
        /\ e.slot.payload = parts[i]
    BY <2>1, DatagramFacts
  <2>3. g.slots[i] = e.slot
    BY <1>3, <2>1, <2>2, AloneKeeps
  <2> QED
    BY <2>2, <2>3
<1>6. IsComplete(g)
  BY <1>1, <1>4, <1>5 DEF IsComplete
<1>7. VerifyAll(g.slots, g.total)
  <2> DEFINE one == [i \in 0..(n - 1) |-> Slot(parts, n, i)]
  <2>1. VerifyAll(one, n)
    BY <1>2, OneFrameVerifies
  <2>2. \A i \in 0..(n - 1) : g.slots[i] = one[i]
    BY <1>5
  <2>3. \A i \in 0..(n - 1) : Before(i, n) \in 0..(n - 1) /\ After(i, n) \in 0..(n - 1)
    BY <1>2 DEF Before, After
  <2> HIDE DEF one, n
  <2>4. VerifyAll(g.slots, n)
    BY <2>1, <2>2, <2>3 DEF VerifyAll
  <2> QED
    BY <1>1, <1>4, <2>4
<1>8. Assembled(g) = f
  BY <1>1, <1>4, <1>5, AssembledWhole
<1> QED
  BY <1>1, <1>2, <1>3, <1>4, <1>6, <1>7, <1>8 DEF Accepts

(* What arrives for another request does not touch this one. *)
LEMMA OtherRequest ==
    ASSUME NEW f \in Frames, NEW d, d.id # f[1].id, Held(f), Delivered(f),
           arrived' = arrived \cup {d}, got \subseteq got', groups'[f[1].id] = groups[f[1].id]
    PROVE  Held(f)' /\ Delivered(f)'
<1>1. Alone(f)' => Alone(f)
  BY DEF Alone
<1>2. d \notin EncodeUdpChunks(f)
  BY DatagramFacts
<1>3. Delivered(f)'
  BY <1>1, <1>2 DEF Delivered
<1>4. Held(f)'
  BY <1>1 DEF Held, SameMetadata
<1> QED
  BY <1>3, <1>4

(* The datagram that completes a frame delivers it. *)
LEMMA DeliveredStep ==
    ASSUME TypeOK, Opened, [Next]_vars, NEW f \in Frames, Held(f), Delivered(f)
    PROVE  Held(f)' /\ Delivered(f)'
<1>0. f[1].id \in Ids /\ TotalChunks(f) \in Nat \ {0}
  BY FrameFacts
<1>1. ASSUME NEW x \in Frames, Send(x) PROVE Held(f)' /\ Delivered(f)'
  BY <1>1 DEF Send, Held, Delivered, Alone, SameMetadata
<1>2. ASSUME NEW d \in net, DeliverSingle(d) PROVE Held(f)' /\ Delivered(f)'
  <2>1. /\ d.total = 1 /\ arrived' = arrived \cup {d} /\ groups' = groups /\ got \subseteq got'
    BY <1>2 DEF DeliverSingle
  <2>2. CASE d.id = f[1].id
    <3> SUFFICES ASSUME Alone(f)' PROVE Held(f)' /\ Delivered(f)'
      BY DEF Held, Delivered
    <3>1. d \in EncodeUdpChunks(f)
      BY <2>1, <2>2 DEF Alone
    <3>2. TotalChunks(f) = 1 /\ d.chunk = 0 /\ d.slot = Slot(PartsOf(f), 1, 0)
          /\ d.type = f[1].type
      BY <2>1, <3>1, DatagramFacts
    <3>3. PartsOf(f)[0] = f
      BY <3>2, OnlyPart
    <3>4. SingleOk(d) /\ d.slot.payload = f
      <4>1. /\ d.slot.payload = f /\ d.slot.prev = Checksum(f) /\ d.slot.next = Checksum(f)
        BY <3>2, <3>3 DEF Slot, Before, After
      <4> QED
        BY <2>2, <3>2, <4>1, FrameFacts DEF SingleOk
    <3>5. f \in got'
      BY <1>2, <3>4 DEF DeliverSingle
    <3> QED
      BY <3>2, <3>5 DEF Held, Delivered
  <2>3. CASE d.id # f[1].id
    BY <2>1, <2>3, OtherRequest
  <2> QED
    BY <2>2, <2>3
<1>3. ASSUME NEW d \in net, DeliverMismatch(d) PROVE Held(f)' /\ Delivered(f)'
  <2>1. /\ d.total # 1 /\ ~SameMetadata(GroupFor(d), d) /\ arrived' = arrived \cup {d}
        /\ groups' = groups /\ got' = got
    BY <1>3 DEF DeliverMismatch
  <2>2. CASE d.id = f[1].id
    <3> SUFFICES ASSUME Alone(f)' PROVE FALSE
      BY DEF Held, Delivered
    <3>1. d \in EncodeUdpChunks(f) /\ Alone(f)
      BY <2>1, <2>2 DEF Alone
    <3>2. TotalChunks(f) # 1
      BY <2>1, <3>1, DatagramFacts
    <3> QED
      BY <2>1, <3>1, <3>2, AloneKeeps
  <2>3. CASE d.id # f[1].id
    BY <2>1, <2>3, OtherRequest
  <2> QED
    BY <2>2, <2>3
<1>4. ASSUME NEW d \in net, DeliverChunk(d) PROVE Held(f)' /\ Delivered(f)'
  <2>1. /\ d.total # 1 /\ arrived' = arrived \cup {d} /\ got \subseteq got'
        /\ groups' = [groups EXCEPT ![d.id] = NewGroup(d)]
        /\ Accepts(NewGroup(d), d.id) => Assembled(NewGroup(d)) \in got'
    BY <1>4 DEF DeliverChunk, NewGroup
  <2>2. CASE d.id = f[1].id
    <3> SUFFICES ASSUME Alone(f)' PROVE Held(f)' /\ Delivered(f)'
      BY DEF Held, Delivered
    <3>1. d \in EncodeUdpChunks(f) /\ Alone(f)
      BY <2>1, <2>2 DEF Alone
    <3>2. TotalChunks(f) # 1
      BY <2>1, <3>1, DatagramFacts
    <3>3. PICK g : g = NewGroup(d)
      OBVIOUS
    <3>4. \A e \in arrived \cup {d} : e.id = f[1].id =>
            /\ e \in EncodeUdpChunks(f) /\ SameMetadata(g, e) /\ g.slots[e.chunk] = e.slot
      BY <3>1, <3>2, <3>3, AloneKeeps
    <3>5. groups'[f[1].id] = g
      BY <1>0, <2>1, <2>2, <3>3 DEF TypeOK
    <3>6. g # NoGroup
      <4>1. g.total = d.total /\ d.total \in Nat \ {0}
        BY <1>0, <2>2, <3>1, <3>4, DatagramFacts DEF SameMetadata
      <4>2. NoGroup.total = 0
        BY DEF NoGroup
      <4> QED
        BY <4>1, <4>2
    <3>7. Held(f)'
      BY <2>1, <3>4, <3>5, <3>6 DEF Held, SameMetadata
    <3>8. Delivered(f)'
      <4> SUFFICES ASSUME EncodeUdpChunks(f) \subseteq arrived' PROVE f \in got'
        BY DEF Delivered
      <4>1. Accepts(NewGroup(d), d.id) /\ Assembled(NewGroup(d)) = f
        BY <2>1, <3>1, <3>2, WholeIsAccepted
      <4> QED
        BY <2>1, <4>1
    <3> QED
      BY <3>7, <3>8
  <2>3. CASE d.id # f[1].id
    <3>1. groups'[f[1].id] = groups[f[1].id]
      BY <1>0, <2>1, <2>3 DEF TypeOK
    <3> QED
      BY <2>1, <2>3, <3>1, OtherRequest
  <2> QED
    BY <2>2, <2>3
<1>5. CASE Expire
  <2>1. arrived' = {}
    BY <1>5 DEF Expire
  <2>2. EncodeUdpChunks(f) # {}
    BY <1>0, 0 \in 0..(TotalChunks(f) - 1) DEF EncodeUdpChunks
  <2> QED
    BY <2>1, <2>2 DEF Held, Delivered
<1>6. CASE UNCHANGED vars
  BY <1>6 DEF vars, Held, Delivered, Alone, SameMetadata
<1> QED
  BY <1>1, <1>2, <1>3, <1>4, <1>5, <1>6 DEF Next

(* A group is opened by the datagram that arrives. *)
LEMMA OpenedStep == TypeOK /\ Opened /\ [Next]_vars => Opened'
<1> SUFFICES ASSUME TypeOK, Opened, [Next]_vars, NEW id \in Ids, groups'[id] # NoGroup
             PROVE  \E d \in arrived' : d.id = id
  BY DEF Opened, Ids
<1>1. ASSUME NEW d \in net, DeliverChunk(d) PROVE \E e \in arrived' : e.id = id
  <2>1. arrived' = arrived \cup {d} /\ groups' = [groups EXCEPT ![d.id] = NewGroup(d)]
    BY <1>1 DEF DeliverChunk, NewGroup
  <2> QED
    BY <2>1 DEF Opened, TypeOK
<1>2. CASE Expire
  BY <1>2 DEF Expire
<1>3. CASE UNCHANGED groups /\ arrived \subseteq arrived'
  BY <1>3 DEF Opened
<1> QED
  BY <1>1, <1>2, <1>3 DEF Next, Send, DeliverSingle, DeliverMismatch, vars

(* A frame of any number of chunks, all of which arrived within one        *)
(* deadline with no chunk of another frame for its request among them, has *)
(* been delivered: UdpFrameReassembler does not depend on the order or the *)
(* repetitions.                                                            *)
THEOREM CompleteDelivered == Spec => []CompleteIsDelivered
<1>1. Init => IInv
  <2> SUFFICES ASSUME Init PROVE IInv
    OBVIOUS
  <2>1. ASSUME NEW f \in Frames PROVE Held(f) /\ Delivered(f)
    <3>1. EncodeUdpChunks(f) # {}
      BY FrameFacts, 0 \in 0..(TotalChunks(f) - 1) DEF EncodeUdpChunks
    <3> QED
      BY <3>1 DEF Init, Held, Delivered
  <2>2. Bounded /\ Opened
    BY FS_EmptySet, ChunksAssumption DEF Init, Bounded, Opened
  <2> QED
    BY <2>1, <2>2, TypeInit DEF IInv
<1>2. IInv /\ [Next]_vars => IInv'
  <2> SUFFICES ASSUME IInv, [Next]_vars PROVE IInv'
    OBVIOUS
  <2>1. TypeOK' /\ Bounded' /\ Opened'
    BY TypeStep, BoundedStep, OpenedStep DEF IInv
  <2>2. \A f \in Frames : Held(f)' /\ Delivered(f)'
    BY DeliveredStep DEF IInv
  <2> QED
    BY <2>1, <2>2 DEF IInv
<1>3. IInv => CompleteIsDelivered
  BY DEF IInv, TypeOK, CompleteIsDelivered, Delivered, Alone
<1> QED
  BY <1>1, <1>2, <1>3, PTL DEF Spec
============================================================================
