--------------------------- MODULE SendQueueProofs ---------------------------
(***************************************************************************)
(* What the operations of SendQueue return, for every queue: the lemmas    *)
(* the proofs about the worker rest on.  All of them select entries by     *)
(* their positions (Pick); an entry's place in the selection is its Rank.  *)
(* The second half is what the refinement of Outbox needs: how selections  *)
(* join, when one is a thinning of another, and where entries stand after  *)
(* an upsert and after a batch has been put back.                          *)
(***************************************************************************)
EXTENDS SendQueue, TLAPS, FiniteSetTheorems, FunctionTheorems, SequenceTheorems

\* How many positions of I come before i.
Rank(I, i) == Cardinality({h \in I : h < i})

\* Ranks are numbers below the size of the set, and grow with the position.
LEMMA RankGrows ==
  ASSUME NEW N \in Nat, NEW I \in SUBSET (1 .. N)
  PROVE  /\ IsFiniteSet(I) /\ Cardinality(I) \in Nat
         /\ \A i \in I : Rank(I, i) \in 0 .. Cardinality(I) - 1
         /\ \A i, j \in I : i < j => Rank(I, i) < Rank(I, j)
<1>1. IsFiniteSet(1 .. N)
  BY FS_Interval
<1>2. \A A \in SUBSET I : IsFiniteSet(A) /\ Cardinality(A) \in Nat
  BY <1>1, FS_Subset, FS_CardinalityType
<1>3. ASSUME NEW A \in SUBSET I, NEW B \in SUBSET I, NEW x \in B, x \notin A, A \subseteq B
      PROVE  Cardinality(A) < Cardinality(B)
  <2>1. Cardinality(A) <= Cardinality(B) /\ (Cardinality(B) = Cardinality(A) => B = A)
    BY <1>2, <1>3, FS_Subset
  <2>2. A # B
    BY <1>3
  <2>. QED  BY <1>2, <2>1, <2>2
<1>4. ASSUME NEW i \in I
      PROVE  Rank(I, i) \in 0 .. Cardinality(I) - 1
  <2>. DEFINE B == {h \in I : h < i}
  <2>1. Cardinality(B) < Cardinality(I)
    BY <1>3
  <2>2. Cardinality(B) \in Nat /\ Cardinality(I) \in Nat
    BY <1>2
  <2>. QED  BY <2>1, <2>2 DEF Rank
<1>5. ASSUME NEW i \in I, NEW j \in I, i < j
      PROVE  Rank(I, i) < Rank(I, j)
  <2>. DEFINE A == {h \in I : h < i}
              B == {h \in I : h < j}
  <2>0. I \subseteq Int
    OBVIOUS
  <2>1. A \subseteq B /\ i \in B /\ i \notin A
    <3>1. \A h \in I : h < i => h < j
      BY <1>5, <2>0
    <3>2. ~(i < i)
      BY <2>0
    <3>. QED  BY <1>5, <3>1, <3>2
  <2>2. Cardinality(A) < Cardinality(B)
    BY <1>3, <2>1
  <2>. QED  BY <2>2 DEF Rank
<1>. QED  BY <1>2, <1>4, <1>5

\* Every number below the size of I is the rank of one of its positions.
LEMMA RankCovers ==
  ASSUME NEW N \in Nat, NEW I \in SUBSET (1 .. N), NEW n \in 1 .. Cardinality(I)
  PROVE  \E i \in I : Rank(I, i) = n - 1
<1>. DEFINE c == Cardinality(I)
            T == 0 .. c - 1
            r == [i \in I |-> Rank(I, i)]
<1>1. /\ IsFiniteSet(I) /\ c \in Nat
      /\ \A i \in I : Rank(I, i) \in T
      /\ \A i, j \in I : i < j => Rank(I, i) < Rank(I, j)
  BY RankGrows
<1>2. \A i, j \in I : Rank(I, i) = Rank(I, j) => i = j
  <2>. SUFFICES ASSUME NEW i \in I, NEW j \in I, i # j
                PROVE  Rank(I, i) # Rank(I, j)
    OBVIOUS
  <2>1. i \in Int /\ j \in Int /\ Rank(I, i) \in Int /\ Rank(I, j) \in Int
    BY <1>1
  <2>2. i < j \/ j < i
    BY <2>1
  <2>. QED  BY <1>1, <2>1, <2>2
<1>3. IsFiniteSet(T) /\ Cardinality(T) = c
  <2>1. c \in Int /\ c - 1 \in Int /\ 0 \in Int
    BY <1>1
  <2>2. IsFiniteSet(T) /\ Cardinality(T) = IF 0 > c - 1 THEN 0 ELSE (c - 1) - 0 + 1
    BY <2>1, FS_Interval
  <2>. QED  BY <1>1, <2>2
<1>4. r \in [I -> T]
  BY <1>1
<1>5. r \in Injection(I, T)
  BY <1>2, <1>4, Fun_IsInj
<1>6. r \in Surjection(I, T)
  BY <1>3, <1>5, FS_Injection
<1>7. n - 1 \in T
  BY <1>1
<1>8. PICK i \in I : r[i] = n - 1
  <2>. HIDE DEF r, T
  <2>1. \A t \in T : \E i \in I : r[i] = t
    BY <1>6, Fun_SurjectionProperties
  <2>. QED  BY <1>7, <2>1
<1>. QED  BY <1>8

\* A subsequence by positions: its length, and where each entry comes from.
LEMMA PickFacts ==
  ASSUME NEW S, NEW s \in Seq(S), NEW I \in SUBSET (DOMAIN s)
  PROVE  /\ Pick(s, I) \in Seq(S)
         /\ Cardinality(I) \in Nat /\ Len(Pick(s, I)) = Cardinality(I)
         /\ \A n \in 1 .. Cardinality(I) :
              \E i \in I : Rank(I, i) = n - 1 /\ Pick(s, I)[n] = s[i]
<1>. DEFINE c == Cardinality(I)
            at(n) == CHOOSE i \in I : Rank(I, i) = n - 1
            f == [n \in 1 .. c |-> s[at(n)]]
<1>1. Len(s) \in Nat /\ DOMAIN s = 1 .. Len(s) /\ s \in [1 .. Len(s) -> S]
  BY LenProperties
<1>2. c \in Nat
  BY <1>1, RankGrows
<1>3. \A n \in 1 .. c : at(n) \in I /\ Rank(I, at(n)) = n - 1
  BY <1>1, RankCovers
<1>4. Pick(s, I) = f
  BY DEF Pick, Rank
<1>. HIDE DEF at
<1>5. \A n \in 1 .. c : s[at(n)] \in S
  BY <1>1, <1>3
<1>6. f \in [1 .. c -> S]
  BY <1>5
<1>7. f \in Seq(S) /\ Len(f) = c
  BY <1>2, <1>6
<1>. QED  BY <1>2, <1>3, <1>4, <1>7

-----------------------------------------------------------------------------
\* No id of D occurs twice in s.
Distinct(s, D) == \A i, j \in DOMAIN s : s[i] = s[j] /\ s[i] \in D => i = j

\* A subsequence is as free of repetitions as its positions are.
LEMMA PickDistinct ==
  ASSUME NEW S, NEW s \in Seq(S), NEW I \in SUBSET (DOMAIN s), NEW D,
         \A i, j \in I : s[i] = s[j] /\ s[i] \in D => i = j
  PROVE  Distinct(Pick(s, I), D)
<1>. DEFINE t == Pick(s, I)
<1>1. /\ t \in Seq(S) /\ Cardinality(I) \in Nat /\ Len(t) = Cardinality(I)
      /\ \A n \in 1 .. Cardinality(I) : \E i \in I : Rank(I, i) = n - 1 /\ t[n] = s[i]
  BY PickFacts
<1>2. DOMAIN t = 1 .. Cardinality(I)
  BY <1>1, LenProperties
<1>. HIDE DEF t
<1>3. ASSUME NEW m \in DOMAIN t, NEW n \in DOMAIN t, t[m] = t[n], t[m] \in D
      PROVE  m = n
  <2>1. PICK i \in I : Rank(I, i) = m - 1 /\ t[m] = s[i]
    BY <1>1, <1>2
  <2>2. PICK j \in I : Rank(I, j) = n - 1 /\ t[n] = s[j]
    BY <1>1, <1>2
  <2>3. i = j
    BY <1>3, <2>1, <2>2
  <2>. QED  BY <1>1, <1>2, <2>1, <2>2, <2>3
<1>. QED  BY <1>3 DEF Distinct, t

\* Thinning a queue: its type, what is left, and no new repetition.
LEMMA CompactFacts ==
  ASSUME NEW S, NEW s \in Seq(S), NEW L, NEW D
  PROVE  /\ Compact(s, L) \in Seq(S)
         /\ Elements(Compact(s, L)) \subseteq L \cap Elements(s)
         /\ Distinct(s, D) => Distinct(Compact(s, L), D)
<1>. DEFINE I == {i \in DOMAIN s : s[i] \in L}
            t == Pick(s, I)
<1>1. /\ t \in Seq(S) /\ Cardinality(I) \in Nat /\ Len(t) = Cardinality(I)
      /\ \A n \in 1 .. Cardinality(I) : \E i \in I : t[n] = s[i]
  <2>0. I \in SUBSET (DOMAIN s)
    OBVIOUS
  <2>. HIDE DEF I
  <2>. QED  BY <2>0, PickFacts
<1>2. DOMAIN t = 1 .. Cardinality(I)
  BY <1>1, LenProperties
<1>3. Elements(t) \subseteq L \cap Elements(s)
  BY <1>1, <1>2 DEF Elements
<1>4. Distinct(s, D) => Distinct(t, D)
  <2>. SUFFICES ASSUME Distinct(s, D)
                PROVE  Distinct(t, D)
    OBVIOUS
  <2>1. \A i, j \in I : s[i] = s[j] /\ s[i] \in D => i = j
    BY DEF Distinct
  <2>. QED  BY <2>1, PickDistinct
<1>. QED  BY <1>1, <1>3, <1>4 DEF Compact

\* Thinning a batch to the first entry of each live id: no repetition is left.
LEMMA CompactUniqueFacts ==
  ASSUME NEW S, NEW s \in Seq(S), NEW L, NEW D
  PROVE  /\ CompactUnique(s, L) \in Seq(S)
         /\ Elements(CompactUnique(s, L)) \subseteq L \cap Elements(s)
         /\ Distinct(CompactUnique(s, L), D)
<1>. DEFINE I == {i \in DOMAIN s : s[i] \in L /\ \A h \in 1 .. i - 1 : s[h] # s[i]}
            t == Pick(s, I)
<1>1. /\ t \in Seq(S) /\ Cardinality(I) \in Nat /\ Len(t) = Cardinality(I)
      /\ \A n \in 1 .. Cardinality(I) : \E i \in I : t[n] = s[i]
  <2>0. I \in SUBSET (DOMAIN s)
    OBVIOUS
  <2>. HIDE DEF I
  <2>. QED  BY <2>0, PickFacts
<1>2. DOMAIN t = 1 .. Cardinality(I)
  BY <1>1, LenProperties
<1>3. Elements(t) \subseteq L \cap Elements(s)
  BY <1>1, <1>2 DEF Elements
<1>4. \A i, j \in I : s[i] = s[j] => i = j
  <2>1. DOMAIN s = 1 .. Len(s) /\ Len(s) \in Nat
    BY LenProperties
  <2>2. ASSUME NEW i \in I, NEW j \in I, s[i] = s[j], i < j
        PROVE  FALSE
    <3>1. i \in 1 .. j - 1
      BY <2>1, <2>2
    <3>. QED  BY <2>2, <3>1
  <2>3. ASSUME NEW i \in I, NEW j \in I, s[i] = s[j]
        PROVE  i = j
    <3>1. i \in Int /\ j \in Int
      BY <2>1
    <3>2. ~(i < j) /\ ~(j < i)
      BY <2>2, <2>3
    <3>. QED  BY <3>1, <3>2
  <2>. QED  BY <2>3
<1>5. Distinct(t, D)
  BY <1>4, PickDistinct
<1>. QED  BY <1>1, <1>3, <1>5 DEF CompactUnique

\* Two sequences without a common id of D, one after the other.
LEMMA ConcatDistinct ==
  ASSUME NEW S, NEW s \in Seq(S), NEW t \in Seq(S), NEW D,
         Distinct(s, D), Distinct(t, D), Elements(s) \cap Elements(t) \cap D = {}
  PROVE  Distinct(s \o t, D)
<1>1. /\ DOMAIN s = 1 .. Len(s) /\ Len(s) \in Nat
      /\ DOMAIN t = 1 .. Len(t) /\ Len(t) \in Nat
      /\ DOMAIN (s \o t) = 1 .. Len(s) + Len(t)
      /\ \A i \in 1 .. Len(s) + Len(t) :
           (s \o t)[i] = IF i <= Len(s) THEN s[i] ELSE t[i - Len(s)]
  BY LenProperties, ConcatProperties
<1>. SUFFICES ASSUME NEW i \in DOMAIN (s \o t), NEW j \in DOMAIN (s \o t),
                     (s \o t)[i] = (s \o t)[j], (s \o t)[i] \in D
              PROVE  i = j
  BY DEF Distinct
<1>2. CASE i <= Len(s) /\ j <= Len(s)
  BY <1>1, <1>2 DEF Distinct
<1>3. CASE i > Len(s) /\ j > Len(s)
  <2>1. i - Len(s) \in DOMAIN t /\ j - Len(s) \in DOMAIN t
    BY <1>1, <1>3
  <2>2. t[i - Len(s)] = t[j - Len(s)] /\ t[i - Len(s)] \in D
    BY <1>1, <1>3
  <2>3. i - Len(s) = j - Len(s)
    BY <2>1, <2>2 DEF Distinct
  <2>. QED  BY <1>1, <2>3
<1>4. CASE i <= Len(s) /\ j > Len(s)
  BY <1>1, <1>4 DEF Elements
<1>5. CASE i > Len(s) /\ j <= Len(s)
  BY <1>1, <1>5 DEF Elements
<1>. QED  BY <1>1, <1>2, <1>3, <1>4, <1>5

-----------------------------------------------------------------------------
\* A batch and what it leaves are the queue again.
THEOREM TakeFacts ==
  ASSUME NEW S, NEW q \in Seq(S), NEW max \in Int
  PROVE  /\ TakeFront(q, max) \in Seq(S) /\ TakeRest(q, max) \in Seq(S)
         /\ TakeFront(q, max) \o TakeRest(q, max) = q
<1>1. Len(q) \in Nat /\ \A i \in 1 .. Len(q) : q[i] \in S
  BY LenProperties
<1>2. CASE TakesAll(q, max)
  BY <1>2, EmptySeq, ConcatEmptySeq DEF TakeFront, TakeRest
<1>3. CASE ~TakesAll(q, max)
  <2>. DEFINE f == SubSeq(q, 1, max)
              r == SubSeq(q, max + 1, Len(q))
  <2>1. max \in Int /\ max > 0 /\ max < Len(q)
    BY <1>1, <1>3 DEF TakesAll
  <2>2. /\ f \in Seq(S) /\ Len(f) = max
        /\ \A i \in 1 .. max : f[i] = q[i]
    <3>1. \A i \in 1 .. max : q[i] \in S
      BY <1>1, <2>1
    <3>2. /\ f \in Seq(S) /\ Len(f) = IF 1 <= max THEN max - 1 + 1 ELSE 0
          /\ \A i \in 1 .. max - 1 + 1 : f[i] = q[1 + i - 1]
      BY <3>1, SubSeqProperties
    <3>. QED  BY <2>1, <3>2
  <2>3. /\ r \in Seq(S) /\ Len(r) = Len(q) - max
        /\ \A i \in 1 .. Len(q) - max : r[i] = q[max + i]
    <3>1. \A i \in max + 1 .. Len(q) : q[i] \in S
      BY <1>1, <2>1
    <3>2. max + 1 \in Int /\ Len(q) \in Int
      BY <1>1, <2>1
    <3>3. /\ r \in Seq(S)
          /\ Len(r) = IF max + 1 <= Len(q) THEN Len(q) - (max + 1) + 1 ELSE 0
          /\ \A i \in 1 .. Len(q) - (max + 1) + 1 : r[i] = q[(max + 1) + i - 1]
      BY <3>1, <3>2, SubSeqProperties
    <3>. QED  BY <1>1, <2>1, <3>3
  <2>. HIDE DEF f, r
  <2>4. /\ f \o r \in Seq(S) /\ Len(f \o r) = Len(f) + Len(r)
        /\ \A i \in 1 .. Len(f) + Len(r) :
             (f \o r)[i] = IF i <= Len(f) THEN f[i] ELSE r[i - Len(f)]
    BY <2>2, <2>3, ConcatProperties
  <2>5. Len(f \o r) = Len(q) /\ \A i \in 1 .. Len(q) : (f \o r)[i] = q[i]
    BY <1>1, <2>1, <2>2, <2>3, <2>4
  <2>6. f \o r = q
    BY <2>4, <2>5, SeqEqual
  <2>. QED  BY <1>3, <2>2, <2>3, <2>6 DEF TakeFront, TakeRest, f, r
<1>. QED  BY <1>2, <1>3

\* Entering a result never makes a second entry of its job.
THEOREM UpsertFacts ==
  ASSUME NEW S, NEW q \in Seq(S), NEW id \in S, NEW D, Distinct(q, D)
  PROVE  Upsert(q, id) \in Seq(S) /\ Distinct(Upsert(q, id), D)
<1>1. CASE id \in Elements(q)
  BY <1>1 DEF Upsert
<1>2. CASE id \notin Elements(q)
  <2>1. DOMAIN q = 1 .. Len(q) /\ Len(q) \in Nat
    BY LenProperties
  <2>2. /\ Append(q, id) \in Seq(S) /\ Len(Append(q, id)) = Len(q) + 1
        /\ \A i \in 1 .. Len(q) : Append(q, id)[i] = q[i]
        /\ Append(q, id)[Len(q) + 1] = id
    BY AppendProperties
  <2>3. DOMAIN Append(q, id) = 1 .. Len(q) + 1
    BY <2>2, LenProperties
  <2>4. Distinct(Append(q, id), D)
    BY <1>2, <2>1, <2>2, <2>3 DEF Distinct, Elements
  <2>. QED  BY <1>2, <2>2, <2>4 DEF Upsert
<1>. QED  BY <1>1, <1>2

\* Putting a failed batch back never makes a second entry of a job, whatever
\* was in the batch.
THEOREM PrependFacts ==
  ASSUME NEW S, NEW q \in Seq(S), NEW batch \in Seq(S), NEW L, NEW D, Distinct(q, D)
  PROVE  Prepend(q, batch, L) \in Seq(S) /\ Distinct(Prepend(q, batch, L), D)
<1>1. CASE batch = <<>>
  BY <1>1 DEF Prepend
<1>2. CASE batch # <<>>
  <2>. DEFINE b == CompactUnique(batch, L)
              r == Compact(q, L \ Elements(batch))
  <2>1. b \in Seq(S) /\ Elements(b) \subseteq Elements(batch) /\ Distinct(b, D)
    BY CompactUniqueFacts
  <2>2. r \in Seq(S) /\ Elements(r) \subseteq L \ Elements(batch) /\ Distinct(r, D)
    BY CompactFacts
  <2>. HIDE DEF b, r
  <2>3. Elements(b) \cap Elements(r) \cap D = {}
    BY <2>1, <2>2
  <2>4. b \o r \in Seq(S) /\ Distinct(b \o r, D)
    BY <2>1, <2>2, <2>3, ConcatProperties, ConcatDistinct
  <2>. QED  BY <1>2, <2>4 DEF Prepend, b, r
<1>. QED  BY <1>1, <1>2

-----------------------------------------------------------------------------
(* Subsequences by positions: what is taken of a sequence decides them. *)

\* The entry at a position of I is found at the place its rank gives.
LEMMA PickAt ==
  ASSUME NEW S, NEW s \in Seq(S), NEW I \in SUBSET (DOMAIN s), NEW i \in I
  PROVE  Rank(I, i) + 1 \in 1 .. Cardinality(I) /\ Pick(s, I)[Rank(I, i) + 1] = s[i]
<1>1. Len(s) \in Nat /\ DOMAIN s = 1 .. Len(s)
  BY LenProperties
<1>2. /\ Cardinality(I) \in Nat /\ Rank(I, i) \in 0 .. Cardinality(I) - 1
      /\ \A h, j \in I : h < j => Rank(I, h) < Rank(I, j)
  BY <1>1, RankGrows
<1>3. Rank(I, i) + 1 \in 1 .. Cardinality(I)
  BY <1>2
<1>4. PICK j \in I : Rank(I, j) = (Rank(I, i) + 1) - 1 /\ Pick(s, I)[Rank(I, i) + 1] = s[j]
  BY <1>3, PickFacts
<1>5. j = i
  <2>1. i \in Int /\ j \in Int /\ Rank(I, i) \in Int /\ Rank(I, j) = Rank(I, i)
    BY <1>1, <1>2, <1>4
  <2>2. ~(i < j) /\ ~(j < i)
    BY <1>2, <2>1
  <2>. QED  BY <2>1, <2>2
<1>. QED  BY <1>3, <1>4, <1>5

\* A sequence with the entries of I at the places of their ranks is Pick(s, I).
LEMMA PickUnique ==
  ASSUME NEW S, NEW s \in Seq(S), NEW I \in SUBSET (DOMAIN s), NEW t \in Seq(S),
         Len(t) = Cardinality(I), \A i \in I : t[Rank(I, i) + 1] = s[i]
  PROVE  Pick(s, I) = t
<1>. DEFINE u == Pick(s, I)
<1>1. /\ u \in Seq(S) /\ Cardinality(I) \in Nat /\ Len(u) = Cardinality(I)
      /\ \A n \in 1 .. Cardinality(I) : \E i \in I : Rank(I, i) = n - 1 /\ u[n] = s[i]
  BY PickFacts
<1>. HIDE DEF u
<1>2. ASSUME NEW n \in 1 .. Len(u) PROVE u[n] = t[n]
  <2>1. PICK i \in I : Rank(I, i) = n - 1 /\ u[n] = s[i]
    BY <1>1
  <2>2. (n - 1) + 1 = n
    OBVIOUS
  <2>. QED  BY <2>1, <2>2
<1>. QED  BY <1>1, <1>2, SeqEqual DEF u

\* Only the entries at the positions matter.
LEMMA PickAgree ==
  ASSUME NEW S, NEW s \in Seq(S), NEW t \in Seq(S), NEW I \in SUBSET (DOMAIN s),
         I \subseteq DOMAIN t, \A i \in I : s[i] = t[i]
  PROVE  Pick(s, I) = Pick(t, I)
<1>1. Pick(t, I) \in Seq(S) /\ Len(Pick(t, I)) = Cardinality(I)
  BY PickFacts
<1>2. \A i \in I : Pick(t, I)[Rank(I, i) + 1] = s[i]
  BY PickAt
<1>. QED  BY <1>1, <1>2, PickUnique

LEMMA PickAll ==
  ASSUME NEW S, NEW s \in Seq(S)
  PROVE  Pick(s, DOMAIN s) = s
<1>1. Len(s) \in Nat /\ DOMAIN s = 1 .. Len(s)
  BY LenProperties
<1>2. Cardinality(1 .. Len(s)) = Len(s)
  BY <1>1, FS_Interval
<1>3. ASSUME NEW i \in 1 .. Len(s) PROVE Rank(1 .. Len(s), i) + 1 = i
  <2>1. {h \in 1 .. Len(s) : h < i} = 1 .. i - 1
    BY <1>1
  <2>2. i \in Int /\ i - 1 \in Int /\ 1 \in Int /\ i >= 1
    BY <1>1
  <2>3. Cardinality(1 .. i - 1) = IF 1 > i - 1 THEN 0 ELSE (i - 1) - 1 + 1
    BY <2>2, FS_Interval
  <2>4. Cardinality(1 .. i - 1) = i - 1
    BY <2>2, <2>3
  <2>5. Rank(1 .. Len(s), i) = Cardinality(1 .. i - 1)
    BY <2>1 DEF Rank
  <2>. QED  BY <2>2, <2>4, <2>5
<1>. QED  BY <1>1, <1>2, <1>3, PickUnique

\* An injective function keeps the size of a finite set.
LEMMA ImageSize ==
  ASSUME NEW A, IsFiniteSet(A), NEW f, \A x, y \in A : f[x] = f[y] => x = y
  PROVE  IsFiniteSet({f[x] : x \in A}) /\ Cardinality({f[x] : x \in A}) = Cardinality(A)
<1>. DEFINE T == {f[x] : x \in A}
            g == [x \in A |-> f[x]]
<1>1. g \in [A -> T] /\ \A t \in T : \E x \in A : g[x] = t
  OBVIOUS
<1>2. \A x, y \in A : g[x] = g[y] => x = y
  OBVIOUS
<1>. HIDE DEF g, T
<1>3. g \in Bijection(A, T)
  BY <1>1, <1>2, Fun_IsBij
<1>4. ExistsBijection(A, T)
  BY <1>3, Fun_ExistsBij
<1>5. IsFiniteSet(T) /\ Cardinality(T) = Cardinality(A)
  BY <1>4, FS_Bijection
<1>. QED  BY <1>5 DEF T

\* The positions of J after n others.
Shifted(n, J) == {n + j : j \in J}

LEMMA ShiftedSize ==
  ASSUME NEW n \in Nat, NEW J, IsFiniteSet(J), J \subseteq Nat
  PROVE  IsFiniteSet(Shifted(n, J)) /\ Cardinality(Shifted(n, J)) = Cardinality(J)
<1>. DEFINE f == [j \in J |-> n + j]
<1>2. \A i, j \in J : f[i] = f[j] => i = j
  OBVIOUS
<1>3. Shifted(n, J) = {f[j] : j \in J}
  BY DEF Shifted
<1>. HIDE DEF f
<1>4. IsFiniteSet({f[j] : j \in J}) /\ Cardinality({f[j] : j \in J}) = Cardinality(J)
  BY <1>2, ImageSize
<1>. QED  BY <1>3, <1>4

\* Positions of two sequences, one after the other.
LEMMA ShiftedUnion ==
  ASSUME NEW n \in Nat, NEW I, NEW J, I \subseteq 1 .. n, J \subseteq Nat \ {0}, IsFiniteSet(J)
  PROVE  Cardinality(I \cup Shifted(n, J)) = Cardinality(I) + Cardinality(J)
<1>1. IsFiniteSet(I) /\ Cardinality(I) \in Nat /\ Cardinality(J) \in Nat
  BY RankGrows, FS_CardinalityType
<1>2. IsFiniteSet(Shifted(n, J)) /\ Cardinality(Shifted(n, J)) = Cardinality(J)
  BY ShiftedSize
<1>3. I \cap Shifted(n, J) = {}
  BY DEF Shifted
<1>4. Cardinality(I \cap Shifted(n, J)) = 0
  BY <1>3, FS_EmptySet
<1>5. Cardinality(I \cup Shifted(n, J))
        = Cardinality(I) + Cardinality(Shifted(n, J)) - Cardinality(I \cap Shifted(n, J))
  BY <1>1, <1>2, FS_Union
<1>. QED  BY <1>1, <1>2, <1>4, <1>5

\* What is taken of s and t together is what is taken of each.
PicksJoin(s, t) ==
  \A I \in SUBSET (DOMAIN s), J \in SUBSET (DOMAIN t) :
     Pick(s \o t, I \cup Shifted(Len(s), J)) = Pick(s, I) \o Pick(t, J)

LEMMA PickConcat ==
  ASSUME NEW S, NEW s \in Seq(S), NEW t \in Seq(S)
  PROVE  PicksJoin(s, t)
<1>. SUFFICES ASSUME NEW I \in SUBSET (DOMAIN s), NEW J \in SUBSET (DOMAIN t)
              PROVE  Pick(s \o t, I \cup Shifted(Len(s), J)) = Pick(s, I) \o Pick(t, J)
  BY DEF PicksJoin
<1>. DEFINE n == Len(s)
            K == I \cup Shifted(n, J)
            a == Pick(s, I)
            b == Pick(t, J)
<1>1. /\ n \in Nat /\ DOMAIN s = 1 .. n /\ Len(t) \in Nat /\ DOMAIN t = 1 .. Len(t)
      /\ s \o t \in Seq(S) /\ DOMAIN (s \o t) = 1 .. n + Len(t)
      /\ \A i \in 1 .. n + Len(t) : (s \o t)[i] = IF i <= n THEN s[i] ELSE t[i - n]
  BY LenProperties, ConcatProperties
<1>0. n \in Nat /\ I \subseteq 1 .. n /\ J \subseteq Nat \ {0} /\ IsFiniteSet(J)
  <2>1. J \in SUBSET (1 .. Len(t)) /\ Len(t) \in Nat
    BY <1>1
  <2>2. IsFiniteSet(J)
    BY <2>1, RankGrows
  <2>. QED  BY <1>1, <2>1, <2>2
<1>2. /\ Cardinality(I) \in Nat /\ Cardinality(J) \in Nat
      /\ a \in Seq(S) /\ Len(a) = Cardinality(I) /\ b \in Seq(S) /\ Len(b) = Cardinality(J)
  BY PickFacts
<1>3. /\ \A i \in I : Rank(I, i) + 1 \in 1 .. Cardinality(I) /\ a[Rank(I, i) + 1] = s[i]
      /\ \A j \in J : Rank(J, j) + 1 \in 1 .. Cardinality(J) /\ b[Rank(J, j) + 1] = t[j]
  BY PickAt
<1>. HIDE DEF a, b
<1>4. /\ a \o b \in Seq(S) /\ Len(a \o b) = Cardinality(I) + Cardinality(J)
      /\ \A p \in 1 .. Cardinality(I) + Cardinality(J) :
           (a \o b)[p] = IF p <= Cardinality(I) THEN a[p] ELSE b[p - Cardinality(I)]
  BY <1>2, ConcatProperties
<1>5. K \in SUBSET (DOMAIN (s \o t))
  BY <1>1 DEF Shifted
<1>6. Cardinality(K) = Cardinality(I) + Cardinality(J)
  BY <1>0, ShiftedUnion
<1>7. ASSUME NEW k \in K PROVE (a \o b)[Rank(K, k) + 1] = (s \o t)[k]
  <2>1. CASE k \in I
    <3>1. {h \in K : h < k} = {h \in I : h < k}
      BY <1>1, <2>1 DEF Shifted
    <3>2. Rank(K, k) = Rank(I, k)
      BY <3>1 DEF Rank
    <3>. QED  BY <1>1, <1>2, <1>3, <1>4, <2>1, <3>2
  <2>2. CASE k \in Shifted(n, J)
    <3>1. PICK j \in J : k = n + j
      BY <2>2 DEF Shifted
    <3>. DEFINE B == {h \in J : h < j}
    <3>2. {h \in K : h < k} = I \cup Shifted(n, B)
      BY <1>1, <3>1 DEF Shifted
    <3>3. Rank(K, k) = Cardinality(I) + Rank(J, j)
      <4>1. n \in Nat /\ I \subseteq 1 .. n /\ B \subseteq Nat \ {0} /\ IsFiniteSet(B)
        BY <1>0, FS_Subset
      <4>. HIDE DEF B, n
      <4>2. Cardinality(I \cup Shifted(n, B)) = Cardinality(I) + Cardinality(B)
        BY <4>1, ShiftedUnion
      <4>. QED  BY <3>2, <4>2 DEF Rank, B, n
    <3>4. Rank(J, j) + 1 \in 1 .. Cardinality(J) /\ b[Rank(J, j) + 1] = t[j]
      BY <1>3
    <3>5. Rank(J, j) \in Int
      <4>1. Cardinality(J) \in Nat /\ Rank(J, j) \in 0 .. Cardinality(J) - 1
        BY <1>1, RankGrows
      <4>. QED  BY <4>1
    <3>6. (a \o b)[Rank(K, k) + 1] = b[Rank(J, j) + 1]
      BY <1>2, <1>4, <3>3, <3>4, <3>5
    <3>7. (s \o t)[k] = t[j]
      BY <1>1, <3>1
    <3>. QED  BY <3>4, <3>6, <3>7
  <2>. QED  BY <2>1, <2>2
<1>8. Len(a \o b) = Cardinality(K)
  BY <1>4, <1>6
<1>. HIDE DEF K
<1>9. Pick(s \o t, K) = a \o b
  BY <1>1, <1>4, <1>5, <1>7, <1>8, PickUnique
<1>. QED  BY <1>9 DEF K, a, b

-----------------------------------------------------------------------------
(* Thinning, as Outbox has it: u is t without some entries of gone. *)

Thins(u, t, gone) ==
  \E from \in [DOMAIN u -> DOMAIN t] :
     /\ \A m, n \in DOMAIN u : m < n => from[m] < from[n]
     /\ \A n \in DOMAIN u : u[n] = t[from[n]]
     /\ \A i \in DOMAIN t : (\A n \in DOMAIN u : from[n] # i) => t[i] \in gone

\* Fewer positions of the same sequence: a thinning of what more of them give.
LEMMA PickThins ==
  ASSUME NEW S, NEW s \in Seq(S), NEW I \in SUBSET (DOMAIN s), NEW J \in SUBSET I, NEW gone,
         \A i \in I \ J : s[i] \in gone
  PROVE  Thins(Pick(s, J), Pick(s, I), gone)
<1>. DEFINE t == Pick(s, I)
            u == Pick(s, J)
            at(n) == CHOOSE j \in J : Rank(J, j) = n - 1 /\ u[n] = s[j]
            from == [n \in DOMAIN u |-> Rank(I, at(n)) + 1]
<1>1. /\ Len(s) \in Nat /\ DOMAIN s = 1 .. Len(s)
      /\ I \in SUBSET (1 .. Len(s)) /\ J \in SUBSET (1 .. Len(s)) /\ J \in SUBSET (DOMAIN s)
  BY LenProperties
<1>2. /\ Cardinality(I) \in Nat /\ DOMAIN t = 1 .. Cardinality(I)
      /\ \A p \in DOMAIN t : \E i \in I : Rank(I, i) = p - 1 /\ t[p] = s[i]
      /\ \A i \in I : Rank(I, i) + 1 \in DOMAIN t /\ t[Rank(I, i) + 1] = s[i]
  <2>1. /\ t \in Seq(S) /\ Cardinality(I) \in Nat /\ Len(t) = Cardinality(I)
        /\ \A n \in 1 .. Cardinality(I) : \E i \in I : Rank(I, i) = n - 1 /\ t[n] = s[i]
    BY PickFacts
  <2>2. DOMAIN t = 1 .. Cardinality(I)
    BY <2>1, LenProperties
  <2>. QED  BY <2>1, <2>2, PickAt
<1>3. /\ Cardinality(J) \in Nat /\ DOMAIN u = 1 .. Cardinality(J)
      /\ \A n \in DOMAIN u : \E j \in J : Rank(J, j) = n - 1 /\ u[n] = s[j]
      /\ \A j \in J : Rank(J, j) + 1 \in DOMAIN u
  <2>1. /\ u \in Seq(S) /\ Cardinality(J) \in Nat /\ Len(u) = Cardinality(J)
        /\ \A n \in 1 .. Cardinality(J) : \E j \in J : Rank(J, j) = n - 1 /\ u[n] = s[j]
    BY <1>1, PickFacts
  <2>2. DOMAIN u = 1 .. Cardinality(J)
    BY <2>1, LenProperties
  <2>. QED  BY <1>1, <2>1, <2>2, PickAt
<1>4. /\ \A i \in I : Rank(I, i) \in Int
      /\ \A i, j \in I : i < j => Rank(I, i) < Rank(I, j)
      /\ \A j \in J : Rank(J, j) \in Int
      /\ \A i, j \in J : i < j => Rank(J, i) < Rank(J, j)
  <2>1. /\ \A i \in I : Rank(I, i) \in 0 .. Cardinality(I) - 1
        /\ \A i, j \in I : i < j => Rank(I, i) < Rank(I, j)
    BY <1>1, RankGrows
  <2>2. /\ \A j \in J : Rank(J, j) \in 0 .. Cardinality(J) - 1
        /\ \A i, j \in J : i < j => Rank(J, i) < Rank(J, j)
    BY <1>1, RankGrows
  <2>. QED  BY <1>2, <1>3, <2>1, <2>2
<1>. HIDE DEF t, u
<1>5. \A n \in DOMAIN u : at(n) \in J /\ Rank(J, at(n)) = n - 1 /\ u[n] = s[at(n)]
  BY <1>3
<1>. HIDE DEF at
<1>6. from \in [DOMAIN u -> DOMAIN t]
  BY <1>2, <1>5
<1>7. ASSUME NEW m \in DOMAIN u, NEW n \in DOMAIN u, m < n
      PROVE  from[m] < from[n]
  <2>1. Rank(J, at(m)) < Rank(J, at(n))
    BY <1>3, <1>5, <1>7
  <2>2. at(m) \in Int /\ at(n) \in Int
    BY <1>1, <1>5
  <2>3. ~(at(n) < at(m)) /\ at(n) # at(m)
    BY <1>4, <1>5, <2>1
  <2>4. at(m) < at(n)
    BY <2>2, <2>3
  <2>. QED  BY <1>4, <1>5, <2>4
<1>8. \A n \in DOMAIN u : u[n] = t[from[n]]
  BY <1>2, <1>5
<1>9. ASSUME NEW p \in DOMAIN t, \A n \in DOMAIN u : from[n] # p
      PROVE  t[p] \in gone
  <2>1. PICK i \in I : Rank(I, i) = p - 1 /\ t[p] = s[i]
    BY <1>2
  <2>2. CASE i \in J
    <3>. DEFINE n == Rank(J, i) + 1
    <3>1. n \in DOMAIN u /\ Rank(J, at(n)) = Rank(J, i) /\ at(n) \in J
      BY <1>3, <1>4, <1>5, <2>2
    <3>2. at(n) = i
      <4>1. at(n) \in Int /\ i \in Int
        BY <1>1, <3>1
      <4>2. ~(at(n) < i) /\ ~(i < at(n))
        BY <1>4, <2>2, <3>1
      <4>. QED  BY <4>1, <4>2
    <3>3. from[n] = p
      BY <1>2, <2>1, <3>1, <3>2
    <3>. QED  BY <1>9, <3>1, <3>3
  <2>. QED  BY <2>1, <2>2
<1>. HIDE DEF from
<1>10. Thins(u, t, gone)
  BY <1>6, <1>7, <1>8, <1>9 DEF Thins
<1>. QED  BY <1>10 DEF t, u

-----------------------------------------------------------------------------
(* The entries of a set: Compact. *)

LEMMA CompactConcat ==
  ASSUME NEW S, NEW s \in Seq(S), NEW t \in Seq(S), NEW L
  PROVE  Compact(s \o t, L) = Compact(s, L) \o Compact(t, L)
<1>. DEFINE I == {i \in DOMAIN s : s[i] \in L}
            J == {j \in DOMAIN t : t[j] \in L}
            K == {k \in DOMAIN (s \o t) : (s \o t)[k] \in L}
<1>1. /\ Len(s) \in Nat /\ DOMAIN s = 1 .. Len(s) /\ Len(t) \in Nat /\ DOMAIN t = 1 .. Len(t)
      /\ DOMAIN (s \o t) = 1 .. Len(s) + Len(t)
      /\ \A i \in 1 .. Len(s) + Len(t) : (s \o t)[i] = IF i <= Len(s) THEN s[i] ELSE t[i - Len(s)]
  BY LenProperties, ConcatProperties
<1>2. K = I \cup Shifted(Len(s), J)
  <2>1. ASSUME NEW k \in K PROVE k \in I \cup Shifted(Len(s), J)
    <3>1. CASE k <= Len(s)
      BY <1>1, <3>1
    <3>2. CASE k > Len(s)
      <4>1. k - Len(s) \in J /\ k = Len(s) + (k - Len(s))
        BY <1>1, <3>2
      <4>. QED  BY <4>1 DEF Shifted
    <3>. QED  BY <1>1, <3>1, <3>2
  <2>2. I \subseteq K
    BY <1>1
  <2>3. ASSUME NEW j \in J PROVE Len(s) + j \in K
    BY <1>1
  <2>. QED  BY <2>1, <2>2, <2>3 DEF Shifted
<1>3. I \in SUBSET (DOMAIN s) /\ J \in SUBSET (DOMAIN t)
  OBVIOUS
<1>. HIDE DEF I, J, K
<1>4. Pick(s \o t, I \cup Shifted(Len(s), J)) = Pick(s, I) \o Pick(t, J)
  <2>1. PicksJoin(s, t)
    BY PickConcat
  <2>. QED  BY <1>3, <2>1 DEF PicksJoin
<1>. QED  BY <1>2, <1>4 DEF Compact, I, J, K

LEMMA CompactElements ==
  ASSUME NEW S, NEW s \in Seq(S), NEW L
  PROVE  /\ Elements(Compact(s, L)) = L \cap Elements(s)
         /\ Elements(s) \cap L = {} => Compact(s, L) = <<>>
         /\ Elements(s) \cap L # {} => Len(Compact(s, L)) > 0
         /\ Elements(s) \subseteq L => Compact(s, L) = s
<1>. DEFINE I == {i \in DOMAIN s : s[i] \in L}
            t == Pick(s, I)
<1>0. I \in SUBSET (DOMAIN s) /\ Compact(s, L) = t
  BY DEF Compact
<1>1. t \in Seq(S) /\ Cardinality(I) \in Nat /\ Len(t) = Cardinality(I)
  BY <1>0, PickFacts
<1>2. Elements(t) \subseteq L \cap Elements(s)
  BY <1>0, CompactFacts
<1>3. ASSUME NEW i \in I PROVE Rank(I, i) + 1 \in DOMAIN t /\ t[Rank(I, i) + 1] = s[i]
  <2>1. Rank(I, i) + 1 \in 1 .. Cardinality(I) /\ t[Rank(I, i) + 1] = s[i]
    BY <1>0, PickAt
  <2>2. DOMAIN t = 1 .. Cardinality(I)
    BY <1>1, LenProperties
  <2>. QED  BY <2>1, <2>2
<1>. HIDE DEF t
<1>4. L \cap Elements(s) \subseteq Elements(t)
  BY <1>3 DEF Elements
<1>5. Elements(s) \cap L = {} => t = <<>>
  <2>. SUFFICES ASSUME Elements(s) \cap L = {} PROVE t = <<>>
    OBVIOUS
  <2>1. I = {}
    BY DEF Elements
  <2>2. Len(t) = 0
    BY <1>1, <2>1, FS_EmptySet
  <2>. QED  BY <1>1, <2>2, EmptySeq
<1>6. Elements(s) \cap L # {} => Len(t) > 0
  <2>. SUFFICES ASSUME Elements(s) \cap L # {} PROVE Len(t) > 0
    OBVIOUS
  <2>1. PICK i \in DOMAIN s : s[i] \in L
    BY DEF Elements
  <2>2. Rank(I, i) + 1 \in DOMAIN t
    BY <1>3, <2>1
  <2>3. Len(t) \in Nat /\ DOMAIN t = 1 .. Len(t)
    BY <1>1, LenProperties
  <2>. QED  BY <2>2, <2>3
<1>7. Elements(s) \subseteq L => t = s
  <2>. SUFFICES ASSUME Elements(s) \subseteq L PROVE t = s
    OBVIOUS
  <2>1. I = DOMAIN s
    BY DEF Elements
  <2>. QED  BY <2>1, PickAll DEF t
<1>. QED  BY <1>0, <1>2, <1>4, <1>5, <1>6, <1>7

\* Only the ids in s matter.
LEMMA CompactSame ==
  ASSUME NEW S, NEW s \in Seq(S), NEW L, NEW M, Elements(s) \cap L = Elements(s) \cap M
  PROVE  Compact(s, L) = Compact(s, M)
<1>1. {i \in DOMAIN s : s[i] \in L} = {i \in DOMAIN s : s[i] \in M}
  BY DEF Elements
<1>. QED  BY <1>1 DEF Compact

\* Where no id of L occurs twice, the first of each is each.
LEMMA CompactUniqueSame ==
  ASSUME NEW S, NEW s \in Seq(S), NEW L, NEW D, Distinct(s, D), L \subseteq D
  PROVE  CompactUnique(s, L) = Compact(s, L)
<1>1. Len(s) \in Nat /\ DOMAIN s = 1 .. Len(s)
  BY LenProperties
<1>2. ASSUME NEW i \in DOMAIN s, s[i] \in L, NEW h \in 1 .. i - 1 PROVE s[h] # s[i]
  <2>1. h \in DOMAIN s /\ h # i
    BY <1>1
  <2>. QED  BY <1>2, <2>1 DEF Distinct
<1>3. {i \in DOMAIN s : s[i] \in L /\ \A h \in 1 .. i - 1 : s[h] # s[i]} = {i \in DOMAIN s : s[i] \in L}
  BY <1>2
<1>. QED  BY <1>3 DEF Compact, CompactUnique

\* Keeping less keeps a thinning.
LEMMA CompactThins ==
  ASSUME NEW S, NEW s \in Seq(S), NEW K, NEW L, L \subseteq K, NEW gone,
         (Elements(s) \cap K) \ L \subseteq gone
  PROVE  Thins(Compact(s, L), Compact(s, K), gone)
<1>. DEFINE I == {i \in DOMAIN s : s[i] \in K}
            J == {i \in DOMAIN s : s[i] \in L}
<1>1. I \in SUBSET (DOMAIN s) /\ J \in SUBSET I /\ \A i \in I \ J : s[i] \in gone
  BY DEF Elements
<1>. HIDE DEF I, J
<1>2. Thins(Pick(s, J), Pick(s, I), gone)
  BY <1>1, PickThins
<1>. QED  BY <1>2 DEF Compact, I, J

\* So does dropping the front.
LEMMA FrontThins ==
  ASSUME NEW S, NEW s \in Seq(S), NEW t \in Seq(S), NEW K, NEW gone,
         Elements(s) \cap K \subseteq gone
  PROVE  Thins(Compact(t, K), Compact(s \o t, K), gone)
<1>. DEFINE I == {i \in DOMAIN s : s[i] \in K}
            J == {j \in DOMAIN t : t[j] \in K}
            m == I \cup Shifted(Len(s), J)
            n == {} \cup Shifted(Len(s), J)
<1>1. I \in SUBSET (DOMAIN s) /\ J \in SUBSET (DOMAIN t) /\ {} \in SUBSET (DOMAIN s)
  OBVIOUS
<1>2. PicksJoin(s, t)
  BY PickConcat
<1>3. Pick(s \o t, m) = Compact(s \o t, K) /\ Pick(s \o t, n) = Compact(t, K)
  <2>1. Compact(s, K) = Pick(s, I) /\ Compact(t, K) = Pick(t, J) /\ Compact(t, K) \in Seq(S)
    BY CompactFacts DEF Compact
  <2>. HIDE DEF I, J
  <2>2. Pick(s \o t, m) = Pick(s, I) \o Pick(t, J) /\ Pick(s \o t, n) = Pick(s, {}) \o Pick(t, J)
    BY <1>1, <1>2 DEF PicksJoin
  <2>3. Pick(s, {}) = <<>>
    <3>1. Pick(s, {}) \in Seq(S) /\ Len(Pick(s, {})) = 0
      BY <1>1, PickFacts, FS_EmptySet
    <3>. QED  BY <3>1, EmptySeq
  <2>. HIDE DEF m, n
  <2>4. Compact(s \o t, K) = Compact(s, K) \o Compact(t, K)
    BY CompactConcat
  <2>. QED  BY <2>1, <2>2, <2>3, <2>4, ConcatEmptySeq
<1>4. /\ s \o t \in Seq(S) /\ n \in SUBSET m /\ m \in SUBSET (DOMAIN (s \o t))
      /\ \A i \in m \ n : (s \o t)[i] \in gone
  <2>1. /\ Len(s) \in Nat /\ DOMAIN s = 1 .. Len(s) /\ Len(t) \in Nat /\ DOMAIN t = 1 .. Len(t)
        /\ s \o t \in Seq(S) /\ DOMAIN (s \o t) = 1 .. Len(s) + Len(t)
        /\ \A i \in 1 .. Len(s) + Len(t) : (s \o t)[i] = IF i <= Len(s) THEN s[i] ELSE t[i - Len(s)]
    BY LenProperties, ConcatProperties
  <2>2. m \in SUBSET (DOMAIN (s \o t))
    BY <2>1 DEF Shifted
  <2>3. ASSUME NEW i \in m \ n PROVE (s \o t)[i] \in gone
    <3>1. i \in I /\ (s \o t)[i] = s[i]
      BY <2>1
    <3>. QED  BY <3>1 DEF Elements
  <2>. QED  BY <2>1, <2>2, <2>3
<1>. HIDE DEF m, n
<1>. QED  BY <1>3, <1>4, PickThins

-----------------------------------------------------------------------------
(* The queue operations, seen through Compact. *)

LEMMA ElementsConcat ==
  ASSUME NEW S, NEW s \in Seq(S), NEW t \in Seq(S)
  PROVE  Elements(s \o t) = Elements(s) \cup Elements(t)
<1>1. /\ Len(s) \in Nat /\ DOMAIN s = 1 .. Len(s) /\ Len(t) \in Nat /\ DOMAIN t = 1 .. Len(t)
      /\ DOMAIN (s \o t) = 1 .. Len(s) + Len(t)
      /\ \A i \in 1 .. Len(s) + Len(t) : (s \o t)[i] = IF i <= Len(s) THEN s[i] ELSE t[i - Len(s)]
  BY LenProperties, ConcatProperties
<1>2. ASSUME NEW i \in DOMAIN (s \o t) PROVE (s \o t)[i] \in Elements(s) \cup Elements(t)
  <2>1. CASE i <= Len(s)
    BY <1>1, <2>1 DEF Elements
  <2>2. CASE i > Len(s)
    <3>1. i - Len(s) \in DOMAIN t /\ (s \o t)[i] = t[i - Len(s)]
      BY <1>1, <2>2
    <3>. QED  BY <3>1 DEF Elements
  <2>. QED  BY <1>1, <2>1, <2>2
<1>3. ASSUME NEW i \in DOMAIN s PROVE s[i] \in Elements(s \o t)
  <2>1. i \in DOMAIN (s \o t) /\ (s \o t)[i] = s[i]
    BY <1>1
  <2>. QED  BY <2>1 DEF Elements
<1>4. ASSUME NEW j \in DOMAIN t PROVE t[j] \in Elements(s \o t)
  <2>1. Len(s) + j \in DOMAIN (s \o t) /\ (s \o t)[Len(s) + j] = t[j]
    BY <1>1
  <2>. QED  BY <2>1 DEF Elements
<1>. QED  BY <1>2, <1>3, <1>4 DEF Elements

LEMMA ElementsOne == \A x : Elements(<<x>>) = {x}
BY DEF Elements

LEMMA UpsertElements ==
  ASSUME NEW S, NEW q \in Seq(S), NEW id \in S
  PROVE  Elements(Upsert(q, id)) = Elements(q) \cup {id}
<1>1. CASE id \in Elements(q)
  BY <1>1 DEF Upsert
<1>2. CASE id \notin Elements(q)
  <2>. DEFINE one == <<id>>
  <2>1. one \in Seq(S) /\ Append(q, id) = q \o one /\ Elements(one) = {id}
    BY ElementsOne, AppendIsConcat
  <2>. HIDE DEF one
  <2>2. Elements(q \o one) = Elements(q) \cup {id}
    BY <2>1, ElementsConcat
  <2>. QED  BY <1>2, <2>1, <2>2 DEF Upsert
<1>. QED  BY <1>1, <1>2

\* Entering a result, seen through the entries of L.
LEMMA UpsertCompact ==
  ASSUME NEW S, NEW q \in Seq(S), NEW id \in S, NEW L, id \in L
  PROVE  Compact(Upsert(q, id), L) =
           IF id \in Elements(Compact(q, L)) THEN Compact(q, L) ELSE Append(Compact(q, L), id)
<1>1. Elements(Compact(q, L)) = L \cap Elements(q)
  BY CompactElements
<1>2. CASE id \in Elements(q)
  BY <1>1, <1>2 DEF Upsert
<1>3. CASE id \notin Elements(q)
  <2>. DEFINE one == <<id>>
  <2>1. one \in Seq(S) /\ Append(q, id) = q \o one /\ Elements(one) = {id}
    BY ElementsOne, AppendIsConcat
  <2>2. Append(Compact(q, L), id) = Compact(q, L) \o one
    BY CompactFacts, AppendIsConcat
  <2>. HIDE DEF one
  <2>3. Compact(one, L) = one
    BY <2>1, CompactElements
  <2>4. Compact(q \o one, L) = Compact(q, L) \o one
    BY <2>1, <2>3, CompactConcat
  <2>. QED  BY <1>1, <1>3, <2>1, <2>2, <2>4 DEF Upsert
<1>. QED  BY <1>2, <1>3

\* A batch that is put back stands in its old place, without its dead entries.
THEOREM PrependCompact ==
  ASSUME NEW S, NEW q \in Seq(S), NEW batch \in Seq(S), batch # <<>>,
         NEW D, Distinct(batch \o q, D), NEW L, L \subseteq D
  PROVE  /\ Compact(Prepend(q, batch, L), D) = Compact(batch \o q, L)
         /\ Elements(Prepend(q, batch, L)) \subseteq Elements(batch) \cup Elements(q)
<1>. DEFINE b == Compact(batch, L)
            r == Compact(q, L)
<1>1. /\ Len(batch) \in Nat /\ DOMAIN batch = 1 .. Len(batch) /\ Len(q) \in Nat /\ DOMAIN q = 1 .. Len(q)
      /\ DOMAIN (batch \o q) = 1 .. Len(batch) + Len(q)
      /\ \A i \in 1 .. Len(batch) + Len(q) :
           (batch \o q)[i] = IF i <= Len(batch) THEN batch[i] ELSE q[i - Len(batch)]
  BY LenProperties, ConcatProperties
<1>2. Distinct(batch, D)
  <2>. SUFFICES ASSUME NEW i \in DOMAIN batch, NEW j \in DOMAIN batch, batch[i] = batch[j], batch[i] \in D
                PROVE  i = j
    BY DEF Distinct
  <2>1. /\ i \in DOMAIN (batch \o q) /\ (batch \o q)[i] = batch[i]
        /\ j \in DOMAIN (batch \o q) /\ (batch \o q)[j] = batch[j]
    BY <1>1
  <2>. QED  BY <2>1 DEF Distinct
<1>3. Elements(batch) \cap Elements(q) \cap D = {}
  <2>. SUFFICES ASSUME NEW i \in DOMAIN batch, NEW j \in DOMAIN q, batch[i] = q[j], batch[i] \in D
                PROVE  FALSE
    BY DEF Elements
  <2>1. /\ i \in DOMAIN (batch \o q) /\ (batch \o q)[i] = batch[i] /\ i <= Len(batch)
        /\ Len(batch) + j \in DOMAIN (batch \o q) /\ (batch \o q)[Len(batch) + j] = q[j]
        /\ Len(batch) + j > Len(batch)
    BY <1>1
  <2>2. i = Len(batch) + j
    BY <2>1 DEF Distinct
  <2>. QED  BY <1>1, <2>1, <2>2
<1>4. CompactUnique(batch, L) = b
  BY <1>2, CompactUniqueSame
<1>5. Compact(q, L \ Elements(batch)) = r
  <2>1. Elements(q) \cap (L \ Elements(batch)) = Elements(q) \cap L
    BY <1>3
  <2>. QED  BY <2>1, CompactSame
<1>6. Prepend(q, batch, L) = b \o r /\ b \o r = Compact(batch \o q, L)
  <2>1. b \o r = Compact(batch \o q, L)
    BY CompactConcat
  <2>. HIDE DEF b, r
  <2>2. Prepend(q, batch, L) = b \o r
    BY <1>4, <1>5 DEF Prepend
  <2>. QED  BY <2>1, <2>2
<1>7. b \o r \in Seq(S) /\ Elements(b \o r) \subseteq L \cap (Elements(batch) \cup Elements(q))
  <2>1. b \in Seq(S) /\ r \in Seq(S)
    BY CompactFacts
  <2>2. Elements(b) = L \cap Elements(batch) /\ Elements(r) = L \cap Elements(q)
    BY CompactElements
  <2>. HIDE DEF b, r
  <2>3. b \o r \in Seq(S) /\ Elements(b \o r) = Elements(b) \cup Elements(r)
    BY <2>1, ConcatProperties, ElementsConcat
  <2>. QED  BY <2>2, <2>3
<1>. HIDE DEF b, r
<1>8. Elements(b \o r) \subseteq D
  BY <1>7
<1>9. Compact(b \o r, D) = b \o r
  BY <1>7, <1>8, CompactElements
<1>. QED  BY <1>6, <1>7, <1>9

\* What follows s in s \o t is t.
LEMMA SuffixOfConcat ==
  ASSUME NEW S, NEW s \in Seq(S), NEW t \in Seq(S)
  PROVE  SubSeq(s \o t, Len(s) + 1, Len(s \o t)) = t
<1>. DEFINE u == s \o t
            v == SubSeq(u, Len(s) + 1, Len(u))
<1>1. /\ Len(s) \in Nat /\ Len(t) \in Nat /\ u \in Seq(S) /\ Len(u) = Len(s) + Len(t)
      /\ \A i \in 1 .. Len(s) + Len(t) : u[i] = IF i <= Len(s) THEN s[i] ELSE t[i - Len(s)]
  BY LenProperties, ConcatProperties
<1>2. \A i \in 1 .. Len(u) : u[i] \in S
  BY <1>1, LenProperties
<1>. HIDE DEF u
<1>3. /\ v \in Seq(S) /\ Len(v) = IF Len(s) + 1 <= Len(u) THEN Len(u) - (Len(s) + 1) + 1 ELSE 0
      /\ \A i \in 1 .. Len(u) - (Len(s) + 1) + 1 : v[i] = u[(Len(s) + 1) + i - 1]
  <2>1. Len(s) + 1 \in Int /\ Len(u) \in Int /\ \A i \in Len(s) + 1 .. Len(u) : u[i] \in S
    BY <1>1, <1>2
  <2>. QED  BY <2>1, SubSeqProperties
<1>. HIDE DEF v
<1>4. Len(v) = Len(t) /\ \A i \in 1 .. Len(t) : v[i] = t[i]
  <2>1. Len(v) = Len(t) /\ Len(u) - (Len(s) + 1) + 1 = Len(t)
    BY <1>1, <1>3
  <2>2. ASSUME NEW i \in 1 .. Len(t) PROVE v[i] = t[i]
    <3>1. /\ (Len(s) + 1) + i - 1 = Len(s) + i /\ Len(s) + i \in 1 .. Len(s) + Len(t)
          /\ ~(Len(s) + i <= Len(s)) /\ Len(s) + i - Len(s) = i
      BY <1>1
    <3>2. v[i] = u[Len(s) + i]
      BY <1>3, <2>1, <3>1
    <3>. QED  BY <1>1, <3>1, <3>2
  <2>. QED  BY <2>1, <2>2
<1>5. v = t
  BY <1>3, <1>4, SeqEqual
<1>. QED  BY <1>5 DEF u, v

=============================================================================
