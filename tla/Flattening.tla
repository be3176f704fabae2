----------------------------- MODULE Flattening -----------------------------
(***************************************************************************)
(* FlattenSeq and maps over sequences, and numbers modulo a width, as the  *)
(* proofs need them.  Induction is over sets: a property of numbers, or of *)
(* sequences, is the set of those that have it.                            *)
(***************************************************************************)
EXTENDS Integers, SequencesExt, TLAPS, SequenceTheorems, WellFoundedInduction

LEMMA LeastElement ==
    ASSUME NEW T \in SUBSET Nat, T # {}
    PROVE  \E x \in T : \A y \in T : x <= y
<1> DEFINE R == OpToRel(<, Nat)
<1>1. IsWellFoundedOn(R, Nat)
  BY NatLessThanWellFounded
<1> HIDE DEF R
<1>2. PICK x \in T : \A y \in T : ~ (<<y, x>> \in R)
  BY <1>1, WFMin
<1>3. \A u, v \in Nat : u < v => <<u, v>> \in R
  BY DEF R, OpToRel
<1>4. \A y \in T : ~(y < x)
  BY <1>2, <1>3
<1>5. \A y \in T : y \in Nat /\ x \in Nat
  OBVIOUS
<1> QED BY <1>4, <1>5

LEMMA InductionOver ==
    ASSUME NEW S, 0 \in S, \A n \in Nat : n \in S => n + 1 \in S
    PROVE  Nat \subseteq S
<1> SUFFICES ASSUME Nat \ S # {} PROVE FALSE
  OBVIOUS
<1> DEFINE T == Nat \ S
<1>1. PICK x \in T : \A y \in T : x <= y
  <2>1. T \in SUBSET Nat /\ T # {}
    OBVIOUS
  <2> HIDE DEF T
  <2> QED BY <2>1, LeastElement
<1>2. x \in Nat /\ x \notin S /\ x # 0
  OBVIOUS
<1>3. x - 1 \in Nat /\ x - 1 \notin T
  BY <1>1, <1>2
<1> QED BY <1>2, <1>3

-----------------------------------------------------------------------------
(* Numbers modulo a width. *)

\* A number is so many turns, and what is left of them.
LEMMA TurnsOf ==
    ASSUME NEW n \in Nat \ {0}, NEW a \in Int
    PROVE  a = n * (a \div n) + (a % n) /\ a \div n \in Int /\ a % n \in 0 .. n - 1
OBVIOUS

\* There is one way to take a number apart like that.
LEMMA TurnsAreUnique ==
    ASSUME NEW n \in Nat \ {0}, NEW a \in Int, NEW q \in Int, NEW r \in 0 .. n - 1,
           a = n * q + r
    PROVE  a % n = r
<1> DEFINE p == a \div n
           s == a % n
<1>1. p \in Int /\ s \in 0 .. n - 1 /\ n * p + s = n * q + r
  BY TurnsOf
<1> HIDE DEF p, s
<1>2. n * (p - q) = r - s
  BY <1>1
<1>3. r - s < n /\ s - r < n
  BY <1>1
<1>4. CASE p - q >= 1
  <2>1. n * (p - q) >= n
    BY <1>1, <1>4
  <2> QED BY <1>1, <1>2, <1>3, <2>1
<1>5. CASE p - q <= -1
  <2>1. n * (p - q) <= -n
    BY <1>1, <1>5
  <2> QED BY <1>1, <1>2, <1>3, <2>1
<1>6. CASE p - q = 0
  <2>1. r - s = 0
    BY <1>1, <1>2, <1>6
  <2> QED BY <1>1, <2>1 DEF s
<1> QED BY <1>1, <1>4, <1>5, <1>6

\* Adding before or after the wrap makes no difference.
LEMMA WrapsOnce ==
    ASSUME NEW n \in Nat \ {0}, NEW a \in Int, NEW b \in Int
    PROVE  ((a % n) + b) % n = (a + b) % n
<1> DEFINE p == a \div n
           s == a % n
           q == (a + b) \div n
           r == (a + b) % n
<1>1. a = n * p + s /\ p \in Int /\ s \in 0 .. n - 1
  BY TurnsOf
<1>2. a + b = n * q + r /\ q \in Int /\ r \in 0 .. n - 1
  <2>1. a + b \in Int
    OBVIOUS
  <2> HIDE DEF q, r
  <2> QED BY <2>1, TurnsOf DEF q, r
<1> HIDE DEF p, s, q, r
<1>3. s + b = n * (q - p) + r /\ s + b \in Int /\ q - p \in Int
  BY <1>1, <1>2
<1>4. (s + b) % n = r
  BY <1>2, <1>3, TurnsAreUnique
<1> QED BY <1>4 DEF s, r

-----------------------------------------------------------------------------
(* FlattenSeq. *)

\* The recursion of FlattenSeq has a solution.
LEMMA FlattenExists ==
    ASSUME NEW seqs, NEW n \in Nat
    PROVE  \E u : u = [i \in 1 .. n |-> IF i = 1 THEN seqs[i] ELSE u[i - 1] \o seqs[i]]
<1> DEFINE F(u, k) == [i \in 1 .. k |-> IF i = 1 THEN seqs[i] ELSE u[i - 1] \o seqs[i]]
           P == {k \in Nat : \E u : u = F(u, k)}
<1>1. 0 \in P
  <2>1. \A u : F(u, 0) = [i \in {} |-> 0]
    OBVIOUS
  <2> QED BY <2>1
<1>2. ASSUME NEW k \in Nat, k \in P PROVE k + 1 \in P
  <2>1. PICK u : u = F(u, k)
    BY <1>2
  <2> DEFINE w == [i \in 1 .. k + 1 |-> IF i = 1 THEN seqs[i]
                                        ELSE IF i <= k THEN u[i] ELSE u[k] \o seqs[i]]
  <2>2. \A i \in 1 .. k : u[i] = IF i = 1 THEN seqs[i] ELSE u[i - 1] \o seqs[i]
    <3> HIDE DEF P
    <3> QED BY <2>1, Zenon
  <2>3. /\ \A i \in 1 .. k : w[i] = u[i]
        /\ w[k + 1] = IF k = 0 THEN seqs[1] ELSE u[k] \o seqs[k + 1]
    <3>1. ASSUME NEW i \in 1 .. k PROVE w[i] = u[i]
      <4>1. i \in 1 .. k + 1 /\ i <= k /\ (i = 1 => u[i] = seqs[i])
        BY <2>2
      <4> QED BY <4>1
    <3>2. k + 1 \in 1 .. k + 1 /\ ~(k + 1 <= k) /\ (k + 1 = 1 <=> k = 0)
      OBVIOUS
    <3> QED BY <3>1, <3>2
  <2>4. w = [i \in 1 .. k + 1 |-> w[i]]
    OBVIOUS
  <2> HIDE DEF w
  <2>5. ASSUME NEW i \in 1 .. k + 1
        PROVE  w[i] = IF i = 1 THEN seqs[i] ELSE w[i - 1] \o seqs[i]
    <3>1. CASE i <= k
      <4>1. i \in 1 .. k /\ (i # 1 => i - 1 \in 1 .. k)
        BY <3>1
      <4> QED BY <2>2, <2>3, <4>1
    <3>2. CASE i = k + 1
      <4>1. i = 1 <=> k = 0
        BY <3>2
      <4>2. k # 0 => k \in 1 .. k /\ i - 1 = k
        BY <3>2
      <4> QED BY <2>3, <3>2, <4>1, <4>2
    <3> QED BY <3>1, <3>2
  <2>6. w = F(w, k + 1)
    BY <2>4, <2>5
  <2> HIDE DEF F
  <2> QED BY <2>6
<1> HIDE DEF F
<1>3. Nat \subseteq P
  <2> HIDE DEF P
  <2> QED BY <1>1, <1>2, InductionOver
<1> QED BY <1>3 DEF F

\* The partial results of FlattenSeq.
LEMMA FlattenSteps ==
    ASSUME NEW S, NEW seqs \in Seq(Seq(S)), seqs # <<>>
    PROVE  \E u : /\ \A i \in 1 .. Len(seqs) :
                        /\ u[i] \in Seq(S)
                        /\ u[i] = IF i = 1 THEN seqs[i] ELSE u[i - 1] \o seqs[i]
                  /\ FlattenSeq(seqs) = u[Len(seqs)]
<1> DEFINE n == Len(seqs)
           F(u) == [i \in 1 .. n |-> IF i = 1 THEN seqs[i] ELSE u[i - 1] \o seqs[i]]
           u == CHOOSE v : v = F(v)
<1>1. n \in Nat /\ n # 0 /\ \A i \in 1 .. n : seqs[i] \in Seq(S)
  BY EmptySeq
<1>2. FlattenSeq(seqs) = u[n]
  BY <1>1 DEF FlattenSeq
<1>3. \E v : v = F(v)
  <2> HIDE DEF n
  <2> QED BY <1>1, FlattenExists
<1>4. u = F(u)
  <2> HIDE DEF F
  <2> QED BY <1>3
<1>5. \A i \in 1 .. n : u[i] = IF i = 1 THEN seqs[i] ELSE u[i - 1] \o seqs[i]
  <2> HIDE DEF u, n
  <2> QED BY <1>4, Zenon
<1> HIDE DEF u, F
<1> DEFINE P == {k \in Nat : k + 1 \in 1 .. n => u[k + 1] \in Seq(S)}
<1>6. 0 \in P
  BY <1>1, <1>5
<1>7. ASSUME NEW k \in Nat, k \in P PROVE k + 1 \in P
  <2> SUFFICES ASSUME (k + 1) + 1 \in 1 .. n PROVE u[(k + 1) + 1] \in Seq(S)
    OBVIOUS
  <2>1. k + 1 \in 1 .. n /\ u[k + 1] \in Seq(S)
    BY <1>1, <1>7
  <2>2. ((k + 1) + 1) - 1 = k + 1 /\ (k + 1) + 1 # 1
    OBVIOUS
  <2>3. u[(k + 1) + 1] = u[k + 1] \o seqs[(k + 1) + 1]
    BY <1>5, <2>2
  <2> QED BY <1>1, <2>1, <2>3
<1>8. Nat \subseteq P
  <2> HIDE DEF P
  <2> QED BY <1>6, <1>7, InductionOver
<1>9. ASSUME NEW i \in 1 .. n PROVE u[i] \in Seq(S)
  <2>1. i - 1 \in Nat /\ (i - 1) + 1 = i
    BY <1>1
  <2> QED BY <1>8, <2>1
<1> QED BY <1>2, <1>5, <1>9

\* An empty sequence, one more sequence at the end, and a sequence of one.
LEMMA FlattenAppend ==
    ASSUME NEW S, NEW seqs \in Seq(Seq(S)), NEW s \in Seq(S)
    PROVE  /\ FlattenSeq(seqs) \in Seq(S)
           /\ FlattenSeq(Append(seqs, s)) = FlattenSeq(seqs) \o s
           /\ seqs = <<>> => FlattenSeq(seqs) = <<>>
<1> DEFINE n == Len(seqs)
           more == Append(seqs, s)
<1>1. /\ more \in Seq(Seq(S)) /\ Len(more) = n + 1 /\ more # <<>> /\ more[n + 1] = s
      /\ n \in Nat /\ \A i \in 1 .. n : more[i] = seqs[i]
  BY AppendProperties, LenProperties
<1>2. PICK w : /\ \A i \in 1 .. Len(more) :
                     /\ w[i] \in Seq(S)
                     /\ w[i] = IF i = 1 THEN more[i] ELSE w[i - 1] \o more[i]
               /\ FlattenSeq(more) = w[Len(more)]
  <2> HIDE DEF more
  <2> QED BY <1>1, FlattenSteps
<1> HIDE DEF n, more
<1>3. CASE seqs = <<>>
  <2>1. n = 0 /\ FlattenSeq(seqs) = <<>>
    BY <1>3, EmptySeq DEF n, FlattenSeq
  <2>2. FlattenSeq(more) = s
    BY <1>1, <1>2, <2>1
  <2>3. <<>> \o s = s /\ <<>> \in Seq(S)
    BY ConcatEmptySeq, EmptySeq
  <2> QED BY <2>1, <2>2, <2>3 DEF more
<1>4. CASE seqs # <<>>
  <2>1. PICK u : /\ \A i \in 1 .. n :
                       /\ u[i] \in Seq(S)
                       /\ u[i] = IF i = 1 THEN seqs[i] ELSE u[i - 1] \o seqs[i]
                 /\ FlattenSeq(seqs) = u[n]
    BY <1>4, FlattenSteps DEF n
  <2>2. n # 0
    BY <1>4, EmptySeq DEF n
  <2> DEFINE P == {k \in Nat : k + 1 \in 1 .. n => u[k + 1] = w[k + 1]}
  <2>3. 0 \in P
    BY <1>1, <1>2, <2>1
  <2>4. ASSUME NEW k \in Nat, k \in P PROVE k + 1 \in P
    <3> SUFFICES ASSUME (k + 1) + 1 \in 1 .. n PROVE u[(k + 1) + 1] = w[(k + 1) + 1]
      OBVIOUS
    <3>1. k + 1 \in 1 .. n /\ u[k + 1] = w[k + 1]
      BY <1>1, <2>4
    <3>2. ((k + 1) + 1) - 1 = k + 1 /\ (k + 1) + 1 # 1 /\ (k + 1) + 1 \in 1 .. Len(more)
      BY <1>1
    <3>3. u[(k + 1) + 1] = u[k + 1] \o seqs[(k + 1) + 1]
      BY <2>1, <3>2
    <3>4. w[(k + 1) + 1] = w[k + 1] \o more[(k + 1) + 1]
      BY <1>2, <3>2
    <3> QED BY <1>1, <3>1, <3>3, <3>4
  <2>5. Nat \subseteq P
    <3> HIDE DEF P
    <3> QED BY <2>3, <2>4, InductionOver
  <2>6. u[n] = w[n]
    <3>1. n - 1 \in Nat /\ (n - 1) + 1 = n /\ n \in 1 .. n
      BY <1>1, <2>2
    <3> QED BY <2>5, <3>1
  <2>7. w[n + 1] = w[n] \o s
    <3>1. n + 1 \in 1 .. Len(more) /\ n + 1 # 1 /\ (n + 1) - 1 = n
      BY <1>1, <2>2
    <3> QED BY <1>1, <1>2, <3>1
  <2>8. n \in 1 .. n
    BY <1>1, <2>2
  <2> QED BY <1>1, <1>2, <1>4, <2>1, <2>6, <2>7, <2>8 DEF more
<1> QED BY <1>3, <1>4

\* Sequences grow at their end: what holds of <<>> and of Append holds of all.
LEMMA InductionOnAppend ==
    ASSUME NEW S, NEW P, <<>> \in P,
           \A s \in Seq(S), x \in S : s \in P => Append(s, x) \in P
    PROVE  Seq(S) \subseteq P
<1> DEFINE N == {n \in Nat : \A s \in Seq(S) : Len(s) = n => s \in P}
<1>1. 0 \in N
  BY EmptySeq
<1>2. ASSUME NEW n \in Nat, n \in N PROVE n + 1 \in N
  <2> SUFFICES ASSUME NEW s \in Seq(S), Len(s) = n + 1 PROVE s \in P
    OBVIOUS
  <2>1. s # <<>>
    BY EmptySeq
  <2>2. PICK t \in Seq(S), x \in S : s = Append(t, x)
    BY <2>1, SequenceEmptyOrAppend
  <2>3. Len(t) = n
    BY <2>2, AppendProperties, LenProperties
  <2> QED BY <1>2, <2>2, <2>3
<1>3. Nat \subseteq N
  <2> HIDE DEF N
  <2> QED BY <1>1, <1>2, InductionOver
<1> QED BY <1>3, LenProperties

\* Flattening two sequences of sequences in one go, or each by itself.
LEMMA FlattenConcat ==
    ASSUME NEW S, NEW a \in Seq(Seq(S)), NEW b \in Seq(Seq(S))
    PROVE  FlattenSeq(a \o b) = FlattenSeq(a) \o FlattenSeq(b)
<1> DEFINE P == {t \in Seq(Seq(S)) : FlattenSeq(a \o t) = FlattenSeq(a) \o FlattenSeq(t)}
<1>1. <<>> \in P
  <2>1. <<>> \in Seq(Seq(S)) /\ a \o <<>> = a
    BY EmptySeq, ConcatEmptySeq
  <2>2. FlattenSeq(a) \in Seq(S) /\ FlattenSeq(<<>>) = <<>>
    <3>1. <<>> \in Seq(S)
      BY EmptySeq
    <3> QED BY <2>1, <3>1, FlattenAppend
  <2>3. FlattenSeq(a) \o <<>> = FlattenSeq(a)
    BY <2>2, ConcatEmptySeq
  <2> QED BY <2>1, <2>2, <2>3
<1>2. ASSUME NEW t \in Seq(Seq(S)), NEW x \in Seq(S), t \in P PROVE Append(t, x) \in P
  <2>1. a \o Append(t, x) = Append(a \o t, x) /\ a \o t \in Seq(Seq(S))
        /\ Append(t, x) \in Seq(Seq(S))
    OBVIOUS
  <2>2. /\ FlattenSeq(a) \in Seq(S) /\ FlattenSeq(t) \in Seq(S)
        /\ FlattenSeq(Append(t, x)) = FlattenSeq(t) \o x
        /\ FlattenSeq(Append(a \o t, x)) = FlattenSeq(a \o t) \o x
    BY <2>1, FlattenAppend
  <2>3. (FlattenSeq(a) \o FlattenSeq(t)) \o x = FlattenSeq(a) \o (FlattenSeq(t) \o x)
    <3>1. PICK u, v : u = FlattenSeq(a) /\ v = FlattenSeq(t)
      OBVIOUS
    <3>2. u \in Seq(S) /\ v \in Seq(S)
      BY <2>2, <3>1
    <3>3. (u \o v) \o x = u \o (v \o x)
      BY <3>2, ConcatAssociative, SMTT(40)
    <3> QED BY <3>1, <3>3
  <2> QED BY <1>2, <2>1, <2>2, <2>3
<1> HIDE DEF P
<1>3. Seq(Seq(S)) \subseteq P
  BY <1>1, <1>2, InductionOnAppend
<1> QED BY <1>3 DEF P

\* What each element of ms becomes, one after the other.
Bring(f, ms) == FlattenSeq([i \in DOMAIN ms |-> f[ms[i]]])

LEMMA BringTyped ==
    ASSUME NEW T, NEW S, NEW f \in [T -> Seq(S)], NEW a \in Seq(T)
    PROVE  Bring(f, a) \in Seq(S) /\ Bring(f, <<>>) = <<>>
<1> DEFINE M(ms) == [i \in 1 .. Len(ms) |-> f[ms[i]]]
<1>1. ASSUME NEW ms \in Seq(T)
      PROVE  /\ M(ms) \in Seq(Seq(S)) /\ Len(M(ms)) = Len(ms)
             /\ Bring(f, ms) = FlattenSeq(M(ms))
  <2>1. DOMAIN ms = 1 .. Len(ms) /\ Len(ms) \in Nat
    BY LenProperties
  <2>2. \A i \in 1 .. Len(ms) : f[ms[i]] \in Seq(S)
    BY ElementOfSeq
  <2>3. M(ms) \in Seq(Seq(S)) /\ Len(M(ms)) = Len(ms)
    BY <2>1, <2>2
  <2> QED BY <2>1, <2>3 DEF Bring
<1>2. <<>> \in Seq(S) /\ <<>> \in Seq(Seq(S)) /\ <<>> \in Seq(T)
  BY EmptySeq
<1>3. Bring(f, a) \in Seq(S)
  <2> HIDE DEF M
  <2> QED BY <1>1, <1>2, FlattenAppend
<1>4. M(<<>>) = <<>>
  BY <1>1, <1>2, EmptySeq
<1>5. Bring(f, <<>>) = <<>>
  <2> HIDE DEF M
  <2> QED BY <1>1, <1>2, <1>4, FlattenAppend
<1> QED BY <1>3, <1>5

LEMMA BringConcat ==
    ASSUME NEW T, NEW S, NEW f \in [T -> Seq(S)], NEW a \in Seq(T), NEW b \in Seq(T)
    PROVE  Bring(f, a \o b) = Bring(f, a) \o Bring(f, b)
<1> DEFINE M(ms) == [i \in 1 .. Len(ms) |-> f[ms[i]]]
<1>1. ASSUME NEW ms \in Seq(T)
      PROVE  /\ M(ms) \in Seq(Seq(S)) /\ Len(M(ms)) = Len(ms)
             /\ Bring(f, ms) = FlattenSeq(M(ms))
  <2>1. DOMAIN ms = 1 .. Len(ms) /\ Len(ms) \in Nat
    BY LenProperties
  <2>2. \A i \in 1 .. Len(ms) : f[ms[i]] \in Seq(S)
    BY ElementOfSeq
  <2>3. M(ms) \in Seq(Seq(S)) /\ Len(M(ms)) = Len(ms)
    BY <2>1, <2>2
  <2> QED BY <2>1, <2>3 DEF Bring
<1>2. ASSUME NEW c \in Seq(T)
      PROVE  M(a \o c) = M(a) \o M(c) /\ a \o c \in Seq(T)
  <2>1. /\ a \o c \in Seq(T) /\ Len(a \o c) = Len(a) + Len(c)
        /\ \A i \in 1 .. Len(a) + Len(c) :
              (a \o c)[i] = IF i <= Len(a) THEN a[i] ELSE c[i - Len(a)]
    BY ConcatProperties
  <2>2. /\ M(a) \o M(c) \in Seq(Seq(S)) /\ Len(M(a) \o M(c)) = Len(a) + Len(c)
        /\ \A i \in 1 .. Len(a) + Len(c) :
              (M(a) \o M(c))[i] = IF i <= Len(a) THEN M(a)[i] ELSE M(c)[i - Len(a)]
    <3>1. M(a) \in Seq(Seq(S)) /\ M(c) \in Seq(Seq(S))
          /\ Len(M(a)) = Len(a) /\ Len(M(c)) = Len(c)
      BY <1>1
    <3> HIDE DEF M
    <3>2. PICK u, v : u = M(a) /\ v = M(c)
      OBVIOUS
    <3>3. /\ u \in Seq(Seq(S)) /\ Len(u) = Len(a)
          /\ v \in Seq(Seq(S)) /\ Len(v) = Len(c)
      BY <3>1, <3>2
    <3>4. /\ u \o v \in Seq(Seq(S)) /\ Len(u \o v) = Len(u) + Len(v)
          /\ \A i \in 1 .. Len(u) + Len(v) :
                (u \o v)[i] = IF i <= Len(u) THEN u[i] ELSE v[i - Len(u)]
      BY <3>3, ConcatProperties
    <3> QED BY <3>2, <3>3, <3>4
  <2>3. M(a \o c) \in Seq(Seq(S)) /\ Len(M(a \o c)) = Len(a) + Len(c)
    <3> HIDE DEF M
    <3> QED BY <1>1, <2>1
  <2>4. ASSUME NEW i \in 1 .. Len(a) + Len(c) PROVE M(a \o c)[i] = (M(a) \o M(c))[i]
    <3>1. Len(a) \in Nat /\ Len(c) \in Nat
      BY LenProperties
    <3>2. M(a \o c)[i] = f[(a \o c)[i]]
      BY <2>1
    <3>3. i <= Len(a) => M(a)[i] = f[a[i]]
      BY <3>1
    <3>4. ~(i <= Len(a)) => M(c)[i - Len(a)] = f[c[i - Len(a)]]
      <4>1. ~(i <= Len(a)) => i - Len(a) \in 1 .. Len(c)
        BY <3>1
      <4> QED BY <4>1
    <3> HIDE DEF M
    <3> QED BY <2>1, <2>2, <3>2, <3>3, <3>4
  <2> HIDE DEF M
  <2>5. PICK u, v : u = M(a \o c) /\ v = M(a) \o M(c)
    OBVIOUS
  <2>6. /\ u \in Seq(Seq(S)) /\ v \in Seq(Seq(S)) /\ Len(u) = Len(v)
        /\ \A i \in 1 .. Len(u) : u[i] = v[i]
    BY <2>2, <2>3, <2>4, <2>5
  <2>7. u = v
    BY <2>6, SeqEqual
  <2> QED BY <2>1, <2>5, <2>7
<1>3. /\ M(a) \in Seq(Seq(S)) /\ Bring(f, a) = FlattenSeq(M(a))
      /\ M(b) \in Seq(Seq(S)) /\ Bring(f, b) = FlattenSeq(M(b))
      /\ Bring(f, a \o b) = FlattenSeq(M(a \o b)) /\ M(a \o b) = M(a) \o M(b)
  BY <1>1, <1>2
<1>4. FlattenSeq(M(a) \o M(b)) = FlattenSeq(M(a)) \o FlattenSeq(M(b))
  <2> HIDE DEF M
  <2> QED BY <1>3, FlattenConcat
<1> HIDE DEF M
<1> QED BY <1>3, <1>4

LEMMA BringOne ==
    ASSUME NEW T, NEW S, NEW f \in [T -> Seq(S)], NEW x \in T
    PROVE  Bring(f, <<x>>) = f[x]
<1>1. f[x] \in Seq(S) /\ <<>> \in Seq(Seq(S))
  BY EmptySeq
<1>2. [i \in DOMAIN <<x>> |-> f[<<x>>[i]]] = Append(<<>>, f[x])
  OBVIOUS
<1>3. FlattenSeq(Append(<<>>, f[x])) = FlattenSeq(<<>>) \o f[x] /\ FlattenSeq(<<>>) = <<>>
  BY <1>1, FlattenAppend
<1>4. <<>> \o f[x] = f[x]
  BY <1>1, ConcatEmptySeq
<1> QED BY <1>2, <1>3, <1>4 DEF Bring

\* All of it, for one f.
Laws(f, T, S) ==
    /\ \A a \in Seq(T) : Bring(f, a) \in Seq(S)
    /\ Bring(f, <<>>) = <<>>
    /\ \A x \in T : Bring(f, <<x>>) = f[x]
    /\ \A a, b \in Seq(T) : Bring(f, a \o b) = Bring(f, a) \o Bring(f, b)
    /\ \A a \in Seq(T), x \in T :
          /\ Bring(f, Append(a, x)) = Bring(f, a) \o f[x]
          /\ Bring(f, <<x>> \o a) = f[x] \o Bring(f, a)

LEMMA BringLaws == ASSUME NEW T, NEW S, NEW f \in [T -> Seq(S)] PROVE Laws(f, T, S)
<1>1. \A a, b \in Seq(T) : Bring(f, a \o b) = Bring(f, a) \o Bring(f, b)
  BY BringConcat
<1>2. \A x \in T : Bring(f, <<x>>) = f[x]
  BY BringOne
<1>3. \A a \in Seq(T) : Bring(f, a) \in Seq(S)
  BY BringTyped
<1>4. Bring(f, <<>>) = <<>>
  <2>1. <<>> \in Seq(T)
    BY EmptySeq
  <2> QED BY <2>1, BringTyped
<1>5. ASSUME NEW a \in Seq(T), NEW x \in T
      PROVE  /\ Bring(f, Append(a, x)) = Bring(f, a) \o f[x]
             /\ Bring(f, <<x>> \o a) = f[x] \o Bring(f, a)
  <2>1. PICK y : y = <<x>>
    OBVIOUS
  <2>2. y \in Seq(T) /\ Append(a, x) = a \o y
    BY <2>1
  <2>3. Bring(f, y) = f[x]
    BY <1>2, <2>1
  <2>4. Bring(f, a \o y) = Bring(f, a) \o Bring(f, y)
    BY <1>1, <2>2
  <2>5. Bring(f, y \o a) = Bring(f, y) \o Bring(f, a)
    BY <1>1, <2>2
  <2> QED BY <2>1, <2>2, <2>3, <2>4, <2>5
<1> QED BY <1>1, <1>2, <1>3, <1>4, <1>5 DEF Laws

-----------------------------------------------------------------------------
(* Recursion along the numbers up to n: the step from i - 1 to i is step[<<x, i>>].  *)

\* There is a function that follows such a recursion, and it keeps to a set that the steps do
\* not leave.
UpTo(base, step, n) ==
    CHOOSE u : u = [i \in 0 .. n |-> IF i = 0 THEN base ELSE step[<<u[i - 1], i>>]]

LEMMA UpToChosen ==
    ASSUME NEW base, NEW step, NEW n \in Nat
    PROVE  UpTo(base, step, n) =
              [i \in 0 .. n |->
                  IF i = 0 THEN base ELSE step[<<UpTo(base, step, n)[i - 1], i>>]]
<1> DEFINE F(u, k) == [i \in 0 .. k |-> IF i = 0 THEN base ELSE step[<<u[i - 1], i>>]]
           P == {k \in Nat : \E u : u = F(u, k)}
<1>1. 0 \in P
  <2> DEFINE z == [i \in 0 .. 0 |-> base]
  <2>1. z = F(z, 0)
    OBVIOUS
  <2> QED BY <2>1
<1>2. ASSUME NEW k \in Nat, k \in P PROVE k + 1 \in P
  <2>1. PICK u : u = F(u, k)
    BY <1>2
  <2> DEFINE w == [i \in 0 .. k + 1 |-> IF i <= k THEN u[i] ELSE step[<<u[k], i>>]]
  <2>2. \A i \in 0 .. k : u[i] = IF i = 0 THEN base ELSE step[<<u[i - 1], i>>]
    <3> HIDE DEF P
    <3> QED BY <2>1, Zenon
  <2>3. (\A i \in 0 .. k : w[i] = u[i]) /\ w[k + 1] = step[<<u[k], k + 1>>]
    OBVIOUS
  <2>4. w = [i \in 0 .. k + 1 |-> w[i]]
    OBVIOUS
  <2> HIDE DEF w
  <2>5. ASSUME NEW i \in 0 .. k + 1
        PROVE  w[i] = IF i = 0 THEN base ELSE step[<<w[i - 1], i>>]
    <3>1. CASE i <= k
      <4>1. i \in 0 .. k /\ (i # 0 => i - 1 \in 0 .. k)
        BY <3>1
      <4> QED BY <2>2, <2>3, <4>1
    <3>2. CASE i = k + 1
      <4>1. i # 0 /\ i - 1 = k /\ k \in 0 .. k
        BY <3>2
      <4> QED BY <2>3, <3>2, <4>1
    <3> QED BY <3>1, <3>2
  <2>6. w = F(w, k + 1)
    BY <2>4, <2>5
  <2> HIDE DEF F
  <2> QED BY <2>6
<1> HIDE DEF F
<1>3. Nat \subseteq P
  <2> HIDE DEF P
  <2> QED BY <1>1, <1>2, InductionOver
<1>4. \E u : u = F(u, n)
  BY <1>3
<1>5. UpTo(base, step, n) = CHOOSE u : u = F(u, n)
  BY DEF UpTo, F
<1> HIDE DEF UpTo
<1>6. UpTo(base, step, n) = F(UpTo(base, step, n), n)
  BY <1>4, <1>5
<1> QED BY <1>6, Zenon DEF F

Iterates(u, base, step, n) == u[0] = base /\ \A i \in 1 .. n : u[i] = step[<<u[i - 1], i>>]

LEMMA UpToSteps ==
    ASSUME NEW V, NEW base \in V, NEW n \in Nat, NEW step \in [V \X (1 .. n) -> V]
    PROVE  \E u \in [0 .. n -> V] : Iterates(u, base, step, n)
<1> DEFINE u == UpTo(base, step, n)
<1>1. u = [i \in 0 .. n |-> IF i = 0 THEN base ELSE step[<<u[i - 1], i>>]]
  BY UpToChosen
<1> HIDE DEF u
<1>2. \A i \in 0 .. n : u[i] = IF i = 0 THEN base ELSE step[<<u[i - 1], i>>]
  BY <1>1, Zenon
<1>3. u[0] = base /\ \A i \in 1 .. n : u[i] = step[<<u[i - 1], i>>]
  <2>1. 0 \in 0 .. n /\ \A i \in 1 .. n : i \in 0 .. n /\ i # 0
    OBVIOUS
  <2> QED BY <1>2, <2>1, Zenon
<1> DEFINE P == {k \in Nat : k \in 0 .. n => u[k] \in V}
<1>4. 0 \in P
  BY <1>3
<1>5. ASSUME NEW k \in Nat, k \in P PROVE k + 1 \in P
  <2> SUFFICES ASSUME k + 1 \in 0 .. n PROVE u[k + 1] \in V
    OBVIOUS
  <2>1. k \in 0 .. n /\ k + 1 \in 1 .. n /\ (k + 1) - 1 = k
    OBVIOUS
  <2>2. u[k + 1] = step[<<u[k], k + 1>>] /\ u[k] \in V
    BY <1>3, <1>5, <2>1
  <2> QED BY <2>1, <2>2
<1>6. Nat \subseteq P
  <2> HIDE DEF P
  <2> QED BY <1>4, <1>5, InductionOver
<1>7. \A i \in 0 .. n : u[i] \in V
  BY <1>6
<1>8. u = [i \in 0 .. n |-> u[i]]
  BY <1>1
<1> QED BY <1>3, <1>7, <1>8 DEF Iterates

\* The first sequence comes first.
LEMMA FlattenHead ==
    ASSUME NEW S, NEW seqs \in Seq(Seq(S)), seqs # <<>>
    PROVE  FlattenSeq(seqs) = Head(seqs) \o FlattenSeq(Tail(seqs))
<1> DEFINE s == Head(seqs)
           rest == Tail(seqs)
<1>1. s \in Seq(S) /\ rest \in Seq(Seq(S)) /\ <<>> \in Seq(Seq(S))
  BY EmptySeq
<1>2. PICK none \in Seq(Seq(S)) : none = <<>>
  BY <1>1
<1> DEFINE one == Append(none, s)
<1>3. one \in Seq(Seq(S)) /\ FlattenSeq(one) = FlattenSeq(none) \o s /\ FlattenSeq(none) = <<>>
  <2>1. one \in Seq(Seq(S))
    BY <1>1, <1>2, AppendProperties
  <2>2. PICK x \in Seq(S) : x = s
    BY <1>1
  <2>3. FlattenSeq(Append(none, x)) = FlattenSeq(none) \o x
    BY <1>2, FlattenAppend
  <2>4. none = <<>> => FlattenSeq(none) = <<>>
    BY <1>2, FlattenAppend
  <2> HIDE DEF s, rest
  <2> QED BY <1>2, <2>1, <2>2, <2>3, <2>4, Zenon
<1>4. <<>> \o s = s
  BY <1>1, ConcatEmptySeq
<1>5. seqs = one \o rest
  BY <1>1, <1>2
<1> HIDE DEF s, rest
<1>6. FlattenSeq(one \o rest) = FlattenSeq(one) \o FlattenSeq(rest)
  BY <1>1, <1>3, FlattenConcat
<1> QED BY <1>3, <1>4, <1>5, <1>6 DEF s, rest
=============================================================================
