--------------------------- MODULE FlvFileProofs ---------------------------
(***************************************************************************)
(* Proofs about FlvFile: the bookkeeping of its writer and its reader      *)
(* (TypeOK), and that each read returns the tag that was written there,    *)
(* whatever the disk lost and wherever the reader met the file             *)
(* (ReadsBack); and about FlvTags, that media tags without a ModEx chain   *)
(* and without tracks are parsed as they were built.                       *)
(***************************************************************************)
EXTENDS FlvFile, Flattening, FiniteSetTheorems

-----------------------------------------------------------------------------
(* Sequences whose elements are of no known set: tags and what was read. *)

Listed(s) == Len(s) \in Nat /\ s = [i \in 1 .. Len(s) |-> s[i]]

LEMMA ListedParts ==
    ASSUME NEW s, Listed(s)
    PROVE  Len(s) \in Nat /\ DOMAIN s = 1 .. Len(s) /\ \E S : s \in Seq(S)
<1>1. Len(s) \in Nat /\ s = [i \in 1 .. Len(s) |-> s[i]]
  BY DEF Listed
<1> DEFINE S == {s[i] : i \in 1 .. Len(s)}
<1>2. s \in [1 .. Len(s) -> S]
  BY <1>1
<1>3. s \in Seq(S)
  <2> HIDE DEF S
  <2> QED BY <1>1, <1>2
<1> QED BY <1>1, <1>2, <1>3

LEMMA ListedAppend ==
    ASSUME NEW s, Listed(s), NEW e
    PROVE  /\ Listed(Append(s, e)) /\ Len(Append(s, e)) = Len(s) + 1
           /\ DOMAIN Append(s, e) = 1 .. Len(s) + 1 /\ DOMAIN s = 1 .. Len(s)
           /\ \A i \in DOMAIN s : Append(s, e)[i] = s[i]
           /\ Append(s, e)[Len(s) + 1] = e
<1>1. PICK S : s \in Seq(S)
  BY ListedParts
<1> DEFINE T == S \cup {e}
<1>2. s \in Seq(T) /\ e \in T
  BY <1>1
<1> HIDE DEF T
<1>3. Append(s, e) \in Seq(T) /\ Len(Append(s, e)) = Len(s) + 1 /\ Len(s) \in Nat
  BY <1>2
<1>4. Append(s, e) = [i \in 1 .. Len(Append(s, e)) |-> Append(s, e)[i]]
  <2>1. \A q \in Seq(T) : q = [i \in 1 .. Len(q) |-> q[i]]
    OBVIOUS
  <2> QED BY <1>3, <2>1
<1>5. /\ DOMAIN s = 1 .. Len(s) /\ DOMAIN Append(s, e) = 1 .. Len(s) + 1
      /\ \A i \in DOMAIN s : Append(s, e)[i] = s[i]
      /\ Append(s, e)[Len(s) + 1] = e
  BY <1>2, <1>3
<1> QED BY <1>3, <1>4, <1>5 DEF Listed

LEMMA EmptyListed == Listed(<<>>) /\ Len(<<>>) = 0 /\ DOMAIN <<>> = {}
<1> PICK e \in Seq(Int) : e = <<>>
  BY EmptySeq
<1>1. Len(e) = 0 /\ e = [i \in 1 .. Len(e) |-> e[i]] /\ DOMAIN e = {}
  OBVIOUS
<1> QED BY <1>1 DEF Listed

\* Two sequences, one behind the other, and a sequence cut in two.
LEMMA Joined ==
    ASSUME NEW s \in Seq(Int), NEW t \in Seq(Int)
    PROVE  /\ s \o t \in Seq(Int) /\ Len(s \o t) = Len(s) + Len(t)
           /\ \A p \in 1 .. Len(s) : (s \o t)[p] = s[p]
           /\ \A p \in 1 .. Len(t) : (s \o t)[Len(s) + p] = t[p]
<1>1. s \o t \in Seq(Int) /\ Len(s \o t) = Len(s) + Len(t)
  OBVIOUS
<1>2. \A p \in 1 .. Len(s) : (s \o t)[p] = s[p]
  BY ConcatProperties
<1>3. \A p \in 1 .. Len(t) : (s \o t)[Len(s) + p] = t[p]
  <2> TAKE p \in 1 .. Len(t)
  <2>1. Len(s) + p \in 1 .. Len(s) + Len(t) /\ ~(Len(s) + p <= Len(s)) /\ (Len(s) + p) - Len(s) = p
    OBVIOUS
  <2> QED BY <2>1, ConcatProperties
<1> QED BY <1>1, <1>2, <1>3

LEMMA ThreeJoined ==
    ASSUME NEW q \in Seq(Int), NEW r \in Seq(Int), NEW t \in Seq(Int)
    PROVE  (q \o r) \o t = q \o (r \o t)
BY ConcatAssociative, SMTT(40)

LEMMA Cut ==
    ASSUME NEW s \in Seq(Int), NEW k \in 0 .. Len(s)
    PROVE  /\ SubSeq(s, 1, k) \in Seq(Int) /\ Len(SubSeq(s, 1, k)) = k
           /\ \A p \in 1 .. k : SubSeq(s, 1, k)[p] = s[p]
           /\ From(s, k + 1) \in Seq(Int) /\ Len(From(s, k + 1)) = Len(s) - k
           /\ \A p \in 1 .. Len(s) - k : From(s, k + 1)[p] = s[k + p]
BY DEF From

\* A set of numbers that holds the smaller ones of each.
LEMMA FirstOnes ==
    ASSUME NEW n \in Nat, NEW T \in SUBSET (1 .. n),
           \A i \in T : \A j \in 1 .. n : j <= i => j \in T
    PROVE  Cardinality(T) \in 0 .. n /\ \A i \in 1 .. n : i \in T <=> i <= Cardinality(T)
<1> DEFINE U == {k \in Nat : k + 1 \notin T}
<1>1. U \in SUBSET Nat /\ n \in U
  OBVIOUS
<1>2. PICK k \in U : \A j \in U : k <= j
  <2> HIDE DEF U
  <2> QED BY <1>1, LeastElement
<1>3. k \in 0 .. n /\ k + 1 \notin T
  BY <1>1, <1>2
<1>4. \A i \in 1 .. n : i \in T => i <= k
  <2> TAKE i \in 1 .. n
  <2>1. CASE i > k
    <3>1. k + 1 \in 1 .. n /\ k + 1 <= i
      BY <1>3, <2>1
    <3> QED BY <1>3, <3>1
  <2> QED BY <1>3, <2>1
<1>5. \A i \in 1 .. k : i \in T
  <2> TAKE i \in 1 .. k
  <2>1. i - 1 \in Nat /\ ~(k <= i - 1) /\ (i - 1) + 1 = i
    BY <1>3
  <2> QED BY <1>2, <2>1
<1>6. T = 1 .. k
  <2>1. \A i \in T : i \in 1 .. n /\ i \in 1 .. k
    BY <1>3, <1>4
  <2>2. \A i \in 1 .. k : i \in T
    BY <1>5
  <2> QED BY <2>1, <2>2
<1>7. Cardinality(T) = k
  <2>1. Cardinality(1 .. k) = IF 1 > k THEN 0 ELSE k - 1 + 1
    BY <1>3, FS_Interval
  <2> QED BY <1>3, <1>6, <2>1
<1> QED BY <1>3, <1>4, <1>5, <1>7

-----------------------------------------------------------------------------
(* The inductive invariant.  The fields handed to the disk, those that are there and those that *)
(* are pending, are numbered through; what is known of a tag is known of each of its fields     *)
(* that is still there, so that the end of what a lost disk kept may be anywhere.               *)

Fields == disk \o pending
Total == Len(Fields)

\* Where the n-th tag ends, and where the i-th begins; before the first one is the header.
EndOf(n) == IF n = 0 THEN FileHeader + 1 ELSE tags[n].end
Start(i) == EndOf(i - 1)

Shaped ==
    /\ scene \in Scenes /\ left \in 0 .. scene.total
    /\ disk \in Seq(Int) /\ pending \in Seq(Int)
    /\ writer \in [state : {"open", "finished", "gone"}, prev : Nat, written : Nat]
    /\ Listed(tags) /\ Listed(got)
    /\ hurt \in {None} \cup Nat /\ garbled \in {None} \cup Nat
    /\ reader \in [state : {"closed", "refused", "open", "ended", "lost"}, pos : Nat,
                   flags : SUBSET {"audio", "video"}, last : Nat, read : Nat]

\* The tags are one behind the other.
InOrder ==
    /\ \A i \in DOMAIN tags : /\ tags[i].size \in 0 .. MaxSize /\ tags[i].end \in Nat
                              /\ tags[i].end = Start(i) + TagSize(tags[i].size) + 1
    /\ \A i, j \in DOMAIN tags : i < j => tags[i].end <= Start(j)
    /\ \A i \in DOMAIN tags : FileHeader < Start(i)

BodyAt(b, n) == [k \in 1 .. n |-> Fields[b + TagHeader + k]]

\* What is read of the tag behind position b, whose body has n fields, is what it says.
ReadBehind(b, n, said) ==
    LET read == TagOf(Fields[b + 1], Fields[b + 3] + TimeLow * Fields[b + 4], BodyAt(b, n))
    IN  read = said \/ ~Sayable(said)

Good(i) ==
    LET b == Start(i)
        n == tags[i].size
        end == tags[i].end
    IN  /\ b + 1 <= Total /\ garbled # i => Fields[b + 1] # 0
        /\ b + 2 <= Total => Fields[b + 2] = n
        /\ b + 5 <= Total /\ hurt # i => Fields[b + 5] = 0
        /\ b + 5 + n <= Total /\ garbled # i => ReadBehind(b, n, tags[i].said)
        /\ end <= Total /\ hurt # i => Fields[end] = TagSize(n)
        /\ hurt = i => end <= Len(disk) /\ (Fields[b + 5] # 0 \/ Fields[end] # TagSize(n))

Header ==
    hurt # 0 =>
        /\ 1 <= Total => Fields[1] = Signature
        /\ 2 <= Total => Fields[2] = Version
        /\ 3 <= Total /\ garbled # 0 => Fields[3] = FlagByte(scene.flags)
        /\ 4 <= Total => Fields[4] = FileHeader
        /\ 5 <= Total => Fields[5] = 0

\* What the writer knows, and when it has stopped.
Writing ==
    /\ writer.state = "open" => hurt = None /\ garbled = None
    /\ hurt # None => garbled = None
    /\ writer.state # "open" => pending = <<>>
    /\ writer.state # "gone" => writer.written = Total /\ Total = EndOf(Len(tags))
    /\ Total <= EndOf(Len(tags))
    /\ writer.prev = IF tags = <<>> THEN 0 ELSE TagSize(tags[Len(tags)].size)

\* Where the reader is.
Reading ==
    /\ hurt = 0 => ~Readable(disk) /\ reader.state \in {"closed", "refused"}
    /\ reader.state \in {"closed", "refused"} => got = <<>> /\ reader.pos = 0 /\ reader.read = 0
    /\ hurt = None /\ reader.state = "refused" =>
          scene.live \/ (writer.state # "open" /\ Len(disk) <= FileHeader)
    /\ reader.state = "open" =>
          Len(got) <= Len(tags) /\ reader.pos = EndOf(Len(got))
    /\ reader.state \in {"open", "ended"} =>
          /\ garbled # 0 => reader.flags = scene.flags
          /\ hurt = None => reader.read = reader.pos
    /\ reader.pos <= Len(disk) /\ reader.read <= reader.pos
    /\ Len(got) <= Len(tags) + 1

\* What has been read.
GoodRead(i) ==
    LET g == got[i] IN
    /\ g.whole \in Nat
    /\ g.res = End => g.whole = i - 1 /\ ~g.torn
    /\ g.res = Torn => g.whole = i - 1 /\ g.torn
    /\ g.res \notin {End, Torn} =>
          /\ i \in DOMAIN tags /\ Rightly(i, g.res)
          /\ i <= g.whole \/ tags[i].size > scene.cap

IInv ==
    /\ Shaped /\ InOrder /\ Header /\ Writing /\ Reading
    /\ \A i \in DOMAIN tags : Good(i)
    /\ \A i \in DOMAIN got : GoodRead(i)

-----------------------------------------------------------------------------
(* What follows of the invariant. *)

LEMMA Lengths ==
    ASSUME Shaped
    PROVE  /\ Len(disk) \in Nat /\ Len(pending) \in Nat /\ Total \in Nat /\ Len(disk) <= Total
           /\ Len(tags) \in Nat /\ DOMAIN tags = 1 .. Len(tags)
           /\ Len(got) \in Nat /\ DOMAIN got = 1 .. Len(got)
           /\ Total = Len(disk) + Len(pending) /\ Total = Len(Fields)
           /\ Fields \in Seq(Int) /\ \A p \in 1 .. Total : Fields[p] \in Int
           /\ \A p \in 1 .. Len(disk) : Fields[p] = disk[p]
<1>1. /\ Len(tags) \in Nat /\ DOMAIN tags = 1 .. Len(tags) /\ Total = Len(Fields)
      /\ Len(got) \in Nat /\ DOMAIN got = 1 .. Len(got)
  BY ListedParts DEF Shaped, Total
<1>2. disk \in Seq(Int) /\ pending \in Seq(Int) /\ Len(disk) \in Nat /\ Len(pending) \in Nat
  BY DEF Shaped
<1>3. /\ Fields \in Seq(Int) /\ Total = Len(disk) + Len(pending)
      /\ \A p \in 1 .. Len(disk) : Fields[p] = disk[p]
  <2>1. /\ disk \o pending \in Seq(Int) /\ Len(disk \o pending) = Len(disk) + Len(pending)
        /\ \A p \in 1 .. Len(disk) : (disk \o pending)[p] = disk[p]
    BY <1>2, Joined
  <2> QED BY <2>1 DEF Fields, Total
<1>4. \A p \in 1 .. Total : Fields[p] \in Int
  <2>1. \A q \in Seq(Int) : \A p \in 1 .. Len(q) : q[p] \in Int
    OBVIOUS
  <2> QED BY <1>1, <1>3, <2>1
<1>5. Total \in Nat /\ Len(disk) <= Total
  BY <1>2, <1>3
<1> QED BY <1>1, <1>2, <1>3, <1>4, <1>5

\* Where a tag ends and begins.
LEMMA Ends ==
    ASSUME Shaped, InOrder
    PROVE  /\ EndOf(0) = 5 /\ \A i \in DOMAIN tags : EndOf(i) = tags[i].end
           /\ \A n \in 0 .. Len(tags) : EndOf(n) \in Nat /\ EndOf(n) >= 5
           /\ \A n, m \in 0 .. Len(tags) : n <= m => EndOf(n) <= EndOf(m)
           /\ \A i \in DOMAIN tags :
                 /\ tags[i].size \in Nat /\ tags[i].size <= MaxSize /\ Start(i) \in Nat /\ Start(i) >= 5
                 /\ Start(i) = EndOf(i - 1) /\ tags[i].end = Start(i) + tags[i].size + 6
           /\ \A i, j \in DOMAIN tags : i < j => tags[i].end <= Start(j)
<1>1. Len(tags) \in Nat /\ DOMAIN tags = 1 .. Len(tags) /\ MaxSize \in Nat
  BY Lengths, FileConstants
<1>2. EndOf(0) = 5 /\ \A i \in DOMAIN tags : EndOf(i) = tags[i].end
  BY <1>1 DEF EndOf, FileHeader
<1>3. \A n \in 0 .. Len(tags) : EndOf(n) \in Nat
  BY <1>1, <1>2 DEF InOrder
<1>4. \A i \in DOMAIN tags :
         /\ tags[i].size \in Nat /\ tags[i].size <= MaxSize /\ Start(i) \in Nat /\ Start(i) >= 5
         /\ Start(i) = EndOf(i - 1) /\ tags[i].end = Start(i) + tags[i].size + 6
  <2> TAKE i \in DOMAIN tags
  <2>1. i - 1 \in 0 .. Len(tags)
    BY <1>1
  <2>2. (Start(i) \in Nat /\ FileHeader < Start(i)) \/ Start(i) = 5
    BY <1>1, <1>3, <2>1 DEF InOrder, Start
  <2> QED BY <1>1, <1>3, <2>1, <2>2 DEF InOrder, Start, TagSize, TagHeader, FileHeader
<1>5. \A n \in 0 .. Len(tags) : EndOf(n) >= 5
  BY <1>1, <1>2, <1>4
<1>6. \A i, j \in DOMAIN tags : i < j => tags[i].end <= Start(j)
  BY DEF InOrder
<1>7. \A n, m \in 0 .. Len(tags) : n <= m => EndOf(n) <= EndOf(m)
  <2> TAKE n, m \in 0 .. Len(tags)
  <2>1. CASE n = 0 \/ n = m
    BY <1>2, <1>3, <1>5, <2>1
  <2>2. CASE n # 0 /\ n < m
    <3>1. n \in DOMAIN tags /\ m \in DOMAIN tags
      BY <1>1, <2>2
    <3>2. tags[n].end <= Start(m) /\ Start(m) \in Nat /\ tags[m].size \in Nat
          /\ tags[m].end = Start(m) + tags[m].size + 6
      BY <1>4, <1>6, <2>2, <3>1
    <3>3. EndOf(n) = tags[n].end /\ EndOf(m) = tags[m].end /\ EndOf(n) \in Nat
      BY <1>2, <1>3, <3>1
    <3> QED BY <3>2, <3>3
  <2> QED BY <2>1, <2>2
<1> QED BY <1>2, <1>3, <1>4, <1>5, <1>6, <1>7

\* Whole is how many tags the disk has all of.
LEMMA WholeOnes ==
    ASSUME Shaped, InOrder
    PROVE  /\ Whole \in 0 .. Len(tags)
           /\ \A i \in DOMAIN tags : tags[i].end <= Len(disk) <=> i <= Whole
           /\ \A n \in 0 .. Len(tags) :
                 EndOf(n) <= Len(disk) /\ (n < Len(tags) => ~(EndOf(n + 1) <= Len(disk))) => Whole = n
<1> DEFINE T == {i \in DOMAIN tags : tags[i].end <= Len(disk)}
           size == Len(tags)
<1>1. size \in Nat /\ DOMAIN tags = 1 .. size /\ T \in SUBSET (1 .. size) /\ Len(disk) \in Nat
  BY Lengths
<1>2. \A i \in T : \A j \in 1 .. size : j <= i => j \in T
  <2> TAKE i \in T
  <2> TAKE j \in 1 .. size
  <2> HAVE j <= i
  <2>1. /\ i \in 0 .. size /\ j \in 0 .. size /\ i \in DOMAIN tags /\ j \in DOMAIN tags
        /\ tags[i].end <= Len(disk)
    BY <1>1
  <2>2. EndOf(j) <= EndOf(i) /\ EndOf(i) = tags[i].end /\ EndOf(j) = tags[j].end
        /\ EndOf(i) \in Nat /\ EndOf(j) \in Nat
    BY <2>1, Ends
  <2> QED BY <1>1, <2>1, <2>2
<1>3. Whole = Cardinality(T)
  BY DEF Whole
<1>4. \A i \in DOMAIN tags : i \in T <=> tags[i].end <= Len(disk)
  OBVIOUS
<1> HIDE DEF T, size
<1>5. Cardinality(T) \in 0 .. size /\ \A i \in 1 .. size : i \in T <=> i <= Cardinality(T)
  BY <1>1, <1>2, FirstOnes
<1>6. \A i \in DOMAIN tags : tags[i].end <= Len(disk) <=> i <= Whole
  BY <1>1, <1>3, <1>4, <1>5
<1>7. ASSUME NEW n \in 0 .. size, EndOf(n) <= Len(disk),
             n < size => ~(EndOf(n + 1) <= Len(disk))
      PROVE  Whole = n
  <2>1. n = 0 \/ n <= Whole
    BY <1>1, <1>6, <1>7, Ends
  <2>2. CASE n < size
    <3>1. n + 1 \in DOMAIN tags
      BY <1>1, <2>2
    <3>2. ~(n + 1 <= Whole)
      BY <1>6, <1>7, <2>2, <3>1, Ends
    <3> QED BY <1>1, <1>3, <1>5, <2>1, <3>2
  <2>3. CASE n = size
    BY <1>1, <1>3, <1>5, <2>1, <2>3
  <2> QED BY <1>1, <2>2, <2>3
<1> QED BY <1>3, <1>5, <1>6, <1>7 DEF size

\* A tag stays good as long as its fields do.
LEMMA GoodKept ==
    ASSUME Shaped, InOrder, NEW i \in DOMAIN tags, Good(i),
           tags'[i] = tags[i], Start(i)' = Start(i), hurt' = i <=> hurt = i,
           garbled' = i <=> garbled = i,
           hurt = i => Len(disk') = Len(disk) /\ Len(disk) <= Total', Total' \in Nat,
           \A p \in Nat : Start(i) < p /\ p <= tags[i].end /\ p <= Total' =>
                             p <= Total /\ Fields'[p] = Fields[p]
    PROVE  Good(i)'
<1> DEFINE b == Start(i)
           n == tags[i].size
           end == tags[i].end
           said == tags[i].said
<1>1. /\ b \in Nat /\ n \in Nat /\ end = b + n + 6 /\ Total \in Nat /\ Len(disk) <= Total
      /\ Len(disk) \in Nat
  BY Ends, Lengths
<1>2. b' = b /\ n' = n /\ end' = end /\ said' = said
  OBVIOUS
<1>3. \A p \in Nat : b < p /\ p <= end /\ p <= Total' => p <= Total /\ Fields'[p] = Fields[p]
  OBVIOUS
<1>4. /\ b + 1 <= Total /\ garbled # i => Fields[b + 1] # 0
      /\ b + 2 <= Total => Fields[b + 2] = n
      /\ b + 5 <= Total /\ hurt # i => Fields[b + 5] = 0
      /\ b + 5 + n <= Total /\ garbled # i => ReadBehind(b, n, said)
      /\ end <= Total /\ hurt # i => Fields[end] = TagSize(n)
      /\ hurt = i => end <= Len(disk) /\ (Fields[b + 5] # 0 \/ Fields[end] # TagSize(n))
  BY DEF Good
<1> HIDE DEF b, n, end, said
<1>5. b + 5 + n <= Total' /\ garbled' # i => ReadBehind(b, n, said)'
  <2> SUFFICES ASSUME b + 5 + n <= Total', garbled' # i
               PROVE  ReadBehind(b, n, said)'
    OBVIOUS
  <2>1. /\ Fields'[b + 1] = Fields[b + 1] /\ Fields'[b + 3] = Fields[b + 3]
        /\ Fields'[b + 4] = Fields[b + 4] /\ b + 5 + n <= Total
    BY <1>1, <1>3
  <2>2. BodyAt(b, n)' = BodyAt(b, n)
    <3>1. \A k \in 1 .. n : Fields'[b + TagHeader + k] = Fields[b + TagHeader + k]
      <4> TAKE k \in 1 .. n
      <4>1. b + TagHeader + k \in Nat /\ b < b + TagHeader + k
            /\ b + TagHeader + k <= end /\ b + TagHeader + k <= Total'
        BY <1>1 DEF TagHeader
      <4> QED BY <1>3, <4>1
    <3> QED BY <1>2, <3>1 DEF BodyAt
  <2>3. ReadBehind(b, n, said)
    BY <1>4, <2>1
  <2> QED BY <1>2, <2>1, <2>2, <2>3 DEF ReadBehind
<1>6. /\ b + 1 <= Total' /\ garbled' # i => Fields'[b + 1] # 0
      /\ b + 2 <= Total' => Fields'[b + 2] = n
      /\ b + 5 <= Total' /\ hurt' # i => Fields'[b + 5] = 0
  BY <1>1, <1>3, <1>4
<1>7. end <= Total' /\ hurt' # i => Fields'[end] = TagSize(n)
  BY <1>1, <1>3, <1>4, SMTT(30)
<1>8. hurt' = i => end <= Len(disk)' /\ (Fields'[b + 5] # 0 \/ Fields'[end] # TagSize(n))
  BY <1>1, <1>3, <1>4, SMTT(30)
<1> QED BY <1>2, <1>5, <1>6, <1>7, <1>8 DEF Good, b, n, end, said

\* The fields stay as they are when some of them reach the disk, and when more are handed to it.
LEMMA Reached ==
    ASSUME Shaped, NEW k \in 0 .. Len(pending),
           disk' = disk \o SubSeq(pending, 1, k), pending' = From(pending, k + 1)
    PROVE  /\ disk' \in Seq(Int) /\ pending' \in Seq(Int) /\ Fields' = Fields
           /\ Len(disk') = Len(disk) + k
<1> DEFINE a == SubSeq(pending, 1, k)
           b == From(pending, k + 1)
<1>1. /\ disk \in Seq(Int) /\ pending \in Seq(Int) /\ a \in Seq(Int) /\ b \in Seq(Int)
      /\ Len(a) = k /\ Len(b) = Len(pending) - k
      /\ \A p \in 1 .. k : a[p] = pending[p]
      /\ \A p \in 1 .. Len(pending) - k : b[p] = pending[k + p]
  BY Cut, ZenonT(40) DEF Shaped
<1>2. disk' = disk \o a /\ pending' = b
  OBVIOUS
<1> HIDE DEF a, b
<1>3. a \o b = pending
  <2> DEFINE c == a \o b
  <2>1. /\ c \in Seq(Int) /\ Len(c) = Len(a) + Len(b)
        /\ \A p \in 1 .. Len(a) : c[p] = a[p]
        /\ \A p \in 1 .. Len(b) : c[Len(a) + p] = b[p]
    BY <1>1, Joined
  <2> HIDE DEF c
  <2>0. Len(pending) \in Nat /\ k \in Nat /\ Len(c) = Len(pending) /\ Len(b) = Len(pending) - k
    BY <1>1, <2>1
  <2>2. \A p \in 1 .. Len(pending) : c[p] = pending[p]
    <3> TAKE p \in 1 .. Len(pending)
    <3>1. CASE p <= k
      <4>1. p \in 1 .. k
        BY <2>0, <3>1
      <4> QED BY <1>1, <2>1, <4>1
    <3>2. CASE ~(p <= k)
      <4>1. p - k \in 1 .. Len(b) /\ p - k \in 1 .. Len(pending) - k /\ k + (p - k) = p
        BY <2>0, <3>2
      <4>2. c[Len(a) + (p - k)] = b[p - k] /\ b[p - k] = pending[k + (p - k)]
        BY <1>1, <2>1, <4>1
      <4> QED BY <1>1, <4>1, <4>2
    <3> QED BY <3>1, <3>2
  <2>3. \A q, r \in Seq(Int) : Len(q) = Len(r) /\ (\A p \in 1 .. Len(q) : q[p] = r[p]) => q = r
    BY SeqEqual
  <2>4. c = pending
    BY <1>1, <2>0, <2>1, <2>2, <2>3
  <2> QED BY <2>4 DEF c
<1>4. (disk \o a) \o b = disk \o (a \o b)
  <2>1. disk \in Seq(Int) /\ a \in Seq(Int) /\ b \in Seq(Int)
    BY <1>1
  <2> QED BY <2>1, ThreeJoined
<1>5. disk \o a \in Seq(Int) /\ Len(disk \o a) = Len(disk) + k
  BY <1>1, Joined
<1> QED BY <1>1, <1>2, <1>3, <1>4, <1>5 DEF Fields

LEMMA Handed ==
    ASSUME Shaped, NEW t \in Seq(Int), disk' = disk, pending' = pending \o t
    PROVE  /\ pending' \in Seq(Int) /\ Fields' = Fields \o t /\ Total' = Total + Len(t)
           /\ \A p \in 1 .. Total : Fields'[p] = Fields[p]
           /\ \A p \in 1 .. Len(t) : Fields'[Total + p] = t[p]
<1>1. disk \in Seq(Int) /\ pending \in Seq(Int) /\ Fields \in Seq(Int) /\ Total = Len(Fields)
  BY Lengths DEF Shaped
<1>2. Fields' = Fields \o t
  <2>1. (disk \o pending) \o t = disk \o (pending \o t)
    BY <1>1, ConcatAssociative, SMTT(40)
  <2> QED BY <2>1 DEF Fields
<1>3. /\ Len(Fields \o t) = Len(Fields) + Len(t)
      /\ \A p \in 1 .. Len(Fields) : (Fields \o t)[p] = Fields[p]
      /\ \A p \in 1 .. Len(t) : (Fields \o t)[Len(Fields) + p] = t[p]
  BY <1>1, Joined
<1> QED BY <1>1, <1>2, <1>3 DEF Total

\* What has been read of a tag stays right: tags are added behind it.
LEMMA GoodReadKept ==
    ASSUME Shaped, NEW i \in DOMAIN got, GoodRead(i), got'[i] = got[i], scene' = scene,
           hurt' = hurt, garbled' = garbled, \A j \in DOMAIN tags : j \in DOMAIN tags' /\ tags'[j] = tags[j]
    PROVE  GoodRead(i)'
<1>1. CASE got[i].res = End \/ got[i].res = Torn
  BY <1>1 DEF GoodRead
<1>2. CASE got[i].res # End /\ got[i].res # Torn
  <2>1. i \in DOMAIN tags
    BY <1>2 DEF GoodRead
  <2>2. i \in DOMAIN tags' /\ tags'[i] = tags[i] /\ Expected(i)' = Expected(i)
    BY <2>1 DEF Expected
  <2>3. Rightly(i, got[i].res) => Rightly(i, got[i].res)'
    BY <2>2 DEF Rightly
  <2> QED BY <1>2, <2>1, <2>2, <2>3 DEF GoodRead
<1> QED BY <1>1, <1>2

-----------------------------------------------------------------------------
(* The writer and the disk keep the invariant. *)

LEMMA Parts ==
    ASSUME IInv
    PROVE  /\ Shaped /\ InOrder /\ Header /\ Writing /\ Reading
           /\ \A i \in DOMAIN tags : Good(i)
           /\ \A i \in DOMAIN got : GoodRead(i)
BY DEF IInv

\* While no tag is added and no field changes, what is known of the tags stays.
LEMMA Kept ==
    ASSUME IInv, UNCHANGED <<scene, tags, hurt, garbled, got>>, Total' \in Nat, Total' <= Total,
           \A p \in 1 .. Total' : Fields'[p] = Fields[p],
           hurt # None => Len(disk') = Len(disk) /\ Len(disk) <= Total'
    PROVE  /\ InOrder' /\ Header'
           /\ (\A i \in DOMAIN tags : Good(i))'
           /\ (\A i \in DOMAIN got : GoodRead(i))'
<1>1. InOrder'
  BY Parts DEF InOrder, Start, EndOf
<1>2. Header'
  <2>1. Total \in Nat
    BY Parts, Lengths
  <2>2. \A p \in {1, 2, 3, 4, 5} : p <= Total' => p <= Total /\ Fields'[p] = Fields[p]
    BY <2>1
  <2>3. Header
    BY Parts
  <2> QED BY <2>2, <2>3 DEF Header
<1>3. ASSUME NEW i \in DOMAIN tags
      PROVE  Good(i)'
  <2>1. Shaped /\ InOrder /\ Good(i) /\ Total \in Nat
    BY Parts, Lengths
  <2>2. Start(i)' = Start(i) /\ tags'[i] = tags[i]
    BY DEF Start, EndOf
  <2>3. \A p \in Nat : Start(i) < p /\ p <= tags[i].end /\ p <= Total' =>
                          p <= Total /\ Fields'[p] = Fields[p]
    <3>1. Start(i) \in Nat
      BY <2>1, Ends
    <3> QED BY <2>1, <3>1
  <2>4. hurt = i => Len(disk') = Len(disk) /\ Len(disk) <= Total'
    <3>1. i # None
      BY <2>1, Lengths DEF None
    <3> QED BY <3>1
  <2> QED BY <2>1, <2>2, <2>3, <2>4, GoodKept
<1>4. ASSUME NEW i \in DOMAIN got
      PROVE  GoodRead(i)'
  BY Parts, GoodReadKept
<1> QED BY <1>1, <1>2, <1>3, <1>4

LEMMA StepSink == ASSUME IInv, Sink PROVE IInv'
<1>1. Shaped /\ Writing /\ Reading
  BY Parts
<1>2. /\ pending # <<>> /\ UNCHANGED <<scene, left, writer, tags, misheard, hurt, garbled, reader, got>>
      /\ \E k \in 1 .. Len(pending) :
            disk' = disk \o SubSeq(pending, 1, k) /\ pending' = From(pending, k + 1)
  BY DEF Sink
<1>3. PICK k \in 1 .. Len(pending) :
            disk' = disk \o SubSeq(pending, 1, k) /\ pending' = From(pending, k + 1)
  BY <1>2
<1>4. /\ disk' \in Seq(Int) /\ pending' \in Seq(Int) /\ Fields' = Fields
      /\ Len(disk') = Len(disk) + k
  <2>1. k \in 0 .. Len(pending)
    BY <1>1, Lengths
  <2> QED BY <1>1, <1>3, <2>1, Reached
<1>5. Total' = Total /\ Total \in Nat /\ Len(disk) \in Nat /\ k \in Nat
  BY <1>1, <1>3, <1>4, Lengths DEF Total
<1>6. writer.state = "open" /\ hurt = None /\ garbled = None
  BY <1>1, <1>2 DEF Writing, Shaped
<1>7. Shaped'
  BY <1>1, <1>2, <1>4 DEF Shaped, Listed
<1>8. InOrder' /\ Header' /\ (\A i \in DOMAIN tags : Good(i))' /\ (\A i \in DOMAIN got : GoodRead(i))'
  BY <1>2, <1>4, <1>5, <1>6, Kept
<1>9. Writing'
  BY <1>1, <1>2, <1>5, <1>6 DEF Writing, EndOf
<1>10. Reading'
  <2>1. reader.pos \in Nat
    BY <1>1 DEF Shaped
  <2> QED BY <1>1, <1>2, <1>4, <1>5, <1>6, <2>1 DEF Reading, EndOf, None
<1> QED BY <1>7, <1>8, <1>9, <1>10 DEF IInv

LEMMA StepFinish == ASSUME IInv, Finish PROVE IInv'
<1>1. Shaped /\ Writing /\ Reading
  BY Parts
<1>2. /\ writer.state = "open" /\ writer' = [writer EXCEPT !.state = "finished"]
      /\ disk' = disk \o pending /\ pending' = <<>>
      /\ UNCHANGED <<scene, left, tags, misheard, hurt, garbled, reader, got>>
  BY DEF Finish
<1>3. /\ disk' \in Seq(Int) /\ pending' \in Seq(Int) /\ Fields' = Fields
      /\ Len(disk') = Len(disk) + Len(pending)
  <2>1. disk \in Seq(Int) /\ pending \in Seq(Int)
    BY <1>1 DEF Shaped
  <2>2. disk' \in Seq(Int) /\ Len(disk') = Len(disk) + Len(pending) /\ disk' \o <<>> = disk'
    BY <1>2, <2>1, Joined, ConcatEmptySeq
  <2> QED BY <1>2, <2>2, EmptySeq DEF Fields
<1>4. Total' = Total /\ Total \in Nat /\ Len(disk) \in Nat /\ Len(pending) \in Nat
  BY <1>1, <1>3, Lengths DEF Total
<1>5. hurt = None
  BY <1>1, <1>2 DEF Writing
<1>6. Shaped'
  <2>1. writer' \in [state : {"open", "finished", "gone"}, prev : Nat, written : Nat]
    BY <1>1, <1>2 DEF Shaped
  <2> QED BY <1>1, <1>2, <1>3, <2>1 DEF Shaped, Listed
<1>7. InOrder' /\ Header' /\ (\A i \in DOMAIN tags : Good(i))' /\ (\A i \in DOMAIN got : GoodRead(i))'
  BY <1>2, <1>3, <1>4, <1>5, Kept
<1>8. writer'.state = "finished" /\ writer'.prev = writer.prev /\ writer'.written = writer.written
  BY <1>1, <1>2 DEF Shaped
<1>9. Writing'
  BY <1>1, <1>2, <1>4, <1>5, <1>8 DEF Writing, EndOf
<1>10. Reading'
  <2>1. reader.pos \in Nat
    BY <1>1 DEF Shaped
  <2> QED BY <1>1, <1>2, <1>3, <1>4, <1>5, <2>1 DEF Reading, EndOf, None
<1> QED BY <1>6, <1>7, <1>9, <1>10 DEF IInv

LEMMA StepStop == ASSUME IInv, Stop PROVE IInv'
<1>1. Shaped /\ Writing /\ Reading
  BY Parts
<1>2. /\ writer.state = "open" /\ writer' = [writer EXCEPT !.state = "gone"] /\ pending' = <<>>
      /\ UNCHANGED <<scene, left, disk, tags, misheard, hurt, garbled, reader, got>>
  BY DEF Stop
<1>3. /\ disk \in Seq(Int) /\ Fields' = disk /\ Total' = Len(disk) /\ Len(disk) \in Nat
      /\ Total \in Nat /\ Len(disk) <= Total /\ pending' \in Seq(Int)
      /\ \A p \in 1 .. Len(disk) : Fields[p] = disk[p]
  <2>1. disk \in Seq(Int) /\ disk \o <<>> = disk
    BY <1>1, ConcatEmptySeq DEF Shaped
  <2> QED BY <1>1, <1>2, <2>1, EmptySeq, Lengths DEF Fields, Total
<1>5. hurt = None
  BY <1>1, <1>2 DEF Writing
<1>6. Shaped'
  <2>1. writer' \in [state : {"open", "finished", "gone"}, prev : Nat, written : Nat]
    BY <1>1, <1>2 DEF Shaped
  <2> QED BY <1>1, <1>2, <1>3, <2>1 DEF Shaped, Listed
<1>7. InOrder' /\ Header' /\ (\A i \in DOMAIN tags : Good(i))' /\ (\A i \in DOMAIN got : GoodRead(i))'
  BY <1>2, <1>3, <1>5, Kept
<1>8. writer'.state = "gone" /\ writer'.prev = writer.prev
  BY <1>1, <1>2 DEF Shaped
<1>9. Writing'
  <2>1. Total' <= EndOf(Len(tags))
    <3>1. EndOf(Len(tags)) \in Nat
      BY Parts, Ends, Lengths
    <3> QED BY <1>1, <1>3, <3>1 DEF Writing
  <2> QED BY <1>1, <1>2, <1>5, <1>8, <2>1 DEF Writing, EndOf
<1>10. Reading'
  BY <1>1, <1>2, <1>5 DEF Reading, EndOf, None
<1> QED BY <1>6, <1>7, <1>9, <1>10 DEF IInv

LEMMA HeaderInside ==
    ASSUME NEW x \in Nat, NEW y \in Nat, NEW z \in Nat, x + y + 6 <= z
    PROVE  /\ x + 1 \in 1 .. z /\ x + 2 \in 1 .. z /\ x + 3 \in 1 .. z /\ x + 4 \in 1 .. z
           /\ \A w \in {x + 1, x + 2, x + 3, x + 4} : w # x + 5 /\ w # x + y + 6
OBVIOUS

\* A damaged tag differs in one place, and a reader sees that; what else is known of it stays.
LEMMA TagDamaged ==
    ASSUME Shaped, InOrder, pending = <<>>, pending' = <<>>, NEW i \in DOMAIN tags, Good(i),
           hurt = None, hurt' = i, garbled = None, garbled' = None, UNCHANGED tags,
           NEW at \in {tags[i].end - tags[i].size - 1, tags[i].end}, tags[i].end <= Len(disk),
           disk' \in Seq(Int), Len(disk') = Len(disk), disk'[at] # disk[at],
           \A p \in 1 .. Len(disk) : p # at => disk'[p] = disk[p]
    PROVE  Good(i)'
<1> DEFINE b == Start(i)
           n == tags[i].size
           end == tags[i].end
           said == tags[i].said
<1>1. /\ b \in Nat /\ n \in Nat /\ end = b + n + 6 /\ Len(disk) \in Nat /\ i # None
  <2>1. i \in 1 .. Len(tags) /\ Len(tags) \in Nat /\ Len(disk) \in Nat
    BY Lengths
  <2>2. b \in Nat /\ n \in Nat /\ end = b + n + 6
    BY Ends
  <2> QED BY <2>1, <2>2 DEF None
<1>2. b' = b /\ n' = n /\ end' = end /\ said' = said
  BY DEF Start, EndOf
<1>3. Fields = disk /\ Fields' = disk' /\ Total = Len(disk) /\ Total' = Len(disk)
  <2>1. disk \in Seq(Int)
    BY DEF Shaped
  <2>2. disk \o <<>> = disk /\ disk' \o <<>> = disk'
    BY <2>1, ConcatEmptySeq
  <2> QED BY <2>2 DEF Fields, Total
<1>5. at = b + 5 \/ at = end
  <2>1. at = end - n - 1 \/ at = end
    OBVIOUS
  <2> QED BY <1>1, <2>1
<1>6. end <= Len(disk)
  OBVIOUS
<1>4. /\ Fields[b + 1] # 0 /\ Fields[b + 2] = n /\ Fields[b + 5] = 0
      /\ ReadBehind(b, n, said) /\ Fields[end] = TagSize(n)
  <2>1. /\ b + 1 <= Total /\ b + 2 <= Total /\ b + 5 <= Total /\ b + 5 + n <= Total
        /\ end <= Total
    <3>1. Total = Len(disk) /\ end <= Total
      BY <1>3, <1>6
    <3> HIDE DEF b, n, end
    <3> QED BY <1>1, <3>1
  <2>2. hurt # i /\ garbled # i
    BY <1>1
  <2> QED BY <2>1, <2>2 DEF Good
<1> HIDE DEF b, n, end, said
<1>7. \A p \in 1 .. Len(disk) : p # b + 5 /\ p # end => Fields'[p] = Fields[p]
  BY <1>3, <1>5
<1>12. /\ b + 1 \in 1 .. Len(disk) /\ b + 2 \in 1 .. Len(disk) /\ b + 3 \in 1 .. Len(disk)
       /\ b + 4 \in 1 .. Len(disk)
       /\ \A x \in {b + 1, b + 2, b + 3, b + 4} : x # b + 5 /\ x # end
  <2>1. b \in Nat /\ n \in Nat /\ Len(disk) \in Nat /\ b + n + 6 <= Len(disk)
    BY <1>1, <1>6
  <2> QED BY <1>1, <2>1, HeaderInside
<1>8. ReadBehind(b, n, said)'
  <2>1. /\ Fields'[b + 1] = Fields[b + 1] /\ Fields'[b + 3] = Fields[b + 3]
        /\ Fields'[b + 4] = Fields[b + 4]
    BY <1>7, <1>12
  <2>2. BodyAt(b, n)' = BodyAt(b, n)
    <3>1. \A k \in 1 .. n : Fields'[b + TagHeader + k] = Fields[b + TagHeader + k]
      <4> TAKE k \in 1 .. n
      <4>1. /\ b + TagHeader + k \in 1 .. Len(disk) /\ b + TagHeader + k # b + 5
            /\ b + TagHeader + k # end
        BY <1>1, <1>6 DEF TagHeader
      <4> QED BY <1>7, <4>1
    <3> QED BY <1>2, <3>1 DEF BodyAt
  <2> QED BY <1>2, <1>4, <2>1, <2>2 DEF ReadBehind
<1>9. Fields'[b + 1] # 0 /\ Fields'[b + 2] = n
  BY <1>4, <1>7, <1>12
<1>10. Fields'[b + 5] # 0 \/ Fields'[end] # TagSize(n)
  BY <1>3, <1>4, <1>5
<1>11. end' <= Len(disk)' /\ hurt' = i
  BY <1>2, <1>6
<1> QED BY <1>2, <1>8, <1>9, <1>10, <1>11 DEF Good, b, n, end, said

\* No reader accepts a file whose header is damaged.
LEMMA HeaderDamaged ==
    ASSUME IInv, pending = <<>>, hurt = None, garbled = None, NEW at \in {1, 2, 4, 5}, at <= Len(disk),
           disk' \in Seq(Int), Len(disk') = Len(disk), NEW d \in {-1, 1},
           disk[at] + d >= 0, disk'[at] = disk[at] + d,
           \A p \in 1 .. Len(disk) : p # at => disk'[p] = disk[p]
    PROVE  ~Readable(disk')
<1> SUFFICES ASSUME Readable(disk') PROVE FALSE
  OBVIOUS
<1>1. Shaped /\ InOrder /\ Header /\ Writing
  BY Parts
<1>2. Fields = disk /\ Total = Len(disk) /\ Len(disk) \in Nat
  <2>1. disk \in Seq(Int)
    BY <1>1 DEF Shaped
  <2>2. disk \o <<>> = disk
    BY <2>1, ConcatEmptySeq
  <2> QED BY <1>1, <2>2, Lengths DEF Fields, Total
<1>3. /\ Len(disk) >= 4 /\ disk'[1] = 70 /\ disk'[2] = 1 /\ disk'[4] >= 4
      /\ Len(disk) > disk'[4] /\ disk'[disk'[4] + 1] = 0
  BY DEF Readable, Signature, Version, FileHeader
<1>4. disk[1] = 70 /\ disk[2] = 1 /\ disk[4] = 4
  <2>1. hurt # 0
    BY DEF None
  <2> QED BY <1>1, <1>2, <1>3, <2>1, SMTT(30) DEF Header, Signature, Version, FileHeader
<1>5. at # 1 /\ at # 2
  BY <1>3, <1>4, SMTT(30)
<1>6. CASE at = 4
  <2>1. disk'[4] = 5 /\ Len(disk) >= 6 /\ disk'[6] = 0
    BY <1>2, <1>3, <1>4, <1>6, SMTT(30)
  <2>2. disk[6] = 0
    BY <1>2, <1>6, <2>1
  <2>3. Len(tags) # 0 /\ Len(tags) \in Nat /\ DOMAIN tags = 1 .. Len(tags)
    <3>1. EndOf(0) = 5 /\ Total <= EndOf(Len(tags)) /\ Len(tags) \in Nat
      BY <1>1, Ends, Lengths DEF Writing
    <3> QED BY <1>1, <1>2, <2>1, <3>1, Lengths
  <2>4. 1 \in DOMAIN tags
    BY <2>3
  <2>5. Good(1) /\ Start(1) = 5
    BY <1>1, <2>4, Parts, Ends
  <2> QED BY <1>2, <2>1, <2>2, <2>5, SMTT(30) DEF Good, None
<1>7. CASE at = 5
  <2>1. disk'[4] = 4 /\ disk'[5] = 0 /\ disk[5] = 0
    <3>1. hurt # 0
      BY DEF None
    <3> QED BY <1>1, <1>2, <1>3, <1>4, <1>7, <3>1 DEF Header
  <2> QED BY <1>7, <2>1
<1> QED BY <1>5, <1>6, <1>7

LEMMA StepDamage == ASSUME IInv, Damage PROVE IInv'
<1>1. Shaped /\ InOrder /\ Header /\ Writing /\ Reading
  BY Parts
<1>2. /\ hurt = None /\ writer.state # "open" /\ reader.state = "closed"
      /\ garbled = None /\ garbled' = None
      /\ UNCHANGED <<scene, left, pending, writer, tags, misheard, reader, got>>
  BY DEF Damage, Damageable
<1>3. PICK i \in 0 .. Whole :
          \E at \in IF i = 0 THEN {1, 2, 4, 5} ELSE {tags[i].end - tags[i].size - 1, tags[i].end} :
             /\ at <= Len(disk)
             /\ hurt' = i
             /\ \E d \in {-1, 1} :
                   disk[at] + d >= 0 /\ disk' = [disk EXCEPT ![at] = @ + d]
  BY DEF Damage, Checked, Spoil
<1>4. PICK at \in IF i = 0 THEN {1, 2, 4, 5} ELSE {tags[i].end - tags[i].size - 1, tags[i].end} :
             /\ at <= Len(disk)
             /\ \E d \in {-1, 1} :
                   disk[at] + d >= 0 /\ disk' = [disk EXCEPT ![at] = @ + d]
  BY <1>3
<1>5. PICK d \in {-1, 1} : disk[at] + d >= 0 /\ disk' = [disk EXCEPT ![at] = @ + d]
  BY <1>4
<1>6. hurt' = i /\ i \in Nat /\ (i # 0 => i \in DOMAIN tags /\ tags[i].end <= Len(disk))
  <2>1. Whole \in 0 .. Len(tags) /\ Len(tags) \in Nat /\ DOMAIN tags = 1 .. Len(tags)
    BY <1>1, WholeOnes, Lengths
  <2> QED BY <1>1, <1>3, <2>1, WholeOnes
<1>7. at \in 1 .. Len(disk) /\ (i # 0 => at > 5)
  <2>1. Len(disk) \in Nat
    BY <1>1, Lengths
  <2>2. CASE i = 0
    BY <1>4, <2>1, <2>2
  <2>3. CASE i # 0
    <3>1. /\ tags[i].size \in Nat /\ Start(i) \in Nat /\ Start(i) >= 5
          /\ tags[i].end = Start(i) + tags[i].size + 6
      BY <1>1, <1>6, <2>3, Ends
    <3> QED BY <1>4, <2>1, <2>3, <3>1, SMTT(30)
  <2> QED BY <2>2, <2>3
<1>8. /\ disk \in Seq(Int) /\ disk' \in Seq(Int) /\ Len(disk') = Len(disk) /\ Len(disk) \in Nat
      /\ disk'[at] = disk[at] + d /\ disk'[at] # disk[at]
      /\ \A p \in 1 .. Len(disk) : p # at => disk'[p] = disk[p]
  <2>1. disk \in Seq(Int)
    BY <1>1 DEF Shaped
  <2>2. disk[at] \in Int
    BY <1>7, <2>1
  <2> QED BY <1>5, <1>7, <2>1, <2>2
<1>9. pending = <<>> /\ pending' = <<>> /\ got = <<>>
  BY <1>1, <1>2 DEF Writing, Reading
<1>10. /\ Fields = disk /\ Fields' = disk' /\ Total = Len(disk) /\ Total' = Len(disk)
  <2>1. disk \o <<>> = disk /\ disk' \o <<>> = disk'
    BY <1>8, ConcatEmptySeq
  <2> QED BY <1>8, <1>9, <2>1 DEF Fields, Total
<1>11. Shaped'
  BY <1>1, <1>2, <1>6, <1>8 DEF Shaped, Listed
<1>12. InOrder'
  BY <1>1, <1>2 DEF InOrder, Start, EndOf
<1>13. Header'
  <2>1. CASE i = 0
    BY <1>6, <2>1 DEF Header
  <2>2. CASE i # 0
    <3>1. \A p \in {1, 2, 3, 4, 5} : p <= Total' => p <= Total /\ Fields'[p] = Fields[p]
      <4> TAKE p \in {1, 2, 3, 4, 5}
      <4> HAVE p <= Total'
      <4>1. p \in 1 .. Len(disk) /\ p # at
        BY <1>7, <1>8, <1>10, <2>2
      <4> QED BY <1>8, <1>10, <4>1
    <3>2. hurt # 0
      BY <1>2 DEF None
    <3> QED BY <1>1, <1>2, <3>1, <3>2 DEF Header
  <2> QED BY <2>1, <2>2
<1>14. ASSUME NEW j \in DOMAIN tags
       PROVE  Good(j)'
  <2>1. Good(j)
    BY Parts
  <2>2. CASE j = i
    <3>1. i # 0
      BY <1>1, <2>2, Lengths
    <3> QED BY <1>1, <1>2, <1>4, <1>6, <1>8, <1>9, <2>1, <2>2, <3>1, TagDamaged
  <2>3. CASE j # i
    <3>1. Start(j)' = Start(j) /\ tags'[j] = tags[j]
      BY <1>2 DEF Start, EndOf
    <3>2. /\ Start(j) \in Nat /\ Start(j) >= 5 /\ tags[j].size \in Nat
          /\ tags[j].end = Start(j) + tags[j].size + 6
      BY <1>1, Ends
    <3>3. at <= Start(j) \/ at > tags[j].end
      <4>1. CASE i = 0
        BY <1>4, <3>2, <4>1
      <4>2. CASE i # 0
        <5>1. /\ i \in DOMAIN tags /\ tags[i].size \in Nat /\ Start(i) \in Nat
              /\ tags[i].end = Start(i) + tags[i].size + 6
          BY <1>1, <1>6, <4>2, Ends
        <5>2. tags[i].end <= Start(j) \/ tags[j].end <= Start(i)
          <6>1. i \in Nat /\ j \in Nat
            BY <1>1, <1>6, Lengths
          <6>2. i < j \/ j < i
            BY <2>3, <6>1
          <6> QED BY <1>1, <5>1, <6>2, Ends
        <5>3. at \in {tags[i].end - tags[i].size - 1, tags[i].end}
          BY <1>4, <4>2
        <5>4. Start(i) < at /\ at <= tags[i].end
          BY <5>1, <5>3
        <5> QED BY <1>7, <3>2, <5>1, <5>2, <5>4, SMTT(30)
      <4> QED BY <4>1, <4>2
    <3>4. \A p \in Nat : Start(j) < p /\ p <= tags[j].end /\ p <= Total' =>
                            p <= Total /\ Fields'[p] = Fields[p]
      <4> TAKE p \in Nat
      <4> HAVE Start(j) < p /\ p <= tags[j].end /\ p <= Total'
      <4>1. p \in 1 .. Len(disk)
        BY <1>8, <1>10, <3>2
      <4>2. p # at
        BY <1>7, <3>2, <3>3
      <4> QED BY <1>8, <1>10, <4>1, <4>2
    <3>5. hurt # j /\ hurt' # j /\ garbled # j /\ garbled' # j
      BY <1>1, <1>2, <1>6, <2>3, Lengths DEF None
    <3>6. Total' \in Nat
      BY <1>8, <1>10
    <3> QED BY <1>1, <2>1, <3>1, <3>4, <3>5, <3>6, GoodKept
  <2> QED BY <2>2, <2>3
<1>15. Writing'
  BY <1>1, <1>2, <1>8, <1>10 DEF Writing, EndOf
<1>16. Reading'
  <2>1. hurt' = 0 => ~Readable(disk)'
    <3> SUFFICES ASSUME i = 0
                 PROVE  ~Readable(disk')
      BY <1>6
    <3>1. at \in {1, 2, 4, 5}
      BY <1>4
    <3> QED BY <1>2, <1>4, <1>5, <1>8, <1>9, <3>1, HeaderDamaged
  <2>2. hurt' # None
    BY <1>6 DEF None
  <2> QED BY <1>1, <1>2, <1>8, <2>1, <2>2 DEF Reading
<1>17. (\A j \in DOMAIN got : GoodRead(j))'
  BY <1>2, <1>9, EmptyListed
<1> QED BY <1>2, <1>11, <1>12, <1>13, <1>14, <1>15, <1>16, <1>17 DEF IInv

\* A tag whose damage nobody looks for has the size it had, and what is around it is right.
LEMMA TagGarbled ==
    ASSUME Shaped, InOrder, pending = <<>>, pending' = <<>>, NEW i \in DOMAIN tags, Good(i),
           hurt = None, hurt' = None, garbled' = i, UNCHANGED tags, tags[i].end <= Len(disk),
           NEW at \in 1 .. Len(disk), at # Start(i) + 2, at # Start(i) + 5, at # tags[i].end,
           disk' \in Seq(Int), Len(disk') = Len(disk),
           \A p \in 1 .. Len(disk) : p # at => disk'[p] = disk[p]
    PROVE  Good(i)'
<1> DEFINE b == Start(i)
           n == tags[i].size
           end == tags[i].end
<1>1. /\ b \in Nat /\ n \in Nat /\ end = b + n + 6 /\ Len(disk) \in Nat /\ i # None
  <2>1. i \in 1 .. Len(tags) /\ Len(tags) \in Nat /\ Len(disk) \in Nat
    BY Lengths
  <2>2. b \in Nat /\ n \in Nat /\ end = b + n + 6
    BY Ends
  <2> QED BY <2>1, <2>2 DEF None
<1>2. b' = b /\ n' = n /\ end' = end
  BY DEF Start, EndOf
<1>3. Fields = disk /\ Fields' = disk' /\ Total = Len(disk) /\ Total' = Len(disk)
  <2>1. disk \in Seq(Int)
    BY DEF Shaped
  <2>2. disk \o <<>> = disk /\ disk' \o <<>> = disk'
    BY <2>1, ConcatEmptySeq
  <2> QED BY <2>2 DEF Fields, Total
<1>4. end <= Len(disk) /\ at # b + 2 /\ at # b + 5 /\ at # end
  OBVIOUS
<1>5. /\ b + 2 <= Total => Fields[b + 2] = n
      /\ b + 5 <= Total => Fields[b + 5] = 0
      /\ end <= Total => Fields[end] = TagSize(n)
  BY <1>1 DEF Good
<1> HIDE DEF b, n, end
<1>6. b + 2 \in 1 .. Len(disk) /\ b + 5 \in 1 .. Len(disk) /\ end \in 1 .. Len(disk)
  BY <1>1, <1>4
<1>7. /\ Fields'[b + 2] = Fields[b + 2] /\ Fields'[b + 5] = Fields[b + 5]
      /\ Fields'[end] = Fields[end]
  BY <1>3, <1>4, <1>6
<1>8. Fields'[b + 2] = n /\ Fields'[b + 5] = 0 /\ Fields'[end] = TagSize(n)
  BY <1>3, <1>5, <1>6, <1>7
<1>9. hurt' # i /\ garbled' = i
  BY <1>1
<1> QED BY <1>2, <1>8, <1>9 DEF Good, b, n, end

LEMMA StepGarble == ASSUME IInv, Garble PROVE IInv'
<1>1. Shaped /\ InOrder /\ Header /\ Writing /\ Reading
  BY Parts
<1>2. /\ hurt = None /\ hurt' = None /\ garbled = None
      /\ writer.state # "open" /\ reader.state = "closed"
      /\ UNCHANGED <<scene, left, pending, writer, tags, misheard, reader, got>>
  BY DEF Garble, Damageable
<1>3. PICK i \in 0 .. Whole : garbled' = i /\ \E at \in Unchecked(i) : Spoil(at)
  BY DEF Garble
<1>4. PICK at \in Unchecked(i) : Spoil(at)
  BY <1>3
<1>5. PICK d \in {-1, 1} : disk' = [disk EXCEPT ![at] = @ + d]
  BY <1>4 DEF Spoil
<1>6. garbled' = i /\ i \in Nat /\ (i # 0 => i \in DOMAIN tags /\ tags[i].end <= Len(disk))
  <2>1. Whole \in 0 .. Len(tags) /\ Len(tags) \in Nat /\ DOMAIN tags = 1 .. Len(tags)
    BY <1>1, WholeOnes, Lengths
  <2> QED BY <1>1, <1>3, <2>1, WholeOnes
<1>7. /\ at \in 1 .. Len(disk) /\ (i = 0 => at = 3)
      /\ i # 0 => /\ at > 5 /\ Start(i) < at /\ at < tags[i].end
                  /\ at # Start(i) + 2 /\ at # Start(i) + 5
  <2>1. Len(disk) \in Nat /\ at <= Len(disk)
    BY <1>1, <1>4, Lengths DEF Spoil
  <2>2. CASE i = 0
    BY <2>1, <2>2 DEF Unchecked
  <2>3. CASE i # 0
    <3>1. PICK s \in Nat, n \in Nat, e \in Nat :
             /\ s = Start(i) /\ n = tags[i].size /\ e = tags[i].end /\ s >= 5 /\ e = s + n + 6
      <4>1. /\ tags[i].size \in Nat /\ Start(i) \in Nat /\ Start(i) >= 5
            /\ tags[i].end = Start(i) + tags[i].size + 6
        BY <1>1, <1>6, <2>3, Ends
      <4> QED BY <4>1
    <3>2. at \in {e - n - 5, e - n - 3, e - n - 2} \cup e - n .. e - 1
      BY <2>3, <3>1 DEF Unchecked
    <3>3. at > 5 /\ s < at /\ at < e /\ at # s + 2 /\ at # s + 5
      BY <3>1, <3>2
    <3>4. at \in Int /\ at \in 1 .. Len(disk)
      BY <2>1, <3>2, <3>3
    <3> QED BY <2>3, <3>1, <3>3, <3>4
  <2> QED BY <2>2, <2>3
<1>8. /\ disk \in Seq(Int) /\ disk' \in Seq(Int) /\ Len(disk') = Len(disk) /\ Len(disk) \in Nat
      /\ \A p \in 1 .. Len(disk) : p # at => disk'[p] = disk[p]
  <2>1. disk \in Seq(Int)
    BY <1>1 DEF Shaped
  <2>2. disk[at] \in Int
    BY <1>7, <2>1
  <2> QED BY <1>5, <1>7, <2>1, <2>2
<1>9. pending = <<>> /\ pending' = <<>> /\ got = <<>>
  BY <1>1, <1>2 DEF Writing, Reading
<1>10. /\ Fields = disk /\ Fields' = disk' /\ Total = Len(disk) /\ Total' = Len(disk)
  <2>1. disk \o <<>> = disk /\ disk' \o <<>> = disk'
    BY <1>8, ConcatEmptySeq
  <2> QED BY <1>8, <1>9, <2>1 DEF Fields, Total
<1>11. Shaped'
  BY <1>1, <1>2, <1>6, <1>8 DEF Shaped, Listed
<1>12. InOrder'
  BY <1>1, <1>2 DEF InOrder, Start, EndOf
<1>13. Header'
  <2>1. \A p \in {1, 2, 4, 5} : p <= Total' => p <= Total /\ Fields'[p] = Fields[p]
    <3> TAKE p \in {1, 2, 4, 5}
    <3> HAVE p <= Total'
    <3>1. at = 3 \/ at > 5
      BY <1>7
    <3>2. p \in 1 .. Len(disk) /\ p # at
      BY <1>8, <1>10, <3>1
    <3> QED BY <1>8, <1>10, <3>2
  <2>2. 3 <= Total' /\ garbled' # 0 => 3 <= Total /\ Fields'[3] = Fields[3]
    <3> HAVE 3 <= Total' /\ garbled' # 0
    <3>1. 3 \in 1 .. Len(disk) /\ 3 # at
      BY <1>6, <1>7, <1>8, <1>10
    <3> QED BY <1>8, <1>10, <3>1
  <2>3. hurt # 0 /\ garbled # 0
    BY <1>2 DEF None
  <2> QED BY <1>1, <1>2, <2>1, <2>2, <2>3 DEF Header
<1>14. ASSUME NEW j \in DOMAIN tags
       PROVE  Good(j)'
  <2>1. Good(j)
    BY Parts
  <2>2. CASE j = i
    <3>1. i # 0
      BY <1>1, <2>2, Lengths
    <3>2. at # tags[i].end
      BY <1>7, <3>1
    <3> QED BY <1>1, <1>2, <1>6, <1>7, <1>8, <1>9, <2>1, <2>2, <3>1, <3>2, TagGarbled
  <2>3. CASE j # i
    <3>1. Start(j)' = Start(j) /\ tags'[j] = tags[j]
      BY <1>2 DEF Start, EndOf
    <3>2. /\ Start(j) \in Nat /\ Start(j) >= 5 /\ tags[j].size \in Nat
          /\ tags[j].end = Start(j) + tags[j].size + 6
      BY <1>1, Ends
    <3>3. at <= Start(j) \/ at > tags[j].end
      <4>1. CASE i = 0
        BY <1>7, <3>2, <4>1
      <4>2. CASE i # 0
        <5>1. /\ i \in DOMAIN tags /\ tags[i].size \in Nat /\ Start(i) \in Nat
              /\ tags[i].end = Start(i) + tags[i].size + 6
          BY <1>1, <1>6, <4>2, Ends
        <5>2. tags[i].end <= Start(j) \/ tags[j].end <= Start(i)
          <6>1. i \in Nat /\ j \in Nat
            BY <1>1, <1>6, Lengths
          <6>2. i < j \/ j < i
            BY <2>3, <6>1
          <6> QED BY <1>1, <5>1, <6>2, Ends
        <5>4. Start(i) < at /\ at <= tags[i].end
          BY <1>7, <4>2, <5>1
        <5> QED BY <1>7, <3>2, <5>1, <5>2, <5>4, SMTT(30)
      <4> QED BY <4>1, <4>2
    <3>4. \A p \in Nat : Start(j) < p /\ p <= tags[j].end /\ p <= Total' =>
                            p <= Total /\ Fields'[p] = Fields[p]
      <4> TAKE p \in Nat
      <4> HAVE Start(j) < p /\ p <= tags[j].end /\ p <= Total'
      <4>1. p \in 1 .. Len(disk)
        BY <1>8, <1>10, <3>2
      <4>2. p # at
        BY <1>7, <3>2, <3>3
      <4> QED BY <1>8, <1>10, <4>1, <4>2
    <3>5. hurt # j /\ hurt' # j /\ garbled # j /\ garbled' # j
      BY <1>1, <1>2, <1>6, <2>3, Lengths DEF None
    <3>6. Total' \in Nat
      BY <1>8, <1>10
    <3> QED BY <1>1, <2>1, <3>1, <3>4, <3>5, <3>6, GoodKept
  <2> QED BY <2>2, <2>3
<1>15. Writing'
  BY <1>1, <1>2, <1>8, <1>10 DEF Writing, EndOf
<1>16. Reading'
  <2>1. hurt' # 0
    BY <1>2 DEF None
  <2> QED BY <1>1, <1>2, <1>8, <1>9, <2>1 DEF Reading
<1>17. (\A j \in DOMAIN got : GoodRead(j))'
  BY <1>2, <1>9, EmptyListed
<1> QED BY <1>2, <1>11, <1>12, <1>13, <1>14, <1>15, <1>16, <1>17 DEF IInv

\* What build_flv_tag frames.
Frames(tag, type, ts, payload) ==
    /\ tag \in Seq(Int) /\ Len(payload) \in Nat /\ Len(payload) <= MaxSize
    /\ Len(tag) = 5 + Len(payload)
    /\ tag[1] = type /\ tag[2] = Len(payload) /\ tag[3] + TimeLow * tag[4] = ts /\ tag[5] = 0
    /\ \A k \in 1 .. Len(payload) : tag[5 + k] = payload[k]

LEMMA Built ==
    ASSUME NEW type \in Nat \ {0}, NEW payload \in Seq(Int), NEW ts \in Nat,
           NEW tag, tag = BuildTag(type, ts, payload), tag # <<>>
    PROVE  Frames(tag, type, ts, payload)
<1> DEFINE head == <<type, Len(payload), ts % TimeLow, ts \div TimeLow, 0>>
<1>1. Len(payload) \in Nat /\ MaxSize \in Nat /\ TimeLow \in Nat \ {0}
  BY FileConstants
<1>2. Len(payload) <= MaxSize /\ tag = head \o payload
  BY <1>1 DEF BuildTag
<1>3. ts = TimeLow * (ts \div TimeLow) + (ts % TimeLow) /\ ts \div TimeLow \in Int /\ ts % TimeLow \in Int
  <2>1. PICK n \in Nat \ {0} : n = TimeLow
    BY <1>1
  <2>4. PICK r \in Int : r = ts
    OBVIOUS
  <2>5. r = n * (r \div n) + (r % n) /\ r \div n \in Int /\ r % n \in 0 .. n - 1
    BY TurnsOf
  <2>2. ts = n * (ts \div n) + (ts % n) /\ ts \div n \in Int /\ ts % n \in 0 .. n - 1
    BY <2>4, <2>5, Zenon
  <2>3. ts % n \in Int
    BY <2>2
  <2> QED BY <2>1, <2>2, <2>3, Zenon
<1>4. /\ head \in Seq(Int) /\ Len(head) = 5
      /\ head[1] = type /\ head[2] = Len(payload) /\ head[3] = ts % TimeLow
      /\ head[4] = ts \div TimeLow /\ head[5] = 0
  <2>1. PICK a, b \in Int : a = ts % TimeLow /\ b = ts \div TimeLow
    BY <1>3
  <2>2. head = <<type, Len(payload), a, b, 0>>
    BY <2>1
  <2> HIDE DEF head
  <2> QED BY <1>1, <2>1, <2>2
<1> HIDE DEF head
<1>5. /\ tag \in Seq(Int) /\ Len(tag) = Len(head) + Len(payload)
      /\ \A p \in 1 .. Len(head) : tag[p] = head[p]
      /\ \A p \in 1 .. Len(payload) : tag[Len(head) + p] = payload[p]
  <2>1. /\ head \o payload \in Seq(Int) /\ Len(head \o payload) = Len(head) + Len(payload)
        /\ \A p \in 1 .. Len(head) : (head \o payload)[p] = head[p]
        /\ \A p \in 1 .. Len(payload) : (head \o payload)[Len(head) + p] = payload[p]
    BY <1>4, Joined
  <2> QED BY <1>2, <2>1, Zenon
<1>6. /\ tag[1] = type /\ tag[2] = Len(payload) /\ tag[3] = ts % TimeLow
      /\ tag[4] = ts \div TimeLow /\ tag[5] = 0
  BY <1>4, <1>5
<1>7. tag[3] + TimeLow * tag[4] = ts
  <2>1. PICK a, b \in Int : a = ts % TimeLow /\ b = TimeLow * (ts \div TimeLow)
    BY <1>1, <1>3
  <2> QED BY <1>3, <1>6, <2>1
<1> QED BY <1>1, <1>2, <1>4, <1>5, <1>6, <1>7 DEF Frames

LEMMA FirstFive ==
    ASSUME NEW n \in Nat
    PROVE  1 \in 1 .. 5 + n /\ 2 \in 1 .. 5 + n /\ 3 \in 1 .. 5 + n /\ 4 \in 1 .. 5 + n
           /\ 5 \in 1 .. 5 + n
OBVIOUS

\* The tag that is written is good.
LEMMA Framed ==
    ASSUME Shaped, NEW e, NEW ts \in Nat, NEW tag, NEW i \in Nat \ {0}, NEW n,
           Total' \in Nat, SaysItself(e, ts), e.payload \in Seq(Int), n = Len(e.payload),
           e.type # 0, Frames(tag, e.type, ts, e.payload),
           \A p \in 1 .. 5 + n : Fields'[Total + p] = tag[p],
           Fields'[Total + n + 6] = 5 + n, hurt' = None, garbled' = None,
           Start(i)' = Total, tags'[i].size = n, tags'[i].said = TimedAt(e.said, ts),
           tags'[i].end = Total + n + 6
    PROVE  Good(i)'
<1>6. /\ tag[1] = e.type /\ tag[2] = n /\ tag[3] + TimeLow * tag[4] = ts /\ tag[5] = 0
      /\ \A k \in 1 .. n : tag[5 + k] = e.payload[k]
  BY DEF Frames
<1>1. Total \in Nat /\ n \in Nat
  BY Lengths
<1>2. /\ Fields'[Total + 1] = tag[1] /\ Fields'[Total + 2] = tag[2] /\ Fields'[Total + 3] = tag[3]
      /\ Fields'[Total + 4] = tag[4] /\ Fields'[Total + 5] = tag[5]
  <2>1. n \in Nat
    BY <1>1
  <2>2. 1 \in 1 .. 5 + n /\ 2 \in 1 .. 5 + n /\ 3 \in 1 .. 5 + n /\ 4 \in 1 .. 5 + n
        /\ 5 \in 1 .. 5 + n
    BY <2>1, FirstFive
  <2> QED BY <2>2, Zenon
<1>3. [k \in 1 .. n |-> Fields'[Total + TagHeader + k]] = e.payload
  <2>1. \A k \in 1 .. n : Fields'[Total + TagHeader + k] = e.payload[k]
    <3> TAKE k \in 1 .. n
    <3>1. 5 + k \in 1 .. 5 + n /\ Total + TagHeader + k = Total + (5 + k)
      BY <1>1 DEF TagHeader
    <3>2. Fields'[Total + (5 + k)] = tag[5 + k] /\ tag[5 + k] = e.payload[k]
      BY <1>6, <3>1
    <3> QED BY <3>1, <3>2
  <2>2. \A q \in Seq(Int) : q = [k \in 1 .. Len(q) |-> q[k]]
    OBVIOUS
  <2>3. e.payload = [k \in 1 .. n |-> e.payload[k]]
    BY <2>2
  <2> QED BY <2>1, <2>3
<1>4. ReadBehind(Start(i), tags[i].size, tags[i].said)'
  <2>1. TagOf(e.type, ts, e.payload) = TimedAt(e.said, ts) \/ ~Sayable(TimedAt(e.said, ts))
    BY DEF SaysItself
  <2> QED BY <1>2, <1>3, <1>6, <2>1, Zenon DEF ReadBehind, BodyAt
<1>5. hurt' # i /\ garbled' # i
  BY DEF None
<1> QED BY <1>1, <1>2, <1>4, <1>5, <1>6 DEF Good, TagSize, TagHeader

LEMMA StepWrite ==
    ASSUME EntriesRead, IInv, writer.state = "open", NEW e \in Entries[scene.menu],
           NEW ts \in IF e.timed THEN scene.times ELSE {0}, e.type # None,
           BuildTag(e.type, ts, e.payload) # <<>>,
           WritePayload(e, ts, BuildTag(e.type, ts, e.payload)),
           left' \in 0 .. scene.total, UNCHANGED <<scene, disk, hurt, garbled, reader, got>>
    PROVE  IInv'
<1> DEFINE tag == BuildTag(e.type, ts, e.payload)
           n == Len(e.payload)
           t == tag \o <<Len(tag)>>
           said == TimedAt(e.said, ts)
<1>1. Shaped /\ InOrder /\ Header /\ Writing /\ Reading
  BY Parts
<1>2. /\ ts \in Nat /\ e.type \in Nat \ {0} /\ e.payload \in Seq(Int)
      /\ n <= MaxSize => SaysItself(e, ts)
  <2>1. scene \in Scenes /\ scene.times \subseteq Nat
    BY <1>1, FileConstants DEF Shaped
  <2>2. ts \in Nat
    BY <2>1
  <2> QED BY <2>1, <2>2 DEF EntriesRead
<1>3. Frames(tag, e.type, ts, e.payload)
  <2>1. tag = BuildTag(e.type, ts, e.payload) /\ tag # <<>>
    OBVIOUS
  <2> HIDE DEF tag
  <2> QED BY <1>2, <2>1, Built
<1>21. tag \in Seq(Int) /\ n \in Nat /\ n <= MaxSize /\ Len(tag) = 5 + n /\ Len(tag) \in Nat
  <2>1. tag \in Seq(Int) /\ n \in Nat /\ n <= MaxSize /\ Len(tag) = 5 + n
    BY <1>3, Zenon DEF Frames
  <2> QED BY <2>1
<1>4. /\ pending' = pending \o tag \o <<Len(tag)>>
      /\ writer' = [writer EXCEPT !.prev = Len(tag), !.written = @ + Len(tag) + 1]
      /\ \E means, view :
            tags' = Append(tags, [said |-> said, means |-> means, view |-> view, size |-> n,
                                  end |-> Len(disk) + Len(pending) + Len(tag) + 1])
  BY DEF WritePayload
<1> HIDE DEF tag, n, said
<1>5. /\ disk \in Seq(Int) /\ pending \in Seq(Int) /\ Total = Len(disk) + Len(pending)
      /\ Total \in Nat /\ Len(disk) \in Nat /\ Len(tags) \in Nat /\ DOMAIN tags = 1 .. Len(tags)
      /\ Total = EndOf(Len(tags)) /\ writer.written = Total /\ hurt = None /\ garbled = None
  BY <1>1, Lengths DEF Shaped, Writing
<1>6. /\ t \in Seq(Int) /\ Len(t) = n + 6 /\ t[n + 6] = 5 + n
      /\ \A p \in 1 .. 5 + n : t[p] = tag[p]
  <2>1. <<Len(tag)>> \in Seq(Int) /\ Len(<<Len(tag)>>) = 1 /\ <<Len(tag)>>[1] = 5 + n
    BY <1>21
  <2>2. /\ t \in Seq(Int) /\ Len(t) = Len(tag) + Len(<<Len(tag)>>)
        /\ \A p \in 1 .. Len(tag) : t[p] = tag[p]
        /\ \A p \in 1 .. Len(<<Len(tag)>>) : t[Len(tag) + p] = <<Len(tag)>>[p]
    BY <1>21, <2>1, Joined
  <2> HIDE DEF t
  <2>3. t[Len(tag) + 1] = 5 + n
    BY <2>1, <2>2
  <2> QED BY <1>21, <2>1, <2>2, <2>3
<1>7. pending' = pending \o t
  <2>0. <<Len(tag)>> \in Seq(Int)
    BY <1>3
  <2>1. PICK u \in Seq(Int) : u = <<Len(tag)>>
    BY <2>0
  <2>2. (pending \o tag) \o u = pending \o (tag \o u)
    BY <1>21, <1>5, ThreeJoined
  <2> QED BY <1>4, <2>1, <2>2
<1> HIDE DEF t
<1>8. /\ pending' \in Seq(Int) /\ Total' = Total + n + 6
      /\ \A p \in 1 .. Total : Fields'[p] = Fields[p]
      /\ \A p \in 1 .. 5 + n : Fields'[Total + p] = tag[p]
      /\ Fields'[Total + n + 6] = 5 + n
  <2>1. /\ pending' \in Seq(Int) /\ Total' = Total + Len(t)
        /\ \A p \in 1 .. Total : Fields'[p] = Fields[p]
        /\ \A p \in 1 .. Len(t) : Fields'[Total + p] = t[p]
    BY <1>1, <1>6, <1>7, Handed
  <2>2. \A p \in 1 .. 5 + n : p \in 1 .. Len(t)
    BY <1>21, <1>6
  <2>3. n + 6 \in 1 .. Len(t) /\ Total + (n + 6) = Total + n + 6
    <3>1. n \in Nat /\ Total \in Nat /\ Len(t) = n + 6
      BY <1>5, <1>6, <1>21
    <3> QED BY <3>1
  <2>4. Fields'[Total + (n + 6)] = 5 + n
    BY <1>6, <2>1, <2>3
  <2> QED BY <1>21, <1>5, <1>6, <2>1, <2>2, <2>3, <2>4
<1>9. PICK means, view :
            tags' = Append(tags, [said |-> said, means |-> means, view |-> view, size |-> n,
                                  end |-> Len(disk) + Len(pending) + Len(tag) + 1])
  BY <1>4
<1>13. PICK m \in Nat \ {0} : m = Len(tags) + 1
  BY <1>5
<1>10. /\ Listed(tags') /\ Len(tags') = m /\ DOMAIN tags' = 1 .. m /\ m \in Nat
       /\ \A i \in DOMAIN tags : i \in DOMAIN tags' /\ tags'[i] = tags[i]
       /\ tags'[m].said = said /\ tags'[m].size = n /\ tags'[m].end = Total + n + 6
  <2>1. Listed(tags)
    BY <1>1 DEF Shaped
  <2>2. /\ Listed(tags') /\ Len(tags') = Len(tags) + 1 /\ DOMAIN tags' = 1 .. Len(tags) + 1
        /\ \A i \in DOMAIN tags : tags'[i] = tags[i]
        /\ tags'[Len(tags) + 1] =
              [said |-> said, means |-> means, view |-> view, size |-> n,
               end |-> Len(disk) + Len(pending) + Len(tag) + 1]
    BY <1>9, <2>1, ListedAppend
  <2>3. Len(disk) + Len(pending) + Len(tag) + 1 = Total + n + 6
    BY <1>21, <1>5, Lengths, <1>1, SMTT(30)
  <2> QED BY <1>5, <1>13, <2>2, <2>3
<1>11. /\ \A k \in 0 .. Len(tags) : EndOf(k)' = EndOf(k)
       /\ EndOf(m)' = Total + n + 6
       /\ \A i \in DOMAIN tags : Start(i)' = Start(i)
       /\ Start(m)' = Total
  <2>1. \A k \in 0 .. Len(tags) : EndOf(k)' = EndOf(k)
    BY <1>5, <1>10, <1>13 DEF EndOf
  <2>2. EndOf(m)' = Total + n + 6
    BY <1>5, <1>10, <1>13 DEF EndOf
  <2>3. \A i \in DOMAIN tags : i - 1 \in 0 .. Len(tags)
    BY <1>5
  <2>4. m - 1 = Len(tags) /\ Len(tags) \in 0 .. Len(tags)
    BY <1>5, <1>13
  <2> QED BY <1>5, <2>1, <2>2, <2>3, <2>4 DEF Start
<1>12. /\ \A i \in DOMAIN tags' : i \in DOMAIN tags \/ i = m
       /\ m \notin DOMAIN tags /\ tags' # <<>>
  <2>1. \A i \in 1 .. m : i \in 1 .. Len(tags) \/ i = m
    BY <1>5, <1>13
  <2>2. m \notin 1 .. Len(tags) /\ m # 0
    BY <1>5, <1>13
  <2> QED BY <1>5, <1>10, <2>1, <2>2, EmptyListed
<1>14. Shaped'
  <2>1. writer' \in [state : {"open", "finished", "gone"}, prev : Nat, written : Nat]
    <3>1. writer' = [writer EXCEPT !.prev = Len(tag), !.written = @ + Len(tag) + 1]
      BY <1>4
    <3>2. writer \in [state : {"open", "finished", "gone"}, prev : Nat, written : Nat]
      BY <1>1 DEF Shaped
    <3>5. PICK a \in Nat, w \in Nat : a = Len(tag) /\ w = writer.written
      BY <1>21, <3>2
    <3>3. PICK b \in Nat : b = w + a + 1
      OBVIOUS
    <3>4. writer' = [writer EXCEPT !.prev = a, !.written = b]
      BY <3>1, <3>3, <3>5
    <3> QED BY <3>2, <3>4
  <2> QED BY <1>1, <1>5, <1>8, <1>10, <2>1 DEF Shaped, Listed
<1>15. InOrder'
  <2>1. \A i \in DOMAIN tags :
           /\ tags[i].size \in 0 .. MaxSize /\ tags[i].end \in Nat
           /\ tags[i].end = Start(i) + TagSize(tags[i].size) + 1 /\ FileHeader < Start(i)
    BY <1>1 DEF InOrder
  <2>2. n \in 0 .. MaxSize /\ Total + n + 6 = Total + TagSize(n) + 1 /\ FileHeader < Total
    <3>1. Total >= 5
      BY <1>1, <1>5, Ends
    <3> QED BY <1>21, <1>5, <3>1, FileConstants DEF TagSize, TagHeader, FileHeader
  <2>3. ASSUME NEW i \in DOMAIN tags'
        PROVE  /\ tags'[i].size \in 0 .. MaxSize /\ tags'[i].end \in Nat
               /\ tags'[i].end = Start(i)' + TagSize(tags'[i].size) + 1 /\ FileHeader < Start(i)'
    <3>1. CASE i \in DOMAIN tags
      BY <1>10, <1>11, <2>1, <3>1
    <3>2. CASE i = m
      BY <1>5, <1>10, <1>11, <1>21, <2>2, <3>2
    <3> QED BY <1>12, <3>1, <3>2
  <2>4. ASSUME NEW i \in DOMAIN tags', NEW j \in DOMAIN tags', i < j
        PROVE  tags'[i].end <= Start(j)'
    <3>1. i \in DOMAIN tags
      BY <1>5, <1>10, <1>13, <2>4
    <3>2. CASE j \in DOMAIN tags
      BY <1>1, <1>10, <1>11, <2>4, <3>1, <3>2 DEF InOrder
    <3>3. CASE j = m
      <4>1. EndOf(i) <= EndOf(Len(tags)) /\ EndOf(i) = tags[i].end
        BY <1>1, <1>5, <3>1, Ends
      <4> QED BY <1>5, <1>10, <1>11, <3>1, <3>3, <4>1
    <3> QED BY <1>12, <3>2, <3>3
  <2> QED BY <2>3, <2>4 DEF InOrder
<1>16. Header'
  <2>1. Total >= 5
    BY <1>1, <1>5, Ends
  <2>2. \A p \in {1, 2, 3, 4, 5} : p <= Total /\ Fields'[p] = Fields[p]
    <3> TAKE p \in {1, 2, 3, 4, 5}
    <3>1. p \in 1 .. Total
      BY <1>5, <2>1
    <3> QED BY <1>8, <3>1
  <2> QED BY <1>1, <2>2 DEF Header
<1>17. ASSUME NEW i \in DOMAIN tags'
       PROVE  Good(i)'
  <2>1. Total' \in Nat
    BY <1>21, <1>5, <1>8, SMTT(30)
  <2>2. CASE i \in DOMAIN tags
    <3>1. Good(i)
      BY <2>2, Parts
    <3>2. (hurt' = i <=> hurt = i) /\ (garbled' = i <=> garbled = i)
      OBVIOUS
    <3>3. hurt # i
      BY <1>5, <2>2 DEF None
    <3>4. tags[i].end <= Total /\ Start(i) \in Nat /\ tags[i].end \in Nat
      <4>1. EndOf(i) <= EndOf(Len(tags)) /\ EndOf(i) = tags[i].end /\ EndOf(i) \in Nat
        BY <1>1, <1>5, <2>2, Ends
      <4>2. Start(i) \in Nat
        BY <1>1, <2>2, Ends
      <4> QED BY <1>5, <4>1, <4>2
    <3>5. \A p \in Nat : Start(i) < p /\ p <= tags[i].end /\ p <= Total' =>
                            p <= Total /\ Fields'[p] = Fields[p]
      <4> TAKE p \in Nat
      <4> HAVE Start(i) < p /\ p <= tags[i].end /\ p <= Total'
      <4>1. p \in 1 .. Total
        BY <1>5, <3>4
      <4> QED BY <1>5, <1>8, <4>1
    <3>6. tags'[i] = tags[i] /\ Start(i)' = Start(i)
      BY <1>10, <1>11, <2>2
    <3> QED BY <1>1, <2>1, <2>2, <3>1, <3>2, <3>3, <3>5, <3>6, GoodKept
  <2>3. CASE i = m
    <3>1. SaysItself(e, ts) /\ e.type # 0
      BY <1>2, <1>21
    <3>2. hurt' = None /\ garbled' = None
      BY <1>5
    <3>3. n = Len(e.payload) /\ e.payload \in Seq(Int)
      BY <1>2 DEF n
    <3>4. Start(m)' = Total /\ tags'[m].size = n /\ tags'[m].end = Total + n + 6
          /\ tags'[m].said = TimedAt(e.said, ts)
      BY <1>10, <1>11 DEF said
    <3>5. Good(m)'
      BY <1>1, <1>2, <1>3, <1>8, <2>1, <3>1, <3>2, <3>3, <3>4, Framed
    <3> QED BY <2>3, <3>5
  <2> QED BY <1>12, <2>2, <2>3
<1>18. (\A i \in DOMAIN got : GoodRead(i))'
  <2>1. ASSUME NEW i \in DOMAIN got
        PROVE  GoodRead(i)'
    BY <1>1, <1>10, Parts, GoodReadKept
  <2> QED BY <2>1
<1>19. Writing'
  <2>1. /\ writer'.state = "open" /\ writer'.prev = 5 + n /\ writer'.written = Total + n + 6
    <3>1. writer' = [writer EXCEPT !.prev = Len(tag), !.written = @ + Len(tag) + 1]
      BY <1>4
    <3>2. writer \in [state : {"open", "finished", "gone"}, prev : Nat, written : Nat]
      BY <1>1 DEF Shaped
    <3>3. Total \in Nat /\ writer.written = Total
      BY <1>5
    <3> QED BY <1>21, <3>1, <3>2, <3>3
  <2>2. Len(tags') = m /\ TagSize(n) = 5 + n
    BY <1>10 DEF TagSize, TagHeader
  <2> QED BY <1>5, <1>21, <1>8, <1>10, <1>11, <1>12, <2>1, <2>2, SMTT(30) DEF Writing
<1>20. Reading'
  <2>1. Len(got) \in Nat /\ m \in Nat /\ Len(tags') = m
    BY <1>1, <1>10, Lengths
  <2>2. reader.state = "open" => Len(got) \in 0 .. Len(tags)
    BY <1>1, <1>5, <2>1 DEF Reading
  <2>3. reader.state = "open" => Len(got) <= m /\ reader.pos = EndOf(Len(got))'
    BY <1>1, <1>5, <1>11, <1>13, <2>1, <2>2 DEF Reading
  <2>4. writer'.state = "open" /\ hurt = None
    BY <1>1, <1>4, <1>5 DEF Shaped
  <2> QED BY <1>1, <1>5, <1>13, <2>1, <2>3, <2>4 DEF Reading, None
<1> QED BY <1>14, <1>15, <1>16, <1>17, <1>18, <1>19, <1>20 DEF IInv

LEMMA StepSkip ==
    ASSUME IInv, UNCHANGED <<scene, disk, pending, writer, tags, hurt, garbled, reader, got>>,
           left' \in 0 .. scene.total
    PROVE  IInv'
<1>1. Shaped /\ Writing /\ Reading
  BY Parts
<1>2. Fields' = Fields /\ Total' = Total /\ Total \in Nat /\ Len(disk) <= Total
  BY <1>1, Lengths DEF Fields, Total
<1>3. InOrder' /\ Header' /\ (\A i \in DOMAIN tags : Good(i))' /\ (\A i \in DOMAIN got : GoodRead(i))'
  BY <1>2, Kept
<1>4. Shaped'
  BY <1>1 DEF Shaped, Listed
<1>5. Writing'
  BY <1>1, <1>2 DEF Writing, EndOf
<1>6. Reading'
  BY <1>1 DEF Reading, EndOf
<1> QED BY <1>3, <1>4, <1>5, <1>6 DEF IInv

LEMMA StepRecord == ASSUME EntriesRead, IInv, Record PROVE IInv'
<1>1. /\ writer.state = "open" /\ left > 0 /\ left' = left - 1
      /\ UNCHANGED <<scene, disk, hurt, garbled, reader, got>>
      /\ \E e \in Entries[scene.menu] : \E ts \in IF e.timed THEN scene.times ELSE {0} :
            RecordAt(e, ts, BuildTag(e.type, ts, e.payload))
  BY DEF Record
<1>2. left' \in 0 .. scene.total
  <2>1. Shaped
    BY Parts
  <2>2. left \in 0 .. scene.total /\ scene.total \in Nat
    BY <2>1, FileConstants DEF Shaped
  <2> QED BY <1>1, <2>2
<1>3. PICK e \in Entries[scene.menu] : \E ts \in IF e.timed THEN scene.times ELSE {0} :
            RecordAt(e, ts, BuildTag(e.type, ts, e.payload))
  BY <1>1
<1>4. PICK ts \in IF e.timed THEN scene.times ELSE {0} :
            RecordAt(e, ts, BuildTag(e.type, ts, e.payload))
  BY <1>3
<1>5. CASE e.type = None \/ BuildTag(e.type, ts, e.payload) = <<>>
  <2>1. UNCHANGED <<pending, writer, tags>>
    BY <1>4, <1>5 DEF RecordAt, Skipped
  <2> QED BY <1>1, <1>2, <2>1, StepSkip
<1>6. CASE e.type # None /\ BuildTag(e.type, ts, e.payload) # <<>>
  <2>1. WritePayload(e, ts, BuildTag(e.type, ts, e.payload))
    BY <1>4, <1>6 DEF RecordAt
  <2> QED BY <1>1, <1>2, <1>6, <2>1, StepWrite
<1> QED BY <1>5, <1>6

-----------------------------------------------------------------------------
(* The reader keeps the invariant. *)

LEMMA FlagsReadBack ==
    ASSUME NEW f \in SUBSET {"audio", "video"}
    PROVE  FlagsOf(FlagByte(f)) = f
<1>1. /\ FlagBit("audio") = 4 /\ FlagBit("video") = 1
      /\ FlagByte(f) = (IF "audio" \in f THEN 4 ELSE 0) + (IF "video" \in f THEN 1 ELSE 0)
  BY DEF FlagBit, FlagByte
<1>2. \A k \in {"audio", "video"} : k \in f <=> (FlagByte(f) \div FlagBit(k)) % 2 = 1
  <2>1. CASE "audio" \in f /\ "video" \in f
    BY <1>1, <2>1
  <2>2. CASE "audio" \in f /\ "video" \notin f
    BY <1>1, <2>2
  <2>3. CASE "audio" \notin f /\ "video" \in f
    BY <1>1, <2>3
  <2>4. CASE "audio" \notin f /\ "video" \notin f
    BY <1>1, <2>4
  <2> QED BY <2>1, <2>2, <2>3, <2>4
<1> QED BY <1>2 DEF FlagsOf

\* What the reader of a file finds in its header, damaged or cut short.
LEMMA HeaderRead ==
    ASSUME IInv
    PROVE  /\ Readable(disk) => /\ hurt # 0 /\ disk[4] = 4 /\ Len(disk) > 4
                                /\ garbled # 0 => FlagsOf(disk[3]) = scene.flags
           /\ ~Readable(disk) /\ hurt = None => Len(disk) <= FileHeader
<1>1. Shaped /\ Header /\ Reading
  BY Parts
<1>2. /\ Len(disk) \in Nat /\ Total \in Nat /\ Len(disk) <= Total
      /\ \A p \in 1 .. Len(disk) : Fields[p] = disk[p]
  BY <1>1, Lengths
<1>3. ASSUME Readable(disk)
      PROVE  /\ hurt # 0 /\ disk[4] = 4 /\ Len(disk) > 4
             /\ garbled # 0 => FlagsOf(disk[3]) = scene.flags
  <2>1. hurt # 0
    BY <1>1, <1>3 DEF Reading
  <2>2. Len(disk) >= 4
    BY <1>3 DEF Readable, FileHeader
  <2>3. disk[4] = 4 /\ (garbled # 0 => disk[3] = FlagByte(scene.flags))
    BY <1>1, <1>2, <2>1, <2>2 DEF Header, FileHeader
  <2>4. scene.flags \in SUBSET {"audio", "video"}
    BY <1>1, FileConstants DEF Shaped
  <2> QED BY <1>3, <2>1, <2>3, <2>4, FlagsReadBack DEF Readable
<1>4. ASSUME ~Readable(disk), hurt = None
      PROVE  Len(disk) <= FileHeader
  <2> SUFFICES ASSUME Len(disk) >= 5 PROVE FALSE
    BY <1>2 DEF FileHeader
  <2>1. hurt # 0
    BY <1>4 DEF None
  <2>2. /\ disk[1] = Signature /\ disk[2] = Version /\ disk[4] = FileHeader /\ disk[5] = 0
    BY <1>1, <1>2, <2>1 DEF Header
  <2> QED BY <1>2, <1>4, <2>2 DEF Readable, FileHeader
<1> QED BY <1>3, <1>4

LEMMA StepOpen == ASSUME IInv, Open PROVE IInv'
<1>1. Shaped /\ InOrder /\ Writing /\ Reading
  BY Parts
<1>2. /\ reader.state = "closed" /\ (scene.live \/ writer.state # "open")
      /\ reader' = IF Readable(disk)
                   THEN [state |-> "open", pos |-> disk[4] + 1, flags |-> FlagsOf(disk[3]),
                         last |-> 0, read |-> disk[4] + 1]
                   ELSE [reader EXCEPT !.state = "refused"]
      /\ UNCHANGED <<scene, left, disk, pending, writer, tags, misheard, hurt, garbled, got>>
  BY DEF Open
<1>3. Fields' = Fields /\ Total' = Total /\ Total \in Nat /\ Len(disk) <= Total
  BY <1>1, <1>2, Lengths DEF Fields, Total
<1>4. InOrder' /\ Header' /\ (\A i \in DOMAIN tags : Good(i))' /\ (\A i \in DOMAIN got : GoodRead(i))'
  BY <1>2, <1>3, Kept
<1>5. Writing'
  BY <1>1, <1>2, <1>3 DEF Writing, EndOf
<1>6. got = <<>> /\ Len(got) = 0 /\ Len(tags) \in Nat /\ Len(disk) \in Nat /\ EndOf(0) = 5
  BY <1>1, <1>2, EmptyListed, Lengths, Ends DEF Reading
<1>7. CASE Readable(disk)
  <2>1. /\ hurt # 0 /\ Len(disk) > 4
        /\ reader' = [state |-> "open", pos |-> 5, flags |-> FlagsOf(disk[3]), last |-> 0, read |-> 5]
        /\ garbled # 0 => FlagsOf(disk[3]) = scene.flags
    BY <1>2, <1>7, HeaderRead
  <2>2. FlagsOf(disk[3]) \in SUBSET {"audio", "video"}
    BY DEF FlagsOf
  <2>6. reader' \in [state : {"closed", "refused", "open", "ended", "lost"}, pos : Nat,
                     flags : SUBSET {"audio", "video"}, last : Nat, read : Nat]
    BY <2>1, <2>2
  <2>3. Shaped'
    BY <1>1, <1>2, <2>6 DEF Shaped, Listed
  <2>4. EndOf(Len(got))' = 5
    BY <1>2, <1>6 DEF EndOf
  <2>5. Reading'
    BY <1>2, <1>6, <2>1, <2>4 DEF Reading
  <2> QED BY <1>4, <1>5, <2>3, <2>5 DEF IInv
<1>8. CASE ~Readable(disk)
  <2>1. reader' = [reader EXCEPT !.state = "refused"]
    BY <1>2, <1>8
  <2>2. /\ reader'.state = "refused" /\ reader'.pos = reader.pos /\ reader'.read = reader.read
        /\ reader' \in [state : {"closed", "refused", "open", "ended", "lost"}, pos : Nat,
                        flags : SUBSET {"audio", "video"}, last : Nat, read : Nat]
    BY <1>1, <2>1 DEF Shaped
  <2>3. Shaped'
    BY <1>1, <1>2, <2>2 DEF Shaped, Listed
  <2>4. hurt = None => Len(disk) <= FileHeader
    BY <1>8, HeaderRead
  <2>5. Reading'
    BY <1>1, <1>2, <1>6, <1>8, <2>2, <2>4 DEF Reading
  <2> QED BY <1>4, <1>5, <2>3, <2>5 DEF IInv
<1> QED BY <1>7, <1>8

\* What a read that gets as far as r is to be, behind k tags that have been read.
Right(r, k) ==
    /\ r.taken \in Nat /\ r.counted \in Nat /\ r.counted <= r.taken
    /\ EndOf(k) + r.taken <= Len(disk)
    /\ r.last \in Nat \cup {None}
    /\ StateAfter(r) = "open" => k < Len(tags) /\ EndOf(k) + r.taken = EndOf(k + 1)
    /\ StateAfter(r) \in {"open", "ended"} /\ hurt = None => r.counted = r.taken
    /\ r.res = End => Whole = k /\ Len(disk) = EndOf(k)
    /\ r.res = Torn => Whole = k /\ Len(disk) > EndOf(k)
    /\ r.res \notin {End, Torn} =>
          /\ k < Len(tags) /\ Rightly(k + 1, r.res)
          /\ k < Whole \/ tags[k + 1].size > scene.cap

LEMMA Results == End # Torn /\ End # Refused /\ Torn # Refused
<1>1. End.what = "end" /\ Torn.what = "torn" /\ Refused.what = "refused"
  BY DEF End, Torn, Refused, Returned
<1> QED BY <1>1

\* Behind k tags the file ends, or it is torn in the next one.
LEMMA AtTheEnd ==
    ASSUME Shaped, InOrder, NEW k \in 0 .. Len(tags), EndOf(k) = Len(disk)
    PROVE  Right(Failed(End, 0, 0), k)
<1>1. /\ Len(tags) \in Nat /\ Len(disk) \in Nat /\ DOMAIN tags = 1 .. Len(tags)
      /\ EndOf(k) \in Nat
  BY Lengths, Ends
<1>2. Whole = k
  <2>1. k < Len(tags) => ~(EndOf(k + 1) <= Len(disk))
    <3> SUFFICES ASSUME k < Len(tags) PROVE ~(EndOf(k + 1) <= Len(disk))
      OBVIOUS
    <3>1. k + 1 \in DOMAIN tags /\ (k + 1) - 1 = k
      BY <1>1
    <3>2. /\ Start(k + 1) = EndOf(k) /\ tags[k + 1].size \in Nat /\ Start(k + 1) \in Nat
          /\ EndOf(k + 1) = Start(k + 1) + tags[k + 1].size + 6
      BY <3>1, Ends
    <3> QED BY <1>1, <3>2
  <2> QED BY <1>1, <2>1, WholeOnes
<1>3. StateAfter(Failed(End, 0, 0)) = "ended"
  BY Results DEF StateAfter, Failed, Step
<1> QED BY <1>1, <1>2, <1>3, Results DEF Right, Failed, Step

LEMMA TornThere ==
    ASSUME Shaped, InOrder, Writing, NEW k \in 0 .. Len(tags), EndOf(k) < Len(disk),
           k < Len(tags) => Len(disk) < EndOf(k + 1), NEW c \in Nat, c <= Len(disk) - EndOf(k)
    PROVE  Right(Failed(Torn, Len(disk) - EndOf(k), c), k)
<1>1. /\ Len(tags) \in Nat /\ Len(disk) \in Nat /\ EndOf(k) \in Nat
  BY Lengths, Ends
<1>2. Whole = k
  <2>1. k < Len(tags) => ~(EndOf(k + 1) <= Len(disk))
    <3> SUFFICES ASSUME k < Len(tags) PROVE ~(EndOf(k + 1) <= Len(disk))
      OBVIOUS
    <3>1. k + 1 \in 0 .. Len(tags)
      BY <1>1
    <3>2. EndOf(k + 1) \in Nat
      BY <3>1, Ends
    <3> QED BY <1>1, <3>2
  <2> QED BY <1>1, <2>1, WholeOnes
<1> DEFINE r == Failed(Torn, Len(disk) - EndOf(k), c)
<1>3. /\ r.res = Torn /\ r.taken = Len(disk) - EndOf(k) /\ r.counted = c /\ r.last = None
  BY DEF Failed, Step
<1> HIDE DEF r
<1>4. StateAfter(r) = "lost"
  BY <1>3, Results DEF StateAfter
<1>5. Len(disk) - EndOf(k) \in Nat /\ EndOf(k) + (Len(disk) - EndOf(k)) = Len(disk)
  BY <1>1
<1> QED BY <1>1, <1>2, <1>3, <1>4, <1>5, Results DEF Right, r

\* A tag that is refused: it is larger than the reader allows, or damaged.
LEMMA RefusedThere ==
    ASSUME Shaped, InOrder, NEW k \in 0 .. Len(tags), k < Len(tags), scene.cap \in Nat,
           hurt = k + 1 \/ tags[k + 1].size > scene.cap, hurt # None => garbled = None,
           hurt = k + 1 => tags[k + 1].end <= Len(disk),
           NEW t \in Nat, NEW c \in Nat, c <= t, EndOf(k) + t <= Len(disk),
           t = TagHeader \/ (EndOf(k) + t = EndOf(k + 1) /\ hurt # None)
    PROVE  Right(Failed(Refused, t, c), k)
<1> DEFINE r == Failed(Refused, t, c)
<1>1. r.res = Refused /\ r.taken = t /\ r.counted = c /\ r.last = None
  BY DEF Failed, Step
<1> HIDE DEF r
<1>2. k + 1 \in DOMAIN tags /\ Len(tags) \in Nat
  BY Lengths
<1>3. Rightly(k + 1, Refused)
  <2>1. CASE hurt = k + 1
    <3>1. garbled # k + 1
      BY <2>1 DEF None
    <3> QED BY <2>1, <3>1 DEF Rightly, Expected
  <2>2. CASE tags[k + 1].size > scene.cap
    <3>1. tags[k + 1].size \in Nat
      BY <1>2, Ends
    <3>2. ~(tags[k + 1].size <= scene.cap)
      BY <2>2, <3>1
    <3> QED BY <2>2, <3>2 DEF Rightly, Expected
  <2> QED BY <2>1, <2>2
<1>4. k < Whole \/ tags[k + 1].size > scene.cap
  <2>1. CASE hurt = k + 1
    <3>1. k + 1 <= Whole /\ Whole \in Nat
      BY <1>2, <2>1, WholeOnes
    <3> QED BY <3>1
  <2> QED BY <2>1
<1>5. /\ t = TagHeader => StateAfter(r) = "lost"
      /\ t # TagHeader => StateAfter(r) = "open"
  BY <1>1, Results DEF StateAfter
<1>6. t # TagHeader => EndOf(k) + t = EndOf(k + 1) /\ hurt # None
  OBVIOUS
<1> QED BY <1>1, <1>2, <1>3, <1>4, <1>5, <1>6, Results DEF Right, r

\* A tag that is returned.
LEMMA ReadThere ==
    ASSUME Shaped, InOrder, NEW k \in 0 .. Len(tags), k < Len(tags), scene.cap \in Nat,
           hurt # k + 1, tags[k + 1].size <= scene.cap, tags[k + 1].end <= Len(disk),
           NEW res, res \notin {End, Torn, Refused},
           garbled # k + 1 => res = tags[k + 1].said \/ ~Sayable(tags[k + 1].said),
           NEW n \in Nat, n = tags[k + 1].size
    PROVE  Right(Step(res, TagSize(n) + 1, TagSize(n) + 1, TagSize(n)), k)
<1> DEFINE r == Step(res, TagSize(n) + 1, TagSize(n) + 1, TagSize(n))
<1>1. r.res = res /\ r.taken = n + 6 /\ r.counted = n + 6 /\ r.last = n + 5
  BY DEF Step, TagSize, TagHeader
<1> HIDE DEF r
<1>2. k + 1 \in DOMAIN tags /\ Len(tags) \in Nat /\ Len(disk) \in Nat
  BY Lengths
<1>3. Rightly(k + 1, res)
  <2>1. Expected(k + 1) = tags[k + 1].said
    <3>1. tags[k + 1].size \in Nat
      BY <1>2, Ends
    <3>2. ~(tags[k + 1].size > scene.cap)
      BY <3>1
    <3> QED BY <3>2 DEF Expected
  <2> QED BY <2>1 DEF Rightly
<1>4. k < Whole
  <2>1. k + 1 <= Whole /\ Whole \in Nat
    BY <1>2, WholeOnes
  <2> QED BY <2>1
<1>5. EndOf(k) + (n + 6) = EndOf(k + 1) /\ EndOf(k + 1) <= Len(disk)
  <2>1. (k + 1) - 1 = k /\ k \in Nat
    OBVIOUS
  <2>2. Start(k + 1) = EndOf(k) /\ EndOf(k + 1) = tags[k + 1].end /\ EndOf(k) \in Nat
    BY <1>2, <2>1, Ends
  <2>3. tags[k + 1].end = Start(k + 1) + tags[k + 1].size + 6
    BY <1>2, Ends
  <2> QED BY <2>2, <2>3
<1>6. StateAfter(r) = "open"
  BY <1>1 DEF StateAfter, TagHeader
<1> QED BY <1>1, <1>2, <1>3, <1>4, <1>5, <1>6, SMTT(30) DEF Right, r

\* Whatever a whole tag says, something is made of it.
LEMMA Finds ==
    ASSUME NEW type, NEW ts, NEW body
    PROVE  TagOf(type, ts, body) \notin {End, Torn, Refused}
<1> DEFINE whats == {"audio", "video", "script", "unknown", "encrypted", "unreadable"}
<1>1. End.what = "end" /\ Torn.what = "torn" /\ Refused.what = "refused"
  BY DEF End, Torn, Refused, Returned
<1>2. Unreadable.what = "unreadable"
  BY DEF Unreadable, Returned
<1>3. \A kind, tag : MediaOf(kind, ts, tag).what \in {kind, "unreadable"}
  BY <1>2 DEF MediaOf, Media
<1>4. \A y, r : EncryptedOf(y, ts, r).what \in whats
  BY <1>2 DEF EncryptedOf, Encrypted
<1>5. \A r : ScriptTag(ts, body, r).what \in whats
  BY DEF ScriptTag, ScriptData, Unknown
<1>6. Unknown(type, ts, body).what \in whats
  BY DEF Unknown
<1>7. \/ \E y, r : TagOf(type, ts, body) = EncryptedOf(y, ts, r)
      \/ \E kind \in {"audio", "video"} : \E tag : TagOf(type, ts, body) = MediaOf(kind, ts, tag)
      \/ \E r : TagOf(type, ts, body) = ScriptTag(ts, body, r)
      \/ TagOf(type, ts, body) = Unknown(type, ts, body)
  BY DEF TagOf
<1>8. TagOf(type, ts, body).what \in whats
  BY <1>3, <1>4, <1>5, <1>6, <1>7
<1> QED BY <1>1, <1>8

LEMMA ReadRight ==
    ASSUME IInv, NEW k \in 0 .. Len(tags), EndOf(k) <= Len(disk)
    PROVE  Right(TagAt(From(disk, EndOf(k) + 1), scene.cap), k)
<1> DEFINE b == EndOf(k)
           p == From(disk, b + 1)
<1>1. Shaped /\ InOrder /\ Header /\ Writing /\ Reading
  BY Parts
<1>2. /\ disk \in Seq(Int) /\ Len(disk) \in Nat /\ Total \in Nat /\ Len(disk) <= Total
      /\ Len(tags) \in Nat /\ DOMAIN tags = 1 .. Len(tags) /\ b \in Nat
      /\ \A q \in 1 .. Len(disk) : Fields[q] = disk[q]
  BY <1>1, Lengths, Ends DEF Shaped
<1>3. scene.cap \in Nat
  BY <1>1, FileConstants DEF Shaped
<1>4. b <= Len(disk)
  OBVIOUS
<1> HIDE DEF b
<1>5. /\ p \in Seq(Int) /\ Len(p) = Len(disk) - b
      /\ \A q \in 1 .. Len(disk) - b : p[q] = disk[b + q]
  <2>1. b \in 0 .. Len(disk)
    BY <1>2, <1>4
  <2> QED BY <1>2, <2>1, Cut
<1> HIDE DEF p
<1>6. CASE p = <<>>
  <2>1. b = Len(disk)
    <3>1. Len(p) = 0
      BY <1>6, EmptyListed
    <3> QED BY <1>2, <1>4, <1>5, <3>1
  <2>2. TagAt(p, scene.cap) = Failed(End, 0, 0)
    BY <1>6 DEF TagAt
  <2> QED BY <1>1, <2>1, <2>2, AtTheEnd DEF b, p
<1>7. CASE p # <<>>
  <2>1. Len(p) # 0 /\ Len(p) \in Nat /\ b < Len(disk)
    <3>1. Len(p) # 0 /\ Len(p) \in Nat
      BY <1>5, <1>7
    <3> QED BY <1>2, <1>4, <1>5, <3>1
  <2>2. k < Len(tags)
    <3>1. Len(disk) <= EndOf(Len(tags)) /\ EndOf(Len(tags)) \in Nat
      BY <1>1, <1>2, Ends DEF Writing
    <3>2. k # Len(tags)
      <4>1. b = EndOf(k)
        BY DEF b
      <4>2. k = Len(tags) => Len(disk) <= b
        BY <3>1, <4>1
      <4>3. ~(Len(disk) <= b)
        BY <1>2, <2>1
      <4> QED BY <4>2, <4>3
    <3> QED BY <1>2, <3>2
  <2> DEFINE n == tags[k + 1].size
             end == tags[k + 1].end
             said == tags[k + 1].said
  <2>3. /\ k + 1 \in DOMAIN tags /\ n \in Nat /\ end = b + n + 6 /\ Start(k + 1) = b
        /\ EndOf(k + 1) = end /\ Good(k + 1)
    <3>1. k + 1 \in DOMAIN tags /\ (k + 1) - 1 = k
      BY <1>2, <2>2
    <3> QED BY <1>1, <3>1, Parts, Ends DEF b
  <2>4. /\ b + 2 <= Total => Fields[b + 2] = n
        /\ b + 5 <= Total /\ hurt # k + 1 => Fields[b + 5] = 0
        /\ b + 5 + n <= Total /\ garbled # k + 1 => ReadBehind(b, n, said)
        /\ end <= Total /\ hurt # k + 1 => Fields[end] = TagSize(n)
        /\ hurt = k + 1 => end <= Len(disk) /\ (Fields[b + 5] # 0 \/ Fields[end] # TagSize(n))
    BY <2>3 DEF Good
  <2> HIDE DEF n, end, said
  <2>5. CASE Len(p) < 5
    <3>1. TagAt(p, scene.cap) = Failed(Torn, Len(disk) - b, 0)
      BY <1>5, <1>7, <2>5 DEF TagAt, TagHeader
    <3>2. Len(disk) < EndOf(k + 1)
      BY <1>2, <1>5, <2>3, <2>5
    <3>3. 0 \in Nat /\ 0 <= Len(disk) - b
      BY <1>2, <2>1
    <3> QED BY <1>1, <2>1, <3>1, <3>2, <3>3, TornThere DEF b, p
  <2>6. CASE Len(p) >= 5
    <3>1. p[2] = n /\ p[5] = Fields[b + 5]
      <4>1. /\ 2 \in 1 .. Len(disk) - b /\ 5 \in 1 .. Len(disk) - b
            /\ b + 2 \in 1 .. Len(disk) /\ b + 5 \in 1 .. Len(disk) /\ b + 2 <= Total
        BY <1>2, <1>5, <2>6
      <4> QED BY <1>2, <1>5, <2>4, <4>1
    <3>2. CASE n > scene.cap \/ p[5] # 0
      <4>1. TagAt(p, scene.cap) = Failed(Refused, 5, 5)
        BY <1>7, <2>6, <3>1, <3>2, <1>5 DEF TagAt, TagHeader
      <4>2. hurt = k + 1 \/ n > scene.cap
        <5>1. b + 5 <= Total
          BY <1>2, <1>5, <2>6
        <5> QED BY <2>4, <3>1, <3>2, <5>1
      <4>3. b + 5 <= Len(disk)
        BY <1>2, <1>5, <2>6
      <4>4. Right(Failed(Refused, 5, 5), k)
        BY <1>1, <1>3, <2>2, <2>4, <4>2, <4>3, RefusedThere DEF TagHeader, n, end, b, Writing
      <4> QED BY <4>1, <4>4 DEF b, p
    <3>3. CASE n <= scene.cap /\ p[5] = 0
      <4>1. CASE Len(p) < 5 + n
        <5>1. TagAt(p, scene.cap) = Failed(Torn, Len(disk) - b, 5)
          BY <1>3, <1>5, <1>7, <2>3, <2>6, <3>1, <3>3, <4>1 DEF TagAt, TagHeader, TagSize
        <5>2. Len(disk) < EndOf(k + 1) /\ 5 <= Len(disk) - b
          BY <1>2, <1>5, <2>3, <2>6, <4>1
        <5> QED BY <1>1, <2>1, <5>1, <5>2, TornThere DEF b, p
      <4>2. CASE Len(p) = 5 + n
        <5>1. TagAt(p, scene.cap) = Failed(Torn, Len(disk) - b, Len(disk) - b)
          BY <1>3, <1>5, <1>7, <2>3, <2>6, <3>1, <3>3, <4>2 DEF TagAt, TagHeader, TagSize
        <5>2. Len(disk) < EndOf(k + 1) /\ Len(disk) - b \in Nat /\ Len(disk) - b <= Len(disk) - b
          BY <1>2, <1>5, <2>1, <2>3, <2>6, <4>2
        <5> QED BY <1>1, <2>1, <5>1, <5>2, TornThere DEF b, p
      <4>3. CASE Len(p) > 5 + n
        <5>1. /\ end <= Len(disk) /\ end \in Nat /\ end <= Total /\ b + 5 + n <= Total
              /\ b + 5 <= Total /\ n + 6 \in 1 .. Len(disk) - b /\ b + (n + 6) = end
          BY <1>2, <1>5, <2>3, <2>6, <4>3
        <5>2. p[n + 6] = Fields[end]
          <6>1. p[n + 6] = disk[b + (n + 6)] /\ end \in 1 .. Len(disk)
            BY <1>2, <1>5, <2>3, <5>1
          <6> QED BY <1>2, <5>1, <6>1
        <5>3. CASE p[n + 6] # 5 + n
          <6>1. TagAt(p, scene.cap) = Failed(Refused, n + 6, n + 5)
            BY <1>3, <1>5, <1>7, <2>3, <2>6, <3>1, <3>3, <4>3, <5>3, SMTT(30)
               DEF TagAt, TagHeader, TagSize
          <6>2. hurt = k + 1
            BY <2>4, <5>1, <5>2, <5>3 DEF TagSize, TagHeader
          <6>3. b + (n + 6) <= Len(disk) /\ n + 5 <= n + 6 /\ n + 5 \in Nat /\ n + 6 \in Nat
                /\ b + (n + 6) = EndOf(k + 1)
            BY <2>3, <5>1
          <6>4. hurt # None /\ tags[k + 1].end <= Len(disk)
            BY <1>2, <5>1, <6>2 DEF None, end
          <6>5. Right(Failed(Refused, n + 6, n + 5), k)
            <7> HIDE DEF p
            <7> QED BY <1>1, <1>3, <2>2, <6>2, <6>3, <6>4, RefusedThere DEF b, Writing
          <6> QED BY <6>1, <6>5 DEF b, p
        <5>4. CASE p[n + 6] = 5 + n
          <6> DEFINE res == TagOf(p[1], p[3] + TimeLow * p[4], SubSeq(p, TagHeader + 1, TagSize(n)))
          <6>1. TagAt(p, scene.cap) = Step(res, TagSize(n) + 1, TagSize(n) + 1, TagSize(n))
            <7>1. /\ ~(Len(p) < TagHeader) /\ ~(n > scene.cap \/ p[5] # 0)
                  /\ ~(Len(p) < TagSize(n)) /\ Len(p) # TagSize(n) /\ TagSize(n) + 1 = n + 6
                  /\ TagSize(n) = 5 + n
              BY <1>3, <1>5, <2>3, <2>6, <3>3, <4>3, SMTT(30) DEF TagHeader, TagSize
            <7>2. ~(p[TagSize(n) + 1] # TagSize(n))
              BY <5>4, <7>1
            <7> QED BY <1>7, <3>1, <7>1, <7>2, Zenon DEF TagAt
          <6>2. hurt # k + 1
            BY <2>4, <3>1, <3>3, <5>1, <5>2, <5>4 DEF TagSize, TagHeader
          <6>3. garbled # k + 1 => res = said \/ ~Sayable(said)
            <7> SUFFICES ASSUME garbled # k + 1
                         PROVE  res = said \/ ~Sayable(said)
              OBVIOUS
            <7>1. ReadBehind(b, n, said)
              BY <2>4, <5>1
            <7>2. p[1] = Fields[b + 1] /\ p[3] = Fields[b + 3] /\ p[4] = Fields[b + 4]
              <8>1. /\ 1 \in 1 .. Len(disk) - b /\ 3 \in 1 .. Len(disk) - b /\ 4 \in 1 .. Len(disk) - b
                    /\ b + 1 \in 1 .. Len(disk) /\ b + 3 \in 1 .. Len(disk) /\ b + 4 \in 1 .. Len(disk)
                <9>1. \A q \in {1, 3, 4} : q \in 1 .. Len(disk) - b /\ b + q \in 1 .. Len(disk)
                  BY <1>2, <1>5, <2>6
                <9> QED BY <9>1, Zenon
              <8> QED BY <1>2, <1>5, <8>1
            <7>3. SubSeq(p, TagHeader + 1, TagSize(n)) = BodyAt(b, n)
              <8>1. SubSeq(p, 6, 5 + n) = [j \in 1 .. n |-> p[5 + j]]
                BY <1>5, <2>3, <4>3
              <8>2. \A j \in 1 .. n : p[5 + j] = Fields[b + TagHeader + j]
                <9> TAKE j \in 1 .. n
                <9>1. /\ 5 + j \in 1 .. Len(disk) - b /\ b + (5 + j) \in 1 .. Len(disk)
                      /\ b + TagHeader + j = b + (5 + j)
                  BY <1>2, <1>5, <2>3, <4>3 DEF TagHeader
                <9> QED BY <1>2, <1>5, <9>1
              <8> QED BY <8>1, <8>2 DEF BodyAt, TagHeader, TagSize
            <7> QED BY <7>1, <7>2, <7>3 DEF ReadBehind
          <6>5. res \notin {End, Torn, Refused}
            BY Finds
          <6> HIDE DEF res
          <6>4. Right(Step(res, TagSize(n) + 1, TagSize(n) + 1, TagSize(n)), k)
            <7>1. n = tags[k + 1].size /\ tags[k + 1].end <= Len(disk) /\ said = tags[k + 1].said
              BY <5>1 DEF n, end, said
            <7> QED BY <1>1, <1>3, <2>2, <2>3, <3>3, <6>2, <6>3, <6>5, <7>1, ReadThere
          <6> QED BY <6>1, <6>4 DEF b, p
        <5> QED BY <5>3, <5>4
      <4>4. Len(p) \in Nat /\ n \in Nat
        BY <2>1, <2>3
      <4> QED BY <4>1, <4>2, <4>3, <4>4
    <3> QED BY <1>3, <2>3, <3>2, <3>3
  <2> QED BY <2>1, <2>5, <2>6
<1> QED BY <1>6, <1>7

LEMMA StepReadTag == ASSUME IInv, ReadTag PROVE IInv'
<1> DEFINE k == Len(got)
           r == TagAt(From(disk, reader.pos + 1), scene.cap)
           new == [res |-> r.res, whole |-> Whole,
                   torn |-> IF Whole = 0 THEN Len(disk) > FileHeader + 1
                            ELSE Len(disk) > tags[Whole].end]
<1>1. Shaped /\ InOrder /\ Header /\ Writing /\ Reading
  BY Parts
<1>2. /\ reader.state = "open" /\ got' = Append(got, new)
      /\ reader' = [reader EXCEPT !.state = StateAfter(r), !.pos = @ + r.taken,
                                  !.read = @ + r.counted,
                                  !.last = IF r.last = None THEN @ ELSE r.last]
      /\ UNCHANGED <<scene, left, disk, pending, writer, tags, misheard, hurt, garbled>>
  BY DEF ReadTag, Reads
<1>3. /\ k \in Nat /\ Len(tags) \in Nat /\ k <= Len(tags) /\ k \in 0 .. Len(tags)
      /\ reader.pos = EndOf(k) /\ reader.pos <= Len(disk) /\ reader.read <= reader.pos
      /\ reader.pos \in Nat /\ reader.read \in Nat /\ reader.last \in Nat
      /\ garbled # 0 => reader.flags = scene.flags
      /\ hurt = None => reader.read = reader.pos
      /\ hurt # 0 /\ Len(disk) \in Nat /\ DOMAIN got = 1 .. k /\ DOMAIN tags = 1 .. Len(tags)
  <2>1. /\ k \in Nat /\ Len(tags) \in Nat /\ Len(disk) \in Nat /\ DOMAIN got = 1 .. k
        /\ DOMAIN tags = 1 .. Len(tags)
    BY <1>1, Lengths
  <2>2. reader.pos \in Nat /\ reader.read \in Nat /\ reader.last \in Nat
    BY <1>1 DEF Shaped
  <2> QED BY <1>1, <1>2, <2>1, <2>2 DEF Reading
<1> HIDE DEF k
<1>4. Right(r, k)
  BY <1>3, ReadRight
<1>5. /\ new.res = r.res /\ new.whole = Whole
      /\ new.torn = IF Whole = 0 THEN Len(disk) > FileHeader + 1 ELSE Len(disk) > tags[Whole].end
  OBVIOUS
<1> HIDE DEF r, new
<1>6. /\ Listed(got') /\ Len(got') = k + 1 /\ DOMAIN got' = 1 .. k + 1
      /\ \A i \in DOMAIN got : got'[i] = got[i]
      /\ got'[k + 1] = new
  BY <1>1, <1>2, ListedAppend DEF Shaped, k
<1>7. /\ r.taken \in Nat /\ r.counted \in Nat /\ r.counted <= r.taken /\ r.last \in Nat \cup {None}
      /\ reader.pos + r.taken <= Len(disk)
      /\ StateAfter(r) = "open" => k < Len(tags) /\ reader.pos + r.taken = EndOf(k + 1)
      /\ StateAfter(r) \in {"open", "ended"} /\ hurt = None => r.counted = r.taken
  BY <1>3, <1>4 DEF Right
<1>8. StateAfter(r) \in {"open", "ended", "lost"}
  BY DEF StateAfter
<1>9. /\ reader'.state = StateAfter(r) /\ reader'.pos = reader.pos + r.taken
      /\ reader'.read = reader.read + r.counted /\ reader'.flags = reader.flags
      /\ reader' \in [state : {"closed", "refused", "open", "ended", "lost"}, pos : Nat,
                      flags : SUBSET {"audio", "video"}, last : Nat, read : Nat]
  <2>4. /\ reader.pos + r.taken \in Nat /\ reader.read + r.counted \in Nat
        /\ (IF r.last = None THEN reader.last ELSE r.last) \in Nat
    BY <1>3, <1>7, SMTT(30)
  <2>1. PICK a \in Nat, b \in Nat, c \in Nat :
           /\ a = reader.pos + r.taken /\ b = reader.read + r.counted
           /\ c = IF r.last = None THEN reader.last ELSE r.last
    BY <2>4, Zenon
  <2>2. reader' = [reader EXCEPT !.state = StateAfter(r), !.pos = a, !.read = b, !.last = c]
    BY <1>2, <2>1
  <2>3. reader \in [state : {"closed", "refused", "open", "ended", "lost"}, pos : Nat,
                    flags : SUBSET {"audio", "video"}, last : Nat, read : Nat]
    BY <1>1 DEF Shaped
  <2> QED BY <1>8, <2>1, <2>2, <2>3
<1>10. Shaped'
  BY <1>1, <1>2, <1>6, <1>9 DEF Shaped, Listed
<1>11. InOrder' /\ Header' /\ Writing'
  <2>1. Fields' = Fields /\ Total' = Total
    BY <1>2 DEF Fields, Total
  <2> QED BY <1>1, <1>2, <2>1 DEF InOrder, Header, Writing, Start, EndOf
<1>12. (\A i \in DOMAIN tags : Good(i))'
  <2>1. Fields' = Fields /\ Total' = Total
    BY <1>2 DEF Fields, Total
  <2>2. \A i \in DOMAIN tags : Good(i)
    BY Parts
  <2>3. ASSUME NEW i \in DOMAIN tags
        PROVE  Good(i)'
    <3>1. /\ tags'[i] = tags[i] /\ Start(i)' = Start(i)
          /\ (hurt' = i <=> hurt = i) /\ (garbled' = i <=> garbled = i)
      BY <1>2 DEF Start, EndOf
    <3>2. Total \in Nat /\ Len(disk) <= Total
      BY <1>1, Lengths
    <3>3. Len(disk') = Len(disk) /\ Len(disk) <= Total' /\ Total' \in Nat
      BY <1>2, <2>1, <3>2
    <3>4. \A p \in Nat : Start(i) < p /\ p <= tags[i].end /\ p <= Total' =>
                            p <= Total /\ Fields'[p] = Fields[p]
      BY <2>1
    <3> QED BY <1>1, <2>2, <3>1, <3>3, <3>4, GoodKept
  <2> QED BY <1>2, <2>3
<1>13. ASSUME NEW i \in 1 .. k + 1
       PROVE  GoodRead(i)'
  <2>1. CASE i \in DOMAIN got
    <3>1. GoodRead(i) /\ got'[i] = got[i]
      BY <1>6, <2>1, Parts
    <3> QED BY <1>1, <1>2, <2>1, <3>1, GoodReadKept
  <2>2. CASE i = k + 1
    <3>1. /\ Whole \in 0 .. Len(tags) /\ Whole \in Nat
          /\ Whole # 0 => Whole \in DOMAIN tags /\ EndOf(Whole) = tags[Whole].end
          /\ EndOf(0) = FileHeader + 1
      BY <1>1, <1>3, WholeOnes, Ends DEF FileHeader
    <3>2. new.torn = (Len(disk) > EndOf(Whole))
      BY <1>5, <3>1
    <3>3. i - 1 = k /\ (k < Whole <=> i <= Whole) /\ (k < Len(tags) => i \in DOMAIN tags)
      BY <1>3, <2>2, <3>1
    <3>4. /\ new.whole \in Nat
          /\ new.res = End => new.whole = i - 1 /\ ~new.torn
          /\ new.res = Torn => new.whole = i - 1 /\ new.torn
          /\ new.res \notin {End, Torn} =>
                /\ i \in DOMAIN tags /\ Rightly(i, new.res)
                /\ i <= new.whole \/ tags[i].size > scene.cap
      <4>1. new.res = End => new.whole = i - 1 /\ ~new.torn
        <5>1. r.res = End => Whole = k /\ Len(disk) = EndOf(k)
          BY <1>4 DEF Right
        <5>2. Len(disk) = EndOf(k) => ~(Len(disk) > EndOf(k))
          BY <1>3
        <5> QED BY <1>5, <3>2, <3>3, <5>1, <5>2
      <4>2. new.res = Torn => new.whole = i - 1 /\ new.torn
        BY <1>4, <1>5, <3>2, <3>3 DEF Right
      <4>3. new.res \notin {End, Torn} =>
                /\ i \in DOMAIN tags /\ Rightly(i, new.res)
                /\ i <= new.whole \/ tags[i].size > scene.cap
        BY <1>4, <1>5, <2>2, <3>3 DEF Right
      <4> QED BY <1>5, <3>1, <4>1, <4>2, <4>3
    <3>5. Expected(i)' = Expected(i) /\ got'[i] = new
      BY <1>2, <1>6, <2>2 DEF Expected
    <3>6. Rightly(i, new.res) => Rightly(i, got[i].res)'
      BY <1>2, <3>5 DEF Rightly
    <3> QED BY <1>2, <3>4, <3>5, <3>6 DEF GoodRead
  <2> QED BY <1>3, <2>1, <2>2
<1>14. Reading'
  <2>1. reader'.pos <= Len(disk)' /\ reader'.read <= reader'.pos
    BY <1>2, <1>3, <1>7, <1>9, SMTT(30)
  <2>2. reader'.state \notin {"closed", "refused"} /\ hurt' # 0
    BY <1>2, <1>3, <1>8, <1>9
  <2>3. reader'.state = "open" => Len(got') <= Len(tags)' /\ reader'.pos = EndOf(Len(got))'
    BY <1>2, <1>3, <1>6, <1>7, <1>9 DEF EndOf
  <2>4. reader'.state \in {"open", "ended"} =>
           /\ garbled' # 0 => reader'.flags = scene'.flags
           /\ hurt' = None => reader'.read = reader'.pos
    BY <1>2, <1>3, <1>7, <1>9
  <2>5. Len(got') <= Len(tags)' + 1
    BY <1>2, <1>3, <1>6
  <2> QED BY <2>1, <2>2, <2>3, <2>4, <2>5 DEF Reading
<1> QED BY <1>6, <1>10, <1>11, <1>12, <1>13, <1>14 DEF IInv

-----------------------------------------------------------------------------

LEMMA Begins == ASSUME Init PROVE IInv
<1>1. /\ scene \in Scenes /\ left = scene.total
      /\ disk = <<>> /\ pending = <<Signature, Version, FlagByte(scene.flags), FileHeader, 0>>
      /\ writer = [state |-> "open", prev |-> 0, written |-> FileHeader + 1]
      /\ tags = <<>> /\ hurt = None /\ garbled = None
      /\ reader = [state |-> "closed", pos |-> 0, flags |-> {}, last |-> 0, read |-> 0]
      /\ got = <<>>
  BY DEF Init
<1>2. /\ pending \in Seq(Int) /\ Len(pending) = 5 /\ pending[1] = Signature /\ pending[2] = Version
      /\ pending[3] = FlagByte(scene.flags) /\ pending[4] = FileHeader /\ pending[5] = 0
  <2>1. PICK f \in Int : f = FlagByte(scene.flags)
    BY DEF FlagByte
  <2>2. pending = <<70, 1, f, 4, 0>>
    BY <1>1, <2>1 DEF Signature, Version, FileHeader
  <2> QED BY <2>1, <2>2 DEF Signature, Version, FileHeader
<1>3. disk \in Seq(Int) /\ Len(disk) = 0
  BY <1>1, EmptySeq
<1>4. Fields = pending /\ Total = 5
  <2>1. <<>> \o pending = pending
    BY <1>2, ConcatEmptySeq
  <2> QED BY <1>1, <1>2, <2>1 DEF Fields, Total
<1>5. Shaped
  <2>1. left \in 0 .. scene.total
    <3>1. scene.total \in Nat
      BY <1>1, FileConstants
    <3> QED BY <1>1, <3>1
  <2>2. /\ writer \in [state : {"open", "finished", "gone"}, prev : Nat, written : Nat]
        /\ reader \in [state : {"closed", "refused", "open", "ended", "lost"}, pos : Nat,
                       flags : SUBSET {"audio", "video"}, last : Nat, read : Nat]
    BY <1>1 DEF FileHeader
  <2> QED BY <1>1, <1>2, <1>3, <2>1, <2>2, EmptyListed DEF Shaped
<1>6. InOrder /\ (\A i \in DOMAIN tags : Good(i)) /\ (\A i \in DOMAIN got : GoodRead(i))
  BY <1>1, EmptyListed DEF InOrder
<1>7. Header
  BY <1>2, <1>4 DEF Header
<1>8. EndOf(Len(tags)) = 5 /\ Len(tags) = 0 /\ Len(got) = 0
  BY <1>1, EmptyListed DEF EndOf, FileHeader
<1>9. Writing
  BY <1>1, <1>4, <1>8 DEF Writing, FileHeader
<1>10. Reading
  BY <1>1, <1>3, <1>8 DEF Reading, None
<1> QED BY <1>5, <1>6, <1>7, <1>9, <1>10 DEF IInv

LEMMA StepStutter == ASSUME IInv, UNCHANGED vars PROVE IInv'
<1>1. left' \in 0 .. scene.total
  BY Parts DEF Shaped, vars
<1> QED BY <1>1, StepSkip DEF vars

\* The invariant of every behaviour whose entries read as what they say.
LEMMA Invariant == Spec /\ EntriesRead => []IInv
<1> SUFFICES ASSUME EntriesRead PROVE Spec => []IInv
  OBVIOUS
<1>1. Init => IInv
  BY Begins
<1>2. IInv /\ [Next]_vars => IInv'
  BY StepRecord, StepSink, StepFinish, StepStop, StepDamage, StepGarble, StepOpen, StepReadTag, StepStutter
     DEF Next
<1> QED BY <1>1, <1>2, PTL DEF Spec

-----------------------------------------------------------------------------
(* Theorems. *)

\* The counts of both ends are where the file is: what FlvWriter says it has written is what it
\* has handed to the disk, what FlvReader says it has read is where it stands, and it stands in
\* the file and returns at most one result more than there are tags.
THEOREM TypeCorrect == Spec /\ EntriesRead => []TypeOK
<1>1. IInv => TypeOK
  <2> SUFFICES ASSUME IInv PROVE TypeOK
    OBVIOUS
  <2>1. Shaped /\ Writing /\ Reading
    BY Parts
  <2>2. Total = Len(disk) + Len(pending)
    BY <2>1, Lengths
  <2> QED BY <2>1, <2>2 DEF TypeOK, Shaped, Writing, Reading
<1> QED BY <1>1, Invariant, PTL

\* Each read of FlvReader returns the tag that FlvWriter wrote there, a clean end between two
\* tags, and a tear inside one, wherever the disk stopped or the file was still growing; a tag
\* with a damaged stream id or back-pointer is refused, and a file with a damaged header; what is
\* damaged where nobody looks makes one tag another, and none of its neighbours.
THEOREM Recorded == Spec /\ EntriesRead => []ReadsBack
<1>1. IInv => ReadsBack
  <2> SUFFICES ASSUME IInv PROVE ReadsBack
    OBVIOUS
  <2>1. Reading /\ \A i \in DOMAIN got : GoodRead(i)
    BY Parts
  <2>2. ASSUME NEW i \in DOMAIN got
        PROVE  LET g == got[i] IN
               CASE g.res = End -> g.whole = i - 1 /\ ~g.torn
                 [] g.res = Torn -> g.whole = i - 1 /\ g.torn
                 [] OTHER -> /\ i \in DOMAIN tags /\ Rightly(i, g.res)
                             /\ i <= g.whole \/ tags[i].size > scene.cap
    <3>1. GoodRead(i)
      BY <2>1
    <3>2. CASE got[i].res = End
      BY <3>1, <3>2, Results DEF GoodRead
    <3>3. CASE got[i].res = Torn
      BY <3>1, <3>3, Results DEF GoodRead
    <3>4. CASE got[i].res \notin {End, Torn}
      BY <3>1, <3>4 DEF GoodRead
    <3> QED BY <3>2, <3>3, <3>4
  <2>3. hurt = 0 => reader.state \in {"closed", "refused"}
    BY <2>1 DEF Reading
  <2>4. hurt = None /\ reader.state = "refused" => Len(disk) <= FileHeader \/ scene.live
    BY <2>1 DEF Reading
  <2> QED BY <2>2, <2>3, <2>4 DEF ReadsBack
<1> QED BY <1>1, Invariant, PTL

-----------------------------------------------------------------------------
(* Media tags without a ModEx chain and without tracks: what is built of one is parsed as it,     *)
(* for every field and every body.  The fields a tag does not have are absent in the record.      *)

Payload == Seq(Int)

LegacyTag(kind, codec, frame, sound, sub, cts, body) ==
    [Tag(kind) EXCEPT !.codec = codec, !.frame = frame, !.sound = sound, !.sub = sub,
                      !.cts = cts, !.body = body]

EnhancedPlain(kind, frame, pt, fourcc, cts, body) ==
    [Tag(kind) EXCEPT !.frame = frame, !.pt = pt, !.fourcc = fourcc, !.cts = cts, !.body = body]

Cts == (-(2^23)) .. 2^23 - 1

LEMMA CtsReadBack == ASSUME NEW v \in Cts PROVE SignExtend(SI24(v)) = v
<1>1. 2^24 = 16777216 /\ 2^23 = 8388608
  OBVIOUS
<1> QED BY <1>1 DEF SignExtend, SI24, Cts

LEMMA Heads ==
    ASSUME NEW h \in 0 .. 15, NEW c \in 0 .. 15
    PROVE  (h * 16 + c) \div 16 = h /\ (h * 16 + c) % 16 = c /\ h * 16 + c \in 0 .. 255
OBVIOUS

LEMMA VideoHeads ==
    ASSUME NEW f \in 0 .. 7, NEW c \in 0 .. 15
    PROVE  /\ f * 16 + c < 128
           /\ (128 + f * 16 + c) % 16 = c /\ ((128 + f * 16 + c) \div 16) % 8 = f
           /\ 128 + f * 16 + c >= 128
OBVIOUS

\* A field in front of a payload.
LEMMA Behind ==
    ASSUME NEW x \in Int, NEW body \in Payload
    PROVE  /\ <<x>> \o body \in Payload /\ <<x>> \o body # <<>>
           /\ (<<x>> \o body)[1] = x /\ Tail(<<x>> \o body) = body
           /\ Len(<<x>> \o body) = Len(body) + 1
<1>0. <<x>> \in Seq(Int)
  OBVIOUS
<1>1. PICK s \in Seq(Int) : s = <<x>>
  BY <1>0
<1>2. Len(s) = 1 /\ s[1] = x
  BY <1>1
<1> DEFINE t == s \o body
<1>3. /\ t \in Seq(Int) /\ Len(t) = 1 + Len(body) /\ t[1] = x
      /\ \A p \in 1 .. Len(body) : t[1 + p] = body[p]
  <2>1. body \in Seq(Int)
    BY DEF Payload
  <2>2. /\ t \in Seq(Int) /\ Len(t) = Len(s) + Len(body)
        /\ \A p \in 1 .. Len(s) : t[p] = s[p]
        /\ \A p \in 1 .. Len(body) : t[Len(s) + p] = body[p]
    BY <2>1, Joined
  <2> HIDE DEF t
  <2> QED BY <1>2, <2>2
<1> HIDE DEF t
<1>4. Len(t) # 0 /\ t # <<>>
  BY <1>3, EmptyListed DEF Payload
<1>5. Tail(t) = body
  <2>1. Tail(t) \in Seq(Int) /\ Len(Tail(t)) = Len(body)
        /\ \A p \in 1 .. Len(body) : Tail(t)[p] = t[p + 1]
    BY <1>3, <1>4 DEF Payload
  <2>2. \A q, r \in Seq(Int) : Len(q) = Len(r) /\ (\A p \in 1 .. Len(q) : q[p] = r[p]) => q = r
    BY SeqEqual
  <2>3. \A p \in 1 .. Len(body) : Tail(t)[p] = body[p]
    BY <1>3, <2>1
  <2> QED BY <2>1, <2>2, <2>3 DEF Payload
<1> QED BY <1>1, <1>3, <1>4, <1>5 DEF Payload, t

\* Three fields in front of a payload.
LEMMA BehindThree ==
    ASSUME NEW x \in Int, NEW y \in Int, NEW z \in Int, NEW body \in Payload
    PROVE  LET p == <<x, y, z>> \o body IN
           /\ p \in Payload /\ p # <<>> /\ Len(p) >= 3
           /\ p[1] = x /\ p[2] = y /\ p[3] = z /\ From(p, 4) = body
<1>1. PICK s \in Seq(Int) : s = <<x, y, z>>
  <2>1. <<x, y, z>> \in Seq(Int)
    OBVIOUS
  <2> QED BY <2>1
<1>2. Len(s) = 3 /\ s[1] = x /\ s[2] = y /\ s[3] = z
  BY <1>1
<1> DEFINE t == s \o body
<1>3. /\ t \in Seq(Int) /\ Len(t) = 3 + Len(body) /\ t[1] = x /\ t[2] = y /\ t[3] = z
      /\ \A p \in 1 .. Len(body) : t[3 + p] = body[p]
  <2>1. body \in Seq(Int)
    BY DEF Payload
  <2>2. /\ t \in Seq(Int) /\ Len(t) = Len(s) + Len(body)
        /\ \A p \in 1 .. Len(s) : t[p] = s[p]
        /\ \A p \in 1 .. Len(body) : t[Len(s) + p] = body[p]
    BY <2>1, Joined
  <2> HIDE DEF t
  <2>3. 1 \in 1 .. Len(s) /\ 2 \in 1 .. Len(s) /\ 3 \in 1 .. Len(s)
    BY <1>2
  <2> QED BY <1>2, <2>2, <2>3
<1> HIDE DEF t
<1>4. Len(t) >= 3 /\ t # <<>>
  BY <1>3, EmptyListed DEF Payload
<1>5. From(t, 4) = body
  <2> DEFINE u == SubSeq(t, 4, Len(t))
  <2>1. u \in Seq(Int) /\ Len(u) = Len(body) /\ \A p \in 1 .. Len(body) : u[p] = t[3 + p]
    BY <1>3, <1>4 DEF Payload
  <2> HIDE DEF u
  <2>2. \A q, r \in Seq(Int) : Len(q) = Len(r) /\ (\A p \in 1 .. Len(q) : q[p] = r[p]) => q = r
    BY SeqEqual
  <2>3. \A p \in 1 .. Len(body) : u[p] = body[p]
    BY <1>3, <2>1
  <2>4. u = body
    BY <2>1, <2>2, <2>3 DEF Payload
  <2> QED BY <2>4 DEF From, u
<1> QED BY <1>1, <1>2, <1>3, <1>4, <1>5 DEF Payload, t

\* Two fields in front of a payload.
LEMMA BehindTwo ==
    ASSUME NEW x \in Int, NEW y \in Int, NEW body \in Payload
    PROVE  LET p == <<x, y>> \o body IN
           /\ p \in Payload /\ p # <<>> /\ Len(p) >= 2
           /\ p[1] = x /\ p[2] = y /\ From(p, 3) = body
<1>1. PICK s \in Seq(Int) : s = <<x, y>>
  <2>1. <<x, y>> \in Seq(Int)
    OBVIOUS
  <2> QED BY <2>1
<1>2. Len(s) = 2 /\ s[1] = x /\ s[2] = y
  BY <1>1
<1> DEFINE t == s \o body
<1>3. /\ t \in Seq(Int) /\ Len(t) = 2 + Len(body) /\ t[1] = x /\ t[2] = y
      /\ \A p \in 1 .. Len(body) : t[2 + p] = body[p]
  <2>1. body \in Seq(Int)
    BY DEF Payload
  <2>2. /\ t \in Seq(Int) /\ Len(t) = Len(s) + Len(body)
        /\ \A p \in 1 .. Len(s) : t[p] = s[p]
        /\ \A p \in 1 .. Len(body) : t[Len(s) + p] = body[p]
    BY <2>1, Joined
  <2> HIDE DEF t
  <2>3. 1 \in 1 .. Len(s) /\ 2 \in 1 .. Len(s)
    BY <1>2
  <2> QED BY <1>2, <2>2, <2>3
<1> HIDE DEF t
<1>4. Len(t) >= 2 /\ t # <<>>
  BY <1>3, EmptyListed DEF Payload
<1>5. From(t, 3) = body
  <2> DEFINE u == SubSeq(t, 3, Len(t))
  <2>1. u \in Seq(Int) /\ Len(u) = Len(body) /\ \A p \in 1 .. Len(body) : u[p] = t[2 + p]
    BY <1>3, <1>4 DEF Payload
  <2> HIDE DEF u
  <2>2. \A q, r \in Seq(Int) : Len(q) = Len(r) /\ (\A p \in 1 .. Len(q) : q[p] = r[p]) => q = r
    BY SeqEqual
  <2>3. \A p \in 1 .. Len(body) : u[p] = body[p]
    BY <1>3, <2>1
  <2>4. u = body
    BY <2>1, <2>2, <2>3 DEF Payload
  <2> QED BY <2>4 DEF From, u
<1> QED BY <1>1, <1>2, <1>3, <1>4, <1>5 DEF Payload, t

\* Two sequences of fields are one, and nothing in between changes nothing.
LEMMA FieldsTogether ==
    ASSUME NEW s \in Seq(Int), NEW t \in Seq(Int), NEW u \in Seq(Int),
           Len(u) = Len(s) + Len(t), \A p \in 1 .. Len(s) : u[p] = s[p],
           \A p \in 1 .. Len(t) : u[Len(s) + p] = t[p]
    PROVE  s \o t = u
<1>1. \A q, r \in Seq(Int) : Len(q) = Len(r) /\ (\A p \in 1 .. Len(q) : q[p] = r[p]) => q = r
  BY SeqEqual
<1> DEFINE v == s \o t
<1>2. /\ v \in Seq(Int) /\ Len(v) = Len(s) + Len(t)
      /\ \A p \in 1 .. Len(s) : v[p] = s[p]
      /\ \A p \in 1 .. Len(t) : v[Len(s) + p] = t[p]
  BY Joined
<1> HIDE DEF v
<1>3. Len(s) \in Nat /\ Len(t) \in Nat
  OBVIOUS
<1>4. ASSUME NEW p \in 1 .. Len(v) PROVE v[p] = u[p]
  <2>1. p \in 1 .. Len(s) \/ (p - Len(s) \in 1 .. Len(t) /\ p = Len(s) + (p - Len(s)))
    BY <1>2, <1>3
  <2> QED BY <1>2, <2>1
<1>5. v = u
  BY <1>1, <1>2, <1>4
<1> QED BY <1>5 DEF v

LEMMA FieldsJoined ==
    ASSUME NEW x \in Int, NEW y \in Int, NEW z \in Int
    PROVE  /\ <<x>> \o <<>> = <<x>> /\ <<x>> \o <<y>> = <<x, y>>
           /\ <<x>> \o <<y, z>> = <<x, y, z>> /\ <<x, y>> \o <<>> = <<x, y>>
           /\ <<x, y>> \o <<z>> = <<x, y, z>>
<1>1. <<x>> \o <<>> = <<x>> /\ <<x, y>> \o <<>> = <<x, y>>
  <2>1. <<x>> \in Seq(Int) /\ <<x, y>> \in Seq(Int)
    OBVIOUS
  <2> QED BY <2>1, ConcatEmptySeq
<1>2. PICK a \in Seq(Int) : a = <<x>>
  <2>1. <<x>> \in Seq(Int)
    OBVIOUS
  <2> QED BY <2>1
<1>3. PICK b \in Seq(Int) : b = <<y>>
  <2>1. <<y>> \in Seq(Int)
    OBVIOUS
  <2> QED BY <2>1
<1>4. PICK c \in Seq(Int) : c = <<z>>
  <2>1. <<z>> \in Seq(Int)
    OBVIOUS
  <2> QED BY <2>1
<1>5. PICK ab \in Seq(Int) : ab = <<x, y>>
  <2>1. <<x, y>> \in Seq(Int)
    OBVIOUS
  <2> QED BY <2>1
<1>6. PICK bc \in Seq(Int) : bc = <<y, z>>
  <2>1. <<y, z>> \in Seq(Int)
    OBVIOUS
  <2> QED BY <2>1
<1>7. PICK abc \in Seq(Int) : abc = <<x, y, z>>
  <2>1. <<x, y, z>> \in Seq(Int)
    OBVIOUS
  <2> QED BY <2>1
<1>8. /\ Len(a) = 1 /\ a[1] = x /\ Len(b) = 1 /\ b[1] = y /\ Len(c) = 1 /\ c[1] = z
      /\ Len(ab) = 2 /\ ab[1] = x /\ ab[2] = y /\ Len(bc) = 2 /\ bc[1] = y /\ bc[2] = z
      /\ Len(abc) = 3 /\ abc[1] = x /\ abc[2] = y /\ abc[3] = z
  BY <1>2, <1>3, <1>4, <1>5, <1>6, <1>7
<1>9. a \o b = ab
  <2>1. /\ Len(ab) = Len(a) + Len(b)
        /\ \A p \in 1 .. Len(a) : ab[p] = a[p]
        /\ \A p \in 1 .. Len(b) : ab[Len(a) + p] = b[p]
    BY <1>8
  <2> QED BY <2>1, FieldsTogether
<1>10. a \o bc = abc
  <2>1. /\ Len(abc) = Len(a) + Len(bc)
        /\ \A p \in 1 .. Len(a) : abc[p] = a[p]
        /\ \A p \in 1 .. Len(bc) : abc[Len(a) + p] = bc[p]
    BY <1>8
  <2> QED BY <2>1, FieldsTogether
<1>11. ab \o c = abc
  <2>1. /\ Len(abc) = Len(ab) + Len(c)
        /\ \A p \in 1 .. Len(ab) : abc[p] = ab[p]
        /\ \A p \in 1 .. Len(c) : abc[Len(ab) + p] = c[p]
    BY <1>8
  <2> QED BY <2>1, FieldsTogether
<1> QED BY <1>1, <1>2, <1>3, <1>4, <1>5, <1>6, <1>7, <1>9, <1>10, <1>11, Zenon

\* A tag is a function on its field names; a parse that sets only some of them leaves the
\* others as Tag gives them.
TagFields == {"kind", "frame", "codec", "sub", "cts", "sound", "pt", "fourcc", "modEx", "mt",
              "body"}

LEMMA TagIs ==
    ASSUME NEW kind
    PROVE  LET r == Tag(kind) IN
           /\ r = [n \in TagFields |-> r[n]]
           /\ r.kind = kind /\ r.frame = 0 /\ r.sub = None /\ r.cts = 0 /\ r.sound = 0
           /\ r.pt = None /\ r.fourcc = None /\ r.modEx = <<>> /\ r.mt = NoTracks
BY DEF Tag, TagFields

\* A legacy tag whose packet type and composition time are there where AVC and AAC carry them.
LEMMA LegacyVideoBack ==
    ASSUME NEW f \in 0 .. 7, NEW codec \in 0 .. 15, NEW sub \in Nat \cup {None}, NEW cts \in Cts,
           NEW body \in Payload,
           IF codec = AVC /\ f # Command THEN sub # None ELSE sub = None /\ cts = 0
    PROVE  LET t == LegacyTag("video", codec, f, 0, sub, cts, body)
           IN  Parse("video", Build(t)) = t
<1>1. PICK t : t = LegacyTag("video", codec, f, 0, sub, cts, body)
  OBVIOUS
<1>2. PICK h \in Int : h = f * 16 + codec
  OBVIOUS
<1>3. PICK video : video = [Tag("video") EXCEPT !.frame = f, !.codec = codec]
  OBVIOUS
<1>4. /\ t.kind = "video" /\ t.codec = codec /\ t.frame = f /\ t.sub = sub /\ t.cts = cts
      /\ t.body = body /\ t.fourcc = None /\ ~IsMultitrack(t)
      /\ video.codec = codec /\ video.frame = f
      /\ [video EXCEPT !.sub = sub, !.cts = cts, !.body = body] = t
      /\ sub = None /\ cts = 0 => [video EXCEPT !.body = body] = t
  <2>1. PICK r : r = Tag("video")
    OBVIOUS
  <2>2. /\ r = [n \in TagFields |-> r[n]]
        /\ r.kind = "video" /\ r.sub = None /\ r.cts = 0 /\ r.sound = 0
        /\ r.fourcc = None /\ r.mt = NoTracks
    BY <2>1, TagIs
  <2>3. /\ t = [r EXCEPT !.codec = codec, !.frame = f, !.sound = 0, !.sub = sub,
                         !.cts = cts, !.body = body]
        /\ video = [r EXCEPT !.frame = f, !.codec = codec]
    BY <1>1, <1>3, <2>1 DEF LegacyTag
  <2>4. /\ t.kind = "video" /\ t.codec = codec /\ t.frame = f /\ t.sub = sub /\ t.cts = cts
        /\ t.body = body /\ t.fourcc = None /\ t.mt = NoTracks
        /\ video.codec = codec /\ video.frame = f
    BY <2>2, <2>3 DEF TagFields
  <2>5. [video EXCEPT !.sub = sub, !.cts = cts, !.body = body] = t
    BY <2>2, <2>3 DEF TagFields
  <2>6. sub = None /\ cts = 0 => [video EXCEPT !.body = body] = t
    BY <2>2, <2>3 DEF TagFields
  <2>7. NoTracks.type = None
    BY DEF NoTracks
  <2> QED BY <2>4, <2>5, <2>6, <2>7 DEF IsMultitrack
<1>5. h < 128 /\ h \div 16 = f /\ h % 16 = codec
  BY <1>2, Heads, VideoHeads
<1>6. Build(t) = BuildLegacyVideo(t)
  BY <1>4 DEF Build
<1>7. CASE codec = AVC /\ f # Command
  <2>1. PICK s \in Int : s = SI24(cts)
    BY DEF SI24, Cts
  <2>2. SignExtend(s) = cts
    BY <2>1, CtsReadBack
  <2>3. sub \in Int /\ sub # None
    BY <1>7 DEF None
  <2>4. PICK p : p = <<h, sub, s>> \o body
    OBVIOUS
  <2>5. Build(t) = p
    <3>1. <<h>> \o <<sub, s>> = <<h, sub, s>>
      BY <2>3, FieldsJoined
    <3> QED BY <1>2, <1>4, <1>6, <1>7, <2>1, <2>3, <2>4, <3>1 DEF BuildLegacyVideo, Sub
  <2>6. /\ p \in Payload /\ p # <<>> /\ Len(p) >= 3 /\ p[1] = h /\ p[2] = sub /\ p[3] = s
        /\ From(p, 4) = body
    BY <2>3, <2>4, BehindThree
  <2>7. Parse("video", p) = ParseLegacyVideo(p)
    BY <1>5, <2>6 DEF Parse
  <2>8. ParseLegacyVideo(p) = [video EXCEPT !.sub = p[2], !.cts = SignExtend(p[3]),
                                            !.body = From(p, 4)]
    <3>1. video = [Tag("video") EXCEPT !.frame = p[1] \div 16, !.codec = p[1] % 16]
      BY <1>3, <1>5, <2>6
    <3>2. ~(Len(p) < 3)
      BY <2>6 DEF Payload
    <3> QED BY <1>4, <1>7, <3>1, <3>2, Zenon DEF ParseLegacyVideo
  <2> QED BY <1>1, <1>4, <2>2, <2>5, <2>6, <2>7, <2>8, Zenon
<1>8. CASE ~(codec = AVC /\ f # Command)
  <2>1. PICK p : p = <<h>> \o body
    OBVIOUS
  <2>2. Build(t) = p
    <3>1. <<h>> \o <<>> = <<h>>
      BY FieldsJoined
    <3> QED BY <1>2, <1>4, <1>6, <1>8, <2>1, <3>1 DEF BuildLegacyVideo
  <2>3. p \in Payload /\ p # <<>> /\ p[1] = h /\ Tail(p) = body
    BY <2>1, Behind
  <2>4. Parse("video", p) = ParseLegacyVideo(p)
    BY <1>5, <2>3 DEF Parse
  <2>5. ParseLegacyVideo(p) = [video EXCEPT !.body = Tail(p)]
    <3>1. video = [Tag("video") EXCEPT !.frame = p[1] \div 16, !.codec = p[1] % 16]
      BY <1>3, <1>5, <2>3
    <3> QED BY <1>4, <1>8, <3>1, Zenon DEF ParseLegacyVideo
  <2>6. sub = None /\ cts = 0
    BY <1>8
  <2> QED BY <1>1, <1>4, <2>2, <2>3, <2>4, <2>5, <2>6, Zenon
<1> QED BY <1>7, <1>8

LEMMA LegacyAudioBack ==
    ASSUME NEW codec \in (0 .. 15) \ {ExHeader}, NEW sound \in 0 .. 15,
           NEW sub \in Nat \cup {None}, NEW body \in Payload,
           codec = AAC <=> sub # None
    PROVE  LET t == LegacyTag("audio", codec, 0, sound, sub, 0, body)
           IN  Parse("audio", Build(t)) = t
<1>1. PICK t : t = LegacyTag("audio", codec, 0, sound, sub, 0, body)
  OBVIOUS
<1>2. PICK h \in Int : h = codec * 16 + sound
  OBVIOUS
<1>3. PICK audio : audio = [Tag("audio") EXCEPT !.codec = codec, !.sound = sound]
  OBVIOUS
<1>4. /\ t.kind = "audio" /\ t.codec = codec /\ t.sound = sound /\ t.sub = sub
      /\ t.body = body /\ t.fourcc = None /\ ~IsMultitrack(t)
      /\ audio.codec = codec /\ audio.sound = sound
      /\ [audio EXCEPT !.sub = sub, !.body = body] = t
      /\ sub = None => [audio EXCEPT !.body = body] = t
  <2>1. PICK r : r = Tag("audio")
    OBVIOUS
  <2>2. /\ r = [n \in TagFields |-> r[n]]
        /\ r.kind = "audio" /\ r.frame = 0 /\ r.sub = None /\ r.cts = 0
        /\ r.fourcc = None /\ r.mt = NoTracks
    BY <2>1, TagIs
  <2>3. /\ t = [r EXCEPT !.codec = codec, !.frame = 0, !.sound = sound, !.sub = sub,
                         !.cts = 0, !.body = body]
        /\ audio = [r EXCEPT !.codec = codec, !.sound = sound]
    BY <1>1, <1>3, <2>1 DEF LegacyTag
  <2>4. /\ t.kind = "audio" /\ t.codec = codec /\ t.sound = sound /\ t.sub = sub
        /\ t.body = body /\ t.fourcc = None /\ t.mt = NoTracks
        /\ audio.codec = codec /\ audio.sound = sound
    BY <2>2, <2>3 DEF TagFields
  <2>5. [audio EXCEPT !.sub = sub, !.body = body] = t
    BY <2>2, <2>3 DEF TagFields
  <2>6. sub = None => [audio EXCEPT !.body = body] = t
    BY <2>2, <2>3 DEF TagFields
  <2>7. NoTracks.type = None
    BY DEF NoTracks
  <2> QED BY <2>4, <2>5, <2>6, <2>7 DEF IsMultitrack
<1>5. h \div 16 = codec /\ h % 16 = sound /\ h \div 16 # ExHeader
  BY <1>2, Heads
<1>6. Build(t) = BuildLegacyAudio(t)
  BY <1>4 DEF Build
<1>7. CASE codec = AAC
  <2>1. sub \in Int /\ sub # None
    BY <1>7 DEF None
  <2>2. PICK p : p = <<h, sub>> \o body
    OBVIOUS
  <2>3. Build(t) = p
    <3>1. <<h>> \o <<sub>> = <<h, sub>>
      BY <2>1, FieldsJoined
    <3> QED BY <1>2, <1>4, <1>6, <1>7, <2>1, <2>2, <3>1 DEF BuildLegacyAudio, Sub
  <2>4. p \in Payload /\ p # <<>> /\ Len(p) >= 2 /\ p[1] = h /\ p[2] = sub /\ From(p, 3) = body
    BY <2>1, <2>2, BehindTwo
  <2>5. Parse("audio", p) = ParseLegacyAudio(p)
    BY <1>5, <2>4 DEF Parse
  <2>6. ParseLegacyAudio(p) = [audio EXCEPT !.sub = p[2], !.body = From(p, 3)]
    <3>1. audio = [Tag("audio") EXCEPT !.codec = p[1] \div 16, !.sound = p[1] % 16]
      BY <1>3, <1>5, <2>4
    <3>2. ~(Len(p) < 2)
      BY <2>4 DEF Payload
    <3> QED BY <1>4, <1>7, <3>1, <3>2, Zenon DEF ParseLegacyAudio
  <2> QED BY <1>1, <1>4, <2>3, <2>4, <2>5, <2>6, Zenon
<1>8. CASE codec # AAC
  <2>1. PICK p : p = <<h>> \o body
    OBVIOUS
  <2>2. Build(t) = p
    <3>1. <<h>> \o <<>> = <<h>>
      BY FieldsJoined
    <3> QED BY <1>2, <1>4, <1>6, <1>8, <2>1, <3>1 DEF BuildLegacyAudio
  <2>3. p \in Payload /\ p # <<>> /\ p[1] = h /\ Tail(p) = body
    BY <2>1, Behind
  <2>4. Parse("audio", p) = ParseLegacyAudio(p)
    BY <1>5, <2>3 DEF Parse
  <2>5. ParseLegacyAudio(p) = [audio EXCEPT !.body = Tail(p)]
    <3>1. audio = [Tag("audio") EXCEPT !.codec = p[1] \div 16, !.sound = p[1] % 16]
      BY <1>3, <1>5, <2>3
    <3> QED BY <1>4, <1>8, <3>1, Zenon DEF ParseLegacyAudio
  <2> QED BY <1>1, <1>4, <1>8, <2>2, <2>3, <2>4, <2>5, Zenon
<1> QED BY <1>7, <1>8

LEMMA NoChain == \A pt : ModExChain(<<>>, pt) = <<>>
<1> TAKE pt
<1>1. PICK none \in Seq(Seq(Int)) : none = <<>>
  <2>1. <<>> \in Seq(Seq(Int))
    BY EmptySeq
  <2> QED BY <2>1
<1>2. FlattenSeq(none) = <<>>
  <2>1. PICK s \in Seq(Int) : s = <<>>
    <3>1. <<>> \in Seq(Int)
      BY EmptySeq
    <3> QED BY <3>1
  <2> QED BY <1>1, <2>1, FlattenAppend
<1>3. [i \in DOMAIN <<>> |->
           ModExSize(Len(<<>>[i].data)) \o <<>>[i].data
             \o <<<<>>[i].type * 16 + IF i < Len(<<>>) THEN ModEx ELSE pt>>] = none
  <2>1. DOMAIN <<>> = 1 .. 0 /\ 1 .. 0 = {}
    OBVIOUS
  <2> QED BY <1>1, <2>1
<1> QED BY <1>2, <1>3 DEF ModExChain

\* An enhanced tag without ModEx entries and without tracks.  The reserved packet types are
\* read back too; those of ModEx and of the multitrack body are other layouts.
LEMMA EnhancedBack ==
    ASSUME NEW kind \in {"video", "audio"}, NEW f \in 0 .. 7, kind = "audio" => f = 0,
           NEW pt \in (0 .. 15) \ {ModEx, MultitrackOf(kind)}, NEW cc \in Nat,
           NEW cts \in Cts, CarriesCts(kind, f, pt, cc) \/ cts = 0, NEW body \in Payload
    PROVE  LET t == EnhancedPlain(kind, f, pt, cc, cts, body)
           IN  Parse(kind, Build(t)) = t
<1>1. PICK t : t = EnhancedPlain(kind, f, pt, cc, cts, body)
  OBVIOUS
<1>2. PICK r : r = Tag(kind)
  OBVIOUS
<1>3. PICK tag : tag = [r EXCEPT !.frame = f, !.pt = pt, !.fourcc = cc, !.modEx = <<>>]
  OBVIOUS
<1>4. PICK h \in Int : h = (IF kind = "video" THEN 128 + (f % 8) * 16 ELSE ExHeader * 16) + pt
  BY DEF ExHeader
<1>5. PICK s \in Int : s = SI24(cts)
  BY DEF SI24, Cts
<1>6. PICK inner \in Payload :
          inner = (IF CarriesCts(kind, f, pt, cc) THEN <<s>> ELSE <<>>) \o body
  <2>1. <<s>> \o body \in Payload
    BY Behind
  <2>2. <<>> \o body = body
    BY ConcatEmptySeq DEF Payload
  <2> QED BY <2>1, <2>2
<1>7. /\ r = [n \in TagFields |-> r[n]]
      /\ r.kind = kind /\ r.cts = 0 /\ r.modEx = <<>> /\ r.mt = NoTracks
  BY <1>2, TagIs
<1>8. t = [r EXCEPT !.frame = f, !.pt = pt, !.fourcc = cc, !.cts = cts, !.body = body]
  BY <1>1, <1>2 DEF EnhancedPlain
<1>9. /\ t.kind = kind /\ t.frame = f /\ t.pt = pt /\ t.fourcc = cc /\ t.cts = cts
      /\ t.body = body /\ t.modEx = <<>> /\ t.mt = NoTracks
  BY <1>7, <1>8 DEF TagFields
<1>10. [tag EXCEPT !.cts = cts, !.body = body] = t
  BY <1>3, <1>7, <1>8 DEF TagFields
<1>11. cts = 0 => [tag EXCEPT !.body = body] = t
  BY <1>3, <1>7, <1>8 DEF TagFields
<1>12. pt # None /\ cc # None /\ NoTracks.type = None /\ None # ManyTracksManyCodecs
  BY DEF None, NoTracks, ManyTracksManyCodecs
<1>13. ~IsMultitrack(t) /\ t.mt.type # ManyTracksManyCodecs
  BY <1>9, <1>12 DEF IsMultitrack
<1>14. PICK p : p = <<h>> \o (<<cc>> \o inner)
  OBVIOUS
<1>15. Build(t) = p
  <2>1. Build(t) = BuildEnhanced(t)
    BY <1>9, <1>12 DEF Build
  <2>2. BuildEnhanced(t) = <<h>> \o <<>> \o <<>> \o <<cc>> \o inner
    BY <1>4, <1>5, <1>6, <1>9, <1>12, <1>13, NoChain, ZenonT(40) DEF BuildEnhanced
  <2>3. <<h>> \o <<>> = <<h>>
    BY FieldsJoined
  <2>4. PICK a \in Seq(Int) : a = <<h>>
    <3>1. <<h>> \in Seq(Int)
      OBVIOUS
    <3> QED BY <3>1
  <2>5. PICK b \in Seq(Int) : b = <<cc>>
    <3>1. <<cc>> \in Seq(Int)
      OBVIOUS
    <3> QED BY <3>1
  <2>6. (a \o b) \o inner = a \o (b \o inner)
    BY ThreeJoined DEF Payload
  <2> QED BY <1>14, <2>1, <2>2, <2>3, <2>4, <2>5, <2>6, Zenon
<1>16. PICK q \in Payload : q = <<cc>> \o inner /\ q # <<>> /\ q[1] = cc /\ Tail(q) = inner
  <2>1. PICK q : q = <<cc>> \o inner
    OBVIOUS
  <2>2. q \in Payload /\ q # <<>> /\ q[1] = cc /\ Tail(q) = inner
    BY <2>1, Behind
  <2> QED BY <2>1, <2>2
<1>17. p # <<>> /\ p[1] = h /\ Tail(p) = q
  BY <1>14, <1>16, Behind
<1>18. Parse(kind, p) = ParseEnhanced(p, kind, f) /\ h % 16 = pt
  <2>1. pt \in 0 .. 15 /\ f % 8 = f
    OBVIOUS
  <2>2. CASE kind = "video"
    <3>1. h = 128 + f * 16 + pt
      BY <1>4, <2>1, <2>2
    <3>2. h >= 128 /\ h % 16 = pt /\ (h \div 16) % 8 = f
      BY <2>1, <3>1, VideoHeads
    <3> QED BY <1>17, <2>2, <3>2 DEF Parse
  <2>3. CASE kind = "audio"
    <3>1. h = 9 * 16 + pt /\ f = 0
      BY <1>4, <2>3 DEF ExHeader
    <3>2. h \div 16 = 9 /\ h % 16 = pt
      BY <2>1, <3>1
    <3> QED BY <1>17, <2>3, <3>1, <3>2 DEF Parse, ExHeader
  <2> QED BY <2>2, <2>3
<1>19. PICK mx : mx = Chained(TRUE, <<>>, pt, q)
  OBVIOUS
<1>20. mx.ok /\ mx.chain = <<>> /\ mx.pt = pt /\ mx.rest = q
  BY <1>19 DEF Chained
<1>21. PICK hd : hd = [ok |-> TRUE, modEx |-> <<>>, type |-> None, pt |-> pt, fourcc |-> cc,
                       rest |-> inner]
  OBVIOUS
<1>22. HeaderAfter(mx, kind) = hd
  BY <1>12, <1>16, <1>20, <1>21 DEF HeaderAfter
<1>23. EnhancedHeader(Tail(p), kind, p[1] % 16) = hd
  BY <1>17, <1>18, <1>19, <1>22 DEF EnhancedHeader
<1>24. /\ hd.ok /\ hd.type = None /\ hd.pt = pt /\ hd.fourcc = cc /\ hd.modEx = <<>>
       /\ hd.rest = inner
  BY <1>21
<1>25. tag = [Tag(kind) EXCEPT !.frame = f, !.pt = hd.pt, !.fourcc = hd.fourcc,
                               !.modEx = hd.modEx]
  BY <1>2, <1>3, <1>24, Zenon
<1>26. EnhancedTag(hd, kind, f) = t
  <2>1. CASE CarriesCts(kind, f, pt, cc)
    <3>1. inner # <<>> /\ inner[1] = s /\ Tail(inner) = body
      BY <1>6, <2>1, Behind
    <3>2. SignExtend(s) = cts
      BY <1>5, CtsReadBack
    <3>3. EnhancedTag(hd, kind, f) = [tag EXCEPT !.cts = SignExtend(inner[1]), !.body = Tail(inner)]
      BY <1>24, <1>25, <2>1, <3>1 DEF EnhancedTag
    <3> QED BY <1>10, <3>1, <3>2, <3>3
  <2>2. CASE ~CarriesCts(kind, f, pt, cc)
    <3>1. inner = body
      BY <1>6, <2>2, ConcatEmptySeq DEF Payload
    <3>2. EnhancedTag(hd, kind, f) = [tag EXCEPT !.body = inner]
      BY <1>24, <1>25, <2>2 DEF EnhancedTag
    <3> QED BY <1>11, <2>2, <3>1, <3>2
  <2> QED BY <2>1, <2>2
<1> QED BY <1>1, <1>15, <1>17, <1>18, <1>23, <1>26 DEF ParseEnhanced

\* The tags the library builds without a ModEx entry and without tracks: the packet type of AVC
\* and AAC and the composition time exactly where the layout has them.
PlainVideo(t) ==
    \E codec \in 0 .. 15, f \in 0 .. 7, sub \in Nat \cup {None}, cts \in Cts, body \in Payload :
        /\ IF codec = AVC /\ f # Command THEN sub # None ELSE sub = None /\ cts = 0
        /\ t = LegacyTag("video", codec, f, 0, sub, cts, body)

PlainAudio(t) ==
    \E codec \in (0 .. 15) \ {ExHeader}, sound \in 0 .. 15, sub \in Nat \cup {None},
       body \in Payload :
        /\ codec = AAC <=> sub # None
        /\ t = LegacyTag("audio", codec, 0, sound, sub, 0, body)

PlainEnhanced(t) ==
    \E kind \in {"video", "audio"}, f \in 0 .. 7, pt \in 0 .. 15, cc \in Nat, cts \in Cts,
       body \in Payload :
        /\ kind = "audio" => f = 0
        /\ pt \notin {ModEx, MultitrackOf(kind)}
        /\ CarriesCts(kind, f, pt, cc) \/ cts = 0
        /\ t = EnhancedPlain(kind, f, pt, cc, cts, body)

Plain(t) == PlainVideo(t) \/ PlainAudio(t) \/ PlainEnhanced(t)

\* build_video and build_audio write nothing that parse_video and parse_audio read otherwise:
\* whatever the codec, the packet type, the composition time of 24 bits and the body, the tag
\* that read_tag finds behind a tag header of its kind is the one that was written.
THEOREM TagsReadBack ==
    ASSUME NEW t, Plain(t), NEW ts
    PROVE  TagOf(TypeOf(t.kind), ts, Build(t)) = Media(t.kind, ts, t)
<1>1. t.kind \in {"video", "audio"} /\ Parse(t.kind, Build(t)) = t
  <2>1. ASSUME NEW f \in 0 .. 7, NEW codec \in 0 .. 15, NEW sub \in Nat \cup {None},
               NEW cts \in Cts, NEW body \in Payload,
               IF codec = AVC /\ f # Command THEN sub # None ELSE sub = None /\ cts = 0,
               t = LegacyTag("video", codec, f, 0, sub, cts, body)
        PROVE  t.kind = "video" /\ Parse(t.kind, Build(t)) = t
    <3>1. t.kind = "video"
      BY <2>1 DEF LegacyTag, Tag
    <3>2. Parse("video", Build(t)) = t
      BY <2>1, LegacyVideoBack
    <3> QED BY <3>1, <3>2
  <2>2. ASSUME NEW codec \in (0 .. 15) \ {ExHeader}, NEW sound \in 0 .. 15,
               NEW sub \in Nat \cup {None}, NEW body \in Payload, codec = AAC <=> sub # None,
               t = LegacyTag("audio", codec, 0, sound, sub, 0, body)
        PROVE  t.kind = "audio" /\ Parse(t.kind, Build(t)) = t
    <3>1. t.kind = "audio"
      BY <2>2 DEF LegacyTag, Tag
    <3>2. Parse("audio", Build(t)) = t
      BY <2>2, LegacyAudioBack
    <3> QED BY <3>1, <3>2
  <2>3. ASSUME NEW kind \in {"video", "audio"}, NEW f \in 0 .. 7, kind = "audio" => f = 0,
               NEW pt \in 0 .. 15, pt \notin {ModEx, MultitrackOf(kind)}, NEW cc \in Nat,
               NEW cts \in Cts, CarriesCts(kind, f, pt, cc) \/ cts = 0, NEW body \in Payload,
               t = EnhancedPlain(kind, f, pt, cc, cts, body)
        PROVE  t.kind = kind /\ Parse(t.kind, Build(t)) = t
    <3>1. t.kind = kind
      BY <2>3 DEF EnhancedPlain, Tag
    <3>2. pt \in (0 .. 15) \ {ModEx, MultitrackOf(kind)}
      BY <2>3
    <3>3. Parse(kind, Build(t)) = t
      BY <2>3, <3>2, EnhancedBack
    <3> QED BY <3>1, <3>3
  <2>4. CASE PlainVideo(t)
    BY <2>1, <2>4 DEF PlainVideo
  <2>5. CASE PlainAudio(t)
    BY <2>2, <2>5 DEF PlainAudio
  <2>6. CASE PlainEnhanced(t)
    BY <2>3, <2>6, SMTT(30) DEF PlainEnhanced
  <2> QED BY <2>4, <2>5, <2>6 DEF Plain
<1>2. t # Err
  BY <1>1 DEF Err
<1>3. CASE t.kind = "video"
  <2>1. TypeOf(t.kind) = Video
    BY <1>3 DEF TypeOf
  <2>2. TagOf(Video, ts, Build(t)) = MediaOf("video", ts, Parse("video", Build(t)))
    BY DEF TagOf, Video, Audio, Script
  <2> QED BY <1>1, <1>2, <1>3, <2>1, <2>2, Zenon DEF MediaOf
<1>4. CASE t.kind = "audio"
  <2>1. TypeOf(t.kind) = Audio
    BY <1>4 DEF TypeOf
  <2>2. TagOf(Audio, ts, Build(t)) = MediaOf("audio", ts, Parse("audio", Build(t)))
    BY DEF TagOf, Video, Audio, Script
  <2> QED BY <1>1, <1>2, <1>4, <2>1, <2>2, Zenon DEF MediaOf
<1> QED BY <1>1, <1>3, <1>4

\* What EntriesRead asks of an entry thus holds of every such tag that is recorded: whatever the
\* time, the reader finds what the entry is to be read back as.
THEOREM MediaReadBack ==
    ASSUME NEW t, Plain(t), NEW ts, NEW heard, NEW means, NEW view
    PROVE  SaysItself(Entry(TypeOf(t.kind), Build(t), TRUE, Media(t.kind, 0, t),
                            heard, means, view), ts)
<1>1. PICK e : e = Entry(TypeOf(t.kind), Build(t), TRUE, Media(t.kind, 0, t), heard, means, view)
  OBVIOUS
<1>2. e.type = TypeOf(t.kind) /\ e.payload = Build(t) /\ e.said = Media(t.kind, 0, t)
  BY <1>1 DEF Entry
<1>3. TagOf(e.type, ts, e.payload) = Media(t.kind, ts, t)
  BY <1>2, TagsReadBack
<1>4. TimedAt(e.said, ts) = Media(t.kind, ts, t)
  BY <1>2 DEF TimedAt, Media
<1> QED BY <1>1, <1>3, <1>4 DEF SaysItself
=============================================================================
