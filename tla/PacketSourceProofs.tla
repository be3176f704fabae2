------------------------- MODULE PacketSourceProofs -------------------------
(***************************************************************************)
(* Proofs about PacketSource: its types, that each packet is what its      *)
(* publisher meant (PacketsAsSent), and that each track keeps its stream   *)
(* (StreamsSettled).                                                       *)
(***************************************************************************)
EXTENDS PacketSource, Flattening

-----------------------------------------------------------------------------
(* The table of tracks.  A track is <<kind, id>>; track 0 of a kind is always there. *)

Table == {t \in Seq(Kinds \X (1 .. 255)) : \A i, j \in DOMAIN t : t[i] = t[j] => i = j}

Registered(table, k) == k[2] = 0 \/ \E i \in DOMAIN table : table[i] = k

Extends(a, b) == Len(a) <= Len(b) /\ \A i \in DOMAIN a : b[i] = a[i]

Index(table, k) == StreamIndex(table, k[1], k[2])

LEMMA TableParts ==
    ASSUME NEW t \in Table
    PROVE  /\ t \in Seq(Kinds \X (1 .. 255)) /\ Len(t) \in Nat /\ DOMAIN t = 1 .. Len(t)
           /\ \A i, j \in DOMAIN t : t[i] = t[j] => i = j
BY DEF Table

LEMMA ExtendsItself ==
    ASSUME NEW a \in Table, NEW b \in Table, NEW c \in Table, Extends(a, b), Extends(b, c)
    PROVE  Extends(a, a) /\ Extends(a, c)
<1>1. /\ DOMAIN a = 1 .. Len(a) /\ DOMAIN b = 1 .. Len(b)
      /\ Len(a) \in Nat /\ Len(b) \in Nat /\ Len(c) \in Nat
  BY TableParts
<1> QED BY <1>1 DEF Extends

\* WithTrack registers its track and leaves the others where they are.
LEMMA WithTrackGood ==
    ASSUME NEW t \in Table, NEW kind \in Kinds, NEW id \in 0 .. 255
    PROVE  /\ WithTrack(t, kind, id) \in Table
           /\ Extends(t, WithTrack(t, kind, id))
           /\ Registered(WithTrack(t, kind, id), <<kind, id>>)
<1>1. t \in Seq(Kinds \X (1 .. 255)) /\ Len(t) \in Nat /\ DOMAIN t = 1 .. Len(t)
  BY TableParts
<1>2. CASE id = 0 \/ \E i \in DOMAIN t : t[i] = <<kind, id>>
  <2>1. WithTrack(t, kind, id) = t
    BY <1>2 DEF WithTrack
  <2> QED BY <1>1, <1>2, <2>1 DEF Extends, Registered
<1>3. CASE ~(id = 0 \/ \E i \in DOMAIN t : t[i] = <<kind, id>>)
  <2>1. PICK k : k = <<kind, id>>
    OBVIOUS
  <2>2. WithTrack(t, kind, id) = Append(t, k) /\ k \in Kinds \X (1 .. 255)
    <3>1. WithTrack(t, kind, id) = Append(t, <<kind, id>>)
      BY <1>3, Zenon DEF WithTrack
    <3>2. id \in 1 .. 255
      BY <1>3
    <3> QED BY <2>1, <3>1, <3>2
  <2>3. PICK w : w = Append(t, k)
    OBVIOUS
  <2>4. /\ w \in Seq(Kinds \X (1 .. 255)) /\ Len(w) = Len(t) + 1 /\ w[Len(t) + 1] = k
        /\ \A i \in 1 .. Len(t) : w[i] = t[i]
    BY <1>1, <2>2, <2>3, AppendProperties
  <2>5. \A i \in 1 .. Len(t) : w[i] # k
    BY <1>1, <1>3, <2>1, <2>4
  <2>6. DOMAIN w = 1 .. Len(t) + 1
    BY <1>1, <2>4
  <2>7. ASSUME NEW i \in DOMAIN w, NEW j \in DOMAIN w, w[i] = w[j] PROVE i = j
    <3>1. \A m \in DOMAIN w : m \in 1 .. Len(t) \/ m = Len(t) + 1
      BY <1>1, <2>6
    <3>2. CASE i \in 1 .. Len(t) /\ j \in 1 .. Len(t)
      BY <1>1, <2>4, <2>7, <3>2, TableParts
    <3> QED BY <2>4, <2>5, <2>7, <3>1, <3>2
  <2>8. Len(t) + 1 \in DOMAIN w
    BY <1>1, <2>6
  <2>9. w \in Table
    BY <2>4, <2>7 DEF Table
  <2>10. Extends(t, w) /\ Registered(w, k)
    BY <1>1, <2>4, <2>8 DEF Extends, Registered
  <2> QED BY <2>1, <2>2, <2>3, <2>9, <2>10
<1> QED BY <1>2, <1>3

\* A registered track has an index of its own, which it keeps.
LEMMA IndexOf ==
    ASSUME NEW t \in Table, NEW k \in Tracks, Registered(t, k)
    PROVE  /\ k[2] = 0 => Index(t, k) = IF k[1] = "audio" THEN 0 ELSE 1
           /\ k[2] # 0 => /\ Index(t, k) - 1 \in DOMAIN t /\ t[Index(t, k) - 1] = k
                          /\ Index(t, k) >= 2
           /\ Index(t, k) \in 0 .. 1 + Len(t)
<1>1. Len(t) \in Nat /\ DOMAIN t = 1 .. Len(t)
  BY TableParts
<1>2. k[1] \in Kinds /\ k[2] \in 0 .. 255 /\ k = <<k[1], k[2]>>
  BY DEF Tracks
<1>3. CASE k[2] = 0
  BY <1>1, <1>3 DEF Index, StreamIndex
<1>4. CASE k[2] # 0
  <2> DEFINE c == CHOOSE i \in DOMAIN t : t[i] = k
  <2>1. \E i \in DOMAIN t : t[i] = k
    BY <1>4 DEF Registered
  <2>2. c \in DOMAIN t /\ t[c] = k
    BY <2>1
  <2>3. Index(t, k) = 1 + c
    BY <1>2, <1>4, <2>1 DEF Index, StreamIndex
  <2> HIDE DEF c
  <2> QED BY <1>1, <1>4, <2>2, <2>3
<1> QED BY <1>3, <1>4

LEMMA IndexStable ==
    ASSUME NEW t \in Table, NEW w \in Table, Extends(t, w), NEW k \in Tracks, Registered(t, k)
    PROVE  Registered(w, k) /\ Index(w, k) = Index(t, k)
<1>1. /\ Len(t) \in Nat /\ DOMAIN t = 1 .. Len(t) /\ Len(w) \in Nat /\ DOMAIN w = 1 .. Len(w)
      /\ \A i, j \in DOMAIN w : w[i] = w[j] => i = j
  BY TableParts
<1>2. CASE k[2] = 0
  BY <1>2 DEF Index, StreamIndex, Registered
<1>3. CASE k[2] # 0
  <2>1. PICK i \in DOMAIN t : t[i] = k
    BY <1>3 DEF Registered
  <2>2. i \in DOMAIN w /\ w[i] = k
    BY <1>1, <2>1 DEF Extends
  <2>3. Registered(w, k)
    BY <2>2 DEF Registered
  <2>4. /\ Index(w, k) - 1 \in DOMAIN w /\ w[Index(w, k) - 1] = k
        /\ Index(t, k) - 1 \in DOMAIN t /\ t[Index(t, k) - 1] = k
        /\ Index(w, k) \in Int /\ Index(t, k) \in Int
    BY <1>1, <1>3, <2>3, IndexOf
  <2>5. Index(t, k) - 1 \in DOMAIN w /\ w[Index(t, k) - 1] = k
    BY <1>1, <2>4 DEF Extends
  <2>6. Index(w, k) - 1 = Index(t, k) - 1
    BY <1>1, <2>4, <2>5
  <2> QED BY <2>3, <2>4, <2>6
<1> QED BY <1>2, <1>3

LEMMA IndexInjective ==
    ASSUME NEW t \in Table, NEW k \in Tracks, NEW l \in Tracks,
           Registered(t, k), Registered(t, l), Index(t, k) = Index(t, l)
    PROVE  k = l
<1>1. k = <<k[1], k[2]>> /\ l = <<l[1], l[2]>> /\ k[1] \in Kinds /\ l[1] \in Kinds
  BY DEF Tracks
<1>2. CASE k[2] = 0 /\ l[2] = 0
  BY <1>1, <1>2, IndexOf DEF Kinds
<1>3. CASE k[2] # 0 /\ l[2] # 0
  BY <1>3, IndexOf
<1>4. CASE (k[2] = 0 /\ l[2] # 0) \/ (k[2] # 0 /\ l[2] = 0)
  BY <1>4, IndexOf
<1> QED BY <1>2, <1>3, <1>4

-----------------------------------------------------------------------------
(* The tracks of one message, and the streams they get. *)

\* n tracks of a message.
TracksFit(tracks, n) ==
    /\ n \in Nat /\ Len(tracks) = n /\ DOMAIN tracks = 1 .. n
    /\ \A i \in 1 .. n : tracks[i].id \in 0 .. 255 /\ tracks[i].tag.kind \in Kinds

TrackOf(tracks, i) == <<tracks[i].tag.kind, tracks[i].id>>

LEMMA WithTracksSteps ==
    ASSUME NEW table \in Table, NEW tracks, NEW n, TracksFit(tracks, n)
    PROVE  \E u : /\ u[0] = table /\ \A i \in 0 .. n : u[i] \in Table
                  /\ \A i \in 1 .. n :
                        u[i] = WithTrack(u[i - 1], tracks[i].tag.kind, tracks[i].id)
                  /\ WithTracks(table, tracks) = u[n]
<1> DEFINE F(u) == [i \in 0 .. n |->
                       IF i = 0 THEN table
                       ELSE WithTrack(u[i - 1], tracks[i].tag.kind, tracks[i].id)]
           u == CHOOSE v : v = F(v)
<1>1. WithTracks(table, tracks) = u[n]
  BY DEF WithTracks, TracksFit
<1>2. n \in Nat /\ \A i \in 1 .. n : tracks[i].id \in 0 .. 255 /\ tracks[i].tag.kind \in Kinds
  BY DEF TracksFit
<1>3. \E v : v = F(v)
  <2> DEFINE G(x, i) == WithTrack(x, tracks[i].tag.kind, tracks[i].id)
             step == [x \in Table \X (1 .. n) |-> G(x[1], x[2])]
  <2>1. ASSUME NEW x \in Table, NEW i \in 1 .. n PROVE G(x, i) \in Table
    BY <1>2, WithTrackGood
  <2> HIDE DEF G
  <2>2. step \in [Table \X (1 .. n) -> Table]
    BY <2>1
  <2>3. \A x \in Table, i \in 1 .. n : step[<<x, i>>] = G(x, i)
    OBVIOUS
  <2> HIDE DEF step
  <2>4. PICK v \in [0 .. n -> Table] :
           v[0] = table /\ \A i \in 1 .. n : v[i] = step[<<v[i - 1], i>>]
    <3>1. \E v \in [0 .. n -> Table] : Iterates(v, table, step, n)
      BY <1>2, <2>2, UpToSteps
    <3> QED BY <3>1 DEF Iterates
  <2>5. ASSUME NEW i \in 0 .. n
        PROVE  v[i] = IF i = 0 THEN table ELSE G(v[i - 1], i)
    <3>1. i # 0 => i \in 1 .. n /\ i - 1 \in 0 .. n
      BY <1>2
    <3> QED BY <2>3, <2>4, <3>1
  <2>6. v = [i \in 0 .. n |-> v[i]]
    BY <2>4
  <2>7. v = F(v)
    BY <2>5, <2>6, Zenon DEF G
  <2> HIDE DEF F
  <2> QED BY <2>7
<1>4. u = F(u)
  <2> HIDE DEF F
  <2> QED BY <1>3
<1>5. \A i \in 0 .. n : u[i] = IF i = 0 THEN table
                               ELSE WithTrack(u[i - 1], tracks[i].tag.kind, tracks[i].id)
  <2> HIDE DEF u
  <2> QED BY <1>4, Zenon
<1> HIDE DEF u, F
<1>6. u[0] = table /\ \A i \in 1 .. n :
         u[i] = WithTrack(u[i - 1], tracks[i].tag.kind, tracks[i].id)
  <2>1. 0 \in 0 .. n /\ \A i \in 1 .. n : i \in 0 .. n /\ i # 0
    BY <1>2
  <2> QED BY <1>5, <2>1, Zenon
<1> DEFINE P == {k \in Nat : k \in 0 .. n => u[k] \in Table}
<1>7. 0 \in P
  BY <1>6
<1>8. ASSUME NEW k \in Nat, k \in P PROVE k + 1 \in P
  <2> SUFFICES ASSUME k + 1 \in 0 .. n PROVE u[k + 1] \in Table
    OBVIOUS
  <2>1. k \in 0 .. n /\ k + 1 \in 1 .. n /\ (k + 1) - 1 = k
    BY <1>2
  <2>2. u[k + 1] = WithTrack(u[k], tracks[k + 1].tag.kind, tracks[k + 1].id)
    BY <1>6, <2>1
  <2> QED BY <1>2, <1>8, <2>1, <2>2, WithTrackGood
<1>9. Nat \subseteq P
  <2> HIDE DEF P
  <2> QED BY <1>7, <1>8, InductionOver
<1>10. \A i \in 0 .. n : u[i] \in Table
  BY <1>2, <1>9
<1> QED BY <1>1, <1>6, <1>10

\* The table grows by the tracks of a message, which it has in the end.
LEMMA WithTracksGood ==
    ASSUME NEW table \in Table, NEW tracks, NEW n, TracksFit(tracks, n)
    PROVE  /\ WithTracks(table, tracks) \in Table
           /\ Extends(table, WithTracks(table, tracks))
           /\ \A i \in 1 .. n : Registered(WithTracks(table, tracks), TrackOf(tracks, i))
<1>1. PICK u : /\ u[0] = table /\ \A i \in 0 .. n : u[i] \in Table
               /\ \A i \in 1 .. n : u[i] = WithTrack(u[i - 1], tracks[i].tag.kind, tracks[i].id)
               /\ WithTracks(table, tracks) = u[n]
  BY WithTracksSteps
<1>2. /\ n \in Nat
      /\ \A i \in 1 .. n : /\ tracks[i].id \in 0 .. 255 /\ tracks[i].tag.kind \in Kinds
                           /\ TrackOf(tracks, i) \in Tracks
  BY DEF TracksFit, TrackOf, Tracks
<1> DEFINE P == {k \in Nat : k \in 0 .. n =>
                    /\ Extends(table, u[k])
                    /\ \A i \in 1 .. k : Registered(u[k], TrackOf(tracks, i))}
<1>3. 0 \in P
  <2>1. Extends(table, table)
    <3>1. Len(table) \in Nat
      BY TableParts
    <3> QED BY <3>1 DEF Extends
  <2> QED BY <1>1, <2>1
<1>4. ASSUME NEW k \in Nat, k \in P PROVE k + 1 \in P
  <2> SUFFICES ASSUME k + 1 \in 0 .. n
               PROVE  /\ Extends(table, u[k + 1])
                      /\ \A i \in 1 .. k + 1 : Registered(u[k + 1], TrackOf(tracks, i))
    OBVIOUS
  <2>1. k \in 0 .. n /\ k + 1 \in 1 .. n /\ (k + 1) - 1 = k
    BY <1>2
  <2>2. u[k] \in Table /\ u[k + 1] \in Table
    BY <1>1, <2>1
  <2>3. Extends(table, u[k]) /\ \A i \in 1 .. k : Registered(u[k], TrackOf(tracks, i))
    BY <1>4, <2>1
  <2>4. u[k + 1] = WithTrack(u[k], tracks[k + 1].tag.kind, tracks[k + 1].id)
    BY <1>1, <2>1
  <2>5. Extends(u[k], u[k + 1]) /\ Registered(u[k + 1], TrackOf(tracks, k + 1))
    BY <1>2, <2>1, <2>2, <2>4, WithTrackGood, ZenonT(40) DEF TrackOf
  <2>6. Extends(table, u[k + 1])
    BY <2>2, <2>3, <2>5, ExtendsItself
  <2>7. ASSUME NEW i \in 1 .. k + 1 PROVE Registered(u[k + 1], TrackOf(tracks, i))
    <3>1. CASE i = k + 1
      BY <2>5, <3>1
    <3>2. CASE i # k + 1
      <4>1. i \in 1 .. k /\ i \in 1 .. n
        BY <1>2, <2>1, <3>2
      <4> QED BY <1>2, <2>2, <2>3, <2>5, <4>1, IndexStable
    <3> QED BY <3>1, <3>2
  <2> QED BY <2>6, <2>7
<1>5. Nat \subseteq P
  <2> HIDE DEF P
  <2> QED BY <1>3, <1>4, InductionOver
<1>6. n \in P /\ n \in 0 .. n
  BY <1>2, <1>5
<1> QED BY <1>1, <1>2, <1>6

LEMMA WithStreamsSteps ==
    ASSUME NEW streams, NEW table, NEW tracks, NEW n, TracksFit(tracks, n)
    PROVE  \E u : /\ u[0] = streams
                  /\ \A i \in 1 .. n :
                        u[i] = WithStream(u[i - 1], Index(table, TrackOf(tracks, i)), tracks[i].tag)
                  /\ WithStreams(streams, table, tracks) = u[n]
<1> DEFINE index(i) == StreamIndex(table, tracks[i].tag.kind, tracks[i].id)
           new(i) == [index |-> index(i), params |-> ParamsOf(tracks[i].tag)]
           G(x, i) == WithStream(x, index(i), tracks[i].tag)
           F(u) == [i \in 0 .. n |-> IF i = 0 THEN streams ELSE G(u[i - 1], i)]
           u == CHOOSE v : v = F(v)
           V == SUBSET (streams \cup {new(i) : i \in 1 .. n})
<1>1. WithStreams(streams, table, tracks) = u[n]
  BY DEF WithStreams, TracksFit
<1>2. n \in Nat
  BY DEF TracksFit
<1>3. \E v : v = F(v)
  <2> DEFINE step == [x \in V \X (1 .. n) |-> G(x[1], x[2])]
  <2>1. ASSUME NEW x \in V, NEW i \in 1 .. n PROVE G(x, i) \in V
    <3>1. G(x, i) = x \/ G(x, i) = x \cup {new(i)}
      BY DEF WithStream
    <3> HIDE DEF G, new
    <3> QED BY <3>1
  <2>2. streams \in V
    OBVIOUS
  <2> HIDE DEF G, V
  <2>3. step \in [V \X (1 .. n) -> V]
    BY <2>1
  <2>4. \A x \in V, i \in 1 .. n : step[<<x, i>>] = G(x, i)
    OBVIOUS
  <2> HIDE DEF step
  <2>5. PICK v \in [0 .. n -> V] :
           v[0] = streams /\ \A i \in 1 .. n : v[i] = step[<<v[i - 1], i>>]
    <3>1. \E v \in [0 .. n -> V] : Iterates(v, streams, step, n)
      BY <1>2, <2>2, <2>3, UpToSteps
    <3> QED BY <3>1 DEF Iterates
  <2>6. ASSUME NEW i \in 0 .. n
        PROVE  v[i] = IF i = 0 THEN streams ELSE G(v[i - 1], i)
    <3>1. i # 0 => i \in 1 .. n /\ i - 1 \in 0 .. n
      BY <1>2
    <3> QED BY <2>4, <2>5, <3>1
  <2>7. v = [i \in 0 .. n |-> v[i]]
    BY <2>5
  <2>8. v = F(v)
    BY <2>6, <2>7, Zenon
  <2> HIDE DEF F
  <2> QED BY <2>8
<1>4. u = F(u)
  <2> HIDE DEF F
  <2> QED BY <1>3
<1>5. \A i \in 0 .. n : u[i] = IF i = 0 THEN streams ELSE G(u[i - 1], i)
  <2> HIDE DEF u, G
  <2> QED BY <1>4, Zenon
<1> HIDE DEF u, F
<1>6. u[0] = streams /\ \A i \in 1 .. n : u[i] = G(u[i - 1], i)
  <2>1. 0 \in 0 .. n /\ \A i \in 1 .. n : i \in 0 .. n /\ i # 0
    BY <1>2
  <2> HIDE DEF G
  <2> QED BY <1>5, <2>1, Zenon
<1>7. \A i \in 1 .. n : index(i) = Index(table, TrackOf(tracks, i))
  BY DEF Index, TrackOf
<1> QED BY <1>1, <1>6, <1>7

\* A message adds the streams of its tracks to those there are, and no others.
LEMMA WithStreamsGood ==
    ASSUME NEW streams, NEW table, NEW tracks, NEW n, TracksFit(tracks, n)
    PROVE  LET all == WithStreams(streams, table, tracks) IN
           /\ streams \subseteq all
           /\ \A i \in 1 .. n : \E s \in all : s.index = Index(table, TrackOf(tracks, i))
           /\ \A s \in all : s \in streams
                             \/ \E i \in 1 .. n : s.index = Index(table, TrackOf(tracks, i))
<1> DEFINE index(i) == Index(table, TrackOf(tracks, i))
<1>1. PICK u : /\ u[0] = streams
               /\ \A i \in 1 .. n : u[i] = WithStream(u[i - 1], index(i), tracks[i].tag)
               /\ WithStreams(streams, table, tracks) = u[n]
  BY WithStreamsSteps
<1>2. n \in Nat
  BY DEF TracksFit
<1> HIDE DEF index
<1>3. \A k \in 1 .. n : /\ u[k - 1] \subseteq u[k] /\ \E s \in u[k] : s.index = index(k)
                        /\ \A s \in u[k] : s \in u[k - 1] \/ s.index = index(k)
  <2> TAKE k \in 1 .. n
  <2> DEFINE new == [index |-> index(k), params |-> ParamsOf(tracks[k].tag)]
  <2>1. u[k] = IF \E s \in u[k - 1] : s.index = index(k) THEN u[k - 1] ELSE u[k - 1] \cup {new}
    BY <1>1 DEF WithStream
  <2>2. new.index = index(k)
    OBVIOUS
  <2> HIDE DEF new
  <2> QED BY <2>1, <2>2
<1> DEFINE P == {k \in Nat : k \in 0 .. n =>
                    /\ streams \subseteq u[k]
                    /\ \A i \in 1 .. k : \E s \in u[k] : s.index = index(i)
                    /\ \A s \in u[k] : s \in streams \/ \E i \in 1 .. k : s.index = index(i)}
<1>4. 0 \in P
  BY <1>1
<1>5. ASSUME NEW k \in Nat, k \in P PROVE k + 1 \in P
  <2> SUFFICES ASSUME k + 1 \in 0 .. n
               PROVE  /\ streams \subseteq u[k + 1]
                      /\ \A i \in 1 .. k + 1 : \E s \in u[k + 1] : s.index = index(i)
                      /\ \A s \in u[k + 1] : s \in streams \/ \E i \in 1 .. k + 1 : s.index = index(i)
    OBVIOUS
  <2>1. k \in 0 .. n /\ k + 1 \in 1 .. n /\ (k + 1) - 1 = k
    BY <1>2
  <2>2. /\ streams \subseteq u[k] /\ \A i \in 1 .. k : \E s \in u[k] : s.index = index(i)
        /\ \A s \in u[k] : s \in streams \/ \E i \in 1 .. k : s.index = index(i)
    BY <1>5, <2>1
  <2>3. /\ u[k] \subseteq u[k + 1] /\ \E s \in u[k + 1] : s.index = index(k + 1)
        /\ \A s \in u[k + 1] : s \in u[k] \/ s.index = index(k + 1)
    BY <1>3, <2>1
  <2>4. \A i \in 1 .. k + 1 : i \in 1 .. k \/ i = k + 1
    BY <2>1
  <2>5. (\A i \in 1 .. k : i \in 1 .. k + 1) /\ k + 1 \in 1 .. k + 1
    BY <2>1
  <2> QED BY <2>2, <2>3, <2>4, <2>5
<1>6. Nat \subseteq P
  <2> HIDE DEF P
  <2> QED BY <1>4, <1>5, InductionOver
<1>7. n \in P /\ n \in 0 .. n
  BY <1>2, <1>6
<1> QED BY <1>1, <1>7 DEF index

-----------------------------------------------------------------------------
(* Messages on their way, and what the source makes of one. *)

Menu == UNION {Traffic[s.menu] : s \in Scenes}

Post(m, r) == [m EXCEPT !.time = r % TimeMod, !.real = r, !.meant = <<>>]

Posts == {End} \cup {Post(m, r) : m \in Menu, r \in Int}

\* The message moves the source's clock.
Moves(x) == x.kind \in Kinds /\ x.tag # Err

LEMMA InTraffic ==
    ASSUME NEW s \in Scenes, NEW m \in Traffic[s.menu]
    PROVE  m \in Menu
BY DEF Menu

LEMMA PostFields ==
    ASSUME NEW m \in Menu, NEW r \in Int
    PROVE  /\ Post(m, r).kind = m.kind /\ Post(m, r).tag = m.tag /\ Post(m, r).tracks = m.tracks
           /\ Post(m, r).pairs = m.pairs
           /\ Post(m, r).time = r % TimeMod /\ Post(m, r).real = r
<1>1. PICK s \in Scenes : m \in Traffic[s.menu]
  BY DEF Menu
<1>2. s.menu \in DOMAIN Menus
  BY SourceConstants
<1>3. PICK item \in Menus[s.menu] : m = Received(item)
  BY <1>1, <1>2 DEF Traffic
<1>4. PICK tag : m = ReceivedAs(item, tag)
  BY <1>3 DEF Received
<1>5. m = [kind |-> m.kind, time |-> m.time, real |-> m.real, pairs |-> m.pairs, tag |-> m.tag,
           tracks |-> m.tracks, meant |-> m.meant]
  BY <1>4 DEF ReceivedAs
<1> QED BY <1>5 DEF Post

LEMMA EndFields ==
    /\ End.kind = "end" /\ End.real = 0 /\ End.time = 0 % TimeMod
    /\ ~Moves(End) /\ ~Delivers(End)
<1>1. 0 % TimeMod = 0
  BY SourceConstants
<1> QED BY <1>1 DEF End, Moves, Delivers, Kinds

\* What is known of a message on its way.
Whole(x) ==
    /\ TracksFit(x.tracks, Len(x.tracks)) /\ NanoOf(x) \in Int
    /\ \A i \in 1 .. Len(x.tracks) :
          LET t == x.tracks[i].tag IN
          /\ t.kind = x.kind /\ t.cts \in Int /\ NanoOffset(t) \in Int
          /\ PacketOf(0, t, 0, NanoOf(x)) \in Packets

LEMMA PostParts ==
    ASSUME WellRead, NEW x \in Posts
    PROVE  /\ x.kind \in Kinds \cup {"metadata", "other", "end"}
           /\ x.real \in Int /\ x.time = x.real % TimeMod
           /\ Delivers(x) => Whole(x)
<1>1. CASE x = End
  BY <1>1, EndFields
<1>2. CASE x # End
  <2>1. PICK m \in Menu, r \in Int : x = Post(m, r)
    BY <1>2 DEF Posts
  <2>2. PICK s \in Scenes : m \in Traffic[s.menu]
    BY DEF Menu
  <2>3. x.kind = m.kind /\ x.tag = m.tag /\ x.tracks = m.tracks /\ x.time = r % TimeMod /\ x.real = r
    BY <2>1, PostFields
  <2>4. m.kind \in Kinds \cup {"metadata", "other"}
    BY <2>2 DEF WellRead
  <2>5. ASSUME Delivers(x) PROVE Whole(x)
    <3>1. Delivers(m)
      BY <2>3, <2>5 DEF Delivers
    <3>2. /\ Len(m.tracks) \in Nat /\ DOMAIN m.tracks = 1 .. Len(m.tracks)
          /\ NanoOf(m) \in Int
          /\ \A i \in DOMAIN m.tracks :
                LET t == m.tracks[i].tag IN
                /\ m.tracks[i].id \in 0 .. 255 /\ t.kind = m.kind
                /\ t.cts \in Int /\ NanoOffset(t) \in Int
                /\ PacketOf(0, t, 0, NanoOf(m)) \in Packets
      BY <2>2, <3>1 DEF WellRead
    <3>3. NanoOf(x) = NanoOf(m) /\ m.kind \in Kinds
      BY <2>3, <3>1 DEF NanoOf, Delivers
    <3> QED BY <2>3, <3>2, <3>3 DEF Whole, TracksFit
  <2> QED BY <2>3, <2>4, <2>5
<1> QED BY <1>1, <1>2

SrcShape(s) ==
    /\ s = [streams |-> s.streams, tracks |-> s.tracks, metadata |-> s.metadata, ts |-> s.ts,
            ended |-> s.ended]
    /\ s.ended \in BOOLEAN

LEMMA IngestedParts ==
    ASSUME NEW s, SrcShape(s), NEW x, x.kind \in Kinds \cup {"metadata", "other", "end"}
    PROVE  LET e == Ingested(s, x) IN
           /\ SrcShape(e.src)
           /\ e.src.ts = IF Moves(x) THEN Unwrapped(s.ts, x.time) ELSE s.ts
           /\ e.src.tracks = IF Delivers(x) THEN WithTracks(s.tracks, x.tracks) ELSE s.tracks
           /\ e.src.streams = IF Delivers(x) THEN WithStreams(s.streams, e.src.tracks, x.tracks)
                              ELSE s.streams
           /\ e.src.ended <=> s.ended \/ x.kind = "end"
           /\ e.packets = IF Delivers(x)
                          THEN PacketsOf(e.src.tracks, x.tracks, e.src.ts[2], NanoOf(x)) ELSE <<>>
           /\ e.ok <=> (x.kind \in Kinds => Delivers(x))
<1> DEFINE timed == [s EXCEPT !.ts = Unwrapped(@, x.time)]
           table == WithTracks(s.tracks, x.tracks)
           e == Ingested(s, x)
<1>1. CASE x.kind = "metadata"
  <2>1. e = [src |-> [s EXCEPT !.metadata = Flattened(@, x.pairs)], packets |-> <<>>, ok |-> TRUE]
    <3>1. x.kind # "other" /\ x.kind # "end" /\ x.kind \notin Kinds
      BY <1>1 DEF Kinds
    <3> QED BY <1>1, <3>1 DEF Ingested
  <2>2. ~Moves(x) /\ ~Delivers(x) /\ x.kind \notin Kinds
    BY <1>1 DEF Moves, Delivers, Kinds
  <2> QED BY <1>1, <2>1, <2>2 DEF SrcShape
<1>2. CASE x.kind = "other"
  <2>1. e = [src |-> s, packets |-> <<>>, ok |-> TRUE]
    <3>1. x.kind # "metadata" /\ x.kind # "end" /\ x.kind \notin Kinds
      BY <1>2 DEF Kinds
    <3> QED BY <1>2, <3>1 DEF Ingested
  <2>2. ~Moves(x) /\ ~Delivers(x) /\ x.kind \notin Kinds
    BY <1>2 DEF Moves, Delivers, Kinds
  <2> QED BY <1>2, <2>1, <2>2 DEF SrcShape
<1>3. CASE x.kind = "end"
  <2>1. e = [src |-> [s EXCEPT !.ended = TRUE], packets |-> <<>>, ok |-> TRUE]
    <3>1. x.kind # "metadata" /\ x.kind # "other" /\ x.kind \notin Kinds
      BY <1>3 DEF Kinds
    <3> QED BY <1>3, <3>1 DEF Ingested
  <2>2. ~Moves(x) /\ ~Delivers(x) /\ x.kind \notin Kinds
    BY <1>3 DEF Moves, Delivers, Kinds
  <2> HIDE DEF e
  <2>3. e.src = [streams |-> s.streams, tracks |-> s.tracks, metadata |-> s.metadata, ts |-> s.ts,
                 ended |-> TRUE]
    <3>1. e.src = [s EXCEPT !.ended = TRUE]
      BY <2>1
    <3> QED BY <3>1 DEF SrcShape
  <2>4. SrcShape(e.src)
    BY <2>3 DEF SrcShape
  <2> QED BY <1>3, <2>1, <2>2, <2>3, <2>4 DEF e
<1>4. CASE x.kind \in Kinds /\ x.tag = Err
  <2>1. x.kind \notin {"metadata", "other", "end"}
    BY <1>4 DEF Kinds
  <2>2. e = [src |-> s, packets |-> <<>>, ok |-> FALSE]
    BY <1>4, <2>1 DEF Ingested
  <2>3. ~Moves(x) /\ ~Delivers(x)
    BY <1>4 DEF Moves, Delivers
  <2> QED BY <1>4, <2>1, <2>2, <2>3 DEF SrcShape
<1>5. CASE x.kind \in Kinds /\ x.tag # Err
  <2>1. x.kind \notin {"metadata", "other", "end"} /\ Moves(x)
    BY <1>5 DEF Kinds, Moves
  <2>2. e = IF \E i \in DOMAIN x.tracks : x.tracks[i].tag = Err
            THEN [src |-> timed, packets |-> <<>>, ok |-> FALSE]
            ELSE [src |-> [timed EXCEPT !.tracks = table,
                                        !.streams = WithStreams(@, table, x.tracks)],
                  packets |-> PacketsOf(table, x.tracks, timed.ts[2], NanoOf(x)), ok |-> TRUE]
    BY <1>5, <2>1 DEF Ingested
  <2>3. /\ timed = [streams |-> s.streams, tracks |-> s.tracks, metadata |-> s.metadata,
                    ts |-> Unwrapped(s.ts, x.time), ended |-> s.ended]
    BY DEF SrcShape
  <2> HIDE DEF timed, table, e
  <2>4. CASE Delivers(x)
    <3>1. e = [src |-> [timed EXCEPT !.tracks = table,
                                     !.streams = WithStreams(@, table, x.tracks)],
               packets |-> PacketsOf(table, x.tracks, timed.ts[2], NanoOf(x)), ok |-> TRUE]
      BY <2>2, <2>4 DEF Delivers
    <3>2. e.src = [streams |-> WithStreams(s.streams, table, x.tracks), tracks |-> table,
                   metadata |-> s.metadata, ts |-> Unwrapped(s.ts, x.time), ended |-> s.ended]
      BY <2>3, <3>1
    <3> QED BY <2>1, <2>3, <2>4, <3>1, <3>2 DEF SrcShape, e, table
  <2>5. CASE ~Delivers(x)
    <3>1. e = [src |-> timed, packets |-> <<>>, ok |-> FALSE]
      BY <1>5, <2>2, <2>5 DEF Delivers
    <3> QED BY <1>5, <2>1, <2>3, <2>5, <3>1 DEF SrcShape, e
  <2> QED BY <2>4, <2>5
<1> QED BY <1>1, <1>2, <1>3, <1>4, <1>5

-----------------------------------------------------------------------------
(* Packets. *)

\* A packet is the same at every time and on every stream, but for the time and the stream.
LEMMA PacketMoves ==
    ASSUME NEW t, NEW nano \in Int, t.kind \in Kinds, t.cts \in Int, NanoOffset(t) \in Int,
           PacketOf(0, t, 0, nano) \in Packets, NEW ms \in Int, NEW index \in Nat
    PROVE  /\ PacketOf(ms, t, index, nano) \in Packets
           /\ PacketOf(ms, t, index, nano).stream = index
           /\ \A w \in Meanings : FitsAt(PacketOf(0, t, 0, nano), w, 0)
                                    => FitsAt(PacketOf(ms, t, index, nano), w, ms * MsToNs)
<1> DEFINE p == PacketOf(0, t, 0, nano)
           q == PacketOf(ms, t, index, nano)
           at == ms * MsToNs
           offset == NanoOffset(t) + nano
           cts == IF t.codec = AVC \/ t.fourcc # None THEN t.cts * MsToNs ELSE 0
<1>1. at \in Int /\ 0 * MsToNs = 0 /\ offset \in Int /\ cts \in Int /\ MsToNs \in Int
  BY DEF MsToNs
<1>2. /\ q.stream = index
      /\ q.key = p.key /\ q.header = p.header /\ q.data = p.data
      /\ p.dts = (IF t.kind = "audio" THEN offset ELSE 0)
      /\ q.dts = (IF t.kind = "audio" THEN at + offset ELSE at)
      /\ p.pts = (IF t.kind = "audio" THEN offset ELSE cts + offset)
      /\ q.pts = (IF t.kind = "audio" THEN at + offset ELSE at + cts + offset)
      /\ q = [stream |-> q.stream, dts |-> q.dts, pts |-> q.pts, key |-> q.key,
              header |-> q.header, data |-> q.data]
  <2>1. CASE t.kind = "audio"
    <3> DEFINE header == IsSequenceHeader(t) \/ (t.fourcc # None /\ t.pt = SequenceEnd)
               data == (IF t.fourcc = None /\ t.codec = AAC THEN <<t.sub>> ELSE <<>>) \o t.body
               Made(i, at0) == [stream |-> i, dts |-> at0 + offset, pts |-> at0 + offset,
                                key |-> FALSE, header |-> header, data |-> data]
    <3>1. p = Made(0, 0 * MsToNs) /\ q = Made(index, at)
      BY <2>1 DEF PacketOf
    <3> HIDE DEF p, q, at, offset, cts, header, data
    <3>2. 0 * MsToNs + offset = offset
      BY <1>1
    <3> QED BY <2>1, <3>1, <3>2
  <2>2. CASE t.kind # "audio"
    BY <1>1, <2>2 DEF PacketOf
  <2> QED BY <2>1, <2>2
<1> HIDE DEF at, offset, cts
<1>6. p \in Packets
  OBVIOUS
<1> HIDE DEF p, q
<1>3. q.dts = at + p.dts /\ q.pts = at + p.pts /\ q.dts \in Int /\ q.pts \in Int
  <2>1. CASE t.kind = "audio"
    <3>1. p.dts = offset /\ p.pts = offset /\ q.dts = at + offset /\ q.pts = at + offset
      BY <1>2, <2>1
    <3> QED BY <1>1, <3>1
  <2>2. CASE t.kind # "audio"
    <3>1. p.dts = 0 /\ p.pts = cts + offset /\ q.dts = at /\ q.pts = at + cts + offset
      BY <1>2, <2>2
    <3> QED BY <1>1, <3>1
  <2> QED BY <2>1, <2>2
<1>4. q \in Packets
  BY <1>2, <1>3, <1>6 DEF Packets
<1>5. ASSUME NEW w \in Meanings, FitsAt(p, w, 0) PROVE FitsAt(q, w, at)
  <2>1. w.cts \in Int /\ w.nano \in Int /\ w.cts * MsToNs \in Int
    BY DEF Meanings, MsToNs
  <2>2. q.pts = at + w.cts * MsToNs + w.nano
    <3>1. p.pts = 0 + w.cts * MsToNs + w.nano
      BY <1>5 DEF FitsAt
    <3> QED BY <1>1, <1>3, <2>1, <3>1
  <2>3. q.dts = IF w.track[1] = "video" THEN at ELSE at + w.nano
    <3>1. p.dts = IF w.track[1] = "video" THEN 0 ELSE 0 + w.nano
      BY <1>5 DEF FitsAt
    <3> QED BY <1>1, <1>3, <2>1, <3>1
  <2> QED BY <1>2, <1>5, <2>2, <2>3 DEF FitsAt
<1> QED BY <1>2, <1>4, <1>5 DEF p, q, at

\* The packets of a message, with the table that has its tracks.
LEMMA PacketsGood ==
    ASSUME NEW x, Whole(x), x.kind \in Kinds, NEW table \in Table, NEW ms \in Int,
           \A i \in 1 .. Len(x.tracks) : Registered(table, TrackOf(x.tracks, i))
    PROVE  LET ps == PacketsOf(table, x.tracks, ms, NanoOf(x)) IN
           /\ ps \in Seq(Packets) /\ Len(ps) = Len(x.tracks) /\ Len(ps) \in Nat
           /\ \A i \in 1 .. Len(ps) :
                 /\ TrackOf(x.tracks, i) \in Tracks
                 /\ ps[i].stream = Index(table, TrackOf(x.tracks, i))
                 /\ \A w \in Meanings :
                       FitsAt(PacketOf(0, x.tracks[i].tag, 0, NanoOf(x)), w, 0)
                         => FitsAt(ps[i], w, ms * MsToNs)
<1> DEFINE ps == PacketsOf(table, x.tracks, ms, NanoOf(x))
           n == Len(x.tracks)
<1>1. /\ n \in Nat /\ DOMAIN x.tracks = 1 .. n /\ NanoOf(x) \in Int
      /\ \A i \in 1 .. n : x.tracks[i].id \in 0 .. 255 /\ x.tracks[i].tag.kind \in Kinds
  BY DEF Whole, TracksFit
<1>2. ASSUME NEW i \in 1 .. n
      PROVE  /\ TrackOf(x.tracks, i) \in Tracks
             /\ ps[i].stream = Index(table, TrackOf(x.tracks, i)) /\ ps[i] \in Packets
             /\ \A w \in Meanings :
                   FitsAt(PacketOf(0, x.tracks[i].tag, 0, NanoOf(x)), w, 0)
                     => FitsAt(ps[i], w, ms * MsToNs)
  <2> DEFINE t == x.tracks[i].tag
             k == TrackOf(x.tracks, i)
  <2>1. k \in Tracks
    BY <1>1 DEF Tracks, TrackOf
  <2>2. ps[i] = PacketOf(ms, t, Index(table, k), NanoOf(x))
    BY <1>1 DEF PacketsOf, Index, TrackOf
  <2>3. t.kind \in Kinds /\ t.cts \in Int /\ NanoOffset(t) \in Int
        /\ PacketOf(0, t, 0, NanoOf(x)) \in Packets
    BY <1>1 DEF Whole
  <2>4. Index(table, k) \in Nat
    <3>1. Index(table, k) \in 0 .. 1 + Len(table) /\ Len(table) \in Nat
      BY <2>1, IndexOf, TableParts
    <3> QED BY <3>1
  <2> HIDE DEF ps, t, k, n
  <2>5. /\ PacketOf(ms, t, Index(table, k), NanoOf(x)) \in Packets
        /\ PacketOf(ms, t, Index(table, k), NanoOf(x)).stream = Index(table, k)
        /\ \A w \in Meanings : FitsAt(PacketOf(0, t, 0, NanoOf(x)), w, 0)
                                 => FitsAt(PacketOf(ms, t, Index(table, k), NanoOf(x)), w, ms * MsToNs)
    BY <1>1, <2>3, <2>4, PacketMoves
  <2> QED BY <2>1, <2>2, <2>5 DEF t, k
<1>3. ps = [i \in 1 .. n |-> ps[i]]
  BY <1>1 DEF PacketsOf
<1> HIDE DEF ps, n
<1>4. ps \in Seq(Packets) /\ Len(ps) = n
  BY <1>1, <1>2, <1>3
<1> QED BY <1>1, <1>2, <1>4 DEF ps, n

-----------------------------------------------------------------------------
(* The clock. *)

\* Less than half a turn away.
Near(x) == -TimeMod < 2 * x /\ 2 * x < TimeMod

\* A time that is near the last one is unwrapped to where it is.
LEMMA UnwrapsRight ==
    ASSUME NEW r \in Int, NEW q \in Int, NEW e \in Int, Near(q - r)
    PROVE  Unwrapped(<<r % TimeMod, r + e>>, q % TimeMod) = <<q % TimeMod, q + e>>
<1> DEFINE s == r % TimeMod
           t == q % TimeMod
           d == (t - s) % TimeMod
<1>1. PICK n \in Nat \ {0} : n = TimeMod
  BY SourceConstants
<1>2. /\ r = n * (r \div n) + s /\ r \div n \in Int /\ s \in Int
      /\ q = n * (q \div n) + t /\ q \div n \in Int /\ t \in Int
  BY <1>1, TurnsOf
<1> DEFINE i == r \div n
           j == q \div n
<1> HIDE DEF s, t, i, j
<1>3. i \in Int /\ j \in Int /\ r = n * i + s /\ q = n * j + t
  BY <1>2 DEF i, j
<1>4. (t - s) - (q - r) = n * (i - j)
  BY <1>2, <1>3
<1>5. d = IF q - r >= 0 THEN q - r ELSE q - r + n
  <2>1. CASE q - r >= 0
    <3>1. t - s = n * (i - j) + (q - r) /\ i - j \in Int /\ t - s \in Int
      BY <1>2, <1>3, <1>4
    <3>2. q - r \in 0 .. n - 1
      BY <1>1, <2>1 DEF Near
    <3>3. (t - s) % n = q - r
      BY <3>1, <3>2, TurnsAreUnique
    <3> QED BY <1>1, <2>1, <3>3
  <2>2. CASE q - r < 0
    <3>1. t - s = n * (i - j - 1) + (q - r + n) /\ i - j - 1 \in Int /\ t - s \in Int
      BY <1>1, <1>2, <1>3, <1>4
    <3>2. q - r + n \in 0 .. n - 1
      BY <1>1, <2>2 DEF Near
    <3>3. (t - s) % n = q - r + n
      BY <3>1, <3>2, TurnsAreUnique
    <3> QED BY <1>1, <2>2, <3>3
  <2> QED BY <2>1, <2>2
<1>6. d \in Int /\ (2 * d < TimeMod <=> q - r >= 0)
  BY <1>1, <1>5 DEF Near
<1> HIDE DEF d
<1>7. <<s, r + e>> # <<>> /\ <<s, r + e>>[1] = s /\ <<s, r + e>>[2] = r + e
  OBVIOUS
<1>8. Unwrapped(<<s, r + e>>, t) = <<t, (r + e) + (IF 2 * d < TimeMod THEN d ELSE d - TimeMod)>>
  BY <1>7 DEF Unwrapped, d
<1>9. (r + e) + (IF 2 * d < TimeMod THEN d ELSE d - TimeMod) = q + e
  BY <1>1, <1>5, <1>6
<1> QED BY <1>8, <1>9 DEF s, t

Quiet(s) == \A m \in Traffic[s.menu] : m.kind \in Kinds => m.tag # Err

Reach(s) == CHOOSE most \in 0 .. TimeMod : /\ 2 * (s.total * most) < TimeMod
                                           /\ \A d \in s.steps : -most <= d /\ d <= most

LEMMA ReachParts ==
    ASSUME ClockKept, NEW s \in Scenes, ~Quiet(s)
    PROVE  /\ Reach(s) \in Nat /\ 2 * (s.total * Reach(s)) < TimeMod
           /\ \A d \in s.steps : -Reach(s) <= d /\ d <= Reach(s)
<1>1. \E most \in 0 .. TimeMod : /\ 2 * (s.total * most) < TimeMod
                                 /\ \A d \in s.steps : -most <= d /\ d <= most
  BY DEF ClockKept, Quiet
<1>2. Reach(s) \in 0 .. TimeMod /\ 2 * (s.total * Reach(s)) < TimeMod
      /\ \A d \in s.steps : -Reach(s) <= d /\ d <= Reach(s)
  BY <1>1 DEF Reach
<1>3. TimeMod \in Nat
  BY SourceConstants
<1> QED BY <1>2, <1>3

\* How far the publisher's clock may be from the last message that moved the source's: as far
\* as the messages that do not move it have taken it.
Slack(s, l) == IF Quiet(s) THEN 0 ELSE (s.total - l) * Reach(s)

Within(x, b) == -b <= x /\ x <= b

\* The next message is near the last one, and the slack covers it.
LEMMA SlackGrows ==
    ASSUME ClockKept, NEW s \in Scenes, NEW l \in 1 .. s.total, NEW d \in s.steps,
           NEW x \in Int, Within(x, Slack(s, l))
    PROVE  /\ Slack(s, l) \in Nat /\ Slack(s, l - 1) \in Nat
           /\ Near(x + d)
           /\ Quiet(s) => x = 0
           /\ ~Quiet(s) => Within(x + d, Slack(s, l - 1))
           /\ Within(x, Slack(s, l - 1))
<1>1. s.total \in Nat /\ d \in Int /\ Near(d) /\ TimeMod \in Nat \ {0}
  BY SourceConstants DEF Near
<1>2. CASE Quiet(s)
  BY <1>1, <1>2 DEF Slack, Within, Near
<1>3. CASE ~Quiet(s)
  <2>1. PICK b \in Nat : b = Reach(s)
    BY <1>3, ReachParts
  <2>2. 2 * (s.total * b) < TimeMod /\ -b <= d /\ d <= b
    BY <1>3, <2>1, ReachParts
  <2>3. PICK k \in Nat : s.total - l = k
    BY <1>1
  <2>4. Slack(s, l) = k * b /\ Slack(s, l - 1) = (k + 1) * b
    <3>1. s.total - (l - 1) = k + 1
      BY <1>1, <2>3
    <3> QED BY <1>3, <2>1, <2>3, <3>1 DEF Slack
  <2>5. k * b \in Nat /\ (k + 1) * b = k * b + b
    OBVIOUS
  <2>6. PICK m \in Nat : s.total = (k + 1) + m
    <3>1. s.total - (k + 1) \in Nat /\ s.total = (k + 1) + (s.total - (k + 1))
      BY <1>1, <2>3
    <3> QED BY <3>1
  <2>7. s.total * b = (k + 1) * b + m * b /\ m * b \in Nat
    BY <2>6
  <2>8. PICK y \in Nat, z \in Nat : y = k * b /\ z = m * b
    BY <2>5, <2>7
  <2>9. 2 * (y + b + z) < TimeMod /\ -y <= x /\ x <= y
    BY <2>2, <2>4, <2>5, <2>7, <2>8 DEF Within
  <2>10. Slack(s, l) = y /\ Slack(s, l - 1) = y + b
    BY <2>4, <2>5, <2>8
  <2> QED BY <1>1, <1>3, <2>2, <2>9, <2>10 DEF Near, Within
<1> QED BY <1>2, <1>3

\* The source's clock, the messages on their way, and the publisher's clock are one chain of
\* times, each near the one before it; last[i] is the time of the last message up to the i-th
\* that moves the source's clock.
Chain(box, last, e, ts, ep, time, slack) ==
    /\ \E k \in Int : e = TimeMod * k
    /\ IF ts = <<>> THEN ep = {} ELSE ep = {e} /\ ts = <<last[0] % TimeMod, last[0] + e>>
    /\ \A i \in 1 .. Len(box) : IF Moves(box[i]) THEN last[i] = box[i].real /\ Near(last[i] - last[i - 1])
                                ELSE last[i] = last[i - 1]
    /\ Within(time - last[Len(box)], slack)

Clocked(box, ts, ep, time, slack) ==
    \E last \in [0 .. Len(box) -> Int], e \in Int : Chain(box, last, e, ts, ep, time, slack)

LEMMA ClockTyped ==
    ASSUME NEW box, NEW ts, NEW ep, NEW time, NEW slack, Clocked(box, ts, ep, time, slack),
           Len(box) \in Nat, ts # <<>>
    PROVE  ts[1] \in 0 .. TimeMod - 1 /\ (ts[2] - ts[1]) % TimeMod = 0
<1>1. PICK last \in [0 .. Len(box) -> Int], e \in Int : Chain(box, last, e, ts, ep, time, slack)
  BY DEF Clocked
<1>2. PICK k \in Int : e = TimeMod * k
  BY <1>1 DEF Chain
<1>3. PICK n \in Nat \ {0} : n = TimeMod
  BY SourceConstants
<1>4. last[0] \in Int /\ ts = <<last[0] % n, last[0] + e>>
  BY <1>1, <1>3 DEF Chain
<1>5. PICK r \in Int : r = last[0]
  BY <1>4
<1>6. r = n * (r \div n) + (r % n) /\ r \div n \in Int /\ r % n \in 0 .. n - 1
  BY <1>3, TurnsOf
<1>7. PICK j \in Int, s \in 0 .. n - 1 : j = r \div n /\ s = r % n
  BY <1>6
<1>8. ts[1] = s /\ ts[2] = r + e
  BY <1>4, <1>5, <1>7
<1>9. ts[2] - ts[1] = n * (j + k) + 0 /\ j + k \in Int /\ ts[2] - ts[1] \in Int /\ 0 \in 0 .. n - 1
  <2>1. r = n * j + s /\ e = n * k
    BY <1>2, <1>3, <1>6, <1>7
  <2>2. (r + e) - s = n * j + n * k
    BY <1>7, <2>1
  <2>3. n * j + n * k = n * (j + k)
    BY <1>7
  <2> QED BY <1>3, <1>7, <1>8, <2>2, <2>3
<1>10. (ts[2] - ts[1]) % n = 0
  BY <1>9, TurnsAreUnique
<1> QED BY <1>3, <1>8, <1>10

\* A message is sent, at its time.
LEMMA ClockSent ==
    ASSUME ClockKept, NEW s \in Scenes, NEW l \in 1 .. s.total, NEW time \in Int,
           NEW box \in Seq(Posts), NEW ts, NEW ep, Clocked(box, ts, ep, time, Slack(s, l)),
           NEW m \in Traffic[s.menu], NEW d \in s.steps, m.kind \notin Kinds => d = 0
    PROVE  Clocked(Append(box, Post(m, time + d)), ts, ep, time + d, Slack(s, l - 1))
<1> DEFINE n == Len(box)
           x == Post(m, time + d)
           more == Append(box, x)
<1>1. PICK last \in [0 .. n -> Int], e \in Int : Chain(box, last, e, ts, ep, time, Slack(s, l))
  BY DEF Clocked
<1>2. d \in Int /\ m \in Menu
  BY SourceConstants, InTraffic
<1>3. x \in Posts /\ x.kind = m.kind /\ x.tag = m.tag /\ x.real = time + d
  BY <1>2, PostFields DEF Posts
<1>4. /\ n \in Nat /\ Len(more) = n + 1 /\ more[n + 1] = x
      /\ \A i \in 1 .. n : more[i] = box[i]
  BY <1>3, AppendProperties, LenProperties
<1> HIDE DEF x, more, n
<1>5. time - last[n] \in Int /\ last[n] \in Int /\ Within(time - last[n], Slack(s, l))
  BY <1>1, <1>4 DEF Chain, n
<1>6. PICK y \in Int : y = time - last[n]
  BY <1>5
<1>7. /\ Slack(s, l - 1) \in Nat /\ Near(y + d)
      /\ ~Quiet(s) => Within(y + d, Slack(s, l - 1))
      /\ Within(y, Slack(s, l - 1))
  BY <1>5, <1>6, SlackGrows
<1> DEFINE later == [i \in 0 .. n + 1 |-> IF i <= n THEN last[i]
                                          ELSE IF Moves(x) THEN time + d ELSE last[n]]
<1>8. later \in [0 .. n + 1 -> Int]
  BY <1>2, <1>4
<1>9. (\A i \in 0 .. n : later[i] = last[i])
      /\ later[n + 1] = (IF Moves(x) THEN time + d ELSE last[n])
  BY <1>4
<1> HIDE DEF later
<1>10. ASSUME NEW i \in 1 .. n + 1
       PROVE  IF Moves(more[i]) THEN later[i] = more[i].real /\ Near(later[i] - later[i - 1])
              ELSE later[i] = later[i - 1]
  <2>1. CASE i = n + 1
    <3>1. i - 1 = n /\ n \in 0 .. n
      BY <1>4, <2>1
    <3>2. later[i - 1] = last[n] /\ (time + d) - last[n] = y + d
      BY <1>2, <1>5, <1>6, <1>9, <3>1
    <3> QED BY <1>3, <1>4, <1>7, <1>9, <2>1, <3>2
  <2>2. CASE i # n + 1
    <3>1. i \in 1 .. n /\ i \in 0 .. n /\ i - 1 \in 0 .. n
      BY <1>4, <2>2
    <3>2. more[i] = box[i] /\ later[i] = last[i] /\ later[i - 1] = last[i - 1]
      BY <1>4, <1>9, <3>1
    <3> QED BY <1>1, <3>1, <3>2 DEF Chain, n
  <2> QED BY <2>1, <2>2
<1>11. Within((time + d) - later[n + 1], Slack(s, l - 1))
  <2>1. CASE Moves(x)
    <3>1. (time + d) - later[n + 1] = 0
      BY <1>2, <1>9, <2>1
    <3> QED BY <1>7, <3>1 DEF Within
  <2>2. CASE ~Moves(x)
    <3>1. (time + d) - later[n + 1] = y + d
      BY <1>2, <1>5, <1>6, <1>9, <2>2
    <3>2. CASE Quiet(s)
      <4>1. m.kind \notin Kinds
        BY <1>3, <2>2, <3>2 DEF Moves, Quiet
      <4>2. y + d = y
        BY <1>6, <4>1
      <4> QED BY <1>7, <3>1, <4>2
    <3> QED BY <1>7, <3>1, <3>2
  <2> QED BY <2>1, <2>2
<1>12. 0 \in 0 .. n
  BY <1>4
<1>13. Chain(more, later, e, ts, ep, time + d, Slack(s, l - 1))
  BY <1>1, <1>4, <1>9, <1>10, <1>11, <1>12 DEF Chain
<1> QED BY <1>4, <1>8, <1>13 DEF Clocked, more, x

\* So is the end, which moves no clock.
LEMMA ClockEnds ==
    ASSUME NEW time, NEW slack, NEW box \in Seq(Posts), NEW ts, NEW ep, Clocked(box, ts, ep, time, slack)
    PROVE  Clocked(Append(box, End), ts, ep, time, slack)
<1> DEFINE n == Len(box)
           more == Append(box, End)
<1>1. PICK last \in [0 .. n -> Int], e \in Int : Chain(box, last, e, ts, ep, time, slack)
  BY DEF Clocked
<1>2. End \in Posts
  BY DEF Posts
<1>3. /\ n \in Nat /\ Len(more) = n + 1 /\ more[n + 1] = End
      /\ \A i \in 1 .. n : more[i] = box[i]
  BY <1>2, AppendProperties, LenProperties
<1> HIDE DEF more, n
<1> DEFINE later == [i \in 0 .. n + 1 |-> IF i <= n THEN last[i] ELSE last[n]]
<1>4. later \in [0 .. n + 1 -> Int]
  BY <1>3
<1>5. (\A i \in 0 .. n : later[i] = last[i]) /\ later[n + 1] = last[n]
  BY <1>3
<1> HIDE DEF later
<1>6. ASSUME NEW i \in 1 .. n + 1
      PROVE  IF Moves(more[i]) THEN later[i] = more[i].real /\ Near(later[i] - later[i - 1])
             ELSE later[i] = later[i - 1]
  <2>1. CASE i = n + 1
    <3>1. i - 1 = n /\ n \in 0 .. n
      BY <1>3, <2>1
    <3> QED BY <1>3, <1>5, <2>1, <3>1, EndFields
  <2>2. CASE i # n + 1
    <3>1. i \in 1 .. n /\ i \in 0 .. n /\ i - 1 \in 0 .. n
      BY <1>3, <2>2
    <3>2. more[i] = box[i] /\ later[i] = last[i] /\ later[i - 1] = last[i - 1]
      BY <1>3, <1>5, <3>1
    <3> QED BY <1>1, <3>1, <3>2 DEF Chain, n
  <2> QED BY <2>1, <2>2
<1>7. 0 \in 0 .. n
  BY <1>3
<1>8. Chain(more, later, e, ts, ep, time, slack)
  BY <1>1, <1>3, <1>5, <1>6, <1>7 DEF Chain, n
<1> QED BY <1>3, <1>4, <1>8 DEF Clocked, more

\* The source reads a message.
LEMMA ClockRead ==
    ASSUME WellRead, NEW time, NEW slack, NEW box \in Seq(Posts), box # <<>>, NEW ts, NEW ep,
           Clocked(box, ts, ep, time, slack),
           NEW ts2, ts2 = IF Moves(Head(box)) THEN Unwrapped(ts, Head(box).time) ELSE ts,
           NEW ep2, ep2 = IF ep = {} /\ ts2 # <<>> THEN {ts2[2] - Head(box).real} ELSE ep
    PROVE  /\ Clocked(Tail(box), ts2, ep2, time, slack)
           /\ ep \subseteq ep2 /\ ep2 \in SUBSET Int
           /\ Moves(Head(box)) => \E e \in ep2 : ts2[2] = Head(box).real + e
<1> DEFINE n == Len(box)
           x == Head(box)
           rest == Tail(box)
<1>1. PICK last \in [0 .. n -> Int], e \in Int : Chain(box, last, e, ts, ep, time, slack)
  BY DEF Clocked
<1>2. /\ n \in Nat /\ n # 0 /\ Len(rest) = n - 1 /\ \A i \in 1 .. n - 1 : rest[i] = box[i + 1]
      /\ x \in Posts /\ x = box[1]
  BY HeadTailProperties, LenProperties, EmptySeq
<1>3. x.real \in Int /\ x.time = x.real % TimeMod
  BY <1>2, PostParts
<1> HIDE DEF n, x, rest
<1>4. last[0] \in Int /\ last[1] \in Int /\ (Moves(x) => last[1] = x.real /\ Near(last[1] - last[0]))
      /\ (~Moves(x) => last[1] = last[0])
  <2>1. 1 \in 1 .. Len(box) /\ 0 \in 0 .. n /\ 1 \in 0 .. n /\ 1 - 1 = 0
    BY <1>2 DEF n
  <2> QED BY <1>1, <1>2, <2>1 DEF Chain
<1>5. PICK k \in Int : e = TimeMod * k
  BY <1>1 DEF Chain
<1>6. PICK e2 \in Int :
         /\ \E j \in Int : e2 = TimeMod * j
         /\ IF ts2 = <<>> THEN ep2 = {} ELSE ep2 = {e2} /\ ts2 = <<last[1] % TimeMod, last[1] + e2>>
         /\ ep \subseteq ep2 /\ ep2 \in SUBSET Int
         /\ Moves(x) => \E d \in ep2 : ts2[2] = x.real + d
  <2>1. CASE Moves(x) /\ ts = <<>>
    <3>1. PICK m \in Nat \ {0} : m = TimeMod
      BY SourceConstants
    <3>2. PICK y \in Int : y = x.real
      BY <1>3
    <3>8. y = m * (y \div m) + (y % m) /\ y \div m \in Int /\ y % m \in Int
      <4>1. y = m * (y \div m) + (y % m) /\ y \div m \in Int /\ y % m \in 0 .. m - 1
        BY TurnsOf
      <4> QED BY <4>1
    <3>9. PICK q \in Int, r \in Int : q = y \div m /\ r = y % m
      BY <3>8
    <3>10. y = m * q + r /\ r = x.real % TimeMod
      BY <3>1, <3>2, <3>8, <3>9
    <3>3. ts2 = <<r, r>>
      BY <1>3, <2>1, <3>10 DEF Unwrapped, x
    <3>4. ts2 # <<>> /\ ts2[2] = r
      <4>1. <<r, r>> # <<>> /\ <<r, r>>[2] = r
        OBVIOUS
      <4> QED BY <3>3, <4>1
    <3>5. ep = {} /\ ep2 = {r - x.real}
      BY <1>1, <2>1, <3>4 DEF Chain, x
    <3>6. -q \in Int /\ r - x.real \in Int /\ r - x.real = TimeMod * (-q)
      <4>1. r - y = m * (-q)
        BY <3>10
      <4> QED BY <3>1, <3>2, <4>1
    <3>7. last[1] % TimeMod = r /\ last[1] + (r - x.real) = r /\ x.real + (r - x.real) = r
      BY <1>4, <2>1, <3>2, <3>10
    <3>11. PICK d \in Int : d = r - x.real
      BY <3>6
    <3>12. /\ \E j \in Int : d = TimeMod * j
           /\ ep2 = {d} /\ ts2 = <<last[1] % TimeMod, last[1] + d>> /\ ts2[2] = x.real + d
      BY <3>3, <3>4, <3>5, <3>6, <3>7, <3>11
    <3> QED BY <3>4, <3>5, <3>12
  <2>2. CASE Moves(x) /\ ts # <<>>
    <3>1. ep = {e} /\ ts = <<last[0] % TimeMod, last[0] + e>>
      BY <1>1, <2>2 DEF Chain
    <3>2. ts2 = <<last[1] % TimeMod, last[1] + e>>
      <4>1. Unwrapped(<<last[0] % TimeMod, last[0] + e>>, last[1] % TimeMod)
              = <<last[1] % TimeMod, last[1] + e>>
        BY <1>4, <2>2, UnwrapsRight
      <4> QED BY <1>3, <1>4, <2>2, <3>1, <4>1 DEF x
    <3>3. ts2 # <<>> /\ ts2[2] = x.real + e
      <4>1. \A a, b : <<a, b>> # <<>> /\ <<a, b>>[2] = b
        OBVIOUS
      <4>2. ts2 # <<>> /\ ts2[2] = last[1] + e
        BY <3>2, <4>1
      <4> QED BY <1>4, <2>2, <4>2
    <3>4. ep2 = {e}
      BY <3>1
    <3> QED BY <1>5, <2>2, <3>1, <3>2, <3>3, <3>4
  <2>3. CASE ~Moves(x)
    <3>1. ts2 = ts /\ last[1] = last[0]
      BY <1>4, <2>3 DEF x
    <3>2. CASE ts = <<>>
      BY <1>1, <1>5, <2>3, <3>1, <3>2 DEF Chain
    <3>3. CASE ts # <<>>
      <4>1. ep = {e} /\ ts = <<last[0] % TimeMod, last[0] + e>>
        BY <1>1, <3>3 DEF Chain
      <4> QED BY <1>5, <2>3, <3>1, <3>3, <4>1
    <3> QED BY <3>2, <3>3
  <2> QED BY <2>1, <2>2, <2>3
<1> DEFINE later == [i \in 0 .. n - 1 |-> last[i + 1]]
<1>7. later \in [0 .. n - 1 -> Int] /\ \A i \in 0 .. n - 1 : later[i] = last[i + 1]
  BY <1>2
<1> HIDE DEF later
<1>8. ASSUME NEW i \in 1 .. n - 1
      PROVE  IF Moves(rest[i]) THEN later[i] = rest[i].real /\ Near(later[i] - later[i - 1])
             ELSE later[i] = later[i - 1]
  <2>1. i \in 0 .. n - 1 /\ i - 1 \in 0 .. n - 1 /\ i + 1 \in 1 .. n /\ (i - 1) + 1 = i
        /\ (i + 1) - 1 = i
    BY <1>2
  <2>2. later[i] = last[i + 1] /\ later[i - 1] = last[i] /\ rest[i] = box[i + 1]
    BY <1>2, <1>7, <2>1
  <2>3. IF Moves(box[i + 1]) THEN last[i + 1] = box[i + 1].real /\ Near(last[i + 1] - last[i])
        ELSE last[i + 1] = last[i]
    BY <1>1, <2>1 DEF Chain, n
  <2> QED BY <2>2, <2>3
<1>9. 0 \in 0 .. n - 1 /\ n - 1 \in 0 .. n - 1 /\ (n - 1) + 1 = n /\ 0 + 1 = 1
  BY <1>2
<1>10. later[0] = last[1] /\ later[n - 1] = last[n]
  BY <1>7, <1>9
<1>11. Within(time - later[n - 1], slack)
  BY <1>1, <1>10 DEF Chain, n
<1>12. Chain(rest, later, e2, ts2, ep2, time, slack)
  BY <1>2, <1>6, <1>8, <1>10, <1>11 DEF Chain
<1>13. Clocked(rest, ts2, ep2, time, slack)
  BY <1>2, <1>7, <1>12 DEF Clocked
<1> QED BY <1>6, <1>13 DEF rest, x

-----------------------------------------------------------------------------
(* Streams: a track has found its home. *)

Housed(s, n, k) ==
    /\ k \in Tracks /\ Registered(s.tracks, k) /\ n = Index(s.tracks, k)
    /\ \E x \in s.streams : x.index = n

\* Tables and streams that only grow.
Grows(s, r) ==
    /\ s.tracks \in Table /\ r.tracks \in Table /\ Extends(s.tracks, r.tracks)
    /\ s.streams \subseteq r.streams

StreamsTyped(s) == \A x \in s.streams : x.index \in 0 .. 1 + Len(s.tracks)

LEMMA StaysHoused ==
    ASSUME NEW s, NEW r, Grows(s, r), NEW n, NEW k, Housed(s, n, k)
    PROVE  Housed(r, n, k)
<1>1. Registered(r.tracks, k) /\ Index(r.tracks, k) = Index(s.tracks, k)
  BY IndexStable DEF Grows, Housed
<1> QED BY <1>1 DEF Grows, Housed

LEMMA IngestedGrows ==
    ASSUME WellRead, NEW s, SrcShape(s), s.tracks \in Table, StreamsTyped(s), NEW x \in Posts
    PROVE  LET r == Ingested(s, x).src IN
           /\ Grows(s, r) /\ StreamsTyped(r)
           /\ Delivers(x) => \A i \in 1 .. Len(x.tracks) :
                 /\ Registered(r.tracks, TrackOf(x.tracks, i))
                 /\ Housed(r, Index(r.tracks, TrackOf(x.tracks, i)), TrackOf(x.tracks, i))
<1> DEFINE r == Ingested(s, x).src
           n == Len(x.tracks)
<1>1. x.kind \in Kinds \cup {"metadata", "other", "end"} /\ (Delivers(x) => Whole(x))
  BY PostParts
<1>2. /\ r.tracks = IF Delivers(x) THEN WithTracks(s.tracks, x.tracks) ELSE s.tracks
      /\ r.streams = IF Delivers(x) THEN WithStreams(s.streams, r.tracks, x.tracks) ELSE s.streams
  BY <1>1, IngestedParts
<1> HIDE DEF r
<1>3. Len(s.tracks) \in Nat
  BY TableParts
<1>4. CASE ~Delivers(x)
  <2>1. r.tracks = s.tracks /\ r.streams = s.streams
    BY <1>2, <1>4
  <2>2. Extends(s.tracks, s.tracks)
    BY <1>3 DEF Extends
  <2> QED BY <1>4, <2>1, <2>2 DEF Grows, StreamsTyped, r
<1>5. CASE Delivers(x)
  <2>1. TracksFit(x.tracks, n)
    BY <1>1, <1>5 DEF Whole
  <2>2. /\ r.tracks \in Table /\ Extends(s.tracks, r.tracks)
        /\ \A i \in 1 .. n : Registered(r.tracks, TrackOf(x.tracks, i))
    BY <1>2, <1>5, <2>1, WithTracksGood
  <2>3. /\ s.streams \subseteq r.streams
        /\ \A i \in 1 .. n : \E y \in r.streams : y.index = Index(r.tracks, TrackOf(x.tracks, i))
        /\ \A y \in r.streams : y \in s.streams
                                \/ \E i \in 1 .. n : y.index = Index(r.tracks, TrackOf(x.tracks, i))
    BY <1>2, <1>5, <2>1, WithStreamsGood
  <2>4. \A i \in 1 .. n : TrackOf(x.tracks, i) \in Tracks
    BY <2>1 DEF TracksFit, TrackOf, Tracks
  <2>5. \A i \in 1 .. n : Index(r.tracks, TrackOf(x.tracks, i)) \in 0 .. 1 + Len(r.tracks)
    BY <2>2, <2>4, IndexOf
  <2>6. Len(s.tracks) <= Len(r.tracks) /\ Len(r.tracks) \in Nat
    BY <2>2, TableParts DEF Extends
  <2>7. StreamsTyped(r)
    <3> SUFFICES ASSUME NEW y \in r.streams PROVE y.index \in 0 .. 1 + Len(r.tracks)
      BY DEF StreamsTyped
    <3>1. CASE y \in s.streams
      <4>1. y.index \in 0 .. 1 + Len(s.tracks)
        BY <3>1 DEF StreamsTyped
      <4> QED BY <1>3, <2>6, <4>1
    <3>2. CASE y \notin s.streams
      BY <2>3, <2>5, <3>2
    <3> QED BY <3>1, <3>2
  <2> QED BY <2>2, <2>3, <2>4, <2>7 DEF Grows, Housed, r, n
<1> QED BY <1>4, <1>5

-----------------------------------------------------------------------------
(* What is owed. *)

\* The message x stands for these packets.
Stands(x, seg) ==
    IF ~Delivers(x) THEN seg = <<>>
    ELSE /\ Len(seg) = Len(x.tracks)
         /\ \A i \in 1 .. Len(seg) :
               /\ seg[i].time = x.real /\ seg[i].track = TrackOf(x.tracks, i)
               /\ FitsAt(PacketOf(0, x.tracks[i].tag, 0, NanoOf(x)), seg[i], 0)

\* Packet p is what was meant by w, on the stream of its track.
Right(p, w, ep, s) ==
    /\ \E e \in ep : FitsAt(p, w, (w.time + e) * MsToNs)
    /\ Housed(s, p.stream, w.track)

\* Owed are the packets that have been made, and behind them those that each message on its
\* way stands for.
Owes(got, box, ow, ep, s) ==
    \E mine \in Seq(Meanings), segs \in Seq(Seq(Meanings)) :
        /\ ow = mine \o FlattenSeq(segs)
        /\ Len(segs) = Len(box) /\ \A k \in 1 .. Len(box) : Stands(box[k], segs[k])
        /\ Len(mine) = Len(got) /\ \A i \in 1 .. Len(got) : Right(got[i], mine[i], ep, s)

\* A message is appended together with what it stands for.
LEMMA OwesSent ==
    ASSUME NEW got, NEW box \in Seq(Posts), NEW ow, NEW ep, NEW s, Owes(got, box, ow, ep, s),
           NEW x \in Posts, NEW seg \in Seq(Meanings), Stands(x, seg)
    PROVE  Owes(got, Append(box, x), ow \o seg, ep, s)
<1>1. PICK mine \in Seq(Meanings), segs \in Seq(Seq(Meanings)) :
         /\ ow = mine \o FlattenSeq(segs)
         /\ Len(segs) = Len(box) /\ \A k \in 1 .. Len(box) : Stands(box[k], segs[k])
         /\ Len(mine) = Len(got) /\ \A i \in 1 .. Len(got) : Right(got[i], mine[i], ep, s)
  BY DEF Owes
<1> DEFINE n == Len(box)
           more == Append(box, x)
           all == Append(segs, seg)
<1>2. /\ Len(more) = n + 1 /\ more[n + 1] = x /\ n \in Nat
      /\ \A k \in 1 .. n : more[k] = box[k]
  BY AppendProperties, LenProperties
<1>3. /\ all \in Seq(Seq(Meanings)) /\ Len(all) = n + 1 /\ all[n + 1] = seg
      /\ \A k \in 1 .. n : all[k] = segs[k]
  BY <1>1, AppendProperties, LenProperties
<1>4. FlattenSeq(segs) \in Seq(Meanings) /\ FlattenSeq(all) = FlattenSeq(segs) \o seg
  BY FlattenAppend
<1> HIDE DEF n, more, all
<1>5. ow \o seg = mine \o FlattenSeq(all)
  <2>1. (mine \o FlattenSeq(segs)) \o seg = mine \o (FlattenSeq(segs) \o seg)
    BY <1>4, ConcatAssociative
  <2> QED BY <1>1, <1>4, <2>1
<1>6. ASSUME NEW k \in 1 .. n + 1 PROVE Stands(more[k], all[k])
  <2>1. CASE k = n + 1
    BY <1>2, <1>3, <2>1
  <2>2. CASE k # n + 1
    <3>1. k \in 1 .. n
      BY <1>2, <2>2
    <3> QED BY <1>1, <1>2, <1>3, <3>1 DEF n
  <2> QED BY <2>1, <2>2
<1> QED BY <1>1, <1>2, <1>3, <1>5, <1>6 DEF Owes, more

\* A message of the publisher stands for what it means, at its time.
LEMMA MeantStands ==
    ASSUME WellRead, ReadAsMeant, NEW s \in Scenes, NEW m \in Traffic[s.menu], NEW r \in Int
    PROVE  LET seg == [i \in DOMAIN m.meant |-> [m.meant[i] EXCEPT !.time = r]] IN
           seg \in Seq(Meanings) /\ Stands(Post(m, r), seg)
<1> DEFINE seg == [i \in DOMAIN m.meant |-> [m.meant[i] EXCEPT !.time = r]]
           x == Post(m, r)
           n == Len(m.meant)
<1>1. x.kind = m.kind /\ x.tag = m.tag /\ x.tracks = m.tracks /\ x.real = r
  BY InTraffic, PostFields
<1>2. m.meant \in Seq(Meanings)
  BY DEF WellRead
<1>3. n \in Nat /\ DOMAIN m.meant = 1 .. n /\ \A i \in 1 .. n : m.meant[i] \in Meanings
  BY <1>2
<1>4. seg = [i \in 1 .. n |-> [m.meant[i] EXCEPT !.time = r]]
  BY <1>3
<1> HIDE DEF seg, x, n
<1>5. ASSUME NEW i \in 1 .. n
      PROVE  /\ seg[i] \in Meanings /\ seg[i].time = r /\ seg[i].track = m.meant[i].track
             /\ seg[i].cts = m.meant[i].cts /\ seg[i].nano = m.meant[i].nano
             /\ seg[i].means = m.meant[i].means /\ seg[i].body = m.meant[i].body
  <2>1. m.meant[i] \in Meanings /\ seg[i] = [m.meant[i] EXCEPT !.time = r]
    BY <1>3, <1>4
  <2> QED BY <2>1 DEF Meanings
<1>6. seg \in Seq(Meanings) /\ Len(seg) = n
  BY <1>3, <1>4, <1>5
<1>7. NanoOf(x) = NanoOf(m) /\ (Delivers(x) <=> Delivers(m))
  BY <1>1 DEF NanoOf, Delivers
<1>8. CASE ~Delivers(m)
  <2>1. m.meant = <<>>
    BY <1>8 DEF ReadAsMeant
  <2>2. seg = <<>>
    BY <1>3, <1>6, <2>1 DEF n
  <2> QED BY <1>6, <1>7, <1>8, <2>2 DEF Stands, seg, x
<1>9. CASE Delivers(m)
  <2>1. /\ n = Len(m.tracks)
        /\ \A i \in DOMAIN m.tracks : LET t == m.tracks[i].tag IN
              /\ m.meant[i].track = <<t.kind, m.tracks[i].id>>
              /\ FitsAt(PacketOf(0, t, 0, NanoOf(m)), m.meant[i], 0)
    BY <1>9 DEF ReadAsMeant, n
  <2>2. DOMAIN m.tracks = 1 .. Len(m.tracks)
    BY <1>9 DEF WellRead
  <2>3. ASSUME NEW i \in 1 .. n
        PROVE  /\ seg[i].time = x.real /\ seg[i].track = TrackOf(x.tracks, i)
               /\ FitsAt(PacketOf(0, x.tracks[i].tag, 0, NanoOf(x)), seg[i], 0)
    <3>1. /\ m.meant[i].track = TrackOf(m.tracks, i)
          /\ FitsAt(PacketOf(0, m.tracks[i].tag, 0, NanoOf(m)), m.meant[i], 0)
      BY <2>1, <2>2 DEF TrackOf
    <3>2. FitsAt(PacketOf(0, m.tracks[i].tag, 0, NanoOf(m)), seg[i], 0)
      BY <1>5, <3>1 DEF FitsAt
    <3> QED BY <1>1, <1>5, <1>7, <3>1, <3>2
  <2> QED BY <1>1, <1>6, <1>7, <1>9, <2>1, <2>3 DEF Stands, seg, x
<1> QED BY <1>8, <1>9

LEMMA FromSecond ==
    ASSUME NEW S, NEW q \in Seq(S), q # <<>>
    PROVE  From(q, 2) = Tail(q) /\ SubSeq(q, 1, 1) = <<q[1]>> /\ 1 \in DOMAIN q
<1>1. Len(q) \in Nat /\ Len(q) >= 1 /\ DOMAIN q = 1 .. Len(q)
  BY EmptySeq, LenProperties
<1>2. From(q, 2) = Tail(q)
  BY TailIsSubSeq DEF From
<1>3. \A i \in 1 .. 1 : q[i] \in S
  BY <1>1
<1>4. SubSeq(q, 1, 1) \in Seq(S) /\ Len(SubSeq(q, 1, 1)) = 1 /\ SubSeq(q, 1, 1)[1] = q[1]
  BY <1>3, SubSeqProperties
<1>5. PICK t \in Seq(S), x \in S : t = SubSeq(q, 1, 1) /\ x = q[1]
  <2>1. 1 \in 1 .. Len(q)
    BY <1>1
  <2>2. q[1] \in S
    BY <1>3
  <2> QED BY <1>4, <2>2, Zenon
<1>6. <<x>> \in Seq(S) /\ Len(<<x>>) = 1 /\ <<x>>[1] = x
  OBVIOUS
<1>7. t = <<x>>
  <2>1. Len(t) = 1 /\ t[1] = x
    BY <1>4, <1>5, Zenon
  <2>2. \A i \in 1 .. Len(t) : t[i] = <<x>>[i]
    BY <1>6, <2>1
  <2> QED BY <1>6, <2>1, <2>2, SeqEqual
<1>8. 1 \in DOMAIN q
  BY <1>1
<1> QED BY <1>2, <1>5, <1>7, <1>8, Zenon

\* A message is read: what it stands for has been made.
LEMMA OwesRead ==
    ASSUME WellRead, NEW s, SrcShape(s), s.tracks \in Table, StreamsTyped(s),
           NEW got \in Seq(Packets), NEW box \in Seq(Posts), box # <<>>, NEW ow, NEW ep,
           Owes(got, box, ow, ep, s),
           NEW e, e = Ingested(s, Head(box)), NEW ep2 \in SUBSET Int, ep \subseteq ep2,
           Delivers(Head(box)) => \E d \in ep2 : e.src.ts[2] = Head(box).real + d
    PROVE  e.packets \in Seq(Packets) /\ Owes(got \o e.packets, Tail(box), ow, ep2, e.src)
<1>1. PICK mine \in Seq(Meanings), segs \in Seq(Seq(Meanings)) :
         /\ ow = mine \o FlattenSeq(segs)
         /\ Len(segs) = Len(box) /\ \A k \in 1 .. Len(box) : Stands(box[k], segs[k])
         /\ Len(mine) = Len(got) /\ \A i \in 1 .. Len(got) : Right(got[i], mine[i], ep, s)
  BY DEF Owes
<1> DEFINE n == Len(box)
           x == Head(box)
           rest == Tail(box)
<1>2. /\ n \in Nat /\ n # 0 /\ Len(rest) = n - 1 /\ \A i \in 1 .. n - 1 : rest[i] = box[i + 1]
      /\ x \in Posts /\ x = box[1]
  BY HeadTailProperties, LenProperties, EmptySeq
<1>16. segs # <<>> /\ Head(segs) \in Seq(Meanings) /\ Tail(segs) \in Seq(Seq(Meanings))
  BY <1>1, <1>2, EmptySeq
<1>17. PICK seg \in Seq(Meanings), later \in Seq(Seq(Meanings)) :
          seg = Head(segs) /\ later = Tail(segs)
  BY <1>16
<1>3. /\ seg = segs[1]
      /\ Len(later) = n - 1 /\ \A i \in 1 .. n - 1 : later[i] = segs[i + 1]
  BY <1>1, <1>2, <1>16, <1>17, HeadTailProperties, LenProperties
<1>4. FlattenSeq(segs) = seg \o FlattenSeq(later) /\ FlattenSeq(later) \in Seq(Meanings)
  BY <1>16, <1>17, FlattenHead, FlattenAppend
<1>5. Stands(x, seg)
  <2>1. 1 \in 1 .. Len(box)
    BY <1>2
  <2> QED BY <1>1, <1>2, <1>3, <2>1
<1> HIDE DEF n, x, rest
<1>6. /\ x.kind \in Kinds \cup {"metadata", "other", "end"} /\ x.real \in Int
      /\ (Delivers(x) => Whole(x))
  BY <1>2, PostParts
<1>7. /\ Grows(s, e.src)
      /\ Delivers(x) => \A i \in 1 .. Len(x.tracks) :
            /\ Registered(e.src.tracks, TrackOf(x.tracks, i))
            /\ Housed(e.src, Index(e.src.tracks, TrackOf(x.tracks, i)), TrackOf(x.tracks, i))
  BY <1>2, IngestedGrows DEF x
<1>8. e.packets = IF Delivers(x)
                  THEN PacketsOf(e.src.tracks, x.tracks, e.src.ts[2], NanoOf(x)) ELSE <<>>
  BY <1>6, IngestedParts DEF x
<1>9. ow = (mine \o seg) \o FlattenSeq(later)
  <2>1. PICK f \in Seq(Meanings) : f = FlattenSeq(later)
    BY <1>4
  <2>2. (mine \o seg) \o f = mine \o (seg \o f)
    BY ConcatAssociative, SMTT(40)
  <2> QED BY <1>1, <1>4, <2>1, <2>2, Zenon
<1>10. \A k \in 1 .. n - 1 : Stands(rest[k], later[k])
  <2> TAKE k \in 1 .. n - 1
  <2>1. k + 1 \in 1 .. n
    BY <1>2
  <2> QED BY <1>1, <1>2, <1>3, <2>1 DEF n
<1>11. /\ e.packets \in Seq(Packets) /\ Len(e.packets) = Len(seg)
       /\ \A i \in 1 .. Len(seg) : Right(e.packets[i], seg[i], ep2, e.src)
  <2>1. CASE ~Delivers(x)
    <3>1. seg = <<>> /\ e.packets = <<>>
      BY <1>5, <1>8, <2>1 DEF Stands
    <3>2. <<>> \in Seq(Packets) /\ Len(<<>>) = 0 /\ 1 .. 0 = {}
      BY EmptySeq
    <3> QED BY <3>1, <3>2
  <2>2. CASE Delivers(x)
    <3>1. PICK d \in ep2 : e.src.ts[2] = x.real + d
      BY <2>2 DEF x
    <3> DEFINE ms == x.real + d
               ps == PacketsOf(e.src.tracks, x.tracks, ms, NanoOf(x))
    <3>2. ms \in Int /\ x.kind \in Kinds /\ e.src.tracks \in Table
      BY <1>6, <1>7, <2>2 DEF Delivers, Grows
    <3>3. /\ ps \in Seq(Packets) /\ Len(ps) = Len(x.tracks) /\ Len(ps) \in Nat
          /\ \A i \in 1 .. Len(ps) :
                /\ TrackOf(x.tracks, i) \in Tracks
                /\ ps[i].stream = Index(e.src.tracks, TrackOf(x.tracks, i))
                /\ \A w \in Meanings :
                      FitsAt(PacketOf(0, x.tracks[i].tag, 0, NanoOf(x)), w, 0)
                        => FitsAt(ps[i], w, ms * MsToNs)
      <4> HIDE DEF ms
      <4> QED BY <1>6, <1>7, <2>2, <3>2, PacketsGood
    <3>4. e.packets = ps
      BY <1>8, <2>2, <3>1
    <3> HIDE DEF ps
    <3>5. /\ Len(seg) = Len(x.tracks)
          /\ \A i \in 1 .. Len(seg) :
                /\ seg[i].time = x.real /\ seg[i].track = TrackOf(x.tracks, i)
                /\ FitsAt(PacketOf(0, x.tracks[i].tag, 0, NanoOf(x)), seg[i], 0)
      BY <1>5, <2>2 DEF Stands
    <3>6. ASSUME NEW i \in 1 .. Len(seg) PROVE Right(ps[i], seg[i], ep2, e.src)
      <4>1. seg[i] \in Meanings
        BY <1>3
      <4>2. FitsAt(ps[i], seg[i], (seg[i].time + d) * MsToNs)
        BY <3>3, <3>5, <4>1
      <4>3. Housed(e.src, ps[i].stream, seg[i].track)
        BY <1>7, <2>2, <3>3, <3>5
      <4> QED BY <4>2, <4>3 DEF Right
    <3> QED BY <3>3, <3>4, <3>5, <3>6
  <2> QED BY <2>1, <2>2
<1>12. PICK ps \in Seq(Packets) : ps = e.packets
  BY <1>11
<1>13. Len(mine \o seg) = Len(got \o ps) /\ mine \o seg \in Seq(Meanings) /\ got \o ps \in Seq(Packets)
  <2>1. Len(mine) = Len(got) /\ Len(ps) = Len(seg)
    BY <1>1, <1>11, <1>12
  <2>2. /\ mine \o seg \in Seq(Meanings) /\ Len(mine \o seg) = Len(mine) + Len(seg)
        /\ got \o ps \in Seq(Packets) /\ Len(got \o ps) = Len(got) + Len(ps)
    BY ConcatProperties
  <2> QED BY <2>1, <2>2, Zenon
<1>14. ASSUME NEW i \in 1 .. Len(got \o ps)
       PROVE  Right((got \o ps)[i], (mine \o seg)[i], ep2, e.src)
  <2>1. Len(got) \in Nat /\ Len(ps) \in Nat /\ Len(got \o ps) = Len(got) + Len(ps)
        /\ Len(mine) = Len(got) /\ Len(seg) = Len(ps)
    BY <1>1, <1>11, <1>12
  <2>2. CASE i <= Len(got)
    <3>1. i \in 1 .. Len(got) /\ (got \o ps)[i] = got[i] /\ (mine \o seg)[i] = mine[i]
      BY <1>3, <2>1, <2>2
    <3>2. Right(got[i], mine[i], ep, s)
      BY <1>1, <3>1
    <3> QED BY <1>7, <3>1, <3>2, StaysHoused DEF Right
  <2>3. CASE i > Len(got)
    <3>1. /\ i - Len(got) \in 1 .. Len(seg)
          /\ (got \o ps)[i] = ps[i - Len(got)] /\ (mine \o seg)[i] = seg[i - Len(got)]
      <4>1. i \in 1 .. Len(got) + Len(ps) /\ i \in 1 .. Len(mine) + Len(seg)
        BY <2>1
      <4>2. (got \o ps)[i] = IF i <= Len(got) THEN got[i] ELSE ps[i - Len(got)]
        BY <4>1, ConcatProperties
      <4>3. (mine \o seg)[i] = IF i <= Len(mine) THEN mine[i] ELSE seg[i - Len(mine)]
        BY <4>1, ConcatProperties
      <4>4. ~(i <= Len(got)) /\ ~(i <= Len(mine)) /\ i - Len(got) \in 1 .. Len(seg)
        BY <2>1, <2>3, <4>1
      <4> QED BY <2>1, <4>2, <4>3, <4>4, Zenon
    <3> QED BY <1>11, <1>12, <3>1
  <2> QED BY <2>1, <2>2, <2>3
<1>15. Owes(got \o ps, rest, ow, ep2, e.src)
  <2>1. PICK all \in Seq(Meanings) : all = mine \o seg
    BY <1>13
  <2>2. ow = all \o FlattenSeq(later) /\ Len(all) = Len(got \o ps)
        /\ \A i \in 1 .. Len(got \o ps) : Right((got \o ps)[i], all[i], ep2, e.src)
    BY <1>9, <1>13, <1>14, <2>1
  <2>3. Len(later) = Len(rest) /\ \A k \in 1 .. Len(rest) : Stands(rest[k], later[k])
    BY <1>2, <1>3, <1>10
  <2> QED BY <2>2, <2>3 DEF Owes
<1> QED BY <1>11, <1>12, <1>15 DEF rest

\* A packet is returned, and with it the first that is owed.
LEMMA OwesReturn ==
    ASSUME NEW got \in Seq(Packets), got # <<>>, NEW box \in Seq(Posts), NEW ow, NEW ep, NEW s,
           Owes(got, box, ow, ep, s)
    PROVE  /\ 1 \in DOMAIN ow /\ SubSeq(ow, 1, 1) = <<ow[1]>>
           /\ Right(Head(got), ow[1], ep, s)
           /\ Owes(Tail(got), box, From(ow, 2), ep, s)
<1>1. PICK mine \in Seq(Meanings), segs \in Seq(Seq(Meanings)) :
         /\ ow = mine \o FlattenSeq(segs)
         /\ Len(segs) = Len(box) /\ \A k \in 1 .. Len(box) : Stands(box[k], segs[k])
         /\ Len(mine) = Len(got) /\ \A i \in 1 .. Len(got) : Right(got[i], mine[i], ep, s)
  BY DEF Owes
<1> DEFINE n == Len(got)
           more == FlattenSeq(segs)
<1>2. more \in Seq(Meanings)
  BY FlattenAppend
<1>3. /\ n \in Nat /\ n # 0 /\ Len(Tail(got)) = n - 1
      /\ \A i \in 1 .. n - 1 : Tail(got)[i] = got[i + 1]
      /\ Head(got) = got[1]
  BY HeadTailProperties, LenProperties, EmptySeq
<1>4. /\ mine # <<>> /\ Tail(mine) \in Seq(Meanings) /\ Len(Tail(mine)) = n - 1
      /\ \A i \in 1 .. n - 1 : Tail(mine)[i] = mine[i + 1]
  BY <1>1, <1>3, HeadTailProperties, LenProperties, EmptySeq
<1> HIDE DEF n, more
<1>5. /\ ow \in Seq(Meanings) /\ Len(ow) >= 1 /\ ow[1] = mine[1] /\ Tail(ow) = Tail(mine) \o more
      /\ Len(ow) \in Nat
  BY <1>1, <1>2, <1>3, <1>4 DEF more, n
<1>6. From(ow, 2) = Tail(ow) /\ SubSeq(ow, 1, 1) = <<ow[1]>> /\ 1 \in DOMAIN ow
  <2>1. ow # <<>>
    BY <1>5
  <2> QED BY <1>5, <2>1, FromSecond
<1>7. Right(Head(got), ow[1], ep, s)
  <2>1. 1 \in 1 .. Len(got)
    BY <1>3 DEF n
  <2> QED BY <1>1, <1>3, <1>5, <2>1
<1>8. ASSUME NEW i \in 1 .. n - 1 PROVE Right(Tail(got)[i], Tail(mine)[i], ep, s)
  <2>1. i + 1 \in 1 .. n
    BY <1>3
  <2> QED BY <1>1, <1>3, <1>4, <2>1 DEF n
<1>9. Owes(Tail(got), box, From(ow, 2), ep, s)
  <2>1. PICK rest \in Seq(Packets), w \in Seq(Meanings) : rest = Tail(got) /\ w = Tail(mine)
    BY <1>4, HeadTailProperties
  <2>2. From(ow, 2) = w \o FlattenSeq(segs) /\ Len(w) = Len(rest)
        /\ \A i \in 1 .. Len(rest) : Right(rest[i], w[i], ep, s)
    BY <1>3, <1>4, <1>5, <1>6, <1>8, <2>1 DEF more
  <2>3. Owes(rest, box, From(ow, 2), ep, s)
    BY <1>1, <2>2 DEF Owes
  <2> QED BY <2>1, <2>3
<1> QED BY <1>6, <1>7, <1>9

-----------------------------------------------------------------------------
(* The inductive invariant. *)

Shaped ==
    /\ scene \in Scenes /\ now \in Int /\ left \in 0 .. scene.total /\ closed \in BOOLEAN
    /\ phase \in {"opening", "probing", "steady", "failed"}
    /\ SrcShape(src) /\ src.tracks \in Table /\ StreamsTyped(src)
    /\ probe.kinds \subseteq Kinds /\ probe.reads \in 0 .. ProbeLimit
    /\ inbox \in Seq(Posts) /\ buffered \in Seq(Packets) /\ pending \in Seq(Packets)
    /\ result.what \in {"none", "packet", "eof", "error"}

\* Nothing is pending while the source is opened, and the end is reported last.
Queued ==
    /\ phase \in {"opening", "probing"} => pending = <<>> /\ result.what = "none"
    /\ result.what = "eof" => phase = "steady" /\ src.ended /\ buffered = <<>> /\ pending = <<>>

\* The end is the last message, and nothing is left behind it.
EndsLast(box, shut) == \A i \in 1 .. Len(box) : box[i].kind = "end" => i = Len(box) /\ shut

Ending == EndsLast(inbox, closed) /\ (src.ended => inbox = <<>> /\ closed)

Clock == Clocked(inbox, src.ts, epoch, now, Slack(scene, left))

Owing == Owes(buffered \o pending, inbox, owed, epoch, src)

ReturnedIn(res, ep) ==
    res.what = "packet" =>
        res.meant # <<>>
        /\ \E e \in ep : FitsAt(res.packet[1], res.meant[1], (res.meant[1].time + e) * MsToNs)

Returned == ReturnedIn(result, epoch)

AtHome(hs, s) == \A h \in hs : h = <<h[1], h[2]>> /\ Housed(s, h[1], h[2])

Homes == AtHome(homes, src)

IInv == Shaped /\ Queued /\ Ending /\ Clock /\ Owing /\ Returned /\ Homes

LEMMA Begins == ASSUME ClockKept, Init PROVE IInv
<1>1. /\ scene \in Scenes /\ now = scene.start /\ left = scene.total /\ inbox = <<>>
      /\ src = [streams |-> {}, tracks |-> <<>>, metadata |-> <<>>, ts |-> <<>>, ended |-> FALSE]
      /\ owed = <<>> /\ epoch = {} /\ homes = {} /\ buffered = <<>> /\ pending = <<>>
      /\ phase = "opening" /\ closed = FALSE
      /\ probe = [kinds |-> {}, reads |-> 0]
      /\ result = [what |-> "none", packet |-> <<>>, meant |-> <<>>]
  BY DEF Init
<1>2. scene.start \in Int /\ scene.total \in Nat /\ ProbeLimit \in Nat \ {0} /\ TimeMod \in Nat \ {0}
  BY <1>1, SourceConstants
<1>3. /\ <<>> \in Seq(Posts) /\ <<>> \in Seq(Packets) /\ <<>> \in Seq(Kinds \X (1 .. 255))
      /\ <<>> \in Seq(Meanings) /\ <<>> \in Seq(Seq(Meanings)) /\ Len(<<>>) = 0 /\ 1 .. 0 = {}
  BY EmptySeq
<1>4. Shaped
  <2>1. src.tracks \in Table
    BY <1>1, <1>3 DEF Table
  <2>2. SrcShape(src) /\ StreamsTyped(src)
    BY <1>1 DEF SrcShape, StreamsTyped
  <2>3. left \in 0 .. scene.total /\ now \in Int
    BY <1>1, <1>2
  <2>4. probe.kinds \subseteq Kinds /\ probe.reads \in 0 .. ProbeLimit
    BY <1>1, <1>2
  <2> QED BY <1>1, <1>3, <2>1, <2>2, <2>3, <2>4 DEF Shaped
<1>5. Queued /\ Ending /\ Returned /\ Homes
  BY <1>1, <1>3 DEF Queued, Ending, EndsLast, Returned, ReturnedIn, Homes, AtHome
<1>6. Clock
  <2> DEFINE last == [i \in 0 .. Len(inbox) |-> now]
             slack == Slack(scene, left)
  <2>1. last \in [0 .. Len(inbox) -> Int] /\ last[0] = now /\ Len(inbox) = 0
    BY <1>1, <1>2, <1>3
  <2>2. slack \in Nat
    <3>1. Quiet(scene) \/ Reach(scene) \in Nat
      BY <1>1, ReachParts
    <3>2. scene.total - left = 0
      BY <1>1, <1>2
    <3>3. Reach(scene) \in Nat => 0 * Reach(scene) = 0
      OBVIOUS
    <3> QED BY <3>1, <3>2, <3>3 DEF Slack
  <2>3. TimeMod * 0 = 0
    BY <1>2
  <2> HIDE DEF last, slack
  <2>4. Within(now - last[Len(inbox)], slack)
    BY <1>1, <1>2, <2>1, <2>2 DEF Within
  <2>5. Chain(inbox, last, 0, src.ts, epoch, now, slack)
    <3>1. \E k \in Int : 0 = TimeMod * k
      BY <2>3
    <3>2. src.ts = <<>> /\ epoch = {}
      BY <1>1
    <3>3. \A i \in 1 .. Len(inbox) : FALSE
      BY <2>1
    <3> QED BY <2>4, <3>1, <3>2, <3>3 DEF Chain
  <2> QED BY <2>1, <2>5 DEF Clock, Clocked, slack
<1>7. Owing
  <2>1. PICK none \in Seq(Seq(Meanings)), m \in Seq(Meanings) : none = <<>> /\ m = <<>>
    BY <1>3
  <2>2. FlattenSeq(none) = <<>>
    BY <2>1, FlattenAppend
  <2>3. PICK b \in Seq(Packets) : b = <<>>
    BY <1>3
  <2>4. b \o b = b /\ m \o m = m
    BY <2>1, <2>3, ConcatEmptySeq
  <2>5. /\ owed = m \o FlattenSeq(none) /\ Len(none) = Len(inbox)
        /\ Len(m) = Len(buffered \o pending) /\ Len(inbox) = 0 /\ Len(buffered \o pending) = 0
    BY <1>1, <1>3, <2>1, <2>2, <2>3, <2>4
  <2> QED BY <1>3, <2>5 DEF Owing, Owes
<1> QED BY <1>4, <1>5, <1>6, <1>7 DEF IInv

\* What the next read makes of the source.
Reading == Ingested(src, Head(inbox))
ReadEpoch == Epoch(Head(inbox), Reading.src)

LEMMA AfterRead ==
    ASSUME WellRead, IInv, inbox # <<>>
    PROVE  /\ Tail(inbox) \in Seq(Posts) /\ Head(inbox) \in Posts
           /\ SrcShape(Reading.src) /\ Reading.src.tracks \in Table /\ StreamsTyped(Reading.src)
           /\ Grows(src, Reading.src) /\ Reading.packets \in Seq(Packets)
           /\ epoch \subseteq ReadEpoch
           /\ Clocked(Tail(inbox), Reading.src.ts, ReadEpoch, now, Slack(scene, left))
           /\ Owes((buffered \o pending) \o Reading.packets, Tail(inbox), owed, ReadEpoch, Reading.src)
           /\ ReturnedIn(result, ReadEpoch) /\ AtHome(homes, Reading.src)
           /\ EndsLast(Tail(inbox), closed)
           /\ Reading.src.ended => Tail(inbox) = <<>> /\ closed /\ Reading.packets = <<>>
           /\ result.what # "eof"
<1> DEFINE x == Head(inbox)
<1>1. /\ inbox \in Seq(Posts) /\ SrcShape(src) /\ src.tracks \in Table /\ StreamsTyped(src)
      /\ buffered \in Seq(Packets) /\ pending \in Seq(Packets)
  BY DEF IInv, Shaped
<1>2. /\ x \in Posts /\ x = inbox[1] /\ Tail(inbox) \in Seq(Posts)
      /\ Len(Tail(inbox)) = Len(inbox) - 1 /\ Len(inbox) \in Nat /\ Len(inbox) # 0
      /\ \A i \in 1 .. Len(inbox) - 1 : Tail(inbox)[i] = inbox[i + 1]
  BY <1>1, HeadTailProperties, LenProperties, EmptySeq
<1>3. x.kind \in Kinds \cup {"metadata", "other", "end"}
  BY <1>2, PostParts
<1>4. /\ SrcShape(Reading.src)
      /\ Reading.src.ts = IF Moves(x) THEN Unwrapped(src.ts, x.time) ELSE src.ts
      /\ Reading.src.ended <=> src.ended \/ x.kind = "end"
      /\ Reading.packets = IF Delivers(x)
                     THEN PacketsOf(Reading.src.tracks, x.tracks, Reading.src.ts[2], NanoOf(x)) ELSE <<>>
  BY <1>1, <1>3, IngestedParts DEF Reading
<1>5. Grows(src, Reading.src) /\ StreamsTyped(Reading.src)
  BY <1>1, <1>2, IngestedGrows DEF Reading
<1>6. /\ Clocked(Tail(inbox), Reading.src.ts, ReadEpoch, now, Slack(scene, left))
      /\ epoch \subseteq ReadEpoch /\ ReadEpoch \in SUBSET Int
      /\ Moves(x) => \E d \in ReadEpoch : Reading.src.ts[2] = x.real + d
  <2>1. Clocked(inbox, src.ts, epoch, now, Slack(scene, left))
    BY DEF IInv, Clock
  <2>2. ReadEpoch = IF epoch = {} /\ Reading.src.ts # <<>> THEN {Reading.src.ts[2] - x.real} ELSE epoch
    BY DEF ReadEpoch, Epoch
  <2>3. PICK box, ts2, ep2, ts, ep, time, slack :
           /\ box = inbox /\ ts2 = Reading.src.ts /\ ep2 = ReadEpoch /\ ts = src.ts /\ ep = epoch
           /\ time = now /\ slack = Slack(scene, left)
    BY <1>1
  <2>4. /\ box \in Seq(Posts) /\ box # <<>> /\ Clocked(box, ts, ep, time, slack)
        /\ ts2 = IF Moves(Head(box)) THEN Unwrapped(ts, Head(box).time) ELSE ts
        /\ ep2 = IF ep = {} /\ ts2 # <<>> THEN {ts2[2] - Head(box).real} ELSE ep
    BY <1>1, <1>4, <2>1, <2>2, <2>3, Zenon
  <2>5. /\ Clocked(Tail(box), ts2, ep2, time, slack)
        /\ ep \subseteq ep2 /\ ep2 \in SUBSET Int
        /\ Moves(Head(box)) => \E d \in ep2 : ts2[2] = Head(box).real + d
    BY <2>4, ClockRead, SMTT(60)
  <2> QED BY <2>3, <2>5, Zenon
<1>7. /\ Reading.packets \in Seq(Packets)
      /\ Owes((buffered \o pending) \o Reading.packets, Tail(inbox), owed, ReadEpoch, Reading.src)
  <2>1. Delivers(x) => \E d \in ReadEpoch : Reading.src.ts[2] = x.real + d
    BY <1>6 DEF Delivers, Moves
  <2>2. PICK got \in Seq(Packets) : got = buffered \o pending
    BY <1>1, ConcatProperties
  <2>3. Owes(got, inbox, owed, epoch, src)
    BY <2>2 DEF IInv, Owing
  <2>4. Reading.packets \in Seq(Packets) /\ Owes(got \o Reading.packets, Tail(inbox), owed, ReadEpoch, Reading.src)
    BY <1>1, <1>6, <2>1, <2>3, OwesRead DEF Reading
  <2> QED BY <2>2, <2>4
<1>8. ReturnedIn(result, ReadEpoch)
  BY <1>6 DEF IInv, Returned, ReturnedIn
<1>9. AtHome(homes, Reading.src)
  <2>1. ASSUME NEW h \in homes PROVE h = <<h[1], h[2]>> /\ Housed(Reading.src, h[1], h[2])
    <3>1. h = <<h[1], h[2]>> /\ Housed(src, h[1], h[2])
      BY DEF IInv, Homes, AtHome
    <3> QED BY <1>5, <3>1, StaysHoused
  <2> QED BY <2>1 DEF AtHome
<1>10. EndsLast(Tail(inbox), closed)
  <2>1. \A i \in 1 .. Len(inbox) : inbox[i].kind = "end" => i = Len(inbox) /\ closed
    BY DEF IInv, Ending, EndsLast
  <2>2. ASSUME NEW i \in 1 .. Len(Tail(inbox)), Tail(inbox)[i].kind = "end"
        PROVE  i = Len(Tail(inbox)) /\ closed
    <3>1. i + 1 \in 1 .. Len(inbox) /\ i \in 1 .. Len(inbox) - 1
      BY <1>2
    <3>2. Tail(inbox)[i] = inbox[i + 1]
      BY <1>2, <3>1
    <3>3. i + 1 = Len(inbox) /\ closed
      BY <2>1, <2>2, <3>1, <3>2
    <3>4. i = Len(inbox) - 1
      <4>1. \A n, k \in Int : k + 1 = n => k = n - 1
        OBVIOUS
      <4>2. Len(inbox) \in Int /\ i \in Int
        BY <1>2, <3>1
      <4> QED BY <3>1, <3>3, <4>1, <4>2, Zenon
    <3> QED BY <1>2, <3>3, <3>4, Zenon
  <2> QED BY <2>2 DEF EndsLast
<1>11. Reading.src.ended => Tail(inbox) = <<>> /\ closed /\ Reading.packets = <<>>
  <2> SUFFICES ASSUME Reading.src.ended PROVE Tail(inbox) = <<>> /\ closed /\ Reading.packets = <<>>
    OBVIOUS
  <2>1. ~src.ended
    BY DEF IInv, Ending
  <2>2. x.kind = "end" /\ ~Delivers(x)
    BY <1>4, <2>1 DEF Delivers, Kinds
  <2>3. 1 = Len(inbox) /\ closed
    <3>1. 1 \in 1 .. Len(inbox)
      BY <1>2
    <3> QED BY <1>2, <2>2, <3>1 DEF IInv, Ending, EndsLast
  <2>4. Tail(inbox) = <<>>
    <3>1. PICK t \in Seq(Posts) : t = Tail(inbox)
      BY <1>2
    <3>2. Len(t) = 0
      BY <1>2, <2>3, <3>1
    <3> QED BY <3>1, <3>2, EmptySeq
  <2> QED BY <1>4, <2>2, <2>3, <2>4
<1>12. result.what # "eof"
  BY DEF IInv, Queued, Ending
<1> QED BY <1>2, <1>4, <1>5, <1>6, <1>7, <1>8, <1>9, <1>10, <1>11, <1>12 DEF Grows

\* Returning the first packet that is owed.
LEMMA AfterReturn ==
    ASSUME NEW got \in Seq(Packets), got # <<>>, NEW box \in Seq(Posts), NEW ep, NEW s,
           Owes(got, box, owed, ep, s), AtHome(homes, s), Returns(Head(got))
    PROVE  /\ Owes(Tail(got), box, owed', ep, s)
           /\ ReturnedIn(result', ep) /\ result'.what = "packet"
           /\ AtHome(homes', s)
<1> DEFINE p == Head(got)
<1>1. /\ 1 \in DOMAIN owed /\ SubSeq(owed, 1, 1) = <<owed[1]>>
      /\ Right(p, owed[1], ep, s)
      /\ Owes(Tail(got), box, From(owed, 2), ep, s)
  BY OwesReturn
<1> HIDE DEF p
<1>2. /\ result' = [what |-> "packet", packet |-> <<p>>, meant |-> SubSeq(owed, 1, 1)]
      /\ owed' = From(owed, 2)
      /\ homes' = homes \cup {<<p.stream, owed[i].track>> : i \in DOMAIN owed \cap {1}}
  BY DEF Returns, Result, p
<1>3. ReturnedIn(result', ep) /\ result'.what = "packet"
  <2>1. \A w : <<w>> # <<>> /\ <<w>>[1] = w
    OBVIOUS
  <2>2. result'.what = "packet" /\ result'.packet[1] = p /\ result'.meant = <<owed[1]>>
    BY <1>1, <1>2, <2>1
  <2>3. result'.meant # <<>> /\ result'.meant[1] = owed[1]
    BY <2>1, <2>2
  <2>4. \E e \in ep : FitsAt(p, owed[1], (owed[1].time + e) * MsToNs)
    BY <1>1 DEF Right
  <2> QED BY <2>2, <2>3, <2>4 DEF ReturnedIn
<1>4. AtHome(homes', s)
  <2> SUFFICES ASSUME NEW h \in homes' PROVE h = <<h[1], h[2]>> /\ Housed(s, h[1], h[2])
    BY DEF AtHome
  <2>1. CASE h \in homes
    BY <2>1 DEF AtHome
  <2>2. CASE h = <<p.stream, owed[1].track>>
    <3>1. \A a, b : <<a, b>>[1] = a /\ <<a, b>>[2] = b
      OBVIOUS
    <3>2. Housed(s, p.stream, owed[1].track)
      BY <1>1 DEF Right
    <3> QED BY <2>2, <3>1, <3>2
  <2>3. h \in homes \/ h = <<p.stream, owed[1].track>>
    BY <1>2
  <2> QED BY <2>1, <2>2, <2>3
<1> QED BY <1>1, <1>2, <1>3, <1>4

LEMMA StepSend ==
    ASSUME WellRead, ReadAsMeant, ClockKept, IInv,
           NEW m \in Traffic[scene.menu], NEW d \in scene.steps, Send(m, d)
    PROVE  IInv'
<1> DEFINE x == Post(m, now + d)
           seg == [i \in DOMAIN m.meant |-> [m.meant[i] EXCEPT !.time = now + d]]
<1>1. /\ scene \in Scenes /\ now \in Int /\ left \in 1 .. scene.total /\ left - 1 \in 0 .. scene.total
      /\ inbox \in Seq(Posts) /\ scene.total \in Nat /\ d \in Int /\ now + d \in Int
      /\ m.kind \in Kinds \cup {"metadata", "other"}
      /\ (m.kind \notin Kinds => d = 0) /\ ~closed
      /\ phase \in {"probing", "steady"}
  <2>1. /\ scene \in Scenes /\ now \in Int /\ left \in 0 .. scene.total /\ inbox \in Seq(Posts)
        /\ left > 0 /\ (m.kind \notin Kinds => d = 0) /\ ~closed /\ phase \in {"probing", "steady"}
    BY DEF IInv, Shaped, Send
  <2>2. scene.total \in Nat /\ d \in Int
    BY <2>1, SourceConstants
  <2>3. m.kind \in Kinds \cup {"metadata", "other"}
    BY <2>1 DEF WellRead
  <2>4. left \in 1 .. scene.total /\ left - 1 \in 0 .. scene.total /\ now + d \in Int
    BY <2>1, <2>2
  <2> QED BY <2>1, <2>2, <2>3, <2>4
<1>2. /\ left' = left - 1 /\ now' = now + d /\ inbox' = Append(inbox, x) /\ owed' = owed \o seg
      /\ scene' = scene /\ closed' = closed /\ epoch' = epoch /\ homes' = homes
      /\ phase' = phase /\ src' = src /\ probe' = probe /\ buffered' = buffered
      /\ pending' = pending /\ result' = result
  BY DEF Send, source, Post
<1>3. x \in Posts /\ x.kind = m.kind
  BY <1>1, InTraffic, PostFields DEF Posts
<1> HIDE DEF x
<1>4. Shaped'
  BY <1>1, <1>2, <1>3, AppendProperties DEF IInv, Shaped, SrcShape, StreamsTyped
<1>5. Queued' /\ Returned' /\ Homes'
  BY <1>2 DEF IInv, Queued, Returned, Homes, ReturnedIn, AtHome
<1>6. Ending'
  <2>1. /\ Len(inbox) \in Nat /\ Len(Append(inbox, x)) = Len(inbox) + 1
        /\ \A i \in 1 .. Len(inbox) : Append(inbox, x)[i] = inbox[i]
        /\ Append(inbox, x)[Len(inbox) + 1] = x
    BY <1>1, <1>3, AppendProperties, LenProperties
  <2>2. \A i \in 1 .. Len(inbox) : inbox[i].kind # "end"
    BY <1>1 DEF IInv, Ending, EndsLast
  <2>3. x.kind # "end"
    BY <1>1, <1>3 DEF Kinds
  <2>4. EndsLast(Append(inbox, x), closed)
    <3> SUFFICES ASSUME NEW i \in 1 .. Len(inbox) + 1 PROVE Append(inbox, x)[i].kind # "end"
      BY <2>1 DEF EndsLast
    <3>1. i \in 1 .. Len(inbox) \/ i = Len(inbox) + 1
      BY <2>1
    <3> QED BY <2>1, <2>2, <2>3, <3>1
  <2>5. ~src.ended
    BY <1>1 DEF IInv, Ending
  <2> QED BY <1>2, <2>4, <2>5 DEF Ending
<1>7. Clock'
  <2>1. Clocked(Append(inbox, x), src.ts, epoch, now + d, Slack(scene, left - 1))
    BY <1>1, ClockSent DEF IInv, Clock, x
  <2> QED BY <1>2, <2>1 DEF Clock
<1>8. Owing'
  <2>1. seg \in Seq(Meanings) /\ Stands(x, seg)
    BY <1>1, MeantStands DEF x
  <2> HIDE DEF seg
  <2>2. Owes(buffered \o pending, Append(inbox, x), owed \o seg, epoch, src)
    BY <1>1, <1>3, <2>1, OwesSent DEF IInv, Owing
  <2> QED BY <1>2, <2>2 DEF Owing
<1> QED BY <1>4, <1>5, <1>6, <1>7, <1>8 DEF IInv

LEMMA StepSendEnd ==
    ASSUME IInv, SendEnd PROVE IInv'
<1>1. inbox \in Seq(Posts) /\ End \in Posts /\ ~closed
  BY DEF IInv, Shaped, SendEnd, Posts
<1>2. /\ inbox' = Append(inbox, End) /\ closed' = TRUE
      /\ scene' = scene /\ now' = now /\ left' = left /\ owed' = owed /\ epoch' = epoch
      /\ homes' = homes
      /\ phase' = phase /\ src' = src /\ probe' = probe /\ buffered' = buffered
      /\ pending' = pending /\ result' = result
  BY DEF SendEnd, source
<1>3. Shaped'
  BY <1>1, <1>2, AppendProperties DEF IInv, Shaped, SrcShape, StreamsTyped
<1>4. Queued' /\ Returned' /\ Homes'
  BY <1>2 DEF IInv, Queued, Returned, Homes, ReturnedIn, AtHome
<1>5. Ending'
  <2>1. /\ Len(inbox) \in Nat /\ Len(Append(inbox, End)) = Len(inbox) + 1
        /\ \A i \in 1 .. Len(inbox) : Append(inbox, End)[i] = inbox[i]
    BY <1>1, AppendProperties, LenProperties
  <2>2. \A i \in 1 .. Len(inbox) : inbox[i].kind # "end"
    BY <1>1 DEF IInv, Ending, EndsLast
  <2>3. EndsLast(Append(inbox, End), TRUE)
    <3> SUFFICES ASSUME NEW i \in 1 .. Len(inbox) + 1, Append(inbox, End)[i].kind = "end"
                 PROVE  i = Len(inbox) + 1
      BY <2>1 DEF EndsLast
    <3>1. i \in 1 .. Len(inbox) \/ i = Len(inbox) + 1
      BY <2>1
    <3> QED BY <2>1, <2>2, <3>1
  <2>4. ~src.ended
    BY <1>1 DEF IInv, Ending
  <2> QED BY <1>2, <2>3, <2>4 DEF Ending
<1>6. Clock'
  <2>1. Clocked(Append(inbox, End), src.ts, epoch, now, Slack(scene, left))
    BY <1>1, ClockEnds DEF IInv, Clock
  <2> QED BY <1>2, <2>1 DEF Clock
<1>7. Owing'
  <2>1. PICK none \in Seq(Meanings) : none = <<>>
    BY EmptySeq
  <2>2. Stands(End, none)
    BY <2>1, EndFields DEF Stands
  <2>3. Owes(buffered \o pending, Append(inbox, End), owed \o none, epoch, src)
    BY <1>1, <2>2, OwesSent DEF IInv, Owing
  <2>4. owed \o none = owed
    <3>1. owed \in Seq(Meanings)
      BY ConcatProperties, FlattenAppend, <2>1 DEF IInv, Owing, Owes
    <3> QED BY <2>1, <3>1, ConcatEmptySeq
  <2> QED BY <1>2, <2>3, <2>4 DEF Owing
<1> QED BY <1>3, <1>4, <1>5, <1>6, <1>7 DEF IInv

LEMMA StepIdle ==
    ASSUME IInv, Open \/ ProbeTimeout \/ ProbeEnds
    PROVE  IInv'
<1>1. /\ src' = src /\ probe' = probe /\ buffered' = buffered /\ pending' = pending
      /\ result' = result /\ scene' = scene /\ inbox' = inbox /\ now' = now /\ closed' = closed
      /\ left' = left /\ owed' = owed /\ epoch' = epoch /\ homes' = homes
  BY DEF Open, ProbeTimeout, ProbeEnds, publisher
<1>2. phase \in {"opening", "probing"} /\ phase' \in {"probing", "steady", "failed"}
  <2>1. Open => phase = "opening" /\ phase' \in {"probing", "steady", "failed"}
    <3> SUFFICES ASSUME Open PROVE phase = "opening" /\ phase' \in {"probing", "steady", "failed"}
      OBVIOUS
    <3>1. scene \in Scenes
      BY DEF IInv, Shaped
    <3>2. scene.opener \in {"bare", "probe", "listen", "dial"}
      BY <3>1, SourceConstants
    <3> QED BY <3>2 DEF Open
  <2> QED BY <2>1 DEF ProbeTimeout, ProbeEnds
<1>3. Shaped' /\ Queued'
  BY <1>1, <1>2 DEF IInv, Shaped, Queued, SrcShape, StreamsTyped
<1>4. Ending' /\ Clock' /\ Owing' /\ Returned' /\ Homes'
  BY <1>1 DEF IInv, Ending, Clock, Owing, Returned, Homes
<1> QED BY <1>3, <1>4 DEF IInv

LEMMA StepProbeRead ==
    ASSUME WellRead, IInv, ProbeRead
    PROVE  IInv'
<1>1. /\ phase = "probing" /\ ~ProbeDone /\ inbox # <<>> /\ inbox' = Tail(inbox)
      /\ phase' \in {"probing", "failed"} /\ src' = Reading.src
      /\ buffered' = buffered \o Reading.packets
      /\ probe'.kinds = probe.kinds \cup ({Head(inbox).kind} \cap Kinds)
      /\ probe'.reads = probe.reads + 1
      /\ epoch' = ReadEpoch
      /\ scene' = scene /\ pending' = pending /\ result' = result /\ now' = now
      /\ closed' = closed /\ left' = left /\ owed' = owed /\ homes' = homes
  BY DEF ProbeRead, Reading, ReadEpoch
<1>2. pending = <<>> /\ result.what = "none"
  BY <1>1 DEF IInv, Queued
<1>3. probe.reads \in 0 .. ProbeLimit /\ probe.reads # ProbeLimit /\ ProbeLimit \in Nat
  BY <1>1, SourceConstants DEF IInv, Shaped, ProbeDone
<1>4. /\ buffered \in Seq(Packets) /\ pending \in Seq(Packets) /\ Reading.packets \in Seq(Packets)
  BY <1>1, AfterRead DEF IInv, Shaped
<1>5. Shaped'
  <2>1. probe.reads + 1 \in 0 .. ProbeLimit
    BY <1>3
  <2>2. probe'.kinds \subseteq Kinds
    BY <1>1 DEF IInv, Shaped
  <2>3. buffered' \in Seq(Packets)
    BY <1>1, <1>4, ConcatProperties
  <2>4. /\ inbox' \in Seq(Posts) /\ SrcShape(src') /\ src'.tracks \in Table /\ StreamsTyped(src')
    BY <1>1, AfterRead
  <2> QED BY <1>1, <2>1, <2>2, <2>3, <2>4 DEF IInv, Shaped
<1>6. Queued'
  BY <1>1, <1>2 DEF Queued
<1>7. Ending' /\ Clock' /\ Returned' /\ Homes'
  BY <1>1, AfterRead DEF Ending, Clock, Returned, Homes
<1>8. Owing'
  <2>1. PICK b \in Seq(Packets), ps \in Seq(Packets) : b = buffered /\ ps = Reading.packets
    BY <1>4
  <2>2. (b \o <<>>) \o ps = (b \o ps) \o <<>>
    <3>1. b \o <<>> = b
      BY ConcatEmptySeq
    <3>2. b \o ps \in Seq(Packets)
      BY ConcatProperties
    <3>3. (b \o ps) \o <<>> = b \o ps
      BY <3>2, ConcatEmptySeq
    <3> QED BY <3>1, <3>3
  <2>3. Owes((buffered \o pending) \o Reading.packets, Tail(inbox), owed, ReadEpoch, Reading.src)
    BY <1>1, AfterRead
  <2> QED BY <1>1, <1>2, <2>1, <2>2, <2>3 DEF Owing
<1> QED BY <1>5, <1>6, <1>7, <1>8 DEF IInv

LEMMA StepNextBuffered ==
    ASSUME IInv, NextBuffered
    PROVE  IInv'
<1>1. /\ phase = "steady" /\ buffered # <<>> /\ buffered' = Tail(buffered) /\ Returns(Head(buffered))
      /\ scene' = scene /\ phase' = phase /\ src' = src /\ probe' = probe /\ pending' = pending
      /\ inbox' = inbox /\ now' = now /\ closed' = closed /\ left' = left /\ epoch' = epoch
  BY DEF NextBuffered, publisher
<1>2. inbox \in Seq(Posts) /\ buffered \in Seq(Packets) /\ pending \in Seq(Packets)
  BY DEF IInv, Shaped
<1>3. PICK b \in Seq(Packets), q \in Seq(Packets) : b = buffered /\ q = pending
  BY <1>2
<1>4. /\ b # <<>> /\ Tail(b) \in Seq(Packets)
      /\ b \o q \in Seq(Packets) /\ b \o q # <<>>
      /\ Head(b \o q) = Head(b) /\ Tail(b \o q) = Tail(b) \o q
  <2>1. b # <<>> /\ Len(b) \in Nat /\ Len(b) >= 1 /\ Len(q) \in Nat
    BY <1>1, <1>3, EmptySeq, LenProperties
  <2>2. b \o q \in Seq(Packets) /\ Len(b \o q) = Len(b) + Len(q)
    BY ConcatProperties
  <2>3. b \o q # <<>>
    BY <2>1, <2>2
  <2>4. Tail(b) \in Seq(Packets)
    BY <2>1, HeadTailProperties
  <2>5. Head(b \o q) = Head(b) /\ Tail(b \o q) = Tail(b) \o q
    BY <2>1
  <2> QED BY <2>1, <2>2, <2>3, <2>4, <2>5
<1>5. /\ Owes(Tail(b) \o q, inbox, owed', epoch, src)
      /\ ReturnedIn(result', epoch) /\ result'.what = "packet" /\ AtHome(homes', src)
  <2>1. Owes(b \o q, inbox, owed, epoch, src) /\ AtHome(homes, src)
    BY <1>3 DEF IInv, Owing, Homes
  <2>2. Returns(Head(b \o q))
    BY <1>1, <1>3, <1>4
  <2>3. PICK got \in Seq(Packets) : got = b \o q
    BY <1>4
  <2>4. got # <<>> /\ Owes(got, inbox, owed, epoch, src) /\ Returns(Head(got))
    BY <1>4, <2>1, <2>2, <2>3, Zenon
  <2>5. /\ Owes(Tail(got), inbox, owed', epoch, src)
        /\ ReturnedIn(result', epoch) /\ result'.what = "packet" /\ AtHome(homes', src)
    BY <1>2, <2>1, <2>4, AfterReturn
  <2> QED BY <1>4, <2>3, <2>5, Zenon
<1>6. Shaped'
  BY <1>1, <1>3, <1>4, <1>5 DEF IInv, Shaped, SrcShape, StreamsTyped
<1>7. Queued' /\ Ending' /\ Clock'
  BY <1>1, <1>5 DEF IInv, Queued, Ending, Clock
<1>8. Owing' /\ Returned' /\ Homes'
  BY <1>1, <1>3, <1>5 DEF Owing, Returned, Homes
<1> QED BY <1>6, <1>7, <1>8 DEF IInv

LEMMA StepNextPending ==
    ASSUME IInv, NextPending
    PROVE  IInv'
<1>1. /\ phase = "steady" /\ buffered = <<>> /\ pending # <<>>
      /\ pending' = Tail(pending) /\ Returns(Head(pending))
      /\ scene' = scene /\ phase' = phase /\ src' = src /\ probe' = probe /\ buffered' = buffered
      /\ inbox' = inbox /\ now' = now /\ closed' = closed /\ left' = left /\ epoch' = epoch
  BY DEF NextPending, publisher
<1>2. inbox \in Seq(Posts) /\ pending \in Seq(Packets)
  BY DEF IInv, Shaped
<1>3. PICK q \in Seq(Packets) : q = pending
  BY <1>2
<1>4. /\ q # <<>> /\ Tail(q) \in Seq(Packets) /\ <<>> \o q = q /\ <<>> \o Tail(q) = Tail(q)
  BY <1>1, <1>3, HeadTailProperties, ConcatEmptySeq
<1>5. /\ Owes(Tail(q), inbox, owed', epoch, src)
      /\ ReturnedIn(result', epoch) /\ result'.what = "packet" /\ AtHome(homes', src)
  <2>1. Owes(q, inbox, owed, epoch, src) /\ AtHome(homes, src)
    BY <1>1, <1>3, <1>4 DEF IInv, Owing, Homes
  <2> QED BY <1>1, <1>2, <1>3, <1>4, <2>1, AfterReturn
<1>6. Shaped'
  BY <1>1, <1>3, <1>4, <1>5 DEF IInv, Shaped, SrcShape, StreamsTyped
<1>7. Queued' /\ Ending' /\ Clock'
  BY <1>1, <1>5 DEF IInv, Queued, Ending, Clock
<1>8. Owing' /\ Returned' /\ Homes'
  BY <1>1, <1>3, <1>4, <1>5 DEF Owing, Returned, Homes
<1> QED BY <1>6, <1>7, <1>8 DEF IInv

LEMMA StepNextEof ==
    ASSUME IInv, NextEof
    PROVE  IInv'
<1>1. /\ phase = "steady" /\ buffered = <<>> /\ pending = <<>> /\ src.ended
      /\ result' = [what |-> "eof", packet |-> <<>>, meant |-> <<>>]
      /\ src' = src /\ probe' = probe /\ buffered' = buffered /\ pending' = pending
      /\ scene' = scene /\ inbox' = inbox /\ now' = now /\ closed' = closed
      /\ left' = left /\ owed' = owed /\ epoch' = epoch /\ homes' = homes /\ phase' = phase
  BY DEF NextEof, publisher, Result
<1>2. Shaped' /\ Queued' /\ Returned'
  BY <1>1 DEF IInv, Shaped, Queued, Returned, ReturnedIn, SrcShape, StreamsTyped
<1>3. Ending' /\ Clock' /\ Owing' /\ Homes'
  BY <1>1 DEF IInv, Ending, Clock, Owing, Homes
<1> QED BY <1>2, <1>3 DEF IInv

LEMMA StepSteadyRead ==
    ASSUME WellRead, IInv, SteadyRead
    PROVE  IInv'
<1>1. /\ phase = "steady" /\ buffered = <<>> /\ pending = <<>> /\ ~src.ended
      /\ inbox # <<>> /\ inbox' = Tail(inbox) /\ src' = Reading.src /\ epoch' = ReadEpoch
      /\ pending' = From(Reading.packets, 2)
      /\ scene' = scene /\ phase' = phase /\ probe' = probe /\ buffered' = buffered
      /\ now' = now /\ closed' = closed /\ left' = left
  BY DEF SteadyRead, Reading, ReadEpoch
<1>2. IF Reading.packets # <<>> THEN Returns(Head(Reading.packets))
      ELSE /\ \/ result' = result
              \/ result' = [what |-> "error", packet |-> <<>>, meant |-> <<>>]
              \/ Reading.src.ended /\ result' = [what |-> "eof", packet |-> <<>>, meant |-> <<>>]
           /\ owed' = owed /\ homes' = homes
  BY DEF SteadyRead, Reading, Result
<1>3. /\ Tail(inbox) \in Seq(Posts)
      /\ SrcShape(Reading.src) /\ Reading.src.tracks \in Table /\ StreamsTyped(Reading.src)
      /\ Reading.packets \in Seq(Packets)
      /\ Clocked(Tail(inbox), Reading.src.ts, ReadEpoch, now, Slack(scene, left))
      /\ ReturnedIn(result, ReadEpoch) /\ AtHome(homes, Reading.src)
      /\ EndsLast(Tail(inbox), closed)
      /\ Reading.src.ended => Tail(inbox) = <<>> /\ closed /\ Reading.packets = <<>>
      /\ result.what # "eof"
  BY <1>1, AfterRead
<1>4. PICK got \in Seq(Packets), box \in Seq(Posts), none \in Seq(Packets) :
         got = Reading.packets /\ box = Tail(inbox) /\ none = <<>>
  <2>1. <<>> \in Seq(Packets)
    BY EmptySeq
  <2> QED BY <1>3, <2>1
<1>5. \A q \in Seq(Packets) : none \o q = q
  BY <1>4, ConcatEmptySeq
<1>6. Owes(got, box, owed, ReadEpoch, Reading.src)
  <2>1. Owes((buffered \o pending) \o Reading.packets, Tail(inbox), owed, ReadEpoch, Reading.src)
    BY <1>1, AfterRead
  <2>2. Owes((none \o none) \o got, box, owed, ReadEpoch, Reading.src)
    BY <1>1, <1>4, <2>1
  <2> QED BY <1>4, <1>5, <2>2
<1>7. Ending' /\ Clock'
  BY <1>1, <1>3 DEF Ending, Clock
<1>8. CASE got # <<>>
  <2>1. pending' = Tail(got) /\ Tail(got) \in Seq(Packets)
    BY <1>1, <1>4, <1>8, FromSecond, HeadTailProperties
  <2>2. Returns(Head(got)) /\ AtHome(homes, Reading.src)
    BY <1>2, <1>3, <1>4, <1>8
  <2>3. /\ Owes(Tail(got), box, owed', ReadEpoch, Reading.src)
        /\ ReturnedIn(result', ReadEpoch) /\ result'.what = "packet" /\ AtHome(homes', Reading.src)
    BY <1>6, <1>8, <2>2, AfterReturn
  <2>4. ~Reading.src.ended
    BY <1>3, <1>4, <1>8
  <2>5. Shaped'
    BY <1>1, <1>3, <2>1, <2>3 DEF IInv, Shaped
  <2>6. Queued'
    BY <1>1, <2>3 DEF Queued
  <2>7. Owing'
    <3>1. buffered' \o pending' = Tail(got)
      BY <1>1, <1>4, <1>5, <2>1
    <3> QED BY <1>1, <1>4, <2>3, <3>1 DEF Owing
  <2> QED BY <1>1, <1>7, <2>3, <2>5, <2>6, <2>7 DEF IInv, Returned, Homes
<1>9. CASE got = <<>>
  <2>1. pending' = <<>>
    <3>1. Len(got) = 0
      BY <1>9, EmptySeq
    <3>2. SubSeq(got, 2, 0) = <<>>
      BY SubSeqEmpty
    <3> QED BY <1>1, <1>4, <3>1, <3>2 DEF From
  <2>2. /\ \/ result' = result
           \/ result'.what = "error"
           \/ Reading.src.ended /\ result'.what = "eof"
        /\ owed' = owed /\ homes' = homes
    BY <1>2, <1>4, <1>9
  <2>3. Shaped'
    BY <1>1, <1>3, <1>4, <2>1, <2>2 DEF IInv, Shaped
  <2>4. Queued'
    BY <1>1, <1>3, <2>1, <2>2 DEF Queued
  <2>5. Returned' /\ Homes'
    BY <1>1, <1>3, <2>2 DEF Returned, ReturnedIn, Homes
  <2>6. Owing'
    <3>1. buffered' \o pending' = got
      BY <1>1, <1>4, <1>5, <1>9, <2>1
    <3> QED BY <1>1, <1>4, <1>6, <2>2, <3>1 DEF Owing
  <2> QED BY <1>7, <2>3, <2>4, <2>5, <2>6 DEF IInv
<1> QED BY <1>8, <1>9

\* What the session keeps to itself is nothing to the source.
LEMMA StepStutter ==
    ASSUME IInv, Chatter \/ Swallow \/ UNCHANGED vars
    PROVE  IInv'
<1>1. /\ scene' = scene /\ source' = source /\ inbox' = inbox /\ now' = now /\ closed' = closed
      /\ left' = left /\ owed' = owed /\ epoch' = epoch /\ homes' = homes
  BY DEF Chatter, Swallow, vars, publisher
<1> QED BY <1>1 DEF IInv, Shaped, Queued, Ending, Clock, Owing, Returned, Homes, SrcShape,
                    StreamsTyped, source

LEMMA Steps ==
    ASSUME WellRead, ReadAsMeant, ClockKept, IInv, [Next]_vars
    PROVE  IInv'
<1>1. CASE \E m \in Traffic[scene.menu], d \in scene.steps : Send(m, d)
  BY <1>1, StepSend
<1>2. CASE SendEnd
  BY <1>2, StepSendEnd
<1>3. CASE Opener
  BY <1>3, StepIdle, StepProbeRead DEF Opener
<1>4. CASE NextPacket
  BY <1>4, StepNextBuffered, StepNextPending, StepNextEof, StepSteadyRead DEF NextPacket
<1>5. CASE Chatter \/ Swallow \/ UNCHANGED vars
  BY <1>5, StepStutter
<1> QED BY <1>1, <1>2, <1>3, <1>4, <1>5 DEF Next

LEMMA Invariant == Spec /\ WellRead /\ ReadAsMeant /\ ClockKept => []IInv
<1> SUFFICES ASSUME WellRead /\ ReadAsMeant /\ ClockKept PROVE Spec => []IInv
  OBVIOUS
<1>1. Init => IInv
  BY Begins
<1>2. IInv /\ [Next]_vars => IInv'
  BY Steps
<1> QED BY <1>1, <1>2, PTL DEF Spec

-----------------------------------------------------------------------------
(* Theorems. *)

\* The packets, the table, the clock and the probe have their types: the extended time is a
\* whole number of turns from the raw one, and a probe ends at its limit.
THEOREM TypeCorrect == Spec /\ WellRead /\ ReadAsMeant /\ ClockKept => []TypeOK
<1>1. IInv => TypeOK
  <2> SUFFICES ASSUME IInv PROVE TypeOK
    OBVIOUS
  <2>1. src.tracks \in Seq(Kinds \X (1 .. 255)) /\ src.ended \in BOOLEAN
    BY DEF IInv, Shaped, Table, SrcShape
  <2>2. \A s \in src.streams : s.index \in 0 .. 1 + Len(src.tracks)
    BY DEF IInv, Shaped, StreamsTyped
  <2>3. src.ts # <<>> => src.ts[1] \in 0 .. TimeMod - 1 /\ (src.ts[2] - src.ts[1]) % TimeMod = 0
    <3>1. Len(inbox) \in Nat
      BY LenProperties DEF IInv, Shaped
    <3> QED BY <3>1, ClockTyped DEF IInv, Clock
  <2> QED BY <2>1, <2>2, <2>3 DEF IInv, Shaped, TypeOK
<1> QED BY <1>1, Invariant, PTL

\* What the publisher sent comes out as it was meant, once and in order, at its own time on
\* whichever side of the clock's wrap, and the end comes last (next_packet, unwrap_ms,
\* video_packets, audio_packets).
THEOREM AsSent == Spec /\ WellRead /\ ReadAsMeant /\ ClockKept => []PacketsAsSent
<1>1. IInv => PacketsAsSent
  <2> SUFFICES ASSUME IInv PROVE PacketsAsSent
    OBVIOUS
  <2>1. PICK got \in Seq(Packets) : got = buffered \o pending
    BY ConcatProperties DEF IInv, Shaped
  <2>2. PICK mine \in Seq(Meanings), segs \in Seq(Seq(Meanings)) :
           /\ owed = mine \o FlattenSeq(segs)
           /\ Len(segs) = Len(inbox)
           /\ Len(mine) = Len(got) /\ \A i \in 1 .. Len(got) : Right(got[i], mine[i], epoch, src)
    BY <2>1 DEF IInv, Owing, Owes
  <2>3. PICK more \in Seq(Meanings) : more = FlattenSeq(segs)
    BY FlattenAppend
  <2>4. /\ Len(mine) \in Nat /\ Len(more) \in Nat /\ Len(got) \in Nat
        /\ DOMAIN got = 1 .. Len(got) /\ Len(mine \o more) = Len(mine) + Len(more)
    BY LenProperties
  <2>5. ASSUME NEW i \in DOMAIN got PROVE i <= Len(owed) /\ Fits(got[i], owed[i])
    <3>1. i \in 1 .. Len(got) /\ i <= Len(mine) + Len(more) /\ i <= Len(mine)
          /\ i \in 1 .. Len(mine) + Len(more)
      BY <2>2, <2>4
    <3>2. owed[i] = mine[i]
      BY <2>2, <2>3, <3>1, ConcatProperties
    <3>3. Right(got[i], mine[i], epoch, src)
      BY <2>2, <3>1
    <3> QED BY <2>2, <2>3, <2>4, <3>1, <3>2, <3>3 DEF Right, Fits
  <2>6. result.what = "packet" =>
           result.meant # <<>> /\ Fits(result.packet[1], result.meant[1])
    BY DEF IInv, Returned, ReturnedIn, Fits
  <2>7. result.what = "eof" => owed = <<>> /\ closed
    <3> SUFFICES ASSUME result.what = "eof" PROVE owed = <<>> /\ closed
      OBVIOUS
    <3>1. src.ended /\ buffered = <<>> /\ pending = <<>>
      BY DEF IInv, Queued
    <3>2. inbox = <<>> /\ closed
      BY <3>1 DEF IInv, Ending
    <3>3. mine = <<>> /\ segs = <<>>
      <4>1. <<>> \in Seq(Packets)
        BY EmptySeq
      <4>2. got = <<>>
        BY <2>1, <3>1, <4>1, ConcatEmptySeq
      <4>3. Len(mine) = 0 /\ Len(segs) = 0
        BY <2>2, <3>2, <4>2
      <4> QED BY <4>3, EmptySeq
    <3>4. more = <<>>
      BY <2>3, <3>3, FlattenAppend
    <3>5. mine \o more = mine
      BY <3>4, ConcatEmptySeq
    <3> QED BY <2>2, <2>3, <3>2, <3>3, <3>5
  <2> QED BY <2>1, <2>5, <2>6, <2>7 DEF PacketsAsSent
<1> QED BY <1>1, Invariant, PTL

LEMMA StreamsKept ==
    ASSUME WellRead, IInv, [Next]_vars
    PROVE  src.streams \subseteq src'.streams
<1>1. CASE ProbeRead \/ SteadyRead
  <2>1. inbox # <<>> /\ src' = Reading.src
    BY <1>1 DEF ProbeRead, SteadyRead, Reading
  <2>2. Grows(src, Reading.src)
    BY <2>1, AfterRead
  <2> QED BY <2>1, <2>2 DEF Grows
<1>2. CASE ~(ProbeRead \/ SteadyRead)
  <2>1. ASSUME NEW m \in Traffic[scene.menu], NEW d \in scene.steps, Send(m, d) PROVE src' = src
    BY <2>1 DEF Send, source
  <2>2. SendEnd \/ NextBuffered \/ NextPending \/ NextEof => src' = src
    BY DEF SendEnd, source, NextBuffered, NextPending, NextEof
  <2>3. Open \/ ProbeTimeout \/ ProbeEnds => src' = src
    BY DEF Open, ProbeTimeout, ProbeEnds
  <2>4. Chatter \/ Swallow \/ UNCHANGED vars => src' = src
    BY DEF Chatter, Swallow, vars, source
  <2>5. src' = src
    BY <1>2, <2>1, <2>2, <2>3, <2>4 DEF Next, Opener, NextPacket
  <2> QED BY <2>5
<1> QED BY <1>1, <1>2

\* Every track has a stream of its own, registered before its first packet is returned, and a
\* stream stays where it is and as it is (TrackStreams, ensure_stream).
THEOREM Settled == Spec /\ WellRead /\ ReadAsMeant /\ ClockKept => StreamsSettled
<1> SUFFICES ASSUME WellRead /\ ReadAsMeant /\ ClockKept PROVE Spec => StreamsSettled
  OBVIOUS
<1>1. ASSUME IInv, IInv', [Next]_vars
      PROVE  /\ src.streams \subseteq src'.streams
             /\ \A h, g \in homes' : h[1] = g[1] <=> h[2] = g[2]
             /\ \A h \in homes' : \E s \in src'.streams : s.index = h[1]
  <2>1. src'.tracks \in Table
    BY <1>1 DEF IInv, Shaped
  <2>2. \A h \in homes' : Housed(src', h[1], h[2])
    BY <1>1 DEF IInv, Homes, AtHome
  <2>3. ASSUME NEW h \in homes', NEW g \in homes' PROVE h[1] = g[1] <=> h[2] = g[2]
    <3>1. /\ h[2] \in Tracks /\ Registered(src'.tracks, h[2]) /\ h[1] = Index(src'.tracks, h[2])
          /\ g[2] \in Tracks /\ Registered(src'.tracks, g[2]) /\ g[1] = Index(src'.tracks, g[2])
      BY <2>2 DEF Housed
    <3>2. h[1] = g[1] => h[2] = g[2]
      BY <2>1, <3>1, IndexInjective
    <3> QED BY <3>1, <3>2
  <2>4. \A h \in homes' : \E s \in src'.streams : s.index = h[1]
    BY <2>2 DEF Housed
  <2>5. src.streams \subseteq src'.streams
    BY <1>1, StreamsKept
  <2> QED BY <2>3, <2>4, <2>5
<1>2. Spec => []IInv
  BY Invariant
<1> QED BY <1>1, <1>2, PTL DEF Spec, StreamsSettled
=============================================================================
