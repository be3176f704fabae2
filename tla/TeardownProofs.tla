----------------------------- MODULE TeardownProofs -----------------------------
(***************************************************************************)
(* Proofs about Teardown, for any number of messages and replies: no       *)
(* reset of an orderly close overtakes the last messages, and every reset  *)
(* is the work of an end that gave up.                                     *)
(***************************************************************************)
EXTENDS Teardown, TLAPS, SequenceTheorems, FiniteSetTheorems

-----------------------------------------------------------------------------
(* Counting the items that carry something. *)

Carrying(ms) == {i \in DOMAIN ms : ms[i] \in {"data", "goodbye"}}

\* The count is a number, 0 where nothing carries.
LEMMA CarriesTyped ==
    ASSUME NEW ms \in Seq(Item)
    PROVE  /\ IsFiniteSet(Carrying(ms)) /\ Carries(ms) = Cardinality(Carrying(ms))
           /\ Carries(ms) \in Nat
           /\ (\A i \in 1 .. Len(ms) : ms[i] \notin {"data", "goodbye"}) => Carries(ms) = 0
<1>1. DOMAIN ms = 1 .. Len(ms) /\ Len(ms) \in Nat
  OBVIOUS
<1>2. IsFiniteSet(1 .. Len(ms))
  BY <1>1, FS_Interval
<1>3. Carrying(ms) \in SUBSET (1 .. Len(ms))
  BY <1>1 DEF Carrying
<1>4. IsFiniteSet(Carrying(ms))
  BY <1>2, <1>3, FS_Subset
<1>5. Carries(ms) = Cardinality(Carrying(ms))
  BY DEF Carries, Carrying
<1>6. (\A i \in 1 .. Len(ms) : ms[i] \notin {"data", "goodbye"}) => Carrying(ms) = {}
  BY <1>1 DEF Carrying
<1>7. Cardinality(Carrying(ms)) \in Nat
  BY <1>4, FS_CardinalityType
<1> QED BY <1>4, <1>5, <1>6, <1>7, FS_EmptySet

\* What a sequence carries is what its two parts carry.
LEMMA CarriesConcat ==
    ASSUME NEW s \in Seq(Item), NEW t \in Seq(Item)
    PROVE  Carries(s \o t) = Carries(s) + Carries(t)
<1> DEFINE n == Len(s)
           shifted == {i \in n + 1 .. n + Len(t) : t[i - n] \in {"data", "goodbye"}}
           f == [i \in Carrying(t) |-> i + n]
<1>1. /\ n \in Nat /\ Len(t) \in Nat /\ s \o t \in Seq(Item)
      /\ DOMAIN (s \o t) = 1 .. n + Len(t) /\ DOMAIN s = 1 .. n /\ DOMAIN t = 1 .. Len(t)
      /\ \A i \in 1 .. n + Len(t) : (s \o t)[i] = IF i <= n THEN s[i] ELSE t[i - n]
  BY ConcatProperties
<1>2. Carrying(s \o t) = Carrying(s) \cup shifted
  BY <1>1 DEF Carrying
<1>3. Carrying(s) \cap shifted = {}
  BY <1>1 DEF Carrying
<1>4. f \in Bijection(Carrying(t), shifted)
  <2>1. \A i \in Carrying(t) : i \in 1 .. Len(t) /\ t[i] \in {"data", "goodbye"}
    BY <1>1 DEF Carrying
  <2>2. f \in [Carrying(t) -> shifted]
    BY <1>1, <2>1
  <2>3. \A i, j \in Carrying(t) : f[i] = f[j] => i = j
    BY <1>1, <2>1
  <2>4. \A k \in shifted : \E i \in Carrying(t) : f[i] = k
    <3> SUFFICES ASSUME NEW k \in shifted PROVE \E i \in Carrying(t) : f[i] = k
      OBVIOUS
    <3>1. k - n \in Carrying(t) /\ (k - n) + n = k
      BY <1>1 DEF Carrying
    <3> QED BY <3>1
  <2> QED BY <2>2, <2>3, <2>4 DEF Bijection, Injection, Surjection, IsInjective
<1>5. IsFiniteSet(shifted) /\ Cardinality(shifted) = Cardinality(Carrying(t))
  <2>1. ExistsBijection(Carrying(t), shifted)
    BY <1>4 DEF ExistsBijection
  <2> QED BY <2>1, CarriesTyped, FS_Bijection
<1>6. Cardinality(Carrying(s) \cup shifted) = Cardinality(Carrying(s)) + Cardinality(shifted)
  <2>1. IsFiniteSet(Carrying(s))
    BY CarriesTyped
  <2>2. Cardinality(Carrying(s) \cap shifted) = 0
    BY <1>3, FS_EmptySet
  <2>3. Cardinality(Carrying(s)) \in Nat /\ Cardinality(shifted) \in Nat
    BY <2>1, <1>5, FS_CardinalityType
  <2> HIDE DEF shifted, f, n
  <2>4. Cardinality(Carrying(s) \cup shifted)
           = Cardinality(Carrying(s)) + Cardinality(shifted) - Cardinality(Carrying(s) \cap shifted)
    BY <1>5, <2>1, FS_Union, Zenon
  <2> QED BY <2>2, <2>3, <2>4
<1> QED BY <1>1, <1>2, <1>5, <1>6, CarriesTyped

\* A message that is read is counted, or left to be counted.
LEMMA CarriesHead ==
    ASSUME NEW ms \in Seq(Item), ms # <<>>
    PROVE  /\ Head(ms) \in Item /\ Tail(ms) \in Seq(Item) /\ <<Head(ms)>> \in Seq(Item)
           /\ Carries(<<Head(ms)>>) \in Nat /\ Carries(Tail(ms)) \in Nat
           /\ Carries(ms) = Carries(<<Head(ms)>>) + Carries(Tail(ms))
<1>1. Head(ms) \in Item /\ Tail(ms) \in Seq(Item) /\ <<Head(ms)>> \in Seq(Item)
  OBVIOUS
<1>2. ms = <<Head(ms)>> \o Tail(ms)
  <2>1. Len(ms) \in 1 .. Len(ms) /\ 1 \in 1 .. Len(ms)
    OBVIOUS
  <2>2. SubSeq(ms, 1, Len(ms)) = <<ms[1]>> \o SubSeq(ms, 1 + 1, Len(ms))
    BY <2>1, SubSeqRecursiveFirst
  <2>3. Head(ms) = ms[1] /\ Tail(ms) = SubSeq(ms, 2, Len(ms)) /\ SubSeq(ms, 1, Len(ms)) = ms
    BY TailIsSubSeq, SubSeqFull
  <2> QED BY <2>2, <2>3
<1>3. Carries(<<Head(ms)>> \o Tail(ms)) = Carries(<<Head(ms)>>) + Carries(Tail(ms))
  BY <1>1, CarriesConcat
<1> QED BY <1>1, <1>2, <1>3, CarriesTyped

\* What a reset leaves is a sequence of items that carries no more.
LEMMA RemainsTyped ==
    ASSUME NEW ms \in Seq(Item), NEW r \in Remains(ms)
    PROVE  /\ r \in Seq(Item) /\ Len(r) <= Len(ms) /\ Carries(r) <= Carries(ms)
           /\ \A i \in 1 .. Len(r) : r[i] = ms[i]
<1>1. PICK n \in 0 .. Len(ms) : r = SubSeq(ms, 1, n)
  BY DEF Remains
<1>2. Len(ms) \in Nat /\ n \in Nat /\ n <= Len(ms) /\ \A i \in 1 .. n : ms[i] \in Item
  BY <1>1
<1>3. r \in Seq(Item) /\ Len(r) = n /\ \A i \in 1 .. n : r[i] = ms[i]
  BY <1>1, <1>2
<1>4. Carrying(r) \in SUBSET Carrying(ms)
  BY <1>2, <1>3 DEF Carrying
<1>5. Cardinality(Carrying(r)) <= Cardinality(Carrying(ms))
  BY <1>4, CarriesTyped, FS_Subset
<1> QED BY <1>2, <1>3, <1>5, CarriesTyped

-----------------------------------------------------------------------------
(* The invariant. *)

Open == {"live", "ended", "errored"}
Gone == {"draining", "closed"}
GaveUp == {"dropped", "idle", "budget"}

\* Only a closed socket was closed in some way.
HowAgrees(e) == phase[e] = "closed" <=> how[e] # "open"

\* Nothing but a FIN follows a goodbye, nothing follows a FIN, and who wrote either has
\* begun to close.
LastWords(e) ==
    \A i \in 1 .. Len(inbox[e]) : inbox[e][i] \in {"goodbye", "fin"} =>
        /\ phase[Peer(e)] \in Gone
        /\ \A j \in i + 1 .. Len(inbox[e]) : inbox[e][i] = "goodbye" /\ inbox[e][j] = "fin"

\* A drain that found the peer's FIN, or failed, or an end that was reached by the other:
\* the peer was closing or closed.
PeerGone(e) ==
    /\ how[e] = "drained" => phase[Peer(e)] \in Gone
    /\ how[e] = "error" => phase[Peer(e)] = "closed"
    /\ Stopped(e) => phase[Peer(e)] \in Gone

Explained(e) == reset[e] => how[Peer(e)] \in GaveUp \cup {"error"}

\* Before it closes, an end has got or will read everything, unless its peer gave up; when
\* its polls have come to an end nothing that carries is left.
Kept(e) ==
    phase[e] \in Open /\ how[Peer(e)] \notin GaveUp =>
        /\ got[e] + Carries(inbox[e]) = flushed[Peer(e)]
        /\ Stopped(e) => Carries(inbox[e]) = 0

Sound(e) == HowAgrees(e) /\ LastWords(e) /\ PeerGone(e) /\ Explained(e) /\ Kept(e)

IInv == TypeOK /\ \A e \in End : Sound(e)

\* There are two ends, each the peer of the other.
LEMMA PeerDiffers ==
    ASSUME NEW e \in End
    PROVE  /\ Peer(e) \in End /\ Peer(e) # e /\ Peer(Peer(e)) = e
           /\ \A d \in End : d = e \/ d = Peer(e)
<1>1. \A d \in End : (d = "client" => Peer(d) = "server") /\ (d = "server" => Peer(d) = "client")
  BY DEF Peer, End
<1> QED BY <1>1 DEF End

\* An end that has not begun to close finds nothing of its own at the end of the peer's
\* inbox, and a write that is refused is the work of a peer that gave up.
LEMMA StillOpen ==
    ASSUME IInv, NEW e \in End, phase[e] \in Open
    PROVE  /\ how[e] = "open" /\ ~Stopped(Peer(e))
           /\ how[Peer(e)] \in GaveUp \cup {"open"}
           /\ \A i \in 1 .. Len(inbox[Peer(e)]) : inbox[Peer(e)][i] \notin {"goodbye", "fin"}
           /\ ~reset[Peer(e)]
           /\ reset[e] => phase[Peer(e)] = "closed"
           /\ phase[Peer(e)] = "closed" => how[Peer(e)] \in GaveUp
<1> DEFINE p == Peer(e)
<1>1. p \in End /\ Peer(p) = e /\ Sound(e) /\ Sound(p) /\ how[p] \in How /\ how[e] \in How
  BY PeerDiffers DEF IInv, TypeOK
<1>2. phase[e] \notin Gone
  BY DEF Open, Gone
<1>3. how[e] = "open"
  BY <1>1, <1>2 DEF Sound, HowAgrees, Gone
<1>4. ~Stopped(p) /\ how[p] \notin {"drained", "error"}
  BY <1>1, <1>2 DEF Sound, PeerGone, Gone
<1>5. how[p] \in GaveUp \cup {"open"}
  BY <1>1, <1>4 DEF How, GaveUp
<1>6. \A i \in 1 .. Len(inbox[p]) : inbox[p][i] \notin {"goodbye", "fin"}
  BY <1>1, <1>2 DEF Sound, LastWords
<1>7. ~reset[p]
  BY <1>1, <1>3 DEF Sound, Explained, GaveUp
<1>8. reset[e] => phase[p] = "closed"
  BY <1>1 DEF Sound, Explained, HowAgrees, GaveUp
<1>9. phase[p] = "closed" => how[p] \in GaveUp
  BY <1>1, <1>5 DEF Sound, HowAgrees
<1> QED BY <1>3, <1>4, <1>5, <1>6, <1>7, <1>8, <1>9

\* The state by ends.
LEMMA TypeParts ==
    ASSUME TypeOK
    PROVE  /\ kind \in {"publish", "play"}
           /\ phase = [e \in End |-> phase[e]] /\ inbox = [e \in End |-> inbox[e]]
           /\ reset = [e \in End |-> reset[e]] /\ how = [e \in End |-> how[e]]
           /\ flushed = [e \in End |-> flushed[e]] /\ got = [e \in End |-> got[e]]
           /\ \A e \in End : /\ phase[e] \in Phase /\ inbox[e] \in Seq(Item)
                             /\ reset[e] \in BOOLEAN /\ how[e] \in How
                             /\ flushed[e] \in Nat /\ got[e] \in Nat
                             /\ Carries(inbox[e]) \in Nat
                             /\ Carries(inbox[e]) + got[e] <= flushed[Peer(e)]
BY CarriesTyped DEF TypeOK

\* What a write does to the connection.
LEMMA WriteOutcomes ==
    ASSUME TypeOK, NEW a \in End, NEW rest \in Seq(Item), NEW items \in Seq(Item),
           Writes(a, rest, items)
    PROVE  LET p == Peer(a) IN
           /\ inbox' \in [End -> Seq(Item)] /\ reset' \in [End -> BOOLEAN]
           /\ flushed' \in [End -> Nat]
           /\ flushed'[p] = flushed[p] /\ reset'[p] = reset[p]
           /\ \/ /\ items # <<>> /\ (phase[p] = "closed" \/ reset[a])
                 /\ inbox'[a] \in Remains(rest) /\ inbox'[p] = inbox[p]
                 /\ reset'[a] /\ flushed'[a] = flushed[a]
              \/ /\ ~(items # <<>> /\ (phase[p] = "closed" \/ reset[a]))
                 /\ inbox'[a] = rest /\ inbox'[p] = inbox[p] \o items
                 /\ reset'[a] = reset[a] /\ flushed'[a] = flushed[a] + Carries(items)
<1> DEFINE p == Peer(a)
           refused == items # <<>> /\ (phase[p] = "closed" \/ reset[a])
<1>1. p \in End /\ p # a
  BY PeerDiffers
<1>2. Carries(items) \in Nat
  BY CarriesTyped
<1>3. CASE refused
  <2>1. PICK r \in Remains(rest) : inbox' = [inbox EXCEPT ![a] = r]
    BY <1>3 DEF Writes
  <2>2. r \in Seq(Item)
    BY RemainsTyped
  <2>3. reset' = [reset EXCEPT ![a] = TRUE] /\ flushed' = flushed
    BY <1>3 DEF Writes
  <2> QED BY <1>1, <1>3, <2>1, <2>2, <2>3 DEF TypeOK
<1>4. CASE ~refused
  <2>1. /\ inbox' = [inbox EXCEPT ![a] = rest, ![p] = @ \o items]
        /\ flushed' = [flushed EXCEPT ![a] = @ + Carries(items)] /\ reset' = reset
    BY <1>4 DEF Writes
  <2>2. inbox[p] \o items \in Seq(Item)
    BY <1>1, TypeParts, ConcatProperties
  <2>3. inbox' \in [End -> Seq(Item)] /\ inbox'[a] = rest /\ inbox'[p] = inbox[p] \o items
    BY <1>1, <2>1, <2>2 DEF TypeOK
  <2>4. /\ flushed[a] + Carries(items) \in Nat /\ flushed' \in [End -> Nat]
        /\ flushed'[a] = flushed[a] + Carries(items) /\ flushed'[p] = flushed[p]
    BY <1>1, <1>2, <2>1 DEF TypeOK
  <2>5. reset' \in [End -> BOOLEAN]
    BY <2>1 DEF TypeOK
  <2> QED BY <1>4, <2>1, <2>3, <2>4, <2>5
<1> QED BY <1>3, <1>4

\* A sound end stays sound as long as what it depends on does.
LEMMA SoundParts ==
    ASSUME NEW e \in End, HowAgrees(e)', LastWords(e)', PeerGone(e)', Explained(e)', Kept(e)'
    PROVE  Sound(e)'
BY DEF Sound

\* An end that has not begun to close takes what it has read out of its inbox, and writes:
\* all of Send, Read, ReadAndReply and Close.
Moves(a, q, read, rest, items) ==
    /\ phase[a] \in Open
    /\ inbox[a] = read \o rest
    /\ Writes(a, rest, items)
    /\ phase' = [phase EXCEPT ![a] = q]
    /\ got' = [got EXCEPT ![a] = @ + Carries(read)]
    /\ replies' \in [End -> Nat]
    /\ UNCHANGED <<kind, how>>
    /\ q # "draining" => phase[a] = "live"
    /\ q = "ended" => phase[Peer(a)] \in Gone /\ Carries(rest) = 0
    /\ \A i \in 1 .. Len(items) : items[i] \in {"goodbye", "fin"} =>
           /\ q = "draining"
           /\ \A j \in i + 1 .. Len(items) : items[i] = "goodbye" /\ items[j] = "fin"

\* Such a step keeps both ends sound.
LEMMA MovesKeep ==
    ASSUME IInv, NEW a \in End, NEW q \in Phase \ {"errored", "closed"},
           NEW read \in Seq(Item), NEW rest \in Seq(Item), NEW items \in Seq(Item),
           Moves(a, q, read, rest, items)
    PROVE  IInv'
<1> DEFINE p == Peer(a)
<1>1. p \in End /\ p # a /\ Peer(p) = a /\ \A d \in End : d = a \/ d = p
  BY PeerDiffers
<1>2. TypeOK /\ Sound(a) /\ Sound(p)
  BY <1>1 DEF IInv
<1>3. /\ how[a] = "open" /\ ~Stopped(p) /\ how[p] \in GaveUp \cup {"open"}
      /\ \A i \in 1 .. Len(inbox[p]) : inbox[p][i] \notin {"goodbye", "fin"}
      /\ ~reset[p] /\ (reset[a] => phase[p] = "closed")
      /\ (phase[p] = "closed" => how[p] \in GaveUp)
  BY StillOpen DEF Moves
<1>4. phase'[a] = q /\ phase'[p] = phase[p] /\ phase' \in [End -> Phase]
  BY <1>1, <1>2 DEF TypeOK, Moves
<1>5. /\ got[a] \in Nat /\ Carries(read) \in Nat /\ Carries(rest) \in Nat
      /\ Carries(items) \in Nat /\ flushed[a] \in Nat /\ flushed[p] \in Nat /\ got[p] \in Nat
      /\ Carries(inbox[p]) \in Nat /\ inbox[p] \in Seq(Item)
  BY <1>1, <1>2, CarriesTyped, TypeParts
<1>6. got'[a] = got[a] + Carries(read) /\ got'[p] = got[p] /\ got' \in [End -> Nat]
  <2>1. got[a] + Carries(read) \in Nat
    BY <1>5
  <2> QED BY <1>1, <1>2, <2>1 DEF TypeOK, Moves
<1>7. Carries(inbox[a]) = Carries(read) + Carries(rest)
  BY CarriesConcat DEF Moves
<1>8. /\ inbox' \in [End -> Seq(Item)] /\ reset' \in [End -> BOOLEAN]
      /\ flushed' \in [End -> Nat] /\ flushed'[p] = flushed[p] /\ reset'[p] = reset[p]
      /\ \/ /\ phase[p] = "closed" /\ inbox'[a] \in Remains(rest) /\ inbox'[p] = inbox[p]
            /\ reset'[a] /\ flushed'[a] = flushed[a]
         \/ /\ inbox'[a] = rest /\ inbox'[p] = inbox[p] \o items
            /\ reset'[a] = reset[a] /\ flushed'[a] = flushed[a] + Carries(items)
  BY <1>2, <1>3, WriteOutcomes DEF Moves
<1> DEFINE refused == phase[p] = "closed" /\ inbox'[a] \in Remains(rest) /\ inbox'[p] = inbox[p]
                      /\ reset'[a] /\ flushed'[a] = flushed[a]
           carried == inbox'[a] = rest /\ inbox'[p] = inbox[p] \o items
                      /\ reset'[a] = reset[a] /\ flushed'[a] = flushed[a] + Carries(items)
<1>9. refused \/ carried
  BY <1>8
<1>10. /\ inbox'[a] \in Seq(Item) /\ Carries(inbox'[a]) \in Nat
       /\ Len(inbox'[a]) <= Len(rest) /\ Carries(inbox'[a]) <= Carries(rest)
       /\ \A i \in 1 .. Len(inbox'[a]) : inbox'[a][i] = rest[i]
  <2>1. inbox'[a] \in Seq(Item) /\ Carries(inbox'[a]) \in Nat
    BY <1>8, CarriesTyped
  <2>2. CASE inbox'[a] = rest
    BY <1>5, <2>2
  <2>3. CASE inbox'[a] \in Remains(rest)
    BY <2>1, <2>3, RemainsTyped
  <2> QED BY <1>9, <2>1, <2>2, <2>3
<1>11. carried => Carries(inbox'[p]) = Carries(inbox[p]) + Carries(items)
  BY <1>5, CarriesConcat
<1>12. TypeOK'
  <2>1. Carries(inbox[a]) + got[a] <= flushed[p] /\ Carries(inbox[p]) + got[p] <= flushed[a]
    BY <1>1, <1>2, TypeParts
  <2>2. Carries(inbox'[a]) + got'[a] <= flushed'[p]
    <3>1. flushed'[p] = flushed[p]
      BY <1>8
    <3>2. Carries(inbox'[a]) \in Nat /\ Carries(inbox'[a]) <= Carries(rest)
      BY <1>10
    <3> HIDE DEF p, refused, carried
    <3>3. Carries(read) + Carries(rest) + got[a] <= flushed[p]
      BY <1>7, <2>1
    <3>4. got'[a] = got[a] + Carries(read)
      BY <1>6
    <3> QED BY <1>5, <3>1, <3>2, <3>3, <3>4
  <2>3. Carries(inbox'[p]) + got'[p] <= flushed'[a]
    <3>1. \/ inbox'[p] = inbox[p] /\ flushed'[a] = flushed[a]
          \/ /\ Carries(inbox'[p]) = Carries(inbox[p]) + Carries(items)
             /\ flushed'[a] = flushed[a] + Carries(items)
      BY <1>9, <1>11
    <3> HIDE DEF p, refused, carried
    <3> QED BY <1>5, <1>6, <2>1, <3>1
  <2>4. \A e \in End : Carries(inbox'[e]) + got'[e] <= flushed'[Peer(e)]
    BY <1>1, <2>2, <2>3
  <2> QED BY <1>2, <1>4, <1>6, <1>8, <2>4 DEF TypeOK, Moves
<1> HIDE DEF refused, carried
<1>13. LastWords(a)'
  <2> SUFFICES ASSUME NEW i \in 1 .. Len(inbox'[a]), inbox'[a][i] \in {"goodbye", "fin"}
               PROVE  /\ phase'[p] \in Gone
                      /\ \A j \in i + 1 .. Len(inbox'[a]) :
                            inbox'[a][i] = "goodbye" /\ inbox'[a][j] = "fin"
    BY DEF LastWords
  <2> DEFINE k == Len(read)
  <2>1. /\ k \in Nat /\ Len(rest) \in Nat /\ Len(inbox[a]) = k + Len(rest)
        /\ \A j \in 1 .. Len(rest) : inbox[a][j + k] = rest[j]
    BY ConcatProperties DEF Moves
  <2>2. Len(inbox'[a]) \in Nat /\ i + k \in 1 .. Len(inbox[a])
        /\ \A j \in i + 1 .. Len(inbox'[a]) : j + k \in (i + k) + 1 .. Len(inbox[a])
    <3>1. Len(inbox'[a]) \in Nat /\ Len(inbox'[a]) <= Len(rest)
      BY <1>10
    <3> HIDE DEF k, p
    <3> QED BY <2>1, <3>1
  <2>3. \A j \in i .. Len(inbox'[a]) : inbox'[a][j] = inbox[a][j + k]
    <3> SUFFICES ASSUME NEW j \in i .. Len(inbox'[a]) PROVE inbox'[a][j] = inbox[a][j + k]
      OBVIOUS
    <3>1. j \in 1 .. Len(inbox'[a]) /\ j \in 1 .. Len(rest)
      BY <1>10, <2>1, <2>2
    <3> QED BY <1>10, <2>1, <3>1
  <2>4. inbox[a][i + k] \in {"goodbye", "fin"} /\ i \in i .. Len(inbox'[a])
    BY <2>2, <2>3
  <2>5. /\ phase[p] \in Gone
        /\ \A j \in (i + k) + 1 .. Len(inbox[a]) :
              inbox[a][i + k] = "goodbye" /\ inbox[a][j] = "fin"
    BY <1>2, <2>2, <2>4 DEF Sound, LastWords
  <2> HIDE DEF k, p
  <2>6. ASSUME NEW j \in i + 1 .. Len(inbox'[a])
        PROVE  inbox'[a][i] = "goodbye" /\ inbox'[a][j] = "fin"
    <3>1. inbox[a][i + k] = "goodbye" /\ inbox[a][j + k] = "fin"
      BY <2>2, <2>5
    <3>2. j \in i .. Len(inbox'[a])
      BY <2>2
    <3> QED BY <2>3, <2>4, <3>1, <3>2
  <2> QED BY <1>4, <2>5, <2>6
<1>14. LastWords(p)'
  <2> SUFFICES ASSUME NEW i \in 1 .. Len(inbox'[p]), inbox'[p][i] \in {"goodbye", "fin"}
               PROVE  /\ phase'[a] \in Gone
                      /\ \A j \in i + 1 .. Len(inbox'[p]) :
                            inbox'[p][i] = "goodbye" /\ inbox'[p][j] = "fin"
    BY <1>1 DEF LastWords
  <2>1. inbox'[p] = inbox[p] \o items
    BY <1>3, <1>9 DEF refused, carried
  <2> DEFINE k == Len(inbox[p])
  <2>2. /\ k \in Nat /\ Len(items) \in Nat /\ Len(inbox'[p]) = k + Len(items)
        /\ \A j \in 1 .. k + Len(items) :
              inbox'[p][j] = IF j <= k THEN inbox[p][j] ELSE items[j - k]
    <3>1. inbox[p] \in Seq(Item)
      BY <1>5
    <3> QED BY <2>1, <3>1, ConcatProperties
  <2>3. i > k
    <3> SUFFICES ASSUME i <= k PROVE FALSE
      BY <2>2
    <3>1. inbox'[p][i] = inbox[p][i] /\ i \in 1 .. k
      BY <2>2
    <3> QED BY <1>3, <3>1
  <2>4. i - k \in 1 .. Len(items) /\ inbox'[p][i] = items[i - k]
        /\ \A j \in i + 1 .. Len(inbox'[p]) :
              j - k \in (i - k) + 1 .. Len(items) /\ inbox'[p][j] = items[j - k]
    BY <2>2, <2>3
  <2> QED BY <1>4, <2>4 DEF Gone, Moves
<1>15. Sound(a)'
  <2>1. HowAgrees(a)'
    BY <1>3, <1>4 DEF HowAgrees, Moves
  <2>2. PeerGone(a)'
    BY <1>3, <1>4 DEF PeerGone, Stopped, Moves
  <2>3. Explained(a)'
    BY <1>2, <1>3, <1>9 DEF Sound, Explained, refused, carried, Moves
  <2>4. Kept(a)'
    <3> SUFFICES ASSUME q # "draining", how[p] \notin GaveUp
                 PROVE  /\ got'[a] + Carries(inbox'[a]) = flushed'[p]
                        /\ q \in {"ended", "errored"} => Carries(inbox'[a]) = 0
      BY <1>4 DEF Kept, Open, Stopped, Moves
    <3>1. inbox'[a] = rest
      BY <1>3, <1>9 DEF refused, carried
    <3>2. got[a] + Carries(inbox[a]) = flushed[p]
      BY <1>2 DEF Sound, Kept, Moves
    <3>3. q \in {"ended", "errored"} => Carries(rest) = 0
      BY DEF Moves
    <3>4. flushed'[p] = flushed[p]
      BY <1>8
    <3> HIDE DEF p
    <3> QED BY <1>5, <1>6, <1>7, <3>1, <3>2, <3>3, <3>4
  <2> QED BY <1>13, <2>1, <2>2, <2>3, <2>4, SoundParts
<1>16. Sound(p)'
  <2>1. HowAgrees(p)'
    BY <1>2, <1>4 DEF Sound, HowAgrees, Moves
  <2>2. PeerGone(p)'
    BY <1>1, <1>3, <1>4 DEF PeerGone, Stopped, GaveUp, Moves
  <2>3. Explained(p)'
    BY <1>1, <1>3, <1>8 DEF Explained
  <2>4. Kept(p)'
    <3> SUFFICES ASSUME phase[p] \in Open
                 PROVE  got'[p] + Carries(inbox'[p]) = flushed'[a]
      BY <1>1, <1>3, <1>4 DEF Kept, Stopped, Moves
    <3>1. carried
      BY <1>9 DEF refused, Open
    <3>2. got[p] + Carries(inbox[p]) = flushed[a]
      BY <1>1, <1>2, <1>3 DEF Sound, Kept, GaveUp
    <3>3. flushed'[a] = flushed[a] + Carries(items)
      BY <3>1 DEF carried
    <3>4. Carries(inbox'[p]) = Carries(inbox[p]) + Carries(items)
      BY <1>11, <3>1
    <3> HIDE DEF p
    <3> QED BY <1>5, <1>6, <3>2, <3>3, <3>4
  <2> QED BY <1>1, <1>14, <2>1, <2>2, <2>3, <2>4, SoundParts
<1> QED BY <1>1, <1>12, <1>15, <1>16 DEF IInv

\* An end closes its socket: DrainEnds, DrainGivesUp and Drop.
Closes(a, h, fin) ==
    /\ phase[a] # "closed"
    /\ ClosesSocket(a, inbox[a], fin)
    /\ how' = [how EXCEPT ![a] = h]
    /\ h = "drained" => inbox[a] # <<>> /\ Head(inbox[a]) = "fin"
    /\ h = "error" => reset[a]
    /\ fin # <<>> => phase[a] \in Open
    /\ UNCHANGED <<kind, flushed, got, replies>>

\* A FIN carries nothing.
LEMMA FinTyped ==
    ASSUME NEW fin \in {<<>>, <<"fin">>}
    PROVE  fin \in Seq(Item) /\ Carries(fin) = 0
<1>1. CASE fin = <<>>
  <2>1. <<>> \in Seq(Item) /\ \A i \in 1 .. Len(<<>>) : FALSE
    OBVIOUS
  <2> QED BY <1>1, <2>1, CarriesTyped
<1>2. CASE fin = <<"fin">>
  <2>1. "fin" \in Item
    BY DEF Item
  <2>2. <<"fin">> \in Seq(Item)
    BY <2>1
  <2>3. \A i \in 1 .. Len(<<"fin">>) : <<"fin">>[i] \notin {"data", "goodbye"}
    OBVIOUS
  <2> QED BY <1>2, <2>2, <2>3, CarriesTyped
<1> QED BY <1>1, <1>2

\* What becomes of the two inboxes and of the peer's socket.
LEMMA CloseOutcomes ==
    ASSUME TypeOK, NEW a \in End, NEW h \in How, NEW fin \in {<<>>, <<"fin">>}, Closes(a, h, fin)
    PROVE  LET p == Peer(a) IN
           /\ inbox' \in [End -> Seq(Item)] /\ inbox'[a] = <<>>
           /\ reset' \in [End -> BOOLEAN] /\ reset'[a] = reset[a]
           /\ \/ inbox'[p] \in Remains(inbox[p]) /\ \E i \in DOMAIN inbox[a] : inbox[a][i] # "fin"
              \/ inbox'[p] \in {inbox[p], inbox[p] \o fin} /\ reset'[p] = reset[p]
<1> DEFINE p == Peer(a)
           unread == \E i \in DOMAIN inbox[a] : inbox[a][i] # "fin"
<1>1. p \in End /\ p # a /\ inbox[p] \in Seq(Item) /\ fin \in Seq(Item) /\ <<>> \in Seq(Item)
  BY PeerDiffers, TypeParts, FinTyped
<1>2. CASE phase[p] = "closed"
  <2>1. inbox' = [inbox EXCEPT ![a] = <<>>] /\ reset' = reset
    BY <1>2 DEF Closes, ClosesSocket
  <2> QED BY <1>1, <2>1 DEF TypeOK
<1>3. CASE phase[p] # "closed" /\ unread
  <2>1. PICK r \in Remains(inbox[p]) : inbox' = [inbox EXCEPT ![a] = <<>>, ![p] = r]
    BY <1>3 DEF Closes, ClosesSocket
  <2>2. r \in Seq(Item)
    BY <1>1, RemainsTyped
  <2>3. reset' = [reset EXCEPT ![p] = TRUE]
    BY <1>3 DEF Closes, ClosesSocket
  <2>4. inbox' \in [End -> Seq(Item)] /\ inbox'[a] = <<>> /\ inbox'[p] = r
    BY <1>1, <2>1, <2>2 DEF TypeOK
  <2>5. reset' \in [End -> BOOLEAN] /\ reset'[a] = reset[a]
    BY <1>1, <2>3 DEF TypeOK
  <2> QED BY <1>3, <2>1, <2>4, <2>5
<1>4. CASE phase[p] # "closed" /\ ~unread
  <2>1. inbox' = [inbox EXCEPT ![a] = <<>>, ![p] = @ \o fin] /\ reset' = reset
    BY <1>4 DEF Closes, ClosesSocket
  <2>2. inbox[p] \o fin \in Seq(Item)
    BY <1>1, ConcatProperties
  <2>3. inbox' \in [End -> Seq(Item)] /\ inbox'[a] = <<>> /\ inbox'[p] = inbox[p] \o fin
    BY <1>1, <2>1, <2>2 DEF TypeOK
  <2> QED BY <2>1, <2>3 DEF TypeOK
<1> QED BY <1>2, <1>3, <1>4

\* Behind a FIN there is nothing, and it carries nothing.
LEMMA FinIsLast ==
    ASSUME TypeOK, NEW e \in End, LastWords(e), inbox[e] # <<>>, Head(inbox[e]) = "fin"
    PROVE  /\ phase[Peer(e)] \in Gone /\ Carries(inbox[e]) = 0
           /\ \A i \in DOMAIN inbox[e] : inbox[e][i] = "fin"
<1>1. inbox[e] \in Seq(Item)
  BY TypeParts
<1>2. 1 \in 1 .. Len(inbox[e]) /\ inbox[e][1] = "fin" /\ DOMAIN inbox[e] = 1 .. Len(inbox[e])
  BY <1>1
<1>3. \A j \in 2 .. Len(inbox[e]) : FALSE
  BY <1>2 DEF LastWords
<1>4. \A i \in 1 .. Len(inbox[e]) : i = 1
  BY <1>1, <1>3
<1>5. \A i \in 1 .. Len(inbox[e]) : inbox[e][i] = "fin"
  BY <1>2, <1>4
<1> QED BY <1>1, <1>2, <1>5, CarriesTyped DEF LastWords

\* A socket that closes keeps both ends sound.
LEMMA ClosesKeep ==
    ASSUME IInv, NEW a \in End, NEW h \in How \ {"open"}, NEW fin \in {<<>>, <<"fin">>},
           Closes(a, h, fin)
    PROVE  IInv'
<1> DEFINE p == Peer(a)
<1>1. p \in End /\ p # a /\ Peer(p) = a /\ \A d \in End : d = a \/ d = p
  BY PeerDiffers
<1>2. TypeOK /\ Sound(a) /\ Sound(p)
  BY <1>1 DEF IInv
<1>3. /\ phase'[a] = "closed" /\ phase'[p] = phase[p] /\ phase' \in [End -> Phase]
      /\ how'[a] = h /\ how'[p] = how[p] /\ how' \in [End -> How]
  <2>1. phase' = [phase EXCEPT ![a] = "closed"] /\ how' = [how EXCEPT ![a] = h]
    BY DEF Closes, ClosesSocket
  <2> QED BY <1>1, <1>2, <2>1 DEF TypeOK, Phase
<1>4. /\ flushed' = flushed /\ got' = got /\ kind' = kind /\ replies' = replies
      /\ how[a] = "open" /\ ~reset[p]
  <2>1. how[a] = "open"
    BY <1>2 DEF Closes, Sound, HowAgrees
  <2> QED BY <1>1, <1>2, <2>1 DEF Closes, Sound, Explained, GaveUp
<1>5. /\ inbox' \in [End -> Seq(Item)] /\ inbox'[a] = <<>>
      /\ reset' \in [End -> BOOLEAN] /\ reset'[a] = reset[a]
      /\ \/ inbox'[p] \in Remains(inbox[p]) /\ \E i \in DOMAIN inbox[a] : inbox[a][i] # "fin"
         \/ inbox'[p] \in {inbox[p], inbox[p] \o fin} /\ reset'[p] = reset[p]
  BY <1>2, CloseOutcomes
<1>6. h = "drained" => phase[p] \in Gone /\ \A i \in DOMAIN inbox[a] : inbox[a][i] = "fin"
  BY <1>2, FinIsLast DEF Closes, Sound
<1>7. h = "error" => phase[p] = "closed"
  BY <1>1, <1>2 DEF Closes, Sound, Explained, HowAgrees, GaveUp
<1>8. inbox[p] \in Seq(Item) /\ fin \in Seq(Item) /\ Len(inbox[p]) \in Nat
  <2>1. inbox[p] \in Seq(Item)
    BY <1>1, <1>2, TypeParts
  <2>2. Len(inbox[p]) \in Nat
    BY <2>1
  <2>3. fin \in Seq(Item)
    BY FinTyped
  <2> QED BY <2>1, <2>2, <2>3
<1>9. fin # <<>> => \A i \in 1 .. Len(inbox[p]) : inbox[p][i] \notin {"goodbye", "fin"}
  BY StillOpen DEF Closes
<1>10. TypeOK'
  <2>1. /\ Carries(inbox[a]) + got[a] <= flushed[p] /\ Carries(inbox[p]) + got[p] <= flushed[a]
        /\ got[a] \in Nat /\ got[p] \in Nat /\ flushed[a] \in Nat /\ flushed[p] \in Nat
        /\ Carries(inbox[a]) \in Nat /\ Carries(inbox[p]) \in Nat
    BY <1>1, <1>2, TypeParts
  <2>2. Carries(inbox'[a]) = 0
    BY <1>5, CarriesTyped
  <2>3. Carries(inbox'[p]) \in Nat /\ Carries(inbox'[p]) <= Carries(inbox[p])
    <3>1. CASE inbox'[p] \in Remains(inbox[p])
      BY <1>8, <2>1, <3>1, RemainsTyped, CarriesTyped
    <3>2. Carries(fin) = 0
      BY FinTyped
    <3>3. Carries(inbox[p] \o fin) = Carries(inbox[p]) + Carries(fin)
      BY <1>8, CarriesConcat
    <3>4. Carries(inbox[p] \o fin) = Carries(inbox[p])
      BY <2>1, <3>2, <3>3
    <3>5. CASE Carries(inbox'[p]) = Carries(inbox[p])
      BY <2>1, <3>5
    <3>6. inbox'[p] \in {inbox[p], inbox[p] \o fin} => Carries(inbox'[p]) = Carries(inbox[p])
      BY <3>4
    <3> QED BY <1>5, <3>1, <3>5, <3>6
  <2>4. Carries(inbox'[a]) + got[a] <= flushed[p] /\ Carries(inbox'[p]) + got[p] <= flushed[a]
    BY <2>1, <2>2, <2>3
  <2>5. \A e \in End : Carries(inbox'[e]) + got'[e] <= flushed'[Peer(e)]
    BY <1>1, <1>4, <2>4
  <2> QED BY <1>2, <1>3, <1>4, <1>5, <2>5 DEF TypeOK
<1>11. LastWords(p)'
  <2> SUFFICES ASSUME NEW i \in 1 .. Len(inbox'[p]), inbox'[p][i] \in {"goodbye", "fin"},
                      NEW j \in i + 1 .. Len(inbox'[p])
               PROVE  inbox'[p][i] = "goodbye" /\ inbox'[p][j] = "fin"
    BY <1>1, <1>3 DEF LastWords, Gone
  <2> DEFINE k == Len(inbox[p])
  <2>1. ASSUME inbox'[p] \in Seq(Item), Len(inbox'[p]) <= k,
               \A n \in 1 .. Len(inbox'[p]) : inbox'[p][n] = inbox[p][n]
        PROVE  inbox'[p][i] = "goodbye" /\ inbox'[p][j] = "fin"
    <3>1. Len(inbox'[p]) \in Nat
      BY <2>1
    <3>2. /\ i \in 1 .. k /\ j \in i + 1 .. k /\ j \in 1 .. Len(inbox'[p])
          /\ inbox'[p][i] = inbox[p][i] /\ inbox'[p][j] = inbox[p][j]
      BY <1>8, <2>1, <3>1
    <3> QED BY <1>2, <3>2 DEF Sound, LastWords
  <2>2. CASE inbox'[p] \in Remains(inbox[p])
    BY <1>8, <2>1, <2>2, RemainsTyped
  <2>3. CASE inbox'[p] = inbox[p]
    BY <1>8, <2>1, <2>3
  <2>4. CASE inbox'[p] = inbox[p] \o fin /\ fin # <<>>
    <3>1. /\ Len(inbox'[p]) = k + 1
          /\ \A n \in 1 .. k : inbox'[p][n] = inbox[p][n]
      <4>1. Len(fin) = 1
        BY <2>4
      <4>2. /\ Len(inbox[p] \o fin) = k + Len(fin)
            /\ \A n \in 1 .. k + Len(fin) : (inbox[p] \o fin)[n] =
                  IF n <= k THEN inbox[p][n] ELSE fin[n - k]
        <5>1. inbox[p] \in Seq(Item) /\ fin \in Seq(Item)
          BY <1>8
        <5> HIDE DEF p
        <5> QED BY <5>1, ConcatProperties
      <4>3. \A n \in 1 .. k : n \in 1 .. k + 1 /\ n <= k
        BY <1>8
      <4> HIDE DEF k, p
      <4> QED BY <2>4, <4>1, <4>2, <4>3
    <3>2. i \in 1 .. k
      BY <1>8, <3>1
    <3> QED BY <1>9, <2>4, <3>1, <3>2
  <2>5. inbox[p] \o <<>> = inbox[p]
    BY <1>8, ConcatEmptySeq
  <2> QED BY <1>5, <2>2, <2>3, <2>4, <2>5
<1>12. Sound(a)'
  <2>1. HowAgrees(a)' /\ LastWords(a)' /\ Kept(a)'
    BY <1>3, <1>5 DEF HowAgrees, LastWords, Kept, Open
  <2>2. PeerGone(a)'
    BY <1>3, <1>6, <1>7 DEF PeerGone, Stopped
  <2>3. Explained(a)'
    BY <1>2, <1>3, <1>5 DEF Sound, Explained
  <2> QED BY <2>1, <2>2, <2>3, SoundParts
<1>13. Sound(p)'
  <2>1. HowAgrees(p)'
    BY <1>2, <1>3 DEF Sound, HowAgrees
  <2>2. PeerGone(p)'
    BY <1>1, <1>3 DEF PeerGone, Gone
  <2>3. Explained(p)'
    <3>1. reset'[p] => h # "drained"
      BY <1>4, <1>5, <1>6
    <3> QED BY <1>1, <1>3, <3>1 DEF Explained, How, GaveUp
  <2>4. Kept(p)'
    BY <1>1, <1>3, <1>6, <1>7 DEF Kept, How, GaveUp, Open, Gone
  <2> QED BY <1>1, <1>11, <2>1, <2>2, <2>3, <2>4, SoundParts
<1> QED BY <1>1, <1>10, <1>12, <1>13 DEF IInv

\* An end takes its inbox further without the handler: ReplyFails, ReadEnd and DrainData.
Skips(a, q, rest) ==
    /\ rest \in Seq(Item)
    /\ \/ rest = inbox[a]
       \/ inbox[a] # <<>> /\ rest = Tail(inbox[a])
    /\ \/ q = "draining" /\ phase[a] = "draining"
       \/ /\ q \in {"ended", "errored"} /\ phase[a] = "live" /\ phase[Peer(a)] \in Gone
          /\ how[Peer(a)] \in GaveUp \/ (rest = inbox[a] /\ Carries(rest) = 0)
    /\ inbox' = [inbox EXCEPT ![a] = rest]
    /\ phase' = [phase EXCEPT ![a] = q]
    /\ UNCHANGED <<kind, reset, how, flushed, got, replies>>

\* So does what an end reads or drains without its handler.
LEMMA SkipsKeep ==
    ASSUME IInv, NEW a \in End, NEW q, NEW rest, Skips(a, q, rest)
    PROVE  IInv'
<1> DEFINE p == Peer(a)
<1>1. p \in End /\ p # a /\ Peer(p) = a /\ \A d \in End : d = a \/ d = p
  BY PeerDiffers
<1>2. TypeOK /\ Sound(a) /\ Sound(p)
  BY <1>1 DEF IInv
<1>3. q \in Phase /\ rest \in Seq(Item) /\ inbox[a] \in Seq(Item) /\ phase[a] # "closed"
  BY <1>2, TypeParts DEF Skips, Phase
<1>4. /\ phase'[a] = q /\ phase'[p] = phase[p] /\ phase' \in [End -> Phase]
      /\ inbox'[a] = rest /\ inbox'[p] = inbox[p] /\ inbox' \in [End -> Seq(Item)]
      /\ how' = how /\ reset' = reset /\ flushed' = flushed /\ got' = got
      /\ kind' = kind /\ replies' = replies
  BY <1>1, <1>2, <1>3 DEF TypeOK, Skips
<1>5. Carries(rest) \in Nat /\ Carries(rest) <= Carries(inbox[a]) /\ Carries(inbox[a]) \in Nat
  <2>1. Carries(rest) \in Nat /\ Carries(inbox[a]) \in Nat
    BY <1>3, CarriesTyped
  <2>2. CASE rest = inbox[a]
    BY <2>1, <2>2
  <2>3. CASE inbox[a] # <<>> /\ rest = Tail(inbox[a])
    <3>1. /\ Carries(inbox[a]) = Carries(<<Head(inbox[a])>>) + Carries(rest)
          /\ Carries(<<Head(inbox[a])>>) \in Nat
      BY <1>3, <2>3, CarriesHead
    <3> QED BY <2>1, <3>1
  <2> QED BY <2>1, <2>2, <2>3 DEF Skips
<1>6. how[a] = "open" /\ q # "closed"
  BY <1>2, <1>3 DEF Sound, HowAgrees, Skips
<1>7. TypeOK'
  <2>1. /\ Carries(inbox[a]) + got[a] <= flushed[p] /\ Carries(inbox[p]) + got[p] <= flushed[a]
        /\ got[a] \in Nat /\ flushed[p] \in Nat
    BY <1>1, <1>2, TypeParts
  <2>2. Carries(rest) + got[a] <= flushed[p]
    BY <1>5, <2>1
  <2>3. \A e \in End : Carries(inbox'[e]) + got'[e] <= flushed'[Peer(e)]
    BY <1>1, <1>4, <2>1, <2>2
  <2> QED BY <1>2, <1>4, <2>3 DEF TypeOK
<1>8. LastWords(a)'
  <2>1. CASE rest = inbox[a]
    BY <1>2, <1>4, <2>1 DEF Sound, LastWords
  <2>2. CASE inbox[a] # <<>> /\ rest = Tail(inbox[a])
    <3>1. /\ Len(inbox[a]) \in Nat /\ Len(rest) = Len(inbox[a]) - 1
          /\ \A i \in 1 .. Len(rest) : i + 1 \in 1 .. Len(inbox[a]) /\ rest[i] = inbox[a][i + 1]
      BY <1>3, <2>2
    <3> SUFFICES ASSUME NEW i \in 1 .. Len(rest), rest[i] \in {"goodbye", "fin"}
                 PROVE  /\ phase[p] \in Gone
                        /\ \A j \in i + 1 .. Len(rest) : rest[i] = "goodbye" /\ rest[j] = "fin"
      BY <1>4 DEF LastWords
    <3>2. /\ phase[p] \in Gone
          /\ \A j \in (i + 1) + 1 .. Len(inbox[a]) :
                inbox[a][i + 1] = "goodbye" /\ inbox[a][j] = "fin"
      BY <1>2, <3>1 DEF Sound, LastWords
    <3>3. ASSUME NEW j \in i + 1 .. Len(rest) PROVE rest[i] = "goodbye" /\ rest[j] = "fin"
      <4>1. j \in 1 .. Len(rest) /\ j + 1 \in (i + 1) + 1 .. Len(inbox[a])
        BY <3>1
      <4> QED BY <3>1, <3>2, <4>1
    <3> QED BY <3>2, <3>3
  <2> QED BY <2>1, <2>2 DEF Skips
<1>9. LastWords(p)'
  BY <1>1, <1>2, <1>4 DEF Sound, LastWords, Skips, Gone
<1>10. Sound(a)'
  <2>1. HowAgrees(a)' /\ Explained(a)'
    BY <1>2, <1>4, <1>6 DEF Sound, HowAgrees, Explained
  <2>2. PeerGone(a)'
    BY <1>4, <1>6 DEF PeerGone, Stopped, Skips
  <2>3. Kept(a)'
    <3> SUFFICES ASSUME q # "draining", how[p] \notin GaveUp
                 PROVE  got[a] + Carries(rest) = flushed[p] /\ Carries(rest) = 0
      BY <1>4 DEF Kept, Open
    <3>1. phase[a] = "live" /\ rest = inbox[a] /\ Carries(rest) = 0
      BY DEF Skips
    <3> QED BY <1>2, <3>1 DEF Sound, Kept, Open
  <2> QED BY <1>8, <2>1, <2>2, <2>3, SoundParts
<1>11. Sound(p)'
  <2>1. HowAgrees(p)' /\ Explained(p)'
    BY <1>2, <1>4 DEF Sound, HowAgrees, Explained
  <2>2. PeerGone(p)'
    <3>1. phase[a] \in Gone => q \in Gone
      BY DEF Skips, Gone
    <3> QED BY <1>1, <1>2, <1>3, <1>4, <3>1 DEF Sound, PeerGone, Stopped
  <2>3. Kept(p)'
    BY <1>1, <1>2, <1>4 DEF Sound, Kept, Stopped
  <2> QED BY <1>1, <1>9, <2>1, <2>2, <2>3, SoundParts
<1> QED BY <1>1, <1>7, <1>10, <1>11 DEF IInv

-----------------------------------------------------------------------------
(* The actions. *)

\* The item that a poll reads, and what is left: after a goodbye, nothing that carries.
LEMMA TakesHead ==
    ASSUME IInv, NEW a \in End, inbox[a] # <<>>, Head(inbox[a]) # "fin"
    PROVE  LET item == Head(inbox[a]) IN
           /\ inbox[a] = <<item>> \o Tail(inbox[a])
           /\ <<item>> \in Seq(Item) /\ Tail(inbox[a]) \in Seq(Item)
           /\ After(item) \in Phase \ {"errored", "closed"} /\ After(item) # "draining"
           /\ After(item) = "ended" => phase[Peer(a)] \in Gone /\ Carries(Tail(inbox[a])) = 0
<1> DEFINE ms == inbox[a]
           item == Head(ms)
           rest == Tail(ms)
<1>1. ms \in Seq(Item) /\ LastWords(a)
  BY TypeParts DEF IInv, Sound
<1> HIDE DEF ms
<1>2. item \in Item /\ rest \in Seq(Item) /\ <<item>> \in Seq(Item)
  BY <1>1, CarriesHead DEF ms
<1>3. ms = <<item>> \o rest
  <2>1. SubSeq(ms, 1, Len(ms)) = <<ms[1]>> \o SubSeq(ms, 1 + 1, Len(ms))
    <3>1. ms # <<>>
      BY DEF ms
    <3>2. Len(ms) \in 1 .. Len(ms) /\ 1 \in 1 .. Len(ms)
      BY <1>1, <3>1
    <3> QED BY <1>1, <3>2, SubSeqRecursiveFirst
  <2>2. item = ms[1] /\ rest = SubSeq(ms, 2, Len(ms)) /\ SubSeq(ms, 1, Len(ms)) = ms
    BY <1>1, TailIsSubSeq, SubSeqFull DEF ms
  <2> QED BY <2>1, <2>2
<1>4. item = "goodbye" => phase[Peer(a)] \in Gone /\ Carries(rest) = 0
  <2> SUFFICES ASSUME item = "goodbye" PROVE phase[Peer(a)] \in Gone /\ Carries(rest) = 0
    OBVIOUS
  <2>1. ms # <<>>
    BY DEF ms
  <2>2. /\ Len(ms) \in Nat /\ 1 \in 1 .. Len(ms) /\ ms[1] = "goodbye" /\ Len(rest) = Len(ms) - 1
        /\ \A i \in 1 .. Len(rest) : rest[i] = ms[i + 1] /\ i + 1 \in 1 + 1 .. Len(ms)
    BY <1>1, <2>1
  <2>3. phase[Peer(a)] \in Gone /\ \A j \in 1 + 1 .. Len(ms) : ms[j] = "fin"
    BY <1>1, <2>2 DEF LastWords, ms
  <2>4. \A i \in 1 .. Len(rest) : rest[i] \notin {"data", "goodbye"}
    BY <2>2, <2>3
  <2> QED BY <1>2, <2>3, <2>4, CarriesTyped
<1> QED BY <1>2, <1>3, <1>4 DEF After, Phase, ms

\* A message is sent.
LEMMA SendKeeps == ASSUME IInv, NEW a \in End, Send(a) PROVE IInv'
<1>1. TypeOK /\ inbox[a] \in Seq(Item) /\ got[a] \in Nat /\ phase[a] = "live"
  BY TypeParts DEF IInv, Send
<1>2. /\ <<>> \in Seq(Item) /\ Carries(<<>>) = 0 /\ inbox[a] = <<>> \o inbox[a]
      /\ <<"data">> \in Seq(Item)
  <2>1. "data" \in Item
    BY DEF Item
  <2>2. <<"data">> \in Seq(Item)
    BY <2>1
  <2>3. inbox[a] = <<>> \o inbox[a]
    BY <1>1, ConcatEmptySeq
  <2> QED BY <2>2, <2>3, FinTyped
<1>3. phase' = [phase EXCEPT ![a] = "live"] /\ got' = [got EXCEPT ![a] = @ + Carries(<<>>)]
  BY <1>1, <1>2, TypeParts DEF Send
<1>4. Moves(a, "live", <<>>, inbox[a], <<"data">>)
  <2>1. \A i \in 1 .. Len(<<"data">>) : <<"data">>[i] \notin {"goodbye", "fin"}
    OBVIOUS
  <2>2. replies' \in [End -> Nat]
    BY <1>1 DEF Send, TypeOK
  <2>3. Writes(a, inbox[a], <<"data">>) /\ UNCHANGED <<kind, how>>
    BY DEF Send
  <2> QED BY <1>1, <1>2, <1>3, <2>1, <2>2, <2>3 DEF Moves, Open
<1>5. "live" \in Phase \ {"errored", "closed"}
  BY DEF Phase
<1> QED BY <1>1, <1>2, <1>4, <1>5, MovesKeep

\* A message is read.
LEMMA ReadKeeps == ASSUME IInv, NEW a \in End, Read(a) PROVE IInv'
<1> DEFINE item == Head(inbox[a])
           rest == Tail(inbox[a])
           p == Peer(a)
<1>1. /\ inbox[a] = <<item>> \o rest /\ <<item>> \in Seq(Item) /\ rest \in Seq(Item)
      /\ After(item) \in Phase \ {"errored", "closed"} /\ After(item) # "draining"
      /\ After(item) = "ended" => phase[p] \in Gone /\ Carries(rest) = 0
  BY TakesHead DEF Read
<1>2. TypeOK /\ inbox[p] \in Seq(Item) /\ flushed[a] \in Nat /\ p \in End /\ p # a
  BY PeerDiffers, TypeParts DEF IInv
<1>3. Writes(a, rest, <<>>)
  <2>1. inbox' = [inbox EXCEPT ![a] = rest] /\ UNCHANGED <<reset, flushed>>
    BY DEF Read
  <2>2. inbox[p] \o <<>> = inbox[p] /\ Carries(<<>>) = 0
    BY <1>2, FinTyped, ConcatEmptySeq
  <2>3. inbox' = [inbox EXCEPT ![a] = rest, ![p] = @ \o <<>>]
    BY <1>2, <2>1, <2>2 DEF TypeOK
  <2>4. flushed' = [flushed EXCEPT ![a] = @ + Carries(<<>>)]
    BY <1>2, <2>1, <2>2 DEF TypeOK
  <2> QED BY <2>1, <2>3, <2>4 DEF Writes
<1> HIDE DEF rest
<1>4. Moves(a, After(item), <<item>>, rest, <<>>)
  BY <1>1, <1>2, <1>3 DEF Moves, Read, Open, TypeOK
<1>5. <<>> \in Seq(Item)
  OBVIOUS
<1> HIDE DEF item
<1> QED BY <1>1, <1>4, <1>5, MovesKeep

\* A message is read and replied to.
LEMMA ReadAndReplyKeeps == ASSUME IInv, NEW a \in End, ReadAndReply(a) PROVE IInv'
<1> DEFINE item == Head(inbox[a])
           rest == Tail(inbox[a])
<1>1. /\ inbox[a] = <<item>> \o rest /\ <<item>> \in Seq(Item) /\ rest \in Seq(Item)
      /\ After(item) \in Phase \ {"errored", "closed"} /\ After(item) # "draining"
      /\ After(item) = "ended" => phase[Peer(a)] \in Gone /\ Carries(rest) = 0
  BY TakesHead DEF ReadAndReply
<1>2. <<"reply">> \in Seq(Item)
  <2>1. "reply" \in Item
    BY DEF Item
  <2> QED BY <2>1
<1>3. replies' \in [End -> Nat]
  BY DEF ReadAndReply, IInv, TypeOK
<1>4. Moves(a, After(item), <<item>>, rest, <<"reply">>)
  BY <1>1, <1>3 DEF Moves, ReadAndReply, Open
<1> HIDE DEF item, rest
<1> QED BY <1>1, <1>2, <1>4, MovesKeep

\* The goodbye and the FIN are written.
LEMMA CloseKeeps == ASSUME IInv, NEW a \in End, Close(a) PROVE IInv'
<1> DEFINE items == Goodbye(a) \o <<"fin">>
<1>1. TypeOK /\ inbox[a] \in Seq(Item) /\ got[a] \in Nat
  BY TypeParts DEF IInv
<1>2. <<>> \in Seq(Item) /\ Carries(<<>>) = 0 /\ inbox[a] = <<>> \o inbox[a]
  BY <1>1, FinTyped, ConcatEmptySeq
<1>3. "data" \in Item /\ "goodbye" \in Item /\ <<"fin">> \in Seq(Item)
  BY FinTyped DEF Item
<1>4. \E g \in {<<"data", "data">>, <<"goodbye">>} : items = g \o <<"fin">>
  BY DEF Goodbye
<1> HIDE DEF items
<1>5. /\ items \in Seq(Item)
      /\ \A i \in 1 .. Len(items) : items[i] \in {"goodbye", "fin"} =>
            \A j \in i + 1 .. Len(items) : items[i] = "goodbye" /\ items[j] = "fin"
  <2>0. PICK g \in {<<"data", "data">>, <<"goodbye">>} : items = g \o <<"fin">>
    BY <1>4
  <2>1. g \in Seq(Item) /\ Len(g) \in {1, 2}
        /\ (Len(g) = 1 => g[1] = "goodbye") /\ (Len(g) = 2 => g[1] = "data" /\ g[2] = "data")
    <3>1. <<"data", "data">> \in Seq(Item) /\ <<"goodbye">> \in Seq(Item)
      BY <1>3
    <3>2. CASE g = <<"data", "data">>
      BY <3>1, <3>2
    <3>3. CASE g = <<"goodbye">>
      BY <3>1, <3>3
    <3> QED BY <3>2, <3>3
  <2>2. /\ items \in Seq(Item) /\ Len(items) = Len(g) + 1
        /\ \A i \in 1 .. Len(g) + 1 : items[i] = IF i <= Len(g) THEN g[i] ELSE "fin"
    <3>1. items \in Seq(Item) /\ Len(items) = Len(g) + Len(<<"fin">>)
          /\ \A i \in 1 .. Len(g) + Len(<<"fin">>) :
                items[i] = IF i <= Len(g) THEN g[i] ELSE <<"fin">>[i - Len(g)]
      BY <1>3, <2>0, <2>1, ConcatProperties
    <3> QED BY <2>1, <3>1
  <2>3. CASE Len(g) = 1
    BY <2>1, <2>2, <2>3
  <2>4. CASE Len(g) = 2
    BY <2>1, <2>2, <2>4
  <2> QED BY <2>1, <2>2, <2>3, <2>4
<1>6. got' = [got EXCEPT ![a] = @ + Carries(<<>>)]
  BY <1>1, <1>2, TypeParts DEF Close
<1>7. Moves(a, "draining", <<>>, inbox[a], items)
  BY <1>1, <1>2, <1>5, <1>6 DEF Moves, Close, Open, TypeOK, items
<1>8. "draining" \in Phase \ {"errored", "closed"}
  BY DEF Phase
<1> QED BY <1>1, <1>2, <1>5, <1>7, <1>8, MovesKeep

\* A reply cannot be written: the peer has gone.
LEMMA ReplyFailsKeeps == ASSUME IInv, NEW a \in End, ReplyFails(a) PROVE IInv'
<1>1. phase[a] = "live" /\ phase[a] \in Open /\ inbox[a] # <<>> /\ reset[a]
  BY DEF ReplyFails, Open
<1>2. phase[Peer(a)] = "closed" /\ how[Peer(a)] \in GaveUp
  BY <1>1, StillOpen
<1>3. Tail(inbox[a]) \in Seq(Item)
  BY <1>1, TakesHead DEF ReplyFails
<1>4. Skips(a, "errored", Tail(inbox[a]))
  BY <1>1, <1>2, <1>3 DEF Skips, ReplyFails, Gone
<1> QED BY <1>4, SkipsKeep

\* The end is read, behind everything that carries.
LEMMA ReadEndKeeps == ASSUME IInv, NEW a \in End, ReadEnd(a) PROVE IInv'
<1>1. phase[a] = "live" /\ phase[a] \in Open
  BY DEF ReadEnd, Open
<1>2. TypeOK /\ LastWords(a) /\ inbox[a] \in Seq(Item)
  BY TypeParts DEF IInv, Sound
<1>3. phase[Peer(a)] \in Gone /\ (how[Peer(a)] \in GaveUp \/ Carries(inbox[a]) = 0)
  <2>1. CASE inbox[a] # <<>> /\ Head(inbox[a]) = "fin"
    BY <1>2, <2>1, FinIsLast
  <2>2. CASE reset[a]
    BY <1>1, <2>2, StillOpen DEF Gone
  <2> QED BY <2>1, <2>2 DEF ReadEnd
<1>4. inbox' = [inbox EXCEPT ![a] = inbox[a]]
  BY <1>2, TypeParts DEF ReadEnd
<1>5. Skips(a, "ended", inbox[a])
  BY <1>1, <1>2, <1>3, <1>4 DEF Skips, ReadEnd
<1> QED BY <1>5, SkipsKeep

\* The drain discards.
LEMMA DrainDataKeeps == ASSUME IInv, NEW a \in End, DrainData(a) PROVE IInv'
<1>1. Tail(inbox[a]) \in Seq(Item)
  BY TakesHead DEF DrainData
<1>2. phase' = [phase EXCEPT ![a] = "draining"]
  BY TypeParts DEF DrainData, IInv
<1>3. Skips(a, "draining", Tail(inbox[a]))
  BY <1>1, <1>2 DEF Skips, DrainData
<1> QED BY <1>3, SkipsKeep

\* The drain meets the FIN or an error.
LEMMA DrainEndsKeeps == ASSUME IInv, NEW a \in End, DrainEnds(a) PROVE IInv'
<1> DEFINE h == IF reset[a] THEN "error" ELSE "drained"
<1>1. Closes(a, h, <<>>)
  BY DEF DrainEnds, Closes
<1>2. h \in How \ {"open"}
  BY DEF How
<1> HIDE DEF h
<1> QED BY <1>1, <1>2, ClosesKeep

\* The drain gives up.
LEMMA DrainGivesUpKeeps == ASSUME IInv, NEW a \in End, DrainGivesUp(a) PROVE IInv'
<1>1. PICK h \in {"idle", "budget"} : how' = [how EXCEPT ![a] = h]
  BY DEF DrainGivesUp
<1>2. Closes(a, h, <<>>)
  BY <1>1 DEF DrainGivesUp, Closes
<1>3. h \in How \ {"open"}
  BY DEF How
<1> QED BY <1>2, <1>3, ClosesKeep

\* The session is dropped.
LEMMA DropKeeps == ASSUME IInv, NEW a \in End, Drop(a) PROVE IInv'
<1>1. Closes(a, "dropped", <<"fin">>)
  BY DEF Drop, Closes, Open
<1>2. "dropped" \in How \ {"open"}
  BY DEF How
<1> QED BY <1>1, <1>2, ClosesKeep

\* The invariant holds initially, ...
LEMMA InitSound == Init => IInv
<1> SUFFICES ASSUME Init PROVE IInv
  OBVIOUS
<1>1. <<>> \in Seq(Item) /\ Carries(<<>>) = 0
  BY FinTyped
<1>2. \A e \in End : Peer(e) \in End
  BY PeerDiffers
<1>3. TypeOK
  BY <1>1, <1>2 DEF Init, TypeOK, Phase, How
<1>4. ASSUME NEW e \in End PROVE Sound(e)
  <2>1. phase[e] = "live" /\ inbox[e] = <<>> /\ ~reset[e] /\ how[e] = "open" /\ got[e] = 0
        /\ flushed[Peer(e)] = 0
    BY <1>2 DEF Init
  <2>2. HowAgrees(e) /\ LastWords(e) /\ PeerGone(e) /\ Explained(e)
    BY <2>1 DEF HowAgrees, LastWords, PeerGone, Explained, Stopped
  <2>3. Kept(e)
    BY <1>1, <2>1 DEF Kept, Stopped
  <2> QED BY <2>2, <2>3 DEF Sound
<1> QED BY <1>3, <1>4 DEF IInv

\* ... and is kept by every step.
LEMMA StepSound == IInv /\ Next => IInv'
BY SendKeeps, ReadKeeps, ReadAndReplyKeeps, ReplyFailsKeeps, ReadEndKeeps, CloseKeeps,
   DrainDataKeeps, DrainEndsKeeps, DrainGivesUpKeeps, DropKeeps DEF Next, Reads, Drains

\* The invariant holds of every reachable state.
LEMMA AlwaysSound == Spec => []IInv
<1>1. IInv /\ UNCHANGED vars => IInv'
  BY DEF IInv, TypeOK, Sound, HowAgrees, LastWords, PeerGone, Explained, Kept, Stopped, vars
<1> QED BY <1>1, InitSound, StepSound, PTL DEF Spec

-----------------------------------------------------------------------------
(* The theorems. *)

\* Every reachable state is well typed, and no end gets more than its peer wrote.
THEOREM TypeCorrect == Spec => []TypeOK
<1>1. IInv => TypeOK
  BY DEF IInv
<1> QED BY <1>1, AlwaysSound, PTL

\* A reset is always the work of an end that gave up.
THEOREM ResetsHaveCause == Spec => []ResetsExplained
<1>1. IInv => ResetsExplained
  BY DEF IInv, Sound, Explained, ResetsExplained, GaveUp
<1> QED BY <1>1, AlwaysSound, PTL

\* A session whose polls came to an end has been given everything its peer wrote, unless
\* the peer dropped its session or its drain ran into a time limit.
THEOREM OrderlyCloseKeepsAll == Spec => []NothingLost
<1>1. IInv => NothingLost
  <2> SUFFICES ASSUME IInv, NEW e \in End, Stopped(e), how[Peer(e)] \notin GaveUp
               PROVE  got[e] = flushed[Peer(e)]
    BY DEF NothingLost, GaveUp
  <2>1. got[e] + Carries(inbox[e]) = flushed[Peer(e)] /\ Carries(inbox[e]) = 0
    BY DEF IInv, Sound, Kept, Stopped, Open
  <2>2. got[e] \in Nat
    BY DEF IInv, TypeOK
  <2> QED BY <2>1, <2>2
<1> QED BY <1>1, AlwaysSound, PTL
=============================================================================
