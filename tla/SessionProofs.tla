--------------------------- MODULE SessionProofs ---------------------------
(***************************************************************************)
(* Proofs about Session: types, order and chunk sizes on every connection, *)
(* and what the relay promises its subscribers.                            *)
(***************************************************************************)
EXTENDS Session, Flattening

Time == 0 .. TsMod - 1

-----------------------------------------------------------------------------
(* Messages. *)

\* Times on the circle: what wraps stays in range, by one turn at most.
LEMMA Wraps ==
    ASSUME NEW a \in Int
    PROVE  /\ a % TsMod \in Time
           /\ a \in Time => a % TsMod = a
           /\ a - TsMod \in Time => a % TsMod = a - TsMod
           /\ a + TsMod \in Time => a % TsMod = a + TsMod
BY TimestampModulus DEF Time

\* The fields of a message, and which of them hold others.
LEMMA LeafFields ==
    ASSUME NEW m \in Leaf
    PROVE  /\ m.kind \in Kinds /\ m.kind # "Aggregate" /\ m.name \in Names /\ m.val \in Nat
           /\ m.ts \in Time /\ m.subs = <<>>
BY DEF Leaf, Time, Kinds, Media, Rpc, Replies, Controls, UserControls, Farewells

LEMMA AggregateFields ==
    ASSUME NEW S, NEW m \in AggregateOf(S)
    PROVE  /\ m.kind = "Aggregate" /\ m.name = "" /\ m.val = 0 /\ m.ts \in Time
           /\ m.subs \in Seq(S)
BY DEF AggregateOf, Time

LEMMA SubsAreMessages == Leaf \subseteq Sub /\ Sub \subseteq Message
<1>1. ASSUME NEW m \in AggregateOf(Leaf) PROVE m \in AggregateOf(Sub)
  <2>1. m.subs \in Seq(Sub)
    <3>1. m.subs \in Seq(Leaf) /\ Leaf \subseteq Sub
      BY DEF AggregateOf, Sub
    <3> QED BY <3>1, SeqMonotonic
  <2> QED BY <2>1 DEF AggregateOf
<1> QED BY <1>1 DEF Sub, Message

\* What is no aggregate is a leaf.
LEMMA KindsOfMessages ==
    /\ \A m \in Sub : m.kind # "Aggregate" => m \in Leaf
    /\ \A m \in Sub : m.kind = "Aggregate" => m \in AggregateOf(Leaf)
    /\ \A m \in Message : m.kind # "Aggregate" => m \in Leaf
    /\ \A m \in Message : m.kind = "Aggregate" => m \in AggregateOf(Sub)
BY LeafFields, AggregateFields DEF Sub, Message

\* The records of the constructors.
LEMMA NamedFields ==
    ASSUME NEW k \in Kinds, NEW n \in Names, NEW v \in Nat
    PROVE  /\ Named(k, n, v) \in Leaf
           /\ Named(k, n, v).kind = k /\ Named(k, n, v).name = n /\ Named(k, n, v).val = v
<1>1. 0 \in 0 .. TsMod - 1
  BY TimestampModulus
<1> QED BY <1>1 DEF Named, Leaf

LEMMA PlainFields ==
    ASSUME NEW k \in Kinds, NEW v \in Nat
    PROVE  Plain(k, v) \in Leaf /\ Plain(k, v).kind = k /\ Plain(k, v).val = v
<1>1. "" \in Names
  BY HandlerNames
<1>2. \A n \in Names : /\ Named(k, n, v) \in Leaf
                       /\ Named(k, n, v).kind = k /\ Named(k, n, v).val = v
  BY NamedFields
<1> QED BY <1>1, <1>2 DEF Plain

\* A message at another time.
LEMMA Retimed ==
    ASSUME NEW t \in Time
    PROVE  /\ \A m \in Leaf : [m EXCEPT !.ts = t] \in Leaf
           /\ \A m \in Sub : [m EXCEPT !.ts = t] \in Sub
<1>1. \A m \in Leaf : [m EXCEPT !.ts = t] \in Leaf
  BY DEF Leaf, Time
<1>2. \A m \in AggregateOf(Leaf) : [m EXCEPT !.ts = t] \in AggregateOf(Leaf)
  BY DEF AggregateOf, Time
<1> QED BY <1>1, <1>2 DEF Sub

LEMMA SubTimes ==
    ASSUME NEW m \in Sub
    PROVE  /\ m.ts \in Time /\ m.ts \in Int
           /\ \A t : [m EXCEPT !.ts = t].ts = t
           /\ [m EXCEPT !.ts = m.ts] = m
<1>1. CASE m \in Leaf
  BY <1>1, TimestampModulus DEF Leaf, Time
<1>2. CASE m \in AggregateOf(Leaf)
  <2>1. m.ts \in Time /\ m.ts \in Int
    <3>1. m.ts \in Time
      BY <1>2, AggregateFields
    <3> QED BY <3>1, TimestampModulus DEF Time
  <2>2. \A t : [m EXCEPT !.ts = t].ts = t
    BY <1>2 DEF AggregateOf
  <2>3. [m EXCEPT !.ts = m.ts] = m
    BY <1>2 DEF AggregateOf
  <2> QED BY <2>1, <2>2, <2>3
<1> QED BY <1>1, <1>2 DEF Sub

-----------------------------------------------------------------------------
(* Aggregates. *)

\* A parsed aggregate holds messages of the same sort.
LEMMA ParsedTyped ==
    /\ \A m \in AggregateOf(Leaf) : ParseAggregate(m) \in Seq(Leaf)
    /\ \A m \in AggregateOf(Sub) : ParseAggregate(m) \in Seq(Sub)
<1>1. ASSUME NEW S, S \subseteq Sub, \A t \in Time : \A x \in S : [x EXCEPT !.ts = t] \in S,
             NEW m \in AggregateOf(S)
      PROVE  ParseAggregate(m) \in Seq(S)
  <2>1. m.subs \in Seq(S) /\ m.ts \in Time
    BY AggregateFields
  <2>2. ASSUME NEW i \in 1 .. Len(m.subs)
        PROVE  [m.subs[i] EXCEPT !.ts = (@ + m.ts - m.subs[1].ts) % TsMod] \in S
    <3>1. m.subs[i] \in S /\ m.subs[1] \in S
      BY <2>1
    <3>2. m.subs[i].ts \in Int /\ m.subs[1].ts \in Int /\ m.ts \in Int
      BY <1>1, <2>1, <3>1, SubTimes, TimestampModulus DEF Time
    <3>3. (m.subs[i].ts + m.ts - m.subs[1].ts) % TsMod \in Time
      BY <3>2, Wraps
    <3> QED BY <1>1, <3>1, <3>3
  <2>3. DOMAIN m.subs = 1 .. Len(m.subs) /\ Len(m.subs) \in Nat
    BY <2>1
  <2> QED BY <2>2, <2>3 DEF ParseAggregate
<1>2. Leaf \subseteq Sub
  BY SubsAreMessages
<1> QED BY <1>1, <1>2, Retimed

\* An aggregate that was packed here is parsed as it was packed.
LEMMA BuiltParsed ==
    ASSUME NEW m, m \in AggregateOf(Leaf) \/ m \in AggregateOf(Sub), Built(m)
    PROVE  ParseAggregate(m) = m.subs
<1>1. PICK S : S \in {Leaf, Sub} /\ m \in AggregateOf(S)
  OBVIOUS
<1>2. m.subs \in Seq(S) /\ m.kind = "Aggregate" /\ m.ts \in Time
  BY <1>1, AggregateFields
<1>3. ASSUME NEW i \in DOMAIN m.subs
      PROVE  [m.subs[i] EXCEPT !.ts = (@ + m.ts - m.subs[1].ts) % TsMod] = m.subs[i]
  <2>1. m.subs[i] \in S /\ m.subs[1] \in S /\ m.subs # <<>>
    BY <1>2
  <2>2. /\ m.subs[i].ts \in Time /\ m.subs[1].ts \in Time
        /\ \A t : [m.subs[i] EXCEPT !.ts = t].ts = t
        /\ [m.subs[i] EXCEPT !.ts = m.subs[i].ts] = m.subs[i]
    <3>1. m.subs[i] \in Sub /\ m.subs[1] \in Sub
      BY <1>1, <2>1 DEF Sub
    <3> QED BY <3>1, SubTimes
  <2>3. m.ts = m.subs[1].ts
    BY <1>2, <2>1 DEF Built, BuildAggregate, At, Plain, Named
  <2>4. m.subs[i].ts + m.ts - m.subs[1].ts = m.subs[i].ts
    BY <2>2, <2>3 DEF Time
  <2>5. m.subs[i].ts % TsMod = m.subs[i].ts
    BY <2>2, Wraps DEF Time
  <2> QED BY <2>2, <2>4, <2>5
<1>4. m.subs = [i \in DOMAIN m.subs |-> m.subs[i]]
  BY <1>2
<1> QED BY <1>3, <1>4 DEF ParseAggregate

\* So is one that was shifted by its packer.
LEMMA ShiftedParsed ==
    ASSUME NEW m \in AggregateOf(Sub), Built(m), NEW shift \in 1 .. TsMod - 1
    PROVE  /\ Shifted(m, shift) \in AggregateOf(Sub)
           /\ ParseAggregate(Shifted(m, shift)) = m.subs
<1> DEFINE back(i) == (m.subs[i].ts - shift) % TsMod
           subs == [i \in DOMAIN m.subs |-> [m.subs[i] EXCEPT !.ts = back(i)]]
<1>1. /\ m.subs \in Seq(Sub) /\ m.kind = "Aggregate" /\ m.ts \in Time
      /\ DOMAIN m.subs = 1 .. Len(m.subs) /\ Len(m.subs) \in Nat /\ shift \in Int
  <2>1. m.subs \in Seq(Sub) /\ m.kind = "Aggregate" /\ m.ts \in Time
    BY AggregateFields
  <2> QED BY <2>1, TimestampModulus
<1>2. ASSUME NEW i \in DOMAIN m.subs
      PROVE  /\ m.subs[i] \in Sub /\ m.subs[i].ts \in Time /\ m.subs[i].ts \in Int
             /\ back(i) \in Time /\ back(i) \in Int
  <2>1. m.subs[i] \in Sub
    BY <1>1
  <2>2. m.subs[i].ts \in Time /\ m.subs[i].ts \in Int
    BY <2>1, SubTimes
  <2>3. m.subs[i].ts - shift \in Int
    BY <1>1, <2>2
  <2>4. back(i) \in Time
    BY <2>3, Wraps
  <2> QED BY <2>1, <2>2, <2>4, TimestampModulus DEF Time
<1>3. subs \in Seq(Sub) /\ DOMAIN subs = DOMAIN m.subs
  <2>1. \A i \in DOMAIN m.subs : [m.subs[i] EXCEPT !.ts = back(i)] \in Sub
    <3> HIDE DEF back
    <3> QED BY <1>2, Retimed
  <2>2. DOMAIN subs = 1 .. Len(m.subs) /\ \A i \in 1 .. Len(m.subs) : subs[i] \in Sub
    <3> HIDE DEF back
    <3> QED BY <1>1, <2>1
  <2>3. subs = [i \in 1 .. Len(m.subs) |-> subs[i]]
    BY <1>1
  <2> HIDE DEF subs
  <2>4. subs \in [1 .. Len(m.subs) -> Sub]
    BY <2>2, <2>3
  <2>5. subs \in Seq(Sub)
    BY <1>1, <2>4, SeqDef
  <2> QED BY <1>1, <2>2, <2>5
<1>4. /\ Shifted(m, shift) \in AggregateOf(Sub)
      /\ Shifted(m, shift).subs = subs /\ Shifted(m, shift).ts = m.ts
  <2>1. Shifted(m, shift) = [m EXCEPT !.subs = subs]
    BY DEF Shifted
  <2> HIDE DEF subs
  <2> QED BY <1>3, <2>1 DEF AggregateOf
<1>5. ASSUME NEW i \in DOMAIN m.subs
      PROVE  [subs[i] EXCEPT !.ts = (@ + m.ts - subs[1].ts) % TsMod] = m.subs[i]
  <2>1. m.subs # <<>> /\ 1 \in DOMAIN m.subs
    BY <1>1
  <2>2. m.ts = m.subs[1].ts
    BY <1>1, <2>1 DEF Built, BuildAggregate, At, Plain, Named
  <2>3. subs[i] = [m.subs[i] EXCEPT !.ts = back(i)] /\ subs[1] = [m.subs[1] EXCEPT !.ts = back(1)]
    BY <2>1
  <2>4. subs[i].ts = back(i) /\ subs[1].ts = back(1)
    <3> HIDE DEF back, subs
    <3> QED BY <1>2, <2>1, <2>3, SubTimes
  <2>5. (back(i) + m.ts - back(1)) % TsMod = m.subs[i].ts
    <3> DEFINE x == m.subs[i].ts
               y == m.subs[1].ts
    <3>1. x \in Time /\ y \in Time /\ shift \in 1 .. TsMod - 1 /\ TsMod \in Nat \ {0}
      BY <1>2, <2>1, TimestampModulus
    <3>2. back(i) = IF x >= shift THEN x - shift ELSE x - shift + TsMod
      <4> HIDE DEF x
      <4>1. x - shift \in Int /\ (x >= shift => x - shift \in Time)
            /\ (x < shift => x - shift + TsMod \in Time) /\ x \in Int
        BY <3>1 DEF Time
      <4>2. back(i) = (x - shift) % TsMod
        BY DEF x
      <4> HIDE DEF back
      <4> QED BY <4>1, <4>2, Wraps
    <3>3. back(1) = IF y >= shift THEN y - shift ELSE y - shift + TsMod
      <4> HIDE DEF y
      <4>1. y - shift \in Int /\ (y >= shift => y - shift \in Time)
            /\ (y < shift => y - shift + TsMod \in Time) /\ y \in Int
        BY <3>1 DEF Time
      <4>2. back(1) = (y - shift) % TsMod
        BY DEF y
      <4> HIDE DEF back
      <4> QED BY <4>1, <4>2, Wraps
    <3>4. m.ts = y
      BY <2>2
    <3> HIDE DEF x, y, back
    <3>5. PICK d : d = back(i) + m.ts - back(1)
      OBVIOUS
    <3>6. d \in {x, x - TsMod, x + TsMod}
      BY <3>1, <3>2, <3>3, <3>4, <3>5 DEF Time
    <3>7. d \in Int /\ x \in Time /\ (x = d \/ x = d - TsMod \/ x = d + TsMod)
      BY <3>1, <3>6 DEF Time
    <3>8. d % TsMod = x
      BY <3>7, Wraps
    <3> QED BY <3>5, <3>8 DEF x
  <2>6. [subs[i] EXCEPT !.ts = (@ + m.ts - subs[1].ts) % TsMod]
        = [subs[i] EXCEPT !.ts = m.subs[i].ts]
    BY <2>4, <2>5
  <2>7. [subs[i] EXCEPT !.ts = m.subs[i].ts] = m.subs[i]
    <3>1. m.subs[i] \in Sub
      BY <1>2
    <3>2. \A x \in Sub : \A t : [[x EXCEPT !.ts = t] EXCEPT !.ts = x.ts] = x
      BY DEF Sub, Leaf, AggregateOf
    <3> HIDE DEF subs, back
    <3> QED BY <2>3, <3>1, <3>2
  <2> QED BY <2>6, <2>7
<1>6. m.subs = [i \in DOMAIN m.subs |-> m.subs[i]]
  BY <1>1
<1>7. ParseAggregate(Shifted(m, shift)) = [i \in DOMAIN subs |->
          [subs[i] EXCEPT !.ts = (@ + m.ts - subs[1].ts) % TsMod]]
  BY <1>4 DEF ParseAggregate
<1> HIDE DEF subs
<1> QED BY <1>3, <1>4, <1>5, <1>6, <1>7

-----------------------------------------------------------------------------
(* What a message comes to: as its writer meant it, and as it will be handled. *)

meantOf == [m \in Sub |-> IF m.kind = "Aggregate" THEN m.subs ELSE <<m>>]
unpack == [m \in Message |-> Unpacked(m)]
openSub == [m \in Sub |-> IF m.kind = "Aggregate" THEN ParseAggregate(m) ELSE <<m>>]
open == [m \in Message |->
           IF m.kind = "Aggregate" THEN Bring(openSub, ParseAggregate(m)) ELSE <<m>>]
Entry == [msg : Message, size : Nat]
openEntry == [q \in Entry |-> open[q.msg]]

LEMMA Singles == \A m \in Leaf : <<m>> \in Seq(Leaf)
OBVIOUS

LEMMA MeantTyped ==
    /\ meantOf \in [Sub -> Seq(Leaf)]
    /\ unpack \in [Message -> Seq(Leaf)]
<1>1. ASSUME NEW m \in Sub
      PROVE  (IF m.kind = "Aggregate" THEN m.subs ELSE <<m>>) \in Seq(Leaf)
  BY KindsOfMessages, AggregateFields, Singles
<1>2. meantOf \in [Sub -> Seq(Leaf)]
  BY <1>1 DEF meantOf
<1>3. ASSUME NEW m \in Message PROVE Unpacked(m) \in Seq(Leaf)
  <2>1. CASE m.kind # "Aggregate"
    BY <2>1, KindsOfMessages, Singles DEF Unpacked
  <2>2. CASE m.kind = "Aggregate"
    <3>1. m.subs \in Seq(Sub)
      BY <2>2, KindsOfMessages, AggregateFields
    <3>2. Unpacked(m) = Bring(meantOf, m.subs)
      <4>1. \A i \in DOMAIN m.subs : m.subs[i] \in Sub
        BY <3>1
      <4> QED BY <2>2, <4>1 DEF Unpacked, Bring, meantOf
    <3>3. Bring(meantOf, m.subs) \in Seq(Leaf)
      BY <1>2, <3>1, BringTyped
    <3> QED BY <3>2, <3>3
  <2> QED BY <2>1, <2>2
<1> QED BY <1>2, <1>3 DEF unpack

LEMMA OpenTyped ==
    /\ openSub \in [Sub -> Seq(Leaf)]
    /\ open \in [Message -> Seq(Leaf)]
    /\ openEntry \in [Entry -> Seq(Leaf)]
<1>1. ASSUME NEW m \in Sub
      PROVE  (IF m.kind = "Aggregate" THEN ParseAggregate(m) ELSE <<m>>) \in Seq(Leaf)
  BY KindsOfMessages, ParsedTyped, Singles
<1>2. openSub \in [Sub -> Seq(Leaf)]
  BY <1>1 DEF openSub
<1>3. ASSUME NEW m \in Message
      PROVE  (IF m.kind = "Aggregate" THEN Bring(openSub, ParseAggregate(m)) ELSE <<m>>)
             \in Seq(Leaf)
  <2>1. CASE m.kind # "Aggregate"
    BY <2>1, KindsOfMessages, Singles
  <2>2. CASE m.kind = "Aggregate"
    <3>1. ParseAggregate(m) \in Seq(Sub)
      BY <2>2, KindsOfMessages, ParsedTyped
    <3>2. PICK p \in Seq(Sub) : p = ParseAggregate(m)
      BY <3>1
    <3>3. Bring(openSub, p) \in Seq(Leaf)
      BY <1>2, BringTyped
    <3> QED BY <2>2, <3>2, <3>3
  <2> QED BY <2>1, <2>2
<1>4. open \in [Message -> Seq(Leaf)]
  BY <1>3 DEF open
<1>5. openEntry \in [Entry -> Seq(Leaf)]
  <2>1. \A q \in Entry : q.msg \in Message
    BY DEF Entry
  <2> QED BY <1>4, <2>1 DEF openEntry
<1> QED BY <1>2, <1>4, <1>5

\* Sequences of messages, likewise.
LEMMA UnpackLaws ==
    /\ \A a \in Seq(Message) : Bring(unpack, a) \in Seq(Leaf)
    /\ Bring(unpack, <<>>) = <<>>
    /\ \A x \in Message : Bring(unpack, <<x>>) = unpack[x]
    /\ \A a, b \in Seq(Message) : Bring(unpack, a \o b) = Bring(unpack, a) \o Bring(unpack, b)
    /\ \A a \in Seq(Message), x \in Message :
          /\ Bring(unpack, Append(a, x)) = Bring(unpack, a) \o unpack[x]
          /\ Bring(unpack, <<x>> \o a) = unpack[x] \o Bring(unpack, a)
<1>1. unpack \in [Message -> Seq(Leaf)]
  BY MeantTyped
<1>2. Laws(unpack, Message, Leaf)
  BY <1>1, BringLaws
<1> QED BY <1>2 DEF Laws

LEMMA OpenSubLaws ==
    /\ \A a \in Seq(Sub) : Bring(openSub, a) \in Seq(Leaf)
    /\ Bring(openSub, <<>>) = <<>>
    /\ \A x \in Sub : Bring(openSub, <<x>>) = openSub[x]
    /\ \A a, b \in Seq(Sub) : Bring(openSub, a \o b) = Bring(openSub, a) \o Bring(openSub, b)
    /\ \A a \in Seq(Sub), x \in Sub :
          /\ Bring(openSub, Append(a, x)) = Bring(openSub, a) \o openSub[x]
          /\ Bring(openSub, <<x>> \o a) = openSub[x] \o Bring(openSub, a)
<1>1. openSub \in [Sub -> Seq(Leaf)]
  BY OpenTyped
<1>2. Laws(openSub, Sub, Leaf)
  BY <1>1, BringLaws
<1> QED BY <1>2 DEF Laws

LEMMA OpenEntryLaws ==
    /\ \A a \in Seq(Entry) : Bring(openEntry, a) \in Seq(Leaf)
    /\ Bring(openEntry, <<>>) = <<>>
    /\ \A x \in Entry : Bring(openEntry, <<x>>) = openEntry[x]
    /\ \A a, b \in Seq(Entry) : Bring(openEntry, a \o b) = Bring(openEntry, a) \o Bring(openEntry, b)
    /\ \A a \in Seq(Entry), x \in Entry :
          /\ Bring(openEntry, Append(a, x)) = Bring(openEntry, a) \o openEntry[x]
          /\ Bring(openEntry, <<x>> \o a) = openEntry[x] \o Bring(openEntry, a)
<1>1. openEntry \in [Entry -> Seq(Leaf)]
  BY OpenTyped
<1>2. Laws(openEntry, Entry, Leaf)
  BY <1>1, BringLaws
<1> QED BY <1>2 DEF Laws

\* What is on its way will be handled as it was meant.
LEMMA OpensAsMeant ==
    ASSUME NEW m \in Message, Built(m), \A i \in DOMAIN m.subs : Built(m.subs[i])
    PROVE  /\ open[m] = unpack[m]
           /\ m.kind = "Aggregate" => \A shift \in 1 .. TsMod - 1 :
                 /\ Shifted(m, shift) \in Message /\ Shifted(m, shift).kind = "Aggregate"
                 /\ open[Shifted(m, shift)] = unpack[m]
                 /\ Len(Shifted(m, shift).subs) = Len(m.subs)
                 /\ \A i \in DOMAIN m.subs : Shifted(m, shift).subs[i].kind = m.subs[i].kind
<1>1. CASE m.kind # "Aggregate"
  BY <1>1 DEF open, unpack, Unpacked
<1>2. CASE m.kind = "Aggregate"
  <2>1. m \in AggregateOf(Sub) /\ m.subs \in Seq(Sub)
    BY <1>2, KindsOfMessages, AggregateFields
  <2>2. \A i \in DOMAIN m.subs : m.subs[i] \in Sub
    BY <2>1
  <2>3. Bring(openSub, m.subs) = unpack[m]
    <3>1. ASSUME NEW i \in DOMAIN m.subs
          PROVE  openSub[m.subs[i]] = IF m.subs[i].kind = "Aggregate" THEN m.subs[i].subs
                                      ELSE <<m.subs[i]>>
      <4>1. m.subs[i].kind = "Aggregate" => m.subs[i] \in AggregateOf(Leaf)
        BY <2>2, KindsOfMessages
      <4>2. m.subs[i].kind = "Aggregate" => ParseAggregate(m.subs[i]) = m.subs[i].subs
        BY <4>1, BuiltParsed
      <4> QED BY <2>2, <4>2 DEF openSub
    <3> QED BY <1>2, <3>1 DEF Bring, unpack, Unpacked
  <2>4. open[m] = unpack[m]
    <3>1. ParseAggregate(m) = m.subs
      BY <2>1, BuiltParsed
    <3> QED BY <1>2, <2>3, <3>1 DEF open
  <2>5. ASSUME NEW shift \in 1 .. TsMod - 1
        PROVE  /\ Shifted(m, shift) \in AggregateOf(Sub)
               /\ ParseAggregate(Shifted(m, shift)) = m.subs
    BY <2>1, ShiftedParsed
  <2>6. ASSUME NEW shift \in 1 .. TsMod - 1
        PROVE  /\ Len(Shifted(m, shift).subs) = Len(m.subs)
               /\ \A i \in DOMAIN m.subs : Shifted(m, shift).subs[i].kind = m.subs[i].kind
    <3>1. Shifted(m, shift).subs = [i \in DOMAIN m.subs |->
                           [m.subs[i] EXCEPT !.ts = (@ - shift) % TsMod]]
      BY <2>1 DEF Shifted, AggregateOf
    <3>2. \A x \in Sub : \A t : [x EXCEPT !.ts = t].kind = x.kind
      BY DEF Sub, Leaf, AggregateOf
    <3>3. \A i \in DOMAIN m.subs : Shifted(m, shift).subs[i].kind = m.subs[i].kind
      BY <2>2, <3>1, <3>2
    <3>4. Shifted(m, shift).subs \in Seq(Sub) /\ DOMAIN Shifted(m, shift).subs = DOMAIN m.subs
      BY <2>5, <3>1, AggregateFields
    <3> HIDE DEF Shifted
    <3> QED BY <2>1, <3>3, <3>4
  <2>7. \A shift \in 1 .. TsMod - 1 :
           /\ Shifted(m, shift) \in Message /\ Shifted(m, shift).kind = "Aggregate"
           /\ open[Shifted(m, shift)] = unpack[m]
    <3>1. ASSUME NEW x \in AggregateOf(Sub), ParseAggregate(x) = m.subs
          PROVE  x \in Message /\ x.kind = "Aggregate" /\ open[x] = unpack[m]
      <4>1. x \in Message /\ x.kind = "Aggregate"
        BY AggregateFields DEF Message
      <4> QED BY <2>3, <3>1, <4>1 DEF open
    <3> HIDE DEF Shifted
    <3> QED BY <2>5, <3>1
  <2> QED BY <2>4, <2>6, <2>7
<1> QED BY <1>1, <1>2

-----------------------------------------------------------------------------
(* Chunk sizes. *)

changes == [m \in Leaf |-> IF m.kind = "SetChunkSize" THEN <<m>> ELSE <<>>]

LEMMA Changes ==
    /\ changes \in [Leaf -> Seq(Leaf)]
    /\ \A ms \in Seq(Leaf) : Those(ms, LAMBDA m : m.kind = "SetChunkSize") = Bring(changes, ms)
<1>1. changes \in [Leaf -> Seq(Leaf)]
  BY Singles, EmptySeq DEF changes
<1>2. ASSUME NEW ms \in Seq(Leaf)
      PROVE  Those(ms, LAMBDA m : m.kind = "SetChunkSize") = Bring(changes, ms)
  <2>1. \A i \in DOMAIN ms : ms[i] \in Leaf
    OBVIOUS
  <2> QED BY <2>1 DEF Those, Bring, changes
<1> QED BY <1>1, <1>2

LEMMA ChangesLaws ==
    /\ \A a \in Seq(Leaf) : Bring(changes, a) \in Seq(Leaf)
    /\ Bring(changes, <<>>) = <<>>
    /\ \A x \in Leaf : Bring(changes, <<x>>) = changes[x]
    /\ \A a, b \in Seq(Leaf) : Bring(changes, a \o b) = Bring(changes, a) \o Bring(changes, b)
    /\ \A a \in Seq(Leaf), x \in Leaf :
          /\ Bring(changes, Append(a, x)) = Bring(changes, a) \o changes[x]
          /\ Bring(changes, <<x>> \o a) = changes[x] \o Bring(changes, a)
<1>1. changes \in [Leaf -> Seq(Leaf)]
  BY Changes
<1>2. Laws(changes, Leaf, Leaf)
  BY <1>1, BringLaws
<1> QED BY <1>2 DEF Laws

LEMMA SizeAfterOne ==
    ASSUME NEW size \in Nat, NEW m \in Leaf
    PROVE  /\ SizeAfter(size, <<>>) = size
           /\ SizeAfter(size, <<m>>) = IF m.kind = "SetChunkSize" THEN m.val ELSE size
<1>1. <<>> \in Seq(Leaf) /\ <<m>> \in Seq(Leaf)
  BY EmptySeq
<1>2. Bring(changes, <<>>) = <<>> /\ Bring(changes, <<m>>) = changes[m]
  BY ChangesLaws
<1>3. changes[m] = IF m.kind = "SetChunkSize" THEN <<m>> ELSE <<>>
  BY DEF changes
<1>4. Last(<<m>>) = m /\ <<m>> # <<>>
  BY DEF Last
<1> QED BY <1>1, <1>2, <1>3, <1>4, Changes DEF SizeAfter

LEMMA SizeAfterTwo ==
    ASSUME NEW size \in Nat, NEW a \in Seq(Leaf), NEW b \in Seq(Leaf)
    PROVE  /\ SizeAfter(size, a) \in Nat
           /\ SizeAfter(size, a \o b) = SizeAfter(SizeAfter(size, a), b)
<1>1. PICK u, v, w : /\ u = Bring(changes, a) /\ v = Bring(changes, b)
                     /\ w = Bring(changes, a \o b)
  OBVIOUS
<1>2. u \in Seq(Leaf) /\ v \in Seq(Leaf) /\ w = u \o v
  BY <1>1, ChangesLaws
<1>3. a \o b \in Seq(Leaf)
  OBVIOUS
<1>4. /\ \A z : SizeAfter(z, a) = IF u = <<>> THEN z ELSE Last(u).val
      /\ \A z : SizeAfter(z, b) = IF v = <<>> THEN z ELSE Last(v).val
      /\ \A z : SizeAfter(z, a \o b) = IF w = <<>> THEN z ELSE Last(w).val
  BY <1>1, <1>3, Changes DEF SizeAfter
<1>5. u # <<>> => Last(u).val \in Nat
  <2>1. u # <<>> => Last(u) \in Leaf
    BY <1>2, EmptySeq DEF Last
  <2> QED BY <2>1, LeafFields
<1>6. /\ v = <<>> => w = u
      /\ v # <<>> => w # <<>> /\ Last(w) = Last(v)
  <2>1. v = <<>> => w = u
    BY <1>2, ConcatEmptySeq
  <2>2. ASSUME v # <<>> PROVE w # <<>> /\ Last(w) = Last(v)
    <3>1. /\ Len(w) = Len(u) + Len(v) /\ Len(u) \in Nat /\ Len(v) \in Nat \ {0}
          /\ \A i \in 1 .. Len(u) + Len(v) : w[i] = IF i <= Len(u) THEN u[i] ELSE v[i - Len(u)]
      BY <1>2, <2>2, ConcatProperties, EmptySeq, LenProperties
    <3>2. ~(Len(w) <= Len(u)) /\ Len(w) \in 1 .. Len(u) + Len(v) /\ Len(w) - Len(u) = Len(v)
      BY <3>1
    <3>3. w[Len(w)] = v[Len(v)]
      BY <3>1, <3>2
    <3>4. w # <<>>
      BY <3>1, EmptySeq
    <3> QED BY <3>3, <3>4 DEF Last
  <2> QED BY <2>1, <2>2
<1> QED BY <1>4, <1>5, <1>6

-----------------------------------------------------------------------------
(* One direction of a connection: h has been handled, u waits in the reader's queue, q *)
(* is on its way, s was written; the reader's chunk size is z, the writer's is o.      *)

AtEntry(q, o, i) == IF i <= Len(q) THEN q[i].size ELSE o

Accounted(h, u, q, s) ==
    Bring(unpack, s) = h \o (Bring(openSub, u) \o Bring(openEntry, q))

Sized(z, u, q, o) ==
    /\ AtEntry(q, o, 1) = SizeAfter(z, Bring(openSub, u))
    /\ \A i \in 1 .. Len(q) : AtEntry(q, o, i + 1) = SizeAfter(q[i].size, openEntry[q[i]])

\* An aggregate in a queue, or in another one, stands last.
LastOnly(u) == \A i \in DOMAIN u : u[i].kind = "Aggregate" => i = Len(u)

Channel(h, u, z, q, o, s) ==
    /\ Accounted(h, u, q, s) /\ Sized(z, u, q, o)
    /\ LastOnly(u) /\ \A i \in DOMAIN q : LastOnly(q[i].msg.subs)

\* A queue of leaves is handled as it stands.
LEMMA LeavesOpen == \A s \in Seq(Leaf) : Bring(openSub, s) = s
<1> DEFINE P == {s \in Seq(Leaf) : Bring(openSub, s) = s}
<1>1. openSub \in [Sub -> Seq(Leaf)] /\ Leaf \subseteq Sub
  BY OpenTyped, SubsAreMessages
<1>2. <<>> \in P
  <2>1. <<>> \in Seq(Sub) /\ <<>> \in Seq(Leaf)
    BY EmptySeq
  <2>2. Bring(openSub, <<>>) = <<>>
    BY OpenSubLaws
  <2> QED BY <2>1, <2>2
<1>3. ASSUME NEW s \in Seq(Leaf), NEW x \in Leaf, s \in P PROVE Append(s, x) \in P
  <2>1. s \in Seq(Sub) /\ x \in Sub
    BY <1>1, SeqMonotonic
  <2>2. Bring(openSub, Append(s, x)) = Bring(openSub, s) \o openSub[x]
    BY <2>1, OpenSubLaws
  <2>3. openSub[x] = <<x>>
    BY <2>1, LeafFields DEF openSub
  <2>4. Append(s, x) = s \o <<x>> /\ Append(s, x) \in Seq(Leaf)
    OBVIOUS
  <2> QED BY <1>3, <2>2, <2>3, <2>4
<1> HIDE DEF P
<1>4. Seq(Leaf) \subseteq P
  BY <1>2, <1>3, InductionOnAppend
<1> QED BY <1>4 DEF P

\* The first of a queue, and the rest.
LEMMA HeadAndTail ==
    ASSUME NEW S, NEW s \in Seq(S), s # <<>>
    PROVE  /\ Head(s) \in S /\ <<Head(s)>> \in Seq(S) /\ Tail(s) \in Seq(S)
           /\ s = <<Head(s)>> \o Tail(s)
           /\ Head(s) = s[1] /\ Len(s) \in Nat \ {0} /\ Len(Tail(s)) = Len(s) - 1
           /\ \A i \in 1 .. Len(Tail(s)) : Tail(s)[i] = s[i + 1]
<1>1. /\ Head(s) \in S /\ Tail(s) \in Seq(S) /\ Len(Tail(s)) = Len(s) - 1
      /\ \A i \in 1 .. Len(Tail(s)) : Tail(s)[i] = s[i + 1]
  BY HeadTailProperties
<1>2. Len(s) \in Nat \ {0} /\ Head(s) = s[1]
  BY EmptySeq
<1>3. s = <<Head(s)>> \o Tail(s)
  <2>1. PICK h, t : h = Head(s) /\ t = Tail(s)
    OBVIOUS
  <2>2. /\ <<h>> \o t \in Seq(S) /\ Len(<<h>> \o t) = Len(s)
        /\ \A i \in 1 .. Len(s) : (<<h>> \o t)[i] = s[i]
    BY <1>1, <1>2, <2>1
  <2> QED BY <2>1, <2>2, SeqEqual
<1> QED BY <1>1, <1>2, <1>3

\* Concatenation, of sequences named one by one.
LEMMA ThreeConcat == \A a, b, c \in Seq(Leaf) : (a \o b) \o c = a \o (b \o c)
<1>1. ASSUME NEW a \in Seq(Leaf), NEW b \in Seq(Leaf), NEW c \in Seq(Leaf)
      PROVE  (a \o b) \o c = a \o (b \o c)
  BY ConcatAssociative
<1> QED BY <1>1

LEMMA TwoConcat == \A a, b \in Seq(Leaf) : a \o b \in Seq(Leaf)
OBVIOUS

LEMMA EmptyConcat == \A a \in Seq(Leaf) : <<>> \o a = a /\ a \o <<>> = a /\ <<>> \in Seq(Leaf)
BY ConcatEmptySeq, EmptySeq

LEMMA FourConcat ==
    \A a, b, c, d \in Seq(Leaf) : (a \o (b \o c)) \o d = a \o (b \o (c \o d))
<1> SUFFICES ASSUME NEW a \in Seq(Leaf), NEW b \in Seq(Leaf), NEW c \in Seq(Leaf),
                    NEW d \in Seq(Leaf)
             PROVE  (a \o (b \o c)) \o d = a \o (b \o (c \o d))
  OBVIOUS
<1>1. PICK e : e = b \o c
  OBVIOUS
<1>2. e \in Seq(Leaf)
  BY <1>1, TwoConcat
<1>3. (b \o c) \o d = b \o (c \o d)
  BY ThreeConcat
<1>4. (a \o e) \o d = a \o (e \o d)
  BY <1>2, ThreeConcat, ZenonT(40)
<1> QED BY <1>1, <1>3, <1>4

LEMMA ConcatParts ==
    \A a, b \in Seq(Entry) :
        /\ Len(a) \in Nat /\ Len(b) \in Nat
        /\ Len(a \o b) = Len(a) + Len(b) /\ a \o b \in Seq(Entry)
        /\ \A i \in 1 .. Len(a) : (a \o b)[i] = a[i]
        /\ \A i \in 1 .. Len(b) : (a \o b)[Len(a) + i] = b[i]
<1> SUFFICES ASSUME NEW a \in Seq(Entry), NEW b \in Seq(Entry)
             PROVE  /\ Len(a) \in Nat /\ Len(b) \in Nat
                    /\ Len(a \o b) = Len(a) + Len(b) /\ a \o b \in Seq(Entry)
                    /\ \A i \in 1 .. Len(a) : (a \o b)[i] = a[i]
                    /\ \A i \in 1 .. Len(b) : (a \o b)[Len(a) + i] = b[i]
  OBVIOUS
<1> DEFINE n == Len(a)
           k == Len(b)
<1>1. /\ Len(a \o b) = n + k /\ n \in Nat /\ k \in Nat /\ a \o b \in Seq(Entry)
      /\ \A i \in 1 .. n + k : (a \o b)[i] = IF i <= n THEN a[i] ELSE b[i - n]
  BY ConcatProperties, LenProperties
<1>2. \A i \in 1 .. k : n + i \in 1 .. n + k /\ ~(n + i <= n) /\ (n + i) - n = i
  BY <1>1
<1> QED BY <1>1, <1>2

LEMMA LeavesLaws ==
    /\ \A w \in Seq(Message) : Leaves(w) = Bring(unpack, w) /\ Leaves(w) \in Seq(Leaf)
    /\ Leaves(<<>>) = <<>>
    /\ \A w \in Seq(Message), x \in Message : Leaves(Append(w, x)) = Leaves(w) \o unpack[x]
    /\ \A x \in Message : Leaves(<<x>>) = unpack[x]
<1>1. \A w \in Seq(Message) : Leaves(w) = Bring(unpack, w)
  <2>1. ASSUME NEW w \in Seq(Message) PROVE \A i \in DOMAIN w : unpack[w[i]] = Unpacked(w[i])
    BY DEF unpack
  <2> QED BY <2>1 DEF Leaves, Bring
<1>2. <<>> \in Seq(Message) /\ \A x \in Message : <<x>> \in Seq(Message)
  BY EmptySeq
<1>3. ASSUME NEW w \in Seq(Message), NEW x \in Message
      PROVE  Leaves(Append(w, x)) = Leaves(w) \o unpack[x]
  <2>1. Append(w, x) \in Seq(Message)
    OBVIOUS
  <2> QED BY <1>1, <2>1, UnpackLaws
<1> QED BY <1>1, <1>2, <1>3, UnpackLaws

\* Messages are written: what they say is accounted for...
Written(o, ms, new) ==
    /\ Len(new) = Len(ms)
    /\ \A i \in 1 .. Len(ms) :
          /\ openEntry[new[i]] = unpack[ms[i]]
          /\ new[i].size = SizeAfter(o, Leaves(SubSeq(ms, 1, i - 1)))

LEMMA SaidAlike ==
    ASSUME NEW ms \in Seq(Message), NEW new \in Seq(Entry), NEW o, Written(o, ms, new)
    PROVE  Bring(unpack, ms) = Bring(openEntry, new)
<1>1. DOMAIN new = 1 .. Len(ms) /\ DOMAIN ms = 1 .. Len(ms)
  BY LenProperties DEF Written
<1>2. \A i \in 1 .. Len(ms) : openEntry[new[i]] = unpack[ms[i]]
  BY DEF Written
<1> QED BY <1>1, <1>2 DEF Bring

LEMMA PushAccounted ==
    ASSUME NEW h \in Seq(Leaf), NEW u \in Seq(Sub), NEW q \in Seq(Entry),
           NEW s \in Seq(Message), NEW ms \in Seq(Message), NEW new \in Seq(Entry),
           Bring(unpack, ms) = Bring(openEntry, new), Accounted(h, u, q, s)
    PROVE  Accounted(h, u, q \o new, s \o ms)
<1>1. \A a, b, c \in Seq(Leaf) : (h \o (a \o b)) \o c = h \o (a \o (b \o c))
  BY FourConcat
<1>2. PICK a, b, c, d : /\ a = Bring(openSub, u) /\ b = Bring(openEntry, q)
                        /\ c = Bring(openEntry, new) /\ d = Bring(unpack, s)
  OBVIOUS
<1>3. a \in Seq(Leaf) /\ b \in Seq(Leaf) /\ c \in Seq(Leaf) /\ d \in Seq(Leaf)
  BY <1>2, OpenSubLaws, OpenEntryLaws, UnpackLaws
<1>4. Bring(unpack, s \o ms) = d \o c
  BY <1>2, UnpackLaws
<1>5. Bring(openEntry, q \o new) = b \o c
  BY <1>2, OpenEntryLaws
<1>6. d = h \o (a \o b)
  BY <1>2 DEF Accounted
<1>7. (h \o (a \o b)) \o c = h \o (a \o (b \o c))
  BY <1>1, <1>3
<1> QED BY <1>2, <1>4, <1>5, <1>6, <1>7 DEF Accounted

\* ... and their chunks are of the writer's sizes.
LEMMA PushSized ==
    ASSUME NEW z \in Nat, NEW u \in Seq(Sub), NEW q \in Seq(Entry), NEW o \in Nat, NEW o2,
           NEW ms \in Seq(Message), NEW new \in Seq(Entry), Written(o, ms, new),
           o2 = SizeAfter(o, Leaves(ms)), Sized(z, u, q, o)
    PROVE  Sized(z, u, q \o new, o2)
<1> DEFINE T(i) == SizeAfter(o, Leaves(SubSeq(ms, 1, i)))
           n == Len(q)
           k == Len(ms)
           all == q \o new
<1>1. /\ n \in Nat /\ k \in Nat /\ Len(all) = n + k /\ all \in Seq(Entry)
      /\ \A i \in 1 .. n : all[i] = q[i]
      /\ \A i \in 1 .. k : all[n + i] = new[i]
  <2>1. \A a, b \in Seq(Entry) :
           /\ Len(a) \in Nat /\ Len(b) \in Nat
           /\ Len(a \o b) = Len(a) + Len(b) /\ a \o b \in Seq(Entry)
           /\ \A i \in 1 .. Len(a) : (a \o b)[i] = a[i]
           /\ \A i \in 1 .. Len(b) : (a \o b)[Len(a) + i] = b[i]
    BY ConcatParts
  <2>2. /\ Len(q) \in Nat /\ Len(new) \in Nat
        /\ Len(q \o new) = Len(q) + Len(new) /\ q \o new \in Seq(Entry)
        /\ \A i \in 1 .. Len(q) : (q \o new)[i] = q[i]
        /\ \A i \in 1 .. Len(new) : (q \o new)[Len(q) + i] = new[i]
    BY <2>1
  <2>3. Len(new) = k
    BY DEF Written
  <2> QED BY <2>2, <2>3
<1>2. \A size \in Nat : SizeAfter(size, <<>>) = size
  <2>1. Plain("call", 0) \in Leaf
    BY PlainFields DEF Kinds, Rpc
  <2> QED BY <2>1, SizeAfterOne
<1>3. T(0) = o
  <2>1. SubSeq(ms, 1, 0) = <<>>
    BY SubSeqEmpty
  <2> QED BY <1>2, <2>1, LeavesLaws
<1>4. T(k) = o2
  BY SubSeqFull
<1>5. ASSUME NEW i \in 1 .. k PROVE T(i) = SizeAfter(T(i - 1), unpack[ms[i]])
  <2>1. PICK a, x : a = SubSeq(ms, 1, i - 1) /\ x = ms[i]
    OBVIOUS
  <2>2. a \in Seq(Message) /\ x \in Message /\ SubSeq(ms, 1, i) = Append(a, x)
    BY <2>1
  <2>3. Leaves(SubSeq(ms, 1, i)) = Leaves(a) \o unpack[x]
    BY <2>2, LeavesLaws
  <2>4. Leaves(a) \in Seq(Leaf) /\ unpack[x] \in Seq(Leaf)
    BY <2>2, LeavesLaws, MeantTyped
  <2>5. SizeAfter(o, Leaves(a) \o unpack[x]) = SizeAfter(SizeAfter(o, Leaves(a)), unpack[x])
    BY <2>4, SizeAfterTwo
  <2> QED BY <2>1, <2>3, <2>5
<1>6. \A i \in 1 .. k : new[i].size = T(i - 1) /\ openEntry[new[i]] = unpack[ms[i]]
  BY DEF Written
<1> HIDE DEF T, all, n, k
<1>7. \A i \in 0 .. k : AtEntry(all, o2, n + i + 1) = T(i)
  <2>1. ASSUME NEW i \in 0 .. k PROVE AtEntry(all, o2, n + i + 1) = T(i)
    <3>1. CASE i = k
      BY <1>1, <1>4, <3>1 DEF AtEntry
    <3>2. CASE i # k
      <4>1. i + 1 \in 1 .. k /\ n + i + 1 <= Len(all) /\ n + i + 1 = n + (i + 1) /\ (i + 1) - 1 = i
        <5>1. n \in Nat /\ k \in Nat /\ Len(all) = n + k
          BY <1>1
        <5> QED BY <3>2, <5>1
      <4>2. all[n + (i + 1)] = new[i + 1] /\ new[i + 1].size = T((i + 1) - 1)
        BY <1>1, <1>6, <4>1
      <4> QED BY <4>1, <4>2 DEF AtEntry
    <3> QED BY <3>1, <3>2
  <2> QED BY <2>1
<1>8. \A i \in 1 .. n + 1 : AtEntry(all, o2, i) = AtEntry(q, o, i)
  <2>1. ASSUME NEW i \in 1 .. n + 1 PROVE AtEntry(all, o2, i) = AtEntry(q, o, i)
    <3>1. CASE i <= n
      BY <1>1, <3>1 DEF AtEntry, n
    <3>2. CASE i = n + 1
      <4>1. i = n + 0 + 1 /\ 0 \in 0 .. k /\ ~(i <= n)
        BY <1>1, <3>2
      <4> QED BY <1>3, <1>7, <4>1 DEF AtEntry, n
    <3> QED BY <1>1, <3>1, <3>2
  <2> QED BY <2>1
<1>9. AtEntry(all, o2, 1) = SizeAfter(z, Bring(openSub, u))
  <2>1. 1 \in 1 .. n + 1
    BY <1>1
  <2> QED BY <1>8, <2>1 DEF Sized
<1>10. ASSUME NEW i \in 1 .. Len(all)
       PROVE  AtEntry(all, o2, i + 1) = SizeAfter(all[i].size, openEntry[all[i]])
  <2>1. CASE i \in 1 .. n
    <3>1. i + 1 \in 1 .. n + 1
      BY <1>1, <2>1
    <3>2. AtEntry(q, o, i + 1) = SizeAfter(q[i].size, openEntry[q[i]])
      BY <2>1 DEF Sized, n
    <3> QED BY <1>1, <1>8, <2>1, <3>1, <3>2
  <2>2. CASE ~(i \in 1 .. n)
    <3>1. PICK j \in 1 .. k : i = n + j
      <4>1. i - n \in 1 .. k /\ i = n + (i - n)
        BY <1>1, <2>2
      <4> QED BY <4>1
    <3>2. all[i] = new[j] /\ openEntry[new[j]] = unpack[ms[j]] /\ new[j].size = T(j - 1)
      BY <1>1, <1>6, <3>1 DEF k
    <3>3. AtEntry(all, o2, i + 1) = T(j)
      BY <1>1, <1>7, <3>1
    <3> QED BY <1>5, <3>1, <3>2, <3>3
  <2> QED BY <2>1, <2>2
<1> QED BY <1>9, <1>10 DEF Sized, all

LEMMA ChannelPush ==
    ASSUME NEW h \in Seq(Leaf), NEW u \in Seq(Sub), NEW z \in Nat, NEW q \in Seq(Entry),
           NEW o \in Nat, NEW o2, NEW s \in Seq(Message), NEW ms \in Seq(Message),
           NEW new \in Seq(Entry), Written(o, ms, new), o2 = SizeAfter(o, Leaves(ms)),
           \A i \in DOMAIN new : LastOnly(new[i].msg.subs), Channel(h, u, z, q, o, s)
    PROVE  Channel(h, u, z, q \o new, o2, s \o ms)
<1>1. Accounted(h, u, q, s) /\ Sized(z, u, q, o) /\ LastOnly(u)
  BY DEF Channel
<1>2. Accounted(h, u, q \o new, s \o ms)
  <2>1. Bring(unpack, ms) = Bring(openEntry, new)
    BY SaidAlike
  <2> QED BY <1>1, <2>1, PushAccounted
<1>3. Sized(z, u, q \o new, o2)
  BY <1>1, PushSized
<1>4. ASSUME NEW i \in DOMAIN (q \o new) PROVE LastOnly((q \o new)[i].msg.subs)
  <2> DEFINE n == Len(q)
             k == Len(new)
  <2>1. /\ n \in Nat /\ k \in Nat /\ DOMAIN (q \o new) = 1 .. n + k
        /\ DOMAIN q = 1 .. n /\ DOMAIN new = 1 .. k
        /\ (i \in 1 .. n => (q \o new)[i] = q[i])
        /\ (~(i \in 1 .. n) => (q \o new)[i] = new[i - n])
    BY ConcatProperties, LenProperties
  <2>2. \A j \in DOMAIN q : LastOnly(q[j].msg.subs)
    BY DEF Channel
  <2>3. CASE i \in 1 .. n
    BY <2>1, <2>2, <2>3
  <2>4. CASE ~(i \in 1 .. n)
    <3>1. i - n \in 1 .. k
      BY <2>1, <2>4
    <3> QED BY <2>1, <2>4, <3>1
  <2> QED BY <2>3, <2>4
<1> QED BY <1>1, <1>2, <1>3, <1>4 DEF Channel

\* The reader takes a message off the wire, which has its chunk size: a leaf is handled,
\* an aggregate is queued.
LEMMA ChannelPopWire ==
    ASSUME NEW h \in Seq(Leaf), NEW z \in Nat, NEW q \in Seq(Entry), q # <<>>,
           NEW o \in Nat, NEW s \in Seq(Message), Channel(h, <<>>, z, q, o, s),
           NEW m, m = Head(q).msg
    PROVE  /\ z = Head(q).size
           /\ m.kind # "Aggregate" =>
                 Channel(h \o <<m>>, <<>>, IF m.kind = "SetChunkSize" THEN m.val ELSE z,
                         Tail(q), o, s)
           /\ m.kind = "Aggregate" => Channel(h, ParseAggregate(m), z, Tail(q), o, s)
<1>1. PICK x, t : x = Head(q) /\ t = Tail(q)
  OBVIOUS
<1>2. /\ x \in Entry /\ t \in Seq(Entry) /\ q = <<x>> \o t /\ x = q[1]
      /\ Len(q) \in Nat \ {0} /\ Len(t) = Len(q) - 1
      /\ \A i \in 1 .. Len(t) : t[i] = q[i + 1]
  BY <1>1, HeadAndTail
<1>3. m \in Message /\ m = x.msg /\ openEntry[x] = open[m] /\ open[m] \in Seq(Leaf)
      /\ x.size \in Nat
  <2>1. m \in Message /\ m = x.msg /\ x.size \in Nat
    BY <1>1, <1>2 DEF Entry
  <2>2. openEntry[x] = open[m]
    BY <1>2, <2>1 DEF openEntry
  <2> QED BY <2>1, <2>2, OpenTyped
<1>4. PICK b : b = Bring(openEntry, t)
  OBVIOUS
<1>5. b \in Seq(Leaf) /\ Bring(openEntry, q) = open[m] \o b
  BY <1>2, <1>3, <1>4, OpenEntryLaws
<1>6. Bring(unpack, s) = h \o (open[m] \o b)
  <2>1. Bring(unpack, s) = h \o (<<>> \o Bring(openEntry, q))
    BY OpenSubLaws DEF Channel, Accounted
  <2>2. open[m] \o b \in Seq(Leaf)
    BY <1>3, <1>5, TwoConcat
  <2>3. <<>> \o (open[m] \o b) = open[m] \o b
    BY <2>2, EmptyConcat
  <2> QED BY <1>5, <2>1, <2>3
<1>7. \A n \in Nat : SizeAfter(n, <<>>) = n
  <2>1. Plain("call", 0) \in Leaf
    BY PlainFields DEF Kinds, Rpc
  <2> QED BY <2>1, SizeAfterOne
<1>8. z = x.size
  <2>1. AtEntry(q, o, 1) = SizeAfter(z, Bring(openSub, <<>>))
    BY DEF Channel, Sized
  <2>2. AtEntry(q, o, 1) = x.size
    BY <1>2 DEF AtEntry
  <2> QED BY <1>7, <2>1, <2>2, OpenSubLaws
<1>9. \A i \in 1 .. Len(t) + 1 : AtEntry(t, o, i) = AtEntry(q, o, i + 1)
  BY <1>2 DEF AtEntry
<1>10. /\ AtEntry(t, o, 1) = SizeAfter(z, open[m])
       /\ \A i \in 1 .. Len(t) : AtEntry(t, o, i + 1) = SizeAfter(t[i].size, openEntry[t[i]])
  <2>1. \A i \in 1 .. Len(q) : AtEntry(q, o, i + 1) = SizeAfter(q[i].size, openEntry[q[i]])
    BY DEF Channel, Sized
  <2>2. /\ 1 \in 1 .. Len(q) /\ 1 \in 1 .. Len(t) + 1
        /\ \A i \in 1 .. Len(t) : i + 1 \in 1 .. Len(q) /\ i + 1 \in 1 .. Len(t) + 1
    BY <1>2
  <2>3. AtEntry(t, o, 1) = SizeAfter(z, open[m])
    BY <1>2, <1>3, <1>8, <1>9, <2>1, <2>2
  <2>4. ASSUME NEW i \in 1 .. Len(t)
        PROVE  AtEntry(t, o, i + 1) = SizeAfter(t[i].size, openEntry[t[i]])
    <3>1. AtEntry(q, o, (i + 1) + 1) = SizeAfter(q[i + 1].size, openEntry[q[i + 1]])
      BY <2>1, <2>2
    <3> QED BY <1>2, <1>9, <2>2, <3>1
  <2> QED BY <2>3, <2>4
<1>11. /\ \A i \in DOMAIN t : LastOnly(t[i].msg.subs)
       /\ LastOnly(m.subs)
  <2>1. \A i \in DOMAIN q : LastOnly(q[i].msg.subs)
    BY DEF Channel
  <2>2. /\ DOMAIN t = 1 .. Len(t) /\ DOMAIN q = 1 .. Len(q) /\ 1 \in DOMAIN q
        /\ \A i \in 1 .. Len(t) : i + 1 \in 1 .. Len(q)
    BY <1>2
  <2> QED BY <1>2, <1>3, <2>1, <2>2
<1>12. ASSUME m.kind # "Aggregate"
       PROVE  Channel(h \o <<m>>, <<>>, IF m.kind = "SetChunkSize" THEN m.val ELSE z, t, o, s)
  <2> DEFINE z2 == IF m.kind = "SetChunkSize" THEN m.val ELSE z
  <2>1. m \in Leaf /\ open[m] = <<m>> /\ z2 \in Nat /\ SizeAfter(z, <<m>>) = z2
    BY <1>3, <1>12, KindsOfMessages, LeafFields, SizeAfterOne DEF open
  <2>2. Accounted(h \o <<m>>, <<>>, t, s)
    <3>1. PICK e : e = <<m>>
      OBVIOUS
    <3>2. e \in Seq(Leaf)
      BY <2>1, <3>1
    <3>3. (h \o e) \o b = h \o (e \o b)
      BY <1>5, <3>2, ThreeConcat
    <3>4. <<>> \o b = b
      BY <1>5, EmptyConcat
    <3> QED BY <1>4, <1>6, <2>1, <3>1, <3>3, <3>4, OpenSubLaws DEF Accounted
  <2>3. Sized(z2, <<>>, t, o)
    <3>1. SizeAfter(z2, Bring(openSub, <<>>)) = z2
      BY <1>7, <2>1, OpenSubLaws
    <3> QED BY <1>10, <2>1, <3>1 DEF Sized
  <2>4. LastOnly(<<>>)
    BY DEF LastOnly
  <2> QED BY <1>11, <2>2, <2>3, <2>4 DEF Channel
<1>13. ASSUME m.kind = "Aggregate"
       PROVE  Channel(h, ParseAggregate(m), z, t, o, s)
  <2>1. m \in AggregateOf(Sub) /\ m.subs \in Seq(Sub)
    BY <1>3, <1>13, KindsOfMessages, AggregateFields
  <2>2. open[m] = Bring(openSub, ParseAggregate(m))
    BY <1>3, <1>13 DEF open
  <2>3. Accounted(h, ParseAggregate(m), t, s)
    BY <1>4, <1>6, <2>2 DEF Accounted
  <2>4. Sized(z, ParseAggregate(m), t, o)
    BY <1>10, <2>2 DEF Sized
  <2>5. LastOnly(ParseAggregate(m))
    <3>1. \A x2 \in Sub : \A t2 : [x2 EXCEPT !.ts = t2].kind = x2.kind
      BY DEF Sub, Leaf, AggregateOf
    <3>2. DOMAIN ParseAggregate(m) = DOMAIN m.subs
          /\ \A i \in DOMAIN m.subs : ParseAggregate(m)[i].kind = m.subs[i].kind
      <4>1. \A i \in DOMAIN m.subs : m.subs[i] \in Sub
        BY <2>1
      <4> QED BY <3>1, <4>1 DEF ParseAggregate
    <3>3. Len(ParseAggregate(m)) = Len(m.subs)
      <4>1. ParseAggregate(m) \in Seq(Sub)
        BY <2>1, ParsedTyped
      <4> HIDE DEF ParseAggregate
      <4> QED BY <2>1, <3>2, <4>1
    <3> QED BY <1>11, <3>2, <3>3 DEF LastOnly
  <2> QED BY <1>11, <2>3, <2>4, <2>5 DEF Channel
<1> QED BY <1>1, <1>8, <1>12, <1>13

\* Or from its queue.
LEMMA ChannelPopSub ==
    ASSUME NEW h \in Seq(Leaf), NEW u \in Seq(Sub), u # <<>>, NEW z \in Nat,
           NEW q \in Seq(Entry), NEW o, NEW s \in Seq(Message), Channel(h, u, z, q, o, s),
           NEW m, m = Head(u)
    PROVE  /\ m.kind # "Aggregate" =>
                 Channel(h \o <<m>>, Tail(u), IF m.kind = "SetChunkSize" THEN m.val ELSE z,
                         q, o, s)
           /\ m.kind = "Aggregate" => Channel(h, Tail(u) \o ParseAggregate(m), z, q, o, s)
<1>1. PICK t, b : t = Tail(u) /\ b = Bring(openEntry, q)
  OBVIOUS
<1>2. /\ m \in Sub /\ t \in Seq(Sub) /\ u = <<m>> \o t /\ m = u[1]
      /\ Len(u) \in Nat \ {0} /\ Len(t) = Len(u) - 1
      /\ \A i \in 1 .. Len(t) : t[i] = u[i + 1]
  BY <1>1, HeadAndTail
<1>3. PICK c : c = Bring(openSub, t)
  OBVIOUS
<1>4. /\ b \in Seq(Leaf) /\ c \in Seq(Leaf) /\ openSub[m] \in Seq(Leaf)
      /\ Bring(openSub, u) = openSub[m] \o c
  BY <1>1, <1>2, <1>3, OpenSubLaws, OpenEntryLaws, OpenTyped, ZenonT(40)
<1>5. Bring(unpack, s) = h \o ((openSub[m] \o c) \o b)
  BY <1>1, <1>4 DEF Channel, Accounted
<1>6. /\ AtEntry(q, o, 1) = SizeAfter(z, openSub[m] \o c)
      /\ \A i \in 1 .. Len(q) : AtEntry(q, o, i + 1) = SizeAfter(q[i].size, openEntry[q[i]])
  BY <1>4 DEF Channel, Sized
<1>7. \A i \in DOMAIN q : LastOnly(q[i].msg.subs)
  BY DEF Channel
<1>8. \A i \in 1 .. Len(u) : u[i].kind = "Aggregate" => i = Len(u)
  <2>1. DOMAIN u = 1 .. Len(u)
    BY LenProperties
  <2> QED BY <2>1 DEF Channel, LastOnly
<1>9. ASSUME m.kind # "Aggregate"
      PROVE  Channel(h \o <<m>>, t, IF m.kind = "SetChunkSize" THEN m.val ELSE z, q, o, s)
  <2> DEFINE z2 == IF m.kind = "SetChunkSize" THEN m.val ELSE z
  <2>1. m \in Leaf /\ openSub[m] = <<m>> /\ z2 \in Nat /\ SizeAfter(z, <<m>>) = z2
    BY <1>2, <1>9, KindsOfMessages, LeafFields, SizeAfterOne DEF openSub
  <2>2. PICK e : e = <<m>>
    OBVIOUS
  <2>3. e \in Seq(Leaf)
    BY <2>1, <2>2
  <2>4. Accounted(h \o e, t, q, s)
    <3>1. h \o ((e \o c) \o b) = h \o (e \o (c \o b))
      BY <1>4, <2>3, ThreeConcat
    <3>2. PICK d : d = c \o b
      OBVIOUS
    <3>3. d \in Seq(Leaf)
      BY <1>4, <3>2, TwoConcat
    <3>4. (h \o e) \o d = h \o (e \o d)
      BY <2>3, <3>3, ThreeConcat
    <3>5. Bring(unpack, s) = (h \o e) \o (c \o b)
      BY <1>5, <2>1, <2>2, <3>1, <3>2, <3>4
    <3> QED BY <1>1, <1>3, <3>5 DEF Accounted
  <2>5. Sized(z2, t, q, o)
    <3>1. SizeAfter(z, e \o c) = SizeAfter(SizeAfter(z, e), c)
      BY <1>4, <2>3, SizeAfterTwo
    <3> QED BY <1>3, <1>6, <2>1, <2>2, <3>1 DEF Sized
  <2>6. LastOnly(t)
    <3>1. DOMAIN t = 1 .. Len(t) /\ Len(t) \in Nat
      BY <1>2, LenProperties
    <3>2. ASSUME NEW i \in 1 .. Len(t), t[i].kind = "Aggregate" PROVE i = Len(t)
      <4>1. i + 1 \in 1 .. Len(u) /\ t[i] = u[i + 1]
        BY <1>2
      <4>2. i + 1 = Len(u)
        BY <1>8, <3>2, <4>1
      <4> QED BY <1>2, <3>1, <4>2
    <3> QED BY <3>1, <3>2 DEF LastOnly
  <2> QED BY <1>7, <2>2, <2>4, <2>5, <2>6 DEF Channel
<1>10. ASSUME m.kind = "Aggregate"
       PROVE  Channel(h, t \o ParseAggregate(m), z, q, o, s)
  <2>1. m \in AggregateOf(Leaf)
    BY <1>2, <1>10, KindsOfMessages
  <2>2. PICK p : p = ParseAggregate(m)
    OBVIOUS
  <2>3. p \in Seq(Leaf) /\ p \in Seq(Sub) /\ Bring(openSub, p) = p /\ openSub[m] = p
    <3>1. p \in Seq(Leaf)
      BY <2>1, <2>2, ParsedTyped
    <3>2. p \in Seq(Sub)
      BY <3>1, SubsAreMessages, SeqMonotonic
    <3>3. openSub[m] = p
      BY <1>2, <1>10, <2>2 DEF openSub
    <3> QED BY <3>1, <3>2, <3>3, LeavesOpen
  <2>4. t = <<>>
    <3>1. 1 \in 1 .. Len(u) /\ u[1].kind = "Aggregate"
      BY <1>2, <1>10
    <3>2. Len(t) = 0
      BY <1>2, <1>8, <3>1
    <3> QED BY <1>2, <3>2, EmptySeq
  <2>5. t \o p = p /\ c = <<>> /\ p \o c = p
    BY <1>3, <2>3, <2>4, EmptyConcat, OpenSubLaws
  <2>6. Accounted(h, p, q, s)
    BY <1>1, <1>5, <2>3, <2>5 DEF Accounted
  <2>7. Sized(z, p, q, o)
    BY <1>6, <2>3, <2>5 DEF Sized
  <2>8. LastOnly(p)
    <3>1. \A i \in DOMAIN p : p[i] \in Leaf
      BY <2>3
    <3> QED BY <3>1, LeafFields DEF LastOnly
  <2> QED BY <1>7, <2>2, <2>5, <2>6, <2>7, <2>8 DEF Channel
<1> QED BY <1>1, <1>9, <1>10

-----------------------------------------------------------------------------
(* Steps: what each writes, and what a poll does. *)

LEMMA Ends2 ==
    ASSUME NEW e \in End
    PROVE  /\ Peer(e) \in End /\ Peer(e) # e /\ Peer(Peer(e)) = e
           /\ Type(e) \in {"RtmpClient", "RtmpSession", "RtmpPlayer", "PlaySession"}
           /\ \A x \in End : x # Peer(e) => Peer(x) # e
<1>1. PICK c \in Conn, s \in {"client", "server"} : e = <<c, s>>
  BY DEF End
<1>2. /\ Peer(e) = <<c, IF s = "client" THEN "server" ELSE "client">>
      /\ Peer(Peer(e)) = e /\ Peer(e) # e
  BY <1>1 DEF Peer
<1>3. \A x \in End : Peer(Peer(x)) = x
  <2>1. ASSUME NEW x \in End PROVE Peer(Peer(x)) = x
    <3>1. PICK d \in Conn, t \in {"client", "server"} : x = <<d, t>>
      BY DEF End
    <3> QED BY <3>1 DEF Peer
  <2> QED BY <2>1
<1>4. Peer(e) \in End
  BY <1>2 DEF End
<1>5. \A x \in End : x # Peer(e) => Peer(x) # e
  BY <1>3
<1> QED BY <1>2, <1>4, <1>5 DEF Type

\* The parts of a state.
LEMMA StateParts ==
    ASSUME TypeOK, NEW e \in End
    PROVE  /\ session[e] \in SessionState
           /\ session[e].subs \in Seq(Sub) /\ session[e].size \in Nat /\ session[e].tx \in Nat
           /\ inbox[e] \in Seq(Entry) /\ out[e] \in Nat /\ sent[e] \in Seq(Message)
           /\ handled[e] \in Seq(Leaf) /\ answered[e] \in SUBSET Nat
<1>1. session[e] \in SessionState
  BY DEF TypeOK
<1> QED BY <1>1 DEF TypeOK, SessionState, Entry

\* A menu holds messages packed by build_aggregate.
LEMMA MenuParts ==
    ASSUME TypeOK, NEW e \in End, NEW m \in menu[e]
    PROVE  m \in Message /\ Built(m) /\ \A i \in DOMAIN m.subs : Built(m.subs[i])
<1>1. PICK t \in Traffic : menu = t.menu
  BY DEF TypeOK
<1>2. t.menu \in [End -> SUBSET Message]
      /\ \A x \in End : \A w \in t.menu[x] : Built(w) /\ \A i \in DOMAIN w.subs : Built(w.subs[i])
  BY TrafficIsBuilt
<1> QED BY <1>1, <1>2

\* End e has written ms, which travels as new.
Adds(e, ms, new) ==
    /\ ms \in Seq(Message) /\ new \in Seq(Entry) /\ Written(out[e], ms, new)
    /\ inbox'[Peer(e)] = inbox[Peer(e)] \o new
    /\ sent'[Peer(e)] = sent[Peer(e)] \o ms
    /\ \A x \in End \ {Peer(e)} : sent'[x] = sent[x]
    /\ out'[e] = SizeAfter(out[e], Leaves(ms))
    /\ \A x \in End \ {e} : out'[x] = out[x]
    /\ inbox' = [x \in End |-> inbox'[x]]
    /\ sent' = [x \in End |-> sent'[x]]
    /\ out' = [x \in End |-> out'[x]]

Tidy(new) == \A i \in DOMAIN new : LastOnly(new[i].msg.subs)

LEMMA WriteAdds ==
    ASSUME TypeOK, NEW e \in End, NEW ms \in Seq(Message), NEW wire \in Seq(Message),
           Len(wire) = Len(ms), \A i \in 1 .. Len(ms) : open[wire[i]] = unpack[ms[i]],
           WriteAs(e, ms, wire)
    PROVE  \E new : /\ Adds(e, ms, new)
                    /\ \A x \in End \ {Peer(e)} : inbox'[x] = inbox[x]
                    /\ Len(new) = Len(wire) /\ \A i \in DOMAIN new : new[i].msg = wire[i]
<1> DEFINE new == [i \in DOMAIN wire |->
                     [msg |-> wire[i], size |-> SizeAfter(out[e], Leaves(SubSeq(ms, 1, i - 1)))]]
<1>1. DOMAIN wire = 1 .. Len(ms) /\ Len(ms) \in Nat
  BY LenProperties
<1>2. out[e] \in Nat /\ Peer(e) \in End
  BY StateParts, Ends2
<1>3. ASSUME NEW i \in 1 .. Len(ms)
      PROVE  /\ new[i] \in Entry
             /\ new[i].size = SizeAfter(out[e], Leaves(SubSeq(ms, 1, i - 1)))
             /\ new[i].msg = wire[i]
             /\ openEntry[new[i]] = unpack[ms[i]]
  <2>1. PICK a : a = Leaves(SubSeq(ms, 1, i - 1))
    OBVIOUS
  <2>2. SubSeq(ms, 1, i - 1) \in Seq(Message)
    <3>1. i - 1 \in Int /\ 1 \in Int /\ \A j \in 1 .. i - 1 : ms[j] \in Message
      BY <1>1
    <3> QED BY <3>1, SubSeqProperties
  <2>3. a \in Seq(Leaf)
    BY <2>1, <2>2, LeavesLaws
  <2>4. SizeAfter(out[e], a) \in Nat
    <3>1. <<>> \in Seq(Leaf)
      BY EmptySeq
    <3> QED BY <1>2, <2>3, <3>1, SizeAfterTwo
  <2>5. new[i] = [msg |-> wire[i], size |-> SizeAfter(out[e], a)] /\ wire[i] \in Message
    BY <1>1, <2>1
  <2>6. new[i] \in Entry /\ new[i].msg = wire[i] /\ new[i].size = SizeAfter(out[e], a)
    <3> HIDE DEF new
    <3> QED BY <2>4, <2>5 DEF Entry
  <2>7. openEntry[new[i]] = open[wire[i]]
    <3> HIDE DEF new
    <3> QED BY <2>6 DEF openEntry
  <2> HIDE DEF new
  <2> QED BY <2>1, <2>6, <2>7
<1>4. DOMAIN new = 1 .. Len(ms) /\ new = [i \in 1 .. Len(ms) |-> new[i]]
  BY <1>1
<1> HIDE DEF new
<1>5. new \in [1 .. Len(ms) -> Entry]
  BY <1>3, <1>4
<1>6. new \in Seq(Entry) /\ Len(new) = Len(ms)
  BY <1>1, <1>5, SeqDef
<1>7. Written(out[e], ms, new)
  BY <1>3, <1>6 DEF Written
<1>8. /\ inbox' = [inbox EXCEPT ![Peer(e)] = @ \o new]
      /\ out' = [out EXCEPT ![e] = SizeAfter(@, Leaves(ms))]
      /\ sent' = [sent EXCEPT ![Peer(e)] = @ \o ms]
  BY DEF WriteAs, new
<1>9. /\ inbox = [x \in End |-> inbox[x]] /\ out = [x \in End |-> out[x]]
      /\ sent = [x \in End |-> sent[x]]
  BY DEF TypeOK
<1>10. /\ inbox'[Peer(e)] = inbox[Peer(e)] \o new
       /\ \A x \in End \ {Peer(e)} : inbox'[x] = inbox[x]
       /\ inbox' = [x \in End |-> inbox'[x]]
  BY <1>2, <1>8, <1>9
<1>11. /\ sent'[Peer(e)] = sent[Peer(e)] \o ms
       /\ \A x \in End \ {Peer(e)} : sent'[x] = sent[x]
       /\ sent' = [x \in End |-> sent'[x]]
  BY <1>2, <1>8, <1>9
<1>12. /\ out'[e] = SizeAfter(out[e], Leaves(ms))
       /\ \A x \in End \ {e} : out'[x] = out[x]
       /\ out' = [x \in End |-> out'[x]]
  BY <1>8, <1>9
<1>13. Adds(e, ms, new)
  BY <1>6, <1>7, <1>10, <1>11, <1>12 DEF Adds
<1> QED BY <1>1, <1>3, <1>4, <1>6, <1>10, <1>13

\* Leaves travel as they are.
LEMMA LeafOpens == \A p \in Leaf : open[p] = <<p>> /\ unpack[p] = <<p>> /\ LastOnly(p.subs)
<1>1. ASSUME NEW p \in Leaf PROVE open[p] = <<p>> /\ unpack[p] = <<p>> /\ LastOnly(p.subs)
  <2>1. p \in Message /\ p.kind # "Aggregate" /\ p.subs = <<>>
    BY SubsAreMessages, LeafFields
  <2> QED BY <2>1 DEF open, unpack, Unpacked, LastOnly
<1> QED BY <1>1

LEMMA WriteLeaves ==
    ASSUME TypeOK, NEW e \in End, NEW ms \in Seq(Leaf), Write(e, ms)
    PROVE  \E new : /\ Adds(e, ms, new) /\ Tidy(new)
                    /\ \A x \in End \ {Peer(e)} : inbox'[x] = inbox[x]
                    /\ Len(new) = Len(ms) /\ \A i \in DOMAIN new : new[i].msg = ms[i]
<1>1. ms \in Seq(Message)
  BY SubsAreMessages, SeqMonotonic
<1>2. \A i \in 1 .. Len(ms) : ms[i] \in Leaf /\ open[ms[i]] = unpack[ms[i]]
  BY LeafOpens
<1>3. WriteAs(e, ms, ms)
  BY DEF Write
<1>4. PICK new : /\ Adds(e, ms, new)
                 /\ \A x \in End \ {Peer(e)} : inbox'[x] = inbox[x]
                 /\ Len(new) = Len(ms) /\ \A i \in DOMAIN new : new[i].msg = ms[i]
  BY <1>1, <1>2, <1>3, WriteAdds
<1>5. Tidy(new)
  <2>1. new \in Seq(Entry)
    BY <1>4 DEF Adds
  <2>2. DOMAIN new = 1 .. Len(ms)
    BY <1>4, <2>1, LenProperties
  <2>3. \A i \in 1 .. Len(ms) : new[i].msg = ms[i] /\ LastOnly(ms[i].subs)
    BY <1>2, <1>4, <2>2, LeafOpens
  <2> QED BY <2>2, <2>3 DEF Tidy
<1> QED BY <1>4, <1>5

\* A message in an aggregate of its own travels as it is meant.
LEMMA WrapLaws ==
    ASSUME NEW p \in Leaf, NEW w \in Wrapped(p)
    PROVE  /\ w \in Message /\ open[w] = unpack[w] /\ unpack[w] = <<p>> /\ LastOnly(w.subs)
           /\ w = p \/ (w.kind = "Aggregate" /\ w.subs = <<p>>)
<1>1. CASE w = p
  BY <1>1, LeafOpens, SubsAreMessages
<1>2. CASE w = BuildAggregate(<<p>>)
  <2>1. p \in Sub /\ p.kind # "Aggregate" /\ p.ts \in Time /\ <<p>> # <<>> /\ <<p>>[1] = p
    BY SubsAreMessages, LeafFields
  <2>0. PICK none : none = ""
    OBVIOUS
  <2>2. w = [kind |-> "Aggregate", name |-> none, val |-> 0, ts |-> p.ts, subs |-> <<p>>]
    <3>1. PICK r : r = Plain("Aggregate", 0)
      OBVIOUS
    <3>2. r = Named("Aggregate", none, 0)
      BY <2>0, <3>1 DEF Plain
    <3>3. r = [kind |-> "Aggregate", name |-> none, val |-> 0, ts |-> 0, subs |-> <<>>]
      BY <3>2 DEF Named
    <3>4. At("Aggregate", p.ts) = [r EXCEPT !.ts = p.ts]
      BY <3>1 DEF At
    <3>5. w = [At("Aggregate", p.ts) EXCEPT !.subs = <<p>>]
      BY <1>2, <2>1 DEF BuildAggregate
    <3> QED BY <3>3, <3>4, <3>5
  <2>3. w.kind = "Aggregate" /\ w.subs = <<p>> /\ w \in AggregateOf(Sub)
    <3>1. AggregateOf(Sub) = [kind : {"Aggregate"}, name : {none}, val : {0},
                              ts : 0 .. TsMod - 1, subs : Seq(Sub)]
      BY <2>0 DEF AggregateOf
    <3>2. <<p>> \in Seq(Sub) /\ p.ts \in 0 .. TsMod - 1
      BY <2>1 DEF Time
    <3> QED BY <2>2, <3>1, <3>2
  <2>4. w \in Message
    BY <2>3 DEF Message
  <2>5. Built(w) /\ Built(p)
    BY <1>2, <2>1, <2>3 DEF Built
  <2>6. \A i \in DOMAIN w.subs : i = 1 /\ w.subs[i] = p
    BY <2>3
  <2>7. open[w] = unpack[w]
    BY <2>4, <2>5, <2>6, OpensAsMeant
  <2>8. open[w] = <<p>>
    <3>1. ParseAggregate(w) = <<p>>
      BY <2>3, <2>5, BuiltParsed
    <3>2. open[w] = Bring(openSub, <<p>>)
      BY <2>3, <2>4, <3>1 DEF open
    <3>3. openSub[p] = <<p>>
      BY <2>1 DEF openSub
    <3> QED BY <2>1, <3>2, <3>3, OpenSubLaws
  <2>9. LastOnly(w.subs)
    BY <2>1, <2>6 DEF LastOnly
  <2> QED BY <2>3, <2>4, <2>7, <2>8, <2>9
<1> QED BY <1>1, <1>2 DEF Wrapped

LEMMA WriteWrapped ==
    ASSUME TypeOK, NEW e \in End, NEW p \in Leaf, NEW w \in Wrapped(p), Write(e, <<w>>)
    PROVE  \E new \in Seq(Entry) :
              /\ Adds(e, <<w>>, new) /\ Tidy(new)
              /\ \A x \in End \ {Peer(e)} : inbox'[x] = inbox[x]
              /\ DOMAIN new = {1} /\ new[1].msg = w
<1>1. w \in Message /\ open[w] = unpack[w] /\ LastOnly(w.subs)
  BY WrapLaws
<1>2. <<w>> \in Seq(Message) /\ Len(<<w>>) = 1 /\ <<w>>[1] = w
  BY <1>1
<1>3. WriteAs(e, <<w>>, <<w>>)
  BY DEF Write
<1>4. \A i \in 1 .. Len(<<w>>) : open[<<w>>[i]] = unpack[<<w>>[i]]
  BY <1>1, <1>2
<1>5. PICK new : /\ Adds(e, <<w>>, new)
                 /\ \A x \in End \ {Peer(e)} : inbox'[x] = inbox[x]
                 /\ Len(new) = Len(<<w>>) /\ \A i \in DOMAIN new : new[i].msg = <<w>>[i]
  BY <1>2, <1>3, <1>4, WriteAdds
<1>6. new \in Seq(Entry) /\ DOMAIN new = {1} /\ new[1].msg = w
  <2>1. new \in Seq(Entry)
    BY <1>5 DEF Adds
  <2> QED BY <1>2, <1>5, <2>1, LenProperties
<1>7. Tidy(new)
  BY <1>1, <1>6 DEF Tidy
<1> QED BY <1>5, <1>6, <1>7

\* Of what their application writes, ends write one message at a time.
LEMMA SendAdds ==
    ASSUME TypeOK, NEW e \in End, Send(e) \/ SendShifted(e)
    PROVE  \E m \in menu[e], new \in Seq(Entry) :
              /\ Adds(e, <<m>>, new)
              /\ \A x \in End \ {Peer(e)} : inbox'[x] = inbox[x]
              /\ LastOnly(m.subs) => Tidy(new)
              /\ \/ new[1].msg = m
                 \/ m.kind = "Aggregate" /\ \E shift \in 1 .. TsMod - 1 :
                       new[1].msg = Shifted(m, shift)
              /\ Len(new) = 1
<1>1. CASE Send(e)
  <2>1. PICK m \in menu[e] : Write(e, <<m>>)
    BY <1>1 DEF Send
  <2>2. m \in Message /\ open[m] = unpack[m]
    BY MenuParts, OpensAsMeant
  <2>3. <<m>> \in Seq(Message) /\ Len(<<m>>) = 1 /\ <<m>>[1] = m
    BY <2>2
  <2>4. WriteAs(e, <<m>>, <<m>>)
    BY <2>1 DEF Write
  <2>5. \A i \in 1 .. Len(<<m>>) : open[<<m>>[i]] = unpack[<<m>>[i]]
    BY <2>2, <2>3
  <2>6. PICK new : /\ Adds(e, <<m>>, new)
                   /\ \A x \in End \ {Peer(e)} : inbox'[x] = inbox[x]
                   /\ Len(new) = Len(<<m>>) /\ \A i \in DOMAIN new : new[i].msg = <<m>>[i]
    BY <2>3, <2>4, <2>5, WriteAdds
  <2>7. DOMAIN new = {1} /\ new[1].msg = m /\ Len(new) = 1
    <3>1. new \in Seq(Entry)
      BY <2>6 DEF Adds
    <3> QED BY <2>3, <2>6, <3>1, LenProperties
  <2>8. LastOnly(m.subs) => Tidy(new)
    BY <2>7 DEF Tidy
  <2> QED BY <2>6, <2>7, <2>8 DEF Adds
<1>2. CASE SendShifted(e)
  <2>1. PICK m \in menu[e], shift \in 1 .. TsMod - 1 :
           m.kind = "Aggregate" /\ WriteAs(e, <<m>>, <<Shifted(m, shift)>>)
    BY <1>2 DEF SendShifted
  <2>2. PICK w : w = Shifted(m, shift)
    OBVIOUS
  <2>3. /\ m \in Message /\ w \in Message /\ open[w] = unpack[m]
        /\ Len(w.subs) = Len(m.subs)
        /\ \A i \in DOMAIN m.subs : w.subs[i].kind = m.subs[i].kind
    BY <2>1, <2>2, MenuParts, OpensAsMeant
  <2>4. /\ <<m>> \in Seq(Message) /\ Len(<<m>>) = 1 /\ <<m>>[1] = m
        /\ <<w>> \in Seq(Message) /\ Len(<<w>>) = 1 /\ <<w>>[1] = w
    BY <2>3
  <2>5. \A i \in 1 .. Len(<<m>>) : open[<<w>>[i]] = unpack[<<m>>[i]]
    BY <2>3, <2>4
  <2>6. PICK new : /\ Adds(e, <<m>>, new)
                   /\ \A x \in End \ {Peer(e)} : inbox'[x] = inbox[x]
                   /\ Len(new) = Len(<<w>>) /\ \A i \in DOMAIN new : new[i].msg = <<w>>[i]
    BY <2>1, <2>2, <2>4, <2>5, WriteAdds
  <2>7. DOMAIN new = {1} /\ new[1].msg = w /\ Len(new) = 1
    <3>1. new \in Seq(Entry)
      BY <2>6 DEF Adds
    <3> QED BY <2>4, <2>6, <3>1, LenProperties
  <2>8. LastOnly(m.subs) => Tidy(new)
    <3>1. w.kind = "Aggregate" /\ w \in AggregateOf(Sub) /\ m \in AggregateOf(Sub)
      <4>1. w.kind = "Aggregate"
        BY <2>1, <2>2, MenuParts, OpensAsMeant
      <4> QED BY <2>1, <2>3, <4>1, KindsOfMessages
    <3>2. DOMAIN w.subs = 1 .. Len(m.subs) /\ DOMAIN m.subs = 1 .. Len(m.subs)
      <4>1. w.subs \in Seq(Sub) /\ m.subs \in Seq(Sub)
        BY <3>1, AggregateFields
      <4> QED BY <2>3, <4>1, LenProperties
    <3> QED BY <2>3, <2>7, <3>2 DEF Tidy, LastOnly
  <2> QED BY <2>1, <2>2, <2>6, <2>7, <2>8 DEF Adds
<1> QED BY <1>1, <1>2

\* The reply to a message: nothing, or the answer to a ping.
LEMMA Replied ==
    ASSUME NEW type, NEW m \in Message
    PROVE  /\ Answers(type, m) \in Seq(Leaf)
           /\ \/ Answers(type, m) = <<>>
              \/ \E p \in Leaf : p.kind = "PingResponse" /\ Answers(type, m) = <<p>>
<1>1. CASE m.kind = "PingRequest" /\ type \in AnswersPing
  <2>1. m.val \in Nat
    BY <1>1, KindsOfMessages, LeafFields
  <2>2. /\ Plain("PingResponse", m.val) \in Leaf
        /\ Plain("PingResponse", m.val).kind = "PingResponse"
    BY <2>1, PlainFields DEF Kinds, UserControls
  <2>3. Answers(type, m) = <<Plain("PingResponse", m.val)>>
    BY <1>1 DEF Answers
  <2> QED BY <2>2, <2>3, Singles
<1>2. CASE ~(m.kind = "PingRequest" /\ type \in AnswersPing)
  BY <1>2, EmptySeq DEF Answers
<1> QED BY <1>1, <1>2

\* A handler that answers leaves the chunk size of its writer as it is.
LEMMA AnswerWritten ==
    ASSUME NEW o \in Nat, NEW reply \in Seq(Leaf),
           reply = <<>> \/ \E p \in Leaf : p.kind = "PingResponse" /\ reply = <<p>>
    PROVE  LET new == [i \in DOMAIN reply |-> [msg |-> reply[i], size |-> o]] IN
           /\ reply \in Seq(Message) /\ new \in Seq(Entry) /\ Written(o, reply, new)
           /\ o = SizeAfter(o, Leaves(reply)) /\ Tidy(new)
           /\ Len(new) = Len(reply) /\ \A i \in DOMAIN new : new[i].msg = reply[i]
<1> DEFINE new == [i \in DOMAIN reply |-> [msg |-> reply[i], size |-> o]]
<1>1. SizeAfter(o, <<>>) = o
  <2>1. Plain("call", 0) \in Leaf
    BY PlainFields DEF Kinds, Rpc
  <2> QED BY <2>1, SizeAfterOne
<1>2. CASE reply = <<>>
  <2>1. new = <<>>
    BY <1>2
  <2>2. <<>> \in Seq(Entry) /\ <<>> \in Seq(Message) /\ Len(<<>>) = 0
    BY EmptySeq
  <2>3. Written(o, <<>>, <<>>)
    BY <2>2 DEF Written
  <2>4. Tidy(<<>>)
    BY <2>2 DEF Tidy
  <2> QED BY <1>1, <1>2, <2>1, <2>2, <2>3, <2>4, LeavesLaws
<1>3. ASSUME NEW p \in Leaf, p.kind = "PingResponse", reply = <<p>>
      PROVE  /\ reply \in Seq(Message) /\ new \in Seq(Entry) /\ Written(o, reply, new)
             /\ o = SizeAfter(o, Leaves(reply)) /\ Tidy(new)
             /\ Len(new) = Len(reply) /\ \A i \in DOMAIN new : new[i].msg = reply[i]
  <2> DEFINE q == [msg |-> p, size |-> o]
  <2>1. p \in Message /\ <<p>> \in Seq(Message) /\ q \in Entry /\ q.msg = p /\ q.size = o
    BY SubsAreMessages DEF Entry
  <2>2. new = <<q>>
    BY <1>3
  <2> HIDE DEF q
  <2>3. openEntry[q] = unpack[p] /\ LastOnly(q.msg.subs) /\ unpack[p] = <<p>>
    BY <2>1, LeafOpens DEF openEntry
  <2>4. SubSeq(<<p>>, 1, 0) = <<>>
    BY <2>1, SubSeqEmpty
  <2>5. Written(o, <<p>>, <<q>>)
    <3>1. q.size = SizeAfter(o, Leaves(SubSeq(<<p>>, 1, 0)))
      BY <1>1, <2>1, <2>4, LeavesLaws
    <3>2. ASSUME NEW i \in 1 .. 1
          PROVE  /\ openEntry[<<q>>[i]] = unpack[<<p>>[i]]
                 /\ <<q>>[i].size = SizeAfter(o, Leaves(SubSeq(<<p>>, 1, i - 1)))
      <4>1. i = 1 /\ i - 1 = 0
        OBVIOUS
      <4> QED BY <2>3, <3>1, <4>1
    <3> QED BY <3>2 DEF Written
  <2>6. Tidy(<<q>>)
    BY <2>3 DEF Tidy
  <2>7. SizeAfter(o, Leaves(<<p>>)) = o
    <3>1. Leaves(<<p>>) = <<p>>
      BY <2>1, <2>3, LeavesLaws
    <3> QED BY <1>3, <3>1, SizeAfterOne
  <2>8. <<q>> \in Seq(Entry)
    BY <2>1
  <2> HIDE DEF new
  <2> QED BY <1>3, <2>1, <2>2, <2>5, <2>6, <2>7, <2>8
<1> HIDE DEF new
<1>4. QED BY <1>2, <1>3 DEF new

\* What a poll changes, variable by variable.
Took(e, m, rest, left) ==
    /\ inbox'[e] = left
    /\ \A x \in End \ {e, Peer(e)} : inbox'[x] = inbox[x]
    /\ session' = [x \in End |-> session'[x]]
    /\ session'[e].subs = IF m.kind = "Aggregate" THEN rest.subs \o ParseAggregate(m)
                          ELSE rest.subs
    /\ session'[e].size = IF m.kind = "SetChunkSize" THEN m.val ELSE rest.size
    /\ session'[e].tx = rest.tx
    /\ \A x \in End : session'[x] \in SessionState
    /\ \A x \in End \ {e} : session'[x] = session[x]
    /\ handled' = [x \in End |-> handled'[x]]
    /\ handled'[e] = IF m.kind = "Aggregate" THEN handled[e] ELSE Append(handled[e], m)
    /\ \A x \in End \ {e} : handled'[x] = handled[x]

LEMMA HandleTakes ==
    ASSUME TypeOK, NEW e \in End, NEW m \in Message, NEW rest \in SessionState,
           NEW left \in Seq(Entry), Handle(e, m, rest, left)
    PROVE  Took(e, m, rest, left)
<1>1. Peer(e) \in End /\ Peer(e) # e
  BY Ends2
<1>2. PICK reply : reply = Answers(Type(e), m)
  OBVIOUS
<1>3. PICK new : new = [i \in DOMAIN reply |-> [msg |-> reply[i], size |-> out[e]]]
  OBVIOUS
<1>4. inbox' = [inbox EXCEPT ![e] = left, ![Peer(e)] = @ \o new]
  BY <1>2, <1>3 DEF Handle
<1>5. inbox = [x \in End |-> inbox[x]] /\ session = [x \in End |-> session[x]]
      /\ handled = [x \in End |-> handled[x]]
  BY DEF TypeOK
<1>6. inbox'[e] = left /\ \A x \in End \ {e, Peer(e)} : inbox'[x] = inbox[x]
  BY <1>1, <1>4, <1>5
<1>7. PICK s : s = After(Type(e), rest, m)
  OBVIOUS
<1>8. session' = [session EXCEPT ![e] = s]
  BY <1>7 DEF Handle
<1>9. /\ s.subs = IF m.kind = "Aggregate" THEN rest.subs \o ParseAggregate(m) ELSE rest.subs
      /\ s.size = IF m.kind = "SetChunkSize" THEN m.val ELSE rest.size
      /\ s.tx = rest.tx
      /\ s.ended \in BOOLEAN /\ s.recorded \in BOOLEAN
      /\ s = [subs |-> s.subs, ended |-> s.ended, size |-> s.size, recorded |-> s.recorded,
              tx |-> s.tx]
  BY <1>7 DEF After, SessionState
<1>10. s \in SessionState
  <2>1. s.size \in Nat /\ s.tx \in Nat
    <3>1. m.kind = "SetChunkSize" => m.val \in Nat
      BY KindsOfMessages, LeafFields
    <3> QED BY <1>9, <3>1 DEF SessionState
  <2>2. s.subs \in Seq(Sub)
    <3>1. rest.subs \in Seq(Sub)
      BY DEF SessionState
    <3>2. PICK p : p = ParseAggregate(m)
      OBVIOUS
    <3>3. m.kind = "Aggregate" => p \in Seq(Sub)
      BY <3>2, KindsOfMessages, ParsedTyped
    <3> QED BY <1>9, <3>1, <3>2, <3>3
  <2> QED BY <1>9, <2>1, <2>2 DEF SessionState
<1>11. /\ session' = [x \in End |-> session'[x]] /\ session'[e] = s
       /\ \A x \in End \ {e} : session'[x] = session[x]
  BY <1>5, <1>8
<1>12. \A x \in End : session'[x] \in SessionState
  BY <1>10, <1>11, StateParts
<1>13. /\ handled' = [x \in End |-> handled'[x]]
       /\ handled'[e] = IF m.kind = "Aggregate" THEN handled[e] ELSE Append(handled[e], m)
       /\ \A x \in End \ {e} : handled'[x] = handled[x]
  <2>1. handled' = IF m.kind = "Aggregate" THEN handled
                   ELSE [handled EXCEPT ![e] = Append(@, m)]
    BY DEF Handle
  <2> QED BY <1>5, <2>1
<1> QED BY <1>6, <1>9, <1>11, <1>12, <1>13 DEF Took

LEMMA HandleAdds ==
    ASSUME TypeOK, NEW e \in End, NEW m \in Message, NEW rest, NEW left,
           Handle(e, m, rest, left)
    PROVE  \E reply \in Seq(Leaf), new \in Seq(Entry) :
              /\ Adds(e, reply, new) /\ Tidy(new)
              /\ reply = <<>> \/ \E p \in Leaf : p.kind = "PingResponse" /\ reply = <<p>>
              /\ Len(new) = Len(reply) /\ \A i \in DOMAIN new : new[i].msg = reply[i]
<1>1. Peer(e) \in End /\ Peer(e) # e /\ out[e] \in Nat
  BY Ends2, StateParts
<1>2. PICK reply : reply = Answers(Type(e), m)
  OBVIOUS
<1>3. /\ reply \in Seq(Leaf)
      /\ reply = <<>> \/ \E p \in Leaf : p.kind = "PingResponse" /\ reply = <<p>>
  BY <1>2, Replied
<1>4. PICK new : new = [i \in DOMAIN reply |-> [msg |-> reply[i], size |-> out[e]]]
  OBVIOUS
<1>5. /\ reply \in Seq(Message) /\ new \in Seq(Entry) /\ Written(out[e], reply, new)
      /\ out[e] = SizeAfter(out[e], Leaves(reply)) /\ Tidy(new)
      /\ Len(new) = Len(reply) /\ \A i \in DOMAIN new : new[i].msg = reply[i]
  BY <1>1, <1>3, <1>4, AnswerWritten
<1>6. /\ inbox' = [inbox EXCEPT ![e] = left, ![Peer(e)] = @ \o new]
      /\ sent' = [sent EXCEPT ![Peer(e)] = @ \o reply] /\ out' = out
  BY <1>2, <1>4 DEF Handle
<1>7. inbox = [x \in End |-> inbox[x]] /\ sent = [x \in End |-> sent[x]]
      /\ out = [x \in End |-> out[x]]
  BY DEF TypeOK
<1>8. inbox'[Peer(e)] = inbox[Peer(e)] \o new /\ inbox' = [x \in End |-> inbox'[x]]
  BY <1>1, <1>6, <1>7
<1>9. /\ sent'[Peer(e)] = sent[Peer(e)] \o reply /\ sent' = [x \in End |-> sent'[x]]
      /\ \A x \in End \ {Peer(e)} : sent'[x] = sent[x]
  BY <1>1, <1>6, <1>7
<1>10. Adds(e, reply, new)
  BY <1>5, <1>6, <1>7, <1>8, <1>9 DEF Adds
<1> QED BY <1>3, <1>5, <1>10

-----------------------------------------------------------------------------
(* Stored frames. *)

OneEach(fs) == \A i, j \in DOMAIN fs : fs[i].name = fs[j].name => i = j

\* A frame keeps its place, or comes to be at the end.
AfterUpsert(us, fs, n, v) ==
    /\ us \in Seq(Frame) /\ OneEach(us)
    /\ \A i \in DOMAIN us : us[i].name = n => us[i].val = v
    /\ \A i \in DOMAIN us : us[i].name # n => \E j \in DOMAIN fs : fs[j] = us[i]

LEMMA UpsertLaws ==
    \A fs \in Seq(Frame), n \in Names, v \in Nat :
        OneEach(fs) => AfterUpsert(Upsert(fs, n, v), fs, n, v)
<1> SUFFICES ASSUME NEW fs \in Seq(Frame), OneEach(fs), NEW n \in Names, NEW v \in Nat
             PROVE  AfterUpsert(Upsert(fs, n, v), fs, n, v)
  OBVIOUS
<1> DEFINE f == [name |-> n, val |-> v]
           k == Len(fs)
<1>1. f \in Frame /\ f.name = n /\ f.val = v
  BY DEF Frame
<1>2. DOMAIN fs = 1 .. k /\ k \in Nat /\ \A i \in 1 .. k : fs[i] \in Frame
  BY LenProperties
<1> HIDE DEF f, k
<1>3. CASE \E i \in DOMAIN fs : fs[i].name = n
  <2> DEFINE us == [i \in DOMAIN fs |-> IF fs[i].name = n THEN f ELSE fs[i]]
  <2>1. Upsert(fs, n, v) = us
    BY <1>3 DEF Upsert, f
  <2>2. DOMAIN us = 1 .. k /\ us = [i \in 1 .. k |-> us[i]]
    BY <1>2
  <2>3. \A i \in 1 .. k : /\ us[i] \in Frame /\ us[i].name = fs[i].name
                          /\ us[i].name = n => us[i].val = v
                          /\ us[i].name # n => us[i] = fs[i]
    BY <1>1, <1>2
  <2> HIDE DEF us
  <2>4. us \in [1 .. k -> Frame]
    BY <2>2, <2>3
  <2>5. us \in Seq(Frame)
    BY <1>2, <2>4, SeqDef
  <2>6. OneEach(us)
    BY <1>2, <2>2, <2>3 DEF OneEach
  <2>7. \A i \in 1 .. k : us[i].name # n => \E j \in DOMAIN fs : fs[j] = us[i]
    BY <1>2, <2>3
  <2> QED BY <2>1, <2>2, <2>3, <2>5, <2>6, <2>7 DEF AfterUpsert
<1>4. CASE ~\E i \in DOMAIN fs : fs[i].name = n
  <2>1. Upsert(fs, n, v) = Append(fs, f)
    BY <1>4 DEF Upsert, f
  <2>2. PICK us : us = Append(fs, f)
    OBVIOUS
  <2>3. /\ us \in Seq(Frame) /\ DOMAIN us = 1 .. k + 1 /\ us[k + 1] = f
        /\ \A i \in 1 .. k : us[i] = fs[i]
    BY <1>1, <1>2, <2>2, AppendProperties DEF k
  <2>4. \A i \in 1 .. k + 1 : i = k + 1 \/ i \in 1 .. k
    BY <1>2
  <2>5. \A i \in 1 .. k : us[i].name # n
    BY <1>2, <1>4, <2>3
  <2>6. OneEach(us)
    BY <1>1, <1>2, <2>3, <2>4, <2>5 DEF OneEach
  <2>7. \A i \in 1 .. k + 1 : /\ us[i].name = n => us[i].val = v
                              /\ us[i].name # n => \E j \in DOMAIN fs : fs[j] = us[i]
    BY <1>1, <1>2, <2>3, <2>4, <2>5
  <2> QED BY <2>1, <2>2, <2>3, <2>6, <2>7 DEF AfterUpsert
<1> QED BY <1>3, <1>4

\* What is left once the frames of a name are gone.
Without(fs, n) == Those(fs, LAMBDA f : f.name # n)

AfterClear(us, fs) ==
    /\ us \in Seq(Frame)
    /\ \A i \in DOMAIN us : \E j \in DOMAIN fs : fs[j] = us[i]
    /\ OneEach(fs) => OneEach(us)

LEMMA ClearLaws == \A n : \A fs \in Seq(Frame) : AfterClear(Without(fs, n), fs)
<1> SUFFICES ASSUME NEW n PROVE \A fs \in Seq(Frame) : AfterClear(Without(fs, n), fs)
  OBVIOUS
<1> DEFINE kept == [f \in Frame |-> IF f.name # n THEN <<f>> ELSE <<>>]
           Good(fs) == /\ \A i \in DOMAIN Bring(kept, fs) :
                             \E j \in DOMAIN fs : fs[j] = Bring(kept, fs)[i]
                       /\ OneEach(fs) => OneEach(Bring(kept, fs))
           P == {fs \in Seq(Frame) : Good(fs)}
<1>1. kept \in [Frame -> Seq(Frame)]
  <2>1. \A f \in Frame : <<f>> \in Seq(Frame)
    OBVIOUS
  <2> QED BY <2>1, EmptySeq
<1>2. ASSUME NEW fs \in Seq(Frame) PROVE Without(fs, n) = Bring(kept, fs)
  <2>1. \A i \in DOMAIN fs : fs[i] \in Frame
    OBVIOUS
  <2> QED BY <2>1 DEF Without, Those, Bring
<1>3. \A f \in Frame : kept[f] = IF f.name # n THEN <<f>> ELSE <<>>
  OBVIOUS
<1> HIDE DEF kept
<1>4. /\ \A a \in Seq(Frame) : Bring(kept, a) \in Seq(Frame)
      /\ Bring(kept, <<>>) = <<>>
      /\ \A a \in Seq(Frame), x \in Frame : Bring(kept, Append(a, x)) = Bring(kept, a) \o kept[x]
  <2>1. Laws(kept, Frame, Frame)
    BY <1>1, BringLaws
  <2> QED BY <2>1 DEF Laws
<1>5. <<>> \in P
  <2>1. <<>> \in Seq(Frame) /\ DOMAIN <<>> = {}
    BY EmptySeq
  <2> QED BY <1>4, <2>1 DEF OneEach
<1>6. ASSUME NEW fs \in Seq(Frame), NEW f \in Frame, fs \in P PROVE Append(fs, f) \in P
  <2>1. PICK us, ws, k, l : /\ us = Bring(kept, fs) /\ ws = Bring(kept, Append(fs, f))
                            /\ k = Len(fs) /\ l = Len(us)
    OBVIOUS
  <2>2. us \in Seq(Frame) /\ ws = us \o kept[f]
    BY <1>4, <2>1
  <2>3. /\ DOMAIN fs = 1 .. k /\ k \in Nat /\ DOMAIN us = 1 .. l /\ l \in Nat
        /\ DOMAIN Append(fs, f) = 1 .. k + 1 /\ Append(fs, f) \in Seq(Frame)
        /\ \A i \in 1 .. k : Append(fs, f)[i] = fs[i]
        /\ Append(fs, f)[k + 1] = f
    BY <2>1, <2>2, AppendProperties, LenProperties
  <2>4. /\ \A i \in 1 .. l : \E j \in 1 .. k : fs[j] = us[i]
        /\ OneEach(fs) => OneEach(us)
    BY <1>6, <2>1, <2>3
  <2>5. OneEach(Append(fs, f)) => OneEach(fs) /\ \A j \in 1 .. k : fs[j].name # f.name
    <3>1. \A j \in 1 .. k : j \in 1 .. k + 1 /\ j # k + 1
      BY <2>3
    <3>2. k + 1 \in 1 .. k + 1
      BY <2>3
    <3> QED BY <2>3, <3>1, <3>2 DEF OneEach
  <2>6. CASE f.name = n
    <3>1. ws = us
      BY <1>3, <2>2, <2>6, ConcatEmptySeq
    <3>2. ASSUME NEW i \in 1 .. l PROVE \E j \in 1 .. k + 1 : Append(fs, f)[j] = us[i]
      <4>1. \A j \in 1 .. k : j \in 1 .. k + 1
        BY <2>3
      <4> QED BY <2>3, <2>4, <4>1
    <3>3. OneEach(Append(fs, f)) => OneEach(ws)
      BY <2>4, <2>5, <3>1
    <3>4. Good(Append(fs, f))
      BY <2>1, <2>3, <3>1, <3>2, <3>3
    <3> QED BY <2>3, <3>4
  <2>7. CASE f.name # n
    <3>1. ws = Append(us, f)
      <4>1. kept[f] = <<f>> /\ us \o <<f>> = Append(us, f)
        <5>1. kept[f] = <<f>>
          BY <1>3, <2>7
        <5>2. us \o <<f>> = Append(us, f)
          BY <2>2
        <5> QED BY <5>1, <5>2
      <4> QED BY <2>2, <4>1
    <3>2. /\ DOMAIN ws = 1 .. l + 1 /\ ws[l + 1] = f
          /\ \A i \in 1 .. l : ws[i] = us[i]
      BY <2>1, <2>2, <2>3, <3>1, AppendProperties
    <3>3. \A i \in 1 .. l + 1 : i = l + 1 \/ i \in 1 .. l
      BY <2>3
    <3>4. ASSUME NEW i \in 1 .. l + 1 PROVE \E j \in 1 .. k + 1 : Append(fs, f)[j] = ws[i]
      <4>1. k + 1 \in 1 .. k + 1 /\ \A j \in 1 .. k : j \in 1 .. k + 1
        BY <2>3
      <4> QED BY <2>3, <2>4, <3>2, <3>3, <4>1
    <3>5. ASSUME OneEach(Append(fs, f)) PROVE OneEach(ws)
      <4>1. OneEach(us) /\ \A j \in 1 .. k : fs[j].name # f.name
        BY <2>4, <2>5, <3>5
      <4>2. \A i \in 1 .. l : us[i].name # f.name
        BY <2>4, <4>1
      <4> QED BY <2>3, <3>2, <3>3, <4>1, <4>2 DEF OneEach
    <3> QED BY <2>1, <2>3, <3>2, <3>4, <3>5
  <2> QED BY <2>6, <2>7
<1> HIDE DEF P
<1>7. Seq(Frame) \subseteq P
  BY <1>5, <1>6, InductionOnAppend
<1>8. \A fs \in Seq(Frame) : Good(fs)
  BY <1>7 DEF P
<1> QED BY <1>2, <1>4, <1>8 DEF AfterClear

\* The frames after a message: what it says of a name is stored under it, and the others
\* are as they were.
Stores(m, n, v) ==
    \/ m.kind = "SetDataFrame" /\ n = m.name /\ v = m.val
    \/ /\ m.kind = "Data" /\ m.val # 0 /\ m.name \in {"", "onMetaData"}
       /\ n = "onMetaData" /\ v = m.val

LEMMA FramesLaws ==
    ASSUME NEW fs \in Seq(Frame), OneEach(fs), NEW m \in Message
    PROVE  LET us == FramesAfter(fs, m) IN
           /\ us \in Seq(Frame) /\ OneEach(us)
           /\ \A n, v : Stores(m, n, v) => \A i \in DOMAIN us : us[i].name = n => us[i].val = v
           /\ \A i \in DOMAIN us : \/ Stores(m, us[i].name, us[i].val)
                                   \/ \E j \in DOMAIN fs : fs[j] = us[i]
<1>1. "onMetaData" \in Names
  BY HandlerNames
<1>2. m.kind # "Aggregate" => m.name \in Names /\ m.val \in Nat
  BY KindsOfMessages, LeafFields
<1>3. CASE m.kind = "SetDataFrame"
  <2>1. PICK us, n, v : us = FramesAfter(fs, m) /\ n = m.name /\ v = m.val
    OBVIOUS
  <2>2. us = Upsert(fs, n, v)
    BY <1>3, <2>1 DEF FramesAfter
  <2>3. AfterUpsert(us, fs, n, v)
    BY <1>2, <1>3, <2>1, <2>2, UpsertLaws
  <2> QED BY <1>3, <2>1, <2>3 DEF AfterUpsert, Stores
<1>4. CASE m.kind = "ClearDataFrame"
  <2>1. PICK us, n : us = FramesAfter(fs, m) /\ n = m.name
    OBVIOUS
  <2>2. us = Without(fs, n)
    BY <1>4, <2>1 DEF FramesAfter, Without
  <2>3. AfterClear(us, fs)
    BY <2>2, ClearLaws
  <2>4. \A k, v : ~Stores(m, k, v)
    BY <1>4 DEF Stores
  <2> QED BY <2>1, <2>3, <2>4 DEF AfterClear
<1>5. CASE m.kind = "Data" /\ m.val # 0 /\ m.name \in {"", "onMetaData"}
  <2>1. PICK us, n, v : us = FramesAfter(fs, m) /\ n = "onMetaData" /\ v = m.val
    OBVIOUS
  <2>2. us = Upsert(fs, n, v)
    BY <1>5, <2>1 DEF FramesAfter
  <2>3. AfterUpsert(us, fs, n, v)
    BY <1>1, <1>2, <1>5, <2>1, <2>2, UpsertLaws
  <2> QED BY <1>5, <2>1, <2>3 DEF AfterUpsert, Stores
<1>6. CASE /\ m.kind # "SetDataFrame" /\ m.kind # "ClearDataFrame"
           /\ ~(m.kind = "Data" /\ m.val # 0 /\ m.name \in {"", "onMetaData"})
  <2>1. FramesAfter(fs, m) = fs
    BY <1>6 DEF FramesAfter
  <2>2. \A n, v : ~Stores(m, n, v)
    BY <1>6 DEF Stores
  <2> QED BY <2>1, <2>2
<1> QED BY <1>3, <1>4, <1>5, <1>6

LEMMA ForwardedTyped ==
    ASSUME NEW m \in Message
    PROVE  /\ Forwarded(m) \in Seq(Leaf)
           /\ \/ Forwarded(m) = <<>> /\ m.kind \notin Media \cup {"SetDataFrame", "Data"}
              \/ \E p \in Leaf :
                    /\ Forwarded(m) = <<p>>
                    /\ \/ m.kind \in Media /\ p = m
                       \/ /\ m.kind = "SetDataFrame" /\ p.kind = "Data"
                          /\ p.name = m.name /\ p.val = m.val
                       \/ /\ m.kind = "Data" /\ p.kind = "Data"
                          /\ p.name = "onMetaData" /\ p.val = m.val
<1>1. "onMetaData" \in Names /\ "Data" \in Kinds
  BY HandlerNames DEF Kinds
<1>2. m.kind # "Aggregate" => m \in Leaf /\ m.name \in Names /\ m.val \in Nat
  BY KindsOfMessages, LeafFields
<1>3. "SetDataFrame" \notin Media /\ "Data" \notin Media /\ "Aggregate" \notin Media
  BY DEF Media
<1>4. CASE m.kind \in Media
  <2>1. Forwarded(m) = <<m>> /\ m \in Leaf
    BY <1>2, <1>3, <1>4 DEF Forwarded
  <2> QED BY <1>4, <2>1, Singles
<1>5. CASE m.kind = "SetDataFrame"
  <2>1. Forwarded(m) = <<Named("Data", m.name, m.val)>>
    BY <1>3, <1>5 DEF Forwarded
  <2>2. PICK p : p = Named("Data", m.name, m.val)
    OBVIOUS
  <2>3. p \in Leaf /\ p.kind = "Data" /\ p.name = m.name /\ p.val = m.val
    BY <1>1, <1>2, <1>5, <2>2, NamedFields
  <2> QED BY <1>5, <2>1, <2>2, <2>3, Singles
<1>6. CASE m.kind = "Data"
  <2>1. Forwarded(m) = <<Named("Data", "onMetaData", m.val)>>
    BY <1>3, <1>6 DEF Forwarded
  <2>2. PICK p : p = Named("Data", "onMetaData", m.val)
    OBVIOUS
  <2>3. p \in Leaf /\ p.kind = "Data" /\ p.name = "onMetaData" /\ p.val = m.val
    BY <1>1, <1>2, <1>6, <2>2, NamedFields
  <2> QED BY <1>6, <2>1, <2>2, <2>3, Singles
<1>7. CASE m.kind \notin Media \cup {"SetDataFrame", "Data"}
  <2>1. Forwarded(m) = <<>>
    BY <1>7 DEF Forwarded
  <2> QED BY <1>7, <2>1, EmptySeq
<1> QED BY <1>4, <1>5, <1>6, <1>7

\* The frames as a late subscriber gets them.
LEMMA ReplayTyped ==
    ASSUME NEW fs \in Seq(Frame)
    PROVE  LET ms == [i \in DOMAIN fs |-> DataMessage(fs[i])] IN
           /\ ms \in Seq(Leaf) /\ Len(ms) = Len(fs) /\ DOMAIN ms = DOMAIN fs
           /\ \A i \in DOMAIN fs : /\ ms[i].kind = "Data" /\ ms[i].name = fs[i].name
                                   /\ ms[i].val = fs[i].val
<1> DEFINE ms == [i \in DOMAIN fs |-> DataMessage(fs[i])]
           k == Len(fs)
<1>1. DOMAIN fs = 1 .. k /\ k \in Nat /\ \A i \in 1 .. k : fs[i] \in Frame
  BY LenProperties
<1>2. ASSUME NEW i \in 1 .. k
      PROVE  ms[i] \in Leaf /\ ms[i].kind = "Data" /\ ms[i].name = fs[i].name
             /\ ms[i].val = fs[i].val
  <2>1. fs[i].name \in Names /\ fs[i].val \in Nat /\ "Data" \in Kinds
    BY <1>1 DEF Frame, Kinds
  <2>2. ms[i] = Named("Data", fs[i].name, fs[i].val)
    BY <1>1 DEF DataMessage
  <2> HIDE DEF ms
  <2> QED BY <2>1, <2>2, NamedFields
<1>3. DOMAIN ms = 1 .. k /\ ms = [i \in 1 .. k |-> ms[i]]
  BY <1>1
<1> HIDE DEF ms
<1>4. ms \in [1 .. k -> Leaf]
  BY <1>2, <1>3
<1>5. ms \in Seq(Leaf) /\ Len(ms) = k
  BY <1>1, <1>4, SeqDef
<1> QED BY <1>1, <1>2, <1>3, <1>5 DEF ms

-----------------------------------------------------------------------------
(* Types. *)

\* A turn of the poll loop: the queue first, then the wire.
Served(e, m, rest, left) ==
    /\ session[e].subs # <<>> /\ m = Head(session[e].subs) /\ m \in Sub
    /\ rest.subs = Tail(session[e].subs) /\ rest.size = session[e].size
    /\ rest.tx = session[e].tx /\ left = inbox[e]

Read(e, m, rest, left) ==
    /\ session[e].subs = <<>> /\ inbox[e] # <<>>
    /\ m = Head(inbox[e]).msg /\ rest = session[e] /\ left = Tail(inbox[e])

LEMMA PollParts ==
    ASSUME TypeOK, NEW e \in End, Poll(e)
    PROVE  \E m \in Message, rest \in SessionState, left \in Seq(Entry) :
              /\ MayPoll(e) /\ Handle(e, m, rest, left)
              /\ Served(e, m, rest, left) \/ Read(e, m, rest, left)
<1>1. /\ session[e] \in SessionState /\ session[e].subs \in Seq(Sub)
      /\ inbox[e] \in Seq(Entry)
  BY StateParts
<1>2. CASE PollSub(e)
  <2>1. PICK m, rest : m = Head(session[e].subs)
                       /\ rest = [session[e] EXCEPT !.subs = Tail(@)]
    OBVIOUS
  <2>2. MayPoll(e) /\ session[e].subs # <<>> /\ Handle(e, m, rest, inbox[e])
    BY <1>2, <2>1 DEF PollSub
  <2>3. m \in Sub /\ Tail(session[e].subs) \in Seq(Sub)
    BY <1>1, <2>1, <2>2, HeadAndTail
  <2>4. m \in Message
    BY <2>3, SubsAreMessages
  <2>5. /\ rest \in SessionState /\ rest.subs = Tail(session[e].subs)
        /\ rest.size = session[e].size /\ rest.tx = session[e].tx
    BY <1>1, <2>1, <2>3 DEF SessionState
  <2> QED BY <1>1, <2>1, <2>2, <2>3, <2>4, <2>5 DEF Served
<1>3. CASE PollWire(e)
  <2>1. PICK m, left : m = Head(inbox[e]).msg /\ left = Tail(inbox[e])
    OBVIOUS
  <2>2. /\ MayPoll(e) /\ session[e].subs = <<>> /\ inbox[e] # <<>>
        /\ Handle(e, m, session[e], left)
    BY <1>3, <2>1 DEF PollWire
  <2>3. Head(inbox[e]) \in Entry /\ left \in Seq(Entry)
    BY <1>1, <2>1, <2>2, HeadAndTail
  <2>4. m \in Message
    BY <2>1, <2>3 DEF Entry
  <2> QED BY <1>1, <2>1, <2>2, <2>3, <2>4 DEF Read
<1> QED BY <1>2, <1>3 DEF Poll

\* The connection after a write.
LEMMA AddsTyped ==
    ASSUME TypeOK, NEW e \in End, NEW ms, NEW new, Adds(e, ms, new),
           \A x \in End \ {Peer(e)} : inbox'[x] \in Seq(Entry)
    PROVE  /\ inbox' \in [End -> Seq([msg : Message, size : Nat])]
           /\ out' \in [End -> Nat] /\ sent' \in [End -> Seq(Message)]
<1>1. /\ ms \in Seq(Message) /\ new \in Seq(Entry) /\ Peer(e) \in End
      /\ inbox'[Peer(e)] = inbox[Peer(e)] \o new /\ sent'[Peer(e)] = sent[Peer(e)] \o ms
      /\ \A x \in End \ {Peer(e)} : sent'[x] = sent[x]
      /\ inbox' = [x \in End |-> inbox'[x]] /\ sent' = [x \in End |-> sent'[x]]
  BY Ends2 DEF Adds
<1>2. /\ out'[e] = SizeAfter(out[e], Leaves(ms)) /\ out' = [x \in End |-> out'[x]]
      /\ \A x \in End \ {e} : out'[x] = out[x]
  BY DEF Adds
<1>3. out \in [End -> Nat] /\ sent \in [End -> Seq(Message)]
      /\ inbox \in [End -> Seq(Entry)]
  BY DEF TypeOK, Entry
<1>4. SizeAfter(out[e], Leaves(ms)) \in Nat
  <2>1. Leaves(ms) \in Seq(Leaf) /\ out[e] \in Nat /\ <<>> \in Seq(Leaf)
    BY <1>1, <1>3, LeavesLaws, EmptySeq
  <2> QED BY <2>1, SizeAfterTwo
<1>5. inbox'[Peer(e)] \in Seq(Entry) /\ sent'[Peer(e)] \in Seq(Message)
  BY <1>1, <1>3
<1>6. \A x \in End : inbox'[x] \in Seq(Entry) /\ sent'[x] \in Seq(Message)
  BY <1>1, <1>3, <1>5
<1>7. \A x \in End : out'[x] \in Nat
  BY <1>2, <1>3, <1>4
<1>8. inbox' \in [End -> Seq(Entry)]
  BY <1>1, <1>6
<1>9. out' \in [End -> Nat]
  BY <1>2, <1>7
<1>10. sent' \in [End -> Seq(Message)]
  BY <1>1, <1>6
<1> QED BY <1>8, <1>9, <1>10 DEF Entry

\* Calls and replies are one message each, in an aggregate or by itself.
LEMMA CallWrites ==
    ASSUME TypeOK, NEW e \in End, Call(e)
    PROVE  \E p \in Leaf : p.kind = "call" /\ \E w \in Wrapped(p) : Write(e, <<w>>)
<1>1. session[e].tx \in Nat /\ "call" \in Kinds
  BY StateParts DEF Kinds, Rpc
<1>2. PICK p : p = Plain("call", session[e].tx)
  OBVIOUS
<1>3. p \in Leaf /\ p.kind = "call"
  BY <1>1, <1>2, PlainFields
<1>4. \E w \in Wrapped(p) : Write(e, <<w>>)
  BY <1>2 DEF Call
<1> QED BY <1>3, <1>4

LEMMA AnswerWrites ==
    ASSUME TypeOK, NEW e \in End, NEW i \in DOMAIN handled[e], Answer(e, i)
    PROVE  \E p \in Leaf : p.kind \in Replies /\ \E w \in Wrapped(p) : Write(e, <<w>>)
<1>1. handled[e][i] \in Leaf
  BY StateParts
<1>2. PICK k \in Replies : \E w \in Wrapped(Plain(k, handled[e][i].val)) : Write(e, <<w>>)
  BY DEF Answer
<1>3. handled[e][i].val \in Nat /\ k \in Kinds
  BY <1>1, LeafFields DEF Kinds, Rpc, Replies
<1>4. PICK p : p = Plain(k, handled[e][i].val)
  OBVIOUS
<1>5. p \in Leaf /\ p.kind = k
  BY <1>3, <1>4, PlainFields
<1> QED BY <1>2, <1>4, <1>5

LEMMA InitTyped == Init => TypeOK
<1> SUFFICES ASSUME Init PROVE TypeOK
  OBVIOUS
<1>1. PICK t \in Traffic : menu = t.menu /\ budget = t.budget
  BY DEF Init
<1>2. budget \in 0 .. t.budget
  BY <1>1, TrafficIsBuilt
<1>3. /\ <<>> \in Seq(Sub) /\ <<>> \in Seq(Entry) /\ <<>> \in Seq(Frame) /\ <<>> \in Seq(Leaf)
      /\ <<>> \in Seq(Message)
  BY EmptySeq
<1>4. /\ session \in [End -> SessionState]
      /\ inbox \in [End -> Seq([msg : Message, size : Nat])] /\ out \in [End -> Nat]
  <2>1. FirstTx \in Nat /\ InitialSize \in Nat
    BY SessionConstants
  <2> QED BY <1>3, <2>1 DEF Init, SessionState, Entry
<1>5. frames \in Seq(Frame) /\ \A i, j \in DOMAIN frames : frames[i].name = frames[j].name => i = j
  BY <1>3 DEF Init
<1>6. relay \in [packet : Seq(Leaf), todo : SUBSET joined] /\ joined \subseteq Conn \ {Upstream}
  BY <1>3 DEF Init
<1>7. /\ answered \in [End -> SUBSET Nat] /\ sent \in [End -> Seq(Message)]
      /\ handled \in [End -> Seq(Leaf)]
  BY <1>3 DEF Init
<1> QED BY <1>1, <1>2, <1>4, <1>5, <1>6, <1>7 DEF TypeOK

\* The types of what a write leaves alone.
Other(s, f, r, j, a, h) ==
    /\ s \in [End -> SessionState]
    /\ f \in Seq(Frame) /\ OneEach(f)
    /\ r \in [packet : Seq(Leaf), todo : SUBSET j] /\ j \subseteq Conn \ {Upstream}
    /\ a \in [End -> SUBSET Nat] /\ h \in [End -> Seq(Leaf)]

Traded(mn, b) == \E t \in Traffic : mn = t.menu /\ b \in 0 .. t.budget

LEMMA TypeParts ==
    TypeOK <=> /\ Traded(menu, budget) /\ Other(session, frames, relay, joined, answered, handled)
               /\ inbox \in [End -> Seq([msg : Message, size : Nat])]
               /\ out \in [End -> Nat] /\ sent \in [End -> Seq(Message)]
BY DEF TypeOK, Other, OneEach, Traded

LEMMA SpentTyped ==
    ASSUME TypeOK, budget > 0, budget' = budget - 1, menu' = menu
    PROVE  Traded(menu', budget')
<1>1. PICK t \in Traffic : menu = t.menu /\ budget \in 0 .. t.budget
  BY DEF TypeOK
<1>2. t.budget \in Nat
  BY <1>1, TrafficIsBuilt
<1>3. budget - 1 \in 0 .. t.budget
  BY <1>1, <1>2
<1> QED BY <1>1, <1>3 DEF Traded

LEMMA TypeWrites ==
    ASSUME TypeOK, NEW e \in End, NEW ms, NEW new, Adds(e, ms, new),
           \A x \in End \ {Peer(e)} : inbox'[x] = inbox[x],
           Traded(menu', budget'),
           Other(session', frames', relay', joined', answered', handled')
    PROVE  TypeOK'
<1>1. \A x \in End \ {Peer(e)} : inbox'[x] \in Seq(Entry)
  BY StateParts
<1>2. /\ inbox' \in [End -> Seq([msg : Message, size : Nat])]
      /\ out' \in [End -> Nat] /\ sent' \in [End -> Seq(Message)]
  BY <1>1, AddsTyped
<1> QED BY <1>2 DEF TypeOK, Other, OneEach, Traded

LEMMA TypeOfPolls == ASSUME TypeOK, NEW e \in End, Poll(e) PROVE TypeOK'
<1>1. PICK m \in Message, rest \in SessionState, left \in Seq(Entry) :
         MayPoll(e) /\ Handle(e, m, rest, left)
         /\ (Served(e, m, rest, left) \/ Read(e, m, rest, left))
  BY PollParts
<1>2. Took(e, m, rest, left)
  BY <1>1, HandleTakes
<1>3. PICK reply \in Seq(Leaf), new \in Seq(Entry) : Adds(e, reply, new)
  BY <1>1, HandleAdds
<1>4. \A x \in End \ {Peer(e)} : inbox'[x] \in Seq(Entry)
  BY <1>2, StateParts DEF Took
<1>5. /\ inbox' \in [End -> Seq([msg : Message, size : Nat])]
      /\ out' \in [End -> Nat] /\ sent' \in [End -> Seq(Message)]
  BY <1>3, <1>4, AddsTyped
<1>6. UNCHANGED <<menu, joined, answered, budget>>
  BY <1>1 DEF Handle, app
<1>7. Traded(menu', budget')
  BY <1>6 DEF TypeOK, Traded
<1>8. session' \in [End -> SessionState]
  BY <1>2 DEF Took
<1>9. handled' \in [End -> Seq(Leaf)]
  <2>1. m.kind # "Aggregate" => m \in Leaf
    BY KindsOfMessages
  <2>2. \A x \in End : handled[x] \in Seq(Leaf)
    BY StateParts
  <2>3. /\ handled' = [x \in End |-> handled'[x]]
        /\ \A x \in End \ {e} : handled'[x] = handled[x]
        /\ \/ handled'[e] = handled[e]
           \/ m.kind # "Aggregate" /\ handled'[e] = Append(handled[e], m)
    BY <1>2 DEF Took
  <2>4. \A s \in Seq(Leaf), p \in Leaf : Append(s, p) \in Seq(Leaf)
    OBVIOUS
  <2>5. handled'[e] \in Seq(Leaf)
    BY <2>1, <2>2, <2>3, <2>4
  <2>6. \A x \in End : handled'[x] \in Seq(Leaf)
    BY <2>2, <2>3, <2>5
  <2> QED BY <2>3, <2>6
<1>10. frames' \in Seq(Frame) /\ OneEach(frames')
  <2>1. frames \in Seq(Frame) /\ OneEach(frames)
    BY DEF TypeOK, OneEach
  <2>2. frames' = frames \/ frames' = FramesAfter(frames, m)
    BY <1>1 DEF Handle
  <2>3. PICK us : us = FramesAfter(frames, m)
    OBVIOUS
  <2>4. us \in Seq(Frame) /\ OneEach(us)
    BY <2>1, <2>3, FramesLaws
  <2> QED BY <2>1, <2>2, <2>3, <2>4
<1>11. relay' \in [packet : Seq(Leaf), todo : SUBSET joined]
  <2>1. relay \in [packet : Seq(Leaf), todo : SUBSET joined]
    BY DEF TypeOK
  <2>2. relay' = relay \/ relay' = [packet |-> Forwarded(m), todo |-> joined]
    BY <1>1 DEF Handle
  <2>3. Forwarded(m) \in Seq(Leaf)
    BY ForwardedTyped
  <2> QED BY <2>1, <2>2, <2>3
<1>12. joined \subseteq Conn \ {Upstream} /\ answered \in [End -> SUBSET Nat]
  BY DEF TypeOK
<1> QED BY <1>5, <1>6, <1>7, <1>8, <1>9, <1>10, <1>11, <1>12 DEF TypeOK, OneEach, Traded

LEMMA TypeStep == TypeOK /\ [Next]_vars => TypeOK'
<1> SUFFICES ASSUME TypeOK, [Next]_vars PROVE TypeOK'
  OBVIOUS
<1> USE DEF app, log
<1>0. /\ Traded(menu, budget) /\ Other(session, frames, relay, joined, answered, handled)
      /\ session \in [End -> SessionState] /\ answered \in [End -> SUBSET Nat]
      /\ relay \in [packet : Seq(Leaf), todo : SUBSET joined]
  BY TypeParts DEF TypeOK
<1>1. CASE UNCHANGED vars
  BY <1>1 DEF vars, TypeOK
<1>2. ASSUME NEW e \in End, Send(e) \/ SendShifted(e) PROVE TypeOK'
  <2>1. PICK m \in menu[e], new \in Seq(Entry) : /\ Adds(e, <<m>>, new)
                                                 /\ \A x \in End \ {Peer(e)} : inbox'[x] = inbox[x]
    BY <1>2, SendAdds
  <2>2. /\ budget > 0 /\ budget' = budget - 1
        /\ UNCHANGED <<menu, joined, answered, session, frames, relay, handled>>
    BY <1>2 DEF Send, SendShifted, MayWrite
  <2>3. Traded(menu', budget')
    BY <2>2, SpentTyped
  <2>4. Other(session', frames', relay', joined', answered', handled')
    BY <1>0, <2>2
  <2> QED BY <2>1, <2>3, <2>4, TypeWrites
<1>3. ASSUME NEW e \in End, Call(e) PROVE TypeOK'
  <2>1. PICK p \in Leaf : \E w \in Wrapped(p) : Write(e, <<w>>)
    BY <1>3, CallWrites
  <2>2. PICK w \in Wrapped(p) : Write(e, <<w>>)
    BY <2>1
  <2>3. PICK new : Adds(e, <<w>>, new) /\ \A x \in End \ {Peer(e)} : inbox'[x] = inbox[x]
    BY <2>2, WriteWrapped
  <2>4. /\ budget > 0 /\ budget' = budget - 1 /\ session' = [session EXCEPT ![e].tx = @ + 1]
        /\ UNCHANGED <<menu, joined, answered, frames, relay, handled>>
    BY <1>3 DEF Call, MayWrite
  <2>5. Traded(menu', budget')
    BY <2>4, SpentTyped
  <2>6. session' \in [End -> SessionState]
    <3>1. PICK s : s = [session[e] EXCEPT !.tx = @ + 1]
      OBVIOUS
    <3>2. s \in SessionState
      <4>1. session[e] \in SessionState
        BY <1>0
      <4> QED BY <3>1, <4>1 DEF SessionState
    <3>3. session' = [session EXCEPT ![e] = s]
      BY <2>4, <3>1
    <3> QED BY <1>0, <3>2, <3>3
  <2>7. Other(session', frames', relay', joined', answered', handled')
    BY <1>0, <2>4, <2>6 DEF Other
  <2> QED BY <2>3, <2>5, <2>7, TypeWrites
<1>4. ASSUME NEW e \in End, NEW i \in DOMAIN handled[e], Answer(e, i) PROVE TypeOK'
  <2>1. PICK p \in Leaf : \E w \in Wrapped(p) : Write(e, <<w>>)
    BY <1>4, AnswerWrites
  <2>3. PICK w \in Wrapped(p) : Write(e, <<w>>)
    BY <2>1
  <2>4. PICK new : Adds(e, <<w>>, new) /\ \A x \in End \ {Peer(e)} : inbox'[x] = inbox[x]
    BY <2>3, WriteWrapped
  <2>5. /\ answered' = [answered EXCEPT ![e] = @ \cup {i}]
        /\ UNCHANGED <<menu, joined, session, frames, relay, budget, handled>>
    BY <1>4 DEF Answer
  <2>6. answered' \in [End -> SUBSET Nat]
    <3>1. i \in Nat
      <4>1. handled[e] \in Seq(Leaf)
        BY StateParts
      <4> QED BY <4>1, LenProperties
    <3> QED BY <1>0, <2>5, <3>1
  <2>7. Other(session', frames', relay', joined', answered', handled')
    BY <1>0, <2>5, <2>6 DEF Other
  <2>8. Traded(menu', budget')
    BY <1>0, <2>5
  <2> QED BY <2>4, <2>7, <2>8, TypeWrites
<1>5. ASSUME NEW c \in Conn, Join(c) PROVE TypeOK'
  <2>1. PICK ms : ms = [i \in DOMAIN frames |-> DataMessage(frames[i])]
    OBVIOUS
  <2>2. ms \in Seq(Leaf)
    BY <2>1, ReplayTyped DEF TypeOK
  <2>3. <<c, "server">> \in End /\ Write(<<c, "server">>, ms)
    BY <1>5, <2>1 DEF Join, End
  <2>4. PICK new : /\ Adds(<<c, "server">>, ms, new)
                   /\ \A x \in End \ {Peer(<<c, "server">>)} : inbox'[x] = inbox[x]
    BY <2>2, <2>3, WriteLeaves
  <2>5. /\ c \notin joined \cup {Upstream} /\ joined' = joined \cup {c}
        /\ UNCHANGED <<menu, answered, session, frames, relay, budget, handled>>
    BY <1>5 DEF Join
  <2>6. Other(session', frames', relay', joined', answered', handled')
    <3>1. relay' \in [packet : Seq(Leaf), todo : SUBSET joined']
      BY <1>0, <2>5
    <3> QED BY <1>0, <2>5, <3>1 DEF Other
  <2>7. Traded(menu', budget')
    BY <1>0, <2>5
  <2> QED BY <2>3, <2>4, <2>6, <2>7, TypeWrites
<1>6. ASSUME NEW c \in Conn, Forward(c) PROVE TypeOK'
  <2>1. PICK ms : ms = relay.packet
    OBVIOUS
  <2>2. <<c, "server">> \in End /\ Write(<<c, "server">>, ms) /\ ms \in Seq(Leaf)
    BY <1>0, <1>6, <2>1 DEF Forward, End
  <2>3. PICK new : /\ Adds(<<c, "server">>, ms, new)
                   /\ \A x \in End \ {Peer(<<c, "server">>)} : inbox'[x] = inbox[x]
    BY <2>2, WriteLeaves
  <2>4. /\ relay' = [relay EXCEPT !.todo = @ \ {c}]
        /\ UNCHANGED <<menu, joined, answered, session, frames, budget, handled>>
    BY <1>6 DEF Forward
  <2>5. Other(session', frames', relay', joined', answered', handled')
    <3>1. relay' \in [packet : Seq(Leaf), todo : SUBSET joined']
      BY <1>0, <2>4
    <3> QED BY <1>0, <2>4, <3>1 DEF Other
  <2>6. Traded(menu', budget')
    BY <1>0, <2>4
  <2> QED BY <2>2, <2>3, <2>5, <2>6, TypeWrites
<1> QED BY <1>1, <1>2, <1>3, <1>4, <1>5, <1>6, TypeOfPolls DEF Next

\* Every state of a session is well typed, and the frames stored for late subscribers
\* have distinct names (store_data_frame).
THEOREM TypeCorrect == Spec => []TypeOK
<1>1. Init => TypeOK
  BY InitTyped
<1>2. TypeOK /\ [Next]_vars => TypeOK'
  BY TypeStep
<1> QED BY <1>1, <1>2, PTL DEF Spec

-----------------------------------------------------------------------------
(* Order and chunk sizes. *)

Flow(e) ==
    Channel(handled[e], session[e].subs, session[e].size, inbox[e], out[Peer(e)], sent[e])
Flows == \A e \in End : Flow(e)

LEMMA FlowsInit == Init => Flows
<1> SUFFICES ASSUME Init, NEW e \in End PROVE Flow(e)
  BY DEF Flows
<1> DEFINE z == InitialSize
<1>1. /\ handled[e] = <<>> /\ session[e].subs = <<>> /\ session[e].size = z
      /\ inbox[e] = <<>> /\ out[Peer(e)] = z /\ sent[e] = <<>>
  BY Ends2 DEF Init
<1>2. z \in Nat
  BY SessionConstants
<1> HIDE DEF z
<1>3. SizeAfter(z, <<>>) = z
  <2>1. Plain("call", 0) \in Leaf
    BY PlainFields DEF Kinds, Rpc
  <2> QED BY <1>2, <2>1, SizeAfterOne
<1>4. <<>> \o (<<>> \o <<>>) = <<>>
  OBVIOUS
<1>5. Accounted(<<>>, <<>>, <<>>, <<>>)
  BY <1>4, UnpackLaws, OpenSubLaws, OpenEntryLaws DEF Accounted
<1>6. Sized(z, <<>>, <<>>, z)
  <2>1. Len(<<>>) = 0
    OBVIOUS
  <2> QED BY <1>3, <2>1, OpenSubLaws DEF Sized, AtEntry
<1>7. LastOnly(<<>>) /\ \A i \in DOMAIN <<>> : LastOnly(<<>>[i].msg.subs)
  BY DEF LastOnly
<1>8. Channel(<<>>, <<>>, z, <<>>, z, <<>>)
  BY <1>5, <1>6, <1>7 DEF Channel
<1> QED BY <1>1, <1>8 DEF Flow

\* The direction in which end e writes.
LEMMA FlowOfPeer ==
    ASSUME TypeOK, Flows, NEW e \in End, NEW ms, NEW new, Adds(e, ms, new), Tidy(new),
           handled'[Peer(e)] = handled[Peer(e)],
           session'[Peer(e)].subs = session[Peer(e)].subs,
           session'[Peer(e)].size = session[Peer(e)].size
    PROVE  Flow(Peer(e))'
<1>1. PICK x : x = Peer(e)
  OBVIOUS
<1>2. x \in End /\ Peer(x) = e
  BY <1>1, Ends2
<1>3. PICK h, u, z, q, o, s : /\ h = handled[x] /\ u = session[x].subs /\ z = session[x].size
                              /\ q = inbox[x] /\ o = out[e] /\ s = sent[x]
  OBVIOUS
<1>4. /\ h \in Seq(Leaf) /\ u \in Seq(Sub) /\ z \in Nat /\ q \in Seq(Entry)
      /\ o \in Nat /\ s \in Seq(Message)
  BY <1>2, <1>3, StateParts
<1>5. Channel(h, u, z, q, o, s)
  BY <1>2, <1>3 DEF Flows, Flow
<1>6. /\ ms \in Seq(Message) /\ new \in Seq(Entry) /\ Written(o, ms, new)
      /\ inbox'[x] = q \o new /\ sent'[x] = s \o ms /\ out'[e] = SizeAfter(o, Leaves(ms))
  BY <1>1, <1>3 DEF Adds
<1>7. PICK o2 : o2 = SizeAfter(o, Leaves(ms))
  OBVIOUS
<1>8. \A i \in DOMAIN new : LastOnly(new[i].msg.subs)
  BY DEF Tidy
<1>9. Channel(h, u, z, q \o new, o2, s \o ms)
  BY <1>4, <1>5, <1>6, <1>7, <1>8, ChannelPush
<1>10. handled'[x] = h /\ session'[x].subs = u /\ session'[x].size = z
  BY <1>1, <1>3
<1>11. Channel(handled'[x], session'[x].subs, session'[x].size, inbox'[x], out'[Peer(x)], sent'[x])
  BY <1>2, <1>6, <1>7, <1>9, <1>10
<1> QED BY <1>1, <1>2, <1>11 DEF Flow

\* A direction in which nothing happens.
LEMMA FlowStays ==
    ASSUME NEW x, Flow(x), handled'[x] = handled[x], session'[x].subs = session[x].subs,
           session'[x].size = session[x].size, inbox'[x] = inbox[x],
           out'[Peer(x)] = out[Peer(x)], sent'[x] = sent[x]
    PROVE  Flow(x)'
BY DEF Flow

LEMMA FlowsWrite ==
    ASSUME TypeOK, Flows, NEW e \in End, NEW ms, NEW new, Adds(e, ms, new), Tidy(new),
           \A x \in End \ {Peer(e)} : inbox'[x] = inbox[x], handled' = handled,
           \A x \in End : /\ session'[x].subs = session[x].subs
                          /\ session'[x].size = session[x].size
    PROVE  Flows'
<1> SUFFICES ASSUME NEW x \in End PROVE Flow(x)'
  BY DEF Flows
<1>1. CASE x = Peer(e)
  BY <1>1, FlowOfPeer
<1>2. CASE x # Peer(e)
  <2>1. Peer(x) # e /\ Peer(x) \in End
    BY <1>2, Ends2
  <2>2. /\ inbox'[x] = inbox[x] /\ sent'[x] = sent[x]
        /\ out'[Peer(x)] = out[Peer(x)]
    BY <1>2, <2>1 DEF Adds
  <2>3. Flow(x)
    BY DEF Flows
  <2> QED BY <2>2, <2>3, FlowStays
<1> QED BY <1>1, <1>2

\* The direction in which end e reads: what it takes off the wire was written with the
\* chunk size it has.
LEMMA FlowOfReader ==
    ASSUME TypeOK, Flows, NEW e \in End, NEW m \in Message, NEW rest \in SessionState,
           NEW left \in Seq(Entry), Took(e, m, rest, left),
           Served(e, m, rest, left) \/ Read(e, m, rest, left),
           sent'[e] = sent[e], out'[Peer(e)] = out[Peer(e)]
    PROVE  /\ Flow(e)'
           /\ Read(e, m, rest, left) => session[e].size = Head(inbox[e]).size
<1>1. PICK h, u, z, q, o, s : /\ h = handled[e] /\ u = session[e].subs /\ z = session[e].size
                              /\ q = inbox[e] /\ o = out[Peer(e)] /\ s = sent[e]
  OBVIOUS
<1>2. /\ h \in Seq(Leaf) /\ u \in Seq(Sub) /\ z \in Nat /\ q \in Seq(Entry)
      /\ o \in Nat /\ s \in Seq(Message)
  BY <1>1, StateParts, Ends2
<1>3. Channel(h, u, z, q, o, s)
  BY <1>1 DEF Flows, Flow
<1>4. PICK h2, u2, z2 : /\ h2 = handled'[e] /\ u2 = session'[e].subs /\ z2 = session'[e].size
  OBVIOUS
<1>5. /\ inbox'[e] = left
      /\ u2 = IF m.kind = "Aggregate" THEN rest.subs \o ParseAggregate(m) ELSE rest.subs
      /\ z2 = IF m.kind = "SetChunkSize" THEN m.val ELSE rest.size
      /\ h2 = IF m.kind = "Aggregate" THEN h ELSE Append(h, m)
  BY <1>1, <1>4 DEF Took
<1>6. m.kind # "Aggregate" => Append(h, m) = h \o <<m>>
  BY <1>2, KindsOfMessages
<1>7. CASE Served(e, m, rest, left)
  <2>1. u # <<>> /\ m = Head(u) /\ rest.subs = Tail(u) /\ rest.size = z /\ left = q
    BY <1>1, <1>7 DEF Served
  <2>2. /\ m.kind # "Aggregate" =>
              Channel(h \o <<m>>, Tail(u), IF m.kind = "SetChunkSize" THEN m.val ELSE z, q, o, s)
        /\ m.kind = "Aggregate" => Channel(h, Tail(u) \o ParseAggregate(m), z, q, o, s)
    BY <1>2, <1>3, <2>1, ChannelPopSub
  <2>3. Channel(h2, u2, z2, left, o, s)
    BY <1>5, <1>6, <2>1, <2>2
  <2>4. ~Read(e, m, rest, left)
    BY <1>7 DEF Read, Served
  <2> QED BY <1>1, <1>4, <1>5, <2>3, <2>4 DEF Flow
<1>8. CASE Read(e, m, rest, left)
  <2>1. u = <<>> /\ q # <<>> /\ m = Head(q).msg /\ left = Tail(q)
        /\ rest.subs = u /\ rest.size = z
    BY <1>1, <1>8 DEF Read
  <2>2. Channel(h, <<>>, z, q, o, s)
    BY <1>3, <2>1
  <2>3. /\ z = Head(q).size
        /\ m.kind # "Aggregate" =>
              Channel(h \o <<m>>, <<>>, IF m.kind = "SetChunkSize" THEN m.val ELSE z,
                      Tail(q), o, s)
        /\ m.kind = "Aggregate" => Channel(h, ParseAggregate(m), z, Tail(q), o, s)
    BY <1>2, <2>1, <2>2, ChannelPopWire
  <2>4. m.kind = "Aggregate" => <<>> \o ParseAggregate(m) = ParseAggregate(m)
    <3>1. PICK p : p = ParseAggregate(m)
      OBVIOUS
    <3>2. m.kind = "Aggregate" => p \in Seq(Sub)
      BY <3>1, KindsOfMessages, ParsedTyped
    <3> QED BY <3>1, <3>2, ConcatEmptySeq
  <2>5. Channel(h2, u2, z2, left, o, s)
    BY <1>5, <1>6, <2>1, <2>3, <2>4
  <2> QED BY <1>1, <1>4, <1>5, <2>3, <2>5 DEF Flow
<1> QED BY <1>7, <1>8

LEMMA FlowsPoll ==
    ASSUME TypeOK, Flows, NEW e \in End, Poll(e)
    PROVE  /\ Flows'
           /\ \A x \in End : Len(inbox'[x]) < Len(inbox[x])
                              => session[x].size = Head(inbox[x]).size
<1>1. PICK m \in Message, rest \in SessionState, left \in Seq(Entry) :
         MayPoll(e) /\ Handle(e, m, rest, left)
         /\ (Served(e, m, rest, left) \/ Read(e, m, rest, left))
  BY PollParts
<1>2. Took(e, m, rest, left)
  BY <1>1, HandleTakes
<1>3. PICK reply \in Seq(Leaf), new \in Seq(Entry) : Adds(e, reply, new) /\ Tidy(new)
  BY <1>1, HandleAdds
<1>4. Peer(e) \in End /\ Peer(e) # e
  BY Ends2
<1>5. sent'[e] = sent[e] /\ out'[Peer(e)] = out[Peer(e)]
  BY <1>3, <1>4 DEF Adds
<1>6. Flow(e)' /\ (Read(e, m, rest, left) => session[e].size = Head(inbox[e]).size)
  BY <1>1, <1>2, <1>5, FlowOfReader
<1>7. Flow(Peer(e))'
  <2>1. handled'[Peer(e)] = handled[Peer(e)] /\ session'[Peer(e)] = session[Peer(e)]
    BY <1>2, <1>4 DEF Took
  <2> QED BY <1>3, <2>1, FlowOfPeer
<1>8. ASSUME NEW x \in End \ {e, Peer(e)} PROVE Flow(x)' /\ inbox'[x] = inbox[x]
  <2>1. Peer(x) # e /\ Peer(x) \in End
    BY Ends2
  <2>2. /\ handled'[x] = handled[x] /\ session'[x] = session[x] /\ inbox'[x] = inbox[x]
    BY <1>2 DEF Took
  <2>3. sent'[x] = sent[x] /\ out'[Peer(x)] = out[Peer(x)]
    BY <1>3, <2>1 DEF Adds
  <2>4. Flow(x)
    BY DEF Flows
  <2> QED BY <2>2, <2>3, <2>4, FlowStays
<1>9. Flows'
  BY <1>6, <1>7, <1>8 DEF Flows
<1>10. ASSUME NEW x \in End, Len(inbox'[x]) < Len(inbox[x])
       PROVE  session[x].size = Head(inbox[x]).size
  <2>1. inbox[x] \in Seq(Entry) /\ Len(inbox[x]) \in Nat
    BY StateParts, LenProperties
  <2>2. x # Peer(e)
    <3>1. new \in Seq(Entry) /\ inbox'[Peer(e)] = inbox[Peer(e)] \o new
      BY <1>3 DEF Adds
    <3>2. \A a, b \in Seq(Entry) : ~(Len(a \o b) < Len(a))
      <4>1. \A a, b \in Seq(Entry) :
               Len(a) \in Nat /\ Len(b) \in Nat /\ Len(a \o b) = Len(a) + Len(b)
        BY ConcatParts
      <4>2. \A i, j \in Nat : ~(i + j < i)
        OBVIOUS
      <4> QED BY <4>1, <4>2
    <3> QED BY <1>10, <2>1, <3>1, <3>2
  <2>3. x = e
    BY <1>8, <1>10, <2>1, <2>2
  <2>4. ~Served(e, m, rest, left)
    <3>1. inbox'[e] = left
      BY <1>2 DEF Took
    <3> QED BY <1>10, <2>1, <2>3, <3>1 DEF Served
  <2> QED BY <1>1, <1>6, <2>3, <2>4
<1> QED BY <1>9, <1>10

\* What the applications write is tidy when their traffic is.
LEMMA MenuTidy ==
    ASSUME NestedLast, TypeOK, NEW e \in End, NEW m \in menu[e]
    PROVE  LastOnly(m.subs)
<1>1. PICK t \in Traffic : menu = t.menu
  BY DEF TypeOK
<1> QED BY <1>1 DEF NestedLast, LastOnly

\* Any step but a poll is a write of one end, or nothing.
LEMMA StepsWrite ==
    ASSUME NestedLast, TypeOK, Next, ~\E e \in End : Poll(e)
    PROVE  \E e \in End : \E ms, new :
              /\ Adds(e, ms, new) /\ Tidy(new)
              /\ \A x \in End \ {Peer(e)} : inbox'[x] = inbox[x]
              /\ handled' = handled
              /\ \A x \in End : /\ session'[x].subs = session[x].subs
                                /\ session'[x].size = session[x].size
<1> USE DEF app, log
<1>1. ASSUME NEW e \in End, Send(e) \/ SendShifted(e)
      PROVE  \E ms, new : /\ Adds(e, ms, new) /\ Tidy(new)
                          /\ \A x \in End \ {Peer(e)} : inbox'[x] = inbox[x]
                          /\ handled' = handled /\ session' = session
  <2>1. PICK m \in menu[e], new \in Seq(Entry) : /\ Adds(e, <<m>>, new)
                                                 /\ \A x \in End \ {Peer(e)} : inbox'[x] = inbox[x]
                                                 /\ LastOnly(m.subs) => Tidy(new)
    BY <1>1, SendAdds
  <2>2. LastOnly(m.subs)
    BY MenuTidy
  <2>3. handled' = handled /\ session' = session
    BY <1>1 DEF Send, SendShifted
  <2> QED BY <2>1, <2>2, <2>3
<1>2. ASSUME NEW e \in End, NEW ms \in Seq(Leaf), Write(e, ms)
      PROVE  \E new : /\ Adds(e, ms, new) /\ Tidy(new)
                      /\ \A x \in End \ {Peer(e)} : inbox'[x] = inbox[x]
  BY <1>2, WriteLeaves
<1>3. ASSUME NEW e \in End, Call(e)
      PROVE  \E ms, new : /\ Adds(e, ms, new) /\ Tidy(new)
                          /\ \A x \in End \ {Peer(e)} : inbox'[x] = inbox[x]
                          /\ handled' = handled
                          /\ \A x \in End : /\ session'[x].subs = session[x].subs
                                            /\ session'[x].size = session[x].size
  <2>1. PICK p \in Leaf : \E w \in Wrapped(p) : Write(e, <<w>>)
    BY <1>3, CallWrites
  <2>2. PICK w \in Wrapped(p) : Write(e, <<w>>)
    BY <2>1
  <2>5. \E new : /\ Adds(e, <<w>>, new) /\ Tidy(new)
                 /\ \A x \in End \ {Peer(e)} : inbox'[x] = inbox[x]
    BY <2>2, WriteWrapped
  <2>3. session' = [session EXCEPT ![e].tx = @ + 1] /\ handled' = handled
    BY <1>3 DEF Call
  <2>4. ASSUME NEW x \in End
        PROVE  session'[x].subs = session[x].subs /\ session'[x].size = session[x].size
    <3>1. session[x] \in SessionState /\ session = [y \in End |-> session[y]]
      BY StateParts DEF TypeOK
    <3> QED BY <2>3, <3>1 DEF SessionState
  <2> QED BY <2>3, <2>4, <2>5
<1>4. ASSUME NEW e \in End, NEW i \in DOMAIN handled[e], Answer(e, i)
      PROVE  \E ms, new : /\ Adds(e, ms, new) /\ Tidy(new)
                          /\ \A x \in End \ {Peer(e)} : inbox'[x] = inbox[x]
                          /\ handled' = handled /\ session' = session
  <2>1. PICK p \in Leaf : \E w \in Wrapped(p) : Write(e, <<w>>)
    BY <1>4, AnswerWrites
  <2>2. PICK w \in Wrapped(p) : Write(e, <<w>>)
    BY <2>1
  <2>3. \E new : /\ Adds(e, <<w>>, new) /\ Tidy(new)
                 /\ \A x \in End \ {Peer(e)} : inbox'[x] = inbox[x]
    BY <2>2, WriteWrapped
  <2> QED BY <1>4, <2>3 DEF Answer
<1>5. ASSUME NEW c \in Conn, Join(c) \/ Forward(c)
      PROVE  /\ <<c, "server">> \in End
             /\ \E ms \in Seq(Leaf) : /\ Write(<<c, "server">>, ms)
                                      /\ handled' = handled /\ session' = session
  <2>1. <<c, "server">> \in End /\ handled' = handled /\ session' = session
    BY <1>5 DEF Join, Forward, End
  <2>2. CASE Join(c)
    <3>1. PICK ms : ms = [i \in DOMAIN frames |-> DataMessage(frames[i])]
      OBVIOUS
    <3>2. ms \in Seq(Leaf)
      BY <3>1, ReplayTyped DEF TypeOK
    <3>3. Write(<<c, "server">>, ms)
      BY <2>2, <3>1 DEF Join
    <3> QED BY <2>1, <3>2, <3>3
  <2>3. CASE Forward(c)
    <3>1. PICK ms : ms = relay.packet
      OBVIOUS
    <3>2. ms \in Seq(Leaf) /\ Write(<<c, "server">>, ms)
      BY <2>3, <3>1 DEF Forward, TypeOK
    <3> QED BY <2>1, <3>2
  <2> QED BY <1>5, <2>2, <2>3
<1>6. CASE \E e \in End : Send(e) \/ SendShifted(e)
  BY <1>1, <1>6
<1>7. CASE \E e \in End : Call(e)
  BY <1>3, <1>7
<1>8. CASE \E e \in End : \E i \in DOMAIN handled[e] : Answer(e, i)
  <2>0. PICK e \in End : \E i \in DOMAIN handled[e] : Answer(e, i)
    BY <1>8
  <2>1. PICK i \in DOMAIN handled[e] : Answer(e, i)
    BY <2>0
  <2> QED BY <1>4, <2>1
<1>9. CASE \E c \in Conn : Join(c) \/ Forward(c)
  <2>1. PICK c \in Conn : Join(c) \/ Forward(c)
    BY <1>9
  <2>2. <<c, "server">> \in End
    BY <1>5, <2>1
  <2>3. PICK ms \in Seq(Leaf) : /\ Write(<<c, "server">>, ms)
                                /\ handled' = handled /\ session' = session
    BY <1>5, <2>1
  <2> QED BY <1>2, <2>2, <2>3
<1> QED BY <1>6, <1>7, <1>8, <1>9 DEF Next

\* The step that all of this comes to.
Ordered ==
    \A e \in End : Len(inbox'[e]) < Len(inbox[e]) => session[e].size = Head(inbox[e]).size

LEMMA FlowsStep ==
    ASSUME NestedLast, TypeOK, Flows, [Next]_vars
    PROVE  Flows' /\ Ordered
<1>1. CASE UNCHANGED vars
  <2>1. /\ handled' = handled /\ session' = session /\ inbox' = inbox /\ out' = out
        /\ sent' = sent
    BY <1>1 DEF vars
  <2>2. Flows'
    BY <2>1, FlowStays DEF Flows
  <2>3. \A e \in End : Len(inbox[e]) \in Nat
    BY StateParts, LenProperties
  <2>4. Ordered
    <3>1. \A n \in Nat : ~(n < n)
      OBVIOUS
    <3> QED BY <2>1, <2>3, <3>1 DEF Ordered
  <2> QED BY <2>2, <2>4
<1>2. CASE \E e \in End : Poll(e)
  BY <1>2, FlowsPoll DEF Ordered
<1>3. CASE Next /\ ~\E e \in End : Poll(e)
  <2>1. PICK e \in End, ms \in Seq(Message), new \in Seq(Entry) :
           /\ Adds(e, ms, new) /\ Tidy(new)
           /\ \A x \in End \ {Peer(e)} : inbox'[x] = inbox[x]
           /\ handled' = handled
           /\ \A x \in End : /\ session'[x].subs = session[x].subs
                             /\ session'[x].size = session[x].size
    BY <1>3, StepsWrite DEF Adds
  <2>2. Flows'
    BY <2>1, FlowsWrite
  <2>3. ASSUME NEW x \in End PROVE ~(Len(inbox'[x]) < Len(inbox[x]))
    <3>1. inbox[x] \in Seq(Entry) /\ Len(inbox[x]) \in Nat
      BY StateParts, LenProperties
    <3>2. new \in Seq(Entry)
      BY <2>1 DEF Adds
    <3>3. inbox'[x] = inbox[x] \/ inbox'[x] = inbox[x] \o new
      BY <2>1 DEF Adds
    <3>4. \A a, b \in Seq(Entry) : Len(a) \in Nat /\ ~(Len(a \o b) < Len(a)) /\ ~(Len(a) < Len(a))
      <4>1. \A a, b \in Seq(Entry) :
               Len(a) \in Nat /\ Len(b) \in Nat /\ Len(a \o b) = Len(a) + Len(b)
        BY ConcatParts
      <4>2. \A i, j \in Nat : ~(i + j < i) /\ ~(i < i)
        OBVIOUS
      <4> QED BY <4>1, <4>2
    <3> QED BY <3>1, <3>2, <3>3, <3>4
  <2> QED BY <2>2, <2>3 DEF Ordered
<1> QED BY <1>1, <1>2, <1>3

LEMMA PrefixOfConcat == \A a, b \in Seq(Leaf) : IsPrefix(a, a \o b)
<1> SUFFICES ASSUME NEW a \in Seq(Leaf), NEW b \in Seq(Leaf) PROVE IsPrefix(a, a \o b)
  OBVIOUS
<1>1. PICK c, n : c = a \o b /\ n = Len(a)
  OBVIOUS
<1>2. /\ n \in Nat /\ Len(b) \in Nat /\ Len(c) = n + Len(b) /\ c \in Seq(Leaf)
      /\ \A i \in 1 .. n : c[i] = a[i]
  <2>1. /\ n \in Nat /\ Len(b) \in Nat /\ Len(c) = n + Len(b) /\ c \in Seq(Leaf)
        /\ \A i \in 1 .. n + Len(b) : c[i] = IF i <= n THEN a[i] ELSE b[i - n]
    BY <1>1, ConcatProperties, LenProperties
  <2>2. \A i \in 1 .. n : i \in 1 .. n + Len(b) /\ i <= n
    BY <2>1
  <2> QED BY <2>1, <2>2
<1>3. n <= Len(c)
  BY <1>2
<1>4. SubSeq(c, 1, n) = SubSeq(a, 1, n)
  <2>1. SubSeq(c, 1, n) = [i \in 1 .. n |-> c[i]] /\ SubSeq(a, 1, n) = [i \in 1 .. n |-> a[i]]
    BY <1>1, <1>2
  <2> QED BY <1>2, <2>1
<1> QED BY <1>1, <1>3, <1>4 DEF IsPrefix

\* What is still to be handled follows what has been.
LEMMA FlowsAhead ==
    ASSUME TypeOK, Flows, NEW e \in End
    PROVE  \E r \in Seq(Leaf) : Meant(e) = handled[e] \o r
<1>1. PICK h, u, q, s : /\ h = handled[e] /\ u = session[e].subs /\ q = inbox[e] /\ s = sent[e]
  OBVIOUS
<1>2. h \in Seq(Leaf) /\ u \in Seq(Sub) /\ q \in Seq(Entry) /\ s \in Seq(Message)
  BY <1>1, StateParts
<1>3. Bring(unpack, s) = h \o (Bring(openSub, u) \o Bring(openEntry, q))
  BY <1>1 DEF Flows, Flow, Channel, Accounted
<1>4. Bring(openSub, u) \o Bring(openEntry, q) \in Seq(Leaf)
  BY <1>2, OpenSubLaws, OpenEntryLaws, TwoConcat
<1>5. Meant(e) = Bring(unpack, s)
  BY <1>1, <1>2, LeavesLaws DEF Meant
<1> QED BY <1>1, <1>3, <1>4, <1>5

LEMMA FlowsInOrder == ASSUME TypeOK, Flows PROVE HandledInOrder
<1> SUFFICES ASSUME NEW e \in End PROVE IsPrefix(handled[e], Meant(e))
  BY DEF HandledInOrder
<1>1. PICK r \in Seq(Leaf) : Meant(e) = handled[e] \o r
  BY FlowsAhead
<1>2. handled[e] \in Seq(Leaf)
  BY StateParts
<1> QED BY <1>1, <1>2, PrefixOfConcat

\* The polls of every session handle what its peer wrote to it, in that order and at the
\* times it gave, through any queue of sub-messages (poll and parse_aggregate), for any
\* traffic in which a nested aggregate stands last.
THEOREM InOrder == ASSUME NestedLast PROVE Spec => []HandledInOrder
<1>1. Init => Flows
  BY FlowsInit
<1>2. TypeOK /\ Flows /\ [Next]_vars => Flows'
  BY FlowsStep
<1>3. TypeOK /\ Flows => HandledInOrder
  BY FlowsInOrder
<1> QED BY <1>1, <1>2, <1>3, TypeCorrect, PTL DEF Spec

\* A chunk size is in force between the same messages at both ends (set_read_chunk_size
\* in every handler, and the writer after a SetChunkSize of its own).
THEOREM SizeIsInForce == ASSUME NestedLast PROVE Spec => SizeInForce
<1>1. Init => Flows
  BY FlowsInit
<1>2. TypeOK /\ Flows /\ [Next]_vars => Flows'
  BY FlowsStep
<1>3. TypeOK /\ Flows /\ [Next]_vars =>
          [\A e \in End : Len(inbox'[e]) < Len(inbox[e])
                            => session[e].size = Head(inbox[e]).size]_vars
  BY FlowsStep DEF Ordered
<1> QED BY <1>1, <1>2, <1>3, TypeCorrect, PTL DEF Spec, SizeInForce

-----------------------------------------------------------------------------
(* What reaches the publish session is metadata when it is a bare object. *)

Metadata(m) == m.kind = "Data" /\ m.val # 0 => m.name \in {"", "onMetaData"}

Bare(m) ==
    /\ Metadata(m)
    /\ \A i \in DOMAIN m.subs :
          /\ Metadata(m.subs[i])
          /\ \A j \in DOMAIN m.subs[i].subs : Metadata(m.subs[i].subs[j])

BareOnly ==
    /\ \A i \in DOMAIN session[Ingest].subs : Bare(session[Ingest].subs[i])
    /\ \A i \in DOMAIN inbox[Ingest] : Bare(inbox[Ingest][i].msg)

LEMMA BareLeaf == \A p \in Leaf : p.kind # "Data" => Bare(p)
<1>1. ASSUME NEW p \in Leaf, p.kind # "Data" PROVE Bare(p)
  <2>1. p.subs = <<>>
    BY LeafFields
  <2>2. DOMAIN p.subs = {}
    BY <2>1
  <2> QED BY <1>1, <2>2 DEF Bare, Metadata
<1> QED BY <1>1

LEMMA BareWrapped ==
    ASSUME NEW p \in Leaf, p.kind # "Data", NEW w \in Wrapped(p)
    PROVE  Bare(w)
<1>1. w = p \/ (w.kind = "Aggregate" /\ w.subs = <<p>>)
  BY WrapLaws
<1>2. CASE w = p
  BY <1>2, BareLeaf
<1>3. CASE w.kind = "Aggregate" /\ w.subs = <<p>>
  <2>1. p.subs = <<>>
    BY LeafFields
  <2>2. DOMAIN p.subs = {} /\ \A i \in DOMAIN w.subs : w.subs[i] = p
    BY <1>3, <2>1
  <2> QED BY <1>3, <2>2 DEF Bare, Metadata
<1> QED BY <1>1, <1>2, <1>3

LEMMA MembersOf ==
    ASSUME NEW m
    PROVE  /\ m \in Members(m)
           /\ \A i \in DOMAIN m.subs : /\ m.subs[i] \in Members(m)
                                       /\ \A j \in DOMAIN m.subs[i].subs :
                                             m.subs[i].subs[j] \in Members(m)
<1>1. ASSUME NEW i \in DOMAIN m.subs
      PROVE  /\ m.subs[i] \in Members(m)
             /\ \A j \in DOMAIN m.subs[i].subs : m.subs[i].subs[j] \in Members(m)
  <2>1. m.subs[i] \in Range(m.subs)
    BY DEF Range
  <2>2. \A j \in DOMAIN m.subs[i].subs : m.subs[i].subs[j] \in Range(m.subs[i].subs)
    BY DEF Range
  <2>3. {m.subs[i]} \cup Range(m.subs[i].subs) \subseteq Members(m)
    BY <2>1 DEF Members
  <2> QED BY <2>2, <2>3
<1>2. m \in Members(m)
  BY DEF Members
<1> QED BY <1>1, <1>2

LEMMA BareMenu ==
    ASSUME BareIsMetadata, TypeOK, Peer(Ingest) \in End, NEW m \in menu[Peer(Ingest)]
    PROVE  Bare(m)
<1>1. PICK t \in Traffic : menu = t.menu
  BY DEF TypeOK
<1>2. Peer(Ingest) = <<Upstream, "client">>
  BY DEF Peer, Ingest
<1>3. \A s \in Members(m) : Metadata(s)
  BY <1>1, <1>2 DEF BareIsMetadata, Metadata
<1> QED BY <1>3, MembersOf DEF Bare

\* A change of times changes nothing of this.
LEMMA BareRetimed ==
    /\ \A x \in Sub : \A t : Metadata(x) => Metadata([x EXCEPT !.ts = t])
    /\ \A x \in Sub : \A t : [x EXCEPT !.ts = t].subs = x.subs
<1>1. ASSUME NEW x \in Sub, NEW t
      PROVE  /\ [x EXCEPT !.ts = t].subs = x.subs /\ [x EXCEPT !.ts = t].kind = x.kind
             /\ [x EXCEPT !.ts = t].name = x.name /\ [x EXCEPT !.ts = t].val = x.val
  BY DEF Sub, Leaf, AggregateOf
<1> QED BY <1>1 DEF Metadata

LEMMA BareShifted ==
    ASSUME NEW m \in AggregateOf(Sub), Bare(m), NEW shift
    PROVE  Bare(Shifted(m, shift))
<1>1. PICK w : w = Shifted(m, shift)
  OBVIOUS
<1>2. /\ m.subs \in Seq(Sub) /\ m.kind = "Aggregate"
  BY AggregateFields
<1>3. /\ w.kind = m.kind
      /\ w.subs = [i \in DOMAIN m.subs |-> [m.subs[i] EXCEPT !.ts = (@ - shift) % TsMod]]
  BY <1>1 DEF Shifted, AggregateOf
<1>4. \A i \in DOMAIN m.subs : \E t : w.subs[i] = [m.subs[i] EXCEPT !.ts = t]
  BY <1>3
<1>5. DOMAIN w.subs = DOMAIN m.subs
  BY <1>3
<1>6. \A i \in DOMAIN m.subs : m.subs[i] \in Sub
  BY <1>2
<1>7. ASSUME NEW i \in DOMAIN m.subs
      PROVE  /\ Metadata(m.subs[i]) => Metadata(w.subs[i])
             /\ w.subs[i].subs = m.subs[i].subs
  <2>1. PICK t, x, y : y = w.subs[i] /\ x = m.subs[i] /\ y = [x EXCEPT !.ts = t]
    BY <1>4
  <2>2. x \in Sub
    BY <1>6, <2>1
  <2>3. (Metadata(x) => Metadata(y)) /\ y.subs = x.subs
    BY <2>1, <2>2, BareRetimed
  <2> QED BY <2>1, <2>3
<1>8. Metadata(w)
  BY <1>2, <1>3 DEF Metadata
<1> QED BY <1>1, <1>5, <1>7, <1>8 DEF Bare

LEMMA BareParsed ==
    ASSUME NEW m \in Message, m.kind = "Aggregate", Bare(m)
    PROVE  \A i \in DOMAIN ParseAggregate(m) : Bare(ParseAggregate(m)[i])
<1>1. PICK p : p = ParseAggregate(m)
  OBVIOUS
<1>2. m.subs \in Seq(Sub)
  BY KindsOfMessages, AggregateFields
<1>3. /\ DOMAIN p = DOMAIN m.subs
      /\ \A i \in DOMAIN m.subs : \E t : p[i] = [m.subs[i] EXCEPT !.ts = t]
  BY <1>1 DEF ParseAggregate
<1>4. \A i \in DOMAIN m.subs : m.subs[i] \in Sub
  BY <1>2
<1>5. ASSUME NEW i \in DOMAIN m.subs PROVE Bare(p[i])
  <2>1. Metadata(p[i]) /\ p[i].subs = m.subs[i].subs
    <3>1. PICK t, x, y : y = p[i] /\ x = m.subs[i] /\ y = [x EXCEPT !.ts = t]
      BY <1>3
    <3>2. x \in Sub /\ Metadata(x)
      BY <1>4, <3>1 DEF Bare
    <3>3. Metadata(y) /\ y.subs = x.subs
      BY <3>1, <3>2, BareRetimed
    <3> QED BY <3>1, <3>3
  <2>2. m.subs[i].kind # "Aggregate" => m.subs[i].subs = <<>>
    BY <1>4, KindsOfMessages, LeafFields
  <2>3. m.subs[i].kind = "Aggregate" => m.subs[i].subs \in Seq(Leaf)
    BY <1>4, KindsOfMessages, AggregateFields
  <2>4. \A j \in DOMAIN m.subs[i].subs : /\ Metadata(m.subs[i].subs[j])
                                         /\ m.subs[i].subs[j].subs = <<>>
    <3>1. \A j \in DOMAIN m.subs[i].subs : Metadata(m.subs[i].subs[j])
      BY DEF Bare
    <3>2. \A j \in DOMAIN m.subs[i].subs : m.subs[i].subs[j].subs = <<>>
      <4>1. m.subs[i].kind = "Aggregate" =>
               \A j \in DOMAIN m.subs[i].subs : m.subs[i].subs[j] \in Leaf
        BY <2>3
      <4> QED BY <2>2, <4>1, LeafFields
    <3> QED BY <3>1, <3>2
  <2> QED BY <2>1, <2>4 DEF Bare
<1> QED BY <1>1, <1>3, <1>5

-----------------------------------------------------------------------------
(* What players are told. *)

\* Nothing, or one message that says nothing of data frames and holds no media.
Quiet(ms) ==
    \/ ms = <<>>
    \/ \E x \in Message : /\ ms = <<x>> /\ x.kind \notin Media \cup {"Data"}
                          /\ \A i \in DOMAIN unpack[x] : unpack[x][i].kind \notin Media

PlayServer(e) == e[1] # Upstream /\ e[2] = "server"

LEMMA QuietLeaf ==
    \A p \in Leaf : p.kind \notin Media \cup {"Data"} => Quiet(<<p>>)
<1>1. ASSUME NEW p \in Leaf, p.kind \notin Media \cup {"Data"} PROVE Quiet(<<p>>)
  <2>1. p \in Message /\ unpack[p] = <<p>>
    BY SubsAreMessages, LeafOpens
  <2> QED BY <1>1, <2>1 DEF Quiet
<1> QED BY <1>1

LEMMA QuietWrapped ==
    ASSUME NEW p \in Leaf, p.kind \notin Media \cup {"Data"}, NEW w \in Wrapped(p)
    PROVE  Quiet(<<w>>)
<1>1. w \in Message /\ unpack[w] = <<p>> /\ w.kind \notin Media \cup {"Data"}
  BY WrapLaws DEF Media
<1>2. \A i \in DOMAIN <<p>> : <<p>>[i].kind \notin Media
  OBVIOUS
<1> QED BY <1>1, <1>2 DEF Quiet

LEMMA QuietMenu ==
    ASSUME OnlyRelayed, TypeOK, NEW e \in End, PlayServer(e), NEW m \in menu[e]
    PROVE  Quiet(<<m>>)
<1>1. PICK t \in Traffic : menu = t.menu
  BY DEF TypeOK
<1>2. PICK c \in Conn \ {Upstream} : e = <<c, "server">>
  BY DEF PlayServer, End
<1>3. \A s \in Members(m) : s.kind \notin Media \cup {"Data"}
  <2>1. \A s \in Members(m) : s.kind \notin Media \cup {"Data", "SetDataFrame"}
    BY <1>1, <1>2 DEF OnlyRelayed
  <2> QED BY <2>1
<1>4. m \in Message /\ m.kind \notin Media \cup {"Data"}
  BY <1>3, MenuParts, MembersOf
<1>5. \A i \in DOMAIN unpack[m] : unpack[m][i].kind \notin Media
  <2> DEFINE Good == {p \in Leaf : p.kind \notin Media}
  <2>1. CASE m.kind # "Aggregate"
    <3>1. unpack[m] = <<m>>
      BY <1>4, <2>1, KindsOfMessages, LeafOpens
    <3> QED BY <1>4, <3>1
  <2>2. CASE m.kind = "Aggregate"
    <3>1. m.subs \in Seq(Sub)
      BY <1>4, <2>2, KindsOfMessages, AggregateFields
    <3> DEFINE part == [i \in 1 .. Len(m.subs) |-> meantOf[m.subs[i]]]
    <3>2. DOMAIN m.subs = 1 .. Len(m.subs) /\ Len(m.subs) \in Nat
          /\ \A i \in 1 .. Len(m.subs) : m.subs[i] \in Sub
      BY <3>1
    <3>3. unpack[m] = FlattenSeq(part)
      <4>1. part = [i \in DOMAIN m.subs |-> IF m.subs[i].kind = "Aggregate" THEN m.subs[i].subs
                                            ELSE <<m.subs[i]>>]
        BY <3>2 DEF meantOf
      <4> HIDE DEF part
      <4> QED BY <1>4, <2>2, <4>1 DEF unpack, Unpacked
    <3>4. ASSUME NEW i \in 1 .. Len(m.subs) PROVE meantOf[m.subs[i]] \in Seq(Good)
      <4>1. meantOf[m.subs[i]] \in Seq(Leaf)
        BY <3>2, MeantTyped
      <4>2. \A j \in DOMAIN meantOf[m.subs[i]] : meantOf[m.subs[i]][j] \in Members(m)
        <5>1. m.subs[i].kind = "Aggregate" => meantOf[m.subs[i]] = m.subs[i].subs
          BY <3>2 DEF meantOf
        <5>2. m.subs[i].kind # "Aggregate" => meantOf[m.subs[i]] = <<m.subs[i]>>
          BY <3>2 DEF meantOf
        <5>3. i \in DOMAIN m.subs
          BY <3>2
        <5> QED BY <5>1, <5>2, <5>3, MembersOf
      <4>3. PICK s : s = meantOf[m.subs[i]]
        OBVIOUS
      <4>4. s \in Seq(Leaf) /\ \A j \in 1 .. Len(s) : s[j] \in Good
        <5>1. s \in Seq(Leaf) /\ DOMAIN s = 1 .. Len(s)
          BY <4>1, <4>3, LenProperties
        <5> QED BY <1>3, <4>2, <4>3, <5>1
      <4>5. s = [j \in 1 .. Len(s) |-> s[j]] /\ Len(s) \in Nat
        BY <4>4
      <4> HIDE DEF Good
      <4>6. s \in [1 .. Len(s) -> Good]
        BY <4>4, <4>5
      <4> QED BY <4>3, <4>5, <4>6, SeqDef
    <3>5. part \in Seq(Seq(Good))
      <4>1. part \in [1 .. Len(m.subs) -> Seq(Good)]
        BY <3>4
      <4> HIDE DEF part, Good
      <4> QED BY <3>2, <4>1, SeqDef
    <3>6. FlattenSeq(part) \in Seq(Good)
      <4>1. <<>> \in Seq(Good)
        BY EmptySeq
      <4> HIDE DEF part, Good
      <4> QED BY <3>5, <4>1, FlattenAppend
    <3> HIDE DEF part
    <3>7. \A i \in DOMAIN unpack[m] : unpack[m][i] \in Good
      BY <3>3, <3>6
    <3> QED BY <3>7
  <2> QED BY <2>1, <2>2
<1>6. <<m>> = <<m>> /\ \E x \in Message : <<m>> = <<x>> /\ x.kind \notin Media \cup {"Data"}
           /\ \A i \in DOMAIN unpack[x] : unpack[x][i].kind \notin Media
  BY <1>4, <1>5
<1> QED BY <1>6 DEF Quiet

\* The steps of an end write what is quiet for a player; the relay alone tells more.
LEMMA QuietSteps ==
    ASSUME OnlyRelayed, TypeOK, NEW e \in End,
           \/ Send(e) \/ SendShifted(e) \/ Call(e) \/ Poll(e)
           \/ \E i \in DOMAIN handled[e] : Answer(e, i)
    PROVE  /\ joined' = joined
           /\ \E ms, new : Adds(e, ms, new) /\ (PlayServer(e) => Quiet(ms))
<1> USE DEF app, log
<1>1. CASE Send(e) \/ SendShifted(e)
  <2>1. PICK m \in menu[e], new \in Seq(Entry) : Adds(e, <<m>>, new)
    BY <1>1, SendAdds
  <2>2. joined' = joined
    BY <1>1 DEF Send, SendShifted
  <2>3. PlayServer(e) => Quiet(<<m>>)
    BY QuietMenu
  <2> QED BY <2>1, <2>2, <2>3
<1>2. CASE Call(e)
  <2>1. PICK p \in Leaf : p.kind = "call" /\ \E w \in Wrapped(p) : Write(e, <<w>>)
    BY <1>2, CallWrites
  <2>2. PICK w \in Wrapped(p) : Write(e, <<w>>)
    BY <2>1
  <2>3. PICK new : Adds(e, <<w>>, new)
    BY <2>2, WriteWrapped
  <2>4. Quiet(<<w>>)
    BY <2>1, QuietWrapped DEF Media
  <2>5. joined' = joined
    BY <1>2 DEF Call
  <2> QED BY <2>3, <2>4, <2>5
<1>3. ASSUME NEW i \in DOMAIN handled[e], Answer(e, i)
      PROVE  joined' = joined /\ \E ms, new : Adds(e, ms, new) /\ (PlayServer(e) => Quiet(ms))
  <2>1. PICK p \in Leaf : p.kind \in Replies /\ \E w \in Wrapped(p) : Write(e, <<w>>)
    BY <1>3, AnswerWrites
  <2>2. PICK w \in Wrapped(p) : Write(e, <<w>>)
    BY <2>1
  <2>3. PICK new : Adds(e, <<w>>, new)
    BY <2>2, WriteWrapped
  <2>4. Quiet(<<w>>)
    BY <2>1, QuietWrapped DEF Media, Replies
  <2>5. joined' = joined
    BY <1>3 DEF Answer
  <2> QED BY <2>3, <2>4, <2>5
<1>4. CASE Poll(e)
  <2>1. PICK m \in Message, rest \in SessionState, left \in Seq(Entry) : Handle(e, m, rest, left)
    BY <1>4, PollParts
  <2>2. PICK reply \in Seq(Leaf), new \in Seq(Entry) :
           /\ Adds(e, reply, new)
           /\ reply = <<>> \/ \E p \in Leaf : p.kind = "PingResponse" /\ reply = <<p>>
    BY <2>1, HandleAdds
  <2>3. Quiet(reply)
    <3>1. reply = <<>> => Quiet(reply)
      BY DEF Quiet
    <3>2. ASSUME NEW p \in Leaf, p.kind = "PingResponse", reply = <<p>> PROVE Quiet(reply)
      BY <3>2, QuietLeaf DEF Media
    <3> QED BY <2>2, <3>1, <3>2
  <2>4. joined' = joined
    BY <2>1 DEF Handle
  <2> QED BY <2>2, <2>3, <2>4
<1> QED BY <1>1, <1>2, <1>3, <1>4

\* Nothing but the relay writes media or data to a subscriber.
LEMMA QuietToPlayers ==
    ASSUME OnlyRelayed, TypeOK, NEW e \in End,
           \/ Send(e) \/ SendShifted(e) \/ Call(e) \/ Poll(e)
           \/ \E i \in DOMAIN handled[e] : Answer(e, i)
    PROVE  \A c \in Conn \ {Upstream} :
              \E w : Quiet(w) /\ sent'[<<c, "client">>] = sent[<<c, "client">>] \o w
<1>1. PICK ms, new : Adds(e, ms, new) /\ (PlayServer(e) => Quiet(ms))
  BY QuietSteps
<1>2. ASSUME NEW c \in Conn \ {Upstream}
      PROVE  \E w : Quiet(w) /\ sent'[<<c, "client">>] = sent[<<c, "client">>] \o w
  <2>1. <<c, "client">> \in End
    BY DEF End
  <2>2. CASE Peer(e) = <<c, "client">>
    <3>1. e = Peer(<<c, "client">>) /\ Peer(<<c, "client">>) = <<c, "server">>
      BY <2>1, <2>2, Ends2 DEF Peer
    <3>2. PlayServer(e)
      BY <2>1, <3>1 DEF PlayServer
    <3> QED BY <1>1, <2>2, <3>2 DEF Adds
  <2>3. CASE Peer(e) # <<c, "client">>
    <3>1. PICK s : s = sent[<<c, "client">>]
      OBVIOUS
    <3>2. sent'[<<c, "client">>] = s
      BY <1>1, <2>1, <2>3, <3>1 DEF Adds
    <3>3. s \o <<>> = s
      BY <2>1, <3>1, StateParts, ConcatEmptySeq
    <3>4. Quiet(<<>>)
      BY DEF Quiet
    <3> QED BY <3>1, <3>2, <3>3, <3>4
  <2> QED BY <2>2, <2>3
<1> QED BY <1>2

\* Bare messages stay bare on their way.
LEMMA AllBareConcat ==
    \A a, b \in Seq(Entry) :
        /\ \A i \in DOMAIN a : Bare(a[i].msg)
        /\ \A i \in DOMAIN b : Bare(b[i].msg)
        => \A i \in DOMAIN (a \o b) : Bare((a \o b)[i].msg)
<1> SUFFICES ASSUME NEW a \in Seq(Entry), NEW b \in Seq(Entry),
                    \A i \in DOMAIN a : Bare(a[i].msg), \A i \in DOMAIN b : Bare(b[i].msg),
                    NEW i \in DOMAIN (a \o b)
             PROVE  Bare((a \o b)[i].msg)
  OBVIOUS
<1>1. PICK n, k : n = Len(a) /\ k = Len(b)
  OBVIOUS
<1>2. /\ n \in Nat /\ k \in Nat /\ DOMAIN (a \o b) = 1 .. n + k
      /\ DOMAIN a = 1 .. n /\ DOMAIN b = 1 .. k
      /\ (a \o b)[i] = IF i <= n THEN a[i] ELSE b[i - n]
  BY <1>1, ConcatProperties, LenProperties
<1>3. i <= n => i \in 1 .. n
  BY <1>2
<1>4. ~(i <= n) => i - n \in 1 .. k
  BY <1>2
<1> QED BY <1>2, <1>3, <1>4

LEMMA SubsBareConcat ==
    \A a, b \in Seq(Sub) :
        /\ \A i \in DOMAIN a : Bare(a[i])
        /\ \A i \in DOMAIN b : Bare(b[i])
        => \A i \in DOMAIN (a \o b) : Bare((a \o b)[i])
<1> SUFFICES ASSUME NEW a \in Seq(Sub), NEW b \in Seq(Sub),
                    \A i \in DOMAIN a : Bare(a[i]), \A i \in DOMAIN b : Bare(b[i]),
                    NEW i \in DOMAIN (a \o b)
             PROVE  Bare((a \o b)[i])
  OBVIOUS
<1>1. PICK n, k : n = Len(a) /\ k = Len(b)
  OBVIOUS
<1>2. /\ n \in Nat /\ k \in Nat /\ DOMAIN (a \o b) = 1 .. n + k
      /\ DOMAIN a = 1 .. n /\ DOMAIN b = 1 .. k
      /\ (a \o b)[i] = IF i <= n THEN a[i] ELSE b[i - n]
  BY <1>1, ConcatProperties, LenProperties
<1>3. i <= n => i \in 1 .. n
  BY <1>2
<1>4. ~(i <= n) => i - n \in 1 .. k
  BY <1>2
<1> QED BY <1>2, <1>3, <1>4

LEMMA IngestEnd == Ingest \in End /\ Peer(Ingest) \in End /\ Peer(Ingest) = <<Upstream, "client">>
BY SessionConstants DEF Ingest, End, Peer

LEMMA BareWrites ==
    ASSUME TypeOK, BareOnly, NEW e \in End, NEW ms, NEW new, Adds(e, ms, new),
           \A x \in End \ {Peer(e)} : inbox'[x] = inbox[x],
           Peer(e) = Ingest => \A i \in DOMAIN new : Bare(new[i].msg),
           session'[Ingest].subs = session[Ingest].subs
    PROVE  BareOnly'
<1>1. Ingest \in End
  BY IngestEnd
<1>2. \A i \in DOMAIN inbox'[Ingest] : Bare(inbox'[Ingest][i].msg)
  <2>1. CASE Peer(e) = Ingest
    <3>1. new \in Seq(Entry) /\ inbox'[Ingest] = inbox[Ingest] \o new
      BY <2>1 DEF Adds
    <3>2. inbox[Ingest] \in Seq(Entry)
      BY <1>1, StateParts
    <3>3. PICK a : a = inbox[Ingest]
      OBVIOUS
    <3>4. \A i \in DOMAIN a : Bare(a[i].msg)
      BY <3>3 DEF BareOnly
    <3>5. \A i \in DOMAIN (a \o new) : Bare((a \o new)[i].msg)
      BY <2>1, <3>1, <3>2, <3>3, <3>4, AllBareConcat
    <3> QED BY <3>1, <3>3, <3>5
  <2>2. CASE Peer(e) # Ingest
    <3>1. inbox'[Ingest] = inbox[Ingest]
      BY <1>1, <2>2
    <3> QED BY <3>1 DEF BareOnly
  <2> QED BY <2>1, <2>2
<1>3. \A i \in DOMAIN session'[Ingest].subs : Bare(session'[Ingest].subs[i])
  BY DEF BareOnly
<1> QED BY <1>2, <1>3 DEF BareOnly

LEMMA HandledBare ==
    ASSUME TypeOK, BareOnly, NEW m, NEW rest, NEW left,
           Served(Ingest, m, rest, left) \/ Read(Ingest, m, rest, left)
    PROVE  /\ Bare(m)
           /\ \A i \in DOMAIN rest.subs : Bare(rest.subs[i])
           /\ \A i \in DOMAIN left : Bare(left[i].msg)
<1>1. PICK u, q : u = session[Ingest].subs /\ q = inbox[Ingest]
  OBVIOUS
<1>2. u \in Seq(Sub) /\ q \in Seq(Entry)
  BY <1>1, StateParts, IngestEnd
<1>3. (\A i \in DOMAIN u : Bare(u[i])) /\ \A i \in DOMAIN q : Bare(q[i].msg)
  BY <1>1 DEF BareOnly
<1>4. CASE Served(Ingest, m, rest, left)
  <2>1. u # <<>> /\ m = Head(u) /\ rest.subs = Tail(u) /\ left = q
    BY <1>1, <1>4 DEF Served
  <2>2. PICK t : t = Tail(u)
    OBVIOUS
  <2>3. /\ t \in Seq(Sub) /\ m = u[1] /\ Len(u) \in Nat \ {0} /\ Len(t) = Len(u) - 1
        /\ \A i \in 1 .. Len(t) : t[i] = u[i + 1]
    BY <1>2, <2>1, <2>2, HeadAndTail
  <2>4. /\ DOMAIN t = 1 .. Len(t) /\ DOMAIN u = 1 .. Len(u) /\ 1 \in 1 .. Len(u)
        /\ \A i \in 1 .. Len(t) : i + 1 \in 1 .. Len(u)
    BY <1>2, <2>3, LenProperties
  <2> QED BY <1>3, <2>1, <2>2, <2>3, <2>4
<1>5. CASE Read(Ingest, m, rest, left)
  <2>1. q # <<>> /\ m = Head(q).msg /\ rest.subs = u /\ left = Tail(q)
    BY <1>1, <1>5 DEF Read
  <2>2. PICK t : t = Tail(q)
    OBVIOUS
  <2>3. /\ t \in Seq(Entry) /\ m = q[1].msg /\ Len(q) \in Nat \ {0} /\ Len(t) = Len(q) - 1
        /\ \A i \in 1 .. Len(t) : t[i] = q[i + 1]
    BY <1>2, <2>1, <2>2, HeadAndTail
  <2>4. /\ DOMAIN t = 1 .. Len(t) /\ DOMAIN q = 1 .. Len(q) /\ 1 \in 1 .. Len(q)
        /\ \A i \in 1 .. Len(t) : i + 1 \in 1 .. Len(q)
    BY <1>2, <2>3, LenProperties
  <2> QED BY <1>3, <2>1, <2>2, <2>3, <2>4
<1> QED BY <1>4, <1>5

LEMMA BarePolls == ASSUME TypeOK, BareOnly, NEW e \in End, Poll(e) PROVE BareOnly'
<1>1. PICK m \in Message, rest \in SessionState, left \in Seq(Entry) :
         Handle(e, m, rest, left) /\ (Served(e, m, rest, left) \/ Read(e, m, rest, left))
  BY PollParts
<1>2. Took(e, m, rest, left)
  BY <1>1, HandleTakes
<1>3. CASE e = Ingest
  <2>1. /\ Bare(m) /\ \A i \in DOMAIN rest.subs : Bare(rest.subs[i])
        /\ \A i \in DOMAIN left : Bare(left[i].msg)
    BY <1>1, <1>3, HandledBare
  <2>2. PICK u, p : u = rest.subs /\ p = ParseAggregate(m)
    OBVIOUS
  <2>3. u \in Seq(Sub) /\ (m.kind = "Aggregate" => p \in Seq(Sub))
    BY <2>2, KindsOfMessages, ParsedTyped DEF SessionState
  <2>4. m.kind = "Aggregate" => \A i \in DOMAIN p : Bare(p[i])
    BY <2>1, <2>2, BareParsed
  <2>5. m.kind = "Aggregate" => \A i \in DOMAIN (u \o p) : Bare((u \o p)[i])
    BY <2>1, <2>2, <2>3, <2>4, SubsBareConcat
  <2>6. /\ inbox'[Ingest] = left
        /\ session'[Ingest].subs = IF m.kind = "Aggregate" THEN u \o p ELSE u
    BY <1>2, <1>3, <2>2 DEF Took
  <2> QED BY <2>1, <2>2, <2>5, <2>6 DEF BareOnly
<1>4. CASE e # Ingest
  <2>1. PICK reply \in Seq(Leaf), new \in Seq(Entry) :
           /\ Adds(e, reply, new)
           /\ reply = <<>> \/ \E p \in Leaf : p.kind = "PingResponse" /\ reply = <<p>>
           /\ Len(new) = Len(reply) /\ \A i \in DOMAIN new : new[i].msg = reply[i]
    BY <1>1, HandleAdds
  <2>2. session'[Ingest] = session[Ingest]
    BY <1>2, <1>4, IngestEnd DEF Took
  <2>3. \A i \in DOMAIN new : Bare(new[i].msg)
    <3>1. new \in Seq(Entry) /\ DOMAIN new = 1 .. Len(reply)
      BY <2>1, LenProperties DEF Adds
    <3>2. \A i \in 1 .. Len(reply) : Bare(reply[i])
      BY <2>1, BareLeaf
    <3> QED BY <2>1, <3>1, <3>2
  <2>4. \A i \in DOMAIN inbox'[Ingest] : Bare(inbox'[Ingest][i].msg)
    <3>1. CASE Peer(e) = Ingest
      <4>1. new \in Seq(Entry) /\ inbox'[Ingest] = inbox[Ingest] \o new
        BY <2>1, <3>1 DEF Adds
      <4>2. PICK a : a = inbox[Ingest]
        OBVIOUS
      <4>3. a \in Seq(Entry) /\ \A i \in DOMAIN a : Bare(a[i].msg)
        BY <4>2, StateParts, IngestEnd DEF BareOnly
      <4>4. \A i \in DOMAIN (a \o new) : Bare((a \o new)[i].msg)
        BY <2>3, <4>1, <4>3, AllBareConcat
      <4> QED BY <4>1, <4>2, <4>4
    <3>2. CASE Peer(e) # Ingest
      <4>1. inbox'[Ingest] = inbox[Ingest]
        BY <1>2, <1>4, <3>2, IngestEnd DEF Took
      <4> QED BY <4>1 DEF BareOnly
    <3> QED BY <3>1, <3>2
  <2> QED BY <2>2, <2>4 DEF BareOnly
<1> QED BY <1>3, <1>4

LEMMA BareStep ==
    ASSUME BareIsMetadata, TypeOK, BareOnly, [Next]_vars PROVE BareOnly'
<1> USE DEF app, log
<1>1. CASE UNCHANGED vars
  BY <1>1 DEF vars, BareOnly
<1>2. ASSUME NEW e \in End, Send(e) \/ SendShifted(e) PROVE BareOnly'
  <2>1. PICK m \in menu[e], new \in Seq(Entry) :
              /\ Adds(e, <<m>>, new)
              /\ \A x \in End \ {Peer(e)} : inbox'[x] = inbox[x]
              /\ \/ new[1].msg = m
                 \/ m.kind = "Aggregate" /\ \E shift \in 1 .. TsMod - 1 :
                       new[1].msg = Shifted(m, shift)
              /\ Len(new) = 1
    BY <1>2, SendAdds
  <2>2. session' = session
    BY <1>2 DEF Send, SendShifted
  <2>3. ASSUME Peer(e) = Ingest PROVE \A i \in DOMAIN new : Bare(new[i].msg)
    <3>1. e = Peer(Ingest)
      BY <2>3, Ends2
    <3>2. Bare(m) /\ m \in Message
      BY <3>1, BareMenu, MenuParts
    <3>3. m.kind = "Aggregate" => m \in AggregateOf(Sub)
      BY <3>2, KindsOfMessages
    <3>4. Bare(new[1].msg)
      BY <2>1, <3>2, <3>3, BareShifted
    <3>5. new \in Seq(Entry)
      BY <2>1 DEF Adds
    <3>6. \A i \in DOMAIN new : i = 1
      BY <2>1, <3>5, LenProperties
    <3> QED BY <3>4, <3>6
  <2> QED BY <2>1, <2>2, <2>3, BareWrites
<1>3. ASSUME NEW e \in End, NEW ms \in Seq(Leaf), Write(e, ms),
             Peer(e) = Ingest => \A i \in DOMAIN ms : ms[i].kind # "Data",
             session'[Ingest].subs = session[Ingest].subs
      PROVE  BareOnly'
  <2>1. PICK new : /\ Adds(e, ms, new)
                   /\ \A x \in End \ {Peer(e)} : inbox'[x] = inbox[x]
                   /\ Len(new) = Len(ms) /\ \A i \in DOMAIN new : new[i].msg = ms[i]
    BY <1>3, WriteLeaves
  <2>2. DOMAIN new = DOMAIN ms
    <3>1. new \in Seq(Entry)
      BY <2>1 DEF Adds
    <3> QED BY <2>1, <3>1, LenProperties
  <2>3. ASSUME Peer(e) = Ingest PROVE \A i \in DOMAIN new : Bare(new[i].msg)
    <3>1. \A i \in DOMAIN ms : ms[i] \in Leaf /\ ms[i].kind # "Data"
      BY <1>3, <2>3
    <3> QED BY <2>1, <2>2, <3>1, BareLeaf
  <2> QED BY <1>3, <2>1, <2>3, BareWrites
<1>7. ASSUME NEW e \in End, NEW p \in Leaf, p.kind # "Data", NEW w \in Wrapped(p),
             Write(e, <<w>>), session'[Ingest].subs = session[Ingest].subs
      PROVE  BareOnly'
  <2>1. PICK new : /\ Adds(e, <<w>>, new)
                   /\ \A x \in End \ {Peer(e)} : inbox'[x] = inbox[x]
                   /\ DOMAIN new = {1} /\ new[1].msg = w
    BY <1>7, WriteWrapped
  <2>2. Bare(w)
    BY <1>7, BareWrapped
  <2>3. \A i \in DOMAIN new : Bare(new[i].msg)
    BY <2>1, <2>2
  <2> QED BY <1>7, <2>1, <2>3, BareWrites
<1>4. ASSUME NEW e \in End, Call(e) PROVE BareOnly'
  <2>1. PICK p \in Leaf : p.kind = "call" /\ \E w \in Wrapped(p) : Write(e, <<w>>)
    BY <1>4, CallWrites
  <2>2. PICK w \in Wrapped(p) : Write(e, <<w>>)
    BY <2>1
  <2>3. session'[Ingest].subs = session[Ingest].subs
    <3>1. /\ session' = [session EXCEPT ![e].tx = @ + 1]
          /\ session[Ingest] \in SessionState /\ session = [y \in End |-> session[y]]
      BY <1>4, StateParts, IngestEnd DEF Call, TypeOK
    <3> QED BY <3>1, IngestEnd DEF SessionState
  <2> QED BY <1>7, <2>1, <2>2, <2>3
<1>5. ASSUME NEW e \in End, NEW i \in DOMAIN handled[e], Answer(e, i) PROVE BareOnly'
  <2>1. PICK p \in Leaf : p.kind \in Replies /\ \E w \in Wrapped(p) : Write(e, <<w>>)
    BY <1>5, AnswerWrites
  <2>2. PICK w \in Wrapped(p) : Write(e, <<w>>)
    BY <2>1
  <2>3. p.kind # "Data" /\ session' = session
    BY <1>5, <2>1 DEF Answer, Replies
  <2> QED BY <1>7, <2>2, <2>3
<1>6. ASSUME NEW c \in Conn, Join(c) \/ Forward(c) PROVE BareOnly'
  <2>1. /\ <<c, "server">> \in End /\ c # Upstream /\ session' = session
    <3>1. relay.todo \subseteq joined /\ Upstream \notin joined
      BY DEF TypeOK
    <3> QED BY <1>6, <3>1 DEF Join, Forward, End
  <2>2. Peer(<<c, "server">>) # Ingest
    BY <2>1 DEF Peer, Ingest
  <2>3. \E ms \in Seq(Leaf) : Write(<<c, "server">>, ms)
    <3>1. CASE Join(c)
      <4>1. PICK ms : ms = [i \in DOMAIN frames |-> DataMessage(frames[i])]
        OBVIOUS
      <4>2. ms \in Seq(Leaf)
        BY <4>1, ReplayTyped DEF TypeOK
      <4>3. Write(<<c, "server">>, ms)
        BY <3>1, <4>1 DEF Join
      <4> QED BY <4>2, <4>3
    <3>2. CASE Forward(c)
      <4>1. relay.packet \in Seq(Leaf)
        BY DEF TypeOK
      <4> QED BY <3>2, <4>1 DEF Forward
    <3> QED BY <1>6, <3>1, <3>2
  <2> QED BY <1>3, <2>1, <2>2, <2>3
<1> QED BY <1>1, <1>2, <1>4, <1>5, <1>6, BarePolls DEF Next

-----------------------------------------------------------------------------
(* Stored frames and what subscribers know of them. *)

\* What subscriber c has been told, or is about to be.
Pending(c) == IF c \in relay.todo THEN relay.packet ELSE <<>>
Heard(c) == sent[<<c, "client">>] \o Pending(c)

OnePacket == relay.packet = <<>> \/ \E p \in Leaf : relay.packet = <<p>>

Informed ==
    \A c \in joined : \A i \in DOMAIN frames : Told(Heard(c), frames[i].name, frames[i].val)

\* The last message decides when it is about n.
LEMMA ToldLast ==
    \A a \in Seq(Message), x \in Message : \A n, v :
        Told(a \o <<x>>, n, v) <=>
            IF x.kind = "Data" /\ x.name = n THEN x.val = v ELSE Told(a, n, v)
<1> SUFFICES ASSUME NEW a \in Seq(Message), NEW x \in Message, NEW n, NEW v
             PROVE  Told(a \o <<x>>, n, v) <=>
                        IF x.kind = "Data" /\ x.name = n THEN x.val = v ELSE Told(a, n, v)
  OBVIOUS
<1>1. PICK b, k : b = a \o <<x>> /\ k = Len(a)
  OBVIOUS
<1>2. /\ DOMAIN a = 1 .. k /\ k \in Nat /\ DOMAIN b = 1 .. k + 1 /\ b[k + 1] = x
      /\ \A i \in 1 .. k : b[i] = a[i]
  <2>1. b = Append(a, x)
    BY <1>1
  <2> QED BY <1>1, <2>1, AppendProperties, LenProperties
<1>3. k + 1 \in 1 .. k + 1 /\ \A i \in 1 .. k : i \in 1 .. k + 1 /\ k + 1 > i /\ ~(i > k + 1)
  BY <1>2
<1>4. \A i \in 1 .. k + 1 : i = k + 1 \/ i \in 1 .. k
  BY <1>2
<1>5. ~(k + 1 > k + 1) /\ \A i \in 1 .. k + 1 : ~(i > k + 1)
  BY <1>2
<1> DEFINE About(m) == m.kind = "Data" /\ m.name = n
<1>6. /\ Told(b, n, v) <=> \E i \in 1 .. k + 1 :
              About(b[i]) /\ b[i].val = v /\ \A j \in 1 .. k + 1 : j > i => ~About(b[j])
      /\ Told(a, n, v) <=> \E i \in 1 .. k :
              About(a[i]) /\ a[i].val = v /\ \A j \in 1 .. k : j > i => ~About(a[j])
  BY <1>2 DEF Told
<1> HIDE DEF About
<1>7. CASE About(x)
  <2>1. Told(b, n, v) => x.val = v
    BY <1>2, <1>3, <1>4, <1>6, <1>7
  <2>2. x.val = v => Told(b, n, v)
    BY <1>2, <1>3, <1>5, <1>6, <1>7
  <2> QED BY <1>1, <1>7, <2>1, <2>2 DEF About
<1>8. CASE ~About(x)
  <2>1. Told(b, n, v) => Told(a, n, v)
    BY <1>2, <1>3, <1>4, <1>6, <1>8
  <2>2. Told(a, n, v) => Told(b, n, v)
    BY <1>2, <1>3, <1>4, <1>6, <1>8
  <2> QED BY <1>1, <1>8, <2>1, <2>2 DEF About
<1> QED BY <1>7, <1>8

\* A late subscriber has every frame replayed to it.
LEMMA ReplayTold ==
    ASSUME NEW a \in Seq(Message), NEW fs \in Seq(Frame), OneEach(fs), NEW ms \in Seq(Leaf),
           ms = [i \in DOMAIN fs |-> DataMessage(fs[i])], NEW i \in DOMAIN fs
    PROVE  Told(a \o ms, fs[i].name, fs[i].val)
<1>1. /\ Len(ms) = Len(fs) /\ DOMAIN ms = DOMAIN fs
      /\ \A j \in DOMAIN fs : /\ ms[j].kind = "Data" /\ ms[j].name = fs[j].name
                              /\ ms[j].val = fs[j].val
  BY ReplayTyped
<1>2. PICK b, k, l : b = a \o ms /\ k = Len(a) /\ l = Len(ms)
  OBVIOUS
<1>3. ms \in Seq(Message)
  BY SubsAreMessages, SeqMonotonic
<1>4. /\ k \in Nat /\ l \in Nat /\ DOMAIN b = 1 .. k + l /\ DOMAIN fs = 1 .. l
      /\ \A j \in 1 .. k + l : b[j] = IF j <= k THEN a[j] ELSE ms[j - k]
  <2>1. DOMAIN fs = 1 .. l
    BY <1>1, <1>2, LenProperties
  <2>2. /\ k \in Nat /\ l \in Nat /\ DOMAIN b = 1 .. k + l
        /\ \A j \in 1 .. k + l : b[j] = IF j <= k THEN a[j] ELSE ms[j - k]
    BY <1>2, <1>3, ConcatProperties, LenProperties
  <2> QED BY <2>1, <2>2
<1>5. k + i \in 1 .. k + l /\ ~(k + i <= k) /\ (k + i) - k = i
  BY <1>4
<1>6. b[k + i] = ms[i]
  BY <1>4, <1>5
<1>7. ASSUME NEW j \in 1 .. k + l, j > k + i
      PROVE  ~(b[j].kind = "Data" /\ b[j].name = fs[i].name)
  <2>1. PICK g : g = j - k
    OBVIOUS
  <2>2. g \in 1 .. l /\ ~(j <= k) /\ g # i
    BY <1>4, <1>7, <2>1
  <2>3. b[j] = ms[g] /\ ms[g].name = fs[g].name
    BY <1>1, <1>4, <2>1, <2>2
  <2> QED BY <1>4, <2>2, <2>3 DEF OneEach
<1>8. b[k + i].kind = "Data" /\ b[k + i].name = fs[i].name /\ b[k + i].val = fs[i].val
  BY <1>1, <1>6
<1>9. Told(b, fs[i].name, fs[i].val)
  BY <1>4, <1>5, <1>7, <1>8 DEF Told
<1> QED BY <1>2, <1>9

\* Steps that are quiet for players, or silent.
LEMMA InformedQuiet ==
    ASSUME TypeOK, Informed, OnePacket, UNCHANGED <<frames, relay, joined>>,
           \A c \in joined : \E ms : /\ Quiet(ms)
                                     /\ sent'[<<c, "client">>] = sent[<<c, "client">>] \o ms
    PROVE  Informed'
<1> SUFFICES ASSUME NEW c \in joined, NEW i \in DOMAIN frames
             PROVE  Told(Heard(c)', frames[i].name, frames[i].val)
  BY DEF Informed
<1>1. PICK s, f, n, v : /\ s = sent[<<c, "client">>] /\ f = Pending(c)
                        /\ n = frames[i].name /\ v = frames[i].val
  OBVIOUS
<1>2. s \in Seq(Message)
  <2>1. <<c, "client">> \in End
    BY DEF TypeOK, End
  <2> QED BY <1>1, <2>1, StateParts
<1>3. Pending(c)' = f
  BY <1>1 DEF Pending
<1>4. Told(s \o f, n, v)
  BY <1>1 DEF Informed, Heard
<1>5. PICK ms : Quiet(ms) /\ sent'[<<c, "client">>] = s \o ms
  BY <1>1
<1>6. f = <<>> \/ \E p \in Leaf : f = <<p>>
  BY <1>1 DEF OnePacket, Pending
<1>7. CASE ms = <<>>
  <2>1. s \o ms = s
    BY <1>2, <1>7, ConcatEmptySeq
  <2>2. Heard(c)' = s \o f
    BY <1>3, <1>5, <2>1 DEF Heard
  <2> QED BY <1>1, <1>4, <2>2
<1>8. ASSUME NEW x \in Message, ms = <<x>>, x.kind # "Data"
      PROVE  Told(Heard(c)', n, v)
  <2>1. PICK t : t = s \o <<x>>
    OBVIOUS
  <2>2. t \in Seq(Message) /\ Heard(c)' = t \o f
    BY <1>2, <1>3, <1>5, <1>8, <2>1 DEF Heard
  <2>3. \A k, w : Told(t, k, w) <=> Told(s, k, w)
    BY <1>2, <1>8, <2>1, ToldLast
  <2>4. CASE f = <<>>
    <3>1. t \o f = t /\ s \o f = s
      BY <1>2, <2>2, <2>4, ConcatEmptySeq
    <3> QED BY <1>4, <2>2, <2>3, <3>1
  <2>5. ASSUME NEW p \in Leaf, f = <<p>> PROVE Told(t \o f, n, v)
    <3>1. p \in Message
      BY SubsAreMessages
    <3>2. Told(s \o <<p>>, n, v) <=> IF p.kind = "Data" /\ p.name = n THEN p.val = v
                                     ELSE Told(s, n, v)
      BY <1>2, <3>1, ToldLast
    <3>3. Told(t \o <<p>>, n, v) <=> IF p.kind = "Data" /\ p.name = n THEN p.val = v
                                     ELSE Told(t, n, v)
      BY <2>2, <3>1, ToldLast
    <3> QED BY <1>4, <2>3, <2>5, <3>2, <3>3
  <2> QED BY <1>6, <2>2, <2>4, <2>5
<1> QED BY <1>1, <1>5, <1>7, <1>8 DEF Quiet

\* The relay's own steps.
LEMMA InformedJoin ==
    ASSUME TypeOK, Informed, OnePacket, NEW d \in Conn, Join(d)
    PROVE  Informed' /\ OnePacket'
<1>1. PICK ms : ms = [i \in DOMAIN frames |-> DataMessage(frames[i])]
  OBVIOUS
<1>2. ms \in Seq(Leaf) /\ frames \in Seq(Frame) /\ OneEach(frames)
  BY <1>1, ReplayTyped DEF TypeOK, OneEach
<1>3. /\ <<d, "server">> \in End /\ Peer(<<d, "server">>) = <<d, "client">>
      /\ Write(<<d, "server">>, ms)
      /\ d \notin joined /\ joined' = joined \cup {d} /\ UNCHANGED <<frames, relay>>
  BY <1>1 DEF Join, End, Peer
<1>4. PICK new : Adds(<<d, "server">>, ms, new)
  BY <1>2, <1>3, WriteLeaves
<1>5. /\ sent'[<<d, "client">>] = sent[<<d, "client">>] \o ms
      /\ \A c \in joined : sent'[<<c, "client">>] = sent[<<c, "client">>]
  <2>1. \A c \in joined : <<c, "client">> \in End \ {<<d, "client">>}
    BY <1>3 DEF TypeOK, End
  <2> QED BY <1>3, <1>4, <2>1 DEF Adds
<1>6. ASSUME NEW c \in joined', NEW i \in DOMAIN frames
      PROVE  Told(Heard(c)', frames[i].name, frames[i].val)
  <2>1. Pending(c)' = Pending(c)
    BY <1>3 DEF Pending
  <2>2. CASE c \in joined
    <3>1. Heard(c)' = Heard(c)
      BY <1>5, <2>1, <2>2 DEF Heard
    <3> QED BY <2>2, <3>1 DEF Informed
  <2>3. CASE c = d
    <3>1. Pending(c) = <<>>
      BY <1>3, <2>3 DEF TypeOK, Pending
    <3>2. PICK s : s = sent[<<d, "client">>]
      OBVIOUS
    <3>3. s \in Seq(Message)
      <4>1. <<d, "client">> \in End
        BY DEF End
      <4> QED BY <3>2, <4>1, StateParts
    <3>4. PICK t : t = s \o ms
      OBVIOUS
    <3>5. t \in Seq(Message) /\ Told(t, frames[i].name, frames[i].val)
      <4>1. ms \in Seq(Message)
        BY <1>2, SubsAreMessages, SeqMonotonic
      <4> QED BY <1>1, <1>2, <3>3, <3>4, <4>1, ReplayTold
    <3>6. Heard(c)' = t
      <4>1. Heard(c)' = t \o <<>>
        BY <1>5, <2>1, <2>3, <3>1, <3>2, <3>4 DEF Heard
      <4> QED BY <3>5, <4>1, ConcatEmptySeq
    <3> QED BY <3>5, <3>6
  <2> QED BY <1>3, <2>2, <2>3
<1>7. OnePacket'
  BY <1>3 DEF OnePacket
<1> QED BY <1>3, <1>6, <1>7 DEF Informed

LEMMA InformedForward ==
    ASSUME TypeOK, Informed, OnePacket, NEW d \in Conn, Forward(d)
    PROVE  Informed' /\ OnePacket'
<1>1. PICK ms : ms = relay.packet
  OBVIOUS
<1>2. /\ <<d, "server">> \in End /\ Peer(<<d, "server">>) = <<d, "client">>
      /\ Write(<<d, "server">>, ms) /\ d \in relay.todo /\ ms \in Seq(Leaf)
      /\ relay' = [relay EXCEPT !.todo = @ \ {d}] /\ UNCHANGED <<frames, joined>>
      /\ relay \in [packet : Seq(Leaf), todo : SUBSET joined]
  BY <1>1 DEF Forward, End, Peer, app, TypeOK
<1>3. PICK new : Adds(<<d, "server">>, ms, new)
  BY <1>2, WriteLeaves
<1>4. relay'.packet = ms /\ relay'.todo = relay.todo \ {d}
  BY <1>1, <1>2
<1>5. ASSUME NEW c \in joined PROVE Heard(c)' = Heard(c)
  <2>1. <<c, "client">> \in End
    BY DEF TypeOK, End
  <2>2. CASE c = d
    <3>1. Pending(c) = ms /\ Pending(c)' = <<>>
      BY <1>1, <1>2, <1>4, <2>2 DEF Pending
    <3>2. PICK t : t = sent[<<c, "client">>] \o ms
      OBVIOUS
    <3>3. sent'[<<c, "client">>] = t
      BY <1>2, <1>3, <2>2, <3>2 DEF Adds
    <3>4. t \in Seq(Message)
      <4>1. ms \in Seq(Message) /\ sent[<<c, "client">>] \in Seq(Message)
        BY <1>2, <2>1, StateParts, SubsAreMessages, SeqMonotonic
      <4> QED BY <3>2, <4>1
    <3>5. t \o <<>> = t
      BY <3>4, ConcatEmptySeq
    <3> QED BY <3>1, <3>2, <3>3, <3>5 DEF Heard
  <2>3. CASE c # d
    <3>1. Pending(c)' = Pending(c)
      BY <1>1, <1>4, <2>3 DEF Pending
    <3>2. sent'[<<c, "client">>] = sent[<<c, "client">>]
      <4>1. <<c, "client">> \in End \ {Peer(<<d, "server">>)}
        BY <1>2, <2>1, <2>3
      <4>2. \A x \in End \ {Peer(<<d, "server">>)} : sent'[x] = sent[x]
        BY <1>3 DEF Adds
      <4> QED BY <4>1, <4>2
    <3> QED BY <3>1, <3>2 DEF Heard
  <2> QED BY <2>2, <2>3
<1>6. OnePacket'
  BY <1>1, <1>4 DEF OnePacket
<1> QED BY <1>2, <1>5, <1>6 DEF Informed

\* A poll of the publish session: its application takes up a packet only when it is done
\* with the one before.
LEMMA IngestPoll ==
    ASSUME TypeOK, Poll(Ingest)
    PROVE  \E m \in Message, rest \in SessionState, left \in Seq(Entry) :
              /\ Handle(Ingest, m, rest, left) /\ relay.todo = {} /\ joined' = joined
              /\ Served(Ingest, m, rest, left) \/ Read(Ingest, m, rest, left)
              /\ \A c \in joined : sent'[<<c, "client">>] = sent[<<c, "client">>]
              /\ frames' = FramesAfter(frames, m)
              /\ \/ /\ m.kind \in Media \cup {"SetDataFrame", "Data"}
                    /\ m.kind = "Data" => m.val # 0
                    /\ relay' = [packet |-> Forwarded(m), todo |-> joined]
                 \/ /\ m.kind \notin Media \cup {"SetDataFrame"}
                    /\ m.kind = "Data" => m.val = 0
                    /\ relay' = relay
<1>1. PICK m \in Message, rest \in SessionState, left \in Seq(Entry) :
         MayPoll(Ingest) /\ Handle(Ingest, m, rest, left)
         /\ (Served(Ingest, m, rest, left) \/ Read(Ingest, m, rest, left))
  BY IngestEnd, PollParts
<1>2. PICK reply \in Seq(Leaf), new \in Seq(Entry) : Adds(Ingest, reply, new)
  BY <1>1, IngestEnd, HandleAdds
<1>3. \A c \in joined : sent'[<<c, "client">>] = sent[<<c, "client">>]
  <2>1. \A c \in joined : <<c, "client">> \in End \ {Peer(Ingest)}
    BY IngestEnd DEF TypeOK, End
  <2> QED BY <1>2, <2>1 DEF Adds
<1>4. relay.todo = {} /\ joined' = joined /\ frames' = FramesAfter(frames, m)
  BY <1>1 DEF MayPoll, Handle, app
<1>5. Surfaces(Type(Ingest), m) <=> /\ m.kind \in Surfacing["RtmpSession"]
                                    /\ m.kind = "Data" => m.val # 0
  <2>1. Type(Ingest) = "RtmpSession"
    BY DEF Type, Ingest
  <2> QED BY <2>1 DEF Surfaces
<1>6. Media \cup {"SetDataFrame", "Data"} \subseteq Surfacing["RtmpSession"]
  BY DEF Surfacing, Media
<1>7. Forwarded(m) # <<>> <=> m.kind \in Media \cup {"SetDataFrame", "Data"}
  <2>1. \A p : <<p>> # <<>>
    OBVIOUS
  <2>2. \/ Forwarded(m) = <<>> /\ m.kind \notin Media \cup {"SetDataFrame", "Data"}
        \/ /\ \E p \in Leaf : Forwarded(m) = <<p>>
           /\ m.kind \in Media \cup {"SetDataFrame", "Data"}
    BY ForwardedTyped
  <2> QED BY <2>1, <2>2
<1>8. relay' = IF Surfaces(Type(Ingest), m) /\ Forwarded(m) # <<>>
               THEN [packet |-> Forwarded(m), todo |-> joined] ELSE relay
  BY <1>1 DEF Handle
<1>9. CASE m.kind \in Media \cup {"SetDataFrame", "Data"} /\ (m.kind = "Data" => m.val # 0)
  BY <1>1, <1>3, <1>4, <1>5, <1>6, <1>7, <1>8, <1>9
<1>10. CASE ~(m.kind \in Media \cup {"SetDataFrame", "Data"} /\ (m.kind = "Data" => m.val # 0))
  <2>1. m.kind \notin Media \cup {"SetDataFrame"} /\ (m.kind = "Data" => m.val = 0)
    BY <1>10 DEF Media
  <2>2. relay' = relay
    BY <1>5, <1>7, <1>8, <1>10
  <2> QED BY <1>1, <1>3, <1>4, <2>1, <2>2
<1> QED BY <1>9, <1>10

LEMMA InformedIngest ==
    ASSUME TypeOK, BareOnly, Informed, OnePacket, Poll(Ingest)
    PROVE  Informed' /\ OnePacket'
<1>1. PICK m \in Message, rest \in SessionState, left \in Seq(Entry) :
         /\ relay.todo = {} /\ joined' = joined
         /\ Served(Ingest, m, rest, left) \/ Read(Ingest, m, rest, left)
         /\ \A c \in joined : sent'[<<c, "client">>] = sent[<<c, "client">>]
         /\ frames' = FramesAfter(frames, m)
         /\ \/ /\ m.kind \in Media \cup {"SetDataFrame", "Data"}
               /\ m.kind = "Data" => m.val # 0
               /\ relay' = [packet |-> Forwarded(m), todo |-> joined]
            \/ /\ m.kind \notin Media \cup {"SetDataFrame"}
               /\ m.kind = "Data" => m.val = 0
               /\ relay' = relay
  BY IngestPoll
<1>2. m.kind = "Data" /\ m.val # 0 => m.name \in {"", "onMetaData"}
  <2>1. Bare(m)
    BY <1>1, HandledBare
  <2> QED BY <2>1 DEF Bare, Metadata
<1>3. frames \in Seq(Frame) /\ OneEach(frames)
  BY DEF TypeOK, OneEach
<1>4. /\ \A n, v : Stores(m, n, v) =>
            \A i \in DOMAIN frames' : frames'[i].name = n => frames'[i].val = v
      /\ \A i \in DOMAIN frames' : \/ Stores(m, frames'[i].name, frames'[i].val)
                                   \/ \E j \in DOMAIN frames : frames[j] = frames'[i]
  <2>1. PICK us : us = FramesAfter(frames, m)
    OBVIOUS
  <2>2. /\ \A n, v : Stores(m, n, v) => \A i \in DOMAIN us : us[i].name = n => us[i].val = v
        /\ \A i \in DOMAIN us : \/ Stores(m, us[i].name, us[i].val)
                                \/ \E j \in DOMAIN frames : frames[j] = us[i]
    BY <1>3, <2>1, FramesLaws
  <2> QED BY <1>1, <2>1, <2>2
<1>5. ASSUME NEW c \in joined
      PROVE  /\ sent[<<c, "client">>] \in Seq(Message)
             /\ \A i \in DOMAIN frames :
                   Told(sent[<<c, "client">>], frames[i].name, frames[i].val)
  <2>1. PICK s : s = sent[<<c, "client">>]
    OBVIOUS
  <2>2. s \in Seq(Message)
    <3>1. <<c, "client">> \in End
      BY DEF TypeOK, End
    <3> QED BY <2>1, <3>1, StateParts
  <2>3. Heard(c) = s
    <3>1. Heard(c) = s \o <<>>
      BY <1>1, <2>1 DEF Heard, Pending
    <3> QED BY <2>2, <3>1, ConcatEmptySeq
  <2> QED BY <2>1, <2>2, <2>3 DEF Informed
<1>6. CASE /\ m.kind \in Media \cup {"SetDataFrame", "Data"}
           /\ m.kind = "Data" => m.val # 0
           /\ relay' = [packet |-> Forwarded(m), todo |-> joined]
  <2>1. PICK p \in Leaf :
           /\ Forwarded(m) = <<p>>
           /\ \/ m.kind \in Media /\ p = m
              \/ /\ m.kind = "SetDataFrame" /\ p.kind = "Data"
                 /\ p.name = m.name /\ p.val = m.val
              \/ /\ m.kind = "Data" /\ p.kind = "Data"
                 /\ p.name = "onMetaData" /\ p.val = m.val
    BY <1>6, ForwardedTyped
  <2>2. relay'.packet = <<p>> /\ relay'.todo = joined
    BY <1>6, <2>1
  <2>3. /\ p.kind = "Data" => Stores(m, p.name, p.val)
        /\ \A n, v : Stores(m, n, v) => p.kind = "Data" /\ n = p.name /\ v = p.val
    BY <1>2, <1>6, <2>1 DEF Stores, Media
  <2>4. ASSUME NEW c \in joined, NEW i \in DOMAIN frames'
        PROVE  Told(Heard(c)', frames'[i].name, frames'[i].val)
    <3>1. PICK s, n, v : s = sent[<<c, "client">>] /\ n = frames'[i].name /\ v = frames'[i].val
      OBVIOUS
    <3>2. Heard(c)' = s \o <<p>>
      BY <1>1, <2>2, <3>1 DEF Heard, Pending
    <3>3. s \in Seq(Message) /\ p \in Message
      BY <1>5, <3>1, SubsAreMessages
    <3>4. Told(s \o <<p>>, n, v) <=> IF p.kind = "Data" /\ p.name = n THEN p.val = v
                                     ELSE Told(s, n, v)
      BY <3>3, ToldLast
    <3>5. CASE p.kind = "Data" /\ p.name = n
      <4>1. v = p.val
        BY <1>4, <2>3, <3>1, <3>5
      <4> QED BY <3>1, <3>2, <3>4, <3>5, <4>1
    <3>6. CASE ~(p.kind = "Data" /\ p.name = n)
      <4>1. ~Stores(m, n, v)
        BY <2>3, <3>6
      <4>2. PICK j \in DOMAIN frames : frames[j] = frames'[i]
        BY <1>4, <3>1, <4>1
      <4>3. Told(s, n, v)
        BY <1>5, <3>1, <4>2
      <4> QED BY <3>1, <3>2, <3>4, <3>6, <4>3
    <3> QED BY <3>5, <3>6
  <2>5. OnePacket'
    BY <2>2 DEF OnePacket
  <2> QED BY <1>1, <2>4, <2>5 DEF Informed
<1>7. CASE /\ m.kind \notin Media \cup {"SetDataFrame"}
           /\ m.kind = "Data" => m.val = 0
           /\ relay' = relay
  <2>1. \A n, v : ~Stores(m, n, v)
    BY <1>7 DEF Stores
  <2>2. ASSUME NEW c \in joined, NEW i \in DOMAIN frames'
        PROVE  Told(Heard(c)', frames'[i].name, frames'[i].val)
    <3>1. PICK s : s = sent[<<c, "client">>]
      OBVIOUS
    <3>2. Heard(c)' = s
      <4>1. Heard(c)' = s \o <<>>
        BY <1>1, <1>7, <3>1 DEF Heard, Pending
      <4> QED BY <1>5, <3>1, <4>1, ConcatEmptySeq
    <3>3. PICK j \in DOMAIN frames : frames[j] = frames'[i]
      BY <1>4, <2>1
    <3> QED BY <1>5, <3>1, <3>2, <3>3
  <2>3. OnePacket'
    BY <1>7 DEF OnePacket
  <2> QED BY <1>1, <2>2, <2>3 DEF Informed
<1> QED BY <1>1, <1>6, <1>7

\* Any other end leaves the relay alone.
LEMMA InformedEnds ==
    ASSUME OnlyRelayed, TypeOK, Informed, OnePacket, NEW e \in End,
           \/ Send(e) \/ SendShifted(e) \/ Call(e) \/ (Poll(e) /\ e # Ingest)
           \/ \E i \in DOMAIN handled[e] : Answer(e, i)
    PROVE  Informed' /\ OnePacket'
<1>1. joined' = joined
  BY QuietSteps
<1>2. ASSUME NEW c \in joined
      PROVE  \E w : Quiet(w) /\ sent'[<<c, "client">>] = sent[<<c, "client">>] \o w
  <2>1. c \in Conn \ {Upstream}
    BY DEF TypeOK
  <2> QED BY <2>1, QuietToPlayers
<1>3. UNCHANGED <<frames, relay>>
  <2>1. CASE Send(e) \/ SendShifted(e)
    BY <2>1 DEF Send, SendShifted
  <2>2. CASE Call(e)
    BY <2>2 DEF Call
  <2>3. CASE \E i \in DOMAIN handled[e] : Answer(e, i)
    BY <2>3 DEF Answer
  <2>4. CASE Poll(e) /\ e # Ingest
    <3>1. PICK m \in Message, rest \in SessionState, left \in Seq(Entry) :
             Handle(e, m, rest, left)
      BY <2>4, PollParts
    <3> QED BY <2>4, <3>1 DEF Handle
  <2> QED BY <2>1, <2>2, <2>3, <2>4
<1>4. Informed'
  BY <1>1, <1>2, <1>3, InformedQuiet
<1>5. OnePacket'
  BY <1>3 DEF OnePacket
<1> QED BY <1>4, <1>5

LEMMA InformedStep ==
    ASSUME OnlyRelayed, TypeOK, BareOnly, Informed, OnePacket, [Next]_vars
    PROVE  Informed' /\ OnePacket'
<1>1. CASE UNCHANGED vars
  BY <1>1 DEF vars, Informed, OnePacket, Heard, Pending
<1>2. ASSUME NEW e \in End,
             \/ Send(e) \/ SendShifted(e) \/ Call(e) \/ Poll(e)
             \/ \E i \in DOMAIN handled[e] : Answer(e, i)
      PROVE  Informed' /\ OnePacket'
  BY <1>2, InformedEnds, InformedIngest
<1>3. ASSUME NEW c \in Conn, Join(c) \/ Forward(c) PROVE Informed' /\ OnePacket'
  BY <1>3, InformedJoin, InformedForward
<1> QED BY <1>1, <1>2, <1>3 DEF Next

LEMMA InformedInit == Init => BareOnly /\ Informed /\ OnePacket
<1> SUFFICES ASSUME Init PROVE BareOnly /\ Informed /\ OnePacket
  OBVIOUS
<1>1. joined = {} /\ relay.packet = <<>>
  BY DEF Init
<1>2. session[Ingest].subs = <<>> /\ inbox[Ingest] = <<>> /\ DOMAIN <<>> = {}
  BY IngestEnd DEF Init
<1> QED BY <1>1, <1>2 DEF BareOnly, Informed, OnePacket

LEMMA InformedAgree == ASSUME TypeOK, Informed PROVE SubscribersAgree
<1> SUFFICES ASSUME NEW c \in joined \ relay.todo, NEW i \in DOMAIN frames
             PROVE  Told(sent[<<c, "client">>], frames[i].name, frames[i].val)
  BY DEF SubscribersAgree
<1>1. Told(Heard(c), frames[i].name, frames[i].val)
  BY DEF Informed
<1>2. PICK s : s = sent[<<c, "client">>]
  OBVIOUS
<1>3. s \in Seq(Message)
  <2>1. <<c, "client">> \in End
    BY DEF TypeOK, End
  <2> QED BY <1>2, <2>1, StateParts
<1>4. Heard(c) = s
  <2>1. Heard(c) = s \o <<>>
    BY <1>2 DEF Heard, Pending
  <2> QED BY <1>3, <2>1, ConcatEmptySeq
<1> QED BY <1>1, <1>2, <1>4

\* The data frames that the publish session stores and what its subscribers were told of
\* them agree, however joins, forwards and the publisher's messages interleave
\* (store_data_frame, data_frames and forward), for players that get their data from the
\* relay and publishers whose bare data messages are metadata.
THEOREM Agreement ==
    ASSUME OnlyRelayed, BareIsMetadata
    PROVE  Spec => []SubscribersAgree
<1>1. Init => BareOnly /\ Informed /\ OnePacket
  BY InformedInit
<1>2. TypeOK /\ (BareOnly /\ Informed /\ OnePacket) /\ [Next]_vars
         => (BareOnly /\ Informed /\ OnePacket)'
  BY BareStep, InformedStep
<1>3. TypeOK /\ (BareOnly /\ Informed /\ OnePacket) => SubscribersAgree
  BY InformedAgree
<1> QED BY <1>1, <1>2, <1>3, TypeCorrect, PTL DEF Spec

-----------------------------------------------------------------------------
(* The media of a relayed stream. *)

media == [m \in Leaf |-> IF m.kind \in Media THEN <<m>> ELSE <<>>]
surfacing == [m \in Leaf |-> IF Surfaces("RtmpPlayer", m) THEN <<m>> ELSE <<>>]

LEMMA MediaTyped ==
    /\ media \in [Leaf -> Seq(Leaf)] /\ surfacing \in [Leaf -> Seq(Leaf)]
    /\ \A ms \in Seq(Leaf) : MediaOf(ms) = Bring(media, ms)
<1>1. media \in [Leaf -> Seq(Leaf)] /\ surfacing \in [Leaf -> Seq(Leaf)]
  BY Singles, EmptySeq DEF media, surfacing
<1>2. ASSUME NEW ms \in Seq(Leaf) PROVE MediaOf(ms) = Bring(media, ms)
  <2>1. \A i \in DOMAIN ms : ms[i] \in Leaf
    OBVIOUS
  <2> QED BY <2>1 DEF MediaOf, Those, Bring, media
<1> QED BY <1>1, <1>2

LEMMA MediaLaws ==
    /\ \A a \in Seq(Leaf) : Bring(media, a) \in Seq(Leaf)
    /\ Bring(media, <<>>) = <<>>
    /\ \A x \in Leaf : Bring(media, <<x>>) = media[x]
    /\ \A a, b \in Seq(Leaf) : Bring(media, a \o b) = Bring(media, a) \o Bring(media, b)
    /\ \A a \in Seq(Leaf), x \in Leaf : Bring(media, Append(a, x)) = Bring(media, a) \o media[x]
<1>1. media \in [Leaf -> Seq(Leaf)]
  BY MediaTyped
<1>2. Laws(media, Leaf, Leaf)
  BY <1>1, BringLaws
<1> QED BY <1>2 DEF Laws

LEMMA SurfacingLaws ==
    /\ \A a \in Seq(Leaf) : Bring(surfacing, a) \in Seq(Leaf)
    /\ Bring(surfacing, <<>>) = <<>>
    /\ \A a \in Seq(Leaf), x \in Leaf :
          Bring(surfacing, Append(a, x)) = Bring(surfacing, a) \o surfacing[x]
<1>1. surfacing \in [Leaf -> Seq(Leaf)]
  BY MediaTyped
<1>2. Laws(surfacing, Leaf, Leaf)
  BY <1>1, BringLaws
<1> QED BY <1>2 DEF Laws

\* A player surfaces all media, and what it does not surface holds none.
LEMMA MediaSurfaces == \A s \in Seq(Leaf) : Bring(media, Bring(surfacing, s)) = Bring(media, s)
<1> DEFINE P == {s \in Seq(Leaf) : Bring(media, Bring(surfacing, s)) = Bring(media, s)}
<1>1. <<>> \in P
  BY MediaLaws, SurfacingLaws, EmptySeq
<1>2. ASSUME NEW s \in Seq(Leaf), NEW x \in Leaf, s \in P PROVE Append(s, x) \in P
  <2>1. PICK u, v, w : u = Bring(surfacing, s) /\ v = Bring(media, s) /\ w = surfacing[x]
    OBVIOUS
  <2>2. /\ u \in Seq(Leaf) /\ v \in Seq(Leaf) /\ w \in Seq(Leaf) /\ media[x] \in Seq(Leaf)
        /\ Bring(media, u) = v
    BY <1>2, <2>1, MediaLaws, SurfacingLaws, MediaTyped
  <2>3. Bring(media, w) = media[x]
    <3>1. x.kind \in Media => Surfaces("RtmpPlayer", x)
      BY DEF Media, Surfaces, Surfacing
    <3>2. CASE Surfaces("RtmpPlayer", x)
      <4>1. w = <<x>>
        BY <2>1, <3>2 DEF surfacing
      <4> QED BY <4>1, MediaLaws
    <3>3. CASE ~Surfaces("RtmpPlayer", x)
      <4>1. w = <<>> /\ media[x] = <<>>
        BY <2>1, <3>1, <3>3 DEF surfacing, media
      <4> QED BY <4>1, MediaLaws
    <3> QED BY <3>2, <3>3
  <2>4. Bring(surfacing, Append(s, x)) = u \o w
    BY <2>1, SurfacingLaws
  <2>5. Bring(media, u \o w) = v \o media[x]
    <3>1. Bring(media, u \o w) = Bring(media, u) \o Bring(media, w)
      BY <2>2, MediaLaws
    <3> QED BY <2>2, <2>3, <3>1
  <2>6. Bring(media, Append(s, x)) = v \o media[x]
    BY <2>1, MediaLaws
  <2>7. Append(s, x) \in Seq(Leaf)
    OBVIOUS
  <2> QED BY <2>4, <2>5, <2>6, <2>7
<1> HIDE DEF P
<1>3. Seq(Leaf) \subseteq P
  BY <1>1, <1>2, InductionOnAppend
<1> QED BY <1>3 DEF P

LEMMA SurfacedMedia ==
    ASSUME TypeOK, NEW c \in Conn \ {Upstream}
    PROVE  MediaOf(Surfaced(<<c, "client">>)) = Bring(media, handled[<<c, "client">>])
<1>1. PICK h : h = handled[<<c, "client">>]
  OBVIOUS
<1>2. h \in Seq(Leaf)
  <2>1. <<c, "client">> \in End
    BY DEF End
  <2> QED BY <1>1, <2>1, StateParts
<1>3. Type(<<c, "client">>) = "RtmpPlayer"
  BY DEF Type
<1>4. Surfaced(<<c, "client">>) = Bring(surfacing, h)
  <2>1. \A i \in DOMAIN h : h[i] \in Leaf
    BY <1>2
  <2> QED BY <1>1, <1>3, <2>1 DEF Surfaced, Those, Bring, surfacing
<1>5. Bring(surfacing, h) \in Seq(Leaf)
  BY <1>2, SurfacingLaws
<1>6. Bring(media, Bring(surfacing, h)) = Bring(media, h)
  BY <1>2, MediaSurfaces
<1> QED BY <1>1, <1>4, <1>5, <1>6, MediaTyped

\* Messages without media bring none.
LEMMA NoMedia ==
    \A s \in Seq(Leaf) : (\A i \in DOMAIN s : s[i].kind \notin Media) => Bring(media, s) = <<>>
<1> DEFINE P == {s \in Seq(Leaf) :
                   (\A i \in DOMAIN s : s[i].kind \notin Media) => Bring(media, s) = <<>>}
<1>1. <<>> \in P
  BY MediaLaws, EmptySeq
<1>2. ASSUME NEW s \in Seq(Leaf), NEW x \in Leaf, s \in P PROVE Append(s, x) \in P
  <2>1. PICK t : t = Append(s, x)
    OBVIOUS
  <2>2. /\ t \in Seq(Leaf) /\ DOMAIN t = 1 .. Len(s) + 1 /\ DOMAIN s = 1 .. Len(s)
        /\ Len(s) \in Nat /\ t[Len(s) + 1] = x /\ \A i \in 1 .. Len(s) : t[i] = s[i]
    BY <2>1, AppendProperties, LenProperties
  <2>3. ASSUME \A i \in DOMAIN t : t[i].kind \notin Media PROVE Bring(media, t) = <<>>
    <3>1. Len(s) + 1 \in DOMAIN t /\ \A i \in 1 .. Len(s) : i \in DOMAIN t
      BY <2>2
    <3>2. x.kind \notin Media /\ \A i \in DOMAIN s : s[i].kind \notin Media
      BY <2>2, <2>3, <3>1
    <3>3. Bring(media, s) = <<>> /\ media[x] = <<>>
      BY <1>2, <3>2 DEF media
    <3>4. Bring(media, t) = <<>> \o <<>>
      BY <2>1, <3>3, MediaLaws
    <3> QED BY <3>4, EmptyConcat, EmptySeq
  <2> QED BY <2>1, <2>2, <2>3
<1> HIDE DEF P
<1>3. Seq(Leaf) \subseteq P
  BY <1>1, <1>2, InductionOnAppend
<1> QED BY <1>3 DEF P

\* Written leaves mean themselves.
LEMMA UnpackLeaves == \A s \in Seq(Leaf) : Leaves(s) = s
<1> DEFINE P == {s \in Seq(Leaf) : Leaves(s) = s}
<1>1. <<>> \in P
  BY LeavesLaws, EmptySeq
<1>2. ASSUME NEW s \in Seq(Leaf), NEW x \in Leaf, s \in P PROVE Append(s, x) \in P
  <2>1. s \in Seq(Message) /\ x \in Message
    BY SubsAreMessages, SeqMonotonic
  <2>2. Leaves(Append(s, x)) = Leaves(s) \o unpack[x]
    BY <2>1, LeavesLaws
  <2>3. unpack[x] = <<x>>
    BY LeafOpens
  <2>4. Append(s, x) = s \o <<x>> /\ Append(s, x) \in Seq(Leaf)
    OBVIOUS
  <2> QED BY <1>2, <2>2, <2>3, <2>4
<1> HIDE DEF P
<1>3. Seq(Leaf) \subseteq P
  BY <1>1, <1>2, InductionOnAppend
<1> QED BY <1>3 DEF P

\* The media of what was written to an end.
MediaIn(ms) == Bring(media, Leaves(ms))

LEMMA MediaInLaws ==
    /\ \A a \in Seq(Message) : MediaIn(a) \in Seq(Leaf)
    /\ \A a \in Seq(Message) : \A ms : Quiet(ms) => MediaIn(a \o ms) = MediaIn(a)
    /\ \A a \in Seq(Message), b \in Seq(Leaf) :
          MediaIn(a \o b) = MediaIn(a) \o Bring(media, b)
<1>1. ASSUME NEW a \in Seq(Message) PROVE MediaIn(a) \in Seq(Leaf)
  BY LeavesLaws, MediaLaws DEF MediaIn
<1>2. ASSUME NEW a \in Seq(Message), NEW x \in Message,
             \A i \in DOMAIN unpack[x] : unpack[x][i].kind \notin Media
      PROVE  MediaIn(a \o <<x>>) = MediaIn(a)
  <2>1. PICK u, v : u = Leaves(a) /\ v = unpack[x]
    OBVIOUS
  <2>2. u \in Seq(Leaf) /\ v \in Seq(Leaf)
    BY <2>1, LeavesLaws, MeantTyped
  <2>3. Leaves(a \o <<x>>) = u \o v
    <3>1. a \o <<x>> = Append(a, x)
      OBVIOUS
    <3> QED BY <2>1, <3>1, LeavesLaws
  <2>4. Bring(media, v) = <<>>
    BY <1>2, <2>1, <2>2, NoMedia
  <2>5. Bring(media, u \o v) = Bring(media, u) \o <<>> /\ Bring(media, u) \in Seq(Leaf)
    BY <2>2, <2>4, MediaLaws
  <2>6. Bring(media, u) \o <<>> = Bring(media, u)
    BY <2>5, EmptyConcat
  <2> QED BY <2>1, <2>3, <2>5, <2>6 DEF MediaIn
<1>3. ASSUME NEW a \in Seq(Message), NEW ms, Quiet(ms) PROVE MediaIn(a \o ms) = MediaIn(a)
  <2>1. CASE ms = <<>>
    <3>1. a \o <<>> = a
      BY ConcatEmptySeq
    <3> QED BY <2>1, <3>1
  <2>2. CASE ms # <<>>
    BY <1>2, <1>3, <2>2 DEF Quiet
  <2> QED BY <2>1, <2>2
<1>4. ASSUME NEW a \in Seq(Message), NEW b \in Seq(Leaf)
      PROVE  MediaIn(a \o b) = MediaIn(a) \o Bring(media, b)
  <2>1. PICK u : u = Leaves(a)
    OBVIOUS
  <2>2. u \in Seq(Leaf) /\ b \in Seq(Message)
    BY <2>1, LeavesLaws, SubsAreMessages, SeqMonotonic
  <2>3. Leaves(a \o b) = u \o b
    <3>1. PICK d : d = a \o b
      OBVIOUS
    <3>2. d \in Seq(Message)
      BY <2>2, <3>1
    <3>3. Leaves(d) = Bring(unpack, d) /\ u = Bring(unpack, a) /\ Leaves(b) = Bring(unpack, b)
      BY <2>1, <2>2, <3>2, LeavesLaws
    <3>4. Bring(unpack, a \o b) = Bring(unpack, a) \o Bring(unpack, b)
      BY <2>2, UnpackLaws
    <3>5. Leaves(b) = b
      BY UnpackLeaves
    <3> QED BY <3>1, <3>3, <3>4, <3>5
  <2>4. Bring(media, u \o b) = Bring(media, u) \o Bring(media, b)
    BY <2>2, MediaLaws
  <2> QED BY <2>1, <2>3, <2>4 DEF MediaIn
<1> QED BY <1>1, <1>3, <1>4

\* What of x a subscriber with the messages s, and f to come, has: all of it from some
\* point on.
Follows(s, f, x) == \E a \in Seq(Leaf) : x = a \o (MediaIn(s) \o Bring(media, f))

LEMMA FollowsQuiet ==
    \A s \in Seq(Message) : \A f, x, ms : Quiet(ms) /\ Follows(s, f, x) => Follows(s \o ms, f, x)
BY MediaInLaws DEF Follows

LEMMA FollowsFrom ==
    \A s \in Seq(Message), x \in Seq(Leaf) : MediaIn(s) = <<>> => Follows(s, <<>>, x)
<1> SUFFICES ASSUME NEW s \in Seq(Message), NEW x \in Seq(Leaf), MediaIn(s) = <<>>
             PROVE  x = x \o (MediaIn(s) \o Bring(media, <<>>))
  BY DEF Follows
<1>1. Bring(media, <<>>) = <<>>
  BY MediaLaws
<1>2. <<>> \o <<>> = <<>> /\ x \o <<>> = x
  BY EmptyConcat, EmptySeq
<1> QED BY <1>1, <1>2

LEMMA FollowsForward ==
    \A s \in Seq(Message), f \in Seq(Leaf) : \A x : Follows(s, f, x) => Follows(s \o f, <<>>, x)
<1> SUFFICES ASSUME NEW s \in Seq(Message), NEW f \in Seq(Leaf), NEW x, Follows(s, f, x)
             PROVE  Follows(s \o f, <<>>, x)
  OBVIOUS
<1>1. PICK a \in Seq(Leaf) : x = a \o (MediaIn(s) \o Bring(media, f))
  BY DEF Follows
<1>2. PICK t : t = MediaIn(s) \o Bring(media, f)
  OBVIOUS
<1>3. MediaIn(s \o f) = t
  BY <1>2, MediaInLaws
<1>4. t \in Seq(Leaf)
  <2>1. MediaIn(s) \in Seq(Leaf) /\ Bring(media, f) \in Seq(Leaf)
    BY MediaInLaws, MediaLaws
  <2> QED BY <1>2, <2>1, TwoConcat
<1>5. t \o Bring(media, <<>>) = t
  <2>1. Bring(media, <<>>) = <<>>
    BY MediaLaws
  <2> QED BY <1>4, <2>1, EmptyConcat
<1>6. x = a \o (MediaIn(s \o f) \o Bring(media, <<>>))
  BY <1>2, <1>3, <1>5, <1>1
<1> QED BY <1>6 DEF Follows

LEMMA FollowsTakes ==
    \A s \in Seq(Message), x \in Seq(Leaf), p \in Leaf :
        Follows(s, <<>>, x) => Follows(s, <<p>>, x \o media[p])
<1> SUFFICES ASSUME NEW s \in Seq(Message), NEW x \in Seq(Leaf), NEW p \in Leaf,
                    NEW a \in Seq(Leaf), x = a \o (MediaIn(s) \o Bring(media, <<>>))
             PROVE  x \o media[p] = a \o (MediaIn(s) \o Bring(media, <<p>>))
  BY DEF Follows
<1>1. PICK t, y : t = MediaIn(s) /\ y = media[p]
  OBVIOUS
<1>2. t \in Seq(Leaf) /\ y \in Seq(Leaf)
  BY <1>1, MediaInLaws, MediaTyped
<1>3. Bring(media, <<p>>) = y
  BY <1>1, MediaLaws
<1>4. t \o Bring(media, <<>>) = t
  <2>1. Bring(media, <<>>) = <<>>
    BY MediaLaws
  <2> QED BY <1>2, <2>1, EmptyConcat
<1>5. (a \o t) \o y = a \o (t \o y)
  BY <1>2, ThreeConcat
<1> QED BY <1>1, <1>3, <1>4, <1>5

LEMMA FollowsData ==
    \A s, x : \A p \in Leaf :
        p.kind \notin Media /\ Follows(s, <<>>, x) => Follows(s, <<p>>, x)
<1>1. \A p \in Leaf : p.kind \notin Media => Bring(media, <<p>>) = Bring(media, <<>>)
  <2>1. ASSUME NEW p \in Leaf, p.kind \notin Media PROVE Bring(media, <<p>>) = Bring(media, <<>>)
    <3>1. media[p] = <<>>
      BY <2>1 DEF media
    <3> QED BY <3>1, MediaLaws
  <2> QED BY <2>1
<1> QED BY <1>1 DEF Follows

\* What the publish session has handled is ahead of every subscriber by no more than what
\* came before it joined and the packet in hand; a subscriber to be has no media.
Relayed ==
    \A c \in Conn \ {Upstream} :
        IF c \in joined
        THEN Follows(sent[<<c, "client">>], Pending(c), Bring(media, handled[Ingest]))
        ELSE MediaIn(sent[<<c, "client">>]) = <<>>

LEMMA RelayedQuiet ==
    ASSUME TypeOK, Relayed, UNCHANGED <<relay, joined>>, handled'[Ingest] = handled[Ingest],
           \A c \in Conn \ {Upstream} :
              \E ms : /\ Quiet(ms)
                      /\ sent'[<<c, "client">>] = sent[<<c, "client">>] \o ms
    PROVE  Relayed'
<1> SUFFICES ASSUME NEW c \in Conn \ {Upstream}
             PROVE  IF c \in joined
                    THEN Follows(sent'[<<c, "client">>], Pending(c)', Bring(media, handled[Ingest]))
                    ELSE MediaIn(sent'[<<c, "client">>]) = <<>>
  BY DEF Relayed
<1>1. PICK s, f, x : /\ s = sent[<<c, "client">>] /\ f = Pending(c)
                     /\ x = Bring(media, handled[Ingest])
  OBVIOUS
<1>2. s \in Seq(Message)
  <2>1. <<c, "client">> \in End
    BY DEF End
  <2> QED BY <1>1, <2>1, StateParts
<1>3. Pending(c)' = f
  BY <1>1 DEF Pending
<1>4. PICK ms : Quiet(ms) /\ sent'[<<c, "client">>] = s \o ms
  BY <1>1
<1>5. IF c \in joined THEN Follows(s, f, x) ELSE MediaIn(s) = <<>>
  BY <1>1 DEF Relayed
<1>6. Follows(s, f, x) => Follows(s \o ms, f, x)
  BY <1>2, <1>4, FollowsQuiet
<1>7. MediaIn(s \o ms) = MediaIn(s)
  BY <1>2, <1>4, MediaInLaws
<1> QED BY <1>1, <1>3, <1>4, <1>5, <1>6, <1>7

LEMMA RelayedEnds ==
    ASSUME OnlyRelayed, TypeOK, Relayed, NEW e \in End,
           \/ Send(e) \/ SendShifted(e) \/ Call(e) \/ (Poll(e) /\ e # Ingest)
           \/ \E i \in DOMAIN handled[e] : Answer(e, i)
    PROVE  Relayed'
<1>1. joined' = joined
  BY QuietSteps
<1>2. \A c \in Conn \ {Upstream} :
         \E w : Quiet(w) /\ sent'[<<c, "client">>] = sent[<<c, "client">>] \o w
  BY QuietToPlayers
<1>3. relay' = relay /\ handled'[Ingest] = handled[Ingest]
  <2>1. CASE Send(e) \/ SendShifted(e)
    BY <2>1 DEF Send, SendShifted
  <2>2. CASE Call(e)
    BY <2>2 DEF Call
  <2>3. CASE \E i \in DOMAIN handled[e] : Answer(e, i)
    BY <2>3 DEF Answer, log
  <2>4. CASE Poll(e) /\ e # Ingest
    <3>1. PICK m \in Message, rest \in SessionState, left \in Seq(Entry) :
             Handle(e, m, rest, left)
      BY <2>4, PollParts
    <3>2. Took(e, m, rest, left)
      BY <3>1, HandleTakes
    <3>3. handled'[Ingest] = handled[Ingest]
      BY <2>4, <3>2, IngestEnd DEF Took
    <3>4. relay' = relay
      BY <2>4, <3>1 DEF Handle
    <3> QED BY <3>3, <3>4
  <2> QED BY <2>1, <2>2, <2>3, <2>4
<1> QED BY <1>1, <1>2, <1>3, RelayedQuiet

LEMMA RelayedJoin ==
    ASSUME TypeOK, Relayed, NEW d \in Conn, Join(d)
    PROVE  Relayed'
<1>1. PICK ms : ms = [i \in DOMAIN frames |-> DataMessage(frames[i])]
  OBVIOUS
<1>2. ms \in Seq(Leaf) /\ \A i \in DOMAIN ms : ms[i].kind = "Data"
  <2>1. frames \in Seq(Frame)
    BY DEF TypeOK
  <2> QED BY <1>1, <2>1, ReplayTyped
<1>3. /\ <<d, "server">> \in End /\ Peer(<<d, "server">>) = <<d, "client">>
      /\ Write(<<d, "server">>, ms) /\ d \notin joined /\ d # Upstream
      /\ joined' = joined \cup {d} /\ relay' = relay /\ handled' = handled
  BY <1>1 DEF Join, End, Peer, log
<1>4. PICK new : Adds(<<d, "server">>, ms, new)
  BY <1>2, <1>3, WriteLeaves
<1>5. PICK x : x = Bring(media, handled[Ingest])
  OBVIOUS
<1>6. x \in Seq(Leaf)
  <2>1. handled[Ingest] \in Seq(Leaf)
    BY IngestEnd, StateParts
  <2> QED BY <1>5, <2>1, MediaLaws
<1>7. ASSUME NEW c \in Conn \ {Upstream}
      PROVE  IF c \in joined' THEN Follows(sent'[<<c, "client">>], Pending(c)', x)
             ELSE MediaIn(sent'[<<c, "client">>]) = <<>>
  <2>1. <<c, "client">> \in End
    BY DEF End
  <2>2. PICK s : s = sent[<<c, "client">>]
    OBVIOUS
  <2>3. s \in Seq(Message)
    BY <2>1, <2>2, StateParts
  <2>4. Pending(c)' = Pending(c)
    BY <1>3 DEF Pending
  <2>5. IF c \in joined THEN Follows(s, Pending(c), x) ELSE MediaIn(s) = <<>>
    BY <1>5, <2>2 DEF Relayed
  <2>6. CASE c # d
    <3>1. sent'[<<c, "client">>] = s
      <4>1. <<c, "client">> \in End \ {Peer(<<d, "server">>)}
        BY <1>3, <2>1, <2>6
      <4>2. \A y \in End \ {Peer(<<d, "server">>)} : sent'[y] = sent[y]
        BY <1>4 DEF Adds
      <4> QED BY <2>2, <4>1, <4>2
    <3>2. c \in joined' <=> c \in joined
      BY <1>3, <2>6
    <3> QED BY <2>4, <2>5, <3>1, <3>2
  <2>7. CASE c = d
    <3>1. Pending(c)' = <<>>
      BY <1>3, <2>4, <2>7 DEF TypeOK, Pending
    <3>2. PICK t : t = s \o ms
      OBVIOUS
    <3>3. sent'[<<c, "client">>] = t
      BY <1>3, <1>4, <2>2, <2>7, <3>2 DEF Adds
    <3>4. t \in Seq(Message)
      <4>1. ms \in Seq(Message)
        BY <1>2, SubsAreMessages, SeqMonotonic
      <4> QED BY <2>3, <3>2, <4>1
    <3>5. MediaIn(t) = <<>>
      <4>1. Bring(media, ms) = <<>>
        <5>1. \A i \in DOMAIN ms : ms[i].kind \notin Media
          BY <1>2 DEF Media
        <5> QED BY <1>2, <5>1, NoMedia
      <4>2. MediaIn(s) = <<>>
        BY <1>3, <2>5, <2>7
      <4>3. MediaIn(t) = MediaIn(s) \o Bring(media, ms)
        BY <1>2, <2>3, <3>2, MediaInLaws
      <4>4. <<>> \o <<>> = <<>>
        BY EmptyConcat, EmptySeq
      <4> QED BY <4>1, <4>2, <4>3, <4>4
    <3>6. Follows(t, <<>>, x)
      BY <1>6, <3>4, <3>5, FollowsFrom
    <3> QED BY <1>3, <2>7, <3>1, <3>3, <3>6
  <2> QED BY <2>6, <2>7
<1> QED BY <1>3, <1>5, <1>7 DEF Relayed

LEMMA RelayedForward ==
    ASSUME TypeOK, Relayed, NEW d \in Conn, Forward(d)
    PROVE  Relayed'
<1>1. PICK ms : ms = relay.packet
  OBVIOUS
<1>2. /\ <<d, "server">> \in End /\ Peer(<<d, "server">>) = <<d, "client">>
      /\ Write(<<d, "server">>, ms) /\ d \in relay.todo /\ ms \in Seq(Leaf)
      /\ relay' = [relay EXCEPT !.todo = @ \ {d}] /\ UNCHANGED <<handled, joined>>
      /\ relay \in [packet : Seq(Leaf), todo : SUBSET joined]
  BY <1>1 DEF Forward, End, Peer, app, log, TypeOK
<1>3. PICK new : Adds(<<d, "server">>, ms, new)
  BY <1>2, WriteLeaves
<1>4. relay'.packet = ms /\ relay'.todo = relay.todo \ {d}
  BY <1>1, <1>2
<1>5. PICK x : x = Bring(media, handled[Ingest])
  OBVIOUS
<1>6. ASSUME NEW c \in Conn \ {Upstream}
      PROVE  IF c \in joined THEN Follows(sent'[<<c, "client">>], Pending(c)', x)
             ELSE MediaIn(sent'[<<c, "client">>]) = <<>>
  <2>1. <<c, "client">> \in End
    BY DEF End
  <2>2. PICK s : s = sent[<<c, "client">>]
    OBVIOUS
  <2>3. s \in Seq(Message)
    BY <2>1, <2>2, StateParts
  <2>4. IF c \in joined THEN Follows(s, Pending(c), x) ELSE MediaIn(s) = <<>>
    BY <1>5, <2>2 DEF Relayed
  <2>5. CASE c # d
    <3>1. sent'[<<c, "client">>] = s
      <4>1. <<c, "client">> \in End \ {Peer(<<d, "server">>)}
        BY <1>2, <2>1, <2>5
      <4>2. \A y \in End \ {Peer(<<d, "server">>)} : sent'[y] = sent[y]
        BY <1>3 DEF Adds
      <4> QED BY <2>2, <4>1, <4>2
    <3>2. Pending(c)' = Pending(c)
      BY <1>1, <1>4, <2>5 DEF Pending
    <3> QED BY <2>4, <3>1, <3>2
  <2>6. CASE c = d
    <3>1. Pending(c) = ms /\ Pending(c)' = <<>> /\ c \in joined
      BY <1>1, <1>2, <1>4, <2>6 DEF Pending
    <3>2. Follows(s, ms, x)
      BY <2>4, <3>1
    <3>3. Follows(s \o ms, <<>>, x)
      BY <1>2, <2>3, <3>2, FollowsForward
    <3>4. sent'[<<c, "client">>] = s \o ms
      BY <1>2, <1>3, <2>2, <2>6 DEF Adds
    <3> QED BY <3>1, <3>3, <3>4
  <2> QED BY <2>5, <2>6
<1> QED BY <1>2, <1>5, <1>6 DEF Relayed

\* A poll of the publish session: its packet brings what has been handled, of media.
LEMMA RelayedIngest ==
    ASSUME OnlyRelayed, TypeOK, Relayed, Poll(Ingest)
    PROVE  Relayed'
<1>1. PICK m \in Message, rest \in SessionState, left \in Seq(Entry) :
         /\ Handle(Ingest, m, rest, left) /\ relay.todo = {} /\ joined' = joined
         /\ \A c \in joined : sent'[<<c, "client">>] = sent[<<c, "client">>]
         /\ \/ /\ m.kind \in Media \cup {"SetDataFrame", "Data"}
               /\ relay' = [packet |-> Forwarded(m), todo |-> joined]
            \/ m.kind \notin Media /\ relay' = relay
  BY IngestPoll
<1>2. PICK h, x : h = handled[Ingest] /\ x = Bring(media, h)
  OBVIOUS
<1>3. h \in Seq(Leaf) /\ x \in Seq(Leaf)
  BY <1>2, IngestEnd, StateParts, MediaLaws
<1>4. Took(Ingest, m, rest, left)
  BY <1>1, IngestEnd, HandleTakes
<1>5. Bring(media, handled'[Ingest]) = IF m.kind \in Media THEN x \o media[m] ELSE x
  <2>1. handled'[Ingest] = IF m.kind = "Aggregate" THEN h ELSE Append(h, m)
    BY <1>2, <1>4 DEF Took
  <2>2. CASE m.kind = "Aggregate"
    <3>1. m.kind \notin Media
      BY <2>2 DEF Media
    <3> QED BY <1>2, <2>1, <2>2, <3>1
  <2>3. CASE m.kind # "Aggregate"
    <3>1. m \in Leaf
      BY <2>3, KindsOfMessages
    <3>2. Bring(media, Append(h, m)) = x \o media[m]
      BY <1>2, <1>3, <3>1, MediaLaws
    <3>3. m.kind \notin Media => media[m] = <<>>
      BY <3>1 DEF media
    <3>4. x \o <<>> = x
      BY <1>3, EmptyConcat
    <3> QED BY <2>1, <2>3, <3>2, <3>3, <3>4
  <2> QED BY <2>2, <2>3
<1>6. ASSUME NEW c \in Conn \ {Upstream}, c \in joined
      PROVE  Follows(sent'[<<c, "client">>], Pending(c)', Bring(media, handled'[Ingest]))
  <2>1. PICK s : s = sent[<<c, "client">>]
    OBVIOUS
  <2>2. s \in Seq(Message) /\ sent'[<<c, "client">>] = s
    <3>1. <<c, "client">> \in End
      BY DEF End
    <3> QED BY <1>1, <1>6, <2>1, <3>1, StateParts
  <2>3. Pending(c) = <<>>
    BY <1>1 DEF Pending
  <2>4. Follows(s, <<>>, x)
    BY <1>2, <1>6, <2>1, <2>3 DEF Relayed
  <2>5. CASE /\ m.kind \in Media \cup {"SetDataFrame", "Data"}
             /\ relay' = [packet |-> Forwarded(m), todo |-> joined]
    <3>1. PICK p \in Leaf : /\ Forwarded(m) = <<p>>
                            /\ m.kind \in Media => p = m
                            /\ m.kind \notin Media => p.kind = "Data"
      <4>1. ASSUME Forwarded(m) = <<>> PROVE FALSE
        <5>1. \A p : <<p>> # <<>>
          OBVIOUS
        <5>2. m.kind \in Media \cup {"SetDataFrame", "Data"}
          BY <2>5
        <5> QED BY <4>1, <5>1, <5>2, ForwardedTyped
      <4>2. PICK p \in Leaf :
               /\ Forwarded(m) = <<p>>
               /\ \/ m.kind \in Media /\ p = m
                  \/ /\ m.kind = "SetDataFrame" /\ p.kind = "Data"
                     /\ p.name = m.name /\ p.val = m.val
                  \/ /\ m.kind = "Data" /\ p.kind = "Data"
                     /\ p.name = "onMetaData" /\ p.val = m.val
        BY <4>1, ForwardedTyped
      <4>3. "SetDataFrame" \notin Media /\ "Data" \notin Media
        BY DEF Media
      <4> QED BY <4>2, <4>3
    <3>2. Pending(c)' = <<p>>
      BY <1>1, <1>6, <2>5, <3>1 DEF Pending
    <3>3. m.kind \in Media => Follows(s, <<p>>, x \o media[m])
      BY <1>3, <2>2, <2>4, <3>1, FollowsTakes
    <3>4. m.kind \notin Media => Follows(s, <<p>>, x)
      <4>1. m.kind \notin Media => p.kind \notin Media
        BY <3>1 DEF Media
      <4> QED BY <2>4, <4>1, FollowsData
    <3> QED BY <1>5, <2>2, <3>2, <3>3, <3>4
  <2>6. CASE m.kind \notin Media /\ relay' = relay
    <3>1. Pending(c)' = <<>>
      BY <2>3, <2>6 DEF Pending
    <3> QED BY <1>5, <2>2, <2>4, <2>6, <3>1
  <2> QED BY <1>1, <2>5, <2>6
<1>7. ASSUME NEW c \in Conn \ {Upstream}, c \notin joined
      PROVE  MediaIn(sent'[<<c, "client">>]) = <<>>
  <2>1. PICK s : s = sent[<<c, "client">>]
    OBVIOUS
  <2>2. s \in Seq(Message)
    <3>1. <<c, "client">> \in End
      BY DEF End
    <3> QED BY <2>1, <3>1, StateParts
  <2>3. PICK w : Quiet(w) /\ sent'[<<c, "client">>] = s \o w
    BY <2>1, IngestEnd, QuietToPlayers
  <2>4. MediaIn(s) = <<>>
    BY <1>7, <2>1 DEF Relayed
  <2>5. MediaIn(s \o w) = MediaIn(s)
    BY <2>2, <2>3, MediaInLaws
  <2> QED BY <2>3, <2>4, <2>5
<1> QED BY <1>1, <1>6, <1>7 DEF Relayed

LEMMA RelayedStep ==
    ASSUME OnlyRelayed, TypeOK, Relayed, [Next]_vars
    PROVE  Relayed'
<1>1. CASE UNCHANGED vars
  BY <1>1 DEF vars, Relayed, Pending
<1>2. ASSUME NEW e \in End,
             \/ Send(e) \/ SendShifted(e) \/ Call(e) \/ Poll(e)
             \/ \E i \in DOMAIN handled[e] : Answer(e, i)
      PROVE  Relayed'
  BY <1>2, RelayedEnds, RelayedIngest
<1>3. ASSUME NEW c \in Conn, Join(c) \/ Forward(c) PROVE Relayed'
  BY <1>3, RelayedJoin, RelayedForward
<1> QED BY <1>1, <1>2, <1>3 DEF Next

LEMMA RelayedInit == Init => Relayed
<1> SUFFICES ASSUME Init, NEW c \in Conn \ {Upstream}
             PROVE  c \notin joined /\ MediaIn(sent[<<c, "client">>]) = <<>>
  BY DEF Relayed
<1>1. <<c, "client">> \in End
  BY DEF End
<1>2. joined = {} /\ sent[<<c, "client">>] = <<>>
  BY <1>1 DEF Init
<1>3. MediaIn(<<>>) = <<>>
  BY LeavesLaws, MediaLaws DEF MediaIn
<1> QED BY <1>2, <1>3

\* What stands in the middle of a sequence is a stretch of it.
LEMMA Stretch ==
    \A a, h, r \in Seq(Leaf) :
        \E i, j \in 0 .. Len(a \o (h \o r)) : h = SubSeq(a \o (h \o r), i + 1, j)
<1> SUFFICES ASSUME NEW a \in Seq(Leaf), NEW h \in Seq(Leaf), NEW r \in Seq(Leaf)
             PROVE  \E i, j \in 0 .. Len(a \o (h \o r)) : h = SubSeq(a \o (h \o r), i + 1, j)
  OBVIOUS
<1>1. PICK t, z, n, k, l : /\ t = h \o r /\ z = a \o t
                           /\ n = Len(a) /\ k = Len(h) /\ l = Len(r)
  OBVIOUS
<1>2. /\ n \in Nat /\ k \in Nat /\ l \in Nat /\ t \in Seq(Leaf) /\ z \in Seq(Leaf)
      /\ Len(t) = k + l /\ Len(z) = n + (k + l)
  BY <1>1, ConcatProperties, LenProperties
<1>3. CASE k = 0
  <2>1. h = <<>>
    BY <1>1, <1>3, EmptySeq
  <2>2. SubSeq(z, 0 + 1, 0) = <<>>
    BY SubSeqEmpty
  <2>3. 0 \in 0 .. Len(z)
    BY <1>2
  <2> QED BY <1>1, <2>1, <2>2, <2>3
<1>4. CASE k # 0
  <2>1. SubSeq(z, n + 1, n + k) = SubSeq(t, (n + 1) - n, (n + k) - n)
    <3>1. n + 1 \in n + 1 .. n + (k + l) /\ n + k \in n + 1 .. n + (k + l)
      BY <1>2, <1>4
    <3>2. n + 1 \in Len(a) + 1 .. Len(a) + Len(t) /\ n + k \in Len(a) + 1 .. Len(a) + Len(t)
      BY <1>1, <1>2, <3>1
    <3> QED BY <1>1, <1>2, <3>2, SubSeqOfConcat2
  <2>2. (n + 1) - n = 1 /\ (n + k) - n = k
    BY <1>2
  <2>3. SubSeq(t, 1, k) = SubSeq(h, 1, k)
    <3>1. 1 \in 1 .. Len(h) /\ k \in 1 .. Len(h)
      BY <1>1, <1>2, <1>4
    <3> QED BY <1>1, <3>1, SubSeqOfConcat1
  <2>4. SubSeq(h, 1, k) = h
    BY <1>1, SubSeqFull
  <2>5. n \in 0 .. Len(z) /\ n + k \in 0 .. Len(z)
    BY <1>2
  <2>6. h = SubSeq(z, n + 1, n + k)
    BY <2>1, <2>2, <2>3, <2>4
  <2> QED BY <1>1, <2>5, <2>6
<1> QED BY <1>3, <1>4

LEMMA RelayedKeeps == ASSUME TypeOK, Flows, Relayed PROVE RelayKeepsMedia
<1> SUFFICES ASSUME NEW c \in joined
             PROVE  \E i, j \in 0 .. Len(MediaOf(Meant(Ingest))) :
                       MediaOf(Surfaced(<<c, "client">>))
                         = SubSeq(MediaOf(Meant(Ingest)), i + 1, j)
  BY DEF RelayKeepsMedia
<1>1. c \in Conn \ {Upstream} /\ <<c, "client">> \in End
  BY DEF TypeOK, End
<1>2. PICK g, h, x, t : /\ g = handled[<<c, "client">>] /\ h = Bring(media, g)
                        /\ x = Bring(media, handled[Ingest])
                        /\ t = MediaIn(sent[<<c, "client">>])
  OBVIOUS
<1>3. g \in Seq(Leaf) /\ h \in Seq(Leaf) /\ x \in Seq(Leaf) /\ handled[Ingest] \in Seq(Leaf)
  BY <1>1, <1>2, IngestEnd, StateParts, MediaLaws
<1>4. MediaOf(Surfaced(<<c, "client">>)) = h
  BY <1>1, <1>2, SurfacedMedia
\* The player has handled some of what was written to it, ...
<1>5. PICK r : r \in Seq(Leaf) /\ t = h \o r
  <2>1. PICK v \in Seq(Leaf) : Meant(<<c, "client">>) = g \o v
    BY <1>1, <1>2, FlowsAhead
  <2>2. t = Bring(media, g \o v)
    BY <1>2, <2>1 DEF MediaIn, Meant
  <2>3. Bring(media, g \o v) = h \o Bring(media, v) /\ Bring(media, v) \in Seq(Leaf)
    BY <1>2, <1>3, MediaLaws
  <2> QED BY <2>2, <2>3
\* ... which is the end of what the publish session has handled, but for the packet in
\* hand, ...
<1>6. PICK a, p : a \in Seq(Leaf) /\ p \in Seq(Leaf) /\ x = a \o (t \o p)
  <2>1. Follows(sent[<<c, "client">>], Pending(c), x)
    BY <1>1, <1>2 DEF Relayed
  <2>2. Pending(c) \in Seq(Leaf)
    BY EmptySeq DEF Pending, TypeOK
  <2>3. Bring(media, Pending(c)) \in Seq(Leaf)
    BY <2>2, MediaLaws
  <2> QED BY <1>2, <2>1, <2>3 DEF Follows
\* ... which is a beginning of what the publisher sent.
<1>7. PICK q : q \in Seq(Leaf) /\ MediaOf(Meant(Ingest)) = x \o q
  <2>1. PICK v \in Seq(Leaf) : Meant(Ingest) = handled[Ingest] \o v
    BY IngestEnd, FlowsAhead
  <2>2. Meant(Ingest) \in Seq(Leaf)
    BY <1>3, <2>1, TwoConcat
  <2>3. MediaOf(Meant(Ingest)) = Bring(media, handled[Ingest] \o v)
    BY <2>1, <2>2, MediaTyped
  <2>4. Bring(media, handled[Ingest] \o v) = x \o Bring(media, v)
        /\ Bring(media, v) \in Seq(Leaf)
    BY <1>2, <1>3, MediaLaws
  <2> QED BY <2>3, <2>4
<1>8. h \in Seq(Leaf) /\ r \in Seq(Leaf) /\ p \in Seq(Leaf)
  BY <1>3, <1>5, <1>6
<1>9. a \in Seq(Leaf) /\ h \in Seq(Leaf) /\ q \in Seq(Leaf)
  BY <1>3, <1>6, <1>7
<1>10. PICK u, w, y : u = r \o p /\ w = h \o u /\ y = u \o q
  OBVIOUS
<1>11. u \in Seq(Leaf)
  BY <1>8, <1>10, TwoConcat
<1>12. w \in Seq(Leaf)
  BY <1>8, <1>10, <1>11, TwoConcat
<1>13. y \in Seq(Leaf)
  BY <1>9, <1>10, <1>11, TwoConcat
<1>14. t \o p = w
  <2>1. (h \o r) \o p = h \o (r \o p)
    BY <1>8, ThreeConcat
  <2> QED BY <1>5, <1>10, <2>1
<1>15. (a \o w) \o q = a \o (w \o q)
  BY <1>9, <1>12, ThreeConcat
<1>16. w \o q = h \o y
  <2>1. (h \o u) \o q = h \o (u \o q)
    BY <1>9, <1>11, ThreeConcat
  <2> QED BY <1>10, <2>1
<1>17. MediaOf(Meant(Ingest)) = a \o (h \o y)
  BY <1>6, <1>7, <1>14, <1>15, <1>16
<1>18. \E i, j \in 0 .. Len(a \o (h \o y)) : h = SubSeq(a \o (h \o y), i + 1, j)
  BY <1>9, <1>13, Stretch
<1> QED BY <1>4, <1>17, <1>18

\* The media a subscriber surfaces is an unbroken stretch of what the publisher sent, with
\* its timestamps, however it is bundled, joined, forwarded and polled (poll,
\* parse_aggregate and forward), for players that get their media from the relay and any
\* traffic in which a nested aggregate stands last.
THEOREM RelayedMedia ==
    ASSUME NestedLast, OnlyRelayed
    PROVE  Spec => []RelayKeepsMedia
<1>1. Init => Flows /\ Relayed
  BY FlowsInit, RelayedInit
<1>2. TypeOK /\ (Flows /\ Relayed) /\ [Next]_vars => (Flows /\ Relayed)'
  BY FlowsStep, RelayedStep
<1>3. TypeOK /\ (Flows /\ Relayed) => RelayKeepsMedia
  BY RelayedKeeps
<1> QED BY <1>1, <1>2, <1>3, TypeCorrect, PTL DEF Spec
=============================================================================
