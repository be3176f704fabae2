------------------------- MODULE FlowControlProofs -------------------------
(***************************************************************************)
(* Proofs about FlowControl for every width of the byte counter, every set *)
(* of windows and message sizes that keeps a window away from the wrap,    *)
(* and every amount of traffic: an end acknowledges within its window, and *)
(* no later than its peer waits for it, and a Soft limit narrows.          *)
(***************************************************************************)
EXTENDS FlowControl, Flattening

Counter == 0 .. CounterMod - 1
ReaderState == [received : Counter, window : Windows, lastAck : Counter]
LimiterState == [window : SUBSET Windows, hard : BOOLEAN]
SenderState == [sent : Counter, unacked : Nat, announced : Windows]

-----------------------------------------------------------------------------
(* Arithmetic modulo the width of the counter. *)

\* What wraps stays in range; a number less than a turn away is unwrapped by one turn.
LEMMA Wraps ==
    ASSUME NEW a \in Int
    PROVE  /\ a % CounterMod \in Counter
           /\ a \in Counter => a % CounterMod = a
           /\ a - CounterMod \in Counter => a % CounterMod = a - CounterMod
           /\ a + CounterMod \in Counter => a % CounterMod = a + CounterMod
BY FlowConstants DEF Counter

\* Adding to the counter adds to its distance from a mark, less than a turn away.
LEMMA DistanceGrows ==
    ASSUME NEW a \in Counter, NEW b \in Counter, NEW s \in Nat,
           ((a - b) % CounterMod) + s < CounterMod
    PROVE  (((a + s) % CounterMod) - b) % CounterMod = ((a - b) % CounterMod) + s
<1>1. a \in Int /\ b \in Int /\ CounterMod \in Nat \ {0} /\ a < CounterMod /\ b < CounterMod
      /\ 0 <= a /\ 0 <= b
  BY FlowConstants DEF Counter
<1>2. CASE b <= a
  <2>1. (a - b) % CounterMod = a - b
    BY <1>1, <1>2, Wraps DEF Counter
  <2>2. CASE a + s < CounterMod
    <3>1. (a + s) % CounterMod = a + s
      BY <1>1, <2>2, Wraps DEF Counter
    <3>2. (a + s - b) % CounterMod = a + s - b
      <4>1. a + s - b \in Int /\ a + s - b \in Counter
        BY <1>1, <1>2, <2>1, <2>2 DEF Counter
      <4> QED BY <4>1, Wraps
    <3> QED BY <1>1, <2>1, <3>1, <3>2
  <2>3. CASE a + s >= CounterMod
    <3>1. (a + s) % CounterMod = a + s - CounterMod
      <4>1. a + s \in Int /\ (a + s) - CounterMod \in Counter
        BY <1>1, <2>1, <2>3 DEF Counter
      <4>2. (a + s) % CounterMod = (a + s) - CounterMod
        BY <4>1, Wraps
      <4> QED BY <1>1, <4>2
    <3>2. (a + s - CounterMod - b) % CounterMod = a + s - b
      <4>1. a + s - CounterMod - b \in Int /\ a + s - CounterMod - b + CounterMod \in Counter
        BY <1>1, <1>2, <2>1, <2>3 DEF Counter
      <4>2. (a + s - CounterMod - b) % CounterMod = a + s - CounterMod - b + CounterMod
        BY <4>1, Wraps
      <4> QED BY <1>1, <4>2
    <3> QED BY <1>1, <2>1, <3>1, <3>2
  <2> QED BY <1>1, <2>2, <2>3
<1>3. CASE a < b
  <2>1. (a - b) % CounterMod = a - b + CounterMod
    <3>1. a - b \in Int /\ a - b + CounterMod \in Counter
      BY <1>1, <1>3 DEF Counter
    <3> QED BY <3>1, Wraps
  <2>2. a + s \in Int /\ a + s \in Counter /\ a + s < b
    BY <1>1, <1>3, <2>1 DEF Counter
  <2>3. (a + s) % CounterMod = a + s
    BY <2>2, Wraps
  <2>4. (a + s - b) % CounterMod = a + s - b + CounterMod
    <3>1. a + s - b \in Int /\ a + s - b + CounterMod \in Counter
      BY <1>1, <2>1, <2>2 DEF Counter
    <3> QED BY <3>1, Wraps
  <2> QED BY <1>1, <2>1, <2>3, <2>4
<1> QED BY <1>1, <1>2, <1>3

\* Adding before or after the wrap of the counter makes no difference.
LEMMA CounterWraps ==
    ASSUME NEW a \in Int, NEW b \in Int
    PROVE  ((a % CounterMod) + b) % CounterMod = (a + b) % CounterMod
<1>1. PICK n \in Nat \ {0} : n = CounterMod
  BY FlowConstants
<1>2. ((a % n) + b) % n = (a + b) % n
  BY WrapsOnce
<1> QED BY <1>1, <1>2

\* Adding to the counter adds to its distance from any mark, less than a turn away.
LEMMA DistanceFromMark ==
    ASSUME NEW a \in Int, NEW v \in Int, NEW b \in Nat,
           ((a - v) % CounterMod) + b < CounterMod
    PROVE  (((a + b) % CounterMod) - v) % CounterMod = ((a - v) % CounterMod) + b
<1>1. (((a + b) % CounterMod) - v) % CounterMod = ((a + b) - v) % CounterMod
  <2>1. a + b \in Int /\ -v \in Int /\ (a + b) % CounterMod \in Int
    BY Wraps DEF Counter
  <2>2. (((a + b) % CounterMod) + (-v)) % CounterMod = ((a + b) + (-v)) % CounterMod
    BY <2>1, CounterWraps
  <2>3. ((a + b) % CounterMod) + (-v) = ((a + b) % CounterMod) - v
        /\ (a + b) + (-v) = (a + b) - v
    BY <2>1
  <2> QED BY <2>2, <2>3
<1>2. (((a - v) % CounterMod) + b) % CounterMod = ((a - v) + b) % CounterMod
  BY CounterWraps
<1>3. (a - v) + b = (a + b) - v
  OBVIOUS
<1>4. ((a - v) % CounterMod) + b \in Counter
  <2>1. (a - v) % CounterMod \in Counter
    BY Wraps
  <2> QED BY <2>1, FlowConstants DEF Counter
<1>5. (((a - v) % CounterMod) + b) % CounterMod = ((a - v) % CounterMod) + b
  <2>1. ((a - v) % CounterMod) + b \in Int
    BY <1>4 DEF Counter
  <2> QED BY <1>4, <2>1, Wraps
<1> QED BY <1>1, <1>2, <1>3, <1>5

\* What is known of a message.
LEMMA MessageFields ==
    ASSUME NEW m \in Message
    PROVE  /\ m.size \in AppSizes \cup {1} /\ m.size \in Nat \ {0}
           /\ m.val \in Nat /\ m.limit \in LimitTypes
           /\ m.kind \in Announcements => m.val \in Windows
<1>1. \A s \in AppSizes \cup {1} : s \in Nat \ {0}
  BY FlowConstants
<1>2. m.size \in AppSizes \cup {1}
  BY DEF Message
<1>3. m.size \in Nat \ {0}
  BY <1>1, <1>2, Zenon
<1> QED BY <1>2, <1>3 DEF Message

\* Reading a message adds its size to the bytes since the last acknowledgement.
LEMMA SinceGrows ==
    ASSUME NEW r \in ReaderState, NEW m \in Message,
           Since(r) + m.size < CounterMod
    PROVE  Since(Charged(r, m)) = Since(r) + m.size
<1>1. r.received \in Counter /\ r.lastAck \in Counter
  BY DEF ReaderState
<1>2. m.size \in Nat
  BY MessageFields
<1>3. Charged(r, m).received = (r.received + m.size) % CounterMod
      /\ Charged(r, m).lastAck = r.lastAck
  BY DEF Charged, ReaderState
<1> QED BY <1>1, <1>2, <1>3, DistanceGrows DEF Since

-----------------------------------------------------------------------------
(* The parts of the state. *)

\* The reader's three operations.
LEMMA ReaderTyped ==
    ASSUME NEW r \in ReaderState, NEW m \in Message, NEW w \in Windows
    PROVE  /\ Charged(r, m) \in ReaderState /\ Charged(r, m).window = r.window
           /\ Acked(r) \in ReaderState /\ Acked(r).window = r.window
           /\ WithWindow(r, w) \in ReaderState /\ WithWindow(r, w).window = w
           /\ Since(Acked(r)) = 0 /\ Since(WithWindow(r, w)) = 0
<1>1. r.received \in Counter /\ r.received \in Int /\ 0 \in Counter
  BY FlowConstants DEF ReaderState, Counter
<1>2. r.received + m.size \in Int
  BY <1>1, MessageFields
<1>3. (r.received + m.size) % CounterMod \in Counter
  BY <1>2, Wraps
<1>4. Charged(r, m) \in ReaderState /\ Charged(r, m).window = r.window
  BY <1>3 DEF Charged, ReaderState
<1>5. Acked(r) \in ReaderState /\ Acked(r).window = r.window
      /\ Acked(r).received = r.received /\ Acked(r).lastAck = r.received
  BY DEF Acked, ReaderState
<1>6. WithWindow(r, w) \in ReaderState /\ WithWindow(r, w).window = w
      /\ WithWindow(r, w).received = r.received /\ WithWindow(r, w).lastAck = r.received
  BY DEF WithWindow, ReaderState
<1>7. (r.received - r.received) % CounterMod = 0
  <2>1. r.received - r.received = 0
    BY <1>1
  <2> QED BY <1>1, <2>1, Wraps
<1> QED BY <1>4, <1>5, <1>6, <1>7 DEF Since

\* A limit leaves the window in effect alone or puts its own in its place; a Soft one only
\* when none in effect is smaller (PeerBandwidthLimiter::apply).
LEMMA LimiterTyped ==
    ASSUME NEW l \in LimiterState, NEW w \in Windows, NEW t \in LimitTypes
    PROVE  /\ Limited(l, w, t) \in LimiterState
           /\ Limited(l, w, t).window \in {l.window, {w}}
           /\ t = Soft /\ Limited(l, w, t).window # l.window => \A cur \in l.window : ~(cur < w)
<1>1. Effective(l, w, t) \in {l.window, {w}}
  BY DEF Effective
<1>2. t = Soft /\ Effective(l, w, t) # l.window => \A cur \in l.window : ~(cur < w)
  BY DEF Effective, Soft, Hard, Dynamic
<1>3. Limited(l, w, t).window = Effective(l, w, t)
      /\ Limited(l, w, t).hard = IF t \in {Hard, Soft} THEN t = Hard ELSE l.hard
  BY DEF Limited
<1>4. Effective(l, w, t) \in SUBSET Windows
  BY <1>1 DEF LimiterState
<1>5. (IF t \in {Hard, Soft} THEN t = Hard ELSE l.hard) \in BOOLEAN
  BY DEF LimiterState
<1>6. Limited(l, w, t) \in LimiterState
  BY <1>4, <1>5 DEF Limited, LimiterState
<1> QED BY <1>1, <1>2, <1>3, <1>6

\* The recursion of Bytes has a solution.
LEMMA BytesExists ==
    ASSUME NEW ms, NEW n \in Nat
    PROVE  \E u : u = [i \in 0 .. n |-> IF i = 0 THEN 0 ELSE u[i - 1] + ms[i].size]
<1> DEFINE F(u, k) == [i \in 0 .. k |-> IF i = 0 THEN 0 ELSE u[i - 1] + ms[i].size]
           P == {k \in Nat : \E u : u = F(u, k)}
<1>1. 0 \in P
  <2> DEFINE z == [i \in 0 .. 0 |-> 0]
  <2>1. z = F(z, 0)
    OBVIOUS
  <2> QED BY <2>1
<1>2. ASSUME NEW k \in Nat, k \in P PROVE k + 1 \in P
  <2>1. PICK u : u = F(u, k)
    BY <1>2
  <2> DEFINE w == [i \in 0 .. k + 1 |-> IF i <= k THEN u[i] ELSE u[k] + ms[i].size]
  <2>2. \A i \in 0 .. k : u[i] = IF i = 0 THEN 0 ELSE u[i - 1] + ms[i].size
    <3> HIDE DEF P
    <3> QED BY <2>1, Zenon
  <2>3. (\A i \in 0 .. k : w[i] = u[i]) /\ w[k + 1] = u[k] + ms[k + 1].size
    OBVIOUS
  <2>4. w = [i \in 0 .. k + 1 |-> w[i]]
    OBVIOUS
  <2> HIDE DEF w
  <2>5. ASSUME NEW i \in 0 .. k + 1
        PROVE  w[i] = IF i = 0 THEN 0 ELSE w[i - 1] + ms[i].size
    <3>1. CASE i <= k
      <4>1. i \in 0 .. k /\ (i # 0 => i - 1 \in 0 .. k)
        BY <3>1
      <4> QED BY <2>2, <2>3, <4>1
    <3>2. CASE i = k + 1
      <4>1. i # 0 /\ i - 1 = k /\ k \in 0 .. k
        BY <3>2
      <4> QED BY <2>3, <3>2, <4>1
    <3> QED BY <3>1, <3>2
  <2>6. w = F(w, k + 1)
    BY <2>4, <2>5
  <2> HIDE DEF F
  <2> QED BY <2>6
<1> HIDE DEF F
<1>3. Nat \subseteq P
  <2> HIDE DEF P
  <2> QED BY <1>1, <1>2, InductionOver
<1> QED BY <1>3 DEF F

\* The partial sums of Bytes.
LEMMA BytesSteps ==
    ASSUME NEW ms \in Seq(Message)
    PROVE  \E u : /\ u[0] = 0 /\ \A i \in 1 .. Len(ms) : u[i] = u[i - 1] + ms[i].size
                  /\ \A i \in 0 .. Len(ms) : u[i] \in Nat
                  /\ Bytes(ms) = u[Len(ms)]
<1> DEFINE n == Len(ms)
           F(u) == [i \in 0 .. n |-> IF i = 0 THEN 0 ELSE u[i - 1] + ms[i].size]
           u == CHOOSE v : v = F(v)
<1>1. n \in Nat /\ \A i \in 1 .. n : ms[i].size \in Nat
  <2>1. n \in Nat /\ \A i \in 1 .. n : ms[i] \in Message
    OBVIOUS
  <2> QED BY <2>1, MessageFields
<1>2. Bytes(ms) = u[n]
  BY DEF Bytes
<1>3. \E v : v = F(v)
  <2> HIDE DEF n
  <2> QED BY <1>1, BytesExists
<1>4. u = F(u)
  <2> HIDE DEF F
  <2> QED BY <1>3
<1>5. \A i \in 0 .. n : u[i] = IF i = 0 THEN 0 ELSE u[i - 1] + ms[i].size
  <2> HIDE DEF u, n
  <2> QED BY <1>4, Zenon
<1> HIDE DEF u, F, n
<1>6. u[0] = 0 /\ \A i \in 1 .. n : u[i] = u[i - 1] + ms[i].size
  BY <1>1, <1>5
<1> DEFINE P == {k \in Nat : k \in 0 .. n => u[k] \in Nat}
<1>7. 0 \in P
  BY <1>6
<1>8. ASSUME NEW k \in Nat, k \in P PROVE k + 1 \in P
  <2> SUFFICES ASSUME k + 1 \in 0 .. n PROVE u[k + 1] \in Nat
    OBVIOUS
  <2>1. k \in 0 .. n /\ k + 1 \in 1 .. n /\ (k + 1) - 1 = k
    BY <1>1
  <2>2. u[k + 1] = u[k] + ms[k + 1].size
    BY <1>6, <2>1
  <2>3. u[k] \in Nat /\ ms[k + 1].size \in Nat
    BY <1>1, <1>8, <2>1
  <2> QED BY <2>2, <2>3
<1>9. Nat \subseteq P
  <2> HIDE DEF P
  <2> QED BY <1>7, <1>8, InductionOver
<1>10. \A i \in 0 .. n : u[i] \in Nat
  BY <1>1, <1>9
<1> QED BY <1>2, <1>6, <1>10 DEF n

\* Messages have so many bytes: none, or those of all but the last, and of the last.
LEMMA BytesTyped ==
    ASSUME NEW ms \in Seq(Message)
    PROVE  Bytes(ms) \in Nat /\ (ms = <<>> => Bytes(ms) = 0)
<1>1. PICK u : /\ u[0] = 0
               /\ \A i \in 0 .. Len(ms) : u[i] \in Nat
               /\ Bytes(ms) = u[Len(ms)]
  BY BytesSteps
<1>2. Len(ms) \in 0 .. Len(ms) /\ (ms = <<>> => Len(ms) = 0)
  <2>1. Len(ms) \in Nat /\ (ms = <<>> => Len(ms) = 0)
    OBVIOUS
  <2> QED BY <2>1
<1> QED BY <1>1, <1>2

LEMMA BytesAppend ==
    ASSUME NEW ms \in Seq(Message), NEW m \in Message
    PROVE  Bytes(Append(ms, m)) = Bytes(ms) + m.size
<1> DEFINE n == Len(ms)
           more == Append(ms, m)
<1>1. /\ more \in Seq(Message) /\ Len(more) = n + 1 /\ more[n + 1] = m
      /\ n \in Nat /\ \A i \in 1 .. n : more[i] = ms[i]
  BY AppendProperties, LenProperties
<1>2. PICK w : /\ w[0] = 0 /\ \A i \in 1 .. n + 1 : w[i] = w[i - 1] + more[i].size
               /\ Bytes(more) = w[n + 1]
  <2> HIDE DEF more
  <2> QED BY <1>1, BytesSteps
<1>3. PICK u : /\ u[0] = 0 /\ \A i \in 1 .. n : u[i] = u[i - 1] + ms[i].size
               /\ Bytes(ms) = u[n]
  BY BytesSteps
<1> HIDE DEF n, more
<1> DEFINE P == {k \in Nat : k \in 0 .. n => u[k] = w[k]}
<1>4. 0 \in P
  BY <1>2, <1>3
<1>5. ASSUME NEW k \in Nat, k \in P PROVE k + 1 \in P
  <2> SUFFICES ASSUME k + 1 \in 0 .. n PROVE u[k + 1] = w[k + 1]
    OBVIOUS
  <2>1. k \in 0 .. n /\ k + 1 \in 1 .. n /\ k + 1 \in 1 .. n + 1 /\ (k + 1) - 1 = k
    BY <1>1
  <2>2. u[k + 1] = u[k] + ms[k + 1].size /\ w[k + 1] = w[k] + more[k + 1].size
    BY <1>2, <1>3, <2>1
  <2> QED BY <1>1, <1>5, <2>1, <2>2
<1>6. Nat \subseteq P
  <2> HIDE DEF P
  <2> QED BY <1>4, <1>5, InductionOver
<1>7. u[n] = w[n]
  BY <1>1, <1>6
<1>8. w[n + 1] = w[n] + more[n + 1].size
  <2>1. n + 1 \in 1 .. n + 1 /\ (n + 1) - 1 = n
    BY <1>1
  <2> QED BY <1>2, <2>1
<1> QED BY <1>1, <1>2, <1>3, <1>7, <1>8 DEF more

\* Two sequences of messages have the bytes of both.
LEMMA BytesConcat ==
    ASSUME NEW ms \in Seq(Message), NEW more \in Seq(Message)
    PROVE  Bytes(ms \o more) = Bytes(ms) + Bytes(more)
<1> DEFINE P == {s \in Seq(Message) : Bytes(ms \o s) = Bytes(ms) + Bytes(s)}
<1>1. <<>> \in P
  <2>1. <<>> \in Seq(Message) /\ ms \o <<>> = ms
    BY EmptySeq, ConcatEmptySeq
  <2>2. Bytes(ms) \in Nat /\ Bytes(<<>>) = 0
    BY <2>1, BytesTyped
  <2> QED BY <2>1, <2>2
<1>2. ASSUME NEW s \in Seq(Message), NEW m \in Message, s \in P PROVE Append(s, m) \in P
  <2>1. /\ ms \o Append(s, m) = Append(ms \o s, m) /\ ms \o s \in Seq(Message)
        /\ Append(s, m) \in Seq(Message)
    OBVIOUS
  <2>2. /\ Bytes(Append(s, m)) = Bytes(s) + m.size
        /\ Bytes(Append(ms \o s, m)) = Bytes(ms \o s) + m.size
    BY <2>1, BytesAppend
  <2>3. Bytes(ms) \in Nat /\ Bytes(s) \in Nat /\ m.size \in Nat
    BY BytesTyped, MessageFields
  <2>4. Bytes(ms \o s) = Bytes(ms) + Bytes(s)
    BY <1>2
  <2>5. Bytes(ms \o Append(s, m)) = Bytes(ms) + Bytes(Append(s, m))
    BY <2>1, <2>2, <2>3, <2>4
  <2> QED BY <2>1, <2>5
<1>3. Seq(Message) \subseteq P
  <2> HIDE DEF P
  <2> QED BY <1>1, <1>2, InductionOnAppend
<1> QED BY <1>3

\* Reading the first message leaves the bytes of the others.
LEMMA BytesRead ==
    ASSUME NEW ms \in Seq(Message), ms # <<>>
    PROVE  Bytes(ms) = Head(ms).size + Bytes(Tail(ms))
<1>1. /\ Head(ms) \in Message /\ Tail(ms) \in Seq(Message)
      /\ ms = <<Head(ms)>> \o Tail(ms)
  BY HeadTailProperties
<1> DEFINE m == Head(ms)
           rest == Tail(ms)
<1> HIDE DEF m, rest
<1>2. <<m>> \in Seq(Message) /\ <<m>> = Append(<<>>, m) /\ <<>> \in Seq(Message)
  BY <1>1, EmptySeq DEF m
<1>3. Bytes(<<m>>) = m.size
  <2>1. Bytes(Append(<<>>, m)) = 0 + m.size
    BY <1>1, <1>2, BytesAppend, BytesTyped DEF m
  <2>2. m.size \in Nat
    BY <1>1, MessageFields DEF m
  <2> QED BY <1>2, <2>1, <2>2
<1>4. Bytes(<<m>> \o rest) = Bytes(<<m>>) + Bytes(rest)
  BY <1>1, <1>2, BytesConcat DEF rest
<1> QED BY <1>1, <1>3, <1>4 DEF m, rest

\* The last message is a window: what its sender announces from then on.
AnnouncedBy(ms, before) ==
    IF ms # <<>> /\ ms[Len(ms)].kind = "WindowAckSize" THEN ms[Len(ms)].val ELSE before

\* A sender after it has written, and after it has been acknowledged.
LEMMA SenderTyped ==
    ASSUME TypeOK, NEW e \in End, NEW ms \in Seq(Message)
    PROVE  /\ Sends(e, ms) \in SenderState
           /\ Sends(e, ms).announced = AnnouncedBy(ms, sender[e].announced)
<1>1. sender[e] \in SenderState
  BY DEF TypeOK, SenderState, Counter
<1>2. Bytes(ms) \in Nat
  BY BytesTyped
<1>3. sender[e].sent \in Counter /\ sender[e].unacked \in Nat /\ sender[e].announced \in Windows
  BY <1>1 DEF SenderState
<1>4. (sender[e].sent + Bytes(ms)) % CounterMod \in Counter
  <2>1. sender[e].sent + Bytes(ms) \in Int
    BY <1>2, <1>3, FlowConstants DEF Counter
  <2> QED BY <2>1, Wraps
<1> DEFINE last == ms[Len(ms)]
           restarts == ms # <<>> /\ last.kind \in Announcements
           unacked == IF restarts THEN 0 ELSE sender[e].unacked + Bytes(ms)
           announced == IF restarts /\ last.kind = "WindowAckSize" THEN last.val
                        ELSE sender[e].announced
<1>5. unacked \in Nat
  BY <1>2, <1>3
<1>6. ms # <<>> => last \in Message
  OBVIOUS
<1>7. announced \in Windows
  BY <1>3, <1>6, MessageFields
<1>8. announced = AnnouncedBy(ms, sender[e].announced)
  BY DEF AnnouncedBy, Announcements
<1>9. Sends(e, ms) = [sent |-> (sender[e].sent + Bytes(ms)) % CounterMod,
                      unacked |-> unacked, announced |-> announced]
  BY DEF Sends
<1> HIDE DEF unacked, announced
<1> QED BY <1>4, <1>5, <1>7, <1>8, <1>9 DEF SenderState

\* An acknowledgement changes the count of a sender, not what it announced.
LEMMA AcknowledgedTyped ==
    ASSUME NEW s \in SenderState, NEW m \in Message
    PROVE  /\ Acknowledged(s, m) \in SenderState
           /\ Acknowledged(s, m).announced = s.announced
<1>1. Behind(s, m.val) \in Nat
  <2>1. s.sent - m.val \in Int
    BY MessageFields, FlowConstants DEF SenderState, Counter
  <2>2. (s.sent - m.val) % CounterMod \in Counter
    BY <2>1, Wraps
  <2> QED BY <2>2, FlowConstants DEF Behind, Counter
<1>2. [s EXCEPT !.unacked = Behind(s, m.val)] \in SenderState
      /\ [s EXCEPT !.unacked = Behind(s, m.val)].announced = s.announced
  BY <1>1 DEF SenderState
<1> QED BY <1>2 DEF Acknowledged

-----------------------------------------------------------------------------
(* One poll of a session, in its parts. *)

AckedOr(r) == IF AckDue(r) THEN Acked(r) ELSE r
AckFor(r) == IF AckDue(r) THEN <<AckOf(r)>> ELSE <<>>
LimiterAfter(e, m) ==
    IF m.kind = "SetPeerBandwidth" THEN Limited(limiter[e], m.val, m.limit) ELSE limiter[e]
Changed(e, m) == LimiterAfter(e, m).window # limiter[e].window
Adopts(e, m) == Changed(e, m) \/ m.kind = "WindowAckSize"
Out(e, m, r) == AckFor(r) \o Answer(m, Changed(e, m))

\* PollLive in the terms above.
LEMMA PollLiveParts ==
    ASSUME TypeOK, NEW e \in End, NEW m \in Message, NEW r \in ReaderState, PollLive(e, m, r)
    PROVE  /\ e \in live /\ UNCHANGED <<starting, live, other, left>>
           /\ missed' = IF Adopts(e, m) THEN missed \ {e} ELSE missed
           /\ reader' = [reader EXCEPT ![e] = IF Adopts(e, m) THEN WithWindow(AckedOr(r), m.val)
                                              ELSE AckedOr(r)]
           /\ limiter' = [limiter EXCEPT ![e] = LimiterAfter(e, m)]
           /\ sender' = [sender EXCEPT ![e] = Acknowledged(Sends(e, Out(e, m, r)), m)]
           /\ wire' = [wire EXCEPT ![e] = Tail(@),
                                   ![Peer(e)] = @ \o AckFor(r) \o Answer(m, Changed(e, m))]
           /\ fresh' = [fresh EXCEPT ![e] = IF Adopts(e, m) \/ AckFor(r) # <<>> THEN 0
                                            ELSE @ + m.size]
BY DEF PollLive, AckedOr, AckFor, LimiterAfter, Changed, Adopts, Out

\* What it writes: an acknowledgement, a window that answers a limit, or both.
LEMMA OutTyped ==
    ASSUME TypeOK, NEW e \in End, NEW m \in Message, NEW r \in ReaderState
    PROVE  /\ AckFor(r) \in Seq(Message) /\ Answer(m, Changed(e, m)) \in Seq(Message)
           /\ Out(e, m, r) \in Seq(Message) /\ Len(Out(e, m, r)) <= 2
           /\ \A i \in 1 .. Len(Out(e, m, r)) :
                 \/ Out(e, m, r)[i].kind = "Ack"
                 \/ Out(e, m, r)[i].kind = "WindowAckSize" /\ i = Len(Out(e, m, r))
           /\ AckFor(r) # <<>> <=> AckDue(r)
<1>1. AckOf(r) \in Message /\ AckOf(r).kind = "Ack"
  <2>1. r.received \in Nat
    BY FlowConstants DEF ReaderState, Counter
  <2> QED BY <2>1 DEF AckOf, Ack, Sized, Message, LimitTypes, Hard, Announcements
<1>2. Changed(e, m) => m.kind = "SetPeerBandwidth"
  BY DEF Changed, LimiterAfter
<1>3. Changed(e, m) => WindowAckSize(m.val) \in Message
                       /\ WindowAckSize(m.val).kind = "WindowAckSize"
  <2>1. Changed(e, m) => m.val \in Windows /\ m.val \in Nat
    BY <1>2, MessageFields DEF Announcements
  <2> QED BY <2>1 DEF WindowAckSize, Sized, Message, LimitTypes, Hard, Announcements
<1> DEFINE a == AckFor(r)
           b == Answer(m, Changed(e, m))
<1>4. a \in Seq(Message) /\ Len(a) <= 1 /\ (\A i \in 1 .. Len(a) : a[i].kind = "Ack")
      /\ (a # <<>> <=> AckDue(r))
  BY <1>1 DEF AckFor
<1>5. b \in Seq(Message) /\ Len(b) <= 1 /\ \A i \in 1 .. Len(b) : b[i].kind = "WindowAckSize"
  BY <1>3 DEF Answer
<1> HIDE DEF a, b
<1>6. Out(e, m, r) = a \o b
  BY DEF Out, a, b
<1> HIDE DEF Out
<1>7. a \o b \in Seq(Message) /\ Len(a \o b) = Len(a) + Len(b)
      /\ \A i \in 1 .. Len(a) + Len(b) : (a \o b)[i] = IF i <= Len(a) THEN a[i] ELSE b[i - Len(a)]
  BY <1>4, <1>5, ConcatProperties
<1>8. \A i \in 1 .. Len(a \o b) :
         \/ (a \o b)[i].kind = "Ack"
         \/ (a \o b)[i].kind = "WindowAckSize" /\ i = Len(a \o b)
  BY <1>4, <1>5, <1>7
<1>9. Len(a \o b) <= 2
  BY <1>4, <1>5, <1>7
<1> QED BY <1>4, <1>5, <1>6, <1>7, <1>8, <1>9 DEF a, b

\* An acknowledgement comes first, and names the bytes read.
LEMMA OutAcks ==
    ASSUME TypeOK, NEW e \in End, NEW m \in Message, NEW r \in ReaderState
    PROVE  \A i \in 1 .. Len(Out(e, m, r)) :
              Out(e, m, r)[i].kind = "Ack" => i = 1 /\ Out(e, m, r)[i].val = r.received
<1> DEFINE a == AckFor(r)
           b == Answer(m, Changed(e, m))
<1>1. a \in Seq(Message) /\ b \in Seq(Message) /\ Out(e, m, r) = a \o b
  BY OutTyped DEF Out
<1>2. Len(a) <= 1 /\ \A i \in 1 .. Len(a) : a[i].val = r.received
  BY DEF AckFor, AckOf, Ack, Sized
<1>3. \A i \in 1 .. Len(b) : b[i].kind # "Ack"
  BY DEF Answer, WindowAckSize, Sized
<1> HIDE DEF a, b
<1>4. /\ Len(a \o b) = Len(a) + Len(b) /\ Len(a) \in Nat /\ Len(b) \in Nat
      /\ \A i \in 1 .. Len(a) + Len(b) :
            (a \o b)[i] = IF i <= Len(a) THEN a[i] ELSE b[i - Len(a)]
  BY <1>1, ConcatProperties
<1> QED BY <1>1, <1>2, <1>3, <1>4

-----------------------------------------------------------------------------
(* Types. *)

\* There are two ends, each the peer of the other.
LEMMA PeerDiffers ==
    ASSUME NEW e \in End
    PROVE  Peer(e) \in End /\ Peer(e) # e /\ Peer(Peer(e)) = e
           /\ \A d \in End : d # e => d = Peer(e)
BY DEF Peer, End

\* Windows and limits are messages, and say the window they carry.
LEMMA AnnouncementsTyped ==
    ASSUME NEW w \in Windows, NEW t \in LimitTypes
    PROVE  /\ WindowAckSize(w) \in Message /\ WindowAckSize(w).kind = "WindowAckSize"
           /\ WindowAckSize(w).val = w
           /\ SetPeerBandwidth(w, t) \in Message
           /\ SetPeerBandwidth(w, t).kind = "SetPeerBandwidth"
           /\ SetPeerBandwidth(w, t).val = w
<1>1. w \in Nat
  BY FlowConstants
<1> QED BY <1>1 DEF WindowAckSize, SetPeerBandwidth, Sized, Message, Announcements,
                    LimitTypes, Hard

\* So is media.
LEMMA MediaTyped ==
    ASSUME NEW s \in AppSizes
    PROVE  Media(s) \in Message /\ Media(s).kind = "Media"
BY DEF Media, Sized, Message, Announcements, LimitTypes, Hard

\* What may be written late is one window, or a limit that keeps to the first one.
LEMMA LateTyped ==
    ASSUME NEW w \in Windows, NEW late \in Lates(w), late # <<>>
    PROVE  /\ late[1] \in Message /\ late = <<late[1]>> /\ late[1].size = 1
           /\ \/ late[1].kind = "WindowAckSize"
              \/ late[1].kind = "SetPeerBandwidth" /\ (w # 0 => late[1].val \in 1 .. w)
<1>1. CASE \E v \in Windows : late = <<WindowAckSize(v)>>
  <2>1. PICK v \in Windows : late = <<WindowAckSize(v)>>
    BY <1>1
  <2>2. WindowAckSize(v) \in Message /\ WindowAckSize(v).kind = "WindowAckSize"
        /\ WindowAckSize(v).size = 1
    BY AnnouncementsTyped DEF LimitTypes, WindowAckSize, Sized
  <2> QED BY <2>1, <2>2
<1>2. CASE \E v \in Windows \ {0}, t \in LimitTypes :
              late = <<SetPeerBandwidth(v, t)>> /\ (w # 0 => v <= w)
  <2>1. PICK v \in Windows \ {0}, t \in LimitTypes :
                late = <<SetPeerBandwidth(v, t)>> /\ (w # 0 => v <= w)
    BY <1>2
  <2>2. /\ SetPeerBandwidth(v, t) \in Message /\ SetPeerBandwidth(v, t).size = 1
        /\ SetPeerBandwidth(v, t).kind = "SetPeerBandwidth" /\ SetPeerBandwidth(v, t).val = v
    BY AnnouncementsTyped DEF SetPeerBandwidth, Sized
  <2>3. v \in Nat /\ w \in Nat /\ v # 0
    BY FlowConstants
  <2> QED BY <2>1, <2>2, <2>3
<1> QED BY <1>1, <1>2 DEF Lates

\* The setup of an end, message by message: x is what a server writes late.
Written(e, w, created, late) ==
    LET a == WindowAckSize(w)
        b == SetPeerBandwidth(w, Dynamic)
        x == late[1]
    IN  IF e = "server"
        THEN IF created = <<>>
             THEN IF late = <<>> THEN <<a, b, LastOfSetup>> ELSE <<a, b, x, LastOfSetup>>
             ELSE IF late = <<>> THEN <<a, b, Created, LastOfSetup>>
                  ELSE <<a, b, Created, x, LastOfSetup>>
        ELSE IF w = 0 THEN <<LastOfSetup>> ELSE <<a, LastOfSetup>>

\* A sequence that is another one with x behind it.
LEMMA OneMore ==
    ASSUME NEW S, NEW s \in Seq(S), NEW t \in Seq(S), NEW x \in S, Len(t) = Len(s) + 1,
           \A i \in 1 .. Len(s) : t[i] = s[i], t[Len(s) + 1] = x
    PROVE  s \o <<x>> = t
<1>1. s \o <<x>> = Append(s, x)
  BY AppendIsConcat
<1>2. Append(s, x) = t
  <2> DEFINE all == Append(s, x)
  <2>1. /\ all \in Seq(S) /\ Len(all) = Len(s) + 1 /\ Len(s) \in Nat
        /\ (\A i \in 1 .. Len(s) : all[i] = s[i]) /\ all[Len(s) + 1] = x
    BY AppendProperties
  <2> HIDE DEF all
  <2>2. \A i \in 1 .. Len(all) : all[i] = t[i]
    BY <2>1
  <2>3. all = t
    BY <2>1, <2>2, SeqEqual
  <2> QED BY <2>3 DEF all
<1> QED BY <1>1, <1>2

LEMMA Chains ==
    ASSUME NEW a, NEW b, NEW c, NEW d, NEW e
    PROVE  /\ <<a, b>> \o <<c>> = <<a, b, c>>
           /\ <<a, b, c>> \o <<d>> = <<a, b, c, d>>
           /\ <<a, b, c, d>> \o <<e>> = <<a, b, c, d, e>>
           /\ <<a, b>> \o <<>> = <<a, b>> /\ <<a, b, c>> \o <<>> = <<a, b, c>>
<1> DEFINE M == {a, b, c, d, e}
<1>1. <<a, b>> \o <<c>> = <<a, b, c>>
  <2> DEFINE s == <<a, b>>
             t == <<a, b, c>>
  <2>1. s \in Seq(M) /\ t \in Seq(M) /\ c \in M /\ Len(s) = 2 /\ Len(t) = 3
    OBVIOUS
  <2>2. t[3] = c /\ \A i \in 1 .. 2 : t[i] = s[i]
    OBVIOUS
  <2> HIDE DEF s, t, M
  <2>3. /\ Len(t) = Len(s) + 1 /\ t[Len(s) + 1] = c
        /\ \A i \in 1 .. Len(s) : t[i] = s[i]
    BY <2>1, <2>2
  <2>4. s \o <<c>> = t
    BY <2>1, <2>3, OneMore
  <2> QED BY <2>4 DEF s, t
<1>2. <<a, b, c>> \o <<d>> = <<a, b, c, d>>
  <2> DEFINE s == <<a, b, c>>
             t == <<a, b, c, d>>
  <2>1. s \in Seq(M) /\ t \in Seq(M) /\ d \in M /\ Len(s) = 3 /\ Len(t) = 4
    OBVIOUS
  <2>2. t[4] = d /\ \A i \in 1 .. 3 : t[i] = s[i]
    OBVIOUS
  <2> HIDE DEF s, t, M
  <2>3. /\ Len(t) = Len(s) + 1 /\ t[Len(s) + 1] = d
        /\ \A i \in 1 .. Len(s) : t[i] = s[i]
    BY <2>1, <2>2
  <2>4. s \o <<d>> = t
    BY <2>1, <2>3, OneMore
  <2> QED BY <2>4 DEF s, t
<1>3. <<a, b, c, d>> \o <<e>> = <<a, b, c, d, e>>
  <2> DEFINE s == <<a, b, c, d>>
             t == <<a, b, c, d, e>>
  <2>1. s \in Seq(M) /\ t \in Seq(M) /\ e \in M /\ Len(s) = 4 /\ Len(t) = 5
    OBVIOUS
  <2>2. t[5] = e /\ \A i \in 1 .. 4 : t[i] = s[i]
    OBVIOUS
  <2> HIDE DEF s, t, M
  <2>3. /\ Len(t) = Len(s) + 1 /\ t[Len(s) + 1] = e
        /\ \A i \in 1 .. Len(s) : t[i] = s[i]
    BY <2>1, <2>2
  <2>4. s \o <<e>> = t
    BY <2>1, <2>3, OneMore
  <2> QED BY <2>4 DEF s, t
<1>4. <<a, b>> \in Seq(M) /\ <<a, b, c>> \in Seq(M)
  OBVIOUS
<1> HIDE DEF M
<1>5. <<a, b>> \o <<>> = <<a, b>> /\ <<a, b, c>> \o <<>> = <<a, b, c>>
  BY <1>4, ConcatEmptySeq
<1> QED BY <1>1, <1>2, <1>3, <1>5, Zenon

LEMMA SetupWritten ==
    ASSUME NEW e \in End, NEW w \in Windows, NEW created \in {<<>>, <<Created>>},
           NEW late \in Lates(w)
    PROVE  SetupOf(e, w, created, late) = Written(e, w, created, late)
<1> DEFINE a == WindowAckSize(w)
           b == SetPeerBandwidth(w, Dynamic)
           x == late[1]
<1>1. late = <<>> \/ late = <<x>>
  BY LateTyped
<1> HIDE DEF a, b, x
<1>2. \A l, c : /\ <<a, b>> \o <<>> \o <<>> \o <<l>> = <<a, b, l>>
                /\ <<a, b>> \o <<>> \o <<x>> \o <<l>> = <<a, b, x, l>>
                /\ <<a, b>> \o <<c>> \o <<>> \o <<l>> = <<a, b, c, l>>
                /\ <<a, b>> \o <<c>> \o <<x>> \o <<l>> = <<a, b, c, x, l>>
  <2> TAKE l, c
  <2>1. /\ <<a, b>> \o <<>> = <<a, b>> /\ <<a, b>> \o <<l>> = <<a, b, l>>
        /\ <<a, b>> \o <<x>> = <<a, b, x>> /\ <<a, b>> \o <<c>> = <<a, b, c>>
    BY Chains
  <2>2. /\ <<a, b, x>> \o <<l>> = <<a, b, x, l>> /\ <<a, b, c>> \o <<l>> = <<a, b, c, l>>
        /\ <<a, b, c>> \o <<x>> = <<a, b, c, x>> /\ <<a, b, c>> \o <<>> = <<a, b, c>>
    BY Chains
  <2>3. <<a, b, c, x>> \o <<l>> = <<a, b, c, x, l>>
    BY Chains
  <2> QED BY <2>1, <2>2, <2>3, Zenon
<1>3. <<Created>> # <<>> /\ <<x>> # <<>>
  OBVIOUS
<1>4. CASE e = "server" /\ created = <<>>
  BY <1>1, <1>2, <1>3, <1>4 DEF SetupOf, Written, a, b, x
<1>5. CASE e = "server" /\ created = <<Created>>
  BY <1>1, <1>2, <1>3, <1>5 DEF SetupOf, Written, a, b, x
<1>6. CASE e # "server"
  BY <1>6 DEF SetupOf, Written, a
<1> QED BY <1>4, <1>5, <1>6

\* The setup of an end is messages.
LEMMA SetupTyped ==
    ASSUME NEW e \in End, NEW w \in Windows, NEW created \in {<<>>, <<Created>>},
           NEW late \in Lates(w)
    PROVE  SetupOf(e, w, created, late) \in Seq(Message)
<1> DEFINE a == WindowAckSize(w)
           b == SetPeerBandwidth(w, Dynamic)
           x == late[1]
           c == Created
           l == LastOfSetup
<1>1. a \in Message /\ b \in Message
  BY AnnouncementsTyped DEF LimitTypes
<1>2. l \in Message /\ c \in Message
  BY DEF LastOfSetup, Created, Sized, Message, Announcements, LimitTypes, Hard
<1>3. late # <<>> => x \in Message
  BY LateTyped
<1>4. SetupOf(e, w, created, late) = Written(e, w, created, late)
  BY SetupWritten
<1>5. SetupOf(e, w, created, late)
        \in {<<l>>, <<a, l>>, <<a, b, l>>, <<a, b, c, l>>}
            \cup (IF late # <<>> THEN {<<a, b, x, l>>, <<a, b, c, x, l>>} ELSE {})
  BY <1>4 DEF Written
<1> HIDE DEF a, b, c, x, l
<1>6. /\ <<l>> \in Seq(Message) /\ <<a, l>> \in Seq(Message) /\ <<a, b, l>> \in Seq(Message)
      /\ <<a, b, c, l>> \in Seq(Message)
  BY <1>1, <1>2
<1>7. late # <<>> => <<a, b, x, l>> \in Seq(Message)
  BY <1>1, <1>2, <1>3
<1>8. late # <<>> => <<a, b, c, x, l>> \in Seq(Message)
  BY <1>1, <1>2, <1>3
<1> QED BY <1>5, <1>6, <1>7, <1>8, Zenon

\* What the choices of the initial state mean for each end: what it wrote in its setup, the
\* bytes of it and the window it announced last.
Chosen(first, created, late) ==
    \A e \in End :
       LET mine == IF e = "server" THEN late ELSE <<>> IN
       /\ mine \in Lates(first[e])
       /\ wire[Peer(e)] = SetupOf(e, first[e], created, mine)
       /\ sender[e].sent = Bytes(SetupOf(e, first[e], created, mine)) % CounterMod
       /\ sender[e].announced = LastOf(first[e], mine)

\* The initial choices.
LEMMA InitChoices ==
    ASSUME Init
    PROVE  \E first \in [End -> Windows], created \in {<<>>, <<Created>>} :
           \E late \in Lates(first["server"]) : Chosen(first, created, late)
<1>1. PICK first \in [End -> Windows], created \in {<<>>, <<Created>>} :
      \E late \in Lates(first["server"]) :
        /\ wire = [e \in End |-> SetupOf(Peer(e), first[Peer(e)], created, late)]
        /\ sender = [e \in End |->
              [sent |-> Bytes(SetupOf(e, first[e], created, late)) % CounterMod,
               unacked |-> IF e = "server" /\ late = <<>> THEN Len(created) + 1 ELSE 1,
               announced |-> IF e = "server" THEN LastOf(first[e], late) ELSE first[e]]]
  BY DEF Init
<1>2. PICK late \in Lates(first["server"]) :
        /\ wire = [e \in End |-> SetupOf(Peer(e), first[Peer(e)], created, late)]
        /\ sender = [e \in End |->
              [sent |-> Bytes(SetupOf(e, first[e], created, late)) % CounterMod,
               unacked |-> IF e = "server" /\ late = <<>> THEN Len(created) + 1 ELSE 1,
               announced |-> IF e = "server" THEN LastOf(first[e], late) ELSE first[e]]]
  BY <1>1
<1> SUFFICES ASSUME NEW e \in End
             PROVE  LET mine == IF e = "server" THEN late ELSE <<>> IN
                 /\ mine \in Lates(first[e])
                 /\ wire[Peer(e)] = SetupOf(e, first[e], created, mine)
                 /\ sender[e].sent = Bytes(SetupOf(e, first[e], created, mine)) % CounterMod
                 /\ sender[e].announced = LastOf(first[e], mine)
  BY DEF Chosen
<1>3. /\ wire[Peer(e)] = SetupOf(e, first[e], created, late)
      /\ sender[e].sent = Bytes(SetupOf(e, first[e], created, late)) % CounterMod
      /\ sender[e].announced = IF e = "server" THEN LastOf(first[e], late) ELSE first[e]
  BY <1>2, PeerDiffers
<1>4. CASE e = "server"
  BY <1>3, <1>4
<1>5. CASE e # "server"
  <2>1. SetupOf(e, first[e], created, late) = SetupOf(e, first[e], created, <<>>)
    BY <1>5 DEF SetupOf
  <2>2. <<>> \in Lates(first[e])
    BY DEF Lates
  <2>3. LastOf(first[e], <<>>) = first[e]
    BY DEF LastOf
  <2> QED BY <1>3, <1>5, <2>1, <2>2, <2>3
<1> QED BY <1>4, <1>5

\* The initial states are well typed.
LEMMA InitTyped == Init => TypeOK
<1> SUFFICES ASSUME Init PROVE TypeOK
  OBVIOUS
<1>1. 0 \in Windows /\ 0 \in Counter
  BY FlowConstants DEF Counter
<1>2. reader \in [End -> ReaderState] /\ limiter \in [End -> LimiterState]
  BY <1>1 DEF Init, ReaderState, LimiterState
<1>3. PICK first \in [End -> Windows], created \in {<<>>, <<Created>>} :
      \E late \in Lates(first["server"]) :
        /\ wire = [e \in End |-> SetupOf(Peer(e), first[Peer(e)], created, late)]
        /\ sender = [e \in End |->
              [sent |-> Bytes(SetupOf(e, first[e], created, late)) % CounterMod,
               unacked |-> IF e = "server" /\ late = <<>> THEN Len(created) + 1 ELSE 1,
               announced |-> IF e = "server" THEN LastOf(first[e], late) ELSE first[e]]]
  BY DEF Init
<1>4. PICK late \in Lates(first["server"]) :
        /\ wire = [e \in End |-> SetupOf(Peer(e), first[Peer(e)], created, late)]
        /\ sender = [e \in End |->
              [sent |-> Bytes(SetupOf(e, first[e], created, late)) % CounterMod,
               unacked |-> IF e = "server" /\ late = <<>> THEN Len(created) + 1 ELSE 1,
               announced |-> IF e = "server" THEN LastOf(first[e], late) ELSE first[e]]]
  BY <1>3
<1>5. ASSUME NEW e \in End
      PROVE  SetupOf(e, first[e], created, late) \in Seq(Message)
  <2>1. CASE e = "server"
    BY <2>1, SetupTyped
  <2>2. CASE e # "server"
    <3>1. SetupOf(e, first[e], created, late) = SetupOf(e, first[e], created, <<>>)
      BY <2>2 DEF SetupOf
    <3>2. <<>> \in Lates(first[e])
      BY DEF Lates
    <3> QED BY <3>1, <3>2, SetupTyped
  <2> QED BY <2>1, <2>2
<1>6. wire \in [End -> Seq(Message)]
  BY <1>4, <1>5, PeerDiffers
<1>7. sender \in [End -> SenderState]
  <2> SUFFICES ASSUME NEW e \in End
               PROVE  [sent |-> Bytes(SetupOf(e, first[e], created, late)) % CounterMod,
                       unacked |-> IF e = "server" /\ late = <<>> THEN Len(created) + 1 ELSE 1,
                       announced |-> IF e = "server" THEN LastOf(first[e], late) ELSE first[e]]
                      \in SenderState
    BY <1>4
  <2>1. Bytes(SetupOf(e, first[e], created, late)) % CounterMod \in Counter
    <3>1. Bytes(SetupOf(e, first[e], created, late)) \in Int
      BY <1>5, BytesTyped
    <3> QED BY <3>1, Wraps
  <2>2. LastOf(first["server"], late) \in Windows
    <3>1. late # <<>> /\ late[1].kind = "WindowAckSize" => late[1].val \in Windows
      <4>1. "server" \in End /\ first["server"] \in Windows
        BY DEF End
      <4>2. late # <<>> => late[1] \in Message
        BY <4>1, LateTyped
      <4> QED BY <4>2, MessageFields DEF Announcements
    <3> QED BY <3>1 DEF LastOf, End
  <2>3. Len(created) + 1 \in Nat
    OBVIOUS
  <2> QED BY <2>1, <2>2, <2>3 DEF SenderState
<1>8. left \in [media : Nat, controls : Nat]
  BY FlowConstants DEF Init
<1>9. /\ starting \subseteq End /\ live \subseteq End /\ other \subseteq End /\ missed \subseteq End
      /\ fresh \in [End -> Nat]
  BY DEF Init
<1> QED BY <1>2, <1>6, <1>7, <1>8, <1>9
        DEF TypeOK, Counter, ReaderState, LimiterState, SenderState

\* TypeOK in the terms used here.
LEMMA TypeParts ==
    TypeOK <=> /\ reader \in [End -> ReaderState]
               /\ limiter \in [End -> LimiterState]
               /\ starting \subseteq End /\ live \subseteq End
               /\ other \subseteq End /\ missed \subseteq End
               /\ wire \in [End -> Seq(Message)]
               /\ sender \in [End -> SenderState]
               /\ left \in [media : Nat, controls : Nat]
               /\ fresh \in [End -> Nat]
BY DEF TypeOK, Counter, ReaderState, LimiterState, SenderState

\* The message that is polled, and the reader that has read it.
LEMMA Polled ==
    ASSUME TypeOK, NEW e \in End, wire[e] # <<>>
    PROVE  /\ Head(wire[e]) \in Message /\ Head(wire[e]) = wire[e][1]
           /\ Tail(wire[e]) \in Seq(Message) /\ Len(Tail(wire[e])) = Len(wire[e]) - 1
           /\ \A i \in 1 .. Len(wire[e]) - 1 : Tail(wire[e])[i] = wire[e][i + 1]
           /\ Charged(reader[e], Head(wire[e])) \in ReaderState
           /\ Charged(reader[e], Head(wire[e])).window = reader[e].window
<1>1. wire[e] \in Seq(Message) /\ reader[e] \in ReaderState
  BY TypeParts
<1>2. Head(wire[e]) \in Message
  BY <1>1
<1>3. 0 \in Windows
  BY FlowConstants
<1>4. /\ Charged(reader[e], Head(wire[e])) \in ReaderState
      /\ Charged(reader[e], Head(wire[e])).window = reader[e].window
  BY <1>1, <1>2, <1>3, ReaderTyped
<1>5. /\ Tail(wire[e]) \in Seq(Message) /\ Len(Tail(wire[e])) = Len(wire[e]) - 1
      /\ \A i \in 1 .. Len(Tail(wire[e])) : Tail(wire[e])[i] = wire[e][i + 1]
  BY <1>1, HeadTailProperties
<1>6. Head(wire[e]) = wire[e][1]
  BY <1>1
<1> QED BY <1>2, <1>4, <1>5, <1>6

\* One action at a time keeps the types: a poll of a setup loop, ...
LEMMA PollInSetupTyped ==
    ASSUME TypeOK, NEW e \in End, wire[e] # <<>>,
           PollInSetup(e, Head(wire[e]), Charged(reader[e], Head(wire[e])))
    PROVE  TypeOK'
<1> DEFINE m == Head(wire[e])
           r == Charged(reader[e], m)
<1>1. m \in Message /\ r \in ReaderState /\ Tail(wire[e]) \in Seq(Message)
  BY Polled
<1> HIDE DEF m, r
<1>2. ReaderInSetup(e, r, m) \in ReaderState
  BY <1>1, ReaderTyped, MessageFields DEF ReaderInSetup
<1>3. m.size \in Nat
  BY <1>1, MessageFields
<1>4. /\ reader' \in [End -> ReaderState]
      /\ starting' \subseteq End /\ live' \subseteq End /\ missed' \subseteq End
  <2>1. reader' \in [End -> ReaderState]
    BY <1>2, TypeParts DEF PollInSetup, m, r
  <2>2. starting' \subseteq End /\ live' \subseteq End
    BY TypeParts DEF PollInSetup
  <2>3. missed' \subseteq End
    BY TypeParts DEF PollInSetup
  <2> QED BY <2>1, <2>2, <2>3
<1>5. wire' \in [End -> Seq(Message)]
  BY <1>1, TypeParts DEF PollInSetup
<1>6. fresh' \in [End -> Nat]
  <2>1. fresh \in [End -> Nat]
    BY TypeParts
  <2> QED BY <1>3, <2>1 DEF PollInSetup, m
<1>7. sender' \in [End -> SenderState]
  <2>1. sender[e] \in SenderState
    BY TypeParts
  <2>2. Acknowledged(sender[e], m) \in SenderState
    BY <1>1, <2>1, AcknowledgedTyped
  <2> QED BY <2>2, TypeParts DEF PollInSetup, m
<1>8. UNCHANGED <<limiter, other, left>>
  BY DEF PollInSetup
<1> QED BY <1>4, <1>5, <1>6, <1>7, <1>8, TypeParts
        DEF TypeOK, Counter, ReaderState, LimiterState, SenderState

\* The wires after a poll of a session.
LEMMA PollLiveWires ==
    ASSUME TypeOK, NEW e \in End, wire[e] # <<>>, NEW r \in ReaderState,
           PollLive(e, Head(wire[e]), r)
    PROVE  /\ wire' \in [End -> Seq(Message)]
           /\ wire'[e] = Tail(wire[e])
           /\ wire'[Peer(e)] = wire[Peer(e)] \o Out(e, Head(wire[e]), r)
<1> DEFINE m == Head(wire[e])
           a == AckFor(r)
           b == Answer(m, Changed(e, m))
           w == wire[Peer(e)]
<1>1. m \in Message /\ Tail(wire[e]) \in Seq(Message)
  BY Polled
<1>2. a \in Seq(Message) /\ b \in Seq(Message) /\ Out(e, m, r) = a \o b
  BY <1>1, OutTyped DEF Out
<1>3. w \in Seq(Message)
  BY TypeParts, PeerDiffers
<1>4. wire' = [wire EXCEPT ![e] = Tail(@), ![Peer(e)] = @ \o a \o b]
  BY <1>1, PollLiveParts
<1> HIDE DEF a, b, m, w
<1>5. (w \o a) \o b = w \o (a \o b)
  BY <1>2, <1>3, ConcatAssociative
<1> DEFINE x == Tail(wire[e])
           y == w \o a \o b
<1>6. x \in Seq(Message) /\ y \in Seq(Message)
  BY <1>1, <1>2, <1>3
<1>7. wire' = [wire EXCEPT ![e] = x, ![Peer(e)] = y]
  BY <1>4, PeerDiffers DEF w
<1> HIDE DEF x, y
<1>8. wire' \in [End -> Seq(Message)] /\ wire'[e] = x /\ wire'[Peer(e)] = y
  BY <1>6, <1>7, PeerDiffers, TypeParts
<1> QED BY <1>2, <1>5, <1>8 DEF w, x, y, m

\* ... a poll of a session, ...
LEMMA PollLiveTyped ==
    ASSUME TypeOK, NEW e \in End, wire[e] # <<>>,
           PollLive(e, Head(wire[e]), Charged(reader[e], Head(wire[e])))
    PROVE  TypeOK'
<1> DEFINE m == Head(wire[e])
           r == Charged(reader[e], m)
<1>1. m \in Message /\ r \in ReaderState
  BY Polled
<1>2. /\ UNCHANGED <<starting, live, other, left>> /\ missed' \subseteq End
      /\ reader' = [reader EXCEPT ![e] = IF Adopts(e, m) THEN WithWindow(AckedOr(r), m.val)
                                         ELSE AckedOr(r)]
      /\ limiter' = [limiter EXCEPT ![e] = LimiterAfter(e, m)]
      /\ sender' = [sender EXCEPT ![e] = Acknowledged(Sends(e, Out(e, m, r)), m)]
      /\ fresh' = [fresh EXCEPT ![e] = IF Adopts(e, m) \/ AckFor(r) # <<>> THEN 0
                                       ELSE @ + m.size]
  BY <1>1, PollLiveParts, TypeParts
<1>3. wire' \in [End -> Seq(Message)]
  BY <1>1, PollLiveWires
<1> HIDE DEF m, r
<1>4. Adopts(e, m) => m.val \in Windows
  BY <1>1, MessageFields DEF Adopts, Changed, LimiterAfter, Announcements
<1>5. AckedOr(r) \in ReaderState
  <2>1. 0 \in Windows
    BY FlowConstants
  <2> QED BY <1>1, <2>1, ReaderTyped DEF AckedOr
<1>6. Adopts(e, m) => WithWindow(AckedOr(r), m.val) \in ReaderState
  BY <1>1, <1>4, <1>5, ReaderTyped
<1>7. reader' \in [End -> ReaderState]
  BY <1>2, <1>5, <1>6, TypeParts
<1>8. LimiterAfter(e, m) \in LimiterState
  <2>1. limiter[e] \in LimiterState
    BY TypeParts
  <2>2. m.kind = "SetPeerBandwidth" => m.val \in Windows /\ m.limit \in LimitTypes
    BY <1>1, MessageFields DEF Announcements
  <2> QED BY <2>1, <2>2, LimiterTyped DEF LimiterAfter
<1>9. limiter' \in [End -> LimiterState]
  BY <1>2, <1>8, TypeParts
<1>10. Acknowledged(Sends(e, Out(e, m, r)), m) \in SenderState
  <2>1. Out(e, m, r) \in Seq(Message)
    BY <1>1, OutTyped
  <2>2. Sends(e, Out(e, m, r)) \in SenderState
    BY <2>1, SenderTyped
  <2> QED BY <1>1, <2>2, AcknowledgedTyped
<1>11. sender' \in [End -> SenderState]
  BY <1>2, <1>10, TypeParts
<1>12. fresh' \in [End -> Nat]
  BY <1>1, <1>2, MessageFields, TypeParts
<1> QED BY <1>2, <1>3, <1>7, <1>9, <1>11, <1>12, TypeParts
        DEF TypeOK, Counter, ReaderState, LimiterState, SenderState

\* ... and a message written.
LEMMA WriteTyped ==
    ASSUME TypeOK, NEW e \in End, NEW m \in Message, Write(e, m)
    PROVE  /\ wire' \in [End -> Seq(Message)] /\ sender' \in [End -> SenderState]
           /\ wire'[e] = wire[e] /\ wire'[Peer(e)] = Append(wire[Peer(e)], m)
           /\ sender'[e].announced = AnnouncedBy(<<m>>, sender[e].announced)
           /\ sender'[Peer(e)] = sender[Peer(e)]
<1>1. <<m>> \in Seq(Message)
  OBVIOUS
<1>2. Sends(e, <<m>>) \in SenderState
      /\ Sends(e, <<m>>).announced = AnnouncedBy(<<m>>, sender[e].announced)
  BY <1>1, SenderTyped
<1>3. sender' = [sender EXCEPT ![e] = Sends(e, <<m>>)]
  BY DEF Write
<1>4. wire' = [wire EXCEPT ![Peer(e)] = Append(wire[Peer(e)], m)]
  BY DEF Write
<1>5. Append(wire[Peer(e)], m) \in Seq(Message)
  BY TypeParts, PeerDiffers
<1> QED BY <1>2, <1>3, <1>4, <1>5, TypeParts, PeerDiffers

\* Every step keeps the types.
LEMMA StepTyped == TypeOK /\ Next => TypeOK'
<1> SUFFICES ASSUME TypeOK, Next PROVE TypeOK'
  OBVIOUS
<1>1. ASSUME NEW e \in End, Poll(e) PROVE TypeOK'
  BY <1>1, PollInSetupTyped, PollLiveTyped DEF Poll
<1>2. ASSUME NEW e \in End, NEW m \in Message, Write(e, m),
             left' \in [media : Nat, controls : Nat]
      PROVE  TypeOK'
  BY <1>2, WriteTyped, TypeParts DEF Write, TypeOK, Counter, ReaderState, LimiterState, SenderState
<1>3. ASSUME NEW e \in End, NEW s \in AppSizes, SendMedia(e, s) PROVE TypeOK'
  <2>1. Media(s) \in Message
    BY MediaTyped
  <2>2. left' \in [media : Nat, controls : Nat]
    BY <1>3, TypeParts DEF SendMedia
  <2> QED BY <1>2, <1>3, <2>1, <2>2 DEF SendMedia
<1>4. ASSUME NEW e \in End, NEW m \in Message, SendControl(e, m) PROVE TypeOK'
  <2>1. left' \in [media : Nat, controls : Nat]
    BY <1>4, TypeParts DEF SendControl
  <2> QED BY <1>2, <1>4, <2>1 DEF SendControl
<1>5. ASSUME NEW e \in End, NEW w \in Windows, SendControl(e, WindowAckSize(w)) PROVE TypeOK'
  <2>1. WindowAckSize(w) \in Message
    BY AnnouncementsTyped DEF LimitTypes
  <2> QED BY <1>4, <1>5, <2>1
<1>6. ASSUME NEW e \in End, NEW w \in Windows, NEW t \in LimitTypes, SendLimit(e, w, t)
      PROVE  TypeOK'
  BY <1>4, <1>6, AnnouncementsTyped DEF SendLimit
<1> QED BY <1>1, <1>3, <1>5, <1>6 DEF Next

\* Counters stay in range, windows and limits are among those announced, and what is on
\* its way are the messages of the protocol.
THEOREM TypeCorrect == Spec => []TypeOK
<1>1. TypeOK /\ UNCHANGED vars => TypeOK'
  BY DEF TypeOK, vars
<1> QED BY <1>1, InitTyped, StepTyped, PTL DEF Spec

-----------------------------------------------------------------------------
(* Acknowledgements in time. *)

\* What is on its way to an end in setup, behind n bytes that are fresh, begins with the
\* peer's setup.  The first i messages, windows and limits, are adopted for certain; up to
\* three come behind them, the last of the setup among them, and may count.
SetupAhead(ms, n, drops) ==
    \E k \in 1 .. Len(ms) : \E i \in 0 .. k - 1 :
        /\ ms[k].kind = "LastOfSetup"
        /\ \A j \in 1 .. k : ms[j].size = 1
        /\ \A j \in 1 .. k - 1 : ms[j].kind \in Announcements \cup {"Created"}
        /\ \A j \in 1 .. i : ms[j].kind \in Announcements
        /\ i > 0 => n = 0 /\ ~drops
        /\ n + (k - i) <= 3

SetupFirst == \A e \in End \ live : SetupAhead(wire[e], fresh[e], e \in starting)

\* With a window, the reader's two counters are as far apart as bytes are fresh.
Counting == \A e \in End : reader[e].window # 0 => fresh[e] = Since(reader[e])

IInv == TypeOK /\ SetupFirst /\ Counting /\ AckedInTime

\* More behind it does not change where the setup is.
LEMMA AheadAppended ==
    ASSUME NEW ms \in Seq(Message), NEW more \in Seq(Message), NEW n, NEW drops,
           SetupAhead(ms, n, drops)
    PROVE  SetupAhead(ms \o more, n, drops)
<1>1a. PICK k \in 1 .. Len(ms) : \E i \in 0 .. k - 1 :
        /\ ms[k].kind = "LastOfSetup"
        /\ \A j \in 1 .. k : ms[j].size = 1
        /\ \A j \in 1 .. k - 1 : ms[j].kind \in Announcements \cup {"Created"}
        /\ \A j \in 1 .. i : ms[j].kind \in Announcements
        /\ i > 0 => n = 0 /\ ~drops
        /\ n + (k - i) <= 3
  BY DEF SetupAhead
<1>1. PICK i \in 0 .. k - 1 :
        /\ ms[k].kind = "LastOfSetup"
        /\ \A j \in 1 .. k : ms[j].size = 1
        /\ \A j \in 1 .. k - 1 : ms[j].kind \in Announcements \cup {"Created"}
        /\ \A j \in 1 .. i : ms[j].kind \in Announcements
        /\ i > 0 => n = 0 /\ ~drops
        /\ n + (k - i) <= 3
  BY <1>1a
<1> DEFINE all == ms \o more
<1>2. /\ Len(all) = Len(ms) + Len(more) /\ Len(ms) \in Nat /\ Len(more) \in Nat
      /\ \A j \in 1 .. Len(ms) : all[j] = ms[j]
  BY ConcatProperties
<1> HIDE DEF all
<1>3. k \in 1 .. Len(all) /\ \A j \in 1 .. k : all[j] = ms[j]
  BY <1>1, <1>2
<1>4. /\ all[k].kind = "LastOfSetup"
      /\ \A j \in 1 .. k : all[j].size = 1
      /\ \A j \in 1 .. k - 1 : all[j].kind \in Announcements \cup {"Created"}
      /\ \A j \in 1 .. i : all[j].kind \in Announcements
  BY <1>1, <1>3
<1>5. SetupAhead(all, n, drops)
  BY <1>1, <1>3, <1>4 DEF SetupAhead
<1> QED BY <1>5 DEF all

\* An end in setup reads its last message, or one behind which the setup goes on: a window or
\* a limit that is adopted, or one that counts unless it is adopted.
LEMMA SetupRead ==
    ASSUME TypeOK, NEW e \in End, wire[e] # <<>>, NEW n \in Nat, NEW drops,
           SetupAhead(wire[e], n, drops)
    PROVE  /\ Head(wire[e]).size = 1 /\ n <= 2
           /\ \/ Head(wire[e]).kind = "LastOfSetup"
              \/ /\ Head(wire[e]).kind \in Announcements /\ ~drops
                 /\ \A d : ~d => SetupAhead(Tail(wire[e]), 0, d)
              \/ /\ Head(wire[e]).kind \in Announcements \cup {"Created"}
                 /\ \A v \in {0, n + 1} : \A d : SetupAhead(Tail(wire[e]), v, d)
<1> DEFINE ms == wire[e]
           rest == Tail(ms)
<1>1. /\ Head(ms) = ms[1] /\ Len(rest) = Len(ms) - 1 /\ rest \in Seq(Message)
      /\ \A i \in 1 .. Len(ms) - 1 : rest[i] = ms[i + 1]
  BY Polled
<1>2. Len(ms) \in Nat
  BY TypeParts
<1>3a. PICK k \in 1 .. Len(ms) : \E i \in 0 .. k - 1 :
        /\ ms[k].kind = "LastOfSetup"
        /\ \A j \in 1 .. k : ms[j].size = 1
        /\ \A j \in 1 .. k - 1 : ms[j].kind \in Announcements \cup {"Created"}
        /\ \A j \in 1 .. i : ms[j].kind \in Announcements
        /\ i > 0 => n = 0 /\ ~drops
        /\ n + (k - i) <= 3
  BY DEF SetupAhead
<1>3. PICK i \in 0 .. k - 1 :
        /\ ms[k].kind = "LastOfSetup"
        /\ \A j \in 1 .. k : ms[j].size = 1
        /\ \A j \in 1 .. k - 1 : ms[j].kind \in Announcements \cup {"Created"}
        /\ \A j \in 1 .. i : ms[j].kind \in Announcements
        /\ i > 0 => n = 0 /\ ~drops
        /\ n + (k - i) <= 3
  BY <1>3a
<1> HIDE DEF ms, rest
<1>4. Head(ms).size = 1 /\ n <= 2
  BY <1>1, <1>2, <1>3
<1>5. CASE k = 1
  BY <1>1, <1>3, <1>4, <1>5 DEF ms
<1>6. CASE k # 1
  <2>1. /\ k - 1 \in 1 .. Len(rest) /\ rest[k - 1] = ms[k]
        /\ \A j \in 1 .. k - 1 : rest[j] = ms[j + 1] /\ j + 1 \in 1 .. k
    BY <1>1, <1>2, <1>3, <1>6
  <2>2. /\ rest[k - 1].kind = "LastOfSetup"
        /\ \A j \in 1 .. k - 1 : rest[j].size = 1
        /\ \A j \in 1 .. (k - 1) - 1 : rest[j].kind \in Announcements \cup {"Created"}
    <3>1. \A j \in 1 .. k - 1 : rest[j].size = 1
      BY <1>3, <2>1
    <3>2. \A j \in 1 .. (k - 1) - 1 : rest[j] = ms[j + 1] /\ j + 1 \in 1 .. k - 1
      BY <1>3, <2>1
    <3> QED BY <1>3, <2>1, <3>1, <3>2
  <2>3. ms[1].kind \in Announcements \cup {"Created"}
    BY <1>2, <1>3, <1>6
  <2>4. CASE i = 0
    <3>1. 0 \in 0 .. (k - 1) - 1
      BY <1>3, <1>6
    <3>2. \A v \in {0, n + 1} : v + ((k - 1) - 0) <= 3
      BY <1>3, <2>4
    <3>3. \A v \in {0, n + 1} : \A d : SetupAhead(rest, v, d)
      <4> TAKE v \in {0, n + 1}
      <4> TAKE d
      <4>1. \A j \in 1 .. 0 : rest[j].kind \in Announcements
        OBVIOUS
      <4> DEFINE q == k - 1
      <4>2. q \in 1 .. Len(rest) /\ 0 \in 0 .. q - 1 /\ v + (q - 0) <= 3
        BY <2>1, <3>1, <3>2
      <4>3. /\ rest[q].kind = "LastOfSetup" /\ \A j \in 1 .. q : rest[j].size = 1
            /\ \A j \in 1 .. q - 1 : rest[j].kind \in Announcements \cup {"Created"}
        BY <2>2
      <4> HIDE DEF q
      <4> QED BY <4>1, <4>2, <4>3 DEF SetupAhead
    <3> QED BY <1>1, <1>4, <2>3, <3>3 DEF ms, rest
  <2>5. CASE i > 0
    <3>1. i - 1 \in 0 .. (k - 1) - 1 /\ 0 + ((k - 1) - (i - 1)) <= 3
      BY <1>3, <2>5
    <3>2. \A j \in 1 .. i - 1 : rest[j].kind \in Announcements
      <4>1. \A j \in 1 .. i - 1 : j \in 1 .. k - 1 /\ j + 1 \in 1 .. i
        BY <1>3
      <4> QED BY <1>3, <2>1, <4>1
    <3>3. \A d : ~d => SetupAhead(rest, 0, d)
      <4> DEFINE q == k - 1
                 h == i - 1
      <4>1. q \in 1 .. Len(rest) /\ h \in 0 .. q - 1 /\ 0 + (q - h) <= 3
        BY <2>1, <3>1
      <4>2. /\ rest[q].kind = "LastOfSetup" /\ \A j \in 1 .. q : rest[j].size = 1
            /\ \A j \in 1 .. q - 1 : rest[j].kind \in Announcements \cup {"Created"}
            /\ \A j \in 1 .. h : rest[j].kind \in Announcements
        BY <2>2, <3>2
      <4> HIDE DEF q, h
      <4> QED BY <4>1, <4>2 DEF SetupAhead
    <3>4. ms[1].kind \in Announcements /\ ~drops
      BY <1>3, <2>5
    <3> QED BY <1>1, <1>4, <3>3, <3>4 DEF ms, rest
  <2> QED BY <1>3, <2>4, <2>5
<1> QED BY <1>5, <1>6

\* A session that has a window: the bytes it has read since are fresh and count.
LEMMA WindowCounts ==
    ASSUME IInv, NEW e \in live, NEW m \in Message, reader[e].window # 0
    PROVE  /\ Since(Charged(reader[e], m)) = fresh[e] + m.size
           /\ fresh[e] < reader[e].window
<1>1. e \in End /\ reader[e] \in ReaderState /\ fresh[e] \in Nat
  BY TypeParts DEF IInv
<1>2. fresh[e] = Since(reader[e]) /\ fresh[e] < reader[e].window
  BY <1>1 DEF IInv, Counting, AckedInTime
<1>3. reader[e].window \in Windows /\ reader[e].window \in Nat
  BY <1>1, FlowConstants DEF ReaderState
<1>4. m.size \in AppSizes \cup {1} /\ m.size \in Nat /\ CounterMod \in Nat
  BY MessageFields, FlowConstants
<1>5. reader[e].window + m.size <= CounterMod
  BY <1>3, <1>4, FlowConstants, Zenon
<1>6. Since(reader[e]) + m.size < CounterMod
  BY <1>1, <1>2, <1>3, <1>4, <1>5
<1> QED BY <1>1, <1>2, <1>6, SinceGrows

\* A step of a poll touches the counters of one end only.
LEMMA OthersKept ==
    ASSUME IInv, NEW e \in End,
           \A d \in End \ {e} : reader'[d] = reader[d] /\ fresh'[d] = fresh[d],
           live' \cup {e} = live \cup {e},
           \A d \in End \ {e} : (d \in starting' <=> d \in starting)
              /\ \A n, b : SetupAhead(wire[d], n, b) => SetupAhead(wire'[d], n, b),
           e \in live' \/ SetupAhead(wire'[e], fresh'[e], e \in starting'),
           reader'[e].window # 0 => fresh'[e] = Since(reader'[e]),
           e \in live' /\ reader'[e].window # 0 => fresh'[e] < reader'[e].window
    PROVE  SetupFirst' /\ Counting' /\ AckedInTime'
<1>1. SetupFirst'
  <2> SUFFICES ASSUME NEW d \in End \ live'
               PROVE  SetupAhead(wire'[d], fresh'[d], d \in starting')
    BY DEF SetupFirst
  <2>1. CASE d = e
    BY <2>1
  <2>2. CASE d # e
    <3>1. SetupAhead(wire[d], fresh[d], d \in starting)
      BY <2>2 DEF IInv, SetupFirst
    <3>2. (d \in starting') = (d \in starting) /\ fresh'[d] = fresh[d]
      BY <2>2
    <3>3. SetupAhead(wire'[d], fresh[d], d \in starting)
      BY <2>2, <3>1
    <3> QED BY <3>2, <3>3
  <2> QED BY <2>1, <2>2
<1>2. Counting'
  BY DEF IInv, Counting, Since
<1>3. AckedInTime'
  <2> SUFFICES ASSUME NEW d \in live', reader'[d].window # 0
               PROVE  fresh'[d] < reader'[d].window
    BY DEF AckedInTime
  <2>1. CASE d = e
    BY <2>1
  <2>2. CASE d # e
    <3>1. d \in live
      BY <2>2
    <3>2. d \in End
      BY <3>1, TypeParts DEF IInv
    <3> QED BY <2>2, <3>1, <3>2 DEF IInv, AckedInTime
  <2> QED BY <2>1, <2>2
<1> QED BY <1>1, <1>2, <1>3

\* The invariant is kept by a poll of a setup loop: counting starts with the window, ...
LEMMA SetupPollCounts ==
    ASSUME IInv, NEW e \in End, wire[e] # <<>>,
           PollInSetup(e, Head(wire[e]), Charged(reader[e], Head(wire[e])))
    PROVE  SetupFirst' /\ Counting' /\ AckedInTime'
<1> DEFINE m == Head(wire[e])
           r == Charged(reader[e], m)
<1>1. TypeOK /\ m \in Message /\ r \in ReaderState /\ r.window = reader[e].window
  BY Polled DEF IInv
<1>2. e \notin live /\ SetupAhead(wire[e], fresh[e], e \in starting) /\ fresh[e] \in Nat
  BY TypeParts DEF IInv, PollInSetup, SetupFirst
<1> DEFINE drops == e \in starting
           adopts == m.kind \in Announcements /\ ~drops
<1>3. /\ reader' = [reader EXCEPT ![e] = ReaderInSetup(e, r, m)]
      /\ starting' = IF m.kind = "Created" THEN starting \cup {e} ELSE starting
      /\ live' = IF m.kind = "LastOfSetup" THEN live \cup {e} ELSE live
      /\ wire' = [wire EXCEPT ![e] = Tail(@)]
      /\ fresh' = [fresh EXCEPT ![e] = IF adopts THEN 0 ELSE @ + m.size]
  BY DEF PollInSetup, Drops
<1>4. m.size = 1 /\ fresh[e] <= 2
  BY <1>1, <1>2, SetupRead
<1>5. \/ m.kind = "LastOfSetup"
      \/ m.kind \in Announcements /\ ~drops /\ \A d : ~d => SetupAhead(Tail(wire[e]), 0, d)
      \/ /\ m.kind \in Announcements \cup {"Created"}
         /\ \A v \in {0, fresh[e] + 1} : \A d : SetupAhead(Tail(wire[e]), v, d)
  BY <1>1, <1>2, SetupRead
<1>6. /\ reader'[e] = (IF adopts THEN WithWindow(r, m.val) ELSE r) /\ wire'[e] = Tail(wire[e])
      /\ fresh'[e] = (IF adopts THEN 0 ELSE fresh[e] + 1)
      /\ \A d \in End \ {e} : /\ reader'[d] = reader[d] /\ fresh'[d] = fresh[d]
                             /\ wire'[d] = wire[d] /\ (d \in starting' <=> d \in starting)
  BY <1>1, <1>3, <1>4, TypeParts DEF ReaderInSetup, Drops
<1> HIDE DEF m, r
<1>7. reader'[e].window # 0 => fresh'[e] = Since(reader'[e])
  <2>1. CASE adopts
    <3>1. m.val \in Windows
      BY <1>1, <2>1, MessageFields
    <3>2. Since(WithWindow(r, m.val)) = 0
      BY <1>1, <3>1, ReaderTyped
    <3>3. Since(reader'[e]) = 0
      BY <1>6, <2>1, <3>2, Zenon
    <3> QED BY <1>6, <2>1, <3>3
  <2>2. CASE ~adopts
    <3> SUFFICES ASSUME reader[e].window # 0 PROVE Since(r) = fresh[e] + 1
      BY <1>1, <1>6, <2>2
    <3>1. Since(reader[e]) = fresh[e]
      BY <1>2 DEF IInv, Counting
    <3>2. reader[e] \in ReaderState
      BY <1>1, TypeParts
    <3>3. reader[e].window \in Windows
      BY <3>2 DEF ReaderState
    <3>4. reader[e].window \in Nat /\ reader[e].window \notin 1 .. 3
          /\ reader[e].window + 1 <= CounterMod /\ CounterMod \in Nat
      BY <3>3, FlowConstants
    <3>5. Since(reader[e]) + m.size < CounterMod
      BY <1>2, <1>4, <3>1, <3>4
    <3> QED BY <1>1, <1>4, <3>1, <3>2, <3>5, SinceGrows DEF r
  <2> QED BY <2>1, <2>2
<1>8. CASE m.kind = "LastOfSetup"
  <2>1. ~adopts /\ e \in live' /\ live' = live \cup {e}
    BY <1>3, <1>8 DEF Announcements
  <2>2. fresh'[e] <= 3 /\ reader'[e].window = reader[e].window
    BY <1>1, <1>2, <1>4, <1>6, <2>1
  <2>3. reader[e].window \in Windows
    BY <1>1, TypeParts DEF ReaderState
  <2>4. reader[e].window \in Nat /\ reader[e].window \notin 1 .. 3
    BY <2>3, FlowConstants
  <2>5. fresh'[e] \in Nat
    BY <1>2, <1>6, <2>1
  <2>6. reader'[e].window # 0 => fresh'[e] < reader'[e].window
    BY <2>2, <2>4, <2>5
  <2> QED BY <1>6, <1>7, <2>1, <2>6, OthersKept
<1>9. CASE m.kind # "LastOfSetup"
  <2>1. live' = live /\ e \notin live'
    BY <1>2, <1>3, <1>9
  <2>2. SetupAhead(Tail(wire[e]), fresh'[e], e \in starting')
    <3>1. CASE /\ m.kind \in Announcements /\ ~drops
               /\ \A d : ~d => SetupAhead(Tail(wire[e]), 0, d)
      <4>1. fresh'[e] = 0 /\ ~(e \in starting')
        BY <1>3, <1>6, <3>1 DEF Announcements
      <4> QED BY <3>1, <4>1
    <3>2. CASE \A v \in {0, fresh[e] + 1} : \A d : SetupAhead(Tail(wire[e]), v, d)
      <4>1. fresh'[e] \in {0, fresh[e] + 1}
        BY <1>6
      <4> QED BY <3>2, <4>1
    <3> QED BY <1>5, <1>9, <3>1, <3>2
  <2>3. SetupAhead(wire'[e], fresh'[e], e \in starting')
    BY <1>6, <2>2
  <2> QED BY <1>6, <1>7, <2>1, <2>3, OthersKept
<1> QED BY <1>8, <1>9

\* ... by a poll of a session, which acknowledges as soon as the window is full, ...
LEMMA LivePollCounts ==
    ASSUME IInv, NEW e \in End, wire[e] # <<>>,
           PollLive(e, Head(wire[e]), Charged(reader[e], Head(wire[e])))
    PROVE  SetupFirst' /\ Counting' /\ AckedInTime'
<1> DEFINE m == Head(wire[e])
           r == Charged(reader[e], m)
<1>1. TypeOK /\ m \in Message /\ r \in ReaderState /\ r.window = reader[e].window
  BY Polled DEF IInv
<1>2. /\ e \in live /\ live' = live /\ starting' = starting
      /\ reader' = [reader EXCEPT ![e] = IF Adopts(e, m) THEN WithWindow(AckedOr(r), m.val)
                                         ELSE AckedOr(r)]
      /\ fresh' = [fresh EXCEPT ![e] = IF Adopts(e, m) \/ AckFor(r) # <<>> THEN 0
                                       ELSE @ + m.size]
  BY <1>1, PollLiveParts
<1>3. /\ reader'[e] = IF Adopts(e, m) THEN WithWindow(AckedOr(r), m.val) ELSE AckedOr(r)
      /\ fresh'[e] = IF Adopts(e, m) \/ AckDue(r) THEN 0 ELSE fresh[e] + m.size
      /\ \A d \in End \ {e} : reader'[d] = reader[d] /\ fresh'[d] = fresh[d]
  BY <1>1, <1>2, OutTyped, TypeParts
<1>4. \A d \in End \ {e} : \A n, b : SetupAhead(wire[d], n, b) => SetupAhead(wire'[d], n, b)
  <2>1. wire'[Peer(e)] = wire[Peer(e)] \o Out(e, m, r)
    BY <1>1, PollLiveWires
  <2>2. Out(e, m, r) \in Seq(Message) /\ wire[Peer(e)] \in Seq(Message)
    BY <1>1, OutTyped, PeerDiffers, TypeParts
  <2>3. ASSUME NEW n, NEW b, SetupAhead(wire[Peer(e)], n, b)
        PROVE  SetupAhead(wire'[Peer(e)], n, b)
    BY <2>1, <2>2, <2>3, AheadAppended
  <2> QED BY <2>3, PeerDiffers
<1> HIDE DEF m, r
<1>5. AckedOr(r) \in ReaderState /\ AckedOr(r).window = reader[e].window
      /\ (AckDue(r) => Since(AckedOr(r)) = 0)
  <2>1. 0 \in Windows
    BY FlowConstants
  <2> QED BY <1>1, <2>1, ReaderTyped DEF AckedOr
<1>6. /\ reader'[e].window # 0 => fresh'[e] = Since(reader'[e])
      /\ reader'[e].window # 0 => fresh'[e] < reader'[e].window
  <2>1. CASE Adopts(e, m)
    <3>1. m.val \in Windows
      BY <1>1, <2>1, MessageFields DEF Adopts, Changed, LimiterAfter, Announcements
    <3>2. Since(WithWindow(AckedOr(r), m.val)) = 0 /\ WithWindow(AckedOr(r), m.val).window = m.val
      BY <1>1, <1>5, <3>1, ReaderTyped
    <3>3. /\ fresh'[e] = 0 /\ reader'[e] = WithWindow(AckedOr(r), m.val)
      BY <1>3, <2>1
    <3>4. Since(reader'[e]) = 0 /\ reader'[e].window = m.val
      BY <3>2, <3>3, Zenon
    <3>5. m.val \in Nat
      BY <1>1, MessageFields
    <3> QED BY <3>3, <3>4, <3>5
  <2>2. CASE ~Adopts(e, m) /\ AckDue(r)
    <3>1. /\ fresh'[e] = 0 /\ Since(reader'[e]) = 0 /\ reader'[e].window = reader[e].window
      BY <1>3, <1>5, <2>2
    <3>2. reader[e].window \in Nat
      BY <1>1, TypeParts, FlowConstants DEF ReaderState
    <3> QED BY <3>1, <3>2
  <2>3. CASE ~Adopts(e, m) /\ ~AckDue(r)
    <3>1. reader'[e] = r /\ fresh'[e] = fresh[e] + m.size /\ reader'[e].window = reader[e].window
      BY <1>1, <1>3, <2>3 DEF AckedOr
    <3>2. reader[e].window # 0 => Since(r) = fresh[e] + m.size
      BY <1>1, <1>2, WindowCounts DEF r
    <3>3. r.window # 0 => ~(Since(r) >= r.window)
      BY <2>3 DEF AckDue
    <3>4. reader[e].window \in Nat /\ fresh[e] \in Nat /\ m.size \in Nat
      BY <1>1, TypeParts, FlowConstants, MessageFields DEF ReaderState
    <3> QED BY <1>1, <3>1, <3>2, <3>3, <3>4
  <2> QED BY <2>1, <2>2, <2>3
<1> QED BY <1>2, <1>3, <1>4, <1>6, OthersKept

\* ... and by a message written, which is counted by nobody yet.
LEMMA WriteCounts ==
    ASSUME IInv, NEW e \in End, NEW m \in Message, Write(e, m)
    PROVE  SetupFirst' /\ Counting' /\ AckedInTime'
<1>1. /\ wire'[e] = wire[e] /\ wire'[Peer(e)] = Append(wire[Peer(e)], m)
      /\ UNCHANGED <<reader, starting, live, fresh>>
  BY WriteTyped DEF IInv, Write
<1>2. wire[Peer(e)] \in Seq(Message) /\ <<m>> \in Seq(Message)
      /\ Append(wire[Peer(e)], m) = wire[Peer(e)] \o <<m>>
  <2>1. wire[Peer(e)] \in Seq(Message)
    BY TypeParts, PeerDiffers DEF IInv
  <2> QED BY <2>1, AppendIsConcat
<1>3. ASSUME NEW n, NEW b, SetupAhead(wire[Peer(e)], n, b)
      PROVE  SetupAhead(wire'[Peer(e)], n, b)
  BY <1>1, <1>2, <1>3, AheadAppended
<1>4. SetupFirst'
  <2> SUFFICES ASSUME NEW d \in End \ live
               PROVE  SetupAhead(wire'[d], fresh[d], d \in starting)
    BY <1>1 DEF SetupFirst
  <2>1. SetupAhead(wire[d], fresh[d], d \in starting)
    BY DEF IInv, SetupFirst
  <2> QED BY <1>1, <1>3, <2>1, PeerDiffers
<1> QED BY <1>1, <1>4 DEF IInv, Counting, AckedInTime, Since

\* The invariant holds initially, with the whole setup on its way.
LEMMA InitCounts == Init => IInv
<1> SUFFICES ASSUME Init PROVE IInv
  OBVIOUS
<1>1. TypeOK
  BY InitTyped
<1>2. live = {} /\ (\A e \in End : fresh[e] = 0 /\ reader[e].window = 0)
  BY DEF Init
<1>3. ASSUME NEW e \in End, NEW w \in Windows, NEW created \in {<<>>, <<Created>>},
             NEW late \in Lates(w)
      PROVE  SetupAhead(SetupOf(e, w, created, late), 0, FALSE)
  <2> DEFINE a == WindowAckSize(w)
             b == SetPeerBandwidth(w, Dynamic)
             x == late[1]
             c == Created
             l == LastOfSetup
  <2>1. /\ l.kind = "LastOfSetup" /\ c.kind = "Created" /\ l.size = 1 /\ c.size = 1
        /\ a.kind \in Announcements /\ b.kind \in Announcements /\ a.size = 1 /\ b.size = 1
    BY DEF WindowAckSize, SetPeerBandwidth, LastOfSetup, Created, Sized, Announcements
  <2>2. late # <<>> => x.kind \in Announcements /\ x.size = 1
    BY LateTyped DEF Announcements
  <2>3. SetupOf(e, w, created, late)
          \in {<<l>>, <<a, l>>, <<a, b, l>>, <<a, b, c, l>>}
              \cup (IF late # <<>> THEN {<<a, b, x, l>>, <<a, b, c, x, l>>} ELSE {})
    BY SetupWritten DEF Written
  <2> HIDE DEF a, b, c, x, l
  <2>4. SetupAhead(<<l>>, 0, FALSE) /\ SetupAhead(<<a, l>>, 0, FALSE)
        /\ SetupAhead(<<a, b, l>>, 0, FALSE)
    <3>1. SetupAhead(<<l>>, 0, FALSE)
      BY <2>1 DEF SetupAhead
    <3>2. SetupAhead(<<a, l>>, 0, FALSE)
      <4> DEFINE s == <<a, l>>
      <4>1. /\ Len(s) = 2 /\ s[2].kind = "LastOfSetup" /\ \A j \in 1 .. 2 : s[j].size = 1
            /\ \A j \in 1 .. 2 - 1 : s[j].kind \in Announcements \cup {"Created"}
            /\ \A j \in 1 .. 0 : s[j].kind \in Announcements
        BY <2>1
      <4> HIDE DEF s
      <4>2. 2 \in 1 .. Len(s) /\ 0 \in 0 .. 2 - 1 /\ 0 + (2 - 0) <= 3
        BY <4>1
      <4>3. SetupAhead(s, 0, FALSE)
        BY <4>1, <4>2 DEF SetupAhead
      <4> QED BY <4>3 DEF s
    <3>3. SetupAhead(<<a, b, l>>, 0, FALSE)
      <4> DEFINE s == <<a, b, l>>
      <4>1. /\ Len(s) = 3 /\ s[3].kind = "LastOfSetup" /\ \A j \in 1 .. 3 : s[j].size = 1
            /\ \A j \in 1 .. 3 - 1 : s[j].kind \in Announcements \cup {"Created"}
            /\ \A j \in 1 .. 0 : s[j].kind \in Announcements
        BY <2>1
      <4> HIDE DEF s
      <4>2. 3 \in 1 .. Len(s) /\ 0 \in 0 .. 3 - 1 /\ 0 + (3 - 0) <= 3
        BY <4>1
      <4>3. SetupAhead(s, 0, FALSE)
        BY <4>1, <4>2 DEF SetupAhead
      <4> QED BY <4>3 DEF s
    <3> QED BY <3>1, <3>2, <3>3
  <2>5. SetupAhead(<<a, b, c, l>>, 0, FALSE)
    <3> DEFINE s == <<a, b, c, l>>
    <3>1. /\ Len(s) = 4 /\ s[4].kind = "LastOfSetup" /\ \A j \in 1 .. 4 : s[j].size = 1
          /\ \A j \in 1 .. 4 - 1 : s[j].kind \in Announcements \cup {"Created"}
          /\ \A j \in 1 .. 2 : s[j].kind \in Announcements
      BY <2>1
    <3> HIDE DEF s
    <3>2. 4 \in 1 .. Len(s) /\ 2 \in 0 .. 4 - 1 /\ 0 + (4 - 2) <= 3
      BY <3>1
    <3>3. SetupAhead(s, 0, FALSE)
      BY <3>1, <3>2 DEF SetupAhead
    <3> QED BY <3>3 DEF s
  <2>6. ASSUME late # <<>> PROVE SetupAhead(<<a, b, x, l>>, 0, FALSE)
    <3> DEFINE s == <<a, b, x, l>>
    <3>1. /\ Len(s) = 4 /\ s[4].kind = "LastOfSetup" /\ \A j \in 1 .. 4 : s[j].size = 1
          /\ \A j \in 1 .. 4 - 1 : s[j].kind \in Announcements \cup {"Created"}
          /\ \A j \in 1 .. 2 : s[j].kind \in Announcements
      BY <2>1, <2>2, <2>6
    <3> HIDE DEF s
    <3>2. 4 \in 1 .. Len(s) /\ 2 \in 0 .. 4 - 1 /\ 0 + (4 - 2) <= 3
      BY <3>1
    <3>3. SetupAhead(s, 0, FALSE)
      BY <3>1, <3>2 DEF SetupAhead
    <3> QED BY <3>3 DEF s
  <2>7. ASSUME late # <<>> PROVE SetupAhead(<<a, b, c, x, l>>, 0, FALSE)
    <3> DEFINE s == <<a, b, c, x, l>>
    <3>1. /\ Len(s) = 5 /\ s[5].kind = "LastOfSetup" /\ \A j \in 1 .. 5 : s[j].size = 1
          /\ \A j \in 1 .. 5 - 1 : s[j].kind \in Announcements \cup {"Created"}
          /\ \A j \in 1 .. 2 : s[j].kind \in Announcements
      BY <2>1, <2>2, <2>7
    <3> HIDE DEF s
    <3>2. 5 \in 1 .. Len(s) /\ 2 \in 0 .. 5 - 1 /\ 0 + (5 - 2) <= 3
      BY <3>1
    <3>3. SetupAhead(s, 0, FALSE)
      BY <3>1, <3>2 DEF SetupAhead
    <3> QED BY <3>3 DEF s
  <2> QED BY <2>3, <2>4, <2>5, <2>6, <2>7
<1>4. \A e \in End : SetupAhead(wire[e], 0, FALSE)
  <2>1. PICK first \in [End -> Windows], created \in {<<>>, <<Created>>} :
        \E late \in Lates(first["server"]) : Chosen(first, created, late)
    BY InitChoices
  <2>2. ASSUME NEW d \in End PROVE SetupAhead(wire[Peer(d)], 0, FALSE)
    <3>1. PICK mine \in Lates(first[d]) : wire[Peer(d)] = SetupOf(d, first[d], created, mine)
      BY <2>1 DEF Chosen
    <3>2. first[d] \in Windows
      OBVIOUS
    <3> QED BY <1>3, <3>1, <3>2
  <2> QED BY <2>2, PeerDiffers
<1>5. SetupFirst
  <2> SUFFICES ASSUME NEW e \in End PROVE SetupAhead(wire[e], fresh[e], e \in starting)
    BY DEF SetupFirst
  <2>1. fresh[e] = 0 /\ (e \in starting) = FALSE
    BY DEF Init
  <2> QED BY <1>4, <2>1
<1> QED BY <1>1, <1>2, <1>5 DEF IInv, Counting, AckedInTime

\* Every step keeps the invariant.
LEMMA StepCounts == IInv /\ Next => IInv'
<1> SUFFICES ASSUME IInv, Next PROVE SetupFirst' /\ Counting' /\ AckedInTime'
  BY StepTyped DEF IInv
<1>1. ASSUME NEW e \in End, Poll(e) PROVE SetupFirst' /\ Counting' /\ AckedInTime'
  BY <1>1, SetupPollCounts, LivePollCounts DEF Poll
<1>2. ASSUME NEW e \in End, NEW m, m \in Message, Write(e, m)
      PROVE  SetupFirst' /\ Counting' /\ AckedInTime'
  BY <1>2, WriteCounts
<1>3. ASSUME NEW e \in End, NEW s \in AppSizes, SendMedia(e, s)
      PROVE  SetupFirst' /\ Counting' /\ AckedInTime'
  BY <1>2, <1>3, MediaTyped DEF SendMedia
<1>4. ASSUME NEW e \in End, NEW w \in Windows, SendControl(e, WindowAckSize(w))
      PROVE  SetupFirst' /\ Counting' /\ AckedInTime'
  <2>1. WindowAckSize(w) \in Message
    BY AnnouncementsTyped DEF LimitTypes
  <2> QED BY <1>2, <1>4, <2>1 DEF SendControl
<1>5. ASSUME NEW e \in End, NEW w \in Windows, NEW t \in LimitTypes, SendLimit(e, w, t)
      PROVE  SetupFirst' /\ Counting' /\ AckedInTime'
  BY <1>2, <1>5, AnnouncementsTyped DEF SendLimit, SendControl
<1> QED BY <1>1, <1>3, <1>4, <1>5 DEF Next

\* After every poll of a session less than a window is unacknowledged, wherever the counter
\* has wrapped.
THEOREM InTime == Spec => []AckedInTime
<1>1. IInv /\ UNCHANGED vars => IInv'
  <2> SUFFICES ASSUME IInv, UNCHANGED vars PROVE IInv'
    OBVIOUS
  <2>1. TypeOK'
    BY DEF IInv, TypeOK, vars
  <2>2. SetupFirst'
    BY DEF IInv, SetupFirst, vars
  <2> QED BY <2>1, <2>2 DEF IInv, Counting, AckedInTime, Since, vars
<1>2. IInv => AckedInTime
  BY DEF IInv
<1> QED BY <1>1, <1>2, InitCounts, StepCounts, PTL DEF Spec

-----------------------------------------------------------------------------
(* Acknowledgements soon enough. *)

\* The reader whose window is w will have one of at most n, and at least 1, when it has read
\* ms and adopted what it takes for that: the last window among them is n, or there is none
\* and w will do, unless the reader has dropped one (it is not sure), and no limit behind it
\* widens that.
Settles(k, ms, w, n, sure) ==
    /\ k = 0 /\ sure => w \in 1 .. n
    /\ k # 0 => ms[k].kind = "WindowAckSize" /\ ms[k].val = n
    /\ \A j \in k + 1 .. Len(ms) :
          /\ ms[j].kind # "WindowAckSize"
          /\ ms[j].kind = "SetPeerBandwidth" => ms[j].val \in 1 .. n

Promise(ms, w, n, sure) == \E k \in 0 .. Len(ms) : Settles(k, ms, w, n, sure)

Promised ==
    \A e \in End : sender[e].announced # 0 =>
        Promise(wire[Peer(e)], reader[Peer(e)].window, sender[e].announced, Peer(e) \notin missed)

\* Another message is written behind the others.
LEMMA PromiseAppended ==
    ASSUME NEW ms \in Seq(Message), NEW more \in Seq(Message), NEW w, NEW n \in Nat, NEW sure,
           AnnouncedBy(more, n) # 0,
           n # 0 => Promise(ms, w, n, sure),
           \A i \in 1 .. Len(more) :
              /\ more[i].kind = "WindowAckSize" => i = Len(more)
              /\ more[i].kind = "SetPeerBandwidth" /\ n # 0 => more[i].val \in 1 .. n
    PROVE  Promise(ms \o more, w, AnnouncedBy(more, n), sure)
<1> DEFINE all == ms \o more
<1>1. /\ all \in Seq(Message) /\ Len(all) = Len(ms) + Len(more)
      /\ \A i \in 1 .. Len(ms) + Len(more) :
            all[i] = IF i <= Len(ms) THEN ms[i] ELSE more[i - Len(ms)]
  BY ConcatProperties
<1>2. Len(ms) \in Nat /\ Len(more) \in Nat
  OBVIOUS
<1> HIDE DEF all
<1>3. CASE more # <<>> /\ more[Len(more)].kind = "WindowAckSize"
  <2>1. Len(more) >= 1
    BY <1>2, <1>3
  <2>2. Len(all) \in 0 .. Len(all) /\ Len(all) # 0 /\ all[Len(all)] = more[Len(more)]
    BY <1>1, <1>2, <2>1
  <2>3. AnnouncedBy(more, n) = more[Len(more)].val
    BY <1>3 DEF AnnouncedBy
  <2>4. \A j \in Len(all) + 1 .. Len(all) : FALSE
    BY <1>1, <1>2
  <2>5. Settles(Len(all), all, w, AnnouncedBy(more, n), sure)
    BY <1>3, <2>2, <2>3, <2>4 DEF Settles
  <2> QED BY <2>2, <2>5 DEF Promise, all
<1>4. CASE ~(more # <<>> /\ more[Len(more)].kind = "WindowAckSize")
  <2>1. AnnouncedBy(more, n) = n /\ n # 0
    BY <1>4 DEF AnnouncedBy
  <2>2. PICK k \in 0 .. Len(ms) : Settles(k, ms, w, n, sure)
    BY <2>1 DEF Promise
  <2>3. \A i \in 1 .. Len(more) :
          /\ more[i].kind # "WindowAckSize"
          /\ more[i].kind = "SetPeerBandwidth" => more[i].val \in 1 .. n
    BY <1>2, <1>4, <2>1
  <2>4. k \in 0 .. Len(all) /\ (k # 0 => all[k] = ms[k])
    BY <1>1, <1>2
  <2>5. ASSUME NEW j \in k + 1 .. Len(all)
        PROVE  /\ all[j].kind # "WindowAckSize"
               /\ all[j].kind = "SetPeerBandwidth" => all[j].val \in 1 .. n
    <3>1. CASE j <= Len(ms)
      BY <1>1, <1>2, <2>2, <3>1 DEF Settles
    <3>2. CASE j > Len(ms)
      <4>1. all[j] = more[j - Len(ms)] /\ j - Len(ms) \in 1 .. Len(more)
        BY <1>1, <1>2, <3>2
      <4> QED BY <2>3, <4>1
    <3> QED BY <1>2, <3>1, <3>2
  <2>6. Settles(k, all, w, n, sure)
    BY <2>2, <2>4, <2>5 DEF Settles
  <2> QED BY <2>1, <2>4, <2>6 DEF Promise, all
<1> QED BY <1>3, <1>4

\* The first message is read: the window it carries may be adopted, and has to be if it is
\* no limit, unless it is dropped.
LEMMA PromiseRead ==
    ASSUME NEW ms \in Seq(Message), NEW rest \in Seq(Message), NEW m, NEW w, NEW v,
           NEW n \in Nat \ {0}, NEW sure, NEW now,
           ms # <<>>, m = ms[1], Len(rest) = Len(ms) - 1,
           \A i \in 1 .. Len(ms) - 1 : rest[i] = ms[i + 1],
           Promise(ms, w, n, sure),
           \/ m.kind \in Announcements /\ v = m.val
           \/ m.kind # "WindowAckSize" /\ v = w /\ (now => sure)
           \/ ~now
    PROVE  Promise(rest, v, n, now)
<1>1. PICK k \in 0 .. Len(ms) : Settles(k, ms, w, n, sure)
  BY DEF Promise
<1>2. Len(ms) \in Nat /\ Len(ms) >= 1
  OBVIOUS
<1>3. ASSUME NEW i \in 0 .. Len(rest), i >= k - 1
      PROVE  \A j \in i + 1 .. Len(rest) :
                /\ rest[j].kind # "WindowAckSize"
                /\ rest[j].kind = "SetPeerBandwidth" => rest[j].val \in 1 .. n
  <2>1. \A j \in i + 1 .. Len(rest) : rest[j] = ms[j + 1] /\ j + 1 \in k + 1 .. Len(ms)
    BY <1>2, <1>3
  <2> QED BY <1>1, <2>1 DEF Settles
<1>4. CASE k \in 0 .. 1
  <2>1. now => v \in 1 .. n
    <3>1. CASE k = 0
      <4>1. m.kind # "WindowAckSize" /\ (m.kind = "SetPeerBandwidth" => m.val \in 1 .. n)
        BY <1>1, <1>2, <3>1 DEF Settles
      <4> QED BY <1>1, <3>1, <4>1 DEF Announcements, Settles
    <3>2. CASE k = 1
      BY <1>1, <3>2 DEF Settles
    <3> QED BY <1>4, <3>1, <3>2
  <2>2. 0 \in 0 .. Len(rest) /\ 0 >= k - 1
    BY <1>2, <1>4
  <2>3. Settles(0, rest, v, n, now)
    BY <1>3, <2>1, <2>2 DEF Settles
  <2> QED BY <2>2, <2>3 DEF Promise
<1>5. CASE k > 1
  <2> DEFINE i == k - 1
  <2>1. /\ i \in 0 .. Len(rest) /\ i >= k - 1 /\ i # 0 /\ rest[i] = ms[k]
        /\ ms[k].kind = "WindowAckSize" /\ ms[k].val = n
    <3>1. i \in 1 .. Len(ms) - 1 /\ i + 1 = k /\ k # 0
      BY <1>2, <1>5
    <3>2. ms[k].kind = "WindowAckSize" /\ ms[k].val = n
      BY <1>1, <3>1 DEF Settles
    <3> QED BY <3>1, <3>2
  <2> HIDE DEF i
  <2>2. \A j \in i + 1 .. Len(rest) :
           /\ rest[j].kind # "WindowAckSize"
           /\ rest[j].kind = "SetPeerBandwidth" => rest[j].val \in 1 .. n
    BY <1>3, <2>1
  <2>3. Settles(i, rest, v, n, now)
    BY <2>1, <2>2 DEF Settles
  <2> QED BY <2>1, <2>3 DEF Promise
<1> QED BY <1>2, <1>4, <1>5

\* The promise of the setup: its last window, which no limit behind it widens.
LEMMA InitPromised == Init => Promised
<1> SUFFICES ASSUME Init, NEW e \in End, sender[e].announced # 0
             PROVE  Promise(wire[Peer(e)], reader[Peer(e)].window, sender[e].announced,
                            Peer(e) \notin missed)
  BY DEF Promised
<1> DEFINE sure == Peer(e) \notin missed
           r == reader[Peer(e)].window
<1>1. PICK first \in [End -> Windows], created \in {<<>>, <<Created>>} :
      \E late \in Lates(first["server"]) : Chosen(first, created, late)
  BY InitChoices
<1> DEFINE w == first[e]
<1>2. PICK late \in Lates(w) :
        /\ wire[Peer(e)] = SetupOf(e, w, created, late)
        /\ sender[e].announced = LastOf(w, late)
        /\ e # "server" => late = <<>>
  BY <1>1 DEF Chosen
<1>3. w \in Windows /\ w \in Nat
  BY FlowConstants
<1> HIDE DEF w, sure, r
<1> DEFINE n == LastOf(w, late)
           a == WindowAckSize(w)
           b == SetPeerBandwidth(w, Dynamic)
           x == late[1]
           c == Created
           l == LastOfSetup
<1>4. /\ a.kind = "WindowAckSize" /\ a.val = w /\ b.kind = "SetPeerBandwidth" /\ b.val = w
      /\ c.kind = "Created" /\ l.kind = "LastOfSetup"
  BY DEF LastOfSetup, Created, WindowAckSize, SetPeerBandwidth, Sized
<1>5. SetupOf(e, w, created, late) = Written(e, w, created, late)
  BY <1>2, <1>3, SetupWritten
<1>6. n # 0
  BY <1>2
<1>7. CASE late = <<>>
  <2>1. n = w
    BY <1>7 DEF LastOf
  <2>2. SetupOf(e, w, created, late) \in {<<a, l>>, <<a, b, l>>, <<a, b, c, l>>}
    BY <1>5, <1>6, <1>7, <2>1 DEF Written
  <2> HIDE DEF a, b, c, l, x, n
  <2>3. /\ Settles(1, <<a, l>>, r, n, sure) /\ Settles(1, <<a, b, l>>, r, n, sure)
        /\ Settles(1, <<a, b, c, l>>, r, n, sure)
    BY <1>3, <1>4, <1>6, <2>1 DEF Settles
  <2>4. /\ Promise(<<a, l>>, r, n, sure) /\ Promise(<<a, b, l>>, r, n, sure)
        /\ Promise(<<a, b, c, l>>, r, n, sure)
    BY <2>3 DEF Promise
  <2> QED BY <1>2, <2>2, <2>4 DEF r, sure, n
<1>8. CASE late # <<>>
  <2>1. SetupOf(e, w, created, late) \in {<<a, b, x, l>>, <<a, b, c, x, l>>}
    BY <1>2, <1>5, <1>8 DEF Written
  <2>2. \/ x.kind = "WindowAckSize" /\ n = x.val
        \/ x.kind = "SetPeerBandwidth" /\ n = w /\ x.val \in 1 .. n
    BY <1>2, <1>3, <1>6, <1>8, LateTyped DEF LastOf
  <2> HIDE DEF a, b, c, l, x, n
  <2>3. CASE x.kind = "WindowAckSize" /\ n = x.val
    <3>1. Settles(3, <<a, b, x, l>>, r, n, sure) /\ Settles(4, <<a, b, c, x, l>>, r, n, sure)
      BY <1>4, <2>3 DEF Settles
    <3>2. Promise(<<a, b, x, l>>, r, n, sure) /\ Promise(<<a, b, c, x, l>>, r, n, sure)
      BY <3>1 DEF Promise
    <3> QED BY <1>2, <2>1, <3>2 DEF r, sure, n
  <2>4. CASE x.kind = "SetPeerBandwidth" /\ n = w /\ x.val \in 1 .. n
    <3>1. Settles(1, <<a, b, x, l>>, r, n, sure) /\ Settles(1, <<a, b, c, x, l>>, r, n, sure)
      BY <1>3, <1>4, <1>6, <2>4 DEF Settles
    <3>2. Promise(<<a, b, x, l>>, r, n, sure) /\ Promise(<<a, b, c, x, l>>, r, n, sure)
      BY <3>1 DEF Promise
    <3> QED BY <1>2, <2>1, <3>2 DEF r, sure, n
  <2> QED BY <2>2, <2>3, <2>4
<1> QED BY <1>7, <1>8

\* The window after a poll, in setup and of a session.
LEMMA PollWindow ==
    ASSUME TypeOK, NEW e \in End, Poll(e)
    PROVE  LET m == Head(wire[e]) IN
           /\ \/ m.kind \in Announcements /\ reader'[e].window = m.val
              \/ /\ m.kind # "WindowAckSize" /\ reader'[e].window = reader[e].window
                 /\ e \in missed => e \in missed'
              \/ e \in missed'
           /\ \A d \in End \ {e} : reader'[d] = reader[d] /\ (d \in missed' <=> d \in missed)
           /\ wire'[e] = Tail(wire[e])
<1> DEFINE m == Head(wire[e])
           r == Charged(reader[e], m)
<1>1. wire[e] # <<>> /\ (PollInSetup(e, m, r) \/ PollLive(e, m, r))
  BY DEF Poll
<1>2. m \in Message /\ r \in ReaderState /\ r.window = reader[e].window
  BY <1>1, Polled
<1>3. m.kind \in Announcements => m.val \in Windows
  BY <1>2, MessageFields
<1>4. CASE PollInSetup(e, m, r)
  <2>1. /\ reader' = [reader EXCEPT ![e] = ReaderInSetup(e, r, m)]
        /\ wire' = [wire EXCEPT ![e] = Tail(@)]
        /\ missed' = IF m.kind \notin Announcements THEN missed
                     ELSE IF ~Drops(e, m) THEN missed \ {e}
                     ELSE IF m.kind = "WindowAckSize" THEN missed \cup {e} ELSE missed
    BY <1>4 DEF PollInSetup
  <2>2. reader'[e] = ReaderInSetup(e, r, m) /\ wire'[e] = Tail(wire[e])
        /\ \A d \in End \ {e} : reader'[d] = reader[d] /\ (d \in missed' <=> d \in missed)
    BY <2>1, TypeParts
  <2> HIDE DEF m, r
  <2>3. m.kind \in Announcements => WithWindow(r, m.val).window = m.val
    BY <1>2, <1>3, ReaderTyped
  <2>4. CASE m.kind \in Announcements /\ ~Drops(e, m)
    BY <2>2, <2>3, <2>4 DEF ReaderInSetup, m
  <2>5. CASE m.kind \notin Announcements
    BY <1>2, <2>1, <2>2, <2>5 DEF ReaderInSetup, Announcements, m
  <2>6. CASE m.kind \in Announcements /\ Drops(e, m)
    <3>1. reader'[e].window = reader[e].window
      BY <1>2, <2>2, <2>6 DEF ReaderInSetup
    <3>2. IF m.kind = "WindowAckSize" THEN e \in missed' ELSE e \in missed => e \in missed'
      BY <2>1, <2>6
    <3> QED BY <2>2, <3>1, <3>2 DEF m
  <2> QED BY <2>4, <2>5, <2>6
<1>5. CASE PollLive(e, m, r)
  <2>1. /\ reader' = [reader EXCEPT ![e] = IF Adopts(e, m) THEN WithWindow(AckedOr(r), m.val)
                                           ELSE AckedOr(r)]
        /\ missed' = IF Adopts(e, m) THEN missed \ {e} ELSE missed
    BY <1>2, <1>5, PollLiveParts
  <2>2. wire'[e] = Tail(wire[e])
    BY <1>1, <1>2, <1>5, PollLiveWires
  <2>3. reader'[e] = (IF Adopts(e, m) THEN WithWindow(AckedOr(r), m.val) ELSE AckedOr(r))
        /\ \A d \in End \ {e} : reader'[d] = reader[d] /\ (d \in missed' <=> d \in missed)
    BY <2>1, TypeParts
  <2> HIDE DEF m, r
  <2>4. AckedOr(r) \in ReaderState /\ AckedOr(r).window = reader[e].window
    <3>1. 0 \in Windows
      BY FlowConstants
    <3> QED BY <1>2, <3>1, ReaderTyped DEF AckedOr
  <2>5. m.kind = "WindowAckSize" => Adopts(e, m)
    BY DEF Adopts
  <2>6. Adopts(e, m) => m.kind \in Announcements
    BY DEF Adopts, Changed, LimiterAfter, Announcements
  <2>7. m.kind \in Announcements => WithWindow(AckedOr(r), m.val).window = m.val
    BY <1>2, <1>3, <2>4, ReaderTyped
  <2>8. reader'[e].window = IF Adopts(e, m) THEN m.val ELSE reader[e].window
    BY <2>3, <2>4, <2>6, <2>7
  <2>9. ~Adopts(e, m) => missed' = missed
    BY <2>1
  <2> QED BY <2>2, <2>3, <2>5, <2>6, <2>8, <2>9 DEF m
<1> QED BY <1>1, <1>4, <1>5

\* What a poll does to the other direction: something may be written.
LEMMA PollWrites ==
    ASSUME TypeOK, NEW e \in End, Poll(e)
    PROVE  \E out \in Seq(Message) :
              /\ \A i \in 1 .. Len(out) :
                    /\ out[i].kind = "WindowAckSize" => i = Len(out)
                    /\ out[i].kind # "SetPeerBandwidth"
              /\ wire'[Peer(e)] = wire[Peer(e)] \o out
              /\ sender'[e].announced = AnnouncedBy(out, sender[e].announced)
              /\ sender'[Peer(e)] = sender[Peer(e)]
<1> DEFINE m == Head(wire[e])
           r == Charged(reader[e], m)
<1>1. wire[e] # <<>> /\ (PollInSetup(e, m, r) \/ PollLive(e, m, r))
  BY DEF Poll
<1>2. m \in Message /\ r \in ReaderState
  BY <1>1, Polled
<1>3. sender[e] \in SenderState /\ wire[Peer(e)] \in Seq(Message)
  BY TypeParts, PeerDiffers
<1>4. CASE PollInSetup(e, m, r)
  <2>1. /\ wire' = [wire EXCEPT ![e] = Tail(@)]
        /\ sender' = [sender EXCEPT ![e] = Acknowledged(@, m)]
    BY <1>4 DEF PollInSetup
  <2>2. wire'[Peer(e)] = wire[Peer(e)] /\ sender'[Peer(e)] = sender[Peer(e)]
        /\ sender'[e] = Acknowledged(sender[e], m)
    BY <2>1, TypeParts, PeerDiffers
  <2>3. sender'[e].announced = sender[e].announced
    BY <1>2, <1>3, <2>2, AcknowledgedTyped
  <2> DEFINE out == <<>>
  <2>4. /\ out \in Seq(Message) /\ \A i \in 1 .. Len(out) : FALSE
        /\ wire'[Peer(e)] = wire[Peer(e)] \o out
        /\ sender'[e].announced = AnnouncedBy(out, sender[e].announced)
    BY <1>3, <2>2, <2>3, ConcatEmptySeq DEF AnnouncedBy
  <2> HIDE DEF out
  <2> QED BY <2>2, <2>4
<1>5. CASE PollLive(e, m, r)
  <2> DEFINE out == Out(e, m, r)
  <2>1. /\ out \in Seq(Message) /\ Len(out) <= 2
        /\ \A i \in 1 .. Len(out) : \/ out[i].kind = "Ack"
                                    \/ out[i].kind = "WindowAckSize" /\ i = Len(out)
    BY <1>2, OutTyped
  <2>2. sender' = [sender EXCEPT ![e] = Acknowledged(Sends(e, out), m)]
    BY <1>2, <1>5, PollLiveParts
  <2>3. wire'[Peer(e)] = wire[Peer(e)] \o out
    BY <1>1, <1>2, <1>5, PollLiveWires
  <2> HIDE DEF out, m, r
  <2>5. Sends(e, out) \in SenderState
        /\ Sends(e, out).announced = AnnouncedBy(out, sender[e].announced)
    BY <2>1, SenderTyped
  <2>6. Acknowledged(Sends(e, out), m).announced = AnnouncedBy(out, sender[e].announced)
    BY <1>2, <2>5, AcknowledgedTyped
  <2>7. sender'[e].announced = AnnouncedBy(out, sender[e].announced)
        /\ sender'[Peer(e)] = sender[Peer(e)]
    BY <2>2, <2>6, TypeParts, PeerDiffers
  <2> QED BY <2>1, <2>3, <2>7
<1> QED BY <1>1, <1>4, <1>5

\* A poll consumes one message of a promise and may add a window to the other one.
LEMMA PollPromised ==
    ASSUME TypeOK, Promised, NEW e \in End, Poll(e)
    PROVE  Promised'
<1> DEFINE p == Peer(e)
           ms == wire[e]
           m == Head(ms)
<1>1. p \in End /\ p # e /\ Peer(p) = e /\ (\A d \in End : d = e \/ d = p)
      /\ wire[e] # <<>>
  BY PeerDiffers DEF Poll
<1>2. \A d \in End : sender[d].announced \in Nat
  BY TypeParts, FlowConstants DEF SenderState
<1>3. sender'[p].announced # 0 =>
         Promise(wire'[e], reader'[e].window, sender'[p].announced, e \notin missed')
  <2> SUFFICES ASSUME sender'[p].announced # 0
               PROVE  Promise(wire'[e], reader'[e].window, sender'[p].announced, e \notin missed')
    OBVIOUS
  <2> DEFINE n == sender[p].announced
             w == reader[e].window
             v == reader'[e].window
             rest == Tail(ms)
             sure == e \notin missed
             now == e \notin missed'
  <2>1. sender'[p] = sender[p]
    BY PollWrites
  <2>2. n \in Nat \ {0} /\ Promise(ms, w, n, sure)
    BY <1>1, <1>2, <2>1 DEF Promised
  <2>3. /\ \/ m.kind \in Announcements /\ v = m.val
           \/ m.kind # "WindowAckSize" /\ v = w /\ (now => sure)
           \/ ~now
        /\ wire'[e] = rest
    BY PollWindow
  <2>4. /\ m = ms[1] /\ rest \in Seq(Message) /\ Len(rest) = Len(ms) - 1
        /\ \A i \in 1 .. Len(ms) - 1 : rest[i] = ms[i + 1]
    BY <1>1, Polled
  <2>5. ms \in Seq(Message) /\ ms # <<>>
    BY <1>1, TypeParts
  <2> HIDE DEF n, w, v, m, ms, rest, sure, now
  <2>6. Promise(rest, v, n, now)
    BY <2>2, <2>3, <2>4, <2>5, PromiseRead
  <2> QED BY <2>1, <2>3, <2>6 DEF n, v, now
<1>4. sender'[e].announced # 0 =>
         Promise(wire'[p], reader'[p].window, sender'[e].announced, p \notin missed')
  <2> SUFFICES ASSUME sender'[e].announced # 0
               PROVE  Promise(wire'[p], reader'[p].window, sender'[e].announced, p \notin missed')
    OBVIOUS
  <2> DEFINE n == sender[e].announced
             w == reader[p].window
             back == wire[p]
             sure == p \notin missed
  <2>1. PICK out \in Seq(Message) :
           /\ \A i \in 1 .. Len(out) :
                 /\ out[i].kind = "WindowAckSize" => i = Len(out)
                 /\ out[i].kind # "SetPeerBandwidth"
           /\ wire'[p] = back \o out
           /\ sender'[e].announced = AnnouncedBy(out, n)
    BY PollWrites
  <2>2. reader'[p] = reader[p] /\ (p \in missed' <=> p \in missed)
    BY <1>1, PollWindow
  <2>3. back \in Seq(Message) /\ n \in Nat /\ (n # 0 => Promise(back, w, n, sure))
    BY <1>1, <1>2, TypeParts DEF Promised
  <2>4. (p \notin missed') = sure
    BY <2>2
  <2> HIDE DEF n, w, back, sure
  <2>5. Promise(back \o out, w, AnnouncedBy(out, n), sure)
    BY <2>1, <2>3, PromiseAppended
  <2> QED BY <2>1, <2>2, <2>4, <2>5 DEF w
<1> QED BY <1>1, <1>3, <1>4 DEF Promised

\* A message written starts a new promise or respects the one that stands.
LEMMA WritePromised ==
    ASSUME TypeOK, Promised, NEW e \in End, NEW m \in Message, Write(e, m),
           m.kind = "SetPeerBandwidth" /\ sender[e].announced # 0
              => m.val \in 1 .. sender[e].announced
    PROVE  Promised'
<1> DEFINE p == Peer(e)
           n == sender[e].announced
           w == reader[p].window
           back == wire[p]
           out == <<m>>
           sure == p \notin missed
<1>1. p \in End /\ p # e /\ Peer(p) = e /\ (\A d \in End : d = e \/ d = p)
  BY PeerDiffers
<1>2. n \in Nat /\ back \in Seq(Message) /\ (n # 0 => Promise(back, w, n, sure))
  BY <1>1, TypeParts, FlowConstants DEF SenderState, Promised
<1>3. /\ wire'[e] = wire[e] /\ wire'[p] = Append(back, m)
      /\ sender'[e].announced = AnnouncedBy(out, n) /\ sender'[p] = sender[p]
      /\ reader' = reader /\ missed' = missed
  BY WriteTyped DEF Write
<1>4. Append(back, m) = back \o out /\ out \in Seq(Message)
  BY <1>2, AppendIsConcat
<1>5. \A i \in 1 .. Len(out) :
         /\ out[i].kind = "WindowAckSize" => i = Len(out)
         /\ out[i].kind = "SetPeerBandwidth" /\ n # 0 => out[i].val \in 1 .. n
  OBVIOUS
<1>6. sender'[p].announced # 0 =>
         Promise(wire'[e], reader'[e].window, sender'[p].announced, e \notin missed')
  BY <1>1, <1>3 DEF Promised
<1>7. (p \notin missed') = sure
  BY <1>3
<1> HIDE DEF n, w, back, out, sure
<1>8. AnnouncedBy(out, n) # 0 => Promise(back \o out, w, AnnouncedBy(out, n), sure)
  BY <1>2, <1>4, <1>5, PromiseAppended
<1>9. sender'[e].announced # 0 =>
         Promise(wire'[p], reader'[p].window, sender'[e].announced, p \notin missed')
  BY <1>3, <1>4, <1>7, <1>8 DEF w
<1> QED BY <1>1, <1>6, <1>9 DEF Promised

\* Every step keeps the promises.
LEMMA StepPromised == TypeOK /\ Promised /\ Next => Promised'
<1> SUFFICES ASSUME TypeOK, Promised, Next PROVE Promised'
  OBVIOUS
<1>1. ASSUME NEW e \in End, NEW s \in AppSizes, SendMedia(e, s) PROVE Promised'
  BY <1>1, WritePromised, MediaTyped DEF SendMedia
<1>2. ASSUME NEW e \in End, NEW w \in Windows, SendControl(e, WindowAckSize(w)) PROVE Promised'
  <2>1. WindowAckSize(w) \in Message /\ WindowAckSize(w).kind = "WindowAckSize"
    BY AnnouncementsTyped DEF LimitTypes
  <2> QED BY <1>2, <2>1, WritePromised DEF SendControl
<1>3. ASSUME NEW e \in End, NEW w \in Windows, NEW t \in LimitTypes, SendLimit(e, w, t)
      PROVE  Promised'
  <2>1. SetPeerBandwidth(w, t) \in Message /\ SetPeerBandwidth(w, t).val = w
    BY AnnouncementsTyped
  <2>2. sender[e].announced # 0 => w \in 1 .. sender[e].announced
    <3>1. w \in Nat /\ sender[e].announced \in Nat
      BY TypeParts, FlowConstants DEF SenderState
    <3> QED BY <1>3, <3>1 DEF SendLimit
  <2> QED BY <1>3, <2>1, <2>2, WritePromised DEF SendLimit, SendControl
<1> QED BY <1>1, <1>2, <1>3, PollPromised DEF Next

\* Once nothing is on its way, an end acknowledges no later than its peer waits for it,
\* whatever windows and limits the two have sent each other, and wherever in the setup: unless
\* it is a publisher that dropped the window in wait_for_publish_start.
THEOREM SoonEnough == Spec => []AcksSoonEnough
<1>1. TypeOK /\ UNCHANGED vars => TypeOK'
  BY DEF TypeOK, vars
<1>2. Promised /\ UNCHANGED vars => Promised'
  BY DEF Promised, Promise, Settles, vars
<1>3. TypeOK /\ Promised => AcksSoonEnough
  <2> SUFFICES ASSUME Promised, NEW e \in End,
                      wire[Peer(e)] = <<>>, sender[e].announced # 0, Peer(e) \notin missed
               PROVE  reader[Peer(e)].window \in 1 .. sender[e].announced
    BY DEF AcksSoonEnough
  <2>1. PICK k \in 0 .. Len(wire[Peer(e)]) :
           Settles(k, wire[Peer(e)], reader[Peer(e)].window, sender[e].announced,
                   Peer(e) \notin missed)
    BY DEF Promised, Promise
  <2> QED BY <2>1 DEF Settles
<1> QED BY <1>1, <1>2, <1>3, InitTyped, StepTyped, InitPromised, StepPromised, PTL DEF Spec

-----------------------------------------------------------------------------
(* Acknowledgements name what has arrived. *)

\* What an end has written is what its peer has read and what is on its way to it, modulo the
\* width of the counter.
Balanced ==
    \A e \in End :
        sender[e].sent = (reader[Peer(e)].received + Bytes(wire[Peer(e)])) % CounterMod

\* The end e takes the first message on its way to it, or none, and writes out; an
\* acknowledgement comes first, and names the bytes that e has read by then.
Moves(e, out) ==
    LET p == Peer(e)
        reads == /\ wire[e] # <<>> /\ wire'[e] = Tail(wire[e])
                 /\ reader'[e].received = (reader[e].received + Head(wire[e]).size) % CounterMod
    IN  /\ \/ reads
           \/ wire'[e] = wire[e] /\ reader'[e].received = reader[e].received
        /\ wire'[p] = wire[p] \o out /\ reader'[p].received = reader[p].received
        /\ sender'[p].sent = sender[p].sent
        /\ sender'[e].sent = (sender[e].sent + Bytes(out)) % CounterMod
        /\ \A i \in 1 .. Len(out) : out[i].kind = "Ack" =>
              i = 1 /\ out[i].val = reader'[e].received /\ reads

\* Every step is such a move: a poll, ...
LEMMA PollMoves ==
    ASSUME TypeOK, NEW e \in End, Poll(e)
    PROVE  \E out \in Seq(Message) : Moves(e, out)
<1> DEFINE m == Head(wire[e])
           r == Charged(reader[e], m)
           p == Peer(e)
<1>1. wire[e] # <<>> /\ (PollInSetup(e, m, r) \/ PollLive(e, m, r))
  BY DEF Poll
<1>2. /\ m \in Message /\ r \in ReaderState /\ sender[e] \in SenderState
      /\ p \in End /\ p # e /\ wire[p] \in Seq(Message)
  BY <1>1, Polled, TypeParts, PeerDiffers
<1>3. r.received = (reader[e].received + m.size) % CounterMod
  <2>1. reader[e] \in ReaderState
    BY TypeParts
  <2> QED BY <2>1 DEF Charged, ReaderState
<1>4. CASE PollInSetup(e, m, r)
  <2>1. /\ reader' = [reader EXCEPT ![e] = ReaderInSetup(e, r, m)]
        /\ wire' = [wire EXCEPT ![e] = Tail(@)]
        /\ sender' = [sender EXCEPT ![e] = Acknowledged(@, m)]
    BY <1>4 DEF PollInSetup
  <2>2. /\ reader'[e] = ReaderInSetup(e, r, m) /\ reader'[p] = reader[p]
        /\ wire'[e] = Tail(wire[e]) /\ wire'[p] = wire[p]
        /\ sender'[e] = Acknowledged(sender[e], m) /\ sender'[p] = sender[p]
    BY <1>2, <2>1, TypeParts
  <2> HIDE DEF m, r
  <2>3. reader'[e].received = r.received
    BY <1>2, <2>2 DEF ReaderInSetup, WithWindow, ReaderState
  <2>4. sender'[e].sent = sender[e].sent
    BY <1>2, <2>2 DEF Acknowledged, SenderState
  <2> DEFINE out == <<>>
  <2>5. out \in Seq(Message) /\ (\A i \in 1 .. Len(out) : FALSE) /\ wire[p] \o out = wire[p]
    BY <1>2, EmptySeq, ConcatEmptySeq
  <2>6. sender'[e].sent = (sender[e].sent + Bytes(out)) % CounterMod
    <3>1. Bytes(out) = 0
      BY <2>5, BytesTyped
    <3>2. sender[e].sent \in Counter /\ sender[e].sent \in Int
          /\ sender[e].sent + Bytes(out) = sender[e].sent
      BY <1>2, <3>1 DEF SenderState, Counter
    <3>3. sender[e].sent % CounterMod = sender[e].sent
      BY <3>2, Wraps
    <3> QED BY <2>4, <3>2, <3>3
  <2>7. reader'[e].received = (reader[e].received + Head(wire[e]).size) % CounterMod
    BY <1>3, <2>3 DEF m
  <2> HIDE DEF out
  <2>8. Moves(e, out)
    BY <1>1, <2>2, <2>5, <2>6, <2>7 DEF Moves
  <2> QED BY <2>5, <2>8
<1>5. CASE PollLive(e, m, r)
  <2> DEFINE out == Out(e, m, r)
  <2>1. /\ reader' = [reader EXCEPT ![e] = IF Adopts(e, m) THEN WithWindow(AckedOr(r), m.val)
                                           ELSE AckedOr(r)]
        /\ sender' = [sender EXCEPT ![e] = Acknowledged(Sends(e, out), m)]
    BY <1>2, <1>5, PollLiveParts
  <2>2. wire'[e] = Tail(wire[e]) /\ wire'[p] = wire[p] \o out
    BY <1>1, <1>2, <1>5, PollLiveWires
  <2>3. /\ reader'[e] = IF Adopts(e, m) THEN WithWindow(AckedOr(r), m.val) ELSE AckedOr(r)
        /\ reader'[p] = reader[p] /\ sender'[p] = sender[p]
        /\ sender'[e] = Acknowledged(Sends(e, out), m)
    BY <1>2, <2>1, TypeParts
  <2>4. out \in Seq(Message)
    BY <1>2, OutTyped
  <2>5. \A i \in 1 .. Len(out) : out[i].kind = "Ack" => i = 1 /\ out[i].val = r.received
    BY <1>2, OutAcks
  <2> HIDE DEF m, r, out
  <2>6. reader'[e].received = r.received
    <3>1. AckedOr(r) \in ReaderState /\ AckedOr(r).received = r.received
      BY <1>2 DEF AckedOr, Acked, ReaderState
    <3> QED BY <2>3, <3>1 DEF WithWindow, ReaderState
  <2>7. sender'[e].sent = (sender[e].sent + Bytes(out)) % CounterMod
    <3>1. Sends(e, out) \in SenderState
          /\ Sends(e, out).sent = (sender[e].sent + Bytes(out)) % CounterMod
      BY <2>4, SenderTyped DEF Sends
    <3>2. Acknowledged(Sends(e, out), m).sent = Sends(e, out).sent
      BY <3>1 DEF Acknowledged, SenderState
    <3> QED BY <2>3, <3>1, <3>2
  <2>8. reader'[e].received = (reader[e].received + Head(wire[e]).size) % CounterMod
    BY <1>3, <2>6 DEF m
  <2>9. Moves(e, out)
    BY <1>1, <2>2, <2>3, <2>5, <2>6, <2>7, <2>8 DEF Moves
  <2> QED BY <2>4, <2>9
<1> QED BY <1>1, <1>4, <1>5

\* ... and a message written that is no acknowledgement.
LEMMA WriteMoves ==
    ASSUME TypeOK, NEW e \in End, NEW m \in Message, Write(e, m), m.kind # "Ack"
    PROVE  \E out \in Seq(Message) : Moves(e, out)
<1> DEFINE out == <<m>>
           p == Peer(e)
<1>1. out \in Seq(Message) /\ \A i \in 1 .. Len(out) : out[i].kind # "Ack"
  OBVIOUS
<1>2. p \in End /\ p # e /\ wire[p] \in Seq(Message) /\ Append(wire[p], m) = wire[p] \o out
  BY PeerDiffers, TypeParts, AppendIsConcat
<1>3. /\ wire'[e] = wire[e] /\ wire'[p] = Append(wire[p], m)
      /\ sender'[p] = sender[p] /\ reader' = reader
  BY WriteTyped DEF Write
<1>4. sender'[e] = Sends(e, out)
  BY TypeParts DEF Write
<1> HIDE DEF out
<1>5. sender'[e].sent = (sender[e].sent + Bytes(out)) % CounterMod
  BY <1>4 DEF Sends
<1>6. Moves(e, out)
  BY <1>1, <1>2, <1>3, <1>5 DEF Moves
<1> QED BY <1>1, <1>6

LEMMA StepMoves ==
    ASSUME TypeOK, Next
    PROVE  \E e \in End : \E out \in Seq(Message) : Moves(e, out)
<1>1. ASSUME NEW e \in End, NEW s \in AppSizes, SendMedia(e, s)
      PROVE  \E out \in Seq(Message) : Moves(e, out)
  BY <1>1, WriteMoves, MediaTyped DEF SendMedia
<1>2. ASSUME NEW e \in End, NEW w \in Windows, SendControl(e, WindowAckSize(w))
      PROVE  \E out \in Seq(Message) : Moves(e, out)
  <2>1. WindowAckSize(w) \in Message /\ WindowAckSize(w).kind = "WindowAckSize"
    BY AnnouncementsTyped DEF LimitTypes
  <2> QED BY <1>2, <2>1, WriteMoves DEF SendControl
<1>3. ASSUME NEW e \in End, NEW w \in Windows, NEW t \in LimitTypes, SendLimit(e, w, t)
      PROVE  \E out \in Seq(Message) : Moves(e, out)
  BY <1>3, WriteMoves, AnnouncementsTyped DEF SendLimit, SendControl
<1> QED BY <1>1, <1>2, <1>3, PollMoves DEF Next

\* A move keeps the balance.
LEMMA MovesBalanced ==
    ASSUME TypeOK, Balanced, NEW e \in End, NEW out \in Seq(Message), Moves(e, out)
    PROVE  Balanced'
<1> DEFINE p == Peer(e)
<1>1. p \in End /\ Peer(p) = e /\ \A d \in End : d = e \/ d = p
  BY PeerDiffers
<1>2. /\ wire[e] \in Seq(Message) /\ wire[p] \in Seq(Message)
      /\ reader[e].received \in Int /\ reader[p].received \in Int
  BY <1>1, TypeParts DEF ReaderState, Counter
<1>3. /\ wire'[p] = wire[p] \o out /\ reader'[p].received = reader[p].received
      /\ sender'[p].sent = sender[p].sent
      /\ sender'[e].sent = (sender[e].sent + Bytes(out)) % CounterMod
  BY DEF Moves
<1>4. sender'[e].sent = (reader'[p].received + Bytes(wire'[p])) % CounterMod
  <2> DEFINE a == reader[p].received + Bytes(wire[p])
  <2>1. Bytes(wire'[p]) = Bytes(wire[p]) + Bytes(out)
    BY <1>2, <1>3, BytesConcat
  <2>2. Bytes(wire[p]) \in Nat /\ Bytes(out) \in Nat
    BY <1>2, BytesTyped
  <2>3. sender[e].sent = a % CounterMod /\ a \in Int
    BY <1>2, <2>2 DEF Balanced
  <2>4. reader'[p].received + Bytes(wire'[p]) = a + Bytes(out)
    BY <1>2, <1>3, <2>1, <2>2
  <2> HIDE DEF a
  <2>5. ((a % CounterMod) + Bytes(out)) % CounterMod = (a + Bytes(out)) % CounterMod
    BY <2>2, <2>3, CounterWraps
  <2> QED BY <1>3, <2>3, <2>4, <2>5
<1>5. sender'[p].sent = (reader'[e].received + Bytes(wire'[e])) % CounterMod
  <2>1. sender[p].sent = (reader[e].received + Bytes(wire[e])) % CounterMod
    BY <1>1 DEF Balanced
  <2>2. CASE wire'[e] = wire[e] /\ reader'[e].received = reader[e].received
    BY <1>3, <2>1, <2>2
  <2>3. CASE /\ wire[e] # <<>> /\ wire'[e] = Tail(wire[e])
             /\ reader'[e].received = (reader[e].received + Head(wire[e]).size) % CounterMod
    <3> DEFINE s == Head(wire[e]).size
               a == reader[e].received + s
    <3>1. Bytes(wire[e]) = s + Bytes(wire'[e]) /\ s \in Nat /\ Bytes(wire'[e]) \in Nat
      <4>1. Head(wire[e]) \in Message /\ wire'[e] \in Seq(Message)
        BY <1>2, <2>3
      <4> QED BY <1>2, <2>3, <4>1, BytesRead, BytesTyped, MessageFields
    <3>2. a \in Int /\ a + Bytes(wire'[e]) = reader[e].received + Bytes(wire[e])
      BY <1>2, <3>1
    <3>3. reader'[e].received = a % CounterMod
      BY <2>3
    <3> HIDE DEF s, a
    <3>4. ((a % CounterMod) + Bytes(wire'[e])) % CounterMod = (a + Bytes(wire'[e])) % CounterMod
      BY <3>1, <3>2, CounterWraps
    <3> QED BY <1>3, <2>1, <3>2, <3>3, <3>4
  <2> QED BY <2>2, <2>3 DEF Moves
<1> QED BY <1>1, <1>4, <1>5 DEF Balanced

\* Less than a turn is on its way, and lies behind an acknowledgement on its way, in this step.
InATurn(e) ==
    LET more == Bytes(wire'[Peer(e)]) - Bytes(wire[Peer(e)]) IN
    /\ Bytes(wire'[Peer(e)]) < CounterMod
    /\ \A i \in DOMAIN wire[e] : wire[e][i].kind = "Ack" =>
          Behind(sender[e], wire[e][i].val) + more < CounterMod

\* The acknowledgements among ms, for the sender s whose last bytes are still on their way.
Named(ms, s, bytes) ==
    \A i \in DOMAIN ms : ms[i].kind = "Ack" =>
        /\ Behind(s, ms[i].val) >= bytes
        /\ \A j \in 1 .. i - 1 : ms[j].kind = "Ack" => Behind(s, ms[i].val) < Behind(s, ms[j].val)

\* Those of the end that moves: it writes more, and has read some of them perhaps.
LEMMA MoverNamed ==
    ASSUME TypeOK, NEW e \in End, NEW out \in Seq(Message), Moves(e, out), InATurn(e),
           Named(wire[e], sender[e], Bytes(wire[Peer(e)]))
    PROVE  Named(wire'[e], sender'[e], Bytes(wire'[Peer(e)]))
<1> DEFINE p == Peer(e)
           ms == wire[e]
           s == sender[e]
           bytes == Bytes(wire[p])
           more == Bytes(out)
           all == wire'[e]
           t == sender'[e]
<1>1. ms \in Seq(Message) /\ wire[p] \in Seq(Message) /\ s.sent \in Int
  BY TypeParts, PeerDiffers DEF SenderState, Counter
<1>2. bytes \in Nat /\ more \in Nat /\ Bytes(wire'[p]) = bytes + more
  BY <1>1, BytesTyped, BytesConcat DEF Moves
<1>3. t.sent = (s.sent + more) % CounterMod
  BY DEF Moves
<1>4. ASSUME NEW i \in DOMAIN ms, ms[i].kind = "Ack"
      PROVE  Behind(t, ms[i].val) = Behind(s, ms[i].val) + more
  <2>1. ms[i] \in Message
    BY <1>1
  <2>2. ms[i].val \in Int
    BY <2>1, MessageFields
  <2>3. Behind(s, ms[i].val) + more < CounterMod
    BY <1>2, <1>4 DEF InATurn
  <2> HIDE DEF more, s, t
  <2> QED BY <1>1, <1>2, <1>3, <2>2, <2>3, DistanceFromMark DEF Behind
<1>5. \A i \in DOMAIN ms : Behind(s, ms[i].val) \in Int
  <2> TAKE i \in DOMAIN ms
  <2>1. ms[i] \in Message
    BY <1>1
  <2>2. s.sent - ms[i].val \in Int
    BY <1>1, <2>1, MessageFields
  <2> QED BY <2>2, Wraps DEF Behind, Counter
<1>6. Named(ms, t, bytes + more)
  <2> SUFFICES ASSUME NEW i \in DOMAIN ms, ms[i].kind = "Ack"
               PROVE  /\ Behind(t, ms[i].val) >= bytes + more
                      /\ \A j \in 1 .. i - 1 : ms[j].kind = "Ack" =>
                            Behind(t, ms[i].val) < Behind(t, ms[j].val)
    BY DEF Named
  <2>1. /\ Behind(s, ms[i].val) >= bytes
        /\ \A j \in 1 .. i - 1 : ms[j].kind = "Ack" => Behind(s, ms[i].val) < Behind(s, ms[j].val)
    BY DEF Named
  <2>2. \A j \in 1 .. i - 1 : j \in DOMAIN ms
    BY <1>1
  <2>3. /\ Behind(t, ms[i].val) = Behind(s, ms[i].val) + more
        /\ \A j \in 1 .. i - 1 : ms[j].kind = "Ack" =>
              Behind(t, ms[j].val) = Behind(s, ms[j].val) + more
    BY <1>4, <2>2
  <2> HIDE DEF ms, s, t, bytes, more
  <2> QED BY <1>2, <1>5, <2>1, <2>2, <2>3
<1>7. CASE all = ms
  BY <1>2, <1>6, <1>7
<1>8. CASE ms # <<>> /\ all = Tail(ms)
  <2>1. /\ Len(all) = Len(ms) - 1 /\ all \in Seq(Message) /\ Len(ms) \in Nat
        /\ \A i \in 1 .. Len(ms) - 1 : all[i] = ms[i + 1]
    BY <1>1, <1>8, HeadTailProperties, LenProperties
  <2> HIDE DEF ms, all, t, bytes, more
  <2>2. \A i \in DOMAIN all : i + 1 \in DOMAIN ms /\ all[i] = ms[i + 1]
    BY <1>1, <2>1
  <2>3. ASSUME NEW i \in DOMAIN all, NEW j \in 1 .. i - 1
        PROVE  j + 1 \in 1 .. (i + 1) - 1 /\ j \in DOMAIN all
    BY <2>1
  <2>4. Named(all, t, bytes + more)
    BY <1>6, <2>2, <2>3 DEF Named
  <2> QED BY <1>2, <2>4 DEF all, t
<1> QED BY <1>7, <1>8 DEF Moves

\* Those of its peer: a new one, which it has just been written, names all but what has not
\* been read.
LEMMA PeerNamed ==
    ASSUME TypeOK, Balanced', NEW e \in End, NEW out \in Seq(Message), Moves(e, out),
           InATurn(Peer(e)), Named(wire[Peer(e)], sender[Peer(e)], Bytes(wire[e]))
    PROVE  Named(wire'[Peer(e)], sender'[Peer(e)], Bytes(wire'[e]))
<1> DEFINE p == Peer(e)
           ms == wire[p]
           s == sender[p]
           t == sender'[p]
           bytes == Bytes(wire[e])
           rest == Bytes(wire'[e])
           all == wire'[p]
           n == Len(ms)
<1>1. p \in End /\ Peer(p) = e /\ ms \in Seq(Message) /\ wire[e] \in Seq(Message) /\ n \in Nat
      /\ s.sent \in Int
  BY TypeParts, PeerDiffers DEF SenderState, Counter
<1>2. /\ Len(all) = n + Len(out) /\ Len(out) \in Nat /\ all \in Seq(Message)
      /\ \A i \in 1 .. n + Len(out) : all[i] = IF i <= n THEN ms[i] ELSE out[i - n]
  BY <1>1, ConcatProperties DEF Moves
<1>3. \A v : Behind(t, v) = Behind(s, v)
  BY DEF Moves, Behind
<1>4. bytes \in Nat /\ rest \in Nat /\ rest <= bytes
      /\ (wire[e] # <<>> /\ wire'[e] = Tail(wire[e]) => rest < bytes)
  <2>1. CASE wire[e] # <<>> /\ wire'[e] = Tail(wire[e])
    <3>1. Head(wire[e]) \in Message /\ Tail(wire[e]) \in Seq(Message)
      BY <1>1, <2>1
    <3>2. bytes = Head(wire[e]).size + rest /\ Head(wire[e]).size \in Nat \ {0}
      BY <1>1, <2>1, <3>1, BytesRead, MessageFields
    <3>3. bytes \in Nat /\ rest \in Nat
      BY <1>1, <2>1, <3>1, BytesTyped
    <3> HIDE DEF bytes, rest
    <3> QED BY <3>2, <3>3
  <2>2. CASE wire'[e] = wire[e] /\ ~(wire[e] # <<>> /\ wire'[e] = Tail(wire[e]))
    <3>1. bytes \in Nat
      BY <1>1, BytesTyped
    <3> HIDE DEF bytes, rest
    <3>2. rest = bytes
      BY <2>2 DEF bytes, rest
    <3> QED BY <2>2, <3>1, <3>2
  <2> QED BY <2>1, <2>2 DEF Moves
<1>5. ASSUME NEW i \in 1 .. Len(out), out[i].kind = "Ack"
      PROVE  i = 1 /\ Behind(t, out[i].val) = rest /\ rest < bytes
  <2>1. i = 1 /\ out[i].val = reader'[e].received /\ rest < bytes
    BY <1>4, <1>5 DEF Moves
  <2>2. t.sent = (reader'[e].received + rest) % CounterMod
    BY <1>1 DEF Balanced
  <2>3. rest \in Counter
    BY <1>1, <1>4, FlowConstants DEF InATurn, Counter
  <2>4. reader'[e].received \in Int
    <3>1. reader[e] \in ReaderState
      BY TypeParts
    <3>2. reader[e].received \in Int
      BY <3>1 DEF ReaderState, Counter
    <3>3. wire[e] # <<>> => Head(wire[e]).size \in Int
      BY <1>1, MessageFields
    <3> QED BY <3>2, <3>3, Wraps DEF Moves, Counter
  <2> DEFINE r == reader'[e].received
  <2> HIDE DEF t, rest, r
  <2>5. ((r - r) % CounterMod) + rest < CounterMod /\ (r - r) % CounterMod = 0
    <3>1. r - r = 0 /\ 0 \in Counter /\ 0 \in Int
      BY <2>4, FlowConstants DEF r, Counter
    <3>2. (r - r) % CounterMod = 0
      BY <3>1, Wraps
    <3> QED BY <2>3, <3>2, FlowConstants DEF Counter
  <2>6. (((r + rest) % CounterMod) - r) % CounterMod = ((r - r) % CounterMod) + rest
    BY <1>4, <2>4, <2>5, DistanceFromMark DEF r
  <2> QED BY <1>4, <2>1, <2>2, <2>5, <2>6 DEF Behind, r
<1> SUFFICES ASSUME NEW i \in DOMAIN all, all[i].kind = "Ack"
             PROVE  /\ Behind(t, all[i].val) >= rest
                    /\ \A j \in 1 .. i - 1 : all[j].kind = "Ack" =>
                          Behind(t, all[i].val) < Behind(t, all[j].val)
  BY DEF Named
<1>6. \A j \in 1 .. n : ms[j].kind = "Ack" => Behind(s, ms[j].val) >= bytes
                                            /\ Behind(s, ms[j].val) \in Int
  <2> SUFFICES ASSUME NEW j \in 1 .. n, ms[j].kind = "Ack"
               PROVE  Behind(s, ms[j].val) >= bytes /\ Behind(s, ms[j].val) \in Int
    OBVIOUS
  <2>1. j \in DOMAIN ms /\ ms[j] \in Message
    BY <1>1
  <2>2. s.sent - ms[j].val \in Int
    BY <1>1, <2>1, MessageFields
  <2> QED BY <2>1, <2>2, Wraps DEF Named, Behind, Counter
<1> HIDE DEF ms, s, t, bytes, rest, all
<1>7. CASE i <= n
  <2>1. i \in DOMAIN ms /\ all[i] = ms[i] /\ \A j \in 1 .. i - 1 : j \in DOMAIN ms /\ all[j] = ms[j]
    BY <1>1, <1>2, <1>7 DEF n
  <2>2. /\ Behind(s, ms[i].val) >= bytes
        /\ \A j \in 1 .. i - 1 : ms[j].kind = "Ack" => Behind(s, ms[i].val) < Behind(s, ms[j].val)
    BY <2>1 DEF Named, ms, s, bytes
  <2>3. i \in 1 .. n
    BY <1>2, <1>7
  <2> QED BY <1>3, <1>4, <1>6, <2>1, <2>2, <2>3
<1>8. CASE i > n
  <2>1. all[i] = out[i - n] /\ i - n \in 1 .. Len(out)
    BY <1>1, <1>2, <1>8
  <2>2. i - n = 1 /\ Behind(t, all[i].val) = rest /\ rest < bytes
    BY <1>5, <2>1
  <2>3. \A j \in 1 .. i - 1 : j \in 1 .. n /\ all[j] = ms[j]
    BY <1>1, <1>2, <2>2
  <2> QED BY <1>3, <1>4, <1>6, <2>2, <2>3
<1> QED BY <1>1, <1>2, <1>7, <1>8

\* The acknowledgements on their way to an end stand for bytes that have reached the other
\* one, each for more than those before it, as long as less than a turn of the counter is on
\* its way.
THEOREM NameWhatArrived == Spec /\ WithinATurn => []AcksNameWhatArrived
<1> DEFINE All == \A e \in End : Named(wire[e], sender[e], Bytes(wire[Peer(e)]))
           Inv == TypeOK /\ Balanced /\ All
<1>1. Init => Balanced /\ All
  <2> SUFFICES ASSUME Init PROVE Balanced /\ All
    OBVIOUS
  <2>1. PICK first \in [End -> Windows], created \in {<<>>, <<Created>>} :
        \E late \in Lates(first["server"]) : Chosen(first, created, late)
    BY InitChoices
  <2>2. \A e \in End : \E late \in Lates(first[e]) :
              /\ wire[Peer(e)] = SetupOf(e, first[e], created, late)
              /\ sender[e].sent = Bytes(SetupOf(e, first[e], created, late)) % CounterMod
    BY <2>1 DEF Chosen
  <2>3. Balanced
    <3> SUFFICES ASSUME NEW e \in End
                 PROVE  sender[e].sent = (reader[Peer(e)].received + Bytes(wire[Peer(e)]))
                                            % CounterMod
      BY DEF Balanced
    <3>1. reader[Peer(e)].received = 0 /\ Bytes(wire[Peer(e)]) \in Nat
          /\ sender[e].sent = Bytes(wire[Peer(e)]) % CounterMod
      <4>1. wire[Peer(e)] \in Seq(Message)
        BY InitTyped, TypeParts, PeerDiffers
      <4> QED BY <2>2, <4>1, BytesTyped, PeerDiffers DEF Init
    <3> QED BY <3>1
  <2>4. All
    <3>1. ASSUME NEW e \in End, NEW w \in Windows, NEW late \in Lates(w),
                 NEW i \in DOMAIN SetupOf(e, w, created, late)
          PROVE  SetupOf(e, w, created, late)[i].kind # "Ack"
      <4> DEFINE a == WindowAckSize(w)
                 b == SetPeerBandwidth(w, Dynamic)
                 x == late[1]
                 c == Created
                 l == LastOfSetup
      <4>1. /\ l.kind # "Ack" /\ c.kind # "Ack" /\ a.kind # "Ack" /\ b.kind # "Ack"
            /\ late # <<>> => x.kind # "Ack"
        BY LateTyped DEF LastOfSetup, Created, WindowAckSize, SetPeerBandwidth, Sized
      <4>2. SetupOf(e, w, created, late) =
              IF e = "server"
              THEN IF created = <<>>
                   THEN IF late = <<>> THEN <<a, b, l>> ELSE <<a, b, x, l>>
                   ELSE IF late = <<>> THEN <<a, b, c, l>> ELSE <<a, b, c, x, l>>
              ELSE IF w = 0 THEN <<l>> ELSE <<a, l>>
        <5>1. SetupOf(e, w, created, late) = Written(e, w, created, late)
          BY SetupWritten
        <5> HIDE DEF a, b, c, x, l
        <5> QED BY <5>1 DEF Written, a, b, c, x, l
      <4> HIDE DEF a, b, c, x, l
      <4>3. SetupOf(e, w, created, late)
              \in {<<l>>, <<a, l>>, <<a, b, l>>, <<a, b, c, l>>}
                  \cup (IF late # <<>> THEN {<<a, b, x, l>>, <<a, b, c, x, l>>} ELSE {})
        BY <4>2
      <4> QED BY <4>1, <4>3
    <3>2. \A e \in End : \A i \in DOMAIN wire[e] : wire[e][i].kind # "Ack"
      <4>1. ASSUME NEW e \in End PROVE \A i \in DOMAIN wire[Peer(e)] : wire[Peer(e)][i].kind # "Ack"
        <5>1. PICK late \in Lates(first[e]) : wire[Peer(e)] = SetupOf(e, first[e], created, late)
          BY <2>2
        <5>2. first[e] \in Windows
          OBVIOUS
        <5> QED BY <3>1, <5>1, <5>2
      <4> QED BY <4>1, PeerDiffers
    <3> QED BY <3>2 DEF Named
  <2> QED BY <2>3, <2>4
<1>2. Inv /\ Next /\ (\A e \in End : InATurn(e)) => Inv'
  <2> SUFFICES ASSUME Inv, Next, \A e \in End : InATurn(e) PROVE Balanced' /\ All'
    BY StepTyped
  <2>1. PICK e \in End : \E out \in Seq(Message) : Moves(e, out)
    BY StepMoves
  <2>2. PICK out \in Seq(Message) : Moves(e, out)
    BY <2>1
  <2>3. Balanced'
    BY <2>2, MovesBalanced
  <2>4. Peer(e) \in End /\ Peer(Peer(e)) = e /\ \A d \in End : d = e \/ d = Peer(e)
    BY PeerDiffers
  <2>5. Named(wire'[e], sender'[e], Bytes(wire'[Peer(e)]))
    BY <2>2, MoverNamed
  <2>6. Named(wire'[Peer(e)], sender'[Peer(e)], Bytes(wire'[e]))
    BY <2>2, <2>3, <2>4, PeerNamed
  <2>7. All'
    <3> SUFFICES ASSUME NEW d \in End PROVE Named(wire'[d], sender'[d], Bytes(wire'[Peer(d)]))
      OBVIOUS
    <3> QED BY <2>4, <2>5, <2>6
  <2> QED BY <2>3, <2>7
<1>3. Inv /\ UNCHANGED vars => Inv'
  BY DEF vars, TypeOK, Balanced, Named, Behind
<1>4. All <=> AcksNameWhatArrived
  BY DEF Named, AcksNameWhatArrived
<1>5. WithinATurn => [][\A e \in End : InATurn(e)]_vars
  BY DEF WithinATurn, InATurn
<1>6. Init => Inv
  BY <1>1, InitTyped
<1>7. Inv => AcksNameWhatArrived
  BY <1>4
<1> HIDE DEF Inv, All
<1> QED BY <1>2, <1>3, <1>5, <1>6, <1>7, PTL DEF Spec

-----------------------------------------------------------------------------
(* Soft limits. *)

\* A Soft limit does not widen the window that an earlier limit put in effect.
THEOREM SoftNarrows == Spec => SoftNeverWidens
<1> DEFINE Kept(e) ==
       /\ wire[e] # <<>> /\ wire'[e] = Tail(wire[e])
       /\ Head(wire[e]).kind = "SetPeerBandwidth" /\ Head(wire[e]).limit = Soft
       /\ e \in live /\ reader[e].window \in limiter[e].window
       => reader'[e].window <= reader[e].window
<1>1. TypeOK /\ [Next]_vars => \A e \in End : Kept(e)
  <2> SUFFICES ASSUME TypeOK, [Next]_vars, NEW e \in End,
                      wire[e] # <<>>, wire'[e] = Tail(wire[e]),
                      Head(wire[e]).kind = "SetPeerBandwidth", Head(wire[e]).limit = Soft,
                      e \in live, reader[e].window \in limiter[e].window
               PROVE  reader'[e].window <= reader[e].window
    OBVIOUS
  <2>1. reader[e].window \in Nat
    BY TypeParts, FlowConstants DEF ReaderState
  <2>2. CASE reader'[e] = reader[e]
    BY <2>1, <2>2
  <2>3. CASE Poll(e)
    <3> DEFINE m == Head(wire[e])
               r == Charged(reader[e], m)
    <3>1. PollLive(e, m, r)
      BY <2>3 DEF Poll, PollInSetup
    <3>2. m \in Message /\ r \in ReaderState /\ r.window = reader[e].window
      BY Polled
    <3>3. reader' = [reader EXCEPT ![e] = IF Adopts(e, m) THEN WithWindow(AckedOr(r), m.val)
                                          ELSE AckedOr(r)]
      BY <3>1, <3>2, PollLiveParts
    <3>4. m.val \in Windows /\ m.limit \in LimitTypes /\ limiter[e] \in LimiterState
      BY <3>2, MessageFields, TypeParts DEF Announcements
    <3> HIDE DEF m, r
    <3>5. AckedOr(r) \in ReaderState /\ AckedOr(r).window = reader[e].window
      BY <3>2, <3>4, ReaderTyped DEF AckedOr
    <3>6. reader'[e] = IF Adopts(e, m) THEN WithWindow(AckedOr(r), m.val) ELSE AckedOr(r)
      BY <3>3, TypeParts
    <3>7. CASE ~Adopts(e, m)
      BY <2>1, <3>5, <3>6, <3>7
    <3>8. CASE Adopts(e, m)
      <4>1. Limited(limiter[e], m.val, Soft).window # limiter[e].window
        BY <3>8 DEF Adopts, Changed, LimiterAfter, m
      <4>2. Soft \in LimitTypes
        BY DEF LimitTypes
      <4>3. ~(reader[e].window < m.val)
        BY <3>4, <4>1, <4>2, LimiterTyped
      <4>4. reader'[e].window = m.val
        BY <3>2, <3>4, <3>5, <3>6, <3>8, ReaderTyped
      <4>5. m.val \in Nat
        BY <3>2, MessageFields
      <4> QED BY <2>1, <4>3, <4>4, <4>5
    <3> QED BY <3>7, <3>8
  <2>4. CASE \E d \in End : d # e /\ Poll(d)
    BY <2>2, <2>4, PollWindow
  <2>5. CASE UNCHANGED vars
    BY <2>2, <2>5 DEF vars
  <2>6. ASSUME NEW d \in End, NEW w \in Windows, SendControl(d, WindowAckSize(w))
        PROVE  reader'[e] = reader[e]
    BY <2>6 DEF SendControl, Write
  <2>7. ASSUME NEW d \in End, NEW w \in Windows, NEW t \in LimitTypes, SendLimit(d, w, t)
        PROVE  reader'[e] = reader[e]
    BY <2>7 DEF SendLimit, SendControl, Write
  <2>8. ASSUME NEW d \in End, NEW s \in AppSizes, SendMedia(d, s)
        PROVE  reader'[e] = reader[e]
    BY <2>8 DEF SendMedia, Write
  <2> QED BY <2>2, <2>3, <2>4, <2>5, <2>6, <2>7, <2>8 DEF Next
<1>2. SoftNeverWidens <=> [][\A e \in End : Kept(e)]_vars
  BY DEF SoftNeverWidens
<1>3. TypeOK /\ [Next]_vars => [\A e \in End : Kept(e)]_vars
  BY <1>1
<1> HIDE DEF Kept
<1> QED BY <1>2, <1>3, TypeCorrect, PTL DEF Spec

=============================================================================
