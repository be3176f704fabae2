------------------------------ MODULE FlvFile ------------------------------
(***************************************************************************)
(* An FLV file that is written and read back: FlvWriter and FlvReader      *)
(* (src/flv_file.rs) with the media tags of FlvTags and encrypted tags     *)
(* (src/flv_crypt.rs).  What an application records, and how the body of a *)
(* script tag is read, are parameters: Recording gives them.               *)
(*                                                                         *)
(* The file is a sequence of fields, as in FlvTags; sizes and positions    *)
(* count fields, so the header of a tag has a size of 5 (11 bytes) and     *)
(* that of the file one of 4 (9 bytes).                                    *)
(*                                                                         *)
(* What is written reaches the disk piece by piece; the disk may be full,  *)
(* the recorder may crash, somebody may damage a field of the file, one    *)
(* that a reader checks or one that it does not, and a reader may be at    *)
(* work while the file still grows.  A damaged DataSize, which moves all   *)
(* the framing behind it, is left out.                                     *)
(*                                                                         *)
(* tags, misheard, hurt, garbled and the last two fields of got are        *)
(* history.                                                                *)
(***************************************************************************)
EXTENDS FlvTags, FiniteSets

CONSTANTS
    MaxSize,   \* UI24_MAX: the largest payload of a tag
    TimeLow,   \* 2^24: the times of the field Timestamp
    Entries,   \* name -> set of entries an application may record (see Recording a tag)
    Scenes,    \* what happens: [menu, total, times, flags, cap, cuts, live, damage], see Init
    ReadScript(_),  \* what the body of a script tag reads as: [ok, name, value]
    Sayable(_)      \* whether the file format can carry what a tag says

ASSUME FileConstants ==
    /\ MaxSize \in Nat /\ TimeLow \in Nat \ {0}
    /\ \A s \in Scenes : /\ s.menu \in DOMAIN Entries /\ s.total \in Nat /\ s.cap \in Nat
                         /\ s.times \subseteq Nat /\ s.flags \subseteq {"audio", "video"}

VARIABLES
    scene,     \* the scene, fixed
    left,      \* how many items the application may still record
    disk,      \* the fields in the file
    pending,   \* fields handed to the disk that are not there yet
    writer,    \* [state, prev, written]: its last tag size and how much it has written
    tags,      \* what the tags handed to the disk are: [said, means, view, size, end]
    misheard,  \* what peers meant and a session handed out differently
    hurt,      \* what a reader sees damaged: None, 0 for the header, or the number of a tag
    garbled,   \* what is damaged where a reader does not look, likewise
    reader,    \* [state, pos, flags, last, read]: its last tag size and how much it has read
    got        \* what the reads returned: [res, whole, torn]

vars == <<scene, left, disk, pending, writer, tags, misheard, hurt, garbled, reader, got>>

Video == 9
Audio == 8
Script == 18
TypeOf(kind) == IF kind = "video" THEN Video ELSE Audio

Signature == 70
Version == 1
FileHeader == 4
TagHeader == 5
TagSize(size) == TagHeader + size

-----------------------------------------------------------------------------
(* What a read returns. *)

Returned(what) == [what |-> what]
End == Returned("end")
Torn == Returned("torn")
Refused == Returned("refused")      \* the header or the back-pointer is wrong
Unreadable == Returned("unreadable")  \* the tag is whole, its body cannot be parsed

Media(kind, ts, tag) == [what |-> kind, ts |-> ts, tag |-> tag]
ScriptData(ts, name, value) == [what |-> "script", ts |-> ts, name |-> name, value |-> value]
Unknown(type, ts, body) == [what |-> "unknown", type |-> type, ts |-> ts, body |-> body]
Encrypted(type, ts, crypt) == [what |-> "encrypted", type |-> type, ts |-> ts, crypt |-> crypt]

-----------------------------------------------------------------------------
(* Encrypted tags: [name, iv, body], where iv is None for a packet in the clear. *)

Encryption == <<320>>
Selective == <<321>>

\* The parameters: the vector, behind a byte of flags when the encryption is selective.
FilterParams(c) ==
    IF c.name = Selective THEN (IF c.iv = None THEN <<0>> ELSE <<128, c.iv>>) ELSE <<c.iv>>

\* EncryptedTag::encode
Envelope(c) ==
    <<1>> \o c.name \o <<0, Len(FilterParams(c))>> \o FilterParams(c) \o c.body

NotFiltered == [ok |-> FALSE]

Unfiltered(name, params, body) ==
    LET crypt(iv) == [ok |-> TRUE, crypt |-> [name |-> name, iv |-> iv, body |-> body]] IN
    CASE name = Encryption /\ params # <<>> -> crypt(params[1])
      [] name = Selective /\ params # <<>> /\ params[1] < 128 -> crypt(None)
      [] name = Selective /\ Len(params) >= 2 /\ params[1] >= 128 -> crypt(params[2])
      [] OTHER -> NotFiltered

\* parse_encrypted_body, behind the name that ends at position n.
FilteredAt(p, n) ==
    IF Len(p) < n + 2 \/ Len(p) < n + 2 + p[n + 2] THEN NotFiltered
    ELSE Unfiltered(SubSeq(p, 2, n), SubSeq(p, n + 3, n + 2 + p[n + 2]), From(p, n + 3 + p[n + 2]))

\* parse_encrypted_body
Filtered(p) ==
    IF p = <<>> \/ p[1] # 1 \/ \A i \in 2 .. Len(p) : p[i] # 0 THEN NotFiltered
    ELSE FilteredAt(p, (CHOOSE i \in 2 .. Len(p) : p[i] = 0 /\ \A j \in 2 .. i - 1 : p[j] # 0) - 1)

-----------------------------------------------------------------------------
(* Recording a tag.  An entry is the type and the payload of a tag, whether it is recorded at *)
(* a time or at 0, and what it is to be read back as; the type is None when a session's       *)
(* message is not recorded.  heard and means are what the session hands out and what its peer *)
(* meant, view is what an application is to make of what is read.                             *)

Entry(type, payload, timed, said, heard, means, view) ==
    [type |-> type, payload |-> payload, timed |-> timed, said |-> said,
     heard |-> heard, means |-> means, view |-> view]

TimedAt(said, ts) == IF "ts" \in DOMAIN said THEN [said EXCEPT !.ts = ts] ELSE said

\* Fault: a payload that is too long is written behind the low bits of its size.
FaultMaskedSize(type, ts, payload) ==
    <<type, Len(payload) % (MaxSize + 1), ts % TimeLow, ts \div TimeLow, 0>> \o payload

\* build_flv_tag; <<>> when it fails.
BuildTag(type, ts, payload) ==
    IF Len(payload) > MaxSize THEN <<>>
    ELSE <<type, Len(payload), ts % TimeLow, ts \div TimeLow, 0>> \o payload

-----------------------------------------------------------------------------
(* The writer and the disk. *)

FlagBit(k) == IF k = "audio" THEN 4 ELSE 1
FlagByte(flags) == (IF "audio" \in flags THEN 4 ELSE 0) + (IF "video" \in flags THEN 1 ELSE 0)
FlagsOf(b) == {k \in {"audio", "video"} : (b \div FlagBit(k)) % 2 = 1}

\* FlvWriter::new
Init ==
    /\ scene \in Scenes /\ left = scene.total
    /\ disk = <<>> /\ pending = <<Signature, Version, FlagByte(scene.flags), FileHeader, 0>>
    /\ writer = [state |-> "open", prev |-> 0, written |-> FileHeader + 1]
    /\ tags = <<>> /\ misheard = {} /\ hurt = None /\ garbled = None
    /\ reader = [state |-> "closed", pos |-> 0, flags |-> {}, last |-> 0, read |-> 0]
    /\ got = <<>>

\* Fault: the back-pointer of a tag is not counted.
FaultPointerUncounted(e, ts, tag) ==
    /\ pending' = pending \o tag \o <<Len(tag)>>
    /\ writer' = [writer EXCEPT !.prev = Len(tag), !.written = @ + Len(tag)]
    /\ tags' = Append(tags, [said |-> TimedAt(e.said, ts), means |-> e.means, view |-> e.view,
                             size |-> Len(e.payload),
                             end |-> Len(disk) + Len(pending) + Len(tag) + 1])

\* write_payload
WritePayload(e, ts, tag) ==
    /\ pending' = pending \o tag \o <<Len(tag)>>
    /\ writer' = [writer EXCEPT !.prev = Len(tag), !.written = @ + Len(tag) + 1]
    /\ tags' = Append(tags, [said |-> TimedAt(e.said, ts), means |-> e.means, view |-> e.view,
                             size |-> Len(e.payload),
                             end |-> Len(disk) + Len(pending) + Len(tag) + 1])

\* What nothing is written for: no frame, or an error of build_flv_tag.
Skipped ==
    UNCHANGED <<pending, writer, tags>>

RecordAt(e, ts, tag) == IF e.type = None \/ tag = <<>> THEN Skipped ELSE WritePayload(e, ts, tag)

Record ==
    /\ writer.state = "open" /\ left > 0
    /\ left' = left - 1
    /\ \E e \in Entries[scene.menu] : \E ts \in IF e.timed THEN scene.times ELSE {0} :
          /\ RecordAt(e, ts, BuildTag(e.type, ts, e.payload))
          /\ misheard' = misheard \cup IF e.heard = e.means THEN {} ELSE {e.means}
    /\ UNCHANGED <<scene, disk, hurt, garbled, reader, got>>

\* The sink passes some of what it has been given on to the disk.
Sink ==
    /\ scene.cuts /\ pending # <<>>
    /\ \E k \in 1 .. Len(pending) :
          disk' = disk \o SubSeq(pending, 1, k) /\ pending' = From(pending, k + 1)
    /\ UNCHANGED <<scene, left, writer, tags, misheard, hurt, garbled, reader, got>>

\* finish
Finish ==
    /\ writer.state = "open"
    /\ writer' = [writer EXCEPT !.state = "finished"]
    /\ disk' = disk \o pending /\ pending' = <<>>
    /\ UNCHANGED <<scene, left, tags, misheard, hurt, garbled, reader, got>>

\* A write fails and the recorder gives up, or it crashes: what is pending is lost.
Stop ==
    /\ scene.cuts /\ writer.state = "open"
    /\ writer' = [writer EXCEPT !.state = "gone"]
    /\ pending' = <<>>
    /\ UNCHANGED <<scene, left, disk, tags, misheard, hurt, garbled, reader, got>>

Whole == Cardinality({i \in DOMAIN tags : tags[i].end <= Len(disk)})

\* A file may be damaged once, when it is written and before it is read.
Damageable ==
    /\ scene.damage /\ hurt = None /\ garbled = None
    /\ writer.state # "open" /\ reader.state = "closed"

Spoil(at) ==
    /\ at <= Len(disk)
    /\ \E d \in {-1, 1} : disk[at] + d >= 0 /\ disk' = [disk EXCEPT ![at] = @ + d]

\* A field that a reader checks: of the header, or of a tag its stream id or its back-pointer.
Checked(i) == IF i = 0 THEN {1, 2, 4, 5} ELSE {tags[i].end - tags[i].size - 1, tags[i].end}

Damage ==
    /\ Damageable
    /\ \E i \in 0 .. Whole : hurt' = i /\ \E at \in Checked(i) : Spoil(at)
    /\ UNCHANGED <<scene, left, pending, writer, tags, misheard, garbled, reader, got>>

\* A field that it takes as it is: the flags of the header, or of a tag its type, its time or its
\* body.
Unchecked(i) ==
    LET end == tags[i].end
        n == tags[i].size
    IN  IF i = 0 THEN {3} ELSE {end - n - 5, end - n - 3, end - n - 2} \cup end - n .. end - 1

Garble ==
    /\ Damageable
    /\ \E i \in 0 .. Whole : garbled' = i /\ \E at \in Unchecked(i) : Spoil(at)
    /\ UNCHANGED <<scene, left, pending, writer, tags, misheard, hurt, reader, got>>

-----------------------------------------------------------------------------
(* The reader. *)

MediaOf(kind, ts, tag) == IF tag = Err THEN Unreadable ELSE Media(kind, ts, tag)
EncryptedOf(type, ts, r) == IF r.ok THEN Encrypted(type, ts, r.crypt) ELSE Unreadable
ScriptTag(ts, body, r) ==
    IF r.ok THEN ScriptData(ts, r.name, r.value) ELSE Unknown(Script, ts, body)

\* What read_tag makes of a whole tag.
TagOf(type, ts, body) ==
    CASE type >= 32 -> EncryptedOf(type % 32, ts, Filtered(body))
      [] type = Audio -> MediaOf("audio", ts, Parse("audio", body))
      [] type = Video -> MediaOf("video", ts, Parse("video", body))
      [] type = Script -> ScriptTag(ts, body, ReadScript(body))
      [] OTHER -> Unknown(type, ts, body)

\* How far a read gets: what it returns, how many fields it takes and counts, and the size of
\* the tag it has found whole.
Step(res, taken, counted, last) ==
    [res |-> res, taken |-> taken, counted |-> counted, last |-> last]
Failed(res, taken, counted) == Step(res, taken, counted, None)

\* read_tag over the fields p that are left.
TagAt(p, cap) ==
    IF p = <<>> THEN Failed(End, 0, 0)
    ELSE IF Len(p) < TagHeader THEN Failed(Torn, Len(p), 0)
    ELSE IF p[2] > cap \/ p[5] # 0 THEN Failed(Refused, TagHeader, TagHeader)
    ELSE IF Len(p) < TagSize(p[2]) THEN Failed(Torn, Len(p), TagHeader)
    ELSE IF Len(p) = TagSize(p[2]) THEN Failed(Torn, Len(p), Len(p))
    ELSE IF p[TagSize(p[2]) + 1] # TagSize(p[2])
         THEN Failed(Refused, TagSize(p[2]) + 1, TagSize(p[2]))
    ELSE Step(TagOf(p[1], p[3] + TimeLow * p[4], SubSeq(p, TagHeader + 1, TagSize(p[2]))),
              TagSize(p[2]) + 1, TagSize(p[2]) + 1, TagSize(p[2]))

\* FlvReader::new: the header may be longer than it is today, and PreviousTagSize0 is behind it.
Readable(p) ==
    /\ Len(p) >= FileHeader /\ p[1] = Signature /\ p[2] = Version /\ p[4] >= FileHeader
    /\ Len(p) > p[4] /\ p[p[4] + 1] = 0

Open ==
    /\ reader.state = "closed" /\ (scene.live \/ writer.state # "open")
    /\ reader' = IF Readable(disk)
                 THEN [state |-> "open", pos |-> disk[4] + 1, flags |-> FlagsOf(disk[3]),
                       last |-> 0, read |-> disk[4] + 1]
                 ELSE [reader EXCEPT !.state = "refused"]
    /\ UNCHANGED <<scene, left, disk, pending, writer, tags, misheard, hurt, garbled, got>>

\* Behind a tear or an unread body there is no framing, and the reading stops.
StateAfter(r) ==
    CASE r.res = End -> "ended"
      [] r.res = Torn \/ (r.res = Refused /\ r.taken = TagHeader) -> "lost"
      [] OTHER -> "open"

Reads(r) ==
    /\ got' = Append(got, [res |-> r.res, whole |-> Whole,
                           torn |-> IF Whole = 0 THEN Len(disk) > FileHeader + 1
                                    ELSE Len(disk) > tags[Whole].end])
    /\ reader' = [reader EXCEPT !.state = StateAfter(r), !.pos = @ + r.taken,
                                !.read = @ + r.counted,
                                !.last = IF r.last = None THEN @ ELSE r.last]

ReadTag ==
    /\ reader.state = "open"
    /\ Reads(TagAt(From(disk, reader.pos + 1), scene.cap))
    /\ UNCHANGED <<scene, left, disk, pending, writer, tags, misheard, hurt, garbled>>

-----------------------------------------------------------------------------
Next == Record \/ Sink \/ Finish \/ Stop \/ Damage \/ Garble \/ Open \/ ReadTag

Spec == Init /\ [][Next]_vars

-----------------------------------------------------------------------------
(* Properties. *)

\* The bookkeeping of both ends: the writer's and the reader's counts are where the file is.
TypeOK ==
    /\ left \in 0 .. scene.total
    /\ writer.state \in {"open", "finished", "gone"}
    /\ writer.state # "gone" => writer.written = Len(disk) + Len(pending)
    /\ writer.prev = IF tags = <<>> THEN 0 ELSE TagSize(tags[Len(tags)].size)
    /\ reader.state \in {"closed", "refused", "open", "ended", "lost"}
    /\ reader.pos <= Len(disk) /\ reader.read <= reader.pos
    /\ reader.state \in {"open", "ended"} =>
          /\ garbled # 0 => reader.flags = scene.flags
          /\ hurt = None => reader.read = reader.pos
    /\ Len(got) <= Len(tags) + 1

\* What the i-th tag of the file is to read as.
Expected(i) ==
    IF hurt = i \/ tags[i].size > scene.cap THEN Refused ELSE tags[i].said

\* Whether the i-th tag is read as it is to be: as what was written, if AMF0 can carry that, and
\* as some other tag when what is damaged is a field nobody checks.
Rightly(i, res) ==
    IF garbled = i /\ tags[i].size <= scene.cap THEN res # Refused
    ELSE res = Expected(i) \/ ~Sayable(tags[i].said)

\* What the proofs assume of the data: a tag has a type, and behind what is framed for an entry a
\* reader finds a tag that says what the entry is to be read back as.  It is about the codecs
\* alone, and TLC evaluates it on the entries of the runs.
SaysItself(e, ts) ==
    LET read == TagOf(e.type, ts, e.payload)
        said == TimedAt(e.said, ts)
    IN  read = said \/ ~Sayable(said)

EntriesRead ==
    \A s \in Scenes : \A e \in Entries[s.menu] :
        e.type # None =>
            /\ e.type \in Nat \ {0} /\ e.payload \in Seq(Int)
            /\ Len(e.payload) <= MaxSize =>
                  \A ts \in IF e.timed THEN s.times ELSE {0} : SaysItself(e, ts)

\* Whatever the disk lost and wherever the reader met a file that was still growing, each read
\* returns the tag that was written there (a value AMF0 cannot carry excepted), a clean end
\* exactly between two tags, and a tear exactly inside one.  A tag with a damaged stream id or
\* back-pointer is refused, and so is a file with a damaged signature, version, DataOffset or
\* PreviousTagSize0.  Damage of the type, the time or the body of a tag is not noticed: that tag
\* is read as another one, and all the others as what they are.  Behind a refused back-pointer
\* that is what the code does, against the documentation of FlvReader (README, Observations).
ReadsBack ==
    /\ hurt = 0 => reader.state \in {"closed", "refused"}
    /\ hurt = None /\ reader.state = "refused" => Len(disk) <= FileHeader \/ scene.live
    /\ \A i \in DOMAIN got :
          LET g == got[i] IN
          CASE g.res = End -> g.whole = i - 1 /\ ~g.torn
            [] g.res = Torn -> g.whole = i - 1 /\ g.torn
            [] OTHER -> /\ i \in DOMAIN tags /\ Rightly(i, g.res)
                        /\ i <= g.whole \/ tags[i].size > scene.cap
=============================================================================
