-------------------------------- MODULE Amf --------------------------------
(***************************************************************************)
(* The AMF0 and AMF3 codecs: src/amf.rs, src/amf3.rs.                      *)
(*                                                                         *)
(* Bytes are a sequence of numbers: one number for each byte, and one for  *)
(* each double, 16-bit and 32-bit field; the variable-length U29 of AMF3   *)
(* has its real bytes.  A text is a sequence of characters of one byte.    *)
(* Numbers are whole, which doubles carry exactly.                         *)
(*                                                                         *)
(* A value is a record whose t names its type; the AMF0 types are          *)
(*   number boolean string null undefined date unsupported xml  with v,    *)
(*   object ecma typed  with class and pairs,  strict  with items,         *)
(* and those of AMF3                                                       *)
(*   undefined null boolean integer double string xmldoc xml date  with v, *)
(*   array  with dense and assoc,  instance  with class, dynamic, sealed,  *)
(*   members and external,  bytes ints uints doubles  with fixed and       *)
(*   items,  objects  with fixed, class and items,                         *)
(*   dictionary  with weak and entries.                                    *)
(***************************************************************************)
EXTENDS Integers, Sequences, SequencesExt

CONSTANTS
    MaxDepth,   \* MAX_DECODE_DEPTH (64)
    ShortMax    \* the longest text of an AMF0 short string (65535)

Scalar(t, v) == [t |-> t, v |-> v]
Null == Scalar("null", <<>>)
Pairs(t, class, pairs) == [t |-> t, class |-> class, pairs |-> pairs]
Strict(items) == [t |-> "strict", items |-> items]
Vector(t, fixed, items) == [t |-> t, fixed |-> fixed, items |-> items]
Flag(b) == IF b THEN 1 ELSE 0

-----------------------------------------------------------------------------
(* Reading: a reader is what is left of the bytes and the tables of what can be referred to; *)
(* reading yields a value and the reader behind it, or fails.                                *)

Reader(p) == [p |-> p, refs |-> <<>>, strings |-> <<>>, objects |-> <<>>, traits |-> <<>>]

Ok(v, s) == [ok |-> TRUE, v |-> v, s |-> s]
Fail == [ok |-> FALSE]
Then(r, Continue(_, _)) == IF r.ok THEN Continue(r.v, r.s) ELSE Fail

Field(s) == IF s.p = <<>> THEN Fail ELSE Ok(s.p[1], [s EXCEPT !.p = Tail(@)])

Fields(s, n) ==
    IF Len(s.p) < n THEN Fail
    ELSE Ok(SubSeq(s.p, 1, n), [s EXCEPT !.p = SubSeq(@, n + 1, Len(@))])

Lookup(table, i, s) == IF i < Len(table) THEN Ok(table[i + 1], s) ELSE Fail

\* read_u29: seven bits of each of the first three bytes, all eight of the fourth.
RECURSIVE ReadU29(_, _, _)
ReadU29(s, value, i) ==
    Then(Field(s), LAMBDA b, r :
        CASE i = 4 -> Ok(value * 256 + b, r)
          [] i < 4 /\ b < 128 -> Ok(value * 128 + b, r)
          [] i < 4 /\ b >= 128 -> ReadU29(r, value * 128 + b - 128, i + 1))

U29(s) == ReadU29(s, 0, 1)

\* Fault: four bytes of seven bits each.
FaultSevenBits(v) ==
    IF v < 128 THEN <<v>>
    ELSE IF v < 2^14 THEN <<128 + v \div 128, v % 128>>
    ELSE IF v < 2^21 THEN <<128 + v \div 2^14, 128 + ((v \div 128) % 128), v % 128>>
    ELSE <<128 + v \div 2^21, 128 + ((v \div 2^14) % 128), 128 + ((v \div 128) % 128), v % 128>>

\* write_u29
WriteU29(v) ==
    IF v < 128 THEN <<v>>
    ELSE IF v < 2^14 THEN <<128 + v \div 128, v % 128>>
    ELSE IF v < 2^21 THEN <<128 + v \div 2^14, 128 + ((v \div 128) % 128), v % 128>>
    ELSE <<128 + v \div 2^22, 128 + ((v \div 2^15) % 128), 128 + ((v \div 2^8) % 128), v % 256>>

-----------------------------------------------------------------------------
(* AMF3. *)

\* read_i29
SignExtended29(v) == IF v >= 2^28 THEN v - 2^29 ELSE v

\* Fault: every literal text goes into the table.
FaultEmptyTabled(s) ==
    Then(U29(s), LAMBDA h, r :
        IF h % 2 = 0 THEN Lookup(r.strings, h \div 2, r)
        ELSE Then(Fields(r, h \div 2), LAMBDA text, q :
                Ok(text, [q EXCEPT !.strings = Append(@, text)])))

\* read_string: the empty text is never in the table.
ReadString(s) ==
    Then(U29(s), LAMBDA h, r :
        IF h % 2 = 0 THEN Lookup(r.strings, h \div 2, r)
        ELSE Then(Fields(r, h \div 2), LAMBDA text, q :
                Ok(text, IF text = <<>> THEN q ELSE [q EXCEPT !.strings = Append(@, text)])))

\* A value that is in the object table, or a literal whose header is h.
Referred(s, Literal(_, _)) ==
    Then(U29(s), LAMBDA h, r :
        IF h % 2 = 0 THEN Lookup(r.objects, h \div 2, r) ELSE Literal(h \div 2, r))

Tabled(v, s) == Ok(v, [s EXCEPT !.objects = Append(@, v)])

\* A container takes its place in the table before what it contains is read, and holds null
\* there until then.
Contained(s, Read(_)) ==
    LET slot == Len(s.objects) + 1 IN
    Then(Read([s EXCEPT !.objects = Append(@, Null)]), LAMBDA v, r :
        Ok(v, [r EXCEPT !.objects[slot] = v]))

\* read_object_string: the table does not tell the two kinds of XML apart.
ReadXml(s, t) ==
    Then(Referred(s, LAMBDA n, r :
            Then(Fields(r, n), LAMBDA text, q : Tabled(Scalar("xmldoc", text), q))),
         LAMBDA v, r : IF v.t \in {"xml", "xmldoc"} THEN Ok(Scalar(t, v.v), r) ELSE Fail)

RECURSIVE ReadStrings(_, _)
ReadStrings(n, s) ==
    IF n = 0 THEN Ok(<<>>, s)
    ELSE Then(ReadString(s), LAMBDA text, r :
            Then(ReadStrings(n - 1, r), LAMBDA rest, q : Ok(<<text>> \o rest, q)))

RECURSIVE Decode3(_, _), ReadValues(_, _, _), ReadMembers(_, _)

\* A count of values.
ReadValues(n, s, d) ==
    IF n = 0 THEN Ok(<<>>, s)
    ELSE Then(Decode3(s, d), LAMBDA v, r :
            Then(ReadValues(n - 1, r, d), LAMBDA rest, q : Ok(<<v>> \o rest, q)))

\* Names and values up to an empty name.
ReadMembers(s, d) ==
    Then(ReadString(s), LAMBDA name, r :
        IF name = <<>> THEN Ok(<<>>, r)
        ELSE Then(Decode3(r, d), LAMBDA v, q :
                Then(ReadMembers(q, d), LAMBDA rest, z : Ok(<<<<name, v>>>> \o rest, z))))

\* read_array
ReadArray(n, s, d) ==
    Contained(s, LAMBDA r :
        Then(ReadMembers(r, d), LAMBDA assoc, q :
            Then(ReadValues(n, q, d), LAMBDA dense, z :
                Ok([t |-> "array", dense |-> dense, assoc |-> assoc], z))))

\* The traits of an object: those of an earlier one, or its own.  h is the header without its
\* lowest bit.
ReadTraits(h, s) ==
    IF h % 2 = 0 THEN Lookup(s.traits, h \div 2, s)
    ELSE Then(ReadString(s), LAMBDA class, r :
            Then(ReadStrings(h \div 8, r), LAMBDA names, q :
                LET traits == [class |-> class, external |-> (h \div 2) % 2 = 1,
                               dynamic |-> (h \div 4) % 2 = 1, names |-> names]
                IN  Ok(traits, [q EXCEPT !.traits = Append(@, traits)])))

\* read_object, where no class has a reader of its own.
ReadInstance(traits, s, d) ==
    IF traits.external THEN Fail
    ELSE Contained(s, LAMBDA r :
            Then(ReadValues(Len(traits.names), r, d), LAMBDA values, q :
                Then(IF traits.dynamic THEN ReadMembers(q, d) ELSE Ok(<<>>, q), LAMBDA members, z :
                    Ok([t |-> "instance", class |-> traits.class, dynamic |-> traits.dynamic,
                        sealed |-> [i \in DOMAIN values |-> <<traits.names[i], values[i]>>],
                        members |-> members], z))))

\* read_vector_object
ReadObjects(n, s, d) ==
    Then(Field(s), LAMBDA fixed, r :
        Then(ReadString(r), LAMBDA class, q :
            Contained(q, LAMBDA y :
                Then(ReadValues(n, y, d), LAMBDA items, z :
                    Ok([t |-> "objects", fixed |-> fixed # 0, class |-> class, items |-> items],
                       z)))))

\* read_dictionary
ReadDictionary(n, s, d) ==
    Then(Field(s), LAMBDA weak, r :
        Contained(r, LAMBDA y :
            Then(ReadValues(2 * n, y, d), LAMBDA flat, z :
                Ok([t |-> "dictionary", weak |-> weak # 0,
                    entries |-> [i \in 1 .. n |-> <<flat[2 * i - 1], flat[2 * i]>>]], z))))

\* read_vector_int, read_vector_uint, read_vector_double
ReadVector(t, s) ==
    Referred(s, LAMBDA n, r :
        Then(Field(r), LAMBDA fixed, q :
            Then(Fields(q, n), LAMBDA items, z : Tabled(Vector(t, fixed # 0, items), z))))

\* decode_inner
Value3(m, s, d) ==
    CASE m = 0 -> Ok(Scalar("undefined", <<>>), s)
      [] m = 1 -> Ok(Null, s)
      [] m = 2 -> Ok(Scalar("boolean", <<0>>), s)
      [] m = 3 -> Ok(Scalar("boolean", <<1>>), s)
      [] m = 4 -> Then(U29(s), LAMBDA n, r : Ok(Scalar("integer", <<SignExtended29(n)>>), r))
      [] m = 5 -> Then(Field(s), LAMBDA n, r : Ok(Scalar("double", <<n>>), r))
      [] m = 6 -> Then(ReadString(s), LAMBDA text, r : Ok(Scalar("string", text), r))
      [] m = 7 -> ReadXml(s, "xmldoc")
      [] m = 8 -> Referred(s, LAMBDA h, r :
                     Then(Field(r), LAMBDA n, q : Tabled(Scalar("date", <<n>>), q)))
      [] m = 9 -> Referred(s, LAMBDA n, r : ReadArray(n, r, d))
      [] m = 10 -> Referred(s, LAMBDA h, r :
                     Then(ReadTraits(h, r), LAMBDA traits, q : ReadInstance(traits, q, d)))
      [] m = 11 -> ReadXml(s, "xml")
      [] m = 12 -> Referred(s, LAMBDA n, r :
                     Then(Fields(r, n), LAMBDA items, q : Tabled(Vector("bytes", FALSE, items), q)))
      [] m = 13 -> ReadVector("ints", s)
      [] m = 14 -> ReadVector("uints", s)
      [] m = 15 -> ReadVector("doubles", s)
      [] m = 16 -> Referred(s, LAMBDA n, r : ReadObjects(n, r, d))
      [] m = 17 -> Referred(s, LAMBDA n, r : ReadDictionary(n, r, d))
      [] OTHER -> Fail

\* Decoder::decode
Decode3(s, d) ==
    IF d >= MaxDepth THEN Fail ELSE Then(Field(s), LAMBDA m, r : Value3(m, r, d + 1))

\* write_u29_string
WriteString(text) == WriteU29(2 * Len(text) + 1) \o text

RECURSIVE Encode3(_)
\* encode, which writes every value and text out and never refers to one.
Encode3(v) ==
    LET named(pairs) == FlattenSeq([i \in DOMAIN pairs |->
                                       WriteString(pairs[i][1]) \o Encode3(pairs[i][2])])
        all(values) == FlattenSeq([i \in DOMAIN values |-> Encode3(values[i])])
        count(values) == WriteU29(2 * Len(values) + 1)
    IN
    CASE v.t = "undefined" -> <<0>>
      [] v.t = "null" -> <<1>>
      [] v.t = "boolean" -> <<2 + v.v[1]>>
      [] v.t = "integer" -> IF v.v[1] \in -(2^28) .. 2^28 - 1
                            THEN <<4>> \o WriteU29(v.v[1] % 2^29) ELSE <<5, v.v[1]>>
      [] v.t = "double" -> <<5>> \o v.v
      [] v.t = "string" -> <<6>> \o WriteString(v.v)
      [] v.t = "xmldoc" -> <<7>> \o WriteString(v.v)
      [] v.t = "xml" -> <<11>> \o WriteString(v.v)
      [] v.t = "date" -> <<8, 1>> \o v.v
      [] v.t = "array" -> <<9>> \o count(v.dense) \o named(v.assoc) \o <<1>> \o all(v.dense)
      [] v.t = "instance" ->
            <<10>> \o WriteU29(16 * Len(v.sealed) + 8 * Flag(v.dynamic) + 3) \o WriteString(v.class)
                   \o FlattenSeq([i \in DOMAIN v.sealed |-> WriteString(v.sealed[i][1])])
                   \o FlattenSeq([i \in DOMAIN v.sealed |-> Encode3(v.sealed[i][2])])
                   \o (IF v.dynamic THEN named(v.members) \o <<1>> ELSE <<>>)
      [] v.t = "bytes" -> <<12>> \o count(v.items) \o v.items
      [] v.t \in {"ints", "uints", "doubles"} ->
            <<CASE v.t = "ints" -> 13 [] v.t = "uints" -> 14 [] v.t = "doubles" -> 15>>
                   \o count(v.items) \o <<Flag(v.fixed)>> \o v.items
      [] v.t = "objects" ->
            <<16>> \o count(v.items) \o <<Flag(v.fixed)>> \o WriteString(v.class) \o all(v.items)
      [] v.t = "dictionary" ->
            <<17>> \o count(v.entries) \o <<Flag(v.weak)>>
                   \o FlattenSeq([i \in DOMAIN v.entries |->
                                     Encode3(v.entries[i][1]) \o Encode3(v.entries[i][2])])

-----------------------------------------------------------------------------
(* From AMF3 to AMF0. *)

Digit(n) == 48 + n
RECURSIVE Decimal(_)
Decimal(n) ==
    IF n < 0 THEN <<45>> \o Decimal(-n)
    ELSE IF n < 10 THEN <<Digit(n)>> ELSE Append(Decimal(n \div 10), Digit(n % 10))

\* A word the code spells out is one character.
Word == [false |-> 301, true |-> 302, null |-> 303, undefined |-> 304, object |-> 305]

\* amf3_key_to_string
KeyText(k) ==
    CASE k.t \in {"string", "xml", "xmldoc"} -> k.v
      [] k.t \in {"integer", "double"} -> Decimal(k.v[1])
      [] k.t = "boolean" -> <<IF k.v[1] = 1 THEN Word.true ELSE Word.false>>
      [] k.t = "null" -> <<Word.null>>
      [] k.t = "undefined" -> <<Word.undefined>>
      [] OTHER -> <<Word.object>>

RECURSIVE ToAmf0(_)
\* Amf3Value::to_amf0
ToAmf0(v) ==
    LET named(pairs) == [i \in DOMAIN pairs |-> <<pairs[i][1], ToAmf0(pairs[i][2])>>]
    IN
    CASE v.t \in {"undefined", "null", "boolean", "string"} -> v
      [] v.t \in {"integer", "double"} -> Scalar("number", v.v)
      [] v.t \in {"xml", "xmldoc"} -> Scalar("string", v.v)
      [] v.t = "date" -> Scalar("date", v.v \o <<0>>)
      [] v.t = "array" ->
            Pairs("ecma", <<>>, [i \in DOMAIN v.dense |-> <<Decimal(i - 1), ToAmf0(v.dense[i])>>]
                                \o named(v.assoc))
      [] v.t = "instance" -> Pairs("object", <<>>, named(v.sealed) \o named(v.members))
      [] v.t \in {"bytes", "ints", "uints", "doubles"} ->
            Strict([i \in DOMAIN v.items |-> Scalar("number", <<v.items[i]>>)])
      [] v.t = "objects" -> Strict([i \in DOMAIN v.items |-> ToAmf0(v.items[i])])
      [] v.t = "dictionary" ->
            Pairs("ecma", <<>>, [i \in DOMAIN v.entries |->
                                    <<KeyText(v.entries[i][1]), ToAmf0(v.entries[i][2])>>])

-----------------------------------------------------------------------------
(* AMF0. *)

\* read_utf8_short, read_utf8_long
ReadText(s) == Then(Field(s), LAMBDA n, r : Fields(r, n))

RECURSIVE Decode0(_, _), ReadItems(_, _, _), ReadPairs(_, _)

ReadItems(n, s, d) ==
    IF n = 0 THEN Ok(<<>>, s)
    ELSE Then(Decode0(s, d), LAMBDA v, r :
            Then(ReadItems(n - 1, r, d), LAMBDA rest, q : Ok(<<v>> \o rest, q)))

\* read_object_body_at_depth: an empty key ends the body, and must be followed by the marker.
ReadPairs(s, d) ==
    Then(ReadText(s), LAMBDA key, r :
        IF key = <<>> THEN Then(Field(r), LAMBDA end, q : IF end = 9 THEN Ok(<<>>, q) ELSE Fail)
        ELSE Then(Decode0(r, d), LAMBDA v, q :
                Then(ReadPairs(q, d), LAMBDA rest, z : Ok(<<<<key, v>>>> \o rest, z))))

\* A complex value takes its place in the table, as an empty one, before it is read.
Placed(v, s, Read(_)) ==
    LET slot == Len(s.refs) + 1 IN
    Then(Read([s EXCEPT !.refs = Append(@, v)]), LAMBDA w, r :
        Ok(w, [r EXCEPT !.refs[slot] = w]))

WithPairs(t, class, s, d) ==
    Placed(Pairs(t, class, <<>>), s, LAMBDA r :
        Then(ReadPairs(r, d), LAMBDA pairs, q : Ok(Pairs(t, class, pairs), q)))

\* A value of AMF3 behind the avmplus marker has tables of its own.
Switched(s) ==
    Then(Decode3(Reader(s.p), 0), LAMBDA v, r : Ok(ToAmf0(v), [s EXCEPT !.p = r.p]))

\* decode_at_depth
Value0(m, s, d) ==
    CASE m = 0 -> Then(Field(s), LAMBDA n, r : Ok(Scalar("number", <<n>>), r))
      [] m = 1 -> Then(Field(s), LAMBDA b, r : Ok(Scalar("boolean", <<Flag(b # 0)>>), r))
      [] m \in {2, 12} -> Then(ReadText(s), LAMBDA text, r : Ok(Scalar("string", text), r))
      [] m = 3 -> WithPairs("object", <<>>, s, d)
      [] m = 5 -> Ok(Null, s)
      [] m = 6 -> Ok(Scalar("undefined", <<>>), s)
      [] m = 7 -> Then(Field(s), LAMBDA i, r : Lookup(r.refs, i, r))
      [] m = 8 -> Then(Field(s), LAMBDA n, r : WithPairs("ecma", <<>>, r, d))
      [] m = 10 -> Then(Field(s), LAMBDA n, r :
                     Placed(Strict(<<>>), r, LAMBDA q :
                        Then(ReadItems(n, q, d), LAMBDA items, z : Ok(Strict(items), z))))
      [] m = 11 -> Then(Fields(s, 2), LAMBDA date, r : Ok(Scalar("date", date), r))
      [] m = 13 -> Ok(Scalar("unsupported", <<>>), s)
      [] m = 15 -> Then(ReadText(s), LAMBDA text, r : Ok(Scalar("xml", text), r))
      [] m = 16 -> Then(ReadText(s), LAMBDA class, r : WithPairs("typed", class, r, d))
      [] m = 17 -> Switched(s)
      [] OTHER -> Fail

Decode0(s, d) ==
    IF d >= MaxDepth THEN Fail ELSE Then(Field(s), LAMBDA m, r : Value0(m, r, d + 1))

WriteText(text) == <<Len(text)>> \o text

\* The length of a key or a class name is written in 16 bits, whatever it is.
WriteKey(text) == <<Len(text) % (ShortMax + 1)>> \o text

RECURSIVE Encode0(_)
\* encode
Encode0(v) ==
    LET body == FlattenSeq([i \in DOMAIN v.pairs |->
                               WriteKey(v.pairs[i][1]) \o Encode0(v.pairs[i][2])]) \o <<0, 9>>
    IN
    CASE v.t = "number" -> <<0>> \o v.v
      [] v.t = "boolean" -> <<1>> \o v.v
      [] v.t = "string" -> <<IF Len(v.v) <= ShortMax THEN 2 ELSE 12>> \o WriteText(v.v)
      [] v.t = "null" -> <<5>>
      [] v.t = "undefined" -> <<6>>
      [] v.t = "object" -> <<3>> \o body
      [] v.t = "ecma" -> <<8, Len(v.pairs)>> \o body
      [] v.t = "strict" ->
            <<10, Len(v.items)>> \o FlattenSeq([i \in DOMAIN v.items |-> Encode0(v.items[i])])
      [] v.t = "date" -> <<11>> \o v.v
      [] v.t = "unsupported" -> <<13>>
      [] v.t = "xml" -> <<15>> \o WriteText(v.v)
      [] v.t = "typed" -> <<16>> \o WriteKey(v.class) \o body

-----------------------------------------------------------------------------
(* Messages. *)

RECURSIVE DecodeAll(_)
\* amf::decode_all: the values of one message share a table.
DecodeAll(s) ==
    IF s.p = <<>> THEN Ok(<<>>, s)
    ELSE Then(Decode0(s, 0), LAMBDA v, r :
            Then(DecodeAll(r), LAMBDA rest, q : Ok(<<v>> \o rest, q)))

AvmPlus == 17   \* AVMPLUS_OBJECT_MARKER

RECURSIVE DecodeDataMessage(_)
\* decode_data_message: AMF3 values that share their tables, each behind a marker or not.
DecodeDataMessage(s) ==
    IF s.p = <<>> THEN Ok(<<>>, s)
    ELSE Then(Decode3(IF s.p[1] = AvmPlus THEN [s EXCEPT !.p = Tail(@)] ELSE s, 0), LAMBDA v, r :
            Then(DecodeDataMessage(r), LAMBDA rest, q : Ok(<<ToAmf0(v)>> \o rest, q)))

\* decode_message_to_amf0
DecodeMessageToAmf0(p) ==
    IF p # <<>> /\ p[1] = 0 THEN DecodeAll(Reader(Tail(p))) ELSE DecodeDataMessage(Reader(p))
=============================================================================
