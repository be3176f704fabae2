---------------------------- MODULE SharedObject ----------------------------
(***************************************************************************)
(* Shared object messages: src/shared_object.rs.                           *)
(*                                                                         *)
(* A message is a record [name, version, flags, events]; an event is a     *)
(* record with its code, the texts and the values it carries, and the data *)
(* of an event nobody knows:                                               *)
(*   Use, Release, Clear, UseSuccess   nothing,                            *)
(*   RequestChange   a name and a value,                                   *)
(*   Change          names, and a value for each of them,                  *)
(*   SendMessage     a handler and its arguments,                          *)
(*   Status          a code and a level,                                   *)
(*   Success, Remove, RequestRemove   a name.                              *)
(* Bytes are as in Amf.                                                    *)
(***************************************************************************)
EXTENDS Amf

Code == [
    Use |-> 1, Release |-> 2, RequestChange |-> 3, Change |-> 4, Success |-> 5, SendMessage |-> 6,
    Status |-> 7, Clear |-> 8, Remove |-> 9, RequestRemove |-> 10, UseSuccess |-> 11 ]

Amf0Object == 19   \* MSG_SHARED_OBJECT_AMF0
Amf3Object == 16   \* MSG_SHARED_OBJECT_AMF3

Event(code, texts, values, data) == [code |-> code, texts |-> texts, values |-> values, data |-> data]
SharedMessage(name, version, flags, events) ==
    [name |-> name, version |-> version, flags |-> flags, events |-> events]

-----------------------------------------------------------------------------
(* Reading. *)

\* Each value is read with tables of its own.
ReadValue(type, s) ==
    LET fresh == Reader(s.p) IN
    IF type = Amf3Object THEN Decode3(fresh, 0) ELSE Decode0(fresh, 0)

RECURSIVE ReadArguments(_, _), ReadProperties(_, _)

ReadArguments(type, s) ==
    IF s.p = <<>> THEN Ok(<<>>, s)
    ELSE Then(ReadValue(type, s), LAMBDA v, r :
            Then(ReadArguments(type, r), LAMBDA rest, q : Ok(<<v>> \o rest, q)))

ReadProperties(type, s) ==
    IF s.p = <<>> THEN Ok(<<>>, s)
    ELSE Then(ReadText(s), LAMBDA name, r :
            Then(ReadValue(type, r), LAMBDA v, q :
                Then(ReadProperties(type, q), LAMBDA rest, z : Ok(<<<<name, v>>>> \o rest, z))))

\* parse_events: one event of this code in data; what is left of the data is no matter.
ParseEvent(type, code, data) ==
    LET s == Reader(data) IN
    CASE code \in {Code.Use, Code.Release, Code.Clear, Code.UseSuccess} ->
            Ok(Event(code, <<>>, <<>>, <<>>), s)
      [] code = Code.RequestChange ->
            Then(ReadText(s), LAMBDA name, r :
                Then(ReadValue(type, r), LAMBDA v, q : Ok(Event(code, <<name>>, <<v>>, <<>>), q)))
      [] code = Code.Change ->
            Then(ReadProperties(type, s), LAMBDA pairs, r :
                Ok(Event(code, [i \in DOMAIN pairs |-> pairs[i][1]],
                               [i \in DOMAIN pairs |-> pairs[i][2]], <<>>), r))
      [] code = Code.Success /\ data = <<>> -> Ok(Event(code, <<<<>>>>, <<>>, <<>>), s)
      [] code \in {Code.Remove, Code.RequestRemove} \/ (code = Code.Success /\ data # <<>>) ->
            Then(ReadText(s), LAMBDA name, r : Ok(Event(code, <<name>>, <<>>, <<>>), r))
      [] code = Code.SendMessage ->
            Then(ReadText(s), LAMBDA handler, r :
                Then(ReadArguments(type, r), LAMBDA args, q :
                    Ok(Event(code, <<handler>>, args, <<>>), q)))
      [] code = Code.Status ->
            Then(ReadText(s), LAMBDA status, r :
                Then(ReadText(r), LAMBDA level, q :
                    Ok(Event(code, <<status, level>>, <<>>, <<>>), q)))
      [] code \notin 1 .. 11 -> Ok(Event(code, <<>>, <<>>, data), s)

RECURSIVE ParseEvents(_, _)
\* The events of a message: a code, the length of the data, the data.
ParseEvents(type, s) ==
    IF s.p = <<>> THEN Ok(<<>>, s)
    ELSE Then(Fields(s, 2), LAMBDA head, r :
            Then(Fields(r, head[2]), LAMBDA data, q :
                Then(ParseEvent(type, head[1], data), LAMBDA event, any :
                    Then(ParseEvents(type, q), LAMBDA rest, z : Ok(<<event>> \o rest, z)))))

\* parse_message: the name, the version, the flags, a reserved field, the events.
ParseMessage(type, payload) ==
    Then(ReadText(Reader(payload)), LAMBDA name, r :
        Then(Fields(r, 3), LAMBDA head, q :
            Then(ParseEvents(type, q), LAMBDA events, z :
                Ok(SharedMessage(name, head[1], head[2], events), z))))

\* SharedObjectMessage::to_amf0
Bridged(m) ==
    [m EXCEPT !.events = [i \in DOMAIN @ |->
        [@[i] EXCEPT !.values = [j \in DOMAIN @ |-> ToAmf0(@[j])]]]]

\* parse_shared_object
ParseSharedObject(type, payload) ==
    Then(ParseMessage(type, payload), LAMBDA m, r :
        Ok(IF type = Amf3Object THEN Bridged(m) ELSE m, r))

-----------------------------------------------------------------------------
(* Building. *)

WriteValue(type, v) == IF type = Amf3Object THEN Encode3(v) ELSE Encode0(v)

\* build_event, of texts that fit.
EventData(type, e) ==
    CASE e.code = Code.Change ->
            FlattenSeq([i \in DOMAIN e.texts |->
                           WriteText(e.texts[i]) \o WriteValue(type, e.values[i])])
      [] e.code = Code.Success /\ e.texts[1] = <<>> -> <<>>
      [] e.code \notin 1 .. 11 -> e.data
      [] OTHER -> FlattenSeq([i \in DOMAIN e.texts |-> WriteText(e.texts[i])])
                  \o FlattenSeq([i \in DOMAIN e.values |-> WriteValue(type, e.values[i])])

\* write_bare_string refuses a text whose length does not fit.
Buildable(m) ==
    /\ Len(m.name) <= ShortMax
    /\ \A i \in DOMAIN m.events : \A j \in DOMAIN m.events[i].texts :
          Len(m.events[i].texts[j]) <= ShortMax

\* build_message; <<>> when it fails.
BuildMessage(type, m) ==
    IF ~Buildable(m) THEN <<>>
    ELSE WriteText(m.name) \o <<m.version, m.flags, 0>>
         \o FlattenSeq([i \in DOMAIN m.events |->
                LET data == EventData(type, m.events[i])
                IN  <<m.events[i].code, Len(data)>> \o data])
=============================================================================
