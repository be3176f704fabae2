--------------------------- MODULE MCChunkStream ---------------------------
(***************************************************************************)
(* Small instances of ChunkStream.  u32 is 0..7, the 24-bit marker 3, so   *)
(* every timestamp or delta of 3 and more needs the extended field.  Csid  *)
(* 2 is the control channel, 4 and 5 are media.                            *)
(***************************************************************************)
EXTENDS ChunkStream

MCByte == {0, 1, 2, 5}

\* A SetChunkSize body encodes its first byte.
MCSizeIn == [p \in {<<1>>, <<5>>} |-> p[1]]

SizeMessage(n) == <<2, [type |-> SetChunkSizeType, msid |-> 0, ts |-> 0, payload |-> <<n>>]>>

Media(c, types, times, payloads) ==
    {<<c, [type |-> y, msid |-> 1, ts |-> t, payload |-> p]>> :
        y \in types, t \in times, p \in payloads}

\* Csid 4 sees every header format: equal, growing and shrinking timestamps with
\* and without the extended field, a change of type, of length, of stream.
\* Csid 5 gives an interleaving muxer a second message to mix in.
MCTraffic ==
    {SizeMessage(1), SizeMessage(5)}
      \cup Media(4, {8}, {0, 1, 3, 6}, {<<>>, <<1, 2, 0>>})
      \cup Media(4, {9}, {6}, {<<1, 2, 0>>})
      \cup {<<4, [type |-> 8, msid |-> 2, ts |-> 6, payload |-> <<1, 2, 0>>]>>}
      \cup Media(5, {9}, {4}, {<<2, 2, 1>>})
=============================================================================
