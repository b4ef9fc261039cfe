----------------------------- MODULE FrameCodec -----------------------------
(***************************************************************************)
(* FsdFrameCodec (aster_fsd_codec): a byte stream cut into bounded frames. *)
(*                                                                         *)
(* One end writes, the other reads through tokio's Framed: each read adds  *)
(* some of the bytes on the way to the buffer, and decode is called until  *)
(* it asks for more.  The writing end either uses the same codec or is a   *)
(* foreign peer that sends any bytes at all.                               *)
(***************************************************************************)
EXTENDS Naturals, Sequences, FiniteSets, SequencesExt

CONSTANTS
  Payload,          \* bytes that are no delimiters
  max_frame_bytes,  \* the limit of the listener, delimiters excluded
  MaxStream,        \* bound: bytes written by the codec
  MaxForeign,       \* bound: bytes sent by a foreign peer
  MaxFrame          \* bound: length of a frame handed to the encoder

CR == "CR"
LF == "LF"
Delimiter == {CR, LF}
Byte == Payload \cup Delimiter

\* FsdFrameCodec::new refuses a limit of zero.
ASSUME FrameCodecAssumption ==
  /\ Payload \cap Delimiter = {}
  /\ max_frame_bytes \in Nat \ {0}
  /\ MaxStream \in Nat /\ MaxForeign \in 0 .. MaxStream /\ MaxFrame \in Nat

VARIABLES
  peer,     \* who writes: "codec", "foreign", or "done" after an error or a close
  written,  \* the frames the codec peer has encoded
  stream,   \* every byte written
  taken,    \* how many of them have been read
  buffer,   \* the read buffer of Framed
  frames,   \* the frames handed to the connection
  reader    \* "reading", "decoding", "eof", or the end: "closed", "failed"

vars == <<peer, written, stream, taken, buffer, frames, reader>>

Init ==
  /\ peer \in {"codec", "foreign"}
  /\ written = <<>>
  /\ stream = <<>>
  /\ taken = 0
  /\ buffer = <<>>
  /\ frames = <<>>
  /\ reader = "reading"
-----------------------------------------------------------------------------
(***************************************************************************)
(* The decoder.                                                            *)
(***************************************************************************)
\* The first delimiter's position, zero-based as in the code.
delimiter_index(source) ==
  CHOOSE i \in 0 .. Len(source) - 1 :
    source[i + 1] \in Delimiter /\ \A j \in 1 .. i : source[j] \notin Delimiter

HasDelimiter(source) == \E i \in 1 .. Len(source) : source[i] \in Delimiter

advance(source, n) == SubSeq(source, n + 1, Len(source))

split_to(source, n) == SubSeq(source, 1, n)

\* Mutant of discard_delimiters: CR and LF are taken for one delimiter.
discard_pair(source) ==
  IF Len(source) > 1 /\ source[1] = CR /\ source[2] = LF THEN advance(source, 2)
  ELSE IF source # <<>> /\ source[1] \in Delimiter THEN advance(source, 1)
  ELSE source

discard_delimiters(source) ==
  LET leading == {i \in 1 .. Len(source) : \A j \in 1 .. i : source[j] \in Delimiter}
  IN  advance(source, Cardinality(leading))

\* Mutant of TooLong: one byte of slack.
slack_byte(n) == n > max_frame_bytes + 1

TooLong(n) == n > max_frame_bytes

\* What one call of decode does to the buffer and what it returns.  A frame it
\* cuts is never empty, so the code's second call of decode is never made.
Decoded(tag, source, frame) == [tag |-> tag, source |-> source, frame |-> frame]

\* Mutant of decode: the length of an unfinished frame is not checked.
decode_unbounded(input) ==
  LET source == discard_delimiters(input)
      index  == delimiter_index(source)
  IN  IF ~ HasDelimiter(source) THEN Decoded("none", source, <<>>)
      ELSE IF TooLong(index) THEN Decoded("error", discard_delimiters(advance(source, index)), <<>>)
      ELSE Decoded("some", discard_delimiters(advance(source, index)), split_to(source, index))

\* Mutant of decode: an overlong frame is skipped and the reader goes on.
decode_skipping(input) ==
  LET source == discard_delimiters(input)
      index  == delimiter_index(source)
  IN  IF HasDelimiter(source)
      THEN Decoded(IF TooLong(index) THEN "none" ELSE "some",
                   discard_delimiters(advance(source, index)), split_to(source, index))
      ELSE IF TooLong(Len(source)) THEN Decoded("error", <<>>, <<>>)
      ELSE Decoded("none", source, <<>>)

decode(input) ==
  LET source == discard_delimiters(input)
      index  == delimiter_index(source)
      rest   == discard_delimiters(advance(source, index))
  IN  IF HasDelimiter(source)
      THEN IF TooLong(index) THEN Decoded("error", rest, <<>>)
           ELSE Decoded("some", rest, split_to(source, index))
      ELSE IF TooLong(Len(source)) THEN Decoded("error", <<>>, <<>>)
      ELSE Decoded("none", source, <<>>)
-----------------------------------------------------------------------------
(***************************************************************************)
(* The encoder, and the two kinds of peer.                                 *)
(***************************************************************************)
\* Mutant of Encodable: the limit is all the encoder checks.
encodable_by_length(frame) == ~ TooLong(Len(frame))

\* The checks of both Encoder implementations.
Encodable(frame) == ~ TooLong(Len(frame)) /\ ~ HasDelimiter(frame)

\* A frame the encoder takes goes out with its delimiter; at the first one it
\* refuses the writer gives up and the connection is closed.
encode(frame) ==
  /\ peer = "codec"
  /\ \/ /\ Encodable(frame) /\ Len(stream) + Len(frame) + 2 <= MaxStream
        /\ stream' = stream \o frame \o <<CR, LF>>
        /\ written' = Append(written, frame)
        /\ UNCHANGED peer
     \/ /\ ~ Encodable(frame)
        /\ peer' = "done"
        /\ UNCHANGED <<stream, written>>
  /\ UNCHANGED <<taken, buffer, frames, reader>>

send_byte(b) ==
  /\ peer = "foreign"
  /\ Len(stream) < MaxForeign
  /\ stream' = Append(stream, b)
  /\ UNCHANGED <<peer, written, taken, buffer, frames, reader>>

hang_up ==
  /\ peer # "done"
  /\ peer' = "done"
  /\ UNCHANGED <<written, stream, taken, buffer, frames, reader>>
-----------------------------------------------------------------------------
(***************************************************************************)
(* Framed, as stream.next() in read_connection drives it.                  *)
(***************************************************************************)
\* One read returns some of the bytes on the way.
read(n) ==
  /\ reader = "reading"
  /\ n \in 1 .. Len(stream) - taken
  /\ buffer' = buffer \o SubSeq(stream, taken + 1, taken + n)
  /\ taken' = taken + n
  /\ reader' = "decoding"
  /\ UNCHANGED <<peer, written, stream, frames>>

\* A read of no bytes: the peer has closed and everything has been read.
read_eof ==
  /\ reader = "reading" /\ peer = "done" /\ taken = Len(stream)
  /\ reader' = "eof"
  /\ UNCHANGED <<peer, written, stream, taken, buffer, frames>>

\* At the end of the stream Framed decodes what is left, and bytes that make no
\* frame are an error.  An error of the codec ends read_connection.
next ==
  /\ reader \in {"decoding", "eof"}
  /\ LET result == decode(buffer)
     IN  /\ buffer' = result.source
         /\ \/ /\ result.tag = "some"
               /\ frames' = Append(frames, result.frame) /\ UNCHANGED reader
            \/ result.tag = "error" /\ reader' = "failed" /\ UNCHANGED frames
            \/ /\ result.tag = "none" /\ reader = "decoding"
               /\ reader' = "reading" /\ UNCHANGED frames
            \/ /\ result.tag = "none" /\ reader = "eof"
               /\ reader' = IF result.source = <<>> THEN "closed" ELSE "failed"
               /\ UNCHANGED frames
  /\ UNCHANGED <<peer, written, stream, taken>>

over ==
  /\ reader \in {"closed", "failed"} /\ peer = "done"
  /\ UNCHANGED vars

Next ==
  \/ \E frame \in SeqOf(Byte, MaxFrame) : encode(frame)
  \/ \E b \in Byte : send_byte(b)
  \/ hang_up
  \/ \E n \in 1 .. MaxStream : read(n)
  \/ read_eof \/ next \/ over

\* A readable socket is read and the buffer is decoded; peers do as they like.
Fairness == WF_vars(\E n \in 1 .. MaxStream : read(n)) /\ WF_vars(read_eof) /\ WF_vars(next)

Spec == Init /\ [][Next]_vars /\ Fairness
-----------------------------------------------------------------------------
(***************************************************************************)
(* The reference: the lines of a byte sequence are its maximal runs of     *)
(* payload bytes, whatever delimiters stand between them.                  *)
(***************************************************************************)
Starts(s) == {i \in 1 .. Len(s) : s[i] \in Payload /\ (i = 1 \/ s[i - 1] \in Delimiter)}

\* The last byte of the run that starts at i.
RunEnd(s, i) == CHOOSE j \in i .. Len(s) :
                /\ \A k \in i .. j : s[k] \in Payload
                /\ j = Len(s) \/ s[j + 1] \in Delimiter

Runs(s) == [k \in 1 .. Cardinality(Starts(s)) |->
              LET i == CHOOSE i \in Starts(s) : Cardinality({j \in Starts(s) : j <= i}) = k
              IN  SubSeq(s, i, RunEnd(s, i))]

\* The lines of s that a delimiter has ended.
Lines(s) == IF s # <<>> /\ s[Len(s)] \in Payload THEN Front(Runs(s)) ELSE Runs(s)

Received == SubSeq(stream, 1, taken)

\* However reads cut the stream, between two reads the connection has been handed
\* exactly the lines that have arrived whole, in order, byte for byte.
FramesAreLines ==
  /\ IsPrefix(frames, Lines(Received))
  /\ reader \in {"reading", "closed"} => frames = Lines(Received)

\* A frame is refused if and only if it is longer than the limit: every frame
\* handed on is within it, the decoder fails only at a line that is not (or at
\* bytes the peer never ended with a delimiter), and never reads past one.
LimitIsExact ==
  /\ \A k \in 1 .. Len(frames) : Len(frames[k]) \in 1 .. max_frame_bytes
  /\ reader = "failed" =>
       /\ Len(Runs(Received)) > Len(frames)
       /\ \/ Len(Runs(Received)[Len(frames) + 1]) > max_frame_bytes
          \/ /\ peer = "done" /\ taken = Len(stream)
             /\ stream[taken] \in Payload
  /\ reader = "reading" => \A run \in Range(Runs(Received)) : Len(run) <= max_frame_bytes

\* Between two reads the buffer never holds more than one frame of the limit.
BufferBounded == reader = "reading" => Len(buffer) <= max_frame_bytes

\* The frames of a sequence that are not empty.
NonEmpty(sent) ==
  LET kept[k \in 0 .. Len(sent)] ==
        IF k = 0 THEN <<>>
        ELSE IF sent[k] = <<>> THEN kept[k - 1] ELSE Append(kept[k - 1], sent[k])
  IN  kept[Len(sent)]

\* Two ends of this codec understand each other: what the reader is handed is what
\* the writer encoded, empty frames aside, and the reader never fails.
RoundTrip ==
  written # <<>> =>
    /\ IsPrefix(frames, NonEmpty(written))
    /\ reader # "failed"
    /\ reader = "closed" => frames = NonEmpty(written)

\* Every line the peer ends is handed on, unless the reader gives up on the stream.
LinesArrive ==
  \A k \in 1 .. MaxStream \div 2 :
    (Len(Lines(stream)) >= k) ~> (Len(frames) >= k \/ reader = "failed")
=============================================================================
