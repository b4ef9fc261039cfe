------------------------------- MODULE Packet -------------------------------
(***************************************************************************)
(* RawPacket (aster_fsd_codec): frames of the classic family cut at their  *)
(* colons and put together again.                                          *)
(*                                                                         *)
(* A string is the sequence of its colon-free segments, so that joining    *)
(* strings with colons is concatenation and splitting one again is the     *)
(* identity on the result.  A frame keeps the command letters and the      *)
(* identifier glued to them apart; every other byte is in a segment.       *)
(***************************************************************************)
EXTENDS Naturals, Sequences, SequencesExt

CONSTANTS
  Segment,  \* strings without a colon
  Size,     \* the bytes of each
  Broken    \* those with CR or LF in them: no frame carries one, JSON may

\* A segment with nothing in it: between two colons, or where a field is absent.
Empty == ""

ASSUME PacketAssumption ==
  /\ Size \in [Segment -> Nat] /\ Empty \in Segment /\ Size[Empty] = 0
  /\ Broken \subseteq Segment

\* The prefix byte, the command letters (none after %, the mode after @), what
\* follows them up to the first colon, and the segments after it.
Frame(prefix, command, head, rest) ==
  [prefix |-> prefix, command |-> command, head |-> head, rest |-> rest]

\* What a line of bytes is cut into.
IsFrame(frame) ==
  /\ frame = Frame(frame.prefix, frame.command, frame.head, frame.rest)
  /\ frame.prefix \in {"?", "@", "%", "#", "$", "!", "&", "-"}
  /\ (frame.prefix = "%" => frame.command = Empty)
  /\ frame.head \in Segment /\ frame.rest \in Seq(Segment)

command_bytes(command) ==
  CASE command \in {Empty, "?"} -> 0
    [] command \in {"N", "S", "Y"} -> 1
    [] OTHER -> 2

\* Every segment after the first follows a colon.
frame_bytes(frame) ==
  LET upto[i \in 0 .. Len(frame.rest)] ==
        IF i = 0 THEN 1 + command_bytes(frame.command) + Size[frame.head]
        ELSE upto[i - 1] + 1 + Size[frame.rest[i]]
  IN  upto[Len(frame.rest)]

\* RawPacket: the destination and the fields are strings.
Packet(kind, command, source, destination, fields) ==
  [kind |-> kind, command |-> command, source |-> source,
   destination |-> destination, fields |-> fields]

Ok(value) == [ok |-> TRUE, value |-> value]
Err(error) == [ok |-> FALSE, error |-> error]
-----------------------------------------------------------------------------
Single(segments) == [i \in 1 .. Len(segments) |-> <<segments[i]>>]

\* The callsign follows the mode letter directly (compact) or after a colon.
parse_pilot(frame) ==
  LET compact == frame.head # Empty
      source  == IF compact THEN frame.head ELSE frame.rest[1]
  IN  IF frame.command \notin {"N", "S", "Y"} THEN Err("InvalidCommand")
      ELSE IF ~ compact /\ (frame.rest = <<>> \/ frame.rest[1] = Empty) THEN Err("Missing")
      ELSE Ok(Packet("@", frame.command, source, <<Empty>>,
                     Single(IF compact THEN frame.rest ELSE Tail(frame.rest))))

parse_atc(frame) ==
  IF frame.head = Empty THEN Err("Missing")
  ELSE Ok(Packet("%", Empty, frame.head, <<Empty>>, Single(frame.rest)))

\* The command "?" stands for a head of fewer than two bytes or not in ASCII.
parse_command(frame) ==
  IF frame.rest = <<>> THEN Err("Missing")
  ELSE IF frame.command = "?" THEN Err("InvalidCommand")
  ELSE LET second  == frame.rest[1]
           swapped == frame.command = "DI"
       IN  Ok(Packet(frame.prefix, frame.command,
                     IF swapped THEN second ELSE frame.head,
                     <<IF swapped THEN frame.head ELSE second>>,
                     Single(Tail(frame.rest))))

\* The prefix "?" stands for an empty frame, an unknown prefix or invalid UTF-8.
parse(frame) ==
  CASE frame.prefix = "?" -> Err("UnknownPrefix")
    [] frame.prefix = "@" -> parse_pilot(frame)
    [] frame.prefix = "%" -> parse_atc(frame)
    [] OTHER -> parse_command(frame)
-----------------------------------------------------------------------------
\* Mutant of assemble: $DI is written like every other command.
assemble_unswapped(packet) ==
  LET fields == FlattenSeq(packet.fields)
  IN  CASE packet.kind = "@" -> Frame("@", packet.command, Empty, <<packet.source>> \o fields)
        [] packet.kind = "%" -> Frame("%", Empty, packet.source, fields)
        [] OTHER -> Frame(packet.kind, packet.command, packet.source, packet.destination \o fields)

\* The bytes encode writes before it checks them.
assemble(packet) ==
  LET fields == FlattenSeq(packet.fields)
  IN  CASE packet.kind = "@" -> Frame("@", packet.command, Empty, <<packet.source>> \o fields)
        [] packet.kind = "%" -> Frame("%", Empty, packet.source, fields)
        [] packet.command = "DI" ->
             Frame(packet.kind, "DI", packet.destination[1], <<packet.source>> \o fields)
        [] OTHER -> Frame(packet.kind, packet.command, packet.source, packet.destination \o fields)

fits(frame, max_frame_bytes) == frame_bytes(frame) <= max_frame_bytes

encode_packet(packet, max_frame_bytes) ==
  LET frame == assemble(packet)
  IN  IF ~ fits(frame, max_frame_bytes) THEN Err("FrameTooLong")
      ELSE IF frame.head \in Broken \/ \E i \in 1 .. Len(frame.rest) : frame.rest[i] \in Broken
           THEN Err("EmbeddedDelimiter")
      ELSE Ok(frame)
=============================================================================
