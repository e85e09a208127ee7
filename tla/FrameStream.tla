---------------------------- MODULE FrameStream ----------------------------
(***************************************************************************)
(* The bytes of a connection: ByteOrderDataStream over ByteOrderBuffer,    *)
(* SocketFrame::Write and Read with the frames of the three protocols, and *)
(* the receiving half of SocketFrameHandler, which finds segments and      *)
(* frames in whatever pieces TcpSocket::Read returns.  FrameChannel has    *)
(* the windows, the lost connections and both directions; here segments    *)
(* have bytes and a piece may end in the middle of any of them.            *)
(* An integer is the tuple of its bytes in the host's memory (a little     *)
(* endian one), a string the sequence of its characters.                   *)
(***************************************************************************)
EXTENDS Integers, Sequences, FiniteSets, SequencesExt, Bitwise

CONSTANTS
  Scripts,      (* [protocol, messages]: what one end sends the other       *)
  Services,     (* the service segments it may send in between              *)
  MaxServices,  (* bound on their number                                    *)
  SegmentSize,  (* m_segmentSize of both ends                               *)
  Window,       (* bound on the bytes written and not read                  *)
  ByteOrder     (* m_byteOrder of both ends: a bit per size, set for big    *)

ASSUME StreamAssumption ==
  /\ {SegmentSize, Window, MaxServices} \subseteq Nat \ {0}
  /\ ByteOrder \in 0 .. 7
  /\ \A script \in Scripts : script.protocol \in {"tools", "proxy", "coordinator"}

VARIABLES
  script,       (* the protocol, and the frames, in the order queued        *)
  output,       (* m_outputSegments of the sender                           *)
  written,      (* history: the segments written, in order                  *)
  wire,         (* the bytes written and not read                           *)
  handler       (* the receiver                                             *)

vars == <<script, output, written, wire, handler>>

(***************************************************************************)
(* Scalars.                                                                *)
(***************************************************************************)
\* GetTypeMask of an integer of that many bytes, on a little endian host.
TypeMask(width) == CASE width = 8 -> ByteOrder
                     [] width = 4 -> ByteOrder % 4
                     [] width = 2 -> ByteOrder % 2
                     [] OTHER -> 0

Places == [width \in {1, 2, 4, 8} |->
             [i \in 1 .. width |-> (TypeMask(width) ^^ (i - 1)) + 1]]

\* Both directions: *buffer++ = data[mask ^ i], and data[mask ^ i] = *buffer++.
Swapped(bytes) == [i \in 1 .. Len(bytes) |-> bytes[Places[Len(bytes)][i]]]

Bytes(number, width) ==
  [i \in 1 .. width |-> IF i > 3 THEN 0 ELSE (number \div 256^(i - 1)) % 256]
Number(bytes) ==
  FoldLeft(LAMBDA sum, i : sum + bytes[i] * 256^(i - 1), 0,
           [i \in 1 .. (IF Len(bytes) < 3 THEN Len(bytes) ELSE 3) |-> i])

Stream(data) == [data |-> data, pos |-> 0, eof |-> FALSE, value |-> << >>]

\* PosRead and MarkRead: what the buffer cannot supply leaves the position, and the mark
\* that it was asked for stays.
Block(stream, size) ==
  IF stream.pos + size > Len(stream.data)
  THEN [stream EXCEPT !.eof = TRUE, !.value = << >>]
  ELSE [stream EXCEPT !.pos = @ + size,
                      !.value = SubSeq(stream.data, stream.pos + 1, stream.pos + size)]

ReadScalar(stream, width) ==
  LET block == Block(stream, width)
  IN [block EXCEPT !.value = IF block.value = << >> THEN Bytes(0, width) ELSE Swapped(@)]

(***************************************************************************)
(* Kinds of values: scalars, strings and blobs, vectors, structures.       *)
(***************************************************************************)
Scalar(width) == [is |-> "scalar", width |-> width]
Text == [is |-> "text"]
ListOf(kind) == [is |-> "list", of |-> kind]
Struct(fields) == [is |-> "struct", fields |-> fields]

RECURSIVE Encode(_, _)
Encode(kind, value) ==
  CASE kind.is = "scalar" -> Swapped(value)
    [] kind.is = "text" -> Swapped(Bytes(Len(value), 4)) \o value
    [] kind.is = "list" ->
         FoldLeft(LAMBDA out, element : out \o Encode(kind.of, element),
                  Swapped(Bytes(Len(value), 4)), value)
    [] kind.is = "struct" ->
         FoldLeft(LAMBDA out, i : out \o Encode(kind.fields[i], value[i]),
                  << >>, [i \in DOMAIN kind.fields |-> i])

\* A vector longer than the data has bytes ends at the end of the data too.
RECURSIVE Decode(_, _)
Decode(kind, stream) ==
  CASE kind.is = "scalar" -> ReadScalar(stream, kind.width)
    [] kind.is = "text" ->
         LET size == ReadScalar(stream, 4)
         IN IF size.eof THEN [size EXCEPT !.value = << >>]
            ELSE Block(size, Number(size.value))
    [] kind.is = "list" ->
         LET size == ReadScalar(stream, 4)
             Element(list, i) ==
               LET element == Decode(kind.of, list)
               IN [element EXCEPT !.value = Append(list.value, @)]
         IN IF Number(size.value) > Len(stream.data)
            THEN [size EXCEPT !.eof = TRUE, !.value = << >>]
            ELSE FoldLeft(Element, [size EXCEPT !.value = << >>],
                          [i \in 1 .. Number(size.value) |-> i])
    [] kind.is = "struct" ->
         FoldLeft(LAMBDA struct, field :
                    LET value == Decode(field, struct)
                    IN [value EXCEPT !.value = Append(struct.value, @)],
                  [stream EXCEPT !.value = << >>], kind.fields)

(***************************************************************************)
(* Frames.                                                                 *)
(***************************************************************************)
None == 0
AckType == 1
LineTestType == 2
OptionsType == 3
StatusType == 4

CompressionInfo == Struct(<<Scalar(4), Scalar(4)>>)
ToolServerInfo ==
  Struct(<<Text, Text, Scalar(2), ListOf(Text), Scalar(2), Scalar(2), Scalar(2),
           ListOf(Struct(<<Scalar(2), Text, Scalar(8)>>))>>)
SessionInfo ==
  Struct(<<Text, Scalar(8), Scalar(8), Scalar(4), Scalar(4), Scalar(4)>>)

RemoteToolRequest == <<Text, Scalar(8), Text, ListOf(Text), Text, CompressionInfo>>
RemoteToolResponse == <<Scalar(1), Text, Text, Scalar(8), CompressionInfo>>
ToolsVersionRequest == << >>
ToolsVersionResponse == <<ListOf(Struct(<<Text, Text>>))>>
ToolProxyRequest == <<ListOf(Text), Text, Text>>
ToolProxyResponse == <<Scalar(1), Text>>
CoordinatorListRequest == << >>
CoordinatorListResponse ==
  <<ListOf(ToolServerInfo), ListOf(SessionInfo), ListOf(SessionInfo)>>
CoordinatorToolServerStatus == <<ToolServerInfo>>
CoordinatorToolServerSession == <<Scalar(1), SessionInfo>>

\* FrameTypeId, and what WriteInternal writes.
FramesOf(protocol) ==
  CASE protocol = "tools" ->
         [type \in 17 .. 20 |-> <<RemoteToolRequest, RemoteToolResponse,
                                  ToolsVersionRequest, ToolsVersionResponse>>[type - 16]]
    [] protocol = "proxy" ->
         [type \in 17 .. 18 |-> <<ToolProxyRequest, ToolProxyResponse>>[type - 16]]
    [] protocol = "coordinator" ->
         [type \in 17 .. 20 |->
            <<CoordinatorListRequest, CoordinatorListResponse,
              CoordinatorToolServerStatus, CoordinatorToolServerSession>>[type - 16]]

\* m_created, m_transactionId and m_replyToTransactionId, as in each SocketFrameExt.
Fields(protocol, type) ==
  Struct(<<Scalar(8), Scalar(8), Scalar(8)>> \o FramesOf(protocol)[type])

\* The length is written over the place kept for it.
Write(protocol, frame) ==
  LET content == Encode(Fields(protocol, frame.type), frame.value)
  IN Swapped(Bytes(Len(content), 4)) \o content

(***************************************************************************)
(* Arguments: TryFixDoubleQuotes, which ReadInternal of a request ends     *)
(* with, parses the whole list again when it finds one with a quote on one *)
(* end only.                                                               *)
(***************************************************************************)
Quote == 34
Backslash == 92
Space == 32

Quoted(arg) == arg[1] = Quote /\ Last(arg) = Quote
HasCorrectFormat(args) ==
  \A arg \in Range(args) :
    /\ arg # <<Quote>>
    /\ Len(arg) >= 2 /\ Quote \in {arg[1], Last(arg)} => Quoted(arg)

Consume(parse, force) ==
  LET current == IF parse.current # << >> /\ Last(parse.current) = Space
                 THEN Front(parse.current) ELSE parse.current
  IN [parse EXCEPT
        !.args = IF force \/ current # << >> THEN Append(@, current) ELSE @,
        !.current = << >>]

ParseChar(parse, c) ==
  LET Add == [parse EXCEPT !.current = Append(@, c)]
  IN CASE parse.escaped -> [Add EXCEPT !.escaped = FALSE]
       [] ~parse.escaped /\ parse.quoted ->
            IF c = Quote THEN Consume([parse EXCEPT !.quoted = FALSE], TRUE) ELSE Add
       [] OTHER ->
            CASE c = Quote -> [parse EXCEPT !.quoted = TRUE]
              [] c = Space -> Consume(parse, FALSE)
              [] c = Backslash -> [parse EXCEPT !.escaped = TRUE]
              [] OTHER -> Add

ParseArgumentList(args) ==
  LET ParseArg(parse, arg) ==
        LET end == FoldLeft(ParseChar, parse, arg)
        IN IF end.quoted THEN [end EXCEPT !.current = Append(@, Space)]
           ELSE Consume(end, FALSE)
      start == [args |-> << >>, current |-> << >>, quoted |-> FALSE, escaped |-> FALSE]
  IN Consume(FoldLeft(ParseArg, start, args), FALSE).args

TryFixDoubleQuotes(args) ==
  IF HasCorrectFormat(args) THEN args ELSE ParseArgumentList(args)

ArgsField == 7

IsRequest(protocol, type) == protocol = "tools" /\ type = 17

\* SocketFrame::Read, and the stream's state after it.
ReadFrame(protocol, type, data) ==
  LET length == ReadScalar(Stream(data), 4)
      frame == Decode(Fields(protocol, type), length)
  IN IF length.eof \/ Len(data) - 4 < Number(length.value)
     THEN [length EXCEPT !.eof = TRUE]
     ELSE IF IsRequest(protocol, type) /\ ~frame.eof
          THEN [frame EXCEPT !.value[ArgsField] = TryFixDoubleQuotes(@)]
          ELSE frame

(***************************************************************************)
(* The receiver: ReadFrames.                                               *)
(***************************************************************************)
NewHandler == [readBuffer |-> << >>, frameData |-> << >>, pending |-> None,
               taken |-> << >>, acknowledged |-> 0, options |-> 0,
               loads |-> << >>, lost |-> FALSE, valid |-> TRUE]

Behind(h, n) == [h EXCEPT !.readBuffer = SubSeq(@, n + 1, Len(@))]

\* The data of a whole segment.
UserSegment(h) ==
  LET size == Number(Swapped(SubSeq(h.readBuffer, 2, 5)))
      end == IF 5 + size < Len(h.readBuffer) THEN 5 + size ELSE Len(h.readBuffer)
  IN [Behind(h, end) EXCEPT !.frameData = @ \o SubSeq(h.readBuffer, 6, end)]

\* Mutant: what ReadBlock misses is not noticed.
IsWholeByLength(h) ==
  LET remain == Len(h.readBuffer) - 1
      size == Number(Swapped(SubSeq(h.readBuffer, 2, 5)))
  IN remain > 3 /\ size <= remain

\* Whether the buffer holds a segment of the application's frames: its length, which
\* is compared with all that follows the type, and then its data, which ReadBlock may
\* still miss.
IsWhole(h) ==
  LET remain == Len(h.readBuffer) - 1
      size == Number(Swapped(SubSeq(h.readBuffer, 2, 5)))
  IN remain > 3 /\ size <= remain /\ size <= remain - 4

TooLong(h) ==
  Len(h.readBuffer) > 4 /\ Number(Swapped(SubSeq(h.readBuffer, 2, 5))) > SegmentSize

\* Mutant: the amount of an acknowledge is read as two bytes.
AckSizeShort == 2

\* Of what follows a service segment's type.
AckSize == 4
OptionsSize == 16
StatusSize == 2

\* ConsumeReadBuffer until it has no more: a service segment that is not whole is read,
\* with what it lacks taken for zero, or, for connection options, for what was in the
\* variables: `garbage` is a version that is not ours.
RECURSIVE ConsumeReadBuffer(_, _, _)
ConsumeReadBuffer(h, protocol, garbage) ==
  LET type == h.readBuffer[1]
      remain == Len(h.readBuffer) - 1
      Value(width) == Number(Swapped(SubSeq(h.readBuffer, 2, 1 + width)))
      Next(n, after) ==
        IF remain < n THEN h
        ELSE ConsumeReadBuffer(Behind(after, n + 1), protocol, garbage)
      User == [h EXCEPT !.pending = type]
  IN CASE h.readBuffer = << >> -> h
       [] h.readBuffer # << >> /\ type = AckType ->
            Next(AckSize, [h EXCEPT !.acknowledged = @ + Value(AckSize)])
       [] h.readBuffer # << >> /\ type = LineTestType -> Next(0, h)
       [] h.readBuffer # << >> /\ type = OptionsType ->
            IF remain < OptionsSize THEN [h EXCEPT !.lost = garbage]
            ELSE Next(OptionsSize, [h EXCEPT !.options = @ + 1])
       [] h.readBuffer # << >> /\ type = StatusType ->
            IF remain < StatusSize THEN [h EXCEPT !.loads = Append(@, 0)]
            ELSE Next(StatusSize, [h EXCEPT !.loads = Append(@, Value(StatusSize))])
       [] OTHER ->
            CASE h.pending \notin {None, type} -> h
              [] h.pending \in {None, type} /\ type \notin DOMAIN FramesOf(protocol) ->
                   [h EXCEPT !.valid = FALSE]
              [] h.pending \in {None, type} /\ type \in DOMAIN FramesOf(protocol) ->
                   CASE TooLong(h) -> [User EXCEPT !.valid = FALSE]
                     [] ~TooLong(h) /\ ~IsWhole(h) -> User
                     [] ~TooLong(h) /\ IsWhole(h) ->
                          ConsumeReadBuffer(UserSegment(User), protocol, garbage)

RECURSIVE ConsumeFrameBuffer(_, _)
ConsumeFrameBuffer(h, protocol) ==
  IF h.pending = None \/ h.frameData = << >> \/ ~h.valid THEN h
  ELSE LET frame == ReadFrame(protocol, h.pending, h.frameData)
       IN IF frame.eof THEN h
          ELSE ConsumeFrameBuffer(
                 [h EXCEPT !.taken = Append(@, [type |-> h.pending, value |-> frame.value]),
                           !.frameData = SubSeq(@, frame.pos + 1, Len(@))], protocol)

ReadFrames(h, piece, protocol, garbage) ==
  LET segments == ConsumeReadBuffer([h EXCEPT !.readBuffer = @ \o piece], protocol, garbage)
      frames == ConsumeFrameBuffer(segments, protocol)
  IN CASE segments.lost -> segments
       [] ~segments.lost /\ ~frames.valid ->
            [frames EXCEPT !.readBuffer = << >>, !.frameData = << >>, !.pending = None,
                           !.valid = TRUE]
       [] OTHER -> [frames EXCEPT !.pending = IF frames.frameData = << >> THEN None ELSE @]

(***************************************************************************)
(* The sender: the segments of WriteFrames.                                *)
(***************************************************************************)
Segments(protocol, frame) ==
  LET data == Write(protocol, frame)
      count == (Len(data) + SegmentSize - 1) \div SegmentSize
  IN [k \in 1 .. count |->
        LET part == SubSeq(data, (k - 1) * SegmentSize + 1,
                           IF k = count THEN Len(data) ELSE k * SegmentSize)
        IN [type |-> frame.type, amount |-> 0,
            bytes |-> <<frame.type>> \o Swapped(Bytes(Len(part), 4)) \o part]]

\* An acknowledge, a line test, connection options or a connection status.
ServiceSegment(type, amount) ==
  [type |-> type, amount |-> amount,
   bytes |-> <<type>> \o
     CASE type = AckType -> Swapped(Bytes(amount, 4))
       [] type = LineTestType -> << >>
       [] type = OptionsType ->
            Swapped(Bytes(amount, 4)) \o Swapped(Bytes(1, 4)) \o Swapped(Bytes(0, 8))
       [] type = StatusType -> Swapped(Bytes(amount, 2))]

Init ==
  /\ script \in Scripts
  /\ output = FoldLeft(LAMBDA out, frame : out \o Segments(script.protocol, frame),
                       << >>, script.messages)
  /\ written = << >>
  /\ wire = << >>
  /\ handler = NewHandler

Send(segment) ==
  /\ Len(wire) < Window
  /\ wire' = wire \o segment.bytes
  /\ written' = Append(written, [type |-> segment.type, amount |-> segment.amount,
                                 size |-> Len(segment.bytes)])
  /\ UNCHANGED <<script, handler>>

WriteSegment ==
  /\ ~handler.lost /\ output # << >>
  /\ Send(Head(output))
  /\ output' = Tail(output)

IsService(segment) == segment.type < 16

\* They are put before the segments that wait.
WriteService(service) ==
  /\ ~handler.lost
  /\ Len(SelectSeq(written, IsService)) < MaxServices
  /\ Send(ServiceSegment(service.type, service.amount))
  /\ UNCHANGED output

\* TcpSocket::Read returns some of what has been written.
Read(size, garbage) ==
  /\ ~handler.lost
  /\ handler' = ReadFrames(handler, SubSeq(wire, 1, size), script.protocol, garbage)
  /\ wire' = SubSeq(wire, size + 1, Len(wire))
  /\ UNCHANGED <<script, output, written>>

\* Only connection options are read into variables without a value.
Garbage == IF \E segment \in Range(written) : segment.type = OptionsType
           THEN BOOLEAN ELSE {FALSE}

Next ==
  \/ WriteSegment
  \/ \E service \in Services : WriteService(service)
  \/ \E size \in 1 .. Len(wire), garbage \in Garbage : Read(size, garbage)

Spec == Init /\ [][Next]_vars

(***************************************************************************)
(* Properties.                                                             *)
(***************************************************************************)
\* A frame as it was sent; of a request whose arguments have a quote on one end only,
\* the other fields.
AsSent(frame, sent) ==
  /\ frame.type = sent.type
  /\ \A i \in DOMAIN sent.value :
       \/ frame.value[i] = sent.value[i]
       \/ IsRequest(script.protocol, sent.type) /\ i = ArgsField
          /\ ~HasCorrectFormat(sent.value[i])

\* Wherever TCP cuts the bytes, the frames taken are those sent, in order, field by
\* field (ReadFrames, SocketFrame::Read); and what waits for more data is the beginning
\* of the next frame, never the whole of one.
FramesArriveAsSent ==
  LET taken == handler.taken
      sent == script.messages
  IN /\ Len(taken) <= Len(sent)
     /\ \A i \in DOMAIN taken : AsSent(taken[i], sent[i])
     /\ handler.frameData # << >> /\ ~handler.lost =>
          /\ Len(taken) < Len(sent)
          /\ IsStrictPrefix(handler.frameData,
                            Write(script.protocol, sent[Len(taken) + 1]))

\* The segments written that the receiver has got to the end of.
Passed ==
  LET SizeOf(segments) == FoldLeft(LAMBDA n, s : n + s.size, 0, segments)
      consumed == SizeOf(written) - Len(wire) - Len(handler.readBuffer)
      count == CHOOSE n \in 0 .. Len(written) :
                 /\ SizeOf(SubSeq(written, 1, n)) <= consumed
                 /\ n < Len(written) => SizeOf(SubSeq(written, 1, n + 1)) > consumed
  IN SubSeq(written, 1, count)

PassedOf(type) == SelectSeq(Passed, LAMBDA s : s.type = type)

\* A service segment that came in pieces, which ConsumeReadBuffer reads again from its
\* type each time, counts once: acknowledges are not added twice, no load is reported
\* twice (that of a status without its end is zero), no options are lost.
ServicesCountOnce ==
  ~handler.lost =>
    /\ handler.acknowledged = FoldLeft(LAMBDA n, s : n + s.amount, 0, PassedOf(AckType))
    /\ handler.options = Len(PassedOf(OptionsType))
    /\ SelectSeq(handler.loads, LAMBDA load : load # 0)
         = [i \in DOMAIN PassedOf(StatusType) |-> PassedOf(StatusType)[i].amount]
=============================================================================
