---------------------------- MODULE FrameChannel ----------------------------
(***************************************************************************)
(* The channel of SocketFrameHandler (SocketFrameHandler.cpp), below whole *)
(* frames: the client's handler, which outlives its connections, and the   *)
(* server's, a new one per connection, cut frames into segments, send them *)
(* as far as the peer's acknowledges let them, and put frames together     *)
(* again.  Sizes are in units: SegmentSize and frame lengths count the     *)
(* data, and a segment's header is one unit.  TCP delivers segments whole  *)
(* and in order; a read that ends within a segment is in FrameStream.      *)
(* An end that leaves a connection loses what it has not read there; the   *)
(* other goes on reading what is on its way, and a handler of the server   *)
(* may do so when the client uses its next connection.                     *)
(***************************************************************************)
EXTENDS Integers, Sequences, FiniteSets, SequencesExt

CONSTANTS
  Frames,                        (* the frames the two ends send            *)
  SenderOf, TypeOf, LengthOf,    (* of a frame: its end, type and length    *)
  AnswerTo,                      (* the frame it answers, or None           *)
  SegmentSize,                   (* m_segmentSize                           *)
  MinimalWindow,                 (* 80% of "a minimal socket buffer"        *)
  Window,                        (* 80% of the smaller buffer of the two    *)
  AckSize, OptionsSize,          (* sizes of these service segments         *)
  AcknowledgeMinimalReadSize,    (* "must be greater than 5", an ack's size *)
  MaxConnections,                (* bound on the connections made           *)
  None                           (* no type, no frame                       *)

Ends == {"client", "server"}
Peer(e) == IF e = "client" THEN "server" ELSE "client"

ASSUME ChannelAssumption ==
  /\ SenderOf \in [Frames -> Ends] /\ None \notin Frames
  /\ AnswerTo \in [Frames -> Frames \cup {None}]
  /\ \A f \in Frames : TypeOf[f] # None /\ LengthOf[f] \in Nat \ {0}
  /\ {SegmentSize, AckSize, OptionsSize, MinimalWindow, Window} \subseteq Nat \ {0}
  /\ MinimalWindow <= Window
  /\ AcknowledgeMinimalReadSize \in Nat /\ AckSize <= AcknowledgeMinimalReadSize
  /\ MaxConnections \in Nat

VARIABLES
  handlers,    (* the handler of each end                                    *)
  wire,        (* the segments each end has written and the other not read   *)
  connection,  (* number of the connection, and the ends that have not left  *)
  left,        (* of each connection that is over: what the server's handler *)
               (* has read and can still read, and (history) has taken       *)
  queued,      (* history: the frames queued by each end, in order           *)
  processed,   (* history: the frames the other end's handler has taken      *)
  forgotten    (* history: the client's count was cleared while it had an    *)
               (* acknowledge left to read                                   *)

vars == <<handlers, wire, connection, left, queued, processed, forgotten>>

LineTest == [kind |-> "test", size |-> 1]
Ack(n) == [kind |-> "ack", size |-> AckSize, amount |-> n]
Options == [kind |-> "options", size |-> OptionsSize]
\* The segment with the units first .. last of a frame.
Segment(f, first, last) ==
  [kind |-> "user", size |-> 1 + last - first + 1, type |-> TypeOf[f],
   data |-> [j \in 1 .. last - first + 1 |-> [frame |-> f, pos |-> first + j - 1]]]
Content(f) == [j \in 1 .. LengthOf[f] |-> [frame |-> f, pos |-> j]]

IsAck(s) == s.kind = "ack"
Total(ns) ==
  LET sum[n \in 0 .. Len(ns)] == IF n = 0 THEN 0 ELSE sum[n - 1] + ns[n]
  IN  sum[Len(ns)]
SizeOf(segments) == Total([i \in DOMAIN segments |-> segments[i].size])
AmountOf(s) == IF IsAck(s) THEN s.amount ELSE 0
AmountIn(segments) == Total([i \in DOMAIN segments |-> AmountOf(segments[i])])

NewHandler ==
  [framesQueueOutput |-> << >>,
   outputSegments |-> << >>,
   bytesWaitingAcknowledge |-> 0,
   maxUnAcknowledgedSize |-> MinimalWindow,
   outputAcknowledgesSize |-> 0,
   setConnectionOptionsNeedSend |-> TRUE,
   lineTestQueued |-> FALSE,
   readBuffer |-> << >>,
   frameDataBuffer |-> << >>,
   pendingReadType |-> None]

Init ==
  /\ handlers = [e \in Ends |-> NewHandler]
  /\ wire = [e \in Ends |-> << >>]
  /\ connection = [number |-> 0, open |-> {}]
  /\ left = << >>
  /\ queued = [e \in Ends |-> << >>]
  /\ processed = [e \in Ends |-> << >>]
  /\ forgotten = FALSE

(***************************************************************************)
(* ReadFrames: ConsumeReadBuffer for each segment, until one of another    *)
(* type than the pending frame's; it and what follows wait for a later     *)
(* read.  Then ConsumeFrameBuffer for each frame that is complete.         *)
(***************************************************************************)
Lesser(a, b) == IF a <= b THEN a ELSE b

ConsumeSegment(h, s) ==
  CASE h.readBuffer # << >> -> [h EXCEPT !.readBuffer = Append(@, s)]
    [] h.readBuffer = << >> /\ s.kind = "test" -> h
    [] h.readBuffer = << >> /\ s.kind = "options" ->
         [h EXCEPT !.maxUnAcknowledgedSize = Window]
    [] h.readBuffer = << >> /\ s.kind = "ack" ->
         [h EXCEPT !.bytesWaitingAcknowledge = @ - Lesser(@, s.amount)]
    [] h.readBuffer = << >> /\ s.kind = "user" ->
         IF h.pendingReadType \in {None, s.type}
         THEN [h EXCEPT !.pendingReadType = s.type, !.frameDataBuffer = @ \o s.data]
         ELSE [h EXCEPT !.readBuffer = <<s>>]

ConsumeReadBuffer(h, segments) ==
  LET all == h.readBuffer \o segments
      consume[n \in 0 .. Len(all)] ==
        IF n = 0
        THEN [h EXCEPT !.readBuffer = << >>,
                       !.outputAcknowledgesSize = @ + SizeOf(segments)]
        ELSE ConsumeSegment(consume[n - 1], all[n])
  IN  consume[Len(all)]

\* Data that does not start a frame: it may be waited on as part of a longer frame, be
\* broken, or pass for a frame of some units.
Incomplete == 0
Broken == -1
Garbage == {Incomplete, Broken} \cup 1 .. SegmentSize

\* One frame of the buffer; the data of a frame that lacks its end and is followed by
\* another's is taken for the frame when there is enough of it.
ConsumeFrame(g, b) ==
  LET head == Head(b.data)
      Take(n, taken) == [b EXCEPT !.data = SubSeq(@, n + 1, Len(@)),
                                  !.taken = Append(@, taken)]
  IN CASE b.stop \/ b.data = << >> -> b
       [] ~b.stop /\ b.data # << >> /\ head.pos = 1 ->
            LET n == LengthOf[head.frame] IN
            IF Len(b.data) < n THEN [b EXCEPT !.stop = TRUE]
            ELSE Take(n, IF SubSeq(b.data, 1, n) = Content(head.frame)
                         THEN head.frame ELSE None)
       [] ~b.stop /\ b.data # << >> /\ head.pos # 1 ->
            CASE g = Broken -> [b EXCEPT !.stop = TRUE, !.broken = TRUE]
              [] g > 0 /\ g <= Len(b.data) -> Take(g, None)
              [] OTHER -> [b EXCEPT !.stop = TRUE]

ConsumeFrameBuffer(data, g) ==
  LET consume[n \in 0 .. Len(data)] ==
        IF n = 0 THEN [data |-> data, taken |-> << >>, stop |-> FALSE, broken |-> FALSE]
        ELSE ConsumeFrame(g, consume[n - 1])
  IN  consume[Len(data)]

\* The handler after ReadFrames, and the frames it has processed.
ReadFrames(h, segments, g) ==
  IF segments = << >> THEN [handler |-> h, taken |-> << >>]
  ELSE LET read == ConsumeReadBuffer(h, segments)
           b == ConsumeFrameBuffer(read.frameDataBuffer, g)
       IN [handler |->
             [read EXCEPT
                !.readBuffer = IF b.broken THEN << >> ELSE @,
                !.frameDataBuffer = IF b.broken THEN << >> ELSE b.data,
                !.pendingReadType = IF b.broken \/ b.data = << >> THEN None ELSE @],
           taken |-> b.taken]

(***************************************************************************)
(* WriteFrames: acknowledge what was read, send a line test or the         *)
(* connection options when it is time, cut the queued frames, and write    *)
(* the segments the window allows.                                         *)
(***************************************************************************)
WindowFull(h) == h.bytesWaitingAcknowledge >= h.maxUnAcknowledgedSize

\* Mutant: the acknowledge is queued behind the frames' segments and not reset.
WithAckKept(h) ==
  IF h.outputAcknowledgesSize > AcknowledgeMinimalReadSize
  THEN [h EXCEPT !.outputSegments = <<Ack(h.outputAcknowledgesSize)>> \o @]
  ELSE h

WithAck(h) ==
  IF h.outputAcknowledgesSize > AcknowledgeMinimalReadSize
  THEN [h EXCEPT !.outputSegments = <<Ack(h.outputAcknowledgesSize)>> \o @,
                 !.outputAcknowledgesSize = 0]
  ELSE h

WithLineTest(h, test) ==
  IF test
  THEN [h EXCEPT !.outputSegments = <<LineTest>> \o @, !.lineTestQueued = TRUE]
  ELSE h

\* Mutant: the options are taken for sent without being queued.
WithOptionsUnsent(h) == [h EXCEPT !.setConnectionOptionsNeedSend = FALSE]

WithOptions(h) ==
  IF h.setConnectionOptionsNeedSend
  THEN [h EXCEPT !.outputSegments = Append(@, Options),
                 !.setConnectionOptionsNeedSend = FALSE]
  ELSE h

Segments(f) ==
  LET count == (LengthOf[f] + SegmentSize - 1) \div SegmentSize
  IN [k \in 1 .. count |->
        Segment(f, (k - 1) * SegmentSize + 1, Lesser(k * SegmentSize, LengthOf[f]))]

AllSegments(frames) == FlattenSeq([i \in DOMAIN frames |-> Segments(frames[i])])

\* Mutant: the segments of the frames are put before those that wait.
WithFramesFirst(h) ==
  [h EXCEPT !.outputSegments = AllSegments(h.framesQueueOutput) \o @,
            !.framesQueueOutput = << >>]

WithFrames(h) ==
  [h EXCEPT !.outputSegments = @ \o AllSegments(h.framesQueueOutput),
            !.framesQueueOutput = << >>]

Prepared(h, test) == WithFrames(WithOptions(WithLineTest(WithAck(h), test)))

\* The first n segments fit, each into what the ones before it leave of the window; a
\* line test always does.
CanWrite(h, n) ==
  \A k \in 1 .. n :
    LET waiting == h.bytesWaitingAcknowledge + SizeOf(SubSeq(h.outputSegments, 1, k - 1))
        size == h.outputSegments[k].size
    IN waiting < h.maxUnAcknowledgedSize
       /\ (size <= h.maxUnAcknowledgedSize - waiting \/ size <= 1)

Writable(h) == CHOOSE n \in 0 .. Len(h.outputSegments) :
  CanWrite(h, n) /\ (n < Len(h.outputSegments) => ~CanWrite(h, n + 1))

Written(h, n) ==
  [h EXCEPT !.outputSegments = SubSeq(@, n + 1, Len(@)),
            !.bytesWaitingAcknowledge = @ + SizeOf(SubSeq(h.outputSegments, 1, n)),
            !.lineTestQueued = @ /\ n = 0]

(***************************************************************************)
(* The handlers' threads.                                                  *)
(***************************************************************************)
Both == connection.open = Ends

\* The server's handler h of a connection that one end has left, with what it can still
\* read.  What it writes reaches nobody.
Behind(h, unread, taken) ==
  [readBuffer |-> h.readBuffer, frameDataBuffer |-> h.frameDataBuffer,
   pendingReadType |-> h.pendingReadType, unread |-> unread, taken |-> taken]

\* DisconnectChannel, or the end of a handler whose thread has stopped, with the handlers,
\* the wire and the frames taken that it leaves: what the end has not read is gone, and
\* so is what is written to it from now on.
Leave(e, hs, written, taken) ==
  /\ connection' = [connection EXCEPT !.open = IF e = "client" THEN {} ELSE {"client"}]
  /\ wire' = [end \in Ends |-> IF e = "server" /\ end = "server" THEN written[end] ELSE << >>]
  /\ IF Both
     THEN LET unread == IF e = "client" THEN written["client"] ELSE << >> IN
          /\ left' = Append(left, Behind(hs["server"], unread, taken["client"]))
          /\ handlers' = [hs EXCEPT !["server"] = NewHandler]
          /\ processed' = [taken EXCEPT !["client"] = << >>]
     ELSE left' = left /\ handlers' = hs /\ processed' = taken

\* The wire after an end has read k segments and written some.
Wire(e, k, sent) ==
  [end \in Ends |-> IF end = Peer(e) THEN SubSeq(wire[end], k + 1, Len(wire[end]))
                    ELSE IF Both THEN wire[end] \o sent ELSE wire[end]]

\* Seconds have passed without a read or a write (m_lineTestInterval, or three times it):
\* what was written has arrived and was read, and nothing is queued or the window admits
\* nothing of it.
Idle(e) ==
  /\ \A end \in Ends : wire[end] = << >>
  /\ ~handlers[e].lineTestQueued
  /\ LET h == Prepared(handlers[e], FALSE) IN Writable(h) = 0

\* What one Quant has to write after it has read: nothing, when the window is full.
Outgoing(h, test) == IF WindowFull(h) THEN h ELSE Prepared(h, test)
ToWrite(h) == IF WindowFull(h) THEN 0 ELSE Writable(h)

\* One Quant: the first k segments that have arrived are read, and all that fits is
\* written.
Quant(e, k, g, test) ==
  LET read == ReadFrames(handlers[e], SubSeq(wire[Peer(e)], 1, k), g)
      h == Outgoing(read.handler, test)
      n == ToWrite(h)
  IN /\ e \in connection.open
     /\ test => Idle(e) /\ ~WindowFull(read.handler)
     /\ processed' = [processed EXCEPT ![Peer(e)] = @ \o read.taken]
     /\ handlers' = [handlers EXCEPT ![e] = Written(h, n)]
     /\ wire' = Wire(e, k, SubSeq(h.outputSegments, 1, n))
     /\ UNCHANGED <<connection, left, queued, forgotten>>

\* m_acknowledgeTimeout has passed since the last write or acknowledge.
AckTimeout(e) ==
  /\ e \in connection.open
  /\ WindowFull(handlers[e])
  /\ forgotten' = (forgotten \/ (e = "client" /\ AmountIn(handlers[e].readBuffer) > 0))
  /\ Leave(e, [handlers EXCEPT ![e].bytesWaitingAcknowledge = 0], wire, processed)
  /\ UNCHANGED queued

\* A Quant in which the write after the first n fails, or is short: its segment is gone.
WriteFails(e, k, g) ==
  LET read == ReadFrames(handlers[e], SubSeq(wire[Peer(e)], 1, k), g)
      h == Outgoing(read.handler, FALSE)
  IN /\ e \in connection.open
     /\ \E n \in 0 .. ToWrite(h) - 1 :
          Leave(e, [handlers EXCEPT ![e] = [Written(h, n) EXCEPT !.outputSegments = Tail(@)]],
                Wire(e, k, SubSeq(h.outputSegments, 1, n)),
                [processed EXCEPT ![Peer(e)] = @ \o read.taken])
     /\ UNCHANGED <<queued, forgotten>>

\* A read fails; or, m_channelActivityTimeout, nothing was read or written for a minute,
\* the only case in which the options are to be sent again.
Lose(e, inactive) ==
  /\ e \in connection.open
  /\ Leave(e, [handlers EXCEPT ![e].setConnectionOptionsNeedSend = @ \/ inactive], wire, processed)
  /\ UNCHANGED <<queued, forgotten>>

\* CheckAndCreateConnection of the client, and AddWorker of the service.
Connect ==
  /\ "client" \notin connection.open
  /\ connection.number < MaxConnections
  /\ connection' = [number |-> connection.number + 1, open |-> Ends]
  /\ UNCHANGED <<handlers, wire, left, queued, processed, forgotten>>

\* A Quant of a server's handler that the client has left behind reads some of what it can
\* still read; one whose end of the connection is over as well reads no more.
QuantLeft(c, k, g) ==
  LET l == left[c]
      h == [NewHandler EXCEPT !.readBuffer = l.readBuffer, !.frameDataBuffer = l.frameDataBuffer,
                              !.pendingReadType = l.pendingReadType]
      read == ReadFrames(h, SubSeq(l.unread, 1, k), g)
      unread == SubSeq(l.unread, k + 1, Len(l.unread))
  IN /\ left' = [left EXCEPT ![c] = Behind(read.handler, unread, l.taken \o read.taken)]
     /\ UNCHANGED <<handlers, wire, connection, queued, processed, forgotten>>

\* Any thread; a server's handler is there to queue to while it is connected (to one the
\* client has left behind, for nobody).  An answer is queued, by the output callback, on
\* the handler that has taken the frame.
QueueFrame(f) ==
  LET e == SenderOf[f] IN
  /\ \A i \in DOMAIN queued[e] : queued[e][i] # f
  /\ AnswerTo[f] # None =>
       \E i \in DOMAIN processed[Peer(e)] : processed[Peer(e)][i] = AnswerTo[f]
  /\ e = "server" => e \in connection.open
  /\ handlers' = [handlers EXCEPT ![e].framesQueueOutput = Append(@, f)]
  /\ queued' = [queued EXCEPT ![e] = Append(@, f)]
  /\ UNCHANGED <<wire, connection, left, processed, forgotten>>

Arrived(e) == 0 .. Len(wire[Peer(e)])

Next ==
  \/ \E e \in Ends :
       \/ \E k \in Arrived(e), g \in Garbage, test \in BOOLEAN : Quant(e, k, g, test)
       \/ \E k \in Arrived(e), g \in Garbage : WriteFails(e, k, g)
       \/ AckTimeout(e)
       \/ \E inactive \in BOOLEAN : Lose(e, inactive)
  \/ Connect
  \/ \E c \in DOMAIN left :
       \E k \in 1 .. Len(left[c].unread), g \in Garbage : QuantLeft(c, k, g)
  \/ \E f \in Frames : QueueFrame(f)

Spec == Init /\ [][Next]_vars

(***************************************************************************)
(* Fairness: each handler's thread reads what has arrived and writes what  *)
(* fits, one of the two sends a line test when both are idle, and a full   *)
(* window times out.  The first three are weak fairness of Quant, with its *)
(* enabling conditions in place of ENABLED.                                *)
(***************************************************************************)
CanRead(e) == Both /\ wire[Peer(e)] # << >>
HasToWrite(e) ==
  Both /\ ~WindowFull(handlers[e]) /\ Writable(Prepared(handlers[e], FALSE)) > 0
CanTest(e) == Both /\ ~WindowFull(handlers[e]) /\ Idle(e)

Reads(e)  == Both' /\ Len(wire'[Peer(e)]) < Len(wire[Peer(e)])
Writes(e) == Quant(e, 0, Incomplete, FALSE)
Tests(e)  == Quant(e, 0, Incomplete, TRUE)

Fairness ==
  /\ \A e \in Ends : []<>(~CanRead(e)) \/ []<><<Reads(e)>>_vars
  /\ \A e \in Ends : []<>(~HasToWrite(e)) \/ []<><<Writes(e)>>_vars
  /\ []<>(\A e \in Ends : ~CanTest(e)) \/ []<><<\E e \in Ends : Tests(e)>>_vars
  /\ \A e \in Ends : WF_vars(AckTimeout(e))

FairSpec == Spec /\ Fairness

(***************************************************************************)
(* Properties.                                                             *)
(***************************************************************************)
\* What an end has written and the other has not told it that it was read: on the way,
\* read and not acknowledged, or acknowledged on the way back or behind a frame of
\* another type.
Unacknowledged(e) ==
  LET peer == handlers[Peer(e)] IN
  SizeOf(wire[e]) + peer.outputAcknowledgesSize
    + AmountIn(peer.outputSegments) + AmountIn(wire[Peer(e)])
    + AmountIn(handlers[e].readBuffer)

\* m_bytesWaitingAcknowledge is exact on a handler's first connection.  After a
\* reconnect the client's counts what was on the lost connection as well, and never
\* less than is on its way, unless an acknowledge that was left in its read buffer is
\* counted after AckTimeout has cleared the count.  (A later server's may count less:
\* the client's handler still acknowledges bytes of the lost connection.)  It never
\* exceeds the window, from which WriteFrames subtracts it as an unsigned number.
WindowExact ==
  Both =>
    LET Waiting(e) == handlers[e].bytesWaitingAcknowledge IN
    /\ \A e \in Ends : Waiting(e) <= handlers[e].maxUnAcknowledgedSize
    /\ ~forgotten => Waiting("client") >= Unacknowledged("client")
    /\ connection.number = 1 => \A e \in Ends : Waiting(e) = Unacknowledged(e)

Position(frames, f) == CHOOSE i \in DOMAIN frames : frames[i] = f

\* The frames the server has taken on the connection with this number.
TakenOn(c) == IF c \in DOMAIN left THEN left[c].taken ELSE processed["client"]

Earlier(q, f, g) == None \in {f, g} \/ Position(q, f) < Position(q, g)
InOrder(q, frames) == \A i, j \in DOMAIN frames : i < j => Earlier(q, frames[i], frames[j])

\* The client takes the server's frames in the order they were queued, none twice,
\* however they were cut, blocked by the window or interrupted.  So does each handler of
\* the server with those of its connection, and it takes none that was queued after one
\* of a later connection, or was taken there: only the time at which it takes them may be
\* after that of a later handler's.  On the first connection none is missing before
\* another, and none is made of parts of several.
FramesInOrder ==
  /\ InOrder(queued["server"], processed["server"])
  /\ \A c \in 1 .. connection.number :
       /\ InOrder(queued["client"], TakenOn(c))
       /\ \A d \in 1 .. connection.number :
            c < d => \A i \in DOMAIN TakenOn(c), j \in DOMAIN TakenOn(d) :
                       Earlier(queued["client"], TakenOn(c)[i], TakenOn(d)[j])
  /\ connection.number >= 1 => IsPrefix(TakenOn(1), queued["client"])
  /\ connection.number <= 1 => IsPrefix(processed["server"], queued["server"])

Took(f) == \E i \in DOMAIN processed[SenderOf[f]] : processed[SenderOf[f]][i] = f
Queued(f) == \E i \in DOMAIN queued[SenderOf[f]] : queued[SenderOf[f]][i] = f
FirstConnection == connection = [number |-> 1, open |-> Ends]

\* On a handler's first connection every frame arrives, or the connection is lost: two
\* full windows end in a timeout, a window too small for the next segment is opened by
\* the peer's options or acknowledges, and bytes left in the read buffer by a change of
\* type are read when a line test follows.
FirstConnectionDelivers ==
  \A f \in Frames : Queued(f) /\ FirstConnection ~> Took(f) \/ ~FirstConnection
=============================================================================
