----------------------------- MODULE SessionOps -----------------------------
(***************************************************************************)
(* The functions of lib/nghttp2_session.c that work on one nghttp2_session,*)
(* as operators from a session record to a session record.  A C function   *)
(* that calls another one on the same session is here an operator applied  *)
(* to the other one's result, so the order of the effects is the C order.  *)
(*                                                                         *)
(* What is abstracted: header lists and payload bytes (frames are opaque), *)
(* error codes, window sizes (only whether the connection window is open   *)
(* is kept), the shape of the dependency tree (which stream is scheduled   *)
(* next is a nondeterministic choice).                                     *)
(***************************************************************************)
EXTENDS Integers, Sequences, FiniteSets

CONSTANTS
  MaxStreamId,          \* INT32_MAX: the largest stream ID
  DefaultMaxConcurrent, \* NGHTTP2_DEFAULT_MAX_CONCURRENT_STREAMS (unlimited)
  MinIdle, MaxIdle,     \* 16 and 100 in nghttp2_session_adjust_idle_stream
  MaxReserved,          \* session->max_incoming_reserved_streams
  MaxFlood,             \* NGHTTP2_MAX_OBQ_FLOOD_ITEM
  KeepClosed            \* FALSE iff NGHTTP2_OPTMASK_NO_CLOSED_STREAMS is set

(***************************************************************************)
(* The largest stream ID is odd, as 2^31 - 1 is: a GOAWAY shutdown notice  *)
(* of a server names it, and it must be an ID of the peer.                 *)
(***************************************************************************)
ASSUME SessionAssumption ==
  /\ MaxStreamId \in Nat /\ MaxStreamId % 2 = 1
  /\ DefaultMaxConcurrent \in Nat
  /\ MinIdle \in Nat /\ MaxIdle \in Nat /\ MaxReserved \in Nat
  /\ MaxFlood \in Nat
  /\ KeepClosed \in BOOLEAN

StreamId == 1..MaxStreamId

-----------------------------------------------------------------------------
(* nghttp2_stream: its state, shut flags, FLAG_PUSH and FLAG_CLOSED, the   *)
(* attached DATA item (0: none, else its address) and why it is deferred.  *)

StreamState == {"NONE", "INITIAL", "OPENING", "OPENED", "CLOSING",
                "RESERVED", "IDLE"}

Deferral == {"NO", "FLOW", "USER"}

Stream == [state : StreamState, rd : BOOLEAN, wr : BOOLEAN, push : BOOLEAN,
           closed : BOOLEAN, item : 0..2, defer : Deferral]

NoStream == [state |-> "NONE", rd |-> FALSE, wr |-> FALSE, push |-> FALSE,
             closed |-> FALSE, item |-> 0, defer |-> "NO"]

(***************************************************************************)
(* nghttp2_outbound_item.  arg: the stream depended on (HEADERS, PRIORITY),*)
(* the promised ID (PUSH_PROMISE) or last_stream_id (GOAWAY).  addr: the   *)
(* address of a DATA item.  end: END_STREAM.  data: a data provider comes  *)
(* with the HEADERS, or this DATA frame is the last of its item (eof).     *)
(* aux: the header category or "CANCELED", the GOAWAY flags, NO_COPY, ACK. *)
(* HEADERS are always about a stream.                                      *)
(***************************************************************************)
FrameType == {"NONE", "HEADERS", "DATA", "RST_STREAM", "PUSH_PROMISE",
              "GOAWAY", "PRIORITY", "SETTINGS", "PING"}

Aux == {"NONE", "REQUEST", "CANCELED", "HEADERS", "RESPONSE",
        "PUSH_RESPONSE", "TERM_ON_SEND", "SHUTDOWN_NOTICE", "NO_COPY", "ACK"}

Item == {it \in [type : FrameType, id : 0..MaxStreamId, arg : 0..MaxStreamId,
                 addr : 0..2, end : BOOLEAN, data : BOOLEAN, aux : Aux] :
           it.type = "HEADERS" => it.id # 0}

Frame(type, id) == [type |-> type, id |-> id, arg |-> 0, addr |-> 0,
                    end |-> FALSE, data |-> FALSE, aux |-> "NONE"]

NoItem == Frame("NONE", 0)

-----------------------------------------------------------------------------
(* nghttp2_session *)

StreamMap == [StreamId -> Stream]
LastId == 0..MaxStreamId
NextId == Nat \ {0}
IdList == Seq(StreamId)
Queue == Seq(Item)

GoawayFlags == SUBSET {"TERM_ON_SEND", "TERM_SENT", "SENT", "RECV"}

\* nghttp2_active_outbound_item; POP: no item is active, SENT: only
\* session_after_frame_sent2 is left to do.
ActiveItem == [item : Item, stage : {"POP", "SEND", "SENT", "NO_COPY"}]

\* nghttp2_inbound_frame: what mem_recv expects next, and the frame being read
\* (arg: the promised ID).
InboundState == {"FIRST", "HEAD", "HB", "IGN_HB", "DATA", "IGN_DATA", "IGN_ALL"}

InboundFrame == [state : InboundState, type : FrameType, id : LastId,
                 arg : LastId, end : BOOLEAN]

\* A SETTINGS payload: max_concurrent_streams and enable_push, -1 or "keep"
\* when the entry is absent.
Settings == [mcs : {-1} \cup Nat, push : {"keep", "on", "off"}]
SettingsList == Seq(Settings)

\* The allocated DATA items, by stream and address, and what the peer has been
\* sent on each stream.
Heap == SUBSET (StreamId \X (1..2))
Wire == [StreamId -> {"NONE", "BEGUN", "ENDED"}]

IdSet == SUBSET StreamId

\* The fields of nghttp2_session, fast_cb (the application uses mem_send), and
\* four that only the properties read: asserts (no assert has failed), done,
\* heap and wire.
SessionType ==
  [server : BOOLEAN, fast_cb : BOOLEAN, streams : StreamMap, closedq : IdList,
   idleq : IdList, num_outgoing_streams : Int, num_incoming_streams : Int,
   num_incoming_reserved_streams : Int, next_stream_id : NextId,
   last_sent_stream_id : LastId, last_recv_stream_id : LastId,
   last_proc_stream_id : LastId, local_last_stream_id : LastId,
   remote_last_stream_id : LastId, goaway_flags : GoawayFlags,
   ob_urgent : Queue, ob_reg : Queue, ob_syn : Queue, aob : ActiveItem,
   iframe : InboundFrame,
   local_max_concurrent : Nat, pending_max_concurrent : Nat,
   remote_max_concurrent : Nat, remote_settings_received : BOOLEAN,
   local_enable_push : BOOLEAN, pending_enable_push : BOOLEAN,
   remote_enable_push : BOOLEAN, inflight_settings : SettingsList,
   window_open : BOOLEAN, obq_flood_counter : Nat, fatal : BOOLEAN,
   asserts : BOOLEAN, done : IdSet, heap : Heap, wire : Wire]

-----------------------------------------------------------------------------
(* Stream IDs and stream lookup *)

\* nghttp2_session_is_my_stream_id
IsMine(s, id) == id # 0 /\ (id % 2 = 0) = s.server

\* nghttp2_session_get_stream_raw finds a stream
Raw(s, id) == id \in StreamId /\ s.streams[id].state # "NONE"

\* nghttp2_session_get_stream finds a stream
Live(s, id) == /\ Raw(s, id)
               /\ ~s.streams[id].closed
               /\ s.streams[id].state # "IDLE"

\* session_is_new_peer_stream_id
IsNewPeerId(s, id) == id # 0 /\ ~IsMine(s, id) /\ s.last_recv_stream_id < id

\* session_detect_idle_stream
DetectIdle(s, id) == IF IsMine(s, id) THEN s.last_sent_stream_id < id
                                      ELSE IsNewPeerId(s, id)

StreamIn(s, id, states) == Live(s, id) /\ s.streams[id].state \in states

-----------------------------------------------------------------------------
(* What the session still wants *)

OutgoingMax(s) == s.remote_max_concurrent <= s.num_outgoing_streams
IncomingMax(s) == s.local_max_concurrent <= s.num_incoming_streams
IncomingPendingMax(s) == s.pending_max_concurrent <= s.num_incoming_streams

AllowNewIncoming(s) == s.goaway_flags \cap {"TERM_ON_SEND", "SENT"} = {}

\* session_get_num_active_streams
NumActive(s) == Cardinality({id \in StreamId : Raw(s, id)})
                  - Len(s.closedq) - Len(s.idleq)

\* The scheduler has a DATA item to offer (root.obq is not empty)
Schedulable(s) == {id \in StreamId : s.streams[id].item # 0
                                       /\ s.streams[id].defer = "NO"}

\* nghttp2_session_want_read
WantRead(s) == /\ "TERM_SENT" \notin s.goaway_flags
               /\ \/ NumActive(s) > 0
                  \/ s.goaway_flags \cap {"SENT", "RECV"} = {}

\* nghttp2_session_want_write
WantWrite(s) == /\ "TERM_SENT" \notin s.goaway_flags
                /\ \/ s.aob.item # NoItem
                   \/ s.ob_urgent # <<>>
                   \/ s.ob_reg # <<>>
                   \/ Schedulable(s) # {} /\ s.window_open
                   \/ s.ob_syn # <<>> /\ ~OutgoingMax(s)

\* session_is_closing
IsClosing(s) == \/ "TERM_ON_SEND" \in s.goaway_flags
                \/ ~WantRead(s) /\ ~WantWrite(s)

-----------------------------------------------------------------------------
(* Opening, closing, keeping and dropping streams *)

Smaller(a, b) == IF a < b THEN a ELSE b
Larger(a, b) == IF a > b THEN a ELSE b

Elements(q) == {q[i] : i \in 1..Len(q)}

\* The list q without the entry x.
Without(q, x) ==
  IF x \notin Elements(q) THEN q
  ELSE LET k == CHOOSE i \in 1..Len(q) : q[i] = x
       IN [i \in 1..Len(q) - 1 |-> IF i < k THEN q[i] ELSE q[i + 1]]

\* The streams of the first n entries of the list q are destroyed.
DestroyOldest(s, q, n) ==
  [id \in StreamId |-> IF \E i \in 1..Len(q) : i <= n /\ q[i] = id
                         THEN NoStream ELSE s.streams[id]]

\* Mutant: the limit is compared with the closed streams alone.
AdjustClosed_ClosedOnly(s) ==
  LET limit == IF s.local_max_concurrent = DefaultMaxConcurrent
                 THEN s.pending_max_concurrent ELSE s.local_max_concurrent
      n     == Larger(Len(s.closedq) - limit, 0)
  IN [s EXCEPT !.streams = DestroyOldest(s, s.closedq, n),
               !.closedq = SubSeq(@, n + 1, Len(@))]

\* nghttp2_session_adjust_closed_stream: the while loop drops the oldest
\* closed streams until the limit holds or none is left.
AdjustClosed(s) ==
  LET limit == IF s.local_max_concurrent = DefaultMaxConcurrent
                 THEN s.pending_max_concurrent ELSE s.local_max_concurrent
      over  == Len(s.closedq) + s.num_incoming_streams - limit
      n     == Smaller(Larger(over, 0), Len(s.closedq))
  IN [s EXCEPT !.streams = DestroyOldest(s, s.closedq, n),
               !.closedq = SubSeq(@, n + 1, Len(@))]


\* nghttp2_session_adjust_idle_stream
AdjustIdle(s) ==
  LET limit == Smaller(MaxIdle, Larger(MinIdle,
                 Smaller(s.local_max_concurrent, s.pending_max_concurrent)))
      n     == Larger(Len(s.idleq) - limit, 0)
  IN [s EXCEPT !.streams = DestroyOldest(s, s.idleq, n),
               !.idleq = SubSeq(@, n + 1, Len(@))]

\* nghttp2_session_open_stream for the state IDLE and an ID with no stream.
OpenIdle(s, id) ==
  [s EXCEPT !.streams[id] = [NoStream EXCEPT !.state = "IDLE"],
            !.idleq = Append(@, id)]

\* nghttp2_session_open_stream.  dep is the stream depended on: one that is
\* idle and unknown gets an IDLE stream first.  An existing stream must be
\* IDLE (the assert) and leaves the list of idle streams.
OpenStream(s, id, state, dep) ==
  LET mine == IsMine(s, id)
      s1 == [s EXCEPT !.asserts = @ /\ (Raw(s, id) => s.streams[id].state = "IDLE"),
                      !.idleq = Without(@, id)]
      s2 == IF dep # 0 /\ dep # id /\ ~Raw(s1, dep) /\ DetectIdle(s1, dep)
              THEN OpenIdle(s1, dep) ELSE s1
  IN IF state = "IDLE" THEN OpenIdle(s2, id) ELSE
     [s2 EXCEPT
        !.streams[id] = [NoStream EXCEPT !.state = state,
                           !.push = (state = "RESERVED"),
                           !.rd = (state = "RESERVED" /\ mine),
                           !.wr = (state = "RESERVED" /\ ~mine)],
        !.num_incoming_reserved_streams =
           IF state = "RESERVED" /\ ~mine THEN @ + 1 ELSE @,
        !.num_outgoing_streams = IF state # "RESERVED" /\ mine THEN @ + 1 ELSE @,
        !.num_incoming_streams = IF state # "RESERVED" /\ ~mine THEN @ + 1 ELSE @]

\* nghttp2_session_close_stream for every stream of the set C (all ours or all
\* the peer's), one after the other in the order of the sequence q.  The DATA
\* item of a stream is freed unless aob.item points to it; "done" records the
\* IDs for which on_stream_close_callback has been called.
CloseAll(s, C, q) ==
  LET kept == IF KeepClosed /\ s.server /\ \A id \in C : ~IsMine(s, id)
                THEN C ELSE {}
      freed == {x \in s.heap : /\ x[1] \in C
                               /\ s.streams[x[1]].item = x[2]
                               /\ ~ (s.aob.item.type = "DATA"
                                     /\ <<s.aob.item.id, s.aob.item.addr>> = x)}
      Mine(push) == {id \in C : IsMine(s, id) /\ s.streams[id].push = push}
      Peers(push) == {id \in C : ~IsMine(s, id) /\ s.streams[id].push = push}
  IN [s EXCEPT
        !.streams = [id \in StreamId |->
           IF id \in kept THEN [s.streams[id] EXCEPT !.closed = TRUE, !.item = 0,
                                                     !.defer = "NO"]
           ELSE IF id \in C THEN NoStream ELSE s.streams[id]],
        !.closedq = IF kept = {} THEN @ ELSE @ \o q,
        !.heap = @ \ freed,
        !.num_incoming_reserved_streams = @ - Cardinality(Peers(TRUE)),
        !.num_outgoing_streams = @ - Cardinality(Mine(FALSE)),
        !.num_incoming_streams = @ - Cardinality(Peers(FALSE)),
        !.done = @ \cup C]

\* Mutant: a stream with a pending RST_STREAM is left alone.
CloseStream_NotClosing(s, id) ==
  IF Live(s, id) /\ s.streams[id].state # "CLOSING"
    THEN CloseAll(s, {id}, <<id>>) ELSE s

CloseStream(s, id) == IF Live(s, id) THEN CloseAll(s, {id}, <<id>>) ELSE s

\* nghttp2_session_close_stream_if_shut_rdwr
CloseIfShut(s, id) ==
  IF s.streams[id].rd /\ s.streams[id].wr THEN CloseStream(s, id) ELSE s

\* Mutant: the wrong side's streams.
OnGoaway_WrongSide(s, last, incoming) ==
  {id \in StreamId : Live(s, id) /\ id > last /\ IsMine(s, id) = incoming}

\* find_stream_on_goaway_func: the streams session_close_stream_on_goaway
\* closes; incoming selects the peer's streams, otherwise our own.
OnGoaway(s, last, incoming) ==
  {id \in StreamId : Live(s, id) /\ id > last /\ IsMine(s, id) = ~incoming}

\* The orders in which the hash map may enumerate the set C.
Orders(C) == {q \in [1..Cardinality(C) -> C] : Elements(q) = C}

-----------------------------------------------------------------------------
(* Outbound items *)

\* nghttp2_stream_detach_item
Detach(s, id) ==
  [s EXCEPT !.streams[id].item = 0, !.streams[id].defer = "NO"]

\* The item of a DATA frame is released.
FreeData(s, it) == [s EXCEPT !.heap = @ \ {<<it.id, it.addr>>}]

\* malloc of a DATA item for stream id: an address not in use.
Fresh(s, id) == IF <<id, 1>> \in s.heap THEN 2 ELSE 1

\* nghttp2_submit_data for stream id: the item is attached to the stream, or
\* released when there is no stream or it has one (STREAM_CLOSED, DATA_EXIST).
SubmitDataOn(s, id) ==
  IF ~Live(s, id) \/ s.streams[id].item # 0 THEN s
  ELSE [s EXCEPT !.heap = @ \cup {<<id, Fresh(s, id)>>},
                 !.asserts = @ /\ s.streams[id].defer = "NO",
                 !.streams[id].item = Fresh(s, id)]

\* nghttp2_session_add_item for HEADERS
AddHeaders(s, it) ==
  IF it.aux = "REQUEST" \/ StreamIn(s, it.id, {"RESERVED"})
    THEN [s EXCEPT !.ob_syn = Append(@, it)]
    ELSE [s EXCEPT !.ob_reg = Append(@, it)]

AddReg(s, it) == [s EXCEPT !.ob_reg = Append(@, it)]
AddUrgent(s, it) == [s EXCEPT !.ob_urgent = Append(@, it)]

\* nghttp2_session_add_item for RST_STREAM
AddRstItem(s, id) ==
  LET s1 == IF Live(s, id) THEN [s EXCEPT !.streams[id].state = "CLOSING"] ELSE s
  IN AddReg(s1, Frame("RST_STREAM", id))


\* The position in ob_syn of the pending request nghttp2_session_add_rst_stream
\* cancels, 0 if there is none: the scan stops at the first item whose ID is
\* not smaller.
CancelAt(s, id) ==
  LET at == {i \in 1..Len(s.ob_syn) : /\ s.ob_syn[i].id >= id
                                      /\ \A j \in 1..i-1 : s.ob_syn[j].id < id}
  IN IF /\ ~s.server /\ IsMine(s, id) /\ s.ob_syn # <<>>
        /\ s.ob_syn[1].id <= id /\ id < s.next_stream_id
        /\ \E i \in at : s.ob_syn[i].id = id /\ s.ob_syn[i].aux # "CANCELED"
       THEN CHOOSE i \in at : TRUE ELSE 0

\* nghttp2_session_add_rst_stream
AddRst(s, id) ==
  IF StreamIn(s, id, {"CLOSING"}) THEN s
  ELSE IF CancelAt(s, id) # 0
         THEN [s EXCEPT !.ob_syn[CancelAt(s, id)].aux = "CANCELED"]
         ELSE AddRstItem(s, id)

\* nghttp2_session_add_goaway; last must not be one of our own IDs.
AddGoaway(s, last, aux) ==
  IF IsMine(s, last) THEN s
  ELSE AddReg(s, [Frame("GOAWAY", 0) EXCEPT
                    !.arg = Smaller(last, s.local_last_stream_id), !.aux = aux])

\* session_terminate_session: from here all incoming frames are ignored.
Terminate(s, last) ==
  IF "TERM_ON_SEND" \in s.goaway_flags THEN s
  ELSE LET s1 == [s EXCEPT !.iframe.state = "IGN_ALL"]
       IN IF IsMine(s, last) THEN s1
          ELSE [AddGoaway(s1, last, "TERM_ON_SEND")
                  EXCEPT !.goaway_flags = @ \cup {"TERM_ON_SEND"}]

\* nghttp2_session_terminate_session_with_reason; every connection error ends
\* up here (session_handle_invalid_connection).
ConnectionError(s) == Terminate(s, s.last_proc_stream_id)

-----------------------------------------------------------------------------
(* Preparing a frame: session_prep_frame *)

\* session_predicate_for_stream_send
MaySend(s, id) == Live(s, id) /\ ~IsClosing(s) /\ ~s.streams[id].wr

MaySendResponse(s, id) ==
  MaySend(s, id) /\ s.server /\ ~IsMine(s, id) /\ StreamIn(s, id, {"OPENING"})

MaySendPushResponse(s, id) ==
  /\ MaySend(s, id) /\ s.server /\ StreamIn(s, id, {"RESERVED"})
  /\ "RECV" \notin s.goaway_flags

MaySendHeaders(s, id) ==
  /\ MaySend(s, id)
  /\ \/ StreamIn(s, id, {"OPENED"})
     \/ IsMine(s, id) /\ ~StreamIn(s, id, {"CLOSING"})

MaySendPushPromise(s, id) ==
  /\ s.server /\ MaySend(s, id) /\ s.remote_enable_push
  /\ ~StreamIn(s, id, {"CLOSING"}) /\ "RECV" \notin s.goaway_flags

\* nghttp2_session_predicate_data_send
MaySendData(s, id) ==
  /\ MaySend(s, id)
  /\ IF IsMine(s, id) THEN ~StreamIn(s, id, {"CLOSING", "RESERVED"})
                      ELSE StreamIn(s, id, {"OPENED"})

\* session_predicate_request_headers_send
MaySendRequest(s, it) ==
  it.aux # "CANCELED" /\ "RECV" \notin s.goaway_flags /\ ~IsClosing(s)

IsRequest(it) == it.type = "HEADERS" /\ it.aux \in {"REQUEST", "CANCELED"}

\* The stream that a request HEADERS or a PUSH_PROMISE opened.
OpenedBy(it) == IF IsRequest(it) THEN it.id
                ELSE IF it.type = "PUSH_PROMISE" THEN it.arg ELSE 0

\* What session_prep_frame does before it decides whether the frame may go:
\* a request opens its stream, an ACK leaves the flood counter.
PrepBegin(s, it) ==
  IF IsRequest(it) THEN OpenStream(s, it.id, "INITIAL", it.arg)
  ELSE IF it.aux = "ACK"
    THEN [s EXCEPT !.asserts = @ /\ s.obq_flood_counter > 0,
                   !.obq_flood_counter = Larger(@ - 1, 0)]
    ELSE s

\* The category session_prep_frame gives a HEADERS frame that opens no stream.
Category(s, it) ==
  IF it.type # "HEADERS" \/ IsRequest(it) THEN it.aux
  ELSE IF StreamIn(s, it.id, {"RESERVED"}) THEN "PUSH_RESPONSE"
  ELSE IF MaySendResponse(s, it.id) THEN "RESPONSE" ELSE "HEADERS"

\* session_prep_frame lets the frame go (DATA is in PrepData of Session).
PrepOk(s, it) ==
  CASE IsRequest(it) -> MaySendRequest(s, it)
    [] it.type = "HEADERS" /\ ~IsRequest(it) ->
         CASE Category(s, it) = "PUSH_RESPONSE" -> MaySendPushResponse(s, it.id)
           [] Category(s, it) = "RESPONSE" -> TRUE
           [] OTHER -> MaySendHeaders(s, it.id)
    [] it.type = "PUSH_PROMISE" -> MaySendPushPromise(s, it.id)
    [] it.type = "PING" -> "TERM_ON_SEND" \notin s.goaway_flags
    [] it.type = "SETTINGS" -> it.aux = "ACK" => ~IsClosing(s)
    [] it.type = "GOAWAY" -> TRUE
    [] OTHER -> ~IsClosing(s)

\* What session_prep_frame records once the frame is packed.
PrepDone(s, it) ==
  CASE IsRequest(it) ->
         [s EXCEPT !.asserts = @ /\ s.last_sent_stream_id < it.id,
                   !.last_sent_stream_id = it.id]
    [] it.type = "PUSH_PROMISE" ->
         [s EXCEPT !.asserts = @ /\ s.last_sent_stream_id + 2 <= it.arg,
                   !.last_sent_stream_id = it.arg]
    [] it.type = "GOAWAY" -> [s EXCEPT !.local_last_stream_id = it.arg]
    [] OTHER -> s

\* nghttp2_session_pop_next_ob_item without the scheduler's DATA
ControlItem(s) == IF s.ob_urgent # <<>> THEN Head(s.ob_urgent)
                  ELSE IF s.ob_reg # <<>> THEN Head(s.ob_reg)
                  ELSE IF s.ob_syn # <<>> /\ ~OutgoingMax(s) THEN Head(s.ob_syn)
                  ELSE NoItem

PopControl(s) ==
  IF s.ob_urgent # <<>> THEN [s EXCEPT !.ob_urgent = Tail(@)]
  ELSE IF s.ob_reg # <<>> THEN [s EXCEPT !.ob_reg = Tail(@)]
  ELSE [s EXCEPT !.ob_syn = Tail(@)]

\* What the peer has been sent on each stream: HEADERS have begun it, END_STREAM
\* or RST_STREAM has ended it.
OnWire(s, it) ==
  IF it.id \notin StreamId \/ it.type \notin {"HEADERS", "DATA", "RST_STREAM"} THEN s
  ELSE [s EXCEPT !.wire[it.id] =
          IF it.end \/ it.type = "RST_STREAM" THEN "ENDED"
          ELSE IF @ = "NONE" /\ it.type = "HEADERS" THEN "BEGUN" ELSE @]

-----------------------------------------------------------------------------
(* After a frame has been sent *)

\* nghttp2_session_reprioritize_stream: a dependency on an unknown idle
\* stream creates it.
Reprioritize(s, dep) ==
  IF dep # 0 /\ ~Raw(s, dep) /\ DetectIdle(s, dep) THEN OpenIdle(s, dep) ELSE s

\* The response HEADERS of a pushed stream have been sent.
Promoted(s, id) ==
  [s EXCEPT !.streams[id].state = "OPENED", !.streams[id].push = FALSE,
            !.num_outgoing_streams = @ + 1]

HeadersSent(s, it) ==
  LET id == it.id
      s1 == CASE it.aux = "REQUEST" -> [s EXCEPT !.streams[id].state = "OPENING"]
              [] it.aux = "PUSH_RESPONSE" -> Promoted(s, id)
              [] it.aux = "RESPONSE" -> [s EXCEPT !.streams[id].state = "OPENED"]
              [] OTHER -> s
      s2 == CloseIfShut([s1 EXCEPT !.streams[id].wr = @ \/ it.end], id)
  IN IF ~Live(s, id) THEN s
     ELSE IF it.data THEN SubmitDataOn(s2, id) ELSE s2

\* Mutant: END_STREAM does not shut the write side.
DataSent_NotShut(s, it) ==
  IF ~ (Live(s, it.id) /\ it.data) THEN s ELSE Detach(s, it.id)

DataSent(s, it) ==
  IF ~ (Live(s, it.id) /\ it.data) THEN s
  ELSE LET s1 == Detach(s, it.id)
       IN IF it.end THEN CloseIfShut([s1 EXCEPT !.streams[it.id].wr = TRUE], it.id)
                    ELSE s1

\* Mutant: the stream is taken to be idle.
PrioritySent_AlwaysIdle(s, it) ==
  IF s.server THEN s ELSE AdjustIdle(OpenStream(s, it.id, "IDLE", it.arg))

PrioritySent(s, it) ==
  IF s.server \/ ~ (Raw(s, it.id) \/ DetectIdle(s, it.id)) THEN s
  ELSE AdjustIdle(IF Raw(s, it.id) THEN Reprioritize(s, it.arg)
                  ELSE OpenStream(s, it.id, "IDLE", it.arg))

\* Mutant: TERM_SENT is not recorded.
GoawaySent_NoTerm(s, it, q) ==
  IF it.aux = "SHUTDOWN_NOTICE" THEN s
  ELSE CloseAll([s EXCEPT !.goaway_flags = @ \cup {"SENT"}],
                OnGoaway(s, it.arg, TRUE), q)

GoawaySent(s, it, q) ==
  IF it.aux = "SHUTDOWN_NOTICE" THEN s
  ELSE CloseAll([s EXCEPT !.goaway_flags = @ \cup {"SENT"}
                   \cup (IF it.aux = "TERM_ON_SEND" THEN {"TERM_SENT"} ELSE {})],
                OnGoaway(s, it.arg, TRUE), q)

\* session_after_frame_sent1.  q orders the streams a GOAWAY closes; open: the
\* connection window is still open after a DATA frame.
AfterFrameSent1(s, q, open) ==
  LET it == s.aob.item
  IN CASE it.type = "DATA" -> DataSent([s EXCEPT !.window_open = open], it)
       [] it.type = "HEADERS" -> HeadersSent(s, it)
       [] it.type = "PRIORITY" -> PrioritySent(s, it)
       [] it.type = "RST_STREAM" -> CloseStream(s, it.id)
       [] it.type = "GOAWAY" -> GoawaySent(s, it, q)
       [] OTHER -> s

\* The streams that sending the active item closes all at once.
SentCloses(s) ==
  IF s.aob.item.type = "GOAWAY" /\ s.aob.item.aux # "SHUTDOWN_NOTICE"
    THEN OnGoaway(s, s.aob.item.arg, TRUE) ELSE {}

\* active_outbound_item_reset: a DATA item still in aob is released.
ResetAob(s) == [s EXCEPT !.aob = [item |-> NoItem, stage |-> "POP"]]

\* Mutant: a DATA item that may not be sent any more is not released.
AfterFrameSent2_Leaks(s) ==
  LET it == s.aob.item
  IN IF it.type = "DATA" /\ it.data THEN ResetAob(FreeData(s, it)) ELSE ResetAob(s)

\* session_after_frame_sent2: a DATA item that has more to send stays with
\* its stream, unless the stream may not send any more.
AfterFrameSent2(s) ==
  LET it == s.aob.item
  IN IF it.type # "DATA" THEN ResetAob(s)
     ELSE IF it.data THEN ResetAob(FreeData(s, it))
     ELSE IF MaySendData(s, it.id) THEN ResetAob(s)
     ELSE ResetAob(FreeData(IF Live(s, it.id) THEN Detach(s, it.id) ELSE s, it))

-----------------------------------------------------------------------------
(* Receiving.  A handler leaves iframe.state at what mem_recv does next:    *)
(* HB (the header block is read), IGN_HB (it is only decoded), DATA,        *)
(* IGN_DATA, or IGN_ALL once the session is being terminated.               *)

\* NGHTTP2_ERR_IGN_HEADER_BLOCK
IgnoreBlock(s) ==
  IF s.iframe.state = "IGN_ALL" THEN s ELSE [s EXCEPT !.iframe.state = "IGN_HB"]

\* on_begin_headers_callback accepts the frame, or fails for this stream only
\* (NGHTTP2_ERR_TEMPORAL_CALLBACK_FAILURE), which resets the stream.
BeginBlock(s, id, accepted) ==
  IF accepted THEN [s EXCEPT !.iframe.state = "HB"]
              ELSE IgnoreBlock(AddRst(s, id))

\* nghttp2_session_on_request_headers_received
OnRequestHeaders(s, id, dep, accepted) ==
  IF id = 0 \/ (~s.server /\ DetectIdle(s, id)) THEN IgnoreBlock(ConnectionError(s))
  ELSE IF ~s.server THEN IgnoreBlock(s)
  ELSE IF ~IsNewPeerId(s, id) THEN
    IF IsMine(s, id) \/ (Raw(s, id) /\ s.streams[id].rd)
      THEN IgnoreBlock(ConnectionError(s)) ELSE IgnoreBlock(s)
  ELSE LET s1 == [s EXCEPT !.last_recv_stream_id = id]
       IN IF IncomingMax(s1) THEN IgnoreBlock(ConnectionError(s1))
          ELSE IF ~AllowNewIncoming(s1) THEN IgnoreBlock(s1)
          ELSE IF dep = id THEN IgnoreBlock(ConnectionError(s1))
          ELSE IF IncomingPendingMax(s1) THEN IgnoreBlock(AddRst(s1, id))
          ELSE BeginBlock([AdjustClosed(OpenStream(s1, id, "OPENING", dep))
                             EXCEPT !.last_proc_stream_id = id], id, accepted)

\* nghttp2_session_on_response_headers_received
OnResponseHeaders(s, id, accepted) ==
  IF s.streams[id].rd THEN IgnoreBlock(ConnectionError(s))
  ELSE BeginBlock([s EXCEPT !.streams[id].state = "OPENED"], id, accepted)

\* Mutant: the stream still counts as reserved.
PushOpened_StaysReserved(s, id) ==
  [s EXCEPT !.streams[id].state = "OPENED", !.streams[id].push = FALSE,
            !.num_incoming_streams = @ + 1]

\* The response HEADERS of a pushed stream have been received.
PushOpened(s, id) ==
  [s EXCEPT !.streams[id].state = "OPENED", !.streams[id].push = FALSE,
            !.num_incoming_reserved_streams = IF IsMine(s, id) THEN @ ELSE @ - 1,
            !.num_incoming_streams = @ + 1]

\* nghttp2_session_on_push_response_headers_received
OnPushResponseHeaders(s, id, accepted) ==
  IF s.server \/ IncomingMax(s) THEN IgnoreBlock(ConnectionError(s))
  ELSE IF ~AllowNewIncoming(s) THEN IgnoreBlock(s)
  ELSE IF IncomingPendingMax(s) THEN IgnoreBlock(AddRst(s, id))
  ELSE BeginBlock(PushOpened(s, id), id, accepted)

\* nghttp2_session_on_headers_received
OnHeaders(s, id, accepted) ==
  IF s.streams[id].rd THEN IgnoreBlock(ConnectionError(s))
  ELSE IF \/ IsMine(s, id) /\ s.streams[id].state # "OPENED"
          \/ s.streams[id].state = "CLOSING"
    THEN IgnoreBlock(s) ELSE BeginBlock(s, id, accepted)

\* session_process_headers_frame
ProcessHeaders(s, id, dep, accepted) ==
  IF ~Live(s, id) THEN OnRequestHeaders(s, id, dep, accepted)
  ELSE IF s.streams[id].state = "RESERVED"
    THEN OnPushResponseHeaders(s, id, accepted)
  ELSE IF s.streams[id].state = "OPENING" /\ IsMine(s, id)
    THEN OnResponseHeaders(s, id, accepted)
  ELSE OnHeaders(s, id, accepted)

\* nghttp2_session_on_push_promise_received; pid is the promised ID.
OnPushPromise(s, id, pid, accepted) ==
  IF id = 0 \/ s.server \/ ~s.local_enable_push \/ ~IsMine(s, id)
    THEN IgnoreBlock(ConnectionError(s))
  ELSE IF ~AllowNewIncoming(s) THEN IgnoreBlock(s)
  ELSE IF ~IsNewPeerId(s, pid) \/ DetectIdle(s, id)
    THEN IgnoreBlock(ConnectionError(s))
  ELSE LET s1 == [s EXCEPT !.last_recv_stream_id = pid]
       IN IF \/ ~Live(s1, id) \/ StreamIn(s1, id, {"CLOSING"})
             \/ ~s1.pending_enable_push
             \/ s1.num_incoming_reserved_streams >= MaxReserved
            THEN IgnoreBlock(AddRst(s1, pid))
          ELSE IF s1.streams[id].rd THEN IgnoreBlock(ConnectionError(s1))
          ELSE BeginBlock([OpenStream(s1, pid, "RESERVED", id)
                             EXCEPT !.last_proc_stream_id = pid], pid, accepted)

\* session_inbound_frame_reset: the next frame is awaited.
ResetInbound(s) == [s EXCEPT !.iframe = [state |-> "HEAD", type |-> "NONE",
                                         id |-> 0, arg |-> 0, end |-> FALSE]]

\* mem_recv after a handler of a whole frame: IGN_ALL stays.
FrameDone(s) == IF s.iframe.state = "IGN_ALL" THEN s ELSE ResetInbound(s)

\* The stream a header block is about.
Subject(f) == IF f.type = "PUSH_PROMISE" THEN f.arg ELSE f.id

\* END_STREAM was received: nghttp2_stream_shutdown(SHUT_RD), then close.
EndOfStream(s, id) == CloseIfShut([s EXCEPT !.streams[id].rd = TRUE], id)

\* session_after_header_block_received.  valid: the HTTP messaging rules hold;
\* terminate: on_frame_recv_callback calls nghttp2_session_terminate_session.
AfterHeaderBlock(s, valid, terminate) ==
  LET f == s.iframe
      s1 == IF ~valid THEN AddRst(s, Subject(f))
            ELSE IF terminate THEN ConnectionError(s) ELSE s
  IN IF ~Live(s, f.id) \/ StreamIn(s, f.id, {"CLOSING"}) THEN s
     ELSE IF f.type = "HEADERS" /\ f.end THEN EndOfStream(s1, f.id) ELSE s1

\* The header block cannot be decoded: inflate_header_block.
CompressionError(s) ==
  LET sub == Subject(s.iframe)
      s1 == IF s.iframe.state = "HB" /\ Live(s, sub) THEN AddRst(s, sub) ELSE s
  IN FrameDone(ConnectionError(s1))

\* session_on_data_received_fail_fast
OnDataHeader(s, id) ==
  LET st == s.streams[id]
      fails == \/ id = 0 \/ DetectIdle(s, id)
               \/ Raw(s, id) /\ st.rd
               \/ Live(s, id) /\ IsMine(s, id) /\ st.state \notin {"CLOSING", "OPENED"}
               \/ Live(s, id) /\ ~IsMine(s, id) /\ st.state = "RESERVED"
      s1 == IF fails THEN ConnectionError(s) ELSE s
  IN IF s1.iframe.state = "IGN_ALL" THEN s1
     ELSE [s1 EXCEPT !.iframe.state =
             IF fails \/ ~Live(s, id) \/ st.state = "CLOSING" THEN "IGN_DATA"
             ELSE "DATA"]

\* nghttp2_session_on_data_received
OnDataEnd(s, valid, terminate) ==
  LET f == s.iframe
      s1 == IF f.end /\ ~valid THEN AddRst(s, f.id)
            ELSE IF terminate THEN ConnectionError(s) ELSE s
  IN IF ~Live(s, f.id) \/ StreamIn(s, f.id, {"CLOSING"}) THEN s
     ELSE IF f.end THEN EndOfStream(s1, f.id) ELSE s1

\* Mutant: a closed stream that is kept is closed again.
OnRstStream_Raw(s, id) ==
  IF id = 0 \/ DetectIdle(s, id) THEN ConnectionError(s)
  ELSE IF Raw(s, id) THEN CloseAll(s, {id}, <<id>>) ELSE s

\* nghttp2_session_on_rst_stream_received
OnRstStream(s, id) ==
  IF id = 0 \/ DetectIdle(s, id) THEN ConnectionError(s)
  ELSE IF Live(s, id) THEN CloseStream([s EXCEPT !.streams[id].rd = TRUE], id)
  ELSE s

\* nghttp2_session_on_priority_received
OnPriority(s, id, dep) ==
  IF id = 0 \/ dep = id THEN ConnectionError(s)
  ELSE IF ~s.server \/ ~ (Raw(s, id) \/ DetectIdle(s, id)) THEN s
  ELSE AdjustIdle(IF Raw(s, id) THEN Reprioritize(s, dep)
                  ELSE OpenStream(s, id, "IDLE", dep))

\* nghttp2_session_on_goaway_received
OnGoawayReceived(s, last, q) ==
  IF (last > 0 /\ ~IsMine(s, last)) \/ s.remote_last_stream_id < last
    THEN ConnectionError(s)
  ELSE CloseAll([s EXCEPT !.goaway_flags = @ \cup {"RECV"},
                          !.remote_last_stream_id = last],
                OnGoaway(s, last, FALSE), q)

\* Mutant: one ACK too many.
AddAck_OneMore(s, type) ==
  IF IsClosing(s) THEN s
  ELSE IF s.obq_flood_counter > MaxFlood THEN [s EXCEPT !.fatal = TRUE]
  ELSE [AddUrgent(s, [Frame(type, 0) EXCEPT !.aux = "ACK"])
          EXCEPT !.obq_flood_counter = @ + 1]

\* The ACK of a SETTINGS or PING is queued unless the session is closing; too
\* many pending ones are fatal (NGHTTP2_ERR_FLOODED).
AddAck(s, type) ==
  IF IsClosing(s) THEN s
  ELSE IF s.obq_flood_counter >= MaxFlood THEN [s EXCEPT !.fatal = TRUE]
  ELSE [AddUrgent(s, [Frame(type, 0) EXCEPT !.aux = "ACK"])
          EXCEPT !.obq_flood_counter = @ + 1]

=============================================================================
