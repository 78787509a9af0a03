------------------------------ MODULE Framing ------------------------------
(***************************************************************************)
(* Frames on the wire: nghttp2_frame_pack_* (lib/nghttp2_frame.c) on the   *)
(* sending side, and on the receiving side the state machine of            *)
(* nghttp2_session_mem_recv (lib/nghttp2_session.c), which is fed with     *)
(* pieces of any length.  Bytes are counted, not spelled: a wire frame     *)
(* records the fields that steer the parser.                               *)
(*                                                                         *)
(* "verdict" is what the session makes of a frame (module Session): it is  *)
(* accepted (ok), its payload or header block is ignored (ign), a callback *)
(* fails for its stream (tcf), the header block is bad (comp) or it is a   *)
(* connection error (term).                                                *)
(***************************************************************************)
EXTENDS Integers, Sequences, FiniteSets

CONSTANTS
  Hdlen,       \* NGHTTP2_FRAME_HDLEN (9)
  Speclen,     \* NGHTTP2_PRIORITY_SPECLEN (5)
  EntryLen,    \* NGHTTP2_FRAME_SETTINGS_ENTRY_LENGTH (6)
  WordLen,     \* a 32 bit field: WINDOW_UPDATE, RST_STREAM, promised ID (4)
  OpaqueLen,   \* the PING data, the fixed part of GOAWAY (8)
  OriginLen,   \* Origin-Len of ALTSVC (2)
  MagicLen,    \* NGHTTP2_CLIENT_MAGIC_LEN (24)
  Chunk,       \* NGHTTP2_MAX_PAYLOADLEN: the payload of one buffer
  MaxChunk,    \* max_chunk of the frame buffers
  MaxPad,      \* NGHTTP2_MAX_PADLEN (256)
  MaxFrame,    \* local SETTINGS_MAX_FRAME_SIZE
  Wires,       \* the sequences of frames that are received
  Roles,       \* of TRUE: a server, FALSE: a client
  Pieces,      \* lengths of the pieces handed to nghttp2_session_mem_recv
  Pausing      \* whether callbacks may return NGHTTP2_ERR_PAUSE

VARIABLES
  wire,      \* the frames the peer sends
  server,    \* session->server
  eaten,     \* number of bytes taken from the wire
  avail,     \* bytes left of the piece that is being processed
  incall,    \* nghttp2_session_mem_recv is running
  iframe,    \* session->iframe
  got,       \* what the callbacks were told: one record per frame
  inflated,  \* bytes given to the HPACK decoder
  gone,      \* the stream of the DATA frame being read was closed
  pausing    \* the application pauses, fails and closes streams on the way

vars == <<wire, server, eaten, avail, incall, iframe, got, inflated, gone, pausing>>

SMin(a, b) == IF a < b THEN a ELSE b
RECURSIVE Sum(_)
Sum(s) == IF s = <<>> THEN 0 ELSE Head(s) + Sum(Tail(s))

-----------------------------------------------------------------------------
(* The sending side *)

\* nghttp2_bufs_add: the pieces into which len bytes fall when the first buffer has
\* room for "room" of them
RECURSIVE Split(_, _)
Split(len, room) ==
  IF len <= room THEN <<len>> ELSE <<room>> \o Split(len - room, Chunk)

\* frame_pack_headers_shared
PackHeadersShared(hd, lens) ==
  [i \in DOMAIN lens |->
     [hd EXCEPT !.type = IF i = 1 THEN hd.type ELSE "CONTINUATION",
                !.flags = (IF i = 1 THEN hd.flags \ {"END_HEADERS"} ELSE {})
                          \cup (IF i = Len(lens) THEN {"END_HEADERS"} ELSE {}),
                !.length = lens[i]]]

\* nghttp2_frame_pack_headers, nghttp2_frame_pack_push_promise: the header block
\* starts at nv_offset; <<>> is NGHTTP2_ERR_HEADER_COMP
PackHeaders(hd, offset, block) ==
  LET pieces == Split(block, Chunk - offset)
      lens == [pieces EXCEPT ![1] = @ + offset]
  IN IF Len(pieces) > MaxChunk THEN <<>> ELSE PackHeadersShared(hd, lens)

\* session_headers_add_pad, nghttp2_frame_add_pad, frame_set_pad: padlen more bytes
\* in the first frame, of which the first holds padlen - 1.  session_call_select_padding
\* allows it only when the frames do not outgrow one buffer.
AddPad(frames, padlen) ==
  LET len == Sum([i \in DOMAIN frames |-> frames[i].length])
  IN IF frames = <<>> \/ padlen = 0 \/ len >= Chunk \/ padlen > MaxPad
        \/ len + padlen > Chunk THEN frames
     ELSE [frames EXCEPT ![1] = [@ EXCEPT !.length = @ + padlen,
                                          !.flags = @ \cup {"PADDED"},
                                          !.pad = padlen - 1]]

Frame(type, flags, length, verdict) ==
  [type |-> type, flags |-> flags, length |-> length, pad |-> 0, sid |-> 1,
   verdict |-> verdict, entries |-> <<>>, body |-> length]

HeadersFrames(type, block, pri, padlen, verdict) ==
  LET offset == IF type = "PUSH_PROMISE" THEN WordLen
                ELSE IF pri THEN Speclen ELSE 0
      hd == [Frame(type, {"END_HEADERS"} \cup (IF pri THEN {"PRIORITY"} ELSE {}), 0,
                   verdict) EXCEPT !.body = block]
  IN AddPad(PackHeaders(hd, offset, block), padlen)

\* nghttp2_session_pack_data
DataFrames(body, padlen, verdict) == AddPad(<<Frame("DATA", {}, body, verdict)>>, padlen)

\* nghttp2_frame_pack_settings, nghttp2_frame_pack_settings_payload
SettingsFrames(entries) ==
  <<[Frame("SETTINGS", {}, EntryLen * Len(entries), "ok")
       EXCEPT !.entries = entries]>>

\* nghttp2_frame_pack_priority, _rst_stream, _window_update, _ping
FixedLen(type) == CASE type = "PRIORITY" -> Speclen
                    [] type \in {"RST_STREAM", "WINDOW_UPDATE"} -> WordLen
                    [] type = "PING" -> OpaqueLen

FixedFrames(type) == <<[Frame(type, {}, FixedLen(type), "ok") EXCEPT !.body = 0]>>

\* nghttp2_frame_pack_goaway: opaque_data_len bytes of debug data
GoawayFrames(debug) ==
  <<[Frame("GOAWAY", {}, OpaqueLen + debug, "ok") EXCEPT !.body = debug]>>

\* nghttp2_frame_pack_altsvc (of which "pad" is the Origin-Len) and _origin
AltsvcFrames(origin, value) ==
  <<[Frame("ALTSVC", {}, OriginLen + origin + value, "ok")
       EXCEPT !.pad = origin, !.body = origin + value]>>

OriginFrames(len) == <<Frame("ORIGIN", {}, len, "ok")>>

\* session_pack_extension
ExtensionFrames(len, verdict) == <<Frame("EXT", {}, len, verdict)>>

-----------------------------------------------------------------------------
(* The receiving side *)

\* session_inbound_frame_reset
FreshFrame ==
  [state |-> "READ_HEAD", mark |-> Hdlen, payloadleft |-> 0, padlen |-> 0,
   hd |-> [Frame("DATA", {}, 0, "ok") EXCEPT !.sid = 0], lbuf |-> 0, lcap |-> 0,
   iv |-> <<>>, min_table |-> -1, max_niv |-> 0, seen |-> 0, block |-> 0,
   at |-> 0]

\* session_new: a server expects the client magic, a client SETTINGS
Init ==
  /\ wire \in Wires /\ server \in Roles /\ pausing \in Pausing
  /\ eaten = 0 /\ avail = 0 /\ incall = FALSE /\ gone = FALSE
  /\ got = <<>> /\ inflated = 0
  /\ iframe = IF server
              THEN [FreshFrame EXCEPT !.state = "READ_CLIENT_MAGIC",
                                      !.payloadleft = MagicLen]
              ELSE [FreshFrame EXCEPT !.state = "READ_FIRST_SETTINGS"]

\* Where frame j starts on the wire
Start(j) == (IF server THEN MagicLen ELSE 0)
            + Sum([k \in 1..(j - 1) |-> Hdlen + wire[k].length])
Total == Start(Len(wire) + 1)

\* The frame whose header ends at byte e, if the parser is in step with the wire
HeaderEnding(e) == {j \in DOMAIN wire : Start(j) + Hdlen = e}

\* A call of nghttp2_session_mem_recv with a piece of n bytes
Call(n) ==
  /\ ~incall
  /\ n <= Total - eaten
  /\ avail' = n /\ incall' = TRUE
  /\ UNCHANGED <<wire, server, pausing, eaten, iframe, got, inflated, gone>>

\* "in += n"
Take(n) == eaten' = eaten + n /\ avail' = avail - n

\* The end of the loop: it goes on while there is input or "busy" is set
Break(busy) == incall' = (busy \/ avail' > 0)

\* "return (ssize_t)inlen": the rest of the piece is dropped
ReturnAll == eaten' = eaten + avail /\ avail' = 0 /\ incall' = FALSE

\* nghttp2_session_terminate_session: ignore all input from here on
Terminate(i) == [i EXCEPT !.state = "IGN_ALL"]

SetMark(i, n) == [i EXCEPT !.mark = n]

\* inbound_frame_buf_read
BufRead == SMin(avail, iframe.mark)
\* inbound_frame_payload_readlen
PayloadRead == SMin(avail, iframe.payloadleft)

Quiet == UNCHANGED <<wire, server, pausing>>

-----------------------------------------------------------------------------

ReadClientMagic ==
  /\ incall /\ iframe.state = "READ_CLIENT_MAGIC"
  /\ LET n == PayloadRead IN
     /\ Take(n)
     /\ iframe' = IF iframe.payloadleft = n
                  THEN [FreshFrame EXCEPT !.state = "READ_FIRST_SETTINGS"]
                  ELSE [iframe EXCEPT !.payloadleft = @ - n]
  /\ Break(FALSE)
  /\ Quiet /\ UNCHANGED <<got, inflated, gone>>

\* A frame header is not complete yet: return in - first
ReadHeaderPart ==
  /\ incall
  /\ iframe.state \in {"READ_FIRST_SETTINGS", "READ_HEAD", "EXPECT_CONTINUATION",
                       "IGN_CONTINUATION"}
  /\ avail < iframe.mark
  /\ Take(avail) /\ incall' = FALSE
  /\ iframe' = SetMark(iframe, iframe.mark - avail)
  /\ Quiet /\ UNCHANGED <<got, inflated, gone>>

\* inbound_frame_handle_pad
PadMissing(f) == "PADDED" \in f.flags /\ f.length < 1
HasPad(f) == "PADDED" \in f.flags

\* nghttp2_frame_priority_len
PriorityLen(f) == IF "PRIORITY" \in f.flags THEN Speclen ELSE 0

To(i, state) == [i EXCEPT !.state = state]

\* What the header of a DATA frame leads to (session_on_data_received_fail_fast)
HeadData(i, f) ==
  CASE f.verdict = "term" \/ (f.verdict = "ok" /\ PadMissing(f)) -> Terminate(i)
    [] f.verdict = "ign" -> To(i, "IGN_DATA")
    [] HasPad(f) -> SetMark(To(i, "READ_PAD_DATA"), 1)
    [] OTHER -> To(i, "READ_DATA")

\* session_process_headers_frame or session_process_push_promise_frame was called
Processed(i, f) ==
  CASE f.verdict = "term" -> Terminate(i)
    [] f.verdict \in {"ign", "tcf"} -> To(i, "IGN_HEADER_BLOCK")
    [] OTHER -> To(i, "READ_HEADER_BLOCK")

HeadHeaders(i, f) ==
  CASE PadMissing(f) -> Terminate(i)
    [] HasPad(f) -> SetMark(To(i, "READ_NBYTE"), 1)
    [] ~HasPad(f) /\ PriorityLen(f) > f.length -> To(i, "FRAME_SIZE_ERROR")
    [] ~HasPad(f) /\ PriorityLen(f) \in 1..f.length ->
         SetMark(To(i, "READ_NBYTE"), PriorityLen(f))
    [] OTHER -> Processed(i, f)

HeadPushPromise(i, f) ==
  CASE PadMissing(f) -> Terminate(i)
    [] HasPad(f) -> SetMark(To(i, "READ_NBYTE"), 1)
    [] ~HasPad(f) /\ f.length < WordLen -> To(i, "FRAME_SIZE_ERROR")
    [] OTHER -> SetMark(To(i, "READ_NBYTE"), WordLen)

\* PRIORITY, RST_STREAM, WINDOW_UPDATE and PING
HeadFixed(i, f) ==
  IF f.length # FixedLen(f.type) THEN To(i, "FRAME_SIZE_ERROR")
  ELSE SetMark(To(i, "READ_NBYTE"), FixedLen(f.type))

HeadGoaway(i, f) ==
  IF f.length < OpaqueLen THEN To(i, "FRAME_SIZE_ERROR")
  ELSE SetMark(To(i, "READ_NBYTE"), OpaqueLen)

\* One entry more than the frame has is allocated, for the smallest table size
HeadSettings(i, f) ==
  IF f.length % EntryLen # 0 \/ ("ACK" \in f.flags /\ f.length > 0)
  THEN To(i, "FRAME_SIZE_ERROR")
  ELSE [i EXCEPT !.state = "READ_SETTINGS",
                 !.max_niv = IF f.length > 0 THEN f.length \div EntryLen + 1 ELSE 0,
                 !.mark = IF f.length > 0 THEN EntryLen ELSE 0]

HeadAltsvc(i, f) ==
  CASE server -> To(i, "IGN_PAYLOAD")
    [] ~server /\ f.length < OriginLen -> To(i, "FRAME_SIZE_ERROR")
    [] OTHER -> SetMark(To(i, "READ_NBYTE"), OriginLen)

HeadOrigin(i, f) ==
  IF server THEN To(i, "IGN_PAYLOAD")
  ELSE [i EXCEPT !.state = "READ_ORIGIN_PAYLOAD", !.lcap = f.length]

\* An extension the application unpacks, or a frame of a type nobody knows
HeadExtension(i, f) ==
  IF f.verdict = "ign" THEN To(i, "IGN_PAYLOAD") ELSE To(i, "READ_EXTENSION_PAYLOAD")

\* The switch of NGHTTP2_IB_READ_HEAD
Dispatch(i, f) ==
  CASE f.length > MaxFrame \/ f.type = "CONTINUATION" -> Terminate(i)
    [] f.length <= MaxFrame /\ f.type = "DATA" -> HeadData(i, f)
    [] f.length <= MaxFrame /\ f.type = "HEADERS" -> HeadHeaders(i, f)
    [] f.length <= MaxFrame /\ f.type = "PUSH_PROMISE" -> HeadPushPromise(i, f)
    [] f.length <= MaxFrame /\ f.type = "SETTINGS" -> HeadSettings(i, f)
    [] f.length <= MaxFrame /\ f.type = "GOAWAY" -> HeadGoaway(i, f)
    [] f.length <= MaxFrame /\ f.type = "ALTSVC" -> HeadAltsvc(i, f)
    [] f.length <= MaxFrame /\ f.type = "ORIGIN" -> HeadOrigin(i, f)
    [] f.length <= MaxFrame /\ f.type = "EXT" -> HeadExtension(i, f)
    [] OTHER -> HeadFixed(i, f)

\* The states in which the next iteration has work although there is no more input.
\* (READ_HEAD sets busy for all of them but those that wait for mark bytes.)
BusyAfterHead(i) ==
  i.state \notin {"READ_NBYTE", "READ_PAD_DATA", "READ_SETTINGS",
                  "READ_ORIGIN_PAYLOAD"}
  \/ (i.state \in {"READ_SETTINGS", "READ_ORIGIN_PAYLOAD"} /\ i.payloadleft = 0)

ReadHead ==
  /\ incall /\ iframe.state \in {"READ_FIRST_SETTINGS", "READ_HEAD"}
  /\ avail >= iframe.mark
  /\ IF HeaderEnding(eaten + iframe.mark) = {}
     THEN Take(iframe.mark) /\ iframe' = To(iframe, "OUT_OF_STEP") /\ incall' = FALSE
     ELSE LET j == CHOOSE j \in HeaderEnding(eaten + iframe.mark) : TRUE
              f == wire[j]
              expected == iframe.state = "READ_HEAD"
                          \/ (f.type = "SETTINGS" /\ "ACK" \notin f.flags)
              i == [iframe EXCEPT !.hd = f, !.payloadleft = f.length, !.mark = 0,
                                !.at = j]
          IN IF ~expected
             THEN ReturnAll /\ iframe' = Terminate(i)
             ELSE /\ iframe' = Dispatch(i, f)
                  /\ IF iframe'.state = "IGN_ALL" THEN ReturnAll
                     ELSE Take(iframe.mark) /\ Break(BusyAfterHead(iframe'))
  /\ gone' = FALSE
  /\ Quiet /\ UNCHANGED <<got, inflated>>

-----------------------------------------------------------------------------
Delivered(n) == got' = Append(got, [at |-> iframe.at, n |-> n, iv |-> <<>>])

\* Not all of the fixed part has arrived
ReadNbytePart ==
  /\ incall /\ iframe.state \in {"READ_NBYTE", "READ_PAD_DATA"} /\ avail < iframe.mark
  /\ Take(avail) /\ incall' = FALSE
  /\ iframe' = [iframe EXCEPT !.mark = @ - avail, !.payloadleft = @ - avail]
  /\ Quiet /\ UNCHANGED <<got, inflated, gone>>

\* inbound_frame_compute_pad: padlen counts the Pad Length field itself
PadTooLong(i) == i.hd.pad > i.payloadleft

ReadPad(i, fixed) ==
  IF PadTooLong(i) \/ i.hd.pad + 1 + fixed > 1 + i.payloadleft THEN Terminate(i)
  ELSE [i EXCEPT !.padlen = i.hd.pad + 1]

PadPending(i) == i.padlen = 0 /\ HasPad(i.hd)

NbyteHeaders(i) ==
  LET p == ReadPad(i, PriorityLen(i.hd))
  IN CASE PadPending(i) /\ p.state = "IGN_ALL" -> p
       [] PadPending(i) /\ p.state # "IGN_ALL" /\ PriorityLen(i.hd) > 0 ->
            SetMark(p, PriorityLen(i.hd))
       [] PadPending(i) /\ p.state # "IGN_ALL" /\ PriorityLen(i.hd) = 0 ->
            Processed(p, p.hd)
       [] OTHER -> Processed(i, i.hd)

NbytePushPromise(i) ==
  LET p == ReadPad(i, WordLen)
  IN CASE PadPending(i) /\ p.state = "IGN_ALL" -> p
       [] PadPending(i) /\ p.state # "IGN_ALL" -> SetMark(p, WordLen)
       [] OTHER -> Processed(i, i.hd)

\* The fixed part of HEADERS or PUSH_PROMISE is there
ReadNbyteHeaders ==
  /\ incall /\ iframe.state = "READ_NBYTE" /\ avail >= iframe.mark
  /\ iframe.hd.type \in {"HEADERS", "PUSH_PROMISE"}
  /\ LET i == [iframe EXCEPT !.payloadleft = @ - iframe.mark, !.mark = 0]
     IN iframe' = IF i.hd.type = "HEADERS" THEN NbyteHeaders(i)
                  ELSE NbytePushPromise(i)
  /\ IF iframe'.state = "IGN_ALL" THEN ReturnAll
     ELSE Take(iframe.mark) /\ Break(iframe'.state # "READ_NBYTE")
  /\ Quiet /\ UNCHANGED <<got, inflated, gone>>

\* session_process_priority_frame, _rst_stream_, _ping_ and _window_update_
ReadNbyteFixed ==
  /\ incall /\ iframe.state = "READ_NBYTE" /\ avail >= iframe.mark
  /\ iframe.hd.type \in {"PRIORITY", "RST_STREAM", "WINDOW_UPDATE", "PING"}
  /\ IF iframe.hd.verdict = "term" THEN ReturnAll /\ iframe' = Terminate(iframe)
                                        /\ UNCHANGED got
     ELSE Take(iframe.mark) /\ iframe' = FreshFrame /\ Delivered(0) /\ Break(FALSE)
  /\ Quiet /\ UNCHANGED <<inflated, gone>>

\* The rest of a GOAWAY or an ALTSVC goes to lbuf
ReadNbyteLong ==
  /\ incall /\ iframe.state = "READ_NBYTE" /\ avail >= iframe.mark
  /\ iframe.hd.type \in {"GOAWAY", "ALTSVC"}
  /\ LET i == [iframe EXCEPT !.payloadleft = @ - iframe.mark, !.mark = 0]
     IN iframe' =
          IF i.hd.type = "GOAWAY"
          THEN [To(i, "READ_GOAWAY_DEBUG") EXCEPT !.lcap = i.hd.length - OpaqueLen]
          ELSE IF i.hd.pad > i.payloadleft THEN To(i, "FRAME_SIZE_ERROR")
          ELSE [To(i, "READ_ALTSVC_PAYLOAD") EXCEPT !.lcap = i.hd.length - OriginLen]
  /\ Take(iframe.mark) /\ Break(TRUE)
  /\ Quiet /\ UNCHANGED <<got, inflated, gone>>

FrameSizeError ==
  /\ incall /\ iframe.state = "FRAME_SIZE_ERROR"
  /\ iframe' = Terminate(iframe) /\ ReturnAll
  /\ Quiet /\ UNCHANGED <<got, inflated, gone>>

IgnoreAll ==
  /\ incall /\ iframe.state = "IGN_ALL" /\ ReturnAll
  /\ Quiet /\ UNCHANGED <<iframe, got, inflated, gone>>

-----------------------------------------------------------------------------
(* Header blocks *)

\* nghttp2_frame_trail_padlen; padlen is 0 in a CONTINUATION
TrailPadlen(i) == IF i.padlen = 0 THEN 0 ELSE i.padlen - 1

\* inbound_frame_effective_readlen; 0 when everything is padding
EffectiveReadlen(i, left, n) ==
  LET pad == TrailPadlen(i) - left
  IN CASE TrailPadlen(i) <= left -> n
       [] TrailPadlen(i) > left /\ n < pad -> 0
       [] OTHER -> n - pad

BlockStates == {"READ_HEADER_BLOCK", "IGN_HEADER_BLOCK"}

\* The header of the CONTINUATION is not asked for
AfterBlock_NoMark(i) ==
  CASE i.payloadleft > 0 -> i
    [] i.payloadleft = 0 /\ "END_HEADERS" \notin i.hd.flags ->
         [i EXCEPT !.padlen = 0,
                   !.state = IF @ = "READ_HEADER_BLOCK" THEN "EXPECT_CONTINUATION"
                             ELSE "IGN_CONTINUATION"]
    [] OTHER -> FreshFrame

\* The block, or this frame's part of it, was read to the end
AfterBlock(i) ==
  CASE i.payloadleft > 0 -> i
    [] i.payloadleft = 0 /\ "END_HEADERS" \notin i.hd.flags ->
         [i EXCEPT !.mark = Hdlen, !.padlen = 0,
                   !.state = IF @ = "READ_HEADER_BLOCK" THEN "EXPECT_CONTINUATION"
                             ELSE "IGN_CONTINUATION"]
    [] OTHER -> FreshFrame

\* inflate_header_block with call_header_cb, or without it for an ignored block
Inflates(i, data) == data

ReadHeaderBlock ==
  /\ incall /\ iframe.state \in BlockStates
  /\ LET n == PayloadRead
         data == EffectiveReadlen(iframe, iframe.payloadleft - n, n)
         i == [iframe EXCEPT !.payloadleft = @ - n, !.block = @ + data]
     IN IF iframe.hd.verdict = "comp" /\ data > 0
        THEN /\ ReturnAll /\ iframe' = Terminate(iframe)
             /\ UNCHANGED <<got, inflated>>
        ELSE /\ Take(n)
             /\ inflated' = inflated + Inflates(iframe, data)
             /\ iframe' = AfterBlock(i)
             /\ IF iframe' = FreshFrame /\ iframe.state = "READ_HEADER_BLOCK"
                THEN Delivered(i.block) ELSE UNCHANGED got
             /\ Break(FALSE)
  /\ Quiet /\ UNCHANGED gone

\* on_header_callback returns NGHTTP2_ERR_PAUSE, or an error for this stream
\* (NGHTTP2_ERR_TEMPORAL_CALLBACK_FAILURE), after k bytes of the block
PauseInHeaderBlock(k, fails) ==
  /\ pausing
  /\ incall /\ iframe.state = "READ_HEADER_BLOCK" /\ iframe.hd.verdict = "ok"
  /\ k \in 1..EffectiveReadlen(iframe, iframe.payloadleft - PayloadRead, PayloadRead)
  /\ Take(k)
  /\ inflated' = inflated + k
  /\ iframe' = [iframe EXCEPT !.payloadleft = @ - k, !.block = @ + k,
                              !.state = IF fails THEN "IGN_HEADER_BLOCK" ELSE @]
  /\ incall' = fails
  /\ Quiet /\ UNCHANGED <<got, gone>>

ReadContinuation ==
  /\ incall /\ iframe.state \in {"EXPECT_CONTINUATION", "IGN_CONTINUATION"}
  /\ avail >= iframe.mark
  /\ IF HeaderEnding(eaten + iframe.mark) = {}
     THEN Take(iframe.mark) /\ iframe' = To(iframe, "OUT_OF_STEP") /\ incall' = FALSE
     ELSE LET f == wire[CHOOSE j \in HeaderEnding(eaten + iframe.mark) : TRUE]
          IN IF f.type # "CONTINUATION" \/ f.sid # iframe.hd.sid
             THEN ReturnAll /\ iframe' = Terminate(iframe)
             ELSE /\ Take(iframe.mark)
                  /\ iframe' = [iframe EXCEPT
                       !.hd.flags = @ \cup (f.flags \cap {"END_HEADERS"}),
                       !.hd.length = @ + f.length,
                       !.payloadleft = f.length, !.mark = 0,
                       !.state = IF @ = "EXPECT_CONTINUATION" THEN "READ_HEADER_BLOCK"
                                 ELSE "IGN_HEADER_BLOCK"]
                  /\ Break(TRUE)
  /\ Quiet /\ UNCHANGED <<got, inflated, gone>>

-----------------------------------------------------------------------------
(* SETTINGS *)

KnownIds == {"TABLE_SIZE", "OTHER"}

\* inbound_frame_set_settings_entry: a later value of a known parameter replaces
\* the earlier one, and the smallest table size is remembered
SetEntry(i, e) ==
  LET at == {k \in DOMAIN i.iv : i.iv[k].id = e.id}
      min == IF e.id # "TABLE_SIZE" THEN i.min_table
             ELSE IF i.min_table = -1 \/ e.value < i.min_table THEN e.value
             ELSE i.min_table
  IN [i EXCEPT !.iv = IF e.id \in KnownIds /\ at # {}
                      THEN [@ EXCEPT ![CHOOSE k \in at : TRUE] = e]
                      ELSE Append(@, e),
               !.min_table = min, !.seen = @ + 1]

\* session_process_settings_frame: the smallest table size takes the place of the
\* last one, which is put at the end
FinalEntries(i) ==
  LET k == CHOOSE k \in DOMAIN i.iv : i.iv[k].id = "TABLE_SIZE"
  IN IF i.min_table = -1 \/ i.iv[k].value = i.min_table THEN i.iv
     ELSE Append([i.iv EXCEPT ![k].value = i.min_table], i.iv[k])

ReadSettings ==
  /\ incall /\ iframe.state = "READ_SETTINGS"
  /\ LET n == BufRead
         i == [iframe EXCEPT !.mark = @ - n, !.payloadleft = @ - n]
         e == IF n > 0 THEN SetEntry(i, i.hd.entries[i.seen + 1]) ELSE i
     IN /\ Take(n)
        /\ CASE i.mark > 0 -> iframe' = i /\ UNCHANGED got
             [] i.mark = 0 /\ i.payloadleft > 0 ->
                  iframe' = SetMark(e, EntryLen) /\ UNCHANGED got
             [] OTHER -> /\ iframe' = FreshFrame
                         /\ got' = Append(got, [at |-> iframe.at, n |-> 0,
                                                iv |-> FinalEntries(e)])
  /\ Break(FALSE)
  /\ Quiet /\ UNCHANGED <<inflated, gone>>

-----------------------------------------------------------------------------
(* DATA *)

\* The Pad Length field
ReadPadData ==
  /\ incall /\ iframe.state = "READ_PAD_DATA" /\ avail >= iframe.mark
  /\ LET i == [iframe EXCEPT !.payloadleft = @ - iframe.mark, !.mark = 0]
     IN iframe' = IF PadTooLong(i) THEN Terminate(i)
                  ELSE [i EXCEPT !.padlen = i.hd.pad + 1, !.state = "READ_DATA"]
  /\ IF iframe'.state = "IGN_ALL" THEN ReturnAll ELSE Take(iframe.mark) /\ Break(TRUE)
  /\ Quiet /\ UNCHANGED <<got, inflated, gone>>

\* on_data_chunk_recv_callback may return NGHTTP2_ERR_PAUSE
ReadData(pause) ==
  /\ incall /\ iframe.state = "READ_DATA" /\ ~gone
  /\ LET n == PayloadRead
         i == [iframe EXCEPT !.payloadleft = @ - n]
         data == IF n > 0 THEN EffectiveReadlen(i, i.payloadleft, n) ELSE 0
         e == [i EXCEPT !.block = @ + data]
     IN /\ Take(n)
        /\ pause => pausing /\ data > 0
        /\ IF pause \/ i.payloadleft > 0 THEN iframe' = e /\ UNCHANGED got
           ELSE iframe' = FreshFrame /\ Delivered(e.block)
  /\ IF pause THEN incall' = FALSE ELSE Break(FALSE)
  /\ Quiet /\ UNCHANGED <<inflated, gone>>

\* The Pad Length field is looked for again
DataStreamGone_PadAgain ==
  /\ incall /\ iframe.state = "READ_DATA" /\ gone
  /\ iframe' = To(iframe, "READ_PAD_DATA")
  /\ UNCHANGED <<eaten, avail, incall>>
  /\ Quiet /\ UNCHANGED <<got, inflated, gone>>

DataStreamGone ==
  /\ incall /\ iframe.state = "READ_DATA" /\ gone
  /\ iframe' = To(iframe, "IGN_DATA")
  /\ UNCHANGED <<eaten, avail, incall>>
  /\ Quiet /\ UNCHANGED <<got, inflated, gone>>

\* Between two calls the stream is closed by a RST_STREAM that was sent
StreamCloses ==
  /\ ~incall /\ iframe.state \in {"READ_DATA", "READ_PAD_DATA"} /\ pausing
  /\ gone' = TRUE
  /\ UNCHANGED <<eaten, avail, incall, iframe, got, inflated>> /\ Quiet

-----------------------------------------------------------------------------
(* Payloads that are dropped or collected *)

IgnorePayload ==
  /\ incall /\ iframe.state \in {"IGN_PAYLOAD", "IGN_DATA"}
  /\ LET n == PayloadRead
     IN /\ Take(n)
        /\ iframe' = IF iframe.payloadleft > n THEN [iframe EXCEPT !.payloadleft = @ - n]
                     ELSE FreshFrame
  /\ Break(FALSE)
  /\ Quiet /\ UNCHANGED <<got, inflated, gone>>

\* A payload that is copied to lbuf
CopyPayload ==
  /\ incall
  /\ LET n == PayloadRead
         i == [iframe EXCEPT !.payloadleft = @ - n, !.lbuf = @ + n]
     IN /\ Take(n)
        /\ IF i.payloadleft > 0 THEN iframe' = i /\ UNCHANGED got
           ELSE iframe' = FreshFrame /\ Delivered(i.lbuf)
  /\ Break(FALSE)
  /\ Quiet /\ UNCHANGED <<inflated, gone>>

ReadGoawayDebug == iframe.state = "READ_GOAWAY_DEBUG" /\ CopyPayload

ReadExtPayload ==
  iframe.state \in {"READ_ALTSVC_PAYLOAD", "READ_ORIGIN_PAYLOAD"} /\ CopyPayload

\* on_extension_chunk_recv_callback and unpack_extension_callback, both of which may
\* cancel the frame
ReadExtension ==
  /\ incall /\ iframe.state = "READ_EXTENSION_PAYLOAD"
  /\ LET n == PayloadRead
         i == [iframe EXCEPT !.payloadleft = @ - n, !.block = @ + n]
         cancel == iframe.hd.verdict = "tcf"
     IN /\ Take(n)
        /\ iframe' = IF cancel /\ n > 0 THEN To(i, "IGN_PAYLOAD")
                     ELSE IF i.payloadleft > 0 THEN i ELSE FreshFrame
        /\ IF iframe' = FreshFrame /\ ~cancel THEN Delivered(i.block) ELSE UNCHANGED got
        /\ Break(cancel /\ n > 0)
  /\ Quiet /\ UNCHANGED <<inflated, gone>>

Parse ==
  \/ ReadClientMagic \/ ReadHeaderPart \/ ReadHead \/ ReadNbytePart
  \/ ReadNbyteHeaders \/ ReadNbyteFixed \/ ReadNbyteLong
  \/ FrameSizeError \/ IgnoreAll \/ ReadHeaderBlock
  \/ (\E k \in 1..Chunk, fails \in BOOLEAN : PauseInHeaderBlock(k, fails))
  \/ ReadContinuation \/ ReadSettings \/ ReadPadData
  \/ (\E pause \in BOOLEAN : ReadData(pause))
  \/ DataStreamGone \/ IgnorePayload \/ ReadGoawayDebug \/ ReadExtPayload
  \/ ReadExtension

Next == (\E n \in Pieces : Call(n)) \/ Parse \/ StreamCloses

Spec == Init /\ [][Next]_vars
-----------------------------------------------------------------------------
TypeOK ==
  /\ server \in BOOLEAN /\ pausing \in BOOLEAN
  /\ eaten \in 0..Total /\ avail \in 0..Total
  /\ incall \in BOOLEAN /\ gone \in BOOLEAN /\ inflated \in Nat
  /\ iframe.payloadleft \in Nat /\ iframe.mark \in Nat /\ iframe.padlen \in Nat
  /\ \A k \in DOMAIN got : got[k].at \in DOMAIN wire /\ got[k].n \in Nat

\* What the lengths of a frame must satisfy, independently of how it is read
WellSized(f) ==
  LET padding == IF HasPad(f) THEN 1 + f.pad ELSE 0
  IN /\ f.length <= MaxFrame
     /\ CASE f.type = "DATA" -> padding <= f.length
          [] f.type = "HEADERS" -> padding + PriorityLen(f) <= f.length
          [] f.type = "PUSH_PROMISE" -> padding + WordLen <= f.length
          [] f.type = "SETTINGS" -> f.length % EntryLen = 0
                                    /\ ("ACK" \in f.flags => f.length = 0)
          [] f.type = "GOAWAY" -> OpaqueLen <= f.length
          [] f.type = "ALTSVC" -> server \/ OriginLen + f.pad <= f.length
          [] f.type \in {"CONTINUATION", "ORIGIN", "EXT"} -> TRUE
          [] OTHER -> f.length = FixedLen(f.type)

Opens(f) == f.type \in {"HEADERS", "PUSH_PROMISE"} /\ "END_HEADERS" \notin f.flags

\* A header block is open after the first k frames
BlockOpen(k) ==
  \E j \in 1..k : /\ Opens(wire[j])
                  /\ \A m \in (j + 1)..k : wire[m].type = "CONTINUATION"
                                           /\ "END_HEADERS" \notin wire[m].flags

Expectable(j) ==
  IF j = 1 THEN wire[1].type = "SETTINGS" /\ "ACK" \notin wire[1].flags
  ELSE (wire[j].type = "CONTINUATION") = BlockOpen(j - 1)

\* The frames up to j are what a peer may send
Legal(j) == \A k \in 1..j : WellSized(wire[k]) /\ Expectable(k)
                             /\ wire[k].verdict \notin {"term", "comp"}

Ignored(f) == f.verdict \in {"ign", "tcf"} \/ (server /\ f.type \in {"ALTSVC", "ORIGIN"})

Last(s) == s[Len(s)]
Values(entries, id) == SelectSeq(entries, LAMBDA e : e.id = id)
SetMin(S) == CHOOSE x \in S : \A y \in S : x <= y

\* Applying the entries in order ends with the last value of each parameter, and
\* the table size passes through the smallest value the frame had for it.
SameSettings(iv, entries) ==
  \A id \in {entries[k].id : k \in DOMAIN entries} :
    LET a == Values(iv, id)
        b == Values(entries, id)
    IN /\ a # <<>> /\ Last(a) = Last(b)
       /\ id = "TABLE_SIZE" => SetMin({a[k].value : k \in DOMAIN a})
                                 = SetMin({b[k].value : k \in DOMAIN b})

\* Whatever the pieces, the callbacks see the frames of the wire in order, each
\* once, with exactly the bytes that were packed: padding, priority fields and
\* frame boundaries are gone, and SETTINGS keep their meaning.
RoundTrip ==
  /\ \A k \in DOMAIN got :
       LET f == wire[got[k].at] IN
       /\ Legal(got[k].at) /\ ~Ignored(f) /\ f.type # "CONTINUATION"
       /\ IF f.type = "SETTINGS" THEN SameSettings(got[k].iv, f.entries)
          ELSE got[k].n = f.body
       /\ k > 1 => got[k - 1].at < got[k].at
  /\ ~pausing =>
       \A j \in DOMAIN wire :
         Start(j + 1) <= eaten /\ ~incall /\ Legal(j) /\ ~Ignored(wire[j])
           /\ wire[j].type # "CONTINUATION" /\ ~Opens(wire[j])
           => \E k \in DOMAIN got : got[k].at = j

\* The parser finds every frame header where the peer put it, and after a frame
\* that is not legal it takes nothing from the wire any more.
InStep ==
  /\ iframe.state # "OUT_OF_STEP"
  /\ \A j \in DOMAIN wire :
       Start(j + 1) < eaten /\ ~incall /\ ~Legal(j) => iframe.state = "IGN_ALL"

\* A call that returns has nothing left to do: when a frame has arrived as a whole,
\* it was processed, and does not wait for the bytes of the next one.
Prompt ==
  ~incall /\ ~pausing /\ (\E j \in DOMAIN wire : eaten = Start(j + 1))
    => iframe.state \in {"READ_HEAD", "EXPECT_CONTINUATION", "IGN_CONTINUATION",
                         "IGN_ALL"}

\* Every byte of a header block, ignored blocks included, goes through the HPACK
\* decoder once: otherwise its table would differ from the peer's.
DecoderFed ==
  iframe.state = "READ_HEAD" /\ ~incall =>
    inflated = Sum([j \in DOMAIN wire |->
                     IF wire[j].type \in {"HEADERS", "PUSH_PROMISE"} /\ Start(j + 1) <= eaten
                     THEN wire[j].body ELSE 0])

\* Payloads fit the memory allocated for them: lbuf, and iv, whose last entry holds
\* the smallest table size while the frame is read.
FitsBuffers ==
  /\ iframe.lbuf <= iframe.lcap
  /\ iframe.lbuf + iframe.payloadleft <= iframe.lcap
       \/ iframe.state \notin {"READ_GOAWAY_DEBUG", "READ_ALTSVC_PAYLOAD",
                               "READ_ORIGIN_PAYLOAD"}
  /\ (iframe.state = "READ_SETTINGS" /\ iframe.payloadleft > 0) =>
       Len(iframe.iv) + Len(iframe.hd.entries) - iframe.seen < iframe.max_niv

\* How far a state is from one that takes input
Rank(i) == CASE i.state = "READ_DATA" -> 3
             [] i.state \in {"READ_HEAD", "READ_FIRST_SETTINGS",
                             "EXPECT_CONTINUATION", "IGN_CONTINUATION"} -> 1
             [] OTHER -> 2

\* Every call of nghttp2_session_mem_recv returns: an iteration that does not end
\* it takes input, or leads to a state from which the next one does.
CallReturns ==
  incall /\ incall' => \/ avail' < avail
                       \/ avail' = avail /\ Rank(iframe') < Rank(iframe)
=============================================================================
