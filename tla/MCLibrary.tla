----------------------------- MODULE MCLibrary -----------------------------
(***************************************************************************)
(* The components of the library that work without each other, side by     *)
(* side in one run: part names the one a behaviour is about, and x1, x2,   *)
(* ... are its variables in the order of its VARIABLES.                    *)
(***************************************************************************)
EXTENDS Integers, Sequences, TLC

VARIABLES part, x1, x2, x3, x4, x5, x6, x7, x8, x9, x10

vars == <<part, x1, x2, x3, x4, x5, x6, x7, x8, x9, x10>>

-----------------------------------------------------------------------------
(* Framing: fields of one or two bytes, buffers of five *)

Hdlen == 2
Speclen == 2
EntryLen == 2
WordLen == 1
OpaqueLen == 2
OriginLen == 1
MagicLen == 2
Chunk == 5
MaxPad == 3
MaxFrame == 5
Roles == BOOLEAN
Pausing == BOOLEAN

\* The same module, for the frames it packs
F == INSTANCE Framing WITH
    MaxChunk <- 2, Pieces <- {}, Wires <- {},
    wire <- x1, server <- x2, eaten <- x3, avail <- x4, incall <- x5,
    iframe <- x6, got <- x7, inflated <- x8, gone <- x9, pausing <- x10

Entry(id, v) == [id |-> id, value |-> v]

\* A frame whose length is not one its type may have, or whose padding is too long
Odd(type, flags, len, pad) ==
  <<[F!Frame(type, flags, len, "ok") EXCEPT !.pad = pad]>>

OddFrames ==
  {Odd("DATA", {"PADDED"}, 0, 0), Odd("DATA", {"PADDED"}, 2, 2),
   Odd("HEADERS", {"PADDED"}, 0, 0), Odd("HEADERS", {"PRIORITY"}, 1, 0),
   Odd("HEADERS", {"PADDED", "PRIORITY"}, 2, 0), Odd("HEADERS", {"PADDED"}, 2, 2),
   Odd("HEADERS", {}, 1, 0), Odd("PUSH_PROMISE", {"PADDED"}, 0, 0),
   Odd("PUSH_PROMISE", {"PADDED"}, 1, 0), Odd("PUSH_PROMISE", {}, 0, 0),
   Odd("SETTINGS", {}, 1, 0), Odd("SETTINGS", {"ACK"}, 2, 0),
   Odd("SETTINGS", {"ACK"}, 0, 0), Odd("GOAWAY", {}, 1, 0),
   Odd("ALTSVC", {}, 0, 0), Odd("ALTSVC", {}, 2, 2), Odd("PING", {}, 1, 0),
   Odd("PING", {}, 6, 0), Odd("CONTINUATION", {}, 1, 0)}

SettingsLists ==
  {<<Entry("TABLE_SIZE", 2), Entry("TABLE_SIZE", 1)>>,
   <<Entry("TABLE_SIZE", 1), Entry("TABLE_SIZE", 2)>>,
   <<Entry("OTHER", 2), Entry("OTHER", 1)>>,
   <<Entry("UNKNOWN", 2), Entry("UNKNOWN", 1)>>}

FrameGroups ==
  {F!HeadersFrames("HEADERS", b, p, pad, "ok")
     : b \in {0, 2, 5}, p \in BOOLEAN, pad \in {0, 3}}
  \cup {F!HeadersFrames("HEADERS", b, FALSE, 0, v)
          : b \in {1, 6}, v \in {"ign", "tcf", "comp", "term"}}
  \cup {F!HeadersFrames("PUSH_PROMISE", b, FALSE, pad, v)
          : b \in {1, 5}, pad \in {0, 2}, v \in {"ok", "ign"}}
  \cup {F!DataFrames(b, pad, v)
          : b \in {0, 2}, pad \in {0, 1, 3}, v \in {"ok", "ign", "term"}}
  \cup {F!SettingsFrames(es) : es \in SettingsLists}
  \cup {F!FixedFrames(t) : t \in {"PRIORITY", "RST_STREAM", "WINDOW_UPDATE", "PING"}}
  \cup {F!GoawayFrames(n) : n \in {0, 2}}
  \cup {F!AltsvcFrames(o, v) : o \in {0, 1}, v \in {0, 1}}
  \cup {F!OriginFrames(n) : n \in {0, 2}}
  \cup {F!ExtensionFrames(n, v) : n \in {0, 2}, v \in {"ok", "ign", "tcf"}}
  \cup OddFrames

\* A padded HEADERS whose block goes on in a CONTINUATION
PaddedAndContinued ==
  <<[F!Frame("HEADERS", {"PADDED"}, 3, "ok") EXCEPT !.pad = 1, !.body = 3],
    F!Frame("CONTINUATION", {"END_HEADERS"}, 2, "ok")>>

First == F!SettingsFrames(<<>>)

Wires ==
  {First \o g \o F!FixedFrames("PING") : g \in FrameGroups \ {<<>>}}
  \cup {F!FixedFrames("PING") \o First, First \o PaddedAndContinued \o First}

Framing == INSTANCE Framing WITH
    MaxChunk <- 2, Pieces <- {0, 1, 2, 3, 5, 9},
    wire <- x1, server <- x2, eaten <- x3, avail <- x4, incall <- x5,
    iframe <- x6, got <- x7, inflated <- x8, gone <- x9, pausing <- x10

-----------------------------------------------------------------------------
(* HPACK: two names in one bucket, a static table of two fields *)

Field(n, v, x) == [name |-> n, value |-> v, noindex |-> x]

HpackFields ==
  {Field("m", "p", FALSE), Field("m", "x", FALSE), Field("u", "x", FALSE),
   Field("u", "y", FALSE), Field("u", "x", TRUE)}

Hpack == INSTANCE Hpack WITH
    Static <- <<<<"m", "g">>, <<"m", "p">>>>, Fields <- HpackFields,
    Lists <- {<<>>} \cup {<<f>> : f \in HpackFields},
    Length <- [s \in {"m", "g", "p", "x", "y", "u"} |-> IF s = "y" THEN 0 ELSE 1],
    Bucket <- [n \in {"m", "u"} |-> 0], Secret <- {}, Varying <- {},
    Overhead <- 2, DefaultMax <- 4, Limits <- {2, 12},
    Sizes <- {<<0>>, <<4, 12>>}, SeqWrap <- 4, MaxBlocks <- 1, MaxInflight <- 1,
    deflater <- x1, inflater <- x2, wire <- x3, inflight <- x4, unread <- x5,
    agrees <- x6

-----------------------------------------------------------------------------
(* The representations of HPACK: integers at the edges of their prefixes,  *)
(* a few symbols of each length of code                                    *)

Repr(o, m, i, n, v) == [op |-> o, mode |-> m, idx |-> i, name |-> n, value |-> v]

Size(n) == Repr("size", "without", n, <<>>, <<>>)

Long(n, c) == [k \in 1 .. n |-> c]

Blocks ==
  {<<>>}
  \cup {<<Size(n)>> : n \in {0, 30, 31, 158, 159, 4096, 70000, 2000000}}
  \cup {<<Repr("indexed", "without", n, <<>>, <<>>)>>
          : n \in {0, 61, 125, 126, 127, 253, 254}}
  \cup {<<Repr("indname", m, n, <<>>, v)>>
          : m \in {"with", "without", "never"}, n \in {0, 13, 14, 62, 142},
            v \in {<<>>, <<97, 0>>, <<10>>}}
  \cup {<<Repr("newname", m, 0, n, v)>>
          : m \in {"with", "never", "without"}, n \in {<<>>, <<97>>, <<97, 97, 0>>},
            v \in {<<>>, <<38, 97, 32>>, <<33, 123, 97, 97, 97>>}}
  \cup {<<Size(0), Size(4096), Repr("newname", "with", 0, <<97, 32, 97, 97>>, <<10, 38>>),
          Repr("indexed", "without", 61, <<>>, <<>>),
          Repr("indname", "without", 3, <<>>, <<>>)>>}
  \cup {<<Repr("newname", "with", 0, Long(10, 97), Long(n, c))>>
          : n \in {2, 3, 4, 8}, c \in {97, 38}}

HpackCodec == INSTANCE HpackCodec WITH
    Width <- 30, LenPrefix <- 2, MaxNv <- 65536, MaxIndex <- 300,
    MaxTable <- 4000000,
    Codes <- (0 :> <<5, 0>>) @@ (97 :> <<5, 3>>) @@ (32 :> <<6, 20>>)
             @@ (38 :> <<8, 248>>) @@ (88 :> <<8, 252>>) @@ (33 :> <<10, 1016>>)
             @@ (123 :> <<15, 32766>>) @@ (10 :> <<30, 1073741820>>),
    Eos <- <<30, 1073741823>>, Pieces <- {0, 1, 2, 3, 7, 40},
    block <- x1, wire <- x2, pos <- x3, avail <- x4, final <- x5, incall <- x6,
    busy <- x7, inf <- x8, out <- x9, done <- x10

-----------------------------------------------------------------------------
(* HTTP messaging *)

HttpField(n, v) == [name |-> n, value |-> v]

HttpMessaging == INSTANCE HttpMessaging WITH
    Kinds <- {"request", "response", "push"},
    Methods <- {"GET", "HEAD", "CONNECT", "UPGRADE"},
    Fields <-
      {HttpField(":authority", v) : v \in {"a", "invalid"}}
      \cup {HttpField(":method", v) : v \in {"GET", "CONNECT", "OPTIONS"}}
      \cup {HttpField(":path", v) : v \in {"/", "*", "blank"}}
      \cup {HttpField(":scheme", v) : v \in {"http", "other"}}
      \cup {HttpField("host", v) : v \in {"a", "invalid"}}
      \cup {HttpField(":status", v) : v \in {"100", "200", "204"}}
      \cup {HttpField("content-length", v) : v \in {"0", "2", "x"}}
      \cup {HttpField(":protocol", "w"), HttpField("upgrade", "x"),
            HttpField("te", "trailers"), HttpField("Upper", "x"),
            HttpField(":unknown", "x")},
    Chunks <- {1, 2}, MaxBody <- 3,
    kind <- x1, block <- x2, stream <- x3, told <- x4, body <- x5,
    request <- x6, rejected <- x7, connectprotocol <- x8

-----------------------------------------------------------------------------
(* Buffers, and the table of streams *)

Bufs == INSTANCE Bufs WITH
    ChunkLengths <- {2, 3}, MaxChunk <- 3, ChunkKeep <- 2, Offset <- 1,
    Vectors <- {<<>>, <<1, 2>>, <<0, 2, 2>>}, Bytes <- {1, 2},
    Runs <- {<<1, 2, 1>>, <<2, 2, 1, 1, 2>>}, MaxContent <- 5,
    bufs <- x1, hold <- x2, content <- x3, sent <- x4, phase <- x5

StreamMap == INSTANCE StreamMap WITH
    Keys <- {1, 3, 5, 17, 40}, InitialLength <- 2, map <- x1, keys <- x2

-----------------------------------------------------------------------------
(* Flow control: SETTINGS change the initial window while DATA is on its   *)
(* way; the application changes the windows; two streams share the         *)
(* connection's window                                                     *)

Window(s, i, f, b, z, n, d, l, t, r) ==
  [streams |-> s, initial |-> i, frame |-> f, body |-> b, sizes |-> z, settings |-> n,
   deltas |-> d, local |-> l, tweaks |-> t, reset |-> r]

FlowControl == INSTANCE FlowControl WITH
    MaxWindow <- 7, Modes <- BOOLEAN,
    Scopes <- {Window({1}, 2, 2, 3, {0, 7}, 1, {}, {}, 0, TRUE),
               Window({1}, 1, 2, 2, {}, 0, {-1, 3}, {1, 7}, 2, FALSE),
               Window({1, 2}, 1, 1, 2, {}, 0, {}, {}, 0, TRUE)},
    scope <- x1, snd <- x2, rcv <- x3, fwd <- x4, back <- x5

-----------------------------------------------------------------------------
(* The asio server and client, on top of the library *)

Handling(t, b, r, a, l, o, p, f) ==
  [tls |-> t, body |-> b, reqs |-> r, app |-> a, later |-> l, ops |-> o, peer |-> p, fail |-> f]

AsioServer == INSTANCE AsioServer WITH
    Requests <- {1, 3}, Promised <- <<2>>, BufSize <- 2, sv <- x1, scope <- x2,
    Scopes <-
      {Handling(TRUE, TRUE, {1}, {<<"none", "none">>, <<"head", "end">>},
                {"resume", "end", "cancel"}, 2, {"HEADERS", "RST_STREAM", "OTHER", "BAD"}, TRUE),
       Handling(FALSE, TRUE, {1}, {<<"push", "end">>, <<"push", "none">>}, {"head", "end"}, 2,
                {"HEADERS", "RST_STREAM", "OTHER"}, FALSE),
       Handling(FALSE, FALSE, {1, 3}, {<<"end", "none">>, <<"push", "head">>}, {"end", "push"},
                1, {"HEADERS", "BIG", "GOAWAY", "OTHER"}, FALSE)}

Using(t, a, c, o, p, f) ==
  [tls |-> t, app |-> a, calls |-> c, ops |-> o, peer |-> p, fail |-> f]

AsioClient == INSTANCE AsioClient WITH
    Requests <- <<1, 3>>, Pushed <- <<2>>, BufSize <- 1, MaxPings <- 1,
    cl <- x1, scope <- x2,
    Scopes <-
      {Using(TRUE, {"none", "submit"}, {"submit"}, 1, {"END", "OTHER", "BAD"}, TRUE),
       Using(FALSE, {"none", "submit"}, {"submit", "cancel"}, 2,
             {"END", "BIG", "GOAWAY", "OTHER"}, FALSE),
       Using(FALSE, {"none", "shutdown"}, {"submit", "shutdown"}, 2,
             {"END", "PUSH_PROMISE", "OTHER"}, FALSE)}

-----------------------------------------------------------------------------
\* Variables a part does not have
NoneFrom9 == x9 = 0 /\ x10 = 0
NoneFrom7 == x7 = 0 /\ x8 = 0 /\ NoneFrom9
NoneFrom6 == x6 = 0 /\ NoneFrom7
NoneFrom3 == x3 = 0 /\ x4 = 0 /\ x5 = 0 /\ NoneFrom6
From6 == <<x6, x7, x8, x9, x10>>
From3 == <<x3, x4, x5, x6, x7, x8, x9, x10>>

Init ==
  \/ part = "framing" /\ Framing!Init
  \/ part = "hpack" /\ Hpack!Init /\ NoneFrom7
  \/ part = "codec" /\ HpackCodec!Init
  \/ part = "http" /\ HttpMessaging!Init /\ NoneFrom9
  \/ part = "bufs" /\ Bufs!Init /\ NoneFrom6
  \/ part = "map" /\ StreamMap!Init /\ NoneFrom3
  \/ part = "flow" /\ FlowControl!Init /\ NoneFrom6
  \/ part = "server" /\ AsioServer!Init /\ NoneFrom3
  \/ part = "client" /\ AsioClient!Init /\ NoneFrom3

Next ==
  /\ UNCHANGED part
  /\ \/ part = "framing" /\ Framing!Next
     \/ part = "hpack" /\ Hpack!Next /\ UNCHANGED <<x7, x8, x9, x10>>
     \/ part = "codec" /\ HpackCodec!Next
     \/ part = "http" /\ HttpMessaging!Next /\ UNCHANGED <<x9, x10>>
     \/ part = "bufs" /\ Bufs!Next /\ UNCHANGED From6
     \/ part = "map" /\ StreamMap!Next /\ UNCHANGED From3
     \/ part = "flow" /\ FlowControl!Next /\ UNCHANGED From6
     \/ part = "server" /\ AsioServer!Next /\ UNCHANGED From3
     \/ part = "client" /\ AsioClient!Next /\ UNCHANGED From3

\* The fairness of FlowControl!FairSpec
Fairness ==
  /\ WF_vars(part = "flow" /\ FlowControl!Receiver /\ UNCHANGED <<part, x1, From6>>)
  /\ WF_vars(part = "flow" /\ FlowControl!Sender /\ UNCHANGED <<part, x1, From6>>)

Spec == Init /\ [][Next]_vars /\ Fairness

-----------------------------------------------------------------------------
(* The properties of the parts *)

\* nghttp2_session_mem_recv hands the application the frames that were packed,
\* whatever the pieces they arrive in: it finds every frame header, takes
\* nothing after a frame that is not legal, processes a frame in the call that
\* brings its last byte, passes every byte of every header block through
\* nghttp2_hd_inflate_hd_nv once, and stays inside lbuf and iv.
FramesDelivered ==
  part = "framing" =>
    /\ Framing!TypeOK
    /\ Framing!RoundTrip
    /\ Framing!InStep
    /\ Framing!Prompt
    /\ Framing!DecoderFed
    /\ Framing!FitsBuffers

\* Every iteration of nghttp2_session_mem_recv comes closer to its return
CallReturns == [][part = "framing" => Framing!CallReturns]_vars

\* The decoder gives back the fields the encoder was given and refuses nothing
\* the encoder makes; hd_table_bufsize counts the entries and stays below
\* hd_table_bufsize_max, the encoder's hash map finds the entries of its table
\* and no others, and once everything is read the two dynamic tables are the
\* same.
HpackInStep ==
  part = "hpack" =>
    /\ Hpack!TypeOK
    /\ Hpack!DecodedAsSent
    /\ Hpack!NeverRefused
    /\ Hpack!TableFits
    /\ Hpack!MapExact
    /\ Hpack!InStepWhenQuiet

\* nghttp2_hd_inflate_hd_nv reads what emit_* wrote, however it is cut, and a
\* decoded Huffman string fits the buffer allocated for it
BlocksRoundTrip ==
  part = "codec" =>
    /\ HpackCodec!TypeOK
    /\ HpackCodec!RoundTrip
    /\ HpackCodec!FitsAllocation

\* nghttp2_http_* lets only whole messages through: pseudo header fields come
\* first and once, a request names what it asks for, a response ends only after
\* a final status, and the body has the length that content-length declared
MessagesWellFormed ==
  part = "http" =>
    /\ HttpMessaging!TypeOK
    /\ HttpMessaging!PseudoFieldsFirst
    /\ HttpMessaging!RequestComplete
    /\ HttpMessaging!ResponseComplete
    /\ HttpMessaging!LengthAsDeclared

\* nghttp2_bufs keeps what is written to it, in order; nghttp2_bufs_reset gives
\* back all but chunk_keep chunks, and nghttp2_bufs_seek_last_present finds the
\* last chunk with data; nghttp2_map_find finds exactly the streams in the map,
\* and nghttp2_map_insert grows the table in time
ContainersKeep ==
  /\ part = "bufs" =>
       Bufs!TypeOK /\ Bufs!ContentKept /\ Bufs!MemoryGivenBack /\ Bufs!SeekFindsLast
  /\ part = "map" =>
       StreamMap!TypeOK /\ StreamMap!FindsExactly /\ StreamMap!LoadBounded

\* The reader that follows nghttp2_bufs_next_present sends the frame whole
SentWhole == [][part = "bufs" => Bufs!SentWhole]_vars

\* FlowControl!Conservation: credit is neither lost nor made;
\* FlowControl!WindowsLegal: neither endpoint ends the connection over flow
\* control, and no window leaves int32_t
CreditExact == part = "flow" => FlowControl!Conservation /\ FlowControl!WindowsLegal

\* FlowControl!Progress: if in the end the windows are open and the application
\* consumes what it gets, everything is sent
Progress ==
  <>[](part = "flow" => FlowControl!WindowsOpen) /\ [](part = "flow" => FlowControl!LooksAgain)
    => <>(part = "flow" => FlowControl!AllSent)

\* The asio server and client lose no write, send frames in the order the
\* session made them, call each callback once and always watch their deadline;
\* an idle client pings (AsioServer, AsioClient).
AsioSound ==
  /\ part = "server" => AsioServer!AsioServerSound
  /\ part = "client" => AsioClient!AsioClientSound
=============================================================================
