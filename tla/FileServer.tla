------------------------------ MODULE FileServer ------------------------------
(* nghttpd: one thread's Sessions, the connections it was handed, their       *)
(* streams and timers, and the cache of open files the streams share.         *)
EXTENDS Integers, Sequences, SequencesExt, FiniteSets

CONSTANTS
    Handlers,       \* connections
    Slots,          \* streams, over all connections
    Paths,          \* files under htdocs
    Fds,            \* file descriptors 1 .. n of cached files
    Thres,          \* FILE_ENTRY_EVICT_THRES
    MaxChanges,     \* changes of a file
    Scopes          \* [tls, echo, early, push, slow, ticks, conns, paths, kinds]

VARIABLES
    fs,             \* the thread
    scope

vars == <<fs, scope>>

\* a slot no stream has
NoStream == [h |-> 0, req |-> "end", resp |-> "none", ent |-> 0, echo |-> FALSE,
             data |-> FALSE, rt |-> FALSE, wt |-> FALSE, rst |-> FALSE,
             parent |-> 0, old |-> FALSE]

Init ==
    /\ scope \in Scopes
    /\ fs = [q |-> {}, h |-> [x \in Handlers |-> "none"], timer |-> FALSE,
             s |-> [x \in Slots |-> NoStream],
             cache |-> <<>>, lru |-> <<>>, ticks |-> 0,
             file |-> [p \in Paths |-> [ver |-> 0, aged |-> TRUE]]]

Live(v) == {x \in Handlers : v.h[x] \notin {"none", "gone"}}

-------------------------------------------------------------------------------
(* The cache of open files.  The descriptor names the entry.                  *)

\* the entry is closed and erased
Close(v, e) == [v EXCEPT !.cache = [x \in DOMAIN @ \ {e} |-> @[x]], !.lru = Remove(@, e)]

(* get_cached_fd(): an entry not looked at for FILE_ENTRY_MAX_AGE is compared *)
(* with the file, and one that differs is stale; nobody is given it again.    *)
GetCachedFd(v, p) ==
    LET found == {e \in DOMAIN v.cache : v.cache[e].path = p /\ ~v.cache[e].stale}
        e     == CHOOSE x \in found : TRUE
        ent   == v.cache[e]
    IN  IF found = {} THEN [v |-> v, e |-> 0]
        ELSE IF ent.aged /\ ent.ver # v.file[p].ver
        THEN [v |-> IF ent.use = 0 THEN Close(v, e) ELSE [v EXCEPT !.cache[e].stale = TRUE],
              e |-> 0]
        ELSE [v |-> [v EXCEPT !.cache[e].use = @ + 1, !.cache[e].aged = FALSE,
                              !.lru = Append(Remove(@, e), e)],
              e |-> e]

\* the loop of cache_fd(): what it closes, the least recently used first
Unused(v) ==
    LET used == {k \in DOMAIN v.lru : v.cache[v.lru[k]].use > 0}
        over == Cardinality(DOMAIN v.cache) - Thres
    IN  {v.lru[k] : k \in {k \in DOMAIN v.lru : k <= over /\ \A u \in used : k < u}}

FreeFds(v) == Fds \ DOMAIN v.cache

\* cache_fd() of a file that was opened
CacheFd(v, p, stale) ==
    LET e == CHOOSE x \in FreeFds(v) : \A y \in FreeFds(v) : x <= y
        ent == [path |-> p, ver |-> IF stale THEN 0 ELSE v.file[p].ver,
                use |-> 1, stale |-> stale, aged |-> FALSE]
        w == [v EXCEPT !.cache = [x \in DOMAIN @ \cup {e} |-> IF x = e THEN ent ELSE @[x]],
                       !.lru = Append(@, e)]
    IN  [v |-> FoldSet(LAMBDA x, a : Close(a, x), w, Unused(w)), e |-> e]

\* release_fd()
ReleaseFd(v, e) ==
    LET w == [v EXCEPT !.cache[e].use = @ - 1]
    IN  IF w.cache[e].use = 0 /\ w.cache[e].stale THEN Close(w, e) ELSE w

\* release_fd_cb()
ReleaseTimer ==
    /\ fs.timer
    /\ fs' = LET v == [fs EXCEPT !.timer = FALSE]
             IN  IF Live(v) # {} THEN v
                 ELSE FoldSet(LAMBDA x, a : Close(a, x), v,
                              {e \in DOMAIN v.cache : v.cache[e].use = 0})
    /\ UNCHANGED scope

-------------------------------------------------------------------------------
(* Connections.                                                               *)

\* acceptcb(): the connection waits in the worker's queue
Accept(h) ==
    /\ h \in scope.conns /\ fs.h[h] = "none" /\ h \notin fs.q
    /\ fs' = [fs EXCEPT !.q = @ \cup {h}]
    /\ UNCHANGED scope

\* worker_acceptcb(): the whole queue is taken; connection_made() may fail
WorkerAccept ==
    /\ fs.q # {}
    /\ \E made \in SUBSET fs.q :
          /\ scope.tls => made = fs.q
          /\ fs' = [fs EXCEPT !.q = {},
                 !.h = [x \in Handlers |->
                          IF x \notin fs.q THEN @[x]
                          ELSE IF x \notin made THEN "gone"
                          ELSE IF scope.tls THEN "handshake" ELSE "open"]]
    /\ UNCHANGED scope

\* tls_handshake(), verify_npn_result() and connection_made()
Handshake(h) ==
    /\ fs.h[h] = "handshake"
    /\ fs' = [fs EXCEPT !.h[h] = "open"]
    /\ UNCHANGED scope

\* SETTINGS is acknowledged, or settings_timeout_cb() terminates the session
SettingsAck(h) ==
    /\ scope.tls /\ fs.h[h] = "open"
    /\ \E to \in {"acked", "term"} : fs' = [fs EXCEPT !.h[h] = to]
    /\ UNCHANGED scope

\* ~Stream()
DeleteStream(v, s) ==
    LET w == [v EXCEPT !.s[s] = NoStream]
    IN  IF v.s[s].ent = 0 THEN w ELSE ReleaseFd(w, v.s[s].ent)

(* delete_handler(): readcb(), writecb() or a timer got -1.  remove_self()    *)
(* looks at the cache before the streams give their files back.               *)
DeleteHandler(h) ==
    /\ h \in Live(fs)
    /\ fs' = LET v == [fs EXCEPT !.h[h] = "gone"]
                 w == [v EXCEPT !.timer = @ \/ (Live(v) = {} /\ v.cache # <<>>)]
             IN  FoldSet(LAMBDA s, a : DeleteStream(a, s), w, {s \in Slots : fs.s[s].h = h})
    /\ UNCHANGED scope

-------------------------------------------------------------------------------
(* Requests.                                                                  *)

Open(h) == fs.h[h] \in {"open", "acked"}

FreeSlots(v) == {s \in Slots : v.s[s].h = 0}

\* the least free slot
NewSlot(v) == CHOOSE s \in FreeSlots(v) : \A t \in FreeSlots(v) : s <= t

\* submit_rst_stream()
Rst(v, s) == [v EXCEPT !.s[s].rt = FALSE, !.s[s].wt = FALSE, !.s[s].rst = TRUE]

\* submit_response() and submit_file_response()
Submit(v, s, data) == [v EXCEPT !.s[s].resp = "headers", !.s[s].data = data]

\* on_begin_headers_callback() and on_header_callback2(): the block may be too large
BeginHeaders(h) ==
    /\ Open(h) /\ FreeSlots(fs) # {}
    /\ LET s == NewSlot(fs)
           v == [fs EXCEPT !.s[s] = [NoStream EXCEPT !.h = h, !.req = "headers", !.rt = TRUE]]
       IN  \E large \in BOOLEAN : fs' = IF large THEN Rst(v, s) ELSE v
    /\ UNCHANGED scope

\* submit_push_promise(), which fails when no stream can be made
SubmitPushPromise(v, s) ==
    IF FreeSlots(v) = {} THEN v
    ELSE [v EXCEPT !.s[NewSlot(v)] = [NoStream EXCEPT !.h = v.s[s].h, !.resp = "promise",
                                                      !.parent = s]]

\* prepare_echo_response(); lseek() may fail
PrepareEcho(v, s, ok) == IF ok THEN Submit(v, s, TRUE) ELSE Rst(v, s)

\* get_cached_fd(), or else open() and cache_fd()
OpenFile(v, p) ==
    LET g == GetCachedFd(v, p)
    IN  IF g.e # 0 THEN g ELSE CacheFd(g.v, p, FALSE)

(* prepare_response(): what is asked for has no path ("status"), asks for no  *)
(* answer ("silent"), holds a backslash ("bad"), does not exist or is a       *)
(* directory ("missing"), is asked for without its content ("nobody": HEAD,   *)
(* or If-Modified-Since), or is sent ("file").                                *)
PrepareResponse(v, s, p, kind, push) ==
    CASE kind = "silent" -> v
      [] kind = "status" -> Submit(v, s, TRUE)
      [] kind = "bad" ->
            LET e == v.s[s].ent
            IN  Submit(IF e = 0 THEN v ELSE ReleaseFd([v EXCEPT !.s[s].ent = 0], e), s, TRUE)
      [] OTHER ->
            LET w == IF push THEN SubmitPushPromise(v, s) ELSE v
                o == OpenFile(w, p)
                stale == o.v.cache[o.e].ver # v.file[p].ver /\ v.file[p].aged
            IN  IF w.s[s].echo THEN PrepareEcho(w, s, kind = "file")
                ELSE IF kind = "missing" THEN Submit(GetCachedFd(w, p).v, s, TRUE)
                ELSE Submit([o.v EXCEPT !.s[s].ent = o.e, !.s[s].old = stale],
                            s, kind = "file")

\* prepare_upload_temp_store(); mkstemp() may fail
PrepareUpload(v, s) ==
    LET c == CacheFd(v, "echo", TRUE)
    IN  [c.v EXCEPT !.s[s].ent = c.e, !.s[s].echo = TRUE]

(* hd_on_frame_recv_callback() of the request HEADERS.                        *)
HeadersRecv(s) ==
    /\ fs.s[s].req = "headers" /\ FreeFds(fs) # {}
    /\ \E p \in scope.paths, kind \in scope.kinds, end, post, made \in BOOLEAN :
          /\ kind = "missing" => \A e \in DOMAIN fs.cache : fs.cache[e].path # p
          /\ (~scope.echo => ~post) /\ (~post => made)
          /\ LET v == IF post THEN (IF made THEN PrepareUpload(fs, s) ELSE Rst(fs, s))
                      ELSE IF scope.early THEN PrepareResponse(fs, s, p, kind, scope.push)
                      ELSE fs
                 last == v.s[s].echo \/ ~scope.early
             IN  fs' = IF ~made THEN [v EXCEPT !.s[s].req = IF end THEN "end" ELSE "body"]
                       ELSE IF ~end THEN [v EXCEPT !.s[s].req = "body", !.s[s].rt = TRUE]
                       ELSE LET w == [v EXCEPT !.s[s].req = "end", !.s[s].rt = FALSE]
                            IN  IF last THEN PrepareResponse(w, s, p, kind, scope.push) ELSE w
    /\ UNCHANGED scope

(* on_data_chunk_recv_callback(): an upload is written to its file, which may *)
(* fail.                                                                      *)
DataChunk(s) ==
    /\ fs.s[s].req = "body"
    /\ \E fails \in BOOLEAN :
          /\ fails => fs.s[s].echo
          /\ fs' = IF fails THEN Rst(fs, s) ELSE [fs EXCEPT !.s[s].rt = TRUE]
    /\ UNCHANGED scope

\* hd_on_frame_recv_callback() of the DATA or the trailer that ends the request
RequestEnds(s) ==
    /\ fs.s[s].req = "body" /\ FreeFds(fs) # {}
    /\ \E p \in scope.paths, kind \in scope.kinds :
          /\ kind = "missing" => \A e \in DOMAIN fs.cache : fs.cache[e].path # p
          /\ LET w == [fs EXCEPT !.s[s].req = "end", !.s[s].rt = FALSE]
             IN  fs' = IF w.s[s].echo \/ ~scope.early
                       THEN PrepareResponse(w, s, p, kind, scope.push) ELSE w
    /\ UNCHANGED scope

-------------------------------------------------------------------------------
(* Responses.                                                                 *)

\* hd_on_frame_send_callback() of PUSH_PROMISE
PushSent(s) ==
    /\ fs.s[s].resp = "promise" /\ fs.s[fs.s[s].parent].h = fs.s[s].h /\ FreeFds(fs) # {}
    /\ \E p \in scope.paths :
          fs' = PrepareResponse([fs EXCEPT !.s[fs.s[s].parent].wt = TRUE], s, p, "file", FALSE)
    /\ UNCHANGED scope

\* ... of the response HEADERS: without a body they end the stream
HeadersSent(s) ==
    /\ fs.s[s].resp = "headers" /\ ~fs.s[s].rst
    /\ \E blocked \in {FALSE, scope.slow} :
          fs' = IF fs.s[s].data THEN [fs EXCEPT !.s[s].resp = "data", !.s[s].wt = blocked]
                ELSE [fs EXCEPT !.s[s].resp = "done", !.s[s].wt = FALSE]
    /\ UNCHANGED scope

(* file_read_callback(), send_data_callback() and the frame's callback: some  *)
(* of the file is sent, the rest of it, or pread() fails.  A response that is *)
(* complete before its request resets the stream.                             *)
DataSent(s) ==
    /\ fs.s[s].resp = "data" /\ ~fs.s[s].rst
    /\ \/ \E blocked \in {FALSE, scope.slow} : fs' = [fs EXCEPT !.s[s].wt = blocked]
       \/ LET v == [fs EXCEPT !.s[s].resp = "done", !.s[s].wt = FALSE]
          IN  fs' = IF fs.s[s].req = "end" THEN v ELSE Rst(v, s)
       \/ fs' = Rst(fs, s)
    /\ UNCHANGED scope

\* on_stream_close_callback(): the stream ended, was reset, or the peer reset it
StreamClose(s) ==
    /\ fs.s[s].h # 0 /\ fs.s[s].resp # "promise"
    /\ fs' = DeleteStream(fs, s)
    /\ UNCHANGED scope

\* stream_timeout_cb()
StreamTimeout(s) ==
    /\ fs.s[s].rt \/ fs.s[s].wt
    /\ fs' = Rst(fs, s)
    /\ UNCHANGED scope

-------------------------------------------------------------------------------
\* a file under htdocs is replaced or written to
Change(p) ==
    /\ scope.ticks > 0 /\ p \in scope.paths /\ fs.file[p].ver < MaxChanges
    /\ fs' = [fs EXCEPT !.file[p] = [ver |-> @.ver + 1, aged |-> FALSE]]
    /\ UNCHANGED scope

\* FILE_ENTRY_MAX_AGE passes
Tick ==
    /\ fs.ticks < scope.ticks
    /\ fs' = [fs EXCEPT !.ticks = @ + 1,
                        !.cache = [e \in DOMAIN @ |-> [@[e] EXCEPT !.aged = TRUE]],
                        !.file = [p \in Paths |-> [@[p] EXCEPT !.aged = TRUE]]]
    /\ UNCHANGED scope

Next ==
    \/ ReleaseTimer \/ WorkerAccept \/ Tick
    \/ \E h \in Handlers : Accept(h) \/ Handshake(h) \/ SettingsAck(h) \/ DeleteHandler(h)
                           \/ BeginHeaders(h)
    \/ \E s \in Slots : HeadersRecv(s) \/ DataChunk(s) \/ RequestEnds(s) \/ PushSent(s)
                        \/ HeadersSent(s) \/ DataSent(s) \/ StreamClose(s) \/ StreamTimeout(s)
    \/ \E p \in Paths : Change(p)

Spec == Init /\ [][Next]_vars

-------------------------------------------------------------------------------
(* Properties.                                                                *)

\* streams that hold the entry
Holders(e) == {s \in Slots : fs.s[s].ent = e}

(* A file stays open exactly as long as a stream uses it or it may be used    *)
(* again: use counts are exact, no stream is left with a closed file, a stale *)
(* entry goes with its last user, a path has one entry for new requests, the  *)
(* eviction order is that of the entries there are, and once no connection is *)
(* left the timer that closes the rest is running.                            *)
FilesSound ==
    /\ \A s \in Slots : fs.s[s].ent # 0 => fs.s[s].ent \in DOMAIN fs.cache
    /\ \A e \in DOMAIN fs.cache :
          /\ fs.cache[e].use = Cardinality(Holders(e))
          /\ fs.cache[e].stale => fs.cache[e].use > 0
          /\ \A f \in DOMAIN fs.cache \ {e} :
                fs.cache[e].path = fs.cache[f].path => fs.cache[e].stale \/ fs.cache[f].stale
    /\ Len(fs.lru) = Cardinality(DOMAIN fs.cache) /\ ToSet(fs.lru) = DOMAIN fs.cache
    /\ Live(fs) = {} /\ fs.cache # <<>> => fs.timer

(* No request is answered with a file that was replaced more than             *)
(* FILE_ENTRY_MAX_AGE before.                                                 *)
FilesFresh == \A s \in Slots : ~fs.s[s].old

(* A stream whose request is not complete is being reset or has its read      *)
(* timer running, and an upload has its file for as long as it is received.   *)
RequestsTimed ==
    \A s \in Slots :
        fs.s[s].h # 0 /\ fs.s[s].req # "end" =>
            /\ fs.s[s].rt \/ fs.s[s].rst
            /\ fs.s[s].echo => fs.s[s].ent # 0

ServerSound == FilesSound /\ FilesFresh /\ RequestsTimed
===============================================================================
