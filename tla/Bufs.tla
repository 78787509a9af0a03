-------------------------------- MODULE Bufs --------------------------------
(* The chain of buffers frames are packed into (lib/nghttp2_buf.c): it grows by
   chunks up to a maximum, is filled byte by byte or in runs, is read from the
   start, and on a reset keeps the first chunks for the next frame.  The same
   chain can be wrapped around memory of the application, and never grows
   then.  A chunk is its capacity and the positions begin <= pos <= last <= end
   counted from begin; content and sent are what was written since the last
   reset, and what a reader got of it. *)
EXTENDS Integers, Sequences, SequencesExt

CONSTANTS ChunkLengths,   \* chunk_length: the lengths chunks may be allocated with
          MaxChunk,       \* max_chunk
          ChunkKeep,      \* chunk_keep
          Offset,         \* offset: room kept at the start of each chunk
          Vectors,        \* nghttp2_vec arrays to wrap: sequences of capacities
          Bytes,          \* bytes written: 1, 2, or their OR
          Runs,           \* runs of bytes written
          MaxContent      \* bound on what is written between two resets

VARIABLES bufs, hold, content, sent, phase

vars == <<bufs, hold, content, sent, phase>>

Blank == 0

\* The chunk after shift_right(offset)
NewChunk(cap, offset) ==
  [cap |-> cap, pos |-> offset, last |-> offset, mem |-> [i \in 1 .. cap |-> Blank]]

BufLen(b) == b.last - b.pos
BufAvail(b) == b.cap - b.last
BufBytes(b) == SubSeq(b.mem, b.pos + 1, b.last)

Cur(b) == b.chain[b.cur]

BufsLen(b) == FoldLeft(LAMBDA n, c : n + BufLen(c), 0, b.chain)

\* nghttp2_bufs_remove, nghttp2_bufs_remove_copy
BufsRemove(b) == FoldLeft(LAMBDA s, c : s \o BufBytes(c), <<>>, b.chain)

\* nghttp2_bufs_init3
BufsInit(length) ==
  [chain |-> <<NewChunk(length, Offset)>>, cur |-> 1, length |-> length,
   offset |-> Offset, used |-> 1, max |-> MaxChunk, keep |-> ChunkKeep]

\* nghttp2_bufs_wrap_init2, with nghttp2_bufs_wrap_init for no vector
BufsWrapInit(caps) ==
  LET v == IF caps = <<>> THEN <<0>> ELSE caps
  IN  [chain |-> [i \in 1 .. Len(v) |-> NewChunk(v[i], 0)], cur |-> 1,
       length |-> 0, offset |-> 0, used |-> Len(v), max |-> Len(v),
       keep |-> Len(v)]

\* bufs_alloc_chain
BufsAllocChain(b) ==
  IF b.cur < Len(b.chain) THEN [ok |-> TRUE, b |-> [b EXCEPT !.cur = @ + 1]]
  ELSE IF b.max = b.used THEN [ok |-> FALSE, b |-> b]
  ELSE [ok |-> TRUE,
        b |-> [b EXCEPT !.chain = Append(@, NewChunk(b.length, b.offset)),
                        !.cur = @ + 1, !.used = @ + 1]]

Put(b, x, n) ==
  [b EXCEPT !.chain[b.cur] =
     [@ EXCEPT !.mem = [@ EXCEPT ![b.chain[b.cur].last + 1] = x], !.last = @ + n]]

\* The loop of nghttp2_bufs_add up to a chunk with room for the next byte
Room(b) ==
  FoldLeft(LAMBDA r, i : IF ~ r.ok \/ BufAvail(Cur(r.b)) > 0 THEN r
                         ELSE BufsAllocChain(r.b),
           [ok |-> TRUE, b |-> b], [i \in 1 .. b.max |-> i])

\* nghttp2_bufs_add; n: how many bytes were written
BufsAdd(b, s) ==
  FoldLeft(LAMBDA r, x :
             LET q == Room(r.b)
             IN  IF ~ r.ok THEN r
                 ELSE IF ~ q.ok THEN [ok |-> FALSE, b |-> q.b, n |-> r.n]
                 ELSE [ok |-> TRUE, b |-> Put(q.b, x, 1), n |-> r.n + 1],
           [ok |-> TRUE, b |-> b, n |-> 0], s)

\* bufs_ensure_addb
BufsEnsureAddb(b) == IF BufAvail(Cur(b)) > 0 THEN [ok |-> TRUE, b |-> b]
                     ELSE BufsAllocChain(b)

\* The bits of the two bytes 1 and 2 do not overlap
Or(x, y) == IF x = y \/ y = Blank THEN x ELSE IF x = Blank THEN y ELSE 3

\* nghttp2_bufs_reset
BufsReset(b) ==
  LET kept == IF b.keep <= Len(b.chain) THEN b.keep ELSE Len(b.chain)
  IN  [b EXCEPT !.chain = [i \in 1 .. kept |->
                             [b.chain[i] EXCEPT !.pos = b.offset,
                                                !.last = b.offset]],
                !.used = IF b.keep <= Len(b.chain) THEN b.keep ELSE @,
                !.cur = 1]

\* nghttp2_bufs_seek_last_present
BufsSeekLastPresent(b) ==
  LET empty == {i \in b.cur .. Len(b.chain) : BufLen(b.chain[i]) = 0}
      stop == IF empty = {} THEN Len(b.chain) + 1
              ELSE CHOOSE i \in empty : \A j \in empty : i <= j
  IN  [b EXCEPT !.cur = IF stop > @ THEN stop - 1 ELSE @]

\* The reader asks for data in the chunk it is at
BufsNextPresent_Here(b) == b.cur < Len(b.chain) /\ BufLen(Cur(b)) > 0

\* nghttp2_bufs_next_present
BufsNextPresent(b) == b.cur < Len(b.chain) /\ BufLen(b.chain[b.cur + 1]) > 0

(* --- steps -------------------------------------------------------------- *)

Init ==
  /\ bufs \in {BufsInit(n) : n \in ChunkLengths} \cup
              {BufsWrapInit(v) : v \in Vectors}
  /\ hold = FALSE /\ content = <<>> /\ sent = <<>> /\ phase = "pack"

Add ==
  /\ phase = "pack" /\ ~ hold
  /\ \E s \in Runs :
       LET r == BufsAdd(bufs, s)
       IN  /\ Len(content) + Len(s) <= MaxContent
           /\ bufs' = r.b
           /\ content' = content \o SubSeq(s, 1, r.n)
           /\ phase' = IF r.ok THEN "pack" ELSE "failed"
  /\ UNCHANGED <<hold, sent>>

\* nghttp2_bufs_addb and the first nghttp2_bufs_addb_hold of a byte, which
\* leaves last where it is
Addb ==
  /\ phase = "pack" /\ ~ hold
  /\ \E x \in Bytes, h \in BOOLEAN :
       LET r == BufsEnsureAddb(bufs)
       IN  /\ Len(content) < MaxContent
           /\ bufs' = IF r.ok THEN Put(r.b, x, IF h THEN 0 ELSE 1) ELSE r.b
           /\ content' = IF r.ok THEN Append(content, x) ELSE content
           /\ hold' = (r.ok /\ h)
           /\ phase' = IF r.ok THEN "pack" ELSE "failed"
  /\ UNCHANGED sent

\* nghttp2_bufs_orb and nghttp2_bufs_orb_hold on the byte that is held
Orb ==
  /\ phase = "pack" /\ hold
  /\ \E x \in Bytes, h \in BOOLEAN :
       LET r == BufsEnsureAddb(bufs)
           old == Cur(r.b).mem[Cur(r.b).last + 1]
       IN  /\ bufs' = Put(r.b, Or(old, x), IF h THEN 0 ELSE 1)
           /\ content' = [content EXCEPT ![Len(content)] = Or(@, x)]
           /\ hold' = h
  /\ UNCHANGED <<sent, phase>>

\* nghttp2_bufs_advance: go on in the next chunk (no caller leaves a byte held)
BufsAdvance ==
  /\ phase = "pack" /\ ~ hold
  /\ BufLen(Cur(bufs)) > 0
  /\ LET r == BufsAllocChain(bufs)
     IN  bufs' = r.b /\ phase' = IF r.ok THEN "pack" ELSE "failed"
  /\ UNCHANGED <<hold, content, sent>>

\* nghttp2_bufs_rewind: the frame is packed and goes out; wrapped memory is
\* the application's, which reads it itself
Rewind ==
  /\ phase = "pack" /\ ~ hold /\ content # <<>> /\ bufs.length > 0
  /\ bufs' = [bufs EXCEPT !.cur = 1]
  /\ phase' = "send"
  /\ UNCHANGED <<hold, content, sent>>

\* nghttp2_session_mem_send hands out the rest of the current chunk
SendChunk ==
  /\ phase = "send" /\ BufLen(Cur(bufs)) > 0
  /\ sent' = sent \o BufBytes(Cur(bufs))
  /\ bufs' = [bufs EXCEPT !.chain[bufs.cur].pos = Cur(bufs).last]
  /\ UNCHANGED <<hold, content, phase>>

\* session_after_frame_sent1, session_after_frame_sent2
AfterChunk ==
  /\ phase = "send" /\ BufLen(Cur(bufs)) = 0
  /\ IF BufsNextPresent(bufs)
     THEN bufs' = [bufs EXCEPT !.cur = @ + 1] /\ UNCHANGED <<content, sent, phase>>
     ELSE bufs' = BufsReset(bufs) /\ content' = <<>> /\ sent' = <<>>
          /\ phase' = "sent"
  /\ UNCHANGED hold

\* active_outbound_item_reset after a failure, and the next frame
Reset ==
  /\ phase \in {"failed", "sent"}
  /\ bufs' = BufsReset(bufs)
  /\ phase' = "pack" /\ hold' = FALSE /\ content' = <<>> /\ sent' = <<>>

\* nghttp2_bufs_realloc, between two frames, for a longer frame
Realloc ==
  /\ phase = "sent" /\ bufs.length > 0
  /\ \E n \in ChunkLengths :
       bufs' = [bufs EXCEPT !.chain = <<NewChunk(n, bufs.offset)>>, !.cur = 1,
                            !.length = n, !.used = 1]
  /\ UNCHANGED <<hold, content, sent, phase>>

Next == Add \/ Addb \/ Orb \/ BufsAdvance \/ Rewind \/ SendChunk \/ AfterChunk
        \/ Reset \/ Realloc

Spec == Init /\ [][Next]_vars

(* --- properties --------------------------------------------------------- *)

\* Positions stay in their chunks, and the chunks are counted and bounded: a
\* chain never has more chunks than max_chunk allows, and chunk_used says how
\* many there are, which is what nghttp2_bufs_init3's limits rest on
TypeOK ==
  /\ \A i \in 1 .. Len(bufs.chain) :
       LET b == bufs.chain[i] IN 0 <= b.pos /\ b.pos <= b.last /\ b.last <= b.cap
  /\ bufs.cur \in 1 .. Len(bufs.chain)
  /\ bufs.used = Len(bufs.chain)
  /\ bufs.used <= bufs.max

\* The chain holds exactly what was written to it since the last reset and has
\* not been read, in order, across chunks, advances and held bytes
\* (nghttp2_bufs_remove, nghttp2_bufs_len)
ContentKept ==
  phase # "sent" =>
    LET held == IF hold THEN <<Cur(bufs).mem[Cur(bufs).last + 1]>> ELSE <<>>
    IN  /\ sent \o BufsRemove(bufs) \o held = content
        /\ BufsLen(bufs) = Len(content) - Len(sent) - Len(held)

\* A frame that has gone out has gone out whole: the reader that follows
\* nghttp2_bufs_next_present stops only after the last byte
SentWhole == (phase = "send" /\ phase' = "sent") => sent = content

\* After a frame the chain keeps no more chunks than chunk_keep, all of them
\* empty: the memory of a large frame is given back
MemoryGivenBack ==
  phase = "sent" => Len(bufs.chain) <= bufs.keep /\ BufsLen(bufs) = 0

\* From the start of a packed frame nghttp2_bufs_seek_last_present finds the
\* chunk that holds the last of it, also when chunks are kept beyond that one
SeekFindsLast ==
  (phase = "send" /\ sent = <<>>) =>
    LET b == BufsSeekLastPresent(bufs)
    IN  /\ BufLen(Cur(b)) > 0
        /\ \A i \in b.cur + 1 .. Len(b.chain) : BufLen(b.chain[i]) = 0
=============================================================================
