------------------------------- MODULE Hpack -------------------------------
(* Header compression between two sessions: the encoder (nghttp2_hd_deflater)
   of one, the decoder (nghttp2_hd_inflater) of the other, the frames between
   them and the SETTINGS_HEADER_TABLE_SIZE with which the decoder's side
   changes, at any time, the size of the dynamic table (lib/nghttp2_hd.c).
   The bytes of a representation are the subject of HpackCodec. *)
EXTENDS Integers, Sequences, FiniteSets, SequencesExt

CONSTANTS Static,       \* the static table: <<name, value>>, a name's fields together
          Fields,       \* what an application sends: [name, value, noindex]
          Lists,        \* the header lists it sends
          Length,       \* the length of each name and of each value
          Bucket,       \* the bucket of the encoder's map for each name
          Secret,       \* names that are never indexed (authorization)
          Varying,      \* names not worth indexing (:path, content-length, ...)
          Overhead,     \* NGHTTP2_HD_ENTRY_OVERHEAD
          DefaultMax,   \* NGHTTP2_HD_DEFAULT_MAX_BUFFER_SIZE
          Limits,       \* deflate_hd_table_bufsize_max: the encoder's own limit
          Sizes,        \* what SETTINGS carry: <<size>>, or <<smallest, last>>
          SeqWrap,       \* the sequence numbers of entries wrap (2^32)
          MaxBlocks,    \* bound on the header blocks under way
          MaxInflight   \* bound on the SETTINGS not acknowledged

VARIABLES deflater, inflater,
          wire,      \* what the encoder's side has sent and the other not read
          inflight,  \* the SETTINGS not acknowledged, the oldest first
          unread,    \* how many of the last of them the encoder has not read
          agrees     \* the field decoded last is the one that was encoded

vars == <<deflater, inflater, wire, inflight, unread, agrees>>

None == [name |-> "", value |-> "", seq |-> 0]
NoMin == 2 ^ 20   \* UINT32_MAX: no size was announced

Least(a, b) == IF a < b THEN a ELSE b

(* --- the ring buffer -------------------------------------------------- *)

PowerOfTwo(n) ==
  CHOOSE s \in {2 ^ k : k \in 0 .. 5} : s >= n /\ (s = 1 \/ s \div 2 < n)

RingInit(n) ==
  LET size == PowerOfTwo(n)
  IN  [buf |-> [k \in 0 .. size - 1 |-> None], mask |-> size - 1,
       first |-> 0, len |-> 0]

\* 0 is the entry that was added last
RingGet(r, k) == r.buf[(r.first + k) % (r.mask + 1)]

RingReserve(r, n) ==
  IF r.mask + 1 >= n THEN r
  ELSE [RingInit(n) EXCEPT !.len = r.len,
          !.buf = [k \in DOMAIN @ |-> IF k < r.len THEN RingGet(r, k) ELSE None]]

RingPushFront(r, e) ==
  LET q == RingReserve(r, r.len + 1)
      f == (q.first - 1) % (q.mask + 1)
  IN  [q EXCEPT !.buf[f] = e, !.first = f, !.len = @ + 1]

\* The slot of a freed entry is cleared: nothing reads it again
RingPopBack(r) ==
  [r EXCEPT !.len = @ - 1, !.buf[(r.first + r.len - 1) % (r.mask + 1)] = None]

Entries(r) == [k \in 1 .. r.len |-> RingGet(r, k - 1)]

(* --- the dynamic table ------------------------------------------------ *)

Room(f) == Overhead + Length[f.name] + Length[f.value]

Rooms(s) == FoldSeq(LAMBDA f, sum : sum + Room(f), 0, s)

ContextInit(max) ==
  [table |-> RingInit(DefaultMax \div Overhead), bufsize |-> 0, max |-> max,
   next_seq |-> 0]

\* The oldest entries go until the table has this room; also
\* hd_context_shrink_table_size, with no room asked for
RECURSIVE Evict(_, _)
Evict(c, room) ==
  IF c.bufsize + room <= c.max \/ c.table.len = 0 THEN c
  ELSE Evict([c EXCEPT !.bufsize = @ - Room(RingGet(c.table, c.table.len - 1)),
                       !.table = RingPopBack(@)], room)

\* add_hd_table_incremental without the map
AddIncremental(c, f) ==
  LET d == Evict(c, Room(f))
  IN  IF Room(f) > c.max THEN d
      ELSE [d EXCEPT !.bufsize = @ + Room(f), !.next_seq = (@ + 1) % SeqWrap,
              !.table = RingPushFront(@, [name |-> f.name, value |-> f.value,
                                          seq |-> c.next_seq])]

\* nghttp2_hd_table_get
TableGet(c, idx) ==
  IF idx >= Len(Static)
  THEN LET e == RingGet(c.table, idx - Len(Static))
       IN  [name |-> e.name, value |-> e.value]
  ELSE [name |-> Static[idx + 1][1], value |-> Static[idx + 1][2]]

(* --- the encoder ------------------------------------------------------ *)

DeflateInit(limit) ==
  [ctx |-> ContextInit(Least(limit, DefaultMax)),
   map |-> [b \in {Bucket[n] : n \in DOMAIN Bucket} |-> << >>],
   limit |-> limit, min |-> NoMin, notify |-> limit < DefaultMax,
   bad |-> FALSE]

\* hd_map_remove for each evicted entry
MapKeep(map, c) ==
  [b \in DOMAIN map |->
     SelectSeq(map[b], LAMBDA e : \E k \in 0 .. c.table.len - 1 :
                                    RingGet(c.table, k) = e)]

\* hd_map_insert
MapInsert(map, e) == [map EXCEPT ![Bucket[e.name]] = <<e>> \o @]

\* hd_map_find: the first entry of the name, unless a later one has the value
MapFind(map, f, name_only) ==
  LET same == SelectSeq(map[Bucket[f.name]], LAMBDA e : e.name = f.name)
      exact == SelectSeq(same, LAMBDA e : e.value = f.value)
  IN  IF same = << >> THEN [ent |-> << >>, exact |-> FALSE]
      ELSE IF ~ name_only /\ exact # << >>
           THEN [ent |-> <<exact[1]>>, exact |-> TRUE]
           ELSE [ent |-> <<same[1]>>, exact |-> FALSE]

\* lookup_token, for the names of the static table: their first entry
StaticIndexes(name) == {k \in 1 .. Len(Static) : Static[k][1] = name}

SearchStatic(f, name_only) ==
  LET all == StaticIndexes(f.name)
      token == CHOOSE k \in all : \A m \in all : k <= m
      hit == {k \in all : Static[k][2] = f.value}
  IN  IF ~ name_only /\ hit # {}
      THEN [idx |-> (CHOOSE k \in hit : TRUE) - 1, match |-> TRUE]
      ELSE [idx |-> token - 1, match |-> FALSE]

\* search_hd_table; -1: the name is in neither table
Search(d, f, mode) ==
  LET name_only == mode = "never"
      r == MapFind(d.map, f, name_only)
  IN  IF ~ r.exact /\ StaticIndexes(f.name) # {}
      THEN SearchStatic(f, name_only)
      ELSE IF r.ent = << >> THEN [idx |-> -1, match |-> FALSE]
      ELSE [idx |-> ((d.ctx.next_seq - 1 - r.ent[1].seq) % SeqWrap) + Len(Static),
            match |-> r.exact]

IndexingMode(d, f) ==
  IF f.name \in Secret \/ f.noindex THEN "never"
  ELSE IF f.name \in Varying \/ Room(f) > (d.ctx.max * 3) \div 4
       THEN "without" ELSE "with"

Rep(op, mode, idx, f) ==
  [op |-> op, mode |-> mode, idx |-> idx, size |-> 0, field |-> f]

NoField == [name |-> "", value |-> "", noindex |-> FALSE]
SizeUpdate(n) == [Rep("size", "without", 0, NoField) EXCEPT !.size = n]
EndOfBlock == Rep("end", "without", 0, NoField)
Ack == Rep("ack", "without", 0, NoField)

\* deflate_nv
DeflateNv(d, f) ==
  LET mode == IndexingMode(d, f)
      r == Search(d, f, mode)
      c == AddIncremental(d.ctx, f)
      e == RingGet(c.table, 0)
      m == MapKeep(d.map, c)
      added == c.next_seq # d.ctx.next_seq
      d2 == [d EXCEPT !.ctx = c, !.map = IF added THEN MapInsert(m, e) ELSE m]
  IN  IF r.match THEN [d |-> d, rep |-> Rep("indexed", mode, r.idx, f)]
      ELSE [d |-> IF mode = "with" THEN d2 ELSE d,
            rep |-> IF r.idx = -1 THEN Rep("newname", mode, 0, f)
                    ELSE Rep("indname", mode, r.idx, f)]

\* Only the size in force is announced
SizeUpdates_LastOnly(d) == IF d.notify THEN <<SizeUpdate(d.ctx.max)>> ELSE << >>

\* The smallest size since the last block, then the size in force
SizeUpdates(d) ==
  IF ~ d.notify THEN << >>
  ELSE (IF d.ctx.max > d.min THEN <<SizeUpdate(d.min)>> ELSE << >>)
       \o <<SizeUpdate(d.ctx.max)>>

\* nghttp2_hd_deflate_hd_bufs, the representations of a list of fields
Deflate(d, list) ==
  LET d0 == [d EXCEPT !.notify = FALSE, !.min = NoMin]
      step(f, acc) == LET r == DeflateNv(acc.d, f)
                      IN  [d |-> r.d, reps |-> Append(acc.reps, r.rep)]
  IN  FoldLeft(LAMBDA acc, f : step(f, acc),
               [d |-> d0, reps |-> SizeUpdates(d)], list)

\* nghttp2_hd_deflate_change_table_size
DeflateChangeTableSize(d, n) ==
  LET next == Least(n, d.limit)
      c == Evict([d.ctx EXCEPT !.max = next], 0)
  IN  [d EXCEPT !.ctx = c, !.min = Least(@, next), !.notify = TRUE,
                !.map = MapKeep(@, c)]

(* --- the decoder ------------------------------------------------------ *)

InflateInit ==
  [ctx |-> ContextInit(DefaultMax), settings_max |-> DefaultMax,
   min |-> NoMin, state |-> "START", bad |-> FALSE]

\* nghttp2_hd_inflate_change_table_size
InflateChangeTableSize(i, n) ==
  IF i.state = "OPCODE" THEN [i EXCEPT !.bad = TRUE]
  ELSE LET smaller == i.ctx.max > n
       IN  [i EXCEPT !.state = IF smaller THEN "EXPECT_TABLE_SIZE" ELSE @,
                     !.min = IF smaller THEN n ELSE @,
                     !.settings_max = n,
                     !.ctx = Evict([@ EXCEPT !.max = n], 0)]

Bad(i) == [i |-> [i EXCEPT !.bad = TRUE], field |-> NoField]

\* A dynamic table size update, at the head of a block only
InflateSize(i, n) ==
  IF i.state = "OPCODE" \/ n > Least(i.min, i.settings_max) THEN Bad(i)
  ELSE [i |-> [i EXCEPT !.min = NoMin, !.state = "START",
                        !.ctx = Evict([@ EXCEPT !.max = n], 0)],
        field |-> NoField]

\* hd_inflate_commit_indexed, _indname and _newname
InflateField(i, r) ==
  IF \/ i.state = "EXPECT_TABLE_SIZE"
     \/ r.op # "newname" /\ r.idx + 1 > i.ctx.table.len + Len(Static)
  THEN Bad(i)
  ELSE LET e == TableGet(i.ctx, r.idx)
           f == [name |-> IF r.op = "newname" THEN r.field.name ELSE e.name,
                 value |-> IF r.op = "indexed" THEN e.value ELSE r.field.value,
                 noindex |-> r.op # "indexed" /\ r.mode = "never"]
       IN  [i |-> [i EXCEPT !.state = "OPCODE",
                            !.ctx = IF r.op # "indexed" /\ r.mode = "with"
                                    THEN AddIncremental(@, f) ELSE @],
            field |-> f]

\* The last bytes of a block, then nghttp2_hd_inflate_end_headers
InflateEnd(i) ==
  IF i.state = "EXPECT_TABLE_SIZE" THEN Bad(i)
  ELSE [i |-> [i EXCEPT !.state = "START"], field |-> NoField]

(* --- the two sessions ------------------------------------------------- *)

Init ==
  /\ \E l \in Limits : deflater = DeflateInit(l)
  /\ inflater = InflateInit
  /\ wire = << >>
  /\ inflight = << >>
  /\ unread = 0
  /\ agrees = TRUE

\* The decoder's side sends SETTINGS; they take effect when acknowledged
SubmitSettings ==
  /\ Len(inflight) < MaxInflight
  /\ \E s \in Sizes : inflight' = Append(inflight, s)
  /\ unread' = unread + 1
  /\ UNCHANGED <<deflater, inflater, wire, agrees>>

\* The acknowledgement goes out before any header block made afterwards: it
\* is in the urgent queue
RecvSettings ==
  /\ unread > 0
  /\ deflater' = FoldLeft(DeflateChangeTableSize, deflater,
                          inflight[Len(inflight) - unread + 1])
  /\ unread' = unread - 1
  /\ wire' = Append(wire, Ack)
  /\ UNCHANGED <<inflater, inflight, agrees>>

SendHeaders ==
  /\ ~ deflater.bad
  /\ Cardinality({k \in 1 .. Len(wire) : wire[k] = EndOfBlock}) < MaxBlocks
  /\ \E list \in Lists :
       LET r == Deflate(deflater, list)
       IN  /\ deflater' = r.d
           /\ wire' = wire \o r.reps \o <<EndOfBlock>>
  /\ UNCHANGED <<inflater, inflight, unread, agrees>>

\* A buffer error or lack of memory in the middle of a block: what was
\* encoded is dropped and the encoder refuses to work from then on
DeflateFails ==
  /\ ~ deflater.bad
  /\ \E list \in Lists :
       deflater' = [Deflate(deflater, list).d EXCEPT !.bad = TRUE]
  /\ UNCHANGED <<inflater, wire, inflight, unread, agrees>>

\* The acknowledged SETTINGS are applied to the decoder; the smallest size first
RecvAck ==
  /\ wire # << >> /\ wire[1].op = "ack" /\ ~ inflater.bad
  /\ inflater' = FoldLeft(InflateChangeTableSize, inflater, inflight[1])
  /\ inflight' = Tail(inflight)
  /\ wire' = Tail(wire)
  /\ UNCHANGED <<deflater, unread, agrees>>

RecvRep ==
  /\ wire # << >> /\ wire[1].op # "ack" /\ ~ inflater.bad
  /\ LET r == wire[1]
         o == CASE r.op = "size" -> InflateSize(inflater, r.size)
                [] r.op = "end" -> InflateEnd(inflater)
                [] OTHER -> InflateField(inflater, r)
     IN  /\ inflater' = o.i
         /\ agrees' = \/ r.op \in {"size", "end"}
                      \/ /\ o.field.name = r.field.name
                         /\ o.field.value = r.field.value
                         /\ o.field.noindex = (r.mode = "never")
  /\ wire' = Tail(wire)
  /\ UNCHANGED <<deflater, inflight, unread>>

Next ==
  \/ SubmitSettings
  \/ RecvSettings
  \/ SendHeaders
  \/ DeflateFails
  \/ RecvAck
  \/ RecvRep

Spec == Init /\ [][Next]_vars

(* --- properties ------------------------------------------------------- *)

TypeOK ==
  /\ deflater.ctx.table.len \in 0 .. deflater.ctx.table.mask + 1
  /\ inflater.ctx.table.len \in 0 .. inflater.ctx.table.mask + 1
  /\ deflater.ctx.next_seq \in 0 .. SeqWrap - 1
  /\ inflater.state \in {"EXPECT_TABLE_SIZE", "START", "OPCODE"}
  /\ unread \in 0 .. Len(inflight)
  /\ agrees \in BOOLEAN

\* Every field comes out of the decoder as it went into the encoder, its
\* never-indexed mark included, wherever changes of the table size fall
\* between the blocks and however the encoder chose to represent it
DecodedAsSent == agrees

\* The decoder never refuses what the encoder made: no index is out of range,
\* every change of the table size that the decoder waits for is announced at
\* the head of the next block, and no announced size is over its limit
NeverRefused == ~ inflater.bad

\* hd_table_bufsize is the room of the entries in the table, and never over
\* the size in force, on both sides
TableFits ==
  \A c \in {deflater.ctx, inflater.ctx} :
    /\ c.bufsize = Rooms(Entries(c.table))
    /\ c.bufsize <= c.max

\* The encoder's map lists the entries of its table and nothing else, in each
\* bucket the last added first, and the index made from a sequence number is
\* the entry's place in the table, also after the numbers wrapped
MapExact ==
  LET t == Entries(deflater.ctx.table)
  IN  /\ \A b \in DOMAIN deflater.map :
           deflater.map[b] = SelectSeq(t, LAMBDA e : Bucket[e.name] = b)
      /\ \A k \in 1 .. Len(t) :
           (deflater.ctx.next_seq - 1 - t[k].seq) % SeqWrap = k - 1

Plain(r) == [k \in 1 .. r.len |-> [name |-> RingGet(r, k - 1).name,
                                   value |-> RingGet(r, k - 1).value]]

\* Once all that was sent is read, the decoder has at least the encoder's
\* entries, at the same places, and exactly those when no change of the size
\* is still to be announced
InStepWhenQuiet ==
  (wire = << >> /\ unread = 0 /\ ~ deflater.bad) =>
     LET d == Plain(deflater.ctx.table)
         i == Plain(inflater.ctx.table)
     IN  /\ IsPrefix(d, i)
         /\ ~ deflater.notify => d = i /\ deflater.ctx.max = inflater.ctx.max
=============================================================================
