----------------------------- MODULE StreamMap -----------------------------
(* The hash table of a session's streams (lib/nghttp2_map.c): chained entries,
   a table length that doubles at a load of three quarters.  keys is what the
   caller has put in and not taken out. *)
EXTENDS Integers, Sequences, FiniteSets, SequencesExt, Bitwise

CONSTANTS Keys,           \* stream IDs
          InitialLength   \* INITIAL_TABLE_LENGTH, 256 in the code

VARIABLES map, keys

vars == <<map, keys>>

\* Every bucket of a table
Buckets(length) == 0 .. length - 1

\* hash, "mod must be power of 2"
Hash(key, mod) ==
  LET a == key ^^ (shiftR(key, 20) ^^ shiftR(key, 12))
      b == a ^^ (shiftR(a, 7) ^^ shiftR(a, 4))
  IN  b % mod

\* An entry is put in front of its bucket, unless it is there; returns the table
InsertEntry(table, length, key) ==
  [table EXCEPT ![Hash(key, length)] = <<key>> \o @]

Present(table, length, key) == Contains(table[Hash(key, length)], key)

\* The entries stay in the buckets they were in
Resize_SameBuckets(m, length) ==
  [m EXCEPT !.length = length,
            !.table = [h \in Buckets(length) |->
                         IF h \in Buckets(m.length) THEN m.table[h] ELSE <<>>]]

\* resize: the buckets one after the other, each from its front
Resize(m, length) ==
  LET all == FoldLeft(LAMBDA s, h : s \o m.table[h], <<>>,
                      [i \in 1 .. m.length |-> i - 1])
  IN  [m EXCEPT !.length = length,
                !.table = FoldLeft(LAMBDA t, k : InsertEntry(t, length, k),
                                   [h \in Buckets(length) |-> <<>>], all)]

\* nghttp2_map_insert: the table grows before the key is found to be there
MapInsert(m, key) ==
  LET n == IF (m.size + 1) * 4 > m.length * 3 THEN Resize(m, m.length * 2) ELSE m
  IN  IF Present(n.table, n.length, key) THEN [ok |-> FALSE, m |-> n]
      ELSE [ok |-> TRUE, m |-> [n EXCEPT !.table = InsertEntry(@, n.length, key),
                                         !.size = @ + 1]]

\* nghttp2_map_find
MapFind(m, key) == Present(m.table, m.length, key)

\* nghttp2_map_remove
MapRemove(m, key) ==
  IF ~ MapFind(m, key) THEN m
  ELSE [m EXCEPT !.table[Hash(key, m.length)] = SelectSeq(@, LAMBDA k : k # key),
                 !.size = @ - 1]

Init ==
  /\ map = [length |-> InitialLength, size |-> 0,
            table |-> [h \in Buckets(InitialLength) |-> <<>>]]
  /\ keys = {}

InsertStream ==
  \E k \in Keys : LET r == MapInsert(map, k)
                  IN  map' = r.m /\ keys' = IF r.ok THEN keys \cup {k} ELSE keys

RemoveStream ==
  \E k \in Keys : map' = MapRemove(map, k) /\ keys' = keys \ {k}

Next == InsertStream \/ RemoveStream

Spec == Init /\ [][Next]_vars

TypeOK ==
  /\ DOMAIN map.table = Buckets(map.length)
  /\ \A h \in Buckets(map.length) : \A i \in 1 .. Len(map.table[h]) :
       map.table[h][i] \in Keys
  /\ map.size \in 0 .. Cardinality(Keys)

\* A key is found exactly while it is in the map, whatever tables it has been
\* moved through, and the size counts the keys (nghttp2_map_find,
\* nghttp2_map_size)
FindsExactly ==
  /\ \A k \in Keys : MapFind(map, k) <=> k \in keys
  /\ map.size = Cardinality(keys)

\* Every entry is in one bucket once, and the table is long enough for the load
\* factor that nghttp2_map_insert promises
LoadBounded ==
  /\ FoldLeft(LAMBDA n, h : n + Len(map.table[h]), 0,
              [i \in 1 .. map.length |-> i - 1]) = Cardinality(keys)
  /\ map.size * 4 <= map.length * 3
=============================================================================
