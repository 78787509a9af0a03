----------------------------- MODULE HpackCodec -----------------------------
(* The bytes of a header block: integers of a prefix, strings that are
   Huffman coded when that is shorter, the five kinds of representation
   (lib/nghttp2_hd.c, lib/nghttp2_hd_huffman.c), and the decoder's state
   machine, which is given the block in pieces of any length.  What an index
   stands for is the subject of Hpack. *)
EXTENDS Integers, Sequences, SequencesExt

CONSTANTS Width,      \* integers have this many bits (32)
          LenPrefix,  \* the prefix of a string's length (7; less in instances, so
                      \* that short strings have lengths of several bytes)
          MaxNv,      \* NGHTTP2_HD_MAX_NV
          MaxIndex,   \* get_max_index
          MaxTable,   \* the largest table size the decoder takes
          Codes,      \* symbol -> <<nbits, code>>, part of huff_sym_table
          Eos,        \* <<nbits, code>> of the symbol 256
          Blocks,     \* the header blocks to send, lists of representations
          Pieces      \* the lengths of the pieces a block arrives in

VARIABLES block, wire, pos, avail, final, incall, busy, inf, out, done

vars == <<block, wire, pos, avail, final, incall, busy, inf, out, done>>

RECURSIVE Digits(_, _, _, _)

UintMax == 2 ^ Width - 1

(* --- integers --------------------------------------------------------- *)

EncodeRest[n \in Nat] ==
  IF n < 128 THEN <<n>> ELSE <<128 + (n % 128)>> \o EncodeRest[n \div 128]

\* encode_length and count_encoded_length; first holds the bits of the opcode
EncodeLength(first, n, prefix) ==
  LET k == 2 ^ prefix - 1
  IN  IF n < k THEN <<first + n>> ELSE <<first + k>> \o EncodeRest[n - k]

Decoded(ok, res, shift, fin, used) ==
  [ok |-> ok, res |-> res, shift |-> shift, fin |-> fin, used |-> used]

Digits(bytes, i, n, shift) ==
  IF i > Len(bytes) THEN Decoded(TRUE, n, shift, FALSE, i - 1)
  ELSE LET add == bytes[i] % 128
       IN  IF \/ shift >= Width
              \/ UintMax \div (2 ^ shift) < add
              \/ UintMax - add * 2 ^ shift < n
           THEN Decoded(FALSE, 0, 0, FALSE, 0)
           ELSE IF bytes[i] < 128
           THEN Decoded(TRUE, n + add * 2 ^ shift, shift, TRUE, i)
           ELSE Digits(bytes, i + 1, n + add * 2 ^ shift, shift + 7)

\* A continued integer starts from its least digit again
DecodeLength_NoShift(bytes, initial, shift, prefix) ==
  LET k == 2 ^ prefix - 1
      low == bytes[1] % 2 ^ prefix
  IN  IF initial = 0 /\ low # k THEN Decoded(TRUE, low, 0, TRUE, 1)
      ELSE IF initial = 0 THEN Digits(bytes, 2, k, 0)
      ELSE Digits(bytes, 1, initial, 0)

\* An initial value of 0 means that the integer starts here
DecodeLength(bytes, initial, shift, prefix) ==
  LET k == 2 ^ prefix - 1
      low == bytes[1] % 2 ^ prefix
  IN  IF initial = 0 /\ low # k THEN Decoded(TRUE, low, 0, TRUE, 1)
      ELSE IF initial = 0 THEN Digits(bytes, 2, k, shift)
      ELSE Digits(bytes, 1, initial, shift)

(* --- Huffman coding --------------------------------------------------- *)

\* The bits of a code, the most significant first
Bits(c) == [k \in 1 .. c[1] |-> (c[2] \div 2 ^ (c[1] - k)) % 2]

Byte(bits) == FoldLeft(LAMBDA n, b : 2 * n + b, 0, bits)

HuffBits(str) == FlattenSeq([k \in DOMAIN str |-> Bits(Codes[str[k]])])

\* nghttp2_hd_huff_encode_count
HuffEncodeCount(str) == (Len(HuffBits(str)) + 7) \div 8

\* nghttp2_hd_huff_encode: the last byte is filled up with the first bits of
\* the end-of-string symbol
HuffEncode(str) ==
  LET bits == HuffBits(str)
      pad == SubSeq(Bits(Eos), 1, (8 - (Len(bits) % 8)) % 8)
      all == bits \o pad
  IN  [k \in 1 .. Len(all) \div 8 |-> Byte(SubSeq(all, 8 * k - 7, 8 * k))]

\* huff_decode_table: the state is the bits since the last symbol; four more
\* bits complete at most one symbol
HuffTable(state, four) ==
  LET bits == state \o four
      hit == {s \in DOMAIN Codes : IsPrefix(Bits(Codes[s]), bits)}
      sym == CHOOSE s \in hit : TRUE
      rest == IF hit = {} THEN bits
              ELSE SubSeq(bits, Codes[sym][1] + 1, Len(bits))
  IN  [state |-> rest,
       sym |-> IF hit = {} THEN << >> ELSE <<sym>>,
       accept |-> Len(rest) < 8 /\ \A k \in DOMAIN rest : rest[k] = 1,
       fail |-> IsPrefix(Bits(Eos), bits)]

\* nghttp2_hd_huff_decode, one byte
HuffByte(h, byte) ==
  LET bits == Bits(<<8, byte>>)
      t1 == HuffTable(h.state, SubSeq(bits, 1, 4))
      t2 == HuffTable(t1.state, SubSeq(bits, 5, 8))
  IN  [state |-> t2.state, accept |-> t2.accept,
       fail |-> h.fail \/ t1.fail \/ t2.fail,
       str |-> h.str \o t1.sym \o t2.sym]

HuffInit == [state |-> << >>, accept |-> TRUE, fail |-> FALSE, str |-> << >>]

(* --- the encoder's bytes ---------------------------------------------- *)

EmitString(str) ==
  IF HuffEncodeCount(str) < Len(str)
  THEN EncodeLength(128, HuffEncodeCount(str), LenPrefix) \o HuffEncode(str)
  ELSE EncodeLength(0, Len(str), LenPrefix) \o str

\* pack_first_byte
FirstByte(mode) ==
  CASE mode = "with" -> 64 [] mode = "without" -> 0 [] mode = "never" -> 16

\* emit_table_size, emit_indexed_block, emit_indname_block, emit_newname_block
Emit(r) ==
  CASE r.op = "size" -> EncodeLength(32, r.idx, 5)
    [] r.op = "indexed" -> EncodeLength(128, r.idx + 1, 7)
    [] r.op = "indname" ->
         EncodeLength(FirstByte(r.mode), r.idx + 1,
                      IF r.mode = "with" THEN 6 ELSE 4) \o EmitString(r.value)
    [] r.op = "newname" ->
         <<FirstByte(r.mode)>> \o EmitString(r.name) \o EmitString(r.value)

(* --- the decoder ------------------------------------------------------ *)

InflateInit ==
  [state |-> "INFLATE_START", op |-> "none", mode |-> "without", left |-> 0,
   shift |-> 0, index |-> 0, huffman |-> FALSE, huff |-> HuffInit,
   room |-> 0, name |-> << >>, bad |-> FALSE]

Init ==
  /\ block \in Blocks
  /\ wire = FlattenSeq([k \in DOMAIN block |-> Emit(block[k])])
  /\ pos = 0 /\ avail = 0 /\ final = FALSE /\ incall = FALSE /\ busy = FALSE
  /\ inf = InflateInit
  /\ out = << >>
  /\ done = FALSE

\* nghttp2_hd_inflate_hd_nv; the session calls it until a piece is used up
Call ==
  /\ ~ incall /\ ~ done /\ ~ inf.bad
  /\ \E n \in Pieces :
       /\ n <= Len(wire) - pos
       /\ avail' = n
       /\ final' = (pos + n = Len(wire))
  /\ incall' = TRUE
  /\ busy' = FALSE
  /\ UNCHANGED <<block, wire, pos, inf, out, done>>

Loop(state) == incall /\ ~ inf.bad /\ (avail > 0 \/ busy) /\ inf.state = state

In == SubSeq(wire, pos + 1, pos + avail)

Use(n) == pos' = pos + n /\ avail' = avail - n

Rest == UNCHANGED <<block, wire, final, done>>

Fail == /\ inf' = [inf EXCEPT !.bad = TRUE]
        /\ UNCHANGED <<pos, avail, incall, busy, out>>

\* The state of the decoder is i; all of the piece is used ("almost_ok" when
\* the decoder is in the middle of something)
Go(i, used, b) ==
  /\ inf' = i /\ Use(used) /\ busy' = b /\ UNCHANGED <<incall, out>>

Opcode ==
  /\ \E s \in {"INFLATE_START", "OPCODE"} : Loop(s)
  /\ LET b == In[1]
         literal == b < 128 /\ b \div 32 # 1
         newname == b \in {64, 0, 16}
         i == [inf EXCEPT !.left = 0, !.shift = 0,
                 !.mode = IF ~ literal THEN @
                          ELSE IF b \div 64 = 1 THEN "with"
                          ELSE IF b \div 16 = 1 THEN "never" ELSE "without"]
     IN  IF b \div 32 = 1
         THEN IF inf.state = "OPCODE" THEN Fail
              ELSE Go([i EXCEPT !.op = "size", !.state = "READ_TABLE_SIZE"],
                      0, FALSE)
         ELSE IF b >= 128
         THEN Go([i EXCEPT !.op = "indexed", !.state = "READ_INDEX"], 0, FALSE)
         ELSE IF newname
         THEN Go([i EXCEPT !.op = "newname",
                           !.state = "NEWNAME_CHECK_NAMELEN"], 1, FALSE)
         ELSE Go([i EXCEPT !.op = "indname", !.state = "READ_INDEX"], 0, FALSE)
  /\ Rest

Emitted(r) == out' = Append(out, r)

\* hd_inflate_read_len
ReadLen(prefix, max) ==
  LET d == DecodeLength(In, inf.left, inf.shift, prefix)
  IN  [d EXCEPT !.ok = d.ok /\ d.res <= max]

\* The integer goes on in the next piece
Partly(i, d) ==
  Go([i EXCEPT !.left = d.res, !.shift = d.shift], d.used, FALSE)

ReadTableSize ==
  /\ Loop("READ_TABLE_SIZE")
  /\ LET d == ReadLen(5, MaxTable)
     IN  IF ~ d.ok THEN Fail
         ELSE IF ~ d.fin THEN Partly(inf, d)
         ELSE /\ inf' = [inf EXCEPT !.state = "INFLATE_START"]
              /\ Emitted([op |-> "size", mode |-> "without", idx |-> d.res,
                          name |-> << >>, value |-> << >>])
              /\ Use(d.used) /\ busy' = FALSE /\ UNCHANGED incall
  /\ Rest

ReadIndex ==
  /\ Loop("READ_INDEX")
  /\ LET prefix == IF inf.op = "indexed" THEN 7
                   ELSE IF inf.mode = "with" THEN 6 ELSE 4
         d == ReadLen(prefix, MaxIndex)
     IN  IF ~ d.ok THEN Fail
         ELSE IF ~ d.fin THEN Partly(inf, d)
         ELSE IF d.res = 0 THEN Fail
         ELSE IF inf.op = "indexed"
         THEN /\ inf' = [inf EXCEPT !.state = "OPCODE"]
              /\ Emitted([op |-> "indexed", mode |-> "without",
                          idx |-> d.res - 1, name |-> << >>, value |-> << >>])
              /\ Use(d.used) /\ busy' = FALSE /\ UNCHANGED incall
         ELSE Go([inf EXCEPT !.index = d.res - 1, !.state = "CHECK_VALUELEN"],
                 d.used, FALSE)
  /\ Rest

\* CHECK_...LEN takes the Huffman bit and starts the integer, READ_...LEN
\* reads it; then the buffer for the string is allocated
StartString ==
  LET i == IF inf.state \in {"NEWNAME_CHECK_NAMELEN", "CHECK_VALUELEN"}
           THEN [inf EXCEPT !.huffman = In[1] >= 128, !.left = 0, !.shift = 0]
           ELSE inf
      e == DecodeLength(In, i.left, i.shift, LenPrefix)
  IN  [i |-> i, ok |-> e.ok /\ e.res <= MaxNv, d |-> e]

Allocated(left, huffman) == IF huffman THEN left * 2 + 1 ELSE left + 1

ReadStringLen(waiting, reading, b) ==
  LET s == StartString
      i == [s.i EXCEPT !.state = waiting]
  IN  IF ~ s.ok THEN Fail
      ELSE IF ~ s.d.fin THEN Partly(i, s.d)
      ELSE Go([i EXCEPT !.left = s.d.res, !.state = reading, !.huff = HuffInit,
                        !.room = Allocated(s.d.res, i.huffman)],
              s.d.used, b)

NewnameNamelen ==
  /\ \E s \in {"NEWNAME_CHECK_NAMELEN", "NEWNAME_READ_NAMELEN"} : Loop(s)
  /\ ReadStringLen("NEWNAME_READ_NAMELEN", "NEWNAME_READ_NAME", FALSE)
  /\ Rest

\* busy: an empty value needs no more bytes
Valuelen ==
  /\ \E s \in {"CHECK_VALUELEN", "READ_VALUELEN"} : Loop(s)
  /\ ReadStringLen("READ_VALUELEN", "READ_VALUE", TRUE)
  /\ Rest

\* hd_inflate_read and hd_inflate_read_huff: what the piece has of the string
ReadString ==
  LET n == IF avail < inf.left THEN avail ELSE inf.left
      bytes == SubSeq(In, 1, n)
      h == IF inf.huffman THEN FoldLeft(HuffByte, inf.huff, bytes)
           ELSE [inf.huff EXCEPT !.str = @ \o bytes]
      last == n = inf.left
  IN  [n |-> n, last |-> last, h |-> h,
       ok |-> ~ h.fail /\ (inf.huffman /\ last => h.accept)]

ReadName ==
  /\ Loop("NEWNAME_READ_NAME")
  /\ LET r == ReadString
         i == [inf EXCEPT !.left = @ - r.n, !.huff = r.h]
     IN  IF ~ r.ok THEN Fail
         ELSE Go(IF r.last THEN [i EXCEPT !.state = "CHECK_VALUELEN",
                                          !.name = r.h.str]
                 ELSE i, r.n, FALSE)
  /\ Rest

ReadValue ==
  /\ Loop("READ_VALUE")
  /\ LET r == ReadString
         i == [inf EXCEPT !.left = @ - r.n, !.huff = r.h]
     IN  IF ~ r.ok THEN Fail
         ELSE IF ~ r.last THEN Go(i, r.n, FALSE)
         ELSE /\ inf' = [i EXCEPT !.state = "OPCODE", !.name = << >>]
              /\ Emitted([op |-> inf.op, mode |-> inf.mode,
                          idx |-> IF inf.op = "indname" THEN inf.index ELSE 0,
                          name |-> inf.name, value |-> r.h.str])
              /\ Use(r.n) /\ busy' = FALSE /\ UNCHANGED incall
  /\ Rest

\* The piece is used up; the last one must end between two representations
Return ==
  /\ incall /\ avail = 0 /\ ~ busy /\ ~ inf.bad
  /\ IF final /\ inf.state \notin {"OPCODE", "INFLATE_START"} THEN Fail
     ELSE incall' = FALSE /\ UNCHANGED <<pos, avail, inf, busy, out>>
  /\ done' = (final /\ inf.state \in {"OPCODE", "INFLATE_START"})
  /\ UNCHANGED <<block, wire, final>>

Step == \/ Opcode \/ ReadTableSize \/ ReadIndex \/ NewnameNamelen \/ ReadName
        \/ Valuelen \/ ReadValue \/ Return

Next == Call \/ Step

Spec == Init /\ [][Next]_vars

(* --- properties ------------------------------------------------------- *)

TypeOK ==
  /\ pos + avail <= Len(wire) /\ pos >= 0 /\ avail >= 0
  /\ inf.left \in 0 .. UintMax
  /\ inf.shift % 7 = 0 /\ inf.shift < Width + 7

\* However the block is cut into pieces, the decoder reads the representations
\* the encoder wrote, in their order, and refuses none of them
RoundTrip ==
  /\ IsPrefix(out, block)
  /\ done => out = block
  /\ ~ inf.bad

\* The buffer allocated from the encoded length of a string has room for the
\* decoded one and the NUL after it
FitsAllocation ==
  inf.state \in {"NEWNAME_READ_NAME", "READ_VALUE", "CHECK_VALUELEN", "OPCODE"} =>
    Len(inf.huff.str) + 1 <= inf.room \/ inf.room = 0
=============================================================================
