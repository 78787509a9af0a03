------------------------------ MODULE UriText ------------------------------
(***************************************************************************)
(* The text algorithms that the proxy, the tools and the asio server share *)
(* (http2.cc, util.cc, base64.h), each against a definition of what it is  *)
(* to compute.  A string is a sequence of characters; a word that the code *)
(* compares as a whole ("preload", "trailers") is one character.  Numbers  *)
(* are scaled: MaxInt stands for the largest int64_t, Kilo for 1 << 10.    *)
(*                                                                         *)
(* text is the input, built up piece by piece; scope says which algorithm  *)
(* reads it, from which pieces it is built and how long it may get.        *)
(***************************************************************************)
EXTENDS Integers, Sequences, SequencesExt

CONSTANTS MaxInt,   \* the largest int64_t
          Kilo,     \* the multiplier of the unit k
          Code,     \* the two hex digits of a character
          Scopes    \* {[kind, pieces, len]}

VARIABLES text, scope
vars == <<text, scope>>

Init == scope \in Scopes /\ text = <<>>

Next ==
    /\ Len(text) < scope.len
    /\ \E c \in scope.pieces : text' = Append(text, c)
    /\ UNCHANGED scope

Spec == Init /\ [][Next]_vars

-----------------------------------------------------------------------------
(* Helpers: what is left of s from position i, the first position from i   *)
(* on that holds one of the characters, or the end.                        *)

From(s, i) == SubSeq(s, i, Len(s))
Has(s, i, pat) == i + Len(pat) - 1 <= Len(s) /\ SubSeq(s, i, i + Len(pat) - 1) = pat
RECURSIVE Find(_, _, _)
Find(s, i, cs) == IF i > Len(s) \/ s[i] \in cs THEN i ELSE Find(s, i + 1, cs)
RECURSIVE Skip(_, _, _)
Skip(s, i, cs) == IF i > Len(s) \/ s[i] \notin cs THEN i ELSE Skip(s, i + 1, cs)

-----------------------------------------------------------------------------
(* Paths.                                                                  *)

\* eat_file: the path without what follows its last slash.
RECURSIVE EatFile(_)
EatFile(p) ==
    IF p = <<>> THEN <<"/">>
    ELSE IF Last(p) = "/" THEN p
    ELSE EatFile(Front(p))

\* eat_dir.
EatDir(p) == EatFile(Front(EatFile(p)))

\* The loop of path_join: p is the path so far, i the position in rel.
RECURSIVE JoinFrom(_, _, _)
JoinFrom(p, rel, i) ==
    IF i > Len(rel) THEN p
    ELSE IF rel[i] = "." /\ i = Len(rel) THEN p
    ELSE IF Has(rel, i, <<".", "/">>) THEN JoinFrom(p, rel, i + 2)
    ELSE IF Has(rel, i, <<".", ".">>) /\ i + 1 = Len(rel) THEN EatDir(p)
    ELSE IF Has(rel, i, <<".", ".", "/">>) THEN JoinFrom(EatDir(p), rel, i + 3)
    ELSE LET d == IF Last(p) # "/" THEN EatFile(p) ELSE p
             slash == Find(rel, i, {"/"})
         IN  IF slash > Len(rel) THEN d \o From(rel, i)
             ELSE JoinFrom(d \o SubSeq(rel, i, slash), rel, Skip(rel, slash, {"/"}))

\* path_join.
PathJoin(base, baseq, rel, relq) ==
    LET root == IF base = <<>> THEN <<"/">> ELSE base
        q(x) == IF x = <<>> THEN <<>> ELSE <<"?">> \o x
    IN  IF rel = <<>> THEN root \o q(IF relq = <<>> THEN baseq ELSE relq)
        ELSE (IF rel[1] = "/" THEN JoinFrom(<<"/">>, rel, Skip(rel, 1, {"/"}))
              ELSE JoinFrom(root, rel, 1)) \o q(relq)

\* The names of a path, and the path of a list of names.
RECURSIVE NamesOf(_)
NamesOf(p) ==
    IF p = <<>> THEN <<>>
    ELSE LET i == Find(p, 1, {"/"}) IN
         (IF i = 1 THEN <<>> ELSE <<SubSeq(p, 1, i - 1)>>) \o NamesOf(From(p, i + 1))

\* What the names of a reference mean, one after the other.
Walk(dir, names) ==
    FoldLeft(LAMBDA d, n : CASE n = <<".">> -> d
                             [] n = <<".", ".">> -> IF d = <<>> THEN d ELSE Front(d)
                             [] OTHER -> Append(d, n),
             dir, names)

PathOf(names, slash) ==
    FoldLeft(LAMBDA p, n : p \o <<"/">> \o n, <<>>, names)
        \o (IF slash \/ names = <<>> THEN <<"/">> ELSE <<>>)

\* A reference that names a directory.
IsDir(p) == p = <<>> \/ Last(p) = "/" \/ Last(NamesOf(p)) \in {<<".">>, <<".", ".">>}

\* in_rfc3986_unreserved_chars.
Unreserved == {"a", "e", ".", "2", "5", "6", "E", "F"}
HexDigits == {"2", "5", "6", "e", "E", "F"}
Upper(c) == IF c = "e" THEN "E" ELSE c

\* The character of two hex digits; "?" stands for all that are not modelled.
CharOf(a, b) ==
    IF \E c \in DOMAIN Code : Code[c] = <<Upper(a), Upper(b)>>
    THEN CHOOSE c \in DOMAIN Code : Code[c] = <<Upper(a), Upper(b)>>
    ELSE "?"
IsTriplet(s, i) == i + 2 <= Len(s) /\ s[i] = "%" /\ s[i + 1] \in HexDigits /\ s[i + 2] \in HexDigits

\* The loop of normalize_path: the triplets of unreserved characters are
\* decoded, the others are written in upper case.
RECURSIVE DecodeUnreserved(_, _)
DecodeUnreserved(s, i) ==
    IF i > Len(s) THEN <<>>
    ELSE IF ~IsTriplet(s, i) THEN <<s[i]>> \o DecodeUnreserved(s, i + 1)
    ELSE LET c == CharOf(s[i + 1], s[i + 2]) IN
         (IF c \in Unreserved THEN <<c>> ELSE <<"%", Upper(s[i + 1]), Upper(s[i + 2])>>)
             \o DecodeUnreserved(s, i + 3)

\* normalize_path, and rewrite_clean_path of a path.
NormalizePath(s) == PathJoin(<<>>, <<>>, DecodeUnreserved(s, 1), <<>>)
RewriteCleanPath(s) == IF s = <<>> \/ s[1] # "/" THEN s ELSE NormalizePath(s)

\* percent_encode and percent_decode.
PercentEncode(s) ==
    FoldLeft(LAMBDA r, c : r \o (IF c \in Unreserved THEN <<c>> ELSE <<"%">> \o Code[c]), <<>>, s)
RECURSIVE PercentDecode(_, _)
PercentDecode(s, i) ==
    IF i > Len(s) THEN <<>>
    ELSE IF IsTriplet(s, i) THEN <<CharOf(s[i + 1], s[i + 2])>> \o PercentDecode(s, i + 3)
    ELSE <<s[i]>> \o PercentDecode(s, i + 1)

-----------------------------------------------------------------------------
(* The Link header field.                                                  *)

Attr == {"u", "rel", "preload", "anchor", "nopush"}
Nothing == <<>>

\* A result of parse_next_link_header_once: the URI, empty for none, and where
\* to go on.
At(uri, i) == [uri |-> uri, next |-> i]

\* The list of relations of rel="...", from position i: whether it has preload
\* and where its right quote is; 0 for a list that is not well-formed.
RECURSIVE Relations(_, _, _, _)
Relations(s, start, i, ok) ==
    IF i > Len(s) THEN [ok |-> ok, quote |-> 0]
    ELSE IF s[i] \notin {" ", "\""} THEN Relations(s, start, i + 1, ok)
    ELSE IF i = start THEN [ok |-> ok, quote |-> 0]
    ELSE LET found == ok \/ SubSeq(s, start, i - 1) = <<"preload">> IN
         IF s[i] = "\"" THEN [ok |-> found, quote |-> i]
         ELSE LET j == Skip(s, i, {" "}) IN Relations(s, j, j, found)

\* check_link_param_empty and check_link_param_without_value.
NonEmptyParam(s, i, name) == Has(s, i, <<name, "=">>) /\ ~Has(s, i, <<name, "=", "\"", "\"">>)
BareParam(s, i, name) == Has(s, i, <<name>>) /\ (i = Len(s) \/ s[i + 1] \in {";", ","})

\* The end of the parameter at i: the position of the ';' or ',' after it, or
\* the end of s; 0 when it is not well-formed.
ParamEnd(s, i) ==
    LET n == Skip(s, i, Attr) IN
    IF n = i THEN 0
    ELSE IF n > Len(s) \/ s[n] \in {",", ";"} THEN n
    ELSE IF s[n] # "=" \/ n = Len(s) THEN 0
    ELSE IF s[n + 1] = "\""
    THEN LET r == Find(s, n + 2, {"\""}) IN
         IF r > Len(s) \/ (r < Len(s) /\ s[r + 1] \notin {",", ";"}) THEN 0 ELSE r + 1
    ELSE IF s[n + 1] \in {",", ";"} THEN 0
    ELSE Find(s, n + 1, {",", ";"})

\* The label almost_done, with first at i.
AlmostDone(s, i, uri, ok, ign) ==
    At(IF ok /\ ~ign THEN uri ELSE Nothing, IF i > Len(s) THEN i ELSE i + 1)

\* The parameters of a link, from position i0.
RECURSIVE LinkParams(_, _, _, _, _)
LinkParams(s, i0, uri, ok, ign) ==
    LET i == Skip(s, i0, {" "})
        end == Len(s) + 1
        PL == <<"rel", "=", "preload">> IN
    IF i = end THEN At(Nothing, end)
    ELSE IF ~ign /\ ~ok /\ Has(s, i, <<"rel", "=", "\"">>) /\ i + 3 <= Len(s)
    THEN LET r == Relations(s, i + 3, i + 3, ok) IN
         IF r.quote = 0 THEN At(Nothing, end)
         ELSE IF r.quote = Len(s) \/ s[r.quote + 1] = "," THEN AlmostDone(s, r.quote + 1, uri, r.ok, ign)
         ELSE IF s[r.quote + 1] = ";" THEN LinkParams(s, r.quote + 2, uri, r.ok, ign)
         ELSE At(Nothing, end)
    ELSE IF ~ign /\ Has(s, i, PL) /\ i + 3 = end THEN At(uri, end)
    ELSE IF ~ign /\ Has(s, i, PL \o <<",">>) THEN At(uri, i + 4)
    ELSE IF ~ign /\ Has(s, i, PL \o <<";">>) THEN LinkParams(s, i + 4, uri, TRUE, ign)
    ELSE LET no == ign \/ NonEmptyParam(s, i, "anchor") \/ BareParam(s, i, "nopush")
             e == ParamEnd(s, i)
         IN  IF e = 0 THEN At(Nothing, end)
             ELSE IF e = end \/ s[e] = "," THEN AlmostDone(s, e, uri, ok, no)
             ELSE LinkParams(s, e + 1, uri, ok, no)

\* parse_next_link_header_once.
NextLink(s, i0) ==
    LET i == Skip(s, i0, {" ", ","})
        end == Len(s) + 1 IN
    IF i = end \/ s[i] # "<" THEN At(Nothing, end)
    ELSE LET r == Find(s, i + 1, {">"}) IN
         IF r >= Len(s) THEN At(Nothing, end)
         ELSE IF s[r + 1] = "," THEN At(Nothing, r + 2)
         ELSE IF s[r + 1] # ";" THEN At(Nothing, end)
         ELSE LinkParams(s, r + 2, SubSeq(s, i + 1, r - 1), FALSE, FALSE)

\* parse_link_header.
RECURSIVE ParseLinkHeader(_, _)
ParseLinkHeader(s, i) ==
    IF i > Len(s) THEN <<>>
    ELSE LET r == NextLink(s, i) IN
         (IF r.uri = Nothing THEN <<>> ELSE <<r.uri>>) \o ParseLinkHeader(s, r.next)

-----------------------------------------------------------------------------
(* Numbers, and other fields.                                              *)

Digit == [c \in {"0", "1", "2", "5", "7", "9"} |->
             CASE c = "0" -> 0 [] c = "1" -> 1 [] c = "2" -> 2 [] c = "5" -> 5 [] c = "7" -> 7 [] c = "9" -> 9]

\* parse_uint_digits: the number and how many digits it has, or -1.
RECURSIVE ParseDigits(_, _, _)
ParseDigits(s, i, n) ==
    IF i > Len(s) \/ s[i] \notin DOMAIN Digit
    THEN IF i = 1 THEN <<-1, 0>> ELSE <<n, i - 1>>
    ELSE IF n > MaxInt \div 10 \/ n * 10 > MaxInt - Digit[s[i]] THEN <<-1, 0>>
    ELSE ParseDigits(s, i + 1, n * 10 + Digit[s[i]])

\* parse_uint, parse_uint_with_unit and parse_duration_with_unit, the last in
\* milliseconds; -1 also stands for its infinity.
ParseUint(s) == LET r == ParseDigits(s, 1, 0) IN IF r[1] = -1 \/ r[2] # Len(s) THEN -1 ELSE r[1]
ParseUintWithUnit(s) ==
    LET r == ParseDigits(s, 1, 0) IN
    IF r[1] = -1 \/ r[2] = Len(s) THEN r[1]
    ELSE IF r[2] + 1 # Len(s) \/ Last(s) # "k" \/ r[1] > MaxInt \div Kilo THEN -1
    ELSE r[1] * Kilo
ParseDurationWithUnit(s) ==
    LET r == ParseDigits(s, 1, 0)
        unit == From(s, r[2] + 1) IN
    IF r[1] = -1 THEN -1
    ELSE CASE unit \in {<<>>, <<"s">>} -> r[1] * 1000
           [] unit = <<"m", "s">> -> r[1]
           [] unit = <<"m">> -> IF r[1] > MaxInt \div 60 THEN -1 ELSE r[1] * 60 * 1000
           [] unit = <<"h">> -> IF r[1] > MaxInt \div 3600 THEN -1 ELSE r[1] * 3600 * 1000
           [] OTHER -> -1

\* parse_http_status_code.
ParseHttpStatusCode(s) ==
    IF Len(s) # 3 \/ \E i \in DOMAIN s : s[i] \notin DOMAIN Digit THEN -1
    ELSE LET n == Digit[s[1]] * 100 + Digit[s[2]] * 10 + Digit[s[3]] IN IF n < 100 THEN -1 ELSE n

\* contains_trailers: whether TE lists trailers.
RECURSIVE ContainsTrailers(_, _)
ContainsTrailers(s, i0) ==
    LET i == Skip(s, i0, {" "}) IN
    IF i > Len(s) THEN FALSE
    ELSE LET j == IF s[i] = "trailers" THEN Skip(s, i + 1, {" "}) ELSE i IN
         IF s[i] = "trailers" /\ (j > Len(s) \/ s[j] = ",") THEN TRUE
         ELSE LET k == Find(s, j, {","}) IN k <= Len(s) /\ ContainsTrailers(s, k + 1)

\* split_str.
RECURSIVE SplitStr(_, _)
SplitStr(s, delim) ==
    LET i == Find(s, 1, {delim}) IN
    IF i > Len(s) THEN <<s>> ELSE <<SubSeq(s, 1, i - 1)>> \o SplitStr(From(s, i + 1), delim)

\* base64::encode: three bytes are four digits; 64 stands for '='.
Pad == 64
RECURSIVE Encode64(_)
Encode64(b) ==
    LET at(i) == IF i <= Len(b) THEN b[i] ELSE 0
        n == at(1) * 65536 + at(2) * 256 + at(3)
        d == <<n \div 262144, (n \div 4096) % 64, (n \div 64) % 64, n % 64>>
    IN  CASE Len(b) = 0 -> <<>>
          [] Len(b) = 1 -> SubSeq(d, 1, 2) \o <<Pad, Pad>>
          [] Len(b) = 2 -> SubSeq(d, 1, 3) \o <<Pad>>
          [] OTHER -> d \o Encode64(From(b, 4))

\* base64::decode: "bad" for what is not decoded, of which the result is empty.
RECURSIVE Decode64(_, _)
Decode64(s, out) ==
    IF s = <<>> THEN out
    ELSE LET at(i) == IF s[i] = Pad THEN 0 ELSE s[i]
             n == at(1) * 262144 + at(2) * 4096 + at(3) * 64 + at(4)
             bytes == <<n \div 65536, (n \div 256) % 256, n % 256>>
         IN  IF s[1] = Pad \/ s[2] = Pad THEN <<>>
             ELSE IF s[3] = Pad THEN IF s[4] = Pad /\ Len(s) = 4 THEN out \o SubSeq(bytes, 1, 1) ELSE <<>>
             ELSE IF s[4] = Pad THEN IF Len(s) = 4 THEN out \o SubSeq(bytes, 1, 2) ELSE <<>>
             ELSE Decode64(From(s, 5), out \o bytes)

-----------------------------------------------------------------------------
(* serve_mux of the asio server: text is the list of patterns that the     *)
(* application registers, whose request handlers are their positions.      *)

Redirect(p) == [user |-> FALSE, cb |-> 0, to |-> p]
HostPart(p) == SubSeq(p, 1, Find(p, 1, {"/"}) - 1)

\* serve_mux::handle: what is registered and whether it returned true.  A
\* pattern that ends in a slash also gets an entry that redirects to it, unless
\* there is a user defined one; mux_.emplace keeps an entry that is there.
Handle(m, k, pat) ==
    LET mux == m.mux
        short == Front(pat)
        path == From(pat, Find(pat, 1, {"/"}))
        with == IF Len(pat) >= 2 /\ Last(pat) = "/" /\ (short \in DOMAIN mux => ~mux[short].user)
                THEN [p \in DOMAIN mux \cup {short} |-> IF p = short THEN Redirect(path) ELSE mux[p]]
                ELSE mux
    IN  IF pat \in DOMAIN mux /\ mux[pat].user THEN m
        ELSE [mux |-> [p \in DOMAIN with \cup {pat} |->
                          IF p \in DOMAIN with THEN with[p] ELSE [user |-> TRUE, cb |-> k, to |-> <<>>]],
              ok |-> m.ok \cup {k}]
Registered == FoldLeft(LAMBDA m, k : Handle(m, k, text[k]), [mux |-> [p \in {} |-> Redirect(<<>>)], ok |-> {}],
                       [k \in DOMAIN text |-> k])

\* path_match and serve_mux::match: the longest pattern that matches.
PathMatch(pat, path) == IF Last(pat) # "/" THEN pat = path ELSE Has(path, 1, pat)
Match(mux, path) ==
    LET ps == {p \in DOMAIN mux : PathMatch(p, path)} IN
    IF ps = {} THEN <<>> ELSE <<mux[CHOOSE p \in ps : \A o \in ps : Len(o) <= Len(p)]>>

\* serve_mux::handler: a path that is not clean is redirected, a pattern with
\* the host comes first, and 404 (here: no entry) is last.
Handler(mux, host, path) ==
    LET clean == PathJoin(<<>>, <<>>, path, <<>>)
        m == Match(mux, host \o path) IN
    IF clean # path THEN <<Redirect(clean)>> ELSE IF m # <<>> THEN m ELSE Match(mux, path)

-----------------------------------------------------------------------------
(* The properties.                                                         *)

\* A request handler for which handle() returned true is registered with its
\* pattern.
HandlersRegistered ==
    scope.kind = "mux" => \A k \in Registered.ok : Registered.mux[text[k]].cb = k

\* A request reaches the handler of the longest pattern, of its host if there
\* is one, that the application registered; "/a" is redirected to "/a/" when
\* only that is registered, and nobody else's request is redirected.  (Of "/a"
\* registered after "/a/", see HandlersRegistered.)
RequestsRouted ==
    scope.kind = "mux" => \A host \in {<<"h">>, <<"g">>}, path \in {<<"/">>, <<"/", "a">>, <<"/", "a", "/">>, <<"/", "a", "/", "b">>} :
        LET pats == {p \in Range(text) : PathMatch(p, path) \/ PathMatch(p, host \o path)}
            mine == {p \in pats : p[1] # "/"}
            best == IF mine # {} THEN mine ELSE pats
            slash == {q \in {Append(path, "/"), Append(host \o path, "/")} : q \in Range(text)}
            r == Handler(Registered.mux, host, path)
        IN  /\ (slash = {Append(path, "/")} /\ mine = {} /\ path \notin Range(text)) =>
                   r = <<Redirect(Append(path, "/"))>>
            /\ slash = {} =>
               IF pats = {} THEN r = <<>>
               ELSE \E p \in best : /\ \A o \in best : Len(o) <= Len(p)
                                    /\ r[1].user /\ text[r[1].cb] = p

\* A name "." or ".." that is followed by more than one slash: path_join skips
\* repeated slashes after any other name, but not after these.
DotSlashes(p) == \E i \in DOMAIN p : Has(p, i, <<".", "/", "/">>)

\* path_join leaves no repeated slash, as its tests say of a reference that has
\* them.
SlashesMadeOne ==
    scope.kind = "path" =>
        LET p == PathJoin(<<"/">>, <<>>, text, <<>>) IN \A i \in DOMAIN p : ~Has(p, i, <<"/", "/">>)

\* path_join gives the path that the names of the reference lead to from the
\* directory of the base, "." and ".." taken away and repeated slashes made
\* one, except after a "." or "..".  (A reference of nothing but "." leaves the
\* file name of the base.)
PathsResolved ==
    scope.kind = "path" => \A base \in {<<>>, <<"/">>, <<"/", "b">>, <<"/", "b", "/">>, <<"/", "b", "/", "c">>} :
        LET dots == text # <<>> /\ \A i \in DOMAIN NamesOf(text) : NamesOf(text)[i] = <<".">>
            abs == text # <<>> /\ text[1] = "/"
            dir == IF abs \/ base = <<>> THEN <<>> ELSE NamesOf(EatFile(base))
        IN  IF text = <<>> THEN PathJoin(base, <<>>, text, <<>>) = (IF base = <<>> THEN <<"/">> ELSE base)
            ELSE (dots /\ ~abs => base = <<>> \/ Last(base) = "/") /\ ~DotSlashes(text)
                 => PathJoin(base, <<>>, text, <<>>) = PathOf(Walk(dir, NamesOf(text)), IsDir(text))

\* A path that is matched against the patterns of the configuration has no "."
\* or ".." in it, however its characters were written, and a second cleaning
\* changes nothing unless the first put together a new triplet.
PathsClean ==
    scope.kind = "escape" =>
        LET p == RewriteCleanPath(<<"/">> \o text)
            names == NamesOf(p)
        IN  /\ \A i \in DOMAIN names : names[i] \notin {<<".">>, <<".", ".">>}
            /\ ~DotSlashes(DecodeUnreserved(text, 1))
                 /\ (\A i \in DOMAIN p : IsTriplet(p, i) => CharOf(p[i + 1], p[i + 2]) \notin Unreserved)
                   => RewriteCleanPath(p) = p
            /\ PercentDecode(PercentEncode(text), 1) = text

\* The links of a well-formed field are exactly the ones that say preload and
\* that no anchor or nopush takes back, wherever these stand, and one link
\* does not change how the next is read.
Param == [plain    |-> <<"rel", "=", "preload">>,
          quoted   |-> <<"rel", "=", "\"", "u", " ", "preload", "\"">>,
          other    |-> <<"rel", "=", "\"", "u", "\"">>,
          noanchor |-> <<"anchor", "=", "\"", "\"">>,
          anchor   |-> <<"anchor", "=", "\"", "u", "\"">>,
          nopush   |-> <<"nopush">>,
          ext      |-> <<"u", "=", "\"", ",", ";", "<", "\"">>,
          bare     |-> <<"u">>,
          next     |-> <<>>]
Fields ==
    LET r == FoldLeft(LAMBDA a, p : IF p = "next" THEN [a EXCEPT !.n = @ + 1, !.s = @ \o <<",", " ", "<", "u">> \o
                                                            [i \in 1..a.n |-> "u"] \o <<">">>]
                                    ELSE [a EXCEPT !.s = @ \o <<";", " ">> \o Param[p]],
                      [s |-> <<"<", "u", ">">>, n |-> 1], text)
    IN r.s
LinksFound ==
    scope.kind = "link" =>
        LET cut == SplitStr(text, "next")
            pushed(ps) == Range(ps) \cap {"plain", "quoted"} # {} /\ Range(ps) \cap {"anchor", "nopush"} = {}
            want == FoldLeft(LAMBDA a, k : IF pushed(cut[k]) THEN Append(a, [i \in 1..k |-> "u"]) ELSE a,
                             <<>>, [k \in DOMAIN cut |-> k])
        IN  ParseLinkHeader(Fields, 1) = want

\* A number is read exactly or not at all: no digits, unit or product overflow
\* turn into another number.
Value(s) == FoldLeft(LAMBDA n, c : IF n > 100000 THEN n ELSE n * 10 + Digit[c], 0, s)
NumbersExact ==
    scope.kind = "number" =>
        LET ds == SelectSeq(text, LAMBDA c : c \in DOMAIN Digit)
            unit == From(text, Len(ds) + 1)
            well == ds # <<>> /\ SubSeq(text, 1, Len(ds)) = ds
            fits(m) == well /\ Value(ds) <= MaxInt \div m
        IN  /\ ParseUint(text) = (IF fits(1) /\ unit = <<>> THEN Value(ds) ELSE -1)
            /\ ParseUintWithUnit(text) = (IF fits(1) /\ unit = <<>> THEN Value(ds)
                                          ELSE IF fits(Kilo) /\ unit = <<"k">> THEN Value(ds) * Kilo ELSE -1)
            /\ ParseDurationWithUnit(text) =
                   (IF fits(1) /\ unit \in {<<>>, <<"s">>} THEN Value(ds) * 1000
                    ELSE IF fits(1) /\ unit = <<"m", "s">> THEN Value(ds)
                    ELSE IF fits(60) /\ unit = <<"m">> THEN Value(ds) * 60000
                    ELSE IF fits(3600) /\ unit = <<"h">> THEN Value(ds) * 3600000 ELSE -1)
            /\ ParseHttpStatusCode(text) \in {-1} \cup 100..999

\* TE contains trailers when one member of the list is exactly that.
TrailersFound ==
    scope.kind = "te" =>
        (ContainsTrailers(text, 1) <=>
            \E m \in Range(SplitStr(text, ",")) : SelectSeq(m, LAMBDA c : c # " ") = <<"trailers">>)

\* What was encoded is decoded, for every length modulo 3.
Base64RoundTrip == scope.kind = "base64" => Decode64(Encode64(text), <<>>) = text

\* The text algorithms compute what they are meant to.
TextSound ==
    /\ PathsResolved /\ PathsClean /\ LinksFound /\ NumbersExact
    /\ TrailersFound /\ Base64RoundTrip /\ RequestsRouted

=============================================================================
