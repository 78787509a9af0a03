------------------------------- MODULE Routing --------------------------------
(* nghttpx: which backend group a request goes to and which certificate a     *)
(* TLS client is shown.  Both are looked up in radix trees (Router), built    *)
(* from the patterns of the configuration and the names of the certificates.  *)
(* Texts are sequences of characters.  An index is 0 where the code has -1.   *)
EXTENDS Integers, Sequences, SequencesExt, FiniteSets, TLC

CONSTANT LowerOf        \* the capital letters, each with its small one

Lower(c) == IF c \in DOMAIN LowerOf THEN LowerOf[c] ELSE c

None == <<"">>

-------------------------------------------------------------------------------
(* Router.  A node is named by the text from the root to its end, so its own  *)
(* text is what follows its parent's name.                                    *)

EmptyRouter == <<>> :> [index |-> 0, wildcard |-> 0]

FindNextNode(t, node, c) ==
    LET under == {x \in DOMAIN t : IsStrictPrefix(node, x) /\ x[Len(node) + 1] = c}
    IN  IF under = {} THEN None
        ELSE CHOOSE x \in under : \A y \in under : Len(x) <= Len(y)

\* the index of a new node, as `index` or as `wildcard_index`
Entry(idx, w) == [index |-> IF w THEN 0 ELSE idx, wildcard |-> IF w THEN idx ELSE 0]

RECURSIVE AddFrom(_, _, _, _, _)
(* The loop of add_route() at `node`: a node that differs from the pattern    *)
(* before its end is split in two, and the upper one has no index.            *)
AddFrom(t, node, pat, idx, w) ==
    LET nx  == FindNextNode(t, node, pat[Len(node) + 1])
        mid == LongestCommonPrefix({nx, pat})
        old == IF w THEN t[nx].wildcard ELSE t[nx].index
        cut == (mid :> [index |-> 0, wildcard |-> 0]) @@ t
    IN  IF nx = None THEN [t |-> (pat :> Entry(idx, w)) @@ t, idx |-> idx]
        ELSE IF nx = pat
        THEN IF old # 0 THEN [t |-> t, idx |-> old]
             ELSE [t |-> IF w THEN [t EXCEPT ![pat].wildcard = idx]
                              ELSE [t EXCEPT ![pat].index = idx], idx |-> idx]
        ELSE IF mid = nx THEN AddFrom(t, nx, pat, idx, w)
        ELSE [t |-> (pat :> Entry(idx, w)) @@ cut, idx |-> idx]

\* add_route(): the router, and the index the pattern has
AddRoute(t, pat, idx, w) == AddFrom(t, <<>>, pat, idx, w)

RECURSIVE CompleteFrom(_, _, _)
\* match_complete(): the node in which the text ends
CompleteFrom(t, node, q) ==
    LET nx == FindNextNode(t, node, q[Len(node) + 1])
    IN  IF q = node THEN node
        ELSE IF nx = None THEN None
        ELSE IF IsPrefix(q, nx) THEN nx
        ELSE IF IsPrefix(nx, q) THEN CompleteFrom(t, nx, q)
        ELSE None

(* match_partial() as a slip would have it: a pattern without '/' at its end  *)
(* matches what is below it, too.                                             *)
Passed_AnyPrefix(t, node, found) ==
    IF t[node].wildcard # 0 THEN t[node].wildcard
    ELSE IF t[node].index # 0 THEN t[node].index
    ELSE found

\* match_partial(): what matches when a node was passed and the path goes on
Passed(t, node, found) ==
    IF t[node].wildcard # 0 THEN t[node].wildcard
    ELSE IF t[node].index # 0 /\ Last(node) = "/" THEN t[node].index
    ELSE found

\* match_partial() at the end of the path; a pattern may have one '/' more
Ended(t, node, q, found) ==
    LET slash == FindNextNode(t, node, "/")
    IN  IF q = node
        THEN IF t[node].index # 0 THEN t[node].index
             ELSE IF slash = Append(node, "/") /\ t[slash].index # 0 THEN t[slash].index
             ELSE found
        ELSE IF node = Append(q, "/") /\ t[node].index # 0 THEN t[node].index
        ELSE found

RECURSIVE PartialFrom(_, _, _, _)
\* match_partial(): the index of the longest match from `node` on
PartialFrom(t, node, q, found) ==
    LET seen == Passed(t, node, found)
        nx   == FindNextNode(t, node, q[Len(node) + 1])
    IN  IF IsPrefix(q, node) THEN Ended(t, node, q, found)
        ELSE IF ~IsPrefix(node, q) THEN found
        ELSE IF nx = None THEN seen
        ELSE PartialFrom(t, nx, q, seen)

\* Router::match(host, path)
Match(t, host, path) ==
    LET start == CompleteFrom(t, <<>>, host)
        nx    == FindNextNode(t, <<>>, path[1])
    IN  IF start = None THEN 0
        ELSE IF host # <<>> THEN PartialFrom(t, start, host \o path, 0)
        ELSE IF nx = None THEN 0
        ELSE PartialFrom(t, nx, path, 0)

\* Router::match(s)
MatchWhole(t, s) ==
    LET node == CompleteFrom(t, <<>>, s) IN IF node = s THEN t[node].index ELSE 0

RECURSIVE PrefixFrom(_, _, _)
(* match_prefix(): the next node below `node` with an index, on the way of    *)
(* `q`; the text may also end in a node without one.                          *)
PrefixFrom(t, node, q) ==
    LET nx == FindNextNode(t, node, q[Len(node) + 1])
    IN  IF Len(node) = Len(q) THEN None
        ELSE IF nx = None THEN None
        ELSE IF ~IsPrefix(nx, q) THEN None
        ELSE IF nx = q \/ t[nx].index # 0 THEN nx
        ELSE PrefixFrom(t, nx, q)

-------------------------------------------------------------------------------
(* The backend groups.                                                        *)

\* the position of the first c, one past the end when there is none
Find(s, c) == LET at == {i \in DOMAIN s : s[i] = c}
              IN  IF at = {} THEN Len(s) + 1 ELSE CHOOSE i \in at : \A j \in at : i <= j

EmptyConf == [groups |-> <<>>, router |-> EmptyRouter, rev |-> EmptyRouter,
              wildcards |-> <<>>, ok |-> TRUE]

\* the path without its last '*', and whether it had one
Path(p) == IF Last(p) = "*" THEN [text |-> Front(p), wild |-> TRUE]
           ELSE [text |-> p, wild |-> FALSE]

(* parse_mapping(), the second half: the pattern of a new group is entered in *)
(* the router, or, with a wildcard host, in the router of that host, which    *)
(* the reversed host leads to.                                                *)
EnterPattern(c, pat, idx) ==
    LET at    == Find(pat, "/")
        host  == SubSeq(pat, 2, at - 1)
        path  == Path(SubSeq(pat, at, Len(pat)))
        whole == Path(pat)
        known == {i \in DOMAIN c.wildcards : c.wildcards[i].host = host}
        i     == CHOOSE x \in known : TRUE
    IN  IF pat[1] # "*"
        THEN [c EXCEPT !.router = AddRoute(@, whole.text, idx, whole.wild).t]
        ELSE IF known = {}
        THEN [c EXCEPT !.wildcards = Append(@, [host |-> host, router |->
                             AddRoute(EmptyRouter, path.text, idx, path.wild).t]),
                       !.rev = AddRoute(@, Reverse(host), Len(c.wildcards) + 1, FALSE).t]
        ELSE [c EXCEPT !.wildcards[i].router = AddRoute(@, path.text, idx, path.wild).t]

(* parse_mapping(): a backend joins the group of its pattern.  What all of a  *)
(* group must agree on (affinity, mruby file, timeouts: `attr`) is given by   *)
(* some of its backends, and a second, different value is an error.           *)
AddBackend(c, b) ==
    LET pat   == IF "/" \in ToSet(b.pat) THEN b.pat ELSE Append(b.pat, "/")
        known == {i \in DOMAIN c.groups : c.groups[i].pat = pat}
        i     == CHOOSE x \in known : TRUE
        addr  == [group |-> b.group, weight |-> b.weight]
        new   == [pat |-> pat, attr |-> b.attr, redirect |-> b.redirect, addrs |-> <<addr>>]
    IN  IF ~c.ok THEN c
        ELSE IF known = {}
        THEN EnterPattern([c EXCEPT !.groups = Append(@, new)], pat, Len(c.groups) + 1)
        ELSE IF b.attr # "none" /\ c.groups[i].attr \notin {"none", b.attr}
        THEN [c EXCEPT !.ok = FALSE]
        ELSE [c EXCEPT !.groups[i].attr = IF b.attr = "none" THEN @ ELSE b.attr,
                       !.groups[i].redirect = @ \/ b.redirect,
                       !.groups[i].addrs = Append(@, addr)]

Given(g, name) == {g.addrs[i].weight : i \in {j \in DOMAIN g.addrs : g.addrs[j].group = name}}
                      \ {0}

CatchAll(c) == {i \in DOMAIN c.groups : c.groups[i].pat = <<"/">>}

RECURSIVE Configure(_)
(* configure_downstream_group(): no backend at all means the default one;     *)
(* otherwise there must be a catch-all group.  The addresses of one weight    *)
(* group have the weight that some of them give, 1 when none does.            *)
Configure(c) ==
    LET Weigh(g) == [g EXCEPT !.addrs = [k \in DOMAIN @ |->
                        [@[k] EXCEPT !.weight =
                            LET w == Given(g, g.addrs[k].group)
                            IN  IF w = {} THEN 1 ELSE CHOOSE x \in w : TRUE]]]
        default == [pat |-> <<>>, attr |-> "none", redirect |-> FALSE, group |-> "", weight |-> 0]
    IN  IF c.groups = <<>> THEN Configure(AddBackend(c, default))
        ELSE IF \/ CatchAll(c) = {}
                \/ \E g \in ToSet(c.groups) : \E k \in DOMAIN g.addrs :
                       Cardinality(Given(g, g.addrs[k].group)) > 1
        THEN [c EXCEPT !.ok = FALSE]
        ELSE [c EXCEPT !.groups = [k \in DOMAIN @ |-> Weigh(@[k])]]

RECURSIVE BestWildcard(_, _, _, _, _)
(* The loop over the wildcard hosts, from the shortest suffix on: the last    *)
(* whose router knows the path is the best.                                   *)
BestWildcard(c, node, revhost, path, best) ==
    LET nx    == PrefixFrom(c.rev, node, revhost)
        group == Match(c.wildcards[c.rev[nx].index].router, <<>>, path)
    IN  IF nx = None \/ (nx # None /\ c.rev[nx].index = 0) THEN best
        ELSE BestWildcard(c, nx, revhost, path, IF group # 0 THEN group ELSE best)

\* an index, or the next best
OrElse(i, j) == IF i # 0 THEN i ELSE j

\* match_downstream_addr_group_host()
MatchHost(c, host, path) ==
    LET wild == IF c.wildcards = <<>> \/ host = <<>> THEN 0
                ELSE BestWildcard(c, <<>>, Reverse(Tail(host)), path, 0)
    IN  OrElse(Match(c.router, host, path),
               OrElse(wild, OrElse(Match(c.router, <<>>, path),
                                   CHOOSE i \in CatchAll(c) : TRUE)))

(* match_downstream_addr_group(): the port and the query are cut off, and the *)
(* host is lowered.                                                           *)
MatchGroup(c, hostport, rawpath) ==
    LET upTo     == SubSeq(rawpath, 1, Find(rawpath, "#") - 1)
        cut      == SubSeq(upTo, 1, Find(upTo, "?") - 1)
        path     == IF cut = <<>> \/ (cut # <<>> /\ cut[1] # "/") THEN <<"/">> ELSE cut
        ipv6     == hostport # <<>> /\ hostport[1] = "["
        close    == Find(hostport, "]")
        colon    == Find(hostport, ":")
        host     == SubSeq(hostport, 1, IF ipv6 THEN close ELSE colon - 1)
        bad      == \/ "/" \in ToSet(hostport)
                    \/ ipv6 /\ close > Len(hostport)
                    \/ ipv6 /\ close < Len(hostport) /\ hostport[close + 1] # ":"
                    \/ ~ipv6 /\ colon = 1 /\ hostport # <<>>
    IN  IF bad THEN CHOOSE i \in CatchAll(c) : TRUE
        ELSE MatchHost(c, [i \in DOMAIN host |-> Lower(host[i])], path)

-------------------------------------------------------------------------------
(* The certificates.                                                          *)

EmptyTree == [exact |-> EmptyRouter, rev |-> EmptyRouter, wildcards |-> <<>>]

\* what comes before the '*' is listed in entry w of the wildcards
AddPrefix(l, w, prefix, idx) ==
    LET same == {k \in DOMAIN l.wildcards[w] : l.wildcards[w][k].prefix = prefix}
    IN  IF same # {} THEN [l |-> l, idx |-> l.wildcards[w][CHOOSE k \in same : TRUE].idx]
        ELSE [l |-> [l EXCEPT !.wildcards[w] = Append(@, [prefix |-> prefix, idx |-> idx])],
              idx |-> idx]

\* a suffix that is new gets an entry of the wildcards
AddSuffix(l, added, suffix, prefix, idx) ==
    IF added.idx = Len(l.wildcards) + 1
    THEN AddPrefix([l EXCEPT !.rev = added.t, !.wildcards = Append(@, <<>>)], added.idx,
                   prefix, idx)
    ELSE AddPrefix(l, MatchWhole(l.rev, suffix), prefix, idx)

AddExact(l, added) == [l |-> [l EXCEPT !.exact = added.t], idx |-> added.idx]

(* add_cert(): names with the same suffix after the '*' share an entry, which *)
(* lists what comes before the '*'.                                           *)
AddCert(l, name, idx) ==
    LET star   == Find(name, "*")
        suffix == Reverse(SubSeq(name, star + 1, Len(name)))
    IN  IF name = <<>> THEN [l |-> l, idx |-> 0]
        ELSE IF star >= Len(name) THEN AddExact(l, AddRoute(l.exact, name, idx, FALSE))
        ELSE AddSuffix(l, AddRoute(l.rev, suffix, Len(l.wildcards) + 1, FALSE), suffix,
                       Reverse(SubSeq(name, 1, star - 1)), idx)

\* one round of lookup(): the prefixes of one suffix; a tie goes to the longer suffix
BestPrefix(ps, nread, rest, best) ==
    FoldLeft(LAMBDA b, p :
                 IF IsSuffix(p.prefix, Tail(rest)) /\ Len(p.prefix) + nread >= b.len
                 THEN [idx |-> p.idx, len |-> Len(p.prefix) + nread] ELSE b,
             best, ps)

RECURSIVE BestCert(_, _, _, _)
BestCert(l, node, revhost, best) ==
    LET nx   == PrefixFrom(l.rev, node, revhost)
        rest == SubSeq(revhost, Len(nx) + 1, Len(revhost))
    IN  IF nx = None \/ (nx # None /\ l.rev[nx].index = 0) \/ rest = <<>> THEN best
        ELSE BestCert(l, nx, revhost,
                      BestPrefix(l.wildcards[l.rev[nx].index], Len(nx), rest, best))

\* lookup()
LookupCert(l, host) ==
    IF host = <<>> THEN 0
    ELSE OrElse(MatchWhole(l.exact, host),
                BestCert(l, <<>>, Reverse(host), [idx |-> 0, len |-> 0]).idx)

(* tls_hostname_match(): a '*' counts in the left-most label of a name of     *)
(* three labels or more, for one character or more of that label.             *)
HostnameMatch(pat, name) ==
    LET star  == Find(pat, "*")
        dot   == Find(pat, ".")
        rest  == SubSeq(pat, dot, Len(pat))
        hdot  == Find(name, ".")
        label == SubSeq(name, 1, hdot - 1)
    IN  IF \/ star > Len(pat) \/ dot > Len(pat) \/ "." \notin ToSet(Tail(rest))
           \/ dot < star \/ IsPrefix(<<"x", "n", "-", "-">>, pat)
        THEN pat = name
        ELSE /\ hdot <= Len(name) /\ rest = SubSeq(name, hdot, Len(name))
             /\ Len(label) >= dot - 1
             /\ IsPrefix(SubSeq(pat, 1, star - 1), label)
             /\ IsSuffix(SubSeq(pat, star + 1, dot - 1), label)

-------------------------------------------------------------------------------
(* What the lookups are for, without the trees.                               *)

\* a path pattern matches: by itself, by its subtree, or by its wildcard
PathMatches(p, path) ==
    IF p.wild THEN IsStrictPrefix(p.text, path)
    ELSE \/ p.text = path \/ p.text = Append(path, "/")
         \/ Last(p.text) = "/" /\ IsPrefix(p.text, path)

\* of two patterns that match, p is the better one
Better(p, q, path) ==
    LET n(x) == IF Len(x.text) > Len(path) THEN Len(path) ELSE Len(x.text)
        k(x) == IF x.text = path THEN 2 ELSE IF x.wild THEN 1 ELSE 0
    IN  n(p) > n(q) \/ (n(p) = n(q) /\ k(p) >= k(q))

HostOf(pat) == SubSeq(pat, 1, Find(pat, "/") - 1)
PathOf(pat) == Path(SubSeq(pat, Find(pat, "/"), Len(pat)))

(* The pattern of a request: with the host it names, else with the longest    *)
(* wildcard host, else without host; and then the longest path.               *)
ShouldMatch(pats, host, path) ==
    LET fits  == {p \in pats : PathMatches(PathOf(p), path)}
        Suff(p) == Tail(HostOf(p))
        exact == {p \in fits : HostOf(p) = host}
        wild  == {p \in fits : /\ HostOf(p) # <<>> /\ p[1] = "*" /\ Suff(p) # <<>>
                               /\ Len(Suff(p)) < Len(host) /\ IsSuffix(Suff(p), host)}
        long  == {p \in wild : \A q \in wild : Len(Suff(p)) >= Len(Suff(q))}
        plain == {p \in fits : HostOf(p) = <<>>}
        from  == CASE exact # {} -> exact
                   [] exact = {} /\ long # {} -> long
                   [] OTHER -> plain
    IN  CHOOSE p \in from : \A q \in from : Better(PathOf(p), PathOf(q), path)

\* a name with one '*' matches, at least one character for the '*'
NameMatches(name, host) ==
    LET star == Find(name, "*")
    IN  /\ star < Len(name) /\ Len(host) >= Len(name)
        /\ IsPrefix(SubSeq(name, 1, star - 1), host)
        /\ IsSuffix(SubSeq(name, star + 1, Len(name)), host)

(* The name whose certificate is shown: the host's own, else the wildcard     *)
(* that says most of it, and of two that say as much the longer suffix.       *)
ShouldShow(names, host) ==
    LET fits == {n \in names : NameMatches(n, host)}
    IN  IF host \in names THEN {host}
        ELSE {n \in fits : \A m \in fits :
                 \/ Len(n) > Len(m)
                 \/ Len(n) = Len(m) /\ Find(n, "*") <= Find(m, "*")}
===============================================================================
