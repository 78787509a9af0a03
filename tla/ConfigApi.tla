------------------------------ MODULE ConfigApi -------------------------------
(* nghttpx: the backends are configured at start and replaced by requests to  *)
(* the API endpoint; the certificates are entered at start.  One request at a *)
(* time is followed through APIDownstreamConnection.                          *)
EXTENDS Routing

CONSTANTS
    StartWith,      \* the options the program was started with
    Names,          \* names in certificates
    Hosts, Paths,   \* what requests may ask for
    MaxBody,        \* api-max-request-body, in lines
    MaxNames,       \* certificates
    Scopes          \* [certs: names are entered, bad: bodies may be wrong,
                    \*  methods, requests: how many requests,
                    \*  lines: backend= options [pat, attr, redirect, group, weight]]

VARIABLES
    api,            \* the configuration in use and the request
    scope

vars == <<api, scope>>

NoRequest == [at |-> "none", shut |-> FALSE, fd |-> FALSE, endpoint |-> "",
              body |-> <<>>, recv |-> 0, reply |-> 0]

Load(lines) == Configure(FoldLeft(AddBackend, EmptyConf, lines))

Init ==
    /\ scope \in Scopes
    /\ api = [conf |-> Load(StartWith), from |-> StartWith, req |-> NoRequest,
              tree |-> EmptyTree, certs |-> <<>>, names |-> <<>>, left |-> scope.requests]

\* cert_lookup_tree_add_ssl_ctx(): certificates of one name share an index
Shared(a, n) ==
    LET k == Len(api.names) + 1
    IN  [api EXCEPT !.tree = a.l, !.names = Append(@, n),
                    !.certs = CASE a.idx = 0 -> @
                                [] a.idx > Len(@) -> Append(@, <<k>>)
                                [] OTHER -> [@ EXCEPT ![a.idx] = Append(@, k)]]

AddSslCtx ==
    /\ scope.certs /\ Len(api.names) < MaxNames
    /\ \E n \in Names :
         api' = Shared(AddCert(api.tree, n, Len(api.certs) + 1), n)

\* send_reply(): nothing of the request is read any more
SendReply(v, status) == [v EXCEPT !.req.shut = TRUE, !.req.reply = status]

(* push_request_headers(): the path, the method and the announced length are  *)
(* checked; the body of POST and PUT goes to a temporary file.                *)
PushRequestHeaders ==
    /\ api.left > 0 /\ api.req.at = "none"
    /\ \E e \in {"", "backendconfig", "configrevision"}, m \in scope.methods,
          length \in {-1, MaxBody, MaxBody + 1}, tmp \in BOOLEAN :
         LET post    == m \in {"POST", "PUT"}
             allowed == IF e = "backendconfig" THEN post ELSE m = "GET"
             v       == [api EXCEPT !.req = [NoRequest EXCEPT !.at = "body", !.endpoint = e],
                                  !.left = @ - 1]
         IN  /\ ~tmp => scope.bad /\ post
             /\ api' = CASE e = "" -> SendReply(v, 404)
                         [] e # "" /\ ~allowed -> SendReply(v, 405)
                         [] e # "" /\ allowed /\ length > MaxBody -> SendReply(v, 413)
                         [] e # "" /\ allowed /\ length <= MaxBody /\ ~tmp -> SendReply(v, 500)
                         [] OTHER -> [v EXCEPT !.req.fd = post]

\* a backend option, a comment or another option, no option, an unended line
Lines ==
    [kind : {"backend"}, backend : scope.lines]
        \cup [kind : {"other"} \cup (IF scope.bad THEN {"bad", "cut"} ELSE {})]

(* push_upload_data_chunk(): a line of the body, the last without its end;    *)
(* writing fails without a file.                                              *)
PushUploadDataChunk ==
    /\ api.req.at = "body" /\ api.req.recv <= MaxBody
    /\ \E l \in Lines :
         LET v == [api EXCEPT !.req.recv = @ + 1]
         IN  /\ api.req.body # <<>> => Last(api.req.body).kind # "cut"
             /\ api' = CASE v.req.shut -> v
                         [] ~v.req.shut /\ v.req.recv > MaxBody -> SendReply(v, 413)
                         [] ~v.req.shut /\ v.req.recv <= MaxBody /\ ~v.req.fd -> SendReply(v, 500)
                         [] OTHER -> [v EXCEPT !.req.body = Append(@, l)]

\* the backend options of a body; a line without its end is not looked at
BackendsOf(body) ==
    LET kept == SelectSeq(body, LAMBDA l : l.kind = "backend")
    IN  [i \in DOMAIN kept |-> kept[i].backend]

NoOption(body) == \E i \in DOMAIN body : body[i].kind = "bad"

(* handle_backendconfig(): a new configuration is built from the backend      *)
(* options of the body, which mmap() shows, and replaces the one in use when   *)
(* all went well.                                                             *)
Replace(v, c) ==
    IF ~c.ok THEN SendReply(v, 400)
    ELSE SendReply([v EXCEPT !.conf = c, !.from = BackendsOf(v.req.body)], 200)

HandleBackendconfig(v, mapped) ==
    IF v.req.recv = 0 THEN SendReply(v, 200)
    ELSE IF ~mapped THEN SendReply(v, 500)
    ELSE IF NoOption(v.req.body) THEN SendReply(v, 400)
    ELSE Replace(v, Load(BackendsOf(v.req.body)))

\* end_upload_data(): the handler of the endpoint
EndUploadData ==
    /\ api.req.at = "body"
    /\ \E mapped \in BOOLEAN :
         LET v == [api EXCEPT !.req.at = "end"]
         IN  /\ ~mapped => scope.bad
             /\ api' = IF v.req.shut THEN v
                       ELSE IF v.req.endpoint = "backendconfig" THEN HandleBackendconfig(v, mapped)
                       ELSE SendReply(v, 200)

\* the request is gone
Done == api.req.at = "end" /\ api' = [api EXCEPT !.req = NoRequest]

Next ==
    /\ AddSslCtx \/ PushRequestHeaders \/ PushUploadDataChunk \/ EndUploadData \/ Done
    /\ UNCHANGED scope

Spec == Init /\ [][Next]_vars

-------------------------------------------------------------------------------
(* Whatever was configured, in whatever order, every request goes to the      *)
(* group whose pattern fits it best, as if the patterns of the configuration  *)
(* in use were searched one by one.                                           *)
RoutedByPattern ==
    LET pats == {api.conf.groups[i].pat : i \in DOMAIN api.conf.groups}
    IN  api.req.at = "none" => \A h \in Hosts, p \in Paths :
            api.conf.groups[MatchHost(api.conf, h, p)].pat = ShouldMatch(pats, h, p)

(* The port, a query, capital letters and what cannot be a host do not change *)
(* where a request goes, or send it to the catch-all group.                   *)
HostNormalised ==
    api.req.at = "none" => \A h \in Hosts \ {<<>>}, p \in Paths :
        LET g == MatchGroup(api.conf, h, p)
            up(c) == IF \E d \in DOMAIN LowerOf : LowerOf[d] = c
                     THEN CHOOSE d \in DOMAIN LowerOf : LowerOf[d] = c ELSE c
        IN  /\ g = MatchHost(api.conf, h, p)
            /\ g = MatchGroup(api.conf, h \o <<":", "1">>, p \o <<"?", "/", "#">>)
            /\ g = MatchGroup(api.conf, [i \in DOMAIN h |-> up(h[i])], Append(p, "#"))
            /\ MatchGroup(api.conf, <<"[">> \o h, p) \in CatchAll(api.conf)
            /\ MatchGroup(api.conf, Append(h, "/"), p) \in CatchAll(api.conf)
            /\ MatchGroup(api.conf, h, <<>>) = MatchHost(api.conf, h, <<"/">>)

(* The configuration in use is what one accepted body says, not a mixture:    *)
(* its groups are the patterns of that body; the backends of a group agree    *)
(* on what they must share, and those of one weight group on the weight.      *)
ConfigurationWhole ==
    LET c     == api.conf
        pat(b) == IF "/" \in ToSet(b.pat) THEN b.pat ELSE Append(b.pat, "/")
    IN  /\ c.ok /\ Cardinality(CatchAll(c)) = 1
        /\ api.from # <<>> => {c.groups[i].pat : i \in DOMAIN c.groups} = {pat(b) : b \in ToSet(api.from)}
        /\ \A i \in DOMAIN c.groups :
             LET mine == SelectSeq(api.from, LAMBDA b : pat(b) = c.groups[i].pat)
             IN  api.from # <<>> =>
                     /\ Len(c.groups[i].addrs) = Len(mine)
                     /\ c.groups[i].redirect = \E b \in ToSet(mine) : b.redirect
                     /\ \A b \in ToSet(mine) : b.attr \in {"none", c.groups[i].attr}
                     /\ \A x, y \in ToSet(c.groups[i].addrs) :
                            x.weight > 0 /\ (x.group = y.group => x.weight = y.weight)

(* A TLS client is shown a certificate of the name that fits its host best,   *)
(* and none when no name fits; certificates of one name stay together.        *)
CertificateFits ==
    /\ \A i, j \in DOMAIN api.names :
         (\E k \in DOMAIN api.certs : {i, j} \subseteq ToSet(api.certs[k]))
             <=> api.names[i] = api.names[j]
    /\ scope.certs => \A h \in Hosts \ {<<>>} :
         LET idx == LookupCert(api.tree, h)
             fit == ShouldShow(ToSet(api.names), h)
         IN  IF fit = {} THEN idx = 0
             ELSE idx # 0 /\ \A k \in ToSet(api.certs[idx]) : api.names[k] \in fit

(* A name that tls_hostname_match() accepts for a backend is one a            *)
(* certificate may be shown for, and the '*' never stands for a dot.          *)
WildcardOneLabel ==
    scope.certs => \A n \in Names, h \in Hosts \ {<<>>} :
        HostnameMatch(n, h) =>
            \/ n = h
            \/ NameMatches(n, h) /\ Cardinality({i \in DOMAIN n : n[i] = "."})
                                        = Cardinality({i \in DOMAIN h : h[i] = "."})

(* Every request to the API that ended was answered, and only an answer of    *)
(* 200 to a body changes the configuration.                                   *)
Answered == api.req.at = "end" => api.req.reply # 0

(* nghttpx routes by pattern and certificate as if it searched the lists, and *)
(* the API replaces the configuration as a whole or not at all.               *)
RoutingSound ==
    /\ RoutedByPattern /\ HostNormalised /\ ConfigurationWhole
    /\ CertificateFits /\ WildcardOneLabel /\ Answered
===============================================================================
