------------------------------ MODULE MCServices -----------------------------
(***************************************************************************)
(* What is built around the library and around an exchange: how nghttpx    *)
(* routes, looks names and TLS sessions up, is configured, reloads and     *)
(* stops; nghttpd, h2load and nghttp; and the functions on text they       *)
(* share.  The relay is here for what has to end.                          *)
(* A behaviour is about one part; x1 is its state and x2 its scope.        *)
(***************************************************************************)
EXTENDS Integers, Sequences, TLC

VARIABLES part, x1, x2

vars == <<part, x1, x2>>

-----------------------------------------------------------------------------
(* An exchange, over HTTP/1 backends *)

Streams == {1, 2, 3}
Conns == {1, 2}
Only(s, n) == [t \in Streams |-> IF t = s THEN n ELSE 0]

Relayed ==
  [streams |-> {1}, host |-> [s \in Streams |-> 1], limit |-> 1,
   body |-> Only(1, 0), empty |-> {}, sized |-> TRUE, reply |-> [s \in Streams |-> 1],
   until |-> "length", tunnel |-> {}, push |-> <<>>, faults |-> {"timeout", "reset"}]

Relay == INSTANCE Relay WITH
    Hosts <- {1}, MaxRetry <- 2, RespBuf <- 1, relay <- x1, scope <- x2,
    Scopes <-
      {[Relayed EXCEPT !.body = Only(1, 2), !.faults = @ \cup {"partial", "close", "connect", "none"}],
       [Relayed EXCEPT !.streams = {1, 2, 3}, !.reply = Only(1, 0),
                       !.faults = @ \cup {"none", "refused", "gone"}],
       [Relayed EXCEPT !.tunnel = {1}, !.body = Only(1, 2), !.reply = Only(1, 2)],
       [Relayed EXCEPT !.streams = {1, 2}, !.push = [s \in {2} |-> 1], !.limit = 2,
                       !.until = "eof"]}

-----------------------------------------------------------------------------
(* Lookups *)

Hosts == {1, 2}
Clients == {1, 2}
Queries == {1, 2, 3}

Lookup == INSTANCE Names WITH
    Scopes <- {[host |-> <<1, 1, 2>>, busy |-> FALSE]},
    dns <- x1, scope <- x2

Cache(rf, d, c, f, u, t, b) ==
  [refuse |-> rf, drop |-> d, cancel |-> c, frag |-> f, full |-> u, tls |-> t, batch |-> b]

SessionCache == INSTANCE SessionCache WITH
    MaxTry <- 3, mc <- x1, scope <- x2,
    Scopes <- {Cache(TRUE, TRUE, FALSE, FALSE, FALSE, TRUE, 2),
               Cache(FALSE, FALSE, TRUE, TRUE, FALSE, FALSE, 2),
               Cache(FALSE, TRUE, FALSE, FALSE, TRUE, FALSE, 1)}

-----------------------------------------------------------------------------
(* Processes: two addresses, two binaries, three worker processes; two     *)
(* threads in a worker process                                             *)

Masters == {1, 2}
Pids == {1, 2, 3}
Workers == {1, 2}

Signals(h, e, q, c, f) ==
  [hups |-> h, exec |-> e, quit |-> q, crash |-> c, fail |-> f, late |-> FALSE]

Processes == INSTANCE Processes WITH
    Addrs <- {"a", "b"}, Fds <- 1 .. 5, sys <- x1, scope <- x2,
    Scopes <- {Signals(2, FALSE, TRUE, FALSE, FALSE), Signals(1, TRUE, FALSE, FALSE, FALSE),
               Signals(1, FALSE, TRUE, TRUE, FALSE), Signals(1, TRUE, FALSE, FALSE, TRUE)}

Process(s, a, o, st, e, r) ==
  [single |-> s, api |-> a, ocsp |-> o, startup |-> st, emfile |-> e, replace |-> r,
   noverify |-> FALSE]

WorkerProcess == INSTANCE WorkerProcess WITH
    MaxConns <- 1, MaxArrivals <- 2, Certs <- {1, 2}, wp <- x1, scope <- x2,
    Scopes <- {Process(FALSE, FALSE, FALSE, FALSE, TRUE, FALSE),
               Process(TRUE, FALSE, TRUE, TRUE, TRUE, FALSE),
               Process(FALSE, TRUE, FALSE, FALSE, FALSE, TRUE),
               Process(FALSE, FALSE, TRUE, TRUE, FALSE, FALSE),
               Process(TRUE, FALSE, FALSE, FALSE, FALSE, TRUE)}

Tickets == INSTANCE Tickets WITH
    Threads <- {1, 2}, MaxTickets <- 2, MaxRenewals <- 4, MaxRetry <- 2, MaxFail <- 2,
    Scopes <- [memcached : BOOLEAN, fail : BOOLEAN], tk <- x1, scope <- x2

-----------------------------------------------------------------------------
(* h2load, with two clients, and nghttp *)

Load(m, h, u, s, n, t, f) ==
  [mode |-> m, h1 |-> h, upload |-> u, script |-> s, n |-> n, timeout |-> t, faults |-> f]

LoadTest == INSTANCE LoadTest WITH
    Total <- 3, MaxConc <- 2, Addrs <- 2, lt <- x1, scope <- x2,
    Scopes <- {Load("count", FALSE, FALSE, <<>>, 0, FALSE, TRUE),
               Load("rate", TRUE, FALSE, <<>>, 0, FALSE, TRUE),
               Load("count", TRUE, TRUE, <<>>, 0, FALSE, FALSE),
               Load("count", FALSE, FALSE, <<>>, 0, TRUE, FALSE),
               Load("count", FALSE, FALSE, <<0, 1, 1>>, 3, FALSE, FALSE),
               Load("timed", FALSE, FALSE, <<>>, 1, FALSE, TRUE)}

Fetch(t, g, b, a, p, m, d, u, f) ==
  [tls |-> t, upgrade |-> g, body |-> b, assets |-> a, push |-> p, multiply |-> m,
   deps |-> d, uris |-> u, faults |-> f]

FetchClient == INSTANCE FetchClient WITH
    Addrs <- 2, MaxReqs <- 3, Links <- {<<>>, <<"b">>, <<"b", "a">>, <<"x", "c">>},
    Foreign <- {"x"}, fc <- x1, scope <- x2,
    Scopes <- {Fetch(TRUE, FALSE, "none", TRUE, FALSE, 1, TRUE, <<"a">>, TRUE),
               Fetch(FALSE, TRUE, "none", TRUE, TRUE, 1, FALSE, <<"a", "a">>, FALSE),
               Fetch(FALSE, TRUE, "data", FALSE, FALSE, 1, FALSE, <<"a">>, TRUE),
               Fetch(FALSE, FALSE, "data", FALSE, FALSE, 2, FALSE, <<"a">>, FALSE),
               Fetch(FALSE, FALSE, "expect", FALSE, FALSE, 1, FALSE, <<"a">>, FALSE)}

-----------------------------------------------------------------------------
(* Patterns, certificate names, and the API that replaces the backends *)

Backend(p, a, r, g, w) == [pat |-> p, attr |-> a, redirect |-> r, group |-> g, weight |-> w]
Pattern(p) == Backend(p, "none", FALSE, "", 0)
Api(c, b, m, n, l) == [certs |-> c, bad |-> b, methods |-> m, requests |-> n, lines |-> l]

ConfigApi == INSTANCE ConfigApi WITH
    LowerOf <- [A |-> "a"], StartWith <- <<Pattern(<<>>)>>, MaxBody <- 3, MaxNames <- 3,
    Names <- {<<"a">>, <<"*", ".", "a">>, <<"*", "a">>, <<"a", "*", ".", "a">>,
              <<"a", "b", "*", "a">>, <<"*", ".", "b", ".", "a">>, <<"a", "*">>},
    Hosts <- {<<>>, <<"a">>, <<"b", ".", "a">>, <<"a", "b", ".", "a">>,
              <<"a", ".", "b", ".", "a">>, <<"b">>, <<"a", "b", "a">>, <<"a", "b">>},
    Paths <- {<<"/">>, <<"/", "a">>, <<"/", "a", "/">>, <<"/", "a", "b">>,
              <<"/", "a", "/", "b">>, <<"/", "b">>},
    Scopes <-
      {Api(TRUE, FALSE, {"GET"}, 0, {}),
       Api(FALSE, FALSE, {"POST"}, 1,
           {Pattern(p) : p \in {<<>>, <<"/", "a">>, <<"/", "a", "/">>, <<"/", "a", "*">>,
                                <<"/", "a", "/", "*">>, <<"a">>, <<"a", "/", "a", "b">>,
                                <<"*", ".", "a">>, <<"*", "a", "/", "a">>}}),
       Api(FALSE, FALSE, {"PUT"}, 1,
           {Pattern(<<>>), Backend(<<"a">>, "x", TRUE, "g", 1),
            Backend(<<"a">>, "y", FALSE, "h", 0), Backend(<<"a">>, "none", FALSE, "g", 2)}),
       Api(FALSE, TRUE, {"GET", "POST", "DELETE"}, 1, {Pattern(<<>>), Pattern(<<"a">>)})},
    api <- x1, scope <- x2

-----------------------------------------------------------------------------
(* nghttpd *)

Serving(t, e, y, p, w, k, c, pp, kk) ==
  [tls |-> t, echo |-> e, early |-> y, push |-> p, slow |-> w, ticks |-> k, conns |-> c,
   paths |-> pp, kinds |-> kk]

FileServer == INSTANCE FileServer WITH
    Handlers <- {1, 2}, Slots <- {1, 2}, Paths <- {"a", "b"}, Fds <- {1, 2, 3}, Thres <- 1,
    MaxChanges <- 1, fs <- x1, scope <- x2,
    Scopes <-
      {Serving(TRUE, TRUE, FALSE, FALSE, FALSE, 0, {1}, {"a"}, {"file"}),
       Serving(FALSE, FALSE, TRUE, FALSE, FALSE, 1, {1}, {"a"}, {"file"}),
       Serving(FALSE, FALSE, FALSE, TRUE, TRUE, 0, {1}, {"a"},
               {"bad", "file", "missing", "silent", "status"}),
       Serving(FALSE, FALSE, FALSE, FALSE, FALSE, 0, {1, 2}, {"a", "b"}, {"nobody"})}

-----------------------------------------------------------------------------
(* Text: every sequence of pieces up to a length *)

Text(k, p, l) == [kind |-> k, pieces |-> p, len |-> l]

UriText == INSTANCE UriText WITH
    MaxInt <- 127, Kilo <- 16, text <- x1, scope <- x2,
    Code <- [c \in {"/", ".", "%", "e", "a"} |->
               CASE c = "/" -> <<"2", "F">> [] c = "." -> <<"2", "E">> [] c = "%" -> <<"2", "5">>
                 [] c = "e" -> <<"6", "5">> [] c = "a" -> <<"6", "1">>],
    Scopes <-
      {Text("path", {"/", ".", "a"}, 6),
       Text("escape", {"/", ".", "%", "2", "e"}, 5),
       Text("link", {"plain", "quoted", "other", "noanchor", "anchor", "nopush", "ext", "bare",
                     "next"}, 4),
       Text("number", {"0", "1", "2", "7", "9", "k", "m", "s", "h"}, 4),
       Text("te", {"trailers", "x", " ", ","}, 5),
       Text("mux", {<<"/">>, <<"/", "a">>, <<"/", "a", "/">>, <<"/", "a", "/", "b">>,
                    <<"h", "/", "a", "/">>, <<"h", "/">>}, 4),
       Text("base64", {0, 1, 130, 255}, 5)}

-----------------------------------------------------------------------------
Init ==
  \/ part = "relay" /\ Relay!Init
  \/ part = "names" /\ Lookup!Init
  \/ part = "cache" /\ SessionCache!Init
  \/ part = "processes" /\ Processes!Init
  \/ part = "worker" /\ WorkerProcess!Init
  \/ part = "tickets" /\ Tickets!Init
  \/ part = "load" /\ LoadTest!Init
  \/ part = "fetch" /\ FetchClient!Init
  \/ part = "config" /\ ConfigApi!Init
  \/ part = "files" /\ FileServer!Init
  \/ part = "text" /\ UriText!Init

Next ==
  /\ UNCHANGED part
  /\ \/ part = "relay" /\ Relay!Next
     \/ part = "names" /\ Lookup!Next
     \/ part = "cache" /\ SessionCache!Next
     \/ part = "processes" /\ Processes!Next
     \/ part = "worker" /\ WorkerProcess!Next
     \/ part = "tickets" /\ Tickets!Next
     \/ part = "load" /\ LoadTest!Next
     \/ part = "fetch" /\ FetchClient!Next
     \/ part = "config" /\ ConfigApi!Next
     \/ part = "files" /\ FileServer!Next
     \/ part = "text" /\ UriText!Next

\* The Fairness of each part.
Fairness ==
  /\ \A s \in Streams : /\ []<>(part = "relay" => ~Relay!ResetDue(s))
                        /\ []<>(part = "relay" => ~Relay!TimeoutDue(s))
                        /\ []<>(part = "relay" => ~Relay!DataDue(s))
  /\ \A k \in Conns : /\ []<>(part = "relay" => ~Relay!Silent(k))
                      /\ []<>(part = "relay" => ~Relay!Connecting(k))
  /\ \A h \in Hosts : []<>(part = "names" => Lookup!Answered(h))
  /\ WF_vars(part = "cache" /\ SessionCache!Serve /\ UNCHANGED part)
  /\ \A p \in Pids :
       /\ WF_vars(part = "processes" /\ (Processes!IpcRead(p) \/ Processes!IpcClosed(p))
                  /\ UNCHANGED part)
       /\ WF_vars(part = "processes" /\ Processes!Disconnect(p) /\ UNCHANGED part)
  /\ \A i \in Masters :
       /\ WF_vars(part = "processes" /\ Processes!ChildExited(i) /\ UNCHANGED part)
       /\ WF_vars(part = "processes" /\ Processes!QuitDelivered(i) /\ UNCHANGED part)
  /\ \A i \in Workers :
       /\ WF_vars(part = "worker" /\ WorkerProcess!ProcessEvents(i) /\ UNCHANGED part)
       /\ WF_vars(part = "worker" /\ WorkerProcess!ConnectionEnds(i) /\ UNCHANGED part)
  /\ WF_vars(part = "worker" /\ WorkerProcess!Joined /\ UNCHANGED part)
  /\ WF_vars(part = "worker" /\ WorkerProcess!SleepEnds /\ UNCHANGED part)
  /\ WF_vars(part = "worker" /\ WorkerProcess!OcspExit /\ UNCHANGED part)
  /\ WF_vars(part = "load" /\ LoadTest!MakeClients /\ UNCHANGED part)
  /\ \A k \in Clients :
       /\ WF_vars(part = "load" /\ LoadTest!Connected(k) /\ UNCHANGED part)
       /\ WF_vars(part = "load" /\ LoadTest!StreamClosed(k) /\ UNCHANGED part)
       /\ WF_vars(part = "load" /\ LoadTest!Ends(k) /\ UNCHANGED part)
       /\ WF_vars(part = "load" /\ (LoadTest!MsgComplete(k) \/ LoadTest!Uploaded(k))
                  /\ UNCHANGED part)
       /\ WF_vars(part = "load" /\ LoadTest!ScriptTimer(k) /\ UNCHANGED part)
  /\ WF_vars(part = "fetch" /\ FetchClient!Next /\ UNCHANGED part)
  /\ []<>(part = "fetch" => FetchClient!Answered)

Spec == Init /\ [][Next]_vars /\ Fairness

-----------------------------------------------------------------------------
\* Requests are understood as they were meant: routed to the group whose pattern
\* fits best, whatever was configured in whatever order (ConfigApi), and paths,
\* links, numbers and encodings read as their definitions say (UriText).
RequestsUnderstood ==
  /\ part = "config" => ConfigApi!RoutingSound
  /\ part = "text" => UriText!TextSound


\* Neither a reload nor a new binary leaves a moment in which a configured
\* address is not served, and one worker process is in charge (Processes); a
\* worker process drains before it ends (WorkerProcess); and the session tickets
\* its threads issue open on every thread with keys as new (Tickets).
ProcessesSound ==
  /\ part = "processes" => Processes!ProcessesSound
  /\ part = "worker" => WorkerProcess!WorkersSound
  /\ part = "tickets" => Tickets!TicketsOpen

\* nghttpd answers each request from an open file and leaks none (FileServer);
\* h2load accounts for every request it was asked to make, however connections
\* end (LoadTest); and nghttp fetches each resource once and counts what it
\* fetched (FetchClient).
ToolsSound ==
  /\ part = "files" => FileServer!ServerSound
  /\ part = "load" => LoadTest!LoadSound
  /\ part = "fetch" => FetchClient!FetchSound

Pending(n) ==
  \/ part = "relay" /\ n \in Streams /\ Relay!Pending(n)
  \/ part = "names" /\ n \in Queries /\ Lookup!Pending(n)
  \/ part = "cache" /\ n \in Clients /\ SessionCache!Pending(n)
  \/ part = "processes" /\ n \in Masters /\ Processes!Pending(n)
  \/ part = "worker" /\ WorkerProcess!Pending
  \/ part = "load" /\ LoadTest!Pending
  \/ part = "fetch" /\ FetchClient!Pending

=============================================================================
