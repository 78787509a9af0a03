-------------------------------- MODULE Tickets --------------------------------
(* The session ticket keys of a worker process: the main thread renews them   *)
(* every hour, or fetches them from memcached, and stores them into one       *)
(* worker thread after the other, while the threads issue and open tickets.   *)
(*                                                                            *)
(* A key is the number of its generation, a list of keys a sequence whose     *)
(* first key encrypts; <<>> stands for no keys (a null pointer).              *)
EXTENDS Integers, Sequences, SequencesExt, FiniteSets

CONSTANTS
    Threads,        \* worker threads 1 .. n
    MaxTickets,     \* hours in tls.session_timeout
    MaxRenewals,    \* renewals considered
    MaxRetry, MaxFail, \* tls-ticket-key-memcached-max-retry and -max-fail
    Scopes          \* [memcached, fail]

VARIABLES
    tk,
    scope

vars == <<tk, scope>>

Init ==
    /\ scope \in Scopes
    /\ tk = LET first == IF scope.memcached THEN <<>> ELSE <<1>>
            IN  [keys |-> first, gen |-> Len(first),
                 thread |-> [t \in Threads |-> first], todo |-> <<>>,
                 issued |-> {},
                 get |-> IF scope.memcached THEN "asked" ELSE "none",
                 retry |-> 0, fails |-> 0, row |-> 0]

\* set_ticket_keys(), then set_ticket_keys_to_worker() thread by thread
SetKeys(k, keys) == [k EXCEPT !.keys = keys, !.todo = [t \in 1 .. Cardinality(Threads) |-> t]]

\* Worker::set_ticket_keys(): the store other threads read at any time
Store ==
    /\ tk.todo # <<>>
    /\ tk' = [tk EXCEPT !.thread[Head(tk.todo)] = tk.keys, !.todo = Tail(@)]
    /\ UNCHANGED scope

Least(a, b) == IF a < b THEN a ELSE b

\* the new key first, then as many old ones as the list may hold
NewKeys(old, key) ==
    IF old = <<>> THEN <<key>> ELSE <<key>> \o SubSeq(old, 1, Least(MaxTickets, Len(old) + 1) - 1)

\* renew_ticket_key_cb(); generate_ticket_key() may fail
Renew ==
    /\ ~scope.memcached /\ tk.todo = <<>> /\ tk.gen < MaxRenewals
    /\ \/ tk' = [SetKeys(tk, NewKeys(tk.keys, tk.gen + 1)) EXCEPT !.gen = @ + 1]
       \/ scope.fail /\ tk' = [SetKeys(tk, <<>>) EXCEPT !.gen = @ + 1]
    /\ UNCHANGED scope

-------------------------------------------------------------------------------
(* Keys from memcached.                                                       *)

NextGet(k) == [k EXCEPT !.get = "timer"]

\* on_tls_ticket_key_not_found()
NotFound(k) ==
    LET n == [k EXCEPT !.retry = 0]
    IN  IF k.fails + 1 >= MaxFail
        THEN NextGet([SetKeys(n, <<>>) EXCEPT !.fails = 0, !.row = 0])
        ELSE NextGet([n EXCEPT !.fails = @ + 1])

\* on_tls_ticket_key_network_error()
NetworkError(k) ==
    IF k.retry + 1 >= MaxRetry THEN NotFound([k EXCEPT !.retry = @ + 1])
    ELSE [k EXCEPT !.retry = @ + 1, !.get = "timer"]

\* on_tls_ticket_key_get_success(), with the keys memcached holds or none
GetSuccess(k, keys) ==
    [SetKeys(NextGet(k), keys) EXCEPT !.retry = 0, !.fails = 0, !.row = 0]

(* memcached_get_ticket_key_cb(): the answer, which is no use when it is      *)
(* missing, malformed or of another version.                                  *)
Answer ==
    /\ tk.get = "asked" /\ tk.todo = <<>> /\ tk.gen < MaxRenewals
    /\ \/ tk' = NetworkError([tk EXCEPT !.row = @ + 1])
       \/ tk' = NotFound([tk EXCEPT !.row = @ + MaxRetry])
       \/ tk' = GetSuccess([tk EXCEPT !.gen = @ + 1],
                           NewKeys(IF tk.gen = 0 THEN <<>> ELSE
                                   [i \in 1 .. Least(tk.gen, MaxTickets) |-> tk.gen + 1 - i],
                                   tk.gen + 1))
       \/ scope.fail /\ tk' = GetSuccess([tk EXCEPT !.gen = @ + 1], <<>>)
    /\ UNCHANGED scope

\* the timer asks again
Ask ==
    /\ tk.get = "timer"
    /\ tk' = [tk EXCEPT !.get = "asked"]
    /\ UNCHANGED scope

-------------------------------------------------------------------------------
(* ticket_key_cb() on the worker threads.                                     *)

Issue(t) ==
    /\ tk.thread[t] # <<>>
    /\ tk' = [tk EXCEPT !.issued = @ \cup {Head(tk.thread[t])}]
    /\ UNCHANGED scope

Opens(t, key) == key \in ToSet(tk.thread[t])

Next ==
    \/ Store \/ Renew \/ Answer \/ Ask
    \/ \E t \in Threads : Issue(t)

Spec == Init /\ [][Next]_vars

-------------------------------------------------------------------------------
(* Properties.                                                                *)

Newest(t) == Head(tk.thread[t])

(* A ticket issued less than MaxTickets renewals ago opens on every thread    *)
(* that has keys as new as it; no key the list should have dropped is kept;   *)
(* the memcached refresh is always either asked for or scheduled, and turns   *)
(* tickets off only after MaxFail fruitless rounds of MaxRetry tries.         *)
TicketsOpen ==
    /\ ~scope.fail =>
          \A t \in Threads, key \in tk.issued :
             tk.thread[t] # <<>> /\ key <= Newest(t) /\ Newest(t) - key < MaxTickets =>
                 Opens(t, key)
    /\ \A t \in Threads :
          /\ Len(tk.thread[t]) <= MaxTickets
          /\ \A i \in 1 .. Len(tk.thread[t]) - 1 : tk.thread[t][i] > tk.thread[t][i + 1]
    /\ scope.memcached => tk.get \in {"asked", "timer"}
    /\ tk.retry < MaxRetry /\ tk.fails < MaxFail
    /\ tk.row <= MaxFail * MaxRetry

(* worker_process.cc:215: "The next key is provided to ensure to mitigate     *)
(* possible problem when one worker encrypt new key, but one worker, which    *)
(* did not take the that key yet, and cannot decrypt it."                     *)
NewKeyKnownToAll ==
    \A t \in Threads, key \in tk.issued : tk.thread[t] # <<>> => key <= Newest(t)
===============================================================================
