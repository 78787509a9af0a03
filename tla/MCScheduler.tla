----------------------------- MODULE MCScheduler -----------------------------
(***************************************************************************)
(* Three scopes: trees of three streams and every way to move them; three  *)
(* streams that share the connection; everything that happens to two.      *)
(***************************************************************************)
EXTENDS Scheduler

Moving == [streams |-> {1, 2, 3}, ops |-> {"open", "idle", "priority", "destroy"},
           weights |-> {2}, lengths |-> {0}]

Sharing == [streams |-> {1, 2, 3}, ops |-> {"send", "open"},
            weights |-> {1}, lengths |-> {1}]

Everything == [streams |-> {1, 2},
               ops |-> {"send", "open", "idle", "priority", "destroy", "defer",
                        "done", "detach"},
               weights |-> {1, 2}, lengths |-> {0}]

MCScopes == {Moving, Sharing, Everything}
=============================================================================
