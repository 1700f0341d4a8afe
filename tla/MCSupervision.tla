--------------------------- MODULE MCSupervision ---------------------------
(* Two actors with one supervisor.  The first gets two requests, so that it  *)
(* can fail again after a directive; the second fails while the supervisor   *)
(* is busy with, restarted after, or stopped during the first one's failure. *)
EXTENDS Supervision

CONSTANTS first, second, first1, first2, second1, second2

MCActors == {first, second}
MCTo == first1 :> first @@ first2 :> first @@ second1 :> second
        @@ second2 :> second
MCRequests == DOMAIN MCTo
=============================================================================
