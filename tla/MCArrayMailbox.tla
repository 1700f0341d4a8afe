--------------------------- MODULE MCArrayMailbox ---------------------------
(* The smallest instance with every kind of message: the start() message,   *)
(* one stop() message and two ordinary ones, so that a queue of two can      *)
(* form behind a handler that fails.                                         *)
EXTENDS ArrayMailbox

CONSTANTS start, stop, m1, m2

MCMessages == {start, stop, m1, m2}
MCStopMessages == {stop}
=============================================================================
