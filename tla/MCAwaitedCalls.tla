--------------------------- MODULE MCAwaitedCalls ---------------------------
(* Three tiers of actors that await only lower tiers.  A front actor         *)
(* delegates two requests to a worker, which awaits a store and, as the      *)
(* transfer coordinator of the bank does, goes on with messages to itself    *)
(* that it does not await; the store is also called by clients and by the    *)
(* front actor directly.                                                     *)
EXTENDS AwaitedCalls

MCTarget ==
    [order |-> "front", audit |-> "front",
     plan |-> "worker", note |-> "worker", commit |-> "worker",
     done |-> "worker", inspect |-> "worker",
     reserve |-> "store", write |-> "store", read |-> "store",
     count |-> "store"]

MCMessages == DOMAIN MCTarget
MCActors == {"front", "worker", "store"}

MCCalls ==
    [order |-> <<"plan">>, audit |-> <<"read", "inspect">>,
     plan |-> <<"reserve", "note", "commit">>, note |-> <<>>,
     commit |-> <<"write", "done">>, done |-> <<>>, inspect |-> <<>>,
     reserve |-> <<>>, write |-> <<>>, read |-> <<>>, count |-> <<>>]

MCAwaited == MCMessages \ {"note", "commit", "done"}
=============================================================================
