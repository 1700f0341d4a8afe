--------------------------- MODULE ActorDelivery ---------------------------
(***************************************************************************)
(* What an actor promises to the code that sends it messages, with no      *)
(* mailbox in sight: messages are accepted in the order of the sends,      *)
(* handled one at a time in that order, and each is settled at most once.  *)
(* An actor that stopped handles nothing further and refuses later         *)
(* messages.                                                               *)
(***************************************************************************)
EXTENDS Sequences

CONSTANT Messages    \* the messages that may be sent, each of them once

VARIABLES waiting,   \* accepted messages that no handler has seen, oldest first
          begun,     \* messages whose handler was called, in that order
          busy,      \* a handler is running: that of the last message begun
          outcome,   \* what the sender of each message was told
          stopped    \* the actor accepts and handles nothing further

vars == <<waiting, begun, busy, outcome, stopped>>

Outcomes == {"unsent", "pending", "resolved", "rejected", "actorStopped"}

Init == /\ waiting = <<>>
        /\ begun = <<>>
        /\ busy = FALSE
        /\ outcome = [m \in Messages |-> "unsent"]
        /\ stopped = FALSE

(* The oldest waiting message reaches the handler, which must be free. *)
BeginOldest(queue) ==
    /\ ~busy /\ ~stopped
    /\ queue # <<>>
    /\ waiting' = Tail(queue)
    /\ begun' = Append(begun, Head(queue))
    /\ busy' = TRUE
    /\ UNCHANGED stopped

Begin == BeginOldest(waiting) /\ UNCHANGED outcome

(* A message is accepted, and an idle actor may begin at once. *)
Accept(m) ==
    /\ ~stopped
    /\ outcome[m] = "unsent"
    /\ outcome' = [outcome EXCEPT ![m] = "pending"]
    /\ \/ /\ waiting' = Append(waiting, m)
          /\ UNCHANGED <<begun, busy, stopped>>
       \/ BeginOldest(Append(waiting, m))

Refuse(m) ==
    /\ stopped
    /\ outcome[m] = "unsent"
    /\ outcome' = [outcome EXCEPT ![m] = "actorStopped"]
    /\ UNCHANGED <<waiting, begun, busy, stopped>>

(* The running handler ends: the last message begun is settled. *)
Settle ==
    /\ busy
    /\ busy' = FALSE
    /\ \E o \in {"resolved", "rejected"} :
          outcome' = [outcome EXCEPT ![begun[Len(begun)]] = o]
    /\ UNCHANGED <<waiting, begun, stopped>>

Stop == /\ ~stopped
        /\ stopped' = TRUE
        /\ UNCHANGED <<waiting, begun, busy, outcome>>

Next == \/ \E m \in Messages : Accept(m) \/ Refuse(m)
        \/ Begin \/ Settle \/ Stop

Spec == Init /\ [][Next]_vars
=============================================================================
