--------------------------- MODULE BoundedMailbox ---------------------------
(***************************************************************************)
(* One actor behind a BoundedMailbox: a queue of limited capacity with an  *)
(* overflow policy, and a dispatch() without the guard of ArrayMailbox, so *)
(* that every send and every resume may start a loop of its own.  A loop   *)
(* is known by the message it took last: `running` holds the messages      *)
(* whose handlers are awaited, `returning` those whose delivery ended and  *)
(* whose loop still has to look at the queue again.                        *)
(***************************************************************************)
EXTENDS Naturals, Sequences, FiniteSets, SequencesExt

CONSTANTS MaxMessages,  \* how many messages the actor may be sent
          Capacity      \* the capacity given to the constructor

ASSUME BoundsAssumption == MaxMessages \in Nat /\ Capacity \in Nat \ {0}

(* Messages are numbered in the order in which they are sent. *)
Messages == 1..MaxMessages

Policies == {"DropOldest", "DropNewest", "Reject"}

VARIABLES
    policy,               \* overflowPolicy, readonly
    closed, suspended, queue, droppedMessageCount,
    running, returning,   \* the dispatch loops
    deferred,             \* the state of each message's promise
    deadLetters,          \* the messages reported as dead letters
    begun,                \* history: the messages whose handler was called
    undecided,            \* failed messages the supervisor has not decided on
    lost                  \* failed messages no decision will come for

loopVars == <<running, returning>>
supervisionVars == <<undecided, lost>>
vars == <<policy, closed, suspended, queue, droppedMessageCount, loopVars,
          deferred, deadLetters, begun, supervisionVars>>

PromiseStates == {"unsent", "pending", "resolved", "rejected", "actorStopped",
                  "dropped", "mailboxFull"}

TypeOK == /\ policy \in Policies
          /\ closed \in BOOLEAN /\ suspended \in BOOLEAN
          /\ queue \in Seq(Messages) /\ Len(queue) <= Capacity
          /\ droppedMessageCount \in Nat
          /\ running \subseteq Messages /\ returning \subseteq Messages
          /\ deferred \in [Messages -> PromiseStates]
          /\ deadLetters \subseteq Messages
          /\ begun \in Seq(Messages)
          /\ undecided \subseteq Messages /\ lost \subseteq Messages

Init == /\ policy \in Policies
        /\ closed = FALSE /\ suspended = FALSE
        /\ queue = <<>> /\ droppedMessageCount = 0
        /\ running = {} /\ returning = {}
        /\ deferred = [m \in Messages |-> "unsent"]
        /\ deadLetters = {}
        /\ begun = <<>>
        /\ undecided = {} /\ lost = {}

-----------------------------------------------------------------------------
(* The mailbox *)

IsReceivable(isClosed, isSuspended, messages) ==
    ~isClosed /\ ~isSuspended /\ messages # <<>>

(* One round of the `while` of dispatch(), for a loop that is not counted in *)
(* `others`: take the oldest message and await its handler, or end.  A       *)
(* handler is called at once: receive() follows the test that the mailbox is *)
(* open, so deliver() finds its actor running.                               *)
DispatchLoop(isSuspended, messages, others) ==
    \/ /\ IsReceivable(closed, isSuspended, messages)
       /\ queue' = Tail(messages)
       /\ running' = running \cup {Head(messages)}
       /\ returning' = others
       /\ begun' = Append(begun, Head(messages))
    \/ /\ ~IsReceivable(closed, isSuspended, messages)
       /\ queue' = messages
       /\ returning' = others
       /\ UNCHANGED <<running, begun>>

(* Mutation of Push: the message is put at the front of the queue. *)
PushFirst(messages, m) ==
    IF suspended
    THEN /\ queue' = <<m>> \o messages
         /\ UNCHANGED <<loopVars, begun>>
    ELSE DispatchLoop(suspended, <<m>> \o messages, returning)

(* Queueing a message starts a loop, unless the mailbox is suspended. *)
Push(messages, m) ==
    IF suspended
    THEN /\ queue' = Append(messages, m)
         /\ UNCHANGED <<loopVars, begun>>
    ELSE DispatchLoop(suspended, Append(messages, m), returning)

SendClosed(m) ==
    /\ closed
    /\ deadLetters' = deadLetters \cup {m}
    /\ deferred' = [deferred EXCEPT ![m] = "actorStopped"]
    /\ UNCHANGED <<queue, droppedMessageCount, loopVars, begun>>

(* Mutation of SendBelowCapacity: the capacity is passed by one. *)
SendUpToCapacity(m) ==
    /\ ~closed
    /\ Len(queue) <= Capacity
    /\ Push(queue, m)
    /\ deferred' = [deferred EXCEPT ![m] = "pending"]
    /\ UNCHANGED <<droppedMessageCount, deadLetters>>

SendBelowCapacity(m) ==
    /\ ~closed
    /\ Len(queue) < Capacity
    /\ Push(queue, m)
    /\ deferred' = [deferred EXCEPT ![m] = "pending"]
    /\ UNCHANGED <<droppedMessageCount, deadLetters>>

(* Mutation of DropOldest: the newest queued message is dropped instead. *)
DropLast(m) ==
    /\ policy = "DropOldest"
    /\ deferred' = [deferred EXCEPT ![queue[Len(queue)]] = "dropped",
                                    ![m] = "pending"]
    /\ Push(SubSeq(queue, 1, Len(queue) - 1), m)
    /\ droppedMessageCount' = droppedMessageCount + 1
    /\ UNCHANGED deadLetters

(* Mutation of DropOldest: the promise of the dropped message is forgotten. *)
DropOldestSilently(m) ==
    /\ policy = "DropOldest"
    /\ deferred' = [deferred EXCEPT ![m] = "pending"]
    /\ Push(Tail(queue), m)
    /\ droppedMessageCount' = droppedMessageCount + 1
    /\ UNCHANGED deadLetters

DropOldest(m) ==
    /\ policy = "DropOldest"
    /\ deferred' = [deferred EXCEPT ![Head(queue)] = "dropped",
                                    ![m] = "pending"]
    /\ Push(Tail(queue), m)
    /\ droppedMessageCount' = droppedMessageCount + 1
    /\ UNCHANGED deadLetters

DropNewest(m) ==
    /\ policy = "DropNewest"
    /\ deferred' = [deferred EXCEPT ![m] = "dropped"]
    /\ droppedMessageCount' = droppedMessageCount + 1
    /\ UNCHANGED <<queue, loopVars, begun, deadLetters>>

Reject(m) ==
    /\ policy = "Reject"
    /\ deadLetters' = deadLetters \cup {m}
    /\ deferred' = [deferred EXCEPT ![m] = "mailboxFull"]
    /\ droppedMessageCount' = droppedMessageCount + 1
    /\ UNCHANGED <<queue, loopVars, begun>>

HandleOverflow(m) ==
    /\ ~closed
    /\ Len(queue) >= Capacity
    /\ DropOldest(m) \/ DropNewest(m) \/ Reject(m)

Send(m) ==
    /\ deferred[m] = "unsent"
    /\ \A k \in 1..(m - 1) : deferred[k] # "unsent"
    /\ SendClosed(m) \/ SendBelowCapacity(m) \/ HandleOverflow(m)
    /\ UNCHANGED <<policy, closed, suspended, supervisionVars>>

Close == /\ ~closed
         /\ closed' = TRUE
         /\ UNCHANGED <<policy, suspended, queue, droppedMessageCount, loopVars,
                        deferred, deadLetters, begun, supervisionVars>>

(* Mutation of Resume: the flag is cleared and nobody calls dispatch(). *)
ResumeQuietly ==
    /\ suspended' = FALSE
    /\ UNCHANGED <<queue, loopVars, begun>>

Resume ==
    /\ suspended' = FALSE
    /\ DispatchLoop(FALSE, queue, returning)

-----------------------------------------------------------------------------
(* Handlers, loops and supervision *)

HandlerSucceeds(m) ==
    /\ m \in running
    /\ running' = running \ {m}
    /\ returning' = returning \cup {m}
    /\ deferred' = [deferred EXCEPT ![m] = "resolved"]
    /\ UNCHANGED <<policy, closed, suspended, queue, droppedMessageCount,
                   deadLetters, begun, supervisionVars>>

(* The mailbox is suspended under the handlers that still run.  When no      *)
(* supervisor is found, the throw also ends the loop.                        *)
HandlerFails(m) ==
    /\ m \in running
    /\ running' = running \ {m}
    /\ deferred' = [deferred EXCEPT ![m] = "rejected"]
    /\ suspended' = TRUE
    /\ \/ /\ undecided' = undecided \cup {m}
          /\ returning' = returning \cup {m}
          /\ UNCHANGED lost
       \/ /\ lost' = lost \cup {m}
          /\ UNCHANGED <<undecided, returning>>
    /\ UNCHANGED <<policy, closed, queue, droppedMessageCount, deadLetters,
                   begun>>

(* Mutation of LoopContinues: an `if` in the place of the `while`. *)
LoopEnds(m) ==
    /\ m \in returning
    /\ returning' = returning \ {m}
    /\ UNCHANGED <<policy, closed, suspended, queue, droppedMessageCount, running,
                   deferred, deadLetters, begun, supervisionVars>>

LoopContinues(m) ==
    /\ m \in returning
    /\ DispatchLoop(suspended, queue, returning \ {m})
    /\ UNCHANGED <<policy, closed, suspended, droppedMessageCount, deferred,
                   deadLetters, supervisionVars>>

DecideResume(m) ==
    /\ m \in undecided
    /\ undecided' = undecided \ {m}
    /\ Resume
    /\ UNCHANGED <<policy, closed, droppedMessageCount, deferred, deadLetters, lost>>

(* The supervisor leaves the actor suspended, or was stopped itself. *)
DecideNothing(m) ==
    /\ m \in undecided
    /\ undecided' = undecided \ {m}
    /\ lost' = lost \cup {m}
    /\ suspended' \in {suspended, TRUE}
    /\ UNCHANGED <<policy, closed, queue, droppedMessageCount, loopVars, deferred,
                   deadLetters, begun>>

Handler(m) == HandlerSucceeds(m) \/ HandlerFails(m)
Decide(m) == DecideResume(m) \/ DecideNothing(m)

Next == \/ \E m \in Messages : \/ Send(m) \/ Handler(m) \/ LoopContinues(m)
                               \/ Decide(m)
        \/ Close

Spec == Init /\ [][Next]_vars

(* As for ArrayMailbox: handlers end, loops go on, supervisors decide. *)
FairSpec == /\ Spec
            /\ \A m \in Messages : /\ WF_vars(Handler(m))
                                   /\ WF_vars(LoopContinues(m))
                                   /\ WF_vars(Decide(m))

-----------------------------------------------------------------------------
(* Properties *)

(* No lost wakeup: while something could be received, some loop is alive    *)
(* that will look at the queue again.                                       *)
NoLostWakeup == IsReceivable(closed, suspended, queue) => running \cup returning # {}

Overflowed == {m \in Messages : deferred[m] \in {"dropped", "mailboxFull"}}

(* Overflow accounting: droppedMessageCount() counts the senders that were  *)
(* told of a drop, none of their messages was handled or is queued, and the  *)
(* dead letters are the messages refused by a full or a closed mailbox.      *)
DropsAreAccounted ==
    /\ droppedMessageCount = Cardinality(Overflowed)
    /\ deadLetters = {m \in Messages :
                         deferred[m] \in {"actorStopped", "mailboxFull"}}
    /\ Overflowed \cap (ToSet(queue) \cup ToSet(begun)) = {}

(* Whatever is dropped, the messages that remain are begun in the order in   *)
(* which they were sent: begun, then queue, are the accepted messages        *)
(* without the dropped ones, oldest first.                                   *)
AcceptanceOrder ==
    LET kept == begun \o queue
    IN  /\ \A i, j \in 1..Len(kept) : i < j => kept[i] < kept[j]
        /\ ToSet(kept) = {m \in Messages :
                            deferred[m] \in {"pending", "resolved", "rejected"}}

(* A message that was accepted and dropped later made room for newer ones:   *)
(* at least as many were accepted after it as the mailbox has places.        *)
DroppedForNewer ==
    policy = "DropOldest" =>
        \A m \in Overflowed :
            Cardinality({k \in Messages : k > m /\ deferred[k] \in PromiseStates
                                                      \ {"unsent", "actorStopped"}})
                >= Capacity

(* Every accepted message is settled in the end, unless the mailbox closes   *)
(* or stays suspended by a failure nobody decided on.                        *)
AcceptedIsSettled ==
    \A m \in Messages :
        deferred[m] = "pending" ~> \/ deferred[m] # "pending"
                                   \/ closed
                                   \/ suspended /\ lost # {}

(* What DomoActors.md:8 says of every actor: it processes its messages one   *)
(* at a time.                                                                *)
OneAtATime == Cardinality(running) <= 1
=============================================================================
