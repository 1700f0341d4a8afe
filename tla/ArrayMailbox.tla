---------------------------- MODULE ArrayMailbox ----------------------------
(***************************************************************************)
(* One actor behind its ArrayMailbox: the senders (ActorProxy), the        *)
(* mailbox and its dispatch loop (ArrayMailbox), the delivery of a message *)
(* (LocalMessage.deliver), the start of the actor (LocalStage.start), and  *)
(* the supervision decisions that come back for each failure               *)
(* (StageSupervisedActor).                                                 *)
(*                                                                         *)
(* JavaScript runs one piece of code at a time, up to its next `await`.    *)
(* An action is one such piece.  The dispatch loop is a coroutine that     *)
(* waits in `await message.deliver()`: `loop` says where it waits.         *)
(* Whatever else the event loop may run in between (a send, the answer of  *)
(* a supervisor, a stop sequence) is an action that interleaves.           *)
(***************************************************************************)
EXTENDS Naturals, Sequences

CONSTANTS Messages,       \* every message the actor may be sent, each once
          StartMessage,   \* the start() message LocalStage.start sends
          StopMessages,   \* the stop() messages clients and parents send
          NoMessage       \* nothing is being delivered

ASSUME MessagesAssumption == /\ StartMessage \in Messages
                             /\ StopMessages \subseteq Messages \ {StartMessage}
                             /\ NoMessage \notin Messages

VARIABLES
    closed, suspended, dispatching, queue,  \* the fields of ArrayMailbox
    loop,         \* where the dispatch loop is: idle (not running), awaiting a
                  \* handler, or returning (deliver() ended, the continuation
                  \* of the await is still to run)
    current,      \* the message the loop took last, while it runs
    deferred,     \* the state of each message's promise
    deadLetters,  \* the messages that were reported as dead letters
    begun,        \* history: the messages whose handler was called, in order
    phase,        \* how far LocalStage.start went for this actor
    startRejected,\* the rejection of start() has not reached its .catch yet
    cached,       \* Environment holds the resolved supervisor
    failures,     \* history: every failure that was routed to supervision
    undecided,    \* failures the supervisor was informed of and has not decided
    lost,         \* failures, since the last resume, that no decision will
                  \* ever come for
    stopping      \* failures answered with Stop whose stop() still runs

mailboxVars == <<closed, suspended, dispatching, queue>>
deliveryVars == <<loop, current, deferred, deadLetters, begun>>
startVars == <<phase, startRejected>>
supervisionVars == <<cached, failures, undecided, lost, stopping>>
vars == <<mailboxVars, deliveryVars, startVars, supervisionVars>>

(* A failure is known by where it was caught: in deliver(), around the      *)
(* beforeStart() hook, or in the .catch of the promise of start().          *)
Failures == [at : {"deliver"}, of : Messages]
            \cup [at : {"beforeStart", "start"}, of : {StartMessage}]

Failure(at, m) == [at |-> at, of |-> m]

PromiseStates == {"unsent", "pending", "resolved", "rejected", "actorStopped"}
Settled == {"resolved", "rejected", "actorStopped"}

TypeOK == /\ closed \in BOOLEAN /\ suspended \in BOOLEAN /\ dispatching \in BOOLEAN
          /\ queue \in Seq(Messages)
          /\ loop \in {"idle", "awaiting", "returning"}
          /\ current \in Messages \cup {NoMessage}
          /\ deferred \in [Messages -> PromiseStates]
          /\ deadLetters \subseteq Messages
          /\ begun \in Seq(Messages)
          /\ phase \in {"new", "started", "aborted"}
          /\ startRejected \in BOOLEAN /\ cached \in BOOLEAN
          /\ failures \subseteq Failures
          /\ undecided \subseteq Failures
          /\ lost \subseteq Failures
          /\ stopping \subseteq Failures

Init == /\ closed = FALSE /\ suspended = FALSE /\ dispatching = FALSE
        /\ queue = <<>>
        /\ loop = "idle" /\ current = NoMessage
        /\ deferred = [m \in Messages |-> "unsent"]
        /\ deadLetters = {}
        /\ begun = <<>>
        /\ phase = "new" /\ startRejected = FALSE
        /\ cached = FALSE
        /\ failures = {} /\ undecided = {} /\ lost = {} /\ stopping = {}

-----------------------------------------------------------------------------
(* The mailbox *)

(* Mutation of IsReceivable: the test of the closed flag is dropped. *)
IsReceivableClosed(isClosed, isSuspended, messages) ==
    ~isSuspended /\ messages # <<>>

IsReceivable(isClosed, isSuspended, messages) ==
    ~isClosed /\ ~isSuspended /\ messages # <<>>

(* deliver() up to its first await.  An actor that is stopped gets a dead   *)
(* letter in place of a call of its handler; nobody settles the promise.    *)
(* The promises are those after `promises`.                                 *)
Deliver(m, promises) ==
    /\ deferred' = promises
    /\ IF closed
       THEN /\ loop' = "returning"
            /\ deadLetters' = deadLetters \cup {m}
            /\ UNCHANGED begun
       ELSE /\ loop' = "awaiting"
            /\ begun' = Append(begun, m)
            /\ UNCHANGED deadLetters

(* The `while` of dispatch() from its test up to the next await or its exit. *)
(* The mailbox holds `messages` and its suspended flag is `isSuspended`.     *)
DispatchLoop(isSuspended, messages, promises) ==
    \/ /\ IsReceivable(closed, isSuspended, messages)
       /\ queue' = Tail(messages)
       /\ current' = Head(messages)
       /\ dispatching' = TRUE
       /\ Deliver(Head(messages), promises)
    \/ /\ ~IsReceivable(closed, isSuspended, messages)
       /\ queue' = messages
       /\ current' = NoMessage
       /\ dispatching' = FALSE
       /\ loop' = "idle"
       /\ deferred' = promises
       /\ UNCHANGED <<deadLetters, begun>>

(* Mutation of Dispatch: no guard against a second loop. *)
DispatchAgain(isSuspended, messages, promises) ==
    DispatchLoop(isSuspended, messages, promises)

(* dispatch(): a second caller returns at once while a loop is running. *)
Dispatch(isSuspended, messages, promises) ==
    \/ /\ dispatching
       /\ queue' = messages
       /\ deferred' = promises
       /\ UNCHANGED <<dispatching, loop, current, deadLetters, begun>>
    \/ /\ ~dispatching
       /\ DispatchLoop(isSuspended, messages, promises)

(* Mutation of SendOpen: the message is put at the front of the queue. *)
SendOpenFirst(m) ==
    /\ ~closed
    /\ LET messages == <<m>> \o queue
           promises == [deferred EXCEPT ![m] = "pending"]
       IN  IF suspended
           THEN /\ queue' = messages
                /\ deferred' = promises
                /\ UNCHANGED <<dispatching, loop, current, deadLetters, begun>>
           ELSE Dispatch(suspended, messages, promises)
    /\ UNCHANGED <<closed, suspended>>

(* send(): the message is queued, or it is a dead letter of a closed mailbox. *)
SendOpen(m) ==
    /\ ~closed
    /\ LET messages == Append(queue, m)
           promises == [deferred EXCEPT ![m] = "pending"]
       IN  IF suspended
           THEN /\ queue' = messages
                /\ deferred' = promises
                /\ UNCHANGED <<dispatching, loop, current, deadLetters, begun>>
           ELSE Dispatch(suspended, messages, promises)
    /\ UNCHANGED <<closed, suspended>>

SendClosed(m) ==
    /\ closed
    /\ deadLetters' = deadLetters \cup {m}
    /\ deferred' = [deferred EXCEPT ![m] = "actorStopped"]
    /\ UNCHANGED <<mailboxVars, loop, current, begun>>

Send(m) == SendOpen(m) \/ SendClosed(m)

Close == closed' = TRUE

(* Mutation of Resume: the flag is cleared and nobody calls dispatch(). *)
ResumeQuietly ==
    /\ suspended' = FALSE
    /\ UNCHANGED <<closed, queue, dispatching, deliveryVars>>

(* resume(): dispatch() is called only when there is something to receive. *)
Resume ==
    /\ suspended' = FALSE
    /\ IF IsReceivable(closed, FALSE, queue)
       THEN Dispatch(FALSE, queue, deferred)
       ELSE UNCHANGED <<queue, dispatching, deliveryVars>>
    /\ UNCHANGED closed

-----------------------------------------------------------------------------
(* Routing a failure to the supervisor *)

(* handleFailureOf() finds the supervisor, through the cache of Environment, *)
(* and informs it.                                                           *)
Inform(failure) ==
    /\ cached' = TRUE
    /\ failures' = failures \cup {failure}
    /\ undecided' = undecided \cup {failure}
    /\ UNCHANGED <<lost, stopping>>

(* Nothing is cached and no actor has the type of the named supervisor:     *)
(* Environment.supervisor() throws to the caller of handleFailureOf().      *)
SupervisorMissing(failure) ==
    /\ ~cached
    /\ failures' = failures \cup {failure}
    /\ lost' = lost \cup {failure}
    /\ UNCHANGED <<cached, undecided, stopping>>

-----------------------------------------------------------------------------
(* The start of the actor: LocalStage.start *)

(* The beforeStart() hook and the sending of start() are one piece of code. *)
(* What an actor sends itself from the hook is queued before start().       *)
StartSent ==
    /\ phase = "new"
    /\ phase' = "started"
    /\ \/ UNCHANGED supervisionVars
       \/ Inform(Failure("beforeStart", StartMessage))    \* the hook threw
    /\ Send(StartMessage)
    /\ UNCHANGED startRejected

(* The hook threw, the failure finds no supervisor, and actorFor() throws.  *)
StartAborted ==
    /\ phase = "new"
    /\ phase' = "aborted"
    /\ SupervisorMissing(Failure("beforeStart", StartMessage))
    /\ UNCHANGED <<mailboxVars, deliveryVars, startRejected>>

(* handleLifecycleFailure() only logs the failure of an actor that has left *)
(* the directory, as a stopped actor has.                                   *)
RouteStartFailure(failure) ==
    \/ Inform(failure)
    \/ SupervisorMissing(failure)
    \/ /\ closed
       /\ failures' = failures \cup {failure}
       /\ lost' = lost \cup {failure}
       /\ UNCHANGED <<cached, undecided, stopping>>

(* Mutation of StartCatch: the failure is booked on the message that is     *)
(* being delivered when the .catch runs.                                    *)
StartCatchOfCurrent ==
    /\ startRejected
    /\ startRejected' = FALSE
    /\ RouteStartFailure(Failure("start", current))
    /\ UNCHANGED <<mailboxVars, deliveryVars, phase>>

(* The .catch of start(): the failure that deliver() has routed already is *)
(* routed a second time.                                                   *)
StartCatch ==
    /\ startRejected
    /\ startRejected' = FALSE
    /\ RouteStartFailure(Failure("start", StartMessage))
    /\ UNCHANGED <<mailboxVars, deliveryVars, phase>>

-----------------------------------------------------------------------------
(* Senders, the handler and the loop *)

SendMessage(m) ==
    /\ m # StartMessage
    /\ deferred[m] = "unsent"
    /\ Send(m)
    /\ UNCHANGED <<startVars, supervisionVars>>

(* The promise of the handler resolves.  A stop() handler is LifeCycle.stop, *)
(* which closes the mailbox before it ends.                                  *)
HandlerSucceeds ==
    /\ loop = "awaiting"
    /\ current \in StopMessages => closed
    /\ loop' = "returning"
    /\ deferred' = [deferred EXCEPT ![current] = "resolved"]
    /\ UNCHANGED <<mailboxVars, current, deadLetters, begun, startVars,
                   supervisionVars>>

(* Mutation of HandlerFails: the mailbox is not suspended. *)
HandlerFailsUnsuspended ==
    /\ loop = "awaiting"
    /\ loop' = "returning"
    /\ deferred' = [deferred EXCEPT ![current] = "rejected"]
    /\ startRejected' = (startRejected \/ current = StartMessage)
    /\ Inform(Failure("deliver", current))
    /\ UNCHANGED <<mailboxVars, current, deadLetters, begun, phase>>

(* The handler throws: the promise is rejected, the mailbox suspended and    *)
(* the failure routed.                                                       *)
HandlerFails ==
    /\ loop = "awaiting"
    /\ deferred' = [deferred EXCEPT ![current] = "rejected"]
    /\ suspended' = TRUE
    /\ startRejected' = (startRejected \/ current = StartMessage)
    /\ \/ /\ Inform(Failure("deliver", current))
          /\ loop' = "returning"
          /\ UNCHANGED <<current, dispatching>>
       \/ \* the throw leaves deliver() and, through its finally, dispatch();
          \* in between the mailbox is suspended and nobody can resume it
          /\ SupervisorMissing(Failure("deliver", current))
          /\ loop' = "idle"
          /\ current' = NoMessage
          /\ dispatching' = FALSE
    /\ UNCHANGED <<closed, queue, deadLetters, begun, phase>>

(* Mutation of LoopContinues: an `if` in the place of the `while`. *)
LoopEnds ==
    /\ loop = "returning"
    /\ loop' = "idle"
    /\ current' = NoMessage
    /\ dispatching' = FALSE
    /\ UNCHANGED <<closed, suspended, queue, deferred, deadLetters, begun,
                   startVars, supervisionVars>>

LoopContinues ==
    /\ loop = "returning"
    /\ DispatchLoop(suspended, queue, deferred)
    /\ UNCHANGED <<closed, suspended, startVars, supervisionVars>>

(* The stop sequence of a stop() message closes the mailbox. *)
StopHandlerCloses ==
    /\ loop = "awaiting"
    /\ current \in StopMessages
    /\ ~closed
    /\ Close
    /\ UNCHANGED <<suspended, dispatching, queue, deliveryVars, startVars,
                   supervisionVars>>

-----------------------------------------------------------------------------
(* The decision of the supervisor on one failure: StageSupervisedActor *)

(* Resume, and the end of a restart: both resume the mailbox, whatever other *)
(* failures suspended it.                                                    *)
DecideResume(f) ==
    /\ f \in undecided
    /\ undecided' = undecided \ {f}
    /\ lost' = {}
    /\ Resume
    /\ UNCHANGED <<startVars, cached, failures, stopping>>

(* Mutation of DecideStop: the directive is taken and stop() is not called. *)
DecideStopForgotten(f) ==
    /\ f \in undecided
    /\ undecided' = undecided \ {f}
    /\ UNCHANGED <<mailboxVars, deliveryVars, startVars, cached, failures, lost,
                   stopping>>

(* Stop calls LifeCycle.stop directly; it does nothing on a stopped actor. *)
DecideStop(f) ==
    /\ f \in undecided
    /\ undecided' = undecided \ {f}
    /\ stopping' = IF closed THEN stopping ELSE stopping \cup {f}
    /\ UNCHANGED <<mailboxVars, deliveryVars, startVars, cached,
                   failures, lost>>

SupervisedStopCloses(f) ==
    /\ f \in stopping
    /\ stopping' = stopping \ {f}
    /\ Close
    /\ UNCHANGED <<suspended, dispatching, queue, deliveryVars, startVars,
                   cached, failures, undecided, lost>>

(* The supervisor leaves the actor suspended (suspend()), or no decision     *)
(* reaches the actor: the supervisor was stopped, or inform() itself failed. *)
DecideNothing(f) ==
    /\ f \in undecided
    /\ undecided' = undecided \ {f}
    /\ lost' = lost \cup {f}
    /\ suspended' \in {suspended, TRUE}
    /\ UNCHANGED <<closed, dispatching, queue, deliveryVars, startVars, cached,
                   failures, stopping>>

Decide(f) == DecideResume(f) \/ DecideStop(f) \/ DecideNothing(f)

Handler == HandlerSucceeds \/ HandlerFails \/ StopHandlerCloses

Next == \/ StartSent \/ StartAborted \/ StartCatch
        \/ \E m \in Messages : SendMessage(m)
        \/ Handler \/ LoopContinues
        \/ \E f \in Failures : Decide(f) \/ SupervisedStopCloses(f)

Spec == Init /\ [][Next]_vars

(* The event loop runs every piece of code that is ready; handlers end and   *)
(* supervisors decide.  Nobody is obliged to send.                           *)
Fairness == /\ WF_vars(Handler)
            /\ WF_vars(LoopContinues)
            /\ WF_vars(\E f \in Failures : Decide(f))

FairSpec == Spec /\ Fairness

-----------------------------------------------------------------------------
(* Properties *)

(* No lost wakeup: a message that could be received is never left in the    *)
(* queue of a mailbox whose loop does not run.  The flag `dispatching` makes *)
(* send() and resume() rely on the running loop to look at the queue again. *)
NoLostWakeup == IsReceivable(closed, suspended, queue) => dispatching

(* A handler is called for one message at a time: all messages begun        *)
(* earlier than the one the loop awaits are settled.                         *)
OneAtATime ==
    \A i \in 1..Len(begun) :
        deferred[begun[i]] \in {"resolved", "rejected"}
        \/ (loop = "awaiting" /\ i = Len(begun) /\ begun[i] = current)

(* Dead letters of the mailbox are the messages sent after it closed, whose *)
(* senders were told so; deliver() itself never finds its actor stopped.    *)
DeadLettersAreRefusals ==
    \A m \in Messages : m \in deadLetters <=> deferred[m] = "actorStopped"

(* A suspended mailbox has somebody who will resume or close it, unless a   *)
(* supervisor failed its duty since the last resume: HandlerFails never     *)
(* suspends for nothing, and what was lost earlier is no excuse.            *)
SuspensionHasOwner ==
    suspended => closed \/ undecided # {} \/ stopping # {} \/ lost # {}

(* After a clean start, a handler that failed is quarantined: no further    *)
(* message begins before the supervisor decided on the failure.             *)
CleanStart == /\ deferred[StartMessage] # "rejected"
              /\ Failure("beforeStart", StartMessage) \notin failures

QuarantineAfterCleanStart ==
    [][begun' # begun /\ CleanStart' => undecided' = {}]_vars

(* The actor implements the promise of ActorDelivery: acceptance order, one *)
(* handler at a time, at most one settlement, nothing begun once stopped.   *)
Delivery == INSTANCE ActorDelivery
                WITH waiting <- queue,
                     busy <- loop = "awaiting",
                     outcome <- deferred,
                     stopped <- closed

ImplementsDelivery == Delivery!Spec

(* Every accepted message is settled in the end, unless the mailbox closes  *)
(* or stays suspended: by a failure nobody decided on, or for a slow stop().*)
AcceptedIsSettled ==
    \A m \in Messages :
        deferred[m] = "pending" ~> \/ deferred[m] \in Settled
                                   \/ closed
                                   \/ suspended /\ lost \cup stopping # {}

(* What LocalMessage.ts:118 says of the suspension, without a condition on   *)
(* the start of the actor: it prevents further processing during supervision. *)
NoProcessingDuringSupervision ==
    [][begun' # begun => \A f \in undecided' : f.at # "deliver"]_vars
=============================================================================
