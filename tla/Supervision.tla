---------------------------- MODULE Supervision ----------------------------
(***************************************************************************)
(* Actors with one supervisor, an actor that extends DefaultSupervisor and *)
(* has an ArrayMailbox of its own, and above it PublicRootActor, which     *)
(* restarts whatever fails.  A failure suspends the actor and sends the    *)
(* supervisor an inform() message; until the supervisor handles it and its *)
(* directive is carried out, the actor waits.                              *)
(*                                                                         *)
(* ArrayMailbox has the mailbox of one actor in detail.  Here an actor     *)
(* takes any of its requests next, and the mailbox in focus is that of the *)
(* supervisor.                                                             *)
(***************************************************************************)
EXTENDS Naturals, Sequences, FiniteSets, SequencesExt

CONSTANTS Actors,
          Requests,    \* the messages the actors are sent, each once; a
                       \* request also stands for its execution context
          To,          \* the actor each request is for
          NoRequest    \* no request; as a context, EmptyExecutionContext

ASSUME RequestsAssumption == /\ To \in [Requests -> Actors]
                             /\ NoRequest \notin Requests

VARIABLES
    outcome,       \* how far each request is
    suspended,     \* the actors whose mailboxes are suspended
    closed,        \* the actors that are stopped
    context,       \* currentMessageExecutionContext of each actor
    informs,       \* the failures in the mailbox of the supervisor
    loop,          \* the dispatch loop of the supervisor
    deciding,      \* the failure whose inform() is running
    seen,          \* the context inform() read when it began
    supSuspended, supClosed,  \* the flags of the supervisor's mailbox
    restarting,    \* failures answered with a restart that is under way
    stopping,      \* failures answered with a stop that is under way
    lost,          \* failures whose actors no directive will reach
    escalated      \* history: failures answered with Escalate

actorVars == <<outcome, suspended, closed, context>>
supervisorVars == <<informs, loop, deciding, seen, supSuspended, supClosed>>
directiveVars == <<restarting, stopping, lost, escalated>>
vars == <<actorVars, supervisorVars, directiveVars>>

TypeOK == /\ outcome \in [Requests -> {"waiting", "handling", "done", "failed"}]
          /\ suspended \subseteq Actors /\ closed \subseteq Actors
          /\ context \in [Actors -> Requests \cup {NoRequest}]
          /\ informs \in Seq(Requests)
          /\ loop \in {"idle", "deciding", "returning"}
          /\ deciding \in Requests \cup {NoRequest}
          /\ seen \in Requests \cup {NoRequest}
          /\ supSuspended \in BOOLEAN /\ supClosed \in BOOLEAN
          /\ restarting \subseteq Requests /\ stopping \subseteq Requests
          /\ lost \subseteq Requests /\ escalated \subseteq Requests

Init == /\ outcome = [r \in Requests |-> "waiting"]
        /\ suspended = {} /\ closed = {}
        /\ context = [a \in Actors |-> NoRequest]
        /\ informs = <<>>
        /\ loop = "idle" /\ deciding = NoRequest /\ seen = NoRequest
        /\ supSuspended = FALSE /\ supClosed = FALSE
        /\ restarting = {} /\ stopping = {} /\ lost = {} /\ escalated = {}

Busy(a) == \E r \in Requests : To[r] = a /\ outcome[r] = "handling"

-----------------------------------------------------------------------------
(* The mailbox of the supervisor *)

(* One round of its dispatch loop, with the messages and the flag it finds.  *)
(* inform() begins at once, and what it reads before its first await it      *)
(* reads from the failed actor, whose context is now contexts[a].            *)
InformLoop(isSuspended, messages, contexts) ==
    \/ /\ ~supClosed /\ ~isSuspended /\ messages # <<>>
       /\ informs' = Tail(messages)
       /\ loop' = "deciding"
       /\ deciding' = Head(messages)
       /\ seen' = contexts[To[Head(messages)]]
    \/ /\ supClosed \/ isSuspended \/ messages = <<>>
       /\ informs' = messages
       /\ loop' = "idle"
       /\ deciding' = NoRequest
       /\ seen' = NoRequest

(* The call of inform() for the failure of r: handled at once by a free      *)
(* supervisor, queued otherwise, and a dead letter for a stopped one.        *)
SendInform(r, contexts) ==
    LET messages == Append(informs, r)
    IN  \/ /\ supClosed
           /\ lost' = lost \cup {r}
           /\ UNCHANGED <<informs, loop, deciding, seen>>
        \/ /\ ~supClosed
           /\ IF loop = "idle" /\ ~supSuspended
              THEN InformLoop(supSuspended, messages, contexts)
              ELSE /\ informs' = messages
                   /\ UNCHANGED <<loop, deciding, seen>>
           /\ UNCHANGED lost

-----------------------------------------------------------------------------
(* The actors *)

Begin(r) ==
    /\ outcome[r] = "waiting"
    /\ To[r] \notin suspended \cup closed
    /\ ~Busy(To[r])
    /\ outcome' = [outcome EXCEPT ![r] = "handling"]
    /\ context' = [context EXCEPT ![To[r]] = r]
    /\ UNCHANGED <<suspended, closed, supervisorVars, directiveVars>>

HandlerSucceeds(r) ==
    /\ outcome[r] = "handling"
    /\ outcome' = [outcome EXCEPT ![r] = "done"]
    /\ context' = [context EXCEPT ![To[r]] = NoRequest]
    /\ UNCHANGED <<suspended, closed, supervisorVars, directiveVars>>

(* Mutation of HandlerFails: the mailbox is not suspended. *)
HandlerFailsUnsuspended(r) ==
    /\ outcome[r] = "handling"
    /\ outcome' = [outcome EXCEPT ![r] = "failed"]
    /\ SendInform(r, context)
    /\ context' = [context EXCEPT ![To[r]] = NoRequest]
    /\ UNCHANGED <<suspended, closed, supSuspended, supClosed, restarting,
                   stopping, escalated>>

(* The catch and the finally of deliver(): the mailbox is suspended, the     *)
(* supervisor informed, and then the context of the actor is reset.          *)
HandlerFails(r) ==
    /\ outcome[r] = "handling"
    /\ outcome' = [outcome EXCEPT ![r] = "failed"]
    /\ suspended' = suspended \cup {To[r]}
    /\ SendInform(r, context)
    /\ context' = [context EXCEPT ![To[r]] = NoRequest]
    /\ UNCHANGED <<closed, supSuspended, supClosed, restarting, stopping,
                   escalated>>

-----------------------------------------------------------------------------
(* The end of inform(): the strategy is known, and a directive is decided    *)
(* and executed in one piece.                                                *)

InformEnds == /\ loop = "deciding"
              /\ loop' = "returning"
              /\ UNCHANGED <<informs, deciding, seen, supClosed>>

DecideResume ==
    /\ InformEnds
    /\ suspended' = suspended \ {To[deciding]}
    /\ UNCHANGED <<outcome, closed, context, supSuspended, directiveVars>>

(* Mutation of DecideRestart: the mailbox does not wait for the restart. *)
DecideRestartAndResume ==
    /\ InformEnds
    /\ restarting' = restarting \cup {deciding}
    /\ suspended' = suspended \ {To[deciding]}
    /\ UNCHANGED <<outcome, closed, context, supSuspended, stopping, lost,
                   escalated>>

DecideRestart ==
    /\ InformEnds
    /\ restarting' = restarting \cup {deciding}
    /\ UNCHANGED <<actorVars, supSuspended, stopping, lost, escalated>>

(* Mutation of DecideStop: the actor is noted in the place of its failure. *)
DecideStopOfActor ==
    /\ InformEnds
    /\ stopping' = stopping \cup {To[deciding]}
    /\ UNCHANGED <<actorVars, supSuspended, restarting, lost, escalated>>

DecideStop ==
    /\ InformEnds
    /\ stopping' = stopping \cup {deciding}
    /\ UNCHANGED <<actorVars, supSuspended, restarting, lost, escalated>>

(* The supervisor leaves the actor suspended. *)
DecideNothing ==
    /\ InformEnds
    /\ lost' = lost \cup {deciding}
    /\ UNCHANGED <<actorVars, supSuspended, restarting, stopping, escalated>>

(* escalate() calls supervisor() and then inform() on what the supervisor's  *)
(* proxy answers, a promise: it throws.                                      *)
Escalate ==
    /\ InformEnds
    /\ escalated' = escalated \cup {deciding}
    /\ lost' = lost \cup {deciding}
    /\ supSuspended' = TRUE
    /\ UNCHANGED <<actorVars, restarting, stopping>>

(* Mutation of DecideFails: the supervisor forgets the failure it handled. *)
DecideFailsAndForgets ==
    /\ InformEnds
    /\ supSuspended' = TRUE
    /\ UNCHANGED <<actorVars, directiveVars>>

(* A throw in decideDirective(), and every restart or stop with scope All:   *)
(* selfWithSiblings() takes the promise of the parent's actor() for the      *)
(* parent.  It is a failure of the supervisor, whose mailbox is suspended.   *)
DecideFails ==
    /\ InformEnds
    /\ lost' = lost \cup {deciding}
    /\ supSuspended' = TRUE
    /\ UNCHANGED <<actorVars, restarting, stopping, escalated>>

(* The restart has ended, well or not: the mailbox is resumed. *)
RestartEnds(r) ==
    /\ r \in restarting
    /\ restarting' = restarting \ {r}
    /\ suspended' = suspended \ {To[r]}
    /\ UNCHANGED <<outcome, closed, context, supervisorVars, stopping, lost,
                   escalated>>

StopCloses(r) ==
    /\ r \in stopping
    /\ stopping' = stopping \ {r}
    /\ closed' = closed \cup {To[r]}
    /\ UNCHANGED <<outcome, suspended, context, supervisorVars, restarting, lost,
                   escalated>>

-----------------------------------------------------------------------------
(* The supervisor's own life *)

SupervisorContinues ==
    /\ loop = "returning"
    /\ InformLoop(supSuspended, informs, context)
    /\ UNCHANGED <<actorVars, supSuspended, supClosed, directiveVars>>

(* Mutation of RootRestarts: the flag is cleared and nobody dispatches. *)
RootRestartsQuietly ==
    /\ supSuspended
    /\ supSuspended' = FALSE
    /\ UNCHANGED <<actorVars, informs, loop, deciding, seen, supClosed,
                   directiveVars>>

(* PublicRootActor was informed of the failure, restarts the supervisor and  *)
(* resumes its mailbox.                                                      *)
RootRestarts ==
    /\ supSuspended
    /\ supSuspended' = FALSE
    /\ IF loop = "idle"
       THEN InformLoop(FALSE, informs, context)
       ELSE UNCHANGED <<informs, loop, deciding, seen>>
    /\ UNCHANGED <<actorVars, supClosed, directiveVars>>

(* The supervisor is stopped; failures it was informed of stay in its queue. *)
SupervisorStops ==
    /\ ~supClosed
    /\ supClosed' = TRUE
    /\ lost' = lost \cup ToSet(informs)
    /\ UNCHANGED <<actorVars, informs, loop, deciding, seen, supSuspended,
                   restarting, stopping, escalated>>

Handler(r) == HandlerSucceeds(r) \/ HandlerFails(r)

Decide == \/ DecideResume \/ DecideRestart \/ DecideStop \/ DecideNothing
          \/ Escalate \/ DecideFails

Next == \/ \E r \in Requests : \/ Begin(r) \/ Handler(r)
                               \/ RestartEnds(r) \/ StopCloses(r)
        \/ Decide \/ SupervisorContinues \/ RootRestarts \/ SupervisorStops

Spec == Init /\ [][Next]_vars

(* inform() ends, loops go on, hooks of restarts and stops end, and the root *)
(* restarts.  Handlers need not end, and nobody need send.                   *)
FairSpec == /\ Spec
            /\ WF_vars(Decide)
            /\ WF_vars(SupervisorContinues)
            /\ WF_vars(RootRestarts)
            /\ \A r \in Requests : WF_vars(RestartEnds(r)) /\ WF_vars(StopCloses(r))

-----------------------------------------------------------------------------
(* Properties *)

(* The failures some step will still act upon. *)
InformPending(r) == r \in ToSet(informs) \/ (loop = "deciding" /\ deciding = r)

Owed(r) == InformPending(r) \/ r \in restarting \cup stopping

(* One owner: a suspended actor has exactly one failure under supervision,   *)
(* or lost, and an actor that is not suspended has none: no directive of an  *)
(* earlier failure comes late, and no second one is on its way.              *)
OneOwner ==
    \A a \in Actors \ closed :
        Cardinality({r \in Requests : To[r] = a /\ (Owed(r) \/ r \in lost)})
            = IF a \in suspended THEN 1 ELSE 0

(* A supervisor never takes the context of another request for that of the   *)
(* failed one; at worst it finds none.                                       *)
NoForeignContext == loop = "deciding" => seen \in {deciding, NoRequest}

(* No handler runs on an actor while its restart is under way.               *)
NoHandlerDuringRestart ==
    \A r \in restarting : To[r] \in suspended /\ ~Busy(To[r])

(* A supervisor that fails, and is restarted, goes on with the other         *)
(* failures: the actor of each one resumes or stops in the end, unless its   *)
(* own directive threw or left it suspended, or the supervisor was stopped.  *)
FailuresAreDecided ==
    \A r \in Requests :
        Owed(r) ~> \/ To[r] \notin suspended \/ To[r] \in closed
                   \/ r \in lost \/ supClosed

(* What the documentation says of Escalate: the error is forwarded to the    *)
(* parent supervisor, PublicRootActor, which restarts the actor.             *)
EscalationIsDecided ==
    \A r \in Requests :
        r \in escalated ~> \/ To[r] \notin suspended \/ To[r] \in closed
                           \/ supClosed

(* What the documentation says of the execution context: a supervisor that   *)
(* decides on a failure reads the context of the failed message.             *)
DecidesWithContext == loop = "deciding" => context[To[deciding]] = deciding
=============================================================================
