----------------------------- MODULE ActorTree -----------------------------
(***************************************************************************)
(* The tree of actors under PrivateRootActor and PublicRootActor, their    *)
(* directory, the failures they report to supervisors that are actors of   *)
(* the tree themselves, and the ways in which actors stop: by a stop()     *)
(* message of a client or of the parent, with a timeout, by a directive of *)
(* a supervisor, and by LocalStage.close().                                *)
(*                                                                         *)
(* LifeCycle.stop() is a coroutine: it awaits its hook and then, one after *)
(* the other, the answers of the children.  Several of them can be under   *)
(* way for one actor.                                                      *)
(***************************************************************************)
EXTENDS Directory

CONSTANTS PrivateRoot, PublicRoot,
          Creator,        \* the actor that creates each actor as its child,
                          \* or NoActor: a client does, without a parent
          Named,          \* the parents that callers may name for each actor
          SupervisorName, \* the type of the supervisor of each actor
          HashCode,       \* the hash codes of the addresses
          Registered,     \* the types registered as supervisors of the stage
          Fallible,       \* the actors whose start() or handlers may fail
          ClientCalls     \* the messages of clients, each sent at most once

Start == <<NoActor, "start">>
Request == <<NoActor, "request">>
NoMessage == <<NoActor, "none">>

(* inform(): the supervisor is told of a failure of a. *)
Inform(a) == <<a, "inform">>
Informs == {Inform(a) : a \in Actors}

(* A stop() message is named after its sender: a client, without and with a  *)
(* timeout, the stage, or a stop sequence of the parent.  Besides the        *)
(* sequence of its stop() message an actor may have those of directives; at  *)
(* most as many as Directives has names are under way at a time.             *)
Directives == {"directive", "second directive"}
Sequences == Actors \X ({"message"} \cup Directives)
ClientStop == <<NoActor, "stop">>
TimedStop == <<NoActor, "timed stop">>
Close == <<NoActor, "close">>
Stops == {ClientStop, TimedStop, Close} \cup Sequences

ASSUME TreeAssumption ==
    /\ {PrivateRoot, PublicRoot} \subseteq Actors
    /\ PrivateRoot # PublicRoot
    /\ \A r \in {PrivateRoot, PublicRoot}, a \in Actors : Type[a] = Type[r] => a = r
    /\ Creator \in [Actors -> Actors \cup {NoActor}]
    /\ Named \in [Actors -> SUBSET Actors]
    /\ SupervisorName \in [Actors -> Types]
    /\ \A a \in Actors : a \in Fallible \/ <<a, TimedStop>> \in ClientCalls
                         => SupervisorName[a] # Type[a]
    /\ HashCode \in [Actors -> Nat]
    /\ Registered \subseteq Types /\ Fallible \subseteq Actors
    /\ ClientCalls \subseteq Actors \X {Request, ClientStop, TimedStop}

VARIABLES
    created, directory, parent, children,
    closed, suspended,           \* the mailboxes,
    mailbox,       \* their queues, the messages handled, the dispatch loops
    sent,          \* the messages clients have sent
    supervisor,    \* the supervisors actors have looked up
    phase, left,   \* the stop sequences, and the children they still stop
    finished,      \* history: the actors whose afterStop() has run
    late,          \* history: the actors created under a stopping parent
    unheard,       \* history: the actors with a failure nobody was told of
    closing, toStop,    \* close() of the stage
    snapshot            \* history: the actors close() found

treeVars == <<created, directory, parent, children, late>>
mailboxVars == <<closed, suspended, mailbox>>
supervisionVars == <<supervisor, unheard>>
stopVars == <<phase, left, finished>>
stageVars == <<closing, toStop, snapshot>>
vars == <<treeVars, mailboxVars, sent, supervisionVars, stopVars, stageVars>>

Mailboxes == [queue : Seq({Request} \cup Informs \cup Stops),
              handling : {Start, Request, NoMessage} \cup Informs \cup Stops,
              loop : {"idle", "awaiting", "returning"}]

TypeOK ==
    /\ created \subseteq Actors /\ directory \in Directories
    /\ parent \in [Actors -> Actors \cup {NoActor}]
    /\ children \in [Actors -> Seq(Actors)]
    /\ closed \subseteq Actors /\ suspended \subseteq Actors
    /\ mailbox \in [Actors -> Mailboxes]
    /\ \A a \in Actors :
          mailbox[a].handling # NoMessage <=> mailbox[a].loop = "awaiting"
    /\ sent \subseteq ClientCalls
    /\ supervisor \in [Actors -> Actors \cup {NoActor}]
    /\ phase \in [Sequences -> {"none", "hook", "children"}]
    /\ left \in [Sequences -> Seq(Actors)]
    /\ finished \subseteq Actors /\ late \subseteq Actors
    /\ unheard \subseteq Actors
    /\ closing \in {"open", "closing", "closed"}
    /\ toStop \in Seq(Actors) /\ snapshot \subseteq Actors

(* The stage after initializeRootActors(): two idle roots. *)
Init ==
    /\ created = {PrivateRoot, PublicRoot}
    /\ directory =
          SetIn(SetIn(EmptyDirectory, PrivateRoot, HashCode[PrivateRoot]),
                PublicRoot, HashCode[PublicRoot])
    /\ parent = [a \in Actors |-> IF a = PublicRoot THEN PrivateRoot ELSE NoActor]
    /\ children = [a \in Actors |->
                      IF a = PrivateRoot THEN <<PublicRoot>> ELSE <<>>]
    /\ closed = {} /\ suspended = {}
    /\ mailbox = [a \in Actors |->
          [queue |-> <<>>, handling |-> NoMessage, loop |-> "idle"]]
    /\ sent = {}
    /\ supervisor = [a \in Actors |-> NoActor]
    /\ phase = [s \in Sequences |-> "none"]
    /\ left = [s \in Sequences |-> <<>>]
    /\ finished = {} /\ late = {} /\ unheard = {}
    /\ closing = "open" /\ toStop = <<>> /\ snapshot = {}

(* Whether get() of the directory finds a. *)
Found(a) == GetFrom(directory, a, HashCode[a]) # NoActor

(* Whether the stop() message m, which only one actor is sent, is unanswered. *)
AwaitsAnswer(a, m) ==
    mailbox[a].handling = m \/ m \in ToSet(mailbox[a].queue)
Pending(m) == \E a \in Actors : AwaitsAnswer(a, m)

-----------------------------------------------------------------------------
(* Mailboxes *)

(* One round of the dispatch loop of a mailbox. *)
Dispatch(box, receivable) ==
    IF receivable /\ box.queue # <<>>
    THEN [queue |-> Tail(box.queue), handling |-> Head(box.queue),
          loop |-> "awaiting"]
    ELSE [box EXCEPT !.handling = NoMessage, !.loop = "idle"]

(* A closed mailbox refuses messages, and their callers are answered. *)
Send(a, box, messages) ==
    LET longer == [box EXCEPT !.queue = @ \o messages]
    IN  IF a \in closed THEN box
        ELSE IF a \notin suspended /\ box.loop = "idle"
             THEN Dispatch(longer, TRUE) ELSE longer

(* Mutation of Answered: the message is still taken for the one handled. *)
AnsweredAndKept(box) == [box EXCEPT !.loop = "returning"]

(* The end of a handler, and the return of its answer to the loop. *)
Answered(box) == [box EXCEPT !.handling = NoMessage, !.loop = "returning"]

(* The handler of a stop() message runs up to the await of beforeStop() in   *)
(* the step that takes the message.                                          *)
EnterHooks(phases) ==
    phase' = [s \in Sequences |->
        IF /\ s[2] = "message"
           /\ mailbox[s[1]].handling \notin Stops
           /\ mailbox'[s[1]].handling \in Stops
        THEN "hook" ELSE phases[s]]

ClientSends(a, m) ==
    /\ a \in created
    /\ <<a, m>> \in ClientCalls \ sent
    /\ sent' = sent \cup {<<a, m>>}
    /\ mailbox' = [mailbox EXCEPT ![a] = Send(a, @, <<m>>)]
    /\ EnterHooks(phase)
    /\ UNCHANGED <<treeVars, closed, suspended, supervisionVars, left, finished,
                   stageVars>>

(* Mutation of LoopReturns: the loop ends without another look. *)
LoopEnds(a) ==
    /\ mailbox[a].loop = "returning"
    /\ mailbox' = [mailbox EXCEPT ![a].loop = "idle"]
    /\ UNCHANGED <<treeVars, closed, suspended, sent, supervisionVars, stopVars,
                   stageVars>>

LoopReturns(a) ==
    /\ mailbox[a].loop = "returning"
    /\ mailbox' = [mailbox EXCEPT
          ![a] = Dispatch(@, a \notin closed \cup suspended)]
    /\ EnterHooks(phase)
    /\ UNCHANGED <<treeVars, closed, suspended, sent, supervisionVars, left,
                   finished, stageVars>>

HandlerEnds(a) ==
    /\ mailbox[a].handling \in {Start, Request}
    /\ mailbox' = [mailbox EXCEPT ![a] = Answered(@)]
    /\ UNCHANGED <<treeVars, closed, suspended, sent, supervisionVars, stopVars,
                   stageVars>>

-----------------------------------------------------------------------------
(* Supervision *)

(* The supervisor is looked up by its type at the first failure only. *)
SupervisorOf(a) == IF supervisor[a] # NoActor THEN supervisor[a]
                   ELSE FindByType(directory, SupervisorName[a])

(* A message of a fails: the mailbox is suspended, and the supervisor is     *)
(* sent as many inform() messages as there are routes for the failure.  A    *)
(* supervisor that is not found, or whose mailbox is closed, is not told.    *)
Fails(a, routes) ==
    LET s == SupervisorOf(a)
        informs == [i \in 1 .. routes |-> Inform(a)]
        told == IF s = NoActor THEN mailbox
                ELSE [mailbox EXCEPT ![s] = Send(s, @, informs)]
    IN  /\ suspended' = suspended \cup {a}
        /\ supervisor' = [supervisor EXCEPT ![a] = s]
        /\ unheard' = IF s \in closed \cup {NoActor} THEN unheard \cup {a}
                      ELSE unheard
        /\ mailbox' = [told EXCEPT ![a] = Answered(@)]
        /\ UNCHANGED <<treeVars, sent, stopVars, stageVars>>

(* The failure of start() is routed twice: by deliver() and by the catch of  *)
(* the promise in LocalStage.start().                                        *)
HandlerFails(a) ==
    /\ a \in Fallible
    /\ mailbox[a].handling \in {Start, Request}
    /\ Fails(a, IF mailbox[a].handling = Start THEN 2 ELSE 1)
    /\ UNCHANGED closed

(* The three ways in which a supervisor settles a failure of a. *)
Decide(s, a) ==
    /\ mailbox[s].handling = Inform(a)
    /\ UNCHANGED <<treeVars, closed, sent, supervisionVars, left, finished,
                   stageVars>>

(* restartWithin() and resume(): a loop of a that has not ended goes on. *)
DecideResume(s, a) ==
    /\ Decide(s, a)
    /\ suspended' = suspended \ {a}
    /\ LET answered == [mailbox EXCEPT ![s] = Answered(@)]
       IN  mailbox' = [answered EXCEPT
              ![a] = IF @.loop = "idle" THEN Dispatch(@, a \notin closed) ELSE @]
    /\ EnterHooks(phase)

(* The directive calls LifeCycle.stop() itself; it returns at once if the    *)
(* actor is stopped.                                                         *)
DecideStop(s, a) ==
    /\ Decide(s, a)
    /\ mailbox' = [mailbox EXCEPT ![s] = Answered(@)]
    /\ \/ /\ a \in closed
          /\ UNCHANGED phase
       \/ /\ a \notin closed
          /\ \E way \in Directives :
                /\ phase[<<a, way>>] = "none"
                /\ phase' = [phase EXCEPT ![<<a, way>>] = "hook"]
    /\ UNCHANGED suspended

DecideNothing(s, a) ==
    /\ Decide(s, a)
    /\ mailbox' = [mailbox EXCEPT ![s] = Answered(@)]
    /\ UNCHANGED <<suspended, phase>>

-----------------------------------------------------------------------------
(* Creation and removal *)

(* PublicRootActor, until its afterStop(); the roots are never created anew. *)
DefaultParent == IF PublicRoot \in finished THEN NoActor ELSE PublicRoot

(* Mutation of ParentFor: the creator is not looked up. *)
ParentUnchecked(a) ==
    IF Creator[a] # NoActor THEN Creator[a] ELSE DefaultParent

(* childActorFor() looks its own actor up; one that is not in the directory  *)
(* any more is undefined as a parent.                                        *)
ParentFor(a) ==
    IF Creator[a] # NoActor /\ Found(Creator[a]) THEN Creator[a]
    ELSE DefaultParent

(* A parent that the caller of actorFor() names is taken as it is, stopped    *)
(* or not.                                                                    *)
ParentsFor(a) == {ParentFor(a)} \cup (Named[a] \cap created)

(* The children of p with a, or without a; an actor may have no parent. *)
AddChild(p, a) ==
    [q \in Actors |-> IF q = p THEN Append(children[q], a) ELSE children[q]]
RemoveChild(p, a) ==
    [q \in Actors |-> IF q = p THEN RemoveFirst(children[q], a) ELSE children[q]]

(* The actor is registered and becomes a child of its parent, if it has one, *)
(* whatever the parent is about.  The start() message is sent last, to an    *)
(* idle mailbox.                                                             *)
ActorFor(a) ==
    /\ a \notin created /\ Creator[a] \in created \cup {NoActor}
    /\ created' = created \cup {a}
    /\ directory' = SetIn(directory, a, HashCode[a])
    /\ \E p \in ParentsFor(a) :
          /\ parent' = [parent EXCEPT ![a] = p]
          /\ children' = AddChild(p, a)
          /\ late' = IF \/ p \in closed
                        \/ \E s \in Sequences : s[1] = p /\ phase[s] = "children"
                     THEN late \cup {a} ELSE late
    /\ mailbox' = [mailbox EXCEPT ![a].handling = Start, ![a].loop = "awaiting"]
    /\ UNCHANGED <<closed, suspended, sent, supervisionVars, stopVars,
                   stageVars>>

-----------------------------------------------------------------------------
(* LifeCycle.stop() after its awaits *)

(* The handler of the stop() message, unless it has timed out, is answered. *)
StopAnswered(s) ==
    LET a == s[1]
    IN  mailbox' = IF s[2] = "message" /\ mailbox[a].handling # NoMessage
                   THEN [mailbox EXCEPT ![a] = Answered(@)] ELSE mailbox

(* Mutation of Finish: the parent keeps the stopped child. *)
FinishKeptByParent(s) ==
    LET a == s[1]
    IN  /\ closed' = closed \cup {a}
        /\ directory' = RemoveFrom(directory, a, HashCode[a])
        /\ finished' = finished \cup {a}
        /\ phase' = [phase EXCEPT ![s] = "none"]
        /\ StopAnswered(s)
        /\ UNCHANGED children

(* The end: parent, mailbox, directory, and afterStop() of the actor. *)
Finish(s) ==
    LET a == s[1]
    IN  /\ children' = RemoveChild(parent[a], a)
        /\ closed' = closed \cup {a}
        /\ directory' = RemoveFrom(directory, a, HashCode[a])
        /\ finished' = finished \cup {a}
        /\ phase' = [phase EXCEPT ![s] = "none"]
        /\ StopAnswered(s)

(* The next child is sent a stop() message, or there is none left. *)
StopNext(s, cs) ==
    /\ left' = [left EXCEPT ![s] = cs]
    /\ \/ /\ cs = <<>>
          /\ Finish(s)
       \/ /\ cs # <<>>
          /\ LET c == Head(cs)
             IN  mailbox' = [mailbox EXCEPT ![c] = Send(c, @, <<s>>)]
          /\ EnterHooks([phase EXCEPT ![s] = "children"])
          /\ UNCHANGED <<children, closed, directory, finished>>
    /\ UNCHANGED <<created, parent, late, suspended, sent,
                   supervisionVars, stageVars>>

(* beforeStop() has ended; the children are those of this moment. *)
HookEnds(s) ==
    /\ phase[s] = "hook"
    /\ StopNext(s, children[s[1]])

(* Mutation of ChildAnswers: the answer of the child is not awaited. *)
ChildNotAwaited(s) ==
    /\ phase[s] = "children"
    /\ StopNext(s, Tail(left[s]))

ChildAnswers(s) ==
    /\ phase[s] = "children"
    /\ ~Pending(s)
    /\ StopNext(s, Tail(left[s]))

(* The timer of stopWithTimeout(): the mailbox is closed and the message     *)
(* fails, which the supervisor is told too, while the sequence goes on.      *)
TimerFires(a) ==
    /\ mailbox[a].handling = TimedStop
    /\ closed' = closed \cup {a}
    /\ Fails(a, 1)

-----------------------------------------------------------------------------
(* LocalStage.close() *)

(* The order: applications, registered supervisors, and the two roots. *)
Group(a) == IF a = PrivateRoot THEN 4
            ELSE IF a = PublicRoot THEN 3
            ELSE IF Type[a] \in Registered THEN 2 ELSE 1

(* The loop of close() that puts one actor after the other into its group. *)
InGroups(actors) ==
    LET groups[i \in 0 .. Len(actors)] ==
            IF i = 0 THEN [g \in 1 .. 4 |-> <<>>]
            ELSE [groups[i - 1] EXCEPT ![Group(actors[i])] = Append(@, actors[i])]
    IN  groups[Len(actors)]

(* The actors of the directory, group by group. *)
Categorized ==
    LET groups == InGroups(AllOf(directory))
    IN  groups[1] \o groups[2] \o groups[3] \o groups[4]

CloseBegins ==
    /\ closing = "open"
    /\ closing' = "closing"
    /\ toStop' = Categorized
    /\ snapshot' = ToSet(AllOf(directory))
    /\ UNCHANGED <<treeVars, mailboxVars, sent, supervisionVars, stopVars>>

(* Mutation of CloseStops: the stage does not await the answers. *)
CloseStopsAll(a) ==
    /\ closing = "closing"
    /\ toStop # <<>> /\ a = Head(toStop)
    /\ toStop' = Tail(toStop)
    /\ mailbox' = [mailbox EXCEPT ![a] = Send(a, @, <<Close>>)]
    /\ EnterHooks(phase)
    /\ UNCHANGED <<treeVars, closed, suspended, sent, supervisionVars, left,
                   finished, closing, snapshot>>

CloseStops(a) ==
    /\ closing = "closing" /\ ~Pending(Close)
    /\ toStop # <<>> /\ a = Head(toStop)
    /\ toStop' = Tail(toStop)
    /\ mailbox' = [mailbox EXCEPT ![a] = Send(a, @, <<Close>>)]
    /\ EnterHooks(phase)
    /\ UNCHANGED <<treeVars, closed, suspended, sent, supervisionVars, left,
                   finished, closing, snapshot>>

CloseEnds ==
    /\ closing = "closing" /\ ~Pending(Close)
    /\ toStop = <<>>
    /\ closing' = "closed"
    /\ UNCHANGED <<treeVars, mailboxVars, sent, supervisionVars, stopVars, toStop,
                   snapshot>>

-----------------------------------------------------------------------------
Handler(a) == HandlerEnds(a) \/ HandlerFails(a)
Directive(s, a) == DecideResume(s, a) \/ DecideStop(s, a) \/ DecideNothing(s, a)
StopGoesOn(s) == HookEnds(s) \/ ChildAnswers(s)
CloseGoesOn == (\E a \in Actors : CloseStops(a)) \/ CloseEnds

Next == \/ \E a \in Actors : \/ ActorFor(a) \/ LoopReturns(a) \/ Handler(a)
                             \/ TimerFires(a)
                             \/ \E s \in Actors : Directive(s, a)
                             \/ \E m \in {Request, ClientStop, TimedStop} :
                                    ClientSends(a, m)
        \/ \E s \in Sequences : StopGoesOn(s)
        \/ CloseBegins \/ CloseGoesOn

Spec == Init /\ [][Next]_vars

(* Loops and coroutines go on, handlers, hooks and supervisors end.  Each of *)
(* these steps is fair; as no behaviour has infinitely many of them, that is *)
(* the fairness of their disjunction.                                        *)
Progress == \/ \E a \in Actors : \/ LoopReturns(a) \/ Handler(a)
                                 \/ \E s \in Actors : Directive(s, a)
            \/ \E s \in Sequences : StopGoesOn(s)
            \/ CloseGoesOn

FairSpec == Spec /\ WF_vars(Progress)

-----------------------------------------------------------------------------
(* Properties *)

(* Depth first: an actor that has run afterStop() leaves no open child, but  *)
(* for those created after it had begun to stop its children.                *)
ChildrenStopFirst ==
    \A a \in finished : ToSet(children[a]) \subseteq closed \cup late

(* LocalStage.close() stops one actor at a time: of those it has sent a      *)
(* stop() message at most one is open, it has yet to answer, and all others, *)
(* those of earlier phases among them, are closed.  The roots are last.      *)
CloseInOrder ==
    LET told == snapshot \ ToSet(toStop)
    IN  \A a \in told : a \notin closed =>
            /\ AwaitsAnswer(a, Close)
            /\ \A b \in told : b # a => b \in closed
            /\ \A b \in ToSet(toStop) : Group(a) <= Group(b)

(* The directory, its index and the children of the parents agree on who is  *)
(* alive: exactly the actors that have not run afterStop(), each of them in  *)
(* one bucket, and once among the children of its parent if it has one.      *)
TreeAgrees ==
    /\ \A a \in Actors : Found(a) <=> a \in created \ finished
    /\ SizeOf(directory) = Cardinality(created \ finished)
    /\ finished \subseteq closed
    /\ \A t \in Types : FindByType(directory, t) \notin finished
    /\ \A p \in Actors :
          LET its == {a \in created \ finished : parent[a] = p}
          IN  ToSet(children[p]) = its /\ Len(children[p]) = Cardinality(its)

(* However many stop sequences an actor goes through, the index by type      *)
(* loses an entry only when an actor of that type leaves the directory, and  *)
(* not when an actor is removed that had left it before.                     *)
IndexOutlivesSecondStop ==
    [][\A t \in Types :
          /\ FindByType(directory, t) # NoActor
          /\ FindByType(directory', t) = NoActor
          => \E a \in Actors : Found(a) /\ ~Found(a)' /\ Type[a] = t]_vars

(* The tree keeps the promise of ActorLives: an actor gets a live parent,     *)
(* unless its caller names one that is not, and keeps it; it ends once, after *)
(* the children it has to stop, and never returns.                            *)
Leaving == closed \cup {a \in Actors : \E s \in Sequences :
                                         s[1] = a /\ phase[s] = "children"}

Lives == INSTANCE ActorLives WITH stopping <- Leaving

ImplementsLives == Lives!Spec

(* The supervisor that an actor names is a root, as when it names none, or   *)
(* has the type of its creator, and so was there before the actor.           *)
SupervisorsExist ==
    \A a \in Actors : \/ SupervisorName[a] \in {Type[PrivateRoot], Type[PublicRoot]}
                      \/ /\ a \notin {PrivateRoot, PublicRoot}
                         /\ Creator[a] # NoActor
                         /\ SupervisorName[a] = Type[Creator[a]]

(* A failure that no supervisor is told of, because the actor has none in    *)
(* the directory or one that it found earlier is closed, is that of an actor *)
(* whose supervisor, or another actor of its type, was stopped.              *)
FailuresAreHeard ==
    \A a \in unheard : \E s \in closed : Type[s] = SupervisorName[a]

(* A stop() message in a closed mailbox, which is never answered. *)
Buried == \E a \in closed : \E m \in Stops : m \in ToSet(mailbox[a].queue)

(* A supervisor has been told of a failure of a and will come to it. *)
Told(a) == \E s \in Actors :
              \/ mailbox[s].handling = Inform(a)
              \/ s \notin closed /\ Inform(a) \in ToSet(mailbox[s].queue)

(* An open actor that no directive will wake or stop. *)
Deserted == \E a \in suspended \ closed :
               /\ ~Told(a)
               /\ \A s \in Sequences : s[1] = a => phase[s] = "none"

(* The failure of a suspended actor waits behind a stop() message that its   *)
(* supervisor is handling, as when the supervisor is the parent and awaits   *)
(* the stop of that very actor.                                              *)
CaughtInStop(a) == \E s \in Actors \ closed :
                      /\ mailbox[s].handling \in Stops
                      /\ Inform(a) \in ToSet(mailbox[s].queue)
Caught == \E a \in suspended \ closed : CaughtInStop(a)

(* Every stop sequence, and close(), ends: it waits for ever only for an     *)
(* actor that was left suspended, for one whose supervisor is being stopped  *)
(* itself, or for one in whose closed mailbox a stop() lies.                 *)
Stopping == closing = "closing" \/ \E s \in Sequences : phase[s] # "none"

StopsEnd == Stopping ~> ~Stopping \/ Buried \/ Deserted \/ Caught

(* A supervisor that is told of a failure gets to it, unless its own stop    *)
(* comes first and does not end.                                             *)
FailuresAreSettled ==
    \A a \in Fallible : Told(a) ~> ~Told(a) \/ CaughtInStop(a)

(* What the code says of stop(): it answers a promise "that resolves when    *)
(* stop completes".  So a time comes at which no stop() is unanswered.       *)
StopIsAnswered ==
    LET unanswered == \E m \in Stops : Pending(m) IN unanswered ~> ~unanswered
=============================================================================
