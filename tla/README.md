# DomoActors-TS in TLA+

This directory is a verification project for DomoActors-TS 1.2.2, the actor
toolkit under `src/` (TypeScript, `src/actors`), and for the bank that ships
with it as an example (`examples/bank`). It holds TLA+ modules translated from
the source, TLC configurations that check them on small instances, and proofs
that the TLA+ proof system (TLAPS) checks for every value of the constants.

Run a check with `tlc -config X.cfg M` and a proof with `tlapm M.tla`, in this
directory. `PROJECT.json` lists, for each definition, the source lines it models.

## The system

The toolkit runs actors in one JavaScript thread. There is no parallelism, and
yet there is concurrency: whatever `await`s a promise gives up the thread, and
the event loop runs any other continuation, timer or send in between. All the
interleaving in these modules is of that kind. An action of a module is one
piece of code from where it gets the thread to where it gives it up.

| part | state | operations | interacts with |
|---|---|---|---|
| `ArrayMailbox` | `queue`, `closed`, `suspended`, `dispatching` | `send`, `dispatch`, `receive`, `suspend`, `resume`, `close` | messages it delivers, dead letters |
| `BoundedMailbox`, `OverflowPolicy` | the same without `dispatching`; `capacity`, drop count | the same, with an overflow policy | the same |
| `LocalMessage`, `DeferredPromise` | the promise of the sender, the execution context of the send | `deliver` | the actor's handler, its mailbox (suspend), the stage (failures) |
| `ActorProxy` | - | turns a call into a message; answers the `ActorProtocol` methods itself | mailbox |
| `Actor`, `LifeCycle` | environment | `start`, `stop`, `restart`, hooks, `selfAs` | children, parent, mailbox, directory |
| `LocalStage` | directory, root actors, supervisors, registries | `actorFor`, `start`, `handleFailureOf`, `close` | every actor |
| `Supervisor`, `DefaultSupervisor` | - | `inform`, directives `restartWithin`, `resume`, `stop`, `escalate`, `suspend` | the failed actor's life cycle and mailbox |
| `Environment` | children, parent, cached supervisor, execution contexts | `supervisor`, `addChild`, `removeChild` | directory |
| `Directory` | actors by address, one actor by type | `set`, `get`, `remove`, `findByType`, `all` | - |
| `Scheduler` | tasks, closed flag | `schedule`, `scheduleOnce`, `cancel`, `close` | timers |
| `DeadLetters` | listeners | `failedDelivery` | mailboxes, messages |
| `ExecutionContext` | values of a request | `copy`, `propagate`, `reset` | proxies, `deliver` |
| bank example | accounts, balances, histories, pending transfers | `openAccount`, `deposit`, `withdraw`, `transfer`, ... | all of the above |

What makes it hard:

* one dispatch loop per mailbox is a coroutine; `send` and `resume` must not
  start a second one, and must not trust one that is about to end
  (`ArrayMailbox`), or several loops share a queue (`BoundedMailbox`);
* a failure suspends the mailbox and leaves the decision to another actor, so
  the directive comes later, after other failures, a stop, or never;
* a failing start has up to three failures to report, each of them with its own
  supervision;
* awaits between actors, and of an actor on itself, can close a circle;
* stop sequences wait for children that may be suspended, busy or stopping;
* the answer of a stopped actor is a *resolved* promise (`'actor stopped'`);
* timers outlive the actors that set them;
* a supervisor is an actor: it is found through the directory, kept in a cache,
  and may be stopped, or be stopping, when a failure needs it.

What makes each component correct:

* mailboxes: no lost wakeup, one handler at a time, acceptance order, one
  settlement for each message, every drop and refusal told to its sender;
* supervision: a failed actor handles nothing before the decision, and a
  suspended actor always has somebody who will resume or stop it;
* calls: no circular wait, every call answered;
* life cycle: a stop ends, stops the children first, and leaves no trace in
  directory and parent;
* scheduler: nothing fires after a successful `cancel()` or `close()`, and no
  timer is armed that nobody can clear;
* bank: the books balance, each transfer has exactly one next step until it is
  done, every command is answered, every transfer ends.

## Modules

| module | models | role |
|---|---|---|
| `ActorDelivery` | what an actor promises its senders, with no mailbox in sight | abstract specification |
| `ArrayMailbox` | one actor behind an `ArrayMailbox`: `ActorProxy`, `ArrayMailbox`, `LocalMessage.deliver`, `LocalStage.start`, `StageSupervisedActor` | detailed specification, refines `ActorDelivery` |
| `ArrayMailboxProofs` | - | inductive invariant, refinement and theorems |
| `QueueLemmas` | - | facts about sequences, finite sets, counting and sums that the other proofs cite |
| `BoundedMailbox` | one actor behind a `BoundedMailbox`, for every overflow policy | |
| `BoundedMailboxProofs` | - | inductive invariant and theorems |
| `AwaitedCalls` | several actors behind `ArrayMailbox`es that call each other and themselves; handlers are a parameter | |
| `AwaitedCallsProofs` | - | inductive invariant and theorems; well-founded awaits make no circle |
| `BankCalls` | the handlers of the bank example, as a value for that parameter | |
| `Supervision` | several actors, their supervisor as an actor with a mailbox, and the root above it: `handleFailureOf`, `inform`, the directives, the execution context | |
| `SupervisionProofs` | - | inductive invariant and theorems |
| `Directory` | the buckets and the index by type, as operators on a value | used by `ActorTree` |
| `ActorLives` | what the stage promises about the lives of actors: a live parent unless the caller names another, one end, after the children | abstract specification |
| `ActorTree` | the tree of actors, who supervises whom, every way to stop an actor, and `LocalStage.close` | detailed specification, refines `ActorLives` |
| `ActorTreeProofs` | - | inductive invariant, refinement and theorems |
| `Scheduler` | `DefaultScheduler`: tasks, their timers, `cancel`, `close` | composed with its users by `BankExample` |
| `BankExample` | the bank example from the command line to the balances: commands, teller, bank, coordinator, accounts, supervisors, retries, execution contexts, the end of the stage | |
| `BankExampleProofs` | - | inductive invariants and theorems about contexts, transfers and timers |
| `BankBooksProofs` | - | inductive invariants and theorems that the books balance and that types are kept |
| `MCArrayMailbox`, `MCAwaitedCalls`, `MCBankCalls`, `MCSupervision`, `MCActorTree`, `MCBankExample` | - | instances for TLC |

### ArrayMailbox and ActorDelivery

`closed`, `suspended`, `dispatching` and `queue` are the fields of the class.
`loop` and `current` are the state of the coroutine in `dispatch()`: `idle`,
`awaiting` the handler of `current`, or `returning`, that is, `deliver()` has
ended and the continuation of `await` is queued but has not run. Everything
that may be interleaved between the two is (sends, a directive, a stop).
`deferred` is the promise of each message; `undecided`, `lost` and `stopping`
follow each failure until its directive has been carried out; a resume, for whatever
failure, makes those that were `lost` before irrelevant. A failure is
named by where it is caught, since a rejected `start()` is caught twice.

`DispatchLoop` is one round of the `while`, `Dispatch` the guard before it;
`Send` and `Resume` contain the call of `dispatch()` they make, as the code runs
it in the same step up to the first `await`. The handler of a `stop()` message
is `LifeCycle.stop`, so `StopHandlerCloses` closes the mailbox while the handler
runs.

Abstractions, and why they lose nothing that the properties see:

* what handlers compute is left out; each one ends or fails, in any order with
  everything else;
* a restart is the resume that follows it (`restartWithin` calls the hooks, then
  `mailbox.resume()` whether they failed or not);
* when the supervisor is not found, `handleFailureOf` throws in the `catch` of
  `deliver()` and the exception leaves `dispatch()` through its `finally`. These
  are one step: the mailbox is suspended and no directive can arrive in the
  microtasks between the throw and the `finally`;
* the order of "the loop looks at the queue again" and "a directive resumes the
  mailbox" is left open, although the event loop fixes it for each kind of
  supervisor: some supervisors are actors with a queue of their own;
* a supervisor that was stopped, whose `inform` fails, or whose directive throws
  gives no decision: `DecideNothing`.

`ActorDelivery` has the queue of accepted messages, the sequence of messages
begun, whether a handler is running, each sender's answer, and whether the actor
is stopped. The refinement maps `queue`, `begun`, `loop = "awaiting"`,
`deferred` and `closed` to these. Failures, suspensions, supervision and the
`dispatching` flag disappear: under it, they must be invisible to senders but
for the delay.

### BoundedMailbox

The class has no `dispatching` guard, so the loops are a set: `running` holds
the messages whose handlers are awaited, `returning` those whose loop is about
to look at the queue again. Messages are numbered in the order of their sends,
which is no restriction as senders are not told apart. `policy` is chosen in
the initial state and never changes.

### AwaitedCalls and BankCalls

`Target`, `Calls` and `Awaited` say, for each message, whose it is, what its
handler sends, and which of these the handler waits for. A handler that awaits a
call holds its actor's mailbox (`loop[a] = "awaiting"`) until the answer comes.
Mailboxes are open and unsuspended here, and handlers do not fail: these
belong to `ArrayMailbox`. `BankCalls` takes the handlers of `BankActor`,
`TransferCoordinatorActor`, `AccountActor` and `TransactionHistoryActor` for a
transfer, a deposit and a query of a balance.

### Supervision

The counterpart of `ArrayMailbox`: there the supervisor is a decision that comes
at some time, here it is an actor. A request of an actor is begun, and ends or
fails. A failure (`HandlerFails`: the `catch` and the `finally` of `deliver()`)
suspends the actor, calls `inform()` on the proxy of the supervisor, and resets
the context of the actor, in one step. The call of `inform()` is a message:
`SendInform` starts the loop of an idle supervisor, up to the first `await` of
`inform()`, or queues behind the failure being decided (`informs`, `loop`). A
stopped supervisor answers with a dead letter (`lost`). `Decide` is the rest of
`inform()`, from the end of that `await`: the strategy is known, and the directive
is decided and called without a further `await`. A restart and a stop go on after
it (`restarting`, `stopping`), as nobody awaits them.

`Escalate`, and a restart or a stop with scope All (in `DecideFails`), call a
method of a proxy that is not synchronous, and use the promise it answers as if
it were the actor. They throw: a failure of the supervisor, which is suspended
until `PublicRootActor` has restarted it. `seen` is the context that an
`inform()` which is overridden, as those of the bank, reads at its beginning.

Abstractions:

* the order of an actor's requests is left open, for it is `ArrayMailbox`'s; a
  request is a message and, at the same time, the execution context of its send;
* the root's `inform`, the restart and the resume of the supervisor are one step
  that may come at any time after the failure;
* the supervisor may be stopped at any time, as by `stopWithTimeout`, whose timer
  closes a mailbox whatever its actor does. Failures in its queue are `lost`;
* the messages `supervisor()` and `actor()`, which the two mistaken calls leave in
  the mailboxes of supervisor and parent, are not there: they only read.

### Directory, ActorTree and ActorLives

`Directory` has no state of its own. Its operators act on a value with the
buckets, sequences in the order of insertion as in a JavaScript `Map`, and the
index by type, and `ActorTree` keeps one such value in `directory`. An actor stands for its
address; the hash codes of the addresses are a constant.

An actor is created (`ActorFor`: directory, type index, children of the parent,
`start()` message) whatever its parent does at that moment. `ParentFor` is
`childActorFor()`: the creator looks itself up in the directory, and one that has
left it gets a child of `PublicRootActor` instead, or, once that has stopped too,
an actor with no parent at all. A caller of `actorFor()` may also name the parent.
The code takes it as it is, stopped or not, and so does `ParentsFor`: the constant
`Named` says which parents callers may name for which actor, any that was created
by then. `Actor.ts:136` says "All actors have a parent, with PublicRootActor as the
default", and `Environment.ts:105` that a parent is undefined "only for
PrivateRootActor". Once `PublicRootActor` has stopped that is not so, and neither
`ActorTree` nor `ActorLives` says it.

`LifeCycle.stop()` is a coroutine, and `phase` says where each of them is: in
`beforeStop()`, or awaiting the answers of the children in `left`, a copy made when
the hook ended. An actor may have several: that of its `stop()` message, and those
its supervisor starts directly, two of them if `start()` failed, since this failure
is routed twice. A `stop()` message is named after its sender, so `Pending(s)` says
whether the sequence `s` still waits for a child. `StopNext` contains the call of
the next child, which runs up to the child's own hook if the child is idle, or the
end of the sequence (`Finish`). With a timeout, `TimerFires` closes the mailbox and
fails the message, and the sequence goes on behind it. `CloseBegins` takes the
list of the actors from the directory, group by group and within a group bucket by
bucket, and `CloseStops` awaits one actor after another.

`mailbox` is, for each actor, its queue, the message being handled and the state
of the loop. A failure (`Fails`) suspends the actor and sends `inform()` to the
supervisor, which is an actor of the tree: `SupervisorOf` finds it in the index by
type at the first failure, and from then on in the cache, whatever has become of
it. `inform()` waits in the supervisor's mailbox for its turn, behind a `stop()`
that the supervisor handles, for instance; `Decide` is its end.

`ActorLives` has none of this: only who was created and under which parent, who is
stopping, closed and finished. An actor is created under a parent that is alive, or
under none if `PublicRootActor` has ended, unless its caller names another one, which
may have ended; it keeps this parent, begins to stop,
may be closed by a timeout at any time, and ends once, when its live children are
closed or came late. `ActorTree` implements it (`ImplementsLives`) with `Leaving` for
the stopping actors: those closed or with a stop sequence at their children.

Abstractions:

* `beforeStop()` is always awaited: a synchronous hook is the special case in
  which nothing comes between. A failing hook is logged and changes nothing;
* `beforeStart()` is part of the creation; its failure is in `ArrayMailbox`;
* a restart and the resume after it are one step with the decision, and the two
  routes of a failing `start()` are one step (`Supervision` and `ArrayMailbox`
  take these apart);
* one `close()` of a stage, which nobody uses after it but for creating actors;
* a parent that a caller names is an actor of the same stage.

### Scheduler and BankExample

`Scheduler` has an action for each operation and for each kind of timer, and no
specification: its users conjoin its actions with their own. A callback is part of
the firing; its parameter says whether it cancels its own task or closes the
scheduler. `leaked` are the tasks that died in their first callback: their interval
is armed after that.

`BankExample` is one command line, which gives a command when the one before was
answered, and the actors that serve it, with their balances, transfers and
contexts. A handler runs from `await` to `await` in one step: `Begins` takes a
message whose handler starts, `Resumes` one whose awaited promise is settled, and
`Calls`, `Returns`, `Throws` and `SendsItself` say how the step ends. Delivery is
a step of its own, since the loop of a mailbox is `ArrayMailbox`'s affair. An error
suspends the actor until its supervisor, one of the three of the example, resumes
it. A message carries a copy of the context its target held when it was called, and
hands it on to the target's collaborators when it begins (`spread`, `Propagates`).

The balance changes before the record in the history is awaited, and the histories
are the environment: they answer, reject or stay silent. That is on purpose. The
histories of the example await themselves, and never answer (`bank_self_await`), so
that with them no transfer gets past its withdrawal; everything that
`TransferCoordinatorActor` does about failures is for histories that do settle.
The stage may be closed at any moment, by the user's choice or by an interrupt, and
others may use the scheduler of the stage, and close it, at any time.

`Books` compares, when nothing is under way, every balance with what users were told
and with the state of the transfers. It holds with exactly two kinds of
difference, which a reader of the example's `README.md:282` ("Refunds ensure no
money is lost") would not expect:

* a deposit whose record is rejected has credited the account. The coordinator
  takes it for failed and tries again, and each try credits it once more, and so
  does the refund (`rejected`);
* a call of a stopped actor resolves with `'actor stopped'`. A withdrawal from a
  stopped account counts as done, although no money was taken, and a deposit into a
  stopped account as well, although it never arrives (`refused`).

`OneStepInFlight` names the third: a transfer is stranded when the scheduler is
closed as its retry is due, or when its refund is rejected.

Left out of `BankExample`: `accountBalance`, `getBalance` and `getTransferStatus`, which
only read and which the command line does not reach; the opening record of an
account, whose answer nobody awaits; all texts and formats, except that a format
fails where the code would read a field of an answer that is none; the supervisors
as actors of their own, with mailboxes that could be stopped (`ActorTree` and
`Supervision` have these).

## Runs

| run | module, configuration | shows |
|---|---|---|
| `array_mailbox` | `MCArrayMailbox` | type correctness, no lost wakeup, one handler at a time, dead letters are the refusals, a suspension has an owner, quarantine after a clean start, refinement of `ActorDelivery`, accepted messages settle |
| `array_mailbox_start` | `MCArrayMailbox`, `MCArrayMailboxStart.cfg` | violation: with a failing start, the quarantine of one failure is lifted by the decision on another |
| `bounded_mailbox` | `BoundedMailbox`, `MCBoundedMailbox.cfg` | no lost wakeup with several loops, drop accounting, order of what is not dropped, dropped only for newer messages, accepted messages settle |
| `bounded_sequential` | `BoundedMailbox`, `MCBoundedMailboxSequential.cfg` | violation: two handlers of one actor in progress together |
| `awaited_calls` | `MCAwaitedCalls` | tiered actors never wait in a circle, answers follow the callees' answers, self-sends follow their sender, every call is answered |
| `bank_self_await` | `MCBankCalls` | violation: a history's message to itself, awaited, is never handled |
| `supervision` | `MCSupervision` | a suspended actor has exactly one failure under supervision, an actor that goes on has none; the supervisor reads the context of the failed message or none; no handler during a restart; a supervisor that fails goes on with the failures of others |
| `supervision_escalate` | `MCSupervision`, `MCSupervisionEscalate.cfg` | violation: a failure that is escalated is decided by nobody |
| `supervision_context` | `MCSupervision`, `MCSupervisionContext.cfg` | violation: the supervisor decides when the context of the failed message has been reset |
| `actor_tree` | `MCActorTree`, `MCActorTree.cfg` | children stop before parents, `close()` stops one actor at a time in the order of its phases, directory, index and children agree on who is alive, a second stop of an actor takes nothing away, refinement of `ActorLives`; a failure is told to a supervisor unless one of its type was stopped, and settled unless the supervisor is being stopped; every stop ends unless it waits for an actor that nobody will wake, for one whose failure waits behind its supervisor's own stop, or for a buried message |
| `actor_tree_answer` | `MCActorTree`, `MCActorTreeAnswer.cfg` | violation: a `stop()` message to an actor that is stopping is never answered, and the closing stage waits for it |
| `bank_example` | `MCBankExample` | the books balance but for rejected records and stopped accounts, each pending transfer has exactly one next step, every message runs in the context of its request, no timer is left that nobody can clear, every command is answered and every transfer settles |

The violation runs confront the code with a sentence of its documentation; the
findings in `PROJECT.json` quote both.

Bounds. `array_mailbox`: the `start()` message, one `stop()` message and two
ordinary ones, each sent at most once; the longest queue behind a failed handler
is three, so order, a wakeup with a queue, two pending failures and a stop in
the middle all occur. There is no bound on failures other than the number of
messages. `bounded_mailbox`: four messages and two places, so that two messages
can be taken by loops while the queue is full and a third and fourth overflow.
`awaited_calls`: three tiers, with a handler that awaits twice, a chain of
self-sends, and two callers of the lowest tier. `bank_self_await`: one transfer,
one deposit, one query. `supervision`: two actors with two requests each, so that
an actor fails again after a directive, and the failure of the other one finds the
supervisor idle, deciding, suspended, restarted or stopped. `actor_tree`: the two roots, a
parent, a child that the parent creates and supervises, that may fail in `start()`
and is stopped with a timeout, and a second actor, of the type of the first child, whose
caller may name the parent as its parent or leave it to the default. Both
are created before, while or after the parent stops, so that the second actor may get a
parent that has finished. The child's failures meet a
parent that is idle, handles another failure, stops, or has stopped, and in the
last case the child may or may not have looked it up before. The directory has two
buckets, so that `close()` finds the child before the parent and the second actor
after it; the parent's type is a registered supervisor of the stage, so that all four
groups of `close()` occur. At most two directives of stop are under way for one actor
(`Directives`). The parent is stopped by `close()`, that is, by the stage or by its
own parent. `actor_tree_answer` has no failures, no timeout and no registered
supervisors. `bank_example`: 13 workloads of up to six
commands, two accounts and amounts up to 3: transfers that are retried while other
commands and another transfer run, queries, every kind of refused input, a stage
that closes at any point, and a scheduler that others use for a repeated and for a
single task and may close. A transfer is tried three times, that is, retried twice, as in the code (the
example's `README.md:177` lists three retries). Runs switch TLC's deadlock check off, because an actor
that has handled everything, is stopped or stays suspended does nothing: that is
a legal end. Whether somebody waits for ever is what the liveness properties ask.

The two violations of `Supervision` are safety and liveness under the same
specification as the passing run, `FairSpec`.

Fairness. The event loop runs every continuation and every expired timer that is
ready, which is weak fairness of `LoopContinues`. Weak fairness of the handlers
and of the supervisors' decisions is an assumption about the user's code: a
handler ends, and an informed supervisor decides, if only by deciding nothing.
Every step of `ActorTree` but creations, calls of clients, the timer and the begin
of `close()` is fair; as no behaviour has infinitely many of them, one condition
on their disjunction says it. Nothing is assumed of clients (no fairness of sends) or of the start sequence,
nor, in `ArrayMailbox`, of a supervised `stop()`, whose hooks and children may
hang. `Supervision` assumes that hooks end, those of restarts and stops, and that
`inform()` ends, the supervisor's and the root's; it assumes nothing of the
handlers of the actors. `BankExample` has weak fairness of what the actors, the
supervisors and the timers of the retries do, again as one condition on a
disjunction that no behaviour takes infinitely often; users, the closing and the other users of the
scheduler owe nothing. Its two liveness properties assume of the histories that
they settle every call, in one way or the other, and say so.

## What is proved

A theorem holds for every value of the constants that satisfies the named
assumptions of the modules; TLC evaluates each assumption on the instances.

| module | theorem | statement |
|---|---|---|
| `ArrayMailboxProofs` | `TypeCorrect` | `Spec => []TypeOK` |
| | `NoLostWakeupHolds` | `Spec => []NoLostWakeup` |
| | `OneAtATimeHolds` | `Spec => []OneAtATime` |
| | `DeadLettersHold` | `Spec => []DeadLettersAreRefusals` |
| | `SuspensionHasOwnerHolds` | `Spec => []SuspensionHasOwner` |
| | `Refinement` | `Spec => ImplementsDelivery` |
| | `QuarantineHolds` | `Spec => QuarantineAfterCleanStart` |
| `BoundedMailboxProofs` | `TypeCorrect` | `Spec => []TypeOK` |
| | `NoLostWakeupHolds` | `Spec => []NoLostWakeup` |
| | `DropsAreAccountedHolds` | `Spec => []DropsAreAccounted` |
| | `AcceptanceOrderHolds` | `Spec => []AcceptanceOrder` |
| | `DroppedForNewerHolds` | `Spec => []DroppedForNewer` |
| `AwaitedCallsProofs` | `TypeCorrect` | `Spec => []TypeOK` |
| | `AnswersFollowCalleesHolds` | `Spec => []AnswersFollowCallees` |
| | `SelfSendsFollowHolds` | `Spec => []SelfSendsFollow` |
| | `NoCircularWaitHolds` | `Spec => []NoCircularWait`, if awaits are well founded |
| `SupervisionProofs` | `TypeCorrect` | `Spec => []TypeOK` |
| | `OneOwnerHolds` | `Spec => []OneOwner` |
| | `NoForeignContextHolds` | `Spec => []NoForeignContext` |
| | `NoHandlerDuringRestartHolds` | `Spec => []NoHandlerDuringRestart` |
| `ActorTreeProofs` | `TypeCorrect` | `Spec => []TypeOK` |
| | `ChildrenStopFirstHolds` | `Spec => []ChildrenStopFirst` |
| | `CloseInOrderHolds` | `Spec => []CloseInOrder` |
| | `TreeAgreesHolds` | `Spec => []TreeAgrees` |
| | `IndexOutlivesSecondStopHolds` | `Spec => IndexOutlivesSecondStop` |
| | `Refinement` | `Spec => ImplementsLives` |
| | `FailuresAreHeardHolds` | `Spec => []FailuresAreHeard`, if the supervisors exist |
| `BankExampleProofs` | `ContextOfRequestHolds` | `Spec => []ContextOfRequest` |
| | `OneStepInFlightHolds` | `Spec => []OneStepInFlight` |
| | `TimersCanBeClearedHolds` | `Spec => []TimersCanBeCleared`, for the users of `BankExample` |
| `BankBooksProofs` | `BooksHold` | `Spec => []Books` |
| | `TypeCorrect` | `Spec => []TypeOK` |

None of the invariants is inductive alone. Each module of proofs defines the one
that is, `Inv` or `IInv`, shows that it holds initially and that every action
preserves it, and derives its theorems from it. What each of them adds:

**ArrayMailbox** (`MessagesAssumption`: the start message is a message, is not a
stop message, and there is a value that is no message). What ties the coroutine to
the flags: `dispatching` is set exactly while the loop is not idle and has a
current message; the message awaited is the last one begun and is pending; a
message is in the queue or begun at most once, and only after its send; the start
message has been sent exactly when the start sequence says so. The refinement and
the quarantine are step-wise: each action, from a state of the invariant, is a
step of `ActorDelivery` or leaves its variables alone.

**BoundedMailbox** (`BoundsAssumption`: a capacity that is positive, any number of
messages). All messages sent come before all that are not, and those begun and then
those queued are in this order; they are exactly the messages whose promise says
accepted; the drop count is the number of promises that say dropped. The proofs
have one case for each overflow policy. A message dropped by DropOldest has a full
queue of newer ones behind it, and these are begun or dropped for still newer ones.

**AwaitedCalls** (`CallsAssumption`: handlers call messages, as often as they like).
A message waits in one mailbox, once, unanswered; a handler has sent its calls so
far and has the answers of those it awaits, but for the last. `NoCircularWaitHolds`
has a premise, `IsWellFoundedOn(CallsDown, Actors)`: the relation of an actor to
those that await one of its answers, read off the handlers, has no infinite descent.
`MCAwaitedCalls` satisfies it, with its tiers; the handlers of `BankCalls` do not,
since a history awaits itself, and there the run finds the circle. With the premise,
the proof takes a minimal actor of a group that waits for itself.

**Supervision** (`RequestsAssumption`: each request has an actor). A failure is in
one place: in the queue of the supervisor, in its hands, in a restart, in a stop,
or lost; while it is somewhere its actor is suspended and has no other; the context
of an actor is that of the request it handles, or none.

**ActorTree** (`DirectoryAssumption`, `TreeAssumption`: there are two roots and each
is alone of its type; an actor that may fail is not its own type's supervisor).
Messages and stop sequences belong to actors that were created (`MailInv`). A stop
sequence at its children waits for the first of those it has left, and the
children it has behind it are closed or came late (`AtChildren`): that makes
`ChildrenStopFirst` inductive. The children of the parents and the buckets hold
each live actor exactly once (`TreeInv`): the reason why sizes agree. The index
holds live actors, and a type is missing only after an actor of that type has
finished (`IndexInv`). The list that `close()` goes through is in the order of the
groups (`CloseInv`). All of this holds for every choice of the parents that callers name
(`Named`): an actor created under a finished parent is late. `FailuresAreHeardHolds` assumes `SupervisorsExist`: each
supervisor named is a root or of the type of the creator; otherwise a supervisor may
simply not have been created. TLC evaluates it in `MCActorTree`. The refinement of
`ActorLives` needs one invariant more: the sequence of a `stop()` message is under
way only while its actor handles that message or is closed (`RunsInv`), so that a
second `stop()` message never takes it back to its hook (`PhaseMoves`). A creation is
then a `Create`, the timer a `TimeOut` or a stutter, a sequence that comes to its
children a `BeginToStop`, one that finishes an `End`, or a stutter if another one
has ended the actor; all other steps stutter (`StepRefines`).

**Scheduler** (`TasksAssumption`, `BankAssumption`: a repeated task is a task, and a
request may schedule its retry, which does not repeat). `SchedulerStep` is what
anyone may do to a scheduler, callbacks that cancel or close included. Every step
of the example is a `SchedulerStep` or leaves the scheduler alone, and a
`SchedulerStep` preserves the invariant. A task of `scheduleOnce()` leaves the set
when it fires, so that it must be known to have no interval (`TimersInv`).

**BankExample** (`BankAssumption`, and `NamesAssumption`: nobody of the bank is
anybody else, and accounts go by numbers). Three groups of conjuncts:

* What awaits promise (`CallInv`): a handler has at most one call under way in the
  whole system, it is about the handler's own request, and it is one that its await
  waits for. Each message in a mailbox is of a kind that its sender sends (`MailInv`).
* Why contexts are right: requests are made one after the other (`RequestInv`), and
  contexts only grow on their way from teller to bank to collaborators (`OrderInv`),
  since a message carries the collaborators of the moment it was sent and accounts
  are only ever added (`SpreadInv`). So whoever serves request `i` has a context of
  at least `i` (`ContextInv`, and `TransferInv` for the transfers, which outlive
  their requests), and as long as the user waits there is none greater.
* Why a transfer has one next step (`FlowInv`): it is first a record in the queue
  of the coordinator, ahead of its step, then an entry of the map with one message,
  handler or timer, and the step goes when the entry is removed. It does not come
  back, for the command has left the mailboxes of teller and bank for good by then
  (`Begun`), and no second withdrawal is under way. A coordinator that is not closed
  and lets go of a step has sent the next one, or is stranded in the way
  `Stranded` says.

**Books** (the assumptions of the example, no others). `Books` speaks of the moments
when nothing is under way, and is far from inductive. `BankBooksProofs` says
of every moment what a request has done to an account:

* `Booked(i, op)` counts how often the account has carried out `op` for request
  `i`: once if the user, the bank or the coordinator takes it for a success
  (`Effect`, read off outcomes, statuses and the answers that handlers hold), once
  while the account waits for its history, once for each rejected record, less
  one if the success is that of a closed actor that did nothing (`Missing`). `BalanceInv`: each balance is its opening balance
  and the sum of what is booked on it.
* Each step of each actor leaves an entry as it is, or hands it on
  (an answer becomes an effect, a rejected record becomes a rejection, a refusal is
  noted); only an account that pays makes an entry, and then balance and
  booking change alike (`StepEntries`, `BookedStep`, `BalancePaid`).
* What this needs of transfers: an attempt is made only while one is left, and
  the step that comes next fits the status (`PhaseInv`); calls of accounts go to
  those that the request names (`AddressInv`); nobody closed handles anything
  (`ClosedInv`); what is refused was taken for a success, and what is booked has a
  valid amount (`BookInv`).
* The sum over all requests is a fold. `QueueLemmas` proves by induction on the
  largest member of a set of numbers that it is the recursive sum (`TotalIs`),
  changes by what one summand does (`TotalDiffers`) and vanishes with its summands
  (`TotalZero`). When nothing is under way, what is booked is what is claimed and
  unclaimed (`QuietNet`).

**Types** of `BankExample` (the assumptions of the example, no others). Most of
`TypeOK` is in the invariants above; `BankBooksProofs` adds what they do not count:

* Only the bank says "found", and outcomes are results (`AnswerInv`).
* There are no more accounts than `openAccount` commands that have begun
  (`OpenedInv`): each account that is opened takes its command from the mailboxes of
  teller and bank for good.
* A record of a transfer's deposit is rejected once for each attempt: each rejection
  has been counted as an attempt, or a failure that will be is on its way
  (`Failing`). Every other record is rejected at most once, since the one who could
  ask for it again is done with it (`RejectInv`, with `Due`).
* Suspended actors, and those told to stop, are actors of the bank (`EndInv`).

Model-checked only is every liveness property: TLAPS 1.4.5 has no backend for
fairness and ENABLED. Every safety invariant and every action property without
fairness that a passing run checks is stated by a theorem.

## Not modelled

Addresses but for their hash codes, logging, protocols and definitions, observable
state and the test kit, the stage's registries of values, the failure texts of the
bank: they hold no state over time that an interleaving could spoil, or they
only format text. `Directory.clear()`, `getConfig()` and `getStats()` are called by
nobody. The exported `PublicRootActor` and `PrivateRootActor` are twins
of the classes in `LocalStage`. Listeners of dead letters are called in a loop that
catches what they throw. Time is nowhere: a timer may fire at any moment after it
was armed, so that the delays of the retries play no part.

## Plan

1. `ArrayMailbox` with `ActorDelivery`, its instance and its proofs: done.
2. `BoundedMailbox` and the proofs of its five invariants: done.
3. `AwaitedCalls` with `BankCalls`, and the proofs of its invariants, with
   `NoCircularWait` for every well-founded way of awaiting: done.
4. `Supervision` and the proofs of its invariants: done.
5. `ActorTree` and the proofs of its invariants and of `IndexOutlivesSecondStop`, and
   `ActorLives` with the proof that `ActorTree` refines it: done.
6. `Scheduler`, and `BankExample` over it, with the proofs about timers, contexts,
   transfers, books and types: done.
