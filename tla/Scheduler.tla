----------------------------- MODULE Scheduler -----------------------------
(***************************************************************************)
(* DefaultScheduler: tasks that run a callback once or repeatedly, each    *)
(* with the timers of the JavaScript runtime that it has armed.  Time is   *)
(* not modelled: an armed timer may fire at any moment.  A callback is a   *)
(* step of its user, who says in the parameters of the firing whether the  *)
(* callback cancels its own task or closes the scheduler.                  *)
(*                                                                         *)
(* The module has no specification of its own: the users of a scheduler    *)
(* compose its operations with their own steps.                            *)
(***************************************************************************)
EXTENDS Naturals

CONSTANTS Tasks,      \* names for the calls of schedule() and scheduleOnce()
          Repeated    \* those of schedule()

ASSUME TasksAssumption == Repeated \subseteq Tasks

VARIABLES
    tasks,              \* the set _tasks
    cancelled,          \* the tasks whose _cancelled is set
    timeouts,           \* the tasks with an armed setTimeout()
    intervals,          \* the tasks with an armed setInterval()
    schedulerClosed,
    leaked              \* history: tasks that died in their first callback

schedulerVars == <<tasks, cancelled, timeouts, intervals, schedulerClosed, leaked>>

SchedulerTypeOK ==
    /\ tasks \subseteq Tasks /\ cancelled \subseteq Tasks
    /\ timeouts \subseteq Tasks /\ intervals \subseteq Repeated
    /\ schedulerClosed \in BOOLEAN /\ leaked \subseteq Repeated

SchedulerInit ==
    /\ tasks = {} /\ cancelled = {} /\ timeouts = {} /\ intervals = {}
    /\ schedulerClosed = FALSE /\ leaked = {}

-----------------------------------------------------------------------------
(* A name is used again when its task has run; a closed scheduler throws. *)
CanSchedule(t) == ~schedulerClosed /\ t \notin tasks \cup cancelled

(* Without a delay the interval starts at once. *)
Schedule(t, delayed) ==
    /\ t \in Repeated
    /\ CanSchedule(t)
    /\ tasks' = tasks \cup {t}
    /\ timeouts' = IF delayed THEN timeouts \cup {t} ELSE timeouts
    /\ intervals' = IF delayed THEN intervals ELSE intervals \cup {t}
    /\ UNCHANGED <<cancelled, schedulerClosed, leaked>>

ScheduleOnce(t) ==
    /\ t \in Tasks \ Repeated
    /\ CanSchedule(t)
    /\ tasks' = tasks \cup {t}
    /\ timeouts' = timeouts \cup {t}
    /\ UNCHANGED <<cancelled, intervals, schedulerClosed, leaked>>

(* Mutation of Cancel: only the timeout is cleared. *)
CancelKeepsInterval(t) ==
    /\ t \in tasks \ cancelled
    /\ cancelled' = cancelled \cup {t}
    /\ timeouts' = timeouts \ {t}
    /\ UNCHANGED <<tasks, intervals, schedulerClosed, leaked>>

(* The first cancel() of a task clears its timers; the task stays in the set. *)
Cancel(t) ==
    /\ t \in tasks \ cancelled
    /\ cancelled' = cancelled \cup {t}
    /\ timeouts' = timeouts \ {t}
    /\ intervals' = intervals \ {t}
    /\ UNCHANGED <<tasks, schedulerClosed, leaked>>

(* close() cancels the tasks of the set, with no effect on a cancelled one. *)
CloseScheduler ==
    /\ ~schedulerClosed
    /\ schedulerClosed' = TRUE
    /\ cancelled' = cancelled \cup tasks
    /\ timeouts' = timeouts \ (tasks \ cancelled)
    /\ intervals' = intervals \ (tasks \ cancelled)
    /\ tasks' = {}
    /\ UNCHANGED leaked

-----------------------------------------------------------------------------
(* Timers *)

(* What a callback may do to the scheduler. *)
Effects == {"nothing", "cancel", "close"}

(* The tasks that a callback of t, if t is alive, cancels. *)
CancelledBy(t, effect) ==
    IF t \in cancelled \/ schedulerClosed THEN {}
    ELSE CASE effect = "cancel" -> {t}
           [] effect = "close" -> tasks \ cancelled
           [] OTHER -> {}

CallbackRuns(t, effect) ==
    /\ cancelled' = cancelled \cup CancelledBy(t, effect)
    /\ schedulerClosed' = (schedulerClosed \/ effect = "close")

(* scheduleOnce(): after the callback, the task leaves the set. *)
OnceFires(t, effect) ==
    /\ t \in timeouts \ Repeated
    /\ CallbackRuns(t, effect)
    /\ timeouts' = timeouts \ ({t} \cup CancelledBy(t, effect))
    /\ intervals' = intervals \ CancelledBy(t, effect)
    /\ tasks' = IF effect = "close" THEN {} ELSE tasks \ {t}
    /\ UNCHANGED leaked

(* The timeout of schedule(): first the callback, then the interval, which   *)
(* is armed even if the callback has cancelled the task or closed the        *)
(* scheduler.                                                                *)
FirstFires(t, effect) ==
    /\ t \in timeouts \cap Repeated
    /\ CallbackRuns(t, effect)
    /\ timeouts' = timeouts \ ({t} \cup CancelledBy(t, effect))
    /\ intervals' = (intervals \ CancelledBy(t, effect)) \cup {t}
    /\ tasks' = IF effect = "close" THEN {} ELSE tasks
    /\ leaked' = IF t \in CancelledBy(t, effect) THEN leaked \cup {t} ELSE leaked

(* A repetition; the interval of a dead task fires without effect. *)
IntervalFires(t, effect) ==
    /\ t \in intervals \ cancelled
    /\ CallbackRuns(t, effect)
    /\ timeouts' = timeouts \ CancelledBy(t, effect)
    /\ intervals' = intervals \ CancelledBy(t, effect)
    /\ tasks' = IF effect = "close" THEN {} ELSE tasks
    /\ UNCHANGED leaked

-----------------------------------------------------------------------------
(* Every armed timer can still be cleared: its task is in the set of the     *)
(* scheduler and not cancelled.  So nothing fires after a cancel() or        *)
(* close().  The exception is the interval of a task that its own first      *)
(* callback has cancelled, by itself or by closing the scheduler: it has     *)
(* been armed after that, and nobody can clear it.                           *)
TimersCanBeCleared ==
    /\ timeouts \subseteq tasks \ cancelled
    /\ intervals \ leaked \subseteq tasks \ cancelled
    /\ leaked \subseteq intervals \cap cancelled
    /\ schedulerClosed => tasks = {}
=============================================================================
