------------------------- MODULE ArrayMailboxProofs -------------------------
(* What holds of ArrayMailbox for every set of messages, checked by TLAPS.  *)
EXTENDS ArrayMailbox, TLAPS

(* The variables and the operators that every step expands. *)
USE MessagesAssumption

LEMMA FailureTypes ==
    /\ \A m \in Messages : Failure("deliver", m) \in Failures
    /\ Failure("beforeStart", StartMessage) \in Failures
    /\ Failure("start", StartMessage) \in Failures
  BY DEF Failure, Failures

(* A message the loop awaits has a type: the loop is idle without one. *)
LoopHasMessage == loop # "idle" => current \in Messages

(* The strengthened type invariant. *)
TypeInv == TypeOK /\ LoopHasMessage

LEMMA DispatchTypes ==
    ASSUME TypeInv,
           NEW s \in BOOLEAN, NEW q \in Seq(Messages),
           NEW p \in [Messages -> PromiseStates],
           Dispatch(s, q, p) \/ DispatchLoop(s, q, p)
    PROVE  /\ dispatching' \in BOOLEAN
           /\ queue' \in Seq(Messages)
           /\ loop' \in {"idle", "awaiting", "returning"}
           /\ current' \in Messages \cup {NoMessage}
           /\ deferred' \in [Messages -> PromiseStates]
           /\ deadLetters' \subseteq Messages
           /\ begun' \in Seq(Messages)
           /\ LoopHasMessage'
  <1> USE DEF TypeInv, TypeOK, LoopHasMessage
  <1>1. CASE DispatchLoop(s, q, p)
    <2>1. CASE IsReceivable(closed, s, q)
      <3>1. Head(q) \in Messages /\ Tail(q) \in Seq(Messages)
        BY <2>1 DEF IsReceivable
      <3>2. Append(begun, Head(q)) \in Seq(Messages)
        BY <3>1
      <3>3. /\ queue' = Tail(q) /\ current' = Head(q) /\ dispatching' = TRUE
            /\ Deliver(Head(q), p)
        BY <1>1, <2>1 DEF DispatchLoop
      <3> QED  BY <3>1, <3>2, <3>3 DEF Deliver
    <2>2. CASE ~IsReceivable(closed, s, q)
      BY <1>1, <2>2 DEF DispatchLoop
    <2> QED  BY <2>1, <2>2
  <1>2. CASE Dispatch(s, q, p) /\ ~DispatchLoop(s, q, p)
    BY <1>2 DEF Dispatch
  <1> QED  BY <1>1, <1>2

LEMMA SendTypes ==
    ASSUME TypeInv, NEW m \in Messages, Send(m)
    PROVE  /\ closed' \in BOOLEAN /\ suspended' \in BOOLEAN
           /\ dispatching' \in BOOLEAN
           /\ queue' \in Seq(Messages)
           /\ loop' \in {"idle", "awaiting", "returning"}
           /\ current' \in Messages \cup {NoMessage}
           /\ deferred' \in [Messages -> PromiseStates]
           /\ deadLetters' \subseteq Messages
           /\ begun' \in Seq(Messages)
           /\ LoopHasMessage'
  <1> DEFINE q == Append(queue, m)
             p == [deferred EXCEPT ![m] = "pending"]
  <1>1. q \in Seq(Messages) /\ p \in [Messages -> PromiseStates]
    BY DEF TypeInv, TypeOK, PromiseStates
  <1>2. CASE SendClosed(m)
    BY <1>2 DEF SendClosed, TypeInv, TypeOK, LoopHasMessage, mailboxVars,
                PromiseStates
  <1>3. CASE SendOpen(m) /\ suspended
    BY <1>1, <1>3 DEF SendOpen, TypeInv, TypeOK, LoopHasMessage
  <1>4. CASE SendOpen(m) /\ ~suspended
    <2>1. Dispatch(suspended, q, p) /\ UNCHANGED <<closed, suspended>>
      BY <1>4 DEF SendOpen
    <2>2. suspended \in BOOLEAN /\ closed \in BOOLEAN
      BY DEF TypeInv, TypeOK
    <2> HIDE DEF q, p
    <2> QED  BY <1>1, <2>1, <2>2, DispatchTypes
  <1> QED  BY <1>2, <1>3, <1>4 DEF Send

LEMMA TypeInit == Init => TypeInv
  <1>1. <<>> \in Seq(Messages)
    OBVIOUS
  <1>2. [m \in Messages |-> "unsent"] \in [Messages -> PromiseStates]
    BY DEF PromiseStates
  <1> QED  BY <1>1, <1>2 DEF Init, TypeInv, TypeOK, LoopHasMessage

LEMMA TypeStep == TypeInv /\ [Next]_vars => TypeInv'
  <1> SUFFICES ASSUME TypeInv, [Next]_vars  PROVE TypeInv'
    OBVIOUS
  <1> USE DEF TypeInv
  <1>1. CASE StartAborted
    BY <1>1, FailureTypes
    DEF StartAborted, SupervisorMissing, TypeOK, LoopHasMessage, mailboxVars,
        deliveryVars
  <1>2. CASE StartSent
    BY <1>2, SendTypes, FailureTypes
    DEF StartSent, Inform, TypeOK, supervisionVars
  <1>3. CASE StartCatch
    BY <1>3, FailureTypes
    DEF StartCatch, RouteStartFailure, Inform, SupervisorMissing, TypeOK,
        LoopHasMessage, mailboxVars, deliveryVars
  <1>4. ASSUME NEW m \in Messages, SendMessage(m)  PROVE TypeInv'
    BY <1>4, SendTypes DEF SendMessage, TypeOK, startVars, supervisionVars
  <1>5. CASE HandlerSucceeds
    BY <1>5 DEF HandlerSucceeds, TypeOK, LoopHasMessage, mailboxVars, startVars,
                supervisionVars, PromiseStates
  <1>6. CASE HandlerFails
    BY <1>6, FailureTypes
    DEF HandlerFails, Inform, SupervisorMissing, TypeOK, LoopHasMessage,
        PromiseStates
  <1>7. CASE StopHandlerCloses
    BY <1>7 DEF StopHandlerCloses, Close, TypeOK, LoopHasMessage,
                deliveryVars, startVars, supervisionVars
  <1>8. CASE LoopContinues
    BY <1>8, DispatchTypes DEF LoopContinues, TypeOK, startVars, supervisionVars
  <1>9. ASSUME NEW f \in Failures, Decide(f) \/ SupervisedStopCloses(f)
        PROVE  TypeInv'
    <2>1. CASE DecideResume(f)
      <3>1. CASE IsReceivable(closed, FALSE, queue)
        BY <2>1, <3>1, DispatchTypes
        DEF DecideResume, Resume, TypeOK, startVars
      <3>2. CASE ~IsReceivable(closed, FALSE, queue)
        BY <2>1, <3>2
        DEF DecideResume, Resume, TypeOK, LoopHasMessage, deliveryVars, startVars
      <3> QED  BY <3>1, <3>2
    <2>2. CASE DecideStop(f)
      BY <2>2 DEF DecideStop, TypeOK, LoopHasMessage, mailboxVars, deliveryVars,
                  startVars
    <2>3. CASE DecideNothing(f)
      BY <2>3 DEF DecideNothing, TypeOK, LoopHasMessage, deliveryVars, startVars
    <2>4. CASE SupervisedStopCloses(f)
      BY <2>4 DEF SupervisedStopCloses, Close, TypeOK, LoopHasMessage,
                  deliveryVars, startVars
    <2> QED  BY <1>9, <2>1, <2>2, <2>3, <2>4 DEF Decide
  <1>10. CASE UNCHANGED vars
    BY <1>10 DEF vars, mailboxVars, deliveryVars, startVars, supervisionVars,
                 TypeOK, LoopHasMessage
  <1> QED  BY <1>1, <1>2, <1>3, <1>4, <1>5, <1>6, <1>7, <1>8, <1>9, <1>10
           DEF Next, Handler

(* The variables keep their types: every message the loop, the queue and    *)
(* the promises know is one that was sent to this actor.                    *)
THEOREM TypeCorrect == Spec => []TypeOK
  <1>1. Spec => []TypeInv
    BY TypeInit, TypeStep, PTL DEF Spec
  <1>2. TypeInv => TypeOK
    BY DEF TypeInv
  <1> QED  BY <1>1, <1>2, PTL

-----------------------------------------------------------------------------
(* The inductive invariant of the loop.  `dispatching` is exactly the fact   *)
(* that the loop runs; the loop never ends with something to receive; the    *)
(* message it awaits is the last one begun, still pending and no longer in   *)
(* the queue.                                                                *)
LoopInv ==
    /\ dispatching = (loop # "idle")
    /\ NoLostWakeup
    /\ loop = "awaiting" =>
          /\ Len(begun) > 0 /\ begun[Len(begun)] = current
          /\ deferred[current] = "pending"
          /\ \A i \in 1..Len(queue) : queue[i] # current

(* Messages in a queue q are pending by the promises p, each queued once. *)
Waiting(q, p) ==
    /\ \A i \in 1..Len(q) : p[q[i]] = "pending"
    /\ \A i, j \in 1..Len(q) : q[i] = q[j] => i = j

AllSettled(p) ==
    \A i \in 1..Len(begun) : p[begun[i]] \in {"resolved", "rejected"}

Refusals(p) == \A m \in Messages : m \in deadLetters <=> p[m] = "actorStopped"

(* start() is not sent before the beforeStart() hook was called. *)
StartUnsent == phase # "started" => deferred[StartMessage] = "unsent"

MailboxInv == /\ LoopInv
              /\ Waiting(queue, deferred)
              /\ OneAtATime
              /\ DeadLettersAreRefusals

Inv == TypeInv /\ MailboxInv /\ StartUnsent

(* The heart of the proof: whoever enters the loop while no handler runs    *)
(* leaves it with the invariant, whatever queue it found.                   *)
LEMMA DispatchLoopKeepsInv ==
    ASSUME TypeInv, loop # "awaiting",
           NEW s \in BOOLEAN, NEW q \in Seq(Messages),
           NEW p \in [Messages -> PromiseStates],
           Waiting(q, p), AllSettled(p), Refusals(p),
           closed' = closed, suspended' = s,
           DispatchLoop(s, q, p)
    PROVE  MailboxInv'
  <1>0. begun \in Seq(Messages) /\ closed \in BOOLEAN
    BY DEF TypeInv, TypeOK
  <1>1. CASE IsReceivable(closed, s, q)
    <2> DEFINE m == Head(q)
    <2>1. /\ queue' = Tail(q) /\ current' = m /\ dispatching' = TRUE
          /\ loop' = "awaiting" /\ deferred' = p
          /\ begun' = Append(begun, m) /\ deadLetters' = deadLetters
      BY <1>1 DEF DispatchLoop, Deliver, IsReceivable
    <2>2. q # <<>> /\ m \in Messages /\ m = q[1] /\ Len(q) > 0
      BY <1>1 DEF IsReceivable
    <2>3. /\ Len(Tail(q)) = Len(q) - 1
          /\ \A i \in 1..Len(Tail(q)) : Tail(q)[i] = q[i + 1]
      BY <2>2
    <2>4. p[m] = "pending"
      BY <2>2 DEF Waiting
    <2>5. \A i \in 1..Len(Tail(q)) : Tail(q)[i] # m
      BY <2>2, <2>3 DEF Waiting
    <2>6. /\ Len(begun') = Len(begun) + 1
          /\ begun'[Len(begun')] = m
          /\ \A i \in 1..Len(begun) : begun'[i] = begun[i]
      BY <1>0, <2>1, <2>2
    <2>7. LoopInv'
      <3>1. Len(begun') > 0
        BY <1>0, <2>1, <2>2
      <3>2. \A i \in 1..Len(queue') : queue'[i] # current'
        BY <2>1, <2>5
      <3>3. begun'[Len(begun')] = current' /\ deferred'[current'] = "pending"
        BY <2>1, <2>4, <2>6
      <3> QED  BY <2>1, <3>1, <3>2, <3>3 DEF LoopInv, NoLostWakeup
    <2>8. Waiting(queue, deferred)'
      BY <2>1, <2>3 DEF Waiting
    <2>9. OneAtATime'
      BY <1>0, <2>1, <2>6 DEF OneAtATime, AllSettled
    <2>10. DeadLettersAreRefusals'
      BY <2>1 DEF DeadLettersAreRefusals, Refusals
    <2> QED  BY <2>7, <2>8, <2>9, <2>10 DEF MailboxInv
  <1>2. CASE ~IsReceivable(closed, s, q)
    <2>1. /\ queue' = q /\ dispatching' = FALSE /\ loop' = "idle"
          /\ deferred' = p /\ begun' = begun /\ deadLetters' = deadLetters
      BY <1>2 DEF DispatchLoop
    <2> QED  BY <1>2, <2>1
             DEF MailboxInv, LoopInv, NoLostWakeup, Waiting, OneAtATime, AllSettled,
                 DeadLettersAreRefusals, Refusals
  <1> QED  BY <1>1, <1>2

(* send() of a message that was not sent before. *)
LEMMA SendKeepsInv ==
    ASSUME TypeInv, MailboxInv, NEW m \in Messages, deferred[m] = "unsent",
           Send(m)
    PROVE  MailboxInv' /\ deferred' \in {[deferred EXCEPT ![m] = o] :
                                            o \in {"pending", "actorStopped"}}
  <1> DEFINE q == Append(queue, m)
             p == [deferred EXCEPT ![m] = "pending"]
  <1>0. /\ begun \in Seq(Messages) /\ queue \in Seq(Messages)
        /\ deferred \in [Messages -> PromiseStates]
        /\ suspended \in BOOLEAN /\ closed \in BOOLEAN
        /\ loop # "idle" => current \in Messages
    BY DEF TypeInv, TypeOK, LoopHasMessage
  <1>1. CASE SendClosed(m)
    BY <1>0, <1>1
    DEF SendClosed, mailboxVars, MailboxInv, LoopInv, NoLostWakeup, Waiting,
        OneAtATime, DeadLettersAreRefusals, IsReceivable
  <1>2. CASE SendOpen(m)
    <2>1. /\ q \in Seq(Messages) /\ Len(q) = Len(queue) + 1 /\ q[Len(q)] = m
          /\ \A i \in 1..Len(queue) : q[i] = queue[i]
      BY <1>0
    <2>2. p \in [Messages -> PromiseStates] /\ p[m] = "pending"
          /\ \A n \in Messages \ {m} : p[n] = deferred[n]
      BY <1>0 DEF PromiseStates
    <2>3. \A i \in 1..Len(queue) : queue[i] \in Messages /\ queue[i] # m
      BY <1>0 DEF MailboxInv, Waiting
    <2>4. \A i \in 1..Len(begun) : begun[i] \in Messages /\ begun[i] # m
      BY <1>0 DEF MailboxInv, OneAtATime, LoopInv
    <2> HIDE DEF q, p
    <2>5. Waiting(q, p)
      <3>1. Waiting(queue, deferred)
        BY DEF MailboxInv
      <3>2. \A i \in 1..Len(q) : p[q[i]] = "pending"
        <4> SUFFICES ASSUME NEW i \in 1..Len(q)  PROVE p[q[i]] = "pending"
          OBVIOUS
        <4>1. CASE i = Len(q)
          BY <2>1, <2>2, <4>1
        <4>2. CASE i \in 1..Len(queue)
          BY <2>1, <2>2, <2>3, <3>1, <4>2 DEF Waiting
        <4> QED  BY <1>0, <2>1, <4>1, <4>2
      <3>3. \A i, j \in 1..Len(q) : q[i] = q[j] => i = j
        <4> SUFFICES ASSUME NEW i \in 1..Len(q), NEW j \in 1..Len(q), q[i] = q[j]
                     PROVE  i = j
          OBVIOUS
        <4>1. CASE i \in 1..Len(queue) /\ j \in 1..Len(queue)
          BY <2>1, <3>1, <4>1 DEF Waiting
        <4>2. CASE i = Len(q) \/ j = Len(q)
          BY <1>0, <2>1, <2>3, <4>2
        <4> QED  BY <1>0, <2>1, <4>1, <4>2
      <3> QED  BY <3>2, <3>3 DEF Waiting
    <2>6. Refusals(p)
      BY <2>2 DEF MailboxInv, DeadLettersAreRefusals, Refusals
    <2>7. CASE suspended \/ dispatching
      <3>1. /\ queue' = q /\ deferred' = p
            /\ UNCHANGED <<closed, suspended, dispatching, loop, current,
                           deadLetters, begun>>
        BY <1>0, <1>2, <2>7
        DEF SendOpen, Dispatch, MailboxInv, LoopInv, q, p
      <3>2. LoopInv'
        <4>1. loop = "awaiting" => current # m
          BY DEF MailboxInv, LoopInv
        <4>2. loop = "awaiting" =>
                 deferred'[current] = "pending"
                 /\ \A i \in 1..Len(queue') : queue'[i] # current
          <5> SUFFICES ASSUME loop = "awaiting"
                       PROVE  /\ p[current] = "pending"
                              /\ \A i \in 1..Len(q) : q[i] # current
            BY <3>1
          <5>1. /\ deferred[current] = "pending" /\ current \in Messages
                /\ \A i \in 1..Len(queue) : queue[i] # current
            BY <1>0 DEF MailboxInv, LoopInv
          <5>2. p[current] = "pending"
            BY <2>2, <4>1, <5>1
          <5>3. \A i \in 1..Len(q) : i = Len(q) \/ i \in 1..Len(queue)
            BY <1>0, <2>1
          <5> QED  BY <2>1, <4>1, <5>1, <5>2, <5>3
        <4>3. NoLostWakeup'
          BY <2>7, <3>1 DEF NoLostWakeup, IsReceivable
        <4>4. LoopInv
          BY DEF MailboxInv
        <4> QED  BY <3>1, <4>2, <4>3, <4>4 DEF LoopInv
      <3>3. OneAtATime'
        BY <1>0, <2>2, <2>4, <3>1 DEF MailboxInv, OneAtATime
      <3>4. Waiting(queue, deferred)'
        BY <2>5, <3>1 DEF Waiting
      <3>5. DeadLettersAreRefusals'
        BY <2>6, <3>1 DEF Refusals, DeadLettersAreRefusals
      <3> QED  BY <3>1, <3>2, <3>3, <3>4, <3>5 DEF MailboxInv, p
    <2>8. CASE ~suspended /\ ~dispatching
      <3>1. DispatchLoop(suspended, q, p) /\ UNCHANGED <<closed, suspended>>
        BY <1>2, <2>8 DEF SendOpen, Dispatch, q, p
      <3>2. loop # "awaiting"
        BY <2>8 DEF MailboxInv, LoopInv
      <3>3. AllSettled(p)
        BY <1>0, <2>2, <2>4, <3>2 DEF MailboxInv, OneAtATime, AllSettled
      <3>4. MailboxInv'
        BY <1>0, <2>1, <2>2, <2>5, <2>6, <3>1, <3>2, <3>3, DispatchLoopKeepsInv
      <3>5. deferred' = p
        BY <3>1 DEF DispatchLoop, Deliver
      <3> QED  BY <3>4, <3>5 DEF p
    <2> QED  BY <2>7, <2>8, <1>2, <1>0 DEF SendOpen, Dispatch, p, MailboxInv
  <1> QED  BY <1>1, <1>2 DEF Send, SendClosed

(* resume(), and the continuation of the loop. *)
LEMMA ResumeKeepsInv ==
    ASSUME TypeInv, MailboxInv, Resume
    PROVE  MailboxInv' /\ deferred' = deferred
  <1>0. /\ queue \in Seq(Messages) /\ deferred \in [Messages -> PromiseStates]
        /\ closed \in BOOLEAN /\ FALSE \in BOOLEAN
    BY DEF TypeInv, TypeOK
  <1>1. CASE IsReceivable(closed, FALSE, queue) /\ ~dispatching
    <2>1. DispatchLoop(FALSE, queue, deferred) /\ closed' = closed
          /\ suspended' = FALSE
      BY <1>1 DEF Resume, Dispatch
    <2>2. loop # "awaiting"
      BY <1>1 DEF MailboxInv, LoopInv
    <2>3. AllSettled(deferred) /\ Waiting(queue, deferred) /\ Refusals(deferred)
      BY <2>2 DEF MailboxInv, OneAtATime, AllSettled, DeadLettersAreRefusals, Refusals
    <2> QED  BY <1>0, <2>1, <2>2, <2>3, DispatchLoopKeepsInv DEF DispatchLoop, Deliver
  <1>2. CASE ~IsReceivable(closed, FALSE, queue) \/ dispatching
    <2>1. /\ UNCHANGED <<queue, dispatching, deferred, loop, current, deadLetters,
                         begun, closed>>
          /\ suspended' = FALSE
      BY <1>2 DEF Resume, Dispatch, deliveryVars, MailboxInv, LoopInv
    <2> QED  BY <1>2, <2>1
             DEF MailboxInv, LoopInv, NoLostWakeup, Waiting, OneAtATime,
                 DeadLettersAreRefusals, IsReceivable
  <1> QED  BY <1>1, <1>2

-----------------------------------------------------------------------------
(* An action that leaves the mailbox and its loop alone, or only closes it. *)
LEMMA FrameKeepsInv ==
    ASSUME MailboxInv, closed => closed',
           closed \in BOOLEAN,
           UNCHANGED <<dispatching, queue, loop, current, deferred, deadLetters,
                       begun>>,
           suspended => suspended', suspended \in BOOLEAN
    PROVE  MailboxInv'
  BY DEF MailboxInv, LoopInv, NoLostWakeup, Waiting, OneAtATime,
         DeadLettersAreRefusals, IsReceivable

(* The handler of the awaited message ends with the outcome o. *)
LEMMA SettleKeepsInv ==
    ASSUME TypeInv, MailboxInv, loop = "awaiting",
           NEW o \in {"resolved", "rejected"},
           deferred' = [deferred EXCEPT ![current] = o],
           UNCHANGED <<queue, deadLetters, begun, closed>>,
           \/ loop' = "returning" /\ current' = current
              /\ dispatching' = dispatching /\ suspended' \in {suspended, TRUE}
           \/ loop' = "idle" /\ dispatching' = FALSE /\ suspended'
    PROVE  MailboxInv'
  <1>1. /\ begun \in Seq(Messages) /\ queue \in Seq(Messages)
        /\ deferred \in [Messages -> PromiseStates] /\ current \in Messages
    BY DEF TypeInv, TypeOK, LoopHasMessage
  <1>2. /\ deferred'[current] = o
        /\ \A n \in Messages \ {current} : deferred'[n] = deferred[n]
    BY <1>1
  <1>3. LoopInv'
    BY DEF MailboxInv, LoopInv, NoLostWakeup, IsReceivable
  <1>4. Waiting(queue, deferred)'
    <2>1. \A i \in 1..Len(queue) : queue[i] \in Messages \ {current}
      BY <1>1 DEF MailboxInv, LoopInv
    <2> QED  BY <1>1, <1>2, <2>1 DEF MailboxInv, Waiting
  <1>5. OneAtATime'
    <2> SUFFICES ASSUME NEW i \in 1..Len(begun)
                 PROVE  deferred'[begun[i]] \in {"resolved", "rejected"}
      BY DEF OneAtATime
    <2>1. CASE begun[i] = current
      BY <1>2, <2>1
    <2>2. CASE begun[i] # current
      <3>1. deferred[begun[i]] \in {"resolved", "rejected"}
        BY <2>2 DEF MailboxInv, OneAtATime
      <3>2. begun[i] \in Messages \ {current}
        BY <1>1, <2>2
      <3> QED  BY <1>2, <3>1, <3>2
    <2> QED  BY <2>1, <2>2
  <1>6. DeadLettersAreRefusals'
    BY <1>1, <1>2 DEF MailboxInv, LoopInv, DeadLettersAreRefusals
  <1> QED  BY <1>3, <1>4, <1>5, <1>6 DEF MailboxInv

LEMMA InvInit == Init => Inv
  <1> SUFFICES ASSUME Init  PROVE Inv
    OBVIOUS
  <1>1. TypeInv
    BY TypeInit
  <1>2. LoopInv
    BY DEF Init, LoopInv, NoLostWakeup, IsReceivable
  <1>3. Waiting(queue, deferred) /\ OneAtATime
    BY DEF Init, Waiting, OneAtATime
  <1>4. DeadLettersAreRefusals /\ StartUnsent
    BY DEF Init, DeadLettersAreRefusals, StartUnsent
  <1> QED  BY <1>1, <1>2, <1>3, <1>4 DEF Inv, MailboxInv

LEMMA InvStep == Inv /\ TypeInv' /\ [Next]_vars => Inv'
  <1> SUFFICES ASSUME Inv, TypeInv', [Next]_vars  PROVE Inv'
    OBVIOUS
  <1>0. TypeInv /\ MailboxInv /\ StartUnsent /\ TypeInv'
        /\ closed \in BOOLEAN /\ suspended \in BOOLEAN
    BY DEF Inv, TypeInv, TypeOK
  <1> SUFFICES MailboxInv' /\ StartUnsent'
    BY <1>0 DEF Inv
  <1>1. CASE StartAborted
    <2>1. UNCHANGED <<closed, suspended, dispatching, queue, loop, current,
                      deferred, deadLetters, begun>>
          /\ phase # "started"
      BY <1>1 DEF StartAborted, mailboxVars, deliveryVars
    <2> QED  BY <1>0, <2>1, FrameKeepsInv DEF StartUnsent
  <1>2. CASE StartSent
    <2>1. deferred[StartMessage] = "unsent"
      BY <1>0, <1>2 DEF StartSent, StartUnsent
    <2> QED  BY <1>0, <1>2, <2>1, SendKeepsInv DEF StartSent, StartUnsent
  <1>3. CASE StartCatch
    BY <1>0, <1>3, FrameKeepsInv
    DEF StartCatch, mailboxVars, deliveryVars, StartUnsent
  <1>4. ASSUME NEW m \in Messages, SendMessage(m)
        PROVE  MailboxInv' /\ StartUnsent'
    <2>1. m # StartMessage /\ deferred[m] = "unsent" /\ Send(m) /\ phase' = phase
      BY <1>4 DEF SendMessage, startVars
    <2>2. MailboxInv' /\ deferred' \in {[deferred EXCEPT ![m] = o] :
                                          o \in {"pending", "actorStopped"}}
      BY <1>0, <2>1, SendKeepsInv
    <2>3. deferred'[StartMessage] = deferred[StartMessage]
      BY <1>0, <2>1, <2>2 DEF TypeInv, TypeOK
    <2> QED  BY <1>0, <2>1, <2>2, <2>3 DEF StartUnsent
  <1>5. CASE HandlerSucceeds \/ HandlerFails
    <2>1. PICK o \in {"resolved", "rejected"} :
                deferred' = [deferred EXCEPT ![current] = o]
      BY <1>5 DEF HandlerSucceeds, HandlerFails
    <2>2. MailboxInv'
      BY <1>0, <1>5, <2>1, SettleKeepsInv
      DEF HandlerSucceeds, HandlerFails, mailboxVars
    <2>3. loop = "awaiting" => deferred[current] = "pending"
      BY <1>0 DEF MailboxInv, LoopInv
    <2>4. phase' = phase /\ loop = "awaiting"
      BY <1>5 DEF HandlerSucceeds, HandlerFails, startVars
    <2>5. phase # "started" => current # StartMessage
      BY <1>0, <2>3, <2>4 DEF StartUnsent
    <2> QED  BY <1>0, <2>1, <2>2, <2>4, <2>5 DEF StartUnsent, TypeInv, TypeOK
  <1>6. CASE StopHandlerCloses
    BY <1>0, <1>6, FrameKeepsInv
    DEF StopHandlerCloses, Close, deliveryVars, startVars, StartUnsent
  <1>7. CASE LoopContinues
    <2>1. AllSettled(deferred) /\ Waiting(queue, deferred) /\ Refusals(deferred)
      BY <1>0, <1>7 DEF LoopContinues, MailboxInv, OneAtATime, AllSettled,
                        DeadLettersAreRefusals, Refusals
    <2>2. /\ DispatchLoop(suspended, queue, deferred) /\ loop # "awaiting"
          /\ closed' = closed /\ suspended' = suspended /\ phase' = phase
          /\ queue \in Seq(Messages) /\ deferred \in [Messages -> PromiseStates]
      BY <1>0, <1>7 DEF LoopContinues, startVars, TypeInv, TypeOK
    <2>3. MailboxInv'
      BY <1>0, <2>1, <2>2, DispatchLoopKeepsInv
    <2>4. deferred' = deferred
      BY <2>2 DEF DispatchLoop, Deliver
    <2> QED  BY <1>0, <2>2, <2>3, <2>4 DEF StartUnsent
  <1>8. ASSUME NEW f \in Failures, Decide(f) \/ SupervisedStopCloses(f)
        PROVE  MailboxInv' /\ StartUnsent'
    <2>1. CASE DecideResume(f)
      BY <1>0, <2>1, ResumeKeepsInv DEF DecideResume, StartUnsent, startVars
    <2>2. CASE DecideStop(f) \/ DecideNothing(f) \/ SupervisedStopCloses(f)
      BY <1>0, <2>2, FrameKeepsInv
      DEF DecideStop, DecideNothing, SupervisedStopCloses, Close, mailboxVars,
          deliveryVars, startVars, StartUnsent
    <2> QED  BY <1>8, <2>1, <2>2 DEF Decide
  <1>9. CASE UNCHANGED vars
    BY <1>0, <1>9, FrameKeepsInv
    DEF vars, mailboxVars, deliveryVars, startVars, StartUnsent
  <1> QED  BY <1>1, <1>2, <1>3, <1>4, <1>5, <1>6, <1>7, <1>8, <1>9
           DEF Next, Handler

THEOREM InvHolds == Spec => []Inv
  <1>1. Inv /\ [Next]_vars => Inv'
    BY TypeStep, InvStep DEF Inv
  <1> QED  BY InvInit, <1>1, PTL DEF Spec

(* The mailbox never sleeps on a message it could deliver: whatever the     *)
(* order of send(), resume(), failures and the end of the dispatch loop, a   *)
(* receivable mailbox has its loop running.                                 *)
THEOREM NoLostWakeupHolds == Spec => []NoLostWakeup
  <1>1. Inv => NoLostWakeup
    BY DEF Inv, MailboxInv, LoopInv
  <1> QED  BY InvHolds, <1>1, PTL

(* The actor handles one message at a time, however many senders there are. *)
THEOREM OneAtATimeHolds == Spec => []OneAtATime
  <1>1. Inv => OneAtATime
    BY DEF Inv, MailboxInv
  <1> QED  BY InvHolds, <1>1, PTL

(* Only a message refused by a closed mailbox is a dead letter.             *)
THEOREM DeadLettersHold == Spec => []DeadLettersAreRefusals
  <1>1. Inv => DeadLettersAreRefusals
    BY DEF Inv, MailboxInv
  <1> QED  BY InvHolds, <1>1, PTL

-----------------------------------------------------------------------------
(* A suspended mailbox has an owner.  The property is inductive by itself:   *)
(* closed only grows, lost is emptied by a resume only, and a decision that  *)
(* consumes a failure either resumes the mailbox or leaves a trace in closed, *)
(* stopping or lost.                                                         *)
THEOREM SuspensionHasOwnerHolds == Spec => []SuspensionHasOwner
  <1>1. Init => SuspensionHasOwner
    BY DEF Init, SuspensionHasOwner
  <1>2. SuspensionHasOwner /\ TypeInv /\ [Next]_vars => SuspensionHasOwner'
    <2> SUFFICES ASSUME SuspensionHasOwner, TypeInv, [Next]_vars
                 PROVE  SuspensionHasOwner'
      OBVIOUS
    <2> USE DEF SuspensionHasOwner
    <2>1. CASE StartAborted
      BY <2>1 DEF StartAborted, SupervisorMissing, mailboxVars
    <2>2. CASE StartSent \/ \E m \in Messages : SendMessage(m)
      BY <2>2 DEF StartSent, SendMessage, Send, SendOpen, SendClosed, Inform,
                  mailboxVars, supervisionVars
    <2>3. CASE StartCatch
      BY <2>3 DEF StartCatch, RouteStartFailure, Inform, SupervisorMissing,
                  mailboxVars
    <2>4. CASE HandlerSucceeds \/ StopHandlerCloses \/ LoopContinues
      BY <2>4 DEF HandlerSucceeds, StopHandlerCloses, Close, LoopContinues,
                  mailboxVars, supervisionVars
    <2>5. CASE HandlerFails
      BY <2>5 DEF HandlerFails, Inform, SupervisorMissing
    <2>6. ASSUME NEW f \in Failures, Decide(f)  PROVE SuspensionHasOwner'
      BY <2>6 DEF Decide, DecideResume, DecideStop, DecideNothing, Resume,
                  mailboxVars
    <2>7. ASSUME NEW f \in Failures, SupervisedStopCloses(f)
          PROVE  SuspensionHasOwner'
      BY <2>7 DEF SupervisedStopCloses, Close
    <2>8. CASE UNCHANGED vars
      BY <2>8 DEF vars, mailboxVars, supervisionVars
    <2> QED  BY <2>1, <2>2, <2>3, <2>4, <2>5, <2>6, <2>7, <2>8 DEF Next, Handler
  <1>3. Spec => []TypeInv
    BY TypeInit, TypeStep, PTL DEF Spec
  <1> QED  BY <1>1, <1>2, <1>3, PTL DEF Spec

-----------------------------------------------------------------------------
(* ArrayMailbox implements ActorDelivery. *)

(* Entering the loop begins the oldest message of q, or changes nothing that *)
(* ActorDelivery sees.                                                       *)
LEMMA DispatchLoopRefines ==
    ASSUME loop # "awaiting", closed' = closed,
           NEW s, NEW q, NEW p, DispatchLoop(s, q, p)
    PROVE  /\ deferred' = p
           /\ \/ Delivery!BeginOldest(q)
              \/ /\ queue' = q /\ begun' = begun
                 /\ (loop' = "awaiting") = (loop = "awaiting")
  BY DEF DispatchLoop, Deliver, IsReceivable, Delivery!BeginOldest

LEMMA SendRefines ==
    ASSUME Inv, NEW m \in Messages, deferred[m] = "unsent", Send(m)
    PROVE  Delivery!Accept(m) \/ Delivery!Refuse(m)
  <1> DEFINE q == Append(queue, m)
             p == [deferred EXCEPT ![m] = "pending"]
  <1>1. CASE SendClosed(m)
    BY <1>1 DEF SendClosed, mailboxVars, Delivery!Refuse
  <1>2. CASE SendOpen(m)
    <2>1. ~closed /\ closed' = closed /\ suspended' = suspended
      BY <1>2 DEF SendOpen
    <2>2. CASE suspended \/ dispatching
      <3>1. /\ queue' = q /\ deferred' = p
            /\ UNCHANGED <<loop, begun>>
        BY <1>2, <2>2 DEF SendOpen, Dispatch, Inv, MailboxInv, LoopInv
      <3> QED  BY <2>1, <3>1 DEF Delivery!Accept
    <2>3. CASE ~suspended /\ ~dispatching
      <3>1. DispatchLoop(suspended, q, p)
        BY <1>2, <2>3 DEF SendOpen, Dispatch
      <3>2. loop # "awaiting"
        BY <2>3 DEF Inv, MailboxInv, LoopInv
      <3> HIDE DEF q, p
      <3>3. /\ deferred' = p
            /\ \/ Delivery!BeginOldest(q)
               \/ /\ queue' = q /\ begun' = begun
                  /\ (loop' = "awaiting") = (loop = "awaiting")
        BY <2>1, <3>1, <3>2, DispatchLoopRefines
      <3> QED  BY <2>1, <3>3 DEF Delivery!Accept, q, p
    <2> QED  BY <2>2, <2>3
  <1> QED  BY <1>1, <1>2 DEF Send

LEMMA StepRefines == Inv /\ [Next]_vars => [Delivery!Next]_(Delivery!vars)
  <1> SUFFICES ASSUME Inv, [Next]_vars
               PROVE  Delivery!Next \/ UNCHANGED Delivery!vars
    OBVIOUS
  <1> USE DEF Delivery!vars
  <1>1. CASE StartAborted \/ StartCatch
    BY <1>1 DEF StartAborted, StartCatch, mailboxVars, deliveryVars
  <1>2. CASE StartSent
    <2>1. deferred[StartMessage] = "unsent"
      BY <1>2 DEF StartSent, Inv, StartUnsent
    <2> QED  BY <1>2, <2>1, SendRefines DEF StartSent, Delivery!Next
  <1>3. ASSUME NEW m \in Messages, SendMessage(m)  PROVE Delivery!Next
    BY <1>3, SendRefines DEF SendMessage, Delivery!Next
  <1>4. CASE HandlerSucceeds \/ HandlerFails
    <2>1. PICK o \in {"resolved", "rejected"} :
                deferred' = [deferred EXCEPT ![current] = o]
      BY <1>4 DEF HandlerSucceeds, HandlerFails
    <2>2. loop = "awaiting" /\ loop' # "awaiting" /\ begun[Len(begun)] = current
          /\ queue' = queue /\ begun' = begun /\ closed' = closed
      BY <1>4 DEF HandlerSucceeds, HandlerFails, mailboxVars, Inv, MailboxInv,
                  LoopInv
    <2>3. Delivery!Settle
      BY <2>1, <2>2 DEF Delivery!Settle
    <2> QED  BY <2>3 DEF Delivery!Next
  <1>5. CASE StopHandlerCloses
    BY <1>5 DEF StopHandlerCloses, Close, deliveryVars, Delivery!Stop,
                Delivery!Next
  <1>6. CASE LoopContinues
    <2>1. DispatchLoop(suspended, queue, deferred) /\ loop # "awaiting"
          /\ closed' = closed
      BY <1>6 DEF LoopContinues
    <2> QED  BY <2>1, DispatchLoopRefines DEF Delivery!Begin, Delivery!Next
  <1>7. ASSUME NEW f \in Failures, Decide(f) \/ SupervisedStopCloses(f)
        PROVE  Delivery!Next \/ UNCHANGED Delivery!vars
    <2>1. CASE DecideResume(f)
      <3>1. closed' = closed
        BY <2>1 DEF DecideResume, Resume
      <3>2. CASE IsReceivable(closed, FALSE, queue) /\ ~dispatching
        <4>1. DispatchLoop(FALSE, queue, deferred)
          BY <2>1, <3>2 DEF DecideResume, Resume, Dispatch
        <4>2. loop # "awaiting"
          BY <3>2 DEF Inv, MailboxInv, LoopInv
        <4> QED  BY <3>1, <4>1, <4>2, DispatchLoopRefines
                 DEF Delivery!Begin, Delivery!Next
      <3>3. CASE ~IsReceivable(closed, FALSE, queue) \/ dispatching
        BY <2>1, <3>1, <3>3
        DEF DecideResume, Resume, Dispatch, deliveryVars, Inv, MailboxInv, LoopInv
      <3> QED  BY <3>2, <3>3
    <2>2. CASE DecideStop(f) \/ DecideNothing(f)
      BY <2>2 DEF DecideStop, DecideNothing, mailboxVars, deliveryVars
    <2>3. CASE SupervisedStopCloses(f)
      BY <2>3 DEF SupervisedStopCloses, Close, deliveryVars, Delivery!Stop,
                  Delivery!Next, Inv, TypeInv, TypeOK
    <2> QED  BY <1>7, <2>1, <2>2, <2>3 DEF Decide
  <1>8. CASE UNCHANGED vars
    BY <1>8 DEF vars, mailboxVars, deliveryVars
  <1> QED  BY <1>1, <1>2, <1>3, <1>4, <1>5, <1>6, <1>7, <1>8 DEF Next, Handler

(* Whatever the supervisors decide and whenever the mailbox closes, senders  *)
(* see the promise of ActorDelivery: acceptance order, one handler at a     *)
(* time, one settlement, nothing begun after the stop.                      *)
THEOREM Refinement == Spec => ImplementsDelivery
  <1>1. Init => Delivery!Init
    BY DEF Init, Delivery!Init
  <1> QED  BY <1>1, InvHolds, StepRefines, PTL
           DEF Spec, ImplementsDelivery, Delivery!Spec

-----------------------------------------------------------------------------
(* After a clean start at most one failure waits for its decision, and it    *)
(* keeps the mailbox suspended and the loop away from any handler.           *)
OneSupervision ==
    CleanStart => \/ undecided = {}
                  \/ /\ suspended /\ loop # "awaiting"
                     /\ \E f \in undecided : undecided = {f}

StartRejections ==
    startRejected => deferred[StartMessage] = "rejected"

(* A rejected promise stays rejected, so a start that failed is never clean. *)
LEMMA RejectedForever ==
    Inv /\ [Next]_vars /\ deferred[StartMessage] = "rejected"
        => deferred'[StartMessage] = "rejected"
  <1> SUFFICES ASSUME Inv, [Next]_vars, deferred[StartMessage] = "rejected"
               PROVE  deferred'[StartMessage] = "rejected"
    OBVIOUS
  <1>0. deferred \in [Messages -> PromiseStates]
        /\ (loop = "awaiting" => deferred[current] = "pending")
        /\ (loop # "idle" => current \in Messages)
    BY DEF Inv, TypeInv, TypeOK, LoopHasMessage, MailboxInv, LoopInv
  <1>1. CASE StartSent
    BY <1>1 DEF StartSent, Inv, StartUnsent
  <1>2. ASSUME NEW m \in Messages, SendMessage(m)
        PROVE  deferred'[StartMessage] = "rejected"
    <2>1. deferred' \in {[deferred EXCEPT ![m] = o] :
                              o \in {"pending", "actorStopped"}}
      BY <1>2, SendKeepsInv DEF SendMessage, Inv
    <2> QED  BY <1>0, <1>2, <2>1 DEF SendMessage
  <1>3. CASE HandlerSucceeds \/ HandlerFails
    BY <1>0, <1>3 DEF HandlerSucceeds, HandlerFails
  <1>4. CASE LoopContinues
    BY <1>4 DEF LoopContinues, DispatchLoop, Deliver
  <1>5. ASSUME NEW f \in Failures, DecideResume(f)
        PROVE  deferred'[StartMessage] = "rejected"
    BY <1>5, ResumeKeepsInv DEF DecideResume, Inv
  <1>6. CASE \/ StartAborted \/ StartCatch \/ StopHandlerCloses \/ UNCHANGED vars
             \/ \E f \in Failures : \/ DecideStop(f) \/ DecideNothing(f)
                                     \/ SupervisedStopCloses(f)
    BY <1>6 DEF StartAborted, StartCatch, StopHandlerCloses, DecideStop,
                DecideNothing, SupervisedStopCloses, vars, deliveryVars
  <1> QED  BY <1>1, <1>2, <1>3, <1>4, <1>5, <1>6 DEF Next, Handler, Decide

LEMMA FailuresGrow == [Next]_vars => failures \subseteq failures'
  <1> SUFFICES ASSUME [Next]_vars  PROVE failures \subseteq failures'
    OBVIOUS
  <1>1. CASE StartSent \/ StartAborted \/ StartCatch
    BY <1>1 DEF StartSent, StartAborted, StartCatch, RouteStartFailure, Inform,
                SupervisorMissing, supervisionVars
  <1>2. CASE HandlerFails
    BY <1>2 DEF HandlerFails, Inform, SupervisorMissing
  <1>3. CASE \/ \E m \in Messages : SendMessage(m)
             \/ HandlerSucceeds \/ StopHandlerCloses \/ LoopContinues
             \/ UNCHANGED vars
    BY <1>3 DEF SendMessage, HandlerSucceeds, StopHandlerCloses,
                LoopContinues, vars, supervisionVars
  <1>4. CASE \E f \in Failures : Decide(f) \/ SupervisedStopCloses(f)
    BY <1>4 DEF Decide, DecideResume, DecideStop, DecideNothing,
                SupervisedStopCloses
  <1> QED  BY <1>1, <1>2, <1>3, <1>4 DEF Next, Handler

QuarantineInv == OneSupervision /\ StartRejections

LEMMA QuarantineStep ==
    Inv /\ QuarantineInv /\ [Next]_vars =>
        QuarantineInv' /\ (begun' # begun /\ CleanStart' => undecided' = {})
  <1> SUFFICES ASSUME Inv, QuarantineInv, [Next]_vars
               PROVE  /\ QuarantineInv'
                      /\ begun' # begun /\ CleanStart' => undecided' = {}
    OBVIOUS
  <1>0. /\ CleanStart' => CleanStart
        /\ deferred[StartMessage] = "rejected" =>
              ~CleanStart /\ ~CleanStart' /\ deferred'[StartMessage] = "rejected"
    BY RejectedForever, FailuresGrow DEF CleanStart
  <1>1. OneSupervision /\ StartRejections /\ suspended \in BOOLEAN
    BY DEF QuarantineInv, Inv, TypeInv, TypeOK
  <1> USE DEF QuarantineInv, OneSupervision, StartRejections
  <1>2. CASE StartAborted
    BY <1>0, <1>1, <1>2 DEF StartAborted, SupervisorMissing, mailboxVars,
                            deliveryVars
  <1>3. ASSUME NEW m \in Messages, Send(m),
               UNCHANGED <<undecided, startRejected>>
        PROVE  /\ QuarantineInv'
               /\ begun' # begun /\ CleanStart' => undecided' = {}
    <2>1. suspended => loop' = loop /\ begun' = begun
      BY <1>3 DEF Send, SendOpen, SendClosed
    <2>2. suspended' = suspended
      BY <1>3 DEF Send, SendOpen, SendClosed, mailboxVars
    <2> QED  BY <1>0, <1>1, <1>3, <2>1, <2>2
  <1>4. CASE StartSent \/ \E m \in Messages : SendMessage(m)
    <2>1. CASE StartSent /\ ~CleanStart'
      BY <1>0, <1>1, <2>1 DEF StartSent
    <2>2. CASE StartSent /\ CleanStart'
      <3>1. Send(StartMessage) /\ UNCHANGED <<undecided, startRejected>>
        BY <2>2 DEF StartSent, Inform, CleanStart, supervisionVars
      <3> QED  BY <1>3, <3>1, MessagesAssumption
    <2>3. CASE \E m \in Messages : SendMessage(m)
      BY <1>3, <2>3 DEF SendMessage, startVars, supervisionVars
    <2> QED  BY <1>4, <2>1, <2>2, <2>3
  <1>5. CASE StartCatch
    BY <1>0, <1>1, <1>5 DEF StartCatch, deliveryVars
  <1>6. CASE HandlerSucceeds \/ StopHandlerCloses
    BY <1>0, <1>1, <1>6 DEF HandlerSucceeds, StopHandlerCloses, mailboxVars,
                            deliveryVars, startVars, supervisionVars
  <1>7. CASE HandlerFails
    <2>1. startRejected' => deferred'[StartMessage] = "rejected"
      <3>1. deferred'[current] = "rejected"
        BY <1>7 DEF HandlerFails, Inv, TypeInv, TypeOK, LoopHasMessage
      <3> QED  BY <1>0, <1>1, <1>7, <3>1 DEF HandlerFails
    <2>2. CleanStart => undecided = {}
      BY <1>1, <1>7 DEF HandlerFails
    <2> QED  BY <1>0, <1>7, <2>1, <2>2 DEF HandlerFails, Inform, SupervisorMissing
  <1>8. CASE LoopContinues
    <2>1. suspended => loop' = "idle" /\ begun' = begun
      BY <1>8 DEF LoopContinues, DispatchLoop, IsReceivable
    <2> QED  BY <1>0, <1>1, <1>8, <2>1 DEF LoopContinues, startVars,
                                           supervisionVars
  <1>9. ASSUME NEW f \in Failures, Decide(f) \/ SupervisedStopCloses(f)
        PROVE  /\ QuarantineInv'
               /\ begun' # begun /\ CleanStart' => undecided' = {}
    <2>1. CASE Decide(f)
      <3>1. f \in undecided /\ undecided' = undecided \ {f}
            /\ startRejected' = startRejected
        BY <2>1 DEF Decide, DecideResume, DecideStop, DecideNothing, startVars
      <3>2. CleanStart => undecided' = {}
        BY <1>1, <3>1
      <3> QED  BY <1>0, <1>1, <3>1, <3>2
    <2>2. CASE SupervisedStopCloses(f)
      BY <1>0, <1>1, <2>2 DEF SupervisedStopCloses, deliveryVars, startVars
    <2> QED  BY <1>9, <2>1, <2>2
  <1>10. CASE UNCHANGED vars
    BY <1>0, <1>1, <1>10 DEF vars, mailboxVars, deliveryVars, startVars,
                             supervisionVars
  <1> QED  BY <1>2, <1>4, <1>5, <1>6, <1>7, <1>8, <1>9, <1>10 DEF Next, Handler

(* After a clean start a failure stops the actor in its tracks: no handler   *)
(* is called until the supervisor decided on it.                             *)
THEOREM QuarantineHolds == Spec => QuarantineAfterCleanStart
  <1>1. Init => QuarantineInv
    BY DEF Init, QuarantineInv, OneSupervision, StartRejections
  <1>2. Inv /\ QuarantineInv /\ [Next]_vars =>
            QuarantineInv' /\ [begun' # begun /\ CleanStart' => undecided' = {}]_vars
    BY QuarantineStep
  <1> QED  BY <1>1, <1>2, InvHolds, PTL DEF Spec, QuarantineAfterCleanStart
=============================================================================
