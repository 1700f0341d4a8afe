-------------------------- MODULE SupervisionProofs --------------------------
(***************************************************************************)
(* What holds of Supervision for every set of actors and requests, checked *)
(* by TLAPS.                                                               *)
(***************************************************************************)
EXTENDS Supervision, QueueLemmas, FiniteSetTheorems

USE RequestsAssumption

(* The failures that wait for the supervisor, and all that are somebody's.   *)
Pending == {r \in Requests : InformPending(r)}
Owned == Pending \cup restarting \cup stopping \cup lost

(* The supervisor: it has a failure in hand exactly while its loop runs, and *)
(* a failure is in one place only; those in the queue of a stopped           *)
(* supervisor are lost.                                                      *)
PlacesInv ==
    /\ loop = "deciding" =>
          deciding \in Requests \ (ToSet(informs) \cup lost)
    /\ IsInjective(informs)
    /\ IF supClosed THEN ToSet(informs) \subseteq lost
                    ELSE ToSet(informs) \cap lost = {}
    /\ restarting \cap stopping = {}
    /\ (restarting \cup stopping) \cap (Pending \cup lost) = {}

(* The actors: the one whose handler runs has the context of its message;    *)
(* all others have none.                                                     *)
ContextInv ==
    /\ \A r \in Requests : outcome[r] = "handling" <=> context[To[r]] = r
    /\ \A a \in Actors : context[a] # NoRequest => To[context[a]] = a

(* A failure that is somebody's keeps its actor suspended and alone.         *)
OwnerInv ==
    /\ \A r \in Owned : outcome[r] = "failed" /\ To[r] \in suspended \ closed
    /\ \A r, s \in Owned : To[r] = To[s] => r = s
    /\ \A a \in suspended \ closed : \E r \in Owned : To[r] = a
    /\ closed \subseteq suspended
    /\ \A r \in Requests : outcome[r] = "handling" => To[r] \notin suspended

Inv == TypeOK /\ PlacesInv /\ ContextInv /\ OwnerInv /\ NoForeignContext

-----------------------------------------------------------------------------
(* The loop of the supervisor *)

(* A round of the loop moves the failures of its queue: the first may be     *)
(* in hand now, with the context its actor has; all others are still queued. *)
LEMMA InformLoopMoves ==
    ASSUME NEW q \in Seq(Requests), IsInjective(q), NEW s,
           NEW contexts \in [Actors -> Requests \cup {NoRequest}],
           InformLoop(s, q, contexts)
    PROVE  /\ informs' \in Seq(Requests) /\ IsInjective(informs')
           /\ loop' \in {"idle", "deciding", "returning"}
           /\ deciding' \in Requests \cup {NoRequest}
           /\ seen' \in Requests \cup {NoRequest}
           /\ loop' = "deciding" =>
                 /\ ~supClosed
                 /\ deciding' \in Requests \ ToSet(informs')
                 /\ seen' = contexts[To[deciding']]
           /\ \A r : r \in ToSet(informs') \/ (loop' = "deciding" /\ deciding' = r)
                       <=> r \in ToSet(q)
<1>1. CASE ~supClosed /\ ~s /\ q # <<>>
  <2>1. /\ informs' = Tail(q) /\ loop' = "deciding" /\ deciding' = Head(q)
        /\ seen' = contexts[To[Head(q)]]
    BY <1>1 DEF InformLoop
  <2>2. Head(q) \in Requests /\ contexts[To[Head(q)]] \in Requests \cup {NoRequest}
    BY <1>1, QueueBegins
  <2> QED  BY <1>1, <2>1, <2>2, QueueBegins, InjectiveQueueBegins
<1>2. CASE supClosed \/ s \/ q = <<>>
  <2>1. /\ informs' = q /\ loop' = "idle" /\ deciding' = NoRequest
        /\ seen' = NoRequest
    BY <1>2 DEF InformLoop
  <2> QED  BY <2>1
<1> QED  BY <1>1, <1>2

-----------------------------------------------------------------------------
(* Initially *)

LEMMA InvInit == Init => Inv
<1> SUFFICES ASSUME Init  PROVE Inv
  OBVIOUS
<1> USE DEF Init
<1>1. TypeOK
  <2>1. informs \in Seq(Requests)
    BY EmptyQueue
  <2> QED  BY <2>1 DEF TypeOK
<1>2. ToSet(informs) = {} /\ Pending = {} /\ Owned = {}
  BY EmptyQueue DEF Pending, Owned, InformPending
<1>3. PlacesInv
  BY <1>2, EmptyQueue DEF PlacesInv
<1>4. ContextInv
  BY DEF ContextInv
<1>5. OwnerInv
  BY <1>2 DEF OwnerInv
<1>6. NoForeignContext
  BY DEF NoForeignContext
<1> QED  BY <1>1, <1>3, <1>4, <1>5, <1>6 DEF Inv

-----------------------------------------------------------------------------
(* The actors *)

(* The actor of a failure that is somebody's handles nothing. *)
LEMMA IdleWithoutContext ==
    ASSUME Inv, NEW r \in Owned
    PROVE  r \in Requests /\ context[To[r]] = NoRequest
<1>1. r \in Requests
  BY DEF Inv, TypeOK, Owned, Pending
<1>2. To[r] \in Actors /\ To[r] \in suspended
  BY <1>1 DEF Inv, OwnerInv
<1> DEFINE c == context[To[r]]
<1>3. SUFFICES ASSUME c # NoRequest  PROVE FALSE
  BY <1>1
<1>4. c \in Requests /\ To[c] = To[r]
  BY <1>2, <1>3 DEF Inv, TypeOK, ContextInv
<1>5. outcome[c] = "handling"
  BY <1>4 DEF Inv, ContextInv
<1> QED  BY <1>2, <1>4, <1>5 DEF Inv, OwnerInv

LEMMA BeginKeeps ==
    ASSUME Inv, NEW r \in Requests, Begin(r)
    PROVE  Inv'
<1> USE DEF Inv, Begin, supervisorVars, directiveVars
<1>1. TypeOK'
  BY DEF TypeOK
<1>2. UNCHANGED <<Pending, Owned>> /\ PlacesInv'
  BY DEF Pending, Owned, InformPending, PlacesInv
<1>3. ContextInv'
  BY DEF TypeOK, ContextInv, Busy
<1>4. OwnerInv'
  BY <1>2 DEF TypeOK, OwnerInv
<1> QED  BY <1>1, <1>2, <1>3, <1>4 DEF NoForeignContext

LEMMA HandlerSucceedsKeeps ==
    ASSUME Inv, NEW r \in Requests, HandlerSucceeds(r)
    PROVE  Inv'
<1> USE DEF Inv, HandlerSucceeds, supervisorVars, directiveVars
<1>1. TypeOK'
  BY DEF TypeOK
<1>2. UNCHANGED <<Pending, Owned>> /\ PlacesInv'
  BY DEF Pending, Owned, InformPending, PlacesInv
<1>3. ContextInv'
  BY DEF TypeOK, ContextInv
<1>4. OwnerInv'
  BY <1>2 DEF TypeOK, OwnerInv
<1> QED  BY <1>1, <1>2, <1>3, <1>4 DEF NoForeignContext

(* A failure begins to be somebody's: the supervisor's, or nobody's.         *)
LEMMA HandlerFailsKeeps ==
    ASSUME Inv, NEW r \in Requests, HandlerFails(r)
    PROVE  Inv'
<1> USE DEF Inv
<1> DEFINE q == Append(informs, r)
<1>0. r \notin Owned /\ r \notin Pending /\ r \notin ToSet(informs)
  BY DEF HandlerFails, OwnerInv, Owned, Pending, InformPending
<1>1. /\ informs \in Seq(Requests) /\ IsInjective(informs)
      /\ context \in [Actors -> Requests \cup {NoRequest}]
  BY DEF TypeOK, PlacesInv
<1>2. /\ q \in Seq(Requests) /\ q # <<>> /\ IsInjective(q)
      /\ ToSet(q) = ToSet(informs) \cup {r}
      /\ ToSet(informs) \subseteq Requests
  BY <1>0, <1>1, QueueEnds, InjectiveQueueEnds, QueueElements
<1> HIDE DEF q
<1>3. /\ TypeOK' /\ PlacesInv' /\ Owned' = Owned \cup {r} /\ NoForeignContext'
  <2>1. CASE supClosed
    BY <1>0, <1>1, <2>1
    DEF HandlerFails, SendInform, TypeOK, PlacesInv, Owned, Pending,
        InformPending, NoForeignContext
  <2>2. CASE ~supClosed /\ loop = "idle" /\ ~supSuspended
    <3>1. InformLoop(supSuspended, q, context) /\ UNCHANGED lost
      BY <2>2 DEF HandlerFails, SendInform, q
    <3>2. /\ Pending' = Pending \cup {r} /\ Owned' = Owned \cup {r}
      BY <1>2, <2>2, <3>1, <1>1, InformLoopMoves
      DEF HandlerFails, Owned, Pending, InformPending
    <3>3. TypeOK'
      BY <1>2, <1>1, <3>1, InformLoopMoves DEF HandlerFails, TypeOK
    <3>4. /\ ToSet(informs') \subseteq ToSet(informs) \cup {r}
          /\ IsInjective(informs') /\ ~supClosed' /\ UNCHANGED lost
          /\ loop' = "deciding" =>
                /\ deciding' \in (ToSet(informs) \cup {r}) \ ToSet(informs')
                /\ seen' = context[To[deciding']]
      BY <1>2, <1>1, <2>2, <3>1, InformLoopMoves DEF HandlerFails
    <3>5. r \notin lost \cup restarting \cup stopping
      BY <1>0 DEF Owned
    <3>6. PlacesInv'
      BY <1>2, <3>2, <3>4, <3>5, <2>2 DEF PlacesInv, HandlerFails
    <3>7. NoForeignContext'
      <4> SUFFICES ASSUME loop' = "deciding"  PROVE seen' \in {deciding', NoRequest}
        BY DEF NoForeignContext
      <4>1. CASE deciding' = r
        BY <3>4, <4>1 DEF HandlerFails, ContextInv
      <4>2. CASE deciding' \in ToSet(informs)
        <5>1. deciding' \in Owned
          BY <1>2, <4>2 DEF Owned, Pending, InformPending
        <5> QED  BY <3>4, <5>1, IdleWithoutContext
      <4> QED  BY <3>4, <4>1, <4>2
    <3> QED  BY <3>2, <3>3, <3>6, <3>7
  <2>3. CASE ~supClosed /\ ~(loop = "idle" /\ ~supSuspended)
    <3>1. informs' = q /\ UNCHANGED <<loop, deciding, seen, lost, supClosed,
                                     restarting, stopping>>
      BY <2>3 DEF HandlerFails, SendInform, q
    <3>2. TypeOK'
      BY <1>2, <2>3, <3>1 DEF HandlerFails, TypeOK
    <3>3. Pending' = Pending \cup {r} /\ Owned' = Owned \cup {r}
      BY <1>2, <3>1 DEF Owned, Pending, InformPending
    <3>4. PlacesInv'
      BY <1>0, <1>2, <2>3, <3>1, <3>3 DEF PlacesInv, Owned, Pending, InformPending
    <3> QED  BY <3>1, <3>2, <3>3, <3>4 DEF NoForeignContext
  <2> QED  BY <2>1, <2>2, <2>3
<1>4. ContextInv'
  BY DEF HandlerFails, TypeOK, ContextInv
<1>5. OwnerInv'
  BY <1>3 DEF HandlerFails, TypeOK, OwnerInv, ContextInv
<1> QED  BY <1>3, <1>4, <1>5

-----------------------------------------------------------------------------
(* The supervisor *)

(* The end of inform(): the failure in hand goes where the directive says.   *)
LEMMA InformEndsFacts ==
    ASSUME Inv, InformEnds
    PROVE  /\ deciding \in Requests /\ deciding \in Owned
           /\ deciding \notin ToSet(informs) \cup restarting \cup stopping \cup lost
           /\ To[deciding] \in suspended \ closed
           /\ loop' = "returning" /\ UNCHANGED <<informs, deciding, seen, supClosed>>
           /\ Pending' = Pending \ {deciding}
<1> USE DEF Inv, InformEnds
<1>1. deciding \in Requests /\ deciding \notin ToSet(informs) \cup lost
  BY DEF PlacesInv
<1>2. deciding \in Pending
  BY <1>1 DEF Pending, InformPending
<1>3. deciding \notin restarting \cup stopping
  BY <1>2 DEF PlacesInv
<1>4. To[deciding] \in suspended \ closed
  BY <1>2 DEF OwnerInv, Owned
<1>5. Pending' = Pending \ {deciding}
  BY <1>1 DEF Pending, InformPending
<1> QED  BY <1>1, <1>2, <1>3, <1>4, <1>5 DEF Owned

LEMMA DecideKeeps ==
    ASSUME Inv, Decide
    PROVE  Inv'
<1> USE DEF Inv, directiveVars, actorVars
<1>1. InformEnds
  BY DEF Decide, DecideResume, DecideRestart, DecideStop, DecideNothing,
         Escalate, DecideFails
<1>2. NoForeignContext' /\ TypeOK'
  BY <1>1, InformEndsFacts
  DEF NoForeignContext, TypeOK, Decide, DecideResume, DecideRestart, DecideStop,
      DecideNothing, Escalate, DecideFails
<1>3. UNCHANGED <<outcome, context, closed>>
  BY DEF Decide, DecideResume, DecideRestart, DecideStop, DecideNothing,
         Escalate, DecideFails
<1>4. ContextInv'
  BY <1>3 DEF ContextInv
<1>5. CASE DecideResume
  <2>1. Owned' = Owned \ {deciding}
    BY <1>1, <1>5, InformEndsFacts DEF DecideResume, Owned
  <2>2. PlacesInv'
    BY <1>1, <1>5, InformEndsFacts DEF DecideResume, PlacesInv
  <2>3. OwnerInv'
    BY <1>1, <1>3, <1>5, <2>1, InformEndsFacts DEF DecideResume, OwnerInv
  <2> QED  BY <1>2, <1>4, <2>2, <2>3
<1>6. CASE DecideRestart \/ DecideStop
  <2>1. Owned' = Owned /\ UNCHANGED <<suspended, lost>>
    BY <1>1, <1>6, InformEndsFacts DEF DecideRestart, DecideStop, Owned
  <2>2. PlacesInv'
    BY <1>1, <1>6, InformEndsFacts DEF DecideRestart, DecideStop, PlacesInv
  <2>3. OwnerInv'
    BY <1>3, <2>1 DEF OwnerInv
  <2> QED  BY <1>2, <1>4, <2>2, <2>3
<1>7. CASE DecideNothing \/ Escalate \/ DecideFails
  <2>1. /\ Owned' = Owned /\ UNCHANGED <<suspended, restarting, stopping>>
        /\ lost' = lost \cup {deciding}
    BY <1>1, <1>7, InformEndsFacts DEF DecideNothing, Escalate, DecideFails, Owned
  <2>2. PlacesInv'
    BY <1>1, <2>1, InformEndsFacts DEF PlacesInv
  <2>3. OwnerInv'
    BY <1>3, <2>1 DEF OwnerInv
  <2> QED  BY <1>2, <1>4, <2>2, <2>3
<1> QED  BY <1>5, <1>6, <1>7 DEF Decide

(* A loop that looks at the queue again, after a failure or a restart.       *)
LEMMA InformLoopKeeps ==
    ASSUME Inv, NEW s, loop # "deciding", InformLoop(s, informs, context),
           supSuspended' \in BOOLEAN, UNCHANGED <<actorVars, supClosed, directiveVars>>
    PROVE  Inv'
<1> USE DEF Inv, actorVars, directiveVars
<1>1. /\ informs \in Seq(Requests) /\ IsInjective(informs)
      /\ context \in [Actors -> Requests \cup {NoRequest}]
      /\ ToSet(informs) \subseteq Requests
  BY QueueElements DEF TypeOK, PlacesInv
<1>2. TypeOK'
  BY <1>1, InformLoopMoves DEF TypeOK
<1>3. /\ \A r : r \in ToSet(informs') \/ (loop' = "deciding" /\ deciding' = r)
                   <=> r \in ToSet(informs)
      /\ IsInjective(informs')
      /\ loop' = "deciding" => /\ deciding' \in ToSet(informs) \ ToSet(informs')
                               /\ ~supClosed
                               /\ seen' = context[To[deciding']]
  BY <1>1, InformLoopMoves
<1>4. UNCHANGED <<Pending, Owned>>
  BY <1>3 DEF Pending, Owned, InformPending
<1>5. supClosed => informs' = informs
  BY DEF InformLoop
<1>6. PlacesInv'
  BY <1>1, <1>3, <1>4, <1>5 DEF PlacesInv
<1>7. ContextInv' /\ OwnerInv'
  BY <1>4 DEF ContextInv, OwnerInv
<1>8. NoForeignContext'
  <2> SUFFICES ASSUME loop' = "deciding"  PROVE seen' = NoRequest
    BY DEF NoForeignContext
  <2>1. deciding' \in Owned
    BY <1>1, <1>3 DEF Owned, Pending, InformPending
  <2> QED  BY <1>3, <2>1, IdleWithoutContext
<1> QED  BY <1>2, <1>6, <1>7, <1>8

LEMMA RestartEndsKeeps ==
    ASSUME Inv, NEW r \in Requests, RestartEnds(r)
    PROVE  Inv'
<1> USE DEF Inv, RestartEnds, supervisorVars
<1>1. r \notin Pending \cup stopping \cup lost /\ r \in Owned
  BY DEF PlacesInv, Owned
<1>2. Pending' = Pending /\ Owned' = Owned \ {r}
  BY <1>1 DEF Pending, InformPending, Owned
<1>3. TypeOK' /\ PlacesInv' /\ ContextInv'
  BY <1>2 DEF TypeOK, PlacesInv, ContextInv
<1>4. OwnerInv'
  BY <1>1, <1>2 DEF OwnerInv
<1> QED  BY <1>3, <1>4 DEF NoForeignContext

LEMMA StopClosesKeeps ==
    ASSUME Inv, NEW r \in Requests, StopCloses(r)
    PROVE  Inv'
<1> USE DEF Inv, StopCloses, supervisorVars
<1>1. r \notin Pending \cup restarting \cup lost /\ r \in Owned
  BY DEF PlacesInv, Owned
<1>2. Pending' = Pending /\ Owned' = Owned \ {r}
  BY <1>1 DEF Pending, InformPending, Owned
<1>3. TypeOK' /\ PlacesInv' /\ ContextInv'
  BY <1>2 DEF TypeOK, PlacesInv, ContextInv
<1>4. OwnerInv'
  BY <1>1, <1>2 DEF OwnerInv
<1> QED  BY <1>3, <1>4 DEF NoForeignContext

LEMMA SupervisorStopsKeeps ==
    ASSUME Inv, SupervisorStops
    PROVE  Inv'
<1> USE DEF Inv, SupervisorStops, actorVars
<1>1. ToSet(informs) \subseteq Requests /\ ToSet(informs) \subseteq Pending
  BY QueueElements DEF TypeOK, Pending, InformPending
<1>2. UNCHANGED <<Pending, Owned>>
  BY <1>1 DEF Pending, InformPending, Owned
<1>3. TypeOK' /\ PlacesInv' /\ ContextInv' /\ OwnerInv'
  BY <1>1, <1>2 DEF TypeOK, PlacesInv, ContextInv, OwnerInv
<1> QED  BY <1>3 DEF NoForeignContext

-----------------------------------------------------------------------------
(* The theorems *)

LEMMA InvStep == Inv /\ [Next]_vars => Inv'
<1> SUFFICES ASSUME Inv, [Next]_vars  PROVE Inv'
  OBVIOUS
<1>1. ASSUME NEW r \in Requests, Begin(r) \/ Handler(r)  PROVE Inv'
  BY <1>1, BeginKeeps, HandlerSucceedsKeeps, HandlerFailsKeeps DEF Handler
<1>2. ASSUME NEW r \in Requests, RestartEnds(r) \/ StopCloses(r)  PROVE Inv'
  BY <1>2, RestartEndsKeeps, StopClosesKeeps
<1>3. CASE Decide
  BY <1>3, DecideKeeps
<1>4. CASE SupervisorContinues
  BY <1>4, InformLoopKeeps DEF SupervisorContinues, Inv, TypeOK
<1>5. CASE RootRestarts
  <2>1. CASE loop = "idle"
    BY <1>5, <2>1, InformLoopKeeps DEF RootRestarts
  <2>2. CASE loop # "idle"
    <3>1. supSuspended' = FALSE
          /\ UNCHANGED <<actorVars, directiveVars, informs, loop, deciding, seen,
                         supClosed>>
      BY <1>5, <2>2 DEF RootRestarts
    <3>2. UNCHANGED <<Pending, Owned>>
      BY <3>1 DEF Pending, Owned, InformPending, directiveVars
    <3> QED  BY <3>1, <3>2 DEF Inv, TypeOK, PlacesInv, ContextInv, OwnerInv,
                               NoForeignContext, actorVars, directiveVars
  <2> QED  BY <2>1, <2>2
<1>6. CASE SupervisorStops
  BY <1>6, SupervisorStopsKeeps
<1>7. CASE UNCHANGED vars
  <2>1. UNCHANGED <<Pending, Owned>>
    BY <1>7 DEF Pending, Owned, InformPending, vars, supervisorVars, directiveVars
  <2> QED  BY <1>7, <2>1 DEF Inv, TypeOK, PlacesInv, ContextInv, OwnerInv,
             NoForeignContext, vars, actorVars, supervisorVars, directiveVars
<1> QED  BY <1>1, <1>2, <1>3, <1>4, <1>5, <1>6, <1>7 DEF Next

LEMMA Invariant == Spec => []Inv
  BY InvInit, InvStep, PTL DEF Spec

(* Every variable keeps its type. *)
THEOREM TypeCorrect == Spec => []TypeOK
<1>1. Inv => TypeOK
  BY DEF Inv
<1> QED  BY <1>1, Invariant, PTL

(* One owner: deliver() suspends the mailbox and informs the supervisor in   *)
(* one piece, and each directive resumes or closes it once: a suspended      *)
(* actor has exactly one failure in supervision or lost, any other has none. *)
THEOREM OneOwnerHolds == Spec => []OneOwner
<1>1. Inv => OneOwner
  <2> SUFFICES ASSUME Inv, NEW a \in Actors \ closed
               PROVE  Cardinality({r \in Requests : To[r] = a
                                       /\ (Owed(r) \/ r \in lost)})
                        = IF a \in suspended THEN 1 ELSE 0
    BY DEF OneOwner
  <2> DEFINE S == {r \in Requests : To[r] = a /\ (Owed(r) \/ r \in lost)}
  <2>1. Owned \subseteq Requests
    BY DEF Inv, TypeOK, Owned, Pending
  <2>2. S = {r \in Owned : To[r] = a}
    BY <2>1 DEF Owed, Owned, Pending
  <2>3. CASE a \in suspended
    <3>1. PICK r \in Owned : To[r] = a
      BY <2>3 DEF Inv, OwnerInv
    <3>2. S = {r}
      BY <2>2, <3>1 DEF Inv, OwnerInv
    <3> QED  BY <2>3, <3>2, FS_Singleton
  <2>4. CASE a \notin suspended
    <3>1. S = {}
      BY <2>2, <2>4 DEF Inv, OwnerInv
    <3> QED  BY <2>4, <3>1, FS_EmptySet
  <2> QED  BY <2>3, <2>4
<1> QED  BY <1>1, Invariant, PTL

(* The supervisor reads the context of the failed message or none, although  *)
(* the failed actor resets it after its call of inform().                    *)
THEOREM NoForeignContextHolds == Spec => []NoForeignContext
<1>1. Inv => NoForeignContext
  BY DEF Inv
<1> QED  BY <1>1, Invariant, PTL

(* The mailbox stays suspended, and no handler runs, until a restart ends.   *)
THEOREM NoHandlerDuringRestartHolds == Spec => []NoHandlerDuringRestart
<1>1. Inv => NoHandlerDuringRestart
  <2> SUFFICES ASSUME Inv, NEW r \in restarting
               PROVE  To[r] \in suspended /\ ~Busy(To[r])
    BY DEF NoHandlerDuringRestart
  <2>1. To[r] \in suspended
    BY DEF Inv, OwnerInv, Owned
  <2> QED  BY <2>1 DEF Inv, OwnerInv, Busy
<1> QED  BY <1>1, Invariant, PTL
=============================================================================
