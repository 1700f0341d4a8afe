-------------------------- MODULE ActorTreeProofs --------------------------
(***************************************************************************)
(* What holds of ActorTree for every tree of actors, every directory and   *)
(* every choice of supervisors, checked by TLAPS.                          *)
(***************************************************************************)
EXTENDS ActorTree, QueueLemmas

USE DirectoryAssumption

Roots == {PrivateRoot, PublicRoot}
Live == created \ finished
Queued == {Request} \cup Informs \cup Stops

(* A mailbox whose loop awaits the end of the message it handles, if any. *)
WellFormed(box) ==
    box \in Mailboxes /\ (box.handling # NoMessage <=> box.loop = "awaiting")

(* The messages whose senders have no answer yet. *)
Holds(box) == ToSet(box.queue) \cup ({box.handling} \ {NoMessage})

(* Actors have neither messages nor stop sequences before they are created,  *)
(* and fail only after that.                                                 *)
MailInv ==
    /\ \A a \in Actors :
          /\ a \notin created => Holds(mailbox[a]) = {}
          /\ \A b \in Actors : Inform(b) \in Holds(mailbox[a]) => b \in created
    /\ \A s \in Sequences : phase[s] # "none" => s[1] \in created

(* A stop sequence that is at its children has a first one left that holds   *)
(* its stop() message or is closed; the children it has no more to stop are  *)
(* closed, or came late.                                                     *)
AtChildren(s) ==
    /\ left[s] # <<>> /\ ToSet(left[s]) \subseteq created
    /\ Head(left[s]) \in closed \/ s \in Holds(mailbox[Head(left[s])])
    /\ ToSet(children[s[1]]) \subseteq closed \cup late \cup ToSet(left[s])

(* Parents, buckets and index hold the live actors, each of them once. *)
TreeInv ==
    /\ IsFiniteSet(created) /\ finished \subseteq created \cap closed
    /\ Roots \subseteq created
    /\ \A a \in created \ Roots : Creator[a] \in created \cup {NoActor}
    /\ \A p \in Actors : /\ IsInjective(children[p])
                         /\ ToSet(children[p]) = {a \in Live : parent[a] = p}
    /\ \A i \in Buckets :
          /\ IsInjective(directory.buckets[i])
          /\ ToSet(directory.buckets[i]) = {a \in Live : BucketFor(HashCode[a]) = i}

(* The index has live actors of its types; it lacks the type of an actor     *)
(* only after an actor of that type has stopped.  Supervisors come from it.  *)
IndexInv ==
    /\ \A t \in Types :
          LET a == directory.typeIndex[t]
          IN  /\ a # NoActor => a \in Live /\ Type[a] = t
              /\ a = NoActor /\ (\E b \in created : Type[b] = t)
                     => \E b \in finished : Type[b] = t
    /\ \A a \in Actors : supervisor[a] # NoActor =>
          supervisor[a] \in created /\ Type[supervisor[a]] = SupervisorName[a]

InOrder(q) == \A i, j \in 1..Len(q) : i < j => Group(q[i]) <= Group(q[j])

CloseInv ==
    /\ closing = "open" => toStop = <<>> /\ snapshot = {}
    /\ ToSet(toStop) \subseteq created
    /\ InOrder(toStop)

Inv == /\ TypeOK
       /\ MailInv
       /\ \A s \in Sequences : phase[s] = "children" => AtChildren(s)
       /\ TreeInv
       /\ IndexInv
       /\ CloseInv
       /\ ChildrenStopFirst
       /\ CloseInOrder

-----------------------------------------------------------------------------
(* Mailboxes *)

LEMMA MessagesDiffer ==
    /\ NoMessage \notin Queued /\ Start # NoMessage
    /\ \A m \in Stops : m \notin Informs /\ m # Start /\ m # Request
    /\ \A a, b \in Actors : Inform(a) = Inform(b) => a = b
    /\ \A a \in Actors : Inform(a) # Start /\ Inform(a) # Request
    /\ {Start, Request, NoMessage} \cup Informs \cup Stops
          = {Start, NoMessage} \cup Queued
<1>1. /\ NoMessage \notin Sequences /\ Start \notin Sequences
      /\ Request \notin Sequences
      /\ \A a \in Actors : Inform(a) \notin Sequences
  BY DEF NoMessage, Sequences, Directives, Start, Request, Inform
<1>2. /\ NoMessage \notin {ClientStop, TimedStop, Close, Request, Start}
      /\ \A a \in Actors :
            Inform(a) \notin {ClientStop, TimedStop, Close, Request, Start, NoMessage}
      /\ Request \notin {ClientStop, TimedStop, Close}
      /\ Start \notin {ClientStop, TimedStop, Close}
  BY DEF NoMessage, ClientStop, TimedStop, Close, Request, Start, Inform
<1>3. \A a, b \in Actors : Inform(a) = Inform(b) => a = b
  BY DEF Inform
<1> QED  BY <1>1, <1>2, <1>3 DEF Queued, Stops, Informs

LEMMA BoxType ==
    ASSUME NEW box
    PROVE  WellFormed(box) <=>
              /\ box \in [queue : Seq(Queued),
                          handling : {Start, NoMessage} \cup Queued,
                          loop : {"idle", "awaiting", "returning"}]
              /\ box.handling # NoMessage <=> box.loop = "awaiting"
  BY MessagesDiffer DEF WellFormed, Mailboxes, Queued

LEMMA DispatchHolds ==
    ASSUME NEW box, WellFormed(box), box.loop # "awaiting", NEW r \in BOOLEAN
    PROVE  /\ WellFormed(Dispatch(box, r))
           /\ Holds(Dispatch(box, r)) = Holds(box)
<1> DEFINE next == Dispatch(box, r)
<1>1. box.queue \in Seq(Queued) /\ box.handling = NoMessage
  BY BoxType
<1>2. CASE r /\ box.queue # <<>>
  <2> DEFINE m == Head(box.queue)
             q == Tail(box.queue)
  <2>1. next = [queue |-> q, handling |-> m, loop |-> "awaiting"]
    BY <1>2 DEF Dispatch
  <2>2. /\ m \in Queued /\ q \in Seq(Queued) /\ m # NoMessage
        /\ ToSet(box.queue) = ToSet(q) \cup {m}
    BY <1>1, <1>2, QueueBegins, MessagesDiffer
  <2> HIDE DEF m, q, next
  <2>3. next.queue = q /\ next.handling = m
    BY <2>1
  <2>4. WellFormed(next)
    BY <2>1, <2>2, BoxType
  <2>5. Holds(next) = Holds(box)
    BY <1>1, <2>2, <2>3 DEF Holds
  <2> QED  BY <2>4, <2>5 DEF next
<1>3. CASE ~(r /\ box.queue # <<>>)
  <2>1. next = [box EXCEPT !.handling = NoMessage, !.loop = "idle"]
    BY <1>3 DEF Dispatch
  <2>2. next.queue = box.queue /\ next.handling = NoMessage
    BY <2>1, BoxType
  <2>3. WellFormed(next)
    BY <2>1, BoxType
  <2> HIDE DEF next
  <2>4. Holds(next) = Holds(box)
    BY <1>1, <2>2, <2>3 DEF Holds
  <2> QED  BY <2>3, <2>4 DEF next
<1> QED  BY <1>2, <1>3

LEMMA SendHolds ==
    ASSUME NEW a \in Actors, NEW box, WellFormed(box), NEW messages \in Seq(Queued)
    PROVE  /\ WellFormed(Send(a, box, messages))
           /\ Holds(Send(a, box, messages)) =
                 IF a \in closed THEN Holds(box) ELSE Holds(box) \cup ToSet(messages)
           /\ box.loop # "idle" => Send(a, box, messages).handling = box.handling
<1>1. CASE a \in closed
  BY <1>1 DEF Send
<1>2. CASE a \notin closed
  <2> DEFINE q == box.queue \o messages
             longer == [box EXCEPT !.queue = @ \o messages]
  <2>1. box.queue \in Seq(Queued)
    BY BoxType
  <2>2. q \in Seq(Queued) /\ ToSet(q) = ToSet(box.queue) \cup ToSet(messages)
    BY <2>1, ConcatElements
  <2>3. longer = [box EXCEPT !.queue = q]
    OBVIOUS
  <2> HIDE DEF q
  <2>4. /\ WellFormed(longer)
        /\ longer.queue = q /\ longer.handling = box.handling
        /\ longer.loop = box.loop
    BY <2>2, <2>3, BoxType
  <2>5. Send(a, box, messages) = IF a \notin suspended /\ box.loop = "idle"
                                 THEN Dispatch(longer, TRUE) ELSE longer
    BY <1>2 DEF Send
  <2> HIDE DEF longer
  <2>6. Holds(longer) = Holds(box) \cup ToSet(messages)
    BY <2>2, <2>4 DEF Holds
  <2> QED  BY <1>2, <2>4, <2>5, <2>6, DispatchHolds
<1> QED  BY <1>1, <1>2

LEMMA AnsweredHolds ==
    ASSUME NEW box, WellFormed(box)
    PROVE  /\ WellFormed(Answered(box))
           /\ Holds(Answered(box)) \subseteq Holds(box)
           /\ \A m \in Holds(box) : m \in Holds(Answered(box)) \/ m = box.handling
<1> DEFINE next == Answered(box)
<1>1. WellFormed(next) /\ next.queue = box.queue /\ next.handling = NoMessage
  BY BoxType DEF Answered
<1> HIDE DEF next
<1> QED  BY <1>1 DEF Holds, next

(* What each step does to the mailbox of a: a stop() message stays in it     *)
(* unless the actor is closed, and MailInv is kept.                          *)
BoxStep(a) ==
    /\ WellFormed(mailbox'[a])
    /\ \A m \in Stops \cap Holds(mailbox[a]) :
          m \in Holds(mailbox'[a]) \/ a \in closed'
    /\ a \notin created' => Holds(mailbox'[a]) = {}
    /\ \A b \in Actors : Inform(b) \in Holds(mailbox'[a]) => b \in created'

MailStep == mailbox' \in [Actors -> Mailboxes] /\ \A a \in Actors : BoxStep(a)

LEMMA BoxesWellFormed ==
    ASSUME Inv, NEW a \in Actors
    PROVE  WellFormed(mailbox[a])
  BY DEF Inv, TypeOK, WellFormed

LEMMA SameBox ==
    ASSUME Inv, created \subseteq created', NEW a \in Actors,
           mailbox'[a] = mailbox[a]
    PROVE  BoxStep(a)
  BY BoxesWellFormed DEF Inv, MailInv, BoxStep

LEMMA AnsweredBox ==
    ASSUME Inv, created \subseteq created', NEW a \in Actors,
           mailbox'[a] = Answered(mailbox[a]),
           mailbox[a].handling \notin Stops \/ a \in closed'
    PROVE  BoxStep(a)
<1>1. /\ WellFormed(mailbox'[a])
      /\ Holds(mailbox'[a]) \subseteq Holds(mailbox[a])
      /\ \A m \in Holds(mailbox[a]) : \/ m \in Holds(mailbox'[a])
                                      \/ m = mailbox[a].handling
  BY BoxesWellFormed, AnsweredHolds
<1> QED  BY <1>1 DEF Inv, MailInv, BoxStep

LEMMA DispatchedBox ==
    ASSUME Inv, created \subseteq created', NEW a \in Actors, NEW r \in BOOLEAN,
           mailbox[a].loop # "awaiting", mailbox'[a] = Dispatch(mailbox[a], r)
    PROVE  BoxStep(a)
<1>1. WellFormed(mailbox'[a]) /\ Holds(mailbox'[a]) = Holds(mailbox[a])
  BY BoxesWellFormed, DispatchHolds
<1> QED  BY <1>1 DEF Inv, MailInv, BoxStep

LEMMA SentBox ==
    ASSUME Inv, created \subseteq created', NEW a \in created, a \in Actors,
           NEW messages \in Seq(Queued),
           \A b \in Actors : Inform(b) \in ToSet(messages) => b \in created',
           mailbox'[a] = Send(a, mailbox[a], messages)
    PROVE  BoxStep(a)
<1>1. /\ WellFormed(mailbox'[a])
      /\ Holds(mailbox'[a]) = IF a \in closed THEN Holds(mailbox[a])
                              ELSE Holds(mailbox[a]) \cup ToSet(messages)
  <2> DEFINE box == mailbox[a]
  <2>1. WellFormed(box) /\ mailbox'[a] = Send(a, box, messages)
    BY BoxesWellFormed
  <2> HIDE DEF box
  <2>2. /\ WellFormed(Send(a, box, messages))
        /\ Holds(Send(a, box, messages)) =
              IF a \in closed THEN Holds(box) ELSE Holds(box) \cup ToSet(messages)
    BY <2>1, SendHolds
  <2> QED  BY <2>1, <2>2 DEF box
<1> QED  BY <1>1 DEF Inv, MailInv, BoxStep

LEMMA OneBox ==
    ASSUME Inv, NEW a \in Actors, NEW box, mailbox' = [mailbox EXCEPT ![a] = box]
    PROVE  /\ mailbox'[a] = box
           /\ \A b \in Actors \ {a} : mailbox'[b] = mailbox[b]
           /\ box \in Mailboxes => mailbox' \in [Actors -> Mailboxes]
  BY DEF Inv, TypeOK

LEMMA OneBoxKeeps ==
    ASSUME Inv, created \subseteq created', NEW a \in Actors, NEW box,
           mailbox' = [mailbox EXCEPT ![a] = box], BoxStep(a)
    PROVE  MailStep
<1>1. mailbox'[a] = box /\ box \in Mailboxes
  BY OneBox DEF BoxStep, WellFormed
<1>2. \A b \in Actors \ {a} : BoxStep(b)
  BY OneBox, SameBox
<1> QED  BY <1>1, <1>2, OneBox DEF MailStep

LEMMA SameBoxes ==
    ASSUME Inv, created \subseteq created', UNCHANGED mailbox
    PROVE  MailStep
  BY SameBox DEF Inv, TypeOK, MailStep

(* A stop sequence enters its hook when its actor holds a stop() message. *)
LEMMA EnterHooksKeeps ==
    ASSUME MailStep, NEW STATE phases, EnterHooks(phases),
           phases \in [Sequences -> {"none", "hook", "children"}]
    PROVE  /\ phase' \in [Sequences -> {"none", "hook", "children"}]
           /\ \A s \in Sequences : \/ phase'[s] = phases[s]
                                   \/ phase'[s] = "hook" /\ s[1] \in created'
<1>1. \A s \in Sequences :
         s[1] \in Actors /\ (mailbox'[s[1]].handling \in Stops => s[1] \in created')
  BY MessagesDiffer DEF MailStep, BoxStep, Holds, Sequences, Queued
<1> QED  BY <1>1 DEF EnterHooks

(* Answers are awaited of the actors that hold the message. *)
LEMMA AwaitedIsHeld ==
    \A box : \A m \in Stops :
        (box.handling = m \/ m \in ToSet(box.queue)) <=> m \in Holds(box)
  BY MessagesDiffer DEF Holds, Queued

-----------------------------------------------------------------------------
(* The tree *)

LEMMA AtChildrenKept ==
    ASSUME Inv, MailStep, NEW s \in Sequences, phase[s] = "children",
           left'[s] = left[s], created \subseteq created',
           closed \subseteq closed', late \subseteq late',
           ToSet(children'[s[1]]) \subseteq ToSet(children[s[1]]) \cup late'
    PROVE  AtChildren(s)'
<1>1. AtChildren(s) /\ left[s] \in Seq(Actors) /\ s \in Stops
  BY DEF Inv, TypeOK, Stops
<1>2. Head(left[s]) \in Actors
  BY <1>1, QueueBegins DEF AtChildren
<1>3. Head(left[s]) \in closed' \/ s \in Holds(mailbox'[Head(left[s])])
  BY <1>1, <1>2 DEF AtChildren, MailStep, BoxStep
<1> QED  BY <1>1, <1>3 DEF AtChildren

(* The order in which the stage closes does not depend on who sends what. *)
LEMMA CloseInOrderKept ==
    ASSUME Inv, MailStep, UNCHANGED <<toStop, snapshot>>, closed \subseteq closed'
    PROVE  CloseInOrder'
<1>1. Close \in Stops /\ snapshot \subseteq Actors
  BY DEF Stops, Inv, TypeOK
<1>2. ASSUME NEW a \in Actors, AwaitsAnswer(a, Close), a \notin closed'
      PROVE  AwaitsAnswer(a, Close)'
  BY <1>1, <1>2, AwaitedIsHeld DEF AwaitsAnswer, MailStep, BoxStep
<1> QED  BY <1>1, <1>2 DEF Inv, CloseInOrder

(* A step that leaves tree, directory and stage alone. *)
Quiet == /\ MailStep
         /\ UNCHANGED <<treeVars, left, finished, stageVars>>
         /\ closed \subseteq closed' /\ closed' \subseteq Actors
         /\ suspended' \subseteq Actors /\ sent' \subseteq ClientCalls
         /\ unheard' \subseteq Actors
         /\ supervisor' \in [Actors -> Actors \cup {NoActor}]
         /\ \A a \in Actors : supervisor'[a] # NoActor =>
               /\ supervisor'[a] \in created
               /\ Type[supervisor'[a]] = SupervisorName[a]
         /\ phase' \in [Sequences -> {"none", "hook", "children"}]
         /\ \A s \in Sequences : \/ phase'[s] = phase[s]
                                 \/ phase'[s] = "hook" /\ s[1] \in created

LEMMA QuietKeeps ==
    ASSUME Inv, Quiet
    PROVE  Inv'
<1>1. /\ UNCHANGED <<created, directory, parent, children, late, left, finished,
                     closing, toStop, snapshot>>
      /\ created \subseteq Actors
  BY DEF Quiet, treeVars, stageVars, Inv, TypeOK
<1>2. TypeOK'
  BY <1>1 DEF Inv, TypeOK, Quiet, MailStep, BoxStep, WellFormed
<1>3. MailInv'
  BY <1>1 DEF Inv, MailInv, Quiet, MailStep, BoxStep
<1>4. \A s \in Sequences : phase'[s] = "children" => AtChildren(s)'
  BY <1>1, AtChildrenKept DEF Quiet
<1>5. TreeInv'
  BY <1>1 DEF Inv, TreeInv, Live, Quiet
<1>6. IndexInv'
  BY <1>1 DEF Inv, IndexInv, Live, Quiet
<1>7. CloseInv'
  BY <1>1 DEF Inv, CloseInv, InOrder
<1>8. ChildrenStopFirst'
  BY <1>1 DEF Inv, ChildrenStopFirst, Quiet
<1>9. CloseInOrder'
  BY <1>1, CloseInOrderKept DEF Quiet
<1> QED  BY <1>2, <1>3, <1>4, <1>5, <1>6, <1>7, <1>8, <1>9 DEF Inv

-----------------------------------------------------------------------------
(* Messages and failures *)

LEMMA ClientSendsKeeps ==
    ASSUME Inv, NEW a \in Actors, NEW m \in {Request, ClientStop, TimedStop},
           ClientSends(a, m)
    PROVE  Inv'
<1>1. /\ mailbox' = [mailbox EXCEPT ![a] = Send(a, @, <<m>>)]
      /\ a \in created /\ <<a, m>> \in ClientCalls
      /\ sent' = sent \cup {<<a, m>>} /\ EnterHooks(phase)
      /\ UNCHANGED <<treeVars, closed, suspended, supervisor, unheard, left,
                     finished, stageVars>>
  BY DEF ClientSends, supervisionVars
<1>2. created' = created
  BY <1>1 DEF treeVars
<1>3. m \in Queued /\ m \notin Informs /\ <<m>> \in Seq(Queued) /\ ToSet(<<m>>) = {m}
  <2>1. m \in Queued /\ m \notin Informs
    BY MessagesDiffer DEF Queued, Stops, Informs
  <2> QED  BY <2>1, SingleQueue
<1>4. mailbox'[a] = Send(a, mailbox[a], <<m>>)
  BY <1>1, OneBox
<1>5. BoxStep(a)
  BY <1>1, <1>2, <1>3, <1>4, SentBox DEF Informs
<1>6. MailStep
  BY <1>1, <1>2, <1>5, OneBoxKeeps
<1>7. phase \in [Sequences -> {"none", "hook", "children"}]
  BY DEF Inv, TypeOK
<1>8. Quiet
  BY <1>1, <1>2, <1>6, <1>7, EnterHooksKeeps DEF Quiet, Inv, TypeOK, IndexInv
<1> QED  BY <1>8, QuietKeeps

LEMMA LoopReturnsKeeps ==
    ASSUME Inv, NEW a \in Actors, LoopReturns(a)
    PROVE  Inv'
<1> DEFINE r == a \notin closed \cup suspended
<1>1. /\ mailbox[a].loop = "returning"
      /\ mailbox' = [mailbox EXCEPT ![a] = Dispatch(@, r)]
      /\ EnterHooks(phase)
      /\ UNCHANGED <<treeVars, closed, suspended, sent, supervisor, unheard, left,
                     finished, stageVars>>
  BY DEF LoopReturns, supervisionVars
<1>2. created' = created /\ r \in BOOLEAN
  BY <1>1 DEF treeVars
<1> HIDE DEF r
<1>3. mailbox'[a] = Dispatch(mailbox[a], r)
  BY <1>1, OneBox
<1>4. BoxStep(a)
  BY <1>1, <1>2, <1>3, DispatchedBox
<1>5. MailStep
  BY <1>1, <1>2, <1>4, OneBoxKeeps
<1>6. phase \in [Sequences -> {"none", "hook", "children"}]
  BY DEF Inv, TypeOK
<1>7. Quiet
  BY <1>1, <1>2, <1>5, <1>6, EnterHooksKeeps DEF Quiet, Inv, TypeOK, IndexInv
<1> QED  BY <1>7, QuietKeeps

LEMMA HandlerEndsKeeps ==
    ASSUME Inv, NEW a \in Actors, HandlerEnds(a)
    PROVE  Inv'
<1>1. /\ mailbox[a].handling \in {Start, Request}
      /\ mailbox' = [mailbox EXCEPT ![a] = Answered(@)]
      /\ UNCHANGED <<treeVars, closed, suspended, sent, supervisor, unheard, phase,
                     left, finished, stageVars>>
  BY DEF HandlerEnds, supervisionVars, stopVars
<1>2. created' = created
  BY <1>1 DEF treeVars
<1>3. mailbox'[a] = Answered(mailbox[a]) /\ mailbox[a].handling \notin Stops
  BY <1>1, OneBox, MessagesDiffer
<1>4. BoxStep(a)
  BY <1>2, <1>3, AnsweredBox
<1>5. MailStep
  BY <1>1, <1>2, <1>4, OneBoxKeeps
<1>6. Quiet
  BY <1>1, <1>2, <1>5 DEF Quiet, Inv, TypeOK, IndexInv
<1> QED  BY <1>6, QuietKeeps

(* The supervisor that is found has the type that was looked for. *)
LEMMA SupervisorFound ==
    ASSUME Inv, NEW a \in Actors
    PROVE  LET s == SupervisorOf(a)
           IN  /\ s \in Actors \cup {NoActor}
               /\ s # NoActor => s \in created /\ Type[s] = SupervisorName[a]
<1>1. SupervisorName[a] \in Types /\ NoActor \notin Actors
  BY TreeAssumption
<1>2. CASE supervisor[a] # NoActor
  BY <1>2 DEF SupervisorOf, Inv, TypeOK, IndexInv
<1>3. CASE supervisor[a] = NoActor
  <2>1. SupervisorOf(a) = directory.typeIndex[SupervisorName[a]]
    BY <1>3 DEF SupervisorOf, FindByType
  <2> QED  BY <1>1, <2>1 DEF Inv, TypeOK, Directories, IndexInv, Live
<1> QED  BY <1>2, <1>3

LEMMA FailsKeeps ==
    ASSUME Inv, NEW a \in Actors, NEW routes \in {1, 2}, Fails(a, routes),
           a \in created, closed \subseteq closed', closed' \subseteq Actors,
           mailbox[a].handling # NoMessage,
           mailbox[a].handling \notin Stops \/ a \in closed'
    PROVE  Inv'
<1> DEFINE s == SupervisorOf(a)
           informs == [i \in 1 .. routes |-> Inform(a)]
           told == IF s = NoActor THEN mailbox
                   ELSE [mailbox EXCEPT ![s] = Send(s, @, informs)]
<1>1. /\ suspended' = suspended \cup {a}
      /\ supervisor' = [supervisor EXCEPT ![a] = s]
      /\ unheard' \in {unheard, unheard \cup {a}}
      /\ mailbox' = [told EXCEPT ![a] = Answered(@)]
      /\ UNCHANGED <<treeVars, sent, phase, left, finished, stageVars>>
  BY DEF Fails, stopVars
<1>2. created' = created
  BY <1>1 DEF treeVars
<1>3. /\ s \in Actors \cup {NoActor}
      /\ s # NoActor => s \in created /\ Type[s] = SupervisorName[a]
  BY SupervisorFound
<1>4. informs \in Seq(Queued) /\ ToSet(informs) = {Inform(a)}
  BY DEF Queued, Informs, ToSet
<1> HIDE DEF s, informs
<1>5. ASSUME NEW b \in Actors
      PROVE  /\ WellFormed(told[b])
             /\ Holds(mailbox[b]) \subseteq Holds(told[b])
             /\ Holds(told[b]) \subseteq Holds(mailbox[b]) \cup {Inform(a)}
             /\ b \notin created => told[b] = mailbox[b]
             /\ b = a => told[b].handling = mailbox[b].handling
  <2>1. WellFormed(mailbox[b]) /\ mailbox \in [Actors -> Mailboxes]
    BY BoxesWellFormed DEF Inv, TypeOK
  <2>2. CASE b # s
    <3>1. told[b] = mailbox[b]
      BY <2>1, <2>2
    <3> HIDE DEF told
    <3> QED  BY <2>1, <3>1
  <2>3. CASE b = s
    <3> DEFINE box == mailbox[b]
    <3>1. told[b] = Send(b, box, informs) /\ b \in created
      BY <1>3, <2>1, <2>3
    <3> HIDE DEF told, box
    <3>2. WellFormed(box)
      BY <2>1 DEF box
    <3>3. /\ WellFormed(Send(b, box, informs))
          /\ Holds(Send(b, box, informs)) = IF b \in closed THEN Holds(box)
                                            ELSE Holds(box) \cup ToSet(informs)
          /\ box.loop # "idle" => Send(b, box, informs).handling = box.handling
      BY <1>4, <3>2, SendHolds
    <3>4. b = a => box.loop = "awaiting"
      BY <3>2 DEF box, WellFormed
    <3> QED  BY <1>4, <3>1, <3>3, <3>4 DEF box
  <2> QED  BY <2>2, <2>3
<1>6. /\ mailbox'[a] = Answered(told[a])
      /\ \A b \in Actors \ {a} : mailbox'[b] = told[b]
      /\ mailbox' = [b \in Actors |-> mailbox'[b]]
  <2>1. told \in [Actors -> Mailboxes]
    <3>1. \A b \in Actors : told[b] \in Mailboxes
      BY <1>5 DEF WellFormed
    <3>2. told = [b \in Actors |-> told[b]]
      BY DEF Inv, TypeOK
    <3> HIDE DEF told
    <3> QED  BY <3>1, <3>2
  <2> HIDE DEF told
  <2> QED  BY <1>1, <2>1
<1> HIDE DEF told
<1>7. ASSUME NEW b \in Actors  PROVE BoxStep(b)
  <2>1. Holds(mailbox[b]) = {} \/ b \in created
    BY DEF Inv, MailInv
  <2>2. \A c \in Actors : Inform(c) \in Holds(told[b]) => c \in created'
    BY <1>2, <1>5, MessagesDiffer DEF Inv, MailInv
  <2>3. CASE b = a
    <3> DEFINE box == told[a]
    <3>1. WellFormed(box)
      BY <1>5
    <3> HIDE DEF box
    <3>2. /\ WellFormed(Answered(box)) /\ Holds(Answered(box)) \subseteq Holds(box)
          /\ \A m \in Holds(box) : m \in Holds(Answered(box)) \/ m = box.handling
      BY <3>1, AnsweredHolds
    <3> QED  BY <1>2, <1>5, <1>6, <2>2, <2>3, <3>2 DEF box, BoxStep
  <2>4. CASE b # a
    BY <1>2, <1>5, <1>6, <2>1, <2>2, <2>4 DEF BoxStep
  <2> QED  BY <2>3, <2>4
<1>8. MailStep
  <2>1. \A b \in Actors : mailbox'[b] \in Mailboxes
    BY <1>7 DEF BoxStep, WellFormed
  <2>2. mailbox' \in [Actors -> Mailboxes]
    BY <1>6, <2>1
  <2> QED  BY <1>7, <2>2 DEF MailStep
<1>9. Quiet
  BY <1>1, <1>2, <1>3, <1>8 DEF Quiet, Inv, TypeOK, IndexInv
<1> QED  BY <1>9, QuietKeeps

LEMMA HandlerFailsKeeps ==
    ASSUME Inv, NEW a \in Actors, HandlerFails(a)
    PROVE  Inv'
<1>1. /\ mailbox[a].handling \in {Start, Request} /\ closed' = closed
      /\ \E routes \in {1, 2} : Fails(a, routes)
  BY DEF HandlerFails
<1>2. mailbox[a].handling # NoMessage /\ mailbox[a].handling \notin Stops
  BY <1>1, MessagesDiffer DEF Queued
<1>3. a \in created /\ closed \subseteq Actors
  BY <1>2 DEF Inv, TypeOK, MailInv, Holds
<1> QED  BY <1>1, <1>2, <1>3, FailsKeeps

LEMMA TimerFiresKeeps ==
    ASSUME Inv, NEW a \in Actors, TimerFires(a)
    PROVE  Inv'
<1>1. /\ mailbox[a].handling = TimedStop /\ closed' = closed \cup {a}
      /\ Fails(a, 1)
  BY DEF TimerFires
<1>2. mailbox[a].handling # NoMessage
  BY <1>1, MessagesDiffer DEF Queued, Stops
<1>3. a \in created /\ closed \subseteq Actors
  BY <1>2 DEF Inv, TypeOK, MailInv, Holds
<1> QED  BY <1>1, <1>2, <1>3, FailsKeeps

(* Who is decided about has failed, and so was created. *)
LEMMA DecideFacts ==
    ASSUME Inv, NEW s \in Actors, NEW a \in Actors, Decide(s, a)
    PROVE  /\ a \in created /\ mailbox[s].handling \notin Stops
           /\ UNCHANGED <<treeVars, closed, sent, supervisor, unheard, left,
                          finished, stageVars>>
           /\ created' = created
<1>1. /\ mailbox[s].handling = Inform(a) /\ Inform(a) \in Informs
      /\ UNCHANGED <<treeVars, closed, sent, supervisor, unheard, left,
                     finished, stageVars>>
  BY DEF Decide, supervisionVars, Informs
<1>2. Inform(a) \notin Stops /\ Inform(a) # NoMessage
  BY <1>1, MessagesDiffer DEF Queued
<1>3. a \in created
  BY <1>1, <1>2 DEF Inv, MailInv, Holds
<1> QED  BY <1>1, <1>2, <1>3 DEF treeVars

LEMMA AnswersKeeps ==
    ASSUME Inv, NEW s \in Actors, created' = created,
           mailbox' = [mailbox EXCEPT ![s] = Answered(@)],
           mailbox[s].handling \notin Stops
    PROVE  MailStep
<1>1. mailbox'[s] = Answered(mailbox[s])
  BY OneBox
<1>2. BoxStep(s)
  BY <1>1, AnsweredBox
<1> QED  BY <1>2, OneBoxKeeps

LEMMA DecideNothingKeeps ==
    ASSUME Inv, NEW s \in Actors, NEW a \in Actors, DecideNothing(s, a)
    PROVE  Inv'
<1>1. /\ Decide(s, a) /\ UNCHANGED <<suspended, phase>>
      /\ mailbox' = [mailbox EXCEPT ![s] = Answered(@)]
  BY DEF DecideNothing
<1>2. MailStep
  BY <1>1, DecideFacts, AnswersKeeps
<1>3. Quiet
  BY <1>1, <1>2, DecideFacts DEF Quiet, Inv, TypeOK, IndexInv
<1> QED  BY <1>3, QuietKeeps

LEMMA DecideStopKeeps ==
    ASSUME Inv, NEW s \in Actors, NEW a \in Actors, DecideStop(s, a)
    PROVE  Inv'
<1>1. /\ Decide(s, a) /\ UNCHANGED suspended
      /\ mailbox' = [mailbox EXCEPT ![s] = Answered(@)]
      /\ \/ UNCHANGED phase
         \/ \E way \in Directives : phase' = [phase EXCEPT ![<<a, way>>] = "hook"]
  BY DEF DecideStop
<1>2. MailStep
  BY <1>1, DecideFacts, AnswersKeeps
<1>3. /\ phase' \in [Sequences -> {"none", "hook", "children"}]
      /\ \A q \in Sequences : \/ phase'[q] = phase[q]
                              \/ phase'[q] = "hook" /\ q[1] \in created
  <2>1. phase \in [Sequences -> {"none", "hook", "children"}] /\ a \in created
    BY <1>1, DecideFacts DEF Inv, TypeOK
  <2>2. CASE UNCHANGED phase
    BY <2>1, <2>2
  <2>3. ASSUME NEW way \in Directives, phase' = [phase EXCEPT ![<<a, way>>] = "hook"]
        PROVE  <1>3!1 /\ <1>3!2
    <3>1. <<a, way>> \in Sequences /\ <<a, way>>[1] = a
      BY DEF Sequences
    <3> QED  BY <2>1, <2>3, <3>1
  <2> QED  BY <1>1, <2>2, <2>3
<1>4. Quiet
  BY <1>1, <1>2, <1>3, DecideFacts DEF Quiet, Inv, TypeOK, IndexInv
<1> QED  BY <1>4, QuietKeeps

LEMMA DecideResumeKeeps ==
    ASSUME Inv, NEW s \in Actors, NEW a \in Actors, DecideResume(s, a)
    PROVE  Inv'
<1> DEFINE r == a \notin closed
           resumed(box) == IF box.loop = "idle" THEN Dispatch(box, r) ELSE box
           answered == [mailbox EXCEPT ![s] = Answered(@)]
<1>1. /\ Decide(s, a) /\ suspended' = suspended \ {a}
      /\ mailbox' = [answered EXCEPT ![a] = resumed(@)]
      /\ EnterHooks(phase)
  BY DEF DecideResume
<1>2. /\ mailbox \in [Actors -> Mailboxes]
      /\ Answered(mailbox[s]).loop = "returning"
      /\ created' = created
  BY <1>1, BoxesWellFormed, DecideFacts DEF Inv, TypeOK, Answered, WellFormed, Mailboxes
<1>3. /\ mailbox' = [b \in Actors |-> mailbox'[b]]
      /\ \A b \in Actors : mailbox'[b] = CASE b = s -> Answered(mailbox[s])
                                           [] b # s /\ b = a -> resumed(mailbox[a])
                                           [] OTHER -> mailbox[b]
  <2>1. \A b \in Actors : mailbox'[b] =
           IF b = a THEN resumed(answered[a]) ELSE answered[b]
    <3>1. answered \in [Actors -> Mailboxes]
      <4>1. WellFormed(Answered(mailbox[s]))
        BY BoxesWellFormed, AnsweredHolds
      <4> QED  BY <1>2, <4>1 DEF WellFormed
    <3> HIDE DEF answered, resumed
    <3> QED  BY <1>1, <3>1
  <2>2. resumed(Answered(mailbox[s])) = Answered(mailbox[s])
    BY <1>2
  <2> HIDE DEF resumed
  <2> QED  BY <1>1, <1>2, <2>1, <2>2
<1>4. ASSUME NEW b \in Actors  PROVE BoxStep(b)
  <2>1. CASE b = s
    BY <1>1, <1>2, <1>3, <2>1, DecideFacts, AnsweredBox
  <2>2. CASE b # s /\ b = a /\ mailbox[a].loop = "idle"
    <3>1. mailbox'[b] = Dispatch(mailbox[b], r)
      BY <1>3, <2>2
    <3>2. r \in BOOLEAN
      OBVIOUS
    <3> HIDE DEF r, resumed
    <3> QED  BY <1>2, <2>2, <3>1, <3>2, DispatchedBox
  <2>3. CASE b # s /\ ~(b = a /\ mailbox[a].loop = "idle")
    <3>1. mailbox'[b] = mailbox[b]
      BY <1>3, <2>3
    <3> QED  BY <1>2, <3>1, SameBox
  <2> QED  BY <2>1, <2>2, <2>3
<1> HIDE DEF resumed
<1>5. MailStep
  <2>1. \A b \in Actors : mailbox'[b] \in Mailboxes
    BY <1>4 DEF BoxStep, WellFormed
  <2>2. mailbox' \in [Actors -> Mailboxes]
    BY <1>3, <2>1
  <2> QED  BY <1>4, <2>2 DEF MailStep
<1>6. phase \in [Sequences -> {"none", "hook", "children"}]
  BY DEF Inv, TypeOK
<1>7. Quiet
  BY <1>1, <1>5, <1>6, DecideFacts, EnterHooksKeeps DEF Quiet, Inv, TypeOK, IndexInv
<1> QED  BY <1>7, QuietKeeps

-----------------------------------------------------------------------------
(* Creation *)

LEMMA HashBucket ==
    ASSUME NEW a \in Actors
    PROVE  BucketFor(HashCode[a]) \in Buckets
  BY TreeAssumption DEF BucketFor, Buckets

LEMMA ParentIsLive ==
    ASSUME Inv, NEW a \in Actors
    PROVE  ParentFor(a) \in Live \cup {NoActor}
<1>1. PublicRoot \in created /\ DefaultParent \in Live \cup {NoActor}
  BY DEF Inv, TreeInv, Roots, DefaultParent, Live
<1>2. ASSUME Creator[a] # NoActor, Found(Creator[a])  PROVE Creator[a] \in Live
  <2> DEFINE c == Creator[a]
             i == BucketFor(HashCode[c])
  <2>1. c \in Actors
    BY <1>2, TreeAssumption
  <2>2. c \in ToSet(directory.buckets[i])
    BY <1>2, <2>1 DEF Found, GetFrom, Contains, ToSet
  <2>3. i \in Buckets
    BY <2>1, HashBucket
  <2> QED  BY <2>2, <2>3 DEF Inv, TreeInv
<1> QED  BY <1>1, <1>2 DEF ParentFor

(* A parent that the caller names was created, and is all that is known of it. *)
LEMMA ParentIsKnown ==
    ASSUME Inv, NEW a \in Actors, NEW p \in ParentsFor(a)
    PROVE  p \in created \cup {NoActor}
  BY ParentIsLive DEF ParentsFor, Live

(* What the directory d gains with an actor that it lacks. *)
Lacks(d, a) ==
    \A i \in Buckets : IsInjective(d.buckets[i]) /\ a \notin ToSet(d.buckets[i])

Gains(d, e, a) ==
    /\ e \in Directories
    /\ \A i \in Buckets :
          /\ IsInjective(e.buckets[i])
          /\ ToSet(e.buckets[i]) = IF i = BucketFor(HashCode[a])
                                   THEN ToSet(d.buckets[i]) \cup {a}
                                   ELSE ToSet(d.buckets[i])
    /\ \A t \in Types : e.typeIndex[t] = IF t = Type[a] THEN a ELSE d.typeIndex[t]

LEMMA AddedToDirectory ==
    ASSUME NEW d \in Directories, NEW a \in Actors, Lacks(d, a)
    PROVE  Gains(d, SetIn(d, a, HashCode[a]), a)
<1> DEFINE bucket == BucketFor(HashCode[a])
           its == d.buckets[bucket]
           buckets == [d.buckets EXCEPT ![bucket] = Append(its, a)]
           index == [d.typeIndex EXCEPT ![Type[a]] = a]
           e == SetIn(d, a, HashCode[a])
<1>1. /\ d.buckets \in [Buckets -> Seq(Actors)]
      /\ d.typeIndex \in [Types -> Actors \cup {NoActor}]
      /\ e = [buckets |-> buckets, typeIndex |-> index]
      /\ bucket \in Buckets
  BY HashBucket DEF Directories, SetIn
<1>2. its \in Seq(Actors) /\ IsInjective(its) /\ a \notin ToSet(its)
  BY <1>1 DEF Lacks
<1> HIDE DEF its, bucket, e
<1>3. /\ Append(its, a) \in Seq(Actors) /\ ToSet(Append(its, a)) = ToSet(its) \cup {a}
      /\ IsInjective(Append(its, a))
  BY <1>2, QueueEnds, InjectiveQueueEnds
<1>4. /\ buckets \in [Buckets -> Seq(Actors)]
      /\ \A i \in Buckets : buckets[i] = IF i = bucket THEN Append(its, a)
                                         ELSE d.buckets[i]
  BY <1>1, <1>3
<1>5. /\ index \in [Types -> Actors \cup {NoActor}]
      /\ \A t \in Types : index[t] = IF t = Type[a] THEN a ELSE d.typeIndex[t]
  BY <1>1
<1> HIDE DEF buckets, index
<1>6. e.buckets = buckets /\ e.typeIndex = index
  BY <1>1
<1>7. e \in Directories
  BY <1>1, <1>4, <1>5 DEF Directories
<1>8. ASSUME NEW i \in Buckets
      PROVE  /\ IsInjective(buckets[i])
             /\ ToSet(buckets[i]) = IF i = bucket THEN ToSet(d.buckets[i]) \cup {a}
                                    ELSE ToSet(d.buckets[i])
  <2>1. CASE i = bucket
    BY <1>3, <1>4, <2>1 DEF its
  <2>2. CASE i # bucket
    BY <1>4, <2>2 DEF Lacks
  <2> QED  BY <2>1, <2>2
<1> QED  BY <1>5, <1>6, <1>7, <1>8 DEF bucket, e, Gains

LEMMA ActorForKeeps ==
    ASSUME Inv, NEW a \in Actors, ActorFor(a)
    PROVE  Inv'
<1> DEFINE bucket == BucketFor(HashCode[a])
<1>1. PICK p \in ParentsFor(a) :
      /\ a \notin created /\ Creator[a] \in created \cup {NoActor}
      /\ created' = created \cup {a}
      /\ directory' = SetIn(directory, a, HashCode[a])
      /\ parent' = [parent EXCEPT ![a] = p]
      /\ children' = AddChild(p, a)
      /\ late' = IF \/ p \in closed
                    \/ \E s \in Sequences : s[1] = p /\ phase[s] = "children"
                 THEN late \cup {a} ELSE late
      /\ mailbox' = [mailbox EXCEPT ![a].handling = Start, ![a].loop = "awaiting"]
      /\ UNCHANGED <<closed, suspended, sent, supervisor, unheard, phase, left,
                     finished, closing, toStop, snapshot>>
  BY DEF ActorFor, supervisionVars, stopVars, stageVars
<1>2. /\ p \in created \cup {NoActor} /\ p # a /\ NoActor \notin Actors
      /\ p \in Actors \cup {NoActor} /\ bucket \in Buckets
      /\ created \subseteq created' /\ created' \subseteq Actors
      /\ Live' = Live \cup {a} /\ a \notin Live
  BY <1>1, ParentIsKnown, HashBucket DEF Live, Inv, TypeOK, TreeInv
<1> HIDE DEF bucket
<1>3. TypeOK /\ MailInv /\ TreeInv /\ IndexInv /\ CloseInv /\ ChildrenStopFirst
  BY DEF Inv
<1>4. BoxStep(a) /\ mailbox' \in [Actors -> Mailboxes]
  <2>1. /\ WellFormed(mailbox[a]) /\ Holds(mailbox[a]) = {}
        /\ mailbox \in [Actors -> Mailboxes]
    BY <1>1, <1>3, BoxesWellFormed DEF MailInv, TypeOK
  <2> DEFINE box == [mailbox[a] EXCEPT !.handling = Start, !.loop = "awaiting"]
  <2>2. mailbox' = [mailbox EXCEPT ![a] = box]
    BY <1>1, <2>1
  <2>3. /\ WellFormed(box) /\ box.queue = mailbox[a].queue /\ box.handling = Start
    BY <2>1, MessagesDiffer, BoxType
  <2> HIDE DEF box
  <2>4. mailbox'[a] = box /\ mailbox' \in [Actors -> Mailboxes]
    BY <2>2, <2>3, OneBox DEF WellFormed
  <2>5. Holds(box) = {Start}
    BY <2>1, <2>3, MessagesDiffer DEF Holds
  <2> QED  BY <1>1, <2>1, <2>3, <2>4, <2>5, MessagesDiffer DEF BoxStep
<1>5. MailStep
  <2>1. \A b \in Actors \ {a} : mailbox'[b] = mailbox[b]
    BY <1>1, <1>3 DEF TypeOK
  <2> QED  BY <1>2, <1>4, <2>1, SameBox DEF MailStep
<1>6. \A q \in Actors :
         /\ q # p => children'[q] = children[q]
         /\ q = p => children'[q] = Append(children[q], a)
  BY <1>1 DEF AddChild
<1>7. \A q \in Actors : /\ children'[q] \in Seq(Actors) /\ IsInjective(children'[q])
                        /\ ToSet(children'[q]) = IF q = p THEN ToSet(children[q]) \cup {a}
                                                 ELSE ToSet(children[q])
  <2> SUFFICES ASSUME NEW q \in Actors
               PROVE  /\ children'[q] \in Seq(Actors) /\ IsInjective(children'[q])
                      /\ ToSet(children'[q]) = IF q = p THEN ToSet(children[q]) \cup {a}
                                               ELSE ToSet(children[q])
    OBVIOUS
  <2> DEFINE its == children[q]
  <2>1. its \in Seq(Actors) /\ IsInjective(its) /\ a \notin ToSet(its)
    BY <1>1, <1>3 DEF TypeOK, TreeInv, Live
  <2> HIDE DEF its
  <2>2. /\ Append(its, a) \in Seq(Actors) /\ ToSet(Append(its, a)) = ToSet(its) \cup {a}
        /\ IsInjective(Append(its, a))
    BY <2>1, QueueEnds, InjectiveQueueEnds
  <2> QED  BY <1>6, <2>1, <2>2 DEF its
<1>8. /\ directory' \in Directories
      /\ \A i \in Buckets :
            /\ IsInjective(directory'.buckets[i])
            /\ ToSet(directory'.buckets[i]) =
                  IF i = bucket THEN ToSet(directory.buckets[i]) \cup {a}
                  ELSE ToSet(directory.buckets[i])
      /\ \A t \in Types : directory'.typeIndex[t] =
                             IF t = Type[a] THEN a ELSE directory.typeIndex[t]
  <2>1. directory \in Directories
    BY <1>3 DEF TypeOK
  <2>2. Lacks(directory, a)
    BY <1>2, <1>3 DEF TreeInv, Lacks
  <2>3. Gains(directory, directory', a)
    BY <1>1, <2>1, <2>2, AddedToDirectory
  <2> QED  BY <2>3 DEF Gains, bucket
<1>9. parent' \in [Actors -> Actors \cup {NoActor}] /\ parent'[a] = p
      /\ \A b \in Actors \ {a} : parent'[b] = parent[b]
  BY <1>1, <1>2, <1>3 DEF TypeOK
<1>10. TypeOK'
  <2>1. children' \in [Actors -> Seq(Actors)]
    BY <1>1, <1>7 DEF AddChild
  <2> QED  BY <1>1, <1>2, <1>3, <1>5, <1>8, <1>9, <2>1
           DEF TypeOK, MailStep, BoxStep, WellFormed
<1>11. MailInv'
  BY <1>1, <1>3, <1>5 DEF MailInv, MailStep, BoxStep
<1>12. \A s \in Sequences : phase'[s] = "children" => AtChildren(s)'
  <2> SUFFICES ASSUME NEW s \in Sequences, phase[s] = "children"
               PROVE  AtChildren(s)'
    BY <1>1
  <2>1. s[1] \in Actors
    BY DEF Sequences
  <2>2. ToSet(children'[s[1]]) \subseteq ToSet(children[s[1]]) \cup late'
    BY <1>1, <1>7, <2>1
  <2> QED  BY <1>1, <1>2, <1>5, <2>2, AtChildrenKept
<1>13. TreeInv'
  <2>1. IsFiniteSet(created')
    BY <1>1, <1>3, FS_AddElement DEF TreeInv
  <2>2. ASSUME NEW q \in Actors
        PROVE  ToSet(children'[q]) = {b \in Live' : parent'[b] = q}
    <3>1. ToSet(children[q]) = {b \in Live : parent[b] = q}
      BY <1>3 DEF TreeInv
    <3>2. \A b \in Live : parent'[b] = parent[b]
      BY <1>1, <1>2, <1>9 DEF Live
    <3> QED  BY <1>2, <1>7, <1>9, <3>1, <3>2
  <2>3. ASSUME NEW i \in Buckets
        PROVE  ToSet(directory'.buckets[i])
                  = {b \in Live' : BucketFor(HashCode[b]) = i}
    <3>1. ToSet(directory.buckets[i]) = {b \in Live : BucketFor(HashCode[b]) = i}
      BY <1>3 DEF TreeInv
    <3> QED  BY <1>2, <1>8, <3>1 DEF bucket
  <2> QED  BY <1>1, <1>3, <1>7, <1>8, <2>1, <2>2, <2>3 DEF TreeInv
<1>14. IndexInv'
  BY <1>1, <1>2, <1>3, <1>8 DEF IndexInv
<1>15. CloseInv'
  BY <1>1, <1>3 DEF CloseInv, InOrder
<1>16. ChildrenStopFirst'
  <2>1. finished \subseteq Actors /\ finished \subseteq closed
    BY <1>3 DEF TypeOK, TreeInv
  <2>2. late \subseteq late' /\ (p \in finished => a \in late')
    BY <1>1, <2>1
  <2> QED  BY <1>1, <1>3, <1>7, <2>1, <2>2 DEF ChildrenStopFirst
<1>17. CloseInOrder'
  BY <1>1, <1>5, CloseInOrderKept
<1> QED  BY <1>10, <1>11, <1>12, <1>13, <1>14, <1>15, <1>16, <1>17 DEF Inv

-----------------------------------------------------------------------------
(* The stop sequences *)

(* What the directory loses with an actor that ends. *)
LEMMA RemovedFromDirectory ==
    ASSUME Inv, NEW a \in Actors, directory' = RemoveFrom(directory, a, HashCode[a])
    PROVE  /\ directory' \in Directories
           /\ \A i \in Buckets :
                 /\ IsInjective(directory'.buckets[i])
                 /\ ToSet(directory'.buckets[i]) = ToSet(directory.buckets[i]) \ {a}
           /\ \A t \in Types : directory'.typeIndex[t] =
                 IF t = Type[a] /\ a \in Live THEN NoActor ELSE directory.typeIndex[t]
<1> DEFINE bucket == BucketFor(HashCode[a])
           its == directory.buckets[bucket]
           buckets == [directory.buckets EXCEPT ![bucket] = RemoveFirst(its, a)]
           index == IF a \notin Live THEN directory.typeIndex
                    ELSE [directory.typeIndex EXCEPT ![Type[a]] = NoActor]
<1>1. /\ directory.buckets \in [Buckets -> Seq(Actors)]
      /\ directory.typeIndex \in [Types -> Actors \cup {NoActor}]
      /\ bucket \in Buckets
      /\ \A i \in Buckets : /\ directory.buckets[i] \in Seq(Actors)
                            /\ IsInjective(directory.buckets[i])
                            /\ ToSet(directory.buckets[i])
                                  = {b \in Live : BucketFor(HashCode[b]) = i}
  BY HashBucket DEF Inv, TypeOK, Directories, TreeInv
<1>2. GetFrom(directory, a, HashCode[a]) = NoActor <=> a \notin Live
  <2>1. a \in ToSet(its) <=> a \in Live
    BY <1>1
  <2> QED  BY <2>1 DEF GetFrom, Contains, ToSet
<1>3. directory' = [buckets |-> buckets, typeIndex |-> index]
  BY <1>2 DEF RemoveFrom
<1>4. /\ RemoveFirst(its, a) \in Seq(Actors) /\ IsInjective(RemoveFirst(its, a))
      /\ ToSet(RemoveFirst(its, a)) = ToSet(its) \ {a}
  <2> DEFINE q == its
  <2>1. q \in Seq(Actors) /\ IsInjective(q)
    BY <1>1
  <2> HIDE DEF q
  <2>2. /\ RemoveFirst(q, a) \in Seq(Actors) /\ IsInjective(RemoveFirst(q, a))
        /\ ToSet(RemoveFirst(q, a)) = ToSet(q) \ {a}
    BY <2>1, RemoveFirstElements
  <2> QED  BY <2>2 DEF q
<1>5. \A i \in Buckets \ {bucket} : a \notin ToSet(directory.buckets[i])
  BY <1>1
<1> HIDE DEF its
<1>6. /\ buckets \in [Buckets -> Seq(Actors)]
      /\ \A i \in Buckets : buckets[i] = IF i = bucket THEN RemoveFirst(its, a)
                                         ELSE directory.buckets[i]
  BY <1>1, <1>4
<1>7. /\ index \in [Types -> Actors \cup {NoActor}]
      /\ \A t \in Types : index[t] = IF t = Type[a] /\ a \in Live THEN NoActor
                                     ELSE directory.typeIndex[t]
  BY <1>1
<1> HIDE DEF buckets, index, bucket
<1>8. directory'.buckets = buckets /\ directory'.typeIndex = index
  BY <1>3
<1>9. directory' \in Directories
  BY <1>3, <1>6, <1>7 DEF Directories
<1>10. ASSUME NEW i \in Buckets
       PROVE  /\ IsInjective(buckets[i])
              /\ ToSet(buckets[i]) = ToSet(directory.buckets[i]) \ {a}
  <2>1. CASE i = bucket
    BY <1>4, <1>6, <2>1 DEF its
  <2>2. CASE i # bucket
    BY <1>1, <1>5, <1>6, <2>2
  <2> QED  BY <2>1, <2>2
<1> QED  BY <1>7, <1>8, <1>9, <1>10

LEMMA FinishKeeps ==
    ASSUME Inv, NEW s \in Sequences, s[1] \in created, Finish(s),
           left' \in [Sequences -> Seq(Actors)],
           \A q \in Sequences \ {s} : left'[q] = left[q],
           ToSet(children[s[1]]) \subseteq closed \cup late,
           UNCHANGED <<created, parent, late, suspended, sent, supervisor, unheard,
                       closing, toStop, snapshot>>
    PROVE  Inv'
<1> DEFINE a == s[1]
           p == parent[a]
<1>1. /\ children' = RemoveChild(p, a)
      /\ closed' = closed \cup {a} /\ finished' = finished \cup {a}
      /\ directory' = RemoveFrom(directory, a, HashCode[a])
      /\ phase' = [phase EXCEPT ![s] = "none"]
      /\ StopAnswered(s)
  BY DEF Finish
<1>2. a \in created /\ a \in Actors /\ created' = created
  BY DEF Sequences
<1> HIDE DEF a, p
<1>3. TypeOK /\ MailInv /\ TreeInv /\ IndexInv /\ CloseInv /\ ChildrenStopFirst
  BY DEF Inv
<1>4. MailStep
  <2>1. \/ mailbox' = [mailbox EXCEPT ![a] = Answered(@)]
        \/ UNCHANGED mailbox
    BY <1>1 DEF StopAnswered, a
  <2>2. ASSUME mailbox' = [mailbox EXCEPT ![a] = Answered(@)]
        PROVE  MailStep
    <3>1. mailbox'[a] = Answered(mailbox[a]) /\ a \in closed'
      BY <1>1, <1>2, <2>2, OneBox
    <3>2. BoxStep(a)
      BY <1>2, <3>1, AnsweredBox
    <3> QED  BY <1>2, <2>2, <3>2, OneBoxKeeps
  <2> QED  BY <1>2, <2>1, <2>2, SameBoxes
<1>5. \A q \in Actors : /\ children'[q] \in Seq(Actors) /\ IsInjective(children'[q])
                        /\ ToSet(children'[q]) = ToSet(children[q]) \ {a}
  <2> SUFFICES ASSUME NEW q \in Actors
               PROVE  /\ children'[q] \in Seq(Actors) /\ IsInjective(children'[q])
                      /\ ToSet(children'[q]) = ToSet(children[q]) \ {a}
    OBVIOUS
  <2> DEFINE its == children[q]
  <2>1. its \in Seq(Actors) /\ IsInjective(its)
    BY <1>3 DEF TypeOK, TreeInv
  <2>2. q # p => a \notin ToSet(its)
    BY <1>3 DEF TreeInv, p
  <2>3. children'[q] = IF q = p THEN RemoveFirst(its, a) ELSE its
    BY <1>1 DEF RemoveChild
  <2> HIDE DEF its
  <2>4. /\ RemoveFirst(its, a) \in Seq(Actors) /\ IsInjective(RemoveFirst(its, a))
        /\ ToSet(RemoveFirst(its, a)) = ToSet(its) \ {a}
    BY <2>1, RemoveFirstElements
  <2>5. CASE q = p
    BY <2>3, <2>4, <2>5 DEF its
  <2>6. CASE q # p
    BY <2>1, <2>2, <2>3, <2>6 DEF its
  <2> QED  BY <2>5, <2>6
<1>6. /\ directory' \in Directories
      /\ \A i \in Buckets :
            /\ IsInjective(directory'.buckets[i])
            /\ ToSet(directory'.buckets[i]) = ToSet(directory.buckets[i]) \ {a}
      /\ \A t \in Types : directory'.typeIndex[t] =
            IF t = Type[a] /\ a \in Live THEN NoActor ELSE directory.typeIndex[t]
  BY <1>1, <1>2, RemovedFromDirectory
<1>7. Live' = Live \ {a}
  BY <1>1, <1>2 DEF Live
<1>8. /\ phase' \in [Sequences -> {"none", "hook", "children"}]
      /\ phase'[s] = "none" /\ \A q \in Sequences \ {s} : phase'[q] = phase[q]
  BY <1>1, <1>3 DEF TypeOK
<1>9. TypeOK'
  <2>1. children' \in [Actors -> Seq(Actors)]
    BY <1>1, <1>5 DEF RemoveChild
  <2>2. closed' \subseteq Actors /\ finished' \subseteq Actors
    BY <1>1, <1>2, <1>3 DEF TypeOK
  <2> QED  BY <1>2, <1>3, <1>4, <1>6, <1>8, <2>1, <2>2
           DEF TypeOK, MailStep, BoxStep, WellFormed
<1>10. MailInv'
  BY <1>2, <1>3, <1>4, <1>8 DEF MailInv, MailStep, BoxStep
<1>11. \A q \in Sequences : phase'[q] = "children" => AtChildren(q)'
  <2> SUFFICES ASSUME NEW q \in Sequences, phase'[q] = "children"
               PROVE  AtChildren(q)'
    OBVIOUS
  <2>1. q # s /\ phase[q] = "children" /\ left'[q] = left[q] /\ q[1] \in Actors
    BY <1>8 DEF Sequences
  <2>2. ToSet(children'[q[1]]) \subseteq ToSet(children[q[1]]) \cup late'
    BY <1>5, <2>1
  <2> QED  BY <1>1, <1>2, <1>4, <2>1, <2>2, AtChildrenKept
<1>12. TreeInv'
  <2>1. finished' \subseteq created' \cap closed'
    BY <1>1, <1>2, <1>3 DEF TreeInv
  <2>2. ASSUME NEW q \in Actors
        PROVE  ToSet(children'[q]) = {b \in Live' : parent'[b] = q}
    BY <1>3, <1>5, <1>7 DEF TreeInv
  <2>3. ASSUME NEW i \in Buckets
        PROVE  ToSet(directory'.buckets[i])
                  = {b \in Live' : BucketFor(HashCode[b]) = i}
    BY <1>3, <1>6, <1>7 DEF TreeInv
  <2> QED  BY <1>2, <1>3, <1>5, <1>6, <2>1, <2>2, <2>3 DEF TreeInv
<1>13. IndexInv'
  <2>1. ASSUME NEW t \in Types
        PROVE  LET b == directory'.typeIndex[t]
               IN  /\ b # NoActor => b \in Live' /\ Type[b] = t
                   /\ b = NoActor /\ (\E c \in created' : Type[c] = t)
                          => \E c \in finished' : Type[c] = t
    <3>1. CASE t = Type[a] /\ a \in Live
      BY <1>1, <1>6, <3>1
    <3>2. CASE ~(t = Type[a] /\ a \in Live)
      <4>1. directory'.typeIndex[t] = directory.typeIndex[t]
        BY <1>6, <3>2
      <4>2. /\ directory.typeIndex[t] # NoActor =>
                  /\ directory.typeIndex[t] \in Live
                  /\ Type[directory.typeIndex[t]] = t
            /\ directory.typeIndex[t] = NoActor /\ (\E c \in created : Type[c] = t)
                   => \E c \in finished : Type[c] = t
        BY <1>3 DEF IndexInv
      <4> QED  BY <1>1, <1>2, <1>7, <3>2, <4>1, <4>2
    <3> QED  BY <3>1, <3>2
  <2> QED  BY <1>2, <1>3, <2>1 DEF IndexInv
<1>14. CloseInv'
  BY <1>2, <1>3 DEF CloseInv, InOrder
<1>15. ChildrenStopFirst'
  <2>1. \A q \in finished' : q \in Actors
    BY <1>1, <1>2, <1>3 DEF TypeOK
  <2>2. ToSet(children[a]) \subseteq closed \cup late /\ late' = late
    BY DEF a
  <2>3. \A q \in finished : ToSet(children[q]) \subseteq closed \cup late
    BY <1>3 DEF ChildrenStopFirst
  <2>4. ASSUME NEW q \in finished'
        PROVE  ToSet(children'[q]) \subseteq closed' \cup late'
    <3>1. ToSet(children'[q]) \subseteq ToSet(children[q])
      BY <1>5, <2>1
    <3>2. q = a \/ q \in finished
      BY <1>1
    <3>3. closed \subseteq closed'
      BY <1>1
    <3> QED  BY <2>2, <2>3, <3>1, <3>2, <3>3
  <2> QED  BY <2>4 DEF ChildrenStopFirst
<1>16. CloseInOrder'
  BY <1>1, <1>4, CloseInOrderKept
<1> QED  BY <1>9, <1>10, <1>11, <1>12, <1>13, <1>14, <1>15, <1>16 DEF Inv

(* The next child gets its stop() message, unless it is closed already. *)
LEMMA NextChildKeeps ==
    ASSUME Inv, NEW s \in Sequences, NEW cs \in Seq(Actors), cs # <<>>,
           phase[s] # "none", ToSet(cs) \subseteq created,
           ToSet(children[s[1]]) \subseteq closed \cup late \cup ToSet(cs),
           left' = [left EXCEPT ![s] = cs],
           mailbox' = [mailbox EXCEPT ![Head(cs)] = Send(Head(cs), @, <<s>>)],
           EnterHooks([phase EXCEPT ![s] = "children"]),
           UNCHANGED <<created, directory, parent, children, late, closed, suspended,
                       sent, supervisor, unheard, finished, closing, toStop, snapshot>>
    PROVE  Inv'
<1> DEFINE c == Head(cs)
           phases == [phase EXCEPT ![s] = "children"]
<1>1. c \in Actors /\ c \in created /\ s[1] \in created
  BY QueueBegins DEF Inv, MailInv
<1>2. /\ s \in Stops /\ s \in Queued /\ s \notin Informs
      /\ <<s>> \in Seq(Queued) /\ ToSet(<<s>>) = {s}
  <2>1. s \in Stops
    BY DEF Stops
  <2>2. s \in Queued /\ s \notin Informs
    BY <2>1, MessagesDiffer DEF Queued
  <2> QED  BY <2>1, <2>2, SingleQueue
<1> HIDE DEF c
<1>3. mailbox' = [mailbox EXCEPT ![c] = Send(c, @, <<s>>)]
  BY DEF c
<1>4. mailbox'[c] = Send(c, mailbox[c], <<s>>)
  BY <1>1, <1>3, OneBox
<1>5. BoxStep(c)
  BY <1>1, <1>2, <1>4, SentBox DEF Informs
<1>6. MailStep
  BY <1>1, <1>3, <1>5, OneBoxKeeps
<1>7. c \in closed \/ s \in Holds(mailbox'[c])
  <2> DEFINE box == mailbox[c]
  <2>1. WellFormed(box) /\ mailbox'[c] = Send(c, box, <<s>>)
    BY <1>1, <1>4, BoxesWellFormed
  <2> HIDE DEF box
  <2>2. c \notin closed => Holds(Send(c, box, <<s>>)) = Holds(box) \cup ToSet(<<s>>)
    BY <1>1, <1>2, <2>1, SendHolds
  <2> QED  BY <1>2, <2>1, <2>2
<1>8. /\ phases \in [Sequences -> {"none", "hook", "children"}]
      /\ \A q \in Sequences \ {s} : phases[q] = phase[q]
      /\ left' \in [Sequences -> Seq(Actors)] /\ left'[s] = cs
      /\ \A q \in Sequences \ {s} : left'[q] = left[q]
  BY DEF Inv, TypeOK
<1> HIDE DEF phases
<1>9. /\ phase' \in [Sequences -> {"none", "hook", "children"}]
      /\ \A q \in Sequences : \/ phase'[q] = phases[q]
                              \/ phase'[q] = "hook" /\ q[1] \in created'
  BY <1>6, <1>8, EnterHooksKeeps DEF phases
<1>10. TypeOK'
  BY <1>6, <1>8, <1>9 DEF Inv, TypeOK, MailStep, BoxStep, WellFormed
<1>11. MailInv'
  BY <1>1, <1>6, <1>8, <1>9 DEF Inv, MailInv, MailStep, BoxStep
<1>12. \A q \in Sequences : phase'[q] = "children" => AtChildren(q)'
  <2> SUFFICES ASSUME NEW q \in Sequences, phase'[q] = "children"
               PROVE  AtChildren(q)'
    OBVIOUS
  <2>1. CASE q = s
    BY <1>7, <1>8, <2>1 DEF AtChildren, c
  <2>2. CASE q # s
    <3>1. phase[q] = "children" /\ left'[q] = left[q]
      BY <1>8, <1>9, <2>2
    <3> QED  BY <1>6, <3>1, AtChildrenKept
  <2> QED  BY <2>1, <2>2
<1>13. TreeInv' /\ IndexInv' /\ CloseInv' /\ ChildrenStopFirst'
  BY DEF Inv, TreeInv, IndexInv, CloseInv, InOrder, ChildrenStopFirst, Live
<1>14. CloseInOrder'
  BY <1>6, CloseInOrderKept
<1> QED  BY <1>10, <1>11, <1>12, <1>13, <1>14 DEF Inv

LEMMA StopNextKeeps ==
    ASSUME Inv, NEW s \in Sequences, NEW cs \in Seq(Actors), StopNext(s, cs),
           phase[s] # "none", ToSet(cs) \subseteq created,
           ToSet(children[s[1]]) \subseteq closed \cup late \cup ToSet(cs)
    PROVE  Inv'
<1>1. /\ left' = [left EXCEPT ![s] = cs]
      /\ UNCHANGED <<created, parent, late, suspended, sent, supervisor, unheard,
                     closing, toStop, snapshot>>
  BY DEF StopNext, supervisionVars, stageVars
<1>2. CASE cs = <<>> /\ Finish(s)
  <2>1. ToSet(children[s[1]]) \subseteq closed \cup late
    BY <1>2, EmptyQueue
  <2>2. s[1] \in created
    BY DEF Inv, MailInv
  <2>3. /\ left' \in [Sequences -> Seq(Actors)]
        /\ \A q \in Sequences \ {s} : left'[q] = left[q]
    BY <1>1 DEF Inv, TypeOK
  <2> QED  BY <1>1, <1>2, <2>1, <2>2, <2>3, FinishKeeps
<1>3. CASE /\ cs # <<>>
           /\ mailbox' = [mailbox EXCEPT ![Head(cs)] = Send(Head(cs), @, <<s>>)]
           /\ EnterHooks([phase EXCEPT ![s] = "children"])
           /\ UNCHANGED <<children, closed, directory, finished>>
  BY <1>1, <1>3, NextChildKeeps
<1> QED  BY <1>2, <1>3 DEF StopNext

LEMMA HookEndsKeeps ==
    ASSUME Inv, NEW s \in Sequences, HookEnds(s)
    PROVE  Inv'
<1> DEFINE cs == children[s[1]]
<1>1. /\ phase[s] = "hook" /\ StopNext(s, cs)
      /\ s[1] \in Actors
  BY DEF HookEnds, Sequences
<1>2. cs \in Seq(Actors) /\ ToSet(cs) \subseteq created
  BY <1>1 DEF Inv, TypeOK, TreeInv, Live
<1>3. phase[s] # "none" /\ ToSet(children[s[1]]) \subseteq closed \cup late \cup ToSet(cs)
  BY <1>1
<1> HIDE DEF cs
<1> QED  BY <1>1, <1>2, <1>3, StopNextKeeps

(* The answer of the first child has come, and so the child is closed. *)
LEMMA AnswersLeave ==
    ASSUME Inv, NEW s \in Sequences, ChildAnswers(s)
    PROVE  \E cs \in Seq(Actors) :
              /\ StopNext(s, cs)
              /\ phase[s] # "none" /\ ToSet(cs) \subseteq created
              /\ ToSet(children[s[1]]) \subseteq closed \cup late \cup ToSet(cs)
<1> DEFINE cs == Tail(left[s])
           c == Head(left[s])
<1>1. phase[s] = "children" /\ ~Pending(s) /\ StopNext(s, cs)
  BY DEF ChildAnswers
<1>2. AtChildren(s) /\ left[s] \in Seq(Actors) /\ s \in Stops
  BY <1>1 DEF Inv, TypeOK, Stops
<1>3. /\ c \in Actors /\ cs \in Seq(Actors)
      /\ ToSet(left[s]) = ToSet(cs) \cup {c}
  BY <1>2, QueueBegins DEF AtChildren
<1>4. c \in closed
  BY <1>1, <1>2, <1>3, AwaitedIsHeld DEF AtChildren, Pending, AwaitsAnswer
<1>5. /\ phase[s] # "none" /\ ToSet(cs) \subseteq created
      /\ ToSet(children[s[1]]) \subseteq closed \cup late \cup ToSet(cs)
  BY <1>1, <1>2, <1>3, <1>4 DEF AtChildren
<1> HIDE DEF cs
<1> QED  BY <1>1, <1>3, <1>5

LEMMA ChildAnswersKeeps ==
    ASSUME Inv, NEW s \in Sequences, ChildAnswers(s)
    PROVE  Inv'
  BY AnswersLeave, StopNextKeeps

-----------------------------------------------------------------------------
(* Closing the stage *)

LEMMA GroupNumber == \A a : Group(a) \in 1..4
  BY DEF Group

(* The groups that the loop of close() makes of a queue of actors. *)
Sorts(groups, actors, T) ==
    /\ groups \in [1..4 -> Seq(T)]
    /\ \A g \in 1..4 : \A x \in ToSet(groups[g]) : Group(x) = g
    /\ \A x : x \in actors <=> \E g \in 1..4 : x \in ToSet(groups[g])

LEMMA InGroupsSorts ==
    ASSUME NEW T, NEW actors \in Seq(T)
    PROVE  Sorts(InGroups(actors), ToSet(actors), T)
<1> DEFINE n == Len(actors)
           none == [g \in 1..4 |-> <<>>]
           with(gs, a) == [gs EXCEPT ![Group(a)] = Append(@, a)]
           Groups(f) == f = [i \in 0..n |-> IF i = 0 THEN none
                                            ELSE with(f[i - 1], actors[i])]
           groups == CHOOSE f : Groups(f)
<1>1. InGroups(actors) = groups[n]
  BY DEF InGroups
<1>2. n \in Nat /\ \A i \in 1..n : actors[i] \in T
  BY QueueElements
<1>3. \A gs \in [1..4 -> Seq(T)], a \in T : with(gs, a) \in [1..4 -> Seq(T)]
  BY GroupNumber
<1>4. none \in [1..4 -> Seq(T)]
  BY EmptyQueue
<1> HIDE DEF with, none
<1>5. \E f : Groups(f)
  <2> DEFINE step == [i \in 1..n |-> [gs \in [1..4 -> Seq(T)] |-> with(gs, actors[i])]]
  <2>1. step \in [1..n -> [[1..4 -> Seq(T)] -> [1..4 -> Seq(T)]]]
    BY <1>2, <1>3
  <2>2. \A i \in 1..n, gs \in [1..4 -> Seq(T)] : step[i][gs] = with(gs, actors[i])
    OBVIOUS
  <2> HIDE DEF step
  <2>3. PICK f : Iterates(f, [1..4 -> Seq(T)], none, n, step)
    BY <1>2, <1>4, <2>1, RecursionExists
  <2>4. ASSUME NEW i \in 0..n
        PROVE  f[i] = IF i = 0 THEN none ELSE with(f[i - 1], actors[i])
    <3>1. CASE i = 0
      BY <2>3, <3>1 DEF Iterates
    <3>2. CASE i # 0
      <4>1. i \in 1..n /\ i - 1 \in 0..n
        BY <1>2, <3>2
      <4>2. f[i - 1] \in [1..4 -> Seq(T)] /\ f[i] = step[i][f[i - 1]]
        BY <2>3, <4>1 DEF Iterates
      <4> QED  BY <2>2, <3>2, <4>1, <4>2
    <3> QED  BY <3>1, <3>2
  <2>5. f = [i \in 0..n |-> f[i]]
    BY <2>3 DEF Iterates
  <2>6. Groups(f)
    BY <2>4, <2>5
  <2> QED  BY <2>6
<1>6. Groups(groups)
  BY <1>5
<1> HIDE DEF groups, n
<1>7. /\ groups[0] = none
      /\ \A i \in 1..n : groups[i] = with(groups[i - 1], actors[i])
  <2>1. \A i \in 0..n : groups[i] = IF i = 0 THEN none
                                    ELSE with(groups[i - 1], actors[i])
    BY <1>6
  <2>2. 0 \in 0..n /\ \A i \in 1..n : i \in 0..n /\ i # 0
    BY <1>2
  <2> QED  BY <2>1, <2>2
<1> DEFINE first(i) == {actors[j] : j \in 1..i}
           Done == {i \in 0..n : Sorts(groups[i], first(i), T)}
<1>8. 0 \in Done
  <2>1. none = [g \in 1..4 |-> <<>>]
    BY DEF none
  <2>2. first(0) = {}
    OBVIOUS
  <2> HIDE DEF first
  <2>3. Sorts(none, first(0), T)
    BY <1>4, <2>1, <2>2, EmptyQueue DEF Sorts
  <2> QED  BY <1>2, <1>7, <2>3
<1>9. ASSUME NEW i \in 1..n, i - 1 \in Done  PROVE i \in Done
  <2> DEFINE a == actors[i]
             before == groups[i - 1]
             q == before[Group(a)]
             after == groups[i]
             k == Group(a)
  <2>1. /\ Sorts(before, first(i - 1), T) /\ i \in 0..n
        /\ after = with(before, a) /\ a \in T /\ k \in 1..4
    BY <1>2, <1>7, <1>9, GroupNumber
  <2>2. first(i) = first(i - 1) \cup {a}
    <3>1. \A j \in 1..i : j \in 1 .. i - 1 \/ j = i
      BY <1>2
    <3>2. i \in 1..i /\ \A j \in 1 .. i - 1 : j \in 1..i
      BY <1>2
    <3> QED  BY <3>1, <3>2
  <2> HIDE DEF first, after, before, a
  <2>3. q \in Seq(T)
    BY <2>1 DEF Sorts
  <2>4. Append(q, a) \in Seq(T) /\ ToSet(Append(q, a)) = ToSet(q) \cup {a}
    <3> HIDE DEF q
    <3> QED  BY <2>1, <2>3, QueueEnds
  <2>5. /\ after \in [1..4 -> Seq(T)]
        /\ \A g \in 1..4 : after[g] = IF g = k THEN Append(q, a) ELSE before[g]
    BY <2>1, <2>4 DEF with, Sorts
  <2>6. \A g \in 1..4 : ToSet(after[g]) = IF g = k THEN ToSet(before[g]) \cup {a}
                                          ELSE ToSet(before[g])
    BY <2>4, <2>5
  <2> HIDE DEF q
  <2>7. Sorts(after, first(i), T)
    <3>1. \A g \in 1..4 : \A x \in ToSet(after[g]) : Group(x) = g
      BY <2>1, <2>6 DEF Sorts
    <3>2. \A x : x \in first(i) <=> \E g \in 1..4 : x \in ToSet(after[g])
      BY <2>1, <2>2, <2>6 DEF Sorts
    <3> QED  BY <2>5, <3>1, <3>2 DEF Sorts
  <2> QED  BY <2>1, <2>7 DEF after
<1>10. n \in Done
  <2> HIDE DEF Done
  <2>1. 0..n \subseteq Done
    BY <1>2, <1>8, <1>9, InductionUpTo
  <2> QED  BY <1>2, <2>1
<1>11. first(n) = ToSet(actors)
  BY QueueElements DEF ToSet, n
<1> HIDE DEF first
<1> QED  BY <1>1, <1>10, <1>11

LEMMA InOrderConcat ==
    ASSUME NEW T, NEW p \in Seq(T), NEW q \in Seq(T), InOrder(p), InOrder(q),
           \A x \in ToSet(p), y \in ToSet(q) : Group(x) <= Group(y)
    PROVE  InOrder(p \o q)
<1> DEFINE r == p \o q
<1>1. /\ Len(r) = Len(p) + Len(q) /\ Len(p) \in Nat /\ Len(q) \in Nat
      /\ \A i \in 1..Len(p) : r[i] = p[i] /\ p[i] \in ToSet(p)
      /\ \A i \in 1..Len(q) : r[i + Len(p)] = q[i] /\ q[i] \in ToSet(q)
  BY ConcatPlaces, QueueElements
<1> HIDE DEF r
<1>2. \A i \in 1..Len(r) :
         \/ i \in 1..Len(p) /\ r[i] = p[i]
         \/ /\ i > Len(p) /\ i - Len(p) \in 1..Len(q)
            /\ r[i] = q[i - Len(p)]
  <2>1. \A i \in 1..Len(r) :
           \/ i \in 1..Len(p)
           \/ /\ i > Len(p) /\ i - Len(p) \in 1..Len(q)
              /\ (i - Len(p)) + Len(p) = i
    BY <1>1
  <2> QED  BY <1>1, <2>1
<1>3. ASSUME NEW i \in 1..Len(r), NEW j \in 1..Len(r), i < j
      PROVE  Group(r[i]) <= Group(r[j])
  <2>1. CASE j \in 1..Len(p)
    <3>1. i \in 1..Len(p)
      BY <1>3, <2>1
    <3> QED  BY <1>1, <1>3, <2>1, <3>1 DEF InOrder
  <2>2. CASE i \in 1..Len(p) /\ j > Len(p)
    BY <1>1, <1>2, <2>2
  <2>3. CASE i > Len(p) /\ j > Len(p)
    <3>1. i - Len(p) < j - Len(p)
      BY <1>1, <1>3
    <3> QED  BY <1>1, <1>2, <2>3, <3>1 DEF InOrder
  <2> QED  BY <1>1, <1>2, <1>3, <2>1, <2>2, <2>3
<1> QED  BY <1>3 DEF InOrder, r

LEMMA CategorizedInOrder ==
    ASSUME Inv
    PROVE  /\ AllOf(directory) \in Seq(created)
           /\ Categorized \in Seq(created) /\ InOrder(Categorized)
           /\ ToSet(Categorized) = ToSet(AllOf(directory))
<1> DEFINE qs == [i \in 1 .. BucketCount |-> directory.buckets[i - 1]]
           all == AllOf(directory)
           groups == InGroups(all)
<1>1. all \in Seq(created)
  <2>1. \A i \in 1 .. BucketCount : i - 1 \in Buckets
    BY DEF Buckets
  <2>2. \A i \in Buckets : directory.buckets[i] \in Seq(created)
    <3> SUFFICES ASSUME NEW i \in Buckets  PROVE directory.buckets[i] \in Seq(created)
      OBVIOUS
    <3> DEFINE q == directory.buckets[i]
    <3>1. q \in Seq(Actors) /\ ToSet(q) \subseteq created
      BY DEF Inv, TypeOK, Directories, TreeInv, Live
    <3> HIDE DEF q
    <3>2. q \in Seq(created)
      BY <3>1, RestrictedQueue
    <3> QED  BY <3>2 DEF q
  <2>3. qs \in [1 .. BucketCount -> Seq(created)]
    BY <2>1, <2>2
  <2>4. all = FlattenSeq(qs)
    BY DEF AllOf
  <2> HIDE DEF qs, all
  <2> QED  BY <2>3, <2>4, FlattenQueues
<1> HIDE DEF all
<1>2. Sorts(groups, ToSet(all), created)
  BY <1>1, InGroupsSorts
<1> HIDE DEF groups
<1>3. Categorized = groups[1] \o groups[2] \o groups[3] \o groups[4]
  BY DEF Categorized, groups, all
<1>4. \A g \in 1..4 : /\ groups[g] \in Seq(created) /\ InOrder(groups[g])
                      /\ \A x \in ToSet(groups[g]) : Group(x) = g
  <2> SUFFICES ASSUME NEW g \in 1..4
               PROVE  /\ groups[g] \in Seq(created) /\ InOrder(groups[g])
                      /\ \A x \in ToSet(groups[g]) : Group(x) = g
    OBVIOUS
  <2> DEFINE q == groups[g]
  <2>1. q \in Seq(created) /\ \A x \in ToSet(q) : Group(x) = g
    BY <1>2 DEF Sorts
  <2> HIDE DEF q
  <2>2. \A i \in 1..Len(q) : Group(q[i]) = g
    BY <2>1, QueueElements
  <2>3. InOrder(q)
    BY <2>2 DEF InOrder
  <2> QED  BY <2>1, <2>3 DEF q
<1> DEFINE g1 == groups[1]
           g2 == groups[2]
           g3 == groups[3]
           g4 == groups[4]
<1>5. /\ g1 \in Seq(created) /\ InOrder(g1) /\ \A x \in ToSet(g1) : Group(x) = 1
      /\ g2 \in Seq(created) /\ InOrder(g2) /\ \A x \in ToSet(g2) : Group(x) = 2
      /\ g3 \in Seq(created) /\ InOrder(g3) /\ \A x \in ToSet(g3) : Group(x) = 3
      /\ g4 \in Seq(created) /\ InOrder(g4) /\ \A x \in ToSet(g4) : Group(x) = 4
  BY <1>4
<1>6. \A x : x \in ToSet(all) <=> \/ x \in ToSet(g1) \/ x \in ToSet(g2)
                                  \/ x \in ToSet(g3) \/ x \in ToSet(g4)
  <2>1. \A g \in 1..4 : g = 1 \/ g = 2 \/ g = 3 \/ g = 4
    OBVIOUS
  <2> QED  BY <1>2, <2>1 DEF Sorts
<1> HIDE DEF g1, g2, g3, g4
<1>7. /\ g1 \o g2 \in Seq(created) /\ InOrder(g1 \o g2)
      /\ ToSet(g1 \o g2) = ToSet(g1) \cup ToSet(g2)
  BY <1>5, ConcatPlaces, ConcatElements, InOrderConcat
<1> DEFINE g12 == g1 \o g2
<1> HIDE DEF g12
<1>8. /\ g12 \o g3 \in Seq(created) /\ InOrder(g12 \o g3)
      /\ ToSet(g12 \o g3) = ToSet(g12) \cup ToSet(g3)
  <2>1. /\ g12 \in Seq(created) /\ InOrder(g12)
        /\ \A x \in ToSet(g12), y \in ToSet(g3) : Group(x) <= Group(y)
    BY <1>5, <1>7 DEF g12
  <2> QED  BY <1>5, <2>1, ConcatPlaces, ConcatElements, InOrderConcat
<1> DEFINE g123 == g12 \o g3
<1> HIDE DEF g123
<1>9. /\ g123 \o g4 \in Seq(created) /\ InOrder(g123 \o g4)
      /\ ToSet(g123 \o g4) = ToSet(g123) \cup ToSet(g4)
  <2>1. /\ g123 \in Seq(created) /\ InOrder(g123)
        /\ \A x \in ToSet(g123), y \in ToSet(g4) : Group(x) <= Group(y)
    BY <1>5, <1>7, <1>8 DEF g12, g123
  <2> QED  BY <1>5, <2>1, ConcatPlaces, ConcatElements, InOrderConcat
<1>10. Categorized = g123 \o g4
  BY <1>3 DEF g1, g2, g3, g4, g12, g123
<1>11. ToSet(Categorized) = ToSet(all)
  BY <1>6, <1>7, <1>8, <1>9, <1>10 DEF g12, g123
<1> QED  BY <1>1, <1>9, <1>10, <1>11 DEF all

LEMMA CloseBeginsKeeps ==
    ASSUME Inv, CloseBegins
    PROVE  Inv'
<1>1. /\ closing' = "closing" /\ toStop' = Categorized
      /\ snapshot' = ToSet(AllOf(directory))
      /\ UNCHANGED <<created, directory, parent, children, late, closed, suspended,
                     mailbox, sent, supervisor, unheard, phase, left, finished>>
  BY DEF CloseBegins, treeVars, mailboxVars, supervisionVars, stopVars
<1>2. /\ toStop' \in Seq(created) /\ InOrder(toStop')
      /\ snapshot' = ToSet(toStop') /\ created \subseteq Actors
  BY <1>1, CategorizedInOrder DEF Inv, TypeOK
<1>3. ToSet(toStop') \subseteq created /\ toStop' \in Seq(Actors)
  <2> DEFINE q == toStop'
  <2>1. q \in Seq(created)
    BY <1>2
  <2> HIDE DEF q
  <2>2. ToSet(q) \subseteq created
    BY <2>1, QueueElements
  <2>3. q \in Seq(Actors)
    BY <1>2, <2>1, <2>2, RestrictedQueue
  <2> QED  BY <2>2, <2>3 DEF q
<1>4. TypeOK'
  BY <1>1, <1>2, <1>3 DEF Inv, TypeOK
<1>5. MailInv' /\ TreeInv' /\ IndexInv' /\ ChildrenStopFirst'
  BY <1>1 DEF Inv, MailInv, TreeInv, IndexInv, ChildrenStopFirst, Live
<1>6. \A s \in Sequences : phase'[s] = "children" => AtChildren(s)'
  BY <1>1 DEF Inv, AtChildren
<1>7. CloseInv'
  BY <1>1, <1>2, <1>3 DEF CloseInv, InOrder
<1>8. CloseInOrder'
  BY <1>2 DEF CloseInOrder
<1> QED  BY <1>4, <1>5, <1>6, <1>7, <1>8 DEF Inv

LEMMA CloseStopsKeeps ==
    ASSUME Inv, NEW a \in Actors, CloseStops(a)
    PROVE  Inv'
<1>1. /\ ~Pending(Close) /\ toStop # <<>> /\ a = Head(toStop)
      /\ closing = "closing" /\ toStop' = Tail(toStop)
      /\ mailbox' = [mailbox EXCEPT ![a] = Send(a, @, <<Close>>)]
      /\ EnterHooks(phase)
      /\ UNCHANGED <<created, directory, parent, children, late, closed, suspended,
                     sent, supervisor, unheard, left, finished, closing, snapshot>>
  BY DEF CloseStops, treeVars, supervisionVars
<1>2. /\ toStop \in Seq(Actors) /\ Tail(toStop) \in Seq(Actors)
      /\ a = toStop[1] /\ 1 \in 1..Len(toStop) /\ Len(toStop) \in Nat
      /\ Len(Tail(toStop)) = Len(toStop) - 1
      /\ \A i \in 1..Len(Tail(toStop)) : /\ Tail(toStop)[i] = toStop[i + 1]
                                         /\ i + 1 \in 1..Len(toStop)
      /\ ToSet(toStop) = ToSet(Tail(toStop)) \cup {a}
  BY <1>1, QueueBegins DEF Inv, TypeOK
<1>3. a \in created
  BY <1>2 DEF Inv, CloseInv
<1>4. /\ Close \in Stops /\ Close \in Queued /\ Close \notin Informs
      /\ <<Close>> \in Seq(Queued) /\ ToSet(<<Close>>) = {Close}
  <2>1. Close \in Stops
    BY DEF Stops
  <2>2. Close \in Queued /\ Close \notin Informs
    BY <2>1, MessagesDiffer DEF Queued
  <2> QED  BY <2>1, <2>2, SingleQueue
<1>5. mailbox'[a] = Send(a, mailbox[a], <<Close>>)
  BY <1>1, OneBox
<1>6. BoxStep(a)
  BY <1>1, <1>3, <1>4, <1>5, SentBox DEF Informs
<1>7. MailStep
  BY <1>1, <1>6, OneBoxKeeps
<1>8. a \notin closed => Close \in Holds(mailbox'[a])
  <2> DEFINE box == mailbox[a]
  <2>1. WellFormed(box) /\ mailbox'[a] = Send(a, box, <<Close>>)
    BY <1>5, BoxesWellFormed
  <2> HIDE DEF box
  <2>2. a \notin closed =>
           Holds(Send(a, box, <<Close>>)) = Holds(box) \cup ToSet(<<Close>>)
    BY <1>4, <2>1, SendHolds
  <2> QED  BY <1>4, <2>1, <2>2
<1>9. phase \in [Sequences -> {"none", "hook", "children"}]
  BY DEF Inv, TypeOK
<1>10. /\ phase' \in [Sequences -> {"none", "hook", "children"}]
       /\ \A q \in Sequences : \/ phase'[q] = phase[q]
                               \/ phase'[q] = "hook" /\ q[1] \in created
  BY <1>1, <1>7, <1>9, EnterHooksKeeps
<1>11. TypeOK'
  BY <1>1, <1>2, <1>7, <1>10 DEF Inv, TypeOK, MailStep, BoxStep, WellFormed
<1>12. MailInv'
  BY <1>1, <1>7, <1>10 DEF Inv, MailInv, MailStep, BoxStep
<1>13. \A q \in Sequences : phase'[q] = "children" => AtChildren(q)'
  <2> SUFFICES ASSUME NEW q \in Sequences, phase'[q] = "children"
               PROVE  AtChildren(q)'
    OBVIOUS
  <2>1. phase[q] = "children"
    BY <1>10
  <2> QED  BY <1>1, <1>7, <2>1, AtChildrenKept
<1>14. TreeInv' /\ IndexInv' /\ ChildrenStopFirst'
  BY <1>1 DEF Inv, TreeInv, IndexInv, ChildrenStopFirst, Live
<1>15. CloseInv'
  <2>1. InOrder(Tail(toStop))
    <3>1. \A i, j \in 1..Len(Tail(toStop)) : i < j => i + 1 < j + 1
      BY <1>2
    <3> QED  BY <1>2, <3>1 DEF Inv, CloseInv, InOrder
  <2> QED  BY <1>1, <1>2, <2>1 DEF Inv, CloseInv, InOrder
<1>16. CloseInOrder'
  <2>1. \A b \in snapshot \ ToSet(toStop) : b \in closed
    <3>1. snapshot \subseteq Actors
      BY DEF Inv, TypeOK
    <3> QED  BY <1>1, <3>1 DEF Inv, CloseInOrder, Pending
  <2>2. AwaitsAnswer(a, Close)' \/ a \in closed
    BY <1>4, <1>8, AwaitedIsHeld DEF AwaitsAnswer
  <2>3. \A b \in ToSet(Tail(toStop)) : Group(a) <= Group(b)
    <3>1. ASSUME NEW b \in ToSet(Tail(toStop))  PROVE Group(a) <= Group(b)
      <4>1. PICK i \in 1..Len(Tail(toStop)) : Tail(toStop)[i] = b
        BY <1>2, QueueElements
      <4>2. 1 < i + 1 /\ i + 1 \in 1..Len(toStop) /\ toStop[i + 1] = b
        BY <1>2, <4>1
      <4> QED  BY <1>2, <4>2 DEF Inv, CloseInv, InOrder
    <3> QED  BY <3>1
  <2>4. \A b \in snapshot \ ToSet(Tail(toStop)) : b = a \/ b \in closed
    BY <1>2, <2>1
  <2> QED  BY <1>1, <2>2, <2>3, <2>4 DEF CloseInOrder
<1> QED  BY <1>11, <1>12, <1>13, <1>14, <1>15, <1>16 DEF Inv

LEMMA CloseEndsKeeps ==
    ASSUME Inv, CloseEnds
    PROVE  Inv'
<1>1. /\ closing = "closing" /\ closing' = "closed"
      /\ UNCHANGED <<created, directory, parent, children, late, closed, suspended,
                     mailbox, sent, supervisor, unheard, phase, left, finished,
                     toStop, snapshot>>
  BY DEF CloseEnds, treeVars, mailboxVars, supervisionVars, stopVars
<1>2. TypeOK' /\ MailInv' /\ TreeInv' /\ IndexInv' /\ CloseInv' /\ ChildrenStopFirst'
  BY <1>1 DEF Inv, TypeOK, MailInv, TreeInv, IndexInv, CloseInv, InOrder,
              ChildrenStopFirst, Live
<1>3. \A s \in Sequences : phase'[s] = "children" => AtChildren(s)'
  BY <1>1 DEF Inv, AtChildren
<1>4. CloseInOrder'
  BY <1>1, SameBoxes, CloseInOrderKept
<1> QED  BY <1>2, <1>3, <1>4 DEF Inv

-----------------------------------------------------------------------------
(* Together *)

LEMMA InvInit ==
    ASSUME Init
    PROVE  Inv
<1> DEFINE one == SetIn(EmptyDirectory, PrivateRoot, HashCode[PrivateRoot])
<1>1. /\ PrivateRoot \in Actors /\ PublicRoot \in Actors /\ PrivateRoot # PublicRoot
      /\ Type[PrivateRoot] # Type[PublicRoot] /\ Live = Roots
      /\ NoActor \notin Actors
  BY TreeAssumption DEF Init, Live, Roots
<1>2. /\ EmptyDirectory \in Directories
      /\ \A i \in Buckets : /\ ToSet(EmptyDirectory.buckets[i]) = {}
                            /\ IsInjective(EmptyDirectory.buckets[i])
      /\ \A t \in Types : EmptyDirectory.typeIndex[t] = NoActor
  BY EmptyQueue DEF EmptyDirectory, Directories
<1>3. Gains(EmptyDirectory, one, PrivateRoot)
  <2>1. Lacks(EmptyDirectory, PrivateRoot)
    BY <1>2 DEF Lacks
  <2> QED  BY <1>1, <1>2, <2>1, AddedToDirectory
<1>4. directory = SetIn(one, PublicRoot, HashCode[PublicRoot])
  BY DEF Init
<1> HIDE DEF one
<1>5. Gains(one, directory, PublicRoot)
  <2>1. Lacks(one, PublicRoot) /\ one \in Directories
    BY <1>1, <1>2, <1>3 DEF Lacks, Gains
  <2> QED  BY <1>1, <1>4, <2>1, AddedToDirectory
<1>6. /\ directory \in Directories
      /\ \A i \in Buckets :
            /\ IsInjective(directory.buckets[i])
            /\ ToSet(directory.buckets[i]) =
                  {a \in Roots : BucketFor(HashCode[a]) = i}
      /\ \A t \in Types : directory.typeIndex[t] =
                             IF t = Type[PublicRoot] THEN PublicRoot
                             ELSE IF t = Type[PrivateRoot] THEN PrivateRoot
                             ELSE NoActor
  <2>1. ASSUME NEW i \in Buckets
        PROVE  ToSet(directory.buckets[i]) = {a \in Roots : BucketFor(HashCode[a]) = i}
    <3>1. /\ ToSet(one.buckets[i]) = IF i = BucketFor(HashCode[PrivateRoot])
                                     THEN {PrivateRoot} ELSE {}
          /\ ToSet(directory.buckets[i]) = IF i = BucketFor(HashCode[PublicRoot])
                                           THEN ToSet(one.buckets[i]) \cup {PublicRoot}
                                           ELSE ToSet(one.buckets[i])
      BY <1>2, <1>3, <1>5 DEF Gains
    <3> QED  BY <3>1 DEF Roots
  <2> QED  BY <1>2, <1>3, <1>5, <2>1 DEF Gains
<1>7. \A a \in Actors : /\ children[a] \in Seq(Actors) /\ IsInjective(children[a])
                        /\ ToSet(children[a]) = {b \in Live : parent[b] = a}
  <2> SUFFICES ASSUME NEW a \in Actors
               PROVE  /\ children[a] \in Seq(Actors) /\ IsInjective(children[a])
                      /\ ToSet(children[a]) = {b \in Live : parent[b] = a}
    OBVIOUS
  <2>1. /\ parent[PublicRoot] = PrivateRoot /\ parent[PrivateRoot] = NoActor
        /\ children[a] = IF a = PrivateRoot THEN <<PublicRoot>> ELSE <<>>
    BY <1>1 DEF Init
  <2>2. /\ <<PublicRoot>> \in Seq(Actors) /\ IsInjective(<<PublicRoot>>)
        /\ ToSet(<<PublicRoot>>) = {PublicRoot}
    BY <1>1, SingleQueue DEF IsInjective
  <2>3. CASE a = PrivateRoot
    BY <1>1, <2>1, <2>2, <2>3 DEF Roots
  <2>4. CASE a # PrivateRoot
    BY <1>1, <2>1, <2>4, EmptyQueue DEF Roots
  <2> QED  BY <2>3, <2>4
<1>8. \A a \in Actors : WellFormed(mailbox[a]) /\ Holds(mailbox[a]) = {}
  <2>1. \A a \in Actors : mailbox[a] =
           [queue |-> <<>>, handling |-> NoMessage, loop |-> "idle"]
    BY DEF Init
  <2> DEFINE box == [queue |-> <<>>, handling |-> NoMessage, loop |-> "idle"]
  <2>2. WellFormed(box)
    BY BoxType, EmptyQueue
  <2>3. Holds(box) = {}
    BY EmptyQueue DEF Holds
  <2> QED  BY <2>1, <2>2, <2>3
<1>9. TypeOK
  <2>1. mailbox \in [Actors -> Mailboxes]
    BY <1>8 DEF Init, WellFormed
  <2>2. children \in [Actors -> Seq(Actors)]
    BY <1>7 DEF Init
  <2>3. parent \in [Actors -> Actors \cup {NoActor}]
    BY <1>1 DEF Init
  <2>4. <<>> \in Seq(Actors)
    BY EmptyQueue
  <2> QED  BY <1>1, <1>6, <1>8, <2>1, <2>2, <2>3, <2>4 DEF Init, TypeOK, WellFormed
<1>10. MailInv
  BY <1>8 DEF Init, MailInv
<1>11. TreeInv
  <2>1. created = ({} \cup {PrivateRoot}) \cup {PublicRoot}
    BY DEF Init
  <2>2. IsFiniteSet({} \cup {PrivateRoot})
    BY FS_EmptySet, FS_AddElement
  <2>3. IsFiniteSet(created)
    BY <2>1, <2>2, FS_AddElement
  <2> QED  BY <1>1, <1>6, <1>7, <2>3 DEF Init, TreeInv, Roots
<1>12. IndexInv
  BY <1>1, <1>6 DEF Init, IndexInv, Roots
<1>13. CloseInv
  BY EmptyQueue DEF Init, CloseInv, InOrder
<1>14. ChildrenStopFirst /\ CloseInOrder
  BY DEF Init, ChildrenStopFirst, CloseInOrder
<1>15. \A s \in Sequences : phase[s] # "children"
  BY DEF Init
<1> QED  BY <1>9, <1>10, <1>11, <1>12, <1>13, <1>14, <1>15 DEF Inv

LEMMA InvStep ==
    ASSUME Inv, [Next]_vars
    PROVE  Inv'
<1>1. CASE UNCHANGED vars
  <2>1. Quiet
    BY <1>1, SameBoxes DEF vars, treeVars, mailboxVars, supervisionVars, stopVars,
                           stageVars, Quiet, Inv, TypeOK, IndexInv
  <2> QED  BY <2>1, QuietKeeps
<1>2. ASSUME NEW a \in Actors, ActorFor(a)  PROVE Inv'
  BY <1>2, ActorForKeeps
<1>3. ASSUME NEW a \in Actors, LoopReturns(a)  PROVE Inv'
  BY <1>3, LoopReturnsKeeps
<1>4. ASSUME NEW a \in Actors, Handler(a)  PROVE Inv'
  BY <1>4, HandlerEndsKeeps, HandlerFailsKeeps DEF Handler
<1>5. ASSUME NEW a \in Actors, TimerFires(a)  PROVE Inv'
  BY <1>5, TimerFiresKeeps
<1>6. ASSUME NEW a \in Actors, NEW s \in Actors, Directive(s, a)  PROVE Inv'
  BY <1>6, DecideResumeKeeps, DecideStopKeeps, DecideNothingKeeps DEF Directive
<1>7. ASSUME NEW a \in Actors, NEW m \in {Request, ClientStop, TimedStop},
             ClientSends(a, m)
      PROVE  Inv'
  BY <1>7, ClientSendsKeeps
<1>8. ASSUME NEW s \in Sequences, StopGoesOn(s)  PROVE Inv'
  BY <1>8, HookEndsKeeps, ChildAnswersKeeps DEF StopGoesOn
<1>9. CASE CloseBegins
  BY <1>9, CloseBeginsKeeps
<1>10. CASE CloseGoesOn
  BY <1>10, CloseStopsKeeps, CloseEndsKeeps DEF CloseGoesOn
<1> QED  BY <1>1, <1>2, <1>3, <1>4, <1>5, <1>6, <1>7, <1>8, <1>9, <1>10 DEF Next

(* The invariant that the others follow from. *)
THEOREM Invariant == Spec => []Inv
<1>1. Init => Inv
  BY InvInit
<1>2. Inv /\ [Next]_vars => Inv'
  BY InvStep
<1> QED  BY <1>1, <1>2, PTL DEF Spec

(* The types of the variables are those that TypeOK says. *)
THEOREM TypeCorrect == Spec => []TypeOK
<1>1. Inv => TypeOK
  BY DEF Inv
<1> QED  BY <1>1, Invariant, PTL

(* LifeCycle.stop() runs afterStop() of an actor only when every child that  *)
(* it had when it began to stop them is closed.                              *)
THEOREM ChildrenStopFirstHolds == Spec => []ChildrenStopFirst
<1>1. Inv => ChildrenStopFirst
  BY DEF Inv
<1> QED  BY <1>1, Invariant, PTL

(* LocalStage.close() has sent at most one stop() message to an open actor,  *)
(* and goes through the groups in their order.                               *)
THEOREM CloseInOrderHolds == Spec => []CloseInOrder
<1>1. Inv => CloseInOrder
  BY DEF Inv
<1> QED  BY <1>1, Invariant, PTL

-----------------------------------------------------------------------------
(* Directory, index and children agree *)

LEMMA FoundIsLive ==
    ASSUME Inv, NEW a \in Actors
    PROVE  Found(a) <=> a \in Live
<1> DEFINE i == BucketFor(HashCode[a])
<1>1. i \in Buckets
  BY HashBucket
<1>2. a \in ToSet(directory.buckets[i]) <=> a \in Live
  BY <1>1 DEF Inv, TreeInv
<1> QED  BY <1>2 DEF Found, GetFrom, Contains, ToSet

(* The entries of the buckets stand for the live actors, one to one. *)
LEMMA SizeIsLive ==
    ASSUME Inv
    PROVE  SizeOf(directory) = Cardinality(Live)
<1> DEFINE buckets == directory.buckets
           E == Entries(directory)
           f == [e \in E |-> buckets[e[1]][e[2]]]
<1>1. \A i \in Buckets :
         /\ buckets[i] \in Seq(Actors) /\ IsInjective(buckets[i])
         /\ ToSet(buckets[i]) = {a \in Live : BucketFor(HashCode[a]) = i}
  BY DEF Inv, TypeOK, Directories, TreeInv
<1>2. \A e \in E : /\ e = <<e[1], e[2]>> /\ e[1] \in Buckets
                   /\ e[2] \in DOMAIN buckets[e[1]]
  BY DEF Entries
<1>3. \A i \in Buckets : \A k \in DOMAIN buckets[i] : <<i, k>> \in E
  BY DEF Entries
<1> HIDE DEF E, buckets
<1>4. \A e \in E : f[e] \in Live /\ BucketFor(HashCode[f[e]]) = e[1]
  <2>1. \A i \in Buckets : \A k \in DOMAIN buckets[i] :
           buckets[i][k] \in Live /\ BucketFor(HashCode[buckets[i][k]]) = i
    BY <1>1 DEF ToSet
  <2> QED  BY <1>2, <2>1
<1>5. ASSUME NEW d \in E, NEW e \in E, f[d] = f[e]  PROVE d = e
  <2>1. d[1] = e[1]
    BY <1>4, <1>5
  <2>2. /\ f[d] = buckets[d[1]][d[2]] /\ f[e] = buckets[e[1]][e[2]]
    OBVIOUS
  <2> HIDE DEF f
  <2>3. \A i \in Buckets : \A k, l \in DOMAIN buckets[i] :
           buckets[i][k] = buckets[i][l] => k = l
    BY <1>1 DEF IsInjective
  <2>4. d[2] = e[2]
    <3> DEFINE i == d[1]
               k == d[2]
               l == e[2]
    <3>1. i \in Buckets /\ k \in DOMAIN buckets[i] /\ l \in DOMAIN buckets[i]
      BY <1>2, <2>1
    <3>2. buckets[i][k] = buckets[i][l]
      BY <1>5, <2>1, <2>2
    <3> HIDE DEF i, k, l
    <3>3. k = l
      BY <2>3, <3>1, <3>2
    <3> QED  BY <3>3 DEF k, l
  <2> QED  BY <1>2, <2>1, <2>4
<1>6. ASSUME NEW a \in Live  PROVE \E e \in E : f[e] = a
  <2> DEFINE i == BucketFor(HashCode[a])
  <2>1. i \in Buckets
    BY HashBucket DEF Inv, TypeOK, Live
  <2>2. PICK k \in DOMAIN buckets[i] : buckets[i][k] = a
    BY <1>1, <2>1 DEF ToSet
  <2>3. <<i, k>> \in E
    BY <1>3, <2>1, <2>2
  <2> QED  BY <2>2, <2>3
<1> HIDE DEF f
<1>7. f \in Injection(E, Live) /\ f \in Surjection(E, Live)
  <2>1. f \in [E -> Live]
    BY <1>4 DEF f
  <2>2. \A d, e \in E : f[d] = f[e] => d = e
    BY <1>5
  <2> QED  BY <1>6, <2>1, <2>2 DEF Injection, Surjection, IsInjective
<1>8. IsFiniteSet(Live)
  BY FS_Subset DEF Inv, TreeInv, Live
<1>9. Cardinality(E) = Cardinality(Live)
  BY <1>7, <1>8, FS_Injection
<1> QED  BY <1>9 DEF SizeOf, E

LEMMA InvImpliesTreeAgrees ==
    ASSUME Inv
    PROVE  TreeAgrees
<1>1. Live = created \ finished /\ finished \subseteq closed
  BY DEF Live, Inv, TreeInv
<1>2. \A a \in Actors : Found(a) <=> a \in created \ finished
  BY <1>1, FoundIsLive
<1>3. SizeOf(directory) = Cardinality(created \ finished)
  BY <1>1, SizeIsLive
<1>4. \A t \in Types : FindByType(directory, t) \notin finished
  BY <1>1 DEF FindByType, Inv, TypeOK, IndexInv
<1>5. ASSUME NEW p \in Actors
      PROVE  LET its == {a \in created \ finished : parent[a] = p}
             IN  ToSet(children[p]) = its /\ Len(children[p]) = Cardinality(its)
  <2> DEFINE q == children[p]
             its == {a \in created \ finished : parent[a] = p}
  <2>1. q \in Seq(Actors) /\ IsInjective(q) /\ ToSet(q) = its
    BY <1>1 DEF Inv, TypeOK, TreeInv
  <2> HIDE DEF q, its
  <2>2. Cardinality(ToSet(q)) = Len(q)
    BY <2>1, InjectiveQueueLength
  <2> QED  BY <2>1, <2>2 DEF q, its
<1> QED  BY <1>1, <1>2, <1>3, <1>4, <1>5 DEF TreeAgrees

(* get() and size() of the directory, its index, and the children of the     *)
(* parents agree on the actors that have not run afterStop().                *)
THEOREM TreeAgreesHolds == Spec => []TreeAgrees
<1>1. Inv => TreeAgrees
  BY InvImpliesTreeAgrees
<1> QED  BY <1>1, Invariant, PTL

LEMMA OnlyEndsUnindex ==
    ASSUME Inv, [Next]_vars
    PROVE  \/ directory' = directory
           \/ \E a \in Actors : directory' = SetIn(directory, a, HashCode[a])
           \/ \E a \in Actors : /\ finished' = finished \cup {a}
                                /\ created' = created
                                /\ directory' = RemoveFrom(directory, a, HashCode[a])
<1>1. ASSUME NEW s \in Sequences, NEW cs, StopNext(s, cs)
      PROVE  \/ directory' = directory
             \/ \E a \in Actors : /\ finished' = finished \cup {a}
                                  /\ created' = created
                                  /\ directory' = RemoveFrom(directory, a, HashCode[a])
  <2>1. s[1] \in Actors
    BY DEF Sequences
  <2> QED  BY <1>1, <2>1 DEF StopNext, Finish
<1>2. ASSUME NEW s \in Sequences, StopGoesOn(s)
      PROVE  \E cs : StopNext(s, cs)
  BY <1>2 DEF StopGoesOn, HookEnds, ChildAnswers
<1>3. ASSUME NEW a \in Actors, ActorFor(a)
      PROVE  directory' = SetIn(directory, a, HashCode[a])
  BY <1>3 DEF ActorFor
<1>4. ASSUME NEW a \in Actors, \/ LoopReturns(a) \/ Handler(a) \/ TimerFires(a)
      PROVE  directory' = directory
  BY <1>4 DEF LoopReturns, Handler, HandlerEnds, HandlerFails, TimerFires, Fails, treeVars
<1>5. ASSUME NEW a \in Actors, NEW s \in Actors, Directive(s, a)
      PROVE  directory' = directory
  BY <1>5 DEF Directive, DecideResume, DecideStop, DecideNothing, Decide, treeVars
<1>6. ASSUME NEW a \in Actors, NEW m, ClientSends(a, m)
      PROVE  directory' = directory
  BY <1>6 DEF ClientSends, treeVars
<1>7. ASSUME CloseBegins \/ CloseGoesOn
      PROVE  directory' = directory
  BY <1>7 DEF CloseBegins, CloseGoesOn, CloseStops, CloseEnds, treeVars
<1>8. ASSUME UNCHANGED vars
      PROVE  directory' = directory
  BY <1>8 DEF vars, treeVars
<1> QED  BY <1>1, <1>2, <1>3, <1>4, <1>5, <1>6, <1>7, <1>8 DEF Next

LEMMA UnindexedActor ==
    ASSUME Inv, [Next]_vars, NEW t \in Types,
           FindByType(directory, t) # NoActor, FindByType(directory', t) = NoActor
    PROVE  \E a \in Actors : Found(a) /\ ~Found(a)' /\ Type[a] = t
<1>1. Inv'
  BY InvStep
<1>2. directory' # directory
  OBVIOUS
<1>3. ASSUME NEW a \in Actors, directory' = SetIn(directory, a, HashCode[a])
      PROVE  FALSE
  <2>1. directory.typeIndex \in [Types -> Actors \cup {NoActor}]
    BY DEF Inv, TypeOK, Directories
  <2>2. directory'.typeIndex = [directory.typeIndex EXCEPT ![Type[a]] = a]
    BY <1>3 DEF SetIn
  <2> QED  BY <2>1, <2>2 DEF FindByType
<1>4. ASSUME NEW a \in Actors, finished' = finished \cup {a}, created' = created,
             directory' = RemoveFrom(directory, a, HashCode[a])
      PROVE  Found(a) /\ ~Found(a)' /\ Type[a] = t
  <2>1. directory'.typeIndex[t] = IF t = Type[a] /\ a \in Live THEN NoActor
                                  ELSE directory.typeIndex[t]
    BY <1>4, RemovedFromDirectory
  <2>2. t = Type[a] /\ a \in Live
    BY <2>1 DEF FindByType
  <2>3. Found(a)
    BY <2>2, FoundIsLive
  <2>4. ~Found(a)'
    <3>1. \A i \in Buckets : ToSet(directory'.buckets[i]) = ToSet(directory.buckets[i]) \ {a}
      BY <1>4, RemovedFromDirectory
    <3>2. a \notin ToSet(directory'.buckets[BucketFor(HashCode[a])])
      BY <3>1, HashBucket
    <3> QED  BY <3>2 DEF Found, GetFrom, Contains, ToSet
  <2> QED  BY <2>2, <2>3, <2>4
<1> QED  BY <1>2, <1>3, <1>4, OnlyEndsUnindex

(* Directory.remove() of an actor that has left the directory before, by     *)
(* another of its stop sequences, leaves the index by type alone.            *)
THEOREM IndexOutlivesSecondStopHolds == Spec => IndexOutlivesSecondStop
<1>1. Inv /\ [Next]_vars =>
         [\A t \in Types : /\ FindByType(directory, t) # NoActor
                           /\ FindByType(directory', t) = NoActor
                           => \E a \in Actors : Found(a) /\ ~Found(a)' /\ Type[a] = t]_vars
  BY UnindexedActor
<1> QED  BY <1>1, Invariant, PTL DEF Spec, IndexOutlivesSecondStop

-----------------------------------------------------------------------------
(* Failures are heard *)

LEMMA FailsUnheard ==
    ASSUME Inv, FailuresAreHeard, SupervisorsExist, NEW a \in created, a \in Actors,
           NEW routes, Fails(a, routes), closed \subseteq closed'
    PROVE  FailuresAreHeard'
<1> DEFINE s == SupervisorOf(a)
           n == SupervisorName[a]
<1>1. unheard' = IF s \in closed \cup {NoActor} THEN unheard \cup {a} ELSE unheard
  BY DEF Fails
<1>2. s \in closed \cup {NoActor} => \E b \in closed : Type[b] = n
  <2>1. CASE s \in closed
    <3>1. s # NoActor
      BY <2>1, TreeAssumption DEF Inv, TypeOK
    <3> QED  BY <2>1, <3>1, SupervisorFound
  <2>2. CASE s = NoActor
    <3>1. n \in Types /\ directory.typeIndex[n] = NoActor
      BY <2>2, TreeAssumption DEF SupervisorOf, FindByType
    <3>2. \E b \in created : Type[b] = n
      BY TreeAssumption DEF SupervisorsExist, Inv, TreeInv, Roots
    <3>3. \E b \in finished : Type[b] = n
      BY <3>1, <3>2 DEF Inv, IndexInv
    <3> QED  BY <3>3 DEF Inv, TreeInv
  <2> QED  BY <2>1, <2>2
<1> HIDE DEF s, n
<1> QED  BY <1>1, <1>2 DEF FailuresAreHeard, n

LEMMA HeardStep ==
    ASSUME Inv, FailuresAreHeard, SupervisorsExist, [Next]_vars
    PROVE  FailuresAreHeard'
<1>1. ASSUME unheard' = unheard, closed \subseteq closed'
      PROVE  FailuresAreHeard'
  BY <1>1 DEF FailuresAreHeard
<1>2. ASSUME NEW a \in Actors, HandlerFails(a) \/ TimerFires(a)
      PROVE  FailuresAreHeard'
  <2>1. /\ mailbox[a].handling \in {Start, Request, TimedStop}
        /\ closed \subseteq closed' /\ \E routes : Fails(a, routes)
    BY <1>2 DEF HandlerFails, TimerFires
  <2>2. mailbox[a].handling # NoMessage
    BY <2>1, MessagesDiffer DEF Queued, Stops
  <2>3. a \in created
    BY <2>2 DEF Inv, MailInv, Holds
  <2> QED  BY <2>1, <2>3, FailsUnheard
<1>3. ASSUME NEW s \in Sequences, StopGoesOn(s)
      PROVE  unheard' = unheard /\ closed \subseteq closed'
  BY <1>3 DEF StopGoesOn, HookEnds, ChildAnswers, StopNext, Finish, supervisionVars
<1>4. ASSUME NEW a \in Actors, ActorFor(a) \/ LoopReturns(a) \/ HandlerEnds(a)
      PROVE  unheard' = unheard /\ closed \subseteq closed'
  BY <1>4 DEF ActorFor, LoopReturns, HandlerEnds, supervisionVars
<1>5. ASSUME NEW a \in Actors, NEW s \in Actors, Directive(s, a)
      PROVE  unheard' = unheard /\ closed \subseteq closed'
  BY <1>5 DEF Directive, DecideResume, DecideStop, DecideNothing, Decide,
              supervisionVars
<1>6. ASSUME NEW a \in Actors, NEW m, ClientSends(a, m)
      PROVE  unheard' = unheard /\ closed \subseteq closed'
  BY <1>6 DEF ClientSends, supervisionVars
<1>7. ASSUME CloseBegins \/ CloseGoesOn
      PROVE  unheard' = unheard /\ closed \subseteq closed'
  BY <1>7 DEF CloseBegins, CloseGoesOn, CloseStops, CloseEnds, supervisionVars,
              mailboxVars
<1>8. ASSUME UNCHANGED vars
      PROVE  unheard' = unheard /\ closed \subseteq closed'
  BY <1>8 DEF vars, supervisionVars, mailboxVars
<1> HIDE DEF FailuresAreHeard
<1> QED  BY <1>1, <1>2, <1>3, <1>4, <1>5, <1>6, <1>7, <1>8 DEF Next, Handler

(* If the supervisor of every actor is a root or its creator, a failure that *)
(* nobody is told of means that an actor of the supervisor's type has        *)
(* stopped: a lookup by type fails for no other reason.                      *)
THEOREM FailuresAreHeardHolds ==
    ASSUME SupervisorsExist
    PROVE  Spec => []FailuresAreHeard
<1>1. Init => FailuresAreHeard
  BY DEF Init, FailuresAreHeard
<1>2. Inv /\ FailuresAreHeard /\ [Next]_vars => FailuresAreHeard'
  BY HeardStep
<1> QED  BY <1>1, <1>2, Invariant, PTL DEF Spec

-----------------------------------------------------------------------------
(* Lives *)

(* The handler of a stop() message ends only by closing its actor, so that   *)
(* no second one takes over its sequence.                                    *)
InStop(a) == a \in closed \/ mailbox[a].handling \in Stops

RunsInv == \A a \in Actors : phase[<<a, "message">>] # "none" => InStop(a)

LEMMA BusyBox ==
    ASSUME NEW box, WellFormed(box), box.handling # NoMessage, NEW b, NEW messages
    PROVE  Send(b, box, messages).handling = box.handling
  BY BoxType DEF Send

LEMMA StopHandled ==
    ASSUME Inv, [Next]_vars, NEW b \in Actors, mailbox[b].handling \in Stops
    PROVE  b \in closed' \/ mailbox'[b].handling = mailbox[b].handling
<1>1. /\ WellFormed(mailbox[b]) /\ mailbox[b].loop = "awaiting"
      /\ mailbox[b].handling # NoMessage
      /\ mailbox[b].handling \notin {Start, Request} \cup Informs
      /\ b \in created
  <2>1. /\ WellFormed(mailbox[b])
        /\ mailbox[b].handling \notin {Start, Request, NoMessage} \cup Informs
    BY BoxesWellFormed, MessagesDiffer DEF Queued
  <2> QED  BY <2>1 DEF WellFormed, Inv, MailInv, Holds
<1>2. \A c, messages : Send(c, mailbox[b], messages).handling = mailbox[b].handling
  BY <1>1, BusyBox
<1>3. ASSUME NEW a \in Actors, NEW box, mailbox' = [mailbox EXCEPT ![a] = box],
             a # b \/ box.handling = mailbox[b].handling
      PROVE  mailbox'[b].handling = mailbox[b].handling
  BY <1>3, OneBox
<1>4. ASSUME NEW a \in Actors, ActorFor(a)
      PROVE  mailbox'[b].handling = mailbox[b].handling
  <2>1. a # b
    BY <1>1, <1>4 DEF ActorFor
  <2> QED  BY <1>4, <2>1 DEF ActorFor, Inv, TypeOK
<1>5. ASSUME NEW a \in Actors, LoopReturns(a)
      PROVE  mailbox'[b].handling = mailbox[b].handling
  <2>1. a # b
    BY <1>1, <1>5 DEF LoopReturns
  <2> QED  BY <1>3, <1>5, <2>1 DEF LoopReturns
<1>6. ASSUME NEW a \in Actors, NEW n, Fails(a, n), a # b
      PROVE  mailbox'[b].handling = mailbox[b].handling
  <2> DEFINE s == SupervisorOf(a)
             informs == [i \in 1 .. n |-> Inform(a)]
             told == IF s = NoActor THEN mailbox
                     ELSE [mailbox EXCEPT ![s] = Send(s, @, informs)]
  <2>1. mailbox' = [told EXCEPT ![a] = Answered(@)]
    BY <1>6 DEF Fails
  <2> HIDE DEF s, informs
  <2>2. told[b].handling = mailbox[b].handling
    BY <1>2 DEF Inv, TypeOK
  <2>3. DOMAIN told = Actors
    BY DEF Inv, TypeOK
  <2> HIDE DEF told
  <2> QED  BY <1>6, <2>1, <2>2, <2>3
<1>7. ASSUME NEW a \in Actors, Handler(a)
      PROVE  mailbox'[b].handling = mailbox[b].handling
  <2>1. a # b
    BY <1>1, <1>7 DEF Handler, HandlerEnds, HandlerFails
  <2> QED  BY <1>3, <1>6, <1>7, <2>1 DEF Handler, HandlerEnds, HandlerFails
<1>8. ASSUME NEW a \in Actors, TimerFires(a)
      PROVE  b \in closed' \/ mailbox'[b].handling = mailbox[b].handling
  BY <1>6, <1>8 DEF TimerFires
<1>9. ASSUME NEW a \in Actors, NEW s \in Actors, Directive(s, a)
      PROVE  mailbox'[b].handling = mailbox[b].handling
  <2>1. s # b
    BY <1>1, <1>9 DEF Directive, DecideResume, DecideStop, DecideNothing, Decide, Informs
  <2>2. CASE DecideStop(s, a) \/ DecideNothing(s, a)
    BY <1>3, <2>1, <2>2 DEF DecideStop, DecideNothing
  <2>3. CASE DecideResume(s, a)
    <3> DEFINE answered == [mailbox EXCEPT ![s] = Answered(@)]
    <3>1. mailbox' = [answered EXCEPT
             ![a] = IF @.loop = "idle" THEN Dispatch(@, a \notin closed) ELSE @]
      BY <2>3 DEF DecideResume
    <3>2. answered[b] = mailbox[b] /\ DOMAIN answered = Actors
      BY <2>1 DEF Inv, TypeOK
    <3> HIDE DEF answered
    <3> QED  BY <1>1, <3>1, <3>2
  <2> QED  BY <1>9, <2>2, <2>3 DEF Directive
<1>10. ASSUME NEW a \in Actors, NEW m, ClientSends(a, m)
       PROVE  mailbox'[b].handling = mailbox[b].handling
  BY <1>2, <1>3, <1>10 DEF ClientSends
<1>11. ASSUME NEW s \in Sequences, StopGoesOn(s)
       PROVE  b \in closed' \/ mailbox'[b].handling = mailbox[b].handling
  <2>1. PICK cs : StopNext(s, cs) /\ (cs # <<>> => Head(cs) \in Actors)
    <3>1. CASE HookEnds(s)
      <4>1. StopNext(s, children[s[1]]) /\ children[s[1]] \in Seq(Actors)
        BY <3>1 DEF HookEnds, Inv, TypeOK, Sequences
      <4> QED  BY <4>1, QueueBegins
    <3>2. CASE ChildAnswers(s)
      <4>1. StopNext(s, Tail(left[s])) /\ left[s] \in Seq(Actors) /\ left[s] # <<>>
        BY <3>2 DEF ChildAnswers, Inv, TypeOK, AtChildren
      <4>2. Tail(left[s]) \in Seq(Actors)
        BY <4>1, QueueBegins
      <4> QED  BY <4>1, <4>2, QueueBegins
    <3> QED  BY <1>11, <3>1, <3>2 DEF StopGoesOn
  <2>2. CASE Finish(s)
    <3>1. s[1] \in Actors
      BY DEF Sequences
    <3> QED  BY <1>3, <2>2, <3>1 DEF Finish, StopAnswered
  <2>3. CASE /\ cs # <<>>
             /\ mailbox' = [mailbox EXCEPT ![Head(cs)] = Send(Head(cs), @, <<s>>)]
    BY <1>2, <1>3, <2>1, <2>3
  <2> QED  BY <2>1, <2>2, <2>3 DEF StopNext
<1>12. CASE CloseBegins
  BY <1>12 DEF CloseBegins, mailboxVars
<1>13. CASE CloseGoesOn
  <2>1. ASSUME NEW a \in Actors, CloseStops(a)
        PROVE  mailbox'[b].handling = mailbox[b].handling
    <3>1. mailbox' = [mailbox EXCEPT ![a] = Send(a, mailbox[a], <<Close>>)]
      BY <2>1 DEF CloseStops
    <3>2. a = b => Send(a, mailbox[a], <<Close>>).handling = mailbox[b].handling
      BY <1>2
    <3> QED  BY <1>3, <3>1, <3>2
  <2> QED  BY <1>13, <2>1 DEF CloseGoesOn, CloseEnds, mailboxVars
<1>14. CASE UNCHANGED vars
  BY <1>14 DEF vars, mailboxVars
<1> QED  BY <1>4, <1>5, <1>7, <1>8, <1>9, <1>10, <1>11, <1>12, <1>13, <1>14 DEF Next

LEMMA ClosedGrows ==
    ASSUME [Next]_vars
    PROVE  closed \subseteq closed'
<1>1. ASSUME NEW a \in Actors, \/ ActorFor(a) \/ LoopReturns(a) \/ TimerFires(a)
                               \/ HandlerEnds(a)
      PROVE  closed \subseteq closed'
  BY <1>1 DEF ActorFor, LoopReturns, TimerFires, HandlerEnds
<1>2. ASSUME NEW a \in Actors, HandlerFails(a)
      PROVE  closed \subseteq closed'
  BY <1>2 DEF HandlerFails
<1>3. ASSUME NEW a \in Actors, NEW s \in Actors, Directive(s, a)
      PROVE  closed' = closed
  BY <1>3 DEF Directive, DecideResume, DecideStop, DecideNothing, Decide
<1>4. ASSUME NEW a \in Actors, NEW m, ClientSends(a, m)
      PROVE  closed' = closed
  BY <1>4 DEF ClientSends
<1>5. ASSUME NEW s \in Sequences, StopGoesOn(s)
      PROVE  closed \subseteq closed'
  BY <1>5 DEF StopGoesOn, HookEnds, ChildAnswers, StopNext, Finish
<1>6. CASE CloseBegins \/ CloseGoesOn \/ UNCHANGED vars
  BY <1>6 DEF CloseBegins, CloseGoesOn, CloseStops, CloseEnds, vars, mailboxVars
<1> QED  BY <1>1, <1>2, <1>3, <1>4, <1>5, <1>6 DEF Next, Handler

LEMMA InStopLasts ==
    ASSUME Inv, [Next]_vars, NEW a \in Actors, InStop(a)
    PROVE  InStop(a)'
  BY ClosedGrows, StopHandled DEF InStop

(* The sequence of a stop() message enters its hook; no other sequence of    *)
(* this name is under way unless the actor is closed.                        *)
Hooked(q) == /\ q[2] = "message" /\ mailbox'[q[1]].handling \in Stops
             /\ phase'[q] = "hook"
             /\ q[1] \in closed \/ phase[q] = "none"

LEMMA HookEntered ==
    ASSUME RunsInv, NEW STATE phases, EnterHooks(phases), NEW q \in Sequences
    PROVE  phase'[q] = phases[q] \/ Hooked(q)
<1>1. q[1] \in Actors /\ q = <<q[1], q[2]>>
  BY DEF Sequences
<1>2. phase'[q] = IF /\ q[2] = "message"
                     /\ mailbox[q[1]].handling \notin Stops
                     /\ mailbox'[q[1]].handling \in Stops
                  THEN "hook" ELSE phases[q]
  BY DEF EnterHooks
<1>3. CASE /\ q[2] = "message"
           /\ mailbox[q[1]].handling \notin Stops
           /\ mailbox'[q[1]].handling \in Stops
  <2>1. q[1] \in closed \/ phase[q] = "none"
    BY <1>1, <1>3 DEF RunsInv, InStop
  <2> QED  BY <1>2, <1>3, <2>1 DEF Hooked
<1> QED  BY <1>2, <1>3

(* What each step does to the sequences. *)
LEMMA PhaseMoves ==
    ASSUME Inv, RunsInv, [Next]_vars, NEW q \in Sequences
    PROVE  \/ phase'[q] = phase[q]
           \/ Hooked(q)
           \/ phase[q] = "none" /\ q[2] \in Directives /\ phase'[q] = "hook"
           \/ phase[q] # "none" /\ StopGoesOn(q)
<1>0. phase \in [Sequences -> {"none", "hook", "children"}]
  BY DEF Inv, TypeOK
<1>1. ASSUME NEW a \in Actors, \/ ActorFor(a) \/ TimerFires(a) \/ Handler(a)
      PROVE  phase' = phase
  BY <1>1 DEF ActorFor, TimerFires, Handler, HandlerEnds, HandlerFails, Fails, stopVars
<1>2. ASSUME EnterHooks(phase)
      PROVE  phase'[q] = phase[q] \/ Hooked(q)
  BY <1>2, HookEntered
<1>3. ASSUME NEW a \in Actors, NEW s \in Actors, Directive(s, a)
      PROVE  \/ phase'[q] = phase[q]
             \/ Hooked(q)
             \/ phase[q] = "none" /\ q[2] \in Directives /\ phase'[q] = "hook"
  <2>1. CASE DecideResume(s, a)
    BY <1>2, <2>1 DEF DecideResume
  <2>2. CASE DecideStop(s, a)
    <3>1. CASE UNCHANGED phase
      BY <3>1
    <3>2. ASSUME NEW way \in Directives, phase[<<a, way>>] = "none",
                 phase' = [phase EXCEPT ![<<a, way>>] = "hook"]
          PROVE  \/ phase'[q] = phase[q]
                 \/ phase[q] = "none" /\ q[2] \in Directives /\ phase'[q] = "hook"
      BY <1>0, <3>2
    <3> QED  BY <2>2, <3>1, <3>2 DEF DecideStop
  <2>3. CASE DecideNothing(s, a)
    BY <2>3 DEF DecideNothing
  <2> QED  BY <1>3, <2>1, <2>2, <2>3 DEF Directive
<1>4. ASSUME NEW s \in Sequences, StopGoesOn(s)
      PROVE  \/ phase'[q] = phase[q]
             \/ Hooked(q)
             \/ phase[q] # "none" /\ StopGoesOn(q)
  <2>1. PICK cs : StopNext(s, cs) /\ phase[s] # "none"
    BY <1>4 DEF StopGoesOn, HookEnds, ChildAnswers
  <2>2. CASE Finish(s)
    BY <1>0, <1>4, <2>1, <2>2 DEF Finish
  <2>3. CASE EnterHooks([phase EXCEPT ![s] = "children"])
    <3> DEFINE phases == [phase EXCEPT ![s] = "children"]
    <3>1. phase'[q] = phases[q] \/ Hooked(q)
      BY <2>3, HookEntered
    <3> QED  BY <1>0, <1>4, <2>1, <3>1
  <2> QED  BY <2>1, <2>2, <2>3 DEF StopNext
<1>5. CASE CloseBegins \/ CloseEnds \/ UNCHANGED vars
  BY <1>5 DEF CloseBegins, CloseEnds, vars, stopVars
<1>6. ASSUME NEW a \in Actors, \/ LoopReturns(a) \/ CloseStops(a)
                               \/ \E m : ClientSends(a, m)
      PROVE  EnterHooks(phase)
  BY <1>6 DEF LoopReturns, CloseStops, ClientSends
<1> QED  BY <1>1, <1>2, <1>3, <1>4, <1>5, <1>6 DEF Next, CloseGoesOn

LEMMA RunsStep ==
    ASSUME Inv, RunsInv, [Next]_vars
    PROVE  RunsInv'
<1> SUFFICES ASSUME NEW a \in Actors, phase'[<<a, "message">>] # "none"
             PROVE  InStop(a)'
  BY DEF RunsInv
<1> DEFINE q == <<a, "message">>
<1>1. q \in Sequences /\ q[1] = a /\ q[2] \notin Directives
  BY DEF Sequences, Directives
<1>2. CASE phase[q] # "none"
  BY <1>2, InStopLasts DEF RunsInv
<1>3. CASE phase[q] = "none"
  <2>1. Hooked(q)
    BY <1>1, <1>3, PhaseMoves
  <2> QED  BY <1>1, <2>1 DEF Hooked, InStop
<1> QED  BY <1>2, <1>3

(* An actor is leaving when a sequence of it begins with its children. *)
LEMMA LeavingStays ==
    ASSUME closed' = closed,
           \A q \in Sequences : \/ phase'[q] = phase[q]
                                \/ q[1] \in closed
                                \/ phase[q] # "children" /\ phase'[q] # "children"
    PROVE  Leaving' = Leaving
<1> DEFINE AtTheirs == {a \in Actors :
                           \E q \in Sequences : q[1] = a /\ phase[q] = "children"}
<1>1. \A a \in Actors \ closed : a \in AtTheirs' <=> a \in AtTheirs
  OBVIOUS
<1>2. Leaving = closed \cup AtTheirs /\ Leaving' = closed \cup AtTheirs'
  BY DEF Leaving
<1>3. AtTheirs \subseteq Actors /\ AtTheirs' \subseteq Actors
  OBVIOUS
<1> HIDE DEF AtTheirs
<1> QED  BY <1>1, <1>2, <1>3

LEMMA LeavingGrows ==
    ASSUME NEW s \in Sequences, closed \subseteq closed',
           closed' \subseteq closed \cup {s[1]},
           s[1] \in closed' \/ phase'[s] = "children",
           \A q \in Sequences \ {s} : \/ phase'[q] = phase[q]
                                      \/ q[1] \in closed
                                      \/ phase[q] # "children" /\ phase'[q] # "children"
    PROVE  Leaving' = Leaving \cup {s[1]}
<1> DEFINE AtTheirs == {a \in Actors :
                           \E q \in Sequences : q[1] = a /\ phase[q] = "children"}
<1>1. \A a \in Actors \ (closed \cup {s[1]}) : a \in AtTheirs' <=> a \in AtTheirs
  OBVIOUS
<1>2. Leaving = closed \cup AtTheirs /\ Leaving' = closed' \cup AtTheirs'
  BY DEF Leaving
<1>3. AtTheirs \subseteq Actors /\ AtTheirs' \subseteq Actors
  OBVIOUS
<1>4. s[1] \in closed' \/ s[1] \in AtTheirs'
  BY DEF Sequences
<1> HIDE DEF AtTheirs
<1> QED  BY <1>1, <1>2, <1>3, <1>4

LEMMA SameLives ==
    ASSUME Inv, RunsInv, [Next]_vars,
           UNCHANGED <<created, parent, closed, late, finished>>,
           \A q \in Sequences : ~StopGoesOn(q)
    PROVE  UNCHANGED Lives!vars
<1>1. Leaving' = Leaving
  <2>1. ASSUME NEW q \in Sequences
        PROVE  \/ phase'[q] = phase[q]
               \/ q[1] \in closed
               \/ phase[q] # "children" /\ phase'[q] # "children"
    BY <2>1, PhaseMoves DEF Hooked
  <2> QED  BY <2>1, LeavingStays
<1> QED  BY <1>1 DEF Lives!vars

(* Creation gives an actor a live parent, or none if there is no default,    *)
(* unless the caller names another one.                                      *)
LEMMA ActorForCreates ==
    ASSUME Inv, NEW a \in Actors, ActorFor(a)
    PROVE  Lives!Create(a)
<1>1. PICK p \in ParentsFor(a) :
      /\ a \notin created /\ created' = created \cup {a}
      /\ parent' = [parent EXCEPT ![a] = p]
      /\ late' = IF p \in closed
                       \/ \E s \in Sequences : s[1] = p /\ phase[s] = "children"
                 THEN late \cup {a} ELSE late
      /\ UNCHANGED <<closed, phase, finished>>
  BY DEF ActorFor, stopVars
<1>2. p \in Lives!Alive \cup {NoActor} \cup (Named[a] \cap created)
  BY ParentIsLive DEF ParentsFor, Live, Lives!Alive
<1>3. p = NoActor => PublicRoot \in finished
  <2>1. DefaultParent = NoActor => PublicRoot \in finished
    BY TreeAssumption DEF DefaultParent
  <2>2. p = NoActor => p = ParentFor(a)
    BY DirectoryAssumption DEF ParentsFor, Inv, TypeOK
  <2>3. \/ ParentFor(a) = DefaultParent
        \/ ParentFor(a) = Creator[a] /\ Creator[a] # NoActor
    BY DEF ParentFor
  <2> QED  BY <2>1, <2>2, <2>3
<1>4. Leaving' = Leaving
  BY <1>1, LeavingStays
<1>5. p \in Leaving <=> \/ p \in closed
                        \/ \E s \in Sequences : s[1] = p /\ phase[s] = "children"
  BY DEF Leaving, Sequences
<1> QED  BY <1>1, <1>2, <1>3, <1>4, <1>5 DEF Lives!Create

(* The timer closes an actor while its stop sequence goes on. *)
LEMMA TimerTimesOut ==
    ASSUME Inv, NEW a \in Actors, TimerFires(a)
    PROVE  Lives!TimeOut(a) \/ UNCHANGED Lives!vars
<1>1. /\ closed' = closed \cup {a} /\ mailbox[a].handling = TimedStop
      /\ UNCHANGED <<created, parent, late, phase, finished>>
  BY DEF TimerFires, Fails, treeVars, stopVars
<1>2. a \in created /\ finished \subseteq closed
  <2>1. TimedStop \in Stops /\ TimedStop # NoMessage
    BY MessagesDiffer DEF Stops, Queued
  <2> QED  BY <1>1, <2>1 DEF Inv, MailInv, TreeInv, Holds
<1>3. Leaving' = Leaving \cup {a}
  <2> DEFINE s == <<a, "message">>
  <2>1. s \in Sequences /\ s[1] = a
    BY DEF Sequences
  <2> HIDE DEF s
  <2> QED  BY <1>1, <2>1, LeavingGrows
<1>4. CASE a \in closed
  BY <1>1, <1>3, <1>4 DEF Lives!vars, Leaving
<1>5. CASE a \notin closed
  BY <1>1, <1>2, <1>3, <1>5 DEF Lives!TimeOut, Lives!Alive
<1> QED  BY <1>4, <1>5

(* The end of a stop sequence is the end of its actor, unless it was ended   *)
(* before; the children left have been stopped by then.                      *)
LEMMA FinishEnds ==
    ASSUME Inv, NEW s \in Sequences, Finish(s), s[1] \in created,
           ToSet(children[s[1]]) \subseteq closed \cup late,
           UNCHANGED <<created, parent, late>>
    PROVE  Lives!End(s[1]) \/ UNCHANGED Lives!vars
<1> DEFINE a == s[1]
<1>1. /\ closed' = closed \cup {a} /\ finished' = finished \cup {a}
      /\ phase' = [phase EXCEPT ![s] = "none"] /\ a \in Actors
      /\ ToSet(children[a]) = {b \in Live : parent[b] = a}
      /\ finished \subseteq closed
  BY DEF Finish, Sequences, Inv, TreeInv
<1>2. Leaving' = Leaving \cup {a}
  BY <1>1, LeavingGrows DEF Inv, TypeOK
<1>3. CASE a \in finished
  BY <1>1, <1>2, <1>3 DEF Lives!vars, Leaving
<1>4. CASE a \notin finished
  BY <1>1, <1>2, <1>4 DEF Lives!End, Lives!Alive, Live
<1> QED  BY <1>3, <1>4

LEMMA StopGoesOnLives ==
    ASSUME Inv, RunsInv, [Next]_vars, NEW s \in Sequences, StopGoesOn(s)
    PROVE  \E a \in Actors : \/ Lives!BeginToStop(a) \/ Lives!End(a)
                             \/ UNCHANGED Lives!vars
<1> DEFINE a == s[1]
<1>1. PICK cs \in Seq(Actors) :
         /\ StopNext(s, cs) /\ phase[s] # "none"
         /\ ToSet(children[a]) \subseteq closed \cup late \cup ToSet(cs)
  <2>1. CASE HookEnds(s)
    <3>1. StopNext(s, children[a]) /\ phase[s] # "none"
      BY <2>1 DEF HookEnds
    <3>2. children[a] \in Seq(Actors)
      BY DEF Inv, TypeOK, Sequences
    <3> QED  BY <3>1, <3>2
  <2>2. CASE ChildAnswers(s)
    BY <2>2, AnswersLeave
  <2> QED  BY <2>1, <2>2 DEF StopGoesOn
<1>2. /\ a \in Actors /\ a \in created
      /\ UNCHANGED <<created, parent, late>>
  BY <1>1 DEF Sequences, Inv, MailInv, StopNext
<1>3. CASE cs = <<>> /\ Finish(s)
  <2>1. ToSet(children[a]) \subseteq closed \cup late
    BY <1>1, <1>3, EmptyQueue
  <2> QED  BY <1>2, <1>3, <2>1, FinishEnds
<1>4. CASE /\ EnterHooks([phase EXCEPT ![s] = "children"])
           /\ UNCHANGED <<closed, finished>>
  <2> DEFINE phases == [phase EXCEPT ![s] = "children"]
  <2>1. /\ phases[s] = "children"
        /\ \A q \in Sequences \ {s} : phases[q] = phase[q]
    BY DEF Inv, TypeOK
  <2> HIDE DEF phases
  <2>2. \A q \in Sequences : phase'[q] = phases[q] \/ Hooked(q)
    BY <1>4, HookEntered DEF phases
  <2>3. CASE a \in closed
    <3>1. Leaving' = Leaving
      BY <1>4, <2>1, <2>2, <2>3, LeavingStays DEF Hooked
    <3> QED  BY <1>2, <1>4, <3>1 DEF Lives!vars
  <2>4. CASE a \notin closed
    <3>1. phase'[s] = "children"
      BY <1>1, <2>1, <2>2, <2>4 DEF Hooked
    <3>2. Leaving' = Leaving \cup {a}
      BY <1>4, <2>1, <2>2, <3>1, LeavingGrows DEF Hooked
    <3>3. CASE a \in Leaving
      BY <1>2, <1>4, <3>2, <3>3 DEF Lives!vars
    <3>4. CASE a \notin Leaving
      <4>1. a \in Lives!Alive
        BY <1>2, <3>4 DEF Lives!Alive, Leaving, Inv, TreeInv
      <4> QED  BY <1>2, <1>4, <3>2, <3>4, <4>1 DEF Lives!BeginToStop
    <3> QED  BY <3>3, <3>4
  <2> QED  BY <2>3, <2>4
<1> QED  BY <1>1, <1>3, <1>4 DEF StopNext

LEMMA StepRefines ==
    ASSUME Inv, RunsInv, [Next]_vars
    PROVE  Lives!Next \/ UNCHANGED Lives!vars
<1>1. ASSUME NEW a \in Actors, ActorFor(a)  PROVE Lives!Next
  BY <1>1, ActorForCreates DEF Lives!Next
<1>2. ASSUME NEW a \in Actors, TimerFires(a)
      PROVE  Lives!Next \/ UNCHANGED Lives!vars
  BY <1>2, TimerTimesOut DEF Lives!Next
<1>3. ASSUME NEW s \in Sequences, StopGoesOn(s)
      PROVE  Lives!Next \/ UNCHANGED Lives!vars
  BY <1>3, StopGoesOnLives DEF Lives!Next
<1>4. ASSUME UNCHANGED <<created, parent, closed, late, finished>>
      PROVE  Lives!Next \/ UNCHANGED Lives!vars
  BY <1>3, <1>4, SameLives
<1>5. ASSUME NEW a \in Actors, LoopReturns(a) \/ Handler(a)
      PROVE  UNCHANGED <<created, parent, closed, late, finished>>
  BY <1>5 DEF LoopReturns, Handler, HandlerEnds, HandlerFails, Fails, treeVars, stopVars
<1>6. ASSUME NEW a \in Actors, NEW s \in Actors, Directive(s, a)
      PROVE  UNCHANGED <<created, parent, closed, late, finished>>
  BY <1>6 DEF Directive, DecideResume, DecideStop, DecideNothing, Decide, treeVars
<1>7. ASSUME NEW a \in Actors, NEW m, ClientSends(a, m)
      PROVE  UNCHANGED <<created, parent, closed, late, finished>>
  BY <1>7 DEF ClientSends, treeVars
<1>8. ASSUME CloseBegins \/ CloseGoesOn \/ UNCHANGED vars
      PROVE  UNCHANGED <<created, parent, closed, late, finished>>
  BY <1>8 DEF CloseBegins, CloseGoesOn, CloseStops, CloseEnds, vars, treeVars,
              mailboxVars, stopVars
<1> QED  BY <1>1, <1>2, <1>3, <1>4, <1>5, <1>6, <1>7, <1>8 DEF Next

(* Every step of the tree is one in the lives of actors, or nothing happens  *)
(* to them: LocalStage, LifeCycle and Directory keep what ActorLives says,   *)
(* whatever parents the callers of actorFor() name.                          *)
THEOREM Refinement == Spec => ImplementsLives
<1>1. Init => RunsInv /\ Lives!Init
  <2>1. ASSUME Init  PROVE RunsInv
    <3>1. \A a \in Actors : <<a, "message">> \in Sequences
      BY DEF Sequences
    <3> QED  BY <2>1, <3>1 DEF Init, RunsInv
  <2>2. ASSUME Init  PROVE Leaving = {}
    BY <2>2 DEF Init, Leaving
  <2> QED  BY <2>1, <2>2 DEF Init, Lives!Init
<1>2. Inv /\ RunsInv /\ [Next]_vars => RunsInv'
  BY RunsStep
<1>3. Inv /\ RunsInv /\ [Next]_vars => [Lives!Next]_(Lives!vars)
  BY StepRefines
<1> QED  BY <1>1, <1>2, <1>3, Invariant, PTL DEF Spec, ImplementsLives, Lives!Spec
=============================================================================
