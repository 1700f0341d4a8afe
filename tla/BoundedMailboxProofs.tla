------------------------ MODULE BoundedMailboxProofs ------------------------
(***************************************************************************)
(* What holds of BoundedMailbox for every capacity, every number of        *)
(* messages and every overflow policy, checked by TLAPS.                   *)
(***************************************************************************)
EXTENDS BoundedMailbox, QueueLemmas, FiniteSetTheorems

USE BoundsAssumption

Increasing(s) == \A i, j \in 1..Len(s) : i < j => s[i] < s[j]

(* What is in the queue q was sent after all that was begun, in order. *)
Ordered(q) ==
    /\ Increasing(begun) /\ Increasing(q)
    /\ \A i \in 1..Len(begun), j \in 1..Len(q) : begun[i] < q[j]

Accepted(p) == {m \in Messages : p[m] \in {"pending", "resolved", "rejected"}}
Dropped(p) == {m \in Messages : p[m] \in {"dropped", "mailboxFull"}}
Refused(p) == {m \in Messages : p[m] \in {"actorStopped", "mailboxFull"}}

(* The messages sent so far come before those to be sent. *)
SentInOrder ==
    \A k, m \in Messages : k < m /\ deferred[m] # "unsent" => deferred[k] # "unsent"

OrderInv ==
    /\ Ordered(queue)
    /\ ToSet(begun) \cup ToSet(queue) = Accepted(deferred)
    /\ running \subseteq ToSet(begun)

CountInv ==
    /\ droppedMessageCount = Cardinality(Dropped(deferred))
    /\ deadLetters = Refused(deferred)

Inv == /\ TypeOK /\ SentInOrder /\ OrderInv /\ CountInv
       /\ NoLostWakeup /\ DroppedForNewer

-----------------------------------------------------------------------------
(* Order in the queue *)

LEMMA OrderedEnds ==
    ASSUME NEW q \in Seq(Messages), begun \in Seq(Messages), NEW m \in Messages,
           Ordered(q), \A k \in ToSet(begun) \cup ToSet(q) : k < m
    PROVE  Ordered(Append(q, m))
<1>1. Increasing(Append(q, m))
  <2>1. \A i \in 1..Len(q) : q[i] < m
    BY QueueElements
  <2> SUFFICES ASSUME NEW i \in 1..Len(Append(q, m)), NEW j \in 1..Len(Append(q, m)),
                      i < j
               PROVE  Append(q, m)[i] < Append(q, m)[j]
    BY DEF Increasing
  <2>2. i \in 1..Len(q) /\ Len(q) \in Nat
    BY QueueEnds, QueueElements
  <2>3. CASE j \in 1..Len(q)
    BY <2>2, <2>3, QueueEnds DEF Ordered, Increasing
  <2>4. CASE j = Len(q) + 1
    BY <2>1, <2>2, <2>4, QueueEnds
  <2> QED  BY <2>3, <2>4, QueueEnds
<1>2. ASSUME NEW i \in 1..Len(begun), NEW j \in 1..Len(Append(q, m))
      PROVE  begun[i] < Append(q, m)[j]
  <2>1. begun[i] < m
    BY QueueElements
  <2>2. CASE j \in 1..Len(q)
    BY <2>2, QueueEnds DEF Ordered
  <2>3. CASE j = Len(q) + 1
    BY <2>1, <2>3, QueueEnds
  <2> QED  BY <2>2, <2>3, QueueEnds
<1> QED  BY <1>1, <1>2 DEF Ordered

(* Without its first message, a queue is still in order, and that message is *)
(* older than all others of it, and newer than all that was begun.           *)
LEMMA OrderedBegins ==
    ASSUME NEW q \in Seq(Messages), begun \in Seq(Messages), q # <<>>, Ordered(q)
    PROVE  /\ Ordered(Tail(q))
           /\ \A k \in ToSet(Tail(q)) : Head(q) < k
           /\ \A k \in ToSet(begun) : k < Head(q)
<1> DEFINE t == Tail(q)
<1>1. /\ t \in Seq(Messages) /\ Head(q) = q[1] /\ Len(q) \in Nat \ {0}
      /\ Len(t) = Len(q) - 1
      /\ \A i \in 1..Len(t) : t[i] = q[i + 1] /\ i + 1 \in 1..Len(q)
  BY QueueBegins
<1> HIDE DEF t
<1>2. Increasing(t)
  BY <1>1 DEF Ordered, Increasing
<1>3. \A i \in 1..Len(begun), j \in 1..Len(t) : begun[i] < t[j]
  BY <1>1 DEF Ordered
<1>4. \A i \in 1..Len(t) : Head(q) < t[i]
  BY <1>1 DEF Ordered, Increasing
<1>5. \A k \in ToSet(t) : Head(q) < k
  BY <1>1, <1>4, QueueElements
<1>6. \A i \in 1..Len(begun) : begun[i] < Head(q)
  BY <1>1 DEF Ordered
<1>7. \A k \in ToSet(begun) : k < Head(q)
  BY <1>6, QueueElements
<1> QED  BY <1>2, <1>3, <1>5, <1>7 DEF Ordered, t

(* A round of dispatch() moves the first message from the queue it finds to  *)
(* the end of what was begun; it leaves nothing to receive behind, unless    *)
(* its own handler runs.                                                     *)
LEMMA LoopMoves ==
    ASSUME NEW q \in Seq(Messages), begun \in Seq(Messages), Ordered(q),
           running \subseteq ToSet(begun),
           NEW s, NEW others \in SUBSET Messages,
           DispatchLoop(s, q, others), closed' = closed, suspended' = s
    PROVE  /\ queue' \in Seq(Messages) /\ Len(queue') <= Len(q)
           /\ begun' \in Seq(Messages)
           /\ returning' \subseteq Messages
           /\ Ordered(queue)'
           /\ ToSet(begun') \cup ToSet(queue') = ToSet(begun) \cup ToSet(q)
           /\ running' \subseteq ToSet(begun')
           /\ NoLostWakeup'
<1>1. CASE IsReceivable(closed, s, q)
  <2> DEFINE h == Head(q)
  <2>1. /\ queue' = Tail(q) /\ begun' = Append(begun, h)
        /\ running' = running \cup {h} /\ returning' = others
    BY <1>1 DEF DispatchLoop
  <2>2. /\ q # <<>> /\ h \in Messages /\ Tail(q) \in Seq(Messages)
        /\ Len(Tail(q)) = Len(q) - 1 /\ Len(q) \in Nat
        /\ ToSet(q) = ToSet(Tail(q)) \cup {h}
    BY <1>1, QueueBegins DEF IsReceivable
  <2>3. /\ begun' \in Seq(Messages) /\ ToSet(begun') = ToSet(begun) \cup {h}
    BY <2>1, <2>2, QueueEnds
  <2>4. /\ Ordered(Tail(q))
        /\ \A k \in ToSet(Tail(q)) : h < k
        /\ \A k \in ToSet(begun) : k < h
    BY <2>2, OrderedBegins
  <2>5. Increasing(begun')
    <3>1. \A i \in 1..Len(begun) : begun[i] < h
      BY <2>4, QueueElements
    <3> SUFFICES ASSUME NEW i \in 1..Len(begun'), NEW j \in 1..Len(begun'), i < j
                 PROVE  begun'[i] < begun'[j]
      BY DEF Increasing
    <3>2. i \in 1..Len(begun) /\ Len(begun) \in Nat
      BY <2>1, <2>2, QueueEnds, QueueElements
    <3>3. CASE j \in 1..Len(begun)
      BY <2>1, <2>2, <2>4, <3>2, <3>3, QueueEnds DEF Ordered, Increasing
    <3>4. CASE j = Len(begun) + 1
      BY <2>1, <2>2, <3>1, <3>2, <3>4, QueueEnds
    <3> QED  BY <2>1, <2>2, <3>3, <3>4, QueueEnds
  <2>6. \A i \in 1..Len(begun'), j \in 1..Len(queue') : begun'[i] < queue'[j]
    <3>1. \A j \in 1..Len(Tail(q)) : h < Tail(q)[j]
      <4>1. \A j \in 1..Len(Tail(q)) : Tail(q)[j] \in ToSet(Tail(q))
        BY <2>2, QueueElements
      <4> QED  BY <2>4, <4>1
    <3>2. \A i \in 1..Len(begun), j \in 1..Len(Tail(q)) : begun[i] < Tail(q)[j]
      BY <2>4 DEF Ordered
    <3>3. \A i \in 1..Len(begun') : \/ i \in 1..Len(begun) /\ begun'[i] = begun[i]
                                    \/ begun'[i] = h
      BY <2>1, <2>2, QueueEnds
    <3> QED  BY <2>1, <3>1, <3>2, <3>3
  <2>7. Ordered(queue)'
    BY <2>1, <2>4, <2>5, <2>6 DEF Ordered
  <2>8. NoLostWakeup'
    BY <2>1 DEF NoLostWakeup
  <2> QED  BY <2>1, <2>2, <2>3, <2>7, <2>8
<1>2. CASE ~IsReceivable(closed, s, q)
  <2>1. /\ queue' = q /\ begun' = begun /\ running' = running
        /\ returning' = others
    BY <1>2 DEF DispatchLoop
  <2>2. Ordered(queue)'
    BY <2>1 DEF Ordered
  <2>3. NoLostWakeup'
    BY <1>2, <2>1 DEF NoLostWakeup
  <2>4. Len(q) \in Nat
    BY QueueElements
  <2> QED  BY <2>1, <2>2, <2>3, <2>4
<1> QED  BY <1>1, <1>2

LEMMA PushMoves ==
    ASSUME NEW q \in Seq(Messages), begun \in Seq(Messages), NEW m \in Messages,
           Ordered(q), \A k \in ToSet(begun) \cup ToSet(q) : k < m,
           running \subseteq ToSet(begun), returning \subseteq Messages,
           Push(q, m), UNCHANGED <<closed, suspended>>
    PROVE  /\ queue' \in Seq(Messages) /\ Len(queue') <= Len(q) + 1
           /\ begun' \in Seq(Messages)
           /\ returning' \subseteq Messages
           /\ Ordered(queue)'
           /\ ToSet(begun') \cup ToSet(queue')
                = ToSet(begun) \cup ToSet(q) \cup {m}
           /\ running' \subseteq ToSet(begun')
           /\ NoLostWakeup'
<1> DEFINE r == Append(q, m)
<1>1. /\ r \in Seq(Messages) /\ Len(r) = Len(q) + 1
      /\ ToSet(r) = ToSet(q) \cup {m} /\ Len(q) \in Nat
  BY QueueEnds, QueueElements
<1>2. Ordered(r)
  BY OrderedEnds
<1>3. CASE suspended
  <2>1. queue' = r /\ UNCHANGED <<running, returning, begun>>
    BY <1>3 DEF Push, loopVars
  <2>2. Ordered(queue)'
    BY <1>2, <2>1 DEF Ordered
  <2>3. NoLostWakeup'
    BY <1>3 DEF NoLostWakeup, IsReceivable
  <2> QED  BY <1>1, <2>1, <2>2, <2>3
<1>4. CASE ~suspended
  <2>1. DispatchLoop(suspended, r, returning)
    BY <1>4 DEF Push
  <2> HIDE DEF r
  <2> QED  BY <1>1, <1>2, <2>1, LoopMoves
<1> QED  BY <1>3, <1>4

-----------------------------------------------------------------------------
(* Counts of messages *)

LEMMA MessagesAreFinite ==
    \A S \in SUBSET Messages : IsFiniteSet(S) /\ Cardinality(S) \in Nat
<1>1. IsFiniteSet(Messages)
  BY FS_Interval DEF Messages
<1> QED  BY <1>1, FS_Subset, FS_CardinalityType

(* A promise that is settled by a drop is counted once. *)
LEMMA OneMoreDropped ==
    ASSUME TypeOK, CountInv, NEW x \in Messages, x \notin Dropped(deferred),
           droppedMessageCount' = droppedMessageCount + 1,
           Dropped(deferred') = Dropped(deferred) \cup {x}
    PROVE  droppedMessageCount' = Cardinality(Dropped(deferred'))
<1>1. Dropped(deferred) \in SUBSET Messages
  BY DEF Dropped
<1> QED  BY <1>1, MessagesAreFinite, FS_AddElement DEF CountInv

LEMMA UnsentIsNewest ==
    ASSUME TypeOK, SentInOrder, OrderInv, NEW m \in Messages,
           deferred[m] = "unsent"
    PROVE  /\ \A k \in ToSet(begun) \cup ToSet(queue) : k < m
           /\ m \notin Accepted(deferred) \cup Dropped(deferred) \cup Refused(deferred)
<1>1. \A k \in Accepted(deferred) : k \in Messages /\ deferred[k] # "unsent"
  BY DEF Accepted
<1>2. \A k \in Messages : deferred[k] # "unsent" => k < m
  BY DEF SentInOrder, Messages
<1>3. m \notin Accepted(deferred) \cup Dropped(deferred) \cup Refused(deferred)
  BY DEF Accepted, Dropped, Refused
<1> QED  BY <1>1, <1>2, <1>3 DEF OrderInv

(* The messages of m's successors that were accepted, and stay it. *)
Newer(m, p) == {k \in Messages : k > m /\ p[k] \in PromiseStates
                                               \ {"unsent", "actorStopped"}}

LEMMA NewerGrow ==
    ASSUME TypeOK, NEW p,
           \A k \in Messages : deferred[k] \notin {"unsent", "actorStopped"} =>
               p[k] \in PromiseStates \ {"unsent", "actorStopped"},
           DroppedForNewer, policy = "DropOldest"
    PROVE  \A m \in Dropped(deferred) : Cardinality(Newer(m, p)) >= Capacity
<1> SUFFICES ASSUME NEW m \in Dropped(deferred)
             PROVE  Cardinality(Newer(m, p)) >= Capacity
  OBVIOUS
<1>1. Cardinality(Newer(m, deferred)) >= Capacity
  BY DEF DroppedForNewer, Overflowed, Dropped, Newer
<1>2. Newer(m, deferred) \subseteq Newer(m, p)
  BY DEF Newer
<1>3. Newer(m, p) \subseteq Messages
  BY DEF Newer
<1>4. /\ Cardinality(Newer(m, deferred)) <= Cardinality(Newer(m, p))
      /\ Cardinality(Newer(m, deferred)) \in Nat
      /\ Cardinality(Newer(m, p)) \in Nat
  BY <1>2, <1>3, MessagesAreFinite, FS_Subset
<1> QED  BY <1>1, <1>4

(* A queue in order, all of it newer than m, has as many newer messages.     *)
LEMMA QueueOfNewer ==
    ASSUME NEW q \in Seq(Messages), Increasing(q),
           NEW S \in SUBSET Messages, ToSet(q) \subseteq S
    PROVE  Cardinality(S) >= Len(q)
<1> DEFINE f == [i \in 1..Len(q) |-> q[i]]
<1>1. Len(q) \in Nat /\ \A i \in 1..Len(q) : q[i] \in S /\ q[i] \in Nat
  BY QueueElements DEF Messages
<1>2. f \in [1..Len(q) -> S]
  BY <1>1
<1>3. ASSUME NEW i \in 1..Len(q), NEW j \in 1..Len(q), f[i] = f[j]
      PROVE  i = j
  <2>1. ~(i < j) /\ ~(j < i)
    BY <1>1, <1>3 DEF Increasing
  <2> QED  BY <1>1, <2>1
<1>4. f \in Injection(1..Len(q), S)
  BY <1>2, <1>3 DEF Injection, IsInjective
<1>5. IsFiniteSet(S) /\ Cardinality(S) \in Nat
  BY MessagesAreFinite
<1>6. Cardinality(1..Len(q)) <= Cardinality(S)
  BY <1>4, <1>5, FS_Injection
<1>7. Cardinality(1..Len(q)) = Len(q)
  BY <1>1, FS_Interval
<1> QED  BY <1>1, <1>5, <1>6, <1>7

-----------------------------------------------------------------------------
(* send() *)

LEMMA SendClosedKeeps ==
    ASSUME Inv, NEW m \in Messages, Send(m), SendClosed(m)
    PROVE  Inv'
<1> USE DEF Inv
<1>1. /\ UNCHANGED <<policy, closed, suspended, queue, droppedMessageCount,
                     running, returning, begun, undecided, lost>>
      /\ deferred[m] = "unsent" /\ \A k \in 1..(m - 1) : deferred[k] # "unsent"
      /\ deadLetters' = deadLetters \cup {m}
      /\ deferred' = [deferred EXCEPT ![m] = "actorStopped"]
  BY DEF Send, SendClosed, loopVars, supervisionVars
<1>2. TypeOK'
  BY <1>1 DEF TypeOK, PromiseStates
<1>3. SentInOrder'
  BY <1>1 DEF TypeOK, SentInOrder, Messages
<1>4. /\ Accepted(deferred') = Accepted(deferred)
      /\ Dropped(deferred') = Dropped(deferred)
      /\ Refused(deferred') = Refused(deferred) \cup {m}
  BY <1>1 DEF TypeOK, Accepted, Dropped, Refused
<1>5. OrderInv'
  BY <1>1, <1>4 DEF OrderInv, Ordered
<1>6. CountInv' /\ NoLostWakeup'
  BY <1>1, <1>4 DEF CountInv, NoLostWakeup
<1>7. DroppedForNewer'
  <2>1. ASSUME policy = "DropOldest", NEW x \in Dropped(deferred)
        PROVE  Cardinality(Newer(x, deferred')) >= Capacity
    BY <1>1, <2>1, NewerGrow DEF TypeOK, PromiseStates
  <2> QED  BY <1>1, <1>4, <2>1 DEF DroppedForNewer, Overflowed, Dropped, Newer
<1> QED  BY <1>2, <1>3, <1>5, <1>6, <1>7

LEMMA SendBelowCapacityKeeps ==
    ASSUME Inv, NEW m \in Messages, Send(m), SendBelowCapacity(m)
    PROVE  Inv'
<1> USE DEF Inv
<1>1. /\ UNCHANGED <<policy, closed, suspended, droppedMessageCount,
                     deadLetters, undecided, lost>>
      /\ deferred[m] = "unsent" /\ \A k \in 1..(m - 1) : deferred[k] # "unsent"
      /\ deferred' = [deferred EXCEPT ![m] = "pending"]
      /\ Len(queue) < Capacity /\ Push(queue, m)
  BY DEF Send, SendBelowCapacity, supervisionVars
<1>2. /\ queue \in Seq(Messages) /\ begun \in Seq(Messages)
      /\ returning \subseteq Messages /\ Ordered(queue)
      /\ running \subseteq ToSet(begun) /\ Len(queue) \in Nat
  BY QueueElements DEF TypeOK, OrderInv
<1>3. /\ queue' \in Seq(Messages) /\ Len(queue') <= Len(queue) + 1
      /\ begun' \in Seq(Messages) /\ returning' \subseteq Messages
      /\ Ordered(queue)'
      /\ ToSet(begun') \cup ToSet(queue') = ToSet(begun) \cup ToSet(queue) \cup {m}
      /\ running' \subseteq ToSet(begun') /\ NoLostWakeup'
  BY <1>1, <1>2, UnsentIsNewest, PushMoves
<1>4. TypeOK'
  <2>1. running' \subseteq Messages
    BY <1>3, QueueElements
  <2>2. Len(queue') <= Capacity
    BY <1>1, <1>2, <1>3, QueueElements
  <2> QED  BY <1>1, <1>3, <2>1, <2>2 DEF TypeOK, PromiseStates
<1>5. SentInOrder'
  BY <1>1 DEF TypeOK, SentInOrder, Messages
<1>6. /\ Accepted(deferred') = Accepted(deferred) \cup {m}
      /\ Dropped(deferred') = Dropped(deferred)
      /\ Refused(deferred') = Refused(deferred)
  BY <1>1 DEF TypeOK, Accepted, Dropped, Refused
<1>7. OrderInv' /\ CountInv'
  BY <1>1, <1>3, <1>6 DEF OrderInv, CountInv
<1>8. DroppedForNewer'
  <2>1. ASSUME policy = "DropOldest", NEW x \in Dropped(deferred)
        PROVE  Cardinality(Newer(x, deferred')) >= Capacity
    BY <1>1, <2>1, NewerGrow DEF TypeOK, PromiseStates
  <2> QED  BY <1>1, <1>6, <2>1 DEF DroppedForNewer, Overflowed, Dropped, Newer
<1> QED  BY <1>3, <1>4, <1>5, <1>7, <1>8

(* The newest message is dropped, or refused: the queue stays as it is.      *)
LEMMA DropNewestKeeps ==
    ASSUME Inv, NEW m \in Messages, Send(m), HandleOverflow(m),
           DropNewest(m) \/ Reject(m)
    PROVE  Inv'
<1> USE DEF Inv
<1>1. /\ UNCHANGED <<policy, closed, suspended, queue, running, returning, begun,
                     undecided, lost>>
      /\ deferred[m] = "unsent" /\ \A k \in 1..(m - 1) : deferred[k] # "unsent"
      /\ droppedMessageCount' = droppedMessageCount + 1
      /\ policy # "DropOldest"
  BY DEF Send, DropNewest, Reject, loopVars, supervisionVars
<1>2. \/ /\ deferred' = [deferred EXCEPT ![m] = "dropped"]
         /\ deadLetters' = deadLetters
      \/ /\ deferred' = [deferred EXCEPT ![m] = "mailboxFull"]
         /\ deadLetters' = deadLetters \cup {m}
  BY DEF DropNewest, Reject
<1>3. TypeOK'
  BY <1>1, <1>2 DEF TypeOK, PromiseStates
<1>4. SentInOrder'
  BY <1>1, <1>2 DEF TypeOK, SentInOrder, Messages
<1>5. /\ Accepted(deferred') = Accepted(deferred)
      /\ Dropped(deferred') = Dropped(deferred) \cup {m}
      /\ deadLetters' = Refused(deferred')
  <2>1. CASE deferred' = [deferred EXCEPT ![m] = "dropped"] /\ deadLetters' = deadLetters
    BY <1>1, <2>1 DEF TypeOK, CountInv, Accepted, Dropped, Refused
  <2>2. CASE /\ deferred' = [deferred EXCEPT ![m] = "mailboxFull"]
             /\ deadLetters' = deadLetters \cup {m}
    BY <1>1, <2>2 DEF TypeOK, CountInv, Accepted, Dropped, Refused
  <2> QED  BY <1>2, <2>1, <2>2
<1>6. OrderInv' /\ NoLostWakeup'
  BY <1>1, <1>5 DEF OrderInv, Ordered, NoLostWakeup
<1>7. CountInv'
  BY <1>1, <1>5, UnsentIsNewest, OneMoreDropped DEF CountInv
<1>8. DroppedForNewer'
  BY <1>1 DEF DroppedForNewer
<1> QED  BY <1>3, <1>4, <1>6, <1>7, <1>8

(* The oldest message makes room for the new one. *)
LEMMA DropOldestKeeps ==
    ASSUME Inv, NEW m \in Messages, Send(m), HandleOverflow(m), DropOldest(m)
    PROVE  Inv'
<1> USE DEF Inv
<1> DEFINE h == Head(queue)
           t == Tail(queue)
<1>1. /\ UNCHANGED <<policy, closed, suspended, deadLetters, undecided, lost>>
      /\ deferred[m] = "unsent" /\ \A k \in 1..(m - 1) : deferred[k] # "unsent"
      /\ droppedMessageCount' = droppedMessageCount + 1
      /\ deferred' = [deferred EXCEPT ![h] = "dropped", ![m] = "pending"]
      /\ Len(queue) >= Capacity /\ Push(t, m) /\ policy = "DropOldest"
  BY DEF Send, HandleOverflow, DropOldest, supervisionVars
<1>2. /\ queue \in Seq(Messages) /\ begun \in Seq(Messages)
      /\ returning \subseteq Messages /\ Ordered(queue)
      /\ running \subseteq ToSet(begun) /\ Len(queue) = Capacity
      /\ queue # <<>>
  BY <1>1, QueueElements, EmptyQueue DEF TypeOK, OrderInv
<1>3. /\ h \in Messages /\ t \in Seq(Messages) /\ Len(t) = Capacity - 1
      /\ ToSet(queue) = ToSet(t) \cup {h}
  BY <1>2, QueueBegins
<1>4. /\ Ordered(t)
      /\ \A k \in ToSet(t) : h < k
      /\ \A k \in ToSet(begun) : k < h
  BY <1>2, OrderedBegins
<1>5. /\ \A k \in ToSet(begun) \cup ToSet(t) \cup {h} : k < m
      /\ m \notin Accepted(deferred) \cup Dropped(deferred)
  BY <1>1, <1>3, UnsentIsNewest
<1>6. ToSet(t) \subseteq Messages /\ ToSet(begun) \subseteq Messages
  BY <1>2, <1>3, QueueElements
<1>7. h \notin ToSet(begun) \cup ToSet(t) /\ h # m
  BY <1>3, <1>4, <1>5, <1>6 DEF Messages
<1>8. /\ Append(t, m) \in Seq(Messages) /\ Len(Append(t, m)) = Capacity
      /\ ToSet(Append(t, m)) = ToSet(t) \cup {m} /\ Increasing(Append(t, m))
  <2> HIDE DEF t, h
  <2>1. Ordered(Append(t, m))
    BY <1>2, <1>3, <1>4, <1>5, OrderedEnds
  <2> QED  BY <1>3, <2>1, QueueEnds DEF Ordered
<1> HIDE DEF t, h
<1>9. /\ queue' \in Seq(Messages) /\ Len(queue') <= Len(t) + 1
      /\ begun' \in Seq(Messages) /\ returning' \subseteq Messages
      /\ Ordered(queue)'
      /\ ToSet(begun') \cup ToSet(queue') = ToSet(begun) \cup ToSet(t) \cup {m}
      /\ running' \subseteq ToSet(begun') /\ NoLostWakeup'
  BY <1>1, <1>2, <1>3, <1>4, <1>5, PushMoves
<1>10. TypeOK'
  <2>1. running' \subseteq Messages
    BY <1>9, QueueElements
  <2>2. Len(queue') <= Capacity
    BY <1>3, <1>9, QueueElements
  <2>3. deferred' \in [Messages -> PromiseStates]
    BY <1>1, <1>3 DEF TypeOK, PromiseStates
  <2>4. droppedMessageCount' \in Nat
    BY <1>1 DEF TypeOK
  <2> QED  BY <1>1, <1>9, <2>1, <2>2, <2>3, <2>4 DEF TypeOK
<1>11. h \in Accepted(deferred) /\ deferred[h] # "unsent"
  BY <1>3 DEF OrderInv, Accepted
<1>12. SentInOrder'
  BY <1>1, <1>3, <1>11 DEF TypeOK, SentInOrder, Messages
<1>13. /\ Accepted(deferred') = (Accepted(deferred) \ {h}) \cup {m}
       /\ Dropped(deferred') = Dropped(deferred) \cup {h}
       /\ Refused(deferred') = Refused(deferred)
       /\ h \notin Dropped(deferred)
  BY <1>1, <1>3, <1>7, <1>11 DEF TypeOK, Accepted, Dropped, Refused
<1>14. OrderInv'
  BY <1>3, <1>7, <1>9, <1>13 DEF OrderInv
<1>15. CountInv'
  BY <1>1, <1>3, <1>13, OneMoreDropped DEF CountInv
<1>16. DroppedForNewer'
  <2>1. ASSUME NEW x \in Dropped(deferred)
        PROVE  Cardinality(Newer(x, deferred')) >= Capacity
    BY <1>1, <1>3, NewerGrow DEF TypeOK, PromiseStates
  <2>2. Cardinality(Newer(h, deferred')) >= Capacity
    <3>1. ToSet(t) \cup {m} \subseteq Accepted(deferred')
      BY <1>3, <1>7, <1>13 DEF OrderInv
    <3>2. ToSet(t) \cup {m} \subseteq Newer(h, deferred')
      BY <1>3, <1>4, <1>5, <1>6, <3>1 DEF Newer, Accepted, PromiseStates, Messages
    <3>3. Newer(h, deferred') \in SUBSET Messages
      BY DEF Newer
    <3> QED  BY <1>8, <3>2, <3>3, QueueOfNewer
  <2> QED  BY <1>1, <1>13, <2>1, <2>2
           DEF DroppedForNewer, Overflowed, Dropped, Newer
<1> QED  BY <1>9, <1>10, <1>12, <1>14, <1>15, <1>16

-----------------------------------------------------------------------------
(* Handlers, loops and supervision *)

(* A promise that is settled after it was accepted changes no set. *)
LEMMA SettledKeeps ==
    ASSUME TypeOK, OrderInv, NEW m \in running,
           NEW outcome \in {"resolved", "rejected"},
           deferred' = [deferred EXCEPT ![m] = outcome]
    PROVE  /\ m \in Messages /\ deferred[m] # "unsent"
           /\ deferred' \in [Messages -> PromiseStates]
           /\ Accepted(deferred') = Accepted(deferred)
           /\ Dropped(deferred') = Dropped(deferred)
           /\ Refused(deferred') = Refused(deferred)
           /\ \A k \in Messages : /\ deferred'[k] = "unsent" <=> deferred[k] = "unsent"
                                  /\ deferred[k] \notin {"unsent", "actorStopped"} =>
                                       deferred'[k] \in PromiseStates
                                                          \ {"unsent", "actorStopped"}
<1>1. m \in Messages /\ m \in Accepted(deferred)
  BY DEF TypeOK, OrderInv
<1>2. deferred[m] \in {"pending", "resolved", "rejected"}
  BY <1>1 DEF Accepted
<1>3. deferred' \in [Messages -> PromiseStates]
  BY <1>1 DEF TypeOK, PromiseStates
<1> QED  BY <1>1, <1>2, <1>3 DEF TypeOK, PromiseStates, Accepted, Dropped, Refused

LEMMA HandlerKeeps ==
    ASSUME Inv, NEW m \in Messages, Handler(m)
    PROVE  Inv'
<1> USE DEF Inv
<1>1. /\ UNCHANGED <<policy, closed, queue, droppedMessageCount, deadLetters, begun>>
      /\ m \in running /\ running' = running \ {m}
      /\ \E outcome \in {"resolved", "rejected"} :
             deferred' = [deferred EXCEPT ![m] = outcome]
  BY DEF Handler, HandlerSucceeds, HandlerFails
<1>2. /\ deferred' \in [Messages -> PromiseStates]
      /\ Accepted(deferred') = Accepted(deferred)
      /\ Dropped(deferred') = Dropped(deferred)
      /\ Refused(deferred') = Refused(deferred)
      /\ \A k \in Messages : /\ deferred'[k] = "unsent" <=> deferred[k] = "unsent"
                             /\ deferred[k] \notin {"unsent", "actorStopped"} =>
                                  deferred'[k] \in PromiseStates
                                                     \ {"unsent", "actorStopped"}
  BY <1>1, SettledKeeps
<1>3. TypeOK'
  BY <1>1, <1>2 DEF TypeOK, Handler, HandlerSucceeds, HandlerFails, supervisionVars
<1>4. SentInOrder' /\ OrderInv' /\ CountInv'
  BY <1>1, <1>2 DEF SentInOrder, OrderInv, Ordered, CountInv
<1>5. NoLostWakeup'
  <2>1. CASE HandlerSucceeds(m)
    BY <2>1 DEF HandlerSucceeds, NoLostWakeup
  <2>2. CASE HandlerFails(m)
    BY <2>2 DEF HandlerFails, NoLostWakeup, IsReceivable
  <2> QED  BY <2>1, <2>2 DEF Handler
<1>6. DroppedForNewer'
  <2>1. ASSUME policy = "DropOldest", NEW x \in Dropped(deferred)
        PROVE  Cardinality(Newer(x, deferred')) >= Capacity
    BY <1>2, <2>1, NewerGrow
  <2> QED  BY <1>1, <1>2, <2>1 DEF DroppedForNewer, Overflowed, Dropped, Newer
<1> QED  BY <1>3, <1>4, <1>5, <1>6

(* A loop that looks at the queue, after a delivery or because of resume().  *)
LEMMA LoopKeeps ==
    ASSUME Inv, NEW s \in BOOLEAN, NEW others \in SUBSET returning,
           DispatchLoop(s, queue, others), suspended' = s,
           UNCHANGED <<policy, closed, droppedMessageCount, deferred, deadLetters>>,
           undecided' \subseteq Messages, lost' \subseteq Messages
    PROVE  Inv'
<1> USE DEF Inv
<1>1. /\ queue \in Seq(Messages) /\ begun \in Seq(Messages)
      /\ others \in SUBSET Messages /\ Ordered(queue)
      /\ running \subseteq ToSet(begun) /\ Len(queue) \in Nat
  BY QueueElements DEF TypeOK, OrderInv
<1>2. /\ queue' \in Seq(Messages) /\ Len(queue') <= Len(queue)
      /\ begun' \in Seq(Messages) /\ returning' \subseteq Messages
      /\ Ordered(queue)'
      /\ ToSet(begun') \cup ToSet(queue') = ToSet(begun) \cup ToSet(queue)
      /\ running' \subseteq ToSet(begun') /\ NoLostWakeup'
  BY <1>1, LoopMoves
<1>3. TypeOK'
  <2>1. running' \subseteq Messages
    BY <1>2, QueueElements
  <2>2. Len(queue') <= Capacity
    BY <1>1, <1>2, QueueElements DEF TypeOK
  <2> QED  BY <1>2, <2>1, <2>2 DEF TypeOK
<1>4. SentInOrder' /\ OrderInv' /\ CountInv'
  BY <1>2 DEF SentInOrder, OrderInv, CountInv
<1>5. DroppedForNewer'
  BY DEF DroppedForNewer, Overflowed
<1> QED  BY <1>2, <1>3, <1>4, <1>5

(* Flags may change, as long as they do not open or resume the mailbox.      *)
LEMMA FlagsKeep ==
    ASSUME Inv, closed' \in BOOLEAN, suspended' \in BOOLEAN,
           closed => closed', suspended => suspended',
           UNCHANGED <<policy, queue, droppedMessageCount, running, returning,
                       deferred, deadLetters, begun>>,
           undecided' \subseteq Messages, lost' \subseteq Messages
    PROVE  Inv'
<1> USE DEF Inv
<1>1. TypeOK'
  BY DEF TypeOK
<1>2. SentInOrder' /\ OrderInv' /\ CountInv'
  BY DEF SentInOrder, OrderInv, Ordered, CountInv
<1>3. NoLostWakeup'
  BY DEF NoLostWakeup, IsReceivable
<1>4. DroppedForNewer'
  BY DEF DroppedForNewer, Overflowed
<1> QED  BY <1>1, <1>2, <1>3, <1>4

-----------------------------------------------------------------------------
(* The theorems *)

LEMMA InvInit == Init => Inv
<1> SUFFICES ASSUME Init  PROVE Inv
  OBVIOUS
<1> USE DEF Init
<1>1. TypeOK
  <2>1. /\ queue \in Seq(Messages) /\ begun \in Seq(Messages)
        /\ Len(queue) = 0
    BY EmptyQueue
  <2>2. /\ policy \in Policies /\ closed \in BOOLEAN /\ suspended \in BOOLEAN
        /\ droppedMessageCount \in Nat
        /\ deferred \in [Messages -> PromiseStates]
    BY DEF PromiseStates
  <2> QED  BY <2>1, <2>2 DEF TypeOK
<1>2. Accepted(deferred) = {} /\ Dropped(deferred) = {} /\ Refused(deferred) = {}
  BY DEF Accepted, Dropped, Refused
<1>3. SentInOrder
  BY DEF SentInOrder
<1>4. OrderInv
  <2>1. Len(queue) = 0 /\ Len(begun) = 0
    OBVIOUS
  <2> QED  BY <1>2, <2>1, EmptyQueue DEF OrderInv, Ordered, Increasing
<1>5. CountInv
  BY <1>2, FS_EmptySet DEF CountInv
<1>6. NoLostWakeup
  BY DEF NoLostWakeup, IsReceivable
<1>7. DroppedForNewer
  BY <1>2 DEF DroppedForNewer, Overflowed, Dropped
<1> QED  BY <1>1, <1>3, <1>4, <1>5, <1>6, <1>7 DEF Inv

LEMMA InvStep == Inv /\ [Next]_vars => Inv'
<1> SUFFICES ASSUME Inv, [Next]_vars  PROVE Inv'
  OBVIOUS
<1>0. /\ closed \in BOOLEAN /\ suspended \in BOOLEAN
      /\ undecided \subseteq Messages /\ lost \subseteq Messages
  BY DEF Inv, TypeOK
<1>1. ASSUME NEW m \in Messages, Send(m)  PROVE Inv'
  BY <1>1, SendClosedKeeps, SendBelowCapacityKeeps, DropNewestKeeps, DropOldestKeeps
     DEF Send, HandleOverflow
<1>2. ASSUME NEW m \in Messages, Handler(m)  PROVE Inv'
  BY <1>2, HandlerKeeps
<1>3. ASSUME NEW m \in Messages, LoopContinues(m)  PROVE Inv'
  BY <1>0, <1>3, LoopKeeps DEF LoopContinues, supervisionVars
<1>4. ASSUME NEW m \in Messages, DecideResume(m)  PROVE Inv'
  BY <1>0, <1>4, LoopKeeps DEF DecideResume, Resume
<1>5. ASSUME NEW m \in Messages, DecideNothing(m)  PROVE Inv'
  <2>1. undecided' \subseteq Messages /\ lost' \subseteq Messages
    BY <1>0, <1>5 DEF DecideNothing
  <2>2. UNCHANGED <<policy, closed, queue, droppedMessageCount, running,
                    returning, deferred, deadLetters, begun>>
    BY <1>5 DEF DecideNothing, loopVars
  <2>3. suspended' = suspended \/ suspended' = TRUE
    BY <1>5 DEF DecideNothing
  <2>4. suspended' \in BOOLEAN /\ (suspended => suspended')
    <3>1. CASE suspended' = suspended
      BY <1>0, <3>1
    <3>2. CASE suspended' = TRUE
      BY <3>2
    <3> QED  BY <2>3, <3>1, <3>2
  <2>5. closed' \in BOOLEAN /\ (closed => closed')
    BY <1>0, <2>2
  <2> QED  BY <2>1, <2>2, <2>4, <2>5, FlagsKeep
<1>6. CASE Close
  BY <1>0, <1>6, FlagsKeep DEF Close, loopVars, supervisionVars
<1>7. CASE UNCHANGED vars
  BY <1>0, <1>7, FlagsKeep DEF vars, loopVars, supervisionVars
<1> QED  BY <1>1, <1>2, <1>3, <1>4, <1>5, <1>6, <1>7 DEF Next, Decide

LEMMA Invariant == Spec => []Inv
  BY InvInit, InvStep, PTL DEF Spec

(* Every variable keeps its type; the queue never passes the capacity. *)
THEOREM TypeCorrect == Spec => []TypeOK
<1>1. Inv => TypeOK
  BY DEF Inv
<1> QED  BY <1>1, Invariant, PTL

(* dispatch() without a guard: whatever is sent, resumed or decided while    *)
(* several loops run, something to receive always has a loop that will look. *)
THEOREM NoLostWakeupHolds == Spec => []NoLostWakeup
<1>1. Inv => NoLostWakeup
  BY DEF Inv
<1> QED  BY <1>1, Invariant, PTL

(* Whatever handleOverflow() drops or refuses is counted once, told to its   *)
(* sender and never handled; the dead letters are exactly the refusals.      *)
THEOREM DropsAreAccountedHolds == Spec => []DropsAreAccounted
<1>1. Inv => DropsAreAccounted
  BY DEF Inv, CountInv, OrderInv, DropsAreAccounted, Overflowed, Dropped, Refused,
         Accepted
<1> QED  BY <1>1, Invariant, PTL

(* The kept messages are begun in the order in which they were sent.         *)
THEOREM AcceptanceOrderHolds == Spec => []AcceptanceOrder
<1>1. Inv => AcceptanceOrder
  <2> SUFFICES ASSUME Inv  PROVE AcceptanceOrder
    OBVIOUS
  <2> DEFINE kept == begun \o queue
  <2>1. /\ begun \in Seq(Messages) /\ queue \in Seq(Messages)
        /\ Len(begun) \in Nat /\ Len(queue) \in Nat
    BY QueueElements DEF Inv, TypeOK
  <2>2. /\ kept \in Seq(Messages) /\ Len(kept) = Len(begun) + Len(queue)
        /\ \A i \in 1..Len(begun) : kept[i] = begun[i]
        /\ \A i \in 1..Len(queue) : kept[i + Len(begun)] = queue[i]
    BY <2>1
  <2>3. \A i \in 1..Len(kept) : \/ i \in 1..Len(begun)
                                \/ /\ i - Len(begun) \in 1..Len(queue)
                                   /\ kept[i] = queue[i - Len(begun)]
    BY <2>1, <2>2
  <2> HIDE DEF kept
  <2>4. Ordered(queue)
    BY DEF Inv, OrderInv
  <2>5. ASSUME NEW i \in 1..Len(kept), NEW j \in 1..Len(kept), i < j
        PROVE  kept[i] < kept[j]
    <3>1. CASE i \in 1..Len(begun) /\ j \in 1..Len(begun)
      BY <2>2, <2>4, <2>5, <3>1 DEF Ordered, Increasing
    <3>2. CASE i \in 1..Len(begun) /\ j \notin 1..Len(begun)
      BY <2>2, <2>3, <2>4, <3>2 DEF Ordered
    <3>3. CASE i \notin 1..Len(begun)
      <4> DEFINE x == i - Len(begun)
                 y == j - Len(begun)
      <4>1. /\ x \in 1..Len(queue) /\ kept[i] = queue[x]
            /\ j \notin 1..Len(begun)
        BY <2>1, <2>2, <2>3, <2>5, <3>3
      <4>2. y \in 1..Len(queue) /\ kept[j] = queue[y] /\ x < y
        BY <2>1, <2>2, <2>3, <2>5, <4>1
      <4> HIDE DEF x, y
      <4> QED  BY <2>4, <4>1, <4>2 DEF Ordered, Increasing
    <3> QED  BY <3>1, <3>2, <3>3
  <2>6. ToSet(kept) = ToSet(begun) \cup ToSet(queue)
    BY <2>1, <2>2, ConcatElements DEF kept
  <2> QED  BY <2>5, <2>6 DEF AcceptanceOrder, Inv, OrderInv, Accepted, kept
<1> QED  BY <1>1, Invariant, PTL

(* DropOldest drops nothing that fewer newer messages than the capacity have *)
(* followed.                                                                 *)
THEOREM DroppedForNewerHolds == Spec => []DroppedForNewer
<1>1. Inv => DroppedForNewer
  BY DEF Inv
<1> QED  BY <1>1, Invariant, PTL
=============================================================================
