------------------------- MODULE AwaitedCallsProofs -------------------------
(***************************************************************************)
(* What holds of AwaitedCalls for every set of actors and messages and     *)
(* whatever the handlers call and await, checked by TLAPS.                 *)
(***************************************************************************)
EXTENDS AwaitedCalls, QueueLemmas, WellFoundedInduction

USE CallsAssumption

(* An actor's mailbox and its loop hold messages for this actor, each once,  *)
(* that are not answered yet.                                                *)
Waiting(a, messages) ==
    /\ messages \in Seq(Messages) /\ IsInjective(messages)
    /\ \A m \in ToSet(messages) : Target[m] = a /\ promise[m] = "pending"

LoopInv(a) ==
    /\ loop[a] # "idle" => current[a] \in Messages /\ Target[current[a]] = a
    /\ loop[a] = "awaiting" => /\ promise[current[a]] = "pending"
                               /\ current[a] \notin ToSet(queue[a])
    /\ loop[a] = "returning" => promise[current[a]] = "resolved"

(* A handler that has begun runs or has ended, in the latter case with all   *)
(* calls made and those it awaits answered; it has sent its calls so far, no *)
(* one of them to itself, and has the answers it awaits but for the last.    *)
HandlerInv(m) ==
    /\ made[m] > 0 => \/ promise[m] = "resolved"
                      \/ loop[Target[m]] = "awaiting" /\ current[Target[m]] = m
    /\ promise[m] = "resolved" => made[m] = Len(Calls[m])
    /\ \A i \in 1..made[m] :
          /\ Calls[m][i] # m
          /\ promise[Calls[m][i]] # "unsent"
          /\ (i < made[m] \/ promise[m] = "resolved") /\ Calls[m][i] \in Awaited
                 => promise[Calls[m][i]] = "resolved"

Inv == /\ TypeOK
       /\ \A a \in Actors : Waiting(a, queue[a]) /\ LoopInv(a)
       /\ \A m \in Messages : HandlerInv(m)

-----------------------------------------------------------------------------
(* The mailboxes *)

LEMMA WaitingEnds ==
    ASSUME NEW a \in Actors, Waiting(a, queue[a]), NEW m \in Messages,
           Target[m] = a, promise[m] = "unsent"
    PROVE  LET messages == Append(queue[a], m)
           IN  /\ messages \in Seq(Messages) /\ messages # <<>>
               /\ IsInjective(messages)
               /\ ToSet(messages) = ToSet(queue[a]) \cup {m}
<1> DEFINE q == queue[a]
<1>1. /\ q \in Seq(Messages) /\ IsInjective(q) /\ m \notin ToSet(q)
  BY DEF Waiting
<1> HIDE DEF q
<1>2. /\ Append(q, m) \in Seq(Messages) /\ Append(q, m) # <<>>
      /\ IsInjective(Append(q, m))
      /\ ToSet(Append(q, m)) = ToSet(q) \cup {m}
  BY <1>1, QueueEnds, InjectiveQueueEnds
<1> QED  BY <1>2 DEF q

(* Whoever enters the loop takes the first message of the queue it finds.    *)
LEMMA DispatchTakes ==
    ASSUME TypeOK, NEW a \in Actors, NEW messages \in Seq(Messages),
           IsInjective(messages), DispatchLoop(a, messages)
    PROVE  /\ queue' \in [Actors -> Seq(Messages)]
           /\ loop' \in [Actors -> {"idle", "awaiting", "returning"}]
           /\ current' \in [Actors -> Messages \cup {NoMessage}]
           /\ \A b \in Actors \ {a} : /\ queue'[b] = queue[b] /\ loop'[b] = loop[b]
                                      /\ current'[b] = current[b]
           /\ IsInjective(queue'[a]) /\ ToSet(queue'[a]) \subseteq ToSet(messages)
           /\ \/ /\ loop'[a] = "awaiting"
                 /\ current'[a] \in ToSet(messages) \ ToSet(queue'[a])
              \/ messages = <<>> /\ loop'[a] = "idle"
<1>1. CASE messages # <<>>
  <2>1. /\ queue' = [queue EXCEPT ![a] = Tail(messages)]
        /\ loop' = [loop EXCEPT ![a] = "awaiting"]
        /\ current' = [current EXCEPT ![a] = Head(messages)]
    BY <1>1 DEF DispatchLoop
  <2>2. /\ Head(messages) \in Messages /\ Tail(messages) \in Seq(Messages)
        /\ ToSet(messages) = ToSet(Tail(messages)) \cup {Head(messages)}
        /\ IsInjective(Tail(messages)) /\ Head(messages) \notin ToSet(Tail(messages))
    BY <1>1, QueueBegins, InjectiveQueueBegins
  <2> QED  BY <2>1, <2>2 DEF TypeOK
<1>2. CASE messages = <<>>
  <2>1. /\ queue' = [queue EXCEPT ![a] = messages]
        /\ loop' = [loop EXCEPT ![a] = "idle"]
        /\ current' = [current EXCEPT ![a] = NoMessage]
    BY <1>2 DEF DispatchLoop
  <2> QED  BY <1>2, <2>1 DEF TypeOK
<1> QED  BY <1>1, <1>2

(* A call disturbs no handler that runs. *)
LEMMA SendKeeps ==
    ASSUME Inv, NEW m \in Messages, Send(m)
    PROVE  /\ queue' \in [Actors -> Seq(Messages)]
           /\ loop' \in [Actors -> {"idle", "awaiting", "returning"}]
           /\ current' \in [Actors -> Messages \cup {NoMessage}]
           /\ promise[m] = "unsent"
           /\ promise' = [promise EXCEPT ![m] = "pending"]
           /\ promise' \in [Messages -> {"unsent", "pending", "resolved"}]
           /\ \A b \in Actors : Waiting(b, queue[b])' /\ LoopInv(b)'
           /\ \A b \in Actors : loop[b] = "awaiting" =>
                                  UNCHANGED <<loop[b], current[b]>>
<1> DEFINE a == Target[m]
           messages == Append(queue[a], m)
<1>1. /\ a \in Actors /\ promise[m] = "unsent"
      /\ promise' = [promise EXCEPT ![m] = "pending"]
      /\ promise' \in [Messages -> {"unsent", "pending", "resolved"}]
      /\ \/ loop[a] = "idle" /\ DispatchLoop(a, messages)
         \/ /\ loop[a] # "idle" /\ queue' = [queue EXCEPT ![a] = messages]
            /\ UNCHANGED <<loop, current>>
  BY DEF Inv, TypeOK, Send
<1>2. /\ messages \in Seq(Messages) /\ messages # <<>> /\ IsInjective(messages)
      /\ ToSet(messages) = ToSet(queue[a]) \cup {m}
  BY <1>1, WaitingEnds DEF Inv
<1>3. \A n \in ToSet(messages) : Target[n] = a /\ promise'[n] = "pending"
                                 /\ n \in Messages
  <2>1. ToSet(messages) \subseteq Messages
    BY <1>2, QueueElements
  <2> QED  BY <1>1, <1>2, <2>1 DEF Inv, TypeOK, Waiting
<1>4. \A b \in Actors : \A n \in ToSet(queue[b]) :
          n \in Messages /\ Target[n] = b /\ promise'[n] = "pending"
  <2>1. \A b \in Actors : ToSet(queue[b]) \subseteq Messages
    BY QueueElements DEF Inv, TypeOK
  <2> QED  BY <1>1, <2>1 DEF Inv, TypeOK, Waiting
<1>5. \A b \in Actors : LoopInv(b) /\ Waiting(b, queue[b])
  BY DEF Inv
<1> HIDE DEF messages, a
<1>6. CASE loop[a] = "idle" /\ DispatchLoop(a, messages)
  <2>1. /\ queue' \in [Actors -> Seq(Messages)]
        /\ loop' \in [Actors -> {"idle", "awaiting", "returning"}]
        /\ current' \in [Actors -> Messages \cup {NoMessage}]
        /\ \A b \in Actors \ {a} : /\ queue'[b] = queue[b] /\ loop'[b] = loop[b]
                                   /\ current'[b] = current[b]
        /\ IsInjective(queue'[a]) /\ ToSet(queue'[a]) \subseteq ToSet(messages)
        /\ loop'[a] = "awaiting"
        /\ current'[a] \in ToSet(messages) \ ToSet(queue'[a])
    BY <1>1, <1>2, <1>6, DispatchTakes DEF Inv
  <2>2. Waiting(a, queue[a])' /\ LoopInv(a)'
    BY <1>1, <1>3, <2>1 DEF Waiting, LoopInv
  <2>3. ASSUME NEW b \in Actors \ {a}  PROVE Waiting(b, queue[b])' /\ LoopInv(b)'
    <3>1. Waiting(b, queue[b])'
      BY <1>4, <1>5, <2>1 DEF Waiting
    <3>2. LoopInv(b)'
      BY <1>1, <1>5, <2>1 DEF LoopInv, Inv, TypeOK
    <3> QED  BY <3>1, <3>2
  <2> QED  BY <1>1, <1>6, <2>1, <2>2, <2>3
<1>7. CASE /\ loop[a] # "idle" /\ queue' = [queue EXCEPT ![a] = messages]
           /\ UNCHANGED <<loop, current>>
  <2>1. /\ queue' \in [Actors -> Seq(Messages)] /\ queue'[a] = messages
        /\ \A b \in Actors \ {a} : queue'[b] = queue[b]
    BY <1>1, <1>2, <1>7 DEF Inv, TypeOK
  <2>2. \A b \in Actors : Waiting(b, queue[b])'
    BY <1>2, <1>3, <1>4, <1>5, <2>1 DEF Waiting
  <2>3. \A b \in Actors : LoopInv(b)'
    BY <1>1, <1>2, <1>5, <1>7, <2>1 DEF LoopInv, Inv, TypeOK
  <2> QED  BY <1>1, <1>7, <2>1, <2>2, <2>3 DEF Inv, TypeOK
<1> QED  BY <1>1, <1>6, <1>7

-----------------------------------------------------------------------------
(* The actions *)

LEMMA ClientSendsKeeps ==
    ASSUME Inv, NEW m \in Messages, ClientSends(m)
    PROVE  Inv'
<1>1. Send(m) /\ made' = made
  BY DEF ClientSends
<1>2. TypeOK'
  BY <1>1, SendKeeps DEF Inv, TypeOK
<1>3. ASSUME NEW n \in Messages  PROVE HandlerInv(n)'
  <2>1. /\ HandlerInv(n) /\ HandlerInv(m) /\ Target[n] \in Actors
        /\ made[n] \in Nat /\ made[m] \in Nat /\ made[n] <= Len(Calls[n])
        /\ promise \in [Messages -> {"unsent", "pending", "resolved"}]
    BY DEF Inv, TypeOK
  <2>2. \A i \in 1..made[n] : Calls[n][i] \in Messages
    BY <2>1
  <2>3. n # m => promise'[n] = promise[n]
    BY <1>1, <2>1, SendKeeps
  <2>4. n = m => promise'[n] = "pending" /\ promise[n] = "unsent"
    BY <1>1, <2>1, SendKeeps
  <2>5. made[n] > 0 => promise[n] # "unsent"
    BY <2>1 DEF HandlerInv, Inv, LoopInv
  <2>6. made[n] > 0 => \/ promise'[n] = "resolved"
                       \/ loop'[Target[n]] = "awaiting" /\ current'[Target[n]] = n
    BY <1>1, <2>1, <2>3, <2>4, <2>5, SendKeeps DEF HandlerInv
  <2>7. \A i \in 1..made[n] : Calls[n][i] # m
    BY <1>1, <2>1, SendKeeps DEF HandlerInv
  <2>8. \A i \in 1..made[n] : promise'[Calls[n][i]] = promise[Calls[n][i]]
    BY <1>1, <2>1, <2>2, <2>7, SendKeeps
  <2> QED  BY <1>1, <2>1, <2>3, <2>4, <2>6, <2>8 DEF HandlerInv
<1> QED  BY <1>1, <1>2, <1>3, SendKeeps DEF Inv

LEMMA HandlerCallsKeeps ==
    ASSUME Inv, NEW a \in Actors, HandlerCalls(a)
    PROVE  Inv'
<1> DEFINE h == current[a]
           c == Calls[h][made[h] + 1]
<1>1. /\ h \in Messages /\ Target[h] = a /\ promise[h] = "pending"
      /\ loop[a] = "awaiting"
  BY DEF Inv, LoopInv, HandlerCalls
<1>2. /\ made[h] \in Nat /\ made[h] < Len(Calls[h]) /\ Len(Calls[h]) \in Nat
      /\ MayGoOn(h) /\ made' = [made EXCEPT ![h] = @ + 1]
  BY <1>1 DEF Inv, TypeOK, HandlerCalls
<1>3. c \in Messages /\ Send(c)
  <2>1. Calls[h] \in Seq(Messages)
    BY <1>1
  <2> QED  BY <1>2, <2>1 DEF HandlerCalls
<1> HIDE DEF c, h
<1>4. /\ promise[c] = "unsent" /\ promise' = [promise EXCEPT ![c] = "pending"]
      /\ promise \in [Messages -> {"unsent", "pending", "resolved"}]
      /\ made \in [Messages -> Nat] /\ made' \in [Messages -> Nat]
      /\ c # h
  <2>1. promise[c] = "unsent" /\ promise' = [promise EXCEPT ![c] = "pending"]
    BY <1>3, SendKeeps
  <2>2. c # h
    BY <1>1, <2>1
  <2>3. made \in [Messages -> Nat] /\ made' \in [Messages -> Nat]
    BY <1>1, <1>2 DEF Inv, TypeOK
  <2> QED  BY <2>1, <2>2, <2>3 DEF Inv, TypeOK
<1>5. TypeOK'
  <2>1. \A n \in Messages : made'[n] <= Len(Calls[n])
    BY <1>1, <1>2, <1>4 DEF Inv, TypeOK
  <2> QED  BY <1>3, <1>4, <2>1, SendKeeps DEF TypeOK
<1>6. ASSUME NEW n \in Messages  PROVE HandlerInv(n)'
  <2>1. /\ HandlerInv(n) /\ Target[n] \in Actors
        /\ made[n] \in Nat /\ made[n] <= Len(Calls[n])
    BY DEF Inv, TypeOK
  <2>2. \A i \in 1..Len(Calls[n]) : Calls[n][i] \in Messages
    BY <2>1
  <2>3. \A i \in 1..made[n] : /\ Calls[n][i] # c
                              /\ promise'[Calls[n][i]] = promise[Calls[n][i]]
    <3>1. \A i \in 1..made[n] : i \in 1..Len(Calls[n])
      BY <2>1
    <3> QED  BY <1>4, <2>1, <2>2, <3>1 DEF HandlerInv
  <2>4. CASE n = h
    <3>1. /\ made'[n] = made[n] + 1 /\ promise'[n] = "pending"
          /\ loop'[a] = "awaiting" /\ current'[a] = n /\ Target[n] = a
      BY <1>1, <1>2, <1>3, <1>4, <2>4, SendKeeps DEF h
    <3>2. \A i \in 1..made'[n] : i \in 1..made[n] \/ i = made[n] + 1
      BY <2>1, <3>1
    <3>3. Calls[n][made[n] + 1] = c /\ promise'[c] = "pending"
      BY <1>3, <1>4, <2>4 DEF c
    <3>4. made[n] > 0 /\ Calls[n][made[n]] \in Awaited =>
              promise[Calls[n][made[n]]] = "resolved"
      BY <1>2, <2>4 DEF MayGoOn, LastCall
    <3>5. ASSUME NEW i \in 1..made'[n]
          PROVE  /\ Calls[n][i] # n
                 /\ promise'[Calls[n][i]] # "unsent"
                 /\ i < made'[n] /\ Calls[n][i] \in Awaited =>
                       promise'[Calls[n][i]] = "resolved"
      <4>1. CASE i = made[n] + 1
        BY <1>4, <2>1, <2>4, <3>1, <3>3, <4>1
      <4>2. CASE i \in 1..made[n]
        <5>1. i = made[n] \/ i < made[n]
          BY <2>1, <4>2
        <5>2. /\ Calls[n][i] # n /\ promise[Calls[n][i]] # "unsent"
              /\ i < made[n] /\ Calls[n][i] \in Awaited =>
                    promise[Calls[n][i]] = "resolved"
          BY <2>1, <4>2 DEF HandlerInv
        <5>3. promise'[Calls[n][i]] = promise[Calls[n][i]]
          BY <2>3, <4>2
        <5>4. i = made[n] => made[n] > 0
          BY <2>1, <4>2
        <5> QED  BY <3>4, <5>1, <5>2, <5>3, <5>4
      <4> QED  BY <3>2, <4>1, <4>2
    <3> QED  BY <3>1, <3>5 DEF HandlerInv
  <2>5. CASE n # h
    <3>1. made'[n] = made[n]
      BY <1>1, <1>2, <1>4, <2>5
    <3>2. n # c => promise'[n] = promise[n]
      BY <1>4
    <3>3. n = c => promise'[n] = "pending" /\ promise[n] = "unsent"
      BY <1>4
    <3>4. made[n] > 0 => promise[n] # "unsent"
      BY <2>1 DEF HandlerInv, Inv, LoopInv
    <3>5. made[n] > 0 => \/ promise'[n] = "resolved"
                         \/ loop'[Target[n]] = "awaiting" /\ current'[Target[n]] = n
      BY <1>3, <2>1, <3>2, <3>3, <3>4, SendKeeps DEF HandlerInv
    <3> QED  BY <2>1, <2>3, <3>1, <3>2, <3>3, <3>5 DEF HandlerInv
  <2> QED  BY <2>4, <2>5
<1> QED  BY <1>3, <1>5, <1>6, SendKeeps DEF Inv

LEMMA HandlerEndsKeeps ==
    ASSUME Inv, NEW a \in Actors, HandlerEnds(a)
    PROVE  Inv'
<1> DEFINE h == current[a]
<1>1. /\ h \in Messages /\ Target[h] = a /\ promise[h] = "pending"
      /\ loop[a] = "awaiting" /\ h \notin ToSet(queue[a])
      /\ MayGoOn(h) /\ made[h] = Len(Calls[h])
      /\ loop' = [loop EXCEPT ![a] = "returning"]
      /\ promise' = [promise EXCEPT ![h] = "resolved"]
      /\ UNCHANGED <<queue, current, made>>
  BY DEF Inv, LoopInv, HandlerEnds
<1>2. TypeOK'
  BY <1>1 DEF Inv, TypeOK
<1>3. ASSUME NEW b \in Actors  PROVE Waiting(b, queue[b])' /\ LoopInv(b)'
  <2>1. Waiting(b, queue[b]) /\ LoopInv(b)
    BY DEF Inv
  <2>2. h \notin ToSet(queue[b])
    BY <1>1, <2>1 DEF Waiting
  <2>3. ToSet(queue[b]) \subseteq Messages
    BY <2>1, QueueElements DEF Waiting
  <2>4. Waiting(b, queue[b])'
    BY <1>1, <2>1, <2>2, <2>3 DEF Waiting, Inv, TypeOK
  <2>5. LoopInv(b)'
    BY <1>1, <2>1 DEF LoopInv, Inv, TypeOK
  <2> QED  BY <2>4, <2>5
<1>4. ASSUME NEW n \in Messages  PROVE HandlerInv(n)'
  <2>1. /\ HandlerInv(n) /\ made[n] \in Nat /\ made[n] <= Len(Calls[n])
        /\ Calls[n] \in Seq(Messages)
        /\ promise \in [Messages -> {"unsent", "pending", "resolved"}]
    BY DEF Inv, TypeOK
  <2>2. \A i \in 1..made[n] : Calls[n][i] \in Messages
    BY <2>1
  <2>3. CASE n = h
    <3>1. made'[n] = Len(Calls[n]) /\ promise'[n] = "resolved"
      BY <1>1, <2>1, <2>3
    <3>2. ASSUME NEW i \in 1..made[n], Calls[n][i] \in Awaited
          PROVE  promise[Calls[n][i]] = "resolved"
      <4>1. CASE i < made[n]
        BY <2>1, <3>2, <4>1 DEF HandlerInv
      <4>2. CASE i = made[n]
        BY <1>1, <2>1, <2>3, <3>2, <4>2 DEF MayGoOn, LastCall
      <4> QED  BY <2>1, <4>1, <4>2
    <3>3. \A i \in 1..made[n] : promise[Calls[n][i]] = "resolved" =>
              promise'[Calls[n][i]] = "resolved"
      BY <1>1, <2>1, <2>2
    <3>4. \A i \in 1..made[n] : promise[Calls[n][i]] # "unsent" =>
              promise'[Calls[n][i]] # "unsent"
      BY <1>1, <2>1, <2>2
    <3> QED  BY <1>1, <2>1, <3>1, <3>2, <3>3, <3>4 DEF HandlerInv
  <2>4. CASE n # h
    <3>1. promise'[n] = promise[n] /\ made'[n] = made[n]
      BY <1>1, <2>1, <2>4
    <3>2. Target[n] = a => current[Target[n]] # n
      BY <2>4
    <3>3. Target[n] # a => loop'[Target[n]] = loop[Target[n]]
      BY <1>1 DEF Inv, TypeOK
    <3>4. \A i \in 1..made[n] :
              /\ promise[Calls[n][i]] = "resolved" => promise'[Calls[n][i]] = "resolved"
              /\ promise[Calls[n][i]] # "unsent" => promise'[Calls[n][i]] # "unsent"
      BY <1>1, <2>1, <2>2
    <3> QED  BY <1>1, <2>1, <3>1, <3>2, <3>3, <3>4 DEF HandlerInv
  <2> QED  BY <2>3, <2>4
<1> QED  BY <1>2, <1>3, <1>4 DEF Inv

LEMMA LoopContinuesKeeps ==
    ASSUME Inv, NEW a \in Actors, LoopContinues(a)
    PROVE  Inv'
<1> DEFINE q == queue[a]
<1>1. /\ loop[a] = "returning" /\ DispatchLoop(a, q)
      /\ UNCHANGED <<made, promise>>
      /\ q \in Seq(Messages) /\ IsInjective(q)
      /\ \A m \in ToSet(q) : Target[m] = a /\ promise[m] = "pending"
  BY DEF Inv, LoopContinues, Waiting
<1>2. ToSet(q) \subseteq Messages
  BY <1>1, QueueElements
<1> HIDE DEF q
<1>3. /\ queue' \in [Actors -> Seq(Messages)]
      /\ loop' \in [Actors -> {"idle", "awaiting", "returning"}]
      /\ current' \in [Actors -> Messages \cup {NoMessage}]
      /\ \A b \in Actors \ {a} : /\ queue'[b] = queue[b] /\ loop'[b] = loop[b]
                                 /\ current'[b] = current[b]
      /\ IsInjective(queue'[a]) /\ ToSet(queue'[a]) \subseteq ToSet(q)
      /\ \/ /\ loop'[a] = "awaiting"
            /\ current'[a] \in ToSet(q) \ ToSet(queue'[a])
         \/ loop'[a] = "idle"
  BY <1>1, DispatchTakes DEF Inv
<1>4. TypeOK'
  BY <1>1, <1>3 DEF Inv, TypeOK
<1>5. Waiting(a, queue[a])' /\ LoopInv(a)'
  BY <1>1, <1>2, <1>3 DEF Waiting, LoopInv
<1>6. ASSUME NEW b \in Actors \ {a}  PROVE Waiting(b, queue[b])' /\ LoopInv(b)'
  <2>1. Waiting(b, queue[b]) /\ LoopInv(b)
    BY DEF Inv
  <2>2. /\ queue'[b] = queue[b] /\ loop'[b] = loop[b] /\ current'[b] = current[b]
        /\ promise' = promise
    BY <1>1, <1>3
  <2>3. Waiting(b, queue[b])'
    BY <2>1, <2>2 DEF Waiting
  <2>4. LoopInv(b)'
    BY <2>1, <2>2 DEF LoopInv
  <2> QED  BY <2>3, <2>4
<1>7. ASSUME NEW n \in Messages  PROVE HandlerInv(n)'
  <2>1. HandlerInv(n) /\ Target[n] \in Actors
    BY DEF Inv
  <2>2. loop[Target[n]] = "awaiting" => UNCHANGED <<loop[Target[n]], current[Target[n]]>>
    BY <1>1, <1>3, <2>1
  <2> QED  BY <1>1, <2>1, <2>2 DEF HandlerInv
<1> QED  BY <1>4, <1>5, <1>6, <1>7 DEF Inv

-----------------------------------------------------------------------------
(* The theorems *)

LEMMA InvInit == Init => Inv
<1> SUFFICES ASSUME Init  PROVE Inv
  OBVIOUS
<1>1. TypeOK
  <2>1. <<>> \in Seq(Messages) /\ \A m \in Messages : Len(Calls[m]) \in Nat
    BY EmptyQueue
  <2> QED  BY <2>1 DEF Init, TypeOK
<1>2. \A a \in Actors : Waiting(a, queue[a]) /\ LoopInv(a)
  BY EmptyQueue DEF Init, Waiting, LoopInv
<1>3. \A m \in Messages : HandlerInv(m)
  BY DEF Init, HandlerInv
<1> QED  BY <1>1, <1>2, <1>3 DEF Inv

LEMMA InvStep == Inv /\ [Next]_vars => Inv'
<1> SUFFICES ASSUME Inv, [Next]_vars  PROVE Inv'
  OBVIOUS
<1>1. CASE UNCHANGED vars
  BY <1>1 DEF vars, Inv, TypeOK, Waiting, LoopInv, HandlerInv
<1> QED
  BY <1>1, ClientSendsKeeps, HandlerCallsKeeps, HandlerEndsKeeps, LoopContinuesKeeps
     DEF Next

LEMMA Invariant == Spec => []Inv
  BY InvInit, InvStep, PTL DEF Spec

(* Every variable keeps its type; a handler makes no more calls than it has. *)
THEOREM TypeCorrect == Spec => []TypeOK
<1>1. Inv => TypeOK
  BY DEF Inv
<1> QED  BY <1>1, Invariant, PTL

(* Whatever the handlers are, an answered caller has its awaited callees     *)
(* answered and all others sent.                                             *)
THEOREM AnswersFollowCalleesHolds == Spec => []AnswersFollowCallees
<1>1. Inv => AnswersFollowCallees
  BY DEF Inv, HandlerInv, AnswersFollowCallees
<1> QED  BY <1>1, Invariant, PTL

(* What DomoActors.md says of a self-send that is not awaited, "M1 finishes, *)
(* then M2": an actor begins it after the handler that sent it has ended.    *)
THEOREM SelfSendsFollowHolds == Spec => []SelfSendsFollow
<1>1. Inv => SelfSendsFollow
  <2> SUFFICES ASSUME Inv, NEW a \in Actors, NEW m \in Messages, Target[m] = a,
                      NEW i \in 1..made[m], Calls[m][i] = current[a]
               PROVE  promise[m] = "resolved"
    BY DEF SelfSendsFollow
  <2>1. HandlerInv(m) /\ made[m] \in Nat
    BY DEF Inv, TypeOK
  <2>2. made[m] > 0 /\ current[a] # m
    BY <2>1 DEF HandlerInv
  <2> QED  BY <2>1, <2>2 DEF HandlerInv
<1> QED  BY <1>1, Invariant, PTL

(* Who may have to wait for whom: <<b, a>> if some handler of a awaits a     *)
(* call to b.                                                                *)
CallsDown ==
    {p \in Actors \X Actors :
        \E m \in Messages : \E i \in 1..Len(Calls[m]) :
            Calls[m][i] \in Awaited /\ p = <<Target[Calls[m][i]], Target[m]>>}

(* If no chain of awaited calls goes on for ever or returns to an actor, as  *)
(* far as the handlers' texts say, then no group of actors ever waits for    *)
(* itself.  The condition says nothing of calls that are not awaited: these  *)
(* may go in circles, as those of the transfer coordinator do.               *)
THEOREM NoCircularWaitHolds ==
    ASSUME IsWellFoundedOn(CallsDown, Actors)
    PROVE  Spec => []NoCircularWait
<1>1. Inv => NoCircularWait
  <2> SUFFICES ASSUME Inv, NEW group \in SUBSET Actors, group # {}
               PROVE  \E a \in group : WaitsFor(a) \cap group = {}
    BY DEF NoCircularWait
  <2>1. PICK a \in group : \A b \in group : <<b, a>> \notin CallsDown
    BY WFMin
  <2>2. ASSUME NEW b \in WaitsFor(a)  PROVE <<b, a>> \in CallsDown
    <3> DEFINE m == current[a]
               i == made[m]
    <3>1. /\ m \in Messages /\ Target[m] = a
          /\ i > 0 /\ LastCall(m) \in Awaited /\ b = Target[LastCall(m)]
          /\ b \in Actors
      BY <2>2 DEF WaitsFor, MayGoOn, Inv, LoopInv
    <3>2. i \in 1..Len(Calls[m])
      BY <3>1 DEF Inv, TypeOK
    <3> QED  BY <3>1, <3>2 DEF CallsDown, LastCall
  <2> QED  BY <2>1, <2>2
<1> QED  BY <1>1, Invariant, PTL
=============================================================================
