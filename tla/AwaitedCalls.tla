---------------------------- MODULE AwaitedCalls ----------------------------
(***************************************************************************)
(* Actors that call each other and await the answers.  Every actor has an  *)
(* ArrayMailbox, so that it stays with the message it handles until the    *)
(* handler ends, however many messages queue up behind it; a handler that  *)
(* awaits a call cannot end before the callee handled it.                  *)
(*                                                                         *)
(* What the handlers do is a parameter: the messages each of them sends in *)
(* turn, and which of these it awaits.  Mailboxes are open and not         *)
(* suspended, and no handler fails: ArrayMailbox has the rest.             *)
(***************************************************************************)
EXTENDS Naturals, Sequences

CONSTANTS Actors,
          Messages,    \* each message is sent at most once
          NoMessage,   \* nothing is being handled
          Target,      \* the actor a message is for
          Calls,       \* the messages the handler of a message sends, in order
          Awaited      \* the messages whose senders await the answer

ASSUME CallsAssumption ==
    /\ NoMessage \notin Messages
    /\ Target \in [Messages -> Actors]
    /\ Calls \in [Messages -> Seq(Messages)]
    /\ Awaited \subseteq Messages

(* A message in no handler's calls comes from a client. *)
FromClient(m) == \A c \in Messages : \A i \in 1..Len(Calls[c]) : Calls[c][i] # m

VARIABLES queue,     \* of each actor, the messages its mailbox holds
          loop,      \* of each actor, where its dispatch loop is
          current,   \* of each actor, the message the loop took last
          made,      \* of each message, the calls its handler made so far
          promise    \* of each message, the state of its promise

vars == <<queue, loop, current, made, promise>>

TypeOK == /\ queue \in [Actors -> Seq(Messages)]
          /\ loop \in [Actors -> {"idle", "awaiting", "returning"}]
          /\ current \in [Actors -> Messages \cup {NoMessage}]
          /\ made \in [Messages -> Nat]
          /\ \A m \in Messages : made[m] <= Len(Calls[m])
          /\ promise \in [Messages -> {"unsent", "pending", "resolved"}]

Init == /\ queue = [a \in Actors |-> <<>>]
        /\ loop = [a \in Actors |-> "idle"]
        /\ current = [a \in Actors |-> NoMessage]
        /\ made = [m \in Messages |-> 0]
        /\ promise = [m \in Messages |-> "unsent"]

-----------------------------------------------------------------------------
(* dispatch() of actor a, whose mailbox holds `messages`, where no loop runs *)
(* or the running loop tests its condition again.                            *)
DispatchLoop(a, messages) ==
    \/ /\ messages # <<>>
       /\ queue' = [queue EXCEPT ![a] = Tail(messages)]
       /\ loop' = [loop EXCEPT ![a] = "awaiting"]
       /\ current' = [current EXCEPT ![a] = Head(messages)]
    \/ /\ messages = <<>>
       /\ queue' = [queue EXCEPT ![a] = messages]
       /\ loop' = [loop EXCEPT ![a] = "idle"]
       /\ current' = [current EXCEPT ![a] = NoMessage]

(* Mutation of Send: the dispatch loop is entered even if one is running. *)
SendAndDispatch(m) ==
    /\ promise[m] = "unsent"
    /\ promise' = [promise EXCEPT ![m] = "pending"]
    /\ DispatchLoop(Target[m], Append(queue[Target[m]], m))

(* A call of the proxy: the message is queued, and handled at once when no   *)
(* loop is running.                                                          *)
Send(m) ==
    LET a == Target[m]
        messages == Append(queue[a], m)
    IN  /\ promise[m] = "unsent"
        /\ promise' = [promise EXCEPT ![m] = "pending"]
        /\ \/ /\ loop[a] = "idle"
              /\ DispatchLoop(a, messages)
           \/ /\ loop[a] # "idle"
              /\ queue' = [queue EXCEPT ![a] = messages]
              /\ UNCHANGED <<loop, current>>

ClientSends(m) == FromClient(m) /\ Send(m) /\ UNCHANGED made

LastCall(m) == Calls[m][made[m]]

(* Mutation of MayGoOn: every message sent is awaited. *)
MayGoOnAwaitingAll(m) == made[m] > 0 => promise[LastCall(m)] = "resolved"

(* The handler of m is not held by an await: its last call, if it awaits the *)
(* answer, is settled.                                                       *)
MayGoOn(m) == made[m] > 0 /\ LastCall(m) \in Awaited
                  => promise[LastCall(m)] = "resolved"

(* Mutation of HandlerCalls: a call is left out after each call. *)
HandlerSkipsCalls(a) ==
    /\ loop[a] = "awaiting"
    /\ MayGoOn(current[a])
    /\ made[current[a]] < Len(Calls[current[a]])
    /\ Send(Calls[current[a]][made[current[a]] + 1])
    /\ made' = [made EXCEPT ![current[a]] = @ + 2]

HandlerCalls(a) ==
    /\ loop[a] = "awaiting"
    /\ MayGoOn(current[a])
    /\ made[current[a]] < Len(Calls[current[a]])
    /\ Send(Calls[current[a]][made[current[a]] + 1])
    /\ made' = [made EXCEPT ![current[a]] = @ + 1]

(* Mutation of HandlerEnds: the handler ends without its last answer. *)
HandlerEndsEarly(a) ==
    /\ loop[a] = "awaiting"
    /\ made[current[a]] = Len(Calls[current[a]])
    /\ loop' = [loop EXCEPT ![a] = "returning"]
    /\ promise' = [promise EXCEPT ![current[a]] = "resolved"]
    /\ UNCHANGED <<queue, current, made>>

HandlerEnds(a) ==
    /\ loop[a] = "awaiting"
    /\ MayGoOn(current[a])
    /\ made[current[a]] = Len(Calls[current[a]])
    /\ loop' = [loop EXCEPT ![a] = "returning"]
    /\ promise' = [promise EXCEPT ![current[a]] = "resolved"]
    /\ UNCHANGED <<queue, current, made>>

(* Mutation of LoopContinues: the loop ends after one message. *)
LoopEnds(a) ==
    /\ loop[a] = "returning"
    /\ loop' = [loop EXCEPT ![a] = "idle"]
    /\ current' = [current EXCEPT ![a] = NoMessage]
    /\ UNCHANGED <<queue, made, promise>>

LoopContinues(a) ==
    /\ loop[a] = "returning"
    /\ DispatchLoop(a, queue[a])
    /\ UNCHANGED <<made, promise>>

Next == \/ \E m \in Messages : ClientSends(m)
        \/ \E a \in Actors : HandlerCalls(a) \/ HandlerEnds(a) \/ LoopContinues(a)

Spec == Init /\ [][Next]_vars

(* Handlers and loops run whenever they can; clients need not send. *)
FairSpec == /\ Spec
            /\ \A a \in Actors : WF_vars(\/ HandlerCalls(a) \/ HandlerEnds(a)
                                         \/ LoopContinues(a))

-----------------------------------------------------------------------------
(* Properties *)

(* The actor whose answer the handler running in a awaits, if there is one. *)
WaitsFor(a) == {b \in Actors : /\ loop[a] = "awaiting"
                               /\ ~MayGoOn(current[a])
                               /\ b = Target[LastCall(current[a])]}

(* No circular wait: no group of actors waits, each of them, for an answer   *)
(* out of the group.  An actor that awaits a call to itself is such a group. *)
NoCircularWait ==
    \A group \in SUBSET Actors :
        group # {} => \E a \in group : WaitsFor(a) \cap group = {}

(* A handler ends after the calls it awaits: an answered caller has all its  *)
(* awaited callees answered.                                                 *)
AnswersFollowCallees ==
    \A m \in Messages : promise[m] = "resolved" =>
        \A i \in 1..Len(Calls[m]) :
            /\ promise[Calls[m][i]] # "unsent"
            /\ Calls[m][i] \in Awaited => promise[Calls[m][i]] = "resolved"

(* Self-sends that are not awaited keep their place: when an actor begins a  *)
(* message, the handler that sent it to its own actor has ended.             *)
SelfSendsFollow ==
    \A a \in Actors : \A m \in Messages :
        /\ Target[m] = a
        /\ \E i \in 1..made[m] : Calls[m][i] = current[a]
        => promise[m] = "resolved"

(* Every call is answered in the end. *)
EveryCallSettles ==
    \A m \in Messages : promise[m] = "pending" ~> promise[m] = "resolved"

SelfSent(m) == \E c \in Messages : /\ Target[c] = Target[m]
                                   /\ \E i \in 1..Len(Calls[c]) : Calls[c][i] = m

(* What DomoActors.md says of a self-send ("M1 finishes, then M2 finishes"): *)
(* the message is handled in the end.                                        *)
SelfSendsFinish ==
    \A m \in Messages :
        SelfSent(m) => (promise[m] = "pending" ~> promise[m] = "resolved")
=============================================================================
