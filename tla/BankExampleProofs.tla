------------------------- MODULE BankExampleProofs -------------------------
(***************************************************************************)
(* Proofs about the bank example: that every message runs in the context   *)
(* of its request, and that no transfer is forgotten or moved on twice.    *)
(* Both rest on what the awaits of the handlers promise, and that is       *)
(* proved first.  The timers of the scheduler come last.                   *)
(***************************************************************************)
EXTENDS BankExample, QueueLemmas

(* What the actors may be asked. *)
Callers == {Teller, Bank, Coordinator}
Names == Callers \cup Nat
SelfSent == TransferOps \cup {"recordPendingTransfer"}
AllOps == Commands \cup CoordinatorProtocol \cup AccountProtocol \cup {"stop"}

Messages == [op : AllOps, about : Requests \cup {0},
             reply : Callers \cup {Client, Nobody},
             context : Requests \cup {0}, spread : SUBSET Names]

(* The calls that the handlers await: who, in which handler, which call. *)
Awaits ==
    {<<Teller, op, op>> : op \in Commands}
    \cup {<<Bank, "openAccount", "registerAccount">>,
          <<Bank, "deposit", "deposit">>, <<Bank, "withdraw", "withdraw">>,
          <<Bank, "accountSummary", "getInfo">>,
          <<Bank, "transactionHistory", "getHistory">>,
          <<Bank, "allAccounts", "getInfo">>,
          <<Bank, "transfer", "initiateTransfer">>,
          <<Bank, "pendingTransfers", "getPendingTransfers">>,
          <<Coordinator, "initiateTransfer", "withdraw">>,
          <<Coordinator, "attemptDeposit", "deposit">>,
          <<Coordinator, "processRefund", "refund">>}

(* The messages that actor a gets, and from whom. *)
Proper(a, m) ==
    \/ m.op = "stop" /\ m.reply = Nobody /\ m.about = 0
    \/ /\ m.about \in DOMAIN workload.commands \cap Requests
       /\ \/ a = Teller /\ m.op = Command(m.about).command /\ m.reply = Client
          \/ a = Bank /\ m.op = Command(m.about).command /\ m.reply = Teller
          \/ /\ a = Coordinator /\ m.reply = Bank
             /\ m.op \in CoordinatorProtocol \ SelfSent
          \/ a = Coordinator /\ m.reply = Nobody /\ m.op \in SelfSent
          \/ /\ a \in Accounts /\ m.reply \in {Bank, Coordinator}
             /\ m.op \in AccountProtocol

Answers == Results \cup {"none", "pending", "found"}

MailInv ==
    /\ workload \in Workloads
    /\ queue \in [Actors -> Seq(Messages)]
    /\ handling \in [Actors -> Messages \cup {None}]
    /\ answer \in [Actors -> Answers] /\ infos \in Seq(Answers)
    /\ outcome \in [Requests -> Answers \cup {"unsent"}]
    /\ own \in [Actors -> Requests \cup {0}]
    /\ \A a \in Actors : \A m \in Under(a) : Proper(a, m)

(* How many messages of a set an actor has. *)
Load(a, M) == CountIn(queue[a], M) + Truth(handling[a] \in M)

(* The calls of c that are under way. *)
CallsOf(c) == {m \in Messages : m.reply = c}

(* A call under way is the one that its caller awaits. *)
Served(m) ==
    /\ m.reply \in Callers =>
           LET h == handling[m.reply]
           IN  /\ h # None /\ answer[m.reply] = "pending"
               /\ m.about = h.about
               /\ <<m.reply, h.op, m.op>> \in Awaits
    /\ m.reply = Client => outcome[m.about] = "pending"

CallInv ==
    /\ \A a \in Actors : \A m \in Under(a) : Served(m)
    /\ \A c \in Callers \cup {Client} : \A a, b \in Actors :
           /\ Load(a, CallsOf(c)) <= 1
           /\ a # b => Load(a, CallsOf(c)) = 0 \/ Load(b, CallsOf(c)) = 0

-----------------------------------------------------------------------------
(* Requests and contexts *)

Sent(i) == i = 0 \/ outcome[i] # "unsent"

RequestInv ==
    /\ \A i, j \in Requests :
           j < i /\ outcome[i] # "unsent" => outcome[j] \notin {"unsent", "pending"}
    /\ \A a \in Actors : Sent(own[a])
    /\ \A a \in Actors : \A m \in Under(a) : Sent(m.context) /\ Sent(m.about)

Ascending(q) ==
    \A j, k \in DOMAIN q : j <= k => q[j].context <= q[k].context

(* Contexts only ever grow, whatever overtakes what. *)
OrderInv ==
    /\ own[Bank] <= own[Teller]
    /\ \A a \in Actors \ {Teller, Bank} : own[a] <= own[Bank]
    /\ Ascending(queue[Teller]) /\ Ascending(queue[Bank])
    /\ \A m \in ToSet(queue[Teller]) : own[Bank] <= m.context /\ m.context <= own[Teller]
    /\ \A m \in ToSet(queue[Bank]) :
           /\ m.context <= own[Bank]
           /\ \A a \in Actors \ {Teller, Bank} : own[a] <= m.context

SpreadInv ==
    /\ \A a \in Actors \ {Teller, Bank} : \A m \in Under(a) : m.spread = {}
    /\ \A m \in Under(Teller) : m.spread = IF m.context = 0 THEN {} ELSE {Bank}
    /\ \A m \in ToSet(queue[Bank]) : /\ m.spread \subseteq {Coordinator} \cup Nat
                                     /\ m.op # "stop" => collaborators \subseteq m.spread

ContextInv ==
    /\ \A a \in Actors : \A m \in Under(a) : m.op # "stop" => m.context >= m.about
    /\ handling[Teller] # None /\ handling[Teller].op # "stop" =>
           own[Bank] >= handling[Teller].about
    /\ handling[Bank] # None /\ handling[Bank].op # "stop" =>
           own[Coordinator] >= handling[Bank].about
    /\ handling[Bank] # None /\ handling[Bank].op \notin {"stop", "openAccount"} =>
           \A a \in DOMAIN balance \cap Actors : own[a] >= handling[Bank].about
    /\ \A m \in Under(Coordinator) : m.op # "stop" => own[Coordinator] >= m.about

-----------------------------------------------------------------------------
(* Accounts and transfers *)

MoneyInv ==
    /\ initial \in Seq(Nat) /\ balance \in Seq(Nat) /\ Len(initial) = Len(balance)
    /\ registered \subseteq DOMAIN balance
    /\ collaborators = {Coordinator} \cup DOMAIN balance
    /\ handling[Bank].op = "openAccount" => balance # <<>>

Moving(i) ==
    \/ i \in timeouts
    \/ \E m \in Under(Coordinator) : m.about = i /\ m.op \in SelfSent
    \/ handling[Coordinator].op = "initiateTransfer" /\ handling[Coordinator].about = i

TransferInv ==
    \A i \in Requests : Moving(i) =>
        /\ i \in DOMAIN workload.commands
        /\ IsValid(TransferOf(i).amount)
        /\ {TransferOf(i).from, TransferOf(i).to} \subseteq registered
        /\ \A a \in {TransferOf(i).from, TransferOf(i).to, Coordinator} \cap Actors :
               own[a] >= i

Steps(i) == {m \in Messages : IsStep(m, i)}
Records(i) == {m \in Messages : m.op = "recordPendingTransfer" /\ m.about = i}

(* How many steps of transfer i there are, if the coordinator has the queue  *)
(* q, is at h, and T are the armed timers.                                   *)
StepsIn(i, q, h, T) ==
    CountIn(q, Steps(i)) + Truth(h \in Steps(i)) + Truth(i \in T)

(* A transfer is first a record that waits behind no step, then an entry of  *)
(* the map, P, with a status, v; its only step comes along with the record   *)
(* and goes when the entry is removed.                                       *)
Flow(i, q, h, v, P, T) ==
    /\ Before(q, Records(i), Steps(i)) /\ h \notin Records(i)
    /\ CountIn(q, Records(i)) + Truth(v # "none") <= 1
    /\ CountIn(q, Records(i)) = 1 => CountIn(q, Steps(i)) = 1
    /\ i \in P => v # "none"
    /\ StepsIn(i, q, h, T) <= 1
    /\ StepsIn(i, q, h, T) = 1 => i \in P \/ CountIn(q, Records(i)) = 1

Past(i) == status[i] # "none" \/ CountIn(queue[Coordinator], Records(i)) > 0

(* The command has left the mailboxes of teller and bank, for good. *)
Begun(i) ==
    /\ outcome[i] # "unsent"
    /\ \A m \in ToSet(queue[Teller]) \cup ToSet(queue[Bank]) : m.about # i

FlowOf(i) ==
    Flow(i, queue[Coordinator], handling[Coordinator], status[i], pending, timeouts)

Going(i) ==
    i \in pending /\ Coordinator \notin closed => NextSteps(i) = 1 \/ Stranded(i)

FlowInv ==
    /\ pending \subseteq Requests
    /\ status \in [Requests -> TransferStatus \cup {"none"}]
    /\ rejected \in [Requests \X Moves -> Nat]
    /\ \A i \in Requests :
        /\ FlowOf(i) /\ Going(i)
        /\ Past(i) => /\ Begun(i)
                      /\ \A m \in Under(Coordinator) :
                             m.op = "initiateTransfer" => m.about # i
    /\ handling[Coordinator].op = "processRefund" /\ answer[Coordinator] = "error" =>
           rejected[<<handling[Coordinator].about, "refund">>] > 0

-----------------------------------------------------------------------------
(* Names, messages and mailboxes *)

LEMMA ActorNames ==
    /\ Accounts \subseteq Nat \ {0} /\ Requests \subseteq Nat \ {0}
    /\ Callers \cap Nat = {} /\ Client \notin Names /\ Nobody \notin Names
    /\ Client # Nobody
    /\ Teller # Bank /\ Teller # Coordinator /\ Bank # Coordinator
    /\ Actors = Callers \cup Accounts /\ Actors \subseteq Names
<1>1. Accounts \subseteq Nat \ {0} /\ Requests \subseteq Nat \ {0}
  BY DEF Accounts, Requests
<1> QED  BY <1>1, NamesAssumption DEF Actors, Callers, Names

LEMMA NoneIsNoMessage ==
    /\ None \notin Messages /\ None.op = "none" /\ "none" \notin AllOps
    /\ \A m \in Messages : m # None
<1>1. None.op = "none" /\ "none" \notin AllOps
  BY DEF None, AllOps, Commands, Formatted, Queries, CoordinatorProtocol,
         TransferOps, AccountProtocol, Moves
<1>2. \A m \in Messages : m.op \in AllOps
  BY DEF Messages
<1> QED  BY <1>1, <1>2

LEMMA UnderIs ==
    ASSUME MailInv, NEW a \in Actors
    PROVE  /\ Under(a) = ToSet(queue[a]) \cup
                             (IF handling[a] = None THEN {} ELSE {handling[a]})
           /\ Under(a) \subseteq Messages /\ ToSet(queue[a]) \subseteq Messages
<1>1. ToSet(queue[a]) \subseteq Messages
  BY QueueElements DEF MailInv
<1> QED  BY <1>1, NoneIsNoMessage DEF MailInv, Under

(* An actor that is at a message. *)
Busy(a) == handling[a] # None \/ queue[a] # <<>>

LEMMA CurrentMessage ==
    ASSUME MailInv, NEW a \in Actors, Busy(a)
    PROVE  /\ Current(a) \in Messages /\ Current(a) \in Under(a)
           /\ Proper(a, Current(a))
           /\ Rest(a) \in [Actors -> Seq(Messages)]
           /\ \A x \in Actors \ {a} : Rest(a)[x] = queue[x]
           /\ Under(a) = ToSet(Rest(a)[a]) \cup {Current(a)}
           /\ \A M \in SUBSET Messages :
                  CountIn(Rest(a)[a], M) + Truth(Current(a) \in M) = Load(a, M)
<1>1. queue[a] \in Seq(Messages) /\ queue \in [Actors -> Seq(Messages)]
  BY DEF MailInv
<1>2. ASSUME NEW M \in SUBSET Messages
      PROVE  None \notin M /\ CountIn(queue[a], M) \in Nat
  BY <1>1, NoneIsNoMessage, CountZero
<1>3. CASE handling[a] = None
  <2>1. queue[a] # <<>>
    BY <1>3 DEF Busy
  <2>2. Current(a) = Head(queue[a]) /\ Rest(a) = [queue EXCEPT ![a] = Tail(@)]
    BY <1>3 DEF Current, Rest
  <2>3. /\ Head(queue[a]) \in Messages /\ Tail(queue[a]) \in Seq(Messages)
        /\ ToSet(queue[a]) = ToSet(Tail(queue[a])) \cup {Head(queue[a])}
    BY <1>1, <2>1, QueueBegins
  <2>4. Rest(a)[a] = Tail(queue[a])
    BY <1>1, <2>2
  <2>5. Under(a) = ToSet(queue[a])
    BY <1>3, UnderIs
  <2>6. ASSUME NEW M \in SUBSET Messages
        PROVE  CountIn(Rest(a)[a], M) + Truth(Current(a) \in M) = Load(a, M)
    <3>1. CountIn(queue[a], M) =
              CountIn(Tail(queue[a]), M) + IF Head(queue[a]) \in M THEN 1 ELSE 0
      BY <1>1, <2>1, CountBegins
    <3>2. Load(a, M) = CountIn(queue[a], M)
      BY <1>2, <1>3 DEF Load, Truth
    <3> QED  BY <2>2, <2>4, <3>1, <3>2 DEF Truth
  <2> QED
    BY <1>1, <2>2, <2>3, <2>4, <2>5, <2>6 DEF MailInv
<1>4. CASE handling[a] # None
  <2>1. Current(a) = handling[a] /\ Rest(a) = queue
    BY <1>4 DEF Current, Rest
  <2>2. Under(a) = ToSet(queue[a]) \cup {handling[a]} /\ handling[a] \in Messages
    BY <1>4, UnderIs DEF MailInv
  <2> QED
    BY <1>1, <2>1, <2>2 DEF MailInv, Load
<1> QED  BY <1>3, <1>4

(* The mailboxes after the step of an actor that goes on with its message or *)
(* has ended it, and has sent messages to one actor.                         *)
Shifts(a, kept, b, news) ==
    /\ handling' = [handling EXCEPT ![a] = IF kept THEN Current(a) ELSE None]
    /\ queue' = [Rest(a) EXCEPT ![b] = @ \o news]

Kept(a, kept, M) == IF kept THEN 0 ELSE Truth(Current(a) \in M)

LEMMA ShiftedMail ==
    ASSUME MailInv, NEW a \in Actors, Busy(a), NEW kept \in BOOLEAN,
           NEW b, NEW news \in Seq(Messages), Shifts(a, kept, b, news)
    PROVE  /\ queue' \in [Actors -> Seq(Messages)]
           /\ handling' \in [Actors -> Messages \cup {None}]
           /\ \A x \in Actors :
                 /\ ToSet(queue'[x]) = ToSet(Rest(a)[x]) \cup
                                           (IF x = b THEN ToSet(news) ELSE {})
                 /\ Under(x)' \subseteq
                        Under(x) \cup (IF x = b THEN ToSet(news) ELSE {})
                 /\ \A M \in SUBSET Messages :
                        /\ Load(x, M) \in Nat
                        /\ Load(x, M)' =
                            Load(x, M) - (IF x = a THEN Kept(a, kept, M) ELSE 0)
                            + (IF x = b THEN CountIn(news, M) ELSE 0)
<1>1. /\ Current(a) \in Messages /\ Rest(a) \in [Actors -> Seq(Messages)]
      /\ \A x \in Actors \ {a} : Rest(a)[x] = queue[x]
      /\ Under(a) = ToSet(Rest(a)[a]) \cup {Current(a)}
  BY CurrentMessage
<1>2. /\ handling' \in [Actors -> Messages \cup {None}]
      /\ handling'[a] = IF kept THEN Current(a) ELSE None
      /\ \A x \in Actors \ {a} : handling'[x] = handling[x]
  BY <1>1 DEF Shifts, MailInv
<1>3. ASSUME NEW x \in Actors
      PROVE  /\ queue'[x] = IF x = b THEN Rest(a)[x] \o news ELSE Rest(a)[x]
             /\ queue'[x] \in Seq(Messages)
             /\ ToSet(queue'[x]) = ToSet(Rest(a)[x]) \cup
                                       (IF x = b THEN ToSet(news) ELSE {})
             /\ \A M \in SUBSET Messages :
                    /\ CountIn(Rest(a)[x], M) \in Nat
                    /\ CountIn(queue'[x], M) =
                          CountIn(Rest(a)[x], M)
                          + (IF x = b THEN CountIn(news, M) ELSE 0)
  <2>1. Rest(a)[x] \in Seq(Messages)
    BY <1>1
  <2>2. queue'[x] = IF x = b THEN Rest(a)[x] \o news ELSE Rest(a)[x]
    BY <1>1 DEF Shifts
  <2> DEFINE r == Rest(a)[x]
             q == queue'[x]
  <2> HIDE DEF r, q
  <2>3. r \in Seq(Messages) /\ q = IF x = b THEN r \o news ELSE r
    BY <2>1, <2>2 DEF r, q
  <2>4. /\ r \o news \in Seq(Messages)
        /\ ToSet(r \o news) = ToSet(r) \cup ToSet(news)
        /\ \A M : CountIn(r \o news, M) = CountIn(r, M) + CountIn(news, M)
        /\ \A M : CountIn(r, M) \in Nat
    <3>1. r \o news \in Seq(Messages) /\ ToSet(r \o news) = ToSet(r) \cup ToSet(news)
      BY <2>3, ConcatPlaces, ConcatElements
    <3>2. ASSUME NEW M
          PROVE  /\ CountIn(r \o news, M) = CountIn(r, M) + CountIn(news, M)
                 /\ CountIn(r, M) \in Nat
      <4>1. CountIn(r \o news, M) = CountIn(r, M) + CountIn(news, M)
        BY <2>3, CountConcat
      <4>2. CountIn(r, M) \in Nat
        BY <2>3, CountZero
      <4> QED  BY <4>1, <4>2
    <3> QED  BY <3>1, <3>2
  <2>5. /\ q \in Seq(Messages)
        /\ ToSet(q) = ToSet(r) \cup (IF x = b THEN ToSet(news) ELSE {})
        /\ \A M \in SUBSET Messages :
              CountIn(q, M) = CountIn(r, M) + (IF x = b THEN CountIn(news, M) ELSE 0)
    BY <2>3, <2>4
  <2> QED  BY <2>2, <2>4, <2>5 DEF r, q
<1>4. queue' \in [Actors -> Seq(Messages)]
  <2>1. DOMAIN queue' = Actors /\ queue' = [x \in Actors |-> queue'[x]]
    BY <1>1 DEF Shifts
  <2> QED  BY <1>3, <2>1
<1>5. ASSUME NEW x \in Actors
      PROVE  Under(x)' \subseteq
                 Under(x) \cup (IF x = b THEN ToSet(news) ELSE {})
  <2>1. Under(x)' = (ToSet(queue'[x]) \cup {handling'[x]}) \ {None}
    BY DEF Under
  <2>2. Under(x) = (ToSet(queue[x]) \cup {handling[x]}) \ {None}
    BY DEF Under
  <2>3. CASE x = a
    BY <1>1, <1>2, <1>3, <2>1, <2>3
  <2>4. CASE x # a
    BY <1>1, <1>2, <1>3, <2>1, <2>2, <2>4
  <2> QED  BY <2>3, <2>4
<1>6. ASSUME NEW x \in Actors, NEW M \in SUBSET Messages
      PROVE  /\ Load(x, M) \in Nat
             /\ Load(x, M)' =
                     Load(x, M) - (IF x = a THEN Kept(a, kept, M) ELSE 0)
                     + (IF x = b THEN CountIn(news, M) ELSE 0)
  <2>1. Load(x, M)' = CountIn(queue'[x], M) + Truth(handling'[x] \in M)
    BY DEF Load, Truth
  <2>2. CountIn(Rest(a)[x], M) \in Nat /\ CountIn(news, M) \in Nat
    BY <1>3, CountZero
  <2>3. CASE x = a
    <3>1. CountIn(Rest(a)[a], M) + Truth(Current(a) \in M) = Load(a, M)
      BY CurrentMessage
    <3>2. None \notin M
      BY NoneIsNoMessage
    <3>3. Truth(handling'[x] \in M) = Truth(Current(a) \in M) - Kept(a, kept, M)
      BY <1>2, <2>3, <3>2 DEF Kept, Truth
    <3>4. /\ Truth(Current(a) \in M) \in Nat
          /\ Truth(Current(a) \in M) - Kept(a, kept, M) \in Nat
          /\ Kept(a, kept, M) \in Nat
      BY DEF Kept, Truth
    <3>5. CountIn(queue'[x], M) = CountIn(Rest(a)[a], M)
                                  + (IF x = b THEN CountIn(news, M) ELSE 0)
      BY <1>3, <2>3
    <3> QED  BY <2>1, <2>2, <2>3, <3>1, <3>3, <3>4, <3>5
  <2>4. CASE x # a
    <3>1. handling'[x] = handling[x] /\ Rest(a)[x] = queue[x]
      BY <1>1, <1>2, <2>4
    <3>2. Load(x, M) = CountIn(Rest(a)[x], M) + Truth(handling[x] \in M)
      BY <3>1 DEF Load
    <3>3. Truth(handling[x] \in M) \in Nat
      BY DEF Truth
    <3>4. CountIn(queue'[x], M) = CountIn(Rest(a)[x], M)
                                  + (IF x = b THEN CountIn(news, M) ELSE 0)
      BY <1>3
    <3> QED  BY <2>1, <2>2, <2>4, <3>1, <3>2, <3>3, <3>4
  <2> QED  BY <2>3, <2>4
<1> QED  BY <1>2, <1>3, <1>4, <1>5, <1>6

-----------------------------------------------------------------------------
(* The steps of the actors, as far as their messages are concerned. *)

Settled == Answers \ {"none", "pending"}

(* The handler of an actor begins, or goes on. *)
Turns(a) ==
    \/ /\ a \notin closed \cup suspended /\ handling[a] = None
       /\ queue[a] # <<>> /\ Propagates(Head(queue[a]))
    \/ /\ handling[a] # None /\ UNCHANGED own
       /\ answer[a] # "pending" \/ a \in Accounts \/ handling[a].op = "stop"

(* What the coordinator looks at before it starts a transfer. *)
Feasible(i) == /\ IsValid(TransferOf(i).amount)
               /\ {TransferOf(i).from, TransferOf(i).to} \subseteq registered

Asked(a, b, op) ==
    /\ <<a, Current(a).op, op>> \in Awaits
    /\ op = "registerAccount" => balance' # <<>>
    /\ \/ a = Teller /\ b = Bank /\ handling[a] = None
       \/ /\ a = Bank /\ b = Coordinator /\ handling[a] = None
          /\ op \in CoordinatorProtocol \ SelfSent
       \/ a = Bank /\ b \in DOMAIN balance /\ op \in AccountProtocol
       \/ /\ a = Coordinator /\ op \in AccountProtocol
          /\ b \in {TransferOf(About(a)).from, TransferOf(About(a)).to} \cap Nat
          /\ handling[a] = None /\ Current(a).op = "initiateTransfer" =>
                 Feasible(About(a))

CallStep(a, b, op) == Turns(a) /\ Asked(a, b, op) /\ Calls(a, b, op)

ReturnStep(a, result) == Turns(a) /\ Ends(a, result) /\ queue' = Rest(a)

SelfStep(ops, result) ==
    /\ Turns(Coordinator)
    /\ \/ Current(Coordinator).op \in SelfSent
       \/ handling[Coordinator] # None /\ Current(Coordinator).op = "initiateTransfer"
    /\ SendsItself(Coordinator, ops, result)

HoldStep(a) ==
    /\ a \in Accounts \cup {Bank} /\ Turns(a) /\ handling[a] = None
    /\ Current(a).op # "openAccount"
    /\ handling' = [handling EXCEPT ![a] = Current(a)]
    /\ queue' = Rest(a)
    /\ \E v \in Answers : answer' = [answer EXCEPT ![a] = v]
    /\ UNCHANGED outcome

ClientStep(i) ==
    /\ Chooses(i) /\ LaysContext(i)
    /\ queue' = [queue EXCEPT ![Teller] = Append(@,
                     Message(Teller, Command(i).command, i, Client, i))]
    /\ outcome' = [outcome EXCEPT ![i] = "pending"]
    /\ UNCHANGED <<handling, answer>>

AppendStep(b, m) ==
    /\ queue' = [queue EXCEPT ![b] = Append(@, m)]
    /\ UNCHANGED <<handling, answer, outcome, own>>

StopStep(b) == AppendStep(b, Message(b, "stop", 0, Nobody, own[b]))

RetryStep(i) ==
    AppendStep(Coordinator,
               Message(Coordinator, "attemptDeposit", i, Nobody, own[Coordinator]))

QuietStep == UNCHANGED <<queue, handling, answer, outcome, own>>

MailStep ==
    \/ \E a \in Actors : \/ \E b \in Names, op \in AllOps : CallStep(a, b, op)
                         \/ \E result \in Settled : ReturnStep(a, result)
                         \/ HoldStep(a) \/ StopStep(a)
    \/ \E ops \in Seq(SelfSent), result \in Settled : SelfStep(ops, result)
    \/ \E i \in Requests : ClientStep(i)
    \/ \E i \in Requests : i \in timeouts /\ RetryStep(i)
    \/ QuietStep

LEMMA BeginsTurns ==
    ASSUME NEW a, NEW op, Begins(a, op)
    PROVE  Turns(a) /\ Current(a).op = op /\ handling[a] = None /\ Busy(a)
  BY DEF Begins, Turns, Current, Busy

LEMMA ResumesTurns ==
    ASSUME NEW a, NEW ops, "none" \notin ops, Resumes(a, ops)
    PROVE  /\ Turns(a) /\ Current(a) = handling[a] /\ Current(a).op \in ops
           /\ handling[a] # None /\ answer[a] \notin {"none", "pending"} /\ Busy(a)
<1>1. handling[a] # None
  BY NoneIsNoMessage DEF Resumes
<1> QED  BY <1>1 DEF Resumes, Turns, Current, Busy

LEMMA TurnsBusy == ASSUME NEW a, Turns(a)  PROVE Busy(a)
  BY DEF Turns, Busy

LEMMA ThrowsReturns ==
    ASSUME NEW a, Turns(a)
    PROVE  /\ Throws(a) => ReturnStep(a, "error") /\ "error" \in Settled
           /\ \A result : Returns(a, result) => ReturnStep(a, result)
  BY DEF Throws, Returns, ReturnStep, Settled, Answers, Results

LEMMA PassesOnReturns ==
    ASSUME MailInv, NEW a \in Actors, Turns(a), PassesOn(a),
           answer[a] \notin {"none", "pending"}
    PROVE  \E result \in Settled : ReturnStep(a, result)
<1>1. CASE answer[a] = "error"
  BY <1>1, ThrowsReturns DEF PassesOn
<1>2. CASE answer[a] # "error"
  BY <1>2, ThrowsReturns DEF PassesOn, MailInv, Settled
<1> QED  BY <1>1, <1>2

LEMMA CommandTypes ==
    ASSUME MailInv, NEW i \in DOMAIN workload.commands
    PROVE  /\ Command(i) \in [command : Commands, account : Nat, to : Nat,
                              amount : Int \cup {NaN}]
           /\ TransferOf(i).from \in Nat /\ TransferOf(i).to \in Nat
           /\ TransferOf(i).amount = Command(i).amount
           /\ i \in 1..Len(workload.commands) /\ Len(workload.commands) \in Nat
           /\ IsValid(Command(i).amount) => Command(i).amount \in Nat
<1>1. workload.commands \in Seq([command : Commands, account : Nat, to : Nat,
                                 amount : Int \cup {NaN}])
  BY BankAssumption DEF MailInv
<1>2. Command(i) \in [command : Commands, account : Nat, to : Nat,
                      amount : Int \cup {NaN}]
  <2> DEFINE q == workload.commands
             T == [command : Commands, account : Nat, to : Nat,
                   amount : Int \cup {NaN}]
  <2>1. q \in Seq(T) /\ i \in DOMAIN q
    BY <1>1
  <2> HIDE DEF q, T
  <2>2. q[i] \in T
    BY <2>1, QueueElements
  <2> QED  BY <2>2 DEF Command, q, T
<1>3. i \in 1..Len(workload.commands) /\ Len(workload.commands) \in Nat
  BY <1>1
<1> QED  BY <1>2, <1>3, BankAssumption DEF TransferOf, IsValid

(* Each action is one of these steps. *)

LEMMA TellerSteps ==
    ASSUME MailInv, NEW op \in Commands, TellerAsks(op) \/ TellerAnswers(op)
    PROVE  MailStep
<1>1. Teller \in Actors /\ Bank \in Names /\ op \in AllOps
  BY ActorNames DEF Callers, Names, AllOps
<1>2. CASE TellerAsks(op)
  <2>1. Begins(Teller, op)
    BY <1>2 DEF TellerAsks
  <2>2. Turns(Teller) /\ Current(Teller).op = op /\ handling[Teller] = None
    BY <2>1, BeginsTurns
  <2>3. CASE Throws(Teller)
    BY <1>1, <2>2, <2>3, ThrowsReturns DEF MailStep
  <2>4. CASE Calls(Teller, Bank, op)
    <3>1. Asked(Teller, Bank, op)
      BY <2>2 DEF Asked, Awaits, Commands, Formatted, Queries
    <3> QED  BY <1>1, <2>2, <2>4, <3>1 DEF CallStep, MailStep
  <2> QED  BY <1>2, <2>3, <2>4 DEF TellerAsks
<1>3. CASE TellerAnswers(op)
  <2>1. Resumes(Teller, {op}) /\ "none" \notin {op}
    BY <1>1, <1>3, NoneIsNoMessage DEF TellerAnswers
  <2>2. Turns(Teller) /\ answer[Teller] \notin {"none", "pending"}
    BY <2>1, ResumesTurns
  <2>3. CASE Throws(Teller)
    BY <1>1, <2>2, <2>3, ThrowsReturns DEF MailStep
  <2>4. CASE Returns(Teller, "value")
    BY <1>1, <2>2, <2>4, ThrowsReturns DEF MailStep, Settled, Answers, Results
  <2>5. CASE PassesOn(Teller)
    BY <1>1, <2>2, <2>5, PassesOnReturns DEF MailStep
  <2>6. Throws(Teller) \/ Returns(Teller, "value") \/ PassesOn(Teller)
    BY <1>3 DEF TellerAnswers, Formatted, Queries
  <2> QED  BY <2>3, <2>4, <2>5, <2>6
<1> QED  BY <1>2, <1>3

(* The steps of an actor that calls, returns or throws. *)
LEMMA CallsOrReturns ==
    ASSUME NEW a \in Actors, Turns(a)
    PROVE  /\ Throws(a) => MailStep
           /\ \A result \in Settled : Returns(a, result) => MailStep
           /\ \A b \in Names, op \in AllOps :
                 Asked(a, b, op) /\ Calls(a, b, op) => MailStep
<1>1. Throws(a) => MailStep
  BY ThrowsReturns DEF MailStep
<1>2. \A result \in Settled : Returns(a, result) => MailStep
  BY ThrowsReturns DEF MailStep
<1>3. ASSUME NEW b \in Names, NEW op \in AllOps, Asked(a, b, op), Calls(a, b, op)
      PROVE  MailStep
  BY <1>3 DEF MailStep, CallStep
<1> QED  BY <1>1, <1>2, <1>3

LEMMA SettledResults ==
    {"value", "nothing", "failure", "refusal", "error"} \subseteq Settled
  BY DEF Settled, Answers, Results

LEMMA BankCallOps ==
    /\ {"registerAccount", "initiateTransfer", "getPendingTransfers"}
           \subseteq (CoordinatorProtocol \ SelfSent) \cap AllOps
    /\ {"deposit", "withdraw", "refund", "getInfo", "getHistory"}
           \subseteq AccountProtocol \cap AllOps
    /\ SelfSent \subseteq AllOps /\ "stop" \in AllOps /\ Commands \subseteq AllOps
  BY DEF CoordinatorProtocol, SelfSent, TransferOps, AccountProtocol, Moves, AllOps

LEMMA BankSends ==
    ASSUME MoneyInv, NEW b, NEW op, op = "registerAccount" => balance' # <<>>,
           \/ <<Bank, Current(Bank).op, op>> \in Awaits /\ b = Coordinator
              /\ op \in CoordinatorProtocol \ SelfSent /\ handling[Bank] = None
           \/ <<Bank, Current(Bank).op, op>> \in Awaits /\ b \in DOMAIN balance
              /\ op \in AccountProtocol,
           Turns(Bank), Calls(Bank, b, op)
    PROVE  MailStep
<1>1. Asked(Bank, b, op)
  BY DEF Asked
<1>2. b \in DOMAIN balance => b \in Nat
  BY DEF MoneyInv
<1>3. Bank \in Actors /\ b \in Names /\ op \in AllOps
  BY <1>2, ActorNames DEF Callers, Names, AllOps
<1> QED  BY <1>1, <1>3, CallsOrReturns

LEMMA OpensAccount ==
    ASSUME MailInv, OpenAccount
    PROVE  /\ About(Bank) \in DOMAIN workload.commands
           /\ Turns(Bank) /\ Busy(Bank) /\ handling[Bank] = None
           /\ Current(Bank).op = "openAccount"
           /\ IsValid(Command(About(Bank)).amount) =>
                  Command(About(Bank)).amount \in Nat
<1>1. /\ Turns(Bank) /\ Busy(Bank) /\ handling[Bank] = None
      /\ Current(Bank).op = "openAccount"
  BY BeginsTurns DEF OpenAccount
<1>2. Bank \in Actors
  BY ActorNames DEF Callers
<1>3. About(Bank) \in DOMAIN workload.commands
  BY <1>1, <1>2, CurrentMessage DEF Proper, About
<1> QED  BY <1>1, <1>3, CommandTypes

LEMMA BankMailSteps ==
    ASSUME MailInv, MoneyInv, BankSteps
    PROVE  MailStep
<1>1. Bank \in Actors /\ Coordinator \in Names
  BY ActorNames DEF Callers, Names
<1>2. ASSUME NEW op, Begins(Bank, op)
      PROVE  Turns(Bank) /\ Current(Bank).op = op /\ handling[Bank] = None
  BY <1>2, BeginsTurns
<1>3. ASSUME NEW ops, "none" \notin ops, Resumes(Bank, ops)
      PROVE  /\ Turns(Bank) /\ answer[Bank] \notin {"none", "pending"}
             /\ Current(Bank).op \in ops
  BY <1>3, ResumesTurns
<1>4. Turns(Bank) /\ Throws(Bank) => MailStep
  BY <1>1, CallsOrReturns
<1>5. ASSUME NEW result \in Settled, Turns(Bank), Returns(Bank, result)
      PROVE  MailStep
  BY <1>1, <1>5, CallsOrReturns
<1>6. \A n \in DOMAIN balance : n \in Nat
  BY QueueElements DEF MoneyInv
<1>7. CASE OpenAccount
  <2>1. /\ Turns(Bank) /\ Current(Bank).op = "openAccount"
        /\ handling[Bank] = None
    BY <1>2, <1>7 DEF OpenAccount
  <2>2. CASE /\ IsValid(Command(About(Bank)).amount)
             /\ balance' = Append(balance, Command(About(Bank)).amount)
             /\ Calls(Bank, Coordinator, "registerAccount")
    <3>1. balance' # <<>>
      <4>1. \A s \in Seq(Nat) : \A n \in Nat : Append(s, n) # <<>>
        BY QueueEnds
      <4>2. Command(About(Bank)).amount \in Nat
        BY <1>7, <2>2, OpensAccount
      <4> QED  BY <2>2, <4>1, <4>2 DEF MoneyInv
    <3> QED  BY <2>1, <2>2, <3>1, BankSends, BankCallOps DEF Awaits
  <2> QED  BY <1>4, <1>7, <2>1, <2>2 DEF OpenAccount
<1>8. CASE AccountOpened
  BY <1>3, <1>5, <1>8, SettledResults DEF AccountOpened
<1>9. ASSUME NEW op \in {"deposit", "withdraw"}, FindAccount(op)
      PROVE  MailStep
  <2>1. Turns(Bank) /\ handling[Bank] = None /\ Current(Bank).op # "openAccount"
    BY <1>2, <1>9 DEF FindAccount
  <2>2. CASE Throws(Bank)
    BY <1>4, <2>1, <2>2
  <2>3. CASE ~Throws(Bank)
    <3>1. HoldStep(Bank)
      BY <1>9, <2>1, <2>3 DEF FindAccount, HoldStep, Answers
    <3> QED  BY <1>1, <3>1 DEF MailStep
  <2> QED  BY <2>2, <2>3
<1>10. ASSUME NEW op \in {"deposit", "withdraw"}, AccountFound(op)
       PROVE  MailStep
  <2>1. Resumes(Bank, {op})
    BY <1>10 DEF AccountFound
  <2>2. Turns(Bank) /\ Current(Bank).op = op
    BY <1>3, <2>1
  <2>3. CASE Exists(NumberOf(About(Bank))) /\ Calls(Bank, NumberOf(About(Bank)), op)
    BY <1>6, <2>2, <2>3, BankSends, BankCallOps DEF Awaits, Exists
  <2> QED  BY <1>4, <1>10, <2>2, <2>3 DEF AccountFound
<1>11. CASE AccountSummary
  <2>1. Turns(Bank) /\ Current(Bank).op = "accountSummary"
    BY <1>2, <1>11 DEF AccountSummary
  <2>2. CASE Exists(NumberOf(About(Bank)))
             /\ Calls(Bank, NumberOf(About(Bank)), "getInfo")
    BY <1>6, <2>1, <2>2, BankSends, BankCallOps DEF Awaits, Exists
  <2> QED  BY <1>5, <1>11, <2>1, <2>2, SettledResults DEF AccountSummary
<1>12. CASE TransactionHistory
  <2>1. Turns(Bank) /\ Current(Bank).op = "transactionHistory"
    BY <1>2, <1>12 DEF TransactionHistory
  <2>2. CASE Exists(NumberOf(About(Bank)))
             /\ Calls(Bank, NumberOf(About(Bank)), "getHistory")
    BY <1>6, <2>1, <2>2, BankSends, BankCallOps DEF Awaits, Exists
  <2> QED  BY <1>4, <1>12, <2>1, <2>2 DEF TransactionHistory
<1>13. CASE AllAccounts
  <2>1. Turns(Bank) /\ Current(Bank).op = "allAccounts"
    BY <1>2, <1>3, <1>13 DEF AllAccounts
  <2>2. Len(infos') \in Nat
    <3>1. infos \in Seq(Answers) /\ answer[Bank] \in Answers
      BY <1>1 DEF MailInv
    <3>2. infos' = <<>> \/ infos' = Append(infos, answer[Bank])
      BY <1>13 DEF AllAccounts
    <3> QED  BY <3>1, <3>2
  <2>3. CASE Len(infos') < Len(balance) /\ Calls(Bank, Len(infos') + 1, "getInfo")
    <3>1. Len(infos') + 1 \in DOMAIN balance
      BY <2>2, <2>3 DEF MoneyInv
    <3> QED  BY <2>1, <2>3, <3>1, BankSends, BankCallOps DEF Awaits
  <2> QED  BY <1>5, <1>13, <2>1, <2>3, SettledResults DEF AllAccounts
<1>14. CASE Transfer
  <2>1. /\ Turns(Bank) /\ Current(Bank).op = "transfer"
        /\ handling[Bank] = None
    BY <1>2, <1>14 DEF Transfer
  <2>2. CASE Calls(Bank, Coordinator, "initiateTransfer")
    BY <2>1, <2>2, BankSends, BankCallOps DEF Awaits
  <2> QED  BY <1>4, <1>14, <2>1, <2>2 DEF Transfer
<1>15. CASE TransferInitiated
  BY <1>3, <1>5, <1>15, SettledResults DEF TransferInitiated
<1>16. CASE PendingTransfers
  <2>1. /\ Turns(Bank) /\ Current(Bank).op = "pendingTransfers"
        /\ handling[Bank] = None
    BY <1>2, <1>16 DEF PendingTransfers
  <2> QED
    BY <1>16, <2>1, BankSends, BankCallOps DEF Awaits, PendingTransfers
<1>17. CASE BankAnswers
  <2>1. Turns(Bank) /\ answer[Bank] \notin {"none", "pending"}
    BY <1>3, <1>17 DEF BankAnswers, Queries
  <2>2. PassesOn(Bank)
    BY <1>17 DEF BankAnswers
  <2> QED  BY <1>1, <2>1, <2>2, PassesOnReturns DEF MailStep
<1> QED
  BY <1>7, <1>8, <1>9, <1>10, <1>11, <1>12, <1>13, <1>14, <1>15, <1>16, <1>17
     DEF BankSteps

LEMMA CoordinatorSends ==
    ASSUME NEW op \in AccountProtocol,
           NEW b \in {TransferOf(About(Coordinator)).from,
                      TransferOf(About(Coordinator)).to} \cap Nat,
           handling[Coordinator] = None /\ Current(Coordinator).op = "initiateTransfer" =>
               Feasible(About(Coordinator)),
           <<Coordinator, Current(Coordinator).op, op>> \in Awaits,
           Turns(Coordinator), Calls(Coordinator, b, op)
    PROVE  MailStep
<1>1. Asked(Coordinator, b, op)
  BY DEF Asked, AccountProtocol, Moves
<1>2. Coordinator \in Actors /\ b \in Names /\ op \in AllOps
  BY ActorNames DEF Callers, Names, AllOps
<1> QED  BY <1>1, <1>2, CallsOrReturns

LEMMA SendsItselfSteps ==
    ASSUME NEW op1 \in SelfSent, NEW op2 \in SelfSent, NEW result \in Settled,
           Turns(Coordinator),
           \/ Current(Coordinator).op \in SelfSent
           \/ handling[Coordinator] # None /\ Current(Coordinator).op = "initiateTransfer"
    PROVE  /\ SendsItself(Coordinator, <<op1>>, result) => MailStep
           /\ SendsItself(Coordinator, <<op1, op2>>, result) => MailStep
<1>1. <<op1>> \in Seq(SelfSent) /\ <<op1, op2>> \in Seq(SelfSent)
  OBVIOUS
<1> QED  BY <1>1 DEF MailStep, SelfStep

LEMMA SelfSentOps ==
    /\ {"attemptDeposit", "handleDepositFailure", "processRefund",
        "completeTransfer", "recordPendingTransfer"} \subseteq SelfSent
  BY DEF SelfSent, TransferOps

LEMMA CoordinatorMailSteps ==
    ASSUME MailInv, MoneyInv, CoordinatorSteps
    PROVE  MailStep
<1>1. Coordinator \in Actors
  BY ActorNames DEF Callers
<1>2. ASSUME NEW op, Begins(Coordinator, op)
      PROVE  Turns(Coordinator) /\ Current(Coordinator).op = op
  BY <1>2, BeginsTurns
<1>3. ASSUME NEW op, op # "none", Resumes(Coordinator, {op})
      PROVE  /\ Turns(Coordinator) /\ Current(Coordinator).op = op
             /\ handling[Coordinator] # None
  BY <1>3, ResumesTurns
<1>4. Turns(Coordinator) /\ Throws(Coordinator) => MailStep
  BY <1>1, CallsOrReturns
<1>5. Turns(Coordinator) /\ Returns(Coordinator, "value") => MailStep
  BY <1>1, CallsOrReturns, SettledResults
<1>6. ASSUME Turns(Coordinator), Current(Coordinator).op \in SelfSent
                                 \/ Current(Coordinator).op = "initiateTransfer"
      PROVE  /\ TransferOf(About(Coordinator)).from \in Nat
             /\ TransferOf(About(Coordinator)).to \in Nat
             /\ Current(Coordinator).op # "stop"
  <2>1. Proper(Coordinator, Current(Coordinator))
    BY <1>1, <1>6, TurnsBusy, CurrentMessage
  <2>2. Current(Coordinator).op # "stop"
    BY <1>6 DEF SelfSent, TransferOps
  <2>3. About(Coordinator) \in DOMAIN workload.commands
    BY <2>1, <2>2 DEF Proper, About
  <2> QED  BY <2>2, <2>3, CommandTypes
<1>7. CASE RegisterAccount
  BY <1>2, <1>5, <1>7 DEF RegisterAccount
<1>8. CASE InitiateTransfer
  <2>1. Turns(Coordinator) /\ Current(Coordinator).op = "initiateTransfer"
    BY <1>2, <1>8 DEF InitiateTransfer
  <2>2. CASE /\ Feasible(About(Coordinator))
             /\ Calls(Coordinator, TransferOf(About(Coordinator)).from, "withdraw")
    BY <1>6, <2>1, <2>2, CoordinatorSends, BankCallOps DEF Awaits
  <2> QED  BY <1>4, <1>8, <2>1, <2>2 DEF InitiateTransfer, Feasible
<1>9. CASE Withdrawn
  <2>1. /\ Turns(Coordinator) /\ Current(Coordinator).op = "initiateTransfer"
        /\ handling[Coordinator] # None
    BY <1>3, <1>9 DEF Withdrawn
  <2>2. CASE SendsItself(Coordinator, <<"recordPendingTransfer", "attemptDeposit">>,
                         "value")
    BY <1>6, <2>1, <2>2, SendsItselfSteps, SelfSentOps, SettledResults
  <2> QED  BY <1>4, <1>9, <2>1, <2>2 DEF Withdrawn
<1>10. CASE RecordPendingTransfer
  BY <1>2, <1>5, <1>10 DEF RecordPendingTransfer
<1>11. CASE AttemptDeposit
  <2>1. Turns(Coordinator) /\ Current(Coordinator).op = "attemptDeposit"
    BY <1>2, <1>11 DEF AttemptDeposit
  <2>2. CASE Calls(Coordinator, TransferOf(About(Coordinator)).to, "deposit")
    BY <1>6, <2>1, <2>2, CoordinatorSends, BankCallOps, SelfSentOps DEF Awaits
  <2> QED  BY <1>5, <1>11, <2>1, <2>2 DEF AttemptDeposit
<1>12. CASE Deposited
  <2>1. Turns(Coordinator) /\ Current(Coordinator).op = "attemptDeposit"
    BY <1>3, <1>12 DEF Deposited
  <2>3. \/ SendsItself(Coordinator, <<"handleDepositFailure">>, "value")
        \/ SendsItself(Coordinator, <<"completeTransfer">>, "value")
    BY <1>12 DEF Deposited
  <2> QED  BY <2>1, <2>3, SendsItselfSteps, SelfSentOps, SettledResults
<1>13. CASE HandleDepositFailure
  <2>1. Turns(Coordinator) /\ Current(Coordinator).op = "handleDepositFailure"
    BY <1>2, <1>13 DEF HandleDepositFailure
  <2>2. CASE SendsItself(Coordinator, <<"processRefund">>, "value")
    BY <2>1, <2>2, SendsItselfSteps, SelfSentOps, SettledResults
  <2>3. \/ SendsItself(Coordinator, <<"processRefund">>, "value")
        \/ Returns(Coordinator, "value") \/ Throws(Coordinator)
    BY <1>13 DEF HandleDepositFailure
  <2> QED  BY <1>4, <1>5, <2>1, <2>2, <2>3
<1>14. CASE ProcessRefund
  <2>1. Turns(Coordinator) /\ Current(Coordinator).op = "processRefund"
    BY <1>2, <1>14 DEF ProcessRefund
  <2>2. CASE Calls(Coordinator, TransferOf(About(Coordinator)).from, "refund")
    BY <1>6, <2>1, <2>2, CoordinatorSends, BankCallOps, SelfSentOps DEF Awaits
  <2> QED  BY <1>5, <1>14, <2>1, <2>2 DEF ProcessRefund
<1>15. CASE Refunded
  <2>1. Turns(Coordinator) /\ Current(Coordinator).op = "processRefund"
    BY <1>3, <1>15 DEF Refunded
  <2>2. CASE SendsItself(Coordinator, <<"completeTransfer">>, "value")
    BY <2>1, <2>2, SendsItselfSteps, SelfSentOps, SettledResults
  <2> QED  BY <1>4, <1>15, <2>1, <2>2 DEF Refunded
<1>16. CASE CompleteTransfer
  BY <1>2, <1>5, <1>16 DEF CompleteTransfer
<1>17. CASE GetPendingTransfers
  BY <1>2, <1>5, <1>17 DEF GetPendingTransfers
<1> QED
  BY <1>7, <1>8, <1>9, <1>10, <1>11, <1>12, <1>13, <1>14, <1>15, <1>16, <1>17
     DEF CoordinatorSteps

LEMMA AccountMailSteps ==
    ASSUME MailInv, NEW a \in Accounts, AccountSteps(a) \/ HistorySettles(a)
    PROVE  MailStep
<1>1. a \in Actors
  BY ActorNames
<1>2. ASSUME NEW op, Begins(a, op)
      PROVE  Turns(a) /\ handling[a] = None /\ Current(a).op = op
  BY <1>2, BeginsTurns
<1>3. Turns(a) /\ Throws(a) => MailStep
  BY <1>1, CallsOrReturns
<1>4. Turns(a) /\ Returns(a, "value") => MailStep
  BY <1>1, CallsOrReturns, SettledResults
<1>5. /\ Turns(a) /\ handling[a] = None /\ Current(a).op # "openAccount"
      /\ AwaitsHistory(a)
      => MailStep
  BY <1>1 DEF AwaitsHistory, HoldStep, MailStep, Answers
<1>6. CASE Deposit(a) \/ Withdraw(a)
  BY <1>2, <1>3, <1>5, <1>6 DEF Deposit, Withdraw
<1>7. CASE Refund(a) \/ GetHistory(a)
  BY <1>2, <1>5, <1>7 DEF Refund, GetHistory
<1>8. CASE GetInfo(a)
  BY <1>2, <1>4, <1>8 DEF GetInfo
<1>9. CASE HistorySettles(a)
  <2>1. handling[a].op \in HistoryOps /\ own' = own
    BY <1>9 DEF HistorySettles, HistoryAnswers, HistoryRejects
  <2>2. handling[a] # None
    BY <2>1, NoneIsNoMessage DEF HistoryOps, Moves
  <2>3. Turns(a)
    BY <2>1, <2>2 DEF Turns
  <2> QED
    BY <1>3, <1>4, <1>9, <2>3 DEF HistorySettles, HistoryAnswers, HistoryRejects
<1> QED  BY <1>6, <1>7, <1>8, <1>9 DEF AccountSteps

LEMMA OtherMailSteps ==
    ASSUME MailInv,
           \/ CloseStage \/ BankBeginsToStop \/ BankStops
           \/ \E a \in Actors : StageStops(a) \/ ParentStops(a) \/ Stops(a)
           \/ \E a \in Actors : \/ BankSupervisor(a) \/ TransferSupervisor(a)
                                \/ AccountSupervisor(a)
           \/ \E t \in Others : OthersSchedule(t)
           \/ \E i \in Requests : RetryFires(i) \/ ClientCalls(i)
           \/ UNCHANGED vars
    PROVE  MailStep
<1>1. Bank \in Actors
  BY ActorNames DEF Callers
<1>2. ASSUME NEW a \in Actors, NEW op, Begins(a, op)
      PROVE  Turns(a) /\ handling[a] = None
  BY <1>2, BeginsTurns
<1>3. ASSUME NEW a \in Actors, Turns(a), Returns(a, "value")
      PROVE  MailStep
  BY <1>3, CallsOrReturns, SettledResults
<1>4. ASSUME NEW a \in Actors, SendsStop(a)
      PROVE  MailStep
  BY <1>4 DEF SendsStop, StopStep, AppendStep, MailStep
<1>5. CASE CloseStage
  BY <1>5 DEF CloseStage, MailStep, QuietStep, messageVars
<1>6. CASE BankBeginsToStop
  <2>1. Turns(Bank) /\ handling[Bank] = None /\ Current(Bank).op # "openAccount"
    BY <1>1, <1>6, BeginsTurns DEF BankBeginsToStop
  <2>2. answer' = [answer EXCEPT ![Bank] = answer[Bank]] /\ answer[Bank] \in Answers
    BY <1>1, <1>6 DEF BankBeginsToStop, MailInv
  <2>3. HoldStep(Bank)
    BY <1>6, <2>1, <2>2 DEF BankBeginsToStop, HoldStep
  <2> QED  BY <1>1, <2>3 DEF MailStep
<1>7. CASE BankStops
  <2>1. handling[Bank] # None /\ handling[Bank].op = "stop" /\ own' = own
    BY <1>7, NoneIsNoMessage DEF BankStops
  <2>2. Turns(Bank)
    BY <2>1 DEF Turns
  <2> QED  BY <1>1, <1>3, <1>7, <2>2 DEF BankStops
<1>8. ASSUME NEW a \in Actors, StageStops(a) \/ ParentStops(a)
      PROVE  MailStep
  BY <1>4, <1>8 DEF StageStops, ParentStops
<1>9. ASSUME NEW a \in Actors, Stops(a)
      PROVE  MailStep
  BY <1>2, <1>3, <1>9 DEF Stops
<1>10. ASSUME NEW a, BankSupervisor(a) \/ TransferSupervisor(a) \/ AccountSupervisor(a)
       PROVE  MailStep
  BY <1>10 DEF BankSupervisor, TransferSupervisor, AccountSupervisor,
               DecidesToResume, MailStep, QuietStep
<1>11. ASSUME NEW t, OthersSchedule(t)
       PROVE  MailStep
  BY <1>11 DEF OthersSchedule, MailStep, QuietStep, messageVars
<1>12. ASSUME NEW i \in Requests, RetryFires(i)
       PROVE  MailStep
  <2>1. i \in timeouts
    BY <1>12 DEF RetryFires, OnceFires
  <2>2. RetryStep(i) \/ QuietStep
    BY <1>12 DEF RetryFires, RetryStep, AppendStep, QuietStep
  <2> QED  BY <2>1, <2>2 DEF MailStep
<1>13. ASSUME NEW i \in Requests, ClientCalls(i)
       PROVE  MailStep
  BY <1>13 DEF ClientCalls, ClientStep, MailStep
<1>14. CASE UNCHANGED vars
  BY <1>14 DEF vars, messageVars, MailStep, QuietStep
<1> QED
  BY <1>5, <1>6, <1>7, <1>8, <1>9, <1>10, <1>11, <1>12, <1>13, <1>14

(* Whatever happens, the messages move in one of these ways. *)
LEMMA NextIsMailStep ==
    ASSUME MailInv, MoneyInv, [Next]_vars
    PROVE  MailStep
<1>1. CASE Progress
  BY <1>1, TellerSteps, BankMailSteps, CoordinatorMailSteps, AccountMailSteps,
     OtherMailSteps DEF Progress
<1> QED
  BY <1>1, AccountMailSteps, OtherMailSteps DEF Next

-----------------------------------------------------------------------------
(* What these steps do to the mailboxes *)

LEMMA LoadIs ==
    ASSUME MailInv, NEW x \in Actors, NEW M \in SUBSET Messages
    PROVE  /\ Load(x, M) \in Nat
           /\ Load(x, M) = 0 <=> Under(x) \cap M = {}
<1>1. queue[x] \in Seq(Messages) /\ None \notin M
  BY NoneIsNoMessage DEF MailInv
<1>2. /\ CountIn(queue[x], M) \in Nat
      /\ CountIn(queue[x], M) = 0 <=> ToSet(queue[x]) \cap M = {}
  BY <1>1, CountZero
<1>3. Under(x) \cap M = (ToSet(queue[x]) \cup {handling[x]}) \cap M
  BY <1>1 DEF Under
<1> QED  BY <1>2, <1>3 DEF Load, Truth

LEMMA NewMessage ==
    ASSUME MailInv, MoneyInv, NEW b, NEW op \in AllOps, NEW i \in Requests \cup {0},
           NEW reply \in Callers \cup {Client, Nobody},
           NEW context \in Requests \cup {0}
    PROVE  LET m == Message(b, op, i, reply, context)
           IN  /\ m \in Messages
               /\ m.op = op /\ m.about = i /\ m.reply = reply
               /\ m.context = context /\ m.spread = Spread(b, context)
<1>1. collaborators \subseteq Names
  BY QueueElements, ActorNames DEF MoneyInv, Names, Callers
<1>2. Spread(b, context) \in SUBSET Names
  BY <1>1, ActorNames DEF Spread, Names, Callers
<1> QED  BY <1>2 DEF Message, Messages

LEMMA TurnOwn ==
    ASSUME MailInv, NEW a \in Actors, Turns(a)
    PROVE  own' \in [Actors -> Requests \cup {0}]
<1>1. CASE handling[a] = None
  <2>1. queue[a] # <<>> /\ Propagates(Head(queue[a]))
    BY <1>1 DEF Turns
  <2>2. Head(queue[a]) \in Messages
    BY <2>1, QueueBegins DEF MailInv
  <2>3. Head(queue[a]).context \in Requests \cup {0}
    BY <2>2 DEF Messages
  <2> QED  BY <2>1, <2>3 DEF Propagates, MailInv
<1>2. CASE handling[a] # None
  BY <1>2 DEF Turns, MailInv
<1> QED  BY <1>1, <1>2

LEMMA NoNews ==
    ASSUME NEW f, f \in [Actors -> Seq(Messages)], NEW b
    PROVE  [f EXCEPT ![b] = @ \o <<>>] = f
<1>1. \A s \in Seq(Messages) : s \o <<>> = s
  OBVIOUS
<1>2. CASE b \in Actors
  <2>1. f[b] \o <<>> = f[b]
    BY <1>1, <1>2
  <2>2. [f EXCEPT ![b] = f[b]] = f
    OBVIOUS
  <2> QED  BY <2>1, <2>2
<1>3. CASE b \notin Actors
  BY <1>3
<1> QED  BY <1>2, <1>3

LEMMA CallShifts ==
    ASSUME MailInv, MoneyInv, NEW a \in Actors, NEW b \in Names, NEW op \in AllOps,
           CallStep(a, b, op)
    PROVE  /\ a \in Callers /\ Busy(a) /\ outcome' = outcome
           /\ \E v \in {"pending", "refusal"}, news \in Seq(Messages) :
                  /\ answer' = [answer EXCEPT ![a] = v]
                  /\ Shifts(a, TRUE, b, news)
                  /\ \/ news = <<>>
                     \/ /\ v = "pending" /\ b \in Actors
                        /\ news = <<Message(b, op, About(a), a, own'[b])>>
                        /\ own'[b] \in Requests \cup {0}
                        /\ About(a) \in Requests \cup {0}
<1>1. a \in Callers
  BY DEF CallStep, Asked, Callers
<1>2. Busy(a)
  BY TurnsBusy DEF CallStep
<1>3. /\ Rest(a) \in [Actors -> Seq(Messages)] /\ Current(a) \in Messages
      /\ About(a) \in Requests \cup {0}
  BY <1>2, CurrentMessage DEF Messages, About
<1>4. /\ handling' = [handling EXCEPT ![a] = Current(a)] /\ outcome' = outcome
      /\ \/ /\ b \notin closed
            /\ queue' = [Rest(a) EXCEPT ![b] =
                             Append(@, Message(b, op, About(a), a, own'[b]))]
            /\ answer' = [answer EXCEPT ![a] = "pending"]
         \/ /\ queue' = Rest(a)
            /\ answer' = [answer EXCEPT ![a] = "refusal"]
  BY DEF CallStep, Calls, About
<1>5. <<>> \in Seq(Messages)
  OBVIOUS
<1>6. \A c : [Rest(a) EXCEPT ![c] = @ \o <<>>] = Rest(a)
  BY <1>3, NoNews
<1>7. CASE queue' = Rest(a) /\ answer' = [answer EXCEPT ![a] = "refusal"]
  <2>1. Shifts(a, TRUE, b, <<>>)
    BY <1>4, <1>6, <1>7 DEF Shifts
  <2> QED  BY <1>1, <1>2, <1>4, <1>5, <1>7, <2>1
<1>8. CASE /\ queue' = [Rest(a) EXCEPT ![b] =
                            Append(@, Message(b, op, About(a), a, own'[b]))]
           /\ answer' = [answer EXCEPT ![a] = "pending"]
  <2>1. CASE b \notin Actors
    <3>1. queue' = Rest(a)
      BY <1>3, <1>8, <2>1
    <3>2. Shifts(a, TRUE, b, <<>>)
      BY <1>4, <1>6, <3>1 DEF Shifts
    <3> QED  BY <1>1, <1>2, <1>4, <1>5, <1>8, <3>2
  <2>2. CASE b \in Actors
    <3> DEFINE m == Message(b, op, About(a), a, own'[b])
    <3>1. own'[b] \in Requests \cup {0}
      BY <2>2, TurnOwn DEF CallStep
    <3>2. m \in Messages
      BY <1>1, <1>3, <3>1, NewMessage
    <3>3. [Rest(a) EXCEPT ![b] = Append(@, m)] = [Rest(a) EXCEPT ![b] = @ \o <<m>>]
      <4> HIDE DEF m
      <4>1. \A s \in Seq(Messages) : Append(s, m) = s \o <<m>>
        BY <3>2
      <4> QED  BY <1>3, <2>2, <4>1
    <3>4. Shifts(a, TRUE, b, <<m>>) /\ <<m>> \in Seq(Messages)
      BY <1>4, <1>8, <3>2, <3>3 DEF Shifts
    <3> QED  BY <1>1, <1>2, <1>3, <1>4, <1>8, <2>2, <3>1, <3>4
  <2> QED  BY <2>1, <2>2
<1> QED  BY <1>4, <1>7, <1>8

LEMMA HoldShifts ==
    ASSUME MailInv, NEW a \in Actors, HoldStep(a)
    PROVE  Busy(a) /\ Shifts(a, TRUE, a, <<>>) /\ <<>> \in Seq(Messages)
<1>1. Busy(a)
  BY TurnsBusy DEF HoldStep
<1>2. Rest(a) \in [Actors -> Seq(Messages)] /\ Current(a) \in Messages
  BY <1>1, CurrentMessage
<1>3. [Rest(a) EXCEPT ![a] = @ \o <<>>] = Rest(a)
  BY <1>2, NoNews
<1> QED  BY <1>1, <1>3 DEF HoldStep, Shifts

LEMMA ReturnShifts ==
    ASSUME MailInv, NEW a \in Actors, NEW result, ReturnStep(a, result)
    PROVE  Busy(a) /\ Shifts(a, FALSE, a, <<>>) /\ <<>> \in Seq(Messages)
<1>1. Busy(a)
  BY TurnsBusy DEF ReturnStep
<1>2. Rest(a) \in [Actors -> Seq(Messages)] /\ Current(a) \in Messages
  BY <1>1, CurrentMessage
<1>3. [Rest(a) EXCEPT ![a] = @ \o <<>>] = Rest(a)
  BY <1>2, NoNews
<1> QED  BY <1>1, <1>3 DEF ReturnStep, Ends, Shifts

LEMMA SelfShifts ==
    ASSUME MailInv, MoneyInv, NEW ops \in Seq(SelfSent), NEW result,
           SelfStep(ops, result)
    PROVE  LET c == own'[Coordinator]
               news == [k \in DOMAIN ops |->
                           Message(Coordinator, ops[k], About(Coordinator), Nobody, c)]
           IN  /\ Busy(Coordinator) /\ Shifts(Coordinator, FALSE, Coordinator, news)
               /\ news \in Seq(Messages)
               /\ \A m \in ToSet(news) :
                      /\ m.about = About(Coordinator) /\ m.reply = Nobody
                      /\ m.op \in SelfSent /\ m.context = c /\ m.spread = {}
               /\ About(Coordinator) \in DOMAIN workload.commands \cap Requests
               /\ c \in Requests \cup {0}
<1> DEFINE c == own'[Coordinator]
           new(k) == Message(Coordinator, ops[k], About(Coordinator), Nobody, c)
           news == [k \in DOMAIN ops |-> new(k)]
<1>1. Coordinator \in Actors /\ Busy(Coordinator)
  BY ActorNames, TurnsBusy DEF SelfStep, Callers
<1>2. /\ Rest(Coordinator) \in [Actors -> Seq(Messages)]
      /\ About(Coordinator) \in DOMAIN workload.commands \cap Requests
  <2>1. Proper(Coordinator, Current(Coordinator)) /\ Current(Coordinator).op # "stop"
    BY <1>1, CurrentMessage DEF SelfStep, SelfSent, TransferOps
  <2> QED  BY <1>1, <2>1, CurrentMessage DEF Proper, About
<1>3. c \in Requests \cup {0}
  BY <1>1, TurnOwn DEF SelfStep
<1>4. DOMAIN ops = 1..Len(ops) /\ Len(ops) \in Nat /\ \A k \in DOMAIN ops : ops[k] \in SelfSent
  BY QueueElements
<1>5. ASSUME NEW k \in DOMAIN ops
      PROVE  /\ new(k) \in Messages /\ new(k).about = About(Coordinator)
             /\ new(k).reply = Nobody /\ new(k).op \in SelfSent
             /\ new(k).context = c /\ new(k).spread = {}
  <2>1. ops[k] \in SelfSent /\ ops[k] \in AllOps
    BY <1>4, BankCallOps
  <2>2. Spread(Coordinator, c) = {}
    BY ActorNames DEF Spread
  <2> HIDE DEF c
  <2> QED  BY <1>2, <1>3, <2>1, <2>2, NewMessage
<1> HIDE DEF new, c
<1>6. news \in Seq(Messages) /\ DOMAIN news = DOMAIN ops
  BY <1>4, <1>5
<1>7. \A m \in ToSet(news) :
          /\ m.about = About(Coordinator) /\ m.reply = Nobody
          /\ m.op \in SelfSent /\ m.context = c /\ m.spread = {}
  <2>1. \A m \in ToSet(news) : \E k \in DOMAIN ops : m = new(k)
    BY <1>6 DEF ToSet
  <2> QED  BY <1>5, <2>1
<1>8. Shifts(Coordinator, FALSE, Coordinator, news)
  BY DEF SelfStep, SendsItself, Ends, Shifts, new, c
<1> QED  BY <1>1, <1>2, <1>3, <1>6, <1>7, <1>8 DEF new, c

LEMMA AppendedMail ==
    ASSUME MailInv, NEW b \in Actors, NEW m \in Messages,
           queue' = [queue EXCEPT ![b] = Append(@, m)], handling' = handling
    PROVE  /\ queue' \in [Actors -> Seq(Messages)]
           /\ handling' \in [Actors -> Messages \cup {None}]
           /\ \A x \in Actors :
                 /\ queue'[x] = IF x = b THEN Append(queue[x], m) ELSE queue[x]
                 /\ ToSet(queue'[x]) =
                        ToSet(queue[x]) \cup (IF x = b THEN {m} ELSE {})
                 /\ Under(x)' = Under(x) \cup (IF x = b THEN {m} ELSE {})
                 /\ \A M \in SUBSET Messages :
                        /\ Load(x, M) \in Nat
                        /\ Load(x, M)' =
                               Load(x, M) + Truth(x = b /\ m \in M)
<1>1. queue \in [Actors -> Seq(Messages)] /\ handling \in [Actors -> Messages \cup {None}]
  BY DEF MailInv
<1>2. queue' \in [Actors -> Seq(Messages)]
  BY <1>1
<1>3. ASSUME NEW x \in Actors
      PROVE  /\ queue'[x] = IF x = b THEN Append(queue[x], m) ELSE queue[x]
             /\ ToSet(queue'[x]) = ToSet(queue[x]) \cup (IF x = b THEN {m} ELSE {})
             /\ \A M : CountIn(queue'[x], M) = CountIn(queue[x], M) + Truth(x = b /\ m \in M)
             /\ \A M : CountIn(queue[x], M) \in Nat
  <2> DEFINE q == queue[x]
             r == queue'[x]
  <2>1. q \in Seq(Messages) /\ r = IF x = b THEN Append(q, m) ELSE q
    BY <1>1
  <2> HIDE DEF q, r
  <2>2. ToSet(Append(q, m)) = ToSet(q) \cup {m}
    BY <2>1, QueueEnds
  <2>3. ASSUME NEW M
        PROVE  /\ CountIn(Append(q, m), M) = CountIn(q, M) + Truth(m \in M)
               /\ CountIn(q, M) \in Nat
    <3>1. CountIn(Append(q, m), M) = CountIn(q, M) + IF m \in M THEN 1 ELSE 0
      BY <2>1, CountEnds
    <3>2. CountIn(q, M) \in Nat
      BY <2>1, CountZero
    <3> QED  BY <3>1, <3>2 DEF Truth
  <2>4. ToSet(r) = ToSet(q) \cup (IF x = b THEN {m} ELSE {})
    BY <2>1, <2>2
  <2>5. ASSUME NEW M
        PROVE  CountIn(r, M) = CountIn(q, M) + Truth(x = b /\ m \in M)
    BY <2>1, <2>3 DEF Truth
  <2> QED  BY <2>1, <2>3, <2>4, <2>5 DEF q, r
<1>4. ASSUME NEW x \in Actors
      PROVE  Under(x)' = Under(x) \cup (IF x = b THEN {m} ELSE {})
  <2>1. Under(x)' = (ToSet(queue'[x]) \cup {handling'[x]}) \ {None}
    BY DEF Under
  <2> QED  BY <1>3, <2>1, NoneIsNoMessage DEF Under
<1>5. ASSUME NEW x \in Actors, NEW M \in SUBSET Messages
      PROVE  /\ Load(x, M) \in Nat
             /\ Load(x, M)' = Load(x, M) + Truth(x = b /\ m \in M)
  <2>1. Load(x, M)' = CountIn(queue'[x], M) + Truth(handling[x] \in M)
    BY DEF Load, Truth
  <2>2. Truth(handling[x] \in M) \in Nat /\ Truth(x = b /\ m \in M) \in Nat
    BY DEF Truth
  <2>3. CountIn(queue'[x], M) = CountIn(queue[x], M) + Truth(x = b /\ m \in M)
        /\ CountIn(queue[x], M) \in Nat
    BY <1>3
  <2> QED  BY <2>1, <2>2, <2>3 DEF Load
<1> QED  BY <1>1, <1>2, <1>3, <1>4, <1>5

-----------------------------------------------------------------------------
(* What awaits promise *)

LEMMA MailKeeps ==
    ASSUME MailInv, workload' = workload, infos' \in Seq(Answers),
           queue' \in [Actors -> Seq(Messages)],
           handling' \in [Actors -> Messages \cup {None}],
           answer' \in [Actors -> Answers],
           outcome' \in [Requests -> Answers \cup {"unsent"}],
           own' \in [Actors -> Requests \cup {0}],
           \A x \in Actors : \A m \in Under(x)' : m \in Under(x) \/ Proper(x, m)
    PROVE  MailInv'
<1>1. \A x, m : Proper(x, m) => Proper(x, m)'
  BY DEF Proper, Command
<1>2. \A x \in Actors : \A m \in Under(x)' : Proper(x, m)'
  BY <1>1 DEF MailInv
<1> QED  BY <1>2 DEF MailInv

(* Who does not await an answer has no call under way. *)
LEMMA Free ==
    ASSUME MailInv, CallInv, NEW c \in Callers,
           handling[c] = None \/ answer[c] # "pending" \/ handling[c].op = "stop"
    PROVE  \A x \in Actors : /\ \A m \in Under(x) : m.reply # c
                             /\ Load(x, CallsOf(c)) = 0
<1>1. \A op : <<c, "stop", op>> \notin Awaits
  BY DEF Awaits, Commands, Formatted, Queries
<1>2. ASSUME NEW x \in Actors
      PROVE  \A m \in Under(x) : m.reply # c
  BY <1>1 DEF CallInv, Served
<1>3. ASSUME NEW x \in Actors
      PROVE  Load(x, CallsOf(c)) = 0
  BY <1>2, LoadIs DEF CallsOf
<1> QED  BY <1>2, <1>3

LEMMA TurnsFree ==
    ASSUME MailInv, CallInv, NEW a \in Actors, Turns(a)
    PROVE  \A x \in Actors : /\ \A m \in Under(x) : m.reply # a
                             /\ Load(x, CallsOf(a)) = 0
<1>1. CASE a \in Callers
  <2>1. a \notin Accounts
    BY <1>1, ActorNames
  <2>2. handling[a] = None \/ answer[a] # "pending" \/ handling[a].op = "stop"
    BY <2>1 DEF Turns
  <2> QED  BY <1>1, <2>2, Free
<1>2. CASE a \in Accounts
  <2>1. \A x \in Actors : \A m \in Under(x) : m \in Messages
    BY UnderIs
  <2>2. a \notin Callers \cup {Client, Nobody}
    BY <1>2, ActorNames DEF Names
  <2>3. ASSUME NEW x \in Actors
        PROVE  \A m \in Under(x) : m.reply # a
    BY <2>1, <2>2 DEF Messages
  <2>4. CallsOf(a) = {}
    BY <2>2 DEF CallsOf, Messages
  <2> QED  BY <2>3, <2>4, LoadIs
<1> QED  BY <1>1, <1>2, ActorNames

(* One call of each caller at a time. *)
Single(c) ==
    \A a, b \in Actors :
        /\ Load(a, CallsOf(c)) <= 1
        /\ a # b => Load(a, CallsOf(c)) = 0 \/ Load(b, CallsOf(c)) = 0

LEMMA SingleKeeps ==
    ASSUME NEW c, Single(c),
           \A x \in Actors : /\ Load(x, CallsOf(c)) \in Nat
                             /\ Load(x, CallsOf(c))' \in Nat
                             /\ Load(x, CallsOf(c))' <= Load(x, CallsOf(c))
    PROVE  Single(c)'
<1>1. CallsOf(c)' = CallsOf(c)
  BY DEF CallsOf
<1> DEFINE l(x) == Load(x, CallsOf(c))
           n(x) == Load(x, CallsOf(c))'
<1>2. \A x \in Actors : l(x) \in Nat /\ n(x) \in Nat /\ n(x) <= l(x)
  OBVIOUS
<1>3. \A a, b \in Actors : l(a) <= 1 /\ (a # b => l(a) = 0 \/ l(b) = 0)
  BY DEF Single
<1>4. Single(c)' <=> \A a, b \in Actors : n(a) <= 1 /\ (a # b => n(a) = 0 \/ n(b) = 0)
  BY <1>1 DEF Single
<1> HIDE DEF l, n
<1>5. \A a, b \in Actors : n(a) <= 1 /\ (a # b => n(a) = 0 \/ n(b) = 0)
  BY <1>2, <1>3
<1> QED  BY <1>4, <1>5

LEMMA SingleBegins ==
    ASSUME NEW c, NEW d,
           \A x \in Actors : /\ Load(x, CallsOf(c))' \in Nat
                             /\ Load(x, CallsOf(c))' <= (IF x = d THEN 1 ELSE 0)
    PROVE  Single(c)'
<1> DEFINE n(x) == Load(x, CallsOf(c))'
<1>1. \A x \in Actors : n(x) \in Nat /\ n(x) <= (IF x = d THEN 1 ELSE 0)
  OBVIOUS
<1>2. CallsOf(c)' = CallsOf(c)
  BY DEF CallsOf
<1>3. Single(c)' <=> \A a, b \in Actors : n(a) <= 1 /\ (a # b => n(a) = 0 \/ n(b) = 0)
  BY <1>2 DEF Single
<1> HIDE DEF n
<1> QED  BY <1>1, <1>3

LEMMA CallInvIs ==
    /\ CallInv <=> /\ \A a \in Actors : \A m \in Under(a) : Served(m)
                   /\ \A c \in Callers \cup {Client} : Single(c)
    /\ CallInv' <=> /\ \A a \in Actors : \A m \in Under(a)' : Served(m)'
                    /\ \A c \in Callers \cup {Client} : Single(c)'
  BY DEF CallInv, Single

LEMMA LoadTyped ==
    ASSUME MailInv', NEW x \in Actors, NEW M \in SUBSET Messages
    PROVE  Load(x, M)' \in Nat /\ (Load(x, M)' = 0 <=> Under(x)' \cap M = {})
<1>1. queue'[x] \in Seq(Messages) /\ None \notin M
  BY NoneIsNoMessage DEF MailInv
<1>2. /\ CountIn(queue'[x], M) \in Nat
      /\ CountIn(queue'[x], M) = 0 <=> ToSet(queue'[x]) \cap M = {}
  BY <1>1, CountZero
<1>3. Under(x)' \cap M = (ToSet(queue'[x]) \cup {handling'[x]}) \cap M
  BY <1>1 DEF Under
<1>4. Load(x, M)' = CountIn(queue'[x], M) + Truth(handling'[x] \in M)
  BY DEF Load, Truth
<1> QED  BY <1>2, <1>3, <1>4 DEF Truth

(* A message that is nobody's call changes nothing. *)
LEMMA NoCaller ==
    ASSUME NEW c \in Callers \cup {Client}, NEW m, m.reply = Nobody
    PROVE  m \notin CallsOf(c)
  BY ActorNames DEF CallsOf, Names

LEMMA AppendKeeps ==
    ASSUME MailInv, CallInv, workload' = workload, infos' \in Seq(Answers),
           NEW b \in Actors, NEW m \in Messages, AppendStep(b, m),
           Proper(b, m), m.reply = Nobody
    PROVE  MailInv' /\ CallInv'
<1>1. /\ queue' \in [Actors -> Seq(Messages)]
      /\ handling' \in [Actors -> Messages \cup {None}]
      /\ \A x \in Actors :
            /\ Under(x)' = Under(x) \cup (IF x = b THEN {m} ELSE {})
            /\ \A M \in SUBSET Messages :
                   /\ Load(x, M) \in Nat
                   /\ Load(x, M)' = Load(x, M) + Truth(x = b /\ m \in M)
  BY AppendedMail DEF AppendStep
<1>2. MailInv'
  <2>1. \A x \in Actors : \A n \in Under(x)' : n \in Under(x) \/ Proper(x, n)
    BY <1>1
  <2> QED  BY <1>1, <2>1, MailKeeps DEF AppendStep, MailInv
<1>3. ASSUME NEW x \in Actors, NEW n \in Under(x)'
      PROVE  Served(n)'
  <2>1. CASE n \in Under(x)
    BY <2>1 DEF CallInv, Served, AppendStep
  <2>2. CASE n = m
    BY <2>2, ActorNames DEF Served, Names
  <2> QED  BY <1>1, <2>1, <2>2
<1>4. ASSUME NEW c \in Callers \cup {Client}
      PROVE  Single(c)'
  <2>1. m \notin CallsOf(c) /\ CallsOf(c) \in SUBSET Messages
    BY NoCaller DEF CallsOf
  <2>2. \A x \in Actors : /\ Load(x, CallsOf(c)) \in Nat
                          /\ Load(x, CallsOf(c))' = Load(x, CallsOf(c))
    BY <1>1, <2>1 DEF Truth
  <2> QED  BY <2>2, CallInvIs, SingleKeeps
<1> QED  BY <1>2, <1>3, <1>4, CallInvIs

LEMMA TurnsAnswer ==
    ASSUME MailInv, NEW a \in Actors, Turns(a)
    PROVE  /\ Current(a).reply \in Callers \cup {Client, Nobody}
           /\ Current(a).reply # a
           /\ Current(a).reply = Client => Current(a).about \in Requests
<1>1. Current(a) \in Messages /\ Proper(a, Current(a))
  BY TurnsBusy, CurrentMessage
<1> QED  BY <1>1, NamesAssumption, ActorNames DEF Messages, Proper, Callers, Names

(* The end of a handler, which may have sent its actor messages. *)
LEMMA EndKeeps ==
    ASSUME MailInv, CallInv, workload' = workload, infos' \in Seq(Answers),
           NEW a \in Actors, Turns(a), NEW result \in Settled, Ends(a, result),
           NEW news \in Seq(Messages), Shifts(a, FALSE, a, news),
           \A m \in ToSet(news) : m.reply = Nobody /\ Proper(a, m)
    PROVE  MailInv' /\ CallInv'
<1> DEFINE cur == Current(a)
<1>1. Busy(a) /\ cur \in Messages /\ cur \in Under(a)
  BY TurnsBusy, CurrentMessage
<1>2. /\ queue' \in [Actors -> Seq(Messages)]
      /\ handling' \in [Actors -> Messages \cup {None}]
      /\ \A x \in Actors :
            /\ Under(x)' \subseteq Under(x) \cup (IF x = a THEN ToSet(news) ELSE {})
            /\ \A M \in SUBSET Messages :
                   /\ Load(x, M) \in Nat
                   /\ Load(x, M)' =
                          Load(x, M) - (IF x = a THEN Truth(cur \in M) ELSE 0)
                          + (IF x = a THEN CountIn(news, M) ELSE 0)
  <2>1. PICK k \in BOOLEAN : k = FALSE
    OBVIOUS
  <2>2. Shifts(a, k, a, news) /\ \A M : Kept(a, k, M) = Truth(cur \in M)
    BY <2>1 DEF Shifts, Kept
  <2>3. /\ queue' \in [Actors -> Seq(Messages)]
        /\ handling' \in [Actors -> Messages \cup {None}]
        /\ \A x \in Actors :
              /\ Under(x)' \subseteq Under(x) \cup (IF x = a THEN ToSet(news) ELSE {})
              /\ \A M \in SUBSET Messages :
                     /\ Load(x, M) \in Nat
                     /\ Load(x, M)' =
                            Load(x, M) - (IF x = a THEN Kept(a, k, M) ELSE 0)
                            + (IF x = a THEN CountIn(news, M) ELSE 0)
    BY <1>1, <2>2, ShiftedMail
  <2> QED  BY <2>2, <2>3
<1>3. /\ cur.reply \in Callers \cup {Client, Nobody} /\ cur.reply # a
      /\ cur.reply = Client => cur.about \in Requests
  BY TurnsAnswer
<1>4. /\ answer' = [b \in Actors |-> IF b = cur.reply THEN result
                                     ELSE IF b = a THEN "none" ELSE answer[b]]
      /\ outcome' = IF cur.reply = Client
                    THEN [outcome EXCEPT ![cur.about] = result] ELSE outcome
      /\ handling' = [handling EXCEPT ![a] = None]
  BY DEF Ends
<1>5. MailInv'
  <2>1. answer' \in [Actors -> Answers] /\ outcome' \in [Requests -> Answers \cup {"unsent"}]
    BY <1>4 DEF MailInv, Settled, Answers
  <2>2. \A x \in Actors : \A n \in Under(x)' : n \in Under(x) \/ Proper(x, n)
    BY <1>2
  <2> QED  BY <1>2, <2>1, <2>2, TurnOwn, MailKeeps
<1>6. ASSUME NEW c \in Callers \cup {Client}
      PROVE  CallsOf(c) \in SUBSET Messages /\ CountIn(news, CallsOf(c)) = 0
  <2>1. CallsOf(c) \in SUBSET Messages /\ ToSet(news) \cap CallsOf(c) = {}
    BY NoCaller DEF CallsOf
  <2> QED  BY <2>1, CountZero
<1>7. ASSUME NEW c \in Callers \cup {Client}
      PROVE  \A x \in Actors :
                /\ Load(x, CallsOf(c)) \in Nat /\ Load(x, CallsOf(c))' \in Nat
                /\ Load(x, CallsOf(c))' =
                      Load(x, CallsOf(c)) - (IF x = a /\ cur \in CallsOf(c) THEN 1 ELSE 0)
  <2> TAKE x \in Actors
  <2>1. CallsOf(c) \in SUBSET Messages /\ CountIn(news, CallsOf(c)) = 0
    BY <1>6
  <2>2. Load(x, CallsOf(c)) \in Nat /\ Load(x, CallsOf(c))' \in Nat
    BY <1>5, <2>1, LoadIs, LoadTyped
  <2>3. (IF x = a THEN Truth(cur \in CallsOf(c)) ELSE 0)
           = (IF x = a /\ cur \in CallsOf(c) THEN 1 ELSE 0)
    BY DEF Truth
  <2>4. CallsOf(c)' = CallsOf(c)
    BY DEF CallsOf
  <2>5. Load(x, CallsOf(c))' =
            Load(x, CallsOf(c)) - (IF x = a THEN Truth(cur \in CallsOf(c)) ELSE 0)
            + (IF x = a THEN CountIn(news, CallsOf(c)) ELSE 0)
    BY <1>2, <2>1, <2>4
  <2> DEFINE l == Load(x, CallsOf(c))
             n == Load(x, CallsOf(c))'
             k == IF x = a THEN Truth(cur \in CallsOf(c)) ELSE 0
             j == IF x = a THEN CountIn(news, CallsOf(c)) ELSE 0
  <2>6. k \in Nat /\ j = 0 /\ l \in Nat
    BY <2>1, <2>2, <2>3
  <2>7. n = l - k + j
    BY <2>5
  <2>8. n = l - k
    <3> HIDE DEF l, n, k, j
    <3> QED  BY <2>6, <2>7
  <2> QED  BY <2>2, <2>3, <2>8
<1>8. ASSUME NEW c \in Callers \cup {Client}
      PROVE  Single(c)'
  <2>1. Single(c)
    BY CallInvIs
  <2> QED  BY <1>7, <2>1, SingleKeeps
<1>9. ASSUME NEW x \in Actors, NEW n \in Under(x)'
      PROVE  Served(n)'
  <2>1. CASE n \notin Under(x)
    <3>1. n.reply = Nobody
      BY <1>2, <2>1
    <3> QED  BY <3>1, ActorNames DEF Served, Names
  <2>2. CASE n \in Under(x)
    <3>1. n.reply # a
      BY <2>2, TurnsFree
    <3>2. ASSUME n.reply = cur.reply, n.reply \in Callers \cup {Client}
          PROVE  FALSE
      <4> DEFINE M == CallsOf(n.reply)
      <4>1. n \in Messages /\ n \in Under(x)' /\ n \in M /\ cur \in M
        BY <1>1, <2>2, <3>2, UnderIs DEF CallsOf
      <4>2. Load(x, M)' # 0
        BY <1>5, <1>6, <3>2, <4>1, LoadTyped
      <4>3. Load(a, M) # 0
        BY <1>1, <1>6, <3>2, <4>1, LoadIs
      <4>4. Single(n.reply)
        BY <3>2, CallInvIs
      <4>5. /\ Load(x, M) \in Nat
            /\ Load(x, M)' = Load(x, M) - (IF x = a /\ cur \in M THEN 1 ELSE 0)
            /\ Load(a, M) \in Nat
        BY <1>7, <3>2
      <4>6. Load(x, M) <= 1 /\ (x # a => Load(x, M) = 0)
        BY <4>3, <4>4 DEF Single
      <4> HIDE DEF M
      <4> QED  BY <4>1, <4>2, <4>3, <4>5, <4>6
    <3>3. Served(n)
      BY <2>2 DEF CallInv
    <3>4. n.reply \in Callers => n.reply \in Actors
      BY ActorNames
    <3>5. n.reply \in Callers => /\ handling'[n.reply] = handling[n.reply]
                                 /\ answer'[n.reply] = answer[n.reply]
      BY <1>4, <3>1, <3>2, <3>4 DEF MailInv
    <3>6. n.reply = Client => outcome' = outcome
      BY <1>3, <1>4, <3>2
    <3> QED  BY <3>3, <3>5, <3>6 DEF Served
  <2> QED  BY <2>1, <2>2
<1> QED  BY <1>5, <1>8, <1>9, CallInvIs

LEMMA ReturnKeeps ==
    ASSUME MailInv, CallInv, workload' = workload, infos' \in Seq(Answers),
           NEW a \in Actors, NEW result \in Settled, ReturnStep(a, result)
    PROVE  MailInv' /\ CallInv'
<1>1. Shifts(a, FALSE, a, <<>>) /\ <<>> \in Seq(Messages)
  BY ReturnShifts
<1>2. \A m \in ToSet(<<>>) : FALSE
  BY DEF ToSet
<1> QED  BY <1>1, <1>2, EndKeeps DEF ReturnStep

LEMMA SelfKeeps ==
    ASSUME MailInv, MoneyInv, CallInv, workload' = workload, infos' \in Seq(Answers),
           NEW ops \in Seq(SelfSent), NEW result \in Settled, SelfStep(ops, result)
    PROVE  MailInv' /\ CallInv'
<1>1. PICK news \in Seq(Messages) :
          /\ Shifts(Coordinator, FALSE, Coordinator, news)
          /\ \A m \in ToSet(news) :
                 m.about = About(Coordinator) /\ m.reply = Nobody /\ m.op \in SelfSent
          /\ About(Coordinator) \in DOMAIN workload.commands \cap Requests
  BY SelfShifts
<1>2. \A m \in ToSet(news) : m.reply = Nobody /\ Proper(Coordinator, m)
  BY <1>1 DEF Proper
<1>3. Coordinator \in Actors
  BY ActorNames DEF Callers
<1> QED  BY <1>1, <1>2, <1>3, EndKeeps DEF SelfStep, SendsItself

(* A handler that goes on, with a call or without. *)
LEMMA GoesOnKeeps ==
    ASSUME MailInv, CallInv, workload' = workload, infos' \in Seq(Answers),
           NEW a \in Actors, Turns(a), NEW v \in Answers,
           answer' = [answer EXCEPT ![a] = v], outcome' = outcome,
           NEW b, NEW news \in Seq(Messages), Shifts(a, TRUE, b, news),
           news = <<>> \/ /\ a \in Callers /\ b \in Actors /\ v = "pending"
                          /\ \E m \in Messages :
                                /\ news = <<m>> /\ Proper(b, m) /\ m.reply = a
                                /\ m.about = Current(a).about
                                /\ <<a, Current(a).op, m.op>> \in Awaits
    PROVE  MailInv' /\ CallInv'
<1> DEFINE cur == Current(a)
<1>1. Busy(a) /\ cur \in Messages /\ cur \in Under(a)
  BY TurnsBusy, CurrentMessage
<1>2. /\ queue' \in [Actors -> Seq(Messages)]
      /\ handling' \in [Actors -> Messages \cup {None}]
      /\ \A x \in Actors :
            /\ Under(x)' \subseteq Under(x) \cup (IF x = b THEN ToSet(news) ELSE {})
            /\ \A M \in SUBSET Messages :
                   /\ Load(x, M) \in Nat
                   /\ Load(x, M)' = Load(x, M) + (IF x = b THEN CountIn(news, M) ELSE 0)
  <2>1. PICK k \in BOOLEAN : k = TRUE
    OBVIOUS
  <2>2. Shifts(a, k, b, news) /\ \A M : Kept(a, k, M) = 0
    BY <2>1 DEF Shifts, Kept
  <2>3. /\ queue' \in [Actors -> Seq(Messages)]
        /\ handling' \in [Actors -> Messages \cup {None}]
        /\ \A x \in Actors :
              /\ Under(x)' \subseteq Under(x) \cup (IF x = b THEN ToSet(news) ELSE {})
              /\ \A M \in SUBSET Messages :
                     /\ Load(x, M) \in Nat
                     /\ Load(x, M)' =
                            Load(x, M) - (IF x = a THEN Kept(a, k, M) ELSE 0)
                            + (IF x = b THEN CountIn(news, M) ELSE 0)
    BY <1>1, <2>2, ShiftedMail
  <2>4. ASSUME NEW x \in Actors, NEW M \in SUBSET Messages
        PROVE  Load(x, M)' = Load(x, M) + (IF x = b THEN CountIn(news, M) ELSE 0)
    <3>1. (IF x = a THEN Kept(a, k, M) ELSE 0) = 0
      BY <2>2
    <3>2. Load(x, M) - 0 = Load(x, M)
      BY <2>3
    <3> QED  BY <2>3, <3>1, <3>2
  <2> QED  BY <2>3, <2>4
<1>3. handling' = [handling EXCEPT ![a] = cur]
  BY DEF Shifts
<1>4. news = <<>> \/ \E m \in Messages : news = <<m>> /\ m.reply = a
  OBVIOUS
<1>5. ASSUME NEW m \in ToSet(news)
      PROVE  /\ Proper(b, m) /\ m.reply = a /\ m.about = cur.about
             /\ <<a, cur.op, m.op>> \in Awaits /\ v = "pending" /\ a \in Callers
  <2>1. news # <<>> 
    BY DEF ToSet
  <2>2. PICK n \in Messages :
            /\ news = <<n>> /\ Proper(b, n) /\ n.reply = a /\ n.about = cur.about
            /\ <<a, cur.op, n.op>> \in Awaits
    BY <2>1
  <2>3. ToSet(<<n>>) = {n}
    BY DEF ToSet
  <2> QED  BY <2>1, <2>2, <2>3
<1>6. MailInv'
  <2>1. answer' \in [Actors -> Answers] /\ outcome' \in [Requests -> Answers \cup {"unsent"}]
    BY DEF MailInv
  <2>2. \A x \in Actors : \A n \in Under(x)' : n \in Under(x) \/ Proper(x, n)
    BY <1>2, <1>5
  <2> QED  BY <1>2, <2>1, <2>2, TurnOwn, MailKeeps
<1>7. ASSUME NEW c \in Callers \cup {Client}
      PROVE  /\ CallsOf(c) \in SUBSET Messages /\ CallsOf(c)' = CallsOf(c)
             /\ CountIn(news, CallsOf(c)) <= (IF c = a THEN 1 ELSE 0)
             /\ CountIn(news, CallsOf(c)) \in Nat
  <2>1. CallsOf(c) \in SUBSET Messages /\ CallsOf(c)' = CallsOf(c)
    BY DEF CallsOf
  <2>2. CASE news = <<>>
    BY <2>1, <2>2, CountEmpty
  <2>3. ASSUME NEW m \in Messages, news = <<m>>, m.reply = a
        PROVE  CountIn(news, CallsOf(c)) = IF c = a THEN 1 ELSE 0
    <3>1. Append(<<>>, m) = <<m>> /\ <<>> \in Seq(Messages)
      OBVIOUS
    <3>2. CountIn(<<>>, CallsOf(c)) = 0
      BY CountEmpty
    <3>3. CountIn(Append(<<>>, m), CallsOf(c)) =
              CountIn(<<>>, CallsOf(c)) + IF m \in CallsOf(c) THEN 1 ELSE 0
      BY <3>1, CountEnds
    <3>4. m \in CallsOf(c) <=> c = a
      BY <2>3 DEF CallsOf
    <3> QED  BY <2>3, <3>1, <3>2, <3>3, <3>4
  <2> QED  BY <1>4, <2>1, <2>2, <2>3
<1>8. ASSUME NEW c \in Callers \cup {Client}
      PROVE  Single(c)'
  <2>1. \A x \in Actors :
            /\ Load(x, CallsOf(c)) \in Nat /\ Load(x, CallsOf(c))' \in Nat
            /\ Load(x, CallsOf(c))' = Load(x, CallsOf(c))
                                      + (IF x = b THEN CountIn(news, CallsOf(c)) ELSE 0)
    BY <1>2, <1>6, <1>7, LoadTyped
  <2>2. CASE c # a
    <3>1. CountIn(news, CallsOf(c)) = 0
      BY <1>7, <2>2
    <3>2. ASSUME NEW x \in Actors
          PROVE  Load(x, CallsOf(c))' <= Load(x, CallsOf(c))
      <4> DEFINE l == Load(x, CallsOf(c))
                 n == Load(x, CallsOf(c))'
                 j == IF x = b THEN CountIn(news, CallsOf(c)) ELSE 0
      <4>1. n = l + j /\ l \in Nat /\ j = 0
        BY <2>1, <3>1
      <4> HIDE DEF l, n, j
      <4>2. n <= l
        BY <4>1
      <4> QED  BY <4>2 DEF l, n
    <3> QED  BY <2>1, <3>2, CallInvIs, SingleKeeps
  <2>3. CASE c = a
    <3>1. ASSUME NEW x \in Actors
          PROVE  Load(x, CallsOf(c))' <= (IF x = b THEN 1 ELSE 0)
      <4> DEFINE l == Load(x, CallsOf(c))
                 n == Load(x, CallsOf(c))'
                 k == CountIn(news, CallsOf(c))
      <4>1. n = l + (IF x = b THEN k ELSE 0)
        BY <2>1
      <4>2. l = 0
        BY <2>3, TurnsFree
      <4>3. k \in Nat /\ k <= 1
        BY <1>7, <2>3
      <4> HIDE DEF l, n, k
      <4>4. n <= (IF x = b THEN 1 ELSE 0)
        BY <4>1, <4>2, <4>3
      <4> QED  BY <4>4 DEF n
    <3> QED  BY <2>1, <3>1, SingleBegins
  <2> QED  BY <2>2, <2>3
<1>9. ASSUME NEW x \in Actors, NEW n \in Under(x)'
      PROVE  Served(n)'
  <2>1. CASE n \notin Under(x)
    <3>1. n \in ToSet(news)
      BY <1>2, <2>1
    <3>2. handling'[a] = cur /\ cur # None /\ answer'[a] = v
      BY <1>1, <1>3, NoneIsNoMessage DEF MailInv
    <3>3. a # Client
      BY <1>5, <3>1, ActorNames DEF Names
    <3> QED  BY <1>5, <3>1, <3>2, <3>3 DEF Served
  <2>2. CASE n \in Under(x)
    <3>1. n.reply # a
      BY <2>2, TurnsFree
    <3>2. Served(n)
      BY <2>2 DEF CallInv
    <3>3. n.reply \in Callers => n.reply \in Actors
      BY ActorNames
    <3>4. n.reply \in Callers => /\ handling'[n.reply] = handling[n.reply]
                                 /\ answer'[n.reply] = answer[n.reply]
      BY <1>3, <3>1, <3>3 DEF MailInv
    <3> QED  BY <3>2, <3>4 DEF Served
  <2> QED  BY <2>1, <2>2
<1> QED  BY <1>6, <1>8, <1>9, CallInvIs

LEMMA HoldKeeps ==
    ASSUME MailInv, CallInv, workload' = workload, infos' \in Seq(Answers),
           NEW a \in Actors, HoldStep(a)
    PROVE  MailInv' /\ CallInv'
<1>1. PICK v \in Answers : answer' = [answer EXCEPT ![a] = v]
  BY DEF HoldStep
<1>2. Shifts(a, TRUE, a, <<>>) /\ <<>> \in Seq(Messages)
  BY HoldShifts
<1> QED  BY <1>1, <1>2, GoesOnKeeps DEF HoldStep

LEMMA CallKeeps ==
    ASSUME MailInv, MoneyInv, CallInv, workload' = workload, infos' \in Seq(Answers),
           NEW a \in Actors, NEW b \in Names, NEW op \in AllOps, CallStep(a, b, op)
    PROVE  MailInv' /\ CallInv'
<1>1. /\ a \in Callers /\ Busy(a) /\ outcome' = outcome /\ Turns(a) /\ Asked(a, b, op)
      /\ \E v \in {"pending", "refusal"}, news \in Seq(Messages) :
            /\ answer' = [answer EXCEPT ![a] = v]
            /\ Shifts(a, TRUE, b, news)
            /\ \/ news = <<>>
               \/ /\ v = "pending" /\ b \in Actors
                  /\ news = <<Message(b, op, About(a), a, own'[b])>>
                  /\ own'[b] \in Requests \cup {0}
                  /\ About(a) \in Requests \cup {0}
  BY CallShifts DEF CallStep
<1>2. PICK v \in {"pending", "refusal"}, news \in Seq(Messages) :
            /\ answer' = [answer EXCEPT ![a] = v]
            /\ Shifts(a, TRUE, b, news)
            /\ \/ news = <<>>
               \/ /\ v = "pending" /\ b \in Actors
                  /\ news = <<Message(b, op, About(a), a, own'[b])>>
                  /\ own'[b] \in Requests \cup {0}
                  /\ About(a) \in Requests \cup {0}
  BY <1>1
<1>3. v \in Answers
  BY DEF Answers, Results
<1>4. ASSUME news # <<>>
      PROVE  \E m \in Messages :
                 /\ news = <<m>> /\ Proper(b, m) /\ m.reply = a
                 /\ m.about = Current(a).about
                 /\ <<a, Current(a).op, m.op>> \in Awaits
  <2> DEFINE m == Message(b, op, About(a), a, own'[b])
  <2>1. m \in Messages /\ m.op = op /\ m.about = About(a) /\ m.reply = a
    BY <1>1, <1>2, <1>4, NewMessage
  <2>2. Proper(a, Current(a)) /\ <<a, Current(a).op, op>> \in Awaits
    BY <1>1, CurrentMessage DEF Asked
  <2>3. Current(a).op # "stop"
    BY <2>2 DEF Awaits, Commands, Formatted, Queries
  <2>4. About(a) \in DOMAIN workload.commands \cap Requests
    BY <2>2, <2>3 DEF Proper, About
  <2>5. Proper(b, m)
    <3>1. CASE a = Teller /\ b = Bank
      <4>1. op = Current(a).op
        BY <2>2, <3>1, ActorNames DEF Awaits
      <4>2. Current(a).op = Command(About(a)).command
        BY <2>2, <2>3, <3>1, ActorNames DEF Proper, About, Callers
      <4> HIDE DEF m
      <4> QED  BY <2>1, <2>4, <3>1, <4>1, <4>2 DEF Proper
    <3>2. CASE a = Bank /\ b = Coordinator /\ op \in CoordinatorProtocol \ SelfSent
      <4> HIDE DEF m
      <4> QED  BY <2>1, <2>4, <3>2 DEF Proper
    <3>3. CASE a \in {Bank, Coordinator} /\ b \in Nat /\ op \in AccountProtocol
      <4>1. b \in Accounts
        BY <1>2, <1>4, <3>3, ActorNames
      <4> HIDE DEF m
      <4> QED  BY <2>1, <2>4, <3>3, <4>1 DEF Proper
    <3>4. b \in DOMAIN balance => b \in Nat
      BY DEF MoneyInv
    <3> QED  BY <1>1, <3>1, <3>2, <3>3, <3>4 DEF Asked
  <2> HIDE DEF m
  <2> QED  BY <1>2, <1>4, <2>1, <2>2, <2>5 DEF m, About
<1> QED  BY <1>1, <1>2, <1>3, <1>4, GoesOnKeeps

LEMMA QuietKeeps ==
    ASSUME MailInv, CallInv, workload' = workload, infos' \in Seq(Answers), QuietStep
    PROVE  MailInv' /\ CallInv'
<1>1. MailInv'
  BY DEF QuietStep, MailInv, Under, Proper, Command
<1>2. \A m : Served(m)' <=> Served(m)
  BY DEF QuietStep, Served
<1>3. \A x, M : Load(x, M)' = Load(x, M)
  BY DEF QuietStep, Load, CountIn, Truth
<1>4. \A x : Under(x)' = Under(x)
  BY DEF QuietStep, Under
<1>5. ASSUME NEW c \in Callers \cup {Client}  PROVE Single(c)'
  <2>1. \A x \in Actors : Load(x, CallsOf(c)) \in Nat
    BY LoadIs DEF CallsOf
  <2>2. Single(c) /\ CallsOf(c)' = CallsOf(c)
    BY CallInvIs DEF CallsOf
  <2> QED  BY <1>3, <2>2 DEF Single
<1> QED  BY <1>1, <1>2, <1>4, <1>5, CallInvIs DEF CallInv

(* No command is under way when the next one is given. *)
LEMMA NothingAwaited ==
    ASSUME MailInv, CallInv, RequestInv, NEW i \in Requests, Chooses(i)
    PROVE  \A x \in Actors : /\ \A m \in Under(x) : m.reply # Client
                             /\ Load(x, CallsOf(Client)) = 0
<1>1. outcome[i] = "unsent" /\ \A j \in 1..i - 1 : outcome[j] # "pending"
  BY DEF Chooses
<1>2. ASSUME NEW j \in Requests, outcome[j] = "pending"
      PROVE  FALSE
  <2>1. i \in Nat /\ j \in Nat /\ j >= 1
    BY ActorNames
  <2>2. CASE j < i
    BY <1>1, <1>2, <2>1, <2>2
  <2>3. CASE i < j
    BY <1>1, <1>2, <2>3 DEF RequestInv
  <2> QED  BY <1>1, <1>2, <2>1, <2>2, <2>3
<1>3. ASSUME NEW x \in Actors, NEW m \in Under(x), m.reply = Client
      PROVE  FALSE
  <2>1. m.about \in Requests
    BY <1>3, ActorNames DEF MailInv, Proper, Names, Callers
  <2> QED  BY <1>2, <1>3, <2>1 DEF CallInv, Served
<1>4. ASSUME NEW x \in Actors
      PROVE  Load(x, CallsOf(Client)) = 0
  BY <1>3, LoadIs DEF CallsOf
<1> QED  BY <1>3, <1>4

LEMMA CommandMessage ==
    ASSUME MailInv, MoneyInv, NEW i \in Requests, Chooses(i)
    PROVE  LET m == Message(Teller, Command(i).command, i, Client, i)
           IN  /\ m \in Messages /\ m.op = Command(i).command /\ m.about = i
               /\ m.reply = Client /\ m.context = i /\ m.spread = {Bank}
               /\ i \in DOMAIN workload.commands /\ Proper(Teller, m)
               /\ m.op # "stop"
<1>1. i \in DOMAIN workload.commands
  <2>1. i \in Nat \ {0} /\ i <= Len(workload.commands)
    BY ActorNames DEF Chooses
  <2>2. workload.commands \in Seq([command : Commands, account : Nat, to : Nat,
                                   amount : Int \cup {NaN}])
    BY BankAssumption DEF MailInv
  <2> QED  BY <2>1, <2>2
<1>2. Command(i).command \in Commands
  BY <1>1, CommandTypes
<1>3. Command(i).command \in AllOps
  BY <1>2, BankCallOps
<1> DEFINE m == Message(Teller, Command(i).command, i, Client, i)
<1>4. /\ m \in Messages /\ m.op = Command(i).command /\ m.about = i
      /\ m.reply = Client /\ m.context = i /\ m.spread = Spread(Teller, i)
  BY <1>3, NewMessage
<1>5. Spread(Teller, i) = {Bank} /\ i # 0
  BY ActorNames DEF Spread
<1>6. m.op # "stop"
  BY <1>2, <1>4 DEF Commands, Formatted, Queries
<1> HIDE DEF m
<1>7. Proper(Teller, m)
  BY <1>1, <1>4 DEF Proper
<1> QED  BY <1>1, <1>4, <1>5, <1>6, <1>7 DEF m

LEMMA ClientKeeps ==
    ASSUME MailInv, MoneyInv, CallInv, RequestInv,
           workload' = workload, infos' \in Seq(Answers),
           NEW i \in Requests, ClientStep(i)
    PROVE  MailInv' /\ CallInv'
<1>1. PICK m : m = Message(Teller, Command(i).command, i, Client, i)
  OBVIOUS
<1>2. m \in Messages /\ m.about = i /\ m.reply = Client /\ Proper(Teller, m)
  BY <1>1, CommandMessage DEF ClientStep
<1>3. /\ queue' = [queue EXCEPT ![Teller] = Append(@, m)]
      /\ outcome' = [outcome EXCEPT ![i] = "pending"]
      /\ handling' = handling /\ answer' = answer
      /\ own' = [own EXCEPT ![Teller] = i] /\ Teller \in Actors
  BY <1>1, ActorNames DEF ClientStep, LaysContext, Callers
<1>4. /\ queue' \in [Actors -> Seq(Messages)]
      /\ handling' \in [Actors -> Messages \cup {None}]
      /\ \A x \in Actors :
            /\ Under(x)' = Under(x) \cup (IF x = Teller THEN {m} ELSE {})
            /\ \A M \in SUBSET Messages :
                   /\ Load(x, M) \in Nat
                   /\ Load(x, M)' = Load(x, M) + Truth(x = Teller /\ m \in M)
  BY <1>2, <1>3, AppendedMail
<1>5. MailInv'
  <2>1. \A x \in Actors : \A n \in Under(x)' : n \in Under(x) \/ Proper(x, n)
    BY <1>2, <1>4
  <2>2. outcome' \in [Requests -> Answers \cup {"unsent"}]
    BY <1>3 DEF MailInv, Answers
  <2>3. own' \in [Actors -> Requests \cup {0}]
    BY <1>3 DEF MailInv
  <2> QED  BY <1>3, <1>4, <2>1, <2>2, <2>3, MailKeeps DEF MailInv
<1>6. \A x \in Actors : /\ \A n \in Under(x) : n.reply # Client
                        /\ Load(x, CallsOf(Client)) = 0
  BY NothingAwaited DEF ClientStep
<1>7. ASSUME NEW x \in Actors, NEW n \in Under(x)'
      PROVE  Served(n)'
  <2>1. CASE n \in Under(x)
    <3>1. n.reply # Client /\ Served(n)
      BY <1>6, <2>1 DEF CallInv
    <3> QED  BY <1>3, <3>1 DEF Served
  <2>2. CASE n = m
    BY <1>2, <1>3, <2>2, ActorNames DEF Served, Names, MailInv
  <2> QED  BY <1>4, <2>1, <2>2
<1>8. ASSUME NEW c \in Callers \cup {Client}
      PROVE  Single(c)'
  <2>1. CallsOf(c) \in SUBSET Messages /\ (m \in CallsOf(c) <=> c = Client)
    BY <1>2 DEF CallsOf
  <2>2. \A x \in Actors : Load(x, CallsOf(c))' \in Nat
    BY <1>5, <2>1, LoadTyped
  <2>3. \A x \in Actors :
            /\ Load(x, CallsOf(c)) \in Nat
            /\ Load(x, CallsOf(c))' = Load(x, CallsOf(c))
                                      + Truth(x = Teller /\ m \in CallsOf(c))
    <3>1. CallsOf(c)' = CallsOf(c)
      BY DEF CallsOf
    <3> QED  BY <1>4, <2>1, <3>1
  <2>4. CASE c = Client
    <3>1. \A x \in Actors : Load(x, CallsOf(c))' <= (IF x = Teller THEN 1 ELSE 0)
      BY <1>6, <2>3, <2>4 DEF Truth
    <3> QED  BY <2>2, <3>1, SingleBegins
  <2>5. CASE c # Client
    <3>1. \A x \in Actors : Load(x, CallsOf(c))' <= Load(x, CallsOf(c))
      BY <2>1, <2>3, <2>5 DEF Truth
    <3> QED  BY <2>2, <2>3, <3>1, CallInvIs, SingleKeeps
  <2> QED  BY <2>4, <2>5
<1> QED  BY <1>5, <1>7, <1>8, CallInvIs

Stays == workload' = workload /\ (infos' = infos \/ AllAccounts)

LEMMA StepsStay == [Next]_vars => Stays
<1>1. ASSUME NEW op, TellerAsks(op) \/ TellerAnswers(op)
      PROVE  Stays
  BY <1>1 DEF TellerAsks, TellerAnswers, OnlyMessages, bankVars, stageVars, Stays
<1>2. ASSUME BankSteps
      PROVE  Stays
  BY <1>2 DEF BankSteps, OpenAccount, AccountOpened, FindAccount, AccountFound,
     AccountSummary, TransactionHistory, Transfer, TransferInitiated,
     PendingTransfers, BankAnswers, OnlyMessages, bankVars, stageVars, Stays,
     AllAccounts
<1>3. ASSUME CoordinatorSteps
      PROVE  Stays
  BY <1>3 DEF CoordinatorSteps, RegisterAccount, InitiateTransfer, Withdrawn,
     RecordPendingTransfer, AttemptDeposit, Deposited, HandleDepositFailure,
     ProcessRefund, Refunded, CompleteTransfer, GetPendingTransfers,
     OnlyMessages, bankVars, stageVars, Stays
<1>4. ASSUME NEW a, AccountSteps(a) \/ HistorySettles(a)
      PROVE  Stays
  BY <1>4 DEF AccountSteps, HistorySettles, Deposit, Withdraw, Refund, GetInfo,
     GetHistory, HistoryAnswers, HistoryRejects, OnlyMessages, bankVars,
     stageVars, Stays
<1>5. ASSUME NEW a, BankSupervisor(a) \/ TransferSupervisor(a) \/ AccountSupervisor(a)
      PROVE  Stays
  BY <1>5 DEF BankSupervisor, TransferSupervisor, AccountSupervisor,
     DecidesToResume, OnlyMessages, bankVars, stageVars, Stays
<1>6. ASSUME NEW i, RetryFires(i) \/ ClientCalls(i)
      PROVE  Stays
  BY <1>6 DEF RetryFires, ClientCalls, OnlyMessages, bankVars, stageVars, Stays
<1>7. ASSUME CloseStage \/ BankBeginsToStop \/ BankStops
      PROVE  Stays
  BY <1>7 DEF CloseStage, BankBeginsToStop, BankStops, bankVars, stageVars, Stays
<1>8. ASSUME NEW a, StageStops(a) \/ ParentStops(a) \/ Stops(a)
      PROVE  Stays
  BY <1>8 DEF StageStops, ParentStops, Stops, SendsStop, bankVars, stageVars, Stays
<1>9. ASSUME NEW t, OthersSchedule(t)
      PROVE  Stays
  BY <1>9 DEF OthersSchedule, bankVars, stageVars, Stays
<1>10. ASSUME UNCHANGED vars
       PROVE  Stays
  BY <1>10 DEF vars, bankVars, stageVars, Stays
<1> QED
  BY <1>1, <1>2, <1>3, <1>4, <1>5, <1>6, <1>7, <1>8, <1>9, <1>10 DEF Next, Progress

LEMMA SmallTypes ==
    ASSUME MailInv, [Next]_vars
    PROVE  workload' = workload /\ infos' \in Seq(Answers)
<1>1. workload' = workload /\ (infos' = infos \/ AllAccounts)
  BY StepsStay DEF Stays
<1>2. infos \in Seq(Answers) /\ answer[Bank] \in Answers
  BY ActorNames DEF MailInv, Callers
<1>3. CASE AllAccounts
  <2>1. infos' = <<>> \/ infos' = Append(infos, answer[Bank])
    BY <1>3 DEF AllAccounts
  <2>2. \A s \in Seq(Answers) : \A v \in Answers : Append(s, v) \in Seq(Answers)
    OBVIOUS
  <2>3. <<>> \in Seq(Answers)
    OBVIOUS
  <2> QED  BY <1>1, <1>2, <2>1, <2>2, <2>3
<1> QED  BY <1>1, <1>2, <1>3

LEMMA CallInvKeeps ==
    ASSUME MailInv, MoneyInv, CallInv, RequestInv, TransferInv, [Next]_vars
    PROVE  MailInv' /\ CallInv'
<1>1. workload' = workload /\ infos' \in Seq(Answers)
  BY SmallTypes
<1>2. MailStep
  BY NextIsMailStep
<1>3. ASSUME NEW a \in Actors, NEW b \in Names, NEW op \in AllOps, CallStep(a, b, op)
      PROVE  MailInv' /\ CallInv'
  BY <1>1, <1>3, CallKeeps
<1>4. ASSUME NEW a \in Actors, NEW result \in Settled, ReturnStep(a, result)
      PROVE  MailInv' /\ CallInv'
  BY <1>1, <1>4, ReturnKeeps
<1>5. ASSUME NEW a \in Actors, HoldStep(a)
      PROVE  MailInv' /\ CallInv'
  BY <1>1, <1>5, HoldKeeps
<1>6. ASSUME NEW a \in Actors, StopStep(a)
      PROVE  MailInv' /\ CallInv'
  <2> DEFINE m == Message(a, "stop", 0, Nobody, own[a])
  <2>1. own[a] \in Requests \cup {0} /\ "stop" \in AllOps
    BY BankCallOps DEF MailInv
  <2>2. m \in Messages /\ m.op = "stop" /\ m.reply = Nobody /\ m.about = 0
    BY <2>1, NewMessage
  <2>3. AppendStep(a, m)
    BY <1>6 DEF StopStep
  <2> HIDE DEF m
  <2>4. Proper(a, m)
    BY <2>2 DEF Proper
  <2> QED  BY <1>1, <2>2, <2>3, <2>4, AppendKeeps
<1>7. ASSUME NEW ops \in Seq(SelfSent), NEW result \in Settled, SelfStep(ops, result)
      PROVE  MailInv' /\ CallInv'
  BY <1>1, <1>7, SelfKeeps
<1>8. ASSUME NEW i \in Requests, ClientStep(i)
      PROVE  MailInv' /\ CallInv'
  BY <1>1, <1>8, ClientKeeps
<1>9. ASSUME NEW i \in Requests, i \in timeouts, RetryStep(i)
      PROVE  MailInv' /\ CallInv'
  <2> DEFINE m == Message(Coordinator, "attemptDeposit", i, Nobody, own[Coordinator])
  <2>1. /\ Coordinator \in Actors /\ own[Coordinator] \in Requests \cup {0}
        /\ "attemptDeposit" \in AllOps /\ "attemptDeposit" \in SelfSent
    BY ActorNames, BankCallOps, SelfSentOps DEF MailInv, Callers
  <2>2. m \in Messages /\ m.op = "attemptDeposit" /\ m.reply = Nobody /\ m.about = i
    BY <2>1, NewMessage
  <2>3. AppendStep(Coordinator, m)
    BY <1>9 DEF RetryStep
  <2>4. i \in DOMAIN workload.commands
    BY <1>9 DEF TransferInv, Moving
  <2> HIDE DEF m
  <2>5. Proper(Coordinator, m)
    BY <2>1, <2>2, <2>4 DEF Proper
  <2> QED  BY <1>1, <2>1, <2>2, <2>3, <2>5, AppendKeeps
<1>10. CASE QuietStep
  BY <1>1, <1>10, QuietKeeps
<1> QED
  BY <1>2, <1>3, <1>4, <1>5, <1>6, <1>7, <1>8, <1>9, <1>10 DEF MailStep

-----------------------------------------------------------------------------
(* Who writes to whom, and in which context *)

Reaches(a, b) ==
    \/ a = Teller /\ b = Bank
    \/ a = Bank /\ b = Coordinator
    \/ a = Bank /\ b \in DOMAIN balance /\ Current(a).op # "openAccount"
    \/ a = Coordinator /\ b = Coordinator
    \/ /\ a = Coordinator
       /\ b \in {TransferOf(About(a)).from, TransferOf(About(a)).to}
       /\ \/ Current(a).op \in SelfSent
          \/ /\ Current(a).op = "initiateTransfer"
             /\ handling[a] = None => Feasible(About(a))

(* The step of a handler, with the messages that it sends. *)
TurnStep(a, kept, b, news) ==
    /\ Turns(a) /\ Busy(a) /\ Shifts(a, kept, b, news)
    /\ news # <<>> => /\ b \in Actors /\ Reaches(a, b) /\ Current(a).op # "stop"
                      /\ b = Bank => \E m \in Messages : news = <<m>>
    /\ \A m \in ToSet(news) :
           /\ m.about = About(a) /\ m.op # "stop"
           /\ m.context = own'[b] /\ m.spread = Spread(b, own'[b])
    /\ \/ outcome' = outcome
       \/ /\ Current(a).reply = Client
          /\ \E result \in Settled : outcome' = [outcome EXCEPT ![About(a)] = result]

SentStep(b, m) ==
    /\ AppendStep(b, m)
    /\ m.context = own[b] /\ m.spread = Spread(b, own[b])
    /\ \/ m.op = "stop" /\ m.about = 0
       \/ /\ b = Coordinator /\ m.op = "attemptDeposit"
          /\ m.about \in timeouts \cap Requests

SendingStep ==
    \/ \E a \in Actors, kept \in BOOLEAN, b \in Names, news \in Seq(Messages) :
           TurnStep(a, kept, b, news)
    \/ \E b \in Actors, m \in Messages : SentStep(b, m)
    \/ \E i \in Requests : ClientStep(i)
    \/ QuietStep

LEMMA NothingNew == <<>> \in Seq(Messages) /\ \A m \in ToSet(<<>>) : FALSE
  BY EmptyQueue

LEMMA MailIsSending ==
    ASSUME MailInv, MoneyInv, MailStep
    PROVE  SendingStep
<1>1. ASSUME NEW a \in Actors, NEW b \in Names, NEW op \in AllOps, CallStep(a, b, op)
      PROVE  SendingStep
  <2>1. /\ a \in Callers /\ Busy(a) /\ outcome' = outcome /\ Turns(a) /\ Asked(a, b, op)
        /\ \E v \in {"pending", "refusal"}, news \in Seq(Messages) :
              /\ answer' = [answer EXCEPT ![a] = v]
              /\ Shifts(a, TRUE, b, news)
              /\ \/ news = <<>>
                 \/ /\ v = "pending" /\ b \in Actors
                    /\ news = <<Message(b, op, About(a), a, own'[b])>>
                    /\ own'[b] \in Requests \cup {0}
                    /\ About(a) \in Requests \cup {0}
    BY <1>1, CallShifts DEF CallStep
  <2>2. PICK news \in Seq(Messages) :
              /\ Shifts(a, TRUE, b, news)
              /\ \/ news = <<>>
                 \/ /\ b \in Actors
                    /\ news = <<Message(b, op, About(a), a, own'[b])>>
                    /\ own'[b] \in Requests \cup {0}
                    /\ About(a) \in Requests \cup {0}
    BY <2>1
  <2>3. Current(a).op # "stop" /\ op # "stop" /\ Reaches(a, b)
    <3>1. Asked(a, b, op) /\ <<a, Current(a).op, op>> \in Awaits
      BY <2>1 DEF Asked
    <3>2. Current(a).op # "stop" /\ op # "stop"
      BY <3>1 DEF Awaits, Commands, Formatted, Queries
    <3>3. /\ a = Bank /\ op \in AccountProtocol => Current(a).op # "openAccount"
          /\ a = Coordinator =>
                 Current(a).op \in SelfSent \/ Current(a).op = "initiateTransfer"
      BY <3>1, ActorNames DEF Awaits, AccountProtocol, Moves, SelfSent, TransferOps
    <3> QED  BY <3>1, <3>2, <3>3 DEF Asked, Reaches
  <2>4. CASE news = <<>>
    BY <2>1, <2>2, <2>4, NothingNew DEF SendingStep, TurnStep
  <2>5. CASE news # <<>>
    <3> DEFINE m == Message(b, op, About(a), a, own'[b])
    <3>1. /\ m \in Messages /\ m.op = op /\ m.about = About(a)
          /\ m.context = own'[b] /\ m.spread = Spread(b, own'[b])
      BY <2>1, <2>2, <2>5, NewMessage
    <3>2. news = <<m>> /\ b \in Actors
      BY <2>2, <2>5
    <3> HIDE DEF m
    <3>3. ToSet(news) = {m}
      BY <3>1, <3>2, SingleQueue
    <3>4. TurnStep(a, TRUE, b, news)
      BY <2>1, <2>2, <2>3, <3>1, <3>2, <3>3 DEF TurnStep
    <3> QED  BY <3>4 DEF SendingStep
  <2> QED  BY <2>4, <2>5
<1>2. ASSUME NEW a \in Actors, NEW result \in Settled, ReturnStep(a, result)
      PROVE  SendingStep
  <2>1. Busy(a) /\ Turns(a) /\ Shifts(a, FALSE, a, <<>>) /\ a \in Names
    BY <1>2, ReturnShifts, ActorNames DEF ReturnStep
  <2>2. \/ outcome' = outcome
        \/ /\ Current(a).reply = Client
           /\ outcome' = [outcome EXCEPT ![About(a)] = result]
    BY <1>2 DEF ReturnStep, Ends, About
  <2>3. TurnStep(a, FALSE, a, <<>>)
    BY <2>1, <2>2, NothingNew DEF TurnStep
  <2> QED  BY <2>1, <2>3, NothingNew DEF SendingStep
<1>3. ASSUME NEW a \in Actors, HoldStep(a)
      PROVE  SendingStep
  <2>1. Busy(a) /\ Turns(a) /\ Shifts(a, TRUE, a, <<>>) /\ a \in Names
    BY <1>3, HoldShifts, ActorNames DEF HoldStep
  <2>2. TurnStep(a, TRUE, a, <<>>)
    BY <1>3, <2>1, NothingNew DEF TurnStep, HoldStep
  <2> QED  BY <2>1, <2>2, NothingNew DEF SendingStep
<1>4. ASSUME NEW a \in Actors, StopStep(a)
      PROVE  SendingStep
  <2> DEFINE m == Message(a, "stop", 0, Nobody, own[a])
  <2>1. own[a] \in Requests \cup {0} /\ "stop" \in AllOps
    BY BankCallOps DEF MailInv
  <2>2. /\ m \in Messages /\ m.op = "stop" /\ m.about = 0 /\ m.context = own[a]
        /\ m.spread = Spread(a, own[a])
    BY <2>1, NewMessage
  <2>3. AppendStep(a, m)
    BY <1>4 DEF StopStep
  <2> HIDE DEF m
  <2> QED  BY <2>2, <2>3 DEF SendingStep, SentStep
<1>5. ASSUME NEW ops \in Seq(SelfSent), NEW result \in Settled, SelfStep(ops, result)
      PROVE  SendingStep
  <2>1. /\ Coordinator \in Actors /\ Coordinator \in Names
        /\ Turns(Coordinator) /\ Busy(Coordinator)
        /\ Coordinator # Bank
    BY <1>5, ActorNames, TurnsBusy DEF SelfStep, Callers
  <2>2. PICK news \in Seq(Messages) :
            /\ Shifts(Coordinator, FALSE, Coordinator, news)
            /\ \A m \in ToSet(news) :
                   /\ m.about = About(Coordinator) /\ m.op \in SelfSent
                   /\ m.context = own'[Coordinator] /\ m.spread = {}
    BY <1>5, SelfShifts
  <2>3. Spread(Coordinator, own'[Coordinator]) = {}
    BY ActorNames DEF Spread
  <2>4. "stop" \notin SelfSent /\ Current(Coordinator).op # "stop"
    BY <1>5 DEF SelfStep, SelfSent, TransferOps
  <2>5. \/ outcome' = outcome
        \/ /\ Current(Coordinator).reply = Client
           /\ outcome' = [outcome EXCEPT ![About(Coordinator)] = result]
    BY <1>5 DEF SelfStep, SendsItself, Ends, About
  <2>6. TurnStep(Coordinator, FALSE, Coordinator, news)
    BY <2>1, <2>2, <2>3, <2>4, <2>5 DEF TurnStep, Reaches
  <2> QED  BY <2>1, <2>6 DEF SendingStep
<1>6. ASSUME NEW i \in Requests, i \in timeouts, RetryStep(i)
      PROVE  SendingStep
  <2> DEFINE m == Message(Coordinator, "attemptDeposit", i, Nobody, own[Coordinator])
  <2>1. /\ Coordinator \in Actors /\ own[Coordinator] \in Requests \cup {0}
        /\ "attemptDeposit" \in AllOps
    BY ActorNames, BankCallOps, SelfSentOps DEF MailInv, Callers
  <2>2. /\ m \in Messages /\ m.op = "attemptDeposit" /\ m.about = i
        /\ m.context = own[Coordinator] /\ m.spread = Spread(Coordinator, own[Coordinator])
    BY <2>1, NewMessage
  <2>3. AppendStep(Coordinator, m)
    BY <1>6 DEF RetryStep
  <2> HIDE DEF m
  <2> QED  BY <1>6, <2>1, <2>2, <2>3 DEF SendingStep, SentStep
<1> QED
  BY <1>1, <1>2, <1>3, <1>4, <1>5, <1>6 DEF MailStep, SendingStep

LEMMA AscendingBegins ==
    ASSUME NEW q \in Seq(Messages), q # <<>>, Ascending(q)
    PROVE  /\ Ascending(Tail(q))
           /\ \A m \in ToSet(Tail(q)) : Head(q).context <= m.context
<1>1. /\ Tail(q) \in Seq(Messages) /\ Head(q) = q[1] /\ Len(q) \in Nat \ {0}
      /\ \A i \in 1..Len(Tail(q)) : Tail(q)[i] = q[i + 1] /\ i + 1 \in 1..Len(q)
  BY QueueBegins
<1>2. /\ DOMAIN q = 1..Len(q) /\ DOMAIN Tail(q) = 1..Len(Tail(q))
      /\ Len(Tail(q)) \in Nat
      /\ \A m \in ToSet(Tail(q)) : \E i \in 1..Len(Tail(q)) : Tail(q)[i] = m
  BY <1>1, QueueElements
<1> DEFINE t == Tail(q)
<1> HIDE DEF t
<1>3. ASSUME NEW j \in DOMAIN t, NEW k \in DOMAIN t, j <= k
      PROVE  t[j].context <= t[k].context
  <2>1. j + 1 \in DOMAIN q /\ k + 1 \in DOMAIN q /\ j + 1 <= k + 1
    BY <1>1, <1>2, <1>3 DEF t
  <2>2. t[j] = q[j + 1] /\ t[k] = q[k + 1]
    BY <1>1, <1>2 DEF t
  <2> QED  BY <2>1, <2>2 DEF Ascending
<1>4. ASSUME NEW m \in ToSet(t)
      PROVE  q[1].context <= m.context
  <2>1. PICK i \in 1..Len(t) : t[i] = m
    BY <1>2 DEF t
  <2>2. i + 1 \in DOMAIN q /\ 1 \in DOMAIN q /\ 1 <= i + 1 /\ t[i] = q[i + 1]
    BY <1>1, <1>2 DEF t
  <2> QED  BY <2>1, <2>2 DEF Ascending
<1> QED  BY <1>1, <1>3, <1>4 DEF Ascending, t

LEMMA AscendingEnds ==
    ASSUME NEW q \in Seq(Messages), NEW m \in Messages, Ascending(q),
           \A n \in ToSet(q) : n.context <= m.context
    PROVE  Ascending(Append(q, m))
<1> DEFINE r == Append(q, m)
<1>1. /\ DOMAIN q = 1..Len(q) /\ Len(q) \in Nat /\ DOMAIN r = 1..Len(r)
      /\ Len(r) = Len(q) + 1 /\ r[Len(q) + 1] = m
      /\ \A i \in 1..Len(q) : r[i] = q[i] /\ q[i] \in ToSet(q)
  BY QueueElements, QueueEnds
<1>2. m.context \in Nat
  <2>1. m.context \in Requests \cup {0}
    BY DEF Messages
  <2>2. \A n \in Requests \cup {0} : n \in Nat
    BY ActorNames
  <2> QED  BY <2>1, <2>2
<1> HIDE DEF r
<1>3. ASSUME NEW j \in DOMAIN r, NEW k \in DOMAIN r, j <= k
      PROVE  r[j].context <= r[k].context
  <2>1. CASE k \in 1..Len(q)
    BY <1>1, <1>3, <2>1 DEF Ascending
  <2>2. CASE k = Len(q) + 1
    <3>1. CASE j \in 1..Len(q)
      BY <1>1, <2>2, <3>1
    <3>2. CASE j = Len(q) + 1
      BY <1>1, <1>2, <2>2, <3>2
    <3> QED  BY <1>1, <3>1, <3>2
  <2> QED  BY <1>1, <2>1, <2>2
<1> QED  BY <1>3 DEF Ascending, r

(* The queues when a has begun with its message, or is still at it. *)
Remaining(a, x) == IF x = a /\ handling[a] = None THEN Tail(queue[x]) ELSE queue[x]

LEMMA TurnQueues ==
    ASSUME MailInv, NEW a \in Actors, NEW kept, NEW b \in Names,
           NEW news \in Seq(Messages), TurnStep(a, kept, b, news)
    PROVE  \A x \in Actors :
              /\ Remaining(a, x) \in Seq(Messages)
              /\ queue'[x] = IF x = b THEN Remaining(a, x) \o news ELSE Remaining(a, x)
              /\ queue'[x] = Remaining(a, x) \/ (x = b /\ news # <<>>)
<1>1. Rest(a) \in [Actors -> Seq(Messages)]
  BY CurrentMessage DEF TurnStep
<1>2. queue' = [Rest(a) EXCEPT ![b] = @ \o news]
  BY DEF TurnStep, Shifts
<1>3. ASSUME NEW x \in Actors
      PROVE  Rest(a)[x] = Remaining(a, x)
  BY DEF Rest, Remaining, MailInv
<1>4. ASSUME NEW x \in Actors
      PROVE  /\ Remaining(a, x) \in Seq(Messages)
             /\ queue'[x] = IF x = b THEN Remaining(a, x) \o news ELSE Remaining(a, x)
  BY <1>1, <1>2, <1>3
<1>5. \A s \in Seq(Messages) : s \o <<>> = s
  OBVIOUS
<1> QED  BY <1>4, <1>5

LEMMA TurnContexts ==
    ASSUME MailInv, SpreadInv, NEW a \in Actors, Turns(a)
    PROVE  \/ own' = own
           \/ /\ a = Teller /\ handling[a] = None /\ queue[a] # <<>>
              /\ Head(queue[Teller]) \in ToSet(queue[Teller])
              /\ own' = [own EXCEPT ![Bank] = Head(queue[Teller]).context]
           \/ /\ a = Bank /\ handling[a] = None /\ queue[a] # <<>>
              /\ Head(queue[Bank]) \in ToSet(queue[Bank])
              /\ own' = [x \in Actors |-> IF x \in Head(queue[Bank]).spread
                                          THEN Head(queue[Bank]).context ELSE own[x]]
              /\ Teller \notin Head(queue[Bank]).spread
              /\ Bank \notin Head(queue[Bank]).spread
<1>1. CASE handling[a] # None
  BY <1>1 DEF Turns
<1>2. CASE handling[a] = None
  <2> DEFINE h == Head(queue[a])
  <2>1. queue[a] # <<>> /\ own' = [x \in Actors |-> IF x \in h.spread THEN h.context ELSE own[x]]
    BY <1>2 DEF Turns, Propagates
  <2>2. h \in ToSet(queue[a]) /\ h \in Under(a) /\ own = [x \in Actors |-> own[x]]
    BY <2>1, QueueBegins, UnderIs DEF MailInv
  <2>3. CASE a = Teller
    <3>1. h.spread = IF h.context = 0 THEN {} ELSE {Bank}
      BY <2>2, <2>3 DEF SpreadInv
    <3> HIDE DEF h
    <3>2. CASE h.spread = {}
      <4>1. own' = own
        BY <2>1, <2>2, <3>2
      <4> QED  BY <4>1
    <3>3. CASE h.spread = {Bank}
      <4>1. own' = [own EXCEPT ![Bank] = h.context]
        BY <2>1, <2>2, <3>3
      <4> QED  BY <1>2, <2>1, <2>2, <2>3, <4>1 DEF h
    <3> QED  BY <3>1, <3>2, <3>3
  <2>4. CASE a = Bank
    <3>1. h.spread \subseteq {Coordinator} \cup Nat
      BY <2>2, <2>4 DEF SpreadInv
    <3>2. Teller \notin h.spread /\ Bank \notin h.spread
      BY <3>1, NamesAssumption
    <3> QED  BY <1>2, <2>1, <2>2, <2>4, <3>2
  <2>5. CASE a \notin {Teller, Bank}
    <3>1. h.spread = {}
      BY <2>2, <2>5 DEF SpreadInv
    <3> HIDE DEF h
    <3>2. own' = own
      BY <2>1, <2>2, <3>1
    <3> QED  BY <3>2
  <2> QED  BY <2>3, <2>4, <2>5
<1> QED  BY <1>1, <1>2

LEMMA TypedContexts ==
    ASSUME MailInv
    PROVE  /\ \A x \in Actors : own[x] \in Nat
           /\ \A x \in Actors : \A m \in Under(x) : m.context \in Nat /\ m.about \in Nat
           /\ \A x \in Actors : ToSet(queue[x]) \subseteq Under(x)
<1>1. \A m \in Messages : m.context \in Requests \cup {0} /\ m.about \in Requests \cup {0}
  BY DEF Messages
<1>2. \A x \in Actors : own[x] \in Requests \cup {0}
  BY DEF MailInv
<1>3. \A x \in Actors : Under(x) \subseteq Messages /\ ToSet(queue[x]) \subseteq Under(x)
  BY UnderIs
<1>4. \A n \in Requests \cup {0} : n \in Nat
  BY ActorNames
<1> QED  BY <1>1, <1>2, <1>3, <1>4

(* A request that is made is later than all that were. *)
LEMMA LaterRequest ==
    ASSUME RequestInv, NEW i \in Requests, Chooses(i), NEW n \in Requests \cup {0}, Sent(n)
    PROVE  n <= i
<1>1. \A x \in Requests : x \in Nat
  BY ActorNames
<1>2. CASE n = 0
  BY <1>1, <1>2
<1>3. CASE n # 0
  <2>1. outcome[n] # "unsent" /\ n \in Requests /\ outcome[i] = "unsent"
    BY <1>3 DEF Sent, Chooses
  <2>2. ~(i < n)
    BY <2>1 DEF RequestInv
  <2> QED  BY <1>1, <2>1, <2>2
<1> QED  BY <1>2, <1>3

(* Contexts only grow. *)
LEMMA ContextsGrow ==
    ASSUME MailInv, MoneyInv, RequestInv, OrderInv, SpreadInv, SendingStep
    PROVE  \A x \in Actors : own[x] <= own'[x] /\ own'[x] \in Requests \cup {0}
<1>1. /\ \A x \in Actors : own[x] \in Nat /\ own[x] \in Requests \cup {0} /\ own[x] <= own[x]
      /\ own \in [Actors -> Requests \cup {0}]
      /\ \A x \in Actors : Sent(own[x])
  BY TypedContexts DEF MailInv, RequestInv
<1>2. CASE own' = own
  BY <1>1, <1>2
<1>3. ASSUME NEW i \in Requests, ClientStep(i)
      PROVE  \A x \in Actors : own[x] <= own'[x] /\ own'[x] \in Requests \cup {0}
  <2>1. own' = [own EXCEPT ![Teller] = i] /\ Chooses(i)
    BY <1>3 DEF ClientStep, LaysContext
  <2>2. \A x \in Actors : own[x] <= i
    BY <1>1, <2>1, LaterRequest
  <2> QED  BY <1>1, <2>1, <2>2
<1>4. ASSUME NEW a \in Actors, Turns(a)
      PROVE  \A x \in Actors : own[x] <= own'[x] /\ own'[x] \in Requests \cup {0}
  <2>1. own' \in [Actors -> Requests \cup {0}]
    BY <1>4, TurnOwn
  <2>2. ASSUME NEW m \in ToSet(queue[Teller]), own' = [own EXCEPT ![Bank] = m.context]
        PROVE  \A x \in Actors : own[x] <= own'[x]
    <3>1. own[Bank] <= m.context
      BY DEF OrderInv
    <3> QED  BY <1>1, <2>2, <3>1
  <2>3. ASSUME NEW m \in ToSet(queue[Bank]), Teller \notin m.spread, Bank \notin m.spread,
               own' = [x \in Actors |-> IF x \in m.spread THEN m.context ELSE own[x]]
        PROVE  \A x \in Actors : own[x] <= own'[x]
    <3>1. \A x \in Actors \ {Teller, Bank} : own[x] <= m.context
      BY DEF OrderInv
    <3> QED  BY <1>1, <2>3, <3>1
  <2>4. \/ own' = own
        \/ \E m \in ToSet(queue[Teller]) : own' = [own EXCEPT ![Bank] = m.context]
        \/ \E m \in ToSet(queue[Bank]) :
               /\ Teller \notin m.spread /\ Bank \notin m.spread
               /\ own' = [x \in Actors |-> IF x \in m.spread THEN m.context ELSE own[x]]
    BY <1>4, TurnContexts
  <2> QED  BY <1>2, <2>1, <2>2, <2>3, <2>4
<1> QED
  BY <1>2, <1>3, <1>4 DEF SendingStep, TurnStep, SentStep, AppendStep, QuietStep

(* What is sent stays sent. *)
LEMMA SentStays ==
    ASSUME MailInv, CallInv, SendingStep
    PROVE  \A i \in Requests \cup {0} : Sent(i) => Sent(i)'
<1>1. "unsent" \notin Settled \cup {"pending"}
  BY DEF Settled, Answers, Results
<1>2. ASSUME NEW i, NEW v \in Settled \cup {"pending"},
             outcome' = [outcome EXCEPT ![i] = v]
      PROVE  \A n \in Requests \cup {0} : Sent(n) => Sent(n)'
  BY <1>1, <1>2 DEF Sent, MailInv
<1>3. CASE outcome' = outcome
  BY <1>3 DEF Sent
<1> QED
  BY <1>2, <1>3 DEF SendingStep, TurnStep, SentStep, AppendStep, QuietStep, ClientStep

LEMMA OutcomesStep ==
    ASSUME MailInv, CallInv, SendingStep
    PROVE  \/ outcome' = outcome
           \/ \E i \in Requests, v \in Settled :
                  outcome[i] = "pending" /\ outcome' = [outcome EXCEPT ![i] = v]
           \/ \E i \in Requests :
                  Chooses(i) /\ outcome' = [outcome EXCEPT ![i] = "pending"]
<1>1. ASSUME NEW a \in Actors, NEW kept, NEW b, NEW news, TurnStep(a, kept, b, news),
             Current(a).reply = Client
      PROVE  About(a) \in Requests /\ outcome[About(a)] = "pending"
  <2>1. Turns(a) /\ Busy(a)
    BY <1>1 DEF TurnStep
  <2>2. Served(Current(a)) /\ Current(a).about \in Requests
    BY <1>1, <2>1, CurrentMessage, TurnsAnswer DEF CallInv
  <2> QED  BY <1>1, <2>2 DEF Served, About
<1>2. ASSUME NEW a \in Actors, NEW kept, NEW b, NEW news, TurnStep(a, kept, b, news)
      PROVE  \/ outcome' = outcome
             \/ \E i \in Requests, v \in Settled :
                    outcome[i] = "pending" /\ outcome' = [outcome EXCEPT ![i] = v]
  BY <1>1, <1>2 DEF TurnStep
<1> QED
  BY <1>2 DEF SendingStep, SentStep, AppendStep, QuietStep, ClientStep

(* The messages after a step: old ones, and the new ones of the step. *)
NewTo(x, m) ==
    \/ /\ m.context = own'[x] /\ m.spread = Spread(x, own'[x])
       /\ \/ m.op = "stop" /\ m.about = 0 /\ own' = own
          \/ /\ m.op # "stop" /\ x = Coordinator /\ own' = own
             /\ m.about \in timeouts \cap Requests
          \/ /\ m.op # "stop"
             /\ \E a \in Actors : /\ Turns(a) /\ Busy(a) /\ Reaches(a, x)
                                  /\ m.about = About(a)
                                  /\ Current(a).op # "stop"
    \/ \E i \in Requests : /\ ClientStep(i) /\ x = Teller
                           /\ m.context = i /\ m.about = i /\ m.spread = {Bank}

LEMMA MessagesStep ==
    ASSUME MailInv, MoneyInv, SendingStep
    PROVE  \A x \in Actors :
              /\ \A m \in Under(x)' : m \in Under(x) \/ NewTo(x, m)
              /\ \A m \in ToSet(queue'[x]) : m \in ToSet(queue[x]) \/ NewTo(x, m)
<1> TAKE x \in Actors
<1> DEFINE Both(N) == /\ Under(x)' \subseteq Under(x) \cup N
                      /\ ToSet(queue'[x]) \subseteq ToSet(queue[x]) \cup N
                      /\ \A m \in N : NewTo(x, m)
<1>1. ASSUME NEW a \in Actors, NEW kept \in BOOLEAN, NEW b \in Names,
             NEW news \in Seq(Messages), TurnStep(a, kept, b, news)
      PROVE  \E N : Both(N)
  <2> DEFINE N == IF x = b THEN ToSet(news) ELSE {}
  <2>1. /\ Under(x)' \subseteq Under(x) \cup N
        /\ ToSet(queue'[x]) = ToSet(Rest(a)[x]) \cup N
    BY <1>1, ShiftedMail DEF TurnStep
  <2>2. ToSet(Rest(a)[x]) \subseteq ToSet(queue[x])
    <3>1. queue[x] \in Seq(Messages) /\ (handling[a] = None => queue[a] # <<>>)
      BY <1>1 DEF MailInv, TurnStep, Busy
    <3>2. queue[x] # <<>> => ToSet(Tail(queue[x])) \subseteq ToSet(queue[x])
      BY <3>1, QueueBegins
    <3> QED  BY <3>1, <3>2 DEF Rest, MailInv
  <2>3. ASSUME NEW m \in N
        PROVE  NewTo(x, m)
    <3>1. m \in ToSet(news) /\ x = b
      BY <2>3
    <3>2. news # <<>>
      BY <3>1, NothingNew
    <3> QED  BY <1>1, <3>1, <3>2 DEF TurnStep, NewTo
  <2> HIDE DEF N
  <2> QED  BY <2>1, <2>2, <2>3
<1>2. ASSUME NEW b \in Actors, NEW n \in Messages, SentStep(b, n)
      PROVE  \E N : Both(N)
  <2> DEFINE N == IF x = b THEN {n} ELSE {}
  <2>1. /\ Under(x)' = Under(x) \cup N /\ ToSet(queue'[x]) = ToSet(queue[x]) \cup N
        /\ own' = own
    BY <1>2, AppendedMail DEF SentStep, AppendStep
  <2>2. ASSUME NEW m \in N
        PROVE  NewTo(x, m)
    BY <1>2, <2>1, <2>2 DEF SentStep, NewTo
  <2> HIDE DEF N
  <2> QED  BY <2>1, <2>2
<1>3. ASSUME NEW i \in Requests, ClientStep(i)
      PROVE  \E N : Both(N)
  <2>1. PICK n : n = Message(Teller, Command(i).command, i, Client, i)
    OBVIOUS
  <2>2. n \in Messages /\ n.about = i /\ n.context = i /\ n.spread = {Bank}
    BY <1>3, <2>1, CommandMessage DEF ClientStep
  <2>3. /\ queue' = [queue EXCEPT ![Teller] = Append(@, n)] /\ handling' = handling
        /\ Teller \in Actors
    BY <1>3, <2>1, ActorNames DEF ClientStep, Callers
  <2> DEFINE N == IF x = Teller THEN {n} ELSE {}
  <2>4. Under(x)' = Under(x) \cup N /\ ToSet(queue'[x]) = ToSet(queue[x]) \cup N
    BY <2>2, <2>3, AppendedMail
  <2>5. \A m \in N : NewTo(x, m)
    BY <1>3, <2>2 DEF NewTo
  <2> HIDE DEF N
  <2> QED  BY <2>4, <2>5
<1>4. ASSUME QuietStep
      PROVE  \E N : Both(N)
  <2>1. Both({})
    BY <1>4 DEF QuietStep, Under
  <2> HIDE DEF Both
  <2> QED  BY <2>1
<1> HIDE DEF Both
<1>5. \E N : Both(N)
  BY <1>1, <1>2, <1>3, <1>4 DEF SendingStep
<1> QED  BY <1>5 DEF Both

LEMMA EarlierSent ==
    ASSUME RequestInv, NEW i \in Requests, NEW n \in Requests \cup {0}, Sent(n), n >= i
    PROVE  n \in Requests /\ Sent(i)
<1>1. \A x \in Requests : x \in Nat /\ x # 0
  BY ActorNames
<1>2. n \in Requests /\ outcome[n] # "unsent"
  BY <1>1 DEF Sent
<1>3. n = i \/ i < n
  BY <1>1, <1>2
<1> QED  BY <1>2, <1>3 DEF Sent, RequestInv

LEMMA RequestInvKeeps ==
    ASSUME MailInv, MoneyInv, CallInv, RequestInv, OrderInv, SpreadInv, TransferInv,
           SendingStep
    PROVE  RequestInv'
<1>1. ASSUME NEW i \in Requests, NEW j \in Requests, j < i, outcome'[i] # "unsent"
      PROVE  outcome'[j] \notin {"unsent", "pending"}
  <2>1. "unsent" \notin Settled /\ "pending" \notin Settled
    BY DEF Settled, Answers, Results
  <2>2. i \in Nat /\ j \in Nat /\ j >= 1 /\ outcome \in [Requests -> Answers \cup {"unsent"}]
    BY ActorNames DEF MailInv
  <2>3. outcome[i] # "unsent" => outcome[j] \notin {"unsent", "pending"}
    BY <1>1 DEF RequestInv
  <2>4. CASE outcome' = outcome
    BY <1>1, <2>3, <2>4
  <2>5. ASSUME NEW k \in Requests, NEW v \in Settled, outcome[k] = "pending",
               outcome' = [outcome EXCEPT ![k] = v]
        PROVE  outcome'[j] \notin {"unsent", "pending"}
    BY <1>1, <2>1, <2>2, <2>3, <2>5
  <2>6. ASSUME NEW k \in Requests, Chooses(k), outcome' = [outcome EXCEPT ![k] = "pending"]
        PROVE  outcome'[j] \notin {"unsent", "pending"}
    <3>1. outcome[k] = "unsent" /\ \A l \in 1..k - 1 : outcome[l] \notin {"unsent", "pending"}
      BY <2>6 DEF Chooses
    <3>2. CASE i = k
      BY <1>1, <2>2, <2>6, <3>1, <3>2
    <3>3. CASE i # k
      BY <1>1, <2>2, <2>3, <2>6, <3>1, <3>3
    <3> QED  BY <3>2, <3>3
  <2> QED  BY <2>4, <2>5, <2>6, OutcomesStep
<1>2. \A n \in Requests \cup {0} : Sent(n) => Sent(n)'
  BY SentStays
<1>3. \A x \in Actors : \A m \in Under(x) :
          /\ Sent(m.context) /\ Sent(m.about)
          /\ m.context \in Requests \cup {0} /\ m.about \in Requests \cup {0}
  <2>1. \A x \in Actors : Under(x) \subseteq Messages
    BY UnderIs
  <2> QED  BY <2>1 DEF RequestInv, Messages
<1>4. ASSUME NEW i \in Requests, ClientStep(i)
      PROVE  Sent(i)'
  BY <1>4 DEF ClientStep, Sent, MailInv
<1>5. ASSUME NEW x \in Actors
      PROVE  \E n \in Requests \cup {0} : own'[x] = n /\ Sent(n)'
  <2>1. own[x] \in Requests \cup {0} /\ Sent(own[x])
    BY DEF MailInv, RequestInv
  <2>2. CASE own' = own
    BY <1>2, <2>1, <2>2
  <2>3. ASSUME NEW i \in Requests, ClientStep(i)
        PROVE  \E n \in Requests \cup {0} : own'[x] = n /\ Sent(n)'
    <3>1. own'[x] = i \/ own'[x] = own[x]
      BY <2>3 DEF ClientStep, LaysContext, MailInv
    <3> QED  BY <1>2, <1>4, <2>1, <2>3, <3>1
  <2>4. ASSUME NEW a \in Actors, Turns(a)
        PROVE  \E n \in Requests \cup {0} : own'[x] = n /\ Sent(n)'
    <3>1. \/ own'[x] = own[x]
          \/ \E b \in Actors : \E m \in ToSet(queue[b]) : own'[x] = m.context
      BY <2>4, TurnContexts DEF MailInv
    <3>2. ASSUME NEW b \in Actors, NEW m \in ToSet(queue[b]), own'[x] = m.context
          PROVE  \E n \in Requests \cup {0} : own'[x] = n /\ Sent(n)'
      BY <1>2, <1>3, <3>2, TypedContexts
    <3> QED  BY <1>2, <2>1, <3>1, <3>2
  <2> QED
    BY <2>2, <2>3, <2>4 DEF SendingStep, TurnStep, SentStep, AppendStep, QuietStep
<1>6. ASSUME NEW x \in Actors
      PROVE  Sent(own[x])'
  <2>1. PICK n \in Requests \cup {0} : own'[x] = n /\ Sent(n)'
    BY <1>5
  <2> QED  BY <2>1 DEF Sent
<1>7. ASSUME NEW x \in Actors, NEW m \in Under(x)'
      PROVE  Sent(m.context)' /\ Sent(m.about)'
  <2>1. CASE m \in Under(x)
    BY <1>2, <1>3, <2>1
  <2>2. ASSUME m.context = own'[x]
        PROVE  Sent(m.context)'
    <3>1. PICK n \in Requests \cup {0} : own'[x] = n /\ Sent(n)'
      BY <1>5
    <3> QED  BY <2>2, <3>1
  <2>3. ASSUME m.op = "stop", m.about = 0
        PROVE  Sent(m.about)'
    BY <2>3 DEF Sent
  <2>4. ASSUME NEW a \in Actors, Busy(a), m.about = About(a)
        PROVE  Sent(m.about)'
    BY <1>2, <1>3, <2>4, CurrentMessage DEF About
  <2>5. ASSUME m.about \in timeouts \cap Requests
        PROVE  Sent(m.about)'
    <3>1. Coordinator \in Actors
      BY ActorNames DEF Callers
    <3>2. own[Coordinator] >= m.about
      BY <2>5, <3>1 DEF TransferInv, Moving
    <3>3. own[Coordinator] \in Requests \cup {0} /\ Sent(own[Coordinator])
      BY <3>1 DEF MailInv, RequestInv
    <3>4. Sent(m.about)
      BY <2>5, <3>2, <3>3, EarlierSent
    <3> QED  BY <1>2, <2>5, <3>4
  <2>6. ASSUME NEW i \in Requests, ClientStep(i), m.context = i, m.about = i
        PROVE  Sent(m.context)' /\ Sent(m.about)'
    BY <1>4, <2>6
  <2> QED  BY <2>1, <2>2, <2>3, <2>4, <2>5, <2>6, MessagesStep DEF NewTo
<1> QED  BY <1>1, <1>6, <1>7 DEF RequestInv

(* The teller hears only of the client and of the end, the bank also of the *)
(* teller.                                                                  *)
LEMMA TurnReaches ==
    ASSUME MailInv, MoneyInv, NEW a \in Actors, NEW kept \in BOOLEAN, NEW b \in Names,
           NEW news \in Seq(Messages), TurnStep(a, kept, b, news), news # <<>>
    PROVE  b # Teller /\ (b = Bank => a = Teller)
<1>1. /\ Reaches(a, b) /\ Current(a).op # "stop" /\ Busy(a)
      /\ Proper(a, Current(a))
  BY CurrentMessage DEF TurnStep
<1>2. About(a) \in DOMAIN workload.commands
  BY <1>1 DEF Proper, About
<1>3. TransferOf(About(a)).from \in Nat /\ TransferOf(About(a)).to \in Nat
  BY <1>2, CommandTypes
<1>4. /\ Teller \notin Nat /\ Teller \notin DOMAIN balance
      /\ Bank \notin Nat /\ Bank \notin DOMAIN balance
      /\ Teller # Bank /\ Teller # Coordinator /\ Bank # Coordinator
  BY NamesAssumption DEF MoneyInv
<1> QED  BY <1>1, <1>3, <1>4 DEF Reaches

LEMMA TurnHeard ==
    ASSUME MailInv, MoneyInv, NEW a \in Actors, NEW kept \in BOOLEAN, NEW b \in Names,
           NEW news \in Seq(Messages), TurnStep(a, kept, b, news)
    PROVE  /\ queue'[Teller] = Remaining(a, Teller)
           /\ \/ queue'[Bank] = Remaining(a, Bank)
              \/ /\ a = Teller
                 /\ \E m \in Messages : /\ queue'[Bank] = Append(queue[Bank], m)
                                        /\ m.context = own'[Bank]
<1>1. Teller \in Actors /\ Bank \in Actors /\ Teller # Bank
  BY ActorNames DEF Callers
<1>2. \A x \in Actors :
          /\ queue'[x] = IF x = b THEN Remaining(a, x) \o news ELSE Remaining(a, x)
          /\ queue'[x] = Remaining(a, x) \/ (x = b /\ news # <<>>)
  BY TurnQueues
<1>3. queue'[Teller] = Remaining(a, Teller)
  BY <1>1, <1>2, TurnReaches
<1>4. CASE Bank = b /\ news # <<>>
  <2>1. a = Teller
    BY <1>4, TurnReaches
  <2>2. PICK m \in Messages : news = <<m>>
    BY <1>4 DEF TurnStep
  <2>3. ToSet(<<m>>) = {m}
    BY SingleQueue
  <2>4. m.context = own'[Bank]
    BY <1>4, <2>2, <2>3 DEF TurnStep
  <2>5. \A s \in Seq(Messages) : s \o <<m>> = Append(s, m)
    OBVIOUS
  <2>6. queue'[Bank] = Remaining(a, Bank) \o news
    BY <1>1, <1>2, <1>4
  <2>7. Remaining(a, Bank) = queue[Bank] /\ queue[Bank] \in Seq(Messages)
    BY <1>1, <2>1 DEF Remaining, MailInv
  <2> QED  BY <1>3, <2>1, <2>2, <2>4, <2>5, <2>6, <2>7
<1>5. CASE ~(Bank = b /\ news # <<>>)
  BY <1>1, <1>2, <1>5, <1>3
<1> QED  BY <1>4, <1>5

(* A queue stays, loses its first message or gets one with this context. *)
Trims(q, r) == r = q \/ (q # <<>> /\ r = Tail(q))
Gains(q, r, context) ==
    r = q \/ \E m \in Messages : r = Append(q, m) /\ m.context = context

LEMMA ContextsStep ==
    ASSUME MailInv, MoneyInv, SpreadInv, SendingStep
    PROVE  \/ /\ own' = own
              /\ \/ Trims(queue[Teller], queue'[Teller])
                 \/ Gains(queue[Teller], queue'[Teller], own[Teller])
              /\ \/ Trims(queue[Bank], queue'[Bank])
                 \/ Gains(queue[Bank], queue'[Bank], own[Bank])
           \/ /\ queue[Teller] # <<>> /\ queue'[Teller] = Tail(queue[Teller])
              /\ own' = [own EXCEPT ![Bank] = Head(queue[Teller]).context]
              /\ Gains(queue[Bank], queue'[Bank], own'[Bank])
           \/ /\ queue[Bank] # <<>> /\ queue'[Bank] = Tail(queue[Bank])
              /\ queue'[Teller] = queue[Teller]
              /\ own' = [x \in Actors |-> IF x \in Head(queue[Bank]).spread
                                          THEN Head(queue[Bank]).context ELSE own[x]]
              /\ Teller \notin Head(queue[Bank]).spread
              /\ Bank \notin Head(queue[Bank]).spread
           \/ \E i \in Requests :
                 /\ Chooses(i) /\ own' = [own EXCEPT ![Teller] = i]
                 /\ Gains(queue[Teller], queue'[Teller], i)
                 /\ queue'[Bank] = queue[Bank]
<1>1. Teller \in Actors /\ Bank \in Actors /\ Teller # Bank
  BY ActorNames DEF Callers
<1>2. ASSUME NEW a \in Actors, NEW kept \in BOOLEAN, NEW b \in Names,
             NEW news \in Seq(Messages), TurnStep(a, kept, b, news), own' = own
      PROVE  /\ Trims(queue[Teller], queue'[Teller])
             /\ \/ Trims(queue[Bank], queue'[Bank])
                \/ Gains(queue[Bank], queue'[Bank], own[Bank])
  <2>1. handling[a] = None => queue[a] # <<>>
    BY <1>2 DEF TurnStep, Turns
  <2>2. \A x \in Actors : Trims(queue[x], Remaining(a, x))
    BY <2>1 DEF Trims, Remaining
  <2> QED  BY <1>1, <1>2, <2>2, TurnHeard DEF Gains
<1>3. ASSUME NEW kept \in BOOLEAN, NEW b \in Names,
             NEW news \in Seq(Messages), TurnStep(Teller, kept, b, news),
             handling[Teller] = None
      PROVE  /\ queue'[Teller] = Tail(queue[Teller])
             /\ Gains(queue[Bank], queue'[Bank], own'[Bank])
  <2>1. Remaining(Teller, Teller) = Tail(queue[Teller]) /\ Remaining(Teller, Bank) = queue[Bank]
    BY <1>1, <1>3 DEF Remaining
  <2> QED  BY <1>1, <1>3, <2>1, TurnHeard DEF Gains
<1>4. ASSUME NEW kept \in BOOLEAN, NEW b \in Names,
             NEW news \in Seq(Messages), TurnStep(Bank, kept, b, news),
             handling[Bank] = None
      PROVE  queue'[Bank] = Tail(queue[Bank]) /\ queue'[Teller] = queue[Teller]
  <2>1. Remaining(Bank, Bank) = Tail(queue[Bank]) /\ Remaining(Bank, Teller) = queue[Teller]
    BY <1>1, <1>4 DEF Remaining
  <2> QED  BY <1>1, <1>4, <2>1, TurnHeard
<1>5. ASSUME NEW b \in Actors, NEW m \in Messages, SentStep(b, m)
      PROVE  /\ own' = own
             /\ \A x \in Actors : Gains(queue[x], queue'[x], own[x])
  BY <1>5 DEF SentStep, AppendStep, MailInv, Gains
<1>6. ASSUME NEW i \in Requests, ClientStep(i)
      PROVE  /\ Chooses(i) /\ own' = [own EXCEPT ![Teller] = i]
             /\ Gains(queue[Teller], queue'[Teller], i)
             /\ queue'[Bank] = queue[Bank]
  <2>1. PICK n : n = Message(Teller, Command(i).command, i, Client, i)
    OBVIOUS
  <2>2. n \in Messages /\ n.context = i
    BY <1>6, <2>1, CommandMessage DEF ClientStep
  <2>3. queue' = [queue EXCEPT ![Teller] = Append(@, n)]
    BY <1>6, <2>1 DEF ClientStep
  <2>4. queue'[Teller] = Append(queue[Teller], n) /\ queue'[Bank] = queue[Bank]
    BY <1>1, <2>3 DEF MailInv
  <2> QED  BY <1>6, <2>2, <2>4 DEF Gains, ClientStep, LaysContext
<1>7. CASE QuietStep
  BY <1>7 DEF QuietStep, Trims
<1>8. ASSUME NEW a \in Actors, NEW kept \in BOOLEAN, NEW b \in Names,
             NEW news \in Seq(Messages), TurnStep(a, kept, b, news)
      PROVE  \/ own' = own
             \/ /\ a = Teller /\ handling[a] = None /\ queue[a] # <<>>
                /\ own' = [own EXCEPT ![Bank] = Head(queue[Teller]).context]
             \/ /\ a = Bank /\ handling[a] = None /\ queue[a] # <<>>
                /\ own' = [x \in Actors |-> IF x \in Head(queue[Bank]).spread
                                            THEN Head(queue[Bank]).context ELSE own[x]]
                /\ Teller \notin Head(queue[Bank]).spread
                /\ Bank \notin Head(queue[Bank]).spread
  BY <1>8, TurnContexts DEF TurnStep
<1> QED
  BY <1>1, <1>2, <1>3, <1>4, <1>5, <1>6, <1>7, <1>8 DEF SendingStep

LEMMA AscendingStep ==
    ASSUME NEW q \in Seq(Messages), NEW r, NEW context, Ascending(q),
           \A m \in ToSet(q) : m.context <= context,
           Trims(q, r) \/ Gains(q, r, context)
    PROVE  /\ Ascending(r)
           /\ \A m \in ToSet(r) : m \in ToSet(q) \/ m.context = context
<1>1. CASE r = q
  BY <1>1
<1>2. CASE q # <<>> /\ r = Tail(q)
  BY <1>2, AscendingBegins, QueueBegins
<1>3. ASSUME NEW m \in Messages, r = Append(q, m), m.context = context
      PROVE  /\ Ascending(r)
             /\ \A n \in ToSet(r) : n \in ToSet(q) \/ n.context = context
  BY <1>3, AscendingEnds, QueueEnds
<1> QED  BY <1>1, <1>2, <1>3 DEF Trims, Gains

LEMMA OrderInvKeeps ==
    ASSUME MailInv, MoneyInv, RequestInv, OrderInv, SpreadInv, SendingStep
    PROVE  OrderInv'
<1> DEFINE qt == queue[Teller]
           qb == queue[Bank]
           rt == queue'[Teller]
           rb == queue'[Bank]
<1>1. /\ Teller \in Actors /\ Bank \in Actors /\ Teller # Bank
      /\ qt \in Seq(Messages) /\ qb \in Seq(Messages)
  BY ActorNames DEF Callers, MailInv
<1>2. /\ \A x \in Actors : own[x] \in Nat
      /\ \A m \in ToSet(qt) : m.context \in Nat
      /\ \A m \in ToSet(qb) : m.context \in Nat
      /\ own \in [Actors -> Requests \cup {0}]
  BY <1>1, TypedContexts DEF MailInv
<1>3. /\ own[Bank] <= own[Teller]
      /\ \A a \in Actors \ {Teller, Bank} : own[a] <= own[Bank]
      /\ Ascending(qt) /\ Ascending(qb)
      /\ \A m \in ToSet(qt) : own[Bank] <= m.context /\ m.context <= own[Teller]
      /\ \A m \in ToSet(qb) :
             /\ m.context <= own[Bank]
             /\ \A a \in Actors \ {Teller, Bank} : own[a] <= m.context
  BY DEF OrderInv
<1> SUFFICES
      /\ own'[Bank] <= own'[Teller]
      /\ \A a \in Actors \ {Teller, Bank} : own'[a] <= own'[Bank]
      /\ Ascending(rt) /\ Ascending(rb)
      /\ \A m \in ToSet(rt) : own'[Bank] <= m.context /\ m.context <= own'[Teller]
      /\ \A m \in ToSet(rb) :
             /\ m.context <= own'[Bank]
             /\ \A a \in Actors \ {Teller, Bank} : own'[a] <= m.context
  BY DEF OrderInv, Ascending
<1> HIDE DEF qt, qb, rt, rb
<1>4. CASE /\ own' = own
           /\ Trims(qt, rt) \/ Gains(qt, rt, own[Teller])
           /\ Trims(qb, rb) \/ Gains(qb, rb, own[Bank])
  <2>1. /\ Ascending(rt)
        /\ \A m \in ToSet(rt) : m \in ToSet(qt) \/ m.context = own[Teller]
    BY <1>1, <1>3, <1>4, AscendingStep
  <2>2. /\ Ascending(rb)
        /\ \A m \in ToSet(rb) : m \in ToSet(qb) \/ m.context = own[Bank]
    BY <1>1, <1>3, <1>4, AscendingStep
  <2> QED  BY <1>1, <1>2, <1>3, <1>4, <2>1, <2>2
<1>5. CASE /\ qt # <<>> /\ rt = Tail(qt)
           /\ own' = [own EXCEPT ![Bank] = Head(qt).context]
           /\ Gains(qb, rb, own'[Bank])
  <2> DEFINE c == Head(qt).context
  <2>1. Head(qt) \in ToSet(qt) /\ \A m \in ToSet(rt) : m \in ToSet(qt)
    BY <1>1, <1>5, QueueBegins
  <2>2. Ascending(rt) /\ \A m \in ToSet(rt) : c <= m.context
    BY <1>1, <1>3, <1>5, AscendingBegins
  <2>3. own[Bank] <= c /\ c <= own[Teller] /\ c \in Nat
    BY <1>2, <1>3, <2>1
  <2> HIDE DEF c
  <2>4. own'[Bank] = c /\ \A x \in Actors \ {Bank} : own'[x] = own[x]
    BY <1>1, <1>2, <1>5 DEF c
  <2>5. \A m \in ToSet(qb) : m.context <= c
    BY <1>1, <1>2, <1>3, <2>3
  <2>6. /\ Ascending(rb)
        /\ \A m \in ToSet(rb) : m \in ToSet(qb) \/ m.context = c
    BY <1>1, <1>3, <1>5, <2>4, <2>5, AscendingStep
  <2>7. \A x \in Actors \ {Teller, Bank} : own'[x] <= own'[Bank] /\ own'[x] = own[x]
    BY <1>1, <1>2, <1>3, <2>3, <2>4
  <2>8. \A m \in ToSet(rb) :
            /\ m.context <= own'[Bank]
            /\ \A a \in Actors \ {Teller, Bank} : own'[a] <= m.context
    BY <1>1, <1>2, <1>3, <2>3, <2>4, <2>5, <2>6, <2>7
  <2>9. \A m \in ToSet(rt) : own'[Bank] <= m.context /\ m.context <= own'[Teller]
    BY <1>1, <1>3, <2>1, <2>2, <2>4
  <2> QED  BY <1>1, <2>2, <2>3, <2>4, <2>6, <2>7, <2>8, <2>9
<1>6. CASE /\ qb # <<>> /\ rb = Tail(qb) /\ rt = qt
           /\ own' = [x \in Actors |-> IF x \in Head(qb).spread
                                       THEN Head(qb).context ELSE own[x]]
           /\ Teller \notin Head(qb).spread /\ Bank \notin Head(qb).spread
  <2> DEFINE c == Head(qb).context
             s == Head(qb).spread
  <2>1. Head(qb) \in ToSet(qb) /\ \A m \in ToSet(rb) : m \in ToSet(qb)
    BY <1>1, <1>6, QueueBegins
  <2>2. Ascending(rb) /\ \A m \in ToSet(rb) : c <= m.context
    BY <1>1, <1>3, <1>6, AscendingBegins
  <2>3. /\ c <= own[Bank] /\ c \in Nat
        /\ \A a \in Actors \ {Teller, Bank} : own[a] <= c
    BY <1>2, <1>3, <2>1
  <2> HIDE DEF c, s
  <2>4. /\ own'[Bank] = own[Bank] /\ own'[Teller] = own[Teller]
        /\ \A x \in Actors : own'[x] = own[x] \/ own'[x] = c
    BY <1>1, <1>6 DEF c, s
  <2>5. \A x \in Actors \ {Teller, Bank} : own'[x] <= c
    BY <2>3, <2>4
  <2>6. \A x \in Actors \ {Teller, Bank} : own'[x] <= own'[Bank] /\ own'[x] \in Nat
    BY <1>1, <1>2, <2>3, <2>4, <2>5
  <2>7. \A m \in ToSet(rb) :
            /\ m.context <= own'[Bank]
            /\ \A a \in Actors \ {Teller, Bank} : own'[a] <= m.context
    BY <1>2, <1>3, <2>1, <2>2, <2>3, <2>4, <2>5, <2>6
  <2> QED  BY <1>3, <1>6, <2>2, <2>4, <2>6, <2>7
<1>7. ASSUME NEW i \in Requests, Chooses(i), own' = [own EXCEPT ![Teller] = i],
             Gains(qt, rt, i), rb = qb
      PROVE  /\ own'[Bank] <= own'[Teller]
             /\ \A a \in Actors \ {Teller, Bank} : own'[a] <= own'[Bank]
             /\ Ascending(rt) /\ Ascending(rb)
             /\ \A m \in ToSet(rt) : own'[Bank] <= m.context /\ m.context <= own'[Teller]
             /\ \A m \in ToSet(rb) :
                    /\ m.context <= own'[Bank]
                    /\ \A a \in Actors \ {Teller, Bank} : own'[a] <= m.context
  <2>1. i \in Nat /\ \A x \in Actors : own[x] <= i
    <3>1. \A x \in Actors : Sent(own[x]) /\ own[x] \in Requests \cup {0}
      BY DEF RequestInv, MailInv
    <3> QED  BY <1>7, <3>1, LaterRequest, ActorNames
  <2>2. own'[Teller] = i /\ \A x \in Actors \ {Teller} : own'[x] = own[x]
    BY <1>1, <1>2, <1>7
  <2>3. \A m \in ToSet(qt) : m.context <= i
    BY <1>1, <1>2, <1>3, <2>1
  <2>4. /\ Ascending(rt)
        /\ \A m \in ToSet(rt) : m \in ToSet(qt) \/ m.context = i
    BY <1>1, <1>3, <1>7, <2>3, AscendingStep
  <2>5. \A m \in ToSet(rt) : own'[Bank] <= m.context /\ m.context <= own'[Teller]
    BY <1>1, <1>3, <2>1, <2>2, <2>3, <2>4
  <2> QED  BY <1>1, <1>3, <1>7, <2>1, <2>2, <2>4, <2>5
<1> QED
  BY <1>4, <1>5, <1>6, <1>7, ContextsStep DEF qt, qb, rt, rb
-----------------------------------------------------------------------------
(* Every message runs in the context of its request *)

(* Whom a handler writes to has the context of the request by then. *)
LEMMA ReachedContexts ==
    ASSUME MailInv, MoneyInv, CallInv, OrderInv, SpreadInv, ContextInv, TransferInv,
           NEW a \in Actors, NEW b \in Actors, Turns(a), Busy(a), Reaches(a, b),
           Current(a).op # "stop"
    PROVE  own'[b] >= About(a) /\ About(a) \in Requests
<1>1. /\ Teller \in Actors /\ Bank \in Actors /\ Coordinator \in Actors
      /\ Teller # Bank /\ Teller # Coordinator /\ Bank # Coordinator
      /\ \A n \in Nat : n \notin Callers
      /\ \A i \in Requests : i \in Nat /\ i # 0
      /\ Actors = Callers \cup Accounts
  BY ActorNames DEF Callers
<1>2. /\ Current(a) \in Messages /\ Current(a) \in Under(a) /\ Proper(a, Current(a))
      /\ About(a) = Current(a).about
  BY CurrentMessage DEF About
<1>3. About(a) \in DOMAIN workload.commands \cap Requests
  BY <1>2 DEF Proper
<1>4. Current(a).context >= About(a) /\ Current(a).context \in Nat
  BY <1>2, TypedContexts DEF ContextInv
<1>5. /\ own' = own \/ handling[a] = None
      /\ handling[a] = None => /\ Current(a) \in ToSet(queue[a])
                               /\ own' = [x \in Actors |-> IF x \in Current(a).spread
                                              THEN Current(a).context ELSE own[x]]
      /\ handling[a] # None => Current(a) = handling[a]
  <2>1. handling[a] = None => queue[a] # <<>> /\ queue[a] \in Seq(Messages)
    BY DEF Busy, MailInv
  <2> QED  BY <2>1, QueueBegins DEF Turns, Propagates, Current
<1>6. ASSUME b \in Current(a).spread, handling[a] = None
      PROVE  own'[b] >= About(a)
  BY <1>4, <1>5, <1>6
<1>7. CASE a = Teller /\ b = Bank
  <2>1. CASE handling[a] = None
    <3>1. Current(a).spread = IF Current(a).context = 0 THEN {} ELSE {Bank}
      BY <1>2, <1>7 DEF SpreadInv
    <3>2. Current(a).context # 0
      BY <1>1, <1>3, <1>4
    <3> QED  BY <1>3, <1>6, <1>7, <2>1, <3>1, <3>2
  <2>2. CASE handling[a] # None
    BY <1>2, <1>3, <1>5, <1>7, <2>2 DEF ContextInv
  <2> QED  BY <2>1, <2>2
<1>8. CASE a = Bank /\ (b = Coordinator \/ (b \in DOMAIN balance /\ Current(a).op # "openAccount"))
  <2>1. CASE handling[a] = None
    <3>1. collaborators \subseteq Current(a).spread
      BY <1>5, <1>8, <2>1 DEF SpreadInv
    <3>2. b \in collaborators
      BY <1>8 DEF MoneyInv
    <3> QED  BY <1>3, <1>6, <2>1, <3>1, <3>2
  <2>2. CASE handling[a] # None
    BY <1>2, <1>3, <1>5, <1>8, <2>2 DEF ContextInv
  <2> QED  BY <2>1, <2>2
<1>9. CASE a = Coordinator
  <2>1. Current(a).spread = {} /\ own \in [Actors -> Requests \cup {0}]
    BY <1>1, <1>2, <1>9 DEF SpreadInv, MailInv
  <2>2. own'[b] = own[b]
    BY <1>5, <2>1
  <2>3. CASE b = Coordinator
    <3>1. own[Coordinator] >= Current(a).about
      BY <1>2, <1>9 DEF ContextInv
    <3> QED  BY <1>2, <1>3, <2>2, <2>3, <3>1
  <2>4. CASE /\ b \in {TransferOf(About(a)).from, TransferOf(About(a)).to}
             /\ Moving(About(a))
    BY <1>3, <2>2, <2>4 DEF TransferInv
  <2>5. CASE /\ b \in {TransferOf(About(a)).from, TransferOf(About(a)).to}
             /\ Current(a).op = "initiateTransfer" /\ Feasible(About(a))
    <3>1. b \in DOMAIN balance
      BY <2>5 DEF Feasible, MoneyInv
    <3>2. Current(a).reply = Bank
      <4>1. Coordinator \notin Accounts
        BY ActorNames DEF Callers
      <4> QED
        BY <1>1, <1>2, <1>9, <2>5, <4>1 DEF Proper, SelfSent, TransferOps, Callers
    <3>3. /\ handling[Bank] # None /\ handling[Bank].about = About(a)
          /\ <<Bank, handling[Bank].op, "initiateTransfer">> \in Awaits
      BY <1>1, <1>2, <2>5, <3>2 DEF CallInv, Served, Callers
    <3>4. handling[Bank].op = "transfer"
      BY <1>1, <3>3 DEF Awaits
    <3>5. own[b] >= handling[Bank].about
      BY <3>1, <3>3, <3>4 DEF ContextInv
    <3> QED  BY <1>3, <2>2, <3>3, <3>5
  <2>6. \/ b = Coordinator
        \/ /\ b \in {TransferOf(About(a)).from, TransferOf(About(a)).to}
           /\ \/ Current(a).op \in SelfSent
              \/ /\ Current(a).op = "initiateTransfer"
                 /\ handling[a] = None => Feasible(About(a))
    BY <1>1, <1>9 DEF Reaches
  <2>7. Current(a).op \in SelfSent => Moving(About(a))
    BY <1>2, <1>9 DEF Moving
  <2>8. Current(a).op = "initiateTransfer" /\ handling[a] # None => Moving(About(a))
    BY <1>2, <1>5, <1>9 DEF Moving
  <2> QED  BY <2>3, <2>4, <2>5, <2>6, <2>7, <2>8
<1> QED  BY <1>7, <1>8, <1>9 DEF Reaches

-----------------------------------------------------------------------------
(* Who changes the accounts *)

LEMMA AccountsStay == [Next]_vars =>
    /\ \/ UNCHANGED <<initial, balance, collaborators>>
       \/ OpenAccount
       \/ \E a \in Accounts : Deposit(a) \/ Withdraw(a) \/ Refund(a)
    /\ registered' = registered \/ RegisterAccount
<1> DEFINE Goal == /\ \/ UNCHANGED <<initial, balance, collaborators>>
                      \/ OpenAccount
                      \/ \E a \in Accounts : Deposit(a) \/ Withdraw(a) \/ Refund(a)
                   /\ registered' = registered \/ RegisterAccount
<1> SUFFICES ASSUME [Next]_vars  PROVE Goal
  OBVIOUS
<1>1. ASSUME OnlyMessages \/ UNCHANGED <<moneyVars, bankVars, transferVars>>
      PROVE  Goal
  BY <1>1 DEF OnlyMessages, moneyVars, bankVars, transferVars
<1>2. ASSUME NEW op, TellerAsks(op) \/ TellerAnswers(op)
      PROVE  Goal
  BY <1>1, <1>2 DEF TellerAsks, TellerAnswers
<1>3. ASSUME AllAccounts
      PROVE  Goal
  BY <1>3 DEF AllAccounts, moneyVars, transferVars
<1>4. ASSUME OpenAccount
      PROVE  Goal
  BY <1>4 DEF OpenAccount, transferVars
<1>5. ASSUME BankSteps
      PROVE  Goal
  BY <1>1, <1>3, <1>4, <1>5 DEF BankSteps, AccountOpened, FindAccount, AccountFound,
     AccountSummary, TransactionHistory, Transfer, TransferInitiated,
     PendingTransfers, BankAnswers
<1>6. ASSUME RegisterAccount
      PROVE  Goal
  BY <1>6 DEF RegisterAccount, moneyVars, bankVars
<1>7. ASSUME CoordinatorSteps
      PROVE  Goal
  BY <1>1, <1>6, <1>7 DEF CoordinatorSteps, InitiateTransfer, Withdrawn,
     RecordPendingTransfer, AttemptDeposit, Deposited, HandleDepositFailure,
     ProcessRefund, Refunded, CompleteTransfer, GetPendingTransfers,
     moneyVars, bankVars
<1>8. ASSUME NEW a \in Accounts, AccountSteps(a) \/ HistorySettles(a)
      PROVE  Goal
  BY <1>1, <1>8 DEF AccountSteps, HistorySettles, Deposit, Withdraw, Refund, GetInfo,
     GetHistory, HistoryAnswers, HistoryRejects, moneyVars, bankVars, transferVars
<1>9. ASSUME NEW a, BankSupervisor(a) \/ TransferSupervisor(a) \/ AccountSupervisor(a)
      PROVE  Goal
  BY <1>1, <1>9 DEF BankSupervisor, TransferSupervisor, AccountSupervisor, DecidesToResume
<1>10. ASSUME NEW i, RetryFires(i) \/ ClientCalls(i)
       PROVE  Goal
  BY <1>1, <1>10 DEF RetryFires, ClientCalls
<1>11. ASSUME \/ CloseStage \/ BankBeginsToStop \/ BankStops
              \/ \E a \in Actors : StageStops(a) \/ ParentStops(a) \/ Stops(a)
              \/ \E t \in Others : OthersSchedule(t)
       PROVE  Goal
  BY <1>1, <1>11 DEF CloseStage, BankBeginsToStop, BankStops, StageStops,
     ParentStops, Stops, SendsStop, OthersSchedule
<1>12. ASSUME UNCHANGED vars
       PROVE  Goal
  BY <1>1, <1>12 DEF vars
<1> HIDE DEF Goal
<1> QED
  BY <1>2, <1>5, <1>7, <1>8, <1>9, <1>10, <1>11, <1>12 DEF Next, Progress

(* The message at the head of the mailbox of an account, if it moves money. *)
LEMMA BalanceChanges ==
    ASSUME NEW q \in Seq(Nat), NEW a, NEW v, a \in DOMAIN q => v \in Nat
    PROVE  /\ [q EXCEPT ![a] = v] \in Seq(Nat)
           /\ Len([q EXCEPT ![a] = v]) = Len(q)
           /\ DOMAIN [q EXCEPT ![a] = v] = DOMAIN q
<1> DEFINE r == [q EXCEPT ![a] = v]
<1>1. /\ DOMAIN q = 1..Len(q) /\ Len(q) \in Nat /\ \A k \in 1..Len(q) : q[k] \in Nat
      /\ r = [k \in 1..Len(q) |-> IF k = a THEN v ELSE q[k]]
  OBVIOUS
<1>2. \A k \in 1..Len(q) : (IF k = a THEN v ELSE q[k]) \in Nat
  BY <1>1
<1> HIDE DEF r
<1>3. r \in Seq(Nat) /\ DOMAIN r = 1..Len(q)
  BY <1>1, <1>2
<1>4. Len(r) = Len(q)
  BY <1>1, <1>3
<1> QED  BY <1>1, <1>3, <1>4 DEF r

LEMMA AccountsMove ==
    ASSUME MailInv, MoneyInv, CallInv, TransferInv, NEW a \in Accounts,
           Deposit(a) \/ Withdraw(a) \/ Refund(a)
    PROVE  /\ initial' = initial /\ collaborators' = collaborators
           /\ balance' \in Seq(Nat) /\ Len(balance') = Len(balance)
           /\ DOMAIN balance' = DOMAIN balance
<1>1. PICK op \in Moves : /\ Begins(a, op) /\ op # "stop"
                          /\ op = "refund" <=> Refund(a)
  BY DEF Deposit, Withdraw, Refund, Moves, Begins
<1>2. Busy(a) /\ Current(a).op = op /\ a \in Actors
  BY <1>1, BeginsTurns, ActorNames
<1>3. Current(a) \in Under(a) /\ Proper(a, Current(a)) /\ About(a) = Current(a).about
  BY <1>2, CurrentMessage DEF About
<1>4. /\ About(a) \in DOMAIN workload.commands \cap Requests
      /\ Current(a).reply \in {Bank, Coordinator}
  <2>1. a \notin {Teller, Bank, Coordinator}
    BY ActorNames DEF Callers
  <2> QED  BY <1>1, <1>2, <1>3, <2>1 DEF Proper
<1>5. CASE Refund(a)
  <2>1. Current(a).op = "refund"
    BY <1>1, <1>2, <1>5
  <2>2. /\ handling[Current(a).reply] # None
        /\ About(a) = handling[Current(a).reply].about
        /\ <<Current(a).reply, handling[Current(a).reply].op, "refund">> \in Awaits
    BY <1>2, <1>3, <1>4, <2>1 DEF CallInv, Served, Callers
  <2>3. Current(a).reply = Coordinator /\ handling[Coordinator].op = "processRefund"
    BY <2>2, ActorNames DEF Awaits, Commands, Formatted, Queries
  <2>4. handling[Coordinator] \in Under(Coordinator)
    BY <2>2, <2>3 DEF Under
  <2>5. Moving(About(a))
    BY <2>2, <2>3, <2>4, SelfSentOps DEF Moving
  <2>6. IsValid(TransferOf(About(a)).amount)
    BY <1>4, <2>5 DEF TransferInv
  <2>7. AmountOf(a) \in Nat
    BY <1>4, <2>6, CommandTypes DEF AmountOf
  <2>8. balance' = [balance EXCEPT ![a] = balance[a] + AmountOf(a)]
    BY <1>5 DEF Refund
  <2>9. a \in DOMAIN balance => balance[a] + AmountOf(a) \in Nat
    BY <2>7, QueueElements DEF MoneyInv
  <2> QED  BY <1>5, <2>8, <2>9, BalanceChanges DEF Refund, MoneyInv, bankVars
<1>6. CASE Deposit(a)
  <2>1. CASE IsValid(AmountOf(a))
    <3>1. AmountOf(a) \in Nat
      BY <1>4, <2>1, CommandTypes DEF AmountOf
    <3>2. balance' = [balance EXCEPT ![a] = balance[a] + AmountOf(a)]
      BY <1>6, <2>1 DEF Deposit
    <3>3. a \in DOMAIN balance => balance[a] + AmountOf(a) \in Nat
      BY <3>1, QueueElements DEF MoneyInv
    <3> QED  BY <1>6, <3>2, <3>3, BalanceChanges DEF Deposit, MoneyInv, bankVars
  <2>2. CASE ~IsValid(AmountOf(a))
    BY <1>6, <2>2 DEF Deposit, MoneyInv, bankVars
  <2> QED  BY <2>1, <2>2
<1>7. CASE Withdraw(a)
  <2>1. CASE IsValid(AmountOf(a)) /\ AmountOf(a) <= balance[a]
    <3>1. AmountOf(a) \in Nat
      BY <1>4, <2>1, CommandTypes DEF AmountOf
    <3>2. balance' = [balance EXCEPT ![a] = balance[a] - AmountOf(a)]
      BY <1>7, <2>1 DEF Withdraw
    <3>3. a \in DOMAIN balance => balance[a] - AmountOf(a) \in Nat
      BY <2>1, <3>1, QueueElements DEF MoneyInv
    <3> QED  BY <1>7, <3>2, <3>3, BalanceChanges DEF Withdraw, MoneyInv, bankVars
  <2>2. CASE ~(IsValid(AmountOf(a)) /\ AmountOf(a) <= balance[a])
    BY <1>7, <2>2 DEF Withdraw, MoneyInv, bankVars
  <2> QED  BY <2>1, <2>2
<1> QED  BY <1>5, <1>6, <1>7

(* Accounts are opened, never closed. *)
LEMMA AccountsGrow ==
    ASSUME MailInv, MoneyInv, CallInv, TransferInv, [Next]_vars
    PROVE  /\ initial' \in Seq(Nat) /\ balance' \in Seq(Nat)
           /\ Len(initial') = Len(balance')
           /\ DOMAIN balance \subseteq DOMAIN balance'
           /\ collaborators' = {Coordinator} \cup DOMAIN balance'
           /\ \/ DOMAIN balance' = DOMAIN balance /\ collaborators' = collaborators
              \/ OpenAccount
           /\ registered \subseteq registered' /\ registered' \subseteq DOMAIN balance'
<1> DEFINE Goal == /\ initial' \in Seq(Nat) /\ balance' \in Seq(Nat)
                   /\ Len(initial') = Len(balance')
                   /\ DOMAIN balance \subseteq DOMAIN balance'
                   /\ collaborators' = {Coordinator} \cup DOMAIN balance'
                   /\ \/ DOMAIN balance' = DOMAIN balance /\ collaborators' = collaborators
                      \/ OpenAccount
<1>1. ASSUME UNCHANGED <<initial, balance, collaborators>>
      PROVE  Goal
  BY <1>1 DEF MoneyInv
<1>2. ASSUME NEW a \in Accounts, Deposit(a) \/ Withdraw(a) \/ Refund(a)
      PROVE  Goal
  BY <1>2, AccountsMove DEF MoneyInv
<1>3. ASSUME OpenAccount
      PROVE  Goal
  <2> DEFINE amount == Command(About(Bank)).amount
  <2>1. CASE IsValid(amount)
    <3>1. /\ amount \in Nat /\ initial' = Append(initial, amount)
          /\ balance' = Append(balance, amount)
          /\ collaborators' = collaborators \cup {Len(balance')}
      BY <1>3, <2>1, OpensAccount DEF OpenAccount, Collaborates
    <3> HIDE DEF amount
    <3>2. \A q \in Seq(Nat) : /\ Append(q, amount) \in Seq(Nat)
                              /\ Len(Append(q, amount)) = Len(q) + 1
                              /\ DOMAIN q = 1..Len(q) /\ Len(q) \in Nat
      BY <3>1, QueueEnds
    <3>3. /\ balance' \in Seq(Nat) /\ initial' \in Seq(Nat)
          /\ Len(balance') = Len(balance) + 1 /\ Len(initial') = Len(initial) + 1
          /\ Len(balance) \in Nat
          /\ DOMAIN balance = 1..Len(balance) /\ DOMAIN balance' = 1..Len(balance) + 1
      BY <3>1, <3>2 DEF MoneyInv
    <3>4. 1..Len(balance) + 1 = 1..Len(balance) \cup {Len(balance) + 1}
      BY <3>3
    <3> QED  BY <1>3, <3>1, <3>3, <3>4 DEF MoneyInv
  <2>2. CASE ~IsValid(amount)
    BY <1>1, <1>3, <2>2 DEF OpenAccount
  <2> QED  BY <2>1, <2>2
<1>4. Goal
  <2> HIDE DEF Goal
  <2> QED  BY <1>1, <1>2, <1>3, AccountsStay
<1>5. CASE RegisterAccount
  <2>1. Begins(Coordinator, "registerAccount") /\ registered' = registered \cup {Len(balance)}
    BY <1>5 DEF RegisterAccount
  <2>2. /\ Busy(Coordinator) /\ Current(Coordinator).op = "registerAccount"
        /\ Coordinator \in Actors /\ Bank \in Actors /\ Coordinator \notin Accounts
        /\ Teller # Bank /\ Coordinator # Teller /\ Coordinator # Bank
        /\ "registerAccount" \notin SelfSent
    BY <2>1, BeginsTurns, ActorNames DEF Callers, SelfSent, TransferOps
  <2>3. Current(Coordinator).reply = Bank /\ Served(Current(Coordinator))
    BY <2>2, CurrentMessage DEF Proper, CallInv
  <2>4. <<Bank, handling[Bank].op, "registerAccount">> \in Awaits
    BY <2>2, <2>3 DEF Served, Callers
  <2>5. handling[Bank].op = "openAccount"
    BY <2>2, <2>4 DEF Awaits
  <2>6. \A q \in Seq(Nat) : q # <<>> => Len(q) \in DOMAIN q
    <3>1. \A q \in Seq(Nat) : q # <<>> => Len(q) \in Nat \ {0}
      BY QueueBegins
    <3> QED  BY <3>1, QueueElements
  <2>7. Len(balance) \in DOMAIN balance
    BY <2>5, <2>6 DEF MoneyInv
  <2> QED  BY <1>4, <2>1, <2>7 DEF MoneyInv
<1>6. CASE registered' = registered
  BY <1>4, <1>6 DEF MoneyInv
<1> QED  BY <1>4, <1>5, <1>6, AccountsStay

LEMMA MoneyInvKeeps ==
    ASSUME MailInv, MoneyInv, CallInv, TransferInv, [Next]_vars
    PROVE  MoneyInv'
<1>1. handling'[Bank].op = "openAccount" => balance' # <<>>
  <2> SUFFICES ASSUME handling'[Bank].op = "openAccount"  PROVE balance' # <<>>
    OBVIOUS
  <2>1. Bank \in Actors /\ None.op # "openAccount"
    BY ActorNames, NoneIsNoMessage DEF Callers
  <2>2. CASE handling'[Bank] = handling[Bank]
    <3>1. balance # <<>>
      BY <2>2 DEF MoneyInv
    <3>2. \A q \in Seq(Nat) : q # <<>> <=> DOMAIN q # {}
      BY QueueBegins, QueueElements
    <3> QED  BY <3>1, <3>2, AccountsGrow DEF MoneyInv
  <2>3. CASE /\ handling'[Bank] = Current(Bank)
             /\ \E b, op : Asked(Bank, b, op)
    BY <2>3, ActorNames DEF Asked, Awaits
  <2>4. CASE handling'[Bank] = Current(Bank) /\ Current(Bank).op # "openAccount"
    BY <2>4
  <2>5. ASSUME NEW a \in Actors, NEW b \in Names, NEW op \in AllOps, CallStep(a, b, op)
        PROVE  balance' # <<>>
    <3>1. handling'[Bank] = IF a = Bank THEN Current(Bank) ELSE handling[Bank]
      BY <2>1, <2>5 DEF CallStep, Calls, MailInv
    <3> QED  BY <2>2, <2>3, <2>5, <3>1 DEF CallStep
  <2>6. ASSUME NEW a \in Actors, HoldStep(a)
        PROVE  balance' # <<>>
    <3>1. handling'[Bank] = IF a = Bank THEN Current(Bank) ELSE handling[Bank]
      BY <2>1, <2>6 DEF HoldStep, MailInv
    <3> QED  BY <2>2, <2>4, <2>6, <3>1 DEF HoldStep
  <2>7. ASSUME NEW a \in Actors, NEW result, Ends(a, result)
        PROVE  balance' # <<>>
    <3>1. handling'[Bank] = IF a = Bank THEN None ELSE handling[Bank]
      BY <2>1, <2>7 DEF Ends, MailInv
    <3> QED  BY <2>1, <2>2, <3>1
  <2>8. Coordinator \in Actors
    BY ActorNames DEF Callers
  <2> QED
    BY <2>2, <2>5, <2>6, <2>7, <2>8, NextIsMailStep
    DEF MailStep, ReturnStep, StopStep, AppendStep, SelfStep, SendsItself,
        ClientStep, RetryStep, QuietStep
<1> QED  BY <1>1, AccountsGrow DEF MoneyInv

-----------------------------------------------------------------------------
(* Contexts are those of the requests *)

LEMMA HandlingStep ==
    ASSUME MailInv, SendingStep
    PROVE  \A x \in Actors : \/ handling'[x] = handling[x] \/ handling'[x] = None
                             \/ Turns(x) /\ Busy(x) /\ handling'[x] = Current(x)
<1>1. ASSUME NEW a \in Actors, NEW kept \in BOOLEAN, NEW b \in Names,
             NEW news \in Seq(Messages), TurnStep(a, kept, b, news), NEW x \in Actors
      PROVE  \/ handling'[x] = handling[x] \/ handling'[x] = None
             \/ Turns(x) /\ Busy(x) /\ handling'[x] = Current(x)
  <2>1. handling'[x] = IF x = a THEN IF kept THEN Current(a) ELSE None
                       ELSE handling[x]
    BY <1>1 DEF TurnStep, Shifts, MailInv
  <2> QED  BY <1>1, <2>1 DEF TurnStep
<1> QED
  BY <1>1 DEF SendingStep, SentStep, AppendStep, ClientStep, QuietStep

LEMMA HandlingReaches ==
    ASSUME MailInv, MoneyInv, CallInv, RequestInv, OrderInv, SpreadInv, ContextInv,
           TransferInv, SendingStep, NEW a \in Actors, NEW b \in Actors,
           handling'[a] # None, handling'[a].op # "stop",
           handling'[a] = handling[a] => own[b] >= handling[a].about,
           handling'[a] = Current(a) => Reaches(a, b)
    PROVE  own'[b] >= handling'[a].about
<1>1. own[b] \in Nat /\ own'[b] \in Nat /\ own[b] <= own'[b]
  <2>1. \A n \in Requests \cup {0} : n \in Nat
    BY ActorNames
  <2> QED  BY <2>1, ContextsGrow, TypedContexts
<1>2. CASE handling'[a] = handling[a]
  <2>1. handling[a].about \in Nat
    BY <1>2, TypedContexts DEF Under
  <2> QED  BY <1>1, <1>2, <2>1
<1>3. CASE Turns(a) /\ Busy(a) /\ handling'[a] = Current(a)
  BY <1>3, ReachedContexts DEF About
<1> QED  BY <1>2, <1>3, HandlingStep

LEMMA ContextInvKeeps ==
    ASSUME MailInv, MoneyInv, CallInv, RequestInv, OrderInv, SpreadInv, ContextInv,
           TransferInv, [Next]_vars
    PROVE  ContextInv'
<1>1. SendingStep
  BY NextIsMailStep, MailIsSending
<1>2. /\ Teller \in Actors /\ Bank \in Actors /\ Coordinator \in Actors
      /\ Teller # Coordinator /\ Bank # Teller /\ Bank # Coordinator
      /\ \A n \in Requests \cup {0} : n \in Nat
  BY ActorNames DEF Callers
<1>3. ASSUME NEW x \in Actors, NEW m \in Under(x)', m.op # "stop", NewTo(x, m)
      PROVE  m.context >= m.about /\ (x = Coordinator => own'[x] >= m.about)
  <2>1. CASE /\ x = Coordinator /\ own' = own /\ m.context = own'[x]
             /\ m.about \in timeouts \cap Requests
    BY <1>2, <2>1 DEF TransferInv, Moving
  <2>2. CASE /\ m.context = own'[x]
             /\ \E a \in Actors : /\ Turns(a) /\ Busy(a) /\ Reaches(a, x)
                                  /\ m.about = About(a)
                                  /\ Current(a).op # "stop"
    BY <2>2, ReachedContexts
  <2>3. CASE \E i \in Requests : x = Teller /\ m.context = i /\ m.about = i
    BY <1>2, <2>3
  <2> QED  BY <1>3, <2>1, <2>2, <2>3 DEF NewTo
<1>4. ASSUME NEW x \in Actors, NEW m \in Under(x)', m.op # "stop"
      PROVE  m.context >= m.about
  BY <1>1, <1>3, <1>4, MessagesStep DEF ContextInv
<1>5. ASSUME NEW m \in Under(Coordinator)', m.op # "stop"
      PROVE  own'[Coordinator] >= m.about
  <2>1. CASE m \in Under(Coordinator)
    <3>1. /\ own[Coordinator] >= m.about /\ m.about \in Nat
          /\ own[Coordinator] \in Nat /\ own'[Coordinator] \in Nat
          /\ own[Coordinator] <= own'[Coordinator]
      BY <1>1, <1>2, <1>5, <2>1, TypedContexts, ContextsGrow DEF ContextInv
    <3> QED  BY <3>1
  <2> QED  BY <1>1, <1>2, <1>3, <1>5, <2>1, MessagesStep
<1>6. handling'[Teller] # None /\ handling'[Teller].op # "stop" =>
          own'[Bank] >= handling'[Teller].about
  <2>1. Reaches(Teller, Bank)
    BY DEF Reaches
  <2>2. handling[Teller] # None /\ handling[Teller].op # "stop" =>
            own[Bank] >= handling[Teller].about
    BY DEF ContextInv
  <2> QED  BY <1>1, <1>2, <2>1, <2>2, HandlingReaches
<1>7. handling'[Bank] # None /\ handling'[Bank].op # "stop" =>
          own'[Coordinator] >= handling'[Bank].about
  <2>1. Reaches(Bank, Coordinator)
    BY DEF Reaches
  <2>2. handling[Bank] # None /\ handling[Bank].op # "stop" =>
            own[Coordinator] >= handling[Bank].about
    BY DEF ContextInv
  <2> QED  BY <1>1, <1>2, <2>1, <2>2, HandlingReaches
<1>8. ASSUME handling'[Bank] # None, handling'[Bank].op \notin {"stop", "openAccount"},
             NEW a \in DOMAIN balance' \cap Actors
      PROVE  own'[a] >= handling'[Bank].about
  <2>1. ~OpenAccount
    <3> SUFFICES ASSUME OpenAccount  PROVE FALSE
      OBVIOUS
    <3>1. Current(Bank).op = "openAccount"
      BY OpensAccount
    <3>2. handling'[Bank] \in {Current(Bank), None}
      BY <1>2 DEF OpenAccount, Calls, Throws, Ends, MailInv
    <3> QED  BY <1>8, <3>1, <3>2
  <2>2. a \in DOMAIN balance
    BY <1>8, <2>1, AccountsGrow
  <2>3. handling'[Bank] = Current(Bank) => Reaches(Bank, a)
    BY <1>8, <2>2 DEF Reaches
  <2>4. handling'[Bank] = handling[Bank] => own[a] >= handling[Bank].about
    BY <1>8, <2>2 DEF ContextInv
  <2> QED  BY <1>1, <1>2, <1>8, <2>3, <2>4, HandlingReaches
<1>9. ContextInv' <=>
        /\ \A a \in Actors : \A m \in Under(a)' : m.op # "stop" => m.context >= m.about
        /\ handling'[Teller] # None /\ handling'[Teller].op # "stop" =>
               own'[Bank] >= handling'[Teller].about
        /\ handling'[Bank] # None /\ handling'[Bank].op # "stop" =>
               own'[Coordinator] >= handling'[Bank].about
        /\ handling'[Bank] # None /\ handling'[Bank].op \notin {"stop", "openAccount"} =>
               \A a \in DOMAIN balance' \cap Actors : own'[a] >= handling'[Bank].about
        /\ \A m \in Under(Coordinator)' : m.op # "stop" => own'[Coordinator] >= m.about
  BY DEF ContextInv, None
<1> QED  BY <1>4, <1>5, <1>6, <1>7, <1>8, <1>9

(* Who collaborates with whom changes only when an account is opened, and   *)
(* then no command waits at the bank.                                       *)
LEMMA SpreadInvKeeps ==
    ASSUME MailInv, MoneyInv, CallInv, RequestInv, OrderInv, SpreadInv, ContextInv,
           TransferInv, [Next]_vars
    PROVE  SpreadInv'
<1>1. SendingStep /\ MailInv' /\ CallInv'
  BY NextIsMailStep, MailIsSending, CallInvKeeps
<1>2. /\ Teller \in Actors /\ Bank \in Actors /\ Coordinator \in Actors
      /\ Teller # Coordinator /\ Bank # Teller /\ Bank # Coordinator
      /\ \A n \in Requests \cup {0} : n \in Nat
      /\ \A i \in Requests : i # 0
  BY ActorNames DEF Callers
<1>3. ASSUME NEW a \in Actors \ {Teller, Bank}, NEW m \in Under(a)'
      PROVE  m.spread = {}
  <2>1. CASE m \in Under(a)
    BY <2>1 DEF SpreadInv
  <2>2. CASE NewTo(a, m)
    BY <1>3, <2>2 DEF NewTo, Spread
  <2> QED  BY <1>1, <2>1, <2>2, MessagesStep
<1>4. ASSUME NEW m \in Under(Teller)'
      PROVE  m.spread = IF m.context = 0 THEN {} ELSE {Bank}
  <2>1. CASE m \in Under(Teller)
    BY <2>1 DEF SpreadInv
  <2>2. CASE NewTo(Teller, m)
    BY <1>2, <2>2 DEF NewTo, Spread
  <2> QED  BY <1>1, <1>2, <2>1, <2>2, MessagesStep
<1>5. ASSUME NEW m \in ToSet(queue'[Bank])
      PROVE  m.spread \subseteq {Coordinator} \cup Nat
  <2>1. CASE m \in ToSet(queue[Bank])
    BY <2>1 DEF SpreadInv
  <2>2. CASE NewTo(Bank, m)
    <3>1. m.spread = Spread(Bank, own'[Bank])
      BY <1>2, <2>2 DEF NewTo
    <3>2. Spread(Bank, own'[Bank]) \subseteq collaborators
      BY <1>2 DEF Spread
    <3> QED  BY <3>1, <3>2, QueueElements DEF MoneyInv
  <2> QED  BY <1>1, <1>2, <2>1, <2>2, MessagesStep
<1>6. ASSUME NEW m \in ToSet(queue'[Bank]), m.op # "stop"
      PROVE  collaborators' \subseteq m.spread
  <2>1. CASE OpenAccount
    <3>1. /\ Turns(Bank) /\ Busy(Bank) /\ handling[Bank] = None /\ queue[Bank] # <<>>
          /\ Current(Bank).op = "openAccount"
      BY <2>1, OpensAccount DEF Busy
    <3>2. PICK c : c = Current(Bank)
      OBVIOUS
    <3>3. c \in Messages /\ c \in Under(Bank) /\ Proper(Bank, c) /\ c.op = "openAccount"
      BY <1>2, <3>1, <3>2, CurrentMessage
    <3>4. Bank \notin Accounts
      BY ActorNames DEF Callers
    <3>5. c.reply = Teller
      BY <1>2, <3>3, <3>4 DEF Proper
    <3>6. PICK M : M = CallsOf(Teller)
      OBVIOUS
    <3>7. M \in SUBSET Messages /\ c \in M
      BY <3>3, <3>5, <3>6 DEF CallsOf
    <3>8. Load(Bank, M) <= 1 /\ Load(Bank, M) \in Nat
      BY <1>2, <3>6, <3>7, LoadIs DEF CallInv, Callers
    <3>9. CountIn(Rest(Bank)[Bank], M) + Truth(c \in M) = Load(Bank, M)
      BY <1>2, <3>1, <3>2, <3>7, CurrentMessage
    <3>10. Rest(Bank)[Bank] \in Seq(Messages)
      BY <1>2, <3>1, CurrentMessage
    <3>11. CountIn(Rest(Bank)[Bank], M) = 0
      <4>1. CountIn(Rest(Bank)[Bank], M) \in Nat
        BY <3>10, CountZero
      <4> QED  BY <3>7, <3>8, <3>9, <4>1 DEF Truth
    <3>12. ToSet(Rest(Bank)[Bank]) \cap M = {}
      BY <3>10, <3>11, CountZero
    <3>13. queue'[Bank] = Rest(Bank)[Bank]
      <4>1. Rest(Bank) \in [Actors -> Seq(Messages)]
        BY <1>2, <3>1, CurrentMessage
      <4> QED  BY <1>2, <2>1, <4>1 DEF OpenAccount, Calls, Throws
    <3>14. m \in Under(Bank) /\ m \in Messages
      <4>1. ToSet(Rest(Bank)[Bank]) \subseteq Under(Bank)
        BY <1>2, <3>1, CurrentMessage
      <4> QED  BY <1>2, <1>6, <3>13, <4>1, UnderIs
    <3>15. m.reply = Teller
      BY <1>2, <1>6, <3>4, <3>14 DEF MailInv, Proper
    <3> QED  BY <1>6, <3>6, <3>12, <3>13, <3>14, <3>15 DEF CallsOf
  <2>2. CASE collaborators' = collaborators
    <3>1. CASE m \in ToSet(queue[Bank])
      BY <1>6, <2>2, <3>1 DEF SpreadInv
    <3>2. CASE NewTo(Bank, m)
      <4>1. PICK a \in Actors : /\ Turns(a) /\ Busy(a) /\ Reaches(a, Bank)
                                /\ Current(a).op # "stop"
        BY <1>2, <1>6, <3>2 DEF NewTo
      <4>2. m.spread = Spread(Bank, own'[Bank])
        BY <1>2, <3>2 DEF NewTo
      <4>3. own'[Bank] >= About(a) /\ About(a) \in Requests
        BY <1>2, <4>1, ReachedContexts
      <4>4. own'[Bank] # 0
        <5>1. \A n \in Requests : n \in Nat \ {0}
          BY <1>2
        <5> QED  BY <4>3, <5>1
      <4> QED  BY <1>2, <2>2, <4>2, <4>4 DEF Spread
    <3> QED  BY <1>1, <1>2, <1>6, <3>1, <3>2, MessagesStep
  <2> QED  BY <2>1, <2>2, AccountsGrow
<1>7. SpreadInv' <=>
        /\ \A a \in Actors \ {Teller, Bank} : \A m \in Under(a)' : m.spread = {}
        /\ \A m \in Under(Teller)' : m.spread = IF m.context = 0 THEN {} ELSE {Bank}
        /\ \A m \in ToSet(queue'[Bank]) :
               /\ m.spread \subseteq {Coordinator} \cup Nat
               /\ m.op # "stop" => collaborators' \subseteq m.spread
  BY DEF SpreadInv
<1> QED  BY <1>3, <1>4, <1>5, <1>6, <1>7

-----------------------------------------------------------------------------
(* Who moves a transfer on *)

LEMMA TimersStay == [Next]_vars =>
    \/ UNCHANGED schedulerVars
    \/ HandleDepositFailure
    \/ \E i \in Requests : RetryFires(i)
    \/ \E t \in Others : OthersSchedule(t)
<1> DEFINE Goal == \/ UNCHANGED schedulerVars
                   \/ HandleDepositFailure
                   \/ \E i \in Requests : RetryFires(i)
                   \/ \E t \in Others : OthersSchedule(t)
<1> SUFFICES ASSUME [Next]_vars  PROVE Goal
  OBVIOUS
<1>1. ASSUME OnlyMessages \/ UNCHANGED schedulerVars
      PROVE  Goal
  BY <1>1 DEF OnlyMessages
<1>2. ASSUME NEW op, TellerAsks(op) \/ TellerAnswers(op)
      PROVE  Goal
  BY <1>1, <1>2 DEF TellerAsks, TellerAnswers
<1>3. ASSUME BankSteps
      PROVE  Goal
  BY <1>1, <1>3 DEF BankSteps, OpenAccount, AllAccounts, AccountOpened, FindAccount,
     AccountFound, AccountSummary, TransactionHistory, Transfer, TransferInitiated,
     PendingTransfers, BankAnswers
<1>4. ASSUME CoordinatorSteps
      PROVE  Goal
  BY <1>1, <1>4 DEF CoordinatorSteps, RegisterAccount, InitiateTransfer, Withdrawn,
     RecordPendingTransfer, AttemptDeposit, Deposited,
     ProcessRefund, Refunded, CompleteTransfer, GetPendingTransfers
<1>5. ASSUME NEW a \in Accounts, AccountSteps(a) \/ HistorySettles(a)
      PROVE  Goal
  BY <1>1, <1>5 DEF AccountSteps, HistorySettles, Deposit, Withdraw, Refund, GetInfo,
     GetHistory, HistoryAnswers, HistoryRejects
<1>6. ASSUME NEW a, BankSupervisor(a) \/ TransferSupervisor(a) \/ AccountSupervisor(a)
      PROVE  Goal
  BY <1>1, <1>6 DEF BankSupervisor, TransferSupervisor, AccountSupervisor, DecidesToResume
<1>7. ASSUME NEW i, ClientCalls(i)
      PROVE  Goal
  BY <1>1, <1>7 DEF ClientCalls
<1>8. ASSUME \/ CloseStage \/ BankBeginsToStop \/ BankStops
             \/ \E a \in Actors : StageStops(a) \/ ParentStops(a) \/ Stops(a)
      PROVE  Goal
  BY <1>1, <1>8 DEF CloseStage, BankBeginsToStop, BankStops, StageStops,
     ParentStops, Stops, SendsStop
<1>9. ASSUME UNCHANGED vars
      PROVE  Goal
  BY <1>1, <1>9 DEF vars
<1>10. (\E i \in Requests : RetryFires(i)) \/ (\E t \in Others : OthersSchedule(t))
       => Goal
  OBVIOUS
<1> HIDE DEF Goal
<1> QED
  BY <1>2, <1>3, <1>4, <1>5, <1>6, <1>7, <1>8, <1>9, <1>10 DEF Next, Progress

(* Others can only close the scheduler under a retry. *)
LEMMA OthersTimers ==
    ASSUME NEW t \in Others, OthersSchedule(t)
    PROVE  /\ \A i \in Requests : i \in timeouts' => i \in timeouts
           /\ ~schedulerClosed' =>
                  \A i \in Requests : i \in timeouts => i \in timeouts'
           /\ schedulerClosed => schedulerClosed'
<1>1. \A i \in Requests : i # t
  BY DEF Others
<1>2. ASSUME NEW delayed \in BOOLEAN, Schedule(t, delayed)
      PROVE  /\ \A i \in Requests : i \in timeouts' <=> i \in timeouts
             /\ schedulerClosed => schedulerClosed'
  BY <1>1, <1>2 DEF Schedule
<1>3. ASSUME ScheduleOnce(t)
      PROVE  /\ \A i \in Requests : i \in timeouts' <=> i \in timeouts
             /\ schedulerClosed => schedulerClosed'
  BY <1>1, <1>3 DEF ScheduleOnce
<1>4. ASSUME Cancel(t)
      PROVE  /\ \A i \in Requests : i \in timeouts' <=> i \in timeouts
             /\ schedulerClosed => schedulerClosed'
  BY <1>1, <1>4 DEF Cancel
<1>5. ASSUME NEW e \in Effects,
             OnceFires(t, e) \/ FirstFires(t, e) \/ IntervalFires(t, e)
      PROVE  /\ \A i \in Requests : i \in timeouts' => i \in timeouts
             /\ schedulerClosed \/ e = "close" => schedulerClosed'
             /\ e # "close" =>
                    \A i \in Requests : i \in timeouts => i \in timeouts'
  <2>1. /\ schedulerClosed \/ e = "close" => schedulerClosed'
        /\ \/ timeouts' = timeouts \ ({t} \cup CancelledBy(t, e))
           \/ timeouts' = timeouts \ CancelledBy(t, e)
    BY <1>5 DEF OnceFires, FirstFires, IntervalFires, CallbackRuns
  <2>2. e # "close" => CancelledBy(t, e) \subseteq {t}
    BY DEF CancelledBy, Effects
  <2> QED  BY <1>1, <2>1, <2>2
<1>6. ASSUME CloseScheduler
      PROVE  /\ \A i \in Requests : i \in timeouts' => i \in timeouts
             /\ ~schedulerClosed /\ schedulerClosed'
  BY <1>6 DEF CloseScheduler
<1> QED  BY <1>2, <1>3, <1>4, <1>5, <1>6 DEF OthersSchedule

LEMMA TimersStep ==
    ASSUME [Next]_vars, NEW i \in Requests, i \in timeouts'
    PROVE  i \in timeouts \/ (HandleDepositFailure /\ About(Coordinator) = i)
<1>1. CASE UNCHANGED schedulerVars
  BY <1>1 DEF schedulerVars
<1>2. CASE HandleDepositFailure
  BY <1>2 DEF HandleDepositFailure, ScheduleOnce, schedulerVars
<1>3. ASSUME NEW j \in Requests, RetryFires(j)
      PROVE  i \in timeouts
  BY <1>3 DEF RetryFires, OnceFires
<1> QED  BY <1>1, <1>2, <1>3, TimersStay, OthersTimers

(* The messages that a step brings to x. *)
Fresh(x, m) ==
    \/ m.op = "stop" /\ m.about = 0
    \/ \E a \in Callers : /\ Turns(a) /\ Busy(a) /\ Asked(a, x, m.op)
                          /\ m.about = About(a)
    \/ x = Coordinator /\ m.op \in SelfSent /\ Moving(m.about)
    \/ x = Teller /\ \E i \in Requests : ClientStep(i) /\ m.about = i

LEMMA FreshMessages ==
    ASSUME MailInv, MoneyInv, MailStep
    PROVE  \A x \in Actors :
              /\ \A m \in Under(x)' : m \in Under(x) \/ Fresh(x, m)
              /\ \A m \in ToSet(queue'[x]) : m \in ToSet(queue[x]) \/ Fresh(x, m)
<1> TAKE x \in Actors
<1> DEFINE Both(N) == /\ Under(x)' \subseteq Under(x) \cup N
                      /\ ToSet(queue'[x]) \subseteq ToSet(queue[x]) \cup N
                      /\ \A m \in N : Fresh(x, m)
<1>1. /\ Coordinator \in Actors /\ "stop" \in AllOps
      /\ "attemptDeposit" \in AllOps /\ "attemptDeposit" \in SelfSent
      /\ \A a \in Actors : own[a] \in Requests \cup {0}
  BY ActorNames, BankCallOps, SelfSentOps DEF Callers, MailInv
<1>2. ASSUME NEW a \in Actors, NEW kept \in BOOLEAN, NEW b, NEW news \in Seq(Messages),
             Busy(a), Shifts(a, kept, b, news),
             \A m \in ToSet(news) : x = b => Fresh(x, m)
      PROVE  \E N : Both(N)
  <2> DEFINE N == IF x = b THEN ToSet(news) ELSE {}
  <2>1. /\ Under(x)' \subseteq Under(x) \cup N
        /\ ToSet(queue'[x]) = ToSet(Rest(a)[x]) \cup N
    BY <1>2, ShiftedMail
  <2>2. ToSet(Rest(a)[x]) \subseteq ToSet(queue[x])
    <3>1. queue[x] \in Seq(Messages) /\ (handling[a] = None => queue[a] # <<>>)
      BY <1>2 DEF MailInv, Busy
    <3>2. queue[x] # <<>> => ToSet(Tail(queue[x])) \subseteq ToSet(queue[x])
      BY <3>1, QueueBegins
    <3> QED  BY <3>1, <3>2 DEF Rest, MailInv
  <2>3. \A m \in N : Fresh(x, m)
    BY <1>2
  <2> HIDE DEF N
  <2> QED  BY <2>1, <2>2, <2>3
<1>3. ASSUME NEW b \in Actors, NEW n \in Messages, AppendStep(b, n),
             x = b => Fresh(x, n)
      PROVE  \E N : Both(N)
  <2> DEFINE N == IF x = b THEN {n} ELSE {}
  <2>1. /\ Under(x)' = Under(x) \cup N /\ ToSet(queue'[x]) = ToSet(queue[x]) \cup N
    BY <1>3, AppendedMail DEF AppendStep
  <2>2. \A m \in N : Fresh(x, m)
    BY <1>3
  <2> HIDE DEF N
  <2> QED  BY <2>1, <2>2
<1>4. ASSUME NEW a \in Actors, NEW b \in Names, NEW op \in AllOps, CallStep(a, b, op)
      PROVE  \E N : Both(N)
  <2>1. PICK news \in Seq(Messages) :
            /\ Busy(a) /\ Shifts(a, TRUE, b, news) /\ a \in Callers
            /\ \/ news = <<>>
               \/ /\ news = <<Message(b, op, About(a), a, own'[b])>>
                  /\ own'[b] \in Requests \cup {0}
                  /\ About(a) \in Requests \cup {0}
    BY <1>4, CallShifts
  <2>2. PICK n : n = Message(b, op, About(a), a, own'[b])
    OBVIOUS
  <2>3. news # <<>> => ToSet(news) = {n} /\ n.op = op /\ n.about = About(a)
    BY <2>1, <2>2, NewMessage, SingleQueue
  <2>4. news = <<>> => \A m \in ToSet(news) : FALSE
    BY NothingNew
  <2>5. PICK kept \in BOOLEAN : kept = TRUE
    OBVIOUS
  <2>6. x = b => \A m \in ToSet(news) : Fresh(x, m)
    BY <1>4, <2>1, <2>3, <2>4 DEF Fresh, CallStep
  <2> HIDE DEF Both
  <2> QED  BY <1>2, <2>1, <2>5, <2>6
<1>5. ASSUME NEW a \in Actors, NEW kept \in BOOLEAN, Busy(a), Shifts(a, kept, a, <<>>)
      PROVE  \E N : Both(N)
  BY <1>2, <1>5, NothingNew
<1>6. ASSUME NEW a \in Actors, NEW result, ReturnStep(a, result)
      PROVE  \E N : Both(N)
  <2>1. PICK kept \in BOOLEAN : kept = FALSE
    OBVIOUS
  <2> HIDE DEF Both
  <2> QED  BY <1>5, <1>6, <2>1, ReturnShifts
<1>7. ASSUME NEW a \in Actors, HoldStep(a)
      PROVE  \E N : Both(N)
  <2>1. PICK kept \in BOOLEAN : kept = TRUE
    OBVIOUS
  <2> HIDE DEF Both
  <2> QED  BY <1>5, <1>7, <2>1, HoldShifts
<1>8. ASSUME NEW a \in Actors, StopStep(a)
      PROVE  \E N : Both(N)
  <2>1. PICK n : n = Message(a, "stop", 0, Nobody, own[a])
    OBVIOUS
  <2>2. n \in Messages /\ n.op = "stop" /\ n.about = 0
    BY <1>1, <2>1, NewMessage
  <2>3. AppendStep(a, n) /\ Fresh(x, n)
    BY <1>8, <2>1, <2>2 DEF StopStep, Fresh
  <2> HIDE DEF Both
  <2> QED  BY <1>3, <2>2, <2>3
<1>9. ASSUME NEW i \in Requests, i \in timeouts, RetryStep(i)
      PROVE  \E N : Both(N)
  <2>1. PICK n : n = Message(Coordinator, "attemptDeposit", i, Nobody, own[Coordinator])
    OBVIOUS
  <2>2. n \in Messages /\ n.about = i /\ n.op = "attemptDeposit"
    BY <1>1, <2>1, NewMessage
  <2>3. AppendStep(Coordinator, n) /\ Fresh(Coordinator, n)
    BY <1>1, <1>9, <2>1, <2>2 DEF RetryStep, Fresh, Moving
  <2> HIDE DEF Both
  <2> QED  BY <1>1, <1>3, <2>2, <2>3
<1>10. ASSUME NEW ops \in Seq(SelfSent), NEW result \in Settled, SelfStep(ops, result)
       PROVE  \E N : Both(N)
  <2>1. PICK news \in Seq(Messages) :
            /\ Busy(Coordinator) /\ Shifts(Coordinator, FALSE, Coordinator, news)
            /\ \A n \in ToSet(news) : n.about = About(Coordinator) /\ n.op \in SelfSent
    BY <1>10, SelfShifts
  <2>2. PICK kept \in BOOLEAN : kept = FALSE
    OBVIOUS
  <2>3. Current(Coordinator) \in Under(Coordinator)
    BY <1>1, <2>1, CurrentMessage
  <2>4. Moving(About(Coordinator))
    <3>1. CASE Current(Coordinator).op \in SelfSent
      BY <2>3, <3>1 DEF Moving, About
    <3>2. CASE /\ handling[Coordinator] # None
               /\ Current(Coordinator).op = "initiateTransfer"
      BY <3>2 DEF Moving, About, Current
    <3> QED  BY <1>10, <3>1, <3>2 DEF SelfStep
  <2>5. \A n \in ToSet(news) : Fresh(Coordinator, n)
    BY <2>1, <2>4 DEF Fresh
  <2> HIDE DEF Both
  <2> QED  BY <1>1, <1>2, <2>1, <2>2, <2>5
<1>11. ASSUME NEW i \in Requests, ClientStep(i)
       PROVE  \E N : Both(N)
  <2>1. PICK n : n = Message(Teller, Command(i).command, i, Client, i)
    OBVIOUS
  <2>2. n \in Messages /\ n.about = i
    BY <1>11, <2>1, CommandMessage DEF ClientStep
  <2>3. /\ queue' = [queue EXCEPT ![Teller] = Append(@, n)] /\ handling' = handling
        /\ Teller \in Actors
    BY <1>11, <2>1, ActorNames DEF ClientStep, Callers
  <2> DEFINE N == IF x = Teller THEN {n} ELSE {}
  <2>4. Under(x)' = Under(x) \cup N /\ ToSet(queue'[x]) = ToSet(queue[x]) \cup N
    BY <2>2, <2>3, AppendedMail
  <2>5. \A m \in N : Fresh(x, m)
    BY <1>11, <2>2 DEF Fresh
  <2> HIDE DEF N
  <2> QED  BY <2>4, <2>5
<1>12. ASSUME QuietStep
       PROVE  \E N : Both(N)
  <2>1. Both({})
    BY <1>12 DEF QuietStep, Under
  <2> HIDE DEF Both
  <2> QED  BY <2>1
<1> HIDE DEF Both
<1>13. \E N : Both(N)
  BY <1>4, <1>6, <1>7, <1>8, <1>9, <1>10, <1>11, <1>12 DEF MailStep
<1> QED  BY <1>13 DEF Both

(* The messages that the coordinator sends itself are about a transfer that  *)
(* is moving.                                                                *)
LEMMA SelfSentStep ==
    ASSUME MailInv, MoneyInv, MailStep,
           NEW m \in Under(Coordinator)', m.op \in SelfSent
    PROVE  m \in Under(Coordinator) \/ Moving(m.about)
<1>1. /\ Coordinator \in Actors /\ Teller # Coordinator
      /\ "stop" \notin SelfSent /\ SelfSent \cap AccountProtocol = {}
  BY ActorNames DEF Callers, SelfSent, TransferOps, AccountProtocol, Moves
<1>2. ASSUME NEW a, NEW op, Asked(a, Coordinator, op)
      PROVE  op \notin SelfSent
  BY <1>1, <1>2, ActorNames DEF Asked, Awaits, SelfSent, TransferOps
<1>3. m \in Under(Coordinator) \/ Fresh(Coordinator, m)
  BY <1>1, FreshMessages
<1> QED  BY <1>1, <1>2, <1>3 DEF Fresh

(* A transfer begins to move when the coordinator has looked at it. *)
Initiates(i) ==
    /\ Turns(Coordinator) /\ Busy(Coordinator) /\ handling[Coordinator] = None
    /\ Current(Coordinator).op = "initiateTransfer" /\ About(Coordinator) = i
    /\ Feasible(i)

LEMMA MovingStep ==
    ASSUME MailInv, MoneyInv, [Next]_vars, NEW i \in Requests, Moving(i)'
    PROVE  Moving(i) \/ Initiates(i)
<1>1. /\ Coordinator \in Actors /\ Coordinator \notin Accounts \cup {Bank}
      /\ None.op # "initiateTransfer"
  BY ActorNames, NoneIsNoMessage DEF Callers
<1>2. MailStep
  BY NextIsMailStep
<1>3. CASE i \in timeouts'
  <2>1. CASE HandleDepositFailure /\ About(Coordinator) = i
    <3>1. Begins(Coordinator, "handleDepositFailure")
      BY <2>1 DEF HandleDepositFailure
    <3>2. /\ Current(Coordinator).op \in SelfSent
          /\ Current(Coordinator) \in Under(Coordinator)
      BY <1>1, <3>1, BeginsTurns, CurrentMessage, SelfSentOps
    <3> QED  BY <2>1, <3>2 DEF Moving, About
  <2> QED  BY <1>3, <2>1, TimersStep DEF Moving
<1>4. ASSUME NEW m \in Under(Coordinator)', m.about = i, m.op \in SelfSent
      PROVE  Moving(i)
  <2>1. CASE m \in Under(Coordinator)
    BY <1>4, <2>1 DEF Moving
  <2> QED  BY <1>2, <1>4, <2>1, SelfSentStep
<1>5. CASE handling'[Coordinator].op = "initiateTransfer"
           /\ handling'[Coordinator].about = i
  <2>1. CASE handling'[Coordinator] = handling[Coordinator]
    BY <1>5, <2>1 DEF Moving
  <2>2. ASSUME NEW a \in Actors, NEW b, NEW op, CallStep(a, b, op)
        PROVE  Moving(i) \/ Initiates(i)
    <3>1. handling' = [handling EXCEPT ![a] = Current(a)]
      BY <2>2 DEF CallStep, Calls
    <3>2. CASE a # Coordinator
      BY <1>1, <2>1, <3>1, <3>2 DEF MailInv
    <3>3. CASE a = Coordinator
      <4>1. handling'[Coordinator] = Current(Coordinator)
        BY <1>1, <3>1, <3>3 DEF MailInv
      <4>2. CASE handling[Coordinator] # None
        BY <1>5, <4>1, <4>2 DEF Current, Moving
      <4>3. CASE handling[Coordinator] = None
        <5>1. Feasible(About(Coordinator))
          BY <1>1, <1>5, <2>2, <3>3, <4>1, <4>3, ActorNames DEF CallStep, Asked
        <5> QED
          BY <1>1, <1>5, <2>2, <3>3, <4>1, <4>3, <5>1, TurnsBusy
          DEF CallStep, Initiates, About
      <4> QED  BY <4>2, <4>3
    <3> QED  BY <3>2, <3>3
  <2>3. ASSUME NEW a \in Actors, NEW result, Ends(a, result)
        PROVE  Moving(i) \/ Initiates(i)
    <3>1. handling'[Coordinator] \in {handling[Coordinator], None}
      BY <1>1, <2>3 DEF Ends, MailInv
    <3> QED  BY <1>1, <1>5, <2>1, <3>1
  <2>4. ASSUME NEW a \in Actors, HoldStep(a)
        PROVE  handling'[Coordinator] = handling[Coordinator]
    BY <1>1, <2>4 DEF HoldStep, MailInv
  <2> QED
    BY <1>1, <1>2, <2>1, <2>2, <2>3, <2>4
    DEF MailStep, ReturnStep, StopStep, AppendStep, SelfStep, SendsItself,
        ClientStep, RetryStep, QuietStep
<1> QED  BY <1>3, <1>4, <1>5 DEF Moving

LEMMA TransferInvKeeps ==
    ASSUME MailInv, MoneyInv, CallInv, RequestInv, OrderInv, SpreadInv, ContextInv,
           TransferInv, [Next]_vars
    PROVE  TransferInv'
<1>1. /\ SendingStep /\ workload' = workload
      /\ registered \subseteq registered'
  BY NextIsMailStep, MailIsSending, SmallTypes, AccountsGrow
<1>2. /\ Coordinator \in Actors /\ \A n \in Requests \cup {0} : n \in Nat
  BY ActorNames DEF Callers
<1>3. \A n : TransferOf(n)' = TransferOf(n) /\ IsValid(n)' = IsValid(n)
  BY <1>1 DEF TransferOf, Command, IsValid
<1>4. ASSUME NEW i \in Requests, Moving(i)'
      PROVE  /\ i \in DOMAIN workload.commands
             /\ IsValid(TransferOf(i).amount)
             /\ {TransferOf(i).from, TransferOf(i).to} \subseteq registered
             /\ \A a \in {TransferOf(i).from, TransferOf(i).to, Coordinator} \cap Actors :
                    own'[a] >= i
  <2>1. CASE Moving(i)
    <3>1. ASSUME NEW a \in {TransferOf(i).from, TransferOf(i).to, Coordinator} \cap Actors
          PROVE  own'[a] >= i
      <4>1. own[a] >= i
        BY <2>1 DEF TransferInv
      <4>2. /\ own[a] <= own'[a] /\ own[a] \in Nat /\ own'[a] \in Nat /\ i \in Nat
        BY <1>1, <1>2, ContextsGrow, TypedContexts
      <4> QED  BY <4>1, <4>2
    <3> QED  BY <2>1, <3>1 DEF TransferInv
  <2>2. CASE Initiates(i)
    <3>1. ASSUME NEW a \in {TransferOf(i).from, TransferOf(i).to, Coordinator} \cap Actors
          PROVE  own'[a] >= i
      <4>1. Reaches(Coordinator, a) /\ Current(Coordinator).op # "stop"
        BY <2>2 DEF Initiates, Reaches
      <4> QED  BY <1>2, <2>2, <4>1, ReachedContexts DEF Initiates
    <3>2. i \in DOMAIN workload.commands
      BY <1>2, <2>2, CurrentMessage DEF Initiates, Proper, About
    <3> QED  BY <2>2, <3>1, <3>2 DEF Initiates, Feasible
  <2> QED  BY <1>4, <2>1, <2>2, MovingStep
<1>5. ASSUME NEW i \in Requests, Moving(i)'
      PROVE  /\ i \in DOMAIN workload'.commands
             /\ IsValid(TransferOf(i).amount)'
             /\ {TransferOf(i).from, TransferOf(i).to}' \subseteq registered'
             /\ \A a \in ({TransferOf(i).from, TransferOf(i).to, Coordinator} \cap Actors)' :
                    own'[a] >= i
  <2>1. TransferOf(i)' = TransferOf(i) /\ Actors' = Actors
    BY <1>3 DEF Actors
  <2> QED  BY <1>1, <1>3, <1>4, <1>5, <2>1
<1> QED  BY <1>5 DEF TransferInv

-----------------------------------------------------------------------------
(* The inductive invariant of the calls and their contexts *)

Inv == /\ MailInv /\ MoneyInv /\ CallInv /\ RequestInv /\ OrderInv /\ SpreadInv
       /\ ContextInv /\ TransferInv

LEMMA InitInv == Init => Inv
<1> SUFFICES ASSUME Init  PROVE Inv
  OBVIOUS
<1>1. /\ workload \in Workloads
      /\ queue = [a \in Actors |-> <<>>] /\ handling = [a \in Actors |-> None]
      /\ answer = [a \in Actors |-> "none"] /\ own = [a \in Actors |-> 0]
      /\ outcome = [i \in Requests |-> "unsent"]
      /\ collaborators = {Coordinator} /\ infos = <<>>
      /\ initial = <<>> /\ balance = <<>> /\ registered = {} /\ timeouts = {}
  BY DEF Init, StageInit, BankInit, CoordinatorInit, SchedulerInit
<1>2. /\ Teller \in Actors /\ Bank \in Actors /\ Coordinator \in Actors
      /\ ToSet(<<>>) = {} /\ None.op = "none" /\ \A S : <<>> \in Seq(S)
      /\ DOMAIN <<>> = {} /\ Len(<<>>) = 0
  BY ActorNames, EmptyQueue, NoneIsNoMessage DEF Callers
<1>3. \A a \in Actors : Under(a) = {}
  BY <1>1, <1>2 DEF Under
<1>4. \A a \in Actors : \A M \in SUBSET Messages : Load(a, M) = 0
  BY <1>1, CountEmpty, NoneIsNoMessage DEF Load, Truth
<1>5. \A c \in Callers \cup {Client} : CallsOf(c) \in SUBSET Messages
  BY DEF CallsOf
<1>6. MailInv
  BY <1>1, <1>2, <1>3 DEF MailInv, Answers
<1>7. MoneyInv
  BY <1>1, <1>2 DEF MoneyInv
<1>8. CallInv
  BY <1>3, <1>4, <1>5 DEF CallInv
<1>9. RequestInv
  BY <1>1, <1>3 DEF RequestInv, Sent
<1>10. OrderInv
  BY <1>1, <1>2 DEF OrderInv, Ascending
<1>11. SpreadInv
  BY <1>1, <1>2, <1>3 DEF SpreadInv
<1>12. ContextInv
  BY <1>1, <1>2, <1>3 DEF ContextInv
<1>13. TransferInv
  BY <1>1, <1>2, <1>3 DEF TransferInv, Moving
<1> QED
  BY <1>6, <1>7, <1>8, <1>9, <1>10, <1>11, <1>12, <1>13 DEF Inv

LEMMA NextInv == Inv /\ [Next]_vars => Inv'
<1> SUFFICES ASSUME Inv, [Next]_vars  PROVE Inv'
  OBVIOUS
<1>1. /\ MailInv /\ MoneyInv /\ CallInv /\ RequestInv /\ OrderInv /\ SpreadInv
      /\ ContextInv /\ TransferInv
  BY DEF Inv
<1>2. SendingStep
  BY <1>1, NextIsMailStep, MailIsSending
<1>3. MailInv' /\ CallInv'
  BY <1>1, CallInvKeeps
<1>4. MoneyInv' /\ RequestInv' /\ OrderInv'
  BY <1>1, <1>2, MoneyInvKeeps, RequestInvKeeps, OrderInvKeeps
<1>5. SpreadInv' /\ ContextInv' /\ TransferInv'
  BY <1>1, SpreadInvKeeps, ContextInvKeeps, TransferInvKeeps
<1> QED  BY <1>3, <1>4, <1>5 DEF Inv

(* The invariant of the calls and contexts holds in every run: of each       *)
(* caller at most one call is under way, it is the one that the caller's     *)
(* await waits for, contexts never get older on their way from teller to     *)
(* bank to its children, and no transfer moves that was not looked at.       *)
THEOREM Invariant == Spec => []Inv
<1> QED  BY InitInv, NextInv, PTL DEF Spec

(* A context that is as late as a pending request is that request's.         *)
LEMMA ContextsFit == Inv => ContextOfRequest
<1> SUFFICES ASSUME Inv, NEW a \in Actors, NEW m \in Under(a), m.op # "stop"
             PROVE  IF outcome[m.about] = "pending" THEN m.context = m.about
                    ELSE m.context >= m.about
  BY DEF ContextOfRequest
<1>1. MailInv /\ RequestInv /\ ContextInv
  BY DEF Inv
<1>2. /\ m.about \in Requests /\ m.context \in Requests \cup {0}
      /\ m.context >= m.about /\ Sent(m.context)
  <2>1. Proper(a, m) /\ m \in Messages
    BY <1>1, UnderIs DEF MailInv
  <2>2. m.context \in Requests \cup {0}
    BY <2>1 DEF Messages
  <2> QED  BY <1>1, <2>1, <2>2 DEF Proper, RequestInv, ContextInv
<1>3. \A n \in Requests \cup {0} : n \in Nat /\ (n \in Requests => n # 0)
  BY ActorNames
<1>4. ASSUME outcome[m.about] = "pending", m.context # m.about  PROVE FALSE
  <2>1. m.about < m.context /\ m.context \in Requests
    BY <1>2, <1>3, <1>4
  <2>2. outcome[m.context] # "unsent"
    BY <1>2, <1>3, <2>1 DEF Sent
  <2> QED  BY <1>1, <1>2, <1>4, <2>1, <2>2 DEF RequestInv
<1> QED  BY <1>2, <1>4

(* Every message is delivered in the context of the request it serves, at    *)
(* least while the user awaits that request, and never in that of an earlier *)
(* request or of none, however many requests, accounts and retries there are.*)
THEOREM ContextOfRequestHolds == Spec => []ContextOfRequest
<1> QED  BY Invariant, ContextsFit, PTL

-----------------------------------------------------------------------------
(* A command is begun once *)

(* Who may ask whom, in short. *)
LEMMA WhoAsks ==
    ASSUME MoneyInv, NEW a, NEW b, NEW op, Asked(a, b, op)
    PROVE  \/ a = Teller /\ b = Bank /\ handling[a] = None
           \/ a = Bank /\ b = Coordinator /\ handling[a] = None
           \/ a \in {Bank, Coordinator} /\ b \in Nat
<1>1. \A n \in DOMAIN balance : n \in Nat
  BY QueueElements DEF MoneyInv
<1> QED  BY <1>1 DEF Asked

LEMMA BegunStays ==
    ASSUME Inv, [Next]_vars, NEW i \in Requests, Begun(i)
    PROVE  /\ Begun(i)'
           /\ \A m \in Under(Coordinator)' :
                  m.op = "initiateTransfer" /\ m.about = i => m \in Under(Coordinator)
           /\ \A m \in ToSet(queue'[Coordinator]) :
                  m.op = "initiateTransfer" /\ m.about = i => m \in ToSet(queue[Coordinator])
<1>1. /\ MailInv /\ MoneyInv /\ CallInv /\ MailStep /\ SendingStep
  BY NextIsMailStep, MailIsSending DEF Inv
<1>2. /\ Teller \in Actors /\ Bank \in Actors /\ Coordinator \in Actors
      /\ Teller # Bank /\ Teller # Coordinator /\ Bank # Coordinator
      /\ i # 0 /\ i \in Requests \cup {0}
      /\ \A n \in Nat : n # Teller /\ n # Bank /\ n # Coordinator
  BY ActorNames DEF Callers
<1>3. outcome'[i] # "unsent"
  BY <1>1, <1>2, SentStays DEF Sent, Begun
<1>4. ASSUME NEW m, Fresh(Teller, m)
      PROVE  m.about # i
  BY <1>1, <1>2, <1>4, WhoAsks DEF Fresh, ClientStep, Chooses, Begun
<1>5. ASSUME NEW a \in {Teller, Bank}, Turns(a), handling[a] = None
      PROVE  About(a) # i
  <2>1. queue[a] \in Seq(Messages) /\ queue[a] # <<>>
    BY <1>1, <1>2, <1>5 DEF MailInv, Turns
  <2>2. Head(queue[a]) \in ToSet(queue[a])
    BY <2>1, QueueBegins
  <2> QED  BY <1>5, <2>2 DEF About, Current, Begun
<1>6. ASSUME NEW m, Fresh(Bank, m)
      PROVE  m.about # i
  <2>1. ASSUME NEW a, NEW op, Asked(a, Bank, op)
        PROVE  a = Teller /\ handling[a] = None
    BY <1>1, <1>2, <2>1, WhoAsks
  <2> QED  BY <1>2, <1>5, <1>6, <2>1 DEF Fresh
<1>7. ASSUME NEW m, Fresh(Coordinator, m), m.op = "initiateTransfer"
      PROVE  m.about # i
  <2>1. "initiateTransfer" \notin SelfSent
    BY DEF SelfSent, TransferOps
  <2>2. ASSUME NEW a, NEW op, Asked(a, Coordinator, op)
        PROVE  a = Bank /\ handling[a] = None
    BY <1>1, <1>2, <2>2, WhoAsks
  <2> QED  BY <1>2, <1>5, <1>7, <2>1, <2>2 DEF Fresh
<1>8. ASSUME NEW m \in ToSet(queue'[Teller]) \cup ToSet(queue'[Bank])
      PROVE  m.about # i
  BY <1>1, <1>2, <1>4, <1>6, FreshMessages DEF Begun
<1>9. Begun(i)'
  BY <1>3, <1>8 DEF Begun
<1>10. ASSUME NEW m \in Under(Coordinator)', m.op = "initiateTransfer", m.about = i
       PROVE  m \in Under(Coordinator)
  BY <1>1, <1>2, <1>7, <1>10, FreshMessages
<1>11. ASSUME NEW m \in ToSet(queue'[Coordinator]), m.op = "initiateTransfer", m.about = i
       PROVE  m \in ToSet(queue[Coordinator])
  BY <1>1, <1>2, <1>7, <1>11, FreshMessages
<1> QED  BY <1>9, <1>10, <1>11

-----------------------------------------------------------------------------
(* The flow of a transfer: what a step of the coordinator does to the queue, *)
(* the message it is at, the map and the timers                              *)

LEMMA StepsTyped ==
    ASSUME NEW i, NEW q \in Seq(Messages), NEW h, NEW T
    PROVE  /\ CountIn(q, Steps(i)) \in Nat /\ CountIn(q, Records(i)) \in Nat
           /\ Truth(h \in Steps(i)) \in {0, 1} /\ Truth(i \in T) \in {0, 1}
           /\ StepsIn(i, q, h, T) \in Nat
           /\ Records(i) \cap Steps(i) = {}
           /\ None \notin Steps(i) /\ None \notin Records(i)
<1>1. CountIn(q, Steps(i)) \in Nat /\ CountIn(q, Records(i)) \in Nat
  BY CountZero
<1>2. Truth(h \in Steps(i)) \in {0, 1} /\ Truth(i \in T) \in {0, 1}
  BY DEF Truth
<1>3. /\ Records(i) \cap Steps(i) = {}
      /\ None \notin Steps(i) /\ None \notin Records(i)
  BY NoneIsNoMessage DEF Records, Steps, IsStep, TransferOps
<1> QED  BY <1>1, <1>2, <1>3 DEF StepsIn

(* A message about something else changes nothing. *)
LEMMA FlowForeign ==
    ASSUME NEW i, NEW q \in Seq(Messages), NEW h, NEW v, NEW P, NEW T,
           Flow(i, q, h, v, P, T), NEW x \in Messages \ (Steps(i) \cup Records(i))
    PROVE  /\ Flow(i, Append(q, x), h, v, P, T)
           /\ StepsIn(i, Append(q, x), h, T) = StepsIn(i, q, h, T)
           /\ CountIn(Append(q, x), Records(i)) = CountIn(q, Records(i))
<1>1. \A M : x \notin M => CountIn(Append(q, x), M) = CountIn(q, M)
  <2> TAKE M
  <2> HAVE x \notin M
  <2>1. CountIn(Append(q, x), M) = CountIn(q, M) + IF x \in M THEN 1 ELSE 0
    BY CountEnds
  <2>2. CountIn(q, M) \in Nat
    BY CountZero
  <2> QED  BY <2>1, <2>2
<1>2. /\ CountIn(Append(q, x), Steps(i)) = CountIn(q, Steps(i))
      /\ CountIn(Append(q, x), Records(i)) = CountIn(q, Records(i))
  BY <1>1
<1>3. StepsIn(i, Append(q, x), h, T) = StepsIn(i, q, h, T)
  BY <1>2 DEF StepsIn
<1>4. Before(Append(q, x), Records(i), Steps(i))
  BY BeforeEnds DEF Flow
<1> QED  BY <1>2, <1>3, <1>4 DEF Flow

(* A timer is cleared. *)
LEMMA FlowCleared ==
    ASSUME NEW i, NEW q \in Seq(Messages), NEW h, NEW v, NEW P, NEW T, NEW U,
           Flow(i, q, h, v, P, T), i \in U => i \in T
    PROVE  Flow(i, q, h, v, P, U)
<1>1. StepsIn(i, q, h, U) \in Nat /\ StepsIn(i, q, h, T) \in Nat
  BY StepsTyped
<1>2. StepsIn(i, q, h, U) <= StepsIn(i, q, h, T)
  BY StepsTyped DEF StepsIn, Truth
<1> QED  BY <1>1, <1>2 DEF Flow

(* A timer fires. *)
LEMMA FlowFires ==
    ASSUME NEW i, NEW q \in Seq(Messages), NEW h, NEW v, NEW P, NEW T, NEW U,
           Flow(i, q, h, v, P, T), i \in T, i \notin U,
           NEW x \in Messages, x \in Steps(i)
    PROVE  /\ Flow(i, Append(q, x), h, v, P, U)
           /\ StepsIn(i, Append(q, x), h, U) = StepsIn(i, q, h, T)
           /\ CountIn(Append(q, x), Records(i)) = CountIn(q, Records(i))
<1>1. /\ CountIn(q, Steps(i)) \in Nat /\ CountIn(q, Records(i)) \in Nat
      /\ Truth(h \in Steps(i)) \in {0, 1}
      /\ Truth(i \in T) = 1 /\ Truth(i \in U) = 0 /\ x \notin Records(i)
  BY StepsTyped DEF Truth
<1>2. CountIn(Append(q, x), Steps(i)) = CountIn(q, Steps(i)) + 1
  BY CountEnds
<1>3. CountIn(Append(q, x), Records(i)) = CountIn(q, Records(i))
  BY <1>1, CountEnds
<1>4. StepsIn(i, Append(q, x), h, U) = StepsIn(i, q, h, T)
  BY <1>1, <1>2 DEF StepsIn
<1>5. Before(Append(q, x), Records(i), Steps(i))
  BY <1>1, BeforeEnds DEF Flow
<1>6. CountIn(q, Records(i)) # 1
  BY <1>1 DEF Flow, StepsIn
<1> QED  BY <1>1, <1>3, <1>4, <1>5, <1>6 DEF Flow

(* The message an actor is at, and what waits behind it. *)
At(q, h) == IF h = None THEN Head(q) ELSE h
Behind(q, h) == IF h = None THEN Tail(q) ELSE q

LEMMA FlowBehind ==
    ASSUME NEW i, NEW q \in Seq(Messages), NEW h \in Messages \cup {None},
           NEW v, NEW P, NEW T, Flow(i, q, h, v, P, T), h = None => q # <<>>
    PROVE  LET c == At(q, h)
               r == Behind(q, h)
           IN  /\ c \in Messages /\ r \in Seq(Messages)
               /\ Before(r, Records(i), Steps(i))
               /\ CountIn(r, Steps(i)) + Truth(c \in Steps(i)) + Truth(i \in T) =
                      StepsIn(i, q, h, T)
               /\ CountIn(r, Records(i)) + Truth(c \in Records(i)) =
                      CountIn(q, Records(i))
               /\ c \in Records(i) => h = None
               /\ c \in Steps(i) => CountIn(q, Records(i)) = 0
<1>1. CASE h = None
  <2>1. q # <<>>
    BY <1>1
  <2> DEFINE c == Head(q)
             r == Tail(q)
  <2>2. c \in Messages /\ r \in Seq(Messages)
    BY <2>1, QueueBegins
  <2>3. /\ Before(r, Records(i), Steps(i))
        /\ c \in Steps(i) => ToSet(q) \cap Records(i) = {}
    BY <2>1, BeforeBegins DEF Flow
  <2>4. \A M : CountIn(q, M) = CountIn(r, M) + Truth(c \in M) /\ CountIn(r, M) \in Nat
    <3> TAKE M
    <3>1. CountIn(q, M) = CountIn(r, M) + IF c \in M THEN 1 ELSE 0
      BY <2>1, CountBegins
    <3>2. CountIn(r, M) \in Nat
      BY <2>2, CountZero
    <3> QED  BY <3>1, <3>2 DEF Truth
  <2>5. Truth(h \in Steps(i)) = 0
    BY <1>1, StepsTyped DEF Truth
  <2>6. c \in Steps(i) => CountIn(q, Records(i)) = 0
    BY <2>3, CountZero
  <2>7. At(q, h) = c /\ Behind(q, h) = r
    BY <1>1 DEF At, Behind
  <2> HIDE DEF c, r
  <2>8. CountIn(q, Steps(i)) = CountIn(r, Steps(i)) + Truth(c \in Steps(i))
    BY <2>4
  <2>9. CountIn(q, Steps(i)) \in Nat /\ CountIn(r, Steps(i)) \in Nat
        /\ Truth(c \in Steps(i)) \in {0, 1} /\ Truth(i \in T) \in {0, 1}
    BY <2>2, StepsTyped
  <2>10. CountIn(r, Steps(i)) + Truth(c \in Steps(i)) + Truth(i \in T) =
             StepsIn(i, q, h, T)
    BY <2>5, <2>8, <2>9 DEF StepsIn
  <2>11. CountIn(r, Records(i)) + Truth(c \in Records(i)) = CountIn(q, Records(i))
    BY <2>4
  <2> QED  BY <1>1, <2>2, <2>3, <2>6, <2>7, <2>10, <2>11
<1>2. CASE h # None
  <2>1. At(q, h) = h /\ Behind(q, h) = q /\ h \in Messages /\ h \notin Records(i)
    BY <1>2 DEF At, Behind, Flow
  <2>2. Truth(h \in Records(i)) = 0 /\ CountIn(q, Records(i)) \in Nat
    BY <2>1, StepsTyped DEF Truth
  <2>3. h \in Steps(i) => CountIn(q, Records(i)) = 0
    <3> SUFFICES ASSUME h \in Steps(i)  PROVE CountIn(q, Records(i)) = 0
      OBVIOUS
    <3>1. Truth(h \in Steps(i)) = 1
      BY DEF Truth
    <3>2. CountIn(q, Steps(i)) \in Nat /\ Truth(i \in T) \in {0, 1}
      BY StepsTyped
    <3>3. CountIn(q, Steps(i)) = 0
      BY <3>1, <3>2 DEF Flow, StepsIn
    <3>4. Truth(v # "none") \in {0, 1}
      BY DEF Truth
    <3> QED  BY <2>2, <3>3, <3>4 DEF Flow
  <2> QED  BY <2>1, <2>2, <2>3 DEF Flow, StepsIn
<1> QED  BY <1>1, <1>2

(* The coordinator is at the message of something else. *)
LEMMA FlowElsewhere ==
    ASSUME NEW i, NEW q \in Seq(Messages), NEW h \in Messages \cup {None},
           NEW v, NEW P, NEW T, Flow(i, q, h, v, P, T), h = None => q # <<>>,
           At(q, h) \notin Steps(i) \cup Records(i),
           NEW k \in {At(q, h), None}
    PROVE  /\ Flow(i, Behind(q, h), k, v, P, T)
           /\ StepsIn(i, Behind(q, h), k, T) = StepsIn(i, q, h, T)
           /\ CountIn(Behind(q, h), Records(i)) = CountIn(q, Records(i))
<1> DEFINE c == At(q, h)
           r == Behind(q, h)
<1>1. /\ r \in Seq(Messages) /\ Before(r, Records(i), Steps(i))
      /\ CountIn(r, Steps(i)) + Truth(c \in Steps(i)) + Truth(i \in T) =
             StepsIn(i, q, h, T)
      /\ CountIn(r, Records(i)) + Truth(c \in Records(i)) = CountIn(q, Records(i))
  BY FlowBehind
<1>2. /\ Truth(c \in Steps(i)) = 0 /\ Truth(c \in Records(i)) = 0
      /\ Truth(k \in Steps(i)) = 0 /\ k \notin Records(i)
  <2>1. c \notin Steps(i) /\ c \notin Records(i) /\ (k = c \/ k = None)
    OBVIOUS
  <2>2. None \notin Steps(i) /\ None \notin Records(i)
    BY StepsTyped
  <2> QED  BY <2>1, <2>2 DEF Truth
<1> HIDE DEF c, r
<1>3. /\ CountIn(r, Records(i)) \in Nat /\ CountIn(q, Records(i)) \in Nat
      /\ CountIn(r, Steps(i)) \in Nat /\ CountIn(q, Steps(i)) \in Nat
      /\ Truth(i \in T) \in {0, 1} /\ Truth(h \in Steps(i)) \in {0, 1}
  BY <1>1, StepsTyped
<1>4. /\ StepsIn(i, r, k, T) = StepsIn(i, q, h, T)
      /\ CountIn(r, Records(i)) = CountIn(q, Records(i))
  BY <1>1, <1>2, <1>3 DEF StepsIn
<1>5. CountIn(r, Records(i)) = 1 => CountIn(r, Steps(i)) = 1
  <2> SUFFICES ASSUME CountIn(q, Records(i)) = 1  PROVE CountIn(r, Steps(i)) = 1
    BY <1>4
  <2>1. CountIn(q, Steps(i)) = 1 /\ StepsIn(i, q, h, T) <= 1
    BY DEF Flow
  <2>2. Truth(h \in Steps(i)) = 0 /\ Truth(i \in T) = 0 /\ StepsIn(i, q, h, T) = 1
    BY <1>3, <2>1 DEF StepsIn
  <2> QED  BY <1>1, <1>2, <1>3, <2>2
<1>6. Flow(i, r, k, v, P, T)
  BY <1>1, <1>2, <1>4, <1>5 DEF Flow
<1> QED  BY <1>4, <1>6 DEF r

(* The coordinator is at the step of a transfer: it is the only one. *)
LEMMA FlowAtStep ==
    ASSUME NEW i, NEW q \in Seq(Messages), NEW h \in Messages \cup {None},
           NEW v, NEW P, NEW T, Flow(i, q, h, v, P, T), h = None => q # <<>>,
           At(q, h) \in Steps(i)
    PROVE  /\ i \in P /\ v # "none" /\ i \notin T
           /\ CountIn(Behind(q, h), Steps(i)) = 0
           /\ CountIn(Behind(q, h), Records(i)) = 0
           /\ StepsIn(i, q, h, T) = 1
           /\ Flow(i, Behind(q, h), At(q, h), v, P, T)
           /\ StepsIn(i, Behind(q, h), At(q, h), T) = 1
<1> DEFINE c == At(q, h)
           r == Behind(q, h)
<1>1. /\ r \in Seq(Messages) /\ Before(r, Records(i), Steps(i)) /\ c \in Messages
      /\ CountIn(r, Steps(i)) + Truth(c \in Steps(i)) + Truth(i \in T) =
             StepsIn(i, q, h, T)
      /\ CountIn(r, Records(i)) + Truth(c \in Records(i)) = CountIn(q, Records(i))
      /\ CountIn(q, Records(i)) = 0
  BY FlowBehind
<1>2. Truth(c \in Steps(i)) = 1 /\ Truth(c \in Records(i)) = 0 /\ c \notin Records(i)
  BY StepsTyped DEF Truth
<1> HIDE DEF c, r
<1>3. /\ CountIn(r, Records(i)) \in Nat /\ CountIn(r, Steps(i)) \in Nat
      /\ Truth(i \in T) \in {0, 1} /\ StepsIn(i, q, h, T) <= 1
      /\ StepsIn(i, q, h, T) \in Nat
      /\ i \notin T <=> Truth(i \in T) = 0
  BY <1>1, StepsTyped DEF Flow, Truth
<1>4. /\ CountIn(r, Steps(i)) = 0 /\ Truth(i \in T) = 0 /\ CountIn(r, Records(i)) = 0
      /\ StepsIn(i, q, h, T) = 1
  BY <1>1, <1>2, <1>3
<1>5. i \in P /\ v # "none" /\ i \notin T
  BY <1>1, <1>3, <1>4 DEF Flow
<1>6. StepsIn(i, r, c, T) = 1
  BY <1>2, <1>4 DEF StepsIn
<1>7. Flow(i, r, c, v, P, T)
  <2>1. Truth(v # "none") \in {0, 1}
    BY DEF Truth
  <2> QED  BY <1>1, <1>2, <1>4, <1>5, <1>6, <2>1 DEF Flow
<1> QED  BY <1>4, <1>5, <1>6, <1>7 DEF c, r

(* The flow goes on from an empty place. *)
LEMMA FlowNext ==
    ASSUME NEW i, NEW r \in Seq(Messages), NEW v, NEW P, NEW T,
           CountIn(r, Steps(i)) = 0, CountIn(r, Records(i)) = 0,
           Before(r, Records(i), Steps(i)), i \notin T, i \in P => v # "none"
    PROVE  /\ Flow(i, r, None, v, P, T) /\ StepsIn(i, r, None, T) = 0
           /\ \A x \in Messages : x \in Steps(i) /\ i \in P =>
                  /\ Flow(i, Append(r, x), None, v, P, T)
                  /\ StepsIn(i, Append(r, x), None, T) = 1
           /\ \A U : i \in P /\ i \in U =>
                  Flow(i, r, None, v, P, U) /\ StepsIn(i, r, None, U) = 1
<1>1. /\ None \notin Steps(i) /\ None \notin Records(i)
      /\ Records(i) \cap Steps(i) = {}
      /\ Truth(None \in Steps(i)) = 0 /\ Truth(i \in T) = 0
      /\ \A U : i \in U => Truth(i \in U) = 1
  BY StepsTyped DEF Truth
<1>2. Truth(v # "none") \in {0, 1}
  BY DEF Truth
<1>3. /\ StepsIn(i, r, None, T) = 0
      /\ \A U : i \in U => StepsIn(i, r, None, U) = 1
  BY <1>1 DEF StepsIn
<1>4. /\ Flow(i, r, None, v, P, T)
      /\ \A U : i \in P /\ i \in U => Flow(i, r, None, v, P, U)
  BY <1>1, <1>2, <1>3 DEF Flow
<1>5. ASSUME NEW x \in Messages, x \in Steps(i), i \in P
      PROVE  /\ Flow(i, Append(r, x), None, v, P, T)
             /\ StepsIn(i, Append(r, x), None, T) = 1
  <2>1. CountIn(Append(r, x), Steps(i)) = 1
    BY <1>5, CountEnds
  <2>2. CountIn(Append(r, x), Records(i)) = 0
    <3>1. x \notin Records(i)
      BY <1>1, <1>5
    <3> QED  BY <3>1, CountEnds
  <2>3. Before(Append(r, x), Records(i), Steps(i))
    BY <1>1, <1>5, BeforeEnds
  <2>4. StepsIn(i, Append(r, x), None, T) = 1
    BY <1>1, <2>1 DEF StepsIn
  <2> QED  BY <1>1, <1>2, <1>5, <2>1, <2>2, <2>3, <2>4 DEF Flow
<1> QED  BY <1>3, <1>4, <1>5

(* A record waits with its step behind it. *)
LEMMA FlowRecorded ==
    ASSUME NEW i, NEW r \in Seq(Messages), NEW P, NEW T,
           CountIn(r, Steps(i)) = 0, CountIn(r, Records(i)) = 0,
           Before(r, Records(i), Steps(i)), i \notin T, i \notin P,
           NEW x \in Messages, x \in Records(i), NEW y \in Messages, y \in Steps(i)
    PROVE  LET q == Append(Append(r, x), y)
           IN  /\ Flow(i, q, None, "none", P, T) /\ CountIn(q, Records(i)) = 1
<1> DEFINE s == Append(r, x)
           q == Append(s, y)
<1>1. /\ None \notin Steps(i) /\ None \notin Records(i)
      /\ x \notin Steps(i) /\ y \notin Records(i)
      /\ Truth(None \in Steps(i)) = 0 /\ Truth(i \in T) = 0
      /\ Truth("none" # "none") = 0
  BY StepsTyped DEF Truth
<1>2. ToSet(r) \cap Steps(i) = {}
  BY CountZero
<1>3. /\ s \in Seq(Messages) /\ CountIn(s, Records(i)) = 1 /\ CountIn(s, Steps(i)) = 0
      /\ Before(s, Records(i), Steps(i))
  <2>1. s \in Seq(Messages)
    BY QueueEnds
  <2>2. CountIn(s, Records(i)) = 1
    BY CountEnds
  <2>3. CountIn(s, Steps(i)) = 0
    BY <1>1, CountEnds
  <2>4. Before(s, Records(i), Steps(i))
    BY <1>1, <1>2, BeforeEnds
  <2> QED  BY <2>1, <2>2, <2>3, <2>4
<1> HIDE DEF s
<1>4. /\ q \in Seq(Messages) /\ CountIn(q, Records(i)) = 1 /\ CountIn(q, Steps(i)) = 1
      /\ Before(q, Records(i), Steps(i))
  <2>1. q \in Seq(Messages)
    BY <1>3, QueueEnds
  <2>2. CountIn(q, Records(i)) = 1
    BY <1>1, <1>3, CountEnds
  <2>3. CountIn(q, Steps(i)) = 1
    BY <1>3, CountEnds
  <2>4. Before(q, Records(i), Steps(i))
    BY <1>1, <1>3, BeforeEnds
  <2> QED  BY <2>1, <2>2, <2>3, <2>4
<1> HIDE DEF q
<1>5. StepsIn(i, q, None, T) = 1
  BY <1>1, <1>4 DEF StepsIn
<1>6. Flow(i, q, None, "none", P, T)
  BY <1>1, <1>4, <1>5 DEF Flow
<1> QED  BY <1>4, <1>6 DEF q, s

(* The coordinator enters the record into the map. *)
LEMMA FlowEntered ==
    ASSUME NEW i, NEW q \in Seq(Messages), NEW h \in Messages \cup {None},
           NEW v, NEW P, NEW T, Flow(i, q, h, v, P, T), h = None => q # <<>>,
           At(q, h) \in Records(i), NEW w, w # "none", NEW O, i \in O
    PROVE  /\ v = "none" /\ i \notin P
           /\ Flow(i, Behind(q, h), None, w, O, T)
           /\ StepsIn(i, Behind(q, h), None, T) = 1
<1> DEFINE c == At(q, h)
           r == Behind(q, h)
<1>1. /\ r \in Seq(Messages) /\ Before(r, Records(i), Steps(i)) /\ c \in Messages
      /\ CountIn(r, Steps(i)) + Truth(c \in Steps(i)) + Truth(i \in T) =
             StepsIn(i, q, h, T)
      /\ CountIn(r, Records(i)) + Truth(c \in Records(i)) = CountIn(q, Records(i))
  BY FlowBehind
<1>2. /\ Truth(c \in Steps(i)) = 0 /\ Truth(c \in Records(i)) = 1
      /\ Truth(h \in Steps(i)) = 0 /\ Truth(None \in Steps(i)) = 0
      /\ None \notin Records(i) /\ Truth(w # "none") = 1
      /\ Truth(v # "none") \in {0, 1} /\ (v = "none" <=> Truth(v # "none") = 0)
  <2>1. h = None
    BY FlowBehind
  <2>2. None \notin Steps(i) /\ None \notin Records(i) /\ c \notin Steps(i)
    BY StepsTyped
  <2> QED  BY <2>1, <2>2 DEF Truth
<1> HIDE DEF c, r
<1>3. /\ CountIn(r, Records(i)) \in Nat /\ CountIn(r, Steps(i)) \in Nat
      /\ CountIn(q, Records(i)) \in Nat /\ CountIn(q, Steps(i)) \in Nat
      /\ Truth(i \in T) \in {0, 1} /\ StepsIn(i, q, h, T) <= 1
      /\ CountIn(q, Records(i)) + Truth(v # "none") <= 1
      /\ CountIn(q, Records(i)) = 1 => CountIn(q, Steps(i)) = 1
      /\ i \in P => v # "none"
  BY <1>1, StepsTyped DEF Flow
<1>4. /\ CountIn(q, Records(i)) = 1 /\ CountIn(r, Records(i)) = 0
      /\ Truth(v # "none") = 0
  BY <1>1, <1>2, <1>3
<1>5. StepsIn(i, q, h, T) = 1
  BY <1>2, <1>3, <1>4 DEF StepsIn
<1>6. StepsIn(i, r, None, T) = 1
  BY <1>1, <1>2, <1>3, <1>5 DEF StepsIn
<1>7. Flow(i, r, None, w, O, T)
  BY <1>1, <1>2, <1>4, <1>6 DEF Flow
<1> QED  BY <1>2, <1>3, <1>4, <1>6, <1>7 DEF r

(* The map and the timers only count as far as they hold the transfer. *)
LEMMA FlowSame ==
    ASSUME NEW i, NEW q, NEW h, NEW v, NEW P, NEW T, NEW O, NEW U,
           Flow(i, q, h, v, P, T), i \in O <=> i \in P, i \in U <=> i \in T
    PROVE  Flow(i, q, h, v, O, U) /\ StepsIn(i, q, h, U) = StepsIn(i, q, h, T)
<1>1. StepsIn(i, q, h, U) = StepsIn(i, q, h, T)
  BY DEF StepsIn, Truth
<1> QED  BY <1>1 DEF Flow

(* What the coordinator sends itself about anything but transfer i. *)
Foreign(i) == Messages \ (Steps(i) \cup Records(i))
Adds(i, r, s) ==
    \/ s = r
    \/ \E x \in Foreign(i) : s = Append(r, x)
    \/ \E x, y \in Foreign(i) : s = Append(Append(r, x), y)

LEMMA FlowApart ==
    ASSUME NEW i, NEW q \in Seq(Messages), NEW h \in Messages \cup {None},
           NEW v, NEW P, NEW T, NEW O, NEW U,
           Flow(i, q, h, v, P, T), h = None => q # <<>>,
           At(q, h) \notin Steps(i) \cup Records(i),
           NEW k \in {At(q, h), None}, NEW s, Adds(i, Behind(q, h), s),
           i \in O <=> i \in P, i \in U <=> i \in T
    PROVE  /\ Flow(i, s, k, v, O, U)
           /\ StepsIn(i, s, k, U) = StepsIn(i, q, h, T)
           /\ CountIn(s, Records(i)) = CountIn(q, Records(i))
<1> DEFINE r == Behind(q, h)
<1>1. /\ Flow(i, r, k, v, P, T)
      /\ StepsIn(i, r, k, T) = StepsIn(i, q, h, T)
      /\ CountIn(r, Records(i)) = CountIn(q, Records(i))
  BY FlowElsewhere
<1>2. r \in Seq(Messages)
  BY FlowBehind
<1> HIDE DEF r
<1>3. /\ Flow(i, s, k, v, P, T)
      /\ StepsIn(i, s, k, T) = StepsIn(i, r, k, T)
      /\ CountIn(s, Records(i)) = CountIn(r, Records(i))
  <2>1. CASE s = r
    BY <1>1, <2>1
  <2>2. ASSUME NEW x \in Foreign(i), s = Append(r, x)
        PROVE  <1>3!:
    BY <1>1, <1>2, <2>2, FlowForeign DEF Foreign
  <2>3. ASSUME NEW x \in Foreign(i), NEW y \in Foreign(i), s = Append(Append(r, x), y)
        PROVE  <1>3!:
    <3>1. PICK p : p = Append(r, x)
      OBVIOUS
    <3>2. /\ p \in Seq(Messages) /\ Flow(i, p, k, v, P, T)
          /\ StepsIn(i, p, k, T) = StepsIn(i, r, k, T)
          /\ CountIn(p, Records(i)) = CountIn(r, Records(i))
      BY <1>1, <1>2, <3>1, FlowForeign, QueueEnds DEF Foreign
    <3>3. y \in Messages \ (Steps(i) \cup Records(i)) /\ s = Append(p, y)
      BY <2>3, <3>1 DEF Foreign
    <3>4. /\ Flow(i, s, k, v, P, T)
          /\ StepsIn(i, s, k, T) = StepsIn(i, p, k, T)
          /\ CountIn(s, Records(i)) = CountIn(p, Records(i))
      BY <3>2, <3>3, FlowForeign
    <3> QED  BY <3>2, <3>4
  <2> QED  BY <2>1, <2>2, <2>3 DEF Adds, r
<1>4. Flow(i, s, k, v, O, U) /\ StepsIn(i, s, k, U) = StepsIn(i, s, k, T)
  <2>1. Truth(i \in U) = Truth(i \in T)
    BY DEF Truth
  <2> QED  BY <1>3, <2>1 DEF Flow, StepsIn
<1> QED  BY <1>1, <1>3, <1>4

-----------------------------------------------------------------------------
(* What a step does to the mailbox of the coordinator *)

(* The turns of the coordinator: it goes on with its message or ends it, and *)
(* sends itself nothing, one or two messages about the same request.         *)
LEMMA CoordinatorIs ==
    ASSUME MailInv, Turns(Coordinator)
    PROVE  /\ Coordinator \in Actors /\ Busy(Coordinator)
           /\ queue[Coordinator] \in Seq(Messages)
           /\ handling[Coordinator] \in Messages \cup {None}
           /\ handling[Coordinator] = None => queue[Coordinator] # <<>>
           /\ Current(Coordinator) = At(queue[Coordinator], handling[Coordinator])
           /\ Rest(Coordinator)[Coordinator] =
                  Behind(queue[Coordinator], handling[Coordinator])
           /\ Rest(Coordinator) \in [Actors -> Seq(Messages)]
           /\ Current(Coordinator) \in Messages /\ Proper(Coordinator, Current(Coordinator))
<1>1. Coordinator \in Actors /\ Busy(Coordinator)
  BY ActorNames, TurnsBusy DEF Callers
<1>2. /\ queue[Coordinator] \in Seq(Messages)
      /\ handling[Coordinator] \in Messages \cup {None}
  BY <1>1 DEF MailInv
<1>3. /\ Current(Coordinator) = At(queue[Coordinator], handling[Coordinator])
      /\ Rest(Coordinator)[Coordinator] =
             Behind(queue[Coordinator], handling[Coordinator])
  BY <1>1 DEF MailInv, Current, Rest, At, Behind
<1> QED  BY <1>1, <1>2, <1>3, CurrentMessage DEF Busy

LEMMA CoordinatorEnds ==
    ASSUME MailInv, Turns(Coordinator)
    PROVE  /\ Throws(Coordinator) \/ (\E result : Returns(Coordinator, result)) =>
                  /\ handling'[Coordinator] = None
                  /\ queue'[Coordinator] = Rest(Coordinator)[Coordinator]
           /\ \A op : \A b \in Nat : Calls(Coordinator, b, op) =>
                  /\ handling'[Coordinator] = Current(Coordinator)
                  /\ queue'[Coordinator] = Rest(Coordinator)[Coordinator]
                  /\ answer'[Coordinator] # "error"
<1>1. /\ Coordinator \in Actors /\ Rest(Coordinator) \in [Actors -> Seq(Messages)]
      /\ \A b \in Nat : b # Coordinator
  BY CoordinatorIs, ActorNames DEF Callers
<1>2. Throws(Coordinator) \/ (\E result : Returns(Coordinator, result)) =>
          /\ handling'[Coordinator] = None
          /\ queue'[Coordinator] = Rest(Coordinator)[Coordinator]
  BY <1>1 DEF Throws, Returns, Ends, MailInv
<1>3. ASSUME NEW b \in Nat, NEW op, Calls(Coordinator, b, op)
      PROVE  /\ handling'[Coordinator] = Current(Coordinator)
             /\ queue'[Coordinator] = Rest(Coordinator)[Coordinator]
             /\ answer'[Coordinator] # "error"
  BY <1>1, <1>3 DEF Calls, MailInv
<1> QED  BY <1>2, <1>3

LEMMA CoordinatorSelf ==
    ASSUME MailInv, MoneyInv, NEW op1 \in SelfSent, NEW op2 \in SelfSent, NEW result,
           Turns(Coordinator), About(Coordinator) \in Requests
    PROVE  \E x, y \in Messages :
              /\ x.op = op1 /\ x.about = About(Coordinator)
              /\ y.op = op2 /\ y.about = About(Coordinator)
              /\ SendsItself(Coordinator, <<op1>>, result) =>
                     /\ handling'[Coordinator] = None
                     /\ queue'[Coordinator] =
                            Append(Rest(Coordinator)[Coordinator], x)
              /\ SendsItself(Coordinator, <<op1, op2>>, result) =>
                     /\ handling'[Coordinator] = None
                     /\ queue'[Coordinator] =
                            Append(Append(Rest(Coordinator)[Coordinator], x), y)
<1>1. /\ Coordinator \in Actors /\ Rest(Coordinator) \in [Actors -> Seq(Messages)]
  BY CoordinatorIs
<1>2. own'[Coordinator] \in Requests \cup {0} /\ op1 \in AllOps /\ op2 \in AllOps
  BY <1>1, TurnOwn, BankCallOps
<1> DEFINE M(op) == Message(Coordinator, op, About(Coordinator), Nobody, own'[Coordinator])
<1>3. PICK x \in Messages : x = M(op1) /\ x.op = op1 /\ x.about = About(Coordinator)
  BY <1>2, NewMessage
<1>4. PICK y \in Messages : y = M(op2) /\ y.op = op2 /\ y.about = About(Coordinator)
  BY <1>2, NewMessage
<1> DEFINE r == Rest(Coordinator)[Coordinator]
<1>5. r \in Seq(Messages)
  BY <1>1
<1>6. ASSUME SendsItself(Coordinator, <<op1>>, result)
      PROVE  handling'[Coordinator] = None /\ queue'[Coordinator] = Append(r, x)
  <2>1. queue'[Coordinator] = r \o [k \in DOMAIN <<op1>> |-> M(<<op1>>[k])]
    BY <1>1, <1>6 DEF SendsItself
  <2> HIDE DEF M, r
  <2>2. [k \in DOMAIN <<op1>> |-> M(<<op1>>[k])] = <<x>>
    BY <1>3
  <2>3. r \o <<x>> = Append(r, x)
    BY <1>5
  <2> QED  BY <1>1, <1>6, <2>1, <2>2, <2>3 DEF SendsItself, Ends, MailInv
<1>7. ASSUME SendsItself(Coordinator, <<op1, op2>>, result)
      PROVE  handling'[Coordinator] = None /\ queue'[Coordinator] = Append(Append(r, x), y)
  <2>1. queue'[Coordinator] = r \o [k \in DOMAIN <<op1, op2>> |-> M(<<op1, op2>>[k])]
    BY <1>1, <1>7 DEF SendsItself
  <2> HIDE DEF M, r
  <2>2. [k \in DOMAIN <<op1, op2>> |-> M(<<op1, op2>>[k])] = <<x, y>>
    BY <1>3, <1>4
  <2>3. r \o <<x, y>> = Append(Append(r, x), y)
    BY <1>5
  <2> QED  BY <1>1, <1>7, <2>1, <2>2, <2>3 DEF SendsItself, Ends, MailInv
<1> QED  BY <1>3, <1>4, <1>6, <1>7

(* Steps of others bring the coordinator at most a message that moves no     *)
(* transfer on, and answers that are no errors unless an account failed.     *)
IdleStep ==
    /\ handling'[Coordinator] = handling[Coordinator]
    /\ \/ queue'[Coordinator] = queue[Coordinator]
       \/ \E m \in Messages : /\ queue'[Coordinator] = Append(queue[Coordinator], m)
                              /\ m.op \notin SelfSent

Fails(a) ==
    /\ a \in Accounts /\ Busy(a) /\ Current(a).reply = Coordinator
    /\ \/ Current(a).op \in {"deposit", "withdraw"}
       \/ HistoryRejects(a)

Heard == \/ answer'[Coordinator] \in {answer[Coordinator], "value"}
         \/ \E a \in Accounts : Fails(a)

Idle == IdleStep /\ Heard /\ UNCHANGED <<pending, status>>

LEMMA IdleActor ==
    ASSUME MailInv, MoneyInv, NEW a \in Actors, a # Coordinator, Turns(a)
    PROVE  /\ Throws(a) \/ (\E result : Returns(a, result)) => IdleStep
           /\ Returns(a, "value") => Heard
           /\ \A b \in Names, op \in AllOps \ SelfSent :
                  a \in Callers /\ Calls(a, b, op) => IdleStep /\ Heard
           /\ AwaitsHistory(a) => IdleStep /\ Heard
           /\ a \in Callers /\ (Throws(a) \/ (\E result : Returns(a, result))) => Heard
<1>1. /\ Coordinator \in Actors /\ Busy(a)
      /\ Rest(a) \in [Actors -> Seq(Messages)]
      /\ Rest(a)[Coordinator] = queue[Coordinator]
      /\ Proper(a, Current(a)) /\ Current(a) \in Messages
      /\ handling \in [Actors -> Messages \cup {None}] /\ answer \in [Actors -> Answers]
  BY ActorNames, TurnsBusy, CurrentMessage DEF Callers, MailInv
<1>2. Throws(a) \/ (\E result : Returns(a, result)) => IdleStep
  BY <1>1 DEF Throws, Returns, Ends, IdleStep
<1>3. Returns(a, "value") => Heard
  BY <1>1 DEF Returns, Ends, Heard
<1>4. ASSUME NEW b \in Names, NEW op \in AllOps \ SelfSent, a \in Callers, Calls(a, b, op)
      PROVE  IdleStep /\ Heard
  <2>1. handling'[Coordinator] = handling[Coordinator] /\ Heard
    BY <1>1, <1>4 DEF Calls, Heard
  <2>2. CASE queue' = Rest(a)
    BY <1>1, <2>1, <2>2 DEF IdleStep
  <2>3. CASE queue' = [Rest(a) EXCEPT ![b] =
                           Append(@, Message(b, op, About(a), a, own'[b]))]
    <3>1. CASE b # Coordinator
      BY <1>1, <2>1, <2>3, <3>1 DEF IdleStep
    <3>2. CASE b = Coordinator
      <4>1. PICK m : m = Message(b, op, About(a), a, own'[b])
        OBVIOUS
      <4>2. own'[b] \in Requests \cup {0} /\ About(a) \in Requests \cup {0}
        BY <1>1, <3>2, TurnOwn DEF About, Messages
      <4>3. m \in Messages /\ m.op = op
        BY <1>4, <4>1, <4>2, NewMessage
      <4>4. queue'[Coordinator] = Append(queue[Coordinator], m)
        BY <1>1, <2>3, <3>2, <4>1
      <4> QED  BY <1>4, <2>1, <4>3, <4>4 DEF IdleStep
    <3> QED  BY <3>1, <3>2
  <2> QED  BY <1>4, <2>1, <2>2, <2>3 DEF Calls, About
<1>5. AwaitsHistory(a) => IdleStep /\ Heard
  BY <1>1 DEF AwaitsHistory, IdleStep, Heard
<1>6. ASSUME a \in Callers, Throws(a) \/ (\E result : Returns(a, result))
      PROVE  Heard
  <2>1. Current(a).reply # Coordinator
    BY <1>1, <1>6, ActorNames DEF Proper, Callers
  <2> QED  BY <1>1, <1>6, <2>1 DEF Throws, Returns, Ends, Heard
<1> QED  BY <1>2, <1>3, <1>4, <1>5, <1>6

LEMMA OthersIdle ==
    ASSUME MailInv, MoneyInv, [Next]_vars
    PROVE  \/ Idle
           \/ CoordinatorSteps
           \/ \E i \in Requests : RetryFires(i)
           \/ Stops(Coordinator)
<1> DEFINE Goal == \/ Idle
                   \/ CoordinatorSteps
                   \/ \E i \in Requests : RetryFires(i)
                   \/ Stops(Coordinator)
<1> SUFFICES Goal
  OBVIOUS
<1>1. /\ Teller \in Actors /\ Bank \in Actors /\ Coordinator \in Actors
      /\ Teller # Coordinator /\ Bank # Coordinator
      /\ Teller \in Callers /\ Bank \in Callers /\ Bank \in Names /\ Coordinator \in Names
      /\ Commands \subseteq AllOps \ SelfSent /\ "none" \notin Commands
      /\ \A a \in Accounts : a \in Actors /\ a # Coordinator /\ a \notin Callers
      /\ \A n \in DOMAIN balance : n \in Names
  <2>1. \A n \in DOMAIN balance : n \in Nat
    BY QueueElements DEF MoneyInv
  <2>2. Commands \subseteq AllOps \ SelfSent /\ "none" \notin Commands
    BY DEF AllOps, SelfSent, Commands, Formatted, Queries, TransferOps
  <2> QED  BY <2>1, <2>2, ActorNames DEF Callers, Names
<1>2. ASSUME OnlyMessages \/ UNCHANGED transferVars
      PROVE  UNCHANGED <<pending, status>>
  BY <1>2 DEF OnlyMessages, transferVars
<1>3. ASSUME NEW a \in {Teller, Bank}, Turns(a)
      PROVE  /\ Throws(a) => IdleStep /\ Heard
             /\ \A result : Returns(a, result) => IdleStep /\ Heard
             /\ PassesOn(a) => IdleStep /\ Heard
             /\ \A b \in Names, op \in AllOps \ SelfSent :
                    Calls(a, b, op) => IdleStep /\ Heard
  BY <1>1, <1>3, IdleActor DEF PassesOn
<1>4. ASSUME NEW a, NEW op, Begins(a, op)  PROVE Turns(a)
  BY <1>4, BeginsTurns
<1>5. ASSUME NEW a, NEW ops, "none" \notin ops, Resumes(a, ops)  PROVE Turns(a)
  BY <1>5, ResumesTurns
<1>6. ASSUME NEW op \in Commands, TellerAsks(op) \/ TellerAnswers(op)
      PROVE  Goal
  <2>1. Turns(Teller)
    BY <1>1, <1>4, <1>5, <1>6 DEF TellerAsks, TellerAnswers
  <2>2. IdleStep /\ Heard
    BY <1>1, <1>3, <1>6, <2>1 DEF TellerAsks, TellerAnswers
  <2> QED  BY <1>2, <1>6, <2>2 DEF TellerAsks, TellerAnswers, Idle
<1>7. {"registerAccount", "initiateTransfer", "getPendingTransfers", "deposit",
       "withdraw", "getInfo", "getHistory"} \subseteq AllOps \ SelfSent
  BY BankCallOps DEF SelfSent, TransferOps
<1>8. ASSUME BankSteps
      PROVE  Goal
  <2>1. \A op : Begins(Bank, op) => Turns(Bank)
    BY <1>4
  <2>2. \A ops : "none" \notin ops /\ Resumes(Bank, ops) => Turns(Bank)
    BY <1>5
  <2>3. Turns(Bank) =>
           /\ Throws(Bank) => IdleStep /\ Heard
           /\ \A result : Returns(Bank, result) => IdleStep /\ Heard
           /\ PassesOn(Bank) => IdleStep /\ Heard
           /\ \A b \in Names, op \in AllOps \ SelfSent :
                  Calls(Bank, b, op) => IdleStep /\ Heard
    BY <1>3
  <2>4. CASE OpenAccount
    <3>1. UNCHANGED <<pending, status>>
      BY <2>4 DEF OpenAccount, transferVars
    <3>2. IdleStep /\ Heard
      BY <1>1, <1>7, <2>1, <2>3, <2>4 DEF OpenAccount
    <3> QED  BY <3>1, <3>2 DEF Idle
  <2>5. CASE AccountOpened \/ TransferInitiated \/ BankAnswers
    <3>1. UNCHANGED <<pending, status>>
      BY <1>2, <2>5 DEF AccountOpened, TransferInitiated, BankAnswers
    <3>2. IdleStep /\ Heard
      BY <2>2, <2>3, <2>5 DEF AccountOpened, TransferInitiated, BankAnswers, Queries
    <3> QED  BY <3>1, <3>2 DEF Idle
  <2>6. ASSUME NEW op, FindAccount(op)
        PROVE  Goal
    <3>1. UNCHANGED <<pending, status>> /\ Turns(Bank)
      BY <1>2, <2>1, <2>6 DEF FindAccount
    <3>2. CASE Throws(Bank)
      BY <2>3, <3>1, <3>2 DEF Idle
    <3>3. CASE /\ handling' = [handling EXCEPT ![Bank] = Current(Bank)]
               /\ queue' = Rest(Bank)
               /\ answer' = [answer EXCEPT ![Bank] = "found"]
      <4>1. Rest(Bank)[Coordinator] = queue[Coordinator]
        BY <1>1, <3>1, TurnsBusy, CurrentMessage
      <4>2. IdleStep /\ Heard
        BY <1>1, <3>3, <4>1 DEF IdleStep, Heard, MailInv
      <4> QED  BY <3>1, <4>2 DEF Idle
    <3> QED  BY <2>6, <3>2, <3>3 DEF FindAccount
  <2>7. ASSUME NEW op \in {"deposit", "withdraw"}, AccountFound(op)
        PROVE  Goal
    <3>1. UNCHANGED <<pending, status>> /\ Turns(Bank)
      BY <1>2, <2>2, <2>7 DEF AccountFound
    <3>2. IdleStep /\ Heard
      BY <1>1, <1>7, <2>3, <2>7, <3>1 DEF AccountFound, Exists
    <3> QED  BY <3>1, <3>2 DEF Idle
  <2>8. CASE AccountSummary \/ TransactionHistory
    <3>1. UNCHANGED <<pending, status>> /\ Turns(Bank)
      BY <1>2, <2>1, <2>8 DEF AccountSummary, TransactionHistory
    <3>2. IdleStep /\ Heard
      BY <1>1, <1>7, <2>3, <2>8, <3>1 DEF AccountSummary, TransactionHistory, Exists
    <3> QED  BY <3>1, <3>2 DEF Idle
  <2>9. CASE AllAccounts
    <3>1. UNCHANGED <<pending, status>>
      BY <2>9 DEF AllAccounts, transferVars
    <3>2. Turns(Bank)
      BY <2>1, <2>2, <2>9 DEF AllAccounts
    <3>3. Len(infos') + 1 \in Nat
      <4>1. infos \in Seq(Answers) /\ answer[Bank] \in Answers
        BY <1>1 DEF MailInv
      <4>2. infos' = <<>> \/ infos' = Append(infos, answer[Bank])
        BY <2>9 DEF AllAccounts
      <4> QED  BY <4>1, <4>2
    <3>4. Len(infos') + 1 \in Names
      BY <3>3 DEF Names
    <3>5. IdleStep /\ Heard
      BY <1>7, <2>3, <2>9, <3>2, <3>4 DEF AllAccounts
    <3> QED  BY <3>1, <3>5 DEF Idle
  <2>10. CASE Transfer \/ PendingTransfers
    <3>1. UNCHANGED <<pending, status>> /\ Turns(Bank)
      BY <1>2, <2>1, <2>10 DEF Transfer, PendingTransfers
    <3>2. IdleStep /\ Heard
      BY <1>1, <1>7, <2>3, <2>10, <3>1 DEF Transfer, PendingTransfers
    <3> QED  BY <3>1, <3>2 DEF Idle
  <2> QED  BY <1>8, <2>4, <2>5, <2>6, <2>7, <2>8, <2>9, <2>10 DEF BankSteps
<1>9. ASSUME NEW a \in Accounts, AccountSteps(a) \/ HistorySettles(a)
      PROVE  Goal
  <2>1. UNCHANGED <<pending, status>>
    BY <1>2, <1>9 DEF AccountSteps, HistorySettles, Deposit, Withdraw, Refund, GetInfo,
       GetHistory, HistoryAnswers, HistoryRejects, transferVars
  <2>2. ASSUME Turns(a)
        PROVE  /\ Throws(a) => IdleStep
               /\ Returns(a, "value") \/ AwaitsHistory(a) => IdleStep /\ Heard
    BY <1>1, <2>2, IdleActor
  <2>3. ASSUME Busy(a), Throws(a),
               Current(a).op \in {"deposit", "withdraw"} \/ HistoryRejects(a)
        PROVE  Heard
    <3>1. CASE Current(a).reply = Coordinator
      BY <2>3, <3>1 DEF Heard, Fails
    <3>2. CASE Current(a).reply # Coordinator
      BY <1>1, <2>3, <3>2 DEF Throws, Ends, Heard
    <3> QED  BY <3>1, <3>2
  <2>4. CASE Deposit(a) \/ Withdraw(a)
    <3>1. Turns(a) /\ Busy(a) /\ Current(a).op \in {"deposit", "withdraw"}
      BY <2>4, BeginsTurns DEF Deposit, Withdraw
    <3>2. Throws(a) \/ AwaitsHistory(a)
      BY <2>4 DEF Deposit, Withdraw
    <3> QED  BY <2>1, <2>2, <2>3, <3>1, <3>2 DEF Idle
  <2>5. CASE Refund(a) \/ GetInfo(a) \/ GetHistory(a)
    <3>1. Turns(a)
      BY <2>5, BeginsTurns DEF Refund, GetInfo, GetHistory
    <3>2. Returns(a, "value") \/ AwaitsHistory(a)
      BY <2>5 DEF Refund, GetInfo, GetHistory
    <3> QED  BY <2>1, <2>2, <3>1, <3>2 DEF Idle
  <2>6. CASE HistorySettles(a)
    <3>1. handling[a].op \in HistoryOps /\ UNCHANGED own
      BY <2>6 DEF HistorySettles, HistoryAnswers, HistoryRejects
    <3>2. handling[a] # None
      BY <3>1, NoneIsNoMessage DEF HistoryOps, Moves
    <3>3. Turns(a) /\ Busy(a)
      BY <1>9, <3>1, <3>2 DEF Turns, Busy
    <3>4. Returns(a, "value") \/ (Throws(a) /\ HistoryRejects(a))
      BY <2>6 DEF HistorySettles, HistoryAnswers, HistoryRejects
    <3> QED  BY <2>1, <2>2, <2>3, <3>3, <3>4 DEF Idle
  <2> QED  BY <1>9, <2>4, <2>5, <2>6 DEF AccountSteps
<1>10. ASSUME UNCHANGED <<queue, handling, answer>>, UNCHANGED <<pending, status>>
       PROVE  Goal
  BY <1>10 DEF Idle, IdleStep, Heard
<1>11. ASSUME NEW a, BankSupervisor(a) \/ TransferSupervisor(a) \/ AccountSupervisor(a)
       PROVE  Goal
  BY <1>2, <1>10, <1>11 DEF BankSupervisor, TransferSupervisor, AccountSupervisor,
     DecidesToResume
<1>12. CASE UNCHANGED vars \/ CloseStage \/ (\E t \in Others : OthersSchedule(t))
  BY <1>10, <1>12 DEF vars, messageVars, transferVars, CloseStage, OthersSchedule
<1>13. ASSUME NEW i \in Requests, ClientCalls(i)
       PROVE  Goal
  <2>1. UNCHANGED <<handling, answer, pending, status>>
    BY <1>2, <1>13 DEF ClientCalls
  <2>2. queue'[Coordinator] = queue[Coordinator]
    BY <1>1, <1>13 DEF ClientCalls, MailInv
  <2> QED  BY <2>1, <2>2 DEF Idle, IdleStep, Heard
<1>14. ASSUME NEW a \in Actors, StageStops(a) \/ ParentStops(a)
       PROVE  Goal
  <2>1. /\ queue' = [queue EXCEPT ![a] =
                         Append(@, Message(a, "stop", 0, Nobody, own[a]))]
        /\ UNCHANGED <<handling, answer, pending, status>>
    BY <1>14 DEF StageStops, ParentStops, SendsStop, transferVars
  <2>2. PICK m : m = Message(a, "stop", 0, Nobody, own[a])
    OBVIOUS
  <2>3. m \in Messages /\ m.op = "stop" /\ "stop" \notin SelfSent
    <3>1. own[a] \in Requests \cup {0} /\ "stop" \in AllOps
      BY DEF MailInv, AllOps
    <3> QED  BY <2>2, <3>1, NewMessage DEF SelfSent, TransferOps
  <2>4. queue'[Coordinator] \in {queue[Coordinator], Append(queue[Coordinator], m)}
    BY <1>1, <2>1, <2>2 DEF MailInv
  <2> QED  BY <2>1, <2>3, <2>4 DEF Idle, IdleStep, Heard
<1>15. ASSUME NEW a \in Actors, Stops(a)
       PROVE  Goal
  <2>1. CASE a = Coordinator
    BY <1>15, <2>1
  <2>2. CASE a # Coordinator
    <3>1. Turns(a) /\ Returns(a, "value") /\ UNCHANGED <<pending, status>>
      BY <1>15, BeginsTurns DEF Stops, transferVars
    <3> QED  BY <1>1, <2>2, <3>1, IdleActor DEF Idle
  <2> QED  BY <2>1, <2>2
<1>16. CASE BankBeginsToStop \/ BankStops
  <2>1. UNCHANGED <<pending, status>>
    BY <1>16 DEF BankBeginsToStop, BankStops, transferVars
  <2>2. CASE BankBeginsToStop
    <3>1. Turns(Bank)
      BY <2>2, BeginsTurns DEF BankBeginsToStop
    <3>2. Rest(Bank)[Coordinator] = queue[Coordinator]
      BY <1>1, <3>1, TurnsBusy, CurrentMessage
    <3>3. IdleStep /\ Heard
      BY <1>1, <2>2, <3>2 DEF BankBeginsToStop, IdleStep, Heard, MailInv
    <3> QED  BY <2>1, <3>3 DEF Idle
  <2>3. CASE BankStops
    <3>1. handling[Bank] # None /\ handling[Bank].op = "stop" /\ UNCHANGED own
      BY <2>3, NoneIsNoMessage DEF BankStops
    <3>2. Turns(Bank)
      BY <3>1 DEF Turns
    <3>3. IdleStep /\ Heard
      BY <1>3, <2>3, <3>2 DEF BankStops
    <3> QED  BY <2>1, <3>3 DEF Idle
  <2> QED  BY <1>16, <2>2, <2>3
<1> HIDE DEF Goal
<1>17. ASSUME CoordinatorSteps \/ \E i \in Requests : RetryFires(i)  PROVE Goal
  BY <1>17 DEF Goal
<1>18. CASE Progress
  BY <1>6, <1>8, <1>9, <1>11, <1>17, <1>18 DEF Progress
<1>19. CASE Next
  BY <1>9, <1>12, <1>13, <1>14, <1>15, <1>16, <1>18, <1>19 DEF Next
<1> QED  BY <1>12, <1>19

LEMMA EndStays == [Next]_vars =>
    /\ closed \subseteq closed'
    /\ rejected' = rejected \/ \E a \in Accounts : HistoryRejects(a)
<1> DEFINE Goal == /\ closed \subseteq closed'
                   /\ rejected' = rejected \/ \E a \in Accounts : HistoryRejects(a)
<1> SUFFICES ASSUME [Next]_vars  PROVE Goal
  OBVIOUS
<1>1. ASSUME OnlyMessages \/ UNCHANGED <<moneyVars, stageVars>>
      PROVE  Goal
  BY <1>1 DEF OnlyMessages, moneyVars, stageVars
<1>2. ASSUME NEW op, TellerAsks(op) \/ TellerAnswers(op)
      PROVE  Goal
  BY <1>1, <1>2 DEF TellerAsks, TellerAnswers
<1>3. ASSUME BankSteps
      PROVE  Goal
  BY <1>1, <1>3 DEF BankSteps, OpenAccount, AllAccounts, AccountOpened, FindAccount,
     AccountFound, AccountSummary, TransactionHistory, Transfer, TransferInitiated,
     PendingTransfers, BankAnswers, stageVars
<1>4. ASSUME CoordinatorSteps
      PROVE  Goal
  BY <1>1, <1>4 DEF CoordinatorSteps, RegisterAccount, InitiateTransfer, Withdrawn,
     RecordPendingTransfer, AttemptDeposit, Deposited, HandleDepositFailure,
     ProcessRefund, Refunded, CompleteTransfer, GetPendingTransfers
<1>5. ASSUME NEW a \in Accounts, AccountSteps(a) \/ HistorySettles(a)
      PROVE  Goal
  BY <1>1, <1>5 DEF AccountSteps, HistorySettles, Deposit, Withdraw, Refund, GetInfo,
     GetHistory, HistoryAnswers, HistoryRejects, stageVars
<1>6. ASSUME NEW a, BankSupervisor(a) \/ TransferSupervisor(a) \/ AccountSupervisor(a)
      PROVE  Goal
  BY <1>1, <1>6 DEF BankSupervisor, TransferSupervisor, AccountSupervisor, DecidesToResume
<1>7. ASSUME NEW i, RetryFires(i) \/ ClientCalls(i)
      PROVE  Goal
  BY <1>1, <1>7 DEF RetryFires, ClientCalls
<1>8. ASSUME \/ CloseStage \/ BankBeginsToStop \/ BankStops
             \/ \E a \in Actors : StageStops(a) \/ ParentStops(a) \/ Stops(a)
             \/ \E t \in Others : OthersSchedule(t)
       PROVE  Goal
  BY <1>1, <1>8 DEF CloseStage, BankBeginsToStop, BankStops, StageStops, ParentStops,
     Stops, SendsStop, OthersSchedule, moneyVars, stageVars
<1>9. ASSUME UNCHANGED vars
      PROVE  Goal
  BY <1>1, <1>9 DEF vars
<1> HIDE DEF Goal
<1>10. CASE Progress
  BY <1>2, <1>3, <1>4, <1>5, <1>6, <1>7, <1>10 DEF Progress
<1> QED
  BY <1>5, <1>7, <1>8, <1>9, <1>10 DEF Next

(* Rejected records are only added to. *)
LEMMA RejectedGrows ==
    ASSUME MailInv, rejected \in [Requests \X Moves -> Nat], [Next]_vars
    PROVE  /\ rejected' \in [Requests \X Moves -> Nat]
           /\ \A r \in Requests \X Moves : rejected[r] <= rejected'[r]
           /\ \A a \in Accounts : HistoryRejects(a) /\ handling[a].op = "refund" =>
                  rejected'[<<About(a), "refund">>] > 0
<1>1. ASSUME NEW a \in Accounts, HistoryRejects(a)
      PROVE  /\ rejected' \in [Requests \X Moves -> Nat]
             /\ \A r \in Requests \X Moves : rejected[r] <= rejected'[r]
             /\ handling[a].op = "refund" => rejected'[<<About(a), "refund">>] > 0
  <2>1. handling[a].op \in HistoryOps /\ handling[a] # None
    BY <1>1, NoneIsNoMessage DEF HistoryRejects, HistoryOps, Moves
  <2>2. /\ Current(a) = handling[a] /\ Proper(a, Current(a)) /\ a \in Actors
        /\ Current(a).op # "stop"
    BY <2>1, ActorNames, CurrentMessage DEF Current, Busy, HistoryOps, Moves
  <2>3. About(a) \in Requests
    BY <2>2 DEF Proper, About
  <2>4. CASE handling[a].op \in Moves
    <3>1. /\ <<About(a), handling[a].op>> \in Requests \X Moves
          /\ rejected' = [rejected EXCEPT ![<<About(a), handling[a].op>>] = @ + 1]
      BY <1>1, <2>3, <2>4 DEF HistoryRejects
    <3>2. rejected'[<<About(a), handling[a].op>>] = rejected[<<About(a), handling[a].op>>] + 1
      BY <3>1
    <3>3. \A r \in Requests \X Moves : rejected[r] \in Nat
      OBVIOUS
    <3> QED  BY <3>1, <3>2, <3>3
  <2>5. CASE handling[a].op \notin Moves
    <3>1. rejected' = rejected /\ handling[a].op # "refund"
      BY <1>1, <2>5 DEF HistoryRejects, Moves
    <3> QED  BY <3>1
  <2> QED  BY <2>4, <2>5
<1>2. CASE rejected' = rejected
  BY <1>1, <1>2
<1> QED  BY <1>1, <1>2, EndStays

(* What was stranded stays so. *)
LEMMA StrandedStays ==
    ASSUME MailInv, rejected \in [Requests \X Moves -> Nat], [Next]_vars,
           NEW i \in Requests, Stranded(i)
    PROVE  Stranded(i)'
<1>1. <<i, "refund">> \in Requests \X Moves
  BY DEF Moves
<1>2. rejected[<<i, "refund">>] > 0 => rejected'[<<i, "refund">>] > 0
  BY <1>1, RejectedGrows
<1>3. schedulerClosed => schedulerClosed'
  <2>1. CASE UNCHANGED schedulerVars
    BY <2>1 DEF schedulerVars
  <2>2. CASE HandleDepositFailure
    BY <2>2 DEF HandleDepositFailure, ScheduleOnce, schedulerVars
  <2>3. ASSUME NEW j \in Requests, RetryFires(j)
        PROVE  schedulerClosed => schedulerClosed'
    BY <2>3 DEF RetryFires, OnceFires, CallbackRuns
  <2> QED  BY <2>1, <2>2, <2>3, TimersStay, OthersTimers
<1> QED  BY <1>2, <1>3 DEF Stranded

LEMMA NextStepsIs ==
    ASSUME NEW i, NEW q, NEW h \in Messages \cup {None}, q \in Seq(Messages)
    PROVE  Cardinality({k \in DOMAIN q : IsStep(q[k], i)}) + Truth(IsStep(h, i))
               = CountIn(q, Steps(i)) + Truth(h \in Steps(i))
<1>1. \A k \in DOMAIN q : q[k] \in Messages
  BY QueueElements
<1>2. {k \in DOMAIN q : IsStep(q[k], i)} = {k \in DOMAIN q : q[k] \in Steps(i)}
  BY <1>1 DEF Steps
<1>3. IsStep(h, i) <=> h \in Steps(i)
  BY NoneIsNoMessage DEF Steps, IsStep, TransferOps
<1> QED  BY <1>2, <1>3 DEF CountIn, Truth

(* The refund of whoever failed for the coordinator was rejected. *)
LEMMA RefundFails ==
    ASSUME MailInv, CallInv, rejected \in [Requests \X Moves -> Nat], [Next]_vars,
           NEW a \in Accounts, Fails(a), handling[Coordinator].op = "processRefund"
    PROVE  rejected'[<<handling[Coordinator].about, "refund">>] > 0
<1>1. /\ a \in Actors /\ Coordinator \in Callers /\ "processRefund" \notin Commands
      /\ Teller # Coordinator /\ Bank # Coordinator
  BY ActorNames DEF Callers, Commands, Formatted, Queries
<1>2. Current(a) \in Under(a) /\ Current(a).reply = Coordinator
  BY <1>1, CurrentMessage DEF Fails
<1>3. /\ About(a) = handling[Coordinator].about
      /\ <<Coordinator, "processRefund", Current(a).op>> \in Awaits
  BY <1>1, <1>2 DEF CallInv, Served, About
<1>4. Current(a).op = "refund"
  BY <1>1, <1>3 DEF Awaits
<1>5. HistoryRejects(a)
  BY <1>4 DEF Fails
<1>6. handling[a] # None
  BY <1>5, NoneIsNoMessage DEF HistoryRejects, HistoryOps, Moves
<1> QED  BY <1>3, <1>4, <1>5, <1>6, RejectedGrows DEF Current

-----------------------------------------------------------------------------
(* The flow of each transfer *)

StepsOf(i) == StepsIn(i, queue[Coordinator], handling[Coordinator], timeouts)

LEMMA StepsAre ==
    ASSUME NEW i
    PROVE  /\ MailInv => NextSteps(i) = StepsOf(i)
           /\ MailInv' => NextSteps(i)' = StepsOf(i)'
<1>1. Coordinator \in Actors /\ Actors' = Actors /\ Messages' = Messages
  BY ActorNames DEF Callers, Actors, Messages
<1>2. ASSUME MailInv
      PROVE  NextSteps(i) = StepsOf(i)
  <2>1. /\ queue[Coordinator] \in Seq(Messages)
        /\ handling[Coordinator] \in Messages \cup {None}
    BY <1>1, <1>2 DEF MailInv
  <2> QED  BY <2>1, NextStepsIs DEF NextSteps, StepsOf, StepsIn
<1>3. ASSUME MailInv'
      PROVE  NextSteps(i)' = StepsOf(i)'
  <2>1. /\ queue'[Coordinator] \in Seq(Messages)
        /\ handling'[Coordinator] \in Messages \cup {None}
    BY <1>1, <1>3 DEF MailInv
  <2>2. PICK q \in Seq(Messages), h \in Messages \cup {None} :
            q = queue'[Coordinator] /\ h = handling'[Coordinator]
    BY <2>1
  <2>3. NextSteps(i)' = Cardinality({k \in DOMAIN q : IsStep(q[k], i)})
                        + Truth(IsStep(h, i)) + Truth(i \in timeouts')
    BY <2>2 DEF NextSteps, IsStep, Truth
  <2>4. StepsOf(i)' = CountIn(q, Steps(i)) + Truth(h \in Steps(i)) + Truth(i \in timeouts')
    BY <2>2 DEF StepsOf, StepsIn, CountIn, Truth, Steps, IsStep, Messages
  <2> QED  BY <2>3, <2>4, NextStepsIs
<1> QED  BY <1>2, <1>3

LEMMA GoingKeeps ==
    ASSUME MailInv, MailInv', rejected \in [Requests \X Moves -> Nat], [Next]_vars,
           NEW i \in Requests, Going(i),
           \/ i \notin pending' \/ StepsOf(i)' = 1 \/ Stranded(i)'
           \/ Coordinator \in closed'
           \/ i \in pending /\ (StepsOf(i)' = StepsOf(i))
    PROVE  Going(i)'
<1>1. closed \subseteq closed' /\ (Stranded(i) => Stranded(i)')
  BY EndStays, StrandedStays
<1>2. NextSteps(i) = StepsOf(i) /\ NextSteps(i)' = StepsOf(i)'
  BY StepsAre
<1> QED  BY <1>1, <1>2 DEF Going

(* What a step leaves to show. *)
Flowed(i) ==
    /\ FlowOf(i)'
    /\ \/ i \notin pending' \/ StepsOf(i)' = 1 \/ Stranded(i)'
       \/ Coordinator \in closed'
       \/ i \in pending /\ (StepsOf(i)' = StepsOf(i))

Withdraws(i) ==
    /\ Withdrawn /\ About(Coordinator) = i
    /\ SendsItself(Coordinator, <<"recordPendingTransfer", "attemptDeposit">>, "value")

LEMMA FlowPrimed ==
    ASSUME NEW i
    PROVE  /\ FlowOf(i)' <=> Flow(i, queue'[Coordinator], handling'[Coordinator],
                                  status'[i], pending', timeouts')
           /\ StepsOf(i)' = StepsIn(i, queue'[Coordinator], handling'[Coordinator],
                                    timeouts')
           /\ Past(i)' <=> \/ status'[i] # "none"
                           \/ CountIn(queue'[Coordinator], Records(i)) > 0
<1>1. Steps(i)' = Steps(i) /\ Records(i)' = Records(i)
  BY DEF Steps, Records, IsStep
<1> QED  BY <1>1 DEF FlowOf, StepsOf, Flow, StepsIn, Past, Before, CountIn, Truth

LEMMA IdleFlow ==
    ASSUME MailInv, [Next]_vars, Idle, NEW i \in Requests, FlowOf(i),
           i \in timeouts' => i \in timeouts,
           ~schedulerClosed' => (i \in timeouts => i \in timeouts')
    PROVE  Flowed(i) /\ (Past(i)' => Past(i))
<1> DEFINE q == queue[Coordinator]
           h == handling[Coordinator]
<1>1. /\ q \in Seq(Messages) /\ h \in Messages \cup {None}
      /\ Flow(i, q, h, status[i], pending, timeouts)
  BY ActorNames DEF Callers, MailInv, FlowOf
<1>2. PICK s, T, P, v : /\ s = queue'[Coordinator] /\ T = timeouts'
                        /\ P = pending' /\ v = status'[i]
  OBVIOUS
<1>3. handling'[Coordinator] = h /\ P = pending /\ v = status[i]
  BY <1>2 DEF Idle, IdleStep
<1>4. s = q \/ \E m \in Foreign(i) : s = Append(q, m)
  BY <1>2 DEF Idle, IdleStep, Foreign, Steps, Records, IsStep, SelfSent
<1> HIDE DEF q, h
<1>5. /\ Flow(i, s, h, v, P, timeouts) /\ s \in Seq(Messages)
      /\ StepsIn(i, s, h, timeouts) = StepsIn(i, q, h, timeouts)
      /\ CountIn(s, Records(i)) = CountIn(q, Records(i))
  <2>1. CASE s = q
    BY <1>1, <1>3, <2>1
  <2>2. ASSUME NEW m \in Foreign(i), s = Append(q, m)
        PROVE  <1>5!:
    BY <1>1, <1>3, <2>2, FlowForeign, QueueEnds DEF Foreign
  <2> QED  BY <1>4, <2>1, <2>2
<1>6. Flow(i, s, h, v, P, T)
  BY <1>2, <1>5, FlowCleared
<1>7. schedulerClosed' \/ StepsIn(i, s, h, T) = StepsIn(i, q, h, timeouts)
  <2>1. schedulerClosed' \/ Truth(i \in T) = Truth(i \in timeouts)
    BY <1>2 DEF Truth
  <2> QED  BY <1>5, <2>1 DEF StepsIn
<1>8. FlowOf(i)' /\ (schedulerClosed' \/ StepsOf(i)' = StepsOf(i))
  BY <1>2, <1>3, <1>6, <1>7, FlowPrimed DEF StepsOf, q, h
<1>9. Past(i)' => Past(i)
  BY <1>2, <1>3, <1>5, FlowPrimed DEF Past, q
<1> QED  BY <1>2, <1>3, <1>8, <1>9 DEF Flowed, Stranded

LEMMA RetryFlow ==
    ASSUME MailInv, MoneyInv, NEW j \in Requests, RetryFires(j), NEW i \in Requests,
           FlowOf(i)
    PROVE  Flowed(i) /\ (Past(i)' => Past(i))
<1> DEFINE q == queue[Coordinator]
           h == handling[Coordinator]
<1>1. /\ q \in Seq(Messages) /\ h \in Messages \cup {None} /\ Coordinator \in Actors
      /\ Flow(i, q, h, status[i], pending, timeouts)
      /\ own[Coordinator] \in Requests \cup {0}
  BY ActorNames DEF Callers, MailInv, FlowOf
<1>2. /\ UNCHANGED <<handling, status, pending, closed>>
      /\ j \in timeouts /\ timeouts' = timeouts \ {j}
  BY DEF RetryFires, transferVars, stageVars, OnceFires, CancelledBy
<1>3. PICK s, T : s = queue'[Coordinator] /\ T = timeouts'
  OBVIOUS
<1>4. PICK x \in Messages :
          /\ x.op = "attemptDeposit" /\ x.about = j
          /\ x = Message(Coordinator, "attemptDeposit", j, Nobody, own[Coordinator])
  BY <1>1, NewMessage, SelfSentOps, BankCallOps
<1>5. \/ Coordinator \in closed /\ s = q
      \/ Coordinator \notin closed /\ s = Append(q, x)
  BY <1>1, <1>3, <1>4 DEF RetryFires, MailInv
<1> HIDE DEF q, h
<1>6. /\ i = j => x \in Steps(i) /\ x \notin Records(i)
      /\ i # j => x \in Messages \ (Steps(i) \cup Records(i))
  BY <1>4 DEF Steps, Records, IsStep, TransferOps
<1>7. CASE s = q /\ Coordinator \in closed
  <2>1. Flow(i, s, h, status[i], pending, T)
    BY <1>1, <1>2, <1>3, <1>7, FlowCleared
  <2> QED  BY <1>2, <1>3, <1>7, <2>1, FlowPrimed DEF Flowed, q, h, Past
<1>8. CASE s = Append(q, x) /\ i = j
  <2>1. /\ Flow(i, s, h, status[i], pending, T)
        /\ StepsIn(i, s, h, T) = StepsIn(i, q, h, timeouts)
        /\ CountIn(s, Records(i)) = CountIn(q, Records(i))
    BY <1>1, <1>2, <1>3, <1>6, <1>8, FlowFires
  <2> QED  BY <1>2, <1>3, <2>1, FlowPrimed DEF Flowed, StepsOf, q, h, Past
<1>9. CASE s = Append(q, x) /\ i # j
  <2>1. /\ Flow(i, s, h, status[i], pending, timeouts)
        /\ StepsIn(i, s, h, timeouts) = StepsIn(i, q, h, timeouts)
        /\ CountIn(s, Records(i)) = CountIn(q, Records(i))
    BY <1>1, <1>6, <1>9, FlowForeign
  <2>2. i \in T <=> i \in timeouts
    BY <1>2, <1>3, <1>9
  <2>3. Flow(i, s, h, status[i], pending, T) /\ StepsIn(i, s, h, T) = StepsIn(i, s, h, timeouts)
    BY <2>1, <2>2, FlowSame
  <2> QED  BY <1>2, <1>3, <2>1, <2>3, FlowPrimed DEF Flowed, StepsOf, q, h, Past
<1> QED  BY <1>5, <1>7, <1>8, <1>9

(* The coordinator is at a message of something else. *)
Apart(i) ==
    /\ Turns(Coordinator) /\ Current(Coordinator) \notin Steps(i) \cup Records(i)
    /\ handling'[Coordinator] \in {Current(Coordinator), None}
    /\ Adds(i, Rest(Coordinator)[Coordinator], queue'[Coordinator])
    /\ status'[i] = status[i]
    /\ i \in pending' <=> i \in pending
    /\ i \in timeouts' <=> i \in timeouts

LEMMA ApartFlow ==
    ASSUME MailInv, NEW i \in Requests, FlowOf(i), Apart(i)
    PROVE  Flowed(i) /\ (Past(i)' => Past(i))
<1> DEFINE q == queue[Coordinator]
           h == handling[Coordinator]
<1>1. PICK s, k, T, P, v :
          /\ s = queue'[Coordinator] /\ k = handling'[Coordinator]
          /\ T = timeouts' /\ P = pending' /\ v = status'[i]
  OBVIOUS
<1>2. /\ q \in Seq(Messages) /\ h \in Messages \cup {None} /\ (h = None => q # <<>>)
      /\ Flow(i, q, h, v, pending, timeouts)
      /\ At(q, h) \notin Steps(i) \cup Records(i)
      /\ k \in {At(q, h), None} /\ Adds(i, Behind(q, h), s)
      /\ i \in P <=> i \in pending
      /\ i \in T <=> i \in timeouts
  BY <1>1, CoordinatorIs DEF Apart, FlowOf
<1> HIDE DEF q, h
<1>3. /\ Flow(i, s, k, v, P, T)
      /\ StepsIn(i, s, k, T) = StepsIn(i, q, h, timeouts)
      /\ CountIn(s, Records(i)) = CountIn(q, Records(i))
  BY <1>2, FlowApart
<1>4. v = status[i]
  BY <1>1 DEF Apart
<1> QED  BY <1>1, <1>2, <1>3, <1>4, FlowPrimed DEF Flowed, StepsOf, Past, q, h

LEMMA CoordinatorApart ==
    ASSUME MailInv, MoneyInv, pending \subseteq Requests,
           status \in [Requests -> TransferStatus \cup {"none"}],
           CoordinatorSteps \/ Stops(Coordinator), NEW i \in Requests
    PROVE  \/ Apart(i)
           \/ /\ CoordinatorSteps /\ Turns(Coordinator)
              /\ About(Coordinator) = i /\ Current(Coordinator).op \in SelfSent
           \/ Withdraws(i)
<1> DEFINE c == Current(Coordinator)
           r == Rest(Coordinator)[Coordinator]
           Mine == /\ CoordinatorSteps /\ Turns(Coordinator)
                   /\ About(Coordinator) = i /\ c.op \in SelfSent
<1> SUFFICES ASSUME ~Mine  PROVE Apart(i) \/ Withdraws(i)
  OBVIOUS
<1>1. /\ \A op : Begins(Coordinator, op) => Turns(Coordinator) /\ c.op = op
      /\ \A op : op # "none" /\ Resumes(Coordinator, {op}) =>
             Turns(Coordinator) /\ c.op = op
  BY BeginsTurns, ResumesTurns
<1>2. /\ "stop" \notin SelfSent /\ "initiateTransfer" \notin SelfSent
      /\ "registerAccount" \notin SelfSent /\ "getPendingTransfers" \notin SelfSent
  BY DEF SelfSent, TransferOps
<1>3. /\ \A m : m \in Steps(i) \cup Records(i) => m.op \in SelfSent /\ m.about = i
      /\ \A m \in Messages : m.about # i => m \in Foreign(i)
  BY DEF Steps, Records, IsStep, SelfSent, Foreign
<1>4. ASSUME Turns(Coordinator), c.op \notin SelfSent \/ About(Coordinator) # i
      PROVE  /\ c \notin Steps(i) \cup Records(i)
             /\ Throws(Coordinator) \/ (\E result : Returns(Coordinator, result)) =>
                    handling'[Coordinator] = None /\ Adds(i, r, queue'[Coordinator])
             /\ \A op : \A b \in Nat : Calls(Coordinator, b, op) =>
                    handling'[Coordinator] = c /\ Adds(i, r, queue'[Coordinator])
  BY <1>3, <1>4, CoordinatorEnds DEF Adds, About
<1>5. ASSUME Turns(Coordinator), c.op \in SelfSent \cup {"initiateTransfer"}
      PROVE  /\ About(Coordinator) \in Requests
             /\ TransferOf(About(Coordinator)).from \in Nat
             /\ TransferOf(About(Coordinator)).to \in Nat
  <2>1. Proper(Coordinator, c) /\ c.op # "stop"
    BY <1>2, <1>5, CoordinatorIs
  <2> QED  BY <2>1, CommandTypes DEF Proper, About
<1>6. ASSUME Turns(Coordinator), c.op \in SelfSent \cup {"initiateTransfer"},
             About(Coordinator) # i, NEW op1 \in SelfSent, NEW op2 \in SelfSent, NEW result,
             \/ SendsItself(Coordinator, <<op1>>, result)
             \/ SendsItself(Coordinator, <<op1, op2>>, result)
      PROVE  handling'[Coordinator] = None /\ Adds(i, r, queue'[Coordinator])
  <2>1. PICK x, y \in Messages :
              /\ x.about = About(Coordinator) /\ y.about = About(Coordinator)
              /\ SendsItself(Coordinator, <<op1>>, result) =>
                     handling'[Coordinator] = None /\ queue'[Coordinator] = Append(r, x)
              /\ SendsItself(Coordinator, <<op1, op2>>, result) =>
                     /\ handling'[Coordinator] = None
                     /\ queue'[Coordinator] = Append(Append(r, x), y)
    BY <1>5, <1>6, CoordinatorSelf
  <2>2. x \in Foreign(i) /\ y \in Foreign(i)
    BY <1>3, <1>6, <2>1
  <2> QED  BY <1>6, <2>1, <2>2 DEF Adds
<1>7. ASSUME OnlyMessages \/ UNCHANGED <<status, pending, timeouts>>
      PROVE  /\ status'[i] = status[i]
             /\ i \in pending' <=> i \in pending
             /\ i \in timeouts' <=> i \in timeouts
  BY <1>7 DEF OnlyMessages, transferVars, schedulerVars
<1> HIDE DEF c, r
<1>8. CASE RegisterAccount \/ GetPendingTransfers \/ Stops(Coordinator)
  <2>1. Turns(Coordinator) /\ c.op \notin SelfSent
    BY <1>1, <1>2, <1>8 DEF RegisterAccount, GetPendingTransfers, Stops
  <2>2. Returns(Coordinator, "value") /\ UNCHANGED <<status, pending, timeouts>>
    BY <1>8 DEF RegisterAccount, GetPendingTransfers, Stops, OnlyMessages,
       transferVars, schedulerVars
  <2> QED  BY <1>4, <1>7, <2>1, <2>2 DEF Apart, c, r
<1>9. CASE InitiateTransfer
  <2>1. Turns(Coordinator) /\ c.op = "initiateTransfer"
    BY <1>1, <1>9 DEF InitiateTransfer
  <2> QED  BY <1>2, <1>4, <1>5, <1>7, <1>9, <2>1 DEF InitiateTransfer, Apart, c, r
<1>10. CASE Withdrawn
  <2>1. Turns(Coordinator) /\ c.op = "initiateTransfer"
    BY <1>1, <1>10 DEF Withdrawn
  <2>2. CASE Throws(Coordinator)
    BY <1>2, <1>4, <1>7, <1>10, <2>1, <2>2 DEF Withdrawn, Apart, c, r
  <2>3. CASE SendsItself(Coordinator, <<"recordPendingTransfer", "attemptDeposit">>, "value")
    <3>1. CASE About(Coordinator) = i
      BY <1>10, <2>3, <3>1 DEF Withdraws
    <3>2. CASE About(Coordinator) # i
      <4>1. handling'[Coordinator] = None /\ Adds(i, r, queue'[Coordinator])
        BY <1>6, <2>1, <2>3, <3>2, SelfSentOps
      <4> QED  BY <1>2, <1>4, <1>7, <1>10, <2>1, <4>1 DEF Withdrawn, Apart, c, r
    <3> QED  BY <3>1, <3>2
  <2> QED  BY <1>10, <2>2, <2>3 DEF Withdrawn
<1>11. ASSUME Turns(Coordinator), c.op \in SelfSent, CoordinatorSteps
       PROVE  About(Coordinator) # i /\ i # About(Coordinator)
  BY <1>11 DEF c
<1>12. CASE RecordPendingTransfer
  <2>1. Turns(Coordinator) /\ c.op \in SelfSent /\ About(Coordinator) # i
    BY <1>1, <1>11, <1>12, SelfSentOps DEF RecordPendingTransfer, CoordinatorSteps
  <2>2. /\ status'[i] = status[i]
        /\ i \in pending' <=> i \in pending
        /\ i \in timeouts' <=> i \in timeouts
        /\ Returns(Coordinator, "value")
    BY <1>12, <2>1 DEF RecordPendingTransfer, schedulerVars
  <2> QED  BY <1>4, <2>1, <2>2 DEF Apart, c, r
<1>13. CASE AttemptDeposit \/ ProcessRefund
  <2>1. Turns(Coordinator) /\ c.op \in SelfSent /\ About(Coordinator) # i
    BY <1>1, <1>11, <1>13, SelfSentOps DEF AttemptDeposit, ProcessRefund, CoordinatorSteps
  <2> QED  BY <1>4, <1>5, <1>7, <1>13, <2>1 DEF AttemptDeposit, ProcessRefund, Apart, c, r
<1>14. CASE Deposited
  <2>1. Turns(Coordinator) /\ c.op \in SelfSent /\ About(Coordinator) # i
    BY <1>1, <1>11, <1>14, SelfSentOps DEF Deposited, CoordinatorSteps
  <2>2. \/ SendsItself(Coordinator, <<"handleDepositFailure">>, "value")
        \/ SendsItself(Coordinator, <<"completeTransfer">>, "value")
    BY <1>14 DEF Deposited
  <2>3. handling'[Coordinator] = None /\ Adds(i, r, queue'[Coordinator])
    BY <1>6, <2>1, <2>2, SelfSentOps
  <2> QED  BY <1>4, <1>7, <1>14, <2>1, <2>3 DEF Deposited, Apart, c, r
<1>15. CASE HandleDepositFailure
  <2>1. Turns(Coordinator) /\ c.op \in SelfSent /\ About(Coordinator) # i
    BY <1>1, <1>11, <1>15, SelfSentOps DEF HandleDepositFailure, CoordinatorSteps
  <2>2. /\ status'[i] = status[i] /\ pending' = pending
        /\ i \in timeouts' <=> i \in timeouts
    BY <1>15, <2>1 DEF HandleDepositFailure, ScheduleOnce, schedulerVars
  <2>3. \/ SendsItself(Coordinator, <<"processRefund">>, "value")
        \/ Returns(Coordinator, "value") \/ Throws(Coordinator)
    BY <1>15 DEF HandleDepositFailure
  <2>4. handling'[Coordinator] = None /\ Adds(i, r, queue'[Coordinator])
    BY <1>4, <1>6, <2>1, <2>3, SelfSentOps
  <2> QED  BY <1>4, <2>1, <2>2, <2>4 DEF Apart, c, r
<1>16. CASE Refunded
  <2>1. Turns(Coordinator) /\ c.op \in SelfSent /\ About(Coordinator) # i
    BY <1>1, <1>11, <1>16, SelfSentOps DEF Refunded, CoordinatorSteps
  <2>2. status'[i] = status[i] /\ UNCHANGED <<pending, timeouts>>
    BY <1>16, <2>1 DEF Refunded, schedulerVars
  <2>3. \/ SendsItself(Coordinator, <<"completeTransfer">>, "value")
        \/ Throws(Coordinator)
    BY <1>16 DEF Refunded
  <2>4. handling'[Coordinator] = None /\ Adds(i, r, queue'[Coordinator])
    BY <1>4, <1>6, <2>1, <2>3, SelfSentOps
  <2> QED  BY <1>4, <2>1, <2>2, <2>4 DEF Apart, c, r
<1>17. CASE CompleteTransfer
  <2>1. Turns(Coordinator) /\ c.op \in SelfSent /\ About(Coordinator) # i
    BY <1>1, <1>11, <1>17, SelfSentOps DEF CompleteTransfer, CoordinatorSteps
  <2>2. /\ status'[i] = status[i]
        /\ i \in pending' <=> i \in pending
        /\ i \in timeouts' <=> i \in timeouts
        /\ Returns(Coordinator, "value")
    BY <1>17, <2>1 DEF CompleteTransfer, schedulerVars
  <2> QED  BY <1>4, <2>1, <2>2 DEF Apart, c, r
<1> QED
  BY <1>8, <1>9, <1>10, <1>12, <1>13, <1>14, <1>15, <1>16, <1>17 DEF CoordinatorSteps

(* The coordinator is at the record or the step of transfer i. *)
LEMMA StepFlow ==
    ASSUME MailInv, MoneyInv, FlowInv, [Next]_vars, CoordinatorSteps, NEW i \in Requests,
           Turns(Coordinator), About(Coordinator) = i, Current(Coordinator).op \in SelfSent
    PROVE  Flowed(i) /\ Past(i)
<1> DEFINE c == Current(Coordinator)
           r == Rest(Coordinator)[Coordinator]
           q == queue[Coordinator]
           h == handling[Coordinator]
<1>1. /\ \A op : Begins(Coordinator, op) => c.op = op
      /\ \A op : op # "none" /\ Resumes(Coordinator, {op}) => c.op = op
  BY BeginsTurns, ResumesTurns
<1>2. /\ "initiateTransfer" \notin SelfSent /\ "recordPendingTransfer" \notin TransferOps
      /\ "registerAccount" \notin SelfSent /\ "getPendingTransfers" \notin SelfSent
      /\ {"attemptDeposit", "handleDepositFailure", "processRefund",
          "completeTransfer"} \subseteq TransferOps
  BY DEF SelfSent, TransferOps
<1>3. /\ q \in Seq(Messages) /\ h \in Messages \cup {None} /\ (h = None => q # <<>>)
      /\ c = At(q, h) /\ r = Behind(q, h) /\ c \in Messages /\ c.about = i
      /\ Flow(i, q, h, status[i], pending, timeouts) /\ r \in Seq(Messages)
      /\ TransferOf(i).from \in Nat /\ TransferOf(i).to \in Nat
  <2>1. Proper(Coordinator, c) /\ c.op # "stop"
    BY CoordinatorIs DEF SelfSent, TransferOps
  <2> QED  BY <2>1, CoordinatorIs, CommandTypes DEF FlowInv, FlowOf, Proper, About
<1>4. /\ Throws(Coordinator) \/ (\E result : Returns(Coordinator, result)) =>
             handling'[Coordinator] = None /\ queue'[Coordinator] = r
      /\ \A op : \A b \in Nat : Calls(Coordinator, b, op) =>
             handling'[Coordinator] = c /\ queue'[Coordinator] = r
  BY CoordinatorEnds
<1>5. ASSUME NEW op \in TransferOps, NEW result, SendsItself(Coordinator, <<op>>, result)
      PROVE  /\ handling'[Coordinator] = None
             /\ \E x \in Messages : x \in Steps(i) /\ queue'[Coordinator] = Append(r, x)
  <2>1. op \in SelfSent
    BY DEF SelfSent
  <2>2. PICK x \in Messages : /\ x.op = op /\ x.about = i
                              /\ handling'[Coordinator] = None
                              /\ queue'[Coordinator] = Append(r, x)
    BY <1>5, <2>1, CoordinatorSelf
  <2> QED  BY <2>2 DEF Steps, IsStep
<1>6. PICK s, k, T, P, v :
          /\ s = queue'[Coordinator] /\ k = handling'[Coordinator]
          /\ T = timeouts' /\ P = pending' /\ v = status'[i]
  OBVIOUS
<1> HIDE DEF c, r, q, h
<1>7. CASE c.op = "recordPendingTransfer"
  <2>1. c \in Records(i)
    BY <1>3, <1>7 DEF Records
  <2>2. RecordPendingTransfer
    BY <1>1, <1>2, <1>7
       DEF CoordinatorSteps, RegisterAccount, InitiateTransfer, Withdrawn, AttemptDeposit,
           Deposited, HandleDepositFailure, ProcessRefund, Refunded, CompleteTransfer,
           GetPendingTransfers
  <2>3. /\ i \in P /\ v = "withdrawn" /\ v # "none" /\ T = timeouts /\ k = None /\ s = r
    BY <1>4, <1>6, <2>2 DEF RecordPendingTransfer, FlowInv, schedulerVars
  <2>4. Flow(i, r, None, v, P, T) /\ StepsIn(i, r, None, T) = 1
    BY <1>3, <2>1, <2>3, FlowEntered
  <2>5. CountIn(q, Records(i)) > 0
    <3>1. /\ CountIn(r, Records(i)) + Truth(c \in Records(i)) = CountIn(q, Records(i))
          /\ CountIn(r, Records(i)) \in Nat
      BY <1>3, FlowBehind, StepsTyped
    <3> QED  BY <2>1, <3>1 DEF Truth
  <2> QED  BY <1>6, <2>3, <2>4, <2>5, FlowPrimed DEF Flowed, Past, q
<1>8. CASE c.op \in TransferOps
  <2>1. c \in Steps(i)
    BY <1>3, <1>8 DEF Steps, IsStep
  <2>2. /\ i \in pending /\ status[i] # "none" /\ i \notin timeouts
        /\ CountIn(r, Steps(i)) = 0 /\ CountIn(r, Records(i)) = 0
        /\ Flow(i, r, c, status[i], pending, timeouts)
        /\ StepsIn(i, r, c, timeouts) = 1
    BY <1>3, <2>1, FlowAtStep
  <2>3. Before(r, Records(i), Steps(i))
    BY <1>3, FlowBehind
  <2>4. Past(i)
    BY <2>2 DEF Past
  <2>5. ASSUME k = None, v # "none", i \notin T \/ (i \in P /\ s = r),
               \/ s = r /\ (i \notin P \/ i \in T \/ Stranded(i)')
               \/ i \in P /\ \E x \in Messages : x \in Steps(i) /\ s = Append(r, x)
        PROVE  Flowed(i)
    <3>1. /\ Flow(i, r, None, v, P, timeouts)
          /\ \A x \in Messages : x \in Steps(i) /\ i \in P =>
                /\ Flow(i, Append(r, x), None, v, P, timeouts)
                /\ StepsIn(i, Append(r, x), None, timeouts) = 1
          /\ \A U : i \in P /\ i \in U =>
                Flow(i, r, None, v, P, U) /\ StepsIn(i, r, None, U) = 1
      BY <1>3, <2>2, <2>3, <2>5, FlowNext
    <3>2. CASE i \in T
      BY <1>6, <2>5, <3>1, <3>2, FlowPrimed DEF Flowed
    <3>3. CASE i \notin T
      <4>1. \A x, U : Flow(i, x, None, v, P, timeouts) =>
                /\ Flow(i, x, None, v, P, T)
                /\ StepsIn(i, x, None, T) = StepsIn(i, x, None, timeouts)
        BY <2>2, <3>3, FlowSame
      <4>2. /\ Flow(i, s, None, v, P, T)
            /\ s # r => StepsIn(i, s, None, T) = 1
        BY <2>5, <3>1, <4>1
      <4> QED  BY <1>6, <2>5, <3>1, <3>3, <4>1, <4>2, FlowPrimed DEF Flowed
    <3> QED  BY <3>2, <3>3
  <2>6. CASE AttemptDeposit \/ ProcessRefund
    <3>1. OnlyMessages /\ k = c /\ s = r
      BY <1>3, <1>4, <1>6, <2>2, <2>6 DEF AttemptDeposit, ProcessRefund
    <3>2. P = pending /\ v = status[i] /\ T = timeouts
      BY <1>6, <3>1 DEF OnlyMessages, transferVars, schedulerVars
    <3> QED  BY <1>6, <2>2, <2>4, <3>1, <3>2, FlowPrimed DEF Flowed
  <2>7. CASE Deposited
    <3>1. \/ SendsItself(Coordinator, <<"handleDepositFailure">>, "value")
          \/ SendsItself(Coordinator, <<"completeTransfer">>, "value")
      BY <2>7 DEF Deposited
    <3>2. k = None /\ \E x \in Messages : x \in Steps(i) /\ s = Append(r, x)
      BY <1>2, <1>5, <1>6, <3>1
    <3>3. P = pending /\ v = status[i] /\ T = timeouts
      BY <1>6, <2>7 DEF Deposited, OnlyMessages, transferVars, schedulerVars
    <3> QED  BY <2>2, <2>4, <2>5, <3>2, <3>3
  <2>8. CASE HandleDepositFailure
    <3>1. P = pending /\ v # "none"
      BY <1>6, <2>2, <2>8 DEF HandleDepositFailure, FlowInv
    <3>2. CASE SendsItself(Coordinator, <<"processRefund">>, "value") /\ UNCHANGED schedulerVars
      BY <1>2, <1>5, <1>6, <2>2, <2>4, <2>5, <3>1, <3>2 DEF schedulerVars
    <3>3. CASE schedulerClosed /\ Throws(Coordinator) /\ UNCHANGED schedulerVars
      <4>1. Stranded(i)' /\ T = timeouts /\ k = None /\ s = r
        BY <1>4, <1>6, <3>3 DEF Stranded, schedulerVars
      <4> QED  BY <2>2, <2>4, <2>5, <3>1, <4>1
    <3>4. CASE ScheduleOnce(i) /\ Returns(Coordinator, "value")
      <4>1. i \in T /\ k = None /\ s = r
        BY <1>4, <1>6, <3>4 DEF ScheduleOnce
      <4> QED  BY <2>2, <2>4, <2>5, <3>1, <4>1
    <3> QED  BY <2>2, <2>8, <3>2, <3>3, <3>4 DEF HandleDepositFailure
  <2>9. CASE Refunded
    <3>1. P = pending /\ T = timeouts /\ v # "none"
      BY <1>6, <2>2, <2>9 DEF Refunded, schedulerVars, FlowInv
    <3>2. CASE SendsItself(Coordinator, <<"completeTransfer">>, "value")
      BY <1>2, <1>5, <1>6, <2>2, <2>4, <2>5, <3>1, <3>2
    <3>3. CASE answer[Coordinator] = "error" /\ Throws(Coordinator)
      <4>1. handling[Coordinator].op = "processRefund" /\ handling[Coordinator].about = i
        BY <1>3, <2>9, ResumesTurns DEF Refunded, Resumes, c
      <4>2. rejected[<<i, "refund">>] > 0
        BY <3>3, <4>1 DEF FlowInv
      <4>3. Stranded(i)'
        BY <4>2, StrandedStays DEF Stranded, FlowInv
      <4> QED  BY <1>4, <1>6, <2>2, <2>4, <2>5, <3>1, <3>3, <4>3
    <3> QED  BY <2>9, <3>2, <3>3 DEF Refunded
  <2>10. CASE CompleteTransfer
    <3>1. i \notin P /\ T = timeouts /\ v # "none" /\ k = None /\ s = r
      BY <1>4, <1>6, <2>2, <2>10 DEF CompleteTransfer, schedulerVars, FlowInv
    <3> QED  BY <2>2, <2>4, <2>5, <3>1
  <2> QED
    BY <1>1, <1>2, <1>8, <2>6, <2>7, <2>8, <2>9, <2>10
       DEF CoordinatorSteps, RegisterAccount, InitiateTransfer, Withdrawn,
           RecordPendingTransfer, GetPendingTransfers, SelfSent
<1> QED  BY <1>7, <1>8 DEF SelfSent, c

(* A transfer whose money has left its account enters the mailbox of the     *)
(* coordinator.                                                              *)
LEMMA WithdrawnAdds ==
    ASSUME MailInv, MoneyInv, NEW i \in Requests, Withdraws(i)
    PROVE  /\ Turns(Coordinator) /\ handling[Coordinator] # None
           /\ Current(Coordinator) = handling[Coordinator]
           /\ handling[Coordinator].op = "initiateTransfer"
           /\ \E x, y \in Messages :
                 /\ x.op = "recordPendingTransfer" /\ x.about = i
                 /\ y.op = "attemptDeposit" /\ y.about = i
                 /\ handling'[Coordinator] = None
                 /\ queue'[Coordinator] = Append(Append(queue[Coordinator], x), y)
<1>1. /\ Turns(Coordinator) /\ handling[Coordinator] # None
      /\ Current(Coordinator) = handling[Coordinator]
      /\ handling[Coordinator].op = "initiateTransfer"
  BY ResumesTurns DEF Withdraws, Withdrawn
<1>2. Rest(Coordinator)[Coordinator] = queue[Coordinator]
  BY <1>1, CoordinatorIs DEF Behind
<1>3. /\ About(Coordinator) = i
      /\ SendsItself(Coordinator, <<"recordPendingTransfer", "attemptDeposit">>, "value")
      /\ "recordPendingTransfer" \in SelfSent /\ "attemptDeposit" \in SelfSent
  BY SelfSentOps DEF Withdraws
<1>4. \E x, y \in Messages :
          /\ x.op = "recordPendingTransfer" /\ x.about = About(Coordinator)
          /\ y.op = "attemptDeposit" /\ y.about = About(Coordinator)
          /\ handling'[Coordinator] = None
          /\ queue'[Coordinator] = Append(Append(Rest(Coordinator)[Coordinator], x), y)
  <2>1. PICK op1 \in SelfSent, op2 \in SelfSent :
            op1 = "recordPendingTransfer" /\ op2 = "attemptDeposit"
    BY <1>3
  <2>2. PICK result : result = "value"
    OBVIOUS
  <2>3. SendsItself(Coordinator, <<op1, op2>>, result)
    BY <1>3, <2>1, <2>2
  <2>4. About(Coordinator) \in Requests
    BY <1>3
  <2>5. PICK x, y \in Messages :
            /\ x.op = op1 /\ x.about = About(Coordinator)
            /\ y.op = op2 /\ y.about = About(Coordinator)
            /\ SendsItself(Coordinator, <<op1>>, result) =>
                   /\ handling'[Coordinator] = None
                   /\ queue'[Coordinator] =
                          Append(Rest(Coordinator)[Coordinator], x)
            /\ SendsItself(Coordinator, <<op1, op2>>, result) =>
                   /\ handling'[Coordinator] = None
                   /\ queue'[Coordinator] =
                          Append(Append(Rest(Coordinator)[Coordinator], x), y)
    BY <1>1, <2>4, CoordinatorSelf
  <2> QED  BY <2>1, <2>3, <2>5
<1> QED  BY <1>1, <1>2, <1>3, <1>4

LEMMA WithdrawnFlow ==
    ASSUME MailInv, MoneyInv, FlowInv, NEW i \in Requests, Withdraws(i)
    PROVE  Flowed(i) /\ ~Past(i)
<1> DEFINE q == queue[Coordinator]
           h == handling[Coordinator]
<1>1. /\ Turns(Coordinator) /\ h # None /\ Current(Coordinator) = h
      /\ h.op = "initiateTransfer"
  BY WithdrawnAdds
<1>2. /\ q \in Seq(Messages) /\ h \in Messages /\ h.about = i /\ h \in Under(Coordinator)
      /\ Flow(i, q, h, status[i], pending, timeouts)
  BY <1>1, CoordinatorIs DEF Withdraws, About, FlowInv, FlowOf, Under
<1>3. ~Past(i)
  BY <1>1, <1>2 DEF FlowInv
<1>4. /\ status[i] = "none" /\ CountIn(q, Records(i)) = 0 /\ CountIn(q, Steps(i)) = 0
      /\ i \notin timeouts /\ i \notin pending /\ Before(q, Records(i), Steps(i))
  <2>1. /\ CountIn(q, Records(i)) \in Nat /\ StepsIn(i, q, h, timeouts) \in Nat
        /\ CountIn(q, Steps(i)) \in Nat
        /\ Truth(h \in Steps(i)) \in {0, 1} /\ Truth(i \in timeouts) \in {0, 1}
    BY <1>2, StepsTyped
  <2>2. status[i] = "none" /\ CountIn(q, Records(i)) = 0
    BY <1>3, <2>1 DEF Past
  <2>3. i \notin pending /\ StepsIn(i, q, h, timeouts) = 0
    BY <1>2, <2>1, <2>2 DEF Flow
  <2>4. CountIn(q, Steps(i)) = 0 /\ Truth(i \in timeouts) = 0
    BY <2>1, <2>3 DEF StepsIn
  <2> QED  BY <1>2, <2>2, <2>3, <2>4 DEF Flow, Truth
<1>5. UNCHANGED <<status, pending, timeouts>>
  BY DEF Withdraws, Withdrawn, OnlyMessages, transferVars, schedulerVars
<1>6. PICK x, y \in Messages :
          /\ x.op = "recordPendingTransfer" /\ x.about = i
          /\ y.op = "attemptDeposit" /\ y.about = i
          /\ handling'[Coordinator] = None
          /\ queue'[Coordinator] = Append(Append(q, x), y)
  BY WithdrawnAdds
<1>7. x \in Records(i) /\ y \in Steps(i)
  BY <1>6 DEF Records, Steps, IsStep, TransferOps
<1> HIDE DEF q, h
<1>8. Flow(i, Append(Append(q, x), y), None, "none", pending, timeouts)
  BY <1>2, <1>4, <1>7, FlowRecorded
<1> QED  BY <1>3, <1>4, <1>5, <1>6, <1>8, FlowPrimed DEF Flowed

(* Whatever happens, the flow of every transfer is kept, and a transfer      *)
(* enters it by the withdrawal only.                                         *)
LEMMA FlowKeeps ==
    ASSUME MailInv, MoneyInv, FlowInv, [Next]_vars, NEW i \in Requests
    PROVE  Flowed(i) /\ (Past(i)' => Past(i) \/ Withdraws(i))
<1>1. /\ FlowOf(i) /\ pending \subseteq Requests
      /\ status \in [Requests -> TransferStatus \cup {"none"}]
  BY DEF FlowInv
<1>2. CASE CoordinatorSteps \/ Stops(Coordinator)
  BY <1>1, <1>2, CoordinatorApart, ApartFlow, StepFlow, WithdrawnFlow
<1>3. ASSUME NEW j \in Requests, RetryFires(j)
      PROVE  Flowed(i) /\ (Past(i)' => Past(i))
  BY <1>1, <1>3, RetryFlow
<1>4. CASE Idle /\ ~CoordinatorSteps /\ ~(\E j \in Requests : RetryFires(j))
  <2>1. UNCHANGED schedulerVars \/ \E t \in Others : OthersSchedule(t)
    BY <1>4, TimersStay DEF CoordinatorSteps
  <2>2. /\ i \in timeouts' => i \in timeouts
        /\ ~schedulerClosed' => (i \in timeouts => i \in timeouts')
    BY <2>1, OthersTimers DEF schedulerVars
  <2> QED  BY <1>1, <1>4, <2>2, IdleFlow
<1> QED  BY <1>2, <1>3, <1>4, OthersIdle

(* The transfer that the coordinator has withdrawn is what bank and teller   *)
(* are at, and nobody has another message about it.                          *)
LEMMA WithdrawnBegun ==
    ASSUME Inv, NEW i \in Requests, Withdraws(i)
    PROVE  /\ Begun(i)
           /\ \A m \in ToSet(queue[Coordinator]) :
                  m.op = "initiateTransfer" => m.about # i
<1> DEFINE h == handling[Coordinator]
           b == handling[Bank]
           t == handling[Teller]
<1>1. /\ Teller \in Actors /\ Bank \in Actors /\ Coordinator \in Actors
      /\ Teller # Bank /\ Teller # Coordinator /\ Bank # Coordinator
      /\ Client \notin Callers /\ Nobody \notin Callers \cup {Client} /\ i # 0
      /\ MailInv /\ CallInv /\ \A n \in Accounts : n \notin Callers
  BY ActorNames DEF Callers, Names, Inv
<1>2. ASSUME NEW a \in Actors, handling[a] # None,
             NEW m \in ToSet(queue[a]), m.reply = handling[a].reply,
             m.reply \in Callers \cup {Client}
      PROVE  FALSE
  <2> DEFINE M == CallsOf(m.reply)
  <2>1. handling[a] \in Messages /\ m \in Messages /\ queue[a] \in Seq(Messages)
    BY <1>1, <1>2, UnderIs DEF MailInv
  <2>2. handling[a] \in M /\ m \in M
    BY <1>2, <2>1 DEF CallsOf
  <2>3. Load(a, M) <= 1
    BY <1>1, <1>2 DEF CallInv
  <2> HIDE DEF M
  <2>4. CountIn(queue[a], M) \in Nat /\ CountIn(queue[a], M) # 0
    BY <1>2, <2>1, <2>2, CountZero
  <2> QED  BY <2>2, <2>3, <2>4 DEF Load, Truth
<1>3. /\ h # None /\ h.op = "initiateTransfer" /\ h.about = i /\ h \in Under(Coordinator)
  BY <1>1, ResumesTurns, UnderIs DEF Withdraws, Withdrawn, About
<1>4. Proper(Coordinator, h) /\ Served(h)
  BY <1>1, <1>3 DEF MailInv, CallInv
<1>5. h.reply = Bank
  BY <1>1, <1>3, <1>4 DEF Proper, SelfSent, TransferOps, Callers
<1>6. b # None /\ b.about = i /\ <<Bank, b.op, "initiateTransfer">> \in Awaits
  BY <1>3, <1>4, <1>5 DEF Served, Callers
<1>7. b.op = "transfer"
  BY <1>1, <1>6 DEF Awaits, Commands, Formatted, Queries
<1>8. Proper(Bank, b) /\ Served(b)
  BY <1>1, <1>6, UnderIs DEF MailInv, CallInv
<1>9. b.reply = Teller
  BY <1>1, <1>7, <1>8 DEF Proper, Callers
<1>10. t # None /\ t.about = i /\ t.op # "stop"
  <2>1. t # None /\ t.about = i /\ <<Teller, t.op, "transfer">> \in Awaits
    BY <1>6, <1>7, <1>8, <1>9 DEF Served, Callers
  <2> QED  BY <1>1, <2>1 DEF Awaits, Commands, Formatted, Queries
<1>11. Proper(Teller, t) /\ t.reply = Client
  BY <1>1, <1>10, UnderIs DEF MailInv, Proper, Callers
<1> HIDE DEF h, b, t
<1>12. ASSUME NEW m \in ToSet(queue[Coordinator]), m.op = "initiateTransfer"
       PROVE  m.about # i
  <2>1. Proper(Coordinator, m)
    BY <1>1, UnderIs DEF MailInv
  <2>2. m.reply = Bank
    BY <1>1, <1>12, <2>1 DEF Proper, SelfSent, TransferOps, Callers
  <2> QED  BY <1>1, <1>2, <1>3, <1>5, <2>2 DEF h, Callers
<1>13. ASSUME NEW m \in ToSet(queue[Bank])
       PROVE  m.about # i
  <2>1. Proper(Bank, m)
    BY <1>1, UnderIs DEF MailInv
  <2>2. m.about = 0 \/ m.reply = Teller
    BY <1>1, <2>1 DEF Proper, Callers
  <2> QED  BY <1>1, <1>2, <1>6, <1>9, <2>2 DEF b, Callers
<1>14. ASSUME NEW m \in ToSet(queue[Teller])
       PROVE  m.about # i
  <2>1. Proper(Teller, m)
    BY <1>1, UnderIs DEF MailInv
  <2>2. m.about = 0 \/ m.reply = Client
    BY <1>1, <2>1 DEF Proper, Callers
  <2> QED  BY <1>1, <1>2, <1>10, <1>11, <2>2 DEF t
<1>15. outcome[i] # "unsent"
  <2>1. Sent(h.about)
    BY <1>1, <1>3 DEF Inv, RequestInv, h
  <2> QED  BY <1>1, <1>3, <2>1 DEF Sent
<1> QED  BY <1>12, <1>13, <1>14, <1>15 DEF Begun

LEMMA CoordinatorErrs ==
    ASSUME MailInv, CoordinatorSteps \/ Stops(Coordinator)
    PROVE  handling'[Coordinator] = None \/ answer'[Coordinator] # "error"
<1>1. Coordinator \in Actors
  BY ActorNames DEF Callers
<1>2. \A result : Ends(Coordinator, result) => handling'[Coordinator] = None
  BY <1>1 DEF Ends, MailInv
<1>3. \A b, op : Calls(Coordinator, b, op) => answer'[Coordinator] # "error"
  BY <1>1 DEF Calls, MailInv
<1> QED
  BY <1>2, <1>3 DEF CoordinatorSteps, Stops, RegisterAccount, InitiateTransfer,
     Withdrawn, RecordPendingTransfer, AttemptDeposit, Deposited, HandleDepositFailure,
     ProcessRefund, Refunded, CompleteTransfer, GetPendingTransfers, Throws, Returns,
     SendsItself

LEMMA TransfersTyped ==
    ASSUME MailInv, MoneyInv, [Next]_vars, pending \subseteq Requests,
           status \in [Requests -> TransferStatus \cup {"none"}]
    PROVE  /\ pending' \subseteq Requests
           /\ status' \in [Requests -> TransferStatus \cup {"none"}]
<1>1. CASE UNCHANGED <<pending, status>>
  BY <1>1
<1>2. CASE RecordPendingTransfer
  <2>1. /\ Turns(Coordinator) /\ Current(Coordinator).op = "recordPendingTransfer"
    BY <1>2, BeginsTurns DEF RecordPendingTransfer
  <2>2. About(Coordinator) \in Requests
    BY <2>1, CoordinatorIs DEF Proper, About
  <2> QED  BY <1>2, <2>2 DEF RecordPendingTransfer, TransferStatus
<1>3. CASE HandleDepositFailure \/ Refunded
  BY <1>3 DEF HandleDepositFailure, Refunded, TransferStatus
<1>4. CASE CompleteTransfer
  <2>1. pending' = pending \ {About(Coordinator)}
    BY <1>4 DEF CompleteTransfer
  <2>2. \E v : status' = [status EXCEPT ![About(Coordinator)] = v]
                /\ v \in {"completed", status[About(Coordinator)]}
    BY <1>4 DEF CompleteTransfer
  <2> QED  BY <2>1, <2>2 DEF TransferStatus
<1>5. CASE CoordinatorSteps
  BY <1>1, <1>2, <1>3, <1>4, <1>5 DEF CoordinatorSteps, RegisterAccount,
     InitiateTransfer, Withdrawn, AttemptDeposit, Deposited, ProcessRefund,
     GetPendingTransfers, OnlyMessages, transferVars
<1>6. CASE Stops(Coordinator) \/ \E i \in Requests : RetryFires(i)
  BY <1>1, <1>6 DEF Stops, RetryFires, transferVars
<1> QED  BY <1>1, <1>5, <1>6, OthersIdle DEF Idle

LEMMA FlowInvKeeps ==
    ASSUME Inv, FlowInv, [Next]_vars, Inv'
    PROVE  FlowInv'
<1>1. MailInv /\ MoneyInv /\ CallInv /\ MailInv' /\ Coordinator \in Actors
  BY ActorNames DEF Inv, Callers
<1>2. ASSUME NEW i \in Requests
      PROVE  FlowOf(i)' /\ Going(i)'
  <2>1. Flowed(i)
    BY <1>1, FlowKeeps
  <2> QED  BY <1>1, <2>1, GoingKeeps DEF Flowed, FlowInv
<1>3. ASSUME NEW i \in Requests, Past(i)'
      PROVE  /\ Begun(i)'
             /\ \A m \in Under(Coordinator)' : m.op = "initiateTransfer" => m.about # i
  <2>1. CASE Past(i)
    BY <2>1, BegunStays DEF FlowInv
  <2>2. CASE Withdraws(i)
    <3>1. /\ Begun(i)'
          /\ \A m \in Under(Coordinator)' :
                  m.op = "initiateTransfer" /\ m.about = i => m \in Under(Coordinator)
      BY <2>2, WithdrawnBegun, BegunStays
    <3>2. PICK x, y \in Messages :
              /\ x.op = "recordPendingTransfer" /\ y.op = "attemptDeposit"
              /\ handling'[Coordinator] = None
              /\ queue'[Coordinator] = Append(Append(queue[Coordinator], x), y)
      BY <1>1, <2>2, WithdrawnAdds
    <3>3. ToSet(queue'[Coordinator]) = ToSet(queue[Coordinator]) \cup {x, y}
      <4>1. queue[Coordinator] \in Seq(Messages)
        BY <1>1 DEF MailInv
      <4>2. PICK s : s = Append(queue[Coordinator], x)
        OBVIOUS
      <4>3. s \in Seq(Messages) /\ ToSet(s) = ToSet(queue[Coordinator]) \cup {x}
        BY <4>1, <4>2, QueueEnds
      <4>4. ToSet(Append(s, y)) = ToSet(s) \cup {y}
        BY <4>3, QueueEnds
      <4> QED  BY <3>2, <4>2, <4>3, <4>4
    <3>4. Under(Coordinator)' \subseteq ToSet(queue[Coordinator]) \cup {x, y}
      BY <3>2, <3>3 DEF Under
    <3> QED  BY <2>2, <3>1, <3>2, <3>4, WithdrawnBegun
  <2> QED  BY <1>1, <1>3, <2>1, <2>2, FlowKeeps
<1>4. pending' \subseteq Requests /\ status' \in [Requests -> TransferStatus \cup {"none"}]
  BY <1>1, TransfersTyped DEF FlowInv
<1>5. rejected' \in [Requests \X Moves -> Nat]
  BY <1>1, RejectedGrows DEF FlowInv
<1>6. ASSUME handling'[Coordinator].op = "processRefund", answer'[Coordinator] = "error"
      PROVE  rejected'[<<handling'[Coordinator].about, "refund">>] > 0
  <2>1. handling'[Coordinator] # None
    BY <1>6, NoneIsNoMessage
  <2>2. CASE Idle \/ \E i \in Requests : RetryFires(i)
    <3>1. handling'[Coordinator] = handling[Coordinator]
      BY <2>2 DEF Idle, IdleStep, RetryFires
    <3>2. answer'[Coordinator] = answer[Coordinator] \/ \E a \in Accounts : Fails(a)
      BY <1>6, <2>2 DEF Idle, Heard, RetryFires
    <3>3. CASE answer'[Coordinator] = answer[Coordinator]
      <4>1. handling[Coordinator] \in Under(Coordinator)
        BY <2>1, <3>1 DEF Under
      <4>2. handling[Coordinator].about \in Requests
        BY <1>1, <1>6, <3>1, <4>1 DEF MailInv, Proper
      <4>3. /\ <<handling[Coordinator].about, "refund">> \in Requests \X Moves
            /\ rejected \in [Requests \X Moves -> Nat]
        BY <4>2 DEF Moves, FlowInv
      <4>4. rejected[<<handling[Coordinator].about, "refund">>] > 0
        BY <1>6, <3>1, <3>3 DEF FlowInv
      <4>5. PICK n \in Nat, k \in Nat :
                /\ n = rejected[<<handling[Coordinator].about, "refund">>]
                /\ k = rejected'[<<handling[Coordinator].about, "refund">>] /\ n <= k
        BY <1>1, <1>5, <4>3, RejectedGrows
      <4> QED  BY <3>1, <4>4, <4>5
    <3> QED  BY <1>1, <1>6, <3>1, <3>2, <3>3, RefundFails DEF FlowInv
  <2>3. CASE CoordinatorSteps \/ Stops(Coordinator)
    BY <1>1, <1>6, <2>1, <2>3, CoordinatorErrs
  <2> QED  BY <1>1, <2>2, <2>3, OthersIdle
<1> QED  BY <1>2, <1>3, <1>4, <1>5, <1>6 DEF FlowInv

LEMMA InitFlow == Init => FlowInv
<1> SUFFICES ASSUME Init  PROVE FlowInv
  OBVIOUS
<1>1. /\ queue[Coordinator] = <<>> /\ handling[Coordinator] = None
      /\ pending = {} /\ timeouts = {} /\ status = [i \in Requests |-> "none"]
      /\ rejected = [r \in Requests \X Moves |-> 0]
  BY ActorNames DEF Init, StageInit, CoordinatorInit, SchedulerInit, Callers
<1>2. <<>> \in Seq(Messages) /\ DOMAIN <<>> = {} /\ \A M : CountIn(<<>>, M) = 0
  BY CountEmpty
<1>3. ASSUME NEW i \in Requests
      PROVE  FlowOf(i) /\ ~Past(i) /\ Going(i)
  <2>1. StepsIn(i, <<>>, None, {}) = 0 /\ None \notin Records(i)
    <3>1. None \notin Steps(i) /\ None \notin Records(i)
      BY <1>2, StepsTyped
    <3>2. Truth(None \in Steps(i)) = 0 /\ Truth(i \in {}) = 0
      BY <3>1 DEF Truth
    <3> QED  BY <1>2, <3>1, <3>2 DEF StepsIn
  <2>2. Flow(i, <<>>, None, "none", {}, {})
    BY <1>2, <2>1 DEF Flow, Before, Truth
  <2> QED  BY <1>1, <1>2, <2>2 DEF FlowOf, Past, Going
<1>4. handling[Coordinator].op # "processRefund"
  BY <1>1, NoneIsNoMessage
<1> QED  BY <1>1, <1>3, <1>4 DEF FlowInv

(* No transfer is forgotten and none is moved on twice, however its retries, *)
(* its refund and the messages of other requests fall together: as long as a *)
(* transfer is pending it has exactly one next step, unless it is stranded   *)
(* or the coordinator has stopped, and when it has left the map it has none. *)
THEOREM OneStepInFlightHolds == Spec => []OneStepInFlight
<1>1. Init => Inv /\ FlowInv
  BY InitInv, InitFlow
<1>2. Inv /\ FlowInv /\ [Next]_vars => (Inv /\ FlowInv)'
  BY NextInv, FlowInvKeeps
<1>3. Inv /\ FlowInv => OneStepInFlight
  <2> SUFFICES ASSUME Inv, FlowInv, NEW i \in Requests
               PROVE  /\ i \in pending /\ Coordinator \notin closed =>
                             NextSteps(i) = 1 \/ (NextSteps(i) = 0 /\ Stranded(i))
                      /\ status[i] \in {"completed", "refunded"} /\ i \notin pending =>
                             NextSteps(i) = 0
    BY DEF OneStepInFlight
  <2>1. /\ NextSteps(i) = StepsOf(i) /\ FlowOf(i) /\ Going(i)
        /\ queue[Coordinator] \in Seq(Messages)
    BY StepsAre, ActorNames DEF Inv, FlowInv, MailInv, Callers
  <2>2. /\ StepsOf(i) \in Nat /\ StepsOf(i) <= 1
        /\ StepsOf(i) = 1 =>
               i \in pending \/ CountIn(queue[Coordinator], Records(i)) = 1
    BY <2>1, StepsTyped DEF StepsOf, FlowOf, Flow
  <2>3. status[i] # "none" => CountIn(queue[Coordinator], Records(i)) = 0
    <3>1. CountIn(queue[Coordinator], Records(i)) \in Nat
      BY <2>1, StepsTyped
    <3>2. status[i] # "none" => Truth(status[i] # "none") = 1
      BY DEF Truth
    <3> QED  BY <2>1, <3>1, <3>2 DEF FlowOf, Flow
  <2> QED  BY <2>1, <2>2, <2>3 DEF Going
<1> QED  BY <1>1, <1>2, <1>3, PTL DEF Spec

-----------------------------------------------------------------------------
(* The scheduler of the stage, with whoever uses it *)

(* What anyone may do to a scheduler. *)
SchedulerStep ==
    \E t \in Tasks :
        \/ \E delayed \in BOOLEAN : Schedule(t, delayed)
        \/ ScheduleOnce(t)
        \/ Cancel(t)
        \/ CloseScheduler
        \/ \E e \in Effects :
               OnceFires(t, e) \/ FirstFires(t, e) \/ IntervalFires(t, e)

(* TimersCanBeCleared is not inductive: a task of scheduleOnce() leaves the  *)
(* set when it fires, so that it must be known to have no interval.          *)
TimersInv == intervals \subseteq Repeated /\ TimersCanBeCleared

LEMMA SchedulerStarts == SchedulerInit => TimersInv
  BY DEF SchedulerInit, TimersInv, TimersCanBeCleared

(* No operation and no timer leaves a timer that nobody can clear. *)
LEMMA SchedulerStepPreserves ==
    TimersInv /\ [SchedulerStep]_schedulerVars => TimersInv'
<1> SUFFICES ASSUME TimersInv, [SchedulerStep]_schedulerVars
             PROVE  TimersInv'
  OBVIOUS
<1> USE DEF TimersInv, TimersCanBeCleared
<1>1. CASE UNCHANGED schedulerVars
  BY <1>1 DEF schedulerVars
<1>2. ASSUME NEW t \in Tasks, NEW delayed \in BOOLEAN, Schedule(t, delayed)
      PROVE  TimersInv'
  BY <1>2 DEF Schedule, CanSchedule
<1>3. ASSUME NEW t \in Tasks, ScheduleOnce(t)
      PROVE  TimersInv'
  BY <1>3 DEF ScheduleOnce, CanSchedule
<1>4. ASSUME NEW t \in Tasks, Cancel(t)
      PROVE  TimersInv'
  BY <1>4 DEF Cancel
<1>5. CASE CloseScheduler
  BY <1>5 DEF CloseScheduler
<1>6. ASSUME NEW t \in Tasks, NEW e \in Effects, OnceFires(t, e)
      PROVE  TimersInv'
  <2>1. CASE e = "nothing"
    <3>1. CancelledBy(t, e) = {}
      BY <2>1 DEF CancelledBy
    <3>2. /\ cancelled' = cancelled
          /\ timeouts' = timeouts \ {t} /\ intervals' = intervals
          /\ tasks' = tasks \ {t} /\ leaked' = leaked
      BY <1>6, <2>1, <3>1 DEF OnceFires, CallbackRuns
    <3>3. schedulerClosed' => schedulerClosed
      BY <1>6, <2>1 DEF OnceFires, CallbackRuns
    <3>4. t \notin intervals /\ t \in timeouts
      BY <1>6 DEF OnceFires
    <3> QED  BY <3>2, <3>3, <3>4
  <2>2. CASE e = "cancel"
    BY <1>6, <2>2 DEF OnceFires, CallbackRuns, CancelledBy
  <2>3. CASE e = "close"
    BY <1>6, <2>3 DEF OnceFires, CallbackRuns, CancelledBy
  <2> QED  BY <2>1, <2>2, <2>3 DEF Effects
<1>7. ASSUME NEW t \in Tasks, NEW e \in Effects, FirstFires(t, e)
      PROVE  TimersInv'
  BY <1>7 DEF FirstFires, CallbackRuns, CancelledBy, Effects
<1>8. ASSUME NEW t \in Tasks, NEW e \in Effects, IntervalFires(t, e)
      PROVE  TimersInv'
  BY <1>8 DEF IntervalFires, CallbackRuns, CancelledBy, Effects
<1> QED
  BY <1>1, <1>2, <1>3, <1>4, <1>5, <1>6, <1>7, <1>8 DEF SchedulerStep

(* What leaves the scheduler to somebody else. *)
LEMMA OnlyMessagesKeep == OnlyMessages => UNCHANGED schedulerVars
  BY DEF OnlyMessages, schedulerVars

LEMMA CoordinatorKeeps == CoordinatorSteps => [SchedulerStep]_schedulerVars
<1> SUFFICES ASSUME CoordinatorSteps
             PROVE  [SchedulerStep]_schedulerVars
  OBVIOUS
<1>1. CASE HandleDepositFailure
  <2> DEFINE i == About(Coordinator)
  <2>1. CASE ScheduleOnce(i)
    <3>1. i \in Tasks
      BY <2>1 DEF ScheduleOnce
    <3> QED  BY <2>1, <3>1 DEF SchedulerStep
  <2>2. ScheduleOnce(i) \/ UNCHANGED schedulerVars
    BY <1>1 DEF HandleDepositFailure
  <2> QED  BY <2>1, <2>2
<1>2. CASE InitiateTransfer
  BY <1>2, OnlyMessagesKeep DEF InitiateTransfer
<1>3. CASE Withdrawn
  BY <1>3, OnlyMessagesKeep DEF Withdrawn
<1>4. CASE AttemptDeposit
  BY <1>4, OnlyMessagesKeep DEF AttemptDeposit
<1>5. CASE Deposited
  BY <1>5, OnlyMessagesKeep DEF Deposited
<1>6. CASE ProcessRefund
  BY <1>6, OnlyMessagesKeep DEF ProcessRefund
<1>7. CASE GetPendingTransfers
  BY <1>7, OnlyMessagesKeep DEF GetPendingTransfers
<1>8. CASE RegisterAccount
  BY <1>8 DEF RegisterAccount, schedulerVars
<1>9. CASE RecordPendingTransfer
  BY <1>9 DEF RecordPendingTransfer, schedulerVars
<1>10. CASE Refunded
  BY <1>10 DEF Refunded, schedulerVars
<1>11. CASE CompleteTransfer
  BY <1>11 DEF CompleteTransfer, schedulerVars
<1> QED
  BY <1>1, <1>2, <1>3, <1>4, <1>5, <1>6, <1>7, <1>8, <1>9, <1>10, <1>11
     DEF CoordinatorSteps

LEMMA BankKeeps == BankSteps => UNCHANGED schedulerVars
<1> SUFFICES ASSUME BankSteps
             PROVE  UNCHANGED schedulerVars
  OBVIOUS
<1>1. CASE OpenAccount
  BY <1>1 DEF OpenAccount, schedulerVars
<1>2. CASE AllAccounts
  BY <1>2 DEF AllAccounts, schedulerVars
<1>3. CASE AccountOpened \/ AccountSummary \/ TransactionHistory \/ Transfer
  BY <1>3, OnlyMessagesKeep
     DEF AccountOpened, AccountSummary, TransactionHistory, Transfer
<1>4. CASE TransferInitiated \/ PendingTransfers \/ BankAnswers
  BY <1>4, OnlyMessagesKeep DEF TransferInitiated, PendingTransfers, BankAnswers
<1>5. ASSUME NEW op, FindAccount(op) \/ AccountFound(op)
      PROVE  UNCHANGED schedulerVars
  BY <1>5, OnlyMessagesKeep DEF FindAccount, AccountFound
<1> QED
  BY <1>1, <1>2, <1>3, <1>4, <1>5 DEF BankSteps

LEMMA ActorsKeep == Progress => [SchedulerStep]_schedulerVars
<1> SUFFICES ASSUME Progress
             PROVE  [SchedulerStep]_schedulerVars
  OBVIOUS
<1>1. ASSUME NEW op, TellerAsks(op) \/ TellerAnswers(op)
      PROVE  UNCHANGED schedulerVars
  BY <1>1, OnlyMessagesKeep DEF TellerAsks, TellerAnswers
<1>2. ASSUME NEW a, AccountSteps(a)
      PROVE  UNCHANGED schedulerVars
  <2>1. CASE Deposit(a) \/ Withdraw(a) \/ Refund(a)
    BY <2>1 DEF Deposit, Withdraw, Refund, schedulerVars
  <2>2. CASE GetInfo(a) \/ GetHistory(a)
    BY <2>2, OnlyMessagesKeep DEF GetInfo, GetHistory
  <2> QED  BY <1>2, <2>1, <2>2 DEF AccountSteps
<1>3. ASSUME NEW a, BankSupervisor(a) \/ TransferSupervisor(a)
                    \/ AccountSupervisor(a)
      PROVE  UNCHANGED schedulerVars
  BY <1>3, OnlyMessagesKeep
     DEF BankSupervisor, TransferSupervisor, AccountSupervisor, DecidesToResume
<1>4. ASSUME NEW i \in Requests, RetryFires(i)
      PROVE  SchedulerStep
  <2>1. OnceFires(i, "nothing") /\ i \in Tasks
    BY <1>4, BankAssumption DEF RetryFires
  <2> QED  BY <2>1 DEF SchedulerStep, Effects
<1> QED
  BY <1>1, <1>2, <1>3, <1>4, BankKeeps, CoordinatorKeeps DEF Progress

(* Every step of the example is one of the scheduler, or leaves it alone. *)
LEMMA NextIsSchedulerStep == [Next]_vars => [SchedulerStep]_schedulerVars
<1> SUFFICES ASSUME [Next]_vars
             PROVE  [SchedulerStep]_schedulerVars
  OBVIOUS
<1>1. CASE Progress
  BY <1>1, ActorsKeep
<1>2. ASSUME NEW i \in Requests, ClientCalls(i)
      PROVE  UNCHANGED schedulerVars
  BY <1>2, OnlyMessagesKeep DEF ClientCalls
<1>3. ASSUME NEW a \in Accounts, HistorySettles(a)
      PROVE  UNCHANGED schedulerVars
  BY <1>3 DEF HistorySettles, HistoryAnswers, HistoryRejects, schedulerVars
<1>4. CASE CloseStage \/ BankBeginsToStop \/ BankStops
  BY <1>4 DEF CloseStage, BankBeginsToStop, BankStops, schedulerVars
<1>5. ASSUME NEW a \in Actors, StageStops(a) \/ ParentStops(a) \/ Stops(a)
      PROVE  UNCHANGED schedulerVars
  BY <1>5 DEF StageStops, ParentStops, Stops, SendsStop, schedulerVars
<1>6. ASSUME NEW t \in Others, OthersSchedule(t)
      PROVE  SchedulerStep
  <2>1. t \in Tasks
    BY DEF Others
  <2> QED  BY <1>6, <2>1 DEF OthersSchedule, SchedulerStep
<1>7. CASE UNCHANGED vars
  BY <1>7 DEF vars
<1> QED
  BY <1>1, <1>2, <1>3, <1>4, <1>5, <1>6, <1>7 DEF Next

(* DefaultScheduler keeps hold of its timers, whoever uses it and however:   *)
(* each one that is armed belongs to a task that cancel() or close() still   *)
(* reaches, unless the task died in its first callback.  This holds for all  *)
(* sets of tasks and all workloads of the bank.                              *)
THEOREM TimersCanBeClearedHolds == Spec => []TimersCanBeCleared
<1>1. Init => TimersInv
  BY SchedulerStarts DEF Init
<1>2. TimersInv /\ [Next]_vars => TimersInv'
  BY NextIsSchedulerStep, SchedulerStepPreserves
<1>3. TimersInv => TimersCanBeCleared
  BY DEF TimersInv
<1> QED
  BY <1>1, <1>2, <1>3, PTL DEF Spec
=============================================================================
