-------------------------- MODULE BankBooksProofs --------------------------
(***************************************************************************)
(* Proof that the books of the bank example balance.  What a request has   *)
(* done to an account is read off the state at any time, not only when     *)
(* nothing is under way, and every step of an account changes this and the *)
(* balance alike.  The types of the whole state come last: what they say   *)
(* of accounts and of rejected records rests on the same invariants.       *)
(***************************************************************************)
EXTENDS BankExampleProofs

-----------------------------------------------------------------------------
(* Where transfers are *)

Early == {"attemptDeposit", "handleDepositFailure"}

(* The next step of a transfer fits its status, v, and attempts are left,    *)
(* after n of them, for those steps that come before the last failure.       *)
Fits(m, v, n) ==
    /\ m.op \in Early => v \in {"none", "withdrawn"} /\ n < MaxRetryAttempts
    /\ m.op = "processRefund" => v = "failed-deposit"
    /\ m.op = "completeTransfer" => v \in {"withdrawn", "refunded"}

PhaseOf(i) ==
    /\ status[i] = "none" => attempts[i] = 0
    /\ i \in timeouts => status[i] = "withdrawn" /\ attempts[i] < MaxRetryAttempts
    /\ \A m \in Under(Coordinator) : m.about = i => Fits(m, status[i], attempts[i])

PhaseInv ==
    /\ attempts \in [Requests -> 0..MaxRetryAttempts]
    /\ \A i \in Requests : PhaseOf(i)

(* The account that operation op of request i is about, if any. *)
Site(i, op) ==
    CASE Command(i).command = "transfer" ->
             IF op = "deposit" THEN Command(i).to ELSE Command(i).account
      [] Command(i).command \in {"deposit", "withdraw"} /\ op # "refund" ->
             Command(i).account
      [] OTHER -> 0

(* Only transfers move, and what accounts are asked goes to the accounts     *)
(* that the request names.                                                   *)
Addressed(a, m) ==
    /\ a \in DOMAIN balance /\ a = Site(m.about, m.op)
    /\ m.reply = Bank => m.op = Command(m.about).command
    /\ m.reply = Coordinator => Command(m.about).command = "transfer"

AddressInv ==
    /\ \A i \in Requests : Moving(i) => Command(i).command = "transfer"
    /\ \A a \in Accounts : \A m \in Under(a) : m.op \in Moves => Addressed(a, m)

(* Who is closed is at nothing. *)
ClosedInv == \A a \in closed : a \in Actors /\ handling[a] = None

-----------------------------------------------------------------------------
(* What requests have done to accounts *)

Serves(x, i) == x \in Actors /\ handling[x] # None /\ handling[x].about = i
Doing(i, x, op) == Serves(x, i) /\ handling[x].op = op

(* The handler of c for request i has an answer that is no error. *)
Fine(c, i, op) ==
    Doing(i, c, op) /\ answer[c] \notin {"none", "pending", "error"}

(* Success was told to the user, or to the teller, or to the bank. *)
Said(i) == \/ outcome[i] = "value"
           \/ /\ Doing(i, Teller, Command(i).command)
              /\ answer[Teller] = "value"

Done(i) == Said(i) \/ /\ Doing(i, Bank, Command(i).command)
                      /\ answer[Bank] = "value"

(* The coordinator takes the money for withdrawn, repaid, arrived. *)
Took(i) == \/ Said(i) \/ Fine(Bank, i, "transfer")
           \/ Fine(Coordinator, i, "initiateTransfer")

Repaid(i) == status[i] = "refunded" \/ Fine(Coordinator, i, "processRefund")

Completions(i) ==
    {m \in ToSet(queue[Coordinator]) : m.op = "completeTransfer" /\ m.about = i}
Completing(i) == status[i] = "withdrawn" /\ Completions(i) # {}

Arrived(i) == \/ status[i] = "completed" \/ Completing(i)
              \/ Fine(Coordinator, i, "attemptDeposit")

(* Operation op of request i is taken for a success. *)
Effect(i, op) ==
    IF Command(i).command = "transfer"
    THEN \/ op = "withdraw" /\ Took(i)
         \/ op = "refund" /\ Repaid(i)
         \/ op = "deposit" /\ Arrived(i)
    ELSE op = Command(i).command /\ Done(i)

(* It was refused by a closed actor. *)
Missing(i, op) ==
    /\ Command(i).command = "transfer"
    /\ \/ <<i, op>> \in refused
       \/ op = "withdraw" /\ <<i, "initiateTransfer">> \in refused

(* How many times the account was changed. *)
Booked(i, op) ==
    Truth(Effect(i, op)) + Truth(Doing(i, Site(i, op), op)) + rejected[<<i, op>>]
    - Truth(Missing(i, op))

(* What is refused is taken for a success, and only accounts that there are  *)
(* are changed, by amounts that are valid.                                   *)
BookInv ==
    \A i \in DOMAIN workload.commands \cap Requests : \A op \in Moves :
        /\ Missing(i, op) => Effect(i, op)
        /\ Booked(i, op) # 0 => /\ Site(i, op) \in DOMAIN balance
                                /\ Command(i).amount \in Nat

(* By how many times its amount request i has changed account a. *)
Net(i, a) ==
    Truth(a = Site(i, "deposit")) * Booked(i, "deposit")
    + Truth(a = Site(i, "refund")) * Booked(i, "refund")
    - Truth(a = Site(i, "withdraw")) * Booked(i, "withdraw")

Change(i, a) == IF Net(i, a) = 0 THEN 0 ELSE Command(i).amount * Net(i, a)

BalanceInv ==
    \A a \in DOMAIN balance :
        balance[a] = initial[a] + Total([i \in DOMAIN workload.commands |-> Change(i, a)],
                                        DOMAIN workload.commands)

-----------------------------------------------------------------------------
(* The next step of a transfer, when it is taken. *)

NewToken(i, m) ==
    \/ (AttemptDeposit \/ ProcessRefund)
       /\ m = Current(Coordinator)
    \/ Deposited /\ m.op = IF answer[Coordinator] = "error"
                           THEN "handleDepositFailure" ELSE "completeTransfer"
    \/ HandleDepositFailure /\ m.op = "processRefund" /\ status'[i] = "failed-deposit"
    \/ Refunded /\ m.op = "completeTransfer" /\ status'[i] = "refunded"

LEMMA UnderPrimed ==
    ASSUME MailInv', NEW a \in Actors
    PROVE  Under(a)' = ToSet(queue'[a]) \cup
                           (IF handling'[a] = None THEN {} ELSE {handling'[a]})
<1>1. queue'[a] \in Seq(Messages) /\ \A m \in Messages : m # None
  BY NoneIsNoMessage DEF MailInv
<1>2. ToSet(queue'[a]) \subseteq Messages
  BY <1>1, QueueElements
<1> QED  BY <1>1, <1>2 DEF Under

(* A step of a transfer leaves no other one in the mailbox. *)
LEMMA StepAlone ==
    ASSUME MailInv, FlowInv, NEW i \in Requests, Turns(Coordinator),
           Current(Coordinator) \in Steps(i)
    PROVE  /\ i \in pending /\ status[i] # "none" /\ i \notin timeouts
           /\ \A m \in ToSet(Rest(Coordinator)[Coordinator]) : m \notin Steps(i)
           /\ \A m \in Under(Coordinator) : m \in Steps(i) => m = Current(Coordinator)
<1> DEFINE c == Current(Coordinator)
           r == Rest(Coordinator)[Coordinator]
           q == queue[Coordinator]
           h == handling[Coordinator]
<1>1. /\ q \in Seq(Messages) /\ h \in Messages \cup {None} /\ (h = None => q # <<>>)
      /\ c = At(q, h) /\ r = Behind(q, h) /\ c \in Messages /\ c \in Steps(i)
      /\ Flow(i, q, h, status[i], pending, timeouts) /\ r \in Seq(Messages)
  BY CoordinatorIs DEF FlowInv, FlowOf
<1>2. Under(Coordinator) = ToSet(r) \cup {c}
  BY CoordinatorIs, CurrentMessage
<1> HIDE DEF c, r, q, h
<1>3. /\ i \in pending /\ status[i] # "none" /\ i \notin timeouts
      /\ CountIn(r, Steps(i)) = 0
  BY <1>1, FlowAtStep
<1>4. ToSet(r) \cap Steps(i) = {}
  BY <1>1, <1>3, CountZero
<1> QED  BY <1>2, <1>3, <1>4 DEF c, r

LEMMA CoordinatorSelfOne ==
    ASSUME MailInv, MoneyInv, NEW op \in TransferOps, NEW result,
           Turns(Coordinator), About(Coordinator) \in Requests,
           SendsItself(Coordinator, <<op>>, result)
    PROVE  /\ handling'[Coordinator] = None
           /\ \E x \in Messages :
                 /\ x.op = op /\ x.about = About(Coordinator)
                 /\ queue'[Coordinator] = Append(Rest(Coordinator)[Coordinator], x)
<1>1. op \in SelfSent
  BY DEF SelfSent
<1>2. PICK x, y \in Messages :
              /\ x.op = op /\ x.about = About(Coordinator)
              /\ y.op = op /\ y.about = About(Coordinator)
              /\ SendsItself(Coordinator, <<op>>, result) =>
                     /\ handling'[Coordinator] = None
                     /\ queue'[Coordinator] =
                            Append(Rest(Coordinator)[Coordinator], x)
              /\ SendsItself(Coordinator, <<op, op>>, result) =>
                     /\ handling'[Coordinator] = None
                     /\ queue'[Coordinator] =
                            Append(Append(Rest(Coordinator)[Coordinator], x), y)
  BY <1>1, CoordinatorSelf
<1> QED  BY <1>2

LEMMA TokenTurn ==
    ASSUME MailInv, MoneyInv, FlowInv, MailInv', CoordinatorSteps, NEW i \in Requests,
           Turns(Coordinator), About(Coordinator) = i,
           Current(Coordinator).op \in TransferOps
    PROVE  /\ Current(Coordinator) \in Steps(i)
           /\ \A m \in Under(Coordinator)' : m \in Steps(i) => NewToken(i, m)
           /\ Deposited /\ answer[Coordinator] # "error" =>
                  \E m \in ToSet(queue'[Coordinator]) :
                      m.op = "completeTransfer" /\ m.about = i
<1> DEFINE c == Current(Coordinator)
           r == Rest(Coordinator)[Coordinator]
           s == queue'[Coordinator]
           k == handling'[Coordinator]
<1>1. /\ \A op : Begins(Coordinator, op) => c.op = op
      /\ \A op : op # "none" /\ Resumes(Coordinator, {op}) => c.op = op
  BY BeginsTurns, ResumesTurns
<1>2. /\ r \in Seq(Messages) /\ c \in Messages /\ c \in Steps(i) /\ About(Coordinator) = i
      /\ TransferOf(i).from \in Nat /\ TransferOf(i).to \in Nat
      /\ status \in [Requests -> TransferStatus \cup {"none"}]
  <2>1. Proper(Coordinator, c) /\ c.op # "stop" /\ c \in Messages /\ r \in Seq(Messages)
    BY CoordinatorIs DEF TransferOps
  <2>2. c \in Steps(i)
    BY <2>1 DEF Steps, IsStep, About
  <2> QED  BY <2>1, <2>2, CommandTypes DEF FlowInv, Proper, About
<1>3. \A m \in ToSet(r) : m \notin Steps(i)
  BY <1>2, StepAlone
<1>4. /\ Throws(Coordinator) \/ (\E result : Returns(Coordinator, result)) =>
             k = None /\ s = r
      /\ \A op : \A b \in Nat : Calls(Coordinator, b, op) => k = c /\ s = r
  BY CoordinatorEnds
<1>5. ASSUME NEW op \in TransferOps, NEW result, SendsItself(Coordinator, <<op>>, result)
      PROVE  /\ k = None
             /\ \E x \in Messages : /\ x.op = op /\ x.about = i /\ s = Append(r, x)
  BY <1>2, <1>5, CoordinatorSelfOne
<1>6. Under(Coordinator)' = ToSet(s) \cup (IF k = None THEN {} ELSE {k})
  BY UnderPrimed, CoordinatorIs
<1>7. {"attemptDeposit", "handleDepositFailure", "processRefund", "completeTransfer"}
          \subseteq TransferOps
  BY DEF TransferOps
<1> DEFINE Goal == /\ \A m \in Under(Coordinator)' : m \in Steps(i) => NewToken(i, m)
                   /\ Deposited /\ answer[Coordinator] # "error" =>
                          \E m \in ToSet(s) : m.op = "completeTransfer" /\ m.about = i
<1> SUFFICES Goal
  BY <1>2
<1> HIDE DEF c, r, s, k
<1>8. ASSUME k = None, s = r, ~Deposited
      PROVE  Goal
  BY <1>3, <1>6, <1>8
<1>9. ASSUME k = None, NEW op, NEW x \in Messages, s = Append(r, x), x.op = op, x.about = i,
             \A m : m.op = op => NewToken(i, m),
             Deposited /\ answer[Coordinator] # "error" => op = "completeTransfer"
      PROVE  Goal
  <2>1. ToSet(s) = ToSet(r) \cup {x}
    BY <1>2, <1>9, QueueEnds
  <2>2. NewToken(i, x) /\ \A m \in Under(Coordinator)' : m \in Steps(i) => m = x
    BY <1>3, <1>6, <1>9, <2>1
  <2> QED  BY <1>9, <2>1, <2>2
<1>10. CASE AttemptDeposit \/ ProcessRefund
  <2>1. \/ k = None /\ s = r
        \/ k = c /\ s = r
    BY <1>2, <1>4, <1>10 DEF AttemptDeposit, ProcessRefund
  <2>2. ~Deposited
    BY <1>10 DEF AttemptDeposit, ProcessRefund, Deposited, Begins, Resumes, None
  <2> QED  BY <1>3, <1>6, <1>10, <2>1, <2>2 DEF NewToken, c
<1>11. CASE Deposited
  <2>1. PICK op : op = IF answer[Coordinator] = "error"
                       THEN "handleDepositFailure" ELSE "completeTransfer"
    OBVIOUS
  <2>2. SendsItself(Coordinator, <<op>>, "value")
    BY <1>11, <2>1 DEF Deposited
  <2>3. k = None /\ \E x \in Messages : /\ x.op = op /\ x.about = i /\ s = Append(r, x)
    BY <1>5, <1>7, <2>1, <2>2
  <2>4. \A m : m.op = op => NewToken(i, m)
    BY <1>11, <2>1 DEF NewToken
  <2> QED  BY <1>9, <2>1, <2>3, <2>4
<1>12. CASE HandleDepositFailure
  <2>1. ~Deposited
    BY <1>12 DEF HandleDepositFailure, Deposited, Begins, Resumes, None
  <2>2. CASE /\ SendsItself(Coordinator, <<"processRefund">>, "value")
             /\ status' = [status EXCEPT ![i] = "failed-deposit"]
    <3>1. k = None /\ \E x \in Messages :
              /\ x.op = "processRefund" /\ x.about = i /\ s = Append(r, x)
      BY <1>5, <1>7, <2>2
    <3>2. \A m : m.op = "processRefund" => NewToken(i, m)
      BY <1>2, <1>12, <2>2 DEF NewToken
    <3> QED  BY <1>9, <2>1, <3>1, <3>2
  <2>3. CASE Throws(Coordinator) \/ Returns(Coordinator, "value")
    BY <1>4, <1>8, <2>1, <2>3
  <2> QED  BY <1>12, <2>2, <2>3 DEF HandleDepositFailure
<1>13. CASE Refunded
  <2>1. ~Deposited
    BY <1>13 DEF Refunded, Deposited, Begins, Resumes
  <2>2. CASE /\ SendsItself(Coordinator, <<"completeTransfer">>, "value")
             /\ status' = [status EXCEPT ![i] = "refunded"]
    <3>1. k = None /\ \E x \in Messages :
              /\ x.op = "completeTransfer" /\ x.about = i /\ s = Append(r, x)
      BY <1>5, <1>7, <2>2
    <3>2. \A m : m.op = "completeTransfer" => NewToken(i, m)
      BY <1>2, <1>13, <2>2 DEF NewToken
    <3> QED  BY <1>9, <2>1, <3>1, <3>2
  <2>3. CASE Throws(Coordinator)
    BY <1>4, <1>8, <2>1, <2>3
  <2> QED  BY <1>13, <2>2, <2>3 DEF Refunded
<1>14. CASE CompleteTransfer
  <2>1. ~Deposited
    BY <1>14 DEF CompleteTransfer, Deposited, Begins, Resumes, None
  <2> QED  BY <1>4, <1>8, <1>14, <2>1 DEF CompleteTransfer
<1> QED
  BY <1>1, <1>10, <1>11, <1>12, <1>13, <1>14
     DEF CoordinatorSteps, RegisterAccount, InitiateTransfer, Withdrawn,
         RecordPendingTransfer, GetPendingTransfers, TransferOps, c

LEMMA TransfersStay == [Next]_vars =>
    \/ UNCHANGED <<status, attempts>>
    \/ RecordPendingTransfer
    \/ HandleDepositFailure
    \/ Refunded /\ attempts' = attempts
    \/ CompleteTransfer /\ attempts' = attempts
<1> SUFFICES ASSUME [Next]_vars
             PROVE  \/ UNCHANGED <<status, attempts>>
                    \/ RecordPendingTransfer
                    \/ HandleDepositFailure
                    \/ Refunded /\ attempts' = attempts
                    \/ CompleteTransfer /\ attempts' = attempts
  OBVIOUS
<1>1. CASE CoordinatorSteps
  BY <1>1 DEF CoordinatorSteps, RegisterAccount, InitiateTransfer, Withdrawn,
     AttemptDeposit, Deposited, ProcessRefund, Refunded, CompleteTransfer,
     GetPendingTransfers, OnlyMessages, transferVars
<1>2. CASE BankSteps
  BY <1>2 DEF BankSteps, OpenAccount, AccountOpened, FindAccount, AccountFound,
     AccountSummary, TransactionHistory, AllAccounts, Transfer, TransferInitiated,
     PendingTransfers, BankAnswers, OnlyMessages, transferVars
<1>3. ASSUME NEW op \in Commands, TellerAsks(op) \/ TellerAnswers(op)
      PROVE  UNCHANGED <<status, attempts>>
  BY <1>3 DEF TellerAsks, TellerAnswers, OnlyMessages, transferVars
<1>4. ASSUME NEW a \in Accounts, AccountSteps(a) \/ HistorySettles(a)
      PROVE  UNCHANGED <<status, attempts>>
  BY <1>4 DEF AccountSteps, Deposit, Withdraw, Refund, GetInfo, GetHistory,
     HistorySettles, HistoryAnswers, HistoryRejects, OnlyMessages, transferVars
<1>5. ASSUME NEW a \in Actors,
             \/ BankSupervisor(a) \/ TransferSupervisor(a) \/ AccountSupervisor(a)
             \/ StageStops(a) \/ ParentStops(a) \/ Stops(a)
      PROVE  UNCHANGED <<status, attempts>>
  BY <1>5 DEF BankSupervisor, TransferSupervisor, AccountSupervisor, DecidesToResume,
     StageStops, ParentStops, Stops, SendsStop, OnlyMessages, transferVars
<1>6. ASSUME NEW i \in Requests, RetryFires(i) \/ ClientCalls(i)
      PROVE  UNCHANGED <<status, attempts>>
  BY <1>6 DEF RetryFires, ClientCalls, OnlyMessages, transferVars
<1>7. CASE CloseStage \/ BankBeginsToStop \/ BankStops \/ UNCHANGED vars
           \/ \E t \in Others : OthersSchedule(t)
  BY <1>7 DEF CloseStage, BankBeginsToStop, BankStops, OthersSchedule, vars,
     transferVars
<1>8. CASE Progress
  BY <1>1, <1>2, <1>3, <1>4, <1>5, <1>6, <1>8 DEF Progress
<1> QED
  BY <1>4, <1>5, <1>6, <1>7, <1>8 DEF Next

(* Where nothing moves transfer i on, its phase stays. *)
LEMMA PhaseRests ==
    ASSUME PhaseInv, NEW i \in Requests, status'[i] = status[i],
           attempts'[i] = attempts[i], i \in timeouts' => i \in timeouts,
           \A m \in Under(Coordinator)' :
               \/ m \in Under(Coordinator) \/ m.op \notin TransferOps
               \/ m.about # i \/ Fits(m, status[i], attempts[i])
    PROVE  PhaseOf(i)'
<1>1. PhaseOf(i)
  BY DEF PhaseInv
<1>2. ASSUME NEW m, m.op \notin TransferOps
      PROVE  Fits(m, status[i], attempts[i])
  BY <1>2 DEF Fits, TransferOps, Early
<1>3. ASSUME NEW m \in Under(Coordinator)', m.about = i
      PROVE  Fits(m, status[i], attempts[i])
  BY <1>1, <1>2, <1>3 DEF PhaseOf
<1>4. \A m \in Under(Coordinator)' : m.about = i => Fits(m, status'[i], attempts'[i])
  BY <1>3
<1> QED  BY <1>1, <1>4 DEF PhaseOf, Fits

LEMMA PhaseIdle ==
    ASSUME MailInv, MailInv', MoneyInv, PhaseInv, [Next]_vars, NEW i \in Requests,
           ~CoordinatorSteps, ~Stops(Coordinator)
    PROVE  PhaseOf(i)'
<1>1. UNCHANGED <<status, attempts>>
  BY TransfersStay DEF CoordinatorSteps
<1>2. i \in timeouts' => i \in timeouts
  BY TimersStep DEF CoordinatorSteps
<1>3. /\ Coordinator \in Actors
      /\ queue[Coordinator] \in Seq(Messages)
      /\ Under(Coordinator)' = ToSet(queue'[Coordinator]) \cup
             (IF handling'[Coordinator] = None THEN {} ELSE {handling'[Coordinator]})
      /\ Under(Coordinator) = ToSet(queue[Coordinator]) \cup
             (IF handling[Coordinator] = None THEN {} ELSE {handling[Coordinator]})
  BY ActorNames, UnderIs, UnderPrimed DEF MailInv, Callers
<1>4. CASE Idle
  <2>1. /\ handling'[Coordinator] = handling[Coordinator]
        /\ \/ queue'[Coordinator] = queue[Coordinator]
           \/ \E m \in Messages : /\ queue'[Coordinator] = Append(queue[Coordinator], m)
                                  /\ m.op \notin SelfSent
    BY <1>4 DEF Idle, IdleStep
  <2>2. ASSUME NEW m \in Messages, m.op \notin SelfSent,
               queue'[Coordinator] = Append(queue[Coordinator], m)
        PROVE  \A n \in Under(Coordinator)' : n \in Under(Coordinator) \/ n.op \notin SelfSent
    <3>1. ToSet(Append(queue[Coordinator], m)) = ToSet(queue[Coordinator]) \cup {m}
      BY <1>3, QueueEnds
    <3> QED  BY <1>3, <2>1, <2>2, <3>1
  <2>3. \A m \in Under(Coordinator)' : m \in Under(Coordinator) \/ m.op \notin SelfSent
    BY <1>3, <2>1, <2>2
  <2> QED  BY <1>1, <1>2, <2>3, PhaseRests DEF SelfSent
<1>5. ASSUME NEW j \in Requests, RetryFires(j)
      PROVE  PhaseOf(i)'
  <2>1. PICK m : m = Message(Coordinator, "attemptDeposit", j, Nobody, own[Coordinator])
    OBVIOUS
  <2>2. /\ j \in timeouts /\ handling' = handling
        /\ \/ queue'[Coordinator] = queue[Coordinator]
           \/ queue'[Coordinator] = Append(queue[Coordinator], m)
    BY <1>3, <1>5, <2>1 DEF RetryFires, OnceFires, MailInv
  <2>3. m \in Messages /\ m.op = "attemptDeposit" /\ m.about = j
    <3>1. "attemptDeposit" \in AllOps /\ own[Coordinator] \in Requests \cup {0}
      BY <1>3, BankCallOps, SelfSentOps DEF MailInv
    <3> QED  BY <2>1, <3>1, NewMessage
  <2>4. \A n \in Under(Coordinator)' : n \in Under(Coordinator) \/ n = m
    <3>1. ToSet(Append(queue[Coordinator], m)) = ToSet(queue[Coordinator]) \cup {m}
      BY <1>3, <2>3, QueueEnds
    <3> QED  BY <1>3, <2>2, <3>1
  <2>5. Fits(m, status[j], attempts[j])
    <3>1. PhaseOf(j)
      BY DEF PhaseInv
    <3> QED  BY <2>2, <2>3, <3>1 DEF PhaseOf, Fits
  <2> QED  BY <1>1, <1>2, <2>3, <2>4, <2>5, PhaseRests
<1> QED  BY <1>4, <1>5, OthersIdle

LEMMA AddsSet ==
    ASSUME NEW i, NEW r \in Seq(Messages), NEW s, Adds(i, r, s)
    PROVE  /\ ToSet(r) \subseteq ToSet(s)
           /\ \A m \in ToSet(s) : m \in ToSet(r) \/ m \in Foreign(i)
<1>1. ASSUME NEW x \in Foreign(i)
      PROVE  /\ Append(r, x) \in Seq(Messages)
             /\ ToSet(Append(r, x)) = ToSet(r) \cup {x}
  BY <1>1, QueueEnds DEF Foreign
<1>2. ASSUME NEW x \in Foreign(i), NEW y \in Foreign(i)
      PROVE  ToSet(Append(Append(r, x), y)) = ToSet(r) \cup {x, y}
  <2>1. PICK q : q = Append(r, x)
    OBVIOUS
  <2>2. q \in Seq(Messages) /\ ToSet(q) = ToSet(r) \cup {x} /\ y \in Messages
    BY <1>1, <2>1 DEF Foreign
  <2>3. ToSet(Append(q, y)) = ToSet(q) \cup {y}
    BY <2>2, QueueEnds
  <2> QED  BY <2>1, <2>2, <2>3
<1>3. CASE s = r
  BY <1>3
<1>4. ASSUME NEW x \in Foreign(i), s = Append(r, x)
      PROVE  /\ ToSet(r) \subseteq ToSet(s)
             /\ \A m \in ToSet(s) : m \in ToSet(r) \/ m \in Foreign(i)
  BY <1>1, <1>4
<1>5. ASSUME NEW x \in Foreign(i), NEW y \in Foreign(i), s = Append(Append(r, x), y)
      PROVE  /\ ToSet(r) \subseteq ToSet(s)
             /\ \A m \in ToSet(s) : m \in ToSet(r) \/ m \in Foreign(i)
  BY <1>2, <1>5
<1> QED  BY <1>3, <1>4, <1>5 DEF Adds

LEMMA PhaseApart ==
    ASSUME MailInv, MailInv', PhaseInv, [Next]_vars, NEW i \in Requests, Apart(i)
    PROVE  PhaseOf(i)'
<1> DEFINE r == Rest(Coordinator)[Coordinator]
           s == queue'[Coordinator]
<1>1. /\ Coordinator \in Actors /\ r \in Seq(Messages)
      /\ Under(Coordinator)' = ToSet(s) \cup
             (IF handling'[Coordinator] = None THEN {} ELSE {handling'[Coordinator]})
      /\ Under(Coordinator) = ToSet(r) \cup {Current(Coordinator)}
      /\ Current(Coordinator) \notin Steps(i) /\ Current(Coordinator) \in Messages
      /\ Proper(Coordinator, Current(Coordinator))
  BY CoordinatorIs, CurrentMessage, UnderPrimed DEF Apart
<1>2. /\ handling'[Coordinator] \in {Current(Coordinator), None} /\ Adds(i, r, s)
      /\ status'[i] = status[i]
      /\ i \in timeouts' => i \in timeouts
  BY DEF Apart
<1>3. attempts'[i] = attempts[i]
  <2>1. CASE HandleDepositFailure
    <3>1. /\ Current(Coordinator).op = "handleDepositFailure"
      BY <2>1, BeginsTurns DEF HandleDepositFailure
    <3>2. About(Coordinator) # i
      BY <1>1, <3>1 DEF Steps, IsStep, TransferOps, About
    <3> QED  BY <2>1, <3>2 DEF HandleDepositFailure, PhaseInv
  <2>2. CASE RecordPendingTransfer
    BY <2>2 DEF RecordPendingTransfer
  <2> QED  BY <2>1, <2>2, TransfersStay
<1> HIDE DEF r, s
<1>4. \A m \in ToSet(s) : m \in ToSet(r) \/ m \in Foreign(i)
  BY <1>1, <1>2, AddsSet
<1>5. ASSUME NEW m \in Foreign(i)
      PROVE  m.op \notin TransferOps \/ m.about # i
  BY <1>5 DEF Foreign, Steps, IsStep
<1>6. ASSUME NEW m \in Under(Coordinator)'
      PROVE  m \in Under(Coordinator) \/ m.op \notin TransferOps \/ m.about # i
  BY <1>1, <1>2, <1>4, <1>5
<1> QED  BY <1>2, <1>3, <1>6, PhaseRests

LEMMA PhaseWithdrawn ==
    ASSUME MailInv, MailInv', MoneyInv, FlowInv, PhaseInv, NEW i \in Requests,
           Withdraws(i)
    PROVE  PhaseOf(i)'
<1>1. status[i] = "none" /\ attempts[i] = 0
  <2>1. status[i] = "none"
    BY WithdrawnFlow DEF Past
  <2> QED  BY <2>1 DEF PhaseInv, PhaseOf
<1>2. UNCHANGED <<status, attempts, timeouts>>
  BY DEF Withdraws, Withdrawn, OnlyMessages, transferVars, schedulerVars
<1>3. PICK x, y \in Messages :
          /\ x.op = "recordPendingTransfer" /\ x.about = i
          /\ y.op = "attemptDeposit" /\ y.about = i
          /\ handling'[Coordinator] = None
          /\ queue'[Coordinator] = Append(Append(queue[Coordinator], x), y)
  BY WithdrawnAdds
<1>4. /\ queue[Coordinator] \in Seq(Messages)
      /\ Under(Coordinator)' = ToSet(queue'[Coordinator])
      /\ ToSet(queue[Coordinator]) \subseteq Under(Coordinator)
  <2>1. Coordinator \in Actors
    BY ActorNames DEF Callers
  <2> QED  BY <1>3, <2>1, UnderIs, UnderPrimed DEF MailInv
<1>5. ToSet(queue'[Coordinator]) = ToSet(queue[Coordinator]) \cup {x, y}
  <2>1. PICK q : q = Append(queue[Coordinator], x)
    OBVIOUS
  <2>2. q \in Seq(Messages) /\ ToSet(q) = ToSet(queue[Coordinator]) \cup {x}
    BY <1>3, <1>4, <2>1, QueueEnds
  <2>3. ToSet(Append(q, y)) = ToSet(q) \cup {y}
    BY <2>2, QueueEnds
  <2> QED  BY <1>3, <2>1, <2>2, <2>3
<1>6. Fits(x, "none", 0) /\ Fits(y, "none", 0)
  BY <1>3 DEF Fits, Early, MaxRetryAttempts
<1> QED  BY <1>1, <1>2, <1>4, <1>5, <1>6, PhaseRests

LEMMA PhaseRecorded ==
    ASSUME MailInv, MailInv', FlowInv, PhaseInv, NEW i \in Requests,
           RecordPendingTransfer, About(Coordinator) = i
    PROVE  PhaseOf(i)'
<1> DEFINE c == Current(Coordinator)
           r == Rest(Coordinator)[Coordinator]
           q == queue[Coordinator]
           h == handling[Coordinator]
<1>1. /\ Turns(Coordinator) /\ c.op = "recordPendingTransfer" /\ c.about = i
  BY BeginsTurns DEF RecordPendingTransfer, About
<1>2. /\ q \in Seq(Messages) /\ h \in Messages \cup {None} /\ (h = None => q # <<>>)
      /\ c = At(q, h) /\ r = Behind(q, h) /\ c \in Messages
      /\ Flow(i, q, h, status[i], pending, timeouts)
      /\ Under(Coordinator) = ToSet(r) \cup {c}
  BY <1>1, CoordinatorIs, CurrentMessage DEF FlowInv, FlowOf
<1>3. /\ handling'[Coordinator] = None /\ queue'[Coordinator] = r
      /\ status' = [status EXCEPT ![i] = "withdrawn"]
      /\ attempts' = attempts /\ timeouts' = timeouts
  BY <1>1, CoordinatorEnds DEF RecordPendingTransfer, schedulerVars
<1>4. Under(Coordinator)' = ToSet(r)
  BY <1>3, UnderPrimed, ActorNames DEF Callers
<1> HIDE DEF c, r, q, h
<1>5. status[i] = "none"
  <2>1. At(q, h) \in Records(i)
    BY <1>1, <1>2 DEF Records
  <2>2. "withdrawn" # "none" /\ i \in Requests
    OBVIOUS
  <2> QED  BY <1>2, <2>1, <2>2, FlowEntered
<1>6. PhaseOf(i) /\ status'[i] = "withdrawn" /\ attempts'[i] = 0
  BY <1>3, <1>5 DEF PhaseInv, PhaseOf, FlowInv
<1>7. ASSUME NEW m \in Under(Coordinator)', m.about = i
      PROVE  Fits(m, "withdrawn", 0)
  <2>1. Fits(m, "none", 0)
    BY <1>2, <1>4, <1>5, <1>6, <1>7 DEF PhaseOf
  <2> QED  BY <2>1 DEF Fits
<1> QED  BY <1>3, <1>5, <1>6, <1>7 DEF PhaseOf

LEMMA PhaseToken ==
    ASSUME MailInv, MoneyInv, FlowInv, MailInv', PhaseInv, [Next]_vars, CoordinatorSteps,
           NEW i \in Requests, Turns(Coordinator), About(Coordinator) = i,
           Current(Coordinator).op \in TransferOps
    PROVE  PhaseOf(i)' /\ attempts'[i] \in 0..MaxRetryAttempts
<1> DEFINE c == Current(Coordinator)
<1>1. /\ c \in Steps(i) /\ c.about = i /\ c \in Under(Coordinator)
      /\ \A m \in Under(Coordinator)' : m \in Steps(i) => NewToken(i, m)
      /\ \A m \in Under(Coordinator)' : m \in Messages
  <2>1. \A m \in Under(Coordinator)' : m \in Messages
    <3>1. Coordinator \in Actors /\ queue'[Coordinator] \in Seq(Messages)
          /\ handling'[Coordinator] \in Messages \cup {None}
      BY CoordinatorIs DEF MailInv
    <3>2. ToSet(queue'[Coordinator]) \subseteq Messages
      BY <3>1, QueueElements
    <3> QED  BY <3>1, <3>2, UnderPrimed
  <2> QED  BY <2>1, TokenTurn, CoordinatorIs, CurrentMessage DEF About
<1>2. /\ i \in pending /\ status[i] # "none" /\ i \notin timeouts
      /\ PhaseOf(i) /\ Fits(c, status[i], attempts[i])
      /\ attempts[i] \in 0..MaxRetryAttempts
      /\ attempts \in [Requests -> 0..MaxRetryAttempts]
      /\ status \in [Requests -> TransferStatus \cup {"none"}]
  BY <1>1, StepAlone DEF PhaseInv, PhaseOf, FlowInv
<1>3. /\ \A op : Begins(Coordinator, op) => c.op = op
      /\ \A op : op # "none" /\ Resumes(Coordinator, {op}) => c.op = op
  BY BeginsTurns, ResumesTurns
<1>4. ASSUME NEW m \in Under(Coordinator)', m.about = i, m \notin Steps(i)
      PROVE  Fits(m, status'[i], attempts'[i])
  BY <1>1, <1>4 DEF Fits, Steps, IsStep, TransferOps, Early
<1> HIDE DEF c
<1>5. CASE HandleDepositFailure
  <2>1. /\ c.op = "handleDepositFailure" /\ status[i] = "withdrawn"
        /\ attempts[i] < MaxRetryAttempts /\ attempts'[i] = attempts[i] + 1
    <3>1. c.op = "handleDepositFailure"
      BY <1>3, <1>5 DEF HandleDepositFailure
    <3>2. attempts' = [attempts EXCEPT ![i] = @ + 1]
      BY <1>2, <1>5 DEF HandleDepositFailure
    <3> QED  BY <1>2, <3>1, <3>2 DEF Fits, Early
  <2>2. attempts'[i] \in 0..MaxRetryAttempts
    BY <1>2, <2>1 DEF MaxRetryAttempts
  <2>3. /\ status'[i] \in {"withdrawn", "failed-deposit"}
        /\ i \in timeouts' => status'[i] = "withdrawn" /\ attempts'[i] < MaxRetryAttempts
    <3>1. \/ status' = [status EXCEPT ![i] = "failed-deposit"] /\ timeouts' = timeouts
          \/ status' = status /\ timeouts' = timeouts
          \/ status' = status /\ ~(attempts'[i] >= MaxRetryAttempts)
      BY <1>2, <1>5 DEF HandleDepositFailure, schedulerVars
    <3> QED  BY <1>2, <2>1, <2>2, <3>1 DEF MaxRetryAttempts
  <2>4. ASSUME NEW m \in Under(Coordinator)', m \in Steps(i)
        PROVE  Fits(m, status'[i], attempts'[i])
    <3>1. NewToken(i, m)
      BY <1>1, <2>4
    <3>2. ~Deposited /\ ~Refunded /\ ~AttemptDeposit /\ ~ProcessRefund
      BY <1>3, <2>1 DEF Deposited, Refunded, AttemptDeposit, ProcessRefund
    <3>3. m.op = "processRefund" /\ status'[i] = "failed-deposit"
      BY <3>1, <3>2 DEF NewToken
    <3> QED  BY <3>3 DEF Fits, Early
  <2> QED  BY <1>4, <2>2, <2>3, <2>4 DEF PhaseOf
<1>6. CASE ~HandleDepositFailure
  <2>1. attempts' = attempts /\ i \notin timeouts'
    <3>1. ~RecordPendingTransfer
      BY <1>1, <1>3 DEF RecordPendingTransfer, Steps, IsStep, TransferOps
    <3> QED  BY <1>2, <1>6, <3>1, TransfersStay, TimersStep
  <2>2. status'[i] # "none"
    <3>1. ~RecordPendingTransfer
      BY <1>1, <1>3 DEF RecordPendingTransfer, Steps, IsStep, TransferOps
    <3>2. CASE Refunded
      BY <1>2, <3>2 DEF Refunded
    <3>3. CASE CompleteTransfer
      BY <1>2, <3>3 DEF CompleteTransfer
    <3> QED  BY <1>2, <1>6, <3>1, <3>2, <3>3, TransfersStay
  <2>3. ASSUME NEW m \in Under(Coordinator)', m \in Steps(i)
        PROVE  Fits(m, status'[i], attempts'[i])
    <3>1. NewToken(i, m)
      BY <1>1, <2>3
    <3>2. CASE (AttemptDeposit \/ ProcessRefund) /\ m = c
      <4>1. status' = status
        BY <3>2 DEF AttemptDeposit, ProcessRefund, OnlyMessages, transferVars
      <4> QED  BY <1>2, <2>1, <3>2, <4>1
    <3>3. CASE Deposited /\ m.op = IF answer[Coordinator] = "error"
                                   THEN "handleDepositFailure" ELSE "completeTransfer"
      <4>1. c.op = "attemptDeposit" /\ status' = status
        BY <1>3, <3>3 DEF Deposited, OnlyMessages, transferVars
      <4>2. status[i] = "withdrawn" /\ attempts[i] < MaxRetryAttempts
        BY <1>2, <4>1 DEF Fits, Early
      <4> QED  BY <2>1, <3>3, <4>1, <4>2 DEF Fits, Early
    <3>4. CASE Refunded /\ m.op = "completeTransfer" /\ status'[i] = "refunded"
      BY <3>4 DEF Fits, Early
    <3> QED  BY <1>6, <3>1, <3>2, <3>3, <3>4 DEF NewToken, c
  <2> QED  BY <1>2, <1>4, <2>1, <2>2, <2>3 DEF PhaseOf
<1> QED  BY <1>5, <1>6

LEMMA PhaseInvKeeps ==
    ASSUME MailInv, MailInv', MoneyInv, FlowInv, PhaseInv, [Next]_vars
    PROVE  PhaseInv'
<1>1. /\ pending \subseteq Requests
      /\ status \in [Requests -> TransferStatus \cup {"none"}]
  BY DEF FlowInv
<1>2. ASSUME NEW i \in Requests
      PROVE  PhaseOf(i)'
  <2>1. CASE ~CoordinatorSteps /\ ~Stops(Coordinator)
    BY <2>1, PhaseIdle
  <2>2. CASE Apart(i)
    BY <2>2, PhaseApart
  <2>3. CASE Withdraws(i)
    BY <2>3, PhaseWithdrawn
  <2>4. CASE /\ CoordinatorSteps /\ Turns(Coordinator)
             /\ About(Coordinator) = i /\ Current(Coordinator).op \in SelfSent
    <3>1. CASE Current(Coordinator).op \in TransferOps
      BY <2>4, <3>1, PhaseToken
    <3>2. CASE Current(Coordinator).op = "recordPendingTransfer"
      <4>1. RecordPendingTransfer
        <5>1. /\ \A op : Begins(Coordinator, op) => Current(Coordinator).op = op
              /\ \A op : op # "none" /\ Resumes(Coordinator, {op}) =>
                             Current(Coordinator).op = op
          BY BeginsTurns, ResumesTurns
        <5> QED
          BY <2>4, <3>2, <5>1 DEF CoordinatorSteps, RegisterAccount, InitiateTransfer,
             Withdrawn, AttemptDeposit, Deposited, HandleDepositFailure, ProcessRefund,
             Refunded, CompleteTransfer, GetPendingTransfers
      <4> QED  BY <2>4, <4>1, PhaseRecorded
    <3> QED  BY <2>4, <3>1, <3>2 DEF SelfSent
  <2> QED  BY <1>1, <2>1, <2>2, <2>3, <2>4, CoordinatorApart
<1>3. attempts' \in [Requests -> 0..MaxRetryAttempts]
  <2>1. CASE attempts' = attempts
    BY <2>1 DEF PhaseInv
  <2>2. CASE HandleDepositFailure
    <3> DEFINE i == About(Coordinator)
    <3>1. Turns(Coordinator) /\ Current(Coordinator).op = "handleDepositFailure"
      BY <2>2, BeginsTurns DEF HandleDepositFailure
    <3>2. i \in Requests /\ Current(Coordinator).op \in TransferOps /\ CoordinatorSteps
      BY <2>2, <3>1, CoordinatorIs DEF Proper, About, TransferOps, CoordinatorSteps
    <3>3. attempts'[i] \in 0..MaxRetryAttempts
      BY <3>1, <3>2, PhaseToken
    <3>4. attempts' = attempts \/ attempts' = [attempts EXCEPT ![i] = @ + 1]
      BY <2>2 DEF HandleDepositFailure
    <3> HIDE DEF i
    <3>5. attempts \in [Requests -> 0..MaxRetryAttempts]
      BY DEF PhaseInv
    <3> QED  BY <3>2, <3>3, <3>4, <3>5
  <2>3. CASE RecordPendingTransfer
    BY <2>3 DEF RecordPendingTransfer, PhaseInv
  <2> QED  BY <2>1, <2>2, <2>3, TransfersStay
<1> QED  BY <1>2, <1>3 DEF PhaseInv

LEMMA InitPhase == Init => PhaseInv
<1> SUFFICES ASSUME Init  PROVE PhaseInv
  OBVIOUS
<1>1. /\ queue[Coordinator] = <<>> /\ handling[Coordinator] = None
      /\ timeouts = {} /\ status = [i \in Requests |-> "none"]
      /\ attempts = [i \in Requests |-> 0]
  BY ActorNames DEF Init, StageInit, CoordinatorInit, SchedulerInit, Callers
<1>2. Under(Coordinator) = {}
  BY <1>1, EmptyQueue DEF Under
<1> QED  BY <1>1, <1>2 DEF PhaseInv, PhaseOf, MaxRetryAttempts

-----------------------------------------------------------------------------
(* Who serves a request at whose request *)

LEMMA TellerServes ==
    ASSUME MailInv, CallInv, NEW m \in Under(Teller), m.op # "stop"
    PROVE  /\ m.about \in Requests /\ m.about \in DOMAIN workload.commands
           /\ m.op = Command(m.about).command /\ m.reply = Client
           /\ outcome[m.about] = "pending"
<1>1. Teller \in Actors /\ Teller # Bank /\ Teller # Coordinator /\ Teller \notin Accounts
  BY ActorNames DEF Callers
<1>2. Proper(Teller, m) /\ Served(m)
  BY <1>1 DEF MailInv, CallInv
<1> QED  BY <1>1, <1>2 DEF Proper, Served

LEMMA BankServes ==
    ASSUME MailInv, CallInv, NEW m \in Under(Bank), m.op # "stop"
    PROVE  /\ m.about \in Requests /\ m.about \in DOMAIN workload.commands
           /\ m.op = Command(m.about).command /\ m.reply = Teller
           /\ Doing(m.about, Teller, m.op) /\ answer[Teller] = "pending"
           /\ outcome[m.about] = "pending"
           /\ handling[Teller].reply = Client
<1>1. /\ Bank \in Actors /\ Teller \in Actors /\ Teller # Bank /\ Bank # Coordinator
      /\ Bank \notin Accounts
  BY ActorNames DEF Callers
<1>2. Proper(Bank, m) /\ Served(m)
  BY <1>1 DEF MailInv, CallInv
<1>3. /\ m.about \in Requests /\ m.about \in DOMAIN workload.commands
      /\ m.op = Command(m.about).command /\ m.reply = Teller
  BY <1>1, <1>2 DEF Proper
<1>4. /\ handling[Teller] # None /\ answer[Teller] = "pending"
      /\ m.about = handling[Teller].about
      /\ <<Teller, handling[Teller].op, m.op>> \in Awaits
  BY <1>2, <1>3 DEF Served, Callers
<1>5. handling[Teller].op = m.op /\ handling[Teller] \in Under(Teller)
  BY <1>1, <1>4, ActorNames, UnderIs DEF Awaits, Callers
<1> QED  BY <1>1, <1>2, <1>3, <1>4, <1>5, TellerServes DEF Doing, Serves

LEMMA CoordinatorServes ==
    ASSUME MailInv, CallInv, NEW m \in Under(Coordinator), m.op = "initiateTransfer"
    PROVE  /\ m.about \in Requests /\ m.about \in DOMAIN workload.commands
           /\ Command(m.about).command = "transfer" /\ m.reply = Bank
           /\ Doing(m.about, Bank, "transfer") /\ answer[Bank] = "pending"
           /\ Doing(m.about, Teller, "transfer") /\ answer[Teller] = "pending"
           /\ outcome[m.about] = "pending"
<1>1. /\ Bank \in Actors /\ Coordinator \in Actors /\ Bank # Coordinator /\ Teller # Bank
      /\ Teller # Coordinator /\ Coordinator \notin Accounts
  BY ActorNames DEF Callers
<1>2. Proper(Coordinator, m) /\ Served(m)
  BY <1>1 DEF MailInv, CallInv
<1>3. m.reply = Bank
  BY <1>1, <1>2 DEF Proper, SelfSent, TransferOps
<1>4. /\ handling[Bank] # None /\ answer[Bank] = "pending"
      /\ m.about = handling[Bank].about
      /\ <<Bank, handling[Bank].op, "initiateTransfer">> \in Awaits
  BY <1>2, <1>3 DEF Served, Callers
<1>5. handling[Bank].op = "transfer" /\ handling[Bank] \in Under(Bank)
  BY <1>1, <1>4, UnderIs DEF Awaits, Commands, Formatted, Queries
<1> QED  BY <1>1, <1>3, <1>4, <1>5, BankServes DEF Doing, Serves

(* What an account is asked to do is awaited. *)
LEMMA AccountServes ==
    ASSUME MailInv, CallInv, NEW a \in Accounts, NEW m \in Under(a), m.op \in Moves
    PROVE  /\ m.about \in Requests /\ m.about \in DOMAIN workload.commands
           /\ m.reply \in {Bank, Coordinator}
           /\ m.reply = Bank => Doing(m.about, Bank, m.op) /\ answer[Bank] = "pending"
           /\ m.reply = Coordinator =>
                  /\ Serves(Coordinator, m.about) /\ answer[Coordinator] = "pending"
                  /\ <<handling[Coordinator].op, m.op>> \in
                         {<<"initiateTransfer", "withdraw">>,
                          <<"attemptDeposit", "deposit">>, <<"processRefund", "refund">>}
<1>1. /\ Bank \in Actors /\ Coordinator \in Actors /\ Bank # Coordinator /\ Teller # Bank
      /\ Teller # Coordinator /\ a \in Actors /\ a \notin {Teller, Bank, Coordinator}
  BY ActorNames DEF Callers
<1>2. Proper(a, m) /\ Served(m) /\ m.op # "stop"
  BY <1>1 DEF MailInv, CallInv, Moves
<1>3. m.about \in Requests /\ m.about \in DOMAIN workload.commands /\ m.reply \in {Bank, Coordinator}
  BY <1>1, <1>2 DEF Proper
<1>4. /\ handling[m.reply] # None /\ answer[m.reply] = "pending"
      /\ m.about = handling[m.reply].about
      /\ <<m.reply, handling[m.reply].op, m.op>> \in Awaits
  BY <1>2, <1>3 DEF Served, Callers
<1>5. m.reply = Bank => handling[Bank].op = m.op
  BY <1>1, <1>4 DEF Awaits, Moves
<1>6. m.reply = Coordinator => <<handling[Coordinator].op, m.op>> \in
          {<<"initiateTransfer", "withdraw">>,
           <<"attemptDeposit", "deposit">>, <<"processRefund", "refund">>}
  BY <1>1, <1>4 DEF Awaits
<1> QED  BY <1>1, <1>3, <1>4, <1>5, <1>6 DEF Doing, Serves

LEMMA CallsReach ==
    ASSUME MailInv, MailInv', MoneyInv, NEW a \in Callers, NEW b \in Names,
           NEW op \in AllOps, Turns(a), Calls(a, b, op),
           NEW x \in Actors, NEW m \in Under(x)', m \notin Under(x)
    PROVE  x = b /\ m.op = op /\ m.about = About(a) /\ m.reply = a
<1> DEFINE n == Message(b, op, About(a), a, own'[b])
<1>1. /\ a \in Actors /\ Busy(a) /\ Current(a) \in Messages /\ Current(a) \in Under(a)
      /\ Rest(a) \in [Actors -> Seq(Messages)]
      /\ \A y \in Actors \ {a} : Rest(a)[y] = queue[y]
      /\ Under(a) = ToSet(Rest(a)[a]) \cup {Current(a)}
      /\ About(a) \in Requests \cup {0}
  <2>1. a \in Actors /\ Busy(a)
    BY TurnsBusy, ActorNames
  <2> QED  BY <2>1, CurrentMessage DEF About, Messages
<1>2. /\ handling' = [handling EXCEPT ![a] = Current(a)]
      /\ \/ queue' = [Rest(a) EXCEPT ![b] = Append(@, n)]
         \/ queue' = Rest(a)
  BY DEF Calls, About
<1>3. ToSet(Rest(a)[x]) \subseteq Under(x) /\ Rest(a)[x] \in Seq(Messages)
  BY <1>1, UnderIs
<1>4. handling'[x] # None => handling'[x] \in Under(x)
  BY <1>1, <1>2, UnderIs DEF MailInv
<1>5. ToSet(queue'[x]) \subseteq ToSet(Rest(a)[x]) \cup (IF x = b THEN {n} ELSE {})
      /\ (x = b => n \in Messages /\ n.op = op /\ n.about = About(a) /\ n.reply = a)
  <2>1. x = b => n \in Messages /\ n.op = op /\ n.about = About(a) /\ n.reply = a
    <3>1. x = b => own'[b] \in Requests \cup {0}
      BY <1>1, TurnOwn
    <3> QED  BY <1>1, <3>1, NewMessage
  <2> HIDE DEF n
  <2>2. x = b => ToSet(Append(Rest(a)[x], n)) = ToSet(Rest(a)[x]) \cup {n}
    BY <1>3, <2>1, QueueEnds
  <2>3. queue'[x] = Rest(a)[x] \/ (x = b /\ queue'[x] = Append(Rest(a)[x], n))
    BY <1>1, <1>2
  <2> QED  BY <2>1, <2>2, <2>3
<1>6. m \in ToSet(queue'[x]) \/ (handling'[x] # None /\ m = handling'[x])
  BY UnderPrimed
<1> HIDE DEF n
<1> QED  BY <1>3, <1>4, <1>5, <1>6

(* Who goes on with its message, or ends it, sends nothing. *)
Keeps(a) == /\ queue' = Rest(a)
            /\ handling'[a] \in {Current(a), None}
            /\ \A x \in Actors \ {a} : handling'[x] = handling[x]

LEMMA NothingReaches ==
    ASSUME MailInv, MailInv', NEW a \in Actors, Busy(a), Keeps(a), NEW x \in Actors
    PROVE  Under(x)' \subseteq Under(x)
<1>1. /\ Current(a) \in Under(a)
      /\ \A y \in Actors \ {a} : Rest(a)[y] = queue[y]
      /\ Under(a) = ToSet(Rest(a)[a]) \cup {Current(a)}
  BY CurrentMessage
<1>2. ToSet(queue'[x]) \subseteq Under(x)
  BY <1>1, UnderIs DEF Keeps
<1>3. handling'[x] # None => handling'[x] \in Under(x)
  BY <1>1, UnderIs DEF Keeps, MailInv
<1> QED  BY <1>2, <1>3, UnderPrimed

LEMMA EndsKeep ==
    ASSUME MailInv, NEW a \in Actors, Busy(a)
    PROVE  /\ Throws(a) \/ (\E result : Returns(a, result)) => Keeps(a)
           /\ PassesOn(a) => Keeps(a)
           /\ AwaitsHistory(a) => Keeps(a)
<1>1. \A result : Ends(a, result) /\ queue' = Rest(a) => Keeps(a)
  BY DEF Ends, Keeps, MailInv
<1>2. Throws(a) \/ (\E result : Returns(a, result)) => Keeps(a)
  BY <1>1 DEF Throws, Returns
<1>3. AwaitsHistory(a) => Keeps(a)
  BY DEF AwaitsHistory, Keeps, MailInv
<1> QED  BY <1>2, <1>3 DEF PassesOn

LEMMA BankAddresses ==
    ASSUME MailInv, MailInv', MoneyInv, CallInv, BankSteps,
           NEW x \in Accounts, NEW m \in Under(x)', m \notin Under(x), m.op \in Moves
    PROVE  Addressed(x, m)
<1>1. /\ Bank \in Actors /\ x \in Actors /\ x # Bank /\ x # Coordinator /\ x # Teller
      /\ Bank \in Callers /\ Coordinator \in Names /\ Bank # Coordinator
      /\ \A y \in Nat : y \in Names
  BY ActorNames DEF Callers, Names
<1>2. /\ \A op : Begins(Bank, op) => Turns(Bank) /\ Busy(Bank) /\ Current(Bank).op = op
      /\ \A ops : "none" \notin ops /\ Resumes(Bank, ops) =>
             Turns(Bank) /\ Busy(Bank) /\ Current(Bank).op \in ops
  BY BeginsTurns, ResumesTurns
<1>3. Busy(Bank) => ~Keeps(Bank)
  BY <1>1, NothingReaches
<1>4. \A b \in Names, op \in AllOps : Turns(Bank) /\ Calls(Bank, b, op) =>
          x = b /\ m.op = op /\ m.about = About(Bank) /\ m.reply = Bank
  BY <1>1, CallsReach
<1>5. Busy(Bank) => /\ ~Throws(Bank) /\ ~PassesOn(Bank)
                    /\ \A result : ~Returns(Bank, result)
  BY <1>1, <1>3, EndsKeep
<1>6. /\ {"registerAccount", "initiateTransfer", "getPendingTransfers", "getInfo",
          "getHistory", "deposit", "withdraw"} \subseteq AllOps
      /\ {"getInfo", "getHistory"} \cap Moves = {}
  BY BankCallOps DEF Moves
<1>7. /\ ~OpenAccount /\ ~Transfer /\ ~PendingTransfers
      /\ ~AccountOpened /\ ~TransferInitiated /\ ~BankAnswers
  <2>1. ~OpenAccount
    BY <1>1, <1>2, <1>4, <1>5, <1>6 DEF OpenAccount
  <2>2. ~Transfer /\ ~PendingTransfers
    BY <1>1, <1>2, <1>4, <1>5, <1>6 DEF Transfer, PendingTransfers
  <2>3. ~AccountOpened /\ ~TransferInitiated
    BY <1>2, <1>5 DEF AccountOpened, TransferInitiated
  <2>4. ~BankAnswers
    <3>1. "none" \notin Queries \cup {"deposit", "withdraw", "pendingTransfers"}
      BY DEF Queries
    <3> QED  BY <1>2, <1>5, <3>1 DEF BankAnswers
  <2> QED  BY <2>1, <2>2, <2>3, <2>4
<1>8. /\ ~AccountSummary /\ ~TransactionHistory /\ ~AllAccounts
  <2>1. \A i : Exists(NumberOf(i)) => NumberOf(i) \in Names
    BY <1>1 DEF Exists, MoneyInv
  <2>2. ~AccountSummary
    BY <1>2, <1>4, <1>5, <1>6, <2>1 DEF AccountSummary
  <2>3. ~TransactionHistory
    BY <1>2, <1>4, <1>5, <1>6, <2>1 DEF TransactionHistory
  <2>4. ASSUME AllAccounts  PROVE FALSE
    <3>1. Turns(Bank) /\ Busy(Bank)
      BY <1>2, <2>4 DEF AllAccounts
    <3>2. Calls(Bank, Len(infos') + 1, "getInfo")
      BY <1>5, <2>4, <3>1 DEF AllAccounts
    <3>3. Len(infos') + 1 \in Nat
      <4>1. \A v \in Answers : Append(infos, v) \in Seq(Answers)
        BY DEF MailInv
      <4>2. infos' \in Seq(Answers)
        BY <1>1, <2>4, <4>1 DEF AllAccounts, MailInv
      <4> QED  BY <4>2
    <3> QED  BY <1>1, <1>4, <1>6, <3>1, <3>2, <3>3
  <2> QED  BY <2>2, <2>3, <2>4
<1>9. ASSUME NEW op \in {"deposit", "withdraw"}, FindAccount(op)
      PROVE  FALSE
  <2>1. Busy(Bank)
    BY <1>2, <1>9 DEF FindAccount
  <2>2. handling' = [handling EXCEPT ![Bank] = Current(Bank)] /\ queue' = Rest(Bank)
    BY <1>5, <1>9, <2>1 DEF FindAccount
  <2> QED  BY <1>1, <1>3, <2>1, <2>2 DEF Keeps, MailInv
<1>10. ASSUME NEW op \in {"deposit", "withdraw"}, AccountFound(op)
       PROVE  Addressed(x, m)
  <2>1. Turns(Bank) /\ Busy(Bank) /\ Current(Bank).op = op
    BY <1>2, <1>10 DEF AccountFound
  <2>2. /\ Calls(Bank, NumberOf(About(Bank)), op) /\ NumberOf(About(Bank)) \in DOMAIN balance
    BY <1>5, <1>10, <2>1 DEF AccountFound, Exists
  <2>3. /\ x = Command(About(Bank)).account /\ m.op = op /\ m.about = About(Bank)
        /\ m.reply = Bank /\ x \in DOMAIN balance
    <3>1. NumberOf(About(Bank)) \in Names
      BY <1>1, <2>2 DEF MoneyInv
    <3> QED  BY <1>4, <1>6, <2>1, <2>2, <3>1 DEF NumberOf
  <2>4. op = Command(About(Bank)).command
    <3>1. Current(Bank) \in Under(Bank) /\ op # "stop"
      BY <1>1, <2>1, CurrentMessage
    <3> QED  BY <2>1, <3>1, BankServes DEF About
  <2> QED  BY <1>1, <2>3, <2>4 DEF Addressed, Site
<1> QED  BY <1>7, <1>8, <1>9, <1>10 DEF BankSteps

LEMMA CoordinatorAddresses ==
    ASSUME MailInv, MailInv', MoneyInv, CallInv, TransferInv, AddressInv,
           CoordinatorSteps, NEW x \in Accounts, NEW m \in Under(x)', m \notin Under(x),
           m.op \in Moves
    PROVE  Addressed(x, m)
<1> DEFINE i == About(Coordinator)
<1>1. /\ Coordinator \in Actors /\ x \in Actors /\ x # Coordinator
      /\ Coordinator \in Callers /\ Bank # Coordinator /\ \A y \in Nat : y \in Names
      /\ x # 0
  BY ActorNames DEF Callers, Names
<1>2. /\ \A op : Begins(Coordinator, op) => Turns(Coordinator) /\ Busy(Coordinator)
                                            /\ Current(Coordinator).op = op
      /\ \A op : op # "none" /\ Resumes(Coordinator, {op}) =>
             Turns(Coordinator) /\ Busy(Coordinator) /\ Current(Coordinator).op = op
  BY BeginsTurns, ResumesTurns
<1>3. Busy(Coordinator) => ~Keeps(Coordinator)
  BY <1>1, NothingReaches
<1>4. \A b \in Names, op \in AllOps : Turns(Coordinator) /\ Calls(Coordinator, b, op) =>
          x = b /\ m.op = op /\ m.about = i /\ m.reply = Coordinator
  BY <1>1, CallsReach
<1>5. Busy(Coordinator) => /\ ~Throws(Coordinator)
                           /\ \A result : ~Returns(Coordinator, result)
  BY <1>1, <1>3, EndsKeep
<1>6. \A ops, result : Busy(Coordinator) => ~SendsItself(Coordinator, ops, result)
  <2> SUFFICES ASSUME NEW ops, NEW result, Busy(Coordinator),
                      SendsItself(Coordinator, ops, result)
               PROVE  FALSE
    OBVIOUS
  <2>1. /\ Rest(Coordinator) \in [Actors -> Seq(Messages)]
        /\ \A y \in Actors \ {Coordinator} : Rest(Coordinator)[y] = queue[y]
    BY <1>1, CurrentMessage
  <2>2. queue'[x] = queue[x] /\ handling'[x] = handling[x]
    BY <1>1, <2>1 DEF SendsItself, Ends, MailInv
  <2>3. Under(x)' = Under(x)
    BY <1>1, <2>2, UnderIs, UnderPrimed
  <2> QED  BY <2>3
<1>7. {"deposit", "withdraw", "refund"} \subseteq AllOps
  BY BankCallOps
<1>8. Turns(Coordinator) /\ Current(Coordinator).op # "stop" =>
          /\ i \in Requests /\ TransferOf(i).from \in Nat /\ TransferOf(i).to \in Nat
          /\ TransferOf(i).from = Command(i).account /\ TransferOf(i).to = Command(i).to
          /\ Current(Coordinator) \in Under(Coordinator) /\ Current(Coordinator).about = i
  <2> SUFFICES ASSUME Turns(Coordinator), Current(Coordinator).op # "stop"
               PROVE  /\ i \in Requests /\ i \in DOMAIN workload.commands
                      /\ Current(Coordinator) \in Under(Coordinator)
    BY CommandTypes DEF TransferOf, About
  <2> QED  BY CoordinatorIs, CurrentMessage DEF Proper, About
<1>9. ASSUME Turns(Coordinator), Current(Coordinator).op \in SelfSent
      PROVE  /\ Command(i).command = "transfer"
             /\ TransferOf(i).from \in DOMAIN balance /\ TransferOf(i).to \in DOMAIN balance
  <2>1. Current(Coordinator).op # "stop"
    BY <1>9 DEF SelfSent, TransferOps
  <2>2. Moving(i)
    BY <1>8, <1>9, <2>1 DEF Moving
  <2>3. i \in Requests
    BY <1>8, <1>9, <2>1
  <2> HIDE DEF i
  <2>4. Command(i).command = "transfer"
    BY <2>2, <2>3 DEF AddressInv
  <2>5. {TransferOf(i).from, TransferOf(i).to} \subseteq registered
    BY <2>2, <2>3 DEF TransferInv
  <2> QED  BY <2>4, <2>5 DEF MoneyInv
<1>10. CASE InitiateTransfer
  <2>1. /\ Turns(Coordinator) /\ Busy(Coordinator)
        /\ Current(Coordinator).op = "initiateTransfer"
    BY <1>2, <1>10 DEF InitiateTransfer
  <2>2. /\ Calls(Coordinator, TransferOf(i).from, "withdraw")
        /\ TransferOf(i).from \in registered
    BY <1>5, <1>10, <2>1 DEF InitiateTransfer
  <2>3. Command(i).command = "transfer"
    BY <1>8, <2>1, CoordinatorServes
  <2>4. /\ x = Command(i).account /\ m.op = "withdraw" /\ m.about = i
        /\ m.reply = Coordinator /\ x \in DOMAIN balance
    BY <1>1, <1>4, <1>7, <1>8, <2>1, <2>2 DEF MoneyInv
  <2> HIDE DEF i
  <2> QED  BY <1>1, <2>3, <2>4 DEF Addressed, Site
<1>11. CASE AttemptDeposit
  <2>1. /\ Turns(Coordinator) /\ Busy(Coordinator)
        /\ Current(Coordinator).op = "attemptDeposit"
    BY <1>2, <1>11 DEF AttemptDeposit
  <2>2. Calls(Coordinator, TransferOf(i).to, "deposit")
    BY <1>5, <1>11, <2>1 DEF AttemptDeposit
  <2>3. /\ x = Command(i).to /\ m.op = "deposit" /\ m.about = i
        /\ m.reply = Coordinator /\ x \in DOMAIN balance
        /\ Command(i).command = "transfer"
    BY <1>1, <1>4, <1>7, <1>8, <1>9, <2>1, <2>2, SelfSentOps
  <2> HIDE DEF i
  <2> QED  BY <1>1, <2>3 DEF Addressed, Site
<1>12. CASE ProcessRefund
  <2>1. /\ Turns(Coordinator) /\ Busy(Coordinator)
        /\ Current(Coordinator).op = "processRefund"
    BY <1>2, <1>12 DEF ProcessRefund
  <2>2. Calls(Coordinator, TransferOf(i).from, "refund")
    BY <1>5, <1>12, <2>1 DEF ProcessRefund
  <2>3. /\ x = Command(i).account /\ m.op = "refund" /\ m.about = i
        /\ m.reply = Coordinator /\ x \in DOMAIN balance
        /\ Command(i).command = "transfer"
    BY <1>1, <1>4, <1>7, <1>8, <1>9, <2>1, <2>2, SelfSentOps
  <2> HIDE DEF i
  <2> QED  BY <1>1, <2>3 DEF Addressed, Site
<1>13. \/ InitiateTransfer \/ AttemptDeposit \/ ProcessRefund
  BY <1>2, <1>5, <1>6 DEF CoordinatorSteps, RegisterAccount, Withdrawn,
     RecordPendingTransfer, Deposited, HandleDepositFailure, Refunded, CompleteTransfer,
     GetPendingTransfers
<1> QED  BY <1>10, <1>11, <1>12, <1>13

(* Nobody but bank and coordinator asks an account. *)
LEMMA OthersAddresses ==
    ASSUME MailInv, MailInv', MoneyInv, [Next]_vars, ~BankSteps, ~CoordinatorSteps,
           NEW x \in Accounts, NEW m \in Under(x)', m \notin Under(x), m.op # "stop"
    PROVE  FALSE
<1>1. /\ x \in Actors /\ x \notin Callers /\ Teller \in Actors /\ Bank \in Actors
      /\ Teller \in Callers /\ Bank \in Callers /\ Bank \in Names
      /\ Teller # x /\ Bank # x /\ Coordinator # x
  BY ActorNames DEF Callers, Names
<1>2. /\ Under(x)' = ToSet(queue'[x]) \cup
             (IF handling'[x] = None THEN {} ELSE {handling'[x]})
      /\ Under(x) = ToSet(queue[x]) \cup
             (IF handling[x] = None THEN {} ELSE {handling[x]})
      /\ queue[x] \in Seq(Messages)
  BY <1>1, UnderIs, UnderPrimed DEF MailInv
<1>3. ~(queue'[x] = queue[x] /\ handling'[x] = handling[x])
  BY <1>2
<1>4. \A a \in Actors : Busy(a) => ~Keeps(a)
  BY <1>1, NothingReaches
<1>5. \A a \in Actors : Busy(a) => /\ ~Throws(a) /\ ~PassesOn(a) /\ ~AwaitsHistory(a)
                                   /\ \A result : ~Returns(a, result)
  BY <1>4, EndsKeep
<1>6. ASSUME NEW op \in Commands, TellerAsks(op) \/ TellerAnswers(op)
      PROVE  FALSE
  <2>1. "none" \notin Commands /\ op # "none"
    BY DEF Commands, Formatted, Queries
  <2>2. Turns(Teller) /\ Busy(Teller)
    BY <1>6, <2>1, BeginsTurns, ResumesTurns DEF TellerAsks, TellerAnswers
  <2>3. Calls(Teller, Bank, op)
    BY <1>1, <1>5, <1>6, <2>2 DEF TellerAsks, TellerAnswers
  <2>4. op \in AllOps
    BY DEF AllOps
  <2> QED  BY <1>1, <2>2, <2>3, <2>4, CallsReach
<1>7. ASSUME NEW a \in Accounts, AccountSteps(a) \/ HistorySettles(a)
      PROVE  FALSE
  <2>1. a \in Actors
    BY ActorNames
  <2>2. CASE AccountSteps(a)
    <3>1. Busy(a)
      BY <2>2, BeginsTurns DEF AccountSteps, Deposit, Withdraw, Refund, GetInfo, GetHistory
    <3> QED
      BY <1>5, <2>1, <2>2, <3>1 DEF AccountSteps, Deposit, Withdraw, Refund, GetInfo,
         GetHistory
  <2>3. CASE HistorySettles(a)
    <3>1. Busy(a)
      BY <2>3, NoneIsNoMessage DEF HistorySettles, HistoryAnswers, HistoryRejects,
         HistoryOps, Moves, Busy
    <3> QED
      BY <1>5, <2>1, <2>3, <3>1 DEF HistorySettles, HistoryAnswers, HistoryRejects
  <2> QED  BY <1>7, <2>2, <2>3
<1>8. ASSUME NEW a \in Actors,
             BankSupervisor(a) \/ TransferSupervisor(a) \/ AccountSupervisor(a)
      PROVE  FALSE
  BY <1>3, <1>8 DEF BankSupervisor, TransferSupervisor, AccountSupervisor, DecidesToResume
<1>9. ASSUME NEW a \in Actors, StageStops(a) \/ ParentStops(a)
      PROVE  FALSE
  <2>1. PICK n : n = Message(a, "stop", 0, Nobody, own[a])
    OBVIOUS
  <2>2. /\ queue' = [queue EXCEPT ![a] = Append(@, n)] /\ handling' = handling
    BY <1>9, <2>1 DEF StageStops, ParentStops, SendsStop
  <2>3. n \in Messages /\ n.op = "stop"
    <3>1. own[a] \in Requests \cup {0} /\ "stop" \in AllOps
      BY BankCallOps DEF MailInv
    <3> QED  BY <2>1, <3>1, NewMessage
  <2>4. ToSet(Append(queue[x], n)) = ToSet(queue[x]) \cup {n}
    BY <1>2, <2>3, QueueEnds
  <2>5. queue'[x] = queue[x] \/ queue'[x] = Append(queue[x], n)
    BY <1>1, <2>2 DEF MailInv
  <2> QED  BY <1>2, <2>2, <2>3, <2>4, <2>5
<1>10. ASSUME NEW a \in Actors, Stops(a)
       PROVE  FALSE
  BY <1>5, <1>10, BeginsTurns DEF Stops
<1>11. ASSUME NEW i \in Requests, RetryFires(i) \/ ClientCalls(i)
       PROVE  FALSE
  BY <1>1, <1>3, <1>11 DEF RetryFires, ClientCalls, MailInv
<1>12. CASE BankBeginsToStop
  <2>1. Busy(Bank)
    BY <1>12, BeginsTurns DEF BankBeginsToStop
  <2> QED  BY <1>1, <1>4, <1>12, <2>1 DEF BankBeginsToStop, Keeps, MailInv
<1>13. CASE BankStops
  <2>1. Busy(Bank)
    BY <1>13, NoneIsNoMessage DEF BankStops, Busy
  <2> QED  BY <1>1, <1>5, <1>13, <2>1 DEF BankStops
<1>14. CASE CloseStage \/ UNCHANGED vars \/ \E t \in Others : OthersSchedule(t)
  BY <1>3, <1>14 DEF CloseStage, OthersSchedule, vars, messageVars
<1>15. CASE Progress
  BY <1>6, <1>7, <1>8, <1>11, <1>15 DEF Progress
<1> QED
  BY <1>7, <1>9, <1>10, <1>11, <1>12, <1>13, <1>14, <1>15 DEF Next

LEMMA AddressInvKeeps ==
    ASSUME Inv, Inv', AddressInv, [Next]_vars
    PROVE  AddressInv'
<1>1. /\ MailInv /\ MailInv' /\ MoneyInv /\ CallInv /\ TransferInv
      /\ workload' = workload /\ DOMAIN balance \subseteq DOMAIN balance'
  <2>1. MailInv /\ MailInv' /\ MoneyInv /\ CallInv /\ TransferInv
    BY DEF Inv
  <2> QED  BY <2>1, SmallTypes, AccountsGrow
<1>2. ASSUME NEW i \in Requests, Moving(i)'
      PROVE  Command(i)'.command = "transfer"
  <2>1. CASE Moving(i)
    BY <1>1, <2>1 DEF AddressInv, Command
  <2>2. CASE Initiates(i)
    <3>1. /\ Current(Coordinator) \in Under(Coordinator)
          /\ Current(Coordinator).op = "initiateTransfer" /\ Current(Coordinator).about = i
      BY <1>1, <2>2, CoordinatorIs, CurrentMessage DEF Initiates, About
    <3>2. Command(i).command = "transfer"
      BY <1>1, <3>1, CoordinatorServes
    <3> QED  BY <1>1, <3>2 DEF Command
  <2> QED  BY <1>1, <1>2, <2>1, <2>2, MovingStep
<1>3. ASSUME NEW a \in Accounts, NEW m \in Under(a)', m.op \in Moves
      PROVE  Addressed(a, m)'
  <2>1. Addressed(a, m)
    <3>1. CASE m \in Under(a)
      BY <1>3, <3>1 DEF AddressInv
    <3>2. CASE m \notin Under(a)
      <4>1. m.op # "stop"
        BY <1>3 DEF Moves
      <4> QED
        BY <1>1, <1>3, <3>2, <4>1, OthersAddresses, BankAddresses, CoordinatorAddresses
    <3> QED  BY <3>1, <3>2
  <2> QED  BY <1>1, <2>1 DEF Addressed, Site, Command
<1> QED  BY <1>2, <1>3 DEF AddressInv

LEMMA InitAddresses == Init => AddressInv
<1> SUFFICES ASSUME Init  PROVE AddressInv
  OBVIOUS
<1>1. \A a \in Actors : queue[a] = <<>> /\ handling[a] = None
  BY DEF Init, StageInit
<1>2. \A a \in Actors : Under(a) = {}
  BY <1>1, EmptyQueue DEF Under
<1>3. /\ Coordinator \in Actors /\ Accounts \subseteq Actors /\ timeouts = {}
      /\ handling[Coordinator].op # "initiateTransfer"
  BY <1>1, ActorNames, NoneIsNoMessage DEF Init, SchedulerInit, Callers
<1> QED  BY <1>2, <1>3 DEF AddressInv, Moving

LEMMA ClosedStay ==
    ASSUME [Next]_vars, NEW x \in closed', x \notin closed
    PROVE  (x \in Actors /\ Stops(x)) \/ (x = Bank /\ BankStops)
<1>1. CASE CoordinatorSteps
  BY <1>1 DEF CoordinatorSteps, RegisterAccount, InitiateTransfer, Withdrawn,
     RecordPendingTransfer, AttemptDeposit, Deposited, HandleDepositFailure, ProcessRefund,
     Refunded, CompleteTransfer, GetPendingTransfers, OnlyMessages, stageVars
<1>2. CASE BankSteps
  BY <1>2 DEF BankSteps, OpenAccount, AccountOpened, FindAccount, AccountFound,
     AccountSummary, TransactionHistory, AllAccounts, Transfer, TransferInitiated,
     PendingTransfers, BankAnswers, OnlyMessages, stageVars
<1>3. ASSUME NEW op \in Commands, TellerAsks(op) \/ TellerAnswers(op)
      PROVE  FALSE
  BY <1>3 DEF TellerAsks, TellerAnswers, OnlyMessages, stageVars
<1>4. ASSUME NEW a \in Accounts, AccountSteps(a) \/ HistorySettles(a)
      PROVE  FALSE
  BY <1>4 DEF AccountSteps, Deposit, Withdraw, Refund, GetInfo, GetHistory,
     HistorySettles, HistoryAnswers, HistoryRejects, OnlyMessages, stageVars
<1>5. ASSUME NEW a \in Actors,
             \/ BankSupervisor(a) \/ TransferSupervisor(a) \/ AccountSupervisor(a)
             \/ StageStops(a) \/ ParentStops(a)
      PROVE  FALSE
  BY <1>5 DEF BankSupervisor, TransferSupervisor, AccountSupervisor, DecidesToResume,
     StageStops, ParentStops, SendsStop, OnlyMessages, stageVars
<1>6. ASSUME NEW a \in Actors, Stops(a)
      PROVE  x = a
  BY <1>6 DEF Stops
<1>7. ASSUME NEW i \in Requests, RetryFires(i) \/ ClientCalls(i)
      PROVE  FALSE
  BY <1>7 DEF RetryFires, ClientCalls, OnlyMessages, stageVars
<1>8. CASE CloseStage \/ BankBeginsToStop \/ UNCHANGED vars
           \/ \E t \in Others : OthersSchedule(t)
  BY <1>8 DEF CloseStage, BankBeginsToStop, OthersSchedule, vars, stageVars
<1>9. CASE BankStops
  BY <1>9 DEF BankStops
<1>10. CASE Progress
  BY <1>1, <1>2, <1>3, <1>4, <1>5, <1>7, <1>10 DEF Progress
<1> QED
  BY <1>4, <1>5, <1>6, <1>7, <1>8, <1>9, <1>10 DEF Next

LEMMA ClosedInvKeeps ==
    ASSUME MailInv, MoneyInv, ClosedInv, [Next]_vars
    PROVE  ClosedInv'
<1>1. SendingStep
  BY NextIsMailStep, MailIsSending
<1>2. \A x \in Actors : \/ handling'[x] = handling[x] \/ handling'[x] = None
                        \/ Turns(x) /\ handling'[x] = Current(x)
  BY <1>1, HandlingStep
<1>3. ASSUME NEW x \in closed  PROVE x \in Actors /\ handling'[x] = None
  BY <1>2 DEF ClosedInv, Turns
<1>4. ASSUME NEW x \in closed', x \notin closed  PROVE x \in Actors /\ handling'[x] = None
  <2>1. (x \in Actors /\ Stops(x)) \/ (x = Bank /\ BankStops)
    BY <1>4, ClosedStay
  <2> QED  BY <2>1, ActorNames DEF Stops, BankStops, Returns, Ends, MailInv, Callers
<1> QED  BY <1>3, <1>4 DEF ClosedInv

-----------------------------------------------------------------------------
(* What a step leaves alone *)

(* The handlers that serve request i, and what the user was told of it. *)
Rests(i) ==
    /\ \A x \in Actors :
           /\ Serves(x, i)' <=> Serves(x, i)
           /\ Serves(x, i) => handling'[x] = handling[x] /\ answer'[x] = answer[x]
    /\ outcome'[i] = "value" <=> outcome[i] = "value"

(* Its transfer, and what was refused and rejected. *)
Unmoved(i) == status'[i] = status[i] /\ Completions(i)' = Completions(i)
Unrefused(i) == \A op : <<i, op>> \in refused' <=> <<i, op>> \in refused
Unrejected(i) == \A op \in Moves : rejected'[<<i, op>>] = rejected[<<i, op>>]

Same(i, op) ==
    /\ Effect(i, op)' <=> Effect(i, op)
    /\ Doing(i, Site(i, op), op)' <=> Doing(i, Site(i, op), op)
    /\ Missing(i, op)' <=> Missing(i, op)
    /\ rejected'[<<i, op>>] = rejected[<<i, op>>]

(* A closed actor refuses the call, and that is taken for success. *)
Refusal(i, op) ==
    /\ ~Effect(i, op) /\ Effect(i, op)'
    /\ Doing(i, Site(i, op), op)' <=> Doing(i, Site(i, op), op)
    /\ ~Missing(i, op) /\ Missing(i, op)'
    /\ rejected'[<<i, op>>] = rejected[<<i, op>>]

(* An account does it, *)
Entry(i, op) ==
    /\ Effect(i, op)' <=> Effect(i, op)
    /\ ~Doing(i, Site(i, op), op) /\ Doing(i, Site(i, op), op)'
    /\ Missing(i, op)' <=> Missing(i, op)
    /\ rejected'[<<i, op>>] = rejected[<<i, op>>]

(* and its history answers *)
Answer(i, op) ==
    /\ ~Effect(i, op) /\ Effect(i, op)'
    /\ Doing(i, Site(i, op), op) /\ ~Doing(i, Site(i, op), op)'
    /\ Missing(i, op)' <=> Missing(i, op)
    /\ rejected'[<<i, op>>] = rejected[<<i, op>>]

(* or rejects the record. *)
Rejection(i, op) ==
    /\ Effect(i, op)' <=> Effect(i, op)
    /\ Doing(i, Site(i, op), op) /\ ~Doing(i, Site(i, op), op)'
    /\ Missing(i, op)' <=> Missing(i, op)
    /\ rejected'[<<i, op>>] = rejected[<<i, op>>] + 1

(* Who acts may change its own handler, and the answer that its caller has. *)
Acts(a) ==
    /\ handling'[a] \in {Current(a), None}
    /\ \A x \in Actors \ {a} : handling'[x] = handling[x]
    /\ \A x \in Actors \ {a} : answer'[x] = answer[x] \/ x = Current(a).reply
    /\ \A j \in Requests : outcome'[j] = outcome[j]
                           \/ (Current(a).reply = Client /\ j = About(a))

LEMMA Elsewhere ==
    ASSUME MailInv, CallInv, NEW a \in Actors, Busy(a), Acts(a),
           NEW i \in Requests, About(a) # i
    PROVE  Rests(i)
<1>1. Current(a) \in Under(a) /\ Current(a) \in Messages /\ Served(Current(a))
  BY CurrentMessage DEF CallInv
<1>2. handling[a] = None \/ handling[a] = Current(a)
  BY DEF Current
<1>3. ASSUME NEW x \in Actors
      PROVE  /\ Serves(x, i)' <=> Serves(x, i)
             /\ Serves(x, i) => handling'[x] = handling[x] /\ answer'[x] = answer[x]
  <2>1. CASE x = a
    BY <1>2, <2>1 DEF Acts, About, Serves
  <2>2. CASE x # a
    <3>1. handling'[x] = handling[x]
      BY <2>2 DEF Acts
    <3>2. ASSUME Serves(x, i)  PROVE x # Current(a).reply \/ x \notin Callers
      BY <1>1, <3>2 DEF Served, About, Serves
    <3>3. x = Current(a).reply => x \in Callers
      <4>1. Current(a).reply \in Callers \cup {Client, Nobody}
        BY <1>1 DEF Messages
      <4> QED  BY <4>1, ActorNames
    <3> QED  BY <2>2, <3>1, <3>2, <3>3 DEF Acts, Serves
  <2> QED  BY <2>1, <2>2
<1>4. outcome'[i] = outcome[i]
  BY DEF Acts
<1> QED  BY <1>3, <1>4 DEF Rests

LEMMA EndsAct ==
    ASSUME MailInv, NEW a \in Actors
    PROVE  /\ \A result : Ends(a, result) => Acts(a)
           /\ Throws(a) \/ (\E result : Returns(a, result)) \/ PassesOn(a) => Acts(a)
           /\ \A ops, result : SendsItself(a, ops, result) => Acts(a)
           /\ \A b, op : Calls(a, b, op) => Acts(a)
           /\ AwaitsHistory(a) => Acts(a)
<1>1. \A result : Ends(a, result) => Acts(a)
  BY DEF Ends, Acts, MailInv, About
<1>2. \A b, op : Calls(a, b, op) => Acts(a)
  BY DEF Calls, Acts, MailInv
<1>3. AwaitsHistory(a) => Acts(a)
  BY DEF AwaitsHistory, Acts, MailInv
<1> QED  BY <1>1, <1>2, <1>3 DEF Throws, Returns, PassesOn, SendsItself

(* What rests is the same. *)
LEMMA RestingParts ==
    ASSUME NEW i \in Requests, Rests(i), workload' = workload
    PROVE  /\ \A x, op : Doing(i, x, op)' <=> Doing(i, x, op)
           /\ \A x, op : Fine(x, i, op)' <=> Fine(x, i, op)
           /\ Said(i)' <=> Said(i)
           /\ Done(i)' <=> Done(i)
           /\ Took(i)' <=> Took(i)
<1>1. Command(i)' = Command(i)
  BY DEF Command
<1>2. ASSUME NEW x, NEW op
      PROVE  /\ Doing(i, x, op)' <=> Doing(i, x, op)
             /\ Doing(i, x, op) => answer'[x] = answer[x]
  BY DEF Rests, Doing, Serves
<1>3. \A x, op : Fine(x, i, op)' <=> Fine(x, i, op)
  BY <1>2 DEF Fine
<1>4. outcome'[i] = "value" <=> outcome[i] = "value"
  BY DEF Rests
<1>5. Said(i)' <=> Said(i)
  BY <1>1, <1>2, <1>4 DEF Said
<1> QED  BY <1>1, <1>2, <1>3, <1>5 DEF Done, Took

LEMMA RestingEntries ==
    ASSUME NEW i \in Requests, Rests(i), Unmoved(i), Unrefused(i), Unrejected(i),
           workload' = workload, NEW op \in Moves
    PROVE  Same(i, op)
<1>1. Command(i)' = Command(i) /\ Site(i, op)' = Site(i, op)
  BY DEF Command, Site
<1>2. /\ Repaid(i)' <=> Repaid(i)
      /\ Arrived(i)' <=> Arrived(i)
  BY RestingParts DEF Repaid, Arrived, Completing, Unmoved
<1>3. Effect(i, op)' <=> Effect(i, op)
  BY <1>1, <1>2, RestingParts DEF Effect
<1>4. Doing(i, Site(i, op), op)' <=> Doing(i, Site(i, op), op)
  <2>1. Doing(i, Site(i, op), op)' <=>
            /\ Site(i, op) \in Actors /\ handling'[Site(i, op)] # None
            /\ handling'[Site(i, op)].about = i /\ handling'[Site(i, op)].op = op
    BY <1>1 DEF Doing, Serves
  <2> QED  BY <2>1 DEF Rests, Doing, Serves
<1>5. Missing(i, op)' <=> Missing(i, op)
  BY <1>1 DEF Missing, Unrefused
<1> QED  BY <1>3, <1>4, <1>5 DEF Same, Unrejected

(* The requests that change accounts. *)
Paying(i) == Command(i).command \in {"deposit", "withdraw", "transfer"}

LEMMA SiteIs ==
    ASSUME MailInv, NEW i \in DOMAIN workload.commands, NEW op
    PROVE  /\ Site(i, op) \in Nat /\ Site(i, op) \notin {Teller, Bank, Coordinator}
           /\ ~Paying(i) => Site(i, op) = 0
           /\ 0 \notin Actors
<1>1. Command(i).account \in Nat /\ Command(i).to \in Nat
  BY CommandTypes
<1> QED  BY <1>1, ActorNames DEF Site, Paying, Callers

LEMMA NotPaying ==
    ASSUME MailInv, workload' = workload, NEW i \in DOMAIN workload.commands,
           ~Paying(i), Unrejected(i), NEW op \in Moves
    PROVE  Same(i, op)
<1>1. Command(i)' = Command(i) /\ Site(i, op)' = Site(i, op) /\ Site(i, op) \notin Actors
  BY SiteIs DEF Command, Site
<1>2. ~Doing(i, Site(i, op), op) /\ ~Doing(i, Site(i, op), op)'
  BY <1>1 DEF Doing, Serves
<1>3. Command(i).command # "transfer" /\ op # Command(i).command
  <2>1. Command(i).command \in Commands /\ "refund" \notin Commands
    BY CommandTypes DEF Commands, Formatted, Queries
  <2> QED  BY <2>1 DEF Paying, Moves
<1>4. ~Effect(i, op) /\ ~Missing(i, op)
  BY <1>3 DEF Effect, Missing
<1>5. ~Effect(i, op)' /\ ~Missing(i, op)'
  BY <1>1, <1>3 DEF Effect, Missing
<1> QED  BY <1>2, <1>4, <1>5 DEF Same, Unrejected

LEMMA SameParts ==
    ASSUME workload' = workload, NEW i, NEW op,
           Command(i).command # "transfer" => (Done(i)' <=> Done(i)),
           Command(i).command = "transfer" => /\ Took(i)' <=> Took(i)
                                              /\ Repaid(i)' <=> Repaid(i)
                                              /\ Arrived(i)' <=> Arrived(i),
           Doing(i, Site(i, op), op)' <=> Doing(i, Site(i, op), op),
           Missing(i, op)' <=> Missing(i, op),
           rejected'[<<i, op>>] = rejected[<<i, op>>]
    PROVE  Same(i, op)
<1>1. Command(i)' = Command(i)
  BY DEF Command
<1>2. Effect(i, op)' <=> Effect(i, op)
  BY <1>1 DEF Effect
<1> QED  BY <1>2 DEF Same

LEMMA OtherQueues ==
    ASSUME MailInv, NEW a \in Actors, Busy(a)
    PROVE  /\ Keeps(a) => \A x \in Actors \ {a} : queue'[x] = queue[x]
           /\ \A b, op : Calls(a, b, op) =>
                  /\ \A x \in Actors \ {a, b} : queue'[x] = queue[x]
                  /\ b # a => queue'[a] = Rest(a)[a]
<1>1. /\ \A x \in Actors \ {a} : Rest(a)[x] = queue[x]
      /\ Rest(a) \in [Actors -> Seq(Messages)]
  BY CurrentMessage
<1> QED  BY <1>1 DEF Keeps, Calls

LEMMA TellerEntries ==
    ASSUME MailInv, CallInv, workload' = workload, NEW k \in Commands,
           TellerAsks(k) \/ TellerAnswers(k),
           NEW i \in DOMAIN workload.commands \cap Requests, NEW op \in Moves
    PROVE  Same(i, op)
<1>1. /\ Teller \in Actors /\ Bank \in Actors /\ Coordinator \in Actors
      /\ Teller # Bank /\ Teller # Coordinator /\ Bank # Coordinator /\ Client \notin Actors
  BY ActorNames DEF Callers
<1>2. /\ Turns(Teller) /\ Busy(Teller) /\ Current(Teller).op = k /\ k \notin {"none", "stop"}
      /\ TellerAsks(k) => handling[Teller] = None
      /\ TellerAnswers(k) => handling[Teller] = Current(Teller) /\ handling[Teller] # None
  <2>1. k \notin {"none", "stop"}
    BY DEF Commands, Formatted, Queries
  <2> QED  BY <2>1, BeginsTurns, ResumesTurns DEF TellerAsks, TellerAnswers
<1>3. \/ Throws(Teller) \/ Calls(Teller, Bank, k) \/ PassesOn(Teller)
      \/ \E result : Returns(Teller, result)
  BY DEF TellerAsks, TellerAnswers
<1>4. Acts(Teller)
  BY <1>1, <1>3, EndsAct
<1>5. status' = status /\ rejected' = rejected
  BY DEF TellerAsks, TellerAnswers, OnlyMessages, transferVars, moneyVars
<1>6. queue'[Coordinator] = queue[Coordinator]
  BY <1>1, <1>2, <1>3, EndsKeep, OtherQueues
<1>7. Unmoved(i) /\ Unrejected(i)
  BY <1>5, <1>6 DEF Unmoved, Completions, Unrejected
<1>8. refused' = refused \/ refused' = refused \cup {<<About(Teller), k>>}
  BY <1>3 DEF Throws, Calls, PassesOn, Returns, Ends, About
<1>9. CASE About(Teller) # i
  <2>1. Rests(i)
    BY <1>1, <1>2, <1>4, <1>9, Elsewhere
  <2>2. Unrefused(i)
    BY <1>8, <1>9 DEF Unrefused
  <2> QED  BY <1>7, <2>1, <2>2, RestingEntries
<1>10. CASE About(Teller) = i /\ ~Paying(i)
  BY <1>7, <1>10, NotPaying
<1>11. CASE About(Teller) = i /\ Paying(i)
  <2>1. /\ Current(Teller) \in Under(Teller) /\ Current(Teller).reply = Client
        /\ k = Command(i).command /\ outcome[i] = "pending"
    <3>1. Current(Teller) \in Under(Teller)
      BY <1>1, <1>2, CurrentMessage
    <3> QED  BY <1>2, <1>11, <3>1, TellerServes DEF About
  <2>2. \A x \in Actors \ {Teller} : handling'[x] = handling[x] /\ answer'[x] = answer[x]
    BY <1>1, <1>4, <2>1 DEF Acts
  <2>3. \A x, o : x # Teller => /\ Doing(i, x, o)' <=> Doing(i, x, o)
                                /\ Fine(x, i, o)' <=> Fine(x, i, o)
    BY <2>2 DEF Doing, Fine, Serves
  <2>4. Command(i)' = Command(i) /\ Site(i, op)' = Site(i, op) /\ Site(i, op) # Teller
    BY SiteIs DEF Command, Site
  <2>5. Said(i)' <=> Said(i)
    <3>1. CASE TellerAsks(k)
      <4>1. ~Said(i)
        BY <1>2, <2>1, <3>1 DEF Said, Doing, Serves
      <4>2. CASE Throws(Teller)
        <5>1. outcome'[i] = "error" /\ handling'[Teller] = None
          BY <1>1, <1>11, <2>1, <4>2 DEF Throws, Ends, MailInv, About
        <5> QED  BY <4>1, <5>1 DEF Said, Doing, Serves
      <4>3. CASE Calls(Teller, Bank, k)
        <5>1. outcome'[i] = "pending" /\ answer'[Teller] \in {"pending", "refusal"}
          BY <1>1, <2>1, <4>3 DEF Calls, MailInv
        <5> QED  BY <4>1, <5>1 DEF Said
      <4> QED  BY <3>1, <4>2, <4>3 DEF TellerAsks
    <3>2. CASE TellerAnswers(k)
      <4>1. PassesOn(Teller)
        BY <1>11, <2>1, <3>2 DEF TellerAnswers, Paying, Formatted, Queries
      <4>2. outcome'[i] = answer[Teller] /\ handling'[Teller] = None
        BY <1>1, <1>11, <2>1, <4>1 DEF PassesOn, Throws, Returns, Ends, MailInv, About
      <4>3. Doing(i, Teller, Command(i).command)
        BY <1>1, <1>2, <1>11, <2>1, <3>2 DEF Doing, Serves, About
      <4> QED  BY <2>1, <4>2, <4>3 DEF Said, Doing, Serves
    <3> QED  BY <3>1, <3>2
  <2>6. /\ Done(i)' <=> Done(i)
        /\ Took(i)' <=> Took(i)
    <3>1. \A o : Doing(i, Bank, o) => answer'[Bank] = answer[Bank]
      BY <1>1, <2>2
    <3>2. \A o : Doing(i, Bank, o)' <=> Doing(i, Bank, o)
      BY <1>1, <2>3
    <3>3. Done(i)' <=> Done(i)
      BY <2>4, <2>5, <3>1, <3>2 DEF Done
    <3>4. Took(i)' <=> Took(i)
      BY <1>1, <2>3, <2>5 DEF Took
    <3> QED  BY <3>3, <3>4
  <2>7. /\ Repaid(i)' <=> Repaid(i)
        /\ Arrived(i)' <=> Arrived(i)
    BY <1>1, <1>7, <2>3 DEF Repaid, Arrived, Unmoved, Completing
  <2>8. Missing(i, op)' <=> Missing(i, op)
    BY <1>8, <1>11, <2>1, <2>4 DEF Missing, Moves
  <2>9. Doing(i, Site(i, op), op)' <=> Doing(i, Site(i, op), op)
    BY <2>3, <2>4
  <2> QED  BY <1>7, <2>6, <2>7, <2>8, <2>9, SameParts DEF Unrejected
<1> QED  BY <1>9, <1>10, <1>11

(* Only the coordinator moves transfers. *)
LEMMA OthersMoveNothing ==
    ASSUME MailInv, MoneyInv, [Next]_vars, ~CoordinatorSteps, NEW i \in Requests
    PROVE  Unmoved(i)
<1> DEFINE q == queue[Coordinator]
           s == queue'[Coordinator]
<1>1. Coordinator \in Actors /\ q \in Seq(Messages) /\ status' = status
  <2>1. status' = status
    BY TransfersStay DEF CoordinatorSteps
  <2> QED  BY <2>1, ActorNames DEF Callers, MailInv
<1>2. ASSUME NEW m, ToSet(s) \cup {m} = ToSet(q) \cup {m}, m.op # "completeTransfer"
      PROVE  Unmoved(i)
  BY <1>1, <1>2 DEF Unmoved, Completions
<1>3. CASE s = q
  BY <1>1, <1>3 DEF Unmoved, Completions
<1>4. ASSUME NEW m \in Messages, s = Append(q, m), m.op # "completeTransfer"
      PROVE  Unmoved(i)
  <2>1. ToSet(Append(q, m)) = ToSet(q) \cup {m}
    BY <1>1, QueueEnds
  <2> QED  BY <1>2, <1>4, <2>1
<1>5. CASE Idle
  <2>1. \/ s = q
        \/ \E m \in Messages : s = Append(q, m) /\ m.op \notin SelfSent
    BY <1>5 DEF Idle, IdleStep
  <2> QED  BY <1>3, <1>4, <2>1 DEF SelfSent, TransferOps
<1>6. ASSUME NEW j \in Requests, RetryFires(j)
      PROVE  Unmoved(i)
  <2>1. PICK m : m = Message(Coordinator, "attemptDeposit", j, Nobody, own[Coordinator])
    OBVIOUS
  <2>2. s = q \/ s = Append(q, m)
    BY <1>1, <1>6, <2>1 DEF RetryFires, MailInv
  <2>3. m \in Messages /\ m.op = "attemptDeposit"
    <3>1. "attemptDeposit" \in AllOps /\ own[Coordinator] \in Requests \cup {0}
      BY <1>1, BankCallOps, SelfSentOps DEF MailInv
    <3> QED  BY <2>1, <3>1, NewMessage
  <2> QED  BY <1>3, <1>4, <2>2, <2>3
<1>7. CASE Stops(Coordinator)
  <2>1. /\ Busy(Coordinator) /\ Current(Coordinator).op = "stop"
        /\ handling[Coordinator] = None /\ s = Rest(Coordinator)[Coordinator]
    BY <1>7, BeginsTurns DEF Stops, Returns
  <2>2. ToSet(q) = ToSet(s) \cup {Current(Coordinator)}
    BY <1>1, <2>1, CurrentMessage, UnderIs
  <2> QED  BY <1>2, <2>1, <2>2
<1> QED  BY <1>5, <1>6, <1>7, OthersIdle

(* Only calls of the request at hand are refused. *)
Refuses(a) ==
    \/ refused' = refused
    \/ \E o : refused' = refused \cup {<<About(a), o>>}

LEMMA EndsRefuse ==
    ASSUME NEW a
    PROVE  /\ \A result : Ends(a, result) => Refuses(a)
           /\ Throws(a) \/ (\E result : Returns(a, result)) \/ PassesOn(a) => Refuses(a)
           /\ \A ops, result : SendsItself(a, ops, result) => Refuses(a)
           /\ \A b, op : Calls(a, b, op) => Refuses(a)
           /\ AwaitsHistory(a) => Refuses(a)
<1>1. \A result : Ends(a, result) => Refuses(a)
  BY DEF Ends, Refuses
<1>2. \A b, op : Calls(a, b, op) => Refuses(a)
  BY DEF Calls, Refuses, About
<1>3. AwaitsHistory(a) => Refuses(a)
  BY DEF AwaitsHistory, Refuses
<1> QED  BY <1>1, <1>2, <1>3 DEF Throws, Returns, PassesOn, SendsItself

LEMMA OtherEntries ==
    ASSUME MailInv, CallInv, workload' = workload, NEW a \in Actors, Busy(a), Acts(a),
           Refuses(a), NEW i \in Requests, Unmoved(i), Unrejected(i), About(a) # i,
           NEW op \in Moves
    PROVE  Same(i, op)
<1>1. Rests(i)
  BY Elsewhere
<1>2. Unrefused(i)
  BY DEF Unrefused, Refuses
<1> QED  BY <1>1, <1>2, RestingEntries

(* What the bank does about a request that pays is told to the teller only. *)
LEMMA BankParts ==
    ASSUME MailInv, CallInv, workload' = workload, Busy(Bank), Acts(Bank),
           NEW i \in DOMAIN workload.commands \cap Requests, About(Bank) = i,
           Current(Bank).op # "stop"
    PROVE  /\ Current(Bank).op = Command(i).command /\ Current(Bank).reply = Teller
           /\ ~Said(i) /\ Doing(i, Teller, Command(i).command)
           /\ Said(i)' <=> answer'[Teller] = "value"
           /\ \A o : /\ Doing(i, Coordinator, o)' <=> Doing(i, Coordinator, o)
                     /\ Fine(Coordinator, i, o)' <=> Fine(Coordinator, i, o)
           /\ \A op \in Moves : Doing(i, Site(i, op), op)' <=> Doing(i, Site(i, op), op)
           /\ Unmoved(i) => /\ Repaid(i)' <=> Repaid(i)
                            /\ Arrived(i)' <=> Arrived(i)
<1>1. /\ Teller \in Actors /\ Bank \in Actors /\ Coordinator \in Actors
      /\ Teller # Bank /\ Teller # Coordinator /\ Bank # Coordinator /\ Client \notin Actors
  BY ActorNames DEF Callers
<1>2. /\ Current(Bank) \in Under(Bank) /\ Current(Bank).reply = Teller
      /\ Current(Bank).op = Command(i).command
      /\ Doing(i, Teller, Command(i).command) /\ answer[Teller] = "pending"
      /\ outcome[i] = "pending"
  <2>1. Current(Bank) \in Under(Bank)
    BY <1>1, CurrentMessage
  <2> QED  BY <2>1, BankServes DEF About
<1>3. ~Said(i)
  BY <1>2 DEF Said
<1>4. \A x \in Actors \ {Bank} : handling'[x] = handling[x]
  BY <1>1 DEF Acts
<1>5. answer'[Coordinator] = answer[Coordinator] /\ outcome'[i] = outcome[i]
  BY <1>1, <1>2 DEF Acts
<1>6. Command(i)' = Command(i)
  BY DEF Command
<1>7. Said(i)' <=> answer'[Teller] = "value"
  BY <1>1, <1>2, <1>4, <1>5, <1>6 DEF Said, Doing, Serves
<1>8. \A o : /\ Doing(i, Coordinator, o)' <=> Doing(i, Coordinator, o)
             /\ Fine(Coordinator, i, o)' <=> Fine(Coordinator, i, o)
  BY <1>1, <1>4, <1>5 DEF Doing, Serves, Fine
<1>9. ASSUME NEW op \in Moves
      PROVE  Doing(i, Site(i, op), op)' <=> Doing(i, Site(i, op), op)
  <2>1. Site(i, op) # Bank /\ Site(i, op)' = Site(i, op)
    BY <1>6, SiteIs DEF Site
  <2> QED  BY <1>4, <2>1 DEF Doing, Serves
<1>10. Unmoved(i) => /\ Repaid(i)' <=> Repaid(i)
                     /\ Arrived(i)' <=> Arrived(i)
  BY <1>8 DEF Unmoved, Repaid, Arrived, Completing
<1> QED  BY <1>2, <1>3, <1>7, <1>8, <1>9, <1>10

LEMMA BankTurns ==
    ASSUME MailInv, BankSteps
    PROVE  /\ Turns(Bank) /\ Busy(Bank) /\ Current(Bank).op # "stop"
           /\ Acts(Bank) /\ Refuses(Bank) /\ rejected' = rejected
<1>1. Bank \in Actors
  BY ActorNames DEF Callers
<1>2. /\ \A op : Begins(Bank, op) => Turns(Bank) /\ Busy(Bank) /\ Current(Bank).op = op
      /\ \A ops : "none" \notin ops /\ Resumes(Bank, ops) =>
             Turns(Bank) /\ Busy(Bank) /\ Current(Bank).op \in ops
  BY BeginsTurns, ResumesTurns
<1>3. /\ Throws(Bank) \/ (\E result : Returns(Bank, result)) \/ PassesOn(Bank) =>
             Acts(Bank) /\ Refuses(Bank)
      /\ \A b, op : Calls(Bank, b, op) => Acts(Bank) /\ Refuses(Bank)
  BY <1>1, EndsAct, EndsRefuse
<1>4. rejected' = rejected
  BY DEF BankSteps, OpenAccount, AccountOpened, FindAccount, AccountFound,
     AccountSummary, TransactionHistory, AllAccounts, Transfer, TransferInitiated,
     PendingTransfers, BankAnswers, OnlyMessages, moneyVars
<1>5. CASE OpenAccount \/ AccountSummary \/ TransactionHistory \/ Transfer
           \/ PendingTransfers
  BY <1>2, <1>3, <1>4, <1>5 DEF OpenAccount, AccountSummary, TransactionHistory, Transfer,
     PendingTransfers
<1>6. CASE AccountOpened \/ TransferInitiated \/ BankAnswers
  BY <1>2, <1>3, <1>4, <1>6 DEF AccountOpened, TransferInitiated, BankAnswers, Queries
<1>7. CASE AllAccounts
  BY <1>2, <1>3, <1>4, <1>7 DEF AllAccounts
<1>8. ASSUME NEW op \in {"deposit", "withdraw"}, AccountFound(op)
      PROVE  /\ Turns(Bank) /\ Busy(Bank) /\ Current(Bank).op # "stop"
             /\ Acts(Bank) /\ Refuses(Bank)
  BY <1>2, <1>3, <1>8 DEF AccountFound
<1>9. ASSUME NEW op \in {"deposit", "withdraw"}, FindAccount(op)
      PROVE  /\ Turns(Bank) /\ Busy(Bank) /\ Current(Bank).op # "stop"
             /\ Acts(Bank) /\ Refuses(Bank)
  <2>1. /\ handling' = [handling EXCEPT ![Bank] = Current(Bank)]
        /\ answer' = [answer EXCEPT ![Bank] = "found"]
        /\ UNCHANGED <<outcome, refused>>
        => Acts(Bank) /\ Refuses(Bank)
    BY <1>1 DEF Acts, Refuses, MailInv
  <2> QED  BY <1>2, <1>3, <1>9, <2>1 DEF FindAccount
<1> QED  BY <1>4, <1>5, <1>6, <1>7, <1>8, <1>9 DEF BankSteps

LEMMA BankPays ==
    ASSUME MailInv, CallInv, BankSteps, workload' = workload,
           NEW i \in DOMAIN workload.commands \cap Requests, About(Bank) = i,
           Command(i).command \in {"deposit", "withdraw"}
    PROVE  Done(i)' <=> Done(i)
<1> DEFINE k == Command(i).command
<1>1. /\ Teller \in Actors /\ Bank \in Actors /\ Teller # Bank
  BY ActorNames DEF Callers
<1>2. /\ Turns(Bank) /\ Busy(Bank) /\ Acts(Bank)
      /\ Current(Bank).op = k /\ Current(Bank).reply = Teller
      /\ ~Said(i) /\ (Said(i)' <=> answer'[Teller] = "value")
      /\ answer[Teller] = "pending" /\ Command(i)' = Command(i)
  <2>1. Turns(Bank) /\ Busy(Bank) /\ Acts(Bank) /\ Current(Bank).op # "stop"
    BY BankTurns
  <2>2. Current(Bank) \in Under(Bank)
    BY <1>1, <2>1, CurrentMessage
  <2>3. answer[Teller] = "pending"
    BY <2>1, <2>2, BankServes
  <2> QED  BY <2>1, <2>3, BankParts DEF Command
<1>3. /\ \A op : Begins(Bank, op) => Current(Bank).op = op /\ handling[Bank] = None
      /\ \A ops : "none" \notin ops /\ Resumes(Bank, ops) =>
             /\ Current(Bank).op \in ops /\ handling[Bank] # None
             /\ Current(Bank) = handling[Bank]
  BY BeginsTurns, ResumesTurns
<1>4. /\ Done(i) <=> Doing(i, Bank, k) /\ answer[Bank] = "value"
      /\ Done(i)' <=> \/ answer'[Teller] = "value"
                      \/ Doing(i, Bank, k)' /\ answer'[Bank] = "value"
  BY <1>2 DEF Done
<1>5. /\ Doing(i, Bank, k) <=> handling[Bank] # None
      /\ handling'[Bank] = None => ~Doing(i, Bank, k)'
  BY <1>1, <1>2 DEF Doing, Serves, Current, About
<1>6. /\ Throws(Bank) => handling'[Bank] = None /\ answer'[Teller] = "error"
      /\ PassesOn(Bank) => handling'[Bank] = None /\ answer'[Teller] = answer[Bank]
      /\ \A b, op : Calls(Bank, b, op) => answer'[Teller] = "pending"
                                          /\ answer'[Bank] \in {"pending", "refusal"}
  <2>1. \A result : Ends(Bank, result) => handling'[Bank] = None /\ answer'[Teller] = result
    BY <1>1, <1>2 DEF Ends, MailInv
  <2>2. \A b, op : Calls(Bank, b, op) => answer'[Teller] = "pending"
                                          /\ answer'[Bank] \in {"pending", "refusal"}
    BY <1>1, <1>2 DEF Calls, MailInv
  <2> QED  BY <2>1, <2>2 DEF Throws, Returns, PassesOn
<1> HIDE DEF k
<1>7. CASE FindAccount(k)
  <2>1. ~Done(i)
    BY <1>3, <1>4, <1>5, <1>7 DEF FindAccount
  <2>2. CASE Throws(Bank)
    BY <1>4, <1>5, <1>6, <2>1, <2>2
  <2>3. CASE answer' = [answer EXCEPT ![Bank] = "found"]
    BY <1>1, <1>2, <1>4, <2>1, <2>3 DEF MailInv
  <2> QED  BY <1>7, <2>2, <2>3 DEF FindAccount
<1>8. CASE AccountFound(k)
  BY <1>4, <1>5, <1>6, <1>8 DEF AccountFound
<1>9. CASE BankAnswers
  <2>1. handling[Bank] # None
    BY <1>3, <1>9 DEF BankAnswers, Queries
  <2> QED  BY <1>4, <1>5, <1>6, <1>9, <2>1 DEF BankAnswers
<1>10. FindAccount(k) \/ AccountFound(k) \/ BankAnswers
  <2>1. Current(Bank).op \in {"deposit", "withdraw"}
    BY <1>2 DEF k
  <2>2. \A op \in {"deposit", "withdraw"} : FindAccount(op) \/ AccountFound(op) => op = k
    BY <1>2, <1>3 DEF FindAccount, AccountFound
  <2> QED
    BY <1>3, <2>1, <2>2 DEF BankSteps, OpenAccount, AccountOpened, AccountSummary,
       TransactionHistory, AllAccounts, Transfer, TransferInitiated, PendingTransfers
<1> QED  BY <1>7, <1>8, <1>9, <1>10

LEMMA BankTransfers ==
    ASSUME MailInv, CallInv, BankSteps, workload' = workload,
           NEW i \in DOMAIN workload.commands \cap Requests, About(Bank) = i,
           Command(i).command = "transfer"
    PROVE  \/ /\ Took(i)' <=> Took(i)
              /\ refused' = refused
           \/ /\ ~Took(i) /\ Took(i)'
              /\ refused' = refused \cup {<<i, "initiateTransfer">>}
<1>1. /\ Teller \in Actors /\ Bank \in Actors /\ Coordinator \in Actors /\ Teller # Bank
      /\ Coordinator # Bank
  BY ActorNames DEF Callers
<1>2. /\ Turns(Bank) /\ Busy(Bank) /\ Acts(Bank)
      /\ Current(Bank).op = "transfer" /\ Current(Bank).reply = Teller
      /\ ~Said(i) /\ (Said(i)' <=> answer'[Teller] = "value")
      /\ answer[Teller] = "pending" /\ Command(i)' = Command(i)
      /\ (Fine(Coordinator, i, "initiateTransfer")' <=>
              Fine(Coordinator, i, "initiateTransfer"))
  <2>1. Turns(Bank) /\ Busy(Bank) /\ Acts(Bank) /\ Current(Bank).op # "stop"
    BY BankTurns
  <2>2. Current(Bank) \in Under(Bank)
    BY <1>1, <2>1, CurrentMessage
  <2>3. answer[Teller] = "pending"
    BY <2>1, <2>2, BankServes
  <2> QED  BY <2>1, <2>3, BankParts DEF Command
<1>3. /\ \A op : Begins(Bank, op) => Current(Bank).op = op /\ handling[Bank] = None
      /\ \A ops : "none" \notin ops /\ Resumes(Bank, ops) =>
             /\ Current(Bank).op \in ops /\ handling[Bank] # None
             /\ answer[Bank] \notin {"none", "pending"}
  BY BeginsTurns, ResumesTurns
<1>4. Fine(Coordinator, i, "initiateTransfer") =>
          handling[Bank] # None /\ answer[Bank] = "pending"
  <2>1. ASSUME Fine(Coordinator, i, "initiateTransfer")
        PROVE  handling[Bank] # None /\ answer[Bank] = "pending"
    <3>1. handling[Coordinator] \in Under(Coordinator) /\
          handling[Coordinator].op = "initiateTransfer"
      BY <1>1, <2>1, UnderIs DEF Fine, Doing, Serves
    <3> QED  BY <3>1, CoordinatorServes DEF Doing, Serves
  <2> QED  BY <2>1
<1>5. /\ Took(i) <=> \/ Fine(Bank, i, "transfer")
                     \/ Fine(Coordinator, i, "initiateTransfer")
      /\ Took(i)' <=> \/ answer'[Teller] = "value" \/ Fine(Bank, i, "transfer")'
                      \/ Fine(Coordinator, i, "initiateTransfer")
  BY <1>2 DEF Took
<1>6. /\ Fine(Bank, i, "transfer") <=>
             handling[Bank] # None /\ answer[Bank] \notin {"none", "pending", "error"}
      /\ handling'[Bank] = None => ~Fine(Bank, i, "transfer")'
      /\ handling'[Bank] = Current(Bank) =>
             (Fine(Bank, i, "transfer")' <=> answer'[Bank] \notin {"none", "pending", "error"})
  <2>1. Current(Bank) # None
    BY <1>1, <1>2, CurrentMessage, NoneIsNoMessage
  <2>2. handling[Bank] # None => Current(Bank) = handling[Bank]
    BY DEF Current
  <2>3. Current(Bank).about = i
    BY DEF About
  <2> QED  BY <1>1, <1>2, <2>1, <2>2, <2>3 DEF Fine, Doing, Serves
<1>7. CASE Transfer
  <2>1. handling[Bank] = None
    BY <1>3, <1>7 DEF Transfer
  <2>2. ~Took(i) /\ ~Fine(Coordinator, i, "initiateTransfer")
    BY <1>4, <1>5, <1>6, <2>1
  <2>3. CASE Throws(Bank)
    <3>1. handling'[Bank] = None /\ answer'[Teller] = "error" /\ refused' = refused
      BY <1>1, <1>2, <2>3 DEF Throws, Ends, MailInv
    <3> QED  BY <1>5, <1>6, <2>2, <3>1
  <2>4. CASE Calls(Bank, Coordinator, "initiateTransfer")
    <3>1. /\ answer'[Teller] = "pending" /\ handling'[Bank] = Current(Bank)
          /\ \/ answer'[Bank] = "pending" /\ refused' = refused
             \/ /\ answer'[Bank] = "refusal"
                /\ refused' = refused \cup {<<i, "initiateTransfer">>}
      BY <1>1, <1>2, <2>4 DEF Calls, MailInv, About
    <3> QED  BY <1>5, <1>6, <2>2, <3>1
  <2> QED  BY <1>7, <2>3, <2>4 DEF Transfer
<1>8. CASE TransferInitiated
  <2>1. handling[Bank] # None /\ answer[Bank] \notin {"none", "pending"}
    BY <1>3, <1>8 DEF TransferInitiated
  <2>2. ~Fine(Coordinator, i, "initiateTransfer")
    BY <1>4, <2>1
  <2>3. /\ handling'[Bank] = None /\ refused' = refused
        /\ answer'[Teller] = IF answer[Bank] = "error" THEN "failure" ELSE "value"
    BY <1>1, <1>2, <1>8 DEF TransferInitiated, Returns, Ends, MailInv
  <2> QED  BY <1>5, <1>6, <2>1, <2>2, <2>3
<1>9. Transfer \/ TransferInitiated
  BY <1>2, <1>3 DEF BankSteps, OpenAccount, AccountOpened, AccountSummary, FindAccount,
     AccountFound, TransactionHistory, AllAccounts, PendingTransfers, BankAnswers, Queries
<1> QED  BY <1>7, <1>8, <1>9

LEMMA BankEntries ==
    ASSUME MailInv, CallInv, BookInv, BankSteps, workload' = workload,
           NEW i \in DOMAIN workload.commands \cap Requests, Unmoved(i),
           NEW op \in Moves
    PROVE  Same(i, op) \/ Refusal(i, op)
<1>1. /\ Bank \in Actors /\ Turns(Bank) /\ Busy(Bank) /\ Acts(Bank) /\ Refuses(Bank)
      /\ Current(Bank).op # "stop" /\ rejected' = rejected /\ Unrejected(i)
  BY BankTurns, ActorNames DEF Callers, Unrejected
<1>2. CASE About(Bank) # i
  BY <1>1, <1>2, OtherEntries
<1>3. CASE About(Bank) = i /\ ~Paying(i)
  BY <1>1, <1>3, NotPaying
<1>4. ASSUME About(Bank) = i
      PROVE  /\ Command(i)' = Command(i)
             /\ Doing(i, Site(i, op), op)' <=> Doing(i, Site(i, op), op)
             /\ Repaid(i)' <=> Repaid(i)
             /\ Arrived(i)' <=> Arrived(i)
  BY <1>1, <1>4, BankParts DEF Command
<1>5. CASE About(Bank) = i /\ Command(i).command \in {"deposit", "withdraw"}
  <2>1. Missing(i, op)' <=> Missing(i, op)
    BY <1>4, <1>5 DEF Missing
  <2>2. Done(i)' <=> Done(i)
    BY <1>5, BankPays
  <2> QED  BY <1>1, <1>4, <1>5, <2>1, <2>2, SameParts
<1>6. CASE About(Bank) = i /\ Command(i).command = "transfer"
  <2>1. CASE /\ Took(i)' <=> Took(i)
             /\ refused' = refused
    <3>1. Missing(i, op)' <=> Missing(i, op)
      BY <1>4, <1>6, <2>1 DEF Missing
    <3> QED  BY <1>1, <1>4, <1>6, <2>1, <3>1, SameParts
  <2>2. CASE /\ ~Took(i) /\ Took(i)'
             /\ refused' = refused \cup {<<i, "initiateTransfer">>}
    <3>1. CASE op = "withdraw"
      <4>1. ~Effect(i, op) /\ Effect(i, op)'
        BY <1>4, <1>6, <2>2, <3>1 DEF Effect
      <4>2. ~Missing(i, op) /\ Missing(i, op)'
        BY <1>4, <1>6, <2>2, <3>1, <4>1 DEF Missing, BookInv
      <4> QED  BY <1>1, <1>4, <1>6, <4>1, <4>2 DEF Refusal
    <3>2. CASE op # "withdraw"
      <4>1. Effect(i, op)' <=> Effect(i, op)
        BY <1>4, <1>6, <3>2 DEF Effect
      <4>2. Missing(i, op)' <=> Missing(i, op)
        BY <1>4, <1>6, <2>2, <3>2 DEF Missing, Moves
      <4> QED  BY <1>1, <1>4, <1>6, <4>1, <4>2 DEF Same
    <3> QED  BY <3>1, <3>2
  <2> QED  BY <1>6, <2>1, <2>2, BankTransfers
<1> QED  BY <1>2, <1>3, <1>5, <1>6 DEF Paying

LEMMA ApartMovesNothing ==
    ASSUME MailInv, NEW i \in Requests, Apart(i)
    PROVE  Unmoved(i)
<1> DEFINE r == Rest(Coordinator)[Coordinator]
           s == queue'[Coordinator]
           q == queue[Coordinator]
           c == Current(Coordinator)
<1>1. /\ Coordinator \in Actors /\ r \in Seq(Messages) /\ Adds(i, r, s)
      /\ c \notin Steps(i) /\ c \in Messages /\ status'[i] = status[i]
      /\ ToSet(q) \subseteq ToSet(r) \cup {c} /\ ToSet(r) \subseteq ToSet(q)
  <2>1. /\ Coordinator \in Actors /\ r \in Seq(Messages) /\ Adds(i, r, s)
        /\ c \notin Steps(i) /\ c \in Messages /\ status'[i] = status[i] /\ Busy(Coordinator)
        /\ q \in Seq(Messages)
        /\ handling[Coordinator] = None => q # <<>>
    BY CoordinatorIs DEF Apart
  <2>2. ToSet(q) \subseteq ToSet(r) \cup {c}
    BY <2>1, CurrentMessage, UnderIs
  <2>3. ToSet(r) \subseteq ToSet(q)
    <3>1. r = q \/ (q # <<>> /\ r = Tail(q))
      BY <2>1 DEF Rest, MailInv
    <3>2. q # <<>> => ToSet(Tail(q)) \subseteq ToSet(q)
      <4>1. q \in Seq(Messages)
        BY <2>1
      <4> HIDE DEF q
      <4>2. q # <<>> => ToSet(q) = ToSet(Tail(q)) \cup {Head(q)}
        BY <4>1, QueueBegins
      <4> QED  BY <4>2
    <3> QED  BY <3>1, <3>2
  <2> QED  BY <2>1, <2>2, <2>3
<1>2. /\ ToSet(r) \subseteq ToSet(s)
      /\ \A m \in ToSet(s) : m \in ToSet(r) \/ m \in Foreign(i)
  BY <1>1, AddsSet
<1> HIDE DEF r, s, q, c
<1>3. \A m \in Messages : m.op = "completeTransfer" /\ m.about = i => m \in Steps(i)
  BY DEF Steps, IsStep, TransferOps
<1>4. \A m \in Foreign(i) : ~(m.op = "completeTransfer" /\ m.about = i)
  BY <1>3 DEF Foreign
<1>5. \A m : m.op = "completeTransfer" /\ m.about = i => (m \in ToSet(s) <=> m \in ToSet(q))
  BY <1>1, <1>2, <1>3, <1>4
<1> QED  BY <1>1, <1>5 DEF Unmoved, Completions, s, q

LEMMA CoordinatorTurns ==
    ASSUME MailInv, CoordinatorSteps
    PROVE  /\ Turns(Coordinator) /\ Busy(Coordinator) /\ Current(Coordinator).op # "stop"
           /\ Acts(Coordinator) /\ Refuses(Coordinator) /\ rejected' = rejected
<1>1. Coordinator \in Actors
  BY ActorNames DEF Callers
<1>2. /\ \A op : Begins(Coordinator, op) =>
             Turns(Coordinator) /\ Busy(Coordinator) /\ Current(Coordinator).op = op
      /\ \A op : op # "none" /\ Resumes(Coordinator, {op}) =>
             Turns(Coordinator) /\ Busy(Coordinator) /\ Current(Coordinator).op = op
  BY BeginsTurns, ResumesTurns
<1>3. /\ Throws(Coordinator) \/ (\E result : Returns(Coordinator, result)) =>
             Acts(Coordinator) /\ Refuses(Coordinator)
      /\ \A b, op : Calls(Coordinator, b, op) => Acts(Coordinator) /\ Refuses(Coordinator)
      /\ \A ops, result : SendsItself(Coordinator, ops, result) =>
             Acts(Coordinator) /\ Refuses(Coordinator)
  BY <1>1, EndsAct, EndsRefuse
<1>4. rejected' = rejected
  BY DEF CoordinatorSteps, RegisterAccount, InitiateTransfer, Withdrawn,
     RecordPendingTransfer, AttemptDeposit, Deposited, HandleDepositFailure, ProcessRefund,
     Refunded, CompleteTransfer, GetPendingTransfers, OnlyMessages, moneyVars
<1>5. CASE RegisterAccount \/ InitiateTransfer \/ RecordPendingTransfer \/ AttemptDeposit
           \/ GetPendingTransfers
  BY <1>2, <1>3, <1>4, <1>5 DEF RegisterAccount, InitiateTransfer, RecordPendingTransfer,
     AttemptDeposit, GetPendingTransfers
<1>6. CASE Withdrawn \/ Deposited \/ Refunded
  <2>1. PICK op \in {"initiateTransfer", "attemptDeposit", "processRefund"} :
            Resumes(Coordinator, {op})
    BY <1>6 DEF Withdrawn, Deposited, Refunded
  <2>2. \/ Throws(Coordinator)
        \/ \E ops, result : SendsItself(Coordinator, ops, result)
    BY <1>6 DEF Withdrawn, Deposited, Refunded
  <2> QED  BY <1>2, <1>3, <1>4, <2>1, <2>2
<1>7. CASE HandleDepositFailure \/ ProcessRefund \/ CompleteTransfer
  BY <1>2, <1>3, <1>4, <1>7 DEF HandleDepositFailure, ProcessRefund, CompleteTransfer
<1> QED  BY <1>5, <1>6, <1>7 DEF CoordinatorSteps

(* What the coordinator's handler has, and what others have. *)
LEMMA CoordinatorParts ==
    ASSUME MailInv, workload' = workload, Turns(Coordinator), Acts(Coordinator),
           NEW i \in DOMAIN workload.commands \cap Requests, About(Coordinator) = i,
           Current(Coordinator).op # "stop"
    PROVE  /\ Current(Coordinator).about = i /\ Command(i)' = Command(i)
           /\ Current(Coordinator) \in Under(Coordinator)
           /\ \A o : /\ Fine(Coordinator, i, o) <=>
                            /\ handling[Coordinator] # None /\ Current(Coordinator).op = o
                            /\ answer[Coordinator] \notin {"none", "pending", "error"}
                     /\ Fine(Coordinator, i, o)' <=>
                            /\ handling'[Coordinator] # None /\ Current(Coordinator).op = o
                            /\ answer'[Coordinator] \notin {"none", "pending", "error"}
           /\ \A op \in Moves : Doing(i, Site(i, op), op)' <=> Doing(i, Site(i, op), op)
           /\ Said(i)' <=> Said(i)
           /\ Current(Coordinator).op \in SelfSent =>
                  (Fine(Bank, i, "transfer")' <=> Fine(Bank, i, "transfer"))
<1> DEFINE c == Current(Coordinator)
<1>1. /\ Teller \in Actors /\ Bank \in Actors /\ Coordinator \in Actors
      /\ Teller # Coordinator /\ Bank # Coordinator /\ Teller # Bank /\ Client \notin Actors
      /\ Coordinator \notin Accounts /\ Nobody \notin Actors
      /\ Client # Nobody /\ Client # Bank
  BY ActorNames DEF Callers, Names
<1>2. /\ c \in Messages /\ c # None /\ c.about = i /\ Command(i)' = Command(i)
      /\ handling[Coordinator] # None => handling[Coordinator] = c
      /\ c \in Under(Coordinator)
  BY CoordinatorIs, CurrentMessage, NoneIsNoMessage DEF About, Command, Current
<1>3. c.reply \in {Bank, Nobody} /\ (c.op \in SelfSent => c.reply = Nobody)
  BY <1>1, <1>2, CoordinatorIs DEF Proper, SelfSent, TransferOps
<1>4. /\ handling'[Coordinator] \in {c, None}
      /\ \A x \in Actors \ {Coordinator} : handling'[x] = handling[x]
      /\ answer'[Teller] = answer[Teller] /\ outcome'[i] = outcome[i]
      /\ c.op \in SelfSent => answer'[Bank] = answer[Bank]
  BY <1>1, <1>3 DEF Acts
<1> HIDE DEF c
<1>5. \A o : Fine(Coordinator, i, o) <=>
                 /\ handling[Coordinator] # None /\ c.op = o
                 /\ answer[Coordinator] \notin {"none", "pending", "error"}
  BY <1>1, <1>2 DEF Fine, Doing, Serves
<1>6. \A o : Fine(Coordinator, i, o)' <=>
                 /\ handling'[Coordinator] # None /\ c.op = o
                 /\ answer'[Coordinator] \notin {"none", "pending", "error"}
  BY <1>1, <1>2, <1>4 DEF Fine, Doing, Serves
<1>7. ASSUME NEW op \in Moves
      PROVE  Doing(i, Site(i, op), op)' <=> Doing(i, Site(i, op), op)
  <2>1. Site(i, op) # Coordinator /\ Site(i, op)' = Site(i, op)
    BY <1>2, SiteIs DEF Site
  <2> QED  BY <1>4, <2>1 DEF Doing, Serves
<1>8. Said(i)' <=> Said(i)
  BY <1>1, <1>2, <1>4 DEF Said, Doing, Serves
<1>9. c.op \in SelfSent => (Fine(Bank, i, "transfer")' <=> Fine(Bank, i, "transfer"))
  BY <1>1, <1>4 DEF Fine, Doing, Serves
<1> QED  BY <1>2, <1>5, <1>6, <1>7, <1>8, <1>9 DEF c

(* A step of transfer i leaves what it takes for done alone, unless the call *)
(* of an account is refused.                                                 *)
Refusing(i) ==
    \/ /\ refused' = refused
       /\ \A op \in Moves : Effect(i, op)' <=> Effect(i, op)
    \/ \E o \in Moves :
           /\ refused' = refused \cup {<<i, o>>}
           /\ ~Effect(i, o) /\ Effect(i, o)'
           /\ \A op \in Moves \ {o} : Effect(i, op)' <=> Effect(i, op)

LEMMA TransferEffects ==
    ASSUME workload' = workload, NEW i, Command(i).command = "transfer"
    PROVE  /\ Effect(i, "withdraw") <=> Took(i)
           /\ Effect(i, "withdraw")' <=> Took(i)'
           /\ Effect(i, "refund") <=> Repaid(i)
           /\ Effect(i, "refund")' <=> Repaid(i)'
           /\ Effect(i, "deposit") <=> Arrived(i)
           /\ Effect(i, "deposit")' <=> Arrived(i)'
<1>1. Command(i)' = Command(i)
  BY DEF Command
<1> QED  BY <1>1 DEF Effect

LEMMA StepParts ==
    ASSUME MailInv, MailInv', MoneyInv, CallInv, FlowInv, PhaseInv, workload' = workload,
           CoordinatorSteps, NEW i \in DOMAIN workload.commands \cap Requests,
           About(Coordinator) = i, Current(Coordinator).op \in TransferOps
    PROVE  /\ i \in pending /\ status[i] # "none"
           /\ Fits(Current(Coordinator), status[i], attempts[i])
           /\ Current(Coordinator).op # "completeTransfer" => Completions(i) = {}
           /\ \A m \in Completions(i)' : NewToken(i, m)
           /\ Took(i)' <=> Took(i)
<1> DEFINE c == Current(Coordinator)
<1>1. /\ Turns(Coordinator) /\ Acts(Coordinator) /\ c.op # "stop" /\ c \in Messages
      /\ Coordinator \in Actors
  BY CoordinatorTurns, CoordinatorIs
<1>2. /\ c \in Under(Coordinator) /\ c.about = i
      /\ \A o : /\ Fine(Coordinator, i, o) => c.op = o
                /\ Fine(Coordinator, i, o)' => c.op = o
      /\ Said(i)' <=> Said(i)
      /\ c.op \in SelfSent => (Fine(Bank, i, "transfer")' <=> Fine(Bank, i, "transfer"))
  BY <1>1, CoordinatorParts
<1>3. Took(i)' <=> Took(i)
  <2>1. c.op \in SelfSent /\ c.op # "initiateTransfer"
    BY DEF SelfSent, TransferOps
  <2> QED  BY <1>2, <2>1 DEF Took
<1>4. /\ i \in pending /\ status[i] # "none" /\ c \in Steps(i)
      /\ \A m \in Under(Coordinator) : m \in Steps(i) => m = c
      /\ \A m \in Under(Coordinator)' : m \in Steps(i) => NewToken(i, m)
  BY <1>1, TokenTurn, StepAlone
<1>5. Fits(c, status[i], attempts[i])
  BY <1>2 DEF PhaseInv, PhaseOf
<1>6. \A m \in Messages : m.op = "completeTransfer" /\ m.about = i => m \in Steps(i)
  BY DEF Steps, IsStep, TransferOps
<1>7. c.op # "completeTransfer" => Completions(i) = {}
  <2>1. ToSet(queue[Coordinator]) \subseteq Under(Coordinator) \cap Messages
    BY <1>1, UnderIs
  <2> QED  BY <1>4, <1>6, <2>1 DEF Completions
<1>8. \A m \in Completions(i)' : NewToken(i, m)
  <2>1. ToSet(queue'[Coordinator]) \subseteq Under(Coordinator)' \cap Messages
    <3>1. queue'[Coordinator] \in Seq(Messages)
      BY <1>1 DEF MailInv
    <3>2. ToSet(queue'[Coordinator]) \subseteq Messages
      BY <3>1, QueueElements
    <3> QED  BY <1>1, <3>2, UnderPrimed
  <2>2. ASSUME NEW m \in Completions(i)'
        PROVE  m \in ToSet(queue'[Coordinator]) /\ m.op = "completeTransfer" /\ m.about = i
    BY <2>2 DEF Completions
  <2> QED  BY <1>4, <1>6, <2>1, <2>2
<1> QED  BY <1>3, <1>4, <1>5, <1>7, <1>8

LEMMA InitiateUnmoved ==
    ASSUME MailInv, MoneyInv, FlowInv, CoordinatorSteps, NEW i \in Requests,
           Current(Coordinator).op \notin SelfSent
    PROVE  Unmoved(i)
<1> DEFINE q == queue[Coordinator]
           s == queue'[Coordinator]
<1>1. Apart(i) \/ Withdraws(i)
  BY CoordinatorApart DEF FlowInv
<1>2. CASE Apart(i)
  BY <1>2, ApartMovesNothing
<1>3. CASE Withdraws(i)
  <2>1. q \in Seq(Messages) /\ status' = status
    BY <1>3, ActorNames DEF MailInv, Withdraws, Withdrawn, OnlyMessages, transferVars,
       Callers
  <2>2. PICK x, y \in Messages :
            /\ x.op = "recordPendingTransfer" /\ x.about = i
            /\ y.op = "attemptDeposit" /\ y.about = i
            /\ handling'[Coordinator] = None
            /\ s = Append(Append(q, x), y)
    BY <1>3, WithdrawnAdds
  <2>3. ToSet(s) = ToSet(q) \cup {x, y}
    <3>1. PICK r : r = Append(q, x)
      OBVIOUS
    <3>2. r \in Seq(Messages) /\ ToSet(r) = ToSet(q) \cup {x}
      BY <2>1, <3>1, QueueEnds
    <3>3. ToSet(Append(r, y)) = ToSet(r) \cup {y}
      BY <3>2, QueueEnds
    <3> QED  BY <2>2, <3>1, <3>2, <3>3
  <2> QED  BY <2>1, <2>2, <2>3 DEF Unmoved, Completions
<1> QED  BY <1>1, <1>2, <1>3

LEMMA InitiateEffects ==
    ASSUME MailInv, MoneyInv, CallInv, FlowInv, workload' = workload, CoordinatorSteps,
           NEW i \in DOMAIN workload.commands \cap Requests, About(Coordinator) = i,
           Current(Coordinator).op = "initiateTransfer"
    PROVE  Refusing(i)
<1> DEFINE c == Current(Coordinator)
<1>1. /\ Turns(Coordinator) /\ Acts(Coordinator) /\ c \in Messages
      /\ Bank \in Actors /\ Bank # Coordinator /\ Coordinator \in Actors
      /\ Coordinator # Teller /\ Client # Bank
  BY CoordinatorTurns, CoordinatorIs, ActorNames DEF Callers, Names
<1>2. /\ c \in Under(Coordinator) /\ c.about = i /\ Command(i)' = Command(i)
      /\ \A o : /\ Fine(Coordinator, i, o) <=>
                       /\ handling[Coordinator] # None /\ c.op = o
                       /\ answer[Coordinator] \notin {"none", "pending", "error"}
                /\ Fine(Coordinator, i, o)' <=>
                       /\ handling'[Coordinator] # None /\ c.op = o
                       /\ answer'[Coordinator] \notin {"none", "pending", "error"}
      /\ Said(i)' <=> Said(i)
  BY <1>1, CoordinatorParts
<1>3. /\ Command(i).command = "transfer" /\ c.reply = Bank
      /\ Doing(i, Bank, "transfer") /\ answer[Bank] = "pending"
      /\ answer[Teller] = "pending" /\ outcome[i] = "pending"
  BY <1>2, CoordinatorServes
<1>4. Unmoved(i)
  BY InitiateUnmoved DEF SelfSent, TransferOps
<1>5. (Repaid(i)' <=> Repaid(i)) /\ (Arrived(i)' <=> Arrived(i))
  BY <1>2, <1>4 DEF Repaid, Arrived, Unmoved, Completing
<1>6. /\ Took(i) <=> Fine(Coordinator, i, "initiateTransfer")
      /\ Took(i)' <=> \/ answer'[Bank] \notin {"none", "pending", "error"}
                      \/ Fine(Coordinator, i, "initiateTransfer")'
  <2>1. ~Said(i)
    BY <1>3 DEF Said
  <2>2. ~Fine(Bank, i, "transfer")
    BY <1>3 DEF Fine
  <2>3. Fine(Bank, i, "transfer")' <=> answer'[Bank] \notin {"none", "pending", "error"}
    BY <1>1, <1>3 DEF Acts, Fine, Doing, Serves
  <2> QED  BY <1>2, <2>1, <2>2, <2>3 DEF Took
<1>7. ASSUME Took(i)' <=> Took(i), refused' = refused
      PROVE  Refusing(i)
  BY <1>3, <1>5, <1>7, TransferEffects DEF Refusing, Moves
<1>8. /\ \A result : Ends(Coordinator, result) =>
             /\ handling'[Coordinator] = None /\ answer'[Bank] = result
             /\ refused' = refused
      /\ \A op : /\ Begins(Coordinator, op) => c.op = op /\ handling[Coordinator] = None
                 /\ op # "none" /\ Resumes(Coordinator, {op}) =>
                        /\ c.op = op /\ handling[Coordinator] # None
                        /\ answer[Coordinator] \notin {"none", "pending"}
  <2>1. \A result : Ends(Coordinator, result) =>
             /\ handling'[Coordinator] = None /\ answer'[Bank] = result
             /\ refused' = refused
    BY <1>1, <1>3 DEF Ends, MailInv
  <2> QED  BY <2>1, BeginsTurns, ResumesTurns
<1>9. CASE InitiateTransfer
  <2>1. ~Took(i)
    BY <1>2, <1>6, <1>8, <1>9 DEF InitiateTransfer
  <2>2. CASE Throws(Coordinator)
    <3>1. handling'[Coordinator] = None /\ answer'[Bank] = "error" /\ refused' = refused
      BY <1>8, <2>2 DEF Throws
    <3>2. ~Took(i)'
      BY <1>2, <1>6, <3>1
    <3> QED  BY <1>7, <2>1, <3>1, <3>2
  <2>3. CASE Calls(Coordinator, TransferOf(i).from, "withdraw")
    <3>1. /\ handling'[Coordinator] = c /\ c # None /\ answer'[Bank] = "pending"
          /\ \/ answer'[Coordinator] = "pending" /\ refused' = refused
             \/ /\ answer'[Coordinator] = "refusal"
                /\ refused' = refused \cup {<<i, "withdraw">>}
      BY <1>1, <1>2, <1>3, <2>3, NoneIsNoMessage DEF Calls, MailInv
    <3>2. CASE answer'[Coordinator] = "pending" /\ refused' = refused
      <4>1. ~Took(i)'
        BY <1>2, <1>6, <3>1, <3>2
      <4> QED  BY <1>7, <2>1, <3>2, <4>1
    <3>3. CASE /\ answer'[Coordinator] = "refusal"
               /\ refused' = refused \cup {<<i, "withdraw">>}
      <4>1. Took(i)'
        BY <1>2, <1>6, <3>1, <3>3
      <4> QED  BY <1>3, <1>5, <2>1, <3>3, <4>1, TransferEffects DEF Refusing, Moves
    <3> QED  BY <3>1, <3>2, <3>3
  <2> QED  BY <1>9, <2>2, <2>3 DEF InitiateTransfer
<1>10. CASE Withdrawn
  <2>1. Took(i) <=> answer[Coordinator] # "error"
    BY <1>2, <1>6, <1>8, <1>10 DEF Withdrawn
  <2>2. /\ handling'[Coordinator] = None /\ refused' = refused
        /\ answer'[Bank] = IF answer[Coordinator] = "error" THEN "error" ELSE "value"
    BY <1>8, <1>10 DEF Withdrawn, Throws, SendsItself
  <2>3. Took(i)' <=> answer[Coordinator] # "error"
    BY <1>2, <1>6, <2>2
  <2> QED  BY <1>7, <2>1, <2>2, <2>3
<1>11. InitiateTransfer \/ Withdrawn
  <2>1. /\ \A op : Begins(Coordinator, op) => c.op = op
        /\ \A op : op # "none" /\ Resumes(Coordinator, {op}) => c.op = op
    BY BeginsTurns, ResumesTurns
  <2> QED  BY <2>1 DEF CoordinatorSteps, RegisterAccount, RecordPendingTransfer,
       AttemptDeposit, Deposited, HandleDepositFailure, ProcessRefund, Refunded, CompleteTransfer,
       GetPendingTransfers
<1> QED  BY <1>9, <1>10, <1>11

LEMMA RecordEffects ==
    ASSUME MailInv, MailInv', MoneyInv, FlowInv, PhaseInv, workload' = workload,
           RecordPendingTransfer,
           NEW i \in DOMAIN workload.commands \cap Requests, About(Coordinator) = i,
           Command(i).command = "transfer"
    PROVE  Refusing(i)
<1> DEFINE c == Current(Coordinator)
           r == Rest(Coordinator)[Coordinator]
           q == queue[Coordinator]
           h == handling[Coordinator]
<1>1. /\ Turns(Coordinator) /\ Acts(Coordinator) /\ c.op = "recordPendingTransfer"
      /\ CoordinatorSteps /\ h = None
  <2>1. CoordinatorSteps
    BY DEF CoordinatorSteps
  <2> QED  BY <2>1, CoordinatorTurns, BeginsTurns DEF RecordPendingTransfer
<1>2. /\ q \in Seq(Messages) /\ (h = None => q # <<>>)
      /\ c = At(q, h) /\ r = Behind(q, h) /\ c \in Messages
      /\ Flow(i, q, h, status[i], pending, timeouts)
      /\ Under(Coordinator) = ToSet(r) \cup {c} /\ Under(Coordinator) = ToSet(q)
      /\ h \in Messages \cup {None} /\ c.about = i
  BY <1>1, CoordinatorIs, CurrentMessage, UnderIs DEF FlowInv, FlowOf, About
<1>3. /\ handling'[Coordinator] = None /\ queue'[Coordinator] = r
      /\ status' = [status EXCEPT ![i] = "withdrawn"] /\ refused' = refused
  BY <1>1, CoordinatorEnds DEF RecordPendingTransfer, Returns, Ends
<1>4. status[i] = "none"
  <2> HIDE DEF c, r, q, h
  <2>1. At(q, h) \in Records(i)
    BY <1>1, <1>2 DEF Records
  <2>2. "withdrawn" # "none" /\ i \in Requests
    OBVIOUS
  <2> QED  BY <1>2, <2>1, <2>2, FlowEntered
<1>5. Completions(i) = {} /\ Completions(i)' = {}
  <2>1. ASSUME NEW m \in Under(Coordinator), m.about = i
        PROVE  m.op # "completeTransfer"
    BY <1>4, <2>1 DEF PhaseInv, PhaseOf, Fits
  <2> QED  BY <1>2, <1>3, <2>1 DEF Completions
<1>6. \A o : ~Fine(Coordinator, i, o) /\ ~Fine(Coordinator, i, o)'
  BY <1>1, <1>3, CoordinatorParts
<1>7. /\ Said(i)' <=> Said(i)
      /\ Fine(Bank, i, "transfer")' <=> Fine(Bank, i, "transfer")
  BY <1>1, CoordinatorParts DEF SelfSent
<1>8. status'[i] = "withdrawn"
  BY <1>3 DEF FlowInv
<1>9. Took(i)' <=> Took(i)
  BY <1>6, <1>7 DEF Took
<1>10. /\ ~Repaid(i) /\ ~Repaid(i)'
       /\ ~Arrived(i) /\ ~Arrived(i)'
  BY <1>4, <1>5, <1>6, <1>8 DEF Repaid, Arrived, Completing
<1> QED  BY <1>3, <1>9, <1>10, TransferEffects DEF Refusing, Moves

LEMMA StepEffects ==
    ASSUME MailInv, MailInv', MoneyInv, CallInv, FlowInv, PhaseInv, workload' = workload,
           CoordinatorSteps, NEW i \in DOMAIN workload.commands \cap Requests,
           About(Coordinator) = i, Current(Coordinator).op \in TransferOps,
           Command(i).command = "transfer"
    PROVE  Refusing(i)
<1> DEFINE c == Current(Coordinator)
<1>1. /\ Turns(Coordinator) /\ Acts(Coordinator) /\ c \in Messages /\ c # None
      /\ Coordinator \in Actors /\ c.op # "stop"
      /\ status \in [Requests -> TransferStatus \cup {"none"}]
      /\ handling[Coordinator] # None => handling[Coordinator] = c
      /\ handling[Coordinator] = None => c \in ToSet(queue[Coordinator])
  <2>1. handling[Coordinator] = None => c \in ToSet(queue[Coordinator])
    <3>1. Busy(Coordinator) /\ Coordinator \in Actors
      BY CoordinatorTurns, CoordinatorIs
    <3>2. c \in Under(Coordinator)
      BY <3>1, CurrentMessage
    <3> QED  BY <3>1, <3>2, UnderIs
  <2> QED  BY <2>1, CoordinatorTurns, CoordinatorIs, NoneIsNoMessage DEF FlowInv, Current
<1>2. /\ c.about = i
      /\ \A o : /\ Fine(Coordinator, i, o) <=>
                       /\ handling[Coordinator] # None /\ c.op = o
                       /\ answer[Coordinator] \notin {"none", "pending", "error"}
                /\ Fine(Coordinator, i, o)' <=>
                       /\ handling'[Coordinator] # None /\ c.op = o
                       /\ answer'[Coordinator] \notin {"none", "pending", "error"}
  BY <1>1, CoordinatorParts
<1>3. /\ i \in pending /\ status[i] # "none" /\ Fits(c, status[i], attempts[i])
      /\ c.op # "completeTransfer" => Completions(i) = {}
      /\ \A m \in Completions(i)' : NewToken(i, m)
      /\ Took(i)' <=> Took(i)
  BY StepParts
<1>4. /\ \A op : Begins(Coordinator, op) => c.op = op /\ handling[Coordinator] = None
      /\ \A op : op # "none" /\ Resumes(Coordinator, {op}) =>
             /\ c.op = op /\ handling[Coordinator] # None
             /\ answer[Coordinator] \notin {"none", "pending"}
  BY BeginsTurns, ResumesTurns
<1>5. \A result : Ends(Coordinator, result) =>
          handling'[Coordinator] = None /\ refused' = refused
  BY <1>1 DEF Ends, MailInv
<1>6. \A b, op : Calls(Coordinator, b, op) =>
          /\ handling'[Coordinator] = c
          /\ \/ answer'[Coordinator] = "pending" /\ refused' = refused
             \/ answer'[Coordinator] = "refusal" /\ refused' = refused \cup {<<i, op>>}
  BY <1>1 DEF Calls, MailInv, About
<1>7. ASSUME Repaid(i)' <=> Repaid(i), Arrived(i)' <=> Arrived(i), refused' = refused
      PROVE  Refusing(i)
  BY <1>3, <1>7, TransferEffects DEF Refusing, Moves
<1>8. ASSUME Repaid(i)' <=> Repaid(i), ~Arrived(i), Arrived(i)',
             refused' = refused \cup {<<i, "deposit">>}
      PROVE  Refusing(i)
  BY <1>3, <1>8, TransferEffects DEF Refusing, Moves
<1>9. ASSUME Arrived(i)' <=> Arrived(i), ~Repaid(i), Repaid(i)',
             refused' = refused \cup {<<i, "refund">>}
      PROVE  Refusing(i)
  BY <1>3, <1>9, TransferEffects DEF Refusing, Moves
<1> HIDE DEF c
<1>10. CASE AttemptDeposit
  <2>1. /\ c.op = "attemptDeposit" /\ handling[Coordinator] = None
        /\ status' = status /\ status[i] = "withdrawn"
    BY <1>3, <1>4, <1>10 DEF AttemptDeposit, OnlyMessages, transferVars, Fits, Early
  <2>2. \A m \in Completions(i)' : FALSE
    <3>1. ASSUME NEW m \in Completions(i)'
          PROVE  FALSE
      <4>1. m.op = "completeTransfer" /\ NewToken(i, m)
        BY <1>3, <3>1 DEF Completions
      <4> QED  BY <1>4, <2>1, <4>1 DEF NewToken, Deposited, HandleDepositFailure, Refunded, c
    <3> QED  BY <3>1
  <2>3. ~Repaid(i) /\ ~Repaid(i)' /\ ~Arrived(i)
    BY <1>2, <1>3, <2>1 DEF Repaid, Arrived, Completing
  <2>4. Arrived(i)' <=> Fine(Coordinator, i, "attemptDeposit")'
    BY <2>1, <2>2 DEF Arrived, Completing
  <2>5. Calls(Coordinator, TransferOf(i).to, "deposit")
    BY <1>3, <1>10 DEF AttemptDeposit
  <2> QED  BY <1>1, <1>2, <1>6, <1>7, <1>8, <2>1, <2>3, <2>4, <2>5
<1>11. CASE Deposited
  <2>1. /\ c.op = "attemptDeposit" /\ handling[Coordinator] # None
        /\ answer[Coordinator] \notin {"none", "pending"}
        /\ status' = status /\ status[i] = "withdrawn"
    BY <1>3, <1>4, <1>11 DEF Deposited, OnlyMessages, transferVars, Fits, Early
  <2>2. handling'[Coordinator] = None /\ refused' = refused
    BY <1>5, <1>11 DEF Deposited, SendsItself
  <2>3. Completions(i)' # {} <=> answer[Coordinator] # "error"
    <3>1. CASE answer[Coordinator] # "error"
      <4>1. \E m \in ToSet(queue'[Coordinator]) : m.op = "completeTransfer" /\ m.about = i
        BY <1>1, <1>11, <3>1, TokenTurn
      <4> QED  BY <3>1, <4>1 DEF Completions
    <3>2. ASSUME answer[Coordinator] = "error", NEW m \in Completions(i)'
          PROVE  FALSE
      <4>1. m.op = "completeTransfer" /\ NewToken(i, m)
        BY <1>3, <3>2 DEF Completions
      <4> QED
        BY <1>4, <2>1, <3>2, <4>1 DEF NewToken, AttemptDeposit, ProcessRefund,
           HandleDepositFailure, Refunded
    <3> QED  BY <3>1, <3>2
  <2>4. ~Repaid(i) /\ ~Repaid(i)' /\ (Arrived(i) <=> answer[Coordinator] # "error")
    BY <1>2, <1>3, <2>1, <2>2 DEF Repaid, Arrived, Completing
  <2>5. Arrived(i)' <=> answer[Coordinator] # "error"
    BY <1>2, <2>1, <2>2, <2>3 DEF Arrived, Completing
  <2> QED  BY <1>7, <2>2, <2>4, <2>5
<1>12. CASE HandleDepositFailure
  <2>1. /\ c.op = "handleDepositFailure" /\ handling[Coordinator] = None
        /\ status[i] = "withdrawn"
    BY <1>3, <1>4, <1>12 DEF HandleDepositFailure, Fits, Early
  <2>2. /\ handling'[Coordinator] = None /\ refused' = refused
    BY <1>5, <1>12 DEF HandleDepositFailure, SendsItself, Returns, Throws
  <2>3. status'[i] \in {"withdrawn", "failed-deposit"}
    BY <1>1, <1>12, <2>1 DEF HandleDepositFailure
  <2>4. \A m \in Completions(i)' : FALSE
    <3>1. ASSUME NEW m \in Completions(i)'
          PROVE  FALSE
      <4>1. m.op = "completeTransfer" /\ NewToken(i, m)
        BY <1>3, <3>1 DEF Completions
      <4> QED
        BY <1>4, <2>1, <4>1 DEF NewToken, AttemptDeposit, ProcessRefund, Deposited, Refunded
    <3> QED  BY <3>1
  <2>5. /\ ~Repaid(i) /\ ~Repaid(i)' /\ ~Arrived(i) /\ ~Arrived(i)'
    BY <1>2, <1>3, <2>1, <2>2, <2>3, <2>4 DEF Repaid, Arrived, Completing
  <2> QED  BY <1>7, <2>2, <2>5
<1>13. CASE ProcessRefund
  <2>1. /\ c.op = "processRefund" /\ handling[Coordinator] = None
        /\ status' = status /\ status[i] = "failed-deposit"
    BY <1>3, <1>4, <1>13 DEF ProcessRefund, OnlyMessages, transferVars, Fits
  <2>2. ~Arrived(i) /\ ~Arrived(i)' /\ ~Repaid(i)
    BY <1>2, <2>1 DEF Repaid, Arrived, Completing
  <2>3. Repaid(i)' <=> Fine(Coordinator, i, "processRefund")'
    BY <2>1 DEF Repaid
  <2>4. Calls(Coordinator, TransferOf(i).from, "refund")
    BY <1>3, <1>13 DEF ProcessRefund
  <2> QED  BY <1>1, <1>2, <1>6, <1>7, <1>9, <2>1, <2>2, <2>3, <2>4
<1>14. CASE Refunded
  <2>1. /\ c.op = "processRefund" /\ handling[Coordinator] # None
        /\ answer[Coordinator] \notin {"none", "pending"}
        /\ status[i] = "failed-deposit"
    BY <1>3, <1>4, <1>14 DEF Refunded, Fits
  <2>2. /\ handling'[Coordinator] = None /\ refused' = refused
    BY <1>5, <1>14 DEF Refunded, SendsItself, Throws
  <2>3. status'[i] = IF answer[Coordinator] = "error" THEN "failed-deposit" ELSE "refunded"
    BY <1>1, <1>14, <2>1 DEF Refunded
  <2>4. /\ ~Arrived(i) /\ ~Arrived(i)'
        /\ Repaid(i) <=> answer[Coordinator] # "error"
        /\ Repaid(i)' <=> answer[Coordinator] # "error"
    BY <1>2, <2>1, <2>2, <2>3 DEF Repaid, Arrived, Completing
  <2> QED  BY <1>7, <2>2, <2>4
<1>15. CASE CompleteTransfer
  <2>1. /\ c.op = "completeTransfer" /\ handling[Coordinator] = None
        /\ status[i] \in {"withdrawn", "refunded"}
    BY <1>3, <1>4, <1>15 DEF CompleteTransfer, Fits
  <2>2. /\ handling'[Coordinator] = None /\ refused' = refused
    BY <1>5, <1>15 DEF CompleteTransfer, Returns
  <2>3. status'[i] = IF status[i] = "withdrawn" THEN "completed" ELSE status[i]
    BY <1>1, <1>3, <1>15 DEF CompleteTransfer
  <2>4. c \in Completions(i)
    BY <1>1, <1>2, <2>1 DEF Completions
  <2>5. /\ Arrived(i) <=> status[i] = "withdrawn"
        /\ Arrived(i)' <=> status[i] = "withdrawn"
        /\ Repaid(i) <=> status[i] = "refunded"
        /\ Repaid(i)' <=> status[i] = "refunded"
    BY <1>2, <2>1, <2>2, <2>3, <2>4 DEF Repaid, Arrived, Completing
  <2> QED  BY <1>7, <2>2, <2>5
<1>16. \/ AttemptDeposit \/ Deposited \/ HandleDepositFailure \/ ProcessRefund
       \/ Refunded \/ CompleteTransfer
  <2>1. /\ \A op : Begins(Coordinator, op) => c.op = op
        /\ \A op : op # "none" /\ Resumes(Coordinator, {op}) => c.op = op
    BY <1>4
  <2>2. c.op \in TransferOps
    BY DEF c
  <2> QED
    BY <2>1, <2>2 DEF CoordinatorSteps, RegisterAccount, InitiateTransfer, Withdrawn,
       RecordPendingTransfer, GetPendingTransfers, TransferOps
<1> QED  BY <1>10, <1>11, <1>12, <1>13, <1>14, <1>15, <1>16

(* What the coordinator does about a request that pays is a transfer. *)
LEMMA CoordinatorPays ==
    ASSUME MailInv, MailInv', MoneyInv, CallInv, FlowInv, PhaseInv, AddressInv,
           workload' = workload, CoordinatorSteps,
           NEW i \in DOMAIN workload.commands \cap Requests, About(Coordinator) = i,
           Paying(i)
    PROVE  Command(i).command = "transfer" /\ Refusing(i)
<1> DEFINE c == Current(Coordinator)
<1>1. /\ Turns(Coordinator) /\ Acts(Coordinator) /\ c.op # "stop" /\ c \in Messages
      /\ Coordinator \in Actors /\ Bank \in Actors /\ Proper(Coordinator, c)
      /\ Coordinator # Bank /\ Coordinator # Teller /\ Coordinator \notin Accounts
  BY CoordinatorTurns, CoordinatorIs, ActorNames DEF Callers
<1>2. c \in Under(Coordinator) /\ c.about = i
  BY <1>1, CoordinatorParts
<1>3. CASE c.op \in SelfSent
  <2>1. Moving(i)
    BY <1>2, <1>3 DEF Moving
  <2>2. Command(i).command = "transfer"
    BY <2>1 DEF AddressInv
  <2>3. CASE c.op \in TransferOps
    BY <2>2, <2>3, StepEffects
  <2>4. CASE c.op = "recordPendingTransfer"
    <3>1. /\ \A op : Begins(Coordinator, op) => c.op = op
          /\ \A op : op # "none" /\ Resumes(Coordinator, {op}) => c.op = op
      BY BeginsTurns, ResumesTurns
    <3> HIDE DEF c
    <3>2. RecordPendingTransfer
      BY <2>4, <3>1 DEF CoordinatorSteps, RegisterAccount, InitiateTransfer,
         Withdrawn, AttemptDeposit, Deposited, HandleDepositFailure, ProcessRefund,
         Refunded, CompleteTransfer, GetPendingTransfers
    <3> QED  BY <2>2, <3>2, RecordEffects
  <2> QED  BY <1>3, <2>2, <2>3, <2>4 DEF SelfSent
<1>4. CASE c.op = "initiateTransfer"
  <2>1. Command(i).command = "transfer"
    BY <1>2, <1>4, CoordinatorServes
  <2> QED  BY <1>4, <2>1, InitiateEffects
<1>5. CASE c.op \notin SelfSent /\ c.op # "initiateTransfer"
  <2>1. c.reply = Bank /\ Served(c)
    BY <1>1, <1>2, <1>5 DEF Proper, CallInv
  <2>2. /\ handling[Bank] # None /\ handling[Bank].about = i
        /\ <<Bank, handling[Bank].op, c.op>> \in Awaits
    BY <1>2, <2>1 DEF Served, Callers
  <2>3. c.op \in {"registerAccount", "getPendingTransfers"}
    BY <1>1, <1>5 DEF Proper, CoordinatorProtocol, SelfSent
  <2>4. handling[Bank].op \in {"openAccount", "pendingTransfers"}
    <3> HIDE DEF c
    <3> QED  BY <1>1, <2>2, <2>3 DEF Awaits, Commands, Formatted, Queries
  <2>5. handling[Bank] \in Under(Bank)
    BY <1>1, <2>2, UnderIs
  <2>6. handling[Bank].op = Command(i).command
    BY <2>2, <2>4, <2>5, BankServes
  <2> QED  BY <2>4, <2>6 DEF Paying
<1> QED  BY <1>3, <1>4, <1>5

LEMMA CoordinatorEntries ==
    ASSUME MailInv, MailInv', MoneyInv, CallInv, FlowInv, PhaseInv, AddressInv, BookInv,
           workload' = workload, CoordinatorSteps,
           NEW i \in DOMAIN workload.commands \cap Requests, NEW op \in Moves
    PROVE  Same(i, op) \/ Refusal(i, op)
<1>1. /\ Coordinator \in Actors /\ Turns(Coordinator) /\ Busy(Coordinator)
      /\ Acts(Coordinator) /\ Refuses(Coordinator) /\ Current(Coordinator).op # "stop"
      /\ rejected' = rejected /\ Unrejected(i)
  BY CoordinatorTurns, ActorNames DEF Callers, Unrejected
<1>2. CASE About(Coordinator) # i
  <2>1. Apart(i)
    BY <1>2, CoordinatorApart DEF FlowInv, Withdraws
  <2>2. Unmoved(i)
    BY <2>1, ApartMovesNothing
  <2> QED  BY <1>1, <1>2, <2>2, OtherEntries
<1>3. CASE About(Coordinator) = i /\ ~Paying(i)
  BY <1>1, <1>3, NotPaying
<1>4. CASE About(Coordinator) = i /\ Paying(i)
  <2>1. /\ Command(i).command = "transfer" /\ Refusing(i) /\ Command(i)' = Command(i)
        /\ Doing(i, Site(i, op), op)' <=> Doing(i, Site(i, op), op)
    BY <1>1, <1>4, CoordinatorPays, CoordinatorParts
  <2>2. CASE /\ refused' = refused
             /\ Effect(i, op)' <=> Effect(i, op)
    <3>1. Missing(i, op)' <=> Missing(i, op)
      BY <2>1, <2>2 DEF Missing
    <3> QED  BY <1>1, <2>1, <2>2, <3>1 DEF Same
  <2>3. ASSUME NEW o \in Moves, refused' = refused \cup {<<i, o>>}, op # o,
               Effect(i, op)' <=> Effect(i, op)
        PROVE  Same(i, op)
    <3>1. Missing(i, op)' <=> Missing(i, op)
      BY <2>1, <2>3 DEF Missing, Moves
    <3> QED  BY <1>1, <2>1, <2>3, <3>1 DEF Same
  <2>4. CASE /\ refused' = refused \cup {<<i, op>>}
             /\ ~Effect(i, op) /\ Effect(i, op)'
    <3>1. ~Missing(i, op) /\ Missing(i, op)'
      BY <2>1, <2>4 DEF Missing, BookInv
    <3> QED  BY <1>1, <2>1, <2>4, <3>1 DEF Refusal
  <2> QED  BY <2>1, <2>2, <2>3, <2>4 DEF Refusing
<1> QED  BY <1>2, <1>3, <1>4

LEMMA HandledAlone ==
    ASSUME MailInv, FlowInv, NEW i \in Requests, handling[Coordinator] \in Steps(i)
    PROVE  Completions(i) = {}
<1> DEFINE q == queue[Coordinator]
           h == handling[Coordinator]
<1>1. q \in Seq(Messages) /\ h \in Steps(i) /\ Flow(i, q, h, status[i], pending, timeouts)
  BY ActorNames DEF MailInv, Callers, FlowInv, FlowOf
<1> HIDE DEF q, h
<1>2. CountIn(q, Steps(i)) = 0
  <2>1. StepsIn(i, q, h, timeouts) <= 1
    BY <1>1 DEF Flow
  <2>2. /\ CountIn(q, Steps(i)) \in Nat /\ Truth(i \in timeouts) \in {0, 1}
        /\ Truth(h \in Steps(i)) = 1
    BY <1>1, StepsTyped DEF Truth
  <2> QED  BY <2>1, <2>2 DEF StepsIn
<1>3. ToSet(q) \cap Steps(i) = {} /\ ToSet(q) \subseteq Messages
  BY <1>1, <1>2, CountZero, QueueElements
<1>4. \A m \in Messages : m.op = "completeTransfer" /\ m.about = i => m \in Steps(i)
  BY DEF Steps, IsStep, TransferOps
<1> QED  BY <1>3, <1>4 DEF Completions, q

(* An account tells whether it did what it was asked. *)
LEMMA CallerEffects ==
    ASSUME MailInv, CallInv, FlowInv, PhaseInv, AddressInv, workload' = workload,
           NEW a \in Accounts, Busy(a), Acts(a),
           NEW i \in DOMAIN workload.commands \cap Requests, About(a) = i, Unmoved(i),
           NEW o \in Moves, Current(a).op = o, NEW b, Current(a).reply = b,
           answer'[b] \in {"pending", "error", "value"}
    PROVE  /\ a = Site(i, o) /\ a \in DOMAIN balance
           /\ ~Effect(i, o) /\ (Effect(i, o)' <=> answer'[b] = "value")
           /\ \A op \in Moves \ {o} : Effect(i, op)' <=> Effect(i, op)
<1> DEFINE c == Current(a)
<1>1. /\ a \in Actors /\ a \notin {Teller, Bank, Coordinator} /\ Teller \in Actors
      /\ Bank \in Actors /\ Coordinator \in Actors /\ Client \notin {Bank, Coordinator}
      /\ Teller # Bank /\ Teller # Coordinator /\ Bank # Coordinator
  BY ActorNames DEF Callers, Names
<1>2. c \in Under(a) /\ c.about = i /\ c.op = o /\ c.reply = b
  BY <1>1, CurrentMessage DEF About
<1>3. a = Site(i, o) /\ a \in DOMAIN balance /\ Addressed(a, c)
  BY <1>2 DEF AddressInv, Addressed
<1>4. /\ b \in {Bank, Coordinator}
      /\ b = Bank => Doing(i, Bank, o) /\ answer[Bank] = "pending"
      /\ b = Coordinator =>
             /\ Serves(Coordinator, i) /\ answer[Coordinator] = "pending"
             /\ <<handling[Coordinator].op, o>> \in
                    {<<"initiateTransfer", "withdraw">>,
                     <<"attemptDeposit", "deposit">>, <<"processRefund", "refund">>}
      /\ b = Bank => o = Command(i).command
      /\ b = Coordinator => Command(i).command = "transfer"
  BY <1>2, <1>3, AccountServes DEF Addressed
<1>5. /\ handling'[Teller] = handling[Teller] /\ handling'[Bank] = handling[Bank]
      /\ handling'[Coordinator] = handling[Coordinator]
      /\ answer'[Teller] = answer[Teller] /\ outcome'[i] = outcome[i]
      /\ b = Coordinator => answer'[Bank] = answer[Bank]
      /\ b = Bank => answer'[Coordinator] = answer[Coordinator]
  BY <1>1, <1>4 DEF Acts
<1>6. Said(i)' <=> Said(i)
  BY <1>1, <1>5 DEF Said, Doing, Serves, Command
<1>7. Command(i)' = Command(i)
  BY DEF Command
<1>8. CASE b = Bank
  <2>1. ~Said(i)
    <3>1. handling[Bank] \in Under(Bank) /\ handling[Bank].about = i
          /\ handling[Bank].op # "stop"
      BY <1>1, <1>4, <1>8, UnderIs DEF Doing, Serves, Moves
    <3>2. outcome[i] = "pending" /\ answer[Teller] = "pending"
      BY <3>1, BankServes
    <3> QED  BY <3>2 DEF Said
  <2>2. ~Done(i) /\ (Done(i)' <=> answer'[Bank] = "value")
    BY <1>1, <1>4, <1>5, <1>6, <1>7, <1>8, <2>1 DEF Done, Doing, Serves
  <2>3. Command(i).command # "transfer"
    BY <1>4, <1>8 DEF Moves
  <2> QED  BY <1>3, <1>4, <1>7, <1>8, <2>2, <2>3 DEF Effect
<1>9. CASE b = Coordinator
  <2>1. /\ Serves(Coordinator, i) /\ Command(i).command = "transfer"
        /\ handling[Coordinator] \in Under(Coordinator)
        /\ handling[Coordinator] \in Messages
    BY <1>1, <1>4, <1>9, UnderIs DEF Serves
  <2>2. \A p : /\ ~Fine(Coordinator, i, p)
               /\ Fine(Coordinator, i, p)' <=>
                      handling[Coordinator].op = p /\ answer'[Coordinator] = "value"
    BY <1>1, <1>4, <1>5, <1>9, <2>1 DEF Fine, Doing, Serves
  <2>3. Fine(Bank, i, "transfer")' <=> Fine(Bank, i, "transfer")
    BY <1>1, <1>5, <1>9 DEF Fine, Doing, Serves
  <2>5. handling[Coordinator].op = "initiateTransfer" => ~Took(i)
    BY <2>1, <2>2, CoordinatorServes DEF Took, Said, Fine, Serves
  <2>6. handling[Coordinator].op = "processRefund" => ~Repaid(i)
    <3>1. handling[Coordinator].op = "processRefund" => status[i] = "failed-deposit"
      BY <2>1 DEF PhaseInv, PhaseOf, Fits, Serves
    <3> QED  BY <2>2, <3>1 DEF Repaid
  <2>7. handling[Coordinator].op = "attemptDeposit" => ~Arrived(i)
    <3>1. handling[Coordinator].op = "attemptDeposit" => status[i] # "completed"
      BY <2>1 DEF PhaseInv, PhaseOf, Fits, Serves, Early
    <3>2. handling[Coordinator].op = "attemptDeposit" => Completions(i) = {}
      <4>1. handling[Coordinator].op = "attemptDeposit" => handling[Coordinator] \in Steps(i)
        BY <2>1 DEF Steps, IsStep, TransferOps, Serves
      <4> QED  BY <4>1, HandledAlone
    <3> QED  BY <2>2, <3>1, <3>2 DEF Arrived, Completing
  <2>8. /\ Took(i)' <=> \/ Took(i)
                        \/ handling[Coordinator].op = "initiateTransfer"
                           /\ answer'[Coordinator] = "value"
        /\ Repaid(i)' <=> \/ Repaid(i)
                          \/ handling[Coordinator].op = "processRefund"
                             /\ answer'[Coordinator] = "value"
        /\ Arrived(i)' <=> \/ Arrived(i)
                           \/ handling[Coordinator].op = "attemptDeposit"
                              /\ answer'[Coordinator] = "value"
    BY <1>6, <2>2, <2>3 DEF Took, Repaid, Arrived, Completing, Unmoved
  <2>9. <<handling[Coordinator].op, o>> \in
            {<<"initiateTransfer", "withdraw">>,
             <<"attemptDeposit", "deposit">>, <<"processRefund", "refund">>}
    BY <1>4, <1>9
  <2> QED
    BY <1>3, <1>9, <2>1, <2>5, <2>6, <2>7, <2>8, <2>9, TransferEffects DEF Moves
<1> QED  BY <1>4, <1>8, <1>9

(* An account changes its balance. *)
Pays(a) == (Deposit(a) \/ Withdraw(a) \/ Refund(a)) /\ AwaitsHistory(a)

LEMMA AccountTurns ==
    ASSUME MailInv, NEW a \in Accounts, AccountSteps(a) \/ HistorySettles(a)
    PROVE  /\ a \in Actors /\ Busy(a) /\ Acts(a) /\ Refuses(a) /\ refused' = refused
           /\ Current(a).op \in AccountProtocol
           /\ Pays(a) => rejected' = rejected /\ handling[a] = None
           /\ ~Pays(a) => balance' = balance
           /\ \/ /\ handling[a] = None
                 /\ rejected' = rejected
                 /\ AwaitsHistory(a) \/ Throws(a) \/ Returns(a, "value")
                 /\ Current(a).op \in Moves => Pays(a) \/ Throws(a)
              \/ handling[a] # None /\ HistorySettles(a)
<1>1. a \in Actors
  BY ActorNames
<1>2. \A op : Begins(a, op) => Busy(a) /\ Current(a).op = op /\ handling[a] = None
  BY BeginsTurns
<1>3. /\ Throws(a) \/ Returns(a, "value") \/ AwaitsHistory(a) => Acts(a) /\ Refuses(a)
      /\ Throws(a) \/ Returns(a, "value") \/ AwaitsHistory(a) => refused' = refused
  <2>1. Throws(a) \/ Returns(a, "value") \/ AwaitsHistory(a) => Acts(a) /\ Refuses(a)
    BY <1>1, EndsAct, EndsRefuse
  <2> QED  BY <2>1 DEF Throws, Returns, Ends, AwaitsHistory
<1>4. {"deposit", "withdraw", "refund", "getInfo", "getHistory"} \subseteq AccountProtocol
      /\ {"getInfo", "getHistory"} \cap Moves = {}
  BY DEF AccountProtocol, Moves
<1>0. Pays(a) => AwaitsHistory(a)
  BY DEF Pays
<1>5. CASE Deposit(a)
  <2>1. Pays(a) \/ (Throws(a) /\ balance' = balance)
    BY <1>5 DEF Deposit, Pays
  <2> QED  BY <1>0, <1>1, <1>2, <1>3, <1>4, <1>5, <2>1 DEF Deposit
<1>6. CASE Withdraw(a)
  <2>1. Pays(a) \/ (Throws(a) /\ balance' = balance)
    BY <1>6 DEF Withdraw, Pays
  <2> QED  BY <1>0, <1>1, <1>2, <1>3, <1>4, <1>6, <2>1 DEF Withdraw
<1>7. CASE Refund(a)
  <2>1. Pays(a)
    BY <1>7 DEF Refund, Pays
  <2> QED  BY <1>0, <1>1, <1>2, <1>3, <1>4, <1>7, <2>1 DEF Refund
<1>8. CASE GetInfo(a) \/ GetHistory(a)
  BY <1>1, <1>2, <1>3, <1>4, <1>8 DEF GetInfo, GetHistory, OnlyMessages, moneyVars
<1>9. CASE HistorySettles(a)
  <2>1. handling[a].op \in HistoryOps
    BY <1>9 DEF HistorySettles, HistoryAnswers, HistoryRejects
  <2>2. handling[a] # None /\ Current(a) = handling[a]
    BY <2>1, NoneIsNoMessage DEF HistoryOps, Moves, Current
  <2>3. Throws(a) \/ Returns(a, "value")
    BY <1>9 DEF HistorySettles, HistoryAnswers, HistoryRejects
  <2>4. balance' = balance
    BY <1>9 DEF HistorySettles, HistoryAnswers, HistoryRejects, moneyVars
  <2>5. ~Pays(a)
    BY <2>2 DEF Pays, Deposit, Withdraw, Refund, Begins
  <2> QED
    BY <1>1, <1>3, <1>9, <2>1, <2>2, <2>3, <2>4, <2>5 DEF Busy, HistoryOps, Moves,
       AccountProtocol
<1> QED  BY <1>5, <1>6, <1>7, <1>8, <1>9 DEF AccountSteps

LEMMA AccountErrands ==
    ASSUME MailInv, CallInv, NEW a \in Accounts, Busy(a), Current(a).op \in AccountProtocol,
           Current(a).op \notin Moves, NEW i \in Requests, About(a) = i
    PROVE  ~Paying(i)
<1> DEFINE c == Current(a)
<1>1. /\ Bank \in Actors /\ Coordinator \in Actors /\ Bank # Coordinator /\ Teller # Bank
      /\ Teller # Coordinator /\ a \in Actors /\ a \notin {Teller, Bank, Coordinator}
  BY ActorNames DEF Callers
<1>2. /\ c \in Under(a) /\ c.about = i /\ Proper(a, c) /\ Served(c)
      /\ c.op \in {"getInfo", "getHistory"}
  BY <1>1, CurrentMessage DEF About, CallInv, AccountProtocol
<1>3. c.reply \in {Bank, Coordinator}
  BY <1>1, <1>2 DEF Proper
<1> HIDE DEF c
<1>4. /\ handling[c.reply] # None /\ handling[c.reply].about = i
      /\ <<c.reply, handling[c.reply].op, c.op>> \in Awaits
  BY <1>2, <1>3 DEF Served, Callers
<1>5. /\ c.reply = Bank
      /\ handling[Bank].op \in {"accountSummary", "transactionHistory", "allAccounts"}
  BY <1>1, <1>2, <1>3, <1>4 DEF Awaits, Commands, Formatted, Queries
<1>6. handling[Bank] \in Under(Bank) /\ handling[Bank].op # "stop"
  BY <1>1, <1>4, <1>5, UnderIs
<1>7. handling[Bank].op = Command(i).command
  BY <1>4, <1>5, <1>6, BankServes
<1> QED  BY <1>5, <1>7 DEF Paying

LEMMA AccountEntries ==
    ASSUME MailInv, CallInv, FlowInv, PhaseInv, AddressInv, workload' = workload,
           NEW a \in Accounts, AccountSteps(a) \/ HistorySettles(a),
           NEW i \in DOMAIN workload.commands \cap Requests, Unmoved(i), NEW op \in Moves
    PROVE  \/ /\ Same(i, op) \/ Answer(i, op) \/ Rejection(i, op)
              /\ ~(Pays(a) /\ About(a) = i /\ Current(a).op = op)
           \/ /\ Pays(a) /\ About(a) = i /\ Current(a).op = op
              /\ a = Site(i, op) /\ a \in DOMAIN balance /\ Entry(i, op)
<1>1. /\ a \in Actors /\ Busy(a) /\ Acts(a) /\ Refuses(a) /\ refused' = refused
      /\ Current(a).op \in AccountProtocol
      /\ Pays(a) => rejected' = rejected /\ handling[a] = None
      /\ \/ /\ handling[a] = None
            /\ rejected' = rejected
            /\ AwaitsHistory(a) \/ Throws(a) \/ Returns(a, "value")
            /\ Current(a).op \in Moves => Pays(a) \/ Throws(a)
         \/ handling[a] # None /\ HistorySettles(a)
  BY AccountTurns
<1>2. /\ Current(a) \in Under(a) /\ Current(a).about = About(a) /\ Current(a) # None
      /\ Current(a) \in Messages
      /\ handling[a] # None => Current(a) = handling[a]
      /\ a \notin {Teller, Bank, Coordinator} /\ Coordinator \in Actors /\ Bank \in Actors
  BY <1>1, CurrentMessage, NoneIsNoMessage, ActorNames DEF About, Current, Callers
<1>3. /\ rejected \in [Requests \X Moves -> Nat]
      /\ \/ rejected' = rejected
         \/ /\ handling[a] # None /\ HistoryRejects(a) /\ Current(a).op \in Moves
            /\ rejected' = [rejected EXCEPT ![<<About(a), Current(a).op>>] = @ + 1]
  <2>1. HistoryAnswers(a) => rejected' = rejected
    BY DEF HistoryAnswers, moneyVars
  <2> QED  BY <1>1, <1>2, <2>1 DEF HistorySettles, HistoryRejects, FlowInv
<1>4. CASE About(a) # i
  <2>1. Unrejected(i)
    BY <1>3, <1>4 DEF Unrejected
  <2> QED  BY <1>1, <1>4, <2>1, OtherEntries
<1>5. CASE About(a) = i /\ Current(a).op \notin Moves
  <2>1. ~Paying(i)
    BY <1>1, <1>5, AccountErrands
  <2>2. Unrejected(i)
    BY <1>3, <1>5 DEF Unrejected
  <2> QED  BY <1>5, <2>1, <2>2, NotPaying
<1>6. ASSUME About(a) = i, NEW o \in Moves, Current(a).op = o
      PROVE  \/ /\ Same(i, op) \/ Answer(i, op) \/ Rejection(i, op)
                /\ ~(Pays(a) /\ o = op)
             \/ /\ Pays(a) /\ o = op
                /\ a = Site(i, op) /\ a \in DOMAIN balance /\ Entry(i, op)
  <2>1. PICK b : b = Current(a).reply
    OBVIOUS
  <2>2. b \in {Bank, Coordinator} /\ answer[b] = "pending"
    BY <1>2, <1>6, <2>1, AccountServes
  <2>3. b \in Actors \ {a}
    BY <1>2, <2>2
  <2>4. /\ AwaitsHistory(a) => answer'[b] = "pending" /\ handling'[a] # None
        /\ Throws(a) => answer'[b] = "error" /\ handling'[a] = None
        /\ Returns(a, "value") => answer'[b] = "value" /\ handling'[a] = None
    BY <1>1, <1>2, <2>1, <2>2, <2>3 DEF AwaitsHistory, Throws, Returns, Ends, MailInv
  <2>5. \/ Pays(a) /\ AwaitsHistory(a)
        \/ handling[a] = None /\ Throws(a) /\ rejected' = rejected /\ ~Pays(a)
        \/ handling[a] # None /\ HistoryAnswers(a) /\ Returns(a, "value")
        \/ handling[a] # None /\ HistoryRejects(a) /\ Throws(a)
    BY <1>1, <1>6, <2>4 DEF HistorySettles, HistoryAnswers, HistoryRejects, Pays
  <2>6. answer'[b] \in {"pending", "error", "value"}
    BY <2>4, <2>5
  <2>7. /\ a = Site(i, o) /\ a \in DOMAIN balance
        /\ ~Effect(i, o) /\ (Effect(i, o)' <=> answer'[b] = "value")
        /\ \A p \in Moves \ {o} : Effect(i, p)' <=> Effect(i, p)
    BY <1>1, <1>6, <2>1, <2>6, CallerEffects
  <2>8. Missing(i, op)' <=> Missing(i, op)
    BY <1>1 DEF Missing, Command
  <2>9. Site(i, op)' = Site(i, op)
    BY DEF Site, Command
  <2>10. CASE op # o
    <3>1. Doing(i, Site(i, op), op)' <=> Doing(i, Site(i, op), op)
      <4>1. CASE Site(i, op) = a
        <5>1. handling[a] # None => handling[a].op # op
          BY <1>2, <1>6, <2>10
        <5>2. handling'[a] # None => handling'[a].op # op
          BY <1>1, <1>6, <2>10 DEF Acts
        <5> QED  BY <2>9, <4>1, <5>1, <5>2 DEF Doing, Serves
      <4>2. CASE Site(i, op) # a
        BY <1>1, <2>9, <4>2 DEF Doing, Serves, Acts
      <4> QED  BY <4>1, <4>2
    <3>2. rejected'[<<i, op>>] = rejected[<<i, op>>]
      BY <1>3, <1>6, <2>10
    <3> QED  BY <2>7, <2>8, <2>10, <3>1, <3>2 DEF Same
  <2>11. CASE op = o
    <3>1. /\ Doing(i, Site(i, op), op) <=> handling[a] # None
          /\ Doing(i, Site(i, op), op)' <=> handling'[a] # None
      <4>1. Doing(i, Site(i, op), op) <=> handling[a] # None
        BY <1>1, <1>2, <1>6, <2>7, <2>11 DEF Doing, Serves
      <4>2. handling'[a] # None => handling'[a] = Current(a)
        BY <1>1 DEF Acts
      <4>3. Current(a).about = i /\ Current(a).op = op
        BY <1>2, <1>6, <2>11
      <4>4. Doing(i, Site(i, op), op)' <=> handling'[a] # None
        BY <1>1, <2>7, <2>9, <2>11, <4>2, <4>3 DEF Doing, Serves
      <4> QED  BY <4>1, <4>4
    <3>2. CASE Pays(a) /\ AwaitsHistory(a)
      BY <1>1, <2>4, <2>7, <2>8, <2>11, <3>1, <3>2 DEF Entry
    <3>3. CASE handling[a] = None /\ Throws(a) /\ rejected' = rejected /\ ~Pays(a)
      BY <2>4, <2>7, <2>8, <2>11, <3>1, <3>3 DEF Same
    <3>4. CASE handling[a] # None /\ HistoryAnswers(a) /\ Returns(a, "value")
      <4>1. rejected' = rejected /\ ~Pays(a)
        BY <1>1, <3>4 DEF HistoryAnswers, moneyVars
      <4> QED  BY <2>4, <2>7, <2>8, <2>11, <3>1, <3>4, <4>1 DEF Answer
    <3>5. CASE handling[a] # None /\ HistoryRejects(a) /\ Throws(a)
      <4>1. ~Pays(a)
        BY <1>1, <3>5
      <4>2. rejected'[<<i, op>>] = rejected[<<i, op>>] + 1
        <5>1. rejected' = [rejected EXCEPT ![<<i, op>>] = @ + 1]
          BY <1>2, <1>6, <2>11, <3>5 DEF HistoryRejects
        <5> QED  BY <1>3, <5>1
      <4> QED  BY <2>4, <2>7, <2>8, <2>11, <3>1, <3>5, <4>1, <4>2 DEF Rejection
    <3> QED  BY <2>5, <3>2, <3>3, <3>4, <3>5
  <2> QED  BY <2>10, <2>11
<1> QED  BY <1>4, <1>5, <1>6

(* Who stops serves no request. *)
LEMMA StoppingEntries ==
    ASSUME MailInv, CallInv, workload' = workload,
           NEW i \in Requests, Unmoved(i), NEW op \in Moves,
           \/ \E a \in Actors : Stops(a)
           \/ BankBeginsToStop \/ BankStops
    PROVE  Same(i, op)
<1>1. Bank \in Actors /\ 0 \notin Requests /\ "stop" \notin Moves /\ "stop" # "none"
  BY ActorNames DEF Callers, Moves
<1>2. \A a \in Actors : Busy(a) /\ Current(a).op = "stop" => About(a) = 0
  <2>1. \A a \in Actors : Busy(a) => Proper(a, Current(a))
    BY CurrentMessage
  <2>2. "stop" \notin Commands \cup CoordinatorProtocol \cup SelfSent \cup AccountProtocol
    BY DEF Commands, Formatted, Queries, CoordinatorProtocol, SelfSent, TransferOps,
       AccountProtocol, Moves
  <2>3. \A j \in DOMAIN workload.commands : Command(j).command \in Commands
    BY CommandTypes
  <2> QED  BY <2>1, <2>2, <2>3 DEF Proper, About
<1>3. ASSUME NEW a \in Actors, Busy(a), Current(a).op = "stop", Acts(a), Refuses(a),
             rejected' = rejected
      PROVE  Same(i, op)
  <2>1. About(a) # i /\ Unrejected(i)
    BY <1>1, <1>2, <1>3 DEF Unrejected
  <2> QED  BY <1>3, <2>1, OtherEntries
<1>4. ASSUME NEW a \in Actors, Stops(a)
      PROVE  Same(i, op)
  <2>1. Busy(a) /\ Current(a).op = "stop" /\ rejected' = rejected /\ Returns(a, "value")
    BY <1>4, BeginsTurns DEF Stops, moneyVars
  <2> QED  BY <1>3, <2>1, EndsAct, EndsRefuse
<1>5. CASE BankStops
  <2>1. /\ handling[Bank] # None /\ Current(Bank) = handling[Bank]
        /\ rejected' = rejected /\ Returns(Bank, "value")
    BY <1>5, NoneIsNoMessage DEF BankStops, moneyVars, Current
  <2>2. Busy(Bank) /\ Current(Bank).op = "stop"
    BY <1>5, <2>1 DEF BankStops, Busy
  <2> QED  BY <1>1, <1>3, <2>1, <2>2, EndsAct, EndsRefuse
<1>6. CASE BankBeginsToStop
  <2>1. Busy(Bank) /\ Current(Bank).op = "stop" /\ rejected' = rejected
    BY <1>6, BeginsTurns DEF BankBeginsToStop, moneyVars
  <2>2. handling'[Bank] = Current(Bank) /\ \A x \in Actors \ {Bank} : handling'[x] = handling[x]
    BY <1>1, <1>6 DEF BankBeginsToStop, MailInv
  <2>3. Acts(Bank) /\ Refuses(Bank)
    BY <1>6, <2>2 DEF BankBeginsToStop, Acts, Refuses
  <2> QED  BY <1>1, <1>3, <2>1, <2>3
<1> QED  BY <1>4, <1>5, <1>6

(* The steps in which no actor goes on. *)
LEMMA StillEntries ==
    ASSUME MailInv, CallInv, workload' = workload,
           NEW i \in Requests, Unmoved(i), NEW op \in Moves,
           \/ CloseStage
           \/ \E a \in Actors : \/ BankSupervisor(a) \/ TransferSupervisor(a)
                                \/ AccountSupervisor(a)
                                \/ StageStops(a) \/ ParentStops(a)
           \/ \E t \in Others : OthersSchedule(t)
           \/ \E j \in Requests : RetryFires(j) \/ ClientCalls(j)
           \/ UNCHANGED vars
    PROVE  Same(i, op)
<1>1. ASSUME UNCHANGED <<handling, answer, refused, rejected>>,
             outcome'[i] = "value" <=> outcome[i] = "value"
      PROVE  Same(i, op)
  <2>1. \A x \in Actors : Serves(x, i)' <=> Serves(x, i)
    BY <1>1 DEF Serves
  <2>2. Rests(i)
    BY <1>1, <2>1 DEF Rests
  <2>3. Unrefused(i) /\ Unrejected(i)
    BY <1>1 DEF Unrefused, Unrejected
  <2> QED  BY <2>2, <2>3, RestingEntries
<1>2. ASSUME NEW j \in Requests, ClientCalls(j)
      PROVE  Same(i, op)
  <2>1. UNCHANGED <<handling, answer, refused, rejected>>
    BY <1>2 DEF ClientCalls, OnlyMessages, moneyVars
  <2>2. outcome' = [outcome EXCEPT ![j] = "pending"] /\ outcome[j] = "unsent"
    BY <1>2 DEF ClientCalls, Chooses
  <2>3. outcome'[i] = "value" <=> outcome[i] = "value"
    BY <2>2 DEF MailInv
  <2> QED  BY <1>1, <2>1, <2>3
<1>3. ASSUME NEW a \in Actors,
             \/ BankSupervisor(a) \/ TransferSupervisor(a) \/ AccountSupervisor(a)
             \/ StageStops(a) \/ ParentStops(a)
      PROVE  Same(i, op)
  BY <1>1, <1>3 DEF BankSupervisor, TransferSupervisor, AccountSupervisor, DecidesToResume,
     StageStops, ParentStops, SendsStop, OnlyMessages, moneyVars
<1>4. CASE CloseStage \/ UNCHANGED vars
  BY <1>1, <1>4 DEF CloseStage, vars, messageVars, moneyVars
<1>5. ASSUME NEW t \in Others, OthersSchedule(t)
      PROVE  Same(i, op)
  BY <1>1, <1>5 DEF OthersSchedule, messageVars, moneyVars
<1>6. ASSUME NEW j \in Requests, RetryFires(j)
      PROVE  Same(i, op)
  BY <1>1, <1>6 DEF RetryFires, moneyVars
<1> QED  BY <1>2, <1>3, <1>4, <1>5, <1>6

(* What a request has done is taken for a success, or found to be missing,   *)
(* together with the rest.                                                   *)
Even(i, op) == Same(i, op) \/ Refusal(i, op) \/ Answer(i, op) \/ Rejection(i, op)

(* The account changes for operation op of request i. *)
PaysFor(a, i, op) == About(a) = i /\ Current(a).op = op

(* The balances change, for one request, as what it has done does. *)
Paid(a) ==
    /\ Pays(a)
    /\ \A i \in DOMAIN workload.commands \cap Requests : \A op \in Moves :
           IF PaysFor(a, i, op)
           THEN a = Site(i, op) /\ a \in DOMAIN balance /\ Entry(i, op)
           ELSE Even(i, op)

LEMMA StepEntries ==
    ASSUME MailInv, MailInv', MoneyInv, CallInv, FlowInv, PhaseInv, AddressInv, BookInv,
           [Next]_vars, workload' = workload
    PROVE  \/ /\ UNCHANGED <<initial, balance>> \/ OpenAccount
              /\ \A i \in DOMAIN workload.commands \cap Requests : \A op \in Moves :
                     Even(i, op)
           \/ \E a \in Accounts : Paid(a)
<1> DEFINE Evens == \A i \in DOMAIN workload.commands \cap Requests : \A op \in Moves :
                        Even(i, op)
           Steady == UNCHANGED <<initial, balance>> \/ OpenAccount
           Goal == (Steady /\ Evens) \/ \E a \in Accounts : Paid(a)
<1> SUFFICES Goal
  OBVIOUS
<1> HIDE DEF Goal
<1>0. Steady /\ Evens => Goal
  BY DEF Goal
<1>1. CASE CoordinatorSteps
  <2>1. Steady
    BY <1>1 DEF CoordinatorSteps, RegisterAccount, InitiateTransfer, Withdrawn,
       RecordPendingTransfer, AttemptDeposit, Deposited, HandleDepositFailure,
       ProcessRefund, Refunded, CompleteTransfer, GetPendingTransfers, OnlyMessages,
       moneyVars
  <2>2. Evens
    BY <1>1, CoordinatorEntries DEF Even
  <2> QED  BY <1>0, <2>1, <2>2
<1>2. ASSUME ~CoordinatorSteps
      PROVE  \A i \in Requests : Unmoved(i)
  BY <1>2, OthersMoveNothing
<1>3. CASE BankSteps /\ ~CoordinatorSteps
  <2>1. Steady
    BY <1>3 DEF BankSteps, AccountOpened, FindAccount, AccountFound,
       AccountSummary, TransactionHistory, AllAccounts, Transfer, TransferInitiated,
       PendingTransfers, BankAnswers, OnlyMessages, moneyVars
  <2>2. Evens
    BY <1>2, <1>3, BankEntries DEF Even
  <2> QED  BY <1>0, <2>1, <2>2
<1>4. ASSUME NEW op \in Commands, TellerAsks(op) \/ TellerAnswers(op)
      PROVE  Goal
  <2>1. Steady
    BY <1>4 DEF TellerAsks, TellerAnswers, OnlyMessages, moneyVars
  <2>2. Evens
    BY <1>4, TellerEntries DEF Even
  <2> QED  BY <1>0, <2>1, <2>2
<1>5. ASSUME ~CoordinatorSteps,
             \/ CloseStage \/ BankBeginsToStop \/ BankStops
             \/ \E a \in Actors : \/ BankSupervisor(a) \/ TransferSupervisor(a)
                                  \/ AccountSupervisor(a)
                                  \/ StageStops(a) \/ ParentStops(a) \/ Stops(a)
             \/ \E t \in Others : OthersSchedule(t)
             \/ \E j \in Requests : RetryFires(j) \/ ClientCalls(j)
             \/ UNCHANGED vars
      PROVE  Goal
  <2>1. Steady
    BY <1>5 DEF CloseStage, BankBeginsToStop, BankStops, BankSupervisor,
       TransferSupervisor, AccountSupervisor, DecidesToResume, StageStops, ParentStops,
       SendsStop, Stops, OthersSchedule, RetryFires, ClientCalls, OnlyMessages, vars,
       moneyVars
  <2>2. Evens
    <3>1. ASSUME NEW i \in Requests, NEW op \in Moves
          PROVE  Same(i, op)
      BY <1>2, <1>5, StoppingEntries, StillEntries
    <3> QED  BY <3>1 DEF Even
  <2> QED  BY <1>0, <2>1, <2>2
<1>6. ASSUME ~CoordinatorSteps, NEW a \in Accounts, AccountSteps(a) \/ HistorySettles(a)
      PROVE  Goal
  <2>1. ASSUME NEW i \in DOMAIN workload.commands \cap Requests, NEW op \in Moves
        PROVE  \/ Even(i, op) /\ ~(Pays(a) /\ PaysFor(a, i, op))
               \/ /\ Pays(a) /\ PaysFor(a, i, op)
                  /\ a = Site(i, op) /\ a \in DOMAIN balance /\ Entry(i, op)
    BY <1>2, <1>6, AccountEntries DEF Even, PaysFor
  <2>2. CASE Pays(a)
    BY <2>1, <2>2 DEF Paid, Goal
  <2>3. CASE ~Pays(a)
    <3>1. balance' = balance
      BY <1>6, <2>3, AccountTurns
    <3>2. initial' = initial
      BY <1>6 DEF AccountSteps, Deposit, Withdraw, Refund, GetInfo, GetHistory,
         HistorySettles, HistoryAnswers, HistoryRejects, OnlyMessages, moneyVars
    <3> QED  BY <1>0, <2>1, <2>3, <3>1, <3>2
  <2> QED  BY <2>2, <2>3
<1> HIDE DEF Evens, Steady
<1>7. CASE Progress
  BY <1>1, <1>3, <1>4, <1>5, <1>6, <1>7 DEF Progress
<1> QED
  BY <1>1, <1>5, <1>6, <1>7 DEF Next

(* What is counted does not change, or by one where an account changes. *)
LEMMA BookedIs ==
    ASSUME FlowInv, NEW i \in Requests, NEW op \in Moves
    PROVE  /\ Booked(i, op) \in Int
           /\ rejected[<<i, op>>] \in Nat
<1>1. rejected[<<i, op>>] \in Nat
  BY DEF FlowInv
<1>2. /\ Truth(Effect(i, op)) \in Nat /\ Truth(Missing(i, op)) \in Nat
      /\ Truth(Doing(i, Site(i, op), op)) \in Nat
  BY DEF Truth
<1> QED  BY <1>1, <1>2 DEF Booked

LEMMA BookedStep ==
    ASSUME FlowInv, FlowInv', NEW i \in Requests, NEW op \in Moves,
           Missing(i, op) => Effect(i, op)
    PROVE  /\ Even(i, op) => Booked(i, op)' = Booked(i, op)
           /\ Entry(i, op) => Booked(i, op)' = Booked(i, op) + 1
           /\ Even(i, op) \/ Entry(i, op) => (Missing(i, op)' => Effect(i, op)')
<1>1. PICK e, d, m, n, f, g, k, l \in Nat :
          /\ e = Truth(Effect(i, op)) /\ f = Truth(Effect(i, op)')
          /\ d = Truth(Doing(i, Site(i, op), op)) /\ g = Truth(Doing(i, Site(i, op), op)')
          /\ m = Truth(Missing(i, op)) /\ k = Truth(Missing(i, op)')
          /\ n = rejected[<<i, op>>] /\ l = rejected'[<<i, op>>]
  <2>1. rejected[<<i, op>>] \in Nat /\ rejected'[<<i, op>>] \in Nat
    BY DEF FlowInv
  <2>2. \A b : Truth(b) \in Nat
    BY DEF Truth
  <2>3. /\ Truth(Effect(i, op)) \in Nat /\ Truth(Effect(i, op)') \in Nat
        /\ Truth(Doing(i, Site(i, op), op)) \in Nat
        /\ Truth(Doing(i, Site(i, op), op)') \in Nat
        /\ Truth(Missing(i, op)) \in Nat /\ Truth(Missing(i, op)') \in Nat
    BY DEF Truth
  <2> QED  BY <2>1, <2>3
<1>2. Booked(i, op) = e + d + n - m /\ Booked(i, op)' = f + g + l - k
  BY <1>1 DEF Booked, Truth
<1>3. /\ Same(i, op) => f = e /\ g = d /\ k = m /\ l = n
      /\ Refusal(i, op) => e = 0 /\ f = 1 /\ g = d /\ m = 0 /\ k = 1 /\ l = n
      /\ Answer(i, op) => e = 0 /\ f = 1 /\ d = 1 /\ g = 0 /\ k = m /\ l = n
      /\ Rejection(i, op) => f = e /\ d = 1 /\ g = 0 /\ k = m /\ l = n + 1
      /\ Entry(i, op) => f = e /\ d = 0 /\ g = 1 /\ k = m /\ l = n
  <2>1. Same(i, op) => f = e /\ g = d /\ k = m /\ l = n
    BY <1>1 DEF Same, Truth
  <2>2. Refusal(i, op) => e = 0 /\ f = 1 /\ g = d /\ m = 0 /\ k = 1 /\ l = n
    BY <1>1 DEF Refusal, Truth
  <2>3. Answer(i, op) => e = 0 /\ f = 1 /\ d = 1 /\ g = 0 /\ k = m /\ l = n
    BY <1>1 DEF Answer, Truth
  <2>4. Rejection(i, op) => f = e /\ d = 1 /\ g = 0 /\ k = m /\ l = n + 1
    BY <1>1 DEF Rejection, Truth
  <2>5. Entry(i, op) => f = e /\ d = 0 /\ g = 1 /\ k = m /\ l = n
    BY <1>1 DEF Entry, Truth
  <2> QED  BY <2>1, <2>2, <2>3, <2>4, <2>5
<1>4. Even(i, op) => f + g + l - k = e + d + n - m
  BY <1>3 DEF Even
<1>5. Entry(i, op) => f + g + l - k = e + d + n - m + 1
  BY <1>3
<1>6. Even(i, op) \/ Entry(i, op) => (Missing(i, op)' => Effect(i, op)')
  BY DEF Even, Same, Refusal, Answer, Rejection, Entry
<1> QED  BY <1>2, <1>4, <1>5, <1>6

(* What an account is asked to pay is valid. *)
LEMMA PaysValid ==
    ASSUME MailInv, CallInv, TransferInv, NEW a \in Accounts, Pays(a)
    PROVE  /\ About(a) \in Requests /\ About(a) \in DOMAIN workload.commands
           /\ Command(About(a)).amount \in Nat /\ Current(a).op \in Moves
           /\ initial' = initial
           /\ balance' = [balance EXCEPT ![a] = IF Current(a).op = "withdraw"
                                                THEN @ - Command(About(a)).amount
                                                ELSE @ + Command(About(a)).amount]
<1>1. a \in Actors /\ Busy(a)
  BY ActorNames, BeginsTurns DEF Pays, Deposit, Withdraw, Refund
<1>2. Current(a).op \in Moves /\ initial' = initial /\
          \/ Deposit(a) /\ Current(a).op = "deposit"
          \/ Withdraw(a) /\ Current(a).op = "withdraw"
          \/ Refund(a) /\ Current(a).op = "refund"
  BY BeginsTurns DEF Pays, Deposit, Withdraw, Refund, Moves
<1>3. /\ Current(a) \in Under(a) /\ About(a) \in Requests
      /\ About(a) \in DOMAIN workload.commands
      /\ IsValid(Command(About(a)).amount) => Command(About(a)).amount \in Nat
  <2>1. Current(a) \in Under(a)
    BY <1>1, CurrentMessage
  <2>2. About(a) \in Requests /\ About(a) \in DOMAIN workload.commands
    BY <1>2, <2>1, AccountServes DEF About
  <2> QED  BY <2>1, <2>2, CommandTypes
<1>4. ~Throws(a)
  <2>1. AwaitsHistory(a) => handling'[a] # None
    BY <1>1, CurrentMessage, NoneIsNoMessage DEF AwaitsHistory, MailInv
  <2>2. Throws(a) => handling'[a] = None
    BY <1>1 DEF Throws, Ends, MailInv
  <2> QED  BY <2>1, <2>2 DEF Pays
<1>5. CASE Deposit(a) /\ Current(a).op = "deposit"
  BY <1>2, <1>3, <1>4, <1>5 DEF Deposit, AmountOf
<1>6. CASE Withdraw(a) /\ Current(a).op = "withdraw"
  BY <1>2, <1>3, <1>4, <1>6 DEF Withdraw, AmountOf
<1>7. CASE Refund(a) /\ Current(a).op = "refund"
  <2>1. /\ Current(a).reply = Bank => Doing(About(a), Bank, "refund")
        /\ Current(a).reply = Coordinator =>
               /\ Serves(Coordinator, About(a))
               /\ handling[Coordinator].op = "processRefund"
        /\ Current(a).reply \in {Bank, Coordinator}
    BY <1>2, <1>3, <1>7, AccountServes DEF About
  <2>2. ~Doing(About(a), Bank, "refund")
    <3>1. ASSUME Doing(About(a), Bank, "refund")  PROVE FALSE
      <4>1. handling[Bank] \in Under(Bank) /\ handling[Bank].op = "refund" /\ Bank \in Actors
        BY <3>1, UnderIs DEF Doing, Serves
      <4>2. handling[Bank].op = Command(handling[Bank].about).command
            /\ handling[Bank].about \in DOMAIN workload.commands
        BY <4>1, BankServes
      <4>3. "refund" \in Commands
        BY <4>1, <4>2, CommandTypes
      <4> QED  BY <4>3 DEF Commands, Formatted, Queries
    <3> QED  BY <3>1
  <2>3. handling[Coordinator] \in Under(Coordinator)
    BY <2>1, <2>2, UnderIs DEF Serves
  <2>4. Moving(About(a))
    BY <2>1, <2>2, <2>3, SelfSentOps DEF Moving, Serves
  <2>5. IsValid(TransferOf(About(a)).amount)
    BY <1>3, <2>4 DEF TransferInv
  <2>6. Command(About(a)).amount \in Nat
    BY <1>3, <2>5 DEF TransferOf
  <2> QED  BY <1>2, <1>3, <1>7, <2>6 DEF Refund, AmountOf
<1> QED  BY <1>2, <1>5, <1>6, <1>7

LEMMA BookInvKeeps ==
    ASSUME Inv, Inv', FlowInv, FlowInv', PhaseInv, AddressInv, BookInv, [Next]_vars
    PROVE  BookInv'
<1>1. /\ MailInv /\ MailInv' /\ MoneyInv /\ CallInv /\ TransferInv /\ workload' = workload
      /\ DOMAIN balance \subseteq DOMAIN balance'
  BY SmallTypes, AccountsGrow DEF Inv
<1>2. ASSUME NEW i \in DOMAIN workload.commands \cap Requests, NEW op \in Moves
      PROVE  /\ Missing(i, op)' => Effect(i, op)'
             /\ Booked(i, op)' # 0 => Site(i, op) \in DOMAIN balance'
                                      /\ Command(i).amount \in Nat
  <2>1. /\ Missing(i, op) => Effect(i, op)
        /\ Booked(i, op) # 0 => Site(i, op) \in DOMAIN balance /\ Command(i).amount \in Nat
    BY DEF BookInv
  <2>2. CASE Even(i, op)
    BY <1>1, <2>1, <2>2, BookedStep
  <2>3. CASE ~Even(i, op)
    <3>1. PICK a \in Accounts : Paid(a)
      BY <1>1, <2>3, StepEntries
    <3>2. Pays(a) /\ PaysFor(a, i, op) /\ Site(i, op) \in DOMAIN balance /\ Entry(i, op)
      BY <2>3, <3>1 DEF Paid
    <3>3. Command(i).amount \in Nat
      BY <1>1, <3>2, PaysValid DEF PaysFor
    <3> QED  BY <1>1, <2>1, <3>2, <3>3, BookedStep
  <2> QED  BY <2>2, <2>3
<1>3. \A i, op : Site(i, op)' = Site(i, op) /\ Command(i)' = Command(i)
  BY <1>1 DEF Site, Command
<1> QED  BY <1>1, <1>2, <1>3 DEF BookInv

(* Every request is a number of a command, and those are finitely many. *)
LEMMA RequestsAre ==
    ASSUME MailInv
    PROVE  /\ DOMAIN workload.commands \subseteq Requests
           /\ IsFiniteSet(DOMAIN workload.commands)
<1> DEFINE f == [w \in Workloads |-> Len(w.commands)]
           S == {Len(w.commands) : w \in Workloads}
<1>1. /\ workload \in Workloads /\ IsFiniteSet(Workloads)
      /\ \A w \in Workloads : Len(w.commands) \in Nat
      /\ DOMAIN workload.commands = 1..Len(workload.commands)
  BY BankAssumption DEF MailInv
<1>2. f \in Surjection(Workloads, S)
  BY DEF Surjection
<1>3. IsFiniteSet(S) /\ S \in SUBSET Nat /\ Len(workload.commands) \in S
  BY <1>1, <1>2, FS_Surjection
<1>4. Max(S) \in Nat /\ Len(workload.commands) <= Max(S)
  BY <1>3, LargestElement
<1>5. IsFiniteSet(1..Len(workload.commands))
  BY <1>1, FS_Interval
<1>6. 1..Len(workload.commands) \subseteq 1..Max(S)
  <2>1. \A m, n \in Nat : n <= m => 1..n \subseteq 1..m
    OBVIOUS
  <2> QED  BY <1>1, <1>4, <2>1
<1> QED  BY <1>1, <1>5, <1>6 DEF Requests

(* A request that changes an account finds it open and has a valid amount. *)
LEMMA ChangeTyped ==
    ASSUME MailInv, FlowInv, BookInv, NEW i \in DOMAIN workload.commands, NEW a
    PROVE  /\ Net(i, a) \in Int /\ Change(i, a) \in Int
           /\ a \notin DOMAIN balance => Change(i, a) = 0
<1>1. i \in DOMAIN workload.commands \cap Requests
      /\ {"deposit", "withdraw", "refund"} \subseteq Moves
  BY RequestsAre DEF Moves
<1>2. PICK d, r, w \in Int : /\ d = Booked(i, "deposit") /\ r = Booked(i, "refund")
                             /\ w = Booked(i, "withdraw")
  BY <1>1, BookedIs
<1>3. /\ d # 0 => Site(i, "deposit") \in DOMAIN balance /\ Command(i).amount \in Nat
      /\ r # 0 => Site(i, "refund") \in DOMAIN balance /\ Command(i).amount \in Nat
      /\ w # 0 => Site(i, "withdraw") \in DOMAIN balance /\ Command(i).amount \in Nat
  BY <1>1, <1>2 DEF BookInv
<1>4. PICK x, y, z \in {0, 1} : /\ x = Truth(a = Site(i, "deposit"))
                                /\ y = Truth(a = Site(i, "refund"))
                                /\ z = Truth(a = Site(i, "withdraw"))
  BY DEF Truth
<1>5. Net(i, a) = x * d + y * r - z * w
  BY <1>2, <1>4 DEF Net
<1>6. /\ x = 1 => a = Site(i, "deposit")
      /\ y = 1 => a = Site(i, "refund")
      /\ z = 1 => a = Site(i, "withdraw")
  BY <1>4 DEF Truth
<1>7. Net(i, a) \in Int
  BY <1>5
<1>8. Net(i, a) # 0 => a \in DOMAIN balance /\ Command(i).amount \in Nat
  BY <1>3, <1>5, <1>6
<1>9. Net(i, a) # 0 => Command(i).amount * Net(i, a) \in Int
  BY <1>7, <1>8
<1> QED  BY <1>7, <1>8, <1>9 DEF Change

LEMMA NetSame ==
    ASSUME workload' = workload, NEW i, NEW a,
           \A op \in Moves : a = Site(i, op) => Booked(i, op)' = Booked(i, op),
           \A op \in Moves : Booked(i, op) \in Int /\ Booked(i, op)' \in Int
    PROVE  Net(i, a)' = Net(i, a) /\ Change(i, a)' = Change(i, a)
<1>1. \A op : Site(i, op)' = Site(i, op)
  BY DEF Site, Command
<1>2. ASSUME NEW op \in Moves
      PROVE  Truth(a = Site(i, op))' * Booked(i, op)' = Truth(a = Site(i, op)) * Booked(i, op)
  BY <1>1, <1>2 DEF Truth
<1>3. "deposit" \in Moves /\ "refund" \in Moves /\ "withdraw" \in Moves
  BY DEF Moves
<1>4. Net(i, a)' = Net(i, a)
  BY <1>2, <1>3 DEF Net
<1> QED  BY <1>4 DEF Change, Command

(* The sum of what the requests have changed. *)
Changes(a) == [i \in DOMAIN workload.commands |-> Change(i, a)]

LEMMA BalanceInvIs ==
    /\ BalanceInv <=> \A a \in DOMAIN balance :
           balance[a] = initial[a] + Total(Changes(a), DOMAIN workload.commands)
    /\ BalanceInv' <=> \A a \in DOMAIN balance' :
           balance'[a] = initial'[a] + Total(Changes(a)', DOMAIN workload'.commands)
  BY DEF BalanceInv, Changes

(* While no account changes its balance, nothing is counted anew. *)
LEMMA BalanceRests ==
    ASSUME Inv, FlowInv, FlowInv', BookInv, BalanceInv, workload' = workload,
           UNCHANGED <<initial, balance>> \/ OpenAccount,
           \A i \in DOMAIN workload.commands : \A op \in Moves : Even(i, op)
    PROVE  BalanceInv'
<1> DEFINE D == DOMAIN workload.commands
<1>1. MailInv /\ MoneyInv /\ D \subseteq Requests /\ IsFiniteSet(D) /\ D' = D
  BY RequestsAre DEF Inv
<1>2. ASSUME NEW i \in D, NEW a
      PROVE  Change(i, a)' = Change(i, a)
  <2>1. ASSUME NEW op \in Moves
        PROVE  /\ Booked(i, op)' = Booked(i, op)
               /\ Booked(i, op) \in Int /\ Booked(i, op)' \in Int
    <3>1. i \in Requests /\ Even(i, op) /\ (Missing(i, op) => Effect(i, op))
      BY <1>1, <2>1 DEF BookInv
    <3> QED  BY <3>1, BookedStep, BookedIs
  <2> QED  BY <2>1, NetSame
<1>3. \A a : Changes(a)' = Changes(a)
  BY <1>1, <1>2 DEF Changes
<1>4. ASSUME NEW a \in DOMAIN balance, balance'[a] = balance[a], initial'[a] = initial[a]
      PROVE  balance'[a] = initial'[a] + Total(Changes(a)', DOMAIN workload'.commands)
  BY <1>1, <1>3, <1>4, BalanceInvIs
<1>5. CASE UNCHANGED <<initial, balance>>
  BY <1>4, <1>5, BalanceInvIs
<1>6. ASSUME NEW v \in Nat, initial' = Append(initial, v), balance' = Append(balance, v)
      PROVE  BalanceInv'
  <2>1. /\ initial \in Seq(Nat) /\ balance \in Seq(Nat) /\ Len(initial) = Len(balance)
    BY <1>1 DEF MoneyInv
  <2>2. PICK n \in Nat : n = Len(balance)
    BY <2>1
  <2>3. /\ DOMAIN balance = 1..n /\ DOMAIN balance' = 1..n + 1
        /\ \A a \in 1..n : balance'[a] = balance[a] /\ initial'[a] = initial[a]
        /\ balance'[n + 1] = v /\ initial'[n + 1] = v
    BY <1>6, <2>1, <2>2
  <2>4. n + 1 \notin DOMAIN balance
    BY <2>3
  <2>5. \A i \in D : Change(i, n + 1) = 0
    BY <1>1, <2>4, ChangeTyped
  <2>6. Changes(n + 1) \in [D -> Int] /\ \A i \in D : Changes(n + 1)[i] = 0
    BY <2>5 DEF Changes
  <2>7. Total(Changes(n + 1), D) = 0
    BY <1>1, <2>6, TotalZero
  <2>8. Total(Changes(n + 1)', D') = 0
    BY <1>1, <1>3, <2>7
  <2>9. v = v + 0
    OBVIOUS
  <2>10. ASSUME NEW a \in DOMAIN balance'
         PROVE  balance'[a] = initial'[a] + Total(Changes(a)', DOMAIN workload'.commands)
    <3>1. CASE a \in 1..n
      BY <1>4, <2>3, <3>1
    <3>2. CASE a = n + 1
      BY <2>3, <2>8, <2>9, <3>2
    <3> QED  BY <2>2, <2>3, <3>1, <3>2
  <2> QED  BY <2>10, BalanceInvIs
<1>7. CASE OpenAccount
  <2>1. \/ UNCHANGED <<initial, balance>>
        \/ \E v \in Nat : initial' = Append(initial, v) /\ balance' = Append(balance, v)
    BY <1>1, <1>7, OpensAccount DEF OpenAccount
  <2> QED  BY <1>5, <1>6, <2>1
<1> QED  BY <1>5, <1>7

(* One account changes its balance, and one request has done so. *)
LEMMA NetPaid ==
    ASSUME workload' = workload, NEW i, NEW op \in Moves, NEW a, a = Site(i, op),
           Booked(i, op)' = Booked(i, op) + 1,
           \A o \in Moves : Booked(i, o) \in Int,
           \A o \in Moves \ {op} : Booked(i, o)' = Booked(i, o)
    PROVE  Net(i, a)' = IF op = "withdraw" THEN Net(i, a) - 1 ELSE Net(i, a) + 1
<1>1. \A o : Truth(a = Site(i, o))' = Truth(a = Site(i, o))
  BY DEF Site, Command, Truth
<1>2. Moves = {"deposit", "withdraw", "refund"}
  BY DEF Moves
<1>3. Truth(a = Site(i, op)) = 1
  BY DEF Truth
<1>4. PICK d, r, w \in Int : /\ d = Booked(i, "deposit") /\ r = Booked(i, "refund")
                             /\ w = Booked(i, "withdraw")
  BY <1>2
<1>5. PICK x, y, z \in {0, 1} : /\ x = Truth(a = Site(i, "deposit"))
                                /\ y = Truth(a = Site(i, "refund"))
                                /\ z = Truth(a = Site(i, "withdraw"))
  BY DEF Truth
<1>6. Net(i, a) = x * d + y * r - z * w
  BY <1>4, <1>5 DEF Net
<1>7. CASE op = "deposit"
  <2>1. Net(i, a)' = x * (d + 1) + y * r - z * w
    BY <1>1, <1>2, <1>4, <1>5, <1>7 DEF Net
  <2>2. x = 1
    BY <1>3, <1>5, <1>7
  <2> QED  BY <1>6, <1>7, <2>1, <2>2
<1>8. CASE op = "refund"
  <2>1. Net(i, a)' = x * d + y * (r + 1) - z * w
    BY <1>1, <1>2, <1>4, <1>5, <1>8 DEF Net
  <2>2. y = 1
    BY <1>3, <1>5, <1>8
  <2> QED  BY <1>6, <1>8, <2>1, <2>2
<1>9. CASE op = "withdraw"
  <2>1. Net(i, a)' = x * d + y * r - z * (w + 1)
    BY <1>1, <1>2, <1>4, <1>5, <1>9 DEF Net
  <2>2. z = 1
    BY <1>3, <1>5, <1>9
  <2> QED  BY <1>6, <1>9, <2>1, <2>2
<1> QED  BY <1>2, <1>7, <1>8, <1>9

LEMMA ChangePaid ==
    ASSUME NEW i, NEW a, NEW s \in {1, -1}, Command(i).amount \in Nat, workload' = workload,
           Net(i, a) \in Int, Net(i, a)' = Net(i, a) + s
    PROVE  Change(i, a)' = Change(i, a) + s * Command(i).amount
<1>1. PICK n \in Int, m \in Nat : n = Net(i, a) /\ m = Command(i).amount
  OBVIOUS
<1>2. Change(i, a) = m * n
  BY <1>1 DEF Change
<1>3. Change(i, a)' = m * (n + s)
  BY <1>1 DEF Change, Command
<1>4. m * (n + s) = m * n + s * m
  OBVIOUS
<1> QED  BY <1>1, <1>2, <1>3, <1>4

LEMMA BalancePaid ==
    ASSUME Inv, FlowInv, FlowInv', BookInv, BalanceInv, workload' = workload,
           NEW a \in Accounts, Paid(a)
    PROVE  BalanceInv'
<1> DEFINE D == DOMAIN workload.commands
<1>1. /\ MailInv /\ MoneyInv /\ CallInv /\ TransferInv
      /\ D \subseteq Requests /\ IsFiniteSet(D) /\ D' = D /\ Pays(a)
  BY RequestsAre DEF Inv, Paid
<1>2. PICK i, o, m, s :
          /\ i = About(a) /\ o = Current(a).op /\ i \in D /\ o \in Moves
          /\ m = Command(i).amount /\ m \in Nat
          /\ s = (IF o = "withdraw" THEN -1 ELSE 1) /\ initial' = initial
          /\ balance' = [balance EXCEPT ![a] = IF o = "withdraw" THEN @ - m ELSE @ + m]
  BY <1>1, PaysValid
<1>3. /\ \A j \in D, op \in Moves : ~(j = i /\ op = o) => Even(j, op)
      /\ a = Site(i, o) /\ a \in DOMAIN balance /\ Entry(i, o)
  BY <1>1, <1>2 DEF Paid, PaysFor
<1>4. /\ balance \in Seq(Nat) /\ initial \in Seq(Nat) /\ Len(initial) = Len(balance)
      /\ a \in DOMAIN initial
  BY <1>1, <1>3 DEF MoneyInv
<1>5. /\ DOMAIN balance' = DOMAIN balance /\ balance[a] \in Nat /\ initial[a] \in Nat
      /\ \A b \in DOMAIN balance \ {a} : balance'[b] = balance[b]
      /\ balance'[a] = balance[a] + s * m
  BY <1>2, <1>3, <1>4
<1>6. ASSUME NEW j \in D, NEW op \in Moves
      PROVE  /\ Booked(j, op) \in Int /\ Booked(j, op)' \in Int
             /\ ~(j = i /\ op = o) => Booked(j, op)' = Booked(j, op)
             /\ j = i /\ op = o => Booked(j, op)' = Booked(j, op) + 1
  <2>1. j \in Requests /\ (Missing(j, op) => Effect(j, op))
    BY <1>1, <1>6 DEF BookInv
  <2>2. /\ Even(j, op) => Booked(j, op)' = Booked(j, op)
        /\ Entry(j, op) => Booked(j, op)' = Booked(j, op) + 1
    BY <2>1, BookedStep
  <2>3. Booked(j, op) \in Int
    BY <2>1, BookedIs
  <2>4. Booked(j, op)' \in Int
    BY <1>3, <2>2, <2>3
  <2> QED  BY <1>3, <2>2, <2>3, <2>4
<1>7. ASSUME NEW j \in D, NEW b, b # a \/ j # i
      PROVE  Change(j, b)' = Change(j, b)
  BY <1>3, <1>6, <1>7, NetSame
<1>8. Change(i, a)' = Change(i, a) + s * m
  <2>1. Net(i, a)' = IF o = "withdraw" THEN Net(i, a) - 1 ELSE Net(i, a) + 1
    BY <1>2, <1>3, <1>6, NetPaid
  <2>2. Net(i, a) \in Int /\ s \in {1, -1}
    BY <1>1, <1>2, ChangeTyped
  <2>3. Net(i, a)' = Net(i, a) + s
    BY <1>2, <2>1, <2>2
  <2> QED  BY <1>2, <2>2, <2>3, ChangePaid
<1>9. ASSUME NEW b \in DOMAIN balance \ {a}
      PROVE  balance'[b] = initial'[b] + Total(Changes(b)', DOMAIN workload'.commands)
  <2>1. Changes(b)' = Changes(b)
    BY <1>1, <1>7, <1>9 DEF Changes
  <2> QED  BY <1>1, <1>2, <1>5, <1>9, <2>1, BalanceInvIs
<1>10. balance'[a] = initial'[a] + Total(Changes(a)', DOMAIN workload'.commands)
  <2>1. PICK f, g : f = Changes(a) /\ g = Changes(a)'
    OBVIOUS
  <2>2. /\ f = [j \in D |-> Change(j, a)] /\ g = [j \in D |-> Change(j, a)']
    BY <1>1, <2>1 DEF Changes
  <2>3. \A j \in D : Change(j, a) \in Int
    BY <1>1, ChangeTyped
  <2>4. s * m \in Int
    BY <1>2
  <2>5. \A j \in D : Change(j, a)' \in Int
    <3>1. Change(i, a)' \in Int
      BY <1>2, <1>8, <2>3, <2>4
    <3> QED  BY <1>7, <2>3, <3>1
  <2>6. /\ f \in [D -> Int] /\ g \in [D -> Int] /\ \A j \in D \ {i} : g[j] = f[j]
        /\ f[i] \in Int /\ g[i] = f[i] + s * m
    BY <1>2, <1>7, <1>8, <2>2, <2>3, <2>5
  <2>7. PICK t, u \in Int : t = Total(f, D) /\ u = Total(g, D)
    BY <1>1, <2>6, TotalTyped
  <2>8. u = t + g[i] - f[i]
    BY <1>1, <1>2, <2>6, <2>7, TotalDiffers
  <2>9. balance[a] = initial[a] + t
    BY <1>3, <2>1, <2>7, BalanceInvIs
  <2>10. balance'[a] = initial[a] + u
    BY <1>5, <2>4, <2>6, <2>7, <2>8, <2>9
  <2> QED  BY <1>1, <1>2, <2>1, <2>7, <2>10
<1> QED  BY <1>5, <1>9, <1>10, BalanceInvIs

LEMMA BalanceInvKeeps ==
    ASSUME Inv, Inv', FlowInv, FlowInv', PhaseInv, AddressInv, BookInv, BalanceInv,
           [Next]_vars
    PROVE  BalanceInv'
<1>1. /\ MailInv /\ MailInv' /\ MoneyInv /\ CallInv /\ workload' = workload
      /\ \A i \in DOMAIN workload.commands : i \in DOMAIN workload.commands \cap Requests
  BY SmallTypes, RequestsAre DEF Inv
<1> QED  BY <1>1, StepEntries, BalanceRests, BalancePaid

-----------------------------------------------------------------------------
(* What the requests claim *)

BooksInv == PhaseInv /\ AddressInv /\ ClosedInv /\ BookInv /\ BalanceInv

LEMMA InitBooks == Init => BooksInv
<1> SUFFICES ASSUME Init  PROVE BooksInv
  OBVIOUS
<1>1. MailInv /\ FlowInv
  BY InitInv, InitFlow DEF Inv
<1>2. /\ \A a \in Actors : handling[a] = None /\ queue[a] = <<>>
      /\ outcome = [i \in Requests |-> "unsent"]
      /\ status = [i \in Requests |-> "none"] /\ refused = {} /\ balance = <<>>
      /\ rejected = [r \in Requests \X Moves |-> 0] /\ closed = {}
  BY DEF Init, StageInit, BankInit, CoordinatorInit
<1>3. \A x, i : ~Serves(x, i)
  BY <1>2 DEF Serves
<1>4. \A x, i, op : ~Doing(i, x, op) /\ ~Fine(x, i, op)
  BY <1>3 DEF Doing, Fine
<1>5. ASSUME NEW i \in Requests, NEW op \in Moves
      PROVE  ~Effect(i, op) /\ ~Missing(i, op) /\ rejected[<<i, op>>] = 0
  <2>1. ~Said(i)
    BY <1>2, <1>4 DEF Said
  <2>2. Completions(i) = {}
    BY <1>2, ActorNames, EmptyQueue DEF Completions, Callers
  <2>3. ~Done(i) /\ ~Took(i) /\ ~Repaid(i) /\ ~Arrived(i)
    BY <1>2, <1>4, <2>1, <2>2 DEF Done, Took, Repaid, Arrived, Completing
  <2> QED  BY <1>2, <2>3 DEF Effect, Missing
<1>6. BookInv
  <2>1. ASSUME NEW i \in Requests, NEW op \in Moves
        PROVE  Booked(i, op) = 0
    <3>1. /\ Truth(Effect(i, op)) = 0 /\ Truth(Missing(i, op)) = 0
          /\ Truth(Doing(i, Site(i, op), op)) = 0
      BY <1>4, <1>5, <2>1 DEF Truth
    <3> QED  BY <1>5, <2>1, <3>1 DEF Booked
  <2> QED  BY <1>5, <2>1 DEF BookInv
<1>7. BalanceInv /\ ClosedInv
  BY <1>2 DEF BalanceInv, ClosedInv
<1> QED  BY <1>6, <1>7, InitPhase, InitAddresses DEF BooksInv

(* The sum that the books are about. *)
LEMMA BooksSum ==
    ASSUME NEW a, NEW S, IsFiniteSet(S), NEW f \in [S -> Int],
           \A i \in S : f[i] = IF Claimed(i, a) + Unclaimed(i, a) = 0 THEN 0
                               ELSE Command(i).amount * (Claimed(i, a) + Unclaimed(i, a))
    PROVE  MapThenSumSet(
               LAMBDA i : IF Claimed(i, a) + Unclaimed(i, a) = 0 THEN 0
                          ELSE Command(i).amount * (Claimed(i, a) + Unclaimed(i, a)),
               S) = Total(f, S)
<1> DEFINE G(i) == IF Claimed(i, a) + Unclaimed(i, a) = 0 THEN 0
                   ELSE Command(i).amount * (Claimed(i, a) + Unclaimed(i, a))
           E(iter) == [s \in SUBSET S |->
                          IF s = {} THEN 0 ELSE G(Chosen(s)) + iter[s \ {Chosen(s)}]]
           k == CHOOSE iter : iter = E(iter)
<1>1. ASSUME NEW iter
      PROVE  E(iter) = [s \in SUBSET S |->
                           IF s = {} THEN 0 ELSE f[Chosen(s)] + iter[s \ {Chosen(s)}]]
  <2>1. \A s \in SUBSET S : s # {} => Chosen(s) \in S
    BY ChosenElement
  <2>2. \A i \in S : f[i] = G(i)
    OBVIOUS
  <2> HIDE DEF G
  <2> QED  BY <2>1, <2>2
<1>2. PICK h : Sums(h, f, S) /\ Total(f, S) = h[S]
  BY TotalIs
<1>3. k = E(k)
  <2>1. h = E(h)
    BY <1>1, <1>2 DEF Sums
  <2> HIDE DEF E
  <2> QED  BY <2>1
<1>4. MapThenSumSet(
          LAMBDA i : IF Claimed(i, a) + Unclaimed(i, a) = 0 THEN 0
                     ELSE Command(i).amount * (Claimed(i, a) + Unclaimed(i, a)),
          S) = k[S]
  BY Zenon DEF MapThenSumSet, MapThenFoldSet, Chosen
<1> HIDE DEF k
<1>5. Sums(k, f, S)
  BY <1>1, <1>3 DEF Sums
<1> QED  BY <1>2, <1>4, <1>5, SumsAgree

LEMMA QuietParts ==
    ASSUME MailInv, ClosedInv, Quiescent, NEW i \in Requests
    PROVE  /\ \A x, op : ~Doing(i, x, op) /\ ~Fine(x, i, op)
           /\ Done(i) <=> outcome[i] = "value"
           /\ Took(i) <=> outcome[i] = "value"
           /\ Repaid(i) <=> status[i] = "refunded"
           /\ Arrived(i) <=> \/ status[i] = "completed"
                             \/ \E m \in ToSet(queue[Coordinator]) :
                                    /\ m.op = "completeTransfer" /\ m.about = i
                                    /\ status[i] = "withdrawn"
<1>1. ASSUME NEW x \in Actors
      PROVE  handling[x] = None
  <2>1. CASE x \in closed
    BY <2>1 DEF ClosedInv
  <2>2. CASE x \notin closed
    BY <1>1, <2>2, UnderIs DEF Quiescent
  <2> QED  BY <2>1, <2>2
<1>2. \A x, op : ~Doing(i, x, op) /\ ~Fine(x, i, op)
  BY <1>1 DEF Doing, Serves, Fine
<1>3. Said(i) <=> outcome[i] = "value"
  BY <1>2 DEF Said
<1> QED  BY <1>2, <1>3 DEF Done, Took, Repaid, Arrived, Completing, Completions

(* When all is quiet, what was done is what was claimed, but for what was    *)
(* rejected and refused.                                                     *)
LEMMA QuietNet ==
    ASSUME MailInv, FlowInv, ClosedInv, Quiescent,
           NEW i \in DOMAIN workload.commands, NEW a \in Nat \ {0}
    PROVE  Net(i, a) = Claimed(i, a) + Unclaimed(i, a)
<1>1. i \in Requests /\ {"deposit", "withdraw", "refund"} = Moves
  BY RequestsAre DEF Moves
<1>2. PICK j, k, l \in Nat : /\ j = rejected[<<i, "deposit">>]
                             /\ k = rejected[<<i, "withdraw">>]
                             /\ l = rejected[<<i, "refund">>]
  BY <1>1, BookedIs
<1>3. \A op \in Moves : Truth(Doing(i, Site(i, op), op)) = 0
  BY <1>1, QuietParts DEF Truth
<1>4. CASE Command(i).command = "transfer"
  <2>1. PICK x, y, p, q, r, u, v, w \in Nat :
            /\ x = Truth(a = Command(i).account) /\ y = Truth(a = Command(i).to)
            /\ p = Truth(outcome[i] = "value") /\ q = Truth(status[i] = "refunded")
            /\ r = Truth(\/ status[i] = "completed"
                         \/ \E m \in ToSet(queue[Coordinator]) :
                                /\ m.op = "completeTransfer" /\ m.about = i
                                /\ status[i] = "withdrawn")
            /\ u = Truth(Missing(i, "withdraw")) /\ v = Truth(Missing(i, "refund"))
            /\ w = Truth(Missing(i, "deposit"))
    <3>1. /\ Truth(a = Command(i).account) \in Nat /\ Truth(a = Command(i).to) \in Nat
          /\ Truth(outcome[i] = "value") \in Nat /\ Truth(status[i] = "refunded") \in Nat
          /\ Truth(Missing(i, "withdraw")) \in Nat /\ Truth(Missing(i, "refund")) \in Nat
          /\ Truth(Missing(i, "deposit")) \in Nat
      BY DEF Truth
    <3>2. Truth(\/ status[i] = "completed"
                \/ \E m \in ToSet(queue[Coordinator]) :
                       /\ m.op = "completeTransfer" /\ m.about = i
                       /\ status[i] = "withdrawn") \in Nat
      BY DEF Truth
    <3> QED  BY <3>1, <3>2
  <2>2. /\ Effect(i, "withdraw") <=> outcome[i] = "value"
        /\ Effect(i, "refund") <=> status[i] = "refunded"
        /\ Effect(i, "deposit") <=>
               \/ status[i] = "completed"
               \/ \E m \in ToSet(queue[Coordinator]) :
                      /\ m.op = "completeTransfer" /\ m.about = i
                      /\ status[i] = "withdrawn"
    BY <1>1, <1>4, QuietParts DEF Effect
  <2>3. /\ Booked(i, "withdraw") = p + k - u
        /\ Booked(i, "refund") = q + l - v
        /\ Booked(i, "deposit") = r + j - w
    <3>1. /\ Truth(Effect(i, "withdraw")) = p /\ Truth(Effect(i, "refund")) = q
          /\ Truth(Effect(i, "deposit")) = r
      BY <2>1, <2>2 DEF Truth
    <3>2. \A op \in Moves : Booked(i, op) = Truth(Effect(i, op)) + 0
                               + rejected[<<i, op>>] - Truth(Missing(i, op))
      BY <1>3 DEF Booked
    <3>3. /\ Booked(i, "withdraw") = p + 0 + k - u
          /\ Booked(i, "refund") = q + 0 + l - v
          /\ Booked(i, "deposit") = r + 0 + j - w
      BY <1>1, <1>2, <2>1, <3>1, <3>2
    <3> QED  BY <3>3
  <2>4. /\ Site(i, "withdraw") = Command(i).account /\ Site(i, "refund") = Command(i).account
        /\ Site(i, "deposit") = Command(i).to
    BY <1>4 DEF Site
  <2>5. Net(i, a) = y * (r + j - w) + x * (q + l - v) - x * (p + k - u)
    BY <2>1, <2>3, <2>4 DEF Net
  <2>6. Claimed(i, a) = x * (q - p) + y * r
    BY <1>4, <2>1 DEF Claimed
  <2>7. /\ Truth(\E op \in {"withdraw", "initiateTransfer"} : <<i, op>> \in refused) = u
        /\ Truth(\E op \in {"refund"} : <<i, op>> \in refused) = v
        /\ Truth(\E op \in {"deposit"} : <<i, op>> \in refused) = w
    BY <1>4, <2>1 DEF Missing, Truth
  <2>8. Unclaimed(i, a) = x * (l - k + u - v) + y * (j - w)
    BY <1>2, <1>4, <2>1, <2>7 DEF Unclaimed
  <2>9. x \in {0, 1} /\ y \in {0, 1}
    BY <2>1 DEF Truth
  <2> QED  BY <2>5, <2>6, <2>8, <2>9
<1>5. CASE Command(i).command \in {"deposit", "withdraw"}
  <2>1. PICK x, p \in Nat : /\ x = Truth(a = Command(i).account)
                            /\ p = Truth(outcome[i] = "value")
    BY DEF Truth
  <2>2. \A op \in Moves : /\ Effect(i, op) <=> op = Command(i).command /\ outcome[i] = "value"
                          /\ ~Missing(i, op)
    BY <1>1, <1>5, QuietParts DEF Effect, Missing
  <2>3. \A op \in Moves : /\ op = Command(i).command => Truth(Effect(i, op)) = p
                          /\ op # Command(i).command => Truth(Effect(i, op)) = 0
                          /\ Truth(Missing(i, op)) = 0
    BY <2>1, <2>2 DEF Truth
  <2>4. /\ Site(i, "withdraw") = Command(i).account /\ Site(i, "refund") = 0
        /\ Site(i, "deposit") = Command(i).account
    BY <1>5 DEF Site
  <2>5. Truth(a = Site(i, "refund")) = 0 /\ x \in {0, 1}
    BY <2>1, <2>4 DEF Truth
  <2>6. Booked(i, "refund") = l
    BY <1>1, <1>2, <1>3, <1>5, <2>3 DEF Booked
  <2>7. Unclaimed(i, a) = x * (j - k)
    BY <1>2, <1>5, <2>1 DEF Unclaimed
  <2>8. CASE Command(i).command = "deposit"
    <3>1. Booked(i, "deposit") = p + j /\ Booked(i, "withdraw") = k
      BY <1>1, <1>2, <1>3, <2>1, <2>3, <2>8 DEF Booked
    <3>2. Net(i, a) = x * (p + j) + 0 * l - x * k
      BY <2>1, <2>4, <2>5, <2>6, <3>1 DEF Net
    <3>3. Claimed(i, a) = x * p
      BY <2>1, <2>8 DEF Claimed
    <3> QED  BY <2>5, <2>7, <3>2, <3>3
  <2>9. CASE Command(i).command = "withdraw"
    <3>1. Booked(i, "deposit") = j /\ Booked(i, "withdraw") = p + k
      BY <1>1, <1>2, <1>3, <2>1, <2>3, <2>9 DEF Booked
    <3>2. Net(i, a) = x * j + 0 * l - x * (p + k)
      BY <2>1, <2>4, <2>5, <2>6, <3>1 DEF Net
    <3>3. Claimed(i, a) = -x * p
      BY <2>1, <2>9 DEF Claimed
    <3> QED  BY <2>5, <2>7, <3>2, <3>3
  <2> QED  BY <1>5, <2>8, <2>9
<1>6. CASE Command(i).command \notin {"deposit", "withdraw", "transfer"}
  <2>1. \A op : Site(i, op) = 0
    BY <1>6 DEF Site
  <2>2. \A op : Truth(a = Site(i, op)) = 0
    BY <2>1 DEF Truth
  <2>3. \A op \in Moves : Booked(i, op) \in Int
    BY <1>1, BookedIs
  <2>4. Net(i, a) = 0
    BY <1>1, <2>2, <2>3 DEF Net
  <2>5. Claimed(i, a) = 0 /\ Unclaimed(i, a) = 0
    BY <1>6 DEF Claimed, Unclaimed
  <2> QED  BY <2>4, <2>5
<1> QED  BY <1>4, <1>5, <1>6

LEMMA BooksStay ==
    ASSUME Inv, FlowInv, BooksInv, [Next]_vars
    PROVE  (Inv /\ FlowInv /\ BooksInv)'
<1>1. Inv' /\ FlowInv'
  BY NextInv, FlowInvKeeps
<1>2. MailInv /\ MailInv' /\ MoneyInv
  BY <1>1 DEF Inv
<1>3. PhaseInv' /\ AddressInv' /\ ClosedInv'
  BY <1>1, <1>2, PhaseInvKeeps, AddressInvKeeps, ClosedInvKeeps DEF BooksInv
<1>4. BookInv' /\ BalanceInv'
  BY <1>1, BookInvKeeps, BalanceInvKeeps DEF BooksInv
<1> QED  BY <1>1, <1>3, <1>4 DEF BooksInv

(* The books of the bank balance: whenever nothing is under way any more,    *)
(* the balance of every account differs from its opening balance by what the *)
(* requests claim to have done and by what rejected records and calls of     *)
(* stopped actors explain, whatever the users asked and in whatever order    *)
(* retries, refunds, failures and the end of the stage came.                 *)
THEOREM BooksHold == Spec => []Books
<1>1. Init => Inv /\ FlowInv /\ BooksInv
  BY InitInv, InitFlow, InitBooks
<1>2. Inv /\ FlowInv /\ BooksInv /\ [Next]_vars => (Inv /\ FlowInv /\ BooksInv)'
  BY BooksStay
<1>3. Inv /\ FlowInv /\ BooksInv => Books
  <2> SUFFICES ASSUME Inv, FlowInv, BooksInv, Quiescent, NEW a \in DOMAIN balance
               PROVE  balance[a] = initial[a] + MapThenSumSet(
                          LAMBDA i : IF Claimed(i, a) + Unclaimed(i, a) = 0 THEN 0
                                     ELSE Command(i).amount
                                          * (Claimed(i, a) + Unclaimed(i, a)),
                          DOMAIN workload.commands)
    BY DEF Books
  <2> DEFINE D == DOMAIN workload.commands
  <2>1. /\ MailInv /\ ClosedInv /\ BookInv /\ BalanceInv /\ IsFiniteSet(D)
        /\ a \in Nat \ {0}
    BY RequestsAre DEF Inv, BooksInv, MoneyInv
  <2>2. balance[a] = initial[a] + Total(Changes(a), D)
    BY <2>1, BalanceInvIs
  <2>3. ASSUME NEW i \in D
        PROVE  /\ Change(i, a) \in Int /\ Net(i, a) = Claimed(i, a) + Unclaimed(i, a)
               /\ Change(i, a) = IF Claimed(i, a) + Unclaimed(i, a) = 0 THEN 0
                                 ELSE Command(i).amount
                                      * (Claimed(i, a) + Unclaimed(i, a))
    <3>1. Change(i, a) \in Int /\ Net(i, a) = Claimed(i, a) + Unclaimed(i, a)
      BY <2>1, <2>3, ChangeTyped, QuietNet
    <3> QED  BY <3>1 DEF Change
  <2>4. /\ Changes(a) \in [D -> Int]
        /\ \A i \in D : Changes(a)[i] = IF Claimed(i, a) + Unclaimed(i, a) = 0 THEN 0
                                        ELSE Command(i).amount
                                             * (Claimed(i, a) + Unclaimed(i, a))
    BY <2>3 DEF Changes
  <2> QED  BY <2>1, <2>2, <2>4, BooksSum
<1> QED  BY <1>1, <1>2, <1>3, PTL DEF Spec

-----------------------------------------------------------------------------
(* Answers *)

(* What only the bank says to itself is told to nobody. *)
AnswerInv ==
    /\ \A a \in Actors \ {Bank} : answer[a] # "found"
    /\ outcome \in [Requests -> Results \cup {"unsent", "pending"}]

(* The turns of actor a, *)
TurnOf(a) ==
    \/ a = Teller /\ \E op \in Commands : TellerAsks(op) \/ TellerAnswers(op)
    \/ a = Bank /\ (BankSteps \/ BankBeginsToStop \/ BankStops)
    \/ a = Coordinator /\ CoordinatorSteps
    \/ a \in Accounts /\ (AccountSteps(a) \/ HistorySettles(a))
    \/ Stops(a)

(* and the steps that are nobody's turn. *)
Still ==
    \/ CloseStage
    \/ \E a \in Actors : \/ BankSupervisor(a) \/ TransferSupervisor(a)
                         \/ AccountSupervisor(a) \/ StageStops(a) \/ ParentStops(a)
    \/ \E t \in Others : OthersSchedule(t)
    \/ \E i \in Requests : RetryFires(i) \/ ClientCalls(i)
    \/ UNCHANGED vars

LEMMA StepsAreTurns == [Next]_vars => Still \/ \E a \in Actors : TurnOf(a)
<1>1. Teller \in Actors /\ Bank \in Actors /\ Coordinator \in Actors /\ Accounts \subseteq Actors
  BY DEF Actors
<1>2. CASE Progress
  BY <1>1, <1>2 DEF Progress, TurnOf, Still
<1> QED  BY <1>1, <1>2 DEF Next, TurnOf, Still

LEMMA StillAnswers ==
    ASSUME Still
    PROVE  /\ handling' = handling /\ answer' = answer
           /\ \/ outcome' = outcome
              \/ \E i \in Requests : outcome' = [outcome EXCEPT ![i] = "pending"]
  BY DEF Still, CloseStage, BankSupervisor, TransferSupervisor, AccountSupervisor,
     DecidesToResume, StageStops, ParentStops, SendsStop, OthersSchedule, RetryFires,
     ClientCalls, messageVars, vars

(* The handler goes on to its next await, *)
Goes(a) ==
    /\ handling' = [handling EXCEPT ![a] = Current(a)] /\ outcome' = outcome
    /\ \E v : /\ answer' = [answer EXCEPT ![a] = v]
              /\ v \in {"pending", "refusal", answer[a]} \/ (a = Bank /\ v = "found")

(* or it ends with a result. *)
Settles(a) == \E result \in Results : Ends(a, result)

LEMMA EndsSettle ==
    ASSUME NEW a
    PROVE  /\ Throws(a) => Settles(a)
           /\ \A result \in Results : Returns(a, result) => Settles(a)
           /\ \A ops : SendsItself(a, ops, "value") => Settles(a)
           /\ PassesOn(a) /\ answer[a] \in Results => Settles(a)
<1>1. "error" \in Results /\ "value" \in Results
  BY DEF Results
<1>2. Throws(a) => Settles(a)
  BY <1>1 DEF Throws, Settles
<1>3. \A result \in Results : Returns(a, result) => Settles(a)
  BY DEF Returns, Settles
<1>4. \A ops : SendsItself(a, ops, "value") => Settles(a)
  BY <1>1 DEF SendsItself, Settles
<1> QED  BY <1>2, <1>3, <1>4 DEF PassesOn

LEMMA CallsGo ==
    ASSUME NEW a
    PROVE  /\ \A b, op : Calls(a, b, op) => Goes(a)
           /\ AwaitsHistory(a) => Goes(a)
<1>1. \A b, op : Calls(a, b, op) => Goes(a)
  BY DEF Calls, Goes
<1> QED  BY <1>1 DEF AwaitsHistory, Goes

LEMMA TellerSettles ==
    ASSUME MailInv, AnswerInv, NEW op \in Commands, TellerAsks(op) \/ TellerAnswers(op)
    PROVE  Busy(Teller) /\ (Goes(Teller) \/ Settles(Teller))
<1>1. CASE TellerAsks(op)
  BY <1>1, BeginsTurns, EndsSettle, CallsGo DEF TellerAsks
<1>2. CASE TellerAnswers(op)
  <2>1. op # "none" /\ Teller \in Actors /\ Teller # Bank
    BY ActorNames DEF Callers, Commands, Formatted, Queries
  <2>2. Busy(Teller) /\ answer[Teller] \notin {"none", "pending"}
    BY <1>2, <2>1, ResumesTurns DEF TellerAnswers
  <2>3. answer[Teller] \in Results
    BY <2>1, <2>2 DEF MailInv, AnswerInv, Answers
  <2>4. "value" \in Results
    BY DEF Results
  <2> QED  BY <1>2, <2>2, <2>3, <2>4, EndsSettle DEF TellerAnswers
<1> QED  BY <1>1, <1>2

LEMMA BankSettles ==
    ASSUME MailInv, BankSteps
    PROVE  Goes(Bank) \/ Settles(Bank)
<1>1. {"value", "nothing", "failure", "refusal"} \subseteq Results
  BY DEF Results
<1>2. CASE FindAccount("deposit") \/ FindAccount("withdraw")
  <2>1. Throws(Bank) => Settles(Bank)
    BY EndsSettle
  <2> QED  BY <1>2, <2>1 DEF FindAccount, Goes
<1>3. CASE BankAnswers
  <2>1. answer[Bank] \in Results
    <3>1. answer[Bank] \in Answers
      BY ActorNames DEF MailInv, Callers
    <3> QED  BY <1>3, <3>1 DEF BankAnswers, Resumes, Answers
  <2> QED  BY <1>3, <2>1, EndsSettle DEF BankAnswers
<1>4. CASE \/ OpenAccount \/ AccountOpened
           \/ \E op \in {"deposit", "withdraw"} : AccountFound(op)
           \/ AccountSummary \/ TransactionHistory \/ AllAccounts
           \/ Transfer \/ TransferInitiated \/ PendingTransfers
  BY <1>1, <1>4, EndsSettle, CallsGo DEF OpenAccount, AccountOpened, AccountFound,
     AccountSummary, TransactionHistory, AllAccounts, Transfer, TransferInitiated,
     PendingTransfers
<1> QED  BY <1>2, <1>3, <1>4 DEF BankSteps

LEMMA CoordinatorSettles ==
    ASSUME CoordinatorSteps
    PROVE  Goes(Coordinator) \/ Settles(Coordinator)
<1>1. "value" \in Results
  BY DEF Results
<1> QED
  BY <1>1, EndsSettle, CallsGo DEF CoordinatorSteps, RegisterAccount, InitiateTransfer,
     Withdrawn, RecordPendingTransfer, AttemptDeposit, Deposited, HandleDepositFailure,
     ProcessRefund, Refunded, CompleteTransfer, GetPendingTransfers

LEMMA AccountSettles ==
    ASSUME NEW a, AccountSteps(a) \/ HistorySettles(a)
    PROVE  Goes(a) \/ Settles(a)
<1>1. "value" \in Results
  BY DEF Results
<1> QED
  BY <1>1, EndsSettle, CallsGo DEF AccountSteps, Deposit, Withdraw, Refund, GetInfo,
     GetHistory, HistorySettles, HistoryAnswers, HistoryRejects

LEMMA StoppingSettles ==
    ASSUME MailInv
    PROVE  /\ BankBeginsToStop => Goes(Bank)
           /\ BankStops => Settles(Bank)
           /\ \A a : Stops(a) => Settles(a)
<1>1. "value" \in Results
  BY DEF Results
<1>2. BankBeginsToStop => Goes(Bank)
  <2>1. answer = [answer EXCEPT ![Bank] = answer[Bank]]
    BY DEF MailInv
  <2> QED  BY <2>1 DEF BankBeginsToStop, Goes
<1> QED  BY <1>1, <1>2, EndsSettle DEF BankStops, Stops

LEMMA TurnsSettle ==
    ASSUME MailInv, AnswerInv, NEW a \in Actors, TurnOf(a)
    PROVE  Busy(a) /\ (Goes(a) \/ Settles(a))
<1>1. CASE a = Teller /\ \E op \in Commands : TellerAsks(op) \/ TellerAnswers(op)
  BY <1>1, TellerSettles
<1>2. CASE a = Bank /\ BankSteps
  BY <1>2, BankSettles, BankTurns
<1>3. CASE a = Coordinator /\ CoordinatorSteps
  BY <1>3, CoordinatorSettles, CoordinatorTurns
<1>4. CASE a \in Accounts /\ (AccountSteps(a) \/ HistorySettles(a))
  BY <1>4, AccountSettles, AccountTurns
<1>5. CASE Stops(a)
  BY <1>5, StoppingSettles, BeginsTurns DEF Stops
<1>6. CASE a = Bank /\ BankBeginsToStop
  BY <1>6, StoppingSettles, BeginsTurns DEF BankBeginsToStop
<1>7. CASE a = Bank /\ BankStops
  <2>1. handling[Bank] # None
    BY <1>7, NoneIsNoMessage DEF BankStops
  <2> QED  BY <1>7, <2>1, StoppingSettles DEF Busy
<1> QED  BY <1>1, <1>2, <1>3, <1>4, <1>5, <1>6, <1>7 DEF TurnOf

(* Whoever has no turn only hears what it awaits. *)
Rested(c) ==
    /\ handling'[c] = handling[c]
    /\ \/ answer'[c] = answer[c]
       \/ handling[c] # None /\ answer[c] = "pending" /\ answer'[c] \in Results

LEMMA OthersRest ==
    ASSUME MailInv, CallInv, NEW a \in Actors, Busy(a), Goes(a) \/ Settles(a),
           NEW c \in Actors, c # a
    PROVE  Rested(c)
<1>1. CASE Goes(a)
  BY <1>1 DEF Goes, Rested, MailInv
<1>2. CASE Settles(a)
  <2>1. PICK result \in Results : Ends(a, result)
    BY <1>2 DEF Settles
  <2>2. /\ handling'[c] = handling[c]
        /\ answer'[c] = IF c = Current(a).reply THEN result ELSE answer[c]
    BY <2>1 DEF Ends, MailInv
  <2>3. Current(a) \in Messages /\ Served(Current(a))
    BY CurrentMessage DEF CallInv
  <2>4. Current(a).reply = c => c \in Callers
    <3>1. Current(a).reply \in Callers \cup {Client, Nobody}
      BY <2>3 DEF Messages
    <3> QED  BY <3>1, ActorNames
  <2> QED  BY <2>2, <2>3, <2>4 DEF Served, Rested
<1> QED  BY <1>1, <1>2

LEMMA StepsRest ==
    ASSUME MailInv, CallInv, AnswerInv, [Next]_vars, NEW c \in Actors
    PROVE  TurnOf(c) \/ Rested(c)
<1>1. CASE Still
  BY <1>1, StillAnswers DEF Rested
<1>2. ASSUME NEW a \in Actors, TurnOf(a)  PROVE TurnOf(c) \/ Rested(c)
  BY <1>2, TurnsSettle, OthersRest
<1> QED  BY <1>1, <1>2, StepsAreTurns

LEMMA AnswerInvKeeps ==
    ASSUME MailInv, CallInv, AnswerInv, [Next]_vars
    PROVE  AnswerInv'
<1>1. "found" \notin Results
  BY DEF Results
<1>2. ASSUME NEW c \in Actors \ {Bank}
      PROVE  answer'[c] # "found"
  <2>1. CASE Rested(c)
    BY <1>1, <1>2, <2>1 DEF Rested, AnswerInv
  <2>2. CASE TurnOf(c) /\ Goes(c)
    BY <1>2, <2>2 DEF Goes, AnswerInv, MailInv
  <2>3. CASE TurnOf(c) /\ Settles(c)
    BY <1>1, <1>2, <2>3 DEF Settles, Ends
  <2> QED  BY <1>2, <2>1, <2>2, <2>3, StepsRest, TurnsSettle
<1>3. outcome' \in [Requests -> Results \cup {"unsent", "pending"}]
  <2>1. CASE Still
    BY <2>1, StillAnswers DEF AnswerInv
  <2>2. ASSUME NEW a \in Actors, TurnOf(a)
        PROVE  outcome' \in [Requests -> Results \cup {"unsent", "pending"}]
    BY <2>2, TurnsSettle DEF Goes, Settles, Ends, AnswerInv
  <2> QED  BY <2>1, <2>2, StepsAreTurns
<1> QED  BY <1>2, <1>3 DEF AnswerInv

-----------------------------------------------------------------------------
(* Accounts *)

(* Who handles a message has no other one of the same sender. *)
LEMMA HandledOnce ==
    ASSUME MailInv, CallInv, NEW a \in Actors, handling[a] # None,
           NEW m \in ToSet(queue[a]), m.reply = handling[a].reply,
           m.reply \in Callers \cup {Client}
    PROVE  FALSE
<1> DEFINE M == CallsOf(m.reply)
<1>1. handling[a] \in Messages /\ m \in Messages /\ queue[a] \in Seq(Messages)
  BY UnderIs DEF MailInv
<1>2. handling[a] \in M /\ m \in M
  BY <1>1 DEF CallsOf
<1>3. Load(a, M) <= 1
  BY DEF CallInv
<1> HIDE DEF M
<1>4. CountIn(queue[a], M) \in Nat /\ CountIn(queue[a], M) # 0
  BY <1>1, <1>2, CountZero
<1> QED  BY <1>2, <1>3, <1>4 DEF Load, Truth

LEMMA TakenOnce ==
    ASSUME MailInv, CallInv, NEW a \in Actors, queue[a] # <<>>,
           NEW m \in ToSet(Tail(queue[a])), m.reply = Head(queue[a]).reply,
           m.reply \in Callers \cup {Client}
    PROVE  FALSE
<1> DEFINE M == CallsOf(m.reply)
           q == queue[a]
<1>1. q \in Seq(Messages) /\ Tail(q) \in Seq(Messages) /\ q # <<>>
      /\ Head(q) \in Messages /\ m \in Messages
  <2>1. q \in Seq(Messages) /\ q # <<>> /\ ToSet(q) \subseteq Messages
    BY UnderIs DEF MailInv
  <2>2. /\ Tail(q) \in Seq(Messages) /\ Head(q) \in Messages
        /\ ToSet(q) = ToSet(Tail(q)) \cup {Head(q)}
    BY <2>1, QueueBegins
  <2> QED  BY <2>1, <2>2
<1>2. Head(q) \in M /\ m \in M
  BY <1>1 DEF CallsOf
<1>3. Load(a, M) <= 1 /\ Truth(handling[a] \in M) \in {0, 1}
  BY DEF CallInv, Truth
<1> HIDE DEF M
<1>4. CountIn(q, M) \in Nat /\ CountIn(q, M) <= 1
  <2>1. CountIn(q, M) \in Nat
    BY <1>1, CountZero
  <2>2. CountIn(q, M) + Truth(handling[a] \in M) <= 1
    BY <1>3 DEF Load
  <2> QED  BY <1>3, <2>1, <2>2
<1>5. CountIn(Tail(q), M) \in Nat /\ CountIn(Tail(q), M) # 0
  BY <1>1, <1>2, CountZero
<1>6. CountIn(q, M) = CountIn(Tail(q), M) + 1
  BY <1>1, <1>2, CountBegins
<1> QED  BY <1>4, <1>5, <1>6

(* A stop message is about no request. *)
LEMMA StopsAre ==
    ASSUME MailInv, NEW a \in {Teller, Bank}, NEW m, Proper(a, m)
    PROVE  m.op = "stop" <=> m.about = 0
<1>1. a # Coordinator /\ a \notin Accounts /\ 0 \notin Requests
  BY ActorNames DEF Callers
<1>2. CASE m.about \in DOMAIN workload.commands \cap Requests /\ m.op = Command(m.about).command
  <2>1. m.op \in Commands
    BY <1>2, CommandTypes
  <2> QED  BY <1>1, <1>2, <2>1 DEF Commands, Formatted, Queries
<1> QED  BY <1>1, <1>2 DEF Proper

(* What the bank is at has left the mailboxes of teller and bank for good. *)
LEMMA TellerOnce ==
    ASSUME MailInv, CallInv, NEW i \in Requests, Serves(Teller, i),
           NEW m \in ToSet(queue[Teller])
    PROVE  m.about # i
<1>1. Teller \in Actors /\ i # 0
  BY ActorNames DEF Callers
<1>2. /\ handling[Teller] \in Under(Teller) /\ m \in Under(Teller)
      /\ handling[Teller] # None /\ handling[Teller].about = i
  BY <1>1, UnderIs DEF Serves
<1>3. Proper(Teller, handling[Teller]) /\ Proper(Teller, m)
  BY <1>1, <1>2 DEF MailInv
<1>4. handling[Teller].op # "stop" /\ (m.about = i => m.op # "stop")
  BY <1>1, <1>2, <1>3, StopsAre
<1>5. handling[Teller].reply = Client /\ (m.about = i => m.reply = Client)
  BY <1>2, <1>4, TellerServes
<1> QED  BY <1>1, <1>2, <1>5, HandledOnce

LEMMA ServingBegun ==
    ASSUME Inv, NEW i \in Requests, Serves(Bank, i)
    PROVE  Begun(i)
<1>1. MailInv /\ CallInv /\ Bank \in Actors /\ i # 0
  BY ActorNames DEF Inv, Callers
<1>2. /\ handling[Bank] \in Under(Bank) /\ handling[Bank] # None
      /\ handling[Bank].about = i /\ ToSet(queue[Bank]) \subseteq Under(Bank)
  BY <1>1, UnderIs DEF Serves
<1>3. handling[Bank].op # "stop"
  BY <1>1, <1>2, StopsAre DEF MailInv
<1>4. handling[Bank].reply = Teller /\ Serves(Teller, i) /\ outcome[i] = "pending"
  BY <1>1, <1>2, <1>3, BankServes DEF Doing
<1>5. ASSUME NEW m \in ToSet(queue[Bank]), m.about = i
      PROVE  FALSE
  <2>1. m.op # "stop"
    BY <1>1, <1>2, <1>5, StopsAre DEF MailInv
  <2>2. m.reply = Teller
    BY <1>1, <1>2, <1>5, <2>1, BankServes
  <2> QED  BY <1>1, <1>2, <1>4, <2>2, HandledOnce DEF Callers
<1> QED  BY <1>1, <1>4, <1>5, TellerOnce DEF Begun

(* The bank opens an account for a command that leaves the mailboxes. *)
LEMMA OpeningBegins ==
    ASSUME Inv, [Next]_vars, OpenAccount, NEW i, i = About(Bank)
    PROVE  /\ i \in DOMAIN workload.commands \cap Requests
           /\ Command(i).command = "openAccount" /\ ~Begun(i) /\ Begun(i)'
<1> DEFINE m == Head(queue[Bank])
<1>1. MailInv /\ CallInv /\ MoneyInv /\ Bank \in Actors /\ Teller \in Actors
      /\ Bank # Teller /\ Bank # Coordinator /\ Coordinator # Teller
  BY ActorNames DEF Inv, Callers
<1>2. /\ handling[Bank] = None /\ queue[Bank] # <<>> /\ queue[Bank] \in Seq(Messages)
      /\ m.op = "openAccount" /\ i = m.about
  BY <1>1, OpensAccount DEF MailInv, OpenAccount, Begins, About, Current
<1>3. m \in ToSet(queue[Bank]) /\ ToSet(Tail(queue[Bank])) \subseteq ToSet(queue[Bank])
  BY <1>2, QueueBegins
<1>4. m \in Under(Bank) /\ ToSet(queue[Bank]) \subseteq Under(Bank)
  BY <1>1, <1>3, UnderIs
<1>5. /\ i \in DOMAIN workload.commands \cap Requests
      /\ Command(i).command = "openAccount" /\ m.reply = Teller
      /\ Serves(Teller, i) /\ outcome[i] = "pending"
  BY <1>1, <1>2, <1>4, BankServes DEF Doing
<1>6. ~Begun(i)
  BY <1>2, <1>3 DEF Begun
<1>7. queue'[Bank] = Tail(queue[Bank]) /\ queue'[Teller] = queue[Teller]
  <2>1. Rest(Bank)[Bank] = Tail(queue[Bank]) /\ Rest(Bank)[Teller] = queue[Teller]
    BY <1>1, <1>2 DEF Rest, MailInv
  <2>2. Throws(Bank) \/ Calls(Bank, Coordinator, "registerAccount")
    BY DEF OpenAccount
  <2>3. Rest(Bank) \in [Actors -> Seq(Messages)]
    BY <1>1, <1>2, CurrentMessage DEF Busy
  <2>4. queue'[Bank] = Rest(Bank)[Bank] /\ queue'[Teller] = Rest(Bank)[Teller]
    BY <1>1, <2>2, <2>3 DEF Throws, Calls
  <2> QED  BY <2>1, <2>4
<1>8. ASSUME NEW n \in ToSet(Tail(queue[Bank]))
      PROVE  n.about # i
  <2>1. SUFFICES ASSUME n.about = i  PROVE FALSE
    OBVIOUS
  <2>2. n.op # "stop"
    BY <1>1, <1>3, <1>4, <1>5, <2>1, StopsAre, ActorNames DEF MailInv
  <2>3. n.reply = Teller
    BY <1>1, <1>3, <1>4, <2>2, BankServes
  <2> QED  BY <1>1, <1>2, <1>5, <2>3, TakenOnce DEF Callers
<1>9. \A n \in ToSet(queue[Teller]) : n.about # i
  BY <1>1, <1>5, TellerOnce
<1>10. outcome'[i] # "unsent"
  <2>1. SendingStep
    BY <1>1, NextIsMailStep, MailIsSending
  <2> QED  BY <1>1, <1>5, <2>1, SentStays, ActorNames DEF Sent
<1> QED  BY <1>5, <1>6, <1>7, <1>8, <1>9, <1>10 DEF Begun

(* There are no more accounts than commands that open one. *)
Opened == {i \in DOMAIN workload.commands :
              Command(i).command = "openAccount" /\ Begun(i)}

OpenedInv == Len(balance) <= Cardinality(Opened)

LEMMA OpenedInvKeeps ==
    ASSUME Inv, OpenedInv, [Next]_vars, Inv'
    PROVE  OpenedInv'
<1>1. /\ MailInv /\ MoneyInv /\ CallInv /\ TransferInv /\ MailInv'
      /\ workload' = workload /\ balance \in Seq(Nat) /\ balance' \in Seq(Nat)
  BY SmallTypes DEF Inv, MoneyInv
<1>2. /\ DOMAIN workload.commands \subseteq Requests
      /\ IsFiniteSet(DOMAIN workload.commands)
  BY <1>1, RequestsAre
<1>3. Opened \subseteq Opened'
  BY <1>1, <1>2, BegunStays DEF Opened, Command
<1>4. IsFiniteSet(Opened) /\ IsFiniteSet(Opened')
  <2>1. Opened \subseteq DOMAIN workload.commands /\ Opened' \subseteq DOMAIN workload.commands
    BY <1>1 DEF Opened
  <2> QED  BY <1>2, <2>1, FS_Subset
<1>5. /\ Cardinality(Opened) \in Nat /\ Cardinality(Opened') \in Nat
      /\ Cardinality(Opened) <= Cardinality(Opened')
  BY <1>3, <1>4, FS_Subset, FS_CardinalityType
<1>6. CASE OpenAccount
  <2> PICK i : i = About(Bank)
    OBVIOUS
  <2>0. /\ i \in DOMAIN workload.commands \cap Requests
        /\ Command(i).command = "openAccount" /\ ~Begun(i) /\ Begun(i)'
    BY <1>6, OpeningBegins
  <2>1. i \notin Opened /\ i \in Opened'
    BY <1>1, <2>0 DEF Opened, Command
  <2>2. /\ Opened \cup {i} \subseteq Opened' /\ IsFiniteSet(Opened \cup {i})
        /\ Cardinality(Opened \cup {i}) = Cardinality(Opened) + 1
    BY <1>3, <1>4, <2>1, FS_AddElement
  <2>3. Cardinality(Opened) + 1 <= Cardinality(Opened')
    BY <1>4, <2>2, FS_Subset
  <2>4. Len(balance') <= Len(balance) + 1
    <3>1. balance' = balance \/ \E x \in Nat : balance' = Append(balance, x)
      BY <1>1, <1>6, OpensAccount DEF OpenAccount
    <3> QED  BY <1>1, <3>1
  <2> QED  BY <1>1, <1>5, <2>3, <2>4 DEF OpenedInv
<1>7. CASE ~OpenAccount
  <2>1. Len(balance') = Len(balance)
    <3>1. DOMAIN balance' = DOMAIN balance
      BY <1>1, <1>7, AccountsGrow
    <3>2. 1..Len(balance') = 1..Len(balance) /\ Len(balance') \in Nat /\ Len(balance) \in Nat
      BY <1>1, <3>1
    <3>3. \A m, n \in Nat : 1..m = 1..n => m = n
      <4> SUFFICES ASSUME NEW m \in Nat, NEW n \in Nat, 1..m = 1..n  PROVE m = n
        OBVIOUS
      <4>1. m \in 1..n \/ m = 0
        OBVIOUS
      <4>2. n \in 1..m \/ n = 0
        OBVIOUS
      <4> QED  BY <4>1, <4>2
    <3> QED  BY <3>2, <3>3
  <2> QED  BY <1>5, <2>1 DEF OpenedInv
<1> QED  BY <1>6, <1>7

LEMMA OpenedAccounts ==
    ASSUME MailInv, MoneyInv, OpenedInv
    PROVE  DOMAIN balance \subseteq Accounts
<1> DEFINE Opening(w) == {i \in DOMAIN w.commands : w.commands[i].command = "openAccount"}
           f == [w \in Workloads |-> Cardinality(Opening(w))]
           S == {Cardinality(Opening(w)) : w \in Workloads}
<1>1. /\ workload \in Workloads /\ IsFiniteSet(Workloads)
      /\ \A w \in Workloads : /\ DOMAIN w.commands = 1..Len(w.commands)
                               /\ Len(w.commands) \in Nat
  BY BankAssumption DEF MailInv
<1>2. \A w \in Workloads : IsFiniteSet(Opening(w)) /\ Cardinality(Opening(w)) \in Nat
  <2> SUFFICES ASSUME NEW w \in Workloads
               PROVE  IsFiniteSet(Opening(w)) /\ Cardinality(Opening(w)) \in Nat
    OBVIOUS
  <2>1. IsFiniteSet(1..Len(w.commands))
    <3>1. Len(w.commands) \in Int /\ 1 \in Int
      BY <1>1
    <3> HIDE DEF Opening, S
    <3> QED  BY <3>1, FS_Interval
  <2>2. Opening(w) \subseteq 1..Len(w.commands)
    BY <1>1
  <2>3. IsFiniteSet(Opening(w))
    BY <2>1, <2>2, FS_Subset
  <2> QED  BY <2>3, FS_CardinalityType
<1>3. Opened \subseteq Opening(workload)
  BY DEF Opened, Command
<1>4. Accounts = 1..Max(S)
  BY DEF Accounts
<1> HIDE DEF Opening
<1>5. f \in Surjection(Workloads, S)
  BY DEF Surjection
<1>6. IsFiniteSet(S) /\ S \in SUBSET Nat /\ Cardinality(Opening(workload)) \in S
  BY <1>1, <1>2, <1>5, FS_Surjection
<1> HIDE DEF S
<1>7. Max(S) \in Nat /\ Cardinality(Opening(workload)) <= Max(S)
  BY <1>6, LargestElement
<1>8. Cardinality(Opened) <= Cardinality(Opening(workload)) /\ Cardinality(Opened) \in Nat
  BY <1>1, <1>2, <1>3, FS_Subset, FS_CardinalityType
<1>9. Len(balance) \in Nat /\ DOMAIN balance = 1..Len(balance)
  BY DEF MoneyInv
<1>10. Len(balance) <= Max(S)
  <2>1. Cardinality(Opening(workload)) \in Nat
    BY <1>1, <1>2
  <2> QED  BY <1>7, <1>8, <1>9, <2>1 DEF OpenedInv
<1>11. 1..Len(balance) \subseteq 1..Max(S)
  BY <1>7, <1>9, <1>10
<1> QED  BY <1>4, <1>9, <1>11

-----------------------------------------------------------------------------
(* Rejections *)

(* Whether a record of operation op of request i may still be rejected, *)
Due(i, op) ==
    CASE Command(i).command \in {"deposit", "withdraw"} ->
             ~Begun(i) \/ (Serves(Bank, i) /\ answer[Bank] \in {"found", "pending"})
      [] Command(i).command = "transfer" /\ op = "withdraw" ->
             \/ ~Begun(i)
             \/ \E m \in ToSet(queue[Coordinator]) :
                    m.op = "initiateTransfer" /\ m.about = i
             \/ /\ Doing(i, Coordinator, "initiateTransfer")
                /\ answer[Coordinator] = "pending"
      [] Command(i).command = "transfer" /\ op = "refund" ->
             \/ status[i] # "failed-deposit" \/ i \in timeouts
             \/ \E m \in ToSet(queue[Coordinator]) : m \in Steps(i)
             \/ Serves(Coordinator, i) /\ answer[Coordinator] # "error"
      [] OTHER -> TRUE

(* and the failures of deposits that have not been counted yet. *)
Failing(i) ==
    \/ \E m \in ToSet(queue[Coordinator]) :
           m.op = "handleDepositFailure" /\ m.about = i
    \/ /\ Doing(i, Coordinator, "attemptDeposit")
       /\ answer[Coordinator] = "error"

(* Deposits of transfers are rejected once for each attempt, and everything  *)
(* else at most once.                                                        *)
RejectInv ==
    \A i \in Requests : \A op \in Moves : rejected[<<i, op>>] # 0 =>
        /\ i \in DOMAIN workload.commands
        /\ IF Command(i).command = "transfer" /\ op = "deposit"
           THEN rejected[<<i, op>>] <= attempts[i] + Truth(Failing(i))
           ELSE rejected[<<i, op>>] = 1 /\ ~Due(i, op)

(* Deposits and withdrawals of users: the bank has an answer or is done. *)
LEMMA PaidOnce ==
    ASSUME Inv, AnswerInv, [Next]_vars, workload' = workload,
           NEW i \in DOMAIN workload.commands \cap Requests,
           Command(i).command \in {"deposit", "withdraw"}, NEW op, ~Due(i, op)
    PROVE  ~Due(i, op)'
<1>1. /\ MailInv /\ CallInv /\ MoneyInv /\ Bank \in Actors /\ i # 0
      /\ ToSet(queue[Bank]) \subseteq Under(Bank)
  BY ActorNames, UnderIs DEF Inv, Callers
<1>2. Begun(i) /\ ~(Serves(Bank, i) /\ answer[Bank] \in {"found", "pending"})
  BY DEF Due
<1>3. Begun(i)'
  BY <1>2, BegunStays
<1>4. ~(Serves(Bank, i)' /\ answer'[Bank] \in {"found", "pending"})
  <2>1. CASE Rested(Bank)
    BY <1>2, <2>1 DEF Rested, Serves, Results
  <2>2. CASE TurnOf(Bank) /\ Settles(Bank)
    BY <1>1, <2>2 DEF Settles, Ends, Serves, MailInv
  <2>3. CASE TurnOf(Bank) /\ Goes(Bank)
    <3>1. SUFFICES ASSUME Serves(Bank, i)', answer'[Bank] \in {"found", "pending"}
                   PROVE  FALSE
      OBVIOUS
    <3>2. Busy(Bank) /\ handling'[Bank] = Current(Bank)
      BY <1>1, <2>3, TurnsSettle DEF Goes, MailInv
    <3>3. Current(Bank).about = i
      BY <3>1, <3>2 DEF Serves
    <3>4. handling[Bank] # None
      <4>1. SUFFICES ASSUME handling[Bank] = None  PROVE FALSE
        OBVIOUS
      <4>2. queue[Bank] \in Seq(Messages) /\ queue[Bank] # <<>>
        BY <1>1, <3>2, <4>1 DEF MailInv, Busy
      <4>3. Head(queue[Bank]) \in ToSet(queue[Bank])
        BY <4>2, QueueBegins
      <4> QED  BY <1>2, <3>3, <4>1, <4>3 DEF Begun, Current
    <3>5. Serves(Bank, i) /\ answer[Bank] \notin {"found", "pending"}
      BY <1>1, <1>2, <3>3, <3>4 DEF Serves, Current
    <3>6. handling[Bank].op = Command(i).command
      <4>1. handling[Bank] \in Under(Bank)
        BY <1>1, <3>4, UnderIs
      <4>2. handling[Bank].op # "stop"
        BY <1>1, <3>5, <4>1, StopsAre DEF MailInv, Serves
      <4> QED  BY <1>1, <3>5, <4>1, <4>2, BankServes DEF Serves
    <3>7. /\ \A op1 : ~Begins(Bank, op1)
          /\ \A ops : handling[Bank].op \notin ops => ~Resumes(Bank, ops)
          /\ handling[Bank].op # "stop"
      BY <3>4, <3>6 DEF Begins, Resumes
    <3>8. ~PassesOn(Bank) /\ \A result : ~Returns(Bank, result)
      BY <1>1, <3>1 DEF PassesOn, Returns, Throws, Ends, Serves, MailInv
    <3>9. BankSteps
      BY <1>1, <2>3, <3>7, ActorNames DEF TurnOf, Stops, BankBeginsToStop, BankStops,
         Callers
    <3> QED
      BY <3>5, <3>6, <3>7, <3>8, <3>9 DEF BankSteps, OpenAccount, AccountOpened,
         FindAccount, AccountFound, AccountSummary, TransactionHistory, AllAccounts,
         Transfer, TransferInitiated, PendingTransfers, BankAnswers, Resumes
  <2> QED  BY <1>1, <2>1, <2>2, <2>3, StepsRest, TurnsSettle
<1> QED  BY <1>3, <1>4 DEF Due, Command

(* Withdrawals of transfers: the coordinator has an answer or is done. *)
LEMMA WithdrawnOnce ==
    ASSUME Inv, AnswerInv, [Next]_vars, workload' = workload,
           NEW i \in DOMAIN workload.commands \cap Requests,
           Command(i).command = "transfer", ~Due(i, "withdraw")
    PROVE  ~Due(i, "withdraw")'
<1>1. /\ MailInv /\ CallInv /\ MoneyInv /\ Coordinator \in Actors
      /\ Coordinator # Bank /\ Coordinator # Teller /\ Coordinator \notin Accounts
  BY ActorNames DEF Inv, Callers
<1>2. /\ Begun(i)
      /\ \A m \in ToSet(queue[Coordinator]) : ~(m.op = "initiateTransfer" /\ m.about = i)
      /\ ~(Doing(i, Coordinator, "initiateTransfer") /\ answer[Coordinator] = "pending")
  BY DEF Due
<1>3. /\ Begun(i)'
      /\ \A m \in ToSet(queue'[Coordinator]) : ~(m.op = "initiateTransfer" /\ m.about = i)
  BY <1>2, BegunStays
<1>4. ~(Doing(i, Coordinator, "initiateTransfer")' /\ answer'[Coordinator] = "pending")
  <2>1. CASE Rested(Coordinator)
    BY <1>2, <2>1 DEF Rested, Doing, Serves, Results
  <2>2. CASE TurnOf(Coordinator) /\ Settles(Coordinator)
    BY <1>1, <2>2 DEF Settles, Ends, Doing, Serves, MailInv
  <2>3. CASE TurnOf(Coordinator) /\ Goes(Coordinator)
    <3>1. SUFFICES ASSUME Doing(i, Coordinator, "initiateTransfer")'
                   PROVE  FALSE
      OBVIOUS
    <3>2. Busy(Coordinator) /\ handling'[Coordinator] = Current(Coordinator)
      BY <1>1, <2>3, TurnsSettle DEF Goes, MailInv
    <3>3. Current(Coordinator).about = i /\ Current(Coordinator).op = "initiateTransfer"
      BY <3>1, <3>2 DEF Doing, Serves
    <3>4. handling[Coordinator] # None
      <4>1. SUFFICES ASSUME handling[Coordinator] = None  PROVE FALSE
        OBVIOUS
      <4>2. queue[Coordinator] \in Seq(Messages) /\ queue[Coordinator] # <<>>
        BY <1>1, <3>2, <4>1 DEF MailInv, Busy
      <4>3. Head(queue[Coordinator]) \in ToSet(queue[Coordinator])
        BY <4>2, QueueBegins
      <4> QED  BY <1>2, <3>3, <4>1, <4>3 DEF Current
    <3>5. handling[Coordinator].op = "initiateTransfer"
      BY <3>3, <3>4 DEF Current
    <3>6. \A op1 : ~Begins(Coordinator, op1)
      BY <3>4 DEF Begins
    <3>7. ~Throws(Coordinator) /\ \A ops, result : ~SendsItself(Coordinator, ops, result)
      BY <1>1, <3>1 DEF SendsItself, Throws, Ends, Doing, Serves, MailInv
    <3>8. CoordinatorSteps
      BY <1>1, <2>3, <3>6 DEF TurnOf, Stops
    <3> QED
      BY <3>5, <3>6, <3>7, <3>8 DEF CoordinatorSteps, RegisterAccount, InitiateTransfer,
         Withdrawn, RecordPendingTransfer, AttemptDeposit, Deposited,
         HandleDepositFailure, ProcessRefund, Refunded, CompleteTransfer,
         GetPendingTransfers, Resumes
  <2> QED  BY <1>1, <2>1, <2>2, <2>3, StepsRest, TurnsSettle
<1> QED  BY <1>3, <1>4 DEF Due, Command

(* Who is at the step of a transfer has no other one. *)
LEMMA HandlesOnly ==
    ASSUME MailInv, FlowInv, NEW i \in Requests, handling[Coordinator] \in Steps(i)
    PROVE  i \notin timeouts /\ \A m \in ToSet(queue[Coordinator]) : m \notin Steps(i)
<1> DEFINE q == queue[Coordinator]
           h == handling[Coordinator]
<1>1. q \in Seq(Messages) /\ h \in Steps(i) /\ Flow(i, q, h, status[i], pending, timeouts)
  BY ActorNames DEF MailInv, Callers, FlowInv, FlowOf
<1> HIDE DEF q, h
<1>2. CountIn(q, Steps(i)) = 0 /\ Truth(i \in timeouts) = 0
  <2>1. StepsIn(i, q, h, timeouts) <= 1
    BY <1>1 DEF Flow
  <2>2. /\ CountIn(q, Steps(i)) \in Nat /\ Truth(i \in timeouts) \in {0, 1}
        /\ Truth(h \in Steps(i)) = 1
    BY <1>1, StepsTyped DEF Truth
  <2> QED  BY <2>1, <2>2 DEF StepsIn
<1>3. ToSet(q) \cap Steps(i) = {}
  BY <1>1, <1>2, CountZero
<1> QED  BY <1>2, <1>3 DEF Truth, q

(* The coordinator goes on only from the beginning of its handlers. *)
LEMMA CoordinatorWaits ==
    ASSUME MailInv, CoordinatorSteps \/ Stops(Coordinator), handling'[Coordinator] # None
    PROVE  /\ handling[Coordinator] = None /\ Busy(Coordinator)
           /\ handling'[Coordinator] = Current(Coordinator)
           /\ Current(Coordinator).op \in {"initiateTransfer", "attemptDeposit",
                                           "processRefund"}
<1>1. Coordinator \in Actors
  BY DEF Actors
<1>2. /\ ~Throws(Coordinator) /\ \A result : ~Returns(Coordinator, result)
      /\ \A ops, result : ~SendsItself(Coordinator, ops, result)
  BY <1>1 DEF Throws, Returns, SendsItself, Ends, MailInv
<1>3. /\ InitiateTransfer \/ AttemptDeposit \/ ProcessRefund
      /\ \E b, op : Calls(Coordinator, b, op)
  BY <1>2 DEF CoordinatorSteps, RegisterAccount, InitiateTransfer, Withdrawn,
     RecordPendingTransfer, AttemptDeposit, Deposited, HandleDepositFailure, ProcessRefund,
     Refunded, CompleteTransfer, GetPendingTransfers, Stops
<1>4. handling'[Coordinator] = Current(Coordinator)
  BY <1>1, <1>3 DEF Calls, MailInv
<1> QED  BY <1>3, <1>4, BeginsTurns DEF InitiateTransfer, AttemptDeposit, ProcessRefund

(* A record comes first. *)
LEMMA RecordsFirst ==
    ASSUME MailInv, FlowInv, Turns(Coordinator), NEW i \in Requests,
           Current(Coordinator) \in Records(i)
    PROVE  status[i] = "none"
<1> DEFINE q == queue[Coordinator]
           h == handling[Coordinator]
<1>1. /\ q \in Seq(Messages) /\ h \in Messages \cup {None} /\ (h = None => q # <<>>)
      /\ At(q, h) \in Records(i) /\ Flow(i, q, h, status[i], pending, timeouts)
  BY CoordinatorIs DEF FlowInv, FlowOf
<1> HIDE DEF q, h
<1>2. "withdrawn" # "none" /\ i \in Requests
  OBVIOUS
<1> QED  BY <1>1, <1>2, FlowEntered

(* A refund that has failed is not tried again. *)
LEMMA RefundedTurns ==
    ASSUME Inv, FlowInv, PhaseInv, CoordinatorSteps \/ Stops(Coordinator),
           NEW i \in Requests, status[i] = "failed-deposit", i \notin timeouts,
           \A m \in ToSet(queue[Coordinator]) : m \notin Steps(i),
           Serves(Coordinator, i) => answer[Coordinator] = "error"
    PROVE  /\ status'[i] = "failed-deposit" /\ i \notin timeouts'
           /\ \A m \in ToSet(queue'[Coordinator]) : m \notin Steps(i)
           /\ ~Serves(Coordinator, i)'
<1> DEFINE c == Current(Coordinator)
           r == Rest(Coordinator)[Coordinator]
<1>1. /\ MailInv /\ MoneyInv /\ Coordinator \in Actors /\ Past(i)
      /\ pending \subseteq Requests
      /\ status \in [Requests -> TransferStatus \cup {"none"}]
  BY ActorNames DEF Inv, Callers, FlowInv, Past
<1>2. Turns(Coordinator) /\ Busy(Coordinator)
  BY <1>1, CoordinatorTurns, BeginsTurns DEF Stops
<1>3. /\ c \in Messages /\ c \in Under(Coordinator) /\ r \in Seq(Messages)
      /\ ToSet(r) \subseteq ToSet(queue[Coordinator])
      /\ handling[Coordinator] = None => c \in ToSet(queue[Coordinator])
  <2>1. CASE handling[Coordinator] = None
    <3>1. queue[Coordinator] \in Seq(Messages) /\ queue[Coordinator] # <<>>
      BY <1>1, <1>2, <2>1 DEF MailInv, Busy
    <3>2. r = Tail(queue[Coordinator]) /\ c = Head(queue[Coordinator])
      BY <1>1, <2>1 DEF Rest, Current, MailInv
    <3> QED  BY <1>1, <1>2, <3>1, <3>2, QueueBegins, CurrentMessage
  <2>2. CASE handling[Coordinator] # None
    <3>1. r = queue[Coordinator]
      BY <2>2 DEF Rest
    <3> QED  BY <1>1, <1>2, <2>2, <3>1, CurrentMessage DEF MailInv
  <2> QED  BY <2>1, <2>2
<1>4. \A m \in Messages : m.about = i /\ m.op \in TransferOps => m \in Steps(i)
  BY DEF Steps, IsStep
<1>5. ~Serves(Coordinator, i)'
  <2>1. SUFFICES ASSUME handling'[Coordinator] # None, handling'[Coordinator].about = i
                 PROVE  FALSE
    BY DEF Serves
  <2>2. /\ handling[Coordinator] = None /\ c.about = i
        /\ c.op \in {"initiateTransfer", "attemptDeposit", "processRefund"}
    BY <1>1, <2>1, CoordinatorWaits
  <2>3. c.op # "initiateTransfer"
    BY <1>1, <1>3, <2>2 DEF FlowInv
  <2> QED  BY <1>3, <1>4, <2>2, <2>3 DEF TransferOps
<1>6. CASE Apart(i)
  <2>1. \A m \in ToSet(queue'[Coordinator]) : m \in ToSet(r) \/ m \in Foreign(i)
    BY <1>3, <1>6, AddsSet DEF Apart
  <2> QED  BY <1>3, <1>5, <1>6, <2>1 DEF Apart, Foreign
<1>7. CASE CoordinatorSteps /\ About(Coordinator) = i /\ c.op \in SelfSent
  <2>1. c.op # "recordPendingTransfer"
    <3>1. c.op = "recordPendingTransfer" => c \in Records(i)
      BY <1>3, <1>7 DEF Records, About
    <3> QED  BY <1>1, <1>2, <3>1, RecordsFirst
  <2>2. c.op \in TransferOps /\ c.about = i
    BY <1>7, <2>1 DEF SelfSent, About
  <2>3. handling[Coordinator] # None /\ handling[Coordinator] = c
    BY <1>3, <1>4, <2>2 DEF Current
  <2>4. answer[Coordinator] = "error"
    BY <1>1, <2>2, <2>3 DEF Serves
  <2>5. Fits(c, status[i], attempts[i])
    BY <1>3, <2>2 DEF PhaseInv, PhaseOf
  <2>6. c.op = "processRefund"
    BY <2>2, <2>5 DEF Fits, Early, TransferOps
  <2>7. \A op : ~Begins(Coordinator, op)
    BY <2>3 DEF Begins
  <2>8. Refunded
    BY <1>7, <2>3, <2>6, <2>7 DEF CoordinatorSteps, RegisterAccount, InitiateTransfer,
       Withdrawn, RecordPendingTransfer, AttemptDeposit, Deposited, HandleDepositFailure,
       ProcessRefund, CompleteTransfer, GetPendingTransfers, Resumes
  <2>9. Throws(Coordinator) /\ UNCHANGED <<status, timeouts>>
    BY <2>4, <2>8 DEF Refunded, schedulerVars
  <2>10. queue'[Coordinator] = r
    BY <2>9 DEF Throws
  <2> QED  BY <1>3, <1>5, <2>9, <2>10
<1>8. CASE Withdraws(i)
  BY <1>1, <1>8, WithdrawnFlow
<1> QED  BY <1>1, <1>6, <1>7, <1>8, CoordinatorApart

LEMMA RefundedOnce ==
    ASSUME Inv, FlowInv, PhaseInv, AnswerInv, [Next]_vars, workload' = workload,
           NEW i \in DOMAIN workload.commands \cap Requests,
           Command(i).command = "transfer", ~Due(i, "refund")
    PROVE  ~Due(i, "refund")'
<1>1. /\ MailInv /\ CallInv /\ MoneyInv /\ Coordinator \in Actors
      /\ Coordinator # Bank /\ Coordinator # Teller /\ Coordinator \notin Accounts
  BY ActorNames DEF Inv, Callers
<1>2. /\ status[i] = "failed-deposit" /\ i \notin timeouts
      /\ \A m \in ToSet(queue[Coordinator]) : m \notin Steps(i)
      /\ Serves(Coordinator, i) => answer[Coordinator] = "error"
  BY DEF Due
<1>3. SUFFICES /\ status'[i] = "failed-deposit" /\ i \notin timeouts'
               /\ \A m \in ToSet(queue'[Coordinator]) : m \notin Steps(i)
               /\ Serves(Coordinator, i)' => answer'[Coordinator] = "error"
  BY DEF Due, Command, Steps, IsStep
<1>4. CASE CoordinatorSteps \/ Stops(Coordinator)
  BY <1>2, <1>4, RefundedTurns
<1>5. CASE ~CoordinatorSteps /\ ~Stops(Coordinator)
  <2>1. Rested(Coordinator)
    BY <1>1, <1>5, StepsRest DEF TurnOf
  <2>2. Serves(Coordinator, i)' => answer'[Coordinator] = "error"
    BY <1>2, <2>1 DEF Rested, Serves
  <2>3. i \notin timeouts'
    BY <1>2, <1>5, TimersStep DEF CoordinatorSteps
  <2>4. status'[i] = status[i]
    BY <1>1, <1>5, OthersMoveNothing DEF Unmoved
  <2>5. ASSUME NEW m \in ToSet(queue'[Coordinator])
        PROVE  m \notin Steps(i)
    <3>1. CASE Idle
      <4>1. CASE queue'[Coordinator] = queue[Coordinator]
        BY <1>2, <2>5, <4>1
      <4>2. CASE \E n \in Messages : /\ queue'[Coordinator] = Append(queue[Coordinator], n)
                                     /\ n.op \notin SelfSent
        BY <1>1, <1>2, <2>5, <4>2, QueueEnds DEF MailInv, Steps, IsStep, SelfSent
      <4> QED  BY <3>1, <4>1, <4>2 DEF Idle, IdleStep
    <3>2. ASSUME NEW j \in Requests, RetryFires(j)
          PROVE  m \notin Steps(i)
      <4>1. j # i
        BY <1>2, <3>2 DEF RetryFires, OnceFires
      <4>2. m \in ToSet(queue[Coordinator]) \/ m.about = j
        <5> DEFINE n == Message(Coordinator, "attemptDeposit", j, Nobody, own[Coordinator])
        <5>1. n \in Messages /\ n.about = j
          BY <1>1, NewMessage DEF MailInv, AllOps, CoordinatorProtocol, TransferOps
        <5>2. \/ queue'[Coordinator] = queue[Coordinator]
              \/ queue'[Coordinator] = Append(queue[Coordinator], n)
          BY <1>1, <3>2 DEF RetryFires, MailInv
        <5>3. queue[Coordinator] \in Seq(Messages)
          BY <1>1 DEF MailInv
        <5> HIDE DEF n
        <5>4. ToSet(Append(queue[Coordinator], n)) = ToSet(queue[Coordinator]) \cup {n}
          BY <5>1, <5>3, QueueEnds
        <5> QED  BY <2>5, <5>1, <5>2, <5>4
      <4> QED  BY <1>2, <4>1, <4>2 DEF Steps, IsStep
    <3> QED  BY <1>1, <1>5, <3>1, <3>2, OthersIdle
  <2> QED  BY <1>2, <2>2, <2>3, <2>4, <2>5
<1> QED  BY <1>4, <1>5

(* A failed deposit is counted as an attempt. *)
LEMMA FailureCounted ==
    ASSUME Inv, FlowInv, PhaseInv, [Next]_vars, CoordinatorSteps \/ Stops(Coordinator),
           NEW i \in Requests, Failing(i)
    PROVE  Failing(i)' \/ attempts'[i] = attempts[i] + 1
<1> DEFINE c == Current(Coordinator)
           r == Rest(Coordinator)[Coordinator]
<1>1. /\ MailInv /\ MoneyInv /\ Coordinator \in Actors
      /\ pending \subseteq Requests
      /\ status \in [Requests -> TransferStatus \cup {"none"}]
      /\ attempts \in [Requests -> 0..MaxRetryAttempts]
  BY ActorNames DEF Inv, Callers, FlowInv, PhaseInv
<1>2. Turns(Coordinator) /\ Busy(Coordinator)
  BY <1>1, CoordinatorTurns, BeginsTurns DEF Stops
<1>3. /\ c \in Messages /\ r \in Seq(Messages) /\ ToSet(queue[Coordinator]) \subseteq Messages
      /\ \A m \in ToSet(queue[Coordinator]) : m \in ToSet(r) \/ m = c
      /\ handling[Coordinator] # None => c = handling[Coordinator]
  BY <1>1, <1>2, CurrentMessage, UnderIs DEF Current
<1>4. \A m \in Messages : m.about = i /\ m.op \in TransferOps => m \in Steps(i)
  BY DEF Steps, IsStep
<1>5. CASE Doing(i, Coordinator, "attemptDeposit") /\ answer[Coordinator] = "error"
  <2>1. /\ handling[Coordinator] # None /\ About(Coordinator) = i
        /\ handling[Coordinator].op = "attemptDeposit"
    BY <1>3, <1>5 DEF Doing, Serves, About
  <2>2. \A op : ~Begins(Coordinator, op)
    BY <2>1 DEF Begins
  <2>3. Deposited
    BY <2>1, <2>2 DEF CoordinatorSteps, RegisterAccount, InitiateTransfer, Withdrawn,
       RecordPendingTransfer, AttemptDeposit, HandleDepositFailure, ProcessRefund, Refunded,
       CompleteTransfer, GetPendingTransfers, Resumes, Stops
  <2>4. SendsItself(Coordinator, <<"handleDepositFailure">>, "value")
    BY <1>5, <2>3 DEF Deposited
  <2>5. PICK x \in Messages : /\ x.op = "handleDepositFailure" /\ x.about = i
                              /\ queue'[Coordinator] = Append(r, x)
    BY <1>1, <1>2, <2>1, <2>4, CoordinatorSelfOne DEF TransferOps
  <2>6. x \in ToSet(queue'[Coordinator])
    BY <1>3, <2>5, QueueEnds
  <2> QED  BY <2>5, <2>6 DEF Failing
<1>6. ASSUME NEW m \in ToSet(queue[Coordinator]),
             m.op = "handleDepositFailure", m.about = i
      PROVE  Failing(i)' \/ attempts'[i] = attempts[i] + 1
  <2>1. m \in Messages /\ m \in Steps(i)
    BY <1>3, <1>4, <1>6 DEF TransferOps
  <2>2. CASE Apart(i)
    <3>1. m \in ToSet(r)
      BY <1>3, <1>6, <2>1, <2>2 DEF Apart
    <3>2. m \in ToSet(queue'[Coordinator])
      BY <1>3, <2>2, <3>1, AddsSet DEF Apart
    <3> QED  BY <1>6, <3>2 DEF Failing
  <2>3. CASE CoordinatorSteps /\ About(Coordinator) = i /\ c.op \in SelfSent
    <3>1. CASE c.op = "recordPendingTransfer"
      <4>1. \A op : Begins(Coordinator, op) => c.op = op
        BY BeginsTurns
      <4>2. \A op : op # "none" /\ Resumes(Coordinator, {op}) => c.op = op
        BY ResumesTurns
      <4>3. RecordPendingTransfer
        BY <2>3, <3>1, <4>1, <4>2 DEF CoordinatorSteps, RegisterAccount, InitiateTransfer,
           Withdrawn, AttemptDeposit, Deposited, HandleDepositFailure, ProcessRefund,
           Refunded, CompleteTransfer, GetPendingTransfers
      <4>4. queue'[Coordinator] = r
        BY <4>3 DEF RecordPendingTransfer, Returns
      <4> QED  BY <1>3, <1>6, <3>1, <4>4 DEF Failing
    <3>2. CASE c.op \in TransferOps
      <4>1. c \in Steps(i)
        BY <1>3, <1>4, <2>3, <3>2 DEF About
      <4>2. m = c /\ i \in pending
        <5>1. m \in Under(Coordinator)
          BY <1>1, <1>6, UnderIs
        <5> QED  BY <1>1, <1>2, <2>1, <4>1, <5>1, StepAlone
      <4>3. \A op : Begins(Coordinator, op) => c.op = op
        BY BeginsTurns
      <4>4. \A op : op # "none" /\ Resumes(Coordinator, {op}) => c.op = op
        BY ResumesTurns
      <4>5. HandleDepositFailure
        BY <1>6, <2>3, <4>2, <4>3, <4>4 DEF CoordinatorSteps, RegisterAccount,
           InitiateTransfer, Withdrawn, RecordPendingTransfer, AttemptDeposit, Deposited,
           ProcessRefund, Refunded, CompleteTransfer, GetPendingTransfers
      <4> QED  BY <1>1, <2>3, <4>2, <4>5 DEF HandleDepositFailure
    <3> QED  BY <2>3, <3>1, <3>2 DEF SelfSent
  <2>4. CASE Withdraws(i)
    <3>1. PICK x, y \in Messages :
              queue'[Coordinator] = Append(Append(queue[Coordinator], x), y)
      BY <1>1, <2>4, WithdrawnAdds
    <3>2. queue[Coordinator] \in Seq(Messages)
      BY <1>1 DEF MailInv
    <3>4. PICK q : q = Append(queue[Coordinator], x)
      OBVIOUS
    <3>5. m \in ToSet(q) /\ q \in Seq(Messages)
      BY <1>6, <3>2, <3>4, QueueEnds
    <3>6. ToSet(Append(q, y)) = ToSet(q) \cup {y}
      BY <3>5, QueueEnds
    <3> QED  BY <1>6, <3>1, <3>4, <3>5, <3>6 DEF Failing
  <2> QED  BY <1>1, <2>2, <2>3, <2>4, CoordinatorApart
<1> QED  BY <1>5, <1>6 DEF Failing

LEMMA FailureStays ==
    ASSUME Inv, FlowInv, PhaseInv, AnswerInv, [Next]_vars, NEW i \in Requests
    PROVE  /\ attempts'[i] \in Nat /\ attempts[i] \in Nat /\ attempts[i] <= attempts'[i]
           /\ Failing(i) => Failing(i)' \/ attempts'[i] = attempts[i] + 1
<1>1. /\ MailInv /\ CallInv /\ MoneyInv /\ Coordinator \in Actors
      /\ Coordinator # Bank /\ Coordinator # Teller /\ Coordinator \notin Accounts
      /\ attempts \in [Requests -> 0..MaxRetryAttempts]
  BY ActorNames DEF Inv, Callers, PhaseInv
<1>2. attempts[i] \in Nat /\ (attempts'[i] = attempts[i] \/ attempts'[i] = attempts[i] + 1)
  <2>1. \/ attempts' = attempts
        \/ \E j : attempts' = [attempts EXCEPT ![j] = @ + 1]
    BY TransfersStay DEF RecordPendingTransfer, HandleDepositFailure
  <2> QED  BY <1>1, <2>1 DEF MaxRetryAttempts
<1>3. CASE CoordinatorSteps \/ Stops(Coordinator)
  BY <1>2, <1>3, FailureCounted
<1>4. CASE ~CoordinatorSteps /\ ~Stops(Coordinator)
  <2>1. Rested(Coordinator)
    BY <1>1, <1>4, StepsRest DEF TurnOf
  <2>2. ToSet(queue[Coordinator]) \subseteq ToSet(queue'[Coordinator])
    <3>1. \/ queue'[Coordinator] = queue[Coordinator]
          \/ \E n \in Messages : queue'[Coordinator] = Append(queue[Coordinator], n)
      <4>1. CASE Idle
        BY <4>1 DEF Idle, IdleStep
      <4>2. ASSUME NEW j \in Requests, RetryFires(j)
            PROVE  \/ queue'[Coordinator] = queue[Coordinator]
                   \/ \E n \in Messages : queue'[Coordinator] = Append(queue[Coordinator], n)
        <5> DEFINE n == Message(Coordinator, "attemptDeposit", j, Nobody, own[Coordinator])
        <5>1. n \in Messages
          BY <1>1, NewMessage DEF MailInv, AllOps, CoordinatorProtocol, TransferOps
        <5>2. \/ queue'[Coordinator] = queue[Coordinator]
              \/ queue'[Coordinator] = Append(queue[Coordinator], n)
          BY <1>1, <4>2 DEF RetryFires, MailInv
        <5> QED  BY <5>1, <5>2
      <4> QED  BY <1>1, <1>4, <4>1, <4>2, OthersIdle
    <3>2. queue[Coordinator] \in Seq(Messages)
      BY <1>1 DEF MailInv
    <3>3. \A n \in Messages :
              ToSet(Append(queue[Coordinator], n)) = ToSet(queue[Coordinator]) \cup {n}
      BY <3>2, QueueEnds
    <3> QED  BY <3>1, <3>3
  <2>3. Failing(i) => Failing(i)'
    BY <2>1, <2>2 DEF Failing, Rested, Doing, Serves
  <2> QED  BY <1>2, <2>3
<1> QED  BY <1>3, <1>4

(* What is rejected was due, and is not due any more. *)
LEMMA Rejects ==
    ASSUME Inv, FlowInv, PhaseInv, AddressInv, [Next]_vars, workload' = workload,
           NEW a \in Accounts, HistoryRejects(a), NEW i, i = About(a),
           NEW op \in Moves, op = handling[a].op
    PROVE  /\ i \in DOMAIN workload.commands \cap Requests
           /\ IF Command(i).command = "transfer" /\ op = "deposit"
              THEN ~Failing(i) /\ Failing(i)'
              ELSE Due(i, op) /\ ~Due(i, op)'
<1> DEFINE m == handling[a]
<1>1. /\ MailInv /\ CallInv /\ MoneyInv /\ a \in Actors /\ a \notin Callers
      /\ {Bank, Coordinator} \subseteq Actors
  BY ActorNames DEF Inv, Callers
<1>2. m # None /\ m \in Under(a) /\ Current(a) = m /\ i = m.about
  <2>1. m # None
    BY NoneIsNoMessage DEF Moves
  <2> QED  BY <1>1, <2>1, UnderIs DEF Current, About
<1>3. /\ i \in Requests /\ i \in DOMAIN workload.commands /\ m.reply \in {Bank, Coordinator}
      /\ m.reply = Bank => Doing(i, Bank, op) /\ answer[Bank] = "pending"
      /\ m.reply = Coordinator =>
             /\ Serves(Coordinator, i) /\ answer[Coordinator] = "pending"
             /\ <<handling[Coordinator].op, op>> \in
                    {<<"initiateTransfer", "withdraw">>, <<"attemptDeposit", "deposit">>,
                     <<"processRefund", "refund">>}
  BY <1>1, <1>2, AccountServes
<1>4. /\ m.reply = Bank => op = Command(i).command
      /\ m.reply = Coordinator => Command(i).command = "transfer"
  BY <1>2 DEF AddressInv, Addressed
<1>5. queue' = queue /\ answer'[m.reply] = "error" /\ \A x \in Callers : handling'[x] = handling[x]
  BY <1>1, <1>2, <1>3 DEF HistoryRejects, Throws, Ends, Rest, MailInv, Callers, Actors
<1>6. /\ Command(i)' = Command(i) /\ Coordinator \in Callers /\ Bank \in Callers
      /\ status' = status /\ timeouts' = timeouts
  BY DEF Command, HistoryRejects, transferVars, schedulerVars, Callers
<1>7. CASE m.reply = Bank
  <2>1. op \in {"deposit", "withdraw"} /\ Serves(Bank, i) /\ answer[Bank] = "pending"
    BY <1>1, <1>3, <1>4, <1>7, CommandTypes DEF Moves, Commands, Formatted, Queries, Doing
  <2>2. Begun(i)'
    BY <1>3, <2>1, ServingBegun, BegunStays
  <2>3. Due(i, op) /\ Command(i).command # "transfer"
    BY <1>4, <1>7, <2>1 DEF Due
  <2>4. ~Due(i, op)'
    BY <1>4, <1>5, <1>6, <1>7, <2>1, <2>2 DEF Due
  <2> QED  BY <1>3, <2>3, <2>4
<1>8. CASE m.reply = Coordinator
  <2> DEFINE h == handling[Coordinator]
  <2>1. /\ Command(i).command = "transfer" /\ Serves(Coordinator, i)
        /\ answer[Coordinator] = "pending" /\ answer'[Coordinator] = "error"
        /\ h # None /\ h.about = i /\ h \in Under(Coordinator) /\ h \in Messages
    BY <1>1, <1>3, <1>4, <1>5, <1>8, UnderIs DEF Serves
  <2>2. CASE op = "withdraw"
    <3>1. h.op = "initiateTransfer"
      BY <1>3, <1>8, <2>2
    <3>2. h.reply = Bank /\ Serves(Bank, i)
      BY <1>1, <2>1, <3>1, CoordinatorServes DEF Doing
    <3>3. ASSUME NEW n \in ToSet(queue[Coordinator]), n.op = "initiateTransfer"
          PROVE  FALSE
      <4>1. n.reply = Bank
        BY <1>1, <3>3, UnderIs, CoordinatorServes
      <4> QED  BY <1>1, <2>1, <3>2, <4>1, HandledOnce DEF Callers
    <3>4. Begun(i)'
      BY <1>3, <3>2, ServingBegun, BegunStays
    <3>5. Due(i, op)
      BY <2>1, <2>2, <3>1 DEF Due, Doing
    <3>6. ~Due(i, op)'
      BY <1>5, <1>6, <2>1, <2>2, <3>3, <3>4 DEF Due
    <3> QED  BY <1>3, <2>2, <3>5, <3>6
  <2>3. CASE op = "deposit"
    <3>1. h.op = "attemptDeposit"
      BY <1>3, <1>8, <2>3
    <3>2. h \in Steps(i)
      BY <2>1, <3>1 DEF Steps, IsStep, TransferOps
    <3>3. \A n \in ToSet(queue[Coordinator]) : n \notin Steps(i)
      BY <1>1, <1>3, <3>2, HandlesOnly
    <3>4. \A n \in ToSet(queue[Coordinator]) : ~(n.op = "handleDepositFailure" /\ n.about = i)
      BY <1>1, <3>3, UnderIs DEF Steps, IsStep, TransferOps
    <3>5. ~Failing(i)
      BY <2>1, <3>4 DEF Failing
    <3>6. Failing(i)'
      BY <1>5, <1>6, <2>1, <3>1 DEF Failing, Doing, Serves
    <3> QED  BY <1>3, <2>1, <2>3, <3>5, <3>6
  <2>4. CASE op = "refund"
    <3>1. h.op = "processRefund"
      BY <1>3, <1>8, <2>4
    <3>2. h \in Steps(i)
      BY <2>1, <3>1 DEF Steps, IsStep, TransferOps
    <3>3. i \notin timeouts /\ \A n \in ToSet(queue[Coordinator]) : n \notin Steps(i)
      BY <1>1, <1>3, <3>2, HandlesOnly
    <3>4. status[i] = "failed-deposit"
      BY <1>3, <2>1, <3>1 DEF PhaseInv, PhaseOf, Fits
    <3>5. Due(i, op)
      BY <2>1, <2>4 DEF Due
    <3>6. ~Due(i, op)'
      BY <1>5, <1>6, <2>1, <2>4, <3>3, <3>4 DEF Due, Steps, IsStep
    <3> QED  BY <1>3, <2>4, <3>5, <3>6
  <2> QED  BY <2>2, <2>3, <2>4 DEF Moves
<1> QED  BY <1>3, <1>7, <1>8

LEMMA RejectInvKeeps ==
    ASSUME Inv, FlowInv, PhaseInv, AddressInv, AnswerInv, RejectInv, [Next]_vars,
           workload' = workload
    PROVE  RejectInv'
<1>1. MailInv /\ rejected \in [Requests \X Moves -> Nat]
  BY DEF Inv, FlowInv
<1> SUFFICES ASSUME NEW i \in Requests, NEW op \in Moves, rejected'[<<i, op>>] # 0
             PROVE  /\ i \in DOMAIN workload.commands
                    /\ IF Command(i).command = "transfer" /\ op = "deposit"
                       THEN rejected'[<<i, op>>] <= attempts'[i] + Truth(Failing(i)')
                       ELSE rejected'[<<i, op>>] = 1 /\ ~Due(i, op)'
  <2>1. \A i \in Requests : Command(i)' = Command(i)
    BY DEF Command
  <2>2. \A i \in Requests : Truth(Failing(i))' = Truth(Failing(i)')
    BY DEF Truth
  <2> QED  BY <2>1, <2>2 DEF RejectInv
<1>2. /\ rejected[<<i, op>>] \in Nat
      /\ rejected[<<i, op>>] # 0 =>
             /\ i \in DOMAIN workload.commands
             /\ IF Command(i).command = "transfer" /\ op = "deposit"
                THEN rejected[<<i, op>>] <= attempts[i] + Truth(Failing(i))
                ELSE rejected[<<i, op>>] = 1 /\ ~Due(i, op)
  BY <1>1 DEF RejectInv
<1>3. /\ attempts'[i] \in Nat /\ attempts[i] \in Nat /\ attempts[i] <= attempts'[i]
      /\ Failing(i) => Failing(i)' \/ attempts'[i] = attempts[i] + 1
  BY FailureStays
<1>4. CASE rejected'[<<i, op>>] = rejected[<<i, op>>]
  <2>1. CASE Command(i).command = "transfer" /\ op = "deposit"
    BY <1>2, <1>3, <1>4, <2>1 DEF Truth
  <2>2. CASE ~(Command(i).command = "transfer" /\ op = "deposit")
    <3>1. ~Due(i, op) /\ i \in DOMAIN workload.commands \cap Requests
      BY <1>2, <1>4, <2>2
    <3>2. \/ Command(i).command \in {"deposit", "withdraw"}
          \/ Command(i).command = "transfer" /\ op \in {"withdraw", "refund"}
      BY <2>2, <3>1 DEF Due, Moves
    <3>3. ~Due(i, op)'
      BY <3>1, <3>2, PaidOnce, WithdrawnOnce, RefundedOnce
    <3> QED  BY <1>2, <1>4, <2>2, <3>1, <3>3
  <2> QED  BY <2>1, <2>2
<1>5. CASE rejected'[<<i, op>>] # rejected[<<i, op>>]
  <2>1. PICK a \in Accounts : HistoryRejects(a)
    BY <1>5, EndStays
  <2>2. i = About(a) /\ op = handling[a].op /\ rejected'[<<i, op>>] = rejected[<<i, op>>] + 1
    BY <1>1, <1>5, <2>1 DEF HistoryRejects
  <2>3. /\ i \in DOMAIN workload.commands \cap Requests
        /\ IF Command(i).command = "transfer" /\ op = "deposit"
           THEN ~Failing(i) /\ Failing(i)'
           ELSE Due(i, op) /\ ~Due(i, op)'
    BY <2>1, <2>2, Rejects
  <2> QED  BY <1>2, <1>3, <2>2, <2>3 DEF Truth
<1> QED  BY <1>4, <1>5

LEMMA RejectedBounds ==
    ASSUME Inv, FlowInv, PhaseInv, RejectInv
    PROVE  rejected \in [Requests \X Moves -> 0..MaxRetryAttempts]
<1>1. /\ MailInv /\ rejected \in [Requests \X Moves -> Nat]
      /\ attempts \in [Requests -> 0..MaxRetryAttempts] /\ MaxRetryAttempts = 3
  BY DEF Inv, FlowInv, PhaseInv, MaxRetryAttempts
<1> SUFFICES ASSUME NEW i \in Requests, NEW op \in Moves
             PROVE  rejected[<<i, op>>] <= 3
  BY <1>1
<1>2. CASE Failing(i)
  <2>1. PICK m \in Under(Coordinator) : m.about = i /\ m.op \in Early
    BY <1>1, <1>2, UnderIs DEF Failing, Doing, Serves, Early, Actors
  <2>2. attempts[i] < 3
    BY <1>1, <2>1 DEF PhaseInv, PhaseOf, Fits
  <2> QED  BY <1>1, <2>2 DEF RejectInv, Truth
<1>3. CASE ~Failing(i)
  BY <1>1, <1>3 DEF RejectInv, Truth
<1> QED  BY <1>2, <1>3

-----------------------------------------------------------------------------
(* Types *)

(* Who fails is suspended, and no one else. *)
Leaves(a) == suspended' = suspended \/ suspended' = suspended \cup {a}

LEMMA EndsLeave ==
    ASSUME NEW a
    PROVE  /\ Throws(a) \/ (\E result : Returns(a, result)) => Leaves(a)
           /\ PassesOn(a) \/ AwaitsHistory(a) => Leaves(a)
           /\ \A ops, result : SendsItself(a, ops, result) => Leaves(a)
           /\ \A b, op : Calls(a, b, op) => Leaves(a)
  BY DEF Throws, Returns, PassesOn, AwaitsHistory, SendsItself, Calls, Leaves

LEMMA TurnsLeave ==
    ASSUME NEW a \in Actors, TurnOf(a)
    PROVE  Leaves(a)
<1>1. CASE a = Teller /\ \E op \in Commands : TellerAsks(op) \/ TellerAnswers(op)
  BY <1>1, EndsLeave DEF TellerAsks, TellerAnswers
<1>2. CASE a = Bank /\ (BankSteps \/ BankBeginsToStop \/ BankStops)
  <2>1. CASE FindAccount("deposit") \/ FindAccount("withdraw") \/ BankBeginsToStop
    BY <1>2, <2>1, EndsLeave DEF FindAccount, BankBeginsToStop, Leaves
  <2>2. CASE \/ OpenAccount \/ AccountOpened
             \/ \E op \in {"deposit", "withdraw"} : AccountFound(op)
             \/ AccountSummary \/ TransactionHistory \/ AllAccounts
             \/ Transfer \/ TransferInitiated \/ PendingTransfers \/ BankAnswers
             \/ BankStops
    BY <1>2, <2>2, EndsLeave DEF OpenAccount, AccountOpened, AccountFound,
       AccountSummary, TransactionHistory, AllAccounts, Transfer, TransferInitiated,
       PendingTransfers, BankAnswers, BankStops
  <2> QED  BY <1>2, <2>1, <2>2 DEF BankSteps
<1>3. CASE a = Coordinator /\ CoordinatorSteps
  BY <1>3, EndsLeave DEF CoordinatorSteps, RegisterAccount, InitiateTransfer,
     Withdrawn, RecordPendingTransfer, AttemptDeposit, Deposited, HandleDepositFailure,
     ProcessRefund, Refunded, CompleteTransfer, GetPendingTransfers
<1>4. CASE a \in Accounts /\ (AccountSteps(a) \/ HistorySettles(a))
  BY <1>4, EndsLeave DEF AccountSteps, Deposit, Withdraw, Refund, GetInfo, GetHistory,
     HistorySettles, HistoryAnswers, HistoryRejects
<1>5. CASE Stops(a)
  BY <1>5, EndsLeave DEF Stops
<1> QED  BY <1>1, <1>2, <1>3, <1>4, <1>5 DEF TurnOf

(* Only actors are suspended or told to stop. *)
EndInv == suspended \subseteq Actors /\ told \subseteq Actors

LEMMA EndInvKeeps ==
    ASSUME EndInv, [Next]_vars
    PROVE  EndInv'
<1>1. suspended' \subseteq Actors
  <2>1. CASE Still
    BY <2>1 DEF EndInv, Still, CloseStage, BankSupervisor, TransferSupervisor,
       AccountSupervisor, DecidesToResume, StageStops, ParentStops, SendsStop,
       OthersSchedule, RetryFires, ClientCalls, messageVars, vars
  <2>2. ASSUME NEW a \in Actors, TurnOf(a)
        PROVE  suspended' \subseteq Actors
    BY <2>2, TurnsLeave DEF Leaves, EndInv
  <2> QED  BY <2>1, <2>2, StepsAreTurns
<1>2. told' \subseteq Actors
  <2>1. told' = told \/ \E a \in Actors : told' = told \cup {a}
    <3>1. CASE Progress
      <4>1. BankSteps => told' = told
        BY DEF BankSteps, OpenAccount, AccountOpened, FindAccount, AccountFound,
           AccountSummary, TransactionHistory, AllAccounts, Transfer, TransferInitiated,
           PendingTransfers, BankAnswers, OnlyMessages, stageVars
      <4>2. CoordinatorSteps => told' = told
        BY DEF CoordinatorSteps, RegisterAccount, InitiateTransfer, Withdrawn,
           RecordPendingTransfer, AttemptDeposit, Deposited, HandleDepositFailure,
           ProcessRefund, Refunded, CompleteTransfer, GetPendingTransfers, OnlyMessages,
           stageVars
      <4> QED
        BY <3>1, <4>1, <4>2 DEF Progress, TellerAsks, TellerAnswers, AccountSteps,
           Deposit, Withdraw, Refund, GetInfo, GetHistory, BankSupervisor,
           TransferSupervisor, AccountSupervisor, DecidesToResume, RetryFires,
           OnlyMessages, stageVars
    <3>2. CASE \/ \E i \in Requests : ClientCalls(i)
               \/ \E a \in Accounts : HistorySettles(a)
               \/ CloseStage \/ BankBeginsToStop \/ BankStops
               \/ \E a \in Actors : StageStops(a) \/ ParentStops(a) \/ Stops(a)
               \/ \E t \in Others : OthersSchedule(t)
               \/ UNCHANGED vars
      BY <3>2 DEF ClientCalls, HistorySettles, HistoryAnswers, HistoryRejects, CloseStage,
         BankBeginsToStop, BankStops, StageStops, ParentStops, Stops, OthersSchedule,
         OnlyMessages, stageVars, vars
    <3> QED  BY <3>1, <3>2 DEF Next
  <2> QED  BY <2>1 DEF EndInv
<1> QED  BY <1>1, <1>2 DEF EndInv

LEMMA SchedulerTypes ==
    ASSUME SchedulerTypeOK, [SchedulerStep]_schedulerVars
    PROVE  SchedulerTypeOK'
<1>1. Repeated \subseteq Tasks
  BY TasksAssumption
<1>2. CASE UNCHANGED schedulerVars
  BY <1>2 DEF schedulerVars, SchedulerTypeOK
<1>3. ASSUME NEW t \in Tasks,
             \/ \E delayed \in BOOLEAN : Schedule(t, delayed)
             \/ ScheduleOnce(t) \/ Cancel(t) \/ CloseScheduler
      PROVE  SchedulerTypeOK'
  BY <1>1, <1>3 DEF Schedule, ScheduleOnce, Cancel, CloseScheduler, SchedulerTypeOK
<1>4. ASSUME NEW t \in Tasks, NEW e \in Effects,
             OnceFires(t, e) \/ FirstFires(t, e) \/ IntervalFires(t, e)
      PROVE  SchedulerTypeOK'
  <2>1. CancelledBy(t, e) \subseteq Tasks
    BY DEF CancelledBy, SchedulerTypeOK
  <2>2. schedulerClosed' \in BOOLEAN /\ cancelled' \subseteq Tasks
    BY <1>4, <2>1 DEF OnceFires, FirstFires, IntervalFires, CallbackRuns, SchedulerTypeOK
  <2>3. /\ timeouts' \subseteq timeouts /\ intervals' \subseteq intervals \cup {t}
        /\ tasks' \subseteq tasks /\ leaked' \subseteq leaked \cup {t}
        /\ t \notin Repeated => intervals' \subseteq intervals /\ leaked' \subseteq leaked
    BY <1>4 DEF OnceFires, FirstFires, IntervalFires, SchedulerTypeOK
  <2> QED  BY <2>2, <2>3 DEF SchedulerTypeOK
<1> QED  BY <1>2, <1>3, <1>4 DEF SchedulerStep

LEMMA ProtocolsKept ==
    ASSUME MailInv, NEW a \in Actors, NEW m \in Under(a)
    PROVE  m.op \in Protocol(a) \cup {"stop"}
<1>1. /\ Teller # Bank /\ Teller # Coordinator /\ Bank # Coordinator
      /\ a \in Accounts => a \notin {Teller, Bank, Coordinator}
  BY ActorNames DEF Callers
<1>2. Proper(a, m)
  BY DEF MailInv
<1>3. m.about \in DOMAIN workload.commands => Command(m.about).command \in Commands
  BY CommandTypes
<1> QED
  BY <1>1, <1>2, <1>3 DEF Proper, Protocol, TellerProtocol, BankProtocol,
     CoordinatorProtocol, SelfSent

(* What the types need besides the books. *)
TypesInv == AnswerInv /\ OpenedInv /\ RejectInv /\ EndInv /\ SchedulerTypeOK

LEMMA InitTypes == Init => TypesInv
<1> SUFFICES ASSUME Init  PROVE TypesInv
  OBVIOUS
<1>1. /\ answer = [a \in Actors |-> "none"] /\ suspended = {} /\ told = {}
      /\ outcome = [i \in Requests |-> "unsent"] /\ balance = <<>>
      /\ rejected = [r \in Requests \X Moves |-> 0]
  BY DEF Init, StageInit, BankInit
<1>2. MailInv
  BY InitInv DEF Inv
<1>3. AnswerInv /\ RejectInv /\ EndInv
  BY <1>1 DEF AnswerInv, RejectInv, EndInv
<1>4. OpenedInv
  <2>1. Opened \subseteq DOMAIN workload.commands /\ IsFiniteSet(DOMAIN workload.commands)
    BY <1>2, RequestsAre DEF Opened
  <2>2. Cardinality(Opened) \in Nat
    BY <2>1, FS_Subset, FS_CardinalityType
  <2> QED  BY <1>1, <2>2 DEF OpenedInv
<1>5. SchedulerTypeOK
  BY DEF Init, SchedulerInit, SchedulerTypeOK
<1> QED  BY <1>3, <1>4, <1>5 DEF TypesInv

LEMMA TypesHold ==
    ASSUME Inv, FlowInv, BooksInv, TypesInv
    PROVE  TypeOK
<1>1. /\ MailInv /\ MoneyInv /\ PhaseInv /\ ClosedInv /\ OpenedInv /\ AnswerInv
      /\ EndInv /\ SchedulerTypeOK
  BY DEF Inv, BooksInv, TypesInv
<1>2. collaborators \subseteq {Coordinator} \cup Accounts
  BY <1>1, OpenedAccounts DEF MoneyInv
<1>3. rejected \in [Requests \X Moves -> 0..MaxRetryAttempts]
  BY RejectedBounds DEF BooksInv, TypesInv
<1>4. \A a \in Actors : \A m \in Under(a) : m.op \in Protocol(a) \cup {"stop"}
  BY <1>1, ProtocolsKept
<1>5. /\ workload \in Workloads /\ own \in [Actors -> Requests \cup {0}]
      /\ answer \in [Actors -> Results \cup {"none", "pending", "found"}]
  BY <1>1 DEF MailInv, Answers
<1>6. /\ registered \subseteq DOMAIN balance /\ initial \in Seq(Nat)
      /\ balance \in Seq(Nat) /\ Len(initial) = Len(balance)
  BY <1>1 DEF MoneyInv
<1>7. /\ pending \subseteq Requests /\ status \in [Requests -> TransferStatus \cup {"none"}]
      /\ attempts \in [Requests -> 0..MaxRetryAttempts]
  BY <1>1 DEF FlowInv, PhaseInv
<1>8. /\ closed \subseteq Actors /\ told \subseteq Actors /\ suspended \subseteq Actors
      /\ outcome \in [Requests -> Results \cup {"unsent", "pending"}]
  BY <1>1 DEF ClosedInv, EndInv, AnswerInv
<1> QED  BY <1>1, <1>2, <1>3, <1>4, <1>5, <1>6, <1>7, <1>8 DEF TypeOK

(* The state of the bank keeps its types: whoever fails, retries, stops or   *)
(* overtakes whom, actors get only messages of their protocols, what only    *)
(* the bank says to itself is told to nobody, no balance is negative, there  *)
(* are no more accounts than commands that open one, no transfer counts more *)
(* attempts than it may make, and no record is rejected more often than it   *)
(* was written: a deposit of a transfer once for each attempt, everything    *)
(* else once.                                                                *)
THEOREM TypeCorrect == Spec => []TypeOK
<1>1. Init => Inv /\ FlowInv /\ BooksInv /\ TypesInv
  BY InitInv, InitFlow, InitBooks, InitTypes
<1>2. Inv /\ FlowInv /\ BooksInv /\ TypesInv /\ [Next]_vars
          => (Inv /\ FlowInv /\ BooksInv /\ TypesInv)'
  <2> SUFFICES ASSUME Inv, FlowInv, BooksInv, TypesInv, [Next]_vars
               PROVE  (Inv /\ FlowInv /\ BooksInv /\ TypesInv)'
    OBVIOUS
  <2>1. Inv' /\ FlowInv' /\ BooksInv'
    BY BooksStay
  <2>2. MailInv /\ CallInv /\ workload' = workload /\ PhaseInv /\ AddressInv
    BY SmallTypes DEF Inv, BooksInv
  <2>3. AnswerInv' /\ OpenedInv' /\ RejectInv'
    BY <2>1, <2>2, AnswerInvKeeps, OpenedInvKeeps, RejectInvKeeps DEF TypesInv
  <2>4. EndInv' /\ SchedulerTypeOK'
    BY NextIsSchedulerStep, EndInvKeeps, SchedulerTypes DEF TypesInv
  <2> QED  BY <2>1, <2>3, <2>4 DEF TypesInv
<1>3. Inv /\ FlowInv /\ BooksInv /\ TypesInv => TypeOK
  BY TypesHold
<1> QED  BY <1>1, <1>2, <1>3, PTL DEF Spec
=============================================================================
