---------------------------- MODULE BankExample ----------------------------
(***************************************************************************)
(* The bank example: a command line that gives one command after the       *)
(* other to a teller, the bank, its coordinator of transfers, and the      *)
(* accounts; the execution contexts that travel with their messages; the   *)
(* supervisors, which resume whoever failed; the retries on the scheduler  *)
(* of the stage, which others use too; and the end of the stage.           *)
(*                                                                         *)
(* A handler runs from await to await in one step.  A mailbox is a queue   *)
(* whose delivery is a step of its own (see ArrayMailbox for its loop).    *)
(* The histories are any TransactionHistory: they answer, reject, or do    *)
(* neither.                                                                *)
(***************************************************************************)
EXTENDS Scheduler, Integers, Sequences, FiniteSetsExt, SequencesExt

CONSTANTS Teller, Bank, Coordinator,
          Client, Nobody,    \* who awaits the answer to a message, if no actor
          NaN,               \* what parseFloat() makes of no number
          Workloads          \* what users do, of which Init takes one

(* Accounts are numbered as they are opened, requests as they are made; 0    *)
(* stands for a blank account number and for an empty execution context.     *)
Requests == 1..Max({Len(w.commands) : w \in Workloads})
Accounts == 1..Max({Cardinality({i \in DOMAIN w.commands :
                        w.commands[i].command = "openAccount"}) : w \in Workloads})
Actors == {Teller, Bank, Coordinator} \cup Accounts
Others == Tasks \ Requests
Moves == {"deposit", "withdraw", "refund"}
HistoryOps == Moves \cup {"getHistory"}

(* The protocols, as far as they are used. *)
Queries == {"accountSummary", "transactionHistory"}
Formatted == Queries \cup {"allAccounts", "pendingTransfers"}
Commands == Formatted \cup {"openAccount", "deposit", "withdraw", "transfer"}

ASSUME BankAssumption ==
    /\ Requests \subseteq Tasks \ Repeated
    /\ IsFiniteSet(Workloads)
    /\ \A w \in Workloads :
          w.commands \in Seq([command : Commands, account : Nat, to : Nat,
                              amount : Int \cup {NaN}])
    /\ NaN \notin Int

(* Nobody of the bank is anybody else, and accounts go by numbers. *)
ASSUME NamesAssumption ==
    /\ Teller \notin {Bank, Coordinator, Client, Nobody}
    /\ Bank \notin {Coordinator, Client, Nobody}
    /\ Coordinator \notin {Client, Nobody} /\ Client # Nobody
    /\ {Teller, Bank, Coordinator, Client, Nobody} \cap Nat = {}

TellerProtocol == Commands
BankProtocol == Commands
TransferOps == {"attemptDeposit", "handleDepositFailure", "processRefund",
                "completeTransfer"}
CoordinatorProtocol == TransferOps \cup
    {"registerAccount", "initiateTransfer", "recordPendingTransfer",
     "getPendingTransfers"}
AccountProtocol == Moves \cup {"getInfo", "getHistory"}
Protocol(a) == CASE a = Teller -> TellerProtocol
                 [] a = Bank -> BankProtocol
                 [] a = Coordinator -> CoordinatorProtocol
                 [] OTHER -> AccountProtocol

TransferStatus == {"withdrawn", "completed", "failed-deposit", "refunded"}

VARIABLES
    workload,
    queue, suspended, handling,    \* mailboxes, and the message being handled
    answer,        \* the state of the promise each handler awaits
    own,           \* the execution context of each actor
    outcome,       \* what the command line was told of each request
    collaborators, \* of the bank
    infos,         \* the answers allAccounts() has collected
    initial, balance,             \* of the accounts, in the order of opening
    registered,                   \* the accounts the coordinator knows
    pending, status, attempts,    \* the transfers of the coordinator
    closed, closing, told,        \* the end of the stage
    rejected, refused             \* history: records that histories rejected,
                                  \* and calls of closed actors

messageVars == <<queue, suspended, handling, answer, outcome, refused>>
moneyVars == <<initial, balance, rejected>>
bankVars == <<collaborators, infos>>
transferVars == <<registered, pending, status, attempts>>
stageVars == <<workload, closed, closing, told>>
vars == <<messageVars, own, moneyVars, bankVars, transferVars, stageVars,
          schedulerVars>>

(* What leaves the state of the actors themselves alone. *)
OnlyMessages == UNCHANGED <<moneyVars, bankVars, transferVars, stageVars,
                            schedulerVars>>

None == [op |-> "none"]
Results == {"value", "nothing", "failure", "refusal", "error"}

(* The command line creates the bank and a teller that collaborates with it. *)
StageInit ==
    /\ workload \in Workloads
    /\ queue = [a \in Actors |-> <<>>] /\ suspended = {}
    /\ handling = [a \in Actors |-> None]
    /\ answer = [a \in Actors |-> "none"]
    /\ own = [a \in Actors |-> 0]
    /\ outcome = [i \in Requests |-> "unsent"]
    /\ closed = {} /\ closing = FALSE /\ told = {}

(* The bank creates the coordinator before it starts. *)
BankInit ==
    /\ collaborators = {Coordinator} /\ infos = <<>>
    /\ initial = <<>> /\ balance = <<>>

CoordinatorInit ==
    /\ registered = {} /\ pending = {}
    /\ status = [i \in Requests |-> "none"]
    /\ attempts = [i \in Requests |-> 0]

Init == /\ StageInit /\ BankInit /\ CoordinatorInit /\ SchedulerInit
        /\ rejected = [r \in Requests \X Moves |-> 0] /\ refused = {}

Command(i) == workload.commands[i]
IsValid(amount) == amount # NaN /\ amount >= 0
Exists(n) == n \in DOMAIN balance

-----------------------------------------------------------------------------
(* Messages *)

(* Whom a copy of the context of b, unless it is empty, propagates to. *)
Spread(b, context) == IF context = 0 THEN {}
                      ELSE CASE b = Teller -> {Bank}
                             [] b = Bank -> collaborators
                             [] OTHER -> {}

(* A call of the proxy of actor b. *)
Message(b, op, i, reply, context) ==
    [op |-> op, about |-> i, reply |-> reply, context |-> context,
     spread |-> Spread(b, context)]

(* The message an actor is at, and the queues without it. *)
Current(a) == IF handling[a] = None THEN Head(queue[a]) ELSE handling[a]
Rest(a) == IF handling[a] = None THEN [queue EXCEPT ![a] = Tail(@)] ELSE queue
About(a) == Current(a).about

(* The context of the message becomes that of its collaborators. *)
Propagates(m) ==
    own' = [b \in Actors |-> IF b \in m.spread THEN m.context ELSE own[b]]

Begins(a, op) ==
    /\ a \notin closed \cup suspended /\ handling[a] = None
    /\ queue[a] # <<>> /\ Head(queue[a]).op = op
    /\ Propagates(Head(queue[a]))

Resumes(a, ops) ==
    /\ handling[a].op \in ops /\ answer[a] \notin {"none", "pending"}
    /\ UNCHANGED own

(* The handler of a awaits what op of b will answer; that a closed mailbox   *)
(* refuses the call is an answer too.                                        *)
Calls(a, b, op) ==
    LET m == Current(a)
    IN  /\ handling' = [handling EXCEPT ![a] = m]
        /\ \/ /\ b \notin closed
              /\ queue' = [Rest(a) EXCEPT ![b] =
                              Append(@, Message(b, op, m.about, a, own'[b]))]
              /\ answer' = [answer EXCEPT ![a] = "pending"]
              /\ UNCHANGED refused
           \/ /\ b \in closed
              /\ queue' = Rest(a)
              /\ answer' = [answer EXCEPT ![a] = "refusal"]
              /\ refused' = refused \cup {<<m.about, op>>}
        /\ UNCHANGED <<suspended, outcome>>

(* The end of a handler: whoever awaits it is told. *)
Ends(a, result) ==
    LET m == Current(a)
    IN  /\ handling' = [handling EXCEPT ![a] = None]
        /\ answer' = [b \in Actors |-> IF b = m.reply THEN result
                                      ELSE IF b = a THEN "none" ELSE answer[b]]
        /\ outcome' = IF m.reply = Client
                      THEN [outcome EXCEPT ![m.about] = result] ELSE outcome
        /\ UNCHANGED refused

Returns(a, result) ==
    /\ Ends(a, result)
    /\ queue' = Rest(a)
    /\ UNCHANGED suspended

(* An error rejects the promise of the message and suspends the mailbox. *)
Throws(a) ==
    /\ Ends(a, "error")
    /\ queue' = Rest(a)
    /\ suspended' = suspended \cup {a}

(* The handler sends its actor the next messages about the same request,     *)
(* and returns.                                                              *)
SendsItself(a, ops, result) ==
    /\ Ends(a, result)
    /\ queue' = [Rest(a) EXCEPT ![a] = @ \o [k \in DOMAIN ops |->
                     Message(a, ops[k], About(a), Nobody, own'[a])]]
    /\ UNCHANGED suspended

(* What the promise was settled with is the answer of the handler itself. *)
PassesOn(a) == IF answer[a] = "error" THEN Throws(a) ELSE Returns(a, answer[a])

(* Mutation of BankSupervisor: it does not resume. *)
BankSupervisorOnly(a) == a \in {Teller, Bank} \cap suspended /\ UNCHANGED vars

(* The supervisors explain the failure and always decide to resume. *)
DecidesToResume(a) ==
    /\ a \in suspended
    /\ suspended' = suspended \ {a}
    /\ UNCHANGED <<queue, handling, answer, outcome, refused, own>> /\ OnlyMessages

BankSupervisor(a) == a \in {Teller, Bank} /\ DecidesToResume(a)

TransferSupervisor(a) == a = Coordinator /\ DecidesToResume(a)

AccountSupervisor(a) == a \in Accounts /\ DecidesToResume(a)

-----------------------------------------------------------------------------
(* The command line *)

(* One command after the other, each when the one before was answered. *)
Chooses(i) ==
    /\ ~closing /\ i <= Len(workload.commands) /\ outcome[i] = "unsent"
    /\ \A j \in 1..i - 1 : outcome[j] \notin {"unsent", "pending"}

(* The context of the teller is reset and holds the request. *)
LaysContext(i) == own' = [own EXCEPT ![Teller] = i]

ClientCalls(i) ==
    /\ Chooses(i)
    /\ LaysContext(i)
    /\ queue' = [queue EXCEPT ![Teller] = Append(@,
                     Message(Teller, Command(i).command, i, Client, i))]
    /\ outcome' = [outcome EXCEPT ![i] = "pending"]
    /\ UNCHANGED <<suspended, handling, answer, refused>> /\ OnlyMessages

-----------------------------------------------------------------------------
(* TellerActor *)

(* A query of a blank account, or with a limit that is no number, fails. *)
TellerAsks(op) ==
    /\ Begins(Teller, op)
    /\ IF op \in Queries /\ LET c == Command(About(Teller))
                            IN  c.account = 0 \/ c.amount = NaN
       THEN Throws(Teller)
       ELSE Calls(Teller, Bank, op)
    /\ OnlyMessages

(* What is to be formatted is read: an answer that has no fields fails.  The *)
(* number of an account is printed, whatever it is.                          *)
TellerAnswers(op) ==
    /\ Resumes(Teller, {op})
    /\ CASE op \in Formatted /\ answer[Teller] # "value" -> Throws(Teller)
         [] op = "openAccount" /\ answer[Teller] = "refusal" ->
                Returns(Teller, "value")
         [] OTHER -> PassesOn(Teller)
    /\ OnlyMessages

-----------------------------------------------------------------------------
(* BankActor *)

NumberOf(i) == Command(i).account

Collaborates(n) == collaborators' = collaborators \cup {n}

(* Mutation of OpenAccount: the account is no collaborator of the bank. *)
OpenAccountApart ==
    /\ Begins(Bank, "openAccount")
    /\ LET amount == Command(About(Bank)).amount
       IN  IF IsValid(amount)
           THEN /\ initial' = Append(initial, amount)
                /\ balance' = Append(balance, amount)
                /\ Calls(Bank, Coordinator, "registerAccount")
           ELSE Throws(Bank) /\ UNCHANGED <<initial, balance>>
    /\ UNCHANGED <<collaborators, rejected, infos, transferVars, stageVars,
                   schedulerVars>>

OpenAccount ==
    /\ Begins(Bank, "openAccount")
    /\ LET amount == Command(About(Bank)).amount
       IN  IF IsValid(amount)
           THEN /\ initial' = Append(initial, amount)
                /\ balance' = Append(balance, amount)
                /\ Collaborates(Len(balance'))
                /\ Calls(Bank, Coordinator, "registerAccount")
           ELSE Throws(Bank) /\ UNCHANGED <<initial, balance, collaborators>>
    /\ UNCHANGED <<rejected, infos, transferVars, stageVars, schedulerVars>>

AccountOpened ==
    /\ Resumes(Bank, {"openAccount"})
    /\ Returns(Bank, "value")
    /\ OnlyMessages

(* deposit() and withdraw() await account() of the bank itself. *)
FindAccount(op) ==
    /\ op \in {"deposit", "withdraw"}
    /\ Begins(Bank, op)
    /\ IF Command(About(Bank)).amount = NaN \/ NumberOf(About(Bank)) = 0
       THEN Throws(Bank)
       ELSE /\ handling' = [handling EXCEPT ![Bank] = Current(Bank)]
            /\ queue' = Rest(Bank)
            /\ answer' = [answer EXCEPT ![Bank] = "found"]
            /\ UNCHANGED <<suspended, outcome, refused>>
    /\ OnlyMessages

AccountFound(op) ==
    /\ Resumes(Bank, {op}) /\ answer[Bank] = "found"
    /\ IF Exists(NumberOf(About(Bank)))
       THEN Calls(Bank, NumberOf(About(Bank)), op)
       ELSE Throws(Bank)
    /\ OnlyMessages

AccountSummary ==
    /\ Begins(Bank, "accountSummary")
    /\ IF Exists(NumberOf(About(Bank)))
       THEN Calls(Bank, NumberOf(About(Bank)), "getInfo")
       ELSE Returns(Bank, "nothing")
    /\ OnlyMessages

TransactionHistory ==
    /\ Begins(Bank, "transactionHistory")
    /\ IF Exists(NumberOf(About(Bank)))
       THEN Calls(Bank, NumberOf(About(Bank)), "getHistory")
       ELSE Throws(Bank)
    /\ OnlyMessages

(* One account after the other; the list holds whatever they answered. *)
AllAccounts ==
    /\ \/ Begins(Bank, "allAccounts") /\ infos' = <<>>
       \/ Resumes(Bank, {"allAccounts"}) /\ infos' = Append(infos, answer[Bank])
    /\ IF Len(infos') < Len(balance)
       THEN Calls(Bank, Len(infos') + 1, "getInfo")
       ELSE Returns(Bank, IF "refusal" \in ToSet(infos') THEN "refusal" ELSE "value")
    /\ UNCHANGED <<collaborators, moneyVars, transferVars, stageVars,
                   schedulerVars>>

Transfer ==
    /\ Begins(Bank, "transfer")
    /\ LET c == Command(About(Bank))
       IN  IF c.amount = NaN \/ c.account = 0 \/ c.to = 0
           THEN Throws(Bank)
           ELSE Calls(Bank, Coordinator, "initiateTransfer")
    /\ OnlyMessages

(* An error becomes the result {success: false}. *)
TransferInitiated ==
    /\ Resumes(Bank, {"transfer"})
    /\ Returns(Bank, IF answer[Bank] = "error" THEN "failure" ELSE "value")
    /\ OnlyMessages

PendingTransfers ==
    /\ Begins(Bank, "pendingTransfers")
    /\ Calls(Bank, Coordinator, "getPendingTransfers")
    /\ OnlyMessages

BankAnswers ==
    /\ Resumes(Bank, Queries \cup {"deposit", "withdraw", "pendingTransfers"})
    /\ answer[Bank] # "found"
    /\ PassesOn(Bank)
    /\ OnlyMessages

-----------------------------------------------------------------------------
(* TransferCoordinatorActor; a transfer goes by the number of its request.   *)

TransferOf(i) == [from |-> Command(i).account, to |-> Command(i).to,
                  amount |-> Command(i).amount]

(* The account is the one that the bank has just opened. *)
RegisterAccount ==
    /\ Begins(Coordinator, "registerAccount")
    /\ registered' = registered \cup {Len(balance)}
    /\ Returns(Coordinator, "value")
    /\ UNCHANGED <<pending, status, attempts, moneyVars, bankVars, stageVars,
                   schedulerVars>>

InitiateTransfer ==
    /\ Begins(Coordinator, "initiateTransfer")
    /\ LET t == TransferOf(About(Coordinator))
       IN  IF IsValid(t.amount) /\ {t.from, t.to} \subseteq registered
                                /\ t.from # t.to
           THEN Calls(Coordinator, t.from, "withdraw")
           ELSE Throws(Coordinator)
    /\ OnlyMessages

(* Anything but an error, the refusal of a stopped account too, is taken for *)
(* a withdrawal.                                                             *)
Withdrawn ==
    /\ Resumes(Coordinator, {"initiateTransfer"})
    /\ IF answer[Coordinator] = "error"
       THEN Throws(Coordinator)
       ELSE SendsItself(Coordinator, <<"recordPendingTransfer", "attemptDeposit">>,
                        "value")
    /\ OnlyMessages

RecordPendingTransfer ==
    /\ Begins(Coordinator, "recordPendingTransfer")
    /\ pending' = pending \cup {About(Coordinator)}
    /\ status' = [status EXCEPT ![About(Coordinator)] = "withdrawn"]
    /\ Returns(Coordinator, "value")
    /\ UNCHANGED <<registered, attempts, moneyVars, bankVars, stageVars,
                   schedulerVars>>

(* Registered accounts are never forgotten: the account is there. *)
AttemptDeposit ==
    /\ Begins(Coordinator, "attemptDeposit")
    /\ IF About(Coordinator) \in pending
       THEN Calls(Coordinator, TransferOf(About(Coordinator)).to, "deposit")
       ELSE Returns(Coordinator, "value")
    /\ OnlyMessages

(* Mutation of Deposited: a failed deposit is tried again at once as well. *)
DepositedOrAgain ==
    /\ Resumes(Coordinator, {"attemptDeposit"})
    /\ SendsItself(Coordinator, IF answer[Coordinator] = "error"
                                THEN <<"handleDepositFailure", "attemptDeposit">>
                                ELSE <<"completeTransfer">>, "value")
    /\ OnlyMessages

Deposited ==
    /\ Resumes(Coordinator, {"attemptDeposit"})
    /\ SendsItself(Coordinator, IF answer[Coordinator] = "error"
                                THEN <<"handleDepositFailure">>
                                ELSE <<"completeTransfer">>, "value")
    /\ OnlyMessages

MaxRetryAttempts == 3

(* A retry is scheduled, which a closed scheduler refuses, or the transfer   *)
(* is given up.                                                              *)
HandleDepositFailure ==
    LET i == About(Coordinator)
    IN  /\ Begins(Coordinator, "handleDepositFailure")
        /\ attempts' = IF i \in pending THEN [attempts EXCEPT ![i] = @ + 1]
                       ELSE attempts
        /\ IF i \notin pending
           THEN /\ Returns(Coordinator, "value")
                /\ UNCHANGED <<status, schedulerVars>>
           ELSE IF attempts'[i] >= MaxRetryAttempts
           THEN /\ status' = [status EXCEPT ![i] = "failed-deposit"]
                /\ SendsItself(Coordinator, <<"processRefund">>, "value")
                /\ UNCHANGED schedulerVars
           ELSE IF schedulerClosed
           THEN /\ Throws(Coordinator)
                /\ UNCHANGED <<status, schedulerVars>>
           ELSE /\ ScheduleOnce(i)
                /\ Returns(Coordinator, "value")
                /\ UNCHANGED status
        /\ UNCHANGED <<registered, pending, moneyVars, bankVars, stageVars>>

(* Mutation of ProcessRefund: only a first attempt is refunded. *)
ProcessFirstRefund ==
    /\ Begins(Coordinator, "processRefund")
    /\ IF attempts[About(Coordinator)] = 1
       THEN Calls(Coordinator, TransferOf(About(Coordinator)).from, "refund")
       ELSE Returns(Coordinator, "value")
    /\ OnlyMessages

ProcessRefund ==
    /\ Begins(Coordinator, "processRefund")
    /\ IF About(Coordinator) \in pending
       THEN Calls(Coordinator, TransferOf(About(Coordinator)).from, "refund")
       ELSE Returns(Coordinator, "value")
    /\ OnlyMessages

Refunded ==
    /\ Resumes(Coordinator, {"processRefund"})
    /\ IF answer[Coordinator] = "error"
       THEN Throws(Coordinator) /\ UNCHANGED status
       ELSE /\ status' = [status EXCEPT ![About(Coordinator)] = "refunded"]
            /\ SendsItself(Coordinator, <<"completeTransfer">>, "value")
    /\ UNCHANGED <<registered, pending, attempts, moneyVars, bankVars, stageVars,
                   schedulerVars>>

(* Mutation of CompleteTransfer: a refund is a completion as well. *)
CompleteRefunded ==
    LET i == About(Coordinator)
    IN  /\ Begins(Coordinator, "completeTransfer")
        /\ status' = [status EXCEPT ![i] = "completed"]
        /\ pending' = pending \ {i}
        /\ Returns(Coordinator, "value")
        /\ UNCHANGED <<registered, attempts, moneyVars, bankVars, stageVars,
                       schedulerVars>>

CompleteTransfer ==
    LET i == About(Coordinator)
    IN  /\ Begins(Coordinator, "completeTransfer")
        /\ status' = [status EXCEPT ![i] = IF i \in pending /\ @ = "withdrawn"
                                           THEN "completed" ELSE @]
        /\ pending' = pending \ {i}
        /\ Returns(Coordinator, "value")
        /\ UNCHANGED <<registered, attempts, moneyVars, bankVars, stageVars,
                       schedulerVars>>

GetPendingTransfers ==
    /\ Begins(Coordinator, "getPendingTransfers")
    /\ Returns(Coordinator, "value")
    /\ OnlyMessages

(* The callback of a retry. *)
RetryFires(i) ==
    /\ i \in Requests /\ OnceFires(i, "nothing")
    /\ queue' = IF Coordinator \in closed THEN queue
                ELSE [queue EXCEPT ![Coordinator] = Append(@,
                          Message(Coordinator, "attemptDeposit", i, Nobody,
                                  own[Coordinator]))]
    /\ UNCHANGED <<suspended, handling, answer, outcome, refused, own, moneyVars,
                   bankVars, transferVars, stageVars>>

-----------------------------------------------------------------------------
(* AccountActor: the balance changes before the record is awaited. *)

(* The handler goes on when the history has answered. *)
AwaitsHistory(a) ==
    /\ handling' = [handling EXCEPT ![a] = Current(a)]
    /\ queue' = Rest(a)
    /\ answer' = [answer EXCEPT ![a] = "pending"]
    /\ UNCHANGED <<suspended, outcome, refused>>

AmountOf(a) == Command(About(a)).amount

Deposit(a) ==
    /\ Begins(a, "deposit")
    /\ IF IsValid(AmountOf(a))
       THEN /\ balance' = [balance EXCEPT ![a] = @ + AmountOf(a)]
            /\ AwaitsHistory(a)
       ELSE Throws(a) /\ UNCHANGED balance
    /\ UNCHANGED <<initial, rejected, bankVars, transferVars, stageVars,
                   schedulerVars>>

(* Mutation of Withdraw: the balance is not looked at. *)
WithdrawAnyway(a) ==
    /\ Begins(a, "withdraw")
    /\ IF IsValid(AmountOf(a))
       THEN /\ balance' = [balance EXCEPT ![a] = @ - AmountOf(a)]
            /\ AwaitsHistory(a)
       ELSE Throws(a) /\ UNCHANGED balance
    /\ UNCHANGED <<initial, rejected, bankVars, transferVars, stageVars,
                   schedulerVars>>

Withdraw(a) ==
    /\ Begins(a, "withdraw")
    /\ IF IsValid(AmountOf(a)) /\ AmountOf(a) <= balance[a]
       THEN /\ balance' = [balance EXCEPT ![a] = @ - AmountOf(a)]
            /\ AwaitsHistory(a)
       ELSE Throws(a) /\ UNCHANGED balance
    /\ UNCHANGED <<initial, rejected, bankVars, transferVars, stageVars,
                   schedulerVars>>

Refund(a) ==
    /\ Begins(a, "refund")
    /\ balance' = [balance EXCEPT ![a] = @ + AmountOf(a)]
    /\ AwaitsHistory(a)
    /\ UNCHANGED <<initial, rejected, bankVars, transferVars, stageVars,
                   schedulerVars>>

GetInfo(a) ==
    /\ Begins(a, "getInfo")
    /\ Returns(a, "value")
    /\ OnlyMessages

GetHistory(a) ==
    /\ Begins(a, "getHistory")
    /\ AwaitsHistory(a)
    /\ OnlyMessages

(* The TransactionHistory of the account. *)
HistoryAnswers(a) ==
    /\ handling[a].op \in HistoryOps
    /\ Returns(a, "value")
    /\ UNCHANGED <<own, moneyVars, bankVars, transferVars, stageVars,
                   schedulerVars>>

HistoryRejects(a) ==
    /\ handling[a].op \in HistoryOps
    /\ Throws(a)
    /\ rejected' = IF handling[a].op \in Moves
                   THEN [rejected EXCEPT ![<<About(a), handling[a].op>>] = @ + 1]
                   ELSE rejected
    /\ UNCHANGED <<own, initial, balance, bankVars, transferVars, stageVars,
                   schedulerVars>>

-----------------------------------------------------------------------------
(* The end, at the choice of the user or by an interrupt at any time.        *)
(* LocalStage.close() tells one actor after the other to stop, and the bank  *)
(* tells its children; see ActorTree for what stop() does.                   *)

Children == {Coordinator} \cup DOMAIN balance

CloseStage ==
    /\ workload.mayClose /\ ~closing
    /\ closing' = TRUE
    /\ UNCHANGED <<workload, closed, told, messageVars, own, moneyVars, bankVars,
                   transferVars, schedulerVars>>

SendsStop(a) ==
    /\ queue' = [queue EXCEPT ![a] =
                    Append(@, Message(a, "stop", 0, Nobody, own[a]))]
    /\ UNCHANGED <<suspended, handling, answer, outcome, refused, own, moneyVars,
                   bankVars, transferVars, schedulerVars>>

StageStops(a) ==
    /\ closing
    /\ a \in {Teller, Bank} \cup Children /\ a \notin told \cup closed
    /\ told \subseteq closed
    /\ told' = told \cup {a}
    /\ SendsStop(a)
    /\ UNCHANGED <<workload, closed, closing>>

ParentStops(a) ==
    /\ handling[Bank].op = "stop"
    /\ a \in Children \ closed
    /\ \A m \in ToSet(queue[a]) : m.op # "stop"
    /\ SendsStop(a)
    /\ UNCHANGED stageVars

Stops(a) ==
    /\ a # Bank
    /\ Begins(a, "stop")
    /\ closed' = closed \cup {a}
    /\ Returns(a, "value")
    /\ UNCHANGED <<workload, closing, told, moneyVars, bankVars, transferVars,
                   schedulerVars>>

BankBeginsToStop ==
    /\ Begins(Bank, "stop")
    /\ handling' = [handling EXCEPT ![Bank] = Current(Bank)]
    /\ queue' = Rest(Bank)
    /\ UNCHANGED <<suspended, answer, outcome, refused, moneyVars, bankVars,
                   transferVars, stageVars, schedulerVars>>

BankStops ==
    /\ handling[Bank].op = "stop" /\ Children \subseteq closed
    /\ closed' = closed \cup {Bank}
    /\ Returns(Bank, "value")
    /\ UNCHANGED <<workload, closing, told, own, moneyVars, bankVars,
                   transferVars, schedulerVars>>

-----------------------------------------------------------------------------
(* Whoever else uses the scheduler of the stage; anyone may close it. *)
OthersSchedule(t) ==
    /\ workload.others
    /\ t \in Others
    /\ \/ \E delayed \in BOOLEAN : Schedule(t, delayed)
       \/ ScheduleOnce(t)
       \/ Cancel(t)
       \/ CloseScheduler
       \/ \E e \in Effects :
              OnceFires(t, e) \/ FirstFires(t, e) \/ IntervalFires(t, e)
    /\ UNCHANGED <<messageVars, own, moneyVars, bankVars, transferVars,
                   stageVars>>

BankSteps == \/ OpenAccount \/ AccountOpened
             \/ \E op \in {"deposit", "withdraw"} :
                    FindAccount(op) \/ AccountFound(op)
             \/ AccountSummary \/ TransactionHistory \/ AllAccounts
             \/ Transfer \/ TransferInitiated \/ PendingTransfers \/ BankAnswers

CoordinatorSteps ==
    \/ RegisterAccount \/ InitiateTransfer \/ Withdrawn \/ RecordPendingTransfer
    \/ AttemptDeposit \/ Deposited \/ HandleDepositFailure \/ ProcessRefund
    \/ Refunded \/ CompleteTransfer \/ GetPendingTransfers

AccountSteps(a) ==
    Deposit(a) \/ Withdraw(a) \/ Refund(a) \/ GetInfo(a) \/ GetHistory(a)

(* What the actors, their supervisors and the timers of the retries do. *)
Progress == \/ \E op \in Commands : TellerAsks(op) \/ TellerAnswers(op)
            \/ BankSteps \/ CoordinatorSteps
            \/ \E a \in Accounts : AccountSteps(a)
            \/ \E a \in Actors : \/ BankSupervisor(a) \/ TransferSupervisor(a)
                                 \/ AccountSupervisor(a)
            \/ \E i \in Requests : RetryFires(i)

HistorySettles(a) == HistoryAnswers(a) \/ HistoryRejects(a)

Next == \/ Progress
        \/ \E i \in Requests : ClientCalls(i)
        \/ \E a \in Accounts : HistorySettles(a)
        \/ CloseStage \/ BankBeginsToStop \/ BankStops
        \/ \E a \in Actors : StageStops(a) \/ ParentStops(a) \/ Stops(a)
        \/ \E t \in Others : OthersSchedule(t)

Spec == Init /\ [][Next]_vars

(* Handlers go on, supervisors decide and timers fire.  No behaviour has     *)
(* infinitely many such steps, so that fairness of their disjunction is      *)
(* fairness of each.  Users, histories and the end of the stage owe nothing. *)
FairSpec == Spec /\ WF_vars(Progress)

-----------------------------------------------------------------------------
(* Properties *)

(* The messages of an actor. *)
Under(a) == (ToSet(queue[a]) \cup {handling[a]}) \ {None}

TypeOK ==
    /\ workload \in Workloads
    /\ \A a \in Actors : \A m \in Under(a) : m.op \in Protocol(a) \cup {"stop"}
    /\ suspended \subseteq Actors
    /\ answer \in [Actors -> Results \cup {"none", "pending", "found"}]
    /\ own \in [Actors -> Requests \cup {0}]
    /\ outcome \in [Requests -> Results \cup {"unsent", "pending"}]
    /\ collaborators \subseteq {Coordinator} \cup Accounts
    /\ registered \subseteq DOMAIN balance
    /\ initial \in Seq(Nat) /\ balance \in Seq(Nat)
    /\ Len(initial) = Len(balance)
    /\ pending \subseteq Requests
    /\ status \in [Requests -> TransferStatus \cup {"none"}]
    /\ attempts \in [Requests -> 0..MaxRetryAttempts]
    /\ closed \subseteq Actors /\ told \subseteq Actors
    /\ rejected \in [Requests \X Moves -> 0..MaxRetryAttempts]
    /\ SchedulerTypeOK

(* Nothing is queued, handled or scheduled any more, but in closed mailboxes. *)
Quiescent == /\ \A a \in Actors \ closed : Under(a) = {}
             /\ timeouts \cap Requests = {}

Truth(b) == IF b THEN 1 ELSE 0

(* By how many times its amount request i should have changed account a,     *)
(* going by what the user was told and by the state of the transfer; a       *)
(* deposited transfer may be completed only by a message that a stopped      *)
(* coordinator will not handle.                                              *)
Claimed(i, a) ==
    LET c == Command(i)
        done == Truth(outcome[i] = "value")
        completed == \/ status[i] = "completed"
                     \/ \E m \in ToSet(queue[Coordinator]) :
                            /\ m.op = "completeTransfer" /\ m.about = i
                            /\ status[i] = "withdrawn"
    IN  CASE c.command = "deposit" -> Truth(a = c.account) * done
          [] c.command = "withdraw" -> -Truth(a = c.account) * done
          [] c.command = "transfer" ->
                 Truth(a = c.account) * (Truth(status[i] = "refunded") - done)
                 + Truth(a = c.to) * Truth(completed)
          [] OTHER -> 0

(* A change whose record was rejected has taken place, although a failure    *)
(* was reported; a call of a stopped actor has not, although its 'actor      *)
(* stopped' was taken for success.                                           *)
Unclaimed(i, a) ==
    LET c == Command(i)
        Missed(ops) == Truth(\E op \in ops : <<i, op>> \in refused)
    IN  CASE c.command \in {"deposit", "withdraw"} ->
                 Truth(a = c.account)
                 * (rejected[<<i, "deposit">>] - rejected[<<i, "withdraw">>])
          [] c.command = "transfer" ->
                 Truth(a = c.account)
                 * (rejected[<<i, "refund">>] - rejected[<<i, "withdraw">>]
                    + Missed({"withdraw", "initiateTransfer"}) - Missed({"refund"}))
                 + Truth(a = c.to)
                   * (rejected[<<i, "deposit">>] - Missed({"deposit"}))
          [] OTHER -> 0

(* The books balance: when nothing is under way, the balance of every        *)
(* account differs from its opening balance by what the requests claim to    *)
(* have done, and the only differences are those that a rejected record or a *)
(* stopped account explains: each rejected attempt has credited the          *)
(* destination once more, each rejected withdrawal has taken the money.      *)
Books ==
    Quiescent =>
        \A a \in DOMAIN balance :
            balance[a] = initial[a] + MapThenSumSet(
                LAMBDA i : IF Claimed(i, a) + Unclaimed(i, a) = 0 THEN 0
                           ELSE Command(i).amount * (Claimed(i, a) + Unclaimed(i, a)),
                DOMAIN workload.commands)

(* What will move transfer i on: a message of the coordinator to itself, the *)
(* handler of one, or a retry.                                               *)
IsStep(m, i) == m.op \in TransferOps /\ m.about = i

NextSteps(i) ==
    Cardinality({k \in DOMAIN queue[Coordinator] : IsStep(queue[Coordinator][k], i)})
    + Truth(IsStep(handling[Coordinator], i))
    + Truth(i \in timeouts)

(* No transfer is forgotten and none is moved on twice: as long as it is     *)
(* pending there is exactly one next step, and afterwards none.  Stranded    *)
(* are those that met a closed scheduler or whose refund was rejected; of a  *)
(* stopped coordinator the retries go nowhere.                               *)
Stranded(i) == schedulerClosed \/ rejected[<<i, "refund">>] > 0

OneStepInFlight ==
    \A i \in Requests :
        /\ i \in pending /\ Coordinator \notin closed =>
               NextSteps(i) = 1 \/ (NextSteps(i) = 0 /\ Stranded(i))
        /\ status[i] \in {"completed", "refunded"} /\ i \notin pending =>
               NextSteps(i) = 0

(* Every message is delivered in the context of the request it serves, at    *)
(* least while the user awaits that request.  What a transfer does later may *)
(* run in the context of a later request, never of an earlier one or none.   *)
ContextOfRequest ==
    \A a \in Actors : \A m \in Under(a) : m.op # "stop" =>
        IF outcome[m.about] = "pending"
        THEN m.context = m.about
        ELSE m.context >= m.about

(* The histories answer or reject what they are asked. *)
HistoriesSettle == []<>(\A a \in Accounts : handling[a].op \notin HistoryOps)

(* If the histories settle their calls, every command is answered: a time    *)
(* comes, again and again, when none is pending, unless the stage is closed. *)
RequestsAnswered ==
    HistoriesSettle => []<>(closing \/ \A i \in Requests : outcome[i] # "pending")

(* And every transfer leaves the map of pending transfers, unless it is      *)
(* stranded or the stage is closed.                                          *)
TransfersSettle ==
    HistoriesSettle => []<>(closing \/ \A i \in pending : Stranded(i))
=============================================================================
