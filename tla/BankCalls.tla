------------------------------ MODULE BankCalls ------------------------------
(***************************************************************************)
(* The calls of the bank example, as parameters for AwaitedCalls: for each *)
(* message the actor it is for and the messages its handler sends.  The    *)
(* clients transfer from one account, `source`, to another, `destination`, *)
(* deposit into the destination, and ask for a balance.  A message that    *)
(* several handlers send has a name for each of them.                      *)
(***************************************************************************)
EXTENDS Sequences

(* BankActor awaits the account or the coordinator that it delegates to. *)
BankHandlers ==
    [transfer |-> <<"initiateTransfer">>,
     deposit |-> <<"accountDeposit">>,
     accountBalance |-> <<"getBalance">>]

(* The coordinator awaits the withdrawal, and sends itself the next steps. *)
CoordinatorHandlers ==
    [initiateTransfer |-> <<"withdraw", "recordPendingTransfer", "attemptDeposit">>,
     recordPendingTransfer |-> <<>>,
     attemptDeposit |-> <<"transferDeposit", "completeTransfer">>,
     completeTransfer |-> <<>>]

(* An account changes its balance and awaits its history. *)
SourceHandlers ==
    [withdraw |-> <<"recordWithdrawal">>]

DestinationHandlers ==
    [accountDeposit |-> <<"recordDeposit">>,
     transferDeposit |-> <<"recordTransferDeposit">>,
     getBalance |-> <<>>]

(* A history records by a message to itself, and awaits it. *)
SourceHistoryHandlers ==
    [recordWithdrawal |-> <<"appendWithdrawal">>,
     appendWithdrawal |-> <<>>]

DestinationHistoryHandlers ==
    [recordDeposit |-> <<"appendDeposit">>,
     appendDeposit |-> <<>>,
     recordTransferDeposit |-> <<"appendTransferDeposit">>,
     appendTransferDeposit |-> <<>>]

(* The handlers of each of the bank's actors. *)
Handlers ==
    [bank |-> BankHandlers,
     coordinator |-> CoordinatorHandlers,
     source |-> SourceHandlers,
     destination |-> DestinationHandlers,
     sourceHistory |-> SourceHistoryHandlers,
     destinationHistory |-> DestinationHistoryHandlers]

BankActors == DOMAIN Handlers

BankMessages == UNION {DOMAIN Handlers[a] : a \in BankActors}

BankTarget ==
    [m \in BankMessages |-> CHOOSE a \in BankActors : m \in DOMAIN Handlers[a]]

BankCallsOf == [m \in BankMessages |-> Handlers[BankTarget[m]][m]]

(* What the coordinator sends to itself is not awaited; all the rest is. *)
BankAwaited ==
    BankMessages \ {"recordPendingTransfer", "attemptDeposit", "completeTransfer"}
=============================================================================
