--------------------------- MODULE MCBankExample ---------------------------
EXTENDS BankExample

CONSTANTS Ticker, Alarm    \* tasks that others schedule

MCRepeated == {Ticker}
MCTasks == {Ticker, Alarm} \cup 1..6

Do(command, account, to, amount) ==
    [command |-> command, account |-> account, to |-> to, amount |-> amount]
Open(amount) == Do("openAccount", 0, 0, amount)

(* Undisturbed commands. *)
Plainly(commands) ==
    [commands |-> commands, mayClose |-> FALSE, others |-> FALSE]

MCWorkloads == {
    \* a transfer that is retried while commands follow it, one of them a
    \* second transfer
    Plainly(<<Open(3), Open(0), Do("transfer", 1, 2, 2), Do("deposit", 2, 0, 1),
              Do("pendingTransfers", 0, 0, 0)>>),
    Plainly(<<Open(3), Open(1), Do("transfer", 1, 2, 2), Do("transfer", 2, 1, 1)>>),
    \* queries
    Plainly(<<Do("allAccounts", 0, 0, 0), Open(2), Open(1), Do("allAccounts", 0, 0, 0),
              Do("accountSummary", 2, 0, 0), Do("transactionHistory", 1, 0, 0)>>),
    \* what is refused: amounts, accounts, limits
    Plainly(<<Open(NaN), Open(-1), Open(1), Do("deposit", 1, 0, NaN),
              Do("deposit", 0, 0, 1), Do("deposit", 2, 0, 1)>>),
    Plainly(<<Open(2), Do("deposit", 1, 0, -1), Do("withdraw", 1, 0, 3),
              Do("withdraw", 1, 0, NaN), Do("withdraw", 1, 0, -1), Do("withdraw", 1, 0, 1)>>),
    Plainly(<<Open(2), Do("accountSummary", 0, 0, 0), Do("accountSummary", 2, 0, 0),
              Do("transactionHistory", 0, 0, 0), Do("transactionHistory", 1, 0, NaN),
              Do("transactionHistory", 2, 0, 0)>>),
    Plainly(<<Open(2), Do("transfer", 1, 2, 1), Do("transfer", 1, 1, 1),
              Do("transfer", 0, 1, 1), Do("transfer", 1, 0, 1), Do("transfer", 1, 2, NaN)>>),
    Plainly(<<Open(1), Open(0), Do("transfer", 1, 2, 2), Do("transfer", 1, 2, -1),
              Do("withdraw", 2, 0, 1)>>),
    \* the stage is closed in between
    [commands |-> <<Open(3), Open(0), Do("transfer", 1, 2, 2)>>,
     mayClose |-> TRUE, others |-> FALSE],
    [commands |-> <<Open(1), Do("deposit", 1, 0, 1), Do("accountSummary", 1, 0, 0)>>,
     mayClose |-> TRUE, others |-> FALSE],
    [commands |-> <<Open(1), Do("allAccounts", 0, 0, 0)>>,
     mayClose |-> TRUE, others |-> FALSE],
    \* others use the scheduler, and close it
    [commands |-> <<Open(3), Open(0), Do("transfer", 1, 2, 2)>>,
     mayClose |-> FALSE, others |-> TRUE],
    [commands |-> <<Open(2), Open(0), Do("transfer", 1, 2, 1),
                    Do("withdraw", 2, 0, 1)>>,
     mayClose |-> TRUE, others |-> FALSE]}
=============================================================================
