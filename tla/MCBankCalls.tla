----------------------------- MODULE MCBankCalls -----------------------------
(* AwaitedCalls with the actors and the calls of the bank example. *)
EXTENDS AwaitedCalls, BankCalls
=============================================================================
