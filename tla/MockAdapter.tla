---------------------------- MODULE MockAdapter ----------------------------
(***************************************************************************)
(* The mock adapter of the dispatcher's tests: it keeps to the interface,  *)
(* takes any extra_data and any accounts, and asks nothing of a protocol.  *)
(***************************************************************************)
EXTENDS AdapterCalls

CONSTANT MOCK_CURRENT_VALUE     \* what it reports

AuthorityIsMut(op) == FALSE

\* MockDepositCalled and MockWithdrawCalled are all they do.
Deposit(call) == Accept(call.amount)

Withdraw(call) == Accept(call.amount)

CurrentValue(call) == Report(MOCK_CURRENT_VALUE)

\* The entry points.
Handle(op, call) ==
    CASE op = "deposit" -> Deposit(call)
      [] op = "withdraw" -> Withdraw(call)
      [] op = "current_value" -> CurrentValue(call)
===========================================================================
