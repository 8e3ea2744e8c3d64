-------------------------- MODULE JupiterAdapter --------------------------
(***************************************************************************)
(* The Jupiter adapter: collateral or liquidity, over exactly 14 accounts. *)
(***************************************************************************)
EXTENDS AdapterCalls

ACCOUNTS == 14

LOCKED_COLLATERAL == 8 + 32 + 32 + 32 + 8 + 8 + 16 + 16

AuthorityIsMut(op) == op # "current_value"

Valid(call) == HasSelector(call) /\ Len(call.accounts) = ACCOUNTS

DepositFunction(selector, call) ==
    CASE selector = 0 -> AmountThen("deposit_collateral_for_borrows", call, <<>>)
      [] selector = 1 -> AmountThen("add_liquidity2", call, From(call.extra, 1))
      [] OTHER -> Reject

Deposit(call) ==
    IF Valid(call) THEN DepositFunction(call.extra[1], call) ELSE Reject

WithdrawFunction(selector, call) ==
    CASE selector = 0 -> AmountThen("withdraw_collateral_for_borrows", call, <<>>)
      [] selector = 1 -> AmountThen("remove_liquidity", call, From(call.extra, 1))
      [] OTHER -> Reject

Withdraw(call) ==
    IF Valid(call) THEN WithdrawFunction(call.extra[1], call) ELSE Reject

CurrentValue(call) == ReadField(call, LOCKED_COLLATERAL, 8)

\* The entry points.
Handle(op, call) ==
    CASE op = "deposit" -> Deposit(call)
      [] op = "withdraw" -> Withdraw(call)
      [] op = "current_value" -> CurrentValue(call)
===========================================================================
