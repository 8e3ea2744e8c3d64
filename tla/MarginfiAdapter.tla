-------------------------- MODULE MarginfiAdapter --------------------------
(***************************************************************************)
(* The MarginFi adapter: one function each way.                            *)
(***************************************************************************)
EXTENDS AdapterCalls

\* Mutant: a key before the field is forgotten.
DiscriminatorOnly == 8

ASSET_SHARES == 8 + 32

AuthorityIsMut(op) == TRUE

DepositFunction(selector, call) ==
    IF selector = 0
    THEN AmountThen("lending_account_deposit", call, From(call.extra, 1))
    ELSE Reject

Deposit(call) ==
    IF HasSelector(call) THEN DepositFunction(call.extra[1], call) ELSE Reject

WithdrawFunction(selector, call) ==
    IF selector = 0
    THEN AmountThen("lending_account_withdraw", call, From(call.extra, 1))
    ELSE Reject

Withdraw(call) ==
    IF HasSelector(call) THEN WithdrawFunction(call.extra[1], call) ELSE Reject

\* asset_shares is a u128, of which the low u64 is reported.
CurrentValue(call) == ReadField(call, ASSET_SHARES, 16)

\* The entry points.
Handle(op, call) ==
    CASE op = "deposit" -> Deposit(call)
      [] op = "withdraw" -> Withdraw(call)
      [] op = "current_value" -> CurrentValue(call)
===========================================================================
