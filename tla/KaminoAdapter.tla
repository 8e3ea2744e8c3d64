--------------------------- MODULE KaminoAdapter ---------------------------
(***************************************************************************)
(* The Kamino adapter: the lending functions its selectors name.  Only the *)
(* functions that swap or redeem pass on the bytes after the selector.     *)
(***************************************************************************)
EXTENDS AdapterCalls

\* Where klend_interface has the available liquidity in a Reserve: external.
AVAILABLE_LIQUIDITY == 8 + 8 + 16 + 3 * 32 + 3 * 32

AuthorityIsMut(op) == op # "current_value"

DepositFunction(selector, call) ==
    CASE selector = 0 ->
            AmountThen("deposit_reserve_liquidity_and_obligation_collateral_v2", call, <<>>)
      [] selector = 1 -> AmountThen("deposit_reserve_liquidity", call, <<>>)
      [] selector = 2 -> AmountThen("deposit_obligation_collateral_v2", call, <<>>)
      [] selector = 3 -> AmountThen("deposit_and_withdraw", call, From(call.extra, 1))
      [] OTHER -> Reject

Deposit(call) ==
    IF HasSelector(call) THEN DepositFunction(call.extra[1], call) ELSE Reject

WithdrawFunction(selector, call) ==
    CASE selector = 0 ->
            AmountThen("withdraw_obligation_collateral_and_redeem_reserve_collateral_v2",
                       call, <<>>)
      [] selector = 1 -> AmountThen("redeem_reserve_collateral", call, From(call.extra, 1))
      [] selector = 2 -> AmountThen("deposit_and_withdraw", call, From(call.extra, 1))
      [] OTHER -> Reject

Withdraw(call) ==
    IF HasSelector(call) THEN WithdrawFunction(call.extra[1], call) ELSE Reject

\* The first account's data is cast to a Reserve, which panics on any other
\* size; its available liquidity is reported.
CurrentValue(call) ==
    IF call.accounts = <<>> THEN Panic
    ELSE LET data == OnChain[call.accounts[1].key]
         IN  IF data.size # ReserveSize THEN Panic
             ELSE Report(data.at[AVAILABLE_LIQUIDITY] % U64)

\* The entry points.
Handle(op, call) ==
    CASE op = "deposit" -> Deposit(call)
      [] op = "withdraw" -> Withdraw(call)
      [] op = "current_value" -> CurrentValue(call)
===========================================================================
