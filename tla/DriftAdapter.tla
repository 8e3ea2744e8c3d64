--------------------------- MODULE DriftAdapter ---------------------------
(***************************************************************************)
(* The Drift adapter: spot positions and insurance fund stakes.  The       *)
(* market index, two bytes, comes before the amount, so extra_data is cut  *)
(* in two around it.  A slice past the end of extra_data panics.           *)
(***************************************************************************)
EXTENDS AdapterCalls

SPOT_0_SCALED_BALANCE == 8 + 32 + 32 + 32

AuthorityIsMut(op) == TRUE

\* Mutant: the market index is cut out one byte too early.
MarketIndexTooEarly(extra) == SubSeq(extra, 1, 2)

MarketIndex(extra) == SubSeq(extra, 2, 3)     \* &extra_data[1..3]

\* Mutant: amount and market index change places.
SpotAmountFirst(fn, call) ==
    IF Len(call.extra) < 3 THEN Panic
    ELSE Invoke(fn, Amount(call.amount) \o Raw(MarketIndex(call.extra))
                        \o Raw(From(call.extra, 3)),
                call.amount)

\* deposit and withdraw: market index, amount, reduce_only.
Spot(fn, call) ==
    IF Len(call.extra) < 3 THEN Panic
    ELSE Invoke(fn, Raw(MarketIndex(call.extra)) \o Amount(call.amount)
                        \o Raw(From(call.extra, 3)),
                call.amount)

AddStake(call) ==
    Invoke("add_insurance_fund_stake",
           Raw(From(call.extra, 1)) \o Amount(call.amount), call.amount)

InitializeStake(call) ==
    Invoke("initialize_insurance_fund_stake", Raw(From(call.extra, 1)), 0)

RequestRemoveStake(call) ==
    IF Len(call.extra) < 3 THEN Panic
    ELSE Invoke("request_remove_insurance_fund_stake",
                Raw(MarketIndex(call.extra)) \o Amount(call.amount), call.amount)

\* Mutant: the event repeats the amount of the call.
RemoveStakeReporting(call) ==
    IF Len(call.extra) < 3 THEN Panic
    ELSE Invoke("remove_insurance_fund_stake", Raw(MarketIndex(call.extra)), call.amount)

RemoveStake(call) ==
    IF Len(call.extra) < 3 THEN Panic
    ELSE Invoke("remove_insurance_fund_stake", Raw(MarketIndex(call.extra)), 0)

DepositFunction(selector, call) ==
    CASE selector = 0 -> Spot("deposit", call)
      [] selector = 1 -> AddStake(call)
      [] selector = 2 -> InitializeStake(call)
      [] OTHER -> Reject

Deposit(call) ==
    IF HasSelector(call) THEN DepositFunction(call.extra[1], call) ELSE Reject

WithdrawFunction(selector, call) ==
    CASE selector = 0 -> Spot("withdraw", call)
      [] selector = 1 -> RequestRemoveStake(call)
      [] selector = 2 -> RemoveStake(call)
      [] OTHER -> Reject

Withdraw(call) ==
    IF HasSelector(call) THEN WithdrawFunction(call.extra[1], call) ELSE Reject

CurrentValue(call) == ReadField(call, SPOT_0_SCALED_BALANCE, 8)

\* The entry points.
Handle(op, call) ==
    CASE op = "deposit" -> Deposit(call)
      [] op = "withdraw" -> Withdraw(call)
      [] op = "current_value" -> CurrentValue(call)
===========================================================================
