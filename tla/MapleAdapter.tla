--------------------------- MODULE MapleAdapter ---------------------------
(***************************************************************************)
(* The Maple adapter: both ways are a Chainlink CCIP ccip_send, whose      *)
(* message, already in extra_data, carries the amount.  The amount of the  *)
(* call is only reported.                                                  *)
(***************************************************************************)
EXTENDS AdapterCalls

BASE_ACCOUNTS == 18

\* Where the token program has the balance: external.
TOKEN_AMOUNT == 32 + 32

AuthorityIsMut(op) == TRUE

\* Mutant: the sender only has to have signed.
ValidWithAnySender(call) ==
    /\ call.extra # <<>>
    /\ Len(call.accounts) >= BASE_ACCOUNTS
    /\ call.accounts[4].signer

\* remaining_accounts[3], the sender of the CCIP message, is the authority.
Valid(call) ==
    /\ call.extra # <<>>
    /\ Len(call.accounts) >= BASE_ACCOUNTS
    /\ call.accounts[4].key = call.authority
    /\ call.accounts[4].signer

CcipSend(selector, call) ==
    IF selector = 0
    THEN Invoke("ccip_send", Raw(From(call.extra, 1)), call.amount)
    ELSE Reject

Deposit(call) == IF Valid(call) THEN CcipSend(call.extra[1], call) ELSE Reject

Withdraw(call) == IF Valid(call) THEN CcipSend(call.extra[1], call) ELSE Reject

\* The balance of the first account, which must be a token account.
CurrentValue(call) ==
    IF call.accounts # <<>> /\ OnChain[call.accounts[1].key].token
    THEN Report(OnChain[call.accounts[1].key].at[TOKEN_AMOUNT] % U64)
    ELSE Reject

\* The entry points.
Handle(op, call) ==
    CASE op = "deposit" -> Deposit(call)
      [] op = "withdraw" -> Withdraw(call)
      [] op = "current_value" -> CurrentValue(call)
===========================================================================
