----------------------------- MODULE DriftStake -----------------------------
(***************************************************************************)
(* Staking in Drift's insurance fund through the dispatcher and the Drift  *)
(* adapter: a stake account is initialized, stake is added, its removal    *)
(* requested, and after a cooldown carried out, each in a transaction of   *)
(* its own, while the adapter's authority may pause and resume it.         *)
(* Transactions are atomic here, one instruction each, and clients list    *)
(* their own accounts.                                                     *)
(*                                                                         *)
(* The fund is external.  It keeps a stake per user and market, decodes a  *)
(* market index of two bytes and, in two functions, a u64 from instruction *)
(* data, accepts one request at a time and pays it after the cooldown.     *)
(***************************************************************************)
EXTENDS AdapterCalls, Layout

CONSTANTS
    Users,          \* who stakes
    Funds,          \* the tokens each of them has
    Markets,        \* market indices, as the two bytes that encode them
    Amounts,        \* the amounts clients pass
    DepositExtras,  \* the extra_data clients pass to deposit
    WithdrawExtras, \* and to withdraw
    DRIFT,          \* the adapter's program id
    OWNER,          \* the authority of its entry
    MINT,           \* the mint of its entry
    NoStake         \* no stake account

Stake == [staked : Nat, requested : Nat, cooled : BOOLEAN]

\* The market a client's extra_data names, behind the selector.
Named(extra) == <<extra[2], extra[3]>>

ASSUME StakeAssumption ==
    /\ Users \subseteq Keys \ {DefaultKey}
    /\ Funds \in Nat
    /\ Markets \subseteq Digit \X Digit
    /\ Amounts \subseteq Value
    /\ DepositExtras \cup WithdrawExtras \subseteq Seq(Digit)
    /\ \A extra \in DepositExtras \cup WithdrawExtras :
          Len(extra) >= 3 => Named(extra) \in Markets
    /\ DRIFT \in Programs /\ OWNER \in Keys /\ MINT \in Mints
    /\ NoStake \notin Stake

VARIABLES
    view,       \* the dispatcher's accounts
    wallet,     \* per user: the tokens not staked
    stake,      \* per user and market: the fund's account
    told        \* history: the sum of the adapter's events about it

vars == <<view, wallet, stake, told>>

Drift == INSTANCE DriftAdapter

(***************************************************************************)
(* The dispatcher and the adapter.                                         *)
(***************************************************************************)
EntryPda == <<DRIFT, OWNER>>

RoutedCall(op, user, amount, extra) ==
    [op |-> op, signer |-> user, adapter |-> EntryPda, mint |-> MINT,
     status |-> Active, amount |-> amount, extra |-> Len(extra)]

Handled(op, user, amount, extra) ==
    LET call == [authority |-> user, amount |-> amount, extra |-> extra, accounts |-> <<>>]
    IN  IF op = "deposit" THEN Drift!Deposit(call) ELSE Drift!Withdraw(call)

\* The call passes the dispatcher's checks and the adapter invokes this function.
Invokes(fn, op, user, amount, extra) ==
    /\ CanRoute(view, RoutedCall(op, user, amount, extra))
    /\ Handled(op, user, amount, extra).kind = "invoke"
    /\ Handled(op, user, amount, extra).fn = fn

(***************************************************************************)
(* What the fund reads in instruction data.                                *)
(***************************************************************************)
FieldBytes(field) ==
    IF field.is = "byte" THEN <<field.val>> ELSE to_le_bytes(field.val, U64_BYTES)

Bytes(data) ==
    LET joined[n \in 0..Len(data)] ==
            IF n = 0 THEN <<>> ELSE joined[n - 1] \o FieldBytes(data[n])
    IN  joined[Len(data)]

\* The market index comes first.
Selects(data, market) ==
    /\ Len(data) >= 2
    /\ data[1] = [is |-> "byte", val |-> market[1]]
    /\ data[2] = [is |-> "byte", val |-> market[2]]

\* A u64 that begins right behind it is read as it is, any other bytes there are
\* taken for one.
AmountRead(data) ==
    IF Len(data) >= 3 /\ data[3].is = "u64" THEN Ok(data[3].val)
    ELSE read_u64_le(Bytes(data), 2)

\* A number has been read, and there are as many tokens.
Covered(amount, available) == amount.ok /\ amount.value \in 1..available

---------------------------------------------------------------------------
Init ==
    /\ view = [registry |-> INITIALIZER,
               adapters |-> [pda \in Pda |->
                   IF pda = EntryPda
                   THEN [authority |-> OWNER, program_id |-> DRIFT,
                         supported_mint |-> MINT, status |-> Active]
                   ELSE NoEntry]]
    /\ wallet = [u \in Users |-> Funds]
    /\ stake = [u \in Users |-> [m \in Markets |-> NoStake]]
    /\ told = [u \in Users |-> [m \in Markets |-> 0]]

\* The observer adds up the events of a user who names a market.
Tells(u, extra, net) == told' = [told EXCEPT ![u][Named(extra)] = @ + net]

Initialize(u, amount, extra) ==
    /\ Invokes("initialize_insurance_fund_stake", "deposit", u, amount, extra)
    /\ LET out == Handled("deposit", u, amount, extra)
       IN  \E m \in Markets :
              /\ Selects(out.data, m)
              /\ stake[u][m] = NoStake
              /\ stake' = [stake EXCEPT ![u][m] =
                              [staked |-> 0, requested |-> 0, cooled |-> FALSE]]
              /\ Tells(u, extra, out.amount)
    /\ UNCHANGED <<view, wallet>>

\* The call adds to this stake.
CanAdd(u, amount, extra, m) ==
    /\ Invokes("add_insurance_fund_stake", "deposit", u, amount, extra)
    /\ LET out == Handled("deposit", u, amount, extra)
       IN  /\ Selects(out.data, m)
           /\ stake[u][m] # NoStake
           /\ Covered(AmountRead(out.data), wallet[u])

\* The adapter appends the amount to all that follows the selector: the fund reads
\* another one when that is more than the market index.
Add(u, amount, extra) ==
    /\ \E m \in Markets :
          /\ CanAdd(u, amount, extra, m)
          /\ LET out == Handled("deposit", u, amount, extra)
                 read == AmountRead(out.data)
             IN  /\ stake' = [stake EXCEPT ![u][m].staked = @ + read.value]
                 /\ wallet' = [wallet EXCEPT ![u] = @ - read.value]
                 /\ Tells(u, extra, out.amount)
    /\ UNCHANGED view

RequestRemove(u, amount, extra) ==
    /\ Invokes("request_remove_insurance_fund_stake", "withdraw", u, amount, extra)
    /\ LET out == Handled("withdraw", u, amount, extra)
           read == AmountRead(out.data)
       IN  \E m \in Markets :
              /\ Selects(out.data, m)
              /\ stake[u][m] # NoStake
              /\ stake[u][m].requested = 0
              /\ Covered(read, stake[u][m].staked)
              /\ stake' = [stake EXCEPT ![u][m].requested = read.value]
              /\ Tells(u, extra, -out.amount)
    /\ UNCHANGED <<view, wallet>>

Requested(u, m) == stake[u][m] # NoStake /\ stake[u][m].requested > 0

\* Time passes.
Cooldown(u, m) ==
    /\ Requested(u, m)
    /\ ~stake[u][m].cooled
    /\ stake' = [stake EXCEPT ![u][m].cooled = TRUE]
    /\ UNCHANGED <<view, wallet, told>>

Remove(u, amount, extra) ==
    /\ Invokes("remove_insurance_fund_stake", "withdraw", u, amount, extra)
    /\ LET out == Handled("withdraw", u, amount, extra)
       IN  \E m \in Markets :
              /\ Selects(out.data, m)
              /\ Requested(u, m)
              /\ stake[u][m].cooled
              /\ stake' = [stake EXCEPT ![u][m] =
                              [staked |-> @.staked - @.requested,
                               requested |-> 0, cooled |-> FALSE]]
              /\ wallet' = [wallet EXCEPT ![u] = @ + stake[u][m].requested]
              /\ Tells(u, extra, -out.amount)
    /\ UNCHANGED view

\* The entry's authority pauses or resumes the adapter.
ToggleAdapter ==
    /\ CanToggle(view, RoutedCall("toggle_adapter", OWNER, 0, <<>>))
    /\ view' = Toggle(view, RoutedCall("toggle_adapter", OWNER, 0, <<>>))
    /\ UNCHANGED <<wallet, stake, told>>

Next ==
    \/ \E u \in Users, amount \in Amounts, extra \in DepositExtras :
          Initialize(u, amount, extra) \/ Add(u, amount, extra)
    \/ \E u \in Users, amount \in Amounts, extra \in WithdrawExtras :
          RequestRemove(u, amount, extra) \/ Remove(u, amount, extra)
    \/ \E u \in Users, m \in Markets : Cooldown(u, m)
    \/ ToggleAdapter

Spec == Init /\ [][Next]_vars

\* A user who has requested a removal keeps sending the call that carries it out,
\* with the extra_data of selector 2.
Claim(u, m) == \E amount \in Amounts : Remove(u, amount, <<2>> \o m)

\* The cooldown ends, and the client tries often enough to meet a time in which
\* the adapter is not paused.
FairSpec ==
    /\ Spec
    /\ \A u \in Users, m \in Markets : WF_vars(Cooldown(u, m)) /\ SF_vars(Claim(u, m))

---------------------------------------------------------------------------
StakeOf(u, m) == IF stake[u][m] = NoStake THEN 0
                 ELSE stake[u][m].staked - stake[u][m].requested

\* Whoever adds up the adapter's events of a user, deposits less withdrawals, has
\* the stake that is not on its way out, at every moment of the unstaking flow:
\* the addition and the request report the amount the fund has read, initialization
\* and removal report 0 whatever amount they were called with, and all four name
\* the market at the same place.  It takes clients who pass
\* add_insurance_fund_stake no more than the market index.
EventsAccountForStake ==
    \A u \in Users, m \in Markets : told[u][m] = StakeOf(u, m)

\* Such clients.
AddsNameTheMarketOnly ==
    \A extra \in DepositExtras : extra # <<>> /\ extra[1] = 1 => Len(extra) <= 3

\* Whoever has requested a removal gets the tokens, although the adapter has no
\* selector to cancel or repeat a request and may be paused meanwhile, if only it
\* is resumed again and again.
UnstakingEnds ==
    []<>(view.adapters[EntryPda].status = Active) =>
        \A u \in Users, m \in Markets : Requested(u, m) ~> ~Requested(u, m)

\* docs/adapter-standard.md:1211, "Unsafe decoding inside adapters can cause panics
\* or incorrect instruction data.  Adapters should treat `extra_data` as untrusted
\* input": whatever extra_data is, an addition the fund carries out is one of the
\* amount of the call.
AmountIsNotShifted ==
    \A u \in Users, amount \in Amounts, extra \in DepositExtras, m \in Markets :
        CanAdd(u, amount, extra, m) =>
            AmountRead(Handled("deposit", u, amount, extra).data) = Ok(amount)
===========================================================================
