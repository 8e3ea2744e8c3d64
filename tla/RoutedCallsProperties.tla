----------------------- MODULE RoutedCallsProperties -----------------------
(***************************************************************************)
(* What must hold of a call on its way through dispatcher, adapter and     *)
(* protocol.                                                               *)
(***************************************************************************)
EXTENDS RoutedCalls, DispatcherProperties

---------------------------------------------------------------------------
(***************************************************************************)
(* Accounts and privileges.                                                *)
(***************************************************************************)

\* An entry of an account list as another program sees it: nothing is lost ...
SameAccount(m, old) ==
    /\ m.key = old.key
    /\ old.signer => m.signer
    /\ old.writable => m.writable

\* ... and nothing gained, each privilege being one the account has in a list.
GrantedBy(m, list) ==
    /\ m.signer => \E j \in DOMAIN list : list[j].key = m.key /\ list[j].signer
    /\ m.writable => \E j \in DOMAIN list : list[j].key = m.key /\ list[j].writable

\* What the client grants: its own signature, and the flags in its list.
Granted(signer, listed) ==
    <<[key |-> signer, signer |-> TRUE, writable |-> TRUE]>> \o listed

\* The protocol is given the client's accounts, in the client's order, and after
\* two rounds of AccountMeta building and merging (deposit, withdraw and
\* current_value of the dispatcher, build_and_invoke of the adapters) no account
\* has a privilege the client has not granted, nor lost one it was listed with:
\* the runtime has no reason to stop a call for privilege escalation.
ProtocolSeesListedAccounts ==
    \A t \in Slots : turn[t] # NoTurn =>
        LET listed == turn[t].listed
            seen == ProtocolAccounts(turn[t].given)
        IN  /\ Len(seen) = Len(listed)
            /\ \A i \in DOMAIN listed :
                  /\ SameAccount(seen[i], listed[i])
                  /\ GrantedBy(seen[i], Granted(Ix(t).signer, listed))

\* A CCIP message is sent only in the name of the very user who signed the
\* dispatcher call, whom the events name, and that user has signed it.
CcipSentBySigner ==
    \A t \in Slots : \A i \in DOMAIN trace[t].effects :
        LET effect == trace[t].effects[i]
        IN  effect.fn = "ccip_send" =>
              /\ effect.accounts[4].key = effect.authority
              /\ effect.accounts[4].signer
              /\ \E n \in DOMAIN tx[t].body : tx[t].body[n].signer = effect.authority

---------------------------------------------------------------------------
(***************************************************************************)
(* Instruction data as the protocols decode it.                            *)
(***************************************************************************)

\* Functions that take no amount.
NoAmount == {"initialize_insurance_fund_stake", "remove_insurance_fund_stake"}

\* Drift functions given the two bytes of the market index before the amount.
MarketFirst == {"deposit", "withdraw", "request_remove_insurance_fund_stake"}

\* Where the adapters put the amount, in fields.  In add_insurance_fund_stake it is
\* behind all of extra_data, which is where Drift looks for it only if extra_data
\* ends with the market index (see DriftStake).
AmountAt(fn, data) ==
    IF fn = "add_insurance_fund_stake" THEN Len(data)
    ELSE IF fn \in MarketFirst THEN 3 ELSE 1

\* The amount told of a function that was called with this data: the one in the
\* data, or 0 if it takes none.  The message of ccip_send is the client's own, and
\* what is told is the amount asked of the dispatcher,
\* docs/adapter-standard.md:573, "metadata for events".
NamesAmount(told, fn, data, asked) ==
    /\ fn \in NoAmount => told = 0
    /\ fn = "ccip_send" => told = asked
    /\ fn \notin NoAmount \cup {"ccip_send"} =>
          data[AmountAt(fn, data)] = Amount(told)[1]

\* The adapters' events of deposits and withdrawals, and those among them for which
\* a protocol was invoked.
Reported(events) == {i \in DOMAIN events : events[i].event # "current_value"}
Invoking(events) == {i \in Reported(events) : events[i].program_id # MOCK}

\* An adapter's and the dispatcher's event of one call.
SameCall(told, outer) ==
    /\ told.event = outer.event
    /\ told.program_id = Named(outer.program_id)
    /\ told.authority = outer.authority
    /\ \/ told.amount = outer.amount
       \/ told.amount = 0 /\ told.program_id = PROGRAM_ID(DRIFT)

Reports(told, effect) ==
    /\ told.program_id = effect.program_id
    /\ told.authority = effect.authority
    /\ NamesAmount(told.amount, effect.fn, effect.data, effect.amount)

CallsAgree(told, outer) ==
    InStep(Reported(told), Announced(outer),
           {p \in (DOMAIN told) \X (DOMAIN outer) : SameCall(told[p[1]], outer[p[2]])})

EffectsAgree(told, effects) ==
    InStep(Invoking(told), DOMAIN effects,
           {p \in (DOMAIN told) \X (DOMAIN effects) : Reports(told[p[1]], effects[p[2]])})

\* What the two programs tell of a successful transaction is, in order, what the
\* protocols were asked for: for each invocation one event of the adapter and one of
\* the dispatcher, which name the protocol of that adapter, the signer and the
\* amount the adapter has put into the instruction data.  Drift's functions without
\* an amount make its adapter report 0 where the dispatcher reports the amount of the
\* call, a CCIP message carries what the client has put into it, and for the mock
\* adapter there is nothing a protocol did.
EventsTellEffects ==
    /\ CallsAgree(settled.events, published.events)
    /\ EffectsAgree(settled.events, settled.effects)

\* Where deposit and withdraw find byte k of extra_data, the amount coming third.
PlaceOf(k) == IF k <= 3 THEN k - 1 ELSE k

\* Drift is given the market index, the amount of the call and the reduce_only flag
\* in this order, at the places lib.rs documents them in extra_data, [1..3] and [3],
\* and behind them any other byte of extra_data: none is lost, doubled or moved.
DriftFieldsArrive ==
    \A t \in Slots : \A i \in DOMAIN trace[t].effects :
        LET effect == trace[t].effects[i]
        IN  effect.fn \in {"deposit", "withdraw"} =>
              /\ Len(effect.data) = Len(effect.extra)
              /\ effect.data[3] = Amount(effect.amount)[1]
              /\ \A k \in 2..Len(effect.extra) :
                    effect.data[PlaceOf(k)] = Raw(effect.extra)[k]

\* Every adapter leaves a u64 of its own when its current_value succeeds, so the
\* dispatcher never meets missing or short return data, or a value that was set
\* by somebody else.
EveryAdapterAnswers ==
    \A t \in Slots : AtStage(t, "returned") /\ Ix(t).op = "current_value" =>
        tx[t].ret.by = Target(t) /\ HasReturnU64(tx[t].ret)

\* Where the fields are that docs/adapter-standard.md:651-657 has current_value
\* stand for: liquidity of a Reserve, asset_shares, locked_collateral, a token
\* balance, the scaled balance of spot position 0.  The layouts are the protocols';
\* what the repository knows of them is in the comments at its offsets.
ValueFields ==
    { [program |-> KAMINO,   at |-> 224],
      [program |-> MARGINFI, at |-> 40],
      [program |-> JUPITER,  at |-> 152],
      [program |-> MAPLE,    at |-> 64],
      [program |-> DRIFT,    at |-> 104] }

\* The value current_value hands back is that of this field, in the account the
\* client listed first, read by the adapter and republished by the dispatcher: its
\* low u64, as the documentation says of asset_shares, the only one that is wider.
\* The mock adapter's is its own.
AnswerIsTheField ==
    [][\A t \in Slots : Answers(t) =>
          IF Target(t) = MOCK THEN tx'[t].ret.data = MOCK_CURRENT_VALUE
          ELSE \E field \in ValueFields :
                  /\ field.program = Target(t)
                  /\ tx'[t].ret.data
                        = OnChain[turn[t].listed[1].key].at[field.at] % U64]_rvars

---------------------------------------------------------------------------
(***************************************************************************)
(* What the documentation says and the adapters do not do.                 *)
(***************************************************************************)

\* docs/developer-guide.md:461, "Do not duplicate the signer unless the target
\* protocol instruction requires the signer to appear at a specific downstream
\* account position": current_value has no target instruction, so a list without
\* the signer passes the adapter's constraints.
SignerNeedNotBeListed ==
    \A t \in Slots : AtStage(t, "called") /\ Ix(t).op = "current_value" =>
        ConstraintsHold(t)

\* docs/adapter-standard.md:1202 and 1204, adapters must "validate minimum account
\* counts" and "check `extra_data` length before slicing": no handler ends in a
\* panic.
InputsAreValidated ==
    \A t \in Slots : AtStage(t, "called") => Outcome(t).kind # "panic"
===========================================================================
