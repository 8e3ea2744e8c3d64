--------------------------- MODULE AdapterCalls ---------------------------
(***************************************************************************)
(* What the adapter programs have in common: the call they receive,        *)
(* what their handlers may make of it, the instruction data they build and *)
(* the account list they pass on.                                          *)
(*                                                                         *)
(* A call carries the authority the dispatcher has put first, the amount,  *)
(* the bytes of extra_data (none for current_value) and the accounts that  *)
(* follow the authority.  Instruction data is a sequence of fields, a u64  *)
(* taken as one; the discriminator is represented by the function it       *)
(* selects.  Of an account's data the number that begins at each offset is *)
(* kept, as wide as the field there is.                                    *)
(***************************************************************************)
EXTENDS Instructions

CONSTANTS
    Addresses,      \* accounts a client may list
    OnChain,        \* the data of each, as current_value reads it
    ReserveSize,    \* the size of a Kamino Reserve account
    U64             \* how many values a u64 has

\* Bound: current_value reads within the first 256 bytes.
Offsets == 0..255

Data == [token : BOOLEAN, size : Nat, at : [Offsets -> Nat]]

ASSUME DataAssumption ==
    /\ U64 \in Nat \ {0}
    /\ Value = 0..(U64 - 1)
    /\ Keys \subseteq Addresses
    /\ OnChain \in [Addresses -> Data]

Meta == [key : Addresses, signer : BOOLEAN, writable : BOOLEAN]

(***************************************************************************)
(* What a handler makes of a call.  An error and a panic both fail the     *)
(* transaction, but only an error tells the client why.                    *)
(***************************************************************************)
Invoke(fn, data, amount) ==
    [kind |-> "invoke", fn |-> fn, data |-> data, amount |-> amount]

\* Only the mock adapter: the call is taken and nothing done.
Accept(amount) == [kind |-> "accept", amount |-> amount]

Report(value) == [kind |-> "report", value |-> value]

Reject == [kind |-> "reject"]

Panic == [kind |-> "panic"]

(***************************************************************************)
(* Slices of extra_data and the fields of instruction data.                *)
(***************************************************************************)
From(extra, k) == SubSeq(extra, k + 1, Len(extra))    \* &extra_data[k..]

Raw(bytes) == [i \in DOMAIN bytes |-> [is |-> "byte", val |-> bytes[i]]]

Amount(n) == <<[is |-> "u64", val |-> n]>>

\* The discriminator, the amount, and protocol arguments after it.
AmountThen(fn, call, args) ==
    Invoke(fn, Amount(call.amount) \o Raw(args), call.amount)

\* The checks most validate() functions make.
HasSelector(call) == call.authority # DefaultKey /\ call.extra # <<>>

(***************************************************************************)
(* current_value: the low u64 of the number at an offset of the first      *)
(* account's data.                                                         *)
(* remaining_accounts[0] panics when no account is listed.                 *)
(***************************************************************************)
ReadField(call, offset, width) ==
    IF call.accounts = <<>> THEN Panic
    ELSE LET data == OnChain[call.accounts[1].key]
         IN  IF data.size < offset + width THEN Reject
             ELSE Report(data.at[offset] % U64)

(***************************************************************************)
(* Account lists.  A program sees every occurrence of an account with the  *)
(* privileges of all of them.                                              *)
(***************************************************************************)
Merge(metas) ==
    [i \in DOMAIN metas |->
        LET same == {j \in DOMAIN metas : metas[j].key = metas[i].key}
        IN  [key      |-> metas[i].key,
             signer   |-> \E j \in same : metas[j].signer,
             writable |-> \E j \in same : metas[j].writable]]

\* Mutant: AccountMeta::new for every account, whatever its flags.
ForwardedWritable(incoming) ==
    [key |-> incoming.key, signer |-> incoming.signer, writable |-> TRUE]

\* The AccountMeta dispatcher and adapters build for an incoming account.
ForwardedMeta(incoming) ==
    [key |-> incoming.key, signer |-> incoming.signer, writable |-> incoming.writable]

Forwarded(accounts) == [i \in DOMAIN accounts |-> ForwardedMeta(accounts[i])]

\* What the dispatcher is given: its own signer, mut, and the client's list.
DispatcherAccounts(signer, listed) ==
    Merge(<<[key |-> signer, signer |-> TRUE, writable |-> TRUE]>> \o listed)

\* The signer the dispatcher injects is read-only.
InjectedSigner(signer) == [key |-> signer, signer |-> TRUE, writable |-> FALSE]

\* What the adapter is given by the dispatcher.
AdapterAccounts(signer, listed) ==
    Merge(<<InjectedSigner(signer)>>
          \o Forwarded(Tail(DispatcherAccounts(signer, listed))))

\* What the protocol is given by the adapter: everything but the authority.
ProtocolAccounts(given) == Merge(Forwarded(Tail(given)))
===========================================================================
