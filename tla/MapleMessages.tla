--------------------------- MODULE MapleMessages ---------------------------
(***************************************************************************)
(* Deposits and withdrawals through the dispatcher and the Maple adapter,  *)
(* as far as their effect: a CCIP message that takes the user's tokens to  *)
(* another chain, where it is settled later, in any order or never.        *)
(* Transactions are atomic here, one instruction each.                     *)
(*                                                                         *)
(* The message travels in extra_data, as the Borsh serialization of        *)
(* CcipSendInstructionArgs; of it only the sizes of its parts and the      *)
(* amount of its tokens are kept.  The router and the lane are external.   *)
(***************************************************************************)
EXTENDS AdapterCalls

CONSTANTS
    Users,          \* who sends messages
    Funds,          \* how much of each token each of them has
    Messages,       \* the messages clients encode
    Amounts,        \* the amounts they pass beside them
    MAPLE,          \* the adapter's program id
    OWNER,          \* the authority of its entry
    MINT,           \* the mint of its entry
    FILLER,         \* an account that does not matter
    MaxInFlight,    \* bound: messages not yet settled
    NoRequest       \* nothing refused yet

\* The variable parts of a message: their bytes, and its token_amounts.
Message == {m \in [receiver : Nat, data : Nat, tokens : Nat, amount : Nat,
                   extra_args : Nat, token_indexes : Nat] :
               m.tokens = 0 => m.amount = 0}

Moves == {"deposit", "withdraw"}

Sent == [op : Moves, user : Users, amount : Nat]

Request == [op : Moves, user : Users, message : Messages]

ASSUME MessageAssumption ==
    /\ Users \subseteq Keys \ {DefaultKey}
    /\ Funds \in Nat
    /\ Messages \subseteq Message
    /\ Amounts \subseteq Value
    /\ MAPLE \in Programs /\ OWNER \in Keys /\ MINT \in Mints
    /\ FILLER \in Addresses \ Keys
    /\ MaxInFlight \in Nat
    /\ NoRequest \notin Request

VARIABLES
    view,       \* the dispatcher's accounts
    wallet,     \* per user: what deposits and withdrawals can take, USDC and syrupUSDC
    lane,       \* the messages on their way
    refused     \* history: the last call an active adapter's entry did not let pass

vars == <<view, wallet, lane, refused>>

Maple == INSTANCE MapleAdapter

(***************************************************************************)
(* The Borsh serialization: the length of a vector takes 4 bytes, a key 32 *)
(* and a u64 8.                                                            *)
(***************************************************************************)
Vec(bytes) == 4 + bytes

TokenAmount == 32 + 8

\* dest_chain_selector, message and token_indexes.
Size(m) ==
    8 + Vec(m.receiver) + Vec(m.data) + Vec(TokenAmount * m.tokens) + 32
      + Vec(m.extra_args) + Vec(m.token_indexes)

\* ccip_send's selector, and the message behind it.
ExtraData(m) == [i \in 1..(1 + Size(m)) |-> 0]

\* Mutant: the amount of the call is put into the message.
TakenOfCall(amount, m) == amount

\* What the router takes: the adapter leaves the message as it is.
Taken(amount, m) == m.amount

(***************************************************************************)
(* The dispatcher and the adapter.                                         *)
(***************************************************************************)
EntryPda == <<MAPLE, OWNER>>

RoutedCall(op, user, amount, length) ==
    [op |-> op, signer |-> user, adapter |-> EntryPda, mint |-> MINT,
     status |-> Active, amount |-> amount, extra |-> length]

\* The accounts of ccip_send, the sender the fourth of them.
RouterAccounts(user) ==
    [i \in 1..Maple!BASE_ACCOUNTS |->
        [key |-> IF i = 4 THEN user ELSE FILLER, signer |-> i = 4, writable |-> i = 4]]

Handled(op, user, amount, m) ==
    LET call == [authority |-> user, amount |-> amount, extra |-> ExtraData(m),
                 accounts |-> RouterAccounts(user)]
    IN  IF op = "deposit" THEN Maple!Deposit(call) ELSE Maple!Withdraw(call)

Routable(op, user, amount, m) ==
    CanRoute(view, RoutedCall(op, user, amount, Len(ExtraData(m))))

---------------------------------------------------------------------------
Init ==
    /\ view = [registry |-> INITIALIZER,
               adapters |-> [pda \in Pda |->
                   IF pda = EntryPda
                   THEN [authority |-> OWNER, program_id |-> MAPLE,
                         supported_mint |-> MINT, status |-> Active]
                   ELSE NoEntry]]
    /\ wallet = [u \in Users |-> [op \in Moves |-> Funds]]
    /\ lane = <<>>
    /\ refused = NoRequest

\* The router takes the tokens the message names; the amount of the call is only
\* reported.
Send(op, u, amount, m) ==
    /\ Routable(op, u, amount, m)
    /\ Handled(op, u, amount, m).kind = "invoke"
    /\ m.amount <= wallet[u][op]
    /\ Len(lane) < MaxInFlight
    /\ wallet' = [wallet EXCEPT ![u][op] = @ - Taken(amount, m)]
    /\ lane' = Append(lane, [op |-> op, user |-> u, amount |-> Taken(amount, m)])
    /\ UNCHANGED <<view, refused>>

\* The dispatcher does not let the call pass, although the adapter is active.
Refuse(op, u, amount, m) ==
    /\ view.adapters[EntryPda].status = Active
    /\ ~Routable(op, u, amount, m)
    /\ m.amount <= wallet[u][op]
    /\ refused' = [op |-> op, user |-> u, message |-> m]
    /\ UNCHANGED <<view, wallet, lane>>

\* A message settles: what it has taken comes back as the other token.
Settle(i) ==
    /\ lane' = SubSeq(lane, 1, i - 1) \o SubSeq(lane, i + 1, Len(lane))
    /\ LET other == IF lane[i].op = "deposit" THEN "withdraw" ELSE "deposit"
       IN  wallet' = [wallet EXCEPT ![lane[i].user][other] = @ + lane[i].amount]
    /\ UNCHANGED <<view, refused>>

ToggleAdapter ==
    /\ CanToggle(view, RoutedCall("toggle_adapter", OWNER, 0, 0))
    /\ view' = Toggle(view, RoutedCall("toggle_adapter", OWNER, 0, 0))
    /\ UNCHANGED <<wallet, lane, refused>>

Next ==
    \/ \E op \in Moves, u \in Users, amount \in Amounts, m \in Messages :
          Send(op, u, amount, m) \/ Refuse(op, u, amount, m)
    \/ \E i \in DOMAIN lane : Settle(i)
    \/ ToggleAdapter

Spec == Init /\ [][Next]_vars

---------------------------------------------------------------------------
\* The accounts and the lane have their types.
TypeOK ==
    /\ view \in View
    /\ wallet \in [Users -> [Moves -> Nat]]
    /\ lane \in Seq(Sent) /\ Len(lane) <= MaxInFlight
    /\ refused \in Request \cup {NoRequest}

\* No token moves: whatever message a client encodes and whatever the amount of the
\* call, only messages without tokens are short enough for EXTRA_DATA_MAX_LEN, so no
\* deposit or withdrawal through this adapter changes what a user has.  While this
\* holds it makes no difference when, or in which order, messages are settled.
TokensNeverMove == wallet = [u \in Users |-> [op \in Moves |-> Funds]]

\* docs/adapter-standard.md:952, a Maple deposit "sends USDC according to the
\* encoded CCIP message": a call whose message encodes tokens the user has, and
\* whose adapter is active, is let pass.
TokenMessagesPass == refused # NoRequest => refused.message.tokens = 0
===========================================================================
