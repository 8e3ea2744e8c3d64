---------------------------- MODULE RoutedCalls ----------------------------
(***************************************************************************)
(* The dispatcher together with the adapters: the three programs deep     *)
(* call of a client through the dispatcher and an adapter into a protocol. *)
(*                                                                         *)
(* Every action of an adapter here is one of those Dispatcher allows any   *)
(* adapter, restricted to what the handler really does with the call it is *)
(* given.  The bytes of extra_data and the account list, which the         *)
(* dispatcher passes on unread, are chosen when the call is made, among    *)
(* those of the length the instruction names.                              *)
(***************************************************************************)
EXTENDS Dispatcher, AdapterCalls

CONSTANTS
    KAMINO, MARGINFI, JUPITER, MAPLE, DRIFT,    \* the adapters' program ids
    MOCK,           \* the mock adapter's program id
    MOCK_CURRENT_VALUE,
    Payloads,       \* the extra_data and account lists clients pass
    NoTurn          \* no adapter at work for a slot

\* Entries are registered for the adapters of this repository only.
ASSUME ProgramAssumption ==
    /\ Programs = {KAMINO, MARGINFI, JUPITER, MAPLE, DRIFT, MOCK}
    /\ MOCK \notin {KAMINO, MARGINFI, JUPITER, MAPLE, DRIFT}
    /\ \A program \in Programs : <<PROTOCOL, program>> # MOCK
    /\ MOCK_CURRENT_VALUE \in Value

Turn == [stage : {"called", "done", "returned"}, extra : Seq(Byte),
         listed : Seq(Meta), given : Seq(Meta)]

ASSUME PayloadAssumption ==
    /\ Payloads \subseteq [extra : Seq(Byte), accounts : Seq(Meta)]
    /\ NoTurn \notin Turn

VARIABLES
    turn,       \* per slot: the call the adapter is working on, or NoTurn
    trace,      \* per slot: what adapters and protocols did so far
    settled     \* what they did in the transaction committed last

rvars == <<vars, turn, trace, settled>>

Kamino   == INSTANCE KaminoAdapter
Marginfi == INSTANCE MarginfiAdapter
Jupiter  == INSTANCE JupiterAdapter
Maple    == INSTANCE MapleAdapter
Drift    == INSTANCE DriftAdapter
Mock     == INSTANCE MockAdapter

Handled(op, program, call) ==
    CASE program = KAMINO   -> Kamino!Handle(op, call)
      [] program = MARGINFI -> Marginfi!Handle(op, call)
      [] program = JUPITER  -> Jupiter!Handle(op, call)
      [] program = MAPLE    -> Maple!Handle(op, call)
      [] program = DRIFT    -> Drift!Handle(op, call)
      [] program = MOCK     -> Mock!Handle(op, call)

AuthorityIsMut(program, op) ==
    CASE program = KAMINO   -> Kamino!AuthorityIsMut(op)
      [] program = MARGINFI -> Marginfi!AuthorityIsMut(op)
      [] program = JUPITER  -> Jupiter!AuthorityIsMut(op)
      [] program = MAPLE    -> Maple!AuthorityIsMut(op)
      [] program = DRIFT    -> Drift!AuthorityIsMut(op)
      [] program = MOCK     -> Mock!AuthorityIsMut(op)

---------------------------------------------------------------------------
(***************************************************************************)
(* The adapter's side of a call.                                           *)
(***************************************************************************)
Untouched == [events |-> <<>>, effects |-> <<>>]

\* The call as the adapter's handler sees it: Anchor takes the first account
\* for the authority, the others remain.
CallOf(t) ==
    [authority |-> turn[t].given[1].key, amount |-> Ix(t).amount,
     extra |-> turn[t].extra, accounts |-> Tail(turn[t].given)]

\* The constraints on the authority, Signer and mut, come before the handler.
ConstraintsHold(t) ==
    LET authority == turn[t].given[1]
    IN  /\ authority.signer
        /\ AuthorityIsMut(Target(t), Ix(t).op) => authority.writable

Outcome(t) ==
    IF ConstraintsHold(t) THEN Handled(Ix(t).op, Target(t), CallOf(t)) ELSE Reject

\* The protocol an adapter is compiled to invoke, which its events name.
PROGRAM_ID(adapter) == <<PROTOCOL, adapter>>

\* What an adapter's events name: its protocol.  Those of the mock adapter name
\* nothing but are logged as its own.
Named(adapter) == IF adapter = MOCK THEN MOCK ELSE PROGRAM_ID(adapter)

\* What a protocol carries out: the function, its data and accounts, and the call
\* it is carried out for.
Effect(t) ==
    LET out == Outcome(t)
    IN  [program_id |-> PROGRAM_ID(Target(t)), fn |-> out.fn, data |-> out.data,
         amount |-> CallOf(t).amount, extra |-> turn[t].extra,
         authority |-> CallOf(t).authority,
         accounts |-> ProtocolAccounts(turn[t].given)]

\* Adapter{Deposit,Withdraw,CurrentValue}Event, Mock{Deposit,Withdraw,CurrentValue}Called.
AdapterEvent(t) ==
    LET out == Outcome(t)
    IN  [event |-> Ix(t).op, authority |-> CallOf(t).authority,
         program_id |-> Named(Target(t)),
         amount |-> IF out.kind = "report" THEN out.value ELSE out.amount]

\* The accounts an adapter is given, for each signer and list: a function, which
\* TLC computes once.
Given == [signer \in Keys |->
            [listed \in {p.accounts : p \in Payloads} |-> AdapterAccounts(signer, listed)]]

---------------------------------------------------------------------------
RInit ==
    /\ Init
    /\ turn = [t \in Slots |-> NoTurn]
    /\ trace = [t \in Slots |-> Untouched]
    /\ settled = Untouched

\* The dispatcher calls the adapter with the client's payload.
CallAdapter(t) ==
    /\ BeginRoute(t)
    /\ \E p \in Payloads :
          /\ Len(p.extra) = IF Ix(t).op = "current_value" THEN 0 ELSE Ix(t).extra
          /\ turn' = [turn EXCEPT ![t] =
                        [stage |-> "called", extra |-> p.extra, listed |-> p.accounts,
                         given |-> Given[Ix(t).signer][p.accounts]]]
    /\ UNCHANGED <<trace, settled>>

AtStage(t, stage) == turn[t] # NoTurn /\ turn[t].stage = stage

Reaches(t, stage) == turn' = [turn EXCEPT ![t].stage = stage]

Recorded(t, events, effects) ==
    trace' = [trace EXCEPT ![t] = [events |-> events, effects |-> effects]]

\* The slot's transaction is over and nothing of it remains.
Forget(t) ==
    /\ turn' = [turn EXCEPT ![t] = NoTurn]
    /\ trace' = [trace EXCEPT ![t] = Untouched]

\* A constraint, a check or a slice of the adapter fails.
AdapterRefuses(t) ==
    /\ AtStage(t, "called")
    /\ Outcome(t).kind \in {"reject", "panic"}
    /\ AdapterFails(t)
    /\ Forget(t)
    /\ UNCHANGED settled

\* invoke() of the protocol, which carries out the function or fails.
ProtocolExecutes(t) ==
    /\ AtStage(t, "called")
    /\ Outcome(t).kind = "invoke"
    /\ AdapterInvokesProtocol(t)
    /\ Reaches(t, "done")
    /\ Recorded(t, trace[t].events, Append(trace[t].effects, Effect(t)))
    /\ UNCHANGED settled

ProtocolFails(t) ==
    /\ AtStage(t, "called")
    /\ Outcome(t).kind = "invoke"
    /\ AdapterFails(t)
    /\ Forget(t)
    /\ UNCHANGED settled

\* The mock adapter takes the call.
AdapterAccepts(t) ==
    /\ AtStage(t, "called")
    /\ Outcome(t).kind = "accept"
    /\ Reaches(t, "done")
    /\ UNCHANGED <<vars, trace, settled>>

\* Mutant: the value is computed and set_return_u64 is forgotten.
AdapterReportsNothing(t) ==
    /\ AtStage(t, "called")
    /\ Outcome(t).kind = "report"
    /\ Reaches(t, "done")
    /\ UNCHANGED <<vars, trace, settled>>

\* set_return_u64.
AdapterReports(t) ==
    /\ AtStage(t, "called")
    /\ Outcome(t).kind = "report"
    /\ AdapterSetsReturnData(t)
    /\ tx'[t].ret.data = Outcome(t).value
    /\ Reaches(t, "done")
    /\ UNCHANGED <<trace, settled>>

\* The adapter emits its event and returns.
AdapterReturns(t) ==
    /\ AtStage(t, "done")
    /\ AdapterSucceeds(t)
    /\ Reaches(t, "returned")
    /\ Recorded(t, Append(trace[t].events, AdapterEvent(t)), trace[t].effects)
    /\ UNCHANGED settled

\* The dispatcher's last lines.
DispatcherReturns(t) ==
    /\ FinishRoute(t) \/ FinishCurrentValue(t)
    /\ turn' = [turn EXCEPT ![t] = NoTurn]
    /\ UNCHANGED <<trace, settled>>

DispatcherRefuses(t) ==
    /\ RejectCall(t)
    /\ Forget(t)
    /\ UNCHANGED settled

LocalInstruction(t) ==
    /\ ExecRegistryInit(t) \/ ExecAdapterInit(t) \/ ExecToggle(t)
    /\ UNCHANGED <<turn, trace, settled>>

CommitAll(t) ==
    /\ Commit(t)
    /\ settled' = trace[t]
    /\ Forget(t)

\* read_return_u64 failing is not among the steps: EveryAdapterAnswers shows it
\* never gets the chance.
RAdvance(t) ==
    \/ LocalInstruction(t) \/ CallAdapter(t)
    \/ AdapterRefuses(t) \/ ProtocolExecutes(t) \/ ProtocolFails(t)
    \/ AdapterAccepts(t) \/ AdapterReports(t) \/ AdapterReturns(t)
    \/ DispatcherReturns(t) \/ DispatcherRefuses(t) \/ CommitAll(t)

RStart(t) ==
    /\ \E body \in Transactions : Start(t, body)
    /\ UNCHANGED <<turn, trace, settled>>

RNext == \E t \in Slots : RStart(t) \/ RAdvance(t)

RSpec == RInit /\ [][RNext]_rvars
===========================================================================
