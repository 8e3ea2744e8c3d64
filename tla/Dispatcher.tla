---------------------------- MODULE Dispatcher ----------------------------
(***************************************************************************)
(* The dispatcher program as the Solana runtime executes it.               *)
(*                                                                         *)
(* A transaction is a sequence of instructions.  It declares every account *)
(* it touches, and whether it writes it: the runtime runs transactions in  *)
(* parallel when no account one of them writes is declared by the other.   *)
(* Each works on its own view of the accounts; if all its instructions     *)
(* succeed the accounts it declared writable are stored, otherwise nothing *)
(* is.  The declarations are those of the program's #[derive(Accounts)]    *)
(* structs, so which calls may overlap is decided by the mut and init      *)
(* attributes in the source.                                               *)
(*                                                                         *)
(* An adapter is an external program, run between the dispatcher's checks  *)
(* and its event: it may invoke its protocol, set return data or not,      *)
(* succeed or fail.                                                        *)
(***************************************************************************)
EXTENDS Instructions

CONSTANTS
    Slots,          \* transactions the runtime can have in flight at once
    Transactions,   \* the transactions clients submit
    RegistryPda,    \* the address of the registry account
    Idle,           \* a slot with no transaction
    Unknown         \* what an observer of events knows before the first one

ASSUME TransactionAssumption == Transactions \subseteq Seq(Instruction)

ASSUME AccountAssumption ==
    /\ RegistryPda \notin Keys \cup Pda
    /\ Keys \cap Pda = {}
    /\ Unknown \notin Byte

VARIABLES
    registry,   \* committed: the initializer in the registry PDA, or NoRegistry
    adapters,   \* committed: the entry in each adapter PDA, or NoEntry
    tx,         \* per slot: the transaction in flight, or Idle
    published,  \* events, adapter calls and return data of the last commit
    indexed     \* history: each entry's status as told by ToggleEvents alone

vars == <<registry, adapters, tx, published, indexed>>

Event ==
    [event : {"ToggleEvent"}, authority : Keys, adapter : Pda,
     program_id : Programs, status : Byte]
    \cup
    [event : RouteOps, authority : Keys, program_id : Programs, amount : Nat]

Call == [op : RouteOps, program_id : Programs, authority : Keys, amount : Nat]

\* phase: "exec" between instructions, "cpi" while the adapter runs,
\* "returned" after it and before the handler's last lines.
Running ==
    [body : Transactions, pc : Nat \ {0}, phase : {"exec", "cpi", "returned"},
     view : View, events : Seq(Event), calls : Seq(Call),
     ret : ReturnSlot(Setters)]

ASSUME SlotAssumption == Idle \notin Running

---------------------------------------------------------------------------
(***************************************************************************)
(* Account declarations.  The signer is mut in every instruction; the      *)
(* registry is written by registry_init and read by adapter_init; the      *)
(* adapter entry is written by adapter_init and toggle_adapter and read by *)
(* the routed calls.                                                       *)
(***************************************************************************)
\* Mutant: toggle_adapter's adapter account is not mut.
WritesWithoutToggle(ix) ==
    {ix.signer}
    \cup (IF ix.op = "registry_init" THEN {RegistryPda} ELSE {})
    \cup (IF ix.op = "adapter_init" THEN {ix.adapter} ELSE {})

Writes(ix) ==
    {ix.signer}
    \cup (IF ix.op = "registry_init" THEN {RegistryPda} ELSE {})
    \cup (IF ix.op \in {"adapter_init", "toggle_adapter"} THEN {ix.adapter} ELSE {})

Reads(ix) ==
    (IF ix.op = "adapter_init" THEN {RegistryPda} ELSE {})
    \cup (IF ix.op \in RouteOps THEN {ix.adapter} ELSE {})

WriteLocks(body) == UNION {Writes(body[i]) : i \in DOMAIN body}
ReadLocks(body)  == UNION {Reads(body[i]) : i \in DOMAIN body}
Locks(body)      == WriteLocks(body) \cup ReadLocks(body)

Conflict(b, c) ==
    WriteLocks(b) \cap Locks(c) # {} \/ Locks(b) \cap WriteLocks(c) # {}

---------------------------------------------------------------------------
(***************************************************************************)
(* Reading the transaction of a slot.                                      *)
(***************************************************************************)
InFlight(t) == tx[t] # Idle

AtInstruction(t, phase) ==
    InFlight(t) /\ tx[t].phase = phase /\ tx[t].pc \in DOMAIN tx[t].body

Ix(t) == tx[t].body[tx[t].pc]

\* The program the adapter entry of the current instruction names.
Target(t) == tx[t].view.adapters[Ix(t).adapter].program_id

Init ==
    /\ registry = NoRegistry
    /\ adapters = [pda \in Pda |-> NoEntry]
    /\ tx = [t \in Slots |-> Idle]
    /\ published = [events |-> <<>>, calls |-> <<>>, ret |-> Cleared]
    /\ indexed = [pda \in Pda |-> Unknown]

---------------------------------------------------------------------------
\* The transaction of slot t moves on; nothing else does.
Becomes(t, next) ==
    /\ tx' = [tx EXCEPT ![t] = next]
    /\ UNCHANGED <<registry, adapters, published, indexed>>

\* A transaction starts on its own view of the committed accounts.
Admitted(body) ==
    [body |-> body, pc |-> 1, phase |-> "exec",
     view |-> [registry |-> registry, adapters |-> adapters],
     events |-> <<>>, calls |-> <<>>, ret |-> Cleared]

(***************************************************************************)
(* The runtime admits a transaction once it conflicts with none in flight. *)
(***************************************************************************)
Start(t, body) ==
    /\ ~InFlight(t)
    /\ \A u \in Slots : InFlight(u) => ~Conflict(body, tx[u].body)
    /\ Becomes(t, Admitted(body))

\* The handler of the current instruction returns Ok, leaving this view.
Complete(t, view, events, ret) ==
    Becomes(t, [tx[t] EXCEPT !.pc = tx[t].pc + 1, !.phase = "exec",
                             !.view = view, !.events = events, !.ret = ret])

ExecRegistryInit(t) ==
    /\ AtInstruction(t, "exec")
    /\ Ix(t).op = "registry_init"
    /\ CanRegistryInit(tx[t].view, Ix(t))
    /\ Complete(t, RegistryInit(tx[t].view, Ix(t)), tx[t].events, Cleared)

ExecAdapterInit(t) ==
    /\ AtInstruction(t, "exec")
    /\ Ix(t).op = "adapter_init"
    /\ CanAdapterInit(tx[t].view, Ix(t))
    /\ Complete(t, AdapterInit(tx[t].view, Ix(t)), tx[t].events, Cleared)

ExecToggle(t) ==
    /\ AtInstruction(t, "exec")
    /\ Ix(t).op = "toggle_adapter"
    /\ CanToggle(tx[t].view, Ix(t))
    /\ LET view == Toggle(tx[t].view, Ix(t))
       IN  Complete(t, view, Append(tx[t].events, ToggleEvent(view, Ix(t))), Cleared)

\* A routed call passes its checks and invokes the adapter.
BeginRoute(t) ==
    /\ AtInstruction(t, "exec")
    /\ Ix(t).op \in RouteOps
    /\ CanRoute(tx[t].view, Ix(t))
    /\ Becomes(t, [tx[t] EXCEPT !.phase = "cpi", !.ret = Cleared])

(***************************************************************************)
(* The adapter's turn.                                                     *)
(***************************************************************************)
\* An invocation clears the slot; the protocol may then fill it.
AdapterInvokesProtocol(t) ==
    /\ AtInstruction(t, "cpi")
    /\ \E data \in ReturnData :
          Becomes(t, [tx[t] EXCEPT !.ret = [by |-> PROTOCOL, data |-> data]])

AdapterSetsReturnData(t) ==
    /\ AtInstruction(t, "cpi")
    /\ \E data \in Value \cup {TooShort} :
          Becomes(t, [tx[t] EXCEPT !.ret = [by |-> Target(t), data |-> data]])

AdapterSucceeds(t) ==
    /\ AtInstruction(t, "cpi")
    /\ Becomes(t, [tx[t] EXCEPT
                      !.phase = "returned",
                      !.calls = Append(tx[t].calls, AdapterCall(tx[t].view, Ix(t)))])

(***************************************************************************)
(* The handler's last lines, after the CPI.                                *)
(***************************************************************************)
FinishRoute(t) ==
    /\ AtInstruction(t, "returned")
    /\ Ix(t).op \in {"deposit", "withdraw"}
    /\ Complete(t, tx[t].view,
                Append(tx[t].events, RouteEvent(tx[t].view, Ix(t))), tx[t].ret)

FinishCurrentValue(t) ==
    /\ AtInstruction(t, "returned")
    /\ Ix(t).op = "current_value"
    /\ HasReturnU64(tx[t].ret)
    /\ Complete(t, tx[t].view, tx[t].events, Republished(tx[t].ret))

(***************************************************************************)
(* Any error ends the transaction and leaves nothing behind.               *)
(***************************************************************************)
Abort(t) == Becomes(t, Idle)

\* A constraint, check or invariant of the handler fails.
RejectCall(t) ==
    /\ AtInstruction(t, "exec")
    /\ ~Accepts(tx[t].view, Ix(t))
    /\ Abort(t)

\* The CPI fails; the runtime fails the caller with it.
AdapterFails(t) ==
    /\ AtInstruction(t, "cpi")
    /\ Abort(t)


\* read_return_u64 fails: MissingReturnData or InvalidReturnData.
RejectReturnData(t) ==
    /\ AtInstruction(t, "returned")
    /\ Ix(t).op = "current_value"
    /\ ~HasReturnU64(tx[t].ret)
    /\ Abort(t)

(***************************************************************************)
(* All instructions are done: the accounts declared writable are stored    *)
(* and the events become visible.                                          *)
(***************************************************************************)
Stored(t) ==
    [pda \in Pda |-> IF pda \in WriteLocks(tx[t].body)
                     THEN tx[t].view.adapters[pda] ELSE adapters[pda]]

\* Event i is the last ToggleEvent of an entry.
IsToggle(event, pda) == event.event = "ToggleEvent" /\ event.adapter = pda

LastToggle(events, pda, i) ==
    /\ i \in DOMAIN events /\ IsToggle(events[i], pda)
    /\ \A j \in DOMAIN events : IsToggle(events[j], pda) => j <= i

\* What an observer knows of an entry's status after these events.
AfterEvents(events, pda) ==
    IF \E i \in DOMAIN events : LastToggle(events, pda, i)
    THEN events[CHOOSE i \in DOMAIN events : LastToggle(events, pda, i)].status
    ELSE indexed[pda]

Commit(t) ==
    /\ InFlight(t)
    /\ tx[t].phase = "exec"
    /\ tx[t].pc \notin DOMAIN tx[t].body
    /\ registry' = IF RegistryPda \in WriteLocks(tx[t].body)
                   THEN tx[t].view.registry ELSE registry
    /\ adapters' = Stored(t)
    /\ published' = [events |-> tx[t].events, calls |-> tx[t].calls, ret |-> tx[t].ret]
    /\ indexed' = [pda \in Pda |-> AfterEvents(tx[t].events, pda)]
    /\ tx' = [tx EXCEPT ![t] = Idle]

---------------------------------------------------------------------------
\* A step that brings the transaction of t nearer its end.
Advance(t) ==
    \/ ExecRegistryInit(t) \/ ExecAdapterInit(t) \/ ExecToggle(t)
    \/ BeginRoute(t) \/ AdapterSucceeds(t)
    \/ FinishRoute(t) \/ FinishCurrentValue(t)
    \/ RejectCall(t) \/ AdapterFails(t) \/ RejectReturnData(t)
    \/ Commit(t)

Next == \E t \in Slots :
    \/ \E body \in Transactions : Start(t, body)
    \/ AdapterInvokesProtocol(t)
    \/ AdapterSetsReturnData(t)
    \/ Advance(t)

Spec == Init /\ [][Next]_vars

\* The runtime executes what it has admitted, and the compute budget ends an
\* adapter that does not return.
FairSpec == Spec /\ \A t \in Slots : WF_vars(Advance(t))
===========================================================================
