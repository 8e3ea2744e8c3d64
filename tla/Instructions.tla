--------------------------- MODULE Instructions ---------------------------
(***************************************************************************)
(* The instructions of the dispatcher program as operators on a view, the  *)
(* account data a transaction sees: which calls each handler accepts       *)
(* (account constraints, #[access_control] and invariant() together) and   *)
(* what it writes and emits.  They are the common vocabulary of the serial *)
(* and the concurrent specifications.                                      *)
(*                                                                         *)
(* Left out: PDA bumps, rent and fees, registered_at (read by no program), *)
(* account order and the bytes of extra_data.                              *)
(***************************************************************************)
EXTENDS AdapterInterface, Sequences

CONSTANTS
    Keys,           \* public keys that sign transactions or own entries
    Programs,       \* program ids of adapter programs
    Mints,          \* token mints
    DefaultKey,     \* Pubkey::default()
    INITIALIZER,    \* the key compiled into the dispatcher
    NoRegistry,     \* the registry PDA before registry_init
    NoEntry,        \* an adapter PDA before adapter_init
    DISPATCHER,     \* the dispatcher's own program id
    PROTOCOL        \* a program an adapter invokes in turn

(***************************************************************************)
(* Accounts.  An entry's PDA is derived from its program id and its        *)
(* authority, so a pair names it; the registry PDA is a singleton, and is  *)
(* represented by the initializer it stores.                               *)
(***************************************************************************)
Pda == Programs \X Keys

Entry == [authority : Keys, program_id : Programs, supported_mint : Mints,
          status : Byte]

\* The seeds constraint: an entry is stored at the PDA of its own fields.
AtPda(entry, pda) == pda = <<entry.program_id, entry.authority>>

View == [registry : Keys \cup {NoRegistry},
         adapters : [Pda -> Entry \cup {NoEntry}]]

ASSUME KeyAssumption ==
    /\ INITIALIZER \in Keys
    /\ INITIALIZER # DefaultKey
    /\ NoRegistry \notin Keys
    /\ NoEntry \notin Entry

(***************************************************************************)
(* Instructions.  Every instruction names its signer and the adapter PDA   *)
(* it passes; adapter_init's arguments are the two parts of that PDA, the  *)
(* mint and the status byte.  An operation ignores the fields it has no    *)
(* use for.                                                                *)
(***************************************************************************)
RouteOps == {"deposit", "withdraw", "current_value"}

Ops == {"registry_init", "adapter_init", "toggle_adapter"} \cup RouteOps

Instruction == [op : Ops, signer : Keys, adapter : Pda, mint : Mints,
                status : Byte, amount : Nat, extra : Nat]

(***************************************************************************)
(* registry_init.                                                          *)
(***************************************************************************)
CanRegistryInit(v, ix) ==
    /\ ix.signer = INITIALIZER
    /\ v.registry = NoRegistry
    /\ ix.signer # DefaultKey

RegistryInit(v, ix) == [v EXCEPT !.registry = ix.signer]

(***************************************************************************)
(* adapter_init.                                                           *)
(***************************************************************************)
\* Mutant: authority and program_id, both public keys, change places.
NewEntrySwapped(ix) ==
    [authority |-> ix.adapter[1], program_id |-> ix.adapter[2],
     supported_mint |-> ix.mint, status |-> ix.status]

NewEntry(ix) ==
    [authority |-> ix.adapter[2], program_id |-> ix.adapter[1],
     supported_mint |-> ix.mint, status |-> ix.status]

\* Adapter::invariant, evaluated on registration.
EntryInvariant(entry) ==
    /\ DefaultKey \notin {entry.authority, entry.program_id, entry.supported_mint}
    /\ ValidStatus(entry.status)

\* Mutants: no call of invariant(), no comparison with the registry's
\* initializer, and init_if_needed instead of init.
CanAdapterInitUnchecked(v, ix) ==
    /\ v.registry # NoRegistry
    /\ v.registry = ix.signer
    /\ v.adapters[ix.adapter] = NoEntry
    /\ ValidStatus(ix.status)

CanAdapterInitByAnyone(v, ix) ==
    /\ v.registry # NoRegistry
    /\ v.adapters[ix.adapter] = NoEntry
    /\ ValidStatus(ix.status)
    /\ EntryInvariant(NewEntry(ix))

CanAdapterInitAgain(v, ix) ==
    /\ v.registry # NoRegistry
    /\ v.registry = ix.signer
    /\ ValidStatus(ix.status)
    /\ EntryInvariant(NewEntry(ix))

CanAdapterInit(v, ix) ==
    /\ v.registry # NoRegistry
    /\ v.registry = ix.signer
    /\ v.adapters[ix.adapter] = NoEntry
    /\ ValidStatus(ix.status)
    /\ EntryInvariant(NewEntry(ix))

AdapterInit(v, ix) == [v EXCEPT !.adapters[ix.adapter] = NewEntry(ix)]

(***************************************************************************)
(* toggle_adapter.                                                         *)
(***************************************************************************)
NextStatus(status) == IF status = Active THEN Paused ELSE Active

\* Mutant: the constraint on the entry's authority is missing.
CanToggleByAnyone(v, ix) ==
    LET entry == v.adapters[ix.adapter]
    IN  /\ entry # NoEntry
        /\ ValidStatus(entry.status)
        /\ entry.status # Deprecated

CanToggle(v, ix) ==
    LET entry == v.adapters[ix.adapter]
    IN  /\ entry # NoEntry
        /\ entry.authority = ix.signer
        /\ ValidStatus(entry.status)
        /\ entry.status # Deprecated

Toggle(v, ix) ==
    [v EXCEPT !.adapters[ix.adapter].status = NextStatus(@)]

\* Mutant: the event tells the status the entry had before.
ToggleEventTooEarly(v, ix) ==
    [event |-> "ToggleEvent", authority |-> ix.signer, adapter |-> ix.adapter,
     program_id |-> v.adapters[ix.adapter].program_id,
     status |-> NextStatus(v.adapters[ix.adapter].status)]

ToggleEvent(v, ix) ==
    [event |-> "ToggleEvent", authority |-> ix.signer, adapter |-> ix.adapter,
     program_id |-> v.adapters[ix.adapter].program_id,
     status |-> v.adapters[ix.adapter].status]

(***************************************************************************)
(* deposit, withdraw and current_value: the account and access_control     *)
(* checks before the CPI, the CPI itself, and the event after it.  None of *)
(* them writes an account of the dispatcher.                               *)
(***************************************************************************)
\* Mutant: validate() only asks for a known status.
CanRouteUnlessUnknown(v, ix) ==
    LET entry == v.adapters[ix.adapter]
    IN  /\ entry # NoEntry
        /\ ValidStatus(entry.status)
        /\ ix.op # "current_value" => ix.extra <= EXTRA_DATA_MAX_LEN

\* Mutant: extra_data may have any length.
CanRouteOfAnyLength(v, ix) ==
    LET entry == v.adapters[ix.adapter]
    IN  /\ entry # NoEntry
        /\ ValidStatus(entry.status)
        /\ IsActive(entry.status)

CanRoute(v, ix) ==
    LET entry == v.adapters[ix.adapter]
    IN  /\ entry # NoEntry
        /\ ValidStatus(entry.status)
        /\ IsActive(entry.status)
        /\ ix.op # "current_value" => ix.extra <= EXTRA_DATA_MAX_LEN

\* The instruction sent to the adapter: program, signer and arguments.
AdapterCall(v, ix) ==
    [op |-> ix.op, program_id |-> v.adapters[ix.adapter].program_id,
     authority |-> ix.signer, amount |-> ix.amount]

\* Mutant: the event names the entry's authority instead of the user.
RouteEventOfEntry(v, ix) ==
    [event |-> ix.op, authority |-> v.adapters[ix.adapter].authority,
     program_id |-> v.adapters[ix.adapter].program_id, amount |-> ix.amount]

\* DepositEvent and WithdrawEvent; op tells which.
RouteEvent(v, ix) ==
    [event |-> ix.op, authority |-> ix.signer,
     program_id |-> v.adapters[ix.adapter].program_id, amount |-> ix.amount]

\* The return-data slot, and its content after an invocation has cleared it.
Setters == Programs \cup {DISPATCHER, PROTOCOL}

Cleared == [by |-> DISPATCHER, data |-> Empty]

\* current_value republishes the u64 it read as its own return data.
Republished(slot) == [by |-> DISPATCHER, data |-> slot.data]

(***************************************************************************)
(* The handler of an instruction accepts it, up to the CPI if it has one.  *)
(***************************************************************************)
Accepts(v, ix) ==
    \/ ix.op = "registry_init" /\ CanRegistryInit(v, ix)
    \/ ix.op = "adapter_init" /\ CanAdapterInit(v, ix)
    \/ ix.op = "toggle_adapter" /\ CanToggle(v, ix)
    \/ ix.op \in RouteOps /\ CanRoute(v, ix)
===========================================================================
