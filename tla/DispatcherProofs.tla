------------------------- MODULE DispatcherProofs -------------------------
(***************************************************************************)
(* Proofs about the dispatcher, for any number of keys, programs, mints,   *)
(* transactions in flight and transactions submitted.                      *)
(***************************************************************************)
EXTENDS DispatcherInvariant, TLAPS

---------------------------------------------------------------------------
(***************************************************************************)
(* Types.                                                                  *)
(***************************************************************************)

\* The views the handlers return are views.
LEMMA HandlerTypes ==
    ASSUME NEW v \in View, NEW ix \in Instruction
    PROVE  /\ RegistryInit(v, ix) \in View
           /\ CanAdapterInit(v, ix) => AdapterInit(v, ix) \in View
           /\ CanToggle(v, ix) => Toggle(v, ix) \in View
  <1>1. RegistryInit(v, ix) \in View
    BY DEF RegistryInit, View, Instruction
  <1>2. ASSUME CanAdapterInit(v, ix) PROVE AdapterInit(v, ix) \in View
    <2>1. NewEntry(ix) \in Entry
      BY DEF NewEntry, Entry, Instruction, Pda
    <2> QED BY <2>1 DEF AdapterInit, View, Instruction
  <1>3. ASSUME CanToggle(v, ix) PROVE Toggle(v, ix) \in View
    <2> DEFINE old == v.adapters[ix.adapter]
               new == [old EXCEPT !.status = NextStatus(@)]
    <2>1. old \in Entry
      BY <1>3 DEF CanToggle, View, Instruction
    <2>2. new \in Entry
      <3>1. NextStatus(old.status) \in Byte
        BY DEF NextStatus, Active, Paused, Byte
      <3> HIDE DEF old
      <3> QED BY <2>1, <3>1 DEF Entry
    <2>3. Toggle(v, ix) = [v EXCEPT !.adapters = [v.adapters EXCEPT ![ix.adapter] = new]]
      BY DEF Toggle, View, Instruction
    <2> QED BY <2>2, <2>3 DEF View
  <1> QED BY <1>1, <1>2, <1>3

\* The current instruction of a transaction in flight is an instruction.
LEMMA IxType ==
    ASSUME TypeOK, NEW t \in Slots, NEW phase, AtInstruction(t, phase)
    PROVE  /\ tx[t] \in Running
           /\ Ix(t) \in Instruction
  BY TransactionAssumption DEF TypeOK, AtInstruction, InFlight, Ix, Running

\* What a routed call reports fits the calls and events of a transaction.
LEMMA RouteTypes ==
    ASSUME NEW v \in View, NEW ix \in Instruction,
           ix.op \in RouteOps, v.adapters[ix.adapter] # NoEntry
    PROVE  /\ AdapterCall(v, ix) \in Call
           /\ RouteEvent(v, ix) \in Event
           /\ v.adapters[ix.adapter].program_id \in Programs
  BY DEF AdapterCall, RouteEvent, Call, Event, View, Entry, Instruction

---------------------------------------------------------------------------
(***************************************************************************)
(* Locks.                                                                  *)
(***************************************************************************)

\* A transaction declares the accounts of each of its instructions.
LEMMA LocksOfIx ==
    ASSUME NEW body \in Seq(Instruction), NEW i \in DOMAIN body
    PROVE  /\ body[i].op = "registry_init" => RegistryPda \in WriteLocks(body)
           /\ body[i].op = "adapter_init" =>
                 /\ body[i].adapter \in WriteLocks(body)
                 /\ RegistryPda \in Locks(body)
           /\ body[i].op = "toggle_adapter" => body[i].adapter \in WriteLocks(body)
           /\ body[i].op \in RouteOps => body[i].adapter \in Locks(body)
  <1>1. /\ Writes(body[i]) \subseteq WriteLocks(body)
        /\ Reads(body[i]) \subseteq Locks(body)
    BY DEF WriteLocks, ReadLocks, Locks
  <1> QED BY <1>1 DEF Writes, Reads

---------------------------------------------------------------------------
(***************************************************************************)
(* A step of one transaction: the committed state stands still, so the     *)
(* invariant holds if the transaction stays sound.                         *)
(***************************************************************************)
LEMMA StepOfOne ==
    ASSUME IInv, NEW t \in Slots, NEW next \in Running \cup {Idle}, Becomes(t, next),
           next # Idle => /\ Sound(next, registry, adapters)
                          /\ \A u \in Slots : InFlight(u) /\ u # t =>
                                ~Conflict(next.body, tx[u].body)
    PROVE  IInv'
  <1> USE DEF IInv
  <1>1. tx'[t] = next /\ \A u \in Slots : u # t => tx'[u] = tx[u]
    BY DEF Becomes, TypeOK
  <1>2. TypeOK'
    BY DEF Becomes, TypeOK
  <1>3. (RegistryOK /\ EntriesWellFormed /\ EventsTellStatus)'
    BY DEF Becomes, RegistryOK, EntriesWellFormed, EventsTellStatus
  <1>4. Isolation'
    BY <1>1 DEF Isolation, InFlight, Conflict
  <1>5. AllSound'
    BY <1>1 DEF AllSound, InFlight, Becomes
  <1> QED BY <1>2, <1>3, <1>4, <1>5

\* The same for a transaction that keeps its body.
LEMMA StepWithin ==
    ASSUME IInv, NEW t \in Slots, InFlight(t), NEW next \in Running, Becomes(t, next),
           next.body = tx[t].body,
           Sound(next, registry, adapters)
    PROVE  IInv'
  BY StepOfOne DEF IInv, Isolation

\* A transaction that ends without effect leaves the invariant as it was.
LEMMA AbortStep ==
    ASSUME IInv, NEW t \in Slots, Abort(t)
    PROVE  IInv'
  BY StepOfOne DEF Abort

---------------------------------------------------------------------------
(***************************************************************************)
(* The actions, one by one.                                                *)
(***************************************************************************)

\* A transaction is admitted beside those it does not conflict with.
LEMMA StartStep ==
    ASSUME IInv, NEW t \in Slots, NEW body \in Transactions, Start(t, body)
    PROVE  IInv'
  <1> DEFINE next == Admitted(body)
  <1>1. next \in Running
    BY DEF IInv, TypeOK, Admitted, Running, View, Cleared, ReturnSlot, Setters, ReturnData
  <1>2. Sound(next, registry, adapters)
    BY DEF Admitted, Sound, SoundRegistry, SoundEntries, EntryMoves, SoundEvents, RouteHolds,
           LastToggle
  <1>3. \A u \in Slots : InFlight(u) => ~Conflict(next.body, tx[u].body)
    BY DEF Start, Admitted
  <1> QED BY <1>1, <1>2, <1>3, StepOfOne DEF Start

\* The fields a completing handler sets.
LEMMA UpdateType ==
    ASSUME NEW r \in Running, NEW pc \in Nat \ {0}, NEW view \in View,
           NEW events \in Seq(Event), NEW ret \in ReturnSlot(Setters)
    PROVE  [r EXCEPT !.pc = pc, !.phase = "exec", !.view = view,
                     !.events = events, !.ret = ret] \in Running
  BY DEF Running

\* A handler that completes with a sound view and sound events.
LEMMA CompleteStep ==
    ASSUME IInv, NEW t \in Slots, InFlight(t),
           NEW view \in View, NEW events \in Seq(Event), NEW ret \in ReturnSlot(Setters),
           Complete(t, view, events, ret),
           SoundRegistry(tx[t].body, view, registry),
           SoundEntries(tx[t].body, view, adapters),
           SoundEvents(tx[t].body, view, events, adapters)
    PROVE  IInv'
  <1> DEFINE next == [tx[t] EXCEPT !.pc = tx[t].pc + 1, !.phase = "exec",
                                   !.view = view, !.events = events, !.ret = ret]
  <1>1. tx[t] \in Running
    BY DEF IInv, TypeOK, InFlight
  <1>2. /\ next.body = tx[t].body /\ next.phase = "exec"
        /\ next.view = view /\ next.events = events
    BY <1>1 DEF Running
  <1>5. next \in Running
    <2>1. tx[t].pc + 1 \in Nat \ {0}
      BY <1>1 DEF Running
    <2> QED BY <1>1, <2>1, UpdateType
  <1>3. Becomes(t, next)
    BY DEF Complete
  <1> HIDE DEF next
  <1>4. Sound(next, registry, adapters)
    BY <1>2 DEF Sound, RouteHolds
  <1> QED BY <1>2, <1>3, <1>4, <1>5, StepWithin

\* What the invariant says of a transaction at an instruction.
LEMMA AtIx ==
    ASSUME IInv, NEW t \in Slots, NEW phase, AtInstruction(t, phase)
    PROVE  /\ InFlight(t)
           /\ tx[t] \in Running
           /\ tx[t].body \in Seq(Instruction)
           /\ tx[t].pc \in DOMAIN tx[t].body
           /\ tx[t].view \in View
           /\ tx[t].events \in Seq(Event)
           /\ Ix(t) \in Instruction
           /\ Sound(tx[t], registry, adapters)
  BY IxType, TransactionAssumption DEF IInv, AllSound, AtInstruction, Running

\* The cleared return-data slot is a return-data slot.
LEMMA ClearedType == Cleared \in ReturnSlot(Setters)
  BY DEF Cleared, ReturnSlot, Setters, ReturnData

\* A toggled entry is an entry that differs in its status alone.
LEMMA ToggledType ==
    ASSUME NEW pda \in Pda, NEW body, NEW old \in Entry \cup {NoEntry}, NEW new,
           ToggledEntry(pda, body, old, new)
    PROVE  /\ old \in Entry /\ new \in Entry /\ new # NoEntry
           /\ new.status \in {Active, Paused}
           /\ new.authority = old.authority
           /\ new.program_id = old.program_id
           /\ new.supported_mint = old.supported_mint
  <1>1. old \in Entry
    BY DEF ToggledEntry
  <1>2. PICK status \in {Active, Paused} : new = [old EXCEPT !.status = status]
    BY DEF ToggledEntry
  <1>3. status \in Byte
    BY DEF Active, Paused, Byte
  <1>4. new \in Entry
    BY <1>1, <1>2, <1>3 DEF Entry
  <1> QED BY <1>1, <1>2, <1>4, KeyAssumption DEF Entry

\* registry_init: only a transaction that write-locks the registry creates it.
LEMMA RegistryInitStep ==
    ASSUME IInv, NEW t \in Slots, ExecRegistryInit(t)
    PROVE  IInv'
  <1> DEFINE body == tx[t].body
             old == tx[t].view
             view == RegistryInit(old, Ix(t))
  <1>1. AtInstruction(t, "exec") /\ CanRegistryInit(old, Ix(t))
        /\ Complete(t, view, tx[t].events, Cleared)
    BY DEF ExecRegistryInit
  <1>2. view \in View
    BY <1>1, AtIx, HandlerTypes
  <1>3. view.registry = INITIALIZER /\ view.adapters = old.adapters
    BY <1>1, AtIx DEF CanRegistryInit, RegistryInit, View
  <1>4. RegistryPda \in WriteLocks(body)
    BY <1>1, AtIx, LocksOfIx DEF ExecRegistryInit, Ix
  <1>5. old.registry = NoRegistry /\ old.registry # INITIALIZER
    BY <1>1, KeyAssumption DEF CanRegistryInit
  <1>6. SoundRegistry(body, view, registry)
    BY <1>1, <1>3, <1>4, <1>5, AtIx DEF Sound, SoundRegistry, Locks
  <1>7. SoundEntries(body, view, adapters)
    BY <1>1, <1>3, <1>5, AtIx DEF Sound, SoundEntries, EntryMoves, FreshEntry
  <1>8. SoundEvents(body, view, tx[t].events, adapters)
    BY <1>1, <1>3, AtIx DEF Sound, SoundEvents
  <1> HIDE DEF view
  <1> QED BY <1>1, <1>2, <1>6, <1>7, <1>8, AtIx, ClearedType, CompleteStep

\* adapter_init: the entry is new and well formed, under INITIALIZER's signature.
LEMMA AdapterInitStep ==
    ASSUME IInv, NEW t \in Slots, ExecAdapterInit(t)
    PROVE  IInv'
  <1> DEFINE body == tx[t].body
             old == tx[t].view
             here == Ix(t).adapter
             view == AdapterInit(old, Ix(t))
  <1>1. AtInstruction(t, "exec") /\ CanAdapterInit(old, Ix(t))
        /\ Complete(t, view, tx[t].events, Cleared)
    BY DEF ExecAdapterInit
  <1>2. view \in View
    BY <1>1, AtIx, HandlerTypes
  <1>3. /\ view.registry = old.registry
        /\ here \in Pda
        /\ view.adapters[here] = NewEntry(Ix(t))
        /\ \A pda \in Pda : pda # here => view.adapters[pda] = old.adapters[pda]
    BY <1>1, AtIx DEF AdapterInit, View, Instruction
  <1>4. here \in WriteLocks(body) /\ RegistryPda \in Locks(body)
    BY <1>1, AtIx, LocksOfIx DEF ExecAdapterInit, Ix
  <1>5. old.registry = INITIALIZER /\ Ix(t).signer = INITIALIZER
    BY <1>1, <1>4, AtIx DEF CanAdapterInit, Sound, SoundRegistry, IInv, RegistryOK
  <1>6. SoundRegistry(body, view, registry)
    BY <1>1, <1>3, AtIx DEF Sound, SoundRegistry
  <1>7. SoundEntries(body, view, adapters)
    <2>1. adapters[here] = NoEntry
      <3>1. old.adapters[here] = NoEntry /\ adapters[here] \in Entry \cup {NoEntry}
        BY <1>1, <1>3 DEF CanAdapterInit, IInv, TypeOK
      <3>2. EntryMoves(here, body, adapters[here], NoEntry, old.registry)
        BY <1>1, <1>3, <1>4, <3>1, AtIx DEF Sound, SoundEntries
      <3> QED BY <1>3, <3>1, <3>2, ToggledType DEF EntryMoves, FreshEntry
    <2>2. FreshEntry(here, body, adapters[here], view.adapters[here], view.registry)
      <3>1. NewEntry(Ix(t)) \in Entry
        BY <1>1, AtIx DEF NewEntry, Entry, Instruction, Pda
      <3>2. AtPda(NewEntry(Ix(t)), here)
        BY <1>1, AtIx DEF AtPda, NewEntry, Instruction, Pda
      <3>3. Signed(body, "adapter_init", here, INITIALIZER)
        BY <1>1, <1>5, AtIx DEF ExecAdapterInit, Signed, Ix
      <3> QED BY <1>1, <1>3, <1>5, <2>1, <3>1, <3>2, <3>3 DEF FreshEntry, CanAdapterInit
    <2> QED BY <1>1, <1>3, <1>4, <2>2, AtIx DEF Sound, SoundEntries, EntryMoves
  <1>8. SoundEvents(body, view, tx[t].events, adapters)
    BY <1>1, <1>3, <1>4, AtIx, KeyAssumption
       DEF Sound, SoundEvents, SoundEntries, CanAdapterInit, EntryMoves, FreshEntry,
           ToggledEntry, LastToggle
  <1> HIDE DEF view
  <1> QED BY <1>1, <1>2, <1>6, <1>7, <1>8, AtIx, ClearedType, CompleteStep

\* Where the toggles of an entry stand after one more event.
LEMMA AppendEvent ==
    ASSUME NEW events \in Seq(Event), NEW event \in Event, NEW pda \in Pda
    PROVE  /\ Append(events, event) \in Seq(Event)
           /\ IsToggle(event, pda) =>
                 /\ LastToggle(Append(events, event), pda, Len(events) + 1)
                 /\ Append(events, event)[Len(events) + 1] = event
                 /\ \A i \in DOMAIN Append(events, event) :
                       LastToggle(Append(events, event), pda, i) => i = Len(events) + 1
           /\ ~IsToggle(event, pda) =>
                 /\ \A i \in DOMAIN Append(events, event) :
                       IsToggle(Append(events, event)[i], pda) =>
                          i \in DOMAIN events /\ Append(events, event)[i] = events[i]
                 /\ \A i : LastToggle(Append(events, event), pda, i) =>
                          /\ LastToggle(events, pda, i)
                          /\ Append(events, event)[i] = events[i]
                 /\ \A i : LastToggle(events, pda, i) =>
                              LastToggle(Append(events, event), pda, i)
  <1> DEFINE more == Append(events, event)
  <1>1. /\ more \in Seq(Event)
        /\ DOMAIN events = 1..Len(events)
        /\ DOMAIN more = 1..(Len(events) + 1)
        /\ Len(events) \in Nat
        /\ more[Len(events) + 1] = event
        /\ \A i \in 1..Len(events) : more[i] = events[i]
    OBVIOUS
  <1> HIDE DEF more
  <1>2. ASSUME IsToggle(event, pda)
        PROVE  /\ LastToggle(more, pda, Len(events) + 1)
               /\ \A i \in DOMAIN more : LastToggle(more, pda, i) => i = Len(events) + 1
    BY <1>1, <1>2 DEF LastToggle
  <1>3. ASSUME ~IsToggle(event, pda)
        PROVE  \A i \in DOMAIN more : IsToggle(more[i], pda) =>
                  i \in DOMAIN events /\ more[i] = events[i]
    BY <1>1, <1>3
  <1>4. ASSUME ~IsToggle(event, pda)
        PROVE  /\ \A i : LastToggle(more, pda, i) =>
                            LastToggle(events, pda, i) /\ more[i] = events[i]
               /\ \A i : LastToggle(events, pda, i) => LastToggle(more, pda, i)
    BY <1>1, <1>3, <1>4 DEF LastToggle
  <1> QED BY <1>1, <1>2, <1>3, <1>4 DEF more

\* Events that are no toggles tell nothing new about statuses.
LEMMA OtherEvent ==
    ASSUME NEW body, NEW view, NEW ads, NEW events \in Seq(Event), NEW event \in Event,
           event.event # "ToggleEvent",
           SoundEvents(body, view, events, ads)
    PROVE  SoundEvents(body, view, Append(events, event), ads)
  <1> DEFINE more == Append(events, event)
  <1>1. \A pda \in Pda : ~IsToggle(event, pda)
    BY DEF IsToggle
  <1>2. ASSUME NEW pda \in Pda
        PROVE  /\ \A i \in DOMAIN more : IsToggle(more[i], pda) =>
                     i \in DOMAIN events /\ more[i] = events[i]
               /\ \A i : LastToggle(more, pda, i) =>
                            LastToggle(events, pda, i) /\ more[i] = events[i]
               /\ \A i : LastToggle(events, pda, i) => LastToggle(more, pda, i)
    BY <1>1, AppendEvent
  <1>3. \A pda \in Pda : \A i : LastToggle(events, pda, i) => i \in DOMAIN events
    BY DEF LastToggle
  <1>4. \A pda \in Pda : \A i : LastToggle(more, pda, i) => i \in DOMAIN more
    BY DEF LastToggle
  <1> HIDE DEF more
  <1>5. SoundEvents(body, view, more, ads)
    BY <1>2, <1>3, <1>4 DEF SoundEvents
  <1> QED BY <1>5 DEF more

\* What a toggle does to the entry, whatever the transaction did to it before.
LEMMA ToggleAgain ==
    ASSUME NEW pda \in Pda, NEW body, NEW old \in Entry \cup {NoEntry}, NEW mid, NEW reg,
           EntryMoves(pda, body, old, mid, reg), mid \in Entry,
           ValidStatus(mid.status), mid.status # Deprecated,
           Signed(body, "toggle_adapter", pda, mid.authority),
           NEW status \in {Active, Paused}
    PROVE  EntryMoves(pda, body, old, [mid EXCEPT !.status = status], reg)
  <1> DEFINE new == [mid EXCEPT !.status = status]
  <1>1. /\ new \in Entry
        /\ new.authority = mid.authority /\ new.program_id = mid.program_id
        /\ new.supported_mint = mid.supported_mint /\ new.status = status
    BY DEF Entry, Active, Paused, Byte
  <1>2. CASE mid = old
    BY <1>2, KeyAssumption
       DEF EntryMoves, ToggledEntry, ValidStatus
  <1>3. CASE FreshEntry(pda, body, old, mid, reg)
    BY <1>1, <1>3 DEF EntryMoves, FreshEntry, EntryInvariant, AtPda, ValidStatus
  <1>4. CASE ToggledEntry(pda, body, old, mid)
    <2>1. old \in Entry
      BY <1>4, ToggledType
    <2>2. new = [old EXCEPT !.status = status]
      BY <1>4, <2>1 DEF ToggledEntry, Entry
    <2> QED BY <1>4, <2>2 DEF EntryMoves, ToggledEntry
  <1> QED BY <1>2, <1>3, <1>4 DEF EntryMoves

\* An entry with another valid status is an entry.
LEMMA StatusType ==
    ASSUME NEW entry \in Entry, NEW status \in {Active, Paused}
    PROVE  [entry EXCEPT !.status = status] \in Entry
  BY DEF Entry, Active, Paused, Byte

\* toggle_adapter: the entry moves between Active and Paused, and its event says so.
LEMMA ToggleStep ==
    ASSUME IInv, NEW t \in Slots, ExecToggle(t)
    PROVE  IInv'
  <1> DEFINE body == tx[t].body
             old == tx[t].view
             here == Ix(t).adapter
             mid == old.adapters[here]
             view == Toggle(old, Ix(t))
             event == ToggleEvent(view, Ix(t))
             events == Append(tx[t].events, event)
  <1>1. AtInstruction(t, "exec") /\ CanToggle(old, Ix(t)) /\ Complete(t, view, events, Cleared)
    BY DEF ExecToggle
  <1>2. view \in View
    BY <1>1, AtIx, HandlerTypes
  <1>3. here \in Pda /\ mid \in Entry /\ NextStatus(mid.status) \in {Active, Paused}
    BY <1>1, AtIx DEF CanToggle, View, Instruction, NextStatus
  <1>4. /\ view.registry = old.registry
        /\ view.adapters[here] = [mid EXCEPT !.status = NextStatus(mid.status)]
        /\ \A pda \in Pda : pda # here => view.adapters[pda] = old.adapters[pda]
    BY <1>1, <1>3, AtIx DEF Toggle, View
  <1>5. view.adapters[here] \in Entry
    BY <1>3, <1>4, StatusType
  <1>6. here \in WriteLocks(body)
    BY <1>1, AtIx, LocksOfIx DEF ExecToggle, Ix
  <1>7. SoundRegistry(body, view, registry)
    BY <1>1, <1>4, AtIx DEF Sound, SoundRegistry
  <1>8. SoundEntries(body, view, adapters)
    <2>1. EntryMoves(here, body, adapters[here], mid, old.registry)
      BY <1>1, <1>3, <1>6, AtIx DEF Sound, SoundEntries
    <2>2. Signed(body, "toggle_adapter", here, mid.authority)
      BY <1>1, AtIx DEF ExecToggle, CanToggle, Signed, Ix
    <2>3. adapters[here] \in Entry \cup {NoEntry}
      BY <1>3 DEF IInv, TypeOK
    <2>4. EntryMoves(here, body, adapters[here], view.adapters[here], old.registry)
      <3>1. ValidStatus(mid.status) /\ mid.status # Deprecated
        BY <1>1 DEF CanToggle
      <3> DEFINE status == NextStatus(mid.status)
                 reg == old.registry
      <3>2. status \in {Active, Paused}
        BY <1>3
      <3> HIDE DEF body, here, mid, status, reg
      <3>3. EntryMoves(here, body, adapters[here], [mid EXCEPT !.status = status], reg)
        BY <1>3, <2>1, <2>2, <2>3, <3>1, <3>2, ToggleAgain DEF reg
      <3> QED BY <1>4, <3>3 DEF status, reg
    <2> QED BY <1>1, <1>4, <1>6, <2>4, AtIx DEF Sound, SoundEntries
  <1>9. event \in Event /\ IsToggle(event, here) /\ event.status = view.adapters[here].status
        /\ \A pda \in Pda : pda # here => ~IsToggle(event, pda)
    BY <1>1, <1>2, <1>5, AtIx DEF ToggleEvent, Event, IsToggle, Entry, Instruction
  <1> HIDE DEF view, event
  <1>10. SoundEvents(body, view, events, adapters)
    <2> DEFINE past == tx[t].events
    <2>1. past \in Seq(Event) /\ SoundEvents(body, old, past, adapters)
      BY <1>1, AtIx DEF Sound
    <2>2. ASSUME NEW pda \in Pda, pda # here
          PROVE  /\ \A i \in DOMAIN events : IsToggle(events[i], pda) =>
                       i \in DOMAIN past /\ events[i] = past[i]
                 /\ \A i : LastToggle(events, pda, i) =>
                              LastToggle(past, pda, i) /\ events[i] = past[i]
                 /\ \A i : LastToggle(past, pda, i) => LastToggle(events, pda, i)
      BY <1>9, <2>1, <2>2, AppendEvent
    <2>3. /\ LastToggle(events, here, Len(past) + 1)
          /\ \A i \in DOMAIN events : LastToggle(events, here, i) => events[i] = event
      BY <1>3, <1>9, <2>1, AppendEvent
    <2>4. \A pda \in Pda : \A i :
             /\ LastToggle(events, pda, i) => i \in DOMAIN events
             /\ LastToggle(past, pda, i) => i \in DOMAIN past
      BY DEF LastToggle
    <2> HIDE DEF events, past, here, body, old, mid
    <2>5. view.adapters[here] # NoEntry
      BY <1>5, KeyAssumption
    <2> DEFINE Told(pda) ==
          /\ \A i \in DOMAIN events : IsToggle(events[i], pda) => pda \in WriteLocks(body)
          /\ \A i \in DOMAIN events : LastToggle(events, pda, i) =>
                /\ view.adapters[pda] # NoEntry
                /\ view.adapters[pda].status = events[i].status
          /\ pda \in WriteLocks(body) /\ adapters[pda] # NoEntry =>
                \/ view.adapters[pda] = adapters[pda]
                \/ \E i \in DOMAIN events : LastToggle(events, pda, i)
    <2>6. Told(here)
      BY <1>3, <1>6, <1>9, <2>3, <2>4, <2>5
    <2>7. ASSUME NEW pda \in Pda, pda # here PROVE Told(pda)
      BY <1>4, <2>1, <2>2, <2>4, <2>7 DEF SoundEvents
    <2> HIDE DEF Told
    <2>8. \A pda \in Pda : Told(pda)
      BY <2>6, <2>7
    <2> QED BY <2>8 DEF SoundEvents, Told
  <1>11. events \in Seq(Event)
    BY <1>1, <1>9, AtIx
  <1> HIDE DEF events
  <1> QED BY <1>1, <1>2, <1>7, <1>8, <1>10, <1>11, AtIx, ClearedType, CompleteStep

\* deposit, withdraw or current_value passes its checks: its entry is Active.
LEMMA BeginRouteStep ==
    ASSUME IInv, NEW t \in Slots, BeginRoute(t)
    PROVE  IInv'
  <1> DEFINE next == [tx[t] EXCEPT !.phase = "cpi", !.ret = Cleared]
  <1>1. AtInstruction(t, "exec") /\ CanRoute(tx[t].view, Ix(t)) /\ Becomes(t, next)
    BY DEF BeginRoute
  <1>2. next \in Running
    BY <1>1, AtIx, ClearedType DEF Running
  <1>3. /\ next.body = tx[t].body /\ next.view = tx[t].view
        /\ next.events = tx[t].events /\ next.pc = tx[t].pc
    BY <1>1, AtIx DEF Running
  <1>4. RouteHolds(next)
    BY <1>1, <1>3, AtIx DEF RouteHolds, BeginRoute, CanRoute, IsActive, Ix
  <1> HIDE DEF next
  <1>5. Sound(next, registry, adapters)
    BY <1>1, <1>3, <1>4, AtIx DEF Sound
  <1> QED BY <1>1, <1>2, <1>3, <1>5, AtIx, StepWithin

\* The adapter's turn touches nothing the transaction has of the dispatcher.
LEMMA AdapterStep ==
    ASSUME IInv, NEW t \in Slots, AtInstruction(t, "cpi"), NEW next \in Running,
           Becomes(t, next), next.phase \in {"cpi", "returned"},
           next.body = tx[t].body, next.view = tx[t].view,
           next.events = tx[t].events, next.pc = tx[t].pc
    PROVE  IInv'
  <1>1. tx[t].phase = "cpi"
    BY DEF AtInstruction
  <1>2. Sound(next, registry, adapters)
    BY <1>1, AtIx DEF Sound, RouteHolds
  <1> QED BY <1>2, AtIx, StepWithin

\* The adapter or its protocol fills the return-data slot.
LEMMA AdapterSetsSlot ==
    ASSUME IInv, NEW t \in Slots, AdapterInvokesProtocol(t) \/ AdapterSetsReturnData(t)
    PROVE  \E slot \in ReturnSlot(Setters) : Becomes(t, [tx[t] EXCEPT !.ret = slot])
  <1>1. AtInstruction(t, "cpi")
    BY DEF AdapterInvokesProtocol, AdapterSetsReturnData
  <1>2. Target(t) \in Programs
    <2>1. Ix(t).op \in RouteOps /\ tx[t].view.adapters[Ix(t).adapter] # NoEntry
      BY <1>1, AtIx DEF AtInstruction, Sound, RouteHolds, Ix
    <2> QED BY <1>1, <2>1, AtIx, RouteTypes DEF Target
  <1>3. PICK by \in Setters, data \in ReturnData :
           Becomes(t, [tx[t] EXCEPT !.ret = [by |-> by, data |-> data]])
    BY <1>2 DEF AdapterInvokesProtocol, AdapterSetsReturnData, Setters, ReturnData
  <1> DEFINE slot == [by |-> by, data |-> data]
  <1>4. slot \in ReturnSlot(Setters)
    BY DEF ReturnSlot
  <1>5. Becomes(t, [tx[t] EXCEPT !.ret = slot])
    BY <1>3
  <1> HIDE DEF slot
  <1> QED BY <1>4, <1>5

LEMMA AdapterReturnDataStep ==
    ASSUME IInv, NEW t \in Slots, AdapterInvokesProtocol(t) \/ AdapterSetsReturnData(t)
    PROVE  IInv'
  <1>1. AtInstruction(t, "cpi")
    BY DEF AdapterInvokesProtocol, AdapterSetsReturnData
  <1>2. PICK slot \in ReturnSlot(Setters) : Becomes(t, [tx[t] EXCEPT !.ret = slot])
    BY AdapterSetsSlot
  <1> DEFINE next == [tx[t] EXCEPT !.ret = slot]
  <1>3. next \in Running
    BY <1>1, AtIx DEF Running
  <1>4. /\ next.body = tx[t].body /\ next.view = tx[t].view /\ next.phase = tx[t].phase
        /\ next.events = tx[t].events /\ next.pc = tx[t].pc
    BY <1>1, AtIx DEF Running
  <1>5. Becomes(t, next)
    BY <1>2
  <1> HIDE DEF next
  <1>6. tx[t].phase = "cpi"
    BY <1>1 DEF AtInstruction
  <1> QED BY <1>1, <1>3, <1>4, <1>5, <1>6, AdapterStep

\* The adapter returns Ok and its call is recorded.
LEMMA AdapterSucceedsStep ==
    ASSUME IInv, NEW t \in Slots, AdapterSucceeds(t)
    PROVE  IInv'
  <1> DEFINE calls == Append(tx[t].calls, AdapterCall(tx[t].view, Ix(t)))
             next == [tx[t] EXCEPT !.phase = "returned", !.calls = calls]
  <1>1. AtInstruction(t, "cpi") /\ Becomes(t, next)
    BY DEF AdapterSucceeds
  <1>2. Ix(t).op \in RouteOps /\ tx[t].view.adapters[Ix(t).adapter] # NoEntry
    BY <1>1, AtIx DEF AtInstruction, Sound, RouteHolds, Ix
  <1>3. calls \in Seq(Call)
    <2>1. AdapterCall(tx[t].view, Ix(t)) \in Call
      BY <1>1, <1>2, AtIx, RouteTypes
    <2>2. tx[t].calls \in Seq(Call)
      BY <1>1, AtIx DEF Running
    <2> QED BY <2>1, <2>2
  <1> HIDE DEF calls
  <1>4. next \in Running
    BY <1>1, <1>3, AtIx DEF Running
  <1>5. /\ next.body = tx[t].body /\ next.view = tx[t].view /\ next.phase = "returned"
        /\ next.events = tx[t].events /\ next.pc = tx[t].pc
    BY <1>1, AtIx DEF Running
  <1> HIDE DEF next
  <1> QED BY <1>1, <1>4, <1>5, AdapterStep

\* deposit or withdraw emits its event, which tells nothing of a status.
LEMMA FinishRouteStep ==
    ASSUME IInv, NEW t \in Slots, FinishRoute(t)
    PROVE  IInv'
  <1> DEFINE event == RouteEvent(tx[t].view, Ix(t))
             events == Append(tx[t].events, event)
  <1>1. AtInstruction(t, "returned") /\ Complete(t, tx[t].view, events, tx[t].ret)
    BY DEF FinishRoute
  <1>2. Ix(t).op \in RouteOps /\ tx[t].view.adapters[Ix(t).adapter] # NoEntry
    BY <1>1, AtIx DEF AtInstruction, Sound, RouteHolds, Ix
  <1>3. event \in Event /\ event.event # "ToggleEvent"
    BY <1>1, <1>2, AtIx, RouteTypes DEF RouteEvent, RouteOps
  <1>4. tx[t].ret \in ReturnSlot(Setters)
    BY <1>1, AtIx DEF Running
  <1> HIDE DEF event
  <1>5. events \in Seq(Event) /\ SoundEvents(tx[t].body, tx[t].view, events, adapters)
    BY <1>1, <1>3, AtIx, OtherEvent DEF Sound
  <1> HIDE DEF events
  <1> QED BY <1>1, <1>4, <1>5, AtIx, CompleteStep DEF Sound

\* current_value republishes what it has read.
LEMMA FinishCurrentValueStep ==
    ASSUME IInv, NEW t \in Slots, FinishCurrentValue(t)
    PROVE  IInv'
  <1>1. /\ AtInstruction(t, "returned")
        /\ Complete(t, tx[t].view, tx[t].events, Republished(tx[t].ret))
    BY DEF FinishCurrentValue
  <1>2. tx[t].ret \in ReturnSlot(Setters)
    BY <1>1, AtIx DEF Running
  <1>3. Republished(tx[t].ret) \in ReturnSlot(Setters)
    BY <1>2 DEF Republished, ReturnSlot, Setters
  <1> QED BY <1>1, <1>3, AtIx, CompleteStep DEF Sound

---------------------------------------------------------------------------
(***************************************************************************)
(* Commit: the one step that moves the committed state.                    *)
(***************************************************************************)

\* What a commit stores, account by account.
LEMMA CommitStores ==
    ASSUME IInv, NEW t \in Slots, Commit(t)
    PROVE  /\ tx[t] \in Running /\ Sound(tx[t], registry, adapters)
           /\ tx' = [tx EXCEPT ![t] = Idle]
           /\ registry' \in {registry, INITIALIZER}
           /\ registry # NoRegistry => registry' = registry
           /\ RegistryPda \notin WriteLocks(tx[t].body) => registry' = registry
           /\ RegistryPda \in Locks(tx[t].body) => registry' = tx[t].view.registry
           /\ adapters' \in [Pda -> Entry \cup {NoEntry}]
           /\ \A pda \in Pda :
                 /\ pda \in WriteLocks(tx[t].body) =>
                       adapters'[pda] = tx[t].view.adapters[pda]
                 /\ pda \notin WriteLocks(tx[t].body) => adapters'[pda] = adapters[pda]
  <1>1. tx[t] \in Running /\ Sound(tx[t], registry, adapters)
    BY DEF Commit, IInv, TypeOK, AllSound, InFlight
  <1>2. tx[t].view \in View
    BY <1>1 DEF Running
  <1>3. \/ registry' = registry
        \/ registry = NoRegistry /\ registry' = INITIALIZER
    BY <1>1 DEF Commit, Sound, SoundRegistry, Locks
  <1>4. RegistryPda \in Locks(tx[t].body) => registry' = tx[t].view.registry
    BY <1>1 DEF Commit, Sound, SoundRegistry, Locks
  <1>5. adapters' = Stored(t)
    BY DEF Commit
  <1> QED BY <1>1, <1>2, <1>3, <1>4, <1>5 DEF Commit, Stored, View, IInv, TypeOK

\* How a commit moves one stored entry.
LEMMA CommitMoves ==
    ASSUME IInv, NEW t \in Slots, Commit(t), NEW pda \in Pda
    PROVE  EntryMoves(pda, tx[t].body, adapters[pda], adapters'[pda], registry')
  <1>1. CASE pda \notin WriteLocks(tx[t].body)
    BY <1>1, CommitStores DEF EntryMoves
  <1>2. CASE pda \in WriteLocks(tx[t].body)
    <2> DEFINE body == tx[t].body
    <2>1. EntryMoves(pda, body, adapters[pda], adapters'[pda], tx[t].view.registry)
      BY <1>2, CommitStores DEF Sound, SoundEntries
    <2>2. ASSUME Signed(body, "adapter_init", pda, INITIALIZER)
          PROVE  registry' = tx[t].view.registry
      <3>1. body \in Seq(Instruction)
        BY CommitStores, TransactionAssumption DEF Running
      <3>2. PICK i \in DOMAIN body : body[i].op = "adapter_init"
        BY <2>2 DEF Signed
      <3>3. RegistryPda \in Locks(body)
        BY <3>1, <3>2, LocksOfIx
      <3> QED BY <3>3, CommitStores
    <2> QED BY <2>1, <2>2 DEF EntryMoves, FreshEntry
  <1> QED BY <1>1, <1>2

\* A legal move keeps an entry well formed and in place.
LEMMA MovesWellFormed ==
    ASSUME NEW pda \in Pda, NEW body, NEW reg, NEW old \in Entry \cup {NoEntry}, NEW new,
           EntryMoves(pda, body, old, new, reg), new # NoEntry,
           old # NoEntry => EntryInvariant(old) /\ AtPda(old, pda)
    PROVE  /\ EntryInvariant(new) /\ AtPda(new, pda)
           /\ old = NoEntry => reg = INITIALIZER
  <1>1. CASE new = old
    BY <1>1
  <1>2. CASE FreshEntry(pda, body, old, new, reg)
    BY <1>2 DEF FreshEntry
  <1>3. CASE ToggledEntry(pda, body, old, new)
    BY <1>3, ToggledType, KeyAssumption DEF EntryInvariant, AtPda, ValidStatus
  <1> QED BY <1>1, <1>2, <1>3 DEF EntryMoves

\* The committed accounts, events and statuses have their types.
LEMMA CommitTypes ==
    ASSUME IInv, NEW t \in Slots, Commit(t)
    PROVE  TypeOK'
  <1>1. tx' \in [Slots -> Running \cup {Idle}]
    BY CommitStores DEF IInv, TypeOK
  <1>2. registry' \in Keys \cup {NoRegistry}
    BY CommitStores, KeyAssumption DEF IInv, TypeOK
  <1>3. published' \in [events : Seq(Event), calls : Seq(Call), ret : ReturnSlot(Setters)]
    BY CommitStores DEF Commit, Running
  <1>4. ASSUME NEW pda \in Pda
        PROVE  AfterEvents(tx[t].events, pda) \in Byte \cup {Unknown}
    <2> DEFINE events == tx[t].events
    <2>1. events \in Seq(Event)
      BY CommitStores DEF Running
    <2>2. CASE \E i \in DOMAIN events : LastToggle(events, pda, i)
      <3> DEFINE last == CHOOSE i \in DOMAIN events : LastToggle(events, pda, i)
      <3>1. last \in DOMAIN events /\ IsToggle(events[last], pda)
        BY <2>2 DEF LastToggle
      <3>2. AfterEvents(events, pda) = events[last].status
        BY <2>2 DEF AfterEvents
      <3> HIDE DEF events, last
      <3>3. events[last] \in Event
        BY <2>1, <3>1
      <3>4. events[last].status \in Byte
        BY <3>1, <3>3 DEF Event, IsToggle, RouteOps
      <3> QED BY <3>2, <3>4 DEF events
    <2>3. CASE ~ \E i \in DOMAIN events : LastToggle(events, pda, i)
      BY <2>3 DEF AfterEvents, IInv, TypeOK
    <2> QED BY <2>2, <2>3
  <1>5. indexed' \in [Pda -> Byte \cup {Unknown}]
    BY <1>4 DEF Commit
  <1> QED BY <1>1, <1>2, <1>3, <1>5, CommitStores DEF TypeOK

\* The other transactions in flight do not notice the commit.
LEMMA CommitUnnoticed ==
    ASSUME IInv, NEW t \in Slots, Commit(t), NEW u \in Slots, u # t, InFlight(u)
    PROVE  Sound(tx[u], registry', adapters')
  <1>1. Sound(tx[u], registry, adapters)
    BY DEF IInv, AllSound
  <1>2. WriteLocks(tx[t].body) \cap Locks(tx[u].body) = {}
    BY DEF IInv, Isolation, Conflict, Commit
  <1>3. SoundRegistry(tx[u].body, tx[u].view, registry')
    BY <1>1, <1>2, CommitStores DEF Sound, SoundRegistry
  <1>4. \A pda \in Pda : pda \in Locks(tx[u].body) => adapters'[pda] = adapters[pda]
    BY <1>2, CommitStores
  <1>5. SoundEntries(tx[u].body, tx[u].view, adapters')
    BY <1>1, <1>4 DEF Sound, SoundEntries, Locks
  <1>6. SoundEvents(tx[u].body, tx[u].view, tx[u].events, adapters')
    BY <1>1, <1>4 DEF Sound, SoundEvents, Locks
  <1> QED BY <1>1, <1>3, <1>5, <1>6 DEF Sound

\* A commit stores legal moves and announces the statuses it stores.
LEMMA CommitStep ==
    ASSUME IInv, NEW t \in Slots, Commit(t)
    PROVE  IInv'
  <1>1. TypeOK'
    BY CommitTypes
  <1>2. RegistryOK'
    BY CommitStores DEF IInv, RegistryOK
  <1>3. EntriesWellFormed'
    <2> SUFFICES ASSUME NEW pda \in Pda, adapters'[pda] # NoEntry
                 PROVE  /\ EntryInvariant(adapters'[pda])
                        /\ AtPda(adapters'[pda], pda)
                        /\ registry' = INITIALIZER
      BY DEF EntriesWellFormed
    <2>1. adapters[pda] \in Entry \cup {NoEntry}
      BY DEF IInv, TypeOK
    <2>2. adapters[pda] # NoEntry => /\ EntryInvariant(adapters[pda])
                                     /\ AtPda(adapters[pda], pda)
                                     /\ registry = INITIALIZER
      BY DEF IInv, EntriesWellFormed
    <2>3. EntryMoves(pda, tx[t].body, adapters[pda], adapters'[pda], registry')
      BY CommitMoves
    <2>4. registry = INITIALIZER => registry' = INITIALIZER
      BY CommitStores
    <2> QED BY <2>1, <2>2, <2>3, <2>4, MovesWellFormed
  <1>4. EventsTellStatus'
    <2> SUFFICES ASSUME NEW pda \in Pda, indexed'[pda] # Unknown
                 PROVE  adapters'[pda] # NoEntry /\ adapters'[pda].status = indexed'[pda]
      BY DEF EventsTellStatus
    <2> DEFINE events == tx[t].events
    <2>1. indexed'[pda] = AfterEvents(events, pda)
      BY DEF Commit
    <2>2. SoundEvents(tx[t].body, tx[t].view, events, adapters)
      BY CommitStores DEF Sound
    <2>3. CASE \E i \in DOMAIN events : LastToggle(events, pda, i)
      <3> DEFINE last == CHOOSE i \in DOMAIN events : LastToggle(events, pda, i)
      <3>1. last \in DOMAIN events /\ LastToggle(events, pda, last)
        BY <2>3
      <3>2. indexed'[pda] = events[last].status
        BY <2>1, <2>3 DEF AfterEvents
      <3> HIDE DEF last
      <3>3. pda \in WriteLocks(tx[t].body)
        BY <2>2, <3>1 DEF SoundEvents, LastToggle
      <3> QED BY <2>2, <3>1, <3>2, <3>3, CommitStores DEF SoundEvents
    <2>4. CASE ~ \E i \in DOMAIN events : LastToggle(events, pda, i)
      <3>1. indexed'[pda] = indexed[pda]
        BY <2>1, <2>4 DEF AfterEvents
      <3>2. adapters[pda] # NoEntry /\ adapters[pda].status = indexed[pda]
        BY <3>1 DEF IInv, EventsTellStatus
      <3>3. adapters'[pda] = adapters[pda]
        BY <2>2, <2>4, <3>2, CommitStores DEF SoundEvents
      <3> QED BY <3>1, <3>2, <3>3
    <2> QED BY <2>3, <2>4
  <1>5. tx'[t] = Idle /\ \A u \in Slots : u # t => tx'[u] = tx[u]
    BY CommitStores DEF IInv, TypeOK
  <1>6. Isolation'
    BY <1>5 DEF IInv, Isolation, InFlight
  <1>7. AllSound'
    BY <1>5, CommitUnnoticed DEF AllSound, InFlight
  <1> QED BY <1>1, <1>2, <1>3, <1>4, <1>6, <1>7 DEF IInv

---------------------------------------------------------------------------
(***************************************************************************)
(* The invariant.                                                          *)
(***************************************************************************)
\* The invariant holds before the first transaction.
LEMMA InitInvariant == Init => IInv
  <1> SUFFICES ASSUME Init PROVE IInv
    OBVIOUS
  <1>1. TypeOK
    BY ClearedType DEF Init, TypeOK
  <1>2. RegistryOK /\ EntriesWellFormed /\ EventsTellStatus /\ Isolation /\ AllSound
    BY DEF Init, RegistryOK, EntriesWellFormed, EventsTellStatus, Isolation, AllSound, InFlight
  <1> QED BY <1>1, <1>2 DEF IInv

\* The invariant does not depend on anything but the variables.
LEMMA StutterStep == IInv /\ UNCHANGED vars => IInv'
  <1> SUFFICES ASSUME IInv, UNCHANGED vars PROVE IInv'
    OBVIOUS
  <1>1. TypeOK'
    BY DEF IInv, TypeOK, vars
  <1>2. (RegistryOK /\ EntriesWellFormed /\ EventsTellStatus)'
    BY DEF IInv, RegistryOK, EntriesWellFormed, EventsTellStatus, vars
  <1>3. (Isolation /\ AllSound)'
    BY DEF IInv, Isolation, AllSound, InFlight, vars
  <1> QED BY <1>1, <1>2, <1>3 DEF IInv

\* The invariant is inductive: every action, by any slot, preserves it.
LEMMA NextInvariant == IInv /\ [Next]_vars => IInv'
  <1> SUFFICES ASSUME IInv, Next PROVE IInv'
    BY StutterStep
  <1>1. PICK t \in Slots : \/ \E body \in Transactions : Start(t, body)
                           \/ AdapterInvokesProtocol(t)
                           \/ AdapterSetsReturnData(t)
                           \/ Advance(t)
    BY DEF Next
  <1>2. CASE \E body \in Transactions : Start(t, body)
    BY <1>2, StartStep
  <1>3. CASE AdapterInvokesProtocol(t) \/ AdapterSetsReturnData(t)
    BY <1>3, AdapterReturnDataStep
  <1>4. CASE ExecRegistryInit(t)
    BY <1>4, RegistryInitStep
  <1>5. CASE ExecAdapterInit(t)
    BY <1>5, AdapterInitStep
  <1>6. CASE ExecToggle(t)
    BY <1>6, ToggleStep
  <1>7. CASE BeginRoute(t)
    BY <1>7, BeginRouteStep
  <1>8. CASE AdapterSucceeds(t)
    BY <1>8, AdapterSucceedsStep
  <1>9. CASE FinishRoute(t)
    BY <1>9, FinishRouteStep
  <1>10. CASE FinishCurrentValue(t)
    BY <1>10, FinishCurrentValueStep
  <1>11. CASE RejectCall(t) \/ AdapterFails(t) \/ RejectReturnData(t)
    BY <1>11, AbortStep DEF RejectCall, AdapterFails, RejectReturnData
  <1>12. CASE Commit(t)
    BY <1>12, CommitStep
  <1> QED BY <1>1, <1>2, <1>3, <1>4, <1>5, <1>6, <1>7, <1>8, <1>9, <1>10, <1>11, <1>12
          DEF Advance

\* The strengthened invariant holds of every state of the dispatcher.
THEOREM Invariance == Spec => []IInv
  BY InitInvariant, NextInvariant, PTL DEF Spec

---------------------------------------------------------------------------
(***************************************************************************)
(* What follows from it.                                                   *)
(***************************************************************************)

\* Every reachable state is well typed, for any constants.
THEOREM TypeCorrect == Spec => []TypeOK
  <1>1. IInv => TypeOK
    BY DEF IInv
  <1> QED BY <1>1, Invariance, PTL

\* Entries stay as Adapter::invariant demands, however transactions overlap.
THEOREM EntriesStayWellFormed == Spec => []EntriesWellFormed
  <1>1. IInv => EntriesWellFormed
    BY DEF IInv
  <1> QED BY <1>1, Invariance, PTL

\* A record of ToggleEvents alone never disagrees with the stored statuses.
THEOREM EventsAlwaysTellStatus == Spec => []EventsTellStatus
  <1>1. IInv => EventsTellStatus
    BY DEF IInv
  <1> QED BY <1>1, Invariance, PTL

\* No entry is paused while an adapter runs a call routed through it.
THEOREM RoutesStayActive == Spec => []RoutedWhileActive
  <1>1. IInv => RoutedWhileActive
    <2> SUFFICES ASSUME IInv, NEW t \in Slots, InFlight(t), tx[t].phase \in {"cpi", "returned"}
                 PROVE  LET pda == Ix(t).adapter
                        IN  /\ tx[t].view.adapters[pda] # NoEntry
                            /\ tx[t].view.adapters[pda].status = Active
                            /\ pda \notin WriteLocks(tx[t].body) =>
                                  adapters[pda] = tx[t].view.adapters[pda]
      BY DEF RoutedWhileActive
    <2> DEFINE pda == Ix(t).adapter
    <2>1. Sound(tx[t], registry, adapters) /\ tx[t].pc \in DOMAIN tx[t].body
          /\ Ix(t).op \in RouteOps /\ tx[t].view.adapters[pda] # NoEntry
          /\ tx[t].view.adapters[pda].status = Active
      BY DEF IInv, AllSound, Sound, RouteHolds, Ix
    <2>2. Ix(t) \in Instruction /\ tx[t].body \in Seq(Instruction)
      <3>1. AtInstruction(t, tx[t].phase)
        BY <2>1 DEF AtInstruction
      <3> QED BY <3>1, AtIx
    <2>3. pda \in Pda /\ pda \in Locks(tx[t].body)
      BY <2>1, <2>2, LocksOfIx DEF Ix, Instruction
    <2> QED BY <2>1, <2>3 DEF Sound, SoundEntries
  <1> QED BY <1>1, Invariance, PTL

---------------------------------------------------------------------------
(***************************************************************************)
(* Steps.                                                                  *)
(***************************************************************************)

\* The committed accounts move in a commit and nowhere else.
LEMMA OnlyCommitMoves ==
    ASSUME [Next]_vars
    PROVE  \/ UNCHANGED <<registry, adapters>>
           \/ \E t \in Slots : Commit(t)
  <1>1. CASE UNCHANGED vars
    BY <1>1 DEF vars
  <1>2. ASSUME NEW t \in Slots,
               \/ \E body \in Transactions : Start(t, body)
               \/ AdapterInvokesProtocol(t)
               \/ AdapterSetsReturnData(t)
               \/ Advance(t)
        PROVE  UNCHANGED <<registry, adapters>> \/ Commit(t)
    BY <1>2 DEF Start, AdapterInvokesProtocol, AdapterSetsReturnData, Advance,
                ExecRegistryInit, ExecAdapterInit, ExecToggle, BeginRoute, AdapterSucceeds,
                FinishRoute, FinishCurrentValue, RejectCall, AdapterFails,
                RejectReturnData, Complete, Abort, Becomes
  <1> QED BY <1>1, <1>2 DEF Next

\* A stored entry changes in its status alone, and by its authority's signature.
THEOREM AuthorityRules == Spec => ChangesNeedAuthority
  <1> DEFINE Rule(pda) ==
        adapters[pda] # NoEntry /\ adapters'[pda] # adapters[pda] =>
            /\ adapters[pda].status # Deprecated
            /\ \E status \in {Active, Paused} :
                  adapters'[pda] = [adapters[pda] EXCEPT !.status = status]
            /\ \E t \in Slots :
                  /\ InFlight(t) /\ tx'[t] = Idle
                  /\ \E i \in DOMAIN tx[t].body :
                        /\ tx[t].body[i].op = "toggle_adapter"
                        /\ tx[t].body[i].adapter = pda
                        /\ tx[t].body[i].signer = adapters[pda].authority
  <1>1. ASSUME IInv, [Next]_vars, NEW pda \in Pda
        PROVE  Rule(pda)
    <2> SUFFICES ASSUME adapters[pda] # NoEntry, adapters'[pda] # adapters[pda]
                 PROVE  Rule(pda)
      OBVIOUS
    <2>1. PICK t \in Slots : Commit(t)
      BY <1>1, OnlyCommitMoves
    <2>2. ToggledEntry(pda, tx[t].body, adapters[pda], adapters'[pda])
      BY <1>1, <2>1, CommitMoves DEF EntryMoves, FreshEntry
    <2>3. InFlight(t) /\ tx'[t] = Idle
      BY <1>1, <2>1, CommitStores DEF Commit, IInv, TypeOK
    <2>4. adapters[pda].status # Deprecated
      BY <2>2 DEF ToggledEntry, Active, Paused, Deprecated
    <2> QED BY <2>2, <2>3, <2>4 DEF ToggledEntry, Signed
  <1>2. IInv /\ [Next]_vars => [\A pda \in Pda : Rule(pda)]_vars
    BY <1>1
  <1> QED BY <1>2, Invariance, PTL DEF Spec, ChangesNeedAuthority

\* An entry comes into being by the signature of INITIALIZER.
THEOREM InitializerRules == Spec => RegistrationNeedsInitializer
  <1> DEFINE Rule(pda) ==
        adapters[pda] = NoEntry /\ adapters'[pda] # NoEntry =>
            \E t \in Slots :
                /\ InFlight(t) /\ tx'[t] = Idle
                /\ \E i \in DOMAIN tx[t].body :
                      /\ tx[t].body[i].op = "adapter_init"
                      /\ tx[t].body[i].adapter = pda
                      /\ tx[t].body[i].signer = INITIALIZER
  <1>1. ASSUME IInv, [Next]_vars, NEW pda \in Pda
        PROVE  Rule(pda)
    <2> SUFFICES ASSUME adapters[pda] = NoEntry, adapters'[pda] # NoEntry
                 PROVE  Rule(pda)
      OBVIOUS
    <2>1. PICK t \in Slots : Commit(t)
      BY <1>1, OnlyCommitMoves
    <2>2. FreshEntry(pda, tx[t].body, adapters[pda], adapters'[pda], registry')
      BY <1>1, <2>1, CommitMoves DEF EntryMoves, ToggledEntry
    <2>3. InFlight(t) /\ tx'[t] = Idle
      BY <1>1, <2>1, CommitStores DEF Commit, IInv, TypeOK
    <2> QED BY <2>2, <2>3 DEF FreshEntry, Signed
  <1>2. IInv /\ [Next]_vars => [\A pda \in Pda : Rule(pda)]_vars
    BY <1>1
  <1> QED BY <1>2, Invariance, PTL DEF Spec, RegistrationNeedsInitializer

---------------------------------------------------------------------------
(***************************************************************************)
(* Answers.                                                                *)
(***************************************************************************)

\* A step of one transaction that leaves its return-data slot in order.
LEMMA AnswerStep ==
    ASSUME IInv, OwnAnswers, NEW t \in Slots, NEW next, Becomes(t, next),
           next # Idle => OwnSlot(next)
    PROVE  OwnAnswers'
  <1>1. tx'[t] = next /\ \A u \in Slots : u # t => tx'[u] = tx[u]
    BY DEF Becomes, IInv, TypeOK
  <1> QED BY <1>1 DEF OwnAnswers, InFlight

\* Return data is the call's own in every step: the invocation of the adapter
\* clears what was there before.
LEMMA OwnAnswersStep ==
    ASSUME IInv, OwnAnswers, [Next]_vars
    PROVE  OwnAnswers'
  <1>1. CASE UNCHANGED vars
    BY <1>1 DEF vars, OwnAnswers, InFlight
  <1>2. ASSUME NEW t \in Slots, NEW body \in Transactions, Start(t, body)
        PROVE  OwnAnswers'
    BY <1>2, AnswerStep DEF Start, Admitted, OwnSlot
  <1>3. ASSUME NEW t \in Slots,
               \/ ExecRegistryInit(t) \/ ExecAdapterInit(t) \/ ExecToggle(t)
               \/ FinishRoute(t) \/ FinishCurrentValue(t)
        PROVE  OwnAnswers'
    <2>1. tx[t] \in Running
      BY <1>3 DEF IInv, TypeOK, ExecRegistryInit, ExecAdapterInit, ExecToggle,
                  FinishRoute, FinishCurrentValue, AtInstruction, InFlight
    <2>2. PICK view, events, ret : Complete(t, view, events, ret)
      BY <1>3 DEF ExecRegistryInit, ExecAdapterInit, ExecToggle, FinishRoute,
                  FinishCurrentValue
    <2> DEFINE next == [tx[t] EXCEPT !.pc = tx[t].pc + 1, !.phase = "exec",
                                     !.view = view, !.events = events, !.ret = ret]
    <2>3. next.phase = "exec" /\ Becomes(t, next)
      BY <2>1, <2>2 DEF Complete, Running
    <2> HIDE DEF next
    <2> QED BY <2>3, AnswerStep DEF OwnSlot
  <1>4. ASSUME NEW t \in Slots, BeginRoute(t)
        PROVE  OwnAnswers'
    <2> DEFINE next == [tx[t] EXCEPT !.phase = "cpi", !.ret = Cleared]
    <2>1. tx[t] \in Running /\ Becomes(t, next)
      BY <1>4, AtIx DEF BeginRoute
    <2>2. next.ret = Cleared
      BY <2>1 DEF Running
    <2> HIDE DEF next
    <2> QED BY <2>1, <2>2, AnswerStep DEF OwnSlot
  <1>5. ASSUME NEW t \in Slots, AdapterInvokesProtocol(t) \/ AdapterSetsReturnData(t)
        PROVE  OwnAnswers'
    <2>1. PICK by \in {Target(t), PROTOCOL}, data \in ReturnData :
             Becomes(t, [tx[t] EXCEPT !.ret = [by |-> by, data |-> data]])
      <3>1. CASE AdapterInvokesProtocol(t)
        BY <3>1 DEF AdapterInvokesProtocol
      <3>2. CASE AdapterSetsReturnData(t)
        <4>1. Value \cup {TooShort} \subseteq ReturnData
          BY DEF ReturnData
        <4>2. PICK data \in Value \cup {TooShort} :
                 Becomes(t, [tx[t] EXCEPT !.ret = [by |-> Target(t), data |-> data]])
          BY <3>2 DEF AdapterSetsReturnData
        <4> QED BY <4>1, <4>2
      <3> QED BY <1>5, <3>1, <3>2
    <2> DEFINE next == [tx[t] EXCEPT !.ret = [by |-> by, data |-> data]]
    <2>2. tx[t] \in Running
      BY <1>5, AtIx DEF AdapterInvokesProtocol, AdapterSetsReturnData
    <2>3. next.ret.by = by /\ next.body = tx[t].body /\ next.pc = tx[t].pc
          /\ next.view = tx[t].view
      BY <2>2 DEF Running
    <2>4. Becomes(t, next)
      BY <2>1
    <2> HIDE DEF next
    <2>5. OwnSlot(next)
      BY <2>3, Zenon DEF OwnSlot, Target, Ix
    <2> QED BY <2>4, <2>5, AnswerStep
  <1>6. ASSUME NEW t \in Slots, AdapterSucceeds(t)
        PROVE  OwnAnswers'
    <2> DEFINE next == [tx[t] EXCEPT !.phase = "returned",
                           !.calls = Append(tx[t].calls, AdapterCall(tx[t].view, Ix(t)))]
    <2>1. tx[t] \in Running /\ Becomes(t, next)
          /\ InFlight(t) /\ tx[t].phase = "cpi"
      BY <1>6, AtIx DEF AdapterSucceeds, AtInstruction
    <2>2. next.ret = tx[t].ret /\ next.body = tx[t].body /\ next.pc = tx[t].pc
          /\ next.view = tx[t].view
      BY <2>1 DEF Running
    <2>3. OwnSlot(tx[t])
      BY <2>1 DEF OwnAnswers
    <2> HIDE DEF next
    <2> QED BY <2>1, <2>2, <2>3, AnswerStep DEF OwnSlot
  <1>7. ASSUME NEW t \in Slots, RejectCall(t) \/ AdapterFails(t) \/ RejectReturnData(t)
        PROVE  OwnAnswers'
    BY <1>7, AnswerStep DEF RejectCall, AdapterFails, RejectReturnData, Abort
  <1>8. ASSUME NEW t \in Slots, Commit(t)
        PROVE  OwnAnswers'
    <2>1. tx'[t] = Idle /\ \A u \in Slots : u # t => tx'[u] = tx[u]
      BY <1>8 DEF Commit, IInv, TypeOK
    <2> QED BY <2>1 DEF OwnAnswers, InFlight
  <1> QED
    BY <1>1, <1>2, <1>3, <1>4, <1>5, <1>6, <1>7, <1>8 DEF Next, Advance

\* Only the last lines of current_value lead from the adapter's return to the next
\* instruction of a transaction that asks for a value.
LEMMA AnsweringStep ==
    ASSUME IInv, [Next]_vars, NEW t \in Slots, Answers(t)
    PROVE  FinishCurrentValue(t)
  <1>1. /\ InFlight(t) /\ tx[t].phase = "returned" /\ Ix(t).op = "current_value"
        /\ tx'[t] # Idle /\ tx'[t].phase = "exec"
        /\ tx[t] \in Running
    BY DEF Answers, IInv, TypeOK, InFlight
  <1>2. tx'[t] # tx[t]
    BY <1>1
  <1>3. PICK u \in Slots : \/ \E body \in Transactions : Start(u, body)
                           \/ AdapterInvokesProtocol(u)
                           \/ AdapterSetsReturnData(u)
                           \/ Advance(u)
    BY <1>2 DEF Next, vars
  <1>4. \E next : tx' = [tx EXCEPT ![u] = next]
    BY <1>3 DEF Start, AdapterInvokesProtocol, AdapterSetsReturnData, Advance,
                ExecRegistryInit, ExecAdapterInit, ExecToggle, BeginRoute, AdapterSucceeds,
                FinishRoute, FinishCurrentValue, RejectCall, AdapterFails,
                RejectReturnData, Complete, Abort, Becomes, Commit
  <1>5. u = t
    BY <1>2, <1>4 DEF IInv, TypeOK
  <1>6. ~Abort(t)
    BY <1>1 DEF Abort, Becomes, IInv, TypeOK
  <1> QED
    BY <1>1, <1>3, <1>5, <1>6
       DEF Start, AdapterInvokesProtocol, AdapterSetsReturnData, Advance,
           ExecRegistryInit, ExecAdapterInit, ExecToggle, BeginRoute, AdapterSucceeds,
           FinishRoute, RejectCall, AdapterFails, RejectReturnData, AtInstruction, Commit

\* current_value never completes with return data left over from an earlier
\* instruction, too short or empty.
THEOREM AnswersBelongToCalls == Spec => AnswersTheCall
  <1> DEFINE Rule(t) ==
        Answers(t) =>
            /\ tx[t].ret.data \in Value
            /\ tx[t].ret.by \in {Target(t), PROTOCOL}
            /\ tx'[t].ret = [by |-> DISPATCHER, data |-> tx[t].ret.data]
  <1>1. ASSUME IInv, OwnAnswers, [Next]_vars, NEW t \in Slots, Answers(t)
        PROVE  Rule(t)
    <2>1. FinishCurrentValue(t)
      BY <1>1, AnsweringStep
    <2>2. /\ InFlight(t) /\ tx[t].phase = "returned" /\ HasReturnU64(tx[t].ret)
          /\ tx[t] \in Running
      BY <2>1, <1>1, AtIx DEF FinishCurrentValue, AtInstruction
    <2>3. tx[t].ret.data \in Value
      BY <2>2 DEF Running, ReturnSlot, ReturnData, HasReturnU64
    <2>4. tx[t].ret # Cleared
      BY <2>2 DEF Cleared, HasReturnU64
    <2>5. tx[t].ret.by \in {Target(t), PROTOCOL}
      <3>1. OwnSlot(tx[t])
        BY <1>1, <2>2 DEF OwnAnswers
      <3> QED BY <2>2, <2>4, <3>1, Zenon DEF OwnSlot, Target, Ix
    <2>6. tx'[t].ret = Republished(tx[t].ret)
      BY <1>1, <2>1, <2>2 DEF FinishCurrentValue, Complete, Becomes, Running, IInv, TypeOK
    <2> QED BY <2>3, <2>5, <2>6 DEF Republished
  <1>2. IInv /\ OwnAnswers /\ [Next]_vars => [\A t \in Slots : Rule(t)]_vars
    BY <1>1
  <1>3. Init => OwnAnswers
    BY DEF Init, OwnAnswers, InFlight
  <1>4. IInv /\ OwnAnswers /\ [Next]_vars => OwnAnswers'
    BY OwnAnswersStep
  <1> QED BY <1>2, <1>3, <1>4, Invariance, PTL DEF Spec, AnswersTheCall

---------------------------------------------------------------------------
(***************************************************************************)
(* Events and calls, side by side.                                         *)
(***************************************************************************)

\* A correspondence grows by a pair at its end.
LEMMA InStepGrows ==
    ASSUME NEW S, NEW T, S \subseteq Nat, T \subseteq Nat,
           NEW pairs, NEW more, pairs \subseteq more, InStep(S, T, pairs),
           NEW i \in Nat, NEW n \in Nat, <<i, n>> \in more,
           \A j \in S : j < i, \A m \in T : m < n
    PROVE  InStep(S \cup {i}, T \cup {n}, more)
  <1>1. PICK order \in [S -> T] :
           /\ \A m \in T : \E j \in S : order[j] = m
           /\ \A j, k \in S : j < k => order[j] < order[k]
           /\ \A j \in S : <<j, order[j]>> \in pairs
    BY DEF InStep
  <1>2. i \notin S
    OBVIOUS
  <1> DEFINE longer == [j \in S \cup {i} |-> IF j = i THEN n ELSE order[j]]
  <1>3. longer \in [S \cup {i} -> T \cup {n}]
    OBVIOUS
  <1>4. longer[i] = n /\ \A j \in S : longer[j] = order[j] /\ order[j] \in T
    BY <1>2
  <1> HIDE DEF longer
  <1>5. \A m \in T \cup {n} : \E j \in S \cup {i} : longer[j] = m
    BY <1>1, <1>4
  <1>6. ASSUME NEW j \in S \cup {i}, NEW k \in S \cup {i}, j < k
        PROVE  longer[j] < longer[k]
    <2>1. j \in S
      BY <1>6
    <2>2. CASE k \in S
      BY <1>1, <1>4, <1>6, <2>1, <2>2
    <2>3. CASE k = i
      BY <1>4, <2>1, <2>3
    <2> QED BY <2>2, <2>3
  <1>7. \A j \in S \cup {i} : <<j, longer[j]>> \in more
    BY <1>1, <1>4
  <1> QED BY <1>3, <1>5, <1>6, <1>7 DEF InStep

\* One that holds by fewer pairs holds by more.
LEMMA InStepByMore ==
    ASSUME NEW S, NEW T, NEW pairs, NEW more, pairs \subseteq more, InStep(S, T, pairs)
    PROVE  InStep(S, T, more)
  BY DEF InStep

\* A sequence with one more element.
LEMMA OneMore ==
    ASSUME NEW X, NEW s \in Seq(X), NEW x \in X
    PROVE  /\ Append(s, x) \in Seq(X)
           /\ DOMAIN Append(s, x) = DOMAIN s \cup {Len(s) + 1}
           /\ Append(s, x)[Len(s) + 1] = x
           /\ \A i \in DOMAIN s : /\ Append(s, x)[i] = s[i]
                                  /\ i \in Nat /\ i < Len(s) + 1
           /\ Len(s) + 1 \in Nat
  OBVIOUS

\* Events of other kinds, and queries, are told nowhere.
LEMMA ToggleTellsNoCall ==
    ASSUME NEW events \in Seq(Event), NEW event \in Event, event.event \notin RouteOps,
           NEW calls \in Seq(Call), AllTold(events, calls)
    PROVE  AllTold(Append(events, event), calls)
  <1> DEFINE more == Append(events, event)
             pairs == {p \in (DOMAIN events) \X (DOMAIN calls) :
                          TellsCall(events[p[1]], calls[p[2]])}
             morepairs == {p \in (DOMAIN more) \X (DOMAIN calls) :
                              TellsCall(more[p[1]], calls[p[2]])}
  <1>1. /\ DOMAIN more = DOMAIN events \cup {Len(events) + 1}
        /\ more[Len(events) + 1] = event
        /\ \A i \in DOMAIN events : more[i] = events[i]
    BY OneMore
  <1> HIDE DEF more
  <1>2. Announced(more) = Announced(events)
    BY <1>1 DEF Announced
  <1>3. pairs \subseteq morepairs
    BY <1>1
  <1> HIDE DEF pairs, morepairs
  <1>4. InStep(Announced(events), Made(calls), pairs)
    BY DEF AllTold, pairs
  <1>5. InStep(Announced(more), Made(calls), morepairs)
    BY <1>2, <1>3, <1>4, InStepByMore
  <1> QED BY <1>5 DEF AllTold, more, morepairs

LEMMA QueryIsNotTold ==
    ASSUME NEW events \in Seq(Event), NEW calls \in Seq(Call),
           NEW call \in Call, call.op = "current_value", AllTold(events, calls)
    PROVE  AllTold(events, Append(calls, call))
  <1> DEFINE more == Append(calls, call)
             pairs == {p \in (DOMAIN events) \X (DOMAIN calls) :
                          TellsCall(events[p[1]], calls[p[2]])}
             morepairs == {p \in (DOMAIN events) \X (DOMAIN more) :
                              TellsCall(events[p[1]], more[p[2]])}
  <1>1. /\ DOMAIN more = DOMAIN calls \cup {Len(calls) + 1}
        /\ more[Len(calls) + 1] = call
        /\ \A i \in DOMAIN calls : more[i] = calls[i]
    BY OneMore
  <1> HIDE DEF more
  <1>2. Made(more) = Made(calls)
    BY <1>1 DEF Made
  <1>3. pairs \subseteq morepairs
    BY <1>1
  <1> HIDE DEF pairs, morepairs
  <1>4. InStep(Announced(events), Made(calls), pairs)
    BY DEF AllTold, pairs
  <1>5. InStep(Announced(events), Made(more), morepairs)
    BY <1>2, <1>3, <1>4, InStepByMore
  <1> QED BY <1>5 DEF AllTold, more, morepairs

\* A deposit or withdrawal, and its event.
LEMMA CallIsTold ==
    ASSUME NEW events \in Seq(Event), NEW event \in Event, event.event \in RouteOps,
           NEW calls \in Seq(Call), NEW call \in Call, call.op # "current_value",
           TellsCall(event, call), AllTold(events, calls)
    PROVE  AllTold(Append(events, event), Append(calls, call))
  <1> DEFINE events2 == Append(events, event)
             calls2 == Append(calls, call)
             i == Len(events) + 1
             n == Len(calls) + 1
             pairs == {p \in (DOMAIN events) \X (DOMAIN calls) :
                          TellsCall(events[p[1]], calls[p[2]])}
             pairs2 == {p \in (DOMAIN events2) \X (DOMAIN calls2) :
                           TellsCall(events2[p[1]], calls2[p[2]])}
  <1>1. /\ DOMAIN events2 = DOMAIN events \cup {i} /\ events2[i] = event /\ i \in Nat
        /\ \A j \in DOMAIN events : events2[j] = events[j] /\ j \in Nat /\ j < i
    BY OneMore
  <1>2. /\ DOMAIN calls2 = DOMAIN calls \cup {n} /\ calls2[n] = call /\ n \in Nat
        /\ \A m \in DOMAIN calls : calls2[m] = calls[m] /\ m \in Nat /\ m < n
    BY OneMore
  <1> HIDE DEF events2, calls2, i, n
  <1>3. Announced(events2) = Announced(events) \cup {i} /\ Announced(events) \subseteq DOMAIN events
    BY <1>1 DEF Announced
  <1>4. Made(calls2) = Made(calls) \cup {n} /\ Made(calls) \subseteq DOMAIN calls
    BY <1>2 DEF Made
  <1>5. pairs \subseteq pairs2
    BY <1>1, <1>2
  <1>6. <<i, n>> \in pairs2
    BY <1>1, <1>2
  <1> HIDE DEF pairs, pairs2
  <1>7. InStep(Announced(events), Made(calls), pairs)
    BY DEF AllTold, pairs
  <1>8. /\ Announced(events) \subseteq Nat /\ \A j \in Announced(events) : j < i
        /\ Made(calls) \subseteq Nat /\ \A m \in Made(calls) : m < n
    BY <1>1, <1>2, <1>3, <1>4
  <1>9. InStep(Announced(events2), Made(calls2), pairs2)
    BY <1>1, <1>2, <1>3, <1>4, <1>5, <1>6, <1>7, <1>8, InStepGrows
  <1> QED BY <1>9 DEF AllTold, events2, calls2, pairs2

\* Nothing told of nothing.
LEMMA NothingTold == AllTold(<<>>, <<>>)
  <1>1. Announced(<<>>) = {} /\ Made(<<>>) = {}
    BY DEF Announced, Made
  <1>2. \A pairs : InStep({}, {}, pairs)
    <2>1. [x \in {} |-> x] \in [{} -> {}]
      OBVIOUS
    <2> QED BY <2>1, Zenon DEF InStep
  <1> QED BY <1>1, <1>2 DEF AllTold

\* A step of one transaction that keeps its events in step with its calls.
LEMMA ToldStep ==
    ASSUME IInv, EventsFollowCalls, NEW t \in Slots, NEW next, Becomes(t, next),
           next # Idle => CallsTold(next)
    PROVE  EventsFollowCalls'
  <1>1. tx'[t] = next /\ published' = published /\ \A u \in Slots : u # t => tx'[u] = tx[u]
    BY DEF Becomes, IInv, TypeOK
  <1> QED BY <1>1 DEF EventsFollowCalls, EventsTellCalls, InFlight

\* What CallsTold says before and after a handler's last lines.
LEMMA AtExec ==
    ASSUME NEW r, r.phase # "returned" \/ r.body[r.pc].op = "current_value"
    PROVE  CallsTold(r) <=> AllTold(r.events, r.calls)
  BY DEF CallsTold

\* The handlers' completion leaves the calls alone.
LEMMA CompletesTold ==
    ASSUME IInv, EventsFollowCalls, NEW t \in Slots, tx[t] \in Running,
           NEW view, NEW events, NEW ret, Complete(t, view, events, ret),
           AllTold(events, tx[t].calls)
    PROVE  EventsFollowCalls'
  <1> DEFINE next == [tx[t] EXCEPT !.pc = tx[t].pc + 1, !.phase = "exec",
                                   !.view = view, !.events = events, !.ret = ret]
  <1>1. next.phase = "exec" /\ next.events = events /\ next.calls = tx[t].calls
        /\ Becomes(t, next)
    BY DEF Complete, Running
  <1> HIDE DEF next
  <1>2. CallsTold(next)
    BY <1>1, AtExec
  <1> QED BY <1>1, <1>2, ToldStep

\* The event of a toggle is an event.
LEMMA ToggleEventType ==
    ASSUME IInv, NEW t \in Slots, AtInstruction(t, "exec"), CanToggle(tx[t].view, Ix(t))
    PROVE  ToggleEvent(Toggle(tx[t].view, Ix(t)), Ix(t)) \in Event
  <1> DEFINE view == Toggle(tx[t].view, Ix(t))
             here == Ix(t).adapter
  <1>1. tx[t].view \in View /\ Ix(t) \in Instruction /\ view \in View
    BY AtIx, HandlerTypes
  <1>2. /\ here \in Pda /\ tx[t].view.adapters[here] \in Entry
        /\ NextStatus(tx[t].view.adapters[here].status) \in {Active, Paused}
    BY <1>1 DEF CanToggle, View, Instruction, NextStatus
  <1>3. view.adapters[here] = [tx[t].view.adapters[here] EXCEPT
                                  !.status = NextStatus(tx[t].view.adapters[here].status)]
    BY <1>1, <1>2 DEF Toggle, View
  <1>4. view.adapters[here] \in Entry
    BY <1>2, <1>3, StatusType
  <1> QED BY <1>1, <1>2, <1>4 DEF ToggleEvent, Event, Entry, Instruction

\* Every step keeps events and calls side by side: a call is added when its adapter
\* returns and its event by the handler's next step, with no other in between.
LEMMA EventsFollowStep ==
    ASSUME IInv, EventsFollowCalls, [Next]_vars
    PROVE  EventsFollowCalls'
  <1>1. CASE UNCHANGED vars
    BY <1>1 DEF vars, EventsFollowCalls, EventsTellCalls, InFlight
  <1>2. ASSUME NEW t \in Slots, NEW body \in Transactions, Start(t, body)
        PROVE  EventsFollowCalls'
    <2>1. CallsTold(Admitted(body))
      <3>1. /\ Admitted(body).phase = "exec"
            /\ Admitted(body).events = <<>> /\ Admitted(body).calls = <<>>
        BY DEF Admitted
      <3> QED BY <3>1, AtExec, NothingTold
    <2> QED BY <1>2, <2>1, ToldStep DEF Start
  <1>3. ASSUME NEW t \in Slots, NEW phase, AtInstruction(t, phase)
        PROVE  /\ tx[t] \in Running /\ tx[t].phase = phase
               /\ tx[t].events \in Seq(Event) /\ tx[t].calls \in Seq(Call)
               /\ CallsTold(tx[t])
    BY <1>3, AtIx DEF AtInstruction, EventsFollowCalls, Running
  <1>4. ASSUME NEW t \in Slots, ExecRegistryInit(t) \/ ExecAdapterInit(t)
        PROVE  EventsFollowCalls'
    <2>1. AtInstruction(t, "exec") /\ \E view : Complete(t, view, tx[t].events, Cleared)
      BY <1>4 DEF ExecRegistryInit, ExecAdapterInit
    <2>2. AllTold(tx[t].events, tx[t].calls)
      BY <1>3, <2>1, AtExec
    <2> QED BY <1>3, <2>1, <2>2, CompletesTold
  <1>5. ASSUME NEW t \in Slots, ExecToggle(t)
        PROVE  EventsFollowCalls'
    <2> DEFINE view == Toggle(tx[t].view, Ix(t))
               event == ToggleEvent(view, Ix(t))
    <2>1. AtInstruction(t, "exec") /\ CanToggle(tx[t].view, Ix(t))
          /\ Complete(t, view, Append(tx[t].events, event), Cleared)
      BY <1>5 DEF ExecToggle
    <2>2. event \in Event /\ event.event \notin RouteOps
      <3>1. event \in Event
        BY <2>1, ToggleEventType
      <3> QED BY <3>1 DEF ToggleEvent, RouteOps
    <2>3. AllTold(tx[t].events, tx[t].calls)
      BY <1>3, <2>1, AtExec
    <2> HIDE DEF view, event
    <2>4. AllTold(Append(tx[t].events, event), tx[t].calls)
      BY <1>3, <2>1, <2>2, <2>3, ToggleTellsNoCall
    <2> QED BY <1>3, <2>1, <2>4, CompletesTold
  <1>6. ASSUME NEW t \in Slots,
               BeginRoute(t) \/ AdapterInvokesProtocol(t) \/ AdapterSetsReturnData(t)
        PROVE  EventsFollowCalls'
    <2>1. PICK ret : \/ AtInstruction(t, "exec")
                        /\ Becomes(t, [tx[t] EXCEPT !.phase = "cpi", !.ret = ret])
                     \/ AtInstruction(t, "cpi")
                        /\ Becomes(t, [tx[t] EXCEPT !.ret = ret])
      BY <1>6 DEF BeginRoute, AdapterInvokesProtocol, AdapterSetsReturnData
    <2>2. tx[t] \in Running /\ tx[t].phase # "returned" /\ CallsTold(tx[t])
      BY <1>3, <2>1
    <2>3. AllTold(tx[t].events, tx[t].calls)
      BY <2>2, AtExec
    <2>4. PICK next : /\ Becomes(t, next) /\ next.phase = "cpi"
                      /\ next.events = tx[t].events /\ next.calls = tx[t].calls
      <3>1. CASE AtInstruction(t, "exec")
                 /\ Becomes(t, [tx[t] EXCEPT !.phase = "cpi", !.ret = ret])
        <4> DEFINE next == [tx[t] EXCEPT !.phase = "cpi", !.ret = ret]
        <4>1. /\ next.phase = "cpi" /\ next.events = tx[t].events
              /\ next.calls = tx[t].calls
          BY <2>2 DEF Running
        <4> HIDE DEF next
        <4> QED BY <3>1, <4>1 DEF next
      <3>2. CASE AtInstruction(t, "cpi") /\ Becomes(t, [tx[t] EXCEPT !.ret = ret])
        <4> DEFINE next == [tx[t] EXCEPT !.ret = ret]
        <4>1. /\ next.phase = "cpi" /\ next.events = tx[t].events
              /\ next.calls = tx[t].calls
          BY <2>2, <3>2 DEF Running, AtInstruction
        <4> HIDE DEF next
        <4> QED BY <3>2, <4>1 DEF next
      <3> QED BY <2>1, <3>1, <3>2
    <2>5. CallsTold(next)
      BY <2>3, <2>4, AtExec
    <2> QED BY <2>4, <2>5, ToldStep
  <1>7. ASSUME NEW t \in Slots, AdapterSucceeds(t)
        PROVE  EventsFollowCalls'
    <2> DEFINE call == AdapterCall(tx[t].view, Ix(t))
               next == [tx[t] EXCEPT !.phase = "returned",
                                     !.calls = Append(tx[t].calls, call)]
    <2>1. AtInstruction(t, "cpi") /\ Becomes(t, next)
      BY <1>7 DEF AdapterSucceeds
    <2>2. AllTold(tx[t].events, tx[t].calls)
      BY <1>3, <2>1, AtExec
    <2>3. /\ next.phase = "returned" /\ next.calls = Append(tx[t].calls, call)
          /\ next.events = tx[t].events /\ next.body[next.pc] = Ix(t)
          /\ next.view = tx[t].view
      BY <1>3, <2>1 DEF Running, Ix
    <2>4. call \in Call /\ call.op = Ix(t).op
      <3>1. Ix(t).op \in RouteOps /\ tx[t].view.adapters[Ix(t).adapter] # NoEntry
        BY <2>1, AtIx DEF AtInstruction, Sound, RouteHolds, Ix
      <3> QED BY <2>1, <3>1, AtIx, RouteTypes DEF AdapterCall
    <2>5. CASE Ix(t).op # "current_value"
      <3>1. next.calls = Append(tx[t].calls, AdapterCall(next.view, next.body[next.pc]))
        BY <2>3
      <3> HIDE DEF next, call
      <3>2. CallsTold(next)
        BY <1>3, <2>1, <2>2, <2>3, <2>5, <3>1 DEF CallsTold
      <3> QED BY <2>1, <3>2, ToldStep
    <2>6. CASE Ix(t).op = "current_value"
      <3> HIDE DEF next, call
      <3>1. AllTold(tx[t].events, Append(tx[t].calls, call))
        BY <1>3, <2>1, <2>2, <2>4, <2>6, QueryIsNotTold
      <3>2. CallsTold(next)
        BY <2>3, <2>6, <3>1, AtExec
      <3> QED BY <2>1, <3>2, ToldStep
    <2> QED BY <2>5, <2>6
  <1>8. ASSUME NEW t \in Slots, FinishRoute(t)
        PROVE  EventsFollowCalls'
    <2> DEFINE call == AdapterCall(tx[t].view, Ix(t))
               event == RouteEvent(tx[t].view, Ix(t))
    <2>1. /\ AtInstruction(t, "returned") /\ Ix(t).op \in {"deposit", "withdraw"}
          /\ Complete(t, tx[t].view, Append(tx[t].events, event), tx[t].ret)
      BY <1>8 DEF FinishRoute
    <2>2. PICK older \in Seq(Call) : /\ tx[t].calls = Append(older, call)
                                     /\ AllTold(tx[t].events, older)
      BY <1>3, <2>1 DEF CallsTold, Ix
    <2>3. call \in Call /\ event \in Event
      <3>1. Ix(t).op \in RouteOps /\ tx[t].view.adapters[Ix(t).adapter] # NoEntry
        BY <2>1, AtIx DEF AtInstruction, Sound, RouteHolds, Ix
      <3> QED BY <2>1, <3>1, AtIx, RouteTypes
    <2>4. TellsCall(event, call) /\ event.event \in RouteOps /\ call.op # "current_value"
      BY <2>1 DEF TellsCall, AdapterCall, RouteEvent, RouteOps
    <2> HIDE DEF call, event
    <2>5. AllTold(Append(tx[t].events, event), tx[t].calls)
      BY <1>3, <2>1, <2>2, <2>3, <2>4, CallIsTold
    <2> QED BY <1>3, <2>1, <2>5, CompletesTold
  <1>9. ASSUME NEW t \in Slots, FinishCurrentValue(t)
        PROVE  EventsFollowCalls'
    <2>1. /\ AtInstruction(t, "returned") /\ Ix(t).op = "current_value"
          /\ Complete(t, tx[t].view, tx[t].events, Republished(tx[t].ret))
      BY <1>9 DEF FinishCurrentValue
    <2>2. AllTold(tx[t].events, tx[t].calls)
      BY <1>3, <2>1, AtExec DEF Ix
    <2> QED BY <1>3, <2>1, <2>2, CompletesTold
  <1>10. ASSUME NEW t \in Slots, RejectCall(t) \/ AdapterFails(t) \/ RejectReturnData(t)
         PROVE  EventsFollowCalls'
    BY <1>10, ToldStep DEF RejectCall, AdapterFails, RejectReturnData, Abort
  <1>11. ASSUME NEW t \in Slots, Commit(t)
         PROVE  EventsFollowCalls'
    <2>1. tx'[t] = Idle /\ \A u \in Slots : u # t => tx'[u] = tx[u]
      BY <1>11 DEF Commit, IInv, TypeOK
    <2>2. AllTold(tx[t].events, tx[t].calls)
      <3>1. CallsTold(tx[t]) /\ tx[t].phase = "exec"
        BY <1>11 DEF Commit, EventsFollowCalls
      <3> QED BY <3>1, AtExec
    <2>3. published'.events = tx[t].events /\ published'.calls = tx[t].calls
      BY <1>11 DEF Commit
    <2> QED BY <2>1, <2>2, <2>3 DEF EventsFollowCalls, EventsTellCalls, InFlight
  <1> QED
    BY <1>1, <1>2, <1>4, <1>5, <1>6, <1>7, <1>8, <1>9, <1>10, <1>11 DEF Next, Advance

\* The events of a successful transaction are, one by one and in order, its
\* deposits and withdrawals, whatever else the transaction does.
THEOREM EventsAlwaysTellCalls == Spec => []EventsTellCalls
  <1>1. Init => EventsFollowCalls
    BY NothingTold DEF Init, EventsFollowCalls, EventsTellCalls, InFlight
  <1>2. IInv /\ EventsFollowCalls /\ [Next]_vars => EventsFollowCalls'
    BY EventsFollowStep
  <1>3. EventsFollowCalls => EventsTellCalls
    BY DEF EventsFollowCalls
  <1> QED BY <1>1, <1>2, <1>3, Invariance, PTL DEF Spec

---------------------------------------------------------------------------
(***************************************************************************)
(* The dispatcher implements the registry it promises.                     *)
(***************************************************************************)

\* The registry and the dispatcher mean the same by an entry and its PDA.
LEMMA SameVocabulary ==
    /\ Promise!Pda = Pda
    /\ Promise!Entry = Entry
    /\ Promise!Active = Active /\ Promise!Paused = Paused
    /\ \A e : Promise!EntryInvariant(e) <=> EntryInvariant(e)
    /\ \A e, pda : Promise!AtPda(e, pda) <=> AtPda(e, pda)
  <1>1. Promise!Active = Active /\ Promise!Paused = Paused
        /\ Promise!Deprecated = Deprecated /\ Promise!Byte = Byte /\ Promise!Pda = Pda
    BY DEF Promise!Active, Promise!Paused, Promise!Deprecated, Promise!Byte, Promise!Pda,
           Active, Paused, Deprecated, Byte, Pda
  <1>2. Promise!Entry = Entry
    BY <1>1 DEF Promise!Entry, Entry
  <1>3. \A e : Promise!EntryInvariant(e) <=> EntryInvariant(e)
    BY <1>1 DEF Promise!EntryInvariant, EntryInvariant, Promise!ValidStatus, ValidStatus
  <1>4. \A e, pda : Promise!AtPda(e, pda) <=> AtPda(e, pda)
    BY DEF Promise!AtPda, AtPda
  <1> QED BY <1>1, <1>2, <1>3, <1>4

\* The dispatcher starts where the registry does.
LEMMA PromiseInit == Init => Promise!Init
  BY SameVocabulary DEF Init, Promise!Init

\* A step of the dispatcher is a step of the registry or moves no account.
LEMMA PromiseStep == IInv /\ [Next]_vars => [Promise!Next]_Promise!vars
  <1> SUFFICES ASSUME IInv, NEW t \in Slots, Commit(t) PROVE Promise!Next
    BY OnlyCommitMoves DEF Promise!vars
  <1>1. registry' \in {registry, INITIALIZER} /\ (registry # NoRegistry => registry' = registry)
    BY CommitStores
  <1>2. DOMAIN adapters' = Pda
    BY CommitStores
  <1>3. ASSUME NEW pda \in Pda PROVE Promise!EntryStep(pda)
    BY CommitMoves, SameVocabulary
       DEF EntryMoves, FreshEntry, ToggledEntry, Promise!EntryStep, Promise!Registered,
           Promise!Toggled
  <1> QED BY <1>1, <1>2, <1>3, SameVocabulary DEF Promise!Next

\* However transactions overlap, fail and are combined, the stored registry and
\* entries behave as the abstract registry does.
THEOREM ImplementsRegistry == Spec => RegistryPromise
  <1>1. Spec => Promise!Init /\ [][Promise!Next]_Promise!vars
    BY PromiseInit, PromiseStep, Invariance, PTL DEF Spec
  <1> QED BY <1>1 DEF RegistryPromise, Promise!Spec
===========================================================================
