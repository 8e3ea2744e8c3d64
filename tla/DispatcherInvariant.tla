------------------------ MODULE DispatcherInvariant -----------------------
(***************************************************************************)
(* The invariant of the dispatcher that is inductive, and from which its   *)
(* safety properties follow.                                               *)
(*                                                                         *)
(* Each transaction in flight is sound: what it sees of the accounts it    *)
(* only reads is what is committed, what it has made of the accounts it    *)
(* writes is a legal continuation of what is committed, its events tell    *)
(* what it did to statuses, and the entry of a call in progress is active. *)
(* Isolation keeps one transaction from moving the committed accounts      *)
(* another one depends on.                                                 *)
(***************************************************************************)
EXTENDS DispatcherProperties

\* Some instruction of body is this operation on this entry by this signer.
Signed(body, op, pda, signer) ==
    \E i \in DOMAIN body : /\ body[i].op = op
                           /\ body[i].adapter = pda
                           /\ body[i].signer = signer

FreshEntry(pda, body, old, new, reg) ==
    /\ old = NoEntry
    /\ new \in Entry
    /\ EntryInvariant(new)
    /\ AtPda(new, pda)
    /\ reg = INITIALIZER
    /\ Signed(body, "adapter_init", pda, INITIALIZER)

ToggledEntry(pda, body, old, new) ==
    /\ old # NoEntry
    /\ old.status \in {Active, Paused}
    /\ \E status \in {Active, Paused} : new = [old EXCEPT !.status = status]
    /\ Signed(body, "toggle_adapter", pda, old.authority)

EntryMoves(pda, body, old, new, reg) ==
    \/ new = old
    \/ FreshEntry(pda, body, old, new, reg)
    \/ ToggledEntry(pda, body, old, new)

SoundRegistry(body, view, reg) ==
    RegistryPda \in Locks(body) =>
        \/ view.registry = reg
        \/ /\ RegistryPda \in WriteLocks(body)
           /\ reg = NoRegistry
           /\ view.registry = INITIALIZER

SoundEntries(body, view, ads) ==
    \A pda \in Pda :
        /\ pda \in WriteLocks(body) =>
              EntryMoves(pda, body, ads[pda], view.adapters[pda], view.registry)
        /\ pda \in Locks(body) /\ pda \notin WriteLocks(body) =>
              view.adapters[pda] = ads[pda]

SoundEvents(body, view, events, ads) ==
    \A pda \in Pda :
        /\ \A i \in DOMAIN events : IsToggle(events[i], pda) => pda \in WriteLocks(body)
        /\ \A i \in DOMAIN events : LastToggle(events, pda, i) =>
              /\ view.adapters[pda] # NoEntry
              /\ view.adapters[pda].status = events[i].status
        /\ pda \in WriteLocks(body) /\ ads[pda] # NoEntry =>
              \/ view.adapters[pda] = ads[pda]
              \/ \E i \in DOMAIN events : LastToggle(events, pda, i)

\* A routed call found its entry, and the entry stays as it was found.
RouteHolds(r) ==
    r.phase \in {"cpi", "returned"} =>
        LET ix == r.body[r.pc]
        IN  /\ r.pc \in DOMAIN r.body
            /\ ix.op \in RouteOps
            /\ r.view.adapters[ix.adapter] # NoEntry
            /\ r.view.adapters[ix.adapter].status = Active

Sound(r, reg, ads) ==
    /\ SoundRegistry(r.body, r.view, reg)
    /\ SoundEntries(r.body, r.view, ads)
    /\ SoundEvents(r.body, r.view, r.events, ads)
    /\ RouteHolds(r)

AllSound == \A t \in Slots : InFlight(t) => Sound(tx[t], registry, adapters)

Isolation ==
    \A t, u \in Slots : InFlight(t) /\ InFlight(u) /\ t # u =>
        ~Conflict(tx[t].body, tx[u].body)

RegistryOK == registry \in {NoRegistry, INITIALIZER}

IInv ==
    /\ TypeOK
    /\ RegistryOK
    /\ EntriesWellFormed
    /\ EventsTellStatus
    /\ Isolation
    /\ AllSound

\* Return data found during a call was set during it, by the adapter or its
\* protocol.
OwnSlot(r) ==
    r.phase \in {"cpi", "returned"} =>
        \/ r.ret = Cleared
        \/ r.ret.by \in {r.view.adapters[r.body[r.pc].adapter].program_id, PROTOCOL}

OwnAnswers == \A t \in Slots : InFlight(t) => OwnSlot(tx[t])

\* Every deposit and withdrawal made so far has its event; one whose adapter has
\* just returned is the last and will have it next.
CallsTold(r) ==
    IF r.phase = "returned" /\ r.body[r.pc].op # "current_value"
    THEN \E older \in Seq(Call) :
            /\ r.calls = Append(older, AdapterCall(r.view, r.body[r.pc]))
            /\ AllTold(r.events, older)
    ELSE AllTold(r.events, r.calls)

EventsFollowCalls ==
    /\ EventsTellCalls
    /\ \A t \in Slots : InFlight(t) => CallsTold(tx[t])
===========================================================================
