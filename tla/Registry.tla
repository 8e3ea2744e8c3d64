----------------------------- MODULE Registry -----------------------------
(***************************************************************************)
(* What the dispatcher promises about its stored state, whoever sends      *)
(* which transactions: the registry is created once, for the compiled-in   *)
(* initializer; an entry appears once, complete and well formed, under an  *)
(* existing registry; afterwards its status alone moves, between Active    *)
(* and Paused, and Deprecated is final.  One step is one transaction, which*)
(* may do several of these things at once.                                 *)
(***************************************************************************)
EXTENDS Instructions

VARIABLES
    registry,   \* the initializer stored in the registry PDA, or NoRegistry
    adapters    \* the entry stored in each adapter PDA, or NoEntry

vars == <<registry, adapters>>

Init ==
    /\ registry = NoRegistry
    /\ adapters = [pda \in Pda |-> NoEntry]

Registered(pda) ==
    /\ adapters[pda] = NoEntry
    /\ adapters'[pda] \in Entry
    /\ EntryInvariant(adapters'[pda])
    /\ AtPda(adapters'[pda], pda)
    /\ registry' = INITIALIZER

Toggled(pda) ==
    /\ adapters[pda] # NoEntry
    /\ adapters[pda].status \in {Active, Paused}
    /\ \E status \in {Active, Paused} :
          adapters'[pda] = [adapters[pda] EXCEPT !.status = status]

\* A transaction that registers an entry and toggles it at once is, to an
\* observer, a registration with the status it ends on.
EntryStep(pda) ==
    \/ adapters'[pda] = adapters[pda]
    \/ Registered(pda)
    \/ Toggled(pda)

Next ==
    /\ registry' \in {registry, INITIALIZER}
    /\ registry # NoRegistry => registry' = registry
    /\ \A pda \in Pda : EntryStep(pda)
    /\ DOMAIN adapters' = Pda

Spec == Init /\ [][Next]_vars
===========================================================================
