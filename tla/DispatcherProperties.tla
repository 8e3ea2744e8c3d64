----------------------- MODULE DispatcherProperties -----------------------
(***************************************************************************)
(* What must hold of the dispatcher however transactions overlap, fail and *)
(* are combined.                                                           *)
(***************************************************************************)
EXTENDS Dispatcher

\* The variables hold data of their types: accounts as the program lays them
\* out, in-flight transactions as the runtime keeps them.
TypeOK ==
    /\ registry \in Keys \cup {NoRegistry}
    /\ adapters \in [Pda -> Entry \cup {NoEntry}]
    /\ tx \in [Slots -> Running \cup {Idle}]
    /\ published \in [events : Seq(Event), calls : Seq(Call), ret : ReturnSlot(Setters)]
    /\ indexed \in [Pda -> Byte \cup {Unknown}]

---------------------------------------------------------------------------
(***************************************************************************)
(* Safety.                                                                 *)
(***************************************************************************)

\* While an adapter runs on behalf of the dispatcher, and until the handler
\* has finished, the entry the call was routed through is Active, in the view
\* of the transaction and, unless that very transaction has written the entry,
\* in the committed state: nobody can pause an adapter in the middle of a call
\* whose status check (deposit, withdraw, current_value validate) has passed.
RoutedWhileActive ==
    \A t \in Slots : InFlight(t) /\ tx[t].phase \in {"cpi", "returned"} =>
        LET pda == Ix(t).adapter
        IN  /\ tx[t].view.adapters[pda] # NoEntry
            /\ tx[t].view.adapters[pda].status = Active
            /\ pda \notin WriteLocks(tx[t].body) =>
                  adapters[pda] = tx[t].view.adapters[pda]

\* Every stored entry passes Adapter::invariant, lies at the PDA of its own
\* fields and was registered under the registry of INITIALIZER: the check made
\* once by adapter_init is never undone, so is_active and toggle_adapter never
\* meet an invalid status byte.
EntriesWellFormed ==
    \A pda \in Pda : adapters[pda] # NoEntry =>
        /\ EntryInvariant(adapters[pda])
        /\ AtPda(adapters[pda], pda)
        /\ registry = INITIALIZER

\* An observer that only applies the ToggleEvents of successful transactions
\* agrees with the stored status of every entry it has heard of: each status
\* change of toggle_adapter is announced and each announcement is stored.
EventsTellStatus ==
    \A pda \in Pda : indexed[pda] # Unknown =>
        /\ adapters[pda] # NoEntry
        /\ adapters[pda].status = indexed[pda]

\* The positions S of one sequence correspond to the positions T of another, one
\* to one and in order, in pairs of this relation.
InStep(S, T, pairs) ==
    \E order \in [S -> T] :
        /\ \A n \in T : \E i \in S : order[i] = n
        /\ \A i, j \in S : i < j => order[i] < order[j]
        /\ \A i \in S : <<i, order[i]>> \in pairs

\* The events of routed calls, and the calls that have one.
Announced(events) == {i \in DOMAIN events : events[i].event \in RouteOps}
Made(calls) == {n \in DOMAIN calls : calls[n].op # "current_value"}

TellsCall(event, call) ==
    /\ event.event = call.op
    /\ event.authority = call.authority
    /\ event.program_id = call.program_id
    /\ event.amount = call.amount

AllTold(events, calls) ==
    InStep(Announced(events), Made(calls),
           {p \in (DOMAIN events) \X (DOMAIN calls) : TellsCall(events[p[1]], calls[p[2]])})

\* The DepositEvents and WithdrawEvents of a successful transaction are, in
\* order, the deposits and withdrawals adapters have carried out in it, with the
\* signer, program and amount each adapter was given.
EventsTellCalls == AllTold(published.events, published.calls)

---------------------------------------------------------------------------
(***************************************************************************)
(* What a step may never do.                                               *)
(***************************************************************************)

\* A stored entry changes only in its status, and only in the commit of a
\* transaction in which the entry's own authority signed a toggle_adapter of it;
\* a Deprecated entry does not change at all.
ChangesNeedAuthority ==
    [][\A pda \in Pda : adapters[pda] # NoEntry /\ adapters'[pda] # adapters[pda] =>
          /\ adapters[pda].status # Deprecated
          /\ \E status \in {Active, Paused} :
                adapters'[pda] = [adapters[pda] EXCEPT !.status = status]
          /\ \E t \in Slots :
                /\ InFlight(t) /\ tx'[t] = Idle
                /\ \E i \in DOMAIN tx[t].body :
                      /\ tx[t].body[i].op = "toggle_adapter"
                      /\ tx[t].body[i].adapter = pda
                      /\ tx[t].body[i].signer = adapters[pda].authority]_vars

\* An entry comes into being only by a transaction INITIALIZER has signed, even
\* when the registry is created in the same transaction.
RegistrationNeedsInitializer ==
    [][\A pda \in Pda : adapters[pda] = NoEntry /\ adapters'[pda] # NoEntry =>
          \E t \in Slots :
              /\ InFlight(t) /\ tx'[t] = Idle
              /\ \E i \in DOMAIN tx[t].body :
                    /\ tx[t].body[i].op = "adapter_init"
                    /\ tx[t].body[i].adapter = pda
                    /\ tx[t].body[i].signer = INITIALIZER]_vars

\* The step in which the handler of t completes a current_value.
Answers(t) ==
    /\ InFlight(t) /\ tx[t].phase = "returned" /\ Ix(t).op = "current_value"
    /\ tx'[t] # Idle /\ tx'[t].phase = "exec"

\* current_value completes only with a u64 set during its own CPI, by the
\* adapter or a program below it, and republishes exactly that u64: an answer
\* is never empty, truncated, or left over from an earlier instruction.
AnswersTheCall ==
    [][\A t \in Slots : Answers(t) =>
          /\ tx[t].ret.data \in Value
          /\ tx[t].ret.by \in {Target(t), PROTOCOL}
          /\ tx'[t].ret = [by |-> DISPATCHER, data |-> tx[t].ret.data]]_vars

---------------------------------------------------------------------------
(***************************************************************************)
(* Refinement and progress.                                                *)
(***************************************************************************)

Serial == INSTANCE SerialDispatcher
    WITH registry <- registry, adapters <- adapters, published <- published

\* Transactions overlapping under the declared locks have the effect of running
\* one at a time, each as a whole or not at all.
Serializable == Serial!Spec

Promise == INSTANCE Registry WITH registry <- registry, adapters <- adapters

\* The stored accounts only ever move as the registry promises.
RegistryPromise == Promise!Spec

===========================================================================
