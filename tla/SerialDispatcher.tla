------------------------- MODULE SerialDispatcher -------------------------
(***************************************************************************)
(* The dispatcher as its clients think of it: transactions run one at a    *)
(* time and a transaction that fails anywhere has no effect.  A step is a  *)
(* whole successful transaction; an adapter's part in it is its reply, the *)
(* return data it leaves behind.                                           *)
(***************************************************************************)
EXTENDS Instructions

CONSTANT Transactions

VARIABLES registry, adapters, published

vars == <<registry, adapters, published>>

Init ==
    /\ registry = NoRegistry
    /\ adapters = [pda \in Pda |-> NoEntry]
    /\ published = [events |-> <<>>, calls |-> <<>>, ret |-> Cleared]

\* What an adapter leaves in the return-data slot: nothing, data its own
\* protocol set, or data of its own.
Reply == {"protocol", "adapter"} \X ReturnData

SlotAfter(program, reply) ==
    IF reply = <<"adapter", Empty>> THEN Cleared
    ELSE [by   |-> IF reply[1] = "adapter" THEN program ELSE PROTOCOL,
          data |-> reply[2]]

\* The state a transaction carries from one instruction to the next.
Progress(view, events, calls, ret) ==
    [view |-> view, events |-> events, calls |-> calls, ret |-> ret]

\* A routed call, its adapter having replied.
Routed(s, ix, reply) ==
    LET slot == SlotAfter(s.view.adapters[ix.adapter].program_id, reply)
        calls == Append(s.calls, AdapterCall(s.view, ix))
    IN  IF ix.op = "current_value"
        THEN Progress(s.view, s.events, calls, Republished(slot))
        ELSE Progress(s.view, Append(s.events, RouteEvent(s.view, ix)), calls, slot)

\* The effect of instruction n of body, when it succeeds.
Effect(s, body, n, replies) ==
    LET ix == body[n]
        Local(view, events) == Progress(view, events, s.calls, Cleared)
    IN  CASE ix.op = "registry_init" -> Local(RegistryInit(s.view, ix), s.events)
          [] ix.op = "adapter_init"  -> Local(AdapterInit(s.view, ix), s.events)
          [] ix.op = "toggle_adapter" ->
                LET view == Toggle(s.view, ix)
                IN  Local(view, Append(s.events, ToggleEvent(view, ix)))
          [] ix.op \in RouteOps -> Routed(s, ix, replies[n])

Succeeds(s, body, n, replies) ==
    /\ Accepts(s.view, body[n])
    /\ body[n].op = "current_value" => replies[n][2] \in Value

\* The instructions of body that reach an adapter.
RoutedIn(body) == {n \in DOMAIN body : body[n].op \in RouteOps}

\* All instructions of body succeed, one after the other.
Transact(body) == \E replies \in [RoutedIn(body) -> Reply] :
    LET after[n \in 0..Len(body)] ==
            IF n = 0
            THEN Progress([registry |-> registry, adapters |-> adapters],
                          <<>>, <<>>, Cleared)
            ELSE Effect(after[n - 1], body, n, replies)
        end == after[Len(body)]
    IN  /\ \A n \in DOMAIN body : Succeeds(after[n - 1], body, n, replies)
        /\ registry' = end.view.registry
        /\ adapters' = end.view.adapters
        /\ published' = [events |-> end.events, calls |-> end.calls, ret |-> end.ret]

Next == \E body \in Transactions : Transact(body)

Spec == Init /\ [][Next]_vars
===========================================================================
