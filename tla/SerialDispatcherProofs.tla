---------------------- MODULE SerialDispatcherProofs ----------------------
(***************************************************************************)
(* Overlapping transactions have the effect of running one at a time.      *)
(*                                                                         *)
(* Each transaction in flight is a serial one that has come so far: from a *)
(* view that agrees with the committed accounts it has declared, the       *)
(* instructions done so far succeed one after the other and lead to its    *)
(* present view, events and calls.  The accounts it has not declared may   *)
(* have moved since; no instruction of it looks at them, so the same run   *)
(* starts as well from the accounts as they are when it commits.           *)
(***************************************************************************)
EXTENDS DispatcherProofs, WellFoundedInduction

---------------------------------------------------------------------------
(***************************************************************************)
(* The serial dispatcher means the same by an instruction.                 *)
(***************************************************************************)

\* The constants both are built from.
LEMMA SameWords ==
    /\ Serial!Active = Active /\ Serial!Paused = Paused /\ Serial!Deprecated = Deprecated
    /\ Serial!RouteOps = RouteOps /\ Serial!Cleared = Cleared
    /\ Serial!EXTRA_DATA_MAX_LEN = EXTRA_DATA_MAX_LEN
    /\ Serial!ReturnData = ReturnData
    /\ \A status : Serial!ValidStatus(status) <=> ValidStatus(status)
    /\ \A status : Serial!IsActive(status) <=> IsActive(status)
    /\ \A status : Serial!NextStatus(status) = NextStatus(status)
  BY DEF Serial!Active, Serial!Paused, Serial!Deprecated, Serial!RouteOps, Serial!Cleared,
         Serial!EXTRA_DATA_MAX_LEN, Serial!ReturnData, Serial!ValidStatus, Serial!IsActive,
         Serial!NextStatus, Active, Paused, Deprecated, RouteOps, Cleared,
         EXTRA_DATA_MAX_LEN, ReturnData, ValidStatus, IsActive, NextStatus

\* The handlers accept the same calls.
LEMMA SameAccepts ==
    ASSUME NEW v, NEW ix
    PROVE  Serial!Accepts(v, ix) <=> Accepts(v, ix)
  <1>1. Serial!CanRegistryInit(v, ix) <=> CanRegistryInit(v, ix)
    BY DEF Serial!CanRegistryInit, CanRegistryInit
  <1>2. Serial!CanAdapterInit(v, ix) <=> CanAdapterInit(v, ix)
    BY SameWords DEF Serial!CanAdapterInit, CanAdapterInit, Serial!EntryInvariant,
                     EntryInvariant, Serial!NewEntry, NewEntry
  <1>3. Serial!CanToggle(v, ix) <=> CanToggle(v, ix)
    BY SameWords DEF Serial!CanToggle, CanToggle
  <1>4. Serial!CanRoute(v, ix) <=> CanRoute(v, ix)
    BY SameWords DEF Serial!CanRoute, CanRoute
  <1> QED BY <1>1, <1>2, <1>3, <1>4, SameWords DEF Serial!Accepts, Accepts

\* They write and tell the same.
LEMMA SameHandlers ==
    ASSUME NEW v, NEW ix
    PROVE  /\ Serial!RegistryInit(v, ix) = RegistryInit(v, ix)
           /\ Serial!AdapterInit(v, ix) = AdapterInit(v, ix)
           /\ Serial!Toggle(v, ix) = Toggle(v, ix)
           /\ Serial!ToggleEvent(v, ix) = ToggleEvent(v, ix)
           /\ Serial!RouteEvent(v, ix) = RouteEvent(v, ix)
           /\ Serial!AdapterCall(v, ix) = AdapterCall(v, ix)
           /\ \A slot : Serial!Republished(slot) = Republished(slot)
  <1>1. Serial!NewEntry(ix) = NewEntry(ix)
    BY DEF Serial!NewEntry, NewEntry
  <1>2. \A status : Serial!NextStatus(status) = NextStatus(status)
    BY SameWords
  <1>3. Serial!RegistryInit(v, ix) = RegistryInit(v, ix)
    BY DEF Serial!RegistryInit, RegistryInit
  <1>4. Serial!AdapterInit(v, ix) = AdapterInit(v, ix)
    BY <1>1 DEF Serial!AdapterInit, AdapterInit
  <1>5. Serial!Toggle(v, ix) = Toggle(v, ix)
    BY <1>2 DEF Serial!Toggle, Toggle
  <1>6. /\ Serial!ToggleEvent(v, ix) = ToggleEvent(v, ix)
        /\ Serial!RouteEvent(v, ix) = RouteEvent(v, ix)
        /\ Serial!AdapterCall(v, ix) = AdapterCall(v, ix)
    BY DEF Serial!ToggleEvent, ToggleEvent, Serial!RouteEvent, RouteEvent,
           Serial!AdapterCall, AdapterCall
  <1>7. \A slot : Serial!Republished(slot) = Republished(slot)
    BY DEF Serial!Republished, Republished
  <1> QED BY <1>3, <1>4, <1>5, <1>6, <1>7

---------------------------------------------------------------------------
(***************************************************************************)
(* An instruction of a serial transaction, operation by operation.         *)
(***************************************************************************)

\* When it succeeds.
LEMMA SucceedsWhen ==
    ASSUME NEW s, NEW body, NEW n, NEW replies
    PROVE  Serial!Succeeds(s, body, n, replies) <=>
              /\ Accepts(s.view, body[n])
              /\ body[n].op = "current_value" => replies[n][2] \in Value
  BY SameAccepts DEF Serial!Succeeds

\* What the state of a transaction is made of.
StateOf(view, events, calls, ret) ==
    [view |-> view, events |-> events, calls |-> calls, ret |-> ret]

\* The return data a routed call leaves.
RetOf(ix, slot) == IF ix.op = "current_value" THEN Republished(slot) ELSE slot

\* The events after a routed call.
EventsOf(s, ix) ==
    IF ix.op = "current_value" THEN s.events ELSE Append(s.events, RouteEvent(s.view, ix))

\* What it does.
LEMMA EffectIs ==
    ASSUME NEW s, NEW body, NEW n, NEW replies, NEW ix, ix = body[n]
    PROVE  /\ ix.op = "registry_init" =>
                 Serial!Effect(s, body, n, replies)
                    = StateOf(RegistryInit(s.view, ix), s.events, s.calls, Cleared)
           /\ ix.op = "adapter_init" =>
                 Serial!Effect(s, body, n, replies)
                    = StateOf(AdapterInit(s.view, ix), s.events, s.calls, Cleared)
           /\ ix.op = "toggle_adapter" =>
                 Serial!Effect(s, body, n, replies)
                    = StateOf(Toggle(s.view, ix),
                              Append(s.events, ToggleEvent(Toggle(s.view, ix), ix)),
                              s.calls, Cleared)
           /\ ix.op \in RouteOps =>
                 Serial!Effect(s, body, n, replies)
                    = StateOf(s.view, EventsOf(s, ix),
                              Append(s.calls, AdapterCall(s.view, ix)),
                              RetOf(ix, Serial!SlotAfter(s.view.adapters[ix.adapter].program_id,
                                                         replies[n])))
  <1> DEFINE effect == Serial!Effect(s, body, n, replies)
  <1>0. Serial!RouteOps \cap {"registry_init", "adapter_init", "toggle_adapter"} = {}
    BY SameWords DEF RouteOps
  <1>1. ASSUME ix.op = "registry_init"
        PROVE  effect = StateOf(RegistryInit(s.view, ix), s.events, s.calls, Cleared)
    <2>1. effect = Serial!Progress(Serial!RegistryInit(s.view, ix), s.events, s.calls,
                                   Serial!Cleared)
      BY <1>0, <1>1 DEF Serial!Effect
    <2> QED BY <2>1, SameHandlers, SameWords DEF Serial!Progress, StateOf
  <1>2. ASSUME ix.op = "adapter_init"
        PROVE  effect = StateOf(AdapterInit(s.view, ix), s.events, s.calls, Cleared)
    <2>1. effect = Serial!Progress(Serial!AdapterInit(s.view, ix), s.events, s.calls,
                                   Serial!Cleared)
      BY <1>0, <1>2 DEF Serial!Effect
    <2> QED BY <2>1, SameHandlers, SameWords DEF Serial!Progress, StateOf
  <1>3. ASSUME ix.op = "toggle_adapter"
        PROVE  effect = StateOf(Toggle(s.view, ix),
                                Append(s.events, ToggleEvent(Toggle(s.view, ix), ix)),
                                s.calls, Cleared)
    <2> DEFINE view == Serial!Toggle(s.view, ix)
    <2>1. effect = Serial!Progress(view, Append(s.events, Serial!ToggleEvent(view, ix)),
                                   s.calls, Serial!Cleared)
      BY <1>0, <1>3 DEF Serial!Effect
    <2> QED BY <2>1, SameHandlers, SameWords DEF Serial!Progress, StateOf
  <1>4. ASSUME ix.op \in RouteOps
        PROVE  effect = StateOf(s.view, EventsOf(s, ix),
                                Append(s.calls, AdapterCall(s.view, ix)),
                                RetOf(ix, Serial!SlotAfter(
                                              s.view.adapters[ix.adapter].program_id,
                                              replies[n])))
    <2>1. effect = Serial!Routed(s, ix, replies[n])
      BY <1>4, SameWords DEF Serial!Effect, RouteOps
    <2> HIDE DEF effect
    <2> QED BY <2>1, SameHandlers DEF Serial!Routed, Serial!Progress, StateOf, EventsOf, RetOf
  <1> QED BY <1>1, <1>2, <1>3, <1>4

---------------------------------------------------------------------------
(***************************************************************************)
(* A transaction in flight as a serial one that has come so far.           *)
(***************************************************************************)

\* The first instructions of body succeed, taking each state to the next.
Steps(body, done, replies, s) ==
    \A n \in 1..done : /\ Serial!Succeeds(s[n - 1], body, n, replies)
                       /\ s[n] = Serial!Effect(s[n - 1], body, n, replies)

\* A view shows the accounts body declares as they are committed.
Agrees(body, view, reg, ads) ==
    /\ RegistryPda \in Locks(body) => view.registry = reg
    /\ \A pda \in Pda : pda \in Locks(body) => view.adapters[pda] = ads[pda]

\* The serial state before the current instruction, and how far that one is.
Reached(r, s) ==
    /\ s.view = r.view
    /\ s.events = r.events
    /\ r.phase # "returned" => s.calls = r.calls
    /\ r.phase = "returned" =>
          r.calls = Append(s.calls, AdapterCall(r.view, r.body[r.pc]))
    /\ r.phase = "exec" => s.ret = r.ret

\* During a routed call the return data is an adapter's reply, so far.
Replied(r) ==
    r.phase # "exec" =>
        LET ix == r.body[r.pc]
        IN  /\ ix.op \in RouteOps
            /\ Accepts(r.view, ix)
            /\ \E reply \in Serial!Reply :
                  r.ret = Serial!SlotAfter(r.view.adapters[ix.adapter].program_id, reply)

Replies(body) == [Serial!RoutedIn(body) -> Serial!Reply]

\* A serial run of what the transaction has done so far.
Run(r, reg, ads, replies, s) ==
    /\ s[0] = StateOf(s[0].view, <<>>, <<>>, Cleared)
    /\ Agrees(r.body, s[0].view, reg, ads)
    /\ \A n \in 0..(r.pc - 1) : s[n].view \in View
    /\ Steps(r.body, r.pc - 1, replies, s)
    /\ Reached(r, s[r.pc - 1])

Replayed(r, reg, ads) ==
    /\ r.pc <= Len(r.body) + 1
    /\ Replied(r)
    /\ \E replies \in Replies(r.body) : \E s : Run(r, reg, ads, replies, s)

AllReplayed == \A t \in Slots : InFlight(t) => Replayed(tx[t], registry, adapters)

\* An effect and a success depend on the reply to their own instruction alone.
LEMMA OwnReply ==
    ASSUME NEW s, NEW body, NEW n, NEW replies, NEW others, replies[n] = others[n]
    PROVE  /\ Serial!Succeeds(s, body, n, replies) <=> Serial!Succeeds(s, body, n, others)
           /\ Serial!Effect(s, body, n, replies) = Serial!Effect(s, body, n, others)
  BY DEF Serial!Succeeds, Serial!Effect

\* A step within an instruction.
LEMMA SameInstruction ==
    ASSUME NEW r, NEW next, NEW reg, NEW ads, Replayed(r, reg, ads),
           next.body = r.body, next.pc = r.pc, Replied(next),
           \A s : Reached(r, s) => Reached(next, s)
    PROVE  Replayed(next, reg, ads)
  <1>1. PICK replies \in Replies(r.body) : \E s : Run(r, reg, ads, replies, s)
    BY DEF Replayed
  <1>2. PICK s : Run(r, reg, ads, replies, s)
    BY <1>1
  <1>3. Run(next, reg, ads, replies, s)
    BY <1>2 DEF Run
  <1> QED BY <1>1, <1>3 DEF Replayed

\* A step that completes an instruction: what it does is the effect of that
\* instruction, if its adapter gives this reply.
LEMMA NextInstruction ==
    ASSUME NEW r \in Running, r.body \in Seq(Instruction), r.pc \in DOMAIN r.body,
           NEW next \in Running, next.body = r.body, next.pc = r.pc + 1, next.phase = "exec",
           NEW reg, NEW ads, Replayed(r, reg, ads), NEW reply \in Serial!Reply,
           \A s, replies :
               Reached(r, s) /\ (r.body[r.pc].op \in RouteOps => replies[r.pc] = reply) =>
                  /\ Serial!Succeeds(s, r.body, r.pc, replies)
                  /\ Serial!Effect(s, r.body, r.pc, replies)
                        = StateOf(next.view, next.events, next.calls, next.ret)
    PROVE  Replayed(next, reg, ads)
  <1> DEFINE body == r.body
             done == r.pc
             end == StateOf(next.view, next.events, next.calls, next.ret)
  <1>1. PICK replies \in Replies(body) : \E s : Run(r, reg, ads, replies, s)
    BY DEF Replayed
  <1>2. PICK s : Run(r, reg, ads, replies, s)
    BY <1>1
  <1> DEFINE replies2 == [n \in Serial!RoutedIn(body) |->
                             IF n = done THEN reply ELSE replies[n]]
             s2 == [n \in 0..done |-> IF n = done THEN end ELSE s[n]]
  <1>3. done \in Nat /\ done >= 1 /\ done <= Len(body) /\ Len(body) \in Nat
        /\ DOMAIN body = 1..Len(body)
    OBVIOUS
  <1>4. replies2 \in Replies(body)
    BY <1>1 DEF Replies
  <1>5. \A n \in 1..(done - 1) :
            /\ Serial!Succeeds(s2[n - 1], body, n, replies2)
            /\ s2[n] = Serial!Effect(s2[n - 1], body, n, replies2)
    <2> SUFFICES ASSUME NEW n \in 1..(done - 1)
                 PROVE  /\ Serial!Succeeds(s2[n - 1], body, n, replies2)
                        /\ s2[n] = Serial!Effect(s2[n - 1], body, n, replies2)
      OBVIOUS
    <2>1. s2[n - 1] = s[n - 1] /\ s2[n] = s[n] /\ n \in DOMAIN body /\ n # done
      BY <1>3
    <2>2. /\ Serial!Succeeds(s[n - 1], body, n, replies)
          /\ s[n] = Serial!Effect(s[n - 1], body, n, replies)
      BY <1>2, <1>3 DEF Run, Steps
    <2>3. CASE n \in Serial!RoutedIn(body)
      <3>1. replies2[n] = replies[n]
        BY <2>1, <2>3
      <3> HIDE DEF replies2, s2
      <3> QED BY <2>1, <2>2, <3>1, OwnReply
    <2>4. CASE n \notin Serial!RoutedIn(body)
      <3>1. body[n].op \notin RouteOps /\ body[n] \in Instruction
        BY <2>1, <2>4, SameWords DEF Serial!RoutedIn
      <3>2. body[n].op \in {"registry_init", "adapter_init", "toggle_adapter"}
        BY <3>1 DEF Instruction, Ops
      <3> HIDE DEF replies2, s2
      <3>3. Serial!Effect(s[n - 1], body, n, replies2) = Serial!Effect(s[n - 1], body, n, replies)
        BY <3>2, EffectIs
      <3>4. Serial!Succeeds(s[n - 1], body, n, replies2)
        BY <2>2, <3>2, SucceedsWhen
      <3> QED BY <2>1, <2>2, <3>3, <3>4
    <2> QED BY <2>3, <2>4
  <1>6. /\ Serial!Succeeds(s2[done - 1], body, done, replies2)
        /\ s2[done] = Serial!Effect(s2[done - 1], body, done, replies2)
    <2>1. s2[done - 1] = s[done - 1] /\ s2[done] = end
      BY <1>3
    <2>2. Reached(r, s[done - 1])
      BY <1>2 DEF Run
    <2>3. body[done].op \in RouteOps => replies2[done] = reply
      BY SameWords DEF Serial!RoutedIn
    <2> HIDE DEF s2, replies2, end
    <2>4. /\ Serial!Succeeds(s[done - 1], body, done, replies2)
          /\ Serial!Effect(s[done - 1], body, done, replies2) = end
      BY <2>2, <2>3 DEF end
    <2> QED BY <2>1, <2>4
  <1>7. Steps(body, done, replies2, s2)
    <2>1. \A n \in 1..done : n \in 1..(done - 1) \/ n = done
      BY <1>3
    <2> HIDE DEF s2, replies2
    <2> QED BY <1>5, <1>6, <2>1 DEF Steps
  <1>8. s2[0] = s[0] /\ s2[done] = end
    BY <1>3
  <1>9. \A n \in 0..done : s2[n].view \in View
    <2>1. \A n \in 0..(done - 1) : s2[n] = s[n]
      BY <1>3
    <2>2. end.view \in View
      BY DEF StateOf, Running
    <2>3. \A n \in 0..done : n \in 0..(done - 1) \/ n = done
      BY <1>3
    <2> HIDE DEF s2, end
    <2> QED BY <1>2, <1>8, <2>1, <2>2, <2>3 DEF Run
  <1>10. Reached(next, end)
    BY DEF Reached, StateOf
  <1>11. next.pc - 1 = done
    BY <1>3
  <1> HIDE DEF s2, replies2, end, body
  <1>12. Run(next, reg, ads, replies2, s2)
    BY <1>2, <1>7, <1>8, <1>9, <1>10, <1>11 DEF Run, body
  <1>13. Replied(next) /\ next.pc <= Len(next.body) + 1
    BY <1>3 DEF Replied, body
  <1> QED BY <1>4, <1>12, <1>13 DEF Replayed, body

---------------------------------------------------------------------------
(***************************************************************************)
(* The actions, one by one.                                                *)
(***************************************************************************)

\* A step of one transaction that leaves it a serial one.
LEMMA ReplayStep ==
    ASSUME IInv, AllReplayed, NEW t \in Slots, NEW next, Becomes(t, next),
           next # Idle => Replayed(next, registry, adapters)
    PROVE  AllReplayed'
  <1>1. tx'[t] = next /\ \A u \in Slots : u # t => tx'[u] = tx[u]
    BY DEF Becomes, IInv, TypeOK
  <1>2. registry' = registry /\ adapters' = adapters
    BY DEF Becomes
  <1> QED BY <1>1, <1>2 DEF AllReplayed, InFlight

\* What is known of a transaction at an instruction.
LEMMA AtReplayed ==
    ASSUME IInv, AllReplayed, NEW t \in Slots, NEW phase, AtInstruction(t, phase)
    PROVE  /\ InFlight(t) /\ tx[t] \in Running /\ tx[t].phase = phase
           /\ tx[t].body \in Seq(Instruction) /\ tx[t].pc \in DOMAIN tx[t].body
           /\ tx[t].view \in View /\ Ix(t) \in Instruction
           /\ Replayed(tx[t], registry, adapters)
  BY AtIx DEF AtInstruction, AllReplayed

\* A reply is one of the replies, and what it leaves behind.
LEMMA ReplyIs ==
    /\ <<"adapter", Empty>> \in Serial!Reply
    /\ \A data \in ReturnData : /\ <<"adapter", data>> \in Serial!Reply
                                /\ <<"protocol", data>> \in Serial!Reply
    /\ \A program : Serial!SlotAfter(program, <<"adapter", Empty>>) = Cleared
    /\ \A program, data : data # Empty =>
          Serial!SlotAfter(program, <<"adapter", data>>) = [by |-> program, data |-> data]
    /\ \A program, data :
          Serial!SlotAfter(program, <<"protocol", data>>) = [by |-> PROTOCOL, data |-> data]
  <1>1. \A data \in ReturnData : /\ <<"adapter", data>> \in Serial!Reply
                                 /\ <<"protocol", data>> \in Serial!Reply
    BY SameWords DEF Serial!Reply
  <1>2. Empty \in ReturnData
    BY DEF ReturnData
  <1>3. \A program : Serial!SlotAfter(program, <<"adapter", Empty>>) = Cleared
    BY SameWords DEF Serial!SlotAfter
  <1>4. \A program, data : data # Empty =>
           Serial!SlotAfter(program, <<"adapter", data>>) = [by |-> program, data |-> data]
    BY DEF Serial!SlotAfter
  <1>5. \A program, data :
           Serial!SlotAfter(program, <<"protocol", data>>) = [by |-> PROTOCOL, data |-> data]
    BY DEF Serial!SlotAfter
  <1> QED BY <1>1, <1>2, <1>3, <1>4, <1>5

\* A transaction starts as a serial one that has done nothing.
LEMMA StartReplayed ==
    ASSUME IInv, AllReplayed, NEW t \in Slots, NEW body \in Transactions, Start(t, body)
    PROVE  AllReplayed'
  <1> DEFINE next == Admitted(body)
             view == [registry |-> registry, adapters |-> adapters]
             s == [n \in 0..0 |-> StateOf(view, <<>>, <<>>, Cleared)]
             replies == [n \in Serial!RoutedIn(body) |-> <<"adapter", Empty>>]
  <1>1. /\ next.body = body /\ next.pc = 1 /\ next.phase = "exec" /\ next.view = view
        /\ next.events = <<>> /\ next.calls = <<>> /\ next.ret = Cleared
    BY DEF Admitted
  <1>2. view \in View /\ view.registry = registry /\ view.adapters = adapters
    BY DEF View, IInv, TypeOK
  <1>3. body \in Seq(Instruction)
    BY TransactionAssumption
  <1>4. replies \in Replies(body)
    BY ReplyIs DEF Replies
  <1>5. s[0] = StateOf(view, <<>>, <<>>, Cleared)
    OBVIOUS
  <1>6. s[0].view = view /\ s[0].events = <<>> /\ s[0].calls = <<>> /\ s[0].ret = Cleared
    BY <1>5 DEF StateOf
  <1> HIDE DEF next, s, view, replies
  <1>7. Run(next, registry, adapters, replies, s)
    <2>1. 0..(next.pc - 1) = {0} /\ 1..(next.pc - 1) = {} /\ next.pc - 1 = 0
      BY <1>1
    <2>2. Steps(body, next.pc - 1, replies, s)
      BY <2>1 DEF Steps
    <2>3. Reached(next, s[0]) /\ Agrees(body, s[0].view, registry, adapters)
      BY <1>1, <1>2, <1>6 DEF Reached, Agrees
    <2> QED BY <1>1, <1>2, <1>5, <1>6, <2>1, <2>2, <2>3 DEF Run
  <1>8. Replied(next) /\ next.pc <= Len(next.body) + 1
    BY <1>1, <1>3 DEF Replied
  <1>9. Replayed(next, registry, adapters)
    BY <1>1, <1>4, <1>7, <1>8 DEF Replayed
  <1>10. Becomes(t, next)
    BY DEF Start, next
  <1> QED BY <1>9, <1>10, ReplayStep

\* Serially, with this reply to its call if it makes one, the current instruction
\* of transaction t succeeds and leaves these accounts, events and return slot.
Replays(t, view, events, ret, reply) ==
    \A s, replies :
       Reached(tx[t], s) /\ (Ix(t).op \in RouteOps => replies[tx[t].pc] = reply) =>
          /\ Serial!Succeeds(s, tx[t].body, tx[t].pc, replies)
          /\ Serial!Effect(s, tx[t].body, tx[t].pc, replies)
                = StateOf(view, events, tx[t].calls, ret)

\* A handler that completes without a call, or after one.
LEMMA CompleteReplayed ==
    ASSUME IInv, AllReplayed, NEW t \in Slots, NEW phase, AtInstruction(t, phase),
           NEW view \in View, NEW events \in Seq(Event), NEW ret \in ReturnSlot(Setters),
           Complete(t, view, events, ret),
           NEW reply \in Serial!Reply, Replays(t, view, events, ret, reply)
    PROVE  AllReplayed'
  <1> DEFINE next == [tx[t] EXCEPT !.pc = tx[t].pc + 1, !.phase = "exec",
                                   !.view = view, !.events = events, !.ret = ret]
  <1>1. /\ tx[t] \in Running /\ tx[t].body \in Seq(Instruction)
        /\ tx[t].pc \in DOMAIN tx[t].body /\ Replayed(tx[t], registry, adapters)
    BY AtReplayed
  <1>2. /\ next.body = tx[t].body /\ next.pc = tx[t].pc + 1 /\ next.phase = "exec"
        /\ next.view = view /\ next.events = events /\ next.calls = tx[t].calls
        /\ next.ret = ret
    BY <1>1 DEF Running
  <1>3. next \in Running
    <2>1. tx[t].pc + 1 \in Nat \ {0}
      BY <1>1 DEF Running
    <2> QED BY <1>1, <2>1, UpdateType, Zenon
  <1>4. Becomes(t, next)
    BY DEF Complete
  <1> HIDE DEF next
  <1>5. \A s, replies :
           Reached(tx[t], s)
           /\ (tx[t].body[tx[t].pc].op \in RouteOps => replies[tx[t].pc] = reply) =>
              /\ Serial!Succeeds(s, tx[t].body, tx[t].pc, replies)
              /\ Serial!Effect(s, tx[t].body, tx[t].pc, replies)
                    = StateOf(next.view, next.events, next.calls, next.ret)
    BY <1>2 DEF Ix, Replays
  <1>6. Replayed(next, registry, adapters)
    BY <1>1, <1>2, <1>3, <1>5, NextInstruction
  <1> QED BY <1>4, <1>6, ReplayStep

\* registry_init, adapter_init and toggle_adapter have their serial effect.
LEMMA LocalReplayed ==
    ASSUME IInv, AllReplayed, NEW t \in Slots,
           ExecRegistryInit(t) \/ ExecAdapterInit(t) \/ ExecToggle(t)
    PROVE  AllReplayed'
  <1>1. AtInstruction(t, "exec")
    BY DEF ExecRegistryInit, ExecAdapterInit, ExecToggle
  <1>2. /\ tx[t] \in Running /\ tx[t].phase = "exec" /\ tx[t].view \in View
        /\ Ix(t) \in Instruction /\ tx[t].events \in Seq(Event)
        /\ tx[t].body[tx[t].pc] = Ix(t)
    BY <1>1, AtReplayed DEF Running, Ix
  <1>3. \A s : Reached(tx[t], s) =>
           s.view = tx[t].view /\ s.events = tx[t].events /\ s.calls = tx[t].calls
    BY <1>2 DEF Reached
  <1>4. <<"adapter", Empty>> \in Serial!Reply
    BY ReplyIs
  <1>5. CASE ExecRegistryInit(t)
    <2> DEFINE view == RegistryInit(tx[t].view, Ix(t))
    <2>1. /\ Ix(t).op = "registry_init" /\ CanRegistryInit(tx[t].view, Ix(t))
          /\ Complete(t, view, tx[t].events, Cleared)
      BY <1>5 DEF ExecRegistryInit
    <2>2. view \in View
      BY <1>2, <2>1, HandlerTypes
    <2>3. Accepts(tx[t].view, Ix(t))
      BY <2>1 DEF Accepts
    <2>4. Replays(t, view, tx[t].events, Cleared, <<"adapter", Empty>>)
      BY <1>2, <1>3, <2>1, <2>3, SucceedsWhen, EffectIs DEF Replays
    <2> HIDE DEF view
    <2> QED BY <1>1, <1>2, <1>4, <2>1, <2>2, <2>4, ClearedType, CompleteReplayed
  <1>6. CASE ExecAdapterInit(t)
    <2> DEFINE view == AdapterInit(tx[t].view, Ix(t))
    <2>1. /\ Ix(t).op = "adapter_init" /\ CanAdapterInit(tx[t].view, Ix(t))
          /\ Complete(t, view, tx[t].events, Cleared)
      BY <1>6 DEF ExecAdapterInit
    <2>2. view \in View
      BY <1>2, <2>1, HandlerTypes
    <2>3. Accepts(tx[t].view, Ix(t))
      BY <2>1 DEF Accepts
    <2>4. Replays(t, view, tx[t].events, Cleared, <<"adapter", Empty>>)
      BY <1>2, <1>3, <2>1, <2>3, SucceedsWhen, EffectIs DEF Replays
    <2> HIDE DEF view
    <2> QED BY <1>1, <1>2, <1>4, <2>1, <2>2, <2>4, ClearedType, CompleteReplayed
  <1>7. CASE ExecToggle(t)
    <2> DEFINE view == Toggle(tx[t].view, Ix(t))
               events == Append(tx[t].events, ToggleEvent(view, Ix(t)))
    <2>1. /\ Ix(t).op = "toggle_adapter" /\ CanToggle(tx[t].view, Ix(t))
          /\ Complete(t, view, events, Cleared)
      BY <1>7 DEF ExecToggle
    <2>2. view \in View /\ events \in Seq(Event)
      BY <1>1, <1>2, <2>1, HandlerTypes, ToggleEventType
    <2>3. Accepts(tx[t].view, Ix(t))
      BY <2>1 DEF Accepts
    <2>4. Replays(t, view, events, Cleared, <<"adapter", Empty>>)
      BY <1>2, <1>3, <2>1, <2>3, SucceedsWhen, EffectIs DEF Replays
    <2> HIDE DEF view, events
    <2> QED BY <1>1, <1>2, <1>4, <2>1, <2>2, <2>4, ClearedType, CompleteReplayed
  <1> QED BY <1>5, <1>6, <1>7

\* The adapter's turn does not touch what has been done before it.
LEMMA CallReplayed ==
    ASSUME IInv, AllReplayed, NEW t \in Slots,
           \/ BeginRoute(t) \/ AdapterInvokesProtocol(t)
           \/ AdapterSetsReturnData(t) \/ AdapterSucceeds(t)
    PROVE  AllReplayed'
  <1> DEFINE r == tx[t]
             program == r.view.adapters[Ix(t).adapter].program_id
  <1>1. ASSUME NEW phase, AtInstruction(t, phase), NEW next, Becomes(t, next),
               next.body = r.body, next.pc = r.pc, next.view = r.view,
               next.events = r.events, Replied(next),
               \A s : Reached(r, s) => Reached(next, s)
        PROVE  AllReplayed'
    BY <1>1, AtReplayed, SameInstruction, ReplayStep
  <1>2. ASSUME NEW phase, AtInstruction(t, phase)
        PROVE  /\ r \in Running /\ r.phase = phase /\ r.body[r.pc] = Ix(t)
               /\ Replied(r)
    BY <1>2, AtReplayed DEF Replayed, Ix
  <1>3. ASSUME NEW next, next.body = r.body, next.pc = r.pc, next.view = r.view,
               Ix(t).op \in RouteOps, Accepts(r.view, Ix(t)), r.body[r.pc] = Ix(t),
               NEW reply \in Serial!Reply, next.ret = Serial!SlotAfter(program, reply)
        PROVE  Replied(next)
    BY <1>3 DEF Replied
  <1>4. CASE BeginRoute(t)
    <2> DEFINE next == [r EXCEPT !.phase = "cpi", !.ret = Cleared]
    <2>1. /\ AtInstruction(t, "exec") /\ Ix(t).op \in RouteOps
          /\ CanRoute(r.view, Ix(t)) /\ Becomes(t, next)
      BY <1>4 DEF BeginRoute
    <2>2. r \in Running /\ r.phase = "exec" /\ r.body[r.pc] = Ix(t)
      BY <1>2, <2>1
    <2>3. /\ next.body = r.body /\ next.pc = r.pc /\ next.view = r.view
          /\ next.events = r.events /\ next.calls = r.calls
          /\ next.phase = "cpi" /\ next.ret = Cleared
      BY <2>2 DEF Running
    <2>4. Accepts(r.view, Ix(t))
      BY <2>1 DEF Accepts
    <2> HIDE DEF next, r
    <2>5. Replied(next)
      BY <1>3, <2>1, <2>2, <2>3, <2>4, ReplyIs
    <2>6. \A s : Reached(r, s) => Reached(next, s)
      BY <2>2, <2>3 DEF Reached
    <2> QED BY <1>1, <2>1, <2>3, <2>5, <2>6
  <1>5. CASE AdapterInvokesProtocol(t) \/ AdapterSetsReturnData(t)
    <2>1. AtInstruction(t, "cpi")
      BY <1>5 DEF AdapterInvokesProtocol, AdapterSetsReturnData
    <2>2. PICK reply \in Serial!Reply :
             Becomes(t, [r EXCEPT !.ret = Serial!SlotAfter(program, reply)])
      <3>1. CASE AdapterInvokesProtocol(t)
        <4>1. PICK data \in ReturnData :
                 Becomes(t, [r EXCEPT !.ret = [by |-> PROTOCOL, data |-> data]])
          BY <3>1 DEF AdapterInvokesProtocol
        <4>2. /\ <<"protocol", data>> \in Serial!Reply
              /\ Serial!SlotAfter(program, <<"protocol", data>>)
                    = [by |-> PROTOCOL, data |-> data]
          BY ReplyIs
        <4> HIDE DEF r, program
        <4> QED BY <4>1, <4>2
      <3>2. CASE AdapterSetsReturnData(t)
        <4>1. PICK data \in Value \cup {TooShort} :
                 Becomes(t, [r EXCEPT !.ret = [by |-> program, data |-> data]])
          BY <3>2 DEF AdapterSetsReturnData, Target
        <4>2. data \in ReturnData /\ data # Empty
          BY ReturnDataAssumption DEF ReturnData
        <4>3. /\ <<"adapter", data>> \in Serial!Reply
              /\ Serial!SlotAfter(program, <<"adapter", data>>)
                    = [by |-> program, data |-> data]
          BY <4>2, ReplyIs
        <4> HIDE DEF r, program
        <4> QED BY <4>1, <4>3
      <3> QED BY <1>5, <3>1, <3>2
    <2> DEFINE next == [r EXCEPT !.ret = Serial!SlotAfter(program, reply)]
    <2>3. r \in Running /\ r.phase = "cpi" /\ r.body[r.pc] = Ix(t) /\ Replied(r)
      BY <1>2, <2>1
    <2>4. /\ next.body = r.body /\ next.pc = r.pc /\ next.view = r.view
          /\ next.events = r.events /\ next.calls = r.calls
          /\ next.phase = "cpi" /\ next.ret = Serial!SlotAfter(program, reply)
      BY <2>3 DEF Running
    <2>5. Ix(t).op \in RouteOps /\ Accepts(r.view, Ix(t))
      BY <2>3 DEF Replied
    <2>6. Becomes(t, next)
      BY <2>2
    <2> HIDE DEF next, r, program
    <2>7. Replied(next)
      BY <1>3, <2>3, <2>4, <2>5
    <2>8. \A s : Reached(r, s) => Reached(next, s)
      BY <2>3, <2>4 DEF Reached
    <2> QED BY <1>1, <2>1, <2>4, <2>6, <2>7, <2>8
  <1>6. CASE AdapterSucceeds(t)
    <2> DEFINE call == AdapterCall(r.view, Ix(t))
               next == [r EXCEPT !.phase = "returned", !.calls = Append(r.calls, call)]
    <2>1. AtInstruction(t, "cpi") /\ Becomes(t, next)
      BY <1>6 DEF AdapterSucceeds
    <2>2. r \in Running /\ r.phase = "cpi" /\ r.body[r.pc] = Ix(t) /\ Replied(r)
      BY <1>2, <2>1
    <2>3. /\ next.body = r.body /\ next.pc = r.pc /\ next.view = r.view
          /\ next.events = r.events /\ next.calls = Append(r.calls, call)
          /\ next.phase = "returned" /\ next.ret = r.ret
      BY <2>2 DEF Running
    <2> HIDE DEF next, r
    <2>4. Replied(next)
      BY <2>2, <2>3 DEF Replied
    <2>5. \A s : Reached(r, s) => Reached(next, s)
      BY <2>2, <2>3 DEF Reached
    <2> QED BY <1>1, <2>1, <2>3, <2>4, <2>5
  <1> QED BY <1>4, <1>5, <1>6

\* The handler's last lines complete the call with the reply its adapter left.
LEMMA FinishReplayed ==
    ASSUME IInv, AllReplayed, NEW t \in Slots, FinishRoute(t) \/ FinishCurrentValue(t)
    PROVE  AllReplayed'
  <1> DEFINE r == tx[t]
             ix == Ix(t)
             program == r.view.adapters[ix.adapter].program_id
  <1>1. AtInstruction(t, "returned") /\ ix.op \in RouteOps
    BY DEF FinishRoute, FinishCurrentValue, RouteOps
  <1>2. /\ r \in Running /\ r.phase = "returned" /\ r.view \in View /\ ix \in Instruction
        /\ r.events \in Seq(Event) /\ r.ret \in ReturnSlot(Setters)
        /\ r.body[r.pc] = ix /\ Replied(r)
    BY <1>1, AtReplayed DEF Running, Ix, Replayed
  <1>3. PICK reply \in Serial!Reply : r.ret = Serial!SlotAfter(program, reply)
    BY <1>2 DEF Replied
  <1>4. Accepts(r.view, ix) /\ r.view.adapters[ix.adapter] # NoEntry
    <2>1. Accepts(r.view, ix)
      BY <1>2 DEF Replied
    <2> QED BY <1>1, <2>1 DEF Accepts, CanRoute, RouteOps
  <1>5. \A s, replies : Reached(r, s) /\ replies[r.pc] = reply =>
           /\ Serial!Succeeds(s, r.body, r.pc, replies) <=>
                 (ix.op = "current_value" => reply[2] \in Value)
           /\ Serial!Effect(s, r.body, r.pc, replies)
                 = StateOf(r.view, EventsOf(s, ix), r.calls, RetOf(ix, r.ret))
           /\ s.events = r.events /\ s.view = r.view
    <2> SUFFICES ASSUME NEW s, NEW replies, Reached(r, s), replies[r.pc] = reply
                 PROVE  /\ Serial!Succeeds(s, r.body, r.pc, replies) <=>
                              (ix.op = "current_value" => reply[2] \in Value)
                        /\ Serial!Effect(s, r.body, r.pc, replies)
                              = StateOf(r.view, EventsOf(s, ix), r.calls, RetOf(ix, r.ret))
                        /\ s.events = r.events /\ s.view = r.view
      OBVIOUS
    <2>1. /\ s.view = r.view /\ s.events = r.events
          /\ r.calls = Append(s.calls, AdapterCall(r.view, ix))
      BY <1>2 DEF Reached
    <2> HIDE DEF r, ix
    <2>2. Serial!Effect(s, r.body, r.pc, replies)
             = StateOf(s.view, EventsOf(s, ix), Append(s.calls, AdapterCall(s.view, ix)),
                       RetOf(ix, Serial!SlotAfter(s.view.adapters[ix.adapter].program_id,
                                                  replies[r.pc])))
      BY <1>1, <1>2, EffectIs
    <2> QED BY <1>2, <1>3, <1>4, <2>1, <2>2, SucceedsWhen
  <1>6. CASE FinishRoute(t)
    <2> DEFINE events == Append(r.events, RouteEvent(r.view, ix))
    <2>1. /\ ix.op \in {"deposit", "withdraw"} /\ Complete(t, r.view, events, r.ret)
      BY <1>6 DEF FinishRoute
    <2>2. events \in Seq(Event)
      <3>1. RouteEvent(r.view, ix) \in Event
        BY <1>1, <1>2, <1>4, RouteTypes
      <3> QED BY <1>2, <3>1
    <2>3. \A s : s.events = r.events /\ s.view = r.view => EventsOf(s, ix) = events
      BY <2>1 DEF EventsOf
    <2>4. RetOf(ix, r.ret) = r.ret
      BY <2>1 DEF RetOf
    <2> HIDE DEF events
    <2>5. Replays(t, r.view, events, r.ret, reply)
      BY <1>1, <1>5, <2>1, <2>3, <2>4 DEF Replays
    <2> QED BY <1>1, <1>2, <1>3, <2>1, <2>2, <2>5, CompleteReplayed
  <1>7. CASE FinishCurrentValue(t)
    <2> DEFINE ret == Republished(r.ret)
    <2>1. /\ ix.op = "current_value" /\ HasReturnU64(r.ret)
          /\ Complete(t, r.view, r.events, ret)
      BY <1>7 DEF FinishCurrentValue
    <2>2. ret \in ReturnSlot(Setters)
      BY <1>2 DEF Republished, ReturnSlot, Setters
    <2>3. reply[2] \in Value
      <3>1. r.ret.data \in Value
        BY <1>2, <2>1 DEF HasReturnU64, ReturnSlot, ReturnData
      <3>2. CASE reply = <<"adapter", Empty>>
        <4>1. r.ret.data = Empty
          BY <1>3, <3>2, ReplyIs DEF Cleared
        <4> QED BY <3>1, <4>1, ReturnDataAssumption
      <3>3. CASE reply # <<"adapter", Empty>>
        <4>1. r.ret.data = reply[2]
          BY <1>3, <3>3 DEF Serial!SlotAfter
        <4> QED BY <3>1, <4>1
      <3> QED BY <3>2, <3>3
    <2>4. \A s : s.events = r.events => EventsOf(s, ix) = r.events
      BY <2>1 DEF EventsOf
    <2>5. RetOf(ix, r.ret) = ret
      BY <2>1 DEF RetOf
    <2>6. Replays(t, r.view, r.events, ret, reply)
      BY <1>1, <1>5, <2>3, <2>4, <2>5 DEF Replays
    <2> HIDE DEF ret
    <2> QED BY <1>1, <1>2, <1>3, <2>1, <2>2, <2>6, CompleteReplayed
  <1> QED BY <1>6, <1>7

\* A commit moves no account another transaction in flight has declared, so that
\* one is still the serial transaction it was.
LEMMA CommitReplayed ==
    ASSUME IInv, AllReplayed, NEW t \in Slots, Commit(t)
    PROVE  AllReplayed'
  <1> SUFFICES ASSUME NEW u \in Slots, InFlight(u)'
               PROVE  Replayed(tx[u], registry', adapters') /\ tx'[u] = tx[u]
    BY DEF AllReplayed
  <1>1. u # t /\ tx'[u] = tx[u] /\ InFlight(u)
    BY CommitStores DEF InFlight, IInv, TypeOK
  <1>2. WriteLocks(tx[t].body) \cap Locks(tx[u].body) = {}
    BY <1>1 DEF IInv, Isolation, Conflict, Commit
  <1>3. \A view : Agrees(tx[u].body, view, registry, adapters) =>
                     Agrees(tx[u].body, view, registry', adapters')
    BY <1>2, CommitStores DEF Agrees
  <1>4. Replayed(tx[u], registry, adapters)
    BY <1>1 DEF AllReplayed
  <1>5. PICK replies \in Replies(tx[u].body) :
               \E s : Run(tx[u], registry, adapters, replies, s)
    BY <1>4 DEF Replayed
  <1>6. PICK s : Run(tx[u], registry, adapters, replies, s)
    BY <1>5
  <1>7. Run(tx[u], registry', adapters', replies, s)
    BY <1>3, <1>6 DEF Run
  <1> QED BY <1>1, <1>4, <1>5, <1>7 DEF Replayed

\* Every step leaves every transaction in flight a serial one.
LEMMA ReplayedStep ==
    ASSUME IInv, AllReplayed, [Next]_vars
    PROVE  AllReplayed'
  <1>1. CASE UNCHANGED vars
    BY <1>1 DEF vars, AllReplayed, InFlight
  <1>2. ASSUME NEW t \in Slots,
               RejectCall(t) \/ AdapterFails(t) \/ RejectReturnData(t)
        PROVE  AllReplayed'
    BY <1>2, ReplayStep DEF RejectCall, AdapterFails, RejectReturnData, Abort
  <1> QED
    BY <1>1, <1>2, StartReplayed, LocalReplayed, CallReplayed, FinishReplayed,
       CommitReplayed DEF Next, Advance

---------------------------------------------------------------------------
(***************************************************************************)
(* The same run from other accounts.                                       *)
(***************************************************************************)

\* Entries and a view in which the accounts body has not declared are these instead.
RebasedEntries(body, entries, ads) ==
    [pda \in Pda |-> IF pda \in Locks(body) THEN entries[pda] ELSE ads[pda]]

Rebased(body, view, reg, ads) ==
    [registry |-> IF RegistryPda \in Locks(body) THEN view.registry ELSE reg,
     adapters |-> RebasedEntries(body, view.adapters, ads)]

RebasedState(body, s, reg, ads) ==
    StateOf(Rebased(body, s.view, reg, ads), s.events, s.calls, s.ret)

\* No instruction notices: its handler looks only at declared accounts.
LEMMA RebasedHandlers ==
    ASSUME NEW body \in Seq(Instruction), NEW n \in DOMAIN body, NEW ix, ix = body[n],
           NEW v \in View, NEW reg, NEW ads
    PROVE  /\ Accepts(Rebased(body, v, reg, ads), ix) <=> Accepts(v, ix)
           /\ ix.op = "registry_init" =>
                 RegistryInit(Rebased(body, v, reg, ads), ix)
                    = Rebased(body, RegistryInit(v, ix), reg, ads)
           /\ ix.op = "adapter_init" =>
                 AdapterInit(Rebased(body, v, reg, ads), ix)
                    = Rebased(body, AdapterInit(v, ix), reg, ads)
           /\ ix.op = "toggle_adapter" =>
                 /\ Toggle(Rebased(body, v, reg, ads), ix)
                       = Rebased(body, Toggle(v, ix), reg, ads)
                 /\ ToggleEvent(Rebased(body, Toggle(v, ix), reg, ads), ix)
                       = ToggleEvent(Toggle(v, ix), ix)
           /\ ix.op \in RouteOps =>
                 Rebased(body, v, reg, ads).adapters[ix.adapter] = v.adapters[ix.adapter]
  <1> DEFINE w == Rebased(body, v, reg, ads)
  <1>0. ix \in Instruction
    OBVIOUS
  <1>1. ix \in Instruction /\ ix.adapter \in Pda
    BY <1>0 DEF Instruction
  <1>2. /\ ix.op = "registry_init" => RegistryPda \in Locks(body)
        /\ ix.op = "adapter_init" => RegistryPda \in Locks(body)
        /\ ix.op # "registry_init" => ix.adapter \in Locks(body)
    <2>1. ix.op \in {"registry_init", "adapter_init", "toggle_adapter"} \cup RouteOps
      BY <1>1 DEF Instruction, Ops
    <2> QED BY <2>1, LocksOfIx DEF Locks
  <1>3. /\ RegistryPda \in Locks(body) => w.registry = v.registry
        /\ ix.adapter \in Locks(body) => w.adapters[ix.adapter] = v.adapters[ix.adapter]
    BY <1>1 DEF Rebased, RebasedEntries
  <1>4. Accepts(w, ix) <=> Accepts(v, ix)
    <2> HIDE DEF w
    <2>1. ix.op = "registry_init" => (CanRegistryInit(w, ix) <=> CanRegistryInit(v, ix))
      BY <1>2, <1>3 DEF CanRegistryInit
    <2>2. ix.op = "adapter_init" => (CanAdapterInit(w, ix) <=> CanAdapterInit(v, ix))
      BY <1>2, <1>3 DEF CanAdapterInit
    <2>3. ix.op = "toggle_adapter" => (CanToggle(w, ix) <=> CanToggle(v, ix))
      BY <1>2, <1>3 DEF CanToggle
    <2>4. ix.op \in RouteOps => (CanRoute(w, ix) <=> CanRoute(v, ix))
      BY <1>2, <1>3 DEF CanRoute, RouteOps
    <2> QED BY <2>1, <2>2, <2>3, <2>4 DEF Accepts
  <1>9. \E x, y : w = [registry |-> x, adapters |-> y]
    BY DEF Rebased
  <1>5. ASSUME ix.op = "registry_init"
        PROVE  RegistryInit(w, ix) = Rebased(body, RegistryInit(v, ix), reg, ads)
    <2>1. RegistryInit(w, ix) = [registry |-> ix.signer, adapters |-> w.adapters]
      BY <1>9 DEF RegistryInit
    <2>2. /\ RegistryInit(v, ix).registry = ix.signer
          /\ RegistryInit(v, ix).adapters = v.adapters
      BY DEF RegistryInit, View
    <2>3. w.adapters = RebasedEntries(body, v.adapters, ads)
      BY DEF Rebased
    <2> HIDE DEF w
    <2> QED BY <1>2, <1>5, <2>1, <2>2, <2>3 DEF Rebased
  <1>6. ASSUME ix.op = "adapter_init"
        PROVE  AdapterInit(w, ix) = Rebased(body, AdapterInit(v, ix), reg, ads)
    <2>1. AdapterInit(w, ix) = [registry |-> w.registry,
                                adapters |-> [w.adapters EXCEPT ![ix.adapter] = NewEntry(ix)]]
      BY <1>9 DEF AdapterInit
    <2>2. /\ AdapterInit(v, ix).registry = v.registry
          /\ AdapterInit(v, ix).adapters = [v.adapters EXCEPT ![ix.adapter] = NewEntry(ix)]
      BY DEF AdapterInit, View
    <2>3. w.registry = Rebased(body, AdapterInit(v, ix), reg, ads).registry
      BY <2>2 DEF Rebased
    <2>4. RebasedEntries(body, AdapterInit(v, ix).adapters, ads)
             = [w.adapters EXCEPT ![ix.adapter] = NewEntry(ix)]
      <3>1. DOMAIN v.adapters = Pda /\ w.adapters = RebasedEntries(body, v.adapters, ads)
        BY DEF View, Rebased
      <3>2. ix.adapter \in Pda /\ ix.adapter \in Locks(body)
        BY <1>1, <1>2, <1>6
      <3> HIDE DEF w
      <3>3. RebasedEntries(body, [v.adapters EXCEPT ![ix.adapter] = NewEntry(ix)], ads)
               = [RebasedEntries(body, v.adapters, ads) EXCEPT ![ix.adapter] = NewEntry(ix)]
        BY <3>1, <3>2 DEF RebasedEntries
      <3> QED BY <2>2, <3>1, <3>3
    <2> HIDE DEF w
    <2> QED BY <2>1, <2>3, <2>4 DEF Rebased
  <1>7. ASSUME ix.op = "toggle_adapter"
        PROVE  /\ Toggle(w, ix) = Rebased(body, Toggle(v, ix), reg, ads)
               /\ ToggleEvent(Rebased(body, Toggle(v, ix), reg, ads), ix)
                     = ToggleEvent(Toggle(v, ix), ix)
    <2> DEFINE new == [v.adapters[ix.adapter] EXCEPT
                          !.status = NextStatus(v.adapters[ix.adapter].status)]
    <2>1. Toggle(w, ix) = Rebased(body, Toggle(v, ix), reg, ads)
      <3>1. Toggle(w, ix) = [registry |-> w.registry,
                             adapters |-> [w.adapters EXCEPT ![ix.adapter] = new]]
        <4>1. DOMAIN w.adapters = Pda
          BY DEF Rebased, RebasedEntries
        <4>2. w.adapters[ix.adapter] = v.adapters[ix.adapter]
          BY <1>2, <1>3, <1>7
        <4> HIDE DEF w
        <4> QED BY <1>1, <1>9, <4>1, <4>2 DEF Toggle
      <3>2. /\ Toggle(v, ix).registry = v.registry
            /\ Toggle(v, ix).adapters = [v.adapters EXCEPT ![ix.adapter] = new]
        BY <1>1 DEF Toggle, View
      <3>3. w.registry = Rebased(body, Toggle(v, ix), reg, ads).registry
        BY <3>2 DEF Rebased
      <3> HIDE DEF new
      <3>4. RebasedEntries(body, Toggle(v, ix).adapters, ads)
               = [w.adapters EXCEPT ![ix.adapter] = new]
        <4>1. DOMAIN v.adapters = Pda /\ w.adapters = RebasedEntries(body, v.adapters, ads)
          BY DEF View, Rebased
        <4>2. ix.adapter \in Pda /\ ix.adapter \in Locks(body)
          BY <1>1, <1>2, <1>7
        <4> HIDE DEF w
        <4>3. RebasedEntries(body, [v.adapters EXCEPT ![ix.adapter] = new], ads)
                 = [RebasedEntries(body, v.adapters, ads) EXCEPT ![ix.adapter] = new]
          BY <4>1, <4>2 DEF RebasedEntries
        <4> QED BY <3>2, <4>1, <4>3
      <3> HIDE DEF w
      <3> QED BY <3>1, <3>3, <3>4 DEF Rebased
    <2>2. Rebased(body, Toggle(v, ix), reg, ads).adapters[ix.adapter]
             = Toggle(v, ix).adapters[ix.adapter]
      BY <1>1, <1>2, <1>7 DEF Rebased, RebasedEntries
    <2> QED BY <2>1, <2>2 DEF ToggleEvent
  <1>8. ASSUME ix.op \in RouteOps
        PROVE  w.adapters[ix.adapter] = v.adapters[ix.adapter]
    BY <1>2, <1>3, <1>8 DEF RouteOps
  <1> QED BY <1>4, <1>5, <1>6, <1>7, <1>8

\* So it succeeds as well, with the same effect.
LEMMA RebasedEffect ==
    ASSUME NEW body \in Seq(Instruction), NEW n \in DOMAIN body, NEW replies,
           NEW s, s.view \in View, NEW reg, NEW ads
    PROVE  /\ Serial!Succeeds(RebasedState(body, s, reg, ads), body, n, replies)
                 <=> Serial!Succeeds(s, body, n, replies)
           /\ Serial!Effect(RebasedState(body, s, reg, ads), body, n, replies)
                 = RebasedState(body, Serial!Effect(s, body, n, replies), reg, ads)
  <1> DEFINE ix == body[n]
             v == s.view
             w == Rebased(body, v, reg, ads)
             z == RebasedState(body, s, reg, ads)
             effect == Serial!Effect(s, body, n, replies)
             other == Serial!Effect(z, body, n, replies)
  <1>0. ix \in Instruction
    OBVIOUS
  <1>1. ix.op \in {"registry_init", "adapter_init", "toggle_adapter"} \cup RouteOps
    BY <1>0 DEF Instruction, Ops
  <1>2. z.view = w /\ z.events = s.events /\ z.calls = s.calls /\ z.ret = s.ret
    BY DEF RebasedState, StateOf
  <1>3. /\ Accepts(w, ix) <=> Accepts(v, ix)
        /\ ix.op = "registry_init" =>
              RegistryInit(w, ix) = Rebased(body, RegistryInit(v, ix), reg, ads)
        /\ ix.op = "adapter_init" =>
              AdapterInit(w, ix) = Rebased(body, AdapterInit(v, ix), reg, ads)
        /\ ix.op = "toggle_adapter" =>
              /\ Toggle(w, ix) = Rebased(body, Toggle(v, ix), reg, ads)
              /\ ToggleEvent(Rebased(body, Toggle(v, ix), reg, ads), ix)
                    = ToggleEvent(Toggle(v, ix), ix)
        /\ ix.op \in RouteOps => w.adapters[ix.adapter] = v.adapters[ix.adapter]
    BY RebasedHandlers
  <1> HIDE DEF w, z
  <1>4. Serial!Succeeds(z, body, n, replies) <=> Serial!Succeeds(s, body, n, replies)
    BY <1>2, <1>3, SucceedsWhen
  <1>5. \A view, events, calls, ret :
           RebasedState(body, StateOf(view, events, calls, ret), reg, ads)
              = StateOf(Rebased(body, view, reg, ads), events, calls, ret)
    BY DEF RebasedState, StateOf
  <1>6. CASE ix.op = "registry_init"
    <2>1. /\ effect = StateOf(RegistryInit(v, ix), s.events, s.calls, Cleared)
          /\ other = StateOf(RegistryInit(w, ix), s.events, s.calls, Cleared)
      BY <1>2, <1>6, EffectIs
    <2> QED BY <1>3, <1>4, <1>5, <1>6, <2>1 DEF z
  <1>7. CASE ix.op = "adapter_init"
    <2>1. /\ effect = StateOf(AdapterInit(v, ix), s.events, s.calls, Cleared)
          /\ other = StateOf(AdapterInit(w, ix), s.events, s.calls, Cleared)
      BY <1>2, <1>7, EffectIs
    <2> QED BY <1>3, <1>4, <1>5, <1>7, <2>1 DEF z
  <1>8. CASE ix.op = "toggle_adapter"
    <2>1. /\ effect = StateOf(Toggle(v, ix),
                              Append(s.events, ToggleEvent(Toggle(v, ix), ix)),
                              s.calls, Cleared)
          /\ other = StateOf(Toggle(w, ix),
                             Append(s.events, ToggleEvent(Toggle(w, ix), ix)),
                             s.calls, Cleared)
      BY <1>2, <1>8, EffectIs
    <2> QED BY <1>3, <1>4, <1>5, <1>8, <2>1 DEF z
  <1>9. CASE ix.op \in RouteOps
    <2>1. /\ EventsOf(z, ix) = EventsOf(s, ix)
          /\ AdapterCall(w, ix) = AdapterCall(v, ix)
      BY <1>2, <1>3, <1>9 DEF EventsOf, RouteEvent, AdapterCall
    <2> DEFINE ret(view) ==
                  RetOf(ix, Serial!SlotAfter(view.adapters[ix.adapter].program_id, replies[n]))
    <2>2. effect = StateOf(v, EventsOf(s, ix), Append(s.calls, AdapterCall(v, ix)), ret(v))
      BY <1>9, EffectIs
    <2>3. other = StateOf(w, EventsOf(z, ix), Append(s.calls, AdapterCall(w, ix)), ret(w))
      BY <1>2, <1>9, EffectIs
    <2>4. ret(w) = ret(v)
      BY <1>3, <1>9
    <2> HIDE DEF ret
    <2>5. other = RebasedState(body, effect, reg, ads)
      BY <1>5, <2>1, <2>2, <2>3, <2>4 DEF w
    <2> QED BY <1>4, <2>5 DEF z
  <1> QED BY <1>1, <1>6, <1>7, <1>8, <1>9

---------------------------------------------------------------------------
(***************************************************************************)
(* A commit is a serial transaction.                                       *)
(***************************************************************************)

\* A set of numbers has a smallest one.
LEMMA SmallestOf ==
    ASSUME NEW T, T \subseteq Nat, T # {}
    PROVE  \E n \in T : \A m \in T : n <= m
  <1> DEFINE R == OpToRel(<, Nat)
  <1>1. PICK n \in T : \A m \in T : ~(<<m, n>> \in R)
    <2>1. IsWellFoundedOn(R, Nat)
      BY NatLessThanWellFounded, Zenon
    <2> HIDE DEF R
    <2> QED BY <2>1, WFMin
  <1>2. \A m \in T : ~(m < n)
    BY <1>1 DEF OpToRel
  <1> QED BY <1>2

\* The states of a serial run are what the recursion over its instructions gives:
\* two functions with its equation cannot differ, as they would have to at a first
\* instruction.
LEMMA OneRun ==
    ASSUME NEW N \in Nat, NEW first, NEW body, NEW replies, NEW g,
           g = [n \in 0..N |-> IF n = 0 THEN first
                               ELSE Serial!Effect(g[n - 1], body, n, replies)]
    PROVE  g = CHOOSE after :
                  after = [n \in 0..N |-> IF n = 0 THEN first
                                          ELSE Serial!Effect(after[n - 1], body, n, replies)]
  <1> DEFINE Is(f) == f = [n \in 0..N |-> IF n = 0 THEN first
                                          ELSE Serial!Effect(f[n - 1], body, n, replies)]
             f == CHOOSE after : Is(after)
             T == {n \in 0..N : f[n] # g[n]}
  <1>1. Is(g)
    OBVIOUS
  <1>2. Is(f)
    <2> HIDE DEF Is
    <2> QED BY <1>1
  <1> HIDE DEF f
  <1>3. T = {}
    <2> SUFFICES ASSUME T # {} PROVE FALSE
      OBVIOUS
    <2>1. T \subseteq Nat
      OBVIOUS
    <2>2. PICK n \in T : \A m \in T : n <= m
      <3> HIDE DEF T
      <3> QED BY <2>1, SmallestOf
    <2>3. n \in 0..N /\ f[n] # g[n]
      OBVIOUS
    <2>4. n # 0
      BY <1>1, <1>2, <2>3
    <2>5. n - 1 \in 0..N /\ f[n - 1] = g[n - 1]
      BY <2>2, <2>3, <2>4
    <2>6. /\ f[n] = Serial!Effect(f[n - 1], body, n, replies)
          /\ g[n] = Serial!Effect(g[n - 1], body, n, replies)
      BY <1>1, <1>2, <2>3, <2>4
    <2> QED BY <2>3, <2>5, <2>6
  <1>4. f = g
    BY <1>1, <1>2, <1>3
  <1> QED BY <1>4 DEF f

\* The run a committing transaction has behind it, from the accounts as they are
\* now: all its instructions succeed, and its end is what the commit stores.
LEMMA CommitRun ==
    ASSUME IInv, AllReplayed, NEW t \in Slots, Commit(t)
    PROVE  LET body == tx[t].body
               start == StateOf([registry |-> registry, adapters |-> adapters],
                                <<>>, <<>>, Cleared)
           IN  \E replies \in Replies(body) : \E g :
                  /\ g = [n \in 0..Len(body) |->
                             IF n = 0 THEN start
                             ELSE Serial!Effect(g[n - 1], body, n, replies)]
                  /\ \A n \in DOMAIN body : Serial!Succeeds(g[n - 1], body, n, replies)
                  /\ g[Len(body)] = StateOf([registry |-> registry', adapters |-> adapters'],
                                            tx[t].events, tx[t].calls, tx[t].ret)
  <1> DEFINE r == tx[t]
             body == r.body
             N == Len(body)
             start == StateOf([registry |-> registry, adapters |-> adapters],
                              <<>>, <<>>, Cleared)
             end == StateOf([registry |-> registry', adapters |-> adapters'],
                            r.events, r.calls, r.ret)
  <1>1. /\ r \in Running /\ r.phase = "exec" /\ r.pc \notin DOMAIN body
        /\ body \in Seq(Instruction) /\ Replayed(r, registry, adapters)
    BY CommitStores, TransactionAssumption DEF Commit, AllReplayed, Running
  <1>2. N \in Nat /\ DOMAIN body = 1..N /\ r.pc - 1 = N
    <2>1. N \in Nat /\ DOMAIN body = 1..N
      BY <1>1
    <2>2. r.pc \in Nat \ {0} /\ r.pc <= N + 1
      BY <1>1 DEF Running, Replayed
    <2> QED BY <1>1, <2>1, <2>2
  <1>3. PICK replies \in Replies(body) : \E s : Run(r, registry, adapters, replies, s)
    BY <1>1 DEF Replayed
  <1>4. PICK s : Run(r, registry, adapters, replies, s)
    BY <1>3
  <1> DEFINE g == [n \in 0..N |-> RebasedState(body, s[n], registry, adapters)]
  <1>5. \A n \in 0..N : s[n].view \in View
    BY <1>2, <1>4 DEF Run
  <1>6. g[0] = start
    <2>1. RebasedEntries(body, s[0].view.adapters, adapters) = adapters
      BY <1>4 DEF Run, Agrees, RebasedEntries, IInv, TypeOK
    <2>2. Rebased(body, s[0].view, registry, adapters)
             = [registry |-> registry, adapters |-> adapters]
      BY <1>4, <2>1 DEF Run, Agrees, Rebased
    <2>3. s[0].events = <<>> /\ s[0].calls = <<>> /\ s[0].ret = Cleared
      BY <1>4 DEF Run, StateOf
    <2>4. g[0] = RebasedState(body, s[0], registry, adapters)
      BY <1>2
    <2> QED BY <2>2, <2>3, <2>4 DEF RebasedState
  <1>7. ASSUME NEW n \in 1..N
        PROVE  /\ Serial!Succeeds(g[n - 1], body, n, replies)
               /\ g[n] = Serial!Effect(g[n - 1], body, n, replies)
    <2>1. /\ Serial!Succeeds(s[n - 1], body, n, replies)
          /\ s[n] = Serial!Effect(s[n - 1], body, n, replies)
      BY <1>2, <1>4 DEF Run, Steps
    <2>2. n \in DOMAIN body /\ n - 1 \in 0..N /\ n \in 0..N
      BY <1>2
    <2>3. /\ g[n - 1] = RebasedState(body, s[n - 1], registry, adapters)
          /\ g[n] = RebasedState(body, s[n], registry, adapters)
      BY <2>2
    <2> HIDE DEF g, body
    <2> QED BY <1>1, <1>5, <2>1, <2>2, <2>3, RebasedEffect
  <1>8. g[N] = end
    <2>1. Reached(r, s[N])
      BY <1>2, <1>4 DEF Run
    <2>2. /\ s[N].view = r.view /\ s[N].events = r.events
          /\ s[N].calls = r.calls /\ s[N].ret = r.ret
      BY <1>1, <2>1 DEF Reached
    <2>3. RebasedEntries(body, r.view.adapters, adapters) = adapters'
      <3>1. \A pda \in Pda :
               adapters'[pda] = IF pda \in Locks(body) THEN r.view.adapters[pda]
                                ELSE adapters[pda]
        BY CommitStores DEF Sound, SoundEntries, Locks
      <3>2. adapters' \in [Pda -> Entry \cup {NoEntry}]
        BY CommitStores
      <3> QED BY <3>1, <3>2 DEF RebasedEntries
    <2>4. registry' = IF RegistryPda \in Locks(body) THEN r.view.registry ELSE registry
      BY CommitStores DEF Locks
    <2>5. g[N] = RebasedState(body, s[N], registry, adapters)
      BY <1>2
    <2> QED BY <2>2, <2>3, <2>4, <2>5 DEF RebasedState, Rebased
  <1>9. g = [n \in 0..N |-> IF n = 0 THEN start
                            ELSE Serial!Effect(g[n - 1], body, n, replies)]
    <2>1. \A n \in 0..N : n = 0 \/ n \in 1..N
      BY <1>2
    <2>2. \A n \in 0..N : g[n] = IF n = 0 THEN start
                                 ELSE Serial!Effect(g[n - 1], body, n, replies)
      <3> HIDE DEF g
      <3> QED BY <1>6, <1>7, <2>1
    <2>3. g = [n \in 0..N |-> g[n]]
      OBVIOUS
    <2> HIDE DEF g
    <2> QED BY <2>2, <2>3
  <1> HIDE DEF g, start, end
  <1> QED BY <1>2, <1>3, <1>7, <1>8, <1>9 DEF start, end

\* A commit is a step of the serial dispatcher.
LEMMA CommitSerial ==
    ASSUME IInv, AllReplayed, NEW t \in Slots, Commit(t)
    PROVE  Serial!Next
  <1> DEFINE body == tx[t].body
             start == StateOf([registry |-> registry, adapters |-> adapters],
                              <<>>, <<>>, Cleared)
  <1>1. PICK replies \in Replies(body) : \E g :
                  /\ g = [n \in 0..Len(body) |->
                             IF n = 0 THEN start
                             ELSE Serial!Effect(g[n - 1], body, n, replies)]
                  /\ \A n \in DOMAIN body : Serial!Succeeds(g[n - 1], body, n, replies)
                  /\ g[Len(body)] = StateOf([registry |-> registry', adapters |-> adapters'],
                                            tx[t].events, tx[t].calls, tx[t].ret)
    BY CommitRun
  <1>2. PICK g :
                  /\ g = [n \in 0..Len(body) |->
                             IF n = 0 THEN start
                             ELSE Serial!Effect(g[n - 1], body, n, replies)]
                  /\ \A n \in DOMAIN body : Serial!Succeeds(g[n - 1], body, n, replies)
                  /\ g[Len(body)] = StateOf([registry |-> registry', adapters |-> adapters'],
                                            tx[t].events, tx[t].calls, tx[t].ret)
    BY <1>1
  <1>3. body \in Transactions /\ Len(body) \in Nat
    BY CommitStores, TransactionAssumption DEF Running
  <1> DEFINE first == Serial!Progress([registry |-> registry, adapters |-> adapters],
                                      <<>>, <<>>, Serial!Cleared)
             after == CHOOSE after :
                         after = [n \in 0..Len(body) |->
                                     IF n = 0 THEN first
                                     ELSE Serial!Effect(after[n - 1], body, n, replies)]
  <1>4. first = start
    BY SameWords DEF Serial!Progress, StateOf
  <1>5. after = g
    <2> HIDE DEF first, start, body
    <2>1. g = [n \in 0..Len(body) |->
                  IF n = 0 THEN first ELSE Serial!Effect(g[n - 1], body, n, replies)]
      BY <1>2, <1>4
    <2> QED BY <1>3, <2>1, OneRun
  <1>6. /\ \A n \in DOMAIN body : Serial!Succeeds(after[n - 1], body, n, replies)
        /\ registry' = after[Len(body)].view.registry
        /\ adapters' = after[Len(body)].view.adapters
        /\ published' = [events |-> after[Len(body)].events,
                         calls |-> after[Len(body)].calls, ret |-> after[Len(body)].ret]
    <2>1. published' = [events |-> tx[t].events, calls |-> tx[t].calls, ret |-> tx[t].ret]
      BY DEF Commit
    <2>2. /\ g[Len(body)].view = [registry |-> registry', adapters |-> adapters']
          /\ g[Len(body)].events = tx[t].events
          /\ g[Len(body)].calls = tx[t].calls
          /\ g[Len(body)].ret = tx[t].ret
      BY <1>2 DEF StateOf
    <2>3. \A n \in DOMAIN body : Serial!Succeeds(g[n - 1], body, n, replies)
      BY <1>2
    <2> HIDE DEF after
    <2> QED BY <1>5, <2>1, <2>2, <2>3
  <1>7. replies \in [Serial!RoutedIn(body) -> Serial!Reply]
    BY <1>1 DEF Replies
  <1>8. Serial!Transact(body)
    BY <1>6, <1>7, Zenon DEF Serial!Transact
  <1> QED BY <1>3, <1>8 DEF Serial!Next

\* Only a commit shows in what clients see.
LEMMA OnlyCommitShows ==
    ASSUME [Next]_vars
    PROVE  \/ UNCHANGED <<registry, adapters, published>>
           \/ \E t \in Slots : Commit(t)
  <1>1. CASE UNCHANGED vars
    BY <1>1 DEF vars
  <1>2. ASSUME NEW t \in Slots,
               \/ \E body \in Transactions : Start(t, body)
               \/ AdapterInvokesProtocol(t)
               \/ AdapterSetsReturnData(t)
               \/ Advance(t)
        PROVE  UNCHANGED <<registry, adapters, published>> \/ Commit(t)
    BY <1>2 DEF Advance, Start, AdapterInvokesProtocol, AdapterSetsReturnData,
                ExecRegistryInit, ExecAdapterInit, ExecToggle, BeginRoute, AdapterSucceeds,
                FinishRoute, FinishCurrentValue, RejectCall, AdapterFails, RejectReturnData,
                Abort, Complete, Becomes
  <1> QED BY <1>1, <1>2 DEF Next

\* However transactions overlap under the locks they declare, however they are cut
\* short and whatever adapters reply, the committed accounts, events, calls and
\* return data are those of the successful transactions run one at a time, in the
\* order of their commits, and of nothing else.
THEOREM OverlapIsSerial == Spec => Serializable
  <1>1. Init => Serial!Init /\ AllReplayed
    BY SameWords DEF Init, Serial!Init, AllReplayed, InFlight, Serial!Pda, Pda
  <1>2. IInv /\ AllReplayed /\ [Next]_vars => AllReplayed'
    BY ReplayedStep
  <1>3. IInv /\ AllReplayed /\ [Next]_vars => [Serial!Next]_Serial!vars
    BY OnlyCommitShows, CommitSerial DEF Serial!vars
  <1>4. Spec => Serial!Init /\ [][Serial!Next]_Serial!vars
    BY <1>1, <1>2, <1>3, Invariance, PTL DEF Spec
  <1> QED BY <1>4 DEF Serializable, Serial!Spec
===========================================================================
