------------------------- MODULE RoutedCallsProofs -------------------------
(***************************************************************************)
(* Proofs about dispatcher and adapters together.  The composition is a    *)
(* dispatcher, so what is proved of every dispatcher holds of it.          *)
(***************************************************************************)
EXTENDS RoutedCallsProperties, SerialDispatcherProofs

---------------------------------------------------------------------------
(***************************************************************************)
(* Account lists.                                                          *)
(***************************************************************************)

\* Building an entry and taking it apart.
LEMMA MetaFields ==
    ASSUME NEW k \in Addresses, NEW s \in BOOLEAN, NEW w \in BOOLEAN
    PROVE  LET m == [key |-> k, signer |-> s, writable |-> w]
           IN  m \in Meta /\ m.key = k /\ m.signer = s /\ m.writable = w
BY DEF Meta

\* An entry rebuilt from its own fields is itself.
LEMMA MetaCopied ==
    ASSUME NEW m \in Meta
    PROVE  [key |-> m.key, signer |-> m.signer, writable |-> m.writable] = m
BY SMT DEF Meta

\* Merging an account list keeps every entry and gives it what the list gives.
LEMMA MergeAt ==
    ASSUME NEW metas \in Seq(Meta), NEW i \in DOMAIN metas
    PROVE  /\ Merge(metas)[i] \in Meta
           /\ SameAccount(Merge(metas)[i], metas[i])
           /\ GrantedBy(Merge(metas)[i], metas)
<1> DEFINE same == {j \in DOMAIN metas : metas[j].key = metas[i].key}
           signs == \E j \in same : metas[j].signer
           writes == \E j \in same : metas[j].writable
           m == Merge(metas)[i]
<1>1. m = [key |-> metas[i].key,
           signer |-> signs, writable |-> writes]
    BY Zenon DEF Merge
<1>2. metas[i].key \in Addresses
    <2>1. metas[i] \in Meta
        OBVIOUS
    <2> QED BY <2>1, Zenon DEF Meta
<1>3. signs \in BOOLEAN /\ writes \in BOOLEAN
    OBVIOUS
<1> HIDE DEF m, signs, writes
<1>4. m \in Meta /\ m.key = metas[i].key /\ m.signer = signs /\ m.writable = writes
    BY <1>1, <1>2, <1>3, MetaFields, Zenon
<1>5. SameAccount(m, metas[i])
    BY <1>4, Zenon DEF SameAccount, signs, writes
<1>6. GrantedBy(m, metas)
    BY <1>4, Zenon DEF GrantedBy, signs, writes
<1> QED
    BY <1>4, <1>5, <1>6 DEF m

\* Merging keeps the list's length and type.
LEMMA MergeList ==
    ASSUME NEW metas \in Seq(Meta)
    PROVE  /\ Merge(metas) \in Seq(Meta)
           /\ Len(Merge(metas)) = Len(metas)
<1>1. \A i \in DOMAIN metas : Merge(metas)[i] \in Meta
    BY MergeAt
<1>2. DOMAIN Merge(metas) = DOMAIN metas /\ Merge(metas) = [i \in DOMAIN metas |-> Merge(metas)[i]]
    BY DEF Merge
<1> QED
    BY <1>1, <1>2

\* The AccountMetas built from incoming accounts are those accounts.
LEMMA ForwardedSame ==
    ASSUME NEW metas \in Seq(Meta)
    PROVE  Forwarded(metas) = metas
<1>1. \A m \in Meta : ForwardedMeta(m) = m
    BY MetaCopied DEF ForwardedMeta
<1>2. metas = [i \in DOMAIN metas |-> metas[i]]
    OBVIOUS
<1>3. \A i \in DOMAIN metas : metas[i] \in Meta
    OBVIOUS
<1>4. Forwarded(metas) = [i \in DOMAIN metas |-> metas[i]]
    BY <1>1, <1>3, Zenon DEF Forwarded
<1> QED
    BY <1>2, <1>4, Zenon

\* Nothing is lost over two hops ...
LEMMA SameTransitive ==
    ASSUME NEW a, NEW b, NEW c, SameAccount(a, b), SameAccount(b, c)
    PROVE  SameAccount(a, c)
BY Zenon DEF SameAccount

\* ... and nothing gained.
LEMMA GrantTransitive ==
    ASSUME NEW m, NEW list, NEW origin, GrantedBy(m, list),
           \A j \in DOMAIN list : GrantedBy(list[j], origin)
    PROVE  GrantedBy(m, origin)
BY Zenon DEF GrantedBy

\* A list with one more entry in front, merged and cut off again.
LEMMA PrefixedList ==
    ASSUME NEW first \in Meta, NEW listed \in Seq(Meta), NEW origin,
           GrantedBy(first, origin),
           \A i \in DOMAIN listed : GrantedBy(listed[i], origin)
    PROVE  LET seen == Tail(Merge(<<first>> \o listed))
           IN  /\ seen \in Seq(Meta)
               /\ Len(seen) = Len(listed)
               /\ \A i \in DOMAIN listed : /\ SameAccount(seen[i], listed[i])
                                           /\ GrantedBy(seen[i], origin)
<1> DEFINE metas == <<first>> \o listed
           all == Merge(metas)
<1>1. /\ metas \in Seq(Meta)
      /\ Len(metas) = Len(listed) + 1
      /\ metas[1] = first
      /\ \A i \in DOMAIN listed : i + 1 \in DOMAIN metas /\ metas[i + 1] = listed[i]
    OBVIOUS
<1>2. \A j \in DOMAIN metas : GrantedBy(metas[j], origin)
    <2> TAKE j \in DOMAIN metas
    <2>1. CASE j = 1
        BY <2>1, <1>1
    <2>2. CASE j # 1
        <3>1. j - 1 \in DOMAIN listed /\ metas[(j - 1) + 1] = listed[j - 1] /\ (j - 1) + 1 = j
            BY <2>2, <1>1
        <3> QED BY <3>1
    <2> QED BY <2>1, <2>2
<1> HIDE DEF metas
<1>3. all \in Seq(Meta) /\ Len(all) = Len(listed) + 1
    BY <1>1, MergeList
<1>4. \A i \in DOMAIN listed : SameAccount(all[i + 1], listed[i]) /\ GrantedBy(all[i + 1], origin)
    <2> TAKE i \in DOMAIN listed
    <2>1. SameAccount(all[i + 1], listed[i]) /\ GrantedBy(all[i + 1], metas)
        BY <1>1, MergeAt
    <2> QED BY <2>1, <1>2, GrantTransitive
<1> HIDE DEF all
<1>5. /\ Tail(all) \in Seq(Meta)
      /\ Len(Tail(all)) = Len(listed)
      /\ \A i \in DOMAIN listed : Tail(all)[i] = all[i + 1]
    BY <1>3
<1> QED BY <1>4, <1>5 DEF all, metas

\* From the client's list to the protocol's, over both programs.
LEMMA ListsArrive ==
    ASSUME NEW signer \in Keys, NEW listed \in Seq(Meta)
    PROVE  LET given == AdapterAccounts(signer, listed)
               seen == ProtocolAccounts(given)
           IN  /\ given \in Seq(Meta)
               /\ Len(seen) = Len(listed)
               /\ \A i \in DOMAIN listed :
                     /\ SameAccount(seen[i], listed[i])
                     /\ GrantedBy(seen[i], Granted(signer, listed))
<1> DEFINE own == [key |-> signer, signer |-> TRUE, writable |-> TRUE]
           origin == Granted(signer, listed)
           passed == Tail(DispatcherAccounts(signer, listed))
           given == AdapterAccounts(signer, listed)
           cut == Tail(given)
           seen == ProtocolAccounts(given)
<1>1. /\ own \in Meta /\ InjectedSigner(signer) \in Meta
      /\ InjectedSigner(signer).key = signer /\ ~InjectedSigner(signer).writable
    BY DataAssumption, MetaFields DEF InjectedSigner
<1>2. /\ origin = <<own>> \o listed
      /\ origin[1] = own /\ 1 \in DOMAIN origin
      /\ \A i \in DOMAIN listed : i + 1 \in DOMAIN origin /\ origin[i + 1] = listed[i]
    BY <1>1 DEF Granted
<1>3. /\ GrantedBy(own, origin)
      /\ GrantedBy(InjectedSigner(signer), origin)
      /\ \A i \in DOMAIN listed : GrantedBy(listed[i], origin)
    <2> HIDE DEF origin
    <2>1. own.key = signer /\ own.signer /\ own.writable
        OBVIOUS
    <2> QED BY <1>1, <1>2, <2>1, Zenon DEF GrantedBy
<1>4. /\ passed \in Seq(Meta) /\ Len(passed) = Len(listed)
      /\ \A i \in DOMAIN listed : SameAccount(passed[i], listed[i]) /\ GrantedBy(passed[i], origin)
    <2> HIDE DEF origin
    <2> QED BY <1>1, <1>3, PrefixedList, Zenon DEF DispatcherAccounts
<1>5. given = Merge(<<InjectedSigner(signer)>> \o passed)
    BY <1>4, ForwardedSame DEF AdapterAccounts
<1>6. given \in Seq(Meta)
    <2> HIDE DEF passed, given
    <2>1. <<InjectedSigner(signer)>> \o passed \in Seq(Meta)
        BY <1>1, <1>4
    <2> QED BY <1>5, <2>1, MergeList
<1>7. DOMAIN passed = DOMAIN listed
    <2> HIDE DEF passed
    <2> QED BY <1>4
<1>8. /\ cut \in Seq(Meta) /\ Len(cut) = Len(passed)
      /\ \A i \in DOMAIN passed : SameAccount(cut[i], passed[i]) /\ GrantedBy(cut[i], origin)
    <2> HIDE DEF origin, passed, given
    <2> QED BY <1>1, <1>3, <1>4, <1>5, <1>7, PrefixedList, Zenon
<1>9. DOMAIN cut = DOMAIN listed
    <2> HIDE DEF cut, passed
    <2> QED BY <1>4, <1>8
<1>10. seen = Merge(cut)
    <2> HIDE DEF given
    <2> QED BY <1>8, ForwardedSame DEF ProtocolAccounts
<1>11. Len(seen) = Len(listed)
    <2> HIDE DEF cut, seen, passed
    <2> QED BY <1>4, <1>8, <1>10, MergeList
<1>12. ASSUME NEW i \in DOMAIN listed
       PROVE  SameAccount(seen[i], listed[i]) /\ GrantedBy(seen[i], origin)
    <2> HIDE DEF cut, seen, passed, origin
    <2>1. SameAccount(seen[i], cut[i]) /\ GrantedBy(seen[i], cut)
        BY <1>8, <1>9, <1>10, MergeAt
    <2>2. SameAccount(seen[i], listed[i])
        BY <2>1, <1>4, <1>7, <1>8, SameTransitive
    <2>3. GrantedBy(seen[i], origin)
        BY <2>1, <1>7, <1>8, <1>9, GrantTransitive
    <2> QED BY <2>2, <2>3
<1> QED BY <1>6, <1>11, <1>12

---------------------------------------------------------------------------
(***************************************************************************)
(* The composition is a dispatcher.                                        *)
(***************************************************************************)

\* Every step of an adapter is one the dispatcher's specification allows any
\* adapter.
LEMMA StepIsDispatcherStep ==
    ASSUME RNext
    PROVE  [Next]_vars
<1>1. PICK t \in Slots : RStart(t) \/ RAdvance(t)
    BY DEF RNext
<1>2. CASE RStart(t)
    BY <1>2 DEF RStart, Next
<1>3. CASE RAdvance(t)
    <2>1. \/ LocalInstruction(t) \/ CallAdapter(t)
          \/ AdapterRefuses(t) \/ ProtocolExecutes(t) \/ ProtocolFails(t)
          \/ AdapterAccepts(t) \/ AdapterReports(t) \/ AdapterReturns(t)
          \/ DispatcherReturns(t) \/ DispatcherRefuses(t) \/ CommitAll(t)
        BY <1>3 DEF RAdvance
    <2>2. CASE ProtocolExecutes(t)
        BY <2>2 DEF ProtocolExecutes, Next
    <2>3. CASE AdapterReports(t)
        BY <2>3 DEF AdapterReports, Next
    <2>4. CASE AdapterAccepts(t)
        BY <2>4 DEF AdapterAccepts
    <2>5. Advance(t) \/ ProtocolExecutes(t) \/ AdapterReports(t) \/ AdapterAccepts(t)
        BY <2>1 DEF LocalInstruction, CallAdapter, AdapterRefuses, ProtocolFails,
                    AdapterReturns, DispatcherReturns, DispatcherRefuses, CommitAll,
                    Advance
    <2> QED
        BY <2>2, <2>3, <2>4, <2>5 DEF Next
<1> QED
    BY <1>1, <1>2, <1>3

\* The dispatcher with the adapters implements the dispatcher with any
\* adapters: the adapters' handlers stay within what the model of an unknown
\* adapter allows.
THEOREM RoutedIsDispatcher == RSpec => Spec
<1>1. RInit => Init
    BY DEF RInit
<1>2. ASSUME [RNext]_rvars
      PROVE  [Next]_vars
    BY <1>2, StepIsDispatcherStep DEF rvars
<1> QED
    BY <1>1, <1>2, PTL DEF RSpec, Spec

\* No call of a client reaches Kamino, MarginFi, Jupiter, Maple or Drift through
\* an entry that is not Active, or that anyone can pause under it.
THEOREM RoutedStayActive == RSpec => []RoutedWhileActive
    BY RoutedIsDispatcher, RoutesStayActive, PTL

\* Overlapping transactions through the six adapters leave what they would leave one
\* at a time, each as a whole or not at all.
THEOREM RoutedIsSerial == RSpec => Serializable
    BY RoutedIsDispatcher, OverlapIsSerial, PTL

---------------------------------------------------------------------------
(***************************************************************************)
(* The adapter's turn.  RInv says when an adapter is at work, and on what. *)
(***************************************************************************)
\* The call records have their types; an adapter is at work exactly while the
\* dispatcher waits for it or has not yet used its answer.
TurnTypeOK ==
    /\ turn \in [Slots -> Turn \cup {NoTurn}]
    /\ \A t \in Slots :
          turn[t] # NoTurn <=> InFlight(t) /\ tx[t].phase \in {"cpi", "returned"}

\* What an adapter is working on is what the dispatcher made of the client's list.
TurnsAreDelivered ==
    \A t \in Slots : turn[t] # NoTurn =>
        turn[t].given = AdapterAccounts(Ix(t).signer, turn[t].listed)

RInv == TurnTypeOK /\ TurnsAreDelivered

\* What slot t may be after a step: no adapter at work and none waited for, or
\* an adapter at work on the accounts of the instruction in progress.
SlotOK(r, n) ==
    \/ n = NoTurn /\ (r = Idle \/ r.phase = "exec")
    \/ /\ n \in Turn /\ r # Idle /\ r.phase \in {"cpi", "returned"}
       /\ n.given = AdapterAccounts(r.body[r.pc].signer, n.listed)

\* A step of one slot leaves the others as they are.
LEMMA SlotStep ==
    ASSUME TypeOK, RInv, NEW t \in Slots, NEW r, NEW n, SlotOK(r, n),
           tx' = [tx EXCEPT ![t] = r], turn' = [turn EXCEPT ![t] = n]
    PROVE  RInv'
<1>1. DOMAIN tx = Slots /\ DOMAIN turn = Slots
    BY DEF TypeOK, RInv, TurnTypeOK
<1>2. turn' \in [Slots -> Turn \cup {NoTurn}]
    BY DEF RInv, TurnTypeOK, SlotOK
<1>3. /\ tx'[t] = r /\ turn'[t] = n
      /\ \A u \in Slots \ {t} : tx'[u] = tx[u] /\ turn'[u] = turn[u]
    BY <1>1
<1>4. ASSUME NEW u \in Slots
      PROVE  turn'[u] # NoTurn <=> InFlight(u)' /\ tx'[u].phase \in {"cpi", "returned"}
    <2>1. CASE u = t
        BY <2>1, <1>3, PayloadAssumption DEF SlotOK, InFlight
    <2>2. CASE u # t
        BY <2>2, <1>3 DEF RInv, TurnTypeOK, InFlight
    <2> QED BY <2>1, <2>2
<1>5. ASSUME NEW u \in Slots, turn'[u] # NoTurn
      PROVE  turn'[u].given = AdapterAccounts(Ix(u)'.signer, turn'[u].listed)
    <2>1. CASE u = t
        BY <2>1, <1>3, <1>5 DEF SlotOK, Ix
    <2>2. CASE u # t
        BY <2>2, <1>3, <1>5 DEF RInv, TurnsAreDelivered, Ix
    <2> QED BY <2>1, <2>2
<1> QED
    BY <1>2, <1>4, <1>5 DEF RInv, TurnTypeOK, TurnsAreDelivered

\* Where no adapter is at work, none is after a step that leaves turn alone.
LEMMA QuietStep ==
    ASSUME TypeOK, RInv, NEW t \in Slots, turn[t] = NoTurn, UNCHANGED turn,
           NEW r, tx' = [tx EXCEPT ![t] = r], r = Idle \/ r.phase = "exec"
    PROVE  RInv'
<1>1. turn' = [turn EXCEPT ![t] = NoTurn]
    BY DEF RInv, TurnTypeOK
<1> QED BY <1>1, SlotStep DEF SlotOK

\* An adapter is at work only while its slot waits.
LEMMA NoTurnInExec ==
    ASSUME RInv, NEW t \in Slots, ~InFlight(t) \/ tx[t].phase = "exec"
    PROVE  turn[t] = NoTurn
BY DEF RInv, TurnTypeOK

\* The slot is emptied, or a handler of the dispatcher returns Ok.
LEMMA TurnEnds ==
    ASSUME TypeOK, RInv, NEW t \in Slots, NEW r, r = Idle \/ r.phase = "exec",
           tx' = [tx EXCEPT ![t] = r], turn' = [turn EXCEPT ![t] = NoTurn]
    PROVE  RInv'
BY SlotStep DEF SlotOK

\* A handler that completes is in "exec" again.
LEMMA CompletePhase ==
    ASSUME TypeOK, NEW t \in Slots, InFlight(t),
           NEW view, NEW events, NEW ret, Complete(t, view, events, ret)
    PROVE  \E r : tx' = [tx EXCEPT ![t] = r] /\ r.phase = "exec"
<1> DEFINE r == [tx[t] EXCEPT !.pc = tx[t].pc + 1, !.phase = "exec",
                              !.view = view, !.events = events, !.ret = ret]
<1>1. tx[t] \in Running
    BY DEF TypeOK, InFlight
<1>2. r.phase = "exec"
    BY <1>1 DEF Running
<1>3. tx' = [tx EXCEPT ![t] = r]
    BY DEF Complete, Becomes
<1> QED BY <1>2, <1>3

\* The adapter's turn goes on: the transaction stays at its instruction.
LEMMA TurnGoesOn ==
    ASSUME TypeOK, RInv, NEW t \in Slots, turn[t] # NoTurn,
           NEW stage \in {"called", "done", "returned"}, Reaches(t, stage),
           NEW r \in Running, tx' = [tx EXCEPT ![t] = r],
           r.body = tx[t].body, r.pc = tx[t].pc, r.phase \in {"cpi", "returned"}
    PROVE  RInv'
<1> DEFINE n == [turn[t] EXCEPT !.stage = stage]
<1>1. turn[t] \in Turn
    BY DEF RInv, TurnTypeOK
<1>2. n \in Turn /\ n.given = turn[t].given /\ n.listed = turn[t].listed
    BY <1>1 DEF Turn
<1>3. turn' = [turn EXCEPT ![t] = n]
    BY DEF Reaches
<1>4. r # Idle
    BY SlotAssumption
<1>5. SlotOK(r, n)
    <2> HIDE DEF n
    <2> QED BY <1>2, <1>4 DEF SlotOK, RInv, TurnsAreDelivered, Ix
<1> HIDE DEF n
<1> QED BY <1>3, <1>5, SlotStep

\* The dispatcher hands over the call.
LEMMA CallStep ==
    ASSUME TypeOK, RInv, NEW t \in Slots, CallAdapter(t)
    PROVE  RInv'
<1> DEFINE r == [tx[t] EXCEPT !.phase = "cpi", !.ret = Cleared]
<1>1. PICK p \in Payloads :
          turn' = [turn EXCEPT ![t] =
                      [stage |-> "called", extra |-> p.extra, listed |-> p.accounts,
                       given |-> Given[Ix(t).signer][p.accounts]]]
    BY DEF CallAdapter
<1> DEFINE n == [stage |-> "called", extra |-> p.extra, listed |-> p.accounts,
                 given |-> Given[Ix(t).signer][p.accounts]]
<1>2. AtInstruction(t, "exec") /\ tx' = [tx EXCEPT ![t] = r]
    BY DEF CallAdapter, BeginRoute, Becomes
<1>3. tx[t] \in Running /\ Ix(t) \in Instruction
    BY <1>2, IxType
<1>4. r \in Running /\ r.phase = "cpi" /\ r.body = tx[t].body /\ r.pc = tx[t].pc
    BY <1>3, ClearedType DEF Running
<1>5. Ix(t).signer \in Keys
    BY <1>3 DEF Instruction
<1>6. p.extra \in Seq(Byte) /\ p.accounts \in Seq(Meta)
    BY PayloadAssumption
<1>7. Given[Ix(t).signer][p.accounts] = AdapterAccounts(Ix(t).signer, p.accounts)
    BY <1>5, Zenon DEF Given
<1>8. AdapterAccounts(Ix(t).signer, p.accounts) \in Seq(Meta)
    BY <1>5, <1>6, ListsArrive
<1>9. /\ n \in Turn /\ n.listed = p.accounts
      /\ n.given = AdapterAccounts(Ix(t).signer, p.accounts)
    BY <1>6, <1>7, <1>8 DEF Turn
<1>10. r # Idle
    BY <1>4, SlotAssumption
<1>11. SlotOK(r, n)
    <2> HIDE DEF r, n
    <2> QED BY <1>4, <1>9, <1>10 DEF SlotOK, Ix
<1> HIDE DEF r, n
<1> QED BY <1>1, <1>2, <1>11, SlotStep DEF n

\* The protocol's execution leaves a view that is still a transaction in flight.
LEMMA ProtocolStep ==
    ASSUME TypeOK, RInv, NEW t \in Slots, ProtocolExecutes(t)
    PROVE  RInv'
<1>1. PICK data \in ReturnData :
          tx' = [tx EXCEPT ![t] = [tx[t] EXCEPT !.ret = [by |-> PROTOCOL, data |-> data]]]
    BY DEF ProtocolExecutes, AdapterInvokesProtocol, Becomes
<1> DEFINE r == [tx[t] EXCEPT !.ret = [by |-> PROTOCOL, data |-> data]]
<1>2. AtInstruction(t, "cpi") /\ turn[t] # NoTurn /\ Reaches(t, "done")
    BY DEF ProtocolExecutes, AdapterInvokesProtocol, AtStage
<1>3. tx[t] \in Running /\ tx[t].phase = "cpi"
    BY <1>2, IxType DEF AtInstruction
<1>4. r \in Running /\ r.phase = "cpi" /\ r.body = tx[t].body /\ r.pc = tx[t].pc
    BY <1>3 DEF Running, ReturnSlot, Setters
<1> HIDE DEF r
<1> QED BY <1>1, <1>2, <1>4, TurnGoesOn DEF r

\* The entry a call in progress goes through names a program.
LEMMA TargetType ==
    ASSUME IInv, NEW t \in Slots, AtInstruction(t, "cpi")
    PROVE  /\ Target(t) \in Programs
           /\ AdapterCall(tx[t].view, Ix(t)) \in Call
<1>1. Ix(t).op \in RouteOps /\ tx[t].view.adapters[Ix(t).adapter] # NoEntry
    BY AtIx DEF AtInstruction, Sound, RouteHolds, Ix
<1> QED BY <1>1, AtIx, RouteTypes DEF Target

\* The same for an adapter that reports a value.
LEMMA ReportStep ==
    ASSUME IInv, RInv, NEW t \in Slots, AdapterReports(t)
    PROVE  RInv'
<1>1. PICK data \in Value \cup {TooShort} :
          tx' = [tx EXCEPT ![t] = [tx[t] EXCEPT !.ret = [by |-> Target(t), data |-> data]]]
    BY DEF AdapterReports, AdapterSetsReturnData, Becomes
<1> DEFINE r == [tx[t] EXCEPT !.ret = [by |-> Target(t), data |-> data]]
<1>2. AtInstruction(t, "cpi") /\ turn[t] # NoTurn /\ Reaches(t, "done")
    BY DEF AdapterReports, AdapterSetsReturnData, AtStage
<1>3. tx[t] \in Running /\ tx[t].phase = "cpi"
    BY <1>2, AtIx DEF AtInstruction
<1>4. [by |-> Target(t), data |-> data] \in ReturnSlot(Setters)
    BY <1>2, TargetType DEF ReturnSlot, Setters, ReturnData
<1>5. r \in Running /\ r.phase = "cpi" /\ r.body = tx[t].body /\ r.pc = tx[t].pc
    BY <1>3, <1>4 DEF Running
<1> HIDE DEF r
<1> QED BY <1>1, <1>2, <1>5, TurnGoesOn DEF r, IInv

\* And for the mock adapter, which does nothing with the call.
LEMMA AcceptStep ==
    ASSUME IInv, RInv, NEW t \in Slots, AdapterAccepts(t)
    PROVE  RInv'
<1>1. turn[t] # NoTurn /\ Reaches(t, "done") /\ tx' = tx
    BY DEF AdapterAccepts, AtStage, vars
<1>2. InFlight(t) /\ tx[t].phase \in {"cpi", "returned"}
    BY <1>1 DEF RInv, TurnTypeOK
<1>3. tx[t] \in Running /\ tx' = [tx EXCEPT ![t] = tx[t]]
    BY <1>1, <1>2 DEF IInv, TypeOK, InFlight
<1> QED BY <1>1, <1>2, <1>3, TurnGoesOn DEF IInv

\* The adapter returns.
LEMMA ReturnStep ==
    ASSUME IInv, RInv, NEW t \in Slots, AdapterReturns(t)
    PROVE  RInv'
<1> DEFINE calls == Append(tx[t].calls, AdapterCall(tx[t].view, Ix(t)))
           r == [tx[t] EXCEPT !.phase = "returned", !.calls = calls]
<1>1. tx' = [tx EXCEPT ![t] = r]
    BY DEF AdapterReturns, AdapterSucceeds, Becomes
<1>2. AtInstruction(t, "cpi") /\ turn[t] # NoTurn /\ Reaches(t, "returned")
    BY DEF AdapterReturns, AdapterSucceeds, AtStage
<1>3. calls \in Seq(Call)
    <2>1. tx[t].calls \in Seq(Call)
        BY <1>2, AtIx DEF Running
    <2> QED BY <1>2, <2>1, TargetType
<1> HIDE DEF calls
<1>4. r \in Running /\ r.phase = "returned" /\ r.body = tx[t].body /\ r.pc = tx[t].pc
    BY <1>2, <1>3, AtIx DEF Running
<1> HIDE DEF r
<1> QED BY <1>1, <1>2, <1>4, TurnGoesOn DEF r, calls, IInv

\* The handler of the dispatcher has returned Ok.
LEMMA HandlerReturns ==
    ASSUME TypeOK, RInv, NEW t \in Slots,
           LocalInstruction(t) \/ DispatcherReturns(t)
    PROVE  RInv'
<1>1. InFlight(t)
    BY DEF LocalInstruction, DispatcherReturns, ExecRegistryInit, ExecAdapterInit,
           ExecToggle, FinishRoute, FinishCurrentValue, AtInstruction
<1>2. \E view, events, ret : Complete(t, view, events, ret)
    BY DEF LocalInstruction, DispatcherReturns, ExecRegistryInit, ExecAdapterInit,
           ExecToggle, FinishRoute, FinishCurrentValue
<1>3. PICK r : tx' = [tx EXCEPT ![t] = r] /\ r.phase = "exec"
    BY <1>1, <1>2, CompletePhase
<1>4. CASE LocalInstruction(t)
    <2>1. tx[t].phase = "exec" /\ UNCHANGED turn
        BY <1>4 DEF LocalInstruction, ExecRegistryInit, ExecAdapterInit, ExecToggle,
                    AtInstruction
    <2> QED BY <1>3, <2>1, NoTurnInExec, QuietStep
<1>5. CASE DispatcherReturns(t)
    BY <1>3, <1>5, TurnEnds DEF DispatcherReturns
<1> QED BY <1>4, <1>5

\* The transaction fails or is committed.
LEMMA SlotEmptied ==
    ASSUME TypeOK, RInv, NEW t \in Slots,
           \/ AdapterRefuses(t) \/ ProtocolFails(t)
           \/ DispatcherRefuses(t) \/ CommitAll(t)
    PROVE  RInv'
<1>1. tx' = [tx EXCEPT ![t] = Idle]
    BY DEF AdapterRefuses, ProtocolFails, DispatcherRefuses, CommitAll, AdapterFails,
           RejectCall, Abort, Becomes, Commit
<1>2. turn' = [turn EXCEPT ![t] = NoTurn]
    BY DEF AdapterRefuses, ProtocolFails, DispatcherRefuses, CommitAll, Forget
<1> QED BY <1>1, <1>2, TurnEnds

\* A transaction starts with no adapter at work.
LEMMA StartQuiet ==
    ASSUME TypeOK, RInv, NEW t \in Slots, RStart(t)
    PROVE  RInv'
<1>1. PICK body \in Transactions :
          ~InFlight(t) /\ tx' = [tx EXCEPT ![t] = Admitted(body)] /\ UNCHANGED turn
    BY DEF RStart, Start, Becomes
<1>2. Admitted(body).phase = "exec"
    BY DEF Admitted
<1> HIDE DEF Admitted
<1> QED BY <1>1, <1>2, NoTurnInExec, QuietStep

\* The invariant of the turns is inductive, action by action.
LEMMA TurnStep ==
    ASSUME IInv, RInv, [RNext]_rvars
    PROVE  RInv'
<1>1. TypeOK
    BY DEF IInv
<1>2. CASE RNext
    <2>1. PICK t \in Slots : RStart(t) \/ RAdvance(t)
        BY <1>2 DEF RNext
    <2> QED
        BY <1>1, <2>1, StartQuiet, HandlerReturns, CallStep, SlotEmptied, ProtocolStep,
           ReportStep, AcceptStep, ReturnStep DEF RAdvance
<1>3. CASE UNCHANGED rvars
    BY <1>3 DEF rvars, vars, RInv, TurnTypeOK, TurnsAreDelivered, InFlight, Ix
<1> QED BY <1>2, <1>3

\* In every reachable state turns are typed and hold what the dispatcher built.
THEOREM TurnsInvariant == RSpec => []RInv
<1>1. RInit => RInv
    BY DEF RInit, Init, RInv, TurnTypeOK, TurnsAreDelivered, InFlight
<1>2. IInv /\ RInv /\ [RNext]_rvars => RInv'
    BY TurnStep
<1>3. RSpec => []IInv
    BY RoutedIsDispatcher, Invariance, PTL
<1> QED
    BY <1>1, <1>2, <1>3, PTL DEF RSpec

\* Whatever accounts a client lists, and however often it repeats them, the
\* protocol gets that list with the privileges granted in it, no more, no less.
THEOREM ListedAccountsArrive == RSpec => []ProtocolSeesListedAccounts
<1>1. ASSUME IInv, RInv
      PROVE  ProtocolSeesListedAccounts
    <2> SUFFICES ASSUME NEW t \in Slots, turn[t] # NoTurn
                 PROVE  LET listed == turn[t].listed
                            seen == ProtocolAccounts(turn[t].given)
                        IN  /\ Len(seen) = Len(listed)
                            /\ \A i \in DOMAIN listed :
                                  /\ SameAccount(seen[i], listed[i])
                                  /\ GrantedBy(seen[i], Granted(Ix(t).signer, listed))
        BY DEF ProtocolSeesListedAccounts
    <2>1. turn[t].listed \in Seq(Meta)
        BY <1>1 DEF RInv, TurnTypeOK, Turn
    <2>2. turn[t].given = AdapterAccounts(Ix(t).signer, turn[t].listed)
        BY <1>1 DEF RInv, TurnsAreDelivered
    <2>3. Ix(t).signer \in Keys
        <3>1. InFlight(t) /\ tx[t].phase \in {"cpi", "returned"}
            BY <1>1 DEF RInv, TurnTypeOK
        <3>2. tx[t] \in Running /\ RouteHolds(tx[t])
            BY <1>1, <3>1 DEF IInv, TypeOK, InFlight, AllSound, Sound
        <3>3. Ix(t) \in Instruction
            <4>1. AtInstruction(t, tx[t].phase)
                BY <3>1, <3>2 DEF RouteHolds, AtInstruction
            <4> QED BY <1>1, <4>1, AtIx
        <3> QED BY <3>3 DEF Instruction
    <2> QED BY <2>1, <2>2, <2>3, ListsArrive
<1>2. RSpec => []IInv
    BY RoutedIsDispatcher, Invariance, PTL
<1> QED BY <1>1, <1>2, TurnsInvariant, PTL
===========================================================================
