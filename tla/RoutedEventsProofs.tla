------------------------- MODULE RoutedEventsProofs -------------------------
(***************************************************************************)
(* Proofs about what the programs tell of a transaction: the adapters'     *)
(* events, the dispatcher's events and what the protocols were asked for   *)
(* stay side by side, through every interleaving and failure.              *)
(***************************************************************************)
EXTENDS RoutedOutcomesProofs

---------------------------------------------------------------------------
(***************************************************************************)
(* The amount in a handler's data and in its event.                        *)
(***************************************************************************)

\* A handler that fails, or whose event will name the amount in the data.
TellsAmount(out, call) ==
    \/ out.kind \in {"reject", "panic"}
    \/ /\ out.kind = "invoke" /\ out.amount = call.amount
       /\ NamesAmount(call.amount, out.fn, out.data, call.amount)

\* One that invokes a function without an amount and reports 0.
TellsNone(out) == out.kind = "invoke" /\ out.amount = 0 /\ out.fn \in NoAmount

\* What a deposit or withdrawal through a program may come to.
MoveTold(out, program, call) ==
    \/ out.kind \in {"reject", "panic"}
    \/ program = MOCK /\ out.kind = "accept" /\ out.amount = call.amount
    \/ /\ program # MOCK /\ out.kind = "invoke"
       /\ NamesAmount(out.amount, out.fn, out.data, call.amount)
       /\ \/ out.amount = call.amount
          \/ out.amount = 0 /\ program = DRIFT

\* The fields of instruction data with this amount in it.
U64Field(n) == [is |-> "u64", val |-> n]
Fields(n) == {[is |-> "byte", val |-> b] : b \in Byte} \cup {U64Field(n)}

LEMMA FieldTypes ==
    ASSUME NEW n
    PROVE  /\ Amount(n) = <<U64Field(n)>> /\ Amount(n)[1] = U64Field(n)
           /\ U64Field(n) \in Fields(n)
           /\ \A bytes \in Seq(Byte) : /\ Raw(bytes) \in Seq(Fields(n))
                                       /\ Len(Raw(bytes)) = Len(bytes)
  <1>1. Amount(n) = <<U64Field(n)>> /\ Amount(n)[1] = U64Field(n)
    BY DEF Amount, U64Field
  <1>2. ASSUME NEW bytes \in Seq(Byte)
        PROVE  Raw(bytes) \in Seq(Fields(n)) /\ Len(Raw(bytes)) = Len(bytes)
    <2>1. \A i \in DOMAIN bytes : bytes[i] \in Byte
      OBVIOUS
    <2>2. \A b \in Byte : [is |-> "byte", val |-> b] \in Fields(n)
      BY DEF Fields
    <2>3. \A i \in DOMAIN bytes : [is |-> "byte", val |-> bytes[i]] \in Fields(n)
      BY <2>1, <2>2
    <2> QED BY <2>3 DEF Raw
  <1> QED BY <1>1, <1>2 DEF Fields

\* A u64 in front of some bytes is found there.
LEMMA AmountInFront ==
    ASSUME NEW n, NEW bytes \in Seq(Byte)
    PROVE  (Amount(n) \o Raw(bytes))[1] = Amount(n)[1]
  <1>1. Raw(bytes) \in Seq(Fields(n)) /\ U64Field(n) \in Fields(n)
    BY FieldTypes
  <1>2. (<<U64Field(n)>> \o Raw(bytes))[1] = U64Field(n)
    BY <1>1
  <1> QED BY <1>2, FieldTypes

\* One element after two.
LEMMA ThirdOne ==
    ASSUME NEW S, NEW a \in Seq(S), Len(a) = 2, NEW u \in S
    PROVE  (a \o <<u>>)[3] = u
  <1> DEFINE one == <<u>>
  <1>1. one \in Seq(S) /\ Len(one) = 1 /\ one[1] = u
    OBVIOUS
  <1> HIDE DEF one
  <1>2. /\ a \o one \in Seq(S) /\ Len(a \o one) = Len(a) + Len(one)
        /\ \A i \in 1..(Len(a) + Len(one)) :
              (a \o one)[i] = IF i <= Len(a) THEN a[i] ELSE one[i - Len(a)]
    BY <1>1, ConcatProperties, Zenon
  <1>3. (a \o one)[3] = one[1]
    BY <1>1, <1>2
  <1> QED BY <1>1, <1>3 DEF one

\* A u64 behind two bytes is found third.
LEMMA AmountBehindTwo ==
    ASSUME NEW n, NEW bytes \in Seq(Byte), Len(bytes) = 2
    PROVE  (Raw(bytes) \o Amount(n))[3] = Amount(n)[1]
  <1>1. /\ Raw(bytes) \in Seq(Fields(n)) /\ Len(Raw(bytes)) = 2
        /\ U64Field(n) \in Fields(n)
    BY FieldTypes
  <1>2. (Raw(bytes) \o <<U64Field(n)>>)[3] = U64Field(n)
    BY <1>1, ThirdOne
  <1> QED BY <1>2, FieldTypes

\* The functions with the amount elsewhere than in front.
OtherFunctions == MarketFirst \cup NoAmount \cup {"add_insurance_fund_stake"}

\* A u64 behind any bytes is found last.
LEMMA AmountLast ==
    ASSUME NEW n, NEW bytes \in Seq(Byte)
    PROVE  (Raw(bytes) \o Amount(n))[Len(Raw(bytes) \o Amount(n))] = Amount(n)[1]
  <1>1. Raw(bytes) \in Seq(Fields(n)) /\ U64Field(n) \in Fields(n)
    BY FieldTypes
  <1>2. (Raw(bytes) \o <<U64Field(n)>>)[Len(Raw(bytes) \o <<U64Field(n)>>)] = U64Field(n)
    BY <1>1
  <1> QED BY <1>2, FieldTypes

\* What the functions with the amount first have in common.
LEMMA AmountFirstTold ==
    ASSUME NEW call, NEW fn, fn \notin OtherFunctions, NEW args \in Seq(Byte)
    PROVE  NamesAmount(call.amount, fn, Amount(call.amount) \o Raw(args), call.amount)
  BY AmountInFront DEF NamesAmount, AmountAt, OtherFunctions

\* extra_data without its selector.
LEMMA FromBytes ==
    ASSUME NEW extra \in Seq(Byte), extra # <<>>
    PROVE  /\ SubSeq(extra, 2, Len(extra)) \in Seq(Byte)
           /\ <<>> \in Seq(Byte)
  OBVIOUS

\* Kamino.
LEMMA KaminoTells ==
    ASSUME NEW call, call.extra \in Seq(Byte)
    PROVE  /\ TellsAmount(Kamino!Handle("deposit", call), call)
           /\ TellsAmount(Kamino!Handle("withdraw", call), call)
  <1>1. ASSUME NEW fn, fn \notin OtherFunctions, NEW args \in Seq(Byte)
        PROVE  TellsAmount(Kamino!AmountThen(fn, call, args), call)
    <2>1. Kamino!Amount(call.amount) = Amount(call.amount) /\ Kamino!Raw(args) = Raw(args)
      BY DEF Kamino!Amount, Amount, Kamino!Raw, Raw
    <2>2. Kamino!AmountThen(fn, call, args)
            = Kamino!Invoke(fn, Amount(call.amount) \o Raw(args), call.amount)
      BY <2>1, Zenon DEF Kamino!AmountThen
    <2>3. NamesAmount(call.amount, fn, Amount(call.amount) \o Raw(args), call.amount)
      BY <1>1, AmountFirstTold
    <2> QED BY <2>2, <2>3 DEF TellsAmount, Kamino!Invoke
  <1>2. TellsAmount(Kamino!Reject, call)
    BY DEF TellsAmount, Kamino!Reject
  <1>3. Kamino!HasSelector(call) =>
           Kamino!From(call.extra, 1) \in Seq(Byte) /\ <<>> \in Seq(Byte)
    BY FromBytes DEF Kamino!HasSelector, Kamino!From
  <1>4. TellsAmount(Kamino!Handle("deposit", call), call)
    BY <1>1, <1>2, <1>3
       DEF Kamino!Handle, Kamino!Deposit, Kamino!DepositFunction,
           OtherFunctions, MarketFirst, NoAmount
  <1>5. TellsAmount(Kamino!Handle("withdraw", call), call)
    BY <1>1, <1>2, <1>3
       DEF Kamino!Handle, Kamino!Withdraw, Kamino!WithdrawFunction,
           OtherFunctions, MarketFirst, NoAmount
  <1> QED BY <1>4, <1>5

\* MarginFi.
LEMMA MarginfiTells ==
    ASSUME NEW call, call.extra \in Seq(Byte)
    PROVE  /\ TellsAmount(Marginfi!Handle("deposit", call), call)
           /\ TellsAmount(Marginfi!Handle("withdraw", call), call)
  <1>1. ASSUME NEW fn, fn \notin OtherFunctions, NEW args \in Seq(Byte)
        PROVE  TellsAmount(Marginfi!AmountThen(fn, call, args), call)
    <2>1. /\ Marginfi!Amount(call.amount) = Amount(call.amount)
          /\ Marginfi!Raw(args) = Raw(args)
      BY DEF Marginfi!Amount, Amount, Marginfi!Raw, Raw
    <2>2. Marginfi!AmountThen(fn, call, args)
            = Marginfi!Invoke(fn, Amount(call.amount) \o Raw(args), call.amount)
      BY <2>1, Zenon DEF Marginfi!AmountThen
    <2>3. NamesAmount(call.amount, fn, Amount(call.amount) \o Raw(args), call.amount)
      BY <1>1, AmountFirstTold
    <2> QED BY <2>2, <2>3 DEF TellsAmount, Marginfi!Invoke
  <1>2. TellsAmount(Marginfi!Reject, call)
    BY DEF TellsAmount, Marginfi!Reject
  <1>3. Marginfi!HasSelector(call) => Marginfi!From(call.extra, 1) \in Seq(Byte)
    BY FromBytes DEF Marginfi!HasSelector, Marginfi!From
  <1>4. TellsAmount(Marginfi!Handle("deposit", call), call)
    BY <1>1, <1>2, <1>3
       DEF Marginfi!Handle, Marginfi!Deposit, Marginfi!DepositFunction,
           OtherFunctions, MarketFirst, NoAmount
  <1>5. TellsAmount(Marginfi!Handle("withdraw", call), call)
    BY <1>1, <1>2, <1>3
       DEF Marginfi!Handle, Marginfi!Withdraw, Marginfi!WithdrawFunction,
           OtherFunctions, MarketFirst, NoAmount
  <1> QED BY <1>4, <1>5

\* Jupiter.
LEMMA JupiterTells ==
    ASSUME NEW call, call.extra \in Seq(Byte)
    PROVE  /\ TellsAmount(Jupiter!Handle("deposit", call), call)
           /\ TellsAmount(Jupiter!Handle("withdraw", call), call)
  <1>1. ASSUME NEW fn, fn \notin OtherFunctions, NEW args \in Seq(Byte)
        PROVE  TellsAmount(Jupiter!AmountThen(fn, call, args), call)
    <2>1. Jupiter!Amount(call.amount) = Amount(call.amount) /\ Jupiter!Raw(args) = Raw(args)
      BY DEF Jupiter!Amount, Amount, Jupiter!Raw, Raw
    <2>2. Jupiter!AmountThen(fn, call, args)
            = Jupiter!Invoke(fn, Amount(call.amount) \o Raw(args), call.amount)
      BY <2>1, Zenon DEF Jupiter!AmountThen
    <2>3. NamesAmount(call.amount, fn, Amount(call.amount) \o Raw(args), call.amount)
      BY <1>1, AmountFirstTold
    <2> QED BY <2>2, <2>3 DEF TellsAmount, Jupiter!Invoke
  <1>2. TellsAmount(Jupiter!Reject, call)
    BY DEF TellsAmount, Jupiter!Reject
  <1>3. Jupiter!Valid(call) =>
           Jupiter!From(call.extra, 1) \in Seq(Byte) /\ <<>> \in Seq(Byte)
    BY FromBytes DEF Jupiter!Valid, Jupiter!HasSelector, Jupiter!From
  <1>4. TellsAmount(Jupiter!Handle("deposit", call), call)
    BY <1>1, <1>2, <1>3
       DEF Jupiter!Handle, Jupiter!Deposit, Jupiter!DepositFunction,
           OtherFunctions, MarketFirst, NoAmount
  <1>5. TellsAmount(Jupiter!Handle("withdraw", call), call)
    BY <1>1, <1>2, <1>3
       DEF Jupiter!Handle, Jupiter!Withdraw, Jupiter!WithdrawFunction,
           OtherFunctions, MarketFirst, NoAmount
  <1> QED BY <1>4, <1>5

\* Maple: the amount of the call is only told.
LEMMA MapleTells ==
    ASSUME NEW call
    PROVE  /\ TellsAmount(Maple!Handle("deposit", call), call)
           /\ TellsAmount(Maple!Handle("withdraw", call), call)
  <1>1. NamesAmount(call.amount, "ccip_send", Maple!Raw(Maple!From(call.extra, 1)),
                    call.amount)
    BY DEF NamesAmount, NoAmount
  <1>2. TellsAmount(Maple!Handle("deposit", call), call)
    BY <1>1 DEF TellsAmount, Maple!Handle, Maple!Deposit, Maple!CcipSend, Maple!Invoke,
                Maple!Reject
  <1>3. TellsAmount(Maple!Handle("withdraw", call), call)
    BY <1>1 DEF TellsAmount, Maple!Handle, Maple!Withdraw, Maple!CcipSend, Maple!Invoke,
                Maple!Reject
  <1> QED BY <1>2, <1>3

\* Drift: the amount behind the market index, or 0 and no amount.
LEMMA DriftTells ==
    ASSUME NEW call, call.extra \in Seq(Byte)
    PROVE  \A op \in {"deposit", "withdraw"} :
              \/ TellsAmount(Drift!Handle(op, call), call)
              \/ TellsNone(Drift!Handle(op, call))
  <1> DEFINE n == Amount(call.amount)
  <1>1. /\ Drift!Amount(call.amount) = n
        /\ \A bytes : Drift!Raw(bytes) = Raw(bytes)
        /\ Drift!MarketIndex(call.extra) = SubSeq(call.extra, 2, 3)
        /\ Drift!From(call.extra, 1) = SubSeq(call.extra, 2, Len(call.extra))
        /\ Drift!From(call.extra, 3) = SubSeq(call.extra, 4, Len(call.extra))
    BY DEF Drift!Amount, Amount, Drift!Raw, Raw, Drift!MarketIndex, Drift!From
  <1>2. Len(call.extra) >= 3 =>
           SubSeq(call.extra, 2, 3) \in Seq(Byte) /\ Len(SubSeq(call.extra, 2, 3)) = 2
    OBVIOUS
  <1>3. ASSUME NEW fn \in {"deposit", "withdraw"}
        PROVE  TellsAmount(Drift!Spot(fn, call), call)
    <2>1. CASE Len(call.extra) < 3
      BY <2>1 DEF TellsAmount, Drift!Spot, Drift!Panic
    <2>2. CASE ~(Len(call.extra) < 3)
      <3>1. Drift!Spot(fn, call) = Drift!Invoke(fn, SpotData(call), call.amount)
        BY <1>1, <2>2, Zenon DEF Drift!Spot, SpotData
      <3>2. SpotData(call)[3] = n[1]
        <4>1. /\ SubSeq(call.extra, 4, Len(call.extra)) \in Seq(Byte)
              /\ Len(call.extra) >= 3
          BY <2>2
        <4> DEFINE u == U64Field(call.amount)
                   Field == Fields(call.amount)
                   front == Raw(SubSeq(call.extra, 2, 3))
                   back == Raw(SubSeq(call.extra, 4, Len(call.extra)))
        <4>3. front \in Seq(Field) /\ Len(front) = 2 /\ back \in Seq(Field)
          BY <1>2, <4>1, FieldTypes
        <4>4. SpotData(call) = front \o <<u>> \o back /\ n[1] = u /\ u \in Field
          BY FieldTypes DEF SpotData
        <4> HIDE DEF front, back, u, Field, n
        <4>5. SpotData(call)[3] = u
          BY <4>3, <4>4, AroundOne
        <4> QED BY <4>4, <4>5
      <3>3. NamesAmount(call.amount, fn, SpotData(call), call.amount)
        BY <3>2 DEF NamesAmount, AmountAt, MarketFirst, NoAmount
      <3> QED BY <3>1, <3>3 DEF TellsAmount, Drift!Invoke
    <2> QED BY <2>1, <2>2
  <1>4. TellsAmount(Drift!AddStake(call), call)
    <2> DEFINE fn == "add_insurance_fund_stake"
               cut == SubSeq(call.extra, 2, Len(call.extra))
    <2>1. Drift!AddStake(call) = Drift!Invoke(fn, Raw(cut) \o n, call.amount)
      BY <1>1, Zenon DEF Drift!AddStake
    <2>2. cut \in Seq(Byte)
      OBVIOUS
    <2>3. NamesAmount(call.amount, fn, Raw(cut) \o n, call.amount)
      BY <2>2, AmountLast DEF NamesAmount, AmountAt, NoAmount
    <2> QED BY <2>1, <2>3 DEF TellsAmount, Drift!Invoke
  <1>5. TellsAmount(Drift!RequestRemoveStake(call), call)
    <2> DEFINE fn == "request_remove_insurance_fund_stake"
               index == SubSeq(call.extra, 2, 3)
    <2>1. CASE Len(call.extra) < 3
      BY <2>1 DEF TellsAmount, Drift!RequestRemoveStake, Drift!Panic
    <2>2. CASE ~(Len(call.extra) < 3)
      <3>1. Drift!RequestRemoveStake(call) = Drift!Invoke(fn, Raw(index) \o n, call.amount)
        BY <1>1, <2>2, Zenon DEF Drift!RequestRemoveStake
      <3>2. (Raw(index) \o n)[3] = n[1]
        <4>1. Len(call.extra) >= 3
          BY <2>2
        <4> QED BY <1>2, <4>1, AmountBehindTwo
      <3>3. NamesAmount(call.amount, fn, Raw(index) \o n, call.amount)
        BY <3>2 DEF NamesAmount, AmountAt, MarketFirst, NoAmount
      <3> QED BY <3>1, <3>3 DEF TellsAmount, Drift!Invoke
    <2> QED BY <2>1, <2>2
  <1>6. TellsNone(Drift!InitializeStake(call))
    BY DEF TellsNone, NoAmount, Drift!InitializeStake, Drift!Invoke
  <1>7. TellsAmount(Drift!RemoveStake(call), call) \/ TellsNone(Drift!RemoveStake(call))
    BY DEF TellsAmount, TellsNone, NoAmount, Drift!RemoveStake, Drift!Invoke, Drift!Panic
  <1>8. TellsAmount(Drift!Reject, call)
    BY DEF TellsAmount, Drift!Reject
  <1> HIDE DEF n
  <1>9. \/ TellsAmount(Drift!Handle("deposit", call), call)
        \/ TellsNone(Drift!Handle("deposit", call))
    BY <1>3, <1>4, <1>6, <1>8 DEF Drift!Handle, Drift!Deposit, Drift!DepositFunction
  <1>10. \/ TellsAmount(Drift!Handle("withdraw", call), call)
         \/ TellsNone(Drift!Handle("withdraw", call))
    BY <1>3, <1>5, <1>7, <1>8 DEF Drift!Handle, Drift!Withdraw, Drift!WithdrawFunction
  <1> QED BY <1>9, <1>10

\* Whatever program an entry names.
LEMMA HandledTells ==
    ASSUME NEW program \in Programs, NEW call, call.extra \in Seq(Byte),
           NEW op \in {"deposit", "withdraw"}
    PROVE  MoveTold(Handled(op, program, call), program, call)
  <1> DEFINE out == Handled(op, program, call)
  <1>1. CASE program = MOCK
    <2>1. out = Mock!Handle(op, call)
      BY <1>1, ProgramAssumption DEF Handled
    <2>2. Mock!Handle(op, call).kind = "accept" /\ Mock!Handle(op, call).amount = call.amount
      BY DEF Mock!Handle, Mock!Deposit, Mock!Withdraw, Mock!Accept
    <2> QED BY <1>1, <2>1, <2>2 DEF MoveTold
  <1>2. CASE program # MOCK
    <2>1. \/ out = Kamino!Handle(op, call) \/ out = Marginfi!Handle(op, call)
          \/ out = Jupiter!Handle(op, call) \/ out = Maple!Handle(op, call)
          \/ (out = Drift!Handle(op, call) /\ program = DRIFT)
      BY <1>2, ProgramAssumption DEF Handled
    <2>2. TellsAmount(out, call) \/ (TellsNone(out) /\ program = DRIFT)
      BY <2>1, KaminoTells, MarginfiTells, JupiterTells, MapleTells, DriftTells
    <2> QED BY <1>2, <2>2 DEF TellsAmount, TellsNone, MoveTold, NamesAmount, NoAmount
  <1> QED BY <1>1, <1>2

---------------------------------------------------------------------------
(***************************************************************************)
(* Events, calls and effects, side by side.                                *)
(***************************************************************************)
IsSeq(s) == \E S : s \in Seq(S)

\* A sequence with one more element.
LEMMA Longer ==
    ASSUME NEW s, IsSeq(s), NEW x
    PROVE  /\ IsSeq(Append(s, x))
           /\ DOMAIN Append(s, x) = DOMAIN s \cup {Len(s) + 1}
           /\ Append(s, x)[Len(s) + 1] = x
           /\ \A i \in DOMAIN s : /\ Append(s, x)[i] = s[i]
                                  /\ i \in Nat /\ i < Len(s) + 1
           /\ Len(s) + 1 \in Nat
  <1>1. PICK S : s \in Seq(S)
    BY DEF IsSeq
  <1>2. s \in Seq(S \cup {x}) /\ x \in S \cup {x}
    BY <1>1
  <1> QED BY <1>2, OneMore DEF IsSeq

\* The pairs the two correspondences are made of.
SameCalls(told, outer) ==
    {p \in (DOMAIN told) \X (DOMAIN outer) : SameCall(told[p[1]], outer[p[2]])}
Carried(told, effects) ==
    {p \in (DOMAIN told) \X (DOMAIN effects) : Reports(told[p[1]], effects[p[2]])}

\* An adapter's event of a query is no deposit or withdrawal.
LEMMA QueryTellsNothing ==
    ASSUME NEW told, IsSeq(told), NEW event, event.event = "current_value",
           NEW outer, NEW effects
    PROVE  /\ CallsAgree(told, outer) => CallsAgree(Append(told, event), outer)
           /\ EffectsAgree(told, effects) => EffectsAgree(Append(told, event), effects)
  <1> DEFINE more == Append(told, event)
  <1>1. /\ DOMAIN more = DOMAIN told \cup {Len(told) + 1}
        /\ more[Len(told) + 1] = event
        /\ \A i \in DOMAIN told : more[i] = told[i]
    BY Longer
  <1> HIDE DEF more
  <1>2. Reported(more) = Reported(told)
    BY <1>1 DEF Reported
  <1>3. Invoking(more) = Invoking(told)
    BY <1>1, <1>2 DEF Invoking, Reported
  <1>4. SameCalls(told, outer) \subseteq SameCalls(more, outer)
    BY <1>1 DEF SameCalls
  <1>5. Carried(told, effects) \subseteq Carried(more, effects)
    BY <1>1 DEF Carried
  <1>6. CallsAgree(told, outer) => CallsAgree(more, outer)
    BY <1>2, <1>4, InStepByMore DEF CallsAgree, SameCalls
  <1>7. EffectsAgree(told, effects) => EffectsAgree(more, effects)
    BY <1>3, <1>5, InStepByMore DEF EffectsAgree, Carried
  <1> QED BY <1>6, <1>7 DEF more

\* Nor is an event of the mock adapter one of a protocol.
LEMMA MockTellsNoEffect ==
    ASSUME NEW told, IsSeq(told), NEW event, event.program_id = MOCK, NEW effects,
           EffectsAgree(told, effects)
    PROVE  EffectsAgree(Append(told, event), effects)
  <1> DEFINE more == Append(told, event)
  <1>1. /\ DOMAIN more = DOMAIN told \cup {Len(told) + 1}
        /\ more[Len(told) + 1] = event
        /\ \A i \in DOMAIN told : more[i] = told[i]
    BY Longer
  <1> HIDE DEF more
  <1>2. Invoking(more) = Invoking(told)
    BY <1>1 DEF Invoking, Reported
  <1>3. Carried(told, effects) \subseteq Carried(more, effects)
    BY <1>1 DEF Carried
  <1>4. EffectsAgree(more, effects)
    BY <1>2, <1>3, InStepByMore DEF EffectsAgree, Carried
  <1> QED BY <1>4 DEF more

\* The dispatcher's event of a toggle announces no call.
LEMMA ToggleIsNoCall ==
    ASSUME NEW told, NEW outer, IsSeq(outer), NEW event, event.event \notin RouteOps,
           CallsAgree(told, outer)
    PROVE  CallsAgree(told, Append(outer, event))
  <1> DEFINE more == Append(outer, event)
  <1>1. /\ DOMAIN more = DOMAIN outer \cup {Len(outer) + 1}
        /\ more[Len(outer) + 1] = event
        /\ \A i \in DOMAIN outer : more[i] = outer[i]
    BY Longer
  <1> HIDE DEF more
  <1>2. Announced(more) = Announced(outer)
    BY <1>1 DEF Announced
  <1>3. SameCalls(told, outer) \subseteq SameCalls(told, more)
    BY <1>1 DEF SameCalls
  <1>4. CallsAgree(told, more)
    BY <1>2, <1>3, InStepByMore DEF CallsAgree, SameCalls
  <1> QED BY <1>4 DEF more

\* The two programs' events of one call.
LEMMA BothTell ==
    ASSUME NEW told, IsSeq(told), NEW event, event.event # "current_value",
           NEW outer, IsSeq(outer), NEW echo, echo.event \in RouteOps,
           SameCall(event, echo), CallsAgree(told, outer)
    PROVE  CallsAgree(Append(told, event), Append(outer, echo))
  <1> DEFINE told2 == Append(told, event)
             outer2 == Append(outer, echo)
             i == Len(told) + 1
             n == Len(outer) + 1
  <1>1. /\ DOMAIN told2 = DOMAIN told \cup {i} /\ told2[i] = event /\ i \in Nat
        /\ \A j \in DOMAIN told : told2[j] = told[j] /\ j \in Nat /\ j < i
    BY Longer
  <1>2. /\ DOMAIN outer2 = DOMAIN outer \cup {n} /\ outer2[n] = echo /\ n \in Nat
        /\ \A m \in DOMAIN outer : outer2[m] = outer[m] /\ m \in Nat /\ m < n
    BY Longer
  <1> HIDE DEF told2, outer2, i, n
  <1>3. Reported(told2) = Reported(told) \cup {i} /\ Reported(told) \subseteq DOMAIN told
    BY <1>1 DEF Reported
  <1>4. Announced(outer2) = Announced(outer) \cup {n} /\ Announced(outer) \subseteq DOMAIN outer
    BY <1>2 DEF Announced
  <1>5. SameCalls(told, outer) \subseteq SameCalls(told2, outer2)
    BY <1>1, <1>2 DEF SameCalls
  <1>6. <<i, n>> \in SameCalls(told2, outer2)
    BY <1>1, <1>2 DEF SameCalls
  <1>7. InStep(Reported(told), Announced(outer), SameCalls(told, outer))
    BY DEF CallsAgree, SameCalls
  <1>8. /\ Reported(told) \subseteq Nat /\ \A j \in Reported(told) : j < i
        /\ Announced(outer) \subseteq Nat /\ \A m \in Announced(outer) : m < n
    BY <1>1, <1>2, <1>3, <1>4
  <1>9. InStep(Reported(told2), Announced(outer2), SameCalls(told2, outer2))
    BY <1>1, <1>2, <1>3, <1>4, <1>5, <1>6, <1>7, <1>8, InStepGrows
  <1> QED BY <1>9 DEF CallsAgree, SameCalls, told2, outer2

\* What a protocol has carried out and the event of the adapter that asked for it.
LEMMA EffectIsTold ==
    ASSUME NEW told, IsSeq(told), NEW event, event.event # "current_value",
           event.program_id # MOCK, NEW effects, IsSeq(effects), NEW effect,
           Reports(event, effect), EffectsAgree(told, effects)
    PROVE  EffectsAgree(Append(told, event), Append(effects, effect))
  <1> DEFINE told2 == Append(told, event)
             effects2 == Append(effects, effect)
             i == Len(told) + 1
             n == Len(effects) + 1
  <1>1. /\ DOMAIN told2 = DOMAIN told \cup {i} /\ told2[i] = event /\ i \in Nat
        /\ \A j \in DOMAIN told : told2[j] = told[j] /\ j \in Nat /\ j < i
    BY Longer
  <1>2. /\ DOMAIN effects2 = DOMAIN effects \cup {n} /\ effects2[n] = effect /\ n \in Nat
        /\ \A m \in DOMAIN effects : effects2[m] = effects[m] /\ m \in Nat /\ m < n
    BY Longer
  <1> HIDE DEF told2, effects2, i, n
  <1>3. Invoking(told2) = Invoking(told) \cup {i} /\ Invoking(told) \subseteq DOMAIN told
    BY <1>1 DEF Invoking, Reported
  <1>4. Carried(told, effects) \subseteq Carried(told2, effects2)
    BY <1>1, <1>2 DEF Carried
  <1>5. <<i, n>> \in Carried(told2, effects2)
    BY <1>1, <1>2 DEF Carried
  <1>6. InStep(Invoking(told), DOMAIN effects, Carried(told, effects))
    BY DEF EffectsAgree, Carried
  <1>7. /\ Invoking(told) \subseteq Nat /\ \A j \in Invoking(told) : j < i
        /\ DOMAIN effects \subseteq Nat /\ \A m \in DOMAIN effects : m < n
    BY <1>1, <1>2, <1>3
  <1>8. InStep(Invoking(told2), DOMAIN effects2, Carried(told2, effects2))
    BY <1>1, <1>2, <1>3, <1>4, <1>5, <1>6, <1>7, InStepGrows
  <1> QED BY <1>8 DEF EffectsAgree, Carried, told2, effects2

\* Nothing has been told of nothing.
LEMMA NothingAgrees ==
    /\ IsSeq(<<>>) /\ CallsAgree(<<>>, <<>>) /\ EffectsAgree(<<>>, <<>>)
  <1>1. Reported(<<>>) = {} /\ Invoking(<<>>) = {} /\ Announced(<<>>) = {}
    BY DEF Reported, Invoking, Announced
  <1>2. \A pairs : InStep({}, {}, pairs)
    <2>1. [x \in {} |-> x] \in [{} -> {}]
      OBVIOUS
    <2> QED BY <2>1, Zenon DEF InStep
  <1>3. <<>> \in Seq({}) /\ DOMAIN <<>> = {}
    OBVIOUS
  <1> QED BY <1>1, <1>2, <1>3 DEF IsSeq, CallsAgree, EffectsAgree

---------------------------------------------------------------------------
(***************************************************************************)
(* The invariant.                                                          *)
(***************************************************************************)

\* What slot t has recorded, and how far the adapter at work for it has come.
Records(t) ==
    /\ IsSeq(trace[t].events) /\ IsSeq(trace[t].effects)
    /\ ~InFlight(t) => trace[t] = Untouched
    /\ turn[t] # NoTurn => (tx[t].phase = "returned" <=> turn[t].stage = "returned")
    /\ AtStage(t, "done") => Outcome(t).kind \notin {"reject", "panic"}

\* Effects have their events; one whose adapter is yet to emit its event is the last.
EffectsTold(t) ==
    IF AtStage(t, "done") /\ Outcome(t).kind = "invoke"
    THEN \E older : /\ IsSeq(older) /\ trace[t].effects = Append(older, Effect(t))
                    /\ EffectsAgree(trace[t].events, older)
    ELSE EffectsAgree(trace[t].events, trace[t].effects)

\* Adapters' events have the dispatcher's; one to which the dispatcher is yet to add
\* its own is the last.
CallsEchoed(t) ==
    IF AtStage(t, "returned") /\ Ix(t).op # "current_value"
    THEN \E older, event :
            /\ IsSeq(older) /\ trace[t].events = Append(older, event)
            /\ event.event # "current_value"
            /\ SameCall(event, RouteEvent(tx[t].view, Ix(t)))
            /\ CallsAgree(older, tx[t].events)
    ELSE CallsAgree(trace[t].events, tx[t].events)

InOrder(t) ==
    /\ Records(t)
    /\ EffectsTold(t)
    /\ InFlight(t) => CallsEchoed(t)

TraceInv ==
    /\ trace = [t \in Slots |-> trace[t]]
    /\ EventsTellEffects
    /\ \A t \in Slots : InOrder(t)

\* What is said of a call in progress depends on the slot's own state.
LEMMA SameTurn ==
    ASSUME NEW t, tx'[t].body = tx[t].body, tx'[t].pc = tx[t].pc,
           tx'[t].view = tx[t].view, turn'[t].given = turn[t].given,
           turn'[t].extra = turn[t].extra
    PROVE  /\ Ix(t)' = Ix(t) /\ Target(t)' = Target(t) /\ CallOf(t)' = CallOf(t)
           /\ Outcome(t)' = Outcome(t) /\ Effect(t)' = Effect(t)
           /\ AdapterEvent(t)' = AdapterEvent(t)
  <1>1. Ix(t)' = Ix(t) /\ Target(t)' = Target(t) /\ CallOf(t)' = CallOf(t)
    BY DEF Ix, Target, CallOf
  <1>2. Outcome(t)' = Outcome(t)
    BY <1>1, Zenon DEF Outcome, ConstraintsHold
  <1>3. Effect(t)' = Effect(t)
    BY <1>1, <1>2, Zenon DEF Effect
  <1>4. AdapterEvent(t)' = AdapterEvent(t)
    BY <1>1, <1>2, Zenon DEF AdapterEvent
  <1> QED BY <1>1, <1>2, <1>3, <1>4

\* A slot to which nothing happens stays in order.
LEMMA SlotStays ==
    ASSUME NEW t, tx'[t] = tx[t], turn'[t] = turn[t], trace'[t] = trace[t], InOrder(t)
    PROVE  InOrder(t)'
  <1>1. /\ Ix(t)' = Ix(t) /\ Outcome(t)' = Outcome(t) /\ Effect(t)' = Effect(t)
        /\ RouteEvent(tx[t].view, Ix(t))' = RouteEvent(tx[t].view, Ix(t))
    BY SameTurn
  <1>2. Records(t)'
    BY <1>1 DEF InOrder, Records, InFlight, AtStage
  <1>3. EffectsTold(t)'
    BY <1>1 DEF InOrder, EffectsTold, AtStage
  <1>4. InFlight(t)' => CallsEchoed(t)'
    BY <1>1 DEF InOrder, CallsEchoed, InFlight, AtStage
  <1> QED BY <1>2, <1>3, <1>4 DEF InOrder

\* A step of one slot keeps the others in order.
LEMMA OneSlot ==
    ASSUME IInv, RInv, TraceInv, NEW t \in Slots, NEW r, NEW n, NEW record,
           tx' = [tx EXCEPT ![t] = r], turn' = [turn EXCEPT ![t] = n],
           trace' = [trace EXCEPT ![t] = record],
           EventsTellEffects', InOrder(t)'
    PROVE  TraceInv'
  <1>1. \A u \in Slots \ {t} : /\ tx'[u] = tx[u] /\ turn'[u] = turn[u]
                               /\ trace'[u] = trace[u]
    BY DEF IInv, TypeOK, RInv, TurnTypeOK, TraceInv
  <1>2. \A u \in Slots \ {t} : InOrder(u)'
    BY <1>1, SlotStays DEF TraceInv
  <1>3. trace' = [u \in Slots |-> trace'[u]]
    BY DEF TraceInv
  <1> QED BY <1>2, <1>3 DEF TraceInv

\* What a slot's own step leaves in it.
LEMMA SlotAfter ==
    ASSUME IInv, RInv, TraceInv, NEW t \in Slots, NEW r, NEW n, NEW record
    PROVE  /\ tx' = [tx EXCEPT ![t] = r] => tx'[t] = r
           /\ turn' = [turn EXCEPT ![t] = n] => turn'[t] = n
           /\ trace' = [trace EXCEPT ![t] = record] => trace'[t] = record
           /\ UNCHANGED trace => trace' = [trace EXCEPT ![t] = trace[t]]
           /\ UNCHANGED turn => turn' = [turn EXCEPT ![t] = turn[t]]
           /\ UNCHANGED tx => tx' = [tx EXCEPT ![t] = tx[t]]
  BY DEF IInv, TypeOK, RInv, TurnTypeOK, TraceInv

\* A slot at which no adapter is at work, or one has just been called.
LEMMA AtRest ==
    ASSUME NEW t, ~AtStage(t, "done")', ~AtStage(t, "returned")',
           IsSeq(trace'[t].events), IsSeq(trace'[t].effects),
           ~InFlight(t)' => trace'[t] = Untouched,
           turn'[t] # NoTurn => tx'[t].phase # "returned",
           EffectsAgree(trace'[t].events, trace'[t].effects),
           InFlight(t)' => CallsAgree(trace'[t].events, tx'[t].events)
    PROVE  InOrder(t)'
  <1>1. Records(t)'
    BY DEF Records, AtStage
  <1>2. EffectsTold(t)'
    BY DEF EffectsTold
  <1>3. InFlight(t)' => CallsEchoed(t)'
    BY DEF CallsEchoed
  <1> QED BY <1>1, <1>2, <1>3 DEF InOrder

\* What the invariant says of a slot at rest.
LEMMA RestTold ==
    ASSUME NEW t, InOrder(t), ~AtStage(t, "done"),
           ~AtStage(t, "returned") \/ Ix(t).op = "current_value"
    PROVE  /\ IsSeq(trace[t].events) /\ IsSeq(trace[t].effects)
           /\ EffectsAgree(trace[t].events, trace[t].effects)
           /\ InFlight(t) => CallsAgree(trace[t].events, tx[t].events)
  BY DEF InOrder, Records, EffectsTold, CallsEchoed

\* What an adapter's handler makes of a deposit or withdrawal in progress.
LEMMA TurnTold ==
    ASSUME IInv, RInv, NEW t \in Slots, turn[t] # NoTurn
    PROVE  /\ Ix(t).op # "current_value" =>
                  MoveTold(Outcome(t), Target(t), CallOf(t))
           /\ Ix(t).op = "current_value" =>
                  Outcome(t).kind \in {"reject", "panic", "report"}
           /\ Target(t) \in Programs
           /\ Named(Target(t)) = MOCK <=> Target(t) = MOCK
  <1>1. Ix(t).op \in {"deposit", "withdraw", "current_value"} /\ Target(t) \in Programs
    BY AtTurn DEF RouteOps
  <1>2. CallOf(t).extra \in Seq(Byte)
    BY CallType
  <1>3. MoveTold(Reject, Target(t), CallOf(t))
    BY DEF MoveTold, Reject
  <1>4. Ix(t).op # "current_value" => MoveTold(Outcome(t), Target(t), CallOf(t))
    BY <1>1, <1>2, <1>3, HandledTells DEF Outcome
  <1>5. Named(Target(t)) = MOCK <=> Target(t) = MOCK
    BY <1>1, ProgramAssumption DEF Named, PROGRAM_ID
  <1> QED BY <1>1, <1>4, <1>5, QueriesStay

\* The event of a deposit or withdrawal, before the dispatcher adds its own.
LEMMA MoveEvent ==
    ASSUME IInv, RInv, NEW t \in Slots, turn[t] # NoTurn, Ix(t).op # "current_value",
           Outcome(t).kind \notin {"reject", "panic"}
    PROVE  /\ AdapterEvent(t).event # "current_value"
           /\ SameCall(AdapterEvent(t), RouteEvent(tx[t].view, Ix(t)))
           /\ IF Outcome(t).kind = "invoke"
              THEN /\ AdapterEvent(t).program_id # MOCK
                   /\ Reports(AdapterEvent(t), Effect(t))
              ELSE AdapterEvent(t).program_id = MOCK
  <1> DEFINE out == Outcome(t)
             told == AdapterEvent(t)
             echo == RouteEvent(tx[t].view, Ix(t))
             effect == Effect(t)
             call == CallOf(t)
  <1>1. MoveTold(out, Target(t), call)
    BY TurnTold
  <1>2. out.kind \in {"invoke", "accept"}
    BY <1>1 DEF MoveTold
  <1>3. /\ told.event = Ix(t).op /\ told.authority = call.authority
        /\ told.program_id = Named(Target(t)) /\ told.amount = out.amount
    BY <1>2 DEF AdapterEvent
  <1>4. /\ echo.event = Ix(t).op /\ echo.authority = Ix(t).signer
        /\ echo.program_id = Target(t) /\ echo.amount = Ix(t).amount
    BY DEF RouteEvent, Target
  <1>5. call.authority = Ix(t).signer /\ call.amount = Ix(t).amount
        /\ call.extra = turn[t].extra
    BY CallType DEF CallOf
  <1>6. /\ effect.program_id = PROGRAM_ID(Target(t)) /\ effect.fn = out.fn
        /\ effect.data = out.data /\ effect.extra = turn[t].extra
        /\ effect.authority = call.authority /\ effect.amount = call.amount
    BY DEF Effect
  <1> HIDE DEF out, told, echo, effect, call
  <1>7. \/ out.amount = call.amount
        \/ out.amount = 0 /\ Target(t) = DRIFT /\ Target(t) # MOCK
    BY <1>1, <1>2 DEF MoveTold
  <1>8. SameCall(told, echo)
    BY <1>3, <1>4, <1>5, <1>7 DEF SameCall, Named
  <1>9. CASE out.kind = "invoke"
    <2>1. Target(t) # MOCK /\ NamesAmount(out.amount, out.fn, out.data, call.amount)
      BY <1>1, <1>9 DEF MoveTold
    <2>2. told.program_id = PROGRAM_ID(Target(t)) /\ told.program_id # MOCK
      BY <1>3, <2>1, TurnTold DEF Named
    <2>3. Reports(told, effect)
      BY <1>3, <1>5, <1>6, <2>1, <2>2 DEF Reports
    <2> QED BY <1>3, <1>8, <1>9, <2>2, <2>3 DEF out, told, echo, effect
  <1>10. CASE out.kind = "accept"
    <2>1. Target(t) = MOCK
      BY <1>1, <1>10 DEF MoveTold
    <2>2. told.program_id = MOCK
      BY <1>3, <2>1 DEF Named
    <2> QED BY <1>3, <1>8, <1>10, <2>2 DEF out, told, echo, effect
  <1> QED BY <1>2, <1>9, <1>10

---------------------------------------------------------------------------
(***************************************************************************)
(* The steps.                                                              *)
(***************************************************************************)

\* A transaction is admitted.
LEMMA StartInOrder ==
    ASSUME IInv, RInv, TraceInv, NEW t \in Slots, RStart(t)
    PROVE  TraceInv'
  <1>1. PICK body \in Transactions :
           /\ ~InFlight(t) /\ tx' = [tx EXCEPT ![t] = Admitted(body)]
           /\ UNCHANGED <<turn, trace, settled, published>>
    BY DEF RStart, Start, Becomes
  <1>2. tx'[t] = Admitted(body) /\ turn'[t] = turn[t] /\ trace'[t] = trace[t]
    BY <1>1, SlotAfter
  <1>3. turn[t] = NoTurn /\ trace[t] = Untouched
    BY <1>1, NoTurnInExec DEF TraceInv, InOrder, Records
  <1>4. Admitted(body).events = <<>>
    BY DEF Admitted
  <1>5. CallsAgree(trace'[t].events, tx'[t].events)
        /\ EffectsAgree(trace'[t].events, trace'[t].effects)
        /\ IsSeq(trace'[t].events) /\ IsSeq(trace'[t].effects)
    BY <1>2, <1>3, <1>4, NothingAgrees DEF Untouched
  <1>6. ~AtStage(t, "done")' /\ ~AtStage(t, "returned")'
    BY <1>2, <1>3 DEF AtStage
  <1>7. InOrder(t)'
    BY <1>2, <1>3, <1>5, <1>6, AtRest
  <1>8. EventsTellEffects'
    BY <1>1 DEF TraceInv, EventsTellEffects
  <1>9. turn' = [turn EXCEPT ![t] = turn[t]] /\ trace' = [trace EXCEPT ![t] = trace[t]]
    BY <1>1, SlotAfter
  <1> QED BY <1>1, <1>7, <1>8, <1>9, OneSlot

\* A handler's completion, where the adapters have told as much as it now has.
LEMMA CompletesInOrder ==
    ASSUME IInv, RInv, TraceInv, NEW t \in Slots, tx[t] \in Running,
           NEW view, NEW events, NEW ret, Complete(t, view, events, ret),
           LocalInstruction(t) \/ DispatcherReturns(t),
           turn' = [turn EXCEPT ![t] = NoTurn], UNCHANGED <<trace, settled>>,
           ~AtStage(t, "done"), CallsAgree(trace[t].events, events)
    PROVE  TraceInv'
  <1> DEFINE r == [tx[t] EXCEPT !.pc = tx[t].pc + 1, !.phase = "exec",
                                !.view = view, !.events = events, !.ret = ret]
  <1>1. /\ tx' = [tx EXCEPT ![t] = r] /\ UNCHANGED published
        /\ r.phase = "exec" /\ r.events = events
    BY DEF Complete, Becomes, Running
  <1> HIDE DEF r
  <1>2. tx'[t] = r /\ turn'[t] = NoTurn /\ trace'[t] = trace[t]
    BY <1>1, SlotAfter
  <1>3. /\ IsSeq(trace[t].events) /\ IsSeq(trace[t].effects)
        /\ EffectsAgree(trace[t].events, trace[t].effects)
    BY DEF TraceInv, InOrder, Records, EffectsTold
  <1>4. ~InFlight(t)' => trace'[t] = Untouched
    <2>1. PICK q : tx' = [tx EXCEPT ![t] = q] /\ q # Idle
      BY HandlerCompletes, CompleteKeepsBody
    <2>2. tx'[t] = q
      BY <2>1, SlotAfter
    <2> QED BY <2>1, <2>2 DEF InFlight
  <1>5. ~AtStage(t, "done")' /\ ~AtStage(t, "returned")'
    BY <1>2 DEF AtStage
  <1>6. InOrder(t)'
    BY <1>1, <1>2, <1>3, <1>4, <1>5, AtRest
  <1>7. EventsTellEffects'
    BY <1>1 DEF TraceInv, EventsTellEffects
  <1>8. trace' = [trace EXCEPT ![t] = trace[t]]
    BY SlotAfter
  <1> QED BY <1>1, <1>6, <1>7, <1>8, OneSlot

\* registry_init, adapter_init and toggle_adapter tell of no call.
LEMMA LocalInOrder ==
    ASSUME IInv, RInv, TraceInv, NEW t \in Slots, LocalInstruction(t)
    PROVE  TraceInv'
  <1>1. AtInstruction(t, "exec") /\ UNCHANGED <<turn, trace, settled>>
    BY DEF LocalInstruction, ExecRegistryInit, ExecAdapterInit, ExecToggle
  <1>2. /\ InFlight(t) /\ tx[t] \in Running /\ tx[t].events \in Seq(Event)
        /\ tx[t].phase = "exec"
    BY <1>1, AtIx DEF AtInstruction
  <1>3. turn[t] = NoTurn
    BY <1>2, NoTurnInExec
  <1>4. turn' = [turn EXCEPT ![t] = NoTurn]
    BY <1>1, <1>3, SlotAfter
  <1>5. ~AtStage(t, "done") /\ ~AtStage(t, "returned")
    BY <1>3 DEF AtStage
  <1>6. CallsAgree(trace[t].events, tx[t].events)
    BY <1>2, <1>5, RestTold DEF TraceInv
  <1>7. CASE ExecRegistryInit(t) \/ ExecAdapterInit(t)
    <2>1. \E view : Complete(t, view, tx[t].events, Cleared)
      BY <1>7 DEF ExecRegistryInit, ExecAdapterInit
    <2> QED BY <1>1, <1>2, <1>4, <1>5, <1>6, <2>1, CompletesInOrder
  <1>8. CASE ExecToggle(t)
    <2> DEFINE view == Toggle(tx[t].view, Ix(t))
               event == ToggleEvent(view, Ix(t))
    <2>1. Complete(t, view, Append(tx[t].events, event), Cleared)
      BY <1>8 DEF ExecToggle
    <2>2. event.event \notin RouteOps
      BY DEF ToggleEvent, RouteOps
    <2> HIDE DEF view, event
    <2>3. CallsAgree(trace[t].events, Append(tx[t].events, event))
      BY <1>2, <1>6, <2>2, ToggleIsNoCall DEF IsSeq
    <2> QED BY <1>1, <1>2, <1>4, <1>5, <2>1, <2>3, CompletesInOrder
  <1> QED BY <1>7, <1>8 DEF LocalInstruction

\* The dispatcher adds its event of the call.
LEMMA ReturnInOrder ==
    ASSUME IInv, RInv, TraceInv, NEW t \in Slots, DispatcherReturns(t)
    PROVE  TraceInv'
  <1>1. /\ AtInstruction(t, "returned") /\ UNCHANGED <<trace, settled>>
        /\ turn' = [turn EXCEPT ![t] = NoTurn]
    BY DEF DispatcherReturns, FinishRoute, FinishCurrentValue
  <1>2. /\ InFlight(t) /\ tx[t] \in Running /\ tx[t].events \in Seq(Event)
        /\ tx[t].phase = "returned"
    BY <1>1, AtIx DEF AtInstruction
  <1>3. turn[t] # NoTurn
    BY <1>2 DEF RInv, TurnTypeOK
  <1>4. InOrder(t)
    BY DEF TraceInv
  <1>5. AtStage(t, "returned") /\ ~AtStage(t, "done")
    BY <1>2, <1>3, <1>4 DEF InOrder, Records, AtStage
  <1>6. CASE FinishRoute(t)
    <2> DEFINE echo == RouteEvent(tx[t].view, Ix(t))
    <2>1. /\ Ix(t).op \in {"deposit", "withdraw"}
          /\ Complete(t, tx[t].view, Append(tx[t].events, echo), tx[t].ret)
      BY <1>6 DEF FinishRoute
    <2>2. PICK older, event :
             /\ IsSeq(older) /\ trace[t].events = Append(older, event)
             /\ event.event # "current_value" /\ SameCall(event, echo)
             /\ CallsAgree(older, tx[t].events)
      BY <1>2, <1>4, <1>5, <2>1 DEF InOrder, CallsEchoed
    <2>3. echo.event \in RouteOps
      BY <2>1 DEF RouteEvent, RouteOps
    <2> HIDE DEF echo
    <2>4. CallsAgree(trace[t].events, Append(tx[t].events, echo))
      BY <1>2, <2>2, <2>3, BothTell DEF IsSeq
    <2> QED BY <1>1, <1>2, <1>5, <2>1, <2>4, CompletesInOrder
  <1>7. CASE FinishCurrentValue(t)
    <2>1. /\ Ix(t).op = "current_value"
          /\ Complete(t, tx[t].view, tx[t].events, Republished(tx[t].ret))
      BY <1>7 DEF FinishCurrentValue
    <2>2. CallsAgree(trace[t].events, tx[t].events)
      BY <1>2, <1>4, <1>5, <2>1, RestTold
    <2> QED BY <1>1, <1>2, <1>5, <2>1, <2>2, CompletesInOrder
  <1> QED BY <1>6, <1>7 DEF DispatcherReturns

\* The slot is emptied, by a failure or by the commit, which publishes both.
LEMMA EmptiedInOrder ==
    ASSUME IInv, RInv, TraceInv, NEW t \in Slots,
           \/ AdapterRefuses(t) \/ ProtocolFails(t)
           \/ DispatcherRefuses(t) \/ CommitAll(t)
    PROVE  TraceInv'
  <1>1. /\ turn' = [turn EXCEPT ![t] = NoTurn] /\ trace' = [trace EXCEPT ![t] = Untouched]
        /\ tx' = [tx EXCEPT ![t] = Idle]
    BY DEF AdapterRefuses, ProtocolFails, DispatcherRefuses, CommitAll, Forget,
           AdapterFails, RejectCall, Abort, Becomes, Commit
  <1>2. tx'[t] = Idle /\ turn'[t] = NoTurn /\ trace'[t] = Untouched
    BY <1>1, SlotAfter
  <1>3. ~InFlight(t)' /\ ~AtStage(t, "done")' /\ ~AtStage(t, "returned")'
    BY <1>2 DEF InFlight, AtStage
  <1>4. /\ IsSeq(trace'[t].events) /\ IsSeq(trace'[t].effects)
        /\ EffectsAgree(trace'[t].events, trace'[t].effects)
    BY <1>2, NothingAgrees DEF Untouched
  <1>5. InOrder(t)'
    BY <1>2, <1>3, <1>4, AtRest
  <1>6. EventsTellEffects'
    <2>1. CASE AdapterRefuses(t) \/ ProtocolFails(t) \/ DispatcherRefuses(t)
      <3>1. UNCHANGED <<settled, published>>
        BY <2>1 DEF AdapterRefuses, ProtocolFails, DispatcherRefuses, AdapterFails,
                    RejectCall, Abort, Becomes
      <3> QED BY <3>1 DEF TraceInv, EventsTellEffects
    <2>2. CASE CommitAll(t)
      <3>1. /\ InFlight(t) /\ tx[t].phase = "exec" /\ settled' = trace[t]
            /\ published'.events = tx[t].events
        BY <2>2 DEF CommitAll, Commit
      <3>2. ~AtStage(t, "done") /\ ~AtStage(t, "returned")
        BY <3>1, NoTurnInExec DEF AtStage
      <3>3. /\ EffectsAgree(trace[t].events, trace[t].effects)
            /\ CallsAgree(trace[t].events, tx[t].events)
        BY <3>1, <3>2, RestTold DEF TraceInv
      <3> QED BY <3>1, <3>3 DEF EventsTellEffects
    <2> QED BY <2>1, <2>2
  <1> QED BY <1>1, <1>5, <1>6, OneSlot

\* The dispatcher calls an adapter.
LEMMA CallInOrder ==
    ASSUME IInv, RInv, TraceInv, NEW t \in Slots, CallAdapter(t)
    PROVE  TraceInv'
  <1> DEFINE r == [tx[t] EXCEPT !.phase = "cpi", !.ret = Cleared]
  <1>1. /\ AtInstruction(t, "exec") /\ tx' = [tx EXCEPT ![t] = r]
        /\ UNCHANGED <<trace, settled, published>>
    BY DEF CallAdapter, BeginRoute, Becomes
  <1>2. InFlight(t) /\ tx[t] \in Running /\ tx[t].phase = "exec"
    BY <1>1, AtIx DEF AtInstruction
  <1>3. r \in Running /\ r.phase = "cpi" /\ r.events = tx[t].events
    BY <1>2, ClearedType DEF Running
  <1> HIDE DEF r
  <1>4. PICK n : turn' = [turn EXCEPT ![t] = n] /\ n.stage = "called"
    <2>1. PICK p \in Payloads :
             turn' = [turn EXCEPT ![t] =
                         [stage |-> "called", extra |-> p.extra, listed |-> p.accounts,
                          given |-> Given[Ix(t).signer][p.accounts]]]
      BY DEF CallAdapter
    <2> DEFINE n == [stage |-> "called", extra |-> p.extra, listed |-> p.accounts,
                     given |-> Given[Ix(t).signer][p.accounts]]
    <2>2. turn' = [turn EXCEPT ![t] = n] /\ n.stage = "called"
      BY <2>1
    <2> HIDE DEF n
    <2> QED BY <2>2
  <1>5. tx'[t] = r /\ turn'[t] = n /\ trace'[t] = trace[t]
        /\ trace' = [trace EXCEPT ![t] = trace[t]]
    BY <1>1, <1>4, SlotAfter
  <1>6. InFlight(t)' /\ ~AtStage(t, "done")' /\ ~AtStage(t, "returned")'
    BY <1>3, <1>4, <1>5, SlotAssumption DEF InFlight, AtStage
  <1>7. ~AtStage(t, "done") /\ ~AtStage(t, "returned")
    BY <1>2, NoTurnInExec DEF AtStage
  <1>8. /\ IsSeq(trace[t].events) /\ IsSeq(trace[t].effects)
        /\ EffectsAgree(trace[t].events, trace[t].effects)
        /\ CallsAgree(trace[t].events, tx[t].events)
    BY <1>2, <1>7, RestTold DEF TraceInv
  <1>9. InOrder(t)'
    BY <1>3, <1>5, <1>6, <1>8, AtRest
  <1>10. EventsTellEffects'
    BY <1>1 DEF TraceInv, EventsTellEffects
  <1> QED BY <1>1, <1>4, <1>5, <1>9, <1>10, OneSlot

\* What the adapter's own work leaves of its turn.
LEMMA TurnKept ==
    ASSUME RInv, NEW t \in Slots, turn[t] # NoTurn,
           NEW stage \in {"called", "done", "returned"}, Reaches(t, stage)
    PROVE  /\ turn'[t] # NoTurn /\ turn'[t].stage = stage
           /\ turn'[t].given = turn[t].given /\ turn'[t].extra = turn[t].extra
           /\ \E n : turn' = [turn EXCEPT ![t] = n]
  <1>1. turn[t] \in Turn /\ DOMAIN turn = Slots
    BY DEF RInv, TurnTypeOK
  <1> DEFINE n == [turn[t] EXCEPT !.stage = stage]
  <1>2. n \in Turn /\ n.stage = stage /\ n.given = turn[t].given /\ n.extra = turn[t].extra
    BY <1>1 DEF Turn
  <1>3. turn' = [turn EXCEPT ![t] = n]
    BY DEF Reaches
  <1> HIDE DEF n
  <1>4. turn'[t] = n
    BY <1>1, <1>3
  <1> QED BY <1>2, <1>3, <1>4, PayloadAssumption

\* The adapter does its work, whatever becomes of the return data, and what a
\* protocol has carried out is the last effect.
LEMMA WorkInOrder ==
    ASSUME IInv, RInv, TraceInv, NEW t \in Slots,
           AtStage(t, "called"), Reaches(t, "done"),
           Outcome(t).kind \notin {"reject", "panic"},
           NEW r, tx' = [tx EXCEPT ![t] = r], r # Idle,
           r.body = tx[t].body, r.pc = tx[t].pc, r.view = tx[t].view,
           r.phase = tx[t].phase, r.events = tx[t].events,
           UNCHANGED <<settled, published>>, NEW record,
           trace' = [trace EXCEPT ![t] = record], record.events = trace[t].events,
           record.effects = IF Outcome(t).kind = "invoke"
                            THEN Append(trace[t].effects, Effect(t))
                            ELSE trace[t].effects
    PROVE  TraceInv'
  <1>1. turn[t] # NoTurn /\ turn[t].stage = "called"
    BY DEF AtStage
  <1>2. InFlight(t) /\ tx[t].phase # "returned" /\ InOrder(t)
    BY <1>1 DEF RInv, TurnTypeOK, TraceInv, InOrder, Records
  <1>3. ~AtStage(t, "done") /\ ~AtStage(t, "returned")
    BY <1>1 DEF AtStage
  <1>4. /\ IsSeq(trace[t].events) /\ IsSeq(trace[t].effects)
        /\ EffectsAgree(trace[t].events, trace[t].effects)
        /\ CallsAgree(trace[t].events, tx[t].events)
    BY <1>2, <1>3, RestTold
  <1>5. /\ turn'[t] # NoTurn /\ turn'[t].stage = "done"
        /\ turn'[t].given = turn[t].given /\ turn'[t].extra = turn[t].extra
        /\ \E n : turn' = [turn EXCEPT ![t] = n]
    BY <1>1, TurnKept
  <1>6. tx'[t] = r /\ trace'[t] = record
    BY SlotAfter
  <1>7. Outcome(t)' = Outcome(t) /\ Effect(t)' = Effect(t)
    BY <1>5, <1>6, SameTurn
  <1>8. InFlight(t)' /\ AtStage(t, "done")' /\ ~AtStage(t, "returned")'
    BY <1>5, <1>6 DEF InFlight, AtStage
  <1>9. IsSeq(record.effects)
    BY <1>4, Longer
  <1>10. Records(t)'
    BY <1>2, <1>4, <1>5, <1>6, <1>7, <1>8, <1>9 DEF Records
  <1>11. EffectsTold(t)'
    BY <1>4, <1>6, <1>7, <1>8 DEF EffectsTold
  <1>12. CallsEchoed(t)'
    BY <1>4, <1>6, <1>8 DEF CallsEchoed
  <1>13. InOrder(t)'
    BY <1>10, <1>11, <1>12 DEF InOrder
  <1>14. EventsTellEffects'
    BY DEF TraceInv, EventsTellEffects
  <1> QED BY <1>5, <1>13, <1>14, OneSlot

\* The three ways an adapter does its work.
LEMMA AdapterInOrder ==
    ASSUME IInv, RInv, TraceInv, NEW t \in Slots,
           ProtocolExecutes(t) \/ AdapterAccepts(t) \/ AdapterReports(t)
    PROVE  TraceInv'
  <1>1. /\ AtStage(t, "called") /\ Reaches(t, "done") /\ turn[t] # NoTurn
        /\ Outcome(t).kind \notin {"reject", "panic"}
    BY DEF ProtocolExecutes, AdapterAccepts, AdapterReports, AtStage
  <1>2. tx[t] \in Running /\ InFlight(t) /\ Target(t) \in Programs
    BY <1>1, AtTurn, SlotAssumption DEF InFlight
  <1>3. ASSUME NEW by \in Setters, NEW data \in ReturnData
        PROVE  LET r == [tx[t] EXCEPT !.ret = [by |-> by, data |-> data]]
               IN  /\ r # Idle
                   /\ r.body = tx[t].body /\ r.pc = tx[t].pc /\ r.view = tx[t].view
                   /\ r.phase = tx[t].phase /\ r.events = tx[t].events
    <2> DEFINE r == [tx[t] EXCEPT !.ret = [by |-> by, data |-> data]]
    <2>1. /\ r \in Running
          /\ r.body = tx[t].body /\ r.pc = tx[t].pc /\ r.view = tx[t].view
          /\ r.phase = tx[t].phase /\ r.events = tx[t].events
      BY <1>2 DEF Running, ReturnSlot
    <2> HIDE DEF r
    <2>2. r # Idle
      BY <2>1, SlotAssumption
    <2> QED BY <2>1, <2>2 DEF r
  <1>4. CASE ProtocolExecutes(t)
    <2> DEFINE record == [events |-> trace[t].events,
                          effects |-> Append(trace[t].effects, Effect(t))]
    <2>1. PICK data \in ReturnData :
             tx' = [tx EXCEPT ![t] = [tx[t] EXCEPT !.ret =
                                         [by |-> PROTOCOL, data |-> data]]]
      BY <1>4 DEF ProtocolExecutes, AdapterInvokesProtocol, Becomes
    <2>2. /\ UNCHANGED <<settled, published>> /\ Outcome(t).kind = "invoke"
          /\ trace' = [trace EXCEPT ![t] = record]
          /\ record.events = trace[t].events
          /\ record.effects = Append(trace[t].effects, Effect(t))
      BY <1>4 DEF ProtocolExecutes, AdapterInvokesProtocol, Becomes, Recorded
    <2> HIDE DEF record
    <2>3. PROTOCOL \in Setters
      BY DEF Setters
    <2> DEFINE r == [tx[t] EXCEPT !.ret = [by |-> PROTOCOL, data |-> data]]
    <2>4. /\ tx' = [tx EXCEPT ![t] = r] /\ r # Idle
          /\ r.body = tx[t].body /\ r.pc = tx[t].pc /\ r.view = tx[t].view
          /\ r.phase = tx[t].phase /\ r.events = tx[t].events
      BY <1>3, <2>1, <2>3
    <2> HIDE DEF r
    <2> QED BY <1>1, <2>2, <2>4, WorkInOrder
  <1>5. CASE AdapterAccepts(t)
    <2>1. /\ UNCHANGED <<tx, trace, settled, published>> /\ Outcome(t).kind = "accept"
      BY <1>5 DEF AdapterAccepts, vars
    <2>2. tx' = [tx EXCEPT ![t] = tx[t]] /\ trace' = [trace EXCEPT ![t] = trace[t]]
      BY <2>1, SlotAfter
    <2> QED BY <1>1, <1>2, <2>1, <2>2, WorkInOrder DEF InFlight
  <1>6. CASE AdapterReports(t)
    <2>1. PICK data \in Value \cup {TooShort} :
             tx' = [tx EXCEPT ![t] = [tx[t] EXCEPT !.ret =
                                         [by |-> Target(t), data |-> data]]]
      BY <1>6 DEF AdapterReports, AdapterSetsReturnData, Becomes
    <2>2. /\ UNCHANGED <<trace, settled, published>> /\ Outcome(t).kind = "report"
      BY <1>6 DEF AdapterReports, AdapterSetsReturnData, Becomes
    <2>3. Target(t) \in Setters /\ data \in ReturnData
      BY <1>2 DEF Setters, ReturnData
    <2> DEFINE r == [tx[t] EXCEPT !.ret = [by |-> Target(t), data |-> data]]
    <2>4. /\ tx' = [tx EXCEPT ![t] = r] /\ r # Idle
          /\ r.body = tx[t].body /\ r.pc = tx[t].pc /\ r.view = tx[t].view
          /\ r.phase = tx[t].phase /\ r.events = tx[t].events
      BY <1>3, <2>1, <2>3
    <2>5. trace' = [trace EXCEPT ![t] = trace[t]]
      BY <2>2, SlotAfter
    <2> HIDE DEF r
    <2> QED BY <1>1, <2>2, <2>4, <2>5, WorkInOrder
  <1> QED BY <1>4, <1>5, <1>6

\* The adapter emits its event and returns.
LEMMA EventInOrder ==
    ASSUME IInv, RInv, TraceInv, NEW t \in Slots, AdapterReturns(t)
    PROVE  TraceInv'
  <1> DEFINE calls == Append(tx[t].calls, AdapterCall(tx[t].view, Ix(t)))
             r == [tx[t] EXCEPT !.phase = "returned", !.calls = calls]
             event == AdapterEvent(t)
             told == trace[t].events
             effects == trace[t].effects
             more == Append(told, event)
             record == [events |-> more, effects |-> effects]
  <1>1. /\ AtInstruction(t, "cpi") /\ tx' = [tx EXCEPT ![t] = r]
        /\ AtStage(t, "done") /\ Reaches(t, "returned")
        /\ trace' = [trace EXCEPT ![t] = record]
        /\ UNCHANGED <<settled, published>>
    BY DEF AdapterReturns, AdapterSucceeds, Becomes, Recorded
  <1>2. record.events = more /\ record.effects = effects
    OBVIOUS
  <1> HIDE DEF record
  <1>3. tx[t] \in Running /\ InFlight(t) /\ turn[t] # NoTurn /\ turn[t].stage = "done"
    BY <1>1, AtIx DEF AtStage
  <1>4. calls \in Seq(Call)
    <2>1. tx[t].calls \in Seq(Call)
      BY <1>3 DEF Running
    <2> QED BY <1>1, <2>1, TargetType
  <1> HIDE DEF calls
  <1>5. /\ r \in Running /\ r.body = tx[t].body /\ r.pc = tx[t].pc
        /\ r.view = tx[t].view /\ r.phase = "returned" /\ r.events = tx[t].events
    BY <1>3, <1>4 DEF Running
  <1> HIDE DEF r
  <1>6. tx'[t] = r /\ trace'[t] = record
    BY <1>1, SlotAfter
  <1>7. /\ turn'[t] # NoTurn /\ turn'[t].stage = "returned"
        /\ turn'[t].given = turn[t].given /\ turn'[t].extra = turn[t].extra
        /\ \E n : turn' = [turn EXCEPT ![t] = n]
    BY <1>1, <1>3, TurnKept
  <1>8. Ix(t)' = Ix(t)
    BY <1>5, <1>6, <1>7, SameTurn
  <1>9. InFlight(t)' /\ AtStage(t, "returned")' /\ ~AtStage(t, "done")'
    BY <1>5, <1>6, <1>7, SlotAssumption DEF InFlight, AtStage
  <1>10. /\ InOrder(t) /\ IsSeq(told) /\ IsSeq(effects)
         /\ Outcome(t).kind \notin {"reject", "panic"}
         /\ ~AtStage(t, "returned")
    BY <1>1, <1>3 DEF TraceInv, InOrder, Records, AtStage
  <1>11. CallsAgree(told, tx[t].events)
    BY <1>3, <1>10 DEF InOrder, CallsEchoed
  <1>12. Ix(t).op = "current_value" => event.event = "current_value"
    BY DEF AdapterEvent
  <1>13. EffectsAgree(more, effects)
    <2>1. CASE Outcome(t).kind = "invoke"
      <3>1. PICK older : /\ IsSeq(older) /\ effects = Append(older, Effect(t))
                         /\ EffectsAgree(told, older)
        BY <1>1, <1>10, <2>1 DEF InOrder, EffectsTold
      <3>2. Ix(t).op # "current_value"
        BY <1>3, <2>1, TurnTold
      <3>3. /\ event.event # "current_value" /\ event.program_id # MOCK
            /\ Reports(event, Effect(t))
        BY <1>3, <1>10, <2>1, <3>2, MoveEvent
      <3> HIDE DEF event, told, effects
      <3> QED BY <1>10, <3>1, <3>3, EffectIsTold
    <2>2. CASE Outcome(t).kind # "invoke"
      <3>1. EffectsAgree(told, effects)
        BY <1>10, <2>2 DEF InOrder, EffectsTold
      <3>2. CASE Ix(t).op = "current_value"
        <4> HIDE DEF event, told, effects
        <4> QED BY <1>10, <1>12, <3>1, <3>2, QueryTellsNothing
      <3>3. CASE Ix(t).op # "current_value"
        <4>1. event.program_id = MOCK
          BY <1>3, <1>10, <2>2, <3>3, MoveEvent
        <4> HIDE DEF event, told, effects
        <4> QED BY <1>10, <3>1, <4>1, MockTellsNoEffect
      <3> QED BY <3>2, <3>3
    <2> QED BY <2>1, <2>2
  <1>14. IsSeq(more)
    BY <1>10, Longer
  <1>15. Records(t)'
    BY <1>2, <1>5, <1>6, <1>7, <1>9, <1>10, <1>14 DEF Records
  <1>16. EffectsTold(t)'
    BY <1>2, <1>6, <1>9, <1>13 DEF EffectsTold
  <1>17. CallsEchoed(t)'
    <2>1. CASE Ix(t).op = "current_value"
      <3>1. CallsAgree(more, tx[t].events)
        <4> HIDE DEF event, told
        <4> QED BY <1>10, <1>11, <1>12, <2>1, QueryTellsNothing
      <3> QED BY <1>2, <1>5, <1>6, <1>8, <2>1, <3>1 DEF CallsEchoed
    <2>2. CASE Ix(t).op # "current_value"
      <3>1. /\ event.event # "current_value"
            /\ SameCall(event, RouteEvent(tx[t].view, Ix(t)))
        BY <1>3, <1>10, <2>2, MoveEvent
      <3>2. RouteEvent(tx[t].view, Ix(t))' = RouteEvent(tx[t].view, Ix(t))
        BY <1>5, <1>6, <1>8 DEF RouteEvent
      <3> HIDE DEF event, told
      <3>3. \E older, last :
               /\ IsSeq(older) /\ trace'[t].events = Append(older, last)
               /\ last.event # "current_value"
               /\ SameCall(last, RouteEvent(tx[t].view, Ix(t))')
               /\ CallsAgree(older, tx'[t].events)
        BY <1>2, <1>5, <1>6, <1>10, <1>11, <3>1, <3>2
      <3> QED BY <1>8, <1>9, <2>2, <3>3 DEF CallsEchoed
    <2> QED BY <2>1, <2>2
  <1>18. InOrder(t)'
    BY <1>15, <1>16, <1>17 DEF InOrder
  <1>19. EventsTellEffects'
    BY <1>1 DEF TraceInv, EventsTellEffects
  <1> QED BY <1>1, <1>7, <1>18, <1>19, OneSlot

\* Every step leaves all slots in order.
LEMMA TraceInvStep ==
    ASSUME IInv, RInv, TraceInv, [RNext]_rvars
    PROVE  TraceInv'
  <1>1. CASE UNCHANGED rvars
    <2>1. UNCHANGED <<tx, turn, trace, settled, published>>
      BY <1>1 DEF rvars, vars
    <2>2. \A t \in Slots : InOrder(t)'
      BY <2>1, SlotStays DEF TraceInv
    <2>3. EventsTellEffects'
      BY <2>1 DEF TraceInv, EventsTellEffects
    <2> QED BY <2>1, <2>2, <2>3 DEF TraceInv
  <1>2. CASE RNext
    <2>1. PICK t \in Slots : RStart(t) \/ RAdvance(t)
      BY <1>2 DEF RNext
    <2> QED
      BY <2>1, StartInOrder, LocalInOrder, CallInOrder, EmptiedInOrder, AdapterInOrder,
         EventInOrder, ReturnInOrder DEF RAdvance
  <1> QED BY <1>1, <1>2

\* What dispatcher and adapters tell of a successful transaction is, in order, what
\* the protocols were asked for, however transactions, failures, queries and the
\* six adapters are mixed.  The amount told is the one the adapter has put into the
\* instruction data: for add_insurance_fund_stake the last field, whichever bytes the
\* fund takes for the amount when extra_data goes on behind the market index, and for
\* ccip_send the amount of the call, whatever the client's message holds.
THEOREM EventsAlwaysTellEffects == RSpec => []EventsTellEffects
  <1>1. RInit => TraceInv
    <2> SUFFICES ASSUME RInit PROVE TraceInv
      OBVIOUS
    <2>1. EventsTellEffects
      BY NothingAgrees DEF RInit, Init, Untouched, EventsTellEffects
    <2>2. ASSUME NEW t \in Slots PROVE InOrder(t)
      <3>1. /\ ~InFlight(t) /\ turn[t] = NoTurn /\ trace[t] = Untouched
        BY DEF RInit, Init, InFlight
      <3>2. ~AtStage(t, "done") /\ ~AtStage(t, "returned")
        BY <3>1 DEF AtStage
      <3> QED
        BY <3>1, <3>2, NothingAgrees DEF Untouched, InOrder, Records, EffectsTold
    <2>3. trace = [t \in Slots |-> trace[t]]
      BY DEF RInit
    <2> QED BY <2>1, <2>2, <2>3 DEF TraceInv
  <1>2. IInv /\ RInv /\ TraceInv /\ [RNext]_rvars => TraceInv'
    BY TraceInvStep
  <1>3. RSpec => []IInv
    BY RoutedIsDispatcher, Invariance, PTL
  <1>4. TraceInv => EventsTellEffects
    BY DEF TraceInv
  <1> QED BY <1>1, <1>2, <1>3, <1>4, TurnsInvariant, PTL DEF RSpec

=============================================================================
