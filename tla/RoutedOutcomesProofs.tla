------------------------ MODULE RoutedOutcomesProofs ------------------------
(***************************************************************************)
(* Proofs about what the six adapters make of their calls: a query ends    *)
(* with a u64 of the adapter's own or not at all, a CCIP message is sent   *)
(* in the signer's name, and Drift finds its fields in place.              *)
(***************************************************************************)
EXTENDS RoutedCallsProofs, SequenceTheorems

---------------------------------------------------------------------------
(***************************************************************************)
(* The handlers, one adapter at a time.                                    *)
(***************************************************************************)

\* A query reports the low u64 of the number at this place of the first account, or
\* fails.
ReadsField(out, call, place) ==
    \/ out.kind \in {"reject", "panic"}
    \/ /\ out.kind = "report" /\ out.value \in Value
       /\ call.accounts # <<>>
       /\ out.value = OnChain[call.accounts[1].key].at[place] % U64

\* The same for all adapters: each at the place its field has.  The mock adapter's u64
\* is a constant.
QueryOK(out, program, call) ==
    IF program = MOCK
    THEN out.kind = "report" /\ out.value \in Value /\ out.value = MOCK_CURRENT_VALUE
    ELSE \E field \in ValueFields :
            field.program = program /\ ReadsField(out, call, field.at)

\* What Drift's deposit and withdraw are given: market index, amount, the rest.
SpotData(call) ==
    Raw(SubSeq(call.extra, 2, 3)) \o Amount(call.amount)
        \o Raw(SubSeq(call.extra, 4, Len(call.extra)))

\* A deposit or withdrawal that sends a CCIP message has found the authority, who
\* signed, at its place; one that invokes Drift's spot functions has built their data.
MoveOK(out, call) ==
    out.kind = "invoke" =>
        /\ out.fn = "ccip_send" =>
              /\ 4 \in DOMAIN call.accounts
              /\ call.accounts[4].key = call.authority
              /\ call.accounts[4].signer
        /\ out.fn \in {"deposit", "withdraw"} =>
              /\ Len(call.extra) >= 3
              /\ out.data = SpotData(call)

\* A field of an account that a client can list fits a u64 after the cast.
LEMMA FieldInValue ==
    ASSUME NEW accounts \in Seq(Meta), accounts # <<>>, NEW place \in Offsets
    PROVE  OnChain[accounts[1].key].at[place] % U64 \in Value
  <1>1. accounts[1] \in Meta
    OBVIOUS
  <1>2. accounts[1].key \in Addresses
    BY <1>1 DEF Meta
  <1>3. OnChain[accounts[1].key] \in Data
    BY <1>2, DataAssumption
  <1>4. OnChain[accounts[1].key].at[place] \in Nat
    BY <1>3 DEF Data
  <1> QED BY <1>4, DataAssumption

\* Kamino: a Reserve of the right size is read; no function is another protocol's.
LEMMA KaminoOutcomes ==
    ASSUME NEW call, call.accounts \in Seq(Meta)
    PROVE  /\ ReadsField(Kamino!Handle("current_value", call), call, 224)
           /\ MoveOK(Kamino!Handle("deposit", call), call)
           /\ MoveOK(Kamino!Handle("withdraw", call), call)
  <1>1. ReadsField(Kamino!Handle("current_value", call), call, 224)
    <2>1. Kamino!AVAILABLE_LIQUIDITY = 224 /\ 224 \in Offsets
      BY DEF Kamino!AVAILABLE_LIQUIDITY, Offsets
    <2> QED BY <2>1, FieldInValue
           DEF ReadsField, Kamino!Handle, Kamino!CurrentValue, Kamino!Panic,
               Kamino!Report
  <1>2. MoveOK(Kamino!Handle("deposit", call), call)
    BY DEF MoveOK, Kamino!Handle, Kamino!Deposit, Kamino!DepositFunction,
           Kamino!AmountThen, Kamino!Invoke, Kamino!Reject
  <1>3. MoveOK(Kamino!Handle("withdraw", call), call)
    BY DEF MoveOK, Kamino!Handle, Kamino!Withdraw, Kamino!WithdrawFunction,
           Kamino!AmountThen, Kamino!Invoke, Kamino!Reject
  <1> QED BY <1>1, <1>2, <1>3

\* MarginFi: the low u64 of asset_shares.
LEMMA MarginfiOutcomes ==
    ASSUME NEW call, call.accounts \in Seq(Meta)
    PROVE  /\ ReadsField(Marginfi!Handle("current_value", call), call, 40)
           /\ MoveOK(Marginfi!Handle("deposit", call), call)
           /\ MoveOK(Marginfi!Handle("withdraw", call), call)
  <1>1. ReadsField(Marginfi!Handle("current_value", call), call, 40)
    <2>1. Marginfi!ASSET_SHARES = 40 /\ 40 \in Offsets
      BY DEF Marginfi!ASSET_SHARES, Offsets
    <2> QED BY <2>1, FieldInValue
           DEF ReadsField, Marginfi!Handle, Marginfi!CurrentValue, Marginfi!ReadField,
               Marginfi!Panic, Marginfi!Report, Marginfi!Reject
  <1>2. MoveOK(Marginfi!Handle("deposit", call), call)
    BY DEF MoveOK, Marginfi!Handle, Marginfi!Deposit, Marginfi!DepositFunction,
           Marginfi!AmountThen, Marginfi!Invoke, Marginfi!Reject
  <1>3. MoveOK(Marginfi!Handle("withdraw", call), call)
    BY DEF MoveOK, Marginfi!Handle, Marginfi!Withdraw, Marginfi!WithdrawFunction,
           Marginfi!AmountThen, Marginfi!Invoke, Marginfi!Reject
  <1> QED BY <1>1, <1>2, <1>3

\* Jupiter: the locked collateral.
LEMMA JupiterOutcomes ==
    ASSUME NEW call, call.accounts \in Seq(Meta)
    PROVE  /\ ReadsField(Jupiter!Handle("current_value", call), call, 152)
           /\ MoveOK(Jupiter!Handle("deposit", call), call)
           /\ MoveOK(Jupiter!Handle("withdraw", call), call)
  <1>1. ReadsField(Jupiter!Handle("current_value", call), call, 152)
    <2>1. Jupiter!LOCKED_COLLATERAL = 152 /\ 152 \in Offsets
      BY DEF Jupiter!LOCKED_COLLATERAL, Offsets
    <2> QED BY <2>1, FieldInValue
           DEF ReadsField, Jupiter!Handle, Jupiter!CurrentValue, Jupiter!ReadField,
               Jupiter!Panic, Jupiter!Report, Jupiter!Reject
  <1>2. MoveOK(Jupiter!Handle("deposit", call), call)
    BY DEF MoveOK, Jupiter!Handle, Jupiter!Deposit, Jupiter!DepositFunction,
           Jupiter!AmountThen, Jupiter!Invoke, Jupiter!Reject
  <1>3. MoveOK(Jupiter!Handle("withdraw", call), call)
    BY DEF MoveOK, Jupiter!Handle, Jupiter!Withdraw, Jupiter!WithdrawFunction,
           Jupiter!AmountThen, Jupiter!Invoke, Jupiter!Reject
  <1> QED BY <1>1, <1>2, <1>3

\* Maple: the balance of a token account; the sender is checked before ccip_send.
LEMMA MapleOutcomes ==
    ASSUME NEW call, call.accounts \in Seq(Meta)
    PROVE  /\ ReadsField(Maple!Handle("current_value", call), call, 64)
           /\ MoveOK(Maple!Handle("deposit", call), call)
           /\ MoveOK(Maple!Handle("withdraw", call), call)
  <1>1. ReadsField(Maple!Handle("current_value", call), call, 64)
    <2>1. Maple!TOKEN_AMOUNT = 64 /\ 64 \in Offsets
      BY DEF Maple!TOKEN_AMOUNT, Offsets
    <2> QED BY <2>1, FieldInValue
           DEF ReadsField, Maple!Handle, Maple!CurrentValue, Maple!Report,
               Maple!Reject
  <1>2. Maple!Valid(call) => /\ 4 \in DOMAIN call.accounts
                             /\ call.accounts[4].key = call.authority
                             /\ call.accounts[4].signer
    BY DEF Maple!Valid, Maple!BASE_ACCOUNTS
  <1>3. MoveOK(Maple!Handle("deposit", call), call)
    BY <1>2 DEF MoveOK, Maple!Handle, Maple!Deposit, Maple!CcipSend, Maple!Invoke,
                Maple!Reject
  <1>4. MoveOK(Maple!Handle("withdraw", call), call)
    BY <1>2 DEF MoveOK, Maple!Handle, Maple!Withdraw, Maple!CcipSend, Maple!Invoke,
                Maple!Reject
  <1> QED BY <1>1, <1>3, <1>4

\* Drift: the scaled balance; the bytes of extra_data go around the amount.
LEMMA DriftOutcomes ==
    ASSUME NEW call, call.accounts \in Seq(Meta), call.extra \in Seq(Byte)
    PROVE  /\ ReadsField(Drift!Handle("current_value", call), call, 104)
           /\ MoveOK(Drift!Handle("deposit", call), call)
           /\ MoveOK(Drift!Handle("withdraw", call), call)
  <1>1. ReadsField(Drift!Handle("current_value", call), call, 104)
    <2>1. Drift!SPOT_0_SCALED_BALANCE = 104 /\ 104 \in Offsets
      BY DEF Drift!SPOT_0_SCALED_BALANCE, Offsets
    <2> QED BY <2>1, FieldInValue
           DEF ReadsField, Drift!Handle, Drift!CurrentValue, Drift!ReadField,
               Drift!Panic, Drift!Report, Drift!Reject
  <1>2. ASSUME NEW fn PROVE MoveOK(Drift!Spot(fn, call), call) \/ fn = "ccip_send"
    <2>1. CASE Len(call.extra) < 3
      BY <2>1 DEF MoveOK, Drift!Spot, Drift!Panic
    <2>2. CASE ~(Len(call.extra) < 3)
      <3>1. /\ Drift!MarketIndex(call.extra) = SubSeq(call.extra, 2, 3)
            /\ Drift!From(call.extra, 3) = SubSeq(call.extra, 4, Len(call.extra))
            /\ Drift!Amount(call.amount) = Amount(call.amount)
            /\ \A bytes : Drift!Raw(bytes) = Raw(bytes)
        BY DEF Drift!MarketIndex, Drift!From, Drift!Amount, Drift!Raw, Amount, Raw
      <3>2. Drift!Spot(fn, call) = Drift!Invoke(fn, SpotData(call), call.amount)
        BY <2>2, <3>1, Zenon DEF Drift!Spot, SpotData
      <3>3. /\ Drift!Spot(fn, call).kind = "invoke" /\ Drift!Spot(fn, call).fn = fn
            /\ Drift!Spot(fn, call).data = SpotData(call)
        BY <3>2 DEF Drift!Invoke
      <3> QED BY <2>2, <3>3 DEF MoveOK
    <2> QED BY <2>1, <2>2
  <1>3. /\ MoveOK(Drift!AddStake(call), call) /\ MoveOK(Drift!InitializeStake(call), call)
        /\ MoveOK(Drift!RequestRemoveStake(call), call)
        /\ MoveOK(Drift!RemoveStake(call), call)
        /\ MoveOK(Drift!Reject, call)
    BY DEF MoveOK, Drift!AddStake, Drift!InitializeStake, Drift!RequestRemoveStake,
           Drift!RemoveStake, Drift!Invoke, Drift!Panic, Drift!Reject
  <1>4. MoveOK(Drift!Handle("deposit", call), call)
    BY <1>2, <1>3 DEF Drift!Handle, Drift!Deposit, Drift!DepositFunction
  <1>5. MoveOK(Drift!Handle("withdraw", call), call)
    BY <1>2, <1>3 DEF Drift!Handle, Drift!Withdraw, Drift!WithdrawFunction
  <1> QED BY <1>1, <1>4, <1>5

\* The mock adapter invokes nothing and reports its constant.
LEMMA MockOutcomes ==
    ASSUME NEW call
    PROVE  /\ QueryOK(Mock!Handle("current_value", call), MOCK, call)
           /\ MoveOK(Mock!Handle("deposit", call), call)
           /\ MoveOK(Mock!Handle("withdraw", call), call)
  BY ProgramAssumption DEF QueryOK, MoveOK, Mock!Handle, Mock!Deposit, Mock!Withdraw,
                           Mock!CurrentValue, Mock!Accept, Mock!Report

\* The layouts, one by one.
LEMMA ValuePlaces ==
    /\ \E field \in ValueFields : field.program = KAMINO /\ field.at = 224
    /\ \E field \in ValueFields : field.program = MARGINFI /\ field.at = 40
    /\ \E field \in ValueFields : field.program = JUPITER /\ field.at = 152
    /\ \E field \in ValueFields : field.program = MAPLE /\ field.at = 64
    /\ \E field \in ValueFields : field.program = DRIFT /\ field.at = 104
  BY DEF ValueFields

\* Whatever program an entry names, the call is handled by one of the six.
LEMMA HandledOutcomes ==
    ASSUME NEW program \in Programs, NEW call,
           call.accounts \in Seq(Meta), call.extra \in Seq(Byte)
    PROVE  /\ QueryOK(Handled("current_value", program, call), program, call)
           /\ \A op \in {"deposit", "withdraw"} : MoveOK(Handled(op, program, call), call)
  <1>1. \A op :
           IF program = MOCK THEN Handled(op, program, call) = Mock!Handle(op, call)
           ELSE \/ program = KAMINO /\ Handled(op, program, call) = Kamino!Handle(op, call)
                \/ program = MARGINFI /\ Handled(op, program, call) = Marginfi!Handle(op, call)
                \/ program = JUPITER /\ Handled(op, program, call) = Jupiter!Handle(op, call)
                \/ program = MAPLE /\ Handled(op, program, call) = Maple!Handle(op, call)
                \/ program = DRIFT /\ Handled(op, program, call) = Drift!Handle(op, call)
    BY ProgramAssumption DEF Handled
  <1>2. QueryOK(Handled("current_value", program, call), program, call)
    <2> DEFINE out == Handled("current_value", program, call)
    <2>1. CASE program = MOCK
      BY <1>1, <2>1, MockOutcomes
    <2>2. CASE program # MOCK
      <3>1. \/ program = KAMINO /\ ReadsField(out, call, 224)
            \/ program = MARGINFI /\ ReadsField(out, call, 40)
            \/ program = JUPITER /\ ReadsField(out, call, 152)
            \/ program = MAPLE /\ ReadsField(out, call, 64)
            \/ program = DRIFT /\ ReadsField(out, call, 104)
        BY <1>1, <2>2, KaminoOutcomes, MarginfiOutcomes, JupiterOutcomes, MapleOutcomes,
           DriftOutcomes
      <3> HIDE DEF out
      <3>2. \E field \in ValueFields :
               field.program = program /\ ReadsField(out, call, field.at)
        BY <3>1, ValuePlaces
      <3> QED BY <2>2, <3>2 DEF QueryOK, out
    <2> QED BY <2>1, <2>2
  <1>3. ASSUME NEW op \in {"deposit", "withdraw"}
        PROVE  MoveOK(Handled(op, program, call), call)
    BY <1>1, KaminoOutcomes, MarginfiOutcomes, JupiterOutcomes, MapleOutcomes,
       DriftOutcomes, MockOutcomes
  <1> QED BY <1>2, <1>3

---------------------------------------------------------------------------
(***************************************************************************)
(* A call in progress.                                                     *)
(***************************************************************************)

\* What the invariants say of a slot whose adapter is at work.
LEMMA AtTurn ==
    ASSUME IInv, RInv, NEW t \in Slots, turn[t] # NoTurn
    PROVE  /\ turn[t] \in Turn /\ tx[t] \in Running
           /\ tx[t].pc \in DOMAIN tx[t].body
           /\ Ix(t) \in Instruction /\ Ix(t).op \in RouteOps
           /\ Target(t) \in Programs
  <1>1. InFlight(t) /\ tx[t].phase \in {"cpi", "returned"} /\ turn[t] \in Turn
    BY DEF RInv, TurnTypeOK
  <1>2. tx[t] \in Running /\ RouteHolds(tx[t])
    BY <1>1 DEF IInv, TypeOK, InFlight, AllSound, Sound
  <1>3. Ix(t) \in Instruction
    <2>1. AtInstruction(t, tx[t].phase)
      BY <1>1, <1>2 DEF RouteHolds, AtInstruction
    <2> QED BY <2>1, AtIx
  <1>4. Ix(t).op \in RouteOps /\ tx[t].view.adapters[Ix(t).adapter] # NoEntry
        /\ tx[t].pc \in DOMAIN tx[t].body
    BY <1>1, <1>2 DEF RouteHolds, Ix
  <1>5. tx[t].view \in View
    BY <1>2 DEF Running
  <1> QED BY <1>1, <1>2, <1>3, <1>4, <1>5, RouteTypes DEF Target

\* The adapter's first account is the signer, whom it takes for the authority.
LEMMA AuthorityIsSigner ==
    ASSUME NEW signer \in Keys, NEW listed \in Seq(Meta)
    PROVE  LET given == AdapterAccounts(signer, listed)
           IN  given \in Seq(Meta) /\ Len(given) > 0 /\ given[1].key = signer
  <1> DEFINE rest == Forwarded(Tail(DispatcherAccounts(signer, listed)))
             own == [key |-> signer, signer |-> TRUE, writable |-> TRUE]
             metas == <<InjectedSigner(signer)>> \o rest
  <1>1. own \in Meta /\ InjectedSigner(signer) \in Meta /\ InjectedSigner(signer).key = signer
    BY DataAssumption, MetaFields DEF InjectedSigner
  <1>2. <<own>> \o listed \in Seq(Meta) /\ Len(<<own>> \o listed) = Len(listed) + 1
    BY <1>1
  <1>3. Merge(<<own>> \o listed) \in Seq(Meta) /\ Len(Merge(<<own>> \o listed)) = Len(listed) + 1
    BY <1>2, MergeList
  <1>4. Tail(DispatcherAccounts(signer, listed)) \in Seq(Meta)
    <2> HIDE DEF own
    <2>1. DispatcherAccounts(signer, listed) = Merge(<<own>> \o listed)
      BY DEF DispatcherAccounts, own
    <2>2. Merge(<<own>> \o listed) # <<>>
      BY <1>3
    <2> QED BY <1>3, <2>1, <2>2
  <1>5. rest \in Seq(Meta)
    BY <1>4, ForwardedSame
  <1> HIDE DEF rest
  <1>6. metas \in Seq(Meta) /\ 1 \in DOMAIN metas /\ metas[1] = InjectedSigner(signer)
    BY <1>1, <1>5
  <1>7. AdapterAccounts(signer, listed) = Merge(metas)
    BY DEF AdapterAccounts, rest
  <1> HIDE DEF metas
  <1> QED BY <1>1, <1>6, <1>7, MergeAt, MergeList DEF SameAccount

\* The call an adapter works on: the signer's, with the client's bytes.
LEMMA CallType ==
    ASSUME IInv, RInv, NEW t \in Slots, turn[t] # NoTurn
    PROVE  /\ CallOf(t).accounts \in Seq(Meta)
           /\ CallOf(t).accounts = Tail(turn[t].given)
           /\ CallOf(t).extra \in Seq(Byte)
           /\ CallOf(t).extra = turn[t].extra
           /\ CallOf(t).authority = Ix(t).signer
  <1>1. turn[t] \in Turn /\ Ix(t) \in Instruction
    BY AtTurn
  <1>2. /\ turn[t].extra \in Seq(Byte) /\ turn[t].listed \in Seq(Meta)
        /\ Ix(t).signer \in Keys
    BY <1>1 DEF Turn, Instruction
  <1>3. turn[t].given = AdapterAccounts(Ix(t).signer, turn[t].listed)
    BY DEF RInv, TurnsAreDelivered
  <1>4. turn[t].given \in Seq(Meta) /\ Len(turn[t].given) > 0
        /\ turn[t].given[1].key = Ix(t).signer
    BY <1>2, <1>3, AuthorityIsSigner
  <1>5. Tail(turn[t].given) \in Seq(Meta)
    BY <1>4
  <1> QED BY <1>2, <1>4, <1>5 DEF CallOf

\* What the adapter's handler makes of the call in progress.
LEMMA TurnOutcome ==
    ASSUME IInv, RInv, NEW t \in Slots, turn[t] # NoTurn
    PROVE  /\ Ix(t).op = "current_value" =>
                 \/ Outcome(t) = Reject
                 \/ QueryOK(Outcome(t), Target(t), CallOf(t))
           /\ Ix(t).op # "current_value" => MoveOK(Outcome(t), CallOf(t))
  <1>1. Ix(t).op \in {"deposit", "withdraw", "current_value"} /\ Target(t) \in Programs
    BY AtTurn DEF RouteOps
  <1>2. CallOf(t).accounts \in Seq(Meta) /\ CallOf(t).extra \in Seq(Byte)
    BY CallType
  <1>3. MoveOK(Reject, CallOf(t))
    BY DEF MoveOK, Reject
  <1> QED BY <1>1, <1>2, <1>3, HandledOutcomes DEF Outcome

\* A query never invokes a protocol.
LEMMA QueriesStay ==
    ASSUME IInv, RInv, NEW t \in Slots, turn[t] # NoTurn, Ix(t).op = "current_value"
    PROVE  Outcome(t).kind \in {"reject", "panic", "report"}
  BY TurnOutcome DEF QueryOK, ReadsField, Reject

\* The first account of the adapter is the first the client has listed.
LEMMA FirstAccount ==
    ASSUME IInv, RInv, NEW t \in Slots, turn[t] # NoTurn, CallOf(t).accounts # <<>>
    PROVE  /\ turn[t].listed # <<>>
           /\ CallOf(t).accounts[1].key = turn[t].listed[1].key
  <1> DEFINE cut == CallOf(t).accounts
             listed == turn[t].listed
             seen == ProtocolAccounts(turn[t].given)
  <1>1. cut \in Seq(Meta) /\ cut = Tail(turn[t].given)
    BY CallType
  <1>2. seen = Merge(cut)
    BY <1>1, ForwardedSame DEF ProtocolAccounts
  <1>3. listed \in Seq(Meta) /\ Ix(t).signer \in Keys
    BY AtTurn DEF Turn, Instruction
  <1>4. turn[t].given = AdapterAccounts(Ix(t).signer, listed)
    BY DEF RInv, TurnsAreDelivered
  <1>5. Len(seen) = Len(listed) /\ \A i \in DOMAIN listed : SameAccount(seen[i], listed[i])
    BY <1>3, <1>4, ListsArrive
  <1> HIDE DEF cut, listed, seen
  <1>6. 1 \in DOMAIN cut
    BY <1>1 DEF cut
  <1>7. SameAccount(seen[1], cut[1]) /\ Len(seen) = Len(cut)
    BY <1>1, <1>2, <1>6, MergeAt, MergeList
  <1>8. 1 \in DOMAIN listed
    <2>1. Len(cut) >= 1 /\ Len(cut) = Len(listed)
      BY <1>1, <1>5, <1>6, <1>7
    <2> QED BY <1>3, <2>1
  <1> QED BY <1>5, <1>7, <1>8 DEF SameAccount, cut, listed

---------------------------------------------------------------------------
(***************************************************************************)
(* Answers.                                                                *)
(***************************************************************************)

\* A u64 that answers a query through this program, with these accounts.
IsAnswer(value, program, listed) ==
    IF program = MOCK THEN value = MOCK_CURRENT_VALUE
    ELSE \E field \in ValueFields :
            /\ field.program = program
            /\ value = OnChain[listed[1].key].at[field.at] % U64

\* An adapter that is done with a query has left a u64 of its own, the right one,
\* and the dispatcher does not go on before the adapter is done.
AnswerLeft(t) ==
    turn[t] # NoTurn =>
        /\ turn[t].stage = "called" => tx[t].phase = "cpi"
        /\ turn[t].stage # "called" /\ Ix(t).op = "current_value" =>
              /\ tx[t].ret.by = Target(t) /\ tx[t].ret.data \in Value
              /\ IsAnswer(tx[t].ret.data, Target(t), turn[t].listed)

AnswersLeft == \A t \in Slots : AnswerLeft(t)

\* The other slots keep their answers.
LEMMA OthersKeepAnswers ==
    ASSUME IInv, RInv, AnswersLeft, NEW t \in Slots, NEW r, NEW n,
           tx' = [tx EXCEPT ![t] = r], turn' = [turn EXCEPT ![t] = n],
           AnswerLeft(t)'
    PROVE  AnswersLeft'
  <1>1. \A u \in Slots \ {t} : tx'[u] = tx[u] /\ turn'[u] = turn[u]
    BY DEF IInv, TypeOK, RInv, TurnTypeOK
  <1>2. ASSUME NEW u \in Slots \ {t} PROVE AnswerLeft(u)'
    <2>1. /\ tx'[u] = tx[u] /\ turn'[u] = turn[u]
          /\ Ix(u)' = Ix(u) /\ Target(u)' = Target(u)
      BY <1>1 DEF Ix, Target
    <2> QED BY <2>1 DEF AnswersLeft, AnswerLeft
  <1> QED BY <1>2 DEF AnswersLeft

\* A slot with no adapter at work owes no answer.
LEMMA NoTurnNoAnswer ==
    ASSUME IInv, RInv, AnswersLeft, NEW t \in Slots, NEW r,
           tx' = [tx EXCEPT ![t] = r], turn' = [turn EXCEPT ![t] = NoTurn]
    PROVE  AnswersLeft'
  <1>1. turn'[t] = NoTurn
    BY DEF RInv, TurnTypeOK
  <1> QED BY <1>1, OthersKeepAnswers DEF AnswerLeft

\* The adapter's turn goes on with the same accounts.
LEMMA TurnAfter ==
    ASSUME RInv, NEW t \in Slots, turn[t] # NoTurn, NEW stage, Reaches(t, stage)
    PROVE  turn'[t].stage = stage /\ turn'[t].listed = turn[t].listed
  <1>1. turn[t] \in Turn /\ DOMAIN turn = Slots
    BY DEF RInv, TurnTypeOK
  <1> QED BY <1>1 DEF Reaches, Turn

\* Every action leaves finished queries with their answers.
LEMMA AnswersLeftStep ==
    ASSUME IInv, RInv, AnswersLeft, [RNext]_rvars
    PROVE  AnswersLeft'
  <1>1. CASE UNCHANGED rvars
    <2>1. tx' = tx /\ turn' = turn
      BY <1>1 DEF rvars, vars
    <2>2. ASSUME NEW t \in Slots PROVE AnswerLeft(t)'
      <3>1. Ix(t)' = Ix(t) /\ Target(t)' = Target(t)
        BY <2>1 DEF Ix, Target
      <3> QED BY <2>1, <3>1 DEF AnswersLeft, AnswerLeft
    <2> QED BY <2>2 DEF AnswersLeft
  <1>2. ASSUME NEW t \in Slots, RStart(t) \/ LocalInstruction(t)
        PROVE  AnswersLeft'
    <2>1. UNCHANGED turn /\ turn[t] = NoTurn
      BY <1>2, NoTurnInExec
         DEF RStart, Start, LocalInstruction, ExecRegistryInit, ExecAdapterInit,
             ExecToggle, AtInstruction
    <2>2. \E r : tx' = [tx EXCEPT ![t] = r]
      BY <1>2 DEF RStart, Start, LocalInstruction, ExecRegistryInit, ExecAdapterInit,
                  ExecToggle, Complete, Becomes
    <2>3. turn' = [turn EXCEPT ![t] = NoTurn]
      BY <2>1 DEF RInv, TurnTypeOK
    <2> QED BY <2>2, <2>3, NoTurnNoAnswer
  <1>3. ASSUME NEW t \in Slots, CallAdapter(t)
        PROVE  AnswersLeft'
    <2> DEFINE r == [tx[t] EXCEPT !.phase = "cpi", !.ret = Cleared]
    <2>1. tx' = [tx EXCEPT ![t] = r] /\ tx[t] \in Running
      BY <1>3, AtIx DEF CallAdapter, BeginRoute, Becomes
    <2>4. tx'[t].phase = "cpi"
      BY <2>1 DEF Running, IInv, TypeOK
    <2> HIDE DEF r
    <2>2. PICK n : turn' = [turn EXCEPT ![t] = n] /\ n.stage = "called"
      <3>1. PICK p \in Payloads :
               turn' = [turn EXCEPT ![t] =
                           [stage |-> "called", extra |-> p.extra, listed |-> p.accounts,
                            given |-> Given[Ix(t).signer][p.accounts]]]
        BY <1>3 DEF CallAdapter
      <3> DEFINE n == [stage |-> "called", extra |-> p.extra, listed |-> p.accounts,
                       given |-> Given[Ix(t).signer][p.accounts]]
      <3>2. turn' = [turn EXCEPT ![t] = n] /\ n.stage = "called"
        BY <3>1
      <3> HIDE DEF n
      <3> QED BY <3>2
    <2>3. turn'[t].stage = "called"
      BY <2>2 DEF RInv, TurnTypeOK
    <2> QED BY <2>1, <2>2, <2>3, <2>4, OthersKeepAnswers DEF AnswerLeft
  <1>4. ASSUME NEW t \in Slots,
               \/ AdapterRefuses(t) \/ ProtocolFails(t) \/ DispatcherReturns(t)
               \/ DispatcherRefuses(t) \/ CommitAll(t)
        PROVE  AnswersLeft'
    <2>1. turn' = [turn EXCEPT ![t] = NoTurn]
      BY <1>4 DEF AdapterRefuses, ProtocolFails, DispatcherReturns, DispatcherRefuses,
                  CommitAll, Forget
    <2>2. \E r : tx' = [tx EXCEPT ![t] = r]
      BY <1>4 DEF AdapterRefuses, ProtocolFails, DispatcherReturns, DispatcherRefuses,
                  CommitAll, AdapterFails, RejectCall, Abort, FinishRoute,
                  FinishCurrentValue, Complete, Becomes, Commit
    <2> QED BY <2>1, <2>2, NoTurnNoAnswer
  <1>5. ASSUME NEW t \in Slots, ProtocolExecutes(t) \/ AdapterAccepts(t)
        PROVE  AnswersLeft'
    <2>1. turn[t] # NoTurn /\ Outcome(t).kind \in {"invoke", "accept"}
      BY <1>5 DEF ProtocolExecutes, AdapterAccepts, AtStage
    <2>2. Ix(t).op # "current_value"
      BY <2>1, QueriesStay
    <2>3. tx[t] \in Running
      BY <2>1, AtTurn
    <2>4. PICK r : /\ tx' = [tx EXCEPT ![t] = r]
                   /\ r.body = tx[t].body /\ r.pc = tx[t].pc
      <3>1. CASE ProtocolExecutes(t)
        BY <3>1, <2>3 DEF ProtocolExecutes, AdapterInvokesProtocol, Becomes, Running
      <3>2. CASE AdapterAccepts(t)
        BY <3>2 DEF AdapterAccepts, vars, IInv, TypeOK
      <3> QED BY <1>5, <3>1, <3>2
    <2>5. Ix(t)' = Ix(t)
      BY <2>4 DEF Ix, IInv, TypeOK
    <2>6. Reaches(t, "done")
      BY <1>5 DEF ProtocolExecutes, AdapterAccepts
    <2>7. turn'[t].stage = "done"
      BY <2>1, <2>6, TurnAfter
    <2>8. \E n : turn' = [turn EXCEPT ![t] = n]
      BY <2>6 DEF Reaches
    <2> QED BY <2>2, <2>4, <2>5, <2>7, <2>8, OthersKeepAnswers DEF AnswerLeft
  <1>6. ASSUME NEW t \in Slots, AdapterReports(t)
        PROVE  AnswersLeft'
    <2>1. /\ turn[t] # NoTurn /\ Outcome(t).kind = "report"
          /\ tx'[t].ret.data = Outcome(t).value
      BY <1>6 DEF AdapterReports, AtStage
    <2>2. PICK data : tx' = [tx EXCEPT ![t] = [tx[t] EXCEPT !.ret =
                                                  [by |-> Target(t), data |-> data]]]
      BY <1>6 DEF AdapterReports, AdapterSetsReturnData, Becomes
    <2>3. tx[t] \in Running
      BY <2>1, AtTurn
    <2>4. /\ tx'[t].ret.by = Target(t) /\ tx'[t].body = tx[t].body
          /\ tx'[t].pc = tx[t].pc /\ tx'[t].view = tx[t].view
      BY <2>2, <2>3 DEF Running, IInv, TypeOK
    <2>5. Target(t)' = Target(t) /\ Ix(t)' = Ix(t)
      BY <2>4 DEF Target, Ix
    <2>6. Ix(t).op = "current_value" =>
             /\ tx'[t].ret.data \in Value
             /\ IsAnswer(tx'[t].ret.data, Target(t), turn[t].listed)
      <3> SUFFICES ASSUME Ix(t).op = "current_value"
                   PROVE  /\ tx'[t].ret.data \in Value
                          /\ IsAnswer(tx'[t].ret.data, Target(t), turn[t].listed)
        OBVIOUS
      <3>1. QueryOK(Outcome(t), Target(t), CallOf(t))
        BY <2>1, TurnOutcome DEF Reject
      <3>2. CASE Target(t) = MOCK
        BY <2>1, <3>1, <3>2 DEF QueryOK, IsAnswer
      <3>3. CASE Target(t) # MOCK
        <4>1. PICK field \in ValueFields :
                 field.program = Target(t) /\ ReadsField(Outcome(t), CallOf(t), field.at)
          BY <3>1, <3>3 DEF QueryOK
        <4>2. /\ CallOf(t).accounts # <<>> /\ Outcome(t).value \in Value
              /\ Outcome(t).value = OnChain[CallOf(t).accounts[1].key].at[field.at] % U64
          BY <2>1, <4>1 DEF ReadsField
        <4>3. CallOf(t).accounts[1].key = turn[t].listed[1].key
          BY <2>1, <4>2, FirstAccount
        <4> QED BY <2>1, <3>3, <4>1, <4>2, <4>3 DEF IsAnswer
      <3> QED BY <3>2, <3>3
    <2>9. Reaches(t, "done")
      BY <1>6 DEF AdapterReports
    <2>10. turn'[t].stage = "done" /\ turn'[t].listed = turn[t].listed
      BY <2>1, <2>9, TurnAfter
    <2>7. AnswerLeft(t)'
      BY <2>4, <2>5, <2>6, <2>10 DEF AnswerLeft
    <2>8. \E n : turn' = [turn EXCEPT ![t] = n]
      BY <2>9 DEF Reaches
    <2> QED BY <2>2, <2>7, <2>8, OthersKeepAnswers
  <1>7. ASSUME NEW t \in Slots, AdapterReturns(t)
        PROVE  AnswersLeft'
    <2> DEFINE r == [tx[t] EXCEPT !.phase = "returned",
                        !.calls = Append(tx[t].calls, AdapterCall(tx[t].view, Ix(t)))]
    <2>1. turn[t] # NoTurn /\ turn[t].stage = "done" /\ tx' = [tx EXCEPT ![t] = r]
      BY <1>7 DEF AdapterReturns, AdapterSucceeds, Becomes, AtStage
    <2>2. tx[t] \in Running
      BY <2>1, AtTurn
    <2>3. r.ret = tx[t].ret /\ r.body = tx[t].body /\ r.pc = tx[t].pc /\ r.view = tx[t].view
      BY <2>2 DEF Running
    <2>4. tx'[t] = r
      BY <2>1 DEF IInv, TypeOK
    <2> HIDE DEF r
    <2>5. Target(t)' = Target(t) /\ Ix(t)' = Ix(t)
      BY <2>3, <2>4 DEF Target, Ix
    <2>6. AnswerLeft(t)
      BY DEF AnswersLeft
    <2>9. Reaches(t, "returned")
      BY <1>7 DEF AdapterReturns
    <2>10. turn'[t].stage = "returned" /\ turn'[t].listed = turn[t].listed
      BY <2>1, <2>9, TurnAfter
    <2>7. AnswerLeft(t)'
      BY <2>1, <2>3, <2>4, <2>5, <2>6, <2>10 DEF AnswerLeft
    <2>8. \E n : turn' = [turn EXCEPT ![t] = n]
      BY <2>9 DEF Reaches
    <2> QED BY <2>1, <2>7, <2>8, OthersKeepAnswers
  <1> QED
    BY <1>1, <1>2, <1>3, <1>4, <1>5, <1>6, <1>7 DEF RNext, RAdvance

\* Finished queries have their answers in every reachable state.
LEMMA AnswersInvariant == RSpec => []AnswersLeft
  <1>1. RInit => AnswersLeft
    BY DEF RInit, AnswersLeft, AnswerLeft
  <1>2. IInv /\ RInv /\ AnswersLeft /\ [RNext]_rvars => AnswersLeft'
    BY AnswersLeftStep
  <1>3. RSpec => []IInv
    BY RoutedIsDispatcher, Invariance, PTL
  <1> QED BY <1>1, <1>2, <1>3, TurnsInvariant, PTL DEF RSpec

\* An adapter's successful query always leaves a u64 that the adapter has set
\* itself, whatever the protocol accounts hold.
THEOREM AdaptersAnswer == RSpec => []EveryAdapterAnswers
  <1>1. AnswersLeft => EveryAdapterAnswers
    <2> SUFFICES ASSUME AnswersLeft, NEW t \in Slots, AtStage(t, "returned"),
                        Ix(t).op = "current_value"
                 PROVE  tx[t].ret.by = Target(t) /\ HasReturnU64(tx[t].ret)
      BY DEF EveryAdapterAnswers
    <2>1. tx[t].ret.by = Target(t) /\ tx[t].ret.data \in Value
      BY DEF AnswersLeft, AnswerLeft, AtStage
    <2> QED BY <2>1, ReturnDataAssumption DEF HasReturnU64
  <1> QED BY <1>1, AnswersInvariant, PTL

\* current_value answers with the field documented for the adapter, of the account
\* the client listed first, whoever else runs or lists what in between.
THEOREM AnswersAreFields == RSpec => AnswerIsTheField
  <1> DEFINE Rule(t) ==
        Answers(t) =>
            IF Target(t) = MOCK THEN tx'[t].ret.data = MOCK_CURRENT_VALUE
            ELSE \E field \in ValueFields :
                    /\ field.program = Target(t)
                    /\ tx'[t].ret.data
                          = OnChain[turn[t].listed[1].key].at[field.at] % U64
  <1>1. ASSUME IInv, RInv, AnswersLeft, [RNext]_rvars, NEW t \in Slots, Answers(t)
        PROVE  Rule(t)
    <2>1. [Next]_vars
      BY <1>1, StepIsDispatcherStep DEF rvars
    <2>2. FinishCurrentValue(t)
      BY <1>1, <2>1, AnsweringStep
    <2>3. /\ InFlight(t) /\ tx[t].phase = "returned" /\ Ix(t).op = "current_value"
          /\ tx[t] \in Running
      BY <1>1, <2>2, AtIx DEF FinishCurrentValue, AtInstruction
    <2>4. turn[t] # NoTurn /\ turn[t].stage # "called"
      BY <1>1, <2>3 DEF RInv, TurnTypeOK, AnswersLeft, AnswerLeft
    <2>5. IsAnswer(tx[t].ret.data, Target(t), turn[t].listed) /\ tx[t].ret.data \in Value
      BY <1>1, <2>3, <2>4 DEF AnswersLeft, AnswerLeft
    <2>6. tx'[t].ret = Republished(tx[t].ret)
      BY <1>1, <2>2, <2>3 DEF FinishCurrentValue, Complete, Becomes, Running, IInv, TypeOK
    <2>7. tx'[t].ret.data = tx[t].ret.data
      BY <2>6 DEF Republished
    <2> QED BY <2>5, <2>7 DEF IsAnswer
  <1>2. IInv /\ RInv /\ AnswersLeft /\ [RNext]_rvars => [\A t \in Slots : Rule(t)]_rvars
    BY <1>1
  <1>3. RSpec => []IInv
    BY RoutedIsDispatcher, Invariance, PTL
  <1> QED BY <1>2, <1>3, TurnsInvariant, AnswersInvariant, PTL DEF RSpec, AnswerIsTheField

---------------------------------------------------------------------------
(***************************************************************************)
(* Effects.                                                                *)
(***************************************************************************)

\* What holds of one thing a protocol has carried out in a transaction.
SentBySigner(effect, body) ==
    effect.fn = "ccip_send" =>
        /\ effect.accounts[4].key = effect.authority
        /\ effect.accounts[4].signer
        /\ \E n \in DOMAIN body : body[n].signer = effect.authority

FieldsInPlace(effect) ==
    effect.fn \in {"deposit", "withdraw"} =>
        /\ Len(effect.data) = Len(effect.extra)
        /\ effect.data[3] = Amount(effect.amount)[1]
        /\ \A k \in 2..Len(effect.extra) :
              effect.data[PlaceOf(k)] = Raw(effect.extra)[k]

EffectOK(effect, body) == SentBySigner(effect, body) /\ FieldsInPlace(effect)

\* The effects of the transaction r, if there is one.
EffectsOK(effects, r) ==
    /\ \E S : effects \in Seq(S)
    /\ r = Idle => effects = <<>>
    /\ r # Idle => \A i \in DOMAIN effects : EffectOK(effects[i], r.body)

EffectsInv ==
    /\ DOMAIN trace = Slots
    /\ \A t \in Slots : EffectsOK(trace[t].effects, tx[t])

\* Two sequences with one element between them.
LEMMA AroundOne ==
    ASSUME NEW S, NEW a \in Seq(S), Len(a) = 2, NEW u \in S, NEW b \in Seq(S)
    PROVE  LET all == a \o <<u>> \o b
           IN  /\ all[1] = a[1] /\ all[2] = a[2] /\ all[3] = u
               /\ \A k \in 1..Len(b) : all[3 + k] = b[k]
               /\ Len(all) = 3 + Len(b)
  <1> DEFINE one == <<u>>
             front == a \o one
             all == front \o b
  <1>1. one \in Seq(S) /\ Len(one) = 1 /\ one[1] = u
    OBVIOUS
  <1> HIDE DEF one
  <1>2. /\ front \in Seq(S) /\ Len(front) = 3
        /\ \A i \in 1..3 : front[i] = IF i <= 2 THEN a[i] ELSE one[i - 2]
    <2>1. /\ front \in Seq(S) /\ Len(front) = Len(a) + Len(one)
          /\ \A i \in 1..(Len(a) + Len(one)) :
                front[i] = IF i <= Len(a) THEN a[i] ELSE one[i - Len(a)]
      BY <1>1, ConcatProperties, Zenon
    <2> QED BY <1>1, <2>1
  <1>3. front[1] = a[1] /\ front[2] = a[2] /\ front[3] = u
    BY <1>1, <1>2
  <1> HIDE DEF front
  <1>4. Len(b) \in Nat
    OBVIOUS
  <1>5. /\ Len(all) = 3 + Len(b)
        /\ \A i \in 1..(3 + Len(b)) : all[i] = IF i <= 3 THEN front[i] ELSE b[i - 3]
    <2>1. /\ Len(all) = Len(front) + Len(b)
          /\ \A i \in 1..(Len(front) + Len(b)) :
                all[i] = IF i <= Len(front) THEN front[i] ELSE b[i - Len(front)]
      BY <1>2, ConcatProperties, Zenon
    <2> QED BY <1>2, <1>4, <2>1
  <1>6. /\ all[1] = front[1] /\ all[2] = front[2] /\ all[3] = front[3]
        /\ \A k \in 1..Len(b) : all[3 + k] = b[k]
    BY <1>4, <1>5
  <1> QED BY <1>3, <1>5, <1>6 DEF front, one

\* The data Drift's spot functions are given, field by field.
LEMMA SpotFields ==
    ASSUME NEW call, call.extra \in Seq(Byte), Len(call.extra) >= 3
    PROVE  LET data == SpotData(call)
           IN  /\ Len(data) = Len(call.extra)
               /\ data[3] = Amount(call.amount)[1]
               /\ \A k \in 2..Len(call.extra) : data[PlaceOf(k)] = Raw(call.extra)[k]
  <1> DEFINE head == SubSeq(call.extra, 2, 3)
             rest == SubSeq(call.extra, 4, Len(call.extra))
             Field == {[is |-> "byte", val |-> b] : b \in Byte}
                      \cup {[is |-> "u64", val |-> call.amount]}
             u == [is |-> "u64", val |-> call.amount]
  <1>1. /\ head \in Seq(Byte) /\ Len(head) = 2
        /\ head[1] = call.extra[2] /\ head[2] = call.extra[3]
    OBVIOUS
  <1>2. /\ rest \in Seq(Byte) /\ Len(rest) = Len(call.extra) - 3
        /\ \A k \in 1..(Len(call.extra) - 3) : rest[k] = call.extra[3 + k]
    OBVIOUS
  <1>3. ASSUME NEW bytes \in Seq(Byte)
        PROVE  /\ Raw(bytes) \in Seq(Field) /\ Len(Raw(bytes)) = Len(bytes)
               /\ \A i \in 1..Len(bytes) : Raw(bytes)[i] = [is |-> "byte", val |-> bytes[i]]
    <2>1. \A i \in DOMAIN bytes : bytes[i] \in Byte
      OBVIOUS
    <2> QED BY <2>1 DEF Raw
  <1>4. Amount(call.amount) = <<u>> /\ Amount(call.amount)[1] = u /\ u \in Field
    BY DEF Amount
  <1>5. SpotData(call) = Raw(head) \o <<u>> \o Raw(rest)
    BY <1>4 DEF SpotData
  <1>6. Len(call.extra) \in Nat
    OBVIOUS
  <1> HIDE DEF u, Field, head, rest
  <1>7. Raw(head) \in Seq(Field) /\ Len(Raw(head)) = 2 /\ Raw(rest) \in Seq(Field)
        /\ Len(Raw(rest)) = Len(call.extra) - 3
    BY <1>1, <1>2, <1>3
  <1>8. /\ SpotData(call)[1] = Raw(head)[1] /\ SpotData(call)[2] = Raw(head)[2]
        /\ SpotData(call)[3] = u
        /\ \A k \in 1..(Len(call.extra) - 3) : SpotData(call)[3 + k] = Raw(rest)[k]
        /\ Len(SpotData(call)) = 3 + (Len(call.extra) - 3)
    BY <1>4, <1>5, <1>7, AroundOne
  <1>9. ASSUME NEW k \in 2..Len(call.extra)
        PROVE  SpotData(call)[PlaceOf(k)] = Raw(call.extra)[k]
    <2>1. Raw(call.extra)[k] = [is |-> "byte", val |-> call.extra[k]]
      BY <1>3
    <2>2. CASE k = 2
      <3>1. Raw(head)[1] = [is |-> "byte", val |-> head[1]]
        BY <1>1, <1>3
      <3> QED BY <1>1, <1>8, <2>1, <2>2, <3>1 DEF PlaceOf
    <2>3. CASE k = 3
      <3>1. Raw(head)[2] = [is |-> "byte", val |-> head[2]]
        BY <1>1, <1>3
      <3> QED BY <1>1, <1>8, <2>1, <2>3, <3>1 DEF PlaceOf
    <2>4. CASE k > 3
      <3> DEFINE i == k - 3
      <3>1. i \in 1..(Len(call.extra) - 3) /\ 3 + i = k /\ PlaceOf(k) = k
        BY <1>6, <2>4 DEF PlaceOf
      <3> HIDE DEF i
      <3>2. Raw(rest)[i] = [is |-> "byte", val |-> rest[i]] /\ rest[i] = call.extra[k]
        BY <1>2, <1>3, <3>1
      <3>3. SpotData(call)[3 + i] = Raw(rest)[i]
        BY <1>8, <3>1
      <3> QED BY <2>1, <3>1, <3>2, <3>3
    <2> QED BY <2>2, <2>3, <2>4
  <1> QED BY <1>4, <1>6, <1>8, <1>9

\* What a protocol carries out for the call in progress is in order.
LEMMA NewEffect ==
    ASSUME IInv, RInv, NEW t \in Slots, turn[t] # NoTurn, Outcome(t).kind = "invoke"
    PROVE  EffectOK(Effect(t), tx[t].body)
  <1> DEFINE effect == Effect(t)
             cut == Tail(turn[t].given)
  <1>1. Ix(t).op # "current_value"
    BY QueriesStay
  <1>2. MoveOK(Outcome(t), CallOf(t))
    BY <1>1, TurnOutcome
  <1>3. /\ effect.fn = Outcome(t).fn /\ effect.data = Outcome(t).data
        /\ effect.extra = turn[t].extra /\ effect.authority = CallOf(t).authority
        /\ effect.amount = CallOf(t).amount
        /\ effect.accounts = ProtocolAccounts(turn[t].given)
    BY DEF Effect
  <1>4. /\ CallOf(t).accounts = cut /\ cut \in Seq(Meta)
        /\ CallOf(t).extra = turn[t].extra /\ turn[t].extra \in Seq(Byte)
        /\ CallOf(t).authority = Ix(t).signer
    BY CallType
  <1>5. effect.accounts = Merge(cut)
    BY <1>3, <1>4, ForwardedSame DEF ProtocolAccounts
  <1> HIDE DEF effect, cut
  <1>6. SentBySigner(effect, tx[t].body)
    <2> SUFFICES ASSUME effect.fn = "ccip_send"
                 PROVE  /\ effect.accounts[4].key = effect.authority
                        /\ effect.accounts[4].signer
                        /\ \E n \in DOMAIN tx[t].body : tx[t].body[n].signer = effect.authority
      BY DEF SentBySigner
    <2>1. 4 \in DOMAIN cut /\ cut[4].key = CallOf(t).authority /\ cut[4].signer
      BY <1>2, <1>3, <1>4 DEF MoveOK
    <2>2. SameAccount(Merge(cut)[4], cut[4])
      BY <1>4, <2>1, MergeAt
    <2>3. tx[t].pc \in DOMAIN tx[t].body /\ tx[t].body[tx[t].pc].signer = effect.authority
      BY <1>3, <1>4, AtTurn DEF Ix
    <2> QED BY <1>3, <1>5, <2>1, <2>2, <2>3 DEF SameAccount
  <1>7. FieldsInPlace(effect)
    <2> SUFFICES ASSUME effect.fn \in {"deposit", "withdraw"}
                 PROVE  FieldsInPlace(effect)
      BY DEF FieldsInPlace
    <2>1. Len(CallOf(t).extra) >= 3 /\ effect.data = SpotData(CallOf(t))
      BY <1>2, <1>3 DEF MoveOK
    <2> QED BY <1>3, <1>4, <2>1, SpotFields DEF FieldsInPlace
  <1> QED BY <1>6, <1>7 DEF EffectOK, effect

\* A step of one slot leaves the effects of the others as they are.
LEMMA EffectsStepOfOne ==
    ASSUME IInv, EffectsInv, NEW t \in Slots, NEW r, NEW n,
           tx' = [tx EXCEPT ![t] = r], trace' = [trace EXCEPT ![t] = n],
           EffectsOK(n.effects, r)
    PROVE  EffectsInv'
  <1>1. tx'[t] = r /\ \A u \in Slots \ {t} : tx'[u] = tx[u]
    BY DEF IInv, TypeOK
  <1>2. DOMAIN trace' = Slots /\ trace'[t] = n
        /\ \A u \in Slots \ {t} : trace'[u] = trace[u]
    BY DEF EffectsInv
  <1> QED BY <1>1, <1>2 DEF EffectsInv

\* A transaction that goes on keeps its effects.
LEMMA EffectsKept ==
    ASSUME IInv, EffectsInv, NEW t \in Slots, InFlight(t), NEW r, NEW n,
           tx' = [tx EXCEPT ![t] = r], trace' = [trace EXCEPT ![t] = n],
           n.effects = trace[t].effects, r # Idle, r.body = tx[t].body
    PROVE  EffectsInv'
  <1>1. EffectsOK(trace[t].effects, tx[t])
    BY DEF EffectsInv
  <1>2. EffectsOK(n.effects, r)
    BY <1>1 DEF EffectsOK, InFlight
  <1> QED BY <1>2, EffectsStepOfOne

\* A slot that is emptied has none.
LEMMA EffectsGone ==
    ASSUME IInv, EffectsInv, NEW t \in Slots,
           tx' = [tx EXCEPT ![t] = Idle], trace' = [trace EXCEPT ![t] = Untouched]
    PROVE  EffectsInv'
  <1>1. Untouched.effects = <<>> /\ <<>> \in Seq({})
    BY DEF Untouched
  <1>2. EffectsOK(Untouched.effects, Idle)
    BY <1>1 DEF EffectsOK
  <1> QED BY <1>2, EffectsStepOfOne


\* The transaction goes on and trace is left alone.
LEMMA EffectsUntouched ==
    ASSUME IInv, EffectsInv, NEW t \in Slots, InFlight(t), NEW r,
           tx' = [tx EXCEPT ![t] = r], UNCHANGED trace, r # Idle, r.body = tx[t].body
    PROVE  EffectsInv'
  <1>1. trace' = trace /\ tx'[t] = r /\ \A u \in Slots \ {t} : tx'[u] = tx[u]
    BY DEF IInv, TypeOK
  <1>2. EffectsOK(trace[t].effects, r)
    BY DEF EffectsInv, EffectsOK, InFlight
  <1> QED BY <1>1, <1>2 DEF EffectsInv

\* The dispatcher's handlers complete with a view, events and return data.
LEMMA HandlerCompletes ==
    ASSUME IInv, NEW t \in Slots, LocalInstruction(t) \/ DispatcherReturns(t)
    PROVE  /\ InFlight(t)
           /\ \E view \in View, events \in Seq(Event), ret \in ReturnSlot(Setters) :
                 Complete(t, view, events, ret)
  <1>1. CASE ExecRegistryInit(t)
    <2>1. AtInstruction(t, "exec")
      BY <1>1 DEF ExecRegistryInit
    <2>2. RegistryInit(tx[t].view, Ix(t)) \in View
      BY <2>1, AtIx, HandlerTypes
    <2> QED BY <1>1, <2>1, <2>2, AtIx, ClearedType DEF ExecRegistryInit
  <1>2. CASE ExecAdapterInit(t)
    <2>1. AtInstruction(t, "exec") /\ CanAdapterInit(tx[t].view, Ix(t))
      BY <1>2 DEF ExecAdapterInit
    <2>2. AdapterInit(tx[t].view, Ix(t)) \in View
      BY <2>1, AtIx, HandlerTypes
    <2> QED BY <1>2, <2>1, <2>2, AtIx, ClearedType DEF ExecAdapterInit
  <1>3. CASE ExecToggle(t)
    <2> DEFINE view == Toggle(tx[t].view, Ix(t))
               here == Ix(t).adapter
    <2>1. /\ AtInstruction(t, "exec") /\ CanToggle(tx[t].view, Ix(t))
          /\ Complete(t, view, Append(tx[t].events, ToggleEvent(view, Ix(t))), Cleared)
      BY <1>3 DEF ExecToggle
    <2>2. view \in View
      BY <2>1, AtIx, HandlerTypes
    <2>3. /\ here \in Pda /\ tx[t].view.adapters[here] \in Entry
          /\ NextStatus(tx[t].view.adapters[here].status) \in {Active, Paused}
      BY <2>1, AtIx DEF CanToggle, View, Instruction, NextStatus
    <2>4. view.adapters[here] = [tx[t].view.adapters[here] EXCEPT
                                    !.status = NextStatus(tx[t].view.adapters[here].status)]
      <3>1. tx[t].view \in View
        BY <2>1, AtIx
      <3> QED BY <2>3, <3>1 DEF Toggle, View
    <2>5. view.adapters[here] \in Entry
      BY <2>3, <2>4, StatusType
    <2>6. ToggleEvent(view, Ix(t)) \in Event
      BY <2>1, <2>2, <2>5, AtIx DEF ToggleEvent, Event, Entry, Instruction
    <2> HIDE DEF view
    <2>7. Append(tx[t].events, ToggleEvent(view, Ix(t))) \in Seq(Event)
      BY <2>1, <2>6, AtIx
    <2> QED BY <2>1, <2>2, <2>7, AtIx, ClearedType
  <1>4. CASE FinishRoute(t)
    <2>1. /\ AtInstruction(t, "returned")
          /\ Complete(t, tx[t].view, Append(tx[t].events, RouteEvent(tx[t].view, Ix(t))),
                      tx[t].ret)
      BY <1>4 DEF FinishRoute
    <2>2. Ix(t).op \in RouteOps /\ tx[t].view.adapters[Ix(t).adapter] # NoEntry
      <3>1. Sound(tx[t], registry, adapters) /\ tx[t].phase = "returned"
        BY <2>1, AtIx DEF AtInstruction
      <3> QED BY <3>1 DEF Sound, RouteHolds, Ix
    <2>3. RouteEvent(tx[t].view, Ix(t)) \in Event
      BY <2>1, <2>2, AtIx, RouteTypes
    <2>4. tx[t] \in Running /\ tx[t].view \in View /\ tx[t].events \in Seq(Event)
          /\ InFlight(t)
      BY <2>1, AtIx
    <2>5. Append(tx[t].events, RouteEvent(tx[t].view, Ix(t))) \in Seq(Event)
          /\ tx[t].ret \in ReturnSlot(Setters)
      BY <2>3, <2>4 DEF Running
    <2> QED BY <2>1, <2>4, <2>5
  <1>5. CASE FinishCurrentValue(t)
    <2>1. /\ AtInstruction(t, "returned")
          /\ Complete(t, tx[t].view, tx[t].events, Republished(tx[t].ret))
      BY <1>5 DEF FinishCurrentValue
    <2>2. tx[t].ret \in ReturnSlot(Setters)
      BY <2>1, AtIx DEF Running
    <2>3. Republished(tx[t].ret) \in ReturnSlot(Setters)
      BY <2>2 DEF Republished, ReturnSlot, Setters
    <2> QED BY <2>1, <2>3, AtIx
  <1> QED
    BY <1>1, <1>2, <1>3, <1>4, <1>5 DEF LocalInstruction, DispatcherReturns

\* A handler that completes leaves the body of the transaction as it was.
LEMMA CompleteKeepsBody ==
    ASSUME IInv, NEW t \in Slots, InFlight(t),
           NEW view \in View, NEW events \in Seq(Event), NEW ret \in ReturnSlot(Setters),
           Complete(t, view, events, ret)
    PROVE  \E r : tx' = [tx EXCEPT ![t] = r] /\ r.body = tx[t].body /\ r # Idle
  <1> DEFINE r == [tx[t] EXCEPT !.pc = tx[t].pc + 1, !.phase = "exec",
                                !.view = view, !.events = events, !.ret = ret]
  <1>1. tx[t] \in Running
    BY DEF IInv, TypeOK, InFlight
  <1>2. r.body = tx[t].body
    BY <1>1 DEF Running
  <1>3. r \in Running
    <2>1. tx[t].pc + 1 \in Nat \ {0}
      BY <1>1 DEF Running
    <2> QED BY <1>1, <2>1, UpdateType, Zenon
  <1>4. tx' = [tx EXCEPT ![t] = r]
    BY DEF Complete, Becomes
  <1> HIDE DEF r
  <1> QED BY <1>2, <1>3, <1>4, SlotAssumption

\* Whatever happens, the effects of transactions in flight are in order.
LEMMA EffectsInvStep ==
    ASSUME IInv, RInv, EffectsInv, [RNext]_rvars
    PROVE  EffectsInv'
  <1>1. CASE UNCHANGED rvars
    BY <1>1 DEF rvars, vars, EffectsInv
  <1>2. ASSUME NEW t \in Slots, RStart(t)
        PROVE  EffectsInv'
    <2>1. PICK body \in Transactions :
             ~InFlight(t) /\ tx' = [tx EXCEPT ![t] = Admitted(body)] /\ UNCHANGED trace
      BY <1>2 DEF RStart, Start, Becomes
    <2> DEFINE r == Admitted(body)
    <2> HIDE DEF r
    <2>2. tx'[t] = r /\ \A u \in Slots \ {t} : tx'[u] = tx[u]
      BY <2>1 DEF IInv, TypeOK, r
    <2>3. trace[t].effects = <<>>
      BY <2>1 DEF EffectsInv, EffectsOK, InFlight
    <2>4. EffectsOK(trace[t].effects, r)
      <3>1. <<>> \in Seq({}) /\ DOMAIN <<>> = {}
        OBVIOUS
      <3> QED BY <2>3, <3>1 DEF EffectsOK
    <2> QED BY <2>1, <2>2, <2>4 DEF EffectsInv
  <1>3. ASSUME NEW t \in Slots, LocalInstruction(t) \/ DispatcherReturns(t)
        PROVE  EffectsInv'
    <2>1. InFlight(t) /\ UNCHANGED trace
      BY <1>3 DEF LocalInstruction, DispatcherReturns, ExecRegistryInit, ExecAdapterInit,
                  ExecToggle, FinishRoute, FinishCurrentValue, AtInstruction
    <2>2. \E view \in View, events \in Seq(Event), ret \in ReturnSlot(Setters) :
             Complete(t, view, events, ret)
      BY <1>3, HandlerCompletes
    <2>3. PICK r : tx' = [tx EXCEPT ![t] = r] /\ r.body = tx[t].body /\ r # Idle
      BY <2>1, <2>2, CompleteKeepsBody
    <2> QED BY <2>1, <2>3, EffectsUntouched
  <1>4. ASSUME NEW t \in Slots, CallAdapter(t)
        PROVE  EffectsInv'
    <2> DEFINE r == [tx[t] EXCEPT !.phase = "cpi", !.ret = Cleared]
    <2>1. InFlight(t) /\ tx[t] \in Running /\ tx' = [tx EXCEPT ![t] = r] /\ UNCHANGED trace
      BY <1>4, AtIx DEF CallAdapter, BeginRoute, Becomes
    <2>2. r \in Running /\ r.body = tx[t].body
      BY <2>1, ClearedType DEF Running
    <2>3. r # Idle
      BY <2>2, SlotAssumption
    <2> HIDE DEF r
    <2> QED BY <2>1, <2>2, <2>3, EffectsUntouched
  <1>5. ASSUME NEW t \in Slots,
               \/ AdapterRefuses(t) \/ ProtocolFails(t)
               \/ DispatcherRefuses(t) \/ CommitAll(t)
        PROVE  EffectsInv'
    <2>1. trace' = [trace EXCEPT ![t] = Untouched]
      BY <1>5 DEF AdapterRefuses, ProtocolFails, DispatcherRefuses, CommitAll, Forget
    <2>2. tx' = [tx EXCEPT ![t] = Idle]
      BY <1>5 DEF AdapterRefuses, ProtocolFails, DispatcherRefuses, CommitAll,
                  AdapterFails, RejectCall, Abort, Becomes, Commit
    <2> QED BY <2>1, <2>2, EffectsGone
  <1>6. ASSUME NEW t \in Slots, ProtocolExecutes(t)
        PROVE  EffectsInv'
    <2>1. turn[t] # NoTurn /\ Outcome(t).kind = "invoke" /\ InFlight(t)
      BY <1>6 DEF ProtocolExecutes, AtStage, RInv, TurnTypeOK
    <2>2. PICK data \in ReturnData :
             tx' = [tx EXCEPT ![t] = [tx[t] EXCEPT !.ret =
                                         [by |-> PROTOCOL, data |-> data]]]
      BY <1>6 DEF ProtocolExecutes, AdapterInvokesProtocol, Becomes
    <2> DEFINE r == [tx[t] EXCEPT !.ret = [by |-> PROTOCOL, data |-> data]]
               old == trace[t].effects
               new == Append(old, Effect(t))
               n == [events |-> trace[t].events, effects |-> new]
    <2>3. tx[t] \in Running
      BY <2>1, AtTurn
    <2>4. r.body = tx[t].body /\ tx'[t] = r
      BY <2>2, <2>3 DEF Running, IInv, TypeOK
    <2>5. trace' = [trace EXCEPT ![t] = n] /\ n.effects = new
      BY <1>6 DEF ProtocolExecutes, Recorded
    <2>6. EffectsOK(old, tx[t]) /\ EffectOK(Effect(t), tx[t].body)
      BY <2>1, NewEffect DEF EffectsInv
    <2>7. r # Idle
      <3>1. r \in Running
        BY <2>3 DEF Running, ReturnSlot, Setters
      <3> QED BY <3>1, SlotAssumption
    <2> HIDE DEF r, n
    <2>8. PICK S : old \in Seq(S)
      BY <2>6 DEF EffectsOK
    <2> DEFINE T == S \cup {Effect(t)}
    <2>9. old \in Seq(T) /\ Effect(t) \in T
      BY <2>8
    <2> HIDE DEF T, old
    <2>10. /\ new \in Seq(T) /\ Len(new) = Len(old) + 1
           /\ \A i \in 1..Len(old) : new[i] = old[i]
           /\ new[Len(old) + 1] = Effect(t)
      BY <2>9, AppendProperties
    <2>11. Len(old) \in Nat /\ DOMAIN old = 1..Len(old) /\ DOMAIN new = 1..(Len(old) + 1)
      BY <2>9, <2>10
    <2> HIDE DEF new
    <2>12. \A i \in DOMAIN new : EffectOK(new[i], r.body)
      BY <2>1, <2>4, <2>6, <2>10, <2>11 DEF EffectsOK, InFlight
    <2>13. EffectsOK(new, r)
      BY <2>7, <2>10, <2>12 DEF EffectsOK
    <2> QED BY <2>2, <2>5, <2>13, EffectsStepOfOne DEF r
  <1>7. ASSUME NEW t \in Slots, AdapterAccepts(t)
        PROVE  EffectsInv'
    BY <1>7 DEF AdapterAccepts, vars, EffectsInv
  <1>8. ASSUME NEW t \in Slots, AdapterReports(t)
        PROVE  EffectsInv'
    <2>1. turn[t] # NoTurn /\ InFlight(t) /\ UNCHANGED trace
      BY <1>8 DEF AdapterReports, AtStage, RInv, TurnTypeOK
    <2>2. PICK data \in Value \cup {TooShort} :
             tx' = [tx EXCEPT ![t] = [tx[t] EXCEPT !.ret =
                                         [by |-> Target(t), data |-> data]]]
      BY <1>8 DEF AdapterReports, AdapterSetsReturnData, Becomes
    <2> DEFINE r == [tx[t] EXCEPT !.ret = [by |-> Target(t), data |-> data]]
    <2>3. tx[t] \in Running /\ Target(t) \in Programs
      BY <2>1, AtTurn
    <2>4. r \in Running /\ r.body = tx[t].body
      BY <2>3 DEF Running, ReturnSlot, Setters, ReturnData
    <2>5. r # Idle
      BY <2>4, SlotAssumption
    <2> HIDE DEF r
    <2> QED BY <2>1, <2>2, <2>4, <2>5, EffectsUntouched DEF r
  <1>9. ASSUME NEW t \in Slots, AdapterReturns(t)
        PROVE  EffectsInv'
    <2> DEFINE calls == Append(tx[t].calls, AdapterCall(tx[t].view, Ix(t)))
               r == [tx[t] EXCEPT !.phase = "returned", !.calls = calls]
               n == [events |-> Append(trace[t].events, AdapterEvent(t)),
                     effects |-> trace[t].effects]
    <2>1. /\ AtInstruction(t, "cpi") /\ InFlight(t)
          /\ tx' = [tx EXCEPT ![t] = r]
          /\ trace' = [trace EXCEPT ![t] = n] /\ n.effects = trace[t].effects
      BY <1>9 DEF AdapterReturns, AdapterSucceeds, AtInstruction, Becomes, Recorded
    <2>2. tx[t] \in Running
      BY <2>1, AtIx
    <2>3. calls \in Seq(Call)
      <3>1. tx[t].calls \in Seq(Call)
        BY <2>2 DEF Running
      <3> QED BY <2>1, <3>1, TargetType
    <2> HIDE DEF calls, n
    <2>4. r \in Running /\ r.body = tx[t].body
      BY <2>2, <2>3 DEF Running
    <2>5. r # Idle
      BY <2>4, SlotAssumption
    <2> HIDE DEF r
    <2> QED BY <2>1, <2>4, <2>5, EffectsKept
  <1>10. CASE RNext
    <2>1. PICK t \in Slots : RStart(t) \/ RAdvance(t)
      BY <1>10 DEF RNext
    <2> QED
      BY <1>2, <1>3, <1>4, <1>5, <1>6, <1>7, <1>8, <1>9, <2>1 DEF RAdvance
  <1> QED BY <1>1, <1>10

\* Effects are in order in every reachable state.
LEMMA EffectsInvariant == RSpec => []EffectsInv
  <1>1. RInit => EffectsInv
    <2> SUFFICES ASSUME RInit PROVE EffectsInv
      OBVIOUS
    <2>1. Untouched.effects = <<>> /\ <<>> \in Seq({})
      BY DEF Untouched
    <2>2. EffectsOK(Untouched.effects, Idle)
      BY <2>1 DEF EffectsOK
    <2> QED BY <2>2 DEF RInit, Init, EffectsInv
  <1>2. IInv /\ RInv /\ EffectsInv /\ [RNext]_rvars => EffectsInv'
    BY EffectsInvStep
  <1>3. RSpec => []IInv
    BY RoutedIsDispatcher, Invariance, PTL
  <1> QED BY <1>1, <1>2, <1>3, TurnsInvariant, PTL DEF RSpec

\* Through the dispatcher nobody can have a CCIP message sent in a name other than
\* that of the signer of the call, however the accounts are listed.
THEOREM CcipIsSentBySigner == RSpec => []CcipSentBySigner
  <1>1. EffectsInv => CcipSentBySigner
    <2> SUFFICES ASSUME EffectsInv, NEW t \in Slots, NEW i \in DOMAIN trace[t].effects
                 PROVE  SentBySigner(trace[t].effects[i], tx[t].body)
      BY DEF CcipSentBySigner, SentBySigner
    <2>1. tx[t] # Idle
      BY DEF EffectsInv, EffectsOK
    <2> QED BY <2>1 DEF EffectsInv, EffectsOK, EffectOK
  <1> QED BY <1>1, EffectsInvariant, PTL

\* However long extra_data is, the data of deposit and withdraw is the market index,
\* the amount of the call, and then every further byte of extra_data in its place.
THEOREM DriftFieldsAlwaysArrive == RSpec => []DriftFieldsArrive
  <1>1. EffectsInv => DriftFieldsArrive
    <2> SUFFICES ASSUME EffectsInv, NEW t \in Slots, NEW i \in DOMAIN trace[t].effects
                 PROVE  FieldsInPlace(trace[t].effects[i])
      BY DEF DriftFieldsArrive, FieldsInPlace
    <2>1. tx[t] # Idle
      BY DEF EffectsInv, EffectsOK
    <2> QED BY <2>1 DEF EffectsInv, EffectsOK, EffectOK
  <1> QED BY <1>1, EffectsInvariant, PTL

=============================================================================
