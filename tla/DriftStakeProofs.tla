-------------------------- MODULE DriftStakeProofs --------------------------
(***************************************************************************)
(* The adapter's events account for the insurance fund's stakes, for every *)
(* number of users, markets and amounts, as long as no client passes       *)
(* add_insurance_fund_stake more than the market index.                    *)
(***************************************************************************)
EXTENDS DriftStake, SequenceTheorems, TLAPS

(***************************************************************************)
(* What the adapter sends to the fund.                                     *)
(***************************************************************************)
DriftCall(user, amount, extra) ==
    [authority |-> user, amount |-> amount, extra |-> extra, accounts |-> <<>>]

\* The adapter passed on the fields of a call as the fund decodes them.
Sends(fn, op, user, amount, extra, m) ==
    LET out == Handled(op, user, amount, extra)
    IN  /\ out.kind = "invoke"
        /\ out.fn = fn
        /\ Selects(out.data, m)

\* A byte as a field of instruction data.
ByteField(val) == [is |-> "byte", val |-> val]

AmountField(val) == [is |-> "u64", val |-> val]

Field == [is : {"byte", "u64"}, val : Int]

LEMMA DigitIsInt == Digit \subseteq Int
  BY LayoutAssumption DEF Digit

LEMMA FieldParts ==
    /\ \A n : ByteField(n).is = "byte" /\ ByteField(n).val = n
    /\ \A n : AmountField(n).is = "u64" /\ AmountField(n).val = n
    /\ \A n \in Int : ByteField(n) \in Field /\ AmountField(n) \in Field
  BY DEF ByteField, AmountField, Field

\* Raw makes a field of every byte.
LEMMA RawFields ==
    ASSUME NEW bytes \in Seq(Int)
    PROVE  /\ Drift!Raw(bytes) \in Seq(Field)
           /\ Len(Drift!Raw(bytes)) = Len(bytes)
           /\ \A i \in 1..Len(bytes) : Drift!Raw(bytes)[i] = ByteField(bytes[i])
<1>1. DOMAIN bytes = 1..Len(bytes) /\ Len(bytes) \in Nat
  BY LenProperties
<1>2. \A i \in 1..Len(bytes) : bytes[i] \in Int
  BY ElementOfSeq
<1>3. Drift!Raw(bytes) = [i \in 1..Len(bytes) |-> ByteField(bytes[i])]
  BY <1>1, Zenon DEF Drift!Raw, ByteField
<1>4. \A i \in 1..Len(bytes) : ByteField(bytes[i]) \in Field
  BY <1>2, FieldParts
<1>5. Drift!Raw(bytes) \in [1..Len(bytes) -> Field]
  BY <1>3, <1>4
<1>6. Drift!Raw(bytes) \in Seq(Field)
  BY <1>1, <1>5, SeqDef
<1>7. Len(Drift!Raw(bytes)) = Len(bytes)
  BY <1>1, <1>5, <1>6, LenProperties
<1> QED
  BY <1>3, <1>6, <1>7

\* All but the first.
LEMMA Suffix ==
    ASSUME NEW s \in Seq(Int), s # <<>>
    PROVE  /\ SubSeq(s, 2, Len(s)) \in Seq(Int)
           /\ Len(SubSeq(s, 2, Len(s))) = Len(s) - 1
           /\ \A i \in 1..(Len(s) - 1) : SubSeq(s, 2, Len(s))[i] = s[i + 1]
  BY TailIsSubSeq, HeadTailProperties

\* Behind the selector come the market index and the rest.
LEMMA BytesFromSelector ==
    ASSUME NEW extra \in Seq(Int), extra # <<>>
    PROVE  LET rest == Drift!Raw(Drift!From(extra, 1))
           IN  /\ rest \in Seq(Field)
               /\ Len(rest) = Len(extra) - 1
               /\ \A i \in 1..(Len(extra) - 1) : rest[i] = ByteField(extra[i + 1])
<1> DEFINE bytes == Drift!From(extra, 1)
<1>1. Len(extra) \in Nat \ {0}
  BY EmptySeq
<1>2. bytes = SubSeq(extra, 2, Len(extra))
  BY DEF Drift!From
<1>3. /\ SubSeq(extra, 2, Len(extra)) \in Seq(Int)
      /\ Len(SubSeq(extra, 2, Len(extra))) = Len(extra) - 1
      /\ \A i \in 1..(Len(extra) - 1) : SubSeq(extra, 2, Len(extra))[i] = extra[i + 1]
  BY Suffix, Zenon
<1>4. /\ bytes \in Seq(Int)
      /\ Len(bytes) = Len(extra) - 1
      /\ \A i \in 1..(Len(extra) - 1) : bytes[i] = extra[i + 1]
  BY <1>2, <1>3, Zenon
<1> QED
  BY <1>1, <1>4, RawFields

\* The market index alone.
LEMMA BytesOfMarketIndex ==
    ASSUME NEW extra \in Seq(Int), Len(extra) >= 3
    PROVE  LET index == Drift!Raw(Drift!MarketIndex(extra))
           IN  /\ index \in Seq(Field)
               /\ Len(index) = 2
               /\ index[1] = ByteField(extra[2]) /\ index[2] = ByteField(extra[3])
<1> DEFINE bytes == Drift!MarketIndex(extra)
<1>1. bytes = SubSeq(extra, 2, 3)
  BY DEF Drift!MarketIndex
<1>2. Len(extra) \in Nat
  BY LenProperties
<1>3. \A i \in 2..3 : extra[i] \in Int
  BY <1>2, ElementOfSeq
<1>4. /\ bytes \in Seq(Int)
      /\ Len(bytes) = IF 2 <= 3 THEN 3 - 2 + 1 ELSE 0
      /\ \A i \in 1..(3 - 2 + 1) : bytes[i] = extra[2 + i - 1]
  BY <1>1, <1>3, SubSeqProperties
<1>5. /\ bytes \in Seq(Int) /\ Len(bytes) = 2
      /\ bytes[1] = extra[2] /\ bytes[2] = extra[3]
  BY <1>4
<1>6. /\ Drift!Raw(bytes) \in Seq(Field) /\ Len(Drift!Raw(bytes)) = Len(bytes)
      /\ \A i \in 1..Len(bytes) : Drift!Raw(bytes)[i] = ByteField(bytes[i])
  BY <1>5, RawFields
<1> QED
  BY <1>5, <1>6

\* The amount goes behind other fields.
LEMMA AmountLast ==
    ASSUME NEW fields \in Seq(Field), NEW amount \in Int
    PROVE  LET data == fields \o <<AmountField(amount)>>
           IN  /\ Len(data) = Len(fields) + 1
               /\ \A i \in 1..Len(fields) : data[i] = fields[i]
               /\ data[Len(fields) + 1] = AmountField(amount)
<1>1. <<AmountField(amount)>> \in Seq(Field)
  BY FieldParts
<1>2. Len(fields) \in Nat
  BY LenProperties
<1> QED
  BY <1>1, <1>2, ConcatProperties

\* The market the fund decodes.
LEMMA Selected ==
    ASSUME NEW data, NEW m, NEW a, NEW b, m \in Digit \X Digit,
           data[1] = ByteField(a), data[2] = ByteField(b), Selects(data, m)
    PROVE  <<a, b>> = m
<1>1. ByteField(a) = ByteField(m[1]) /\ ByteField(b) = ByteField(m[2])
  BY Zenon DEF Selects, ByteField
<1>2. a = m[1] /\ b = m[2]
  BY <1>1, FieldParts
<1> QED
  BY <1>2

\* A number behind the market index is read as it is.
LEMMA AmountFound ==
    ASSUME NEW data, NEW n, Len(data) >= 3, data[3] = AmountField(n)
    PROVE  AmountRead(data) = Ok(n)
BY FieldParts DEF AmountRead

\* initialize_insurance_fund_stake finds the market that was named, and reports 0.
LEMMA InitializeSends ==
    ASSUME NEW user, NEW amount \in Int, NEW extra \in Seq(Int), NEW m \in Digit \X Digit,
           Sends("initialize_insurance_fund_stake", "deposit", user, amount, extra, m)
    PROVE  /\ Named(extra) = m
           /\ Handled("deposit", user, amount, extra).amount = 0
<1> DEFINE call == DriftCall(user, amount, extra)
           out == Handled("deposit", user, amount, extra)
<1>1. out = Drift!Deposit(call)
  BY DEF Handled, DriftCall
<1>2. out.kind = "invoke" /\ out.fn = "initialize_insurance_fund_stake" /\ Selects(out.data, m)
  BY DEF Sends
<1>3. Drift!HasSelector(call) /\ extra # <<>>
  BY <1>1, <1>2 DEF Drift!Deposit, Drift!HasSelector, Drift!Reject, DriftCall
<1>4. out = Drift!InitializeStake(call)
  BY <1>1, <1>2, <1>3 DEF Drift!Deposit, Drift!DepositFunction, Drift!Spot, Drift!AddStake,
     Drift!InitializeStake, Drift!Invoke, Drift!Panic, Drift!Reject
<1>5. out.data = Drift!Raw(Drift!From(extra, 1)) /\ out.amount = 0
  BY <1>4 DEF Drift!InitializeStake, Drift!Invoke, DriftCall
<1>6. Len(out.data) = Len(extra) - 1 /\ Len(out.data) >= 2 /\ Len(extra) \in Nat
  BY <1>2, <1>3, <1>5, BytesFromSelector, LenProperties DEF Selects
<1>7. out.data[1] = ByteField(extra[2]) /\ out.data[2] = ByteField(extra[3])
  <2>1. \A i \in 1..(Len(extra) - 1) : out.data[i] = ByteField(extra[i + 1])
    BY <1>3, <1>5, BytesFromSelector
  <2> QED
    BY <1>6, <2>1
<1> QED
  BY <1>2, <1>5, <1>7, Selected DEF Named

\* add_insurance_fund_stake finds the market that was named and, when extra_data ends
\* there, the amount of the call, which is reported.
LEMMA AddSends ==
    ASSUME NEW user, NEW amount \in Int, NEW extra \in Seq(Int), NEW m \in Digit \X Digit,
           extra # <<>> /\ extra[1] = 1 => Len(extra) <= 3,
           Sends("add_insurance_fund_stake", "deposit", user, amount, extra, m)
    PROVE  LET out == Handled("deposit", user, amount, extra)
           IN  /\ Named(extra) = m
               /\ out.amount = amount
               /\ AmountRead(out.data) = Ok(amount)
<1> DEFINE call == DriftCall(user, amount, extra)
           out == Handled("deposit", user, amount, extra)
           rest == Drift!Raw(Drift!From(extra, 1))
<1>1. out = Drift!Deposit(call)
  BY DEF Handled, DriftCall
<1>2. out.kind = "invoke" /\ out.fn = "add_insurance_fund_stake" /\ Selects(out.data, m)
  BY DEF Sends
<1>3. Drift!HasSelector(call) /\ extra # <<>>
  BY <1>1, <1>2 DEF Drift!Deposit, Drift!HasSelector, Drift!Reject, DriftCall
<1>4. out = Drift!AddStake(call) /\ extra[1] = 1
  BY <1>1, <1>2, <1>3 DEF Drift!Deposit, Drift!DepositFunction, Drift!Spot, Drift!AddStake,
     Drift!InitializeStake, Drift!Invoke, Drift!Panic, Drift!Reject,
     DriftCall
<1>5. out.data = rest \o <<AmountField(amount)>> /\ out.amount = amount
  BY <1>4 DEF Drift!AddStake, Drift!Invoke, Drift!Amount, DriftCall, AmountField
<1>6. /\ rest \in Seq(Field) /\ Len(rest) = Len(extra) - 1 /\ Len(extra) \in Nat
      /\ \A i \in 1..(Len(extra) - 1) : rest[i] = ByteField(extra[i + 1])
  BY <1>3, BytesFromSelector, LenProperties
<1>7. /\ Len(out.data) = Len(extra)
      /\ out.data[Len(extra)] = AmountField(amount)
      /\ \A i \in 1..(Len(extra) - 1) : out.data[i] = ByteField(extra[i + 1])
  <2>1. /\ Len(out.data) = Len(rest) + 1
        /\ out.data[Len(rest) + 1] = AmountField(amount)
        /\ \A i \in 1..Len(rest) : out.data[i] = rest[i]
    BY <1>5, <1>6, AmountLast
  <2> QED
    BY <1>6, <2>1
<1>8. Len(extra) >= 2 /\ out.data[2].is = "byte"
  BY <1>2, <1>7 DEF Selects
<1>9. Len(extra) >= 3
  <2>1. Len(extra) # 2
    BY <1>7, <1>8, FieldParts
  <2> QED
    BY <1>6, <1>8, <2>1
<1>10. Named(extra) = m
  <2>1. out.data[1] = ByteField(extra[2]) /\ out.data[2] = ByteField(extra[3])
    <3>1. 1 \in 1..(Len(extra) - 1) /\ 2 \in 1..(Len(extra) - 1)
      BY <1>6, <1>9
    <3>2. \A i \in 1..(Len(extra) - 1) : out.data[i] = ByteField(extra[i + 1])
      BY <1>7
    <3> HIDE DEF out
    <3> QED
      BY <3>1, <3>2
  <2> QED
    BY <1>2, <2>1, Selected DEF Named
<1>11. AmountRead(out.data) = Ok(amount)
  <2>1. Len(extra) = 3
    BY <1>3, <1>4, <1>6, <1>9
  <2> QED
    BY <1>7, <2>1, AmountFound
<1> QED
  BY <1>5, <1>10, <1>11

\* request_remove_insurance_fund_stake finds the market that was named and the
\* amount of the call, whatever follows in extra_data.
LEMMA RequestRemoveSends ==
    ASSUME NEW user, NEW amount \in Int, NEW extra \in Seq(Int), NEW m \in Digit \X Digit,
           Sends("request_remove_insurance_fund_stake", "withdraw", user, amount, extra, m)
    PROVE  LET out == Handled("withdraw", user, amount, extra)
           IN  /\ Named(extra) = m
               /\ out.amount = amount
               /\ AmountRead(out.data) = Ok(amount)
<1> DEFINE call == DriftCall(user, amount, extra)
           out == Handled("withdraw", user, amount, extra)
           index == Drift!Raw(Drift!MarketIndex(extra))
<1>1. out = Drift!Withdraw(call)
  BY DEF Handled, DriftCall
<1>2. /\ out.kind = "invoke" /\ out.fn = "request_remove_insurance_fund_stake"
      /\ Selects(out.data, m)
  BY DEF Sends
<1>3. Drift!HasSelector(call)
  BY <1>1, <1>2 DEF Drift!Withdraw, Drift!Reject
<1>4. out = Drift!RequestRemoveStake(call)
  BY <1>1, <1>2, <1>3 DEF Drift!Withdraw, Drift!WithdrawFunction, Drift!Spot,
     Drift!RequestRemoveStake, Drift!RemoveStake, Drift!Invoke, Drift!Panic, Drift!Reject
<1>5. Len(extra) >= 3
  BY <1>2, <1>4 DEF Drift!RequestRemoveStake, Drift!Panic, DriftCall
<1>6. out.data = index \o <<AmountField(amount)>> /\ out.amount = amount
  BY <1>4, <1>5 DEF Drift!RequestRemoveStake, Drift!Invoke, Drift!Amount, DriftCall, AmountField
<1>7. /\ index \in Seq(Field) /\ Len(index) = 2
      /\ index[1] = ByteField(extra[2]) /\ index[2] = ByteField(extra[3])
  BY <1>5, BytesOfMarketIndex
<1>8. /\ Len(out.data) = 3 /\ out.data[3] = AmountField(amount)
      /\ out.data[1] = index[1] /\ out.data[2] = index[2]
  <2>1. /\ Len(out.data) = Len(index) + 1
        /\ \A i \in 1..Len(index) : out.data[i] = index[i]
        /\ out.data[Len(index) + 1] = AmountField(amount)
    BY <1>6, <1>7, AmountLast
  <2> QED
    BY <1>7, <2>1
<1>9. Named(extra) = m
  BY <1>2, <1>7, <1>8, Selected DEF Named
<1>10. AmountRead(out.data) = Ok(amount)
  BY <1>8, AmountFound
<1> QED
  BY <1>6, <1>9, <1>10

\* remove_insurance_fund_stake finds the market that was named, and reports 0.
LEMMA RemoveSends ==
    ASSUME NEW user, NEW amount \in Int, NEW extra \in Seq(Int), NEW m \in Digit \X Digit,
           Sends("remove_insurance_fund_stake", "withdraw", user, amount, extra, m)
    PROVE  /\ Named(extra) = m
           /\ Handled("withdraw", user, amount, extra).amount = 0
<1> DEFINE call == DriftCall(user, amount, extra)
           out == Handled("withdraw", user, amount, extra)
<1>1. out = Drift!Withdraw(call)
  BY DEF Handled, DriftCall
<1>2. out.kind = "invoke" /\ out.fn = "remove_insurance_fund_stake" /\ Selects(out.data, m)
  BY DEF Sends
<1>3. Drift!HasSelector(call)
  BY <1>1, <1>2 DEF Drift!Withdraw, Drift!Reject
<1>4. out = Drift!RemoveStake(call)
  BY <1>1, <1>2, <1>3 DEF Drift!Withdraw, Drift!WithdrawFunction, Drift!Spot,
     Drift!RequestRemoveStake, Drift!RemoveStake, Drift!Invoke, Drift!Panic, Drift!Reject
<1>5. Len(extra) >= 3
  BY <1>2, <1>4 DEF Drift!RemoveStake, Drift!Panic, DriftCall
<1>6. out.data = Drift!Raw(Drift!MarketIndex(extra)) /\ out.amount = 0
  BY <1>4, <1>5 DEF Drift!RemoveStake, Drift!Invoke, DriftCall
<1>7. Named(extra) = m
  BY <1>2, <1>5, <1>6, BytesOfMarketIndex, Selected DEF Named
<1> QED
  BY <1>6, <1>7

---------------------------------------------------------------------------
(***************************************************************************)
(* The inductive invariant: what is on its way out is never more than is   *)
(* staked, and the events tell the difference.                             *)
(***************************************************************************)
Covers(s) == s # NoStake => s.requested <= s.staked

Left(s) == IF s = NoStake THEN 0 ELSE s.staked - s.requested

Booked(s, t) == Covers(s) /\ t = Left(s)

\* The accounts have their types.
TypeOK ==
    /\ view \in View
    /\ wallet \in [Users -> Nat]
    /\ stake \in [Users -> [Markets -> Stake \cup {NoStake}]]
    /\ told \in [Users -> [Markets -> Int]]

IInv ==
    /\ TypeOK
    /\ \A u \in Users, m \in Markets : Booked(stake[u][m], told[u][m])

\* The calls clients make.
LEMMA CallTypes ==
    /\ \A extra \in DepositExtras \cup WithdrawExtras : extra \in Seq(Int)
    /\ \A amount \in Amounts : amount \in Int
    /\ \A m \in Markets : m \in Digit \X Digit
<1>1. \A extra \in Seq(Digit) : extra \in Seq(Int)
  BY DigitIsInt, SeqMonotonic
<1>2. \A amount \in Value : amount \in Int
  BY DataAssumption
<1> QED
  BY <1>1, <1>2, StakeAssumption

\* A step that keeps one stake's books right keeps all right.
LEMMA OneStake ==
    ASSUME IInv, NEW u \in Users, NEW m \in Markets,
           NEW s \in Stake, NEW t \in Int, Booked(s, t),
           stake' = [stake EXCEPT ![u][m] = s],
           told' = [told EXCEPT ![u][m] = t],
           wallet' \in [Users -> Nat], view' = view
    PROVE  IInv'
<1>1. stake' \in [Users -> [Markets -> Stake \cup {NoStake}]]
  BY DEF IInv, TypeOK
<1>2. told' \in [Users -> [Markets -> Int]]
  BY DEF IInv, TypeOK
<1>3. ASSUME NEW v \in Users, NEW n \in Markets
      PROVE  Booked(stake'[v][n], told'[v][n])
  <2>1. CASE v = u /\ n = m
    <3>1. stake'[v][n] = s /\ told'[v][n] = t
      BY <2>1 DEF IInv, TypeOK
    <3> QED
      BY <3>1
  <2>2. CASE ~(v = u /\ n = m)
    <3>1. stake'[v][n] = stake[v][n] /\ told'[v][n] = told[v][n]
      BY <2>2 DEF IInv, TypeOK
    <3> QED
      BY <3>1 DEF IInv
  <2> QED
    BY <2>1, <2>2
<1>4. TypeOK'
  BY <1>1, <1>2 DEF IInv, TypeOK
<1> QED
  BY <1>3, <1>4, Zenon DEF IInv

\* The books of one stake before the step.
LEMMA OldBooks ==
    ASSUME IInv, NEW u \in Users, NEW m \in Markets
    PROVE  /\ stake[u][m] \in Stake \cup {NoStake}
           /\ told[u][m] \in Int
           /\ Booked(stake[u][m], told[u][m])
BY DEF IInv, TypeOK

LEMMA InitialBooks == Init => IInv
<1> SUFFICES ASSUME Init PROVE IInv
  OBVIOUS
<1> DEFINE entry == [authority |-> OWNER, program_id |-> DRIFT,
                     supported_mint |-> MINT, status |-> Active]
<1>1. entry \in Entry
  BY StakeAssumption DEF Entry, Byte, Active
<1>2. view.adapters \in [Pda -> Entry \cup {NoEntry}]
  BY <1>1 DEF Init
<1>3. view \in View
  BY <1>2, KeyAssumption DEF Init, View
<1>4. TypeOK
  BY <1>3, StakeAssumption DEF Init, TypeOK
<1>5. \A u \in Users, m \in Markets : stake[u][m] = NoStake /\ told[u][m] = 0
  BY DEF Init
<1> QED
  BY <1>4, <1>5 DEF IInv, Booked, Covers, Left

LEMMA InitializeKeepsBooks ==
    ASSUME IInv, NEW u \in Users, NEW amount \in Amounts, NEW extra \in DepositExtras,
           Initialize(u, amount, extra)
    PROVE  IInv'
<1> DEFINE out == Handled("deposit", u, amount, extra)
           s == [staked |-> 0, requested |-> 0, cooled |-> FALSE]
<1>1. PICK m \in Markets : /\ Selects(out.data, m)
                           /\ stake[u][m] = NoStake
                           /\ stake' = [stake EXCEPT ![u][m] = s]
                           /\ Tells(u, extra, out.amount)
  BY Zenon DEF Initialize
<1>2. Named(extra) = m /\ out.amount = 0
  <2>1. Sends("initialize_insurance_fund_stake", "deposit", u, amount, extra, m)
    BY <1>1, Zenon DEF Initialize, Invokes, Sends
  <2> QED
    BY <2>1, CallTypes, InitializeSends
<1> DEFINE t == told[u][m] + 0
<1>3. told' = [told EXCEPT ![u][m] = t]
  BY <1>1, <1>2 DEF Tells
<1>4. s \in Stake /\ t \in Int /\ Booked(s, t)
  BY <1>1, OldBooks DEF Booked, Covers, Left, Stake
<1>5. wallet' \in [Users -> Nat] /\ view' = view
  BY DEF Initialize, IInv, TypeOK
<1> QED
  BY <1>1, <1>3, <1>4, <1>5, OneStake

LEMMA AddKeepsBooks ==
    ASSUME IInv, AddsNameTheMarketOnly,
           NEW u \in Users, NEW amount \in Amounts, NEW extra \in DepositExtras,
           Add(u, amount, extra)
    PROVE  IInv'
<1> DEFINE out == Handled("deposit", u, amount, extra)
           read == AmountRead(out.data)
<1>1. PICK m \in Markets :
          /\ CanAdd(u, amount, extra, m)
          /\ stake' = [stake EXCEPT ![u][m].staked = stake[u][m].staked + read.value]
          /\ wallet' = [wallet EXCEPT ![u] = wallet[u] - read.value]
          /\ Tells(u, extra, out.amount)
  BY Zenon DEF Add
<1>2. /\ Invokes("add_insurance_fund_stake", "deposit", u, amount, extra)
      /\ Selects(out.data, m)
      /\ stake[u][m] # NoStake
      /\ Covered(read, wallet[u])
  BY <1>1, Zenon DEF CanAdd
<1>3. Named(extra) = m /\ out.amount = amount /\ read = Ok(amount)
  <2>1. Sends("add_insurance_fund_stake", "deposit", u, amount, extra, m)
    BY <1>2, Zenon DEF Invokes, Sends
  <2>2. extra \in Seq(Int) /\ amount \in Int /\ m \in Digit \X Digit
    BY CallTypes
  <2>3. AddsNameTheMarketOnly => (extra # <<>> /\ extra[1] = 1 => Len(extra) <= 3)
    BY Zenon DEF AddsNameTheMarketOnly
  <2> QED
    BY <2>1, <2>2, <2>3, AddSends
<1> DEFINE old == stake[u][m]
           s == [staked |-> old.staked + read.value,
                 requested |-> old.requested, cooled |-> old.cooled]
           t == told[u][m] + amount
<1>4. old \in Stake /\ wallet[u] \in Nat /\ wallet \in [Users -> Nat]
  BY <1>2, OldBooks DEF IInv, TypeOK
<1>5. read.value \in Nat /\ wallet[u] - read.value \in Nat
  BY <1>2, <1>4 DEF Covered
<1>6. stake' = [stake EXCEPT ![u][m] = s]
  <2>1. s = [old EXCEPT !.staked = old.staked + read.value]
    BY <1>4 DEF Stake
  <2> QED
    BY <1>1, <2>1
<1>7. told' = [told EXCEPT ![u][m] = t]
  BY <1>1, <1>3 DEF Tells
<1>8. s \in Stake /\ t \in Int
  <2>1. told[u][m] \in Int /\ amount \in Int
    BY OldBooks, CallTypes, Zenon
  <2>2. t \in Int
    BY <2>1
  <2>3. old.staked + read.value \in Nat
    BY <1>4, <1>5 DEF Stake
  <2> QED
    BY <1>4, <2>2, <2>3 DEF Stake
<1>9. Booked(s, t)
  <2>1. Covers(s)
    <3>1. old.requested <= old.staked
      BY <1>2, OldBooks, Zenon DEF Booked, Covers
    <3>2. s.requested <= s.staked
      BY <1>4, <1>5, <3>1 DEF Stake
    <3> QED
      BY <3>2 DEF Covers
  <2>2. t = s.staked - s.requested
    <3>1. read.value = amount
      BY <1>3 DEF Ok
    <3>2. told[u][m] = old.staked - old.requested
      BY <1>2, OldBooks DEF Booked, Left
    <3> QED
      BY <1>4, <3>1, <3>2, CallTypes DEF Stake
  <2>3. s # NoStake
    BY <1>8, StakeAssumption
  <2> QED
    BY <2>1, <2>2, <2>3 DEF Booked, Left
<1>10. wallet' \in [Users -> Nat] /\ view' = view
  BY <1>1, <1>4, <1>5 DEF Add
<1> QED
  BY <1>6, <1>7, <1>8, <1>9, <1>10, OneStake

LEMMA RequestRemoveKeepsBooks ==
    ASSUME IInv, NEW u \in Users, NEW amount \in Amounts, NEW extra \in WithdrawExtras,
           RequestRemove(u, amount, extra)
    PROVE  IInv'
<1> DEFINE out == Handled("withdraw", u, amount, extra)
           read == AmountRead(out.data)
<1>1. PICK m \in Markets :
          /\ Selects(out.data, m)
          /\ stake[u][m] # NoStake
          /\ stake[u][m].requested = 0
          /\ Covered(read, stake[u][m].staked)
          /\ stake' = [stake EXCEPT ![u][m].requested = read.value]
          /\ Tells(u, extra, -out.amount)
  BY Zenon DEF RequestRemove
<1>2. Named(extra) = m /\ out.amount = amount /\ read = Ok(amount)
  <2>1. Sends("request_remove_insurance_fund_stake", "withdraw", u, amount, extra, m)
    BY <1>1, Zenon DEF RequestRemove, Invokes, Sends
  <2> QED
    BY <2>1, CallTypes, RequestRemoveSends
<1> DEFINE old == stake[u][m]
           s == [staked |-> old.staked, requested |-> amount, cooled |-> old.cooled]
           t == told[u][m] + (-amount)
<1>3. old \in Stake
  BY <1>1, OldBooks
<1>4. read.value = amount /\ amount \in Nat /\ amount <= old.staked
  BY <1>1, <1>2, <1>3 DEF Covered, Ok, Stake
<1>5. stake' = [stake EXCEPT ![u][m] = s]
  <2>1. s = [old EXCEPT !.requested = amount]
    BY <1>3 DEF Stake
  <2> QED
    BY <1>1, <1>4, <2>1
<1>6. told' = [told EXCEPT ![u][m] = t]
  BY <1>1, <1>2 DEF Tells
<1>7. s \in Stake /\ t \in Int
  <2>1. told[u][m] \in Int /\ amount \in Int
    BY OldBooks, CallTypes, Zenon
  <2>2. t \in Int
    BY <2>1
  <2> QED
    BY <1>3, <1>4, <2>2 DEF Stake
<1>8. Booked(s, t)
  <2>1. Covers(s)
    BY <1>4 DEF Covers
  <2>2. t = s.staked - s.requested
    <3>1. told[u][m] = old.staked - old.requested
      BY <1>1, OldBooks DEF Booked, Left
    <3> QED
      BY <1>1, <1>3, <1>4, <3>1 DEF Stake
  <2>3. s # NoStake
    BY <1>7, StakeAssumption
  <2> QED
    BY <2>1, <2>2, <2>3 DEF Booked, Left
<1>9. wallet' \in [Users -> Nat] /\ view' = view
  BY DEF RequestRemove, IInv, TypeOK
<1> QED
  BY <1>5, <1>6, <1>7, <1>8, <1>9, OneStake

LEMMA CooldownKeepsBooks ==
    ASSUME IInv, NEW u \in Users, NEW m \in Markets, Cooldown(u, m)
    PROVE  IInv'
<1> DEFINE old == stake[u][m]
           s == [staked |-> old.staked, requested |-> old.requested, cooled |-> TRUE]
<1>1. old # NoStake /\ old \in Stake
  BY OldBooks DEF Cooldown, Requested
<1>2. stake' = [stake EXCEPT ![u][m] = s]
  <2>1. \A c \in BOOLEAN :
           [old EXCEPT !.cooled = c] =
              [staked |-> old.staked, requested |-> old.requested, cooled |-> c]
    BY <1>1 DEF Stake
  <2> QED
    BY <2>1 DEF Cooldown
<1>3. told' = [told EXCEPT ![u][m] = told[u][m]]
  BY DEF Cooldown, IInv, TypeOK
<1>4. s \in Stake
  BY <1>1 DEF Stake
<1>5. Booked(s, told[u][m])
  <2>1. s # NoStake
    BY <1>4, StakeAssumption
  <2>2. s.staked = old.staked /\ s.requested = old.requested
    OBVIOUS
  <2>3. Booked(old, told[u][m])
    BY OldBooks, Zenon
  <2> QED
    BY <1>1, <2>1, <2>2, <2>3 DEF Booked, Covers, Left
<1>6. wallet' \in [Users -> Nat] /\ view' = view /\ told[u][m] \in Int
  BY OldBooks DEF Cooldown, IInv, TypeOK
<1> QED
  BY <1>2, <1>3, <1>4, <1>5, <1>6, OneStake

LEMMA RemoveKeepsBooks ==
    ASSUME IInv, NEW u \in Users, NEW amount \in Amounts, NEW extra \in WithdrawExtras,
           Remove(u, amount, extra)
    PROVE  IInv'
<1> DEFINE out == Handled("withdraw", u, amount, extra)
<1>1. PICK m \in Markets :
          /\ Selects(out.data, m)
          /\ Requested(u, m)
          /\ stake' = [stake EXCEPT ![u][m] =
                          [staked |-> stake[u][m].staked - stake[u][m].requested,
                           requested |-> 0, cooled |-> FALSE]]
          /\ wallet' = [wallet EXCEPT ![u] = wallet[u] + stake[u][m].requested]
          /\ Tells(u, extra, -out.amount)
  BY Zenon DEF Remove
<1>2. Named(extra) = m /\ out.amount = 0
  <2>1. Sends("remove_insurance_fund_stake", "withdraw", u, amount, extra, m)
    BY <1>1, Zenon DEF Remove, Invokes, Sends
  <2> QED
    BY <2>1, CallTypes, RemoveSends
<1> DEFINE old == stake[u][m]
           s == [staked |-> old.staked - old.requested, requested |-> 0, cooled |-> FALSE]
           t == told[u][m] + (-0)
<1>3. old # NoStake /\ old \in Stake
  BY <1>1, OldBooks DEF Requested
<1>4. old.requested <= old.staked
  BY <1>3, OldBooks, Zenon DEF Booked, Covers
<1>5. told' = [told EXCEPT ![u][m] = t]
  BY <1>1, <1>2 DEF Tells
<1>6. s \in Stake
  BY <1>3, <1>4 DEF Stake
<1>7. t \in Int
  <2>1. told[u][m] \in Int
    BY OldBooks, Zenon
  <2> QED
    BY <2>1
<1>8. Booked(s, t)
  <2>1. Covers(s)
    BY <1>3, <1>4 DEF Covers, Stake
  <2>2. t = s.staked - s.requested
    <3>1. told[u][m] = old.staked - old.requested
      BY <1>3, OldBooks DEF Booked, Left
    <3> QED
      BY <1>3, <3>1 DEF Stake
  <2>3. s # NoStake
    BY <1>6, StakeAssumption
  <2> QED
    BY <2>1, <2>2, <2>3 DEF Booked, Left
<1>9. wallet' \in [Users -> Nat] /\ view' = view
  BY <1>1, <1>3 DEF Remove, IInv, TypeOK, Stake
<1> QED
  BY <1>1, <1>5, <1>6, <1>7, <1>8, <1>9, OneStake

LEMMA ToggleKeepsBooks ==
    ASSUME IInv, ToggleAdapter
    PROVE  IInv'
<1> DEFINE old == view.adapters[EntryPda]
           new == [old EXCEPT !.status = NextStatus(old.status)]
<1>1. EntryPda \in Pda
  BY StakeAssumption DEF EntryPda, Pda
<1>2. view \in View /\ old \in Entry
  BY <1>1 DEF IInv, TypeOK, ToggleAdapter, CanToggle, RoutedCall, View
<1>3. new \in Entry
  BY <1>2 DEF Entry, NextStatus, Byte, Active, Paused
<1>4. view' = [view EXCEPT !.adapters[EntryPda] = new]
  BY <1>1, <1>2 DEF ToggleAdapter, Toggle, RoutedCall, View
<1>5. view' \in View
  BY <1>1, <1>2, <1>3, <1>4 DEF View
<1> QED
  BY <1>5 DEF ToggleAdapter, IInv, TypeOK

LEMMA StepKeepsBooks == AddsNameTheMarketOnly /\ IInv /\ [Next]_vars => IInv'
<1> SUFFICES ASSUME AddsNameTheMarketOnly, IInv, [Next]_vars PROVE IInv'
  OBVIOUS
<1>1. CASE UNCHANGED vars
  BY <1>1 DEF vars, IInv, TypeOK
<1>2. CASE \E u \in Users, amount \in Amounts, extra \in DepositExtras :
             Initialize(u, amount, extra) \/ Add(u, amount, extra)
  BY <1>2, InitializeKeepsBooks, AddKeepsBooks, Zenon
<1>3. CASE \E u \in Users, amount \in Amounts, extra \in WithdrawExtras :
             RequestRemove(u, amount, extra) \/ Remove(u, amount, extra)
  BY <1>3, RequestRemoveKeepsBooks, RemoveKeepsBooks, Zenon
<1>4. CASE \E u \in Users, m \in Markets : Cooldown(u, m)
  BY <1>4, CooldownKeepsBooks, Zenon
<1>5. CASE ToggleAdapter
  BY <1>5, ToggleKeepsBooks, Zenon
<1> QED
  BY <1>1, <1>2, <1>3, <1>4, <1>5, Zenon DEF Next

---------------------------------------------------------------------------
\* As long as no client passes add_insurance_fund_stake more than the market index,
\* the adapter's events about a user and a market add up to the stake that is not
\* on its way out: through initialization, addition, request, cooldown and removal,
\* whatever extra_data the other three are given, in any order, with the adapter
\* paused and resumed between.
THEOREM EventsAlwaysAccountForStake ==
    ASSUME AddsNameTheMarketOnly
    PROVE  Spec => []EventsAccountForStake
<1>1. IInv => EventsAccountForStake
  BY DEF IInv, Booked, Left, EventsAccountForStake, StakeOf
<1>2. IInv /\ [Next]_vars => IInv'
  BY StepKeepsBooks
<1> QED
  BY InitialBooks, <1>1, <1>2, PTL DEF Spec
=============================================================================
