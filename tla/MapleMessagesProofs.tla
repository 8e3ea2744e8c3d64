------------------------ MODULE MapleMessagesProofs ------------------------
(***************************************************************************)
(* No tokens move through the Maple adapter: for all users, amounts and    *)
(* messages.                                                               *)
(***************************************************************************)
EXTENDS MapleMessages, SequenceTheorems, TLAPS

\* A message with tokens is too long.
LEMMA TokensAreLong ==
    ASSUME NEW m \in Message, m.tokens # 0
    PROVE  Size(m) >= EXTRA_DATA_MAX_LEN
<1>1. m.receiver \in Nat /\ m.data \in Nat /\ m.tokens \in Nat
      /\ m.extra_args \in Nat /\ m.token_indexes \in Nat
  BY DEF Message
<1>2. m.tokens >= 1
  BY <1>1
<1>3. 40 * m.tokens >= 40
  BY <1>1, <1>2
<1> QED
  BY <1>1, <1>3 DEF Size, Vec, TokenAmount, EXTRA_DATA_MAX_LEN

\* So whatever passes the dispatcher takes nothing.
LEMMA PassedTakesNothing ==
    ASSUME NEW op \in Moves, NEW u \in Users, NEW amount \in Amounts, NEW m \in Messages,
           Routable(op, u, amount, m)
    PROVE  m \in Message /\ m.amount = 0
<1>1. m \in Message
  BY MessageAssumption
<1>2. Size(m) \in Nat
  BY <1>1 DEF Message, Size, Vec, TokenAmount
<1>3. Len(ExtraData(m)) = 1 + Size(m)
  BY <1>2 DEF ExtraData
<1>4. Len(ExtraData(m)) <= EXTRA_DATA_MAX_LEN
  BY DEF Routable, CanRoute, RoutedCall, Moves
<1>5. m.tokens = 0
  BY <1>1, <1>2, <1>3, <1>4, TokensAreLong DEF EXTRA_DATA_MAX_LEN
<1> QED
  BY <1>1, <1>5 DEF Message

---------------------------------------------------------------------------
\* Nothing is on its way that could bring tokens back.
IInv ==
    /\ TypeOK
    /\ TokensNeverMove
    /\ \A i \in DOMAIN lane : lane[i].amount = 0

LEMMA Initially == Init => IInv
<1> SUFFICES ASSUME Init PROVE IInv
  OBVIOUS
<1> DEFINE entry == [authority |-> OWNER, program_id |-> MAPLE,
                     supported_mint |-> MINT, status |-> Active]
<1>1. entry \in Entry
  BY MessageAssumption DEF Entry, Byte, Active
<1>2. view.adapters \in [Pda -> Entry \cup {NoEntry}]
  BY <1>1 DEF Init
<1>3. view \in View
  BY <1>2, KeyAssumption DEF Init, View
<1>4. wallet \in [Users -> [Moves -> Nat]]
  BY MessageAssumption DEF Init
<1>5. lane \in Seq(Sent) /\ Len(lane) <= MaxInFlight /\ DOMAIN lane = {}
  BY MessageAssumption, EmptySeq DEF Init
<1>6. refused \in Request \cup {NoRequest}
  BY DEF Init
<1> QED
  BY <1>3, <1>4, <1>5, <1>6 DEF Init, IInv, TypeOK, TokensNeverMove

\* Taking nothing from, or adding nothing to, a wallet.
LEMMA WalletStays ==
    ASSUME IInv, NEW u \in Users, NEW op \in Moves,
           wallet' = [wallet EXCEPT ![u][op] = Funds]
    PROVE  wallet' = wallet
BY DEF IInv, TokensNeverMove

LEMMA SendStep ==
    ASSUME IInv, NEW op \in Moves, NEW u \in Users, NEW amount \in Amounts,
           NEW m \in Messages, Send(op, u, amount, m)
    PROVE  IInv'
<1> DEFINE sent == [op |-> op, user |-> u, amount |-> 0]
<1>1. m.amount = 0
  BY PassedTakesNothing DEF Send
<1>2. Funds \in Nat /\ wallet[u][op] = Funds /\ MaxInFlight \in Nat
  BY MessageAssumption DEF IInv, TokensNeverMove
<1>3. wallet' = [wallet EXCEPT ![u][op] = Funds]
  <2>1. wallet[u][op] - Taken(amount, m) = Funds
    BY <1>1, <1>2 DEF Taken
  <2>2. wallet' = [wallet EXCEPT ![u][op] = wallet[u][op] - Taken(amount, m)]
    BY DEF Send
  <2> QED
    BY <2>1, <2>2, Zenon
<1>4. wallet' = wallet
  BY <1>3, WalletStays, Zenon
<1>5. lane' = Append(lane, sent) /\ Len(lane) < MaxInFlight
  BY <1>1 DEF Send, Taken
<1>6. sent \in Sent /\ lane \in Seq(Sent)
  BY DEF Sent, IInv, TypeOK
<1>7. lane' \in Seq(Sent) /\ Len(lane') <= MaxInFlight
  BY <1>2, <1>5, <1>6
<1>8. \A i \in DOMAIN lane' : lane'[i].amount = 0
  BY <1>5, <1>6 DEF IInv
<1> QED
  BY <1>4, <1>7, <1>8 DEF Send, IInv, TypeOK, TokensNeverMove

LEMMA RefuseStep ==
    ASSUME IInv, NEW op \in Moves, NEW u \in Users, NEW amount \in Amounts,
           NEW m \in Messages, Refuse(op, u, amount, m)
    PROVE  IInv'
BY DEF Refuse, IInv, TypeOK, TokensNeverMove, Request

\* The part of a sequence before, and the part after, one of its elements.
LEMMA Part ==
    ASSUME NEW S, NEW s \in Seq(S), NEW i \in 1..Len(s)
    PROVE  /\ SubSeq(s, 1, i - 1) \in Seq(S)
           /\ Len(SubSeq(s, 1, i - 1)) = i - 1
           /\ \A j \in 1..(i - 1) : SubSeq(s, 1, i - 1)[j] = s[j]
           /\ SubSeq(s, i + 1, Len(s)) \in Seq(S)
           /\ Len(SubSeq(s, i + 1, Len(s))) = Len(s) - i
           /\ \A j \in 1..(Len(s) - i) : SubSeq(s, i + 1, Len(s))[j] = s[i + j]
BY SMTT(30)

\* Both parts together: the sequence without the element.
LEMMA Without ==
    ASSUME NEW S, NEW s \in Seq(S), NEW i \in 1..Len(s)
    PROVE  LET t == SubSeq(s, 1, i - 1) \o SubSeq(s, i + 1, Len(s))
           IN  /\ t \in Seq(S) /\ Len(t) = Len(s) - 1
               /\ \A j \in 1..Len(t) : t[j] = IF j < i THEN s[j] ELSE s[j + 1]
<1> DEFINE a == SubSeq(s, 1, i - 1)
           b == SubSeq(s, i + 1, Len(s))
           t == a \o b
<1>1. Len(s) \in Nat /\ i \in 1..Len(s)
  BY LenProperties
<1>2. /\ a \in Seq(S) /\ Len(a) = i - 1
      /\ \A j \in 1..(i - 1) : a[j] = s[j]
  BY Part, Zenon
<1>3. /\ b \in Seq(S) /\ Len(b) = Len(s) - i
      /\ \A j \in 1..(Len(s) - i) : b[j] = s[i + j]
  BY Part, Zenon
<1> HIDE DEF a, b
<1>4. t \in Seq(S) /\ Len(t) = Len(a) + Len(b)
  BY <1>2, <1>3, ConcatProperties, Zenon
<1>5. \A j \in 1..(Len(a) + Len(b)) : t[j] = IF j <= Len(a) THEN a[j] ELSE b[j - Len(a)]
  BY <1>2, <1>3, ConcatProperties, Zenon
<1> HIDE DEF t
<1>6. Len(t) = Len(s) - 1
  BY <1>1, <1>2, <1>3, <1>4
<1>7. ASSUME NEW j \in 1..Len(t)
      PROVE  t[j] = IF j < i THEN s[j] ELSE s[j + 1]
  <2>1. j \in 1..(Len(a) + Len(b))
    BY <1>4
  <2>2. CASE j < i
    <3>1. j \in 1..(i - 1) /\ j <= Len(a)
      BY <2>2, <1>1, <1>2
    <3>2. t[j] = a[j]
      BY <2>1, <3>1, <1>5
    <3> QED
      BY <2>2, <3>1, <3>2, <1>2
  <2>3. CASE ~(j < i)
    <3>1. ~(j <= Len(a)) /\ j - (i - 1) \in 1..(Len(s) - i) /\ i + (j - (i - 1)) = j + 1
      BY <2>3, <1>1, <1>2, <1>6
    <3>2. t[j] = b[j - (i - 1)]
      BY <2>1, <3>1, <1>5, <1>2
    <3>3. b[j - (i - 1)] = s[j + 1]
      BY <3>1, <1>3
    <3> QED
      BY <2>3, <3>2, <3>3
  <2> QED
    BY <2>2, <2>3
<1> QED
  BY <1>4, <1>6, <1>7, Zenon DEF t, a, b
LEMMA SettleStep ==
    ASSUME IInv, NEW i \in DOMAIN lane, Settle(i)
    PROVE  IInv'
<1> DEFINE other == IF lane[i].op = "deposit" THEN "withdraw" ELSE "deposit"
<1>1. lane \in Seq(Sent) /\ Len(lane) \in Nat /\ i \in 1..Len(lane)
  BY LenProperties DEF IInv, TypeOK
<1>2. lane[i] \in Sent /\ lane[i].amount = 0
  BY <1>1 DEF IInv
<1>3. lane[i].user \in Users /\ other \in Moves
  BY <1>2 DEF Sent, Moves
<1>4. Funds \in Nat /\ wallet[lane[i].user][other] = Funds /\ MaxInFlight \in Nat
  BY <1>3, MessageAssumption DEF IInv, TokensNeverMove
<1>5. wallet' = [wallet EXCEPT ![lane[i].user][other] = Funds]
  <2>1. wallet[lane[i].user][other] + lane[i].amount = Funds
    BY <1>2, <1>4
  <2>2. wallet' = [wallet EXCEPT ![lane[i].user][other] =
                      wallet[lane[i].user][other] + lane[i].amount]
    BY DEF Settle
  <2> QED
    BY <2>1, <2>2, Zenon
<1>6. wallet' = wallet
  BY <1>3, <1>5, WalletStays, Zenon
<1>7. lane' = SubSeq(lane, 1, i - 1) \o SubSeq(lane, i + 1, Len(lane))
  BY DEF Settle
<1>8. /\ lane' \in Seq(Sent) /\ Len(lane') = Len(lane) - 1
      /\ \A j \in 1..Len(lane') : lane'[j] = IF j < i THEN lane[j] ELSE lane[j + 1]
  BY <1>1, <1>7, Without, Zenon
<1>9. ASSUME NEW j \in DOMAIN lane'
      PROVE  lane'[j].amount = 0
  <2>1. j \in 1..Len(lane')
    BY <1>8, LenProperties
  <2>2. j \in 1..Len(lane) /\ j + 1 \in 1..Len(lane)
    BY <2>1, <1>1, <1>8
  <2>3. lane[j].amount = 0 /\ lane[j + 1].amount = 0
    BY <2>2, <1>1, LenProperties DEF IInv
  <2> QED
    BY <2>1, <2>3, <1>8
<1>10. Len(lane') <= MaxInFlight
  BY <1>1, <1>4, <1>8 DEF IInv, TypeOK
<1> QED
  BY <1>6, <1>8, <1>9, <1>10 DEF Settle, IInv, TypeOK, TokensNeverMove

LEMMA ToggleStep ==
    ASSUME IInv, ToggleAdapter
    PROVE  IInv'
<1> DEFINE old == view.adapters[EntryPda]
           new == [old EXCEPT !.status = NextStatus(old.status)]
<1>1. EntryPda \in Pda
  BY MessageAssumption DEF EntryPda, Pda
<1>2. view \in View /\ old \in Entry
  BY <1>1 DEF IInv, TypeOK, ToggleAdapter, CanToggle, RoutedCall, View
<1>3. new \in Entry
  BY <1>2 DEF Entry, NextStatus, Byte, Active, Paused
<1>4. view' = [view EXCEPT !.adapters[EntryPda] = new]
  BY <1>1, <1>2 DEF ToggleAdapter, Toggle, RoutedCall, View
<1>5. view' \in View
  BY <1>1, <1>2, <1>3, <1>4 DEF View
<1> QED
  BY <1>5 DEF ToggleAdapter, IInv, TypeOK, TokensNeverMove

LEMMA Step == IInv /\ [Next]_vars => IInv'
<1> SUFFICES ASSUME IInv, [Next]_vars PROVE IInv'
  OBVIOUS
<1>1. CASE UNCHANGED vars
  BY <1>1 DEF vars, IInv, TypeOK, TokensNeverMove
<1>2. CASE \E op \in Moves, u \in Users, amount \in Amounts, m \in Messages :
             Send(op, u, amount, m) \/ Refuse(op, u, amount, m)
  BY <1>2, SendStep, RefuseStep, Zenon
<1>3. CASE \E i \in DOMAIN lane : Settle(i)
  BY <1>3, SettleStep, Zenon
<1>4. CASE ToggleAdapter
  BY <1>4, ToggleStep, Zenon
<1> QED
  BY <1>1, <1>2, <1>3, <1>4, Zenon DEF Next

---------------------------------------------------------------------------
\* The accounts, wallets and messages always have their types.
THEOREM MessageTypesHold == Spec => []TypeOK
<1>1. IInv => TypeOK
  BY DEF IInv
<1> QED
  BY Initially, Step, <1>1, PTL DEF Spec

\* Whatever messages clients encode, no deposit or withdrawal through the Maple
\* adapter ever moves a token, since a message that names one is longer than the
\* extra_data the dispatcher forwards.
THEOREM NoTokenEverMoves == Spec => []TokensNeverMove
<1>1. IInv => TokensNeverMove
  BY DEF IInv
<1> QED
  BY Initially, Step, <1>1, PTL DEF Spec
=============================================================================
