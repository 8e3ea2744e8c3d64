------------------------- MODULE AccountDataProofs -------------------------
(***************************************************************************)
(* Proofs about the byte readers and the numbers that go through them, for *)
(* any base, any width of a u64, any layout of fields and any values: the  *)
(* layout has no overlaps, a number's bytes encode it, no reader slices    *)
(* outside the data, each field reads back, and an adapter's answer        *)
(* reaches the client.  What the recursive sums and Place compute is       *)
(* proved by induction over a set of numbers, Induction below.             *)
(***************************************************************************)
EXTENDS AccountData, SequenceTheorems, WellFoundedInduction, TLAPS

---------------------------------------------------------------------------
(***************************************************************************)
(* Recursion over the numbers up to a bound.                               *)
(***************************************************************************)
\* A set of numbers has a smallest member.
LEMMA SmallestOf ==
    ASSUME NEW T, T \subseteq Nat, T # {}
    PROVE  \E n \in T : \A m \in T : n <= m
  <1> DEFINE R == OpToRel(<, Nat)
  <1>1. PICK n \in T : \A m \in T : ~(<<m, n>> \in R)
    <2>1. IsWellFoundedOn(R, Nat)
      BY NatLessThanWellFounded, Zenon
    <2> HIDE DEF R
    <2> QED BY <2>1, WFMin
  <1>2. \A m \in T : ~(m < n)
    BY <1>1 DEF OpToRel
  <1> QED BY <1>2

\* A set that holds 0 and every successor of a member holds every number.
LEMMA Induction ==
    ASSUME NEW T, 0 \in T, \A n \in Nat : n \in T => n + 1 \in T
    PROVE  Nat \subseteq T
  <1> SUFFICES ASSUME Nat \ T # {} PROVE FALSE
    OBVIOUS
  <1>1. PICK n \in Nat \ T : \A m \in Nat \ T : n <= m
    BY SmallestOf
  <1>2. n # 0
    BY <1>1
  <1>3. n - 1 \in Nat /\ n - 1 \notin T
    BY <1>1, <1>2
  <1> QED BY <1>1, <1>3

\* What a recursion computes.
Follows(f, N, first, step) ==
    /\ f[0] = first
    /\ \A n \in 1..N : f[n] = step[n][f[n - 1]]

\* A recursion over the numbers up to N has a result.
LEMMA RecursionExists ==
    ASSUME NEW S, NEW first \in S, NEW N \in Nat, NEW step,
           \A n \in 1..N : step[n] \in [S -> S]
    PROVE  \E f \in [0..N -> S] : Follows(f, N, first, step)
  <1> DEFINE T == {k \in Nat : k <= N => \E f \in [0..k -> S] : Follows(f, k, first, step)}
  <1>1. 0 \in T
    <2> DEFINE f == [n \in 0..0 |-> first]
    <2>1. f \in [0..0 -> S] /\ Follows(f, 0, first, step)
      BY DEF Follows
    <2> HIDE DEF f
    <2> QED BY <2>1
  <1>2. ASSUME NEW k \in Nat, k \in T
        PROVE  k + 1 \in T
    <2> SUFFICES ASSUME k + 1 <= N
                 PROVE  \E f \in [0..(k + 1) -> S] : Follows(f, k + 1, first, step)
      OBVIOUS
    <2>1. PICK f \in [0..k -> S] : Follows(f, k, first, step)
      BY <1>2
    <2> DEFINE g == [n \in 0..(k + 1) |-> IF n = k + 1 THEN step[k + 1][f[k]] ELSE f[n]]
    <2>2. step[k + 1] \in [S -> S] /\ f[k] \in S
      OBVIOUS
    <2>3. g \in [0..(k + 1) -> S]
      BY <2>2
    <2>4. Follows(g, k + 1, first, step)
      <3>1. g[0] = first
        BY <2>1 DEF Follows
      <3>2. ASSUME NEW n \in 1..(k + 1)
            PROVE  g[n] = step[n][g[n - 1]]
        <4>1. CASE n = k + 1
          BY <4>1
        <4>2. CASE n # k + 1
          BY <2>1, <4>2 DEF Follows
        <4> QED BY <4>1, <4>2
      <3> HIDE DEF g
      <3> QED BY <3>1, <3>2 DEF Follows
    <2> HIDE DEF g
    <2> QED BY <2>3, <2>4
  <1> HIDE DEF T
  <1>3. N \in T
    BY <1>1, <1>2, Induction
  <1> USE DEF T
  <1> QED BY <1>3

\* and only one.
LEMMA RecursionUnique ==
    ASSUME NEW N \in Nat, NEW first, NEW step, NEW f, NEW g,
           Follows(f, N, first, step), Follows(g, N, first, step)
    PROVE  \A n \in 0..N : f[n] = g[n]
  <1> DEFINE T == {n \in Nat : n <= N => f[n] = g[n]}
  <1>1. 0 \in T
    BY DEF Follows
  <1>2. ASSUME NEW n \in Nat, n \in T
        PROVE  n + 1 \in T
    <2> SUFFICES ASSUME n + 1 <= N PROVE f[n + 1] = g[n + 1]
      OBVIOUS
    <2>1. f[n] = g[n]
      BY <1>2
    <2>2. n + 1 \in 1..N /\ (n + 1) - 1 = n
      OBVIOUS
    <2>3. f[n + 1] = step[n + 1][f[(n + 1) - 1]] /\ g[n + 1] = step[n + 1][g[(n + 1) - 1]]
      BY <2>2 DEF Follows
    <2> QED BY <2>1, <2>2, <2>3
  <1> HIDE DEF T
  <1>3. Nat \subseteq T
    BY <1>1, <1>2, Induction
  <1> QED BY <1>3 DEF T

FollowsForever(F, first, step) ==
    /\ F[0] = first
    /\ \A n \in Nat : F[n + 1] = step[n + 1][F[n]]

\* A recursion over all numbers has a result: at n, what the recursion up to n has.
LEMMA RecursionOverNat ==
    ASSUME NEW S, NEW first \in S, NEW step, \A n \in Nat : step[n] \in [S -> S]
    PROVE  \E F \in [Nat -> S] : FollowsForever(F, first, step)
  <1> DEFINE upto == [n \in Nat |-> CHOOSE f \in [0..n -> S] : Follows(f, n, first, step)]
             F == [n \in Nat |-> upto[n][n]]
  <1>1. ASSUME NEW n \in Nat
        PROVE  upto[n] \in [0..n -> S] /\ Follows(upto[n], n, first, step)
    <2>1. \A k \in 1..n : step[k] \in [S -> S]
      OBVIOUS
    <2>2. \E f \in [0..n -> S] : Follows(f, n, first, step)
      BY <2>1, RecursionExists
    <2> QED BY <2>2
  <1> HIDE DEF upto
  <1>2. ASSUME NEW n \in Nat
        PROVE  upto[n][n] \in S
    <2>1. n \in 0..n /\ upto[n] \in [0..n -> S]
      BY <1>1
    <2> QED BY <2>1
  <1>3. F \in [Nat -> S]
    BY <1>2
  <1>4. F[0] = first
    BY <1>1 DEF Follows
  <1>5. ASSUME NEW n \in Nat
        PROVE  F[n + 1] = step[n + 1][F[n]]
    <2> DEFINE f == upto[n]
               g == upto[n + 1]
    <2>1. n + 1 \in Nat
      OBVIOUS
    <2>2. Follows(f, n, first, step) /\ Follows(g, n + 1, first, step)
      BY <1>1, <2>1
    <2>3. F[n + 1] = g[n + 1] /\ F[n] = f[n]
      BY <2>1
    <2> HIDE DEF f, g
    <2>4. Follows(g, n, first, step)
      BY <2>2 DEF Follows
    <2>5. f[n] = g[n]
      BY <2>2, <2>4, RecursionUnique
    <2>6. g[n + 1] = step[n + 1][g[(n + 1) - 1]] /\ (n + 1) - 1 = n
      BY <2>2 DEF Follows
    <2> QED BY <2>3, <2>5, <2>6
  <1> HIDE DEF F
  <1>6. FollowsForever(F, first, step)
    BY <1>4, <1>5 DEF FollowsForever
  <1> QED BY <1>3, <1>6

\* A running sum, as the readers and the offset macros write it, exists,
LEMMA RunningSumExists ==
    ASSUME NEW N \in Nat, NEW term \in [1..N -> Nat]
    PROVE  \E s : s = [n \in 0..N |-> IF n = 0 THEN 0 ELSE term[n] + s[n - 1]]
  <1> DEFINE step == [n \in 1..N |-> [x \in Nat |-> term[n] + x]]
  <1>1. \A n \in 1..N : step[n] \in [Nat -> Nat]
    OBVIOUS
  <1>2. PICK f \in [0..N -> Nat] : Follows(f, N, 0, step)
    <2> HIDE DEF step
    <2> QED BY <1>1, RecursionExists
  <1>3. \A n \in 1..N : f[n] = term[n] + f[n - 1]
    <2> SUFFICES ASSUME NEW n \in 1..N PROVE f[n] = term[n] + f[n - 1]
      OBVIOUS
    <2>1. f[n - 1] \in Nat
      OBVIOUS
    <2> QED BY <1>2, <2>1 DEF Follows
  <1>4. f[0] = 0
    BY <1>2 DEF Follows
  <1>5. f = [n \in 0..N |-> IF n = 0 THEN 0 ELSE term[n] + f[n - 1]]
    <2>1. \A n \in 0..N : f[n] = IF n = 0 THEN 0 ELSE term[n] + f[n - 1]
      BY <1>3, <1>4
    <2> QED BY <2>1
  <1> QED BY <1>5

\* and is one.
LEMMA RunningSum ==
    ASSUME NEW N \in Nat, NEW term \in [1..N -> Nat], NEW s,
           s = [n \in 0..N |-> IF n = 0 THEN 0 ELSE term[n] + s[n - 1]]
    PROVE  /\ s \in [0..N -> Nat]
           /\ s[0] = 0
           /\ \A n \in 1..N : s[n] = term[n] + s[n - 1]
  <1>1. s[0] = 0 /\ \A n \in 1..N : s[n] = term[n] + s[n - 1]
    OBVIOUS
  <1>2. \A n \in 0..N : s[n] \in Nat
    <2> DEFINE T == {n \in Nat : n <= N => s[n] \in Nat}
    <2>1. 0 \in T
      BY <1>1
    <2>2. ASSUME NEW n \in Nat, n \in T
          PROVE  n + 1 \in T
      <3> SUFFICES ASSUME n + 1 <= N PROVE s[n + 1] \in Nat
        OBVIOUS
      <3>1. s[n] \in Nat
        BY <2>2
      <3>2. n + 1 \in 1..N /\ (n + 1) - 1 = n
        OBVIOUS
      <3>3. s[n + 1] = term[n + 1] + s[(n + 1) - 1] /\ term[n + 1] \in Nat
        BY <1>1, <3>2
      <3> QED BY <3>1, <3>2, <3>3
    <2> HIDE DEF T
    <2>3. Nat \subseteq T
      BY <2>1, <2>2, Induction
    <2>4. \A n \in 0..N : n \in T
      BY <2>3
    <2> QED BY <2>4 DEF T
  <1> QED BY <1>1, <1>2

---------------------------------------------------------------------------
(***************************************************************************)
(* The values of places.                                                   *)
(***************************************************************************)
\* A digit counts BASE times what the one before it counts.
LEMMA PlaceValues ==
    /\ Place \in [Nat -> Nat \ {0}]
    /\ Place[0] = 1
    /\ \A n \in Nat : Place[n + 1] = BASE * Place[n]
  <1> DEFINE step == [n \in Nat |-> [x \in Nat |-> BASE * x]]
             Is(f) == f = [n \in Nat |-> IF n = 0 THEN 1 ELSE BASE * f[n - 1]]
  <1>1. \A n \in Nat : step[n] \in [Nat -> Nat]
    BY LayoutAssumption
  <1>2. PICK F \in [Nat -> Nat] : FollowsForever(F, 1, step)
    <2>1. 1 \in Nat
      OBVIOUS
    <2> HIDE DEF step
    <2> QED BY <1>1, <2>1, RecursionOverNat
  <1>3. F[0] = 1
    BY <1>2 DEF FollowsForever
  <1>4. ASSUME NEW n \in Nat
        PROVE  F[n + 1] = BASE * F[n]
    <2>1. F[n + 1] = step[n + 1][F[n]] /\ F[n] \in Nat /\ n + 1 \in Nat
      <3> HIDE DEF step
      <3> QED BY <1>2 DEF FollowsForever
    <2> QED BY <2>1
  <1>5. Is(F)
    <2>1. ASSUME NEW n \in Nat
          PROVE  F[n] = IF n = 0 THEN 1 ELSE BASE * F[n - 1]
      <3>1. CASE n = 0
        BY <1>3, <3>1
      <3>2. CASE n # 0
        <4>1. n - 1 \in Nat /\ (n - 1) + 1 = n
          BY <3>2
        <4> QED BY <1>4, <3>2, <4>1
      <3> QED BY <3>1, <3>2
    <2> QED BY <1>2, <2>1
  <1>6. Is(Place)
    <2> HIDE DEF Is
    <2>1. Place = CHOOSE f : Is(f)
      BY Zenon DEF Place, Is
    <2> QED BY <1>5, <2>1
  <1>7. \A n \in Nat : Place[n] = F[n]
    <2> DEFINE T == {n \in Nat : Place[n] = F[n]}
    <2>1. 0 \in T
      BY <1>3, <1>6
    <2>2. ASSUME NEW n \in Nat, n \in T
          PROVE  n + 1 \in T
      <3>1. n + 1 \in Nat /\ n + 1 # 0 /\ (n + 1) - 1 = n
        OBVIOUS
      <3>2. Place[n + 1] = BASE * Place[n]
        BY <1>6, <3>1
      <3> QED BY <1>4, <2>2, <3>2
    <2> HIDE DEF T
    <2>3. Nat \subseteq T
      BY <2>1, <2>2, Induction
    <2> QED BY <2>3 DEF T
  <1>8. Place = F
    <2>1. Place = [n \in Nat |-> Place[n]]
      BY <1>6
    <2> QED BY <1>2, <1>7, <2>1
  <1>9. \A n \in Nat : F[n] # 0
    <2> DEFINE T == {n \in Nat : F[n] # 0}
    <2>1. 0 \in T
      BY <1>3
    <2>2. ASSUME NEW n \in Nat, n \in T
          PROVE  n + 1 \in T
      <3>1. F[n] \in Nat /\ F[n] # 0 /\ BASE \in Nat /\ BASE # 0
        BY <2>2, LayoutAssumption
      <3>2. BASE * F[n] # 0
        BY <3>1
      <3> QED BY <1>4, <3>2
    <2> HIDE DEF T
    <2>3. Nat \subseteq T
      BY <2>1, <2>2, Induction
    <2> QED BY <2>3 DEF T
  <1> QED BY <1>2, <1>3, <1>4, <1>8, <1>9

---------------------------------------------------------------------------
(***************************************************************************)
(* Numbers and their bytes.                                                *)
(***************************************************************************)
\* Division with a remainder.
Divides(m, v, q, r) ==
    /\ m \in Nat \ {0}
    /\ q \in Int
    /\ r \in 0..(m - 1)
    /\ v = m * q + r

LEMMA Division ==
    ASSUME NEW v \in Int, NEW m \in Nat \ {0}
    PROVE  Divides(m, v, v \div m, v % m)
  BY DEF Divides

\* Only the quotient and the remainder divide a number so.
LEMMA DivisionUnique ==
    ASSUME NEW v \in Int, NEW m, NEW q, NEW r, Divides(m, v, q, r)
    PROVE  v \div m = q /\ v % m = r
  <1> DEFINE a == v \div m
             b == v % m
  <1>1. /\ m \in Nat \ {0} /\ q \in Int /\ r \in 0..(m - 1)
        /\ v = m * q + r
    BY DEF Divides
  <1>2. a \in Int /\ b \in 0..(m - 1) /\ v = m * a + b
    BY <1>1
  <1> HIDE DEF a, b
  <1>3. m * (a - q) = r - b
    BY <1>1, <1>2
  <1>4. a - q < 1
    <2> SUFFICES ASSUME a - q >= 1 PROVE FALSE
      BY <1>1, <1>2
    <2>1. m * (a - q) >= m
      BY <1>1, <1>2
    <2> QED BY <1>1, <1>2, <1>3, <2>1
  <1>5. a - q > -1
    <2> SUFFICES ASSUME a - q <= -1 PROVE FALSE
      BY <1>1, <1>2
    <2>1. m * (a - q) <= -m
      BY <1>1, <1>2
    <2> QED BY <1>1, <1>2, <1>3, <2>1
  <1>6. a = q
    BY <1>1, <1>2, <1>4, <1>5
  <1>7. b = r
    BY <1>1, <1>2, <1>6
  <1> QED BY <1>6, <1>7 DEF a, b

\* A number divided by p, and the quotient by BASE: what the digit that is left of
\* the quotient adds to the remainder.
LEMMA OneMoreDigit ==
    ASSUME NEW v \in Int, NEW p, NEW q, NEW r, NEW k, NEW d,
           Divides(p, v, q, r), Divides(BASE, q, k, d)
    PROVE  Divides(BASE * p, v, k, d * p + r)
  <1>1. /\ p \in Nat \ {0} /\ q \in Int /\ r \in 0..(p - 1)
        /\ v = p * q + r
    BY DEF Divides
  <1>2. /\ BASE \in Nat \ {0} /\ k \in Int /\ d \in 0..(BASE - 1)
        /\ q = BASE * k + d
    BY DEF Divides
  <1>3. BASE * p \in Nat \ {0}
    BY <1>1, <1>2
  <1>4. v = (BASE * p) * k + (d * p + r)
    <2>1. p * q = p * (BASE * k) + p * d
      BY <1>1, <1>2
    <2>2. p * (BASE * k) = (BASE * p) * k /\ p * d = d * p
      BY <1>1, <1>2
    <2>3. p * (BASE * k) \in Int /\ p * d \in Int
      BY <1>1, <1>2
    <2> QED BY <1>1, <2>1, <2>2, <2>3
  <1>5. d * p + r \in 0..(BASE * p - 1)
    <2>1. d * p \in Nat
      BY <1>1, <1>2
    <2>2. d * p <= (BASE - 1) * p
      BY <1>1, <1>2
    <2>3. (BASE - 1) * p = BASE * p - p
      BY <1>1, <1>2
    <2> QED BY <1>1, <1>3, <2>1, <2>2, <2>3
  <1> QED BY <1>2, <1>3, <1>4, <1>5 DEF Divides

\* from_le_bytes is a running sum.
LEMMA SumOfDigits ==
    ASSUME NEW bytes \in Seq(Digit)
    PROVE  \E s \in [0..Len(bytes) -> Nat] :
              /\ from_le_bytes(bytes) = s[Len(bytes)]
              /\ s[0] = 0
              /\ \A n \in 1..Len(bytes) : s[n] = bytes[n] * Place[n - 1] + s[n - 1]
  <1> DEFINE N == Len(bytes)
             term == [n \in 1..N |-> bytes[n] * Place[n - 1]]
             Is(s) == s = [n \in 0..N |->
                              IF n = 0 THEN 0 ELSE bytes[n] * Place[n - 1] + s[n - 1]]
             sum == CHOOSE s : Is(s)
  <1>1. N \in Nat
    OBVIOUS
  <1>2. term \in [1..N -> Nat]
    <2> SUFFICES ASSUME NEW n \in 1..N PROVE bytes[n] * Place[n - 1] \in Nat
      OBVIOUS
    <2>1. bytes[n] \in Nat
      BY LayoutAssumption DEF Digit
    <2>2. n - 1 \in Nat
      OBVIOUS
    <2>3. Place[n - 1] \in Nat
      BY <2>2, PlaceValues
    <2> QED BY <2>1, <2>3
  <1>3. ASSUME NEW s
        PROVE  Is(s) <=> s = [n \in 0..N |-> IF n = 0 THEN 0 ELSE term[n] + s[n - 1]]
    <2>1. \A n \in 1..N : term[n] = bytes[n] * Place[n - 1]
      OBVIOUS
    <2> HIDE DEF term
    <2> QED BY <2>1
  <1>4. Is(sum)
    <2>1. \E s : Is(s)
      <3> HIDE DEF term, Is
      <3> QED BY <1>1, <1>2, <1>3, RunningSumExists
    <2> HIDE DEF Is
    <2> QED BY <2>1
  <1>5. from_le_bytes(bytes) = sum[N]
    BY Zenon DEF from_le_bytes
  <1> HIDE DEF sum
  <1>6. /\ sum \in [0..N -> Nat]
        /\ sum[0] = 0
        /\ \A n \in 1..N : sum[n] = term[n] + sum[n - 1]
    <2> HIDE DEF term, Is
    <2> QED BY <1>1, <1>2, <1>3, <1>4, RunningSum
  <1>7. \A n \in 1..N : sum[n] = bytes[n] * Place[n - 1] + sum[n - 1]
    BY <1>6
  <1> QED BY <1>5, <1>6, <1>7

\* The bytes of a number of width digits are digits,
LEMMA ToBytesType ==
    ASSUME NEW value \in Nat, NEW width \in Nat
    PROVE  /\ to_le_bytes(value, width) \in Seq(Digit)
           /\ Len(to_le_bytes(value, width)) = width
  <1> DEFINE digit(i) == (value \div Place[i - 1]) % BASE
  <1>1. ASSUME NEW i \in 1..width
        PROVE  digit(i) \in Digit
    <2>1. Place[i - 1] \in Nat \ {0}
      BY PlaceValues
    <2>2. value \div Place[i - 1] \in Nat
      BY <2>1
    <2> QED BY <2>2, LayoutAssumption DEF Digit
  <1> HIDE DEF digit
  <1>2. [i \in 1..width |-> digit(i)] \in Seq(Digit)
    BY <1>1
  <1>3. Len([i \in 1..width |-> digit(i)]) = width
    OBVIOUS
  <1> QED BY <1>2, <1>3 DEF to_le_bytes, digit

\* and encode as much of it as fits.
LEMMA RoundTrip ==
    ASSUME NEW value \in Nat, NEW width \in Nat
    PROVE  from_le_bytes(to_le_bytes(value, width)) = value % Place[width]
  <1> DEFINE bytes == to_le_bytes(value, width)
  <1>1. bytes \in Seq(Digit) /\ Len(bytes) = width
    BY ToBytesType
  <1>2. \A n \in 1..width : bytes[n] = (value \div Place[n - 1]) % BASE
    BY DEF to_le_bytes
  <1> HIDE DEF bytes
  <1>3. PICK s \in [0..width -> Nat] :
              /\ from_le_bytes(bytes) = s[width]
              /\ s[0] = 0
              /\ \A n \in 1..width : s[n] = bytes[n] * Place[n - 1] + s[n - 1]
    BY <1>1, SumOfDigits
  <1> DEFINE T == {n \in Nat : n <= width => s[n] = value % Place[n]}
  <1>4. 0 \in T
    BY <1>3, PlaceValues
  <1>5. ASSUME NEW n \in Nat, n \in T
        PROVE  n + 1 \in T
    <2> SUFFICES ASSUME n + 1 <= width PROVE s[n + 1] = value % Place[n + 1]
      OBVIOUS
    <2>1. n + 1 \in 1..width /\ (n + 1) - 1 = n
      OBVIOUS
    <2>2. s[n + 1] = bytes[n + 1] * Place[n] + s[n]
      BY <1>3, <2>1
    <2>3. s[n] = value % Place[n]
      BY <1>5
    <2>4. bytes[n + 1] = (value \div Place[n]) % BASE
      BY <1>2, <2>1
    <2>5. Place[n] \in Nat \ {0} /\ Place[n + 1] = BASE * Place[n]
      BY PlaceValues
    <2> DEFINE p == Place[n]
               q == value \div p
               r == value % p
               k == q \div BASE
               d == q % BASE
    <2>6. Divides(p, value, q, r)
      <3>1. p \in Nat \ {0} /\ value \in Int
        BY <2>5
      <3> HIDE DEF p
      <3> QED BY <3>1, Division
    <2>7. Divides(BASE, q, k, d)
      <3>1. q \in Int
        BY <2>6 DEF Divides
      <3> HIDE DEF q
      <3> QED BY <3>1, LayoutAssumption, Division
    <2>8. bytes[n + 1] = d /\ s[n] = r
      BY <2>3, <2>4
    <2> HIDE DEF p, q, r, k, d
    <2>9. Divides(BASE * p, value, k, d * p + r)
      BY <2>6, <2>7, OneMoreDigit
    <2>10. value % (BASE * p) = d * p + r
      BY <2>9, DivisionUnique
    <2>11. s[n + 1] = d * p + r /\ Place[n + 1] = BASE * p
      BY <2>2, <2>5, <2>8 DEF p
    <2> QED BY <2>10, <2>11
  <1> HIDE DEF T
  <1>6. Nat \subseteq T
    BY <1>4, <1>5, Induction
  <1>7. s[width] = value % Place[width]
    BY <1>6 DEF T
  <1> QED BY <1>3, <1>7 DEF bytes

\* A number read is one that so many bytes can hold.
LEMMA FromBytesType ==
    ASSUME NEW bytes \in Seq(Digit)
    PROVE  from_le_bytes(bytes) \in Nat
  BY SumOfDigits
---------------------------------------------------------------------------
(***************************************************************************)
(* The layout of an account.                                               *)
(***************************************************************************)
\* account_offset! is a running sum.
LEMMA SumOfSizes ==
    ASSUME NEW N \in Nat, NEW sizes \in [1..N -> Nat]
    PROVE  \E s \in [0..N -> Nat] :
              /\ account_offset(sizes) = s[N]
              /\ s[0] = 0
              /\ \A n \in 1..N : s[n] = s[n - 1] + sizes[n]
  <1> DEFINE Is(s) == s = [n \in 0..Len(sizes) |-> IF n = 0 THEN 0 ELSE s[n - 1] + sizes[n]]
             sum == CHOOSE s : Is(s)
  <1>1. Len(sizes) = N
    OBVIOUS
  <1>2. PICK f : f = [n \in 0..N |-> IF n = 0 THEN 0 ELSE sizes[n] + f[n - 1]]
    BY RunningSumExists
  <1>3. /\ f \in [0..N -> Nat]
        /\ f[0] = 0
        /\ \A n \in 1..N : f[n] = sizes[n] + f[n - 1]
    BY <1>2, RunningSum, ZenonT(30)
  <1>4. Is(f)
    <2>1. ASSUME NEW n \in 0..N
          PROVE  f[n] = IF n = 0 THEN 0 ELSE f[n - 1] + sizes[n]
      <3>1. CASE n = 0
        BY <1>3, <3>1
      <3>2. CASE n # 0
        <4>1. n \in 1..N /\ n - 1 \in 0..N
          BY <3>2
        <4>2. f[n] = sizes[n] + f[n - 1] /\ f[n - 1] \in Nat /\ sizes[n] \in Nat
          BY <1>3, <4>1
        <4> QED BY <3>2, <4>2
      <3> QED BY <3>1, <3>2
    <2> QED BY <1>1, <1>3, <2>1
  <1>5. Is(sum)
    <2> HIDE DEF Is
    <2> QED BY <1>4
  <1>6. account_offset(sizes) = sum[N]
    <2>1. account_offset(sizes) = sum[Len(sizes)]
      BY Zenon DEF account_offset
    <2> QED BY <1>1, <2>1
  <1> HIDE DEF sum
  <1>7. sum[0] = 0 /\ \A n \in 1..N : sum[n] = sum[n - 1] + sizes[n]
    BY <1>1, <1>5
  <1>8. \A n \in 0..N : sum[n] \in Nat
    <2> DEFINE T == {n \in Nat : n <= N => sum[n] \in Nat}
    <2>1. 0 \in T
      BY <1>7
    <2>2. ASSUME NEW n \in Nat, n \in T
          PROVE  n + 1 \in T
      <3> SUFFICES ASSUME n + 1 <= N PROVE sum[n + 1] \in Nat
        OBVIOUS
      <3>1. sum[n] \in Nat
        BY <2>2
      <3>2. n + 1 \in 1..N /\ (n + 1) - 1 = n
        OBVIOUS
      <3>3. sum[n + 1] = sum[(n + 1) - 1] + sizes[n + 1] /\ sizes[n + 1] \in Nat
        BY <1>7, <3>2
      <3> QED BY <3>1, <3>2, <3>3
    <2> HIDE DEF T
    <2>3. Nat \subseteq T
      BY <2>1, <2>2, Induction
    <2>4. \A n \in 0..N : n \in T
      BY <2>3
    <2> QED BY <2>4 DEF T
  <1>9. sum \in [0..N -> Nat]
    BY <1>1, <1>5, <1>8
  <1> QED BY <1>6, <1>7, <1>9

\* A longer list of sizes begins with the sums of a shorter one.
LEMMA SumOfPrefix ==
    ASSUME NEW N \in Nat, NEW n \in 0..N,
           NEW longer \in [1..N -> Nat], NEW shorter \in [1..n -> Nat],
           \A m \in 1..n : shorter[m] = longer[m],
           NEW s, s[0] = 0, \A m \in 1..N : s[m] = s[m - 1] + longer[m]
    PROVE  account_offset(shorter) = s[n]
  <1>1. n \in Nat
    OBVIOUS
  <1>2. PICK t \in [0..n -> Nat] :
              /\ account_offset(shorter) = t[n]
              /\ t[0] = 0
              /\ \A m \in 1..n : t[m] = t[m - 1] + shorter[m]
    BY <1>1, SumOfSizes
  <1> DEFINE T == {m \in Nat : m <= n => t[m] = s[m]}
  <1>3. 0 \in T
    BY <1>2
  <1>4. ASSUME NEW m \in Nat, m \in T
        PROVE  m + 1 \in T
    <2> SUFFICES ASSUME m + 1 <= n PROVE t[m + 1] = s[m + 1]
      OBVIOUS
    <2>1. m + 1 \in 1..n /\ m + 1 \in 1..N /\ (m + 1) - 1 = m
      OBVIOUS
    <2>2. t[m + 1] = t[(m + 1) - 1] + shorter[m + 1]
      BY <1>2, <2>1
    <2>3. s[m + 1] = s[(m + 1) - 1] + longer[m + 1] /\ shorter[m + 1] = longer[m + 1]
      BY <2>1
    <2>4. t[m] = s[m]
      BY <1>4
    <2> QED BY <2>1, <2>2, <2>3, <2>4
  <1> HIDE DEF T
  <1>5. Nat \subseteq T
    BY <1>3, <1>4, Induction
  <1> QED BY <1>1, <1>2, <1>5 DEF T

Kinds == {"u64", "u128", "i128", "pubkey"}

LEMMA WidthType == \A kind \in Kinds : Width(kind) \in Nat \ {0}
  BY LayoutAssumption DEF Width, Kinds, U128_BYTES, PUBKEY_BYTES

LEMMA FieldsType ==
    /\ Len(Fields) \in Nat
    /\ Positions = 1..Len(Fields)
    /\ \A f \in Positions : Fields[f] \in Kinds
  BY FieldAssumption DEF Positions, Kinds

\* The fields lie one behind the other, the last of them at the end of the account.
LEMMA FieldsInOrder ==
    ASSUME NEW f \in Positions
    PROVE  /\ Offset[f] \in Nat
           /\ Offset[f] + Width(Fields[f]) <= FullSize
           /\ \A g \in Positions : f < g => Offset[f] + Width(Fields[f]) <= Offset[g]
  <1> DEFINE N == Len(Fields)
             width == [n \in Positions |-> Width(Fields[n])]
  <1>1. N \in Nat /\ Positions = 1..N /\ width \in [1..N -> Nat]
    BY FieldsType, WidthType
  <1>2. PICK s \in [0..N -> Nat] :
              /\ account_offset(width) = s[N]
              /\ s[0] = 0
              /\ \A n \in 1..N : s[n] = s[n - 1] + width[n]
    <2> HIDE DEF width, N
    <2> QED BY <1>1, SumOfSizes
  <1>3. FullSize = s[N]
    BY <1>2 DEF FullSize
  <1>4. ASSUME NEW g \in Positions
        PROVE  Offset[g] = s[g - 1]
    <2> DEFINE before == SizesBefore(g)
    <2>1. g - 1 \in 0..N
      BY <1>1
    <2>2. before \in [1..(g - 1) -> Nat] /\ \A m \in 1..(g - 1) : before[m] = width[m]
      BY <1>1 DEF SizesBefore
    <2>3. account_offset(before) = s[g - 1]
      <3> HIDE DEF before, width, N
      <3> QED BY <1>1, <1>2, <2>1, <2>2, SumOfPrefix
    <2> QED BY <2>3 DEF Offset
  <1>5. \A m \in 0..N : \A n \in Nat : m <= n /\ n <= N => s[m] <= s[n]
    <2> SUFFICES ASSUME NEW m \in 0..N
                 PROVE  \A n \in Nat : m <= n /\ n <= N => s[m] <= s[n]
      OBVIOUS
    <2> HIDE DEF width, N
    <2> DEFINE T == {n \in Nat : m <= n /\ n <= N => s[m] <= s[n]}
    <2>1. 0 \in T
      BY <1>1
    <2>2. ASSUME NEW n \in Nat, n \in T
          PROVE  n + 1 \in T
      <3> SUFFICES ASSUME m <= n + 1, n + 1 <= N PROVE s[m] <= s[n + 1]
        OBVIOUS
      <3>1. n + 1 \in 1..N /\ (n + 1) - 1 = n /\ n \in 0..N /\ n + 1 \in 0..N
        BY <1>1
      <3>2. s[n + 1] = s[(n + 1) - 1] + width[n + 1] /\ width[n + 1] \in Nat
        BY <1>1, <1>2, <3>1
      <3>3. s[m] \in Nat /\ s[n] \in Nat
        BY <3>1
      <3>4. CASE m <= n
        BY <1>1, <2>2, <3>1, <3>2, <3>3, <3>4
      <3>5. CASE m = n + 1
        BY <3>3, <3>5
      <3> QED BY <1>1, <3>4, <3>5
    <2> HIDE DEF T
    <2>3. Nat \subseteq T
      BY <2>1, <2>2, Induction
    <2> QED BY <2>3 DEF T
  <1>6. f \in 1..N /\ f - 1 \in 0..N /\ width[f] = Width(Fields[f])
    BY <1>1
  <1> HIDE DEF width, N
  <1>7. s[f] = s[f - 1] + width[f] /\ s[f - 1] \in Nat
    BY <1>2, <1>6
  <1>8. s[f] <= s[N]
    BY <1>1, <1>5, <1>6
  <1>9. ASSUME NEW g \in Positions, f < g
        PROVE  s[f] <= s[g - 1]
    <2>1. g - 1 \in Nat /\ f <= g - 1 /\ g - 1 <= N /\ f \in 0..N
      BY <1>1, <1>6, <1>9
    <2> QED BY <1>5, <2>1
  <1> QED BY <1>3, <1>4, <1>6, <1>7, <1>8, <1>9
---------------------------------------------------------------------------
(***************************************************************************)
(* Slices of an account's data.                                            *)
(***************************************************************************)
\* A string of bytes that fits into memory: what the bytes are does not matter.
Addressable(bytes) ==
    /\ \E S : bytes \in Seq(S)
    /\ Len(bytes) < USIZE

\* read_bytes on any bytes: the sum of offset and length is either too large for a
\* usize, in which case it is too large for the data, or compared as it is.
LEMMA ReadBytesStaysInside ==
    ASSUME NEW bytes, Addressable(bytes),
           NEW offset \in 0..(USIZE - 1), NEW length \in 0..(USIZE - 1)
    PROVE  LET read == read_bytes(bytes, offset, length)
           IN  /\ read.ok <=> offset + length <= Len(bytes)
               /\ read.ok => /\ Len(read.value) = length
                             /\ \A i \in 1..length : read.value[i] = bytes[offset + i]
  <1> DEFINE read == read_bytes(bytes, offset, length)
             end == offset + length
             slice == SubSeq(bytes, offset + 1, end)
  <1>1. offset \in Nat /\ length \in Nat /\ end \in Nat /\ USIZE \in Nat
    BY LayoutAssumption
  <1>2. PICK S : bytes \in Seq(S)
    BY DEF Addressable
  <1>3. Len(bytes) \in Nat /\ Len(bytes) < USIZE
    BY <1>2 DEF Addressable
  <1>4. CASE end > Len(bytes)
    <2>1. read = Error("OffsetOverflow") \/ read = Error("AccountDataTooShort")
      BY <1>1, <1>3, <1>4 DEF read_bytes
    <2>2. ~read.ok
      BY <2>1 DEF Error
    <2> QED BY <1>1, <1>3, <1>4, <2>2
  <1>5. CASE end <= Len(bytes)
    <2>1. read = Ok(slice)
      BY <1>1, <1>3, <1>5 DEF read_bytes
    <2>2. read.ok /\ read.value = slice
      BY <2>1 DEF Ok
    <2>3. \A i \in (offset + 1)..end : bytes[i] \in S
      BY <1>1, <1>2, <1>3, <1>5
    <2>4. /\ Len(slice) = IF offset + 1 <= end THEN end - (offset + 1) + 1 ELSE 0
          /\ \A i \in 1..(end - (offset + 1) + 1) : slice[i] = bytes[offset + 1 + i - 1]
      BY <1>1, <2>3, SubSeqProperties
    <2>5. Len(slice) = length /\ \A i \in 1..length : slice[i] = bytes[offset + i]
      BY <1>1, <2>4
    <2> QED BY <1>5, <2>2, <2>5
  <1> QED BY <1>1, <1>3, <1>4, <1>5

---------------------------------------------------------------------------
(***************************************************************************)
(* The fields as they are read back.                                       *)
(***************************************************************************)
\* A number's bytes say what it leaves when divided by the number of values its
\* type has.
LEMMA EncodedType ==
    ASSUME NEW kind \in Kinds, NEW value \in Int
    PROVE  /\ Encoded(kind, value) \in Seq(Digit)
           /\ Len(Encoded(kind, value)) = Width(kind)
           /\ from_le_bytes(Encoded(kind, value)) = value % Place[Width(kind)]
  <1> DEFINE w == Width(kind)
             rest == value % Place[w]
  <1>1. w \in Nat
    BY WidthType
  <1> HIDE DEF w
  <1>2. Place[w] \in Nat \ {0}
    BY <1>1, PlaceValues
  <1>3. Divides(Place[w], value, value \div Place[w], rest)
    BY <1>2, Division
  <1>4. rest \in Nat /\ rest \in Int /\ rest \in 0..(Place[w] - 1)
    BY <1>2, <1>3 DEF Divides
  <1> HIDE DEF rest
  <1>5. to_le_bytes(rest, w) \in Seq(Digit) /\ Len(to_le_bytes(rest, w)) = w
    BY <1>1, <1>4, ToBytesType
  <1>6. from_le_bytes(to_le_bytes(rest, w)) = rest % Place[w]
    BY <1>1, <1>4, RoundTrip
  <1>7. Divides(Place[w], rest, 0, rest)
    BY <1>2, <1>4 DEF Divides
  <1>8. rest % Place[w] = rest
    BY <1>4, <1>7, DivisionUnique
  <1> QED BY <1>5, <1>6, <1>8 DEF Encoded, rest, w

\* Every byte of 0 is 0.
LEMMA EncodedZero ==
    ASSUME NEW kind \in Kinds, NEW i \in 1..Width(kind)
    PROVE  Encoded(kind, 0)[i] = 0
  <1>1. Width(kind) \in Nat /\ i - 1 \in Nat
    BY WidthType
  <1>2. \A m \in Nat \ {0} : 0 % m = 0 /\ 0 \div m = 0
    <2> SUFFICES ASSUME NEW m \in Nat \ {0} PROVE 0 % m = 0 /\ 0 \div m = 0
      OBVIOUS
    <2>1. Divides(m, 0, 0, 0)
      BY DEF Divides
    <2> QED BY <2>1, DivisionUnique
  <1>3. 0 % Place[Width(kind)] = 0
    BY <1>1, <1>2, PlaceValues
  <1>4. Encoded(kind, 0)[i] = (0 \div Place[i - 1]) % BASE
    BY <1>1, <1>3 DEF Encoded, to_le_bytes
  <1>5. 0 \div Place[i - 1] = 0 /\ 0 % BASE = 0
    BY <1>1, <1>2, PlaceValues, LayoutAssumption
  <1> QED BY <1>4, <1>5

\* A number that fits its type is what its bytes say: as it is if it has no sign, and
\* with the sign its upper half stands for.
LEMMA FitsIsWhole ==
    ASSUME NEW kind \in Kinds, NEW value, Fits(kind, value)
    PROVE  /\ value \in Int
           /\ kind # "i128" => from_le_bytes(Encoded(kind, value)) = value
           /\ kind = "i128" => from_le_signed(Encoded(kind, value)) = value
  <1> DEFINE values == Place[Width(kind)]
             bytes == Encoded(kind, value)
             rest == value % values
  <1>1. values \in Nat \ {0}
    BY WidthType, PlaceValues
  <1>2. value \in Int
    BY DEF Fits
  <1>3. Len(bytes) = Width(kind) /\ from_le_bytes(bytes) = rest
    BY <1>2, EncodedType
  <1>4. IF kind = "i128" THEN -values <= 2 * value /\ 2 * value < values
        ELSE 0 <= value /\ value < values
    BY DEF Fits
  <1>5. from_le_signed(bytes) = IF 2 * rest < values THEN rest ELSE rest - values
    BY <1>3 DEF from_le_signed
  <1> HIDE DEF values, bytes, rest
  <1>6. CASE 0 <= value
    <2>1. value < values
      BY <1>1, <1>2, <1>4, <1>6
    <2>2. Divides(values, value, 0, value)
      BY <1>1, <1>2, <1>6, <2>1 DEF Divides
    <2>3. rest = value
      BY <1>2, <2>2, DivisionUnique DEF rest
    <2> QED BY <1>1, <1>2, <1>3, <1>4, <1>5, <2>3 DEF bytes
  <1>7. CASE value < 0
    <2>1. kind = "i128" /\ -values <= 2 * value
      BY <1>2, <1>4, <1>7
    <2>2. Divides(values, value, -1, value + values)
      BY <1>1, <1>2, <1>7, <2>1 DEF Divides
    <2>3. rest = value + values
      BY <1>2, <2>2, DivisionUnique DEF rest
    <2>4. ~(2 * rest < values)
      BY <1>1, <1>2, <2>1, <2>3
    <2>5. rest - values = value
      BY <1>1, <1>2, <2>3
    <2> QED BY <1>2, <1>5, <2>1, <2>4, <2>5 DEF bytes
  <1> QED BY <1>2, <1>6, <1>7
---------------------------------------------------------------------------
(***************************************************************************)
(* The inductive invariant.                                                *)
(***************************************************************************)
\* Every byte of a field is that of the value last stored in it, however much of the
\* field the account has.
Kept ==
    \A f \in Positions : \A i \in 1..Width(Fields[f]) :
        Offset[f] + i \in DOMAIN data =>
            data[Offset[f] + i] = Encoded(Fields[f], stored[f])[i]

\* After an adapter's answer the return data is the low half of its field's value,
\* which nobody has stored anew, and so is what the dispatcher has handed back.
Answered ==
    asked # NoAnswer =>
        /\ ret = set_return_u64(as_u64(stored[asked]))
        /\ answer # NoAnswer => answer = as_u64(stored[asked])

\* The account's data and the return data are bytes, numbers are numbers.
TypeOK ==
    /\ data \in Seq(Digit)
    /\ stored \in [Positions -> Int]
    /\ ret \in Seq(Digit)
    /\ asked \in Positions \cup {NoAnswer}
    /\ answer \in Nat \cup {NoAnswer}

IInv ==
    /\ TypeOK
    /\ Addressable(data)
    /\ \A f \in Positions : Fits(Fields[f], stored[f])
    /\ Kept
    /\ Answered

\* What the room of a field holds, if the account has it.
LEMMA FieldBytes ==
    ASSUME IInv, NEW f \in Positions
    PROVE  LET read == read_bytes(data, Offset[f], Width(Fields[f]))
           IN  /\ read.ok <=> Offset[f] + Width(Fields[f]) <= Len(data)
               /\ read.ok => read = Ok(Encoded(Fields[f], stored[f]))
  <1> DEFINE offset == Offset[f]
             length == Width(Fields[f])
             read == read_bytes(data, offset, length)
             bytes == Encoded(Fields[f], stored[f])
             slice == SubSeq(data, offset + 1, offset + length)
  <1>1. /\ Fields[f] \in Kinds /\ length \in Nat \ {0}
        /\ offset \in Nat /\ offset + length <= FullSize
    BY FieldsType, WidthType, FieldsInOrder
  <1>2. FullSize \in 0..(USIZE - 1) /\ USIZE \in Nat
    BY FieldAssumption, LayoutAssumption
  <1>3. Addressable(data) /\ data \in Seq(Digit) /\ Len(data) \in Nat /\ stored[f] \in Int
    BY DEF IInv, TypeOK
  <1>4. bytes \in Seq(Digit) /\ Len(bytes) = length
    BY <1>1, <1>3, EncodedType
  <1>5. \A i \in 1..length : offset + i \in DOMAIN data => data[offset + i] = bytes[i]
    BY DEF IInv, Kept
  <1> HIDE DEF offset, length, bytes
  <1>6. offset \in 0..(USIZE - 1) /\ length \in 0..(USIZE - 1)
    BY <1>1, <1>2
  <1>7. /\ read.ok <=> offset + length <= Len(data)
        /\ read.ok => /\ Len(read.value) = length
                      /\ \A i \in 1..length : read.value[i] = data[offset + i]
    BY <1>3, <1>6, ReadBytesStaysInside
  <1>8. ASSUME offset + length <= Len(data)
        PROVE  read = Ok(bytes)
    <2>1. read = Ok(slice)
      BY <1>1, <1>2, <1>3, <1>8 DEF read_bytes
    <2>2. slice = read.value
      <3> HIDE DEF slice, read
      <3> QED BY <2>1 DEF Ok
    <2>3. slice \in Seq(Digit)
      BY <1>1, <1>3, <1>8
    <2>4. Len(slice) = length /\ \A i \in 1..length : slice[i] = data[offset + i]
      BY <1>7, <1>8, <2>2
    <2> HIDE DEF slice, read
    <2>5. ASSUME NEW i \in 1..length
          PROVE  slice[i] = bytes[i]
      <3>1. offset + i \in DOMAIN data
        BY <1>1, <1>3, <1>8
      <3> QED BY <1>5, <2>4, <3>1
    <2>6. slice = bytes
      BY <1>1, <1>4, <2>3, <2>4, <2>5
    <2> QED BY <2>1, <2>6
  <1> QED BY <1>7, <1>8 DEF offset, length, bytes

\* What a reader says of a field, if the account has it.
LEMMA FieldRead ==
    ASSUME IInv, NEW f \in Positions
    PROVE  LET read == Reader(Fields[f], Offset[f])
           IN  /\ read.ok <=> Offset[f] + Width(Fields[f]) <= Len(data)
               /\ read.ok =>
                     read.value = IF Fields[f] = "pubkey" THEN Encoded("pubkey", stored[f])
                                  ELSE stored[f]
  <1> DEFINE kind == Fields[f]
             offset == Offset[f]
             raw == read_bytes(data, offset, Width(kind))
             bytes == Encoded(kind, stored[f])
             read == Reader(kind, offset)
  <1>1. kind \in Kinds /\ Fits(kind, stored[f])
    BY FieldsType DEF IInv
  <1>2. /\ raw.ok <=> offset + Width(kind) <= Len(data)
        /\ raw.ok => raw = Ok(bytes)
    BY FieldBytes
  <1>3. /\ kind # "i128" => from_le_bytes(bytes) = stored[f]
        /\ kind = "i128" => from_le_signed(bytes) = stored[f]
    BY <1>1, FitsIsWhole
  <1>4. raw.ok => raw.value = bytes
    BY <1>2 DEF Ok
  <1>5. CASE kind = "u64"
    <2>1. read = Unsigned(raw)
      BY <1>5 DEF Reader, read_u64_le, Width
    <2> HIDE DEF raw, bytes, read
    <2> QED BY <1>2, <1>3, <1>4, <1>5, <2>1 DEF Unsigned, Ok, raw, bytes, read
  <1>6. CASE kind = "u128"
    <2>1. read = Unsigned(raw)
      BY <1>6 DEF Reader, read_u128_le, Width
    <2> QED BY <1>2, <1>3, <1>4, <1>6, <2>1 DEF Unsigned, Ok
  <1>7. CASE kind = "i128"
    <2>1. read = IF raw.ok THEN Ok(from_le_signed(raw.value)) ELSE raw
      BY <1>7 DEF Reader, read_i128_le, Width
    <2> QED BY <1>2, <1>3, <1>4, <1>7, <2>1 DEF Ok
  <1>8. CASE kind = "pubkey"
    <2>1. read = raw
      BY <1>8 DEF Reader, read_pubkey, Width
    <2> QED BY <1>2, <1>4, <1>8, <2>1
  <1> QED BY <1>1, <1>5, <1>6, <1>7, <1>8 DEF Kinds

\* The low half of a number is a number of a u64, and keeps through return data.
LEMMA LowHalf ==
    ASSUME NEW value \in Int
    PROVE  LET low == as_u64(value)
           IN  /\ low \in Nat
               /\ set_return_u64(low) \in Seq(Digit)
               /\ read_return_u64(set_return_u64(low)) = Ok(low)
  <1> DEFINE m == Place[U64_BYTES]
             low == as_u64(value)
             bytes == to_le_bytes(low, U64_BYTES)
  <1>1. U64_BYTES \in Nat \ {0} /\ m \in Nat \ {0}
    BY LayoutAssumption, PlaceValues
  <1>2. low = value % m
    BY DEF as_u64
  <1>3. low \in 0..(m - 1)
    <2> HIDE DEF m, low
    <2> QED BY <1>1, <1>2
  <1>4. low \in Nat /\ low % m = low
    <2> HIDE DEF m, low
    <2>1. low \in Nat /\ low \in Int /\ Divides(m, low, 0, low)
      BY <1>1, <1>3 DEF Divides
    <2> QED BY <2>1, DivisionUnique
  <1> HIDE DEF low
  <1>5. /\ bytes \in Seq(Digit) /\ Len(bytes) = U64_BYTES
        /\ from_le_bytes(bytes) = low
    BY <1>1, <1>4, ToBytesType, RoundTrip
  <1>6. bytes # <<>> /\ ~(Len(bytes) < U64_BYTES)
    BY <1>1, <1>5
  <1> HIDE DEF bytes
  <1>7. SubSeq(bytes, 1, U64_BYTES) = bytes
    BY <1>1, <1>5
  <1>8. read_return_u64(bytes) = Ok(low)
    BY <1>5, <1>6, <1>7 DEF read_return_u64
  <1> QED BY <1>4, <1>5, <1>8 DEF low, bytes, set_return_u64
---------------------------------------------------------------------------
(***************************************************************************)
(* The invariant holds.                                                    *)
(***************************************************************************)
LEMMA InitInvariant == Init => IInv
  <1> SUFFICES ASSUME Init PROVE IInv
    OBVIOUS
  <1>1. PICK size \in Sizes \cup {FullSize} : data = [i \in 1..size |-> 0]
    BY DEF Init
  <1>2. size \in Nat /\ size < USIZE
    BY FieldAssumption, LayoutAssumption
  <1>3. data \in Seq({0}) /\ Len(data) = size /\ 0 \in Digit
    BY <1>1, <1>2, LayoutAssumption DEF Digit
  <1>4. data \in Seq(Digit)
    BY <1>1, <1>2, <1>3
  <1>5. TypeOK
    BY <1>4 DEF TypeOK, Init
  <1>6. Addressable(data)
    BY <1>2, <1>3 DEF Addressable
  <1>7. ASSUME NEW f \in Positions
        PROVE  Fits(Fields[f], stored[f])
    <2>1. stored[f] = 0 /\ Fields[f] \in Kinds
      BY FieldsType DEF Init
    <2>2. Place[Width(Fields[f])] \in Nat \ {0}
      BY <2>1, WidthType, PlaceValues
    <2> QED BY <2>1, <2>2 DEF Fits
  <1>8. Kept
    <2> SUFFICES ASSUME NEW f \in Positions, NEW i \in 1..Width(Fields[f]),
                        Offset[f] + i \in DOMAIN data
                 PROVE  data[Offset[f] + i] = Encoded(Fields[f], stored[f])[i]
      BY DEF Kept
    <2>1. stored[f] = 0 /\ Fields[f] \in Kinds
      BY FieldsType DEF Init
    <2>2. data[Offset[f] + i] = 0
      BY <1>1
    <2> QED BY <2>1, <2>2, EncodedZero
  <1>9. Answered
    BY DEF Answered, Init
  <1> QED BY <1>5, <1>6, <1>7, <1>8, <1>9 DEF IInv

\* Storing a value puts its bytes in its field's room and no others.
LEMMA StoreKeeps ==
    ASSUME IInv, NEW f \in Positions, NEW value \in Values[Fields[f]], Store(f, value)
    PROVE  IInv'
  <1> DEFINE bytes == Encoded(Fields[f], value)
             room == (Offset[f] + 1)..(Offset[f] + Width(Fields[f]))
             N == Len(data)
  <1>1. /\ Fits(Fields[f], value) /\ value \in Int /\ Fields[f] \in Kinds
        /\ stored \in [Positions -> Int] /\ data \in Seq(Digit) /\ N \in Nat
    BY ValueAssumption, FieldsType DEF Fits, IInv, TypeOK
  <1>2. /\ data' = [i \in 1..N |-> IF i \in room THEN bytes[i - Offset[f]] ELSE data[i]]
        /\ stored' = [stored EXCEPT ![f] = value]
        /\ asked = NoAnswer
        /\ UNCHANGED <<ret, asked, answer>>
    BY <1>1 DEF Store
  <1>3. /\ Offset[f] \in Nat /\ Width(Fields[f]) \in Nat
        /\ bytes \in Seq(Digit) /\ Len(bytes) = Width(Fields[f])
    BY <1>1, FieldsInOrder, WidthType, EncodedType
  <1> HIDE DEF bytes
  <1>4. ASSUME NEW i \in room
        PROVE  i - Offset[f] \in 1..Len(bytes)
    BY <1>3
  <1>5. \A i \in 1..N : data'[i] \in Digit
    BY <1>1, <1>2, <1>3, <1>4
  <1>6. data' \in Seq(Digit) /\ Len(data') = N
    BY <1>1, <1>2, <1>5
  <1>7. TypeOK'
    BY <1>1, <1>2, <1>6 DEF IInv, TypeOK
  <1>8. Addressable(data)'
    BY <1>6 DEF IInv, Addressable
  <1>9. ASSUME NEW g \in Positions
        PROVE  stored'[g] = IF g = f THEN value ELSE stored[g]
    BY <1>1, <1>2
  <1>10. \A g \in Positions : Fits(Fields[g], stored'[g])
    BY <1>1, <1>9 DEF IInv
  <1>11. ASSUME NEW g \in Positions, NEW i \in 1..Width(Fields[g]),
                Offset[g] + i \in DOMAIN data'
         PROVE  data'[Offset[g] + i] = Encoded(Fields[g], stored'[g])[i]
    <2>1. /\ Offset[g] \in Nat /\ Width(Fields[g]) \in Nat /\ i \in Nat
          /\ Offset[g] + i \in 1..N
      BY <1>2, <1>11, FieldsType, FieldsInOrder, WidthType
    <2>2. CASE g = f
      <3>1. Offset[g] + i \in room /\ (Offset[g] + i) - Offset[f] = i
        BY <1>3, <2>1, <2>2
      <3>2. data'[Offset[g] + i] = bytes[i]
        BY <1>2, <2>1, <3>1
      <3> QED BY <1>9, <2>2, <3>2 DEF bytes
    <2>3. CASE g # f
      <3>1. g < f \/ f < g
        BY <2>3, FieldsType
      <3>2. \/ Offset[g] + Width(Fields[g]) <= Offset[f]
            \/ Offset[f] + Width(Fields[f]) <= Offset[g]
        BY <3>1, FieldsInOrder
      <3>3. Offset[g] + i \notin room
        BY <1>3, <2>1, <3>2
      <3>4. data'[Offset[g] + i] = data[Offset[g] + i]
        BY <1>2, <2>1, <3>3
      <3>5. data[Offset[g] + i] = Encoded(Fields[g], stored[g])[i]
        BY <1>1, <2>1 DEF IInv, Kept
      <3> QED BY <1>9, <2>3, <3>4, <3>5
    <2> QED BY <2>2, <2>3
  <1>12. Kept'
    BY <1>11 DEF Kept
  <1>13. Answered'
    BY <1>2 DEF Answered
  <1> QED BY <1>7, <1>8, <1>10, <1>12, <1>13 DEF IInv

\* A transaction begins with whatever return data there is.
LEMMA BeginKeeps ==
    ASSUME IInv, Begin
    PROVE  IInv'
  <1>1. ret' \in Seq(Digit)
    BY ValueAssumption DEF Begin
  <1>2. TypeOK'
    BY <1>1 DEF IInv, TypeOK, Begin
  <1>3. Addressable(data)' /\ Kept' /\ (\A f \in Positions : Fits(Fields[f], stored[f]))'
    BY DEF IInv, Begin, Addressable, Kept
  <1>4. Answered'
    BY DEF Begin, Answered
  <1> QED BY <1>2, <1>3, <1>4 DEF IInv

\* An adapter answers with the low half of the field it reads.
LEMMA AdapterKeeps ==
    ASSUME IInv, NEW f \in Positions, AdapterAnswers(f)
    PROVE  IInv'
  <1>1. /\ Fields[f] # "pubkey" /\ stored[f] \in Int
        /\ asked' = f /\ answer = NoAnswer /\ UNCHANGED <<data, stored, answer>>
    BY DEF AdapterAnswers, IInv, TypeOK
  <1> DEFINE read == Reader(Fields[f], Offset[f])
  <1>2. read.ok /\ ret' = set_return_u64(as_u64(read.value))
    BY DEF AdapterAnswers
  <1>3. read.value = stored[f]
    BY <1>1, <1>2, FieldRead
  <1>4. ret' = set_return_u64(as_u64(stored[f]))
    BY <1>2, <1>3
  <1>5. ret' \in Seq(Digit)
    BY <1>1, <1>4, LowHalf
  <1>6. TypeOK'
    BY <1>1, <1>5 DEF IInv, TypeOK
  <1>7. Addressable(data)' /\ Kept' /\ (\A g \in Positions : Fits(Fields[g], stored[g]))'
    BY <1>1 DEF IInv, Addressable, Kept
  <1>8. Answered'
    BY <1>1, <1>4 DEF Answered
  <1> QED BY <1>6, <1>7, <1>8 DEF IInv

\* The dispatcher hands back what it finds, and an adapter's answer is found whole.
LEMMA DispatcherKeeps ==
    ASSUME IInv, DispatcherAnswers
    PROVE  IInv'
  <1> DEFINE read == read_return_u64(ret)
  <1>1. /\ read.ok /\ answer' = read.value /\ ret' = set_return_u64(read.value)
        /\ UNCHANGED <<data, stored, asked>>
    BY DEF DispatcherAnswers
  <1>2. ret \in Seq(Digit) /\ U64_BYTES \in Nat /\ Len(ret) \in Nat
    BY LayoutAssumption DEF IInv, TypeOK
  <1>3. /\ Len(ret) >= U64_BYTES
        /\ read.value = from_le_bytes(SubSeq(ret, 1, U64_BYTES))
    BY <1>1, <1>2 DEF read_return_u64, Ok, Error
  <1>4. SubSeq(ret, 1, U64_BYTES) \in Seq(Digit)
    BY <1>2, <1>3
  <1>5. read.value \in Nat
    BY <1>3, <1>4, FromBytesType
  <1>6. ret' \in Seq(Digit)
    BY <1>1, <1>2, <1>5, ToBytesType DEF set_return_u64
  <1>7. TypeOK'
    BY <1>1, <1>5, <1>6 DEF IInv, TypeOK
  <1>8. Addressable(data)' /\ Kept' /\ (\A f \in Positions : Fits(Fields[f], stored[f]))'
    BY <1>1 DEF IInv, Addressable, Kept
  <1>9. ASSUME asked # NoAnswer
        PROVE  answer' = as_u64(stored[asked]) /\ ret' = set_return_u64(as_u64(stored[asked]))
    <2>1. ret = set_return_u64(as_u64(stored[asked]))
      BY <1>9 DEF IInv, Answered
    <2>2. stored[asked] \in Int
      BY <1>9 DEF IInv, TypeOK
    <2>3. read = Ok(as_u64(stored[asked]))
      BY <2>1, <2>2, LowHalf
    <2> QED BY <1>1, <2>3 DEF Ok
  <1>10. Answered'
    BY <1>1, <1>9 DEF Answered
  <1> QED BY <1>7, <1>8, <1>10 DEF IInv

LEMMA NextKeeps == IInv /\ [Next]_vars => IInv'
  <1> SUFFICES ASSUME IInv, [Next]_vars PROVE IInv'
    OBVIOUS
  <1>1. CASE UNCHANGED vars
    BY <1>1 DEF IInv, TypeOK, Addressable, Kept, Answered, vars
  <1> QED BY <1>1, StoreKeeps, BeginKeeps, AdapterKeeps, DispatcherKeeps DEF Next

LEMMA Invariant == Spec => []IInv
  BY InitInvariant, NextKeeps, PTL DEF Spec

---------------------------------------------------------------------------
\* No reader ever slices outside an account's data, or panics on an offset near the
\* end of the address space.
THEOREM SlicesAlwaysInside == Spec => []SlicesStayInside
  <1>1. IInv => SlicesStayInside
    BY ReadBytesStaysInside DEF IInv, SlicesStayInside
  <1> QED BY <1>1, Invariant, PTL

\* Every reader returns the value last stored in its field, whatever the layout, the
\* values and the other fields.
THEOREM FieldsAlwaysReadBack == Spec => []FieldsReadBack
  <1>1. ASSUME IInv PROVE FieldsReadBack
    <2> SUFFICES ASSUME Len(data) = FullSize, NEW f \in Positions
                 PROVE  LET read == Reader(Fields[f], Offset[f])
                        IN  /\ read.ok
                            /\ read.value = IF Fields[f] = "pubkey"
                                            THEN Encoded("pubkey", stored[f])
                                            ELSE stored[f]
      BY DEF FieldsReadBack
    <2>1. Offset[f] + Width(Fields[f]) <= Len(data)
      BY FieldsInOrder
    <2> QED BY <1>1, <2>1, FieldRead
  <1> QED BY <1>1, Invariant, PTL

\* What the dispatcher hands back after an adapter is the low half of the field, and
\* the client reads the same.
THEOREM AnswerAlwaysLowHalf == Spec => []AnswerIsLowHalf
  <1>1. ASSUME IInv PROVE AnswerIsLowHalf
    <2> SUFFICES ASSUME answer # NoAnswer, asked # NoAnswer
                 PROVE  /\ answer = stored[asked] % Place[U64_BYTES]
                        /\ read_return_u64(ret) = Ok(answer)
      BY DEF AnswerIsLowHalf
    <2>1. ret = set_return_u64(as_u64(stored[asked])) /\ answer = as_u64(stored[asked])
      BY <1>1 DEF IInv, Answered
    <2>2. stored[asked] \in Int
      BY <1>1 DEF IInv, TypeOK
    <2>3. read_return_u64(ret) = Ok(answer)
      BY <2>1, <2>2, LowHalf
    <2> QED BY <2>1, <2>3 DEF as_u64
  <1> QED BY <1>1, Invariant, PTL
=============================================================================
