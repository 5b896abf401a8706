-------------------------- MODULE Bootstrap_proofs --------------------------
(***************************************************************************)
(* Proofs about bootstrap: for every number of participants and of starts, *)
(* all amounts, every maturity, and a stop at any statement.               *)
(***************************************************************************)
EXTENDS Bootstrap, SumTheorems, TLAPS

\* All that is assumed of the parameters but that the slack pays for the fees.
LEMMA Sizes ==
  /\ N \in Nat /\ N >= 1 /\ Maturity \in Nat /\ Maturity >= 1
  /\ Confirms \in 1 .. 6 /\ MaxStarts \in Nat /\ MaxStarts >= 1
BY ParametersAssumption

USE Sizes

Price == Capacity + OpenFee

LEMMA Amounts ==
  /\ Price \in Nat /\ Capacity \in Nat /\ OpenFee \in Nat
  /\ Funding \in Nat /\ N * Price <= Funding
<1>1. /\ Capacity \in Nat /\ OpenFee \in Nat /\ Slack \in Nat
      /\ N * OpenFee <= Slack
  BY ParametersAssumption
<1>2. N * Capacity \in Nat /\ N * OpenFee \in Nat
  BY <1>1
<1>3. N * (Capacity + OpenFee) = N * Capacity + N * OpenFee
  BY <1>1
<1> QED
  BY <1>1, <1>2, <1>3 DEF Price, Funding

\* What the channels to come cost: one price less with each, and one is left at the last.
LEMMA Prices ==
  ASSUME NEW k \in Participant
  PROVE  /\ (N - k) * Price \in Nat
         /\ (N - k) * Price = (N - (k + 1)) * Price + Price
         /\ (N - (k + 1)) * Price \in Nat
<1>1. N - k \in Nat /\ N - (k + 1) \in Nat
  BY DEF Participant
<1>2. \A a \in Nat : a * Price \in Nat /\ (a + 1) * Price = a * Price + Price
  BY Amounts
<1>3. N - k = (N - (k + 1)) + 1
  BY DEF Participant
<1> QED
  BY <1>1, <1>2, <1>3

LEMMA Products ==
  ASSUME NEW s \in Nat
  PROVE  /\ s * (N + 8) \in Nat /\ (s - 1) * (N + 8) \in Int
         /\ (s - 1) * (N + 8) + (N + 8) = s * (N + 8)
         /\ ((s + 1) - 1) * (N + 8) = s * (N + 8)
OBVIOUS

LEMMA MaxHeightType == MaxHeight \in Nat
BY Products DEF MaxHeight

LEMMA Monotone ==
  ASSUME NEW a \in Nat, NEW b \in Nat, NEW c \in Nat, a <= b
  PROVE  c * a <= c * b /\ a * c <= b * c /\ c * a \in Nat
<1>1. PICK d \in Nat : b = a + d
  <2>1. b - a \in Nat /\ b = a + (b - a)
    OBVIOUS
  <2> QED
    BY <2>1
<1>2. c * (a + d) = c * a + c * d /\ c * d \in Nat /\ c * a \in Nat
  OBVIOUS
<1>3. (a + d) * c = a * c + d * c /\ d * c \in Nat /\ a * c \in Nat
  OBVIOUS
<1> QED
  BY <1>1, <1>2, <1>3

LEMMA Moneys ==
  ASSUME NEW s \in Nat
  PROVE  /\ Funding * s \in Nat
         /\ Funding * ((s + 1) - 1) = Funding * s
         /\ s > 0 => /\ Funding * (s - 1) \in Nat
                     /\ Funding * (s - 1) + Funding = Funding * s
         /\ s <= MaxStarts => Funding * s <= Funding * MaxStarts
<1>1. \A a \in Nat : Funding * a \in Nat /\ Funding * a + Funding = Funding * (a + 1)
  BY Amounts
<1>2. s > 0 => s - 1 \in Nat /\ (s - 1) + 1 = s
  OBVIOUS
<1>3. s <= MaxStarts => Funding * s <= Funding * MaxStarts
  BY Amounts, Monotone
<1> QED
  BY <1>1, <1>2, <1>3

(***************************************************************************)
(* The value of a set of outputs.                                          *)
(***************************************************************************)
LEMMA ValueIsSum ==
  ASSUME NEW W, IsFiniteSet(W), NEW V \in SUBSET W, \A o \in W : o.value \in Nat
  PROVE  Value(V) = SumFunctionOnSet([o \in W |-> o.value], V)
<1> DEFINE f == [o \in V |-> o.value]
           g == [o \in W |-> o.value]
<1>1. DOMAIN f = V /\ \A o \in V : f[o] = g[o]
  OBVIOUS
<1>2. Value(V) = SumFunctionOnSet(f, V)
  BY <1>1 DEF Value, SumFunction
<1>3. IsFiniteSet(V)
  BY FS_Subset
<1> HIDE DEF f, g
<1>4. SumFunctionOnSet(f, V) = SumFunctionOnSet(g, V)
  BY <1>1, <1>3, SumSame
<1> QED
  BY <1>2, <1>4 DEF g

LEMMA ValueType ==
  ASSUME NEW V, IsFiniteSet(V), \A o \in V : o.value \in Nat
  PROVE  Value(V) \in Nat /\ \A o \in V : o.value <= Value(V)
<1> DEFINE g == [o \in V |-> o.value]
<1>1. \A o \in V : g[o] \in Nat /\ g[o] = o.value
  OBVIOUS
<1>2. Value(V) = SumFunctionOnSet(g, V)
  BY ValueIsSum
<1> HIDE DEF g
<1>3. \A o \in V : g[o] \in Nat
  BY <1>1
<1>4. SumFunctionOnSet(g, V) \in Nat /\ \A o \in V : g[o] <= SumFunctionOnSet(g, V)
  BY <1>3, SumNat
<1> QED
  BY <1>1, <1>2, <1>4

LEMMA ValueOfNone == Value({}) = 0
<1>1. IsFiniteSet({})
  BY FS_EmptySet
<1>2. Value({}) = SumFunctionOnSet([o \in {} |-> o.value], {})
  BY <1>1, ValueIsSum
<1> QED
  BY <1>2, SumOfNone

LEMMA ValueAdd ==
  ASSUME NEW V, IsFiniteSet(V), NEW o, o \notin V,
         \A p \in V \cup {o} : p.value \in Nat
  PROVE  Value(V \cup {o}) = Value(V) + o.value
<1> DEFINE W == V \cup {o}
           g == [p \in W |-> p.value]
<1>1. IsFiniteSet(W)
  BY FS_AddElement
<1>2. Value(W) = SumFunctionOnSet(g, W) /\ Value(V) = SumFunctionOnSet(g, V)
  BY <1>1, ValueIsSum
<1>3. g[o] = o.value /\ \A p \in W : g[p] \in Int
  OBVIOUS
<1> HIDE DEF g
<1>4. SumFunctionOnSet(g, V \cup {o}) = SumFunctionOnSet(g, V) + g[o]
  BY <1>3, SumAdd
<1> QED
  BY <1>2, <1>3, <1>4

LEMMA ValueSplit ==
  ASSUME NEW W, IsFiniteSet(W), NEW V \in SUBSET W, \A o \in W : o.value \in Nat
  PROVE  Value(W) = Value(V) + Value(W \ V)
<1> DEFINE g == [p \in W |-> p.value]
<1>1. /\ Value(W) = SumFunctionOnSet(g, W) /\ Value(V) = SumFunctionOnSet(g, V)
      /\ Value(W \ V) = SumFunctionOnSet(g, W \ V)
  BY ValueIsSum
<1>2. \A p \in W : g[p] \in Int
  OBVIOUS
<1> HIDE DEF g
<1> QED
  BY <1>1, <1>2, SumSplit

(***************************************************************************)
(* A block confirms what is pending, and changes nothing else: every       *)
(* element of Placed(set) is one of the set, at its block.                 *)
(***************************************************************************)
PlacedOne(r) == [r EXCEPT !.at = IF @ = 0 THEN height + 1 ELSE @]

Output == [start : 1 .. MaxStarts, from : -1 .. N - 1, value : Nat, at : 0 .. height]

LEMMA PlacedOutput ==
  ASSUME NEW o \in Output, height \in Nat
  PROVE  /\ PlacedOne(o).start = o.start /\ PlacedOne(o).from = o.from
         /\ PlacedOne(o).value = o.value
         /\ PlacedOne(o).at = (IF o.at = 0 THEN height + 1 ELSE o.at)
         /\ PlacedOne(o) = [start |-> o.start, from |-> o.from, value |-> o.value,
                            at |-> IF o.at = 0 THEN height + 1 ELSE o.at]
BY DEF PlacedOne, Output

LEMMA ValuePlaced ==
  ASSUME NEW V \in SUBSET Output, IsFiniteSet(V), height \in Nat
  PROVE  IsFiniteSet(Placed(V)) /\ Value(Placed(V)) = Value(V)
<1> DEFINE r == [o \in V |-> PlacedOne(o)]
           f == [o \in V |-> o.value]
           P == {r[o] : o \in V}
           g == [o \in P |-> o.value]
<1>1. Placed(V) = P
  BY DEF Placed, PlacedOne
<1>2. \A o \in V : r[o] \in P /\ r[o].value = o.value /\ o.value \in Nat
  BY PlacedOutput DEF Output
<1>3. \A o, p \in V : r[o] = r[p] => o = p
  <2> SUFFICES ASSUME NEW o \in V, NEW p \in V, PlacedOne(o) = PlacedOne(p) PROVE o = p
    OBVIOUS
  <2>1. o \in Output /\ p \in Output
    OBVIOUS
  <2>2. /\ o.start = p.start /\ o.from = p.from /\ o.value = p.value
        /\ (IF o.at = 0 THEN height + 1 ELSE o.at) = (IF p.at = 0 THEN height + 1 ELSE p.at)
    BY <2>1, PlacedOutput
  <2>3. o.at \in 0 .. height /\ p.at \in 0 .. height
    BY <2>1 DEF Output
  <2>4. o.at = p.at
    BY <2>2, <2>3
  <2> QED
    BY <2>1, <2>2, <2>4 DEF Output
<1>4. \A o \in V : f[o] \in Int /\ g[r[o]] = f[o]
  BY <1>2
<1>5. \A o \in P : o.value \in Nat
  BY <1>2
<1>6. IsFiniteSet(P)
  <2> HIDE DEF r
  <2> QED
    BY ImageFinite
<1>7. Value(P) = SumFunctionOnSet(g, P) /\ Value(V) = SumFunctionOnSet(f, V)
  BY <1>2, <1>5, <1>6, ValueIsSum
<1> HIDE DEF r, f, g
<1>8. SumFunctionOnSet(g, P) = SumFunctionOnSet(f, V)
  BY <1>3, <1>4, SumRenamed
<1> QED
  BY <1>1, <1>6, <1>7, <1>8

(***************************************************************************)
(* The loops of bootstrap, and how far the chain has grown.                *)
(***************************************************************************)
Quiet == UNCHANGED <<chain, cln>>

LEMMA NextLoopAt == TypeOK /\ LoopAt /\ [Next]_vars => LoopAt' /\ next' \in Participant
<1> SUFFICES ASSUME TypeOK, LoopAt, [Next]_vars PROVE LoopAt' /\ next' \in Participant
  OBVIOUS
<1> USE DEF LoopAt, Goto, Participant
<1>1. next \in Participant
  BY DEF TypeOK
<1>2. CASE Start
  BY <1>2 DEF Start
<1>3. CASE Statement
  <2>1. CASE OpenChannel
    BY <1>1, <2>1 DEF OpenChannel, AfterOpen, Advance
  <2>2. CASE WaitSynced
    BY <1>1, <2>2 DEF WaitSynced, Follow
  <2>3. CASE MineIfYoung \/ Fund \/ ConfirmFunding \/ WaitFunds \/ MineBetween
               \/ MineLast \/ WaitChannelsNormal
    BY <1>1, <2>3 DEF MineIfYoung, Fund, ConfirmFunding, WaitFunds, MineBetween,
                      MineLast, WaitChannelsNormal
  <2> QED
    BY <1>3, <2>1, <2>2, <2>3 DEF Statement
<1>4. CASE Stop
  BY <1>1, <1>4 DEF Stop
<1>5. CASE ClnFollows \/ (\E c \in channels : BecomesNormal(c)) \/ UNCHANGED vars
  BY <1>1, <1>5 DEF ClnFollows, BecomesNormal, vars
<1> QED
  BY <1>2, <1>3, <1>4, <1>5 DEF Next

LEMMA MinedBound ==
  TypeOK /\ LoopAt => Mined \in 0 .. N + 8
BY DEF TypeOK, LoopAt, Mined, Participant

\* The bound on the height of the chain is one for all the starts.
LEMMA HeightInRange ==
  ASSUME TypeOK, LoopAt, HeightSoFar
  PROVE  /\ height <= Maturity + 1 + starts * (N + 8)
         /\ height <= MaxHeight
<1>1. starts \in Nat /\ starts <= MaxStarts /\ height \in Int
  BY DEF TypeOK, Block
<1>2. Mined \in Int /\ Mined <= N + 8
  BY MinedBound
<1>3. /\ starts * (N + 8) \in Nat /\ (starts - 1) * (N + 8) \in Int
      /\ (starts - 1) * (N + 8) + (N + 8) = starts * (N + 8)
  BY <1>1, Products
<1>4. height <= Maturity + 1 + (starts - 1) * (N + 8) + Mined
  BY DEF HeightSoFar
<1>5. starts * (N + 8) <= MaxStarts * (N + 8) /\ MaxStarts * (N + 8) \in Nat
  BY <1>1, Monotone, Products
<1> QED
  BY <1>1, <1>2, <1>3, <1>4, <1>5 DEF MaxHeight

LEMMA HeightAfter ==
  ASSUME starts' \in 0 .. MaxStarts, next' \in Participant, LoopAt', HeightSoFar',
         height' \in Int
  PROVE  height' <= MaxHeight
<1>1. Mined' \in 0 .. N + 8
  BY DEF LoopAt, Mined, Participant
<1> DEFINE m == Mined'
           s == starts'
<1>2. height' <= Maturity + 1 + (s - 1) * (N + 8) + m
  BY DEF HeightSoFar
<1>3. s \in Nat /\ s <= MaxStarts /\ m \in Int /\ m <= N + 8
  BY <1>1
<1> HIDE DEF m, s
<1>4. /\ s * (N + 8) \in Nat /\ (s - 1) * (N + 8) \in Int
      /\ (s - 1) * (N + 8) + (N + 8) = s * (N + 8)
  BY <1>3, Products
<1>5. s * (N + 8) <= MaxStarts * (N + 8) /\ MaxStarts * (N + 8) \in Nat
  BY <1>3, Monotone, Products
<1> QED
  BY <1>2, <1>3, <1>4, <1>5 DEF MaxHeight

LEMMA NextHeight ==
  TypeOK /\ LoopAt /\ HeightSoFar /\ [Next]_vars => HeightSoFar' /\ height' \in Nat
<1> SUFFICES ASSUME TypeOK, LoopAt, HeightSoFar, [Next]_vars
             PROVE  HeightSoFar' /\ height' \in Nat
  OBVIOUS
<1>1. /\ starts \in Nat /\ next \in Participant /\ height \in Nat
      /\ pc \in Working \cup {"off", "rounds", "refused", "stopped"}
  BY DEF TypeOK, Block
<1>2. /\ (starts - 1) * (N + 8) \in Int
      /\ (starts - 1) * (N + 8) + (N + 8) = starts * (N + 8)
      /\ ((starts + 1) - 1) * (N + 8) = starts * (N + 8)
  BY <1>1, Products
<1>3. height <= Maturity + 1 + (starts - 1) * (N + 8) + Mined
  BY DEF HeightSoFar
<1>4. Mined \in Int /\ Mined <= N + 8
  BY MinedBound
<1> DEFINE base == (starts - 1) * (N + 8)
<1>5. base \in Int /\ height <= Maturity + 1 + base + Mined
  BY <1>2, <1>3
<1> HIDE DEF base
<1>6. CASE Start
  <2>1. starts' = starts + 1 /\ pc' = "mature" /\ height' = height
    BY <1>6 DEF Start, chain
  <2>2. Mined' = 0
    BY <2>1 DEF Mined
  <2>3. (starts' - 1) * (N + 8) = base + (N + 8)
    BY <1>2, <2>1 DEF base
  <2>4. height' <= Maturity + 1 + (starts' - 1) * (N + 8) + Mined'
    BY <1>1, <1>4, <1>5, <2>1, <2>2, <2>3
  <2>5. /\ starts' # 0 /\ (height = 0 \/ height >= Maturity + 1)
        /\ UNCHANGED <<coins, spends, wallet, channels>>
    BY <1>1, <1>6, <2>1 DEF HeightSoFar, Start, chain, cln
  <2> QED
    BY <1>1, <2>1, <2>4, <2>5 DEF HeightSoFar
<1>7. ASSUME Statement, starts' = starts, pc # "off", starts > 0,
             height' \in Nat, height' >= Maturity + 1, pc' # "off",
             height' + Mined <= height + Mined', Mined' \in Int
      PROVE  HeightSoFar'
  <2>1. (starts' - 1) * (N + 8) = base
    BY <1>7 DEF base
  <2>0. \A h, k, m, n, b \in Int : k + m <= h + n /\ h <= Maturity + 1 + b + m
                                    => k <= Maturity + 1 + b + n
    OBVIOUS
  <2>2. height' <= Maturity + 1 + base + Mined'
    <3>1. height \in Int /\ height' \in Int /\ Mined \in Int /\ Mined' \in Int
      BY <1>1, <1>4, <1>7
    <3> QED
      BY <2>0, <3>1, <1>5, <1>7
  <2> QED
    BY <1>7, <2>1, <2>2 DEF HeightSoFar
<1>8. CASE Statement
  <2>1. /\ starts' = starts /\ pc # "off" /\ starts > 0 /\ pc' # "off"
        /\ pc # "mature" => height >= Maturity + 1
    BY <1>1, <1>8
    DEF Statement, MineIfYoung, Fund, ConfirmFunding, WaitSynced, WaitFunds,
        OpenChannel, MineBetween, MineLast, WaitChannelsNormal, Goto, Follow,
        AfterOpen, HeightSoFar
  <2>2. next' \in Participant /\ LoopAt'
    BY NextLoopAt
  <2>3. CASE MineIfYoung
    <3>1. pc = "mature" /\ pc' = "fund" /\ Mined = 0 /\ Mined' = 0
      BY <2>3 DEF MineIfYoung, Goto, Mined
    <3>2. CASE height < Maturity + 1
      <4>1. height = 0 /\ height' = Maturity + 1
        BY <1>1, <2>3, <3>2 DEF MineIfYoung, Mine, HeightSoFar
      <4>2. (starts' - 1) * (N + 8) \in Nat
        BY <1>1, <2>1, Products
      <4>3. height' <= Maturity + 1 + (starts' - 1) * (N + 8) + Mined'
        BY <3>1, <4>1, <4>2
      <4> QED
        BY <2>1, <3>1, <4>1, <4>3 DEF HeightSoFar
    <3>3. CASE height >= Maturity + 1
      <4>1. height' = height
        BY <1>1, <2>3, <3>3 DEF MineIfYoung, chain
      <4> QED
        BY <1>1, <1>7, <1>8, <2>1, <3>1, <3>3, <4>1
    <3> QED
      BY <1>1, <3>2, <3>3
  <2>4. CASE Fund
    <3>1. height' = height /\ pc = "fund" /\ pc' \in {"refused", "confirm"}
      BY <2>4 DEF Fund, Goto, chain
    <3>2. Mined = 0 /\ Mined' \in Nat
      BY <3>1 DEF Mined
    <3>3. height' \in Nat /\ height' >= Maturity + 1
      BY <1>1, <2>1, <3>1
    <3>4. height' + Mined <= height + Mined'
      <4>1. \A m \in Nat : height + 0 <= height + m
        BY <1>1
      <4> QED
        BY <3>1, <3>2, <4>1
    <3> QED
      BY <1>7, <1>8, <2>1, <3>2, <3>3, <3>4
  <2>5. CASE ConfirmFunding
    <3>1. height' = height + 3 /\ pc = "confirm" /\ pc' = "syncFunds"
      BY <2>5 DEF ConfirmFunding, Goto, Mine
    <3>2. Mined = 0 /\ Mined' = 3
      BY <3>1 DEF Mined
    <3> QED
      BY <1>1, <1>7, <1>8, <2>1, <3>1, <3>2
  <2>6. CASE WaitSynced
    <3>1. /\ height' = height /\ next' = next
          /\ \/ pc = "syncFunds" /\ pc' = "funds"
             \/ pc = "syncOpen" /\ pc' = "open"
             \/ pc = "syncNormal" /\ pc' = "normal"
      BY <2>6 DEF WaitSynced, Follow, Goto, chain
    <3>2. Mined' = Mined
      BY <3>1 DEF Mined
    <3> QED
      BY <1>1, <1>4, <1>7, <1>8, <2>1, <3>1, <3>2
  <2>7. CASE WaitFunds
    <3>1. height' = height /\ pc = "funds" /\ pc' = "open" /\ next' = next /\ next = 0
      BY <2>7 DEF WaitFunds, Goto, chain, LoopAt
    <3>2. Mined = 3 /\ Mined' = 3
      BY <3>1 DEF Mined
    <3> QED
      BY <1>1, <1>7, <1>8, <2>1, <3>1, <3>2
  <2>8. CASE OpenChannel
    <3>1. height' = height /\ pc = "open"
      BY <2>8 DEF OpenChannel, chain
    <3>2. \/ pc' = "refused"
          \/ pc' = "mineOne" /\ next' = next + 1
          \/ pc' = "mineSix" /\ next = N - 1
      BY <1>1, <2>8 DEF OpenChannel, Goto, AfterOpen, Advance, Participant
    <3>3. Mined = 3 + next /\ Mined' \in {N + 8, 3 + next}
      BY <1>1, <3>1, <3>2 DEF Mined, Participant
    <3>4. Mined <= Mined' /\ Mined' \in Int
      BY <1>1, <3>3 DEF Participant
    <3>5. height' \in Nat /\ height' >= Maturity + 1
      BY <1>1, <2>1, <3>1
    <3>6. height' + Mined <= height + Mined'
      <4>1. \A m, n \in Int : m <= n => height + m <= height + n
        BY <1>1
      <4> QED
        BY <1>4, <3>1, <3>4, <4>1
    <3> QED
      BY <1>7, <1>8, <2>1, <3>4, <3>5, <3>6
  <2>9. CASE MineBetween
    <3>1. height' = height + 1 /\ pc = "mineOne" /\ pc' = "syncOpen" /\ next' = next
      BY <2>9 DEF MineBetween, Goto, Mine
    <3>2. Mined = 2 + next /\ Mined' = 3 + next
      BY <3>1 DEF Mined
    <3> QED
      BY <1>1, <1>7, <1>8, <2>1, <3>1, <3>2 DEF Participant
  <2>10. CASE MineLast
    <3>1. height' = height + 6 /\ pc = "mineSix" /\ pc' = "syncNormal"
      BY <2>10 DEF MineLast, Goto, Mine
    <3>2. Mined = 2 + N /\ Mined' = N + 8
      BY <3>1 DEF Mined
    <3> QED
      BY <1>1, <1>7, <1>8, <2>1, <3>1, <3>2
  <2>11. CASE WaitChannelsNormal
    <3>1. height' = height /\ pc = "normal" /\ pc' = "rounds"
      BY <2>11 DEF WaitChannelsNormal, Goto, chain
    <3>2. Mined = N + 8 /\ Mined' = N + 8
      BY <3>1 DEF Mined
    <3> QED
      BY <1>1, <1>7, <1>8, <2>1, <3>1, <3>2
  <2>12. height' \in Nat
    BY <1>1, <1>8 DEF Statement, MineIfYoung, Fund, ConfirmFunding, WaitSynced,
       WaitFunds, OpenChannel, MineBetween, MineLast, WaitChannelsNormal, Mine, chain
  <2> QED
    BY <1>8, <2>3, <2>4, <2>5, <2>6, <2>7, <2>8, <2>9, <2>10, <2>11, <2>12
    DEF Statement
<1>9. CASE Stop
  <2>1. /\ pc \in Working /\ pc' = "stopped" /\ UNCHANGED <<starts, next, chain, cln>>
    BY <1>9 DEF Stop, Goto
  <2>2. height' = height /\ Mined' = N + 8 /\ starts' = starts /\ starts # 0
    BY <2>1 DEF Mined, chain, HeightSoFar, Working, Waiting
  <2>3. (starts' - 1) * (N + 8) = base
    BY <2>2 DEF base
  <2>4. height' <= Maturity + 1 + (starts' - 1) * (N + 8) + Mined'
    BY <1>1, <1>4, <1>5, <2>2, <2>3
  <2> QED
    BY <1>1, <2>1, <2>2, <2>4 DEF HeightSoFar, chain, cln
<1>10. CASE ClnFollows \/ (\E c \in channels : BecomesNormal(c)) \/ UNCHANGED vars
  <2>1. /\ UNCHANGED <<starts, pc, next, height, coins, spends, wallet>>
        /\ channels = {} => channels' = {}
    BY <1>10 DEF ClnFollows, BecomesNormal, vars, chain, cln
  <2>2. Mined' = Mined
    BY <2>1 DEF Mined
  <2>3. (starts' - 1) * (N + 8) = (starts - 1) * (N + 8)
    BY <2>1
  <2> QED
    BY <1>1, <2>1, <2>2, <2>3 DEF HeightSoFar
<1> QED
  BY <1>1, <1>6, <1>8, <1>9, <1>10 DEF Next, HeightSoFar

(***************************************************************************)
(* The channels: one with each participant that the loop has passed.       *)
(***************************************************************************)
Channel(h) == [peer : Participant, start : 1 .. MaxStarts, at : 0 .. h, normal : BOOLEAN]

LEMMA PlacedChannel ==
  ASSUME NEW c \in Channel(height), height \in Nat
  PROVE  /\ PlacedOne(c).peer = c.peer
         /\ PlacedOne(c) \in Channel(height + 1)
BY DEF PlacedOne, Channel

\* The steps that touch no channel.
LEMMA SameChannels ==
  ASSUME TypeOK, ChannelsSoFar, UNCHANGED <<channels, starts, next>>,
         height' \in Nat, height <= height',
         pc' # "rounds" \/ pc = "rounds",
         pc' \in {"mature", "fund"} \cup Opening => pc \in {"mature", "fund"} \cup Opening
  PROVE  ChannelsSoFar' /\ channels' \subseteq Channel(height')
<1>1. NormalPeers' = NormalPeers
  BY DEF NormalPeers
<1>2. channels' \subseteq Channel(height')
  BY DEF TypeOK, Channel, Block
<1> QED
  BY <1>1, <1>2 DEF ChannelsSoFar

\* A block leaves every channel the peer it has.
LEMMA MinedChannels ==
  ASSUME TypeOK, ChannelsSoFar, NEW n \in Nat, n >= 1, Mine(n),
         UNCHANGED <<starts, next>>, pc' # "rounds", pc \in {"mature", "fund"} \cup Opening
           \/ pc' \notin {"mature", "fund"} \cup Opening
  PROVE  ChannelsSoFar' /\ channels' \subseteq Channel(height')
<1>1. height \in Nat /\ height' = height + n /\ channels \subseteq Channel(height)
  BY DEF TypeOK, Block, Channel, Mine
<1>2. channels' = {PlacedOne(c) : c \in channels}
  BY DEF Mine, Placed, PlacedOne
<1>3. \A e \in channels' : \E c \in channels : e = PlacedOne(c) /\ e.peer = c.peer
  BY <1>1, <1>2, PlacedChannel
<1>4. channels' \subseteq Channel(height')
  <2>1. channels' \subseteq Channel(height + 1)
    BY <1>1, <1>2, PlacedChannel
  <2>2. Channel(height + 1) \subseteq Channel(height')
    BY <1>1 DEF Channel
  <2> QED
    BY <2>1, <2>2
<1>5. ASSUME starts' = 1 PROVE \A e, f \in channels' : e.peer = f.peer => e = f
  <2> SUFFICES ASSUME NEW e \in channels', NEW f \in channels', e.peer = f.peer
               PROVE  e = f
    OBVIOUS
  <2>1. PICK c \in channels : e = PlacedOne(c) /\ e.peer = c.peer
    BY <1>3
  <2>2. PICK d \in channels : f = PlacedOne(d) /\ f.peer = d.peer
    BY <1>3
  <2>3. c = d
    BY <1>5, <2>1, <2>2 DEF ChannelsSoFar
  <2> QED
    BY <2>1, <2>2, <2>3
<1>6. ASSUME starts' = 1, pc' \in {"mature", "fund"} \cup Opening, NEW e \in channels'
      PROVE  e.peer < next'
  <2>1. PICK c \in channels : e.peer = c.peer
    BY <1>3
  <2>2. c.peer < next /\ next' = next
    BY <1>6 DEF ChannelsSoFar
  <2> QED
    BY <2>1, <2>2
<1> QED
  BY <1>4, <1>5, <1>6 DEF ChannelsSoFar

LEMMA OpenedChannels ==
  ASSUME TypeOK, ChannelsSoFar, starts \in Nat, starts >= 1, OpenChannel, pc' # "refused"
  PROVE  ChannelsSoFar' /\ channels' \subseteq Channel(height')
<1> DEFINE new == [peer |-> next, start |-> starts, at |-> 0, normal |-> FALSE]
<1>1. /\ channels' = channels \cup {new} /\ height' = height /\ starts' = starts
      /\ pc = "open" /\ pc' \in {"mineOne", "mineSix"}
      /\ pc' = "mineOne" => next' = next + 1
      /\ height \in Nat /\ next \in Participant /\ starts \in 1 .. MaxStarts
      /\ channels \subseteq Channel(height)
  BY DEF OpenChannel, AfterOpen, Advance, Goto, TypeOK, Block, Channel, chain
<1>2. new \in Channel(height) /\ new.peer = next
  BY <1>1 DEF Channel
<1> HIDE DEF new
<1>3. \A c \in channels : starts = 1 => c.peer < next
  BY <1>1 DEF ChannelsSoFar, Opening
<1>4. \A c \in channels : c.peer \in Int
  BY <1>1 DEF Channel, Participant
<1>5. next \in Int
  BY <1>1 DEF Participant
<1>6. ASSUME starts' = 1 PROVE \A e, f \in channels' : e.peer = f.peer => e = f
  <2>1. \A c \in channels : c.peer < next
    BY <1>1, <1>3, <1>6
  <2>2. \A c \in channels : c.peer # new.peer
    BY <1>2, <1>4, <1>5, <2>1
  <2>3. \A c, d \in channels : c.peer = d.peer => c = d
    BY <1>1, <1>6 DEF ChannelsSoFar
  <2> QED
    BY <1>1, <2>2, <2>3
<1>7. ASSUME starts' = 1, pc' \in {"mature", "fund"} \cup Opening, NEW e \in channels'
      PROVE  e.peer < next'
  <2>1. next' = next + 1
    BY <1>1, <1>7 DEF Opening
  <2>2. CASE e = new
    BY <1>2, <1>5, <2>1, <2>2
  <2>3. CASE e \in channels
    <3>1. e.peer < next /\ e.peer \in Int
      BY <1>1, <1>3, <1>4, <1>7, <2>3
    <3> QED
      BY <1>5, <2>1, <3>1
  <2> QED
    BY <1>1, <2>2, <2>3
<1>8. channels' \subseteq Channel(height')
  BY <1>1, <1>2
<1> QED
  BY <1>1, <1>6, <1>7, <1>8 DEF ChannelsSoFar

LEMMA LockedChannels ==
  ASSUME TypeOK, ChannelsSoFar, NEW c \in channels, BecomesNormal(c)
  PROVE  ChannelsSoFar' /\ channels' \subseteq Channel(height')
<1> DEFINE new == [c EXCEPT !.normal = TRUE]
<1>1. /\ channels' = (channels \ {c}) \cup {new}
      /\ UNCHANGED <<starts, pc, next, height>>
      /\ channels \subseteq Channel(height)
  BY DEF BecomesNormal, TypeOK, Channel, chain
<1>2. new \in Channel(height) /\ new.peer = c.peer /\ new.normal
  BY <1>1 DEF Channel
<1> HIDE DEF new
<1>3. ASSUME pc' = "rounds" PROVE NormalPeers' = Participant
  <2>1. NormalPeers = Participant /\ \A d \in channels' : d.peer \in Participant
    BY <1>1, <1>2, <1>3 DEF ChannelsSoFar, Channel
  <2>2. ASSUME NEW p \in Participant PROVE p \in NormalPeers'
    <3>1. PICK d \in channels : d.normal /\ d.peer = p
      BY <2>1 DEF NormalPeers
    <3>2. \E e \in channels' : e.normal /\ e.peer = p
      BY <1>1, <1>2, <3>1
    <3> QED
      BY <3>2 DEF NormalPeers
  <2> QED
    BY <2>1, <2>2 DEF NormalPeers
<1>4. ASSUME starts' = 1 PROVE \A e, f \in channels' : e.peer = f.peer => e = f
  <2>1. \A d, e \in channels : d.peer = e.peer => d = e
    BY <1>1, <1>4 DEF ChannelsSoFar
  <2> QED
    BY <1>1, <1>2, <2>1
<1>5. ASSUME starts' = 1, pc' \in {"mature", "fund"} \cup Opening, NEW e \in channels'
      PROVE  e.peer < next'
  <2>1. \A d \in channels : d.peer < next
    BY <1>1, <1>5 DEF ChannelsSoFar
  <2> QED
    BY <1>1, <1>2, <2>1
<1>6. channels' \subseteq Channel(height')
  BY <1>1, <1>2
<1> QED
  BY <1>3, <1>4, <1>5, <1>6 DEF ChannelsSoFar

\* N peers with a usable channel are all the participants.
LEMMA EverybodyCounted ==
  ASSUME TypeOK, Cardinality(NormalPeers) >= N
  PROVE  NormalPeers = Participant
<1>1. IsFiniteSet(Participant) /\ Cardinality(Participant) = N
  <2>1. 0 \in Int /\ N - 1 \in Int /\ 0 <= N
    OBVIOUS
  <2>2. IsFiniteSet(0 .. N - 1)
    BY <2>1, FS_Interval
  <2>3. Cardinality(0 .. N - 1) = (N - 1) - 0 + 1
    BY <2>1, FS_Interval
  <2> QED
    BY <2>2, <2>3 DEF Participant
<1>2. NormalPeers \subseteq Participant
  BY DEF TypeOK, NormalPeers
<1>3. /\ IsFiniteSet(NormalPeers) /\ Cardinality(NormalPeers) <= N
      /\ Cardinality(Participant) = Cardinality(NormalPeers) => Participant = NormalPeers
  BY <1>1, <1>2, FS_Subset
<1>4. Cardinality(NormalPeers) \in Nat
  BY <1>3, FS_CardinalityType
<1>5. Cardinality(NormalPeers) = N
  BY <1>3, <1>4
<1> QED
  BY <1>1, <1>3, <1>5

LEMMA NextChannels ==
  TypeOK /\ LoopAt /\ HeightSoFar /\ ChannelsSoFar /\ [Next]_vars
    => ChannelsSoFar' /\ channels' \subseteq Channel(height')
<1> SUFFICES ASSUME TypeOK, LoopAt, HeightSoFar, ChannelsSoFar, [Next]_vars
             PROVE  ChannelsSoFar' /\ channels' \subseteq Channel(height')
  OBVIOUS
<1>1. height \in Nat /\ height' \in Nat /\ starts \in Nat
  BY NextHeight DEF TypeOK, Block
<1>2. CASE Start
  <2>1. /\ channels' = channels /\ height' = height /\ pc' = "mature"
        /\ starts' = starts + 1
    BY <1>2 DEF Start, chain, cln
  <2>2. starts' = 1 => channels' = {}
    BY <1>1, <2>1 DEF HeightSoFar
  <2>3. channels' \subseteq Channel(height')
    BY <2>1 DEF TypeOK, Channel
  <2> QED
    BY <2>1, <2>2, <2>3 DEF ChannelsSoFar
<1>3. CASE Statement
  <2>1. CASE WaitChannelsNormal
    <3>1. /\ UNCHANGED <<channels, starts, height>>
          /\ pc' = "rounds" /\ NormalPeers = Participant
      BY <2>1, EverybodyCounted DEF WaitChannelsNormal, Goto, chain, cln
    <3>2. NormalPeers' = NormalPeers
      BY <3>1 DEF NormalPeers
    <3>3. channels' \subseteq Channel(height')
      BY <3>1 DEF TypeOK, Channel
    <3> QED
      BY <3>1, <3>2, <3>3 DEF ChannelsSoFar, Opening
  <2>2. CASE OpenChannel
    <3>1. CASE pc' = "refused"
      <4>1. UNCHANGED <<channels, starts, next, height>>
        BY <2>2, <3>1 DEF OpenChannel, Goto, AfterOpen, chain
      <4> QED
        BY <1>1, <3>1, <4>1, SameChannels DEF Opening
    <3>2. CASE pc' # "refused"
      <4>1. starts >= 1
        BY <1>1, <2>2 DEF HeightSoFar, OpenChannel
      <4> QED
        BY <1>1, <2>2, <3>2, <4>1, OpenedChannels
    <3> QED
      BY <3>1, <3>2
  <2>3. ASSUME NEW n \in Nat, n >= 1, Mine(n), UNCHANGED <<starts, next>>,
               \/ pc = "mature" /\ pc' = "fund"
               \/ pc = "confirm" /\ pc' = "syncFunds"
               \/ pc = "mineOne" /\ pc' = "syncOpen"
               \/ pc = "mineSix" /\ pc' = "syncNormal"
        PROVE  ChannelsSoFar' /\ channels' \subseteq Channel(height')
    BY <2>3, MinedChannels DEF Opening
  <2>4. CASE MineIfYoung
    <3>1. CASE height < Maturity + 1
      BY <2>3, <2>4, <3>1 DEF MineIfYoung, Goto
    <3>2. CASE ~(height < Maturity + 1)
      <4>1. UNCHANGED <<channels, starts, next, height>> /\ pc = "mature" /\ pc' = "fund"
        BY <2>4, <3>2 DEF MineIfYoung, Goto, chain, cln
      <4> QED
        BY <1>1, <4>1, SameChannels
    <3> QED
      BY <3>1, <3>2
  <2>5. CASE ConfirmFunding
    BY <2>3, <2>5 DEF ConfirmFunding, Goto
  <2>6. CASE MineBetween
    BY <2>3, <2>6 DEF MineBetween, Goto
  <2>7. CASE MineLast
    BY <2>3, <2>7 DEF MineLast, Goto
  <2>8. CASE Fund
    <3>1. /\ UNCHANGED <<channels, starts, next, height>>
          /\ pc = "fund" /\ pc' \in {"refused", "confirm"}
      BY <2>8 DEF Fund, Goto, chain, cln
    <3> QED
      BY <1>1, <3>1, SameChannels
  <2>9. CASE WaitSynced \/ WaitFunds
    <3>1. /\ UNCHANGED <<channels, starts, next, height>>
          /\ \/ pc \in Opening /\ pc' \in Opening
             \/ pc = "syncNormal" /\ pc' = "normal"
      BY <2>9 DEF WaitSynced, WaitFunds, Follow, Goto, Opening, chain, cln
    <3> QED
      BY <1>1, <3>1, SameChannels DEF Opening
  <2> QED
    BY <1>3, <2>1, <2>2, <2>4, <2>5, <2>6, <2>7, <2>8, <2>9 DEF Statement
<1>4. CASE Stop
  <2>1. UNCHANGED <<channels, starts, next, height>> /\ pc' = "stopped"
    BY <1>4 DEF Stop, Goto, chain, cln
  <2> QED
    BY <1>1, <2>1, SameChannels DEF Opening
<1>5. CASE ClnFollows \/ UNCHANGED vars
  <2>1. UNCHANGED <<channels, starts, next, height, pc>>
    BY <1>5 DEF ClnFollows, vars, chain, cln
  <2> QED
    BY <1>1, <2>1, SameChannels
<1>6. CASE \E c \in channels : BecomesNormal(c)
  BY <1>6, LockedChannels
<1> QED
  BY <1>2, <1>3, <1>4, <1>5, <1>6 DEF Next

(***************************************************************************)
(* The coins: a start finds one that nobody has spent, unless an earlier   *)
(* start's spend of it is pending.                                         *)
(***************************************************************************)
CoinsTyped ==
  /\ coins \subseteq Coin /\ \A u \in coins : u.at <= height
  /\ spends \subseteq [coin : Coin, at : 0 .. height]
  /\ listed.height \in Block /\ listed.coin \in Coin

LEMMA PlacedCoin ==
  ASSUME NEW u \in Coin, u.at <= height, height \in Nat
  PROVE  /\ u.at # 0 => PlacedOne(u) = u
         /\ u.at = 0 => PlacedOne(u).at = height + 1
         /\ PlacedOne(u).at <= height + 1
         /\ height + 1 <= MaxHeight => PlacedOne(u) \in Coin
BY DEF PlacedOne, Coin, Block

LEMMA PlacedSpend ==
  ASSUME NEW s \in [coin : Coin, at : 0 .. height], height \in Nat
  PROVE  /\ PlacedOne(s).coin = s.coin /\ PlacedOne(s).at # 0
         /\ PlacedOne(s) \in [coin : Coin, at : 0 .. height + 1]
BY DEF PlacedOne

LEMMA CoinbaseIsCoin ==
  ASSUME NEW h \in Nat, h <= MaxHeight
  PROVE  Coinbase(h) \in Coin /\ Coinbase(h).at = h
BY DEF Coinbase, Coin, Block

Unclaimed == {u \in coins : \A s \in spends : s.at = 0 => s.coin # u}

\* Blocks confirm every spend, and take what it spends from the coins.
LEMMA MinedCoins ==
  ASSUME TypeOK, CoinsSoFar, NEW n \in Nat, n >= 1, Mine(n), height + n <= MaxHeight,
         height > 0 \/ (spends = {} /\ n >= Maturity + 1)
  PROVE  CoinsSoFar' /\ CoinsTyped'
<1>1. /\ height \in Nat /\ height' = height + n /\ listed' = listed
      /\ spends' = {PlacedOne(s) : s \in spends}
      /\ coins' = {PlacedOne(u) : u \in Unclaimed}
                    \cup {Coinbase(h) : h \in height + 1 .. height + n}
      /\ coins \subseteq Coin /\ \A u \in coins : u.at <= height
      /\ spends \subseteq [coin : Coin, at : 0 .. height]
      /\ listed.height \in Block /\ listed.coin \in Coin
      /\ (\A u \in coins : u.at \in Nat) /\ height + 1 <= MaxHeight
      /\ \A h \in 1 .. height' : h \in Nat /\ h <= MaxHeight
  BY MaxHeightType DEF TypeOK, Mine, Placed, PlacedOne, Unclaimed, Block, Coin
<1>2. ASSUME NEW t \in spends'
      PROVE  \E s \in spends : t = PlacedOne(s) /\ t.coin = s.coin /\ t.at # 0
  BY <1>1, PlacedSpend
<1>3. ASSUME NEW s \in spends PROVE \E t \in spends' : t.coin = s.coin
  BY <1>1, PlacedSpend
<1>4. ASSUME NEW h \in 1 .. height'
      PROVE  Coinbase(h) \in coins' \/ \E t \in spends' : t.coin = Coinbase(h)
  <2>1. CASE h > height
    BY <1>1, <2>1
  <2>2. CASE h <= height
    <3>1. h \in 1 .. height /\ h \in Nat /\ h <= MaxHeight
      BY <1>1, <1>4, <2>2
    <3>2. CASE Coinbase(h) \in Unclaimed
      <4>1. PlacedOne(Coinbase(h)) = Coinbase(h)
        BY <1>1, <3>1, CoinbaseIsCoin, PlacedCoin
      <4> QED
        BY <1>1, <3>2, <4>1
    <3>3. CASE Coinbase(h) \in coins /\ Coinbase(h) \notin Unclaimed
      BY <1>3, <3>3 DEF Unclaimed
    <3>4. CASE Coinbase(h) \notin coins
      BY <1>3, <3>1, <3>4 DEF CoinsSoFar
    <3> QED
      BY <3>2, <3>3, <3>4
  <2> QED
    BY <1>1, <2>1, <2>2
<1>5. ASSUME NEW t \in spends'
      PROVE  t.coin.at \in 1 .. height' - Maturity /\ t.coin \notin coins'
  <2>1. PICK s \in spends : t.coin = s.coin
    BY <1>2
  <2>2. s.coin.at \in 1 .. height - Maturity /\ (s.coin \in coins <=> s.at = 0)
    BY DEF CoinsSoFar
  <2>3. s.coin \notin Unclaimed
    BY <2>2 DEF Unclaimed
  <2>4. ASSUME NEW u \in Unclaimed PROVE s.coin # PlacedOne(u)
    <3>1. u \in Coin /\ u.at <= height /\ u.at \in Nat
      BY <1>1 DEF Unclaimed
    <3>2. CASE u.at = 0
      <4>1. PlacedOne(u).at = height + 1
        BY <1>1, <3>1, <3>2, PlacedCoin
      <4> QED
        BY <1>1, <2>2, <4>1
    <3>3. CASE u.at # 0
      BY <1>1, <2>3, <3>1, <3>3, PlacedCoin
    <3> QED
      BY <3>2, <3>3
  <2>5. ASSUME NEW h \in height + 1 .. height + n PROVE s.coin # Coinbase(h)
    <3>1. h \in 1 .. height' /\ h > height
      BY <1>1, <2>5
    <3>2. Coinbase(h).at = h
      BY <1>1, <3>1, CoinbaseIsCoin
    <3> QED
      BY <1>1, <2>2, <3>1, <3>2
  <2> QED
    BY <1>1, <2>1, <2>2, <2>4, <2>5
<1>6. Pending' = {}
  BY <1>2 DEF Pending
<1>7. IsFiniteSet(spends') /\ Cardinality(spends') <= Cardinality(spends)
  <2> DEFINE f == [s \in spends |-> PlacedOne(s)]
  <2>1. f \in Surjection(spends, spends') /\ IsFiniteSet(spends)
    BY <1>1 DEF Surjection, CoinsSoFar
  <2> HIDE DEF f
  <2> QED
    BY <2>1, FS_Surjection
<1>8. Cardinality(spends') + Maturity + 1 <= height'
  <2>1. Cardinality(spends) \in Nat /\ Cardinality(spends') \in Nat
    BY <1>7, FS_CardinalityType DEF CoinsSoFar
  <2>2. CASE height > 0
    <3>1. Cardinality(spends) + Maturity <= height
      <4>1. Cardinality(spends) + Maturity + (IF Pending = {} THEN 1 ELSE 0) <= height
        BY <2>2 DEF CoinsSoFar
      <4> QED
        BY <1>1, <2>1, <4>1
    <3> QED
      BY <1>1, <1>7, <2>1, <3>1
  <2>3. CASE spends = {} /\ n >= Maturity + 1
    <3>1. Cardinality(spends) = 0
      BY <2>3, FS_EmptySet
    <3> QED
      BY <1>1, <1>7, <2>1, <2>3, <3>1
  <2> QED
    BY <2>2, <2>3
<1>9. CoinsTyped'
  <2>1. spends' \subseteq [coin : Coin, at : 0 .. height']
    <3>1. [coin : Coin, at : 0 .. height + 1] \subseteq [coin : Coin, at : 0 .. height']
      BY <1>1
    <3> QED
      BY <1>1, <3>1, PlacedSpend
  <2>2. ASSUME NEW e \in coins' PROVE e \in Coin /\ e.at <= height'
    <3>1. CASE \E u \in Unclaimed : e = PlacedOne(u)
      <4>1. PICK u \in Unclaimed : e = PlacedOne(u)
        BY <3>1
      <4>2. u \in Coin /\ u.at <= height
        BY <1>1 DEF Unclaimed
      <4>3. e \in Coin /\ e.at <= height + 1
        BY <1>1, <4>1, <4>2, PlacedCoin
      <4> QED
        BY <1>1, <4>3 DEF Coin, Block
    <3>2. CASE \E h \in height + 1 .. height + n : e = Coinbase(h)
      <4>1. PICK h \in height + 1 .. height + n : e = Coinbase(h)
        BY <3>2
      <4>2. h \in 1 .. height'
        BY <1>1, <4>1
      <4>3. e \in Coin /\ e.at = h
        BY <1>1, <4>1, <4>2, CoinbaseIsCoin
      <4> QED
        BY <4>2, <4>3
    <3> QED
      BY <1>1, <3>1, <3>2
  <2> QED
    BY <1>1, <2>1, <2>2 DEF CoinsTyped
<1>10. \A t \in spends' : t.at # 0
  BY <1>2
<1> QED
  BY <1>4, <1>5, <1>6, <1>7, <1>8, <1>9, <1>10 DEF CoinsSoFar

\* The steps that leave the chain as it is.
LEMMA SameCoins ==
  ASSUME TypeOK, CoinsSoFar, UNCHANGED chain
  PROVE  CoinsSoFar' /\ CoinsTyped'
<1>1. UNCHANGED <<height, coins, spends, listed>>
  BY DEF chain
<1>2. Pending' = Pending
  BY <1>1 DEF Pending
<1>3. CoinsTyped'
  BY <1>1 DEF TypeOK, CoinsTyped
<1>4. CoinsSoFar'
  BY <1>1, <1>2 DEF CoinsSoFar
<1> QED
  BY <1>3, <1>4

\* Fewer spends than mature coinbases, or one of them is still to be confirmed.
LEMMA MatureExists ==
  ASSUME TypeOK, CoinsSoFar, height >= Maturity + 1
  PROVE  Mature # {}
<1>1. /\ height \in Nat /\ height <= MaxHeight /\ MaxHeight \in Nat
      /\ IsFiniteSet(spends)
  BY MaxHeightType DEF TypeOK, Block, CoinsSoFar
<1>2. CASE Pending # {}
  <2>1. PICK s \in spends : s.at = 0
    BY <1>2 DEF Pending
  <2>2. s.coin \in coins /\ s.coin.at \in 1 .. height - Maturity
    BY <2>1 DEF CoinsSoFar
  <2>3. s.coin \in Mature
    BY <1>1, <2>2 DEF Mature
  <2> QED
    BY <2>3
<1>3. CASE Pending = {}
  <2> SUFFICES ASSUME Mature = {} PROVE FALSE
    OBVIOUS
  <2> DEFINE old == 1 .. height - Maturity
             f == [h \in old |-> CHOOSE s \in spends : s.coin = Coinbase(h)]
  <2>1. ASSUME NEW h \in old PROVE \E s \in spends : s.coin = Coinbase(h)
    <3>1. h \in 1 .. height /\ h \in Nat /\ h <= MaxHeight /\ h <= height - Maturity
          /\ h # 0
      BY <1>1
    <3>2. Coinbase(h).at = h
      BY <3>1, CoinbaseIsCoin
    <3>3. Coinbase(h) \notin coins
      BY <3>1, <3>2 DEF Mature
    <3> QED
      BY <3>1, <3>3 DEF CoinsSoFar
  <2>2. \A h \in old : f[h] \in spends /\ f[h].coin = Coinbase(h)
    BY <2>1
  <2>3. \A h, k \in old : f[h] = f[k] => h = k
    <3>1. \A h, k \in old : Coinbase(h) = Coinbase(k) => h = k
      BY DEF Coinbase
    <3> QED
      BY <2>2, <3>1
  <2>4. f \in Injection(old, spends)
    <3>1. f \in [old -> spends] /\ DOMAIN f = old
      BY <2>2
    <3> QED
      BY <2>3, <3>1 DEF Injection, IsInjective
  <2>5. IsFiniteSet(old) /\ Cardinality(old) = height - Maturity
    <3>1. /\ 1 \in Int /\ height - Maturity \in Int /\ 1 <= height - Maturity
      BY <1>1
    <3>2. IsFiniteSet(old)
      BY <3>1, FS_Interval
    <3>3. Cardinality(old) = (height - Maturity) - 1 + 1
      BY <3>1, FS_Interval
    <3> QED
      BY <1>1, <3>2, <3>3
  <2> HIDE DEF f, old
  <2>6. Cardinality(old) <= Cardinality(spends)
    BY <1>1, <2>4, FS_Injection
  <2>7. Cardinality(spends) \in Nat
    BY <1>1, FS_CardinalityType
  <2>8. Cardinality(spends) + Maturity + 1 <= height
    BY <1>1, <1>3 DEF CoinsSoFar
  <2> QED
    BY <1>1, <2>5, <2>6, <2>7, <2>8
<1> QED
  BY <1>2, <1>3

LEMMA FundCoins ==
  ASSUME TypeOK, CoinsSoFar, height >= Maturity + 1, starts \in 1 .. MaxStarts, Fund
  PROVE  /\ CoinsSoFar' /\ CoinsTyped'
         /\ pc' = "refused" => \E s \in spends' : s.at = 0
<1>1. height \in Nat /\ height' = height /\ IsFiniteSet(spends)
  BY DEF TypeOK, Fund, Block, CoinsSoFar, chain
<1>2. PICK u \in Mature : /\ ListedFirst(u)
                          /\ listed' = [height |-> height, coin |-> u]
                          /\ IF \E s \in spends : s.coin = u
                               THEN pc' = "refused" /\ UNCHANGED <<coins, spends>>
                               ELSE /\ pc' = "confirm"
                                    /\ coins' = coins \cup
                                         {[kind |-> "change", of |-> starts, at |-> 0]}
                                    /\ spends' = spends \cup {[coin |-> u, at |-> 0]}
  BY MatureExists DEF Fund, Goto
<1>3. u \in coins /\ u \in Coin /\ u.at \in 1 .. height - Maturity
  BY <1>1 DEF Mature, TypeOK, Coin, Block
<1>4. \A s \in Pending : u = s.coin
  BY <1>2 DEF ListedFirst, CoinsSoFar
<1>5. listed'.height \in Block /\ listed'.coin \in Coin
  BY <1>2, <1>3 DEF TypeOK
<1>6. CASE \E s \in spends : s.coin = u
  <2>1. UNCHANGED <<coins, spends>>
    BY <1>2, <1>6
  <2>2. Pending' = Pending
    BY <2>1 DEF Pending
  <2>3. \A s \in Pending' : listed' = [height |-> height', coin |-> s.coin]
    BY <1>1, <1>2, <1>4, <2>2
  <2>4. CoinsSoFar'
    BY <1>1, <2>1, <2>2, <2>3 DEF CoinsSoFar
  <2>5. CoinsTyped'
    BY <1>1, <1>5, <2>1 DEF CoinsTyped, TypeOK
  <2>6. \E s \in spends' : s.at = 0
    BY <1>3, <1>6, <2>1 DEF CoinsSoFar
  <2> QED
    BY <2>4, <2>5, <2>6
<1>7. CASE ~\E s \in spends : s.coin = u
  <2> DEFINE new == [coin |-> u, at |-> 0]
             change == [kind |-> "change", of |-> starts, at |-> 0]
  <2>1. /\ pc' = "confirm" /\ coins' = coins \cup {change} /\ spends' = spends \cup {new}
    BY <1>2, <1>7
  <2>2. new.coin = u /\ new.at = 0 /\ change.at = 0 /\ change \in Coin
    <3>1. starts \in Block
      <4>1. MaxStarts <= MaxStarts * (N + 8) /\ MaxStarts * (N + 8) \in Nat
        <5>1. MaxStarts * 1 <= MaxStarts * (N + 8)
          BY Monotone
        <5> QED
          BY <5>1, Products
      <4> QED
        BY <4>1 DEF Block, MaxHeight
    <3> QED
      BY <3>1 DEF Coin, Block, MaxHeight
  <2> HIDE DEF new, change
  <2>3. Pending = {} /\ \A s \in spends : s.at # 0 /\ s # new
    BY <1>4, <1>7, <2>2 DEF Pending
  <2>4. \A s \in spends : s.coin \notin coins'
    <3>1. \A s \in spends : s.coin \notin coins /\ s.coin.at # 0
      BY <2>3 DEF CoinsSoFar
    <3> QED
      BY <2>1, <2>2, <3>1
  <2>5. \A s \in spends' : /\ s.coin.at \in 1 .. height' - Maturity
                           /\ s.coin \in coins' <=> s.at = 0
    <3>1. \A s \in spends : s.coin.at \in 1 .. height - Maturity
      BY DEF CoinsSoFar
    <3> QED
      BY <1>1, <1>3, <2>1, <2>2, <2>3, <2>4, <3>1
  <2>6. \A s \in Pending' : listed' = [height |-> height', coin |-> s.coin]
    BY <1>1, <1>2, <2>1, <2>2, <2>3 DEF Pending
  <2>7. /\ IsFiniteSet(spends')
        /\ Cardinality(spends') = Cardinality(spends) + 1 /\ Pending' # {}
    BY <1>1, <2>1, <2>2, <2>3, FS_AddElement DEF Pending
  <2>8. Cardinality(spends') + Maturity + 0 <= height'
    <3>1. Cardinality(spends) + Maturity + 1 <= height
      BY <1>1, <2>3 DEF CoinsSoFar
    <3>2. Cardinality(spends) \in Nat
      BY <1>1, FS_CardinalityType
    <3> QED
      BY <1>1, <2>7, <3>1, <3>2
  <2>9. \A h \in 1 .. height' :
          Coinbase(h) \in coins' \/ \E s \in spends' : s.coin = Coinbase(h)
    BY <1>1, <2>1 DEF CoinsSoFar
  <2>10. CoinsTyped'
    <3>1. new \in [coin : Coin, at : 0 .. height]
      BY <1>1, <1>3 DEF new
    <3> QED
      BY <1>1, <1>5, <2>1, <2>2, <3>1 DEF CoinsTyped, TypeOK
  <2>11. CoinsSoFar'
    BY <2>5, <2>6, <2>7, <2>8, <2>9 DEF CoinsSoFar
  <2> QED
    BY <2>1, <2>10, <2>11
<1> QED
  BY <1>6, <1>7

LEMMA NextCoins ==
  TypeOK /\ LoopAt /\ HeightSoFar /\ CoinsSoFar /\ [Next]_vars
    => CoinsSoFar' /\ CoinsTyped'
<1> SUFFICES ASSUME TypeOK, LoopAt, HeightSoFar, CoinsSoFar, [Next]_vars
             PROVE  CoinsSoFar' /\ CoinsTyped'
  OBVIOUS
<1>1. height \in Nat /\ starts \in 0 .. MaxStarts
  BY DEF TypeOK, Block
<1>2. CASE UNCHANGED chain
  BY <1>2, SameCoins
<1>3. ASSUME NEW n \in Nat, n >= 1, Mine(n), UNCHANGED starts,
             height > 0 \/ (spends = {} /\ n >= Maturity + 1)
      PROVE  CoinsSoFar' /\ CoinsTyped'
  <2>1. starts' \in 0 .. MaxStarts /\ height' = height + n
    BY <1>1, <1>3 DEF Mine
  <2>2. HeightSoFar' /\ LoopAt' /\ next' \in Participant
    BY NextHeight, NextLoopAt
  <2>3. height + n <= MaxHeight
    BY <1>1, <2>1, <2>2, HeightAfter
  <2> QED
    BY <1>3, <2>3, MinedCoins
<1>4. CASE MineIfYoung
  <2>1. CASE height < Maturity + 1
    <3>1. height = 0 /\ spends = {} /\ Mine(Maturity + 1) /\ UNCHANGED starts
      BY <1>1, <1>4, <2>1 DEF MineIfYoung, HeightSoFar, Goto
    <3> QED
      BY <1>3, <3>1
  <2>2. CASE ~(height < Maturity + 1)
    BY <1>2, <1>4, <2>2 DEF MineIfYoung
  <2> QED
    BY <2>1, <2>2
<1>5. CASE ConfirmFunding \/ MineBetween \/ MineLast
  <2>1. height > 0 /\ UNCHANGED starts /\ \E n \in {1, 3, 6} : Mine(n)
    BY <1>1, <1>5 DEF ConfirmFunding, MineBetween, MineLast, Goto, HeightSoFar
  <2> QED
    BY <1>3, <2>1
<1>6. CASE Fund
  <2>1. height >= Maturity + 1 /\ starts \in 1 .. MaxStarts
    BY <1>1, <1>6 DEF Fund, HeightSoFar
  <2> QED
    BY <1>6, <2>1, FundCoins
<1>7. CASE Start \/ WaitSynced \/ WaitFunds \/ OpenChannel \/ WaitChannelsNormal \/ Stop
             \/ ClnFollows \/ (\E c \in channels : BecomesNormal(c)) \/ UNCHANGED vars
  <2>1. UNCHANGED chain
    BY <1>7 DEF Start, WaitSynced, WaitFunds, OpenChannel, WaitChannelsNormal, Stop,
                ClnFollows, BecomesNormal, vars
  <2> QED
    BY <1>2, <2>1
<1> QED
  BY <1>4, <1>5, <1>6, <1>7 DEF Next, Statement

(***************************************************************************)
(* The wallet: what a start has brought pays for the channels to come.     *)
(***************************************************************************)
WalletTyped ==
  wallet \subseteq [start : 1 .. MaxStarts, from : -1 .. N - 1,
                    value : 0 .. Funding * MaxStarts, at : 0 .. height]

Brought == Funding * (IF pc \in {"mature", "fund"} THEN starts - 1 ELSE starts)

LEMMA WalletType ==
  ASSUME TypeOK, WalletSoFar
  PROVE  /\ height \in Nat /\ starts \in Nat /\ starts <= MaxStarts
         /\ wallet \subseteq Output /\ IsFiniteSet(wallet) /\ Value(wallet) \in Nat
         /\ \A o \in wallet : o.value \in Nat /\ o.at \in 0 .. height
         /\ Value(wallet) <= Brought
         /\ pc \in Opening => Value(wallet) >= (N - next) * Price
<1>1. /\ height \in Nat /\ starts \in Nat /\ starts <= MaxStarts
      /\ Funding * MaxStarts \in Nat
  BY Moneys DEF TypeOK, Block
<1>2. wallet \subseteq Output
  BY <1>1 DEF TypeOK, Output
<1>3. \A o \in wallet : o.value \in Nat /\ o.at \in 0 .. height
  BY <1>2 DEF Output
<1>4. IsFiniteSet(wallet)
  BY DEF WalletSoFar
<1>5. Value(wallet) \in Nat
  BY <1>3, <1>4, ValueType
<1> QED
  BY <1>1, <1>2, <1>3, <1>4, <1>5 DEF WalletSoFar, Brought, Price

\* What earlier starts have brought is no more when a start goes on.
LEMMA BroughtGrows ==
  ASSUME starts \in Nat, starts' = starts, pc \in {"mature", "fund"} => starts >= 1,
         pc' \in {"mature", "fund"} => pc \in {"mature", "fund"}
  PROVE  Brought <= Brought' /\ Brought \in Nat /\ Brought' \in Nat
<1>1. /\ Funding * starts \in Nat /\ Funding \in Nat
      /\ starts > 0 => /\ Funding * (starts - 1) \in Nat
                       /\ Funding * (starts - 1) + Funding = Funding * starts
  BY Moneys, Amounts
<1>2. starts >= 1 => Funding * (starts - 1) <= Funding * starts
  BY <1>1
<1> DEFINE low == Funding * (starts - 1)
           high == Funding * starts
<1>3. /\ Brought = IF pc \in {"mature", "fund"} THEN low ELSE high
      /\ Brought' = IF pc' \in {"mature", "fund"} THEN low ELSE high
      /\ high \in Nat /\ starts >= 1 => low \in Nat /\ low <= high
  BY <1>1, <1>2 DEF Brought
<1> HIDE DEF low, high
<1> QED
  BY <1>1, <1>3 DEF low, high

LEMMA SameWallet ==
  ASSUME TypeOK, WalletSoFar, UNCHANGED <<wallet, starts, next>>,
         height' \in Nat, height <= height',
         pc \in {"mature", "fund"} => starts >= 1,
         pc' \in {"mature", "fund"} => pc \in {"mature", "fund"},
         pc' \in Opening => pc \in Opening,
         pc' \in Opening \ {"confirm", "mineOne"} => pc \in Opening \ {"confirm", "mineOne"},
         pc' \in {"funds", "open"} => clnHeight' = height'
  PROVE  WalletSoFar' /\ WalletTyped'
<1>1. /\ height \in Nat /\ starts \in Nat /\ Value(wallet) \in Nat
      /\ Value(wallet) <= Brought
  BY WalletType
<1>2. Brought <= Brought' /\ Brought \in Nat /\ Brought' \in Nat
  BY <1>1, BroughtGrows
<1>3. Value(wallet)' = Value(wallet)
  BY DEF Value
<1>4. \A v, a, b \in Nat : v <= a /\ a <= b => v <= b
  OBVIOUS
<1>5. Value(wallet)' <= Brought'
  BY <1>1, <1>2, <1>3, <1>4
<1>6. WalletTyped'
  <2>1. 0 .. height \subseteq 0 .. height'
    BY <1>1
  <2> QED
    BY <2>1 DEF TypeOK, WalletTyped
<1>7. \A o \in wallet' : /\ o.start <= starts'
                         /\ pc' \in {"mature", "fund"} => o.start < starts'
                         /\ pc' \in Opening /\ o.start = starts' => o.from < next'
                         /\ pc' \in Opening \ {"confirm", "mineOne"} => o.at # 0
  BY DEF WalletSoFar
<1>8. IsFiniteSet(wallet')
  BY DEF WalletSoFar
<1>9. pc' \in Opening => Value(wallet)' >= (N - next') * (Capacity + OpenFee)
  BY <1>3 DEF WalletSoFar
<1> QED
  BY <1>5, <1>6, <1>7, <1>8, <1>9 DEF WalletSoFar, Brought

\* A block confirms every output, and changes no value.
LEMMA MinedWallet ==
  ASSUME TypeOK, WalletSoFar, NEW n \in Nat, n >= 1, Mine(n), UNCHANGED <<starts, next>>,
         pc \in {"mature", "fund"} => starts >= 1,
         pc' \in {"mature", "fund"} => pc \in {"mature", "fund"},
         pc' \in Opening => pc \in Opening,
         pc' \notin {"funds", "open"}
  PROVE  WalletSoFar' /\ WalletTyped'
<1>1. /\ height \in Nat /\ starts \in Nat /\ Value(wallet) \in Nat
      /\ Value(wallet) <= Brought
      /\ wallet \subseteq Output /\ IsFiniteSet(wallet)
  BY WalletType
<1>2. /\ wallet' = Placed(wallet) /\ height' = height + n
      /\ wallet' = {PlacedOne(o) : o \in wallet}
  BY DEF Mine, Placed, PlacedOne
<1>3. IsFiniteSet(wallet') /\ Value(wallet') = Value(wallet)
  BY <1>1, <1>2, ValuePlaced
<1>4. ASSUME NEW e \in wallet'
      PROVE  \E o \in wallet : /\ e.start = o.start /\ e.from = o.from
                               /\ e.value = o.value /\ e.at # 0
                               /\ e = [start |-> o.start, from |-> o.from,
                                       value |-> o.value, at |-> e.at]
                               /\ e.at \in 0 .. height'
  <2>1. PICK o \in wallet : e = PlacedOne(o)
    BY <1>2
  <2>2. o \in Output /\ o.at \in 0 .. height
    BY <1>1 DEF Output
  <2> QED
    BY <1>1, <1>2, <2>1, <2>2, PlacedOutput
<1>5. Brought <= Brought' /\ Brought \in Nat /\ Brought' \in Nat
  BY <1>1, BroughtGrows
<1>6. \A v, a, b \in Nat : v <= a /\ a <= b => v <= b
  OBVIOUS
<1>7. Value(wallet') <= Brought'
  BY <1>1, <1>3, <1>5, <1>6
<1>8. WalletTyped'
  <2>1. wallet \subseteq [start : 1 .. MaxStarts, from : -1 .. N - 1,
                          value : 0 .. Funding * MaxStarts, at : 0 .. height]
    BY DEF TypeOK
  <2>2. ASSUME NEW e \in wallet'
        PROVE  e \in [start : 1 .. MaxStarts, from : -1 .. N - 1,
                      value : 0 .. Funding * MaxStarts, at : 0 .. height']
    BY <1>4, <2>1
  <2> QED
    BY <2>2 DEF WalletTyped
<1>9. ASSUME NEW e \in wallet'
      PROVE  /\ e.start <= starts'
             /\ pc' \in {"mature", "fund"} => e.start < starts'
             /\ pc' \in Opening /\ e.start = starts' => e.from < next'
             /\ e.at # 0
  <2>1. PICK o \in wallet : e.start = o.start /\ e.from = o.from /\ e.at # 0
    BY <1>4
  <2>2. /\ o.start <= starts
        /\ pc \in {"mature", "fund"} => o.start < starts
        /\ pc \in Opening /\ o.start = starts => o.from < next
    BY DEF WalletSoFar
  <2> QED
    BY <2>1, <2>2
<1>10. pc' \in Opening => Value(wallet') >= (N - next') * (Capacity + OpenFee)
  BY <1>3 DEF WalletSoFar
<1> QED
  BY <1>3, <1>7, <1>8, <1>9, <1>10 DEF WalletSoFar, Brought

LEMMA FundedWallet ==
  ASSUME TypeOK, WalletSoFar, starts >= 1, pc = "fund", pc' = "confirm", next = 0,
         UNCHANGED <<starts, next, height>>,
         wallet' = wallet \cup
           {[start |-> starts, from |-> -1, value |-> Funding, at |-> 0]}
  PROVE  WalletSoFar' /\ WalletTyped'
<1> DEFINE new == [start |-> starts, from |-> -1, value |-> Funding, at |-> 0]
<1>1. /\ height \in Nat /\ starts \in Nat /\ starts <= MaxStarts
      /\ wallet \subseteq Output /\ IsFiniteSet(wallet) /\ Value(wallet) \in Nat
      /\ Value(wallet) <= Brought
  BY WalletType
<1>2. /\ new.start = starts /\ new.from = -1 /\ new.value = Funding /\ new.at = 0
      /\ wallet' = wallet \cup {new} /\ Funding \in Nat
  BY Amounts
<1>3. \A o \in wallet : o.start < starts /\ o.value \in Nat /\ o.start \in Nat
  BY <1>1 DEF WalletSoFar, Output
<1>4. Funding <= Funding * MaxStarts
  <2>1. Funding * 1 <= Funding * MaxStarts
    BY <1>2, Monotone
  <2> QED
    BY <1>2, <2>1
<1>5. WalletTyped'
  <2>1. new \in [start : 1 .. MaxStarts, from : -1 .. N - 1,
                 value : 0 .. Funding * MaxStarts, at : 0 .. height]
    <3>1. starts \in 1 .. MaxStarts /\ -1 \in -1 .. N - 1 /\ 0 \in 0 .. height
      BY <1>1
    <3>2. Funding \in 0 .. Funding * MaxStarts
      BY <1>2, <1>4, Moneys
    <3> QED
      BY <3>1, <3>2
  <2> QED
    BY <1>2, <2>1 DEF WalletTyped, TypeOK
<1> HIDE DEF new
<1>6. new \notin wallet
  BY <1>1, <1>2, <1>3
<1>7. Value(wallet') = Value(wallet) + Funding /\ IsFiniteSet(wallet')
  BY <1>1, <1>2, <1>3, <1>6, ValueAdd, FS_AddElement
<1>8. Value(wallet') <= Brought'
  <2>1. /\ Funding * starts \in Nat /\ Funding * (starts - 1) \in Nat
        /\ Funding * (starts - 1) + Funding = Funding * starts
    BY <1>1, Moneys
  <2>2. Brought = Funding * (starts - 1) /\ Brought' = Funding * starts
    BY DEF Brought
  <2> QED
    BY <1>1, <1>2, <1>7, <2>1, <2>2
<1>9. Value(wallet') >= (N - next') * (Capacity + OpenFee)
  <2>1. Funding >= N * Price /\ N * Price \in Nat
    BY Amounts
  <2>2. Value(wallet') >= N * Price
    BY <1>1, <1>2, <1>7, <2>1
  <2>3. N - next' = N
    OBVIOUS
  <2> QED
    BY <2>2, <2>3 DEF Price
<1>10. \A o \in wallet' : o.start <= starts' /\ (o.start = starts' => o.from < next')
  <2>1. \A o \in wallet : o.start <= starts /\ o.start # starts
    BY <1>1, <1>3
  <2> QED
    BY <1>1, <1>2, <2>1
<1> QED
  BY <1>5, <1>7, <1>8, <1>9, <1>10 DEF WalletSoFar, Brought

\* All of the wallet is confirmed when a channel is to be opened, and pays for it.
LEMMA WalletSuffices ==
  ASSUME TypeOK, WalletSoFar, pc = "open"
  PROVE  Confirmed = wallet /\ Value(Confirmed) >= Price
<1>1. /\ height \in Nat /\ Value(wallet) \in Nat
      /\ Value(wallet) >= (N - next) * Price
      /\ \A o \in wallet : o.at \in 0 .. height
  BY WalletType DEF Opening
<1>2. clnHeight = height /\ \A o \in wallet : o.at # 0
  BY DEF WalletSoFar, Opening
<1>3. Confirmed = wallet
  BY <1>1, <1>2 DEF Confirmed
<1>4. next \in Participant
  BY DEF TypeOK
<1>5. /\ (N - next) * Price \in Nat
      /\ (N - next) * Price = (N - (next + 1)) * Price + Price
      /\ (N - (next + 1)) * Price \in Nat /\ Price \in Nat
  BY <1>4, Prices, Amounts
<1>6. Value(wallet) >= Price
  BY <1>1, <1>5
<1> QED
  BY <1>3, <1>6

LEMMA OpenedWallet ==
  ASSUME TypeOK, WalletSoFar, starts >= 1, OpenChannel
  PROVE  WalletSoFar' /\ WalletTyped' /\ pc' # "refused"
<1>1. /\ height \in Nat /\ starts \in Nat /\ starts <= MaxStarts
      /\ wallet \subseteq Output /\ IsFiniteSet(wallet) /\ Value(wallet) \in Nat
      /\ (\A o \in wallet : o.value \in Nat) /\ Value(wallet) <= Brought
      /\ pc \in Opening => Value(wallet) >= (N - next) * Price
  BY WalletType
<1>2. /\ pc = "open" /\ pc \in Opening /\ UNCHANGED <<height, clnHeight>>
      /\ next \in Participant /\ Price \in Nat
  BY Amounts DEF OpenChannel, Opening, TypeOK, chain
<1>3. Confirmed = wallet /\ Value(Confirmed) >= Price
  BY <1>2, WalletSuffices
<1>4. ~(Value(Confirmed) < Capacity + OpenFee)
  BY <1>1, <1>2, <1>3 DEF Price
<1>5. PICK inputs \in SUBSET wallet :
        /\ Value(inputs) >= Price
        /\ wallet' = (wallet \ inputs) \cup
             {[start |-> starts, from |-> next,
               value |-> Value(inputs) - Capacity - OpenFee, at |-> 0]}
        /\ pc' = AfterOpen /\ Advance /\ starts' = starts
  BY <1>3, <1>4 DEF OpenChannel, Price
<1>6. /\ pc' \in {"mineOne", "mineSix"}
      /\ pc' = "mineOne" => next' = next + 1
  BY <1>5 DEF AfterOpen, Advance
<1> DEFINE kept == wallet \ inputs
           change == Value(inputs) - Capacity - OpenFee
           new == [start |-> starts, from |-> next, value |-> change, at |-> 0]
<1>7. /\ IsFiniteSet(inputs) /\ IsFiniteSet(kept)
      /\ Value(inputs) \in Nat /\ Value(kept) \in Nat
      /\ Value(wallet) = Value(inputs) + Value(kept)
  <2>1. IsFiniteSet(inputs) /\ IsFiniteSet(kept)
    BY <1>1, FS_Subset
  <2>2. Value(inputs) \in Nat /\ Value(kept) \in Nat
    BY <1>1, <2>1, ValueType
  <2>3. Value(wallet) = Value(inputs) + Value(kept)
    BY <1>1, ValueSplit
  <2> QED
    BY <2>1, <2>2, <2>3
<1>8. change \in Nat /\ change = Value(inputs) - Price /\ change <= Value(wallet)
  <2>1. Capacity \in Nat /\ OpenFee \in Nat /\ Price = Capacity + OpenFee
    BY Amounts DEF Price
  <2> QED
    BY <1>5, <1>7, <2>1
<1>9. /\ new.start = starts /\ new.from = next /\ new.value = change /\ new.at = 0
      /\ wallet' = kept \cup {new}
  BY <1>5
<1>10. Brought = Funding * starts /\ Brought' = Funding * starts
       /\ Funding * starts <= Funding * MaxStarts
       /\ Funding * starts \in Nat /\ Funding * MaxStarts \in Nat
  <2>1. Brought = Funding * starts /\ Brought' = Funding * starts
    BY <1>2, <1>5, <1>6 DEF Brought
  <2> QED
    BY <1>1, <2>1, Moneys
<1> HIDE DEF change
<1>11. WalletTyped'
  <2>1. change \in 0 .. Funding * MaxStarts
    BY <1>1, <1>8, <1>10
  <2>2. starts \in 1 .. MaxStarts /\ next \in -1 .. N - 1 /\ 0 \in 0 .. height
    BY <1>1, <1>2 DEF Participant
  <2>3. new \in [start : 1 .. MaxStarts, from : -1 .. N - 1,
                 value : 0 .. Funding * MaxStarts, at : 0 .. height]
    BY <2>1, <2>2
  <2> QED
    BY <1>2, <1>9, <2>3 DEF WalletTyped, TypeOK
<1> HIDE DEF new, kept
<1>12. \A o \in kept : o \in wallet /\ o.value \in Nat
  BY <1>1 DEF kept
<1>13. new \notin kept
  <2>1. \A o \in wallet : o.start = starts => o.from < next
    BY <1>2 DEF WalletSoFar
  <2>2. next \in Int
    BY <1>2 DEF Participant
  <2> QED
    BY <1>9, <1>12, <2>1, <2>2
<1>14. IsFiniteSet(wallet') /\ Value(wallet') = Value(kept) + change
  <2>1. \A o \in kept \cup {new} : o.value \in Nat
    BY <1>8, <1>9, <1>12
  <2> QED
    BY <1>7, <1>9, <1>13, <2>1, ValueAdd, FS_AddElement
<1>15. Value(wallet') = Value(wallet) - Price
  BY <1>2, <1>7, <1>8, <1>14
<1>16. Value(wallet') <= Brought'
  BY <1>1, <1>2, <1>10, <1>15
<1>17. pc' \in Opening => Value(wallet') >= (N - next') * (Capacity + OpenFee)
  <2>1. /\ (N - next) * Price = (N - (next + 1)) * Price + Price
        /\ (N - (next + 1)) * Price \in Nat
    BY <1>2, Prices
  <2>2. Value(wallet') >= (N - (next + 1)) * Price
    BY <1>1, <1>2, <1>15, <2>1
  <2> QED
    BY <1>6, <2>2 DEF Opening, Price
<1>18. ASSUME NEW o \in wallet'
       PROVE  o.start <= starts' /\ (pc' \in Opening /\ o.start = starts' => o.from < next')
  <2>1. CASE o = new
    BY <1>1, <1>2, <1>5, <1>6, <1>9, <2>1 DEF Opening, Participant
  <2>2. CASE o \in kept
    <3>1. o.start <= starts /\ (o.start = starts => o.from < next)
      BY <1>2, <1>12, <2>2 DEF WalletSoFar
    <3>2. o.from \in Int /\ next \in Int
      BY <1>1, <1>2, <1>12, <2>2 DEF Output, Participant
    <3> QED
      BY <1>5, <1>6, <3>1, <3>2 DEF Opening
  <2> QED
    BY <1>9, <2>1, <2>2
<1> QED
  BY <1>6, <1>11, <1>14, <1>16, <1>17, <1>18 DEF WalletSoFar, Brought, Opening

LEMMA StartedWallet ==
  ASSUME TypeOK, WalletSoFar, Start
  PROVE  WalletSoFar' /\ WalletTyped'
<1>1. /\ height \in Nat /\ starts \in Nat /\ Value(wallet) \in Nat
      /\ Value(wallet) <= Brought /\ wallet \subseteq Output
  BY WalletType
<1>2. /\ pc' = "mature" /\ starts' = starts + 1 /\ UNCHANGED <<wallet, height>>
      /\ pc \notin {"mature", "fund"}
  BY DEF Start, chain, cln
<1>3. Value(wallet)' = Value(wallet)
  BY <1>2 DEF Value
<1>4. Brought' = Brought
  <2>1. Brought = Funding * starts /\ Brought' = Funding * ((starts + 1) - 1)
    BY <1>2 DEF Brought
  <2> QED
    BY <1>1, <2>1, Moneys
<1>5. \A o \in wallet' : o.start < starts' /\ o.start <= starts'
  <2>1. \A o \in wallet : o.start <= starts /\ o.start \in Nat
    BY <1>1 DEF WalletSoFar, Output
  <2> QED
    BY <1>1, <1>2, <2>1
<1>6. WalletTyped' /\ IsFiniteSet(wallet')
  BY <1>2 DEF WalletTyped, TypeOK, WalletSoFar
<1>7. Value(wallet)' <= Brought'
  BY <1>1, <1>3, <1>4
<1> QED
  BY <1>2, <1>5, <1>6, <1>7 DEF WalletSoFar, Brought, Opening

LEMMA NextWallet ==
  TypeOK /\ LoopAt /\ HeightSoFar /\ WalletSoFar /\ [Next]_vars
    => WalletSoFar' /\ WalletTyped' /\ (OpenChannel => pc' # "refused")
<1> SUFFICES ASSUME TypeOK, LoopAt, HeightSoFar, WalletSoFar, [Next]_vars
             PROVE  WalletSoFar' /\ WalletTyped' /\ (OpenChannel => pc' # "refused")
  OBVIOUS
<1>1. height \in Nat /\ height' \in Nat /\ starts \in Nat
  BY NextHeight DEF TypeOK, Block
<1>2. /\ pc \in {"mature", "fund"} => starts >= 1
      /\ pc = "open" => starts >= 1
  BY <1>1 DEF HeightSoFar
<1>3. OpenChannel => WalletSoFar' /\ WalletTyped' /\ pc' # "refused"
  <2> SUFFICES ASSUME OpenChannel PROVE WalletSoFar' /\ WalletTyped' /\ pc' # "refused"
    OBVIOUS
  <2>1. starts >= 1
    BY <1>2 DEF OpenChannel
  <2> QED
    BY <2>1, OpenedWallet
<1> SUFFICES WalletSoFar' /\ WalletTyped'
  BY <1>3
<1>4. ASSUME NEW n \in Nat, n >= 1, Mine(n), UNCHANGED <<starts, next>>,
             \/ pc = "mature" /\ pc' = "fund"
             \/ pc = "confirm" /\ pc' = "syncFunds"
             \/ pc = "mineOne" /\ pc' = "syncOpen"
             \/ pc = "mineSix" /\ pc' = "syncNormal"
      PROVE  WalletSoFar' /\ WalletTyped'
  BY <1>2, <1>4, MinedWallet DEF Opening
<1>5. CASE Start
  BY <1>5, StartedWallet
<1>6. CASE Statement
  <2>1. CASE MineIfYoung
    <3>1. CASE height < Maturity + 1
      BY <1>4, <2>1, <3>1 DEF MineIfYoung, Goto
    <3>2. CASE ~(height < Maturity + 1)
      <4>1. /\ UNCHANGED <<wallet, starts, next, height>>
            /\ pc = "mature" /\ pc' = "fund"
        BY <2>1, <3>2 DEF MineIfYoung, Goto, chain, cln
      <4> QED
        BY <1>1, <1>2, <4>1, SameWallet DEF Opening
    <3> QED
      BY <3>1, <3>2
  <2>2. CASE ConfirmFunding
    BY <1>4, <2>2 DEF ConfirmFunding, Goto
  <2>3. CASE MineBetween
    BY <1>4, <2>3 DEF MineBetween, Goto
  <2>4. CASE MineLast
    BY <1>4, <2>4 DEF MineLast, Goto
  <2>5. CASE Fund
    <3>1. /\ pc = "fund" /\ UNCHANGED <<starts, next, height>>
          /\ \/ pc' = "refused" /\ UNCHANGED wallet
             \/ /\ pc' = "confirm"
                /\ wallet' = wallet \cup
                     {[start |-> starts, from |-> -1, value |-> Funding, at |-> 0]}
      BY <2>5 DEF Fund, Goto, chain, cln
    <3>2. CASE pc' = "refused" /\ UNCHANGED wallet
      BY <1>1, <1>2, <3>1, <3>2, SameWallet DEF Opening
    <3>3. CASE /\ pc' = "confirm"
               /\ wallet' = wallet \cup
                    {[start |-> starts, from |-> -1, value |-> Funding, at |-> 0]}
      <4>1. next = 0 /\ starts >= 1
        BY <1>2, <3>1 DEF LoopAt
      <4> QED
        BY <3>1, <3>3, <4>1, FundedWallet
    <3> QED
      BY <3>1, <3>2, <3>3
  <2>6. CASE WaitSynced
    <3>1. /\ UNCHANGED <<wallet, starts, next, height, clnHeight>> /\ clnHeight = height
          /\ \/ pc = "syncFunds" /\ pc' = "funds"
             \/ pc = "syncOpen" /\ pc' = "open"
             \/ pc = "syncNormal" /\ pc' = "normal"
      BY <2>6 DEF WaitSynced, Follow, Goto, chain, cln
    <3> QED
      BY <1>1, <1>2, <3>1, SameWallet DEF Opening
  <2>7. CASE WaitFunds
    <3>1. /\ UNCHANGED <<wallet, starts, next, height, clnHeight>>
          /\ pc = "funds" /\ pc' = "open" /\ clnHeight = height
      BY <2>7 DEF WaitFunds, Goto, chain, cln, WalletSoFar
    <3> QED
      BY <1>1, <1>2, <3>1, SameWallet DEF Opening
  <2>8. CASE OpenChannel
    BY <1>3, <2>8
  <2>9. CASE WaitChannelsNormal
    <3>1. UNCHANGED <<wallet, starts, next, height>> /\ pc = "normal" /\ pc' = "rounds"
      BY <2>9 DEF WaitChannelsNormal, Goto, chain, cln
    <3> QED
      BY <1>1, <1>2, <3>1, SameWallet DEF Opening
  <2> QED
    BY <1>6, <2>1, <2>2, <2>3, <2>4, <2>5, <2>6, <2>7, <2>8, <2>9 DEF Statement
<1>7. CASE Stop
  <2>1. UNCHANGED <<wallet, starts, next, height>> /\ pc' = "stopped"
    BY <1>7 DEF Stop, Goto, chain, cln
  <2> QED
    BY <1>1, <1>2, <2>1, SameWallet DEF Opening
<1>8. CASE ClnFollows \/ (\E c \in channels : BecomesNormal(c)) \/ UNCHANGED vars
  <2>1. UNCHANGED <<wallet, starts, next, pc, height>>
    BY <1>8 DEF ClnFollows, BecomesNormal, vars, chain, cln
  <2>2. pc \in {"funds", "open"} => clnHeight' = height'
    <3>1. pc \in {"funds", "open"} => clnHeight = height
      BY DEF WalletSoFar
    <3>2. ClnFollows => clnHeight # height
      BY <1>1 DEF ClnFollows
    <3>3. (\E c \in channels : BecomesNormal(c)) \/ UNCHANGED vars
            => clnHeight' = clnHeight
      BY DEF BecomesNormal, vars, cln
    <3> QED
      BY <1>8, <2>1, <3>1, <3>2, <3>3
  <2> QED
    BY <1>1, <1>2, <2>1, <2>2, SameWallet
<1> QED
  BY <1>5, <1>6, <1>7, <1>8 DEF Next

(***************************************************************************)
(* A refused start: only for a coin that is spent already.                 *)
(***************************************************************************)
LEMMA NextRefused ==
  BootstrapInv /\ [Next]_vars => RefusedOnlyWhilePending'
<1> SUFFICES ASSUME BootstrapInv, [Next]_vars, pc' = "refused"
             PROVE  \E s \in spends' : s.at = 0
  BY DEF RefusedOnlyWhilePending
<1>1. /\ TypeOK /\ LoopAt /\ HeightSoFar /\ CoinsSoFar /\ WalletSoFar
      /\ RefusedOnlyWhilePending
  BY DEF BootstrapInv
<1>2. ~OpenChannel
  BY <1>1, NextWallet
<1>3. CASE Fund
  <2>1. height >= Maturity + 1 /\ starts \in 1 .. MaxStarts
    BY <1>1, <1>3 DEF Fund, HeightSoFar, TypeOK
  <2> QED
    BY <1>1, <1>3, <2>1, FundCoins
<1>4. CASE ClnFollows \/ (\E c \in channels : BecomesNormal(c)) \/ UNCHANGED vars
  <2>1. pc = "refused" /\ spends' = spends
    BY <1>4 DEF ClnFollows, BecomesNormal, vars, chain
  <2> QED
    BY <1>1, <2>1 DEF RefusedOnlyWhilePending
<1>5. ~Start /\ ~Stop
  BY DEF Start, Stop, Goto
<1>6. /\ ~MineIfYoung /\ ~ConfirmFunding /\ ~WaitSynced /\ ~WaitFunds /\ ~MineBetween
      /\ ~MineLast /\ ~WaitChannelsNormal
  BY DEF MineIfYoung, ConfirmFunding, WaitSynced, Follow, WaitFunds, MineBetween,
         MineLast, WaitChannelsNormal, Goto
<1> QED
  BY <1>2, <1>3, <1>4, <1>5, <1>6 DEF Next, Statement

LEMMA NextTypeOK == BootstrapInv /\ [Next]_vars => TypeOK'
<1> SUFFICES ASSUME BootstrapInv, [Next]_vars PROVE TypeOK'
  OBVIOUS
<1>1. /\ TypeOK /\ LoopAt /\ HeightSoFar /\ CoinsSoFar /\ WalletSoFar /\ ChannelsSoFar
  BY DEF BootstrapInv
<1>2. /\ LoopAt' /\ next' \in Participant /\ HeightSoFar' /\ height' \in Nat
      /\ CoinsTyped' /\ WalletTyped' /\ channels' \subseteq Channel(height')
  BY <1>1, NextLoopAt, NextHeight, NextCoins, NextWallet, NextChannels
<1>3. /\ starts \in 0 .. MaxStarts /\ clnHeight \in 0 .. height /\ height \in Nat
      /\ pc \in Working \cup {"off", "rounds", "refused", "stopped"}
  BY <1>1 DEF TypeOK, Block
<1>4. starts' \in 0 .. MaxStarts /\ pc' \in Working \cup {"off", "rounds", "refused", "stopped"}
  <2>1. CASE Start
    BY <1>3, <2>1 DEF Start, Working
  <2>2. CASE Statement
    BY <1>3, <2>2
    DEF Statement, MineIfYoung, Fund, ConfirmFunding, WaitSynced, WaitFunds,
        OpenChannel, MineBetween, MineLast, WaitChannelsNormal, Goto, Follow,
        AfterOpen, Working, Waiting
  <2>3. CASE Stop
    BY <1>3, <2>3 DEF Stop, Goto
  <2>4. CASE ClnFollows \/ (\E c \in channels : BecomesNormal(c)) \/ UNCHANGED vars
    BY <1>3, <2>4 DEF ClnFollows, BecomesNormal, vars
  <2> QED
    BY <2>1, <2>2, <2>3, <2>4 DEF Next
<1>5. clnHeight' \in 0 .. height'
  <2>1. CASE ClnFollows
    BY <1>3, <2>1 DEF ClnFollows, chain
  <2>2. CASE ~ClnFollows
    <3>1. clnHeight' = clnHeight /\ height <= height'
      <4>1. CASE Start \/ Stop \/ (\E c \in channels : BecomesNormal(c)) \/ UNCHANGED vars
        BY <1>3, <4>1 DEF Start, Stop, BecomesNormal, vars, chain, cln
      <4>2. CASE Statement
        BY <1>3, <4>2
        DEF Statement, MineIfYoung, Fund, ConfirmFunding, WaitSynced, WaitFunds,
            OpenChannel, MineBetween, MineLast, WaitChannelsNormal, Mine, chain, cln
      <4> QED
        BY <2>2, <4>1, <4>2 DEF Next
    <3> QED
      BY <1>2, <1>3, <3>1
  <2> QED
    BY <2>1, <2>2
<1>6. height' \in Block
  <2>1. height' <= MaxHeight
    BY <1>2, <1>4, HeightAfter
  <2> QED
    BY <1>2, <2>1 DEF Block
<1> QED
  BY <1>2, <1>4, <1>5, <1>6 DEF TypeOK, CoinsTyped, WalletTyped, Channel

LEMMA InitBootstrapInv == Init => BootstrapInv
<1> SUFFICES ASSUME Init PROVE BootstrapInv
  OBVIOUS
<1> USE DEF Init
<1>1. TypeOK
  <2>1. 0 \in Block /\ NoCoin \in Coin
    BY MaxHeightType DEF Block, NoCoin, Coin
  <2> QED
    BY <2>1 DEF TypeOK, Participant
<1>2. LoopAt
  BY DEF LoopAt
<1>3. HeightSoFar
  <2>1. Mined = N + 8
    BY DEF Mined
  <2>2. (0 - 1) * (N + 8) + (N + 8) = 0 * (N + 8) /\ (0 - 1) * (N + 8) \in Int
    BY Products
  <2>3. 0 <= Maturity + 1 + (starts - 1) * (N + 8) + Mined
    BY <2>1, <2>2
  <2> QED
    BY <2>3 DEF HeightSoFar
<1>4. CoinsSoFar
  BY FS_EmptySet DEF CoinsSoFar, Pending
<1>5. WalletSoFar
  <2>1. Funding * 0 = 0
    BY Amounts
  <2> QED
    BY <2>1, FS_EmptySet, ValueOfNone DEF WalletSoFar, Opening
<1>6. ChannelsSoFar /\ RefusedOnlyWhilePending
  BY DEF ChannelsSoFar, RefusedOnlyWhilePending, Opening
<1> QED
  BY <1>1, <1>2, <1>3, <1>4, <1>5, <1>6 DEF BootstrapInv

(***************************************************************************)
(* BootstrapInv is an invariant: at every statement of bootstrap, whatever *)
(* start it is and wherever earlier ones stopped, the chain has a coinbase *)
(* left and the wallet pays for the channels that are to be opened.        *)
(***************************************************************************)
THEOREM BootstrapInvariant == Spec => []BootstrapInv
<1>1. BootstrapInv /\ [Next]_vars => BootstrapInv'
  <2> SUFFICES ASSUME BootstrapInv, [Next]_vars PROVE BootstrapInv'
    OBVIOUS
  <2>1. TypeOK' /\ RefusedOnlyWhilePending'
    BY NextTypeOK, NextRefused
  <2>2. LoopAt' /\ HeightSoFar' /\ CoinsSoFar' /\ WalletSoFar' /\ ChannelsSoFar'
    BY NextLoopAt, NextHeight, NextCoins, NextWallet, NextChannels DEF BootstrapInv
  <2> QED
    BY <2>1, <2>2 DEF BootstrapInv
<1> QED
  BY InitBootstrapInv, <1>1, PTL DEF Spec

(***************************************************************************)
(* Type correctness: the loops of bootstrap stay in range, and the chain   *)
(* within Maturity + 1 blocks and N + 8 for each start.                    *)
(***************************************************************************)
THEOREM TypeCorrect == Spec => []TypeOK
<1>1. BootstrapInv => TypeOK
  BY DEF BootstrapInv
<1> QED
  BY BootstrapInvariant, <1>1, PTL

(***************************************************************************)
(* bootstrap is refused only while an earlier start's funding is pending:  *)
(* there is a mature coinbase, and every channel finds enough confirmed.   *)
(***************************************************************************)
THEOREM RefusedOnlyWhilePendingCorrect == Spec => []RefusedOnlyWhilePending
<1>1. BootstrapInv => RefusedOnlyWhilePending
  BY DEF BootstrapInv
<1> QED
  BY BootstrapInvariant, <1>1, PTL

(***************************************************************************)
(* When bootstrap returns there is a usable channel with everybody, and on *)
(* a first start no channel that is not.                                   *)
(***************************************************************************)
THEOREM RoundsHaveChannelsCorrect == Spec => []RoundsHaveChannels
<1>1. BootstrapInv => RoundsHaveChannels
  <2> SUFFICES ASSUME BootstrapInv, pc = "rounds"
               PROVE  /\ \A p \in Participant : \E c \in channels : c.peer = p /\ c.normal
                      /\ starts = 1 => \A c \in channels : c.normal
    BY DEF RoundsHaveChannels
  <2>1. NormalPeers = Participant /\ \A c \in channels : c.peer \in Participant
    BY DEF BootstrapInv, ChannelsSoFar, TypeOK
  <2>2. \A p \in Participant : \E c \in channels : c.peer = p /\ c.normal
    BY <2>1 DEF NormalPeers
  <2>3. starts = 1 => \A c, d \in channels : c.peer = d.peer => c = d
    BY DEF BootstrapInv, ChannelsSoFar
  <2> QED
    BY <2>1, <2>2, <2>3
<1> QED
  BY BootstrapInvariant, <1>1, PTL
=============================================================================
