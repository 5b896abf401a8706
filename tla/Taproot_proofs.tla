--------------------------- MODULE Taproot_proofs ---------------------------
(***************************************************************************)
(* Proofs about the two ways to spend the taproot output of a round: a     *)
(* script of one of its leaves, and a signature of its key.                *)
(*                                                                         *)
(* The first half is about TapScript: which bytes the code writes, which   *)
(* instructions the node reads in them, and what is on the stack before    *)
(* each.  The second half is about MuSig2, for a group of any order, any   *)
(* number of signers, and all secret keys, nonces and hash values.         *)
(***************************************************************************)
EXTENDS MuSig2, TapScript, SumTheorems, SequenceTheorems

------------------------------------------------------------------------------
(* The bytes of a script *)

LEMMA ByteIs == \A v : v \in Byte <=> v \in Nat /\ v < 256
BY SMT DEF Byte

\* What a script begins with, and what is left of it then.
Starts(s, i, a, r) ==
  /\ i + Len(a) \in 1 .. Len(s) + 1
  /\ \A j \in 1 .. Len(a) : s[i + j - 1] = a[j]
  /\ Rest(s, i + Len(a)) = r

LEMMA RestOf ==
  ASSUME NEW S, NEW s \in Seq(S), NEW i \in 1 .. Len(s) + 1,
         NEW a \in Seq(S), NEW r \in Seq(S), Rest(s, i) = a \o r
  PROVE  Starts(s, i, a, r)
<1> DEFINE t == SubSeq(s, i, Len(s))
           u == SubSeq(s, i + Len(a), Len(s))
<1> USE DEF Rest
<1>1. Len(s) \in Nat /\ Len(a) \in Nat /\ Len(r) \in Nat
  BY LenProperties
<1>2. /\ Len(t) = Len(s) - i + 1
      /\ \A j \in 1 .. Len(s) - i + 1 : t[j] = s[i + j - 1]
  <2>1. \A j \in i .. Len(s) : s[j] \in S
    BY <1>1, ElementOfSeq
  <2>2. i \in Int /\ Len(s) \in Int
    BY <1>1
  <2> QED
    BY <1>1, <2>1, <2>2, SubSeqProperties
<1>3. /\ Len(t) = Len(a) + Len(r)
      /\ \A j \in 1 .. Len(a) + Len(r) :
           t[j] = IF j <= Len(a) THEN a[j] ELSE r[j - Len(a)]
  BY ConcatProperties
<1>4. /\ i + Len(a) \in 1 .. Len(s) + 1 /\ Len(s) - i + 1 = Len(a) + Len(r)
      /\ \A j \in 1 .. Len(a) : s[i + j - 1] = a[j]
      /\ \A j \in 1 .. Len(r) : s[i + Len(a) + j - 1] = r[j]
  <2> HIDE DEF t
  <2>1. Len(s) - i + 1 = Len(a) + Len(r) /\ i + Len(a) \in 1 .. Len(s) + 1
    BY <1>1, <1>2, <1>3
  <2>2. ASSUME NEW j \in 1 .. Len(a) PROVE s[i + j - 1] = a[j]
    BY <1>1, <1>2, <1>3, <2>1, <2>2
  <2>3. ASSUME NEW j \in 1 .. Len(r) PROVE s[i + Len(a) + j - 1] = r[j]
    <3>1. Len(a) + j \in 1 .. Len(a) + Len(r) /\ ~(Len(a) + j <= Len(a))
      BY <1>1, <2>3
    <3>2. t[Len(a) + j] = r[j] /\ t[Len(a) + j] = s[i + (Len(a) + j) - 1]
      BY <1>1, <1>2, <1>3, <2>1, <3>1
    <3> QED
      BY <1>1, <3>2
  <2> QED
    BY <2>1, <2>2, <2>3
<1>5. u \in Seq(S) /\ Len(u) = Len(r) /\ \A j \in 1 .. Len(r) : u[j] = s[i + Len(a) + j - 1]
  <2>1. \A j \in i + Len(a) .. Len(s) : s[j] \in S
    BY <1>1, <1>4, ElementOfSeq
  <2>2. i + Len(a) \in Int /\ Len(s) \in Int
    BY <1>1
  <2>3. /\ u \in Seq(S)
        /\ Len(u) = IF i + Len(a) <= Len(s) THEN Len(s) - (i + Len(a)) + 1 ELSE 0
        /\ \A j \in 1 .. Len(s) - (i + Len(a)) + 1 : u[j] = s[i + Len(a) + j - 1]
    BY <2>1, <2>2, SubSeqProperties
  <2>4. Len(s) - (i + Len(a)) + 1 = Len(r)
    BY <1>1, <1>4
  <2> HIDE DEF u
  <2> QED
    BY <1>1, <1>4, <2>3, <2>4
<1>6. u = r
  <2> HIDE DEF u
  <2> QED
    BY <1>4, <1>5, SeqEqual
<1> QED
  BY <1>4, <1>6 DEF Starts

LEMMA OpRest ==
  ASSUME NEW s \in Seq(Byte), NEW i \in 1 .. Len(s) + 1, NEW op \in Byte, NEW r \in Seq(Byte),
         Rest(s, i) = <<op>> \o r
  PROVE  /\ i <= Len(s) /\ s[i] = op
         /\ i + 1 \in 1 .. Len(s) + 1 /\ Rest(s, i + 1) = r
<1> DEFINE a == <<op>>
<1>1. a \in Seq(Byte) /\ Len(a) = 1 /\ a[1] = op /\ Rest(s, i) = a \o r
  OBVIOUS
<1> HIDE DEF a
<1>2. Starts(s, i, a, r)
  BY <1>1, RestOf
<1>3. i \in Int /\ Len(s) \in Int
  BY LenProperties
<1>4. s[i + 1 - 1] = a[1] /\ i + 1 \in 1 .. Len(s) + 1 /\ Rest(s, i + 1) = r
  BY <1>1, <1>2 DEF Starts
<1> QED
  BY <1>1, <1>3, <1>4

\* The bytes of a push, and what is left behind them.
Pushes(s, i, d, r) ==
  /\ i <= Len(s) /\ s[i] = Len(d)
  /\ SubSeq(s, i + 1, i + Len(d)) = d
  /\ i + (1 + Len(d)) \in 1 .. Len(s) + 1
  /\ Rest(s, i + (1 + Len(d))) = r

LEMMA PushRest ==
  ASSUME NEW s \in Seq(Byte), NEW i \in 1 .. Len(s) + 1, NEW d \in Seq(Byte),
         Len(d) >= 1, Len(d) <= 75, NEW r \in Seq(Byte), Rest(s, i) = PushBytes(d) \o r
  PROVE  Pushes(s, i, d, r)
<1> DEFINE a == <<Len(d)>> \o d
           u == SubSeq(s, i + 1, i + Len(d))
<1>1. PushBytes(d) = a
  <2>1. d # <<>>
    <3> SUFFICES ASSUME d = <<>> PROVE FALSE
      OBVIOUS
    <3>1. Len(d) = 0
      BY EmptySeq
    <3> QED
      BY <3>1
  <2> QED
    BY <2>1 DEF PushBytes
<1>2. <<Len(d)>> \in Seq(Byte) /\ Len(<<Len(d)>>) = 1 /\ <<Len(d)>>[1] = Len(d)
  <2>1. Len(d) \in Nat /\ Len(d) < 256
    BY LenProperties
  <2>2. Len(d) \in Byte
    BY <2>1, ByteIs
  <2> QED
    BY <2>2
<1>3. /\ a \in Seq(Byte) /\ Len(a) = 1 + Len(d)
      /\ \A j \in 1 .. 1 + Len(d) : a[j] = IF j <= 1 THEN <<Len(d)>>[j] ELSE d[j - 1]
  BY <1>2, ConcatProperties
<1>4. a[1] = Len(d) /\ \A j \in 1 .. Len(d) : a[j + 1] = d[j]
  BY <1>2, <1>3
<1> HIDE DEF a
<1>5. /\ i + Len(a) \in 1 .. Len(s) + 1
      /\ \A j \in 1 .. Len(a) : s[i + j - 1] = a[j]
      /\ Rest(s, i + Len(a)) = r
  <2>1. a \in Seq(Byte) /\ Rest(s, i) = a \o r
    BY <1>1, <1>3
  <2>2. Starts(s, i, a, r)
    BY <2>1, RestOf
  <2> QED
    BY <2>2 DEF Starts
<1>6. i \in Int /\ Len(s) \in Nat /\ Len(d) \in Nat /\ Len(d) >= 1
  BY LenProperties
<1>7. s[i] = Len(d) /\ i <= Len(s)
  <2>1. s[i + 1 - 1] = a[1]
    BY <1>3, <1>5
  <2> QED
    BY <2>1, <1>3, <1>4, <1>5, <1>6
<1>8. \A j \in 1 .. Len(d) : s[i + j] = d[j]
  <2> SUFFICES ASSUME NEW j \in 1 .. Len(d) PROVE s[i + j] = d[j]
    OBVIOUS
  <2>1. s[i + (j + 1) - 1] = a[j + 1]
    BY <1>3, <1>5, <1>6
  <2> QED
    BY <2>1, <1>4, <1>6
<1>9. /\ u \in Seq(Byte) /\ Len(u) = Len(d)
      /\ \A j \in 1 .. Len(d) : u[j] = d[j]
  <2>1. \A j \in i + 1 .. i + Len(d) : s[j] \in Byte
    <3> SUFFICES ASSUME NEW j \in i + 1 .. i + Len(d) PROVE s[j] \in Byte
      OBVIOUS
    <3>1. j - i \in 1 .. Len(d) /\ i + (j - i) = j
      BY <1>6
    <3>2. s[j] = d[j - i] /\ d[j - i] \in Byte
      BY <1>8, <3>1, ElementOfSeq
    <3> QED
      BY <3>2
  <2>2. i + 1 \in Int /\ i + Len(d) \in Int
    BY <1>6
  <2>3. /\ u \in Seq(Byte)
        /\ Len(u) = IF i + 1 <= i + Len(d) THEN i + Len(d) - (i + 1) + 1 ELSE 0
        /\ \A j \in 1 .. i + Len(d) - (i + 1) + 1 : u[j] = s[i + 1 + j - 1]
    BY <2>1, <2>2, SubSeqProperties
  <2>4. i + Len(d) - (i + 1) + 1 = Len(d) /\ i + 1 <= i + Len(d)
    BY <1>6
  <2>5. \A j \in 1 .. Len(d) : i + 1 + j - 1 = i + j
    BY <1>6
  <2> HIDE DEF u
  <2> QED
    BY <2>3, <2>4, <2>5, <1>8
<1>10. u = d
  <2> HIDE DEF u
  <2> QED
    BY <1>9, SeqEqual
<1> QED
  BY <1>3, <1>5, <1>7, <1>10 DEF Pushes

------------------------------------------------------------------------------
(* Numbers *)

LEMMA PushNum ==
  ASSUME NEW x \in Nat, x <= 32767
  PROVE  Push(x) \in Seq(Byte) /\ Len(Push(x)) <= 2 /\ Num(Push(x)) = x
<1>1. CASE x = 0
  BY <1>1 DEF Push, Num, Magnitude
<1>2. CASE x \in 1 .. 127
  <2>1. Push(x) = <<x>>
    BY <1>2 DEF Push
  <2>2. Push(x) \in Seq(Byte) /\ Len(Push(x)) = 1 /\ Push(x)[1] = x /\ Push(x) # <<>>
    BY <1>2, <2>1 DEF Byte
  <2>3. /\ Magnitude(Push(x), 1) = x /\ Magnitude(Push(x), 2) = 0
        /\ Magnitude(Push(x), 3) = 0 /\ Magnitude(Push(x), 4) = 0
    BY <1>2, <2>2 DEF Magnitude
  <2> QED
    BY <1>2, <2>2, <2>3 DEF Num, Last
<1>3. CASE x > 127
  <2>1. Push(x) = <<x % 256, x \div 256>>
    BY <1>3 DEF Push
  <2>2. x % 256 \in Byte /\ x \div 256 \in 0 .. 127
    BY DEF Byte
  <2>3. /\ Push(x) \in Seq(Byte) /\ Len(Push(x)) = 2 /\ Push(x) # <<>>
        /\ Push(x)[1] = x % 256 /\ Push(x)[2] = x \div 256
    BY <2>1, <2>2 DEF Byte
  <2>4. /\ Magnitude(Push(x), 1) = x % 256 /\ Magnitude(Push(x), 2) = x \div 256
        /\ Magnitude(Push(x), 3) = 0 /\ Magnitude(Push(x), 4) = 0
    BY <2>2, <2>3 DEF Magnitude
  <2> QED
    BY <2>2, <2>3, <2>4 DEF Num, Last
<1> QED
  BY <1>1, <1>2, <1>3

LEMMA WeightIs ==
  Weight[1] = 1 /\ Weight[2] = 256 /\ Weight[3] = 65536 /\ Weight[4] = 16777216
BY SMT DEF Weight

LEMMA LittleEndianIs ==
  ASSUME NEW x \in Nat, x >= 1, x <= MaxNumber
  PROVE  \E len \in 1 .. 4 :
           /\ x \div Weight[len] \in 1 .. 255
           /\ LittleEndian(x) = [i \in 1 .. len |-> (x \div Weight[i]) % 256]
<1> DEFINE len == CHOOSE i \in 1 .. 4 : x \div Weight[i] \in 1 .. 255
<1>1. \E i \in 1 .. 4 : x \div Weight[i] \in 1 .. 255
  <2>1. CASE x < 256
    BY <2>1, WeightIs, SMT
  <2>2. CASE x >= 256 /\ x < 65536
    BY <2>2, WeightIs, SMT
  <2>3. CASE x >= 65536 /\ x < 16777216
    BY <2>3, WeightIs, SMT
  <2>4. CASE x >= 16777216
    BY <2>4, WeightIs, SMT DEF MaxNumber
  <2> QED
    BY <2>1, <2>2, <2>3, <2>4, SMT
<1>2. len \in 1 .. 4 /\ x \div Weight[len] \in 1 .. 255
  BY <1>1
<1>3. LittleEndian(x) = [i \in 1 .. len |-> (x \div Weight[i]) % 256]
  BY DEF LittleEndian
<1> HIDE DEF len
<1> QED
  BY <1>2, <1>3

LEMMA Recompose ==
  ASSUME NEW x \in Nat
  PROVE  /\ x \div 1 \in 1 .. 255 => x = x % 256
         /\ x \div 256 \in 1 .. 255 => x = (x % 256) + 256 * ((x \div 256) % 256)
         /\ x \div 65536 \in 1 .. 255 =>
              x = (x % 256) + 256 * ((x \div 256) % 256) + 65536 * ((x \div 65536) % 256)
         /\ x \div 16777216 \in 1 .. 255 =>
              x = (x % 256) + 256 * ((x \div 256) % 256) + 65536 * ((x \div 65536) % 256)
                    + 16777216 * ((x \div 16777216) % 256)
<1>1. ASSUME x \div 1 \in 1 .. 255 PROVE x = x % 256
  BY <1>1, SMT
<1>2. ASSUME x \div 256 \in 1 .. 255 PROVE x = (x % 256) + 256 * ((x \div 256) % 256)
  BY <1>2, SMT
<1>3. ASSUME x \div 65536 \in 1 .. 255
      PROVE  x = (x % 256) + 256 * ((x \div 256) % 256) + 65536 * ((x \div 65536) % 256)
  BY <1>3, SMT
<1>4. ASSUME x \div 16777216 \in 1 .. 255
      PROVE  x = (x % 256) + 256 * ((x \div 256) % 256) + 65536 * ((x \div 65536) % 256)
                   + 16777216 * ((x \div 16777216) % 256)
  BY <1>4, SMT
<1> QED
  BY <1>1, <1>2, <1>3, <1>4, SMT

\* The fourth byte of a number has a clear top bit.
LEMMA TopByte ==
  ASSUME NEW x \in Nat, x <= MaxNumber
  PROVE  (x \div 16777216) % 256 < 128
BY SMT DEF MaxNumber

\* The number of at most four bytes, without a sign.
Value(b) ==
  b[1] + 256 * (IF Len(b) >= 2 THEN b[2] ELSE 0)
    + 65536 * (IF Len(b) >= 3 THEN b[3] ELSE 0)
    + 16777216 * (IF Len(b) >= 4 THEN b[4] ELSE 0)

\* What a node reads from one to four bytes and possibly an empty one behind them.
LEMMA NumOf ==
  ASSUME NEW b \in Seq(Byte), Len(b) \in 1 .. 4, NEW y,
         y = IF Last(b) >= 128 THEN Append(b, 0) ELSE b, Last(b) >= 128 => Len(b) < 4
  PROVE  /\ y \in Seq(Byte) /\ Len(y) \in 1 .. 4
         /\ Num(y) = Value(b)
<1> DEFINE byte(i) == IF Len(b) >= i THEN b[i] ELSE 0
<1>1. /\ Last(b) = b[Len(b)] /\ \A i \in 1 .. Len(b) : b[i] \in Byte
      /\ 0 \in Byte
  BY ElementOfSeq, SMT DEF Last, Byte
<1>2. \A i \in 1 .. Len(b) : b[i] \in Nat /\ b[i] < 256
  BY <1>1, ByteIs
<1>3. /\ y \in Seq(Byte) /\ Len(y) \in 1 .. 4 /\ y # <<>> /\ ~(Last(y) >= 128)
      /\ \A i \in 1 .. 4 : Magnitude(y, i) = byte(i)
  <2>1. CASE Last(b) >= 128
    <3>1. /\ y \in Seq(Byte) /\ Len(y) = Len(b) + 1 /\ y[Len(b) + 1] = 0
          /\ \A i \in 1 .. Len(b) : y[i] = b[i]
      BY <1>1, <2>1, AppendProperties
    <3>2. Len(y) \in 1 .. 4 /\ y # <<>> /\ Last(y) = 0
      BY <2>1, <3>1, SMT DEF Last
    <3>3. \A i \in 1 .. 4 : Magnitude(y, i) = byte(i)
      BY <2>1, <3>1, SMT DEF Magnitude
    <3> QED
      BY <3>1, <3>2, <3>3, SMT
  <2>2. CASE ~(Last(b) >= 128)
    <3>1. y = b /\ y # <<>>
      BY <2>2, SMT
    <3>2. b[Len(b)] % 128 = b[Len(b)]
      <4>1. Len(b) \in 1 .. Len(b)
        OBVIOUS
      <4>2. b[Len(b)] \in Nat /\ ~(b[Len(b)] >= 128)
        BY <1>1, <1>2, <2>2, <4>1
      <4> QED
        BY <4>2, SMT
    <3>3. \A i \in 1 .. 4 : Magnitude(y, i) = byte(i)
      BY <3>1, <3>2, SMT DEF Magnitude
    <3> QED
      BY <2>2, <3>1, <3>3, SMT
  <2> QED
    BY <2>1, <2>2
<1>4. Num(y) = Magnitude(y, 1) + 256 * Magnitude(y, 2) + 65536 * Magnitude(y, 3)
                 + 16777216 * Magnitude(y, 4)
  BY <1>3, SMT DEF Num
<1>5. /\ Magnitude(y, 1) = b[1] /\ Magnitude(y, 2) = byte(2)
      /\ Magnitude(y, 3) = byte(3) /\ Magnitude(y, 4) = byte(4)
  BY <1>3, SMT
<1> QED
  BY <1>3, <1>4, <1>5, SMT DEF Value

\* The bytes of a number are those a node reads it from.
LEMMA ScriptNumIs ==
  ASSUME NEW x \in Nat, x >= 1, x <= MaxNumber
  PROVE  ScriptNum(x) \in Seq(Byte) /\ Len(ScriptNum(x)) \in 1 .. 4 /\ Num(ScriptNum(x)) = x
<1> DEFINE b == LittleEndian(x)
           y == ScriptNum(x)
<1> SUFFICES y \in Seq(Byte) /\ Len(y) \in 1 .. 4 /\ Num(y) = x
  OBVIOUS
<1>1. PICK len \in 1 .. 4 : /\ x \div Weight[len] \in 1 .. 255
                            /\ b = [i \in 1 .. len |-> (x \div Weight[i]) % 256]
  BY LittleEndianIs
<1>2. \A i \in 1 .. 4 : (x \div Weight[i]) % 256 \in Byte
  BY WeightIs, SMT DEF Byte
<1>3. /\ b \in Seq(Byte) /\ Len(b) = len
      /\ \A i \in 1 .. len : b[i] = (x \div Weight[i]) % 256
  BY <1>1, <1>2, SMT
<1>4. y = IF Last(b) >= 128 THEN Append(b, 0) ELSE b
  BY SMT DEF ScriptNum
<1> HIDE DEF b, y
<1>5. Last(b) >= 128 => Len(b) < 4
  <2>1. len = 4 => Last(b) = (x \div 16777216) % 256
    <3>1. len = 4 => Last(b) = (x \div Weight[4]) % 256
      BY <1>3 DEF Last
    <3> QED
      BY <3>1, WeightIs, SMT
  <2>2. (x \div 16777216) % 256 < 128
    BY TopByte
  <2> QED
    BY <1>3, <2>1, <2>2, SMT
<1>6. Len(b) \in 1 .. 4
  BY <1>3
<1>7. y \in Seq(Byte) /\ Len(y) \in 1 .. 4 /\ Num(y) = Value(b)
  BY <1>3, <1>4, <1>5, <1>6, NumOf
<1>8. b[1] = x % 256
  BY <1>1, <1>3, WeightIs, SMT
<1>9. CASE len = 1
  <2>1. x = x % 256
    BY <1>1, <1>9, WeightIs, Recompose, SMT
  <2> QED
    BY <1>3, <1>7, <1>8, <1>9, <2>1, SMT DEF Value
<1>10. CASE len = 2
  <2>1. x = (x % 256) + 256 * ((x \div 256) % 256)
    BY <1>1, <1>10, WeightIs, Recompose, SMT
  <2>2. b[2] = (x \div 256) % 256
    BY <1>3, <1>10, WeightIs, SMT
  <2> QED
    BY <1>3, <1>7, <1>8, <1>10, <2>1, <2>2, SMT DEF Value
<1>11. CASE len = 3
  <2>1. x = (x % 256) + 256 * ((x \div 256) % 256) + 65536 * ((x \div 65536) % 256)
    BY <1>1, <1>11, WeightIs, Recompose, SMT
  <2>2. b[2] = (x \div 256) % 256 /\ b[3] = (x \div 65536) % 256
    BY <1>3, <1>11, WeightIs, SMT
  <2> QED
    BY <1>3, <1>7, <1>8, <1>11, <2>1, <2>2, SMT DEF Value
<1>12. CASE len = 4
  <2>1. x = (x % 256) + 256 * ((x \div 256) % 256) + 65536 * ((x \div 65536) % 256)
              + 16777216 * ((x \div 16777216) % 256)
    BY <1>1, <1>12, WeightIs, Recompose, SMT
  <2>2. b[2] = (x \div 256) % 256 /\ b[3] = (x \div 65536) % 256
    BY <1>3, <1>12, WeightIs, SMT
  <2>3. b[4] = (x \div 16777216) % 256
    <3>1. b[4] = (x \div Weight[4]) % 256
      BY <1>3, <1>12
    <3> QED
      BY <3>1, WeightIs, SMT
  <2> QED
    BY <1>3, <1>7, <1>8, <1>12, <2>1, <2>2, <2>3, SMT DEF Value
<1> QED
  BY <1>9, <1>10, <1>11, <1>12, SMT

LEMMA OperandIs ==
  ASSUME NEW x \in Nat, x <= MaxNumber
  PROVE  Operand(x) \in Seq(Byte) /\ Num(Operand(x)) = x
<1>1. CASE x <= 16
  <2>1. x <= 32767
    BY <1>1, SMT
  <2> QED
    BY <1>1, <2>1, PushNum, SMT DEF Operand
<1>2. CASE x > 16
  <2>1. x >= 1
    BY <1>2, SMT
  <2> QED
    BY <1>2, <2>1, ScriptNumIs, SMT DEF Operand
<1> QED
  BY <1>1, <1>2

------------------------------------------------------------------------------
(* Scripts *)

LEMMA KeysAre ==
  /\ Len(Keys) \in Nat /\ Len(Keys) >= 1 /\ Len(Keys) <= 999
  /\ \A p \in Participant : Keys[p] \in Seq(Byte) /\ Len(Keys[p]) >= 1 /\ Len(Keys[p]) <= 75
<1>1. Keys \in Seq(Seq(Byte)) /\ Keys # <<>> /\ Len(Keys) <= 999
  BY ScriptAssumption DEF ScriptAssumption
<1>2. Len(Keys) \in Nat /\ Len(Keys) >= 1 /\ Len(Keys) <= 999
  BY <1>1, LenProperties, EmptySeq
<1>3. ASSUME NEW p \in Participant
      PROVE  Keys[p] \in Seq(Byte) /\ Len(Keys[p]) >= 1 /\ Len(Keys[p]) <= 75
  <2>1. Keys[p] \in Seq(Byte)
    BY <1>1, ElementOfSeq DEF Participant
  <2>2. Keys[p] # <<>> /\ Len(Keys[p]) <= 75
    BY ScriptAssumption DEF ScriptAssumption, Participant
  <2> QED
    BY <2>1, <2>2, EmptySeq
<1> QED
  BY <1>2, <1>3

LEMMA PreimagesAre ==
  ASSUME NEW x \in Preimages
  PROVE  x \in Seq(Byte) /\ Len(x) >= 1 /\ Len(x) <= 75
<1>1. x \in Seq(Byte) /\ x # <<>> /\ Len(x) <= 75
  BY ScriptAssumption DEF ScriptAssumption
<1> QED
  BY <1>1, EmptySeq

\* A different string for a different preimage.
LEMMA Sha256Is ==
  ASSUME NEW x \in Seq(Byte)
  PROVE  /\ Sha256(x) \in Seq(Byte) /\ Len(Sha256(x)) = Len(x)
         /\ \A y \in Seq(Byte) : Sha256(x) = Sha256(y) <=> x = y
<1>1. ASSUME NEW z \in Seq(Byte)
      PROVE  /\ Sha256(z) \in Seq(Byte) /\ Len(Sha256(z)) = Len(z)
             /\ \A i \in 1 .. Len(z) : z[i] \in Byte /\ Sha256(z)[i] = (z[i] + 1) % 256
  <2>1. \A i \in 1 .. Len(z) : z[i] \in Byte
    BY ElementOfSeq
  <2>2. \A v \in Byte : (v + 1) % 256 \in Byte
    BY ByteIs, SMT
  <2>3. Sha256(z) = [i \in 1 .. Len(z) |-> (z[i] + 1) % 256] /\ Len(z) \in Nat
    BY LenProperties DEF Sha256
  <2>4. Sha256(z) \in [1 .. Len(z) -> Byte]
    BY <2>1, <2>2, <2>3
  <2>5. Sha256(z) \in Seq(Byte) /\ Len(Sha256(z)) = Len(z)
    BY <2>3, <2>4
  <2> QED
    BY <2>1, <2>3, <2>5
<1>2. ASSUME NEW y \in Seq(Byte), Sha256(x) = Sha256(y)
      PROVE  x = y
  <2>1. Len(x) = Len(y)
    BY <1>1, <1>2
  <2>2. \A v, w \in Byte : (v + 1) % 256 = (w + 1) % 256 => v = w
    BY ByteIs, SMT
  <2>3. \A i \in 1 .. Len(x) : x[i] = y[i]
    BY <1>1, <1>2, <2>1, <2>2
  <2> QED
    BY <2>1, <2>3, SeqEqual
<1> QED
  BY <1>1, <1>2

LEMMA OneByte ==
  ASSUME NEW op \in Byte
  PROVE  <<op>> \in Seq(Byte)
OBVIOUS

LEMMA PushBytesIs ==
  ASSUME NEW d \in Seq(Byte), Len(d) <= 75
  PROVE  PushBytes(d) \in Seq(Byte)
<1>1. 0 \in Byte /\ Len(d) \in Byte
  BY LenProperties, ByteIs
<1>2. <<0>> \in Seq(Byte) /\ <<Len(d)>> \in Seq(Byte)
  BY <1>1, OneByte
<1>3. <<Len(d)>> \o d \in Seq(Byte)
  BY <1>2, ConcatProperties
<1> QED
  BY <1>2, <1>3 DEF PushBytes, OP_0

LEMMA PushIntIs ==
  ASSUME NEW x \in Nat, x <= MaxNumber
  PROVE  PushInt(x) \in Seq(Byte)
<1>1. CASE x = 0
  BY <1>1, ByteIs, OneByte DEF PushInt, OP_0
<1>2. CASE x # 0 /\ x <= 16
  <2>1. OP_1 + x - 1 \in Byte
    BY <1>2, ByteIs DEF OP_1
  <2> QED
    BY <1>2, <2>1, OneByte DEF PushInt
<1>3. CASE x > 16
  <2>1. x >= 1
    BY <1>3
  <2>2. ScriptNum(x) \in Seq(Byte) /\ Len(ScriptNum(x)) \in 1 .. 4
    BY <2>1, ScriptNumIs
  <2>3. Len(ScriptNum(x)) >= 1 /\ Len(ScriptNum(x)) <= 75
    <3>1. \A v \in 1 .. 4 : v >= 1 /\ v <= 75
      OBVIOUS
    <3> QED
      BY <2>2, <3>1, Zenon
  <2>4. PushBytes(ScriptNum(x)) \in Seq(Byte)
    BY <2>2, <2>3, PushBytesIs
  <2> QED
    BY <1>3, <2>4 DEF PushInt
<1> QED
  BY <1>1, <1>2, <1>3

\* The checks of the keys from the last one downwards.
LEMMA ChecksAfterDef ==
  \A p \in Participant :
    ChecksAfter[p] = IF p = Len(Keys) THEN <<>>
                     ELSE PushBytes(Keys[p + 1]) \o <<OP_CHECKSIGADD>> \o ChecksAfter[p + 1]
<1> DEFINE Step(f, p) == IF p = Len(Keys) THEN <<>>
                         ELSE PushBytes(Keys[p + 1]) \o <<OP_CHECKSIGADD>> \o f[p + 1]
           Good == {m \in Nat : m < Len(Keys) =>
                      \E f : \A p \in Participant : p >= Len(Keys) - m => f[p] = Step(f, p)}
           Bad == {m \in Nat : m \notin Good}
<1>1. 0 \in Good
  <2> DEFINE f == [p \in Participant |-> <<>>]
  <2>1. \A p \in Participant : p >= Len(Keys) - 0 => p = Len(Keys)
    BY KeysAre DEF Participant
  <2>2. \A p \in Participant : p >= Len(Keys) - 0 => f[p] = Step(f, p)
    BY <2>1
  <2> HIDE DEF Step, f
  <2> QED
    BY <2>2
<1>2. ASSUME NEW m \in Nat, m \in Good PROVE m + 1 \in Good
  <2> SUFFICES ASSUME m + 1 < Len(Keys)
               PROVE  \E f : \A p \in Participant : p >= Len(Keys) - (m + 1) => f[p] = Step(f, p)
    OBVIOUS
  <2>1. PICK g : \A p \in Participant : p >= Len(Keys) - m => g[p] = Step(g, p)
    BY <1>2, KeysAre
  <2> DEFINE q == Len(Keys) - (m + 1)
             f == [p \in Participant |-> IF p = q THEN Step(g, p) ELSE g[p]]
  <2>2. ASSUME NEW p \in Participant, p >= q PROVE f[p] = Step(f, p)
    <3>1. f[p] = Step(g, p)
      <4>1. CASE p = q
        BY <4>1
      <4>2. CASE p # q
        <5>1. p >= Len(Keys) - m
          BY <2>2, <4>2, KeysAre DEF Participant
        <5>2. g[p] = Step(g, p)
          BY <2>1, <5>1
        <5> QED
          BY <4>2, <5>2
      <4> QED
        BY <4>1, <4>2
    <3>2. p # Len(Keys) => p + 1 \in Participant /\ p + 1 # q
      BY <2>2, KeysAre DEF Participant
    <3>3. p # Len(Keys) => f[p + 1] = g[p + 1]
      BY <3>2
    <3> QED
      BY <3>1, <3>3
  <2>3. \A p \in Participant : p >= q => f[p] = Step(f, p)
    BY <2>2
  <2> HIDE DEF Step, f
  <2> QED
    BY <2>3
<1>3. Bad = {}
  <2> SUFFICES ASSUME Bad # {} PROVE FALSE
    OBVIOUS
  <2>1. PICK m \in Bad : \A k \in Bad : ~(<<k, m>> \in OpToRel(<, Nat))
    <3>1. Bad \subseteq Nat
      OBVIOUS
    <3> HIDE DEF Bad
    <3> QED
      BY <3>1, NatLessThanWellFounded, WFMin
  <2>2. m \in Nat /\ m # 0 /\ m \notin Good
    BY <1>1
  <2>3. m - 1 \in Nat /\ (m - 1) + 1 = m /\ m - 1 < m
    BY <2>2
  <2>4. m - 1 \notin Bad
    BY <2>1, <2>2, <2>3 DEF OpToRel
  <2> HIDE DEF Good
  <2> QED
    BY <1>2, <2>2, <2>3, <2>4
<1>4. PICK g : \A p \in Participant : p >= 1 => g[p] = Step(g, p)
  <2>1. Len(Keys) - 1 \in Nat /\ Len(Keys) - 1 < Len(Keys) /\ Len(Keys) - (Len(Keys) - 1) = 1
    BY KeysAre
  <2>2. Len(Keys) - 1 \in Good
    <3> HIDE DEF Good
    <3> QED
      BY <1>3, <2>1
  <2> HIDE DEF Step
  <2> QED
    BY <2>1, <2>2
<1> DEFINE f == [p \in Participant |-> g[p]]
<1>5. f = [p \in Participant |-> Step(f, p)]
  <2> SUFFICES ASSUME NEW p \in Participant PROVE g[p] = Step(f, p)
    OBVIOUS
  <2>1. p >= 1 /\ (p # Len(Keys) => p + 1 \in Participant)
    BY KeysAre DEF Participant
  <2>2. p # Len(Keys) => f[p + 1] = g[p + 1]
    BY <2>1
  <2>3. g[p] = Step(g, p)
    BY <1>4, <2>1
  <2> QED
    BY <2>2, <2>3
<1> HIDE DEF f
<1>6. ChecksAfter = [p \in Participant |-> Step(ChecksAfter, p)]
  BY <1>5 DEF ChecksAfter
<1> QED
  BY <1>6

LEMMA ConcatIs ==
  \A a, b \in Seq(Byte) : a \o b \in Seq(Byte)
BY ConcatProperties

LEMMA Regroup ==
  \A a, b, c \in Seq(Byte) : a \o b \o c = a \o (b \o c)
BY ConcatAssociative

LEMMA OpsAre ==
  /\ OP_0 \in Byte /\ OP_CSV \in Byte /\ OP_DROP \in Byte /\ OP_CHECKSIG \in Byte
  /\ OP_CHECKSIGADD \in Byte /\ OP_NUMEQUAL \in Byte /\ OP_CHECKSIGVERIFY \in Byte
  /\ OP_SHA256 \in Byte /\ OP_EQUAL \in Byte
BY ByteIs DEF OP_0, OP_CSV, OP_DROP, OP_CHECKSIG, OP_CHECKSIGADD, OP_NUMEQUAL,
              OP_CHECKSIGVERIFY, OP_SHA256, OP_EQUAL

LEMMA ChecksAfterIs ==
  \A p \in Participant : ChecksAfter[p] \in Seq(Byte)
<1> DEFINE Bad == {m \in Nat : m < Len(Keys) /\ ChecksAfter[Len(Keys) - m] \notin Seq(Byte)}
<1>1. Bad = {}
  <2> SUFFICES ASSUME Bad # {} PROVE FALSE
    OBVIOUS
  <2>1. PICK m \in Bad : \A k \in Bad : ~(<<k, m>> \in OpToRel(<, Nat))
    <3>1. Bad \subseteq Nat
      OBVIOUS
    <3> HIDE DEF Bad
    <3> QED
      BY <3>1, NatLessThanWellFounded, WFMin
  <2> DEFINE p == Len(Keys) - m
  <2>2. m \in Nat /\ m < Len(Keys) /\ p \in Participant /\ ChecksAfter[p] \notin Seq(Byte)
    BY KeysAre DEF Participant
  <2>3. p # Len(Keys)
    <3>1. <<>> \in Seq(Byte)
      BY EmptySeq
    <3> QED
      BY <2>2, <3>1, ChecksAfterDef
  <2>4. m - 1 \in Nat /\ m - 1 < m /\ m - 1 < Len(Keys) /\ Len(Keys) - (m - 1) = p + 1
    BY <2>2, <2>3, KeysAre
  <2>5. p + 1 \in Participant
    BY <2>2, <2>3, KeysAre DEF Participant
  <2>6. ChecksAfter[p + 1] \in Seq(Byte)
    <3>1. m - 1 \notin Bad
      BY <2>1, <2>2, <2>4 DEF OpToRel
    <3> QED
      BY <2>4, <3>1
  <2> HIDE DEF p
  <2>7. PushBytes(Keys[p + 1]) \in Seq(Byte) /\ <<OP_CHECKSIGADD>> \in Seq(Byte)
    BY <2>5, KeysAre, PushBytesIs, OpsAre, OneByte
  <2>8. PushBytes(Keys[p + 1]) \o <<OP_CHECKSIGADD>> \o ChecksAfter[p + 1] \in Seq(Byte)
    BY <2>6, <2>7, ConcatIs
  <2> QED
    BY <2>2, <2>3, <2>8, ChecksAfterDef
<1>2. ASSUME NEW p \in Participant PROVE ChecksAfter[p] \in Seq(Byte)
  <2>1. Len(Keys) - p \in Nat /\ Len(Keys) - p < Len(Keys) /\ Len(Keys) - (Len(Keys) - p) = p
    BY KeysAre DEF Participant
  <2> QED
    BY <1>1, <2>1
<1> QED
  BY <1>2

LEMMA ThresholdIs ==
  ASSUME NEW k \in Nat, k <= MaxNumber
  PROVE  Threshold(k) \in Seq(Byte)
<1>1. PushInt(k) \in Seq(Byte) /\ <<OP_NUMEQUAL>> \in Seq(Byte)
  BY PushIntIs, OpsAre, OneByte
<1> QED
  BY <1>1, ConcatProperties DEF Threshold

\* The refund script, instruction by instruction.
LEMMA RefundScriptIs ==
  ASSUME NEW t \in Nat, t <= MaxNumber, NEW k \in Nat, k <= MaxNumber
  PROVE  /\ RefundScript(t, k) = PushInt(t) \o (<<OP_CSV>> \o <<OP_DROP>> \o FromKeyOne(k))
         /\ <<OP_CSV>> \o <<OP_DROP>> \o FromKeyOne(k)
              = <<OP_CSV>> \o (<<OP_DROP>> \o FromKeyOne(k))
         /\ FromKeyOne(k) = PushBytes(Keys[1]) \o (<<OP_CHECKSIG>> \o Checks(1, k))
         /\ RefundScript(t, k) \in Seq(Byte)
         /\ <<OP_CSV>> \o <<OP_DROP>> \o FromKeyOne(k) \in Seq(Byte)
         /\ <<OP_DROP>> \o FromKeyOne(k) \in Seq(Byte)
         /\ FromKeyOne(k) \in Seq(Byte)
         /\ <<OP_CHECKSIG>> \o Checks(1, k) \in Seq(Byte)
<1> DEFINE P == PushInt(t)
           C == <<OP_CSV>>
           D == <<OP_DROP>>
           K == PushBytes(Keys[1])
           G == <<OP_CHECKSIG>>
           A == ChecksAfter[1]
           T == Threshold(k)
<1>1. 1 \in Participant
  BY KeysAre DEF Participant
<1>2. /\ P \in Seq(Byte) /\ C \in Seq(Byte) /\ D \in Seq(Byte) /\ K \in Seq(Byte)
      /\ G \in Seq(Byte) /\ A \in Seq(Byte) /\ T \in Seq(Byte)
  BY <1>1, PushIntIs, OpsAre, OneByte, KeysAre, PushBytesIs, ChecksAfterIs, ThresholdIs
<1>3. /\ RefundScript(t, k) = P \o C \o D \o K \o G \o A \o T
      /\ FromKeyOne(k) = K \o G \o (A \o T) /\ Checks(1, k) = A \o T
  BY DEF RefundScript, FromKeyOne, Checks
<1> HIDE DEF P, C, D, K, G, A, T
<1>P. P \in Seq(Byte)
  BY <1>2
<1>C. C \in Seq(Byte)
  BY <1>2
<1>D. D \in Seq(Byte)
  BY <1>2
<1>K. K \in Seq(Byte)
  BY <1>2
<1>G. G \in Seq(Byte)
  BY <1>2
<1>A. A \in Seq(Byte)
  BY <1>2
<1>T. T \in Seq(Byte)
  BY <1>2
<1>4. A \o T \in Seq(Byte) /\ G \o (A \o T) \in Seq(Byte)
  <2>1. A \o T \in Seq(Byte)
    BY <1>2, ConcatIs
  <2> QED
    BY <1>2, <2>1, ConcatIs
<1>5. K \o G \o (A \o T) = K \o (G \o (A \o T)) /\ K \o (G \o (A \o T)) \in Seq(Byte)
  <2>1. K \o G \o (A \o T) = K \o (G \o (A \o T))
    BY <1>K, <1>G, <1>4, Regroup, Zenon
  <2>2. K \o (G \o (A \o T)) \in Seq(Byte)
    BY <1>2, <1>4, ConcatIs
  <2> QED
    BY <2>1, <2>2
<1> DEFINE F == K \o (G \o (A \o T))
<1> HIDE DEF F
<1>6. F \in Seq(Byte) /\ D \o F \in Seq(Byte)
  <2>1. F \in Seq(Byte)
    BY <1>5 DEF F
  <2> QED
    BY <1>2, <2>1, ConcatIs
<1>7. C \o D \o F = C \o (D \o F) /\ C \o (D \o F) \in Seq(Byte)
  <2>1. C \o D \o F = C \o (D \o F)
    BY <1>C, <1>D, <1>6, Regroup, Zenon
  <2>2. C \o (D \o F) \in Seq(Byte)
    BY <1>2, <1>6, ConcatIs
  <2> QED
    BY <2>1, <2>2
<1>8. P \o (C \o (D \o F)) \in Seq(Byte)
  BY <1>2, <1>7, ConcatIs
<1>9. P \o C \o D \o K \o G \o A \o T = P \o (C \o (D \o F))
  <2>1. P \o C \in Seq(Byte)
    BY <1>2, ConcatIs
  <2>2. P \o C \o D \in Seq(Byte)
    BY <1>2, <2>1, ConcatIs
  <2>3. P \o C \o D \o K \in Seq(Byte)
    BY <1>2, <2>2, ConcatIs
  <2>4. P \o C \o D \o K \o G \in Seq(Byte)
    BY <1>2, <2>3, ConcatIs
  <2>5. P \o C \o D \o K \o G \o A \o T = P \o C \o D \o K \o G \o (A \o T)
    BY <2>4, <1>A, <1>T, Regroup, Zenon
  <2>6. P \o C \o D \o K \o G \o (A \o T) = P \o C \o D \o K \o (G \o (A \o T))
    BY <2>3, <1>G, <1>4, Regroup, Zenon
  <2>7. P \o C \o D \o K \o (G \o (A \o T)) = P \o C \o D \o F
    BY <2>2, <1>K, <1>4, Regroup, Zenon DEF F
  <2>8. P \o C \o D \o F = P \o C \o (D \o F)
    BY <2>1, <1>D, <1>6, Regroup, Zenon
  <2>9. P \o C \o (D \o F) = P \o (C \o (D \o F))
    BY <1>P, <1>C, <1>6, Regroup, Zenon
  <2> QED
    BY <2>5, <2>6, <2>7, <2>8, <2>9
<1>10. /\ RefundScript(t, k) = P \o (C \o (D \o F))
       /\ FromKeyOne(k) = F /\ Checks(1, k) = A \o T
  BY <1>3, <1>5, <1>9 DEF F
<1>11. FromKeyOne(k) = K \o (G \o Checks(1, k))
  BY <1>10 DEF F
<1>12. /\ RefundScript(t, k) = P \o (C \o D \o FromKeyOne(k))
       /\ C \o D \o FromKeyOne(k) = C \o (D \o FromKeyOne(k))
       /\ RefundScript(t, k) \in Seq(Byte)
       /\ C \o D \o FromKeyOne(k) \in Seq(Byte)
       /\ D \o FromKeyOne(k) \in Seq(Byte)
       /\ FromKeyOne(k) \in Seq(Byte)
       /\ G \o Checks(1, k) \in Seq(Byte)
  BY <1>4, <1>6, <1>7, <1>8, <1>10
<1> QED
  BY <1>11, <1>12 DEF P, C, D, K, G

\* The HTLC script, instruction by instruction.
LEMMA HtlcScriptIs ==
  ASSUME NEW w \in Participant, NEW hash \in Seq(Byte), Len(hash) <= 75
  PROVE  /\ HtlcScript(w, hash)
              = PushBytes(Keys[w]) \o (<<OP_CHECKSIGVERIFY>> \o <<OP_SHA256>> \o Compare(hash))
         /\ <<OP_CHECKSIGVERIFY>> \o <<OP_SHA256>> \o Compare(hash)
              = <<OP_CHECKSIGVERIFY>> \o (<<OP_SHA256>> \o Compare(hash))
         /\ HtlcScript(w, hash) \in Seq(Byte)
         /\ <<OP_CHECKSIGVERIFY>> \o <<OP_SHA256>> \o Compare(hash) \in Seq(Byte)
         /\ <<OP_SHA256>> \o Compare(hash) \in Seq(Byte)
         /\ Compare(hash) \in Seq(Byte)
<1> DEFINE K == PushBytes(Keys[w])
           V == <<OP_CHECKSIGVERIFY>>
           H == <<OP_SHA256>>
           B == PushBytes(hash)
           E == <<OP_EQUAL>>
<1>K. K \in Seq(Byte)
  BY KeysAre, PushBytesIs
<1>V. V \in Seq(Byte)
  BY OpsAre, OneByte
<1>H. H \in Seq(Byte)
  BY OpsAre, OneByte
<1>B. B \in Seq(Byte)
  BY PushBytesIs
<1>E. E \in Seq(Byte)
  BY OpsAre, OneByte
<1>1. HtlcScript(w, hash) = K \o V \o H \o B \o E /\ Compare(hash) = B \o E
  BY DEF HtlcScript, Compare
<1> HIDE DEF K, V, H, B, E
<1> DEFINE C == B \o E
<1>2. C \in Seq(Byte)
  BY <1>B, <1>E, ConcatIs
<1> HIDE DEF C
<1>3. H \o C \in Seq(Byte)
  BY <1>H, <1>2, ConcatIs
<1>4. V \o H \o C = V \o (H \o C)
  BY <1>V, <1>H, <1>2, Regroup, Zenon
<1>5. V \o (H \o C) \in Seq(Byte)
  BY <1>V, <1>3, ConcatIs
<1>6. K \o (V \o (H \o C)) \in Seq(Byte)
  BY <1>K, <1>5, ConcatIs
<1>7. K \o V \o H \o B \o E = K \o (V \o (H \o C))
  <2>1. K \o V \in Seq(Byte)
    BY <1>K, <1>V, ConcatIs
  <2>2. K \o V \o H \in Seq(Byte)
    BY <2>1, <1>H, ConcatIs
  <2>3. K \o V \o H \o B \o E = K \o V \o H \o C
    BY <2>2, <1>B, <1>E, Regroup, Zenon DEF C
  <2>4. K \o V \o H \o C = K \o V \o (H \o C)
    BY <2>1, <1>H, <1>2, Regroup, Zenon
  <2>5. K \o V \o (H \o C) = K \o (V \o (H \o C))
    BY <1>K, <1>V, <1>3, Regroup, Zenon
  <2> QED
    BY <2>3, <2>4, <2>5
<1>8. Compare(hash) = C /\ HtlcScript(w, hash) = K \o (V \o H \o C)
  BY <1>1, <1>4, <1>7 DEF C
<1>9. /\ HtlcScript(w, hash) = K \o (V \o H \o Compare(hash))
      /\ V \o H \o Compare(hash) = V \o (H \o Compare(hash))
      /\ HtlcScript(w, hash) \in Seq(Byte)
      /\ V \o H \o Compare(hash) \in Seq(Byte)
      /\ H \o Compare(hash) \in Seq(Byte) /\ Compare(hash) \in Seq(Byte)
  BY <1>2, <1>3, <1>4, <1>5, <1>6, <1>8
<1> QED
  BY <1>9 DEF K, V, H

LEMMA ChecksAre ==
  ASSUME NEW p \in Participant, NEW k \in Nat, k <= MaxNumber
  PROVE  /\ Checks(p, k) \in Seq(Byte)
         /\ p = Len(Keys) => Checks(p, k) = PushInt(k) \o <<OP_NUMEQUAL>>
         /\ p # Len(Keys) =>
              /\ p + 1 \in Participant
              /\ Checks(p, k) = PushBytes(Keys[p + 1]) \o (<<OP_CHECKSIGADD>> \o Checks(p + 1, k))
              /\ <<OP_CHECKSIGADD>> \o Checks(p + 1, k) \in Seq(Byte)
<1> DEFINE T == Threshold(k)
<1>T. T \in Seq(Byte)
  BY ThresholdIs
<1>1. Checks(p, k) = ChecksAfter[p] \o T /\ Checks(p + 1, k) = ChecksAfter[p + 1] \o T
  BY DEF Checks
<1>2. T = PushInt(k) \o <<OP_NUMEQUAL>>
  BY DEF Threshold
<1> HIDE DEF T
<1>3. Checks(p, k) \in Seq(Byte)
  BY <1>T, <1>1, ChecksAfterIs, ConcatIs
<1>4. ASSUME p = Len(Keys) PROVE Checks(p, k) = T
  BY <1>T, <1>1, <1>4, ChecksAfterDef, ConcatEmptySeq
<1>5. ASSUME p # Len(Keys)
      PROVE  /\ p + 1 \in Participant
             /\ Checks(p, k) = PushBytes(Keys[p + 1]) \o (<<OP_CHECKSIGADD>> \o Checks(p + 1, k))
             /\ <<OP_CHECKSIGADD>> \o Checks(p + 1, k) \in Seq(Byte)
  <2> DEFINE K == PushBytes(Keys[p + 1])
             G == <<OP_CHECKSIGADD>>
             A == ChecksAfter[p + 1]
  <2>1. p + 1 \in Participant
    BY <1>5, KeysAre DEF Participant
  <2>K. K \in Seq(Byte)
    BY <2>1, KeysAre, PushBytesIs
  <2>G. G \in Seq(Byte)
    BY OpsAre, OneByte
  <2>A. A \in Seq(Byte)
    BY <2>1, ChecksAfterIs
  <2>2. ChecksAfter[p] = K \o G \o A
    BY <1>5, ChecksAfterDef
  <2> HIDE DEF K, G, A
  <2>3. A \o T \in Seq(Byte)
    BY <2>A, <1>T, ConcatIs
  <2>4. G \o (A \o T) \in Seq(Byte)
    BY <2>G, <2>3, ConcatIs
  <2>5. K \o G \in Seq(Byte)
    BY <2>K, <2>G, ConcatIs
  <2>6. K \o G \o A \o T = K \o G \o (A \o T)
    BY <2>5, <2>A, <1>T, Regroup, Zenon
  <2>7. K \o G \o (A \o T) = K \o (G \o (A \o T))
    BY <2>K, <2>G, <2>3, Regroup, Zenon
  <2>8. Checks(p + 1, k) = A \o T
    BY <1>1 DEF A
  <2>9. Checks(p, k) = K \o (G \o Checks(p + 1, k)) /\ G \o Checks(p + 1, k) \in Seq(Byte)
    BY <1>1, <2>2, <2>4, <2>6, <2>7, <2>8
  <2> QED
    BY <2>1, <2>9 DEF K, G
<1> QED
  BY <1>2, <1>3, <1>4, <1>5

------------------------------------------------------------------------------
(* The machine *)

\* One instruction has been executed, or has failed.
Goes(rest, elements) ==
  /\ ip' \in 1 .. Len(script) + 1 /\ Rest(script, ip') = rest /\ stack' = elements
  /\ UNCHANGED <<spend, script, sequence, res>>

LEMMA Running ==
  ASSUME res = "run", ScriptNext
  PROVE  \/ OpPush \/ OpNumber \/ OpCsv \/ OpDrop \/ OpCheckSig \/ OpCheckSigAdd
         \/ OpCheckSigVerify \/ OpSha256 \/ OpEqual \/ OpNumEqual \/ Finish
BY DEF ScriptNext, ClaimHtlcMethod, ClaimHtlcHandler, BroadcastRefund

LEMMA PushRuns ==
  ASSUME ScriptTypeOK, res = "run", ScriptNext,
         NEW d \in Seq(Byte), Len(d) >= 1, Len(d) <= 75, NEW r \in Seq(Byte),
         Rest(script, ip) = PushBytes(d) \o r
  PROVE  Goes(r, Append(stack, d))
<1>1. script \in Seq(Byte) /\ ip \in 1 .. Len(script) + 1
  BY DEF ScriptTypeOK
<1>2. /\ ip <= Len(script) /\ script[ip] = Len(d)
      /\ SubSeq(script, ip + 1, ip + Len(d)) = d
      /\ ip + (1 + Len(d)) \in 1 .. Len(script) + 1
      /\ Rest(script, ip + (1 + Len(d))) = r
  <2>1. Pushes(script, ip, d, r)
    BY <1>1, PushRest
  <2> QED
    BY <2>1 DEF Pushes
<1>3. Len(d) \in Nat /\ Len(script) \in Nat /\ ip \in Nat
  BY <1>1, LenProperties
<1>4. OpPush
  <2>1. ip # Len(script) + 1 /\ Op \in Nat /\ Op >= 1 /\ Op <= 75
    BY <1>2, <1>3 DEF Op
  <2>2. ~Finish
    BY <2>1 DEF Finish
  <2>3. /\ ~AtOp(OP_CSV) /\ ~AtOp(OP_DROP) /\ ~AtOp(OP_CHECKSIG) /\ ~AtOp(OP_CHECKSIGADD)
        /\ ~AtOp(OP_CHECKSIGVERIFY) /\ ~AtOp(OP_SHA256) /\ ~AtOp(OP_EQUAL) /\ ~AtOp(OP_NUMEQUAL)
    BY <2>1 DEF AtOp, OP_CSV, OP_DROP, OP_CHECKSIG, OP_CHECKSIGADD, OP_NUMEQUAL,
                      OP_CHECKSIGVERIFY, OP_SHA256, OP_EQUAL
  <2>4. ~OpNumber
    BY <2>1 DEF OpNumber, OP_0, OP_1
  <2> QED
    BY <2>2, <2>3, <2>4, Running DEF OpCsv, OpDrop, OpCheckSig, OpCheckSigAdd,
       OpCheckSigVerify, OpSha256, OpEqual, OpNumEqual
<1>5. /\ stack' = Append(stack, SubSeq(script, ip + 1, ip + Len(d))) /\ ip' = ip + (1 + Len(d))
      /\ UNCHANGED <<spend, script, sequence, res>>
  BY <1>2, <1>4 DEF OpPush, Advance, Op
<1> QED
  BY <1>2, <1>5 DEF Goes

LEMMA OpRuns ==
  ASSUME ScriptTypeOK, res = "run", ScriptNext,
         NEW op \in Byte, NEW r \in Seq(Byte), Rest(script, ip) = <<op>> \o r
  PROVE  /\ \A s : Advance(1, s) => Goes(r, s)
         /\ op = OP_CSV => OpCsv
         /\ op = OP_DROP => OpDrop
         /\ op = OP_CHECKSIG => OpCheckSig
         /\ op = OP_CHECKSIGADD => OpCheckSigAdd
         /\ op = OP_CHECKSIGVERIFY => OpCheckSigVerify
         /\ op = OP_SHA256 => OpSha256
         /\ op = OP_EQUAL => OpEqual
         /\ op = OP_NUMEQUAL => OpNumEqual
         /\ op = 0 \/ (op > 80 /\ op <= 96) =>
              OpNumber /\ Op = op
<1>1. script \in Seq(Byte) /\ ip \in 1 .. Len(script) + 1
  BY DEF ScriptTypeOK
<1>2. /\ ip <= Len(script) /\ script[ip] = op
      /\ ip + 1 \in 1 .. Len(script) + 1 /\ Rest(script, ip + 1) = r
  BY <1>1, OpRest
<1>3. Len(script) \in Nat /\ ip \in Nat /\ op \in Nat
  BY <1>1, LenProperties, ByteIs
<1>4. Op = op /\ ~Finish
  BY <1>2, <1>3 DEF Op, Finish
<1>5. \A s : Advance(1, s) => Goes(r, s)
  BY <1>2 DEF Advance, Goes
<1>6. ASSUME op > 75 \/ op = 0 PROVE ~OpPush
  <2>1. \A v \in 1 .. 75 : v # 0 /\ ~(v > 75)
    OBVIOUS
  <2> QED
    BY <1>4, <1>6, <2>1, Zenon DEF OpPush
<1>7. \/ OpPush \/ OpNumber \/ OpCsv \/ OpDrop \/ OpCheckSig \/ OpCheckSigAdd
      \/ OpCheckSigVerify \/ OpSha256 \/ OpEqual \/ OpNumEqual
  BY <1>4, Running
<1>8. /\ OpCsv => op = OP_CSV
      /\ OpDrop => op = OP_DROP
      /\ OpCheckSig => op = OP_CHECKSIG
      /\ OpCheckSigAdd => op = OP_CHECKSIGADD
      /\ OpCheckSigVerify => op = OP_CHECKSIGVERIFY
      /\ OpSha256 => op = OP_SHA256
      /\ OpEqual => op = OP_EQUAL
      /\ OpNumEqual => op = OP_NUMEQUAL
  BY <1>4 DEF AtOp, OpCsv, OpDrop, OpCheckSig, OpCheckSigAdd,
       OpCheckSigVerify, OpSha256, OpEqual, OpNumEqual
<1>9. OpNumber => op = 0 \/ (op > 80 /\ op <= 96)
  BY <1>3, <1>4 DEF OpNumber, OP_0, OP_1
<1> QED
  BY <1>3, <1>4, <1>5, <1>6, <1>7, <1>8, <1>9
     DEF OP_CSV, OP_DROP, OP_CHECKSIG, OP_CHECKSIGADD, OP_NUMEQUAL,
         OP_CHECKSIGVERIFY, OP_SHA256, OP_EQUAL

LEMMA NumberRuns ==
  ASSUME ScriptTypeOK, res = "run", ScriptNext, NEW x \in Nat, x <= MaxNumber,
         NEW r \in Seq(Byte), Rest(script, ip) = PushInt(x) \o r
  PROVE  Goes(r, Append(stack, Operand(x)))
<1>1. CASE x = 0
  <2>1. PushInt(x) = <<0>> /\ 0 \in Byte /\ Operand(x) = Push(0)
    <3>1. 0 \in Byte
      BY ByteIs
    <3> QED
      BY <1>1, <3>1 DEF PushInt, OP_0, Operand
  <2>2. OpNumber /\ Op = 0 /\ \A s : Advance(1, s) => Goes(r, s)
    BY <2>1, OpRuns
  <2>3. Advance(1, Append(stack, Push(0)))
    BY <2>2 DEF OpNumber, OP_0
  <2> QED
    BY <2>1, <2>2, <2>3
<1>2. CASE x # 0 /\ x <= 16
  <2>1. PushInt(x) = <<80 + x>> /\ 80 + x \in Byte /\ Operand(x) = Push(x)
    BY <1>2, ByteIs DEF PushInt, OP_1, Operand
  <2>2. OpNumber /\ Op = 80 + x /\ \A s : Advance(1, s) => Goes(r, s)
    <3>1. 80 + x > 80 /\ 80 + x <= 96
      BY <1>2
    <3> QED
      BY <2>1, <3>1, OpRuns
  <2>3. Advance(1, Append(stack, Push(IF Op = OP_0 THEN 0 ELSE Op - OP_1 + 1)))
    BY <2>2 DEF OpNumber
  <2>4. (IF Op = OP_0 THEN 0 ELSE Op - OP_1 + 1) = x
    BY <1>2, <2>2 DEF OP_0, OP_1
  <2> QED
    BY <2>1, <2>2, <2>3, <2>4
<1>3. CASE x > 16
  <2> DEFINE d == ScriptNum(x)
  <2>1. PushInt(x) = PushBytes(d) /\ Operand(x) = d
    BY <1>3 DEF PushInt, Operand
  <2>2. d \in Seq(Byte) /\ Len(d) >= 1 /\ Len(d) <= 75
    <3>1. x >= 1
      BY <1>3
    <3>2. \A v \in 1 .. 4 : v >= 1 /\ v <= 75
      OBVIOUS
    <3>3. d \in Seq(Byte) /\ Len(d) \in 1 .. 4
      BY <3>1, ScriptNumIs
    <3> HIDE DEF d
    <3> QED
      BY <3>2, <3>3, Zenon
  <2> HIDE DEF d
  <2> QED
    BY <2>1, <2>2, PushRuns
<1> QED
  BY <1>1, <1>2, <1>3

\* Behind its last instruction a script is decided.
LEMMA EndRuns ==
  ASSUME ScriptTypeOK, res = "run", ScriptNext, Rest(script, ip) = <<>>
  PROVE  Finish
<1>1. script \in Seq(Byte) /\ ip \in 1 .. Len(script) + 1
  BY DEF ScriptTypeOK
<1>2. Len(script) \in Int /\ ip \in Int
  BY <1>1, LenProperties
<1>3. \A i \in ip .. Len(script) : script[i] \in Byte
  BY <1>1, <1>2, ElementOfSeq
<1>4. Len(Rest(script, ip)) = IF ip <= Len(script) THEN Len(script) - ip + 1 ELSE 0
  BY <1>2, <1>3, SubSeqProperties DEF Rest
<1>5. Len(Rest(script, ip)) = 0
  BY EmptySeq
<1>6. ~(ip <= Len(script))
  BY <1>2, <1>4, <1>5
<1> QED
  BY <1>6, Running DEF OpPush, OpNumber, OpCsv, OpDrop, OpCheckSig, OpCheckSigAdd,
       OpCheckSigVerify, OpSha256, OpEqual, OpNumEqual, AtOp

------------------------------------------------------------------------------
(* The stack *)

Element == Seq(Nat)

LEMMA PrefixIs ==
  ASSUME NEW S, NEW s \in Seq(S), NEW t \in Seq(S), Len(s) <= Len(t),
         \A i \in 1 .. Len(s) : t[i] = s[i]
  PROVE  SubSeq(t, 1, Len(s)) = s
<1> DEFINE u == SubSeq(t, 1, Len(s))
<1>1. Len(s) \in Nat /\ Len(t) \in Nat
  BY LenProperties
<1>2. \A i \in 1 .. Len(s) : t[i] \in S
  BY <1>1, ElementOfSeq
<1>3. /\ u \in Seq(S)
      /\ Len(u) = IF 1 <= Len(s) THEN Len(s) - 1 + 1 ELSE 0
      /\ \A i \in 1 .. Len(s) - 1 + 1 : u[i] = t[1 + i - 1]
  BY <1>1, <1>2, SubSeqProperties
<1> HIDE DEF u
<1>4. Len(u) = Len(s)
  BY <1>1, <1>3
<1>5. \A i \in 1 .. Len(s) : u[i] = s[i]
  BY <1>1, <1>3
<1>6. u = s
  BY <1>3, <1>4, <1>5, SeqEqual
<1> QED
  BY <1>6 DEF u

LEMMA OneOnTop ==
  ASSUME NEW s \in Seq(Element), NEW a \in Element, stack = Append(s, a)
  PROVE  /\ stack \in Seq(Element) /\ Len(stack) = Len(s) + 1
         /\ Top = a /\ Below(1) = s
<1> DEFINE t == Append(s, a)
<1>1. /\ t \in Seq(Element) /\ Len(t) = Len(s) + 1 /\ Len(s) \in Nat
      /\ \A i \in 1 .. Len(s) : t[i] = s[i]
      /\ t[Len(s) + 1] = a
  BY AppendProperties, LenProperties
<1> HIDE DEF t
<1>2. stack = t
  BY DEF t
<1>3. SubSeq(t, 1, Len(s)) = s
  BY <1>1, PrefixIs
<1>4. Len(t) - 1 = Len(s)
  BY <1>1
<1> QED
  BY <1>1, <1>2, <1>3, <1>4 DEF Top, Below, Last

LEMMA TwoOnTop ==
  ASSUME NEW s \in Seq(Element), NEW a \in Element, NEW b \in Element,
         stack = Append(Append(s, a), b)
  PROVE  /\ stack \in Seq(Element) /\ Len(stack) = Len(s) + 2
         /\ Top = b /\ At(1) = a /\ Below(1) = Append(s, a) /\ Below(2) = s
<1> DEFINE t == Append(s, a)
           u == Append(t, b)
<1>1. /\ t \in Seq(Element) /\ Len(t) = Len(s) + 1 /\ Len(s) \in Nat
      /\ \A i \in 1 .. Len(s) : t[i] = s[i]
      /\ t[Len(s) + 1] = a
  BY AppendProperties, LenProperties
<1> HIDE DEF t
<1>2. /\ u \in Seq(Element) /\ Len(u) = Len(t) + 1
      /\ \A i \in 1 .. Len(t) : u[i] = t[i]
  BY <1>1, AppendProperties
<1>3. stack = u /\ Top = b /\ Below(1) = t
  BY <1>1, OneOnTop DEF t
<1> HIDE DEF u
<1>4. SubSeq(u, 1, Len(s)) = s
  BY <1>1, <1>2, PrefixIs
<1>5. Len(u) - 2 = Len(s) /\ Len(u) - 1 = Len(s) + 1 /\ Len(u) = Len(s) + 2
  BY <1>1, <1>2
<1>6. u[Len(s) + 1] = a
  BY <1>1, <1>2
<1>7. At(1) = a /\ Below(2) = s
  BY <1>3, <1>4, <1>5, <1>6 DEF At, Below
<1> QED
  BY <1>2, <1>3, <1>5, <1>7 DEF t

LEMMA ThreeOnTop ==
  ASSUME NEW s \in Seq(Element), NEW a \in Element, NEW b \in Element, NEW c \in Element,
         stack = Append(Append(Append(s, a), b), c)
  PROVE  Top = c /\ At(1) = b /\ At(2) = a /\ Below(3) = s
<1> DEFINE t == Append(s, a)
           u == Append(t, b)
           v == Append(u, c)
<1>1. /\ t \in Seq(Element) /\ Len(t) = Len(s) + 1 /\ Len(s) \in Nat
      /\ \A i \in 1 .. Len(s) : t[i] = s[i]
      /\ t[Len(s) + 1] = a
  BY AppendProperties, LenProperties
<1>2. stack = v /\ Top = c /\ At(1) = b
  BY <1>1, TwoOnTop
<1> HIDE DEF t
<1>3. /\ u \in Seq(Element) /\ Len(u) = Len(t) + 1
      /\ \A i \in 1 .. Len(t) : u[i] = t[i]
  BY <1>1, AppendProperties
<1> HIDE DEF u
<1>4. /\ v \in Seq(Element) /\ Len(v) = Len(u) + 1
      /\ \A i \in 1 .. Len(u) : v[i] = u[i]
  BY <1>3, AppendProperties
<1> HIDE DEF v
<1>5. \A i \in 1 .. Len(s) + 1 : v[i] = t[i]
  BY <1>1, <1>3, <1>4
<1>6. Len(v) - 3 = Len(s) /\ Len(v) - 2 = Len(s) + 1 /\ Len(s) <= Len(v)
  BY <1>1, <1>3, <1>4
<1>7. SubSeq(v, 1, Len(s)) = s
  <2>1. \A i \in 1 .. Len(s) : v[i] = s[i]
    BY <1>1, <1>5
  <2> QED
    BY <1>4, <1>6, <2>1, PrefixIs
<1>8. v[Len(s) + 1] = a
  BY <1>1, <1>5
<1> QED
  BY <1>2, <1>6, <1>7, <1>8 DEF At, Below

\* Short stacks.
LEMMA Tuples ==
  ASSUME NEW a \in Element, NEW b \in Element
  PROVE  /\ <<>> \in Seq(Element) /\ <<a>> \in Seq(Element) /\ <<a, b>> \in Seq(Element)
         /\ <<a>> = Append(<<>>, a) /\ <<a, b>> = Append(Append(<<>>, a), b)
OBVIOUS

LEMMA ElementsAre ==
  /\ \A x \in Seq(Byte) : x \in Element
  /\ <<>> \in Element
<1>1. Byte \subseteq Nat
  BY ByteIs
<1> QED
  BY <1>1, SeqMonotonic, EmptySeq DEF Element

LEMMA InputsAre ==
  \A s \in Spend : s.signedFor \in Nat /\ s.input \in Nat
BY ScriptAssumption DEF ScriptAssumption, Spend

\* A signature is of a key and an input.
LEMMA SignatureIs ==
  ASSUME NEW i \in Nat, NEW j \in Nat, NEW x \in Seq(Byte), NEW y \in Seq(Byte)
  PROVE  /\ Signature(x, i) \in Element /\ Signature(x, i) # <<>>
         /\ Signature(x, i) = Signature(y, j) <=> i = j /\ x = y
<1> DEFINE a(k) == <<255, k>>
<1>1. ASSUME NEW k \in Nat, NEW z \in Seq(Byte)
      PROVE  /\ a(k) \o z \in Seq(Nat) /\ Len(a(k) \o z) = 2 + Len(z) /\ Len(z) \in Nat
             /\ (a(k) \o z)[2] = k
             /\ \A m \in 1 .. Len(z) : (a(k) \o z)[m + 2] = z[m]
  <2>1. a(k) \in Seq(Nat) /\ Len(a(k)) = 2 /\ a(k)[2] = k
    OBVIOUS
  <2>2. z \in Seq(Nat) /\ Len(z) \in Nat
    BY ElementsAre, LenProperties DEF Element
  <2> HIDE DEF a
  <2>3. /\ a(k) \o z \in Seq(Nat) /\ Len(a(k) \o z) = Len(a(k)) + Len(z)
        /\ \A m \in 1 .. Len(a(k)) + Len(z) :
             (a(k) \o z)[m] = IF m <= Len(a(k)) THEN a(k)[m] ELSE z[m - Len(a(k))]
    BY <2>1, <2>2, ConcatProperties
  <2> QED
    BY <2>1, <2>2, <2>3
<1> HIDE DEF a
<1>2. a(i) \o x # <<>>
  BY <1>1, EmptySeq
<1>3. ASSUME a(i) \o x = a(j) \o y PROVE i = j /\ x = y
  <2> DEFINE u == a(i) \o x
             v == a(j) \o y
  <2>1. /\ Len(u) = 2 + Len(x) /\ Len(x) \in Nat /\ u[2] = i
        /\ \A m \in 1 .. Len(x) : u[m + 2] = x[m]
    BY <1>1
  <2>2. /\ Len(v) = 2 + Len(y) /\ Len(y) \in Nat /\ v[2] = j
        /\ \A m \in 1 .. Len(y) : v[m + 2] = y[m]
    BY <1>1
  <2>3. u = v
    BY <1>3
  <2> HIDE DEF u, v
  <2>4. i = j /\ Len(x) = Len(y)
    BY <2>1, <2>2, <2>3
  <2>5. \A m \in 1 .. Len(x) : x[m] = y[m]
    BY <2>1, <2>2, <2>3, <2>4
  <2> QED
    BY <2>4, <2>5, SeqEqual
<1>4. a(i) \o x \in Seq(Nat)
  BY <1>1
<1> QED
  BY <1>2, <1>3, <1>4 DEF a, Element, Signature

------------------------------------------------------------------------------
(* Leaf 1 *)

LEMMA HtlcSame ==
  ASSUME UNCHANGED spend
  PROVE  LeafOne' = LeafOne /\ HtlcSignature' = HtlcSignature /\ HtlcSigned' = HtlcSigned
BY DEF LeafOne, HtlcSignature, HtlcSigned, Valid

LEMMA HtlcReached ==
  ASSUME NEW x, x = spend.preimage, NEW hash, hash = Sha256(spend.secret),
         NEW key, key = Keys[spend.winner], NEW rest, NEW elements,
         \/ rest = LeafOne /\ elements = <<x, HtlcSignature>>
         \/ /\ rest = <<OP_CHECKSIGVERIFY>> \o <<OP_SHA256>> \o Compare(hash)
            /\ elements = Append(<<x, HtlcSignature>>, key)
         \/ /\ HtlcSigned
            /\ \/ rest = <<OP_SHA256>> \o Compare(hash) /\ elements = <<x>>
               \/ rest = Compare(hash) /\ elements = <<Sha256(x)>>
               \/ rest = <<OP_EQUAL>> /\ elements = <<Sha256(x), hash>>
               \/ rest = <<>> /\ elements = <<Push(IF Sha256(x) = hash THEN 1 ELSE 0)>>,
         Goes(rest, elements)
  PROVE  HtlcSoFar'
<1>1. /\ spend' = spend /\ Rest(script', ip') = rest /\ stack' = elements
  BY DEF Goes
<1>2. LeafOne' = LeafOne /\ HtlcSignature' = HtlcSignature /\ HtlcSigned' = HtlcSigned
  BY <1>1, HtlcSame
<1> QED
  BY <1>1, <1>2 DEF HtlcSoFar, Before

LEMMA SignersAre ==
  ASSUME ScriptTypeOK
  PROVE  /\ spend.signers \subseteq Participant /\ IsFiniteSet(spend.signers)
         /\ Cardinality(spend.signers) \in Nat
<1>1. spend.signers \subseteq Participant
  BY DEF ScriptTypeOK, Spend
<1>2. IsFiniteSet(Participant)
  BY KeysAre, FS_Interval DEF Participant
<1>3. IsFiniteSet(spend.signers)
  BY <1>1, <1>2, FS_Subset
<1> QED
  BY <1>1, <1>3, FS_CardinalityType

\* What leaf 1 is about: a key, a preimage and a signature or none.
LEMMA HtlcIs ==
  ASSUME ScriptTypeOK, spend.leaf = 1,
         Cardinality(spend.signers) < 2, spend.signedFor = spend.input
  PROVE  /\ spend.winner \in Participant
         /\ spend.preimage \in Seq(Byte) /\ spend.secret \in Seq(Byte)
         /\ Sha256(spend.secret) \in Seq(Byte)
         /\ Len(Sha256(spend.secret)) >= 1 /\ Len(Sha256(spend.secret)) <= 75
         /\ HtlcSignature \in Element
         /\ HtlcSigned <=> {Keys[p] : p \in spend.signers} = {Keys[spend.winner]}
<1>1. /\ spend.winner \in Participant /\ spend.preimage \in Preimages /\ spend.secret \in Preimages
      /\ spend.signedFor \in Nat /\ spend.input \in Nat
  BY InputsAre DEF ScriptTypeOK, Spend
<1>2. /\ spend.preimage \in Seq(Byte)
      /\ spend.secret \in Seq(Byte) /\ Len(spend.secret) >= 1 /\ Len(spend.secret) <= 75
  BY <1>1, PreimagesAre
<1>3. /\ Sha256(spend.secret) \in Seq(Byte)
      /\ Len(Sha256(spend.secret)) >= 1 /\ Len(Sha256(spend.secret)) <= 75
  BY <1>2, Sha256Is
<1>4. HtlcSigned <=> HtlcSignature = Signature(Keys[spend.winner], spend.input)
  BY DEF HtlcSigned, Valid
<1>5. Keys[spend.winner] \in Seq(Byte)
  BY <1>1, KeysAre
<1>6. CASE spend.signers = {}
  <2>1. HtlcSignature = <<>>
    BY <1>6 DEF HtlcSignature
  <2>2. ~HtlcSigned
    <3>1. Signature(Keys[spend.winner], spend.input) # <<>>
      BY <1>1, <1>5, SignatureIs
    <3> QED
      BY <1>4, <2>1, <3>1
  <2>3. {Keys[p] : p \in spend.signers} # {Keys[spend.winner]}
    BY <1>6
  <2> QED
    BY <1>1, <1>2, <1>3, <2>1, <2>2, <2>3, ElementsAre
<1>7. CASE spend.signers # {}
  <2>1. PICK q : spend.signers = {q}
    <3>1. Cardinality(spend.signers) # 0
      BY <1>7, SignersAre, FS_EmptySet
    <3>2. Cardinality(spend.signers) = 1
      BY <3>1, SignersAre
    <3> QED
      BY <3>2, SignersAre, FS_Singleton
  <2>2. q \in Participant /\ Keys[q] \in Seq(Byte)
    BY <2>1, SignersAre, KeysAre
  <2>3. HtlcSignature = Signature(Keys[q], spend.input)
    BY <1>7, <2>1 DEF HtlcSignature
  <2>4. HtlcSignature \in Element /\ (HtlcSigned <=> Keys[q] = Keys[spend.winner])
    <3>1. /\ Signature(Keys[q], spend.input) \in Element
          /\ Signature(Keys[q], spend.input) = Signature(Keys[spend.winner], spend.input)
               <=> Keys[q] = Keys[spend.winner]
      BY <1>1, <1>5, <2>2, SignatureIs
    <3> QED
      BY <1>4, <2>3, <3>1
  <2>5. {Keys[p] : p \in spend.signers} = {Keys[q]}
    BY <2>1
  <2> QED
    BY <1>1, <1>2, <1>3, <2>4, <2>5
<1> QED
  BY <1>6, <1>7

\* What an instruction leaves as it is.
LEMMA GoesKeeps ==
  ASSUME ScriptInv, res = "run", NEW rest, NEW elements \in Seq(Element), Goes(rest, elements)
  PROVE  /\ ScriptTypeOK' /\ res' = "run" /\ ~Decided'
         /\ spend' = spend /\ sequence' = sequence
<1> USE DEF ScriptInv
<1>1. /\ ip' \in 1 .. Len(script) + 1 /\ stack' \in Seq(Element)
      /\ spend' = spend /\ script' = script /\ sequence' = sequence /\ res' = res
  BY DEF Goes
<1> QED
  BY <1>1 DEF ScriptTypeOK, Decided, Element

\* A script that has failed, or ended.
LEMMA EndKeeps ==
  ASSUME ScriptInv, UNCHANGED <<spend, script, sequence, stack, ip>>, res' \in {"accept", "fail"}
  PROVE  ScriptTypeOK' /\ Decided'
BY DEF ScriptInv, ScriptTypeOK, Decided

LEMMA HtlcStep ==
  ASSUME ScriptInv, res = "run", spend.leaf = 1, ScriptNext
  PROVE  ScriptInv'
<1> DEFINE x == spend.preimage
           hash == Sha256(spend.secret)
           key == Keys[spend.winner]
           sig == HtlcSignature
           same == Push(IF Sha256(x) = hash THEN 1 ELSE 0)
<1>1. /\ ScriptTypeOK /\ HtlcSoFar
      /\ Cardinality(spend.signers) < 2 /\ spend.signedFor = spend.input
  BY DEF ScriptInv
<1>2. /\ spend.winner \in Participant
      /\ x \in Seq(Byte) /\ spend.secret \in Seq(Byte)
      /\ hash \in Seq(Byte) /\ Len(hash) >= 1 /\ Len(hash) <= 75
      /\ sig \in Element
      /\ HtlcSigned <=> {Keys[p] : p \in spend.signers} = {key}
  BY <1>1, HtlcIs
<1>3. /\ Sha256(x) \in Seq(Byte)
      /\ Sha256(x) = hash <=> x = spend.secret
  BY <1>2, Sha256Is
<1>4. key \in Seq(Byte) /\ Len(key) >= 1 /\ Len(key) <= 75
  BY <1>2, KeysAre
<1>5. /\ x \in Element /\ hash \in Element /\ Sha256(x) \in Element /\ key \in Element
      /\ same \in Element /\ Len(same) <= 2 /\ Num(same) = IF Sha256(x) = hash THEN 1 ELSE 0
  <2> DEFINE flag == IF Sha256(x) = hash THEN 1 ELSE 0
  <2>1. flag \in Nat /\ flag <= 32767 /\ same = Push(flag)
    OBVIOUS
  <2>2. same \in Seq(Byte) /\ Len(same) <= 2 /\ Num(same) = flag
    <3> HIDE DEF flag, same
    <3> QED
      BY <2>1, PushNum
  <2> QED
    BY <1>2, <1>3, <1>4, <2>2, ElementsAre
<1>6. /\ LeafOne = PushBytes(key) \o (<<OP_CHECKSIGVERIFY>> \o <<OP_SHA256>> \o Compare(hash))
      /\ <<OP_CHECKSIGVERIFY>> \o <<OP_SHA256>> \o Compare(hash)
           = <<OP_CHECKSIGVERIFY>> \o (<<OP_SHA256>> \o Compare(hash))
      /\ <<OP_CHECKSIGVERIFY>> \o <<OP_SHA256>> \o Compare(hash) \in Seq(Byte)
      /\ <<OP_SHA256>> \o Compare(hash) \in Seq(Byte)
      /\ Compare(hash) \in Seq(Byte) /\ Compare(hash) = PushBytes(hash) \o <<OP_EQUAL>>
      /\ <<OP_EQUAL>> \in Seq(Byte) /\ <<OP_EQUAL>> = <<OP_EQUAL>> \o <<>> /\ <<>> \in Seq(Byte)
  <2>1. <<OP_EQUAL>> \in Seq(Byte)
    BY OpsAre, OneByte
  <2>2. <<OP_EQUAL>> = <<OP_EQUAL>> \o <<>> /\ <<>> \in Seq(Byte)
    BY <2>1, ConcatEmptySeq, EmptySeq
  <2> QED
    BY <1>2, <2>1, <2>2, HtlcScriptIs DEF LeafOne, Compare
<1>7. /\ \/ Before(LeafOne, <<x, sig>>)
         \/ Before(<<OP_CHECKSIGVERIFY>> \o <<OP_SHA256>> \o Compare(hash),
                   Append(<<x, sig>>, key))
         \/ HtlcSigned /\ Before(<<OP_SHA256>> \o Compare(hash), <<x>>)
         \/ HtlcSigned /\ Before(Compare(hash), <<Sha256(x)>>)
         \/ HtlcSigned /\ Before(<<OP_EQUAL>>, <<Sha256(x), hash>>)
         \/ HtlcSigned /\ Before(<<>>, <<same>>)
  BY <1>1 DEF HtlcSoFar
<1> HIDE DEF x, hash, key, sig, same
<1>8. \A rest : \A elements \in Seq(Element) :
        Goes(rest, elements) /\ HtlcSoFar' => ScriptInv'
  <2> SUFFICES ASSUME NEW rest, NEW elements \in Seq(Element), Goes(rest, elements), HtlcSoFar'
               PROVE  ScriptInv'
    OBVIOUS
  <2>1. /\ ScriptTypeOK' /\ res' = "run" /\ ~Decided'
        /\ spend' = spend /\ sequence' = sequence
    BY GoesKeeps
  <2> QED
    BY <1>1, <2>1 DEF ScriptInv, HtlcIsWinnerWithSecret, RefundRule
<1>9. ASSUME UNCHANGED <<spend, script, sequence, stack, ip>>, res' \in {"accept", "fail"},
             res' = "accept" <=> HtlcSigned /\ x = spend.secret
      PROVE  ScriptInv'
  <2>1. ScriptTypeOK' /\ Decided'
    BY <1>9, EndKeeps
  <2>2. HtlcIsWinnerWithSecret'
    BY <1>2, <1>9 DEF HtlcIsWinnerWithSecret, x, key
  <2> QED
    BY <1>1, <1>9, <2>1, <2>2 DEF ScriptInv, RefundRule
<1>10. \A a, b \in Element : <<a>> \in Seq(Element) /\ <<a, b>> \in Seq(Element)
                             /\ <<a>> = Append(<<>>, a) /\ <<a, b>> = Append(<<a>>, b)
                             /\ Append(<<a>>, b) = Append(Append(<<>>, a), b)
                             /\ <<>> \in Seq(Element)
  BY Tuples
<1>11. CASE Before(LeafOne, <<x, sig>>)
  <2>1. Rest(script, ip) = LeafOne /\ stack = <<x, sig>>
    BY <1>11 DEF Before
  <2>2. Goes(<<OP_CHECKSIGVERIFY>> \o <<OP_SHA256>> \o Compare(hash), Append(<<x, sig>>, key))
    BY <1>1, <1>4, <1>6, <2>1, PushRuns
  <2>3. Append(<<x, sig>>, key) \in Seq(Element)
    BY <1>2, <1>5, <1>10, AppendProperties
  <2>4. HtlcSoFar'
    BY <2>2, HtlcReached DEF x, hash, key, sig
  <2> QED
    BY <1>8, <2>2, <2>3, <2>4
<1>12. CASE Before(<<OP_CHECKSIGVERIFY>> \o <<OP_SHA256>> \o Compare(hash),
                   Append(<<x, sig>>, key))
  <2>1. /\ Rest(script, ip) = <<OP_CHECKSIGVERIFY>> \o (<<OP_SHA256>> \o Compare(hash))
        /\ stack = Append(Append(<<x>>, sig), key) /\ <<x>> \in Seq(Element)
    BY <1>2, <1>5, <1>6, <1>10, <1>12 DEF Before
  <2>2. /\ OpCheckSigVerify
        /\ \A s : Advance(1, s) => Goes(<<OP_SHA256>> \o Compare(hash), s)
    BY <1>1, <1>6, <2>1, OpsAre, OpRuns
  <2>3. Top = key /\ At(1) = sig /\ Below(2) = <<x>>
    BY <1>2, <1>5, <2>1, TwoOnTop
  <2>4. Valid(At(1), Top) <=> HtlcSigned
    BY <2>3 DEF HtlcSigned, sig, key
  <2>5. CASE HtlcSigned
    <3>1. Goes(<<OP_SHA256>> \o Compare(hash), <<x>>)
      BY <2>2, <2>3, <2>4, <2>5 DEF OpCheckSigVerify
    <3>2. HtlcSoFar'
      BY <2>5, <3>1, HtlcReached DEF x, hash
    <3> QED
      BY <1>8, <2>1, <3>1, <3>2
  <2>6. CASE ~HtlcSigned
    BY <1>9, <2>2, <2>4, <2>6 DEF OpCheckSigVerify, Fail
  <2> QED
    BY <2>5, <2>6
<1>13. CASE HtlcSigned /\ Before(<<OP_SHA256>> \o Compare(hash), <<x>>)
  <2>1. /\ Rest(script, ip) = <<OP_SHA256>> \o Compare(hash)
        /\ stack = Append(<<>>, x) /\ <<>> \in Seq(Element)
    BY <1>5, <1>10, <1>13 DEF Before
  <2>2. OpSha256 /\ \A s : Advance(1, s) => Goes(Compare(hash), s)
    BY <1>1, <1>6, <2>1, OpsAre, OpRuns
  <2>3. Top = x /\ Below(1) = <<>>
    BY <1>5, <2>1, OneOnTop
  <2>4. Goes(Compare(hash), <<Sha256(x)>>)
    BY <1>5, <1>10, <2>2, <2>3 DEF OpSha256
  <2>5. HtlcSoFar'
    BY <1>13, <2>4, HtlcReached DEF x, hash
  <2> QED
    BY <1>5, <1>8, <1>10, <2>4, <2>5
<1>14. CASE HtlcSigned /\ Before(Compare(hash), <<Sha256(x)>>)
  <2>1. /\ Rest(script, ip) = PushBytes(hash) \o <<OP_EQUAL>>
        /\ stack = <<Sha256(x)>>
    BY <1>6, <1>14 DEF Before
  <2>2. Goes(<<OP_EQUAL>>, Append(stack, hash))
    BY <1>1, <1>2, <1>6, <2>1, PushRuns
  <2>3. Goes(<<OP_EQUAL>>, <<Sha256(x), hash>>)
    BY <1>5, <1>10, <2>1, <2>2
  <2>4. HtlcSoFar'
    BY <1>14, <2>3, HtlcReached DEF x, hash
  <2> QED
    BY <1>5, <1>8, <1>10, <2>3, <2>4
<1>15. CASE HtlcSigned /\ Before(<<OP_EQUAL>>, <<Sha256(x), hash>>)
  <2>1. /\ Rest(script, ip) = <<OP_EQUAL>> \o <<>>
        /\ stack = Append(Append(<<>>, Sha256(x)), hash) /\ <<>> \in Seq(Element)
    BY <1>5, <1>6, <1>10, <1>15 DEF Before
  <2>2. OpEqual /\ \A s : Advance(1, s) => Goes(<<>>, s)
    BY <1>1, <1>6, <2>1, OpsAre, OpRuns
  <2>3. Top = hash /\ At(1) = Sha256(x) /\ Below(2) = <<>>
    BY <1>5, <2>1, TwoOnTop
  <2>4. Goes(<<>>, Append(<<>>, Push(IF hash = Sha256(x) THEN 1 ELSE 0)))
    BY <2>2, <2>3 DEF OpEqual
  <2>5. Goes(<<>>, <<same>>)
    <3>1. Push(IF hash = Sha256(x) THEN 1 ELSE 0) = same
      BY DEF same
    <3> QED
      BY <1>5, <1>10, <2>4, <3>1
  <2>6. HtlcSoFar'
    BY <1>15, <2>5, HtlcReached DEF x, hash, same
  <2> QED
    BY <1>5, <1>8, <1>10, <2>5, <2>6
<1>16. CASE HtlcSigned /\ Before(<<>>, <<same>>)
  <2>1. Rest(script, ip) = <<>> /\ stack = <<same>> /\ stack = Append(<<>>, same)
        /\ <<>> \in Seq(Element)
    BY <1>5, <1>10, <1>16 DEF Before
  <2>2. Finish
    BY <1>1, <2>1, EndRuns
  <2>3. Len(stack) = 1 /\ Top = same
    <3>1. Len(<<>>) = 0
      BY EmptySeq
    <3> QED
      BY <1>5, <2>1, <3>1, OneOnTop
  <2>4. Num(Top) # 0 <=> x = spend.secret
    BY <1>3, <1>5, <2>3
  <2> QED
    BY <1>9, <1>16, <2>2, <2>3, <2>4 DEF Finish
<1> QED
  BY <1>7, <1>11, <1>12, <1>13, <1>14, <1>15, <1>16

------------------------------------------------------------------------------
(* Leaf 2 *)

\* The witness has the signature of the first key on top.
LEMMA WitnessIs ==
  ASSUME ScriptTypeOK
  PROVE  /\ \A p \in Participant : Signatures[p] \in Element
         /\ RefundWitness(Signatures) \in Seq(Element)
         /\ Len(RefundWitness(Signatures)) = Len(Keys)
         /\ \A i \in 1 .. Len(Keys) :
              RefundWitness(Signatures)[i] = Signatures[Len(Keys) - i + 1]
<1>1. spend.signedFor \in Nat
  BY InputsAre DEF ScriptTypeOK
<1>2. ASSUME NEW p \in Participant PROVE Signatures[p] \in Element
  <2>1. Keys[p] \in Seq(Byte)
    BY KeysAre
  <2>2. Signature(Keys[p], spend.signedFor) \in Element
    BY <1>1, <2>1, SignatureIs
  <2> QED
    BY <2>2, ElementsAre DEF Signatures
<1> DEFINE sigs == Signatures
           len == Len(Keys)
<1>3. len \in Nat
  BY KeysAre
<1>4. sigs \in [1 .. len -> Element]
  BY <1>2 DEF Signatures, Participant
<1> HIDE DEF sigs, len
<1>5. sigs \in Seq(Element) /\ Len(sigs) = len
  BY <1>3, <1>4
<1>6. RefundWitness(sigs) = [i \in 1 .. len |-> sigs[(len - i) + 1]]
  BY <1>5 DEF RefundWitness, Reverse
<1>7. \A i \in 1 .. len : (len - i) + 1 \in 1 .. len
  BY <1>3
<1>8. RefundWitness(sigs) \in [1 .. len -> Element]
  BY <1>4, <1>6, <1>7
<1>9. /\ RefundWitness(sigs) \in Seq(Element) /\ Len(RefundWitness(sigs)) = len
      /\ \A i \in 1 .. len : RefundWitness(sigs)[i] = sigs[len - i + 1]
  BY <1>3, <1>6, <1>8
<1> QED
  BY <1>2, <1>9 DEF sigs, len

LEMMA SignaturesAfterIs ==
  ASSUME ScriptTypeOK
  PROVE  /\ \A p \in 0 .. Len(Keys) : SignaturesAfter(p) \in Seq(Element)
         /\ SignaturesAfter(0) = RefundWitness(Signatures)
         /\ \A p \in 0 .. Len(Keys) - 1 :
              SignaturesAfter(p) = Append(SignaturesAfter(p + 1), Signatures[p + 1])
         /\ SignaturesAfter(Len(Keys)) = <<>>
<1> DEFINE all == RefundWitness(Signatures)
           len == Len(Keys)
<1>1. /\ all \in Seq(Element) /\ Len(all) = len /\ len \in Nat
      /\ \A i \in 1 .. len : all[i] = Signatures[len - i + 1]
      /\ \A p \in Participant : Signatures[p] \in Element
  BY WitnessIs, KeysAre
<1>2. \A p : SignaturesAfter(p) = SubSeq(all, 1, len - p)
  BY DEF SignaturesAfter
<1>3. Participant = 1 .. len
  BY DEF Participant
<1> HIDE DEF all, len
<1>4. ASSUME NEW p \in 0 .. len
      PROVE  /\ SignaturesAfter(p) \in Seq(Element) /\ Len(SignaturesAfter(p)) = len - p
             /\ \A i \in 1 .. len - p : SignaturesAfter(p)[i] = all[i]
  <2> DEFINE u == SubSeq(all, 1, len - p)
  <2>1. len - p \in Int /\ len - p \in 0 .. len /\ 1 \in Int
    BY <1>1
  <2>2. \A i \in 1 .. len - p : all[i] \in Element
    BY <1>1, <2>1, ElementOfSeq
  <2>3. /\ u \in Seq(Element)
        /\ Len(u) = IF 1 <= len - p THEN len - p - 1 + 1 ELSE 0
        /\ \A i \in 1 .. len - p - 1 + 1 : u[i] = all[1 + i - 1]
    BY <2>1, <2>2, SubSeqProperties
  <2> HIDE DEF u
  <2>4. u \in Seq(Element) /\ Len(u) = len - p /\ \A i \in 1 .. len - p : u[i] = all[i]
    BY <1>1, <2>1, <2>3
  <2>5. SignaturesAfter(p) = u
    BY <1>2 DEF u
  <2> QED
    BY <2>4, <2>5
<1>5. SignaturesAfter(0) = all
  <2>1. len - 0 = Len(all) /\ 0 \in 0 .. len
    BY <1>1
  <2>2. /\ SignaturesAfter(0) \in Seq(Element) /\ Len(SignaturesAfter(0)) = Len(all)
        /\ \A i \in 1 .. Len(all) : SignaturesAfter(0)[i] = all[i]
    BY <1>4, <2>1
  <2> QED
    BY <1>1, <2>2, SeqEqual
<1>6. SignaturesAfter(len) = <<>>
  <2>1. len \in 0 .. len /\ len - len = 0
    BY <1>1
  <2>2. SignaturesAfter(len) \in Seq(Element) /\ Len(SignaturesAfter(len)) = 0
    BY <1>4, <2>1
  <2> QED
    BY <2>2, EmptySeq
<1>7. ASSUME NEW p \in 0 .. len - 1
      PROVE  SignaturesAfter(p) = Append(SignaturesAfter(p + 1), Signatures[p + 1])
  <2> DEFINE u == SignaturesAfter(p)
             v == SignaturesAfter(p + 1)
             w == Append(v, Signatures[p + 1])
  <2>1. p \in 0 .. len /\ p + 1 \in 0 .. len /\ p + 1 \in 1 .. len /\ p \in Nat
    BY <1>1
  <2>2. /\ u \in Seq(Element) /\ Len(u) = len - p
        /\ \A i \in 1 .. len - p : u[i] = all[i]
    BY <1>4, <2>1
  <2>3. /\ v \in Seq(Element) /\ Len(v) = len - (p + 1)
        /\ \A i \in 1 .. len - (p + 1) : v[i] = all[i]
    BY <1>4, <2>1
  <2>4. Signatures[p + 1] \in Element
    BY <1>1, <1>3, <2>1
  <2>5. /\ w \in Seq(Element) /\ Len(w) = Len(v) + 1
        /\ \A i \in 1 .. Len(v) : w[i] = v[i]
        /\ w[Len(v) + 1] = Signatures[p + 1]
    BY <2>3, <2>4, AppendProperties
  <2>6. all[len - p] = Signatures[p + 1]
    <3>1. len - p \in 1 .. len /\ len - (len - p) + 1 = p + 1
      BY <1>1, <2>1
    <3> QED
      BY <1>1, <3>1
  <2> HIDE DEF u, v, w
  <2>7. Len(u) = Len(w)
    BY <1>1, <2>1, <2>2, <2>3, <2>5
  <2>8. \A i \in 1 .. Len(u) : u[i] = w[i]
    <3> SUFFICES ASSUME NEW i \in 1 .. Len(u) PROVE u[i] = w[i]
      OBVIOUS
    <3>1. CASE i = len - p
      BY <1>1, <2>1, <2>2, <2>3, <2>5, <2>6, <3>1
    <3>2. CASE i # len - p
      <4>1. i \in 1 .. len - (p + 1) /\ i \in 1 .. len - p
        BY <1>1, <2>1, <2>2, <3>2
      <4> QED
        BY <2>2, <2>3, <2>5, <4>1
    <3> QED
      BY <3>1, <3>2
  <2>9. u = w
    BY <2>2, <2>5, <2>7, <2>8, SeqEqual
  <2> QED
    BY <2>9 DEF u, v, w
<1> QED
  BY <1>4, <1>5, <1>6, <1>7 DEF all, len

\* One more key adds its signature, if there is one.
LEMMA SignedByIs ==
  ASSUME ScriptTypeOK
  PROVE  /\ \A p \in 0 .. Len(Keys) : SignedBy(p) \in Nat /\ SignedBy(p) <= 999
         /\ SignedBy(0) = 0
         /\ \A p \in 0 .. Len(Keys) - 1 :
              SignedBy(p + 1) = SignedBy(p) + IF p + 1 \in spend.signers THEN 1 ELSE 0
         /\ SignedBy(Len(Keys)) = Cardinality(spend.signers)
         /\ spend.signers \cap 1 .. Len(Keys) = spend.signers
         /\ spend.signers \cap 1 .. 0 = {}
<1> DEFINE S == spend.signers
<1>1. S \subseteq 1 .. Len(Keys) /\ IsFiniteSet(S) /\ Len(Keys) \in Nat /\ Len(Keys) <= 999
  BY SignersAre, KeysAre DEF Participant
<1>2. \A p : SignedBy(p) = Cardinality(S \cap 1 .. p)
  BY DEF SignedBy
<1> HIDE DEF S
<1>3. ASSUME NEW p \in 0 .. Len(Keys) PROVE SignedBy(p) \in Nat /\ SignedBy(p) <= 999
  <2>1. p \in Int /\ 1 \in Int /\ p \in Nat /\ p <= 999
    BY <1>1
  <2>2. IsFiniteSet(1 .. p) /\ Cardinality(1 .. p) = IF 1 > p THEN 0 ELSE p - 1 + 1
    BY <2>1, FS_Interval
  <2>3. S \cap 1 .. p \in SUBSET (1 .. p)
    OBVIOUS
  <2>4. IsFiniteSet(S \cap 1 .. p) /\ Cardinality(S \cap 1 .. p) <= Cardinality(1 .. p)
    BY <2>2, <2>3, FS_Subset
  <2>5. Cardinality(S \cap 1 .. p) \in Nat
    BY <2>4, FS_CardinalityType
  <2> QED
    BY <1>2, <2>1, <2>2, <2>4, <2>5
<1>4. S \cap 1 .. Len(Keys) = S /\ S \cap 1 .. 0 = {}
  <2>1. 1 .. 0 = {}
    OBVIOUS
  <2> QED
    BY <1>1, <2>1, Zenon
<1>5. SignedBy(0) = 0 /\ SignedBy(Len(Keys)) = Cardinality(S)
  BY <1>2, <1>4, FS_EmptySet
<1>6. ASSUME NEW p \in 0 .. Len(Keys) - 1
      PROVE  SignedBy(p + 1) = SignedBy(p) + IF p + 1 \in S THEN 1 ELSE 0
  <2> DEFINE T == S \cap 1 .. p
  <2>1. IsFiniteSet(T) /\ p + 1 \notin T /\ Cardinality(T) \in Nat
    BY <1>1, FS_Subset, FS_CardinalityType
  <2>2. Cardinality(T \cup {p + 1}) = Cardinality(T) + 1
    BY <2>1, FS_AddElement
  <2>3. S \cap 1 .. p + 1 = IF p + 1 \in S THEN T \cup {p + 1} ELSE T
    BY <1>1
  <2>4. SignedBy(p) = Cardinality(T) /\ SignedBy(p + 1) = Cardinality(S \cap 1 .. p + 1)
    BY <1>2
  <2> HIDE DEF T
  <2>5. CASE p + 1 \in S
    BY <2>2, <2>3, <2>4, <2>5
  <2>6. CASE p + 1 \notin S
    <3>1. SignedBy(p + 1) = SignedBy(p) /\ SignedBy(p) \in Nat
      BY <2>1, <2>3, <2>4, <2>6
    <3> QED
      BY <2>6, <3>1
  <2> QED
    BY <2>5, <2>6
<1> QED
  BY <1>3, <1>4, <1>5, <1>6 DEF S

LEMMA RefundSame ==
  ASSUME UNCHANGED spend
  PROVE  /\ Waited' = Waited /\ RefundScript(spend.t, spend.k)' = RefundScript(spend.t, spend.k)
         /\ \A p : /\ SignaturesAfter(p)' = SignaturesAfter(p)
                   /\ SignedBy(p)' = SignedBy(p) /\ ValidUpTo(p)' = ValidUpTo(p)
<1>1. Signatures' = Signatures
  BY DEF Signatures
<1>2. \A p : SignaturesAfter(p)' = SignaturesAfter(p)
  BY <1>1 DEF SignaturesAfter, RefundWitness
<1> QED
  BY <1>2 DEF Waited, SignedBy, ValidUpTo, CsvSequence

LEMMA RefundReached ==
  ASSUME NEW sigs, sigs = SignaturesAfter(0), NEW first, first = FromKeyOne(spend.k),
         NEW timed, timed = Append(sigs, Operand(spend.t)), NEW rest, NEW elements,
         \/ rest = <<OP_CSV>> \o <<OP_DROP>> \o first /\ elements = timed
         \/ /\ Waited
            /\ \/ rest = <<OP_DROP>> \o first /\ elements = timed
               \/ rest = first /\ elements = sigs
               \/ rest = <<OP_CHECKSIG>> \o Checks(1, spend.k) /\ elements = Append(sigs, Keys[1]),
         Goes(rest, elements)
  PROVE  RefundSoFar'
<1>1. spend' = spend /\ Rest(script', ip') = rest /\ stack' = elements
  BY DEF Goes
<1>2. Waited' = Waited /\ SignaturesAfter(0)' = SignaturesAfter(0)
  BY <1>1, RefundSame
<1> QED
  BY <1>1, <1>2 DEF RefundSoFar, Before

LEMMA CountingReached ==
  ASSUME Waited, NEW p \in Participant, ValidUpTo(p),
         NEW counted, counted = Append(SignaturesAfter(p), Push(SignedBy(p))),
         NEW rest, NEW elements,
         \/ rest = Checks(p, spend.k) /\ elements = counted
         \/ /\ p < Len(Keys)
            /\ rest = <<OP_CHECKSIGADD>> \o Checks(p + 1, spend.k)
            /\ elements = Append(counted, Keys[p + 1]),
         Goes(rest, elements)
  PROVE  RefundSoFar'
<1>1. spend' = spend /\ Rest(script', ip') = rest /\ stack' = elements
  BY DEF Goes
<1>2. /\ Waited' = Waited /\ SignaturesAfter(p)' = SignaturesAfter(p)
      /\ SignedBy(p)' = SignedBy(p) /\ ValidUpTo(p)' = ValidUpTo(p)
  BY <1>1, RefundSame
<1>3. Counting(p)'
  BY <1>1, <1>2 DEF Counting, Before
<1> QED
  BY <1>2, <1>3 DEF RefundSoFar

LEMMA CountedReached ==
  ASSUME Waited, ValidUpTo(Len(Keys)), NEW all, all = SignedBy(Len(Keys)),
         NEW rest, NEW elements,
         \/ rest = <<OP_NUMEQUAL>> /\ elements = <<Push(all), Operand(spend.k)>>
         \/ rest = <<>> /\ elements = <<Push(IF all = spend.k THEN 1 ELSE 0)>>,
         Goes(rest, elements)
  PROVE  RefundSoFar'
<1>1. spend' = spend /\ Rest(script', ip') = rest /\ stack' = elements
  BY DEF Goes
<1>2. /\ Waited' = Waited /\ SignedBy(Len(Keys))' = SignedBy(Len(Keys))
      /\ ValidUpTo(Len(Keys))' = ValidUpTo(Len(Keys))
  BY <1>1, RefundSame
<1>3. Counted'
  BY <1>1, <1>2 DEF Counted, Before
<1> QED
  BY <1>2, <1>3 DEF RefundSoFar

\* What leaf 2 is about: two numbers of four bytes, an age, and two inputs.
LEMMA RefundIs ==
  ASSUME ScriptTypeOK
  PROVE  /\ spend.t \in Nat /\ spend.t <= MaxNumber /\ spend.k \in Nat /\ spend.k <= MaxNumber
         /\ spend.age \in Nat /\ spend.signedFor \in Nat /\ spend.input \in Nat
         /\ CsvSequence(spend.t) \in Nat
<1>1. spend.t \in TRefunds /\ spend.k \in KMins /\ spend.age \in Nat
  BY DEF ScriptTypeOK, Spend
<1>2. \A x \in 0 .. MaxNumber : x \in Nat /\ x <= MaxNumber
  <2>1. MaxNumber \in Int
    BY SMT DEF MaxNumber
  <2>2. \A b \in Int : \A x \in 0 .. b : x \in Nat /\ x <= b
    OBVIOUS
  <2> QED
    BY <2>1, <2>2, Zenon
<1>3. spend.t \in Nat /\ spend.t <= MaxNumber /\ spend.k \in Nat /\ spend.k <= MaxNumber
  BY <1>1, <1>2, ScriptAssumption, Zenon DEF ScriptAssumption
<1>4. spend.signedFor \in Nat /\ spend.input \in Nat
  BY InputsAre DEF ScriptTypeOK
<1>5. CsvSequence(spend.t) \in Nat
  BY <1>3, SMT DEF CsvSequence
<1> QED
  BY <1>1, <1>3, <1>4, <1>5

LEMMA RefundGoes ==
  ASSUME ScriptInv, res = "run", spend.leaf = 2,
         NEW rest, NEW elements \in Seq(Element), Goes(rest, elements), RefundSoFar'
  PROVE  ScriptInv'
<1>1. /\ ScriptTypeOK' /\ res' = "run" /\ ~Decided'
      /\ spend' = spend /\ sequence' = sequence
  BY GoesKeeps
<1>2. sequence = CsvSequence(spend.t)
  BY DEF ScriptInv
<1>3. CsvSequence(spend.t)' = CsvSequence(spend.t)
  BY <1>1 DEF CsvSequence
<1> QED
  BY <1>1, <1>2, <1>3 DEF ScriptInv, HtlcIsWinnerWithSecret, RefundRule

LEMMA RefundEnds ==
  ASSUME ScriptInv, spend.leaf = 2,
         UNCHANGED <<spend, script, sequence, stack, ip>>, res' \in {"accept", "fail"},
         res' = "accept" <=> /\ Cardinality(spend.signers) = spend.k
                             /\ spend.signers = {} \/ spend.signedFor = spend.input
                             /\ Waited
  PROVE  ScriptInv'
<1>1. ScriptTypeOK' /\ Decided'
  BY EndKeeps
<1>2. Waited' = Waited
  BY RefundSame
<1> QED
  BY <1>1, <1>2 DEF ScriptInv, HtlcIsWinnerWithSecret, RefundRule

\* The check of the next key: its signature is good, or there is none.
LEMMA NextKey ==
  ASSUME ScriptTypeOK, NEW p \in 0 .. Len(Keys) - 1, ValidUpTo(p)
  PROVE  /\ p + 1 \in Participant
         /\ Signatures[p + 1] = <<>> <=> p + 1 \notin spend.signers
         /\ Signatures[p + 1] # <<>> =>
              (Valid(Signatures[p + 1], Keys[p + 1]) <=> spend.signedFor = spend.input)
         /\ Signatures[p + 1] = <<>> \/ Valid(Signatures[p + 1], Keys[p + 1]) => ValidUpTo(p + 1)
         /\ SignedBy(p + 1) = SignedBy(p) + IF Signatures[p + 1] = <<>> THEN 0 ELSE 1
<1> DEFINE q == p + 1
<1>1. q \in Participant /\ p \in Nat
  BY KeysAre DEF Participant
<1>2. Keys[q] \in Seq(Byte)
  BY <1>1, KeysAre
<1>3. spend.signedFor \in Nat /\ spend.input \in Nat
  BY RefundIs
<1>4. Signatures[q] = IF q \in spend.signers THEN Signature(Keys[q], spend.signedFor) ELSE <<>>
  BY <1>1 DEF Signatures
<1>5. /\ Signature(Keys[q], spend.signedFor) # <<>>
      /\ Signature(Keys[q], spend.signedFor) = Signature(Keys[q], spend.input)
           <=> spend.signedFor = spend.input
  BY <1>2, <1>3, SignatureIs
<1>6. Signatures[q] = <<>> <=> q \notin spend.signers
  BY <1>4, <1>5
<1>7. Signatures[q] # <<>> => (Valid(Signatures[q], Keys[q]) <=> spend.signedFor = spend.input)
  BY <1>4, <1>5 DEF Valid
<1>8. ASSUME Signatures[q] = <<>> \/ Valid(Signatures[q], Keys[q]) PROVE ValidUpTo(q)
  <2>1. CASE q \in spend.signers
    <3>1. spend.signedFor = spend.input
      BY <1>6, <1>7, <1>8, <2>1
    <3> QED
      BY <3>1 DEF ValidUpTo
  <2>2. CASE q \notin spend.signers
    <3>1. spend.signers \cap 1 .. q = spend.signers \cap 1 .. p
      <4>1. spend.signers \subseteq Nat
        BY SignersAre DEF Participant
      <4> QED
        BY <1>1, <2>2, <4>1
    <3> QED
      BY <3>1 DEF ValidUpTo
  <2> QED
    BY <2>1, <2>2
<1>9. SignedBy(q) = SignedBy(p) + IF q \in spend.signers THEN 1 ELSE 0
  BY SignedByIs
<1> QED
  BY <1>1, <1>6, <1>7, <1>8, <1>9

\* A signature of another input, and the rule is not met.
LEMMA BadSignature ==
  ASSUME ScriptTypeOK, NEW p \in 0 .. Len(Keys) - 1, ValidUpTo(p),
         Signatures[p + 1] # <<>>, ~Valid(Signatures[p + 1], Keys[p + 1])
  PROVE  spend.signers # {} /\ spend.signedFor # spend.input
<1>1. p + 1 \in spend.signers /\ spend.signedFor # spend.input
  BY NextKey
<1> QED
  BY <1>1

\* The first instructions of leaf 2: the timelock.
LEMMA TimelockStep ==
  ASSUME ScriptInv, res = "run", spend.leaf = 2, ScriptNext,
         NEW sigs, sigs = SignaturesAfter(0), NEW first, first = FromKeyOne(spend.k),
         NEW timed, timed = Append(sigs, Operand(spend.t)),
         \/ Before(RefundScript(spend.t, spend.k), sigs)
         \/ Before(<<OP_CSV>> \o <<OP_DROP>> \o first, timed)
         \/ Waited /\ Before(<<OP_DROP>> \o first, timed)
  PROVE  ScriptInv'
<1> DEFINE t == spend.t
           x == Operand(t)
           bit == (t \div 4194304) % 2
           late == t % 65536 > sequence
<1>1. ScriptTypeOK /\ sequence = CsvSequence(t)
  BY DEF ScriptInv
<1>2. /\ t \in Nat /\ t <= MaxNumber /\ spend.k \in Nat /\ spend.k <= MaxNumber
      /\ spend.age \in Nat /\ sequence \in Nat
  BY <1>1, RefundIs
<1>3. x \in Seq(Byte) /\ Num(x) = t
  BY <1>2, OperandIs
<1>4. x \in Element /\ sigs \in Seq(Element)
  <2>1. 0 \in 0 .. Len(Keys)
    BY KeysAre
  <2> QED
    BY <1>1, <1>3, <2>1, SignaturesAfterIs, ElementsAre
<1>5. timed \in Seq(Element)
  BY <1>4, AppendProperties
<1>6. /\ RefundScript(t, spend.k) = PushInt(t) \o (<<OP_CSV>> \o <<OP_DROP>> \o first)
      /\ <<OP_CSV>> \o <<OP_DROP>> \o first = <<OP_CSV>> \o (<<OP_DROP>> \o first)
      /\ <<OP_CSV>> \o <<OP_DROP>> \o first \in Seq(Byte)
      /\ <<OP_DROP>> \o first \in Seq(Byte)
      /\ first \in Seq(Byte)
  BY <1>2, RefundScriptIs
<1>7. Waited <=> spend.age >= sequence /\ bit = 0
  BY <1>1, SMT DEF Waited
<1> HIDE DEF bit, late
<1>8. CASE Before(RefundScript(t, spend.k), sigs)
  <2>1. /\ Rest(script, ip) = PushInt(t) \o (<<OP_CSV>> \o <<OP_DROP>> \o first)
        /\ stack = sigs
    BY <1>6, <1>8 DEF Before
  <2>2. Goes(<<OP_CSV>> \o <<OP_DROP>> \o first, timed)
    BY <1>1, <1>2, <1>6, <2>1, NumberRuns
  <2>3. RefundSoFar'
    BY <2>2, RefundReached
  <2> QED
    BY <1>5, <2>2, <2>3, RefundGoes
<1>9. CASE Before(<<OP_CSV>> \o <<OP_DROP>> \o first, timed)
  <2>1. /\ Rest(script, ip) = <<OP_CSV>> \o (<<OP_DROP>> \o first)
        /\ stack = Append(sigs, x)
    BY <1>6, <1>9 DEF Before
  <2>2. OpCsv /\ \A s : Advance(1, s) => Goes(<<OP_DROP>> \o first, s)
    BY <1>1, <1>6, <2>1, OpsAre, OpRuns
  <2>3. Num(Top) = t
    BY <1>3, <1>4, <2>1, OneOnTop
  <2>4. IF t < 0 \/ bit = 1 \/ late \/ spend.age < sequence
        THEN Fail ELSE Advance(1, stack)
    BY <2>2, <2>3, SMT DEF OpCsv, bit, late
  <2>5. ~(t < 0) /\ ~late
    BY <1>1, <1>2, SMT DEF CsvSequence, late
  <2>6. bit = 1 \/ spend.age < sequence <=> ~Waited
    <3>1. bit = 1 <=> bit # 0
      BY <1>2, SMT DEF bit
    <3>2. spend.age < sequence <=> ~(spend.age >= sequence)
      BY <1>2
    <3> QED
      BY <1>7, <3>1, <3>2, Zenon
  <2>7. IF Waited THEN Advance(1, stack) ELSE Fail
    BY <2>4, <2>5, <2>6, Zenon
  <2>8. CASE Waited
    <3>1. Goes(<<OP_DROP>> \o first, timed)
      BY <2>1, <2>2, <2>7, <2>8
    <3>2. RefundSoFar'
      BY <2>8, <3>1, RefundReached
    <3> QED
      BY <1>5, <3>1, <3>2, RefundGoes
  <2>9. CASE ~Waited
    <3>1. UNCHANGED <<spend, script, sequence, stack, ip>> /\ res' = "fail"
      BY <2>7, <2>9 DEF Fail
    <3> QED
      BY <2>9, <3>1, RefundEnds
  <2> QED
    BY <2>8, <2>9
<1>10. CASE Waited /\ Before(<<OP_DROP>> \o first, timed)
  <2>1. Rest(script, ip) = <<OP_DROP>> \o first /\ stack = Append(sigs, x)
    BY <1>10 DEF Before
  <2>2. OpDrop /\ \A s : Advance(1, s) => Goes(first, s)
    BY <1>1, <1>6, <2>1, OpsAre, OpRuns
  <2>3. Below(1) = sigs
    BY <1>4, <2>1, OneOnTop
  <2>4. Goes(first, sigs)
    BY <2>2, <2>3 DEF OpDrop
  <2>5. RefundSoFar'
    BY <1>10, <2>4, RefundReached
  <2> QED
    BY <1>4, <2>4, <2>5, RefundGoes
<1> QED
  BY <1>8, <1>9, <1>10

\* The first key and its check.
LEMMA FirstKeyStep ==
  ASSUME ScriptInv, res = "run", spend.leaf = 2, ScriptNext, Waited,
         NEW sigs, sigs = SignaturesAfter(0),
         \/ Before(FromKeyOne(spend.k), sigs)
         \/ Before(<<OP_CHECKSIG>> \o Checks(1, spend.k), Append(sigs, Keys[1]))
  PROVE  ScriptInv'
<1> DEFINE key == Keys[1]
           sig == Signatures[1]
           under == SignaturesAfter(1)
           counted == Append(under, Push(SignedBy(1)))
           rest == Checks(1, spend.k)
<1>1. ScriptTypeOK
  BY DEF ScriptInv
<1>2. spend.k \in Nat /\ spend.k <= MaxNumber
  BY <1>1, RefundIs
<1>3. 1 \in Participant /\ 0 \in 0 .. Len(Keys) - 1 /\ 0 \in 0 .. Len(Keys) /\ 1 \in 0 .. Len(Keys)
  BY KeysAre DEF Participant
<1>4. key \in Seq(Byte) /\ Len(key) >= 1 /\ Len(key) <= 75 /\ key \in Element
  BY <1>3, KeysAre, ElementsAre
<1>5. /\ sigs \in Seq(Element) /\ under \in Seq(Element) /\ sig \in Element
      /\ sigs = Append(under, sig)
  <2>1. SignaturesAfter(0) = Append(SignaturesAfter(0 + 1), Signatures[0 + 1])
    BY <1>1, <1>3, SignaturesAfterIs
  <2> QED
    BY <1>1, <1>3, <2>1, SignaturesAfterIs, WitnessIs
<1>6. /\ FromKeyOne(spend.k) = PushBytes(key) \o (<<OP_CHECKSIG>> \o rest)
      /\ <<OP_CHECKSIG>> \o rest \in Seq(Byte)
  BY <1>2, RefundScriptIs
<1>7. rest \in Seq(Byte)
  BY <1>2, <1>3, ChecksAre
<1>8. ValidUpTo(0)
  BY <1>1, SignedByIs DEF ValidUpTo
<1>9. /\ sig = <<>> \/ Valid(sig, key) => ValidUpTo(1)
      /\ SignedBy(1) = IF sig = <<>> THEN 0 ELSE 1
  <2>1. /\ Signatures[0 + 1] = <<>> \/ Valid(Signatures[0 + 1], Keys[0 + 1]) => ValidUpTo(0 + 1)
        /\ SignedBy(0 + 1) = SignedBy(0) + IF Signatures[0 + 1] = <<>> THEN 0 ELSE 1
    BY <1>1, <1>3, <1>8, NextKey
  <2>2. SignedBy(0) = 0
    BY <1>1, SignedByIs
  <2> QED
    BY <2>1, <2>2
<1>10. counted \in Seq(Element)
  <2>1. SignedBy(1) \in Nat /\ SignedBy(1) <= 32767
    BY <1>1, <1>3, SignedByIs
  <2>2. Push(SignedBy(1)) \in Element
    BY <2>1, PushNum, ElementsAre
  <2> QED
    BY <1>5, <2>2, AppendProperties
<1> HIDE DEF key, sig, under, counted, rest
<1>11. CASE Before(FromKeyOne(spend.k), sigs)
  <2>1. Rest(script, ip) = PushBytes(key) \o (<<OP_CHECKSIG>> \o rest) /\ stack = sigs
    BY <1>6, <1>11 DEF Before
  <2>2. Goes(<<OP_CHECKSIG>> \o rest, Append(sigs, key))
    BY <1>1, <1>4, <1>6, <2>1, PushRuns
  <2>3. RefundSoFar'
    BY <2>2, RefundReached DEF key, rest
  <2>4. Append(sigs, key) \in Seq(Element)
    BY <1>4, <1>5, AppendProperties
  <2> QED
    BY <2>2, <2>3, <2>4, RefundGoes
<1>12. CASE Before(<<OP_CHECKSIG>> \o rest, Append(sigs, key))
  <2>1. /\ Rest(script, ip) = <<OP_CHECKSIG>> \o rest
        /\ stack = Append(Append(under, sig), key)
    BY <1>5, <1>12 DEF Before
  <2>2. OpCheckSig /\ \A s : Advance(1, s) => Goes(rest, s)
    BY <1>1, <1>7, <2>1, OpsAre, OpRuns
  <2>3. Top = key /\ At(1) = sig /\ Below(2) = under
    BY <1>4, <1>5, <2>1, TwoOnTop
  <2>4. CASE sig = <<>> \/ Valid(sig, key)
    <3>1. Advance(1, Append(under, Push(IF sig = <<>> THEN 0 ELSE 1)))
      BY <2>2, <2>3, <2>4 DEF OpCheckSig
    <3>2. Goes(rest, counted)
      BY <1>9, <2>2, <3>1 DEF counted
    <3>3. RefundSoFar'
      BY <1>3, <1>9, <2>4, <3>2, CountingReached DEF counted, under, rest
    <3> QED
      BY <1>10, <3>2, <3>3, RefundGoes
  <2>5. CASE sig # <<>> /\ ~Valid(sig, key)
    <3>1. UNCHANGED <<spend, script, sequence, stack, ip>> /\ res' = "fail"
      BY <2>2, <2>3, <2>5 DEF OpCheckSig, Fail
    <3>2. spend.signers # {} /\ spend.signedFor # spend.input
      <4>1. Signatures[0 + 1] # <<>> /\ ~Valid(Signatures[0 + 1], Keys[0 + 1])
        BY <2>5 DEF sig, key
      <4> QED
        BY <1>1, <1>3, <1>8, <4>1, BadSignature
    <3> QED
      BY <3>1, <3>2, RefundEnds
  <2> QED
    BY <2>4, <2>5
<1> QED
  BY <1>11, <1>12 DEF key, rest

\* Every other key and its check; behind the last key, the threshold.
LEMMA CountingStep ==
  ASSUME ScriptInv, res = "run", spend.leaf = 2, ScriptNext, Waited,
         NEW p \in Participant, Counting(p)
  PROVE  ScriptInv'
<1> DEFINE len == Len(Keys)
           count == SignedBy(p)
           under == SignaturesAfter(p)
           counted == Append(under, Push(count))
           rest == Checks(p, spend.k)
<1>1. ScriptTypeOK
  BY DEF ScriptInv
<1>2. spend.k \in Nat /\ spend.k <= MaxNumber
  BY <1>1, RefundIs
<1>3. p \in 1 .. len /\ p \in 0 .. len /\ p \in Nat /\ len \in Nat
  BY KeysAre DEF Participant
<1>4. count \in Nat /\ count <= 999
  BY <1>1, <1>3, SignedByIs
<1>5. Push(count) \in Element /\ Num(Push(count)) = count
  BY <1>4, PushNum, ElementsAre
<1>6. under \in Seq(Element)
  BY <1>1, <1>3, SignaturesAfterIs
<1>7. counted \in Seq(Element)
  BY <1>5, <1>6, AppendProperties
<1>8. /\ ValidUpTo(p)
      /\ \/ Before(rest, counted)
         \/ /\ p < len
            /\ Before(<<OP_CHECKSIGADD>> \o Checks(p + 1, spend.k), Append(counted, Keys[p + 1]))
  BY DEF Counting
<1> HIDE DEF count, under, counted, rest
<1>9. CASE p = len /\ Before(rest, counted)
  <2>1. /\ Rest(script, ip) = PushInt(spend.k) \o <<OP_NUMEQUAL>> /\ stack = counted
    BY <1>2, <1>9, ChecksAre DEF Before, rest
  <2>2. <<OP_NUMEQUAL>> \in Seq(Byte)
    BY OpsAre, OneByte
  <2>3. Goes(<<OP_NUMEQUAL>>, Append(counted, Operand(spend.k)))
    BY <1>1, <1>2, <2>1, <2>2, NumberRuns
  <2>4. Operand(spend.k) \in Element
    BY <1>2, OperandIs, ElementsAre
  <2>5. counted = Append(<<>>, Push(count))
    <3>1. under = <<>>
      BY <1>1, <1>9, SignaturesAfterIs DEF under
    <3> QED
      BY <3>1 DEF counted
  <2>6. /\ Append(counted, Operand(spend.k)) = <<Push(count), Operand(spend.k)>>
        /\ <<Push(count), Operand(spend.k)>> \in Seq(Element)
    BY <1>5, <2>4, <2>5, Tuples
  <2>7. RefundSoFar'
    BY <1>8, <1>9, <2>3, <2>6, CountedReached DEF count
  <2> QED
    BY <2>3, <2>6, <2>7, RefundGoes
<1> DEFINE q == p + 1
           key == Keys[q]
           sig == Signatures[q]
           next == SignaturesAfter(q)
           more == Checks(q, spend.k)
<1>10. ASSUME p # len
       PROVE  /\ q \in Participant /\ q \in 0 .. len /\ p \in 0 .. len - 1 /\ p < len
              /\ key \in Seq(Byte) /\ Len(key) >= 1 /\ Len(key) <= 75 /\ key \in Element
              /\ sig \in Element /\ next \in Seq(Element) /\ under = Append(next, sig)
              /\ rest = PushBytes(key) \o (<<OP_CHECKSIGADD>> \o more)
              /\ <<OP_CHECKSIGADD>> \o more \in Seq(Byte)
              /\ more \in Seq(Byte)
  <2>1. q \in Participant /\ q \in 0 .. len /\ p \in 0 .. len - 1 /\ p < len
    BY <1>3, <1>10 DEF Participant
  <2>2. key \in Seq(Byte) /\ Len(key) >= 1 /\ Len(key) <= 75 /\ key \in Element
    BY <2>1, KeysAre, ElementsAre
  <2>3. sig \in Element
    BY <1>1, <2>1, WitnessIs
  <2>4. next \in Seq(Element) /\ under = Append(next, sig)
    BY <1>1, <2>1, SignaturesAfterIs DEF under
  <2>5. /\ rest = PushBytes(key) \o (<<OP_CHECKSIGADD>> \o more)
        /\ <<OP_CHECKSIGADD>> \o more \in Seq(Byte)
    BY <1>2, <1>10, ChecksAre DEF rest
  <2>6. more \in Seq(Byte)
    BY <1>2, <2>1, ChecksAre
  <2> QED
    BY <2>1, <2>2, <2>3, <2>4, <2>5, <2>6
<1>11. ASSUME p # len
       PROVE  /\ sig = <<>> \/ Valid(sig, key) => ValidUpTo(q)
              /\ SignedBy(q) = count + IF sig = <<>> THEN 0 ELSE 1
  BY <1>1, <1>8, <1>10, <1>11, NextKey DEF count
<1>12. CASE p # len /\ Before(rest, counted)
  <2> HIDE DEF key, sig, next, more, q
  <2>1. Rest(script, ip) = PushBytes(key) \o (<<OP_CHECKSIGADD>> \o more) /\ stack = counted
    BY <1>10, <1>12 DEF Before
  <2>2. Goes(<<OP_CHECKSIGADD>> \o more, Append(counted, key))
    BY <1>1, <1>10, <1>12, <2>1, PushRuns
  <2>3. RefundSoFar'
    BY <1>8, <1>10, <1>12, <2>2, CountingReached DEF counted, key, more, q, under, count
  <2>4. Append(counted, key) \in Seq(Element)
    BY <1>7, <1>10, <1>12, AppendProperties
  <2> QED
    BY <2>2, <2>3, <2>4, RefundGoes
<1>13. CASE p < len /\ Before(<<OP_CHECKSIGADD>> \o more, Append(counted, key))
  <2> HIDE DEF key, sig, next, more, q
  <2>1. p # len
    BY <1>3, <1>13
  <2>2. /\ Rest(script, ip) = <<OP_CHECKSIGADD>> \o more
        /\ stack = Append(Append(Append(next, sig), Push(count)), key)
    BY <1>10, <1>13, <2>1 DEF Before, counted
  <2>3. OpCheckSigAdd /\ \A s : Advance(1, s) => Goes(more, s)
    BY <1>1, <1>10, <2>1, <2>2, OpsAre, OpRuns
  <2>4. Top = key /\ At(1) = Push(count) /\ At(2) = sig /\ Below(3) = next
    BY <1>5, <1>10, <2>1, <2>2, ThreeOnTop
  <2>5. CASE sig = <<>> \/ Valid(sig, key)
    <3> DEFINE one == IF sig = <<>> THEN 0 ELSE 1
    <3>1. Advance(1, Append(next, Push(count + one)))
      BY <1>5, <2>3, <2>4, <2>5 DEF OpCheckSigAdd
    <3>2. SignedBy(q) = count + one
      BY <1>11, <2>1
    <3> HIDE DEF one
    <3>3. Goes(more, Append(next, Push(SignedBy(q))))
      BY <2>3, <3>1, <3>2
    <3>4. SignedBy(q) \in Nat /\ SignedBy(q) <= 32767
      BY <1>1, <1>10, <2>1, SignedByIs
    <3>5. Push(SignedBy(q)) \in Element
      BY <3>4, PushNum, ElementsAre
    <3>6. Append(next, Push(SignedBy(q))) \in Seq(Element)
      BY <1>10, <2>1, <3>5, AppendProperties
    <3>7. RefundSoFar'
      BY <1>10, <1>11, <2>1, <2>5, <3>3, CountingReached DEF next, more
    <3> QED
      BY <3>3, <3>6, <3>7, RefundGoes
  <2>6. CASE sig # <<>> /\ ~Valid(sig, key)
    <3>1. UNCHANGED <<spend, script, sequence, stack, ip>> /\ res' = "fail"
      BY <2>3, <2>4, <2>6 DEF OpCheckSigAdd, Fail
    <3>2. spend.signers # {} /\ spend.signedFor # spend.input
      BY <1>1, <1>8, <1>10, <2>1, <2>6, BadSignature DEF sig, key, q
    <3> QED
      BY <3>1, <3>2, RefundEnds
  <2> QED
    BY <2>5, <2>6
<1> QED
  BY <1>8, <1>9, <1>12, <1>13

\* The comparison with the threshold, and the end.
LEMMA CountedStep ==
  ASSUME ScriptInv, res = "run", spend.leaf = 2, ScriptNext, Waited, Counted
  PROVE  ScriptInv'
<1> DEFINE all == SignedBy(Len(Keys))
           same == Push(IF all = spend.k THEN 1 ELSE 0)
<1>1. ScriptTypeOK
  BY DEF ScriptInv
<1>2. spend.k \in Nat /\ spend.k <= MaxNumber
  BY <1>1, RefundIs
<1>3. all \in Nat /\ all <= 32767 /\ all = Cardinality(spend.signers)
  <2>1. Len(Keys) \in 0 .. Len(Keys)
    BY KeysAre
  <2> QED
    BY <1>1, <2>1, SignedByIs
<1>4. spend.signers = {} \/ spend.signedFor = spend.input
  BY <1>1, SignedByIs DEF Counted, ValidUpTo
<1>5. /\ ValidUpTo(Len(Keys))
      /\ \/ Before(<<OP_NUMEQUAL>>, <<Push(all), Operand(spend.k)>>)
         \/ Before(<<>>, <<same>>)
  BY DEF Counted
<1> HIDE DEF all
<1>6. /\ Push(all) \in Element /\ Num(Push(all)) = all
      /\ Operand(spend.k) \in Element /\ Num(Operand(spend.k)) = spend.k
  <2>1. Push(all) \in Seq(Byte) /\ Num(Push(all)) = all
    BY <1>3, PushNum
  <2>2. Operand(spend.k) \in Seq(Byte) /\ Num(Operand(spend.k)) = spend.k
    BY <1>2, OperandIs
  <2> QED
    BY <2>1, <2>2, ElementsAre
<1>7. same \in Element /\ Num(same) = IF all = spend.k THEN 1 ELSE 0
  <2>1. \A v \in {0, 1} : v \in Nat /\ v <= 32767
    OBVIOUS
  <2>2. same \in Seq(Byte) /\ Num(same) = IF all = spend.k THEN 1 ELSE 0
    BY <2>1, PushNum
  <2> QED
    BY <2>2, ElementsAre
<1> HIDE DEF same
<1>8. <<>> \in Seq(Element) /\ <<same>> = Append(<<>>, same) /\ <<same>> \in Seq(Element)
  BY <1>7, Tuples
<1>9. CASE Before(<<OP_NUMEQUAL>>, <<Push(all), Operand(spend.k)>>)
  <2>1. <<OP_NUMEQUAL>> = <<OP_NUMEQUAL>> \o <<>> /\ <<>> \in Seq(Byte)
    BY OpsAre, OneByte, ConcatEmptySeq, EmptySeq
  <2>2. /\ Rest(script, ip) = <<OP_NUMEQUAL>> \o <<>>
        /\ stack = Append(Append(<<>>, Push(all)), Operand(spend.k))
    BY <1>6, <1>9, <2>1, Tuples DEF Before
  <2>3. OpNumEqual /\ \A s : Advance(1, s) => Goes(<<>>, s)
    BY <1>1, <2>1, <2>2, OpsAre, OpRuns
  <2>4. Num(Top) = spend.k /\ Num(At(1)) = all /\ Below(2) = <<>>
    BY <1>6, <1>8, <2>2, TwoOnTop
  <2>5. Goes(<<>>, Append(<<>>, Push(IF spend.k = all THEN 1 ELSE 0)))
    BY <2>3, <2>4 DEF OpNumEqual
  <2>6. Goes(<<>>, <<same>>)
    <3>1. Push(IF spend.k = all THEN 1 ELSE 0) = same
      BY DEF same
    <3> QED
      BY <1>8, <2>5, <3>1
  <2>7. RefundSoFar'
    BY <1>5, <2>6, CountedReached DEF same, all
  <2> QED
    BY <1>8, <2>6, <2>7, RefundGoes
<1>10. CASE Before(<<>>, <<same>>)
  <2>1. Rest(script, ip) = <<>> /\ stack = Append(<<>>, same)
    BY <1>8, <1>10 DEF Before
  <2>2. Finish
    BY <1>1, <2>1, EndRuns
  <2>3. Len(stack) = 1 /\ Top = same
    <3>1. Len(<<>>) = 0
      BY EmptySeq
    <3> QED
      BY <1>7, <1>8, <2>1, <3>1, OneOnTop
  <2>4. Num(Top) # 0 <=> all = spend.k
    BY <1>7, <2>3
  <2>5. /\ UNCHANGED <<spend, script, sequence, stack, ip>> /\ res' \in {"accept", "fail"}
        /\ res' = "accept" <=> all = spend.k
    BY <2>2, <2>3, <2>4 DEF Finish
  <2> QED
    BY <1>3, <1>4, <2>5, RefundEnds
<1> QED
  BY <1>5, <1>9, <1>10

LEMMA RefundStep ==
  ASSUME ScriptInv, res = "run", spend.leaf = 2, ScriptNext
  PROVE  ScriptInv'
<1> DEFINE sigs == SignaturesAfter(0)
           first == FromKeyOne(spend.k)
           timed == Append(sigs, Operand(spend.t))
<1>1. RefundSoFar
  BY DEF ScriptInv
<1>2. \/ Before(RefundScript(spend.t, spend.k), sigs)
      \/ Before(<<OP_CSV>> \o <<OP_DROP>> \o first, timed)
      \/ Waited /\ Before(<<OP_DROP>> \o first, timed)
      \/ Waited /\ Before(first, sigs)
      \/ Waited /\ Before(<<OP_CHECKSIG>> \o Checks(1, spend.k), Append(sigs, Keys[1]))
      \/ Waited /\ \E p \in Participant : Counting(p)
      \/ Waited /\ Counted
  BY <1>1 DEF RefundSoFar
<1>3. CASE \/ Before(RefundScript(spend.t, spend.k), sigs)
           \/ Before(<<OP_CSV>> \o <<OP_DROP>> \o first, timed)
           \/ Waited /\ Before(<<OP_DROP>> \o first, timed)
  BY <1>3, TimelockStep
<1>4. CASE \/ Waited /\ Before(first, sigs)
           \/ Waited /\ Before(<<OP_CHECKSIG>> \o Checks(1, spend.k), Append(sigs, Keys[1]))
  BY <1>4, FirstKeyStep
<1>5. CASE Waited /\ \E p \in Participant : Counting(p)
  BY <1>5, CountingStep
<1>6. CASE Waited /\ Counted
  BY <1>6, CountedStep
<1> QED
  BY <1>2, <1>3, <1>4, <1>5, <1>6

------------------------------------------------------------------------------
(* From the first state on *)

LEMMA Starting ==
  ASSUME ScriptInit
  PROVE  ScriptInv
<1>1. <<>> \in Seq(Byte) /\ <<>> \in Seq(Seq(Nat)) /\ Len(<<>>) = 0
  BY EmptySeq
<1>2. ASSUME NEW s \in Spend, Blank(s),
             s.leaf = 1 => Cardinality(s.signers) < 2 /\ s.signedFor = s.input
      PROVE  ScriptInv
  BY <1>1, <1>2 DEF Blank, ScriptInv, ScriptTypeOK, HtlcIsWinnerWithSecret, RefundRule, Decided
<1>3. CASE InitHtlc
  <2>1. (CHOOSE k \in KMins : TRUE) \in KMins
    BY ScriptAssumption DEF ScriptAssumption
  <2>2. PICK signers \in SUBSET Participant, i \in Inputs, w \in Participant,
             x, y \in Preimages, t \in TRefunds, age \in {0, TClaim},
             by \in {"method", "handler"}, b \in BOOLEAN :
          /\ Cardinality(signers) < 2
          /\ \A u \in TRefunds : t <= u
          /\ Blank([leaf |-> 1, signers |-> signers, signedFor |-> i, input |-> i,
                    winner |-> w, secret |-> x, t |-> t, k |-> CHOOSE k \in KMins : TRUE,
                    preimage |-> y, age |-> age, by |-> by, leaf1First |-> b])
    BY <1>3, Zenon DEF InitHtlc
  <2> DEFINE s == [leaf |-> 1, signers |-> signers, signedFor |-> i, input |-> i,
                   winner |-> w, secret |-> x, t |-> t, k |-> CHOOSE k \in KMins : TRUE,
                   preimage |-> y, age |-> age, by |-> by, leaf1First |-> b]
  <2>3. s \in Spend
    <3>1. age \in Nat
      BY <2>2, ScriptAssumption DEF ScriptAssumption
    <3> QED
      BY <2>1, <2>2, <3>1 DEF Spend
  <2>4. Blank(s) /\ Cardinality(s.signers) < 2 /\ s.signedFor = s.input
    BY <2>2, Zenon
  <2> HIDE DEF s
  <2> QED
    BY <1>2, <2>3, <2>4
<1>4. CASE InitRefund
  <2>1. (CHOOSE x \in Preimages : TRUE) \in Preimages /\ 1 \in Participant
    BY ScriptAssumption, KeysAre DEF ScriptAssumption, Participant
  <2>2. PICK signers \in SUBSET Participant, i, j \in Inputs, t \in TRefunds, k \in KMins,
             late \in {-1, 0, 1}, b \in BOOLEAN :
          \E age \in {t + late, CsvSequence(t) + late} :
            /\ age >= 0
            /\ LET x == CHOOSE p \in Preimages : TRUE
               IN  Blank([leaf |-> 2, signers |-> signers, signedFor |-> i, input |-> j,
                          winner |-> 1, secret |-> x, t |-> t, k |-> k,
                          preimage |-> x, age |-> age, by |-> "handler", leaf1First |-> b])
    BY <1>4 DEF InitRefund
  <2>3. PICK age \in {t + late, CsvSequence(t) + late} :
          /\ age >= 0
          /\ LET x == CHOOSE p \in Preimages : TRUE
             IN  Blank([leaf |-> 2, signers |-> signers, signedFor |-> i, input |-> j,
                        winner |-> 1, secret |-> x, t |-> t, k |-> k,
                        preimage |-> x, age |-> age, by |-> "handler", leaf1First |-> b])
    BY <2>2
  <2>4. age \in Nat
    <3>1. t \in Nat
      <4>1. MaxNumber \in Int
        BY SMT DEF MaxNumber
      <4>2. \A m \in Int : \A v \in 0 .. m : v \in Nat
        OBVIOUS
      <4> QED
        BY <4>1, <4>2, ScriptAssumption, Zenon DEF ScriptAssumption
    <3>2. CsvSequence(t) \in Nat
      BY <3>1, SMT DEF CsvSequence
    <3> QED
      BY <2>3, <3>1, <3>2
  <2> DEFINE x == CHOOSE p \in Preimages : TRUE
             s == [leaf |-> 2, signers |-> signers, signedFor |-> i, input |-> j,
                   winner |-> 1, secret |-> x, t |-> t, k |-> k,
                   preimage |-> x, age |-> age, by |-> "handler", leaf1First |-> b]
  <2>5. s \in Spend
    BY <2>1, <2>4 DEF Spend
  <2>6. Blank(s) /\ s.leaf = 2
    BY <2>3, Zenon
  <2> HIDE DEF s
  <2> QED
    BY <1>2, <2>5, <2>6
<1> QED
  BY <1>3, <1>4 DEF ScriptInit

LEMMA Commits == Committed
BY SMT DEF Committed, TapBranch

\* An attempt: a script revealed, with its witness.
LEMMA PreparedGoes ==
  ASSUME ScriptInv, res = "new", NEW s \in Seq(Byte), NEW seq \in Nat,
         NEW witness \in Seq(Element), Prepared(s, seq, witness)
  PROVE  /\ ScriptTypeOK' /\ res' = "run" /\ ~Decided' /\ spend' = spend /\ sequence' = seq
         /\ Rest(script', ip') = s /\ stack' = witness
<1>1. /\ script' = s /\ sequence' = seq /\ stack' = witness /\ res' = "run"
      /\ spend' = spend /\ ip' = 1 /\ spend \in Spend
  BY Commits DEF Prepared, ScriptInv, ScriptTypeOK
<1>2. Len(s) \in Nat
  BY LenProperties
<1>3. Rest(s, 1) = s
  BY <1>2, PrefixIs DEF Rest
<1>4. 1 \in 1 .. Len(s) + 1
  BY <1>2
<1> QED
  BY <1>1, <1>3, <1>4 DEF ScriptTypeOK, Decided, Element

LEMMA ClaimStarts ==
  ASSUME ScriptInv, res = "new", spend.leaf = 1, HtlcAttempt(LeafOne)
  PROVE  ScriptInv'
<1> DEFINE witness == <<spend.preimage, HtlcSignature>>
<1>1. ScriptTypeOK /\ Cardinality(spend.signers) < 2 /\ spend.signedFor = spend.input
  BY DEF ScriptInv
<1>2. LeafOne \in Seq(Byte)
  <2>1. /\ spend.winner \in Participant /\ Sha256(spend.secret) \in Seq(Byte)
        /\ Len(Sha256(spend.secret)) >= 1 /\ Len(Sha256(spend.secret)) <= 75
    BY <1>1, HtlcIs
  <2> QED
    BY <2>1, HtlcScriptIs DEF LeafOne
<1>3. witness \in Seq(Element)
  <2>1. spend.preimage \in Element /\ HtlcSignature \in Element
    BY <1>1, HtlcIs, ElementsAre
  <2> QED
    BY <2>1, Tuples
<1>4. Prepared(LeafOne, 65533, witness)
  BY DEF HtlcAttempt, HtlcWitness
<1> HIDE DEF witness
<1>5. /\ ScriptTypeOK' /\ res' = "run" /\ ~Decided' /\ spend' = spend
      /\ Rest(script', ip') = LeafOne /\ stack' = witness
  <2>1. 65533 \in Nat
    OBVIOUS
  <2> QED
    BY <1>2, <1>3, <1>4, <2>1, PreparedGoes
<1>6. HtlcSoFar'
  <2>1. LeafOne' = LeafOne /\ HtlcSignature' = HtlcSignature
    BY <1>5, HtlcSame
  <2> QED
    BY <1>5, <2>1 DEF HtlcSoFar, Before, witness
<1> QED
  BY <1>1, <1>5, <1>6 DEF ScriptInv, HtlcIsWinnerWithSecret, RefundRule

LEMMA RefundStarts ==
  ASSUME ScriptInv, BroadcastRefund
  PROVE  ScriptInv'
<1> DEFINE witness == RefundWitness(Signatures)
           s == RefundScript(spend.t, spend.k)
           seq == CsvSequence(spend.t)
<1>1. ScriptTypeOK /\ res = "new" /\ spend.leaf = 2
  BY DEF ScriptInv, BroadcastRefund
<1>2. s \in Seq(Byte) /\ seq \in Nat
  BY <1>1, RefundIs, RefundScriptIs
<1>3. witness \in Seq(Element) /\ witness = SignaturesAfter(0)
  BY <1>1, WitnessIs, SignaturesAfterIs
<1>4. Prepared(s, seq, witness)
  BY DEF BroadcastRefund
<1> HIDE DEF witness, s, seq
<1>5. /\ ScriptTypeOK' /\ res' = "run" /\ ~Decided' /\ spend' = spend /\ sequence' = seq
      /\ Rest(script', ip') = s /\ stack' = witness
  BY <1>1, <1>2, <1>3, <1>4, PreparedGoes
<1>6. RefundSoFar'
  <2>1. /\ RefundScript(spend.t, spend.k)' = RefundScript(spend.t, spend.k)
        /\ SignaturesAfter(0)' = SignaturesAfter(0)
    BY <1>5, RefundSame
  <2>2. Before(RefundScript(spend.t, spend.k), SignaturesAfter(0))'
    BY <1>3, <1>5, <2>1 DEF Before, s
  <2> QED
    BY <2>2 DEF RefundSoFar
<1>7. CsvSequence(spend.t)' = seq
  BY <1>5 DEF CsvSequence, seq
<1> QED
  BY <1>1, <1>5, <1>6, <1>7 DEF ScriptInv, HtlcIsWinnerWithSecret, RefundRule

LEMMA ScriptStep ==
  ASSUME ScriptInv, [ScriptNext]_scriptVars
  PROVE  ScriptInv'
<1>1. CASE res = "run" /\ ScriptNext
  <2>1. spend.leaf \in {1, 2}
    BY DEF ScriptInv, ScriptTypeOK, Spend
  <2> QED
    BY <1>1, <2>1, HtlcStep, RefundStep
<1>2. CASE res # "run" /\ ScriptNext
  <2>1. ClaimHtlcMethod \/ ClaimHtlcHandler \/ BroadcastRefund
    BY <1>2 DEF ScriptNext, OpPush, OpNumber, OpCsv, OpDrop, OpCheckSig, OpCheckSigAdd,
       OpCheckSigVerify, OpSha256, OpEqual, OpNumEqual, Finish, AtOp
  <2>2. CASE ClaimHtlcMethod
    <3>1. CASE HtlcAttempt(LeafOne)
      BY <2>2, <3>1, ClaimStarts DEF ClaimHtlcMethod
    <3>2. CASE res' = "raised" /\ UNCHANGED <<spend, script, sequence, stack, ip>>
      BY <2>2, <3>2 DEF ScriptInv, ScriptTypeOK, Decided, HtlcIsWinnerWithSecret, RefundRule,
         ClaimHtlcMethod
    <3> QED
      BY <2>2, <3>1, <3>2 DEF ClaimHtlcMethod
  <2>3. CASE ClaimHtlcHandler
    BY <2>3, ClaimStarts DEF ClaimHtlcHandler
  <2>4. CASE BroadcastRefund
    BY <2>4, RefundStarts
  <2> QED
    BY <2>1, <2>2, <2>3, <2>4
<1>3. CASE UNCHANGED scriptVars
  <2>1. UNCHANGED spend /\ UNCHANGED <<script, sequence, stack, ip, res>>
    BY <1>3 DEF scriptVars
  <2>2. /\ LeafOne' = LeafOne /\ HtlcSignature' = HtlcSignature /\ HtlcSigned' = HtlcSigned
        /\ \A rest, elements : Before(rest, elements)' = Before(rest, elements)
    BY <2>1, HtlcSame DEF Before
  <2>3. HtlcSoFar => HtlcSoFar'
    BY <2>1, <2>2 DEF HtlcSoFar, Before
  <2>4. RefundSoFar => RefundSoFar'
    <3>1. /\ Waited' = Waited
          /\ RefundScript(spend.t, spend.k)' = RefundScript(spend.t, spend.k)
          /\ \A p : /\ SignaturesAfter(p)' = SignaturesAfter(p)
                    /\ SignedBy(p)' = SignedBy(p) /\ ValidUpTo(p)' = ValidUpTo(p)
      BY <2>1, RefundSame
    <3>2. \A p \in Participant : Counting(p) => Counting(p)'
      BY <2>1, <3>1 DEF Counting, Before
    <3>3. Counted => Counted'
      BY <2>1, <3>1 DEF Counted, Before
    <3> QED
      BY <2>1, <3>1, <3>2, <3>3 DEF RefundSoFar, Before
  <2>5. ScriptTypeOK' /\ HtlcIsWinnerWithSecret' /\ RefundRule'
    <3>1. ScriptTypeOK'
      BY <2>1 DEF ScriptInv, ScriptTypeOK
    <3>2. HtlcIsWinnerWithSecret'
      BY <2>1 DEF ScriptInv, HtlcIsWinnerWithSecret, Decided
    <3>3. Waited' = Waited
      BY <2>1, RefundSame
    <3>4. RefundRule'
      BY <2>1, <3>3 DEF ScriptInv, RefundRule, Decided
    <3> QED
      BY <3>1, <3>2, <3>4
  <2>6. CsvSequence(spend.t)' = CsvSequence(spend.t)
    BY <2>1 DEF CsvSequence
  <2> QED
    BY <2>1, <2>3, <2>4, <2>5, <2>6 DEF ScriptInv
<1> QED
  BY <1>1, <1>2, <1>3

\* The remaining program and the stack agree at every instruction of both leaves, for
\* any number of participants, any keys, preimages, timelocks and thresholds.
THEOREM ScriptInvariant == ScriptSpec => []ScriptInv
<1>1. ScriptInit => ScriptInv
  BY Starting
<1>2. ScriptInv /\ [ScriptNext]_scriptVars => ScriptInv'
  BY ScriptStep
<1> QED
  BY <1>1, <1>2, PTL DEF ScriptSpec

\* The script machine never leaves its types: the stack holds byte strings, and the
\* instruction pointer stays inside the script or just behind it.
THEOREM ScriptTypeCorrect == ScriptSpec => []ScriptTypeOK
<1>1. ScriptInv => ScriptTypeOK
  BY DEF ScriptInv
<1> QED
  BY <1>1, ScriptInvariant, PTL

\* Leaf 1 is spent with the winner's key and the secret, and with nothing else: the
\* script of protocol.py:180-194 against the witness of protocol.py:545-555, for every
\* key, secret and preimage, and in whichever order the two leaves were hashed.
THEOREM HtlcIsWinnerWithSecretCorrect == ScriptSpec => []HtlcIsWinnerWithSecret
<1>1. ScriptInv => HtlcIsWinnerWithSecret
  BY DEF ScriptInv
<1> QED
  BY <1>1, ScriptInvariant, PTL

\* Leaf 2 for every timelock of up to four bytes: the node waits for the low 16 bits of
\* t_refund (protocol.py:417), and never accepts where bit 22 asks for time.
THEOREM RefundForEveryTimelock == ScriptSpec => []RefundRule
<1>1. ScriptInv => RefundRule
  BY DEF ScriptInv
<1> QED
  BY <1>1, ScriptInvariant, PTL

\* Leaf 2 is spent by exactly k_min signatures of this input, of an output at least
\* t_refund blocks old, and always by those: the chain of encodings and orders between
\* build_refund_tx, sign_refund, broadcast_refund (protocol.py:197-222, 399-424) and the node.
THEOREM RefundIsKMinAfterTRefundCorrect == ScriptSpec => []RefundIsKMinAfterTRefund
<1>1. ScriptInv => RefundIsKMinAfterTRefund
  <2> SUFFICES ASSUME ScriptInv, Decided, spend.leaf = 2, spend.t <= 65535
               PROVE  res = "accept" <=>
                        /\ Cardinality(spend.signers) = spend.k
                        /\ spend.signers = {} \/ spend.signedFor = spend.input
                        /\ spend.age >= spend.t
    BY DEF RefundIsKMinAfterTRefund
  <2>1. spend.t \in Nat /\ spend.age \in Nat
    BY RefundIs DEF ScriptInv
  <2>2. CsvSequence(spend.t) = spend.t /\ (spend.t \div 4194304) % 2 = 0
    BY <2>1, SMT DEF CsvSequence
  <2>3. Waited <=> spend.age >= spend.t
    BY <2>2, SMT DEF Waited
  <2> QED
    BY <2>3 DEF ScriptInv, RefundRule
<1> QED
  BY <1>1, ScriptInvariant, PTL

------------------------------------------------------------------------------
(***************************************************************************)
(* A MuSig2 session.  Every value is the remainder of an expression; the   *)
(* proofs work with the expressions up to a multiple of the order, and go  *)
(* back to the values where two of them have to be the same.               *)
(***************************************************************************)

LEMMA Sizes == Order \in Nat /\ Order > 2 /\ n \in Nat \ {0}
BY GroupAssumption, ScalarsAssumption

USE Sizes

(***************************************************************************)
(* Arithmetic modulo the order.                                            *)
(***************************************************************************)
Cong(a, b) == \E k \in Int : a = b + k * Order

LEMMA ModType == ASSUME NEW a \in Int PROVE a % Order \in Zq
BY DEF Zq

LEMMA ModCong == ASSUME NEW a \in Int PROVE Cong(a % Order, a)
<1> DEFINE k == -(a \div Order)
<1>1. k \in Int /\ a % Order = a + k * Order
  <2>1. a = (a \div Order) * Order + (a % Order) /\ a \div Order \in Int
    OBVIOUS
  <2> QED
    BY <2>1
<1> QED
  BY <1>1 DEF Cong

LEMMA CongRefl == ASSUME NEW a \in Int PROVE Cong(a, a)
<1>1. a = a + 0 * Order
  OBVIOUS
<1> QED
  BY <1>1 DEF Cong

LEMMA CongSym ==
  ASSUME NEW a \in Int, NEW b \in Int, Cong(a, b)
  PROVE  Cong(b, a)
<1>1. PICK k \in Int : a = b + k * Order
  BY DEF Cong
<1>2. -k \in Int /\ b = a + (-k) * Order
  BY <1>1
<1> QED
  BY <1>2 DEF Cong

LEMMA CongTrans ==
  ASSUME NEW a \in Int, NEW b \in Int, NEW c \in Int, Cong(a, b), Cong(b, c)
  PROVE  Cong(a, c)
<1>1. PICK k \in Int : a = b + k * Order
  BY DEF Cong
<1>2. PICK l \in Int : b = c + l * Order
  BY DEF Cong
<1>3. k + l \in Int /\ a = c + (k + l) * Order
  BY <1>1, <1>2
<1> QED
  BY <1>3 DEF Cong

LEMMA CongAdd ==
  ASSUME NEW a \in Int, NEW b \in Int, NEW c \in Int, NEW d \in Int, Cong(a, b), Cong(c, d)
  PROVE  Cong(a + c, b + d)
<1>1. PICK k \in Int : a = b + k * Order
  BY DEF Cong
<1>2. PICK l \in Int : c = d + l * Order
  BY DEF Cong
<1>3. k + l \in Int /\ a + c = (b + d) + (k + l) * Order
  BY <1>1, <1>2
<1> QED
  BY <1>3 DEF Cong

LEMMA CongMul ==
  ASSUME NEW a \in Int, NEW b \in Int, NEW c \in Int, Cong(b, c)
  PROVE  Cong(a * b, a * c)
<1>1. PICK k \in Int : b = c + k * Order
  BY DEF Cong
<1>2. a * k \in Int /\ a * b = a * (c + k * Order)
  BY <1>1
<1>3. a * (c + k * Order) = a * c + (a * k) * Order
  OBVIOUS
<1> QED
  BY <1>2, <1>3 DEF Cong

LEMMA CongEqual ==
  ASSUME NEW a \in Zq, NEW b \in Zq, Cong(a, b)
  PROVE  a = b
<1>1. PICK k \in Int : a = b + k * Order
  BY DEF Cong
<1>2. CASE k = 0
  BY <1>1, <1>2 DEF Zq
<1>3. CASE k > 0
  <2>1. k * Order >= Order
    BY <1>3
  <2> QED
    BY <1>1, <2>1 DEF Zq
<1>4. CASE k < 0
  <2>1. k * Order <= -Order
    BY <1>4
  <2> QED
    BY <1>1, <2>1 DEF Zq
<1> QED
  BY <1>2, <1>3, <1>4

LEMMA ModEqual ==
  ASSUME NEW a \in Int, NEW b \in Int
  PROVE  (a % Order = b % Order) <=> Cong(a, b)
<1>1. a % Order \in Zq /\ b % Order \in Zq /\ a % Order \in Int /\ b % Order \in Int
  <2>1. a % Order \in Zq /\ b % Order \in Zq
    BY ModType
  <2> QED
    BY <2>1 DEF Zq
<1>2. Cong(a % Order, a) /\ Cong(b % Order, b)
  BY ModCong
<1>3. Cong(a, a % Order) /\ Cong(b, b % Order)
  BY <1>1, <1>2, CongSym
<1>4. ASSUME a % Order = b % Order PROVE Cong(a, b)
  BY <1>1, <1>2, <1>3, <1>4, CongTrans
<1>5. ASSUME Cong(a, b) PROVE a % Order = b % Order
  <2>1. Cong(a % Order, b)
    BY <1>1, <1>2, <1>5, CongTrans
  <2>2. Cong(a % Order, b % Order)
    BY <1>1, <1>3, <2>1, CongTrans
  <2> QED
    BY <1>1, <2>2, CongEqual
<1> QED
  BY <1>4, <1>5

LEMMA ModSelf == ASSUME NEW a \in Zq PROVE a % Order = a
<1>1. a \in Int /\ a % Order \in Zq
  BY ModType DEF Zq
<1>2. Cong(a % Order, a)
  BY <1>1, ModCong
<1> QED
  BY <1>1, <1>2, CongEqual

LEMMA SumCong ==
  ASSUME NEW S, IsFiniteSet(S), NEW f, NEW g,
         \A x \in S : f[x] \in Int /\ g[x] \in Int /\ Cong(f[x], g[x])
  PROVE  Cong(SumFunctionOnSet(f, S), SumFunctionOnSet(g, S))
<1> DEFINE s(h, T) == SumFunctionOnSet(h, T)
           G == {T \in SUBSET S : Cong(s(f, T), s(g, T))}
<1>1. {} \in G
  <2>1. s(f, {}) = 0 /\ s(g, {}) = 0
    BY SumOfNone
  <2> QED
    BY <2>1, CongRefl
<1>2. ASSUME NEW T \in SUBSET S, T # {}, T \ {Pick(T)} \in G PROVE T \in G
  <2> DEFINE x == Pick(T)
             U == T \ {x}
  <2>1. IsFiniteSet(T) /\ IsFiniteSet(U)
    BY FS_Subset
  <2>2. x \in T /\ s(f, T) = f[x] + s(f, U) /\ s(g, T) = g[x] + s(g, U)
    BY <1>2, <2>1, SumUnfold
  <2>3. f[x] \in Int /\ g[x] \in Int /\ Cong(f[x], g[x])
    BY <2>2
  <2>4. s(f, U) \in Int /\ s(g, U) \in Int
    BY <2>1, SumType
  <2>5. Cong(s(f, U), s(g, U))
    BY <1>2
  <2>6. Cong(f[x] + s(f, U), g[x] + s(g, U))
    <3> HIDE DEF s, U, x
    <3> QED
      BY <2>3, <2>4, <2>5, CongAdd
  <2> QED
    BY <2>2, <2>6
<1>3. S \in G
  <2> HIDE DEF G
  <2> QED
    BY <1>1, <1>2, PickInduction
<1> QED
  BY <1>3

(***************************************************************************)
(* Points.                                                                 *)
(***************************************************************************)
LEMMA NegCong == ASSUME NEW x \in Zq PROVE Neg(x) \in Zq /\ Cong(Neg(x), -x)
<1>1. Order - x \in Int /\ x \in Int
  BY DEF Zq
<1>2. Neg(x) \in Zq /\ Cong(Neg(x), Order - x)
  BY <1>1, ModType, ModCong DEF Neg
<1>3. Order - x = -x + 1 * Order
  BY <1>1
<1>4. Cong(Order - x, -x)
  <2> DEFINE a == Order - x
             b == -x
  <2>1. a \in Int /\ b \in Int /\ 1 \in Int /\ a = b + 1 * Order
    BY <1>1, <1>3
  <2> HIDE DEF a, b
  <2>2. Cong(a, b)
    BY <2>1 DEF Cong
  <2> QED
    BY <2>2 DEF a, b
<1>5. Neg(x) \in Int
  BY <1>2 DEF Zq
<1> QED
  BY <1>1, <1>2, <1>4, <1>5, CongTrans

LEMMA ParityType == ASSUME NEW x PROVE ParityOf(x) \in {1, Order - 1} /\ ParityOf(x) \in Zq
BY DEF ParityOf, Zq

LEMMA LiftXCong ==
  ASSUME NEW x \in Zq
  PROVE  LiftX(x) \in Zq /\ Cong(LiftX(x), ParityOf(x) * x)
<1>1. x \in Int
  BY DEF Zq
<1>2. CASE HasEvenY(x)
  <2>1. LiftX(x) = x /\ ParityOf(x) * x = x
    BY <1>1, <1>2 DEF LiftX, ParityOf
  <2> QED
    BY <1>1, <2>1, CongRefl
<1>3. CASE ~HasEvenY(x)
  <2>1. LiftX(x) = Neg(x) /\ ParityOf(x) * x = (Order - 1) * x
    BY <1>3 DEF LiftX, ParityOf
  <2>2. -x = (Order - 1) * x + (-x) * Order
    BY <1>1
  <2>3. Cong(-x, (Order - 1) * x)
    BY <1>1, <2>2 DEF Cong
  <2>4. Neg(x) \in Zq /\ Cong(Neg(x), -x)
    BY NegCong
  <2>5. Neg(x) \in Int /\ -x \in Int /\ (Order - 1) * x \in Int
    BY <1>1, <2>4 DEF Zq
  <2>6. Cong(Neg(x), (Order - 1) * x)
    BY <2>3, <2>4, <2>5, CongTrans
  <2> QED
    BY <2>1, <2>4, <2>6
<1> QED
  BY <1>2, <1>3

LEMMA SignersFinite == IsFiniteSet(Signer)
BY FS_Interval DEF Signer

LEMMA SumOfCong ==
  ASSUME NEW f \in [Signer -> Int]
  PROVE  /\ SumFunctionOnSet(f, Signer) \in Int
         /\ SumOf(f) \in Zq /\ SumOf(f) \in Int
         /\ Cong(SumOf(f), SumFunctionOnSet(f, Signer))
<1>1. SumFunctionOnSet(f, Signer) \in Int
  BY SignersFinite, SumType
<1>2. SumOf(f) = SumFunctionOnSet(f, Signer) % Order
  BY DEF SumOf, SumFunction
<1> QED
  BY <1>1, <1>2, ModType, ModCong DEF Zq

(***************************************************************************)
(* The key: the output key of the address is the tweaked key.              *)
(***************************************************************************)
Weighted(coeffs) == [i \in Signer |-> coeffs[i] * sk[i]]

LEMMA AggregateKeyCong ==
  ASSUME TypeOK, NEW coeffs \in [Signer -> Zq]
  PROVE  /\ AggregateKey(coeffs) \in Zq
         /\ SumFunctionOnSet(Weighted(coeffs), Signer) \in Int
         /\ Cong(AggregateKey(coeffs), SumFunctionOnSet(Weighted(coeffs), Signer))
<1>1. Weighted(coeffs) \in [Signer -> Int]
  <2>1. \A i \in Signer : coeffs[i] \in Int /\ sk[i] \in Int
    BY DEF TypeOK, Zq
  <2> QED
    BY <2>1 DEF Weighted
<1>2. AggregateKey(coeffs) = SumOf(Weighted(coeffs))
  BY DEF AggregateKey, Weighted
<1> QED
  BY <1>1, <1>2, SumOfCong

\* The tweak of a key with no tweak yet.
LEMMA TweakedKey ==
  ASSUME TypeOK, kac.gacc = 1, kac.tacc = 0, internal.key = LiftX(kac.Q), NEW t \in Zq
  PROVE  /\ Tweaked(t) \in [Q : Zq, gacc : {1, Order - 1}, tacc : Zq, coeffs : [Signer -> Zq]]
         /\ Tweaked(t).coeffs = kac.coeffs
         /\ Tweaked(t).Q = (Tweaked(t).gacc * kac.Q + Tweaked(t).tacc) % Order
         /\ OutputKey(t) = Tweaked(t).Q
<1> DEFINE g == ParityOf(kac.Q)
           Q == kac.Q
<1>1. g \in {1, Order - 1} /\ g \in Zq /\ Q \in Zq /\ kac.coeffs \in [Signer -> Zq]
  BY ParityType DEF TypeOK
<1>2. g \in Int /\ Q \in Int /\ t \in Int
  BY <1>1 DEF Zq
<1>3. Tweaked(t) = [Q |-> (t + g * Q) % Order, gacc |-> g, tacc |-> t, coeffs |-> kac.coeffs]
  <2>1. kac = [Q |-> kac.Q, gacc |-> 1, tacc |-> 0, coeffs |-> kac.coeffs]
    BY DEF TypeOK
  <2>2. (g * 1) % Order = g /\ (t + g * 0) % Order = t
    <3>1. g * 1 = g /\ t + g * 0 = t
      BY <1>2
    <3> QED
      BY <1>1, <3>1, ModSelf
  <2> HIDE DEF g
  <2>3. Tweaked(t) = [kac EXCEPT !.Q = (t + g * @) % Order, !.gacc = (g * @) % Order,
                                 !.tacc = (t + g * @) % Order]
    BY DEF Tweaked, g
  <2> QED
    BY <2>1, <2>2, <2>3
<1>4. (t + g * Q) % Order \in Zq
  BY <1>2, ModType
<1>5. OutputKey(t) = (t + g * Q) % Order
  <2> DEFINE l == LiftX(Q)
             m == g * Q
  <2>1. l \in Int /\ m \in Int /\ Cong(l, m) /\ Cong(t, t)
    <3>1. l \in Zq /\ Cong(l, m) /\ Cong(t, t)
      BY <1>1, <1>2, LiftXCong, CongRefl
    <3> QED
      BY <1>2, <3>1 DEF Zq
  <2>2. Cong(l + t, m + t)
    <3> HIDE DEF l, m
    <3> QED
      BY <1>2, <2>1, CongAdd
  <2>3. (l + t) % Order = (m + t) % Order
    <3> HIDE DEF l, m
    <3> QED
      BY <1>2, <2>1, <2>2, ModEqual
  <2>4. g * Q + t = t + g * Q
    BY <1>2
  <2> QED
    BY <2>3, <2>4 DEF OutputKey
<1>6. (g * Q + t) % Order = (t + g * Q) % Order
  <2>1. g * Q + t = t + g * Q
    BY <1>2
  <2> QED
    BY <2>1
<1> HIDE DEF g
<1> QED
  BY <1>1, <1>3, <1>4, <1>5, <1>6

(***************************************************************************)
(* The session and the partial signatures.                                 *)
(***************************************************************************)
LEMMA ElementOf ==
  ASSUME NEW X, NEW s \in Seq(X), NEW i \in 1 .. Len(s)
  PROVE  s[i] \in X
OBVIOUS

\* The values of a session that has all its nonces.
LEMMA ValuesAreIntegers ==
  ASSUME TypeOK, Len(nonce) = n, NEW i \in Signer
  PROVE  /\ nonce[i].k1 \in Int /\ nonce[i].k2 \in Int
         /\ sk[i] \in Int /\ kac.coeffs[i] \in Int /\ kac.gacc \in Int /\ kac.tacc \in Int
         /\ ParityOf(kac.Q) \in Int
<1>1. nonce[i].k1 \in Int /\ nonce[i].k2 \in Int
  <2>1. nonce \in Seq([k1 : Zq \ {0}, k2 : Zq \ {0}]) /\ i \in 1 .. Len(nonce)
    BY DEF TypeOK, Signer
  <2>2. nonce[i] \in [k1 : Zq \ {0}, k2 : Zq \ {0}]
    BY <2>1, ElementOf
  <2> QED
    BY <2>2 DEF Zq
<1>2. sk[i] \in Zq /\ kac.coeffs[i] \in Zq /\ kac.gacc \in {1, Order - 1} /\ kac.tacc \in Zq
  BY DEF TypeOK
<1>3. ParityOf(kac.Q) \in Zq
  BY ParityType
<1> QED
  BY <1>1, <1>2, <1>3 DEF Zq

LEMMA SessionContextType ==
  ASSUME TypeOK, Len(nonce) = n, NEW b \in Zq, NEW e \in Zq
  PROVE  SessionContext(b, e) \in [b : Zq, e : Zq, R : Zq, negated : BOOLEAN]
<1>1. \A i \in Signer : nonce[i].k1 \in Int /\ nonce[i].k2 \in Int
  BY ValuesAreIntegers
<1>2. AggR1 \in Int /\ AggR2 \in Int
  BY <1>1, SumOfCong DEF AggR1, AggR2
<1>3. b \in Int /\ AggR1 + b * AggR2 \in Int
  BY <1>2 DEF Zq
<1>4. (AggR1 + b * AggR2) % Order \in Zq
  BY <1>3, ModType
<1>5. LiftX((AggR1 + b * AggR2) % Order) \in Zq
  BY <1>4, LiftXCong
<1> QED
  BY <1>5 DEF SessionContext, HasEvenY

LEMMA PartialSignType ==
  ASSUME TypeOK, Len(nonce) = n, NEW i \in Signer,
         NEW c \in [b : Zq, e : Zq, R : Zq, negated : BOOLEAN]
  PROVE  PartialSign(i, c) \in Zq
<1> DEFINE d == (ParityOf(kac.Q) * kac.gacc * sk[i]) % Order
           k == (nonce[i].k1 + c.b * nonce[i].k2) % Order
<1>1. /\ nonce[i].k1 \in Int /\ nonce[i].k2 \in Int /\ c.b \in Int /\ c.e \in Int
      /\ kac.gacc \in Int /\ kac.coeffs[i] \in Int /\ sk[i] \in Int /\ ParityOf(kac.Q) \in Int
  BY ValuesAreIntegers DEF Zq
<1>2. d \in Zq
  <2>1. ParityOf(kac.Q) * kac.gacc * sk[i] \in Int
    BY <1>1
  <2> QED
    BY <2>1, ModType
<1>3. k \in Zq
  <2>1. nonce[i].k1 + c.b * nonce[i].k2 \in Int
    BY <1>1
  <2> QED
    BY <2>1, ModType
<1>4. Neg(k) \in Zq
  BY <1>3, NegCong
<1>5. (IF c.negated THEN Neg(k) ELSE k) + c.e * kac.coeffs[i] * d \in Int
  <2>1. (IF c.negated THEN Neg(k) ELSE k) \in Int /\ d \in Int
    BY <1>2, <1>3, <1>4 DEF Zq
  <2> HIDE DEF d, k
  <2> QED
    BY <1>1, <2>1
<1> QED
  BY <1>5, ModType DEF PartialSign

(***************************************************************************)
(* The invariant, one lemma for each action.                               *)
(***************************************************************************)
Sessions == [b : Zq, e : Zq, R : Zq, negated : BOOLEAN]
NoncePair == [k1 : Zq \ {0}, k2 : Zq \ {0}]

LEMMA InitEstablishes == Init => SessionInv
<1> SUFFICES ASSUME Init PROVE SessionInv
  OBVIOUS
<1>1. SecretKeys \subseteq Zq \ {0} /\ 0 \in Zq /\ Order - 1 \in Zq
  BY ScalarsAssumption DEF Zq
<1>2. TypeOK
  BY <1>1 DEF Init, TypeOK
<1>3. KeyAccumulates /\ NoncesSoFar /\ SignaturesSoFar
  BY DEF Init, KeyAccumulates, NoncesSoFar, SignaturesSoFar, Keyed
<1> QED
  BY <1>2, <1>3 DEF SessionInv

LEMMA RaiseStep ==
  ASSUME SessionInv, psigs = <<>>, Raise
  PROVE  SessionInv'
<1>1. TypeOK'
  BY DEF SessionInv, Raise, TypeOK
<1>2. (KeyAccumulates /\ NoncesSoFar /\ SignaturesSoFar)'
  BY DEF Raise, KeyAccumulates, NoncesSoFar, SignaturesSoFar, Keyed
<1> QED
  BY <1>1, <1>2 DEF SessionInv

LEMMA KeyAggStep ==
  ASSUME SessionInv, KeyAgg
  PROVE  SessionInv'
<1>0. TypeOK /\ psigs = <<>> /\ nonce = <<>>
  BY DEF SessionInv, KeyAgg, SignaturesSoFar, NoncesSoFar
<1> DEFINE coeffs(h) == [i \in Signer |-> IF IsSecondUnique(i) THEN 1 ELSE h[sk[i]]]
<1>1. PICK h \in [{sk[i] : i \in Signer} -> Hashes] :
        \/ Raise
        \/ /\ kac' = [Q |-> AggregateKey(coeffs(h)), gacc |-> 1, tacc |-> 0,
                      coeffs |-> coeffs(h)]
           /\ internal' = [key |-> LiftX(AggregateKey(coeffs(h))), output |-> 0]
           /\ pc' = "tweak"
           /\ UNCHANGED <<sk, nonce, ctx, psigs>>
  BY DEF KeyAgg
<1>2. CASE Raise
  BY <1>0, <1>2, RaiseStep
<1>3. CASE ~Raise
  <2> DEFINE c == coeffs(h)
             key == AggregateKey(c)
  <2>1. c \in [Signer -> Zq]
    <3>1. 1 \in Zq
      BY DEF Zq
    <3>2. \A i \in Signer : h[sk[i]] \in Zq
      BY ScalarsAssumption
    <3> QED
      BY <3>1, <3>2
  <2>2. key \in Zq /\ LiftX(key) \in Zq /\ 0 \in Zq
    <3> HIDE DEF c
    <3> QED
      BY <1>0, <2>1, AggregateKeyCong, LiftXCong DEF Zq
  <2>3. /\ kac' = [Q |-> key, gacc |-> 1, tacc |-> 0, coeffs |-> c]
        /\ internal' = [key |-> LiftX(key), output |-> 0]
        /\ pc' = "tweak"
        /\ UNCHANGED <<sk, nonce, ctx, psigs>>
    BY <1>1, <1>3
  <2>4. key = AggregateKey(kac.coeffs)'
    <3> HIDE DEF c
    <3>1. kac'.coeffs = c /\ sk' = sk
      BY <2>3
    <3>2. AggregateKey(kac.coeffs)' = SumOf([i \in Signer |-> kac'.coeffs[i] * sk'[i]])
      BY DEF AggregateKey
    <3>3. key = SumOf([i \in Signer |-> c[i] * sk[i]])
      BY DEF AggregateKey
    <3> QED
      BY <3>1, <3>2, <3>3
  <2> HIDE DEF c, key
  <2>5. TypeOK'
    BY <1>0, <2>1, <2>2, <2>3 DEF TypeOK
  <2>6. KeyAccumulates'
    BY <2>3, <2>4 DEF KeyAccumulates, Keyed
  <2>7. NoncesSoFar' /\ SignaturesSoFar'
    BY <1>0, <2>3 DEF NoncesSoFar, SignaturesSoFar
  <2> QED
    BY <2>5, <2>6, <2>7 DEF SessionInv
<1> QED
  BY <1>2, <1>3

\* The steps after the tweak leave the key alone.
LEMMA KeyStays ==
  ASSUME KeyAccumulates, pc \in Keyed, pc' \in Keyed, UNCHANGED <<sk, kac, internal>>
  PROVE  KeyAccumulates'
<1>1. AggregateKey(kac.coeffs)' = AggregateKey(kac.coeffs)
  BY DEF AggregateKey
<1>2. pc # "tweak" /\ pc' # "tweak"
  BY DEF Keyed
<1> QED
  BY <1>1, <1>2 DEF KeyAccumulates

LEMMA ApplyTweakStep ==
  ASSUME SessionInv, ApplyTweak
  PROVE  SessionInv'
<1>0. /\ TypeOK /\ psigs = <<>> /\ nonce = <<>> /\ pc = "tweak"
      /\ kac.Q = AggregateKey(kac.coeffs) /\ kac.gacc = 1 /\ kac.tacc = 0
      /\ internal.key = LiftX(kac.Q)
  BY DEF SessionInv, ApplyTweak, SignaturesSoFar, NoncesSoFar, KeyAccumulates
<1>1. PICK t \in Hashes :
        \/ Raise
        \/ /\ kac' = Tweaked(t)
           /\ internal' = [internal EXCEPT !.output = OutputKey(t)]
           /\ pc' = "nonce"
           /\ UNCHANGED <<sk, nonce, ctx, psigs>>
  BY DEF ApplyTweak
<1>2. CASE Raise
  BY <1>0, <1>2, RaiseStep
<1>3. CASE ~Raise
  <2>0. t \in Zq
    BY ScalarsAssumption
  <2>1. /\ kac' = Tweaked(t)
        /\ internal' = [internal EXCEPT !.output = OutputKey(t)]
        /\ pc' = "nonce"
        /\ UNCHANGED <<sk, nonce, ctx, psigs>>
    BY <1>1, <1>3
  <2>2. /\ kac' \in [Q : Zq, gacc : {1, Order - 1}, tacc : Zq, coeffs : [Signer -> Zq]]
        /\ kac'.coeffs = kac.coeffs
        /\ kac'.Q = (kac'.gacc * kac.Q + kac'.tacc) % Order
        /\ OutputKey(t) = kac'.Q
    BY <1>0, <2>0, <2>1, TweakedKey
  <2>3. internal' = [key |-> internal.key, output |-> kac'.Q] /\ kac'.Q \in Zq
        /\ internal.key \in Zq
    BY <1>0, <2>1, <2>2 DEF TypeOK
  <2>4. AggregateKey(kac.coeffs)' = AggregateKey(kac.coeffs)
    <3>1. sk' = sk
      BY <2>1
    <3> QED
      BY <2>2, <3>1 DEF AggregateKey
  <2>5. TypeOK'
    BY <1>0, <2>1, <2>2, <2>3 DEF TypeOK
  <2>6. KeyAccumulates'
    BY <1>0, <2>1, <2>2, <2>3, <2>4 DEF KeyAccumulates
  <2>7. NoncesSoFar' /\ SignaturesSoFar'
    BY <1>0, <2>1 DEF NoncesSoFar, SignaturesSoFar
  <2> QED
    BY <2>5, <2>6, <2>7 DEF SessionInv
<1> QED
  BY <1>2, <1>3

LEMMA NonceGenStep ==
  ASSUME SessionInv, NonceGen
  PROVE  SessionInv'
<1>0. /\ TypeOK /\ KeyAccumulates /\ psigs = <<>> /\ pc = "nonce"
      /\ nonce \in Seq(NoncePair) /\ Len(nonce) < n
  BY DEF SessionInv, NonceGen, SignaturesSoFar, NoncesSoFar, TypeOK, NoncePair
<1>1. PICK k1 \in Nonces, k2 \in Nonces : nonce' = Append(nonce, [k1 |-> k1, k2 |-> k2])
  BY DEF NonceGen
<1>2. [k1 |-> k1, k2 |-> k2] \in NoncePair
  BY ScalarsAssumption DEF NoncePair
<1>3. /\ nonce' \in Seq(NoncePair) /\ Len(nonce') = Len(nonce) + 1
      /\ Len(nonce') <= n /\ Len(nonce) \in Nat
  <2> HIDE DEF NoncePair
  <2> QED
    BY <1>0, <1>1, <1>2
<1>4. /\ pc' = IF Len(nonce') = n THEN "compute" ELSE "nonce"
      /\ UNCHANGED <<sk, kac, internal, ctx, psigs>>
  BY DEF NonceGen
<1>5. TypeOK'
  BY <1>0, <1>3, <1>4 DEF TypeOK, NoncePair
<1>6. KeyAccumulates'
  BY <1>0, <1>4, KeyStays DEF Keyed
<1>7. NoncesSoFar'
  BY <1>3, <1>4 DEF NoncesSoFar
<1>8. SignaturesSoFar'
  BY <1>0, <1>4 DEF SignaturesSoFar
<1> QED
  BY <1>5, <1>6, <1>7, <1>8 DEF SessionInv

\* The session of b and e is the session of the two values it holds.
LEMMA SessionOfItself ==
  ASSUME NEW b, NEW e
  PROVE  LET c == SessionContext(b, e) IN c.b = b /\ c.e = e /\ c = SessionContext(c.b, c.e)
BY DEF SessionContext

LEMMA ComputeStep ==
  ASSUME SessionInv, Compute
  PROVE  SessionInv'
<1>0. /\ TypeOK /\ KeyAccumulates /\ psigs = <<>> /\ pc = "compute" /\ Len(nonce) = n
  BY DEF SessionInv, Compute, SignaturesSoFar, NoncesSoFar
<1>1. PICK b \in Hashes, e \in Hashes :
        \/ Raise
        \/ /\ ctx' = SessionContext(b, e)
           /\ pc' = "sign"
           /\ UNCHANGED <<sk, kac, internal, nonce, psigs>>
  BY DEF Compute
<1>2. CASE Raise
  BY <1>0, <1>2, RaiseStep
<1>3. CASE ~Raise
  <2>0. b \in Zq /\ e \in Zq
    BY ScalarsAssumption
  <2>1. /\ ctx' = SessionContext(b, e)
        /\ pc' = "sign"
        /\ UNCHANGED <<sk, kac, internal, nonce, psigs>>
    BY <1>1, <1>3
  <2>2. ctx' \in [b : Zq, e : Zq, R : Zq, negated : BOOLEAN]
    BY <1>0, <2>0, <2>1, SessionContextType
  <2>3. ctx' = SessionContext(ctx.b, ctx.e)'
    <3>1. ctx'.b = b /\ ctx'.e = e
      BY <2>1, SessionOfItself
    <3>2. SessionContext(ctx.b, ctx.e)' = SessionContext(ctx'.b, ctx'.e)
      BY <2>1 DEF SessionContext, AggR1, AggR2
    <3> QED
      BY <2>1, <3>1, <3>2
  <2>4. TypeOK'
    BY <1>0, <2>1, <2>2 DEF TypeOK
  <2>5. KeyAccumulates'
    BY <1>0, <2>1, KeyStays DEF Keyed
  <2>6. NoncesSoFar'
    BY <1>0, <2>1 DEF NoncesSoFar
  <2>7. SignaturesSoFar'
    BY <1>0, <2>1, <2>3 DEF SignaturesSoFar
  <2> QED
    BY <2>4, <2>5, <2>6, <2>7 DEF SessionInv
<1> QED
  BY <1>2, <1>3

LEMMA SignStep ==
  ASSUME SessionInv, Sign
  PROVE  SessionInv'
<1> DEFINE X == [s : Zq, own : BOOLEAN]
           i == Len(psigs) + 1
<1>0. /\ TypeOK /\ KeyAccumulates /\ pc = "sign" /\ Len(nonce) = n
      /\ ctx = SessionContext(ctx.b, ctx.e)
      /\ psigs \in Seq(X) /\ Len(psigs) < n
      /\ \A j \in DOMAIN psigs : psigs[j].own => psigs[j].s = PartialSign(j, ctx)
  BY DEF SessionInv, Sign, SignaturesSoFar, NoncesSoFar, TypeOK
<1>1. PICK b \in Hashes, e \in Hashes :
        psigs' = Append(psigs, [s |-> PartialSign(i, SessionContext(b, e)),
                                own |-> SessionContext(b, e) = ctx])
  BY DEF Sign
<1>2. /\ pc' = IF i = n THEN "done" ELSE "sign"
      /\ UNCHANGED <<sk, kac, internal, nonce, ctx>>
  BY DEF Sign
<1> DEFINE c == SessionContext(b, e)
           new == [s |-> PartialSign(i, c), own |-> c = ctx]
<1>3. i \in Signer /\ Len(psigs) \in Nat /\ i <= n
  <2> HIDE DEF X
  <2> QED
    BY <1>0 DEF Signer
<1>4. new \in X
  <2>1. b \in Zq /\ e \in Zq
    BY ScalarsAssumption
  <2>2. PartialSign(i, c) \in Zq
    <3>1. c \in Sessions
      BY <1>0, <2>1, SessionContextType DEF Sessions
    <3> HIDE DEF i, c
    <3> QED
      BY <1>0, <1>3, <3>1, PartialSignType DEF Sessions
  <2> HIDE DEF i, c
  <2> QED
    BY <2>2
<1>5. /\ psigs' \in Seq(X) /\ Len(psigs') = i
      /\ \A j \in DOMAIN psigs' : psigs'[j] = IF j = i THEN new ELSE psigs[j]
      /\ \A j \in DOMAIN psigs' : j # i => j \in DOMAIN psigs
  <2>1. psigs' = Append(psigs, new)
    BY <1>1
  <2> HIDE DEF X, new
  <2> QED
    BY <1>0, <1>3, <1>4, <2>1
<1>6. \A j : PartialSign(j, ctx)' = PartialSign(j, ctx)
  BY <1>2 DEF PartialSign
<1>7. SessionContext(ctx.b, ctx.e)' = SessionContext(ctx.b, ctx.e)
  BY <1>2 DEF SessionContext, AggR1, AggR2
<1>8. \A j \in DOMAIN psigs' : psigs'[j].own => psigs'[j].s = PartialSign(j, ctx)
  <2>1. new.own => new.s = PartialSign(i, ctx)
    <3> HIDE DEF i, c
    <3> QED
      OBVIOUS
  <2> HIDE DEF new, i
  <2> QED
    BY <1>0, <1>5, <2>1
<1>9. TypeOK'
  <2> HIDE DEF i
  <2> QED
    BY <1>0, <1>2, <1>3, <1>5 DEF TypeOK
<1>10. KeyAccumulates'
  BY <1>0, <1>2, KeyStays DEF Keyed
<1>11. NoncesSoFar'
  BY <1>0, <1>2 DEF NoncesSoFar
<1>12. SignaturesSoFar'
  <2>1. /\ pc' \in {"sign", "done"}
        /\ pc' = "sign" => Len(psigs') < n
        /\ pc' = "done" => Len(psigs') = n
    <3> HIDE DEF i
    <3> QED
      BY <1>2, <1>3, <1>5
  <2>2. \A j \in DOMAIN psigs' : psigs'[j].own => psigs'[j].s = PartialSign(j, ctx)'
    BY <1>6, <1>8
  <2>3. ctx' = SessionContext(ctx.b, ctx.e)'
    BY <1>0, <1>2, <1>7
  <2> QED
    BY <2>1, <2>2, <2>3 DEF SignaturesSoFar
<1> QED
  BY <1>9, <1>10, <1>11, <1>12 DEF SessionInv

LEMMA StutterStep ==
  ASSUME SessionInv, UNCHANGED vars
  PROVE  SessionInv'
<1>1. TypeOK' /\ NoncesSoFar'
  BY DEF vars, SessionInv, TypeOK, NoncesSoFar
<1>2. KeyAccumulates'
  BY DEF vars, SessionInv, KeyAccumulates, AggregateKey
<1>3. SignaturesSoFar'
  BY DEF vars, SessionInv, SignaturesSoFar, SessionContext, AggR1, AggR2, PartialSign
<1> QED
  BY <1>1, <1>2, <1>3 DEF SessionInv

THEOREM SessionInvariant == Spec => []SessionInv
<1>1. Init => SessionInv
  BY InitEstablishes
<1>2. SessionInv /\ [Next]_vars => SessionInv'
  BY KeyAggStep, ApplyTweakStep, NonceGenStep, ComputeStep, SignStep, StutterStep DEF Next
<1> QED
  BY <1>1, <1>2, PTL DEF Spec

\* The key the signers sign for is the key of the address.
THEOREM KeyIsOfTheAddress == Spec => []KeyMatchesAddress
<1>1. SessionInv => KeyMatchesAddress
  BY DEF SessionInv, KeyAccumulates, KeyMatchesAddress, Keyed
<1> QED
  BY <1>1, SessionInvariant, PTL

(***************************************************************************)
(* An honest signature is what partial_sig_verify computes.                *)
(***************************************************************************)
Sign1 == IF ctx.negated THEN -1 ELSE 1

LEMMA CommittedNonceCong ==
  ASSUME TypeOK, Len(nonce) = n, NEW i \in Signer
  PROVE  /\ CommittedNonce(i) \in Int
         /\ nonce[i].k1 + ctx.b * nonce[i].k2 \in Int
         /\ Cong(CommittedNonce(i), Sign1 * (nonce[i].k1 + ctx.b * nonce[i].k2))
<1> DEFINE k == nonce[i].k1 + ctx.b * nonce[i].k2
           R == k % Order
<1>1. k \in Int
  <2>1. nonce[i].k1 \in Int /\ nonce[i].k2 \in Int /\ ctx.b \in Int
    BY ValuesAreIntegers DEF TypeOK, Zq
  <2> QED
    BY <2>1
<1> HIDE DEF k
<1>2. R \in Zq /\ R \in Int /\ Cong(R, k) /\ Neg(R) \in Zq /\ Neg(R) \in Int /\ Cong(Neg(R), -R)
  <2>1. R \in Zq /\ Cong(R, k)
    BY <1>1, ModType, ModCong
  <2> HIDE DEF R
  <2>2. Neg(R) \in Zq /\ Cong(Neg(R), -R)
    BY <2>1, NegCong
  <2> QED
    BY <2>1, <2>2 DEF Zq
<1> HIDE DEF R
<1>3. CommittedNonce(i) = IF ctx.negated THEN Neg(R) ELSE R
  BY DEF CommittedNonce, R, k
<1>4. CASE ctx.negated
  <2>1. Sign1 * k = (-1) * k /\ (-1) * R = -R /\ (-1) * k \in Int /\ -R \in Int
    BY <1>1, <1>2, <1>4 DEF Sign1
  <2>2. Cong((-1) * R, (-1) * k)
    <3>1. \A m \in Int : Cong(m * R, m * k)
      BY <1>1, <1>2, CongMul
    <3> QED
      BY <3>1
  <2>3. Cong(Neg(R), (-1) * k)
    BY <1>2, <2>1, <2>2, CongTrans
  <2> QED
    BY <1>1, <1>2, <1>3, <1>4, <2>1, <2>3 DEF k
<1>5. CASE ~ctx.negated
  <2>1. Sign1 * k = k
    BY <1>1, <1>5 DEF Sign1
  <2> QED
    BY <1>1, <1>2, <1>3, <1>5, <2>1 DEF k
<1> QED
  BY <1>4, <1>5

LEMMA CommittedKeyCong ==
  ASSUME TypeOK, Len(nonce) = n, NEW i \in Signer
  PROVE  LET P == ParityOf(kac.Q) * kac.gacc * sk[i]
             A == ctx.e * kac.coeffs[i]
         IN  /\ CommittedKey(i) \in Int /\ P \in Int /\ A \in Int
             /\ Cong(CommittedKey(i), A * P)
<1> DEFINE p == ParityOf(kac.Q)
           g == kac.gacc
           x == sk[i]
           P == p * g * x
           A == ctx.e * kac.coeffs[i]
           f == A % Order
           K == (f * p * g * x) % Order
<1>1. p \in Int /\ g \in Int /\ x \in Int /\ A \in Int
  <2>1. ctx.e \in Int
    BY DEF TypeOK, Zq
  <2>2. p \in Int /\ g \in Int /\ x \in Int /\ kac.coeffs[i] \in Int
    BY ValuesAreIntegers
  <2> QED
    BY <2>1, <2>2
<1>2. CommittedKey(i) = K
  BY DEF CommittedKey
<1> HIDE DEF p, g, x, A
<1>3. P \in Int /\ f \in Zq /\ f \in Int /\ Cong(f, A)
  <2>1. P \in Int
    BY <1>1
  <2>2. f \in Zq /\ Cong(f, A)
    BY <1>1, ModType, ModCong
  <2> HIDE DEF f, P
  <2> QED
    BY <2>1, <2>2 DEF Zq
<1> HIDE DEF f
<1>4. f * p * g * x = P * f
  BY <1>1, <1>3
<1> HIDE DEF P
<1>5. P * f \in Int /\ P * A \in Int /\ P * A = A * P
  BY <1>1, <1>3
<1>6. K \in Zq /\ Cong(K, P * f)
  BY <1>4, <1>5, ModType, ModCong
<1>7. K \in Int
  <2> HIDE DEF K
  <2> QED
    BY <1>6 DEF Zq
<1>8. Cong(P * f, P * A)
  BY <1>1, <1>3, CongMul
<1>9. Cong(K, P * A)
  <2> HIDE DEF K
  <2> QED
    BY <1>5, <1>6, <1>7, <1>8, CongTrans
<1>10. P = ParityOf(kac.Q) * kac.gacc * sk[i] /\ A = ctx.e * kac.coeffs[i]
  BY DEF P, A, p, g, x
<1> HIDE DEF K
<1> QED
  BY <1>1, <1>2, <1>3, <1>5, <1>7, <1>9, <1>10

LEMMA HonestVerifies ==
  ASSUME SessionInv, NEW i \in DOMAIN psigs, psigs[i].own
  PROVE  PartialSigVerify(i)
<1> DEFINE P == ParityOf(kac.Q) * kac.gacc * sk[i]
           A == ctx.e * kac.coeffs[i]
           N == CommittedNonce(i)
           K == CommittedKey(i)
           d == P % Order
           y == A * d
<1>0. /\ TypeOK /\ Len(nonce) = n /\ i \in Signer
      /\ psigs[i].s = PartialSign(i, ctx)
  <2>1. TypeOK /\ SignaturesSoFar /\ NoncesSoFar
    BY DEF SessionInv
  <2>2. psigs # <<>>
    OBVIOUS
  <2>3. pc \in {"sign", "done"} /\ Len(nonce) = n /\ psigs[i].s = PartialSign(i, ctx)
    BY <2>1, <2>2 DEF SignaturesSoFar, NoncesSoFar
  <2>4. i \in Signer
    <3>1. psigs \in Seq([s : Zq, own : BOOLEAN]) /\ Len(psigs) <= n
      BY <2>1 DEF TypeOK
    <3> QED
      BY <3>1 DEF Signer
  <2> QED
    BY <2>1, <2>3, <2>4
<1>1. P \in Int /\ A \in Int /\ K \in Int /\ N \in Int /\ Cong(K, A * P)
  BY <1>0, CommittedKeyCong, CommittedNonceCong
<1>2. PartialSign(i, ctx) = (N + y) % Order
  BY DEF PartialSign, CommittedNonce
<1> HIDE DEF P, A, N, K
<1>3. d \in Int /\ Cong(d, P)
  <2>1. d \in Zq /\ Cong(d, P)
    BY <1>1, ModType, ModCong
  <2> QED
    BY <2>1 DEF Zq
<1> HIDE DEF d
<1>4. y \in Int /\ A * P \in Int /\ Cong(y, A * P)
  <2>1. Cong(A * d, A * P)
    BY <1>1, <1>3, CongMul
  <2> QED
    BY <1>1, <1>3, <2>1
<1> HIDE DEF y
<1>5. Cong(y, K)
  <2> DEFINE z == A * P
  <2>1. z \in Int /\ Cong(y, z) /\ Cong(K, z)
    BY <1>1, <1>4
  <2> HIDE DEF z
  <2>2. Cong(z, K)
    BY <1>1, <2>1, CongSym
  <2> QED
    BY <1>1, <1>4, <2>1, <2>2, CongTrans
<1>6. Cong(N + y, N + K)
  BY <1>1, <1>4, <1>5, CongRefl, CongAdd
<1>7. (N + y) % Order = (N + K) % Order
  BY <1>1, <1>4, <1>6, ModEqual
<1> QED
  BY <1>0, <1>2, <1>7 DEF PartialSigVerify, N, K

\* partial_sig_verify never rejects what an honest signer of the session sent.
THEOREM HonestIsNeverBlamed == Spec => []HonestNeverBlamed
<1>1. SessionInv => HonestNeverBlamed
  BY HonestVerifies DEF HonestNeverBlamed
<1> QED
  BY <1>1, SessionInvariant, PTL

(***************************************************************************)
(* The aggregate of signatures that verify is a signature of the output    *)
(* key.                                                                    *)
(***************************************************************************)
Expected == [i \in Signer |-> (CommittedNonce(i) + CommittedKey(i)) % Order]
Nonces1 == [i \in Signer |-> nonce[i].k1]
Nonces2 == [i \in Signer |-> nonce[i].k2]
Effective == [i \in Signer |-> nonce[i].k1 + ctx.b * nonce[i].k2]
Total(f) == SumFunctionOnSet(f, Signer)

\* What is left of the key in the sum: the coefficients and the secret keys.
KeyFactor == ctx.e * ParityOf(kac.Q) * kac.gacc

LEMMA DoneTypes ==
  ASSUME TypeOK, Len(nonce) = n
  PROVE  /\ ctx.e \in Int /\ ctx.b \in Int /\ ParityOf(kac.Q) \in Int /\ kac.gacc \in Int
         /\ kac.tacc \in Int /\ KeyFactor \in Int /\ Sign1 \in Int
         /\ Effective \in [Signer -> Int] /\ Weighted(kac.coeffs) \in [Signer -> Int]
         /\ Nonces1 \in [Signer -> Int] /\ Nonces2 \in [Signer -> Int]
         /\ Total(Effective) \in Int /\ Total(Weighted(kac.coeffs)) \in Int
         /\ Total(Nonces1) \in Int /\ Total(Nonces2) \in Int
<1>1. ctx.e \in Int /\ ctx.b \in Int /\ Sign1 \in Int
  BY DEF TypeOK, Zq, Sign1
<1>2. 1 \in Signer
  BY DEF Signer
<1>3. ParityOf(kac.Q) \in Int /\ kac.gacc \in Int /\ kac.tacc \in Int
  BY <1>2, ValuesAreIntegers
<1>4. KeyFactor \in Int
  BY <1>1, <1>3 DEF KeyFactor
<1>5. \A i \in Signer : /\ nonce[i].k1 \in Int /\ nonce[i].k2 \in Int
                        /\ nonce[i].k1 + ctx.b * nonce[i].k2 \in Int
                        /\ kac.coeffs[i] * sk[i] \in Int
  BY <1>1, ValuesAreIntegers
<1>6. Effective \in [Signer -> Int] /\ Nonces1 \in [Signer -> Int] /\ Nonces2 \in [Signer -> Int]
  BY <1>5 DEF Effective, Nonces1, Nonces2
<1>7. Weighted(kac.coeffs) \in [Signer -> Int]
  BY <1>5 DEF Weighted
<1>8. \A f \in [Signer -> Int] : Total(f) \in Int
  BY SumOfCong DEF Total
<1> QED
  BY <1>1, <1>3, <1>4, <1>6, <1>7, <1>8

\* The sum of the expected signatures: of the nonces, and of the keys.
LEMMA TotalExpected ==
  ASSUME TypeOK, Len(nonce) = n
  PROVE  /\ Expected \in [Signer -> Zq] /\ Total(Expected) \in Int
         /\ Cong(Total(Expected), Sign1 * Total(Effective)
                                    + KeyFactor * Total(Weighted(kac.coeffs)))
<1> DEFINE r == Effective
           w == Weighted(kac.coeffs)
           sr == [i \in Signer |-> Sign1 * r[i]]
           F == [i \in Signer |-> sr[i] + KeyFactor * w[i]]
<1>0. /\ Sign1 \in Int /\ KeyFactor \in Int /\ r \in [Signer -> Int] /\ w \in [Signer -> Int]
      /\ Total(r) \in Int /\ Total(w) \in Int
  BY DoneTypes
<1>1. ASSUME NEW i \in Signer
      PROVE  /\ Expected[i] \in Zq /\ Expected[i] \in Int /\ F[i] \in Int
             /\ Cong(Expected[i], F[i])
  <2> DEFINE N == CommittedNonce(i)
             K == CommittedKey(i)
             a == Sign1 * r[i]
             c == KeyFactor * w[i]
  <2>1. N \in Int /\ a \in Int /\ Cong(N, a)
    <3>1. N \in Int /\ Cong(N, Sign1 * (nonce[i].k1 + ctx.b * nonce[i].k2))
      BY CommittedNonceCong
    <3>2. r[i] = nonce[i].k1 + ctx.b * nonce[i].k2 /\ r[i] \in Int
      BY <1>0 DEF Effective
    <3> HIDE DEF N, r
    <3> QED
      BY <1>0, <3>1, <3>2
  <2>2. K \in Int /\ c \in Int /\ Cong(K, c)
    <3> DEFINE p == ParityOf(kac.Q)
               g == kac.gacc
               x == sk[i]
               e == ctx.e
               b == kac.coeffs[i]
    <3>1. p \in Int /\ g \in Int /\ x \in Int /\ e \in Int /\ b \in Int
      BY ValuesAreIntegers, DoneTypes
    <3>2. K \in Int /\ Cong(K, (e * b) * (p * g * x))
      BY CommittedKeyCong
    <3>3. w[i] = b * x /\ KeyFactor = e * p * g
      BY DEF Weighted, KeyFactor
    <3> HIDE DEF p, g, x, e, b, w, K
    <3>4. (e * b) * (p * g * x) = (e * p * g) * (b * x)
      BY <3>1
    <3>5. c = (e * b) * (p * g * x) /\ c \in Int
      BY <3>1, <3>3, <3>4
    <3> HIDE DEF c
    <3> QED
      BY <3>2, <3>5
  <2>3. Expected[i] = (N + K) % Order /\ F[i] = a + c
    BY DEF Expected
  <2> HIDE DEF N, K, a, c, F, r, w
  <2>4. Cong(N + K, a + c) /\ N + K \in Int /\ a + c \in Int
    BY <2>1, <2>2, CongAdd
  <2>5. Expected[i] \in Zq /\ Cong(Expected[i], N + K)
    BY <2>3, <2>4, ModType, ModCong
  <2>6. Expected[i] \in Int
    BY <2>5 DEF Zq
  <2>7. Cong(Expected[i], a + c)
    BY <2>4, <2>5, <2>6, CongTrans
  <2> QED
    BY <2>3, <2>4, <2>5, <2>6, <2>7
<1>2. Expected \in [Signer -> Zq] /\ Expected \in [Signer -> Int]
  BY <1>1 DEF Expected
<1>3. Total(Expected) \in Int /\ Cong(Total(Expected), Total(F))
  <2>1. Total(Expected) \in Int
    BY <1>2, SumOfCong DEF Total
  <2> HIDE DEF F
  <2> QED
    BY <1>1, <2>1, SignersFinite, SumCong DEF Total
<1>4. Total(F) = Sign1 * Total(r) + KeyFactor * Total(w)
  <2>1. \A i \in Signer : /\ r[i] \in Int /\ w[i] \in Int /\ sr[i] = Sign1 * r[i]
                          /\ sr[i] \in Int /\ F[i] = sr[i] + KeyFactor * w[i]
    <3> HIDE DEF r, w
    <3> QED
      BY <1>0
  <2> HIDE DEF F, sr, r, w
  <2>2. Total(sr) = Sign1 * Total(r)
    BY <1>0, <2>1, SignersFinite, SumScale DEF Total
  <2>3. Total(F) = Total(sr) + KeyFactor * Total(w)
    BY <1>0, <2>1, SignersFinite, SumLinear DEF Total
  <2> QED
    BY <2>2, <2>3
<1> QED
  BY <1>2, <1>3, <1>4

\* The nonce of the session, with the sign its parity gives it.
LEMMA SessionNonceCong ==
  ASSUME TypeOK, Len(nonce) = n, ctx = SessionContext(ctx.b, ctx.e)
  PROVE  ctx.R \in Int /\ Cong(ctx.R, Sign1 * Total(Effective))
<1> DEFINE r == Total(Effective)
           u == AggR1 + ctx.b * AggR2
           R == u % Order
<1>0. ctx.b \in Int /\ r \in Int /\ Total(Nonces1) \in Int /\ Total(Nonces2) \in Int
      /\ Nonces1 \in [Signer -> Int] /\ Nonces2 \in [Signer -> Int]
      /\ Effective \in [Signer -> Int]
  BY DoneTypes
<1>1. /\ AggR1 \in Int /\ AggR2 \in Int
      /\ Cong(AggR1, Total(Nonces1)) /\ Cong(AggR2, Total(Nonces2))
  <2>1. AggR1 = SumOf(Nonces1) /\ AggR2 = SumOf(Nonces2)
    BY DEF AggR1, AggR2, Nonces1, Nonces2
  <2> QED
    BY <1>0, <2>1, SumOfCong DEF Total
<1>2. r = Total(Nonces1) + ctx.b * Total(Nonces2)
  <2>1. \A i \in Signer : /\ Nonces1[i] \in Int /\ Nonces2[i] \in Int
                          /\ Effective[i] = Nonces1[i] + ctx.b * Nonces2[i]
    <3>1. \A i \in Signer : Nonces1[i] \in Int /\ Nonces2[i] \in Int
      BY <1>0
    <3>2. \A i \in Signer : Effective[i] = Nonces1[i] + ctx.b * Nonces2[i]
      BY DEF Effective, Nonces1, Nonces2
    <3> QED
      BY <3>1, <3>2
  <2> QED
    BY <1>0, <2>1, SignersFinite, SumLinear DEF Total
<1>3. u \in Int /\ Cong(u, r)
  <2> DEFINE x == ctx.b * AggR2
             y == ctx.b * Total(Nonces2)
  <2>1. Cong(x, y)
    BY <1>0, <1>1, CongMul
  <2>2. x \in Int /\ y \in Int
    BY <1>0, <1>1
  <2> HIDE DEF x, y
  <2>3. Cong(AggR1 + x, Total(Nonces1) + y)
    BY <1>0, <1>1, <2>1, <2>2, CongAdd
  <2>4. AggR1 + x \in Int
    BY <1>1, <2>2
  <2> QED
    BY <1>2, <2>3, <2>4 DEF x, y
<1> HIDE DEF u, r
<1>4. R \in Zq /\ R \in Int /\ Cong(R, r)
  <2>1. R \in Zq /\ Cong(R, u)
    BY <1>3, ModType, ModCong
  <2>2. R \in Int
    BY <2>1 DEF Zq
  <2> HIDE DEF R
  <2> QED
    BY <1>0, <1>3, <2>1, <2>2, CongTrans
<1>5. ctx.R = LiftX(R) /\ ctx.negated = ~HasEvenY(R)
  BY DEF SessionContext, R, u
<1> HIDE DEF R
<1>6. CASE HasEvenY(R)
  <2>0. ctx.R = R /\ Sign1 = 1
    BY <1>5, <1>6 DEF LiftX, Sign1
  <2>1. ctx.R = R /\ Sign1 * r = r
    BY <1>0, <2>0
  <2> QED
    BY <1>4, <2>1 DEF r
<1>7. CASE ~HasEvenY(R)
  <2>1. ctx.R = Neg(R) /\ Sign1 = -1
    BY <1>5, <1>7 DEF LiftX, Sign1
  <2>2. Neg(R) \in Zq /\ Cong(Neg(R), -R)
    BY <1>4, NegCong
  <2>3. Neg(R) \in Int /\ -R \in Int /\ (-1) * R = -R /\ (-1) * r \in Int
    <3>1. Neg(R) \in Int
      BY <2>2 DEF Zq
    <3> QED
      BY <1>0, <1>4, <3>1
  <2>4. Cong((-1) * R, (-1) * r)
    <3>1. \A m \in Int : Cong(m * R, m * r)
      BY <1>0, <1>4, CongMul
    <3> QED
      BY <3>1
  <2>5. Cong(Neg(R), (-1) * r)
    BY <2>2, <2>3, <2>4, CongTrans
  <2> QED
    BY <2>1, <2>3, <2>5 DEF r
<1> QED
  BY <1>6, <1>7

\* What BIP-340 wants of a signature of the output key, and what the expected
\* signatures and the tweak add up to.
Wanted == ctx.R + ctx.e * LiftX(internal.output)
TweakPart == ctx.e * ParityOf(kac.Q) * kac.tacc

LEMMA ExpectedIsWanted ==
  ASSUME SessionInv, pc = "done"
  PROVE  /\ Expected \in [Signer -> Zq] /\ Total(Expected) \in Int
         /\ TweakPart \in Int /\ Wanted \in Int
         /\ Cong(Total(Expected) + TweakPart, Wanted)
<1> DEFINE e == ctx.e
           p == ParityOf(kac.Q)
           g == kac.gacc
           t == kac.tacc
           Q == kac.Q
           W == Total(Weighted(kac.coeffs))
           k == AggregateKey(kac.coeffs)
           sr == Sign1 * Total(Effective)
           L == LiftX(Q)
<1>0. /\ TypeOK /\ Len(nonce) = n /\ ctx = SessionContext(ctx.b, ctx.e)
      /\ Q = (g * k + t) % Order /\ internal.output = Q /\ Q \in Zq
      /\ kac.coeffs \in [Signer -> Zq]
  BY DEF SessionInv, KeyAccumulates, NoncesSoFar, SignaturesSoFar, Keyed, TypeOK
<1>1. /\ e \in Int /\ p \in Int /\ g \in Int /\ t \in Int /\ W \in Int /\ sr \in Int
      /\ KeyFactor = e * p * g /\ Q \in Int
  <2>1. Sign1 \in Int /\ Total(Effective) \in Int
    BY <1>0, DoneTypes
  <2>2. e \in Int /\ p \in Int /\ g \in Int /\ t \in Int /\ W \in Int
    BY <1>0, DoneTypes
  <2> QED
    BY <1>0, <2>1, <2>2 DEF KeyFactor, Zq
<1>2. k \in Int /\ Cong(k, W)
  <2>1. k \in Zq /\ Cong(k, W)
    BY <1>0, AggregateKeyCong DEF Total
  <2> HIDE DEF k
  <2> QED
    BY <2>1 DEF Zq
<1>3. L \in Int /\ Cong(L, p * Q)
  <2>1. L \in Zq /\ Cong(L, p * Q)
    BY <1>0, LiftXCong
  <2> QED
    BY <2>1 DEF Zq
<1>4. ctx.R \in Int /\ Cong(ctx.R, sr)
  BY <1>0, SessionNonceCong
<1>5. /\ Expected \in [Signer -> Zq] /\ Total(Expected) \in Int
      /\ Cong(Total(Expected), sr + KeyFactor * W)
  BY <1>0, TotalExpected
<1>6. TweakPart = e * p * t /\ Wanted = ctx.R + e * L
  BY <1>0 DEF TweakPart, Wanted
<1> HIDE DEF e, p, g, t, Q, W, k, sr, L
<1> DEFINE v == g * k + t
           w == g * W + t
<1>7. v \in Int /\ w \in Int /\ Cong(v, w)
  <2>1. Cong(g * k, g * W) /\ g * k \in Int /\ g * W \in Int /\ Cong(t, t)
    <3>1. Cong(g * k, g * W)
      BY <1>1, <1>2, CongMul
    <3> QED
      BY <1>1, <1>2, <3>1, CongRefl
  <2> DEFINE x == g * k
             y == g * W
  <2>2. x \in Int /\ y \in Int /\ Cong(x, y)
    BY <2>1
  <2> HIDE DEF x, y
  <2>3. Cong(x + t, y + t) /\ x + t \in Int /\ y + t \in Int
    BY <1>1, <2>1, <2>2, CongAdd
  <2> QED
    BY <2>3 DEF x, y
<1>8. Cong(Q, w)
  <2> HIDE DEF w
  <2>1. Cong(Q, v)
    <3> HIDE DEF v
    <3> QED
      BY <1>0, <1>7, ModCong DEF v
  <2> HIDE DEF v
  <2> QED
    BY <1>1, <1>7, <2>1, CongTrans
<1> HIDE DEF v, w
<1>9. Cong(L, p * w) /\ p * w \in Int /\ p * Q \in Int
  <2>1. Cong(p * Q, p * w)
    BY <1>1, <1>7, <1>8, CongMul
  <2>2. p * w \in Int /\ p * Q \in Int
    BY <1>1, <1>7
  <2> DEFINE x == p * Q
             y == p * w
  <2>3. x \in Int /\ y \in Int /\ Cong(x, y) /\ Cong(L, x)
    BY <1>3, <2>1, <2>2
  <2> HIDE DEF x, y
  <2>4. Cong(L, y)
    BY <1>3, <2>3, CongTrans
  <2> QED
    BY <2>2, <2>4 DEF y
<1>10. Cong(e * L, e * (p * w)) /\ e * L \in Int /\ e * (p * w) \in Int
  <2>1. Cong(e * L, e * (p * w))
    BY <1>1, <1>3, <1>9, CongMul
  <2> QED
    BY <1>1, <1>3, <1>9, <2>1
<1> DEFINE a == e * L
           b == e * (p * w)
           c == KeyFactor * W
<1>11. Wanted \in Int /\ Cong(Wanted, sr + b) /\ sr + b \in Int
  <2>1. a \in Int /\ b \in Int /\ Cong(a, b)
    BY <1>10
  <2> HIDE DEF a, b
  <2>2. ctx.R + a \in Int /\ sr + b \in Int
    BY <1>1, <1>4, <2>1
  <2>3. Cong(ctx.R + a, sr + b)
    BY <1>1, <1>4, <2>1, CongAdd
  <2> QED
    BY <1>6, <2>2, <2>3 DEF a
<1>12. TweakPart \in Int /\ KeyFactor * W \in Int
  BY <1>1, <1>6
<1>13. (sr + c) + TweakPart = sr + b
  <2>1. e * (p * (g * W + t)) = e * p * g * W + e * p * t
    BY <1>1
  <2>2. b = KeyFactor * W + TweakPart
    BY <1>1, <1>6, <2>1 DEF w
  <2> HIDE DEF b
  <2> QED
    BY <1>1, <1>12, <2>2
<1>14. Cong(Total(Expected) + TweakPart, sr + b)
  <2>1. c \in Int /\ Cong(Total(Expected), sr + c) /\ Cong(TweakPart, TweakPart)
    BY <1>5, <1>12, CongRefl
  <2> HIDE DEF b, c
  <2>2. Cong(Total(Expected) + TweakPart, (sr + c) + TweakPart)
    <3>1. sr + c \in Int
      BY <1>1, <2>1
    <3> QED
      BY <1>5, <1>12, <2>1, <3>1, CongAdd
  <2> QED
    BY <1>13, <2>2
<1>15. Cong(Total(Expected) + TweakPart, Wanted)
  <2> HIDE DEF b
  <2>1. Cong(sr + b, Wanted)
    BY <1>11, CongSym
  <2>2. Total(Expected) + TweakPart \in Int
    BY <1>5, <1>12
  <2> QED
    BY <1>11, <1>14, <2>1, <2>2, CongTrans
<1> QED
  BY <1>5, <1>11, <1>12, <1>15

\* What PartialSigAgg computes, before the remainder.
LEMMA AggregateCong ==
  ASSUME SessionInv, pc = "done"
  PROVE  LET s == [i \in Signer |-> psigs[i].s] IN
         /\ s \in [Signer -> Zq] /\ Total(s) \in Int
         /\ SchnorrVerify(PartialSigAgg(psigs)) <=> Cong(Total(s) + TweakPart, Wanted)
<1> DEFINE s == [i \in Signer |-> psigs[i].s]
           S == SumOf(s)
<1>0. TypeOK /\ Len(psigs) = n /\ TweakPart \in Int /\ Wanted \in Int
  BY ExpectedIsWanted DEF SessionInv, SignaturesSoFar
<1>1. s \in [Signer -> Zq] /\ s \in [Signer -> Int]
  <2>1. \A i \in Signer : psigs[i].s \in Zq
    <3> SUFFICES ASSUME NEW i \in Signer PROVE psigs[i].s \in Zq
      OBVIOUS
    <3>1. psigs \in Seq([s : Zq, own : BOOLEAN]) /\ i \in 1 .. Len(psigs)
      BY <1>0 DEF TypeOK, Signer
    <3>2. psigs[i] \in [s : Zq, own : BOOLEAN]
      BY <3>1, ElementOf
    <3> QED
      BY <3>2
  <2>2. s \in [Signer -> Zq]
    BY <2>1
  <2> HIDE DEF s
  <2> QED
    BY <2>2 DEF Zq
<1>2. PartialSigAgg(psigs) = (S + TweakPart) % Order
  BY DEF PartialSigAgg, TweakPart
<1>3. SchnorrVerify(PartialSigAgg(psigs)) <=> PartialSigAgg(psigs) = Wanted % Order
  BY DEF SchnorrVerify, Wanted
<1> HIDE DEF s
<1>4. Total(s) \in Int /\ S \in Int /\ Cong(S, Total(s))
  BY <1>1, SumOfCong DEF Total
<1> HIDE DEF S
<1> DEFINE x == S + TweakPart
           y == Total(s) + TweakPart
<1>5. x \in Int /\ y \in Int /\ Cong(x, y) /\ Cong(y, x)
  <2>1. x \in Int /\ y \in Int
    BY <1>0, <1>4
  <2>2. Cong(TweakPart, TweakPart)
    BY <1>0, CongRefl
  <2>3. Cong(x, y)
    BY <1>0, <1>4, <2>2, CongAdd
  <2> HIDE DEF x, y
  <2> QED
    BY <2>1, <2>3, CongSym
<1> HIDE DEF x, y
<1>6. (x % Order = Wanted % Order) <=> Cong(x, Wanted)
  BY <1>0, <1>5, ModEqual
<1>7. Cong(x, Wanted) <=> Cong(y, Wanted)
  BY <1>0, <1>5, CongTrans
<1>8. SchnorrVerify(PartialSigAgg(psigs)) <=> Cong(y, Wanted)
  BY <1>2, <1>3, <1>6, <1>7 DEF x
<1> QED
  BY <1>1, <1>4, <1>8 DEF s, y

LEMMA BlameExact ==
  ASSUME SessionInv, pc = "done"
  PROVE  LET rejected == {i \in Signer : ~PartialSigVerify(i)}
         IN  /\ rejected = {} => SchnorrVerify(PartialSigAgg(psigs))
             /\ Cardinality(rejected) = 1 => ~SchnorrVerify(PartialSigAgg(psigs))
<1> DEFINE s == [i \in Signer |-> psigs[i].s]
           v == Expected
           rejected == {i \in Signer : ~PartialSigVerify(i)}
           ok == SchnorrVerify(PartialSigAgg(psigs))
<1>1. /\ s \in [Signer -> Zq] /\ Total(s) \in Int
      /\ ok <=> Cong(Total(s) + TweakPart, Wanted)
  BY AggregateCong
<1>2. /\ v \in [Signer -> Zq] /\ Total(v) \in Int
      /\ TweakPart \in Int /\ Wanted \in Int
      /\ Cong(Total(v) + TweakPart, Wanted)
  BY ExpectedIsWanted
<1>3. \A i \in Signer : i \in rejected <=> s[i] # v[i]
  BY DEF PartialSigVerify, Expected
<1>4. rejected \in SUBSET Signer
  OBVIOUS
<1> HIDE DEF s, v, rejected, ok
<1>5. \A i \in Signer : s[i] \in Int /\ v[i] \in Int
  BY <1>1, <1>2 DEF Zq
<1>6. ASSUME rejected = {} PROVE ok
  <2>1. Total(s) = Total(v)
    BY <1>3, <1>6, SignersFinite, SumSame DEF Total
  <2> QED
    BY <1>1, <1>2, <2>1
<1>7. ASSUME Cardinality(rejected) = 1, ok PROVE FALSE
  <2>1. PICK j : rejected = {j}
    <3>1. IsFiniteSet(rejected)
      BY <1>4, SignersFinite, FS_Subset
    <3> QED
      BY <1>7, <3>1, FS_Singleton
  <2>2. j \in Signer /\ s[j] # v[j] /\ \A i \in Signer \ {j} : s[i] = v[i]
    BY <1>3, <1>4, <2>1
  <2> DEFINE d == s[j] - v[j]
  <2>3. Total(s) = Total(v) + d
    BY <1>5, <2>2, SignersFinite, SumChanged DEF Total
  <2>4. d \in Int /\ v[j] \in Int /\ s[j] \in Int /\ s[j] = v[j] + d
    BY <1>5, <2>2
  <2> HIDE DEF d
  <2>5. PICK k \in Int : Total(s) + TweakPart = Wanted + k * Order
    BY <1>1, <1>7 DEF Cong
  <2>6. PICK l \in Int : Total(v) + TweakPart = Wanted + l * Order
    BY <1>2 DEF Cong
  <2>7. k - l \in Int /\ s[j] = v[j] + (k - l) * Order
    <3>1. \A a, b, u, w \in Int :
            a + u = w + k * Order /\ b + u = w + l * Order => a - b = (k - l) * Order
      OBVIOUS
    <3>2. Total(s) - Total(v) = (k - l) * Order
      BY <1>1, <1>2, <2>5, <2>6, <3>1
    <3>3. (k - l) * Order \in Int /\ k - l \in Int
      OBVIOUS
    <3> QED
      BY <1>1, <1>2, <2>3, <2>4, <3>2, <3>3
  <2>8. Cong(s[j], v[j])
    BY <2>7 DEF Cong
  <2>9. s[j] = v[j]
    BY <1>1, <1>2, <2>2, <2>8, CongEqual
  <2> QED
    BY <2>2, <2>9
<1> QED
  BY <1>6, <1>7 DEF rejected, ok

\* partial_sig_verify tells the coordinator whom to ask again.
THEOREM BlameIsExactAlways == Spec => []BlameIsExact
<1>1. SessionInv => BlameIsExact
  BY BlameExact DEF BlameIsExact
<1> QED
  BY <1>1, SessionInvariant, PTL

\* When everyone signed this session's message, the aggregate spends the output.
THEOREM HonestSessionsVerify == Spec => []HonestSessionVerifies
<1>1. SessionInv => HonestSessionVerifies
  <2> SUFFICES ASSUME SessionInv, pc = "done", \A i \in Signer : psigs[i].own
               PROVE  SchnorrVerify(PartialSigAgg(psigs))
    BY DEF HonestSessionVerifies
  <2>1. Signer = DOMAIN psigs
    BY DEF SessionInv, SignaturesSoFar, TypeOK, Signer
  <2>2. {i \in Signer : ~PartialSigVerify(i)} = {}
    BY <2>1, HonestVerifies
  <2> QED
    BY <2>2, BlameExact
<1> QED
  BY <1>1, SessionInvariant, PTL
==============================================================================
