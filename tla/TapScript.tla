------------------------------ MODULE TapScript ------------------------------
(***************************************************************************)
(* The two leaf scripts of a round (tanda/protocol.py), the witnesses that *)
(* spend them, and the script machine of a node that runs one against the  *)
(* other.                                                                  *)
(*                                                                         *)
(* Scripts are bytes, as the code writes them and the node reads them.     *)
(* Keys, hashes and preimages may be shorter than 32 bytes; a signature is *)
(* a marker, the input it signs and the key.  A tapleaf hash is abstracted *)
(* to a number, since the commitment only orders two of them.              *)
(***************************************************************************)
EXTENDS Integers, Sequences, FiniteSets, SequencesExt

CONSTANTS
  Keys,               \* the x-only keys of the participants, in sorted order
  Preimages,          \* byte strings; the round's secret is one of them
  TRefunds,           \* values of t_refund
  TClaim,             \* t_claim, which no script and no transaction has
  KMins,              \* values of k_min
  Inputs              \* the inputs of the spending transaction

Byte == 0 .. 255
MaxNumber == 2147483647    \* bound: t_refund and k_min have four bytes

\* A node's stack has room for 1000 elements, all signatures and a key.
ASSUME ScriptAssumption ==
  /\ Keys \in Seq(Seq(Byte)) /\ Keys # <<>> /\ Len(Keys) <= 999
  /\ \A p \in 1 .. Len(Keys) : Keys[p] # <<>> /\ Len(Keys[p]) <= 75
  /\ Preimages # {} /\ Preimages \subseteq Seq(Byte)
  /\ \A x \in Preimages : x # <<>> /\ Len(x) <= 75
  /\ TRefunds \subseteq 0 .. MaxNumber /\ KMins \subseteq 0 .. MaxNumber /\ KMins # {}
  /\ Inputs \subseteq Nat /\ TClaim \in Nat

Participant == 1 .. Len(Keys)

OP_0 == 0              OP_1 == 81            OP_DROP == 117
OP_EQUAL == 135        OP_NUMEQUAL == 156    OP_SHA256 == 168
OP_CHECKSIG == 172     OP_CHECKSIGVERIFY == 173
OP_CSV == 178          OP_CHECKSIGADD == 186

VARIABLES
  spend,              \* what is attempted: see Spend
  script,             \* the script that is revealed
  sequence,           \* the nSequence field of the input
  stack,              \* the stack, its top last
  ip,                 \* position of the next instruction
  res                 \* "new", "run", "accept", "fail" (the node), "raised" (the code)

scriptVars == <<spend, script, sequence, stack, ip, res>>

\* The leaf and who signs it, for which input; the round's winner, secret and
\* parameters; the preimage held; the confirmations of the output; the code that
\* spends leaf 1 (the method checks the preimage first, the HTTP handler does not);
\* the order of the two leaf hashes.
Spend == [leaf : {1, 2}, signers : SUBSET Participant, signedFor : Inputs, input : Inputs,
          winner : Participant, secret : Preimages, t : TRefunds, k : KMins,
          preimage : Preimages, age : Nat, by : {"method", "handler"}, leaf1First : BOOLEAN]

ScriptTypeOK ==
  /\ spend \in Spend
  /\ script \in Seq(Byte)
  /\ sequence \in Nat
  /\ stack \in Seq(Seq(Nat))
  /\ ip \in 1 .. Len(script) + 1
  /\ res \in {"new", "run", "accept", "fail", "raised"}

Blank(s) == /\ spend = s
            /\ script = <<>> /\ stack = <<>> /\ sequence = 0 /\ ip = 1
            /\ res = "new"

InitHtlc ==
  \E signers \in SUBSET Participant, i \in Inputs, w \in Participant,
     x, y \in Preimages, t \in TRefunds, age \in {0, TClaim},
     by \in {"method", "handler"}, b \in BOOLEAN :
    /\ Cardinality(signers) < 2
    /\ \A u \in TRefunds : t <= u
    /\ Blank([leaf |-> 1, signers |-> signers, signedFor |-> i, input |-> i,
              winner |-> w, secret |-> x, t |-> t, k |-> CHOOSE k \in KMins : TRUE,
              preimage |-> y, age |-> age, by |-> by, leaf1First |-> b])

\* The sequence field has room for 16 bits.
CsvSequence(t) == t % 65536

\* An output is a block too young or old enough, for t and for what is left of it.
InitRefund ==
  \E signers \in SUBSET Participant, i, j \in Inputs, t \in TRefunds, k \in KMins,
     late \in {-1, 0, 1}, b \in BOOLEAN : \E age \in {t + late, CsvSequence(t) + late} :
    /\ age >= 0
    /\ LET x == CHOOSE p \in Preimages : TRUE
       IN  Blank([leaf |-> 2, signers |-> signers, signedFor |-> i, input |-> j,
                  winner |-> 1, secret |-> x, t |-> t, k |-> k,
                  preimage |-> x, age |-> age, by |-> "handler", leaf1First |-> b])

ScriptInit == InitHtlc \/ InitRefund

------------------------------------------------------------------------------
(* What the code builds *)

\* The powers of 256 below MaxNumber.
Weight == <<1, 256, 65536, 16777216>>

\* Little-endian, as many bytes as it takes.
LittleEndian(x) ==
  LET len == CHOOSE i \in 1 .. 4 : x \div Weight[i] \in 1 .. 255
  IN  [i \in 1 .. len |-> (x \div Weight[i]) % 256]

\* A clear sign bit: no caller pushes a negative number.
ScriptNum(x) ==
  LET b == LittleEndian(x)
  IN  IF Last(b) >= 128 THEN Append(b, 0) ELSE b

PushBytes(data) == IF data = <<>> THEN <<OP_0>> ELSE <<Len(data)>> \o data

\* A mutant: no byte is added to keep the sign bit clear.
MutPushInt(x) ==
  IF x = 0 THEN <<OP_0>>
  ELSE IF x <= 16 THEN <<OP_1 + x - 1>>
  ELSE PushBytes(LittleEndian(x))

PushInt(x) ==
  IF x = 0 THEN <<OP_0>>
  ELSE IF x <= 16 THEN <<OP_1 + x - 1>>
  ELSE PushBytes(ScriptNum(x))

\* SHA-256, as far as it matters: a different string for a different preimage.
Sha256(x) == [i \in DOMAIN x |-> (x[i] + 1) % 256]

HtlcScript(winner, hash) ==
  PushBytes(Keys[winner]) \o <<OP_CHECKSIGVERIFY>> \o <<OP_SHA256>>
    \o PushBytes(hash) \o <<OP_EQUAL>>

\* The checks of all keys after the first p.
ChecksAfter[p \in Participant] ==
  IF p = Len(Keys) THEN <<>>
  ELSE PushBytes(Keys[p + 1]) \o <<OP_CHECKSIGADD>> \o ChecksAfter[p + 1]

Threshold(k) == PushInt(k) \o <<OP_NUMEQUAL>>

RefundScript(t, k) ==
  PushInt(t) \o <<OP_CSV>> \o <<OP_DROP>>
    \o PushBytes(Keys[1]) \o <<OP_CHECKSIG>> \o ChecksAfter[1] \o Threshold(k)

\* A mutant: the secret is looked up at the wrong end of the witness.
MutHtlcWitness(sig, preimage) == <<sig, preimage>>

HtlcWitness(sig, preimage) == <<preimage, sig>>

\* A mutant: the signatures are in the order of the keys.
MutRefundWitness(sigs) == sigs

RefundWitness(sigs) == Reverse(sigs)

Signature(key, input) == <<255, input>> \o key

\* The method of Participant finds the hash behind the first byte 0xA8.
DeriveHtlcHash(s) ==
  LET at == CHOOSE i \in DOMAIN s : s[i] = OP_SHA256 /\ \A j \in 1 .. i - 1 : s[j] # OP_SHA256
  IN  SubSeq(s, at + 2, IF at + 1 + s[at + 1] < Len(s) THEN at + 1 + s[at + 1] ELSE Len(s))

TapBranch(left, right) == IF left > right THEN <<right, left>> ELSE <<left, right>>

\* The node's root, from the revealed leaf and the sibling in the control block,
\* is the root the output commits to.  The node sorts the two, whatever the code does.
Committed ==
  LET l1 == IF spend.leaf1First THEN 1 ELSE 2
      l2 == 3 - l1
  IN  TapBranch(l1, l2) = <<1, 2>>

Prepared(s, seq, witness) ==
  /\ script' = s
  /\ sequence' = seq
  /\ stack' = witness
  /\ res' = IF Committed THEN "run" ELSE "fail"
  /\ UNCHANGED <<spend, ip>>

\* The signature of a single key, or none.
HtlcSignature == IF spend.signers = {} THEN <<>>
                 ELSE Signature(Keys[CHOOSE p \in spend.signers : TRUE], spend.signedFor)

HtlcAttempt(s) == Prepared(s, 65533, HtlcWitness(HtlcSignature, spend.preimage))

LeafOne == HtlcScript(spend.winner, Sha256(spend.secret))

\* claim_htlc of Participant refuses a preimage that is not the script's.
ClaimHtlcMethod ==
  /\ res = "new" /\ spend.leaf = 1 /\ spend.by = "method"
  /\ IF Sha256(spend.preimage) # DeriveHtlcHash(LeafOne)
     THEN res' = "raised" /\ UNCHANGED <<spend, script, sequence, stack, ip>>
     ELSE HtlcAttempt(LeafOne)

\* The handler of POST /claim_htlc does not look.
ClaimHtlcHandler ==
  /\ res = "new" /\ spend.leaf = 1 /\ spend.by = "handler"
  /\ HtlcAttempt(LeafOne)

Signatures == [p \in Participant |->
                 IF p \in spend.signers THEN Signature(Keys[p], spend.signedFor) ELSE <<>>]

\* build_refund_tx, sign_refund by each signer, broadcast_refund.
BroadcastRefund ==
  /\ res = "new" /\ spend.leaf = 2
  /\ Prepared(RefundScript(spend.t, spend.k), CsvSequence(spend.t),
              RefundWitness(Signatures))

------------------------------------------------------------------------------
(* The node *)

\* A number has at most four bytes; the top bit of the last is its sign.
Magnitude(x, i) == IF i > Len(x) THEN 0 ELSE IF i = Len(x) THEN x[i] % 128 ELSE x[i]

Num(x) ==
  LET value == Magnitude(x, 1) + 256 * Magnitude(x, 2) + 65536 * Magnitude(x, 3)
                 + 16777216 * Magnitude(x, 4)
  IN  IF x # <<>> /\ Last(x) >= 128 THEN -value ELSE value

\* The numbers the machine itself writes are counts of signatures, and one.
Push(x) == IF x = 0 THEN <<>>
           ELSE IF x < 128 THEN <<x>> ELSE <<x % 256, x \div 256>>

Top == Last(stack)
Below(k) == SubSeq(stack, 1, Len(stack) - k)
At(k) == stack[Len(stack) - k]
Valid(sig, key) == sig = Signature(key, spend.input)

Op == script[ip]
AtOp(op) == res = "run" /\ ip <= Len(script) /\ Op = op
Advance(by, newStack) == /\ stack' = newStack
                         /\ ip' = ip + by
                         /\ UNCHANGED <<spend, script, sequence, res>>
Fail == res' = "fail" /\ UNCHANGED <<spend, script, sequence, stack, ip>>

OpPush ==
  /\ res = "run" /\ ip <= Len(script) /\ Op \in 1 .. 75
  /\ Advance(1 + Op, Append(stack, SubSeq(script, ip + 1, ip + Op)))

OpNumber ==
  /\ res = "run" /\ ip <= Len(script) /\ Op \in {OP_0} \cup (OP_1 .. OP_1 + 15)
  /\ Advance(1, Append(stack, Push(IF Op = OP_0 THEN 0 ELSE Op - OP_1 + 1)))

\* BIP-68: the input's sequence number is a number of blocks the output is old.
\* BIP-112: the operand may not ask for more, nor for time instead of blocks.
OpCsv ==
  LET t == Num(Top)
  IN  /\ AtOp(OP_CSV)
      /\ IF t < 0 \/ (t \div 4194304) % 2 = 1 \/ t % 65536 > sequence
            \/ spend.age < sequence
         THEN Fail
         ELSE Advance(1, stack)

OpDrop == AtOp(OP_DROP) /\ Advance(1, Below(1))

\* An empty signature counts as none, any other must be valid.
OpCheckSig ==
  /\ AtOp(OP_CHECKSIG)
  /\ IF At(1) # <<>> /\ ~Valid(At(1), Top) THEN Fail
     ELSE Advance(1, Append(Below(2), Push(IF At(1) = <<>> THEN 0 ELSE 1)))

OpCheckSigAdd ==
  /\ AtOp(OP_CHECKSIGADD)
  /\ IF At(2) # <<>> /\ ~Valid(At(2), Top) THEN Fail
     ELSE Advance(1, Append(Below(3), Push(Num(At(1)) + IF At(2) = <<>> THEN 0 ELSE 1)))

OpCheckSigVerify ==
  /\ AtOp(OP_CHECKSIGVERIFY)
  /\ IF ~Valid(At(1), Top) THEN Fail ELSE Advance(1, Below(2))

OpSha256 == AtOp(OP_SHA256) /\ Advance(1, Append(Below(1), Sha256(Top)))

OpEqual == AtOp(OP_EQUAL) /\ Advance(1, Append(Below(2), Push(IF Top = At(1) THEN 1 ELSE 0)))

OpNumEqual ==
  /\ AtOp(OP_NUMEQUAL)
  /\ Advance(1, Append(Below(2), Push(IF Num(Top) = Num(At(1)) THEN 1 ELSE 0)))

\* One element must be left, and it must be true.
Finish ==
  /\ res = "run" /\ ip = Len(script) + 1
  /\ res' = IF Len(stack) = 1 /\ Num(Top) # 0 THEN "accept" ELSE "fail"
  /\ UNCHANGED <<spend, script, sequence, stack, ip>>

ScriptNext ==
  \/ ClaimHtlcMethod \/ ClaimHtlcHandler \/ BroadcastRefund
  \/ OpPush \/ OpNumber \/ OpCsv \/ OpDrop \/ OpCheckSig \/ OpCheckSigAdd
  \/ OpCheckSigVerify \/ OpSha256 \/ OpEqual \/ OpNumEqual \/ Finish

ScriptSpec == ScriptInit /\ [][ScriptNext]_scriptVars

------------------------------------------------------------------------------
(* Correctness *)

Decided == res \in {"accept", "fail"}

\* Leaf 2 is spent by exactly k_min signatures, each of this input, of an output
\* at least t_refund blocks old, and always by those (protocol.py:197-222, 399-424).
\* It is the whole chain that must be right: the two number encodings, the order of
\* the witness against the order of the keys, and the sequence number, which has room
\* for 16 bits of t_refund.
RefundIsKMinAfterTRefund ==
  Decided /\ spend.leaf = 2 /\ spend.t <= 65535 =>
    (res = "accept" <=>
       /\ Cardinality(spend.signers) = spend.k
       /\ spend.signers = {} \/ spend.signedFor = spend.input
       /\ spend.age >= spend.t)

\* Leaf 1 is spent with the winner's key and the secret, and with nothing else, at any
\* age of the output: nothing waits for t_claim (protocol.py:180-194, 380-390, 545-555).
HtlcIsWinnerWithSecret ==
  Decided /\ spend.leaf = 1 =>
    (res = "accept" <=>
       /\ {Keys[p] : p \in spend.signers} = {Keys[spend.winner]}
       /\ spend.preimage = spend.secret)

\* "leaf1 - P_k signs + reveals preimage after T_claim blocks" (protocol.py:16;
\* README.md:25 and coordinator.py:64 agree).
HtlcWaitsForTClaim == res = "accept" /\ spend.leaf = 1 => spend.age >= TClaim

\* claim_htlc turns away only who holds another preimage ("Preimage does not match
\* hash in script", participant.py:162-163).
OnlyWrongPreimageRaises == res = "raised" => spend.preimage # spend.secret

------------------------------------------------------------------------------
(***************************************************************************)
(* The inductive invariant: which instructions are left, and what is on    *)
(* the stack before each of them.                                          *)
(***************************************************************************)
Rest(s, i) == SubSeq(s, i, Len(s))
Before(rest, elements) == Rest(script, ip) = rest /\ stack = elements

HtlcSigned == Valid(HtlcSignature, Keys[spend.winner])
Compare(hash) == PushBytes(hash) \o <<OP_EQUAL>>

HtlcSoFar ==
  LET x == spend.preimage
      hash == Sha256(spend.secret)
      signed == <<x, HtlcSignature>>
  IN  \/ Before(LeafOne, signed)
      \/ Before(<<OP_CHECKSIGVERIFY>> \o <<OP_SHA256>> \o Compare(hash),
                Append(signed, Keys[spend.winner]))
      \/ /\ HtlcSigned
         /\ \/ Before(<<OP_SHA256>> \o Compare(hash), <<x>>)
            \/ Before(Compare(hash), <<Sha256(x)>>)
            \/ Before(<<OP_EQUAL>>, <<Sha256(x), hash>>)
            \/ Before(<<>>, <<Push(IF Sha256(x) = hash THEN 1 ELSE 0)>>)

\* What the first p keys have: their signatures in number, each of them valid.
SignedBy(p) == Cardinality(spend.signers \cap 1 .. p)
ValidUpTo(p) == spend.signers \cap 1 .. p = {} \/ spend.signedFor = spend.input

\* The node counts the low 16 bits of t_refund in blocks, unless bit 22 says time.
Waited == spend.age >= CsvSequence(spend.t) /\ (spend.t \div 4194304) % 2 = 0

SignaturesAfter(p) == SubSeq(RefundWitness(Signatures), 1, Len(Keys) - p)
Operand(x) == IF x <= 16 THEN Push(x) ELSE ScriptNum(x)

Checks(p, k) == ChecksAfter[p] \o Threshold(k)
FromKeyOne(k) == PushBytes(Keys[1]) \o <<OP_CHECKSIG>> \o Checks(1, k)

\* Between two keys, and between a key and its check.
Counting(p) ==
  LET counted == Append(SignaturesAfter(p), Push(SignedBy(p)))
  IN  /\ ValidUpTo(p)
      /\ \/ Before(Checks(p, spend.k), counted)
         \/ /\ p < Len(Keys)
            /\ Before(<<OP_CHECKSIGADD>> \o Checks(p + 1, spend.k), Append(counted, Keys[p + 1]))

Counted ==
  LET all == SignedBy(Len(Keys))
  IN  /\ ValidUpTo(Len(Keys))
      /\ \/ Before(<<OP_NUMEQUAL>>, <<Push(all), Operand(spend.k)>>)
         \/ Before(<<>>, <<Push(IF all = spend.k THEN 1 ELSE 0)>>)

RefundSoFar ==
  LET sigs == SignaturesAfter(0)
      first == FromKeyOne(spend.k)
      timed == Append(sigs, Operand(spend.t))
  IN  \/ Before(RefundScript(spend.t, spend.k), sigs)
      \/ Before(<<OP_CSV>> \o <<OP_DROP>> \o first, timed)
      \/ /\ Waited
         /\ \/ Before(<<OP_DROP>> \o first, timed)
            \/ Before(first, sigs)
            \/ Before(<<OP_CHECKSIG>> \o Checks(1, spend.k), Append(sigs, Keys[1]))
            \/ \E p \in Participant : Counting(p)
            \/ Counted

\* Leaf 2 for every t_refund.
RefundRule ==
  Decided /\ spend.leaf = 2 =>
    (res = "accept" <=>
       /\ Cardinality(spend.signers) = spend.k
       /\ spend.signers = {} \/ spend.signedFor = spend.input
       /\ Waited)

\* At every instruction of either leaf, the stack is what the rest of the script is
\* written for: what _build_htlc_winner_script and _build_refund_script emit
\* (protocol.py:180-222) and what the two witnesses lay on the stack (545-567) fit
\* together, and the verdict is the rule of the leaf.
ScriptInv ==
  /\ ScriptTypeOK
  /\ res = "new" => ip = 1
  /\ spend.leaf = 1 => Cardinality(spend.signers) < 2 /\ spend.signedFor = spend.input
  /\ res = "run" => /\ spend.leaf = 1 => HtlcSoFar
                    /\ spend.leaf = 2 => RefundSoFar /\ sequence = CsvSequence(spend.t)
  /\ HtlcIsWinnerWithSecret /\ RefundRule
==============================================================================
