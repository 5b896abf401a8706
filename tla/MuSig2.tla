------------------------------- MODULE MuSig2 --------------------------------
(***************************************************************************)
(* The MuSig2 algorithms of tanda/musig2.py, and one signing session run   *)
(* the way coordinator.py and the participants run it.                     *)
(*                                                                         *)
(* secp256k1 is replaced by the integers modulo a small prime: a point is  *)
(* its discrete logarithm, 0 the point at infinity, and EvenY holds one of *)
(* every pair P, -P, so that "has an even y" is a fact about the point, as *)
(* it is on the curve.  A hash may take any value, chosen when the code    *)
(* first computes it.  Exceptions of coincurve (a zero scalar, a sum at    *)
(* infinity) end the session in "raised".                                  *)
(***************************************************************************)
EXTENDS Integers, Sequences, FiniteSetsExt, Functions

CONSTANTS
  Order,              \* the order of the group
  EvenY,              \* the points with an even y
  n,                  \* signers, in the order their keys are sorted in
  SecretKeys,         \* secret keys a signer may have
  Nonces,             \* scalars nonce_gen may return
  Hashes              \* values a hash may have

ASSUME GroupAssumption ==
  /\ Order \in Nat /\ Order > 2
  /\ EvenY \subseteq 1 .. Order - 1
  /\ \A x \in 1 .. Order - 1 : (x \in EvenY) # (Order - x \in EvenY)

Zq == 0 .. Order - 1
Signer == 1 .. n

\* Secret keys and nonces are not zero, and a hash is reduced.
ASSUME ScalarsAssumption ==
  /\ n \in Nat \ {0}
  /\ SecretKeys \subseteq Zq \ {0} /\ Nonces \subseteq Zq \ {0} /\ Hashes \subseteq Zq

Neg(x) == (Order - x) % Order
HasEvenY(point) == point \in EvenY
LiftX(point) == IF HasEvenY(point) THEN point ELSE Neg(point)
SumOf(f) == SumFunction(f) % Order

\* The factor -1 that appears wherever a key with an odd y is used.
ParityOf(point) == IF HasEvenY(point) THEN 1 ELSE Order - 1

VARIABLES
  pc,                 \* the step the session is at
  sk,                 \* [Signer -> secret key]
  kac,                \* KeyAggContext: Q, gacc, tacc, coeffs
  internal,           \* the internal key of the round's scripts, and their output key
  nonce,              \* the (k1, k2) of the signers that have one; <<>> before
  ctx,                \* SessionContext: b, e, R, negated
  psigs               \* the partial signatures, with whether each is of this session

vars == <<pc, sk, kac, internal, nonce, ctx, psigs>>

TypeOK ==
  /\ pc \in {"agg", "tweak", "nonce", "compute", "sign", "done", "raised"}
  /\ sk \in [Signer -> Zq \ {0}]
  /\ kac \in [Q : Zq, gacc : {1, Order - 1}, tacc : Zq, coeffs : [Signer -> Zq]]
  /\ internal \in [key : Zq, output : Zq]
  /\ nonce \in Seq([k1 : Zq \ {0}, k2 : Zq \ {0}]) /\ Len(nonce) <= n
  /\ ctx \in [b : Zq, e : Zq, R : Zq, negated : BOOLEAN]
  /\ psigs \in Seq([s : Zq, own : BOOLEAN]) /\ Len(psigs) <= n

\* Equal keys are neighbours, since key_agg sorts.
Init ==
  /\ pc = "agg"
  /\ sk \in [Signer -> SecretKeys]
  /\ \A i, j, k \in Signer : i < j /\ j < k /\ sk[i] = sk[k] => sk[i] = sk[j]
  /\ kac = [Q |-> 0, gacc |-> 1, tacc |-> 0, coeffs |-> [i \in Signer |-> 0]]
  /\ internal = [key |-> 0, output |-> 0]
  /\ nonce = <<>>
  /\ ctx = [b |-> 0, e |-> 0, R |-> 0, negated |-> FALSE]
  /\ psigs = <<>>

Raise == pc' = "raised" /\ UNCHANGED <<sk, kac, internal, nonce, ctx, psigs>>

------------------------------------------------------------------------------
(* The key *)

\* The keys that get coefficient 1: those equal to the second different key.
IsSecondUnique(i) ==
  LET others == {j \in Signer : sk[j] # sk[1]}
  IN  others # {} /\ sk[i] = sk[Min(others)]

\* The point of secret key x is x itself.
AggregateKey(coeffs) == SumOf([i \in Signer |-> coeffs[i] * sk[i]])

\* h is the hash of the sorted keys with each of them.
KeyAgg ==
  /\ pc = "agg"
  /\ \E h \in [{sk[i] : i \in Signer} -> Hashes] :
       LET coeffs == [i \in Signer |-> IF IsSecondUnique(i) THEN 1 ELSE h[sk[i]]]
           key == AggregateKey(coeffs)
       IN  IF key = 0 \/ \E i \in Signer : coeffs[i] = 0
           THEN Raise
           ELSE /\ kac' = [Q |-> key, gacc |-> 1, tacc |-> 0, coeffs |-> coeffs]
                /\ internal' = [key |-> LiftX(key), output |-> 0]
                /\ pc' = "tweak"
                /\ UNCHANGED <<sk, nonce, ctx, psigs>>

\* A mutant: the tweak is added to the key as it is, odd or even.
MutTweaked(t) == [kac EXCEPT !.Q = (t + @) % Order, !.tacc = (t + @) % Order]

\* A mutant: the parity is applied to the key and not remembered.
MutTweakForgets(t) ==
  LET g == ParityOf(kac.Q)
  IN  [kac EXCEPT !.Q = (t + g * @) % Order, !.tacc = (t + g * @) % Order]

Tweaked(t) ==
  LET g == ParityOf(kac.Q)
  IN  [kac EXCEPT !.Q = (t + g * @) % Order,
                  !.gacc = (g * @) % Order,
                  !.tacc = (t + g * @) % Order]

\* The output key of the address, computed from the x-only internal key alone.
OutputKey(t) == (internal.key + t) % Order

\* The tweak commits to the internal key and both scripts.
ApplyTweak ==
  /\ pc = "tweak"
  /\ \E t \in Hashes :
       IF t = 0 \/ OutputKey(t) = 0 \/ Tweaked(t).Q = 0
       THEN Raise
       ELSE /\ kac' = Tweaked(t)
            /\ internal' = [internal EXCEPT !.output = OutputKey(t)]
            /\ pc' = "nonce"
            /\ UNCHANGED <<sk, nonce, ctx, psigs>>

------------------------------------------------------------------------------
(* Nonces and the session *)

NonceGen ==
  /\ pc = "nonce"
  /\ \E k1, k2 \in Nonces : nonce' = Append(nonce, [k1 |-> k1, k2 |-> k2])
  /\ pc' = IF Len(nonce') = n THEN "compute" ELSE "nonce"
  /\ UNCHANGED <<sk, kac, internal, ctx, psigs>>

\* nonce_agg.
AggR1 == SumOf([i \in Signer |-> nonce[i].k1])
AggR2 == SumOf([i \in Signer |-> nonce[i].k2])

\* b and e are the hashes of the nonce, the key and the message.
SessionContext(b, e) ==
  LET R == (AggR1 + b * AggR2) % Order
  IN  [b |-> b, e |-> e, R |-> LiftX(R), negated |-> ~HasEvenY(R)]

\* The aggregated nonces, or b, may be what coincurve refuses; a sum R' at
\* infinity raises in combine_keys before the code can replace it by G.
Compute ==
  /\ pc = "compute"
  /\ \E b, e \in Hashes :
       IF AggR1 = 0 \/ AggR2 = 0 \/ b = 0 \/ SessionContext(b, e).R = 0
       THEN Raise
       ELSE /\ ctx' = SessionContext(b, e)
            /\ pc' = "sign"
            /\ UNCHANGED <<sk, kac, internal, nonce, psigs>>

------------------------------------------------------------------------------
(* Signatures *)

\* A mutant: the parity of the tweaked key is left out of the effective key.
MutPartialSign(i, c) ==
  LET d == (kac.gacc * sk[i]) % Order
      k == (nonce[i].k1 + c.b * nonce[i].k2) % Order
  IN  ((IF c.negated THEN Neg(k) ELSE k) + c.e * kac.coeffs[i] * d) % Order

\* The partial signature of signer i in the session c.
PartialSign(i, c) ==
  LET d == (ParityOf(kac.Q) * kac.gacc * sk[i]) % Order
      k == (nonce[i].k1 + c.b * nonce[i].k2) % Order
  IN  ((IF c.negated THEN Neg(k) ELSE k) + c.e * kac.coeffs[i] * d) % Order

\* Signers sign in turn, this session's message or, with the same nonces, another
\* one (contributions found in between change the transaction that is signed).
Sign ==
  LET i == Len(psigs) + 1
  IN  /\ pc = "sign"
      /\ \E b, e \in Hashes :
           LET c == SessionContext(b, e)
           IN  /\ b # 0 /\ c.R # 0
               /\ psigs' = Append(psigs, [s |-> PartialSign(i, c), own |-> c = ctx])
      /\ pc' = IF i = n THEN "done" ELSE "sign"
      /\ UNCHANGED <<sk, kac, internal, nonce, ctx>>

\* Public: R1, R2 and P of signer i are the points of k1, k2 and sk.
CommittedNonce(i) ==
  LET R == (nonce[i].k1 + ctx.b * nonce[i].k2) % Order
  IN  IF ctx.negated THEN Neg(R) ELSE R
CommittedKey(i) ==
  (((ctx.e * kac.coeffs[i]) % Order) * ParityOf(kac.Q) * kac.gacc * sk[i]) % Order

\* Where multiply or combine_keys raises: the verdict is then neither.
VerifyRaises(i) ==
  \/ psigs[i].s = 0
  \/ CommittedNonce(i) = 0
  \/ CommittedKey(i) = 0
  \/ (CommittedNonce(i) + CommittedKey(i)) % Order = 0

PartialSigVerify(i) ==
  psigs[i].s = (CommittedNonce(i) + CommittedKey(i)) % Order

\* A mutant: the tweak is added without the parity of the key it made.
MutPartialSigAgg(sigs) ==
  (SumOf([i \in Signer |-> sigs[i].s]) + ctx.e * kac.tacc) % Order

PartialSigAgg(sigs) ==
  (SumOf([i \in Signer |-> sigs[i].s]) + ctx.e * ParityOf(kac.Q) * kac.tacc) % Order

\* BIP-340, as a node checks it against the output key of the address.
SchnorrVerify(s) == s = (ctx.R + ctx.e * LiftX(internal.output)) % Order

Next == KeyAgg \/ ApplyTweak \/ NonceGen \/ Compute \/ Sign

Spec == Init /\ [][Next]_vars

------------------------------------------------------------------------------
(* Correctness *)

\* The key the signers sign for is the key the contributions were sent to:
\* setup() builds one with apply_tweak and the other with build_taproot_output,
\* from an aggregate key that may have an odd y (coordinator.py:157-161).
KeyMatchesAddress ==
  pc \in {"nonce", "compute", "sign", "done"} => LiftX(kac.Q) = LiftX(internal.output)

\* When everyone signed this session's message, the aggregate spends the output,
\* whatever the three parities (of the key, of the tweaked key, of the nonce).
HonestSessionVerifies ==
  pc = "done" /\ (\A i \in Signer : psigs[i].own) => SchnorrVerify(PartialSigAgg(psigs))

\* partial_sig_verify never rejects what an honest signer of the session sent.
HonestNeverBlamed ==
  \A i \in DOMAIN psigs : psigs[i].own => VerifyRaises(i) \/ PartialSigVerify(i)

\* partial_sig_verify tells the coordinator whom to ask again: if it accepts every
\* signature the aggregate verifies, and if it rejects exactly one it does not.
BlameIsExact ==
  LET rejected == {i \in Signer : ~PartialSigVerify(i)}
  IN  pc = "done" => /\ rejected = {} => SchnorrVerify(PartialSigAgg(psigs))
                     /\ Cardinality(rejected) = 1 => ~SchnorrVerify(PartialSigAgg(psigs))

------------------------------------------------------------------------------
(***************************************************************************)
(* The inductive invariant: what the key is made of, and that a session    *)
(* and the signatures in it are those of the nonces.                       *)
(***************************************************************************)
Keyed == {"nonce", "compute", "sign", "done"}

KeyAccumulates ==
  /\ pc = "tweak" => /\ kac.Q = AggregateKey(kac.coeffs) /\ kac.gacc = 1 /\ kac.tacc = 0
                     /\ internal.key = LiftX(kac.Q)
  /\ pc \in Keyed => /\ kac.Q = (kac.gacc * AggregateKey(kac.coeffs) + kac.tacc) % Order
                     /\ internal.output = kac.Q

NoncesSoFar ==
  /\ pc \in {"agg", "tweak"} => nonce = <<>>
  /\ pc = "nonce" => Len(nonce) < n
  /\ pc \in {"compute", "sign", "done"} => Len(nonce) = n

SignaturesSoFar ==
  /\ pc \notin {"sign", "done"} => psigs = <<>>
  /\ pc \in {"sign", "done"} => ctx = SessionContext(ctx.b, ctx.e)
  /\ pc = "sign" => Len(psigs) < n
  /\ pc = "done" => Len(psigs) = n
  /\ \A i \in DOMAIN psigs : psigs[i].own => psigs[i].s = PartialSign(i, ctx)

SessionInv == TypeOK /\ KeyAccumulates /\ NoncesSoFar /\ SignaturesSoFar
==============================================================================
