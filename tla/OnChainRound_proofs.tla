------------------------- MODULE OnChainRound_proofs -------------------------
(***************************************************************************)
(* Proofs about the on-chain round: for every number of participants and   *)
(* coins, every t_refund, and every set of faults.                         *)
(***************************************************************************)
EXTENDS OnChainRound, FiniteSetTheorems, FunctionTheorems, TLAPS

USE ParametersAssumption

(***************************************************************************)
(* Types.                                                                  *)
(***************************************************************************)
LEMMA Constants ==
  /\ 1 \in Participant /\ 1 \in Coin /\ 0 \in Nonce
  /\ NoMessage \in Message /\ NoSession \in Session /\ NoSig \in PartialSig
<1>1. 1 \in Participant /\ 1 \in Coin /\ 0 \in Nonce
  BY DEF Participant, Coin, Nonce
<1>2. NoMessage \in Message
  BY <1>1 DEF NoMessage, Message, Tx
<1>3. NoSession \in Session
  BY <1>1, <1>2 DEF NoSession, Session
<1> QED
  BY <1>1, <1>2, <1>3 DEF NoSig, PartialSig

LEMMA VisibleCount == Cardinality(Visible) \in Nat /\ Cardinality(Visible) <= MaxCoins
<1>1. IsFiniteSet(Coin) /\ Cardinality(Coin) = MaxCoins
  BY FS_Interval DEF Coin
<1>2. Visible \in SUBSET Coin
  BY DEF Visible
<1> QED
  BY <1>1, <1>2, FS_Subset, FS_CardinalityType

\* What a scan finds, and the first n of it, are lists of coins and not too long.
LEMMA FoundType ==
  ASSUME NEW found \in [1 .. Cardinality(Visible) -> Visible],
         NEW n \in Nat, n <= Cardinality(Visible)
  PROVE  SubSeq(found, 1, n) \in Tx /\ Len(SubSeq(found, 1, n)) <= MaxCoins
<1>1. Cardinality(Visible) \in Nat /\ Cardinality(Visible) <= MaxCoins
  BY VisibleCount
<1>2. found \in Seq(Coin) /\ Len(found) = Cardinality(Visible)
  <2>1. \A k \in Nat : \A f \in [1 .. k -> Visible] : f \in Seq(Coin) /\ Len(f) = k
    BY DEF Visible
  <2> QED
    BY <1>1, <2>1
<1> QED
  BY <1>1, <1>2 DEF Tx

\* A list found replaces the front of the contributions, and neither is too long.
LEMMA OverlayType ==
  ASSUME contributions \in Tx, Len(contributions) <= MaxCoins,
         NEW found \in Tx, Len(found) <= MaxCoins
  PROVE  Overlay(found) \in Tx /\ Len(Overlay(found)) <= MaxCoins
<1>1. found \in Seq(Coin) /\ Len(found) \in Nat
  BY DEF Tx
<1>2. CASE Len(contributions) <= Len(found)
  <2>1. SubSeq(contributions, Len(found) + 1, Len(contributions)) = <<>>
    BY <1>1, <1>2 DEF Tx
  <2> QED
    BY <1>1, <2>1 DEF Overlay, Tx
<1>3. CASE Len(contributions) > Len(found)
  <2> DEFINE rest == SubSeq(contributions, Len(found) + 1, Len(contributions))
  <2>1. rest \in Seq(Coin) /\ Len(rest) = Len(contributions) - Len(found)
    BY <1>1, <1>3 DEF Tx
  <2> QED
    BY <1>1, <2>1 DEF Overlay, Tx
<1> QED
  BY <1>1, <1>2, <1>3 DEF Tx

LEMMA StoreType ==
  ASSUME TypeOK, NEW n \in Nat, n <= Cardinality(Visible), Store(n)
  PROVE  contributions' \in Tx /\ Len(contributions') <= MaxCoins
<1>1. PICK found \in [1 .. Cardinality(Visible) -> Visible] :
        contributions' = Overlay(SubSeq(found, 1, n))
  BY DEF Store
<1> QED
  BY <1>1, FoundType, OverlayType DEF TypeOK

LEMMA SignClaimType ==
  ASSUME TypeOK, NEW p \in Participant, NEW i \in Coin, NEW s \in Session,
         SignClaim(p, i, s)
  PROVE  /\ secNonces' \in [Participant -> [Coin -> Nonce]]
         /\ signed' \in [Participant -> SUBSET PartialSig]
<1>1. secNonces[p][i] \in Nonce
  BY DEF TypeOK
<1>2. [nonce |-> secNonces[p][i], session |-> s] \in PartialSig
  BY <1>1 DEF PartialSig
<1> QED
  BY <1>2, Constants DEF SignClaim, TypeOK

LEMMA MakeNonceType ==
  ASSUME TypeOK, NEW p \in Participant, NEW i \in Coin, MakeNonce(p, i)
  PROVE  /\ made[p] + 1 \in Nonce
         /\ made' \in [Participant -> Nonce]
         /\ secNonces' \in [Participant -> [Coin -> Nonce]]
<1>1. made[p] + 1 \in Nonce
  <2>1. made[p] \in Nonce /\ made[p] < MaxNonces
    BY DEF MakeNonce, TypeOK
  <2> QED
    BY <2>1 DEF Nonce
<1> QED
  BY <1>1 DEF MakeNonce, TypeOK

LEMMA ProceedType ==
  ASSUME TypeOK, NEW step, NEW next, Proceed(step, next)
  PROVE  at' \in [input : Coin, p : Participant] /\ pc' \in {step, next}
<1>1. at \in [input : Coin, p : Participant]
  BY DEF TypeOK
<1>2. CASE at.p < N
  <2>1. at.p + 1 \in Participant
    BY <1>1, <1>2 DEF Participant
  <2> QED
    BY <1>1, <1>2, <2>1 DEF Proceed
<1>3. CASE ~(at.p < N)
  BY <1>1, <1>3, Constants DEF Proceed
<1> QED
  BY <1>2, <1>3

LEMMA GiveUpType ==
  ASSUME TypeOK, GiveUp
  PROVE  /\ at' \in [input : Coin, p : Participant] /\ pc' = "idle"
         /\ claimTx' = claimTx /\ pubNonces' = pubNonces /\ session' = session
         /\ partialSigs' = partialSigs /\ witness' = witness
BY Constants DEF GiveUp, TypeOK

(***************************************************************************)
(* Every step keeps the types.  The inputs of a transaction are counted by *)
(* StepInv.                                                                *)
(***************************************************************************)
LEMMA NextTypeOK == RoundInv /\ [Next]_vars => TypeOK'
<1> SUFFICES ASSUME RoundInv, [Next]_vars PROVE TypeOK'
  OBVIOUS
<1>0. TypeOK /\ (PerInput => StepInv)
  BY DEF RoundInv
<1> USE <1>0 DEF chain, driver, participants
<1>1. ASSUME NEW p \in Participant, Restart(p) PROVE TypeOK'
  BY <1>1, Constants DEF Restart, TypeOK
<1>2. ASSUME NEW p \in Participant, Setup(p) PROVE TypeOK'
  BY <1>2 DEF Setup, TypeOK
<1>3. ASSUME NEW p \in Participant, NEW c \in Coin, Contribute(p, c) PROVE TypeOK'
  BY <1>3 DEF Contribute, TypeOK, Participant
<1>4. CASE Mine
  BY <1>4 DEF Mine, TypeOK
<1>5. CASE CollectContributions \/ WaitForUtxos
  <2>1. PICK n \in Nat : n <= Cardinality(Visible) /\ Store(n)
    BY <1>5, VisibleCount DEF CollectContributions, WaitForUtxos
  <2> QED
    BY <2>1, StoreType DEF Store, TypeOK
<1>6. CASE PrepareClaimSession
  <2>1. /\ claimTx' \in Tx /\ Len(claimTx') <= MaxCoins /\ Len(claimTx') \in Nat
        /\ witness' \in Seq([Participant -> PartialSig]) /\ Len(witness') <= Len(claimTx')
    <3>1. claimTx' = contributions /\ witness' = <<>>
      BY <1>6 DEF PrepareClaimSession
    <3>2. contributions \in Tx /\ Len(contributions) <= MaxCoins /\ Len(contributions) \in Nat
      BY DEF TypeOK, Tx
    <3> HIDE DEF TypeOK
    <3> QED
      BY <3>1, <3>2
  <2> QED
    BY <1>6, <2>1, Constants DEF PrepareClaimSession, TypeOK
<1>7. CASE NonceRequest
  <2>1. at.p \in Participant /\ at.input \in Coin /\ made[at.p] + 1 \in Nonce
    BY <1>7, MakeNonceType DEF NonceRequest, TypeOK
  <2>2. /\ at' \in [input : Coin, p : Participant]
        /\ pc' \in {"nonce", "build", "idle"}
        /\ claimTx' = claimTx /\ session' = session
        /\ partialSigs' = partialSigs /\ witness' = witness
        /\ pubNonces' \in [Participant -> Nonce]
    <3>1. CASE GiveUp
      BY <3>1, GiveUpType DEF TypeOK
    <3>2. CASE /\ pubNonces' = [pubNonces EXCEPT ![at.p] = made[at.p] + 1]
               /\ Proceed("nonce", "build")
               /\ UNCHANGED <<claimTx, session, partialSigs, witness>>
      BY <2>1, <3>2, ProceedType DEF TypeOK
    <3> QED
      BY <1>7, <3>1, <3>2 DEF NonceRequest
  <2>3. made' \in [Participant -> Nonce] /\ secNonces' \in [Participant -> [Coin -> Nonce]]
    BY <1>7, <2>1, MakeNonceType DEF NonceRequest
  <2> QED
    BY <1>7, <2>2, <2>3 DEF NonceRequest, TypeOK
<1>8. CASE BuildSession
  <2>1. SessionMessage \in Message
    BY DEF SessionMessage, Message, TypeOK
  <2> QED
    BY <1>8, <2>1 DEF BuildSession, Session, TypeOK
<1>9. CASE SignRequest
  <2>1. at.p \in Participant /\ at.input \in Coin /\ session \in Session
    BY DEF TypeOK
  <2>2. /\ secNonces' \in [Participant -> [Coin -> Nonce]]
        /\ signed' \in [Participant -> SUBSET PartialSig]
    BY <1>9, <2>1, SignClaimType DEF SignRequest
  <2>3. [nonce |-> secNonces[at.p][at.input], session |-> session] \in PartialSig
    BY <2>1 DEF PartialSig, TypeOK
  <2>4. /\ at' \in [input : Coin, p : Participant]
        /\ pc' \in {"sign", "aggregate", "idle"}
        /\ claimTx' = claimTx /\ session' = session
        /\ pubNonces' = pubNonces /\ witness' = witness
        /\ partialSigs' \in [Participant -> PartialSig]
    <3>1. CASE GiveUp
      BY <3>1, GiveUpType DEF TypeOK
    <3>2. CASE /\ partialSigs' = [partialSigs EXCEPT ![at.p] =
                    [nonce |-> secNonces[at.p][at.input], session |-> session]]
               /\ Proceed("sign", "aggregate")
               /\ UNCHANGED <<claimTx, pubNonces, session, witness>>
      BY <2>1, <2>3, <3>2, ProceedType DEF TypeOK
    <3> QED
      BY <1>9, <3>1, <3>2 DEF SignRequest
  <2> QED
    BY <1>9, <2>2, <2>4 DEF SignRequest, TypeOK
<1>10. CASE SignTimeout
  BY <1>10, GiveUpType DEF SignTimeout, TypeOK
<1>11. CASE ServeLate
  BY <1>11, SignClaimType DEF ServeLate, TypeOK
<1>12. CASE Aggregate
  <2>1. witness' \in Seq([Participant -> PartialSig]) /\ Len(witness') <= Len(claimTx)
    <3>1. CASE PerInput
      BY <1>12, <3>1 DEF Aggregate, StepInv, TypeOK, Tx
    <3>2. CASE ~PerInput
      <4>1. witness' = [i \in 1 .. Len(claimTx) |-> partialSigs]
        BY <1>12, <3>2 DEF Aggregate, TypeOK, Tx
      <4>2. Len(claimTx) \in Nat /\ partialSigs \in [Participant -> PartialSig]
        BY DEF TypeOK, Tx
      <4> HIDE DEF TypeOK
      <4> QED
        BY <4>1, <4>2
    <3> QED
      BY <3>1, <3>2
  <2>2. at' \in [input : Coin, p : Participant]
    <3>1. CASE PerInput /\ Len(witness') < Len(claimTx)
      <4>1. at.input = Len(witness) + 1 /\ Len(witness') = Len(witness) + 1
        BY <1>12, <3>1 DEF Aggregate, StepInv, TypeOK
      <4>2. Len(witness) \in Nat /\ Len(claimTx) \in Nat /\ Len(claimTx) <= MaxCoins
        BY DEF TypeOK, Tx
      <4>3. at.input + 1 \in Coin
        BY <3>1, <4>1, <4>2 DEF Coin
      <4> QED
        BY <1>12, <3>1, <4>3 DEF Aggregate, TypeOK
    <3>2. CASE ~PerInput
      <4>1. Len(witness') = Len(claimTx)
        BY <1>12, <3>2 DEF Aggregate, TypeOK, Tx
      <4> QED
        BY <1>12, <4>1, Constants DEF Aggregate, TypeOK, Tx
    <3>3. CASE ~(Len(witness') < Len(claimTx))
      BY <1>12, <3>3, Constants DEF Aggregate
    <3> QED
      BY <3>1, <3>2, <3>3
  <2> QED
    BY <1>12, <2>1, <2>2 DEF Aggregate, TypeOK
<1>13. CASE Broadcast
  BY <1>13, GiveUpType DEF Broadcast, Spend, TypeOK
<1>14. CASE ClaimHtlc
  BY <1>14 DEF ClaimHtlc, Spend, TypeOK
<1>15. CASE Refund
  BY <1>15 DEF Refund, Spend, TypeOK
<1>16. CASE UNCHANGED vars
  BY <1>16 DEF vars, TypeOK
<1>17. CASE NonceTimeout
  BY <1>17, GiveUpType DEF NonceTimeout, TypeOK
<1>18. CASE ServeLateNonce
  <2>1. PICK r \in lateNonces : /\ MakeNonce(r.p, r.input)
                               /\ lateNonces' = lateNonces \ {r}
    BY <1>18 DEF ServeLateNonce
  <2>2. r.p \in Participant /\ r.input \in Coin
    BY DEF TypeOK
  <2>3. made' \in [Participant -> Nonce] /\ secNonces' \in [Participant -> [Coin -> Nonce]]
    BY <2>1, <2>2, MakeNonceType
  <2>4. overtaken' \in BOOLEAN
    BY <1>18 DEF ServeLateNonce, InUse, TypeOK
  <2> QED
    BY <1>18, <2>1, <2>3, <2>4 DEF ServeLateNonce, TypeOK
<1> QED
  BY <1>1, <1>2, <1>3, <1>4, <1>5, <1>6, <1>7, <1>8, <1>9, <1>10, <1>11, <1>12,
     <1>13, <1>14, <1>15, <1>16, <1>17, <1>18 DEF Next

(***************************************************************************)
(* Nonces: a request takes the nonce out of its place before it signs, so  *)
(* a nonce that signed is in no place it could be taken from again.        *)
(***************************************************************************)
LEMMA SignClaimNonce ==
  ASSUME TypeOK, NonceInv, NEW p \in Participant, NEW i \in Coin, NEW s \in Session,
         SignClaim(p, i, s), UNCHANGED made
  PROVE  NonceInv'
<1> DEFINE n == secNonces[p][i]
           use == [nonce |-> n, session |-> s]
<1>1. secNonces \in [Participant -> [Coin -> Nonce]] /\ made \in [Participant -> Nonce]
  BY DEF TypeOK
<1>2. SUFFICES ASSUME NEW q \in Participant
      PROVE  /\ \A j \in Coin : secNonces'[q][j] <= made[q]
             /\ \A j, k \in Coin :
                  secNonces'[q][j] = secNonces'[q][k] => j = k \/ secNonces'[q][j] = 0
             /\ \A u \in signed'[q] : /\ u.nonce \in 1 .. made[q]
                                      /\ \A j \in Coin : secNonces'[q][j] # u.nonce
                                      /\ \A v \in signed'[q] : u.nonce = v.nonce => u = v
  BY DEF NonceInv
<1>3. CASE q # p
  <2>1. secNonces'[q] = secNonces[q] /\ signed'[q] = signed[q]
    BY <1>3 DEF SignClaim, TypeOK
  <2> QED
    BY <2>1 DEF NonceInv
<1>4. CASE q = p
  <2>1. \A j \in Coin : secNonces'[p][j] = IF j = i THEN 0 ELSE secNonces[p][j]
    BY <1>1 DEF SignClaim
  <2>2. signed'[p] \subseteq signed[p] \cup (IF n # 0 THEN {use} ELSE {})
    BY DEF SignClaim, TypeOK
  <2>3. n \in Nat /\ made[p] \in Nat /\ n <= made[p]
    BY <1>1 DEF NonceInv, Nonce
  <2>4. use.nonce = n
    OBVIOUS
  <2>5. \A u \in signed[p] : u.nonce # n /\ u.nonce \in 1 .. made[p]
    BY DEF NonceInv
  <2>6. \A u \in signed'[p] : u \in signed[p] \/ (u = use /\ n # 0)
    BY <2>2
  <2> HIDE DEF use
  <2>7. \A j \in Coin : secNonces'[p][j] <= made[p]
    BY <2>1, <2>3 DEF NonceInv
  <2>8. \A j, k \in Coin :
          secNonces'[p][j] = secNonces'[p][k] => j = k \/ secNonces'[p][j] = 0
    BY <2>1 DEF NonceInv
  <2>9. \A u \in signed'[p] : u.nonce \in 1 .. made[p]
    BY <2>3, <2>4, <2>5, <2>6
  <2>10. \A u \in signed'[p] : \A j \in Coin : secNonces'[p][j] # u.nonce
    BY <2>1, <2>3, <2>4, <2>5, <2>6 DEF NonceInv
  <2>11. \A u, v \in signed'[p] : u.nonce = v.nonce => u = v
    BY <2>4, <2>5, <2>6 DEF NonceInv
  <2> QED
    BY <1>4, <2>7, <2>8, <2>9, <2>10, <2>11
<1> QED
  BY <1>3, <1>4

\* A fresh nonce is ahead of every nonce made before.
LEMMA MakeNonceNonce ==
  ASSUME TypeOK, NonceInv, NEW p \in Participant, NEW i \in Coin, MakeNonce(p, i),
         UNCHANGED signed
  PROVE  NonceInv'
<1>1. /\ made' = [made EXCEPT ![p] = @ + 1] /\ signed' = signed
      /\ secNonces' = [secNonces EXCEPT ![p][i] = made[p] + 1]
  BY DEF MakeNonce
<1>2. \A q \in Participant : made'[q] = IF q = p THEN made[p] + 1 ELSE made[q]
  BY <1>1 DEF TypeOK
<1>3. \A q \in Participant : \A c \in Coin :
        secNonces'[q][c] = IF q = p /\ c = i THEN made[p] + 1 ELSE secNonces[q][c]
  BY <1>1 DEF TypeOK
<1>4. \A q \in Participant : made[q] \in Nat /\ \A c \in Coin : secNonces[q][c] \in Nat
  BY DEF TypeOK, Nonce
<1>5. \A q \in Participant : \A c \in Coin : secNonces'[q][c] <= made'[q]
  BY <1>2, <1>3, <1>4 DEF NonceInv
<1>6. \A q \in Participant : \A c, d \in Coin :
        secNonces'[q][c] = secNonces'[q][d] => c = d \/ secNonces'[q][c] = 0
  BY <1>3, <1>4 DEF NonceInv
<1>7. \A q \in Participant : \A s \in signed[q] :
        s.nonce \in 1 .. made'[q] /\ \A c \in Coin : secNonces'[q][c] # s.nonce
  BY <1>2, <1>3, <1>4 DEF NonceInv
<1> QED
  BY <1>1, <1>5, <1>6, <1>7 DEF NonceInv

LEMMA NextNonceInv == RoundInv /\ [Next]_vars => NonceInv'
<1> SUFFICES ASSUME RoundInv, [Next]_vars PROVE NonceInv'
  OBVIOUS
<1>0. TypeOK /\ NonceInv
  BY DEF RoundInv
<1> USE <1>0 DEF chain, driver, participants
<1>1. ASSUME NEW p \in Participant, Restart(p) PROVE NonceInv'
  <2>1. /\ made' = made /\ signed' = signed
        /\ secNonces' = [secNonces EXCEPT ![p] = [c \in Coin |-> 0]]
    BY <1>1 DEF Restart
  <2>2. \A q \in Participant : \A c \in Coin :
          secNonces'[q][c] = IF q = p THEN 0 ELSE secNonces[q][c]
    BY <2>1 DEF TypeOK
  <2>3. \A q \in Participant : made[q] \in Nat
    BY DEF TypeOK, Nonce
  <2> QED
    BY <2>1, <2>2, <2>3 DEF NonceInv
<1>2. ASSUME NEW p \in Participant, Setup(p) PROVE NonceInv'
  BY <1>2 DEF Setup, NonceInv
<1>3. ASSUME NEW p \in Participant, NEW c \in Coin, Contribute(p, c) PROVE NonceInv'
  BY <1>3 DEF Contribute, NonceInv
<1>4. CASE NonceRequest
  BY <1>4, MakeNonceNonce DEF NonceRequest, TypeOK
<1>5. CASE SignRequest
  BY <1>5, SignClaimNonce DEF SignRequest, TypeOK
<1>6. CASE ServeLate
  BY <1>6, SignClaimNonce DEF ServeLate, TypeOK
<1>7. CASE UNCHANGED <<secNonces, made, signed>>
  BY <1>7 DEF NonceInv
<1>8. CASE ServeLateNonce
  BY <1>8, MakeNonceNonce DEF ServeLateNonce, TypeOK
<1> QED
  BY <1>1, <1>2, <1>3, <1>4, <1>5, <1>6, <1>7, <1>8
  DEF Next, vars, Mine, CollectContributions, WaitForUtxos, Store, PrepareClaimSession, BuildSession,
      NonceTimeout, SignTimeout, Aggregate, Broadcast, ClaimHtlc, Refund

(***************************************************************************)
(* Sessions, of the documented driver.                                     *)
(***************************************************************************)
\* Where an attempt is: only the steps of the driver itself touch it.
LEMMA NextStepInv == PerInput /\ RoundInv /\ [Next]_vars => StepInv'
<1> SUFFICES ASSUME PerInput, RoundInv, [Next]_vars PROVE StepInv'
  OBVIOUS
<1>0. TypeOK /\ StepInv
  BY DEF RoundInv
<1> USE <1>0
<1>1. CASE UNCHANGED driver
  BY <1>1 DEF StepInv, driver
<1>2. CASE PrepareClaimSession
  BY <1>2 DEF PrepareClaimSession, MayAct, StepInv, TypeOK, Tx
<1>3. CASE GiveUp
  BY <1>3 DEF GiveUp, StepInv
<1>4. ASSUME NEW step \in {"nonce", "sign"}, NEW next \in {"build", "aggregate"},
             pc = step, Proceed(step, next), UNCHANGED <<claimTx, witness>>
      PROVE  StepInv'
  <2>1. at'.input = at.input /\ at.input = Len(witness) + 1 /\ Len(witness) < Len(claimTx)
    BY <1>4 DEF Proceed, StepInv, TypeOK
  <2>2. pc' = step \/ (pc' = next /\ at'.p = 1)
    BY <1>4 DEF Proceed, TypeOK
  <2> QED
    BY <1>4, <2>1, <2>2 DEF StepInv
<1>5. CASE BuildSession
  BY <1>5 DEF BuildSession, StepInv
<1>6. CASE Aggregate
  <2>1. Len(witness') = Len(witness) + 1 /\ Len(witness) \in Nat /\ Len(claimTx) \in Nat
    BY <1>6 DEF Aggregate, TypeOK, Tx
  <2>2. claimTx' = claimTx /\ at.input = Len(witness) + 1 /\ Len(witness) < Len(claimTx)
    BY <1>6 DEF Aggregate, StepInv
  <2> QED
    BY <1>6, <2>1, <2>2 DEF Aggregate, StepInv, TypeOK
<1> QED
  BY <1>1, <1>2, <1>3, <1>4, <1>5, <1>6
  DEF Next, vars, participants, Restart, Setup, Contribute, Mine, CollectContributions, WaitForUtxos, Store,
      NonceRequest, NonceTimeout, ServeLateNonce, SignRequest, SignTimeout, ServeLate,
      Broadcast, ClaimHtlc, Refund

\* A secret may vanish at any time: a late request takes it, a restart forgets it.  What
\* matters is that none that is in use becomes another.
LEMMA SecretsVanish ==
  ASSUME SessionInv, UNCHANGED driver, TypeOK,
         \A p \in Participant :
           InUse(p, at.input) => secNonces'[p][at.input] \in {0, secNonces[p][at.input]}
  PROVE  SessionInv'
<1>1. /\ pc' = pc /\ at' = at /\ pubNonces' = pubNonces /\ session' = session
      /\ \A p \in Participant : InUse(p, at.input) =>
           secNonces'[p][at.input] \in {0, secNonces[p][at.input]}
  BY DEF driver
<1>2. \A p \in 1 .. at.p - 1 : p \in Participant /\ p < at.p
  BY DEF TypeOK, Participant
<1>3. \A i : ValidWitness(i) => ValidWitness(i)'
  BY DEF ValidWitness, driver
<1>4. pc = "nonce" => \A p \in 1 .. at.p - 1 : StillHas(p, pubNonces[p])'
  BY <1>1, <1>2 DEF SessionInv, InUse, StillHas
<1>5. pc = "build" => \A p \in Participant : StillHas(p, pubNonces[p])'
  BY <1>1 DEF SessionInv, InUse, StillHas
<1>6. \A p \in Participant : pc = "sign" /\ p >= at.p => StillHas(p, session.agg[p])'
  BY <1>1 DEF SessionInv, InUse, StillHas
<1> QED
  BY <1>3, <1>4, <1>5, <1>6 DEF SessionInv, driver

\* An attempt that was given up leaves nothing the next one relies on.
LEMMA Idle ==
  ASSUME GiveUp
  PROVE  SessionInv'
BY DEF GiveUp, SessionInv

LEMMA SignClaimTakes ==
  ASSUME TypeOK, NEW p \in Participant, NEW i \in Coin, NEW s, SignClaim(p, i, s)
  PROVE  /\ \A q \in Participant : \A j \in Coin : secNonces'[q][j] \in {0, secNonces[q][j]}
         /\ \A q \in Participant : q # p => secNonces'[q] = secNonces[q]
BY DEF SignClaim, TypeOK

\* A new attempt has nothing yet that could be wrong.
LEMMA FreshAttempt == TypeOK /\ PrepareClaimSession => SessionInv'
<1> SUFFICES ASSUME TypeOK, PrepareClaimSession PROVE SessionInv'
  OBVIOUS
<1>1. witness' = <<>> /\ pc' = "nonce" /\ at'.p = 1
  BY DEF PrepareClaimSession
<1>2. DOMAIN witness' = {} /\ 1 .. at'.p - 1 = {}
  BY <1>1
<1> QED
  BY <1>1, <1>2 DEF SessionInv

LEMMA SameAttempt ==
  ASSUME PerInput, TypeOK, StepInv, SessionInv, [Next]_vars, ~overtaken'
  PROVE  SessionInv'
<1>t. at.p \in Participant /\ at.input \in Coin /\ N \in Nat /\ Participant = 1 .. N
  BY DEF TypeOK, Participant
<1>1. CASE UNCHANGED <<driver, secNonces>>
  BY <1>1, SecretsVanish
<1>2. ASSUME NEW p \in Participant, Restart(p) PROVE SessionInv'
  <2>1. UNCHANGED driver /\ secNonces' = [secNonces EXCEPT ![p] = [c \in Coin |-> 0]]
    BY <1>2 DEF Restart
  <2>2. \A q \in Participant : \A i \in Coin : secNonces'[q][i] \in {0, secNonces[q][i]}
    BY <2>1 DEF TypeOK
  <2> QED
    BY <1>t, <2>1, <2>2, SecretsVanish
<1>3. CASE ServeLate
  BY <1>3, <1>t, SignClaimTakes, SecretsVanish DEF ServeLate, TypeOK
<1>4. CASE PrepareClaimSession
  BY <1>4, FreshAttempt
<1>5. CASE NonceRequest
  <2>1. CASE GiveUp
    BY <2>1, Idle
  <2>2. CASE /\ pubNonces' = [pubNonces EXCEPT ![at.p] = made[at.p] + 1]
             /\ Proceed("nonce", "build")
             /\ UNCHANGED <<claimTx, session, partialSigs, witness>>
    <3>1. secNonces' = [secNonces EXCEPT ![at.p][at.input] = made[at.p] + 1]
      BY <1>5 DEF NonceRequest, MakeNonce
    <3>2. pc = "nonce" /\ \A p \in 1 .. at.p - 1 : StillHas(p, pubNonces[p])
      BY <1>5 DEF NonceRequest, SessionInv
    <3>3. at'.input = at.input
      BY <2>2 DEF Proceed, TypeOK
    <3>4. \A p \in 1 .. at.p : StillHas(p, pubNonces[p])'
      <4>1. /\ \A q \in Participant : secNonces'[q][at.input] =
                 IF q = at.p THEN made[q] + 1 ELSE secNonces[q][at.input]
            /\ \A q \in Participant : pubNonces'[q] =
                 IF q = at.p THEN made[q] + 1 ELSE pubNonces[q]
        BY <2>2, <3>1, <1>t DEF TypeOK
      <4>2. SUFFICES ASSUME NEW p \in 1 .. at.p PROVE StillHas(p, pubNonces[p])'
        OBVIOUS
      <4>3. p \in Participant /\ (p = at.p \/ p \in 1 .. at.p - 1)
        BY <1>t
      <4> QED
        BY <3>2, <3>3, <4>1, <4>3 DEF StillHas
    <3>5. \A i \in DOMAIN witness' : ValidWitness(i)'
      BY <2>2, <3>2 DEF SessionInv, ValidWitness
    <3>7. CASE at.p < N
      <4>1. pc' = "nonce" /\ at'.p = at.p + 1
        BY <2>2, <3>7 DEF Proceed, TypeOK
      <4>2. \A p \in 1 .. at'.p - 1 : p \in 1 .. at.p
        BY <4>1, <1>t
      <4> QED
        BY <2>2, <3>3, <3>4, <3>5, <4>1, <4>2 DEF SessionInv
    <3>8. CASE ~(at.p < N)
      <4>1. pc' = "build" /\ at'.p = 1 /\ at.p = N
        BY <2>2, <3>8, <1>t DEF Proceed, TypeOK
      <4> QED
        BY <2>2, <3>3, <3>4, <3>5, <4>1, <1>t DEF SessionInv
    <3> QED
      BY <3>7, <3>8
  <2> QED
    BY <1>5, <2>1, <2>2 DEF NonceRequest
<1>6. CASE BuildSession
  <2>1. /\ pc = "build" /\ pc' = "sign" /\ at' = at /\ claimTx' = claimTx
        /\ witness' = witness /\ secNonces' = secNonces
        /\ session' = [agg |-> pubNonces, msg |-> SessionMessage]
    BY <1>6 DEF BuildSession, participants
  <2>2. \A i \in DOMAIN witness' : ValidWitness(i)'
    BY <2>1 DEF SessionInv, ValidWitness
  <2>3. \A p \in Participant : StillHas(p, session.agg[p])'
    BY <2>1 DEF SessionInv, StillHas
  <2>4. at.p = 1 /\ \A p \in Participant : ~(p < at.p)
    BY <2>1, <1>t DEF StepInv
  <2> QED
    BY <2>1, <2>2, <2>3, <2>4 DEF SessionInv, SessionMessage
<1>7. CASE SignRequest
  <2>1. CASE GiveUp
    BY <2>1, Idle
  <2>2. CASE /\ Answers(at.p, at.input)
             /\ partialSigs' = [partialSigs EXCEPT ![at.p] =
                  [nonce |-> secNonces[at.p][at.input], session |-> session]]
             /\ Proceed("sign", "aggregate")
             /\ UNCHANGED <<claimTx, pubNonces, session, witness>>
    <3>1. pc = "sign" /\ SignClaim(at.p, at.input, session)
      BY <1>7 DEF SignRequest
    <3>2. \A q \in Participant : q # at.p => secNonces'[q] = secNonces[q]
      BY <3>1, <1>t, SignClaimTakes
    <3>3. at'.input = at.input
      BY <2>2 DEF Proceed, TypeOK
    <3>4. secNonces[at.p][at.input] = session.agg[at.p]
      <4>1. StillHas(at.p, session.agg[at.p])
        <5>1. \A p \in Participant : p >= at.p => StillHas(p, session.agg[p])
          BY <3>1 DEF SessionInv
        <5>2. at.p >= at.p
          BY <1>t
        <5> QED
          BY <5>1, <5>2, <1>t
      <4> QED
        BY <2>2, <4>1 DEF StillHas, Answers
    <3>5. \A p \in Participant : p <= at.p =>
            partialSigs'[p] = [nonce |-> session.agg[p], session |-> session]
      <4>1. \A p \in Participant : partialSigs'[p] =
              IF p = at.p THEN [nonce |-> session.agg[p], session |-> session]
                          ELSE partialSigs[p]
        BY <2>2, <3>4 DEF TypeOK
      <4>2. \A p \in Participant : p <= at.p => p = at.p \/ p < at.p
        BY <1>t
      <4>3. \A p \in Participant : p < at.p =>
              partialSigs[p] = [nonce |-> session.agg[p], session |-> session]
        BY <3>1 DEF SessionInv
      <4> QED
        BY <4>1, <4>2, <4>3
    <3>6. \A p \in Participant : p > at.p => StillHas(p, session.agg[p])'
      <4>1. \A p \in Participant : p > at.p => p >= at.p /\ p # at.p
        BY <1>t
      <4>2. \A p \in Participant : p >= at.p => StillHas(p, session.agg[p])
        BY <3>1 DEF SessionInv
      <4> QED
        BY <2>2, <3>2, <3>3, <4>1, <4>2 DEF StillHas
    <3>7. \A i \in DOMAIN witness' : ValidWitness(i)'
      BY <2>2, <3>1 DEF SessionInv, ValidWitness
    <3>8. session.msg = [tx |-> claimTx, utxos |-> claimTx, input |-> at.input]
      BY <3>1 DEF SessionInv
    <3>9. CASE at.p < N
      <4>1. pc' = "sign" /\ at'.p = at.p + 1
        BY <2>2, <3>9 DEF Proceed, TypeOK
      <4>2. \A p \in Participant : (p < at'.p <=> p <= at.p) /\ (p >= at'.p <=> p > at.p)
        BY <4>1, <1>t
      <4> QED
        BY <2>2, <3>3, <3>5, <3>6, <3>7, <3>8, <4>1, <4>2 DEF SessionInv
    <3>10. CASE ~(at.p < N)
      <4>1. pc' = "aggregate" /\ at'.p = 1 /\ \A p \in Participant : p <= at.p
        BY <2>2, <3>10, <1>t DEF Proceed, TypeOK
      <4> QED
        BY <2>2, <3>3, <3>5, <3>7, <3>8, <4>1 DEF SessionInv
    <3> QED
      BY <3>9, <3>10
  <2> QED
    BY <1>7, <2>1, <2>2 DEF SignRequest
<1>8. CASE SignTimeout
  BY <1>8, Idle DEF SignTimeout
<1>9. CASE Aggregate
  <2>1. /\ pc = "aggregate" /\ claimTx' = claimTx /\ session' = session
        /\ witness' = Append(witness, partialSigs)
    BY <1>9 DEF Aggregate
  <2>2. /\ at.input = Len(witness) + 1 /\ Len(witness) < Len(claimTx) /\ at.p = 1
        /\ session.msg = [tx |-> claimTx, utxos |-> claimTx, input |-> at.input]
        /\ \A p \in Participant :
             partialSigs[p] = [nonce |-> session.agg[p], session |-> session]
        /\ \A i \in DOMAIN witness : ValidWitness(i)
    BY <2>1 DEF SessionInv, StepInv
  <2>3. Len(witness) \in Nat /\ Len(claimTx) \in Nat
    BY DEF TypeOK, Tx
  <2>4. /\ Len(witness') = Len(witness) + 1
        /\ DOMAIN witness' = 1 .. Len(witness) + 1 /\ DOMAIN witness = 1 .. Len(witness)
        /\ witness'[Len(witness) + 1] = partialSigs
        /\ \A i \in 1 .. Len(witness) : witness'[i] = witness[i]
    BY <2>1 DEF TypeOK
  <2>5. \A i \in DOMAIN witness' : ValidWitness(i)'
    <3>1. ASSUME NEW i \in DOMAIN witness', i = Len(witness) + 1 PROVE ValidWitness(i)'
      <4>1. witness'[i] = partialSigs /\ i = at.input
        BY <2>2, <2>4, <3>1
      <4>2. partialSigs[1].session = session
        <5>1. \A n, s : [nonce |-> n, session |-> s].session = s
          OBVIOUS
        <5>2. partialSigs[1] = [nonce |-> session.agg[1], session |-> session]
          BY <2>2, Constants, Zenon
        <5> QED
          BY <5>1, <5>2, Zenon
      <4>3. session.msg = [tx |-> claimTx', utxos |-> claimTx', input |-> i]
        BY <2>1, <2>2, <4>1
      <4> QED
        BY <2>2, <4>1, <4>2, <4>3 DEF ValidWitness
    <3>2. ASSUME NEW i \in DOMAIN witness PROVE ValidWitness(i)'
      BY <2>1, <2>2, <2>4, <3>2 DEF ValidWitness
    <3> QED
      BY <2>3, <2>4, <3>1, <3>2
  <2>6. CASE Len(witness') < Len(claimTx)
    <3>1. pc' = "nonce" /\ at' = [at EXCEPT !.input = @ + 1]
      BY <1>9, <2>6 DEF Aggregate
    <3>2. at'.p = 1
      BY <2>2, <3>1 DEF TypeOK
    <3>3. 1 .. at'.p - 1 = {}
      BY <3>2
    <3> QED
      BY <2>5, <3>1, <3>2, <3>3 DEF SessionInv
  <2>7. CASE ~(Len(witness') < Len(claimTx))
    <3>1. pc' = "broadcast"
      BY <1>9, <2>7 DEF Aggregate
    <3> QED
      BY <2>5, <3>1 DEF SessionInv
  <2> QED
    BY <2>6, <2>7
<1>10. CASE Broadcast
  BY <1>10, Idle DEF Broadcast
<1>11. CASE NonceTimeout
  BY <1>11, Idle DEF NonceTimeout
<1>12. CASE ServeLateNonce
  <2>1. PICK r \in lateNonces : /\ secNonces' = [secNonces EXCEPT ![r.p][r.input] = made[r.p] + 1]
                               /\ ~InUse(r.p, r.input)
    BY <1>12 DEF ServeLateNonce, MakeNonce
  <2>2. r.p \in Participant /\ r.input \in Coin
    BY DEF TypeOK
  <2>3. \A p \in Participant : InUse(p, at.input) => p # r.p \/ at.input # r.input
    BY <2>1
  <2>4. \A p \in Participant :
          InUse(p, at.input) => secNonces'[p][at.input] \in {0, secNonces[p][at.input]}
    <3>1. \A p \in Participant : \A c \in Coin :
            p # r.p \/ c # r.input => secNonces'[p][c] = secNonces[p][c]
      BY <2>1, <2>2 DEF TypeOK
    <3> QED
      BY <2>3, <3>1, <1>t
  <2> QED
    BY <1>12, <2>4, SecretsVanish DEF ServeLateNonce
<1> QED
  BY <1>1, <1>2, <1>3, <1>4, <1>5, <1>6, <1>7, <1>8, <1>9, <1>10, <1>11, <1>12
  DEF Next, vars, participants, Contribute, Mine, CollectContributions, WaitForUtxos, Store, Setup,
      ClaimHtlc, Refund

LEMMA NextSessionInv == PerInput /\ RoundInv /\ [Next]_vars /\ ~overtaken' => SessionInv'
<1> SUFFICES ASSUME PerInput, RoundInv, [Next]_vars, ~overtaken' PROVE SessionInv'
  OBVIOUS
<1>1. CASE PrepareClaimSession
  BY <1>1, FreshAttempt DEF RoundInv
<1>2. CASE ~PrepareClaimSession
  <2>1. overtaken => overtaken'
    BY <1>2 DEF Next, vars, Restart, Setup, Contribute, Mine, CollectContributions, WaitForUtxos, Store,
      NonceRequest, NonceTimeout, ServeLateNonce, BuildSession, SignRequest, SignTimeout,
      ServeLate, Aggregate, Broadcast, ClaimHtlc, Refund
  <2> QED
    BY <2>1, SameAttempt DEF RoundInv
<1> QED
  BY <1>1, <1>2

(***************************************************************************)
(* The fate of the pot: N outputs of N participants are all of them.       *)
(***************************************************************************)
\* A transaction of N outputs or more that the node accepts takes every output there is.
LEMMA WholePot ==
  ASSUME TypeOK, FateInv, NEW tx \in Tx, Len(tx) >= N, Spendable(tx)
  PROVE  /\ \A c \in Coin : owner[c] # 0 => \E i \in DOMAIN tx : tx[i] = c
         /\ \A p \in Participant : Contributed(p)
         /\ \A i \in DOMAIN tx : owner[tx[i]] # 0
<1> DEFINE payer == [i \in 1 .. N |-> owner[tx[i]]]
<1>1. /\ Len(tx) \in Nat /\ DOMAIN tx = 1 .. Len(tx) /\ N \in Nat
      /\ \A i \in DOMAIN tx : tx[i] \in Coin
  BY DEF Tx
<1>2. \A i \in DOMAIN tx : owner[tx[i]] \in Participant
  BY <1>1 DEF Spendable, Unspent, TypeOK, Participant
<1>3. \A i, j \in DOMAIN tx : owner[tx[i]] = owner[tx[j]] => i = j
  BY <1>1, <1>2 DEF FateInv, Spendable, Unspent
<1>4. payer \in Injection(1 .. N, Participant)
  <2>1. payer \in [1 .. N -> Participant]
    BY <1>1, <1>2
  <2>2. \A i, j \in 1 .. N : payer[i] = payer[j] => i = j
    BY <1>1, <1>3
  <2> QED
    BY <2>1, <2>2 DEF Injection, IsInjective
<1>5. payer \in Surjection(1 .. N, Participant)
  <2>1. IsFiniteSet(Participant) /\ Cardinality(1 .. N) = Cardinality(Participant)
    BY FS_Interval, <1>1 DEF Participant
  <2> QED
    BY <1>4, <2>1, FS_Injection
<1>6. \A p \in Participant : \E i \in DOMAIN tx : owner[tx[i]] = p
  <2>1. \A p \in Participant : \E i \in 1 .. N : payer[i] = p
    BY <1>5 DEF Surjection
  <2>2. \A i \in 1 .. N : i \in DOMAIN tx /\ payer[i] = owner[tx[i]]
    BY <1>1
  <2> QED
    BY <2>1, <2>2
<1>7. ASSUME NEW c \in Coin, owner[c] # 0 PROVE \E i \in DOMAIN tx : tx[i] = c
  <2>1. owner[c] \in Participant
    BY <1>7 DEF TypeOK, Participant
  <2>2. PICK i \in DOMAIN tx : owner[tx[i]] = owner[c]
    BY <1>6, <2>1
  <2> QED
    BY <1>1, <1>7, <2>2 DEF FateInv
<1> QED
  BY <1>1, <1>2, <1>6, <1>7 DEF Contributed, Spendable, Unspent

LEMMA SpendKeepsFate ==
  ASSUME TypeOK, FateInv, NEW tx \in Tx, Patient => Len(tx) >= N, Spendable(tx),
         NEW how, Spend(tx, how), UNCHANGED owner,
         Patient /\ pc' # "idle" => Len(claimTx') >= N
  PROVE  FateInv'
<1>1. \A c \in Coin :
        spentBy'[c] = IF \E i \in DOMAIN tx : tx[i] = c THEN how ELSE spentBy[c]
  BY DEF Spend
<1>2. \A p : Contributed(p)' <=> Contributed(p)
  BY DEF Contributed
<1>3. \A c \in Coin : spentBy'[c] # "none" =>
        owner[c] # 0 /\ (Patient => \A p \in Participant : Contributed(p))
  BY <1>1, WholePot DEF FateInv, Spendable, Unspent
<1>4. Patient => \A c \in Coin : owner[c] # 0 => spentBy'[c] = how
  BY <1>1, WholePot
<1> QED
  BY <1>2, <1>3, <1>4 DEF FateInv, PotHasOneFate

LEMMA NextFateInv == "again" \notin Faults /\ RoundInv /\ [Next]_vars => FateInv'
<1> SUFFICES ASSUME "again" \notin Faults, RoundInv, [Next]_vars PROVE FateInv'
  OBVIOUS
<1>0. TypeOK /\ FateInv
  BY DEF RoundInv
<1> USE <1>0
<1>1. CASE /\ UNCHANGED <<owner, spentBy>>
           /\ UNCHANGED claimTx /\ (pc' = "idle" \/ pc # "idle")
  BY <1>1 DEF FateInv, PotHasOneFate, Contributed
<1>2. CASE UNCHANGED <<owner, spentBy, claimTx, pc>>
  BY <1>2 DEF FateInv, PotHasOneFate, Contributed
<1>3. ASSUME NEW p \in Participant, NEW c \in Coin, Contribute(p, c) PROVE FateInv'
  <2>1. /\ owner[c] = 0 /\ ~Contributed(p) /\ owner' = [owner EXCEPT ![c] = p]
        /\ UNCHANGED <<spentBy, claimTx, pc>>
    BY <1>3 DEF Contribute, driver
  <2>2. \A d \in Coin : owner'[d] = IF d = c THEN p ELSE owner[d]
    BY <2>1 DEF TypeOK
  <2>3. p # 0 /\ \A d \in Coin : owner[d] # p
    BY <2>1 DEF Contributed, Participant
  <2>4. \A d, e \in Coin : owner'[d] = owner'[e] => d = e \/ owner'[d] = 0
    BY <2>2, <2>3 DEF FateInv
  <2>5. \A q \in Participant : Contributed(q) => Contributed(q)'
    <3>1. \A q \in Participant : q # 0
      BY DEF Participant
    <3> QED
      BY <2>1, <2>2, <3>1 DEF Contributed
  <2>6. \A d \in Coin : spentBy[d] # "none" => owner'[d] # 0
    BY <2>2, <2>3 DEF FateInv
  <2>7. Patient => \A d \in Coin : spentBy[d] = "none"
    BY <2>1 DEF FateInv
  <2> QED
    BY <2>1, <2>4, <2>5, <2>6, <2>7 DEF FateInv, PotHasOneFate
<1>4. CASE PrepareClaimSession
  BY <1>4 DEF PrepareClaimSession, MayAct, chain, FateInv, PotHasOneFate, Contributed
<1>5. CASE Broadcast
  <2>1. pc = "broadcast" /\ pc' = "idle" /\ UNCHANGED <<owner, claimTx>>
    BY <1>5 DEF Broadcast, GiveUp
  <2>2. CASE Spendable(claimTx) /\ Spend(claimTx, "claim")
    BY <2>1, <2>2, SpendKeepsFate DEF FateInv, TypeOK
  <2>3. CASE UNCHANGED spentBy
    BY <1>1, <2>1, <2>3
  <2> QED
    BY <1>5, <2>2, <2>3 DEF Broadcast
<1>6. CASE ClaimHtlc \/ Refund
  <2>1. /\ Patient => Len(contributions) >= N
        /\ Spendable(contributions) /\ UNCHANGED <<owner, claimTx, pc>>
        /\ \E how \in {"htlc", "refund"} : Spend(contributions, how)
    BY <1>6 DEF ClaimHtlc, Refund, MayAct, driver
  <2> QED
    BY <2>1, SpendKeepsFate DEF FateInv, TypeOK
<1>7. CASE NonceRequest \/ SignRequest
  <2>1. UNCHANGED <<owner, spentBy, claimTx>> /\ pc # "idle"
    BY <1>7 DEF NonceRequest, SignRequest, GiveUp, chain
  <2> QED
    BY <1>1, <2>1
<1>8. CASE BuildSession \/ NonceTimeout \/ SignTimeout \/ Aggregate
  <2>1. UNCHANGED <<owner, spentBy, claimTx>> /\ pc # "idle"
    BY <1>8 DEF BuildSession, NonceTimeout, SignTimeout, Aggregate, GiveUp, chain
  <2> QED
    BY <1>1, <2>1
<1> QED
  BY <1>2, <1>3, <1>4, <1>5, <1>6, <1>7, <1>8
  DEF Next, vars, chain, driver, Restart, Setup, Mine, CollectContributions, WaitForUtxos, Store, ServeLate,
      ServeLateNonce

(***************************************************************************)
(* What a refund pays: a participant has one coin, so there are at most N. *)
(***************************************************************************)
CoinsOf(p) == {c \in Coin : owner[c] = p}

LEMMA CoinsAreFinite == \A S \in SUBSET Coin : IsFiniteSet(S)
<1>1. IsFiniteSet(Coin)
  BY FS_Interval DEF Coin
<1> QED
  BY <1>1, FS_Subset

LEMMA AtLeastN ==
  ASSUME NEW k \in Nat, k >= 1
  PROVE  N <= N * k
OBVIOUS

LEMMA AtLeastZero ==
  ASSUME NEW k \in Nat
  PROVE  0 <= N * k
OBVIOUS

LEMMA RefundedAtMostN ==
  ASSUME TypeOK, FateInv
  PROVE  Refunded \in Nat /\ Refunded <= N
<1> DEFINE R == {c \in Coin : spentBy[c] = "refund"}
           payer == [c \in R |-> owner[c]]
<1>1. IsFiniteSet(R) /\ IsFiniteSet(Participant) /\ Cardinality(Participant) = N
  BY CoinsAreFinite, FS_Interval DEF Participant
<1>2. \A c \in R : owner[c] # 0 /\ owner[c] \in Participant
  BY DEF FateInv, TypeOK, Participant
<1>3. payer \in Injection(R, Participant)
  BY <1>2 DEF Injection, IsInjective, FateInv
<1> QED
  BY <1>1, <1>3, FS_Injection, FS_CardinalityType DEF Refunded

(***************************************************************************)
(* The refinement: a participant has one coin, so its share is where that  *)
(* coin is.                                                                *)
(***************************************************************************)
LEMMA ShareIs ==
  ASSUME FateInv, NEW p \in Participant, NEW c \in Coin, owner[c] = p
  PROVE  Share(p) = IF spentBy[c] = "none" THEN "in" ELSE spentBy[c]
<1>1. Contributed(p) /\ p # 0
  BY DEF Contributed, Participant
<1>2. CoinOf(p) \in Coin /\ owner[CoinOf(p)] = p
  BY DEF CoinOf
<1>3. CoinOf(p) = c
  BY <1>1, <1>2 DEF FateInv
<1> QED
  BY <1>1, <1>3 DEF Share

LEMMA ShareBecomes ==
  ASSUME FateInv', NEW p \in Participant, NEW c \in Coin, owner'[c] = p
  PROVE  Share(p)' = IF spentBy'[c] = "none" THEN "in" ELSE spentBy'[c]
<1>1. Contributed(p)' /\ p # 0
  BY DEF Contributed, Participant
<1>2. CoinOf(p)' \in Coin /\ owner'[CoinOf(p)'] = p
  BY DEF CoinOf
<1>3. CoinOf(p)' = c
  BY <1>1, <1>2 DEF FateInv
<1> QED
  BY <1>1, <1>3 DEF Share

\* A transaction of the whole pot takes every share.
LEMMA SpendTakes ==
  ASSUME TypeOK, FateInv, FateInv', NEW tx \in Tx, Len(tx) >= N, Spendable(tx),
         NEW how \in {"claim", "htlc", "refund"}, Spend(tx, how), UNCHANGED owner
  PROVE  Abstract!Take(how)
<1>1. SUFFICES ASSUME NEW p \in Participant PROVE Share(p) = "in" /\ Share(p)' = how
  BY DEF Abstract!Take, Shares
<1>2. PICK c \in Coin : owner[c] = p
  BY WholePot DEF Contributed
<1>3. PICK i \in DOMAIN tx : tx[i] = c
  <2>1. owner[c] # 0
    BY <1>2 DEF Participant
  <2> QED
    BY <2>1, WholePot
<1>4. spentBy[c] = "none" /\ spentBy'[c] = how
  BY <1>3 DEF Spendable, Unspent, Spend
<1> QED
  BY <1>2, <1>4, ShareIs, ShareBecomes

LEMMA ContributePutsIn ==
  ASSUME TypeOK, FateInv, FateInv', "again" \notin Faults,
         NEW p \in Participant, NEW c \in Coin, Contribute(p, c)
  PROVE  Abstract!PutIn(p)
<1>1. /\ owner[c] = 0 /\ ~Contributed(p) /\ spentBy' = spentBy
      /\ owner' = [owner EXCEPT ![c] = p]
  BY DEF Contribute
<1>2. \A d \in Coin : owner'[d] = IF d = c THEN p ELSE owner[d]
  BY <1>1 DEF TypeOK
<1>3. spentBy[c] = "none"
  BY <1>1 DEF FateInv
<1>4. Share(p) = "out" /\ Share(p)' = "in"
  BY <1>1, <1>2, <1>3, ShareBecomes DEF Share
<1>5. ASSUME NEW q \in Participant, q # p PROVE Share(q)' = Share(q)
  <2>1. CASE Contributed(q)
    <3>1. PICK d \in Coin : owner[d] = q
      BY <2>1 DEF Contributed
    <3>2. owner'[d] = q
      <4>1. q # 0
        BY DEF Participant
      <4> QED
        BY <1>1, <1>2, <3>1, <4>1
    <3> QED
      BY <1>1, <3>1, <3>2, ShareIs, ShareBecomes
  <2>2. CASE ~Contributed(q)
    <3>1. ~Contributed(q)'
      BY <1>2, <1>5, <2>2 DEF Contributed
    <3> QED
      BY <2>2, <3>1 DEF Share
  <2> QED
    BY <2>1, <2>2
<1>6. \A q \in Participant : Share(q)' = IF q = p THEN "in" ELSE Share(q)
  BY <1>4, <1>5
<1> QED
  BY <1>4, <1>6 DEF Abstract!PutIn, Shares

LEMMA NextImplementsPot ==
  ASSUME "again" \notin Faults, Patient
  PROVE  RoundInv /\ RoundInv' /\ [Next]_vars => [Abstract!Next]_Shares
<1> SUFFICES ASSUME RoundInv, RoundInv', [Next]_vars PROVE [Abstract!Next]_Shares
  OBVIOUS
<1>0. TypeOK /\ FateInv /\ FateInv'
  BY DEF RoundInv
<1>1. CASE UNCHANGED <<owner, spentBy>>
  BY <1>1 DEF Shares, Share, Contributed, CoinOf
<1>2. ASSUME NEW p \in Participant, NEW c \in Coin, Contribute(p, c)
      PROVE  Abstract!Next
  BY <1>0, <1>2, ContributePutsIn DEF Abstract!Next
<1>3. ASSUME NEW tx \in Tx, Len(tx) >= N, Spendable(tx), UNCHANGED owner,
             NEW how \in {"claim", "htlc", "refund"}, Spend(tx, how)
      PROVE  Abstract!Next
  BY <1>0, <1>3, SpendTakes DEF Abstract!Next
<1>4. CASE Broadcast
  <2>1. claimTx \in Tx /\ Len(claimTx) >= N /\ UNCHANGED owner
    BY <1>0, <1>4 DEF Broadcast, FateInv, TypeOK
  <2>2. (Spendable(claimTx) /\ Spend(claimTx, "claim")) \/ UNCHANGED spentBy
    BY <1>4 DEF Broadcast
  <2> QED
    BY <1>1, <1>3, <2>1, <2>2
<1>5. CASE ClaimHtlc \/ Refund
  <2>1. contributions \in Tx /\ Len(contributions) >= N /\ UNCHANGED owner
    BY <1>0, <1>5 DEF ClaimHtlc, Refund, MayAct, TypeOK
  <2>2. Spendable(contributions) /\ \E how \in {"htlc", "refund"} : Spend(contributions, how)
    BY <1>5 DEF ClaimHtlc, Refund
  <2> QED
    BY <1>3, <2>1, <2>2
<1> QED
  BY <1>1, <1>2, <1>4, <1>5
  DEF Next, vars, chain, Restart, Setup, Mine, CollectContributions, WaitForUtxos, Store, PrepareClaimSession,
      NonceRequest, NonceTimeout, ServeLateNonce, BuildSession, SignRequest, SignTimeout,
      ServeLate, Aggregate

(***************************************************************************)
(* Results.                                                                *)
(***************************************************************************)
\* What holds in every state of a round, and makes the rest inductive.
THEOREM RoundInvariant == Spec => []RoundInv
<1>1. Init => RoundInv
  <2> SUFFICES ASSUME Init PROVE RoundInv
    OBVIOUS
  <2>1. TypeOK
    <3>1. /\ owner \in [Coin -> 0 .. N] /\ age \in [Coin -> 0 .. TRefund]
          /\ secNonces \in [Participant -> [Coin -> Nonce]]
      BY Constants DEF Init
    <3>2. contributions \in Tx /\ Len(contributions) <= MaxCoins
      BY DEF Init, Tx
    <3>3. /\ claimTx \in Tx /\ Len(claimTx) <= MaxCoins
          /\ witness \in Seq([Participant -> PartialSig]) /\ Len(witness) <= Len(claimTx)
      BY DEF Init, Tx
    <3> QED
      BY <3>1, <3>2, <3>3, Constants DEF Init, TypeOK
  <2>2. NonceInv
    <3>1. \A p \in Participant : /\ made[p] = 0 /\ signed[p] = {}
                                 /\ \A c \in Coin : secNonces[p][c] = 0
      BY DEF Init
    <3> QED
      BY <3>1 DEF NonceInv
  <2>3. StepInv /\ SessionInv
    BY DEF Init, StepInv, SessionInv
  <2>4. FateInv
    BY DEF Init, FateInv, PotHasOneFate
  <2> QED
    BY <2>1, <2>2, <2>3, <2>4 DEF RoundInv
<1>2. RoundInv /\ [Next]_vars => RoundInv'
  BY NextTypeOK, NextNonceInv, NextStepInv, NextSessionInv, NextFateInv DEF RoundInv
<1> QED
  BY <1>1, <1>2, PTL DEF Spec

\* No step leaves the types: no loop of the driver runs past its last participant
\* or input.
THEOREM TypeCorrect == Spec => []TypeOK
<1>1. RoundInv => TypeOK
  BY DEF RoundInv
<1> QED
  BY <1>1, RoundInvariant, PTL

\* A secret nonce of api_participant signs once, under every fault of the model.
THEOREM NonceSignsOnceCorrect == Spec => []NonceSignsOnce
<1>1. RoundInv => NonceSignsOnce
  BY DEF RoundInv, NonceInv, NonceSignsOnce
<1> QED
  BY <1>1, RoundInvariant, PTL

\* With a session per input, a claim every participant answered is valid, unless a
\* nonce request of an earlier attempt replaced a nonce in use.
THEOREM AnsweredClaimIsValidCorrect ==
  ASSUME PerInput
  PROVE  Spec => []AnsweredClaimIsValid
<1>1. RoundInv => AnsweredClaimIsValid
  <2> SUFFICES ASSUME RoundInv, pc = "broadcast", ~overtaken PROVE ValidClaim
    BY DEF AnsweredClaimIsValid
  <2>1. Len(witness) = Len(claimTx) /\ \A i \in DOMAIN witness : ValidWitness(i)
    BY DEF RoundInv, StepInv, SessionInv
  <2>2. DOMAIN witness = DOMAIN claimTx
    BY <2>1 DEF RoundInv, TypeOK, Tx
  <2> QED
    BY <2>1, <2>2 DEF ValidClaim
<1> QED
  BY <1>1, RoundInvariant, PTL

\* When each participant contributes at most once and the driver waits for N outputs,
\* the pot is claimed, swept or refunded as a whole.
THEOREM PotHasOneFateCorrect ==
  ASSUME "again" \notin Faults
  PROVE  Spec => []PotHasOneFate
<1>1. RoundInv => PotHasOneFate
  BY DEF RoundInv, FateInv
<1> QED
  BY <1>1, RoundInvariant, PTL

\* When each participant contributes at most once and the driver waits for N outputs, a
\* refund gives nobody more than they put in.
THEOREM RefundReturnsSharesCorrect ==
  ASSUME "again" \notin Faults, Patient
  PROVE  Spec => []RefundReturnsShares
<1>1. RoundInv => RefundReturnsShares
  <2> SUFFICES ASSUME RoundInv, NEW p \in Participant
               PROVE  Refunded <= N * Cardinality(CoinsOf(p))
    BY DEF RefundReturnsShares, CoinsOf
  <2>0. TypeOK /\ FateInv
    BY DEF RoundInv
  <2>1. Refunded \in Nat /\ Refunded <= N
    BY <2>0, RefundedAtMostN
  <2>2. IsFiniteSet(CoinsOf(p)) /\ Cardinality(CoinsOf(p)) \in Nat
    <3>1. CoinsOf(p) \in SUBSET Coin
      BY DEF CoinsOf
    <3> QED
      BY <3>1, CoinsAreFinite, FS_CardinalityType
  <2>3. CASE Contributed(p)
    <3>1. CoinsOf(p) # {}
      BY <2>3 DEF Contributed, CoinsOf
    <3>2. Cardinality(CoinsOf(p)) >= 1
      BY <2>2, <3>1, FS_EmptySet
    <3> QED
      BY <2>1, <2>2, <3>2, AtLeastN
  <2>4. CASE ~Contributed(p)
    <3>1. {c \in Coin : spentBy[c] = "refund"} = {}
      BY <2>0, <2>4 DEF FateInv
    <3>2. Refunded = 0
      BY <3>1, FS_EmptySet DEF Refunded
    <3> QED
      BY <2>2, <3>2, AtLeastZero
  <2> QED
    BY <2>3, <2>4
<1> QED
  BY <1>1, RoundInvariant, PTL

\* A driver that waits for N outputs, of participants who contribute at most once,
\* implements the pot: all in, then all out, once.
THEOREM RoundImplementsPot ==
  ASSUME "again" \notin Faults, Patient
  PROVE  Spec => ImplementsPot
<1>1. Init => Abstract!Init
  BY DEF Init, Abstract!Init, Shares, Share, Contributed, Participant
<1> QED
  BY <1>1, NextImplementsPot, RoundInvariant, PTL DEF Spec, ImplementsPot, Abstract!Spec
==============================================================================
