---------------------------- MODULE OnChainRound -----------------------------
(***************************************************************************)
(* One on-chain round: the contributions as outputs of the round's address *)
(* (tanda/coordinator.py), the MuSig2 sessions with the participants'      *)
(* processes (tanda/api_participant.py), and the three ways the outputs    *)
(* are spent.                                                              *)
(*                                                                         *)
(* The driver makes the calls in the order of docs/sequence-diagrams.md    *)
(* and tests/test_e2e_regtest.py.  Signatures are what MuSig2 shows of     *)
(* them: an aggregate is valid exactly when every participant signed this  *)
(* message in this session with the nonce that was aggregated.  Scripts    *)
(* are what TapScript shows of them.                                       *)
(***************************************************************************)
EXTENDS Integers, Sequences, FiniteSets

CONSTANTS
  N,                  \* participants
  MaxCoins,           \* outputs at the round's address in a behaviour
  TRefund,            \* t_refund, in blocks
  MaxNonces,          \* nonces a participant makes in a behaviour
  PerInput,           \* one session per input, or the one session of Coordinator
  Patient,            \* the driver waits for N outputs
  ObjectScripts,      \* whether the node lists a scriptPubKey as an object
  Faults              \* what may go wrong: see Fault

Fault == {"lost",     \* an answer does not arrive, the request was served
          "late",     \* a request is served after the driver gave it up
          "restart",  \* a participant's process starts again
          "again"}    \* a participant contributes twice

ASSUME ParametersAssumption ==
  /\ N \in Nat \ {0} /\ MaxCoins \in Nat \ {0} /\ TRefund \in Nat \ {0} /\ MaxNonces \in Nat
  /\ PerInput \in BOOLEAN /\ Patient \in BOOLEAN /\ ObjectScripts \in BOOLEAN
  /\ Faults \subseteq Fault

Participant == 1 .. N
Coin == 1 .. MaxCoins           \* in the order scantxoutset lists them
Winner == 1

VARIABLES
  owner,              \* who contributed a coin, or 0
  age,                \* its confirmations, up to TRefund
  spentBy,            \* "none", or the kind of transaction that spent it
  contributions,      \* rs.contributions, as the list of its values
  pc,                 \* where the driver's attempt at a claim is
  at,                 \* the input and the participant it is at
  claimTx,            \* the inputs of rs.claim_tx
  pubNonces,          \* rs.pub_nonces
  session,            \* rs.session_ctx: the aggregated nonces and the message
  partialSigs,        \* rs.partial_sigs
  witness,            \* what aggregation gave for each input
  secNonces,          \* app.state.sec_nonces of each participant, by input
  configured,         \* whether app.state.setup_rounds has the round
  made,               \* history: nonces each participant made
  signed,             \* history: what each participant's nonces signed
  late,               \* sign requests that will be served with nobody waiting
  lateNonces,         \* nonce requests that will be
  overtaken           \* history: one of them replaced a nonce the attempt uses

chain == <<owner, age, spentBy>>
driver == <<pc, at, claimTx, pubNonces, session, partialSigs, witness>>
participants == <<secNonces, configured, made, signed, late, lateNonces>>
vars == <<chain, contributions, driver, participants, overtaken>>

Nonce == 0 .. MaxNonces         \* 0: none
Tx == Seq(Coin)
Message == [tx : Tx, utxos : Tx, input : Coin]
Session == [agg : [Participant -> Nonce], msg : Message]
PartialSig == [nonce : Nonce, session : Session]

NoMessage == [tx |-> <<>>, utxos |-> <<>>, input |-> 1]
NoSession == [agg |-> [p \in Participant |-> 0], msg |-> NoMessage]
NoSig == [nonce |-> 0, session |-> NoSession]

TypeOK ==
  /\ owner \in [Coin -> 0 .. N]
  /\ age \in [Coin -> 0 .. TRefund]
  /\ spentBy \in [Coin -> {"none", "claim", "htlc", "refund"}]
  /\ contributions \in Tx /\ Len(contributions) <= MaxCoins
  /\ pc \in {"idle", "nonce", "build", "sign", "aggregate", "broadcast"}
  /\ at \in [input : Coin, p : Participant]
  /\ claimTx \in Tx /\ Len(claimTx) <= MaxCoins
  /\ pubNonces \in [Participant -> Nonce]
  /\ session \in Session
  /\ partialSigs \in [Participant -> PartialSig]
  /\ witness \in Seq([Participant -> PartialSig]) /\ Len(witness) <= Len(claimTx)
  /\ secNonces \in [Participant -> [Coin -> Nonce]]
  /\ configured \in [Participant -> BOOLEAN]
  /\ made \in [Participant -> Nonce]
  /\ signed \in [Participant -> SUBSET PartialSig]
  /\ late \in SUBSET [p : Participant, input : Coin, session : Session]
  /\ lateNonces \in SUBSET [p : Participant, input : Coin]
  /\ overtaken \in BOOLEAN

Init ==
  /\ owner = [c \in Coin |-> 0]
  /\ age = [c \in Coin |-> 0]
  /\ spentBy = [c \in Coin |-> "none"]
  /\ contributions = <<>>
  /\ pc = "idle"
  /\ at = [input |-> 1, p |-> 1]
  /\ claimTx = <<>>
  /\ pubNonces = [p \in Participant |-> 0]
  /\ session = NoSession
  /\ partialSigs = [p \in Participant |-> NoSig]
  /\ witness = <<>>
  /\ secNonces = [p \in Participant |-> [c \in Coin |-> 0]]
  /\ configured = [p \in Participant |-> TRUE]
  /\ made = [p \in Participant |-> 0]
  /\ signed = [p \in Participant |-> {}]
  /\ late = {}
  /\ lateNonces = {}
  /\ overtaken = FALSE

------------------------------------------------------------------------------
(* The chain *)

Contributed(p) == \E c \in Coin : owner[c] = p
Unspent(c) == owner[c] # 0 /\ spentBy[c] = "none"

\* POST /contribute.  The transaction id decides where the coin is listed.
Contribute(p, c) ==
  /\ owner[c] = 0
  /\ Contributed(p) => "again" \in Faults
  /\ owner' = [owner EXCEPT ![c] = p]
  /\ UNCHANGED <<age, spentBy, contributions, driver, participants, overtaken>>

Mine ==
  /\ \E c \in Coin : Unspent(c) /\ age[c] < TRefund
  /\ age' = [c \in Coin |-> IF owner[c] # 0 /\ age[c] < TRefund THEN age[c] + 1 ELSE age[c]]
  /\ UNCHANGED <<owner, spentBy, contributions, driver, participants, overtaken>>

\* A transaction is accepted when each input is an unspent output, named once.
Spendable(tx) ==
  \A i \in DOMAIN tx : Unspent(tx[i]) /\ \A j \in DOMAIN tx : tx[i] = tx[j] => i = j
Spend(tx, how) ==
  spentBy' = [c \in Coin |-> IF \E i \in DOMAIN tx : tx[i] = c THEN how ELSE spentBy[c]]

------------------------------------------------------------------------------
(* Contributions *)

\* scan_utxos: scantxoutset sees confirmed outputs, and lists them in its order.
Visible == {c \in Coin : Unspent(c) /\ age[c] > 0}
Scans(found) == \A i, j \in DOMAIN found : i < j => found[i] < found[j]

\* The i-th output found replaces the i-th contribution; the others stay.
Overlay(found) ==
  found \o SubSeq(contributions, Len(found) + 1, Len(contributions))

\* The first n that a scan finds are stored.
Store(n) ==
  /\ \E found \in [1 .. Cardinality(Visible) -> Visible] :
       /\ Scans(found)
       /\ contributions' = Overlay(SubSeq(found, 1, n))
  /\ contributions' # contributions
  /\ UNCHANGED <<chain, driver, participants, overtaken>>

\* collect_contributions reads the field "hex" of each scriptPubKey.  A scriptPubKey
\* that is a string has none: the call raises at the first output, and stores nothing.
CollectContributions == ObjectScripts /\ Store(Cardinality(Visible))

\* wait_for_utxos of the tests takes either form: the first N outputs, once there are N.
WaitForUtxos == Cardinality(Visible) >= N /\ Store(N)

\* A mutant: one contribution may be missing.
MutMayAct == contributions # <<>> /\ (Patient => Len(contributions) + 1 >= N)

\* The driver goes on once N outputs were stored; the methods themselves ask for one.
MayAct == contributions # <<>> /\ (Patient => Len(contributions) >= N)

------------------------------------------------------------------------------
(* The cooperative claim *)

\* A mutant: the signatures of the attempt before are not thrown away.
MutPrepareClaimSession ==
  /\ pc = "idle" /\ MayAct
  /\ claimTx' = contributions
  /\ pc' = "nonce"
  /\ at' = [input |-> 1, p |-> 1]
  /\ overtaken' = FALSE
  /\ UNCHANGED <<chain, contributions, pubNonces, session, partialSigs, witness, participants>>

\* prepare_claim_session, for a coordinator that is not a participant.
PrepareClaimSession ==
  /\ pc = "idle" /\ MayAct
  /\ claimTx' = contributions
  /\ witness' = <<>>
  /\ overtaken' = FALSE
  /\ pc' = "nonce"
  /\ at' = [input |-> 1, p |-> 1]
  /\ UNCHANGED <<chain, contributions, pubNonces, session, partialSigs, participants>>

\* A call failed: the driver gives the attempt up, and may start another.
GiveUp == /\ pc' = "idle"
          /\ at' = [input |-> 1, p |-> 1]
          /\ UNCHANGED <<claimTx, pubNonces, session, partialSigs, witness>>

\* Go on with the next participant, or with the next step after the last.
Proceed(step, next) ==
  IF at.p < N THEN pc' = step /\ at' = [at EXCEPT !.p = @ + 1]
              ELSE pc' = next /\ at' = [at EXCEPT !.p = 1]

\* The handler of POST /nonce: a fresh pair; an earlier secret for the same input is
\* forgotten, whoever still counts on it.
MakeNonce(p, i) ==
  /\ made[p] < MaxNonces
  /\ made' = [made EXCEPT ![p] = @ + 1]
  /\ secNonces' = [secNonces EXCEPT ![p][i] = made[p] + 1]

NonceRequest ==
  LET p == at.p IN
  /\ pc = "nonce"
  /\ MakeNonce(p, at.input)
  /\ \/ /\ pubNonces' = [pubNonces EXCEPT ![p] = made[p] + 1]
        /\ Proceed("nonce", "build")
        /\ UNCHANGED <<claimTx, session, partialSigs, witness>>
     \/ "lost" \in Faults /\ GiveUp
  /\ UNCHANGED <<chain, contributions, configured, signed, late, lateNonces, overtaken>>

\* The driver times out before the participant has served the request.  Bound: one
\* request at a time is late.
NonceTimeout ==
  /\ "late" \in Faults
  /\ pc = "nonce" /\ late = {} /\ lateNonces = {}
  /\ lateNonces' = {[p |-> at.p, input |-> at.input]}
  /\ GiveUp
  /\ UNCHANGED <<chain, contributions, secNonces, configured, made, signed, late, overtaken>>

\* The attempt has the public half of p's nonce for input i, and waits for the signature.
InUse(p, i) ==
  /\ i = at.input
  /\ \/ pc = "nonce" /\ p < at.p
     \/ pc = "build"
     \/ pc = "sign" /\ p >= at.p

ServeLateNonce ==
  /\ \E r \in lateNonces :
       /\ MakeNonce(r.p, r.input)
       /\ lateNonces' = lateNonces \ {r}
       /\ overtaken' = (overtaken \/ InUse(r.p, r.input))
  /\ UNCHANGED <<chain, contributions, driver, configured, signed, late>>

\* A mutant: every input's session is given the sighash of input 0.
MutSessionMessage == [tx |-> claimTx, utxos |-> claimTx, input |-> 1]

\* The documented protocol hashes the outputs the transaction was built from; the
\* method reads rs.contributions again, and always takes input 0.
SessionMessage ==
  [tx |-> claimTx,
   utxos |-> IF PerInput THEN claimTx ELSE contributions,
   input |-> at.input]

\* finalize_nonce_aggregation and build_session_context.
BuildSession ==
  /\ pc = "build"
  /\ session' = [agg |-> pubNonces, msg |-> SessionMessage]
  /\ pc' = "sign"
  /\ UNCHANGED <<chain, contributions, at, claimTx, pubNonces, partialSigs, witness, participants, overtaken>>

\* A mutant: the secret nonce stays in the dictionary.
MutSignClaim(p, i, s) ==
  LET nonce == secNonces[p][i]
  IN  /\ UNCHANGED secNonces
      /\ signed' = IF nonce # 0 /\ configured[p]
                   THEN [signed EXCEPT ![p] = @ \cup {[nonce |-> nonce, session |-> s]}]
                   ELSE signed

\* The handler of POST /sign_claim for input i: the nonce is taken out first, so that it is gone
\* even when the round is not set up.
SignClaim(p, i, s) ==
  LET nonce == secNonces[p][i]
  IN  /\ secNonces' = [secNonces EXCEPT ![p][i] = 0]
      /\ signed' = IF nonce # 0 /\ configured[p]
                   THEN [signed EXCEPT ![p] = @ \cup {[nonce |-> nonce, session |-> s]}]
                   ELSE signed

Answers(p, i) == secNonces[p][i] # 0 /\ configured[p]

\* The request is served and answered; or not answered, or with an error.
SignRequest ==
  LET p == at.p IN
  /\ pc = "sign"
  /\ SignClaim(p, at.input, session)
  /\ \/ /\ Answers(p, at.input)
        /\ partialSigs' = [partialSigs EXCEPT ![p] =
             [nonce |-> secNonces[p][at.input], session |-> session]]
        /\ Proceed("sign", "aggregate")
        /\ UNCHANGED <<claimTx, pubNonces, session, witness>>
     \/ "lost" \in Faults /\ GiveUp
     \/ ~Answers(p, at.input) /\ GiveUp
  /\ UNCHANGED <<chain, contributions, configured, made, late, lateNonces, overtaken>>

\* The driver times out before the participant has served the request; same bound.
SignTimeout ==
  /\ "late" \in Faults
  /\ pc = "sign" /\ late = {} /\ lateNonces = {}
  /\ late' = {[p |-> at.p, input |-> at.input, session |-> session]}
  /\ GiveUp
  /\ UNCHANGED <<chain, contributions, secNonces, configured, made, signed, lateNonces, overtaken>>

ServeLate ==
  /\ \E r \in late : SignClaim(r.p, r.input, r.session) /\ late' = late \ {r}
  /\ UNCHANGED <<chain, contributions, driver, configured, made, lateNonces, overtaken>>

\* The dictionaries are in memory; the driver sends /setup once more.
Restart(p) ==
  /\ "restart" \in Faults
  /\ configured[p]
  /\ secNonces' = [secNonces EXCEPT ![p] = [c \in Coin |-> 0]]
  /\ configured' = [configured EXCEPT ![p] = FALSE]
  /\ UNCHANGED <<chain, contributions, driver, made, signed, late, lateNonces, overtaken>>

Setup(p) ==
  /\ ~configured[p] /\ pc = "idle"
  /\ configured' = [configured EXCEPT ![p] = TRUE]
  /\ UNCHANGED <<chain, contributions, driver, secNonces, made, signed, late, lateNonces, overtaken>>

\* partial_sig_agg, of this input; the method gives its only signature to all.
Aggregate ==
  /\ pc = "aggregate"
  /\ witness' = IF PerInput THEN Append(witness, partialSigs)
                ELSE [i \in DOMAIN claimTx |-> partialSigs]
  /\ IF Len(witness') < Len(claimTx)
     THEN pc' = "nonce" /\ at' = [at EXCEPT !.input = @ + 1]
     ELSE pc' = "broadcast" /\ at' = [input |-> 1, p |-> 1]
  /\ UNCHANGED <<chain, contributions, claimTx, pubNonces, session, partialSigs, participants, overtaken>>

\* The node's view of input i: everyone signed this transaction and this input,
\* in one session, with the nonces that were aggregated in it.
ValidWitness(i) ==
  LET s == witness[i][1].session
  IN  /\ s.msg = [tx |-> claimTx, utxos |-> claimTx, input |-> i]
      /\ \A p \in Participant : witness[i][p] = [nonce |-> s.agg[p], session |-> s]

ValidClaim == \A i \in DOMAIN claimTx : ValidWitness(i)

Broadcast ==
  /\ pc = "broadcast"
  /\ IF ValidClaim /\ Spendable(claimTx) THEN Spend(claimTx, "claim") ELSE UNCHANGED spentBy
  /\ GiveUp
  /\ UNCHANGED <<owner, age, contributions, participants, overtaken>>

------------------------------------------------------------------------------
(* The fallbacks *)

\* A mutant: the transaction spends the first contribution only.
MutClaimHtlc ==
  /\ MayAct /\ Spendable(contributions)
  /\ Spend(<<contributions[1]>>, "htlc")
  /\ UNCHANGED <<owner, age, contributions, driver, participants, overtaken>>

\* build_htlc_claim_info and claim_htlc: the winner needs nobody.
ClaimHtlc ==
  /\ MayAct /\ Spendable(contributions)
  /\ Spend(contributions, "htlc")
  /\ UNCHANGED <<owner, age, contributions, driver, participants, overtaken>>

\* build_refund_info, and k_min signatures.  PerInput is POST /sign_refund, and a driver
\* that signs and attaches for each input, as that of the tests; sign_refund of
\* Participant signs input 0, and broadcast_refund attaches its one list of signatures
\* to every input, which the node takes only when there is one.
Refund ==
  /\ MayAct /\ Spendable(contributions)
  /\ \A i \in DOMAIN contributions : age[contributions[i]] >= TRefund
  /\ PerInput \/ Len(contributions) = 1
  /\ Spend(contributions, "refund")
  /\ UNCHANGED <<owner, age, contributions, driver, participants, overtaken>>

Next ==
  \/ \E p \in Participant : Restart(p) \/ Setup(p) \/ \E c \in Coin : Contribute(p, c)
  \/ Mine \/ CollectContributions \/ WaitForUtxos
  \/ PrepareClaimSession \/ NonceRequest \/ NonceTimeout \/ ServeLateNonce
  \/ BuildSession \/ SignRequest \/ SignTimeout \/ ServeLate \/ Aggregate \/ Broadcast
  \/ ClaimHtlc \/ Refund

Spec == Init /\ [][Next]_vars

------------------------------------------------------------------------------
(* Correctness *)

\* A secret nonce signs one message in one session, whatever is lost, late, repeated
\* or restarted: two signatures with one nonce reveal the key (api_participant.py:244).
NonceSignsOnce ==
  \A p \in Participant : \A s, t \in signed[p] : s.nonce = t.nonce => s = t

\* When everyone answered for every input, the claim spends the pot: no leftover of
\* an attempt given up is in it (sequence-diagrams.md:69-100, README.md:137).  Only a
\* nonce request of an earlier attempt, served while its nonce was in use, spoils it.
AnsweredClaimIsValid == pc = "broadcast" /\ ~overtaken => ValidClaim

\* The pot is spent as a whole: no contribution is left behind by, or taken without,
\* the others.
PotHasOneFate ==
  Patient => \A c, d \in Coin : owner[c] # 0 /\ owner[d] # 0 => spentBy[c] = spentBy[d]

\* A refund pays the same to every participant, whoever paid in (protocol.py:411-422).
\* In units in which a coin is N, nobody gets more back than they put in (README.md:26,
\* "returns funds pro-rata"): a refund finds a coin of everyone at the address.  Who
\* may contribute again, and completes the round in place of another, breaks it: outputs
\* are counted, not participants (coordinator.py:212).
Refunded == Cardinality({c \in Coin : spentBy[c] = "refund"})
RefundReturnsShares ==
  \A p \in Participant : Refunded <= N * Cardinality({c \in Coin : owner[c] = p})

\* What makes NonceSignsOnce inductive: a nonce is in one place, stored for one input
\* or used, and none is ahead of the counter.
NonceInv ==
  \A p \in Participant :
    /\ \A i \in Coin : secNonces[p][i] <= made[p]
    /\ \A i, j \in Coin : secNonces[p][i] = secNonces[p][j] => i = j \/ secNonces[p][i] = 0
    /\ \A s \in signed[p] : /\ s.nonce \in 1 .. made[p]
                            /\ \A i \in Coin : secNonces[p][i] # s.nonce
                            /\ \A t \in signed[p] : s.nonce = t.nonce => s = t

\* A participant still has the secret of what the coordinator has from it, or none.
StillHas(p, nonce) == secNonces[p][at.input] \in {0, nonce}

\* At each step of an attempt, where it is fits what it has.
StepInv ==
  /\ pc \in {"nonce", "build", "sign", "aggregate"} =>
       at.input = Len(witness) + 1 /\ Len(witness) < Len(claimTx)
  /\ pc \in {"build", "aggregate"} => at.p = 1
  /\ pc = "broadcast" => Len(witness) = Len(claimTx)

\* What makes AnsweredClaimIsValid inductive: at each step of an attempt, what the
\* driver holds is of this attempt, from the participants it has been at.
SessionInv ==
  /\ pc # "idle" => \A i \in DOMAIN witness : ValidWitness(i)
  /\ pc = "nonce" => \A p \in 1 .. at.p - 1 : StillHas(p, pubNonces[p])
  /\ pc = "build" => \A p \in Participant : StillHas(p, pubNonces[p])
  /\ pc \in {"sign", "aggregate"} =>
       session.msg = [tx |-> claimTx, utxos |-> claimTx, input |-> at.input]
  /\ \A p \in Participant :
       /\ pc = "sign" /\ p >= at.p => StillHas(p, session.agg[p])
       /\ (pc = "sign" /\ p < at.p) \/ pc = "aggregate" =>
            partialSigs[p] = [nonce |-> session.agg[p], session |-> session]

\* What makes PotHasOneFate inductive: a participant has one coin, a claim is of N
\* coins, and nothing is spent before everyone has contributed.
FateInv ==
  /\ \A c, d \in Coin : owner[c] = owner[d] => c = d \/ owner[c] = 0
  /\ Patient /\ pc # "idle" => Len(claimTx) >= N
  /\ \A c \in Coin : spentBy[c] # "none" =>
       owner[c] # 0 /\ (Patient => \A p \in Participant : Contributed(p))
  /\ PotHasOneFate

RoundInv ==
  /\ TypeOK /\ NonceInv
  /\ PerInput => StepInv
  /\ PerInput /\ ~overtaken => SessionInv
  /\ "again" \notin Faults => FateInv

\* Where a participant's contribution is, for the abstract pot.
CoinOf(p) == CHOOSE c \in Coin : owner[c] = p
Share(p) ==
  IF ~Contributed(p) THEN "out"
  ELSE IF spentBy[CoinOf(p)] = "none" THEN "in" ELSE spentBy[CoinOf(p)]
Shares == [p \in Participant |-> Share(p)]

Abstract == INSTANCE Pot WITH
  Member <- Participant, Way <- {"claim", "htlc", "refund"}, share <- Shares

\* The round implements the pot of module Pot: scans, sessions, lost and late answers
\* and restarts are invisible in it, nothing leaves an incomplete pot, and a complete
\* one is taken once and as a whole (README.md:12-26).
ImplementsPot == Abstract!Spec

==============================================================================
