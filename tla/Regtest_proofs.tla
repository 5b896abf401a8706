--------------------------- MODULE Regtest_proofs ---------------------------
(***************************************************************************)
(* Proofs about the participants at their node: for every set of calls,    *)
(* every funds and every interleaving with scans and blocks.               *)
(***************************************************************************)
EXTENDS Regtest, SumTheorems

LEMMA Parameters ==
  /\ \A c \in Call : /\ c \in [p : Nat, round : Nat, try : Nat \ {0}]
                     /\ c.p \in Participant /\ c.round \in Nat
  /\ \A p \in Participant : p \in Nat /\ p \in DOMAIN Funds /\ Funds[p] \in Seq(Nat)
  /\ Amount \in Nat /\ MaxAttempts \in Nat \ {0} /\ MaxBlocks \in Nat
BY ParametersAssumption DEF Participant

LEMMA NobodysScan == NoCall \notin Call /\ Other \notin Call
BY Parameters DEF NoCall, Other

(***************************************************************************)
(* An output that is listed first is the only one.                         *)
(***************************************************************************)
LEMMA OneIsFirst ==
  ASSUME TypeOK, OutputsAreNumbered, NEW p \in Participant, NEW k, NEW l,
         ListedFirst(p, k), ListedFirst(p, l)
  PROVE  k = l
<1>1. /\ k \in DOMAIN value[p] /\ l \in DOMAIN value[p] /\ Fits(p, k) /\ Fits(p, l)
  BY DEF ListedFirst
<1>2. /\ value[p] \in Seq(Nat) /\ listing[p] \in Seq(Nat)
      /\ Len(listing[p]) = Len(value[p])
  BY DEF TypeOK, OutputsAreNumbered
<1>3. listing[p][k] \in Nat /\ listing[p][l] \in Nat
  BY <1>1, <1>2
<1>4. k # l => listing[p][k] < listing[p][l] /\ listing[p][l] < listing[p][k]
  BY <1>1 DEF ListedFirst
<1> QED
  BY <1>3, <1>4

(***************************************************************************)
(* What a block does to what is unspent.                                   *)
(***************************************************************************)
LEMMA UnspentBefore ==
  ASSUME NEW txs, confirmed' = confirmed \cup txs, NEW p \in Participant, NEW k,
         k \in DOMAIN Funds[p] \cup Change(confirmed, p), Unspent(p, k)'
  PROVE  Unspent(p, k)
BY DEF Unspent, SpentBy

LEMMA UnspentKept ==
  ASSUME NEW txs, confirmed' = confirmed \cup txs, NEW p \in Participant,
         \A t \in txs : t.p # p
  PROVE  \A k : Unspent(p, k)' <=> Unspent(p, k)
<1>1. Change(confirmed, p)' = Change(confirmed, p)
  BY DEF Change
<1>2. \A k : SpentBy(confirmed, p, k)' <=> SpentBy(confirmed, p, k)
  BY DEF SpentBy
<1> QED
  BY <1>1, <1>2 DEF Unspent

LEMMA FirstKept ==
  ASSUME value' = value, listing' = listing, NEW p \in Participant,
         \A k : Unspent(p, k)' <=> Unspent(p, k)
  PROVE  \A k : ListedFirst(p, k)' <=> ListedFirst(p, k)
<1>1. \A k : Fits(p, k)' <=> Fits(p, k)
  BY DEF Fits, Enough
<1> QED
  BY <1>1 DEF ListedFirst

(***************************************************************************)
(* Blocks: all that is pending is at the choice of its participant, so all *)
(* calls whose choice it was find it spent.                                *)
(***************************************************************************)
LEMMA ConnectKeeps ==
  ASSUME NodeInv, NEW txs \in SUBSET mempool, Connect(txs),
         value' = value, listing' = listing, calls' = calls
  PROVE  /\ OutputsAreNumbered' /\ PendingSpendsChoice' /\ ChosenIsChoice'
         /\ PaysAgainOnlyAfterABlock'
<1>0. /\ confirmed' = confirmed \cup txs /\ mempool' = mempool \ txs
      /\ chosen' = chosen /\ seen' = seen /\ pc' = pc
      /\ \A t \in mempool : t.p \in Participant
      /\ TypeOK /\ OutputsAreNumbered
  BY DEF Connect, calls, NodeInv, TypeOK, Transaction
<1>1. Accepted' = Accepted
  BY <1>0 DEF Accepted
<1>2. OutputsAreNumbered'
  BY <1>0, <1>1 DEF OutputsAreNumbered
<1>3. PaysAgainOnlyAfterABlock'
  BY <1>1 DEF NodeInv, PaysAgainOnlyAfterABlock
<1>4. PendingSpendsChoice'
  <2>1. ASSUME NEW t \in mempool' PROVE ListedFirst(t.p, t.coin)'
    <3>1. t \in mempool /\ t \notin txs /\ t.p \in Participant
      BY <1>0
    <3>2. \A s \in txs : s.p # t.p
      BY <3>1 DEF NodeInv, PendingSpendsChoice
    <3>3. \A k : Unspent(t.p, k)' <=> Unspent(t.p, k)
      BY <1>0, <3>1, <3>2, UnspentKept
    <3>4. \A k : ListedFirst(t.p, k)' <=> ListedFirst(t.p, k)
      BY <3>1, <3>3, FirstKept
    <3> QED
      BY <3>1, <3>4 DEF NodeInv, PendingSpendsChoice
  <2> QED
    BY <1>0, <2>1 DEF NodeInv, PendingSpendsChoice
<1>5. ChosenIsChoice'
  <2> SUFFICES ASSUME NEW c \in Call, chosen[c] # 0
               PROVE  /\ chosen[c] \in DOMAIN Funds[c.p] \cup Change(confirmed', c.p)
                      /\ Unspent(c.p, chosen[c])' =>
                           /\ ListedFirst(c.p, chosen[c])'
                           /\ \A s \in confirmed' : s.p = c.p /\ s.round = c.round
                                                      => s.coin \in seen[c]
    BY <1>0 DEF NodeInv, ChosenIsChoice
  <2> DEFINE p == c.p
             k == chosen[c]
  <2>1. p \in Participant /\ k \in DOMAIN Funds[p] \cup Change(confirmed, p)
    BY Parameters DEF NodeInv, ChosenIsChoice
  <2>2. k \in DOMAIN Funds[p] \cup Change(confirmed', p)
    BY <1>0, <2>1 DEF Change
  <2>3. ASSUME Unspent(p, k)'
        PROVE  ListedFirst(p, k)' /\ \A s \in confirmed' : s.p = p /\ s.round = c.round
                                                             => s.coin \in seen[c]
    <3>1. Unspent(p, k)
      BY <1>0, <2>1, <2>3, UnspentBefore
    <3>2. /\ ListedFirst(p, k)
          /\ \A s \in confirmed : s.p = p /\ s.round = c.round => s.coin \in seen[c]
      BY <3>1 DEF NodeInv, ChosenIsChoice
    <3>3. \A t \in txs : t.p # p
      <4> SUFFICES ASSUME NEW t \in txs, t.p = p PROVE FALSE
        OBVIOUS
      <4>1. ListedFirst(p, t.coin)
        BY DEF NodeInv, PendingSpendsChoice
      <4>2. t.coin = k
        BY <1>0, <2>1, <3>2, <4>1, OneIsFirst
      <4> QED
        BY <1>0, <2>3, <4>2 DEF Unspent, SpentBy
    <3>4. \A l : Unspent(p, l)' <=> Unspent(p, l)
      BY <1>0, <2>1, <3>3, UnspentKept
    <3>5. ListedFirst(p, k)'
      BY <1>0, <2>1, <3>2, <3>4, FirstKept
    <3> QED
      BY <1>0, <3>2, <3>3, <3>5
  <2> QED
    BY <1>0, <2>2, <2>3
<1> QED
  BY <1>2, <1>3, <1>4, <1>5

(***************************************************************************)
(* A transaction that is accepted neither moves an output of the list      *)
(* before another nor makes one fit.                                       *)
(***************************************************************************)
LEMMA ListKeepsOrder ==
  ASSUME NEW s \in Seq(Nat), NEW i \in Nat,
         NEW r, r = Append([m \in DOMAIN s |-> IF s[m] >= i THEN s[m] + 1 ELSE s[m]], i)
  PROVE  /\ r \in Seq(Nat) /\ Len(r) = Len(s) + 1
         /\ \A k, l \in DOMAIN s : r[k] < r[l] <=> s[k] < s[l]
<1> DEFINE moved == [m \in DOMAIN s |-> IF s[m] >= i THEN s[m] + 1 ELSE s[m]]
<1>1. moved \in Seq(Nat) /\ Len(moved) = Len(s)
  <2>1. DOMAIN s = 1 .. Len(s) /\ Len(s) \in Nat /\ \A k \in DOMAIN s : s[k] \in Nat
    OBVIOUS
  <2>2. moved \in [1 .. Len(s) -> Nat]
    BY <2>1
  <2> HIDE DEF moved
  <2> QED
    BY <2>1, <2>2
<1>2. \A k \in DOMAIN s : /\ moved[k] = IF s[k] >= i THEN s[k] + 1 ELSE s[k]
                          /\ s[k] \in Nat /\ k \in 1 .. Len(s)
  OBVIOUS
<1>3. r = Append(moved, i)
  OBVIOUS
<1> HIDE DEF moved
<1>4. r \in Seq(Nat) /\ Len(r) = Len(s) + 1
  BY <1>1, <1>3
<1>5. \A k \in DOMAIN s : r[k] = moved[k]
  BY <1>1, <1>2, <1>3
<1>6. ASSUME NEW k \in DOMAIN s, NEW l \in DOMAIN s PROVE r[k] < r[l] <=> s[k] < s[l]
  BY <1>2, <1>5
<1> QED
  BY <1>4, <1>6

LEMMA AppendKeeps ==
  ASSUME NEW s \in Seq(Nat), NEW v \in Nat, NEW r, r = Append(s, v)
  PROVE  /\ r \in Seq(Nat) /\ Len(r) = Len(s) + 1
         /\ \A k \in DOMAIN s : k \in DOMAIN r /\ r[k] = s[k]
         /\ \A k \in DOMAIN r \ DOMAIN s : k = Len(s) + 1
OBVIOUS

LEMMA AcceptTypes ==
  ASSUME NodeInv, NEW c \in Call, pc[c] = "send", Accept(c)
  PROVE  /\ value' \in [Participant -> Seq(Nat)]
         /\ listing' \in [Participant -> Seq(Nat)]
         /\ \A p \in Participant : p # c.p => value'[p] = value[p] /\ listing'[p] = listing[p]
         /\ \A k \in DOMAIN value[c.p] : k \in DOMAIN value'[c.p]
                                         /\ value'[c.p][k] = value[c.p][k]
         /\ Len(value'[c.p]) >= Len(value[c.p])
         /\ Len(listing'[c.p]) = Len(value'[c.p])
         /\ \A k \in DOMAIN value'[c.p] \ DOMAIN value[c.p] : k = Len(value[c.p]) + 1
         /\ \A k, l \in DOMAIN value[c.p] :
              listing'[c.p][k] < listing'[c.p][l] <=> listing[c.p][k] < listing[c.p][l]
         /\ \E t : /\ mempool' = mempool \cup {t} /\ t \in Transaction
                   /\ t.p = c.p /\ t.coin = chosen[c] /\ t.round = c.round /\ t.after = seen[c]
                   /\ t.change <= Len(value'[c.p])
         /\ chosen[c] # 0 /\ ListedFirst(c.p, chosen[c])
<1> DEFINE p == c.p
           v == value[p][chosen[c]]
           next == Len(value[p]) + 1
           tx == [p |-> p, coin |-> chosen[c], round |-> c.round,
                  change |-> IF ChangeOf(v) > 0 THEN next ELSE 0, after |-> seen[c]]
<1>1. /\ p \in Participant /\ c.round \in Nat
      /\ value \in [Participant -> Seq(Nat)] /\ listing \in [Participant -> Seq(Nat)]
      /\ value[p] \in Seq(Nat) /\ listing[p] \in Seq(Nat) /\ Len(listing[p]) = Len(value[p])
      /\ chosen[c] \in Nat /\ seen[c] \subseteq Nat
  BY Parameters DEF NodeInv, TypeOK, OutputsAreNumbered
<1>2. chosen[c] # 0 /\ ListedFirst(p, chosen[c])
  BY DEF Accept, NodeInv, ChosenIsChoice
<1>3. chosen[c] \in DOMAIN value[p] /\ v \in Nat
  BY <1>1, <1>2 DEF ListedFirst
<1>4. ChangeOf(v) \in Nat
  BY <1>3, Parameters DEF ChangeOf, Dust, Fee
<1>5. next \in Nat /\ next > 0
  BY <1>1
<1>6. tx \in Transaction
  BY <1>1, <1>5 DEF Transaction
<1>7. mempool' = mempool \cup {tx}
  BY DEF Accept
<1>8. /\ tx.p = p /\ tx.coin = chosen[c] /\ tx.round = c.round /\ tx.after = seen[c]
      /\ tx.change \in {0, next} /\ (~(ChangeOf(v) > 0) => tx.change = 0)
  OBVIOUS
<1> HIDE DEF tx
<1>9. CASE ChangeOf(v) > 0
  <2>1. value' = [value EXCEPT ![p] = Append(@, ChangeOf(v))] /\ List(p)
    BY <1>9 DEF Accept
  <2>2. PICK i \in 1 .. Len(listing[p]) + 1 :
          listing' = [listing EXCEPT ![p] =
            Append([k \in DOMAIN @ |-> IF @[k] >= i THEN @[k] + 1 ELSE @[k]], i)]
    BY <2>1 DEF List
  <2>3. /\ i \in Nat
        /\ listing'[p] = Append([k \in DOMAIN listing[p] |->
             IF listing[p][k] >= i THEN listing[p][k] + 1 ELSE listing[p][k]], i)
    BY <1>1, <2>2
  <2>4. /\ listing'[p] \in Seq(Nat) /\ Len(listing'[p]) = Len(listing[p]) + 1
        /\ \A k, l \in DOMAIN listing[p] :
             listing'[p][k] < listing'[p][l] <=> listing[p][k] < listing[p][l]
    BY <1>1, <2>3, ListKeepsOrder
  <2>5. value'[p] = Append(value[p], ChangeOf(v))
    BY <1>1, <2>1
  <2>6. /\ value'[p] \in Seq(Nat) /\ Len(value'[p]) = next
        /\ \A k \in DOMAIN value[p] : k \in DOMAIN value'[p] /\ value'[p][k] = value[p][k]
        /\ \A k \in DOMAIN value'[p] \ DOMAIN value[p] : k = next
    <3> HIDE DEF v, p
    <3> QED
      BY <1>1, <1>4, <2>5, AppendKeeps
  <2>7. \A q \in Participant : q # p => value'[q] = value[q] /\ listing'[q] = listing[q]
    BY <1>1, <2>1, <2>2
  <2>8. DOMAIN value' = Participant /\ DOMAIN listing' = Participant
    BY <1>1, <2>1, <2>2
  <2>9. /\ value' = [q \in Participant |-> value'[q]]
        /\ listing' = [q \in Participant |-> listing'[q]]
    BY <1>1, <2>1, <2>2
  <2>10. /\ value' \in [Participant -> Seq(Nat)]
         /\ listing' \in [Participant -> Seq(Nat)]
    BY <1>1, <2>4, <2>6, <2>7, <2>9
  <2>11. DOMAIN listing[p] = DOMAIN value[p]
    BY <1>1
  <2>12. Len(value'[p]) >= Len(value[p]) /\ Len(listing'[p]) = Len(value'[p])
         /\ tx.change <= Len(value'[p])
    BY <1>1, <1>5, <1>8, <2>4, <2>6
  <2> QED
    BY <1>2, <1>6, <1>7, <1>8, <2>4, <2>6, <2>7, <2>10, <2>11, <2>12
<1>10. CASE ~(ChangeOf(v) > 0)
  <2>1. value' = value /\ listing' = listing
    BY <1>10 DEF Accept
  <2>2. tx.change <= Len(value'[p]) /\ Len(value'[p]) >= Len(value[p])
        /\ Len(listing'[p]) = Len(value'[p])
    BY <1>1, <1>8, <1>10, <2>1
  <2> QED
    BY <1>1, <1>2, <1>6, <1>7, <1>8, <2>1, <2>2
<1> QED
  BY <1>9, <1>10

(***************************************************************************)
(* What the node accepts spends the choice, and leaves it the choice.      *)
(***************************************************************************)
LEMMA AcceptKeeps ==
  ASSUME NodeInv, NEW c \in Call, pc[c] = "send", Accept(c),
         pc' = [pc EXCEPT ![c] = "ok"], UNCHANGED <<chosen, seen>>
  PROVE  /\ OutputsAreNumbered' /\ PendingSpendsChoice' /\ ChosenIsChoice'
         /\ PaysAgainOnlyAfterABlock'
<1>0. /\ TypeOK /\ OutputsAreNumbered /\ confirmed' = confirmed /\ c.p \in Participant
      /\ value \in [Participant -> Seq(Nat)]
      /\ pc \in [Call -> {"new", "scan", "scanning", "send", "ok", "refused", "failed"}]
      /\ \A t \in mempool : t.p \in Participant
  BY Parameters DEF NodeInv, Accept, TypeOK, Transaction
<1>1. PICK t : /\ mempool' = mempool \cup {t} /\ t \in Transaction
               /\ t.p = c.p /\ t.coin = chosen[c] /\ t.round = c.round /\ t.after = seen[c]
               /\ t.change <= Len(value'[c.p])
  BY AcceptTypes
<1>2. Accepted' = Accepted \cup {t}
  BY <1>0, <1>1 DEF Accepted
<1>3. Unspent(c.p, chosen[c]) /\ ~SpentBy(mempool, c.p, chosen[c]) /\ chosen[c] # 0
      /\ ListedFirst(c.p, chosen[c])
  BY AcceptTypes DEF Accept
<1>4. \A s \in mempool : s.p # c.p
  BY <1>0, <1>3, OneIsFirst DEF NodeInv, PendingSpendsChoice, SpentBy
<1>5. \A p \in Participant : \A k : Unspent(p, k)' <=> Unspent(p, k)
  BY <1>0 DEF Unspent, SpentBy, Change
<1>6. OutputsAreNumbered'
  <2> SUFFICES ASSUME NEW p \in Participant
               PROVE  /\ Len(listing'[p]) = Len(value'[p]) /\ Len(Funds[p]) <= Len(value'[p])
                      /\ \A s \in Accepted' : s.p = p => /\ s.coin \in DOMAIN value'[p]
                                                         /\ s.change <= Len(value'[p])
    BY DEF OutputsAreNumbered
  <2>1. CASE p # c.p
    <3>1. value'[p] = value[p] /\ listing'[p] = listing[p]
      BY <2>1, AcceptTypes
    <3>2. \A s \in Accepted' : s.p = p => s \in Accepted
      BY <1>1, <1>2, <2>1
    <3> QED
      BY <1>0, <3>1, <3>2 DEF OutputsAreNumbered
  <2>2. CASE p = c.p
    <3>1. /\ Len(value'[p]) \in Nat /\ Len(value[p]) \in Nat /\ Len(Funds[p]) \in Nat
          /\ Len(value'[p]) >= Len(value[p]) /\ Len(Funds[p]) <= Len(value[p])
          /\ Len(listing'[p]) = Len(value'[p])
      BY <1>0, <2>2, AcceptTypes, Parameters DEF OutputsAreNumbered
    <3>2. \A s \in Accepted : s.p = p => s.change \in Nat /\ s.change <= Len(value[p])
      BY <1>0 DEF OutputsAreNumbered, TypeOK, Transaction, Accepted
    <3>3. \A s \in Accepted : s.p = p => s.change <= Len(value'[p])
      BY <3>1, <3>2
    <3>4. \A s \in Accepted : s.p = p => s.coin \in DOMAIN value'[p]
      BY <1>0, <2>2, AcceptTypes DEF OutputsAreNumbered
    <3>5. t.coin \in DOMAIN value'[p]
      BY <1>1, <1>3, <2>2, AcceptTypes DEF ListedFirst
    <3> QED
      BY <1>1, <1>2, <2>2, <3>1, <3>3, <3>4, <3>5
  <2> QED
    BY <2>1, <2>2
<1>7. \A p \in Participant : \A k : ListedFirst(p, k) => ListedFirst(p, k)'
  <2> SUFFICES ASSUME NEW p \in Participant, NEW k, ListedFirst(p, k)
               PROVE  ListedFirst(p, k)'
    OBVIOUS
  <2>1. CASE p # c.p
    <3>1. value'[p] = value[p] /\ listing'[p] = listing[p]
      BY <2>1, AcceptTypes
    <3> QED
      BY <1>5, <3>1 DEF ListedFirst, Fits, Enough
  <2>2. CASE p = c.p
    <3>1. k \in DOMAIN value[p] /\ k \in DOMAIN value'[p] /\ value'[p][k] = value[p][k]
      BY <2>2, AcceptTypes DEF ListedFirst
    <3>2. \A l \in DOMAIN value'[p] : l \notin DOMAIN value[p] => ~Unspent(p, l)
      <4> SUFFICES ASSUME NEW l \in DOMAIN value'[p], l \notin DOMAIN value[p], Unspent(p, l)
                   PROVE  FALSE
        OBVIOUS
      <4>1. l = Len(value[p]) + 1 /\ Len(value[p]) \in Nat
        BY <1>0, <2>2, AcceptTypes
      <4>2. Len(Funds[p]) <= Len(value[p]) /\ DOMAIN Funds[p] = 1 .. Len(Funds[p])
        BY <1>0, Parameters DEF OutputsAreNumbered
      <4>3. l \notin DOMAIN Funds[p]
        BY <4>1, <4>2
      <4>4. PICK s \in confirmed : s.p = p /\ s.change = l
        BY <4>3 DEF Unspent, Change
      <4>5. s.change \in Nat /\ s.change <= Len(value[p])
        BY <1>0, <4>4 DEF OutputsAreNumbered, Accepted, TypeOK, Transaction
      <4> QED
        BY <4>1, <4>4, <4>5
    <3>3. \A l \in DOMAIN value[p] : value'[p][l] = value[p][l]
      BY <2>2, AcceptTypes
    <3>4. \A l \in DOMAIN value[p] :
            listing'[p][k] < listing'[p][l] <=> listing[p][k] < listing[p][l]
      BY <2>2, <3>1, AcceptTypes
    <3>5. \A l \in DOMAIN value'[p] : Fits(p, l)' => l \in DOMAIN value[p] /\ Fits(p, l)
      BY <1>5, <3>2, <3>3 DEF Fits, Enough
    <3>6. Fits(p, k)'
      BY <1>5, <3>1 DEF ListedFirst, Fits, Enough
    <3> QED
      BY <3>1, <3>4, <3>5, <3>6 DEF ListedFirst
  <2> QED
    BY <2>1, <2>2
<1>8. PendingSpendsChoice'
  <2>1. ListedFirst(t.p, t.coin)'
    BY <1>0, <1>1, <1>3, <1>7
  <2>2. \A s \in mempool : ListedFirst(s.p, s.coin)'
    BY <1>0, <1>7 DEF NodeInv, PendingSpendsChoice
  <2>3. \A r, s \in mempool' : r.p = s.p => r = s
    BY <1>1, <1>4 DEF NodeInv, PendingSpendsChoice
  <2> QED
    BY <1>1, <2>1, <2>2, <2>3 DEF PendingSpendsChoice
<1>9. ChosenIsChoice'
  <2> SUFFICES ASSUME NEW d \in Call
               PROVE  /\ pc'[d] = "send" => chosen[d] # 0
                      /\ chosen[d] # 0 =>
                           /\ chosen[d] \in DOMAIN Funds[d.p] \cup Change(confirmed, d.p)
                           /\ Unspent(d.p, chosen[d])' =>
                                /\ ListedFirst(d.p, chosen[d])'
                                /\ \A s \in confirmed : s.p = d.p /\ s.round = d.round
                                                          => s.coin \in seen[d]
    BY <1>0 DEF ChosenIsChoice
  <2>1. d.p \in Participant /\ (pc'[d] = "send" => pc[d] = "send")
    BY <1>0, Parameters
  <2> QED
    BY <1>5, <1>7, <2>1 DEF NodeInv, ChosenIsChoice
<1>10. PaysAgainOnlyAfterABlock'
  <2>1. \A s \in confirmed : s.p = t.p /\ s.round = t.round => s.coin \in t.after
    BY <1>1, <1>3 DEF NodeInv, ChosenIsChoice
  <2>2. \A s \in Accepted : s.p = t.p /\ s.round = t.round => s.coin \in t.after
    BY <1>1, <1>4, <2>1 DEF Accepted
  <2> QED
    BY <1>2, <2>2 DEF NodeInv, PaysAgainOnlyAfterABlock
<1> QED
  BY <1>6, <1>8, <1>9, <1>10

(***************************************************************************)
(* Steps that leave the node's outputs and transactions alone.             *)
(***************************************************************************)
LEMMA NodeUnchanged ==
  ASSUME NodeInv, UNCHANGED node
  PROVE  /\ OutputsAreNumbered' /\ PendingSpendsChoice' /\ PaysAgainOnlyAfterABlock'
         /\ \A p \in Participant : \A k : /\ Unspent(p, k)' <=> Unspent(p, k)
                                      /\ ListedFirst(p, k)' <=> ListedFirst(p, k)
<1>0. /\ value' = value /\ listing' = listing /\ mempool' = mempool /\ confirmed' = confirmed
      /\ \A t \in mempool : t.p \in Participant
  BY DEF node, NodeInv, TypeOK, Transaction
<1>1. \A p \in Participant : \A k : Unspent(p, k)' <=> Unspent(p, k)
  BY <1>0 DEF Unspent, SpentBy, Change
<1>2. \A p \in Participant : \A k : ListedFirst(p, k)' <=> ListedFirst(p, k)
  BY <1>0, <1>1, FirstKept
<1>3. OutputsAreNumbered' /\ PaysAgainOnlyAfterABlock'
  BY <1>0 DEF NodeInv, OutputsAreNumbered, PaysAgainOnlyAfterABlock, Accepted
<1>4. PendingSpendsChoice'
  BY <1>0, <1>2 DEF NodeInv, PendingSpendsChoice
<1> QED
  BY <1>1, <1>2, <1>3, <1>4

LEMMA CallKeeps ==
  ASSUME NodeInv, UNCHANGED node, chosen' = chosen, seen' = seen,
         \A c \in Call : pc'[c] = "send" => chosen[c] # 0
  PROVE  /\ OutputsAreNumbered' /\ PendingSpendsChoice' /\ ChosenIsChoice'
         /\ PaysAgainOnlyAfterABlock'
<1>1. confirmed' = confirmed
  BY DEF node
<1>2. ChosenIsChoice'
  <2> SUFFICES ASSUME NEW d \in Call, NEW m, m = chosen[d], m # 0
               PROVE  /\ m \in DOMAIN Funds[d.p] \cup Change(confirmed, d.p)
                      /\ Unspent(d.p, m) =>
                           /\ ListedFirst(d.p, m)
                           /\ \A s \in confirmed : s.p = d.p /\ s.round = d.round
                                                     => s.coin \in seen[d]
    <3>1. value' = value /\ listing' = listing
      BY DEF node
    <3> QED
      BY <1>1, <3>1 DEF ChosenIsChoice, Unspent, SpentBy, Change, ListedFirst, Fits, Enough
  <2> QED
    BY DEF NodeInv, ChosenIsChoice
<1> QED
  BY <1>2, NodeUnchanged

LEMMA ScanKeeps ==
  ASSUME NodeInv, NEW c \in Call, ScanStarts(c)
  PROVE  /\ OutputsAreNumbered' /\ PendingSpendsChoice' /\ ChosenIsChoice'
         /\ PaysAgainOnlyAfterABlock'
<1>0. /\ UNCHANGED node /\ confirmed' = confirmed /\ pc' = [pc EXCEPT ![c] = "scanning"]
      /\ seen' = [seen EXCEPT ![c] =
           {t.coin : t \in {s \in confirmed : s.p = c.p /\ s.round = c.round}}]
      /\ DOMAIN chosen = Call /\ DOMAIN seen = Call /\ DOMAIN pc = Call
  BY DEF ScanStarts, node, NodeInv, TypeOK
<1>1. PICK k \in 0 .. Len(value[c.p]) :
        Choice(c.p, k) /\ chosen' = [chosen EXCEPT ![c] = k]
  BY DEF ScanStarts
<1>2. k # 0 => ListedFirst(c.p, k) /\ k \in DOMAIN Funds[c.p] \cup Change(confirmed, c.p)
  BY <1>1 DEF Choice, ListedFirst, Fits, Unspent
<1>3. \A s \in confirmed : s.p = c.p /\ s.round = c.round => s.coin \in seen'[c]
  BY <1>0
<1>4. ChosenIsChoice'
  <2> SUFFICES ASSUME NEW d \in Call, NEW m, m = chosen'[d]
               PROVE  /\ pc'[d] = "send" => m # 0
                      /\ m # 0 =>
                           /\ m \in DOMAIN Funds[d.p] \cup Change(confirmed, d.p)
                           /\ Unspent(d.p, m) =>
                                /\ ListedFirst(d.p, m)
                                /\ \A s \in confirmed : s.p = d.p /\ s.round = d.round
                                                          => s.coin \in seen'[d]
    <3>1. /\ \A e \in Call : e.p \in Participant
          /\ value' = value /\ listing' = listing
      BY <1>0, Parameters DEF node
    <3> QED
      BY <1>0, <3>1 DEF ChosenIsChoice, Unspent, SpentBy, Change, ListedFirst, Fits, Enough
  <2>1. CASE d = c
    <3>1. pc'[d] # "send" /\ m = k
      BY <1>0, <1>1, <2>1
    <3> QED
      BY <1>2, <1>3, <2>1, <3>1
  <2>2. CASE d # c
    <3>1. pc'[d] = pc[d] /\ m = chosen[d] /\ seen'[d] = seen[d]
      BY <1>0, <1>1, <2>2
    <3> QED
      BY <3>1 DEF NodeInv, ChosenIsChoice
  <2> QED
    BY <2>1, <2>2
<1> QED
  BY <1>0, <1>4, NodeUnchanged

(***************************************************************************)
(* One step for each action.                                               *)
(***************************************************************************)
LEMMA NextKeeps ==
  ASSUME NodeInv, [Next]_vars
  PROVE  /\ OutputsAreNumbered' /\ PendingSpendsChoice' /\ ChosenIsChoice'
         /\ PaysAgainOnlyAfterABlock'
<1>0. DOMAIN pc = Call /\ \A c \in Call : pc[c] = "send" => chosen[c] # 0
  BY DEF NodeInv, TypeOK, ChosenIsChoice
<1>1. CASE ScanEnds
  <2>1. UNCHANGED node /\ chosen' = chosen /\ seen' = seen
    BY <1>1 DEF ScanEnds
  <2>2. \A c \in Call : pc'[c] = "send" => chosen[c] # 0
    BY <1>0, <1>1 DEF ScanEnds
  <2> QED
    BY <2>1, <2>2, CallKeeps
<1>2. CASE OtherScans
  BY <1>0, <1>2, CallKeeps DEF OtherScans
<1>3. CASE Generate
  <2>1. Connect(mempool) /\ value' = value /\ listing' = listing /\ calls' = calls
    BY <1>3 DEF Generate
  <2> QED
    BY <2>1, ConnectKeeps
<1>4. CASE BuildBlock
  BY <1>0, <1>4, CallKeeps DEF BuildBlock, calls
<1>5. CASE SubmitBlock
  <2>1. value' = value /\ listing' = listing /\ calls' = calls /\ job.txs \in SUBSET mempool
    BY <1>5 DEF SubmitBlock, NodeInv, JobIsPending
  <2>2. CASE Connect(job.txs)
    BY <2>1, <2>2, ConnectKeeps
  <2>3. CASE UNCHANGED <<mempool, confirmed, height>>
    BY <1>0, <2>1, <2>3, CallKeeps DEF node, calls
  <2> QED
    BY <1>5, <2>2, <2>3 DEF SubmitBlock
<1>6. CASE GrindFails
  BY <1>0, <1>6, CallKeeps DEF GrindFails, calls
<1>7. ASSUME NEW c \in Call, Begin(c)
      PROVE  /\ OutputsAreNumbered' /\ PendingSpendsChoice' /\ ChosenIsChoice'
             /\ PaysAgainOnlyAfterABlock'
  BY <1>0, <1>7, CallKeeps DEF Begin
<1>8. ASSUME NEW c \in Call, CallStep(c)
      PROVE  /\ OutputsAreNumbered' /\ PendingSpendsChoice' /\ ChosenIsChoice'
             /\ PaysAgainOnlyAfterABlock'
  <2>1. CASE ScanStarts(c)
    BY <2>1, ScanKeeps
  <2>2. CASE ScanIsBusy(c)
    BY <1>0, <2>2, CallKeeps DEF ScanIsBusy
  <2>3. CASE ScanTimesOut(c)
    BY <1>0, <2>3, CallKeeps DEF ScanTimesOut
  <2>4. CASE Send(c)
    <3>1. pc[c] = "send" /\ chosen' = chosen /\ seen' = seen
      BY <2>4 DEF Send
    <3>2. CASE Accept(c) /\ pc' = [pc EXCEPT ![c] = "ok"]
      BY <3>1, <3>2, AcceptKeeps
    <3>3. CASE UNCHANGED node /\ pc' \in {[pc EXCEPT ![c] = "ok"], [pc EXCEPT ![c] = "failed"]}
      BY <1>0, <3>1, <3>3, CallKeeps
    <3> QED
      BY <2>4, <3>2, <3>3 DEF Send
  <2> QED
    BY <1>8, <2>1, <2>2, <2>3, <2>4 DEF CallStep
<1>9. CASE UNCHANGED vars
  BY <1>0, <1>9, CallKeeps DEF vars, calls
<1> QED
  BY <1>1, <1>2, <1>3, <1>4, <1>5, <1>6, <1>7, <1>8, <1>9 DEF Next, Mine

LEMMA NextJobIsPending ==
  ASSUME NodeInv, [Next]_vars
  PROVE  JobIsPending'
<1>0. /\ job.txs \subseteq mempool /\ height <= returned
      /\ job # NoJob => ~generates /\ returned < MaxBlocks
      /\ NoJob.txs = {} /\ height \in Nat /\ returned \in Nat
  BY Parameters DEF NodeInv, TypeOK, JobIsPending, NoJob
<1>1. CASE ScanEnds
  BY <1>0, <1>1 DEF ScanEnds, node, mining, JobIsPending
<1>2. CASE OtherScans
  BY <1>0, <1>2 DEF OtherScans, node, mining, JobIsPending
<1>3. CASE Generate
  <2>1. job = NoJob
    BY <1>0, <1>3 DEF Generate
  <2> QED
    BY <1>0, <1>3, <2>1 DEF Generate, Connect, JobIsPending
<1>4. CASE BuildBlock
  <2>1. job'.txs = mempool
    BY <1>4 DEF BuildBlock
  <2> QED
    BY <1>0, <1>4, <2>1 DEF BuildBlock, node, JobIsPending
<1>5. CASE SubmitBlock
  BY <1>0, <1>5 DEF SubmitBlock, Connect, JobIsPending
<1>6. CASE GrindFails
  BY <1>0, <1>6 DEF GrindFails, node, JobIsPending
<1>7. ASSUME NEW c \in Call, Begin(c) PROVE JobIsPending'
  BY <1>0, <1>7 DEF Begin, node, mining, JobIsPending
<1>8. ASSUME NEW c \in Call, CallStep(c) PROVE JobIsPending'
  <2>1. mempool \subseteq mempool' /\ UNCHANGED mining
    BY <1>8 DEF CallStep, ScanStarts, ScanIsBusy, ScanTimesOut, Send, Accept, node
  <2> QED
    BY <1>0, <2>1 DEF mining, JobIsPending
<1>9. CASE UNCHANGED vars
  BY <1>0, <1>9 DEF vars, node, mining, JobIsPending
<1> QED
  BY <1>1, <1>2, <1>3, <1>4, <1>5, <1>6, <1>7, <1>8, <1>9 DEF Next, Mine

LEMMA NextTypeOK ==
  ASSUME NodeInv, [Next]_vars
  PROVE  TypeOK'
<1>0. TypeOK /\ JobIsPending
  BY DEF NodeInv
<1>1. CASE ScanEnds
  <2>1. UNCHANGED <<node, attempt, chosen, seen, mining>> /\ scanning' = NoCall
    BY <1>1 DEF ScanEnds
  <2>2. pc' \in [Call -> {"new", "scan", "scanning", "send", "ok", "refused", "failed"}]
    BY <1>0, <1>1 DEF ScanEnds, TypeOK
  <2> QED
    BY <1>0, <2>1, <2>2 DEF TypeOK, node, mining
<1>2. CASE OtherScans
  BY <1>0, <1>2 DEF OtherScans, TypeOK, node, mining
<1>3. CASE Generate
  <2>1. height' \in 0 .. MaxBlocks /\ returned' \in 0 .. MaxBlocks
    BY <1>0, <1>3, Parameters DEF Generate, Connect, TypeOK, JobIsPending
  <2> QED
    BY <1>0, <1>3, <2>1 DEF Generate, Connect, TypeOK, calls
<1>4. CASE BuildBlock
  <2>1. job'.txs = mempool
    BY <1>4 DEF BuildBlock
  <2> QED
    BY <1>0, <1>4, <2>1 DEF BuildBlock, TypeOK, node, calls
<1>5. CASE SubmitBlock
  <2>1. height' \in 0 .. MaxBlocks /\ returned' \in 0 .. MaxBlocks
    BY <1>0, <1>5, Parameters DEF SubmitBlock, Connect, TypeOK, JobIsPending
  <2>2. mempool' \subseteq Transaction /\ confirmed' \subseteq Transaction
    BY <1>0, <1>5 DEF SubmitBlock, Connect, TypeOK
  <2>3. job'.txs \subseteq Transaction
    BY <1>5 DEF SubmitBlock, NoJob
  <2> QED
    BY <1>0, <1>5, <2>1, <2>2, <2>3 DEF SubmitBlock, TypeOK, calls
<1>6. CASE GrindFails
  <2>1. job'.txs \subseteq Transaction
    BY <1>6 DEF GrindFails, NoJob
  <2> QED
    BY <1>0, <1>6, <2>1 DEF GrindFails, TypeOK, node, calls
<1>7. ASSUME NEW c \in Call, Begin(c) PROVE TypeOK'
  BY <1>0, <1>7 DEF Begin, TypeOK, node, mining
<1>8. ASSUME NEW c \in Call, CallStep(c) PROVE TypeOK'
  <2>1. CASE ScanStarts(c)
    <3>1. UNCHANGED <<node, attempt, mining>> /\ scanning' = c
          /\ pc' = [pc EXCEPT ![c] = "scanning"]
      BY <2>1 DEF ScanStarts
    <3>2. chosen' \in [Call -> Nat]
      BY <1>0, <2>1 DEF ScanStarts, TypeOK
    <3>3. {t.coin : t \in {s \in confirmed : s.p = c.p /\ s.round = c.round}} \in SUBSET Nat
      BY <1>0 DEF TypeOK, Transaction
    <3>4. seen' \in [Call -> SUBSET Nat]
      BY <1>0, <2>1, <3>3 DEF ScanStarts, TypeOK
    <3>5. pc' \in [Call -> {"new", "scan", "scanning", "send", "ok", "refused", "failed"}]
      BY <1>0, <3>1 DEF TypeOK
    <3> QED
      BY <1>0, <3>1, <3>2, <3>4, <3>5 DEF TypeOK, node, mining
  <2>2. CASE ScanIsBusy(c)
    <3>1. attempt' \in [Call -> 0 .. MaxAttempts - 1]
      <4>1. attempt \in [Call -> 0 .. MaxAttempts - 1] /\ attempt[c] \in 0 .. MaxAttempts - 1
        BY <1>0 DEF TypeOK
      <4>2. CASE attempt[c] < MaxAttempts - 1
        <5>1. attempt' = [attempt EXCEPT ![c] = attempt[c] + 1]
          BY <2>2, <4>2 DEF ScanIsBusy
        <5>2. attempt[c] + 1 \in 0 .. MaxAttempts - 1
          BY <4>1, <4>2, Parameters
        <5> QED
          BY <4>1, <5>1, <5>2
      <4>3. CASE ~(attempt[c] < MaxAttempts - 1)
        BY <2>2, <4>1, <4>3 DEF ScanIsBusy
      <4> QED
        BY <4>2, <4>3
    <3>2. pc' \in [Call -> {"new", "scan", "scanning", "send", "ok", "refused", "failed"}]
      BY <1>0, <2>2 DEF ScanIsBusy, TypeOK
    <3> QED
      BY <1>0, <2>2, <3>1, <3>2 DEF ScanIsBusy, TypeOK, node, mining
  <2>3. CASE ScanTimesOut(c)
    BY <1>0, <2>3 DEF ScanTimesOut, TypeOK, node, mining
  <2>4. CASE Send(c)
    <3>1. pc[c] = "send" /\ UNCHANGED <<scanning, attempt, chosen, seen, mining>>
      BY <2>4 DEF Send
    <3>2. pc' \in [Call -> {"new", "scan", "scanning", "send", "ok", "refused", "failed"}]
      BY <1>0, <2>4 DEF Send, TypeOK
    <3>3. CASE Accept(c)
      <4>1. /\ value' \in [Participant -> Seq(Nat)] /\ listing' \in [Participant -> Seq(Nat)]
            /\ \E t : mempool' = mempool \cup {t} /\ t \in Transaction
        BY <3>1, <3>3, AcceptTypes
      <4>2. mempool' \subseteq Transaction /\ confirmed' = confirmed
        BY <1>0, <3>3, <4>1 DEF TypeOK, Accept
      <4> QED
        BY <1>0, <3>1, <3>2, <4>1, <4>2 DEF TypeOK, mining
    <3>4. CASE UNCHANGED node
      BY <1>0, <3>1, <3>2, <3>4 DEF TypeOK, node, mining
    <3> QED
      BY <2>4, <3>3, <3>4 DEF Send
  <2> QED
    BY <1>8, <2>1, <2>2, <2>3, <2>4 DEF CallStep
<1>9. CASE UNCHANGED vars
  BY <1>0, <1>9 DEF vars, TypeOK, node, calls, mining
<1> QED
  BY <1>1, <1>2, <1>3, <1>4, <1>5, <1>6, <1>7, <1>8, <1>9 DEF Next, Mine

LEMMA InitNodeInv == Init => NodeInv
<1> SUFFICES ASSUME Init PROVE NodeInv
  OBVIOUS
<1>1. \A p \in Participant : /\ value[p] = Funds[p] /\ Funds[p] \in Seq(Nat)
                             /\ listing[p] = [i \in DOMAIN Funds[p] |-> i]
  BY Parameters DEF Init
<1>2. \A p \in Participant : listing[p] \in Seq(Nat) /\ Len(listing[p]) = Len(value[p])
                             /\ Len(Funds[p]) <= Len(value[p])
  <2> SUFFICES ASSUME NEW p \in Participant
               PROVE  listing[p] \in Seq(Nat) /\ Len(listing[p]) = Len(value[p])
                      /\ Len(Funds[p]) <= Len(value[p])
    OBVIOUS
  <2> DEFINE n == Len(Funds[p])
  <2>1. DOMAIN Funds[p] = 1 .. n /\ n \in Nat
    BY <1>1
  <2>2. listing[p] = [i \in 1 .. n |-> i] /\ value[p] = Funds[p]
    BY <1>1, <2>1
  <2> HIDE DEF n
  <2>3. listing[p] \in Seq(Nat) /\ Len(listing[p]) = n
    BY <2>1, <2>2
  <2> QED
    BY <2>1, <2>2, <2>3 DEF n
<1>3. value \in [Participant -> Seq(Nat)] /\ listing \in [Participant -> Seq(Nat)]
  BY <1>1, <1>2 DEF Init
<1>4. TypeOK
  BY <1>3, Parameters DEF Init, TypeOK, NoJob
<1>5. OutputsAreNumbered /\ PendingSpendsChoice /\ PaysAgainOnlyAfterABlock
  BY <1>2 DEF Init, OutputsAreNumbered, PendingSpendsChoice, PaysAgainOnlyAfterABlock, Accepted
<1>6. ChosenIsChoice
  BY DEF Init, ChosenIsChoice
<1>7. JobIsPending
  BY DEF Init, JobIsPending, NoJob
<1> QED
  BY <1>4, <1>5, <1>6, <1>7 DEF NodeInv

(***************************************************************************)
(* NodeInv holds throughout: whatever the calls, the scans and the blocks  *)
(* do, what a participant has pending is one transaction that spends the   *)
(* output every call of it would choose now (api_participant.py:195).      *)
(***************************************************************************)
THEOREM NodeInvariant == Spec => []NodeInv
<1>1. NodeInv /\ [Next]_vars => NodeInv'
  BY NextKeeps, NextJobIsPending, NextTypeOK DEF NodeInv
<1> QED
  BY <1>1, InitNodeInv, PTL DEF Spec

(***************************************************************************)
(* A /contribute made again pays again only after a block with the first   *)
(* payment.                                                                *)
(***************************************************************************)
THEOREM PaysAgainOnlyAfterABlockCorrect == Spec => []PaysAgainOnlyAfterABlock
<1>1. NodeInv => PaysAgainOnlyAfterABlock
  BY DEF NodeInv
<1> QED
  BY <1>1, NodeInvariant, PTL

(***************************************************************************)
(* The money of a participant.                                             *)
(***************************************************************************)
Own(p) == {t \in Accepted : t.p = p}
Held(p) == {k \in DOMAIN value[p] : ~SpentBy(Accepted, p, k)}

Accounts == IsFiniteSet(Accepted) /\ NothingLost

LEMMA AccountsUnchanged ==
  ASSUME Accounts, Accepted' = Accepted, value' = value
  PROVE  Accounts'
<1>1. \A p, k : SpentBy(Accepted, p, k)' <=> SpentBy(Accepted, p, k)
  BY DEF SpentBy
<1>2. NothingLost'
  BY <1>1 DEF Accounts, NothingLost
<1> QED
  BY <1>2 DEF Accounts

\* One step of one participant: it spends an output v and has the change back.
LEMMA SpendKeepsSum ==
  ASSUME NEW s \in Seq(Nat), NEW held \in SUBSET (1 .. Len(s)), NEW k \in held,
         NEW c \in Nat
  PROVE  SumFunctionOnSet(Append(s, c), (held \ {k}) \cup {Len(s) + 1})
           = SumFunctionOnSet(s, held) - s[k] + c
<1> DEFINE r == Append(s, c)
           rest == held \ {k}
           next == Len(s) + 1
<1>1. /\ Len(s) \in Nat /\ next \in Nat /\ next \notin 1 .. Len(s)
      /\ \A l \in 1 .. Len(s) : s[l] \in Nat /\ r[l] = s[l]
      /\ r[next] = c
  OBVIOUS
<1>2. IsFiniteSet(held) /\ IsFiniteSet(rest) /\ rest \in SUBSET (1 .. Len(s))
  <2>1. IsFiniteSet(1 .. Len(s))
    BY <1>1, FS_Interval
  <2> QED
    BY <2>1, FS_Subset
<1>3. k \in 1 .. Len(s) /\ s[k] \in Int
  BY <1>1
<1> HIDE DEF r, next
<1>a. /\ \A l \in held : s[l] \in Int
      /\ \A l \in rest : s[l] \in Int /\ r[l] = s[l]
      /\ \A l \in rest \cup {next} : r[l] \in Int
      /\ next \notin rest
  BY <1>1, <1>2
<1> HIDE DEF rest
<1>4. SumFunctionOnSet(s, held) = SumFunctionOnSet(s, rest) + s[k]
  BY <1>2, <1>a, SumRemove DEF rest
<1>5. SumFunctionOnSet(r, rest) = SumFunctionOnSet(s, rest)
  BY <1>2, <1>a, SumSame
<1>6. SumFunctionOnSet(r, rest \cup {next}) = SumFunctionOnSet(r, rest) + r[next]
  BY <1>2, <1>a, SumAdd
<1>7. SumFunctionOnSet(s, rest) \in Int
  BY <1>2, <1>a, SumType
<1>8. SumFunctionOnSet(r, rest \cup {next}) = SumFunctionOnSet(s, held) - s[k] + c
  BY <1>1, <1>3, <1>4, <1>5, <1>6, <1>7
<1> QED
  BY <1>8 DEF r, next, rest

LEMMA AcceptKeepsAccounts ==
  ASSUME NodeInv, Accounts, NEW c \in Call, pc[c] = "send", Accept(c)
  PROVE  Accounts'
<1> DEFINE p == c.p
           k == chosen[c]
           v == value[p][k]
           back == v - Amount - Fee
<1>0. /\ value \in [Participant -> Seq(Nat)] /\ p \in Participant /\ value[p] \in Seq(Nat)
      /\ Len(value[p]) \in Nat /\ Amount \in Nat /\ confirmed' = confirmed
      /\ \A t \in Accepted : t.p = p => t.coin \in DOMAIN value[p]
  <2>1. value \in [Participant -> Seq(Nat)] /\ p \in Participant /\ Amount \in Nat
    BY Parameters DEF NodeInv, TypeOK
  <2>2. value[p] \in Seq(Nat) /\ Len(value[p]) \in Nat
    BY <2>1
  <2>3. \A t \in Accepted : t.p = p => t.coin \in DOMAIN value[p]
    BY <2>1 DEF NodeInv, OutputsAreNumbered
  <2>4. confirmed' = confirmed
    BY DEF Accept
  <2> QED
    BY <2>1, <2>2, <2>3, <2>4
<1>1. PICK t : mempool' = mempool \cup {t} /\ t.p = p /\ t.coin = k
  BY AcceptTypes
<1>2. Accepted' = Accepted \cup {t}
  BY <1>0, <1>1 DEF Accepted
<1>3. k \in DOMAIN value[p] /\ v \in Nat /\ v >= Amount + Margin
  <2>1. ListedFirst(p, k)
    BY AcceptTypes
  <2> QED
    BY <1>0, <2>1 DEF ListedFirst, Fits, Enough
<1>4. back \in Nat /\ ChangeOf(v) = back /\ ChangeOf(v) > 0
  <2> HIDE DEF v
  <2> QED
    BY <1>0, <1>3 DEF ChangeOf, Margin, Fee, Dust
<1>5. value' = [value EXCEPT ![p] = Append(@, back)]
  BY <1>4 DEF Accept
<1>6. ~SpentBy(Accepted, p, k)
  BY DEF Accept, Unspent, SpentBy, Accepted
<1>7. t \notin Accepted
  BY <1>1, <1>6 DEF SpentBy
<1>8. IsFiniteSet(Accepted')
  BY <1>2, FS_AddElement DEF Accounts
<1>9. ASSUME NEW q \in Participant
      PROVE  SumFunction(Funds[q]) = SumFunctionOnSet(value'[q], Held(q)')
                                       + Cardinality(Own(q)') * (Amount + Fee)
  <2>0. SumFunction(Funds[q]) = SumFunctionOnSet(value[q], Held(q))
                                  + Cardinality(Own(q)) * (Amount + Fee)
    BY DEF Accounts, NothingLost, Own, Held
  <2>1. CASE q # p
    <3>1. value'[q] = value[q]
      BY <1>0, <1>5, <2>1
    <3>2. Own(q)' = Own(q)
      BY <1>1, <1>2, <2>1 DEF Own
    <3>3. \A l : SpentBy(Accepted', q, l) <=> SpentBy(Accepted, q, l)
      BY <1>1, <1>2, <2>1 DEF SpentBy
    <3>4. Held(q)' = Held(q)
      BY <3>1, <3>3 DEF Held
    <3> QED
      BY <2>0, <3>1, <3>2, <3>4
  <2>2. CASE q = p
    <3> DEFINE next == Len(value[p]) + 1
    <3>1. value'[p] = Append(value[p], back) /\ DOMAIN value[p] = 1 .. Len(value[p])
          /\ DOMAIN value'[p] = DOMAIN value[p] \cup {next}
      BY <1>0, <1>4, <1>5
    <3>2. Own(p)' = Own(p) \cup {t} /\ t \notin Own(p)
      BY <1>1, <1>2, <1>7 DEF Own
    <3>3. IsFiniteSet(Own(p)) /\ Cardinality(Own(p)) \in Nat
      <4>1. Own(p) \in SUBSET Accepted
        BY DEF Own
      <4> QED
        BY <4>1, FS_Subset, FS_CardinalityType DEF Accounts
    <3>4. Cardinality(Own(p)') = Cardinality(Own(p)) + 1
      BY <3>2, <3>3, FS_AddElement
    <3>5. \A l : SpentBy(Accepted', p, l) <=> SpentBy(Accepted, p, l) \/ l = k
      BY <1>1, <1>2 DEF SpentBy
    <3>6. next \notin DOMAIN value[p] /\ ~SpentBy(Accepted, p, next) /\ next # k
      <4>1. next \notin DOMAIN value[p]
        BY <1>0, <3>1
      <4> HIDE DEF next
      <4> QED
        BY <1>0, <1>3, <4>1 DEF SpentBy
    <3>7. Held(p)' = (Held(p) \ {k}) \cup {next}
      <4> HIDE DEF next, k
      <4> QED
        BY <3>1, <3>5, <3>6 DEF Held
    <3>8. k \in Held(p) /\ Held(p) \in SUBSET (1 .. Len(value[p]))
      BY <1>3, <1>6, <3>1 DEF Held
    <3>9. SumFunctionOnSet(value'[p], Held(p)')
            = SumFunctionOnSet(value[p], Held(p)) - v + back
      <4> DEFINE h == Held(p)
                 s == value[p]
      <4>1. s \in Seq(Nat) /\ h \in SUBSET (1 .. Len(s)) /\ k \in h /\ back \in Nat
        BY <1>0, <1>4, <3>8
      <4>2. value'[p] = Append(s, back) /\ Held(p)' = (h \ {k}) \cup {Len(s) + 1} /\ v = s[k]
        BY <3>1, <3>7
      <4> HIDE DEF h, s, k, v, back
      <4>3. SumFunctionOnSet(Append(s, back), (h \ {k}) \cup {Len(s) + 1})
              = SumFunctionOnSet(s, h) - s[k] + back
        BY <4>1, SpendKeepsSum
      <4> QED
        BY <4>2, <4>3 DEF h, s
    <3>10. SumFunctionOnSet(value[p], Held(p)) \in Int
      <4>1. IsFiniteSet(Held(p)) /\ \A l \in Held(p) : value[p][l] \in Int
        <5>1. IsFiniteSet(1 .. Len(value[p]))
          BY <1>0, FS_Interval
        <5> QED
          BY <1>0, <3>8, <5>1, FS_Subset
      <4> QED
        BY <4>1, SumType
    <3>11. ASSUME NEW a \in Int, NEW d \in Nat
           PROVE  a + d * (Amount + Fee) = (a - v + back) + (d + 1) * (Amount + Fee)
      <4> DEFINE w == Amount + Fee
      <4>1. w \in Int /\ back = v - w
        <5> HIDE DEF v
        <5> QED
          BY <1>0, <1>3 DEF Fee
      <4> HIDE DEF w, back, v
      <4>2. (d + 1) * w = d * w + w /\ d * w \in Int
        BY <4>1
      <4> QED
        BY <1>3, <4>1, <4>2 DEF w
    <3> HIDE DEF p, v, back
    <3> QED
      BY <2>0, <2>2, <3>3, <3>4, <3>9, <3>10, <3>11
  <2> QED
    BY <2>1, <2>2
<1>10. NothingLost'
  BY <1>9 DEF NothingLost, Own, Held
<1> QED
  BY <1>8, <1>10 DEF Accounts

LEMMA NextKeepsAccounts ==
  ASSUME NodeInv, Accounts, [Next]_vars
  PROVE  Accounts'
<1>1. CASE Generate
  <2>1. Accepted' = Accepted /\ value' = value
    BY <1>1 DEF Generate, Connect, Accepted
  <2> QED
    BY <2>1, AccountsUnchanged
<1>2. CASE SubmitBlock
  <2>1. Accepted' = Accepted /\ value' = value
    BY <1>2 DEF SubmitBlock, Connect, Accepted, NodeInv, JobIsPending
  <2> QED
    BY <2>1, AccountsUnchanged
<1>3. ASSUME NEW c \in Call, Send(c) PROVE Accounts'
  <2>1. CASE Accept(c)
    BY <1>3, <2>1, AcceptKeepsAccounts DEF Send
  <2>2. CASE UNCHANGED node
    BY <2>2, AccountsUnchanged DEF node, Accepted
  <2> QED
    BY <1>3, <2>1, <2>2 DEF Send
<1>4. CASE UNCHANGED node
  BY <1>4, AccountsUnchanged DEF node, Accepted
<1>5. \/ Generate \/ SubmitBlock \/ (\E c \in Call : Send(c)) \/ UNCHANGED node
  BY DEF Next, Mine, CallStep, ScanEnds, OtherScans, BuildBlock, GrindFails, Begin,
         ScanStarts, ScanIsBusy, ScanTimesOut, vars
<1> QED
  BY <1>1, <1>2, <1>3, <1>4, <1>5

LEMMA InitAccounts == Init => Accounts
<1> SUFFICES ASSUME Init PROVE Accounts
  OBVIOUS
<1>1. Accepted = {}
  BY DEF Init, Accepted
<1>2. ASSUME NEW p \in Participant
      PROVE  SumFunction(Funds[p]) = SumFunctionOnSet(value[p], Held(p))
                                       + Cardinality(Own(p)) * (Amount + Fee)
  <2>1. value[p] = Funds[p] /\ Funds[p] \in Seq(Nat) /\ Amount + Fee \in Int
    BY Parameters DEF Init, Fee
  <2>2. Own(p) = {} /\ Held(p) = DOMAIN value[p]
    BY <1>1 DEF Own, Held, SpentBy
  <2>3. Cardinality(Own(p)) = 0
    BY <2>2, FS_EmptySet
  <2>4. SumFunctionOnSet(Funds[p], DOMAIN Funds[p]) \in Int
    <3>1. IsFiniteSet(1 .. Len(Funds[p])) /\ DOMAIN Funds[p] = 1 .. Len(Funds[p])
      BY <2>1, FS_Interval
    <3>2. \A k \in DOMAIN Funds[p] : Funds[p][k] \in Int
      BY <2>1
    <3> QED
      BY <3>1, <3>2, SumType
  <2> QED
    BY <2>1, <2>2, <2>3, <2>4 DEF SumFunction
<1>3. NothingLost
  BY <1>2 DEF NothingLost, Own, Held
<1> QED
  BY <1>1, <1>3, FS_EmptySet DEF Accounts

(***************************************************************************)
(* A participant's money is in its outputs, in its contributions, or was   *)
(* the fixed fee of one of them (rpc.py:300-306).                          *)
(***************************************************************************)
THEOREM NothingIsLost == Spec => []NothingLost
<1>1. NodeInv /\ Accounts /\ [Next]_vars => Accounts'
  BY NextKeepsAccounts
<1>2. Accounts => NothingLost
  BY DEF Accounts
<1> QED
  BY <1>1, <1>2, InitAccounts, NodeInvariant, PTL DEF Spec
=============================================================================
