------------------------------- MODULE Regtest -------------------------------
(***************************************************************************)
(* The on-chain participants at their node: POST /contribute               *)
(* (tanda/api_participant.py) over the wrapper of tanda/rpc.py, several    *)
(* calls at a time, beside a bitcoind with its chain, its mempool and its  *)
(* one scan at a time, and beside mine().                                  *)
(*                                                                         *)
(* A caller that lost an answer, or that gave up waiting, makes its call   *)
(* again; the first may still be running.  Nobody else pays to the         *)
(* participants' addresses meanwhile.                                      *)
(***************************************************************************)
EXTENDS Integers, FiniteSets, SequencesExt

CONSTANTS
  Call,               \* calls of /contribute: [p, round, try]
  Funds,              \* the values, in sat, of the outputs a participant begins with
  Amount,             \* the contribution, in sat
  MaxAttempts,        \* attempts of scan_utxos: 10 in the code
  MaxBlocks           \* bound: blocks mined, or attempted, in a behaviour

ASSUME ParametersAssumption ==
  /\ Call \subseteq [p : Nat, round : Nat, try : Nat \ {0}]
  /\ Amount \in Nat \ {0} /\ MaxAttempts \in Nat \ {0} /\ MaxBlocks \in Nat
  /\ \A c \in Call : c.p \in DOMAIN Funds /\ Funds[c.p] \in Seq(Nat)

Fee == 5000                     \* fixed regtest fee
Margin == 10000                 \* what /contribute wants above the amount
Dust == 546

Participant == {c.p : c \in Call}

VARIABLES
  value,              \* the outputs of a participant's address, numbered: their values
  listing,            \* the place of each among them in the list of scantxoutset
  mempool,            \* transactions accepted and not in a block
  confirmed,          \* transactions in a block
  scanning,           \* the call whose scan the node is at, or none
  pc, attempt,        \* where a call is, and at which attempt of scan_utxos
  chosen,             \* the output it will spend: known once it was scanned
  seen,               \* history: what its round had confirmed when it scanned
  generates,          \* whether the node takes generatetoaddress from mine()
  job,                \* the block _mine_walletless is at
  height, returned    \* blocks on the chain, hashes that mine() returned

node == <<value, listing, mempool, confirmed>>
calls == <<scanning, pc, attempt, chosen, seen>>
mining == <<generates, job, height, returned>>
vars == <<node, calls, mining>>

NoCall == [p |-> 0, round |-> 0, try |-> 0]
Other == [NoCall EXCEPT !.round = 1]   \* whoever else scans at this node
NoJob == [ids |-> <<>>, txs |-> {}, tip |-> 0]

\* The fee and the amount are fixed and signatures deterministic: the output spent and
\* the round's address make the transaction.  "after" is history: see seen.
Transaction == [p : Participant, coin : Nat, round : Nat, change : Nat, after : SUBSET Nat]

\* Attempts, blocks and what the node holds are within their bounds.
TypeOK ==
  /\ value \in [Participant -> Seq(Nat)]
  /\ listing \in [Participant -> Seq(Nat)]
  /\ mempool \subseteq Transaction /\ confirmed \subseteq Transaction
  /\ scanning \in Call \cup {NoCall, Other}
  /\ pc \in [Call -> {"new", "scan", "scanning", "send", "ok", "refused", "failed"}]
  /\ attempt \in [Call -> 0 .. MaxAttempts - 1]
  /\ chosen \in [Call -> Nat]
  /\ seen \in [Call -> SUBSET Nat]
  /\ generates \in BOOLEAN
  /\ job.txs \subseteq Transaction
  /\ height \in 0 .. MaxBlocks /\ returned \in 0 .. MaxBlocks

Init ==
  /\ value = [p \in Participant |-> Funds[p]]
  /\ listing = [p \in Participant |-> [i \in DOMAIN Funds[p] |-> i]]
  /\ mempool = {} /\ confirmed = {}
  /\ scanning = NoCall
  /\ pc = [c \in Call |-> "new"]
  /\ attempt = [c \in Call |-> 0]
  /\ chosen = [c \in Call |-> 0]
  /\ seen = [c \in Call |-> {}]
  /\ generates \in BOOLEAN
  /\ job = NoJob
  /\ height = 0 /\ returned = 0

------------------------------------------------------------------------------
(* The node *)

SpentBy(txs, p, k) == \E t \in txs : t.p = p /\ t.coin = k
Change(txs, p) == {t.change : t \in {s \in txs : s.p = p}}

\* A mutant: the scan sees what the mempool holds, as listunspent with 0 confirmations.
MutUnspent(p, k) ==
  /\ k \in DOMAIN Funds[p] \cup Change(confirmed \cup mempool, p)
  /\ ~SpentBy(confirmed \cup mempool, p, k)

\* scantxoutset reads the chain state: what the mempool spends is still there, and what
\* it creates is not.
Unspent(p, k) ==
  /\ k \in DOMAIN Funds[p] \cup Change(confirmed, p)
  /\ ~SpentBy(confirmed, p, k)

\* A new output gets a transaction id, which decides where it is listed.
List(p) ==
  \E i \in 1 .. Len(listing[p]) + 1 :
    listing' = [listing EXCEPT ![p] =
      Append([k \in DOMAIN @ |-> IF @[k] >= i THEN @[k] + 1 ELSE @[k]], i)]

\* generatetoaddress, and a block that is accepted: everything pending is confirmed.
Connect(txs) ==
  /\ confirmed' = confirmed \cup txs
  /\ mempool' = mempool \ txs
  /\ height' = height + 1

------------------------------------------------------------------------------
(* POST /contribute *)

\* The first call of a round, or one more when the caller has no answer to the last.
Begin(c) ==
  /\ pc[c] = "new"
  /\ c.try > 1 => \E d \in Call : /\ d.p = c.p /\ d.round = c.round /\ d.try = c.try - 1
                                  /\ pc[d] # "new"
  /\ pc' = [pc EXCEPT ![c] = "scan"]
  /\ UNCHANGED <<node, scanning, attempt, chosen, seen, mining>>

\* A mutant: a fee is not left room for.
MutEnough(v) == v >= Amount

\* The comparison is of binary fractions of BTC, which may differ at the bound itself.
Enough(v) == v >= Amount + Margin

Fits(p, k) == Unspent(p, k) /\ Enough(value[p][k])

ListedFirst(p, k) ==
  /\ k \in DOMAIN value[p] /\ Fits(p, k)
  /\ \A l \in DOMAIN value[p] \ {k} : Fits(p, l) => listing[p][k] < listing[p][l]

\* A mutant: any output that is worth enough.
MutChoice(p, k) == IF \E l \in DOMAIN value[p] : Fits(p, l)
                   THEN k \in DOMAIN value[p] /\ Fits(p, k) ELSE k = 0

\* The first listed output that is worth enough, or 0.
Choice(p, k) == IF \E l \in DOMAIN value[p] : Fits(p, l) THEN ListedFirst(p, k) ELSE k = 0

\* The node takes one scan at a time, and reads the chain as it is when it begins.
ScanStarts(c) ==
  /\ pc[c] = "scan" /\ scanning = NoCall
  /\ scanning' = c
  /\ pc' = [pc EXCEPT ![c] = "scanning"]
  /\ \E k \in 0 .. Len(value[c.p]) : Choice(c.p, k) /\ chosen' = [chosen EXCEPT ![c] = k]
  /\ seen' = [seen EXCEPT ![c] =
       {t.coin : t \in {s \in confirmed : s.p = c.p /\ s.round = c.round}}]
  /\ UNCHANGED <<node, attempt, mining>>

\* The coordinator and other participants use the same node, as often as they like.
OtherScans ==
  /\ scanning = NoCall
  /\ scanning' = Other
  /\ UNCHANGED <<node, pc, attempt, chosen, seen, mining>>

\* A mutant: the last attempt waits for one more.
MutScanIsBusy(c) ==
  /\ pc[c] = "scan" /\ scanning # NoCall
  /\ attempt' = [attempt EXCEPT ![c] = (@ + 1) % MaxAttempts]
  /\ UNCHANGED <<node, scanning, pc, chosen, seen, mining>>

\* "Scan already in progress": asked again after a pause, and raised the last time.
ScanIsBusy(c) ==
  /\ pc[c] = "scan" /\ scanning # NoCall
  /\ IF attempt[c] < MaxAttempts - 1
     THEN attempt' = [attempt EXCEPT ![c] = @ + 1] /\ UNCHANGED pc
     ELSE pc' = [pc EXCEPT ![c] = "failed"] /\ UNCHANGED attempt
  /\ UNCHANGED <<node, scanning, chosen, seen, mining>>

\* No output, or none that is worth enough, is status 400.
ScanEnds ==
  /\ scanning # NoCall
  /\ scanning' = NoCall
  /\ IF scanning \in Call /\ pc[scanning] = "scanning"
     THEN pc' = [pc EXCEPT ![scanning] = IF chosen[scanning] = 0 THEN "refused" ELSE "send"]
     ELSE UNCHANGED pc
  /\ UNCHANGED <<node, attempt, chosen, seen, mining>>

\* The HTTP client of the wrapper gives up; the node goes on scanning.
ScanTimesOut(c) ==
  /\ pc[c] = "scanning"
  /\ pc' = [pc EXCEPT ![c] = "failed"]
  /\ UNCHANGED <<node, scanning, attempt, chosen, seen, mining>>

\* _fund_address_raw: what is left after the amount and the fee comes back, unless it
\* is dust.
ChangeOf(v) == IF v - Amount - Fee > Dust THEN v - Amount - Fee ELSE 0

\* The node accepts a transaction once, and again while it is pending; another that
\* spends the same output conflicts with it.
Accept(c) ==
  LET p == c.p
      change == ChangeOf(value[p][chosen[c]])
      next == Len(value[p]) + 1
      tx == [p |-> p, coin |-> chosen[c], round |-> c.round,
             change |-> IF change > 0 THEN next ELSE 0, after |-> seen[c]]
  IN  /\ Unspent(p, chosen[c]) /\ ~SpentBy(mempool, p, chosen[c])
      /\ mempool' = mempool \cup {tx}
      /\ IF change > 0
         THEN value' = [value EXCEPT ![p] = Append(@, change)] /\ List(p)
         ELSE UNCHANGED <<value, listing>>
      /\ UNCHANGED confirmed

Pending(c) == \E t \in mempool : t.p = c.p /\ t.coin = chosen[c] /\ t.round = c.round

Send(c) ==
  /\ pc[c] = "send"
  /\ \/ Accept(c) /\ pc' = [pc EXCEPT ![c] = "ok"]
     \/ Pending(c) /\ pc' = [pc EXCEPT ![c] = "ok"] /\ UNCHANGED node
     \/ /\ ~Unspent(c.p, chosen[c]) \/ (SpentBy(mempool, c.p, chosen[c]) /\ ~Pending(c))
        /\ pc' = [pc EXCEPT ![c] = "failed"] /\ UNCHANGED node
  /\ UNCHANGED <<scanning, attempt, chosen, seen, mining>>

------------------------------------------------------------------------------
(* mine() *)

\* generatetoaddress, at the wallet's URL or at the base URL.
Generate ==
  /\ generates /\ returned < MaxBlocks
  /\ Connect(mempool)
  /\ returned' = returned + 1
  /\ UNCHANGED <<value, listing, calls, generates, job>>

\* A hash of 32 bytes, in the order of the header or in the order it is shown in.
Id(of, order) == <<of, order>>
TxId(t) == Id(<<t.p, t.coin>>, "internal")


\* _tx_txid turns the bytes around, and so does nobody after it.
CoinbaseId == Id(<<0, 0>>, "shown")

NextLevel(hashes) ==
  [i \in 1 .. (Len(hashes) + 1) \div 2 |->
     <<hashes[2 * i - 1], IF 2 * i <= Len(hashes) THEN hashes[2 * i] ELSE hashes[2 * i - 1]>>]

\* The loop ends at one hash.
MerkleRoot(ids) ==
  LET level[n \in Nat] ==
        IF n = 0 THEN ids
        ELSE IF Len(level[n - 1]) = 1 THEN level[n - 1] ELSE NextLevel(level[n - 1])
  IN  level[Len(ids)][1]

\* What the node computes: the tree from its root down, where a branch beyond the last
\* is the last.
Tree(ids) ==
  LET width(h) == (Len(ids) + 2 ^ h - 1) \div 2 ^ h
      clip(h, i) == IF i < width(h) THEN i ELSE width(h) - 1
      hash[h \in Nat, i \in Nat] ==
        IF h = 0 THEN ids[i + 1]
        ELSE <<hash[h - 1, clip(h - 1, 2 * i)], hash[h - 1, clip(h - 1, 2 * i + 1)]>>
  IN  hash[CHOOSE h \in 0 .. Len(ids) : width(h) = 1 /\ \A g \in 0 .. h - 1 : width(g) > 1, 0]

\* getblocktemplate, the coinbase and the header.
BuildBlock ==
  /\ ~generates /\ returned < MaxBlocks /\ job = NoJob
  /\ job' = [ids |-> <<CoinbaseId>> \o [i \in 1 .. Cardinality(mempool) |->
                                           TxId(SetToSeq(mempool)[i])],
             txs |-> mempool, tip |-> height + 1]
  /\ UNCHANGED <<node, calls, generates, height, returned>>

\* The node wants the root of the block's transactions, and the block on its tip.
ValidBlock ==
  /\ MerkleRoot(job.ids) = Tree(<<Id(<<0, 0>>, "internal")>> \o Tail(job.ids))
  /\ job.tip = height + 1

\* The answer of submitblock, a reason or nothing, is not looked at.
SubmitBlock ==
  /\ job # NoJob
  /\ IF ValidBlock THEN Connect(job.txs) ELSE UNCHANGED <<mempool, confirmed, height>>
  /\ job' = NoJob
  /\ returned' = returned + 1
  /\ UNCHANGED <<value, listing, calls, generates>>

\* grind fails, or takes more than a minute: mine() raises.
GrindFails ==
  /\ job # NoJob
  /\ job' = NoJob
  /\ UNCHANGED <<node, calls, generates, height, returned>>

------------------------------------------------------------------------------

CallStep(c) == ScanStarts(c) \/ ScanIsBusy(c) \/ ScanTimesOut(c) \/ Send(c)
Mine == Generate \/ BuildBlock \/ SubmitBlock \/ GrindFails

Next == ScanEnds \/ OtherScans \/ Mine \/ \E c \in Call : Begin(c) \/ CallStep(c)

Spec == Init /\ [][Next]_vars

\* A handler's thread runs on, and the node finishes a scan.
FairSpec == Spec /\ WF_vars(ScanEnds) /\ \A c \in Call : WF_vars(CallStep(c))

------------------------------------------------------------------------------
(* Properties *)

Accepted == mempool \cup confirmed

\* A /contribute made again does not pay again, however the calls overlap, before the
\* first payment is in a block: until then all calls choose the same output, and the
\* node knows their transaction (api_participant.py:195).
PaysAgainOnlyAfterABlock ==
  \A s, t \in Accepted :
    s.p = t.p /\ s.round = t.round /\ s.coin # t.coin =>
      s.coin \in t.after \/ t.coin \in s.after

\* A participant's money is in its outputs, in its contributions, or was the fixed fee of
\* one of them: no change is lost as dust (rpc.py:317-325).
NothingLost ==
  \A p \in Participant :
    LET own == {t \in Accepted : t.p = p}
        held == {k \in DOMAIN value[p] : ~SpentBy(Accepted, p, k)}
    IN  SumFunction(Funds[p])
          = SumFunctionOnSet(value[p], held) + Cardinality(own) * (Amount + Fee)

\* Every call is answered: scans of others, one after another, do not keep it waiting for
\* ever (rpc.py:400).
CallsReturn ==
  \A c \in Call : pc[c] = "scan" ~> pc[c] \in {"ok", "refused", "failed"}


------------------------------------------------------------------------------
(***************************************************************************)
(* The inductive invariant: why all calls of a participant choose the same *)
(* output until it is spent in a block.                                    *)
(***************************************************************************)
OutputsAreNumbered ==
  \A p \in Participant :
    /\ Len(listing[p]) = Len(value[p]) /\ Len(Funds[p]) <= Len(value[p])
    /\ \A t \in Accepted : t.p = p => t.coin \in DOMAIN value[p] /\ t.change <= Len(value[p])

\* At most one transaction of a participant is pending, and it spends the choice.
PendingSpendsChoice ==
  \A t \in mempool : ListedFirst(t.p, t.coin) /\ \A s \in mempool : s.p = t.p => s = t

\* What a call chose is the choice as long as it is unspent, and until then the call
\* has seen every payment of its round that is in a block.
ChosenIsChoice ==
  \A c \in Call :
    /\ pc[c] = "send" => chosen[c] # 0
    /\ chosen[c] # 0 =>
         /\ chosen[c] \in DOMAIN Funds[c.p] \cup Change(confirmed, c.p)
         /\ Unspent(c.p, chosen[c]) =>
              /\ ListedFirst(c.p, chosen[c])
              /\ \A s \in confirmed : s.p = c.p /\ s.round = c.round => s.coin \in seen[c]

JobIsPending ==
  /\ job.txs \subseteq mempool
  /\ job # NoJob => ~generates /\ returned < MaxBlocks
  /\ height <= returned

NodeInv == /\ TypeOK /\ OutputsAreNumbered /\ PendingSpendsChoice /\ ChosenIsChoice
           /\ JobIsPending /\ PaysAgainOnlyAfterABlock
==============================================================================
