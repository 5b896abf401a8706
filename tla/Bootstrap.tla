------------------------------ MODULE Bootstrap ------------------------------
(***************************************************************************)
(* bootstrap of scripts/run_coordinator_ln.py, statement by statement:     *)
(* mature a coinbase, fund the coordinator's Lightning node with it, open  *)
(* a channel with every participant, wait until they are usable.  Beside   *)
(* it the chain, and the node that follows the chain at its own pace.      *)
(*                                                                         *)
(* The program may stop at any statement and is started again from         *)
(* nothing; chain, node and channels stay.                                 *)
(***************************************************************************)
EXTENDS Integers, FiniteSets, Functions

CONSTANTS
  N,                  \* participants
  Capacity,           \* of a channel: CHANNEL_CAPACITY_SAT
  Slack,              \* what the funding has above N channels: 0.001 BTC
  OpenFee,            \* a funding transaction of a channel costs the node at most this
  Tolerance,          \* wait_cln_funds is content with this much less
  Maturity,           \* 100 in the code: a coinbase that old may be spent
  Confirms,           \* blocks until the nodes take a channel for usable
  MaxStarts,          \* bound: starts of the program
  Faults              \* {"stop"}, or none

ASSUME ParametersAssumption ==
  /\ N \in Nat \ {0} /\ Capacity \in Nat \ {0} /\ OpenFee \in Nat
  /\ Slack \in Nat /\ N * OpenFee <= Slack
  /\ Tolerance \in Nat /\ Maturity \in Nat \ {0} /\ Confirms \in 1 .. 6
  /\ MaxStarts \in Nat \ {0} /\ Faults \subseteq {"stop"}

Participant == 0 .. N - 1
Funding == N * Capacity + Slack

\* A start mines 3 blocks, one after each channel but the last, and 6.
MaxHeight == Maturity + 1 + MaxStarts * (N + 8)

VARIABLES
  starts, pc, next,   \* which start, its statement, the participant it is at
  height,             \* blocks of the chain
  coins,              \* outputs of the mining address: the block each is in, 0 if in none
  spends,             \* funding transactions: the output each spends and its block, or 0
  listed,             \* the output scantxoutset lists first among the mature, at a height
  clnHeight,          \* the block the coordinator's node is at
  wallet,             \* its outputs: where from, their value and their block, or 0
  channels            \* its channels: with whom, opened by which start, block, usable

chain == <<height, coins, spends, listed>>
cln == <<clnHeight, wallet, channels>>
vars == <<starts, pc, next, chain, cln>>

Block == 0 .. MaxHeight
Coin == [kind : {"coinbase", "change"}, of : Block, at : Block]
NoCoin == [kind |-> "coinbase", of |-> 0, at |-> 0]
Waiting == {"syncFunds", "funds", "syncOpen", "syncNormal", "normal"}
Working == Waiting \cup {"mature", "fund", "confirm", "open", "mineOne", "mineSix"}

\* Every loop and wait stays in range, and what is confirmed has a block of the chain.
TypeOK ==
  /\ starts \in 0 .. MaxStarts
  /\ pc \in Working \cup {"off", "rounds", "refused", "stopped"}
  /\ next \in Participant
  /\ height \in Block /\ clnHeight \in 0 .. height
  /\ coins \subseteq Coin /\ \A u \in coins : u.at <= height
  /\ spends \subseteq [coin : Coin, at : 0 .. height]
  /\ listed.height \in Block /\ listed.coin \in Coin
  /\ wallet \subseteq [start : 1 .. MaxStarts, from : -1 .. N - 1,
                       value : 0 .. Funding * MaxStarts, at : 0 .. height]
  /\ channels \subseteq [peer : Participant, start : 1 .. MaxStarts, at : 0 .. height,
                         normal : BOOLEAN]

Init ==
  /\ starts = 0 /\ pc = "off" /\ next = 0
  /\ height = 0 /\ coins = {} /\ spends = {} /\ listed = [height |-> 0, coin |-> NoCoin]
  /\ clnHeight = 0 /\ wallet = {} /\ channels = {}

------------------------------------------------------------------------------
(* The chain and the node *)

\* The next block takes all of a set that is pending.
Placed(set) == {[r EXCEPT !.at = IF @ = 0 THEN height + 1 ELSE @] : r \in set}

Coinbase(h) == [kind |-> "coinbase", of |-> h, at |-> h]

\* n blocks to the mining address, the first of which takes all that is pending.
Mine(n) ==
  /\ height' = height + n
  /\ coins' = Placed({u \in coins : \A s \in spends : s.at = 0 => s.coin # u})
                \cup {Coinbase(h) : h \in height + 1 .. height + n}
  /\ spends' = Placed(spends)
  /\ wallet' = Placed(wallet)
  /\ channels' = Placed(channels)
  /\ UNCHANGED <<listed, clnHeight>>

ClnFollows ==
  /\ clnHeight < height
  /\ clnHeight' \in clnHeight + 1 .. height
  /\ UNCHANGED <<starts, pc, next, chain, wallet, channels>>

\* Both ends of a channel have seen its transaction deep enough.
BecomesNormal(c) ==
  /\ ~c.normal /\ c.at # 0 /\ clnHeight - c.at + 1 >= Confirms
  /\ channels' = (channels \ {c}) \cup {[c EXCEPT !.normal = TRUE]}
  /\ UNCHANGED <<starts, pc, next, chain, clnHeight, wallet>>

\* The node spends what is in a block that it has seen.
Confirmed == {o \in wallet : o.at # 0 /\ o.at <= clnHeight}
Value(outputs) == SumFunction([o \in outputs |-> o.value])

------------------------------------------------------------------------------
(* bootstrap *)

Start ==
  /\ pc \in {"off", "rounds", "refused", "stopped"} /\ starts < MaxStarts
  /\ starts' = starts + 1 /\ pc' = "mature" /\ next' = 0
  /\ UNCHANGED <<chain, cln>>

Goto(label) == pc' = label /\ UNCHANGED <<starts, next>>

MineIfYoung ==
  /\ pc = "mature" /\ Goto("fund")
  /\ IF height < Maturity + 1 THEN Mine(Maturity + 1) ELSE UNCHANGED <<chain, cln>>

\* scantxoutset knows nothing of the mempool, and lists outputs in an order of its own,
\* the same as long as the chain is.  The first is worth more than the funding.
Mature == {u \in coins : u.at # 0 /\ u.at <= height - Maturity}
ListedFirst(u) == u \in Mature /\ (listed.height = height => u = listed.coin)

\* scan, select, sign, send.  A second transaction that spends the same output and pays
\* the same fee is refused; so is a start without a mature output.
Fund ==
  /\ pc = "fund"
  /\ \/ Mature = {} /\ Goto("refused") /\ UNCHANGED <<chain, cln>>
     \/ \E u \in Mature :
          /\ ListedFirst(u)
          /\ listed' = [height |-> height, coin |-> u]
          /\ UNCHANGED <<height, clnHeight, channels>>
          /\ IF \E s \in spends : s.coin = u
             THEN Goto("refused") /\ UNCHANGED <<coins, spends, wallet>>
             ELSE /\ Goto("confirm")
                  /\ coins' = coins \cup {[kind |-> "change", of |-> starts, at |-> 0]}
                  /\ spends' = spends \cup {[coin |-> u, at |-> 0]}
                  /\ wallet' = wallet \cup
                       {[start |-> starts, from |-> -1, value |-> Funding, at |-> 0]}

ConfirmFunding == pc = "confirm" /\ Goto("syncFunds") /\ Mine(3)

Follow == [label \in {"syncFunds", "syncOpen", "syncNormal"} |->
            CASE label = "syncFunds" -> "funds"
              [] label = "syncOpen" -> "open"
              [] label = "syncNormal" -> "normal"]

WaitSynced ==
  /\ pc \in DOMAIN Follow /\ clnHeight = height
  /\ Goto(Follow[pc])
  /\ UNCHANGED <<chain, cln>>

WaitFunds ==
  /\ pc = "funds" /\ Value(Confirmed) >= Funding - Tolerance
  /\ Goto("open")
  /\ UNCHANGED <<chain, cln>>

\* A mutant: the loop goes past the last participant.
MutAdvance == next' = next + 1

Advance == next' = IF next < N - 1 THEN next + 1 ELSE 0

\* A mutant: the next channel does not wait for a block.
MutAfterOpen == IF next < N - 1 THEN "open" ELSE "mineSix"

AfterOpen == IF next < N - 1 THEN "mineOne" ELSE "mineSix"

\* fund_channel: the node takes some of its confirmed outputs, and keeps the rest of
\* them as one that is not confirmed yet.  Without enough of them it raises.
OpenChannel ==
  /\ pc = "open"
  /\ UNCHANGED <<chain, clnHeight>>
  /\ \/ /\ Value(Confirmed) < Capacity + OpenFee
        /\ Goto("refused") /\ UNCHANGED <<wallet, channels>>
     \/ \E inputs \in SUBSET Confirmed :
          /\ Value(inputs) >= Capacity + OpenFee
          /\ wallet' = (wallet \ inputs) \cup
               {[start |-> starts, from |-> next, value |-> Value(inputs) - Capacity - OpenFee,
                 at |-> 0]}
          /\ channels' = channels \cup
               {[peer |-> next, start |-> starts, at |-> 0, normal |-> FALSE]}
          /\ pc' = AfterOpen
          /\ Advance
          /\ UNCHANGED starts

MineBetween == pc = "mineOne" /\ Goto("syncOpen") /\ Mine(1)

\* A mutant: the last channel is left without a block.
MutMineLast == pc = "mineSix" /\ Goto("syncNormal") /\ UNCHANGED <<chain, cln>>

MineLast == pc = "mineSix" /\ Goto("syncNormal") /\ Mine(6)

\* A mutant: channels are counted.
MutNormalPeers == {c \in channels : c.normal}

NormalPeers == {c.peer : c \in {d \in channels : d.normal}}

WaitChannelsNormal ==
  /\ pc = "normal" /\ Cardinality(NormalPeers) >= N
  /\ Goto("rounds")
  /\ UNCHANGED <<chain, cln>>

\* A deadline passes, a call raises or the process dies.
Stop ==
  /\ "stop" \in Faults /\ pc \in Working
  /\ Goto("stopped")
  /\ UNCHANGED <<chain, cln>>

Statement == \/ MineIfYoung \/ Fund \/ ConfirmFunding \/ WaitSynced \/ WaitFunds
             \/ OpenChannel \/ MineBetween \/ MineLast \/ WaitChannelsNormal

Next == \/ Start \/ Statement \/ Stop \/ ClnFollows
        \/ \E c \in channels : BecomesNormal(c)

Spec == Init /\ [][Next]_vars

\* The program runs on, and so do the nodes.
FairSpec == /\ Spec /\ WF_vars(Statement) /\ WF_vars(ClnFollows)
            /\ WF_vars(\E c \in channels : BecomesNormal(c))

------------------------------------------------------------------------------
(* Properties *)

(***************************************************************************)
(* A start is never short of money: it finds a mature coinbase, and before *)
(* every channel confirmed outputs that pay for it                         *)
(* (run_coordinator_ln.py:234, :301).  The exception is a start after one  *)
(* that stopped between sending its funding and mining a block: it selects *)
(* the same coinbase, and so does every other start until there is a block.*)
(***************************************************************************)
RefusedOnlyWhilePending ==
  pc = "refused" => \E s \in spends : s.at = 0

(***************************************************************************)
(* The rounds begin with a usable channel to every participant, whatever   *)
(* earlier starts left half done; on a first start, with all its own       *)
(* (run_coordinator_ln.py:185).                                            *)
(***************************************************************************)
RoundsHaveChannels ==
  pc = "rounds" =>
    /\ \A p \in Participant : \E c \in channels : c.peer = p /\ c.normal
    /\ starts = 1 => \A c \in channels : c.normal

\* A start that nothing stops ends: no wait is for what nobody will do
\* (run_coordinator_ln.py:306).
BootstrapEnds == pc = "mature" ~> pc \in {"rounds", "refused", "stopped"}

------------------------------------------------------------------------------
(***************************************************************************)
(* The inductive invariant: why there is always a coinbase to spend,       *)
(* enough in the wallet for the channels to come, and a channel with each. *)
(***************************************************************************)
Opening == {"confirm", "syncFunds", "funds", "open", "mineOne", "syncOpen"}

LoopAt ==
  /\ pc \in {"mature", "fund", "confirm", "syncFunds", "funds", "mineSix"} => next = 0
  /\ pc \in {"mineOne", "syncOpen"} => next > 0

\* Blocks this start has mined after the first Maturity + 1.
Mined == CASE pc \in {"mature", "fund", "confirm"} -> 0
           [] pc \in {"syncFunds", "funds"} -> 3
           [] pc \in {"open", "syncOpen"} -> 3 + next
           [] pc = "mineOne" -> 2 + next
           [] pc = "mineSix" -> 2 + N
           [] OTHER -> N + 8

HeightSoFar ==
  /\ starts = 0 <=> pc = "off"
  /\ height = 0 => pc \in {"off", "mature", "stopped"}
  /\ starts = 0 => height = 0
  /\ height = 0 => coins = {} /\ spends = {} /\ wallet = {} /\ channels = {}
  /\ height = 0 \/ height >= Maturity + 1
  /\ height <= Maturity + 1 + (starts - 1) * (N + 8) + Mined

\* Every coinbase is there or spent.  There is one block more than spends to choose
\* from, but for a spend that is pending, and that is of the output still listed first.
Pending == {s \in spends : s.at = 0}

CoinsSoFar ==
  /\ \A h \in 1 .. height :
       Coinbase(h) \in coins \/ \E s \in spends : s.coin = Coinbase(h)
  /\ \A s \in spends : /\ s.coin.at \in 1 .. height - Maturity
                       /\ s.coin \in coins <=> s.at = 0
  /\ \A s \in Pending : listed = [height |-> height, coin |-> s.coin]
  /\ IsFiniteSet(spends)
  /\ height > 0 => Cardinality(spends) + Maturity + (IF Pending = {} THEN 1 ELSE 0) <= height

\* What a start has brought pays for the channels it has not opened, as soon as it is
\* confirmed.
WalletSoFar ==
  /\ IsFiniteSet(wallet)
  /\ Value(wallet) <= Funding * (IF pc \in {"mature", "fund"} THEN starts - 1 ELSE starts)
  /\ \A o \in wallet : /\ o.start <= starts
                       /\ pc \in {"mature", "fund"} => o.start < starts
                       /\ pc \in Opening /\ o.start = starts => o.from < next
                       /\ pc \in Opening \ {"confirm", "mineOne"} => o.at # 0
  /\ pc \in Opening => Value(wallet) >= (N - next) * (Capacity + OpenFee)
  /\ pc \in {"funds", "open"} => clnHeight = height

\* A first start has one channel with each participant that its loop has passed.
ChannelsSoFar ==
  /\ pc = "rounds" => NormalPeers = Participant
  /\ starts = 1 =>
       /\ \A c, d \in channels : c.peer = d.peer => c = d
       /\ pc \in {"mature", "fund"} \cup Opening => \A c \in channels : c.peer < next

BootstrapInv == /\ TypeOK /\ LoopAt /\ HeightSoFar /\ CoinsSoFar /\ WalletSoFar
                /\ ChannelsSoFar /\ RefusedOnlyWhilePending
==============================================================================
