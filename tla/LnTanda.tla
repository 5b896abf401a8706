------------------------------- MODULE LnTanda -------------------------------
(***************************************************************************)
(* The whole Lightning tanda: main, bootstrap and collect_renewals of      *)
(* scripts/run_coordinator_ln.py over channels with balances, for as many  *)
(* starts of the program as MaxStarts allows.                              *)
(*                                                                         *)
(* A round is the exchange of PotExchange, which LnRound implements; here  *)
(* its steps also move the balances of the channels.  Nodes outlive the    *)
(* program: channels, locked HTLCs, invoice labels and signed terms stay.  *)
(***************************************************************************)
EXTENDS Integers, FiniteSets, Functions

CONSTANTS
  N,                  \* participants; participant k wins round k of a cycle
  Cycles,             \* N_CYCLES
  Contribution,       \* CONTRIBUTION_SATS
  Capacity,           \* CHANNEL_CAPACITY_SAT
  Push,               \* PUSH_MSAT: the participant's side of a new channel
  Reserve,            \* what each side of a channel must keep
  MaxStarts,          \* bound on the starts of the program
  SingleRounds,       \* values of ROUND a start may be given
  Faults              \* "abort": an exception or a kill ends the program
                      \* "expiry": a held HTLC expires while the round runs

Fault == {"abort", "expiry"}

ASSUME CountsAssumption == /\ N \in Nat \ {0}
                           /\ Cycles \in Nat \ {0}
                           /\ MaxStarts \in Nat
ASSUME SatsAssumption == /\ Contribution \in Nat \ {0}
                         /\ Reserve \in Nat
                         /\ Push \in Nat /\ Reserve <= Push
                         /\ Capacity \in Nat /\ Reserve <= Capacity - Push
ASSUME ModesAssumption == /\ SingleRounds \subseteq 0 .. N - 1
                          /\ Faults \subseteq Fault

Participant == 0 .. N - 1

\* A mutant: the coordinator keeps a share of the pot.
MutPot == (N - 1) * Contribution

\* pot_msat of run_round_ln: what the winner is paid.
Pot == N * Contribution

\* What each side can send over a channel that has just been opened.
OurOpening == Capacity - Push - Reserve
TheirOpening == Push - Reserve

VARIABLES
  pc,                 \* the part of main that runs
  next,               \* index of the loop over the participants it is in
  starts,             \* how many times the program was started
  single,             \* whether this start runs one round only
  cycle, turn,        \* main's loop variables; turn is also the winner
  pending,            \* channels with each participant that are not usable yet
  channels,           \* channels with each participant in CHANNELD_NORMAL
  ours, theirs,       \* what each side can send over the latter now
  orphans,            \* HTLCs of each participant left by earlier rounds
  late,               \* payments asked of it by earlier rounds and not made yet
  labels,             \* labels of the invoices at each participant's node
  signed,             \* cycles whose terms each participant has signed
  share, potPaid,     \* the exchange of the current round
  asked,              \* whether its payments were asked for
  opening,            \* history: Holdings when the rounds of this start began
  paidRounds          \* history: the rounds whose pot was paid

history == <<opening, paidRounds>>
program == <<pc, next, starts, single, cycle, turn, history>>
money == <<pending, channels, ours, theirs>>
unsettled == <<orphans, late>>
network == <<money, unsettled, labels, signed>>
round == <<share, potPaid, asked>>
vars == <<program, network, round>>

Exchange == INSTANCE PotExchange WITH Member <- Participant

Running == {"bootstrap", "channels", "renew", "wait", "createPot", "payPot",
            "settle", "roundEnd"}
Ended == {"down", "over", "declined", "aborted"}

NoShares == [p \in Participant |-> "free"]

ProgramTypeOK ==
  /\ pc \in Running \cup Ended
  /\ next \in Participant
  /\ starts \in 0 .. MaxStarts
  /\ single \in BOOLEAN
  /\ cycle \in 0 .. Cycles - 1
  /\ turn \in Participant

NetworkTypeOK ==
  /\ pending \in [Participant -> Nat]
  /\ channels \in [Participant -> Nat]
  /\ ours \in [Participant -> Nat]
  /\ theirs \in [Participant -> Nat]
  /\ orphans \in [Participant -> Nat]
  /\ late \in [Participant -> Nat]
  /\ labels \in [Participant -> SUBSET Nat]
  /\ signed \in [Participant -> SUBSET (0 .. Cycles - 1)]

HistoryTypeOK == /\ opening \in [Participant -> Nat]
                 /\ paidRounds \subseteq Nat

TypeOK == /\ ProgramTypeOK /\ NetworkTypeOK /\ HistoryTypeOK
          /\ Exchange!TypeOK /\ asked \in BOOLEAN

Init ==
  /\ pc = "down"
  /\ next = 0
  /\ starts = 0
  /\ single = FALSE
  /\ cycle = 0
  /\ turn = 0
  /\ pending = [p \in Participant |-> 0]
  /\ channels = [p \in Participant |-> 0]
  /\ ours = [p \in Participant |-> 0]
  /\ theirs = [p \in Participant |-> 0]
  /\ orphans = [p \in Participant |-> 0]
  /\ late = [p \in Participant |-> 0]
  /\ labels = [p \in Participant |-> {}]
  /\ signed = [p \in Participant |-> {}]
  /\ Exchange!Init
  /\ asked = FALSE
  /\ opening = [p \in Participant |-> 0]
  /\ paidRounds = {}

------------------------------------------------------------------------------
(* main *)

\* Shares still under lock when a round is left behind.
Orphaned == [p \in Participant |->
               orphans[p] + IF share[p] = "locked" THEN 1 ELSE 0]

\* Payments a round asked for and was left without; their handlers go on.
Overdue == [p \in Participant |->
              late[p] + IF asked /\ share[p] = "free" THEN 1 ELSE 0]

NewRound == /\ share' = NoShares
            /\ potPaid' = FALSE
            /\ asked' = FALSE
            /\ orphans' = Orphaned
            /\ late' = Overdue

\* The program is run, with or without ROUND.  Nothing it did before is known to it.
Start ==
  /\ pc \in Ended
  /\ starts < MaxStarts
  /\ starts' = starts + 1
  /\ pc' = "bootstrap"
  /\ next' = 0
  /\ cycle' = 0
  /\ \/ single' = FALSE /\ turn' = 0
     \/ single' = TRUE /\ turn' \in SingleRounds
  /\ NewRound
  /\ UNCHANGED <<money, labels, signed, history>>

Last == next = N - 1

Advance == next' = IF Last THEN 0 ELSE next + 1

\* bootstrap opens a channel with each participant, whatever channels there are.
OpenChannel ==
  /\ pc = "bootstrap"
  /\ pending' = [pending EXCEPT ![next] = @ + 1]
  /\ Advance
  /\ pc' = IF Last THEN "channels" ELSE pc
  /\ UNCHANGED <<starts, single, cycle, turn, channels, ours, theirs, unsettled,
                 labels, signed, round, history>>

\* What the coordinator has in the channels with each participant, usable or not.
Holdings == [p \in Participant |-> ours[p] + pending[p] * OurOpening]

\* wait_channels_normal counts the peers that have a channel in CHANNELD_NORMAL: one
\* of an earlier start will do while the channel just opened is not usable yet.
WaitChannels ==
  /\ pc = "channels"
  /\ \A p \in Participant : channels[p] > 0
  /\ pc' = "wait"
  /\ opening' = Holdings
  /\ UNCHANGED <<next, starts, single, cycle, turn, network, round, paidRounds>>

\* A mutant: main goes on with the cycle when a renewal is declined.
MutRenew ==
  /\ pc = "renew"
  /\ \/ signed' = [signed EXCEPT ![next] = @ \cup {cycle}]
     \/ UNCHANGED signed
  /\ Advance
  /\ pc' = IF Last THEN "wait" ELSE pc
  /\ UNCHANGED <<starts, single, cycle, turn, money, unsettled, labels, round,
                 history>>

\* collect_renewals asks one participant after the other, and stops at the first
\* that declines, or whose signature does not verify.
Renew ==
  /\ pc = "renew"
  /\ \/ /\ signed' = [signed EXCEPT ![next] = @ \cup {cycle}]
        /\ Advance
        /\ pc' = IF Last THEN "wait" ELSE pc
     \/ /\ pc' = "declined"
        /\ UNCHANGED <<signed, next>>
  /\ UNCHANGED <<starts, single, cycle, turn, money, unsettled, labels, round,
                 history>>

\* The hold invoices are there and every participant is asked to pay its own.
Dispatch ==
  /\ pc = "wait"
  /\ ~asked
  /\ asked' = TRUE
  /\ UNCHANGED <<program, network, share, potPaid>>

AllAccepted ==
  /\ pc = "wait"
  /\ \A p \in Participant : share[p] = "locked"
  /\ pc' = "createPot"
  /\ UNCHANGED <<next, starts, single, cycle, turn, history, network, round>>

\* A mutant: the label names the round of the cycle, not the round of the tanda.
MutLabel == turn

\* round_idx of run_round_ln, which names the invoice of the pot.
Label == IF single THEN turn ELSE cycle * N + turn

\* A mutant: the winner's node hands out a second invoice for a label.
MutCreatePot ==
  /\ pc = "createPot"
  /\ pc' = "payPot"
  /\ labels' = [labels EXCEPT ![turn] = @ \cup {Label}]
  /\ UNCHANGED <<next, starts, single, cycle, turn, money, unsettled, signed,
                 round, history>>

\* The winner's node refuses a label it has an invoice for.
CreatePot ==
  /\ pc = "createPot"
  /\ IF Label \in labels[turn]
       THEN pc' = "aborted" /\ UNCHANGED labels
       ELSE pc' = "payPot" /\ labels' = [labels EXCEPT ![turn] = @ \cup {Label}]
  /\ UNCHANGED <<next, starts, single, cycle, turn, money, unsettled, signed,
                 round, history>>

\* pay may also raise after, or before, the winner has the pot.
PayPot ==
  /\ pc = "payPot"
  /\ \/ /\ ours[turn] >= Pot
        /\ Exchange!PayPot
        /\ ours' = [ours EXCEPT ![turn] = @ - Pot]
        /\ theirs' = [theirs EXCEPT ![turn] = @ + Pot]
        /\ paidRounds' = paidRounds \cup {Label}
        /\ pc' \in {"settle"} \cup IF "abort" \in Faults THEN {"aborted"} ELSE {}
     \/ /\ ours[turn] < Pot
        /\ pc' = "aborted"
        /\ UNCHANGED <<ours, theirs, share, potPaid, paidRounds>>
  /\ UNCHANGED <<next, starts, single, cycle, turn, pending, channels, unsettled,
                 labels, signed, asked, opening>>

\* A mutant: the winner's own invoice is left to expire.
MutSettle ==
  /\ pc = "settle"
  /\ IF share[next] = "locked" /\ next # turn
       THEN /\ Exchange!Take(next)
            /\ ours' = [ours EXCEPT ![next] = @ + Contribution]
       ELSE UNCHANGED <<share, potPaid, ours>>
  /\ Advance
  /\ pc' = IF Last THEN "roundEnd" ELSE pc
  /\ UNCHANGED <<starts, single, cycle, turn, pending, channels, theirs,
                 unsettled, labels, signed, asked, history>>

\* One turn of the settle loop; an invoice that expired makes it raise.
Settle ==
  /\ pc = "settle"
  /\ IF share[next] = "locked"
       THEN /\ Exchange!Take(next)
            /\ ours' = [ours EXCEPT ![next] = @ + Contribution]
            /\ Advance
            /\ pc' = IF Last THEN "roundEnd" ELSE pc
       ELSE /\ pc' = "aborted"
            /\ UNCHANGED <<share, potPaid, ours, next>>
  /\ UNCHANGED <<starts, single, cycle, turn, pending, channels, theirs,
                 unsettled, labels, signed, asked, history>>

\* The loops of main: the next round, the renewal of the next cycle, or the end.
RoundEnd ==
  /\ pc = "roundEnd"
  /\ \/ /\ single \/ (turn = N - 1 /\ cycle = Cycles - 1)
        /\ pc' = "over"
        /\ UNCHANGED <<turn, cycle, unsettled, round>>
     \/ /\ ~single /\ turn < N - 1
        /\ pc' = "wait"
        /\ turn' = turn + 1
        /\ NewRound
        /\ UNCHANGED cycle
     \/ /\ ~single /\ turn = N - 1 /\ cycle < Cycles - 1
        /\ pc' = "renew"
        /\ turn' = 0
        /\ cycle' = cycle + 1
        /\ NewRound
  /\ UNCHANGED <<next, starts, single, money, labels, signed, history>>

\* main catches nothing: an exception of any call ends the program, as a kill does.
\* The timeouts of wait_channels_normal and wait_all_accepted need no fault for it.
Abort ==
  /\ pc \in Running
  /\ "abort" \in Faults \/ pc \in {"channels", "wait"}
  /\ pc' = "aborted"
  /\ UNCHANGED <<next, starts, single, cycle, turn, history, network, round>>

------------------------------------------------------------------------------
(* The participants' nodes *)

\* A channel is confirmed and both sides have said so.
ChannelNormal(p) ==
  /\ pending[p] > 0
  /\ pending' = [pending EXCEPT ![p] = @ - 1]
  /\ channels' = [channels EXCEPT ![p] = @ + 1]
  /\ ours' = [ours EXCEPT ![p] = @ + OurOpening]
  /\ theirs' = [theirs EXCEPT ![p] = @ + TheirOpening]
  /\ UNCHANGED <<program, unsettled, labels, signed, round>>

\* A participant pays its hold invoice out of its side of the channels, also when
\* the program has given up the round in the meantime.
Lock(p) ==
  /\ asked
  /\ theirs[p] >= Contribution
  /\ Exchange!Lock(p)
  /\ theirs' = [theirs EXCEPT ![p] = @ - Contribution]
  /\ UNCHANGED <<program, pending, channels, ours, unsettled, labels, signed, asked>>

\* It pays an invoice of a round that an earlier start gave up.
LateLock(p) ==
  /\ late[p] > 0
  /\ theirs[p] >= Contribution
  /\ late' = [late EXCEPT ![p] = @ - 1]
  /\ orphans' = [orphans EXCEPT ![p] = @ + 1]
  /\ theirs' = [theirs EXCEPT ![p] = @ - Contribution]
  /\ UNCHANGED <<program, pending, channels, ours, labels, signed, round>>

\* An HTLC of the current round expires.
Return(p) ==
  /\ pc \in Ended \/ "expiry" \in Faults
  /\ Exchange!Return(p)
  /\ theirs' = [theirs EXCEPT ![p] = @ + Contribution]
  /\ UNCHANGED <<program, pending, channels, ours, unsettled, labels, signed, asked>>

\* An HTLC that an earlier start left behind expires.
ReturnOrphan(p) ==
  /\ orphans[p] > 0
  /\ orphans' = [orphans EXCEPT ![p] = @ - 1]
  /\ theirs' = [theirs EXCEPT ![p] = @ + Contribution]
  /\ UNCHANGED <<program, pending, channels, ours, late, labels, signed, round>>

------------------------------------------------------------------------------

MainStep == \/ OpenChannel \/ WaitChannels \/ Renew \/ Dispatch \/ AllAccepted
            \/ CreatePot \/ PayPot \/ Settle \/ RoundEnd

NodeStep(p) == \/ ChannelNormal(p) \/ Lock(p) \/ LateLock(p)
               \/ Return(p) \/ ReturnOrphan(p)

Finished ==
  /\ pc \in Ended /\ starts = MaxStarts
  /\ \A p \in Participant : orphans[p] = 0 /\ share[p] # "locked"
  /\ UNCHANGED vars

Next == \/ Start \/ MainStep \/ Abort \/ Finished
        \/ \E p \in Participant : NodeStep(p)

Spec == Init /\ [][Next]_vars

------------------------------------------------------------------------------
(* Properties *)

\* The pot fits into one fresh channel: 5 participants of 10k sat do not.
PotFits == Pot <= OurOpening

(***************************************************************************)
(* If the pot fits into a fresh channel, none fails for want of liquidity, *)
(* also when a restart begins its rounds on channels of earlier starts     *)
(* while its own are not usable.  A settle loop that failed leaves such a  *)
(* channel drained, but only one whose peer has won: no start gets as far  *)
(* as to pay that peer again, for its node has the label of its round.     *)
(***************************************************************************)
LiquiditySuffices ==
  PotFits /\ pc = "payPot" => ours[turn] >= Pot

(***************************************************************************)
(* A tanda that ran to its end, or to the end of a cycle, has moved        *)
(* nothing between the coordinator and anybody: everyone paid N shares and *)
(* won one pot of N shares in each cycle.                                  *)
(***************************************************************************)
CycleIsNeutral ==
  ~single /\ (pc \in {"over", "declined"} \/ (pc = "renew" /\ next = 0))
    => Holdings = opening

(***************************************************************************)
(* Of the money the coordinator brought into usable channels, at most one  *)
(* pot per start is missing, and only because an exception or a kill came  *)
(* between the payment of a pot and the last settle of that round.         *)
(***************************************************************************)
MissingAt == [p \in Participant |-> channels[p] * OurOpening - ours[p]]

Missing == SumFunction(MissingAt)

ExposureBounded == Missing <= starts * Pot

(***************************************************************************)
(* A label is new to the winner's node throughout the first start: no      *)
(* round of a tanda takes the label of another, in any cycle.              *)
(***************************************************************************)
LabelsFresh ==
  starts = 1 /\ pc = "createPot" => Label \notin labels[turn]

(***************************************************************************)
(* Nobody's sats are locked for a cycle that some participant has not      *)
(* signed.                                                                 *)
(***************************************************************************)
CycleNeedsEverySignature ==
  cycle > 0 /\ (\E p \in Participant : share[p] # "free") =>
    \A p \in Participant : cycle \in signed[p]

(***************************************************************************)
(* No round is paid twice, however often the program is started from       *)
(* nothing: the label an earlier start left at the winner's node stops the *)
(* coordinator, which itself remembers no round.                           *)
(***************************************************************************)
EachRoundPaidOnce ==
  [][potPaid' /\ ~potPaid => Label \notin paidRounds]_vars

------------------------------------------------------------------------------
(***************************************************************************)
(* The inductive invariant.  The three properties above speak of a few     *)
(* points of main; it says what holds at all of them in between.           *)
(***************************************************************************)
InRound == {"wait", "createPot", "payPot", "settle", "roundEnd", "over"}
Opened == InRound \cup {"renew", "declined"}

\* Rounds of this start and cycle that are over, and whose pot p has won.
RoundsOver == IF single THEN 0 ELSE turn
HasWon(p) == (~single /\ p < turn) \/ (p = turn /\ potPaid)

\* The channels hold what they held at first, less the pot won, plus the shares taken.
Accounts ==
  pc \in Opened => \A p \in Participant :
    Holdings[p] = opening[p]
                + (RoundsOver + IF share[p] = "taken" THEN 1 ELSE 0) * Contribution
                - (IF HasWon(p) THEN Pot ELSE 0)

\* The participants whose node this start has asked for the invoice of a pot.
Asked(p) == \/ cycle > 0
            \/ ~single /\ p < turn
            \/ p = turn /\ pc \notin {"wait", "createPot"}

\* What the coordinator has brought into the channels with p.
Brought(p) == (channels[p] + pending[p]) * OurOpening

\* Nothing is missing from the channels with a participant that was never asked, and
\* nothing was, when the rounds began, from those with one that this start has asked.
Whole ==
  /\ \A p \in Participant : p \notin labels[p] => Holdings[p] >= Brought(p)
  /\ pc \in Opened => \A p \in Participant :
       /\ channels[p] > 0
       /\ Asked(p) => p \in labels[p]
       /\ p \notin labels[p] \/ Asked(p) => opening[p] >= Brought(p)

SharesAt ==
  /\ pc \in {"bootstrap", "channels", "renew", "declined"} =>
       ~asked /\ ~potPaid /\ \A p \in Participant : share[p] = "free"
  /\ pc = "wait" =>
       ~potPaid /\ \A p \in Participant : share[p] \in {"free", "locked", "returned"}
  /\ pc \in {"createPot", "payPot"} =>
       ~potPaid /\ \A p \in Participant : share[p] \in {"locked", "returned"}
  /\ pc = "settle" =>
       /\ potPaid
       /\ \A p \in Participant :
            share[p] \in IF p < next THEN {"taken"} ELSE {"locked", "returned"}
  /\ pc \in {"roundEnd", "over"} =>
       potPaid /\ \A p \in Participant : share[p] = "taken"

LoopsAt ==
  /\ pc \in (InRound \cup {"channels"}) \ {"settle"} => next = 0
  /\ pc \in {"bootstrap", "channels"} => cycle = 0 /\ (~single => turn = 0)
  /\ pc \in {"renew", "declined"} => ~single /\ turn = 0 /\ cycle > 0
  /\ pc = "over" /\ ~single => turn = N - 1
  /\ single => cycle = 0

Signatures ==
  /\ pc = "renew" => \A p \in Participant : p < next => cycle \in signed[p]
  /\ (pc \in InRound \/ asked) /\ cycle > 0 => \A p \in Participant : cycle \in signed[p]

\* The labels of a first start are those of the rounds so far; a paid round has its
\* label at its winner's node, and the pot about to be paid is not of a paid round.
NotLabelled == {"bootstrap", "channels", "renew", "wait", "createPot"}

LabelsSoFar ==
  /\ starts = 0 => pc = "down" /\ \A p \in Participant : labels[p] = {}
  /\ starts = 1 => \A p \in Participant : \A r \in labels[p] :
       r < Label \/ (r = Label /\ pc \notin NotLabelled)

PaidAreLabelled ==
  /\ \A r \in paidRounds : \E p \in Participant, k \in 0 .. Cycles - 1 :
       r = k * N + p /\ r \in labels[p]
  /\ pc = "payPot" => Label \notin paidRounds /\ Label \in labels[turn]

\* What is missing now, and the shares taken back since: while main runs, the pots of
\* earlier starts at most, and that of this round once it is paid.
Taken == {p \in Participant : share[p] = "taken"}

MissingSoFar ==
  /\ Missing <= starts * Pot
  /\ pc \in Running \cup {"over", "declined"} =>
       Missing + Cardinality(Taken) * Contribution
         <= (starts - 1) * Pot + IF potPaid THEN Pot ELSE 0

TandaInv == /\ TypeOK /\ Accounts /\ Whole /\ SharesAt /\ LoopsAt
            /\ Signatures /\ CycleNeedsEverySignature /\ LabelsSoFar /\ PaidAreLabelled
            /\ MissingSoFar
==============================================================================
