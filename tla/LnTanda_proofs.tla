--------------------------- MODULE LnTanda_proofs ---------------------------
(***************************************************************************)
(* Proofs about the whole tanda: for every number of participants, cycles  *)
(* and starts, all amounts, and every failure.                             *)
(***************************************************************************)
EXTENDS LnTanda, SumTheorems, TLAPS

USE CountsAssumption, SatsAssumption, ModesAssumption

LEMMA Amounts ==
  /\ Pot \in Nat /\ OurOpening \in Nat /\ TheirOpening \in Nat
  /\ Contribution \in Nat
  /\ 0 \in Participant
BY DEF Pot, OurOpening, TheirOpening, Participant

LEMMA LabelType == ProgramTypeOK => Label \in Nat
<1> SUFFICES ASSUME ProgramTypeOK PROVE Label \in Nat
  OBVIOUS
<1>1. cycle \in Nat /\ N \in Nat /\ turn \in Nat
  BY DEF ProgramTypeOK, Participant
<1>2. cycle * N \in Nat
  BY <1>1
<1> QED
  BY <1>1, <1>2 DEF Label

(***************************************************************************)
(* What the coordinator has in the channels.                               *)
(***************************************************************************)
LEMMA HoldingsType == NetworkTypeOK => Holdings \in [Participant -> Nat]
<1> SUFFICES ASSUME NetworkTypeOK, NEW p \in Participant
             PROVE  ours[p] + pending[p] * OurOpening \in Nat
  BY DEF Holdings
<1>1. pending[p] \in Nat /\ ours[p] \in Nat
  BY DEF NetworkTypeOK
<1>2. pending[p] * OurOpening \in Nat
  BY <1>1, Amounts
<1> QED
  BY <1>1, <1>2

\* Multiples of what one channel holds.
LEMMA Openings ==
  ASSUME NEW a \in Nat
  PROVE  /\ a * OurOpening \in Nat
         /\ (a + 1) * OurOpening = a * OurOpening + OurOpening
         /\ a > 0 => a * OurOpening >= OurOpening
<1>1. /\ a * OurOpening \in Nat
      /\ (a + 1) * OurOpening = a * OurOpening + OurOpening
  BY Amounts
<1>2. ASSUME a > 0 PROVE a * OurOpening >= OurOpening
  <2>1. a - 1 \in Nat /\ (a - 1) * OurOpening \in Nat
    BY <1>2, Amounts
  <2>2. a * OurOpening = (a - 1) * OurOpening + OurOpening
    BY <2>1, Amounts
  <2> QED
    BY <2>1, <2>2, Amounts
<1> QED
  BY <1>1, <1>2

\* A pot that leaves the channels with its winner, and a share that comes to them.
LEMMA HoldingsPaid ==
  ASSUME TypeOK, NEW p \in Participant, pending' = pending,
         ours' = [ours EXCEPT ![p] = @ - Pot]
  PROVE  /\ Holdings'[p] = Holdings[p] - Pot
         /\ \A q \in Participant \ {p} : Holdings'[q] = Holdings[q]
<1>1. ours \in [Participant -> Nat] /\ ours[p] \in Nat /\ pending[p] \in Nat
  BY DEF TypeOK, NetworkTypeOK
<1>2. ours'[p] = ours[p] - Pot /\ \A q \in Participant \ {p} : ours'[q] = ours[q]
  BY <1>1
<1>3. pending[p] * OurOpening \in Nat
  BY <1>1, Openings
<1>4. /\ Holdings[p] = ours[p] + pending[p] * OurOpening
      /\ Holdings'[p] = ours'[p] + pending[p] * OurOpening
      /\ \A q \in Participant \ {p} : Holdings'[q] = Holdings[q]
  BY <1>2 DEF Holdings
<1>5. Holdings'[p] = Holdings[p] - Pot
  BY <1>1, <1>2, <1>3, <1>4, Amounts
<1> QED
  BY <1>4, <1>5

LEMMA HoldingsSettled ==
  ASSUME TypeOK, NEW p \in Participant, pending' = pending,
         ours' = [ours EXCEPT ![p] = @ + Contribution]
  PROVE  /\ Holdings'[p] = Holdings[p] + Contribution
         /\ \A q \in Participant \ {p} : Holdings'[q] = Holdings[q]
<1>1. ours \in [Participant -> Nat] /\ ours[p] \in Nat /\ pending[p] \in Nat
  BY DEF TypeOK, NetworkTypeOK
<1>2. /\ ours'[p] = ours[p] + Contribution
      /\ \A q \in Participant \ {p} : ours'[q] = ours[q]
  BY <1>1
<1>3. pending[p] * OurOpening \in Nat
  BY <1>1, Openings
<1>4. ours'[p] + pending[p] * OurOpening
        = ours[p] + pending[p] * OurOpening + Contribution
  BY <1>1, <1>2, <1>3, Amounts
<1> QED
  BY <1>2, <1>4 DEF Holdings

(***************************************************************************)
(* What a step of a participant's node leaves alone: main, what it knows,  *)
(* the shares taken, and what the coordinator has, usable or not.          *)
(***************************************************************************)
LEMMA NodeStepFrame ==
  ASSUME TypeOK, NEW q \in Participant, NodeStep(q)
  PROVE  /\ UNCHANGED <<pc, next, starts, single, cycle, turn, opening, paidRounds,
                        labels, signed, potPaid, asked>>
         /\ \A p \in Participant : (share'[p] = "taken") <=> (share[p] = "taken")
         /\ Holdings' = Holdings
         /\ \A p \in Participant : /\ channels'[p] + pending'[p] = channels[p] + pending[p]
                                  /\ channels'[p] >= channels[p]
<1> USE DEF program, history, round
<1>1. UNCHANGED <<pc, next, starts, single, cycle, turn, opening, paidRounds,
                  labels, signed, potPaid, asked>>
  BY DEF NodeStep, ChannelNormal, LateLock, Lock, Return, ReturnOrphan,
         Exchange!Lock, Exchange!Return
<1>2. \A p \in Participant : (share'[p] = "taken") <=> (share[p] = "taken")
  BY DEF NodeStep, ChannelNormal, LateLock, Lock, Return, ReturnOrphan,
         Exchange!Lock, Exchange!Return, TypeOK, Exchange!TypeOK
<1>3. CASE ChannelNormal(q)
  <2>1. /\ pending \in [Participant -> Nat] /\ ours \in [Participant -> Nat]
        /\ pending[q] > 0
        /\ pending' = [pending EXCEPT ![q] = @ - 1]
        /\ ours' = [ours EXCEPT ![q] = @ + OurOpening]
    BY <1>3 DEF ChannelNormal, TypeOK, NetworkTypeOK
  <2>2. ASSUME NEW p \in Participant
        PROVE  ours'[p] + pending'[p] * OurOpening = ours[p] + pending[p] * OurOpening
    <3>1. CASE p # q
      BY <2>1, <3>1
    <3>2. CASE p = q
      <4>1. /\ pending'[q] = pending[q] - 1 /\ pending[q] - 1 \in Nat
            /\ ours'[q] = ours[q] + OurOpening /\ ours[q] \in Nat
        BY <2>1
      <4>2. /\ ((pending[q] - 1) + 1) * OurOpening
                  = (pending[q] - 1) * OurOpening + OurOpening
            /\ (pending[q] - 1) * OurOpening \in Nat
        BY <4>1, Openings
      <4>3. (pending[q] - 1) + 1 = pending[q]
        BY <4>1, <2>1
      <4>4. pending[q] * OurOpening = (pending[q] - 1) * OurOpening + OurOpening
        BY <4>2, <4>3
      <4> QED
        BY <3>2, <4>1, <4>2, <4>4, Amounts
    <3> QED
      BY <3>1, <3>2
  <2>3. ASSUME NEW p \in Participant
        PROVE  /\ channels'[p] + pending'[p] = channels[p] + pending[p]
               /\ channels'[p] >= channels[p]
    <3>1. /\ channels \in [Participant -> Nat]
          /\ channels' = [channels EXCEPT ![q] = @ + 1]
      BY <1>3 DEF ChannelNormal, TypeOK, NetworkTypeOK
    <3>2. CASE p # q
      BY <2>1, <3>1, <3>2
    <3>3. CASE p = q
      BY <2>1, <3>1, <3>3
    <3> QED
      BY <3>2, <3>3
  <2> QED
    BY <1>1, <1>2, <2>2, <2>3 DEF Holdings
<1>4. CASE ~ChannelNormal(q)
  <2>1. ours' = ours /\ pending' = pending /\ channels' = channels
    BY <1>4 DEF NodeStep, LateLock, Lock, Return, ReturnOrphan
  <2>2. \A p \in Participant : channels[p] \in Nat
    BY DEF TypeOK, NetworkTypeOK
  <2> QED
    BY <1>1, <1>2, <2>1, <2>2 DEF Holdings
<1> QED
  BY <1>3, <1>4

(***************************************************************************)
(* Every step keeps the types.                                             *)
(***************************************************************************)
LEMMA NextTypeOK == TypeOK /\ [Next]_vars => TypeOK'
<1> SUFFICES ASSUME TypeOK, [Next]_vars PROVE TypeOK'
  OBVIOUS
<1> USE Amounts DEF TypeOK, program, network, money, unsettled, round, history
<1>1. CASE Start
  <2>1. ProgramTypeOK'
    <3>1. single' \in BOOLEAN /\ turn' \in Participant
      BY <1>1 DEF Start, Participant
    <3>2. pc' \in Running /\ next' \in Participant /\ cycle' \in 0 .. Cycles - 1
      BY <1>1 DEF Start, Running
    <3>3. starts' \in 0 .. MaxStarts
      BY <1>1 DEF Start, ProgramTypeOK
    <3> QED
      BY <3>1, <3>2, <3>3 DEF ProgramTypeOK
  <2>2. NetworkTypeOK'
    BY <1>1 DEF Start, NewRound, Orphaned, Overdue, ProgramTypeOK, NetworkTypeOK
  <2>3. Exchange!TypeOK' /\ asked' \in BOOLEAN
    BY <1>1 DEF Start, NewRound, NoShares, ProgramTypeOK, Exchange!TypeOK,
                Exchange!ShareState
  <2>4. HistoryTypeOK'
    BY <1>1, <2>2 DEF Start, ProgramTypeOK, NetworkTypeOK, HistoryTypeOK
  <2> QED
    BY <2>1, <2>2, <2>3, <2>4
<1>2. CASE OpenChannel
  <2>1. ProgramTypeOK'
    BY <1>2 DEF OpenChannel, Advance, Last, ProgramTypeOK, Running, Ended, Participant
  <2>2. NetworkTypeOK'
    BY <1>2 DEF OpenChannel, ProgramTypeOK, NetworkTypeOK
  <2>3. Exchange!TypeOK' /\ asked' \in BOOLEAN
    BY <1>2 DEF OpenChannel, ProgramTypeOK, Exchange!TypeOK, Exchange!ShareState
  <2>4. HistoryTypeOK'
    BY <1>2, <2>2 DEF OpenChannel, ProgramTypeOK, NetworkTypeOK, HistoryTypeOK
  <2> QED
    BY <2>1, <2>2, <2>3, <2>4
<1>2a. CASE WaitChannels
  <2>1. ProgramTypeOK' /\ NetworkTypeOK'
    BY <1>2a DEF WaitChannels, ProgramTypeOK, NetworkTypeOK, Running, Ended
  <2>2. Exchange!TypeOK' /\ asked' \in BOOLEAN
    BY <1>2a DEF WaitChannels, Exchange!TypeOK, Exchange!ShareState
  <2>3. HistoryTypeOK'
    <3>1. opening' = Holdings /\ paidRounds' = paidRounds
      BY <1>2a DEF WaitChannels
    <3> QED
      BY <3>1, HoldingsType DEF HistoryTypeOK
  <2> QED
    BY <2>1, <2>2, <2>3
<1>3. CASE Renew
  <2>1. ProgramTypeOK'
    BY <1>3 DEF Renew, Advance, Last, ProgramTypeOK, Running, Ended, Participant
  <2>2. NetworkTypeOK'
    BY <1>3 DEF Renew, ProgramTypeOK, NetworkTypeOK
  <2>3. Exchange!TypeOK' /\ asked' \in BOOLEAN
    BY <1>3 DEF Renew, ProgramTypeOK, Exchange!TypeOK, Exchange!ShareState
  <2>4. HistoryTypeOK'
    BY <1>3, <2>2 DEF Renew, ProgramTypeOK, NetworkTypeOK, HistoryTypeOK
  <2> QED
    BY <2>1, <2>2, <2>3, <2>4
<1>3a. CASE Dispatch
  BY <1>3a
  DEF Dispatch, ProgramTypeOK, NetworkTypeOK, HistoryTypeOK, Exchange!TypeOK
<1>4. CASE AllAccepted
  <2>1. ProgramTypeOK'
    BY <1>4 DEF AllAccepted, ProgramTypeOK, Running, Ended, Participant
  <2>2. NetworkTypeOK'
    BY <1>4 DEF AllAccepted, ProgramTypeOK, NetworkTypeOK
  <2>3. Exchange!TypeOK' /\ asked' \in BOOLEAN
    BY <1>4 DEF AllAccepted, ProgramTypeOK, Exchange!TypeOK, Exchange!ShareState
  <2>4. HistoryTypeOK'
    BY <1>4, <2>2 DEF AllAccepted, ProgramTypeOK, NetworkTypeOK, HistoryTypeOK
  <2> QED
    BY <2>1, <2>2, <2>3, <2>4
<1>5. CASE CreatePot
  <2>1. ProgramTypeOK'
    BY <1>5 DEF CreatePot, ProgramTypeOK, Running, Ended, Participant
  <2>2. NetworkTypeOK'
    BY LabelType, <1>5 DEF CreatePot, ProgramTypeOK, NetworkTypeOK
  <2>3. Exchange!TypeOK' /\ asked' \in BOOLEAN
    BY <1>5 DEF CreatePot, ProgramTypeOK, Exchange!TypeOK, Exchange!ShareState
  <2>4. HistoryTypeOK'
    BY <1>5, <2>2 DEF CreatePot, ProgramTypeOK, NetworkTypeOK, HistoryTypeOK
  <2> QED
    BY <2>1, <2>2, <2>3, <2>4
<1>6. CASE PayPot
  <2>1. ProgramTypeOK'
    BY <1>6 DEF PayPot, ProgramTypeOK, Running, Ended, Participant
  <2>2. NetworkTypeOK'
    BY <1>6 DEF PayPot, ProgramTypeOK, NetworkTypeOK
  <2>3. Exchange!TypeOK' /\ asked' \in BOOLEAN
    BY <1>6 DEF PayPot, Exchange!PayPot, ProgramTypeOK, Exchange!TypeOK,
                Exchange!ShareState
  <2>4. HistoryTypeOK'
    BY LabelType, <1>6, <2>2 DEF PayPot, ProgramTypeOK, NetworkTypeOK, HistoryTypeOK
  <2> QED
    BY <2>1, <2>2, <2>3, <2>4
<1>7. CASE Settle
  <2>1. ProgramTypeOK'
    BY <1>7 DEF Settle, Advance, Last, ProgramTypeOK, Running, Ended, Participant
  <2>2. NetworkTypeOK'
    BY <1>7 DEF Settle, ProgramTypeOK, NetworkTypeOK
  <2>3. Exchange!TypeOK' /\ asked' \in BOOLEAN
    BY <1>7 DEF Settle, Exchange!Take, ProgramTypeOK, Exchange!TypeOK,
                Exchange!ShareState
  <2>4. HistoryTypeOK'
    BY <1>7, <2>2 DEF Settle, ProgramTypeOK, NetworkTypeOK, HistoryTypeOK
  <2> QED
    BY <2>1, <2>2, <2>3, <2>4
<1>8. CASE RoundEnd
  <2>1. ProgramTypeOK'
    BY <1>8 DEF RoundEnd, ProgramTypeOK, Running, Ended, Participant
  <2>2. NetworkTypeOK'
    BY <1>8 DEF RoundEnd, NewRound, Orphaned, Overdue, ProgramTypeOK, NetworkTypeOK
  <2>3. Exchange!TypeOK' /\ asked' \in BOOLEAN
    BY <1>8 DEF RoundEnd, NewRound, NoShares, ProgramTypeOK, Exchange!TypeOK,
                Exchange!ShareState
  <2>4. HistoryTypeOK'
    BY <1>8, <2>2 DEF RoundEnd, ProgramTypeOK, NetworkTypeOK, HistoryTypeOK
  <2> QED
    BY <2>1, <2>2, <2>3, <2>4
<1>9. CASE Abort
  <2>1. ProgramTypeOK'
    BY <1>9 DEF Abort, ProgramTypeOK, Running, Ended, Participant
  <2>2. NetworkTypeOK'
    BY <1>9 DEF Abort, ProgramTypeOK, NetworkTypeOK
  <2>3. Exchange!TypeOK' /\ asked' \in BOOLEAN
    BY <1>9 DEF Abort, ProgramTypeOK, Exchange!TypeOK, Exchange!ShareState
  <2>4. HistoryTypeOK'
    BY <1>9, <2>2 DEF Abort, ProgramTypeOK, NetworkTypeOK, HistoryTypeOK
  <2> QED
    BY <2>1, <2>2, <2>3, <2>4
<1>10. ASSUME NEW q \in Participant, NodeStep(q)
       PROVE  TypeOK'
  <2>1. ProgramTypeOK' /\ HistoryTypeOK' /\ asked' \in BOOLEAN
    BY <1>10, NodeStepFrame DEF ProgramTypeOK, HistoryTypeOK
  <2>2. CASE ChannelNormal(q)
    BY <2>1, <2>2 DEF ChannelNormal, NetworkTypeOK, Exchange!TypeOK
  <2>3. CASE Lock(q) \/ Return(q)
    BY <2>1, <2>3
    DEF Lock, Return, NetworkTypeOK, Exchange!Lock, Exchange!Return,
        Exchange!TypeOK, Exchange!ShareState
  <2>4. CASE LateLock(q) \/ ReturnOrphan(q)
    BY <2>1, <2>4 DEF LateLock, ReturnOrphan, NetworkTypeOK, Exchange!TypeOK
  <2> QED
    BY <1>10, <2>2, <2>3, <2>4 DEF NodeStep
<1>11. CASE UNCHANGED vars
  BY <1>11
  DEF vars, ProgramTypeOK, NetworkTypeOK, HistoryTypeOK, Exchange!TypeOK
<1> QED
  BY <1>1, <1>2, <1>2a, <1>3, <1>3a, <1>4, <1>5, <1>6, <1>7, <1>8,
     <1>9, <1>10, <1>11
  DEF Next, MainStep, Finished

(***************************************************************************)
(* Where the loops of main stand.                                          *)
(***************************************************************************)
LEMMA NextLoopsAt == TandaInv /\ [Next]_vars => LoopsAt'
<1> SUFFICES ASSUME TandaInv, [Next]_vars PROVE LoopsAt'
  OBVIOUS
<1> USE DEF TandaInv, LoopsAt, InRound, program, ProgramTypeOK, TypeOK, Participant
<1>0. TypeOK /\ TypeOK'
  BY NextTypeOK DEF TandaInv
<1>1. CASE Start
  BY <1>0, <1>1 DEF Start, NewRound, NoShares
<1>2. CASE OpenChannel
  BY <1>0, <1>2 DEF OpenChannel, Last, Advance
<1>2a. CASE WaitChannels
  BY <1>0, <1>2a DEF WaitChannels
<1>3. CASE Renew
  BY <1>0, <1>3 DEF Renew, Last, Advance
<1>3a. CASE Dispatch
  BY <1>0, <1>3a DEF Dispatch
<1>4. CASE AllAccepted
  BY <1>0, <1>4 DEF AllAccepted
<1>5. CASE CreatePot
  BY <1>0, <1>5 DEF CreatePot
<1>6. CASE PayPot
  BY <1>0, <1>6 DEF PayPot, Exchange!PayPot
<1>7. CASE Settle
  BY <1>0, <1>7 DEF Settle, Last, Advance, Exchange!Take
<1>8. CASE RoundEnd
  BY <1>0, <1>8 DEF RoundEnd, NewRound, NoShares
<1>9. CASE Abort
  BY <1>0, <1>9 DEF Abort
<1>10. ASSUME NEW q \in Participant, NodeStep(q)
       PROVE  LoopsAt'
  BY <1>0, <1>10, NodeStepFrame
<1>11. CASE UNCHANGED vars
  BY <1>11 DEF vars
<1> QED
  BY <1>1, <1>2, <1>2a, <1>3, <1>3a, <1>4, <1>5, <1>6, <1>7, <1>8, <1>9, <1>10, <1>11
  DEF Next, MainStep, Finished

(***************************************************************************)
(* Where the shares are at each point of main.                             *)
(***************************************************************************)
LEMMA NextSharesAt == TandaInv /\ [Next]_vars => SharesAt'
<1> SUFFICES ASSUME TandaInv, [Next]_vars PROVE SharesAt'
  OBVIOUS
<1> USE DEF TandaInv, LoopsAt, SharesAt, InRound, program, round, ProgramTypeOK,
            Exchange!TypeOK, TypeOK, Participant
<1>0. TypeOK /\ TypeOK'
  BY NextTypeOK DEF TandaInv
<1>1. CASE Start
  BY <1>0, <1>1 DEF Start, NewRound, NoShares
<1>2. CASE OpenChannel
  BY <1>0, <1>2 DEF OpenChannel, Last, Advance
<1>2a. CASE WaitChannels
  BY <1>0, <1>2a DEF WaitChannels
<1>3. CASE Renew
  BY <1>0, <1>3 DEF Renew, Last, Advance
<1>3a. CASE Dispatch
  BY <1>0, <1>3a DEF Dispatch
<1>4. CASE AllAccepted
  BY <1>0, <1>4 DEF AllAccepted
<1>5. CASE CreatePot
  BY <1>0, <1>5 DEF CreatePot
<1>6. CASE PayPot
  BY <1>0, <1>6 DEF PayPot, Exchange!PayPot
<1>7. CASE Settle
  <2>1. CASE share[next] # "locked"
    BY <1>0, <1>7, <2>1 DEF Settle
  <2>2. CASE share[next] = "locked"
    <3>1. potPaid /\ potPaid' /\ share' = [share EXCEPT ![next] = "taken"]
      BY <1>7, <2>2 DEF Settle, Exchange!Take
    <3>2. /\ share'[next] = "taken"
          /\ \A p \in Participant : p < next => share'[p] = "taken"
          /\ \A p \in Participant : p > next => share'[p] \in {"locked", "returned"}
      BY <1>0, <1>7, <3>1 DEF Settle
    <3>3. CASE Last
      <4>1. pc' = "roundEnd" /\ \A p \in Participant : p <= next
        BY <1>0, <1>7, <2>2, <3>3 DEF Settle, Last
      <4> QED
        BY <1>0, <3>1, <3>2, <4>1
    <3>4. CASE ~Last
      <4>1. pc' = "settle" /\ next' = next + 1
        BY <1>7, <2>2, <3>4 DEF Settle, Advance
      <4> QED
        BY <1>0, <3>1, <3>2, <4>1
    <3> QED
      BY <3>3, <3>4
  <2> QED
    BY <2>1, <2>2
<1>8. CASE RoundEnd
  BY <1>0, <1>8 DEF RoundEnd, NewRound, NoShares
<1>9. CASE Abort
  BY <1>0, <1>9 DEF Abort
<1>10. ASSUME NEW q \in Participant, NodeStep(q)
       PROVE  SharesAt'
  <2>1. UNCHANGED <<pc, next, potPaid, asked>>
    BY <1>0, <1>10, NodeStepFrame
  <2>2. CASE share' = share
    BY <2>1, <2>2
  <2>3. CASE Lock(q) \/ Return(q)
    BY <1>0, <2>1, <2>3 DEF Lock, Return, Exchange!Lock, Exchange!Return
  <2> QED
    BY <1>10, <2>2, <2>3 DEF NodeStep, ChannelNormal, LateLock, ReturnOrphan
<1>11. CASE UNCHANGED vars
  BY <1>11 DEF vars
<1> QED
  BY <1>1, <1>2, <1>2a, <1>3, <1>3a, <1>4, <1>5, <1>6, <1>7, <1>8, <1>9, <1>10, <1>11
  DEF Next, MainStep, Finished

(***************************************************************************)
(* What the participants have signed at each point of main.                *)
(***************************************************************************)
LEMMA NextSignatures == TandaInv /\ [Next]_vars => Signatures'
<1> SUFFICES ASSUME TandaInv, [Next]_vars PROVE Signatures'
  OBVIOUS
<1> USE DEF TandaInv, LoopsAt, SharesAt, Signatures, InRound, program, network, money, unsettled, round,
            ProgramTypeOK, TypeOK, Participant
<1>0. TypeOK /\ TypeOK'
  BY NextTypeOK DEF TandaInv
<1>1. CASE Start
  BY <1>0, <1>1 DEF Start, NewRound, NoShares
<1>2. CASE OpenChannel
  BY <1>0, <1>2 DEF OpenChannel, Last, Advance
<1>2a. CASE WaitChannels
  BY <1>0, <1>2a DEF WaitChannels
<1>3. CASE Renew
  <2>1. CASE pc' = "declined"
    BY <1>3, <2>1 DEF Renew
  <2>2. CASE pc' # "declined"
    <3>1. signed' = [signed EXCEPT ![next] = @ \cup {cycle}] /\ cycle' = cycle
      BY <1>3, <2>2 DEF Renew
    <3>2. \A p \in Participant : p <= next => cycle \in signed'[p]
      BY <1>0, <1>3, <3>1 DEF Renew, NetworkTypeOK
    <3>3. CASE Last
      BY <1>0, <1>3, <2>2, <3>1, <3>2, <3>3 DEF Renew, Last
    <3>4. CASE ~Last
      BY <1>0, <1>3, <2>2, <3>1, <3>2, <3>4 DEF Renew, Advance
    <3> QED
      BY <3>3, <3>4
  <2> QED
    BY <2>1, <2>2
<1>3a. CASE Dispatch
  BY <1>0, <1>3a DEF Dispatch
<1>4. CASE AllAccepted
  BY <1>0, <1>4 DEF AllAccepted
<1>5. CASE CreatePot
  BY <1>0, <1>5 DEF CreatePot
<1>6. CASE PayPot
  BY <1>0, <1>6 DEF PayPot, Exchange!PayPot
<1>7. CASE Settle
  BY <1>0, <1>7 DEF Settle, Last, Advance, Exchange!Take
<1>8. CASE RoundEnd
  <2>1. signed' = signed /\ next' = next /\ next = 0
    BY <1>8 DEF RoundEnd
  <2>2. CASE pc' = "renew"
    BY <1>0, <1>8, <2>1, <2>2 DEF RoundEnd, NewRound
  <2>3. CASE pc' # "renew"
    BY <1>8, <2>1, <2>3 DEF RoundEnd, NewRound
  <2> QED
    BY <2>2, <2>3
<1>9. CASE Abort
  BY <1>0, <1>9 DEF Abort
<1>10. ASSUME NEW q \in Participant, NodeStep(q)
       PROVE  Signatures'
  BY <1>0, <1>10, NodeStepFrame
<1>11. CASE UNCHANGED vars
  BY <1>11 DEF vars
<1> QED
  BY <1>1, <1>2, <1>2a, <1>3, <1>3a, <1>4, <1>5, <1>6, <1>7, <1>8, <1>9, <1>10, <1>11
  DEF Next, MainStep, Finished

(***************************************************************************)
(* No share leaves its owner in a cycle somebody has not signed.           *)
(***************************************************************************)
LEMMA NextCycleNeeds == TandaInv /\ [Next]_vars => CycleNeedsEverySignature'
<1> SUFFICES ASSUME TandaInv, [Next]_vars PROVE CycleNeedsEverySignature'
  OBVIOUS
<1> USE DEF TandaInv, LoopsAt, SharesAt, Signatures, CycleNeedsEverySignature,
            InRound, program, network, money, unsettled, round, ProgramTypeOK, NetworkTypeOK, TypeOK
<1>0. TypeOK /\ TypeOK'
  BY NextTypeOK DEF TandaInv
<1>1. CASE Start
  BY <1>0, <1>1 DEF Start, NewRound, NoShares
<1>2. CASE OpenChannel
  BY <1>0, <1>2 DEF OpenChannel, Last, Advance
<1>2a. CASE WaitChannels
  BY <1>0, <1>2a DEF WaitChannels
<1>3. CASE Renew
  BY <1>0, <1>3 DEF Renew, Last, Advance
<1>3a. CASE Dispatch
  BY <1>0, <1>3a DEF Dispatch
<1>4. CASE AllAccepted
  BY <1>0, <1>4 DEF AllAccepted
<1>5. CASE CreatePot
  BY <1>0, <1>5 DEF CreatePot
<1>6. CASE PayPot
  BY <1>0, <1>6 DEF PayPot, Exchange!PayPot
<1>7. CASE Settle
  BY <1>0, <1>7 DEF Settle, Last, Advance, Exchange!Take
<1>8. CASE RoundEnd
  BY <1>0, <1>8 DEF RoundEnd, NewRound, NoShares
<1>9. CASE Abort
  BY <1>0, <1>9 DEF Abort
<1>10. ASSUME NEW q \in Participant, NodeStep(q)
       PROVE  CycleNeedsEverySignature'
  <2>1. UNCHANGED <<cycle, signed, asked>>
    BY <1>0, <1>10, NodeStepFrame
  <2>2. CASE \A p \in Participant : share'[p] # "free" => share[p] # "free"
    BY <2>1, <2>2
  <2>3. CASE Lock(q)
    BY <2>1, <2>3 DEF Lock
  <2> QED
    BY <1>0, <1>10, <2>2, <2>3
    DEF NodeStep, ChannelNormal, LateLock, Return, ReturnOrphan, Exchange!Return,
        Exchange!TypeOK
<1>11. CASE UNCHANGED vars
  BY <1>11 DEF vars
<1> QED
  BY <1>1, <1>2, <1>2a, <1>3, <1>3a, <1>4, <1>5, <1>6, <1>7, <1>8, <1>9, <1>10, <1>11
  DEF Next, MainStep, Finished

(***************************************************************************)
(* The channels with a participant are whole until a start asks its node   *)
(* for the invoice of a pot, and a start asks only where they were whole:  *)
(* an earlier start that asked has left its label.                         *)
(***************************************************************************)
LEMMA NextWhole == TandaInv /\ [Next]_vars => Whole'
<1> SUFFICES ASSUME TandaInv, [Next]_vars PROVE Whole'
  OBVIOUS
<1> USE DEF program, network, money, unsettled, round, history
<1>0. /\ TypeOK /\ TypeOK' /\ Whole /\ LoopsAt
      /\ cycle \in Nat /\ turn \in Participant /\ next \in Participant
      /\ labels \in [Participant -> SUBSET Nat]
  BY NextTypeOK DEF TandaInv, TypeOK, ProgramTypeOK, NetworkTypeOK
\* A step that leaves the channels and the labels alone.
<1>a. ASSUME UNCHANGED <<channels, pending, ours, labels>>, pc' \notin Opened
      PROVE  Whole'
  BY <1>0, <1>a DEF Whole, Brought, Holdings
\* One inside the rounds, which asks nobody new for an invoice.
<1>b. ASSUME UNCHANGED <<channels, pending, labels, opening>>, pc \in Opened,
             \A p \in Participant :
               /\ Asked(p)' => Asked(p)
               /\ p \notin labels[p] => Holdings'[p] >= Holdings[p]
      PROVE  Whole'
  <2>1. \A p \in Participant : Brought(p)' = Brought(p)
    BY <1>b DEF Brought
  <2>2. ASSUME NEW p \in Participant, p \notin labels'[p]
        PROVE  Holdings'[p] >= Brought(p)'
    <3>1. /\ Holdings[p] \in Nat /\ Holdings'[p] \in Nat
          /\ Holdings'[p] >= Holdings[p] /\ Holdings[p] >= Brought(p)
      <4>1. (Holdings \in [Participant -> Nat])'
        BY <1>0, HoldingsType, PTL DEF TypeOK
      <4> QED
        BY <1>0, <1>b, <2>2, <4>1, HoldingsType DEF Whole, TypeOK
    <3>2. Brought(p) \in Int
      <4>1. channels[p] + pending[p] \in Nat
        BY <1>0 DEF TypeOK, NetworkTypeOK
      <4> QED
        BY <4>1, Openings DEF Brought
    <3> QED
      BY <2>1, <3>1, <3>2
  <2> QED
    BY <1>0, <1>b, <2>1, <2>2 DEF Whole
<1>c. ours' = ours /\ pending' = pending
        => \A p \in Participant : Holdings'[p] >= Holdings[p]
  BY <1>0, HoldingsType DEF Holdings, TypeOK
<1>d. UNCHANGED <<cycle, single, turn>>
        /\ (pc' \in {"wait", "createPot"} <=> pc \in {"wait", "createPot"})
        => \A p \in Participant : Asked(p)' <=> Asked(p)
  BY DEF Asked
<1>1. CASE Start
  BY <1>1, <1>a DEF Start, Opened, InRound
<1>2. CASE OpenChannel
  <2>1. labels' = labels /\ pc' \notin Opened
    BY <1>2 DEF OpenChannel, Opened, InRound
  <2>2. /\ pending' = [pending EXCEPT ![next] = @ + 1]
        /\ channels' = channels /\ ours' = ours
    BY <1>2 DEF OpenChannel
  <2>3. ASSUME NEW p \in Participant, Holdings[p] >= Brought(p)
        PROVE  Holdings'[p] >= Brought(p)'
    <3>1. pending[p] \in Nat /\ channels[p] \in Nat /\ ours[p] \in Nat
      BY <1>0 DEF TypeOK, NetworkTypeOK
    <3>2. CASE p # next
      <4>1. pending'[p] = pending[p]
        BY <1>0, <2>2, <3>2 DEF TypeOK, NetworkTypeOK
      <4> QED
        BY <2>2, <2>3, <4>1 DEF Holdings, Brought
    <3>3. CASE p = next
      <4>1. pending'[p] = pending[p] + 1
        BY <1>0, <2>2, <3>3 DEF TypeOK, NetworkTypeOK
      <4> DEFINE total == channels[p] + pending[p]
                 waiting == pending[p] * OurOpening
                 brought == total * OurOpening
      <4>2. /\ total \in Nat /\ channels'[p] + pending'[p] = total + 1
            /\ (total + 1) * OurOpening = brought + OurOpening /\ brought \in Nat
            /\ (pending[p] + 1) * OurOpening = waiting + OurOpening /\ waiting \in Nat
        <5>1. total \in Nat /\ channels'[p] + pending'[p] = total + 1
          BY <2>2, <3>1, <4>1
        <5> QED
          BY <3>1, <5>1, Openings
      <4>3. /\ Holdings[p] = ours[p] + waiting
            /\ Holdings'[p] = ours[p] + (pending[p] + 1) * OurOpening
            /\ Brought(p) = brought
            /\ Brought(p)' = (total + 1) * OurOpening
        <5>1. Brought(p)' = (channels'[p] + pending'[p]) * OurOpening
          BY DEF Brought
        <5> QED
          BY <2>2, <4>1, <4>2, <5>1 DEF Holdings, Brought
      <4> HIDE DEF total, waiting, brought
      <4>4. /\ Holdings'[p] = ours[p] + waiting + OurOpening
            /\ Brought(p)' = brought + OurOpening
        BY <3>1, <4>2, <4>3, Amounts
      <4> QED
        BY <2>3, <3>1, <4>2, <4>3, <4>4, Amounts
    <3> QED
      BY <3>2, <3>3
  <2> QED
    BY <1>0, <2>1, <2>3 DEF Whole
<1>2a. CASE WaitChannels
  <2>1. /\ UNCHANGED <<channels, pending, ours, labels>> /\ opening' = Holdings
        /\ \A p \in Participant : channels[p] > 0
        /\ cycle' = 0 /\ (~single' => turn' = 0) /\ pc' = "wait"
    BY <1>0, <1>2a DEF WaitChannels, LoopsAt
  <2>2. \A p \in Participant : ~Asked(p)'
    BY <2>1 DEF Asked, Participant
  <2>3. /\ Holdings' = Holdings
        /\ \A p \in Participant : Brought(p)' = Brought(p)
    BY <2>1 DEF Holdings, Brought
  <2> QED
    BY <1>0, <2>1, <2>2, <2>3 DEF Whole
<1>3. CASE Renew
  <2>1. /\ UNCHANGED <<channels, pending, ours, labels, opening>>
        /\ pc = "renew" /\ cycle > 0
    BY <1>0, <1>3 DEF Renew, LoopsAt
  <2> QED
    BY <2>1, <1>b, <1>c DEF Asked, Opened
<1>3a. CASE Dispatch
  BY <1>3a, <1>b, <1>c, <1>d DEF Dispatch, Opened, InRound
<1>4. CASE AllAccepted
  BY <1>4, <1>b, <1>c, <1>d DEF AllAccepted, Opened, InRound
<1>5. CASE CreatePot
  <2>1. CASE Label \in labels[turn]
    BY <1>5, <1>a, <2>1 DEF CreatePot, Opened, InRound
  <2>2. CASE Label \notin labels[turn]
    <3>1. /\ UNCHANGED <<channels, pending, ours, opening, cycle, single, turn>>
          /\ labels' = [labels EXCEPT ![turn] = @ \cup {Label}]
          /\ pc = "createPot" /\ pc \in Opened
      BY <1>5, <2>2 DEF CreatePot, Opened, InRound
    <3>2. /\ \A p \in Participant : labels[p] \subseteq labels'[p]
          /\ Label \in labels'[turn]
          /\ \A p \in Participant : Brought(p)' = Brought(p)
          /\ Holdings' = Holdings
      BY <1>0, <3>1 DEF Brought, Holdings
    <3>3. \A p \in Participant : Asked(p)' => Asked(p) \/ p = turn
      BY <3>1 DEF Asked
    <3>4. ~Asked(turn) => Label = turn
      <4>1. cycle = 0 => cycle * N + turn = turn
        <5>1. 0 * N + turn = turn
          BY <1>0 DEF Participant
        <5> QED
          BY <5>1
      <4> QED
        BY <1>0, <4>1 DEF Asked, Label
    <3>5. ASSUME NEW p \in Participant
          PROVE  /\ Asked(p)' => p \in labels'[p]
                 /\ p \notin labels'[p] \/ Asked(p)' => opening[p] >= Brought(p)
      <4>1. CASE Asked(p) \/ p \notin labels[p]
        BY <1>0, <2>2, <3>1, <3>2, <3>3, <3>4, <4>1 DEF Whole
      <4>2. CASE ~Asked(p) /\ p \in labels[p]
        BY <1>0, <2>2, <3>1, <3>2, <3>3, <3>4, <4>2 DEF Whole
      <4> QED
        BY <4>1, <4>2
    <3>6. \A p \in Participant :
            p \notin labels'[p] => Holdings'[p] >= Brought(p)'
      BY <1>0, <3>2 DEF Whole
    <3> QED
      BY <1>0, <3>1, <3>2, <3>5, <3>6 DEF Whole
  <2> QED
    BY <2>1, <2>2
<1>6. CASE PayPot
  <2>1. turn \in labels[turn]
    BY <1>0, <1>6 DEF PayPot, Whole, Opened, InRound, Asked
  <2>2. UNCHANGED <<channels, pending, labels, cycle, single, turn, opening>>
    BY <1>6 DEF PayPot
  <2>3. \A p \in Participant : p \notin labels[p] => Holdings'[p] >= Holdings[p]
    <3>1. CASE ours' = ours
      BY <2>2, <3>1, <1>c
    <3>2. CASE ours' = [ours EXCEPT ![turn] = @ - Pot]
      <4>1. \A p \in Participant \ {turn} : Holdings'[p] = Holdings[p]
        BY <1>0, <2>2, <3>2, HoldingsPaid
      <4>2. \A p \in Participant : Holdings[p] \in Nat
        BY <1>0, HoldingsType DEF TypeOK
      <4> QED
        BY <2>1, <4>1, <4>2
    <3> QED
      BY <1>6, <3>1, <3>2 DEF PayPot
  <2>4. /\ pc \in Opened
        /\ pc' \in {"wait", "createPot"} <=> pc \in {"wait", "createPot"}
    BY <1>6 DEF PayPot, Opened, InRound
  <2> QED
    BY <2>2, <2>3, <2>4, <1>b, <1>d
<1>7. CASE Settle
  <2>1. /\ UNCHANGED <<channels, pending, labels, cycle, single, turn, opening>>
        /\ pc \in Opened
        /\ pc' \in {"wait", "createPot"} <=> pc \in {"wait", "createPot"}
    BY <1>7 DEF Settle, Opened, InRound
  <2>2. \A p \in Participant : Holdings'[p] >= Holdings[p]
    <3>1. CASE ours' = ours
      BY <2>1, <3>1, <1>c
    <3>2. CASE ours' = [ours EXCEPT ![next] = @ + Contribution]
      <4>1. /\ Holdings'[next] = Holdings[next] + Contribution
            /\ \A p \in Participant \ {next} : Holdings'[p] = Holdings[p]
        BY <1>0, <2>1, <3>2, HoldingsSettled
      <4>2. \A p \in Participant : Holdings[p] \in Nat
        BY <1>0, HoldingsType DEF TypeOK
      <4> QED
        BY <1>0, <4>1, <4>2, Amounts
    <3> QED
      BY <1>7, <3>1, <3>2 DEF Settle
  <2> QED
    BY <2>1, <2>2, <1>b, <1>d
<1>8. CASE RoundEnd
  <2>1. /\ UNCHANGED <<channels, pending, ours, labels, opening, single>>
        /\ pc = "roundEnd" /\ pc \in Opened
    BY <1>8 DEF RoundEnd, Opened, InRound
  <2>2. ASSUME NEW p \in Participant, Asked(p)' PROVE Asked(p)
    <3>1. CASE pc' = "over"
      BY <1>8, <2>2, <3>1 DEF RoundEnd, Asked
    <3>2. CASE pc' = "wait"
      BY <1>0, <1>8, <2>2, <3>2 DEF RoundEnd, Asked, Participant
    <3>3. CASE pc' = "renew"
      BY <1>0, <1>8, <2>2, <3>3 DEF RoundEnd, Asked, Participant
    <3> QED
      BY <1>8, <3>1, <3>2, <3>3 DEF RoundEnd
  <2> QED
    BY <2>1, <2>2, <1>b, <1>c
<1>9. CASE Abort
  BY <1>9, <1>a DEF Abort, Opened, InRound
<1>10. ASSUME NEW q \in Participant, NodeStep(q)
       PROVE  Whole'
  <2>1. UNCHANGED <<pc, single, cycle, turn, opening, labels, Holdings>>
    BY <1>0, <1>10, NodeStepFrame
  <2>2. \A p \in Participant : Brought(p)' = Brought(p) /\ channels'[p] >= channels[p]
    BY <1>0, <1>10, NodeStepFrame DEF Brought
  <2>3. \A p \in Participant : Asked(p)' <=> Asked(p)
    BY <2>1 DEF Asked
  <2>4. pc \in Opened => \A p \in Participant : channels'[p] > 0
    <3>1. \A p \in Participant : channels'[p] \in Nat /\ channels[p] \in Nat
      BY <1>0 DEF TypeOK, NetworkTypeOK
    <3> QED
      BY <1>0, <2>2, <3>1 DEF Whole
  <2> QED
    BY <1>0, <2>1, <2>2, <2>3, <2>4 DEF Whole
<1>11. CASE UNCHANGED vars
  BY <1>0, <1>11 DEF vars, Whole, Brought, Holdings, Asked
<1> QED
  BY <1>1, <1>2, <1>2a, <1>3, <1>3a, <1>4, <1>5, <1>6, <1>7, <1>8, <1>9, <1>10, <1>11
  DEF Next, MainStep, Finished

(***************************************************************************)
(* The accounts of the rounds add up: a product per round, which the       *)
(* provers need to see taken apart.                                        *)
(***************************************************************************)
LEMMA AccountsAfter ==
  ASSUME NEW r \in Nat, NEW c \in Nat
  PROVE  /\ (r + 1) * c = r * c + c
         /\ (r + 0) * c = r * c
         /\ r * c \in Nat
OBVIOUS

(***************************************************************************)
(* Every step keeps the accounts.                                          *)
(***************************************************************************)
LEMMA NextAccounts == TandaInv /\ [Next]_vars => Accounts'
<1> SUFFICES ASSUME TandaInv, [Next]_vars PROVE Accounts'
  OBVIOUS
<1> USE DEF TandaInv, Opened, InRound, program, network, money, round, history
<1>0. TypeOK /\ TypeOK'
  BY NextTypeOK DEF TandaInv
<1>1. CASE Start
  BY <1>1 DEF Start, Accounts
<1>2. CASE OpenChannel
  BY <1>2 DEF OpenChannel, Accounts
<1>2a. CASE WaitChannels
  <2>1. /\ opening' = Holdings /\ UNCHANGED <<ours, pending, single, turn, potPaid, share>>
        /\ \A p \in Participant : share[p] = "free"
    BY <1>2a DEF WaitChannels, SharesAt, money
  <2>2. Holdings' = Holdings /\ Holdings \in [Participant -> Nat]
    BY <1>0, <2>1, HoldingsType DEF Holdings, TypeOK
  <2>3. RoundsOver' = 0 /\ \A p \in Participant : ~HasWon(p)'
    BY <1>0, <1>2a, <2>1
    DEF WaitChannels, LoopsAt, SharesAt, RoundsOver, HasWon, TypeOK,
        ProgramTypeOK, Participant
  <2>4. \A p \in Participant : Holdings'[p] = opening'[p] + (0 + 0) * Contribution - 0
    BY <2>1, <2>2, Amounts
  <2> QED
    BY <2>1, <2>3, <2>4 DEF Accounts
<1>3. CASE Renew
  BY <1>3 DEF Renew, Accounts, RoundsOver, HasWon, Holdings
<1>3a. CASE Dispatch
  BY <1>3a DEF Dispatch, Accounts, RoundsOver, HasWon, Holdings
<1>4. CASE AllAccepted
  BY <1>4 DEF AllAccepted, Accounts, RoundsOver, HasWon, Holdings
<1>5. CASE CreatePot
  BY <1>5 DEF CreatePot, Accounts, RoundsOver, HasWon, Holdings
<1>6. CASE PayPot
  <2>1. CASE pc' = "aborted"
    BY <1>6, <2>1 DEF Accounts
  <2>2. CASE pc' # "aborted"
    <3>1. /\ ours' = [ours EXCEPT ![turn] = @ - Pot] /\ pending' = pending /\ ~potPaid /\ potPaid'
          /\ share' = share /\ opening' = opening /\ turn' = turn
          /\ single' = single /\ pc = "payPot"
      BY <1>6, <2>2 DEF PayPot, Exchange!PayPot
    <3>2. /\ turn \in Participant /\ ~HasWon(turn) /\ HasWon(turn)'
          /\ \A p \in Participant \ {turn} : HasWon(p)' <=> HasWon(p)
      BY <1>0, <3>1 DEF HasWon, TypeOK, ProgramTypeOK, Participant
    <3>3. /\ Holdings'[turn] = Holdings[turn] - Pot
          /\ \A p \in Participant \ {turn} : Holdings'[p] = Holdings[p]
      BY <1>0, <3>1, <3>2, HoldingsPaid
    <3>4. RoundsOver' = RoundsOver
      BY <3>1 DEF RoundsOver
    <3>5. share[turn] # "taken" /\ RoundsOver \in Nat
      BY <1>0, <3>1, <3>2
      DEF SharesAt, RoundsOver, TypeOK, ProgramTypeOK, Participant
    <3>6. Holdings[turn] = opening[turn] + (RoundsOver + 0) * Contribution - 0
      BY <3>1, <3>2, <3>5 DEF Accounts
    <3>7. opening[turn] \in Nat /\ RoundsOver * Contribution \in Nat
      BY <1>0, <3>2, <3>5, Amounts, AccountsAfter DEF TypeOK, HistoryTypeOK
    <3>8. Holdings[turn] = opening[turn] + RoundsOver * Contribution
      BY <3>5, <3>6, <3>7, Amounts, AccountsAfter
    <3>9. Holdings'[turn] = opening[turn] + (RoundsOver + 0) * Contribution - Pot
      <4> DEFINE earlier == RoundsOver * Contribution
                 shares == (RoundsOver + 0) * Contribution
      <4>1. shares = earlier
        BY <3>5, Amounts, AccountsAfter
      <4>2. Holdings'[turn] = opening[turn] + earlier - Pot
        <5> HIDE DEF earlier
        <5>1. earlier \in Nat /\ Holdings[turn] = opening[turn] + earlier
          BY <3>7, <3>8 DEF earlier
        <5> QED
          BY <3>3, <3>7, <5>1, Amounts
      <4>3. SUFFICES Holdings'[turn] = opening[turn] + shares - Pot
        OBVIOUS
      <4> HIDE DEF earlier, shares
      <4> QED
        BY <4>1, <4>2
    <3>10. ASSUME NEW p \in Participant
           PROVE  Holdings'[p] = opening[p]
                    + (RoundsOver + IF share'[p] = "taken" THEN 1 ELSE 0) * Contribution
                    - (IF HasWon(p)' THEN Pot ELSE 0)
      <4>1. CASE p = turn
        BY <3>1, <3>2, <3>5, <3>9, <4>1
      <4>2. CASE p # turn
        BY <3>1, <3>2, <3>3, <4>2 DEF Accounts
      <4> QED
        BY <4>1, <4>2
    <3> QED
      BY <3>1, <3>4, <3>10 DEF Accounts
  <2> QED
    BY <2>1, <2>2
<1>7. CASE Settle
  <2>1. CASE share[next] # "locked"
    BY <1>7, <2>1 DEF Settle, Accounts
  <2>2. CASE share[next] = "locked"
    <3>1. /\ ours' = [ours EXCEPT ![next] = @ + Contribution]
          /\ share' = [share EXCEPT ![next] = "taken"]
          /\ potPaid' = potPaid /\ opening' = opening /\ turn' = turn
          /\ single' = single /\ pc = "settle" /\ next \in Participant
          /\ pending' = pending
      BY <1>0, <1>7, <2>2 DEF Settle, Exchange!Take, TypeOK, ProgramTypeOK
    <3>2. /\ RoundsOver' = RoundsOver /\ RoundsOver \in Nat
          /\ \A p \in Participant : HasWon(p)' <=> HasWon(p)
      BY <1>0, <3>1 DEF RoundsOver, HasWon, TypeOK, ProgramTypeOK, Participant
    <3>3. /\ share'[next] = "taken" /\ Holdings'[next] = Holdings[next] + Contribution
          /\ \A p \in Participant \ {next} :
               share'[p] = share[p] /\ Holdings'[p] = Holdings[p]
      BY <1>0, <3>1, HoldingsSettled DEF TypeOK, Exchange!TypeOK
    <3>4. Holdings[next] = opening[next] + (RoundsOver + 0) * Contribution
                         - (IF HasWon(next) THEN Pot ELSE 0)
      BY <2>2, <3>1 DEF Accounts
    <3>5. Holdings[next] = opening[next] + RoundsOver * Contribution
                         - (IF HasWon(next) THEN Pot ELSE 0)
      BY <3>2, <3>4, Amounts, AccountsAfter
    <3>6. opening[next] \in Nat /\ RoundsOver * Contribution \in Nat
      BY <1>0, <3>1, <3>2, Amounts, AccountsAfter DEF TypeOK, HistoryTypeOK
    <3>7. Holdings'[next] = opening[next] + (RoundsOver * Contribution + Contribution)
                          - (IF HasWon(next) THEN Pot ELSE 0)
      <4> DEFINE won == IF HasWon(next) THEN Pot ELSE 0
      <4>1. won \in Nat
        BY Amounts
      <4>2. Holdings[next] = opening[next] + RoundsOver * Contribution - won
        BY <3>5
      <4> HIDE DEF won
      <4>3. Holdings'[next] = opening[next] + (RoundsOver * Contribution + Contribution) - won
        BY <3>3, <3>6, <4>1, <4>2, Amounts
      <4> QED
        BY <4>3 DEF won
    <3>8. Holdings'[next] = opening[next] + (RoundsOver + 1) * Contribution
                          - (IF HasWon(next) THEN Pot ELSE 0)
      BY <3>2, <3>7, Amounts, AccountsAfter
    <3>9. ASSUME NEW p \in Participant
          PROVE  Holdings'[p] = opening[p]
                   + (RoundsOver + IF share'[p] = "taken" THEN 1 ELSE 0) * Contribution
                   - (IF HasWon(p) THEN Pot ELSE 0)
      BY <3>1, <3>3, <3>8 DEF Accounts
    <3> QED
      BY <3>1, <3>2, <3>9 DEF Accounts
  <2> QED
    BY <2>1, <2>2
<1>8. CASE RoundEnd
  <2>1. /\ potPaid /\ Holdings' = Holdings /\ opening' = opening /\ single' = single
        /\ pc = "roundEnd" /\ turn \in Participant
        /\ \A p \in Participant : share[p] = "taken"
    BY <1>0, <1>8 DEF RoundEnd, SharesAt, TypeOK, ProgramTypeOK, money, Holdings
  <2>2. CASE pc' = "over"
    BY <1>8, <2>1, <2>2 DEF RoundEnd, Accounts, RoundsOver, HasWon
  <2>3. ASSUME pc' # "over"
        PROVE  /\ ~single /\ ~potPaid'
               /\ \A p \in Participant : share'[p] = "free"
    BY <1>8, <2>3 DEF RoundEnd, NewRound, NoShares
  <2>4. ASSUME ~single
        PROVE  \A p \in Participant :
                 /\ Holdings[p] = opening[p] + (turn + 1) * Contribution
                                - (IF p < turn + 1 THEN Pot ELSE 0)
    <3>1. RoundsOver = turn /\ \A p \in Participant : HasWon(p) <=> p < turn + 1
      BY <2>1, <2>4 DEF RoundsOver, HasWon, Participant
    <3> QED
      BY <2>1, <3>1 DEF Accounts
  <2>5. CASE pc' = "wait"
    <3>1. turn' = turn + 1 /\ turn + 1 \in Nat
      BY <1>8, <2>1, <2>5 DEF RoundEnd, Participant
    <3>2. RoundsOver' = turn + 1 /\ \A p \in Participant : HasWon(p)' <=> p < turn + 1
      BY <2>1, <2>3, <2>5, <3>1 DEF RoundsOver, HasWon
    <3>3. (turn + 1 + 0) * Contribution = (turn + 1) * Contribution
      BY <3>1, Amounts
    <3> QED
      BY <2>1, <2>3, <2>4, <2>5, <3>2, <3>3 DEF Accounts
  <2>6. CASE pc' = "renew"
    <3>1. turn = N - 1 /\ turn' = 0
      BY <1>8, <2>6 DEF RoundEnd
    <3>2. (turn + 1) * Contribution = Pot /\ \A p \in Participant : p < turn + 1
      BY <3>1 DEF Pot, Participant
    <3>3. \A p \in Participant : Holdings[p] = opening[p]
      BY <1>0, <2>3, <2>4, <2>6, <3>2, Amounts DEF TypeOK, HistoryTypeOK
    <3>4. RoundsOver' = 0 /\ \A p \in Participant : ~HasWon(p)'
      BY <2>1, <2>3, <2>6, <3>1 DEF RoundsOver, HasWon, Participant
    <3> QED
      BY <1>0, <2>1, <2>3, <2>6, <3>3, <3>4, Amounts
      DEF Accounts, TypeOK, HistoryTypeOK
  <2> QED
    BY <1>8, <2>2, <2>5, <2>6 DEF RoundEnd
<1>9. CASE Abort
  BY <1>9 DEF Abort, Accounts
<1>10. ASSUME NEW q \in Participant, NodeStep(q)
       PROVE  Accounts'
  <2>1. /\ UNCHANGED <<pc, single, turn, potPaid, Holdings, opening>>
        /\ \A p \in Participant : (share'[p] = "taken") <=> (share[p] = "taken")
    BY <1>0, <1>10, NodeStepFrame
  <2> QED
    BY <2>1 DEF Accounts, RoundsOver, HasWon
<1>11. CASE UNCHANGED vars
  BY <1>11 DEF vars, Accounts, RoundsOver, HasWon, Holdings, money
<1> QED
  BY <1>1, <1>2, <1>2a, <1>3, <1>3a, <1>4, <1>5, <1>6, <1>7, <1>8, <1>9, <1>10, <1>11
  DEF Next, MainStep, Finished

(***************************************************************************)
(* A round has one label, and a label one round.                           *)
(***************************************************************************)
LEMMA LabelRange ==
  ASSUME NEW k \in Nat, NEW t \in Nat
  PROVE  k * N + t \in Nat
<1>1. N \in Nat /\ k * N \in Nat
  OBVIOUS
<1> QED
  BY <1>1

LEMMA LabelOf ==
  ASSUME ProgramTypeOK
  PROVE  \E k \in 0 .. Cycles - 1 : Label = k * N + turn
<1>1. 0 * N + turn = turn /\ 0 \in 0 .. Cycles - 1 /\ cycle \in 0 .. Cycles - 1
  BY DEF ProgramTypeOK, Participant
<1> QED
  BY <1>1 DEF Label

LEMMA Multiple ==
  ASSUME NEW j \in Nat, NEW k \in Nat, j < k
  PROVE  j * N + N <= k * N
<1> DEFINE d == k - j - 1
<1>1. d \in Nat /\ d * N \in Nat /\ j * N \in Nat
  OBVIOUS
<1>2. k * N = j * N + N + d * N
  OBVIOUS
<1> QED
  BY <1>1, <1>2

LEMMA LabelNamesWinner ==
  ASSUME NEW j \in Nat, NEW k \in Nat, NEW p \in Participant, NEW q \in Participant,
         j * N + p = k * N + q
  PROVE  p = q
<1>1. j * N \in Nat /\ k * N \in Nat
  OBVIOUS
<1>2. ~(j < k) /\ ~(k < j)
  <2>1. j < k => j * N + N <= k * N
    BY Multiple
  <2>2. k < j => k * N + N <= j * N
    BY Multiple
  <2> HIDE DEF Participant
  <2> QED
    BY <1>1, <2>1, <2>2 DEF Participant
<1> QED
  BY <1>2 DEF Participant

(***************************************************************************)
(* The labels of a first start stay behind its rounds.                     *)
(***************************************************************************)
LEMMA NextLabelsSoFar == TandaInv /\ [Next]_vars => LabelsSoFar'
<1> SUFFICES ASSUME TandaInv, [Next]_vars PROVE LabelsSoFar'
  OBVIOUS
<1> USE DEF TandaInv, program, network, round
<1>0. /\ TypeOK /\ TypeOK' /\ Label \in Nat /\ Label' \in Nat
      /\ starts \in Nat /\ labels \in [Participant -> SUBSET Nat]
  <2>1. TypeOK /\ TypeOK'
    BY NextTypeOK
  <2>2. Label \in Nat
    BY <2>1, LabelType DEF TypeOK
  <2>3. Label' \in Nat
    <3>1. cycle' \in Nat /\ N \in Nat /\ turn' \in Nat
      BY <2>1 DEF TypeOK, ProgramTypeOK, Participant
    <3>2. cycle' * N + turn' \in Nat
      BY <3>1, LabelRange
    <3>3. Label' \in {turn', cycle' * N + turn'}
      BY DEF Label
    <3> QED
      BY <3>1, <3>2, <3>3
  <2> QED
    BY <2>1, <2>2, <2>3 DEF TypeOK, ProgramTypeOK, NetworkTypeOK
<1>1. ASSUME labels' = labels, starts' = starts, Label' = Label,
             starts = 0 => pc' = "down",
             pc' \in NotLabelled => pc \in NotLabelled
      PROVE  LabelsSoFar'
  BY <1>1 DEF LabelsSoFar
<1>2. CASE Start
  <2>1. labels' = labels /\ starts' = starts + 1 /\ (starts = 0 \/ starts' >= 2)
    BY <1>0, <1>2 DEF Start
  <2> QED
    BY <1>0, <2>1 DEF LabelsSoFar
<1>3. CASE OpenChannel
  BY <1>1, <1>3 DEF OpenChannel, LabelsSoFar, NotLabelled, Label
<1>3a. CASE WaitChannels
  BY <1>1, <1>3a DEF WaitChannels, LabelsSoFar, NotLabelled, Label
<1>4. CASE Renew
  BY <1>1, <1>4 DEF Renew, LabelsSoFar, NotLabelled, Label
<1>4a. CASE Dispatch
  BY <1>1, <1>4a DEF Dispatch, LabelsSoFar, NotLabelled, Label
<1>5. CASE AllAccepted
  BY <1>1, <1>5 DEF AllAccepted, LabelsSoFar, NotLabelled, Label
<1>6. CASE CreatePot
  <2>1. starts' = starts /\ starts # 0 /\ Label' = Label /\ pc' \notin NotLabelled
    BY <1>6 DEF CreatePot, LabelsSoFar, NotLabelled, Label
  <2>2. \A p \in Participant : labels'[p] \subseteq labels[p] \cup {Label}
    BY <1>0, <1>6 DEF CreatePot
  <2> QED
    BY <2>1, <2>2 DEF LabelsSoFar
<1>7. CASE PayPot
  BY <1>1, <1>7 DEF PayPot, LabelsSoFar, NotLabelled, Label
<1>8. CASE Settle
  BY <1>1, <1>8 DEF Settle, LabelsSoFar, NotLabelled, Label
<1>9. CASE RoundEnd
  <2>1. CASE pc' = "over"
    BY <1>1, <1>9, <2>1 DEF RoundEnd, LabelsSoFar, NotLabelled, Label
  <2>2. CASE pc' # "over"
    <3>1. Label' = Label + 1
      <4>1. /\ ~single /\ single' = single
            /\ cycle \in Nat /\ N \in Nat /\ cycle * N \in Nat /\ turn \in Nat
        BY <1>0, <1>9, <2>2 DEF RoundEnd, TypeOK, ProgramTypeOK, Participant
      <4>2. CASE pc' = "wait"
        BY <1>9, <4>1, <4>2 DEF RoundEnd, Label
      <4>3. CASE pc' = "renew"
        <5>1. turn = N - 1 /\ turn' = 0 /\ cycle' = cycle + 1
          BY <1>9, <4>3 DEF RoundEnd
        <5>2. (cycle + 1) * N = cycle * N + N
          BY <4>1, AccountsAfter
        <5> QED
          BY <4>1, <5>1, <5>2 DEF Label
      <4> QED
        BY <1>9, <2>2, <4>2, <4>3 DEF RoundEnd
    <3>2. labels' = labels /\ starts' = starts /\ starts # 0
      BY <1>9 DEF RoundEnd, LabelsSoFar
    <3>3. ASSUME starts = 1, NEW p \in Participant, NEW r \in labels[p]
          PROVE  r < Label'
      <4>1. r \in Nat /\ r <= Label
        BY <1>0, <3>3 DEF LabelsSoFar
      <4> QED
        BY <1>0, <3>1, <4>1
    <3> QED
      BY <3>2, <3>3 DEF LabelsSoFar
  <2> QED
    BY <2>1, <2>2
<1>10. CASE Abort
  BY <1>1, <1>10 DEF Abort, LabelsSoFar, NotLabelled, Label, Running
<1>11. ASSUME NEW q \in Participant, NodeStep(q)
       PROVE  LabelsSoFar'
  <2>1. UNCHANGED <<labels, starts, pc, single, cycle, turn>>
    BY <1>0, <1>11, NodeStepFrame
  <2> QED
    BY <1>1, <2>1 DEF LabelsSoFar, Label
<1>12. CASE UNCHANGED vars
  BY <1>1, <1>12 DEF vars, LabelsSoFar, Label
<1> QED
  BY <1>2, <1>3, <1>3a, <1>4, <1>4a, <1>5, <1>6, <1>7, <1>8, <1>9, <1>10, <1>11, <1>12
  DEF Next, MainStep, Finished

(***************************************************************************)
(* A paid round keeps its label at its winner's node.                      *)
(***************************************************************************)
LEMMA NextPaidAreLabelled == TandaInv /\ [Next]_vars => PaidAreLabelled'
<1> SUFFICES ASSUME TandaInv, [Next]_vars PROVE PaidAreLabelled'
  OBVIOUS
<1> USE DEF TandaInv, program, network, money, unsettled, round, history
<1>0. /\ TypeOK /\ labels \in [Participant -> SUBSET Nat] /\ turn \in Participant
  BY DEF TypeOK, ProgramTypeOK, NetworkTypeOK
<1>1. ASSUME labels' = labels, paidRounds' = paidRounds, pc' # "payPot"
      PROVE  PaidAreLabelled'
  BY <1>1 DEF PaidAreLabelled
<1>2. CASE Start
  BY <1>1, <1>2 DEF Start
<1>3. CASE OpenChannel
  BY <1>1, <1>3 DEF OpenChannel
<1>3a. CASE WaitChannels
  BY <1>1, <1>3a DEF WaitChannels
<1>4. CASE Renew
  BY <1>1, <1>4 DEF Renew
<1>4a. CASE Dispatch
  <2>1. UNCHANGED <<pc, labels, paidRounds, single, cycle, turn>>
    BY <1>4a DEF Dispatch
  <2> QED
    BY <2>1 DEF PaidAreLabelled, Label
<1>5. CASE AllAccepted
  BY <1>1, <1>5 DEF AllAccepted
<1>6. CASE CreatePot
  <2>1. CASE Label \in labels[turn]
    BY <1>1, <1>6, <2>1 DEF CreatePot
  <2>2. CASE Label \notin labels[turn]
    <3>1. Label \notin paidRounds
      <4> SUFFICES ASSUME Label \in paidRounds PROVE FALSE
        OBVIOUS
      <4>1. PICK p \in Participant, k \in 0 .. Cycles - 1 :
              Label = k * N + p /\ Label \in labels[p]
        BY DEF PaidAreLabelled
      <4>2. PICK j \in 0 .. Cycles - 1 : Label = j * N + turn
        BY <1>0, LabelOf DEF TypeOK
      <4>3. j \in Nat /\ k \in Nat /\ j * N + turn = k * N + p
        BY <4>1, <4>2
      <4>4. p = turn
        BY <1>0, <4>3, LabelNamesWinner
      <4> QED
        BY <2>2, <4>1, <4>4
    <3>2. /\ paidRounds' = paidRounds /\ Label' = Label /\ Label' \in labels'[turn']
          /\ \A p \in Participant : labels[p] \subseteq labels'[p]
      BY <1>0, <1>6 DEF CreatePot, Label
    <3>3. ASSUME NEW r \in paidRounds
          PROVE  \E p \in Participant, k \in 0 .. Cycles - 1 :
                   r = k * N + p /\ r \in labels'[p]
      BY <3>2 DEF PaidAreLabelled
    <3> QED
      BY <3>1, <3>2, <3>3 DEF PaidAreLabelled
  <2> QED
    BY <2>1, <2>2
<1>7. CASE PayPot
  <2>1. labels' = labels /\ pc' # "payPot" /\ paidRounds' \subseteq paidRounds \cup {Label}
    BY <1>7 DEF PayPot
  <2>2. CASE paidRounds' = paidRounds
    BY <1>1, <2>1, <2>2
  <2>3. Label \in labels[turn]
    BY <1>7 DEF PayPot, PaidAreLabelled
  <2>4. PICK k \in 0 .. Cycles - 1 : Label = k * N + turn
    BY <1>0, LabelOf DEF TypeOK
  <2>5. ASSUME NEW r \in paidRounds'
        PROVE  \E p \in Participant, j \in 0 .. Cycles - 1 :
                 r = j * N + p /\ r \in labels'[p]
    <3>1. CASE r = Label
      BY <1>0, <2>1, <2>3, <2>4, <3>1
    <3>2. CASE r \in paidRounds
      BY <2>1, <3>2 DEF PaidAreLabelled
    <3> QED
      BY <2>1, <3>1, <3>2
  <2> QED
    BY <2>1, <2>5 DEF PaidAreLabelled
<1>8. CASE Settle
  BY <1>1, <1>8 DEF Settle
<1>9. CASE RoundEnd
  BY <1>1, <1>9 DEF RoundEnd
<1>10. CASE Abort
  BY <1>1, <1>10 DEF Abort
<1>11. ASSUME NEW q \in Participant, NodeStep(q)
       PROVE  PaidAreLabelled'
  <2>1. UNCHANGED <<pc, labels, paidRounds, single, cycle, turn>>
    BY <1>0, <1>11, NodeStepFrame
  <2> QED
    BY <2>1 DEF PaidAreLabelled, Label
<1>12. CASE UNCHANGED vars
  BY <1>12 DEF vars, PaidAreLabelled, Label
<1> QED
  BY <1>2, <1>3, <1>3a, <1>4, <1>4a, <1>5, <1>6, <1>7, <1>8, <1>9, <1>10, <1>11, <1>12
  DEF Next, MainStep, Finished

(***************************************************************************)
(* What the coordinator is missing, as a sum over the participants.        *)
(***************************************************************************)
LEMMA ParticipantsFinite ==
  /\ IsFiniteSet(Participant) /\ Cardinality(Participant) = N
  /\ IsFiniteSet(Taken) /\ Cardinality(Taken) \in Nat
<1>1. IsFiniteSet(Participant) /\ Cardinality(Participant) = N
  <2>1. 0 \in Int /\ N - 1 \in Int /\ 0 <= N
    OBVIOUS
  <2>2. IsFiniteSet(0 .. N - 1)
    BY <2>1, FS_Interval
  <2>3. Cardinality(0 .. N - 1) = (N - 1) - 0 + 1
    BY <2>1, FS_Interval
  <2> QED
    BY <2>2, <2>3 DEF Participant
<1>2. IsFiniteSet(Taken)
  BY <1>1, FS_Subset DEF Taken
<1> QED
  BY <1>1, <1>2, FS_CardinalityType

LEMMA MissingType ==
  TypeOK => Missing \in Int /\ \A p \in Participant : MissingAt[p] \in Int
<1> SUFFICES ASSUME TypeOK
             PROVE  Missing \in Int /\ \A p \in Participant : MissingAt[p] \in Int
  OBVIOUS
<1>1. \A p \in Participant : channels[p] \in Nat /\ ours[p] \in Nat
  BY DEF TypeOK, NetworkTypeOK
<1>2. \A a \in Nat : a * OurOpening \in Int
  BY Amounts
<1>3. \A p \in Participant : MissingAt[p] \in Int
  BY <1>1, <1>2 DEF MissingAt
<1>4. DOMAIN MissingAt = Participant
  BY DEF MissingAt
<1> QED
  BY <1>3, <1>4, ParticipantsFinite, SumType DEF Missing, SumFunction

\* A step that changes the channels with one participant changes the sum by as much.
LEMMA MissingChanged ==
  ASSUME TypeOK, TypeOK', NEW p \in Participant, NEW d \in Int,
         \A q \in Participant \ {p} : channels'[q] = channels[q] /\ ours'[q] = ours[q],
         MissingAt'[p] = MissingAt[p] + d
  PROVE  Missing' = Missing + d
<1>1. DOMAIN MissingAt = Participant /\ DOMAIN MissingAt' = Participant
  BY DEF MissingAt
<1>2. \A q \in Participant : MissingAt[q] \in Int
  BY MissingType
<1>3. \A q \in Participant : MissingAt'[q] \in Int
  <2>1. \A q \in Participant : channels'[q] \in Nat /\ ours'[q] \in Nat
    BY DEF TypeOK, NetworkTypeOK
  <2>2. \A a \in Nat : a * OurOpening \in Int
    BY Amounts
  <2> QED
    BY <2>1, <2>2 DEF MissingAt
<1>4. \A q \in Participant \ {p} : MissingAt'[q] = MissingAt[q]
  BY DEF MissingAt
<1>5. \A q \in Participant : MissingAt[q] \in Int /\ MissingAt'[q] \in Int
  BY <1>2, <1>3
<1>6. SumFunctionOnSet(MissingAt', Participant)
        = SumFunctionOnSet(MissingAt, Participant) + (MissingAt'[p] - MissingAt[p])
  <2> DEFINE g == MissingAt'
             f == MissingAt
  <2> HIDE DEF g, f
  <2>1. \A q \in Participant : f[q] \in Int /\ g[q] \in Int
    BY <1>5 DEF f, g
  <2>2. \A q \in Participant \ {p} : g[q] = f[q]
    BY <1>4 DEF f, g
  <2>3. SumFunctionOnSet(g, Participant)
          = SumFunctionOnSet(f, Participant) + (g[p] - f[p])
    BY <2>1, <2>2, ParticipantsFinite, SumChanged
  <2> QED
    BY <2>3 DEF f, g
<1>7. Missing \in Int /\ MissingAt[p] \in Int
  BY MissingType
<1>8. /\ Missing = SumFunctionOnSet(MissingAt, Participant)
      /\ Missing' = SumFunctionOnSet(MissingAt', Participant)
  BY <1>1 DEF Missing, SumFunction
<1> QED
  BY <1>6, <1>7, <1>8

LEMMA Bounds ==
  ASSUME NEW s \in Nat
  PROVE  /\ s * Pot \in Nat
         /\ (s - 1) * Pot \in Int
         /\ (s - 1) * Pot + Pot = s * Pot
         /\ ((s + 1) - 1) * Pot = s * Pot
         /\ (s + 1) * Pot = s * Pot + Pot
BY Amounts

LEMMA NextMissingSoFar == TandaInv /\ [Next]_vars => MissingSoFar'
<1> SUFFICES ASSUME TandaInv, [Next]_vars PROVE MissingSoFar'
  OBVIOUS
<1>0. TypeOK /\ TypeOK'
  BY NextTypeOK DEF TandaInv
<1>a. /\ starts \in Nat /\ starts' \in Nat
      /\ pc \in Running \cup Ended /\ turn \in Participant /\ next \in Participant
  BY <1>0 DEF TypeOK, ProgramTypeOK
<1>b. /\ Missing \in Int
      /\ Cardinality(Taken) \in Nat /\ Cardinality(Taken)' \in Nat
      /\ Cardinality(Taken) * Contribution \in Nat
  <2>1. (Cardinality(Taken) \in Nat)'
    BY ParticipantsFinite, PTL
  <2> QED
    BY <1>0, <2>1, MissingType, ParticipantsFinite, Amounts
<1>c. MissingSoFar /\ SharesAt
  BY DEF TandaInv
<1>d. channels' = channels /\ ours' = ours => Missing' = Missing
  BY DEF Missing, MissingAt
<1>e. (\A p \in Participant : (share'[p] = "taken") <=> (share[p] = "taken"))
        => Taken' = Taken
  BY DEF Taken
<1>f. potPaid' \in BOOLEAN /\ potPaid \in BOOLEAN
  BY <1>0 DEF TypeOK, Exchange!TypeOK
<1>g. /\ starts * Pot \in Nat /\ (starts - 1) * Pot \in Int
      /\ (starts - 1) * Pot + Pot = starts * Pot
      /\ ((starts + 1) - 1) * Pot = starts * Pot
      /\ (starts + 1) * Pot = starts * Pot + Pot
      /\ Pot \in Nat
  BY <1>a, Bounds, Amounts
<1> USE DEF program, network, money, unsettled, round, history
\* A step that touches no channel of ours, nor the shares taken, nor the pot.
<1>h. ASSUME UNCHANGED <<channels, ours, share, potPaid, starts>>,
             pc' \in Running \cup {"over", "declined"}
               => pc \in Running \cup {"over", "declined"}
      PROVE  MissingSoFar'
  BY <1>c, <1>d, <1>e, <1>h DEF MissingSoFar
<1>1. CASE Start
  <2>1. Missing' = Missing /\ starts' = starts + 1 /\ potPaid' = FALSE
    BY <1>1, <1>d DEF Start, NewRound
  <2>2. Cardinality(Taken)' = 0
    <3>1. Taken' = {}
      BY <1>1 DEF Start, NewRound, NoShares, Taken
    <3> QED
      BY <3>1, FS_EmptySet
  <2>3. Missing <= starts * Pot
    BY <1>c DEF MissingSoFar
  <2>4. Cardinality(Taken)' * Contribution = 0
    BY <2>2, Amounts
  <2> QED
    BY <1>b, <1>g, <2>1, <2>3, <2>4 DEF MissingSoFar
<1>2. CASE OpenChannel
  BY <1>2, <1>h DEF OpenChannel, Running
<1>2a. CASE WaitChannels
  BY <1>2a, <1>h DEF WaitChannels, Running
<1>3. CASE Renew
  BY <1>3, <1>h DEF Renew, Running
<1>3a. CASE Dispatch
  BY <1>3a, <1>h DEF Dispatch, Running
<1>4. CASE AllAccepted
  BY <1>4, <1>h DEF AllAccepted, Running
<1>5. CASE CreatePot
  BY <1>5, <1>h DEF CreatePot, Running
<1>6. CASE PayPot
  <2>0. ours[turn] \in Nat
    BY <1>0, <1>a DEF TypeOK, NetworkTypeOK
  <2>1. CASE ours[turn] < Pot
    <3>1. UNCHANGED <<channels, ours, share, potPaid, starts>> /\ pc = "payPot"
      BY <1>6, <1>g, <2>0, <2>1 DEF PayPot
    <3> QED
      BY <3>1, <1>h DEF Running
  <2>2. CASE ours[turn] >= Pot
    <3>1. /\ channels \in [Participant -> Nat] /\ ours \in [Participant -> Nat]
          /\ channels' = channels /\ starts' = starts
          /\ ours' = [ours EXCEPT ![turn] = @ - Pot]
          /\ ~potPaid /\ potPaid' /\ share' = share /\ pc = "payPot"
      BY <1>0, <1>6, <1>g, <2>0, <2>2
      DEF PayPot, TypeOK, NetworkTypeOK, Exchange!PayPot
    <3>2. /\ ours'[turn] = ours[turn] - Pot /\ ours[turn] \in Nat
          /\ \A q \in Participant \ {turn} :
               channels'[q] = channels[q] /\ ours'[q] = ours[q]
      BY <1>a, <3>1
    <3>3. MissingAt'[turn] = MissingAt[turn] + Pot
      <4>1. /\ MissingAt[turn] = channels[turn] * OurOpening - ours[turn]
            /\ MissingAt'[turn] = channels[turn] * OurOpening - ours'[turn]
        BY <1>a, <3>1 DEF MissingAt
      <4>2. channels[turn] * OurOpening \in Int
        BY <1>a, <3>1, Amounts
      <4> QED
        BY <3>2, <4>1, <4>2, Amounts
    <3>4. Missing' = Missing + Pot
      BY <1>0, <1>a, <1>g, <3>2, <3>3, MissingChanged
    <3>5. Taken' = Taken
      BY <3>1 DEF Taken
    <3>6. Missing + Cardinality(Taken) * Contribution <= (starts - 1) * Pot
      BY <1>b, <1>c, <1>g, <3>1 DEF MissingSoFar, Running
    <3> HIDE DEF program, network, money, unsettled, round, history
    <3>7. Missing' <= starts' * Pot
      BY <1>b, <1>g, <3>1, <3>4, <3>6
    <3>8. Missing' + Cardinality(Taken)' * Contribution <= (starts' - 1) * Pot + Pot
      BY <1>b, <1>g, <3>1, <3>4, <3>5, <3>6
    <3> QED
      BY <3>1, <3>7, <3>8 DEF MissingSoFar
  <2> QED
    BY <1>g, <2>0, <2>1, <2>2
<1>7. CASE Settle
  <2>1. CASE share[next] # "locked"
    BY <1>7, <2>1, <1>h DEF Settle, Running
  <2>2. CASE share[next] = "locked"
    <3>1. /\ channels \in [Participant -> Nat] /\ ours \in [Participant -> Nat]
          /\ channels' = channels /\ starts' = starts /\ pc = "settle"
          /\ ours' = [ours EXCEPT ![next] = @ + Contribution]
          /\ share \in [Participant -> Exchange!ShareState]
          /\ share' = [share EXCEPT ![next] = "taken"] /\ potPaid' = potPaid
      BY <1>0, <1>7, <2>2
      DEF Settle, TypeOK, NetworkTypeOK, Exchange!TypeOK, Exchange!Take
    <3>2. /\ ours'[next] = ours[next] + Contribution /\ ours[next] \in Nat
          /\ \A q \in Participant \ {next} :
               channels'[q] = channels[q] /\ ours'[q] = ours[q]
      BY <1>a, <3>1
    <3>3. MissingAt'[next] = MissingAt[next] + (0 - Contribution)
      <4>1. /\ MissingAt[next] = channels[next] * OurOpening - ours[next]
            /\ MissingAt'[next] = channels[next] * OurOpening - ours'[next]
        BY <1>a, <3>1 DEF MissingAt
      <4>2. channels[next] * OurOpening \in Int
        BY <1>a, <3>1, Amounts
      <4> QED
        BY <3>2, <4>1, <4>2, Amounts
    <3>4. Missing' = Missing + (0 - Contribution)
      BY <1>0, <1>a, <3>2, <3>3, Amounts, MissingChanged
    <3>5. Cardinality(Taken)' = Cardinality(Taken) + 1
      <4>1. Taken' = Taken \cup {next} /\ next \notin Taken
        BY <1>a, <2>2, <3>1 DEF Taken
      <4> QED
        BY <4>1, ParticipantsFinite, FS_AddElement
    <3>6. Cardinality(Taken)' * Contribution
            = Cardinality(Taken) * Contribution + Contribution
      BY <1>b, <3>5, Amounts
    <3> HIDE DEF program, network, money, unsettled, round, history
    <3>7. Missing' + Cardinality(Taken)' * Contribution
            = Missing + Cardinality(Taken) * Contribution
      BY <1>b, <3>4, <3>6, Amounts
    <3>8. Missing' <= starts' * Pot
      BY <1>b, <1>c, <3>1, <3>4, <1>g, Amounts DEF MissingSoFar
    <3> QED
      BY <1>c, <3>1, <3>7, <3>8 DEF MissingSoFar, Running
  <2> QED
    BY <2>1, <2>2
<1>8. CASE RoundEnd
  <2>1. CASE pc' = "over"
    BY <1>8, <2>1, <1>h DEF RoundEnd, Running
  <2>2. CASE pc' # "over"
    <3>1. /\ share' = NoShares /\ potPaid' = FALSE /\ pc = "roundEnd"
          /\ channels' = channels /\ ours' = ours /\ starts' = starts
      BY <1>8, <2>2 DEF RoundEnd, NewRound
    <3>2. potPaid /\ Taken = Participant
      BY <1>c, <3>1 DEF SharesAt, Taken
    <3>3. Cardinality(Taken) * Contribution = Pot
      BY <3>2, ParticipantsFinite DEF Pot
    <3>4. Missing + Pot <= (starts - 1) * Pot + Pot
      BY <1>c, <3>1, <3>2, <3>3 DEF MissingSoFar, Running
    <3>5. Cardinality(Taken)' = 0
      <4>1. Taken' = {}
        BY <3>1 DEF NoShares, Taken
      <4> QED
        BY <4>1, FS_EmptySet
    <3>6. Cardinality(Taken)' * Contribution = 0
      BY <3>5, Amounts
    <3>7. Missing' = Missing
      BY <1>d, <3>1
    <3> HIDE DEF program, network, money, unsettled, round, history
    <3> QED
      BY <1>b, <1>g, <3>1, <3>4, <3>6, <3>7 DEF MissingSoFar
  <2> QED
    BY <2>1, <2>2
<1>9. CASE Abort
  BY <1>9, <1>h DEF Abort, Running
<1>10. ASSUME NEW q \in Participant, NodeStep(q)
       PROVE  MissingSoFar'
  <2>1. /\ UNCHANGED <<pc, potPaid, starts>>
        /\ \A p \in Participant : (share'[p] = "taken") <=> (share[p] = "taken")
    BY <1>0, <1>10, NodeStepFrame
  <2>2. Missing' = Missing
    <3>1. CASE ~ChannelNormal(q)
      BY <1>10, <1>d, <3>1 DEF NodeStep, LateLock, Lock, Return, ReturnOrphan
    <3>2. CASE ChannelNormal(q)
      <4>1. /\ channels \in [Participant -> Nat] /\ ours \in [Participant -> Nat]
            /\ channels' = [channels EXCEPT ![q] = @ + 1]
            /\ ours' = [ours EXCEPT ![q] = @ + OurOpening]
        BY <1>0, <3>2 DEF ChannelNormal, TypeOK, NetworkTypeOK
      <4>2. /\ channels'[q] = channels[q] + 1 /\ channels[q] \in Nat
            /\ ours'[q] = ours[q] + OurOpening /\ ours[q] \in Nat
            /\ \A p \in Participant \ {q} :
                 channels'[p] = channels[p] /\ ours'[p] = ours[p]
        BY <4>1
      <4>3. MissingAt'[q] = MissingAt[q] + 0
        <5>1. /\ MissingAt[q] = channels[q] * OurOpening - ours[q]
              /\ MissingAt'[q] = channels'[q] * OurOpening - ours'[q]
          BY DEF MissingAt
        <5>2. /\ (channels[q] + 1) * OurOpening = channels[q] * OurOpening + OurOpening
              /\ channels[q] * OurOpening \in Nat
          BY <4>2, Openings
        <5> QED
          BY <4>2, <5>1, <5>2, Amounts
      <4>4. Missing' = Missing + 0
        BY <1>0, <4>2, <4>3, MissingChanged
      <4> QED
        BY <1>b, <4>4
    <3> QED
      BY <3>1, <3>2
  <2> QED
    BY <1>c, <1>e, <2>1, <2>2 DEF MissingSoFar
<1>11. CASE UNCHANGED vars
  BY <1>11, <1>h DEF vars
<1> QED
  BY <1>1, <1>2, <1>2a, <1>3, <1>3a, <1>4, <1>5, <1>6, <1>7, <1>8, <1>9, <1>10, <1>11
  DEF Next, MainStep, Finished

(***************************************************************************)
(* The invariant holds before the first start.                             *)
(***************************************************************************)
LEMMA InitTandaInv == Init => TandaInv
<1> SUFFICES ASSUME Init PROVE TandaInv
  OBVIOUS
<1> USE DEF Init
<1>1. TypeOK
  <2>1. ProgramTypeOK
    <3>1. pc \in Ended /\ single \in BOOLEAN
      BY DEF Ended
    <3>2. next \in Participant /\ turn \in Participant
      BY DEF Participant
    <3>3. starts \in 0 .. MaxStarts /\ cycle \in 0 .. Cycles - 1
      OBVIOUS
    <3> QED
      BY <3>1, <3>2, <3>3 DEF ProgramTypeOK
  <2>2. NetworkTypeOK /\ HistoryTypeOK
    BY DEF NetworkTypeOK, HistoryTypeOK
  <2>3. Exchange!TypeOK
    BY DEF Exchange!Init, Exchange!TypeOK, Exchange!ShareState
  <2> QED
    BY <2>1, <2>2, <2>3 DEF TypeOK
<1>2. Accounts /\ SharesAt /\ LoopsAt /\ Signatures
  BY DEF Accounts, SharesAt, LoopsAt, Signatures, Opened, InRound
<1>2a. Whole
  <2>1. \A p \in Participant : Holdings[p] = 0 /\ Brought(p) = 0
    <3>1. (0 + 0) * OurOpening = 0 /\ 0 + 0 * OurOpening = 0
      BY Amounts
    <3> QED
      BY <3>1 DEF Holdings, Brought
  <2> QED
    BY <2>1 DEF Whole, Opened, InRound
<1>3. CycleNeedsEverySignature
  BY DEF CycleNeedsEverySignature
<1>4. LabelsSoFar /\ PaidAreLabelled
  BY DEF LabelsSoFar, PaidAreLabelled
<1>5. MissingSoFar
  <2>1. DOMAIN MissingAt = Participant /\ \A p \in Participant : MissingAt[p] = 0
    BY Amounts DEF MissingAt
  <2>2. \A p \in Participant : MissingAt[p] \in Int /\ MissingAt[p] = 0 * MissingAt[p]
    BY <2>1
  <2>3. Missing \in Int /\ Missing = 0 * Missing
    BY <2>1, <2>2, ParticipantsFinite, SumScale, SumType DEF Missing, SumFunction
  <2> QED
    BY <2>3, Amounts DEF MissingSoFar, Running
<1> QED
  BY <1>1, <1>2, <1>2a, <1>3, <1>4, <1>5 DEF TandaInv

(***************************************************************************)
(* TandaInv is an invariant of the tanda: main, bootstrap and              *)
(* collect_renewals keep the accounts of every channel, the order of the   *)
(* shares and the signatures at every point of the program.                *)
(***************************************************************************)
THEOREM TandaInvariant == Spec => []TandaInv
<1>1. TandaInv /\ [Next]_vars => TandaInv'
  BY NextTypeOK, NextLoopsAt, NextSharesAt, NextSignatures, NextCycleNeeds,
     NextWhole, NextAccounts, NextLabelsSoFar, NextPaidAreLabelled,
     NextMissingSoFar DEF TandaInv
<1> QED
  BY InitTandaInv, <1>1, PTL DEF Spec

(***************************************************************************)
(* Type correctness of the whole tanda.                                    *)
(***************************************************************************)
THEOREM TypeCorrect == Spec => []TypeOK
<1>1. TandaInv => TypeOK
  BY DEF TandaInv
<1> QED
  BY TandaInvariant, <1>1, PTL

(***************************************************************************)
(* Nobody's sats are locked for a cycle that some participant has not      *)
(* signed, for any number of participants, cycles and restarts.            *)
(***************************************************************************)
THEOREM CycleNeedsEverySignatureCorrect == Spec => []CycleNeedsEverySignature
<1>1. TandaInv => CycleNeedsEverySignature
  BY DEF TandaInv
<1> QED
  BY TandaInvariant, <1>1, PTL

(***************************************************************************)
(* A pot that fits into a fresh channel never fails for want of liquidity, *)
(* whatever earlier starts lost and whichever channels are usable: the     *)
(* peers that have won have a label that stops the coordinator first.      *)
(***************************************************************************)
THEOREM LiquiditySufficesCorrect == Spec => []LiquiditySuffices
<1>1. TandaInv => LiquiditySuffices
  <2> SUFFICES ASSUME TandaInv, PotFits, pc = "payPot"
               PROVE  ours[turn] >= Pot
    BY DEF LiquiditySuffices
  <2>1. /\ turn \in Participant /\ ~potPaid /\ share[turn] # "taken"
        /\ opening[turn] \in Nat /\ ours[turn] \in Nat
        /\ channels[turn] \in Nat /\ pending[turn] \in Nat
    BY DEF TandaInv, TypeOK, ProgramTypeOK, NetworkTypeOK, HistoryTypeOK, SharesAt
  <2>2. ~HasWon(turn) /\ RoundsOver \in Nat
    BY <2>1 DEF HasWon, RoundsOver, Participant
  <2>3. Holdings[turn] = opening[turn] + (RoundsOver + 0) * Contribution - 0
    BY <2>1, <2>2 DEF TandaInv, Accounts, Opened, InRound
  <2>4. channels[turn] > 0 /\ opening[turn] >= Brought(turn)
    BY <2>1 DEF TandaInv, Whole, Asked, Opened, InRound
  <2> DEFINE shares == (RoundsOver + 0) * Contribution
             waiting == pending[turn] * OurOpening
             usable == channels[turn] * OurOpening
  <2>5. shares \in Nat /\ waiting \in Nat /\ usable \in Nat /\ usable >= OurOpening
    <3>1. shares \in Nat
      <4>1. RoundsOver + 0 \in Nat
        BY <2>2
      <4> QED
        BY <4>1, Amounts, AccountsAfter
    <3> QED
      BY <2>1, <2>4, <3>1, Openings
  <2>6. Brought(turn) = usable + waiting
    <3>1. (channels[turn] + pending[turn]) * OurOpening
            = channels[turn] * OurOpening + pending[turn] * OurOpening
      BY <2>1, Amounts
    <3> QED
      BY <3>1 DEF Brought
  <2>7. Holdings[turn] = ours[turn] + waiting /\ Holdings[turn] = opening[turn] + shares
    <3>1. opening[turn] + shares - 0 = opening[turn] + shares
      BY <2>1, <2>5
    <3> QED
      BY <2>1, <2>3, <3>1 DEF Holdings
  <2> HIDE DEF shares, waiting, usable
  <2>8. ours[turn] >= OurOpening
    BY <2>1, <2>4, <2>5, <2>6, <2>7, Amounts
  <2> QED
    BY <2>1, <2>8, Amounts DEF PotFits
<1> QED
  BY TandaInvariant, <1>1, PTL

(***************************************************************************)
(* At most one pot per start of the program is missing from what the       *)
(* coordinator brought into the channels, whatever failed and wherever.    *)
(***************************************************************************)
THEOREM ExposureBoundedCorrect == Spec => []ExposureBounded
<1>1. TandaInv => ExposureBounded
  BY DEF TandaInv, MissingSoFar, ExposureBounded
<1> QED
  BY TandaInvariant, <1>1, PTL

(***************************************************************************)
(* A tanda that ran to the end, or to the end of a cycle, has moved        *)
(* nothing between the coordinator and anybody: a pot is N contributions.  *)
(***************************************************************************)
THEOREM CycleIsNeutralCorrect == Spec => []CycleIsNeutral
<1>1. TandaInv => CycleIsNeutral
  <2> SUFFICES ASSUME TandaInv, ~single,
                      pc \in {"over", "declined"} \/ (pc = "renew" /\ next = 0)
               PROVE  Holdings = opening
    BY DEF CycleIsNeutral
  <2>1. /\ Holdings \in [Participant -> Nat] /\ opening \in [Participant -> Nat]
        /\ turn \in Participant
    BY HoldingsType DEF TandaInv, TypeOK, ProgramTypeOK, HistoryTypeOK
  <2>2. CASE pc = "over"
    <3>1. turn = N - 1 /\ potPaid /\ \A p \in Participant : share[p] = "taken"
      BY <2>2 DEF TandaInv, LoopsAt, SharesAt, InRound
    <3>2. RoundsOver + 1 = N /\ \A p \in Participant : HasWon(p)
      BY <3>1 DEF RoundsOver, HasWon, Participant
    <3>3. \A p \in Participant :
            Holdings[p] = opening[p] + (RoundsOver + 1) * Contribution - Pot
      BY <2>2, <3>1, <3>2 DEF TandaInv, Accounts, Opened, InRound
    <3>4. (RoundsOver + 1) * Contribution = Pot
      BY <3>2 DEF Pot
    <3>5. \A p \in Participant : Holdings[p] = opening[p]
      BY <2>1, <3>3, <3>4, Amounts
    <3> QED
      BY <2>1, <3>5
  <2>3. CASE pc \in {"declined", "renew"}
    <3>1. turn = 0 /\ ~potPaid /\ \A p \in Participant : share[p] = "free"
      BY <2>3 DEF TandaInv, LoopsAt, SharesAt
    <3>2. RoundsOver = 0 /\ \A p \in Participant : ~HasWon(p)
      BY <3>1 DEF RoundsOver, HasWon, Participant
    <3>3. \A p \in Participant :
            Holdings[p] = opening[p] + (0 + 0) * Contribution - 0
      BY <2>3, <3>1, <3>2 DEF TandaInv, Accounts, Opened, InRound
    <3>4. \A p \in Participant : Holdings[p] = opening[p]
      BY <2>1, <3>3, Amounts
    <3> QED
      BY <2>1, <3>4
  <2> QED
    BY <2>2, <2>3
<1> QED
  BY TandaInvariant, <1>1, PTL

(***************************************************************************)
(* A label is new to the winner's node throughout the first start,         *)
(* whatever the number of participants and cycles.                         *)
(***************************************************************************)
THEOREM LabelsFreshCorrect == Spec => []LabelsFresh
<1>1. TandaInv => LabelsFresh
  <2> SUFFICES ASSUME TandaInv, starts = 1, pc = "createPot", Label \in labels[turn]
               PROVE  FALSE
    BY DEF LabelsFresh
  <2>1. turn \in Participant /\ Label \in Nat
    BY LabelType DEF TandaInv, TypeOK, ProgramTypeOK
  <2> QED
    BY <2>1 DEF TandaInv, LabelsSoFar, NotLabelled
<1> QED
  BY TandaInvariant, <1>1, PTL

(***************************************************************************)
(* No round is paid twice, for any number of participants, cycles and      *)
(* starts of the program.                                                  *)
(***************************************************************************)
THEOREM EachRoundPaidOnceCorrect == Spec => EachRoundPaidOnce
<1>1. TandaInv /\ [Next]_vars => [potPaid' /\ ~potPaid => Label \notin paidRounds]_vars
  <2> SUFFICES ASSUME TandaInv, Next, potPaid', ~potPaid
               PROVE  Label \notin paidRounds
    OBVIOUS
  <2>1. pc = "payPot"
    <3>1. CASE \E q \in Participant : NodeStep(q)
      BY <3>1, NodeStepFrame DEF TandaInv
    <3>2. CASE ~\E q \in Participant : NodeStep(q)
      BY <3>2
      DEF Next, MainStep, Start, NewRound, OpenChannel, WaitChannels, Renew, Dispatch,
          AllAccepted, CreatePot, PayPot, Settle, RoundEnd, Abort, Finished, vars, round,
          Exchange!Take
    <3> QED
      BY <3>1, <3>2
  <2> QED
    BY <2>1 DEF TandaInv, PaidAreLabelled
<1> QED
  BY TandaInvariant, <1>1, PTL DEF Spec, EachRoundPaidOnce

==============================================================================
