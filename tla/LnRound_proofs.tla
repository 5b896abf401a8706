--------------------------- MODULE LnRound_proofs ---------------------------
(***************************************************************************)
(* Proofs about one round, for every number of participants and every set  *)
(* of failures.                                                            *)
(***************************************************************************)
EXTENDS LnRound, TLAPS

USE NAssumption, FaultsAssumption DEF Participant, Locked

LEMMA InitRoundInv == Init => RoundInv
<1> SUFFICES ASSUME Init PROVE RoundInv
  OBVIOUS
<1>1. TypeOK
  BY DEF Init, TypeOK, Statement, Ended, HoldState, PayState, FutState, PotState
<1>2. PluginHoldsHtlc
  BY DEF Init, PluginHoldsHtlc
<1>3. SharesOnlyForPot /\ SharesTakenInOrder /\ NoFalseConfirmation
  BY DEF Init, SharesOnlyForPot, SharesTakenInOrder, NoFalseConfirmation
<1>4. CoordinatorKnows
  BY DEF Init, CoordinatorKnows
<1> QED
  BY <1>1, <1>2, <1>3, <1>4 DEF RoundInv

(***************************************************************************)
(* Where the coordinator can be after a step of its control.               *)
(***************************************************************************)
LEMMA RaiseType ==
  ASSUME TypeOK, pc \in Statement, Raise
  PROVE  /\ pc' \in Statement \cup Ended
         /\ idx' \in Participant
         /\ failedAt' \in Statement \cup {"nowhere"}
         /\ errors' \subseteq Participant
BY DEF TypeOK, Raise, Ended

LEMMA GotoType ==
  ASSUME TypeOK, NEW s \in Statement \cup Ended, Goto(s)
  PROVE  /\ pc' \in Statement \cup Ended
         /\ idx' \in Participant
         /\ failedAt' \in Statement \cup {"nowhere"}
         /\ errors' \subseteq Participant
BY DEF TypeOK, Goto

LEMMA LoopTurnType ==
  ASSUME TypeOK, NEW s \in Statement \cup Ended, LoopTurn(s)
  PROVE  /\ pc' \in Statement \cup Ended
         /\ idx' \in Participant
BY DEF TypeOK, LoopTurn

(***************************************************************************)
(* Every step keeps the type invariant.                                    *)
(***************************************************************************)
LEMMA NextTypeOK == TypeOK /\ [Next]_vars => TypeOK'
<1> SUFFICES ASSUME TypeOK, [Next]_vars PROVE TypeOK'
  OBVIOUS
<1> USE DEF HoldState, PayState, FutState, PotState, coordinator
<1>0. /\ {"invoices", "wait", "createPot", "payPot", "payingPot", "settle",
           "collect", "report", "dispatch"} \subseteq Statement
      /\ "done" \in Ended
  BY DEF Statement, Ended
<1>1. CASE CreateHoldInvoice
  <2>1. hold' \in [Participant -> HoldState]
    BY <1>1 DEF CreateHoldInvoice, TypeOK
  <2>2. CASE LoopTurn("dispatch") /\ UNCHANGED <<failedAt, errors>>
    BY <1>0, <1>1, <2>1, <2>2, LoopTurnType DEF CreateHoldInvoice, TypeOK
  <2>3. CASE Raise
    BY <1>0, <1>1, <2>1, <2>3, RaiseType DEF CreateHoldInvoice, TypeOK
  <2> QED
    BY <1>1, <2>2, <2>3 DEF CreateHoldInvoice
<1>2. CASE Dispatch
  BY <1>0, <1>2, GotoType DEF Dispatch, TypeOK
<1>3. CASE PollAllAccepted
  BY <1>0, <1>3, GotoType DEF PollAllAccepted, TypeOK
<1>4. CASE WaitFails
  BY <1>0, <1>4, RaiseType DEF WaitFails, TypeOK
<1>5. CASE CreatePotInvoice
  <2>1. CASE Goto("payPot")
    BY <1>0, <1>5, <2>1, GotoType DEF CreatePotInvoice, TypeOK
  <2>2. CASE Raise
    BY <1>0, <1>5, <2>2, RaiseType DEF CreatePotInvoice, TypeOK
  <2> QED
    BY <1>5, <2>1, <2>2 DEF CreatePotInvoice
<1>6. CASE PayPot
  BY <1>0, <1>6, GotoType DEF PayPot, TypeOK
<1>7. CASE PotPayReturns
  BY <1>0, <1>7, GotoType DEF PotPayReturns, TypeOK
<1>8. CASE PotPayRaises
  BY <1>0, <1>8, RaiseType DEF PotPayRaises, TypeOK
<1>9. CASE Settle
  <2>1. /\ hold' \in [Participant -> HoldState]
        /\ pay' \in [Participant -> PayState]
        /\ fut' \in [Participant -> FutState]
        /\ pot' \in PotState
    BY <1>9 DEF Settle, TypeOK
  <2>2. CASE LoopTurn("collect") /\ UNCHANGED <<failedAt, errors>>
    BY <1>0, <2>1, <2>2, LoopTurnType DEF TypeOK
  <2>3. CASE Raise
    BY <1>0, <1>9, <2>1, <2>3, RaiseType DEF Settle, TypeOK
  <2> QED
    BY <1>9, <2>2, <2>3 DEF Settle
<1>10. CASE CollectResult
  <2>1. errors' \subseteq Participant
    BY <1>10 DEF CollectResult, TypeOK
  <2> QED
    BY <1>0, <1>10, <2>1, LoopTurnType DEF CollectResult, TypeOK
<1>11. CASE Report
  <2>1. CASE Goto("done")
    BY <1>0, <1>11, <2>1, GotoType DEF Report, TypeOK
  <2>2. CASE Raise
    BY <1>0, <1>11, <2>2, RaiseType DEF Report, TypeOK
  <2> QED
    BY <1>11, <2>1, <2>2 DEF Report
<1>12. CASE Crash
  BY <1>12 DEF Crash, TypeOK, Ended
<1>13. CASE PotArrives
  BY <1>13 DEF PotArrives, TypeOK
<1>14. ASSUME NEW p \in Participant,
              NodeStep(p) \/ Expire(p) \/ Respond(p) \/ HttpTimeout(p)
       PROVE  TypeOK'
  BY <1>14 DEF NodeStep, Refuse, Offer, Accept, Reject, Remove, Expire,
               Respond, HttpTimeout, TypeOK
<1>15. CASE UNCHANGED vars
  BY <1>15 DEF vars, TypeOK
<1> QED
  BY <1>1, <1>2, <1>3, <1>4, <1>5, <1>6, <1>7, <1>8, <1>9, <1>10, <1>11,
     <1>12, <1>13, <1>14, <1>15
  DEF Next, CoordinatorStep, Finished

(***************************************************************************)
(* The types of the round's state hold in every reachable state.           *)
(***************************************************************************)
THEOREM TypeCorrect == Spec => []TypeOK
<1>1. Init => TypeOK
  BY InitRoundInv DEF RoundInv
<1> QED
  BY <1>1, NextTypeOK, PTL DEF Spec

(***************************************************************************)
(* An HTLC leaves the plugin's hands and the channel in one step.          *)
(***************************************************************************)
LEMMA NextPluginHoldsHtlc == RoundInv /\ [Next]_vars => PluginHoldsHtlc'
<1> SUFFICES ASSUME RoundInv, [Next]_vars PROVE PluginHoldsHtlc'
  OBVIOUS
<1> USE DEF RoundInv, PluginHoldsHtlc, CoordinatorKnows, coordinator, TypeOK
<1>0. TypeOK /\ TypeOK'
  BY NextTypeOK DEF RoundInv
<1>1. CASE CreateHoldInvoice
  BY <1>0, <1>1 DEF CreateHoldInvoice, LoopTurn, Raise
<1>2. CASE Dispatch
  BY <1>0, <1>2 DEF Dispatch, Goto
<1>3. CASE PollAllAccepted
  BY <1>0, <1>3 DEF PollAllAccepted, IncomingHtlcs, Goto
<1>4. CASE WaitFails
  BY <1>0, <1>4 DEF WaitFails, Raise
<1>5. CASE CreatePotInvoice
  BY <1>0, <1>5 DEF CreatePotInvoice, Goto, Raise
<1>6. CASE PayPot
  BY <1>0, <1>6 DEF PayPot, Goto
<1>7. CASE PotPayReturns
  BY <1>0, <1>7 DEF PotPayReturns, Goto
<1>8. CASE PotPayRaises
  BY <1>0, <1>8 DEF PotPayRaises, Raise
<1>9. CASE Settle
  BY <1>0, <1>9 DEF Settle, LoopTurn, Raise
<1>10. CASE CollectResult
  BY <1>0, <1>10 DEF CollectResult, LoopTurn
<1>11. CASE Report
  BY <1>0, <1>11 DEF Report, Goto, Raise
<1>12. CASE Crash
  BY <1>0, <1>12 DEF Crash
<1>13. CASE PotArrives
  BY <1>0, <1>13 DEF PotArrives
<1>14. ASSUME NEW q \in Participant,
              NodeStep(q) \/ Expire(q) \/ Respond(q) \/ HttpTimeout(q)
       PROVE  PluginHoldsHtlc'
  BY <1>0, <1>14 DEF NodeStep, Refuse, Offer, Accept, Reject, Remove,
                      Expire, Respond, HttpTimeout
<1>15. CASE UNCHANGED vars
  BY <1>15 DEF vars
<1> QED
  BY <1>1, <1>2, <1>3, <1>4, <1>5, <1>6, <1>7, <1>8, <1>9,
     <1>10, <1>11, <1>12, <1>13, <1>14, <1>15
  DEF Next, CoordinatorStep, Finished

(***************************************************************************)
(* No step takes a share before the pot is paid, and none sends a pot when *)
(* a participant's HTLC was never in a channel.                            *)
(***************************************************************************)
LEMMA NextSharesOnlyForPot == RoundInv /\ [Next]_vars => SharesOnlyForPot'
<1> SUFFICES ASSUME RoundInv, [Next]_vars PROVE SharesOnlyForPot'
  OBVIOUS
<1> USE DEF RoundInv, SharesOnlyForPot, PluginHoldsHtlc, CoordinatorKnows,
            coordinator, TypeOK
<1>0. TypeOK /\ TypeOK'
  BY NextTypeOK DEF RoundInv
<1>1. CASE CreateHoldInvoice
  BY <1>0, <1>1 DEF CreateHoldInvoice, LoopTurn, Raise
<1>2. CASE Dispatch
  BY <1>0, <1>2 DEF Dispatch, Goto
<1>3. CASE PollAllAccepted
  BY <1>0, <1>3 DEF PollAllAccepted, IncomingHtlcs, Goto
<1>4. CASE WaitFails
  BY <1>0, <1>4 DEF WaitFails, Raise
<1>5. CASE CreatePotInvoice
  BY <1>0, <1>5 DEF CreatePotInvoice, Goto, Raise
<1>6. CASE PayPot
  BY <1>0, <1>6 DEF PayPot, Goto
<1>7. CASE PotPayReturns
  BY <1>0, <1>7 DEF PotPayReturns, Goto
<1>8. CASE PotPayRaises
  BY <1>0, <1>8 DEF PotPayRaises, Raise
<1>9. CASE Settle
  BY <1>0, <1>9 DEF SharesTakenInOrder, Settle, LoopTurn, Raise
<1>10. CASE CollectResult
  BY <1>0, <1>10 DEF CollectResult, LoopTurn
<1>11. CASE Report
  BY <1>0, <1>11 DEF Report, Goto, Raise
<1>12. CASE Crash
  BY <1>0, <1>12 DEF Crash, Statement
<1>13. CASE PotArrives
  BY <1>0, <1>13 DEF PotArrives
<1>14. ASSUME NEW q \in Participant,
              NodeStep(q) \/ Expire(q) \/ Respond(q) \/ HttpTimeout(q)
       PROVE  SharesOnlyForPot'
  BY <1>0, <1>14 DEF NodeStep, Refuse, Offer, Accept, Reject, Remove,
                      Expire, Respond, HttpTimeout
<1>15. CASE UNCHANGED vars
  BY <1>15 DEF vars
<1> QED
  BY <1>1, <1>2, <1>3, <1>4, <1>5, <1>6, <1>7, <1>8, <1>9,
     <1>10, <1>11, <1>12, <1>13, <1>14, <1>15
  DEF Next, CoordinatorStep, Finished

(***************************************************************************)
(* The settle loop takes the shares one by one, and is left towards the    *)
(* results only when it took them all.                                     *)
(***************************************************************************)
LEMMA NextSharesTakenInOrder == RoundInv /\ [Next]_vars => SharesTakenInOrder'
<1> SUFFICES ASSUME RoundInv, [Next]_vars PROVE SharesTakenInOrder'
  OBVIOUS
<1> USE DEF RoundInv, SharesTakenInOrder, PluginHoldsHtlc,
            CoordinatorKnows, coordinator, TypeOK
<1>0. TypeOK /\ TypeOK'
  BY NextTypeOK DEF RoundInv
<1>1. CASE CreateHoldInvoice
  BY <1>0, <1>1 DEF CreateHoldInvoice, LoopTurn, Raise
<1>2. CASE Dispatch
  BY <1>0, <1>2 DEF Dispatch, Goto
<1>3. CASE PollAllAccepted
  BY <1>0, <1>3 DEF PollAllAccepted, IncomingHtlcs, Goto
<1>4. CASE WaitFails
  BY <1>0, <1>4 DEF WaitFails, Raise
<1>5. CASE CreatePotInvoice
  BY <1>0, <1>5 DEF CreatePotInvoice, Goto, Raise
<1>6. CASE PayPot
  BY <1>0, <1>6 DEF PayPot, Goto
<1>7. CASE PotPayReturns
  BY <1>0, <1>7 DEF PotPayReturns, Goto
<1>8. CASE PotPayRaises
  BY <1>0, <1>8 DEF PotPayRaises, Raise
<1>9. CASE Settle
  BY <1>0, <1>9 DEF Settle, LoopTurn, Raise
<1>10. CASE CollectResult
  BY <1>0, <1>10 DEF CollectResult, LoopTurn
<1>11. CASE Report
  BY <1>0, <1>11 DEF Report, Goto, Raise
<1>12. CASE Crash
  BY <1>0, <1>12 DEF Crash, Statement
<1>13. CASE PotArrives
  BY <1>0, <1>13 DEF PotArrives
<1>14. ASSUME NEW q \in Participant,
              NodeStep(q) \/ Expire(q) \/ Respond(q) \/ HttpTimeout(q)
       PROVE  SharesTakenInOrder'
  BY <1>0, <1>14 DEF NodeStep, Refuse, Offer, Accept, Reject, Remove,
                      Expire, Respond, HttpTimeout
<1>15. CASE UNCHANGED vars
  BY <1>15 DEF vars
<1> QED
  BY <1>1, <1>2, <1>3, <1>4, <1>5, <1>6, <1>7, <1>8, <1>9,
     <1>10, <1>11, <1>12, <1>13, <1>14, <1>15
  DEF Next, CoordinatorStep, Finished

(***************************************************************************)
(* Only the end of a payment that was taken makes a result "ok".           *)
(***************************************************************************)
LEMMA NextNoFalseConfirmation == RoundInv /\ [Next]_vars => NoFalseConfirmation'
<1> SUFFICES ASSUME RoundInv, [Next]_vars PROVE NoFalseConfirmation'
  OBVIOUS
<1> USE DEF RoundInv, NoFalseConfirmation, CoordinatorKnows, coordinator, TypeOK
<1>0. TypeOK /\ TypeOK'
  BY NextTypeOK DEF RoundInv
<1>1. CASE CreateHoldInvoice
  BY <1>0, <1>1 DEF CreateHoldInvoice, LoopTurn, Raise
<1>2. CASE Dispatch
  BY <1>0, <1>2 DEF Dispatch, Goto
<1>3. CASE PollAllAccepted
  BY <1>0, <1>3 DEF PollAllAccepted, IncomingHtlcs, Goto
<1>4. CASE WaitFails
  BY <1>0, <1>4 DEF WaitFails, Raise
<1>5. CASE CreatePotInvoice
  BY <1>0, <1>5 DEF CreatePotInvoice, Goto, Raise
<1>6. CASE PayPot
  BY <1>0, <1>6 DEF PayPot, Goto
<1>7. CASE PotPayReturns
  BY <1>0, <1>7 DEF PotPayReturns, Goto
<1>8. CASE PotPayRaises
  BY <1>0, <1>8 DEF PotPayRaises, Raise
<1>9. CASE Settle
  BY <1>0, <1>9 DEF Settle, LoopTurn, Raise
<1>10. CASE CollectResult
  BY <1>0, <1>10 DEF CollectResult, LoopTurn
<1>11. CASE Report
  BY <1>0, <1>11 DEF Report, Goto, Raise
<1>12. CASE Crash
  BY <1>0, <1>12 DEF Crash, Statement
<1>13. CASE PotArrives
  BY <1>0, <1>13 DEF PotArrives
<1>14. ASSUME NEW q \in Participant,
              NodeStep(q) \/ Expire(q) \/ Respond(q) \/ HttpTimeout(q)
       PROVE  NoFalseConfirmation'
  BY <1>0, <1>14 DEF NodeStep, Refuse, Offer, Accept, Reject, Remove,
                      Expire, Respond, HttpTimeout
<1>15. CASE UNCHANGED vars
  BY <1>15 DEF vars
<1> QED
  BY <1>1, <1>2, <1>3, <1>4, <1>5, <1>6, <1>7, <1>8, <1>9,
     <1>10, <1>11, <1>12, <1>13, <1>14, <1>15
  DEF Next, CoordinatorStep, Finished

(***************************************************************************)
(* Each statement hands the next one what it relies on, while the nodes    *)
(* move.                                                                   *)
(***************************************************************************)
LEMMA NextCoordinatorKnows == RoundInv /\ [Next]_vars => CoordinatorKnows'
<1> SUFFICES ASSUME RoundInv, [Next]_vars PROVE CoordinatorKnows'
  OBVIOUS
<1> USE DEF RoundInv, NoFalseConfirmation, PluginHoldsHtlc,
            SharesOnlyForPot, CoordinatorKnows, coordinator, TypeOK
<1>0. TypeOK /\ TypeOK'
  BY NextTypeOK DEF RoundInv
<1>1. CASE CreateHoldInvoice
  BY <1>0, <1>1 DEF CreateHoldInvoice, LoopTurn, Raise
<1>2. CASE Dispatch
  BY <1>0, <1>2 DEF Dispatch, Goto
<1>3. CASE PollAllAccepted
  BY <1>0, <1>3 DEF PollAllAccepted, IncomingHtlcs, Goto
<1>4. CASE WaitFails
  BY <1>0, <1>4 DEF WaitFails, Raise
<1>5. CASE CreatePotInvoice
  BY <1>0, <1>5 DEF CreatePotInvoice, Goto, Raise
<1>6. CASE PayPot
  BY <1>0, <1>6 DEF PayPot, Goto
<1>7. CASE PotPayReturns
  BY <1>0, <1>7 DEF PotPayReturns, Goto
<1>8. CASE PotPayRaises
  BY <1>0, <1>8 DEF PotPayRaises, Raise
<1>9. CASE Settle
  BY <1>0, <1>9 DEF Settle, LoopTurn, Raise
<1>10. CASE CollectResult
  BY <1>0, <1>10 DEF CollectResult, LoopTurn
<1>11. CASE Report
  BY <1>0, <1>11 DEF Report, Goto, Raise
<1>12. CASE Crash
  BY <1>0, <1>12 DEF Crash, Statement
<1>13. CASE PotArrives
  BY <1>0, <1>13 DEF PotArrives
<1>14. ASSUME NEW q \in Participant,
              NodeStep(q) \/ Expire(q) \/ Respond(q) \/ HttpTimeout(q)
       PROVE  CoordinatorKnows'
  BY <1>0, <1>14 DEF NodeStep, Refuse, Offer, Accept, Reject, Remove,
                      Expire, Respond, HttpTimeout
<1>15. CASE UNCHANGED vars
  BY <1>15 DEF vars
<1> QED
  BY <1>1, <1>2, <1>3, <1>4, <1>5, <1>6, <1>7, <1>8, <1>9,
     <1>10, <1>11, <1>12, <1>13, <1>14, <1>15
  DEF Next, CoordinatorStep, Finished

(***************************************************************************)
(* RoundInv is an invariant of the round.                                  *)
(***************************************************************************)
THEOREM RoundInvariant == Spec => []RoundInv
<1>1. RoundInv /\ [Next]_vars => RoundInv'
  BY NextTypeOK, NextPluginHoldsHtlc, NextSharesOnlyForPot,
     NextSharesTakenInOrder, NextNoFalseConfirmation, NextCoordinatorKnows
  DEF RoundInv
<1> QED
  BY <1>1, InitRoundInv, PTL DEF Spec

(***************************************************************************)
(* For every number of participants and whatever fails: a share is taken   *)
(* only after the winner has the pot, and the pot leaves only after every  *)
(* participant's HTLC was in a channel, returned since or not.             *)
(***************************************************************************)
THEOREM SharesOnlyForPotCorrect == Spec => []SharesOnlyForPot
BY RoundInvariant, PTL DEF RoundInv

(***************************************************************************)
(* Where the round stopped tells which shares the coordinator has, for     *)
(* every number of participants and whatever fails.                        *)
(***************************************************************************)
THEOREM SharesTakenInOrderCorrect == Spec => []SharesTakenInOrder
BY RoundInvariant, PTL DEF RoundInv

(***************************************************************************)
(* A result the coordinator believes is a payment it received.             *)
(***************************************************************************)
THEOREM NoFalseConfirmationCorrect == Spec => []NoFalseConfirmation
BY RoundInvariant, PTL DEF RoundInv

(***************************************************************************)
(* What a step does to the share of a participant, and that a step which   *)
(* changes none of them and leaves the pot alone is a stuttering one.      *)
(***************************************************************************)
LEMMA SameShares ==
  ASSUME \A p \in Participant : ShareOf(p)' = ShareOf(p),
         (pot = "paid") <=> (pot' = "paid")
  PROVE  UNCHANGED Exchange!vars
BY DEF Exchange!vars

LEMMA OneShare ==
  ASSUME NEW q \in Participant, NEW s,
         ShareOf(q)' = s,
         \A p \in Participant \ {q} : ShareOf(p)' = ShareOf(p)
  PROVE  [p \in Participant |-> ShareOf(p)]'
           = [[p \in Participant |-> ShareOf(p)] EXCEPT ![q] = s]
OBVIOUS

(***************************************************************************)
(* Every step of the round is a step of the exchange, or changes nothing   *)
(* that the exchange speaks of.                                            *)
(***************************************************************************)
LEMMA NextRefines ==
  RoundInv /\ RoundInv' /\ [Next]_vars => [Exchange!Next]_(Exchange!vars)
<1> SUFFICES ASSUME RoundInv, RoundInv', [Next]_vars
             PROVE  [Exchange!Next]_(Exchange!vars)
  OBVIOUS
<1> USE DEF coordinator
<1>0. TypeOK /\ TypeOK'
  BY DEF RoundInv
<1>1. CASE UNCHANGED <<pay, pot>>
  BY <1>1, SameShares DEF ShareOf
<1>2. CASE Dispatch
  <2>1. \A p \in Participant : pay[p] = "idle" /\ pay'[p] = "requested"
    BY <1>2 DEF Dispatch, RoundInv, CoordinatorKnows
  <2>2. \A p \in Participant : ShareOf(p)' = ShareOf(p)
    BY <2>1 DEF ShareOf
  <2> QED
    BY <1>2, <2>2, SameShares DEF Dispatch
<1>3. CASE PayPot
  BY <1>3, SameShares DEF PayPot, ShareOf, RoundInv, CoordinatorKnows
<1>4. CASE Settle
  <2>1. CASE hold[idx] # "ACCEPTED"
    BY <1>1, <1>4, <2>1 DEF Settle
  <2>2. CASE hold[idx] = "ACCEPTED"
    <3>1. pot = "paid" /\ idx \in Participant /\ pay[idx] = "held"
      BY <1>0, <1>4, <2>2
      DEF Settle, RoundInv, SharesTakenInOrder, PluginHoldsHtlc, TypeOK
    <3>2. ShareOf(idx) = "locked" /\ pot' = pot
      BY <1>4, <3>1 DEF ShareOf, Settle
    <3>3. pay' = [pay EXCEPT ![idx] = "fulfilled"]
      BY <1>4, <2>2 DEF Settle
    <3>4. /\ pay'[idx] = "fulfilled"
          /\ \A p \in Participant \ {idx} : pay'[p] = pay[p]
      BY <1>0, <3>1, <3>3 DEF TypeOK
    <3>5. \A p \in Participant \ {idx} : ShareOf(p)' = ShareOf(p)
      BY <3>4 DEF ShareOf
    <3>6. [p \in Participant |-> ShareOf(p)]'
            = [[p \in Participant |-> ShareOf(p)] EXCEPT ![idx] = "taken"]
      <4> DEFINE after == [p \in Participant |-> IF pay'[p] = "fulfilled"
                                                 THEN "taken" ELSE ShareOf(p)]
      <4> QED
        BY <3>1, <3>4, <3>5 DEF ShareOf
    <3>7. Exchange!Take(idx)
      BY <3>1, <3>2, <3>6 DEF Exchange!Take
    <3> QED
      BY <3>1, <3>7 DEF Exchange!Next
  <2> QED
    BY <2>1, <2>2
<1>5. CASE PotArrives
  <2>1. \A p \in Participant : ShareOf(p)' = ShareOf(p)
    BY <1>5 DEF PotArrives, ShareOf
  <2>2. CASE pot' = "rejected"
    BY <1>5, <2>1, <2>2, SameShares DEF PotArrives
  <2>3. CASE pot' = "paid"
    <3>1. \A p \in Participant : ShareOf(p) \in {"locked", "returned"}
      BY <1>5, <2>3 DEF PotArrives, ShareOf, RoundInv, SharesOnlyForPot
    <3>2. Exchange!PayPot
      BY <1>5, <2>1, <2>3, <3>1 DEF PotArrives, Exchange!PayPot
    <3> QED
      BY <3>2 DEF Exchange!Next
  <2> QED
    BY <1>5, <2>2, <2>3 DEF PotArrives
<1>6. ASSUME NEW q \in Participant, NodeStep(q) \/ Expire(q)
      PROVE  [Exchange!Next]_(Exchange!vars)
  <2>1. pot' = pot
    BY <1>6 DEF NodeStep, Refuse, Offer, Accept, Reject, Remove, Expire
  <2>2. \A p \in Participant \ {q} : ShareOf(p)' = ShareOf(p)
    BY <1>0, <1>6
    DEF NodeStep, Refuse, Offer, Accept, Reject, Remove, Expire, ShareOf, TypeOK
  <2>3. CASE Refuse(q)
    <3>1. ShareOf(q) = "free" /\ ShareOf(q)' = "refused"
      BY <1>0, <2>3 DEF Refuse, ShareOf, TypeOK
    <3>2. Exchange!Refuse(q)
      BY <2>1, <2>2, <3>1, OneShare DEF Exchange!Refuse
    <3> QED
      BY <3>2 DEF Exchange!Next
  <2>4. CASE Offer(q)
    <3>1. ShareOf(q) = "free" /\ ShareOf(q)' = "locked"
      BY <1>0, <2>4 DEF Offer, ShareOf, TypeOK
    <3>2. Exchange!Lock(q)
      BY <2>1, <2>2, <3>1, OneShare DEF Exchange!Lock
    <3> QED
      BY <3>2 DEF Exchange!Next
  <2>5. CASE Accept(q) \/ Reject(q) \/ Expire(q)
    <3>1. ShareOf(q)' = ShareOf(q)
      BY <1>0, <2>5 DEF Accept, Reject, Expire, ShareOf, TypeOK
    <3> QED
      BY <2>1, <2>2, <3>1, SameShares
  <2>6. CASE Remove(q)
    <3>1. ShareOf(q) = "locked" /\ ShareOf(q)' = "returned"
      BY <1>0, <2>6 DEF Remove, ShareOf, TypeOK
    <3>2. Exchange!Return(q)
      BY <2>1, <2>2, <3>1, OneShare DEF Exchange!Return
    <3> QED
      BY <3>2 DEF Exchange!Next
  <2> QED
    BY <1>6, <2>3, <2>4, <2>5, <2>6 DEF NodeStep
<1>7. ASSUME NEW q \in Participant, Respond(q) \/ HttpTimeout(q)
      PROVE  UNCHANGED <<pay, pot>>
  BY <1>7 DEF Respond, HttpTimeout
<1>8. CASE \/ CreateHoldInvoice \/ PollAllAccepted \/ WaitFails
           \/ CreatePotInvoice \/ PotPayReturns \/ PotPayRaises
           \/ CollectResult \/ Report \/ Crash \/ UNCHANGED vars
  BY <1>1, <1>8
  DEF CreateHoldInvoice, PollAllAccepted, WaitFails, CreatePotInvoice,
      PotPayReturns, PotPayRaises, CollectResult, Report, Crash, vars
<1> QED
  BY <1>1, <1>2, <1>3, <1>4, <1>5, <1>6, <1>7, <1>8
  DEF Next, CoordinatorStep, Finished

(***************************************************************************)
(* run_round_ln implements the exchange, for every number of participants  *)
(* and every set of failures.                                              *)
(***************************************************************************)
THEOREM RoundImplementsExchange == Spec => ImplementsExchange
<1>1. Init => Exchange!Init
  BY DEF Init, Exchange!Init, ShareOf
<1> QED
  BY <1>1, NextRefines, RoundInvariant, PTL
  DEF Spec, ImplementsExchange, Exchange!Spec

==============================================================================
