---------------------------- MODULE Ledger_proofs ----------------------------
(***************************************************************************)
(* Proofs about the ledger, for every number of participants and rounds,   *)
(* every amount, and every sequence of calls, failed saves and crashes.    *)
(***************************************************************************)
EXTENDS Ledger, FiniteSetTheorems, TLAPS

USE NAssumption, RoundsAssumption, SatsAssumption

\* What each call does to the records: it keeps the types and forgets nothing.
Grown ==
  /\ records' \in Records
  /\ Keeps(records, records')
  /\ repeated \subseteq repeated'
  /\ repeated' \subseteq Participant
  /\ \A q \in Participant \ repeated' : Explained(records'[q])

LEMMA KeepsIsTransitive ==
  ASSUME NEW a, NEW b, NEW c, Keeps(a, b), Keeps(b, c)
  PROVE  Keeps(a, c)
BY DEF Keeps

\* One participant's record: it keeps its history, and explains its debt if it did
\* and no missed round was recorded again.
Grows(q) ==
  /\ records[q].pot_received => records'[q].pot_received
  /\ records[q].rounds_missed \subseteq records'[q].rounds_missed
  /\ records[q].rounds_paid \subseteq records'[q].rounds_paid
  /\ q \notin repeated' /\ Explained(records[q]) => Explained(records'[q])

LEMMA UnchangedGrows ==
  ASSUME NEW q, records'[q] = records[q]
  PROVE  Grows(q)
BY DEF Grows

\* The same missed rounds explain a debt that is no larger.
LEMMA ExplainedByMore ==
  ASSUME NEW a \in ParticipantRecord, NEW b \in ParticipantRecord,
         b.debt_sats <= a.debt_sats, b.rounds_missed = a.rounds_missed, Explained(a)
  PROVE  Explained(b)
<1> DEFINE owed == Contribution * Cardinality(a.rounds_missed)
<1>1. IsFiniteSet(a.rounds_missed) /\ a.debt_sats \in Int /\ b.debt_sats \in Int
  BY FS_Subset DEF ParticipantRecord
<1>2. owed \in Int
  BY <1>1, FS_CardinalityType
<1>3. a.debt_sats <= owed
  BY DEF Explained
<1> HIDE DEF owed
<1>4. b.debt_sats <= owed
  BY <1>1, <1>2, <1>3
<1> QED
  BY <1>4 DEF Explained, owed

LEMMA OneMore ==
  ASSUME NEW k \in Nat
  PROVE  Contribution * (k + 1) = Contribution * k + Contribution
OBVIOUS

LEMMA GrowsEach ==
  ASSUME LedgerInv, records' \in Records,
         repeated \subseteq repeated', repeated' \subseteq Participant,
         \A q \in Participant : Grows(q)
  PROVE  Grown
<1>1. \A q \in Participant \ repeated : Explained(records[q])
  BY DEF LedgerInv, DebtMatchesRounds
<1>2. \A q \in Participant \ repeated' : Explained(records'[q])
  BY <1>1 DEF Grows
<1>3. Keeps(records, records')
  BY DEF Grows, Keeps
<1> QED
  BY <1>2, <1>3 DEF Grown

LEMMA RecordPaidGrows ==
  ASSUME LedgerInv, NEW p \in Participant, NEW r \in Rounds, RecordPaid(p, r)
  PROVE  Grown
<1>1. /\ records[p] \in ParticipantRecord /\ records \in Records
      /\ \A q \in Participant \ {p} : records'[q] = records[q]
  BY DEF RecordPaid, LedgerInv, TypeOK, Records
<1>2. /\ records'[p] =
           [debt_sats |-> records[p].debt_sats,
            pot_received |-> records[p].pot_received,
            rounds_missed |-> records[p].rounds_missed,
            rounds_paid |-> records[p].rounds_paid \cup {r}]
      /\ DOMAIN records' = Participant
      /\ records' = [q \in Participant |-> records'[q]]
  BY <1>1 DEF RecordPaid, Records, ParticipantRecord
<1>3. records'[p] \in ParticipantRecord
  BY <1>1, <1>2 DEF RecordPaid, ParticipantRecord
<1>4. records' \in Records
  BY <1>1, <1>2, <1>3 DEF Records
<1>5. repeated' = repeated /\ repeated \subseteq Participant
  BY DEF RecordPaid, LedgerInv, TypeOK
<1>6. Explained(records[p]) => Explained(records'[p])
  <2>1. records'[p].debt_sats <= records[p].debt_sats
    BY <1>1, <1>2 DEF ParticipantRecord
  <2>2. records'[p].rounds_missed = records[p].rounds_missed
    BY <1>2
  <2> QED
    BY <1>1, <1>3, <2>1, <2>2, ExplainedByMore
<1>7. Grows(p)
  BY <1>1, <1>2, <1>6 DEF Grows, ParticipantRecord
<1>8. \A q \in Participant : Grows(q)
  BY <1>1, <1>7, UnchangedGrows
<1> QED
  BY <1>4, <1>5, <1>8, GrowsEach

LEMMA RecordMissedGrows ==
  ASSUME LedgerInv, NEW p \in Participant, NEW r \in Rounds,
         RecordMissed(p, r)
  PROVE  Grown
<1>1. /\ records[p] \in ParticipantRecord /\ records \in Records
      /\ \A q \in Participant \ {p} : records'[q] = records[q]
  BY DEF RecordMissed, LedgerInv, TypeOK, Records
<1>2. /\ records'[p] =
           [debt_sats |-> records[p].debt_sats + Contribution,
            pot_received |-> records[p].pot_received,
            rounds_missed |-> records[p].rounds_missed \cup {r},
            rounds_paid |-> records[p].rounds_paid]
      /\ DOMAIN records' = Participant
      /\ records' = [q \in Participant |-> records'[q]]
  BY <1>1 DEF RecordMissed, Records, ParticipantRecord
<1>3. records'[p] \in ParticipantRecord
  BY <1>1, <1>2 DEF RecordMissed, ParticipantRecord
<1>4. records' \in Records
  BY <1>1, <1>2, <1>3 DEF Records
<1>5. /\ repeated \subseteq repeated' /\ repeated' \subseteq Participant
      /\ p \notin repeated' => r \notin records[p].rounds_missed
  BY DEF RecordMissed, NoteRepeat, LedgerInv, TypeOK
<1>6. ASSUME p \notin repeated', Explained(records[p])
      PROVE  Explained(records'[p])
  <2> DEFINE k == Cardinality(records[p].rounds_missed)
             debt == records[p].debt_sats
  <2>1. IsFiniteSet(records[p].rounds_missed) /\ debt \in Nat
    BY <1>1, FS_Subset DEF ParticipantRecord
  <2>2. k \in Nat /\ Cardinality(records'[p].rounds_missed) = k + 1
    <3>1. r \notin records[p].rounds_missed
      BY <1>5, <1>6
    <3>2. records'[p].rounds_missed = records[p].rounds_missed \cup {r}
      BY <1>2
    <3> QED
      BY <2>1, <3>1, <3>2, FS_CardinalityType, FS_AddElement
  <2>3. debt <= Contribution * k
    BY <1>6 DEF Explained
  <2>4. records'[p].debt_sats = debt + Contribution
    BY <1>2
  <2> HIDE DEF k, debt
  <2>5. debt + Contribution <= Contribution * (k + 1)
    BY <2>1, <2>2, <2>3, OneMore
  <2> QED
    BY <2>2, <2>4, <2>5 DEF Explained
<1>7. Grows(p)
  BY <1>1, <1>2, <1>6 DEF Grows, ParticipantRecord
<1>8. \A q \in Participant : Grows(q)
  BY <1>1, <1>7, UnchangedGrows
<1> QED
  BY <1>4, <1>5, <1>8, GrowsEach

LEMMA ApplyPaymentGrows ==
  ASSUME LedgerInv, NEW p \in Participant, NEW sats \in Sats, ApplyPayment(p, sats)
  PROVE  Grown
<1>1. /\ records[p] \in ParticipantRecord /\ records \in Records
      /\ \A q \in Participant \ {p} : records'[q] = records[q]
  BY DEF ApplyPayment, LedgerInv, TypeOK, Records
<1>2. /\ records'[p] =
           [debt_sats |-> IF records[p].debt_sats > sats
                            THEN records[p].debt_sats - sats ELSE 0,
            pot_received |-> records[p].pot_received,
            rounds_missed |-> records[p].rounds_missed,
            rounds_paid |-> records[p].rounds_paid]
      /\ DOMAIN records' = Participant
      /\ records' = [q \in Participant |-> records'[q]]
  BY <1>1 DEF ApplyPayment, Records, ParticipantRecord
<1>3. records'[p] \in ParticipantRecord
  BY <1>1, <1>2 DEF ApplyPayment, ParticipantRecord
<1>4. records' \in Records
  BY <1>1, <1>2, <1>3 DEF Records
<1>5. repeated' = repeated /\ repeated \subseteq Participant
  BY DEF ApplyPayment, LedgerInv, TypeOK
<1>6. Explained(records[p]) => Explained(records'[p])
  <2>1. records'[p].debt_sats <= records[p].debt_sats
    BY <1>1, <1>2 DEF ParticipantRecord
  <2>2. records'[p].rounds_missed = records[p].rounds_missed
    BY <1>2
  <2> QED
    BY <1>1, <1>3, <2>1, <2>2, ExplainedByMore
<1>7. Grows(p)
  BY <1>1, <1>2, <1>6 DEF Grows, ParticipantRecord
<1>8. \A q \in Participant : Grows(q)
  BY <1>1, <1>7, UnchangedGrows
<1> QED
  BY <1>4, <1>5, <1>8, GrowsEach

LEMMA MarkPotReceivedGrows ==
  ASSUME LedgerInv, NEW p \in Participant, MarkPotReceived(p)
  PROVE  Grown
<1>1. /\ records[p] \in ParticipantRecord /\ records \in Records
      /\ \A q \in Participant \ {p} : records'[q] = records[q]
  BY DEF MarkPotReceived, LedgerInv, TypeOK, Records
<1>2. /\ records'[p] =
           [debt_sats |-> records[p].debt_sats,
            pot_received |-> TRUE,
            rounds_missed |-> records[p].rounds_missed,
            rounds_paid |-> records[p].rounds_paid]
      /\ DOMAIN records' = Participant
      /\ records' = [q \in Participant |-> records'[q]]
  BY <1>1 DEF MarkPotReceived, Records, ParticipantRecord
<1>3. records'[p] \in ParticipantRecord
  BY <1>1, <1>2 DEF MarkPotReceived, ParticipantRecord
<1>4. records' \in Records
  BY <1>1, <1>2, <1>3 DEF Records
<1>5. repeated' = repeated /\ repeated \subseteq Participant
  BY DEF MarkPotReceived, LedgerInv, TypeOK
<1>6. Explained(records[p]) => Explained(records'[p])
  <2>1. records'[p].debt_sats <= records[p].debt_sats
    BY <1>1, <1>2 DEF ParticipantRecord
  <2>2. records'[p].rounds_missed = records[p].rounds_missed
    BY <1>2
  <2> QED
    BY <1>1, <1>3, <2>1, <2>2, ExplainedByMore
<1>7. Grows(p)
  BY <1>1, <1>2, <1>6 DEF Grows, ParticipantRecord
<1>8. \A q \in Participant : Grows(q)
  BY <1>1, <1>7, UnchangedGrows
<1> QED
  BY <1>4, <1>5, <1>8, GrowsEach

LEMMA CallsKeepInv == LedgerInv /\ Calls => LedgerInv'
<1> SUFFICES ASSUME LedgerInv, Calls PROVE LedgerInv'
  OBVIOUS
<1>1. pc = "idle" /\ pc' = "open" /\ UNCHANGED <<disk, file, confirmed>>
  BY DEF Calls, Call, RecordPaid, RecordMissed, ApplyPayment, MarkPotReceived
<1>2. Grown
  BY RecordPaidGrows, RecordMissedGrows, ApplyPaymentGrows, MarkPotReceivedGrows
  DEF Calls
<1>3. Keeps(confirmed, records')
  BY <1>2, KeepsIsTransitive DEF Grown, LedgerInv
<1>4. TypeOK' /\ repeated \subseteq repeated' /\ \A q \in Participant \ repeated' : Explained(records'[q])
  BY <1>1, <1>2 DEF LedgerInv, TypeOK, Grown
<1>5. disk' = "whole" => file' = confirmed'
  BY <1>1 DEF LedgerInv
<1>6. (\A q \in Participant \ repeated : Explained(confirmed[q]))'
  BY <1>1, <1>4 DEF LedgerInv
<1>7. DebtMatchesRounds' /\ ConfirmedIsOnDisk'
  BY <1>1, <1>4, <1>5, <1>6 DEF LedgerInv, DebtMatchesRounds, ConfirmedIsOnDisk
<1>8. Keeps(confirmed, records)' /\ (disk' = "whole" => Keeps(confirmed, file)')
  BY <1>1, <1>3 DEF LedgerInv, Keeps
<1> QED
  BY <1>1, <1>4, <1>5, <1>6, <1>7, <1>8 DEF LedgerInv

\* Who owes nothing has nothing to explain.
LEMMA BlankExplained == \A p \in Participant : Explained(Blank[p])
BY FS_EmptySet DEF Blank, Explained

(***************************************************************************)
(* Steps of a save and of the process.                                     *)
(***************************************************************************)
LEMMA OthersKeepInv ==
  LedgerInv /\ (Open \/ Write \/ Return \/ SaveRaises \/ Crash \/ Load) => LedgerInv'
<1>0. \A p \in Participant : Explained(Blank[p])
  BY BlankExplained
<1> USE DEF LedgerInv, TypeOK, DebtMatchesRounds, ConfirmedIsOnDisk, Keeps
<1>1. LedgerInv /\ Open => LedgerInv'
  BY DEF Open
<1>2. LedgerInv /\ Write => LedgerInv'
  BY DEF Write
<1>3. LedgerInv /\ Return => LedgerInv'
  BY DEF Return
<1>4. LedgerInv /\ SaveRaises => LedgerInv'
  BY DEF SaveRaises
<1>5. LedgerInv /\ Crash => LedgerInv'
  BY DEF Crash
<1>6. LedgerInv /\ Load => LedgerInv'
  BY <1>0 DEF Load, Recall
<1> QED
  BY <1>1, <1>2, <1>3, <1>4, <1>5, <1>6

LEMMA InitLedgerInv == Init => LedgerInv
<1> SUFFICES ASSUME Init PROVE LedgerInv
  OBVIOUS
<1>1. TypeOK
  BY DEF Init, TypeOK, Records, ParticipantRecord, Blank
<1>2. \A p \in Participant : Explained(records[p]) /\ Explained(confirmed[p])
  BY BlankExplained DEF Init
<1>3. DebtMatchesRounds /\ ConfirmedIsOnDisk /\ Keeps(confirmed, records)
  BY <1>2 DEF Init, DebtMatchesRounds, ConfirmedIsOnDisk, Keeps
<1> QED
  BY <1>1, <1>2, <1>3 DEF Init, LedgerInv

LEMMA NextLedgerInv == LedgerInv /\ [Next]_vars => LedgerInv'
<1>1. LedgerInv /\ UNCHANGED vars => LedgerInv'
  BY DEF vars, LedgerInv, TypeOK, DebtMatchesRounds, ConfirmedIsOnDisk, Keeps
<1> QED
  BY <1>1, CallsKeepInv, OthersKeepInv DEF Next

(***************************************************************************)
(* LedgerInv is an invariant of the ledger: whatever calls are made, in    *)
(* whatever order, and wherever a save fails or the process dies.          *)
(***************************************************************************)
THEOREM LedgerInvariant == Spec => []LedgerInv
BY InitLedgerInv, NextLedgerInv, PTL DEF Spec

(***************************************************************************)
(* Type correctness: no debt is negative, and no file holds anything but   *)
(* records.                                                                *)
(***************************************************************************)
THEOREM TypeCorrect == Spec => []TypeOK
<1>1. LedgerInv => TypeOK
  BY DEF LedgerInv
<1> QED
  BY LedgerInvariant, <1>1, PTL

(***************************************************************************)
(* Nobody owes more than his missed rounds cost, in memory and on disk,    *)
(* unless a round he had missed was recorded again.                        *)
(***************************************************************************)
THEOREM DebtMatchesRoundsCorrect == Spec => []DebtMatchesRounds
<1>1. LedgerInv => DebtMatchesRounds
  BY DEF LedgerInv
<1> QED
  BY LedgerInvariant, <1>1, PTL

(***************************************************************************)
(* A file that can be read is what was confirmed, or what is in memory.    *)
(***************************************************************************)
THEOREM ConfirmedIsOnDiskCorrect == Spec => []ConfirmedIsOnDisk
<1>1. LedgerInv => ConfirmedIsOnDisk
  BY DEF LedgerInv
<1> QED
  BY LedgerInvariant, <1>1, PTL

(***************************************************************************)
(* What was confirmed stays, through every crash and failed save that      *)
(* leaves a ledger to ask.                                                 *)
(***************************************************************************)
THEOREM ConfirmedOnlyGrowsCorrect == Spec => ConfirmedOnlyGrows
<1>1. LedgerInv /\ [Next]_vars => [Keeps(confirmed, confirmed')]_vars
  <2> SUFFICES ASSUME LedgerInv, Next PROVE Keeps(confirmed, confirmed')
    BY DEF vars
  <2>1. confirmed' = confirmed \/ Return \/ Load
    BY DEF Next, Calls, Call, RecordPaid, RecordMissed, ApplyPayment,
           MarkPotReceived, Open, Write, SaveRaises, Crash
  <2>2. CASE confirmed' = confirmed
    BY <2>2 DEF Keeps
  <2>3. CASE Return
    BY <2>3 DEF Return, LedgerInv
  <2>4. CASE Load
    BY <2>4 DEF Load, Recall, LedgerInv, ConfirmedIsOnDisk, Keeps
  <2> QED
    BY <2>1, <2>2, <2>3, <2>4
<1> QED
  BY LedgerInvariant, <1>1, PTL DEF Spec, ConfirmedOnlyGrows
==============================================================================
