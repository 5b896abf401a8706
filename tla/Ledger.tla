------------------------------- MODULE Ledger --------------------------------
(***************************************************************************)
(* The debt ledger of tanda/ledger.py: the records in memory, the JSON     *)
(* file they are saved to, and a process that may die between any two      *)
(* steps of a save.                                                        *)
(*                                                                         *)
(* No program of the repository calls the ledger.  The caller modelled     *)
(* here may make any call, one at a time, and may make one again that did  *)
(* not return.                                                             *)
(***************************************************************************)
EXTENDS Integers, FiniteSets

CONSTANTS
  N,                  \* participants
  Rounds,             \* indices of the rounds
  Contribution,       \* what a missed round adds to the debt
  Sats,               \* amounts a payment of debt may have
  MaxDebt             \* bound on the debt a behaviour reaches

ASSUME NAssumption == N \in Nat \ {0}
ASSUME RoundsAssumption == IsFiniteSet(Rounds)
ASSUME SatsAssumption == /\ Contribution \in Nat
                         /\ Sats \subseteq Nat
                         /\ MaxDebt \in Nat

Participant == 0 .. N - 1

VARIABLES
  records,            \* the ledger in memory
  disk,               \* "absent", or the file: "torn" (a prefix of it) or "whole"
  file,               \* the records in the file, when it is whole
  pc,                 \* where the process is
  confirmed,          \* history: the records when a call, or the start, last returned
  repeated            \* history: participants whose missed round was recorded again

vars == <<records, disk, file, pc, confirmed, repeated>>

ParticipantRecord == [debt_sats : 0 .. MaxDebt,
                      pot_received : BOOLEAN,
                      rounds_missed : SUBSET Rounds,
                      rounds_paid : SUBSET Rounds]

Records == [Participant -> ParticipantRecord]

Blank == [p \in Participant |->
           [debt_sats |-> 0, pot_received |-> FALSE,
            rounds_missed |-> {}, rounds_paid |-> {}]]

\* "idle"  no call is open            "open", "write", "return"  in _save
\* "down"  the process is dead        "broken"  json.loads raised: no ledger
TypeOK ==
  /\ records \in Records
  /\ disk \in {"absent", "torn", "whole"}
  /\ file \in Records
  /\ pc \in {"idle", "open", "write", "return", "down", "broken"}
  /\ confirmed \in Records
  /\ repeated \subseteq Participant

Init ==
  /\ records = Blank
  /\ disk = "absent"
  /\ file = Blank
  /\ pc = "idle"
  /\ confirmed = Blank
  /\ repeated = {}

------------------------------------------------------------------------------
(* The calls: each changes a record in memory, then saves *)

Call == /\ pc = "idle"
        /\ pc' = "open"
        /\ UNCHANGED <<disk, file, confirmed>>

\* The list of rounds the call finds in memory names the round already.
NoteRepeat(p, r) ==
  repeated' = IF r \in records[p].rounds_missed THEN repeated \cup {p} ELSE repeated

\* A mutant: the round is listed only with a debt that is not the first.
MutRecordMissed(p, r) ==
  /\ Call
  /\ records[p].debt_sats + Contribution <= MaxDebt
  /\ NoteRepeat(p, r)
  /\ records' = [records EXCEPT
       ![p].debt_sats = @ + Contribution,
       ![p].rounds_missed = IF records[p].debt_sats = 0 THEN @ ELSE @ \cup {r}]

\* The debt grows with every call, the list of rounds only with a new round.
RecordMissed(p, r) ==
  /\ Call
  /\ records[p].debt_sats + Contribution <= MaxDebt
  /\ NoteRepeat(p, r)
  /\ records' = [records EXCEPT ![p].debt_sats = @ + Contribution,
                                ![p].rounds_missed = @ \cup {r}]

RecordPaid(p, r) ==
  /\ Call
  /\ UNCHANGED repeated
  /\ records' = [records EXCEPT ![p].rounds_paid = @ \cup {r}]

\* What is paid beyond the debt is not kept.
ApplyPayment(p, sats) ==
  /\ Call
  /\ UNCHANGED repeated
  /\ records' = [records EXCEPT ![p].debt_sats = IF @ > sats THEN @ - sats ELSE 0]

\* is_eligible is not asked.
MarkPotReceived(p) ==
  /\ Call
  /\ UNCHANGED repeated
  /\ records' = [records EXCEPT ![p].pot_received = TRUE]

------------------------------------------------------------------------------
(* _save: write_text empties the file when it opens it; no part of a JSON list parses *)

\* A mutant: the call returns before its save has begun.
MutOpen ==
  /\ pc = "open"
  /\ pc' = "return"
  /\ UNCHANGED <<records, disk, file, confirmed, repeated>>

Open ==
  /\ pc = "open"
  /\ pc' = "write"
  /\ disk' = "torn"
  /\ UNCHANGED <<records, file, confirmed, repeated>>

Write ==
  /\ pc = "write"
  /\ pc' = "return"
  /\ disk' = "whole"
  /\ file' = records
  /\ UNCHANGED <<records, confirmed, repeated>>

Return ==
  /\ pc = "return"
  /\ pc' = "idle"
  /\ confirmed' = records
  /\ UNCHANGED <<records, disk, file, repeated>>

\* The disk is full, or the file cannot be opened: the call raises, and what it
\* changed in memory stays.
SaveRaises ==
  /\ pc \in {"open", "write"}
  /\ pc' = "idle"
  /\ UNCHANGED <<records, disk, file, confirmed, repeated>>

------------------------------------------------------------------------------
(* The process *)

Crash ==
  /\ pc \in {"idle", "open", "write", "return"}
  /\ pc' = "down"
  /\ UNCHANGED <<records, disk, file, confirmed, repeated>>

Recall(saved) ==
  /\ records' = saved
  /\ confirmed' = saved
  /\ pc' = "idle"

\* A mutant: a file that cannot be read is taken for no file.
MutLoad ==
  /\ pc = "down"
  /\ IF disk = "whole" THEN Recall(file) ELSE Recall(Blank)
  /\ UNCHANGED <<disk, file, repeated>>

\* Ledger(n, path): blank records without a file, those of the file, or no ledger.
Load ==
  /\ pc = "down"
  /\ \/ disk = "absent" /\ Recall(Blank)
     \/ disk = "whole" /\ Recall(file)
     \/ disk = "torn" /\ pc' = "broken" /\ UNCHANGED <<records, confirmed>>
  /\ UNCHANGED <<disk, file, repeated>>

------------------------------------------------------------------------------

Calls ==
  \E p \in Participant :
    \/ \E r \in Rounds : RecordPaid(p, r) \/ RecordMissed(p, r)
    \/ \E sats \in Sats : ApplyPayment(p, sats)
    \/ MarkPotReceived(p)

Next == Calls \/ Open \/ Write \/ Return \/ SaveRaises \/ Crash \/ Load

Spec == Init /\ [][Next]_vars

------------------------------------------------------------------------------
(* Properties *)

(***************************************************************************)
(* Nobody owes more than the rounds he missed cost, in memory and in a     *)
(* file that can be read, as long as no round was recorded twice for him.  *)
(* Failed saves and crashes alone never bring debt and rounds apart, nor   *)
(* does a call made again after a crash that lost it; a call made again    *)
(* when memory has the round does: record_missed adds the debt a second    *)
(* time, and the round once.                                               *)
(***************************************************************************)
Explained(record) ==
  record.debt_sats <= Contribution * Cardinality(record.rounds_missed)

DebtMatchesRounds ==
  \A p \in Participant \ repeated :
    /\ Explained(records[p])
    /\ disk = "whole" => Explained(file[p])

(***************************************************************************)
(* A file that can be read holds what the caller was last told is saved,   *)
(* or what is in memory now; it is never a mixture, nor older.             *)
(***************************************************************************)
ConfirmedIsOnDisk ==
  /\ disk = "whole" => file \in {confirmed, records}
  /\ disk = "absent" => confirmed = Blank

(***************************************************************************)
(* No crash and no failed save makes a ledger that still answers forget a  *)
(* pot, a missed round or a paid round it had confirmed: it would rather   *)
(* not start.                                                              *)
(***************************************************************************)
Keeps(older, newer) ==
  \A p \in Participant :
    /\ older[p].pot_received => newer[p].pot_received
    /\ older[p].rounds_missed \subseteq newer[p].rounds_missed
    /\ older[p].rounds_paid \subseteq newer[p].rounds_paid

ConfirmedOnlyGrows == [][Keeps(confirmed, confirmed')]_vars

(***************************************************************************)
(* The inductive invariant: besides the properties, what memory and a      *)
(* readable file hold includes what was confirmed, and only in the window  *)
(* between the write and the return is the file ahead of it.               *)
(***************************************************************************)
LedgerInv ==
  /\ TypeOK
  /\ DebtMatchesRounds
  /\ ConfirmedIsOnDisk
  /\ \A p \in Participant \ repeated : Explained(confirmed[p])
  /\ Keeps(confirmed, records)
  /\ disk = "whole" => Keeps(confirmed, file)
  /\ pc = "return" => disk = "whole" /\ file = records
  /\ pc \notin {"return", "down"} /\ disk = "whole" => file = confirmed
==============================================================================
