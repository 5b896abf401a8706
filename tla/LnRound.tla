------------------------------- MODULE LnRound -------------------------------
(***************************************************************************)
(* One round of the Lightning tanda: run_round_ln of                       *)
(* scripts/run_coordinator_ln.py, the pay_invoice handlers of the          *)
(* participants' APIs that run beside it, and what the code sees of the    *)
(* Lightning nodes: hold invoices, HTLCs and the payment of the pot.       *)
(*                                                                         *)
(* The coordinator is one thread with a program counter; every statement   *)
(* that calls another process is a step.  Each participant's payment and   *)
(* each future of the thread pool moves on its own.                        *)
(***************************************************************************)
EXTENDS Integers

CONSTANTS
  N,                    \* number of participants; participant i pays invoice i
  Faults                \* the failures of the environment a behaviour may show

(***************************************************************************)
(* "crash"       the coordinator's process dies between two statements     *)
(* "expiry"      a held HTLC reaches its CLTV height during the round      *)
(* "reject"      the hold plugin fails an HTLC it was offered              *)
(* "lostAnswer"  an RPC raises although what it asked for is, or will be,  *)
(*               done                                                      *)
(***************************************************************************)
Fault == {"crash", "expiry", "reject", "lostAnswer"}

ASSUME NAssumption == N \in Nat \ {0}
ASSUME FaultsAssumption == Faults \subseteq Fault

Participant == 0 .. N - 1

VARIABLES
  pc,                   \* the statement of run_round_ln that runs next
  idx,                  \* index of the loop the coordinator is in
  failedAt,             \* the statement an exception left the round from
  hold,                 \* state of hold invoice i at the coordinator's plugin
  pay,                  \* progress of participant i's payment of it
  fut,                  \* future of the thread that called participant i
  errors,               \* participants with an entry in the list `errors`
  pot                   \* the coordinator's payment of the pot to the winner

vars == <<pc, idx, failedAt, hold, pay, fut, errors, pot>>
coordinator == <<pc, idx, failedAt, errors>>

Statement == {"invoices", "dispatch", "wait", "createPot", "payPot",
              "payingPot", "settle", "collect", "report"}
Ended == {"done", "raised", "crashed"}
HoldState == {"absent", "UNPAID", "ACCEPTED", "PAID", "CANCELLED"}
PayState == {"idle", "requested", "refused", "offered", "held", "failing",
             "returned", "fulfilled"}
FutState == {"none", "running", "ok", "error"}
PotState == {"unpaid", "inflight", "rejected", "paid"}

\* The HTLC of the payment is in a channel and its amount is the payer's no more.
Locked == {"offered", "held", "failing"}

TypeOK ==
  /\ pc \in Statement \cup Ended
  /\ idx \in Participant
  /\ failedAt \in Statement \cup {"nowhere"}
  /\ hold \in [Participant -> HoldState]
  /\ pay \in [Participant -> PayState]
  /\ fut \in [Participant -> FutState]
  /\ errors \subseteq Participant
  /\ pot \in PotState

Init ==
  /\ pc = "invoices"
  /\ idx = 0
  /\ failedAt = "nowhere"
  /\ hold = [p \in Participant |-> "absent"]
  /\ pay = [p \in Participant |-> "idle"]
  /\ fut = [p \in Participant |-> "none"]
  /\ errors = {}
  /\ pot = "unpaid"

------------------------------------------------------------------------------
(* The coordinator *)

Raise == /\ pc' = "raised"
         /\ failedAt' = pc
         /\ UNCHANGED <<idx, errors>>

Goto(statement) == /\ pc' = statement
                   /\ idx' = 0
                   /\ UNCHANGED <<failedAt, errors>>

\* One turn of a loop over the participants, and the statement behind the loop.
LoopTurn(statement) ==
  IF idx + 1 = N
    THEN /\ pc' = statement
         /\ idx' = 0
    ELSE /\ idx' = idx + 1
         /\ UNCHANGED pc

CreateHoldInvoice ==
  /\ pc = "invoices"
  /\ \/ /\ hold' = [hold EXCEPT ![idx] = "UNPAID"]
        /\ LoopTurn("dispatch")
        /\ UNCHANGED <<failedAt, errors>>
     \/ /\ Raise
        /\ \/ UNCHANGED hold
           \/ "lostAnswer" \in Faults /\ hold' = [hold EXCEPT ![idx] = "UNPAID"]
  /\ UNCHANGED <<pay, fut, pot>>

Dispatch ==
  /\ pc = "dispatch"
  /\ fut' = [p \in Participant |-> "running"]
  /\ pay' = [p \in Participant |-> "requested"]
  /\ Goto("wait")
  /\ UNCHANGED <<hold, pot>>

\* A mutant: the poll counts the payments dispatched, not the HTLCs that arrived.
MutIncomingHtlcs == {p \in Participant : pay[p] # "idle"}

\* get_incoming_htlc_hashes: every incoming HTLC in a channel, in whatever state.
IncomingHtlcs == {p \in Participant : pay[p] \in Locked}

PollAllAccepted ==
  /\ pc = "wait"
  /\ IncomingHtlcs = Participant
  /\ Goto("createPot")
  /\ UNCHANGED <<hold, pay, fut, pot>>

\* A mutant: the deadline counts from the first HTLC.
MutWaitFails ==
  /\ pc = "wait"
  /\ IncomingHtlcs # {}
  /\ Raise
  /\ UNCHANGED <<hold, pay, fut, pot>>

\* The deadline passes, or a poll fails.  HTLCs that arrive during the last
\* sleep are not looked at, so no guard mentions them.
WaitFails ==
  /\ pc = "wait"
  /\ Raise
  /\ UNCHANGED <<hold, pay, fut, pot>>

\* A mutant: the pot is paid while the invoice for it is still being asked for.
MutCreatePotInvoice ==
  /\ pc = "createPot"
  /\ Goto("payPot") \/ Raise
  /\ pot' = "inflight"
  /\ UNCHANGED <<hold, pay, fut>>

\* The winner's node may be down, or refuse a label it has seen before.
CreatePotInvoice ==
  /\ pc = "createPot"
  /\ Goto("payPot") \/ Raise
  /\ UNCHANGED <<hold, pay, fut, pot>>

PayPot ==
  /\ pc = "payPot"
  /\ pot' = "inflight"
  /\ Goto("payingPot")
  /\ UNCHANGED <<hold, pay, fut>>

\* A mutant: the settle loop starts without looking at the result of pay.
MutPotPayReturns ==
  /\ pc = "payingPot"
  /\ Goto("settle")
  /\ UNCHANGED <<hold, pay, fut, pot>>

PotPayReturns ==
  /\ pc = "payingPot"
  /\ pot = "paid"
  /\ Goto("settle")
  /\ UNCHANGED <<hold, pay, fut, pot>>

PotPayRaises ==
  /\ pc = "payingPot"
  /\ pot = "rejected" \/ "lostAnswer" \in Faults
  /\ Raise
  /\ UNCHANGED <<hold, pay, fut, pot>>

\* A mutant: an exception of one settle is swallowed and the loop goes on.
MutSettle ==
  /\ pc = "settle"
  /\ IF hold[idx] = "ACCEPTED"
       THEN /\ hold' = [hold EXCEPT ![idx] = "PAID"]
            /\ pay' = [pay EXCEPT ![idx] = "fulfilled"]
       ELSE UNCHANGED <<hold, pay>>
  /\ LoopTurn("collect")
  /\ UNCHANGED <<failedAt, errors, fut, pot>>

\* The plugin settles only an invoice whose HTLC it holds; it raises otherwise.
Settle ==
  /\ pc = "settle"
  /\ IF hold[idx] = "ACCEPTED"
       THEN /\ hold' = [hold EXCEPT ![idx] = "PAID"]
            /\ pay' = [pay EXCEPT ![idx] = "fulfilled"]
            /\ \/ LoopTurn("collect") /\ UNCHANGED <<failedAt, errors>>
               \/ "lostAnswer" \in Faults /\ Raise
       ELSE Raise /\ UNCHANGED <<hold, pay>>
  /\ UNCHANGED <<fut, pot>>

\* fut.result(timeout=30) raises when the thread failed and when it is still running.
CollectResult ==
  /\ pc = "collect"
  /\ errors' = IF fut[idx] = "ok" THEN errors ELSE errors \cup {idx}
  /\ LoopTurn("report")
  /\ UNCHANGED <<failedAt, hold, pay, fut, pot>>

Report ==
  /\ pc = "report"
  /\ IF errors = {} THEN Goto("done") ELSE Raise
  /\ UNCHANGED <<hold, pay, fut, pot>>

\* The process dies with its thread pool and the preimages it never wrote down.
Crash ==
  /\ "crash" \in Faults
  /\ pc \in Statement
  /\ pc' = "crashed"
  /\ fut' = [p \in Participant |-> "none"]
  /\ UNCHANGED <<idx, failedAt, errors, hold, pay, pot>>

------------------------------------------------------------------------------
(* The participants, their APIs and the nodes *)

\* pay_invoice is never reached, or its node finds no way to pay.
Refuse(p) ==
  /\ pay[p] = "requested"
  /\ pay' = [pay EXCEPT ![p] = "refused"]
  /\ UNCHANGED <<coordinator, hold, fut, pot>>

\* The participant's node pays: an HTLC is in the channel to the coordinator.
Offer(p) ==
  /\ pay[p] = "requested"
  /\ pay' = [pay EXCEPT ![p] = "offered"]
  /\ UNCHANGED <<coordinator, hold, fut, pot>>

\* The plugin takes the HTLC for the invoice it was created for.
Accept(p) ==
  /\ pay[p] = "offered"
  /\ hold[p] = "UNPAID"
  /\ pay' = [pay EXCEPT ![p] = "held"]
  /\ hold' = [hold EXCEPT ![p] = "ACCEPTED"]
  /\ UNCHANGED <<coordinator, fut, pot>>

Reject(p) ==
  /\ "reject" \in Faults
  /\ pay[p] = "offered"
  /\ pay' = [pay EXCEPT ![p] = "failing"]
  /\ UNCHANGED <<coordinator, hold, fut, pot>>

\* Nobody settles before the CLTV height: the HTLC goes back.
Expire(p) ==
  /\ pay[p] = "held"
  /\ pc \in Ended \/ "expiry" \in Faults
  /\ pay' = [pay EXCEPT ![p] = "failing"]
  /\ hold' = [hold EXCEPT ![p] = "CANCELLED"]
  /\ UNCHANGED <<coordinator, fut, pot>>

\* A mutant: the handler is cancelled with its request, and its payment with it.
MutRemove(p) ==
  /\ pay[p] = "failing"
  /\ fut[p] = "running"
  /\ pay' = [pay EXCEPT ![p] = "returned"]
  /\ UNCHANGED <<coordinator, hold, fut, pot>>

\* The channel drops the failed HTLC, and its amount is the payer's again.
Remove(p) ==
  /\ pay[p] = "failing"
  /\ pay' = [pay EXCEPT ![p] = "returned"]
  /\ UNCHANGED <<coordinator, hold, fut, pot>>

\* A mutant: the handler answers before its payment has ended.
MutRespond(p) ==
  /\ fut[p] = "running"
  /\ pay[p] # "requested"
  /\ fut' = [fut EXCEPT ![p] =
               IF pay[p] \in {"refused", "returned"} THEN "error" ELSE "ok"]
  /\ UNCHANGED <<coordinator, hold, pay, pot>>

\* The handler answers with the end of its payment.
Respond(p) ==
  /\ fut[p] = "running"
  /\ pay[p] \in {"refused", "returned", "fulfilled"}
  /\ fut' = [fut EXCEPT ![p] = IF pay[p] = "fulfilled" THEN "ok" ELSE "error"]
  /\ UNCHANGED <<coordinator, hold, pay, pot>>

\* httpx gives up after 120 s.  The handler, and the payment, go on without it.
HttpTimeout(p) ==
  /\ fut[p] = "running"
  /\ fut' = [fut EXCEPT ![p] = "error"]
  /\ UNCHANGED <<coordinator, hold, pay, pot>>

\* The pot's HTLC ends at the winner: accepted or failed, whoever still waits.
PotArrives ==
  /\ pot = "inflight"
  /\ pot' \in {"paid", "rejected"}
  /\ UNCHANGED <<coordinator, hold, pay, fut>>

------------------------------------------------------------------------------

CoordinatorStep ==
  \/ CreateHoldInvoice \/ Dispatch \/ PollAllAccepted \/ WaitFails
  \/ CreatePotInvoice \/ PayPot \/ PotPayReturns \/ PotPayRaises
  \/ Settle \/ CollectResult \/ Report

NodeStep(p) == Refuse(p) \/ Offer(p) \/ Accept(p) \/ Reject(p) \/ Remove(p)

\* A round that ended has no step left once every payment and answer has ended.
AllQuiet ==
  /\ pc \in Ended
  /\ pot # "inflight"
  /\ \A p \in Participant : /\ pay[p] \notin Locked \cup {"requested"}
                             /\ fut[p] # "running"

Finished == AllQuiet /\ UNCHANGED vars

Next ==
  \/ CoordinatorStep
  \/ Crash
  \/ \E p \in Participant :
       \/ NodeStep(p)
       \/ Expire(p)
       \/ Respond(p)
       \/ HttpTimeout(p)
  \/ PotArrives
  \/ Finished

Spec == Init /\ [][Next]_vars

(***************************************************************************)
(* The coordinator runs until it ends or dies; nodes answer; the chain     *)
(* grows, so that a held HTLC reaches its CLTV height after the round.     *)
(***************************************************************************)
Fairness ==
  /\ WF_vars(CoordinatorStep)
  /\ WF_vars(PotArrives)
  /\ \A p \in Participant : /\ WF_vars(NodeStep(p))
                             /\ WF_vars(Expire(p))
                             /\ WF_vars(Respond(p))

FairSpec == Spec /\ Fairness

------------------------------------------------------------------------------
(* Properties *)

\* The round as an exchange: see PotExchange.
ShareOf(p) ==
  CASE pay[p] \in {"idle", "requested"} -> "free"
    [] pay[p] \in Locked -> "locked"
    [] pay[p] = "fulfilled" -> "taken"
    [] OTHER -> pay[p]

Exchange == INSTANCE PotExchange WITH
              Member <- Participant,
              share <- [p \in Participant |-> ShareOf(p)],
              potPaid <- (pot = "paid")

(***************************************************************************)
(* run_round_ln implements the exchange: whatever fails, an HTLC is taken  *)
(* only after the winner has the pot, it goes back only untaken, and the   *)
(* winner gets the pot only after every participant's HTLC was in a        *)
(* channel, where it need not be any more.                                 *)
(***************************************************************************)
ImplementsExchange == Exchange!Spec

(***************************************************************************)
(* The coordinator recovers its liquidity only if it first paid the winner *)
(* (docs/sequence-diagrams-ln.md:143), and sends the pot only after every  *)
(* participant's HTLC was in a channel.  Only was: when the pot leaves, an *)
(* HTLC may wait for the plugin, be failing or be back with its payer.     *)
(***************************************************************************)
SharesOnlyForPot ==
  /\ pot # "paid" => \A p \in Participant : pay[p] # "fulfilled"
  /\ pot # "unpaid" =>
       \A p \in Participant : pay[p] \in Locked \cup {"returned", "fulfilled"}

(***************************************************************************)
(* "Coordinator verifies all N HTLCs are in state accepted"                *)
(* (run_coordinator_ln.py:9, README.md:34) before it asks for the invoice  *)
(* of the pot.  The code counts every incoming HTLC of a channel instead   *)
(* (lnrpc.py:49-58), those the plugin has not taken or fails included.     *)
(***************************************************************************)
VerifiesAccepted ==
  pc = "createPot" => \A p \in Participant : hold[p] = "ACCEPTED"

(***************************************************************************)
(* Where the round stopped tells which shares the coordinator has: all of  *)
(* them from the collection of the results on; those before the invoice    *)
(* that failed when it left the settle loop there, and that one too when   *)
(* only the answer was lost; none when it left any earlier, a pay that     *)
(* raised although the winner has the pot included.  A crash too leaves a  *)
(* beginning of the list.  What was not taken in order is never taken: the *)
(* preimages are gone with the exception.                                  *)
(***************************************************************************)
SharesTakenInOrder ==
  LET stopped == IF pc = "raised" THEN failedAt ELSE pc
  IN  /\ stopped \in {"collect", "report", "done"} =>
           /\ pot = "paid"
           /\ \A p \in Participant : pay[p] = "fulfilled"
      /\ stopped = "settle" =>
           /\ pot = "paid"
           /\ \/ \A p \in Participant : pay[p] = "fulfilled" <=> p < idx
              \/ /\ pc = "raised" /\ "lostAnswer" \in Faults
                 /\ \A p \in Participant : pay[p] = "fulfilled" <=> p <= idx
      /\ stopped \notin {"settle", "collect", "report", "done", "crashed"} =>
           \A p \in Participant : pay[p] # "fulfilled"
      /\ \A p, q \in Participant :
           q < p /\ pay[p] = "fulfilled" => pay[q] = "fulfilled"

(***************************************************************************)
(* A result that says "ok" is a share that was taken: neither a late       *)
(* answer nor a timeout makes the coordinator believe a payment it did not *)
(* receive, or the round complete without all of them.                     *)
(***************************************************************************)
NoFalseConfirmation ==
  /\ \A p \in Participant : fut[p] = "ok" => pay[p] = "fulfilled"
  /\ pc = "done" => \A p \in Participant : fut[p] = "ok"

(***************************************************************************)
(* What the coordinator knows at each of its statements.  SharesOnlyForPot *)
(* is not inductive without it: it says why a statement that moves money   *)
(* is reached only when the money may move.                                *)
(***************************************************************************)
CoordinatorKnows ==
  /\ pc # "raised" => failedAt = "nowhere"
  /\ pc \in {"invoices", "dispatch"} => \A p \in Participant : pay[p] = "idle"
  /\ pc \in {"invoices", "dispatch", "wait", "createPot", "payPot"} =>
       pot = "unpaid"
  /\ pc \in {"createPot", "payPot"} =>
       \A p \in Participant : pay[p] \in Locked \cup {"returned"}
  /\ pc = "collect" =>
       \A p \in Participant : p < idx /\ p \notin errors => fut[p] = "ok"
  /\ pc = "report" => \A p \in Participant \ errors : fut[p] = "ok"

\* The plugin holds no invoice whose HTLC the channel does not hold for it.
PluginHoldsHtlc ==
  \A p \in Participant : hold[p] = "ACCEPTED" => pay[p] = "held"

RoundInv ==
  /\ TypeOK
  /\ PluginHoldsHtlc
  /\ SharesOnlyForPot
  /\ SharesTakenInOrder
  /\ NoFalseConfirmation
  /\ CoordinatorKnows

\* run_round_ln returns or raises: no statement of it waits for ever.
RoundEnds == <>(pc \in Ended)

(***************************************************************************)
(* When the winner was not paid, the HTLCs expire and the participants     *)
(* get their sats back (docs/sequence-diagrams-ln.md:143), late ones       *)
(* included.                                                               *)
(***************************************************************************)
UnpaidRoundReturnsShares ==
  \A p \in Participant :
    (pc \in Ended /\ pot \in {"unpaid", "rejected"} /\ pay[p] \in Locked)
      ~> (pay[p] = "returned")

=============================================================================
