----------------------------- MODULE PotExchange -----------------------------
(***************************************************************************)
(* What one round of the Lightning tanda promises, with no mechanism.      *)
(*                                                                         *)
(* Every member puts a share under lock.  The pot is paid to the winner    *)
(* only once every share is, or has been, under lock.  A share is taken    *)
(* for good only after the pot was paid; until then the only way out of    *)
(* the lock is back to its owner.                                          *)
(*                                                                         *)
(* docs/sequence-diagrams-ln.md:143 and :228 state this in prose.          *)
(***************************************************************************)

CONSTANT Member              \* the participants of the round

VARIABLES
  share,                     \* where the contribution of each member is
  potPaid                    \* whether the winner holds the pot

vars == <<share, potPaid>>

ShareState == {"free", "refused", "locked", "taken", "returned"}

TypeOK == /\ share \in [Member -> ShareState]
          /\ potPaid \in BOOLEAN

Init == /\ share = [m \in Member |-> "free"]
        /\ potPaid = FALSE

\* A member's share leaves its owner's hands, but is not the coordinator's.
Lock(m) == /\ share[m] = "free"
           /\ share' = [share EXCEPT ![m] = "locked"]
           /\ UNCHANGED potPaid

\* A member does not contribute to this round, now or later.
Refuse(m) == /\ share[m] = "free"
             /\ share' = [share EXCEPT ![m] = "refused"]
             /\ UNCHANGED potPaid

\* The owner gets a locked share back in full.
Return(m) == /\ share[m] = "locked"
             /\ share' = [share EXCEPT ![m] = "returned"]
             /\ UNCHANGED potPaid

\* The winner receives the pot.  Every member locked a share for it, and may
\* have it back already: the exchange does not promise that the lock holds.
PayPot == /\ ~potPaid
          /\ \A m \in Member : share[m] \in {"locked", "returned"}
          /\ potPaid' = TRUE
          /\ UNCHANGED share

\* The coordinator takes a locked share, in exchange for the pot it paid.
Take(m) == /\ potPaid
           /\ share[m] = "locked"
           /\ share' = [share EXCEPT ![m] = "taken"]
           /\ UNCHANGED potPaid

Next == \/ PayPot
        \/ \E m \in Member : Lock(m) \/ Refuse(m) \/ Return(m) \/ Take(m)

Spec == Init /\ [][Next]_vars

(***************************************************************************)
(* A share is taken only in exchange for the pot, and a pot was paid only  *)
(* after every member locked a share: what is fair to the participants.    *)
(* Whether it is fair to the coordinator depends on the locks holding.     *)
(***************************************************************************)
FairExchange ==
  /\ (\E m \in Member : share[m] = "taken") => potPaid
  /\ potPaid => \A m \in Member : share[m] \notin {"free", "refused"}
==============================================================================
