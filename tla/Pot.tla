--------------------------------- MODULE Pot ---------------------------------
(***************************************************************************)
(* What an on-chain round promises about its pot, with no mechanism: each  *)
(* participant puts in one share, nothing leaves before every share is in, *)
(* and then all leave together, in one of the three ways of README.md:     *)
(* claimed together, swept by the winner, or refunded.                     *)
(***************************************************************************)

CONSTANTS Member,            \* the participants of the round
          Way                \* how a complete pot may be spent

VARIABLE share               \* where the share of each member is

TypeOK == share \in [Member -> {"out", "in"} \cup Way]

Init == share = [m \in Member |-> "out"]

PutIn(m) == /\ share[m] = "out"
            /\ share' = [share EXCEPT ![m] = "in"]

\* All shares at once, and once.
Take(way) == /\ \A m \in Member : share[m] = "in"
             /\ share' = [m \in Member |-> way]

Next == \/ \E m \in Member : PutIn(m)
        \/ \E way \in Way : Take(way)

Spec == Init /\ [][Next]_share
==============================================================================
