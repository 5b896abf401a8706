------------------------------ MODULE MCRegtest ------------------------------
(* Values for the runs of Regtest. *)
EXTENDS Regtest

Contribution(participant, r, n) == [p |-> participant, round |-> r, try |-> n]

\* A participant asked twice for a round and once for the next.
MCCall == {Contribution(1, 1, 1), Contribution(1, 1, 2), Contribution(1, 2, 1)}

\* For contributions of 20000 sat: room for the fee but not for a change above dust,
\* just above the bound, and enough for two.
MCFunds == <<<<25300, 30001, 60002>>>>
==============================================================================
