----------------------------- MODULE MCTapScript -----------------------------
(* Values for TapScript: three keys of two bytes, and two preimages. *)
EXTENDS TapScript

\* The byte 168 is OP_SHA256; one key in eight has it among its 32 bytes.
MCKeys == <<<<3, 168>>, <<7, 1>>, <<9, 255>>>>

MCPreimages == {<<4, 9>>, <<5, 9>>}

==============================================================================
