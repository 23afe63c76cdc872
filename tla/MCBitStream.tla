---------------------------- MODULE MCBitStream ----------------------------
(***************************************************************************)
(* Instances of BitStream for TLC: the C++ and the C allocation of octets. *)
(***************************************************************************)
EXTENDS BitStream

(* Fields shorter than, as long as and longer than what is left of an      *)
(* octet, with ones where a later write could clear them.                  *)
SomeFields == {<<1>>, <<1, 0, 1>>, <<0, 1, 1, 1, 1, 1, 1, 0, 1>>}

SomeSkips == {1, 8}

DoublingFromOneOctet(have, need) == AllocateDoubling(1, have, need)

=============================================================================
