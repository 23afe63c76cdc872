---------------------------- MODULE ValueTransfer ---------------------------
(***************************************************************************)
(* What an encoder and a decoder promise together: what is taken is what   *)
(* was given.  An encoder may refuse only what is not acceptable, before   *)
(* anything is taken, and a decoder may fail only on what is fallible.     *)
(***************************************************************************)

VARIABLES given, acceptable, fallible, taken, outcome

vars == <<given, acceptable, fallible, taken, outcome>>

Init == outcome = "pending"

Deliver ==
  /\ outcome = "pending"
  /\ outcome' = "delivered"
  /\ taken' = given
  /\ UNCHANGED <<given, acceptable, fallible>>

Refuse ==
  /\ outcome = "pending" /\ ~ acceptable
  /\ outcome' = "refused"
  /\ UNCHANGED <<given, acceptable, fallible, taken>>

Fail ==
  /\ outcome = "pending" /\ acceptable /\ fallible
  /\ outcome' = "failed"
  /\ UNCHANGED <<given, acceptable, fallible, taken>>

Next == Deliver \/ Refuse \/ Fail

Spec == Init /\ [][Next]_vars

=============================================================================
