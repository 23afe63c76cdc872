---------------------------- MODULE FieldChannel ----------------------------
(***************************************************************************)
(* What a bit stream is for: the encoder puts fields into a message, the   *)
(* message is handed over, and a decoder that asks for the same fields in  *)
(* the same order gets the values that were put in.  A decoder may stop    *)
(* following the order; nothing is promised to it from then on.            *)
(***************************************************************************)
EXTENDS Naturals, Sequences

CONSTANT Fields

VARIABLES sent,      \* the fields of the message
          received,  \* what the decoder got while it followed the order
          closed     \* the message has been handed over

vars == <<sent, received, closed>>

Init ==
  /\ sent = <<>>
  /\ received = <<>>
  /\ closed = FALSE

Send(f) ==
  /\ ~ closed
  /\ sent' = Append(sent, f)
  /\ UNCHANGED <<received, closed>>

HandOver ==
  /\ ~ closed
  /\ closed' = TRUE
  /\ received' = <<>>
  /\ UNCHANGED sent

Receive ==
  /\ closed
  /\ Len(received) < Len(sent)
  /\ received' = Append(received, sent[Len(received) + 1])
  /\ UNCHANGED <<sent, closed>>

(* The decoder goes back to the start of the message.                      *)
Rewind ==
  /\ closed
  /\ received' = <<>>
  /\ UNCHANGED <<sent, closed>>

(* The encoder discards the message and starts another one.                *)
Discard ==
  /\ sent' = <<>>
  /\ received' = <<>>
  /\ closed' = FALSE

Next ==
  \/ \E f \in Fields : Send(f)
  \/ HandOver
  \/ Receive
  \/ Rewind
  \/ Discard

Spec == Init /\ [][Next]_vars

(* The decoder has received a part of what was sent, in order.             *)
InOrder ==
  /\ Len(received) <= Len(sent)
  /\ \A i \in DOMAIN received : received[i] = sent[i]

=============================================================================
