---------------------------- MODULE NameBinding ----------------------------
(***************************************************************************)
(* What reference resolution promises: each reference is bound at most     *)
(* once, to a definition of the name it mentions, and a schema is accepted *)
(* only when no reference that must be bound is left.                      *)
(***************************************************************************)
EXTENDS FiniteSets

VARIABLES candidates,  \* reference -> the definitions of its name
          required,    \* the references that must be bound
          binding,     \* reference -> the definition it was bound to
          verdict      \* "open", "accepted", "rejected"

vars == <<candidates, required, binding, verdict>>

Init ==
  /\ required \subseteq DOMAIN candidates
  /\ binding = <<>>
  /\ verdict = "open"

(* A reference may be bound on the way to a rejection too.                 *)
Bind(r) ==
  /\ verdict = "open"
  /\ r \in DOMAIN candidates \ DOMAIN binding
  /\ \E d \in candidates[r] :
       binding' = [x \in DOMAIN binding \cup {r} |->
                     IF x = r THEN d ELSE binding[x]]
  /\ verdict' \in {"open", "rejected"}
  /\ UNCHANGED <<candidates, required>>

Accept ==
  /\ verdict = "open"
  /\ required \subseteq DOMAIN binding
  /\ verdict' = "accepted"
  /\ UNCHANGED <<candidates, required, binding>>

Reject ==
  /\ verdict = "open"
  /\ verdict' = "rejected"
  /\ UNCHANGED <<candidates, required, binding>>

Next ==
  \/ \E r \in DOMAIN candidates : Bind(r)
  \/ Accept
  \/ Reject

Spec == Init /\ [][Next]_vars

=============================================================================
