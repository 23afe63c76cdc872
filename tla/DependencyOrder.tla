-------------------------- MODULE DependencyOrder --------------------------
(***************************************************************************)
(* What the two sorting passes of the compiler driver promise about the    *)
(* order in which definitions (or modules) are emitted: an item is emitted *)
(* only once everything it uses has been emitted.  When no such item is    *)
(* left, the remaining ones wait for each other; they are stranded and are *)
(* emitted in whatever order.  Nothing here says how readiness is tracked: *)
(* no degrees, no queues.  TopoSort and ModuleSort implement this.         *)
(***************************************************************************)
EXTENDS Naturals, Sequences

CONSTANT Items      \* whatever may have to be ordered

VARIABLES uses,     \* item -> the items it uses; fixed by the input
          order,    \* the items emitted so far
          stranded  \* the items given up on, empty while there is progress

vars == <<uses, order, stranded>>

Emitted == {order[i] : i \in DOMAIN order}

Unemitted == DOMAIN uses \ Emitted

Ready == {x \in Unemitted : uses[x] \subseteq Emitted}

Init ==
  /\ DOMAIN uses \subseteq Items
  /\ uses \in [DOMAIN uses -> SUBSET DOMAIN uses]
  /\ order = <<>>
  /\ stranded = {}

Emit(x) ==
  /\ stranded = {}
  /\ x \in Ready
  /\ order' = Append(order, x)
  /\ UNCHANGED <<uses, stranded>>

GiveUp ==
  /\ stranded = {}
  /\ Ready = {}
  /\ Unemitted # {}
  /\ stranded' = Unemitted
  /\ UNCHANGED <<uses, order>>

EmitStranded(x) ==
  /\ x \in stranded
  /\ order' = Append(order, x)
  /\ UNCHANGED <<uses, stranded>>

Next ==
  \/ \E x \in DOMAIN uses : Emit(x) \/ EmitStranded(x)
  \/ GiveUp

Spec == Init /\ [][Next]_vars

-----------------------------------------------------------------------------

TypeOK ==
  /\ DOMAIN uses \subseteq Items
  /\ uses \in [DOMAIN uses -> SUBSET DOMAIN uses]
  /\ order \in Seq(DOMAIN uses)
  /\ stranded \subseteq DOMAIN uses

(* An item that is not stranded is emitted after everything it uses.       *)
UsesFirst ==
  \A i \in DOMAIN order :
    order[i] \notin stranded =>
      \A u \in uses[order[i]] : \E j \in 1 .. i - 1 : order[j] = u

(* Every stranded item uses a stranded item: following uses among them     *)
(* never ends, so a finite set of them holds a cycle.                      *)
StrandedWait == \A x \in stranded : uses[x] \cap stranded # {}

=============================================================================
