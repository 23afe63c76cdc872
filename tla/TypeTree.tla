------------------------------ MODULE TypeTree ------------------------------
(***************************************************************************)
(* What the two type generators work on and what they produce: the tree of *)
(* a type as the parser builds it and the resolver binds it, and the       *)
(* declarations and uses of names in generated code.                       *)
(*                                                                         *)
(* A name is the list of its parts.  mangleName turns the hyphens between  *)
(* them into underscores, and the generators put underscores between the   *)
(* names they join: joined names are concatenated lists, and names that    *)
(* look alike in the code are equal.                                       *)
(***************************************************************************)
EXTENDS Naturals, Sequences, SequencesExt

CONSTANT MaxDepth     \* recursion_depth at which the generators give up

(* parts: the members, alternatives or enumerators, or the element of a    *)
(* list, without extension markers; to: resolvedName, as module and name,  *)
(* as one bare word, or empty; linked: resolvedTypeNode is set; body: the  *)
(* copied body when it is that of a parameterized type; args: the actual   *)
(* parameters.                                                             *)
Tree(kind, name, parts) ==
  [kind |-> kind, name |-> name, parts |-> parts, to |-> <<>>, linked |-> FALSE,
   body |-> <<>>, args |-> <<>>]

Leaf(kind) == Tree(kind, <<kind>>, <<>>)

Part(name, type) == [name |-> name, type |-> type]

Refers(t) == t.to # <<>>

IsInstance(t) == t.body # <<>>

Structs == {"SEQUENCE", "SET"}

Lists == {"SEQUENCE_OF", "SET_OF"}

Strings ==
  {"OCTET_STRING", "UTF8_STRING", "PRINTABLE_STRING", "VISIBLE_STRING", "IA5_STRING",
   "NUMERIC_STRING"}

Scalars == {"INTEGER", "BOOLEAN", "REAL", "NULL_TYPE"}

(* The types that main hands to a generator whatever the resolver did.     *)
BuiltIn ==
  Structs \cup Lists \cup Strings \cup Scalars
    \cup {"CHOICE", "ENUMERATION", "OBJECT_IDENTIFIER", "BIT_STRING", "ANY_TYPE"}

-----------------------------------------------------------------------------
(* Generated code.  A name is opened where the braces of its structure     *)
(* begin and declared where it is complete; "needs" is a use that takes a  *)
(* complete type, "mentions" one that does not.  Whose name it is: a type  *)
(* of the schema ("schema"), or one the generator made up ("own").         *)

Code(op, name, whose) == <<[op |-> op, name |-> name, whose |-> whose]>>

Opens(name) == Code("opens", name, "own")

Declares(name) == Code("declares", name, "own")

Throws == Code("throws", <<>>, "own")

(* The code for each part of a type, one after the other.                  *)
ForParts(t, Emit(_)) == FlattenSeq([i \in DOMAIN t.parts |-> Emit(t.parts[i])])

=============================================================================
