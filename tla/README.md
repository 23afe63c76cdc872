# A verification project for the ASN.1 compiler

The compiler in this repository reads ASN.1 schemas and generates C++20 or C99
types with encoders and decoders for packed encoding rules (UPER, in part
APER). The generated code runs on a small runtime of bit writers, bit readers
and primitives. This directory holds TLA+ models of the parts where order and
state decide about correctness, the TLC runs that check them on small instances
and the proofs that TLAPS checks for every instance.

Everything runs in one thread. What makes the code hard is not concurrency but
order: the order in which modules are parsed and resolved, in which hash maps
are visited, in which types are emitted, in which fields are written and read,
and what an error in the middle leaves behind.

## The system

| Part | Code | State | Operations | Meets |
|---|---|---|---|---|
| Driver | `src/utils/CompilerMain.cpp` `main`, `FileLoader.cpp` | worklist of files, parsed paths, list of modules, types emitted per module, generated text | parse a file and queue its imports, resolve, generate each module, write up to four files | calls every other part of the compiler |
| Lexer | `src/frontend/AsnLexer.cpp` | position in the text, line and column | the next token | gives a list of tokens to the parser |
| Parser | `src/frontend/AsnParser.cpp` | position in the tokens, nodes under construction | recursive descent; skips what it does not know, throws at the first error | returns an AST to the driver |
| Symbol table and resolver | `src/frontend/SymbolTable.cpp` | symbols per module; per module a scope and `resolution_path`; `resolvedName`, `resolvedTypeNode` in the nodes | add a symbol, resolve all references | mutates the AST that all modules share |
| Constraints | `src/frontend/ConstraintResolver.cpp` | none | bounds of a constraint | asked by the emitters |
| Order of types, of modules | `CompilerMain.cpp` `topoSortAssignments`, `topoSortModules` | degrees, queue, result | Kahn's algorithm with an append loop for what is left | reads what the resolver left in the AST |
| Type generators | `src/codegen/cpp/CppEmitter.cpp`, `c/CEmitter.cpp` | `recursion_depth`, text | declarations of types | one header, module by module |
| Codec generators | `src/codegen/cpp/CodecEmitter.cpp`, `c/CCodecEmitter.cpp` | `recursion_depth`, `processingNodes`, text | encoders and decoders | text that calls the runtime |
| JSON adapters, JSON schema | `src/codegen/cpp/JsonEmitter.cpp`, `CompilerMain.cpp` (schema) | none | `to_json`, `from_json`, a description of the JSON | text that uses the generated types |
| Bit streams | `src/runtime/core/`, `src/runtime/c/asn1_bit*.c` | buffer, bit offset | write, align, hand over, read, skip, reset | writer and reader share only the octets and the convention of the order |
| UPER, APER primitives | `src/runtime/uper/`, `aper/`, `c/asn1_uper.c` | none | integers, lengths, choice indices, open types | on a bit stream |

What each part must get right:

* driver: exactly the modules the imports lead to are compiled, once; the run
  ends although imports may be cyclic; outputs fit each other; a source file
  and exit code 0 mean that everything before succeeded.
* lexer: a token is the text at its location, the longest there is, and nothing
  but blanks and comments lies between tokens.
* parser: it ends on every list of tokens; what it accepts it has read, and a
  well-formed module comes back as the tree it was written from.
* resolver: the recursion ends on every schema, cyclic ones included; each
  reference is bound to a definition of its name, the one its own module's
  scope says; what is accepted is bound; a circle is reported only of a schema
  that has one; a bound of a size is the constant its name means.
* generated headers and adapters: a name is declared once, before it is used;
  what is adapted to JSON exists, and what needs an adapter has one.
* JSON: a value survives the way to JSON and back, also when the JSON was written
  by someone who goes by the schema file.
* orders: a type comes after the types it uses unless it leads to a cycle; no
  type is lost or repeated; the order depends on nothing but the schema.
* bit streams: what was written is in the buffer, no later write or growth
  disturbs it, the octets handed over are allocated, and a reader that asks for
  the same fields in the same order gets them.
* primitives and generated codecs: both ends agree on where each field lies,
  decoding inverts encoding, also between versions of a schema with extension
  additions and between the languages, and a decoder never hands out a value
  its type does not have.

`PROJECT.json` lists the hazards with their lines and the properties that would
catch them.

## The modules

| Module | What it is |
|---|---|
| `Lexer` | `AsnLexer`: from characters to tokens with locations |
| `Parser` | `AsnParser`: from tokens to trees |
| `DependencyOrder` | what a sort by dependencies promises: an item is emitted when all it uses has been; when there is no such item the rest is given up on together |
| `TopoSort` | `topoSortAssignments`; implements `DependencyOrder` over names |
| `ModuleSort` | `topoSortModules`; implements `DependencyOrder` over positions |
| `NameBinding` | what resolution promises: a reference is bound at most once, to a definition of its name; nothing required is unbound when the schema is accepted |
| `Resolver` | `SymbolTable::resolveReferences`; implements `NameBinding` |
| `Constraints` | `ConstraintResolver::resolveBound`, over what `Resolver` left: the constant a bound stands for in the code of a module |
| `TypeTree` | the tree of a type, and declarations and uses of names in generated code |
| `CTypes`, `CppTypes` | `CEmitter`, `CppEmitter`: which names the code for a type declares and uses, in which order |
| `Headers` | the loops of `main` that write the header of either back end; the order of types is any that `DependencyOrder` allows |
| `JsonTypes` | `JsonEmitter`: which types and wrappers the adapters name |
| `JsonFile` | `Headers` and then the file of adapters and the JSON schema |
| `JsonCodec` | what the generated `to_json` and `from_json` do with a value |
| `FieldChannel` | what a bit stream is for: fields sent, handed over and received in order |
| `BitStream` | `BitWriter` and `BitReader` and their C counterparts; implements `FieldChannel` |
| `UperPrimitives` | the fields of the runtime: integers, lengths, indices, open types, REAL, OBJECT IDENTIFIER, in UPER and APER |
| `MemberCodec` | the code generated for one member, element or alternative, in C++ and C |
| `ValueTransfer` | what an encoder and a decoder promise together: what is taken is what was given |
| `SequenceCodec` | the code generated for a SEQUENCE or SET, one end to the other; implements `ValueTransfer` |
| `InOrder` | the order in which a loop meets the members of a set |
| `Compiler` | `main`: worklist, resolution, generation, output |
| `..._proofs` | theorems and proofs about the module of that name; `Resolver_proofs` has those about `Constraints` too |
| `MC...` | instances for TLC, and properties of the instance's own inputs |

An operator introduced by a comment `Fault:` is the definition after it with a
plausible mistake. No specification uses it; it documents what the properties
can tell from the code.

### How state and actions correspond to the code

*Lexer.* One action per branch of `getNextToken`; the loops inside a scan
function are one step each. `location` is kept as the code keeps it, a character
at a time, and the properties compare it with the source. A NUL ends the file, as
it does in the code, where it is what `peek` returns at the end.

*Parser.* As in `Resolver`, `todo` is the call stack flattened into the items
still to be parsed; `made` are the nodes under construction. An item is a
function of the parser, one turn of one of its loops or an optional part, and has
an action of its own; loops that only skip are one step. `Throw` is the one
action for a token that the item at hand does not accept.

*TopoSort.* `assignments` is the argument. An assignment is a name with the
names its body refers to, those of this module (`local`) apart from those of
others (`foreign`), because the code cuts a qualified name at its last dot and
then cannot tell them apart (`UsedBy`). `depMap`, `inDegree`, `dependents`, `pq`,
`result` and `emitted` are the variables of the code. `CountUse` is one
iteration of the nested loop over unordered maps, in any order; `SeedQueue`,
`PopAndRelease` (with the loop over dependents), `QueueDrained` and `AppendRest`
are the remaining loops, an iteration each. Where a name is assigned twice, the
maps keep the last assignment (`LastOf`).

*ModuleSort.* Positions instead of names, and a first-in-first-out queue.
`Clauses(i, j)` are the FROM clauses that put module `i` into `dependents[j]`,
once for each clause. All of one pop's decrements are one action.

*Resolver.* `resolveNodeReferences` is recursive and throws. `todo` is its call
stack as a list of what is still to be done, nearest first: `assignment` and
`node` are calls, `link` is what follows the recursive call on a target, `copy`
the substitution, `catch` the end of the try block around a parameterized body.
`Throw` drops everything up to the nearest `catch` and, as in the code, leaves
`resolution_path` as it is. `name` is `resolvedName`, `linked` are the nodes
whose `resolvedTypeNode` was set from a definition, `copies` what the copies of
parameterized bodies hold. An action is the code between two calls. The global
search returns any module that has the name, as the map is unordered. A field of
a class is bound without that search; `name` then has the class, the code the
type of the field.

*Constraints.* No state of its own: the definitions say, once resolution is done,
which body is emitted for a type (`Effective`: at most ten aliases are followed,
as in the C generator) and which value `resolveBound` finds for a bound of it in
the module at hand.

*TypeTree, CTypes, CppTypes, Headers.* A name is the list of its parts, joined as
the generators join them. What an emitting function returns is abstracted to the
sequence of names it opens, declares, needs complete or merely mentions; that is
what decides whether a compiler accepts the header. `Headers` runs the loops of
`main` over modules, types, constants and functions, with `recursion_depth`, and
`header` grows by one block for each type.

*JsonTypes, JsonFile, JsonCodec.* The same abstraction for the adapters, which make
up the names of anonymous types a second time; the schema file is modelled as the
recursion that writes it, with `StackRoom` calls before the stack is full.
`JsonCodec` runs one value to JSON, possibly drops a member, and back; or lets
somebody who reads the schema file write the JSON. What C++ leaves uninitialized
is a value of its own (`Garbage`), so that its use shows.

*BitStream.* `buffer` is the allocated octets as a sequence of bits; a field is
a bit string, the empty one is an align. `writeBits` and `writeBytes` are the
action `WriteBits`: the loop over bits has no effect that its end does not have,
so it is one step, and the growth of the buffer inside it is `Allocate`, a
constant operator of which only a bound is assumed. `OpenReader` is the hand-over
of `getBuffer()` and `getBufferSize()`. `sent`, `starts`, `received` and
`mirrored` are not in the code: they record what was written where, and whether
the reader has so far asked for the same fields.

*UperPrimitives, MemberCodec.* Pure definitions, a `Put` and a `Get` for each
pair of functions of the runtime and for each kind of code the generators emit.
A writer is the bits written so far and a reader a message with an offset, which
is what `BitStream` shows of them; a read is a record of the value and the offset
after it, and `Bad` is the value of one that throws. The same definition has both
languages where they differ in little: `RangeBits` has the shift of C and the
logarithm of C++, whose rounding is the constant `Unseen`. `Extent` is the
wrapping difference of the bounds. `Power` has the powers of two that the code can
make by a shift, so that a width beyond 64 bits has no meaning. Loops over octets,
components and elements are recursive functions; a set that is visited in order is
listed by `InOrder`. A type has a `ref`, for how the schema mentions it: inline, by a
name that is assigned the type, or by an alias, that is a name that is assigned another
name or an instance of a parameterized type. It decides what is generated. In C++ a
member that has a name calls `encode_X` and `decode_X`, and these are empty when X is an
alias or a BOOLEAN. In C scalars and strings are found behind their names, and a list or
CHOICE without a name is a comment. `Unwritten` says this of a language and a type; such
a member takes no bits, and the decoder has the `New` value in C++, and in C what its
caller had there. `ScalarFits` and `ListFits` are what a value must be to have its type,
as the checks of the generated code see it, and `Accepts` what the encoder does not
refuse: an OBJECT IDENTIFIER of one arc fits, as a decoder can make it, and no encoder
takes it. `Sound` is what a C++ decoder can have read: what fits, and where nothing is
read, the new value. `MemberType` and `MemberValue` say what a schema can declare and a
program can give; `Builds` leaves out the types for which no valid C is generated, since
nothing runs there: an alias of REAL or NULL, and lists of names of these or of aliases of
numbers, where caller and function disagree whether a value or its address is passed.

*SequenceCodec.* The generated functions of one type, run one after the other:
the marker, the preamble, the members of the root, the bitmap and the additions
are an action each, on either side, and the alternatives that throw or return an
error code are `RefuseMember`, `RootFails` and `AdditionFails`. A type is declared
twice, `sent` and `read`, as encoder and decoder may come from different versions;
`from` and `to` say in which language and for which rules. A decoder's value
starts as `Fresh`, since a C++ member with a DEFAULT is initialised with it. The
encoder of an addition writes to the writer of the message, because that is what
the generated code does (finding 1).

*Compiler.* The file system and the command line are one variable `world` that
never changes: which paths hold which modules, which cannot be parsed, the
include paths, the language, the extra outputs. A path is a directory as it is
spelled and the name of a module, so that one file can have two paths.
Resolution may fail for a reason other than an import at any time, an emitter
may throw, and each write may fail, or open the file and then not write it whole.
Of `topoSortModules` the driver needs which modules it returns: `Stranded` are those
that the queue never comes to, as they wait in a circle or for one; `Lost` are those of
them whose name is in the result already, which the append loop leaves out; `Kept`, the
others, are generated, in any order (`ModuleSort` has which).

## The runs

| Run | Instance | Shows |
|---|---|---|
| `lexer` | every text of at most 4 characters over 12, and of at most 6 over the 5 that make names, comments and strings over lines | locations are true, nothing is dropped, tokens are the longest |
| `parser` | modules written from trees of every kind of node, plainly and with all that may be skipped; files that lack one token; up to 3 tokens at will in five places | a module parses to the tree it was written from, nothing is made up, the parser ends |
| `parser_references` | object sets that begin with a reference | finding 2 |
| `types` | four types, every set of at most five references; up to three assignments of two names | the order of types, under every order of the hash maps |
| `modules` | three modules, up to two FROM clauses each, a missing module, a file parsed twice | the order of modules |
| `resolver` | one module with three types and up to two references each; two and three modules with imports, in both orders; a parameterized type before or after its use, and two of them; classes and constants of up to three modules | resolution, and the constants of bounds |
| `headers` | about 1200 schemas of two modules with two types each, every kind of type in up to two layers of structure or four of one kind, in both languages, in every order the sorting allows | headers, adapters and schema file |
| `json` | every value of structures, choices and lists in up to three layers, with any one member missing | JSON and back |
| `stream` | three fields of 1, 3 and 9 bits, aligns, skips of 1 and 8; five fields, 24 bits; the buffer doubles from one octet | writer and reader |
| `codec` | 48 types with one to five values each, inline, by name and by alias, mandatory, optional or with a default, at an offset of 0 or 1, for five pairs of ends; a type with a default, a mandatory member and up to two additions at either end, as SEQUENCE and as SET | generated encoders and decoders |
| `codec_additions` | the last, C++ at both ends, the same additions | finding 1 |
| `compiler` | two modules, two directories and the current one, both languages, all outputs, broken and missing files; a file with a second module of the same name | the driver |

Type invariants, invariants that a refinement checked in the same run implies
(`QueueIsReady`, `ReleasedAfterUses`, `ReaderInStep`) and `PathIsCallChain` are not
run on their own: theorems state them.

*Bounds.* In `types`, `MaxUses` = 5 of the 12 possible references admits a cycle
of all four types with a chord, two cycles that touch, and a cycle with a type
on either side; renaming the types permutes the schema order, so the order of
names is fixed. In `stream`, 9 bits cross a boundary at every offset, three
octets make the buffer grow twice, and the lengths 1, 3 and 9 reach every offset
within an octet. In `resolver`, two references in a body are enough for one to be
resolved before, and one after, a cycle or an error; two modules are enough for
the order of parsing to matter, also two of one name, and a third is needed for a
name that two others define. In `modules`, two of a name with different imports are
enough for one to take the place of the other. In `lexer`, no operator, and no prefix of one that matters, has more than
three characters; the fourth is what follows it. In `parser`, three tokens after
an opening brace reach past every look-ahead. In `headers`, `MaxDepth` is 2 instead
of 20 so that nesting beyond it is small, and `StackRoom` is 8, more than any type
of the instance that does not contain itself needs. In `codec`
an octet has 4 bits and an `int64_t` 6 octets: lengths take their second form at 8
and their third at 64 instead of 128 and 16384, so that every form of a length and
of an integer, in UPER and APER, is used by some value of the catalogue on either
side of its limit (the third form by values of ANY); ranges of 2^20 + 1 are where the logarithm rounds. One member
before the one in question shifts it by a bit, one after it shows whether the
decoder still is where it should be. In `json`, a structure in an alternative in
a structure is the least that tells initialized from uninitialized memory. In
`compiler`, two files reach each other under different spellings, and a module that
waits in a circle gives way to one of its name that does not.

Deadlock is not checked except in `stream`: the other components stop when they
are done.

*What two ends can exchange.* The generated code does not deliver everything, and
`SequenceCodec` says exactly what. `Framed` are the values for which both ends
use the same bits, `Faithful` those that also come out as they went in. They
exclude lengths beyond 16383 that are no multiple of 16384 (`Countable`), ranges whose size
overflows or whose logarithm gives a field that is too narrow (`InWidth`) or not the
one of the other language (`SameWidth`), an ANY whose length
is not whole octets, CHOICEs with alternatives after the marker between C++ and C,
first arcs of an OBJECT IDENTIFIER above 1, and what is `Unwritten` at one end only. What
is `Unwritten` at both ends (`Silent`) leaves them in step, but its value is lost, so it is
`Framed` and not `Faithful`: every alias in C++, and inline lists and CHOICEs in C. `MembersInStep`, `RootIntact` and `TransferSpec` are
claimed of everything else, and each exclusion is a limit of the code that a
reader can look up in `MemberCodec` or `UperPrimitives`. `DecodedInType` is claimed of
all messages: after additions the C++ decoder reads bits that were not meant for
it, and what it stores must still be in range. Where it reads nothing the new value is
stored unchecked: a member of an alias of `INTEGER (5..10)` is 0, and the property says
that it is that and nothing else. `TransferSpec` lets a decoder fail
only if additions were announced or a value is not `Framed`, and an encoder refuse
only what has no encoding.

*Fairness.* `Parser`, `Resolver` and `Compiler` have one thread that runs loops
and recursion to their end; weak fairness of the whole next-state relation says
that it does not stop before, and nothing more. `Termination` then means that no
loop goes round for ever. For the resolver this is worth checking: two tests, one
of `resolvedName` and one of `resolution_path`, are all that ends the recursion.
For the parser, every loop up to a brace must take a token or leave.

## The findings

1. `codec_additions`. The generated C++ encoder puts an extension addition in
   front of an empty open type instead of into it. A decoder of the same version
   takes other bits for it.
2. `parser_references`. An object set that begins with a reference to another
   set is taken for a single object and skipped; its references are lost.

## Exceptions the properties name

A property that holds with exceptions states them. These are limits of the code
that a run shows and that somebody who changes it should know.

*Order and resolution.*

* A type behind a cycle is stranded with it and may come before a type it uses
  (`StrandedReachCycle`). A reference to another module's type with the name of
  one of this module counts as a use of the latter (`foreign` in `UsedBy`).
* The loop that appends stranded modules compares names: a module is lost if another
  of its name, with other imports, was emitted before (`EveryModuleOnce`). Its code is
  then missing from a source file that is written with exit code 0
  (`SourceMeansSuccess`).
* The definitions of a module that is parsed after its importer are resolved in
  the importer's scope (`BoundByOwnOrImporter`). A reference that this scope does
  not have is found by the global search, never linked, and skipped by its own
  module (`ModuleIsLinked`); if two modules define the name it may be bound to the
  wrong one although its own module has it. The name of a primitive that a later
  module defines is bound by that module, which its own passes over. Modules of one
  name can resolve each other's references.
* Whether a self-referential type is accepted depends on the order of
  declarations. After an error was swallowed in a parameterized body,
  `resolution_path` still has the names of the calls it left, and a type with no
  cycle can be called circular. `CircularMeansCycle` says when: the schema has
  parameterized types and, outside them, a name or a field that is missing or a
  reference to one of them with a wrong number of arguments. The try block surrounds the whole body, so that the rest of the
  body is not "still processed" as the comment at `SymbolTable.cpp:392` says.
* A class of another module that an importer does not import makes resolution
  fail if the importer comes first (`UndefinedMeansMissing`).
* A bound that names a constant imported by the type's module, or one that is
  emitted for an alias in another module, may be a constant of the same name in
  the importer or in any module (`BoundsAreLexical`). The encoders of an alias and
  of the type it stands for can then differ. In a parameterized body a bound
  whose constant does not exist is skipped, and if it is the upper one the lower
  is taken for both (`ConstraintResolver.cpp:102`).

*Generated types.*

* SET OF in C++ and OBJECT IDENTIFIER in C have encoders and decoders over a type
  that is not declared (`FunctionsHaveTypes`; `CppEmitter.cpp:614`,
  `CEmitter.cpp:421`), although `IMPLEMENTATION.md:814` lists both as supported.
* A type may use its own name before it is complete, as may types that wait for
  each other (`TypesBeforeUses`; see `IMPLEMENTATION.md:621`).
* C lists of OCTET STRING and BIT STRING, and C copies of a parameterized scalar,
  use a name that is not declared; what is nested too deep is left out in C without
  a message while C++ throws (`OwnNamesDeclared`).
* Names with hyphens, and names that end like the suffixes the generators add, can
  clash (`DeclaredOnce`). Lists of SET in C++ use a bare `SET`.
* C emits no constants, C++ only those of INTEGER and OBJECT IDENTIFIER.

*Generated codecs.*

* The encoders and decoders of C++ aliases and instances are empty
  (`CodecEmitter.cpp:114`, `187`), and members call them (lines 589 to 616): the value is
  not sent, and the decoder has `value{}`, in the type or not (`Unwritten`, `DecodedInType`).
* A member or alternative of C that is an inline SEQUENCE OF, SET OF or CHOICE is a
  comment (`CCodecEmitter.cpp:757`, `888`, `1042`, `1147`), and so are the elements of
  a list whose element type is inline (lines 1246, 1274).

*JSON.*

* Adapters for aliases of a CHOICE or a list, for a SET OF, and for a SET that is an
  alternative or an element, name types that do not exist (`AdaptersHaveTypes`). An
  alias of a structure or CHOICE adapts the same C++ type twice (`AdaptedOnce`).
* An optional NULL, an optional empty ANY, an ANY that is not a bit string and the
  extension of a CHOICE are lost; an absent addition with a DEFAULT comes back
  present (`Kept`). A mandatory member that is missing is no error and reads as
  zero, or as uninitialized memory inside an alternative (`OmissionIsLocal`).
* The schema file has other words than the adapters for enumerators that are C++
  keywords and for anonymous enumerations in alternatives (`SchemaIsTrue`).
* `--schema` ends the compiler when the stack is full if a type contains itself
  other than through a list (`SchemaUnlessSelfContaining`).

*Lexer and parser.*

* A NUL ends the file; `a--b` is one identifier; numbers are digits only, without
  the real numbers of `IMPLEMENTATION.md:102`.
* `A INTEGER END` is accepted and A dropped; a `TYPE Foo{x}` in an object ends at
  the inner brace (`AsnParser.cpp:718`); fields of an object end where a comma is
  missing; version brackets leave no trace; DEFAULT in a class skips one token.

## What is proved

Each theorem holds for every value of the constants that satisfies the named
assumptions of the modules, and each invariant follows from an inductive one, of which
TLC was asked first.

| Module | Theorems | What makes it inductive |
|---|---|---|
| `DependencyOrder` | `UsesFirst`, `StrandedWait` (in `TopoSort_proofs`, over variables of their own) | the type invariant |
| `TopoSort` | types, `DegreeCountsUnplaced`, `QueueIsReady`, `ReleasedAfterUses`, `NothingLost`, `StrandedReachCycle`, `FirstReadyInSchemaOrder`; implements `DependencyOrder` | `IInv`, `PlacementInv`, `EndlessInv` |
| `ModuleSort` | types, `EveryModuleOnce`; implements `DependencyOrder` | `IInv` |
| `Resolver` | types, `RecursionIsBounded`, `PathIsCallChain`, `BoundByOwnOrImporter`, `ModuleIsLinked`, `ErrorsAreTrue`; implements `NameBinding` | `TypeInv`, `ProgressInv`, `ItemsInv`, `LinkInv`, `ChainInv`, `PathInv` |
| `Constraints` | `BoundsAreLexical` | `TryInv`, `ArgsFirstInv`, `CopiesInv`, `CourseInv` |
| `Lexer` | `LocationsAreTrue`, `NothingDropped`, `LongestTokens` | `LexInv` |
| `BitStream` | types, `BufferCoversOffset`, `MessageIntact`, `ReaderInStep`; implements `FieldChannel` | `FieldsTile` |
| `SequenceCodec` | types, `DecodedInType`, `MembersInStep`, `RootIntact`; implements `ValueTransfer` | `IInv`: `WriterInv`, `ReaderTypes`, `ReaderInv` |
| `Compiler` | types, `ParsedIsReachable`, `ModulesOnce`, `SourceMeansSuccess` | `ReachInv`, `OutputInv` |

*Orders of types.* The inductive invariant `IInv` has, besides the properties, that
while uses are counted `inDegree[n]` and `dependents` agree with the entries counted
so far (`CountingAgrees`), and that no type uses itself (`NoSelfUse`), which the owner
check in `collect` ensures: without it the degree of a type would never reach zero.
When counting ends the first becomes `DegreeCountsUnplaced` with nothing placed. The
step of `PopAndRelease` rests on one fact about finite sets: placing `n` lowers the
number of unplaced uses of a type by one if it uses `n`, and by none otherwise. For
the refinement, `Emit` is enabled by `QueueIsReady`, giving up by the empty queue, and
the append loop emits only names that were given up on. For `NothingLost`,
`PlacementInv` says that no position is emitted twice and which ones the append loop
has passed; the code leaves that loop out when `result` is as long as
`assignments`, and by counting that happens only when nothing is missing. A cycle
is a set of types each of which uses one of the set; the queue never takes a type
of such a set, and what is left when it is empty is the union of all of them
(`EndlessInv`), so exactly the types that lead to a cycle are stranded.

*Order of modules.* The degree of a module counts FROM clauses, not modules, so two
clauses for one module count twice and are taken off together when it is emitted
(`Waiting`, `ClausesFacts`); that keeps degrees from becoming negative. The
append loop compares names, so a module is missing from the result only if
another of its name, with other imports, is there.

*Resolver.* The recursion, its throws and try blocks are the work list, so the
invariants speak of its shape. `TypeInv`: `link` and `copy` items are of nodes that
are bound, and a binding is to a definition of the name. `RecursionIsBounded` is
inductive with it: a name enters `resolution_path` with its call, and the check of the
path before it keeps the pending calls different. `ProgressInv` says that a reference
outside a parameterized body is bound, or on the list with no `catch` after it that
could swallow its error; it makes an accepted schema bound, the last step of
the refinement of `NameBinding`. `ItemsInv` says whose definitions may be on the list:
those of the module at hand, of a later one that it imports from or that has its name,
and of an earlier one nothing that is unbound. From it follows what another module may
bind (`BoundByOwnOrImporter`), what is linked (`LinkInv`) and why an undefined name is
missing where its own module looks for it. `ChainInv` says that the item between two
pending calls belongs to the definition of the outer one; with `PathInv`, that the
path is the chain of calls, it turns a name met again on the path into a circle of
definitions. In a schema with parameterized types the path may also have names that a
swallowed error left there. An error leaves names behind only if it was thrown out of a
call, in the definition of a type without parameters; it was then a circle, a missing
name or field or a wrong number of arguments there, and `PathInv` (with `Swallowed`) has
that the schema has this fault.

*Constraints.* The invariants are about the resolver, whose marks and copies the
bounds are read from. `TryInv`: behind a body that is resolved in a try block only
assignments wait on the list, so an error that is swallowed there takes no other call
with it. With it, `ArgsFirstInv`: the arguments of an instance are bound, or stand on the
list before its copy is made. `CopiesInv`, which rests on both: a reference in a copy
has the symbol of the node it was copied from or the argument it was substituted by,
unless it was copied before it was bound. `CourseInv`: an accepted schema is one in
which all modules are finished and no import failed. The value `resolveBound` finds
is then followed through its three look-ups, for the body at the end of a chain of
aliases, to one of the definitions that the property allows. That the chain stays
among the definitions, whatever its length, is one more least counterexample.

*Lexer.* `LexInv`: the location is that of the character at hand, each token is as it
is in the source, and from the end of one to the next there is only what may be
skipped. `At` says what a location should be by the line ends before a position: their
number gives the line, the last one the column. One character moves both alike
(`AdvanceOne`), and a scan of any length does, since there is no first position at which
it does not (`LocationIsTrue`). Such a location has one position (`AtFacts`), and
the other two properties read off it where tokens begin and end.

*Bit stream.* `FieldsTile`: fields follow each other without gap or overlap up to the
offset. It makes a write disturb nothing (`WrittenFacts`: bits below the offset are
kept, bits above are zero) and it gives the reader, who knows only lengths, the place
where the next field starts. `VectorIsAnAllocate` discharges the assumption on
`Allocate` for the C++ writer; the run evaluates it for the doubling of the C writer.

*Generated codecs.* The theorems are about any two ends, any types of members and any
values; TLC sees 48 types with octets of 4 bits. They rest on three lemmas for every
primitive and every kind of type. For `PutLength` and `GetLength`, say:
`PutLengthFacts`, it is written behind what is there, which stays; `LengthTrip`, read
where it was written it gives the same value and the reader ends where the writer did,
also when more follows; `GetLengthFacts`, read of any bits the reader stays in the
message and what it gives is of its type. Types that are `Unwritten` at an end have
lemmas of their own (`UnwrittenPlain`, `UnwrittenChoice`), and the others assume that
something is written. `MemberTrip` puts them together for a
member of any type, from its bits (`BitsTrip`) over integers, lengths and indices
(`ConstrainedTrip`, `LengthTrip`, `UnconstrainedTrip`, `AperTrip`, `OidTrip`,
`EnumeratedTrip`) to lists and CHOICEs, `GetMemberFacts` what a C++ decoder makes of
arbitrary bits. A value that a recursive function computes is treated as a course: a
function on `0 .. n` that makes each step, of which `Iterated` shows there is one and
`UpTo` that a property kept by each step reaches the end.

`WriterInv` says what has been laid: the message up to the mark `j + 1` is the message
up to the mark `j` with member `j` (`IsLaid`), the first mark is behind the preamble,
what was written was accepted, and the message handed over is whole octets. Padding,
the bitmap and additions only add behind the last mark. `ReaderInv` says where the
decoder is: at `starts[i]` when all values are `Framed`, with the flags that were
given; members before `i` are kept in their meaning and those from `i` on are
fresh. The step that matters is `DecodeMember`: the decoder counts the ones of the
optional members before a member, the encoder set a bit for each in another loop, and
`PresenceTrip` shows that the two agree for any selection of members. A C++ SET sorts
its members; `SameOrder` is part of `AllFramed`, as a SET with additions that only one
end has need not be sorted alike. `DecodedInType` is inductive beside them, since
`GetMemberFacts` asks nothing of the message, and holds after additions have put
the reader out of step. A SET OF arrives sorted: its meaning is `Sorted`, and
`SortedTwice` makes that well defined. For the refinement, `RefusedForCause` and
`FailsForCause` say that every error has the reason `ValueTransfer` admits.

*Driver.* `ReachInv`: what a parsed file imports, and can be found, is parsed or
waits; and what is parsed or waits is in every set of files that has the input and
is closed under imports. When the worklist is empty, the parsed files are the least
such set, with cyclic imports and with two spellings of one path. `ModulesOnce` needs
nothing beyond types, as parsing a file and appending its modules is one step.
`OutputInv`: the files written are a prefix of `Outputs`, whose last is the source
file, nothing is written before the last module that the sorting returned is done, and
after a failure the prefix is a proper one. That a module which was not returned has
another of its name in the result, with other FROM clauses, follows from how the queue
treats them: two modules that import from the same names wait for the same modules.

`InOrder_proofs` shows once what loops over sets need: the members of a finite set
under a strict total order are listed each once, and a search for the first hit
finds the least. It takes the place of an induction: the least number that is a
counterexample is taken from `WellFoundedInduction`.

*The assumptions* are the named `ASSUME`s: finite sets of names; schemas and inputs
that are sequences of assignments or modules; worlds whose files are at paths, hold
modules and are not also broken; a path without a directory that is no directory;
sources that are sequences of characters; names of values that are no primitives, which
the parser tells by the first letter; bounds that are numbers; and the growth of the
buffer. For the codecs: octets of at least 4 bits and words of at least 4 octets, the
number of which fits in a length of one octet; a logarithm that is exact up to 32
bits (`std::log2` of a `double` is); `Bad` and `Absent` are no values; and of an exchange
(`ExchangesAssumption`) that types are well formed, both ends use the same rules,
versions of a type differ in the additions only, tags of a SET differ, at most 64
members are optional, as `presenceBitmap` is a `uint64_t`, and values are those that
the C++ or C type of the member can hold. None limits how many modules,
files, types or fields there are, or how they refer to each other.

*Only model-checked:* termination of `Parser`, `Resolver` and `Compiler`, since
liveness is out of the prover's reach; and the parser, the generated headers and the
adapters. What a recursive walk over a tree of types computes, in `Parser`'s round trip,
`Headers`, `JsonFile` and `JsonCodec`, would need induction over data, which the prover
does not do, and those modules use recursive operators, which TLC only can evaluate.

## What is not modelled, and the plan

* Resolver: fields of object sets, open types and `buildOpenTypeMap`, and AUTOMATIC
  TAGS. Tags matter in one place only, the order of a SET in C++: `AUTOMATIC TAGS`
  gives tags to the members of the types at the top of a module and not to those
  nested in them, and the C++ codec generator throws for a SET whose members have
  none. It decides whether a schema compiles, not what is encoded.
* Constraints: table constraints, and the range that two bounds make; `MemberCodec`
  takes ranges as given.
* Codecs: `recursion_depth` and `processingNodes`, code for types that are no members,
  members whose type is a field of a class. Members nest one level: a list of scalars, a CHOICE of scalars and
  lists. Deeper nesting calls the inner type's code at the current offset, as a
  member does.
* JSON: the `ies` arrays, element types that are references, the order of adapters
  in the file, the digits of bit strings.
* Argument parsing, `--test`, `assignTags`, logging, layout, the escaping of keywords
  and the text inside declarations.

Next:

1. The recursion limits of the codec generators over type graphs: what is left out
   of a message because of them, and whether both sides leave it out.
2. Open types: the types of an object set are resolved before the members beside
   them.
