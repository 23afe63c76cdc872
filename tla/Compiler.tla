------------------------------ MODULE Compiler ------------------------------
(***************************************************************************)
(* main (CompilerMain.cpp): files are parsed from a worklist that follows  *)
(* the imports, references are resolved, code is generated module by       *)
(* module, and up to four files are written.                               *)
(*                                                                         *)
(* Resolver and ModuleSort model two of the calls in detail.  Here the     *)
(* first is its check of the imports and the choice to fail for any other  *)
(* reason; of the second, topoSortModules, the modules it returns are      *)
(* exact and their order is any order.                                     *)
(***************************************************************************)
EXTENDS Naturals, Sequences, FiniteSets, SequencesExt, InOrder

CONSTANTS Places,     \* directories, as they are spelled in a path
          NoPlace,    \* a path without a directory; not in Places
          Names,      \* of modules, and so of files
          Types,      \* names of types
          Worlds      \* what the compiler may be started in

(* A path is a directory as it is spelled and the name of a module.        *)
Path == (Places \cup {NoPlace}) \X Names

(* A module: its types, those of them no code is generated for, and for    *)
(* each FROM clause the module and the symbols.                            *)
Clause == [from : Names, symbols : SUBSET Types]
Module == [name : Names, types : SUBSET Types, skipped : SUBSET Types,
           clauses : Seq(Clause)]

Lang == {"cpp", "c"}

ASSUME PlacesAssumption == NoPlace \notin Places

(* A world: the command line; files, the modules in each file that can be  *)
(* read, by path; broken, the files that cannot be parsed.                 *)
ASSUME WorldsAssumption ==
  \A w \in Worlds :
    /\ w.lang \in Lang /\ w.input \in Path /\ w.includes \in Seq(Places)
    /\ DOMAIN w.files \subseteq Path /\ w.broken \subseteq Path
    /\ \A p \in DOMAIN w.files : w.files[p] \in Seq(Module)
    /\ w.broken \cap DOMAIN w.files = {}

VARIABLES world,         \* never changes
          phase,         \* "load", "resolve", "generate", "write"
          filesToParse, parsedFiles, all_asts,
          generated,     \* positions of all_asts code was generated for
          emitted,       \* moduleEmittedTypes: module name -> types
          adapters,      \* JSON adapters: position of a module and a type
          saved,         \* the files written so far, in order
          exit,          \* "running", "0", "1"
          reason         \* of exit 1

vars == <<world, phase, filesToParse, parsedFiles, all_asts, generated,
          emitted, adapters, saved, exit, reason>>

loading == <<filesToParse, parsedFiles, all_asts>>
generation == <<generated, emitted, adapters>>

-----------------------------------------------------------------------------

Exists(path) == path \in DOMAIN world.files \cup world.broken

(* findModuleFile: beside the importing file if its path has a directory,  *)
(* then in the include paths, then as a bare file name.                    *)
SearchPath(path) ==
  (IF path[1] = NoPlace THEN <<>> ELSE <<path[1]>>)
    \o world.includes \o <<NoPlace>>

Hits(m, path) ==
  {k \in DOMAIN SearchPath(path) : Exists(<<SearchPath(path)[k], m>>)}

FileOf(m, path) == <<SearchPath(path)[Min(Hits(m, path))], m>>

(* The FROM clauses of the modules of a file whose module is found: the    *)
(* module's position and the clause's, in the order of the text.           *)
ClausesFound(path) ==
  LET modules == world.files[path]
  IN  {c \in UNION {{i} \X DOMAIN modules[i].clauses : i \in DOMAIN modules} :
         Hits(modules[c[1]].clauses[c[2]].from, path) # {}}

TextOrder(clauses) ==
  {p \in clauses \X clauses :
     \/ p[1][1] < p[2][1]
     \/ p[1][1] = p[2][1] /\ p[1][2] < p[2][2]}

InText(path) == InOrder(ClausesFound(path), TextOrder(ClausesFound(path)))

ImportOf(c, path) == FileOf(world.files[path][c[1]].clauses[c[2]].from, path)

(* The files that the modules of a file import, in order.                  *)
Imported(path) ==
  [k \in DOMAIN InText(path) |-> ImportOf(InText(path)[k], path)]

(* isSymbolDefined of the table that has the assignments of all modules.   *)
Defined(m, t) ==
  \E i \in DOMAIN all_asts : all_asts[i].name = m /\ t \in all_asts[i].types

ImportsDefined ==
  \A i \in DOMAIN all_asts : \A c \in Range(all_asts[i].clauses) :
    \A t \in c.symbols : Defined(c.from, t)

Running == exit = "running"

Fail(why) == exit' = "1" /\ reason' = why

-----------------------------------------------------------------------------

Init ==
  /\ world \in Worlds
  /\ phase = "load"
  /\ filesToParse = <<world.input>>
  /\ parsedFiles = {} /\ all_asts = <<>>
  /\ generated = {} /\ emitted = <<>> /\ adapters = {}
  /\ saved = <<>>
  /\ exit = "running" /\ reason = "none"

Loading == Running /\ phase = "load" /\ filesToParse # <<>>

Current == Last(filesToParse)

(* Faults: a file that cannot be read counts as parsed; the worklist keeps *)
(* what is skipped.                                                        *)
SkipFileAsParsed ==
  /\ Loading
  /\ Current \in parsedFiles \/ ~ Exists(Current)
  /\ filesToParse' = Front(filesToParse)
  /\ parsedFiles' = parsedFiles \cup {Current}
  /\ UNCHANGED <<world, phase, all_asts, generation, saved, exit, reason>>

SkipFileKept ==
  /\ Loading
  /\ Current \in parsedFiles \/ ~ Exists(Current)
  /\ UNCHANGED vars

(* A path that has been parsed, or a file that cannot be read.             *)
SkipFile ==
  /\ Loading
  /\ Current \in parsedFiles \/ ~ Exists(Current)
  /\ filesToParse' = Front(filesToParse)
  /\ UNCHANGED <<world, phase, parsedFiles, all_asts, generation, saved,
                 exit, reason>>

(* The lexer or the parser throws.                                         *)
ParseFails ==
  /\ Loading
  /\ Current \in world.broken
  /\ Fail("syntax")
  /\ UNCHANGED <<world, phase, loading, generation, saved>>

(* Faults: only the imports of the input are followed; a parsed file is    *)
(* parsed again.                                                           *)
ParseFileDirectImports ==
  /\ Loading
  /\ Current \in DOMAIN world.files \ parsedFiles
  /\ parsedFiles' = parsedFiles \cup {Current}
  /\ all_asts' = all_asts \o world.files[Current]
  /\ filesToParse' = Front(filesToParse)
                     \o (IF parsedFiles = {} THEN Imported(Current) ELSE <<>>)
  /\ UNCHANGED <<world, phase, generation, saved, exit, reason>>

ParseFileAgain ==
  /\ Loading
  /\ Current \in DOMAIN world.files
  /\ parsedFiles' = parsedFiles \cup {Current}
  /\ all_asts' = all_asts \o world.files[Current]
  /\ filesToParse' = Front(filesToParse) \o Imported(Current)
  /\ UNCHANGED <<world, phase, generation, saved, exit, reason>>

ParseFile ==
  /\ Loading
  /\ Current \in DOMAIN world.files \ parsedFiles
  /\ parsedFiles' = parsedFiles \cup {Current}
  /\ all_asts' = all_asts \o world.files[Current]
  /\ filesToParse' = Front(filesToParse) \o Imported(Current)
  /\ UNCHANGED <<world, phase, generation, saved, exit, reason>>

NothingParsed ==
  /\ Running /\ phase = "load" /\ filesToParse = <<>>
  /\ all_asts = <<>>
  /\ Fail("empty")
  /\ UNCHANGED <<world, phase, loading, generation, saved>>

EndLoad ==
  /\ Running /\ phase = "load" /\ filesToParse = <<>>
  /\ all_asts # <<>>
  /\ phase' = "resolve"
  /\ UNCHANGED <<world, loading, generation, saved, exit, reason>>

(* resolveReferences throws: over an import, or for another reason that a  *)
(* module before that import, or any, may give.                            *)
ResolveFails ==
  /\ Running /\ phase = "resolve"
  /\ \E why \in {"reference"} \cup (IF ImportsDefined THEN {} ELSE {"import"}) :
       Fail(why)
  /\ UNCHANGED <<world, phase, loading, generation, saved>>

Resolve ==
  /\ Running /\ phase = "resolve"
  /\ ImportsDefined
  /\ phase' = "generate"
  /\ UNCHANGED <<world, loading, generation, saved, exit, reason>>

(* topoSortModules.  Module i waits for module j: a FROM clause of i has   *)
(* the name of j, and j is the last module of that name.                   *)
WaitsFor(i, j) ==
  /\ i # j
  /\ \E c \in Range(all_asts[i].clauses) : c.from = all_asts[j].name
  /\ \A k \in DOMAIN all_asts : all_asts[k].name = all_asts[j].name => k <= j

(* The queue never comes to the modules that wait for each other, nor to   *)
(* those that wait for such: every one waits for another of them.          *)
AllWait(S) == \A i \in S : \E j \in S : WaitsFor(i, j)

Stranded == UNION {S \in SUBSET DOMAIN all_asts : AllWait(S)}

(* The append loop adds them, but for those whose name is in the result.   *)
Lost ==
  {i \in Stranded : \E j \in DOMAIN all_asts \ Stranded :
                      all_asts[j].name = all_asts[i].name}

(* Fault: the loop adds none of them.                                      *)
KeptOfQueue == DOMAIN all_asts \ Stranded

(* The modules that are generated.                                         *)
Kept == DOMAIN all_asts \ Lost

Emittable(i) == all_asts[i].types \ all_asts[i].skipped

(* One module of the loop of either back end over the sorted list.         *)
GenerateModule(i) ==
  /\ Running /\ phase = "generate"
  /\ i \in Kept \ generated
  /\ generated' = generated \cup {i}
  /\ emitted' = IF world.lang = "c" THEN emitted
                ELSE [m \in DOMAIN emitted \cup {all_asts[i].name} |->
                        IF m = all_asts[i].name THEN Emittable(i) ELSE emitted[m]]
  /\ UNCHANGED <<world, phase, loading, adapters, saved, exit, reason>>

(* An emitter throws.                                                      *)
GenerateFails ==
  /\ Running /\ phase = "generate"
  /\ generated # Kept
  /\ Fail("emitter")
  /\ UNCHANGED <<world, phase, loading, generation, saved>>

(* Only the C++ back end looks at --json and --schema.                     *)
Extra(f) == IF world.lang = "cpp" /\ f \in world.extras THEN <<f>> ELSE <<>>

(* Fault: the source file is written before the header.                    *)
OutputsSourceFirst == Extra("json") \o Extra("schema") \o <<"source", "header">>

Outputs == Extra("json") \o Extra("schema") \o <<"header", "source">>

EndGenerate ==
  /\ Running /\ phase = "generate"
  /\ generated = Kept
  /\ phase' = "write"
  /\ adapters' =
       IF "json" \notin Range(Outputs) THEN {}
       ELSE {a \in Kept \X Types :
               /\ a[2] \in all_asts[a[1]].types
               /\ a[2] \in emitted[all_asts[a[1]].name]}
  /\ UNCHANGED <<world, loading, generated, emitted, saved, exit, reason>>

Writing == Running /\ phase = "write"

NextOutput == Outputs[Len(saved) + 1]

(* saveFile succeeds once the file is open; what becomes of the stream     *)
(* afterwards is not looked at.                                            *)
SaveFile ==
  /\ Writing
  /\ Len(saved) < Len(Outputs)
  /\ \E whole \in BOOLEAN :
       saved' = Append(saved, [file |-> NextOutput, whole |-> whole])
  /\ UNCHANGED <<world, phase, loading, generation, exit, reason>>

SaveFails ==
  /\ Writing
  /\ Len(saved) < Len(Outputs)
  /\ Fail(NextOutput)
  /\ UNCHANGED <<world, phase, loading, generation, saved>>

Succeed ==
  /\ Writing
  /\ Len(saved) = Len(Outputs)
  /\ exit' = "0"
  /\ UNCHANGED <<world, phase, loading, generation, saved, reason>>

Next ==
  \/ SkipFile \/ ParseFails \/ ParseFile \/ NothingParsed \/ EndLoad
  \/ ResolveFails \/ Resolve
  \/ \E i \in DOMAIN all_asts : GenerateModule(i)
  \/ GenerateFails \/ EndGenerate
  \/ SaveFile \/ SaveFails \/ Succeed

Spec == Init /\ [][Next]_vars

FairSpec == Spec /\ WF_vars(Next)

-----------------------------------------------------------------------------

TypeOK ==
  /\ world \in Worlds /\ phase \in {"load", "resolve", "generate", "write"}
  /\ filesToParse \in Seq(Path) /\ parsedFiles \subseteq DOMAIN world.files
  /\ all_asts \in Seq(Module)
  /\ generated \subseteq DOMAIN all_asts
  /\ emitted \in [DOMAIN emitted -> SUBSET Types]
  /\ adapters \subseteq (DOMAIN all_asts) \X Types
  /\ saved \in Seq([file : Range(Outputs), whole : BOOLEAN])
  /\ exit \in {"running", "0", "1"}

(* S has the input and what its members import, of the files of a set.     *)
Closed(S, files) ==
  /\ {world.input} \cap files \subseteq S
  /\ \A p \in S : Range(Imported(p)) \cap files \subseteq S

(* Only files are parsed that the imports lead to from the input, and when *)
(* loading ends all of them have been, cyclic imports included.            *)
ParsedIsReachable ==
  /\ \A S \in SUBSET DOMAIN world.files :
       Closed(S, DOMAIN world.files) => parsedFiles \subseteq S
  /\ phase # "load" =>
       /\ world.input \in parsedFiles
       /\ Closed(parsedFiles, DOMAIN world.files \cup world.broken)

(* One file may be reached under two spellings of its path, and two files  *)
(* may hold modules of the same name.                                      *)
NamesUnambiguous ==
  /\ \A p, q \in parsedFiles : p # q =>
       \A x \in Range(world.files[p]), y \in Range(world.files[q]) : x.name # y.name
  /\ \A p \in parsedFiles : \A i, j \in DOMAIN world.files[p] :
       world.files[p][i].name = world.files[p][j].name => i = j

(* The modules of the parsed files, and no others, are compiled; unless    *)
(* two of the files have one name between them, none is compiled twice,    *)
(* however often it is imported.                                           *)
ModulesOnce ==
  /\ Range(all_asts) = UNION {Range(world.files[p]) : p \in parsedFiles}
  /\ NamesUnambiguous =>
       \A i, j \in DOMAIN all_asts : all_asts[i].name = all_asts[j].name => i = j

FromNames(i) == {c.from : c \in Range(all_asts[i].clauses)}

(* The source file is written only by a run that succeeds, after every     *)
(* other output and with the code of every module, but for a module that   *)
(* gave way to one of its name that imports from other modules; exit 0     *)
(* means that the file is there.                                           *)
SourceMeansSuccess ==
  LET files == [k \in DOMAIN saved |-> saved[k].file]
  IN  /\ "source" \in Range(files) =>
           /\ files = Outputs /\ exit # "1"
           /\ \A i \in DOMAIN all_asts \ generated :
                \E j \in generated : /\ all_asts[j].name = all_asts[i].name
                                     /\ FromNames(j) # FromNames(i)
      /\ exit = "0" => "source" \in Range(files)

(* The compiler comes to an end.                                           *)
Termination == <>(exit # "running")

=============================================================================
