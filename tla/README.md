# Verification of NexiaCompiler

TLA+ models, model-checking runs and machine-checked proofs for NexiaCompiler (`nexiac`), a
cross compiler from C++ to Xbox 360 executables. Line numbers are those of the sources under
`src/src/` and `src/include/` of the repository.

- [1. The system](#1-the-system): components, state, operations, what is hard about them
- [2. Plan](#2-plan): which module comes when, and which theorems are worth proving
- [3. The modules](#3-the-modules): how state and actions correspond to the code
- [4. The runs](#4-the-runs): what is checked, with which bounds and which fairness
- [5. The proofs](#5-the-proofs): what holds for every value of the constants, and why
- [6. What the code does otherwise than it says](#6-what-the-code-does-otherwise-than-it-says)
- [7. What is not modelled](#7-what-is-not-modelled)

`PROJECT.json` lists the components, runs, mutants, hazards and theorems, and maps every definition to
the lines it stands for.

## 1. The system

`nexiac` is one process and one thread: no component runs concurrently with another, and nothing is
persisted between two runs but the output files. The hard behaviours are therefore those of worklists,
recursion turned into saved state, tables filled in one phase and read in a later one, limits,
and arithmetic on addresses.

    main.cpp ──> Compiler::compile_file, once for each source file
                   Preprocessor ─> Lexer ─> Parser ─> SemanticAnalyzer ─> CodeGenerator ─> ObjectFile
                                                                    (RegisterAllocator)
              ──> Linker::link(objects, libraries)
                   CoffLibReader (one per library) ─> symbol resolution ─> layout ─> import table
                   ─> write_pe  or  ElfWriter::write
              ──> XexConverter: ELF or PE ─> XEX

| Component | State it keeps | Operations | Hard about it | What makes it correct |
|---|---|---|---|---|
| Driver (`main.cpp`, `compiler.cpp`) | options, list of objects, log stream | parse arguments, compile each source, link, convert | a failure in one phase and what the later ones see; files left behind | the exit code tells whether the output exists |
| Preprocessor | `macros_`, `included_files_`, depth, a stack of conditional groups per file | walk a file line by line, conditionals, `#include`, `#define`, expansion | files that include themselves or each other; groups inside skipped groups; the order of `#define` and use | the lines the language selects are emitted, with the macros of that point; the walk ends |
| Lexer | a cursor, line and column | one token at a time | comments and literals cut off by the end of the file | each step consumes something; positions are right |
| Parser | a cursor, the errors so far | recursive descent; after an error it skips and goes on | recovery must consume something, or the loop never ends | it ends on every input; precedence of operators |
| Semantic analyzer | a stack of scopes, the current function, depth of loops and switches | forward registration, then a full pass | declarations seen in both passes; leaving a scope on every path | undeclared and misplaced constructs are reported, others are not |
| Code generator | instructions, labels, branches to fill in, current targets of `break`, `continue` and `throw` | one handler for each kind of node | labels used before they are placed; targets saved and restored around nested constructs | the code does what the statements say; every branch has a target |
| Register allocator | places of the variables, bytes of the frame, next temporary | allocate a local, a parameter, a temporary | mixed sizes; more parameters than registers; what a callee may write | slots and registers are never shared; the return address survives |
| Standard library stubs | encoded PowerPC words | emit each function | fixed branch offsets | each loop does what its comment says |
| Library archive reader (`coff_reader`) | symbol map, member offsets; per search: pending, resolved, extracted | load, read the symbol table, parse a member, extract what is needed | members reached again under another name; imports found while the list is walked; the limit on the rounds | each member once, nothing lost, it ends |
| Linker | tables of defined and undefined names, sections, DLL imports | collect, search the libraries, place, import table, fall back, report, write | one name defined in several places and under several spellings; tables that grow while a copy of them is in use | the first definition wins; sections are disjoint; every import is accounted for |
| Image writers (`linker.cpp`, `elf_writer`) and XEX converter | a byte buffer | headers, sections, imports; wrap a PE or ELF image | alignment and offsets computed in two places | the offsets in the headers are where the bytes are |
| Optimizer | none that outlives a call | constant folding and others | it is never called | |
| Error reporter, debug info | lists of messages and of line records | add, write | | |
| SDK headers, test suite | constant texts | write files; run the built-in tests | | |

Components interact by calls alone. The state shared across a boundary is: the token list and the syntax
tree (built by one phase, read by the next), the `RegisterAllocator` a `CodeGenerator` makes for each
function, the object files handed to the linker, and the symbol map of each archive, which the linker reads
to decide what to ask the reader for.

The hazards that a test would hardly reach are listed in `PROJECT.json`, each at its line, with
the properties that would catch it going wrong.

## 2. Plan

The order follows what can go silently wrong in an executable: first the loops that decide what is in it.

1. **Archive reader**: `CoffNames`, `CoffMembers`, `CoffArchive`, `ArchiveExtract`, with the abstract
   specification `ArchiveClosure` (what pulling members promises, without rounds and lists), and `LibraryReader`, which
   composes loading and extraction as the linker calls them; proofs in `ArchiveProofs`. *Done.*
2. **Linker**: `Linker`, which composes `ArchiveExtract` (as `Reader`) for each library; proofs in
   `LinkerProofs`, which reuse `ArchiveProofs`. *Done.*
3. **Preprocessor**: `Preprocessor` against the meaning of nested groups, `MacroExpansion` against an expansion of
   tokens with hide sets, and `PreprocessedText`, which composes them; proofs of both and of their composition in `PreprocessorProofs`. *Done.*
4. **Code generator**: `CodeGenerator`, and in `CompiledCode` its output run against the meaning of the statements;
   `StackFrame` for the allocator and the frame; proofs in `CodeGeneratorProofs`, up to the theorem that the code means what the
   statements mean, and in `StackFrameProofs`. *Done.*
5. **Emitted code**: `Expressions` (temporaries and registers of nested expressions), `StandardLibrary` (the stubs),
   `PpcInstructions` (their words) and `PpcMachine` with `Execution`, which runs them. *Done.*
6. **Semantic analyzer**: `SemanticAnalyzer`, its three passes against a meaning read off the tree; proof in
   `SemanticProofs`. *Done.*
7. **ImageLayout**: PE, ELF and XEX: headers, section offsets and the import table; **Driver**, which composes it
   with the command line program; proofs of both in `ImageProofs`. *Done.*
8. **Lexer and parser**: `Lexer`, `Syntax` and `Parser` against a printer; `LexerProofs`. *Done.*

Each module is written so that it can be proved about: parameters are CONSTANTS with named assumptions, one
action for each operation, invariants are conjunctions of named parts, and no RECURSIVE operator
appears in a module with proofs or in one they use (the recursive ones are `Syntax`, whose methods call each other in circles, and
the reference meanings in the MC modules).

## 3. The modules

### Archive reader (`coff_reader.cpp`)

- **CoffNames**: a symbol name is a base name under one of six decorations. `Undecorated` and `ImpVariant`
  are what the code's string operations do to them.
- **CoffArchive**: `load` and `parse_first_linker_member`. One action per entry of the table; a file is
  reduced to what the code decides on (it opens, has the signature, the count fits).
- **LibraryReader**: one library as `link()` uses it: `Load` are the steps of `CoffArchive`, and only when they have
  come to their end, with the map they left, `Extract` are those of `ArchiveExtract`.
- **CoffMembers**: what `extract_member` and `parse_coff_object` return for a regular member, for an import
  definition of each name type, and for an offset outside the file.
- **ArchiveExtract**: `extract_needed`. The while loop and its inner loops are actions on the
  function's own locals: `StartRound` (the loop's condition and the fresh `new_pending`), `Skip`,
  `AlreadyExtracted` and `ExtractMember` (the three ways through the body), `QueueImport` and `EndImports` (the
  loop over the member's imports), `EndRound` (`pending = new_pending`), `Return`. `pc` is the place in the function.
- **ArchiveClosure**: the abstract specification. Members are linked one at a time, only on demand; the job is
  complete when each demand the archive can meet is met; giving up is allowed only after `Budget` members.

### Linker (`linker.cpp`)

- **Linker**: `link()`. Every loop is a stage with cursors `lib`, `obj` and `item`, every pass an action:
  `DefineCompiled`, `CollectImport` and `EndCollect` fill the two symbol tables; for each library
  `SelectSymbol` and `NothingSelected` build the list of names to ask for (five spellings of each),
  `CallExtract`, `Extract` and `EndExtract` run the reader, `AbsorbMember` takes the objects over,
  `FilterSymbol` drops what is defined now; `PlaceObject` and
  `CollectDllImport` lay out the objects and the import entries; `FallBack` (once with each of the two
  ordinal tables), `SkipSettled` and `ReportUnresolved` go over what is left; `WriteImage` picks the writer.
  Code and data are lengths. `std::sort` by ordinal is not stable: any order of equal ordinals is allowed.
  An address counts from the start of its section: the code keeps code and data apart until the image is written.

### Preprocessor (`preprocessor.cpp`)

- **Preprocessor**: `process_internal` and the handlers of the directives. The recursion of `#include` is a
  stack of frames [path, next line, groups]. Each line is one action. What `evaluate_constant_expression` does
  is modelled as it is: one operand, perhaps negated; operands joined to it do not count. Text
  lines carry the macro table they are expanded with. Comments and continuation lines are left out.
- **MacroExpansion**: `expand_macros` on a text, a sequence of characters. Its recursion is a list of `frames` (text,
  position, result) with the `names` of the macros the inner ones are for, besides the set `expanding` that all calls share.
  Each turn of its loop is an action: `CopyQuoted`, `CopyIdentifier`, `CopyOther`, the calls `ReplaceObject` and
  `ReplaceFunction`, and `Return`. What stands behind a call is computed as the code does it, by searching texts:
  `Arguments` (`parse_macro_arguments`), `Substitute` (one parameter), `ReplaceWholeWord`, `ExpandFunctionMacro`.
- **PreprocessedText** composes the two: a line of text of an active group starts an expansion with the macros of that
  moment (`StartText`), the walk waits while it goes on (`ExpandText`), and its result is the line of output (`EmitText`).
- **MCPreprocessor** writes trees out as lines and gives them their meaning (`Run`), independently of the walk. The meaning of a
  line of text (`Std`) is that of the language: tokens that know the macros they come from, and arguments expanded
  before they are put in. It shares the definitions of an identifier and of a literal with the model, and nothing of the search.

### Code generator (`code_generator.cpp`)

- **CodeGenerator**: `generate`, `generate_function`, `pre_scan_locals`, all statement handlers and
  `patch_branches`. The recursion is a stack `todo` of items: statements to be generated, and, below them, the rest
  of each handler that is waiting, with the labels it took and the targets it saved in C++ locals.
  An expression is one instruction here; `Expressions` below is about what it is made of. `counter` is `label_counter_`, `out` holds `instructions_`, `labels_` and `patches_`.
- **CompiledCode** composes the generator with a run of what it wrote. Statements get their meaning as a stack of what is left to execute
  (`rest`, `Unfolded`, `Taken`), the generated instructions run on a machine with a program counter and return addresses (`MachineStep`),
  and both take together each step that shows: an expression, or a condition with either result. `Expected` is what the generator
  takes for granted about a unit, one line for each of its silent assumptions (section 6 has what happens otherwise).
- **MCCodeGenerator** builds the programs.
- **StackFrame**: `RegisterAllocator`, and the frame as it is used: the prologue (`Enter`), stores into
  locals and arrays (`Store`), calls of other functions (`Call`, which writes what a prologue
  writes) and the epilogue (`Leave`). Addresses are relative to r1 at entry; memory maps a word to its last writer.

### Emitted code (`code_generator.cpp`, `register_allocator.cpp`, `standard_library.cpp`, `ppc_instructions.cpp`)

- **PpcInstructions**: the encoders, as records of the fields they put into a word; a displacement is cut to its width.
- **PpcMachine** (external): what a PowerPC does with such a word: registers of 32 bits with a sign, memory of words
  and bytes, LR, one condition field. An address nobody gave to the program stops it.
- **StandardLibrary**: the words of every stub, in the order of the code, with the branch distances it writes.
- **Expressions**: `generate_expression` and what it calls, declarations, expression statements and `return`. A generator is a record
  (code so far, next temporary, string pool, places of the variables), and each `generate_` function takes one and gives the next.
- **Execution**: a task is code, where it is entered, registers and memory, the addresses it may write (`own`), what is to be in
  memory in the end (`promise`), whether it comes back, and its result. One action for each kind of instruction.
- **MCExecution** builds the tasks; `Eval` is the meaning of an expression, by the rules of the language and without registers. It has
  the stubs that do what the comments in front of them say, and tells of a list element (`Told`) where three defects of the code
  cannot reach: an element without a temporary, or with temporaries that begin behind r3 and end before the eleventh, and the variables
  if there is no call.
- **MCDocumented** has the rest: a session of fourteen calls of stubs and compiled units, each expected to do what the repository says,
  whose outcomes are written down one by one (`outcome`). It does not hold, and the end of its trace lists what each call did (section 6).

### Lexer and parser (`lexer.cpp`, `parser.cpp`)

- **Vocabulary**: the classes of characters, the keywords and the operators.
- **Lexer**: `tokenize`. The readers' loops are modes, and one turn of a loop is an action: `SkipBlank`, `BlockComment`, `String`, `Whole`
  and so on. `here` is `pos_`, `line_` and `col_`; `kept` is the place saved before the look ahead for a string to join, given
  back by `EndString`. `error` is where a `LexerError` points.
- **Syntax**: the recursive descent, an operator for each `parse_` method, from a parser's state (position, registered types and
  templates, what typedefs define) to the next. An exception is `ok = FALSE`, which nothing changes but a catch clause (`Resume`).
- **Parser**: `parse`, one action for each case of its loop, after the lexer in the order of `compile_file`.
- **Programs** prints trees as texts in three layouts (with blanks, without, with comments and line ends) and builds damaged and raw texts;
  **MCFrontend** states the properties.

### Semantic analyzer (`semantic_analyzer.cpp`, `symbol_table.cpp`)

- **SemanticAnalyzer**: `analyze` with its three passes: `Collect...` (enumerators), `Forward...` (declarations)
  and one action for each statement, expression and what is left of a handler after a recursive call
  (`LeaveScope`, `LeaveLoop`, `DefineVariable`, `Returned`, `OperatorType`, ...). The recursion is the stack `todo`, as in
  `CodeGenerator`; `scopes` is the chain from `current_scope_` to the global scope, and `types` what `analyze_expression` returned.
  A type is a base name and a depth of pointers; an array is written as the pointer it decays to. A unit is a sequence of nodes
  that each name the node around them; what a typedef defines is `hoisted`, since the parser puts it last.
- **MCSemanticAnalyzer** builds the units and says what must be reported of them without visiting in any order:
  from a node to the nodes around it and the declarations before it.

### Image writers, XEX converter, driver (`linker.cpp`, `elf_writer.cpp`, `xex_converter.cpp`, `main.cpp`, `compiler.cpp`)

- **ImageLayout**: a buffer is its size and the parts put into it, each with position and size; header fields
  are computed as the code computes them, before. `WritePe`, then the loops of `build_idata_section` (`CountDll`, `SizeIdata`,
  `NameDll`, `Thunks`, `DescribeDll`), then `PeHeaders`, `PeText`, `PeData`, `PeImports` and `SavePe`; the four steps
  of `ElfWriter::write`; `WrapPe` or `OpenElf`, `ExtractSegment` and `BuildPeImage`; and the five parts of a XEX file. `build_pe_image`
  and the tail of `write_pe` are one set of actions with different `layout`s, and so are the two functions that build a XEX.
  A file that cannot be opened stays unwritten (`SavePe`, `SaveElf`, `SaveXex` may fail); what an earlier run left there is not
  represented. Sizes are small enough that no sum leaves 32 bits, and no written file is shorter than its header.
- **Driver**: `main` and `compile_file`, composed with `ImageLayout`: `phase` is the place in `main`, and `Link` and `ConvertImage` let
  the writers and the converter take their steps. What `link()` decides about symbols is `Linker`; here it hands over a
  program. `Fate` says in which phase a source fails; what the parser recovers from by itself is no failure
  (parser.cpp:179-180), so a declaration with a syntax error may just be missing. A library is the set of directories that have it.

## 4. The runs

Deadlock is checked in `semantic`, `semantic_methods` and `frontend`, where a step that stutters stands for the end. The other computations are
supposed to stop (`CHECK_DEADLOCK FALSE`), and the liveness properties say that they do.

| Run | Instances | States | Properties |
|---|---|---|---|
| `archive` | every archive of two members over three names and one corrupt offset, every assignment of three single-name members, every table of up to three entries over two bases and three decorations, and files that are refused; requests of one or two names; limit of 2 rounds | 742,153 | `MapIsFirstMatch`, `EachMemberOnce`, `ExtractedOnDemand`, `NothingLost`, refinement `ImplementsClosure`, `Terminates` |
| `linker` | every program of one or two objects from the sets in `MCLinker`, with one library of any two of 13 members, any two libraries of one, or a library that does not load | 914,366 | `FirstDefinitionWins`, `FirstLibraryWins`, `RegionsDisjoint`, `UserDefinitionsStand`, `UserImportsAccounted`, `ReportIsRight`, `ImportTableComplete`, `Returns` |
| `preprocessor` | 5000 programs of up to three files (nested groups, guarded, `once` and mutually including headers) and every sequence of at most four of five directives, include depth 2; 2900 that define up to four macros, each in one of two ways (bodies that name each other, `#`, `##`, two parameters, `__VA_ARGS__`), and use them in one of 50 texts | 227,205 | `NestingSound`, `PastedOnce`, `SelectionIsRight`, `ExpansionRight`, `Terminates` |
| `codegen` | 1314 programs of two functions: every statement in every other, jumps after a nested statement, either order of the functions; both results of every condition | 66,854 | `EveryBranchLands`, `SameBehaviour`, `LabelsStay`, `Progress` |
| `stack_frame` | every way to declare up to three names with four types, array lengths 1 and 3, two integer and one float register, at most 20 bytes of locals; displacements of 7 bits | 1,538,609 | `SlotsDisjoint`, `RegistersDistinct`, `ReturnAddressKept` |
| `semantic` | 13,925 units: every body of up to three statements of 13 kinds that the grammar allows, in a free function, one with a parameter, an operator and a method, with a second function behind it; every expression of depth two over two variables, a class, a function and an unknown name; four units with all kinds of declarations | 331,040 | `ContextsMatch`, `DiagnosticsRight` |
| `driver` | the program on every combination of flags, the fates of up to two sources, the places of up to two libraries, every suffix of the output and state of imagexex with a few programs; and on 5616 programs with code and data sizes at and around 4, 16, 512 and 65536, an entry at the start, in the middle and at the end, up to three DLLs, and both formats | 302,539 | `OffsetsRight`, `SectionsApart`, `ImportsLinked`, `ProgramInXex`, `ExitCodeTells` |
| `execution` | memset on a memory of eight bytes, abs up to zero and the stubs without a loop; 2,000 units of a main function with a list of two expressions and two helpers: every operator on variables and literals, one operator in another, assignments, calls, indices, conditionals, chains of up to eleven temporaries in front of each other | 60,957 | `CallerKept`, `ResultRight`, `Delivers` |
| `frontend` | every construct of an expression in every operand of another, the same for statements, in three layouts; every two of 28 kinds of declaration; every damage of up to three words in a body and between declarations; every text of up to five characters over eight alphabets | 934,378 | `PositionsRight`, `RoundTrip`, `RecoveryLocal`, `Terminates` |
| `linker_unresolved`, `semantic_methods` | smaller instances of the same modules | | one statement of a comment each, and a behaviour of the code that contradicts it: section 6 |
| `documented` | one session of fourteen calls: nine stubs, two of them twice, and three units of the kind `execution` has | 496 | `AsDocumented`, violated: what the comments say of the stubs, the temporaries and the frame, section 6 |

The type invariants of `ArchiveExtract`, `Linker`, `Preprocessor`, `CodeGenerator`, `SemanticAnalyzer`, `ImageLayout` and `StackFrame` are proved
(section 5) and not run again.

**Why the bounds are enough.** The archive loop compares names and offsets only for equality, so three
names give every pattern of sharing between the symbol asked for, a symbol imported and one imported from
there; a limit of 2 makes the cut-off happen in the
instance (with the code's 100 only an archive of 101 members in a chain would reach it). The linker's members cover
each kind the code tells apart: plain, decorated, import definitions of name types 0 to 3, both
DLLs, and a corrupt one. `Expected` holds in every state of `codegen`: the constraint `UnitsExpected` cuts off nothing, it stops
TLC at a unit that is not what the generator expects. `Large` and `Small` in `MCCodeGenerator` nest every statement in every other with something
behind the inner one, which is where a target that was not restored would show; a third level would repeat
the second, since a handler saves and restores without looking at the depth. In `StackFrame` a displacement of 7 bits lets
no frame of the instance overflow; the theorem of section 5 covers all widths and sizes. `MaxLocals` and
`MaxParameters` bound the counters of the instance. In `semantic` three statements are what it takes to put a jump or a use behind
a construct that was entered and left; the function behind shows what leaks out of the first one. In `driver` the sizes
are those where a rounding changes: zero, one below, at and above each alignment. `BASE_ADDRESS` is 0x2000000 there,
since TLC's integers have 32 bits with a sign; it matters only that it is a multiple of the section alignment. In `execution` two
elements are what a temporary can spoil: the first list element leaves the allocator at any of its eleven positions for the
second. In `documented` a call is given up after `MaxSteps` = 60 instructions; the longest that comes to its end takes 42, and
those given up compare what cannot change any more. In `frontend` two levels of nesting put every method
of the expression ladder directly below every other; `MaxRaw` and `MaxDamage` are the lengths of the damaged parts: five characters hold an
opened and closed comment with something in it, three words an operator with both neighbours. A damage with `{`, `}`, `;`,
`<` or `[` is left out: there the next semicolon is not the end of the statement, and the code takes more with it (section 6).

In `preprocessor` the texts are what two macros of each kind can be put together to: one behind another, one in the argument of another,
in brackets, beside literals; two levels of calls are where a name that is erased too early would be replaced again.

**Symmetry** is used in `stack_frame` only, where names are model values that nothing orders. It is not used
in runs with a liveness property.

**Fairness.** Each computation is one thread that keeps running, so the only fairness assumed is
weak fairness of the whole next-state relation (`FairSpec` in `Linker` and `Preprocessor`, of `Work`, the
loop after the call, in `ArchiveExtract`; in `CompiledCode` of the generator and the machine together, in
`Execution` of the processor, in `Parser` of lexer and parser). No fairness between alternatives is
assumed: `Progress` holds whatever the conditions return, because a loop of the source program tests its condition or
evaluates something each time around.

**Mutants.** For each property of each passing run, `PROJECT.json` names a variant of one definition, as a
plausible mistake in that code would have it, under which the run finds the property violated. The variants stand just
before the definitions they vary.

## 5. The proofs

All proofs are checked by TLAPS down to their last leaves, with Z3, Zenon and LS4.

| Module | Theorems | Assumptions |
|---|---|---|
| `ArchiveProofs` | of one call: `TypeCorrect`, `RoundsAreBounded`, `NothingIsLost`, `ShortSearchesResolveAll`, `ResolvedHasObject`, `MembersExtractedOnce`, `LinkedOnDemand`, `ImplementsAbstractClosure`; of a library from its file on: `LookupIsFirstMatch`, `ReaderIsRight` | the archives, requests and libraries are of their types; the limit is positive; the empty string is no name |
| `LinkerProofs` | `TypeCorrect`, `FirstDefinition`, `FirstLibraryProvides`, `UserDefinitionsWin`, `RegionsNeverOverlap`, `ImportsAccounted`, `ReportAlwaysRight`, `ImportTableIsComplete` | the inputs are objects and libraries of their types; ordinals are positive |
| `PreprocessorProofs` | of the walk: `TypeCorrect`, `SkippingNests`, `CallsAreDistinct`, `DepthErrorsAreJustified`, `HeadersPastedOnce`; of the expansion: `MacrosNotReentered`, `RecursionBounded`; of the two together: `WalkIsFollowed` | the files are sequences of lines; finitely many paths; none about the macros or the texts |
| `CodeGeneratorProofs` | of the generator: `TypeCorrect`, `LabelsAreFixed`, `BranchesLand`; of the code it makes: `CodeMeansTheSame` | statements are trees as the parser builds them; a unit is a list of functions whose bodies are blocks; the reach of a branch is positive; for the last, each unit has the function the run starts with, and `[]Expected` |
| `SemanticProofs` | `ContextsStay`, `TypeCorrect` | the nodes of a unit are of their type; functions and typedefs have a type; an operator typed by an operand has it, and its operands are expressions |
| `ImageProofs` | of an image: `TypeCorrect`, `OffsetsAlwaysRight`, `SectionsAlwaysApart`, `ProgramIsInXex`, `ImportsAreLinked`; of the program: `ExitCodeIsRight`, `DriverWritesImages` | main lies in the code; the base address is a multiple of the section alignment and both segments fit below the top of the address space; the options are of their type |
| `LexerProofs` | `PlacesRight` | the sources are sequences of characters without the end mark |
| `StackFrameProofs` | `TypeCorrect`, `SlotsNeverOverlap`, `RegistersNeverShared`, `ReturnAddressIsKept` | sizes and lengths are natural numbers; there is at least one register of each kind |

The arguments, in short:

- **Archive.** `Shape` says which locals are empty at which place in the function, `RoundsInv` that a round but
  the last extracts something (the number of rounds is at most one more than the members extracted, and equal only
  when the present round has extracted nothing and queued nothing). With `NothingLost` this gives `ShortSearchesResolveAll`: the
  limit is the only way to lose a symbol. For the refinement, `QueuesDemanded`
  says that everything in a queue was asked for or imported, so extracting a member is a `Pull`; a `Return`
  maps to `Complete` or, only at the limit, to `GiveUp`; all other steps stutter. With `EachMemberOnce` the object that imports a
  symbol stands *before* the one extracted for it, which is `LinkedOnDemand`. While the table is read, `Reading` says which of
  the entries read so far decides each name of the map: the last that lists the name itself, or, when none
  does, the first alias. That is a lookup by first match. A step of the reader is then a step of the loop on the map so built, or none.
- **Linker.** `Placing` relates the cursor to the prefix of the objects placed so far, and bounds every region placed
  by the running offsets: a new region starts at the offset and so lies above all others. That is a theorem of code and data: bss has no bytes in
  the merged sections, in the code as in the model, and a bss symbol gets the address of the data that follows it.
  `FirstDefinitionWins` needs that a name already in the table is kept. `CompiledFirst` keeps the program's objects in front
  of the members. `ImportsAccounted` follows the imports through the phases: `Collecting` (each import seen so far is in a
  table), `Filtering` (dropping a name needs a definition), `DefinedBacked` (a defined name is exported by some
  object), `Reporting` (the names passed by the cursor are settled or reported). The reader's
  steps are typed by the lemma of `ArchiveProofs`, instantiated. `ReportAlwaysRight` adds that what waits for the report are
  imports of objects (`OnlyImports`), and that what was reported was neither defined nor in a table of stubs (`Unresolved`). It speaks of the
  imports of the compiled objects, and of whether there is a warning: the code prints a count and no names, and what library members
  import is in neither (`linker_unresolved`).
  For the import table `Importing` puts the entries collected and the addresses given out side by side; sorting is a permutation and
  changes neither. An ordinal is there once until the fallbacks, which do not look for it (linker.cpp:313, 321), and only a PE image
  carries the table. `FirstLibraryProvides` remembers of each object the library it came from (`Origins`), that these numbers only
  grow along the list (`LibrariesInOrder`), and that a library already behind the cursor resolves nothing of what is still
  asked for (`LibrarySearched`).
- **Preprocessor.** Groups of one file only change at the end of the list, which gives nesting; a frame below the top
  stands behind an active `#include` (`FramesNest`). A path is recorded before its call starts, so a path on the stack twice
  could only be the main file, which is recorded by nobody (`PathsKnown`), and the depth bounds a set of
  distinct paths. `Fresh` says that the lines of a file emitted so far lie before its frame's cursor.
- **Macro expansion.** `NoReentry` needs that the calls and their names go together (`CallsMatch`: one name for each call but the
  outermost). A call adds a name that is not in `expanding`, so the names stay distinct; a return takes away the last one,
  which, the names being distinct, is no other call's. What the texts are plays no part. The list of names is then injective into
  the macros, which bounds the recursion. `WalkIsFollowed` is the refinement of the walk by the two together: `EmitText` is its
  `Text`, the other steps of the expansion stutter.
- **Code generator.** A number given out by `new_label` is in one of two states: it is placed, or an item that waits on the stack
  *owes* it, that is, will place it. Whatever a branch, a target in force or a saved target names is in one of these states
  (`Ahead`, `Landing`), and stays there: a handler that goes on places what it owes, or owes it still. `Issued` says that no number is owed twice or both owed and placed, and that all are below the counter;
  placing a label is therefore never placing it again, which is `LabelsAreFixed`. When `patch_branches` runs nothing waits and every
  function has begun (`Begun`), so each number named is placed, and each name is that of a function of the unit or external: `BranchesLand`.
- **The code means what the statements mean** (`CodeMeansTheSame`). Nothing here follows the nesting of a statement: the handlers are steps, and
  what is needed of a loop inside a branch inside a try is that each of them did its part.
  1. *While the code is generated* a set `H` remembers every place the generator came to (the next instruction, what was left to do, the function), and
     `History(H)` says what the step taken from there wrote (`Done`): its instruction or branch, the labels at its ends, and the places its parts and what
     follows were generated from. It says too that what is left below an item is come to later (`AllSuffixed`), that the end of an item that waits is where
     its label is (`AllExit`), that a loop goes back to where it began (`AllBorn`), and that a function starts at its offset (`AllEntered`).
     `TargetsRight` says that the targets in force, and those each handler saved, are those of the loop and the try statement around: this
     is what makes `break`, `continue` and `throw` right. With `Inv` of the theorems above they make `GenInv`, inductive under `Expected`.
     One lemma for each handler shows what it wrote, and `Stepped` that what was done before stays done.
  2. *When the branches are filled in* each branch has the distance to its label (`AllLanded`), so all that is known of the code is
     a statement about constants, `Finished(H, program, out, offsets)`.
  3. *When the code runs*, a stack `rest` *stands* at a place if it means, item by item, what was left to do there, and the rest of it stands at the
     return address on top, and so on. `Stands` is the largest such relation (there is a set of states closed under this), so no induction
     on the stack is needed. The machine `Meets` another state if both get by themselves to the same next thing that shows.
     `Agrees` puts the two together: the machine meets a place where `rest` stands. It is kept by every silent step of the meaning (one `...Runs` lemma for each
     kind of statement and item: `SilentRuns`), by every step taken together, for either result of a condition (`TakenRuns`), and by the machine's own steps.
     Where both show something it is the same, which is `SameBehaviour`; `RunInv` is the invariant.

  `Expected` is a hypothesis and no assumption on constants, since some of it is about the moment: a declared variable was found by the
  scan, a called function is in the unit (what one outside of it does is not known), `break` and `continue` are in the body of a loop, a `throw` is in no catch clause and has its handler, if there is one, in its own function, and
  no conditional branch is longer than its field. The generator checks none of these, and without them the property is false: two are hazards of the list, and
  the last is where `patch_branches` cuts the distance off. TLC checks in `codegen` that each state of these 1314 programs is so. What the theorem adds to the run is every other unit: any nesting, any
  number of functions and calls, recursive ones too. That the machine goes on to show something is `Progress`, and stays with TLC.
- **Semantic analyzer.** Each step replaces the first item of `todo` by others, so how many items of a step wait changes by that one and by
  those alone (`Count`). A scope, a loop and a switch are counted up with the item that will count them down (`Counted`). The return type
  is the one the innermost function set; each function that waits to be left has saved the one around it, and only the outermost has
  saved none (`Saved`). That needs the types behind the aliases (`Typedefs`): a return type is never taken for no type.
  The type invariant needs one fact of order: each operand an operator will read has a type by now, or an item before the operator's will give
  it one (`Awaited`). A step replaces the item that was to give it by others that do, or gives it.
- **Stack frame.** A new slot ends at or below the bytes counted so far, which contain every older slot: `SlotsDisjoint`
  is inductive with `TypeOK`. `RegistersUsed` adds that the registers given out have numbers below the count of the parameters.
  `Framed` fixes r1 at minus the frame's size while the function runs: with `SlotsDisjoint`
  every store ends at or below 8 + slot end - frame size, which is below the return address since the frame is at
  least eight bytes longer than the locals; a callee's own store is at r1 + 4, below it too. The frame must be shorter than the
  range of a displacement and the elements of an array must fit its slot (`Plain`): the code checks neither, see the hazards.
- **Image.** The headers are computed before the first byte is written, so most of the argument is one invariant (`Typed`): where the
  cursor is at each stage (`Cursors`), that the layout computed is that of the program (`LaidOut`), and what the finished parts hold (`Results`).
  `PeBuffer`, `ElfBuffer` and `XexBuffer` relate the regions of a file to its length so far: each write pads to the offset announced and
  starts there. What remains is arithmetic of rounding: rounding up is monotone, reaches a multiple, and adds less than the alignment.
  For the XEX file `Carried` follows the entry and both segments through the conversion, from their offsets in the
  input to their distances in the image. The import section is filled in two passes over the DLLs, one that counts and one that writes. `Sums` states the
  counts as functions of the number of DLLs passed, `Tables` and `Place` what has been written after so many tables and names in terms of them,
  and `PlacesApart` that the places differ: the second pass ends exactly where the first one said it would.
- **Driver.** `MainInv` states for each phase what is settled when it is reached, above all that nothing has been written before the link has
  succeeded. A step of the driver is a step of the writers or leaves their variables alone (`DriverWritesImages`), so what is proved of an image holds
  of the file a build leaves.
- **Lexer.** `PositionsRight` speaks of the tokens; what makes it inductive is that every place the lexer holds is right: where it is, where the
  token and the literal begin, the one kept for the look ahead (`Held`), besides those listed (`Listed`); and, in each
  mode, how far past the token's beginning it has come (`Started`), which says that the characters passed without looking are in the text.

**Only model-checked**: liveness (`Terminates`, `Returns`, `Progress`, `Delivers`) and whatever needs ENABLED, which the
provers do not handle; what recursive definitions compute (`SelectionIsRight`, `ExpansionRight`, `DiagnosticsRight`, `ResultRight`,
`RoundTrip` and `RecoveryLocal`, against meanings and a parser that are recursive), which would need induction over data (`SameBehaviour` does
not: its meaning is a machine with a stack, and the only induction is that a set of numbers has a least one); and `CallerKept`, which
speaks of whatever code was generated, a recursive function of the expression. Proved and not run as checks of their own: `RoundsBounded`, `ResolvedIsBacked`, `CallsDistinct` and
`DepthErrorJustified`, which the other theorems rest on, `NoReentry` and `DepthBounded`.

## 6. What the code does otherwise than it says

| Run | Says | Does |
|---|---|---|
| `linker_unresolved` | linker.cpp:302 "Report unresolved (excluding DLL imports and kernel fallbacks)" | what an extracted library member imports, and its own library does not have, is neither searched elsewhere nor reported |
| `semantic_methods` | semantic_analyzer.cpp:370 "Inject class members for out-of-class methods" | the parser drops the class from a method's name, so its members are reported as undeclared |
| `documented` | standard_library.cpp:43 (memcpy) "save dest for return", :56 "memmove — same as memcpy for now" | the exit `bge 6*4` leads to the branch back: they do not return |
| `documented` | standard_library.cpp:67 "memcmp — returns 0 if equal" | the exit ends inside the loop, and the first pointer is cleared in front of it: nothing compared, it does not return; one character, it reads address 0 |
| `documented` | standard_library.cpp:80 "strlen — count bytes until null" | the branch back skips the load: it does not return |
| `documented` | standard_library.cpp:113 "abs(x) = x < 0 ? -x : x" | the branch leads to the `neg` it should skip: abs(1) is -1 |
| `documented` | README.md:4 "turns C++03 source into runnable Xbox 360 executables"; register_allocator.cpp:79 "reuse temps for deeply nested expressions" | the first temporary is r3, where the left operand is: `x - y` is 0, and the eleventh is r3 again while it is needed |
| `documented` | register_allocator.cpp:92 "lr save + back chain" | the first local lies in the word where a callee saves its return address: it is another number behind a call |

In the session `memset`, `malloc` and `abs` of a negative number are as documented. `strcpy` and `strcmp`, of which there is no word but their
names, have the same misplaced branches: `strcpy` writes beyond its destination, `strcmp` does not return.

Seen while modelling, with no exact statement of the repository to check against: a condition of `#if` with several operands
is decided by its first one (preprocessor.cpp:674-700); `__FILE__` is not restored after an `#include`; the kernel fallbacks may
add an ordinal twice; the search of an archive stops silently after 100 rounds; a variable declared
in a `do` or `try` body has no place and its initializer is skipped; a throw in a catch clause jumps to the same
clause; an initializer list may be longer than its slot; a `switch` generates nothing; an import definition of name type
0 or 1 does not settle the undecorated name it was found under (coff_reader.cpp:352-363); DLL imports are written only if
the name of the output ends in `.exe` (linker.cpp:354), so `--xex -o game.xex` gives a XEX without them, written over the ELF
image it was made from; `-c` writes no object file; an image that cannot be written is not reported, and main goes on;
most returns of main leave cout with a buffer that is gone (main.cpp:145); a XEX made from a PE file holds the file's layout
(sections at multiples of 512), not that of memory; code from an ELF image lies 0x1000 higher in the XEX than its addresses
say; without data, `.data` and `.idata` have one address; a class derived from one that a typedef defines has none of its
members; cases of a `switch` share the scope around it; the arguments of a call with a wrong number of arguments are not analysed; a prototype is
a function with an empty body (parser.cpp:343), so a call of a function that is only declared goes there and is never external.

In the expansion of macros, besides what the texts of the run show to be right: an argument is not expanded before it is put in, so
a call of a macro in an argument of the same macro stays as it is, and `#` and `##` of an inner call see the name, not its expansion;
a parameter named in an earlier argument is replaced there too; `#x` becomes a string once in a body, also where `x` begins a
longer name; of `x##y` with two parameters the second is glued to the first argument before it is looked up; the second
`#` of `L##x` makes a string;
an argument with `x##` in it for the parameter `x` is substituted for ever; a body's string literals have their parameters replaced;
arguments are cut without regard to quotes; a call whose parenthesis is on another line, or comes from outside an alias, is
not one.

In the emitted code, besides what `documented` shows: `&&` and `||` evaluate both sides; an assignment through `*p` or `a[i]` stores nothing; a postfix `++` gives the new value; `%=` is no
compound assignment (code_generator.cpp:181); an array variable that is indexed is taken for a pointer.

In the front end: a syntax error that `parse_block` or `parse` recovers from is not reported; one in a class, an enumeration, a namespace, a typedef or
an operator's definition ends the compilation of the file; a declaration `int a, b;` declares `a` only; recovery that meets a `}` ends
the enclosing block there, and one in the head of a `for`, or behind a `<` or `[` that is not closed, takes the next statement along;
`(unsigned) x` is a syntax error; the last part of a conditional is no assignment, so `a ? b : c = d` assigns to the conditional;
`a * b;` and `a & b;` are declarations; template parameters stay registered as types, and a variable with the name of a type
in front of `<` loses everything up to `>`; the lexer drops a `*/` outside of a comment, also in `a*/*c*/b`.

## 7. What is not modelled

- **In the front end**: the classes of the syntax tree and their printing; `parse_operator_overload_member` and the second
  `parse_class_member`, which nothing calls; positions in the tree.
- **In the emitted code**: floating point, objects and their members, `new` and `delete`, the unit's debug information.
- **In the image**: the contents of code and data, relocations (the linker applies none), fields that do not depend on the program,
  hashes; `build_import_table`, `build_shstrtab` and `convert_direct`, which nothing calls; files the linker did not write.
- **In the preprocessor**: comments, line continuation, the splitting of a `#define`, the predefined macros, and the expansion of a condition
  (its tests are given). No text of the run gives two or more arguments for a `...`.
- **In the semantic analyzer**: whether a type can be assigned to another, const, arithmetic conversions, void
  variables, missing return values, catch clauses behind a catch-all, the built-in vector types, the values of enumerators
  (evaluated, stored nowhere), and `flatten_anonymous_members`, whose condition no name of the parser meets.
- **Bytes of object files and archives**: the models take the fields the code reads out of the headers. Sizes in a damaged file that
  wrap around 32 bits are not represented.
- **Optimizer**: linked into the program and never called. **Error reporter, debug info, AST printer**: text that nothing
  reads back. **SDK headers, built-in tests, build scripts**: constant data.
