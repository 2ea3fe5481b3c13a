-------------------------------- MODULE Driver --------------------------------
(***************************************************************************)
(* The command line program: main (src/src/main.cpp) and                   *)
(* Compiler::compile_file (src/src/compiler.cpp).  It compiles the sources *)
(* one after the other, links them and converts the image; the writers and *)
(* the converter are those of ImageLayout, which works on `program` while  *)
(* the driver waits for it.                                                *)
(*                                                                         *)
(* options is what main reads from its arguments, with what it will find   *)
(* outside: which phase of compile_file a source fails in, where a library *)
(* is (directory 0: as it was named), and what imagexex does.              *)
(***************************************************************************)
EXTENDS ImageLayout

CONSTANT Options

Fate == {"compiles", "unreadable", "preprocess", "lex", "parse", "semantic"}
Flag == {"gen-sdk", "test", "lex-only", "E", "c", "xex"}
Suffix == {"exe", "elf", "xex", "o"}
Option == [arguments : {"valid", "help", "invalid"}, flags : SUBSET Flag, sources : Seq(Fate),
           output : Suffix \cup {"default"}, libs : Seq(SUBSET Nat),
           imagexex : {"absent", "works", "fails"}]

ASSUME OptionsAssumption == Options \subseteq Option

VARIABLES options,    \* fixed
          phase,      \* the place in main, or "returned"
          item,       \* the cursor of its loops
          objects,    \* the sources compiled
          linking,    \* what the linker was given: 0 is the standard library
          libraries,  \* the libraries it was given, each with its directory
          official,   \* imagexex has written the XEX
          streams,    \* cout and cerr write through "own" buffers or the "tee"
          exit        \* the exit code, or Running

Running == -1
local == <<phase, item, objects, linking, libraries, official, streams, exit>>
imaging == <<stage, layout, dll, total, idata, buf, header, file, segment, combined, basefile, xex>>
allvars == <<options, local, program, imaging>>

Has(flag) == flag \in options.flags
AtItem(p, items) == phase = p /\ item <= Len(items)
Past(p, items) == phase = p /\ item > Len(items)

(* output_file, given or not; link() writes a PE image only for ".exe".    *)
OutputSuffix ==
  IF options.output # "default" THEN options.output
  ELSE IF Has("c") THEN "o" ELSE IF Has("xex") THEN "exe" ELSE "elf"

DriverInit ==
  /\ Init
  /\ options \in Options
  /\ program.suffix = IF OutputSuffix = "exe" THEN "exe" ELSE "elf"
  /\ phase = "start" /\ item = 1
  /\ objects = << >> /\ linking = << >> /\ libraries = << >>
  /\ official = FALSE /\ streams = "own" /\ exit = Running

Return(code) == phase' = "returned" /\ exit' = code
Go(p) == phase' = p /\ item' = 1 /\ UNCHANGED exit
Proceed == item' = item + 1 /\ UNCHANGED <<phase, exit>>
Still == UNCHANGED <<options, program, imaging>>

-----------------------------------------------------------------------------
(* Before anything is compiled.  Most returns from here on leave the tee   *)
(* in place, although its buffers end with main.                           *)
Usage ==
  /\ phase = "start" /\ options.arguments # "valid"
  /\ Return(IF options.arguments = "help" THEN 0 ELSE 1)
  /\ UNCHANGED <<item, objects, linking, libraries, official, streams>> /\ Still

OpenLog ==
  /\ phase = "start" /\ options.arguments = "valid"
  /\ streams' = "tee"
  /\ Go("sdk")
  /\ UNCHANGED <<objects, linking, libraries, official>> /\ Still

GenerateSdk ==
  /\ phase = "sdk"
  /\ IF Has("gen-sdk") /\ options.sources = << >> THEN Return(0) /\ UNCHANGED item ELSE Go("mode")
  /\ UNCHANGED <<objects, linking, libraries, official, streams>> /\ Still

RunTests ==
  /\ phase = "mode" /\ Has("test")
  /\ \E code \in {0, 1} : Return(code)
  /\ UNCHANGED <<item, objects, linking, libraries, official, streams>> /\ Still

NoSources ==
  /\ phase = "mode" /\ ~Has("test") /\ options.sources = << >>
  /\ Return(1)
  /\ UNCHANGED <<item, objects, linking, libraries, official, streams>> /\ Still

ChooseMode ==
  /\ phase = "mode" /\ ~Has("test") /\ options.sources # << >>
  /\ Go(IF Has("lex-only") THEN "lex" ELSE IF Has("E") THEN "preprocess" ELSE "compile")
  /\ UNCHANGED <<objects, linking, libraries, official, streams>> /\ Still

(* --lex-only and -E: only the phases they run can fail.                   *)
Examine(p, fatal) ==
  /\ AtItem(p, options.sources)
  /\ IF options.sources[item] \in fatal THEN Return(1) /\ UNCHANGED item ELSE Proceed
  /\ UNCHANGED <<objects, linking, libraries, official, streams>> /\ Still
LexSource == Examine("lex", {"unreadable", "lex"})
PreprocessSource == Examine("preprocess", {"unreadable", "preprocess"})

EndLex ==
  /\ Past("lex", options.sources)
  /\ Return(0)
  /\ UNCHANGED <<item, objects, linking, libraries, official, streams>> /\ Still

EndPreprocess ==
  /\ Past("preprocess", options.sources)
  /\ streams' = "own"
  /\ Return(0)
  /\ UNCHANGED <<item, objects, linking, libraries, official>> /\ Still

-----------------------------------------------------------------------------
(* compile_file gives no object file after a failure in any phase, and     *)
(* main gives up at the first source without one.  (What parse() gets over *)
(* by itself is no failure.)  A variant goes on with the next source.      *)
CompileSkipping ==
  /\ AtItem("compile", options.sources)
  /\ Proceed
  /\ objects' = IF options.sources[item] = "compiles" THEN Append(objects, item) ELSE objects
  /\ UNCHANGED <<linking, libraries, official, streams>> /\ Still
CompileSource ==
  /\ AtItem("compile", options.sources)
  /\ IF options.sources[item] = "compiles"
     THEN Proceed /\ objects' = Append(objects, item)
     ELSE Return(1) /\ UNCHANGED <<item, objects>>
  /\ UNCHANGED <<linking, libraries, official, streams>> /\ Still

(* -c ends here, with the object files in memory: none is written.         *)
CompileOnly ==
  /\ Past("compile", options.sources) /\ Has("c")
  /\ Return(0)
  /\ UNCHANGED <<item, objects, linking, libraries, official, streams>> /\ Still

AddObjects ==
  /\ Past("compile", options.sources) /\ ~Has("c")
  /\ linking' = <<0>> \o objects
  /\ Go("libraries")
  /\ UNCHANGED <<objects, libraries, official, streams>> /\ Still

(* The first of the -L directories that has the library, or the library as *)
(* it was named; one found nowhere is left out with a warning.             *)
AddLibrary ==
  /\ AtItem("libraries", options.libs)
  /\ LET places == options.libs[item]
         dirs == places \ {0}
         first == CHOOSE d \in dirs : \A e \in dirs : d <= e
     IN  libraries' = IF places = {} THEN libraries
                      ELSE Append(libraries, [lib |-> item, dir |-> IF dirs = {} THEN 0 ELSE first])
  /\ Proceed
  /\ UNCHANGED <<objects, linking, official, streams>> /\ Still

EndLibraries ==
  /\ Past("libraries", options.libs)
  /\ Go("link")
  /\ UNCHANGED <<objects, linking, libraries, official, streams>> /\ Still

(* link() fails only if it has no objects, and the standard library always *)
(* is one; so it comes to the writers.                                     *)
Link ==
  /\ phase = "link" /\ stage # "linked"
  /\ Pe \/ Elf
  /\ UNCHANGED <<options, local>>

Linked ==
  /\ phase = "link" /\ stage = "linked"
  /\ Go(IF Has("xex") THEN "xex" ELSE "success")
  /\ UNCHANGED <<objects, linking, libraries, official, streams>> /\ Still

(* The SDK's tool, if it is found; the converter if not, or if it failed.  *)
RunImagexex ==
  /\ phase = "xex"
  /\ official' = (options.imagexex = "works")
  /\ Go(IF options.imagexex = "works" THEN "success" ELSE "convert")
  /\ UNCHANGED <<objects, linking, libraries, streams>> /\ Still

ConvertImage ==
  /\ phase = "convert"
  /\ Pe \/ Convert \/ Xex
  /\ UNCHANGED <<options, local>>

Converted ==
  /\ phase = "convert" /\ stage \in {"no_xex", "done"}
  /\ Go("success")
  /\ UNCHANGED <<objects, linking, libraries, official, streams>> /\ Still

Success ==
  /\ phase = "success"
  /\ streams' = "own"
  /\ Return(0)
  /\ UNCHANGED <<item, objects, linking, libraries, official>> /\ Still

Prepare == Usage \/ OpenLog \/ GenerateSdk \/ RunTests \/ NoSources \/ ChooseMode
Inspect == LexSource \/ EndLex \/ PreprocessSource \/ EndPreprocess
Build == \/ CompileSource \/ CompileOnly \/ AddObjects \/ AddLibrary \/ EndLibraries \/ Link \/ Linked
         \/ RunImagexex \/ ConvertImage \/ Converted \/ Success

DriverNext == Prepare \/ Inspect \/ Build
DriverSpec == DriverInit /\ [][DriverNext]_allvars

-----------------------------------------------------------------------------
(* The exit code tells what there is.  A run that fails has written no     *)
(* image and converted nothing; a build that succeeds has linked the       *)
(* standard library and every source, once and in order, has come through  *)
(* the writers and, with --xex, through imagexex or the converter unless   *)
(* the image itself could not be written, and gives cout back its buffer   *)
(* (main.cpp:240-249, 270-300, 305-372).                                   *)
IsBuild ==
  /\ options.arguments = "valid" /\ options.sources # << >>
  /\ options.flags \cap {"test", "lex-only", "E", "c"} = {}
ExitCodeTells ==
  /\ exit = 1 => file = Nothing /\ xex = Nothing /\ ~official
  /\ exit = 0 /\ IsBuild =>
       /\ \A i \in DOMAIN options.sources : options.sources[i] = "compiles"
       /\ linking = [i \in 1..(Len(options.sources) + 1) |-> i - 1]
       /\ Has("xex") => official \/ stage = "done" \/ file = Nothing
       /\ streams = "own"
  /\ exit = 0 /\ ~IsBuild => file = Nothing /\ xex = Nothing
=============================================================================
