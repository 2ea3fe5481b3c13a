--------------------------- MODULE ArchiveExtract ---------------------------
(***************************************************************************)
(* CoffLibReader::extract_needed (src/src/coff_reader.cpp): the work list  *)
(* that pulls archive members for the symbols the linker misses, then for  *)
(* the symbols those members import, in rounds, at most MaxIterations of   *)
(* them.  The loop is sequential; an action is one pass of its body, so    *)
(* that each branch is an action of its own.                               *)
(*                                                                         *)
(* The archive is data here: `map` is symbol_map_ (name -> member offset)  *)
(* and `member` what extract_member returns for an offset (an object with  *)
(* no exports and no imports for an offset outside the file).              *)
(***************************************************************************)
EXTENDS Naturals, FiniteSets, SequencesExt

CONSTANTS Symbol,          \* symbol names
          Offset,          \* member offsets
          MaxIterations    \* the bound of the while loop: 100 in the code

ASSUME MaxIterationsAssumption == MaxIterations \in Nat \ {0}

VARIABLES archive,       \* [map, member], fixed while the loop runs
          needed,        \* the argument needed_symbols
          pending,       \* what is left of `pending` in this round
          new_pending,   \* the names the next round will look at
          importing,     \* imports of the object just extracted, still to queue
          iterations,
          extracted,     \* extracted_offsets
          resolved,
          result,        \* offsets of the objects returned, in order
          pc             \* "idle", "head", "scan", "queue" or "done"

work == <<needed, pending, new_pending, importing, iterations, extracted, resolved,
          result, pc>>
vars == <<archive, work>>

Exports(o) == DOMAIN archive.member[o].exports
Imports(o) == archive.member[o].imports

(* A symbol map of the archive file and the members behind its offsets.    *)
IsArchive(a) ==
  /\ DOMAIN a.map \subseteq Symbol
  /\ \A s \in DOMAIN a.map : a.map[s] \in Offset
  /\ a.member = [o \in Offset |-> a.member[o]]
  /\ \A o \in Offset : /\ DOMAIN a.member[o].exports \subseteq Symbol
                       /\ a.member[o].imports \in Seq(Symbol)

-----------------------------------------------------------------------------
(* The local variables before a call.                                      *)
Idle ==
  /\ needed = << >> /\ pending = << >> /\ new_pending = << >>
  /\ importing = << >> /\ iterations = 0 /\ extracted = {} /\ resolved = {} /\ result = << >>
  /\ pc = "idle"

(* The call: fresh locals, `pending` a copy of the argument.               *)
Begin(symbols) ==
  /\ needed' = symbols
  /\ pending' = symbols
  /\ new_pending' = << >>
  /\ importing' = << >>
  /\ iterations' = 0
  /\ extracted' = {}
  /\ resolved' = {}
  /\ result' = << >>
  /\ pc' = "head"

(* The while condition holds: a round starts with an empty new_pending.    *)
StartRound ==
  /\ pc = "head"
  /\ pending # << >> /\ iterations < MaxIterations
  /\ iterations' = iterations + 1
  /\ new_pending' = << >>
  /\ pc' = "scan"
  /\ UNCHANGED <<needed, pending, importing, extracted, resolved, result>>

(* A variant of Return that stops a round early.                           *)
ReturnEarly ==
  /\ pc = "head"
  /\ pending = << >> \/ iterations >= MaxIterations - 1
  /\ pc' = "done"
  /\ UNCHANGED <<needed, pending, new_pending, importing, iterations, extracted, resolved,
                 result>>

(* The while condition fails: the objects extracted so far are returned.   *)
Return ==
  /\ pc = "head"
  /\ pending = << >> \/ iterations >= MaxIterations
  /\ pc' = "done"
  /\ UNCHANGED <<needed, pending, new_pending, importing, iterations, extracted, resolved,
                 result>>

(* A variant of Skip that continues without having consumed the name.      *)
SkipStuck ==
  /\ pc = "scan" /\ pending # << >>
  /\ Head(pending) \in resolved \/ Head(pending) \notin DOMAIN archive.map
  /\ UNCHANGED work

(* `continue`: the symbol is resolved already, or not in this library.     *)
Skip ==
  /\ pc = "scan" /\ pending # << >>
  /\ Head(pending) \in resolved \/ Head(pending) \notin DOMAIN archive.map
  /\ pending' = Tail(pending)
  /\ UNCHANGED <<needed, new_pending, importing, iterations, extracted, resolved, result,
                 pc>>

(* The member that defines the symbol was extracted for another symbol.    *)
AlreadyExtracted ==
  /\ pc = "scan" /\ pending # << >>
  /\ Head(pending) \notin resolved /\ Head(pending) \in DOMAIN archive.map
  /\ archive.map[Head(pending)] \in extracted
  /\ resolved' = resolved \cup {Head(pending)}
  /\ pending' = Tail(pending)
  /\ UNCHANGED <<needed, new_pending, importing, iterations, extracted, result, pc>>

(* Variants of ExtractMember: one extracts a member for every name that    *)
(* leads to it, one inserts the object before the earlier ones.            *)
ExtractMemberAgain ==
  /\ pc = "scan" /\ pending # << >>
  /\ Head(pending) \notin resolved /\ Head(pending) \in DOMAIN archive.map
  /\ LET o == archive.map[Head(pending)] IN
       /\ extracted' = extracted \cup {o}
       /\ resolved' = resolved \cup Exports(o)
       /\ importing' = Imports(o)
       /\ result' = Append(result, o)
  /\ pending' = Tail(pending)
  /\ pc' = "queue"
  /\ UNCHANGED <<needed, new_pending, iterations>>
ExtractMemberInFront ==
  /\ pc = "scan" /\ pending # << >>
  /\ Head(pending) \notin resolved /\ Head(pending) \in DOMAIN archive.map
  /\ LET o == archive.map[Head(pending)] IN
       /\ o \notin extracted
       /\ extracted' = extracted \cup {o}
       /\ resolved' = resolved \cup Exports(o)
       /\ importing' = Imports(o)
       /\ result' = <<o>> \o result
  /\ pending' = Tail(pending)
  /\ pc' = "queue"
  /\ UNCHANGED <<needed, new_pending, iterations>>

(* A new member: its exports become resolved before its imports are looked *)
(* at.                                                                     *)
ExtractMember ==
  /\ pc = "scan" /\ pending # << >>
  /\ Head(pending) \notin resolved /\ Head(pending) \in DOMAIN archive.map
  /\ LET o == archive.map[Head(pending)] IN
       /\ o \notin extracted
       /\ extracted' = extracted \cup {o}
       /\ resolved' = resolved \cup Exports(o)
       /\ importing' = Imports(o)
       /\ result' = Append(result, o)
  /\ pending' = Tail(pending)
  /\ pc' = "queue"
  /\ UNCHANGED <<needed, new_pending, iterations>>

(* One import of that member: queued for the next round unless resolved.   *)
QueueImport ==
  /\ pc = "queue" /\ importing # << >>
  /\ new_pending' = IF Head(importing) \in resolved THEN new_pending
                    ELSE Append(new_pending, Head(importing))
  /\ importing' = Tail(importing)
  /\ UNCHANGED <<needed, pending, iterations, extracted, resolved, result, pc>>

EndImports ==
  /\ pc = "queue" /\ importing = << >>
  /\ pc' = "scan"
  /\ UNCHANGED <<needed, pending, new_pending, importing, iterations, extracted, resolved,
                 result>>

(* A variant of EndRound that drops the names queued for the next round.   *)
EndRoundDropping ==
  /\ pc = "scan" /\ pending = << >>
  /\ new_pending' = << >>
  /\ pc' = "head"
  /\ UNCHANGED <<needed, pending, importing, iterations, extracted, resolved, result>>

(* pending = std::move(new_pending)                                        *)
EndRound ==
  /\ pc = "scan" /\ pending = << >>
  /\ pending' = new_pending
  /\ new_pending' = << >>
  /\ pc' = "head"
  /\ UNCHANGED <<needed, importing, iterations, extracted, resolved, result>>

Step == \/ StartRound \/ Return \/ Skip \/ AlreadyExtracted
        \/ ExtractMember \/ QueueImport \/ EndImports \/ EndRound

-----------------------------------------------------------------------------
(* The reader on its own: a loaded archive, one call, any list of names.   *)
CONSTANTS Archives,   \* the archives to read
          Requests    \* the argument lists to call with

ASSUME ArchivesAssumption == \A a \in Archives : IsArchive(a)
ASSUME RequestsAssumption == Requests \subseteq Seq(Symbol)

Init == archive \in Archives /\ Idle

Call == pc = "idle" /\ (\E symbols \in Requests : Begin(symbols)) /\ UNCHANGED archive

Work == Step /\ UNCHANGED archive

Next == Call \/ Work

Spec == Init /\ [][Next]_vars

(* The loop is ordinary sequential code: once called, it keeps running.    *)
FairSpec == Spec /\ WF_vars(Work)

-----------------------------------------------------------------------------
TypeOK ==
  /\ IsArchive(archive)
  /\ needed \in Seq(Symbol) /\ pending \in Seq(Symbol) /\ new_pending \in Seq(Symbol)
  /\ importing \in Seq(Symbol)
  /\ iterations \in 0..MaxIterations
  /\ extracted \in SUBSET Offset
  /\ resolved \in SUBSET Symbol
  /\ result \in Seq(Offset)
  /\ pc \in {"idle", "head", "scan", "queue", "done"}

(* No object file is handed to the linker twice, whatever cycles the       *)
(* imports form and however many names one member answers for: `result`    *)
(* has no duplicate and lists exactly extracted_offsets                    *)
(* (coff_reader.cpp:436-450).                                              *)
EachMemberOnce ==
  /\ ToSet(result) = extracted
  /\ \A i, j \in DOMAIN result : i # j => result[i] # result[j]

(* Nothing is called resolved without an object behind it: a name enters   *)
(* `resolved` because an extracted member exports it or because the map    *)
(* sends it to an extracted member (coff_reader.cpp:437-447).              *)
ResolvedIsBacked ==
  \A s \in resolved : \/ \E o \in extracted : s \in Exports(o)
                      \/ s \in DOMAIN archive.map /\ archive.map[s] \in extracted

(* A member is linked only on demand: the k-th object is the one the map   *)
(* names for a symbol the caller asked for or an EARLIER object imports    *)
(* (coff_reader.cpp:429-450).                                              *)
ExtractedOnDemand ==
  \A k \in DOMAIN result :
    \E s \in DOMAIN archive.map :
      /\ archive.map[s] = result[k]
      /\ \/ s \in ToSet(needed)
         \/ \E j \in 1..(k-1) : s \in ToSet(Imports(result[j]))

(* The names the call is responsible for.                                  *)
Demanded == ToSet(needed) \cup UNION {ToSet(Imports(o)) : o \in extracted}

(* The archive has done what it can for a name it lists: the name is       *)
(* resolved, or the member the map names for it is among the results.  (A  *)
(* name that is only an alias in the map is never marked resolved: the     *)
(* member it leads to exports the decorated name.)                         *)
Answered(s) == s \in resolved \/ archive.map[s] \in extracted

(* A demanded name the archive lists is answered or still queued: no       *)
(* import of an extracted member is lost between two rounds                *)
(* (coff_reader.cpp:443-453).                                              *)
NothingLost ==
  \A s \in Demanded \cap DOMAIN archive.map :
    \/ Answered(s)
    \/ s \in ToSet(pending) \cup ToSet(new_pending) \cup ToSet(importing)

(* "Iteratively extract members until all symbols are resolved"            *)
(* (coff_reader.cpp:421): on return every demanded name the archive lists  *)
(* is answered.                                                            *)
ResolvesAll ==
  pc = "done" => \A s \in Demanded \cap DOMAIN archive.map : Answered(s)

(* Only a call that extracted MaxIterations members can be cut short: any  *)
(* other returns with every demanded name the archive lists answered       *)
(* (coff_reader.cpp:424-457).                                              *)
ShortCallsResolve == Cardinality(extracted) < MaxIterations => ResolvesAll

(* Every round but the last extracts something, so the number of rounds    *)
(* is at most one more than the number of members extracted: the           *)
(* 100-iteration cap bites only beyond that many members                   *)
(* (coff_reader.cpp:424).                                                  *)
RoundsBounded == iterations <= Cardinality(extracted) + 1

(* A call ends: cyclic imports and repeated names do not keep the rounds   *)
(* going (coff_reader.cpp:424-457).                                        *)
Terminates == (pc = "head") ~> (pc = "done")

-----------------------------------------------------------------------------
(* The call implements the abstract closure: extracting is pulling, a      *)
(* return with nothing pending is complete, any other return gave up.      *)
Verdict == IF pc = "idle" THEN "idle"
           ELSE IF pc # "done" THEN "open"
           ELSE IF pending = << >> THEN "complete" ELSE "gaveUp"

Closure == INSTANCE ArchiveClosure
             WITH Budget <- MaxIterations, wanted <- ToSet(needed),
                  linked <- extracted, verdict <- Verdict

(* The work list implements ArchiveClosure: it links only demanded         *)
(* members, each once, returns with an empty queue only when every demand  *)
(* the archive can meet is met, and cuts the search short only after       *)
(* extracting at least MaxIterations members (coff_reader.cpp:415-460).    *)
ImplementsClosure == Closure!Spec
=============================================================================
