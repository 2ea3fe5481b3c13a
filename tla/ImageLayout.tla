----------------------------- MODULE ImageLayout -----------------------------
(***************************************************************************)
(* The executable image: Linker::write_pe with build_idata_section         *)
(* (src/src/linker.cpp), ElfWriter::write (src/src/elf_writer.cpp) and the *)
(* conversion of either to XEX (src/src/xex_converter.cpp).                *)
(*                                                                         *)
(* A buffer is filled from its start; what is put in it are parts with a   *)
(* position and a size, and the fields of its header.  The writers compute *)
(* the fields beforehand, from sizes and alignments, so whether they agree *)
(* with where the parts come to lie is the question here.  Sizes are such  *)
(* that no sum leaves 32 bits.                                             *)
(***************************************************************************)
EXTENDS Integers, SequencesExt

CONSTANTS Programs,       \* what link() hands to a writer
          BASE_ADDRESS,   \* 0x82000000
          TOP             \* 0xFFFFFFFF, above every address

Align(v, a) == ((v + a - 1) \div a) * a

FILE_ALIGN == 512
SEC_ALIGN == 65536
PAGE_SIZE == 65536

(* code, data: their sizes.  main: its offset in the code, or NoMain.      *)
(* imports: for each DLL the length of its name and how many entries.      *)
NoMain == -1
Dll == [name : Nat \ {0}, entries : Nat \ {0}]
Program == [code : Nat \ {0}, data : Nat, main : Nat \cup {NoMain}, imports : Seq(Dll), suffix : {"exe", "elf"}]

ASSUME ProgramsAssumption == \A p \in Programs : p \in Program /\ p.main < p.code
ASSUME AddressAssumption ==
  /\ BASE_ADDRESS \in Nat /\ BASE_ADDRESS % SEC_ALIGN = 0
  /\ TOP \in Nat /\ \A p \in Programs : BASE_ADDRESS + p.code + p.data + 16 < TOP

VARIABLES program,   \* fixed
          stage,     \* the place in the writers
          layout,    \* what the PE image being written is made of
          dll,       \* the cursor of the loops over the DLLs
          total,     \* totalEntries and namesSize, counted before it is laid out
          idata,     \* the import section
          buf,       \* the buffer being filled
          header,    \* the fields written into it
          file,      \* the output file
          segment,   \* the cursor over the program headers of an ELF file
          combined,  \* what extract_loadable_segments returns
          basefile,  \* the image to be wrapped
          xex        \* the XEX file

vars == <<program, stage, layout, dll, total, idata, buf, header, file, segment, combined, basefile, xex>>
importing == <<dll, total, idata>>
building == <<buf, header>>
converting == <<segment, combined, basefile, xex>>

Nothing == [kind |-> "none"]
Empty == [size |-> 0, parts |-> [n \in {} |-> 0]]

(* push_back and insert at the end of a buffer; padto, which never shrinks.*)
With(parts, name, part) == [n \in DOMAIN parts \cup {name} |-> IF n = name THEN part ELSE parts[n]]
Put(b, name, size) ==
  [size |-> b.size + size, parts |-> With(b.parts, name, [at |-> b.size, size |-> size])]
PadTo(b, target) == [b EXCEPT !.size = IF @ < target THEN target ELSE @]

Main == IF program.main = NoMain THEN 0 ELSE program.main
Written(kind) == [kind |-> kind, size |-> buf.size, parts |-> buf.parts, header |-> header]

Init ==
  /\ program \in Programs
  /\ stage = "link"
  /\ layout = Nothing
  /\ dll = 1 /\ total = [entries |-> 0, names |-> 0] /\ idata = Nothing
  /\ buf = Empty /\ header = Nothing
  /\ file = Nothing
  /\ segment = 1 /\ combined = [size |-> 0, base |-> TOP, parts |-> [n \in {} |-> 0]]
  /\ basefile = Nothing /\ xex = Nothing

-----------------------------------------------------------------------------
(* A PE image.  write_pe and build_pe_image differ in the alignment of the *)
(* sections, the place and the room of the headers, and the imports.       *)
TextRVA == layout.sec
DataRVAUnaligned == TextRVA + Align(layout.code, FILE_ALIGN)
DataRVA == TextRVA + Align(layout.code, layout.sec)
IdataRVA == DataRVA + Align(layout.data, layout.sec)

(* link() and the head of write_pe.                                        *)
WritePe ==
  /\ stage = "link" /\ program.suffix = "exe"
  /\ layout' = [code |-> program.code, data |-> program.data, entry |-> Main, sec |-> SEC_ALIGN,
                lfanew |-> 232, headers |-> Align(1024, FILE_ALIGN), imports |-> program.imports # << >>]
  /\ stage' = IF program.imports = << >> THEN "headers" ELSE "count"
  /\ UNCHANGED <<program, importing, building, file, converting>>

(* build_idata_section: first count what the tables will need.             *)
LastDll == dll = Len(program.imports)
NextDll(here, next) ==
  /\ dll' = IF LastDll THEN 1 ELSE dll + 1
  /\ stage' = IF LastDll THEN next ELSE here

CountDll ==
  /\ stage = "count"
  /\ LET d == program.imports[dll]
     IN  total' = [entries |-> total.entries + d.entries + 1, names |-> total.names + d.name + 1]
  /\ NextDll("count", "idata")
  /\ UNCHANGED <<program, layout, idata, building, file, converting>>

IdtSize == (Len(program.imports) + 1) * 20
ThunksSize == total.entries * 4
NamesSize == Align(total.names, 4)

SizeIdata ==
  /\ stage = "idata"
  /\ idata' = [size |-> IdtSize + 2 * ThunksSize + NamesSize, writes |-> {},
               iltPos |-> IdtSize, iatPos |-> IdtSize + ThunksSize, namePos |-> IdtSize + 2 * ThunksSize,
               names |-> << >>, ilts |-> << >>, iats |-> << >>, slots |-> << >>]
  /\ stage' = "names"
  /\ UNCHANGED <<program, layout, dll, total, building, file, converting>>

Write(what, k, at, size) == [what |-> what, dll |-> dll, entry |-> k, at |-> at, size |-> size]

(* Pass 1: a name and the zero behind it.                                  *)
NameDll ==
  /\ stage = "names"
  /\ LET name == program.imports[dll].name
     IN  idata' = [idata EXCEPT !.names = Append(@, IdataRVA + idata.namePos),
                                !.writes = @ \cup {Write("name", 1, idata.namePos, name)},
                                !.namePos = @ + name + 1]
  /\ NextDll("names", "thunks")
  /\ UNCHANGED <<program, layout, total, building, file, converting>>

(* Pass 2: the two lists of a DLL, each with an empty entry at its end.    *)
ThunksBy(count) ==
  /\ stage = "thunks"
  /\ LET entries == 1..program.imports[dll].entries
         words(what, pos) == {Write(what, k, pos + 4 * (k - 1), 4) : k \in entries}
     IN  idata' = [idata EXCEPT !.ilts = Append(@, IdataRVA + idata.iltPos),
                                !.iats = Append(@, IdataRVA + idata.iatPos),
                                !.slots = Append(@, [k \in entries |-> IdataRVA + idata.iatPos + 4 * (k - 1)]),
                                !.writes = @ \cup words("ilt", idata.iltPos) \cup words("iat", idata.iatPos),
                                !.iltPos = @ + 4 * count, !.iatPos = @ + 4 * count]
  /\ NextDll("thunks", "descriptors")
  /\ UNCHANGED <<program, layout, total, building, file, converting>>
ThunksUnterminated == ThunksBy(program.imports[dll].entries)
Thunks == ThunksBy(program.imports[dll].entries + 1)

(* Pass 3: a descriptor, which holds the three addresses of its DLL.       *)
DescribeDll ==
  /\ stage = "descriptors"
  /\ idata' = [idata EXCEPT !.writes = @ \cup {Write("descriptor", 1, (dll - 1) * 20, 20)}]
  /\ NextDll("descriptors", "headers")
  /\ UNCHANGED <<program, layout, total, building, file, converting>>

IdataSize == IF layout.imports THEN idata.size ELSE 0
Raw(size) == Align(size, FILE_ALIGN)

Section(name, rva, size, pointer) ==
  [name |-> name, rva |-> rva, size |-> size, raw |-> Raw(size), pointer |-> pointer]
SectionsPacked ==
  <<Section("text", TextRVA, layout.code, layout.headers),
    Section("data", DataRVA, layout.data, layout.headers + layout.code)>>
Sections ==
  <<Section("text", TextRVA, layout.code, layout.headers),
    Section("data", DataRVA, layout.data, layout.headers + Raw(layout.code))>>
  \o IF layout.imports
     THEN <<Section("idata", IdataRVA, idata.size, layout.headers + Raw(layout.code) + Raw(layout.data))>>
     ELSE << >>

(* Signature, COFF header, optional header with 16 directories, sections.  *)
PeHeader ==
  [entry |-> TextRVA + layout.entry, alignment |-> layout.sec, headersSize |-> layout.headers,
   imageSize |-> IdataRVA + Align(IdataSize, layout.sec), sections |-> Sections,
   idt |-> IF layout.imports THEN [at |-> IdataRVA, size |-> IdtSize] ELSE [at |-> 0, size |-> 0],
   iat |-> IF layout.imports THEN [at |-> IdataRVA + IdtSize + ThunksSize, size |-> ThunksSize]
           ELSE [at |-> 0, size |-> 0]]

PeHeaders ==
  /\ stage = "headers"
  /\ header' = PeHeader
  /\ buf' = PadTo(Put(PadTo(Empty, layout.lfanew), "headers", 4 + 20 + 224 + 40 * Len(Sections)), layout.headers)
  /\ stage' = "text"
  /\ UNCHANGED <<program, layout, importing, file, converting>>

PeText ==
  /\ stage = "text"
  /\ buf' = PadTo(Put(buf, "text", layout.code), layout.headers + Raw(layout.code))
  /\ stage' = "data"
  /\ UNCHANGED <<program, layout, importing, header, file, converting>>

PeData ==
  /\ stage = "data"
  /\ buf' = PadTo(Put(buf, "data", layout.data), layout.headers + Raw(layout.code) + Raw(layout.data))
  /\ stage' = IF layout.imports THEN "imports" ELSE "image"
  /\ UNCHANGED <<program, layout, importing, header, file, converting>>

PeImports ==
  /\ stage = "imports"
  /\ buf' = PadTo(Put(buf, "idata", idata.size),
                  layout.headers + Raw(layout.code) + Raw(layout.data) + Raw(idata.size))
  /\ stage' = "image"
  /\ UNCHANGED <<program, layout, importing, header, file, converting>>

(* The file may fail to open: then nothing is written, and nothing said.   *)
SavePe ==
  /\ stage = "image" /\ file = Nothing
  /\ file' \in {Written("pe"), Nothing}
  /\ stage' = "linked"
  /\ UNCHANGED <<program, layout, importing, building, converting>>

-----------------------------------------------------------------------------
(* ElfWriter::write: two segments behind one another.                      *)
CodeOffset == Align(52 + 2 * 32, 16)
DataOffset == Align(CodeOffset + program.code, 16)

ElfHeader ==
  [entry |-> BASE_ADDRESS + Main,
   segments |-> <<[name |-> "code", offset |-> CodeOffset, vaddr |-> BASE_ADDRESS, size |-> program.code],
                  [name |-> "data", offset |-> DataOffset,
                   vaddr |-> Align(BASE_ADDRESS + program.code, 16), size |-> program.data]>>]

ElfHeaders ==
  /\ stage = "link" /\ program.suffix = "elf"
  /\ header' = ElfHeader
  /\ buf' = PadTo(Put(Empty, "headers", 52 + 2 * 32), CodeOffset)
  /\ stage' = "elf_code"
  /\ UNCHANGED <<program, layout, importing, file, converting>>

ElfCode ==
  /\ stage = "elf_code"
  /\ buf' = PadTo(Put(buf, "code", program.code), DataOffset)
  /\ stage' = "elf_data"
  /\ UNCHANGED <<program, layout, importing, header, file, converting>>

ElfData ==
  /\ stage = "elf_data"
  /\ buf' = Put(buf, "data", program.data)
  /\ stage' = "elf"
  /\ UNCHANGED <<program, layout, importing, header, file, converting>>

SaveElf ==
  /\ stage = "elf"
  /\ file' \in {Written("elf"), Nothing}
  /\ stage' = "linked"
  /\ UNCHANGED <<program, layout, importing, building, converting>>

-----------------------------------------------------------------------------
(* XexConverter::convert looks at the file for what it is.                 *)
CannotOpen ==
  /\ stage = "linked" /\ file = Nothing
  /\ stage' = "no_xex"
  /\ UNCHANGED <<program, layout, importing, building, file, converting>>

WrapPe ==
  /\ stage = "linked" /\ file.kind = "pe"
  /\ basefile' = [image |-> file, base |-> BASE_ADDRESS, entry |-> BASE_ADDRESS + file.header.entry]
  /\ stage' = "xex"
  /\ UNCHANGED <<program, layout, importing, building, file, segment, combined, xex>>

OpenElf ==
  /\ stage = "linked" /\ file.kind = "elf"
  /\ stage' = "segments"
  /\ UNCHANGED <<program, layout, importing, building, file, converting>>

(* extract_loadable_segments, for one program header.                      *)
SegmentBy(size(_, _)) ==
  /\ stage = "segments" /\ segment <= Len(file.header.segments)
  /\ LET s == file.header.segments[segment]
         base == IF s.vaddr < combined.base THEN s.vaddr ELSE combined.base
         end == (s.vaddr - base) + s.size
     IN  combined' = [base |-> base, size |-> size(combined.size, end),
                      parts |-> IF s.offset + s.size <= file.size
                                THEN With(combined.parts, s.name, [at |-> s.vaddr - base, size |-> s.size])
                                ELSE combined.parts]
  /\ segment' = segment + 1
  /\ UNCHANGED <<program, stage, layout, importing, building, file, basefile, xex>>
ExtractAdding == SegmentBy(LAMBDA size, end : size + file.header.segments[segment].size)
ExtractSegment == SegmentBy(LAMBDA size, end : IF size < end THEN end ELSE size)

(* build_xex: a PE image around all of it, with the entry relative to the  *)
(* lowest segment.                                                         *)
Entry == file.header.entry - combined.base
BuildPeImage ==
  /\ stage = "segments" /\ segment > Len(file.header.segments) /\ combined.size > 0
  /\ layout' = [code |-> combined.size, data |-> 0, entry |-> Entry, sec |-> 4096, lfanew |-> 128,
                headers |-> Align(128 + 4 + 20 + 224 + 2 * 40, FILE_ALIGN), imports |-> FALSE]
  /\ stage' = "headers"
  /\ UNCHANGED <<program, importing, building, file, converting>>

WrapImage ==
  /\ stage = "image" /\ file.kind = "elf"
  /\ basefile' = [image |-> Written("pe"), base |-> BASE_ADDRESS, entry |-> BASE_ADDRESS + 4096 + layout.entry]
  /\ stage' = "xex"
  /\ UNCHANGED <<program, layout, importing, building, file, segment, combined, xex>>

-----------------------------------------------------------------------------
(* build_xex and build_xex_from_pe lay the file out alike: header, five    *)
(* optional headers, execution info, security info, page descriptors, and  *)
(* the image, padded to pages, at the start of a page.                     *)
Pages == Align(basefile.image.size, PAGE_SIZE) \div PAGE_SIZE
ExecutionOffset == 24 + 5 * 8
SecurityOffset == Align(ExecutionOffset + 8 * 4, 4)
PagesOffset == Align(SecurityOffset + 296, 4)
ImageOffset == Align(PagesOffset + Pages * 24, PAGE_SIZE)

XexHeader ==
  [image |-> ImageOffset, security |-> SecurityOffset, execution |-> ExecutionOffset,
   entry |-> basefile.entry, base |-> basefile.base,
   imageSize |-> Align(basefile.image.size, PAGE_SIZE), pages |-> Pages]

XexHeaders ==
  /\ stage = "xex"
  /\ header' = XexHeader
  /\ buf' = Put(PadTo(Put(Empty, "headers", 24 + 5 * 8), ExecutionOffset), "execution", 8 * 4)
  /\ stage' = "security"
  /\ UNCHANGED <<program, layout, importing, file, converting>>

XexSecurity ==
  /\ stage = "security"
  /\ LET b == PadTo(buf, SecurityOffset)      \* 96 bytes of fields, padded to 296
     IN  buf' = PadTo(Put(b, "security", 96), b.size + 296)
  /\ stage' = "pages"
  /\ UNCHANGED <<program, layout, importing, header, file, converting>>

XexPages ==
  /\ stage = "pages"
  /\ buf' = Put(PadTo(buf, PagesOffset), "pages", Pages * 24)
  /\ stage' = "basefile"
  /\ UNCHANGED <<program, layout, importing, header, file, converting>>

XexBasefile ==
  /\ stage = "basefile"
  /\ buf' = Put(PadTo(buf, ImageOffset), "image", Align(basefile.image.size, PAGE_SIZE))
  /\ stage' = "save_xex"
  /\ UNCHANGED <<program, layout, importing, header, file, converting>>

SaveXex ==
  /\ stage = "save_xex"
  /\ xex' \in {Written("xex"), Nothing}
  /\ stage' = "done"
  /\ UNCHANGED <<program, layout, importing, building, file, segment, combined, basefile>>

Imports == CountDll \/ SizeIdata \/ NameDll \/ Thunks \/ DescribeDll
Pe == WritePe \/ Imports \/ PeHeaders \/ PeText \/ PeData \/ PeImports \/ SavePe
Elf == ElfHeaders \/ ElfCode \/ ElfData \/ SaveElf
Convert == CannotOpen \/ WrapPe \/ OpenElf \/ ExtractSegment \/ BuildPeImage \/ WrapImage
Xex == XexHeaders \/ XexSecurity \/ XexPages \/ XexBasefile \/ SaveXex

Next == Pe \/ Elf \/ Convert \/ Xex
Spec == Init /\ [][Next]_vars

-----------------------------------------------------------------------------
(* Type correctness of the writers' state; an entry lies in the code.      *)
TypeOK ==
  /\ program \in Program
  /\ dll \in 1..(Len(program.imports) + 1) /\ segment \in 1..3
  /\ layout # Nothing =>
       /\ layout.code \in Nat /\ layout.data \in Nat /\ layout.entry \in 0..(layout.code - 1)
       /\ layout.sec \in {4096, SEC_ALIGN} /\ layout.lfanew < layout.headers
  /\ buf.size \in Nat /\ \A n \in DOMAIN buf.parts : buf.parts[n] \in [at : Nat, size : Nat]
  /\ combined.size \in Nat /\ combined.base \in BASE_ADDRESS..TOP
  /\ file.kind \in {"none", "pe", "elf"} /\ xex.kind \in {"none", "xex"}
  /\ basefile # Nothing => basefile.image.kind = "pe" /\ basefile.entry >= basefile.base

(* Two regions, and the regions of a set, do not overlap.                  *)
Overlap(r, q) == r.at < q.at + q.size /\ q.at < r.at + r.size
Within(r, lo, hi) == lo <= r.at /\ r.at + r.size <= hi
Untouched(at, size, writes) == \A w \in writes : ~Overlap([at |-> at, size |-> size], w)
PartsApart(b) ==
  /\ \A n \in DOMAIN b.parts : Within(b.parts[n], 0, b.size)
  /\ \A n, m \in DOMAIN b.parts : n # m => ~Overlap(b.parts[n], b.parts[m])

(* Every offset in the headers of a finished file is the position of the   *)
(* part it stands for, the sizes are those of the parts, and parts lie     *)
(* inside the file without touching: what the writers computed beforehand  *)
(* is what they did (linker.cpp:549-571 against 684-698, elf_writer.cpp:   *)
(* 55-58 against 82-87, xex_converter.cpp:189-206 against 241-277).        *)
PeOffsetsRight(image) ==
  /\ PartsApart(image)
  /\ Within(image.parts["headers"], 0, image.header.headersSize)
  /\ \A k \in DOMAIN image.header.sections :
       LET s == image.header.sections[k]
       IN  /\ image.parts[s.name] = [at |-> s.pointer, size |-> s.size]
           /\ s.size <= s.raw /\ s.pointer + s.raw <= image.size /\ s.pointer % FILE_ALIGN = 0
ElfOffsetsRight ==
  /\ PartsApart(file)
  /\ \A k \in DOMAIN file.header.segments :
       LET s == file.header.segments[k] IN file.parts[s.name] = [at |-> s.offset, size |-> s.size]
XexOffsetsRight ==
  LET h == xex.header
  IN  /\ PartsApart(xex)
      /\ xex.parts["image"] = [at |-> h.image, size |-> h.imageSize]
      /\ xex.parts["execution"].at = h.execution /\ xex.parts["security"].at = h.security
      /\ h.pages * PAGE_SIZE = h.imageSize /\ xex.parts["pages"].size = h.pages * 24
      /\ h.image % PAGE_SIZE = 0 /\ h.imageSize >= basefile.image.size
OffsetsRight ==
  /\ file.kind = "pe" => PeOffsetsRight(file)
  /\ file.kind = "elf" => ElfOffsetsRight
  /\ basefile # Nothing => PeOffsetsRight(basefile.image)
  /\ xex.kind = "xex" => XexOffsetsRight

(* In memory the headers and the sections of a PE image lie apart, at      *)
(* multiples of the section alignment, and inside SizeOfImage              *)
(* (linker.cpp:553-571, xex_converter.cpp:62-78).                          *)
InMemory(image) ==
  {[at |-> 0, size |-> image.header.headersSize]} \cup
  {[at |-> s.rva, size |-> s.size] : s \in ToSet(image.header.sections)}
SectionsOf(image) ==
  /\ \A r \in InMemory(image) : Within(r, 0, image.header.imageSize) /\ r.at % image.header.alignment = 0
  /\ \A r, q \in InMemory(image) : r # q => ~Overlap(r, q)
SectionsApart ==
  /\ file.kind = "pe" => SectionsOf(file)
  /\ basefile # Nothing => SectionsOf(basefile.image)

(* The tables of the import section agree although four loops lay them out *)
(* (linker.cpp:429-517): nothing is written over anything else, each DLL's *)
(* lists hold its entries in order and end in a word nothing is written    *)
(* to, its name ends in such a byte, the directory in such a descriptor,   *)
(* and the address recorded for an entry is that of its word in the IAT    *)
(* that the header announces.                                              *)
ListOf(what, d, at) ==
  LET n == program.imports[d].entries
  IN  /\ \A k \in 1..n : [what |-> what, dll |-> d, entry |-> k, at |-> at + 4 * (k - 1), size |-> 4] \in idata.writes
      /\ Untouched(at + 4 * n, 4, idata.writes) /\ at + 4 * n + 4 <= idata.size
ImportsLinked ==
  stage = "linked" /\ layout # Nothing /\ layout.imports =>
    /\ \A w \in idata.writes : Within(w, 0, idata.size)
    /\ \A v, w \in idata.writes : v # w => ~Overlap(v, w)
    /\ Untouched(20 * Len(program.imports), 20, idata.writes)
    /\ header.idt.at = IdataRVA /\ header.idt.size = 20 * (Len(program.imports) + 1)
    /\ \A d \in DOMAIN program.imports :
         LET name == idata.names[d] - IdataRVA
         IN  /\ [what |-> "name", dll |-> d, entry |-> 1, at |-> name, size |-> program.imports[d].name] \in idata.writes
             /\ Untouched(name + program.imports[d].name, 1, idata.writes)
             /\ name + program.imports[d].name < idata.size
             /\ ListOf("ilt", d, idata.ilts[d] - IdataRVA) /\ ListOf("iat", d, idata.iats[d] - IdataRVA)
             /\ \A k \in 1..program.imports[d].entries :
                  /\ idata.slots[d][k] = idata.iats[d] + 4 * (k - 1)
                  /\ Within([at |-> idata.slots[d][k], size |-> 4], header.iat.at, header.iat.at + header.iat.size)

(* The XEX holds the program: its entry address leads, through the headers *)
(* of the image inside, to the byte of main in the code, and the segments  *)
(* of an ELF file are in that image whole and apart, at the distances      *)
(* their addresses have (xex_converter.cpp:66, 222, 299, 334, 445-457).    *)
ProgramInXex ==
  xex.kind = "xex" =>
    LET rva == xex.header.entry - xex.header.base
        image == basefile.image
        text == CHOOSE s \in ToSet(image.header.sections) : s.rva <= rva /\ rva < s.rva + s.size
        inText == (text.pointer + rva - text.rva) - image.parts["text"].at
    IN  /\ \E s \in ToSet(image.header.sections) : s.rva <= rva /\ rva < s.rva + s.size
        /\ file.kind = "pe" => inText = Main
        /\ file.kind = "elf" =>
             /\ PartsApart(combined)
             /\ inText - combined.parts["code"].at = Main
             /\ \A k \in DOMAIN file.header.segments :
                  LET s == file.header.segments[k]
                  IN  combined.parts[s.name] = [at |-> s.vaddr - combined.base, size |-> s.size]
=============================================================================
