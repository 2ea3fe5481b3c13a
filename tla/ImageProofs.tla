---------------------------- MODULE ImageProofs ----------------------------
(***************************************************************************)
(* Proofs about ImageLayout, for every size of code and data, every place  *)
(* of main and every list of DLLs, and about Driver, for every command     *)
(* line and every outcome of the phases.                                   *)
(*                                                                         *)
(* The fields of a header are computed from the layout before the parts    *)
(* are put in the buffer.  PeBuffer, ElfBuffer and XexBuffer say where the *)
(* parts lie that are in the buffer at each place of the writers; what is  *)
(* left is arithmetic on sizes rounded up to an alignment.  The tables of  *)
(* the imports are filled by four loops: Tables says what is in them after *)
(* so many names and lists, in terms of the sums the first loop counted.   *)
(***************************************************************************)
EXTENDS Driver, SequenceTheorems, TLAPS

-----------------------------------------------------------------------------
(* Rounding up.                                                            *)
Alignments == {4, 16, 512, 4096, 65536}
Multiple(n, a) == n % a = 0

LEMMA AlignUp ==
  ASSUME NEW v \in Nat, NEW a \in Alignments
  PROVE  /\ Align(v, a) \in Nat /\ v <= Align(v, a) /\ Align(v, a) < v + a
         /\ Multiple(Align(v, a), a)
<1>1. CASE a = 4
  BY <1>1 DEF Align, Multiple
<1>2. CASE a = 16
  BY <1>2 DEF Align, Multiple
<1>3. CASE a = 512
  BY <1>3 DEF Align, Multiple
<1>4. CASE a = 4096
  BY <1>4 DEF Align, Multiple
<1>5. CASE a = 65536
  BY <1>5 DEF Align, Multiple
<1> QED BY <1>1, <1>2, <1>3, <1>4, <1>5 DEF Alignments

(* Sections in memory: each begins at a multiple of the alignment, behind  *)
(* the one before.                                                         *)
LEMMA NextSection ==
  ASSUME NEW a \in Alignments, NEW b \in Nat, Multiple(b, a), NEW v \in Nat
  PROVE  /\ b + Align(v, a) \in Nat /\ Multiple(b + Align(v, a), a)
         /\ b + v <= b + Align(v, a)
<1>1. CASE a = 4
  BY <1>1 DEF Align, Multiple
<1>2. CASE a = 16
  BY <1>2 DEF Align, Multiple
<1>3. CASE a = 512
  BY <1>3 DEF Align, Multiple
<1>4. CASE a = 4096
  BY <1>4 DEF Align, Multiple
<1>5. CASE a = 65536
  BY <1>5 DEF Align, Multiple
<1> QED BY <1>1, <1>2, <1>3, <1>4, <1>5 DEF Alignments

(* What is put in a buffer, and padding.                                   *)
LEMMA PutPart ==
  ASSUME NEW b, b.size \in Nat, NEW name, NEW size \in Nat
  PROVE  LET c == Put(b, name, size)
         IN  /\ c.size = b.size + size /\ c = [size |-> c.size, parts |-> c.parts]
             /\ DOMAIN c.parts = DOMAIN b.parts \cup {name}
             /\ c.parts[name] = [at |-> b.size, size |-> size]
             /\ \A n \in DOMAIN b.parts \ {name} : c.parts[n] = b.parts[n]
BY DEF Put, With

LEMMA Padded ==
  ASSUME NEW b, b = [size |-> b.size, parts |-> b.parts], NEW target
  PROVE  LET c == PadTo(b, target)
         IN  /\ c = [size |-> c.size, parts |-> c.parts] /\ c.parts = b.parts
             /\ c.size = IF b.size < target THEN target ELSE b.size
BY DEF PadTo

-----------------------------------------------------------------------------
(* The state of the writers.                                               *)
LargeLayout == layout.sec = 65536 /\ layout.lfanew = 232 /\ layout.headers = 1024
SmallLayout == layout.sec = 4096 /\ layout.lfanew = 128 /\ layout.headers = 512 /\ ~layout.imports
LayoutTyped == layout.code \in Nat \ {0} /\ layout.data \in Nat /\ (LargeLayout \/ SmallLayout)
Listing == {"names", "thunks", "descriptors"}
Importing == {"count", "idata"} \cup Listing
Filling == {"text", "data", "imports", "image"}
Writing == {"headers"} \cup Filling
Wrapping == {"xex", "security", "pages", "basefile", "save_xex"}

Cursors ==
  /\ program \in Program
  /\ program.imports # << >> => dll \in 1..Len(program.imports)
  /\ total \in [entries : Nat, names : Nat]
  /\ segment \in Nat \ {0} /\ combined.size \in Nat /\ combined.base \in Int
LaidOut ==
  /\ stage \in Importing => program.imports # << >> /\ LayoutTyped /\ LargeLayout
  /\ stage \in Writing => LayoutTyped
  /\ (stage \in Listing \/ (stage \in Writing /\ layout.imports)) =>
       "size" \in DOMAIN idata /\ idata.size \in Nat
Results ==
  /\ file.kind \in {"none", "pe", "elf"} /\ (stage = "segments" => file.kind = "elf")
  /\ file.kind = "pe" => file.size \in Nat
  /\ file.kind = "elf" => file.header = ElfHeader
  /\ stage \in Wrapping => basefile.image.size \in Nat
  /\ stage # "done" => xex.kind = "none"
Typed == Cursors /\ LaidOut /\ Results

IsBuffer(b) == b = [size |-> b.size, parts |-> b.parts]
Holds(name, at, size) == name \in DOMAIN buf.parts /\ buf.parts[name] = [at |-> at, size |-> size]

(* What lies in the buffer of a PE image.                                  *)
HeadersIn == Holds("headers", layout.lfanew, 4 + 20 + 224 + 40 * Len(Sections))
TextIn == Holds("text", layout.headers, layout.code)
DataIn == Holds("data", layout.headers + Raw(layout.code), layout.data)
IdataIn == Holds("idata", layout.headers + Raw(layout.code) + Raw(layout.data), idata.size)
PeBuffer ==
  /\ stage \in Filling => header = PeHeader /\ IsBuffer(buf) /\ HeadersIn
  /\ stage = "text" => DOMAIN buf.parts = {"headers"} /\ buf.size = layout.headers
  /\ stage = "data" =>
       DOMAIN buf.parts = {"headers", "text"} /\ TextIn /\ buf.size = layout.headers + Raw(layout.code)
  /\ stage = "imports" => layout.imports
  /\ stage = "imports" \/ (stage = "image" /\ ~layout.imports) =>
       /\ DOMAIN buf.parts = {"headers", "text", "data"} /\ TextIn /\ DataIn
       /\ buf.size = layout.headers + Raw(layout.code) + Raw(layout.data)
  /\ stage = "image" /\ layout.imports =>
       /\ DOMAIN buf.parts = {"headers", "text", "data", "idata"} /\ TextIn /\ DataIn /\ IdataIn
       /\ buf.size = layout.headers + Raw(layout.code) + Raw(layout.data) + Raw(idata.size)

(* The same of an ELF image and of a XEX.                                  *)
ElfStages == {"elf_code", "elf_data", "elf"}
ElfBuffer ==
  /\ stage \in ElfStages => header = ElfHeader /\ IsBuffer(buf) /\ Holds("headers", 0, 116)
  /\ stage = "elf_code" => DOMAIN buf.parts = {"headers"} /\ buf.size = CodeOffset
  /\ stage \in {"elf_data", "elf"} => Holds("code", CodeOffset, program.code)
  /\ stage = "elf_data" => DOMAIN buf.parts = {"headers", "code"} /\ buf.size = DataOffset
  /\ stage = "elf" =>
       /\ DOMAIN buf.parts = {"headers", "code", "data"} /\ Holds("data", DataOffset, program.data)
       /\ buf.size = DataOffset + program.data

ImageSize == Align(basefile.image.size, PAGE_SIZE)
XexBuffer ==
  /\ stage \in Wrapping \ {"xex"} =>
       header = XexHeader /\ IsBuffer(buf) /\ Holds("headers", 0, 64) /\ Holds("execution", 64, 32)
  /\ stage \in {"pages", "basefile", "save_xex"} => Holds("security", 96, 96)
  /\ stage \in {"basefile", "save_xex"} => Holds("pages", 392, Pages * 24)
  /\ stage = "security" => DOMAIN buf.parts = {"headers", "execution"} /\ buf.size = 96
  /\ stage = "pages" => DOMAIN buf.parts = {"headers", "execution", "security"} /\ buf.size = 392
  /\ stage = "basefile" =>
       DOMAIN buf.parts = {"headers", "execution", "security", "pages"} /\ buf.size = 392 + Pages * 24
  /\ stage = "save_xex" =>
       /\ DOMAIN buf.parts = {"headers", "execution", "security", "pages", "image"}
       /\ Holds("image", ImageOffset, ImageSize) /\ buf.size = ImageOffset + ImageSize

Buffers == PeBuffer /\ ElfBuffer /\ XexBuffer
Right == OffsetsRight /\ SectionsApart
Inv == Typed /\ Buffers /\ Right

-----------------------------------------------------------------------------
(* The image at the end of the PE writer.                                  *)
LEMMA SectionList ==
  Sections = IF layout.imports
             THEN <<Section("text", TextRVA, layout.code, layout.headers),
                    Section("data", DataRVA, layout.data, layout.headers + Raw(layout.code)),
                    Section("idata", IdataRVA, idata.size, layout.headers + Raw(layout.code) + Raw(layout.data))>>
             ELSE <<Section("text", TextRVA, layout.code, layout.headers),
                    Section("data", DataRVA, layout.data, layout.headers + Raw(layout.code))>>
<1>1. ASSUME NEW a, NEW b, NEW c
      PROVE  <<a, b>> \o <<c>> = <<a, b, c>>
  <2> DEFINE S == {a, b, c}
  <2>1. <<a, b>> \in Seq(S) /\ <<c>> \in Seq(S) /\ <<a, b, c>> \in Seq(S)
    OBVIOUS
  <2>2. <<a, b>> \o <<c>> \in Seq(S) /\ Len(<<a, b>> \o <<c>>) = 3
        /\ \A i \in 1..3 : (<<a, b>> \o <<c>>)[i] = <<a, b, c>>[i]
    BY <2>1, ConcatProperties
  <2> HIDE DEF S
  <2> QED BY <2>1, <2>2, SeqEqual
<1>2. ASSUME NEW a, NEW b
      PROVE  <<a, b>> \o << >> = <<a, b>>
  OBVIOUS
<1>3. CASE layout.imports
  BY <1>1, <1>3 DEF Sections
<1>4. CASE ~layout.imports
  BY <1>2, <1>4 DEF Sections
<1> QED BY <1>3, <1>4

LEMMA Offsets ==
  ASSUME Typed, stage \in Writing
  PROVE  /\ Raw(layout.code) \in Nat /\ layout.code <= Raw(layout.code) /\ Raw(layout.code) % 512 = 0
         /\ Raw(layout.data) \in Nat /\ layout.data <= Raw(layout.data) /\ Raw(layout.data) % 512 = 0
         /\ layout.imports => Raw(idata.size) \in Nat /\ idata.size <= Raw(idata.size)
<1>1. layout.code \in Nat /\ layout.data \in Nat
  BY DEF Typed, LaidOut, LayoutTyped
<1>3. layout.imports => idata.size \in Nat
  BY Zenon DEF Typed, LaidOut
<1>2. \A v \in Nat : Raw(v) \in Nat /\ v <= Raw(v) /\ Raw(v) % 512 = 0
  BY AlignUp DEF Raw, FILE_ALIGN, Alignments, Multiple
<1> QED BY <1>1, <1>2, <1>3

LEMMA PeWritten ==
  ASSUME Typed, PeBuffer, stage = "image"
  PROVE  PeOffsetsRight(Written("pe"))
<1> DEFINE image == Written("pe")
           places == {"headers", "text", "data"} \cup IF layout.imports THEN {"idata"} ELSE {}
<1>1. stage \in Writing /\ stage \in Filling
  BY DEF Writing, Filling
<1>2. LayoutTyped /\ (layout.imports => idata.size \in Nat)
  BY <1>1, Zenon DEF Typed, LaidOut
<1>3. image.parts = buf.parts /\ image.size = buf.size /\ image.header = PeHeader
  BY <1>1 DEF Written, PeBuffer
<1>4. /\ DOMAIN buf.parts = places /\ HeadersIn /\ TextIn /\ DataIn
      /\ layout.imports => IdataIn
      /\ buf.size = layout.headers + Raw(layout.code) + Raw(layout.data)
                       + (IF layout.imports THEN Raw(idata.size) ELSE 0)
  <2>1. CASE layout.imports
    BY <1>1, <2>1 DEF PeBuffer
  <2>2. CASE ~layout.imports
    <3>1. layout.headers + Raw(layout.code) + Raw(layout.data) \in Nat
      BY <1>1, <1>2, Offsets DEF LayoutTyped, LargeLayout, SmallLayout
    <3> QED BY <1>1, <2>2, <3>1 DEF PeBuffer
  <2> QED BY <2>1, <2>2
<1>5. 4 + 20 + 224 + 40 * Len(Sections) \in Nat
      /\ layout.lfanew + (4 + 20 + 224 + 40 * Len(Sections)) <= layout.headers
  BY <1>2, SectionList DEF LayoutTyped, LargeLayout, SmallLayout
<1>6. PartsApart(image)
  <2> HIDE DEF image
  <2> SUFFICES ASSUME NEW n \in places, NEW m \in places
               PROVE  Within(buf.parts[n], 0, buf.size) /\ (n # m => ~Overlap(buf.parts[n], buf.parts[m]))
    BY <1>3, <1>4 DEF PartsApart
  <2> DEFINE h == layout.headers  c == Raw(layout.code)  d == Raw(layout.data)
             i == IF layout.imports THEN Raw(idata.size) ELSE 0
             j == IF layout.imports THEN idata.size ELSE 0
             p == 4 + 20 + 224 + 40 * Len(Sections)  f == layout.lfanew
  <2>1. /\ h \in Nat /\ c \in Nat /\ d \in Nat /\ i \in Nat /\ j \in Nat /\ j <= i
        /\ layout.code \in Nat /\ layout.code <= c /\ layout.data \in Nat /\ layout.data <= d
        /\ f \in Nat /\ p \in Nat /\ f + p <= h
    BY <1>1, <1>2, <1>5, Offsets DEF LayoutTyped, LargeLayout, SmallLayout
  <2>2. /\ buf.parts["headers"] = [at |-> f, size |-> p]
        /\ buf.parts["text"] = [at |-> h, size |-> layout.code]
        /\ buf.parts["data"] = [at |-> h + c, size |-> layout.data]
        /\ layout.imports => buf.parts["idata"] = [at |-> h + c + d, size |-> j]
        /\ buf.size = h + c + d + i
    BY <1>4 DEF HeadersIn, TextIn, DataIn, IdataIn, Holds
  <2> HIDE DEF h, c, d, i, j, p, f
  <2>3. CASE layout.imports
    <3>1. n \in {"headers", "text", "data", "idata"} /\ m \in {"headers", "text", "data", "idata"}
      BY <2>3
    <3> QED BY <2>1, <2>2, <2>3, <3>1 DEF Within, Overlap
  <2>4. CASE ~layout.imports
    <3>1. n \in {"headers", "text", "data"} /\ m \in {"headers", "text", "data"}
      BY <2>4
    <3> QED BY <2>1, <2>2, <3>1 DEF Within, Overlap
  <2> QED BY <2>3, <2>4
<1>7. Within(image.parts["headers"], 0, image.header.headersSize)
  <2> HIDE DEF image
  <2> QED BY <1>2, <1>3, <1>4, <1>5 DEF HeadersIn, Holds, Within, PeHeader, LayoutTyped, LargeLayout, SmallLayout
<1>8. ASSUME NEW k \in DOMAIN image.header.sections
      PROVE  LET s == image.header.sections[k]
             IN  /\ image.parts[s.name] = [at |-> s.pointer, size |-> s.size]
                 /\ s.size <= s.raw /\ s.pointer + s.raw <= image.size /\ s.pointer % FILE_ALIGN = 0
  <2> HIDE DEF image
  <2>1. image.header.sections = Sections
    BY <1>3 DEF PeHeader
  <2>2. layout.headers \in {512, 1024}
    BY <1>2 DEF LayoutTyped, LargeLayout, SmallLayout
  <2>3. CASE layout.imports
    <3>1. k \in {1, 2, 3}
      BY <2>1, <2>3, SectionList
    <3> QED BY <1>1, <1>2, <1>3, <1>4, <2>1, <2>2, <2>3, <3>1, SectionList, Offsets
            DEF Section, TextIn, DataIn, IdataIn, Holds, FILE_ALIGN
  <2>4. CASE ~layout.imports
    <3>1. k \in {1, 2}
      BY <2>1, <2>4, SectionList
    <3> QED BY <1>1, <1>2, <1>3, <1>4, <2>1, <2>2, <2>4, <3>1, SectionList, Offsets
            DEF Section, TextIn, DataIn, Holds, FILE_ALIGN
  <2> QED BY <2>3, <2>4
<1> QED BY <1>6, <1>7, <1>8 DEF PeOffsetsRight

LEMMA PeInMemory ==
  ASSUME Typed, PeBuffer, stage = "image"
  PROVE  SectionsOf(Written("pe"))
<1> DEFINE image == Written("pe")
           j == IF layout.imports THEN idata.size ELSE 0
           sec == layout.sec  h == layout.headers  c == layout.code  d == layout.data
           data == DataRVA  last == IdataRVA  end == PeHeader.imageSize
           part(at, size) == [at |-> at, size |-> size]
<1>1. stage \in Writing /\ stage \in Filling
  BY DEF Writing, Filling
<1>2. LayoutTyped /\ (layout.imports => idata.size \in Nat)
  BY <1>1, Zenon DEF Typed, LaidOut
<1>3. /\ image.header = PeHeader
      /\ PeHeader.headersSize = h /\ PeHeader.alignment = sec /\ PeHeader.sections = Sections
      /\ j = IdataSize /\ j \in Nat
  BY <1>1, <1>2 DEF Written, PeBuffer, PeHeader, IdataSize
<1>4. /\ data = sec + Align(c, sec) /\ last = data + Align(d, sec) /\ end = last + Align(j, sec)
      /\ c \in Nat \ {0} /\ d \in Nat
  BY <1>2, <1>3 DEF DataRVA, TextRVA, IdataRVA, PeHeader, LayoutTyped
<1>5. /\ h \in Nat /\ sec \in Nat /\ data \in Nat /\ last \in Nat /\ end \in Nat
      /\ Multiple(0, sec) /\ Multiple(sec, sec) /\ Multiple(data, sec) /\ Multiple(last, sec)
      /\ h <= sec /\ sec + c <= data /\ data + d <= last /\ last + j <= end
  <2>1. sec \in Alignments /\ sec \in Nat /\ h \in Nat /\ h <= sec /\ Multiple(0, sec) /\ Multiple(sec, sec)
    BY <1>2 DEF LayoutTyped, LargeLayout, SmallLayout, Alignments, Multiple
  <2> HIDE DEF sec, h, j, c, d, data, last, end
  <2>2. c \in Nat /\ d \in Nat /\ j \in Nat
    BY <1>3, <1>4
  <2>3. data \in Nat /\ Multiple(data, sec) /\ sec + c <= data
    BY <1>4, <2>1, <2>2, NextSection
  <2>4. last \in Nat /\ Multiple(last, sec) /\ data + d <= last
    BY <1>4, <2>1, <2>2, <2>3, NextSection
  <2>5. end \in Nat /\ last + j <= end
    BY <1>4, <2>1, <2>2, <2>4, NextSection
  <2> QED BY <2>1, <2>3, <2>4, <2>5
<1> DEFINE places == {part(0, h), part(sec, c), part(data, d)} \cup IF layout.imports THEN {part(last, j)} ELSE {}
<1>6. InMemory(image) = places
  <2> HIDE DEF image
  <2>1. InMemory(image) = {part(0, h)} \cup {part(s.rva, s.size) : s \in ToSet(Sections)}
    BY <1>3 DEF InMemory
  <2>2. CASE layout.imports
    <3>1. ToSet(Sections) = {Sections[1], Sections[2], Sections[3]}
      BY <2>2, SectionList DEF ToSet
    <3>2. /\ part(Sections[1].rva, Sections[1].size) = part(sec, c)
          /\ part(Sections[2].rva, Sections[2].size) = part(data, d)
          /\ part(Sections[3].rva, Sections[3].size) = part(last, j)
      BY <2>2, SectionList DEF Section, TextRVA
    <3> QED BY <2>1, <2>2, <3>1, <3>2
  <2>3. CASE ~layout.imports
    <3>1. ToSet(Sections) = {Sections[1], Sections[2]}
      BY <2>3, SectionList DEF ToSet
    <3>2. /\ part(Sections[1].rva, Sections[1].size) = part(sec, c)
          /\ part(Sections[2].rva, Sections[2].size) = part(data, d)
      BY <2>3, SectionList DEF Section, TextRVA
    <3> QED BY <2>1, <2>3, <3>1, <3>2
  <2> QED BY <2>2, <2>3
<1> HIDE DEF image, j, sec, h, c, d, data, last, end
<1>7. ASSUME NEW r \in places PROVE Within(r, 0, end) /\ Multiple(r.at, sec)
  BY <1>3, <1>4, <1>5 DEF Within
<1>8. ASSUME NEW r \in places, NEW q \in places, r # q PROVE ~Overlap(r, q)
  BY <1>3, <1>4, <1>5, <1>8 DEF Overlap
<1>9. image.header.imageSize = end /\ image.header.alignment = sec
  BY <1>3 DEF end
<1> QED BY <1>6, <1>7, <1>8, <1>9 DEF SectionsOf, Multiple, image

-----------------------------------------------------------------------------
(* The ELF file and the XEX.                                               *)
LEMMA ElfOffsets ==
  ASSUME Typed
  PROVE  /\ program.code \in Nat /\ program.data \in Nat
         /\ CodeOffset = 128 /\ DataOffset \in Nat /\ 128 + program.code <= DataOffset
<1>1. program.code \in Nat /\ program.data \in Nat
  BY DEF Typed, Cursors, Program
<1>2. CodeOffset = 128
  BY DEF CodeOffset, Align
<1>3. PICK v \in Nat : v = 128 + program.code
  BY <1>1
<1>4. DataOffset = Align(v, 16)
  BY <1>2, <1>3 DEF DataOffset
<1>5. Align(v, 16) \in Nat /\ v <= Align(v, 16)
  BY AlignUp DEF Alignments
<1> QED BY <1>1, <1>2, <1>3, <1>4, <1>5

LEMMA XexOffsets ==
  ASSUME basefile.image.size \in Nat
  PROVE  /\ ExecutionOffset = 64 /\ SecurityOffset = 96 /\ PagesOffset = 392
         /\ Pages \in Nat /\ ImageSize \in Nat /\ Pages * 65536 = ImageSize
         /\ basefile.image.size <= ImageSize
         /\ ImageOffset \in Nat /\ 392 + Pages * 24 <= ImageOffset /\ Multiple(ImageOffset, 65536)
<1>1. ExecutionOffset = 64 /\ SecurityOffset = 96 /\ PagesOffset = 392
  BY DEF ExecutionOffset, SecurityOffset, PagesOffset, Align
<1>2. Pages \in Nat /\ ImageSize \in Nat /\ Pages * 65536 = ImageSize /\ basefile.image.size <= ImageSize
  BY DEF Pages, ImageSize, Align, PAGE_SIZE
<1>3. ImageOffset = Align(392 + Pages * 24, 65536) /\ 392 + Pages * 24 \in Nat
  BY <1>1, <1>2 DEF ImageOffset, PAGE_SIZE
<1> HIDE DEF ImageOffset
<1> QED BY <1>1, <1>2, <1>3, AlignUp DEF Alignments

LEMMA ElfWritten ==
  ASSUME Typed, ElfBuffer, stage = "elf", file' = Written("elf"), UNCHANGED program
  PROVE  ElfOffsetsRight'
<1>1. /\ file'.parts = buf.parts /\ file'.size = buf.size /\ file'.header = ElfHeader
      /\ DOMAIN buf.parts = {"headers", "code", "data"} /\ buf.size = DataOffset + program.data
      /\ buf.parts["headers"] = [at |-> 0, size |-> 116]
      /\ buf.parts["code"] = [at |-> CodeOffset, size |-> program.code]
      /\ buf.parts["data"] = [at |-> DataOffset, size |-> program.data]
  BY DEF Written, ElfBuffer, ElfStages, Holds
<1>2. PartsApart(file')
  <2> SUFFICES ASSUME NEW n \in {"headers", "code", "data"}, NEW m \in {"headers", "code", "data"}
               PROVE  Within(buf.parts[n], 0, buf.size) /\ (n # m => ~Overlap(buf.parts[n], buf.parts[m]))
    BY <1>1 DEF PartsApart
  <2> QED BY <1>1, ElfOffsets DEF Within, Overlap
<1>3. ASSUME NEW k \in DOMAIN file'.header.segments
      PROVE  LET s == file'.header.segments[k] IN file'.parts[s.name] = [at |-> s.offset, size |-> s.size]
  <2>1. k \in {1, 2}
    BY <1>1 DEF ElfHeader
  <2> QED BY <1>1, <2>1 DEF ElfHeader
<1> QED BY <1>2, <1>3 DEF ElfOffsetsRight

LEMMA XexWritten ==
  ASSUME Typed, XexBuffer, stage = "save_xex", xex' = Written("xex"), UNCHANGED basefile
  PROVE  XexOffsetsRight'
<1>1. basefile.image.size \in Nat
  BY DEF Typed, Results, Wrapping
<1>2. /\ xex'.parts = buf.parts /\ xex'.size = buf.size /\ xex'.header = XexHeader
      /\ DOMAIN buf.parts = {"headers", "execution", "security", "pages", "image"}
      /\ buf.size = ImageOffset + ImageSize
      /\ buf.parts["headers"] = [at |-> 0, size |-> 64]
      /\ buf.parts["execution"] = [at |-> 64, size |-> 32]
      /\ buf.parts["security"] = [at |-> 96, size |-> 96]
      /\ buf.parts["pages"] = [at |-> 392, size |-> Pages * 24]
      /\ buf.parts["image"] = [at |-> ImageOffset, size |-> ImageSize]
  BY DEF Written, XexBuffer, Wrapping, Holds
<1> DEFINE begin == ImageOffset  room == ImageSize
<1>3. /\ Pages \in Nat /\ begin \in Nat /\ room \in Nat /\ 392 + Pages * 24 <= begin /\ Multiple(begin, 65536)
      /\ Pages * 65536 = room /\ basefile.image.size <= room
      /\ ExecutionOffset = 64 /\ SecurityOffset = 96
  BY <1>1, XexOffsets
<1>4. PICK table \in Nat : table = Pages * 24
  BY <1>3
<1>5. /\ XexHeader.image = begin /\ XexHeader.imageSize = room /\ XexHeader.pages = Pages
      /\ XexHeader.execution = 64 /\ XexHeader.security = 96
  BY <1>3 DEF XexHeader, ImageSize
<1>6. /\ buf.parts["pages"] = [at |-> 392, size |-> table]
      /\ buf.parts["image"] = [at |-> begin, size |-> room] /\ buf.size = begin + room
      /\ 392 + table <= begin
  BY <1>2, <1>3, <1>4
<1> HIDE DEF begin, room
<1>7. PartsApart(xex')
  <2> SUFFICES ASSUME NEW n \in DOMAIN buf.parts, NEW m \in DOMAIN buf.parts
               PROVE  Within(buf.parts[n], 0, buf.size) /\ (n # m => ~Overlap(buf.parts[n], buf.parts[m]))
    BY <1>2 DEF PartsApart
  <2>1. /\ DOMAIN buf.parts = {"headers", "execution", "security", "pages", "image"}
        /\ buf.parts["headers"] = [at |-> 0, size |-> 64]
        /\ buf.parts["execution"] = [at |-> 64, size |-> 32]
        /\ buf.parts["security"] = [at |-> 96, size |-> 96]
    BY <1>2
  <2> QED BY <1>3, <1>4, <1>6, <2>1 DEF Within, Overlap
<1>8. basefile' = basefile
  OBVIOUS
<1> QED BY <1>2, <1>3, <1>5, <1>6, <1>7, <1>8 DEF XexOffsetsRight, PAGE_SIZE, Multiple

-----------------------------------------------------------------------------
(* What a step does to a buffer.                                           *)
LEMMA Extended ==
  ASSUME NEW b, IsBuffer(b), b.size \in Nat, NEW name, NEW size \in Nat,
         NEW target \in Nat, b.size + size <= target
  PROVE  LET c == PadTo(Put(b, name, size), target)
         IN  /\ IsBuffer(c) /\ c.size = target /\ DOMAIN c.parts = DOMAIN b.parts \cup {name}
             /\ c.parts[name] = [at |-> b.size, size |-> size]
             /\ \A n \in DOMAIN b.parts \ {name} : c.parts[n] = b.parts[n]
<1> DEFINE d == Put(b, name, size)  c == PadTo(d, target)
<1>1. /\ d.size = b.size + size /\ d = [size |-> d.size, parts |-> d.parts]
      /\ DOMAIN d.parts = DOMAIN b.parts \cup {name} /\ d.parts[name] = [at |-> b.size, size |-> size]
      /\ \A n \in DOMAIN b.parts \ {name} : d.parts[n] = b.parts[n]
  BY PutPart
<1> HIDE DEF d
<1>2. c = [size |-> c.size, parts |-> c.parts] /\ c.parts = d.parts
      /\ c.size = IF d.size < target THEN target ELSE d.size
  BY <1>1, Padded
<1> HIDE DEF c
<1>3. c.size = target
  BY <1>1, <1>2
<1> QED BY <1>1, <1>2, <1>3 DEF IsBuffer, c, d

LEMMA NotPadded ==
  ASSUME NEW b, IsBuffer(b), b.size \in Int, NEW target \in Int, target <= b.size
  PROVE  PadTo(b, target) = b
BY DEF IsBuffer, PadTo

LEMMA EmptyBuffer == IsBuffer(Empty) /\ Empty.size = 0 /\ DOMAIN Empty.parts = {}
BY DEF IsBuffer, Empty

(* What is computed from the layout stays as long as the layout does.      *)
LEMMA PeSame ==
  ASSUME UNCHANGED <<program, layout, importing>>
  PROVE  PeHeader' = PeHeader /\ Sections' = Sections
<1>1. Sections' = Sections
  BY DEF importing, Sections, TextRVA, DataRVA, IdataRVA
<1>2. IdtSize' = IdtSize /\ ThunksSize' = ThunksSize /\ IdataSize' = IdataSize
  BY DEF importing, IdtSize, ThunksSize, IdataSize
<1> QED BY <1>1, <1>2 DEF importing, PeHeader, TextRVA, DataRVA, IdataRVA

LEMMA XexSame ==
  ASSUME UNCHANGED basefile
  PROVE  XexHeader' = XexHeader /\ ImageOffset' = ImageOffset /\ ImageSize' = ImageSize /\ Pages' = Pages
BY DEF XexHeader, ImageOffset, ImageSize, Pages, PagesOffset, SecurityOffset, ExecutionOffset

(* Nothing else than the three results tells whether they are right.       *)
LEMMA Kept ==
  ASSUME Right, UNCHANGED <<file, basefile, xex>>
  PROVE  Right'
BY DEF Right, OffsetsRight, SectionsApart, ElfOffsetsRight, XexOffsetsRight

-----------------------------------------------------------------------------
LEMMA InitInv == Init => Inv
<1> SUFFICES ASSUME Init PROVE Inv
  OBVIOUS
<1>1. program \in Program
  BY ProgramsAssumption DEF Init
<1>2. program.imports # << >> => 1 \in 1..Len(program.imports)
  <2>1. program.imports \in Seq(Dll)
    BY <1>1 DEF Program
  <2> QED BY <2>1, EmptySeq
<1>3. Typed
  BY <1>1, <1>2, AddressAssumption DEF Init, Typed, Cursors, LaidOut, Results, Nothing, Importing, Listing, Writing, Filling, Wrapping
<1>4. Buffers
  BY DEF Init, Buffers, PeBuffer, ElfBuffer, XexBuffer, Filling, ElfStages, Wrapping
<1>5. Right
  BY DEF Init, Right, OffsetsRight, SectionsApart, Nothing
<1> QED BY <1>3, <1>4, <1>5 DEF Inv

-----------------------------------------------------------------------------
(* A step keeps the state typed.                                           *)
LEMMA BufferSize ==
  ASSUME Typed, PeBuffer, stage = "image"
  PROVE  buf.size \in Nat
<1>1. stage \in Writing
  BY DEF Writing, Filling
<1>2. layout.headers \in Nat /\ (layout.imports \/ ~layout.imports)
  BY <1>1 DEF Typed, LaidOut, LayoutTyped, LargeLayout, SmallLayout
<1>3. CASE layout.imports
  BY <1>1, <1>2, <1>3, Offsets DEF PeBuffer
<1>4. CASE ~layout.imports
  BY <1>1, <1>2, <1>4, Offsets DEF PeBuffer
<1> QED BY <1>2, <1>3, <1>4

LEMMA CursorsSame ==
  ASSUME Cursors, UNCHANGED <<program, dll, total, segment, combined>>
  PROVE  Cursors'
BY DEF Cursors

LEMMA LaidOutSame ==
  ASSUME LaidOut, UNCHANGED <<program, layout, idata>>,
         stage' \in Writing => stage \in Writing, stage' \notin Importing
  PROVE  LaidOut'
<1>1. stage' \in Writing => LayoutTyped'
  BY DEF LaidOut, LayoutTyped, LargeLayout, SmallLayout
<1>2. stage' \in Writing /\ layout'.imports => "size" \in DOMAIN idata' /\ idata'.size \in Nat
  BY Zenon DEF LaidOut
<1>3. stage' \notin Listing
  BY DEF Importing
<1> QED BY <1>1, <1>2, <1>3, Zenon DEF LaidOut

LEMMA LaidOutElsewhere ==
  ASSUME stage' \notin Writing, stage' \notin Importing
  PROVE  LaidOut'
BY DEF LaidOut, Importing

LEMMA ResultsSame ==
  ASSUME Results, UNCHANGED <<program, file, basefile, xex>>,
         stage' = "segments" => file.kind = "elf", stage' \in Wrapping => stage \in Wrapping, stage # "done"
  PROVE  Results'
BY DEF Results, ElfHeader, DataOffset, CodeOffset, Main

LEMMA DllCursor ==
  ASSUME NEW here, NEW next, NextDll(here, next), Cursors, program.imports # << >>,
         UNCHANGED <<program, segment, combined>>, total' \in [entries : Nat, names : Nat]
  PROVE  Cursors' /\ stage' \in {here, next}
<1>1. Len(program.imports) \in Nat
  BY DEF Cursors, Program
<1>2. dll \in 1..Len(program.imports)
  BY DEF Cursors
<1>3. dll' \in 1..Len(program.imports) /\ stage' \in {here, next}
  BY <1>1, <1>2 DEF NextDll, LastDll
<1> QED BY <1>3 DEF Cursors

(* The tables of the imports: their total size was fixed before.           *)
LEMMA Listed ==
  ASSUME LaidOut, stage \in Listing, UNCHANGED <<program, layout>>,
         stage' \in Listing \cup {"headers"}, "size" \in DOMAIN idata', idata'.size = idata.size
  PROVE  LaidOut'
<1>1. stage \in Importing /\ program.imports # << >> /\ LayoutTyped /\ LargeLayout
  BY DEF LaidOut, Importing
<1>2. LayoutTyped' /\ LargeLayout'
  BY <1>1 DEF LayoutTyped, LargeLayout, SmallLayout
<1>3. idata'.size \in Nat
  BY DEF LaidOut
<1> QED BY <1>1, <1>2, <1>3 DEF LaidOut

LEMMA TypedKept ==
  ASSUME Typed, Buffers, Next
  PROVE  Typed'
<1> USE DEF importing, building, converting
<1> SUFFICES Cursors' /\ LaidOut' /\ Results'
  BY DEF Typed
<1>0. Cursors /\ LaidOut /\ Results
  BY DEF Typed
<1>1. CASE WritePe
  <2>1. program.code \in Nat \ {0} /\ program.data \in Nat
    BY DEF Typed, Cursors, Program
  <2>2. /\ layout' = [code |-> program.code, data |-> program.data, entry |-> Main, sec |-> SEC_ALIGN,
                      lfanew |-> 232, headers |-> Align(1024, FILE_ALIGN), imports |-> program.imports # << >>]
        /\ stage' = IF program.imports = << >> THEN "headers" ELSE "count"
        /\ stage = "link"
        /\ UNCHANGED <<program, dll, total, segment, combined, file, basefile, xex>>
    BY <1>1 DEF WritePe
  <2>3. LayoutTyped' /\ LargeLayout'
    BY <2>1, <2>2 DEF LayoutTyped, LargeLayout, Align, SEC_ALIGN, FILE_ALIGN
  <2>4. LaidOut'
    <3>1. CASE program.imports = << >>
      <4>1. stage' = "headers" /\ ~layout'.imports
        BY <2>2, <3>1
      <4> QED BY <2>2, <2>3, <4>1 DEF LaidOut, Importing, Listing
    <3>2. CASE program.imports # << >>
      <4>1. stage' = "count" /\ program'.imports # << >>
        BY <2>2, <3>2
      <4> QED BY <2>3, <4>1 DEF LaidOut, Writing, Filling, Listing
    <3> QED BY <3>1, <3>2
  <2> QED BY <1>0, <2>2, <2>4, CursorsSame, ResultsSame DEF Wrapping
<1>2. CASE CountDll
  <2>1. stage \in Importing /\ program.imports # << >> /\ LayoutTyped /\ LargeLayout
    BY <1>0, <1>2 DEF CountDll, LaidOut, Importing
  <2>2. program.imports[dll] \in Dll
    BY <1>0, <2>1 DEF Cursors, Program
  <2>3. total' \in [entries : Nat, names : Nat]
    <3>1. /\ program.imports[dll].name \in Nat /\ program.imports[dll].entries \in Nat
          /\ total.entries \in Nat /\ total.names \in Nat
      BY <1>0, <2>2 DEF Cursors, Dll
    <3>2. total' = [entries |-> total.entries + program.imports[dll].entries + 1,
                    names |-> total.names + program.imports[dll].name + 1]
      BY <1>2 DEF CountDll
    <3> QED BY <3>1, <3>2
  <2>4. Cursors' /\ stage' \in {"count", "idata"}
    BY <1>0, <1>2, <2>1, <2>3, DllCursor DEF CountDll
  <2>5. LayoutTyped' /\ LargeLayout' /\ program'.imports # << >>
    BY <1>2, <2>1 DEF CountDll, LayoutTyped, LargeLayout, SmallLayout
  <2>6. LaidOut'
    BY <2>4, <2>5 DEF LaidOut, Listing, Writing, Filling
  <2> QED BY <1>0, <1>2, <2>4, <2>6, ResultsSame DEF CountDll, Wrapping
<1>3. CASE SizeIdata
  <2>1. stage \in Importing /\ program.imports # << >> /\ LayoutTyped /\ LargeLayout
    BY <1>0, <1>3 DEF SizeIdata, LaidOut, Importing
  <2>2. Len(program.imports) \in Nat /\ total.entries \in Nat /\ total.names \in Nat
    BY <1>0 DEF Cursors, Program
  <2>3. IdtSize \in Nat /\ ThunksSize \in Nat /\ NamesSize \in Nat
    <3>1. \A v \in Nat : Align(v, 4) \in Nat
      BY AlignUp DEF Alignments
    <3>2. Align(total.names, 4) \in Nat
      BY <2>2, <3>1
    <3> QED BY <2>2, <3>2 DEF IdtSize, ThunksSize, NamesSize
  <2>4. "size" \in DOMAIN idata' /\ idata'.size = IdtSize + 2 * ThunksSize + NamesSize
    BY <1>3 DEF SizeIdata
  <2>5. LayoutTyped' /\ LargeLayout' /\ program'.imports # << >>
    BY <1>3, <2>1 DEF SizeIdata, LayoutTyped, LargeLayout, SmallLayout
  <2>6. LaidOut'
    BY <1>3, <2>3, <2>4, <2>5 DEF SizeIdata, LaidOut, Writing, Filling
  <2> QED BY <1>0, <1>3, <2>6, CursorsSame, ResultsSame DEF SizeIdata, Wrapping
<1>4. CASE NameDll
  <2>1. stage \in Listing /\ stage \in Importing /\ program.imports # << >> /\ "size" \in DOMAIN idata
    BY <1>0, <1>4 DEF NameDll, LaidOut, Importing, Listing
  <2>2. "size" \in DOMAIN idata' /\ idata'.size = idata.size
    BY <1>4, <2>1 DEF NameDll
  <2>3. Cursors' /\ stage' \in {"names", "thunks"}
    BY <1>0, <1>4, <2>1, DllCursor DEF NameDll, Cursors
  <2>4. LaidOut'
    BY <1>0, <1>4, <2>1, <2>2, <2>3, Listed DEF NameDll, Listing
  <2> QED BY <1>0, <1>4, <2>3, <2>4, ResultsSame DEF NameDll, Wrapping
<1>5. CASE Thunks
  <2>1. stage \in Listing /\ stage \in Importing /\ program.imports # << >> /\ "size" \in DOMAIN idata
    BY <1>0, <1>5 DEF Thunks, ThunksBy, LaidOut, Importing, Listing
  <2>2. "size" \in DOMAIN idata' /\ idata'.size = idata.size
    BY <1>5, <2>1 DEF Thunks, ThunksBy
  <2>3. Cursors' /\ stage' \in {"thunks", "descriptors"}
    BY <1>0, <1>5, <2>1, DllCursor DEF Thunks, ThunksBy, Cursors
  <2>4. LaidOut'
    BY <1>0, <1>5, <2>1, <2>2, <2>3, Listed DEF Thunks, ThunksBy, Listing
  <2> QED BY <1>0, <1>5, <2>3, <2>4, ResultsSame DEF Thunks, ThunksBy, Wrapping
<1>6. CASE DescribeDll
  <2>1. stage \in Listing /\ stage \in Importing /\ program.imports # << >> /\ "size" \in DOMAIN idata
    BY <1>0, <1>6 DEF DescribeDll, LaidOut, Importing, Listing
  <2>2. "size" \in DOMAIN idata' /\ idata'.size = idata.size
    BY <1>6, <2>1 DEF DescribeDll
  <2>3. Cursors' /\ stage' \in {"descriptors", "headers"}
    BY <1>0, <1>6, <2>1, DllCursor DEF DescribeDll, Cursors
  <2>4. LaidOut'
    BY <1>0, <1>6, <2>1, <2>2, <2>3, Listed DEF DescribeDll, Listing
  <2> QED BY <1>0, <1>6, <2>3, <2>4, ResultsSame DEF DescribeDll, Wrapping
<1>7. CASE PeHeaders
  BY <1>0, <1>7, CursorsSame, LaidOutSame, ResultsSame DEF PeHeaders, Importing, Listing, Writing, Wrapping
<1>8. CASE PeText
  BY <1>0, <1>8, CursorsSame, LaidOutSame, ResultsSame DEF PeText, Importing, Listing, Writing, Filling, Wrapping
<1>9. CASE PeData
  BY <1>0, <1>9, CursorsSame, LaidOutSame, ResultsSame DEF PeData, Importing, Listing, Writing, Filling, Wrapping
<1>10. CASE PeImports
  BY <1>0, <1>10, CursorsSame, LaidOutSame, ResultsSame DEF PeImports, Importing, Listing, Writing, Filling, Wrapping
<1>11. CASE SavePe
  <2>1. Cursors' /\ LaidOut'
    BY <1>0, <1>11, CursorsSame, LaidOutElsewhere DEF SavePe, Importing, Listing, Writing, Filling
  <2>2. stage' = "linked" /\ xex'.kind = "none"
    BY <1>0, <1>11 DEF SavePe, Results
  <2>3. file'.kind \in {"none", "pe"} /\ (file'.kind = "pe" => file'.size = buf.size)
    BY <1>11 DEF SavePe, Written, Nothing
  <2>4. buf.size \in Nat
    BY <1>11, BufferSize DEF SavePe, Buffers
  <2> QED BY <2>1, <2>2, <2>3, <2>4 DEF Results, Wrapping
<1>12. CASE ElfHeaders
  BY <1>0, <1>12, CursorsSame, LaidOutElsewhere, ResultsSame DEF ElfHeaders, Importing, Listing, Writing, Filling, Wrapping
<1>13. CASE ElfCode
  BY <1>0, <1>13, CursorsSame, LaidOutElsewhere, ResultsSame DEF ElfCode, Importing, Listing, Writing, Filling, Wrapping
<1>14. CASE ElfData
  BY <1>0, <1>14, CursorsSame, LaidOutElsewhere, ResultsSame DEF ElfData, Importing, Listing, Writing, Filling, Wrapping
<1>15. CASE SaveElf
  <2>1. Cursors' /\ LaidOut'
    BY <1>0, <1>15, CursorsSame, LaidOutElsewhere DEF SaveElf, Importing, Listing, Writing, Filling
  <2>2. stage' = "linked" /\ xex'.kind = "none"
    BY <1>0, <1>15 DEF SaveElf, Results
  <2>3. header = ElfHeader
    BY <1>15 DEF SaveElf, Buffers, ElfBuffer, ElfStages
  <2>4. file'.kind \in {"none", "elf"} /\ (file'.kind = "elf" => file'.header = header)
    BY <1>15 DEF SaveElf, Written, Nothing
  <2>5. ElfHeader' = ElfHeader
    BY <1>15 DEF SaveElf, ElfHeader, DataOffset, CodeOffset, Main
  <2> QED BY <2>1, <2>2, <2>3, <2>4, <2>5 DEF Results, Wrapping
<1>16. CASE CannotOpen
  BY <1>0, <1>16, CursorsSame, LaidOutElsewhere, ResultsSame DEF CannotOpen, Importing, Listing, Writing, Filling, Wrapping
<1>17. CASE WrapPe
  <2>1. Cursors' /\ LaidOut'
    BY <1>0, <1>17, CursorsSame, LaidOutElsewhere DEF WrapPe, Importing, Listing, Writing, Filling
  <2>2. stage' = "xex" /\ UNCHANGED <<file, xex>> /\ stage = "linked" /\ file.kind = "pe" /\ basefile'.image = file
    BY <1>17 DEF WrapPe
  <2>3. file'.kind = "pe" /\ file'.size \in Nat /\ xex'.kind = "none"
    BY <1>0, <2>2 DEF Results
  <2> QED BY <2>1, <2>2, <2>3 DEF Results
<1>18. CASE OpenElf
  BY <1>0, <1>18, CursorsSame, LaidOutElsewhere, ResultsSame DEF OpenElf, Importing, Listing, Writing, Filling, Wrapping
<1>19. CASE ExtractSegment
  <2>1. file.kind = "elf" /\ file.header = ElfHeader
    BY <1>0, <1>19 DEF ExtractSegment, SegmentBy, Results
  <2>2. segment \in {1, 2}
    BY <1>0, <1>19, <2>1 DEF ExtractSegment, SegmentBy, Cursors, ElfHeader
  <2> DEFINE s == file.header.segments[segment]
             low == IF s.vaddr < combined.base THEN s.vaddr ELSE combined.base
             reach == (s.vaddr - low) + s.size
  <2>3. program.code \in Nat /\ program.data \in Nat
    BY <1>0 DEF Cursors, Program
  <2>4. BASE_ADDRESS \in Nat /\ Align(BASE_ADDRESS + program.code, 16) \in Nat
    <3>1. PICK v \in Nat : v = BASE_ADDRESS + program.code
      BY <2>3, AddressAssumption
    <3>2. Align(v, 16) \in Nat
      BY AlignUp DEF Alignments
    <3> QED BY <3>1, <3>2, AddressAssumption
  <2>5. s.vaddr \in Int /\ s.size \in Int
    BY <2>1, <2>2, <2>3, <2>4 DEF ElfHeader
  <2>6. combined'.base = low /\ combined'.size = IF combined.size < reach THEN reach ELSE combined.size
    BY <1>19 DEF ExtractSegment, SegmentBy
  <2> HIDE DEF s
  <2>7. combined'.base \in Int /\ combined'.size \in Nat
    BY <1>0, <2>5, <2>6 DEF Cursors
  <2>8. Cursors'
    BY <1>0, <1>19, <2>7 DEF ExtractSegment, SegmentBy, Cursors
  <2> QED BY <1>0, <1>19, <2>1, <2>8, LaidOutElsewhere, ResultsSame
          DEF ExtractSegment, SegmentBy, Importing, Listing, Writing, Filling, Wrapping
<1>20. CASE BuildPeImage
  <2>1. combined.size \in Nat \ {0}
    BY <1>0, <1>20 DEF BuildPeImage, Cursors
  <2>2. LayoutTyped' /\ layout'.imports = FALSE
    BY <1>20, <2>1 DEF BuildPeImage, LayoutTyped, SmallLayout, Align, FILE_ALIGN
  <2>3. LaidOut'
    BY <1>20, <2>2 DEF BuildPeImage, LaidOut, Importing, Listing
  <2> QED BY <1>0, <1>20, <2>3, CursorsSame, ResultsSame DEF BuildPeImage, Wrapping
<1>21. CASE WrapImage
  <2>1. Cursors' /\ LaidOut'
    BY <1>0, <1>21, CursorsSame, LaidOutElsewhere DEF WrapImage, Importing, Listing, Writing, Filling
  <2>2. stage' = "xex" /\ UNCHANGED <<program, file, xex>> /\ stage = "image" /\ basefile'.image.size = buf.size
    BY <1>21 DEF WrapImage, Written
  <2>3. buf.size \in Nat
    BY <2>2, BufferSize DEF Buffers
  <2>4. ElfHeader' = ElfHeader
    BY <2>2 DEF ElfHeader, DataOffset, CodeOffset, Main
  <2> QED BY <1>0, <2>1, <2>2, <2>3, <2>4 DEF Results
<1>22. CASE XexHeaders
  BY <1>0, <1>22, CursorsSame, LaidOutElsewhere, ResultsSame DEF XexHeaders, Importing, Listing, Writing, Filling, Wrapping
<1>23. CASE XexSecurity
  BY <1>0, <1>23, CursorsSame, LaidOutElsewhere, ResultsSame DEF XexSecurity, Importing, Listing, Writing, Filling, Wrapping
<1>24. CASE XexPages
  BY <1>0, <1>24, CursorsSame, LaidOutElsewhere, ResultsSame DEF XexPages, Importing, Listing, Writing, Filling, Wrapping
<1>25. CASE XexBasefile
  BY <1>0, <1>25, CursorsSame, LaidOutElsewhere, ResultsSame DEF XexBasefile, Importing, Listing, Writing, Filling, Wrapping
<1>26. CASE SaveXex
  <2>1. Cursors' /\ LaidOut'
    BY <1>0, <1>26, CursorsSame, LaidOutElsewhere DEF SaveXex, Importing, Listing, Writing, Filling
  <2>2. stage' = "done" /\ UNCHANGED <<program, file>>
    BY <1>26 DEF SaveXex
  <2>3. ElfHeader' = ElfHeader
    BY <2>2 DEF ElfHeader, DataOffset, CodeOffset, Main
  <2> QED BY <1>0, <2>1, <2>2, <2>3 DEF Results, Wrapping
<1> QED
  BY <1>1, <1>2, <1>3, <1>4, <1>5, <1>6, <1>7, <1>8, <1>9, <1>10, <1>11, <1>12, <1>13, <1>14, <1>15,
     <1>16, <1>17, <1>18, <1>19, <1>20, <1>21, <1>22, <1>23, <1>24, <1>25, <1>26
  DEF Next, Pe, Imports, Elf, Convert, Xex

-----------------------------------------------------------------------------
(* A step keeps what is known of the buffer, or starts another one.        *)
LEMMA Elsewhere ==
  /\ stage' \notin Filling => PeBuffer'
  /\ stage' \notin ElfStages => ElfBuffer'
  /\ stage' \notin Wrapping \ {"xex"} => XexBuffer'
<1>1. stage' \notin Filling => PeBuffer'
  BY DEF PeBuffer, Filling
<1>2. stage' \notin ElfStages => ElfBuffer'
  BY DEF ElfBuffer, ElfStages
<1>3. stage' \notin Wrapping \ {"xex"} => XexBuffer'
  BY DEF XexBuffer, Wrapping
<1> QED BY <1>1, <1>2, <1>3

LEMMA HeadersFit ==
  ASSUME LayoutTyped
  PROVE  /\ layout.headers \in Nat /\ layout.lfanew \in Nat
         /\ 4 + 20 + 224 + 40 * Len(Sections) \in Nat
         /\ layout.lfanew + (4 + 20 + 224 + 40 * Len(Sections)) <= layout.headers
BY SectionList DEF LayoutTyped, LargeLayout, SmallLayout

LEMMA HeadersPut ==
  ASSUME Typed, PeHeaders
  PROVE  PeBuffer'
<1>1. stage = "headers" /\ stage' = "text" /\ UNCHANGED <<program, layout, importing>> /\ header' = PeHeader
  BY DEF PeHeaders
<1>2. LayoutTyped
  BY <1>1 DEF Typed, LaidOut, Writing
<1> DEFINE n == 4 + 20 + 224 + 40 * Len(Sections)  b == PadTo(Empty, layout.lfanew)
<1>3. n \in Nat /\ layout.headers \in Nat /\ layout.lfanew \in Nat /\ layout.lfanew + n <= layout.headers
  BY <1>2, HeadersFit
<1>4. IsBuffer(b) /\ b.size = layout.lfanew /\ DOMAIN b.parts = {}
  <2>1. IsBuffer(b) /\ b.parts = Empty.parts /\ b.size = IF 0 < layout.lfanew THEN layout.lfanew ELSE 0
    BY EmptyBuffer, Padded DEF IsBuffer
  <2> QED BY <1>3, <2>1, EmptyBuffer
<1>5. buf' = PadTo(Put(b, "headers", n), layout.headers)
  BY DEF PeHeaders
<1> HIDE DEF b, n
<1>6. /\ IsBuffer(buf') /\ buf'.size = layout.headers /\ DOMAIN buf'.parts = {"headers"}
      /\ buf'.parts["headers"] = [at |-> layout.lfanew, size |-> n]
  BY <1>3, <1>4, <1>5, Extended
<1>7. HeadersIn'
  BY <1>1, <1>6, PeSame DEF HeadersIn, Holds, n
<1>8. header' = PeHeader' /\ layout' = layout
  BY <1>1, PeSame
<1> QED BY <1>1, <1>6, <1>7, <1>8 DEF PeBuffer

(* The sections follow the headers, each padded to the file alignment.     *)
LEMMA SectionPut ==
  ASSUME Typed, PeBuffer, stage \in Filling, UNCHANGED <<program, layout, importing, header>>,
         NEW name, name # "headers", NEW size \in Nat, buf.size \in Nat, NEW target \in Nat,
         buf.size + size <= target, buf' = PadTo(Put(buf, name, size), target)
  PROVE  /\ header' = PeHeader' /\ IsBuffer(buf') /\ HeadersIn' /\ buf'.size = target
         /\ DOMAIN buf'.parts = DOMAIN buf.parts \cup {name}
         /\ buf'.parts[name] = [at |-> buf.size, size |-> size]
         /\ \A n \in DOMAIN buf.parts \ {name} : buf'.parts[n] = buf.parts[n]
<1>1. header = PeHeader /\ IsBuffer(buf) /\ HeadersIn
  BY DEF PeBuffer
<1>2. /\ IsBuffer(buf') /\ buf'.size = target /\ DOMAIN buf'.parts = DOMAIN buf.parts \cup {name}
      /\ buf'.parts[name] = [at |-> buf.size, size |-> size]
      /\ \A n \in DOMAIN buf.parts \ {name} : buf'.parts[n] = buf.parts[n]
  BY <1>1, Extended
<1>3. HeadersIn'
  BY <1>1, <1>2, PeSame DEF HeadersIn, Holds
<1> QED BY <1>1, <1>2, <1>3, PeSame

LEMMA TextPut ==
  ASSUME Typed, PeBuffer, PeText
  PROVE  PeBuffer'
<1>1. stage = "text" /\ stage' = "data" /\ UNCHANGED <<program, layout, importing, header>>
  BY DEF PeText
<1>2. stage \in Filling /\ stage \in Writing
  BY <1>1 DEF Filling, Writing
<1> DEFINE h == layout.headers  c == layout.code  raw == Raw(layout.code)
<1>3. h \in Nat /\ c \in Nat /\ raw \in Nat /\ c <= raw
  BY <1>2, Offsets, HeadersFit DEF Typed, LaidOut, LayoutTyped
<1>4. buf.size = h /\ DOMAIN buf.parts = {"headers"} /\ buf' = PadTo(Put(buf, "text", c), h + raw)
  BY <1>1 DEF PeBuffer, PeText
<1> HIDE DEF h, c, raw
<1>5. h + raw \in Nat /\ h + c <= h + raw
  BY <1>3
<1>6. /\ header' = PeHeader' /\ IsBuffer(buf') /\ HeadersIn' /\ buf'.size = h + raw
      /\ DOMAIN buf'.parts = {"headers"} \cup {"text"} /\ buf'.parts["text"] = [at |-> h, size |-> c]
  BY <1>1, <1>2, <1>3, <1>4, <1>5, SectionPut
<1>7. DOMAIN buf'.parts = {"headers", "text"}
  BY <1>6
<1>8. layout' = layout
  BY <1>1
<1> QED BY <1>1, <1>6, <1>7, <1>8 DEF PeBuffer, TextIn, Holds, h, c, raw

LEMMA DataPut ==
  ASSUME Typed, PeBuffer, PeData
  PROVE  PeBuffer'
<1>1. stage = "data" /\ UNCHANGED <<program, layout, importing, header>>
  BY DEF PeData
<1>2. stage \in Filling /\ stage \in Writing
  BY <1>1 DEF Filling, Writing
<1> DEFINE h == layout.headers  c == layout.code  d == layout.data
           raw == Raw(layout.code)  rawData == Raw(layout.data)
<1>3. h \in Nat /\ d \in Nat /\ raw \in Nat /\ rawData \in Nat /\ d <= rawData
  BY <1>2, Offsets, HeadersFit DEF Typed, LaidOut, LayoutTyped
<1>4. /\ buf.size = h + raw /\ DOMAIN buf.parts = {"headers", "text"}
      /\ buf' = PadTo(Put(buf, "data", d), h + raw + rawData)
      /\ buf.parts["text"] = [at |-> h, size |-> c]
  BY <1>1 DEF PeBuffer, PeData, TextIn, Holds
<1> HIDE DEF h, c, d, raw, rawData
<1>5. buf.size \in Nat /\ h + raw + rawData \in Nat /\ buf.size + d <= h + raw + rawData
  BY <1>3, <1>4
<1>6. /\ header' = PeHeader' /\ IsBuffer(buf') /\ HeadersIn' /\ buf'.size = h + raw + rawData
      /\ DOMAIN buf'.parts = {"headers", "text"} \cup {"data"} /\ buf'.parts["data"] = [at |-> h + raw, size |-> d]
      /\ buf'.parts["text"] = buf.parts["text"]
  <2> DEFINE target == h + raw + rawData
  <2>1. target \in Nat /\ buf.size \in Nat /\ buf.size + d <= target /\ buf' = PadTo(Put(buf, "data", d), target)
    BY <1>4, <1>5
  <2> HIDE DEF target
  <2>2. /\ header' = PeHeader' /\ IsBuffer(buf') /\ HeadersIn' /\ buf'.size = target
        /\ DOMAIN buf'.parts = DOMAIN buf.parts \cup {"data"}
        /\ buf'.parts["data"] = [at |-> buf.size, size |-> d]
        /\ \A n \in DOMAIN buf.parts \ {"data"} : buf'.parts[n] = buf.parts[n]
    BY <1>1, <1>2, <1>3, <2>1, SectionPut
  <2> QED BY <1>4, <2>2 DEF target
<1>7. DOMAIN buf'.parts = {"headers", "text", "data"}
  BY <1>6
<1>8. layout' = layout
  BY <1>1
<1>9. TextIn' /\ DataIn' /\ buf'.size = layout'.headers + Raw(layout'.code) + Raw(layout'.data)
  BY <1>4, <1>6, <1>7, <1>8 DEF TextIn, DataIn, Holds, h, c, d, raw, rawData
<1>10. CASE layout.imports
  <2>1. stage' = "imports" /\ layout'.imports
    BY <1>8, <1>10 DEF PeData
  <2> QED BY <1>6, <1>7, <1>9, <2>1 DEF PeBuffer
<1>11. CASE ~layout.imports
  <2>1. stage' = "image" /\ ~layout'.imports
    BY <1>8, <1>11 DEF PeData
  <2> QED BY <1>6, <1>7, <1>9, <2>1 DEF PeBuffer
<1> QED BY <1>10, <1>11

LEMMA ImportsPut ==
  ASSUME Typed, PeBuffer, PeImports
  PROVE  PeBuffer'
<1>1. stage = "imports" /\ stage' = "image" /\ UNCHANGED <<program, layout, importing, header>>
  BY DEF PeImports
<1>2. stage \in Filling /\ stage \in Writing
  BY <1>1 DEF Filling, Writing
<1>3. layout.imports
  BY <1>1 DEF PeBuffer
<1> DEFINE h == layout.headers  c == layout.code  d == layout.data  i == idata.size
           raw == Raw(layout.code)  rawData == Raw(layout.data)  rawIdata == Raw(idata.size)
<1>4. h \in Nat /\ raw \in Nat /\ rawData \in Nat
  BY <1>2, Offsets, HeadersFit DEF Typed, LaidOut, LayoutTyped
<1>5. i \in Nat /\ rawIdata \in Nat /\ i <= rawIdata
  <2>1. i \in Nat
    BY <1>2, <1>3, Zenon DEF Typed, LaidOut
  <2> QED BY <1>2, <1>3, <2>1, Offsets
<1>6. /\ buf.size = h + raw + rawData /\ DOMAIN buf.parts = {"headers", "text", "data"}
      /\ buf' = PadTo(Put(buf, "idata", i), h + raw + rawData + rawIdata)
      /\ buf.parts["text"] = [at |-> h, size |-> c] /\ buf.parts["data"] = [at |-> h + raw, size |-> d]
  BY <1>1 DEF PeBuffer, PeImports, TextIn, DataIn, Holds
<1> HIDE DEF h, c, d, i, raw, rawData, rawIdata
<1>7. /\ buf.size \in Nat /\ h + raw + rawData + rawIdata \in Nat
      /\ buf.size + i <= h + raw + rawData + rawIdata
  BY <1>4, <1>5, <1>6
<1>8. /\ header' = PeHeader' /\ IsBuffer(buf') /\ HeadersIn' /\ buf'.size = h + raw + rawData + rawIdata
      /\ DOMAIN buf'.parts = {"headers", "text", "data"} \cup {"idata"}
      /\ buf'.parts["idata"] = [at |-> h + raw + rawData, size |-> i]
      /\ buf'.parts["text"] = buf.parts["text"] /\ buf'.parts["data"] = buf.parts["data"]
  <2> DEFINE target == h + raw + rawData + rawIdata
  <2>1. target \in Nat /\ buf.size \in Nat /\ buf.size + i <= target /\ buf' = PadTo(Put(buf, "idata", i), target)
    BY <1>6, <1>7
  <2> HIDE DEF target
  <2>2. /\ header' = PeHeader' /\ IsBuffer(buf') /\ HeadersIn' /\ buf'.size = target
        /\ DOMAIN buf'.parts = DOMAIN buf.parts \cup {"idata"}
        /\ buf'.parts["idata"] = [at |-> buf.size, size |-> i]
        /\ \A n \in DOMAIN buf.parts \ {"idata"} : buf'.parts[n] = buf.parts[n]
    BY <1>1, <1>2, <1>5, <2>1, SectionPut
  <2> QED BY <1>6, <2>2 DEF target
<1>9. DOMAIN buf'.parts = {"headers", "text", "data", "idata"}
  BY <1>8
<1>10. layout' = layout /\ idata' = idata
  BY <1>1 DEF importing
<1>11. /\ TextIn' /\ DataIn' /\ IdataIn'
       /\ buf'.size = layout'.headers + Raw(layout'.code) + Raw(layout'.data) + Raw(idata'.size)
  BY <1>6, <1>8, <1>9, <1>10 DEF TextIn, DataIn, IdataIn, Holds, h, c, d, i, raw, rawData, rawIdata
<1>12. layout'.imports
  BY <1>3, <1>10
<1> QED BY <1>1, <1>8, <1>9, <1>11, <1>12 DEF PeBuffer

LEMMA ElfPut ==
  ASSUME Typed, ElfBuffer, ElfHeaders \/ ElfCode \/ ElfData
  PROVE  ElfBuffer'
<1> DEFINE code == program.code  place == DataOffset
<1>1. program' = program
  BY DEF ElfHeaders, ElfCode, ElfData
<1>2. CodeOffset' = CodeOffset /\ DataOffset' = DataOffset /\ ElfHeader' = ElfHeader
  BY <1>1 DEF CodeOffset, DataOffset, ElfHeader, Main
<1>3. CodeOffset = 128 /\ code \in Nat /\ program.data \in Nat /\ place \in Nat /\ 128 + code <= place
  BY ElfOffsets
<1> HIDE DEF code, place
<1>4. CASE ElfHeaders
  <2>1. stage' = "elf_code" /\ header' = ElfHeader /\ buf' = PadTo(Put(Empty, "headers", 116), 128)
    BY <1>3, <1>4 DEF ElfHeaders
  <2>2. /\ IsBuffer(buf') /\ buf'.size = 128 /\ DOMAIN buf'.parts = {} \cup {"headers"}
        /\ buf'.parts["headers"] = [at |-> 0, size |-> 116]
    BY <2>1, EmptyBuffer, Extended
  <2>3. DOMAIN buf'.parts = {"headers"} /\ CodeOffset' = 128
    BY <1>2, <1>3, <2>2
  <2> QED BY <1>2, <2>1, <2>2, <2>3 DEF ElfBuffer, ElfStages, Holds
<1>5. CASE ElfCode
  <2>1. /\ stage = "elf_code" /\ stage' = "elf_data" /\ header' = header
        /\ buf' = PadTo(Put(buf, "code", code), place)
    BY <1>5 DEF ElfCode, code, place
  <2>2. /\ header = ElfHeader /\ IsBuffer(buf) /\ buf.size = 128 /\ DOMAIN buf.parts = {"headers"}
        /\ buf.parts["headers"] = [at |-> 0, size |-> 116]
    BY <1>3, <2>1 DEF ElfBuffer, ElfStages, Holds
  <2>3. /\ IsBuffer(buf') /\ buf'.size = place /\ DOMAIN buf'.parts = {"headers"} \cup {"code"}
        /\ buf'.parts["code"] = [at |-> 128, size |-> code] /\ buf'.parts["headers"] = buf.parts["headers"]
    BY <1>3, <2>1, <2>2, Extended
  <2>4. DOMAIN buf'.parts = {"headers", "code"} /\ CodeOffset' = 128 /\ DataOffset' = place /\ program'.code = code
    BY <1>1, <1>2, <1>3, <2>3 DEF code, place
  <2> QED BY <1>2, <2>1, <2>2, <2>3, <2>4 DEF ElfBuffer, ElfStages, Holds
<1>6. CASE ElfData
  <2>1. stage = "elf_data" /\ stage' = "elf" /\ header' = header /\ buf' = Put(buf, "data", program.data)
    BY <1>6 DEF ElfData
  <2>2. /\ header = ElfHeader /\ IsBuffer(buf) /\ buf.size = place /\ DOMAIN buf.parts = {"headers", "code"}
        /\ buf.parts["headers"] = [at |-> 0, size |-> 116] /\ buf.parts["code"] = [at |-> 128, size |-> code]
    BY <1>3, <2>1 DEF ElfBuffer, ElfStages, Holds, code, place
  <2>3. /\ IsBuffer(buf') /\ buf'.size = place + program.data
        /\ DOMAIN buf'.parts = {"headers", "code"} \cup {"data"}
        /\ buf'.parts["data"] = [at |-> place, size |-> program.data]
        /\ buf'.parts["headers"] = buf.parts["headers"] /\ buf'.parts["code"] = buf.parts["code"]
    BY <1>3, <2>1, <2>2, PutPart DEF IsBuffer
  <2>4. /\ DOMAIN buf'.parts = {"headers", "code", "data"} /\ CodeOffset' = 128 /\ DataOffset' = place
        /\ program'.code = code /\ program'.data = program.data
    BY <1>1, <1>2, <1>3, <2>3 DEF code, place
  <2> QED BY <1>2, <2>1, <2>2, <2>3, <2>4 DEF ElfBuffer, ElfStages, Holds
<1> QED BY <1>4, <1>5, <1>6

LEMMA XexPut ==
  ASSUME Typed, XexBuffer, XexHeaders \/ XexSecurity \/ XexPages \/ XexBasefile
  PROVE  XexBuffer'
<1>1. stage \in Wrapping /\ basefile' = basefile
  BY DEF XexHeaders, XexSecurity, XexPages, XexBasefile, Wrapping, converting
<1>2. basefile.image.size \in Nat
  BY <1>1 DEF Typed, Results
<1>3. XexHeader' = XexHeader /\ ImageOffset' = ImageOffset /\ ImageSize' = ImageSize /\ Pages' = Pages
  BY <1>1, XexSame
<1> DEFINE begin == ImageOffset  room == ImageSize
<1>4. /\ ExecutionOffset = 64 /\ SecurityOffset = 96 /\ PagesOffset = 392
      /\ begin \in Nat /\ room \in Nat /\ 392 + Pages * 24 <= begin /\ Pages \in Nat
  BY <1>2, XexOffsets
<1>5. PICK table \in Nat : table = Pages * 24
  BY <1>4
<1> HIDE DEF begin, room
<1>6. CASE XexHeaders
  <2> DEFINE b == Put(Empty, "headers", 64)
  <2>1. stage' = "security" /\ header' = XexHeader /\ buf' = Put(PadTo(b, 64), "execution", 32)
    BY <1>4, <1>6 DEF XexHeaders
  <2>2. IsBuffer(b) /\ b.size = 64 /\ DOMAIN b.parts = {"headers"} /\ b.parts["headers"] = [at |-> 0, size |-> 64]
    BY EmptyBuffer, PutPart DEF IsBuffer
  <2> HIDE DEF b
  <2>3. PadTo(b, 64) = b
    BY <2>2, NotPadded
  <2>4. /\ IsBuffer(buf') /\ buf'.size = 96 /\ DOMAIN buf'.parts = {"headers"} \cup {"execution"}
        /\ buf'.parts["execution"] = [at |-> 64, size |-> 32] /\ buf'.parts["headers"] = b.parts["headers"]
    BY <2>1, <2>2, <2>3, PutPart DEF IsBuffer
  <2>5. DOMAIN buf'.parts = {"headers", "execution"}
    BY <2>4
  <2> QED BY <1>3, <2>1, <2>2, <2>4, <2>5 DEF XexBuffer, Wrapping, Holds
<1>7. CASE XexSecurity
  <2>1. /\ stage = "security" /\ stage' = "pages" /\ header' = header
        /\ buf' = PadTo(Put(PadTo(buf, 96), "security", 96), PadTo(buf, 96).size + 296)
    BY <1>4, <1>7 DEF XexSecurity
  <2>2. /\ header = XexHeader /\ IsBuffer(buf) /\ buf.size = 96 /\ DOMAIN buf.parts = {"headers", "execution"}
        /\ buf.parts["headers"] = [at |-> 0, size |-> 64] /\ buf.parts["execution"] = [at |-> 64, size |-> 32]
    BY <2>1 DEF XexBuffer, Wrapping, Holds
  <2>3. PadTo(buf, 96) = buf
    BY <2>2, NotPadded
  <2>4. buf' = PadTo(Put(buf, "security", 96), 392)
    BY <2>1, <2>2, <2>3
  <2>5. /\ IsBuffer(buf') /\ buf'.size = 392 /\ DOMAIN buf'.parts = {"headers", "execution"} \cup {"security"}
        /\ buf'.parts["security"] = [at |-> 96, size |-> 96]
        /\ buf'.parts["headers"] = buf.parts["headers"] /\ buf'.parts["execution"] = buf.parts["execution"]
    BY <2>2, <2>4, Extended
  <2>6. DOMAIN buf'.parts = {"headers", "execution", "security"}
    BY <2>5
  <2> QED BY <1>3, <2>1, <2>2, <2>5, <2>6 DEF XexBuffer, Wrapping, Holds
<1>8. CASE XexPages
  <2>1. /\ stage = "pages" /\ stage' = "basefile" /\ header' = header
        /\ buf' = Put(PadTo(buf, 392), "pages", table)
    BY <1>4, <1>5, <1>8 DEF XexPages
  <2>2. /\ header = XexHeader /\ IsBuffer(buf) /\ buf.size = 392
        /\ DOMAIN buf.parts = {"headers", "execution", "security"}
        /\ buf.parts["headers"] = [at |-> 0, size |-> 64] /\ buf.parts["execution"] = [at |-> 64, size |-> 32]
        /\ buf.parts["security"] = [at |-> 96, size |-> 96]
    BY <2>1 DEF XexBuffer, Wrapping, Holds
  <2>3. PadTo(buf, 392) = buf
    BY <2>2, NotPadded
  <2>4. /\ IsBuffer(buf') /\ buf'.size = 392 + table
        /\ DOMAIN buf'.parts = {"headers", "execution", "security"} \cup {"pages"}
        /\ buf'.parts["pages"] = [at |-> 392, size |-> table]
        /\ \A n \in {"headers", "execution", "security"} : buf'.parts[n] = buf.parts[n]
    BY <2>1, <2>2, <2>3, PutPart DEF IsBuffer
  <2>5. DOMAIN buf'.parts = {"headers", "execution", "security", "pages"}
    BY <2>4
  <2>6. Pages' * 24 = table
    BY <1>3, <1>5
  <2> QED BY <1>3, <2>1, <2>2, <2>4, <2>5, <2>6 DEF XexBuffer, Wrapping, Holds
<1>9. CASE XexBasefile
  <2> DEFINE b == PadTo(buf, begin)
  <2>1. stage = "basefile" /\ stage' = "save_xex" /\ header' = header /\ buf' = Put(b, "image", room)
    BY <1>9 DEF XexBasefile, ImageSize, begin, room
  <2>2. /\ header = XexHeader /\ IsBuffer(buf) /\ buf.size = 392 + table
        /\ DOMAIN buf.parts = {"headers", "execution", "security", "pages"}
        /\ buf.parts["headers"] = [at |-> 0, size |-> 64] /\ buf.parts["execution"] = [at |-> 64, size |-> 32]
        /\ buf.parts["security"] = [at |-> 96, size |-> 96] /\ buf.parts["pages"] = [at |-> 392, size |-> table]
    BY <1>5, <2>1 DEF XexBuffer, Wrapping, Holds
  <2>3. IsBuffer(b) /\ b.parts = buf.parts /\ b.size = begin
    BY <1>4, <1>5, <2>2, Padded DEF IsBuffer
  <2> HIDE DEF b
  <2>4. /\ IsBuffer(buf') /\ buf'.size = begin + room
        /\ DOMAIN buf'.parts = {"headers", "execution", "security", "pages"} \cup {"image"}
        /\ buf'.parts["image"] = [at |-> begin, size |-> room]
        /\ \A n \in {"headers", "execution", "security", "pages"} : buf'.parts[n] = buf.parts[n]
    BY <1>4, <2>1, <2>2, <2>3, PutPart DEF IsBuffer
  <2>5. DOMAIN buf'.parts = {"headers", "execution", "security", "pages", "image"}
    BY <2>4
  <2>6. Pages' * 24 = table /\ ImageOffset' = begin /\ ImageSize' = room
    BY <1>3, <1>5 DEF begin, room
  <2> QED BY <1>3, <2>1, <2>2, <2>4, <2>5, <2>6 DEF XexBuffer, Wrapping, Holds
<1> QED BY <1>6, <1>7, <1>8, <1>9

LEMMA BuffersKept ==
  ASSUME Typed, Buffers, Next
  PROVE  Buffers'
<1> USE DEF importing, building, converting, Filling, ElfStages, Wrapping
<1>1. CASE WritePe \/ CannotOpen \/ OpenElf \/ ExtractSegment \/ BuildPeImage
  <2>1. stage' \in {"headers", "count", "no_xex", "segments"}
    BY <1>1 DEF WritePe, CannotOpen, OpenElf, ExtractSegment, SegmentBy, BuildPeImage
  <2> QED BY <2>1, Elsewhere DEF Buffers
<1>2. CASE Imports
  <2>1. stage' \in {"count", "idata", "names", "thunks", "descriptors", "headers"}
    BY <1>2 DEF Imports, CountDll, SizeIdata, NameDll, Thunks, ThunksBy, DescribeDll, NextDll
  <2> QED BY <2>1, Elsewhere DEF Buffers
<1>3. CASE SavePe \/ SaveElf \/ WrapPe \/ WrapImage \/ SaveXex
  <2>1. stage' \in {"linked", "xex", "done"}
    BY <1>3 DEF SavePe, SaveElf, WrapPe, WrapImage, SaveXex
  <2> QED BY <2>1, Elsewhere DEF Buffers
<1>4. CASE PeHeaders \/ PeText \/ PeData \/ PeImports
  <2>1. PeBuffer'
    BY <1>4, HeadersPut, TextPut, DataPut, ImportsPut DEF Buffers
  <2>2. stage' \in {"text", "data", "imports", "image"}
    BY <1>4 DEF PeHeaders, PeText, PeData, PeImports
  <2> QED BY <2>1, <2>2, Elsewhere DEF Buffers
<1>5. CASE ElfHeaders \/ ElfCode \/ ElfData
  <2>1. ElfBuffer'
    BY <1>5, ElfPut DEF Buffers
  <2>2. stage' \in {"elf_code", "elf_data", "elf"}
    BY <1>5 DEF ElfHeaders, ElfCode, ElfData
  <2> QED BY <2>1, <2>2, Elsewhere DEF Buffers
<1>6. CASE XexHeaders \/ XexSecurity \/ XexPages \/ XexBasefile
  <2>1. XexBuffer'
    BY <1>6, XexPut DEF Buffers
  <2>2. stage' \in {"security", "pages", "basefile", "save_xex"}
    BY <1>6 DEF XexHeaders, XexSecurity, XexPages, XexBasefile
  <2> QED BY <2>1, <2>2, Elsewhere DEF Buffers
<1> QED BY <1>1, <1>2, <1>3, <1>4, <1>5, <1>6 DEF Next, Pe, Elf, Convert, Xex

(* A finished file, image or XEX is right, and stays as it was written.    *)
LEMMA RightKept ==
  ASSUME Inv, Next
  PROVE  Right'
<1>1. Typed /\ PeBuffer /\ ElfBuffer /\ XexBuffer /\ OffsetsRight /\ SectionsApart
  BY DEF Inv, Buffers, Right
<1>2. CASE SavePe
  <2>1. UNCHANGED <<program, basefile, xex>> /\ file' \in {Written("pe"), Nothing} /\ stage = "image"
    BY <1>2 DEF SavePe, converting
  <2>2. PeOffsetsRight(Written("pe")) /\ SectionsOf(Written("pe"))
    BY <1>1, <2>1, PeWritten, PeInMemory
  <2>3. xex.kind = "none"
    BY <1>1, <2>1 DEF Typed, Results
  <2>4. file'.kind = "pe" => file' = Written("pe")
    BY <2>1 DEF Nothing
  <2>5. file'.kind # "elf"
    BY <2>1 DEF Nothing, Written
  <2> QED BY <1>1, <2>1, <2>2, <2>3, <2>4, <2>5 DEF Right, OffsetsRight, SectionsApart
<1>3. CASE SaveElf
  <2>1. UNCHANGED <<program, basefile, xex>> /\ file' \in {Written("elf"), Nothing} /\ stage = "elf"
    BY <1>3 DEF SaveElf, converting
  <2>2. xex.kind = "none"
    BY <1>1, <2>1 DEF Typed, Results
  <2>3. file'.kind # "pe" /\ (file'.kind = "elf" => file' = Written("elf"))
    BY <2>1 DEF Nothing, Written
  <2>4. file'.kind = "elf" => ElfOffsetsRight'
    BY <1>1, <2>1, <2>3, ElfWritten
  <2> QED BY <1>1, <2>1, <2>2, <2>3, <2>4 DEF Right, OffsetsRight, SectionsApart
<1>4. CASE WrapPe
  <2>1. UNCHANGED <<file, xex>> /\ basefile'.image = file /\ stage = "linked" /\ file.kind = "pe"
    BY <1>4 DEF WrapPe
  <2>2. xex.kind = "none"
    BY <1>1, <2>1 DEF Typed, Results
  <2> QED BY <1>1, <2>1, <2>2 DEF Right, OffsetsRight, SectionsApart, ElfOffsetsRight
<1>5. CASE WrapImage
  <2>1. UNCHANGED <<file, xex>> /\ basefile'.image = Written("pe") /\ stage = "image" /\ file.kind = "elf"
    BY <1>5 DEF WrapImage
  <2>2. PeOffsetsRight(Written("pe")) /\ SectionsOf(Written("pe"))
    BY <1>1, <2>1, PeWritten, PeInMemory
  <2>3. xex.kind = "none"
    BY <1>1, <2>1 DEF Typed, Results
  <2> QED BY <1>1, <2>1, <2>2, <2>3 DEF Right, OffsetsRight, SectionsApart, ElfOffsetsRight
<1>6. CASE SaveXex
  <2>1. UNCHANGED <<file, basefile>> /\ xex' \in {Written("xex"), Nothing} /\ stage = "save_xex"
    BY <1>6 DEF SaveXex
  <2>2. xex'.kind = "xex" => xex' = Written("xex")
    BY <2>1 DEF Nothing
  <2>3. xex'.kind = "xex" => XexOffsetsRight'
    BY <1>1, <2>1, <2>2, XexWritten
  <2> QED BY <1>1, <2>1, <2>3 DEF Right, OffsetsRight, SectionsApart, ElfOffsetsRight
<1>7. CASE UNCHANGED <<file, basefile, xex>>
  BY <1>7, Kept DEF Inv
<1>8. SavePe \/ SaveElf \/ WrapPe \/ WrapImage \/ SaveXex \/ UNCHANGED <<file, basefile, xex>>
  <2>1. CASE WritePe \/ PeHeaders \/ PeText \/ PeData \/ PeImports
    BY <2>1 DEF WritePe, PeHeaders, PeText, PeData, PeImports, converting
  <2>2. CASE Imports
    BY <2>2 DEF Imports, CountDll, SizeIdata, NameDll, Thunks, ThunksBy, DescribeDll, converting
  <2>3. CASE ElfHeaders \/ ElfCode \/ ElfData \/ CannotOpen \/ OpenElf \/ ExtractSegment \/ BuildPeImage
    BY <2>3 DEF ElfHeaders, ElfCode, ElfData, CannotOpen, OpenElf, ExtractSegment, SegmentBy, BuildPeImage, converting
  <2>4. CASE XexHeaders \/ XexSecurity \/ XexPages \/ XexBasefile
    BY <2>4 DEF XexHeaders, XexSecurity, XexPages, XexBasefile, converting
  <2> QED BY <2>1, <2>2, <2>3, <2>4 DEF Next, Pe, Elf, Convert, Xex
<1> QED BY <1>2, <1>3, <1>4, <1>5, <1>6, <1>7, <1>8

LEMMA Stutter ==
  ASSUME Inv, UNCHANGED vars
  PROVE  Inv'
<1>1. UNCHANGED <<program, stage, layout, dll, total, idata, buf, header, file, segment, combined, basefile, xex>>
  BY DEF vars, importing, building, converting
<1>2. Cursors' /\ Results'
  BY <1>1 DEF Inv, Typed, Cursors, Results, ElfHeader, DataOffset, CodeOffset, Main
<1>3. LaidOut'
  <2>1. LaidOut
    BY DEF Inv, Typed
  <2>2. (LayoutTyped => LayoutTyped') /\ (LargeLayout => LargeLayout')
    BY <1>1 DEF LayoutTyped, LargeLayout, SmallLayout
  <2>3. (layout'.imports => layout.imports) /\ stage' = stage /\ idata' = idata /\ program' = program
    BY <1>1, Zenon
  <2> QED BY <2>1, <2>2, <2>3, Zenon DEF LaidOut
<1>4. Right'
  BY <1>1, Kept DEF Inv
<1>5. PeBuffer'
  <2>1. PeHeader' = PeHeader /\ Sections' = Sections
    BY <1>1, PeSame DEF importing
  <2> QED BY <1>1, <2>1, Zenon DEF Inv, Buffers, PeBuffer, HeadersIn, TextIn, DataIn, IdataIn, Holds
<1>6. ElfBuffer' /\ XexBuffer'
  BY <1>1, XexSame DEF Inv, Buffers, ElfBuffer, XexBuffer, Holds, ElfHeader, DataOffset, CodeOffset, Main
<1> QED BY <1>2, <1>3, <1>4, <1>5, <1>6 DEF Inv, Typed, Buffers

LEMMA Inductive == Spec => []Inv
<1>1. Init => Inv
  BY InitInv
<1>2. ASSUME Inv, [Next]_vars
      PROVE  Inv'
  <2>1. CASE Next
    BY <1>2, <2>1, TypedKept, BuffersKept, RightKept DEF Inv
  <2>2. CASE UNCHANGED vars
    BY <1>2, <2>2, Stutter
  <2> QED BY <1>2, <2>1, <2>2
<1> QED BY <1>1, <1>2, PTL DEF Spec

(* What the writers computed for the headers before anything was written   *)
(* is where the parts came to lie, in the PE and the ELF file, in the      *)
(* image a XEX is built around and in the XEX itself, whatever the sizes   *)
(* (linker.cpp:549-571, elf_writer.cpp:55-58, xex_converter.cpp:189-206).  *)
THEOREM OffsetsAlwaysRight == Spec => []OffsetsRight
<1>1. Inv => OffsetsRight
  BY DEF Inv, Right
<1> QED BY <1>1, Inductive, PTL

(* The headers and the sections of an image are apart in memory, each at a *)
(* multiple of the alignment and inside SizeOfImage (linker.cpp:553-571,   *)
(* xex_converter.cpp:62-78).                                               *)
THEOREM SectionsAlwaysApart == Spec => []SectionsApart
<1>1. Inv => SectionsApart
  BY DEF Inv, Right
<1> QED BY <1>1, Inductive, PTL

-----------------------------------------------------------------------------
(* The way from an address to the code: rva lies in the first section and  *)
(* in no other, `place` bytes behind the beginning of the part the file    *)
(* has for it.                                                             *)
Leads(image, rva, place) ==
  LET sections == image.header.sections
  IN  /\ 1 \in DOMAIN sections
      /\ sections[1].rva <= rva /\ rva < sections[1].rva + sections[1].size
      /\ \A k \in DOMAIN sections \ {1} : ~(sections[k].rva <= rva)
      /\ (sections[1].pointer + rva - sections[1].rva) - image.parts["text"].at = place

DataDistance == Align(BASE_ADDRESS + program.code, 16) - BASE_ADDRESS
Loaded ==
  /\ segment \in {1, 2, 3}
  /\ segment = 1 => combined.size = 0 /\ combined.base = TOP /\ DOMAIN combined.parts = {}
  /\ segment = 2 =>
       /\ combined.size = program.code /\ combined.base = BASE_ADDRESS
       /\ DOMAIN combined.parts = {"code"}
       /\ combined.parts["code"] = [at |-> 0, size |-> program.code]
  /\ segment = 3 =>
       /\ combined.size = DataDistance + program.data /\ combined.base = BASE_ADDRESS
       /\ DOMAIN combined.parts = {"code", "data"}
       /\ combined.parts["code"] = [at |-> 0, size |-> program.code]
       /\ combined.parts["data"] = [at |-> DataDistance, size |-> program.data]
Entered ==
  /\ program \in Programs
  /\ stage = "link" => file.kind = "none"
  /\ stage \in Importing \cup Writing =>
       /\ layout.entry = Main /\ layout.entry < layout.code
       /\ file.kind # "pe" /\ (file.kind = "elf" => segment = 3 /\ layout.sec = 4096)
Filed ==
  /\ file.kind = "elf" => file.size = DataOffset + program.data
  /\ file.kind = "pe" => file.header.entry \in Nat /\ Leads(file, file.header.entry, Main)
Packed ==
  /\ stage \in Wrapping \cup {"done"} =>
       /\ Leads(basefile.image, basefile.entry - basefile.base, Main)
       /\ file.kind = "elf" => segment = 3
  /\ xex.kind = "xex" =>
       /\ stage = "done" /\ xex.header.entry = basefile.entry /\ xex.header.base = basefile.base
Carried == Loaded /\ Entered /\ Filed /\ Packed

LEMMA CarriedStarts == Init => Carried
<1> SUFFICES ASSUME Init PROVE Carried
  OBVIOUS
<1> QED BY DEF Init, Carried, Loaded, Entered, Filed, Packed, Importing, Listing, Writing, Filling, Wrapping, Nothing

LEMMA MainInCode ==
  ASSUME program \in Programs
  PROVE  Main \in Nat /\ Main < program.code /\ program.code \in Nat /\ program.data \in Nat
BY ProgramsAssumption DEF Main, Program, NoMain

(* The entry of an image that has been written is in its first section.    *)
LEMMA EntryInText ==
  ASSUME Typed, PeBuffer, stage = "image", layout.entry \in Nat, layout.entry < layout.code
  PROVE  /\ Leads(Written("pe"), layout.sec + layout.entry, layout.entry)
         /\ Written("pe").header.entry = layout.sec + layout.entry
         /\ layout.sec \in Nat
<1> DEFINE image == Written("pe")
           sec == layout.sec  h == layout.headers  c == layout.code  d == layout.data
           data == DataRVA  last == IdataRVA  e == layout.entry
<1>1. stage \in Writing /\ stage \in Filling /\ stage # "text" /\ stage # "data"
  BY DEF Writing, Filling
<1>2. LayoutTyped
  BY <1>1 DEF Typed, LaidOut
<1>3. /\ image.header.sections = Sections /\ image.header.entry = sec + e
      /\ image.parts["text"] = [at |-> h, size |-> c]
  <2>1. header = PeHeader /\ image.header = header /\ image.parts = buf.parts
    BY <1>1 DEF Written, PeBuffer
  <2>2. TextIn
    BY <1>1, Zenon DEF PeBuffer
  <2> QED BY <2>1, <2>2 DEF PeHeader, TextRVA, TextIn, Holds
<1>4. /\ data = sec + Align(c, sec) /\ last = data + Align(d, sec)
      /\ c \in Nat /\ d \in Nat /\ sec \in Alignments /\ h \in Nat /\ sec \in Nat
  BY <1>2 DEF DataRVA, TextRVA, IdataRVA, LayoutTyped, LargeLayout, SmallLayout, Alignments
<1> HIDE DEF image, sec, h, c, d, data, last
<1>5. Align(c, sec) \in Nat /\ c <= Align(c, sec) /\ Align(d, sec) \in Nat
  BY <1>4, AlignUp
<1>6. data \in Nat /\ last \in Nat /\ sec + c <= data /\ data <= last
  BY <1>4, <1>5
<1>7. /\ 1 \in DOMAIN Sections /\ DOMAIN Sections \subseteq {1, 2, 3}
      /\ Sections[1].rva = sec /\ Sections[1].size = c /\ Sections[1].pointer = h
      /\ Sections[2].rva = data /\ (3 \in DOMAIN Sections => Sections[3].rva = last)
  <2>1. CASE layout.imports
    BY <2>1, SectionList DEF Section, TextRVA, sec, c, h, data, last
  <2>2. CASE ~layout.imports
    BY <2>2, SectionList DEF Section, TextRVA, sec, c, h, data, last
  <2> QED BY <2>1, <2>2
<1>8. e \in Nat /\ e < c
  BY DEF c
<1> HIDE DEF e
<1>9. ASSUME NEW k \in DOMAIN Sections \ {1}
      PROVE  ~(Sections[k].rva <= sec + e)
  BY <1>4, <1>6, <1>7, <1>8
<1>10. Leads(image, sec + e, e)
  BY <1>3, <1>4, <1>7, <1>8, <1>9 DEF Leads
<1> QED BY <1>3, <1>4, <1>10 DEF image, sec, e

(* Leads is what ProgramInXex asks of an image.                            *)
LEMMA TextIsChosen ==
  ASSUME NEW image, NEW rva, NEW place, Leads(image, rva, place)
  PROVE  LET text == CHOOSE s \in ToSet(image.header.sections) : s.rva <= rva /\ rva < s.rva + s.size
         IN  /\ \E s \in ToSet(image.header.sections) : s.rva <= rva /\ rva < s.rva + s.size
             /\ (text.pointer + rva - text.rva) - image.parts["text"].at = place
<1> DEFINE sections == image.header.sections
           P(s) == s.rva <= rva /\ rva < s.rva + s.size
           text == CHOOSE s \in ToSet(sections) : P(s)
<1>1. sections[1] \in ToSet(sections) /\ P(sections[1])
  BY DEF Leads, ToSet
<1>2. text \in ToSet(sections) /\ P(text)
  BY <1>1
<1>3. text = sections[1]
  <2>1. PICK k \in DOMAIN sections : text = sections[k]
    BY <1>2 DEF ToSet
  <2>2. k = 1
    BY <1>2, <2>1 DEF Leads
  <2> QED BY <2>1, <2>2
<1>4. (text.pointer + rva - text.rva) - image.parts["text"].at = place
  BY <1>3 DEF Leads
<1>5. \E s \in ToSet(sections) : P(s)
  BY <1>1
<1> QED BY <1>4, <1>5

-----------------------------------------------------------------------------
(* The loop over the segments of an ELF file.                              *)
LEMMA Distance ==
  ASSUME program \in Programs
  PROVE  /\ BASE_ADDRESS \in Nat /\ TOP \in Nat /\ BASE_ADDRESS < TOP
         /\ Align(BASE_ADDRESS + program.code, 16) \in Nat
         /\ Align(BASE_ADDRESS + program.code, 16) < TOP
         /\ BASE_ADDRESS + program.code <= Align(BASE_ADDRESS + program.code, 16)
<1>1. program.code \in Nat /\ program.data \in Nat /\ BASE_ADDRESS \in Nat /\ TOP \in Nat
      /\ BASE_ADDRESS + program.code + program.data + 16 < TOP
  BY MainInCode, AddressAssumption
<1>2. PICK v \in Nat : v = BASE_ADDRESS + program.code
  BY <1>1
<1>3. Align(v, 16) \in Nat /\ v <= Align(v, 16) /\ Align(v, 16) < v + 16
  BY AlignUp DEF Alignments
<1> QED BY <1>1, <1>2, <1>3

LEMMA SegmentTaken ==
  ASSUME Typed, Carried, ExtractSegment
  PROVE  Carried'
<1>1. /\ UNCHANGED <<program, stage, layout, file, basefile, xex>> /\ segment' = segment + 1
      /\ stage = "segments" /\ segment <= Len(file.header.segments)
  BY DEF ExtractSegment, SegmentBy, importing, building
<1>2. file.header = ElfHeader /\ file.kind = "elf" /\ file.size = DataOffset + program.data
      /\ program \in Programs
  BY <1>1 DEF Typed, Results, Carried, Filed, Entered
<1> DEFINE s == file.header.segments[segment]
           base == IF s.vaddr < combined.base THEN s.vaddr ELSE combined.base
           end == (s.vaddr - base) + s.size
           code == program.code  data == program.data
           high == Align(BASE_ADDRESS + program.code, 16)
<1>3. /\ combined'.base = base
      /\ combined'.size = (IF combined.size < end THEN end ELSE combined.size)
      /\ combined'.parts = IF s.offset + s.size <= file.size
                           THEN With(combined.parts, s.name, [at |-> s.vaddr - base, size |-> s.size])
                           ELSE combined.parts
  BY DEF ExtractSegment, SegmentBy
<1>4. /\ code \in Nat /\ data \in Nat /\ BASE_ADDRESS \in Nat /\ TOP \in Nat /\ BASE_ADDRESS < TOP
      /\ high \in Nat /\ high < TOP /\ BASE_ADDRESS + code <= high
      /\ CodeOffset = 128 /\ DataOffset \in Nat /\ 128 + code <= DataOffset
  BY <1>2, Distance, MainInCode, ElfOffsets
<1>5. segment \in {1, 2}
  <2>1. Len(file.header.segments) = 2
    BY <1>2 DEF ElfHeader
  <2> QED BY <1>1, <2>1 DEF Carried, Loaded
<1>6. Loaded'
  <2>1. CASE segment = 1
    <3>1. /\ combined.size = 0 /\ combined.base = TOP /\ DOMAIN combined.parts = {}
      BY <2>1 DEF Carried, Loaded
    <3>2. s.vaddr = BASE_ADDRESS /\ s.size = code /\ s.offset = 128 /\ s.name = "code"
      BY <1>2, <1>4, <2>1 DEF ElfHeader
    <3> HIDE DEF s, code, high
    <3>3. base = BASE_ADDRESS /\ end = code
      BY <1>4, <3>1, <3>2
    <3>4. s.offset + s.size <= file.size
      BY <1>2, <1>4, <3>2 DEF data
    <3> HIDE DEF base, end
    <3>5. /\ combined'.base = BASE_ADDRESS /\ combined'.size = code
          /\ combined'.parts = With(combined.parts, "code", [at |-> 0, size |-> code])
      BY <1>3, <1>4, <3>1, <3>2, <3>3, <3>4
    <3>6. DOMAIN combined'.parts = {"code"} /\ combined'.parts["code"] = [at |-> 0, size |-> code]
      BY <3>1, <3>5 DEF With
    <3>7. segment' = 2 /\ program' = program
      BY <1>1, <2>1
    <3> QED BY <3>5, <3>6, <3>7 DEF Loaded, code
  <2>2. CASE segment = 2
    <3>1. /\ combined.size = code /\ combined.base = BASE_ADDRESS /\ DOMAIN combined.parts = {"code"}
          /\ combined.parts["code"] = [at |-> 0, size |-> code]
      BY <2>2 DEF Carried, Loaded
    <3>2. s.vaddr = high /\ s.size = data /\ s.offset = DataOffset /\ s.name = "data"
      BY <1>2, <1>4, <2>2 DEF ElfHeader
    <3>8. DataDistance = high - BASE_ADDRESS
      BY DEF DataDistance
    <3> HIDE DEF s, code, high
    <3>3. base = BASE_ADDRESS /\ end = (high - BASE_ADDRESS) + data
      BY <1>4, <3>1, <3>2
    <3>4. s.offset + s.size <= file.size
      BY <1>2, <1>4, <3>2 DEF data
    <3> HIDE DEF base, end, data
    <3>5. /\ combined'.base = BASE_ADDRESS /\ combined'.size = (high - BASE_ADDRESS) + data
          /\ combined'.parts = With(combined.parts, "data", [at |-> high - BASE_ADDRESS, size |-> data])
      BY <1>3, <1>4, <3>1, <3>2, <3>3, <3>4
    <3>6. /\ DOMAIN combined'.parts = {"code", "data"}
          /\ combined'.parts["code"] = [at |-> 0, size |-> code]
          /\ combined'.parts["data"] = [at |-> high - BASE_ADDRESS, size |-> data]
      BY <3>1, <3>5 DEF With
    <3>7. segment' = 3 /\ program' = program
      BY <1>1, <2>2
    <3>9. DataDistance' = DataDistance
      BY <3>7 DEF DataDistance
    <3> QED BY <3>5, <3>6, <3>7, <3>8, <3>9 DEF Loaded, code, data
  <2> QED BY <1>5, <2>1, <2>2
<1>7. Entered'
  BY <1>1 DEF Carried, Entered, Importing, Listing, Writing, Filling
<1>8. Filed'
  BY <1>1 DEF Carried, Filed, DataOffset, CodeOffset, Main
<1>9. Packed'
  BY <1>1 DEF Carried, Packed, Wrapping
<1> QED BY <1>6, <1>7, <1>8, <1>9 DEF Carried

(* What the other steps leave alone.                                       *)
LEMMA LoadedSame ==
  ASSUME Loaded, UNCHANGED <<program, segment, combined>>
  PROVE  Loaded'
BY DEF Loaded, DataDistance

LEMMA FiledSame ==
  ASSUME Filed, UNCHANGED <<program, file>>
  PROVE  Filed'
BY DEF Filed, DataOffset, CodeOffset, Main

LEMMA EnteredSame ==
  ASSUME Entered, UNCHANGED <<program, layout, file, segment>>, stage' # "link",
         stage' \in Importing \cup Writing => stage \in Importing \cup Writing
  PROVE  Entered'
BY DEF Entered, Main

LEMMA EnteredElsewhere ==
  ASSUME Entered, UNCHANGED program, stage' # "link", stage' \notin Importing \cup Writing
  PROVE  Entered'
BY DEF Entered

LEMMA PackedSame ==
  ASSUME Packed, UNCHANGED <<program, file, segment, basefile, xex>>, stage # "done",
         stage' \in Wrapping \cup {"done"} => stage \in Wrapping \cup {"done"}
  PROVE  Packed'
BY DEF Packed, Main

LEMMA CarriedKept ==
  ASSUME Inv, Carried, Next
  PROVE  Carried'
<1> USE DEF importing, building, converting
<1>0. /\ Loaded /\ Entered /\ Filed /\ Packed /\ program \in Programs
      /\ Typed /\ PeBuffer /\ ElfBuffer /\ XexBuffer /\ Results
  BY DEF Carried, Entered, Inv, Buffers, Typed
<1>a. Main \in Nat /\ Main < program.code /\ program.code \in Nat /\ program.data \in Nat
  BY <1>0, MainInCode
<1>1. CASE WritePe
  <2>1. /\ UNCHANGED <<program, file, segment, combined, basefile, xex>> /\ stage = "link"
        /\ stage' \in {"count", "headers"} /\ layout'.entry = Main /\ layout'.code = program.code
    BY <1>1 DEF WritePe
  <2>2. file.kind = "none" /\ Main' = Main
    BY <1>0, <2>1 DEF Entered, Main
  <2>3. Entered'
    BY <1>0, <1>a, <2>1, <2>2 DEF Entered
  <2> QED BY <1>0, <2>1, <2>3, LoadedSame, FiledSame, PackedSame DEF Carried, Wrapping
<1>2. CASE Imports \/ PeHeaders \/ PeText \/ PeData \/ PeImports
  <2>1. /\ UNCHANGED <<program, layout, file, segment, combined, basefile, xex>>
        /\ stage \in Importing \cup Writing /\ stage' \in Importing \cup Writing
    <3>1. CASE Imports
      BY <3>1 DEF Imports, CountDll, SizeIdata, NameDll, Thunks, ThunksBy, DescribeDll, NextDll,
                  Importing, Listing, Writing
    <3>2. CASE PeHeaders \/ PeText \/ PeData \/ PeImports
      BY <3>2 DEF PeHeaders, PeText, PeData, PeImports, Writing, Filling
    <3> QED BY <1>2, <3>1, <3>2
  <2>2. stage' # "link" /\ stage # "done" /\ stage' \notin Wrapping \cup {"done"}
    BY <2>1 DEF Importing, Listing, Writing, Filling, Wrapping
  <2> QED BY <1>0, <2>1, <2>2, LoadedSame, FiledSame, PackedSame, EnteredSame DEF Carried
<1>3. CASE SavePe
  <2>1. /\ UNCHANGED <<program, segment, combined, basefile, xex>> /\ stage = "image" /\ stage' = "linked"
        /\ file' \in {Written("pe"), Nothing}
    BY <1>3 DEF SavePe
  <2>2. layout.entry = Main /\ layout.entry < layout.code /\ Main' = Main
    BY <1>0, <2>1 DEF Entered, Writing, Filling, Main
  <2>3. Filed'
    <3>1. CASE file' = Written("pe")
      <4>1. file'.kind = "pe" /\ file'.header = Written("pe").header
        BY <3>1 DEF Written
      <4>2. file'.header.entry \in Nat /\ Leads(file', file'.header.entry, Main')
        BY <1>0, <1>a, <2>1, <2>2, <3>1, EntryInText
      <4> QED BY <4>1, <4>2 DEF Filed
    <3>2. CASE file' = Nothing
      BY <3>2 DEF Filed, Nothing
    <3> QED BY <2>1, <3>1, <3>2
  <2>4. Packed'
    BY <1>0, <2>1 DEF Packed, Wrapping
  <2> QED BY <1>0, <2>1, <2>3, <2>4, LoadedSame, EnteredElsewhere
          DEF Carried, Importing, Listing, Writing, Filling
<1>4. CASE ElfHeaders \/ ElfCode \/ ElfData \/ CannotOpen \/ OpenElf
  <2>1. /\ UNCHANGED <<program, layout, file, segment, combined, basefile, xex>>
        /\ stage' \in {"elf_code", "elf_data", "elf", "no_xex", "segments"} /\ stage # "done"
    BY <1>4 DEF ElfHeaders, ElfCode, ElfData, CannotOpen, OpenElf
  <2> QED BY <1>0, <2>1, LoadedSame, FiledSame, PackedSame, EnteredElsewhere
          DEF Carried, Importing, Listing, Writing, Filling, Wrapping
<1>5. CASE SaveElf
  <2>1. /\ UNCHANGED <<program, segment, combined, basefile, xex>> /\ stage = "elf" /\ stage' = "linked"
        /\ file' \in {Written("elf"), Nothing} /\ DataOffset' = DataOffset
    BY <1>5 DEF SaveElf, DataOffset, CodeOffset
  <2>2. buf.size = DataOffset + program.data
    BY <1>0, <2>1 DEF ElfBuffer
  <2>3. Filed'
    BY <2>1, <2>2 DEF Filed, Written, Nothing
  <2>4. Packed'
    BY <1>0, <2>1 DEF Packed, Wrapping
  <2> QED BY <1>0, <2>1, <2>3, <2>4, LoadedSame, EnteredElsewhere
          DEF Carried, Importing, Listing, Writing, Filling
<1>6. CASE WrapPe
  <2>1. /\ UNCHANGED <<program, file, segment, combined, xex>> /\ stage = "linked" /\ stage' = "xex"
        /\ file.kind = "pe" /\ basefile'.image = file /\ basefile'.base = BASE_ADDRESS
        /\ basefile'.entry = BASE_ADDRESS + file.header.entry
    BY <1>6 DEF WrapPe
  <2>2. Leads(file, file.header.entry, Main) /\ file.header.entry \in Nat /\ Main' = Main
    BY <1>0, <2>1 DEF Filed, Main
  <2>3. basefile'.entry - basefile'.base = file.header.entry
    BY <2>1, <2>2, AddressAssumption
  <2>4. Packed'
    BY <1>0, <2>1, <2>2, <2>3 DEF Packed
  <2> QED BY <1>0, <2>1, <2>4, LoadedSame, FiledSame, EnteredElsewhere
          DEF Carried, Importing, Listing, Writing, Filling
<1>7. CASE ExtractSegment
  BY <1>0, <1>7, SegmentTaken DEF Carried
<1>8. CASE BuildPeImage
  <2>1. /\ UNCHANGED <<program, file, segment, combined, basefile, xex>>
        /\ stage = "segments" /\ stage' = "headers" /\ segment > Len(file.header.segments)
        /\ layout'.code = combined.size /\ layout'.sec = 4096
        /\ layout'.entry = file.header.entry - combined.base
    BY <1>8 DEF BuildPeImage, Entry
  <2>2. file.kind = "elf" /\ file.header = ElfHeader
    BY <1>0, <2>1 DEF Results
  <2>3. segment = 3
    <3>1. Len(file.header.segments) = 2
      BY <2>2 DEF ElfHeader
    <3> QED BY <1>0, <2>1, <3>1 DEF Loaded
  <2>4. combined.base = BASE_ADDRESS /\ combined.size = DataDistance + program.data
    BY <1>0, <2>3 DEF Loaded
  <2>5. file.header.entry = BASE_ADDRESS + Main
    BY <2>2 DEF ElfHeader
  <2>6. layout'.entry = Main /\ Main < combined.size /\ Main' = Main
    <3>1. BASE_ADDRESS \in Nat /\ DataDistance \in Int /\ program.code <= DataDistance
      BY <1>0, <1>a, Distance DEF DataDistance
    <3> QED BY <1>a, <2>1, <2>4, <2>5, <3>1 DEF Main
  <2>7. Entered'
    BY <1>0, <2>1, <2>2, <2>3, <2>6 DEF Entered
  <2> QED BY <1>0, <2>1, <2>7, LoadedSame, FiledSame, PackedSame DEF Carried, Wrapping
<1>9. CASE WrapImage
  <2>1. /\ UNCHANGED <<program, file, segment, combined, xex>> /\ stage = "image" /\ stage' = "xex"
        /\ file.kind = "elf" /\ basefile'.image = Written("pe") /\ basefile'.base = BASE_ADDRESS
        /\ basefile'.entry = BASE_ADDRESS + 4096 + layout.entry
    BY <1>9 DEF WrapImage
  <2>2. /\ layout.entry = Main /\ layout.entry < layout.code /\ Main' = Main
        /\ segment = 3 /\ layout.sec = 4096
    BY <1>0, <2>1 DEF Entered, Writing, Filling, Main
  <2>3. Leads(basefile'.image, 4096 + Main, Main)
    BY <1>0, <1>a, <2>1, <2>2, EntryInText
  <2>4. basefile'.entry - basefile'.base = 4096 + Main
    BY <1>a, <2>1, <2>2, AddressAssumption
  <2>5. Packed'
    BY <1>0, <2>1, <2>2, <2>3, <2>4 DEF Packed
  <2> QED BY <1>0, <2>1, <2>5, LoadedSame, FiledSame, EnteredElsewhere
          DEF Carried, Importing, Listing, Writing, Filling
<1>10. CASE XexHeaders \/ XexSecurity \/ XexPages \/ XexBasefile
  <2>1. /\ UNCHANGED <<program, layout, file, segment, combined, basefile, xex>>
        /\ stage \in Wrapping /\ stage' \in Wrapping
    BY <1>10 DEF XexHeaders, XexSecurity, XexPages, XexBasefile, Wrapping
  <2>2. stage # "done" /\ stage' # "link" /\ stage' \notin Importing \cup Writing
    BY <2>1 DEF Wrapping, Importing, Listing, Writing, Filling
  <2> QED BY <1>0, <2>1, <2>2, LoadedSame, FiledSame, PackedSame, EnteredElsewhere DEF Carried
<1>11. CASE SaveXex
  <2>1. /\ UNCHANGED <<program, file, segment, combined, basefile>> /\ stage = "save_xex" /\ stage' = "done"
        /\ xex' \in {Written("xex"), Nothing}
    BY <1>11 DEF SaveXex
  <2>2. header = XexHeader
    BY <1>0, <2>1 DEF XexBuffer, Wrapping
  <2>3. xex'.kind = "xex" => xex'.header.entry = basefile.entry /\ xex'.header.base = basefile.base
    BY <2>1, <2>2 DEF Written, Nothing, XexHeader
  <2>4. Packed'
    BY <1>0, <2>1, <2>3 DEF Packed, Wrapping, Main
  <2> QED BY <1>0, <2>1, <2>4, LoadedSame, FiledSame, EnteredElsewhere
          DEF Carried, Importing, Listing, Writing, Filling
<1> QED BY <1>1, <1>2, <1>3, <1>4, <1>5, <1>6, <1>7, <1>8, <1>9, <1>10, <1>11
        DEF Next, Pe, Elf, Convert, Xex

LEMMA CarriedMeans ==
  ASSUME Inv, Carried
  PROVE  ProgramInXex
<1> SUFFICES ASSUME xex.kind = "xex" PROVE ProgramInXex
  BY DEF ProgramInXex
<1> DEFINE rva == xex.header.entry - xex.header.base
           image == basefile.image
           text == CHOOSE s \in ToSet(image.header.sections) : s.rva <= rva /\ rva < s.rva + s.size
           inText == (text.pointer + rva - text.rva) - image.parts["text"].at
<1>1. Leads(image, rva, Main) /\ (file.kind = "elf" => segment = 3)
  BY DEF Carried, Packed
<1>2. /\ \E s \in ToSet(image.header.sections) : s.rva <= rva /\ rva < s.rva + s.size
      /\ inText = Main
  BY <1>1, TextIsChosen
<1> HIDE DEF inText
<1>3. program \in Programs
  BY DEF Carried, Entered
<1>4. Main \in Nat /\ program.code \in Nat /\ program.data \in Nat
  BY <1>3, MainInCode
<1>5. ASSUME file.kind = "elf"
      PROVE  /\ PartsApart(combined)
             /\ inText - combined.parts["code"].at = Main
             /\ \A k \in DOMAIN file.header.segments :
                  LET s == file.header.segments[k]
                  IN  combined.parts[s.name] = [at |-> s.vaddr - combined.base, size |-> s.size]
  <2>1. /\ combined.size = DataDistance + program.data /\ combined.base = BASE_ADDRESS
        /\ DOMAIN combined.parts = {"code", "data"}
        /\ combined.parts["code"] = [at |-> 0, size |-> program.code]
        /\ combined.parts["data"] = [at |-> DataDistance, size |-> program.data]
    BY <1>1, <1>5 DEF Carried, Loaded
  <2>2. DataDistance \in Int /\ program.code <= DataDistance /\ BASE_ADDRESS \in Nat
    BY <1>3, <1>4, Distance DEF DataDistance
  <2>3. PartsApart(combined)
    BY <1>4, <2>1, <2>2 DEF PartsApart, Within, Overlap
  <2>4. inText - combined.parts["code"].at = Main
    BY <1>2, <1>4, <2>1
  <2>5. ASSUME NEW k \in DOMAIN file.header.segments
        PROVE  LET s == file.header.segments[k]
               IN  combined.parts[s.name] = [at |-> s.vaddr - combined.base, size |-> s.size]
    <3>1. file.header = ElfHeader
      BY <1>5 DEF Inv, Typed, Results
    <3>2. k \in {1, 2}
      BY <3>1 DEF ElfHeader
    <3>3. CASE k = 1
      BY <2>1, <2>2, <3>1, <3>3 DEF ElfHeader
    <3>4. CASE k = 2
      BY <2>1, <2>2, <3>1, <3>4 DEF ElfHeader, DataDistance
    <3> QED BY <3>2, <3>3, <3>4
  <2> QED BY <2>3, <2>4, <2>5
<1> QED BY <1>2, <1>5 DEF ProgramInXex, inText

(* The carried facts are inductive beside Inv.                             *)
LEMMA AlwaysCarried == Spec => []Carried
<1>1. Inv /\ Carried /\ [Next]_vars => Carried'
  <2>1. ASSUME Carried, UNCHANGED vars PROVE Carried'
    <3>1. UNCHANGED <<program, stage, layout, dll, total, idata, buf, header, file, segment, combined, basefile, xex>>
      BY <2>1 DEF vars, importing, building, converting
    <3>2. Loaded' /\ Filed'
      BY <2>1, <3>1, LoadedSame, FiledSame DEF Carried
    <3>3. Entered' /\ Packed'
      BY <2>1, <3>1 DEF Carried, Entered, Packed, Main
    <3> QED BY <3>2, <3>3 DEF Carried
  <2> QED BY <2>1, CarriedKept
<1> QED BY <1>1, CarriedStarts, Inductive, PTL DEF Spec

(* The XEX holds the program: whatever was linked, the entry address leads *)
(* to the byte of main in the code, and of an ELF file both segments are   *)
(* in the image, whole and at the distances of their addresses             *)
(* (xex_converter.cpp:66, 222, 299, 334, 445-457).                         *)
THEOREM ProgramIsInXex == Spec => []ProgramInXex
<1>1. Inv /\ Carried => ProgramInXex
  BY CarriedMeans
<1> QED BY <1>1, Inductive, AlwaysCarried, PTL

-----------------------------------------------------------------------------
(* Type correctness.  What is put in a buffer, and how far it is padded,   *)
(* is a number at every place, whatever is in the buffer already.          *)
Fits(b) ==
  IsBuffer(b) /\ b.size \in Nat /\ \A n \in DOMAIN b.parts : b.parts[n] \in [at : Nat, size : Nat]
Covers(l) ==
  /\ l.code \in Nat /\ l.data \in Nat /\ l.entry \in 0..(l.code - 1)
  /\ l.sec \in {4096, SEC_ALIGN} /\ l.lfanew < l.headers
Sized ==
  /\ dll \in 1..(Len(program.imports) + 1)
  /\ layout # Nothing => Covers(layout)
  /\ Fits(buf)
  /\ xex.kind \in {"none", "xex"}
  /\ basefile # Nothing => basefile.image.kind = "pe" /\ basefile.entry >= basefile.base

LEMMA PutFits ==
  ASSUME NEW b, Fits(b), NEW name, NEW size \in Nat
  PROVE  Fits(Put(b, name, size))
<1> DEFINE c == Put(b, name, size)
<1>1. /\ c.size = b.size + size /\ c = [size |-> c.size, parts |-> c.parts]
      /\ DOMAIN c.parts = DOMAIN b.parts \cup {name}
      /\ c.parts[name] = [at |-> b.size, size |-> size]
      /\ \A n \in DOMAIN b.parts \ {name} : c.parts[n] = b.parts[n]
  BY PutPart DEF Fits
<1> HIDE DEF c
<1>2. ASSUME NEW n \in DOMAIN c.parts
      PROVE  c.parts[n] \in [at : Nat, size : Nat]
  <2>1. CASE n = name
    BY <1>1, <2>1 DEF Fits
  <2>2. CASE n # name
    BY <1>1, <2>2 DEF Fits
  <2> QED BY <2>1, <2>2
<1> QED BY <1>1, <1>2 DEF Fits, IsBuffer, c

LEMMA PadFits ==
  ASSUME NEW b, Fits(b), NEW target \in Nat
  PROVE  Fits(PadTo(b, target))
<1> DEFINE c == PadTo(b, target)
<1>1. /\ c = [size |-> c.size, parts |-> c.parts] /\ c.parts = b.parts
      /\ c.size = IF b.size < target THEN target ELSE b.size
  BY Padded DEF Fits, IsBuffer
<1> HIDE DEF c
<1> QED BY <1>1 DEF Fits, IsBuffer, c

LEMMA EmptyFits == Fits(Empty)
BY EmptyBuffer DEF Fits

(* The steps that fill the buffer.                                         *)
LEMMA PeFits ==
  ASSUME Typed, PeBuffer, Fits(buf), PeHeaders \/ PeText \/ PeData \/ PeImports
  PROVE  Fits(buf')
<1>1. stage \in Writing /\ (stage = "headers" \/ stage \in Filling)
  BY DEF PeHeaders, PeText, PeData, PeImports, Writing, Filling
<1>2. /\ layout.code \in Nat /\ layout.data \in Nat /\ layout.lfanew \in Nat /\ layout.headers \in Nat
  BY <1>1 DEF Typed, LaidOut, LayoutTyped, LargeLayout, SmallLayout
<1>3. /\ Raw(layout.code) \in Nat /\ Raw(layout.data) \in Nat
      /\ layout.imports => idata.size \in Nat /\ Raw(idata.size) \in Nat
  BY <1>1, Offsets, Zenon DEF Typed, LaidOut
<1>4. CASE PeHeaders
  <2>1. Len(Sections) \in {2, 3}
    <3>1. CASE layout.imports
      BY <3>1, SectionList
    <3>2. CASE ~layout.imports
      BY <3>2, SectionList
    <3> QED BY <3>1, <3>2
  <2>2. PICK size \in Nat : size = 4 + 20 + 224 + 40 * Len(Sections)
    BY <2>1
  <2>3. Fits(PadTo(Empty, layout.lfanew))
    BY <1>2, EmptyFits, PadFits
  <2>4. Fits(Put(PadTo(Empty, layout.lfanew), "headers", size))
    BY <2>3, PutFits
  <2>5. Fits(PadTo(Put(PadTo(Empty, layout.lfanew), "headers", size), layout.headers))
    BY <1>2, <2>4, PadFits
  <2> QED BY <1>4, <2>2, <2>5 DEF PeHeaders
<1>5. CASE PeText
  <2>1. Fits(Put(buf, "text", layout.code))
    BY <1>2, PutFits
  <2>2. layout.headers + Raw(layout.code) \in Nat
    BY <1>2, <1>3
  <2>3. Fits(PadTo(Put(buf, "text", layout.code), layout.headers + Raw(layout.code)))
    BY <2>1, <2>2, PadFits
  <2> QED BY <1>5, <2>3 DEF PeText
<1>6. CASE PeData
  <2>1. Fits(Put(buf, "data", layout.data))
    BY <1>2, PutFits
  <2>2. layout.headers + Raw(layout.code) + Raw(layout.data) \in Nat
    BY <1>2, <1>3
  <2>3. Fits(PadTo(Put(buf, "data", layout.data), layout.headers + Raw(layout.code) + Raw(layout.data)))
    BY <2>1, <2>2, PadFits
  <2> QED BY <1>6, <2>3 DEF PeData
<1>7. CASE PeImports
  <2>0. layout.imports
    BY <1>7 DEF PeImports, PeBuffer
  <2>1. Fits(Put(buf, "idata", idata.size))
    BY <1>3, <2>0, PutFits
  <2>2. layout.headers + Raw(layout.code) + Raw(layout.data) + Raw(idata.size) \in Nat
    BY <1>2, <1>3, <2>0
  <2>3. Fits(PadTo(Put(buf, "idata", idata.size),
                   layout.headers + Raw(layout.code) + Raw(layout.data) + Raw(idata.size)))
    BY <2>1, <2>2, PadFits
  <2> QED BY <1>7, <2>3 DEF PeImports
<1> QED BY <1>4, <1>5, <1>6, <1>7

LEMMA ElfFits ==
  ASSUME Typed, Fits(buf), ElfHeaders \/ ElfCode \/ ElfData
  PROVE  Fits(buf')
<1>1. program.code \in Nat /\ program.data \in Nat /\ CodeOffset \in Nat /\ DataOffset \in Nat
  BY ElfOffsets
<1>2. CASE ElfHeaders
  <2>1. 52 + 2 * 32 \in Nat
    OBVIOUS
  <2>2. Fits(Put(Empty, "headers", 52 + 2 * 32))
    BY <2>1, EmptyFits, PutFits
  <2> QED BY <1>1, <1>2, <2>2, PadFits DEF ElfHeaders
<1>3. CASE ElfCode
  <2>1. Fits(Put(buf, "code", program.code))
    BY <1>1, PutFits
  <2> QED BY <1>1, <1>3, <2>1, PadFits DEF ElfCode
<1>4. CASE ElfData
  BY <1>1, <1>4, PutFits DEF ElfData
<1> QED BY <1>2, <1>3, <1>4

LEMMA XexFits ==
  ASSUME Typed, Fits(buf), XexHeaders \/ XexSecurity \/ XexPages \/ XexBasefile
  PROVE  Fits(buf')
<1>1. basefile.image.size \in Nat
  BY DEF XexHeaders, XexSecurity, XexPages, XexBasefile, Typed, Results, Wrapping
<1>2. /\ ExecutionOffset \in Nat /\ SecurityOffset \in Nat /\ PagesOffset \in Nat
      /\ Pages \in Nat /\ ImageSize \in Nat /\ ImageOffset \in Nat
  BY <1>1, XexOffsets
<1>3. CASE XexHeaders
  <2>1. 24 + 5 * 8 \in Nat /\ 8 * 4 \in Nat
    OBVIOUS
  <2>2. Fits(PadTo(Put(Empty, "headers", 24 + 5 * 8), ExecutionOffset))
    BY <1>2, <2>1, EmptyFits, PutFits, PadFits
  <2> QED BY <1>3, <2>1, <2>2, PutFits DEF XexHeaders
<1>4. CASE XexSecurity
  <2>1. PICK b : b = PadTo(buf, SecurityOffset)
    OBVIOUS
  <2>2. Fits(b) /\ b.size + 296 \in Nat
    BY <1>2, <2>1, PadFits DEF Fits
  <2>3. Fits(PadTo(Put(b, "security", 96), b.size + 296))
    BY <2>2, PutFits, PadFits
  <2> QED BY <1>4, <2>1, <2>3 DEF XexSecurity
<1>5. CASE XexPages
  <2>1. Pages * 24 \in Nat
    BY <1>2
  <2>2. Fits(PadTo(buf, PagesOffset))
    BY <1>2, PadFits
  <2> QED BY <1>5, <2>1, <2>2, PutFits DEF XexPages
<1>6. CASE XexBasefile
  <2>1. Fits(PadTo(buf, ImageOffset))
    BY <1>2, PadFits
  <2>2. Fits(Put(PadTo(buf, ImageOffset), "image", ImageSize))
    BY <1>2, <2>1, PutFits
  <2> QED BY <1>6, <2>2 DEF XexBasefile, ImageSize
<1> QED BY <1>3, <1>4, <1>5, <1>6

(* A layout that has just been made is about to be written.                *)
LEMMA NewLayoutCovers ==
  ASSUME Typed', Carried', stage' \in Importing \cup Writing
  PROVE  Covers(layout')
<1>1. LayoutTyped'
  BY DEF Typed, LaidOut
<1>2. layout'.entry = Main' /\ layout'.entry < layout'.code /\ Main' \in Nat
  <2>1. program' \in Program
    BY DEF Typed, Cursors
  <2> QED BY <2>1 DEF Carried, Entered, Main, Program, NoMain
<1>3. /\ layout'.code \in Nat /\ layout'.data \in Nat
      /\ layout'.sec \in {4096, SEC_ALIGN} /\ layout'.lfanew < layout'.headers
  BY <1>1 DEF LayoutTyped, LargeLayout, SmallLayout, SEC_ALIGN
<1> QED BY <1>2, <1>3 DEF Covers

LEMMA SizedKept ==
  ASSUME Inv, Carried, Inv', Carried', Sized, Next
  PROVE  Sized'
<1> USE DEF importing, building, converting
<1>0. /\ Typed /\ Cursors /\ LaidOut /\ Results /\ Fits(buf)
      /\ Typed' /\ Cursors' /\ Len(program.imports) \in Nat /\ Len(program'.imports) \in Nat
  BY DEF Inv, Typed, Sized, Cursors, Program
<1>b. PeBuffer
  BY DEF Inv, Buffers
<1>a. dll' \in 1..(Len(program'.imports) + 1)
  <2>1. CASE program'.imports # << >>
    BY <1>0, <2>1 DEF Cursors
  <2>2. CASE program'.imports = << >>
    <3>1. program' = program /\ (dll' = dll \/ stage \in Importing)
      BY DEF Next, Pe, Elf, Convert, Xex, Imports, WritePe, CountDll, SizeIdata, NameDll, Thunks, ThunksBy, DescribeDll,
             PeHeaders, PeText, PeData, PeImports, SavePe, ElfHeaders, ElfCode, ElfData, SaveElf, CannotOpen, WrapPe,
             OpenElf, ExtractSegment, SegmentBy, BuildPeImage, WrapImage, XexHeaders, XexSecurity, XexPages,
             XexBasefile, SaveXex, Importing, Listing
    <3>2. stage \notin Importing
      BY <1>0, <2>2, <3>1 DEF LaidOut
    <3> QED BY <3>1, <3>2 DEF Sized
  <2> QED BY <2>1, <2>2
<1>1. CASE WritePe \/ BuildPeImage
  <2>1. UNCHANGED <<buf, basefile, xex>> /\ stage' \in Importing \cup Writing
    BY <1>1 DEF WritePe, BuildPeImage, Importing, Writing
  <2>2. Covers(layout')
    BY <1>0, <2>1, NewLayoutCovers
  <2> QED BY <1>a, <2>1, <2>2 DEF Sized
<1>2. CASE PeHeaders \/ PeText \/ PeData \/ PeImports
  <2>1. UNCHANGED <<layout, basefile, xex>>
    BY <1>2 DEF PeHeaders, PeText, PeData, PeImports
  <2> QED BY <1>0, <1>2, <1>a, <1>b, <2>1, PeFits DEF Sized
<1>3. CASE ElfHeaders \/ ElfCode \/ ElfData
  <2>1. UNCHANGED <<layout, basefile, xex>>
    BY <1>3 DEF ElfHeaders, ElfCode, ElfData
  <2> QED BY <1>0, <1>3, <1>a, <2>1, ElfFits DEF Sized
<1>4. CASE XexHeaders \/ XexSecurity \/ XexPages \/ XexBasefile
  <2>1. UNCHANGED <<layout, basefile, xex>>
    BY <1>4 DEF XexHeaders, XexSecurity, XexPages, XexBasefile
  <2> QED BY <1>0, <1>4, <1>a, <2>1, XexFits DEF Sized
<1>5. CASE Imports \/ SavePe \/ SaveElf \/ CannotOpen \/ OpenElf \/ ExtractSegment
  <2>1. UNCHANGED <<layout, buf, basefile, xex>>
    BY <1>5 DEF Imports, CountDll, SizeIdata, NameDll, Thunks, ThunksBy, DescribeDll, SavePe, SaveElf, CannotOpen,
                OpenElf, ExtractSegment, SegmentBy
  <2> QED BY <1>a, <2>1 DEF Sized
<1>6. CASE WrapPe
  <2>1. /\ UNCHANGED <<layout, buf, xex>> /\ basefile'.image = file /\ file.kind = "pe"
        /\ basefile'.base = BASE_ADDRESS /\ basefile'.entry = BASE_ADDRESS + file.header.entry
    BY <1>6 DEF WrapPe
  <2>2. file.header.entry \in Nat
    BY <2>1 DEF Carried, Filed
  <2>3. basefile'.entry >= basefile'.base
    BY <2>1, <2>2, AddressAssumption
  <2> QED BY <1>a, <2>1, <2>3 DEF Sized
<1>7. CASE WrapImage
  <2>1. /\ UNCHANGED <<layout, buf, xex>> /\ basefile'.image = Written("pe") /\ stage = "image"
        /\ basefile'.base = BASE_ADDRESS /\ basefile'.entry = BASE_ADDRESS + 4096 + layout.entry
    BY <1>7 DEF WrapImage
  <2>2. layout.entry \in Nat
    BY <2>1, MainInCode DEF Carried, Entered, Writing, Filling
  <2>3. basefile'.entry >= basefile'.base
    BY <2>1, <2>2, AddressAssumption
  <2>4. basefile'.image.kind = "pe"
    BY <2>1 DEF Written
  <2> QED BY <1>a, <2>1, <2>3, <2>4 DEF Sized
<1>8. CASE SaveXex
  <2>1. UNCHANGED <<layout, buf, basefile>> /\ xex' \in {Written("xex"), Nothing}
    BY <1>8 DEF SaveXex
  <2>2. xex'.kind \in {"none", "xex"}
    BY <2>1 DEF Written, Nothing
  <2> QED BY <1>a, <2>1, <2>2 DEF Sized
<1> QED BY <1>1, <1>2, <1>3, <1>4, <1>5, <1>6, <1>7, <1>8 DEF Next, Pe, Elf, Convert, Xex

(* The state of the writers is typed: sizes and positions are numbers, the *)
(* entry lies in the code of every layout that is written, and the XEX is  *)
(* made from a PE image it is entered in (linker.cpp:416-711,              *)
(* elf_writer.cpp:23-92, xex_converter.cpp:25-460).                        *)
THEOREM TypeCorrect == Spec => []TypeOK
<1>1. Init => Sized
  <2> SUFFICES ASSUME Init PROVE Sized
    OBVIOUS
  <2>1. Len(program.imports) \in Nat
    BY ProgramsAssumption DEF Init, Program
  <2> QED BY <2>1, EmptyFits DEF Init, Sized, Nothing
<1>2. Inv /\ Carried /\ Inv' /\ Carried' /\ Sized /\ [Next]_vars => Sized'
  <2>1. ASSUME Sized, UNCHANGED vars PROVE Sized'
    BY <2>1 DEF Sized, vars, importing, building, converting
  <2> QED BY <2>1, SizedKept
<1>3. Inv /\ Carried /\ Sized => TypeOK
  <2> SUFFICES ASSUME Inv, Carried, Sized PROVE TypeOK
    OBVIOUS
  <2>1. /\ program \in Program /\ program \in Programs /\ file.kind \in {"none", "pe", "elf"}
    BY DEF Inv, Typed, Cursors, Results, Carried, Entered
  <2>2. segment \in 1..3 /\ combined.size \in Nat /\ combined.base \in BASE_ADDRESS..TOP
    <3>1. program.code \in Nat /\ program.data \in Nat /\ DataDistance \in Nat
          /\ BASE_ADDRESS \in Nat /\ TOP \in Nat /\ BASE_ADDRESS < TOP
      BY <2>1, MainInCode, Distance DEF DataDistance
    <3> QED BY <3>1 DEF Carried, Loaded
  <2> QED BY <2>1, <2>2 DEF Sized, TypeOK, Covers, Fits
<1> QED BY <1>1, <1>2, <1>3, Inductive, AlwaysCarried, PTL DEF Spec

-----------------------------------------------------------------------------
(* The import section.  f and g are the sums of the names and entries of   *)
(* the DLLs before: the first loop computes their ends, and the others     *)
(* must arrive at them.                                                    *)
Sums(D, f, g, m) ==
  /\ f \in [0..m -> Nat] /\ g \in [0..m -> Nat] /\ f[0] = 0 /\ g[0] = 0
  /\ \A d \in 1..m : f[d] = f[d-1] + (D[d].name + 1) /\ g[d] = g[d-1] + (D[d].entries + 1)
  /\ \A i, j \in 0..m : i < j => /\ f[i] + (D[i+1].name + 1) <= f[j]
                                 /\ g[i] + (D[i+1].entries + 1) <= g[j]

(* Where the four loops write for a DLL: idt is the size of the directory, *)
(* list that of one of the two groups of lists.                            *)
NameAt(idt, list, f, d) == (idt + 2 * list) + f[d-1]
IltAt(idt, g, d) == idt + 4 * g[d-1]
IatAt(idt, list, g, d) == (idt + list) + 4 * g[d-1]
WriteOf(what, d, k, at, size) == [what |-> what, dll |-> d, entry |-> k, at |-> at, size |-> size]

(* The places of the section, those of the empty entries that end a list,  *)
(* a name or the directory among them.                                     *)
Place(w, D, idt, list, f, g) ==
  /\ w = WriteOf(w.what, w.dll, w.entry, w.at, w.size)
  /\ \/ /\ w.what = "name" /\ w.dll \in 1..Len(D)
        /\ \/ w.entry = 1 /\ w.at = NameAt(idt, list, f, w.dll) /\ w.size = D[w.dll].name
           \/ w.entry = 2 /\ w.at = NameAt(idt, list, f, w.dll) + D[w.dll].name /\ w.size = 1
     \/ /\ w.what = "ilt" /\ w.dll \in 1..Len(D) /\ w.entry \in 1..(D[w.dll].entries + 1)
        /\ w.at = IltAt(idt, g, w.dll) + 4 * (w.entry - 1) /\ w.size = 4
     \/ /\ w.what = "iat" /\ w.dll \in 1..Len(D) /\ w.entry \in 1..(D[w.dll].entries + 1)
        /\ w.at = IatAt(idt, list, g, w.dll) + 4 * (w.entry - 1) /\ w.size = 4
     \/ /\ w.what = "descriptor" /\ w.dll \in 1..(Len(D) + 1)
        /\ w.entry = 1 /\ w.at = (w.dll - 1) * 20 /\ w.size = 20
Ends(w, D) ==
  \/ w.what = "name" /\ w.entry = 2
  \/ w.what \in {"ilt", "iat"} /\ w.entry = D[w.dll].entries + 1
  \/ w.what = "descriptor" /\ w.dll = Len(D) + 1
Belongs(w, D, idt, list, f, g) == Place(w, D, idt, list, f, g) /\ ~Ends(w, D)

Slots == UNION {[1..m -> Nat] : m \in Nat}
Fields == {"size", "writes", "iltPos", "iatPos", "namePos", "names", "ilts", "iats", "slots"}

(* The section when the names of nd DLLs and the lists of td are in it.    *)
NamesIn(x, D, rva, idt, list, f, nd) ==
  /\ x.namePos = NameAt(idt, list, f, nd + 1)
  /\ x.names \in Seq(Nat) /\ Len(x.names) = nd
  /\ \A d \in 1..nd : /\ x.names[d] = rva + NameAt(idt, list, f, d)
                      /\ WriteOf("name", d, 1, NameAt(idt, list, f, d), D[d].name) \in x.writes
ListsIn(x, D, rva, idt, list, g, td) ==
  /\ x.iltPos = IltAt(idt, g, td + 1) /\ x.iatPos = IatAt(idt, list, g, td + 1)
  /\ x.ilts \in Seq(Nat) /\ Len(x.ilts) = td /\ x.iats \in Seq(Nat) /\ Len(x.iats) = td
  /\ x.slots \in Seq(Slots) /\ Len(x.slots) = td
  /\ \A d \in 1..td :
       /\ x.ilts[d] = rva + IltAt(idt, g, d) /\ x.iats[d] = rva + IatAt(idt, list, g, d)
       /\ \A k \in 1..D[d].entries :
            /\ x.slots[d][k] = x.iats[d] + 4 * (k - 1)
            /\ WriteOf("ilt", d, k, IltAt(idt, g, d) + 4 * (k - 1), 4) \in x.writes
            /\ WriteOf("iat", d, k, IatAt(idt, list, g, d) + 4 * (k - 1), 4) \in x.writes
Tables(x, D, rva, idt, list, f, g, nd, td) ==
  /\ DOMAIN x = Fields
  /\ \A w \in x.writes : Belongs(w, D, idt, list, f, g)
  /\ NamesIn(x, D, rva, idt, list, f, nd)
  /\ ListsIn(x, D, rva, idt, list, g, td)

-----------------------------------------------------------------------------
(* A sum is extended by one DLL.                                           *)
LEMMA SumsExtend ==
  ASSUME NEW D \in Seq(Dll), NEW d \in 1..Len(D), NEW f, NEW g, Sums(D, f, g, d - 1)
  PROVE  LET f2 == [i \in 0..d |-> IF i = d THEN f[d-1] + (D[d].name + 1) ELSE f[i]]
             g2 == [i \in 0..d |-> IF i = d THEN g[d-1] + (D[d].entries + 1) ELSE g[i]]
         IN  Sums(D, f2, g2, d)
<1> DEFINE f2 == [i \in 0..d |-> IF i = d THEN f[d-1] + (D[d].name + 1) ELSE f[i]]
           g2 == [i \in 0..d |-> IF i = d THEN g[d-1] + (D[d].entries + 1) ELSE g[i]]
<1>1. d \in Nat \ {0} /\ \A i \in 1..d : D[i].name \in Nat \ {0} /\ D[i].entries \in Nat \ {0}
  <2>1. Len(D) \in Nat
    BY LenProperties
  <2>2. \A i \in 1..Len(D) : D[i] \in Dll
    BY ElementOfSeq
  <2>3. \A i \in 1..Len(D) : D[i].name \in Nat \ {0} /\ D[i].entries \in Nat \ {0}
    BY <2>2 DEF Dll
  <2>4. d \in Nat \ {0} /\ \A i \in 1..d : i \in 1..Len(D)
    BY <2>1
  <2> QED BY <2>3, <2>4
<1>2. f \in [0..(d-1) -> Nat] /\ g \in [0..(d-1) -> Nat] /\ f[0] = 0 /\ g[0] = 0
  BY DEF Sums
<1>3. f2 \in [0..d -> Nat] /\ g2 \in [0..d -> Nat] /\ f2[0] = 0 /\ g2[0] = 0
  <2>1. d \in Nat \ {0} /\ d \in 1..d /\ d - 1 \in 0..(d-1) /\ 0 \in 0..d /\ 0 # d
    BY <1>1
  <2>2. f[d-1] \in Nat /\ g[d-1] \in Nat /\ D[d].name \in Nat /\ D[d].entries \in Nat
    BY <1>1, <1>2, <2>1
  <2>3. \A i \in 0..d : i # d => i \in 0..(d-1)
    BY <2>1
  <2>4. ASSUME NEW i \in 0..d
        PROVE  f2[i] \in Nat /\ g2[i] \in Nat
    <3>1. CASE i = d
      <4>1. f2[d] = f[d-1] + (D[d].name + 1) /\ g2[d] = g[d-1] + (D[d].entries + 1)
        BY <2>1
      <4> QED BY <2>2, <3>1, <4>1, SMTT(60)
    <3>2. CASE i # d
      <4>1. f2[i] = f[i] /\ g2[i] = g[i] /\ i \in 0..(d-1)
        BY <2>3, <3>2
      <4>2. f[i] \in Nat /\ g[i] \in Nat
        BY <1>2, <4>1
      <4> QED BY <4>1, <4>2
    <3> QED BY <3>1, <3>2
  <2> QED BY <1>2, <2>1, <2>4
<1>4. /\ f2[d] = f[d-1] + (D[d].name + 1) /\ g2[d] = g[d-1] + (D[d].entries + 1)
      /\ \A i \in 0..(d-1) : f2[i] = f[i] /\ g2[i] = g[i]
  BY <1>1
<1> HIDE DEF f2, g2
<1>5. ASSUME NEW i \in 1..d
      PROVE  f2[i] = f2[i-1] + (D[i].name + 1) /\ g2[i] = g2[i-1] + (D[i].entries + 1)
  <2>1. i - 1 \in 0..(d-1) /\ (i # d => i \in 0..(d-1) /\ i \in 1..(d-1))
    BY <1>1
  <2>2. f2[i-1] = f[i-1] /\ g2[i-1] = g[i-1]
    BY <1>4, <2>1
  <2>3. CASE i = d
    BY <1>4, <2>2, <2>3
  <2>4. CASE i # d
    <3>1. f[i] = f[i-1] + (D[i].name + 1) /\ g[i] = g[i-1] + (D[i].entries + 1)
      BY <2>1, <2>4 DEF Sums
    <3> QED BY <1>4, <2>1, <2>2, <2>4, <3>1
  <2> QED BY <2>3, <2>4
<1>6. ASSUME NEW i \in 0..d, NEW j \in 0..d, i < j
      PROVE  f2[i] + (D[i+1].name + 1) <= f2[j] /\ g2[i] + (D[i+1].entries + 1) <= g2[j]
  <2>1. CASE j # d
    <3>1. i \in 0..(d-1) /\ j \in 0..(d-1)
      BY <1>1, <1>6, <2>1
    <3>2. f[i] + (D[i+1].name + 1) <= f[j] /\ g[i] + (D[i+1].entries + 1) <= g[j]
      BY <1>6, <3>1 DEF Sums
    <3> QED BY <1>4, <3>1, <3>2
  <2>2. CASE j = d /\ i = d - 1
    <3>1. i \in 0..(d-1) /\ i + 1 = d
      BY <1>1, <2>2
    <3>2. f2[i] = f[d-1] /\ g2[i] = g[d-1]
      BY <1>4, <2>2, <3>1
    <3>3. f2[i] + (D[d].name + 1) = f2[d] /\ g2[i] + (D[d].entries + 1) = g2[d]
      BY <1>4, <3>2
    <3>4. f2[d] \in Nat /\ g2[d] \in Nat
      BY <1>1, <1>3
    <3>5. f2[d] <= f2[d] /\ g2[d] <= g2[d]
      BY <3>4
    <3> QED BY <2>2, <3>1, <3>3, <3>5
  <2>3. CASE j = d /\ i # d - 1
    <3>1. i \in 0..(d-1) /\ d - 1 \in 0..(d-1) /\ i < d - 1 /\ i + 1 \in 1..d /\ d \in 1..d
      BY <1>1, <1>6, <2>3
    <3>2. f[i] + (D[i+1].name + 1) <= f[d-1] /\ g[i] + (D[i+1].entries + 1) <= g[d-1]
      BY <3>1 DEF Sums
    <3>3. /\ f[i] \in Nat /\ g[i] \in Nat /\ f[d-1] \in Nat /\ g[d-1] \in Nat
          /\ D[i+1].name \in Nat /\ D[i+1].entries \in Nat /\ D[d].name \in Nat /\ D[d].entries \in Nat
      BY <1>1, <1>2, <3>1
    <3>4. f2[i] = f[i] /\ g2[i] = g[i]
      BY <1>4, <3>1
    <3>5. \A a, b, c, e \in Nat : a + (b + 1) <= c => a + (b + 1) <= c + (e + 1)
      OBVIOUS
    <3>6. /\ f[i] + (D[i+1].name + 1) <= f[d-1] + (D[d].name + 1)
          /\ g[i] + (D[i+1].entries + 1) <= g[d-1] + (D[d].entries + 1)
      BY <3>2, <3>3, <3>5
    <3> QED BY <1>4, <2>3, <3>4, <3>6
  <2> QED BY <2>1, <2>2, <2>3
<1> QED BY <1>3, <1>5, <1>6 DEF Sums, f2, g2

(* The sums as the tables need them.                                       *)
LEMMA SumsOf ==
  ASSUME NEW D \in Seq(Dll), NEW f, NEW g, Sums(D, f, g, Len(D))
  PROVE  /\ Len(D) \in Nat /\ f[Len(D)] \in Nat /\ g[Len(D)] \in Nat
         /\ \A d \in 1..Len(D) :
              /\ D[d].name \in Nat \ {0} /\ D[d].entries \in Nat \ {0}
              /\ f[d-1] \in Nat /\ g[d-1] \in Nat /\ f[d] \in Nat /\ g[d] \in Nat
              /\ f[d] = f[d-1] + (D[d].name + 1) /\ g[d] = g[d-1] + (D[d].entries + 1)
              /\ f[d-1] + (D[d].name + 1) <= f[Len(D)] /\ g[d-1] + (D[d].entries + 1) <= g[Len(D)]
         /\ \A d, e \in 1..Len(D) : d < e => /\ f[d-1] + (D[d].name + 1) <= f[e-1]
                                             /\ g[d-1] + (D[d].entries + 1) <= g[e-1]
<1>1. Len(D) \in Nat
  BY LenProperties
<1>2. \A d \in 1..Len(D) : D[d] \in Dll
  BY ElementOfSeq
<1>3. \A d \in 1..Len(D) : D[d].name \in Nat \ {0} /\ D[d].entries \in Nat \ {0}
  BY <1>2 DEF Dll
<1>4. \A d \in 0..Len(D) : f[d] \in Nat /\ g[d] \in Nat
  BY DEF Sums
<1>5. ASSUME NEW d \in 1..Len(D)
      PROVE  /\ d - 1 \in 0..Len(D) /\ d \in 0..Len(D) /\ Len(D) \in 0..Len(D)
             /\ d - 1 < Len(D) /\ (d - 1) + 1 = d
  BY <1>1
<1>6. ASSUME NEW d \in 1..Len(D)
      PROVE  /\ f[d] = f[d-1] + (D[d].name + 1) /\ g[d] = g[d-1] + (D[d].entries + 1)
             /\ f[d-1] + (D[d].name + 1) <= f[Len(D)] /\ g[d-1] + (D[d].entries + 1) <= g[Len(D)]
  BY <1>5 DEF Sums
<1>7. ASSUME NEW d \in 1..Len(D), NEW e \in 1..Len(D), d < e
      PROVE  f[d-1] + (D[d].name + 1) <= f[e-1] /\ g[d-1] + (D[d].entries + 1) <= g[e-1]
  <2>1. d - 1 < e - 1
    BY <1>1, <1>7
  <2> QED BY <2>1, <1>5 DEF Sums
<1> QED BY <1>1, <1>3, <1>4, <1>5, <1>6, <1>7

(* The arithmetic of the three regions: list is the size of a group of     *)
(* lists, and a list of e entries, at 4 * b in it, ends in an empty word.  *)
LEMMA NameFits ==
  ASSUME NEW m \in Nat, NEW a \in Nat, NEW l \in Nat, NEW last \in Nat, a + (l + 1) <= last
  PROVE  /\ m + a \in Nat /\ (m + a) + l \in Nat /\ m <= m + a /\ m <= (m + a) + l
         /\ (m + a) + l <= m + last /\ ((m + a) + l) + 1 <= m + last
OBVIOUS

LEMMA WordFits ==
  ASSUME NEW p \in Nat, NEW all \in Nat, NEW b \in Nat, NEW e \in Nat, b + (e + 1) <= all,
         NEW k \in 1..(e+1)
  PROVE  LET at == (p + 4 * b) + 4 * (k - 1)
         IN  k \in Nat /\ at \in Nat /\ p <= at /\ at + 4 <= p + all * 4
OBVIOUS

LEMMA ListsFit ==
  ASSUME NEW idt \in Nat, NEW list \in Nat
  PROVE  /\ idt + list \in Nat /\ idt + 2 * list \in Nat /\ (idt + list) + list = idt + 2 * list
         /\ idt <= idt + list /\ idt + list <= idt + 2 * list
OBVIOUS

LEMMA Shifted ==
  ASSUME NEW rva \in Nat, NEW idt \in Nat, NEW list \in Nat
  PROVE  /\ rva + idt + list = rva + (idt + list)
         /\ rva + idt + list + list = rva + ((idt + list) + list)
OBVIOUS

LEMMA Products == \A n \in Nat : (n + 1) * 20 \in Nat /\ n * 4 \in Nat
OBVIOUS

LEMMA WordsBehind ==
  ASSUME NEW p \in Nat, NEW b \in Nat, NEW b2 \in Nat, NEW e \in Nat, b + (e + 1) <= b2,
         NEW h \in 1..(e+1), NEW k \in Nat \ {0}
  PROVE  ((p + 4 * b) + 4 * (h - 1)) + 4 <= (p + 4 * b2) + 4 * (k - 1)
OBVIOUS

LEMMA Chain ==
  ASSUME NEW p \in Nat, NEW u \in Nat, NEW m \in Nat, NEW q \in Nat, p + 4 <= m, u = 4, m <= q
  PROVE  p + u <= q
OBVIOUS

(* Where a place lies.                                                     *)
LEMMA Extents ==
  ASSUME NEW D \in Seq(Dll), NEW f, NEW g, Sums(D, f, g, Len(D)),
         NEW idt, idt = (Len(D) + 1) * 20, NEW list, list = g[Len(D)] * 4,
         NEW w, Place(w, D, idt, list, f, g)
  PROVE  /\ w.at \in Nat /\ w.size \in Nat /\ w.dll \in 1..(Len(D) + 1) /\ w.entry \in Nat
         /\ idt \in Nat /\ list \in Nat
         /\ w.what \in {"name", "ilt", "iat", "descriptor"}
         /\ w.what = "name" => /\ idt + 2 * list <= w.at
                               /\ w.at + w.size <= (idt + 2 * list) + f[Len(D)]
         /\ w.what = "ilt" => idt <= w.at /\ w.at + 4 <= idt + list /\ w.size = 4
         /\ w.what = "iat" => idt + list <= w.at /\ w.at + 4 <= idt + 2 * list /\ w.size = 4
         /\ w.what = "descriptor" => w.at + 20 <= idt /\ w.size = 20
<1>1. PICK n, last, all : n = Len(D) /\ last = f[n] /\ all = g[n]
  OBVIOUS
<1>2. n \in Nat /\ last \in Nat /\ all \in Nat
  BY <1>1, SumsOf
<1>3. idt = (n + 1) * 20 /\ list = all * 4
  BY <1>1
<1>4. idt \in Nat /\ list \in Nat
  BY <1>2, <1>3
<1>5. CASE w.what = "descriptor"
  <2>1. w.entry = 1 /\ w.dll \in 1..(n+1) /\ w.at = (w.dll - 1) * 20 /\ w.size = 20
    BY <1>1, <1>5 DEF Place
  <2>2. w.at \in Nat /\ w.at + 20 <= idt
    BY <1>2, <1>3, <2>1
  <2> QED BY <1>1, <1>4, <1>5, <2>1, <2>2
<1>6. CASE w.what \in {"name", "ilt", "iat"}
  <2>1. PICK d, a, b, e, l :
          d = w.dll /\ a = f[d-1] /\ b = g[d-1] /\ e = D[d].entries /\ l = D[d].name
    OBVIOUS
  <2>2. d \in 1..n /\ w.dll \in 1..(n+1)
    BY <1>1, <1>2, <1>6, <2>1, SMTT(60) DEF Place
  <2>3. /\ a \in Nat /\ b \in Nat /\ l \in Nat \ {0} /\ e \in Nat \ {0}
        /\ a + (l + 1) <= last /\ b + (e + 1) <= all
    BY <1>1, <2>1, <2>2, SumsOf
  <2>4. CASE w.what = "name"
    <3>1. PICK m \in Nat : m = idt + 2 * list
      BY <1>4, ListsFit
    <3>2. \/ w.entry = 1 /\ w.at = m + a /\ w.size = l
          \/ w.entry = 2 /\ w.at = (m + a) + l /\ w.size = 1
      BY <2>1, <2>4, <3>1 DEF Place, NameAt
    <3>3. /\ m + a \in Nat /\ (m + a) + l \in Nat /\ m <= m + a /\ m <= (m + a) + l
          /\ (m + a) + l <= m + last /\ ((m + a) + l) + 1 <= m + last
      BY <1>2, <2>3, NameFits
    <3>4. /\ w.at \in Nat /\ w.size \in Nat /\ w.entry \in Nat
          /\ m <= w.at /\ w.at + w.size <= m + last
      BY <2>3, <3>2, <3>3
    <3> QED BY <1>1, <1>4, <2>2, <2>4, <3>1, <3>4
  <2>5. CASE w.what = "ilt"
    <3>1. w.entry \in 1..(e+1) /\ w.at = (idt + 4 * b) + 4 * (w.entry - 1) /\ w.size = 4
      BY <2>1, <2>5 DEF Place, IltAt
    <3>2. PICK k \in 1..(e+1) : k = w.entry
      BY <3>1
    <3>3. LET at == (idt + 4 * b) + 4 * (k - 1)
          IN  k \in Nat /\ at \in Nat /\ idt <= at /\ at + 4 <= idt + all * 4
      BY <1>2, <1>4, <2>3, WordFits
    <3>4. w.at \in Nat /\ idt <= w.at /\ w.at + 4 <= idt + list /\ w.entry \in Nat
      BY <1>3, <3>1, <3>2, <3>3
    <3> QED BY <1>1, <1>4, <2>2, <2>5, <3>1, <3>4
  <2>6. CASE w.what = "iat"
    <3>1. w.entry \in 1..(e+1) /\ w.at = ((idt + list) + 4 * b) + 4 * (w.entry - 1) /\ w.size = 4
      BY <2>1, <2>6 DEF Place, IatAt
    <3>2. idt + list \in Nat /\ (idt + list) + list = idt + 2 * list
      BY <1>4, ListsFit
    <3>3. PICK k \in 1..(e+1), p \in Nat : k = w.entry /\ p = idt + list
      BY <3>1, <3>2
    <3>4. LET at == (p + 4 * b) + 4 * (k - 1)
          IN  k \in Nat /\ at \in Nat /\ p <= at /\ at + 4 <= p + all * 4
      BY <1>2, <2>3, WordFits
    <3>5. w.at \in Nat /\ idt + list <= w.at /\ w.at + 4 <= (idt + list) + list /\ w.entry \in Nat
      BY <1>3, <3>1, <3>3, <3>4
    <3> QED BY <1>1, <1>4, <2>2, <2>6, <3>1, <3>2, <3>5
  <2> QED BY <1>6, <2>4, <2>5, <2>6
<1>7. w.what \in {"name", "ilt", "iat", "descriptor"}
  BY DEF Place
<1> QED BY <1>5, <1>6, <1>7

(* Two different places do not overlap.                                    *)
LEMMA PlacesApart ==
  ASSUME NEW D \in Seq(Dll), NEW f, NEW g, Sums(D, f, g, Len(D)),
         NEW idt, idt = (Len(D) + 1) * 20, NEW list, list = g[Len(D)] * 4,
         NEW v, Place(v, D, idt, list, f, g), NEW w, Place(w, D, idt, list, f, g), v # w
  PROVE  ~Overlap(v, w)
<1>1. PICK n : n = Len(D) /\ n \in Nat
  BY SumsOf
<1>2. idt = (n + 1) * 20 /\ \A x : Place(x, D, idt, list, f, g) =>
        /\ x.at \in Nat /\ x.size \in Nat /\ x.dll \in 1..(n+1) /\ x.entry \in Nat
        /\ idt \in Nat /\ list \in Nat
  BY <1>1, Extents
<1>3. ASSUME NEW x, NEW y, Place(x, D, idt, list, f, g), Place(y, D, idt, list, f, g),
             \/ x.what = "descriptor" /\ y.what # "descriptor"
             \/ x.what = "ilt" /\ y.what \in {"iat", "name"}
             \/ x.what = "iat" /\ y.what = "name"
      PROVE  x.at + x.size <= y.at
  <2>1. PICK p, q, u : p = x.at /\ q = y.at /\ u = x.size /\ p \in Nat /\ q \in Nat /\ u \in Nat
    BY <1>2, <1>3
  <2>2. /\ idt \in Nat /\ list \in Nat /\ y.what \in {"name", "ilt", "iat", "descriptor"}
        /\ x.what = "ilt" => p + 4 <= idt + list /\ u = 4
        /\ x.what = "iat" => p + 4 <= idt + 2 * list /\ u = 4
        /\ x.what = "descriptor" => p + 20 <= idt /\ u = 20
    BY <1>1, <1>3, <2>1, Extents, SMTT(60)
  <2>3. /\ y.what = "name" => idt + 2 * list <= q
        /\ y.what = "ilt" => idt <= q
        /\ y.what = "iat" => idt + list <= q
    BY <1>3, <2>1, Extents
  <2>4. CASE x.what = "descriptor" /\ y.what # "descriptor"
    <3>1. idt <= q
      BY <2>1, <2>2, <2>3, <2>4, SMTT(60)
    <3>2. p + u <= q
      BY <1>1, <1>2, <2>1, <2>2, <2>4, <3>1
    <3> QED BY <2>1, <3>2
  <2>5. CASE x.what = "ilt" /\ y.what \in {"iat", "name"}
    <3>1. idt + list <= idt + 2 * list /\ idt + list \in Nat /\ idt + 2 * list \in Nat
      BY <2>2, ListsFit
    <3>2. idt + list <= q
      BY <2>1, <2>3, <2>5, <3>1, SMTT(60)
    <3>3. p + u <= q
      BY <2>1, <2>2, <2>5, <3>1, <3>2, Chain, SMTT(60)
    <3> QED BY <2>1, <3>3
  <2>6. CASE x.what = "iat" /\ y.what = "name"
    <3>1. idt + 2 * list <= q /\ idt + 2 * list \in Nat
      BY <2>2, <2>3, <2>6
    <3>2. p + u <= q
      BY <2>1, <2>2, <2>6, <3>1, Chain
    <3> QED BY <2>1, <3>2
  <2> QED BY <1>3, <2>4, <2>5, <2>6
<1>4. ASSUME NEW x, NEW y, Place(x, D, idt, list, f, g), Place(y, D, idt, list, f, g),
             x.what = y.what, x.dll < y.dll
      PROVE  x.at + x.size <= y.at
  <2>1. PICK a, a2, b, b2, e, e2, l :
          /\ a = f[x.dll - 1] /\ a2 = f[y.dll - 1] /\ b = g[x.dll - 1] /\ b2 = g[y.dll - 1]
          /\ e = D[x.dll].entries /\ l = D[x.dll].name /\ e2 = D[y.dll].entries
    OBVIOUS
  <2>2. idt \in Nat /\ list \in Nat
    BY <1>2, <1>4
  <2>3. CASE x.what = "descriptor"
    <3>1. /\ x.at = (x.dll - 1) * 20 /\ x.size = 20 /\ y.at = (y.dll - 1) * 20
          /\ x.dll \in 1..(n+1) /\ y.dll \in 1..(n+1)
      BY <1>1, <1>4, <2>3 DEF Place
    <3>2. (x.dll - 1) * 20 + 20 <= (y.dll - 1) * 20
      BY <1>1, <1>4, <3>1
    <3> QED BY <3>1, <3>2
  <2>4. ASSUME x.what # "descriptor"
        PROVE  /\ x.dll \in 1..n /\ y.dll \in 1..n
               /\ a \in Nat /\ b \in Nat /\ a2 \in Nat /\ b2 \in Nat
               /\ e \in Nat /\ l \in Nat /\ e2 \in Nat
               /\ a + (l + 1) <= a2 /\ b + (e + 1) <= b2
    <3>1. x.dll \in 1..n /\ y.dll \in 1..n
      BY <1>1, <1>4, <2>4 DEF Place
    <3> QED BY <1>1, <1>4, <2>1, <3>1, SumsOf
  <2>5. CASE x.what = "name"
    <3>1. PICK m, l2 : m \in Nat /\ m = idt + 2 * list /\ l2 = D[y.dll].name
      BY <2>2, ListsFit
    <3>2. /\ \/ x.at = m + a /\ x.size = l
             \/ x.at = (m + a) + l /\ x.size = 1
          /\ \/ y.at = m + a2
             \/ y.at = (m + a2) + l2
      BY <1>4, <2>1, <2>5, <3>1 DEF Place, NameAt
    <3>3. l2 \in Nat
      BY <1>1, <2>4, <2>5, <3>1, SumsOf
    <3>4. /\ m \in Nat /\ a \in Nat /\ a2 \in Nat /\ l \in Nat /\ a + (l + 1) <= a2
      BY <2>4, <2>5, <3>1
    <3>5. /\ (m + a) + l <= m + a2 /\ ((m + a) + l) + 1 <= m + a2
          /\ (m + a) + l <= (m + a2) + l2 /\ ((m + a) + l) + 1 <= (m + a2) + l2
      BY <3>3, <3>4
    <3> QED BY <3>2, <3>5
  <2>6. ASSUME NEW p \in Nat, NEW h \in 1..(e+1), NEW k \in 1..(e2+1), x.what # "descriptor"
        PROVE  ((p + 4 * b) + 4 * (h - 1)) + 4 <= (p + 4 * b2) + 4 * (k - 1)
    <3>1. k \in Nat \ {0}
      BY <2>4, <2>6
    <3> QED BY <2>4, <2>6, <3>1, WordsBehind
  <2>7. CASE x.what = "ilt"
    <3>1. /\ x.at = (idt + 4 * b) + 4 * (x.entry - 1) /\ x.size = 4 /\ x.entry \in 1..(e+1)
          /\ y.at = (idt + 4 * b2) + 4 * (y.entry - 1) /\ y.entry \in 1..(e2+1)
      BY <1>4, <2>1, <2>7 DEF Place, IltAt
    <3> QED BY <2>2, <2>6, <2>7, <3>1
  <2>8. CASE x.what = "iat"
    <3>1. /\ x.at = ((idt + list) + 4 * b) + 4 * (x.entry - 1) /\ x.size = 4 /\ x.entry \in 1..(e+1)
          /\ y.at = ((idt + list) + 4 * b2) + 4 * (y.entry - 1) /\ y.entry \in 1..(e2+1)
      BY <1>4, <2>1, <2>8 DEF Place, IatAt
    <3>2. idt + list \in Nat
      BY <2>2
    <3> QED BY <2>6, <2>8, <3>1, <3>2
  <2> QED BY <1>4, <2>3, <2>5, <2>7, <2>8 DEF Place
<1>5. ASSUME v.what = w.what, v.dll = w.dll, v.entry # w.entry
      PROVE  v.at + v.size <= w.at \/ w.at + w.size <= v.at
  <2>1. CASE v.what = "name"
    <3>1. PICK t, l : t = NameAt(idt, list, f, v.dll) /\ l = D[v.dll].name
      OBVIOUS
    <3>2. \/ v.at = t /\ v.size = l /\ w.at = t + l
          \/ w.at = t /\ w.size = l /\ v.at = t + l
      <4>1. \/ v.entry = 1 /\ v.at = t /\ v.size = l
            \/ v.entry = 2 /\ v.at = t + l
        BY <2>1, <3>1 DEF Place
      <4>2. \/ w.entry = 1 /\ w.at = t /\ w.size = l
            \/ w.entry = 2 /\ w.at = t + l
        <5>1. w.what = "name" /\ NameAt(idt, list, f, w.dll) = t /\ D[w.dll].name = l
          BY <1>5, <2>1, <3>1
        <5> QED BY <5>1 DEF Place
      <4>3. (v.entry = 1 /\ w.entry = 2) \/ (v.entry = 2 /\ w.entry = 1)
        BY <1>5, <4>1, <4>2
      <4> QED BY <4>1, <4>2, <4>3
    <3>3. t \in Nat /\ l \in Nat
      <4>1. v.dll \in 1..n /\ idt \in Nat /\ list \in Nat
        BY <1>1, <1>2, <2>1 DEF Place
      <4>2. l \in Nat /\ f[v.dll - 1] \in Nat
        BY <1>1, <3>1, <4>1, SumsOf
      <4>3. PICK m \in Nat : m = idt + 2 * list
        BY <4>1, ListsFit
      <4> QED BY <3>1, <4>2, <4>3, SMTT(60) DEF NameAt
    <3>4. t + l <= t + l
      BY <3>3
    <3> QED BY <3>2, <3>4
  <2>2. CASE v.what \in {"ilt", "iat"}
    <3>1. v.dll \in 1..n /\ idt \in Nat /\ list \in Nat
      BY <1>1, <1>2, <2>2 DEF Place
    <3>2. PICK b : b = g[v.dll - 1] /\ b \in Nat
      BY <1>1, <3>1, SumsOf
    <3>3. idt + 4 * b \in Nat /\ (idt + list) + 4 * b \in Nat
      <4>1. idt + list \in Nat /\ \A u, x \in Nat : u + 4 * x \in Nat
        BY <3>1, ListsFit
      <4> QED BY <3>1, <3>2, <4>1
    <3>4. PICK p \in Nat : /\ v.at = p + 4 * (v.entry - 1) /\ w.at = p + 4 * (w.entry - 1)
                           /\ v.size = 4 /\ w.size = 4
      <4>1. CASE v.what = "ilt"
        BY <1>5, <3>2, <3>3, <4>1 DEF Place, IltAt
      <4>2. CASE v.what = "iat"
        BY <1>5, <3>2, <3>3, <4>2 DEF Place, IatAt
      <4> QED BY <2>2, <4>1, <4>2
    <3>5. v.entry \in Nat /\ w.entry \in Nat
      BY <1>2
    <3> QED BY <1>5, <3>4, <3>5
  <2>3. v.what \in {"name", "ilt", "iat"}
    BY <1>5 DEF Place
  <2> QED BY <2>1, <2>2, <2>3
<1>6. ~(v.what = w.what /\ v.dll = w.dll /\ v.entry = w.entry)
  <2> SUFFICES ASSUME v.what = w.what, v.dll = w.dll, v.entry = w.entry
               PROVE  v = w
    OBVIOUS
  <2>1. v.at = w.at /\ v.size = w.size
    BY DEF Place
  <2> QED BY <2>1 DEF Place
<1>7. v.at + v.size <= w.at \/ w.at + w.size <= v.at
  <2>1. CASE v.what # w.what
    <3>1. v.what \in {"name", "ilt", "iat", "descriptor"} /\ w.what \in {"name", "ilt", "iat", "descriptor"}
      BY DEF Place
    <3> QED BY <1>3, <2>1, <3>1
  <2>2. CASE v.what = w.what /\ v.dll # w.dll
    <3>1. v.dll < w.dll \/ w.dll < v.dll
      BY <1>1, <1>2, <2>2
    <3> QED BY <1>4, <2>2, <3>1
  <2> QED BY <1>5, <1>6, <2>1, <2>2
<1>8. v.at \in Nat /\ v.size \in Nat /\ w.at \in Nat /\ w.size \in Nat
  BY <1>2
<1> QED BY <1>7, <1>8 DEF Overlap

(* Nothing is written over the end of a list.                              *)
LEMMA EndsUntouched ==
  ASSUME NEW D \in Seq(Dll), NEW f, NEW g, Sums(D, f, g, Len(D)),
         NEW idt, idt = (Len(D) + 1) * 20, NEW list, list = g[Len(D)] * 4,
         NEW writes, \A w \in writes : Belongs(w, D, idt, list, f, g),
         NEW z, Place(z, D, idt, list, f, g), Ends(z, D)
  PROVE  Untouched(z.at, z.size, writes)
<1> SUFFICES ASSUME NEW w \in writes
             PROVE  ~Overlap([at |-> z.at, size |-> z.size], w)
  BY DEF Untouched
<1>1. Place(w, D, idt, list, f, g) /\ z # w
  BY DEF Belongs
<1>2. ~Overlap(z, w)
  BY <1>1, PlacesApart
<1> QED BY <1>2 DEF Overlap

(* One list of a DLL, at at, in the region that begins at base.            *)
LEMMA ListEnds ==
  ASSUME NEW D \in Seq(Dll), NEW f, NEW g, Sums(D, f, g, Len(D)),
         NEW idt, idt = (Len(D) + 1) * 20, NEW list, list = g[Len(D)] * 4,
         NEW writes, \A w \in writes : Belongs(w, D, idt, list, f, g),
         NEW d \in 1..Len(D), NEW what, NEW at,
         \/ what = "ilt" /\ at = IltAt(idt, g, d)
         \/ what = "iat" /\ at = IatAt(idt, list, g, d)
  PROVE  /\ at \in Nat /\ Untouched(at + 4 * D[d].entries, 4, writes)
         /\ at + 4 * D[d].entries + 4 <= idt + 2 * list
         /\ what = "iat" => idt + list <= at
<1> DEFINE e == D[d].entries
           z == WriteOf(what, d, e + 1, at + 4 * e, 4)
<1>1. e \in Nat \ {0} /\ g[d-1] \in Nat
  BY SumsOf
<1>2. z.what = what /\ z.dll = d /\ z.entry = e + 1 /\ z.at = at + 4 * e /\ z.size = 4
      /\ z = WriteOf(z.what, z.dll, z.entry, z.at, z.size)
  BY DEF WriteOf
<1> HIDE DEF z
<1>3. z.entry \in 1..(D[z.dll].entries + 1) /\ 4 * (z.entry - 1) = 4 * e /\ z.dll \in 1..Len(D)
  BY <1>1, <1>2
<1>4. Place(z, D, idt, list, f, g) /\ Ends(z, D)
  <2>1. CASE what = "ilt"
    BY <1>2, <1>3, <2>1 DEF Place, Ends
  <2>2. CASE what = "iat"
    BY <1>2, <1>3, <2>2 DEF Place, Ends
  <2> QED BY <2>1, <2>2
<1>5. Untouched(at + 4 * e, 4, writes)
  BY <1>2, <1>4, EndsUntouched
<1>6. /\ z.at \in Nat /\ idt \in Nat /\ list \in Nat
      /\ what = "ilt" => z.at + 4 <= idt + list
      /\ what = "iat" => z.at + 4 <= idt + 2 * list
  BY <1>2, <1>4, Extents, SMTT(60)
<1>7. at \in Nat /\ (what = "iat" => idt + list <= at)
  <2>1. idt + list \in Nat /\ \A u, x \in Nat : u + 4 * x \in Nat /\ u <= u + 4 * x
    BY <1>6, ListsFit
  <2>2. PICK b \in Nat : b = g[d-1]
    BY <1>1
  <2>3. (what = "ilt" /\ at = idt + 4 * b) \/ (what = "iat" /\ at = (idt + list) + 4 * b)
    BY <2>2 DEF IltAt, IatAt
  <2>4. CASE what = "ilt" /\ at = idt + 4 * b
    BY <1>6, <2>1, <2>2, <2>4
  <2>5. CASE what = "iat" /\ at = (idt + list) + 4 * b
    BY <2>1, <2>2, <2>5
  <2> QED BY <2>3, <2>4, <2>5
<1>8. at + 4 * e + 4 <= idt + 2 * list
  <2>1. idt + list <= idt + 2 * list /\ idt + list \in Nat /\ idt + 2 * list \in Nat
    BY <1>6, ListsFit
  <2>2. z.at + 4 <= idt + 2 * list
    <3>1. PICK p, k, m : p = z.at /\ k = idt + list /\ m = idt + 2 * list
      OBVIOUS
    <3>2. p \in Nat /\ k \in Nat /\ m \in Nat /\ k <= m /\ (p + 4 <= k \/ p + 4 <= m)
      BY <1>6, <2>1, <3>1
    <3>3. p + 4 <= m
      BY <3>2
    <3> QED BY <3>1, <3>3
  <2> QED BY <1>2, <2>2
<1> QED BY <1>5, <1>7, <1>8

(* The name of a DLL.                                                      *)
LEMMA NameEnds ==
  ASSUME NEW D \in Seq(Dll), NEW f, NEW g, Sums(D, f, g, Len(D)),
         NEW idt, idt = (Len(D) + 1) * 20, NEW list, list = g[Len(D)] * 4,
         NEW writes, \A w \in writes : Belongs(w, D, idt, list, f, g),
         NEW d \in 1..Len(D), NEW at, at = NameAt(idt, list, f, d)
  PROVE  /\ at \in Nat /\ Untouched(at + D[d].name, 1, writes)
         /\ (at + D[d].name) + 1 <= (idt + 2 * list) + f[Len(D)]
<1> DEFINE l == D[d].name
           z == WriteOf("name", d, 2, at + l, 1)
<1>1. z.what = "name" /\ z.dll = d /\ z.entry = 2 /\ z.at = at + l /\ z.size = 1
      /\ z = WriteOf(z.what, z.dll, z.entry, z.at, z.size)
  BY DEF WriteOf
<1> HIDE DEF z
<1>2. Place(z, D, idt, list, f, g) /\ Ends(z, D)
  BY <1>1 DEF Place, Ends
<1>3. Untouched(at + l, 1, writes)
  BY <1>1, <1>2, EndsUntouched
<1>4. /\ idt \in Nat /\ list \in Nat /\ z.at + 1 <= (idt + 2 * list) + f[Len(D)]
  BY <1>1, <1>2, Extents
<1>5. at \in Nat
  <2>1. PICK m \in Nat, a \in Nat : m = idt + 2 * list /\ a = f[d-1]
    BY <1>4, SumsOf, ListsFit
  <2> QED BY <2>1 DEF NameAt
<1> QED BY <1>1, <1>3, <1>4, <1>5

(* The directory.                                                          *)
LEMMA DirectoryEnds ==
  ASSUME NEW D \in Seq(Dll), NEW f, NEW g, Sums(D, f, g, Len(D)),
         NEW idt, idt = (Len(D) + 1) * 20, NEW list, list = g[Len(D)] * 4,
         NEW writes, \A w \in writes : Belongs(w, D, idt, list, f, g)
  PROVE  Untouched(20 * Len(D), 20, writes)
<1>1. PICK n : n = Len(D) /\ n \in Nat
  BY SumsOf
<1> DEFINE z == WriteOf("descriptor", n + 1, 1, n * 20, 20)
<1>2. z.what = "descriptor" /\ z.dll = n + 1 /\ z.entry = 1 /\ z.at = n * 20 /\ z.size = 20
      /\ z = WriteOf(z.what, z.dll, z.entry, z.at, z.size)
  BY DEF WriteOf
<1> HIDE DEF z
<1>3. n + 1 \in 1..(n + 1) /\ (n + 1) - 1 = n /\ n * 20 = 20 * n
  BY <1>1
<1>4. Place(z, D, idt, list, f, g) /\ Ends(z, D)
  BY <1>1, <1>2, <1>3 DEF Place, Ends
<1> QED BY <1>1, <1>2, <1>3, <1>4, EndsUntouched

(* What is written lies in the section, and apart.                         *)
LEMMA WritesApart ==
  ASSUME NEW D \in Seq(Dll), NEW f, NEW g, Sums(D, f, g, Len(D)),
         NEW idt, idt = (Len(D) + 1) * 20, NEW list, list = g[Len(D)] * 4,
         NEW writes, \A w \in writes : Belongs(w, D, idt, list, f, g),
         NEW size \in Nat, (idt + 2 * list) + f[Len(D)] <= size
  PROVE  /\ \A w \in writes : Within(w, 0, size)
         /\ \A v, w \in writes : v # w => ~Overlap(v, w)
<1>1. ASSUME NEW v \in writes, NEW w \in writes, v # w
      PROVE  ~Overlap(v, w)
  BY <1>1, PlacesApart DEF Belongs
<1>2. ASSUME NEW w \in writes
      PROVE  Within(w, 0, size)
  <2>1. Place(w, D, idt, list, f, g)
    BY DEF Belongs
  <2>2. w.at \in Nat /\ w.size \in Nat /\ idt \in Nat /\ list \in Nat
        /\ w.what \in {"name", "ilt", "iat", "descriptor"}
    BY <2>1, Extents
  <2>3. PICK m, k, r, last, p, u : /\ m = idt + 2 * list /\ k = idt + list /\ r = idt /\ last = f[Len(D)]
                                   /\ p = w.at /\ u = w.size
    OBVIOUS
  <2>4. /\ w.what = "name" => w.at + w.size <= (idt + 2 * list) + f[Len(D)]
        /\ w.what = "ilt" => w.at + 4 <= idt + list /\ w.size = 4
        /\ w.what = "iat" => w.at + 4 <= idt + 2 * list /\ w.size = 4
        /\ w.what = "descriptor" => w.at + 20 <= idt /\ w.size = 20
    BY <2>1, Extents, SMTT(60)
  <2>5. p + u <= m + last \/ p + u <= k \/ p + u <= m \/ p + u <= r
    BY <2>2, <2>3, <2>4
  <2>6. /\ r <= k /\ k <= m /\ r \in Nat /\ k \in Nat /\ m \in Nat
        /\ m + last <= size /\ last \in Nat /\ p \in Nat /\ u \in Nat
    BY <2>2, <2>3, ListsFit, SumsOf
  <2>7. p + u <= size
    BY <2>5, <2>6
  <2> QED BY <2>2, <2>3, <2>7 DEF Within
<1> QED BY <1>1, <1>2

(* The four loops are through.                                             *)
ListAt(what, d, k, at, writes) ==
  /\ \A h \in 1..k : WriteOf(what, d, h, at + 4 * (h - 1), 4) \in writes
  /\ Untouched(at + 4 * k, 4, writes)

DllLinked(D, d, rva, idt, list, x, size) ==
  /\ WriteOf("name", d, 1, x.names[d] - rva, D[d].name) \in x.writes
  /\ Untouched(x.names[d] - rva + D[d].name, 1, x.writes)
  /\ x.names[d] - rva + D[d].name < size
  /\ ListAt("ilt", d, D[d].entries, x.ilts[d] - rva, x.writes)
  /\ x.ilts[d] - rva + 4 * D[d].entries + 4 <= size
  /\ ListAt("iat", d, D[d].entries, x.iats[d] - rva, x.writes)
  /\ x.iats[d] - rva + 4 * D[d].entries + 4 <= size
  /\ \A k \in 1..D[d].entries :
       /\ x.slots[d][k] = x.iats[d] + 4 * (k - 1)
       /\ Within([at |-> x.slots[d][k], size |-> 4], rva + idt + list, rva + idt + list + list)

LEMMA TablesMean ==
  ASSUME NEW D \in Seq(Dll), NEW f, NEW g, Sums(D, f, g, Len(D)),
         NEW idt, idt = (Len(D) + 1) * 20, NEW list, list = g[Len(D)] * 4,
         NEW rva \in Nat, NEW x, Tables(x, D, rva, idt, list, f, g, Len(D), Len(D)),
         NEW size \in Nat, (idt + 2 * list) + f[Len(D)] <= size,
         NEW d \in 1..Len(D)
  PROVE  DllLinked(D, d, rva, idt, list, x, size)
<1>1. PICK p, q, r : p = NameAt(idt, list, f, d) /\ q = IltAt(idt, g, d) /\ r = IatAt(idt, list, g, d)
  OBVIOUS
<1>2. PICK m, k, last, e, l : /\ m = idt + 2 * list /\ k = idt + list /\ last = f[Len(D)]
                              /\ e = D[d].entries /\ l = D[d].name
  OBVIOUS
<1>3. \A w \in x.writes : Belongs(w, D, idt, list, f, g)
  BY DEF Tables
<1>4. /\ p \in Nat /\ Untouched(p + l, 1, x.writes) /\ (p + l) + 1 <= m + last
  BY <1>1, <1>2, <1>3, NameEnds
<1>5. /\ q \in Nat /\ Untouched(q + 4 * e, 4, x.writes) /\ q + 4 * e + 4 <= m
  BY <1>1, <1>2, <1>3, ListEnds
<1>6. /\ r \in Nat /\ Untouched(r + 4 * e, 4, x.writes) /\ r + 4 * e + 4 <= m /\ k <= r
  BY <1>1, <1>2, <1>3, ListEnds
<1>7. idt \in Nat /\ list \in Nat /\ e \in Nat \ {0} /\ l \in Nat \ {0} /\ last \in Nat
  <2>1. Len(D) \in Nat /\ g[Len(D)] \in Nat /\ f[Len(D)] \in Nat /\ e \in Nat \ {0} /\ l \in Nat \ {0}
    BY <1>2, SumsOf
  <2>2. PICK n \in Nat, t \in Nat : n = Len(D) /\ t = g[Len(D)]
    BY <2>1
  <2>3. (n + 1) * 20 \in Nat /\ t * 4 \in Nat
    BY Products
  <2>4. idt = (n + 1) * 20 /\ list = t * 4
    BY <2>2
  <2>5. idt \in Nat /\ list \in Nat
    BY <2>3, <2>4
  <2> QED BY <1>2, <2>1, <2>5
<1>8. m \in Nat /\ k \in Nat /\ k + list = m
  BY <1>2, <1>7, ListsFit
<1>9. m + last <= size
  BY <1>2
<1>10. x.names[d] = rva + p /\ x.ilts[d] = rva + q /\ x.iats[d] = rva + r
  BY <1>1 DEF Tables, NamesIn, ListsIn
<1>11. x.names[d] - rva = p /\ x.ilts[d] - rva = q /\ x.iats[d] - rva = r
  BY <1>4, <1>5, <1>6, <1>10, SMTT(60)
<1>12. /\ WriteOf("name", d, 1, p, l) \in x.writes
       /\ \A h \in 1..e : /\ x.slots[d][h] = x.iats[d] + 4 * (h - 1)
                           /\ WriteOf("ilt", d, h, q + 4 * (h - 1), 4) \in x.writes
                           /\ WriteOf("iat", d, h, r + 4 * (h - 1), 4) \in x.writes
  BY <1>1, <1>2 DEF Tables, NamesIn, ListsIn
<1>13. p + l < size /\ q + 4 * e + 4 <= size /\ r + 4 * e + 4 <= size
  BY <1>4, <1>5, <1>6, <1>7, <1>8, <1>9, SMTT(60)
<1>14. ASSUME NEW h \in 1..e
       PROVE  Within([at |-> x.slots[d][h], size |-> 4], rva + idt + list, rva + idt + list + list)
  <2>1. x.slots[d][h] = (rva + r) + 4 * (h - 1)
    BY <1>10, <1>12
  <2>2. rva + idt + list = rva + k /\ rva + idt + list + list = rva + m
    <3>1. /\ rva + idt + list = rva + (idt + list)
          /\ rva + idt + list + list = rva + ((idt + list) + list)
      BY <1>7, Shifted, SMTT(60)
    <3> QED BY <1>2, <1>8, <3>1
  <2>3. rva + k <= (rva + r) + 4 * (h - 1) /\ (rva + r) + 4 * (h - 1) + 4 <= rva + m
    BY <1>6, <1>7, <1>8
  <2> QED BY <2>1, <2>2, <2>3 DEF Within
<1> QED BY <1>2, <1>4, <1>5, <1>6, <1>11, <1>12, <1>13, <1>14 DEF DllLinked, ListAt

(* A sequence that holds d elements when the d-th has been added.          *)
LEMMA LastAdded ==
  ASSUME NEW S, NEW s \in Seq(S), NEW v \in S, NEW d \in Nat \ {0}, Len(s) = d - 1,
         NEW t, t = Append(s, v)
  PROVE  /\ t \in Seq(S) /\ Len(t) = d /\ t[d] = v
         /\ \A e \in 1..(d-1) : t[e] = s[e]
<1>1. (d - 1) + 1 = d
  OBVIOUS
<1>2. t \in Seq(S) /\ Len(t) = Len(s) + 1
  BY AppendProperties
<1>3. t[Len(s) + 1] = v /\ \A e \in 1..Len(s) : t[e] = s[e]
  BY AppendProperties
<1> QED BY <1>1, <1>2, <1>3

(* One step of the loop over the names.                                    *)
WithName(x, rva, d, l) ==
  [x EXCEPT !.names = Append(@, rva + x.namePos),
            !.writes = @ \cup {WriteOf("name", d, 1, x.namePos, l)}, !.namePos = @ + l + 1]

LEMMA NameAdded ==
  ASSUME NEW D \in Seq(Dll), NEW f, NEW g, Sums(D, f, g, Len(D)),
         NEW idt \in Nat, NEW list \in Nat, NEW rva \in Nat, NEW d \in 1..Len(D),
         NEW x, Tables(x, D, rva, idt, list, f, g, d - 1, 0),
         NEW y, y = WithName(x, rva, d, D[d].name)
  PROVE  Tables(y, D, rva, idt, list, f, g, d, 0) /\ y.size = x.size
<1>1. PICK p, l, a, m, w : /\ p = x.namePos /\ l = D[d].name /\ a = f[d-1] /\ m = idt + 2 * list
                           /\ w = WriteOf("name", d, 1, p, l)
  OBVIOUS
<1>2. l \in Nat \ {0} /\ a \in Nat /\ f[d] = a + (l + 1)
  BY <1>1, SumsOf
<1>3. d \in Nat \ {0} /\ d - 1 \in Nat /\ (d - 1) + 1 = d /\ (d + 1) - 1 = d
  BY SumsOf
<1>4. m \in Nat
  BY <1>1, ListsFit
<1>5. p = NameAt(idt, list, f, d) /\ p = m + a
  <2>1. p = NameAt(idt, list, f, (d - 1) + 1)
    BY <1>1 DEF Tables, NamesIn
  <2>2. p = NameAt(idt, list, f, d)
    BY <1>3, <2>1
  <2> QED BY <1>1, <2>2 DEF NameAt
<1>6. p + l + 1 = NameAt(idt, list, f, d + 1)
  <2>1. p + l + 1 = m + f[d]
    BY <1>2, <1>4, <1>5
  <2>2. NameAt(idt, list, f, d + 1) = m + f[(d + 1) - 1]
    BY <1>1 DEF NameAt
  <2> QED BY <1>3, <2>1, <2>2
<1>7. /\ y.names = Append(x.names, rva + p) /\ y.writes = x.writes \cup {w} /\ y.namePos = p + l + 1
      /\ y.size = x.size /\ y.iltPos = x.iltPos /\ y.iatPos = x.iatPos
      /\ y.ilts = x.ilts /\ y.iats = x.iats /\ y.slots = x.slots /\ DOMAIN y = Fields
  <2>1. DOMAIN x = Fields
    BY DEF Tables
  <2> QED BY <1>1, <2>1 DEF Fields, WithName
<1>8. rva + p \in Nat
  BY <1>2, <1>4, <1>5
<1>9. /\ y.names \in Seq(Nat) /\ Len(y.names) = d /\ y.names[d] = rva + p
      /\ \A e \in 1..(d-1) : y.names[e] = x.names[e]
  <2>1. x.names \in Seq(Nat) /\ Len(x.names) = d - 1
    BY DEF Tables, NamesIn
  <2> QED BY <1>3, <1>7, <1>8, <2>1, LastAdded
<1>10. NamesIn(y, D, rva, idt, list, f, d)
  <2>1. ASSUME NEW e \in 1..d
        PROVE  /\ y.names[e] = rva + NameAt(idt, list, f, e)
               /\ WriteOf("name", e, 1, NameAt(idt, list, f, e), D[e].name) \in y.writes
    <3>1. CASE e = d
      BY <1>1, <1>5, <1>7, <1>9, <3>1
    <3>2. CASE e # d
      <4>1. e \in 1..(d-1)
        BY <1>3, <3>2
      <4> QED BY <1>7, <1>9, <4>1 DEF Tables, NamesIn
    <3> QED BY <3>1, <3>2
  <2> QED BY <1>6, <1>7, <1>9, <2>1 DEF NamesIn
<1>11. ListsIn(y, D, rva, idt, list, g, 0)
  <2>1. ListsIn(x, D, rva, idt, list, g, 0)
    BY DEF Tables
  <2>2. 1..0 = {}
    OBVIOUS
  <2> QED BY <1>7, <2>1, <2>2 DEF ListsIn
<1>12. Belongs(w, D, idt, list, f, g)
  <2>1. w.what = "name" /\ w.dll = d /\ w.entry = 1 /\ w.at = p /\ w.size = l
        /\ w = WriteOf(w.what, w.dll, w.entry, w.at, w.size)
    BY <1>1 DEF WriteOf
  <2>2. Place(w, D, idt, list, f, g)
    BY <1>1, <1>5, <2>1 DEF Place
  <2>3. ~Ends(w, D)
    BY <2>1 DEF Ends
  <2> QED BY <2>2, <2>3 DEF Belongs
<1>13. \A v \in y.writes : Belongs(v, D, idt, list, f, g)
  BY <1>7, <1>12 DEF Tables
<1> QED BY <1>7, <1>10, <1>11, <1>13 DEF Tables

(* One step of the loop over the lists.                                    *)
Words(what, d, e, at) == {WriteOf(what, d, k, at + 4 * (k - 1), 4) : k \in 1..e}
Cells(at, e) == [k \in 1..e |-> at + 4 * (k - 1)]
WithLists(x, rva, d, e) ==
  [x EXCEPT !.ilts = Append(@, rva + x.iltPos), !.iats = Append(@, rva + x.iatPos),
            !.slots = Append(@, Cells(rva + x.iatPos, e)),
            !.writes = @ \cup Words("ilt", d, e, x.iltPos) \cup Words("iat", d, e, x.iatPos),
            !.iltPos = @ + 4 * (e + 1), !.iatPos = @ + 4 * (e + 1)]

LEMMA ListsAdded ==
  ASSUME NEW D \in Seq(Dll), NEW f, NEW g, Sums(D, f, g, Len(D)),
         NEW idt \in Nat, NEW list \in Nat, NEW rva \in Nat, NEW d \in 1..Len(D),
         NEW x, Tables(x, D, rva, idt, list, f, g, Len(D), d - 1),
         NEW y, y = WithLists(x, rva, d, D[d].entries)
  PROVE  Tables(y, D, rva, idt, list, f, g, Len(D), d) /\ y.size = x.size
<1>1. PICK p, q, e, b, n, ilt, iat, slots :
        /\ p = x.iltPos /\ q = x.iatPos /\ e = D[d].entries /\ b = g[d-1] /\ n = Len(D)
        /\ ilt = Words("ilt", d, e, p) /\ iat = Words("iat", d, e, q) /\ slots = Cells(rva + q, e)
  OBVIOUS
<1>2. e \in Nat \ {0} /\ b \in Nat /\ g[d] = b + (e + 1) /\ n \in Nat
  BY <1>1, SumsOf
<1>3. d \in Nat \ {0} /\ d - 1 \in Nat /\ (d - 1) + 1 = d /\ (d + 1) - 1 = d
  BY SumsOf
<1>4. PICK m \in Nat : m = idt + list
  BY ListsFit
<1>5. p = IltAt(idt, g, d) /\ p = idt + 4 * b /\ q = IatAt(idt, list, g, d) /\ q = m + 4 * b
  <2>1. p = IltAt(idt, g, (d - 1) + 1) /\ q = IatAt(idt, list, g, (d - 1) + 1)
    BY <1>1 DEF Tables, ListsIn
  <2>2. p = IltAt(idt, g, d) /\ q = IatAt(idt, list, g, d)
    BY <1>3, <2>1
  <2> QED BY <1>1, <1>4, <2>2 DEF IltAt, IatAt
<1>6. p + 4 * (e + 1) = IltAt(idt, g, d + 1) /\ q + 4 * (e + 1) = IatAt(idt, list, g, d + 1)
  <2>1. p + 4 * (e + 1) = idt + 4 * (b + (e + 1)) /\ q + 4 * (e + 1) = m + 4 * (b + (e + 1))
    BY <1>2, <1>4, <1>5
  <2>2. IltAt(idt, g, d + 1) = idt + 4 * g[(d + 1) - 1] /\ IatAt(idt, list, g, d + 1) = m + 4 * g[(d + 1) - 1]
    BY <1>4 DEF IltAt, IatAt
  <2>3. g[(d + 1) - 1] = b + (e + 1)
    BY <1>2, <1>3
  <2> QED BY <2>1, <2>2, <2>3
<1>7. /\ y.ilts = Append(x.ilts, rva + p) /\ y.iats = Append(x.iats, rva + q)
      /\ y.slots = Append(x.slots, slots) /\ y.writes = (x.writes \cup ilt) \cup iat
      /\ y.iltPos = p + 4 * (e + 1) /\ y.iatPos = q + 4 * (e + 1)
      /\ y.size = x.size /\ y.names = x.names /\ y.namePos = x.namePos /\ DOMAIN y = Fields
  <2>1. DOMAIN x = Fields
    BY DEF Tables
  <2> QED BY <1>1, <2>1 DEF Fields, WithLists
<1>8. p \in Nat /\ q \in Nat /\ rva + p \in Nat /\ rva + q \in Nat
  BY <1>2, <1>4, <1>5
<1>9. slots \in Slots /\ \A k \in 1..e : slots[k] = (rva + q) + 4 * (k - 1)
  <2>1. ASSUME NEW k \in 1..e
        PROVE  (rva + q) + 4 * (k - 1) \in Nat
    BY <1>2, <1>8
  <2>2. slots = [k \in 1..e |-> (rva + q) + 4 * (k - 1)]
    BY <1>1 DEF Cells
  <2>3. slots \in [1..e -> Nat]
    BY <2>1, <2>2
  <2> QED BY <1>2, <2>2, <2>3 DEF Slots
<1>10. /\ y.ilts \in Seq(Nat) /\ Len(y.ilts) = d /\ y.ilts[d] = rva + p
       /\ y.iats \in Seq(Nat) /\ Len(y.iats) = d /\ y.iats[d] = rva + q
       /\ y.slots \in Seq(Slots) /\ Len(y.slots) = d /\ y.slots[d] = slots
       /\ \A h \in 1..(d-1) : y.ilts[h] = x.ilts[h] /\ y.iats[h] = x.iats[h] /\ y.slots[h] = x.slots[h]
  <2>1. /\ x.ilts \in Seq(Nat) /\ Len(x.ilts) = d - 1 /\ x.iats \in Seq(Nat) /\ Len(x.iats) = d - 1
        /\ x.slots \in Seq(Slots) /\ Len(x.slots) = d - 1
    BY DEF Tables, ListsIn
  <2>2. /\ y.ilts \in Seq(Nat) /\ Len(y.ilts) = d /\ y.ilts[d] = rva + p
        /\ \A h \in 1..(d-1) : y.ilts[h] = x.ilts[h]
    BY <1>3, <1>7, <1>8, <2>1, LastAdded
  <2>3. /\ y.iats \in Seq(Nat) /\ Len(y.iats) = d /\ y.iats[d] = rva + q
        /\ \A h \in 1..(d-1) : y.iats[h] = x.iats[h]
    BY <1>3, <1>7, <1>8, <2>1, LastAdded, SMTT(60)
  <2>4. /\ y.slots \in Seq(Slots) /\ Len(y.slots) = d /\ y.slots[d] = slots
        /\ \A h \in 1..(d-1) : y.slots[h] = x.slots[h]
    BY <1>3, <1>7, <1>9, <2>1, LastAdded
  <2> QED BY <2>2, <2>3, <2>4
<1>11. ListsIn(y, D, rva, idt, list, g, d)
  <2>1. ASSUME NEW h \in 1..d
        PROVE  /\ y.ilts[h] = rva + IltAt(idt, g, h) /\ y.iats[h] = rva + IatAt(idt, list, g, h)
               /\ \A k \in 1..D[h].entries :
                    /\ y.slots[h][k] = y.iats[h] + 4 * (k - 1)
                    /\ WriteOf("ilt", h, k, IltAt(idt, g, h) + 4 * (k - 1), 4) \in y.writes
                    /\ WriteOf("iat", h, k, IatAt(idt, list, g, h) + 4 * (k - 1), 4) \in y.writes
    <3>1. CASE h = d
      <4>1. ASSUME NEW k \in 1..e
            PROVE  WriteOf("ilt", d, k, p + 4 * (k - 1), 4) \in ilt /\ WriteOf("iat", d, k, q + 4 * (k - 1), 4) \in iat
        BY <1>1 DEF Words
      <4> QED BY <1>1, <1>5, <1>7, <1>9, <1>10, <3>1, <4>1
    <3>2. CASE h # d
      <4>1. h \in 1..(d-1)
        BY <1>3, <3>2
      <4> QED BY <1>7, <1>10, <4>1 DEF Tables, ListsIn
    <3> QED BY <3>1, <3>2
  <2> QED BY <1>6, <1>7, <1>10, <2>1 DEF ListsIn
<1>12. NamesIn(y, D, rva, idt, list, f, n)
  <2>1. NamesIn(x, D, rva, idt, list, f, n)
    BY <1>1 DEF Tables
  <2> QED BY <1>7, <2>1 DEF NamesIn
<1>13. ASSUME NEW k \in 1..e, NEW w,
              \/ w = WriteOf("ilt", d, k, p + 4 * (k - 1), 4)
              \/ w = WriteOf("iat", d, k, q + 4 * (k - 1), 4)
       PROVE  Belongs(w, D, idt, list, f, g)
  <2>1. k \in 1..(e + 1) /\ k # e + 1
    BY <1>2
  <2>2. CASE w = WriteOf("ilt", d, k, p + 4 * (k - 1), 4)
    <3>1. w.what = "ilt" /\ w.dll = d /\ w.entry = k /\ w.at = p + 4 * (k - 1) /\ w.size = 4
          /\ w = WriteOf(w.what, w.dll, w.entry, w.at, w.size)
      BY <2>2 DEF WriteOf
    <3> QED BY <1>1, <1>5, <2>1, <3>1 DEF Belongs, Place, Ends
  <2>3. CASE w = WriteOf("iat", d, k, q + 4 * (k - 1), 4)
    <3>1. w.what = "iat" /\ w.dll = d /\ w.entry = k /\ w.at = q + 4 * (k - 1) /\ w.size = 4
          /\ w = WriteOf(w.what, w.dll, w.entry, w.at, w.size)
      BY <2>3 DEF WriteOf
    <3> QED BY <1>1, <1>5, <2>1, <3>1 DEF Belongs, Place, Ends
  <2> QED BY <1>13, <2>2, <2>3
<1>14. \A w \in y.writes : Belongs(w, D, idt, list, f, g)
  <2> SUFFICES ASSUME NEW w \in y.writes
               PROVE  Belongs(w, D, idt, list, f, g)
    OBVIOUS
  <2>1. w \in x.writes \/ w \in ilt \/ w \in iat
    BY <1>7
  <2>2. CASE w \in x.writes
    BY <2>2 DEF Tables
  <2>3. CASE w \in ilt
    BY <1>1, <1>13, <2>3 DEF Words
  <2>4. CASE w \in iat
    BY <1>1, <1>13, <2>4 DEF Words
  <2> QED BY <2>1, <2>2, <2>3, <2>4
<1> QED BY <1>1, <1>7, <1>11, <1>12, <1>14 DEF Tables

(* One step of the loop over the descriptors.                              *)
LEMMA DescriptorAdded ==
  ASSUME NEW D \in Seq(Dll), NEW f, NEW g, Sums(D, f, g, Len(D)),
         NEW idt \in Nat, NEW list \in Nat, NEW rva \in Nat, NEW d \in 1..Len(D),
         NEW x, Tables(x, D, rva, idt, list, f, g, Len(D), Len(D)),
         NEW y, y = [x EXCEPT !.writes = @ \cup {WriteOf("descriptor", d, 1, (d - 1) * 20, 20)}]
  PROVE  Tables(y, D, rva, idt, list, f, g, Len(D), Len(D)) /\ y.size = x.size
<1>1. PICK w : w = WriteOf("descriptor", d, 1, (d - 1) * 20, 20)
  OBVIOUS
<1>2. /\ y.writes = x.writes \cup {w} /\ DOMAIN y = Fields
      /\ y.size = x.size /\ y.names = x.names /\ y.namePos = x.namePos /\ y.iltPos = x.iltPos
      /\ y.iatPos = x.iatPos /\ y.ilts = x.ilts /\ y.iats = x.iats /\ y.slots = x.slots
  <2>1. DOMAIN x = Fields
    BY DEF Tables
  <2> QED BY <1>1, <2>1 DEF Fields
<1>3. Belongs(w, D, idt, list, f, g)
  <2>1. w.what = "descriptor" /\ w.dll = d /\ w.entry = 1 /\ w.at = (d - 1) * 20 /\ w.size = 20
        /\ w = WriteOf(w.what, w.dll, w.entry, w.at, w.size)
    BY <1>1 DEF WriteOf
  <2>2. d \in 1..(Len(D) + 1) /\ d # Len(D) + 1
    BY SumsOf
  <2> QED BY <2>1, <2>2 DEF Belongs, Place, Ends
<1>4. \A v \in y.writes : Belongs(v, D, idt, list, f, g)
  BY <1>2, <1>3 DEF Tables
<1>5. NamesIn(y, D, rva, idt, list, f, Len(D))
  <2>1. NamesIn(x, D, rva, idt, list, f, Len(D))
    BY DEF Tables
  <2> QED BY <1>2, <2>1 DEF NamesIn
<1>6. ListsIn(y, D, rva, idt, list, g, Len(D))
  <2>1. ListsIn(x, D, rva, idt, list, g, Len(D))
    BY DEF Tables
  <2> QED BY <1>2, <2>1 DEF ListsIn
<1> QED BY <1>2, <1>4, <1>5, <1>6 DEF Tables

-----------------------------------------------------------------------------
(* The import section at each place of the writers: what is counted, and   *)
(* which names and lists are in it.                                        *)
Counted(m, f, g) ==
  Sums(program.imports, f, g, m) /\ total.names = f[m] /\ total.entries = g[m]
SectionHolds(f, g, nd, td) ==
  /\ Counted(Len(program.imports), f, g)
  /\ Tables(idata, program.imports, IdataRVA, IdtSize, ThunksSize, f, g, nd, td)
  /\ idata.size = IdtSize + 2 * ThunksSize + NamesSize
Tabled(nd, td) == \E f, g : SectionHolds(f, g, nd, td)

HasTables == (stage \in Writing \/ (stage = "linked" /\ layout # Nothing)) /\ layout.imports
NotYet ==
  /\ stage \in {"link"} \cup ElfStages => layout = Nothing
  /\ stage = "link" => dll = 1 /\ total = [entries |-> 0, names |-> 0]
Counting ==
  /\ stage = "count" => \E f, g : Counted(dll - 1, f, g)
  /\ stage = "idata" => dll = 1 /\ \E f, g : Counted(Len(program.imports), f, g)
Tabling ==
  /\ stage = "names" => Tabled(dll - 1, 0)
  /\ stage = "thunks" => Tabled(Len(program.imports), dll - 1)
  /\ stage = "descriptors" \/ HasTables => Tabled(Len(program.imports), Len(program.imports))
Announced ==
  stage = "linked" /\ layout # Nothing /\ layout.imports => header = PeHeader /\ LayoutTyped /\ LargeLayout
ImportsInv == NotYet /\ Counting /\ Tabling /\ Announced

(* The numbers the tables are made of.                                     *)
LEMMA SectionNumbers ==
  ASSUME Cursors, LayoutTyped, LargeLayout
  PROVE  /\ program.imports \in Seq(Dll) /\ Len(program.imports) \in Nat
         /\ IdataRVA \in Nat /\ IdtSize \in Nat /\ ThunksSize \in Nat
         /\ total.names \in Nat /\ NamesSize \in Nat /\ total.names <= NamesSize
<1>1. program.imports \in Seq(Dll)
  BY DEF Cursors, Program
<1>2. Len(program.imports) \in Nat
  BY <1>1, LenProperties
<1>3. total.entries \in Nat /\ total.names \in Nat
  BY DEF Cursors
<1>4. IdtSize \in Nat /\ ThunksSize \in Nat
  BY <1>2, <1>3, Products DEF IdtSize, ThunksSize
<1>5. NamesSize \in Nat /\ total.names <= NamesSize
  <2>1. 4 \in Alignments
    BY DEF Alignments
  <2> QED BY <1>3, <2>1, AlignUp DEF NamesSize
<1>6. IdataRVA \in Nat
  <2>1. layout.code \in Nat /\ layout.data \in Nat /\ layout.sec = 65536
    BY DEF LayoutTyped, LargeLayout
  <2>2. Align(layout.code, layout.sec) \in Nat /\ Align(layout.data, layout.sec) \in Nat
    <3>1. layout.sec \in Alignments
      BY <2>1 DEF Alignments
    <3> QED BY <2>1, <3>1, AlignUp
  <2> QED BY <2>1, <2>2 DEF IdataRVA, DataRVA, TextRVA
<1> QED BY <1>1, <1>2, <1>3, <1>4, <1>5, <1>6

LEMMA CountedSame ==
  ASSUME UNCHANGED <<program, total>>, NEW m, NEW f, NEW g
  PROVE  Counted(m, f, g) => Counted(m, f, g)'
BY DEF Counted

LEMMA TabledSame ==
  ASSUME UNCHANGED <<program, layout, total, idata>>, NEW nd, NEW td
  PROVE  Tabled(nd, td) => Tabled(nd, td)'
<1> SUFFICES ASSUME NEW f, NEW g, SectionHolds(f, g, nd, td)
             PROVE  SectionHolds(f, g, nd, td)'
  BY DEF Tabled
<1>1. IdataRVA' = IdataRVA
  BY DEF IdataRVA, DataRVA, TextRVA
<1>2. IdtSize' = IdtSize /\ ThunksSize' = ThunksSize /\ NamesSize' = NamesSize
  BY DEF IdtSize, ThunksSize, NamesSize
<1>3. Counted(Len(program.imports), f, g)'
  BY DEF SectionHolds, Counted
<1> QED BY <1>1, <1>2, <1>3 DEF SectionHolds

(* The stages at which there is nothing to say.                            *)
LEMMA ImportsElsewhere ==
  ASSUME stage' \notin {"link"} \cup ElfStages, stage' \notin Importing,
         stage' \in Writing \cup {"linked"} => layout' = Nothing \/ ~layout'.imports,
         stage' \in Writing => ~layout'.imports
  PROVE  ImportsInv'
<1>1. NotYet' /\ Counting'
  BY DEF NotYet, Counting, Importing
<1>2. ~HasTables'
  BY DEF HasTables
<1>3. Tabling'
  BY <1>2 DEF Tabling, Importing, Listing
<1>4. Announced'
  BY DEF Announced
<1> QED BY <1>1, <1>3, <1>4 DEF ImportsInv

(* The counting loop: its sums are extended by one DLL.                    *)
LEMMA CountStep ==
  ASSUME Typed, ImportsInv, CountDll
  PROVE  ImportsInv'
<1>1. /\ stage = "count" /\ UNCHANGED <<program, layout>>
      /\ total' = [entries |-> total.entries + program.imports[dll].entries + 1,
                   names |-> total.names + program.imports[dll].name + 1]
      /\ NextDll("count", "idata")
  BY DEF CountDll
<1>2. /\ dll \in 1..Len(program.imports) /\ program.imports \in Seq(Dll) /\ Len(program.imports) \in Nat
  <2>1. program.imports # << >> /\ Cursors
    BY <1>1 DEF Typed, LaidOut, Importing
  <2>2. program.imports \in Seq(Dll)
    BY <2>1 DEF Cursors, Program
  <2> QED BY <2>1, <2>2, LenProperties DEF Cursors
<1>3. PICK f, g : Counted(dll - 1, f, g)
  BY <1>1 DEF ImportsInv, Counting
<1>4. PICK d, D : d = dll /\ D = program.imports
  OBVIOUS
<1>5. PICK f2, g2 : /\ f2 = [i \in 0..d |-> IF i = d THEN f[d-1] + (D[d].name + 1) ELSE f[i]]
                    /\ g2 = [i \in 0..d |-> IF i = d THEN g[d-1] + (D[d].entries + 1) ELSE g[i]]
  OBVIOUS
<1>6. Sums(D, f2, g2, d)
  BY <1>2, <1>3, <1>4, <1>5, SumsExtend DEF Counted
<1>7. total'.names = f2[d] /\ total'.entries = g2[d]
  <2>1. d \in 0..d
    BY <1>2, <1>4
  <2>2. f2[d] = f[d-1] + (D[d].name + 1) /\ g2[d] = g[d-1] + (D[d].entries + 1)
    BY <1>5, <2>1
  <2>3. f[d-1] \in Nat /\ g[d-1] \in Nat
    <3>1. d - 1 \in 0..(d - 1)
      BY <1>2, <1>4
    <3> QED BY <1>3, <1>4, <3>1 DEF Counted, Sums
  <2>4. D[d].name \in Nat /\ D[d].entries \in Nat
    <3>1. D[d] \in Dll
      BY <1>2, <1>4, ElementOfSeq
    <3> QED BY <3>1 DEF Dll
  <2>5. total.names = f[d-1] /\ total.entries = g[d-1]
    BY <1>3, <1>4 DEF Counted
  <2>6. total'.names = total.names + D[d].name + 1 /\ total'.entries = total.entries + D[d].entries + 1
    BY <1>1, <1>4
  <2> QED BY <2>2, <2>3, <2>4, <2>5, <2>6
<1>8. Counted(d, f2, g2)'
  BY <1>1, <1>4, <1>6, <1>7 DEF Counted
<1>9. CASE dll = Len(program.imports)
  <2>1. stage' = "idata" /\ dll' = 1 /\ d = Len(program.imports)'
    BY <1>1, <1>4, <1>9 DEF NextDll, LastDll
  <2>2. Counting'
    BY <1>8, <2>1 DEF Counting
  <2> QED BY <2>1, <2>2 DEF ImportsInv, NotYet, Tabling, Announced, HasTables, ElfStages, Writing, Filling
<1>10. CASE dll # Len(program.imports)
  <2>1. stage' = "count" /\ dll' = dll + 1
    BY <1>1, <1>10 DEF NextDll, LastDll
  <2>2. dll' - 1 = d
    BY <1>2, <1>4, <2>1
  <2>3. Counting'
    BY <1>8, <2>1, <2>2 DEF Counting
  <2> QED BY <2>1, <2>3 DEF ImportsInv, NotYet, Tabling, Announced, HasTables, ElfStages, Writing, Filling
<1> QED BY <1>9, <1>10

(* The size of the section is settled before it is written.                *)
LEMMA SizeStep ==
  ASSUME Typed, ImportsInv, SizeIdata
  PROVE  ImportsInv'
<1>1. /\ stage = "idata" /\ stage' = "names" /\ UNCHANGED <<program, layout, dll, total>>
      /\ idata' = [size |-> IdtSize + 2 * ThunksSize + NamesSize, writes |-> {},
                   iltPos |-> IdtSize, iatPos |-> IdtSize + ThunksSize, namePos |-> IdtSize + 2 * ThunksSize,
                   names |-> << >>, ilts |-> << >>, iats |-> << >>, slots |-> << >>]
  BY DEF SizeIdata, building
<1>2. PICK f, g : Counted(Len(program.imports), f, g)
  BY <1>1 DEF ImportsInv, Counting
<1>3. Cursors /\ LayoutTyped /\ LargeLayout
  BY <1>1 DEF Typed, LaidOut, Importing
<1>4. PICK D, idt, list, rva : D = program.imports /\ idt = IdtSize /\ list = ThunksSize /\ rva = IdataRVA
  OBVIOUS
<1>5. idt \in Nat /\ list \in Nat /\ D \in Seq(Dll)
  BY <1>3, <1>4, SectionNumbers
<1>6. f[0] = 0 /\ g[0] = 0
  BY <1>2 DEF Counted, Sums
<1>7. PICK y : y = idata'
  OBVIOUS
<1>8. /\ DOMAIN y = Fields /\ y.writes = {} /\ y.iltPos = idt /\ y.iatPos = idt + list
      /\ y.namePos = idt + 2 * list /\ y.names = << >> /\ y.ilts = << >> /\ y.iats = << >> /\ y.slots = << >>
      /\ y.size = IdtSize + 2 * ThunksSize + NamesSize
  BY <1>1, <1>4, <1>7 DEF Fields
<1>9. NamesIn(y, D, rva, idt, list, f, 0)
  <2>1. NameAt(idt, list, f, 0 + 1) = idt + 2 * list
    <3>1. (0 + 1) - 1 = 0
      OBVIOUS
    <3>2. PICK m \in Nat : m = idt + 2 * list
      BY <1>5, ListsFit
    <3> QED BY <1>6, <3>1, <3>2 DEF NameAt
  <2>2. 1..0 = {} /\ << >> \in Seq(Nat) /\ Len(<< >>) = 0
    OBVIOUS
  <2> QED BY <1>8, <2>1, <2>2 DEF NamesIn
<1>10. ListsIn(y, D, rva, idt, list, g, 0)
  <2>1. IltAt(idt, g, 0 + 1) = idt /\ IatAt(idt, list, g, 0 + 1) = idt + list
    <3>1. (0 + 1) - 1 = 0
      OBVIOUS
    <3>2. PICK m \in Nat : m = idt + list
      BY <1>5, ListsFit
    <3> QED BY <1>5, <1>6, <3>1, <3>2 DEF IltAt, IatAt
  <2>2. 1..0 = {} /\ << >> \in Seq(Nat) /\ << >> \in Seq(Slots) /\ Len(<< >>) = 0
    OBVIOUS
  <2> QED BY <1>8, <2>1, <2>2 DEF ListsIn
<1>11. Tables(y, D, rva, idt, list, f, g, 0, 0)
  BY <1>8, <1>9, <1>10 DEF Tables
<1>12. /\ IdataRVA' = IdataRVA /\ IdtSize' = IdtSize /\ ThunksSize' = ThunksSize /\ NamesSize' = NamesSize
  BY <1>1 DEF IdataRVA, DataRVA, TextRVA, IdtSize, ThunksSize, NamesSize
<1>13. Tabled(0, 0)'
  <2>1. Counted(Len(program.imports), f, g)'
    BY <1>1, <1>2 DEF Counted
  <2>2. SectionHolds(f, g, 0, 0)'
    BY <1>1, <1>4, <1>7, <1>8, <1>11, <1>12, <2>1 DEF SectionHolds
  <2> QED BY <2>2 DEF Tabled
<1>14. dll' - 1 = 0
  BY <1>1, <1>2 DEF ImportsInv, Counting
<1>15. Tabling'
  BY <1>1, <1>13, <1>14 DEF Tabling, HasTables, Writing, Filling
<1> QED BY <1>1, <1>15 DEF ImportsInv, NotYet, Counting, Announced, ElfStages

(* What the three loops that fill it have in common.                       *)
LEMMA LoopState ==
  ASSUME Typed, stage \in Listing, NEW nd, NEW td, Tabled(nd, td)
  PROVE  \E f, g :
           /\ SectionHolds(f, g, nd, td) /\ Sums(program.imports, f, g, Len(program.imports))
           /\ program.imports \in Seq(Dll) /\ IdtSize \in Nat /\ ThunksSize \in Nat /\ IdataRVA \in Nat
           /\ dll \in 1..Len(program.imports) /\ Len(program.imports) \in Nat
<1>1. Cursors /\ LayoutTyped /\ LargeLayout /\ program.imports # << >>
  BY DEF Typed, LaidOut, Importing
<1>2. PICK f, g : SectionHolds(f, g, nd, td)
  BY DEF Tabled
<1>3. Sums(program.imports, f, g, Len(program.imports))
  BY <1>2 DEF SectionHolds, Counted
<1>4. dll \in 1..Len(program.imports)
  BY <1>1 DEF Cursors
<1> QED BY <1>1, <1>2, <1>3, <1>4, SectionNumbers

LEMMA Grown ==
  ASSUME NEW f, NEW g, NEW nd, NEW td, NEW nd2, NEW td2, SectionHolds(f, g, nd, td),
         UNCHANGED <<program, layout, total>>, idata'.size = idata.size,
         Tables(idata', program.imports, IdataRVA, IdtSize, ThunksSize, f, g, nd2, td2)
  PROVE  Tabled(nd2, td2)'
<1>1. /\ IdataRVA' = IdataRVA /\ IdtSize' = IdtSize /\ ThunksSize' = ThunksSize /\ NamesSize' = NamesSize
  BY DEF IdataRVA, DataRVA, TextRVA, IdtSize, ThunksSize, NamesSize
<1>2. Counted(Len(program.imports), f, g)'
  BY DEF SectionHolds, Counted
<1>3. SectionHolds(f, g, nd2, td2)'
  BY <1>1, <1>2 DEF SectionHolds
<1> QED BY <1>3 DEF Tabled

LEMMA NameStep ==
  ASSUME Typed, ImportsInv, NameDll
  PROVE  ImportsInv'
<1>1. /\ stage = "names" /\ UNCHANGED <<program, layout, total>> /\ NextDll("names", "thunks")
      /\ idata' = [idata EXCEPT !.names = Append(@, IdataRVA + idata.namePos),
                                !.writes = @ \cup {Write("name", 1, idata.namePos, program.imports[dll].name)},
                                !.namePos = @ + program.imports[dll].name + 1]
  BY DEF NameDll
<1>2. Tabled(dll - 1, 0) /\ stage \in Listing
  BY <1>1 DEF ImportsInv, Tabling, Listing
<1>3. PICK f, g :
           /\ SectionHolds(f, g, dll - 1, 0) /\ Sums(program.imports, f, g, Len(program.imports))
           /\ program.imports \in Seq(Dll) /\ IdtSize \in Nat /\ ThunksSize \in Nat /\ IdataRVA \in Nat
           /\ dll \in 1..Len(program.imports) /\ Len(program.imports) \in Nat
  BY <1>2, LoopState
<1>4. PICK d, y : d = dll /\ y = idata'
  OBVIOUS
<1>5. y = WithName(idata, IdataRVA, d, program.imports[d].name)
  BY <1>1, <1>4 DEF Write, WriteOf, WithName
<1>6. Tables(idata, program.imports, IdataRVA, IdtSize, ThunksSize, f, g, d - 1, 0)
  BY <1>3, <1>4 DEF SectionHolds
<1>7. Tables(y, program.imports, IdataRVA, IdtSize, ThunksSize, f, g, d, 0) /\ y.size = idata.size
  BY <1>3, <1>4, <1>5, <1>6, NameAdded
<1>8. Tabled(d, 0)'
  BY <1>1, <1>3, <1>4, <1>7, Grown
<1>9. CASE dll = Len(program.imports)
  <2>1. stage' = "thunks" /\ dll' = 1 /\ d = Len(program.imports)'
    BY <1>1, <1>4, <1>9 DEF NextDll, LastDll
  <2>2. dll' - 1 = 0
    BY <2>1
  <2>3. Tabling'
    BY <1>8, <2>1, <2>2 DEF Tabling, HasTables, Writing, Filling
  <2> QED BY <2>1, <2>3 DEF ImportsInv, NotYet, Counting, Announced, ElfStages
<1>10. CASE dll # Len(program.imports)
  <2>1. stage' = "names" /\ dll' = dll + 1
    BY <1>1, <1>10 DEF NextDll, LastDll
  <2>2. dll' - 1 = d
    BY <1>3, <1>4, <2>1
  <2>3. Tabling'
    BY <1>8, <2>1, <2>2 DEF Tabling, HasTables, Writing, Filling
  <2> QED BY <2>1, <2>3 DEF ImportsInv, NotYet, Counting, Announced, ElfStages
<1> QED BY <1>9, <1>10

LEMMA ListsStep ==
  ASSUME Typed, ImportsInv, Thunks
  PROVE  ImportsInv'
<1> DEFINE Here == program.imports[dll].entries
<1>1. /\ stage = "thunks" /\ UNCHANGED <<program, layout, total>> /\ NextDll("thunks", "descriptors")
  BY DEF Thunks, ThunksBy
<1>2. idata' = WithLists(idata, IdataRVA, dll, Here)
  BY DEF Thunks, ThunksBy, WithLists, Words, Cells, Write, WriteOf
<1>3. Tabled(Len(program.imports), dll - 1) /\ stage \in Listing
  BY <1>1 DEF ImportsInv, Tabling, Listing
<1>4. PICK f, g :
           /\ SectionHolds(f, g, Len(program.imports), dll - 1)
           /\ Sums(program.imports, f, g, Len(program.imports))
           /\ program.imports \in Seq(Dll) /\ IdtSize \in Nat /\ ThunksSize \in Nat /\ IdataRVA \in Nat
           /\ dll \in 1..Len(program.imports) /\ Len(program.imports) \in Nat
  BY <1>3, LoopState
<1>5. PICK d, y, n : d = dll /\ y = idata' /\ n = Len(program.imports)
  OBVIOUS
<1>6. Tables(idata, program.imports, IdataRVA, IdtSize, ThunksSize, f, g, Len(program.imports), d - 1)
  BY <1>4, <1>5 DEF SectionHolds
<1>7. /\ Tables(y, program.imports, IdataRVA, IdtSize, ThunksSize, f, g, Len(program.imports), d)
      /\ y.size = idata.size
  <2>1. /\ IdtSize = (Len(program.imports) + 1) * 20 /\ y = WithLists(idata, IdataRVA, d, program.imports[d].entries)
    BY <1>2, <1>5 DEF IdtSize
  <2> QED BY <1>4, <1>5, <1>6, <2>1, ListsAdded
<1>8. Tabled(n, d)'
  BY <1>1, <1>4, <1>5, <1>7, Grown
<1>9. CASE dll = Len(program.imports)
  <2>1. stage' = "descriptors" /\ d = n /\ n = Len(program.imports)'
    BY <1>1, <1>5, <1>9 DEF NextDll, LastDll
  <2>2. Tabling'
    BY <1>8, <2>1 DEF Tabling, HasTables, Writing, Filling
  <2> QED BY <2>1, <2>2 DEF ImportsInv, NotYet, Counting, Announced, ElfStages
<1>10. CASE dll # Len(program.imports)
  <2>1. stage' = "thunks" /\ dll' = dll + 1 /\ n = Len(program.imports)'
    BY <1>1, <1>5, <1>10 DEF NextDll, LastDll
  <2>2. dll' - 1 = d
    BY <1>4, <1>5, <2>1
  <2>3. Tabling'
    BY <1>8, <2>1, <2>2 DEF Tabling, HasTables, Writing, Filling
  <2> QED BY <2>1, <2>3 DEF ImportsInv, NotYet, Counting, Announced, ElfStages
<1> QED BY <1>9, <1>10

LEMMA DescriptorStep ==
  ASSUME Typed, ImportsInv, DescribeDll
  PROVE  ImportsInv'
<1>1. /\ stage = "descriptors" /\ UNCHANGED <<program, layout, total>> /\ NextDll("descriptors", "headers")
      /\ idata' = [idata EXCEPT !.writes = @ \cup {Write("descriptor", 1, (dll - 1) * 20, 20)}]
  BY DEF DescribeDll
<1>2. Tabled(Len(program.imports), Len(program.imports)) /\ stage \in Listing
  BY <1>1 DEF ImportsInv, Tabling, Listing
<1>3. PICK f, g :
           /\ SectionHolds(f, g, Len(program.imports), Len(program.imports))
           /\ Sums(program.imports, f, g, Len(program.imports))
           /\ program.imports \in Seq(Dll) /\ IdtSize \in Nat /\ ThunksSize \in Nat /\ IdataRVA \in Nat
           /\ dll \in 1..Len(program.imports) /\ Len(program.imports) \in Nat
  BY <1>2, LoopState
<1>4. PICK y, n : y = idata' /\ n = Len(program.imports)
  OBVIOUS
<1>5. y = [idata EXCEPT !.writes = @ \cup {WriteOf("descriptor", dll, 1, (dll - 1) * 20, 20)}]
  BY <1>1, <1>4 DEF Write, WriteOf
<1>6. Tables(idata, program.imports, IdataRVA, IdtSize, ThunksSize, f, g, Len(program.imports), Len(program.imports))
  BY <1>3 DEF SectionHolds
<1>7. /\ Tables(y, program.imports, IdataRVA, IdtSize, ThunksSize, f, g, Len(program.imports), Len(program.imports))
      /\ y.size = idata.size
  BY <1>3, <1>5, <1>6, DescriptorAdded
<1>8. Tabled(n, n)'
  BY <1>1, <1>3, <1>4, <1>7, Grown
<1>9. stage' \in {"descriptors", "headers"} /\ n = Len(program.imports)'
  BY <1>1, <1>4 DEF NextDll, LastDll
<1>10. Tabling'
  BY <1>8, <1>9 DEF Tabling
<1> QED BY <1>9, <1>10 DEF ImportsInv, NotYet, Counting, Announced, ElfStages

(* The sums of no DLL.                                                     *)
LEMMA NoSums ==
  ASSUME NEW D
  PROVE  Sums(D, [i \in 0..0 |-> 0], [i \in 0..0 |-> 0], 0)
<1>1. 0..0 = {0} /\ 1..0 = {} /\ ~(0 < 0)
  OBVIOUS
<1>2. [i \in 0..0 |-> 0] \in [0..0 -> Nat] /\ [i \in 0..0 |-> 0][0] = 0
  BY <1>1
<1>3. \A i, j \in 0..0 : ~(i < j)
  BY <1>1
<1> QED BY <1>1, <1>2, <1>3 DEF Sums

LEMMA ImportsStart == Init => ImportsInv
<1> SUFFICES ASSUME Init
             PROVE  ImportsInv
  OBVIOUS
<1>1. stage = "link" /\ layout = Nothing /\ dll = 1 /\ total = [entries |-> 0, names |-> 0]
  BY DEF Init
<1>2. NotYet /\ Counting /\ Announced
  BY <1>1 DEF NotYet, Counting, Announced
<1>3. Tabling
  BY <1>1 DEF Tabling, HasTables, Writing, Filling
<1> QED BY <1>2, <1>3 DEF ImportsInv

LEMMA WritePeStep ==
  ASSUME Typed, ImportsInv, WritePe
  PROVE  ImportsInv'
<1>1. /\ stage = "link" /\ UNCHANGED <<program, dll, total>>
      /\ layout' = [code |-> program.code, data |-> program.data, entry |-> Main, sec |-> SEC_ALIGN,
                    lfanew |-> 232, headers |-> Align(1024, FILE_ALIGN), imports |-> program.imports # << >>]
      /\ stage' = IF program.imports = << >> THEN "headers" ELSE "count"
  BY DEF WritePe, importing
<1>2. CASE program.imports = << >>
  <2>1. stage' = "headers" /\ ~layout'.imports
    BY <1>1, <1>2
  <2> QED BY <2>1, ImportsElsewhere DEF ElfStages, Importing, Listing
<1>3. CASE program.imports # << >>
  <2>1. stage' = "count"
    BY <1>1, <1>3
  <2>2. dll = 1 /\ total = [entries |-> 0, names |-> 0]
    BY <1>1 DEF ImportsInv, NotYet
  <2>3. PICK f : f = [i \in 0..0 |-> 0]
    OBVIOUS
  <2>4. Sums(program.imports, f, f, 0)
    BY <2>3, NoSums
  <2>5. f[0] = 0
    BY <2>4 DEF Sums
  <2>6. dll' - 1 = 0 /\ total'.names = 0 /\ total'.entries = 0
    BY <1>1, <2>2
  <2>7. Counted(dll - 1, f, f)'
    BY <1>1, <2>4, <2>5, <2>6 DEF Counted
  <2>8. Counting'
    BY <2>1, <2>7 DEF Counting
  <2> QED BY <2>1, <2>8 DEF ImportsInv, NotYet, Tabling, Announced, HasTables, ElfStages, Writing, Filling
<1> QED BY <1>2, <1>3

(* What is in the tables stays there while the file is filled and saved.   *)
LEMMA FillStep ==
  ASSUME Typed, PeBuffer, ImportsInv, PeHeaders \/ PeText \/ PeData \/ PeImports \/ SavePe
  PROVE  ImportsInv'
<1>1. /\ UNCHANGED <<program, layout, dll, total, idata>>
      /\ stage \in Writing /\ stage' \in Filling \cup {"linked"}
      /\ stage' = "linked" => stage = "image" /\ header' = header
  BY DEF PeHeaders, PeText, PeData, PeImports, SavePe, importing, building, Writing, Filling
<1>2. HasTables' => HasTables
  BY <1>1 DEF HasTables
<1>3. Tabling'
  <2>1. PICK n : n = Len(program.imports) /\ n = Len(program.imports)'
    BY <1>1
  <2>2. HasTables => Tabled(n, n)'
    BY <1>1, <2>1, TabledSame DEF ImportsInv, Tabling
  <2>3. stage' \notin Listing
    BY <1>1 DEF Filling, Listing
  <2> QED BY <1>2, <2>1, <2>2, <2>3 DEF Tabling, Listing
<1>4. Announced'
  <2> SUFFICES ASSUME stage' = "linked", layout'.imports
               PROVE  (header = PeHeader /\ LayoutTyped /\ LargeLayout)'
    BY DEF Announced
  <2>1. layout.imports /\ LayoutTyped
    BY <1>1 DEF Typed, LaidOut
  <2>2. LargeLayout
    BY <2>1 DEF LayoutTyped, SmallLayout
  <2>3. header' = PeHeader
    BY <1>1 DEF PeBuffer, Filling
  <2>4. PeHeader' = PeHeader
    BY <1>1, PeSame DEF importing
  <2>5. LayoutTyped' /\ LargeLayout'
    BY <1>1, <2>1, <2>2 DEF LayoutTyped, LargeLayout, SmallLayout
  <2> QED BY <2>3, <2>4, <2>5
<1>5. stage' \notin {"link"} \cup ElfStages /\ stage' \notin {"count", "idata"}
  BY <1>1 DEF Filling, ElfStages
<1> QED BY <1>3, <1>4, <1>5 DEF ImportsInv, NotYet, Counting

LEMMA ElfStep ==
  ASSUME ImportsInv, Elf
  PROVE  ImportsInv'
<1>1. /\ stage \in {"link"} \cup ElfStages /\ layout' = layout
      /\ stage' \in ElfStages \cup {"linked"}
  BY DEF Elf, ElfHeaders, ElfCode, ElfData, SaveElf, ElfStages
<1>2. layout' = Nothing
  BY <1>1 DEF ImportsInv, NotYet
<1>3. NotYet'
  BY <1>1, <1>2 DEF NotYet, ElfStages
<1>4. Counting' /\ Tabling' /\ Announced'
  BY <1>1, <1>2 DEF Counting, Tabling, Announced, HasTables, ElfStages, Writing, Filling
<1> QED BY <1>3, <1>4 DEF ImportsInv

LEMMA ConvertStep ==
  ASSUME Convert \/ Xex
  PROVE  ImportsInv'
<1>1. CASE BuildPeImage
  <2>1. stage' = "headers" /\ ~layout'.imports
    BY <1>1 DEF BuildPeImage
  <2> QED BY <2>1, ImportsElsewhere DEF ElfStages, Importing, Listing
<1>2. CASE CannotOpen \/ WrapPe \/ OpenElf \/ ExtractSegment \/ WrapImage \/ Xex
  <2>1. stage' \in Wrapping \cup {"no_xex", "segments", "done"}
    BY <1>2 DEF CannotOpen, WrapPe, OpenElf, ExtractSegment, SegmentBy, WrapImage, Wrapping,
                Xex, XexHeaders, XexSecurity, XexPages, XexBasefile, SaveXex
  <2>2. /\ stage' \notin {"link"} \cup ElfStages /\ stage' \notin Importing
        /\ stage' \notin Writing \cup {"linked"}
    BY <2>1 DEF Wrapping, ElfStages, Importing, Listing, Writing, Filling
  <2> QED BY <2>2, ImportsElsewhere
<1> QED BY <1>1, <1>2 DEF Convert

LEMMA ImportsStutter ==
  ASSUME ImportsInv, UNCHANGED vars
  PROVE  ImportsInv'
<1>1. UNCHANGED <<program, stage, layout, dll, total, idata, header>>
  BY DEF vars
<1>2. NotYet'
  BY <1>1 DEF ImportsInv, NotYet
<1>3. Counting'
  BY <1>1 DEF ImportsInv, Counting, Counted
<1>4. Tabling'
  <2>1. PICK n, d : n = Len(program.imports) /\ n = Len(program.imports)' /\ d = dll - 1 /\ d = (dll - 1)'
    BY <1>1
  <2>2. /\ Tabled(d, 0) => Tabled(d, 0)'
        /\ Tabled(n, d) => Tabled(n, d)'
        /\ Tabled(n, n) => Tabled(n, n)'
    BY <1>1, TabledSame
  <2>3. HasTables' => HasTables
    BY <1>1 DEF HasTables
  <2> QED BY <1>1, <2>1, <2>2, <2>3 DEF ImportsInv, Tabling
<1>5. Announced'
  <2>1. PeHeader' = PeHeader
    BY <1>1, PeSame DEF importing
  <2> QED BY <1>1, <2>1 DEF ImportsInv, Announced, LayoutTyped, LargeLayout, SmallLayout
<1> QED BY <1>2, <1>3, <1>4, <1>5 DEF ImportsInv

(* ImportsInv says what is asked of the import section.                    *)
LEMMA ImportsMean ==
  ASSUME Typed, ImportsInv
  PROVE  ImportsLinked
<1> SUFFICES ASSUME stage = "linked", layout # Nothing, layout.imports
             PROVE  ImportsLinked
  BY DEF ImportsLinked
<1>1. header = PeHeader /\ LayoutTyped /\ LargeLayout /\ HasTables
  BY DEF ImportsInv, Announced, HasTables
<1>2. PICK D, n, rva, idt, list, x, size :
        /\ D = program.imports /\ n = Len(D) /\ rva = IdataRVA /\ idt = IdtSize /\ list = ThunksSize
        /\ x = idata /\ size = idata.size
  OBVIOUS
<1>3. /\ D \in Seq(Dll) /\ n \in Nat /\ rva \in Nat /\ idt \in Nat /\ list \in Nat
      /\ total.names \in Nat /\ NamesSize \in Nat /\ total.names <= NamesSize
  BY <1>1, <1>2, SectionNumbers DEF Typed
<1>4. PICK f, g : SectionHolds(f, g, n, n)
  BY <1>1, <1>2 DEF ImportsInv, Tabling, Tabled
<1>5. /\ Sums(D, f, g, Len(D)) /\ Tables(x, D, rva, idt, list, f, g, Len(D), Len(D))
      /\ total.names = f[n] /\ total.entries = g[n] /\ size = idt + 2 * list + NamesSize
  BY <1>2, <1>4 DEF SectionHolds, Counted
<1>6. idt = (Len(D) + 1) * 20 /\ list = g[Len(D)] * 4
  BY <1>2, <1>5 DEF IdtSize, ThunksSize
<1>7. size \in Nat /\ (idt + 2 * list) + f[Len(D)] <= size
  <2>1. PICK m \in Nat : m = idt + 2 * list
    BY <1>3, ListsFit
  <2> QED BY <1>2, <1>3, <1>5, <2>1
<1>8. \A w \in x.writes : Belongs(w, D, idt, list, f, g)
  BY <1>5 DEF Tables
<1>9. /\ \A w \in x.writes : Within(w, 0, size)
      /\ \A v, w \in x.writes : v # w => ~Overlap(v, w)
  BY <1>3, <1>5, <1>6, <1>7, <1>8, WritesApart
<1>10. Untouched(20 * n, 20, x.writes)
  BY <1>2, <1>3, <1>5, <1>6, <1>8, DirectoryEnds
<1>11. /\ header.idt.at = rva /\ header.idt.size = 20 * (n + 1)
       /\ header.iat.at = rva + idt + list /\ header.iat.size = list
  <2>1. /\ header.idt = [at |-> rva, size |-> idt]
        /\ header.iat = [at |-> rva + idt + list, size |-> list]
    BY <1>1, <1>2 DEF PeHeader
  <2>2. (n + 1) * 20 = 20 * (n + 1)
    BY <1>3
  <2> QED BY <1>2, <1>6, <2>1, <2>2
<1>12. ASSUME NEW d \in DOMAIN D
       PROVE  DllLinked(D, d, rva, idt, list, x, size)
  <2>1. d \in 1..Len(D)
    BY <1>3
  <2> QED BY <1>3, <1>5, <1>6, <1>7, <2>1, TablesMean
<1>13. ASSUME NEW d \in DOMAIN D
       PROVE  /\ ListOf("ilt", d, x.ilts[d] - rva) /\ ListOf("iat", d, x.iats[d] - rva)
  <2>1. D[d].entries = program.imports[d].entries /\ x.writes = idata.writes /\ size = idata.size
    BY <1>2
  <2> QED BY <1>12, <2>1 DEF DllLinked, ListOf, ListAt, WriteOf
<1> QED BY <1>2, <1>9, <1>10, <1>11, <1>12, <1>13 DEF ImportsLinked, DllLinked, WriteOf

(* The four loops over the DLLs arrive where the sizes counted before say: *)
(* no table is written over another, every list, name and the directory    *)
(* end in a place nothing was written to, and the address recorded for an  *)
(* imported function is that of its word in the table the header           *)
(* announces, for every list of DLLs (linker.cpp:429-517).                 *)
THEOREM ImportsAreLinked == Spec => []ImportsLinked
<1>1. Init => ImportsInv
  BY ImportsStart
<1>2. ASSUME Inv, ImportsInv, [Next]_vars
      PROVE  ImportsInv'
  <2>1. Typed /\ PeBuffer
    BY <1>2 DEF Inv, Buffers
  <2>2. CASE Imports
    BY <1>2, <2>1, <2>2, CountStep, SizeStep, NameStep, ListsStep, DescriptorStep DEF Imports
  <2>3. CASE WritePe
    BY <1>2, <2>1, <2>3, WritePeStep
  <2>4. CASE PeHeaders \/ PeText \/ PeData \/ PeImports \/ SavePe
    BY <1>2, <2>1, <2>4, FillStep
  <2>5. CASE Elf
    BY <1>2, <2>5, ElfStep
  <2>6. CASE Convert \/ Xex
    BY <2>6, ConvertStep
  <2>7. CASE UNCHANGED vars
    BY <1>2, <2>7, ImportsStutter
  <2> QED BY <1>2, <2>2, <2>3, <2>4, <2>5, <2>6, <2>7 DEF Next, Pe
<1>3. Inv /\ ImportsInv => ImportsLinked
  BY ImportsMean DEF Inv
<1> QED BY <1>1, <1>2, <1>3, Inductive, PTL DEF Spec

-----------------------------------------------------------------------------
(* The driver: what is settled at each place of main.                      *)
Early == {"start", "sdk", "mode", "lex", "preprocess", "compile", "libraries"}
Late == {"libraries", "link", "xex", "convert", "success"}
Building == {"lex", "preprocess", "compile"} \cup Late

Compiled(n) == \A i \in 1..n : options.sources[i] = "compiles"
Placed ==
  /\ options.sources \in Seq(Fate)
  /\ phase \in Early \cup Late \cup {"returned"}
  /\ phase # "returned" => exit = Running
NothingYet ==
  /\ phase \in Early => stage = "link" /\ file = Nothing /\ xex = Nothing /\ ~official
  /\ stage = "no_xex" => file = Nothing
Decided ==
  /\ phase \in {"sdk", "mode"} \cup Building => options.arguments = "valid"
  /\ phase \in Building => options.sources # << >> /\ ~Has("test")
  /\ phase = "lex" => Has("lex-only")
  /\ phase = "preprocess" => Has("E")
  /\ phase \in {"compile"} \cup Late => ~Has("lex-only") /\ ~Has("E")
  /\ phase \in Late => ~Has("c")
Numbered == [i \in 1..(Len(options.sources) + 1) |-> i - 1]
SourcesIn ==
  /\ phase \in {"start", "sdk", "mode"} => objects = << >>
  /\ phase = "compile" =>
       /\ item \in 1..(Len(options.sources) + 1) /\ Compiled(item - 1)
       /\ objects \in Seq(Nat) /\ Len(objects) = item - 1
       /\ \A i \in 1..(item - 1) : objects[i] = i
  /\ phase \in Late => Compiled(Len(options.sources)) /\ linking = Numbered
Converting == phase = "success" /\ Has("xex") => official \/ stage = "done" \/ file = Nothing
MainInv == Placed /\ NothingYet /\ Decided /\ SourcesIn /\ Converting /\ ExitCodeTells

(* Before anything is done.                                                *)
LEMMA MainStarts == DriverInit => MainInv
<1> SUFFICES ASSUME DriverInit PROVE MainInv
  OBVIOUS
<1>1. options \in Option
  BY OptionsAssumption DEF DriverInit
<1>2. options.sources \in Seq(Fate)
  BY <1>1 DEF Option
<1>3. /\ phase = "start" /\ exit = Running /\ stage = "link" /\ file = Nothing /\ xex = Nothing
      /\ ~official /\ objects = << >>
  BY DEF DriverInit, Init
<1> QED BY <1>2, <1>3 DEF MainInv, Placed, NothingYet, Decided, SourcesIn, Converting,
       ExitCodeTells, Early, Late, Building, Running

(* Without a file the converter stays without one.                         *)
LEMMA WritersKeep ==
  ASSUME stage = "no_xex" => file = Nothing, Pe \/ Elf \/ Convert \/ Xex
  PROVE  stage' = "no_xex" => file' = Nothing
<1>1. CASE Pe
  BY <1>1 DEF Pe, Imports, WritePe, CountDll, SizeIdata, NameDll, Thunks, ThunksBy, DescribeDll,
       NextDll, PeHeaders, PeText, PeData, PeImports, SavePe
<1>2. CASE Elf
  BY <1>2 DEF Elf, ElfHeaders, ElfCode, ElfData, SaveElf
<1>3. CASE Convert
  BY <1>3 DEF Convert, CannotOpen, WrapPe, OpenElf, ExtractSegment, SegmentBy, BuildPeImage,
       WrapImage
<1>4. CASE Xex
  BY <1>4 DEF Xex, XexHeaders, XexSecurity, XexPages, XexBasefile, SaveXex
<1> QED BY <1>1, <1>2, <1>3, <1>4

(* The first loop over the sources ends with the list the linker is given. *)
LEMMA AllObjects ==
  ASSUME Placed, SourcesIn, Past("compile", options.sources)
  PROVE  Compiled(Len(options.sources)) /\ <<0>> \o objects = Numbered
<1>1. Len(options.sources) \in Nat
  BY LenProperties DEF Placed
<1>2. item = Len(options.sources) + 1 /\ phase = "compile"
  BY <1>1 DEF Past, SourcesIn
<1>3. /\ Compiled(Len(options.sources)) /\ objects \in Seq(Nat) /\ Len(objects) = Len(options.sources)
      /\ \A i \in 1..Len(options.sources) : objects[i] = i
  BY <1>1, <1>2 DEF SourcesIn
<1> DEFINE joined == <<0>> \o objects
           n == Len(options.sources)
<1>4. <<0>> \in Seq(Nat) /\ Len(<<0>>) = 1 /\ <<0>>[1] = 0
  OBVIOUS
<1>5. /\ joined \in Seq(Nat) /\ Len(joined) = n + 1
      /\ \A i \in 1..(n + 1) : joined[i] = IF i <= 1 THEN <<0>>[i] ELSE objects[i - 1]
  BY <1>3, <1>4, ConcatProperties
<1>6. joined = [i \in 1..(n + 1) |-> joined[i]]
  BY <1>5, LenProperties
<1> HIDE DEF joined
<1>7. \A i \in 1..(n + 1) : joined[i] = i - 1
  <2> SUFFICES ASSUME NEW i \in 1..(n + 1) PROVE joined[i] = i - 1
    OBVIOUS
  <2>1. CASE i = 1
    BY <2>1, <1>4, <1>5
  <2>2. CASE i # 1
    <3>1. i - 1 \in 1..n
      BY <2>2, <1>1
    <3>2. objects[i - 1] = i - 1
      BY <3>1, <1>3
    <3>3. joined[i] = objects[i - 1]
      BY <2>2, <1>1, <1>5
    <3> QED BY <3>2, <3>3
  <2> QED BY <2>1, <2>2
<1> QED BY <1>3, <1>6, <1>7 DEF Numbered, joined

(* Each step of main keeps what is settled.                                *)
LEMMA MainStep == MainInv /\ [DriverNext]_allvars => MainInv'
<1> SUFFICES ASSUME MainInv, [DriverNext]_allvars PROVE MainInv'
  OBVIOUS
<1>a. Placed /\ NothingYet /\ Decided /\ SourcesIn /\ Converting /\ ExitCodeTells
  BY DEF MainInv
<1>b. options' = options /\ (Has("xex")' = Has("xex")) /\ \A n : Compiled(n)' = Compiled(n)
  BY DEF DriverNext, Prepare, Inspect, Build, Usage, OpenLog, GenerateSdk, RunTests, NoSources,
       ChooseMode, LexSource, EndLex, PreprocessSource, Examine, EndPreprocess, CompileSource,
       CompileOnly, AddObjects, AddLibrary, EndLibraries, Link, Linked, RunImagexex,
       ConvertImage, Converted, Success, allvars, Still, Has, Compiled
<1> USE <1>a, <1>b DEF MainInv, Placed, NothingYet, Decided, Converting, ExitCodeTells, IsBuild,
       Early, Late, Building, Running, Has, Return, Go, Proceed, Still, imaging, AtItem, Past
<1>1. CASE Usage
  BY <1>1 DEF Usage, SourcesIn
<1>2. CASE OpenLog
  BY <1>2 DEF OpenLog, SourcesIn
<1>3. CASE GenerateSdk
  BY <1>3 DEF GenerateSdk, SourcesIn
<1>4. CASE RunTests
  BY <1>4 DEF RunTests, SourcesIn
<1>5. CASE NoSources
  BY <1>5 DEF NoSources, SourcesIn
<1>6. CASE ChooseMode
  <2>1. Len(options.sources) \in Nat /\ Len(options.sources) # 0
    BY <1>6, EmptySeq, LenProperties DEF ChooseMode
  <2>2. item' = 1 /\ objects' = << >> /\ phase' \in {"lex", "preprocess", "compile"}
    BY <1>6 DEF ChooseMode, SourcesIn
  <2>3. /\ item' \in 1..(Len(options.sources) + 1) /\ Compiled(item' - 1)
        /\ objects' \in Seq(Nat) /\ Len(objects') = item' - 1
        /\ \A i \in 1..(item' - 1) : objects'[i] = i
    BY <2>1, <2>2, EmptySeq DEF Compiled
  <2>4. SourcesIn'
    BY <2>2, <2>3 DEF SourcesIn
  <2> QED BY <1>6, <2>1, <2>4 DEF ChooseMode
<1>7. CASE LexSource
  BY <1>7 DEF LexSource, Examine, SourcesIn
<1>8. CASE EndLex
  BY <1>8 DEF EndLex, SourcesIn
<1>9. CASE PreprocessSource
  BY <1>9 DEF PreprocessSource, Examine, SourcesIn
<1>10. CASE EndPreprocess
  BY <1>10 DEF EndPreprocess, SourcesIn
<1>11. CASE CompileSource
  <2>0. Len(options.sources) \in Nat /\ item \in 1..Len(options.sources) /\ phase = "compile"
    BY <1>11, LenProperties DEF CompileSource, SourcesIn
  <2>1. CASE options.sources[item] = "compiles"
    <3>1. /\ phase' = phase /\ item' = item + 1 /\ exit' = exit /\ objects' = Append(objects, item)
          /\ UNCHANGED <<linking, official, stage, file, xex>>
      BY <1>11, <2>1 DEF CompileSource
    <3>2. /\ objects' \in Seq(Nat) /\ Len(objects') = item' - 1
          /\ \A i \in 1..(item' - 1) : objects'[i] = i
      <4>1. /\ objects \in Seq(Nat) /\ Len(objects) = item - 1 /\ item \in Nat
            /\ \A i \in 1..(item - 1) : objects[i] = i
        BY <2>0 DEF SourcesIn
      <4>2. /\ objects' \in Seq(Nat) /\ Len(objects') = Len(objects) + 1
            /\ \A i \in 1..Len(objects) : objects'[i] = objects[i]
            /\ objects'[Len(objects) + 1] = item
        BY <3>1, <4>1, AppendProperties
      <4> QED BY <3>1, <4>1, <4>2
    <3>3. Compiled(item' - 1)
      <4>1. Compiled(item - 1)
        BY <2>0 DEF SourcesIn
      <4> QED BY <2>0, <2>1, <3>1, <4>1 DEF Compiled
    <3>4. SourcesIn'
      BY <2>0, <3>1, <3>2, <3>3 DEF SourcesIn
    <3> QED BY <2>0, <3>1, <3>4
  <2>2. CASE options.sources[item] # "compiles"
    BY <1>11, <2>0, <2>2 DEF CompileSource, SourcesIn
  <2> QED BY <2>1, <2>2
<1>12. CASE CompileOnly
  BY <1>12 DEF CompileOnly, SourcesIn
<1>13. CASE AddObjects
  BY <1>13, AllObjects DEF AddObjects, SourcesIn, Numbered
<1>14. CASE AddLibrary
  BY <1>14 DEF AddLibrary, SourcesIn, Numbered
<1>15. CASE EndLibraries
  BY <1>15 DEF EndLibraries, SourcesIn, Numbered
<1>16. CASE Link
  BY <1>16, WritersKeep DEF Link, local, SourcesIn, Numbered
<1>17. CASE Linked
  BY <1>17 DEF Linked, SourcesIn, Numbered
<1>18. CASE RunImagexex
  <2>1. CASE options.imagexex = "works"
    <3>1. official' = TRUE
      BY <1>18, <2>1 DEF RunImagexex
    <3> QED BY <1>18, <2>1, <3>1 DEF RunImagexex, SourcesIn, Numbered
  <2>2. CASE options.imagexex # "works"
    BY <1>18, <2>2 DEF RunImagexex, SourcesIn, Numbered
  <2> QED BY <2>1, <2>2
<1>19. CASE ConvertImage
  BY <1>19, WritersKeep DEF ConvertImage, local, SourcesIn, Numbered
<1>20. CASE Converted
  BY <1>20 DEF Converted, SourcesIn, Numbered
<1>21. CASE Success
  <2>1. /\ phase = "success" /\ phase' = "returned" /\ exit' = 0 /\ streams' = "own"
        /\ UNCHANGED <<linking, official, stage, file, xex>>
    BY <1>21 DEF Success
  <2>2. Compiled(Len(options.sources)) /\ linking = Numbered
    BY <2>1 DEF SourcesIn
  <2>3. DOMAIN options.sources = 1..Len(options.sources)
    BY LenProperties
  <2> QED BY <2>1, <2>2, <2>3 DEF Compiled, Numbered, SourcesIn
<1>22. CASE UNCHANGED allvars
  BY <1>22 DEF allvars, local, SourcesIn, Numbered
<1> QED BY <1>1, <1>2, <1>3, <1>4, <1>5, <1>6, <1>7, <1>8, <1>9, <1>10, <1>11, <1>12, <1>13,
       <1>14, <1>15, <1>16, <1>17, <1>18, <1>19, <1>20, <1>21, <1>22 DEF DriverNext, Prepare,
       Inspect, Build

(* The exit code tells what there is: after a failure no image and no XEX  *)
(* was written; a build that succeeds has compiled every source, linked    *)
(* all of them in order behind the standard library, and has been through  *)
(* the writers and the converter (main.cpp:240-249, 270-300, 305-372).     *)
THEOREM ExitCodeIsRight == DriverSpec => []ExitCodeTells
<1>1. MainInv => ExitCodeTells
  BY DEF MainInv
<1> QED BY <1>1, MainStarts, MainStep, PTL DEF DriverSpec

(* Whatever the command line: main lets the writers and the converter do   *)
(* nothing but their own steps, so what is proved of an image holds of the *)
(* one the program leaves (main.cpp:305-372).                              *)
THEOREM DriverWritesImages ==
  DriverSpec => Spec /\ [](OffsetsRight /\ SectionsApart /\ ImportsLinked /\ ProgramInXex)
<1>1. DriverInit => Init
  BY DEF DriverInit
<1>2. [DriverNext]_allvars => [Next]_vars
  <2>1. ASSUME DriverNext
        PROVE  Next \/ UNCHANGED <<program, imaging>>
    BY <2>1 DEF DriverNext, Prepare, Inspect, Build, Usage, OpenLog, GenerateSdk, RunTests,
                NoSources, ChooseMode, LexSource, EndLex, PreprocessSource, Examine,
                EndPreprocess, CompileSource, CompileOnly, AddObjects, AddLibrary, EndLibraries,
                Link, Linked, RunImagexex, ConvertImage, Converted, Success, Still, Next
  <2>2. UNCHANGED <<program, imaging>> => UNCHANGED vars
    BY DEF imaging, vars, importing, building, converting
  <2> QED BY <2>1, <2>2 DEF allvars
<1> QED BY <1>1, <1>2, OffsetsAlwaysRight, SectionsAlwaysApart, ImportsAreLinked, ProgramIsInXex, PTL
    DEF DriverSpec, Spec
=============================================================================
