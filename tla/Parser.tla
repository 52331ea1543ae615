------------------------------- MODULE Parser -------------------------------
(***************************************************************************)
(* The ELF64 parser (elfa-parse/src/parse.rs): it reads the headers, claims *)
(* tables, entries and fields, then the body of every section, and hands    *)
(* the builder over to fill_unclaimed and finish.  The builder is module    *)
(* Coverage; every claim goes through its Push, and `?` ends the parse at   *)
(* the first one it refuses.  The loops over entries, texts and notes take   *)
(* one step per turn.                                                       *)
(*                                                                          *)
(* The bytes of a file are the record elf: what the reader would decode at  *)
(* the places the code reads.  Structures that overlap may so hold          *)
(* unrelated values: the model has every file the code can meet and more.   *)
(* Texts are the bytes up to the next NUL and taken to be valid UTF-8.      *)
(***************************************************************************)
EXTENDS Queries

CONSTANTS
    Elfs,           \* the files to parse
    IdentTable, EhdrTable, PhdrTable, ShdrTable,  \* fields as <<offset, length>>
    SizeField, InfoField,   \* sh_size and sh_info, by place in ShdrTable
    PN_XNUM,
    MaxU32,         \* the largest u32
    EntrySize,      \* what an entry size of 0 stands for, by section type
    WordBytes,      \* 8: a RELR word and what it relocates
    RelrBits,       \* 63: the words one bitmap covers
    NoteHeader, NoteAlign   \* 12 and 4

\* The tables of the code, at their true widths.
Elf64Ident == <<<<0, 4>>, <<4, 1>>, <<5, 1>>, <<6, 1>>, <<7, 1>>, <<8, 1>>, <<9, 7>>>>
Elf64Ehdr == <<<<16, 2>>, <<18, 2>>, <<20, 4>>, <<24, 8>>, <<32, 8>>, <<40, 8>>, <<48, 4>>,
               <<52, 2>>, <<54, 2>>, <<56, 2>>, <<58, 2>>, <<60, 2>>, <<62, 2>>>>
Elf64Phdr == <<<<0, 4>>, <<4, 4>>, <<8, 8>>, <<16, 8>>, <<24, 8>>, <<32, 8>>, <<40, 8>>, <<48, 8>>>>
Elf64Shdr == <<<<0, 4>>, <<4, 4>>, <<8, 8>>, <<16, 8>>, <<24, 8>>, <<32, 8>>, <<40, 4>>, <<44, 4>>,
               <<48, 8>>, <<56, 8>>>>

TableEnd(t) == t[Len(t)][1] + t[Len(t)][2]
Tiles(t, from) ==
    /\ t[1][1] = from
    /\ \A k \in 1 .. Len(t) - 1 : t[k][1] + t[k][2] = t[k + 1][1]

ASSUME Elf64TablesTile ==
    /\ Tiles(Elf64Ident, 0) /\ Tiles(Elf64Ehdr, TableEnd(Elf64Ident)) /\ TableEnd(Elf64Ehdr) = 64
    /\ Tiles(Elf64Phdr, 0) /\ TableEnd(Elf64Phdr) = 56
    /\ Tiles(Elf64Shdr, 0) /\ TableEnd(Elf64Shdr) = 64
    /\ \A t \in {Elf64Ident, Elf64Ehdr, Elf64Phdr, Elf64Shdr} : t \in Seq(Nat \X (Nat \ {0}))
ASSUME TablesAssumption ==
    /\ \A t \in {IdentTable, EhdrTable, PhdrTable, ShdrTable} :
          t \in Seq(Nat \X (Nat \ {0})) /\ t # <<>>
    /\ Tiles(IdentTable, 0) /\ Tiles(EhdrTable, TableEnd(IdentTable))
    /\ Tiles(PhdrTable, 0) /\ Tiles(ShdrTable, 0)
    /\ {SizeField, InfoField} \subseteq DOMAIN ShdrTable

EntryTypes == {"SYMTAB", "RELA", "REL", "RELR", "DYNAMIC"}

ASSUME SizesAssumption ==
    /\ \A t \in EntryTypes : EntrySize[t] \in Nat \ {0}
    /\ {NoteHeader, NoteAlign} \subseteq Nat \ {0}
    /\ MaxU32 \in 0 .. MaxU64
    /\ {WordBytes, RelrBits} \subseteq Nat

VARIABLES
    elf,        \* the file
    step,       \* what parse does next
    queue,      \* claims the function at work has still to push
    loop,       \* the loop it is in: what it is over, and how far it is
    sec,        \* sections whose body has been read
    summary,    \* the Summary
    error       \* the ParseError, or "none"

parserVars == <<elf, step, queue, loop, sec, summary, error>>
allVars == <<vars, parserVars>>

F == PRIMARY
NextId == Len(claims) + 1
At(start, len, parent) ==
    [file |-> F, start |-> start, len |-> len, parent |-> parent, kind |-> "Structure"]
SatMul(a, b) == IF a * b > MaxU64 THEN MaxU64 ELSE a * b

\* Reader::slice_at: no addition wraps, and nothing past the end is read.
InFile(off, len) == off + len <= elf.len

\* Reader::cstr_at: the bytes up to the next NUL, at most max of them.
Text(off, max) ==
    LET end == FX!Min({elf.len, SatAdd(off, max)})
        nuls == {p \in elf.nuls : off <= p /\ p < end}
    IN  IF off > elf.len THEN 0 ELSE (IF nuls = {} THEN end ELSE FX!Min(nuls)) - off

-----------------------------------------------------------------------------
(* Headers.                                                                *)

EHDR64_SIZE == TableEnd(EhdrTable)
SHDR64_SIZE == TableEnd(ShdrTable)

\* Mutant of Fields: fields that do not fit the entry are claimed all the same.
FieldsUnchecked(table, base, size, parent) ==
    [k \in DOMAIN table |-> At(base + table[k][1], table[k][2], parent)]

\* The fields of one entry, up to the first that does not fit it.
Fields(table, base, size, parent) ==
    [k \in {j \in DOMAIN table : table[j][1] + table[j][2] <= size} |->
        At(base + table[k][1], table[k][2], parent)]

\* Counts that do not fit their field are in section 0.
ReadInSection0(e, k) ==
    IF e.shoff + ShdrTable[k][1] + ShdrTable[k][2] <= e.len THEN e.section0[k] ELSE 0
HasSection0(e) == e.shoff # 0 /\ e.shentsize >= SHDR64_SIZE
ShnumOf(e) == IF e.shnum = 0 /\ HasSection0(e) THEN ReadInSection0(e, SizeField) ELSE e.shnum
PhnumOf(e) == IF e.phnum = PN_XNUM /\ HasSection0(e) THEN ReadInSection0(e, InfoField) ELSE e.phnum
Shnum == ShnumOf(elf)
Phnum == PhnumOf(elf)

Elements(q) == {q[k] : k \in DOMAIN q}

NoTable(off, num, size) == off = 0 \/ num = 0 \/ size = 0
Sections == IF NoTable(elf.shoff, Shnum, elf.shentsize) THEN <<>> ELSE SubSeq(elf.sections, 1, Shnum)
Segments == IF NoTable(elf.phoff, Phnum, elf.phentsize) THEN <<>> ELSE SubSeq(elf.segments, 1, Phnum)

\* What the first bytes make of a file.
Idents == {"ELF64LE", "BadMagic", "UnsupportedClass", "UnsupportedData"}

\* What a file is: words the reader can return, and a header for every place in a
\* section table that lies in the file.
ASSUME ElfsAssumption == \A e \in Elfs :
    /\ {e.len, e.phoff, e.phnum, e.phentsize, e.shoff, e.shnum, e.shentsize} \subseteq U64
    /\ e.ident \in Idents
    /\ e.section0 \in [DOMAIN ShdrTable -> U64]
    /\ e.nuls \subseteq Nat
    /\ e.shoff + ShnumOf(e) * e.shentsize <= e.len => 1 .. ShnumOf(e) \subseteq DOMAIN e.sections
    /\ \A k \in DOMAIN e.sections :
          LET s == e.sections[k]
          IN  /\ {s.offset, s.size, s.entsize} \subseteq U64
              /\ s.type = "NOTE" => s.entries \in Seq(U64 \X U64)
              /\ s.type = "RELR" => s.entries \in Seq(U64)

-----------------------------------------------------------------------------
(* Sections.                                                               *)

HasBody(s) == s.type \notin {"NULL", "NOBITS"} /\ s.size > 0 /\ InFile(s.offset, s.size)

SectionAt(link) == IF link + 1 \in DOMAIN Sections THEN {Sections[link + 1]} ELSE {}

NoName == <<0, 0>>

\* A name is where its text lies; an empty text is no name.  The text is looked
\* for within the length of the table, counted from the name and not from the
\* start of the table.
Name(strtab, off) ==
    LET at(s) == SatAdd(s.offset, off)
        found == {<<at(s), Text(at(s), s.size)>> : s \in strtab}
    IN  IF \E n \in found : n[2] > 0 THEN CHOOSE n \in found : TRUE ELSE NoName

\* Entries are whole, from the start of the section; what is left over is nobody's.
SizeOf(s) == IF s.type = "RELR" \/ s.entsize = 0 THEN EntrySize[s.type] ELSE s.entsize
EntryAt(s, k) == <<s.offset + (k - 1) * SizeOf(s), SizeOf(s)>>
Entry(s, k, none) == IF k \in DOMAIN s.entries THEN s.entries[k] ELSE none

-----------------------------------------------------------------------------
(* The loops over the fields of the header, the entries of a table or       *)
(* section, the texts of a string table and the notes of a section: each    *)
(* turn claims what lies off bytes into the region, as a child of the       *)
(* region's claim id.                                                       *)

NoLoop == [kind |-> "none", id |-> None, start |-> 0, size |-> 0, entry |-> 0,
           off |-> 0, n |-> 1, cursor |-> 0]

Loop(kind, id, start, size, entry) ==
    [NoLoop EXCEPT !.kind = kind, !.id = id, !.start = start, !.size = size, !.entry = entry]

\* parse_strtab: a text and its NUL, if it has one.  That is never 0 bytes, so
\* the code's max(1) changes nothing.
StringLen(at, left) == IF Text(at, left) < left THEN Text(at, left) + 1 ELSE left

\* parse_notes: header, name and descriptor, each padded, while they fit.
AlignNote(v) == ((v + NoteAlign - 1) \div NoteAlign) * NoteAlign
NoteLen(s, n) ==
    LET sizes == Entry(s, n, <<0, 0>>) IN NoteHeader + AlignNote(sizes[1]) + AlignNote(sizes[2])

EntryLen ==
    CASE loop.kind = "EHDR" -> IF loop.n = 1 THEN TableEnd(IdentTable) ELSE EhdrTable[loop.n - 1][2]
      [] loop.kind = "STRTAB" -> StringLen(loop.start + loop.off, loop.size - loop.off)
      [] loop.kind = "NOTE" -> NoteLen(Sections[sec], loop.n)
      [] OTHER -> loop.entry

\* Another turn.  Of a table or section of entries, off = (n - 1) * entry and the
\* entries that fit are size / entry many.
More ==
    CASE loop.kind = "none" -> FALSE
      [] loop.kind = "EHDR" -> loop.n <= 1 + Len(EhdrTable)
      [] loop.kind = "STRTAB" -> loop.off < loop.size
      [] loop.kind = "NOTE" -> loop.off + NoteHeader <= loop.size /\ loop.off + EntryLen <= loop.size
      [] OTHER -> loop.off + EntryLen <= loop.size

\* e_ident is the first part of the header; the others have no parts of their own.
EntryFields ==
    CASE loop.kind = "EHDR" /\ loop.n = 1 -> IdentTable
      [] loop.kind = "SHDR" -> ShdrTable
      [] loop.kind = "PHDR" -> PhdrTable
      [] OTHER -> <<>>

\* One turn: the entry, then those of its fields it has room for.
EntryClaims ==
    LET at == loop.start + loop.off
    IN  <<At(at, EntryLen, loop.id)>> \o Fields(EntryFields, at, EntryLen, NextId)

-----------------------------------------------------------------------------
(* What an entry adds to the summary.                                      *)

NoSummary == [interp |-> {}, needed |-> <<>>, soname |-> NoName, bindNow |-> FALSE,
              hasRelr |-> FALSE, hasDynamic |-> FALSE, segments |-> <<>>, relocs |-> <<>>,
              init |-> {}, initArray |-> {}]

\* The first interpreter that lies in the file counts.
WithSegment(m, seg) ==
    [m EXCEPT !.segments = Append(@, seg),
              !.hasDynamic = @ \/ seg.type = "DYNAMIC",
              !.interp = IF seg.type = "INTERP" /\ @ = {} /\ seg.offset <= elf.len
                         THEN {<<seg.offset, Text(seg.offset, seg.filesz)>>} ELSE @]

\* The symbol a relocation names, by way of the table sh_link names and the
\* strings that table names.  What is no symbol table is read as one.  A symbol
\* is weak if it is undefined, too.
Symbol(tab, k) ==
    IF tab.type = "SYMTAB" THEN Entry(tab, k + 1, elf.stray) ELSE elf.stray

SymbolName(s, k) ==
    IF k = 0 \/ SectionAt(s.link) = {} THEN NoName
    ELSE LET tab == CHOOSE t \in SectionAt(s.link) : TRUE
         IN  Name(SectionAt(tab.link), Symbol(tab, k).name)

Reloc(table, offset, name, weak, at) ==
    [table |-> table, offset |-> offset, symbol |-> name, weak |-> weak, at |-> at]

RelocOf(s, k) ==
    LET e == Entry(s, k, [offset |-> 0, sym |-> 0])
        name == SymbolName(s, e.sym)
    IN  Reloc(IF s.plt THEN "JmpRel" ELSE IF s.type = "RELA" THEN "Rela" ELSE "Rel",
              e.offset, name,
              name # NoName /\ \E tab \in SectionAt(s.link) : Symbol(tab, e.sym).weak,
              EntryAt(s, k)[1])

\* parse_relr: an even word is an address, an odd one a bitmap of the words
\* that follow what was relocated before.
IsBase(word) == word % 2 = 0
BitSet(word, b) == (word \div 2 ^ (b + 1)) % 2 = 1
BitsOf(word) == {b \in 0 .. RelrBits - 1 : BitSet(word, b)}
Nth(bits, n) == CHOOSE b \in bits : Cardinality({c \in bits : c < b}) = n - 1

\* Mutant of NextCursor: a bitmap is taken to cover as many words as it has bits,
\* the flag among them.
NextCursorByBits(from, word) ==
    IF IsBase(word) THEN SatAdd(word, WordBytes) ELSE SatAdd(from, (RelrBits + 1) * WordBytes)

NextCursor(from, word) ==
    IF IsBase(word) THEN SatAdd(word, WordBytes) ELSE SatAdd(from, RelrBits * WordBytes)

RelrRelocs(s, k, from) ==
    LET word == Entry(s, k, 0)
        bits == BitsOf(word)
        addr == IF IsBase(word) THEN <<word>>
                ELSE [n \in 1 .. Cardinality(bits) |-> SatAdd(from, Nth(bits, n) * WordBytes)]
    IN  [n \in DOMAIN addr |-> Reloc("Relr", addr[n], NoName, FALSE, EntryAt(s, k)[1])]

\* parse_dynamic, one entry.  DT_NULL ends nothing: it only changes a note.
DF_BIND_NOW == 8
AddressIn(a) == IF a = {} THEN 0 ELSE (CHOOSE p \in a : TRUE)[1]
SizeIn(a) == IF a = {} THEN 0 ELSE (CHOOSE p \in a : TRUE)[2]

\* Mutant of ReadDynamic: the size of the array starts it anew.
ReadDynamicAnew(m, s, e) ==
    CASE e.tag = "INIT_ARRAY" -> [m EXCEPT !.initArray = {<<e.val, SizeIn(@)>>}]
      [] e.tag = "INIT_ARRAYSZ" -> [m EXCEPT !.initArray = {<<0, e.val>>}]
      [] OTHER -> m

\* A name lies where a u32 says; a value that is none is taken for 0.
NameOffset(val) == IF val <= MaxU32 THEN val ELSE 0

ReadDynamic(m, s, e) ==
    LET name == Name(SectionAt(s.link), NameOffset(e.val))
    IN  CASE e.tag = "NEEDED" /\ name # NoName -> [m EXCEPT !.needed = Append(@, name)]
          [] e.tag = "SONAME" /\ name # NoName -> [m EXCEPT !.soname = name]
          [] e.tag = "FLAGS" /\ (e.val \div DF_BIND_NOW) % 2 = 1 -> [m EXCEPT !.bindNow = TRUE]
          [] e.tag = "INIT" -> [m EXCEPT !.init = {e.val}]
          [] e.tag = "INIT_ARRAY" -> [m EXCEPT !.initArray = {<<e.val, SizeIn(@)>>}]
          [] e.tag = "INIT_ARRAYSZ" -> [m EXCEPT !.initArray = {<<AddressIn(@), e.val>>}]
          [] OTHER -> m

NoEntry == [tag |-> "NULL", val |-> 0]

\* What the turn at hand learns.
WithEntry(m) ==
    LET s == Sections[sec]
    IN  CASE loop.kind = "PHDR" -> WithSegment(m, Segments[loop.n])
          [] loop.kind \in {"RELA", "REL"} -> [m EXCEPT !.relocs = Append(@, RelocOf(s, loop.n))]
          [] loop.kind = "RELR" -> [m EXCEPT !.relocs = @ \o RelrRelocs(s, loop.n, loop.cursor)]
          [] loop.kind = "DYNAMIC" -> ReadDynamic(m, s, Entry(s, loop.n, NoEntry))
          [] OTHER -> m

-----------------------------------------------------------------------------
(* parse.                                                                  *)

\* The function called last has returned.
Ready(s) == step = s /\ queue = <<>> /\ ~More /\ stage = "open"

Fail(e) ==
    /\ error' = e
    /\ step' = "stopped"
    /\ UNCHANGED <<elf, queue, loop, sec, summary, vars>>

Identify ==
    IF elf.len < EHDR64_SIZE THEN "TooSmall"
    ELSE IF elf.ident # "ELF64LE" THEN elf.ident ELSE "none"

Reject == Ready("ident") /\ Identify # "none" /\ Fail(Identify)

ParseEhdr ==
    /\ Ready("ident")
    /\ Identify = "none"
    /\ AddFile(F, elf.len)
    /\ queue' = <<At(0, EHDR64_SIZE, None)>>
    /\ loop' = Loop("EHDR", NextId, 0, EHDR64_SIZE, 0)
    /\ step' = "shdrs"
    /\ UNCHANGED <<elf, sec, summary, error>>

\* parse_shdrs and parse_phdrs: absent, cut off by the end of the file, or claimed.
ParseTable(here, next, kind, off, num, size) ==
    /\ Ready(here)
    /\ IF ~NoTable(off, num, size) /\ ~InFile(off, SatMul(num, size)) THEN Fail("Truncated")
       ELSE /\ IF NoTable(off, num, size) THEN UNCHANGED queue /\ loop' = NoLoop
               ELSE /\ queue' = <<At(off, SatMul(num, size), None)>>
                    /\ loop' = Loop(kind, NextId, off, SatMul(num, size), size)
            /\ step' = next
            /\ UNCHANGED <<elf, sec, summary, error, vars>>

ParseShdrs == ParseTable("shdrs", "phdrs", "SHDR", elf.shoff, Shnum, elf.shentsize)
ParsePhdrs == ParseTable("phdrs", "bodies", "PHDR", elf.phoff, Phnum, elf.phentsize)

\* One turn of the loop over the sections: the body, then what its type says of
\* its inside.
ParseBody ==
    /\ Ready("bodies")
    /\ sec < Len(Sections)
    /\ sec' = sec + 1
    /\ LET s == Sections[sec + 1]
       IN  IF ~HasBody(s) THEN UNCHANGED <<queue, summary>> /\ loop' = NoLoop
           ELSE /\ queue' = <<At(s.offset, s.size, None)>>
                /\ loop' = CASE s.type \in EntryTypes -> Loop(s.type, NextId, s.offset, s.size, SizeOf(s))
                             [] s.type \in {"STRTAB", "NOTE"} -> Loop(s.type, NextId, s.offset, s.size, 0)
                             [] OTHER -> NoLoop
                /\ summary' = [summary EXCEPT !.hasRelr = @ \/ s.type = "RELR"]
    /\ UNCHANGED <<elf, step, error, vars>>

\* A turn of the loop at work.
NextEntry ==
    /\ step # "stopped" /\ stage = "open"
    /\ queue = <<>>
    /\ More
    /\ queue' = EntryClaims
    /\ loop' = [loop EXCEPT !.off = @ + EntryLen, !.n = @ + 1,
                            !.cursor = IF loop.kind = "RELR"
                                       THEN NextCursor(@, Entry(Sections[sec], loop.n, 0)) ELSE @]
    /\ summary' = WithEntry(summary)
    /\ UNCHANGED <<elf, step, sec, error, vars>>

\* The function at work pushes its next claim; a refusal ends the parse.
PushClaim ==
    /\ queue # <<>>
    /\ step # "stopped"
    /\ Push(Head(queue))
    /\ queue' = Tail(queue)
    /\ IF Check(Head(queue)) = "ok" THEN UNCHANGED <<step, error>>
       ELSE step' = "stopped" /\ error' = "Coverage"
    /\ UNCHANGED <<elf, loop, sec, summary>>

FillUnclaimed ==
    /\ Ready("bodies")
    /\ sec = Len(Sections)
    /\ FillStart
    /\ step' = "finish"
    /\ UNCHANGED <<elf, queue, loop, sec, summary, error>>

Finish ==
    /\ Ready("finish")
    /\ FinishStart
    /\ step' = "finished"
    /\ UNCHANGED <<elf, queue, loop, sec, summary, error>>

Scan == (FillNext \/ FinishNext) /\ UNCHANGED parserVars

ParserInit ==
    /\ Init
    /\ elf \in Elfs
    /\ step = "ident" /\ queue = <<>> /\ loop = NoLoop /\ sec = 0
    /\ summary = NoSummary
    /\ error = "none"

ParserNext ==
    \/ Reject \/ ParseEhdr \/ ParseShdrs \/ ParsePhdrs \/ ParseBody
    \/ NextEntry \/ PushClaim \/ FillUnclaimed \/ Finish \/ Scan

\* parse is a call: nothing but its own steps keeps it from its end.
ParserSpec == ParserInit /\ [][ParserNext]_allVars /\ WF_allVars(ParserNext)

-----------------------------------------------------------------------------
(* Properties.                                                             *)

\* The regions the file itself sets out: the header (0), the two tables and the
\* bodies of sections; <<0, 0>> is none.
TableExtent(off, num, size) == IF NoTable(off, num, size) THEN <<0, 0>> ELSE <<off, num * size>>
Regions == -2 .. Len(Sections)
Region(k) ==
    CASE k = -2 -> TableExtent(elf.phoff, Phnum, elf.phentsize)
      [] k = -1 -> TableExtent(elf.shoff, Shnum, elf.shentsize)
      [] k = 0 -> <<0, EHDR64_SIZE>>
      [] OTHER -> IF HasBody(Sections[k]) THEN <<Sections[k].offset, Sections[k].size>> ELSE <<0, 0>>

InRegion(k, b) == Region(k)[1] <= b /\ b < Region(k)[1] + Region(k)[2]
Shared(b) == \E j, k \in Regions : j # k /\ InRegion(j, b) /\ InRegion(k, b)

\* No claim the parser makes is refused: whatever entry sizes, counts, offsets
\* and padded lengths the file states, a field stays in its entry, an entry in
\* its table and a note in its section, and everything in the file.
NoClaimIsRefused == error # "Coverage" /\ reply \notin Refusals

\* finish refuses a file only for what the file says: never for a gap, and for
\* an overlap only where two of the regions it sets out share the bytes named.
OverlapIsTheFiles ==
    /\ result.kind # "Gap"
    /\ result.kind = "LeafOverlap" =>
          \A b \in result.start .. (result.start + result.len - 1) : Shared(b)

\* The entries of all sections of a type, as <<section, place in it>>.
Count(s) == s.size \div SizeOf(s)
IsBodyOf(j, type) == HasBody(Sections[j]) /\ Sections[j].type = type
EntriesOf(type) ==
    UNION {{<<j, k>> : k \in 1 .. Count(Sections[j])} : j \in {i \in DOMAIN Sections : IsBodyOf(i, type)}}

\* Where a bitmap in word k begins, without a running cursor: j words after a base
\* it is (j - 1) bitmaps past the word after it, and bitmaps before any base begin
\* at 0.
RelrStart(s, k) ==
    LET bases == {j \in 1 .. k - 1 : IsBase(Entry(s, j, 0))}
        last == FX!Max(bases)
    IN  IF bases = {} THEN (k - 1) * (RelrBits * WordBytes)
        ELSE Entry(s, last, 0) + WordBytes + (k - 1 - last) * (RelrBits * WordBytes)

RelrExpected(s, k) ==
    LET word == Entry(s, k, 0)
        at == EntryAt(s, k)[1]
    IN  IF IsBase(word) THEN {<<at, word>>}
        ELSE {<<at, SatAdd(RelrStart(s, k), b * WordBytes)>> : b \in BitsOf(word)}

\* Every relocation packed in RELR words is unpacked at its address, and no other.
RelrIsUnpacked ==
    stage = "done" =>
        {<<r.at, r.offset>> : r \in {q \in Elements(summary.relocs) : q.table = "Relr"}}
            = UNION {RelrExpected(Sections[p[1]], p[2]) : p \in EntriesOf("RELR")}

Dynamic(p) == Entry(Sections[p[1]], p[2], NoEntry)
Tagged(P, tag) == {p \in P : Dynamic(p).tag = tag}
NotAfter(p, q) == p[1] < q[1] \/ (p[1] = q[1] /\ p[2] <= q[2])
LastVal(P) ==
    IF P = {} THEN 0 ELSE Dynamic(CHOOSE q \in P : \A p \in P : NotAfter(p, q)).val

Paired(starts, sizes) ==
    IF starts \cup sizes = {} THEN {} ELSE {<<LastVal(starts), LastVal(sizes)>>}

\* What the parser notes as "padding past the end" of its table.
Padding == {p \in EntriesOf("DYNAMIC") : \E k \in 1 .. p[2] - 1 : Dynamic(<<p[1], k>>).tag = "NULL"}

\* DT_INIT_ARRAY and its size are paired in whichever order the dynamic entries of
\* the file come: the last of each in its table counts, and one that is missing is
\* 0 - where neither stands in the padding, which the code reads like the rest.
InitArrayIsPaired ==
    LET starts == Tagged(EntriesOf("DYNAMIC"), "INIT_ARRAY")
        sizes == Tagged(EntriesOf("DYNAMIC"), "INIT_ARRAYSZ")
    IN  stage = "done" /\ (starts \cup sizes) \cap Padding = {} =>
            summary.initArray = Paired(starts, sizes)

\* The claim under the cursor is the deepest, the one that accounts for the byte;
\* only where that fills its parent it may be another of the same span.  A hole
\* between structures is said to be after the one that ends where it starts and
\* before the one that starts where it ends.  All this where nesting is well-formed:
\* the file's regions are disjoint and no hole crosses the end of a structure.
SameSpan(i, j) == claims[i].start = claims[j].start /\ claims[i].len = claims[j].len
FillsItsParent(i) == claims[i].parent # None /\ SameSpan(i, claims[i].parent)
Crosses(i, j) == Overlaps(claims[i], claims[j]) /\ ~ContainsSpan(claims[i], claims[j])
                    /\ ~ContainsSpan(claims[j], claims[i])

HoverIsTheLeaf ==
    result.kind = "Ok" /\ (\A b \in 0 .. elf.len - 1 : ~Shared(b))
        /\ (\A i \in Filler, j \in Ids : ~Crosses(i, j)) =>
        /\ \A b \in 0 .. elf.len - 1 : \A i \in LeavesAt(F, b) :
              /\ SameSpan(InnermostAt(F, b), i)
              /\ InnermostAt(F, b) = i \/ FillsItsParent(i)
        /\ \A i \in Filler \cap Roots :
              LET tops(b) == {Top(j) : j \in LeavesAt(F, b)}
              IN  /\ {Context(i).after} \ {None} = tops(claims[i].start - 1)
                  /\ {Context(i).before} \ {None} = tops(SpanEnd(claims[i]))

\* parse returns, whatever the file: the loops over texts, notes, entries and
\* holes all end.
ParseReturns == <>(step = "stopped" \/ stage = "done")
=============================================================================
