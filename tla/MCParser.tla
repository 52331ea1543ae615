------------------------------ MODULE MCParser ------------------------------
(***************************************************************************)
(* Files for TLC to parse.  Structures are a few bytes long; every family   *)
(* of files varies one thing and keeps the rest plain.                      *)
(***************************************************************************)
EXTENDS Audit

Pair == <<<<0, 1>>, <<1, 1>>>>
PairAfter == <<<<2, 1>>, <<3, 1>>>>
Sizes == [SYMTAB |-> 2, RELA |-> 2, REL |-> 2, RELR |-> 2, DYNAMIC |-> 2]

Null == [type |-> "NULL", offset |-> 0, size |-> 0, entsize |-> 0, link |-> 0, plt |-> FALSE,
         entries |-> <<>>]
Plain == [len |-> 10, ident |-> "ELF64LE", phoff |-> 0, phnum |-> 0, phentsize |-> 0, shoff |-> 0,
          shnum |-> 0, shentsize |-> 0, section0 |-> <<0, 0>>, sections |-> <<>>, segments |-> <<>>,
          nuls |-> {}, stray |-> [name |-> 0, weak |-> TRUE],
         dense |-> {}]
NoSegment == [type |-> "LOAD", offset |-> 0, filesz |-> 0]

Rejected ==
    {[Plain EXCEPT !.len = l, !.ident = i] :
        l \in {3, 4}, i \in {"ELF64LE", "BadMagic", "UnsupportedClass", "UnsupportedData"}}

\* Tables anywhere, with short, exact and long entries and counts that lie in
\* section 0, over one another and over the end of the file.
Tables ==
    {[Plain EXCEPT !.phoff = po, !.phnum = pn, !.phentsize = ps, !.shoff = so, !.shnum = sn,
                   !.shentsize = ss, !.section0 = <<z, 2>>,
                   !.sections = <<Null, Null>>, !.segments = <<NoSegment, NoSegment>>] :
        po \in {0, 4, 7}, pn \in {1, 2, 9}, ps \in {0, 1, 3},
        so \in {0, 3, 5}, sn \in {0, 1}, ss \in {1, 2}, z \in {0, 2, 30}}

\* A file of the given sections: headers to 4, their table from 4 on.
Of(len, secs) ==
    [Plain EXCEPT !.len = len, !.shoff = 4, !.shnum = Len(secs), !.shentsize = 1, !.sections = secs]
Body(type, offset, size, entsize) ==
    [Null EXCEPT !.type = type, !.offset = offset, !.size = size, !.entsize = entsize]

\* Two bodies apart, touching, over one another, over a table, past the end.
Bodies ==
    {Of(15, <<Body(t, o, 4, e), Body(u, p, n, 2)>>) :
        t \in {"STRTAB", "SYMTAB", "NOTE"}, o \in {6, 8}, e \in {0, 3},
        u \in {"SYMTAB", "NOTE", "NOBITS", "OTHER"}, p \in {5, 6, 9, 10, 13}, n \in {0, 1, 3, 5}}

Strings == {[Of(10, <<Body("STRTAB", 5, 4, 0)>>) EXCEPT !.nuls = z] : z \in SUBSET (5 .. 9)}

Notes ==
    {Of(14, <<[Body("NOTE", 5, n, 0) EXCEPT !.entries = <<<<a, b>>, <<c, 0>>>>]>>) :
        n \in {1, 4, 7, 8}, a \in 0 .. 3, b \in {0, 1, 4}, c \in {0, 2}}

Relr ==
    {Of(16, <<[Body("RELR", 5, n, 0) EXCEPT !.entries = <<u, v, w, x>>]>>) :
        n \in {3, 8, 9}, u \in {0, 4, 7, 38}, v \in {1, 3, 5, 7, 10}, w \in {3, 5, 7, 12}, x \in {5, 7}}

Tags ==
    {[tag |-> t, val |-> v] : t \in {"INIT_ARRAY", "INIT_ARRAYSZ"}, v \in {1, 2}}
        \cup {[tag |-> "NULL", val |-> 0], [tag |-> "NEEDED", val |-> 1], [tag |-> "SONAME", val |-> 21],
              [tag |-> "FLAGS", val |-> 8], [tag |-> "INIT", val |-> 3]}
Dynamics ==
    {[Of(18, <<[Body("DYNAMIC", 6, n, 0) EXCEPT !.entries = <<a, b, c>>, !.link = 1],
               Body("STRTAB", 13, 4, 0)>>) EXCEPT !.nuls = {13, 16}] :
        n \in {5, 6}, a, c \in Tags, b \in {d \in Tags : d.tag \in {"INIT_ARRAY", "NULL", "NEEDED"}}}
\* Two dynamic tables, the one that comes later in the file being read first.
TwoDynamic ==
    {Of(18, <<[Body("DYNAMIC", 12, 4, 0) EXCEPT !.entries = <<a, b>>],
              [Body("DYNAMIC", 7, 4, 0) EXCEPT !.entries = <<c, d>>]>>) :
        a, b, c, d \in {[tag |-> "INIT_ARRAY", val |-> 1], [tag |-> "INIT_ARRAY", val |-> 2],
                       [tag |-> "INIT_ARRAYSZ", val |-> 1], NoEntry}}

Relocations ==
    {[Of(18, <<[Body(t, 7, 4, 0) EXCEPT !.link = l, !.plt = q,
                    !.entries = <<[offset |-> 1, sym |-> k], [offset |-> 2, sym |-> 0]>>],
               [Body("SYMTAB", 11, 4, 0) EXCEPT !.link = m,
                    !.entries = <<[name |-> 0, weak |-> FALSE], [name |-> 1, weak |-> TRUE]>>],
               Body("STRTAB", 15, 3, 0)>>) EXCEPT !.nuls = {15, 17}] :
        t \in {"RELA", "REL"}, l \in {0, 1, 9}, q \in BOOLEAN, k \in 0 .. 2, m \in {1, 2, 9}}

Programs ==
    {[Plain EXCEPT !.phoff = 4, !.phnum = 2, !.phentsize = 2,
                   !.segments = <<[type |-> t, offset |-> o, filesz |-> 2],
                                  [type |-> u, offset |-> 9, filesz |-> 3]>>] :
        t, u \in {"INTERP", "DYNAMIC", "LOAD"}, o \in {8, 11}}

\* Holes at the end and before it, in a segment or in none, of either entropy;
\* without a section, and with one whose entries do not fill it.
Stripped ==
    {[Plain EXCEPT !.len = l, !.phoff = 4, !.phnum = 1, !.phentsize = 2,
                   !.segments = <<[type |-> "LOAD", offset |-> 0,
                                   filesz |-> IF n < l THEN n ELSE l]>>] :
        l \in 7 .. 11, n \in {0, 6, 11}}
Trailing ==
    {[Of(l, <<Body("SYMTAB", o, n, 2)>>) EXCEPT !.dense = d] :
        l \in 12 .. 16, o \in {5, 10}, n \in {2, 3}, d \in {{}, 5 .. 15}}

AllElfs == Rejected \cup Tables \cup Bodies \cup Strings \cup Notes \cup Relr \cup Dynamics \cup TwoDynamic
              \cup Relocations \cup Programs \cup Stripped \cup Trailing
=============================================================================
