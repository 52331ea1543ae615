# A formal model of elf-anatomy

elf-anatomy explains an ELF file byte by byte and shows how it is loaded. This
directory holds TLA+ modules that model its core, TLC configurations that check
them on small instances, and theorems about them that the TLA+ proof system
(TLAPS, tlapm 1.4.5) has checked. `PROJECT.json` lists, for every definition, the
source lines it models; for every property, a mutation of the code that breaks it;
and the hazards the properties are for.

    tlasany M.tla                      parse a module
    tlc -config X.cfg M                check module M with the configuration X
    tlapm MProofs.tla                  check the proofs

## 1. The system

A Rust workspace and one web page. Nothing in the Rust crates runs concurrently
and nothing is persisted: what is hard there is order (of scans, of relocations,
of objects), arithmetic at boundaries (pages, saturating ends, empty spans) and
several derivations of the same fact that have to agree. The web page is where
events race.

| Component | State | Operations | Used by |
|---|---|---|---|
| Span arithmetic, `elfa-parse/src/span.rs` | none | `end`, `contains`, `contains_span`, `overlaps` | everything |
| Claim tree, `coverage.rs`, `claim.rs` | declared files, claims, child lists | `add_file`, `push`, `fill_unclaimed`, `finish` | parser; the finished `Coverage` by everyone |
| Interval index, `index.rs` | sorted entries with a running maximum | `build`, `at`, `innermost`, `overlapping` | claim tree |
| Parser driver, `parse.rs`, `reader.rs`, `elf.rs` | the builder, a summary | `parse` and its tables | cli, web, load |
| Memory image and timeline, `elfa-model` | mappings, residents; steps; the state after a step | `from_segments`, `vaddr_of`, `resident_bytes`, `plan`, `state_at`, `vmas`, `prot_at` | cli, web, render, audit |
| Dependency closure, `elfa-load` | objects, queue, next base | `load`, `relocation_order` | cli |
| Loader trace, `elfa-trace` | the pending search, scope and link map of an `LD_DEBUG` log | `parse_ld_debug`, `parse_maps` | cli |
| Structural audit, `elfa-audit` | none | findings over summary, coverage and image | cli, web |
| Rendering, `elfa-render` | none; timers in the embedded player | `render_morph`, `render_step` | cli, web |
| Web session, `elfa-web` | one parsed file | `new`, `inspect`, `renderStep` | the page |
| Browser page, `docs/index.html` | session, track, frame, timer, cache, pinned byte | event handlers | the user |
| Command line, `elfa-cli` | none | one command after the other | the user |

How they meet: `parse` pushes claims into a `CoverageBuilder` and collects a
`Summary`; `finish` turns the builder into a `Coverage` or refuses. Readers, audit,
morph and command line ask the `Coverage`. `MemImage::from_segments` and
`Timeline::plan` read the summary; the audit judges the same summary without a
load. The web session holds all of them for one file, and the page calls it from its
handlers. `process --verify` and `compare` hold what the closure and the timeline say
against a log of the real loader and the rows of `/proc/PID/maps`.

What makes each correct, and what is hard about it:

- **Claim tree.** Every byte of every declared file belongs to exactly one leaf,
  or `finish` says which bytes do not. Hard: the two scans rest on a sort, a cursor
  and a leaf predicate; `fill_unclaimed` pushes claims while later files are
  unscanned and ignores the pushes' answers; a file may be declared again with
  another length; ends saturate; spans may be empty.
- **Interval index.** A query finds every claim it should, although it stops early.
- **Closure.** Each name is loaded once and blamed on the first object that needs
  it; a successful load is complete; a failure is true; objects do not overlap; the
  load returns although needs go in circles; dependencies are relocated first.
- **Memory image and timeline.** What is mapped is what the headers say, before
  and after `mprotect` splits it; exactly RELRO's whole pages are sealed, after the
  last write; the exact view, the page-rounded ones, the addresses and the counts
  tell of one memory.
- **Page.** Whatever order user events, timer ticks, file reads and the sample's
  answer come in, the stage shows the current frame of the current track of the
  current file, playing ends, and a user's file is not displaced.
- **Parser.** Whatever the bytes are, the parse ends; it fails only where the file
  contradicts itself, never because of the parser's own claims; what it unpacks from tables
  (RELR words, dynamic entries, notes, symbols through two links) is what the formats say,
  except behind `DT_NULL`; the answers read off the finished tree (hover, bands, statistics,
  hole reports) fit together.
- **Audit.** It judges before the load: what it is silent about must not go wrong.
- **Trace.** A log is read back as what happened, and a verdict of divergence is given
  exactly when there is one. Hard: a process and its children print into one log,
  objects are known by how their paths end, and where a library was found is guessed.
- **Session.** The frames it serves are the states of the load, and the steps it lists
  for a byte are those that write it.
- **compare.** The rows it takes for the target's are the target's, and no divergence
  is reported where the kernel did what was predicted.

## 2. Modules

| Module | Models | Extends |
|---|---|---|
| `Span` | `span.rs` | |
| `Coverage` | `CoverageBuilder`, scans one iteration per step | `Span` |
| `CoverageContract` | abstract: what the tree promises, no scans | `Span` |
| `IntervalIndex` | `build`, `at`, `overlapping`, loop by loop | `Span` |
| `IntervalIndexProofs` | proofs | `IntervalIndex` |
| `FiniteProofs` | lemmas on finite sets, least numbers and sequences that the other proofs cite | |
| `Queries` | `claims_at`, `innermost_at`, `ancestry`, `roots`, `leaves`, `unclaimed`, `stats`; `runs` of the renderer; `context` of the command line | `Coverage` |
| `Parser` | `parse` and its tables, every claim pushed through `Coverage!Push` | `Queries` |
| `Audit` | what the audit reads off the claims | `Parser` |
| `ParserProofs` | proofs about the builder, the refinement of `CoverageContract` among them, and about the claims of a parse and its verdict | `Parser`, `FiniteProofs` |
| `QueryProofs` | proofs about the summary of a parse, the claim under the cursor, the statistics and what the audit says of a file's tail | `Audit`, `ParserProofs` |
| `Closure` | `load`, `read_object`, `advance`, `relocation_order` | |
| `ClosureProofs` | proofs | `Closure` |
| `MemImage` | `from_segments` and the pure queries, `State::vmas` | |
| `Timeline` | `plan` and `state_at` as a state machine | `MemImage` |
| `ImageAudit` | what the audit says of segments, entry and relocations | `Timeline` |
| `Views` | how the page-rounded views of the memory, and addresses and bytes, agree | `ImageAudit` |
| `Residency` | byte counts | `Views` |
| `Session` | the list of steps, `renderStep`, `inspect`, `stepSpans` | `Views` |
| `Compare` | `compare`, the rows of `/proc/PID/maps` | `Session` |
| `TimelineProofs` | proofs about the load, its views, the byte counts, the session and `compare` | `Compare`, `Residency`, `FiniteProofs` |
| `LdDebug` | `parse_ld_debug` line by line, and the queries of a `Trace` | |
| `Verify` | `compare` on a log, `process --verify`; what stories a loader can tell | `LdDebug` |
| `LdDebugProofs` | proofs about the log and what is concluded from it | `Verify`, `FiniteProofs` |
| `Viewer` | the page's event handlers | |
| `ViewerProofs` | proofs | `Viewer` |
| `MCCoverage`, `MCIntervalIndex`, `MCParser`, `MCClosure`, `MCTimeline`, `MCTrace`, `MCViewer` | values of the constants for TLC | |

A definition named "Mutant of X" is a plausible bug in the code X models. It is used by
no specification; putting it in X's place makes TLC report the property that
`PROJECT.json` pairs it with.

### Coverage

`files`, `claims` and `children` are the builder's three fields; claim ids count
from 1 so that 0 can mean "no parent". `AddFile` and `Push` are one step each
(`Push` with its four refusals in the code's order, `Attach` being the part after
them). A scan is a sequence of steps: `StartScan` lists the files, `FillFile` or
`FinishFile` takes one and its leaves (`EnterFile`), `FillLeaf` or `FinishLeaf` advances the
cursor, the other `Fill...` and `Finish...` actions are the scan's ways to go on or return. The
code sorts the leaves by (start, end) with an unstable sort; the model takes any least
leaf next. `Undeclared` is a file that is not in the map.

`CoverageContract` has no scans: claims appear one by one, each inside its file and
its parent, and a verdict, once out, is a true statement about the claims.
`ImplementsContract` is the refinement, `verdict` being the kind of the result.

A `Gap` of the contract is a byte no leaf claims and that was to be expected: the file
has it, or a claim of the file lies behind it (a file declared again, shorter, keeps
claims past its end, and the scan reports the gap before them).

### IntervalIndex

`Collect`, `SortEntries`, `RunningMaximum` and `Built` are the three passes of
`build` over one file's claims; `Ask`, `WalkEntry`, `WalkEnds` and `Return` a query:
`partition_point` gives the entries that start early enough (`EarlyEnough`), the
walk goes back from the last of them and stops where the running maximum falls
short.

### Queries, Parser, Audit

`Queries` are operators on the tree of an accepted builder. `InnermostAt` orders answers as
`at` does, by extent and then by id; `Context` is a hole in words, without the words: the
code passes over a structure that has no note, but `parse` pushes none (a section body
without a name is called `section {i}`), and two holes never touch; `Ancestry` is a
recursive function, total because parents come first; `Bands` folds the leaves as `runs`
does, with the band still open at the end pushed by itself (`Join`, `BandsClosed`).

`Parser` runs the builder of `Coverage`. One step of `parse` is the head of a function
(`ParseEhdr`, `ParseShdrs`, `ParsePhdrs`, then `ParseBody` for each section header): it
claims the region and sets up its loop. `NextEntry` is one turn of that loop, whatever it
is over: header fields, table entries, strings, notes, symbols, relocations, RELR
words, dynamic entries. The turn decides which claims come next (`EntryClaims`), how
far the loop moves (`EntryLen`) and what the summary learns (`WithEntry`). The claims
wait in `queue`, and `PushClaim` hands the builder one at a time, `?` ending the parse
at the first refusal. A claim names its parent by the number it will have if nothing
before it was refused, which is when it is pushed. `FillUnclaimed`, `Finish` and
`Scan` are the end of `parse`. The bytes are the record `elf`, what the reader would
decode at each place the code reads, so that overlapping structures may even hold
unrelated values: the model has every file the code can meet and more. `InFile` is
`slice_at`'s check, `Text` what `cstr_at` returns; `Fields` are the claims of a
record's fields, `RelocOf` a relocation with its symbol through `link` and `link`
again, `RelrRelocs` one word of the RELR decoder, `NextCursor` its running cursor,
`ReadDynamic` one entry of a dynamic table (`NameOffset`: a value past `u32::MAX` is
looked up as name 0).

`Audit` is `unexplained` and `section_headers` on the finished tree.

### Closure

`disk`, `program`, `path` and `interp` are inputs, chosen in `Init`; the disk is external (the
file system as `find` asks it). `ReadProgram` reads and queues, `Skip`, `NotFound`,
`Unreadable` and `LoadObject` are the outcomes of one turn of the loop, `Done` its
end. `Place` is the part of `read_object` that succeeds. A file's contents are its
needs and its extent `lo .. hi`.

### MemImage, Timeline, Views, Residency

The code keeps sorted lists; the model keeps sets and says "first" and "last" by
the sort key, any of several least elements where an unstable sort leaves it open.
`Map` is one Map effect, `KernelDone` the narrated steps up to relocation, `Write`
one Write effect, `NextTable` the turn of the loop over the four tables, `Protect`
the effect that splits, `NothingToProtect` its absence, `Enter` the rest. The
timeline's list of steps is never stored: the state after n effects is the state of
the behaviour after n steps, which is what `state_at` computes from scratch.
`writable` is history: the relocations whose target `prot_at` called writable when
they were written. `Split` and `Slice` are the body of the Protect effect and
`slice`. `Vmas` is `State::vmas` page by page; `KernelVma` the row
`from_segments` makes of a segment. `Views` says how the page-rounded views, the exact
mappings and the addresses of file offsets agree. `Residency` adds the byte counts: the
residents are taken in their order, each adding what it holds behind the cursor
(`Counted`) and moving it (`Moved`).

### ImageAudit, Session, Compare

`ImageAudit` is state-free: each check of the audit is an operator over the object
(`Overlapping`, `EntryIsFine`, `Unwritable`, ...), and the properties hold it against the
load that `Timeline` then runs.

`Session` has the list of steps that `Timeline` does not store: `Steps` is what
`plan` makes, narrated steps included, each with the spans it reads and its effect;
`StateAt` folds the effects of a prefix, which is `state_at`. That this is the
behaviour of `Timeline` is a property of its own (`ReplayIsTheLoad`).

`Compare` is a function of the object and of `Observed`, the rows of a process: `Own` is
what kernel and `ld.so` make of the object at a base, `Neighbours` the rows around it (the
heap, an anonymous row that continues it, another file, a library whose name ends in the
target's). `Rows` selects, row by row (`Take`; `NamedLike` is `ends_with`), `Base` slides,
`MappingsVerdict` decides.

### LdDebug, Verify

The writer is external: each process has a story, a sequence of steps, and `Tell`
writes the lines of one call of its print function into the pipe; calls of the
processes of `Procs` interleave in every way. `Calls` says which lines one step is
told in. `ReadFind`, `ReadTried`, `ReadNeeded`, ..., `ReadBlank`, `EndOfText` are the
branches of the reader, in the code's order of tests, each line being known by the
pattern it matches; `pendingSearch`, `pendingScope` and `pendingMap` are its three
pending records, one of each for all processes together. A list that a query of `Trace`
returns is the set of the indices of its steps (`RelocationOrder`, `InitOrder`), the
order being that of the log; `Position` is the first of them that names an object.
An object is a directory and a file name. The code knows it by how its path ends: `Is` is
`ends_with`, true of an equal file name and of the pairs in `Endings`; `LooksLikeLoader` is
`contains("ld-linux")`, true of the names in `LoaderLike`. `Canon` is `canonicalize` over
`load.links`, the paths that are not where their file is.
`Verify` has the verdicts of both commands, and what is assumed of the stories of
the loader (`StoriesAssumption`).

### Viewer

One action per handler; JavaScript runs a handler to its end, so each is one step.
The two awaits split a handler: `Open` starts a read that `BytesArrive` or
`ReadFails` ends, `WasmArrives` starts the fetch that `SampleArrives` or `SampleFails`
ends. `Tick` is the interval's callback. A drawing is the (file, track, frame) it was
made of, so that "the stage shows what the page believes" can be said; `cache` is the set of
drawings kept. Panels are known by the file whose contents they list.

## 3. Runs

| Run | Question | Result |
|---|---|---|
| `coverage_builder` | Is the builder right, whatever is pushed? | passes |
| `interval_index` | Does the early exit lose a claim? | passes |
| `parser` | Does parsing end, fail only for the file's own faults, and yield a tree that answers truly? | passes |
| `audit_appended` | Are appended bytes described by nothing? | violated |
| `closure` | Is the closure exact, the failure true, the layout disjoint; does load return? | passes |
| `closure_fixed_program` | Is the layout disjoint when the program does not start at 0? | violated |
| `closure_order` | Do dependencies come before their users? | violated |
| `timeline` | Does the load keep, seal and write what it should; do views, audit, session and `/proc` agree with it? | passes |
| `session_writers` | Does the session name every step that writes a byte? | violated |
| `trace` | Is a log read back as what happened, and judged truly? | passes |
| `viewer` | Is the page consistent under every order of events? | passes |
| `viewer_sample` | Does the sample yield to a user's file? | violated |

What the passing runs check, and why their bounds are enough:

- `coverage_builder` (642035 states). One file of length 2 or 3 that may be declared again, up to
  three claims with every start, length and parent (valid, missing or later), `u64::MAX`
  being 3; `fill_unclaimed` any number of times and `finish` at any point. `Forest`:
  the tree is a forest in which parents contain children and child lists mirror
  parent links, whatever was refused. `AcceptedIsPartition`, `RefusalIsTrue`: the
  verdict. `FillLeavesNoHole`, `FillOnlyAddsFiller`: the action properties of
  filling; the first needs that no claim runs past its file's last declared length.
  `ImplementsContract`: the refinement. Three claims are enough for a hole before,
  between and after leaves, for a nested pair with a hole across its boundary, and
  for every way two leaves overlap. All seven are also proved, for any number of
  files and claims.
- `interval_index`. Every list of up to three spans with starts and lengths up to 3
  (saturating, empty and equal spans included), every query. Three entries are
  enough for a long claim, a short one after it that must not end the walk, and one
  behind the query.
- `parser` (187169 states). Files of 3 to 18 bytes in twelve families, one per kind of
  structure, each varying one thing: rejected identifications; tables anywhere, with entries
  too short, exact and long, counts kept in section 0, over one another and over the end of
  the file; pairs of section bodies apart, touching, overlapping, past the end; strings,
  notes and RELR words of every shape; dynamic tables with entries after `DT_NULL`, one
  table or two; relocations with a broken link at either level; program headers; stripped
  files; holes at the end. Structures are one to three bytes long (constants `IdentTable`
  ... `NoteHeader`), a RELR word has two bitmap bits instead of 63: few enough that the step
  over a bitmap is reached twice. `NoClaimIsRefused`: no push of the parser is refused, so
  no valid file fails at `?`. `OverlapIsTheFiles`: `finish` reports an overlap only where
  two regions the file itself sets out share every byte it names, and never a gap.
  `RelrIsUnpacked`: the decoder, which keeps a running cursor, unpacks the addresses the
  format defines, computed for each word from the last base before it. `InitArrayIsPaired`:
  the address and the size of an init array that the summary keeps are the last ones given,
  whatever order the entries of however many dynamic tables come in, unless one of them
  stands behind a `DT_NULL`. `HoverIsTheLeaf`: the innermost claim at a byte is its leaf or,
  only where the leaf fills its parent, one that spans the same bytes; and a hole is said to
  lie between the structures that touch it. It is about files whose regions are disjoint and
  in which no hole crosses the end of a structure (a hole that does is in two of them, and
  either may be named). `BandsTile`: the bands of the picture tile the file, each of one
  root. `StatsCountBytes`: what is counted is what the leaves hold. `AppendedIsReported`:
  the audit says "appended" of a hole behind everything that describes bytes.
  `ParseReturns`: every parse ends.
- `closure` (531378 states). Three names, each missing, unreadable or an object with every list of
  up to two needs; the program may be called by a soname, the interpreter may be
  one. Images start at 0 and are smaller (1) or larger (5) than the gap (2), on
  pages of 2. `ClosureIsReachable` compares with the least set closed under need,
  computed from the disk alone.
- `timeline` (49386 states). Objects on pages of two bytes. Linked ones: text of one to
  three bytes; data at any congruent place after it, with and without `.bss`, `.bss` running
  past the last file page, or a third segment in the text's file page; RELRO absent,
  starting at the data or a byte later, ending anywhere up to its end; zero or two bytes of
  file after it; static, lazy and BIND_NOW objects, with and without an ifunc among the PLT
  entries. Malformed ones: segments that overlap behind `.bss` or in the middle, with more
  file than memory, at addresses no page maps, writable code, relocated code, entered in
  code, in data or nowhere. Two bytes a page and up to four bytes of data are enough for a
  mapping to be split never, once or twice and for every combination of page boundary and
  segment boundary. `CountsAreExact` for `double_mapped_bytes` holds while no byte of the
  file is held three times (such a byte counts twice); the views are about objects no two
  segments of which meet in a page: `KernelVmasAgree` needs in addition that each segment
  has memory (an empty one has a row where nothing is mapped), `AddressesTranslate` that
  each has file bytes. `SilentAuditIsSound` and `WrittenBeforeSealed` hold the audit, made
  from headers alone, against the load, RELRO over the text included: the entry of a silent
  object can be run exactly if sealing did not take its page; `ReplayIsTheLoad` the
  session's list of steps against the state machine; `WritersAreFound` its answer for a
  relocated byte; `RowsAreFound` the selection of rows, at base 0 and moved, beside seven
  kinds of neighbours of which those whose path ends in the target's name are excluded by
  `NoNamesake`, for objects with a segment and at most one RELRO (without a segment there is
  nothing to compare).
- `trace` (37706 states). 370 stories of a program with up to two libraries, a loader, a
  library opened late (found or not) and a child that loads the same library or
  is the same program. A library is found in the cache, after a search that began elsewhere,
  where we did not expect it, by a relative path, or is needed by a path and not searched for;
  the closure calls it by the path the loader uses or by another of the same file. One library
  has a name that ends in the program's, another one that looks like the loader's. Objects
  are relocated in every order, initialised in the right one or the program first, bound
  lazily or not. The calls of program and child interleave in every way. `LogIsReadBack`
  is about programs without children (with them, the log does not say enough);
  `VerdictsAreTrue` states for each verdict what it is true of, and what the code's
  guesses ask for: `ProgramIsKnown` and `LibrariesAreKnown` that no other object ends or looks
  like the one asked about, `HitsAreAbsolute` that no library is found by a relative path.
  Stories that violate each of them are among the 370, and each verdict is reached both
  ways by stories that do not. `ObjectsAreFiles` says that aliases leave one name for each file,
  again where hits are absolute.
- `viewer`. Two files the parser accepts and one it refuses, tracks of one to three
  frames, up to three files opened, the sample; every handler at any time. Three
  opened files are enough for two concurrent reads while a third is shown. Deadlock
  is checked: the page can always go on.

Deadlock is not checked where the program really stops: a builder that is
finished, a parse or a load that returned, a timeline at its end, a log at its end.

What the violated ones show (each is one sentence of a doc, comment or test of the
repository; the findings quote it):

- `audit_appended`. The audit calls a hole at the end appended because no claim describes it,
  but segments make no claims: in a stripped file the bytes of a `PT_LOAD` are so reported.
- `closure_order`. The reverse of a breadth-first order is no dependency order: a
  program that needs a and b, b needing a.
- `closure_fixed_program`. `advance` sizes an object by `hi - lo` although it
  occupies `base + lo .. base + hi`.
- `session_writers`. `inspect` compares the address of a byte with the first address of
  a write and so names no step for the seven bytes behind it.
- `viewer_sample`. The sample's answer replaces a file the user opened before it came.

### Other sentences the code does not keep

A run that shows a violation checks one sentence; there are more of them than such runs. Of
these the models have the behaviour, and the property that comes nearest excludes it by a
hypothesis with a name; where a theorem shows that the hypothesis is needed, it is named too.

- *"end of the table", "padding past the end"* (notes of `DT_NULL`, `parse.rs:1077`, `:1080`).
  The entries behind it are read like the rest, and an init array among them counts:
  `Padding` in `InitArrayIsPaired`; `LastInitArrayCounts`.
- *"the deepest claim — the one the cursor is really pointing at"* (`index.rs:81-83`). Of a
  claim and its only child of the same span `at` gives the parent first (`:104`):
  `FillsItsParent` in `HoverIsTheLeaf`; `TiesHideTheLeaf`.
- *"dependencies are relocated before the objects that need them"* and *"Initialisers: the
  program must be last"* (`main.rs:833-834`, `:1203`), as the two commands judge them. The
  program is known by `ends_with` of its file name (`elfa-trace/src/lib.rs:270`,
  `elfa-cli/src/main.rs:1179`, `:1207`), a library by the same (`main.rs:846`), the loader
  by `contains("ld-linux")` (`:842`): a library `libtarget` is taken for the program
  `target`, and one in a directory of that kind for the loader. `ProgramIsKnown` and
  `LibrariesAreKnown` in `VerdictsAreTrue`.
- *"The observed rows for the target itself"* (`main.rs:1051`). The rows are taken by
  `ends_with` as well (`:1066`), so those of `libtarget` are: `NoNamesake` in `RowsAreFound`.
- *"a search that does not end in success ends the process"*
  (`elfa-trace/src/lib.rs:188-189`). A search for a library that `dlopen` does not find ends
  nothing, nor does one for a preloaded library: it counts as a search that found its last
  candidate. `NothingOpenedLate`; preloads are not in the stories, as `SearchesOnce` says.
- *"one canonical name"* (`elfa-trace/src/lib.rs:183-185`). The guess takes the last path
  that begins with a slash, so a library found by a relative path (an entry of
  `LD_LIBRARY_PATH` that does not begin with one) keeps its name, or gets that of a file
  that is not there: `HitsAreAbsolute` in `VerdictsAreTrue` and `ObjectsAreFiles`;
  `RelativeHitsAreLost`.

Against no sentence, and part of the models: a `PT_GNU_RELRO` over the text is no finding of
the audit, although sealing it takes away the right to execute (`SilentAuditIsSound` says
exactly when); `MemImage::vmas` has one row per segment where `/proc` and `State::vmas` have
another for `.bss` past the last file page; `vaddr_of` is page-aware and `prot_at` exact, so
padding behind a segment has an address at which nothing is mapped; a second search that
starts before a blank line takes the place of the first (`elfa-trace/src/lib.rs:379`), and
initialisers of children or of opened libraries make the initialiser order differ
(`elfa-cli/src/main.rs:1203`): this is why part of `VerdictsAreTrue` is conditional on
`Alone` and `NothingOpenedLate`.

### Fairness

Assumed only where liveness is checked. `Parser`: `parse` is one call, from the first byte
to the return of `finish`; weak fairness of its next step. `Closure`: `load` is one call
that nothing interrupts. `Viewer`: the interval fires as long as it is set; users,
reads and fetches owe nothing, and `PlaybackEnds` holds although the user may
interfere for ever. `Coverage`, `Timeline` and `LdDebug` state none.

## 4. Proofs

All theorems are for every value of the constants under the modules' ASSUMEs, which only
type them, with these exceptions. The page is not empty. In `Closure` the gap between
objects is at least a page and extents are not reversed. In `Audit` the holes that are
reported are not empty, and at least as long as those that are examined (`HolesAssumption`).
In `Parser` the fields of each record follow one another without a gap and none is empty
(`TablesAssumption`, which `Elf64TablesTile` shows of the real offsets), no entry has size 0
(`SizesAssumption`), and a file has a header for every place of a section table that lies
inside it, its words being those the reader can return (`ElfsAssumption`). In `Verify` the
loader tells of the startup what a loader that succeeds does (`StoriesAssumption`, see "What
a trace is asked"), and a name that ends in one that looks like the loader's looks like it
too (`NamesAssumption`). Each is proved from an inductive invariant: it holds initially,
every action keeps it, it implies the property. Each invariant was first checked by TLC on
the instance of its component's run.

- **Coverage** (`ParserProofs`). `TypeCorrect`, `ForestAlways`: by themselves.
  `AcceptedMeansPartition`, `RefusalsAreTrue`: a verdict is true because of what the
  scan knew before, so the invariant is `FinishInv`: files left behind are
  partitioned, and in the file being scanned the leaves seen partition the bytes
  below the cursor, each later leaf starting no earlier than the last one seen.
- **Filling** (`ParserProofs`). `FillOnlyAdds`, `FillClosesHoles`, by `FillInv`: the holes
  found and not pushed yet hold bytes, no leaf holds any of them and they lie one
  behind the other (`HolesInv`); all that was scanned ends at the cursor
  (`CursorInv`); every byte the scan has passed is claimed or in a hole
  (`NothingOverlooked`, which needs that claims fit their files). A push keeps this because
  a claim around a hole cannot be a leaf (`HoleParent`), so no leaf becomes interior
  (`LeavesGrow`), and it is never refused (`HoleIsAccepted`): the parent is chosen among
  the claims around the hole, and there is a shortest, first one (`InnermostExists`, by
  well-foundedness of the naturals).
- **Contract** (`ParserProofs`). `BuilderImplementsContract`: every step is one of the
  contract's or invisible. An accepted push is `AddClaim`; a verdict is `Decide`, by
  `FinishInv` in the state after it; `Forest` is what makes a leaf by the child lists a leaf by
  the parent links, which is all the contract knows.
- **Parser** (`ParserProofs`). `ParserIsNeverRefused`, `OverlapsAreTheFiles`,
  `ParsedIsPartition`, `ParserImplementsContract`, by `ParserInv`. A claim is right or wrong
  when it is planned, not when it is pushed, so the invariant speaks of the claims
  *planned*: those pushed and those that wait in `queue`, in this order. `PlacedInv`: each
  fits the file and its parent comes before it and contains it, hence nothing is refused.
  `RegionInv`: every structure lies in one region the file sets out, each region is claimed
  once, none is empty, and of two structures of one region one is part of the other or they
  are apart, hence leaves only meet where regions do. `LoopInv`: nothing of a region lies
  ahead of the loop that works through it (so the claims of the next turn are apart from
  it), and a turn never leaves its region (`TurnFits`). `StepInv` says what holds between
  the functions of `parse`; `VerdictInv` that filler is apart from every other leaf and that
  no byte is without a leaf when `finish` is called, hence there is no gap. The builder's
  invariants are kept because their lemmas are about `AnyStep`, a step of the builder
  whoever takes it.
- **Summary** (`QueryProofs`). `RelrWordsAreUnpacked`, `InitArraysArePaired` and
  `LastInitArrayCounts` (which leaves out no padding), for any number of sections and
  entries, by `SummaryInv`: what the summary says is what the entries read so far say
  (`RelrInv`, `PairInv`); a loop over entries has read as many as it made turns, and one
  that has ended has made size / entry size of them (`LoopReads`, with `DivFacts`); the
  cursor is where the words read so far put it (`RelrCursorInv`, with `StartFacts`: adding
  word by word, saturating, gives the start the format defines).
- **Tail** (`QueryProofs`). `AppendedBytesAreReported`: what the audit reports as appended
  lies behind everything that describes bytes, by `TailInv`: filler that ends before its
  file does has a structure that starts where the filler ends. Filling makes this so, as a
  hole inside a file ends where the next leaf starts; it lasts, as the parser's claims are all
  pushed before.
- **Statistics** (`QueryProofs`). `ExplainedBytesAreCounted`: what is printed as explained is
  the number of bytes whose leaf is a structure. The lengths of the filler add up to
  the bytes it holds (`SumOfSizes`: the sum the community modules define by recursion exists
  and is the size of the union, by the least counterexample among the sizes of sets), as no two
  of them share a byte and each is as long as it says, none of them saturated (`WholeRun`).
- **Hover** (`QueryProofs`). `HoverAnswersTruly`, by `FillerInv`: filler has no parts, and
  filler without a parent lies in no structure, as a hole is given the innermost claim
  around it. Every claim over a byte contains the byte's leaf (`LeafIsInside`). Two
  structures on it are of one region, so one is part of the other, and a leaf has no
  parts. Filler that crosses no claim lies inside a structure it meets
  (`FillerIsInside`): if the structure were narrower, the last claimed of the structures
  inside the filler would be a second leaf, or contain one. So the shortest claim
  at the byte spans what the leaf spans (`InnermostIsLeaf`), and if the leaf does not fill
  its parent nothing else does (`DeepestIsLeaf`). If it does fill it, the parent is the answer,
  having the smaller number: `TiesHideTheLeaf`. The way up ends three steps
  up at the latest (`TopIsRoot`: the function that `Ancestry` recurs by exists, being
  the third iterate of what it recurs by), and leads from all claims on one byte to
  one root (`NeighbourIsTop`).
- **Bands** (`QueryProofs`). `BandsTileTheFile`: the leaves of an accepted file lie in line
  (`LeavesAreInLine`): each starts where the one before ends, since each byte has one leaf,
  and the k-th of them exists, by counting those before (`RankFacts`). Joining one to bands
  that tile the file up to it gives bands that tile it up to its end (`JoinTiles`), and no
  length saturates. That the fold runs leaf by leaf (`BandsLeafByLeaf`) rests on
  `FoldExists`: the function which the community modules' fold recurs by exists, by the
  least size of set it might not exist for.
- **IntervalIndex** (`IntervalIndexProofs`). `IndexTypeCorrect`; `AnswersAreExact`, by
  `IndexInv`: the list is sorted, the running maximum bounds every earlier end, and
  no entry the walk has passed was missed. `partition_point` is justified by
  `PartitionPoint`: in a sorted list the early entries are a prefix.
- **Closure** (`ClosureProofs`). `ClosureTypeCorrect`, `AskedOnce`, `EveryNeedIsMet`,
  by `ClosureInv`: requests wait in the order of their askers, and each need of a
  loaded object is met or waits. `FailuresAreTrue`, `LoadsTheClosure`, by `ReachInv`: what
  is loaded or waits lies in every set that contains the program and is closed under
  need; when the queue is empty what is loaded is such a set itself, hence the least.
  `ObjectsKeepApart`: if all images start at 0, objects never overlap, for all sizes,
  gaps and pages; `closure_fixed_program` shows the hypothesis is needed.
- **Timeline** (`TimelineProofs`). `LoadTypeCorrect`, `LoadKeepsWhatIsMapped`,
  `LoadSealsExactly`, `OnlyLazyEntriesWait`, for every list of segments, overlapping
  and malformed ones included, and every page size. The argument: by `LoadInv` the
  mappings are known in each stage (a part of the plan, the plan, the plan split), so
  the properties follow from facts about the plan (`PlanIsRight`) and about splitting one
  mapping (`SplitFacts`: each byte stays in exactly one piece, which shows the same
  byte of the file and has the new protection just in the range).
  `SealedIsTheRange` says that rounding both ends of RELRO down seals just the pages
  RELRO fills to their end, from `PageBounds` on multiples of the page size.
- **Audit** (`TimelineProofs`). `AuditNamesTheFaults`: the relocations written to memory that may
  not be written are just those the audit counts, from the headers, before anything is
  loaded. `SilenceIsSound`: an audit that suspects nothing means that no byte belongs to two
  segments, that nothing can be both written and run, and that the entry can be run exactly if
  its page was not sealed. Both rest on
  `LoadInv` and on what the history `writable` records of each write.
- **Views** (`TimelineProofs`). `OneMemoryTwoViews`, `HeadersSayWhatIsMapped`,
  `AddressesShowTheirBytes`, for every object the hypotheses of `ViewsAgree`,
  `KernelVmasAgree` and `AddressesTranslate` admit. A vma is a run of pages that look alike.
  Each mapped page is in one run, which has a first and a last page (`RunExists`, `RunIsTheOnly`,
  by `LeastExists` and `GreatestExists`). On one page all mappings are of one
  segment (`OneSegmentEach`) and, as RELRO seals whole pages, have one protection
  (`OneProtEach`); from page to page of a run, address and offset advance together
  (`PagesMove`), so what holds of the run's start holds at each of its addresses.
- **Viewer** (`ViewerProofs`). `ViewerTypeCorrect`, `StageStaysCurrent`,
  `PanelsStayInStep`, by `ViewInv`, which adds that the drawings kept are of the
  file that is shown.
- **Session** (`TimelineProofs`). `FramesAreTheLoad`: the frame of any step is the memory of
  the load, by `ProgressInv`: what is mapped, and what is written, are the first entries of
  a list that is fixed with the object. `StepsTell` says that the plan tells these lists,
  narrated steps of any number between them (`TellsJoin`: two tellings, one behind the
  other, tell both); `PlayedStepByStep` unfolds the community modules' fold, whose function
  is shown to exist; `FrameGrows` that one effect more is one entry more; `OneListOnly` that
  the effects put in order are the list itself. Two lists of the mappings may differ only
  where mappings tie, which `PagesApart` excludes. `WritersAreNamed`: a byte that a
  relocation overwrites first has that relocation among the steps listed for it (which hold
  its readers, too; the converse is not stated), since the owner of a byte goes before any
  segment that merely shares the page (`OwnerAnswers`) and ranges of the file are disjoint.
- **Residency** (`TimelineProofs`). `CountsAgreeWithBytes`: residents taken by their starts
  add each byte once, as the cursor is behind all that was taken (`OneMoreRange`, by the
  least counterexample among sizes of sets, `CountIsCovered`); the sum of the lengths counts
  a byte as often as it is held (`SumOfLengths`), so the difference is the bytes held twice
  if none is held three times.
- **compare** (`TimelineProofs`). `MemoryIsRecognized`, for every object the hypotheses of
  `RowsAreFound` admit, and neighbours none of which has a name that ends in the target's. A
  row that the loader makes of a segment is a vma that the timeline has (`RowIsOfVma`: the
  pages of one segment are alike in the process exactly where they are in the memory,
  `RunsAgree`), so the target's rows lie apart, and one without a name lies right behind
  another (`OwnLies`); no neighbour does (`NeighboursLie`). Put in order (`RowsInOrder`), an
  unnamed row of the target therefore follows the one it continues (`BehindMine`), and
  reading row by row (`TakenSoFar`) takes the target's rows and no others, the lowest first,
  which is what the slide is computed from (`FoundAtItsBase`).
- **Trace** (`LdDebugProofs`). `LogIsRead`, by `LogInv`: the reader's state, pending search,
  scope and link map included, is a function of the position in the story - the step that is
  being told, and how many of its calls, and lines of the call, are read. The script is the
  calls of the steps end to end (`EndToEnd`), so each position belongs to one step; for each
  kind of step each line moves the state to that of the next position, and where the step's
  calls end, nothing is pending and the step has been read. `LoadsAssumption` types the
  stories: every entry is a step with the fields `Step` gives it, and its lists are
  sequences.
- **What a trace is asked** (`LdDebugProofs`). `VerdictsAreRight`, `ObjectsAreFound` and
  `RelativeHitsAreLost`, for every story `StoriesAssumption` admits: that of a process that
  starts, so that control goes to the program, once (`EntersOnce`); in whose startup the
  program is relocated and no object twice (`RelocatesOnce`); a search, made once for a
  name, ends with the file that is opened, and the paths it missed are no file of the
  process (`SearchesOnce`); a library is called by its name until it is found and by its
  file from then on, a path that is needed being a file's name and not searched for
  (`CallsFilesByPath`). These are statements about `ld.so`, not about this code, which reads
  whatever it is given; TLC evaluates them on every story of `MCTrace`. They say nothing of
  how names end or look, of relative paths or of the closure's paths: what the code's
  guesses ask of those is in the properties. What happens behind the startup, and what
  children tell, is not restricted. The step of a story that is told by a call leaves at
  most one step in the log, at its `Place`; places rise with the steps (`PlacesClimb`) and
  every place is one's (`PlaceHolds`). `StartInv` is the invariant behind the verdicts that
  hold whoever else tells: until control goes to the program only the target tells, so the
  reader is where `LogInv` says; from then on what is read begins with the startup, as a
  line adds steps at the end (`LineGrows`) or sets the entry of the last one, which is no
  link map when the startup ends. A first place in the log is therefore the place of the
  first step of the kind (`OrderIsTrue`, `DependencyIsTrue`, `BindingIsTrue`). The others
  hold for a log of one process, of which all is read (`EndedAllRead`): the searches of the
  log are those of the startup (`AliasesAre`), hence, if hits are absolute, a name stands
  for the file that was opened (`CanonicalIs`), and the names of the log are names of files
  (`MentionedAreFiles`), each file having one (`FilesAreMentioned`).

Only model-checked:

- liveness (`ParseReturns`, `LoadReturns`, `PlaybackEnds`) and everything under fairness, which is
  beyond the prover.

Every invariant and every action property of the passing runs is stated by a theorem.

## 5. Plan

Done: claim tree, interval index, closure, page, memory image and timeline with
their proofs; then parser, queries, audit, session, `compare`, trace and `--verify`; then the
proofs of filling, of the contract, of the closure, of the audit, of the parser's claims
and of its summary; then those of the frames,
the writers, the byte counts, the rows of a process, the log and the verdicts. Left:

1. The player that the renderer embeds: its timers, on the pattern of `Viewer`.
2. `parse_maps` and the command line's capture of a stopped process.
3. A `LoadContract` that `Timeline` implements (memory is what the headers ask for,
   protections only ever lose write) and a `ClosureContract` of which `Closure` is a
   refinement.

## 6. Abstractions

- **Widths.** `u64::MAX` is a constant in `Span`, and ends saturate there as in the
  code. In `MemImage` and `Closure` addresses are unbounded: the code's saturation is
  only reached within a page of 2^64, where no object can be mapped.
- **Data.** Claim values, notes, names, narration and formatting are left out; a
  segment's flags are the set of its permissions. The bytes of a file are what is
  decoded from them (`Parser!elf`); texts are valid UTF-8. Entropy is the set `dense` of
  bytes that look compressed.
- **Paths.** A path is a directory and a file name. How names end, and which contain
  `ld-linux`, are relations between them (`Endings`, `LoaderLike`, `NamedLike`); symbolic
  links are a map from paths to paths (`links`), so that two names of one file are one after
  `Canon`, as `docs/CONFORMANCE.md` section 12 has it. Hard links are two files, to
  `canonicalize` as to the model. A path that `ends_with` a file name is one whose file name
  does: a file name has no slash.
- **Lines.** A line of a log is the pattern it matches and what the code takes from it.
  That patterns do not match by accident is taken from the format.
- **External.** `Closure!disk`, the files as the search path finds them; the stories and
  the interleaving in `LdDebug`; the rows of a process in `Compare`. What a wasm session
  answers in `Viewer` is a function of the file.

## 7. Not modelled, and why

- `capture_*` (which run ld.so and gdb), `parse_maps` (the splitting of columns), JSON and
  text output, SVG geometry: pure input and output, or presentation.
- The commands that print what one library call returns.
- The player's timers: generated script inside a string of `elfa-render`; planned.
- Segments without file bytes are in `Timeline` and in its proofs, but what
  `from_segments` says of their residents (`elfa-model/src/lib.rs:204`) is compared with
  nothing: the kernel's treatment of such segments depends on more than the model has.
- Which of two files dropped in quick succession wins is explored in `Viewer`, but no doc
  promises an order, so no property states one. The info line is likewise
  allowed to tell of an earlier file's byte.
- `identify` of the audit, and the wording and severity of its findings.
- The generated wasm glue and players, the fuzz targets and specimen tests: the
  latter are sources of properties, not components.
