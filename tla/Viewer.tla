-------------------------------- MODULE Viewer --------------------------------
(***************************************************************************)
(* The page that shows a binary being loaded (docs/index.html).  Events of *)
(* the user, of the play timer, of files being read and of the sample      *)
(* being fetched come in any order; the handler of each runs to its end    *)
(* before the next one starts.                                             *)
(*                                                                         *)
(* A drawing is the file, the track and the frame it was made of, so that  *)
(* what is on the stage can be compared with what the page believes it     *)
(* shows.  The offset of the pinned byte plays no part, only whose byte it *)
(* is; a panel is known by the file whose contents it lists.               *)
(***************************************************************************)
EXTENDS Integers

CONSTANTS
    Files,          \* what a user may open
    Sample,         \* the file the page fetches by itself
    None,
    Broken,         \* files that Session refuses
    FrameCount,     \* file -> track -> how many frames it has
    MaxOpens        \* BOUND: how many files a user opens

Tracks == {0, 1}
AnyFile == Files \cup {Sample}

ASSUME FilesAssumption == Sample \notin Files /\ None \notin AnyFile
ASSUME BrokenAssumption == Broken \subseteq AnyFile
ASSUME FramesAssumption == FrameCount \in [AnyFile -> [Tracks -> Nat \ {0}]]
ASSUME OpensAssumption == MaxOpens \in Nat

VARIABLES
    boot,       \* "init" until the wasm is there, "fetch" until the sample is
    opens,      \* how many files were opened
    reads,      \* the files being read
    session, track, at, playing,
    cache,      \* the drawings kept
    pinned,     \* whose byte is pinned
    findings,   \* whose findings are listed
    info,       \* whose byte, and whose steps, the info line tells of
    stage       \* the drawing shown

loading == <<boot, opens, reads>>
vars == <<boot, opens, reads, session, track, at, playing, cache, pinned, findings, info, stage>>

Drawing == [file : AnyFile, track : Tracks, frame : Nat]
Blank == [file |-> None, track |-> 0, frame |-> 0]

Count == FrameCount[session][track]

\* Mutant of Clamp: the first frame is no limit.
ClampAbove(n, count) == IF n < count THEN n ELSE count - 1

Clamp(n, count) == IF n < 0 THEN 0 ELSE IF n < count THEN n ELSE count - 1

\* The drawing show(n) puts up: the one kept for that frame, or a new one.
Drawn(f, t, c, n) ==
    LET m == Clamp(n, FrameCount[f][t])
        kept == {d \in c : d.track = t /\ d.frame = m}
    IN  IF kept = {} THEN [file |-> f, track |-> t, frame |-> m] ELSE CHOOSE d \in kept : TRUE

\* show(n), for the file f on track t with the cache c.
Draw(f, t, c, n) ==
    /\ at' = Clamp(n, FrameCount[f][t])
    /\ stage' = Drawn(f, t, c, n)
    /\ cache' = c \cup {Drawn(f, t, c, n)}

Show(t, n) ==
    IF session = None THEN UNCHANGED <<at, stage, cache>> ELSE Draw(session, t, cache, n)

\* show(n) after the tab of the other track, which shows its first frame, was
\* clicked if need be.
ShowOn(t, n) ==
    IF session = None THEN UNCHANGED <<at, stage, cache>>
    ELSE LET c == IF track = t THEN cache ELSE cache \cup {Drawn(session, t, cache, 0)}
         IN  Draw(session, t, c, n)

\* Mutant of Load: the drawings of the file before are kept.
LoadKeepsCache(f) ==
    /\ playing' = FALSE
    /\ IF boot = "init" \/ f \in Broken
       THEN /\ session' = None
            /\ stage' = Blank
            /\ UNCHANGED <<at, cache, pinned, findings>>
       ELSE /\ session' = f
            /\ Draw(f, track, cache, 0)
            /\ pinned' = None
            /\ findings' = f
    /\ UNCHANGED <<track, info>>

\* Mutant of Load: the timer is left running.
LoadPlaysOn(f) ==
    /\ IF boot = "init" \/ f \in Broken
       THEN /\ session' = None
            /\ stage' = Blank
            /\ UNCHANGED <<at, cache, pinned, findings>>
       ELSE /\ session' = f
            /\ Draw(f, track, {}, 0)
            /\ pinned' = None
            /\ findings' = f
    /\ UNCHANGED <<track, info, playing>>

\* load: before the wasm is there, no file can be made a session of.
Load(f) ==
    /\ playing' = FALSE
    /\ IF boot = "init" \/ f \in Broken
       THEN /\ session' = None
            /\ stage' = Blank
            /\ UNCHANGED <<at, cache, pinned, findings>>
       ELSE /\ session' = f
            /\ Draw(f, track, {}, 0)
            /\ pinned' = None
            /\ findings' = f
    /\ UNCHANGED <<track, info>>

-----------------------------------------------------------------------------
(* Files arriving.                                                         *)

\* A file is chosen or dropped, and its bytes are asked for.
Open(f) ==
    /\ opens < MaxOpens
    /\ opens' = opens + 1
    /\ reads' = reads \cup {[file |-> f, turn |-> opens + 1]}
    /\ UNCHANGED <<boot, session, track, at, playing, cache, pinned, findings, info, stage>>

BytesArrive(r) ==
    /\ reads' = reads \ {r}
    /\ Load(r.file)
    /\ UNCHANGED <<boot, opens>>

ReadFails(r) ==
    /\ reads' = reads \ {r}
    /\ UNCHANGED <<boot, opens, session, track, at, playing, cache, pinned, findings, info, stage>>

WasmArrives ==
    /\ boot = "init"
    /\ boot' = "fetch"
    /\ UNCHANGED <<opens, reads, session, track, at, playing, cache, pinned, findings, info, stage>>

SampleArrives ==
    /\ boot = "fetch"
    /\ boot' = "over"
    /\ Load(Sample)
    /\ UNCHANGED <<opens, reads>>

SampleFails ==
    /\ boot = "fetch"
    /\ boot' = "over"
    /\ UNCHANGED <<opens, reads, session, track, at, playing, cache, pinned, findings, info, stage>>

-----------------------------------------------------------------------------
(* The controls.                                                           *)

\* Mutant of Seek: the timer is left running.
SeekPlaysOn(n) ==
    /\ session # None
    /\ Show(track, n)
    /\ UNCHANGED <<loading, session, track, playing, pinned, findings, info>>

\* The buttons, the arrow keys and the slider: stop, then show.
Seek(n) ==
    /\ session # None
    /\ playing' = FALSE
    /\ Show(track, n)
    /\ UNCHANGED <<loading, session, track, pinned, findings, info>>

\* The play button and the space bar.
Toggle ==
    /\ session # None
    /\ playing' = ~playing
    /\ IF ~playing /\ at >= Count - 1 THEN Show(track, 0) ELSE UNCHANGED <<at, stage, cache>>
    /\ UNCHANGED <<loading, session, track, pinned, findings, info>>

Tick ==
    /\ playing
    /\ IF at >= Count - 1
       THEN playing' = FALSE /\ UNCHANGED <<at, stage, cache>>
       ELSE Show(track, at + 1) /\ UNCHANGED playing
    /\ UNCHANGED <<loading, session, track, pinned, findings, info>>

Tab(t) ==
    /\ playing' = FALSE
    /\ track' = t
    /\ Show(t, 0)
    /\ UNCHANGED <<loading, session, pinned, findings, info>>

Hover ==
    /\ session # None
    /\ pinned = None
    /\ info' = session
    /\ UNCHANGED <<loading, session, track, at, playing, cache, pinned, findings, stage>>

\* A click on a band pins a byte, or unpins the one pinned in that band.
PinBand ==
    /\ session # None
    /\ pinned' \in {session} \cup IF pinned = None THEN {} ELSE {None}
    /\ info' = session
    /\ UNCHANGED <<loading, session, track, at, playing, cache, findings, stage>>

Unpin ==
    /\ session # None
    /\ pinned' = None
    /\ UNCHANGED <<loading, session, track, at, playing, cache, findings, info, stage>>

\* A finding that is about bytes.  The list outlives its session: without one,
\* the handler pins the byte and then fails before it writes the info line.
PinFinding ==
    /\ findings # None
    /\ playing' = FALSE
    /\ track' = 0
    /\ pinned' = findings
    /\ ShowOn(0, 0)
    /\ info' = IF session = None THEN info ELSE session
    /\ UNCHANGED <<loading, session, findings>>

\* A step named in the info line, which outlives its session as well.
GoToStep(n) ==
    /\ info # None
    /\ playing' = FALSE
    /\ track' = 1
    /\ ShowOn(1, n)
    /\ UNCHANGED <<loading, session, pinned, findings, info>>

-----------------------------------------------------------------------------
Init ==
    /\ boot = "init"
    /\ opens = 0 /\ reads = {}
    /\ session = None /\ track = 0 /\ at = 0 /\ playing = FALSE
    /\ cache = {} /\ pinned = None /\ findings = None /\ info = None
    /\ stage = Blank

Arrivals ==
    \/ \E r \in reads : BytesArrive(r) \/ ReadFails(r)
    \/ WasmArrives \/ SampleArrives \/ SampleFails

User ==
    \/ \E f \in Files : Open(f)
    \/ session # None /\ \E n \in {0, at - 1, at + 1} \cup 0 .. (Count - 1) : Seek(n)
    \/ \E t \in Tracks : Tab(t)
    \/ info # None /\ \E n \in 0 .. (FrameCount[info][1] - 1) : GoToStep(n)
    \/ Toggle \/ Hover \/ PinBand \/ Unpin \/ PinFinding

Next == Arrivals \/ User \/ Tick

Spec == Init /\ [][Next]_vars

\* The interval fires for as long as it is set; nobody has to do anything, and
\* no file has to arrive.
FairSpec == Spec /\ WF_vars(Tick)

-----------------------------------------------------------------------------
(* Properties.                                                             *)

Owner == AnyFile \cup {None}

\* Every variable has its type.
TypeOK ==
    /\ boot \in {"init", "fetch", "over"}
    /\ opens \in 0 .. MaxOpens
    /\ reads \subseteq [file : Files, turn : 1 .. MaxOpens]
    /\ session \in Owner /\ track \in Tracks /\ at \in Nat /\ playing \in BOOLEAN
    /\ cache \subseteq Drawing
    /\ pinned \in Owner /\ findings \in Owner /\ info \in Owner
    /\ stage \in Drawing \cup {Blank}

\* The stage shows the current frame of the current track of the current file,
\* which exists, or no drawing when there is no file: a kept drawing is never
\* that of another file, and a frame number never that of another track.
StageIsCurrent ==
    IF session = None THEN stage = Blank
    ELSE /\ at < Count
         /\ stage = [file |-> session, track |-> track, frame |-> at]

\* While a file is shown, its findings are listed and no byte of another file
\* is pinned; the timer runs only while a file is shown, whatever arrives.
PanelsAgree ==
    /\ session # None => findings = session /\ pinned \in {None, session}
    /\ playing => session # None

\* Playback comes to rest, whatever is pressed meanwhile.
PlaybackEnds == playing ~> ~playing

\* "A sample so the page shows something before anyone drops a file": the
\* sample does not take the place of a file the user opened.
SampleYields == [][(session \in Files) => (session' # Sample)]_vars

\* Why the stage is right: the drawings kept are of the file that is shown.
ViewInv ==
    /\ TypeOK
    /\ StageIsCurrent
    /\ PanelsAgree
    /\ session # None => \A d \in cache : d.file = session
=============================================================================
