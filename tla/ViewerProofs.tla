---------------------------- MODULE ViewerProofs ----------------------------
(***************************************************************************)
(* Proofs about Viewer, for every set of files and every number of frames. *)
(***************************************************************************)
EXTENDS Viewer, TLAPS

\* show(n) lands on a frame of the track.
LEMMA ClampInRange ==
    ASSUME NEW n \in Int, NEW count \in Nat \ {0}
    PROVE  Clamp(n, count) \in 0 .. (count - 1)
  BY DEF Clamp

LEMMA Counted ==
    ASSUME NEW f \in AnyFile, NEW t \in Tracks
    PROVE  FrameCount[f][t] \in Nat \ {0}
  BY FramesAssumption

\* What show(n) puts up is the frame asked for, of the file and track asked
\* for, when the drawings kept are all of that file.
LEMMA DrawnIsRight ==
    ASSUME NEW f \in AnyFile, NEW t \in Tracks, NEW c \in SUBSET Drawing,
           \A d \in c : d.file = f, NEW n \in Int
    PROVE  Drawn(f, t, c, n) =
               [file |-> f, track |-> t, frame |-> Clamp(n, FrameCount[f][t])]
<1> DEFINE m == Clamp(n, FrameCount[f][t])
           kept == {d \in c : d.track = t /\ d.frame = m}
           wanted == [file |-> f, track |-> t, frame |-> m]
<1>1. \A d \in kept : d = wanted
  BY DEF Drawing
<1>2. CASE kept = {}
  BY <1>2 DEF Drawn
<1>3. CASE kept # {}
  <2>1. (CHOOSE d \in kept : TRUE) \in kept
    BY <1>3
  <2>2. (CHOOSE d \in kept : TRUE) = wanted
    BY <1>1, <2>1
  <2> QED
    BY <1>3, <2>2 DEF Drawn
<1> QED
  BY <1>2, <1>3

\* What a step must leave so that the view stays right.
Right(f, t, n, drawing, kept) ==
    /\ n \in Nat /\ n < FrameCount[f][t]
    /\ drawing = [file |-> f, track |-> t, frame |-> n]
    /\ kept \subseteq Drawing
    /\ \A d \in kept : d.file = f

LEMMA DrawIsRight ==
    ASSUME NEW f \in AnyFile, NEW t \in Tracks, NEW c \in SUBSET Drawing,
           \A d \in c : d.file = f, NEW n \in Int, Draw(f, t, c, n)
    PROVE  Right(f, t, at', stage', cache')
<1> DEFINE m == Clamp(n, FrameCount[f][t])
<1>1. m \in 0 .. (FrameCount[f][t] - 1)
  BY Counted, ClampInRange
<1>2. m \in Nat /\ m < FrameCount[f][t]
  BY <1>1, Counted
<1>3. Drawn(f, t, c, n) = [file |-> f, track |-> t, frame |-> m]
  BY DrawnIsRight
<1>4. Drawn(f, t, c, n) \in Drawing
  BY <1>2, <1>3 DEF Drawing
<1> QED
  BY <1>2, <1>3, <1>4 DEF Draw, Right

\* What is kept of the session and its drawings, whatever the panels say.
SessionInv ==
    /\ session \in Owner /\ track \in Tracks /\ at \in Nat
    /\ cache \subseteq Drawing
    /\ session # None => Right(session, track, at, stage, cache)
    /\ session = None => stage = Blank

LEMMA ViewIsSession ==
    ViewInv => SessionInv
  BY DEF ViewInv, TypeOK, StageIsCurrent, SessionInv, Right, Count

LEMMA ShowOnIsRight ==
    ASSUME SessionInv, NEW t \in Tracks, NEW n \in Int, ShowOn(t, n),
           track' = t, session' = session
    PROVE  SessionInv'
<1>1. CASE session = None
  BY <1>1 DEF SessionInv, ShowOn
<1>2. CASE session # None
  <2> DEFINE first == Drawn(session, t, cache, 0)
             c == IF track = t THEN cache ELSE cache \cup {first}
  <2>1. session \in AnyFile /\ cache \in SUBSET Drawing /\ \A d \in cache : d.file = session
    BY <1>2 DEF SessionInv, Right, Owner
  <2>2. /\ first = [file |-> session, track |-> t, frame |-> Clamp(0, FrameCount[session][t])]
        /\ Clamp(0, FrameCount[session][t]) \in Nat
    BY <2>1, DrawnIsRight, Counted, ClampInRange
  <2>3. first \in Drawing /\ first.file = session
    BY <2>1, <2>2 DEF Drawing
  <2>4. c \in SUBSET Drawing /\ \A d \in c : d.file = session
    BY <2>1, <2>3
  <2>5. Draw(session, t, c, n)
    BY <1>2 DEF ShowOn
  <2> HIDE DEF c
  <2>6. Right(session, t, at', stage', cache')
    BY <2>1, <2>4, <2>5, DrawIsRight
  <2> QED
    BY <1>2, <2>1, <2>6 DEF SessionInv, Right
<1> QED
  BY <1>1, <1>2

LEMMA ShowIsShowOn ==
    ASSUME NEW n, Show(track, n)
    PROVE  ShowOn(track, n)
  BY DEF Show, ShowOn

LEMMA TabIsRight ==
    ASSUME SessionInv, NEW t \in Tracks, NEW n \in Int, Show(t, n),
           track' = t, session' = session
    PROVE  SessionInv'
<1>1. CASE session = None
  BY <1>1 DEF SessionInv, Show
<1>2. CASE session # None
  <2>1. session \in AnyFile /\ cache \in SUBSET Drawing /\ \A d \in cache : d.file = session
    BY <1>2 DEF SessionInv, Right, Owner
  <2>2. Draw(session, t, cache, n)
    BY <1>2 DEF Show
  <2>3. Right(session, t, at', stage', cache')
    BY <2>1, <2>2, DrawIsRight
  <2> QED
    BY <1>2, <2>1, <2>3 DEF SessionInv, Right
<1> QED
  BY <1>1, <1>2

\* A load leaves a fresh session, or none; the panels follow it.
LEMMA LoadIsRight ==
    ASSUME ViewInv, NEW f \in AnyFile, Load(f)
    PROVE  /\ SessionInv'
           /\ playing' = FALSE
           /\ pinned' \in Owner /\ findings' \in Owner /\ info' \in Owner
           /\ session' # None => findings' = session' /\ pinned' = None
<1>1. track \in Tracks /\ at \in Nat /\ cache \subseteq Drawing /\ info \in Owner
      /\ pinned \in Owner /\ findings \in Owner
  BY DEF ViewInv, TypeOK
<1>2. CASE boot = "init" \/ f \in Broken
  BY <1>1, <1>2 DEF Load, SessionInv, Owner
<1>3. CASE ~(boot = "init" \/ f \in Broken)
  <2>1. session' = f /\ track' = track /\ Draw(f, track, {}, 0)
        /\ pinned' = None /\ findings' = f /\ playing' = FALSE /\ info' = info
    BY <1>3 DEF Load
  <2>2. Right(f, track, at', stage', cache')
    BY <1>1, <2>1, DrawIsRight
  <2>3. f # None
    BY FilesAssumption
  <2> QED
    BY <1>1, <2>1, <2>2, <2>3 DEF SessionInv, Right, Owner
<1> QED
  BY <1>2, <1>3

\* The rest of the state, when the session and its drawings are in order.
LEMMA Reassemble ==
    ASSUME SessionInv',
           boot' \in {"init", "fetch", "over"},
           opens' \in 0 .. MaxOpens,
           reads' \subseteq [file : Files, turn : 1 .. MaxOpens],
           playing' \in BOOLEAN,
           pinned' \in Owner, findings' \in Owner, info' \in Owner,
           session' # None => findings' = session' /\ pinned' \in {None, session'},
           playing' => session' # None
    PROVE  ViewInv'
  BY DEF ViewInv, TypeOK, StageIsCurrent, PanelsAgree, SessionInv, Right, Count, Drawing, Owner

LEMMA ViewInit == Init => ViewInv
<1> SUFFICES ASSUME Init PROVE ViewInv
  OBVIOUS
<1>1. /\ boot = "init" /\ opens = 0 /\ reads = {}
      /\ session = None /\ track = 0 /\ at = 0 /\ playing = FALSE
      /\ cache = {} /\ pinned = None /\ findings = None /\ info = None /\ stage = Blank
  BY DEF Init
<1>2. opens \in 0 .. MaxOpens
  BY <1>1, OpensAssumption
<1>3. session \in Owner /\ pinned \in Owner /\ findings \in Owner /\ info \in Owner
      /\ track \in Tracks
  BY <1>1 DEF Owner, Tracks
<1>4. TypeOK
  BY <1>1, <1>2, <1>3 DEF TypeOK
<1> QED
  BY <1>1, <1>4 DEF ViewInv, StageIsCurrent, PanelsAgree

\* Steps that leave the session and its drawings alone.
LEMMA SessionStays ==
    ASSUME ViewInv, UNCHANGED <<session, track, at, stage, cache>>
    PROVE  SessionInv'
<1>1. SessionInv
  BY ViewIsSession
<1> QED
  BY <1>1 DEF SessionInv, Right

LEMMA ArrivalsKeepView ==
    ASSUME ViewInv, Arrivals
    PROVE  ViewInv'
<1>1. /\ boot \in {"init", "fetch", "over"}
      /\ opens \in 0 .. MaxOpens
      /\ reads \subseteq [file : Files, turn : 1 .. MaxOpens]
      /\ playing \in BOOLEAN /\ pinned \in Owner /\ findings \in Owner /\ info \in Owner
      /\ session # None => findings = session /\ pinned \in {None, session}
      /\ playing => session # None
  BY DEF ViewInv, TypeOK, PanelsAgree
<1>2. ASSUME NEW r \in reads, BytesArrive(r)
      PROVE  ViewInv'
  <2>1. r.file \in AnyFile
    BY <1>1 DEF AnyFile
  <2>2. Load(r.file) /\ reads' \subseteq reads /\ UNCHANGED <<boot, opens>>
    BY <1>2 DEF BytesArrive
  <2> QED
    BY <1>1, <2>1, <2>2, LoadIsRight, Reassemble
<1>3. ASSUME NEW r \in reads, ReadFails(r)
      PROVE  ViewInv'
  BY <1>1, <1>3, SessionStays, Reassemble DEF ReadFails
<1>4. CASE WasmArrives
  BY <1>1, <1>4, SessionStays, Reassemble DEF WasmArrives
<1>5. CASE SampleArrives
  <2>1. Sample \in AnyFile
    BY DEF AnyFile
  <2>2. Load(Sample) /\ boot' = "over" /\ UNCHANGED <<opens, reads>>
    BY <1>5 DEF SampleArrives
  <2> QED
    BY <1>1, <2>1, <2>2, LoadIsRight, Reassemble
<1>6. CASE SampleFails
  BY <1>1, <1>6, SessionStays, Reassemble DEF SampleFails
<1> QED
  BY <1>2, <1>3, <1>4, <1>5, <1>6 DEF Arrivals

LEMMA UserKeepsView ==
    ASSUME ViewInv, User \/ Tick
    PROVE  ViewInv'
<1>1. /\ boot \in {"init", "fetch", "over"}
      /\ opens \in 0 .. MaxOpens
      /\ reads \subseteq [file : Files, turn : 1 .. MaxOpens]
      /\ playing \in BOOLEAN /\ pinned \in Owner /\ findings \in Owner /\ info \in Owner
      /\ session # None => findings = session /\ pinned \in {None, session}
      /\ playing => session # None
      /\ track \in Tracks /\ at \in Nat
  BY DEF ViewInv, TypeOK, PanelsAgree
<1>2. SessionInv
  BY ViewIsSession
<1>3. ASSUME NEW f \in Files, Open(f)
      PROVE  ViewInv'
  <2>1. opens' \in 0 .. MaxOpens /\ opens + 1 \in 1 .. MaxOpens
    BY <1>1, <1>3, OpensAssumption DEF Open
  <2>2. reads' \subseteq [file : Files, turn : 1 .. MaxOpens]
    BY <1>1, <1>3, <2>1 DEF Open
  <2> QED
    BY <1>1, <1>3, <2>1, <2>2, SessionStays, Reassemble DEF Open
<1>4. ASSUME NEW n \in Int, Seek(n)
      PROVE  ViewInv'
  <2>1. SessionInv'
    BY <1>1, <1>2, <1>4, TabIsRight DEF Seek
  <2> QED
    BY <1>1, <1>4, <2>1, Reassemble DEF Seek, loading
<1>5. ASSUME NEW t \in Tracks, Tab(t)
      PROVE  ViewInv'
  <2>1. SessionInv'
    BY <1>1, <1>2, <1>5, TabIsRight DEF Tab
  <2> QED
    BY <1>1, <1>5, <2>1, Reassemble DEF Tab, loading
<1>6. ASSUME NEW n \in Int, GoToStep(n)
      PROVE  ViewInv'
  <2>1. 1 \in Tracks
    BY DEF Tracks
  <2>2. SessionInv'
    BY <1>2, <1>6, <2>1, ShowOnIsRight DEF GoToStep
  <2> QED
    BY <1>1, <1>6, <2>2, Reassemble DEF GoToStep, loading
<1>7. CASE PinFinding
  <2>1. 0 \in Tracks
    BY DEF Tracks
  <2>2. SessionInv'
    BY <1>2, <1>7, <2>1, ShowOnIsRight DEF PinFinding
  <2> QED
    BY <1>1, <1>7, <2>2, Reassemble DEF PinFinding, loading
<1>8. CASE Toggle
  <2>1. SessionInv'
    BY <1>1, <1>2, <1>8, TabIsRight, SessionStays DEF Toggle
  <2> QED
    BY <1>1, <1>8, <2>1, Reassemble DEF Toggle, loading
<1>9. CASE Tick
  <2>1. SessionInv'
    <3>1. at + 1 \in Int /\ track' = track /\ session' = session
      BY <1>1, <1>9 DEF Tick
    <3>2. CASE at >= Count - 1
      BY <1>9, <3>2, SessionStays DEF Tick
    <3>3. CASE ~(at >= Count - 1)
      <4>1. Show(track, at + 1)
        BY <1>9, <3>3 DEF Tick
      <4> QED
        BY <1>1, <1>2, <3>1, <4>1, TabIsRight
    <3> QED
      BY <3>2, <3>3
  <2> QED
    BY <1>1, <1>9, <2>1, Reassemble DEF Tick, loading
<1>10. CASE Hover
  BY <1>1, <1>10, SessionStays, Reassemble DEF Hover, loading
<1>11. CASE PinBand
  <2>1. pinned' \in {None, session} /\ pinned' \in Owner
    BY <1>1, <1>11 DEF PinBand, Owner
  <2> QED
    BY <1>1, <1>11, <2>1, SessionStays, Reassemble DEF PinBand, loading
<1>12. CASE Unpin
  <2>1. pinned' \in Owner
    BY <1>12 DEF Unpin, Owner
  <2> QED
    BY <1>1, <1>12, <2>1, SessionStays, Reassemble DEF Unpin, loading
<1>13. \A n \in {0, at - 1, at + 1} \cup 0 .. (Count - 1) : n \in Int
  BY <1>1
<1>14. info # None => \A n \in 0 .. (FrameCount[info][1] - 1) : n \in Int
  OBVIOUS
<1> QED
  BY <1>3, <1>4, <1>5, <1>6, <1>7, <1>8, <1>9, <1>10, <1>11, <1>12, <1>13, <1>14 DEF User

LEMMA ViewStays == ViewInv /\ [Next]_vars => ViewInv'
<1> SUFFICES ASSUME ViewInv, [Next]_vars
             PROVE  ViewInv'
  OBVIOUS
<1>1. CASE UNCHANGED vars
  BY <1>1 DEF vars, loading, ViewInv, TypeOK, StageIsCurrent, PanelsAgree, Count
<1> QED
  BY <1>1, ArrivalsKeepView, UserKeepsView DEF Next

\* Every variable of the page keeps its type.
THEOREM ViewerTypeCorrect == Spec => []TypeOK
<1>1. ViewInv => TypeOK
  BY DEF ViewInv
<1> QED
  BY ViewInit, ViewStays, <1>1, PTL DEF Spec

\* The stage always shows the current frame of the current track of the
\* current file, although drawings are kept and files arrive at any time.
THEOREM StageStaysCurrent == Spec => []StageIsCurrent
<1>1. ViewInv => StageIsCurrent
  BY DEF ViewInv
<1> QED
  BY ViewInit, ViewStays, <1>1, PTL DEF Spec

\* No panel tells of another file than the one shown, and nothing plays when
\* there is none.
THEOREM PanelsStayInStep == Spec => []PanelsAgree
<1>1. ViewInv => PanelsAgree
  BY DEF ViewInv
<1> QED
  BY ViewInit, ViewStays, <1>1, PTL DEF Spec
=============================================================================
