----------------------------- MODULE LightingProofs ----------------------------
(***************************************************************************)
(* Proofs about Lighting, for any names of profiles and any number of      *)
(* events, and about the pages it is checked with.                         *)
(*                                                                         *)
(* That the engine's timer meets no write is a matter of the flags loading *)
(* and applying: they keep the engine off, so the invariant says that they *)
(* are set as long as a handler waits for openrgb, and that an engine      *)
(* which should run and does not has failed and its event is on the way.   *)
(*                                                                         *)
(* What the keyboard shows when all is quiet depends on each write before. *)
(* The invariant says it of every state in which openrgb has nothing left  *)
(* to write: an animation runs, or a native write has failed and the page  *)
(* says so, or the keyboard shows the page (Shows) and a change of the     *)
(* brightness would send the page again (Remembers). For that a write      *)
(* under way must be one of what the page shows or will show               *)
(* (WritesThePage), and the handler that looks for the keyboard must find  *)
(* it untouched (StartComesFirst).                                         *)
(***************************************************************************)
EXTENDS MCPages, QueuedPageProofs, SequenceTheorems, TLAPS

\* One handler at a time.
OneHandler == \A t, u \in running : t = u

\* Events on profiles name one, and the keyboard is looked for at the start.
EventsFit ==
  /\ \A n \in 1..Len(events) : events[n].kind \in Lights!Named => events[n].name \in Name
  /\ \A t \in running :
       /\ t.event.kind \in Lights!Named => t.event.name \in Name
       /\ t.pc = "probe" => t.event.kind = "start"

\* The engine runs for the page of now; what stopped it is on its way to the page.
EngineFollows ==
  /\ engine.on => Lights!Animates(lights) /\ engine.base = lights.colors
  /\ Lights!Animates(lights) /\ ~engine.on =>
       \E n \in 1..Len(events) : events[n].kind = "failed"

Restores(t) == t.pc = "probe" \/ (t.pc = "write" /\ t.event.kind = "start")

Applies(t) == t.pc = "write" /\ t.event.kind # "start"

\* The flags that keep the engine off last as long as openrgb is waited for.
BusyWhileWriting ==
  ~lights.closing =>
    /\ lights.loading <=> \E t \in running : Restores(t)
    /\ lights.applying <=> \E t \in running : Applies(t)

Untouched == keyboard.sent.kind = "unknown" /\ keyboard.last.colors.leds = "none"

\* Until the start has looked for the keyboard, nothing was sent to it.
StartComesFirst ==
  /\ \A n \in 1..Len(events) : events[n].kind = "start" =>
       n = 1 /\ running = {} /\ ~lights.available /\ Untouched
  /\ \A t \in running : t.pc = "probe" => Untouched

\* What openrgb writes is what the page shows, or will show.
WritesThePage ==
  \A t \in running : t.pc = "write" /\ ~lights.closing =>
    /\ \A s, u \in t.snap : s = u
    /\ t.event.kind \notin {"start", "load"} =>
         \A s \in t.snap : s.colors = lights.colors /\ s.mode = lights.mode
    /\ lights.native => t.snap # {} /\ \A s \in t.snap : s.mode = "firmware"

Animated(b) == b.effects /\ b.mode = "Direct"

Shows(k, b) ==
  ~k.rejected /\ k.sent.kind # "unknown" /\ b.colors.leds = b.device /\ b.mode # "firmware"
  => k.sent.kind = "frame" /\ ~k.sent.animated /\ k.sent.colors = b.colors

\* A change of the brightness sends what the page shows.
Remembers(k, b) ==
  b.native /\ b.mode # "firmware" =>
    k.last.colors.leds = "none" \/ (k.last.colors = b.colors /\ ~k.last.animated)

\* Nothing openrgb has still to write makes the keyboard differ from the page.
Settled == \A t \in running : t.pc # "probe" /\ (t.pc = "write" => t.snap = {})

Follows(k, b) ==
  Animated(b) \/ (b.native /\ b.error) \/ (Shows(k, b) /\ Remembers(k, b))

KeyboardFollows == ~lights.closing /\ Settled => Follows(keyboard, lights)

LightsInv ==
  /\ Lights!TypeOK /\ OneHandler /\ EventsFit /\ EngineFollows /\ BusyWhileWriting
  /\ StartComesFirst /\ WritesThePage /\ KeyboardFollows

-----------------------------------------------------------------------------

LEMMA LightsYield == LightsInv => AnimationYields
BY DEF LightsInv, EngineFollows, BusyWhileWriting, Restores, Applies, AnimationYields,
       Lights!AnimationYields, Lights!Animates

LEMMA LightsShow == LightsInv => KeyboardShowsThePage
<1>. SUFFICES ASSUME LightsInv, Lights!Quiet, ~lights.error, ~keyboard.rejected,
                     lights.effects => lights.native, keyboard.sent.kind # "unknown",
                     lights.colors.leds = lights.device, lights.mode # "firmware",
                     ~engine.on
              PROVE  /\ keyboard.sent.kind = "frame" /\ ~keyboard.sent.animated
                     /\ keyboard.sent.colors = lights.colors
  BY DEF KeyboardShowsThePage, Lights!KeyboardShowsThePage
<1>1. /\ running = {} /\ events = <<>> /\ lights.available /\ ~lights.closing
  BY DEF Lights!Quiet
<1>2. ~lights.loading /\ ~lights.applying
  BY <1>1 DEF LightsInv, BusyWhileWriting
<1>3. ~Lights!Animates(lights)
  BY <1>1 DEF LightsInv, EngineFollows
<1>4. ~Animated(lights)
  BY <1>1, <1>2, <1>3 DEF Animated, Lights!Animates
<1>. QED BY <1>1, <1>4 DEF LightsInv, KeyboardFollows, Settled, Follows, Shows

-----------------------------------------------------------------------------
(* The state, the engine and the keyboard.                                 *)

LEMMA PaintingType ==
  /\ \A d \in Lights!Devices \cup {"none"} : Lights!Off(d) \in Lights!Painting
  /\ \A e \in Lights!Event : lights \in Lights!Bloc => Lights!New(e) \in Lights!Painting
BY EventsAssumption
DEF Lights!Painting, Lights!Off, Lights!Old, Lights!New, Lights!Event, Lights!Bloc

LEMMA SnapshotType ==
  ASSUME NEW b \in Lights!Bloc
  PROVE  Lights!SnapshotOf(b) \in Lights!Snapshot
BY DEF Lights!SnapshotOf, Lights!Snapshot, Lights!Bloc

LEMMA ToldType ==
  ASSUME NEW k \in Lights!Keyboard, NEW kind \in {"frame", "firmware"},
         NEW p \in Lights!Painting, NEW a \in BOOLEAN, NEW ok \in BOOLEAN,
         NEW n, n = Lights!Told(k, kind, p, a, ok)
  PROVE  /\ n \in Lights!Keyboard /\ n.last = k.last /\ (n.rejected <=> ~ok)
         /\ ok => n.sent = [kind |-> kind, colors |-> p, animated |-> a]
         /\ ~ok => n.sent = k.sent
<1>1. CASE ok
  BY <1>1 DEF Lights!Told, Lights!Keyboard
<1>2. CASE ~ok
  BY <1>2 DEF Lights!Told, Lights!Keyboard
<1>. QED BY <1>1, <1>2

LEMMA FrameType ==
  ASSUME NEW k \in Lights!Keyboard, NEW p \in Lights!Painting, NEW ok \in BOOLEAN
  PROVE  Lights!PaintNative(k, p, TRUE, ok) \in Lights!Keyboard
<1>1. CASE ok
  BY <1>1 DEF Lights!PaintNative, Lights!Told, Lights!Keyboard
<1>2. CASE ~ok
  BY <1>2 DEF Lights!PaintNative, Lights!Told, Lights!Keyboard
<1>. QED BY <1>1, <1>2

\* A native write leaves the keyboard with the colours, or is not accepted.
LEMMA PaintedFollows ==
  ASSUME NEW k \in Lights!Keyboard, NEW b \in Lights!Bloc, NEW ok \in BOOLEAN,
         NEW n, n = Lights!PaintNative(k, b.colors, FALSE, ok)
  PROVE  n \in Lights!Keyboard /\ Follows(n, b)
<1>0. b.colors \in Lights!Painting
  BY DEF Lights!Bloc
<1>1. /\ n \in Lights!Keyboard /\ (n.rejected <=> ~ok)
      /\ n.last.colors = b.colors /\ ~n.last.animated
      /\ ok => n.sent.kind = "frame" /\ ~n.sent.animated /\ n.sent.colors = b.colors
  <2>1. CASE ok
    BY <1>0, <2>1 DEF Lights!PaintNative, Lights!Told, Lights!Keyboard
  <2>2. CASE ~ok
    BY <1>0, <2>2 DEF Lights!PaintNative, Lights!Told, Lights!Keyboard
  <2>. QED BY <2>1, <2>2
<1>2. Shows(n, b)
  BY <1>1 DEF Shows
<1>3. Remembers(n, b)
  BY <1>1 DEF Remembers
<1>. QED BY <1>1, <1>2, <1>3 DEF Follows

\* So does a write of openrgb, where no frame is remembered.
LEMMA WrittenFollows ==
  ASSUME NEW k \in Lights!Keyboard, NEW b \in Lights!Bloc, NEW ok \in BOOLEAN,
         NEW kind \in {"frame", "firmware"},
         b.mode # "firmware" => kind = "frame" /\ ~b.native,
         NEW n, n = Lights!Told(k, kind, b.colors, FALSE, ok)
  PROVE  n \in Lights!Keyboard /\ Follows(n, b)
<1>0. b.colors \in Lights!Painting
  BY DEF Lights!Bloc
<1>1. /\ n \in Lights!Keyboard /\ (n.rejected <=> ~ok)
      /\ ok => n.sent.kind = kind /\ ~n.sent.animated /\ n.sent.colors = b.colors
  <2>1. CASE ok
    BY <1>0, <2>1 DEF Lights!Told, Lights!Keyboard
  <2>2. CASE ~ok
    BY <1>0, <2>2 DEF Lights!Told, Lights!Keyboard
  <2>. QED BY <2>1, <2>2
<1>. QED BY <1>1 DEF Follows, Shows, Remembers

\* What the flags are does not matter, except an error.
LEMMA FollowsAlike ==
  ASSUME NEW k, NEW b, NEW c, Follows(k, b), b.colors = c.colors, b.mode = c.mode,
         b.effects = c.effects, b.native = c.native, b.device = c.device,
         b.native => (b.error => c.error)
  PROVE  Follows(k, c)
BY DEF Follows, Animated, Shows, Remembers

\* The engine after a change of the state.
LEMMA EmitEngine ==
  ASSUME LightsInv, NEW b \in Lights!Bloc, Lights!Emit(b)
  PROVE  /\ lights' = b /\ engine' \in [on : BOOLEAN, base : Lights!Painting]
         /\ engine'.on => Lights!Animates(b) /\ engine'.base = b.colors
         /\ Lights!Animates(b) /\ ~engine'.on =>
              b = lights /\ \E n \in 1..Len(events) : events[n].kind = "failed"
<1>1. CASE b = lights
  BY <1>1 DEF LightsInv, EngineFollows, Lights!Emit, Lights!TypeOK
<1>2. CASE b # lights
  <2>1. lights' = b /\ engine' = [on |-> Lights!Animates(b), base |-> b.colors]
    BY <1>2 DEF Lights!Emit
  <2>2. Lights!Animates(b) \in BOOLEAN
    BY DEF Lights!Animates
  <2>. QED BY <2>1, <2>2 DEF Lights!Bloc
<1>. QED BY <1>1, <1>2

-----------------------------------------------------------------------------
(* A handler goes on or ends.  Only one ran, and the events left are no    *)
(* start.                                                                  *)

EventsLeft ==
  /\ events' \in Seq(Lights!Event) /\ count' \in 0..MaxEvents
  /\ \A n \in 1..Len(events') :
       /\ events'[n].kind # "start"
       /\ events'[n].kind \in Lights!Named => events'[n].name \in Name

StoreType == [saved : SUBSET Lights!Snapshot, profile : [Name -> SUBSET Lights!Snapshot]]

\* What stopped the engine is not forgotten: it is on its way, or the state changes.
Remembered(b) ==
  b = lights /\ Lights!Animates(b) /\ (\E n \in 1..Len(events) : events[n].kind = "failed")
    => \E n \in 1..Len(events') : events'[n].kind = "failed"

LEMMA AwaitInv ==
  ASSUME LightsInv, EventsLeft, keyboard' \in Lights!Keyboard, store' \in StoreType,
         NEW b \in Lights!Bloc, Remembered(b),
         NEW e \in Lights!Event, e.kind \in Lights!Named => e.name \in Name,
         NEW pc \in {"probe", "write", "store", "save"}, NEW snap \in SUBSET Lights!Snapshot,
         Lights!Await({}, e, pc, snap, b),
         pc = "probe" => e.kind = "start" /\ Untouched',
         ~b.closing =>
           /\ b.loading <=> pc = "probe" \/ (pc = "write" /\ e.kind = "start")
           /\ b.applying <=> pc = "write" /\ e.kind # "start",
         pc = "write" /\ ~b.closing =>
           /\ \A s, u \in snap : s = u
           /\ e.kind \notin {"start", "load"} =>
                \A s \in snap : s.colors = b.colors /\ s.mode = b.mode
           /\ b.native => snap # {} /\ \A s \in snap : s.mode = "firmware",
         ~b.closing /\ pc # "probe" /\ (pc = "write" => snap = {}) => Follows(keyboard', b)
  PROVE  LightsInv'
<1>. DEFINE t == [event |-> e, pc |-> pc, snap |-> snap]
<1>1. Lights!Emit(b) /\ running' = {t}
  BY DEF Lights!Await
<1>2. t \in Lights!Task /\ t.event = e /\ t.pc = pc /\ t.snap = snap
  BY DEF Lights!Task
<1>. HIDE DEF t
<1>3. /\ lights' = b /\ engine' \in [on : BOOLEAN, base : Lights!Painting]
      /\ engine'.on => Lights!Animates(b) /\ engine'.base = b.colors
      /\ Lights!Animates(b) /\ ~engine'.on =>
           b = lights /\ \E n \in 1..Len(events) : events[n].kind = "failed"
  BY <1>1, EmitEngine
<1>4. Lights!TypeOK'
  BY <1>1, <1>2, <1>3 DEF Lights!TypeOK, EventsLeft, StoreType
<1>5. EngineFollows'
  BY <1>3 DEF EngineFollows, Remembered, Lights!Animates
<1>6. OneHandler' /\ EventsFit' /\ StartComesFirst'
  BY <1>1, <1>2 DEF OneHandler, EventsFit, StartComesFirst, EventsLeft
<1>7. BusyWhileWriting'
  BY <1>1, <1>2, <1>3 DEF BusyWhileWriting, Restores, Applies
<1>8. WritesThePage'
  BY <1>1, <1>2, <1>3 DEF WritesThePage
<1>9. KeyboardFollows'
  BY <1>1, <1>2, <1>3 DEF KeyboardFollows, Settled
<1>. QED BY <1>4, <1>5, <1>6, <1>7, <1>8, <1>9 DEF LightsInv

LEMMA RestInv ==
  ASSUME LightsInv, EventsLeft, keyboard' \in Lights!Keyboard, store' \in StoreType,
         NEW b \in Lights!Bloc, Remembered(b), Lights!Emit(b), running' = {},
         ~b.closing => ~b.loading /\ ~b.applying /\ Follows(keyboard', b)
  PROVE  LightsInv'
<1>1. /\ lights' = b /\ engine' \in [on : BOOLEAN, base : Lights!Painting]
      /\ engine'.on => Lights!Animates(b) /\ engine'.base = b.colors
      /\ Lights!Animates(b) /\ ~engine'.on =>
           b = lights /\ \E n \in 1..Len(events) : events[n].kind = "failed"
  BY EmitEngine
<1>2. Lights!TypeOK'
  BY <1>1 DEF Lights!TypeOK, EventsLeft, StoreType
<1>3. EngineFollows'
  BY <1>1 DEF EngineFollows, Remembered, Lights!Animates
<1>. QED BY <1>1, <1>2, <1>3
     DEF LightsInv, OneHandler, EventsFit, StartComesFirst, EventsLeft,
         BusyWhileWriting, WritesThePage, KeyboardFollows

LEMMA EndInv ==
  ASSUME LightsInv, EventsLeft, keyboard' \in Lights!Keyboard,
         NEW b \in Lights!Bloc, Remembered(b),
         NEW e \in Lights!Event, e.kind \in Lights!Named => e.name \in Name,
         Lights!End({}, e, b),
         ~b.closing => ~b.loading /\ ~b.applying /\ Follows(keyboard', b),
         store \in StoreType
  PROVE  LightsInv'
<1>. DEFINE saves == b.available /\ ~b.loading /\ ~b.error /\ ~b.closing
<1>1. store' \in StoreType
  <2>1. CASE saves
    <3>1. store' = [store EXCEPT !.saved = {Lights!SnapshotOf(b)}]
      BY <2>1 DEF Lights!End
    <3>. QED BY <3>1, SnapshotType DEF StoreType
  <2>2. CASE ~saves
    BY <2>2 DEF Lights!End
  <2>. QED BY <2>1, <2>2
<1>2. CASE saves
  <2>1. Lights!Await({}, e, "save", {}, b)
    BY <1>2 DEF Lights!End
  <2>. HIDE DEF saves
  <2>. QED BY <1>1, <2>1, AwaitInv
<1>3. CASE ~saves
  <2>1. Lights!Emit(b) /\ running' = {}
    BY <1>3 DEF Lights!End
  <2>. HIDE DEF saves
  <2>. QED BY <1>1, <2>1, RestInv
<1>. QED BY <1>2, <1>3

-----------------------------------------------------------------------------
(* The next event is handled.                                              *)

Takes(e) ==
  /\ running = {} /\ ~lights.closing /\ EventsLeft
  /\ e \in Lights!Event /\ (e.kind \in Lights!Named => e.name \in Name)
  /\ e.kind = "start" => Untouched
  /\ (\E n \in 1..Len(events) : events[n].kind = "failed") =>
       e.kind = "failed" \/ \E n \in 1..Len(events') : events'[n].kind = "failed"

\* Between two handlers nothing is written and the keyboard follows.
LEMMA Rests ==
  ASSUME LightsInv, running = {}, ~lights.closing
  PROVE  /\ ~lights.loading /\ ~lights.applying /\ Follows(keyboard, lights)
         /\ lights \in Lights!Bloc /\ keyboard \in Lights!Keyboard /\ store \in StoreType
BY DEF LightsInv, BusyWhileWriting, KeyboardFollows, Settled, Lights!TypeOK, StoreType

LEMMA ApplyInv ==
  ASSUME LightsInv, NEW e, Takes(e), e.kind \notin {"start", "load", "failed"},
         NEW b \in Lights!Bloc, ~b.loading, ~b.applying, ~b.closing, Lights!Apply(e, b)
  PROVE  LightsInv'
<1>. USE DEF Takes
<1>1. /\ store \in StoreType /\ keyboard \in Lights!Keyboard /\ b.colors \in Lights!Painting
  BY Rests DEF Lights!Bloc
<1>2. CASE b.native
  <2>1. PICK ok \in BOOLEAN :
          keyboard' = Lights!PaintNative(keyboard, b.colors, FALSE, ok)
    BY <1>2 DEF Lights!Apply
  <2>2. Lights!End({}, e, b)
    BY <1>2 DEF Lights!Apply
  <2>3. keyboard' \in Lights!Keyboard /\ Follows(keyboard', b)
    BY <1>1, <2>1, PaintedFollows
  <2>. QED BY <1>1, <2>2, <2>3, EndInv DEF Remembered
<1>3. CASE ~b.native
  <2>. DEFINE c == [b EXCEPT !.applying = TRUE]
              s == Lights!SnapshotOf(b)
  <2>1. /\ c \in Lights!Bloc /\ c.applying /\ ~c.loading /\ ~c.closing /\ ~c.native
        /\ c.colors = b.colors /\ c.mode = b.mode
    BY <1>3 DEF Lights!Bloc
  <2>2. s \in Lights!Snapshot /\ s.colors = b.colors /\ s.mode = b.mode
    BY SnapshotType DEF Lights!SnapshotOf
  <2>3. Lights!Await({}, e, "write", {s}, c) /\ UNCHANGED <<keyboard, store>>
    BY <1>3 DEF Lights!Apply
  <2>. HIDE DEF c, s
  <2>. QED BY <1>1, <2>1, <2>2, <2>3, AwaitInv DEF Remembered
<1>. QED BY <1>2, <1>3

\* A handler that sends nothing.
LEMMA QuietEnd ==
  ASSUME LightsInv, NEW e, Takes(e), UNCHANGED keyboard,
         NEW b \in Lights!Bloc, Lights!End({}, e, b), Follows(keyboard, b),
         ~b.loading, ~b.applying, e.kind = "failed" => b.error
  PROVE  LightsInv'
<1>1. store \in StoreType /\ keyboard \in Lights!Keyboard
  BY Rests DEF Takes
<1>2. Remembered(b)
  BY DEF Remembered, Takes, Lights!Animates
<1>. QED BY <1>1, <1>2, EndInv DEF Takes

LEMMA IgnoreInv ==
  ASSUME LightsInv, NEW e, Takes(e), e.kind # "failed", Lights!Ignore(e)
  PROVE  LightsInv'
<1>1. Lights!End({}, e, lights) /\ UNCHANGED keyboard
  BY DEF Lights!Ignore, Takes
<1>. QED BY <1>1, Rests, QuietEnd DEF Takes

\* The user's events, for a keyboard that was found.
LEMMA UserEventInv ==
  ASSUME LightsInv, NEW e, Takes(e),
         e.kind \in {"paint", "color", "Direct", "Static", "firmware", "brightness", "clear"},
         \/ Lights!Paint(e) \/ Lights!ColorSelected(e) \/ Lights!DirectSelected(e)
         \/ Lights!StaticSelected(e) \/ Lights!FirmwareSelected(e)
         \/ Lights!BrightnessChanged(e) \/ Lights!EffectsCleared(e)
  PROVE  LightsInv'
<1>0. /\ ~lights.loading /\ ~lights.applying /\ Follows(keyboard, lights) /\ ~lights.closing
      /\ lights \in Lights!Bloc /\ keyboard \in Lights!Keyboard /\ store \in StoreType
      /\ e \in Lights!Event /\ running = {}
  BY Rests DEF Takes
<1>1. Lights!New(e) \in Lights!Painting /\ lights.colors \in Lights!Painting
  BY <1>0, PaintingType DEF Lights!Bloc
<1>2. Lights!SavedDirect \in Lights!Painting /\ lights.direct \in Lights!Painting
  BY <1>0 DEF Lights!SavedDirect, Lights!Bloc
<1>3. CASE Lights!Paint(e)
  <2>. DEFINE b == [lights EXCEPT !.colors = Lights!New(e), !.mode = "Direct"]
  <2>1. b \in Lights!Bloc /\ ~b.loading /\ ~b.applying /\ ~b.closing
    BY <1>0, <1>1 DEF Lights!Bloc, Lights!Modes
  <2>2. Lights!Apply(e, b)
    BY <1>3 DEF Lights!Paint
  <2>. HIDE DEF b
  <2>. QED BY <2>1, <2>2, ApplyInv
<1>4. CASE Lights!ColorSelected(e)
  <2>. DEFINE b == [lights EXCEPT !.colors = Lights!New(e)]
  <2>1. b \in Lights!Bloc /\ ~b.loading /\ ~b.applying /\ ~b.closing
    BY <1>0, <1>1 DEF Lights!Bloc
  <2>2. Lights!Apply(e, b) \/ Lights!Ignore(e)
    BY <1>4 DEF Lights!ColorSelected
  <2>. HIDE DEF b
  <2>. QED BY <2>1, <2>2, ApplyInv, IgnoreInv
<1>5. CASE Lights!DirectSelected(e)
  <2>. DEFINE p == IF lights.direct.leds = lights.device THEN lights.direct
                   ELSE lights.colors
              b == [lights EXCEPT !.colors = p, !.mode = "Direct"]
  <2>1. b \in Lights!Bloc /\ ~b.loading /\ ~b.applying /\ ~b.closing
    BY <1>0, <1>1, <1>2 DEF Lights!Bloc, Lights!Modes
  <2>2. Lights!Apply(e, b)
    BY <1>5 DEF Lights!DirectSelected
  <2>. HIDE DEF b
  <2>. QED BY <2>1, <2>2, ApplyInv
<1>6. CASE Lights!StaticSelected(e)
  <2>. DEFINE b == [lights EXCEPT !.colors = Lights!New(e), !.mode = "Static",
                                  !.direct = Lights!SavedDirect]
  <2>1. b \in Lights!Bloc /\ ~b.loading /\ ~b.applying /\ ~b.closing
    BY <1>0, <1>1, <1>2 DEF Lights!Bloc, Lights!Modes
  <2>2. Lights!Apply(e, b)
    BY <1>6 DEF Lights!StaticSelected
  <2>. HIDE DEF b
  <2>. QED BY <2>1, <2>2, ApplyInv
<1>7. CASE Lights!FirmwareSelected(e)
  <2>. DEFINE b == [lights EXCEPT !.mode = "firmware", !.direct = Lights!SavedDirect,
                                  !.applying = TRUE]
              s == Lights!SnapshotOf(b)
  <2>1. /\ b \in Lights!Bloc /\ ~b.loading /\ b.applying /\ ~b.closing
        /\ b.mode = "firmware"
    BY <1>0, <1>2 DEF Lights!Bloc, Lights!Modes
  <2>2. Lights!Await({}, e, "write", {s}, b) /\ UNCHANGED <<keyboard, store>>
    BY <1>0, <1>7 DEF Lights!FirmwareSelected
  <2>. HIDE DEF b
  <2>3. s \in Lights!Snapshot /\ s.colors = b.colors /\ s.mode = b.mode
    BY <2>1, SnapshotType DEF Lights!SnapshotOf
  <2>. HIDE DEF s
  <2>. QED BY <1>0, <2>1, <2>2, <2>3, AwaitInv DEF Takes, Remembered
<1>8. CASE Lights!BrightnessChanged(e)
  <2>1. CASE lights.native
    <3>1. /\ keyboard' \in Lights!Resend(keyboard) \cup {keyboard}
          /\ Lights!End({}, e, lights)
      BY <1>0, <1>8, <2>1 DEF Lights!BrightnessChanged
    <3>2. CASE keyboard' = keyboard
      BY <1>0, <3>1, <3>2, QuietEnd
    <3>3. CASE keyboard' # keyboard
      <4>1. /\ keyboard.last.colors.leds # "none"
            /\ keyboard' \in {Lights!Told(keyboard, "frame", keyboard.last.colors,
                                           keyboard.last.animated, ok) : ok \in BOOLEAN}
        BY <3>1, <3>3 DEF Lights!Resend
      <4>2. PICK ok \in BOOLEAN :
              keyboard' = Lights!Told(keyboard, "frame", keyboard.last.colors,
                                       keyboard.last.animated, ok)
        BY <4>1
      <4>3. /\ keyboard.last.colors \in Lights!Painting
            /\ keyboard.last.animated \in BOOLEAN
        BY <1>0 DEF Lights!Keyboard
      <4>4. /\ keyboard' \in Lights!Keyboard /\ keyboard'.last = keyboard.last
            /\ keyboard'.rejected <=> ~ok
            /\ ok => keyboard'.sent = [kind |-> "frame", colors |-> keyboard.last.colors,
                                       animated |-> keyboard.last.animated]
        BY <1>0, <4>2, <4>3, ToldType
      <4>5. Follows(keyboard', lights)
        BY <1>0, <2>1, <4>1, <4>4 DEF Follows, Shows, Remembers
      <4>. QED BY <1>0, <3>1, <4>4, <4>5, EndInv DEF Takes, Remembered
    <3>. QED BY <3>2, <3>3
  <2>2. CASE ~lights.native
    <3>. DEFINE b == [lights EXCEPT !.applying = TRUE]
    <3>1. /\ b \in Lights!Bloc /\ ~b.loading /\ b.applying /\ ~b.closing /\ ~b.native
          /\ b.colors = lights.colors /\ b.mode = lights.mode /\ b.device = lights.device
          /\ b.effects = lights.effects /\ b.native = lights.native
      BY <1>0, <2>2 DEF Lights!Bloc
    <3>2. Lights!Await({}, e, "write", {}, b) /\ UNCHANGED <<keyboard, store>>
      BY <1>0, <1>8, <2>2 DEF Lights!BrightnessChanged
    <3>. HIDE DEF b
    <3>3. Follows(keyboard, b)
      BY <1>0, <3>1, FollowsAlike
    <3>. QED BY <1>0, <3>1, <3>2, <3>3, AwaitInv DEF Takes, Remembered
  <2>. QED BY <2>1, <2>2
<1>9. CASE Lights!EffectsCleared(e)
  <2>. DEFINE b == [lights EXCEPT !.effects = FALSE, !.mode = "Direct"]
  <2>1. b \in Lights!Bloc /\ ~b.loading /\ ~b.applying /\ ~b.closing
    BY <1>0 DEF Lights!Bloc, Lights!Modes
  <2>2. Lights!Apply(e, b)
    BY <1>9 DEF Lights!EffectsCleared
  <2>. HIDE DEF b
  <2>. QED BY <2>1, <2>2, ApplyInv
<1>. QED BY <1>3, <1>4, <1>5, <1>6, <1>7, <1>8, <1>9

LEMMA EffectAssignedInv ==
  ASSUME LightsInv, NEW e, Takes(e), e.kind = "assign", Lights!EffectAssigned(e)
  PROVE  LightsInv'
<1>. DEFINE b == [lights EXCEPT !.effects = TRUE, !.mode = "Direct"]
<1>1. b \in Lights!Bloc /\ ~b.loading /\ ~b.applying /\ b.effects /\ b.mode = "Direct"
  BY Rests DEF Takes, Lights!Bloc, Lights!Modes
<1>2. Lights!End({}, e, b) /\ UNCHANGED keyboard
  BY DEF Lights!EffectAssigned, Takes
<1>. HIDE DEF b
<1>3. Follows(keyboard, b)
  BY <1>1 DEF Follows, Animated
<1>. QED BY <1>1, <1>2, <1>3, QuietEnd

LEMMA AnimationFailedInv ==
  ASSUME LightsInv, NEW e, Takes(e), Lights!AnimationFailed(e)
  PROVE  LightsInv'
<1>. DEFINE b == [lights EXCEPT !.error = TRUE]
<1>1. /\ b \in Lights!Bloc /\ ~b.loading /\ ~b.applying /\ b.error
      /\ b.colors = lights.colors /\ b.mode = lights.mode /\ b.device = lights.device
      /\ b.effects = lights.effects /\ b.native = lights.native
  BY Rests DEF Takes, Lights!Bloc
<1>2. Lights!End({}, e, b) /\ UNCHANGED keyboard
  BY DEF Lights!AnimationFailed, Takes
<1>. HIDE DEF b
<1>3. Follows(keyboard, b)
  BY <1>1, Rests, FollowsAlike DEF Takes
<1>. QED BY <1>1, <1>2, <1>3, QuietEnd

LEMMA ProfileStoredInv ==
  ASSUME LightsInv, NEW e, Takes(e), e.kind \in {"save", "delete"}, Lights!ProfileStored(e)
  PROVE  LightsInv'
<1>1. e.name \in Name /\ Lights!SnapshotOf(lights) \in Lights!Snapshot
  BY Rests, SnapshotType DEF Takes, Lights!Named
<1>2. store' \in StoreType
  <2>. DEFINE x == IF e.kind = "save" THEN {Lights!SnapshotOf(lights)} ELSE {}
  <2>1. x \in SUBSET Lights!Snapshot
    BY <1>1
  <2>2. store' = [store EXCEPT !.profile[e.name] = x]
    BY DEF Lights!ProfileStored
  <2>. HIDE DEF x
  <2>. QED BY <1>1, <2>1, <2>2, Rests DEF StoreType, Takes
<1>3. Lights!Await({}, e, "store", {}, lights) /\ UNCHANGED keyboard
  BY DEF Lights!ProfileStored, Takes
<1>. QED BY <1>2, <1>3, Rests, AwaitInv DEF Takes, Remembered

LEMMA StartedInv ==
  ASSUME LightsInv, NEW e, Takes(e), e.kind = "start", Lights!Started(e)
  PROVE  LightsInv'
<1>. DEFINE b == [lights EXCEPT !.loading = TRUE, !.error = FALSE]
<1>1. b \in Lights!Bloc /\ b.loading /\ ~b.applying /\ ~b.closing
  BY Rests DEF Takes, Lights!Bloc
<1>2. Lights!Await({}, e, "probe", {}, b) /\ UNCHANGED <<keyboard, store>>
  BY DEF Lights!Started, Takes
<1>3. Untouched'
  BY <1>2 DEF Takes, Untouched
<1>4. Remembered(b)
  BY <1>1 DEF Remembered, Lights!Animates
<1>. HIDE DEF b
<1>. QED BY <1>1, <1>2, <1>3, <1>4, Rests, AwaitInv DEF Takes

-----------------------------------------------------------------------------
(* Profiles and the remembered painting.                                   *)

LEMMA NotWrittenType ==
  ASSUME NEW b \in Lights!Bloc, NEW c, c = Lights!NotWritten(b)
  PROVE  /\ c \in Lights!Bloc /\ ~c.loading /\ ~c.applying /\ c.error
         /\ c.closing = b.closing /\ c.native = b.native /\ c.colors = b.colors
         /\ c.mode = b.mode /\ c.effects = b.effects /\ c.device = b.device
BY DEF Lights!NotWritten, Lights!Bloc

LEMMA WrittenType ==
  ASSUME NEW b \in Lights!Bloc, NEW s \in Lights!Snapshot,
         NEW e \in Lights!Event, NEW c,
         c = Lights!Written(e, b, s)
  PROVE  /\ c \in Lights!Bloc
         /\ c.loading <=> (e.kind = "load" /\ b.loading)
         /\ c.applying <=> (e.kind # "load" /\ b.applying)
         /\ c.closing = b.closing /\ c.native = b.native /\ c.colors = s.colors
         /\ c.mode = s.mode /\ c.effects = s.effects /\ c.device = b.device
<1>. DEFINE d == [b EXCEPT !.colors = s.colors, !.mode = s.mode, !.effects = s.effects]
<1>1. /\ d \in Lights!Bloc /\ d.loading = b.loading /\ d.applying = b.applying
      /\ d.closing = b.closing /\ d.native = b.native /\ d.colors = s.colors
      /\ d.mode = s.mode /\ d.effects = s.effects /\ d.device = b.device
      /\ s.colors \in Lights!Painting
  BY DEF Lights!Bloc, Lights!Snapshot
<1>2. c = IF e.kind = "load" THEN [d EXCEPT !.applying = FALSE, !.direct = s.colors]
          ELSE [d EXCEPT !.loading = FALSE]
  BY DEF Lights!Written
<1>. HIDE DEF d
<1>3. CASE e.kind = "load"
  BY <1>1, <1>2, <1>3 DEF Lights!Bloc
<1>4. CASE e.kind # "load"
  BY <1>1, <1>2, <1>4 DEF Lights!Bloc
<1>. QED BY <1>3, <1>4

\* The state while a snapshot is written, for the start or for a profile.
Writing(e, b) ==
  /\ b \in Lights!Bloc /\ ~b.closing
  /\ e.kind \in {"start", "load"}
  /\ b.loading <=> e.kind = "start"
  /\ b.applying <=> e.kind = "load"

LEMMA WriteSnapshotInv ==
  ASSUME LightsInv, EventsLeft, keyboard \in Lights!Keyboard, store \in StoreType,
         NEW e \in Lights!Event, e.kind \in Lights!Named => e.name \in Name,
         NEW s \in Lights!Snapshot, NEW b, Writing(e, b),
         \A c : Remembered(c),
         ~b.native => Follows(keyboard, b),
         Lights!WriteSnapshot({}, e, s, b)
  PROVE  LightsInv'
<1>. DEFINE w == Lights!Written(e, b, s)
            x == Lights!NotWritten(b)
<1>0. /\ b \in Lights!Bloc /\ ~b.closing /\ e.kind \in {"start", "load"}
      /\ b.loading <=> e.kind = "start"
      /\ b.applying <=> e.kind = "load"
      /\ w = Lights!Written(e, b, s)
  BY DEF Writing
<1>. HIDE DEF w
<1>1. /\ w \in Lights!Bloc /\ ~w.loading /\ ~w.applying /\ ~w.closing
      /\ w.native = b.native /\ w.colors = s.colors /\ w.mode = s.mode
      /\ w.effects = s.effects /\ w.device = b.device
  <2>1. /\ w \in Lights!Bloc
        /\ w.loading <=> (e.kind = "load" /\ b.loading)
        /\ w.applying <=> (e.kind # "load" /\ b.applying)
        /\ w.closing = b.closing /\ w.native = b.native /\ w.colors = s.colors
        /\ w.mode = s.mode /\ w.effects = s.effects /\ w.device = b.device
    BY <1>0, WrittenType
  <2>. QED BY <1>0, <2>1
<1>2. /\ x \in Lights!Bloc /\ ~x.loading /\ ~x.applying /\ x.error /\ ~x.closing
      /\ x.native = b.native /\ x.colors = b.colors /\ x.mode = b.mode
      /\ x.effects = b.effects /\ x.device = b.device
  BY NotWrittenType DEF Writing
<1>. HIDE DEF x
<1>3. CASE ~Lights!Suits(s, b) /\ Lights!End({}, e, x) /\ UNCHANGED keyboard
  <2>1. Follows(keyboard, x)
    <3>1. CASE b.native
      BY <1>2, <3>1 DEF Follows
    <3>2. CASE ~b.native
      BY <1>2, <3>2, FollowsAlike
    <3>. QED BY <3>1, <3>2
  <2>. QED BY <1>2, <1>3, <2>1, EndInv
<1>4. CASE /\ Lights!Suits(s, b) /\ b.native /\ s.mode # "firmware"
           /\ \E ok, done \in BOOLEAN :
                /\ done => ok
                /\ keyboard' = Lights!PaintNative(keyboard, s.colors, FALSE, ok)
                /\ Lights!End({}, e, IF done THEN w ELSE x)
  <2>1. PICK ok \in BOOLEAN, done \in BOOLEAN :
          /\ keyboard' = Lights!PaintNative(keyboard, s.colors, FALSE, ok)
          /\ Lights!End({}, e, IF done THEN w ELSE x)
    BY <1>4
  <2>2. keyboard' \in Lights!Keyboard /\ Follows(keyboard', w)
    BY <1>1, <2>1, PaintedFollows
  <2>3. Follows(keyboard', x)
    BY <1>2, <1>4 DEF Follows
  <2>. QED BY <1>1, <1>2, <2>1, <2>2, <2>3, EndInv
<1>5. CASE /\ Lights!Suits(s, b) /\ (~b.native \/ s.mode = "firmware")
           /\ Lights!Await({}, e, "write", {s}, b)
           /\ UNCHANGED <<keyboard, store>>
  BY <1>5, AwaitInv DEF Writing
<1>. QED BY <1>3, <1>4, <1>5 DEF Lights!WriteSnapshot, w, x

LEMMA ProfileLoadedInv ==
  ASSUME LightsInv, NEW e, Takes(e), e.kind = "load", Lights!ProfileLoaded(e)
  PROVE  LightsInv'
<1>. DEFINE b == [lights EXCEPT !.applying = TRUE, !.error = FALSE]
            x == Lights!NotWritten(b)
<1>0. /\ ~lights.loading /\ ~lights.closing /\ lights \in Lights!Bloc /\ store \in StoreType
      /\ Follows(keyboard, lights) /\ keyboard \in Lights!Keyboard
      /\ running = {} /\ e \in Lights!Event /\ EventsLeft
  BY Rests DEF Takes
<1>1. /\ b \in Lights!Bloc /\ ~b.loading /\ b.applying /\ ~b.closing
      /\ b.native = lights.native /\ b.colors = lights.colors /\ b.mode = lights.mode
      /\ b.effects = lights.effects /\ b.device = lights.device
  BY <1>0 DEF Lights!Bloc
<1>. HIDE DEF b
<1>2. CASE Lights!End({}, e, x) /\ UNCHANGED keyboard
  <2>1. /\ x \in Lights!Bloc /\ ~x.loading /\ ~x.applying /\ x.error
        /\ x.native = b.native /\ x.colors = b.colors /\ x.mode = b.mode
        /\ x.effects = b.effects /\ x.device = b.device
    BY <1>1, NotWrittenType
  <2>. HIDE DEF x
  <2>2. Follows(keyboard, x)
    BY <1>0, <1>1, <2>1, FollowsAlike
  <2>. QED BY <1>2, <2>1, <2>2, QuietEnd
<1>3. ASSUME NEW s \in store.profile[e.name], Lights!WriteSnapshot({}, e, s, b)
      PROVE  LightsInv'
  <2>1. s \in Lights!Snapshot
    BY <1>0, <1>3 DEF StoreType, Takes, Lights!Named
  <2>2. ~b.native => Follows(keyboard, b)
    BY <1>0, <1>1, FollowsAlike
  <2>3. \A c : Remembered(c)
    BY DEF Remembered, Takes
  <2>. QED BY <1>0, <1>1, <1>3, <2>1, <2>2, <2>3, WriteSnapshotInv DEF Takes, Writing
<1>. QED BY <1>0, <1>2, <1>3 DEF Lights!ProfileLoaded, b, x

-----------------------------------------------------------------------------
(* A handler that waited goes on.                                          *)

\* While a handler waits the events behind it stay, and none is a start.
LEMMA Waiting ==
  ASSUME LightsInv, NEW t \in running, UNCHANGED <<events, count>>
  PROVE  /\ running \ {t} = {} /\ EventsLeft /\ (\A c : Remembered(c))
         /\ t.event \in Lights!Event /\ t.snap \in SUBSET Lights!Snapshot
         /\ t.event.kind \in Lights!Named => t.event.name \in Name
         /\ lights \in Lights!Bloc /\ keyboard \in Lights!Keyboard /\ store \in StoreType
<1>1. running \ {t} = {}
  BY DEF LightsInv, OneHandler
<1>2. EventsLeft
  BY DEF LightsInv, StartComesFirst, EventsFit, EventsLeft, Lights!TypeOK
<1>3. \A c : Remembered(c)
  BY DEF Remembered
<1>. QED BY <1>1, <1>2, <1>3 DEF LightsInv, Lights!TypeOK, Lights!Task, EventsFit, StoreType

LEMMA UntouchedFollows ==
  ASSUME Untouched, NEW b
  PROVE  Follows(keyboard, b)
BY DEF Untouched, Follows, Shows, Remembers

LEMMA ProbedInv ==
  ASSUME LightsInv, NEW t \in running, Lights!Probed(t)
  PROVE  LightsInv'
<1>. DEFINE e == t.event
            others == running \ {t}
<1>0. t.pc = "probe" /\ ~lights.closing /\ UNCHANGED <<events, count>>
  BY DEF Lights!Probed
<1>1. /\ others = {} /\ EventsLeft /\ (\A c : Remembered(c))
      /\ e \in Lights!Event
      /\ e.kind \in Lights!Named => e.name \in Name
      /\ lights \in Lights!Bloc /\ keyboard \in Lights!Keyboard /\ store \in StoreType
  BY <1>0, Waiting
<1>2. e.kind = "start" /\ Untouched
  BY <1>0 DEF LightsInv, EventsFit, StartComesFirst
<1>3. lights.loading /\ ~lights.applying
  BY <1>0, <1>2 DEF LightsInv, BusyWhileWriting, OneHandler, Restores, Applies
<1>4. PICK native \in BOOLEAN, found \in {"openrgb", "none", "error"} :
        LET d == IF found = "openrgb" THEN found
                 ELSE IF native THEN "synthetic" ELSE "none"
            b == [lights EXCEPT !.device = d, !.available = TRUE, !.native = native]
            fitting == {s \in store.saved : s.colors.leds = d}
        IN \/ /\ d = "none" /\ found = "error"
              /\ Lights!End(others, e, Lights!NotWritten(lights)) /\ UNCHANGED keyboard
           \/ /\ d = "none" /\ found = "none"
              /\ Lights!End(others, e, [b EXCEPT !.available = FALSE, !.loading = FALSE])
              /\ UNCHANGED keyboard
           \/ d # "none" /\ \E s \in fitting : Lights!WriteSnapshot(others, e, s, b)
           \/ /\ d # "none" /\ fitting = {}
              /\ \E m \in IF d = "openrgb" THEN Lights!Modes ELSE {"Direct"} :
                   Lights!End(others, e,
                     Lights!Written(e, b, [colors |-> Lights!Off(d), mode |-> m,
                                           effects |-> FALSE]))
              /\ UNCHANGED keyboard
  BY DEF Lights!Probed
<1>. DEFINE d == IF found = "openrgb" THEN found ELSE IF native THEN "synthetic" ELSE "none"
            b == [lights EXCEPT !.device = d, !.available = TRUE, !.native = native]
            x == Lights!NotWritten(lights)
            z == [b EXCEPT !.available = FALSE, !.loading = FALSE]
<1>5. d \in Lights!Devices \cup {"none"}
  BY DEF Lights!Devices
<1>6. b \in Lights!Bloc /\ ~b.closing /\ b.loading /\ ~b.applying
  BY <1>0, <1>1, <1>3, <1>5 DEF Lights!Bloc
<1>7. z \in Lights!Bloc /\ ~z.closing /\ ~z.loading /\ ~z.applying
  <2>. HIDE DEF b
  <2>1. b \in Lights!Bloc /\ ~b.closing /\ b.loading /\ ~b.applying
    BY <1>6
  <2>. QED BY <2>1 DEF Lights!Bloc
<1>8. x \in Lights!Bloc /\ ~x.closing /\ ~x.loading /\ ~x.applying
  BY <1>0, <1>1, NotWrittenType
<1>9. CASE Lights!End(others, e, x) /\ UNCHANGED keyboard
  <2>. HIDE DEF x, e, others
  <2>1. Follows(keyboard, x)
    BY <1>2, UntouchedFollows
  <2>. QED BY <1>1, <1>8, <1>9, <2>1, EndInv
<1>10. CASE Lights!End(others, e, z) /\ UNCHANGED keyboard
  <2>. HIDE DEF z, e, others
  <2>1. Follows(keyboard, z)
    BY <1>2, UntouchedFollows
  <2>. QED BY <1>1, <1>7, <1>10, <2>1, EndInv
<1>11. ASSUME NEW s \in store.saved, Lights!WriteSnapshot(others, e, s, b)
       PROVE  LightsInv'
  <2>1. s \in Lights!Snapshot
    BY <1>1 DEF StoreType
  <2>. HIDE DEF b, e, others
  <2>2. Follows(keyboard, b)
    BY <1>2, UntouchedFollows
  <2>3. Writing(e, b)
    BY <1>2, <1>6 DEF Writing
  <2>. QED BY <1>1, <1>11, <2>1, <2>2, <2>3, WriteSnapshotInv
<1>12. ASSUME NEW m \in Lights!Modes, UNCHANGED keyboard,
              Lights!End(others, e, Lights!Written(e, b, [colors |-> Lights!Off(d), mode |-> m,
                                                      effects |-> FALSE]))
       PROVE  LightsInv'
  <2>. DEFINE s == [colors |-> Lights!Off(d), mode |-> m, effects |-> FALSE]
              w == Lights!Written(e, b, s)
  <2>0. Lights!Off(d) \in Lights!Painting
    BY <1>5, PaintingType
  <2>1. s \in Lights!Snapshot
    BY <2>0 DEF Lights!Snapshot
  <2>2. Lights!End(others, e, w)
    BY <1>12
  <2>. HIDE DEF w
  <2>3. w = Lights!Written(e, b, s)
    BY DEF w
  <2>. HIDE DEF s, b, e, others
  <2>5. w \in Lights!Bloc /\ ~w.loading /\ ~w.applying /\ ~w.closing
    BY <1>1, <1>2, <1>6, <2>1, <2>3, WrittenType
  <2>4. Follows(keyboard, w)
    BY <1>2, UntouchedFollows
  <2>. QED BY <1>1, <1>12, <2>2, <2>5, <2>4, EndInv
<1>. QED BY <1>4, <1>9, <1>10, <1>11, <1>12 DEF Lights!Modes

LEMMA WriteEndsInv ==
  ASSUME LightsInv, NEW t \in running, Lights!WriteEnds(t)
  PROVE  LightsInv'
<1>. DEFINE e == t.event
            others == running \ {t}
            profile == e.kind \in {"start", "load"}
            Kind(s) == IF s.mode = "firmware" THEN s.mode ELSE "frame"
            Told1(ok) ==
              IF t.snap = {} THEN keyboard
              ELSE LET s == CHOOSE s \in t.snap : TRUE
                   IN Lights!Told(keyboard, IF s.mode = "firmware" THEN s.mode ELSE "frame",
                                  s.colors, FALSE, ok)
            done == [lights EXCEPT !.applying = FALSE, !.error = FALSE]
            failed == [lights EXCEPT !.applying = FALSE, !.error = TRUE]
            x == Lights!NotWritten(lights)
<1>0. /\ t.pc = "write" /\ ~lights.closing /\ UNCHANGED <<events, count>>
      /\ \/ /\ \E ok \in BOOLEAN : keyboard' = Told1(ok)
            /\ IF profile
               THEN \E s \in t.snap : Lights!End(others, e, Lights!Written(e, lights, s))
               ELSE Lights!End(others, e, done)
         \/ /\ keyboard' = Told1(FALSE)
            /\ Lights!End(others, e, IF profile THEN x ELSE failed)
  BY DEF Lights!WriteEnds
<1>1. /\ others = {} /\ EventsLeft /\ (\A c : Remembered(c))
      /\ e \in Lights!Event /\ t.snap \in SUBSET Lights!Snapshot
      /\ e.kind \in Lights!Named => e.name \in Name
      /\ lights \in Lights!Bloc /\ keyboard \in Lights!Keyboard /\ store \in StoreType
  BY <1>0, Waiting
<1>2. /\ lights.loading <=> e.kind = "start"
      /\ lights.applying <=> e.kind # "start"
  BY <1>0 DEF LightsInv, BusyWhileWriting, OneHandler, Restores, Applies
<1>3. /\ \A s, u \in t.snap : s = u
      /\ ~profile => \A s \in t.snap : s.colors = lights.colors /\ s.mode = lights.mode
      /\ lights.native => t.snap # {} /\ \A s \in t.snap : s.mode = "firmware"
  BY <1>0 DEF LightsInv, WritesThePage
<1>4. t.snap = {} => Follows(keyboard, lights)
  BY <1>0 DEF LightsInv, KeyboardFollows, Settled, OneHandler
<1>5. \A s \in t.snap : /\ s = CHOOSE u \in t.snap : TRUE
                        /\ s \in Lights!Snapshot /\ s.colors \in Lights!Painting
                        /\ Kind(s) \in {"frame", "firmware"}
                        /\ s.mode # "firmware" => Kind(s) = "frame" /\ ~lights.native
  BY <1>1, <1>3 DEF Lights!Snapshot, Lights!Modes
<1>6. /\ done \in Lights!Bloc /\ ~done.applying /\ (done.loading <=> lights.loading)
      /\ ~done.closing /\ ~done.error
      /\ done.colors = lights.colors /\ done.mode = lights.mode
      /\ done.device = lights.device /\ done.effects = lights.effects
      /\ done.native = lights.native
  BY <1>0, <1>1 DEF Lights!Bloc
<1>7. /\ failed \in Lights!Bloc /\ ~failed.applying /\ (failed.loading <=> lights.loading)
      /\ ~failed.closing /\ failed.error
      /\ failed.colors = lights.colors /\ failed.mode = lights.mode
      /\ failed.device = lights.device /\ failed.effects = lights.effects
      /\ failed.native = lights.native
  BY <1>0, <1>1 DEF Lights!Bloc
<1>8. /\ x \in Lights!Bloc /\ ~x.applying /\ ~x.loading /\ ~x.closing /\ x.error
      /\ x.colors = lights.colors /\ x.mode = lights.mode
      /\ x.device = lights.device /\ x.effects = lights.effects
      /\ x.native = lights.native
  BY <1>0, <1>1, NotWrittenType
<1>. HIDE DEF done, failed, x
<1>9. ASSUME NEW ok \in BOOLEAN, keyboard' = Told1(ok), profile,
             NEW s \in t.snap, Lights!End(others, e, Lights!Written(e, lights, s))
      PROVE  LightsInv'
  <2>. DEFINE w == Lights!Written(e, lights, s)
              kind == Kind(s)
  <2>1. keyboard' = Lights!Told(keyboard, kind, s.colors, FALSE, ok)
    BY <1>5, <1>9
  <2>2. w = Lights!Written(e, lights, s) /\ Lights!End(others, e, w)
    BY <1>9
  <2>. HIDE DEF w, e, others
  <2>3. /\ w \in Lights!Bloc /\ ~w.closing /\ ~w.loading /\ ~w.applying
        /\ w.native = lights.native /\ w.colors = s.colors /\ w.mode = s.mode
    BY <1>0, <1>1, <1>2, <1>5, <1>9, <2>2, WrittenType
  <2>4. /\ kind \in {"frame", "firmware"}
        /\ w.mode # "firmware" => kind = "frame" /\ ~w.native
    BY <1>5, <2>3
  <2>. HIDE DEF w, kind
  <2>5. keyboard' \in Lights!Keyboard /\ Follows(keyboard', w)
    BY <1>1, <2>1, <2>3, <2>4, WrittenFollows
  <2>. QED BY <1>1, <2>2, <2>3, <2>5, EndInv
<1>10. ASSUME NEW ok \in BOOLEAN, keyboard' = Told1(ok), ~profile,
              Lights!End(others, e, done)
       PROVE  LightsInv'
  <2>1. CASE t.snap = {}
    <3>1. keyboard' = keyboard
      BY <1>10, <2>1
    <3>2. ~lights.native /\ Follows(keyboard, lights)
      BY <1>3, <1>4, <2>1
    <3>3. Follows(keyboard, done)
      BY <1>6, <3>2, FollowsAlike
    <3>. HIDE DEF e, others, profile
    <3>4. ~done.loading
      BY <1>2, <1>6, <1>10 DEF profile, e
    <3>. QED BY <1>1, <1>6, <1>10, <3>1, <3>3, <3>4, EndInv
  <2>2. ASSUME NEW s \in t.snap
        PROVE  LightsInv'
    <3>. DEFINE kind == Kind(s)
    <3>1. keyboard' = Lights!Told(keyboard, kind, s.colors, FALSE, ok)
      BY <1>5, <1>10
    <3>2. /\ kind \in {"frame", "firmware"} /\ s.colors = done.colors
          /\ done.mode # "firmware" => kind = "frame" /\ ~done.native
      BY <1>3, <1>5, <1>6, <1>10
    <3>. HIDE DEF kind
    <3>3. keyboard' = Lights!Told(keyboard, kind, done.colors, FALSE, ok)
      BY <3>1, <3>2
    <3>4. keyboard' \in Lights!Keyboard /\ Follows(keyboard', done)
      BY <1>1, <1>6, <3>2, <3>3, WrittenFollows
    <3>. HIDE DEF e, others, profile
    <3>5. ~done.loading
      BY <1>2, <1>6, <1>10 DEF profile, e
    <3>. QED BY <1>1, <1>6, <1>10, <3>4, <3>5, EndInv
  <2>. QED BY <2>1, <2>2
<1>11. ASSUME keyboard' = Told1(FALSE),
              NEW y \in {x, failed}, Lights!End(others, e, y),
              y = x \/ ~profile
       PROVE  LightsInv'
  <2>1. /\ y \in Lights!Bloc /\ ~y.applying /\ ~y.loading /\ ~y.closing /\ y.error
        /\ y.colors = lights.colors /\ y.mode = lights.mode
        /\ y.device = lights.device /\ y.effects = lights.effects
        /\ y.native = lights.native
    BY <1>2, <1>7, <1>8, <1>11
  <2>2. keyboard' \in Lights!Keyboard /\ (t.snap = {} \/ keyboard'.rejected)
    <3>1. CASE t.snap = {}
      BY <1>1, <1>11, <3>1
    <3>2. ASSUME NEW s \in t.snap
          PROVE  keyboard' \in Lights!Keyboard /\ keyboard'.rejected
      <4>1. keyboard' = Lights!Told(keyboard, Kind(s), s.colors, FALSE, FALSE)
        BY <1>5, <1>11
      <4>. HIDE DEF Kind
      <4>. QED BY <1>1, <4>1 DEF Lights!Told, Lights!Keyboard
    <3>. QED BY <3>1, <3>2
  <2>3. t.snap = {} => keyboard' = keyboard
    BY <1>11
  <2>4. Follows(keyboard', y)
    <3>1. CASE y.native
      BY <2>1, <3>1 DEF Follows
    <3>2. CASE ~y.native /\ t.snap = {}
      BY <1>4, <2>1, <2>3, <3>2, FollowsAlike
    <3>3. CASE ~y.native /\ keyboard'.rejected
      BY <2>1, <3>3 DEF Follows, Shows, Remembers
    <3>. QED BY <2>2, <3>1, <3>2, <3>3
  <2>. HIDE DEF e, others, profile
  <2>. QED BY <1>1, <1>11, <2>1, <2>2, <2>4, EndInv
<1>. QED
  <2>. HIDE DEF Told1, e, others
  <2>. QED BY <1>0, <1>9, <1>10, <1>11

LEMMA StoreEndsInv ==
  ASSUME LightsInv, NEW t \in running, Lights!StoreEnds(t)
  PROVE  LightsInv'
<1>. DEFINE e == t.event
            b == [lights EXCEPT !.applying = FALSE, !.error = TRUE]
<1>0. t.pc \in {"store", "save"} /\ ~lights.closing /\ UNCHANGED <<events, keyboard, count>>
  BY DEF Lights!StoreEnds
<1>1. /\ running \ {t} = {} /\ EventsLeft /\ (\A c : Remembered(c))
      /\ e \in Lights!Event /\ (e.kind \in Lights!Named => e.name \in Name)
      /\ lights \in Lights!Bloc /\ keyboard \in Lights!Keyboard /\ store \in StoreType
  BY <1>0, Waiting
<1>2. /\ ~lights.loading /\ ~lights.applying /\ Follows(keyboard, lights)
  BY <1>0 DEF LightsInv, BusyWhileWriting, OneHandler, Restores, Applies, KeyboardFollows,
              Settled
<1>3. /\ b \in Lights!Bloc /\ ~b.loading /\ ~b.applying /\ b.error /\ ~b.closing
      /\ b.colors = lights.colors /\ b.mode = lights.mode /\ b.device = lights.device
      /\ b.effects = lights.effects /\ b.native = lights.native
  BY <1>0, <1>1, <1>2 DEF Lights!Bloc
<1>4. CASE Lights!End(running \ {t}, e, lights)
  <2>1. Lights!End({}, e, lights)
    BY <1>1, <1>4
  <2>. HIDE DEF e
  <2>. QED BY <1>0, <1>1, <1>2, <2>1, EndInv
<1>5. CASE Lights!Emit(lights) /\ running' = running \ {t} /\ UNCHANGED store
  BY <1>0, <1>1, <1>2, <1>5, RestInv
<1>6. CASE Lights!Emit(b) /\ running' = running \ {t} /\ UNCHANGED store
  <2>. HIDE DEF b
  <2>1. Follows(keyboard, b)
    BY <1>2, <1>3, FollowsAlike
  <2>. QED BY <1>0, <1>1, <1>3, <1>6, <2>1, RestInv
<1>. QED BY <1>4, <1>5, <1>6 DEF Lights!StoreEnds

LEMMA EndsClosedInv ==
  ASSUME LightsInv, NEW t \in running, Lights!EndsClosed(t)
  PROVE  LightsInv'
<1>1. /\ lights.closing /\ running' \subseteq running
      /\ UNCHANGED <<events, lights, engine, keyboard, store, count>>
  BY DEF Lights!EndsClosed
<1>2. Lights!TypeOK' /\ OneHandler' /\ EventsFit'
  BY <1>1 DEF LightsInv, Lights!TypeOK, OneHandler, EventsFit
<1>3. EngineFollows' /\ BusyWhileWriting' /\ WritesThePage' /\ KeyboardFollows'
  BY <1>1 DEF LightsInv, EngineFollows, Lights!Animates, BusyWhileWriting, WritesThePage,
              KeyboardFollows
<1>4. StartComesFirst'
  BY <1>1 DEF LightsInv, StartComesFirst, Untouched
<1>. QED BY <1>2, <1>3, <1>4 DEF LightsInv

-----------------------------------------------------------------------------
(* The queue, the timer and the end.                                       *)

LEMMA HandleInv ==
  ASSUME LightsInv, NEW e, Takes(e), Lights!Handle(e)
  PROVE  LightsInv'
<1>1. CASE e.kind = "start" /\ Lights!Started(e)
  BY <1>1, StartedInv
<1>2. CASE e.kind = "failed" /\ Lights!AnimationFailed(e)
  BY <1>2, AnimationFailedInv
<1>3. CASE e.kind = "assign" /\ Lights!EffectAssigned(e)
  BY <1>3, EffectAssignedInv
<1>4. CASE e.kind = "load" /\ Lights!ProfileLoaded(e)
  BY <1>4, ProfileLoadedInv
<1>5. CASE e.kind \in {"save", "delete"} /\ Lights!ProfileStored(e)
  BY <1>5, ProfileStoredInv
<1>6. CASE
    /\ e.kind \in {"paint", "color", "Direct", "Static", "firmware", "brightness", "clear"}
    /\ \/ Lights!Paint(e) \/ Lights!ColorSelected(e) \/ Lights!DirectSelected(e)
       \/ Lights!StaticSelected(e) \/ Lights!FirmwareSelected(e)
       \/ Lights!BrightnessChanged(e) \/ Lights!EffectsCleared(e)
  BY <1>6, UserEventInv
<1>7. CASE
    /\ e.kind \in {"paint", "color", "Direct", "Static", "firmware", "brightness", "clear"}
    /\ Lights!Ignore(e)
  BY <1>7, IgnoreInv
<1>. QED BY <1>1, <1>2, <1>3, <1>4, <1>5, <1>6, <1>7 DEF Lights!Handle

LEMMA TakeLeaves ==
  ASSUME LightsInv, events # <<>>, running = {}, events' = Tail(events), UNCHANGED count
  PROVE  /\ EventsLeft /\ Head(events) \in Lights!Event
         /\ ~lights.closing => Takes(Head(events))
<1>1. /\ events \in Seq(Lights!Event) /\ count \in 0..MaxEvents
      /\ \A n \in 1..Len(events) :
           /\ events[n].kind = "start" => n = 1 /\ Untouched
           /\ events[n].kind \in Lights!Named => events[n].name \in Name
  BY DEF LightsInv, Lights!TypeOK, StartComesFirst, EventsFit
<1>2. /\ Head(events) = events[1] /\ Head(events) \in Lights!Event
      /\ 1 \in 1..Len(events)
      /\ events' \in Seq(Lights!Event) /\ Len(events') = Len(events) - 1
      /\ \A n \in 1..Len(events') : n + 1 \in 1..Len(events) /\ events'[n] = events[n + 1]
      /\ \A n \in 1..Len(events) : n = 1 \/ n - 1 \in 1..Len(events')
  BY <1>1, HeadTailProperties
<1>3. \A n \in 1..Len(events) : n = 1 \/ events[n] = events'[n - 1]
  BY <1>1, <1>2
<1>4. EventsLeft
  BY <1>1, <1>2 DEF EventsLeft
<1>5. (\E n \in 1..Len(events) : events[n].kind = "failed") =>
        Head(events).kind = "failed" \/ \E n \in 1..Len(events') : events'[n].kind = "failed"
  BY <1>2, <1>3
<1>. QED BY <1>1, <1>2, <1>4, <1>5 DEF Takes

LEMMA TakeInv ==
  ASSUME LightsInv, Lights!Take
  PROVE  LightsInv'
<1>1. events # <<>> /\ running = {} /\ events' = Tail(events) /\ UNCHANGED count
  BY DEF Lights!Take, Lights!Free
<1>2. CASE ~lights.closing
  BY <1>1, <1>2, TakeLeaves, HandleInv DEF Lights!Take
<1>3. CASE lights.closing
  <2>1. UNCHANGED <<running, lights, engine, keyboard, store>> /\ EventsLeft
    BY <1>1, <1>3, TakeLeaves DEF Lights!Take
  <2>2. Lights!TypeOK'
    BY <1>1, <2>1 DEF LightsInv, Lights!TypeOK, EventsLeft
  <2>3. EngineFollows'
    BY <1>3, <2>1 DEF LightsInv, EngineFollows, Lights!Animates
  <2>. QED BY <1>1, <1>3, <2>1, <2>2, <2>3
       DEF LightsInv, EventsLeft, OneHandler, EventsFit, BusyWhileWriting, StartComesFirst,
           WritesThePage, KeyboardFollows
<1>. QED BY <1>2, <1>3

\* A new event is the last.
LEMMA Appended ==
  ASSUME LightsInv, NEW e \in Lights!Event, e.kind # "start",
         e.kind \in Lights!Named => e.name \in Name,
         events' = Append(events, e), count < MaxEvents, count' = count + 1
  PROVE  /\ events' \in Seq(Lights!Event) /\ count' \in 0..MaxEvents
         /\ \A n \in 1..Len(events') :
              /\ events'[n].kind \in Lights!Named => events'[n].name \in Name
              /\ events'[n].kind = "start" =>
                   n = 1 /\ running = {} /\ ~lights.available /\ Untouched
         /\ (\E n \in 1..Len(events) : events[n].kind = "failed") \/ e.kind = "failed" =>
              \E n \in 1..Len(events') : events'[n].kind = "failed"
<1>1. /\ events \in Seq(Lights!Event) /\ count \in 0..MaxEvents
      /\ \A n \in 1..Len(events) :
           /\ events[n].kind \in Lights!Named => events[n].name \in Name
           /\ events[n].kind = "start" =>
                n = 1 /\ running = {} /\ ~lights.available /\ Untouched
  BY DEF LightsInv, Lights!TypeOK, StartComesFirst, EventsFit
<1>2. /\ events' \in Seq(Lights!Event) /\ Len(events') = Len(events) + 1
      /\ \A n \in 1..Len(events) : events'[n] = events[n]
      /\ events'[Len(events) + 1] = e
  BY <1>1, AppendProperties
<1>3. Len(events) \in Nat
  BY <1>1
<1>4. /\ \A n \in 1..Len(events') :
           (n \in 1..Len(events) /\ events'[n] = events[n]) \/ events'[n] = e
      /\ \A n \in 1..Len(events) : n \in 1..Len(events')
      /\ Len(events) + 1 \in 1..Len(events')
  BY <1>2, <1>3
<1>5. count' \in 0..MaxEvents
  BY <1>1, EventsAssumption
<1>. QED BY <1>1, <1>2, <1>4, <1>5

LEMMA AddInv ==
  ASSUME LightsInv, NEW kind \in Lights!Kinds \ {"start"}, NEW name \in Name \cup {NoName},
         kind \in Lights!Named => name \in Name, Lights!Add(kind, name)
  PROVE  LightsInv'
<1>. DEFINE e == [n |-> count + 1, kind |-> kind, name |-> name]
<1>1. /\ count < MaxEvents /\ count' = count + 1 /\ events' = Append(events, e)
      /\ UNCHANGED <<running, lights, engine, keyboard, store>>
  BY DEF Lights!Add
<1>2. count \in 0..MaxEvents
  BY DEF LightsInv, Lights!TypeOK
<1>3. e \in Lights!Event /\ e.kind = kind /\ e.name = name
  BY <1>1, <1>2, EventsAssumption DEF Lights!Event
<1>. HIDE DEF e
<1>4. /\ events' \in Seq(Lights!Event) /\ count' \in 0..MaxEvents
      /\ \A n \in 1..Len(events') :
           /\ events'[n].kind \in Lights!Named => events'[n].name \in Name
           /\ events'[n].kind = "start" =>
                n = 1 /\ running = {} /\ ~lights.available /\ Untouched
      /\ (\E n \in 1..Len(events) : events[n].kind = "failed") =>
           \E n \in 1..Len(events') : events'[n].kind = "failed"
  BY <1>1, <1>3, Appended
<1>5. Lights!TypeOK' /\ OneHandler' /\ EventsFit'
  BY <1>1, <1>4 DEF LightsInv, Lights!TypeOK, OneHandler, EventsFit
<1>6. EngineFollows'
  BY <1>1, <1>4 DEF LightsInv, EngineFollows, Lights!Animates
<1>7. StartComesFirst'
  BY <1>1, <1>4 DEF LightsInv, StartComesFirst, Untouched
<1>8. BusyWhileWriting' /\ WritesThePage' /\ KeyboardFollows'
  BY <1>1 DEF LightsInv, BusyWhileWriting, WritesThePage, KeyboardFollows, Settled, Restores,
              Applies, Follows, Animated, Shows, Remembers
<1>. QED BY <1>5, <1>6, <1>7, <1>8 DEF LightsInv

LEMMA TickInv ==
  ASSUME LightsInv, Lights!Tick
  PROVE  LightsInv'
<1>. DEFINE e == [n |-> count + 1, kind |-> "failed", name |-> NoName]
<1>0. engine.on /\ UNCHANGED <<running, lights, store>>
  BY DEF Lights!Tick
<1>1. /\ Lights!Animates(lights) /\ lights \in Lights!Bloc
      /\ ~lights.closing /\ lights.available /\ ~lights.loading /\ ~lights.applying
      /\ Animated(lights)
  BY <1>0 DEF LightsInv, EngineFollows, Lights!Animates, Animated, Lights!TypeOK
<1>2. \A t \in running : t.pc # "probe" /\ t.pc # "write"
  BY <1>1 DEF LightsInv, BusyWhileWriting, Restores, Applies
<1>3. /\ keyboard \in Lights!Keyboard /\ engine.base \in Lights!Painting
      /\ engine \in [on : BOOLEAN, base : Lights!Painting] /\ count \in 0..MaxEvents
  BY DEF LightsInv, Lights!TypeOK
<1>4. keyboard' \in Lights!Keyboard
  <2>1. \E ok \in BOOLEAN : keyboard' = Lights!PaintNative(keyboard, engine.base, TRUE, ok)
    BY DEF Lights!Tick
  <2>. QED BY <1>3, <2>1, FrameType
<1>5. KeyboardFollows' /\ BusyWhileWriting' /\ WritesThePage' /\ OneHandler'
  BY <1>0, <1>1, <1>2 DEF LightsInv, KeyboardFollows, BusyWhileWriting, WritesThePage,
     OneHandler, Follows, Animated, Restores, Applies
<1>6. CASE UNCHANGED <<events, engine, count>>
  <2>1. Lights!TypeOK' /\ EngineFollows' /\ EventsFit'
    BY <1>0, <1>4, <1>6 DEF LightsInv, Lights!TypeOK, EngineFollows, Lights!Animates, EventsFit
  <2>2. StartComesFirst'
    BY <1>0, <1>1, <1>2, <1>6 DEF LightsInv, StartComesFirst
  <2>. QED BY <1>5, <2>1, <2>2 DEF LightsInv
<1>7. CASE /\ count < MaxEvents /\ count' = count + 1
           /\ engine' = [engine EXCEPT !.on = FALSE]
           /\ events' = Append(events, [n |-> count', kind |-> "failed", name |-> NoName])
  <2>1. e \in Lights!Event /\ e.kind = "failed"
    BY <1>3, <1>7, EventsAssumption DEF Lights!Event, Lights!Kinds
  <2>2. events' = Append(events, e)
    BY <1>7
  <2>. HIDE DEF e
  <2>3. e.kind \notin Lights!Named /\ e.kind # "start"
    BY <2>1 DEF Lights!Named
  <2>4. /\ events' \in Seq(Lights!Event) /\ count' \in 0..MaxEvents
        /\ \A n \in 1..Len(events') :
             /\ events'[n].kind \in Lights!Named => events'[n].name \in Name
             /\ events'[n].kind = "start" =>
                  n = 1 /\ running = {} /\ ~lights.available /\ Untouched
        /\ \E n \in 1..Len(events') : events'[n].kind = "failed"
    BY <1>7, <2>1, <2>2, <2>3, Appended
  <2>5. engine' \in [on : BOOLEAN, base : Lights!Painting] /\ ~engine'.on
    BY <1>3, <1>7
  <2>6. Lights!TypeOK' /\ EngineFollows' /\ EventsFit'
    BY <1>0, <1>4, <2>4, <2>5 DEF LightsInv, Lights!TypeOK, EngineFollows, EventsFit
  <2>7. StartComesFirst'
    BY <1>0, <1>1, <1>2, <2>4 DEF LightsInv, StartComesFirst
  <2>. QED BY <1>5, <2>6, <2>7 DEF LightsInv
<1>. QED BY <1>6, <1>7 DEF Lights!Tick

LEMMA CloseInv ==
  ASSUME LightsInv, Lights!Close
  PROVE  LightsInv'
<1>1. /\ lights' = [lights EXCEPT !.closing = TRUE]
      /\ engine' = [engine EXCEPT !.on = FALSE]
      /\ UNCHANGED <<events, running, keyboard, store, count>>
  BY DEF Lights!Close
<1>2. /\ lights' \in Lights!Bloc /\ lights'.closing
      /\ lights'.available = lights.available
      /\ engine' \in [on : BOOLEAN, base : Lights!Painting] /\ ~engine'.on
  BY <1>1 DEF LightsInv, Lights!TypeOK, Lights!Bloc
<1>3. Lights!TypeOK' /\ OneHandler' /\ EventsFit'
  BY <1>1, <1>2 DEF LightsInv, Lights!TypeOK, OneHandler, EventsFit
<1>4. EngineFollows' /\ BusyWhileWriting' /\ WritesThePage' /\ KeyboardFollows'
  BY <1>2 DEF EngineFollows, Lights!Animates, BusyWhileWriting, WritesThePage, KeyboardFollows
<1>5. StartComesFirst'
  BY <1>1, <1>2 DEF LightsInv, StartComesFirst, Untouched
<1>. QED BY <1>3, <1>4, <1>5 DEF LightsInv

LEMMA LightsInit == Lights!Init => LightsInv
<1>. SUFFICES ASSUME Lights!Init
              PROVE  LightsInv
  OBVIOUS
<1>0. Lights!Start \in Lights!Event /\ Lights!Start.kind = "start"
  BY EventsAssumption DEF Lights!Start, Lights!Event, Lights!Kinds
<1>1. Lights!Off("none") \in Lights!Painting /\ Lights!Off("none").leds = "none"
  BY EventsAssumption DEF Lights!Off, Lights!Painting, Lights!Old
<1>2. /\ events = <<Lights!Start>> /\ count = 1 /\ running = {}
      /\ lights \in Lights!Bloc /\ ~lights.available /\ ~lights.loading /\ ~lights.applying
      /\ ~lights.effects
      /\ engine \in [on : BOOLEAN, base : Lights!Painting] /\ ~engine.on
      /\ keyboard \in Lights!Keyboard /\ Untouched
  BY <1>1 DEF Lights!Init, Lights!Bloc, Lights!Devices, Lights!Modes, Lights!Keyboard,
              Untouched
<1>3. store \in StoreType
  <2>1. PICK s \in [colors : [leds : Lights!Devices, id : {Lights!Old}],
                    mode : Lights!Modes, effects : BOOLEAN] :
          store \in [saved : {{}, {s}}, profile : [Name -> {{}, {s}}]]
    BY DEF Lights!Init
  <2>2. s \in Lights!Snapshot
    BY EventsAssumption DEF Lights!Snapshot, Lights!Painting, Lights!Old
  <2>. QED BY <2>1, <2>2 DEF StoreType
<1>4. Lights!TypeOK
  BY <1>0, <1>2, <1>3, EventsAssumption DEF Lights!TypeOK, StoreType
<1>5. /\ Len(events) = 1 /\ events[1] = Lights!Start
  BY <1>2
<1>6. OneHandler /\ EventsFit /\ EngineFollows /\ BusyWhileWriting /\ StartComesFirst
  BY <1>0, <1>2, <1>5
     DEF OneHandler, EventsFit, EngineFollows, BusyWhileWriting, StartComesFirst,
         Lights!Animates, Lights!Named
<1>7. WritesThePage /\ KeyboardFollows
  BY <1>2, UntouchedFollows DEF WritesThePage, KeyboardFollows
<1>. QED BY <1>4, <1>6, <1>7 DEF LightsInv

LEMMA LightsStep ==
  ASSUME LightsInv, [Lights!Next]_(Lights!vars)
  PROVE  LightsInv'
<1>1. ASSUME NEW kind \in Lights!Kinds \ (Lights!Named \cup {"start", "failed"}),
             Lights!Add(kind, NoName)
      PROVE  LightsInv'
  BY <1>1, AddInv
<1>2. ASSUME NEW kind \in Lights!Named, NEW name \in Name, Lights!Add(kind, name)
      PROVE  LightsInv'
  <2>1. kind \in Lights!Kinds \ {"start"}
    BY DEF Lights!Named, Lights!Kinds
  <2>. QED BY <1>2, <2>1, AddInv
<1>3. ASSUME NEW t \in running,
             \/ Lights!Probed(t) \/ Lights!WriteEnds(t) \/ Lights!StoreEnds(t)
             \/ Lights!EndsClosed(t)
      PROVE  LightsInv'
  BY <1>3, ProbedInv, WriteEndsInv, StoreEndsInv, EndsClosedInv
<1>4. CASE UNCHANGED Lights!vars
  BY <1>4 DEF Lights!vars, LightsInv, Lights!TypeOK, OneHandler, EventsFit, EngineFollows,
     Lights!Animates, BusyWhileWriting, Restores, Applies, StartComesFirst, Untouched,
     WritesThePage, KeyboardFollows, Settled, Follows, Animated, Shows, Remembers
<1>. QED BY <1>1, <1>2, <1>3, <1>4, TakeInv, TickInv, CloseInv DEF Lights!Next

LEMMA LightsInvariance == Lights!Spec => []LightsInv
<1>1. LightsInv /\ [Lights!Next]_(Lights!vars) => LightsInv'
  BY LightsStep
<1>. QED BY LightsInit, <1>1, PTL DEF Lights!Spec

\* AnimationYields of every session: no frame of the engine's timer meets a write of
\* openrgb, the restore at the start or the end of the app.
THEOREM AnimationYieldsHolds == Lights!Spec => [](Lights!TypeOK /\ AnimationYields)
<1>1. LightsInv => Lights!TypeOK /\ AnimationYields
  BY LightsYield DEF LightsInv
<1>. QED BY LightsInvariance, <1>1, PTL

\* KeyboardShowsThePage of every session: when all events are handled without an
\* error the keyboard was last told what the page shows.
THEOREM KeyboardShowsThePageHolds == Lights!Spec => []KeyboardShowsThePage
BY LightsInvariance, LightsShow, PTL

\* The lights of the composed pages are a session of their own, beside the settings.
LEMMA PagesRunTheirParts == PagesSpec => Lights!Spec /\ Spec
<1>1. PagesInit => Lights!Init /\ Init
  BY DEF PagesInit
<1>2. [PagesNext]_<<part, vars, lightVars>> =>
        [Lights!Next]_(Lights!vars) /\ [Next]_vars
  BY DEF PagesNext, lightVars, Lights!vars
<1>. QED BY <1>1, <1>2, PTL DEF PagesSpec, Lights!Spec, Spec

\* The promises of the settings and of the lights as they are checked together.
THEOREM PagesKeepTheirPromises ==
  PagesSpec => []( /\ SuccessIsShown /\ FailedBatchIsRestored /\ EditsAreKept
                   /\ AnimationYields /\ KeyboardShowsThePage )
BY PagesRunTheirParts, AnimationYieldsHolds, KeyboardShowsThePageHolds, SuccessIsShownHolds,
   FailedBatchIsRestoredHolds, EditsAreKeptHold, PTL
================================================================================
