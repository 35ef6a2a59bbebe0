------------------------------- MODULE Lighting -------------------------------
(***************************************************************************)
(* The keyboard's lights: RgbLightingBloc (lib/features/lighting/bloc/     *)
(* rgb_lighting_bloc.dart) with the animation engine, the native           *)
(* repository and the store.  Startup, manual edits and the profiles that  *)
(* a change of the power mode applies are events of one queue.  A step is  *)
(* what a handler does between two waits: for the openrgb program or for   *)
(* the store.  The engine's timer runs between them.                       *)
(*                                                                         *)
(* A painting is the event that made it and the LED list it is for, an     *)
(* animation is there or not.  `sent' is what the keyboard was last told,  *)
(* by either way: what its firmware makes of it is not modelled.           *)
(***************************************************************************)
EXTENDS Integers, Sequences

CONSTANTS
  Name,       \* the names of profiles
  NoName,
  MaxEvents   \* bound on the events

VARIABLES
  queue,      \* the events behind the running handler
  running,    \* the handlers that wait
  bloc,       \* the fields of the bloc and of its state
  engine,     \* the animation timer and its base
  keyboard,   \* what it was told, and what the native repository remembers
  store,      \* the remembered painting and the profiles
  count       \* the number of events

vars == <<queue, running, bloc, engine, keyboard, store, count>>

Devices == {"openrgb", "synthetic"}   \* RgbLightingDevice, each with its LEDs

Modes == {"Direct", "Static", "firmware"}

Kinds == {"start", "paint", "color", "Direct", "Static", "firmware", "brightness",
          "assign", "clear", "save", "load", "delete", "failed"}

Old == -1       \* painted in an earlier session

Painting == [leds : Devices \cup {"none"}, id : Old..MaxEvents]

Off(d) == [leds |-> d, id |-> 0]

Event == [n : 1..MaxEvents, kind : Kinds, name : Name \cup {NoName}]

Snapshot == [colors : Painting, mode : Modes, effects : BOOLEAN]

\* Sent is "unknown" until the first write that is accepted.
Keyboard ==
  [sent     : [kind : {"unknown", "frame", "firmware"}, colors : Painting,
               animated : BOOLEAN],
   last     : [colors : Painting, animated : BOOLEAN],   \* _lastColors
   rejected : BOOLEAN]           \* the last write of colours was not accepted

Bloc ==
  [device    : Devices \cup {"none"},
   available : BOOLEAN, native : BOOLEAN, loading : BOOLEAN, applying : BOOLEAN,
   error     : BOOLEAN, closing : BOOLEAN,
   mode      : Modes, colors : Painting, direct : Painting, effects : BOOLEAN]

\* snap is the profile or the remembered painting that is being written.
Task ==
  [event : Event, pc : {"probe", "write", "store", "save"}, snap : SUBSET Snapshot]

TypeOK ==
  /\ queue \in Seq(Event)
  /\ running \subseteq Task
  /\ bloc \in Bloc
  /\ engine \in [on : BOOLEAN, base : Painting]
  /\ keyboard \in Keyboard
  /\ store \in [saved : SUBSET Snapshot, profile : [Name -> SUBSET Snapshot]]
  /\ count \in 0..MaxEvents

Start == [n |-> 1, kind |-> "start", name |-> NoName]

\* The provider adds the first event with the bloc.
Init ==
  /\ queue = <<Start>> /\ count = 1
  /\ running = {}
  /\ bloc = [device |-> "none", available |-> FALSE, native |-> FALSE,
             loading |-> FALSE, applying |-> FALSE, error |-> FALSE,
             closing |-> FALSE, mode |-> "Direct", colors |-> Off("none"),
             direct |-> Off("none"), effects |-> FALSE]
  /\ engine = [on |-> FALSE, base |-> Off("none")]
  /\ keyboard = [sent |-> [kind |-> "unknown", colors |-> Off("none"), animated |-> FALSE],
                 last |-> [colors |-> Off("none"), animated |-> FALSE],
                 rejected |-> FALSE]
  /\ \E s \in [colors : [leds : Devices, id : {Old}], mode : Modes, effects : BOOLEAN] :
       store \in [saved : {{}, {s}}, profile : [Name -> {{}, {s}}]]

-----------------------------------------------------------------------------
(* The state, the engine and the keyboard.                                 *)

\* Mutated form: the engine paints on while openrgb writes.
AnimatesWhileApplying(b) ==
  /\ b.effects /\ ~b.closing /\ b.available /\ b.native
  /\ ~b.loading /\ ~b.error /\ b.mode = "Direct"

\* onChange: when the engine may run.
Animates(b) ==
  /\ b.effects /\ ~b.closing /\ b.available /\ b.native
  /\ ~b.loading /\ ~b.applying /\ ~b.error /\ b.mode = "Direct"

\* The state becomes b, perhaps by way of others.  An engine that stopped after
\* a failure is started again by the next change.
Emit(b) ==
  /\ bloc' = b
  /\ engine' = IF b = bloc THEN engine
               ELSE [on |-> Animates(b), base |-> b.colors]

\* The keyboard after a write of colours, that was accepted or not.
Told(k, kind, p, animated, ok) ==
  [k EXCEPT !.sent = IF ok THEN [kind |-> kind, colors |-> p, animated |-> animated] ELSE @,
            !.rejected = ~ok]

\* SpectrumRgbRepository.paint remembers the frame first.
PaintNative(k, p, animated, ok) ==
  Told([k EXCEPT !.last = [colors |-> p, animated |-> animated]],
       "frame", p, animated, ok)

SnapshotOf(b) == [colors |-> b.colors, mode |-> b.mode, effects |-> b.effects]

\* The handler of event e goes on, beside the others, when its wait is over.
Await(others, e, pc, snap, b) ==
  /\ Emit(b)
  /\ running' = others \cup {[event |-> e, pc |-> pc, snap |-> snap]}

\* Its end: a state without an error is remembered.
End(others, e, b) ==
  LET saves == b.available /\ ~b.loading /\ ~b.error /\ ~b.closing
  IN /\ IF saves THEN Await(others, e, "save", {}, b)
        ELSE Emit(b) /\ running' = others
     /\ store' = IF saves THEN [store EXCEPT !.saved = {SnapshotOf(b)}] ELSE store

-----------------------------------------------------------------------------
(* Events that need no profile.                                            *)

\* _applyColors and _applyStatic, with the colours and the mode of b: a native
\* write that is not accepted goes unnoticed.
Apply(e, b) ==
  \/ /\ b.native
     /\ \E ok \in BOOLEAN : keyboard' = PaintNative(keyboard, b.colors, FALSE, ok)
     /\ End(running, e, b)
  \/ /\ ~b.native
     /\ Await(running, e, "write", {SnapshotOf(b)}, [b EXCEPT !.applying = TRUE])
     /\ UNCHANGED <<keyboard, store>>

Ignore(e) == End(running, e, bloc) /\ UNCHANGED keyboard

New(e) == [leds |-> bloc.device, id |-> e.n]

Paint(e) ==
  Apply(e, [bloc EXCEPT !.colors = New(e), !.mode = "Direct"])

\* In the Static mode the colour is that of the keyboard.
ColorSelected(e) ==
  IF bloc.mode = "Static" THEN Apply(e, [bloc EXCEPT !.colors = New(e)]) ELSE Ignore(e)

\* The painting to come back to.
SavedDirect == IF bloc.mode = "Direct" THEN bloc.colors ELSE bloc.direct

DirectSelected(e) ==
  Apply(e, [bloc EXCEPT !.colors = IF bloc.direct.leds = bloc.device THEN bloc.direct ELSE @,
                        !.mode = "Direct"])

StaticSelected(e) ==
  Apply(e, [bloc EXCEPT !.colors = New(e), !.mode = "Static", !.direct = SavedDirect])

\* An animation of the firmware, by openrgb only.
FirmwareSelected(e) ==
  LET b == [bloc EXCEPT !.mode = "firmware", !.direct = SavedDirect, !.applying = TRUE]
  IN /\ Await(running, e, "write", {SnapshotOf(b)}, b)
     /\ UNCHANGED <<keyboard, store>>

\* setBrightness sends the last frame again.
Resend(k) ==
  IF k.last.colors.leds = "none" THEN {k}
  ELSE {Told(k, "frame", k.last.colors, k.last.animated, ok) : ok \in BOOLEAN}

BrightnessChanged(e) ==
  \/ /\ bloc.native
     /\ keyboard' \in Resend(keyboard) \cup {keyboard}
     /\ End(running, e, bloc)
  \/ /\ ~bloc.native
     /\ Await(running, e, "write", {}, [bloc EXCEPT !.applying = TRUE])
     /\ UNCHANGED <<keyboard, store>>

EffectAssigned(e) ==
  End(running, e, [bloc EXCEPT !.effects = TRUE, !.mode = "Direct"]) /\ UNCHANGED keyboard

\* Mutated form: the last animated frame stays on the keyboard.
ClearedOnly(e) == End(running, e, [bloc EXCEPT !.effects = FALSE]) /\ UNCHANGED keyboard

\* The last effect goes: the painting is sent again.
EffectsCleared(e) == Apply(e, [bloc EXCEPT !.effects = FALSE, !.mode = "Direct"])

\* Profiles are written to the store, and their names shown.
ProfileStored(e) ==
  /\ store' = [store EXCEPT !.profile[e.name] =
                 IF e.kind = "save" THEN {SnapshotOf(bloc)} ELSE {}]
  /\ Await(running, e, "store", {}, bloc)
  /\ UNCHANGED keyboard

AnimationFailed(e) ==
  End(running, e, [bloc EXCEPT !.error = TRUE]) /\ UNCHANGED keyboard

-----------------------------------------------------------------------------
(* Profiles and the remembered painting.                                   *)

\* The state after the snapshot s was written, or was not.
Written(e, b, s) ==
  LET c == [b EXCEPT !.colors = s.colors, !.mode = s.mode, !.effects = s.effects]
  IN IF e.kind = "load" THEN [c EXCEPT !.applying = FALSE, !.direct = s.colors]
     ELSE [c EXCEPT !.loading = FALSE]

NotWritten(b) ==
  [b EXCEPT !.applying = FALSE, !.loading = FALSE, !.error = TRUE,
            !.available = b.device # "none"]

\* The checks of _writeSnapshot.
Suits(s, b) ==
  /\ s.colors.leds = b.device
  /\ s.mode = "firmware" => b.device = "openrgb"
  /\ s.mode = "Direct" /\ s.effects => b.native

\* _writeSnapshot: a native write may fail at its colours, its brightness, or
\* when the brightness sends the colours again.
WriteSnapshot(others, e, s, b) ==
  \/ ~Suits(s, b) /\ End(others, e, NotWritten(b)) /\ UNCHANGED keyboard
  \/ /\ Suits(s, b) /\ b.native /\ s.mode # "firmware"
     /\ \E ok, done \in BOOLEAN :
          /\ done => ok
          /\ keyboard' = PaintNative(keyboard, s.colors, FALSE, ok)
          /\ End(others, e, IF done THEN Written(e, b, s) ELSE NotWritten(b))
  \/ /\ Suits(s, b) /\ (~b.native \/ s.mode = "firmware")
     /\ Await(others, e, "write", {s}, b)
     /\ UNCHANGED <<keyboard, store>>

ProfileLoaded(e) ==
  LET b == [bloc EXCEPT !.applying = TRUE, !.error = FALSE]
  IN \/ /\ store.profile[e.name] = {} \/ ~b.available
        /\ End(running, e, NotWritten(b)) /\ UNCHANGED keyboard
     \/ /\ b.available
        /\ \E s \in store.profile[e.name] : WriteSnapshot(running, e, s, b)

Started(e) ==
  /\ Await(running, e, "probe", {}, [bloc EXCEPT !.loading = TRUE, !.error = FALSE])
  /\ UNCHANGED <<keyboard, store>>

\* The keyboard was looked for: by the native backend, and by openrgb.  The
\* remembered painting is restored when it fits.
Probed(t) ==
  LET e      == t.event
      others == running \ {t}
  IN /\ t.pc = "probe" /\ ~bloc.closing
     /\ \E native \in BOOLEAN, found \in {"openrgb", "none", "error"} :
          LET d == IF found = "openrgb" THEN found
                   ELSE IF native THEN "synthetic" ELSE "none"
              b == [bloc EXCEPT !.device = d, !.available = TRUE, !.native = native]
              fitting == {s \in store.saved : s.colors.leds = d}
          IN \/ /\ d = "none" /\ found = "error"
                /\ End(others, e, NotWritten(bloc)) /\ UNCHANGED keyboard
             \/ /\ d = "none" /\ found = "none"
                /\ End(others, e, [b EXCEPT !.available = FALSE, !.loading = FALSE])
                /\ UNCHANGED keyboard
             \/ d # "none" /\ \E s \in fitting : WriteSnapshot(others, e, s, b)
             \/ /\ d # "none" /\ fitting = {}
                /\ \E m \in IF d = "openrgb" THEN Modes ELSE {"Direct"} :
                     End(others, e,
                         Written(e, b, [colors |-> Off(d), mode |-> m, effects |-> FALSE]))
                /\ UNCHANGED keyboard
     /\ UNCHANGED <<queue, count>>

-----------------------------------------------------------------------------
(* The queue.                                                              *)

Handle(e) ==
  \/ e.kind = "start" /\ Started(e)
  \/ e.kind = "failed" /\ AnimationFailed(e)
  \/ e.kind = "assign" /\ EffectAssigned(e)
  \/ e.kind = "load" /\ ProfileLoaded(e)
  \/ e.kind \in {"save", "delete"} /\ ProfileStored(e)
  \/ /\ bloc.device # "none"
     /\ \/ e.kind = "paint" /\ Paint(e)
        \/ e.kind = "color" /\ ColorSelected(e)
        \/ e.kind = "Direct" /\ DirectSelected(e)
        \/ e.kind = "Static" /\ StaticSelected(e)
        \/ e.kind = "firmware" /\ FirmwareSelected(e)
        \/ e.kind = "brightness" /\ BrightnessChanged(e)
        \/ e.kind = "clear" /\ EffectsCleared(e)
        \/ e.kind = "clear" /\ ~bloc.effects /\ Ignore(e)
  \/ /\ bloc.device = "none"
     /\ e.kind \in {"paint", "color", "Direct", "Static", "firmware", "brightness", "clear"}
     /\ Ignore(e)

\* asyncExpand: one handler at a time.
Free == running = {}

Take ==
  /\ queue # <<>> /\ Free
  /\ queue' = Tail(queue)
  /\ IF bloc.closing THEN UNCHANGED <<running, bloc, engine, keyboard, store>>
     ELSE Handle(Head(queue))
  /\ UNCHANGED count

\* The openrgb program ends: what it wrote is on the keyboard, or it exited with
\* a status nobody looks at, or it could not be run.
WriteEnds(t) ==
  LET e      == t.event
      others == running \ {t}
      Told1(ok) ==
        IF t.snap = {} THEN keyboard
        ELSE LET s == CHOOSE s \in t.snap : TRUE
             IN Told(keyboard, IF s.mode = "firmware" THEN s.mode ELSE "frame",
                     s.colors, FALSE, ok)
  IN /\ t.pc = "write" /\ ~bloc.closing
     /\ \/ /\ \E ok \in BOOLEAN : keyboard' = Told1(ok)
           /\ IF e.kind \in {"start", "load"}
              THEN \E s \in t.snap : End(others, e, Written(e, bloc, s))
              ELSE End(others, e, [bloc EXCEPT !.applying = FALSE, !.error = FALSE])
        \/ /\ keyboard' = Told1(FALSE)
           /\ End(others, e, IF e.kind \in {"start", "load"} THEN NotWritten(bloc)
                             ELSE [bloc EXCEPT !.applying = FALSE, !.error = TRUE])
     /\ UNCHANGED <<queue, count>>

\* A profile or the painting was stored, or the store failed.
StoreEnds(t) ==
  LET others == running \ {t}
  IN /\ t.pc \in {"store", "save"} /\ ~bloc.closing
     /\ \/ t.pc = "store" /\ End(others, t.event, bloc)
        \/ t.pc = "save" /\ Emit(bloc) /\ running' = others /\ UNCHANGED store
        \/ /\ Emit([bloc EXCEPT !.applying = FALSE, !.error = TRUE])
           /\ running' = others /\ UNCHANGED store
     /\ UNCHANGED <<queue, keyboard, count>>

\* After close a handler changes nothing any more.
EndsClosed(t) ==
  /\ bloc.closing
  /\ running' = running \ {t}
  /\ UNCHANGED <<queue, bloc, engine, keyboard, store, count>>

Tick ==
  /\ engine.on
  /\ \/ /\ keyboard' = PaintNative(keyboard, engine.base, TRUE, TRUE)
        /\ UNCHANGED <<queue, engine, count>>
     \/ /\ count < MaxEvents /\ count' = count + 1
        /\ keyboard' = PaintNative(keyboard, engine.base, TRUE, FALSE)
        /\ engine' = [engine EXCEPT !.on = FALSE]
        /\ queue' = Append(queue, [n |-> count', kind |-> "failed", name |-> NoName])
  /\ UNCHANGED <<running, bloc, store>>

\* The page adds events for a keyboard it shows, the automation applies profiles
\* at any time.  Nobody asks for a refresh.
Add(kind, name) ==
  /\ count < MaxEvents /\ count' = count + 1 /\ ~bloc.closing
  /\ kind # "load" => bloc.available
  /\ kind = "firmware" => bloc.device = "openrgb"
  /\ queue' = Append(queue, [n |-> count', kind |-> kind, name |-> name])
  /\ UNCHANGED <<running, bloc, engine, keyboard, store>>

Close ==
  /\ ~bloc.closing
  /\ bloc' = [bloc EXCEPT !.closing = TRUE]
  /\ engine' = [engine EXCEPT !.on = FALSE]
  /\ UNCHANGED <<queue, running, keyboard, store, count>>

Named == {"save", "load", "delete"}

Next ==
  \/ \E kind \in Kinds \ (Named \cup {"start", "failed"}) : Add(kind, NoName)
  \/ \E kind \in Named, name \in Name : Add(kind, name)
  \/ \E t \in running : Probed(t) \/ WriteEnds(t) \/ StoreEnds(t) \/ EndsClosed(t)
  \/ Take \/ Tick \/ Close

Spec == Init /\ [][Next]_vars

-----------------------------------------------------------------------------
(* Properties.                                                             *)

\* The animation yields: no frame of the timer meets a write of openrgb, a
\* restore, or the end of the app, whatever is queued and whatever has failed.
AnimationYields ==
  engine.on =>
    /\ ~bloc.closing /\ bloc.native /\ engine.base = bloc.colors
    /\ \A t \in running : t.pc \notin {"probe", "write"}

Quiet == running = {} /\ queue = <<>> /\ bloc.available /\ ~bloc.closing

\* When all events are handled and no error is shown, the keyboard was last told
\* what the page shows: no frame of an animation that is over, no painting that
\* was replaced, no earlier mode is left on it.  Excepted is a write the keyboard
\* did not accept, and an effect assigned without the native backend.
KeyboardShowsThePage ==
  /\ Quiet /\ ~bloc.error /\ ~keyboard.rejected
  /\ bloc.effects => bloc.native
  /\ keyboard.sent.kind # "unknown" /\ bloc.colors.leds = bloc.device
  /\ bloc.mode # "firmware"
  /\ ~engine.on
  => /\ keyboard.sent.kind = "frame" /\ ~keyboard.sent.animated
     /\ keyboard.sent.colors = bloc.colors

\* docs/keyboard-automation.md:16, "failed writes are reported rather than
\* treated as successful applications": a profile whose application ends without
\* an error was accepted.  The frames of its animation come later.
FailedWritesAreReported ==
  \A t \in running :
    t.event.kind = "load" /\ t.pc = "save" /\ ~keyboard.last.animated =>
      ~keyboard.rejected
=============================================================================
