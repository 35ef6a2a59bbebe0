-------------------------- MODULE QueuedPageProofs --------------------------
(***************************************************************************)
(* Proofs about QueuedPage, for any settings, values and number of events  *)
(* that wait.                                                              *)
(*                                                                         *)
(* A success is announced when what was confirmed is read back.  That      *)
(* nothing undoes it meanwhile rests on two facts: as long as no write has *)
(* failed the confirmed values are in the hardware, unless the mode went   *)
(* astray (ConfirmedIsThere), and a backend that was given up, which could *)
(* still change them, exists only when control access is closed, when only *)
(* a mode that the daemon set can be announced (NoticeWaits).  Calls that  *)
(* the daemon was given up on may come late at any time, but they are      *)
(* about the mode, which no batch writes (ModeIsAlone).                    *)
(* A batch that rolls back has, of what it confirmed, either restored the  *)
(* original or still to write it (RollsBack), and what may end late is     *)
(* about another limit, because a batch writes each limit once             *)
(* (WritesApart).                                                          *)
(***************************************************************************)
EXTENDS QueuedPage, SequenceTheorems, TLAPS

Known == [Setting -> Value]

\* What an event of a kind carries.
Fits(e) ==
  /\ e.kind \in {"set", "edit"} => Len(e.writes) = 1
  /\ e.kind = "limits" =>
       Len(e.writes) = 2 /\ \A n \in 1..Len(e.writes) : e.writes[n].s # Mode

QueueFits == \A n \in 1..Len(queue) : Fits(queue[n])

\* The handlers that write.
RunFits ==
  /\ run.pc = "write" => run.kind \in {"set", "save", "limits"}
  /\ run.pc \in {"context", "undo"} => run.kind = "limits"
  /\ run.failed # "no" => run.kind = "limits"
  /\ run.pc = "undo" => run.failed # "no"
  /\ run.pc = "context" => run.done = <<>>
  /\ run.pc = "idle" => run = Idle

\* The writes to come and those that are done are of different settings.
WritesApart ==
  /\ run.pc \in {"context", "daemon", "check", "write", "undo"} => run.todo # <<>>
  /\ run.pc \in {"context", "daemon", "check", "write"} =>
       /\ run.failed = "no"
       /\ Len(run.todo) + Len(run.done) <= 2
       /\ \A m \in 1..Len(run.todo), n \in 1..Len(run.done) : run.todo[m].s # run.done[n].s

\* A batch knows the originals of what it has written.
OriginalsKnown ==
  run.kind = "limits" =>
    /\ run.pc = "write" => run.orig \in Known
    /\ run.done # <<>> => run.orig \in Known

\* The mode is written on its own, and no batch writes it.
ModeIsAlone ==
  /\ run.pc \in {"daemon", "check"} =>
       /\ run.kind = "set" /\ run.done = <<>>
       /\ Len(run.todo) = 1 /\ run.todo[1].s = Mode
  /\ run.kind = "limits" =>
       /\ run.pc \in {"context", "write"} => \A m \in 1..Len(run.todo) : run.todo[m].s # Mode
       /\ \A n \in 1..Len(run.done) : run.done[n].s # Mode

\* The mode was not read after it was confirmed, or something late has set it.
Astray(w) == w.s = Mode /\ history.astray

\* What was confirmed is there until something fails; what is read back has it.
ConfirmedIsThere ==
  run.failed = "no" =>
    \A n \in 1..Len(run.done) :
      LET w == run.done[n]
      IN  \/ Astray(w)
          \/ /\ hardware[w.s] = w.v
             /\ run.pc = "loaded" => run.read[w.s] = w.v

\* The curve that is saved is the one that is shown, and what is read while a
\* success is announced has it.
SaveIsShown ==
  run.kind = "save" =>
    /\ \A n \in 1..Len(run.todo) : run.todo[n] = [s |-> Curve, v |-> bloc.shown[Curve]]
    /\ \A n \in 1..Len(run.done) : run.done[n] = [s |-> Curve, v |-> bloc.shown[Curve]]

NoticeIsRead ==
  run.pc = "loaded" => \A w \in bloc.notice : Astray(w) \/ run.read[w.s] = w.v

\* No notice while there are writes, and without control access only the one of
\* a mode that the daemon has set.
NoticeWaits ==
  /\ run.pc \in {"context", "daemon", "check", "write", "undo"} \/ run.done # <<>> =>
       bloc.notice = {} /\ history.restored = {}
  /\ ~access.open =>
       /\ \A w \in bloc.notice : w.s = Mode
       /\ run.failed = "no" => \A n \in 1..Len(run.done) : run.done[n].s = Mode
  /\ access.late # {} => ~access.open

\* A roll back has restored what it has not yet to write, and a late write is of
\* another setting.
RollsBack ==
  run.failed = "restored" =>
    \A n \in 1..Len(run.done) :
      LET w == run.done[n]
      IN  /\ \/ hardware[w.s] = run.orig[w.s]
             \/ run.pc = "undo" /\ \E m \in 1..Len(run.todo) : run.todo[m].s = w.s
          /\ \A l \in access.late : l.s # w.s

TodoIsOriginal ==
  run.pc = "undo" => \A m \in 1..Len(run.todo) : run.todo[m].v = run.orig[run.todo[m].s]

\* What comes late is not about what a batch has restored.
LateIsApart ==
  \A w \in history.restored : w.s # Mode /\ \A l \in access.late : l.s # w.s

IInv ==
  /\ TypeOK /\ QueueFits /\ RunFits /\ WritesApart /\ OriginalsKnown /\ ModeIsAlone
  /\ ConfirmedIsThere /\ SaveIsShown /\ NoticeIsRead /\ NoticeWaits /\ RollsBack
  /\ TodoIsOriginal /\ LateIsApart
  /\ SuccessIsShown /\ FailedBatchIsRestored /\ EditsAreKept

-----------------------------------------------------------------------------
(* Sequences of writes.                                                    *)

LEMMA WritesFacts ==
  ASSUME NEW t \in Writes
  PROVE  /\ t \in Seq(Write) /\ Len(t) \in Nat /\ Len(t) <= 2 /\ DOMAIN t = 1..Len(t)
         /\ \A n \in 1..Len(t) : t[n] \in Write
         /\ \A m, n \in 1..Len(t) : t[m].s = t[n].s => m = n
<1>1. PICK n \in 0..2 : t \in [1..n -> Write]
  BY DEF Writes
<1>2. t \in Seq(Write) /\ Len(t) = n /\ DOMAIN t = 1..n
  BY <1>1
<1> QED BY <1>1, <1>2 DEF Writes

LEMMA LessThanTwo ==
  ASSUME NEW a \in Nat, NEW b \in Nat, a > 0, a + b <= 2
  PROVE  b < 2 /\ (a - 1) + (b + 1) <= 2
OBVIOUS

LEMMA NotEmpty ==
  ASSUME NEW t, Len(t) # 0
  PROVE  t # <<>>
<1>1. Len(<<>>) = 0
  OBVIOUS
<1> QED BY <1>1

LEMMA WritesIntro ==
  ASSUME NEW t \in Seq(Write), Len(t) <= 2,
         \A m, n \in 1..Len(t) : t[m].s = t[n].s => m = n
  PROVE  t \in Writes
<1>1. Len(t) \in 0..2 /\ t \in [1..Len(t) -> Write] /\ DOMAIN t = 1..Len(t)
  <2>1. Len(t) \in Nat /\ t \in [1..Len(t) -> Write] /\ DOMAIN t = 1..Len(t)
    BY LenProperties
  <2> QED BY <2>1
<1>2. \A m, n \in DOMAIN t : t[m].s = t[n].s => m = n
  BY <1>1
<1> QED BY <1>1, <1>2 DEF Writes

LEMMA WritesTail ==
  ASSUME NEW t \in Writes, t # <<>>
  PROVE  /\ Head(t) = t[1] /\ t[1] \in Write /\ Tail(t) \in Writes
         /\ Len(Tail(t)) = Len(t) - 1 /\ Len(t) > 0
         /\ \A n \in 1..Len(Tail(t)) : n + 1 \in 1..Len(t) /\ Tail(t)[n] = t[n + 1]
<1>1. t \in Seq(Write) /\ Len(t) \in Nat /\ Len(t) <= 2
      /\ \A m, n \in 1..Len(t) : t[m].s = t[n].s => m = n
  BY WritesFacts
<1>2. /\ Head(t) = t[1] /\ t[1] \in Write /\ Tail(t) \in Seq(Write)
      /\ Len(Tail(t)) = Len(t) - 1 /\ Len(t) > 0
      /\ \A n \in 1..Len(Tail(t)) : n + 1 \in 1..Len(t) /\ Tail(t)[n] = t[n + 1]
  BY <1>1
<1>3. Len(Tail(t)) <= 2 /\ \A m, n \in 1..Len(Tail(t)) : Tail(t)[m].s = Tail(t)[n].s => m = n
  BY <1>1, <1>2
<1>4. Tail(t) \in Writes
  BY <1>2, <1>3, WritesIntro
<1> QED BY <1>2, <1>4

LEMMA WritesAppend ==
  ASSUME NEW t \in Writes, NEW w \in Write, Len(t) < 2, \A n \in 1..Len(t) : t[n].s # w.s
  PROVE  /\ Append(t, w) \in Writes /\ Len(Append(t, w)) = Len(t) + 1
         /\ \A n \in 1..Len(t) : Append(t, w)[n] = t[n]
         /\ Append(t, w)[Len(t) + 1] = w
<1>1. t \in Seq(Write) /\ Len(t) \in Nat /\ \A m, n \in 1..Len(t) : t[m].s = t[n].s => m = n
  BY WritesFacts
<1>2. /\ Append(t, w) \in Seq(Write) /\ Len(Append(t, w)) = Len(t) + 1
      /\ \A n \in 1..Len(t) : Append(t, w)[n] = t[n]
      /\ Append(t, w)[Len(t) + 1] = w
  BY <1>1
<1>3. \A m, n \in 1..Len(Append(t, w)) : Append(t, w)[m].s = Append(t, w)[n].s => m = n
  BY <1>1, <1>2
<1>4. Append(t, w) \in Writes
  <2>1. Len(Append(t, w)) <= 2
    BY <1>1, <1>2
  <2> QED BY <1>2, <1>3, <2>1, WritesIntro
<1> QED BY <1>2, <1>4

LEMMA WritesSmall ==
  /\ <<>> \in Writes
  /\ \A w \in Write : <<w>> \in Writes /\ Len(<<w>>) = 1 /\ <<w>>[1] = w
<1>1. <<>> \in Seq(Write) /\ Len(<<>>) = 0
  OBVIOUS
<1>2. ASSUME NEW w \in Write
      PROVE  <<w>> \in Seq(Write) /\ Len(<<w>>) = 1 /\ <<w>>[1] = w
  OBVIOUS
<1>3. <<>> \in Writes
  <2>1. 1..Len(<<>>) = {} /\ Len(<<>>) <= 2
    BY <1>1
  <2> QED BY <1>1, <2>1, WritesIntro
<1>4. ASSUME NEW w \in Write
      PROVE  <<w>> \in Writes
  <2>1. Len(<<w>>) <= 2 /\ \A m, n \in 1..Len(<<w>>) : <<w>>[m].s = <<w>>[n].s => m = n
    BY <1>2
  <2> QED BY <1>2, <2>1, WritesIntro
<1> QED BY <1>2, <1>3, <1>4

\* The roll back of what was done.
LEMMA RollBackFacts ==
  ASSUME run.done \in Writes, run.done # <<>>, run.orig \in Known
  PROVE  /\ RollBack \in Writes /\ Len(RollBack) = Len(run.done) /\ RollBack # <<>>
         /\ \A n \in 1..Len(RollBack) : RollBack[n].v = run.orig[RollBack[n].s]
         /\ \A n \in 1..Len(run.done) : \E m \in 1..Len(RollBack) : RollBack[m].s = run.done[n].s
<1> DEFINE d == run.done
           o == [n \in DOMAIN d |-> Original(d[n])]
<1>1. /\ d \in Seq(Write) /\ Len(d) \in Nat /\ Len(d) <= 2 /\ DOMAIN d = 1..Len(d)
      /\ \A n \in 1..Len(d) : d[n] \in Write
      /\ \A m, n \in 1..Len(d) : d[m].s = d[n].s => m = n
  BY WritesFacts
<1>2. \A n \in 1..Len(d) : /\ Original(d[n]) \in Write /\ Original(d[n]).s = d[n].s
                           /\ Original(d[n]).v = run.orig[d[n].s]
  BY <1>1 DEF Original, Known, Write
<1>3. o \in Seq(Write) /\ Len(o) = Len(d) /\ \A n \in 1..Len(d) : o[n] = Original(d[n])
  BY <1>1, <1>2
<1>4. /\ RollBack \in Seq(Write) /\ Len(RollBack) = Len(d)
      /\ \A n \in 1..Len(d) : RollBack[n] = o[Len(d) - n + 1]
  <2>1. RollBack = Reverse(o)
    BY DEF RollBack
  <2> HIDE DEF o
  <2>2. /\ Reverse(o) \in Seq(Write) /\ Len(Reverse(o)) = Len(o)
        /\ \A n \in 1..Len(o) : Reverse(o)[n] = o[Len(o) - n + 1]
    BY <1>3 DEF Reverse
  <2> QED BY <1>3, <2>1, <2>2
<1>5. \A n \in 1..Len(d) : Len(d) - n + 1 \in 1..Len(d) /\ RollBack[n] = Original(d[Len(d) - n + 1])
  <2> TAKE n \in 1..Len(d)
  <2>1. Len(d) - n + 1 \in 1..Len(d)
    BY <1>1
  <2>2. RollBack[n] = o[Len(d) - n + 1]
    BY <1>4
  <2>3. o[Len(d) - n + 1] = Original(d[Len(d) - n + 1])
    BY <1>3, <2>1
  <2> QED BY <2>1, <2>2, <2>3
<1>6. \A m, n \in 1..Len(RollBack) : RollBack[m].s = RollBack[n].s => m = n
  BY <1>1, <1>2, <1>4, <1>5
<1>7. RollBack \in Writes /\ RollBack # <<>>
  BY <1>1, <1>4, <1>6, WritesIntro
<1>8. \A n \in 1..Len(d) : RollBack[Len(d) - n + 1].s = d[n].s /\ Len(d) - n + 1 \in 1..Len(d)
  BY <1>1, <1>2, <1>4, <1>5
<1>9. \A n \in 1..Len(RollBack) : RollBack[n].v = run.orig[RollBack[n].s]
  BY <1>2, <1>4, <1>5
<1>10. \A n \in 1..Len(d) : \E m \in 1..Len(RollBack) : RollBack[m].s = d[n].s
  BY <1>4, <1>8
<1> QED BY <1>4, <1>7, <1>9, <1>10

-----------------------------------------------------------------------------
(* Events arrive.                                                          *)

RunInv ==
  /\ RunFits /\ WritesApart /\ OriginalsKnown /\ ModeIsAlone /\ ConfirmedIsThere /\ SaveIsShown
  /\ NoticeIsRead /\ NoticeWaits /\ RollsBack /\ TodoIsOriginal /\ LateIsApart

Properties == SuccessIsShown /\ FailedBatchIsRestored /\ EditsAreKept

LEMMA IInvParts == IInv <=> TypeOK /\ QueueFits /\ RunInv /\ Properties
BY DEF IInv, RunInv, Properties

\* The running handler does not notice what arrives.
LEMMA FrameKeeps ==
  ASSUME IInv, UNCHANGED <<hardware, access, run, history>>,
         bloc'.notice = bloc.notice, bloc'.shown = bloc.shown, bloc'.dirty = bloc.dirty
  PROVE  RunInv' /\ Properties'
<1>1. (RunFits /\ WritesApart /\ OriginalsKnown /\ ModeIsAlone /\ ConfirmedIsThere /\ SaveIsShown)'
  BY
     DEF IInv, RunFits, WritesApart, OriginalsKnown, ModeIsAlone, ConfirmedIsThere, SaveIsShown,
         Astray
<1>2. (NoticeIsRead /\ NoticeWaits /\ RollsBack /\ TodoIsOriginal /\ LateIsApart)'
  BY DEF IInv, NoticeIsRead, NoticeWaits, RollsBack, TodoIsOriginal, LateIsApart, Astray
<1>3. Properties'
  BY DEF IInv, Properties, SuccessIsShown, FailedBatchIsRestored, EditsAreKept
<1> QED BY <1>1, <1>2, <1>3 DEF RunInv

LEMMA EventType ==
  ASSUME NEW kind \in Kinds, NEW w \in Writes
  PROVE  [kind |-> kind, writes |-> w] \in Event
BY DEF Event

LEMMA UserEventsFit ==
  ASSUME NEW e \in UserEvents
  PROVE  e \in Event /\ Fits(e)
<1>1. CASE e = Plain("refresh") \/ e = Plain("save")
  BY <1>1, WritesSmall DEF Plain, Event, Kinds, Fits
<1>2. CASE e \in [kind : {"set"}, writes : {w \in Writes : Len(w) = 1}]
  BY <1>2 DEF Event, Kinds, Fits
<1>3. CASE e \in [kind : {"limits"}, writes : {w \in WithoutMode : Len(w) = 2}]
  <2>1. e.kind = "limits" /\ e.writes \in Writes /\ Len(e.writes) = 2 /\ e \in Event
    BY <1>3 DEF Event, Kinds, WithoutMode
  <2>2. \A n \in 1..Len(e.writes) : e.writes[n].s # Mode
    BY <1>3, <2>1, WritesFacts DEF WithoutMode
  <2> QED BY <2>1, <2>2 DEF Fits
<1>4. CASE e \in [kind : {"edit"}, writes : {<<[s |-> Curve, v |-> v]>> : v \in Value}]
  <2>1. PICK v \in Value : e.writes = <<[s |-> Curve, v |-> v]>>
    BY <1>4
  <2>2. [s |-> Curve, v |-> v] \in Write
    BY ConstantsAssumption DEF Write
  <2>3. e.writes \in Writes /\ Len(e.writes) = 1
    BY <2>1, <2>2, WritesSmall
  <2> QED BY <1>4, <2>3 DEF Event, Kinds, Fits
<1>5. CASE e \in [kind : {"set"}, writes : {w \in WithoutMode : Len(w) = 1}]
  BY <1>5 DEF Event, Kinds, Fits, WithoutMode
<1> QED BY <1>1, <1>2, <1>3, <1>4, <1>5 DEF UserEvents

LEMMA AppendFits ==
  ASSUME IInv, NEW e \in Event, Fits(e), queue' = Append(queue, e)
  PROVE  queue' \in Seq(Event) /\ QueueFits'
<1>1. queue \in Seq(Event)
  BY DEF IInv, TypeOK
<1>2. \A n \in 1..Len(queue') : queue'[n] = e \/ (n \in 1..Len(queue) /\ queue'[n] = queue[n])
  BY <1>1
<1> QED BY <1>1, <1>2 DEF IInv, QueueFits

LEMMA AddKeeps ==
  ASSUME IInv, Add
  PROVE  IInv'
<1>1. PICK e \in UserEvents : queue' = Append(queue, e)
  BY DEF Add
<1>2. queue' \in Seq(Event) /\ QueueFits'
  BY <1>1, UserEventsFit, AppendFits
<1>3. RunInv' /\ Properties'
  BY FrameKeeps DEF Add
<1>4. TypeOK'
  BY <1>2 DEF Add, IInv, TypeOK
<1> QED BY <1>2, <1>3, <1>4 DEF IInv, RunInv, Properties

LEMMA TickKeeps ==
  ASSUME IInv, Tick
  PROVE  IInv'
<1>1. Plain("ticked") \in Event /\ Fits(Plain("ticked"))
  BY WritesSmall DEF Plain, Event, Kinds, Fits
<1>2. queue' \in Seq(Event) /\ QueueFits'
  BY <1>1, AppendFits DEF Tick
<1>3. /\ bloc' \in Bloc /\ bloc'.notice = bloc.notice /\ bloc'.shown = bloc.shown
      /\ bloc'.dirty = bloc.dirty
  BY DEF Tick, IInv, TypeOK, Bloc
<1>4. RunInv' /\ Properties'
  BY <1>3, FrameKeeps DEF Tick
<1>5. TypeOK'
  BY <1>2, <1>3 DEF Tick, IInv, TypeOK
<1> QED BY <1>2, <1>4, <1>5 DEF IInv, RunInv, Properties

LEMMA CloseKeeps ==
  ASSUME IInv, Close
  PROVE  IInv'
<1>1. /\ bloc' \in Bloc /\ bloc'.notice = bloc.notice /\ bloc'.shown = bloc.shown
      /\ bloc'.dirty = bloc.dirty
  BY DEF Close, IInv, TypeOK, Bloc
<1>2. UNCHANGED <<page, queue>>
  BY DEF Close, Elsewhere
<1>3. RunInv' /\ Properties'
  BY <1>1, FrameKeeps DEF Close
<1>4. TypeOK' /\ QueueFits'
  BY <1>1, <1>2 DEF Close, IInv, TypeOK, QueueFits
<1> QED BY <1>3, <1>4 DEF IInv, RunInv, Properties

-----------------------------------------------------------------------------
(* The handler of an event begins.                                         *)

LEMMA TakeEffect ==
  ASSUME IInv, Take
  PROVE  /\ queue' \in Seq(Event) /\ QueueFits' /\ UNCHANGED <<page, hardware, access>>
         /\ Head(queue) \in Event /\ Fits(Head(queue)) /\ run = Idle
<1>1. queue \in Seq(Event) /\ queue # <<>>
  BY DEF Take, IInv, TypeOK
<1>2. /\ Head(queue) \in Event /\ Head(queue) = queue[1] /\ 1 \in 1..Len(queue)
      /\ Tail(queue) \in Seq(Event)
      /\ \A n \in 1..Len(Tail(queue)) : n + 1 \in 1..Len(queue) /\ Tail(queue)[n] = queue[n + 1]
  BY <1>1
<1> QED BY <1>1, <1>2 DEF Take, IInv, QueueFits, RunFits

LEMMA SkipKeeps ==
  ASSUME IInv, Skip
  PROVE  IInv'
<1>1. queue' \in Seq(Event) /\ QueueFits' /\ UNCHANGED <<page, hardware, access>>
  BY TakeEffect DEF Skip
<1>2. RunInv' /\ Properties'
  BY <1>1, FrameKeeps DEF Skip
<1>3. TypeOK'
  BY <1>1 DEF Skip, IInv, TypeOK
<1> QED BY <1>1, <1>2, <1>3 DEF IInv, RunInv, Properties

LEMMA IdleFacts ==
  /\ Idle \in Run /\ Idle.kind = "started" /\ Idle.pc = "idle" /\ Idle.todo = <<>>
  /\ Idle.done = <<>> /\ Idle.failed = "no" /\ Idle.orig = Unread /\ Idle.read = Unread
BY WritesSmall DEF Idle, Run, Kinds, Shown, Unread

\* Without writes that are done the invariant says little.
LEMMA NothingDone ==
  ASSUME run.done = <<>>, run.failed = "no"
  PROVE  ConfirmedIsThere /\ RollsBack
BY DEF ConfirmedIsThere, RollsBack

LEMMA EditKeeps ==
  ASSUME IInv, Edit
  PROVE  IInv'
<1> DEFINE e == Head(queue)
           v == e.writes[1].v
<1>1. /\ queue' \in Seq(Event) /\ QueueFits' /\ UNCHANGED <<page, hardware, access, run>>
      /\ e \in Event /\ Fits(e) /\ e.kind = "edit" /\ run = Idle
  BY TakeEffect DEF Edit
<1>2. v \in Value
  BY <1>1, WritesFacts DEF Fits, Event, Write
<1>3. /\ bloc' = [bloc EXCEPT !.shown[Curve] = v, !.dirty = TRUE]
      /\ history' = [history EXCEPT !.unsaved = v]
  BY DEF Edit
<1>4. /\ bloc' \in Bloc /\ bloc'.notice = bloc.notice /\ bloc'.dirty
      /\ bloc'.shown = [bloc.shown EXCEPT ![Curve] = v]
      /\ history' \in History /\ history'.restored = history.restored /\ history'.unsaved = v
  BY <1>2, <1>3, ConstantsAssumption DEF IInv, TypeOK, Bloc, Shown, History
<1>5. TypeOK'
  BY <1>1, <1>4 DEF IInv, TypeOK
<1>6. (RunFits /\ WritesApart /\ OriginalsKnown /\ ModeIsAlone /\ ConfirmedIsThere /\ SaveIsShown)'
  BY <1>1, IdleFacts
     DEF IInv, RunFits, WritesApart, OriginalsKnown, ModeIsAlone, ConfirmedIsThere, SaveIsShown
<1>7. (NoticeIsRead /\ NoticeWaits /\ RollsBack /\ TodoIsOriginal /\ LateIsApart)'
  BY <1>1, <1>4, IdleFacts
     DEF IInv, NoticeIsRead, NoticeWaits, RollsBack, TodoIsOriginal, LateIsApart
<1>8. SuccessIsShown' /\ FailedBatchIsRestored'
  <2>1. history'.astray = history.astray
    BY <1>3 DEF IInv, TypeOK, History
  <2> QED BY <1>1, <1>4, <2>1
          DEF IInv, TypeOK, Bloc, Shown, SuccessIsShown, FailedBatchIsRestored, Write
<1>9. EditsAreKept'
  BY <1>4, ConstantsAssumption DEF IInv, TypeOK, Bloc, Shown, EditsAreKept
<1> QED BY <1>1, <1>5, <1>6, <1>7, <1>8, <1>9 DEF IInv

\* A handler that begins.
LEMMA BeginKeeps ==
  ASSUME IInv, NEW k \in Kinds, NEW pc \in {"load", "context", "daemon", "write"}, NEW t \in Writes,
         run' = [Idle EXCEPT !.kind = k, !.pc = pc, !.todo = t],
         UNCHANGED <<hardware, access>>,
         bloc'.notice \in {bloc.notice, {}}, bloc'.shown = bloc.shown,
         history'.restored \in {history.restored, {}}, history'.astray = history.astray,
         pc # "load" => t # <<>> /\ bloc'.notice = {} /\ history'.restored = {},
         pc = "context" => k = "limits",
         k = "limits" => \A n \in 1..Len(t) : t[n].s # Mode,
         pc = "daemon" => k = "set" /\ Len(t) = 1 /\ t[1].s = Mode,
         pc = "write" => k \in {"set", "save"},
         k = "save" => \A n \in 1..Len(t) : t[n] = [s |-> Curve, v |-> bloc.shown[Curve]]
  PROVE  RunInv' /\ run' \in Run
<1>1. /\ run' \in Run /\ run'.kind = k /\ run'.pc = pc /\ run'.todo = t /\ run'.done = <<>>
      /\ run'.failed = "no"
  BY IdleFacts DEF Run
<1>2. Len(t) \in Nat /\ Len(t) <= 2 /\ Len(<<>>) = 0
  BY WritesFacts
<1>3. (RunFits /\ WritesApart /\ OriginalsKnown /\ ModeIsAlone /\ SaveIsShown /\ TodoIsOriginal)'
  BY <1>1, <1>2 DEF RunFits, WritesApart, OriginalsKnown, ModeIsAlone, SaveIsShown, TodoIsOriginal
<1>4. (ConfirmedIsThere /\ RollsBack)'
  BY <1>1, <1>2 DEF ConfirmedIsThere, RollsBack
<1>5. (NoticeIsRead /\ NoticeWaits /\ LateIsApart)'
  BY <1>1, <1>2 DEF IInv, NoticeIsRead, NoticeWaits, LateIsApart
<1> QED BY <1>1, <1>3, <1>4, <1>5 DEF RunInv

LEMMA LoadKeeps ==
  ASSUME IInv, Load
  PROVE  IInv'
<1> DEFINE k == Head(queue).kind
<1>1. /\ queue' \in Seq(Event) /\ QueueFits' /\ UNCHANGED <<page, hardware, access, history>>
      /\ k \in {"started", "refresh", "ticked"}
      /\ run' = [Idle EXCEPT !.kind = k, !.pc = "load", !.todo = <<>>]
  BY TakeEffect DEF Load, Begin
<1>2. /\ bloc' \in Bloc /\ bloc'.notice \in {bloc.notice, {}} /\ bloc'.shown = bloc.shown
      /\ bloc'.dirty = bloc.dirty
  BY DEF Load, IInv, TypeOK, Bloc
<1>3. RunInv' /\ run' \in Run
  <2>1. k \in Kinds /\ k \notin {"save", "limits"}
    BY <1>1 DEF Kinds
  <2> QED BY <1>1, <1>2, <2>1, BeginKeeps, WritesSmall
<1>4. TypeOK'
  BY <1>1, <1>2, <1>3 DEF IInv, TypeOK
<1>5. Properties'
  BY <1>1, <1>2 DEF IInv, Properties, SuccessIsShown, FailedBatchIsRestored, EditsAreKept
<1> QED BY <1>1, <1>3, <1>4, <1>5 DEF IInv, RunInv, Properties

LEMMA ApplyKeeps ==
  ASSUME IInv, Apply
  PROVE  IInv'
<1> DEFINE e == Head(queue)
           t == WritesOf(e)
<1>1. /\ queue' \in Seq(Event) /\ QueueFits' /\ UNCHANGED <<page, hardware, access>>
      /\ e \in Event /\ Fits(e) /\ e.kind \in {"set", "limits", "save"}
      /\ e.kind = "save" => bloc.shown[Curve] # NotRead
  BY TakeEffect DEF Apply
<1>2. PICK pc \in FirstSteps(e) : run' = [Idle EXCEPT !.kind = e.kind, !.pc = pc, !.todo = t]
  BY DEF Apply, Begin
<1>3. /\ bloc' \in Bloc /\ bloc'.notice = {} /\ bloc'.shown = bloc.shown /\ bloc'.dirty = bloc.dirty
      /\ history' \in History /\ history'.restored = {} /\ history'.unsaved = history.unsaved
      /\ history'.astray = history.astray
  BY DEF Apply, IInv, TypeOK, Bloc, History
<1>4. /\ t \in Writes /\ t # <<>>
      /\ e.kind = "save" => \A n \in 1..Len(t) : t[n] = [s |-> Curve, v |-> bloc.shown[Curve]]
      /\ e.kind = "limits" => \A n \in 1..Len(t) : t[n].s # Mode
      /\ e.kind = "set" => t = e.writes /\ Len(t) = 1
  <2>1. CASE e.kind = "save"
    <3>1. [s |-> Curve, v |-> bloc.shown[Curve]] \in Write
      BY <1>1, <2>1, ConstantsAssumption DEF IInv, TypeOK, Bloc, Shown, Write
    <3> QED BY <2>1, <3>1, WritesSmall DEF WritesOf
  <2>2. CASE e.kind # "save"
    <3>1. e.writes \in Writes /\ e.kind \in {"set", "limits"} /\ t = e.writes
      BY <1>1, <2>2 DEF Event, WritesOf
    <3>2. /\ Len(e.writes) = 1 \/ Len(e.writes) = 2
          /\ e.kind = "set" => Len(e.writes) = 1
          /\ e.kind = "limits" => \A n \in 1..Len(e.writes) : e.writes[n].s # Mode
      <4>1. Fits(e)
        BY <1>1
      <4> QED BY <3>1, <4>1 DEF Fits
    <3>3. Len(e.writes) # 0
      BY <3>2
    <3> QED BY <2>2, <3>1, <3>2, <3>3, NotEmpty
  <2> QED BY <2>1, <2>2
<1>5. RunInv' /\ run' \in Run
  <2>1. /\ e.kind \in Kinds /\ pc \in {"load", "context", "daemon", "write"}
        /\ (pc = "context" => e.kind = "limits") /\ (pc = "write" => e.kind \in {"set", "save"})
        /\ pc = "daemon" => e.kind = "set" /\ e.writes[1].s = Mode
    BY <1>1, <1>2 DEF Kinds, FirstSteps
  <2>2. pc = "daemon" => e.kind = "set" /\ Len(t) = 1 /\ t[1].s = Mode
    BY <1>4, <2>1
  <2> HIDE DEF t
  <2> QED BY <1>1, <1>2, <1>3, <1>4, <2>1, <2>2, BeginKeeps
<1>6. TypeOK'
  BY <1>1, <1>3, <1>5 DEF IInv, TypeOK
<1>7. Properties'
  BY <1>1, <1>3 DEF IInv, Properties, SuccessIsShown, FailedBatchIsRestored, EditsAreKept
<1> QED BY <1>1, <1>5, <1>6, <1>7 DEF IInv, RunInv, Properties

-----------------------------------------------------------------------------
(* The repository writes.                                                  *)

\* The write that is made now, and those after it.
LEMMA CurrentFacts ==
  ASSUME IInv, run.pc \in {"daemon", "check", "write", "undo"}
  PROVE  /\ run.todo \in Writes /\ run.todo # <<>> /\ Current = run.todo[1] /\ Current \in Write
         /\ Tail(run.todo) \in Writes /\ Len(Tail(run.todo)) = Len(run.todo) - 1
         /\ Len(run.todo) \in Nat /\ Len(run.todo) > 0
         /\ (Len(run.todo) # 1 => Tail(run.todo) # <<>>)
         /\ \A n \in 1..Len(Tail(run.todo)) :
              n + 1 \in 1..Len(run.todo) /\ Tail(run.todo)[n] = run.todo[n + 1]
         /\ \A m, n \in 1..Len(run.todo) : run.todo[m].s = run.todo[n].s => m = n
<1>1. run.todo \in Writes /\ run.todo # <<>>
  BY DEF IInv, TypeOK, Run, WritesApart
<1>2. Len(run.todo) # 1 => Tail(run.todo) # <<>>
  <2>1. Len(Tail(run.todo)) = Len(run.todo) - 1 /\ Len(run.todo) \in Nat
    BY <1>1, WritesTail, WritesFacts
  <2>2. Len(run.todo) # 1 => Len(Tail(run.todo)) # 0
    BY <2>1
  <2> QED BY <2>2, NotEmpty
<1> QED BY <1>1, <1>2, WritesTail, WritesFacts DEF Current

LEMMA WithFacts ==
  ASSUME IInv, NEW w \in Write
  PROVE  /\ With(w) \in [Setting -> Value] /\ With(w)[w.s] = w.v
         /\ \A s \in Setting : s # w.s => With(w)[s] = hardware[s]
BY DEF With, IInv, TypeOK, Write

LEMMA DoneFacts ==
  ASSUME IInv
  PROVE  /\ run.done \in Writes /\ Len(run.done) \in Nat
         /\ \A n \in 1..Len(run.done) : run.done[n] \in Write /\ run.done[n].s \in Setting
         /\ run.done = <<>> <=> Len(run.done) = 0
         /\ run \in Run
<1>1. run \in Run /\ run.done \in Writes
  BY DEF IInv, TypeOK, Run
<1>2. /\ run.done \in Seq(Write) /\ Len(run.done) \in Nat
      /\ \A n \in 1..Len(run.done) : run.done[n] \in Write
  BY <1>1, WritesFacts
<1>3. run.done = <<>> <=> Len(run.done) = 0
  BY <1>2
<1> QED BY <1>1, <1>2, <1>3 DEF Write

\* A step of the repository changes neither what is shown nor what arrives.
LEMMA ElsewhereKeeps ==
  ASSUME IInv, Elsewhere, UNCHANGED bloc, history' \in History,
         history'.unsaved = history.unsaved,
         run' \in Run, hardware' \in [Setting -> Value],
         access' \in Access
  PROVE  TypeOK' /\ QueueFits' /\ EditsAreKept'
BY DEF IInv, Elsewhere, TypeOK, QueueFits, EditsAreKept

LEMMA OriginalsKeeps ==
  ASSUME IInv, Originals
  PROVE  IInv'
<1>1. /\ UNCHANGED <<hardware, access, bloc, history>> /\ Elsewhere
      /\ run.pc = "context" /\ run.kind = "limits" /\ run.failed = "no"
      /\ run \in Run /\ hardware \in Known
  BY DEF Originals, IInv, RunFits, WritesApart, TypeOK, Known
<1>2. CASE run' = [run EXCEPT !.pc = "write", !.orig = hardware]
  <2>1. /\ run' \in Run /\ run'.pc = "write" /\ run'.orig = hardware /\ run'.kind = run.kind
        /\ run'.todo = run.todo /\ run'.done = run.done /\ run'.failed = run.failed
        /\ run'.read = run.read
    BY <1>1, <1>2 DEF Run, Shown, Known
  <2>2. (RunFits /\ OriginalsKnown /\ ModeIsAlone)'
    BY <1>1, <2>1 DEF IInv, RunFits, OriginalsKnown, ModeIsAlone
  <2>3. WritesApart'
    BY <1>1, <2>1 DEF IInv, WritesApart
  <2>4. (ConfirmedIsThere /\ SaveIsShown)'
    BY <1>1, <2>1 DEF IInv, ConfirmedIsThere, SaveIsShown, Astray
  <2>5. (NoticeIsRead /\ NoticeWaits /\ RollsBack /\ TodoIsOriginal /\ LateIsApart)'
    BY <1>1, <2>1 DEF IInv, NoticeIsRead, NoticeWaits, RollsBack, TodoIsOriginal, LateIsApart
  <2>6. SuccessIsShown' /\ FailedBatchIsRestored'
    BY <1>1 DEF IInv, SuccessIsShown, FailedBatchIsRestored
  <2>7. TypeOK' /\ QueueFits' /\ EditsAreKept'
    BY <1>1, <2>1, ElsewhereKeeps DEF IInv, TypeOK
  <2> QED BY <2>2, <2>3, <2>4, <2>5, <2>6, <2>7 DEF IInv
<1>3. CASE run' = [run EXCEPT !.pc = "load", !.failed = "restored", !.todo = <<>>]
  <2>1. /\ run' \in Run /\ run'.pc = "load" /\ run'.orig = run.orig /\ run'.kind = run.kind
        /\ run'.todo = <<>> /\ run'.done = run.done /\ run'.failed = "restored"
        /\ run'.read = run.read
    BY <1>1, <1>3, WritesSmall DEF Run
  <2>2. run.done = <<>>
    BY <1>1 DEF IInv, RunFits
  <2>3. (RunFits /\ WritesApart /\ OriginalsKnown /\ ModeIsAlone /\ ConfirmedIsThere
         /\ SaveIsShown)'
    BY <1>1, <2>1, <2>2
       DEF IInv, RunFits, WritesApart, OriginalsKnown, ModeIsAlone, ConfirmedIsThere, SaveIsShown
  <2>4. (NoticeIsRead /\ NoticeWaits /\ RollsBack /\ TodoIsOriginal /\ LateIsApart)'
    BY <1>1, <2>1, <2>2 DEF IInv, NoticeIsRead, NoticeWaits, RollsBack, TodoIsOriginal, LateIsApart
  <2>5. SuccessIsShown' /\ FailedBatchIsRestored'
    BY <1>1 DEF IInv, SuccessIsShown, FailedBatchIsRestored
  <2>6. TypeOK' /\ QueueFits' /\ EditsAreKept'
    BY <1>1, <2>1, ElsewhereKeeps DEF IInv, TypeOK
  <2> QED BY <2>3, <2>4, <2>5, <2>6 DEF IInv
<1> QED BY <1>2, <1>3 DEF Originals

\* The profile of a mode.
LEMMA ProfileFacts ==
  ASSUME NEW v \in Value
  PROVE  ProfileOf(v) \in Standard /\ Profile(ProfileOf(v)) \in Write
BY ConstantsAssumption DEF ProfileOf, Profile, Write

LEMMA PendingFacts ==
  ASSUME NEW p \in Standard
  PROVE  Profile(p) \in Write /\ Profile(p).s = Mode
BY ConstantsAssumption DEF Profile, Write

\* From the daemon on to the next step.
LEMMA ToWriteKeeps ==
  ASSUME IInv, run.pc \in {"daemon", "check"}, UNCHANGED <<access, bloc, history>>,
         run'.pc \in {"check", "write"}, run'.kind = "set", run'.todo = run.todo,
         run'.done = <<>>, run'.failed = run.failed
  PROVE  RunInv'
<1>1. /\ run.kind = "set" /\ run.done = <<>> /\ run.failed = "no" /\ Len(run.todo) = 1
      /\ run.todo[1].s = Mode /\ run.todo # <<>>
      /\ bloc.notice = {} /\ history.restored = {}
      /\ access.late # {} => ~access.open
  BY DEF IInv, ModeIsAlone, WritesApart, NoticeWaits
<1>2. Len(<<>>) = 0
  OBVIOUS
<1>3. (RunFits /\ WritesApart /\ OriginalsKnown /\ ModeIsAlone /\ SaveIsShown)'
  BY <1>1, <1>2 DEF RunFits, WritesApart, OriginalsKnown, ModeIsAlone, SaveIsShown
<1>4. (ConfirmedIsThere /\ RollsBack /\ TodoIsOriginal)'
  BY <1>1, <1>2 DEF ConfirmedIsThere, RollsBack, TodoIsOriginal
<1>5. (NoticeIsRead /\ NoticeWaits /\ LateIsApart)'
  BY <1>1, <1>2 DEF NoticeIsRead, NoticeWaits, LateIsApart
<1> QED BY <1>3, <1>4, <1>5 DEF RunInv

\* A write that is confirmed, by the bridge or by reading the mode.
LEMMA ConfirmKeeps ==
  ASSUME IInv, run.pc \in {"write", "check"}, Step(Append(run.done, Current), "no"),
         UNCHANGED <<access, bloc>>, Elsewhere,
         hardware' \in [Setting -> Value],
         \A s \in Setting : s # Current.s => hardware'[s] = hardware[s],
         hardware'[Current.s] = Current.v \/ (Current.s = Mode /\ history'.astray),
         access.open \/ Current.s = Mode,
         history' \in History, history'.unsaved = history.unsaved,
         history'.restored = history.restored,
         Current.s # Mode => history'.astray = history.astray
  PROVE  IInv'
<1> DEFINE c == run.todo[1]
<1>1. /\ UNCHANGED <<access, bloc>> /\ Elsewhere /\ run.failed = "no" /\ run \in Run
      /\ run.kind \in {"set", "save", "limits"}
  BY DEF IInv, RunFits, WritesApart, ModeIsAlone, TypeOK
<1>2. /\ run.todo \in Writes /\ c \in Write /\ Current = c
      /\ Tail(run.todo) \in Writes /\ Len(Tail(run.todo)) = Len(run.todo) - 1
      /\ Len(run.todo) \in Nat /\ Len(run.todo) > 0 /\ 1 \in 1..Len(run.todo)
      /\ (Len(run.todo) # 1 => Tail(run.todo) # <<>>)
      /\ \A n \in 1..Len(Tail(run.todo)) :
           n + 1 \in 1..Len(run.todo) /\ Tail(run.todo)[n] = run.todo[n + 1]
      /\ \A m, n \in 1..Len(run.todo) : run.todo[m].s = run.todo[n].s => m = n
  BY <1>1, CurrentFacts
<1>3. /\ hardware'[c.s] = c.v \/ (c.s = Mode /\ history'.astray)
      /\ \A s \in Setting : s # c.s => hardware'[s] = hardware[s]
      /\ c.s # Mode => history'.astray = history.astray
  BY <1>2
<1>4. /\ Len(run.todo) + Len(run.done) <= 2 /\ Len(run.done) < 2
      /\ \A m \in 1..Len(run.todo), n \in 1..Len(run.done) : run.todo[m].s # run.done[n].s
      /\ \A n \in 1..Len(run.done) : run.done[n].s # c.s
      /\ run.done \in Writes /\ Len(run.done) \in Nat
      /\ \A n \in 1..Len(run.done) : run.done[n] \in Write /\ run.done[n].s \in Setting
  <2>1. /\ Len(run.todo) + Len(run.done) <= 2
        /\ \A m \in 1..Len(run.todo), n \in 1..Len(run.done) : run.todo[m].s # run.done[n].s
    BY <1>1 DEF IInv, WritesApart
  <2>2. /\ run.done \in Writes /\ Len(run.done) \in Nat
        /\ \A n \in 1..Len(run.done) : run.done[n] \in Write /\ run.done[n].s \in Setting
    BY DoneFacts
  <2>3. Len(run.done) < 2
    <3>1. /\ Len(run.todo) \in Nat /\ Len(run.todo) > 0 /\ Len(run.done) \in Nat
          /\ Len(run.todo) + Len(run.done) <= 2
      BY <1>2, <2>1, <2>2
    <3> QED BY <3>1, LessThanTwo
  <2> QED BY <1>2, <2>1, <2>2, <2>3
<1>5. /\ Append(run.done, c) \in Writes /\ Len(Append(run.done, c)) = Len(run.done) + 1
      /\ \A n \in 1..Len(run.done) : Append(run.done, c)[n] = run.done[n]
      /\ Append(run.done, c)[Len(run.done) + 1] = c
  BY <1>2, <1>4, WritesAppend
<1>6. /\ run' \in Run /\ run'.done = Append(run.done, c) /\ run'.todo = Tail(run.todo)
      /\ run'.kind = run.kind /\ run'.orig = run.orig /\ run'.failed = "no"
      /\ run'.pc = IF Len(run.todo) = 1 THEN "load" ELSE "write"
  <2>1. run.pc = "check" => Len(run.todo) = 1
    BY DEF IInv, ModeIsAlone
  <2>2. /\ run' = [run EXCEPT !.todo = Tail(run.todo), !.done = Append(run.done, c),
                               !.failed = "no",
                               !.pc = IF Len(run.todo) = 1 THEN "load" ELSE "write"]
        /\ (IF Len(run.todo) = 1 THEN "load" ELSE "write") \in {"load", "write"}
    BY <1>1, <1>2, <2>1 DEF Step, Run
  <2> QED BY <1>1, <1>2, <1>5, <2>2 DEF Run
<1>7. RunFits'
  BY <1>1, <1>6 DEF RunFits
<1>8. WritesApart'
  <2>1. Len(run'.todo) + Len(run'.done) <= 2
    <3>1. Len(run'.todo) = Len(run.todo) - 1 /\ Len(run'.done) = Len(run.done) + 1
      BY <1>2, <1>5, <1>6
    <3>2. /\ Len(run.todo) \in Nat /\ Len(run.todo) > 0 /\ Len(run.done) \in Nat
          /\ Len(run.todo) + Len(run.done) <= 2
      BY <1>2, <1>4
    <3> QED BY <3>1, <3>2, LessThanTwo
  <2>2. ASSUME NEW m \in 1..Len(run'.todo), NEW n \in 1..Len(run'.done)
        PROVE  run'.todo[m].s # run'.done[n].s
    <3>1. m + 1 \in 1..Len(run.todo) /\ run'.todo[m] = run.todo[m + 1] /\ m + 1 # 1
      BY <1>2, <1>6
    <3>2. CASE n \in 1..Len(run.done)
      BY <1>4, <1>5, <1>6, <3>1, <3>2
    <3>3. CASE n = Len(run.done) + 1
      BY <1>2, <1>5, <1>6, <3>1, <3>3
    <3> QED BY <1>4, <1>5, <1>6, <3>2, <3>3
  <2> QED BY <1>2, <1>6, <2>1, <2>2 DEF WritesApart
<1>9. (OriginalsKnown /\ ModeIsAlone)'
  <2>1. run.kind = "limits" => run.pc = "write"
    BY DEF IInv, ModeIsAlone
  <2>2. OriginalsKnown'
    BY <1>1, <1>6, <2>1 DEF IInv, OriginalsKnown
  <2>3. ASSUME run.kind = "limits", NEW n \in 1..Len(run'.done)
        PROVE  run'.done[n].s # Mode
    <3>1. CASE n \in 1..Len(run.done)
      BY <1>5, <1>6, <2>3, <3>1 DEF IInv, ModeIsAlone
    <3>2. CASE n = Len(run.done) + 1
      BY <1>2, <1>5, <1>6, <2>1, <2>3, <3>2 DEF IInv, ModeIsAlone
    <3> QED BY <1>4, <1>5, <1>6, <3>1, <3>2
  <2>4. ASSUME run.kind = "limits", NEW m \in 1..Len(run'.todo)
        PROVE  run'.todo[m].s # Mode
    BY <1>2, <1>6, <2>1, <2>4 DEF IInv, ModeIsAlone
  <2> QED BY <1>6, <2>2, <2>3, <2>4 DEF ModeIsAlone
<1>10. ConfirmedIsThere'
  <2>1. ASSUME NEW n \in 1..Len(run'.done)
        PROVE  \/ run'.done[n].s = Mode /\ history'.astray
               \/ hardware'[run'.done[n].s] = run'.done[n].v
    <3>1. CASE n \in 1..Len(run.done)
      <4>1. Astray(run.done[n]) \/ hardware[run.done[n].s] = run.done[n].v
        BY <1>1, <3>1 DEF IInv, ConfirmedIsThere
      <4>2. Astray(run.done[n]) => c.s # Mode
        BY <1>4, <3>1 DEF Astray
      <4> QED BY <1>3, <1>4, <1>5, <1>6, <3>1, <4>1, <4>2 DEF Astray
    <3>2. CASE n = Len(run.done) + 1
      BY <1>3, <1>5, <1>6, <3>2 DEF Astray
    <3> QED BY <1>4, <1>5, <1>6, <3>1, <3>2
  <2>2. run'.pc # "loaded"
    BY <1>6
  <2> QED BY <2>1, <2>2 DEF ConfirmedIsThere, Astray
<1>11. SaveIsShown'
  <2>1. ASSUME run.kind = "save", NEW n \in 1..Len(run'.todo)
        PROVE  run'.todo[n] = [s |-> Curve, v |-> bloc'.shown[Curve]]
    BY <1>1, <1>2, <1>6, <2>1 DEF IInv, SaveIsShown
  <2>2. ASSUME run.kind = "save", NEW n \in 1..Len(run'.done)
        PROVE  run'.done[n] = [s |-> Curve, v |-> bloc'.shown[Curve]]
    <3>1. c = [s |-> Curve, v |-> bloc.shown[Curve]]
      BY <1>2, <2>2 DEF IInv, SaveIsShown
    <3>2. CASE n \in 1..Len(run.done)
      BY <1>1, <1>5, <1>6, <2>2, <3>2 DEF IInv, SaveIsShown
    <3>3. CASE n = Len(run.done) + 1
      BY <1>1, <1>5, <1>6, <3>1, <3>3
    <3> QED BY <1>4, <1>5, <1>6, <3>2, <3>3
  <2> QED BY <1>6, <2>1, <2>2 DEF SaveIsShown
<1>12. bloc.notice = {} /\ history'.restored = {}
  BY <1>1 DEF IInv, NoticeWaits
<1>13. (NoticeIsRead /\ RollsBack /\ TodoIsOriginal /\ LateIsApart)'
  BY <1>1, <1>6, <1>12 DEF NoticeIsRead, RollsBack, TodoIsOriginal, LateIsApart
<1>14. NoticeWaits'
  <2>1. ASSUME ~access.open, NEW n \in 1..Len(run'.done)
        PROVE  run'.done[n].s = Mode
    <3>1. c.s = Mode
      BY <1>2, <2>1
    <3>2. CASE n \in 1..Len(run.done)
      BY <1>1, <1>5, <1>6, <2>1, <3>2 DEF IInv, NoticeWaits
    <3>3. CASE n = Len(run.done) + 1
      BY <1>5, <1>6, <3>1, <3>3
    <3> QED BY <1>4, <1>5, <1>6, <3>2, <3>3
  <2>2. access.late # {} => ~access.open
    BY DEF IInv, NoticeWaits
  <2> QED BY <1>1, <1>12, <2>1, <2>2 DEF NoticeWaits
<1>15. SuccessIsShown' /\ FailedBatchIsRestored'
  BY <1>1, <1>12 DEF SuccessIsShown, FailedBatchIsRestored
<1>16. TypeOK' /\ QueueFits' /\ EditsAreKept'
  BY <1>1, <1>6, ElsewhereKeeps DEF IInv, TypeOK
<1> QED BY <1>7, <1>8, <1>9, <1>10, <1>11, <1>13, <1>14, <1>15, <1>16 DEF IInv

LEMMA WriteSucceedsKeeps ==
  ASSUME IInv, WriteSucceeds
  PROVE  IInv'
<1> DEFINE b == history.astray /\ Current.s # Mode
<1>1. /\ UNCHANGED <<access, bloc>> /\ Elsewhere /\ run.pc = "write" /\ access.open
      /\ Step(Append(run.done, Current), "no") /\ hardware' = With(Current)
      /\ history' = [history EXCEPT !.astray = b] /\ b \in BOOLEAN
      /\ Current.s # Mode => b = history.astray
  BY DEF WriteSucceeds, IInv, TypeOK, History
<1> HIDE DEF b
<1>2. /\ history' \in History /\ history'.unsaved = history.unsaved
      /\ history'.restored = history.restored /\ history'.astray = b
  BY <1>1 DEF IInv, TypeOK, History
<1>3. /\ hardware' \in [Setting -> Value] /\ hardware'[Current.s] = Current.v
      /\ \A s \in Setting : s # Current.s => hardware'[s] = hardware[s]
  BY <1>1, CurrentFacts, WithFacts
<1> QED BY <1>1, <1>2, <1>3, ConfirmKeeps

\* The mode is there, was not there, or could not be read.
LEMMA CheckedKeeps ==
  ASSUME IInv, Checked
  PROVE  IInv'
<1>1. UNCHANGED <<hardware, access, bloc>> /\ Elsewhere /\ run.pc = "check" /\ run \in Run
  BY DEF Checked, IInv, TypeOK
<1>2. /\ Current.s = Mode /\ run.kind = "set" /\ run.done = <<>> /\ run.todo # <<>>
      /\ Current \in Write /\ hardware \in [Setting -> Value]
  BY <1>1, CurrentFacts DEF IInv, ModeIsAlone, TypeOK
<1>3. CASE run' = [run EXCEPT !.pc = "write"] /\ UNCHANGED history
  <2>1. /\ run' \in Run /\ run'.pc = "write" /\ run'.kind = "set" /\ run'.todo = run.todo
        /\ run'.done = <<>> /\ run'.failed = run.failed
    BY <1>1, <1>2, <1>3 DEF Run
  <2>2. RunInv'
    BY <1>1, <1>2, <1>3, <2>1, ToWriteKeeps
  <2>3. SuccessIsShown' /\ FailedBatchIsRestored'
    BY <1>1, <1>3 DEF IInv, SuccessIsShown, FailedBatchIsRestored
  <2>4. TypeOK' /\ QueueFits' /\ EditsAreKept'
    BY <1>1, <1>2, <1>3, <2>1, ElsewhereKeeps DEF IInv, TypeOK
  <2> QED BY <2>2, <2>3, <2>4 DEF IInv, RunInv
<1>4. ASSUME NEW readable \in BOOLEAN, readable => hardware[Mode] = Current.v,
             Step(Append(run.done, Current), "no"),
             history' = [history EXCEPT !.astray = ~readable]
      PROVE  IInv'
  <2>1. /\ history' \in History /\ history'.unsaved = history.unsaved
        /\ history'.restored = history.restored /\ history'.astray = ~readable
    BY <1>4 DEF IInv, TypeOK, History
  <2> QED BY <1>1, <1>2, <1>4, <2>1, ConfirmKeeps
<1> QED BY <1>3, <1>4 DEF Checked

LEMMA DaemonSetsKeeps ==
  ASSUME IInv, DaemonSets
  PROVE  IInv'
<1> DEFINE pc == IF Current.v \in Standard THEN "check" ELSE "write"
<1>1. /\ UNCHANGED <<access, bloc, history>> /\ Elsewhere /\ run.pc = "daemon" /\ run \in Run
      /\ run' = [run EXCEPT !.pc = pc] /\ pc \in {"check", "write"}
      /\ hardware' \in {hardware, With(Profile(ProfileOf(Current.v)))}
  BY DEF DaemonSets, IInv, TypeOK
<1> HIDE DEF pc
<1>2. /\ run.kind = "set" /\ run.done = <<>> /\ run.todo # <<>> /\ bloc.notice = {}
      /\ history.restored = {} /\ history \in History
  BY <1>1 DEF IInv, ModeIsAlone, WritesApart, NoticeWaits, TypeOK
<1>3. hardware' \in [Setting -> Value]
  <2>1. Current \in Write
    BY <1>1, CurrentFacts
  <2>2. Profile(ProfileOf(Current.v)) \in Write
    BY <2>1, ProfileFacts DEF Write
  <2> QED BY <1>1, <2>2, WithFacts DEF IInv, TypeOK
<1>4. /\ run' \in Run /\ run'.pc = pc /\ run'.kind = "set" /\ run'.todo = run.todo
      /\ run'.done = <<>> /\ run'.failed = run.failed
  BY <1>1, <1>2 DEF Run
<1>5. RunInv'
  BY <1>1, <1>2, <1>4, ToWriteKeeps
<1>6. SuccessIsShown' /\ FailedBatchIsRestored'
  BY <1>1, <1>2 DEF SuccessIsShown, FailedBatchIsRestored
<1>7. TypeOK' /\ QueueFits' /\ EditsAreKept'
  BY <1>1, <1>2, <1>3, <1>4, ElsewhereKeeps DEF IInv, TypeOK
<1> QED BY <1>5, <1>6, <1>7 DEF IInv, RunInv

\* What a write that is not confirmed leaves.
LEMMA UnconfirmedFacts ==
  ASSUME IInv, NEW w \in Write, Unconfirmed(w)
  PROVE  /\ hardware' \in [Setting -> Value]
         /\ \A s \in Setting : s # w.s => hardware'[s] = hardware[s]
         /\ access' \in Access
         /\ access'.late # {} => ~access'.open
         /\ access'.late \in {access.late, {}, {w}}
         /\ access'.late = access.late /\ access.late # {} => ~access.open
         /\ hardware' # hardware => access.open
<1>1. /\ hardware \in [Setting -> Value] /\ access \in Access
      /\ access.late # {} => ~access.open
  BY DEF IInv, TypeOK, NoticeWaits
<1>2. CASE UNCHANGED <<hardware, access>>
  BY <1>1, <1>2
<1>3. CASE access.open /\ hardware' = With(w) /\ UNCHANGED access
  BY <1>1, <1>3, WithFacts
<1>4. ASSUME NEW late \in {{}, {w}}, UNCHANGED hardware,
             access' = [access EXCEPT !.open = FALSE, !.late = late]
      PROVE  /\ access' \in Access /\ access'.late = late /\ ~access'.open
             /\ UNCHANGED hardware
  BY <1>1, <1>4 DEF Access
<1> QED BY <1>1, <1>2, <1>3, <1>4 DEF Unconfirmed

\* A handler that ended.
LEMMA IdleKeeps ==
  ASSUME run' = Idle,
         access'.late # {} => ~access'.open,
         ~access'.open => \A w \in bloc'.notice : w.s = Mode,
         LateIsApart'
  PROVE  RunInv' /\ run' \in Run
<1>1. /\ run' \in Run /\ run'.kind = "started" /\ run'.pc = "idle" /\ run'.todo = <<>>
      /\ run'.done = <<>> /\ run'.failed = "no"
  BY IdleFacts
<1>2. Len(<<>>) = 0
  OBVIOUS
<1>3. (RunFits /\ WritesApart /\ OriginalsKnown /\ ModeIsAlone /\ SaveIsShown /\ TodoIsOriginal)'
  BY <1>1 DEF RunFits, WritesApart, OriginalsKnown, ModeIsAlone, SaveIsShown, TodoIsOriginal
<1>4. (ConfirmedIsThere /\ RollsBack)'
  BY <1>1, <1>2 DEF ConfirmedIsThere, RollsBack
<1>5. (NoticeIsRead /\ NoticeWaits)'
  BY <1>1 DEF NoticeIsRead, NoticeWaits
<1> QED BY <1>1, <1>3, <1>4, <1>5 DEF RunInv

\* A single write that failed is reported.
LEMMA ReportKeeps ==
  ASSUME IInv, Report, run.pc \in {"daemon", "write"}, hardware' \in [Setting -> Value],
         access' \in Access, access'.late # {} => ~access'.open
  PROVE  IInv'
<1>1. /\ run' = Idle /\ UNCHANGED history /\ Elsewhere
      /\ bloc.notice = {} /\ history.restored = {}
  BY DEF Report, IInv, NoticeWaits
<1>2. /\ bloc' \in Bloc /\ bloc'.notice = {} /\ bloc'.shown = bloc.shown /\ bloc'.dirty = bloc.dirty
  BY <1>1 DEF Report, IInv, TypeOK, Bloc
<1>3. RunInv' /\ run' \in Run
  <2>1. LateIsApart'
    BY <1>1 DEF LateIsApart
  <2> QED BY <1>1, <1>2, <2>1, IdleKeeps
<1>4. TypeOK' /\ QueueFits'
  <2>1. UNCHANGED <<page, queue, history>>
    BY <1>1 DEF Elsewhere
  <2> QED BY <1>2, <1>3, <2>1 DEF IInv, TypeOK, QueueFits
<1>5. Properties'
  BY <1>1, <1>2 DEF IInv, Properties, SuccessIsShown, FailedBatchIsRestored, EditsAreKept
<1> QED BY <1>3, <1>4, <1>5 DEF IInv, RunInv, Properties

LEMMA SingleFailsKeeps ==
  ASSUME IInv, SingleFails
  PROVE  IInv'
<1>1. Report /\ run.pc = "write" /\ Unconfirmed(Current)
  BY DEF SingleFails
<1>2. /\ hardware' \in [Setting -> Value] /\ access' \in Access
      /\ access'.late # {} => ~access'.open
  BY <1>1, CurrentFacts, UnconfirmedFacts
<1> QED BY <1>1, <1>2, ReportKeeps

LEMMA DaemonFailsKeeps ==
  ASSUME IInv, DaemonFails
  PROVE  IInv'
<1>1. Report /\ run.pc = "daemon" /\ Current \in Write
  BY CurrentFacts DEF DaemonFails
<1>2. PICK p \in Standard : p = ProfileOf(Current.v)
  BY <1>1, ProfileFacts DEF Write
<1>3. /\ access \in Access /\ (access.late # {} => ~access.open)
      /\ hardware \in [Setting -> Value] /\ Profile(p) \in Write
  BY PendingFacts DEF IInv, TypeOK, NoticeWaits
<1>4. \/ hardware' \in {hardware, With(Profile(p))} /\ UNCHANGED access
      \/ /\ access.daemon[p] < MaxLate
         /\ access' = [access EXCEPT !.daemon[p] = access.daemon[p] + 1]
         /\ UNCHANGED hardware
  BY <1>2, <1>3 DEF DaemonFails, Access
<1>5. CASE hardware' \in {hardware, With(Profile(p))} /\ UNCHANGED access
  BY <1>1, <1>2, <1>3, <1>5, WithFacts, ReportKeeps
<1>6. CASE /\ access.daemon[p] < MaxLate
           /\ access' = [access EXCEPT !.daemon[p] = access.daemon[p] + 1]
           /\ UNCHANGED hardware
  <2>1. access.daemon[p] + 1 \in 0..MaxLate
    BY <1>2, <1>3, <1>6, ConstantsAssumption DEF Access
  <2>2. access' \in Access /\ access'.late = access.late /\ access'.open = access.open
    BY <1>2, <1>3, <1>6, <2>1 DEF Access
  <2> QED BY <1>1, <1>3, <1>6, <2>2, ReportKeeps
<1> QED BY <1>4, <1>5, <1>6

\* A batch that failed has changed nothing else than what it was about.
LEMMA BatchFailsKeeps ==
  ASSUME IInv, BatchFails
  PROVE  IInv'
<1> DEFINE c == run.todo[1]
<1>1. /\ UNCHANGED <<bloc, history>> /\ Elsewhere /\ run.pc = "write" /\ run.kind = "limits"
      /\ run.failed = "no" /\ run \in Run /\ bloc.notice = {} /\ history.restored = {}
      /\ run.orig \in Known /\ history \in History
  BY DEF BatchFails, IInv, WritesApart, OriginalsKnown, NoticeWaits, TypeOK
<1>a. run.done # <<>> => access.open
  <2>1. ASSUME run.done # <<>>, ~access.open
        PROVE  FALSE
    <3>1. 1 \in 1..Len(run.done)
      BY <2>1, DoneFacts
    <3> QED BY <1>1, <2>1, <3>1 DEF IInv, NoticeWaits, ModeIsAlone
  <2> QED BY <2>1
<1>2. c \in Write /\ Current = c /\ \A n \in 1..Len(run.done) : run.done[n].s # c.s
  <2>1. c \in Write /\ Current = c /\ 1 \in 1..Len(run.todo)
    BY <1>1, CurrentFacts
  <2> QED BY <1>1, <2>1 DEF IInv, WritesApart
<1>3. /\ hardware' \in [Setting -> Value]
      /\ access' \in Access
      /\ access'.late # {} => ~access'.open
      /\ access'.late \in {access.late, {}, {c}}
      /\ access.late # {} => ~access.open
  <2>1. Unconfirmed(c)
    BY <1>2 DEF BatchFails
  <2> QED BY <1>2, <2>1, UnconfirmedFacts DEF IInv, NoticeWaits
<1>4. /\ run'.kind = "limits" /\ run'.failed = "restored" /\ run'.done = run.done
      /\ run'.orig = run.orig /\ run'.read = run.read /\ run'.todo = RollBack
      /\ run'.pc = IF run.done = <<>> THEN "load" ELSE "undo"
  BY <1>1 DEF BatchFails, Run
<1>5. run.done = <<>> => RollBack \in Writes
  <2>1. ASSUME run.done = <<>>
        PROVE  RollBack = <<>>
    <3> DEFINE o == [n \in DOMAIN run.done |-> Original(run.done[n])]
    <3>1. DOMAIN <<>> = {}
      OBVIOUS
    <3>2. o = <<>>
      BY <2>1, <3>1
    <3>3. RollBack = Reverse(o)
      BY DEF RollBack
    <3>4. Reverse(<<>>) = <<>>
      BY DEF Reverse
    <3> QED BY <3>2, <3>3, <3>4
  <2> QED BY <2>1, WritesSmall
<1>6. /\ RollBack \in Writes
      /\ run.done # <<>> =>
           /\ RollBack # <<>>
           /\ \A n \in 1..Len(RollBack) : RollBack[n].v = run.orig[RollBack[n].s]
           /\ \A n \in 1..Len(run.done) : \E m \in 1..Len(RollBack) : RollBack[m].s = run.done[n].s
  BY <1>1, <1>5, DoneFacts, RollBackFacts
<1>7. run' \in Run
  <2>1. run' = [run EXCEPT !.failed = "restored", !.todo = RollBack,
                           !.pc = IF run.done = <<>> THEN "load" ELSE "undo"]
    BY DEF BatchFails
  <2>2. (IF run.done = <<>> THEN "load" ELSE "undo") \in {"load", "undo"}
    OBVIOUS
  <2> QED BY <1>1, <1>6, <2>1, <2>2 DEF Run
<1>8. (RunFits /\ OriginalsKnown /\ ModeIsAlone /\ ConfirmedIsThere /\ SaveIsShown)'
  BY <1>1, <1>4 DEF IInv, RunFits, OriginalsKnown, ModeIsAlone, ConfirmedIsThere, SaveIsShown
<1>9. (WritesApart /\ TodoIsOriginal)'
  BY <1>4, <1>6 DEF WritesApart, TodoIsOriginal
<1>10. RollsBack'
  <2>1. ASSUME NEW n \in 1..Len(run.done)
        PROVE  /\ run.done # <<>>
               /\ \E m \in 1..Len(RollBack) : RollBack[m].s = run.done[n].s
               /\ \A l \in access'.late : l.s # run.done[n].s
    <3>1. run.done # <<>>
      BY DoneFacts
    <3>2. \A l \in access'.late : l = c
      BY <1>1, <1>a, <1>3, <3>1
    <3> QED BY <1>2, <1>6, <3>1, <3>2
  <2> QED BY <1>4, <2>1 DEF RollsBack
<1>11. (NoticeIsRead /\ NoticeWaits /\ LateIsApart)'
  BY <1>1, <1>3, <1>4 DEF NoticeIsRead, NoticeWaits, LateIsApart
<1>12. SuccessIsShown' /\ FailedBatchIsRestored'
  BY <1>1 DEF SuccessIsShown, FailedBatchIsRestored
<1>13. TypeOK' /\ QueueFits' /\ EditsAreKept'
  BY <1>1, <1>3, <1>7, ElsewhereKeeps
<1> QED BY <1>8, <1>9, <1>10, <1>11, <1>12, <1>13 DEF IInv

LEMMA UndoSucceedsKeeps ==
  ASSUME IInv, UndoSucceeds
  PROVE  IInv'
<1> DEFINE c == run.todo[1]
<1>1. /\ UNCHANGED <<access, bloc, history>> /\ Elsewhere /\ run.pc = "undo" /\ run.kind = "limits"
      /\ run.failed # "no" /\ run \in Run /\ bloc.notice = {} /\ history.restored = {}
  BY DEF UndoSucceeds, IInv, RunFits, NoticeWaits, TypeOK
<1>2. /\ c \in Write /\ Current = c /\ Tail(run.todo) \in Writes /\ 1 \in 1..Len(run.todo)
      /\ Len(run.todo) \in Nat /\ Len(Tail(run.todo)) = Len(run.todo) - 1
      /\ (Len(run.todo) # 1 => Tail(run.todo) # <<>>)
      /\ \A n \in 1..Len(Tail(run.todo)) :
           n + 1 \in 1..Len(run.todo) /\ Tail(run.todo)[n] = run.todo[n + 1]
  BY <1>1, CurrentFacts
<1>3. c.v = run.orig[c.s]
  BY <1>1, <1>2 DEF IInv, TodoIsOriginal
<1>4. /\ hardware' \in [Setting -> Value] /\ hardware'[c.s] = run.orig[c.s]
      /\ \A s \in Setting : s # c.s => hardware'[s] = hardware[s]
  BY <1>2, <1>3, WithFacts DEF UndoSucceeds
<1>5. /\ run'.todo = Tail(run.todo) /\ run'.done = run.done /\ run'.failed = run.failed
      /\ run'.kind = run.kind /\ run'.orig = run.orig
      /\ run'.pc = IF Len(run.todo) = 1 THEN "load" ELSE "undo"
      /\ run' \in Run
  <2>1. run' = [run EXCEPT !.todo = Tail(run.todo), !.done = run.done, !.failed = run.failed,
                           !.pc = IF Len(run.todo) = 1 THEN "load" ELSE "undo"]
    BY <1>1 DEF UndoSucceeds, Step, Run
  <2>2. (IF Len(run.todo) = 1 THEN "load" ELSE "undo") \in {"load", "undo"}
    OBVIOUS
  <2> QED BY <1>1, <1>2, <2>1, <2>2 DEF Run
<1>6. (RunFits /\ OriginalsKnown /\ ModeIsAlone /\ ConfirmedIsThere /\ SaveIsShown /\ NoticeIsRead)'
  BY <1>1, <1>5
     DEF IInv, RunFits, OriginalsKnown, ModeIsAlone, ConfirmedIsThere, SaveIsShown, NoticeIsRead
<1>7. (WritesApart /\ TodoIsOriginal)'
  BY <1>1, <1>2, <1>5 DEF IInv, WritesApart, TodoIsOriginal
<1>8. RollsBack'
  <2> SUFFICES ASSUME run.failed = "restored", NEW n \in 1..Len(run.done)
               PROVE  LET w == run.done[n]
                      IN  /\ \/ hardware'[w.s] = run.orig[w.s]
                             \/ /\ run'.pc = "undo"
                                /\ \E m \in 1..Len(run'.todo) : run'.todo[m].s = w.s
                          /\ \A l \in access'.late : l.s # w.s
    BY <1>5 DEF RollsBack
  <2> DEFINE w == run.done[n]
  <2>1. w.s \in Setting
    BY DoneFacts
  <2>2. /\ \/ hardware[w.s] = run.orig[w.s]
           \/ \E m \in 1..Len(run.todo) : run.todo[m].s = w.s
        /\ \A l \in access.late : l.s # w.s
    BY DEF IInv, RollsBack
  <2>3. CASE w.s = c.s
    BY <1>1, <1>4, <2>2, <2>3
  <2>4. CASE w.s # c.s /\ hardware[w.s] = run.orig[w.s]
    BY <1>1, <1>4, <2>1, <2>2, <2>4
  <2>5. CASE w.s # c.s /\ \E m \in 1..Len(run.todo) : run.todo[m].s = w.s
    <3>1. PICK m \in 1..Len(run.todo) : run.todo[m].s = w.s
      BY <2>5
    <3>2. m # 1 /\ m - 1 \in 1..Len(Tail(run.todo)) /\ Len(run.todo) # 1 /\ (m - 1) + 1 = m
      BY <1>2, <2>5, <3>1
    <3>3. Tail(run.todo)[m - 1] = run.todo[m]
      BY <1>2, <3>2
    <3>4. run'.pc = "undo" /\ \E k \in 1..Len(run'.todo) : run'.todo[k].s = w.s
      BY <1>5, <3>1, <3>2, <3>3
    <3> QED BY <1>1, <2>2, <3>4
  <2> QED BY <2>2, <2>3, <2>4, <2>5
<1>9. (NoticeWaits /\ LateIsApart)'
  BY <1>1, <1>5 DEF IInv, NoticeWaits, LateIsApart
<1>10. SuccessIsShown' /\ FailedBatchIsRestored'
  BY <1>1 DEF SuccessIsShown, FailedBatchIsRestored
<1>11. TypeOK' /\ QueueFits' /\ EditsAreKept'
  BY <1>1, <1>4, <1>5, ElsewhereKeeps DEF IInv, TypeOK
<1> QED BY <1>6, <1>7, <1>8, <1>9, <1>10, <1>11 DEF IInv

LEMMA UndoFailsKeeps ==
  ASSUME IInv, UndoFails
  PROVE  IInv'
<1>1. /\ UNCHANGED <<bloc, history>> /\ Elsewhere /\ run.pc = "undo" /\ run.kind = "limits"
      /\ run \in Run /\ bloc.notice = {} /\ history.restored = {} /\ history \in History
  BY DEF UndoFails, IInv, RunFits, NoticeWaits, TypeOK
<1>2. /\ Current \in Write /\ Tail(run.todo) \in Writes /\ Len(run.todo) \in Nat
      /\ Len(Tail(run.todo)) = Len(run.todo) - 1
      /\ (Len(run.todo) # 1 => Tail(run.todo) # <<>>)
      /\ \A n \in 1..Len(Tail(run.todo)) :
           n + 1 \in 1..Len(run.todo) /\ Tail(run.todo)[n] = run.todo[n + 1]
  BY <1>1, CurrentFacts
<1>3. /\ hardware' \in [Setting -> Value]
      /\ access' \in Access
      /\ access'.late # {} => ~access'.open
  BY <1>2, UnconfirmedFacts DEF UndoFails
<1>4. /\ run'.todo = Tail(run.todo) /\ run'.done = run.done /\ run'.failed = "unrestored"
      /\ run'.kind = run.kind /\ run'.orig = run.orig
      /\ run'.pc = IF Len(run.todo) = 1 THEN "load" ELSE "undo"
      /\ run' \in Run
  <2>1. run' = [run EXCEPT !.todo = Tail(run.todo), !.done = run.done, !.failed = "unrestored",
                           !.pc = IF Len(run.todo) = 1 THEN "load" ELSE "undo"]
    BY <1>1 DEF UndoFails, Step, AfterUndoFailure, Run
  <2>2. (IF Len(run.todo) = 1 THEN "load" ELSE "undo") \in {"load", "undo"}
    OBVIOUS
  <2> QED BY <1>1, <1>2, <2>1, <2>2 DEF Run
<1>5. (RunFits /\ OriginalsKnown /\ ModeIsAlone /\ ConfirmedIsThere /\ SaveIsShown /\ NoticeIsRead)'
  BY <1>1, <1>4
     DEF IInv, RunFits, OriginalsKnown, ModeIsAlone, ConfirmedIsThere, SaveIsShown, NoticeIsRead
<1>6. (WritesApart /\ TodoIsOriginal)'
  BY <1>1, <1>2, <1>4 DEF IInv, WritesApart, TodoIsOriginal
<1>7. (RollsBack /\ NoticeWaits /\ LateIsApart)'
  BY <1>1, <1>3, <1>4 DEF RollsBack, NoticeWaits, LateIsApart
<1>8. SuccessIsShown' /\ FailedBatchIsRestored'
  BY <1>1 DEF SuccessIsShown, FailedBatchIsRestored
<1>9. TypeOK' /\ QueueFits' /\ EditsAreKept'
  BY <1>1, <1>3, <1>4, ElsewhereKeeps
<1> QED BY <1>5, <1>6, <1>7, <1>8, <1>9 DEF IInv

\* Something that was given up sets one setting late: a mode, which goes astray,
\* or what a backend wrote that closed control access.
LEMMA LateKeeps ==
  ASSUME IInv, NEW w \in Write, UNCHANGED <<bloc, run>>, Elsewhere,
         hardware' \in {hardware, With(w)}, access' \in Access, access'.open = access.open,
         access'.late \subseteq access.late,
         w.s = Mode \/ w \in access.late,
         history' \in History, history'.unsaved = history.unsaved,
         history'.restored = history.restored,
         w.s = Mode => history'.astray, history.astray => history'.astray
  PROVE  IInv'
<1>1. /\ UNCHANGED <<bloc, run>> /\ Elsewhere /\ run \in Run /\ history \in History
      /\ history'.restored = history.restored /\ bloc \in Bloc
      /\ \A v \in Write : Astray(v) => Astray(v)'
      /\ \A v \in Write : v.s = w.s /\ w.s = Mode => Astray(v)'
  BY DEF IInv, TypeOK, Astray
<1>2. /\ hardware' \in [Setting -> Value]
      /\ \A s \in Setting : s # w.s => hardware'[s] = hardware[s]
  BY WithFacts DEF IInv, TypeOK
<1>3. w.s # Mode => ~access.open
  BY DEF IInv, NoticeWaits
<1>4. \A r \in history.restored : w.s # r.s
  BY DEF IInv, LateIsApart
<1>5. (RunFits /\ WritesApart /\ OriginalsKnown /\ ModeIsAlone /\ SaveIsShown /\ TodoIsOriginal)'
  <2>1. bloc' = bloc /\ run' = run
    OBVIOUS
  <2>2. RunFits' /\ WritesApart'
    BY <2>1 DEF IInv, RunFits, WritesApart
  <2>3. OriginalsKnown' /\ ModeIsAlone'
    BY <2>1 DEF IInv, OriginalsKnown, ModeIsAlone
  <2>4. SaveIsShown' /\ TodoIsOriginal'
    BY <2>1 DEF IInv, SaveIsShown, TodoIsOriginal
  <2> QED BY <2>2, <2>3, <2>4
<1>6. ConfirmedIsThere'
  <2> SUFFICES ASSUME run.failed = "no", NEW n \in 1..Len(run.done)
               PROVE  \/ Astray(run.done[n])'
                      \/ /\ hardware'[run.done[n].s] = run.done[n].v
                         /\ run.pc = "loaded" => run.read[run.done[n].s] = run.done[n].v
    BY <1>1 DEF ConfirmedIsThere
  <2> DEFINE v == run.done[n]
  <2>1. v \in Write /\ v.s \in Setting
    BY DoneFacts
  <2>2. \/ Astray(v)
        \/ hardware[v.s] = v.v /\ (run.pc = "loaded" => run.read[v.s] = v.v)
    BY DEF IInv, ConfirmedIsThere
  <2>3. w.s # Mode => v.s = Mode
    BY <1>3 DEF IInv, NoticeWaits
  <2> QED BY <1>1, <1>2, <2>1, <2>2, <2>3
<1>7. RollsBack'
  <2> SUFFICES ASSUME run.failed = "restored", NEW n \in 1..Len(run.done)
               PROVE  /\ \/ hardware'[run.done[n].s] = run.orig[run.done[n].s]
                         \/ /\ run.pc = "undo"
                            /\ \E m \in 1..Len(run.todo) : run.todo[m].s = run.done[n].s
                      /\ \A l \in access'.late : l.s # run.done[n].s
    BY <1>1 DEF RollsBack
  <2>1. /\ \/ hardware[run.done[n].s] = run.orig[run.done[n].s]
           \/ /\ run.pc = "undo"
              /\ \E m \in 1..Len(run.todo) : run.todo[m].s = run.done[n].s
        /\ \A l \in access.late : l.s # run.done[n].s
    BY DEF IInv, RollsBack
  <2>2. run.done[n].s \in Setting /\ run.done[n].s # Mode
    BY DoneFacts DEF IInv, RunFits, ModeIsAlone
  <2> QED BY <1>2, <2>1, <2>2
<1>8. (NoticeIsRead /\ NoticeWaits /\ LateIsApart)'
  <2>1. \A v \in bloc.notice : v \in Write
    BY <1>1 DEF Bloc
  <2>2. NoticeIsRead'
    BY <1>1, <2>1 DEF IInv, NoticeIsRead
  <2> QED BY <1>1, <2>2 DEF IInv, NoticeWaits, LateIsApart
<1>9. SuccessIsShown'
  <2> SUFFICES ASSUME NEW v \in bloc.notice
               PROVE  \/ Astray(v)'
                      \/ /\ hardware'[v.s] = v.v
                         /\ bloc.shown[v.s] = v.v \/ (v.s = Curve /\ bloc.dirty)
    BY <1>1 DEF SuccessIsShown, Astray
  <2>1. v \in Write /\ v.s \in Setting
    BY <1>1 DEF Bloc, Write
  <2>2. \/ Astray(v)
        \/ /\ hardware[v.s] = v.v
           /\ bloc.shown[v.s] = v.v \/ (v.s = Curve /\ bloc.dirty)
    BY DEF IInv, SuccessIsShown, Astray
  <2>3. w.s # Mode => v.s = Mode
    BY <1>3 DEF IInv, NoticeWaits
  <2> QED BY <1>1, <1>2, <2>1, <2>2, <2>3
<1>10. FailedBatchIsRestored'
  <2>1. \A r \in history.restored : r.s \in Setting /\ hardware[r.s] = r.v /\ w.s # r.s
    BY <1>4 DEF IInv, TypeOK, History, Write, FailedBatchIsRestored
  <2> QED BY <1>1, <1>2, <2>1 DEF FailedBatchIsRestored
<1>11. TypeOK' /\ QueueFits' /\ EditsAreKept'
  BY <1>1, <1>2, ElsewhereKeeps
<1> QED BY <1>5, <1>6, <1>7, <1>8, <1>9, <1>10, <1>11 DEF IInv

LEMMA LateEndKeeps ==
  ASSUME IInv, LateEnd
  PROVE  IInv'
<1>1. /\ UNCHANGED <<bloc, run>> /\ Elsewhere /\ access \in Access /\ history \in History
      /\ access' = [access EXCEPT !.late = {}]
  BY DEF LateEnd, IInv, TypeOK
<1>2. PICK w \in access.late :
        /\ hardware' \in {hardware, With(w)}
        /\ history' = [history EXCEPT !.astray = history.astray \/ w.s = Mode]
  BY <1>1 DEF LateEnd, History
<1> DEFINE b == history.astray \/ w.s = Mode
<1>3. b \in BOOLEAN /\ history' = [history EXCEPT !.astray = b] /\ (w.s = Mode => b)
      /\ (history.astray => b)
  BY <1>2
<1> HIDE DEF b
<1>4. /\ history' \in History /\ history'.unsaved = history.unsaved
      /\ history'.restored = history.restored /\ history'.astray = b
  BY <1>1, <1>3 DEF History
<1>5. /\ access' \in Access /\ access'.open = access.open /\ access'.late = {} /\ w \in Write
  BY <1>1 DEF Access
<1> QED BY <1>1, <1>2, <1>3, <1>4, <1>5, LateKeeps

LEMMA LateModeKeeps ==
  ASSUME IInv, LateMode
  PROVE  IInv'
<1>1. access \in Access /\ history \in History
  BY DEF IInv, TypeOK
<1>2. PICK p \in Standard :
        /\ access.daemon[p] > 0 /\ hardware' \in {hardware, With(Profile(p))}
        /\ access' = [access EXCEPT !.daemon[p] = access.daemon[p] - 1]
        /\ history' = [history EXCEPT !.astray = TRUE]
        /\ UNCHANGED <<bloc, run>> /\ Elsewhere
  BY <1>1 DEF LateMode, Access
<1>3. access.daemon[p] - 1 \in 0..MaxLate
  BY <1>1, <1>2, ConstantsAssumption DEF Access
<1>4. access' \in Access /\ access'.open = access.open /\ access'.late = access.late
  BY <1>1, <1>2, <1>3 DEF Access
<1>5. /\ history' \in History /\ history'.unsaved = history.unsaved
      /\ history'.restored = history.restored /\ history'.astray
  BY <1>1, <1>2 DEF History
<1> QED BY <1>2, <1>4, <1>5, PendingFacts, LateKeeps

-----------------------------------------------------------------------------
(* The readback.                                                           *)

LEMMA ReadKeeps ==
  ASSUME IInv, Read
  PROVE  IInv'
<1>1. /\ UNCHANGED <<hardware, access, bloc, history>> /\ Elsewhere /\ run.pc = "load"
      /\ run' = [run EXCEPT !.pc = "loaded", !.read = hardware]
      /\ run \in Run /\ hardware \in [Setting -> Value]
  BY DEF Read, IInv, TypeOK
<1>2. /\ run' \in Run /\ run'.pc = "loaded" /\ run'.read = hardware /\ run'.kind = run.kind
      /\ run'.todo = run.todo /\ run'.done = run.done /\ run'.failed = run.failed
      /\ run'.orig = run.orig
  BY <1>1 DEF Run, Shown
<1>3. (RunFits /\ WritesApart /\ OriginalsKnown /\ ModeIsAlone /\ SaveIsShown /\ TodoIsOriginal)'
  BY <1>1, <1>2
     DEF IInv, RunFits, WritesApart, OriginalsKnown, ModeIsAlone, SaveIsShown, TodoIsOriginal
<1>4. ConfirmedIsThere'
  BY <1>1, <1>2 DEF IInv, ConfirmedIsThere, Astray
<1>5. NoticeIsRead'
  BY <1>1, <1>2 DEF IInv, NoticeIsRead, SuccessIsShown, Astray
<1>6. (NoticeWaits /\ RollsBack /\ LateIsApart)'
  BY <1>1, <1>2 DEF IInv, NoticeWaits, RollsBack, LateIsApart
<1>7. SuccessIsShown' /\ FailedBatchIsRestored'
  BY <1>1 DEF IInv, SuccessIsShown, FailedBatchIsRestored
<1>8. TypeOK' /\ QueueFits' /\ EditsAreKept'
  BY <1>1, <1>2, ElsewhereKeeps DEF IInv, TypeOK
<1> QED BY <1>3, <1>4, <1>5, <1>6, <1>7, <1>8 DEF IInv

LEMMA LoadIsLateKeeps ==
  ASSUME IInv, LoadIsLate
  PROVE  IInv'
<1>1. /\ UNCHANGED <<hardware, access, bloc, history>> /\ Elsewhere /\ run' = Idle
  BY DEF LoadIsLate
<1>2. /\ access'.late # {} => ~access'.open
      /\ ~access'.open => \A w \in bloc'.notice : w.s = Mode
      /\ LateIsApart'
  BY <1>1 DEF IInv, NoticeWaits, LateIsApart
<1>3. RunInv' /\ run' \in Run
  BY <1>1, <1>2, IdleKeeps
<1>4. SuccessIsShown' /\ FailedBatchIsRestored'
  BY <1>1 DEF IInv, SuccessIsShown, FailedBatchIsRestored
<1>5. TypeOK' /\ QueueFits' /\ EditsAreKept'
  BY <1>1, <1>3, ElsewhereKeeps DEF IInv, TypeOK
<1> QED BY <1>3, <1>4, <1>5 DEF IInv, RunInv

\* The handler ends with its readback or without one.
LEMMA EndKeeps ==
  ASSUME IInv, NEW loaded \in BOOLEAN, End(loaded), run.pc \in {"load", "loaded"},
         loaded => run.pc = "loaded"
  PROVE  IInv'
<1> DEFINE w(n) == run.done[n]
<1>1. /\ UNCHANGED <<hardware, access, page, queue>> /\ run' = Idle
      /\ run \in Run /\ bloc \in Bloc /\ history \in History /\ hardware \in [Setting -> Value]
      /\ Success(loaded) \in BOOLEAN
  BY DEF End, Elsewhere, IInv, TypeOK, Success
<1>2. run.done \in Seq(Write) /\ ToSet(run.done) = {w(n) : n \in 1..Len(run.done)}
  <2>1. run.done \in Seq(Write) /\ DOMAIN run.done = 1..Len(run.done)
    BY DoneFacts, WritesFacts
  <2> QED BY <2>1 DEF ToSet
<1>3. ASSUME NEW v \in ToSet(run.done)
      PROVE  \E n \in 1..Len(run.done) : v = w(n) /\ v \in Write /\ v.s \in Setting
  BY <1>2, DoneFacts
<1>4. /\ bloc'.shown = IF loaded THEN ShownAfter ELSE bloc.shown
      /\ bloc'.dirty = (bloc.dirty /\ ~(run.kind = "save" /\ Success(loaded)))
      /\ bloc'.notice = IF Success(loaded) THEN ToSet(run.done) ELSE bloc.notice
      /\ history'.unsaved =
           IF run.kind = "save" /\ Success(loaded) THEN NotRead ELSE history.unsaved
      /\ history'.restored = IF run.failed = "restored"
                             THEN {Original(v) : v \in ToSet(run.done)} ELSE history.restored
  BY <1>1 DEF End, Bloc, History
<1>5. ShownAfter \in Shown /\ \A s \in Setting :
        ShownAfter[s] = IF s = Curve /\ bloc.dirty THEN bloc.shown[s] ELSE run.read[s]
  BY <1>1 DEF ShownAfter, Shown, Run, Bloc
<1>6. ASSUME run.failed = "restored", NEW r \in history'.restored
      PROVE  /\ r \in Write /\ hardware[r.s] = r.v
             /\ r.s # Mode /\ \A l \in access.late : l.s # r.s
  <2>1. PICK v \in ToSet(run.done) : r = Original(v)
    BY <1>4, <1>6
  <2>2. PICK n \in 1..Len(run.done) : v = w(n) /\ v \in Write /\ v.s \in Setting
    BY <1>3
  <2>3. run.orig \in Known
    <3>1. run.done # <<>> /\ run.kind = "limits"
      BY <1>6, <2>2, DoneFacts DEF IInv, RunFits
    <3> QED BY <3>1 DEF IInv, OriginalsKnown
  <2>4. r = [s |-> v.s, v |-> run.orig[v.s]] /\ r \in Write
    BY <2>1, <2>2, <2>3 DEF Original, Known, Write
  <2>5. hardware[v.s] = run.orig[v.s] /\ \A l \in access.late : l.s # v.s
    BY <1>6, <2>2 DEF IInv, RollsBack
  <2>6. v.s # Mode
    BY <1>6, <2>2 DEF IInv, RunFits, ModeIsAlone
  <2> QED BY <2>4, <2>5, <2>6
<1>7. TypeOK'
  <2>1. bloc'.notice \in SUBSET Write
    BY <1>1, <1>3, <1>4 DEF Bloc
  <2>2. history'.restored \in SUBSET Write
    <3>1. CASE run.failed = "restored"
      BY <1>6, <3>1
    <3>2. CASE run.failed # "restored"
      BY <1>1, <1>4, <3>2 DEF History
    <3> QED BY <3>1, <3>2
  <2>3. bloc'.shown \in Shown
    BY <1>1, <1>4, <1>5 DEF Bloc
  <2>4. bloc' \in Bloc
    <3>1. \A sh \in Shown, nt \in SUBSET Write, ti, tp, di \in BOOLEAN :
            [bloc EXCEPT !.shown = sh, !.timer = ti, !.tickPending = tp, !.applying = FALSE,
                         !.dirty = di, !.notice = nt] \in Bloc
      BY <1>1 DEF Bloc
    <3>2. /\ (bloc.timer \/ run.kind = "started") \in BOOLEAN
          /\ (bloc.tickPending /\ run.kind # "ticked") \in BOOLEAN
          /\ (bloc.dirty /\ ~(run.kind = "save" /\ Success(loaded))) \in BOOLEAN
      OBVIOUS
    <3>3. /\ (IF loaded THEN ShownAfter ELSE bloc.shown) \in Shown
          /\ (IF Success(loaded) THEN ToSet(run.done) ELSE bloc.notice) \in SUBSET Write
      BY <1>4, <2>1, <2>3
    <3>4. bloc' = [bloc EXCEPT
            !.shown = IF loaded THEN ShownAfter ELSE bloc.shown,
            !.timer = bloc.timer \/ run.kind = "started",
            !.tickPending = bloc.tickPending /\ run.kind # "ticked",
            !.applying = FALSE,
            !.dirty = bloc.dirty /\ ~(run.kind = "save" /\ Success(loaded)),
            !.notice = IF Success(loaded) THEN ToSet(run.done) ELSE bloc.notice]
      BY <1>1 DEF End, Bloc
    <3> QED BY <3>1, <3>2, <3>3, <3>4
  <2>5. history' \in History
    <3>1. \A u \in Value \cup {NotRead}, r \in SUBSET Write :
            [history EXCEPT !.unsaved = u, !.restored = r] \in History
      BY <1>1 DEF History
    <3>2. history'.unsaved \in Value \cup {NotRead}
      BY <1>1, <1>4 DEF History
    <3>3. history' = [history EXCEPT !.unsaved = history'.unsaved, !.restored = history'.restored]
      BY <1>1 DEF End, History
    <3> QED BY <2>2, <3>1, <3>2, <3>3
  <2>6. run' \in Run
    BY <1>1, IdleFacts
  <2> QED BY <1>1, <2>4, <2>5, <2>6 DEF IInv, TypeOK
<1>8. RunInv'
  <2>1. LateIsApart'
    <3>1. CASE run.failed = "restored"
      BY <1>1, <1>6, <3>1 DEF LateIsApart
    <3>2. CASE run.failed # "restored"
      BY <1>1, <1>4, <3>2 DEF IInv, LateIsApart
    <3> QED BY <3>1, <3>2
  <2>2. ASSUME ~access'.open, NEW v \in bloc'.notice
        PROVE  v.s = Mode
    <3>1. CASE Success(loaded)
      <4>1. PICK n \in 1..Len(run.done) : v = w(n)
        BY <1>3, <1>4, <3>1
      <4> QED BY <1>1, <2>2, <3>1, <4>1 DEF IInv, NoticeWaits, Success
    <3>2. CASE ~Success(loaded)
      BY <1>1, <1>4, <2>2, <3>2 DEF IInv, NoticeWaits
    <3> QED BY <3>1, <3>2
  <2>3. access'.late # {} => ~access'.open
    BY <1>1 DEF IInv, NoticeWaits
  <2> QED BY <1>1, <2>1, <2>2, <2>3, IdleKeeps
<1>9. FailedBatchIsRestored'
  <2>1. CASE run.failed = "restored"
    BY <1>1, <1>6, <2>1 DEF FailedBatchIsRestored
  <2>2. CASE run.failed # "restored"
    BY <1>1, <1>4, <2>2 DEF IInv, FailedBatchIsRestored
  <2> QED BY <2>1, <2>2
<1>10. SuccessIsShown'
  <2>a. history'.astray = history.astray
    BY <1>1 DEF End, History
  <2> SUFFICES ASSUME NEW v \in bloc'.notice, ~Astray(v)
               PROVE  /\ hardware[v.s] = v.v
                      /\ bloc'.shown[v.s] = v.v \/ (v.s = Curve /\ bloc'.dirty)
    BY <1>1, <2>a DEF SuccessIsShown, Astray
  <2>1. CASE Success(loaded)
    <3>1. /\ loaded /\ run.pc = "loaded" /\ run.failed = "no" /\ bloc'.shown = ShownAfter
          /\ v \in ToSet(run.done)
      BY <1>4, <2>1 DEF Success
    <3>2. PICK n \in 1..Len(run.done) : v = w(n) /\ v \in Write /\ v.s \in Setting
      BY <1>3, <3>1
    <3>3. hardware[v.s] = v.v /\ run.read[v.s] = v.v
      BY <3>1, <3>2 DEF IInv, ConfirmedIsThere
    <3>4. CASE run.kind # "save"
      BY <1>4, <1>5, <3>1, <3>2, <3>3, <3>4
    <3>5. CASE run.kind = "save"
      <4>1. v = [s |-> Curve, v |-> bloc.shown[Curve]]
        BY <3>2, <3>5 DEF IInv, SaveIsShown
      <4> QED BY <1>5, <3>1, <3>2, <3>3, <4>1
    <3> QED BY <3>4, <3>5
  <2>2. CASE ~Success(loaded)
    <3>1. v \in bloc.notice /\ bloc'.dirty = bloc.dirty /\ v.s \in Setting
      BY <1>1, <1>4, <2>2 DEF Bloc, Write
    <3>2. /\ hardware[v.s] = v.v
          /\ bloc.shown[v.s] = v.v \/ (v.s = Curve /\ bloc.dirty)
          /\ run.pc = "loaded" => run.read[v.s] = v.v
      BY <3>1 DEF IInv, SuccessIsShown, NoticeIsRead, Astray
    <3>3. CASE loaded
      BY <1>4, <1>5, <3>1, <3>2, <3>3
    <3>4. CASE ~loaded
      BY <1>4, <3>1, <3>2, <3>4
    <3> QED BY <3>3, <3>4
  <2> QED BY <2>1, <2>2
<1>11. EditsAreKept'
  <2>1. ASSUME history'.unsaved # NotRead
        PROVE  bloc'.dirty /\ bloc'.shown[Curve] = history'.unsaved
    <3>1. /\ history'.unsaved = history.unsaved /\ bloc'.dirty = bloc.dirty
      BY <1>1, <1>4, <2>1 DEF Bloc
    <3>2. bloc.dirty /\ bloc.shown[Curve] = history.unsaved
      BY <2>1, <3>1 DEF IInv, EditsAreKept
    <3> QED BY <1>4, <1>5, <3>1, <3>2, ConstantsAssumption
  <2> QED BY <2>1 DEF EditsAreKept
<1>12. QueueFits'
  BY <1>1 DEF IInv, QueueFits
<1> QED BY <1>7, <1>8, <1>9, <1>10, <1>11, <1>12 DEF IInv, RunInv

-----------------------------------------------------------------------------
(* The invariant.                                                          *)

LEMMA InitInv ==
  ASSUME Init
  PROVE  IInv
<1>1. /\ run = Idle /\ access = [open |-> TRUE, late |-> {}, daemon |-> [p \in Standard |-> 0]]
      /\ bloc.notice = {} /\ history = [unsaved |-> NotRead, restored |-> {}, astray |-> FALSE]
      /\ queue = <<Plain("started")>>
  BY DEF Init
<1>2. Plain("started") \in Event /\ Fits(Plain("started"))
  BY WritesSmall DEF Plain, Event, Kinds, Fits
<1>3. /\ queue \in Seq(Event) /\ \A n \in 1..Len(queue) : queue[n] = Plain("started")
  BY <1>1, <1>2
<1>4. bloc \in Bloc /\ history \in History /\ access \in Access
  BY <1>1, ConstantsAssumption DEF Init, Bloc, History, Access, Shown, Unread
<1>5. TypeOK /\ QueueFits
  BY <1>1, <1>2, <1>3, <1>4, IdleFacts DEF Init, TypeOK, QueueFits
<1>6. Len(<<>>) = 0
  OBVIOUS
<1>7. RunFits /\ WritesApart /\ OriginalsKnown /\ ModeIsAlone /\ SaveIsShown /\ TodoIsOriginal
  BY <1>1, IdleFacts
     DEF RunFits, WritesApart, OriginalsKnown, ModeIsAlone, SaveIsShown, TodoIsOriginal
<1>8. ConfirmedIsThere /\ RollsBack
  BY <1>1, <1>6, IdleFacts DEF ConfirmedIsThere, RollsBack
<1>9. NoticeIsRead /\ NoticeWaits /\ LateIsApart
  BY <1>1, IdleFacts DEF NoticeIsRead, NoticeWaits, LateIsApart
<1>10. SuccessIsShown /\ FailedBatchIsRestored /\ EditsAreKept
  BY <1>1 DEF SuccessIsShown, FailedBatchIsRestored, EditsAreKept
<1> QED BY <1>5, <1>7, <1>8, <1>9, <1>10 DEF IInv

LEMMA StutterKeeps ==
  ASSUME IInv, UNCHANGED vars
  PROVE  IInv'
<1>1. UNCHANGED <<page, hardware, access, bloc, queue, run, history>>
  BY DEF vars
<1>2. RunInv' /\ Properties'
  BY <1>1, FrameKeeps
<1> QED BY <1>1, <1>2 DEF IInv, RunInv, Properties, TypeOK, QueueFits

LEMMA StepInv ==
  ASSUME IInv, [Next]_vars
  PROVE  IInv'
<1>1. CASE LoadEnds
  BY <1>1, EndKeeps DEF LoadEnds
<1>2. CASE LoadFails
  BY <1>2, EndKeeps DEF LoadFails
<1>3. CASE Gone \/ UNCHANGED vars
  BY <1>3, StutterKeeps DEF Gone
<1> QED BY <1>1, <1>2, <1>3, AddKeeps, TickKeeps, SkipKeeps, LoadKeeps, EditKeeps, ApplyKeeps,
           OriginalsKeeps, WriteSucceedsKeeps, SingleFailsKeeps, BatchFailsKeeps,
           DaemonSetsKeeps, DaemonFailsKeeps, CheckedKeeps, LateModeKeeps,
           UndoSucceedsKeeps, UndoFailsKeeps, LateEndKeeps, ReadKeeps, LoadIsLateKeeps,
           CloseKeeps DEF Next

\* The bloc, its handler and the bridge fit together in every reachable state.
THEOREM Invariance == Spec => []IInv
<1>1. Init => IInv
  BY InitInv
<1>2. IInv /\ [Next]_vars => IInv'
  BY StepInv
<1> QED BY <1>1, <1>2, PTL DEF Spec

\* The variables keep their types, whatever the settings, their values and the
\* number of events that may wait.
THEOREM TypeCorrect == Spec => []TypeOK
<1>1. IInv => TypeOK
  BY DEF IInv
<1> QED BY <1>1, Invariance, PTL

\* A success that is announced is in the hardware and on the page, except for a
\* power mode that was not read after it was set, or that something late has set.
THEOREM SuccessIsShownHolds == Spec => []SuccessIsShown
<1>1. IInv => SuccessIsShown
  BY DEF IInv
<1> QED BY <1>1, Invariance, PTL

\* A failed batch that reports no failed restoration has left every limit it
\* had changed as it was, and a backend that was given up cannot change it.
THEOREM FailedBatchIsRestoredHolds == Spec => []FailedBatchIsRestored
<1>1. IInv => FailedBatchIsRestored
  BY DEF IInv
<1> QED BY <1>1, Invariance, PTL

\* An edit of the fan curve stays until its own save was read back.
THEOREM EditsAreKeptHold == Spec => []EditsAreKept
<1>1. IInv => EditsAreKept
  BY DEF IInv
<1> QED BY <1>1, Invariance, PTL

=============================================================================
