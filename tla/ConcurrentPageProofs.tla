-------------------------- MODULE ConcurrentPageProofs --------------------------
(***************************************************************************)
(* Proofs about ConcurrentPage, for any number of handlers and writes.     *)
(*                                                                         *)
(* A handler that insists on a load of its own reads after its write, so   *)
(* what it read has seen the write (TaskInv), whatever other handlers load *)
(* or whose load it had to wait for.  That the writes stay within their    *)
(* bound is a count over the handlers that write (Requested).              *)
(*                                                                         *)
(* That the page does not stay busy is a liveness property; its safety     *)
(* half is OwedInv: some handler will end the busy state, and who waits    *)
(* for a load waits for one that is under way.                             *)
(***************************************************************************)
EXTENDS ConcurrentPage, FiniteSetTheorems, TLAPS

\* What handler i confirmed has happened, and was there when it read.
TaskInv(i) ==
  /\ task[i].wrote <= hardware
  /\ task[i].pc = "loaded" => task[i].wrote <= task[i].read

IInv ==
  /\ TypeOK
  /\ Requested <= MaxWrites
  /\ \A i \in Handler : TaskInv(i)

Writes(t) == t.pc = "write" /\ t.kind = "apply"
Writers == {i \in Handler : Writes(task[i])}
Late == IF access = "late" THEN 1 ELSE 0

-----------------------------------------------------------------------------
(* Counting.                                                               *)

LEMMA RequestedIs == Requested = hardware + Cardinality(Writers) + Late
BY DEF Requested, Writers, Writes, Late

LEMMA RequestedIsNext == Requested' = hardware' + Cardinality(Writers') + Late'
BY DEF Requested, Writers, Writes, Late

LEMMA ZeroCount == 0 \in Count
BY HandlerAssumption DEF Count

LEMMA WritersFinite == IsFiniteSet(Writers) /\ Cardinality(Writers) \in Nat
<1>1. Writers \subseteq Handler
  BY DEF Writers
<1>2. IsFiniteSet(Writers)
  BY <1>1, HandlerAssumption, FS_Subset
<1>. QED BY <1>2, FS_CardinalityType

LEMMA WritersFiniteNext == IsFiniteSet(Writers') /\ Cardinality(Writers') \in Nat
<1>1. Writers' \subseteq Handler
  BY DEF Writers
<1>2. IsFiniteSet(Writers')
  BY <1>1, HandlerAssumption, FS_Subset
<1>. QED BY <1>2, FS_CardinalityType

\* A handler that wrote no longer does.
LEMMA WriterEnds ==
  ASSUME NEW i \in Writers, Writers' = Writers \ {i}
  PROVE  Cardinality(Writers') = Cardinality(Writers) - 1
BY WritersFinite, FS_RemoveElement

\* A handler that did not write does now.
LEMMA WriterBegins ==
  ASSUME NEW i, i \notin Writers, Writers' = Writers \cup {i}
  PROVE  Cardinality(Writers') = Cardinality(Writers) + 1
BY WritersFinite, FS_AddElement

\* k of n counted writes became hardware, or a late write.
LEMMA SumStays ==
  ASSUME NEW max \in Nat, NEW h \in Nat, NEW l \in Nat, NEW n \in Nat, NEW k \in {0, 1},
         NEW h1 \in Nat, NEW l1 \in Nat, NEW m \in Nat,
         m = n - k, h1 + l1 <= h + l + k, h + n + l <= max
  PROVE  h1 + m + l1 <= max /\ h1 <= max
OBVIOUS

\* Handler i goes on with t.
LEMMA TaskStep ==
  ASSUME IInv, NEW i \in Handler, NEW t \in Task, task' = [task EXCEPT ![i] = t]
  PROVE  /\ task' \in [Handler -> Task]
         /\ task'[i] = t /\ \A j \in Handler \ {i} : task'[j] = task[j]
         /\ Writers' = IF Writes(t) THEN Writers \cup {i} ELSE Writers \ {i}
<1>1. task \in [Handler -> Task]
  BY DEF IInv, TypeOK
<1>2. /\ task' \in [Handler -> Task]
      /\ \A j \in Handler : task'[j] = IF j = i THEN t ELSE task[j]
  BY <1>1
<1>3. Writers' = {j \in Handler : Writes(task'[j])}
  BY DEF Writers, Writes
<1>4. \A j \in Handler : j \in Writers' <=> IF j = i THEN Writes(t) ELSE j \in Writers
  BY <1>2, <1>3 DEF Writers
<1>5. Writers \subseteq Handler /\ Writers' \subseteq Handler
  BY DEF Writers
<1>. QED BY <1>2, <1>4, <1>5

-----------------------------------------------------------------------------
(* Loads.                                                                  *)

LEMMA AfterType ==
  ASSUME NEW b \in Bloc, NEW t \in Task
  PROVE  /\ After(b, t) \in Bloc
         /\ After(b, t).shown = b.shown /\ After(b, t).error = b.error
<1>. DEFINE c == [b EXCEPT !.timer = TRUE]
            d == [b EXCEPT !.applying = FALSE, !.notice = t.wrote]
<1>1. c \in Bloc /\ c.shown = b.shown /\ c.error = b.error
  BY DEF Bloc
<1>2. d \in Bloc /\ d.shown = b.shown /\ d.error = b.error
  BY DEF Bloc, Task
<1>3. After(b, t) \in {b, c, d}
  BY DEF After
<1>. HIDE DEF c, d
<1>. QED BY <1>1, <1>2, <1>3

LEMMA IdleType == Idle \in Task /\ Idle.pc = "idle" /\ Idle.wrote = 0 /\ Idle.kind = "refresh"
BY HandlerAssumption DEF Idle, Task, Kinds, Count

\* Handler i, now t, asks for a load: it loads, waits or, on the dashboard, is
\* done.
LEMMA ReloadFacts ==
  ASSUME IInv, NEW i \in Handler, NEW t \in Task, NEW b \in Bloc, Reload(i, t, b)
  PROVE  /\ bloc' \in Bloc
         /\ \E u \in Task :
              /\ task' = [task EXCEPT ![i] = u]
              /\ u.wrote \in {t.wrote, 0}
              /\ u.pc \in {"load", "wait"} \/ (u.pc = "idle" /\ page = "dashboard")
<1>. DEFINE l == [t EXCEPT !.pc = "load"]
            w == [t EXCEPT !.pc = "wait", !.on = bloc.completer]
            c == [b EXCEPT !.inFlight = TRUE, !.completer = i]
<1>1. l \in Task /\ l.pc = "load" /\ l.wrote = t.wrote
  BY DEF Task
<1>2. w \in Task /\ w.pc = "wait" /\ w.wrote = t.wrote
  BY DEF Task, IInv, TypeOK, Bloc
<1>3. c \in Bloc
  BY DEF Bloc
<1>4. \/ task' = [task EXCEPT ![i] = l] /\ bloc' = c
      \/ task' = [task EXCEPT ![i] = Idle] /\ bloc' = After(b, t) /\ page = "dashboard"
      \/ task' = [task EXCEPT ![i] = w] /\ bloc' = b
  BY DEF Reload
<1>. HIDE DEF l, w, c
<1>. QED BY <1>1, <1>2, <1>3, <1>4, IdleType, AfterType

\* A load ends, and with it the wait of others.
LEMMA EndLoadFacts ==
  ASSUME IInv, NEW i \in Handler, NEW b \in Bloc, EndLoad(i, b),
         task[i].pc \in {"load", "loaded"}
  PROVE  /\ bloc' \in Bloc /\ task' \in [Handler -> Task]
         /\ ~bloc.closing => bloc'.shown = b.shown /\ bloc'.error = b.error
         /\ \A j \in Handler :
              \/ task'[j] = task[j]
              \/ task'[j] = Idle /\ (j = i \/ (task[j].pc = "wait" /\ task[j].kind # "apply"))
              \/ /\ task[j].pc = "wait" /\ task'[j].pc = "load"
                 /\ task'[j].wrote = task[j].wrote
<1>. DEFINE woken  == {j \in Handler \ {i} : task[j].pc = "wait" /\ task[j].on = bloc.completer}
            forced == {j \in woken : Forced(j)}
            e      == [Emit(b) EXCEPT !.inFlight = forced # {}, !.completer = Nobody]
            ended  == After(e, task[i])
            woke   == IF \E j \in woken : task[j].kind = "started"
                      THEN [ended EXCEPT !.timer = TRUE] ELSE ended
            again(j) == [task[j] EXCEPT !.pc = "load", !.on = Nobody]
<1>1. bloc \in Bloc /\ task \in [Handler -> Task]
  BY DEF IInv, TypeOK
<1>2. Emit(b) \in Bloc /\ (~bloc.closing => Emit(b) = b)
  BY <1>1 DEF Emit
<1>3. e \in Bloc /\ e.shown = Emit(b).shown /\ e.error = Emit(b).error
  <2>. DEFINE f == forced # {}
              k == Emit(b)
  <2>1. f \in BOOLEAN
    OBVIOUS
  <2>2. e = [k EXCEPT !.inFlight = f, !.completer = Nobody] /\ k \in Bloc
    BY <1>2
  <2>. HIDE DEF f, k, e
  <2>3. e \in Bloc /\ e.shown = k.shown /\ e.error = k.error
    BY <2>1, <2>2 DEF Bloc
  <2>. QED BY <2>3 DEF k
<1>. HIDE DEF e
<1>4. ended \in Bloc /\ ended.shown = e.shown /\ ended.error = e.error
  BY <1>1, <1>3, AfterType
<1>. HIDE DEF ended
<1>5. /\ woke \in Bloc /\ woke.shown = ended.shown /\ woke.error = ended.error
  BY <1>4 DEF Bloc
<1>6. /\ task' = [j \in Handler |->
                    IF j \in forced THEN again(j)
                    ELSE IF j \in woken \cup {i} THEN Idle ELSE task[j]]
      /\ \/ bloc' = woke
         \/ \E j \in forced : bloc' = [woke EXCEPT !.completer = j]
  BY DEF EndLoad, ended, e
<1>7. ASSUME NEW j \in Handler
      PROVE  /\ [woke EXCEPT !.completer = j] \in Bloc
             /\ [woke EXCEPT !.completer = j].shown = woke.shown
             /\ [woke EXCEPT !.completer = j].error = woke.error
  <2>. HIDE DEF woke
  <2>. QED BY <1>5 DEF Bloc
<1>8. bloc' \in Bloc /\ bloc'.shown = woke.shown /\ bloc'.error = woke.error
  <2>. HIDE DEF woke
  <2>. QED BY <1>5, <1>6, <1>7
<1>9. ASSUME NEW j \in Handler
      PROVE  again(j) \in Task /\ again(j).pc = "load" /\ again(j).wrote = task[j].wrote
  BY <1>1 DEF Task
<1>10. \A j \in Handler :
         /\ j \in forced => task[j].pc = "wait"
         /\ j \in woken /\ j \notin forced => task[j].pc = "wait" /\ task[j].kind # "apply"
  BY DEF Forced
<1>. HIDE DEF again, forced, woken, woke
<1>11. \A j \in Handler : task'[j] = IF j \in forced THEN again(j)
                                     ELSE IF j \in woken \cup {i} THEN Idle ELSE task[j]
  BY <1>6
<1>12. task' \in [Handler -> Task]
  BY <1>1, <1>6, <1>9, IdleType
<1>. QED BY <1>2, <1>3, <1>4, <1>5, <1>8, <1>9, <1>10, <1>11, <1>12

-----------------------------------------------------------------------------
(* The steps.                                                              *)

\* Handler i goes on with t, which is not a write; hardware and access change
\* by no more than its write was counted for.
LEMMA Goes ==
  ASSUME IInv, NEW i \in Handler, NEW t \in Task, task' = [task EXCEPT ![i] = t],
         ~Writes(t), bloc' \in Bloc, UNCHANGED page,
         hardware' \in {hardware, hardware + 1}, access' \in {"open", "late", "closed"},
         hardware' + Late' <= hardware + Late + IF Writes(task[i]) THEN 1 ELSE 0,
         t.wrote <= hardware', t.pc = "loaded" => t.wrote <= t.read
  PROVE  IInv'
<1>1. /\ task' \in [Handler -> Task] /\ task'[i] = t
      /\ \A j \in Handler \ {i} : task'[j] = task[j]
      /\ Writers' = Writers \ {i}
  BY TaskStep
<1>2. /\ hardware \in Nat /\ MaxWrites \in Nat /\ Late \in Nat /\ Late' \in Nat
      /\ hardware' \in Nat /\ hardware <= hardware'
  BY HandlerAssumption DEF IInv, TypeOK, Count, Late
<1>3. Cardinality(Writers') = Cardinality(Writers) - (IF Writes(task[i]) THEN 1 ELSE 0)
  <2>1. CASE Writes(task[i])
    <3>1. i \in Writers
      BY <2>1 DEF Writers
    <3>2. Cardinality(Writers') = Cardinality(Writers) - 1
      BY <1>1, <3>1, WriterEnds
    <3>. QED BY <2>1, <3>2
  <2>2. CASE ~Writes(task[i])
    <3>1. i \notin Writers
      BY <2>2 DEF Writers
    <3>2. Writers' = Writers
      BY <1>1, <3>1
    <3>. QED BY <2>2, <3>2, WritersFinite
  <2>. QED BY <2>1, <2>2
<1>4. hardware + Cardinality(Writers) + Late <= MaxWrites
  BY RequestedIs DEF IInv
<1>5. hardware' + Cardinality(Writers') + Late' <= MaxWrites
  <2>. DEFINE n == Cardinality(Writers)
              m == Cardinality(Writers')
              k == IF Writes(task[i]) THEN 1 ELSE 0
  <2>1. n \in Nat /\ m \in Nat /\ k \in {0, 1} /\ m = n - k
    BY <1>3, WritersFinite, WritersFiniteNext
  <2>2. hardware' + Late' <= hardware + Late + k /\ hardware + n + Late <= MaxWrites
    BY <1>4
  <2>. HIDE DEF n, m, k
  <2>3. PICK h \in Nat, h1 \in Nat, l \in Nat, l1 \in Nat :
          h = hardware /\ h1 = hardware' /\ l = Late /\ l1 = Late'
    BY <1>2
  <2>4. h1 + l1 <= h + l + k /\ h + n + l <= MaxWrites
    BY <2>2, <2>3
  <2>5. h1 + m + l1 <= MaxWrites
    BY <1>2, <2>1, <2>4, SumStays
  <2>. QED BY <2>3, <2>5 DEF m
<1>6. Requested' <= MaxWrites
  BY <1>5, RequestedIsNext
<1>7. hardware' \in Count
  BY <1>2, <1>5, WritersFiniteNext DEF Count
<1>8. ASSUME NEW j \in Handler
      PROVE  TaskInv(j)'
  <2>1. CASE j = i
    BY <1>1, <2>1 DEF TaskInv
  <2>2. CASE j # i
    <3>1. task[j].wrote \in Int /\ task[j].wrote <= hardware
      BY DEF IInv, TypeOK, TaskInv, Task, Count
    <3>. QED BY <1>1, <1>2, <2>2, <3>1 DEF IInv, TaskInv
  <2>. QED BY <2>1, <2>2
<1>9. (\A j \in Handler : TaskInv(j))'
  BY <1>8
<1>. QED BY <1>1, <1>6, <1>7, <1>9 DEF IInv, TypeOK

\* Handler i asks for a load.
LEMMA ReloadKeeps ==
  ASSUME IInv, NEW i \in Handler, NEW t \in Task, NEW b \in Bloc, Reload(i, t, b),
         UNCHANGED page,
         hardware' \in {hardware, hardware + 1}, access' \in {"open", "late", "closed"},
         hardware' + Late' <= hardware + Late + IF Writes(task[i]) THEN 1 ELSE 0,
         t.wrote <= hardware'
  PROVE  IInv'
<1>1. PICK u \in Task : /\ task' = [task EXCEPT ![i] = u]
                        /\ u.wrote \in {t.wrote, 0}
                        /\ u.pc \in {"load", "wait", "idle"}
  BY ReloadFacts
<1>2. bloc' \in Bloc
  BY ReloadFacts
<1>3. u.wrote <= hardware' /\ ~Writes(u) /\ u.pc # "loaded"
  BY <1>1 DEF Writes, IInv, TypeOK, Count
<1>. QED BY <1>1, <1>2, <1>3, Goes

LEMMA BeginKeeps ==
  ASSUME IInv, NEW i \in Handler, Started(i) \/ Refresh(i) \/ Ticked(i)
  PROVE  IInv'
<1>1. /\ bloc \in Bloc /\ hardware \in Nat /\ access \in {"open", "late", "closed"}
      /\ UNCHANGED <<page, hardware, access>> /\ Late \in Nat /\ Late' = Late
  BY DEF IInv, TypeOK, Count, Started, Refresh, Ticked, Late
<1>2. hardware' + Late' <= hardware + Late + IF Writes(task[i]) THEN 1 ELSE 0
  BY <1>1
<1>3. CASE Started(i)
  <2>. DEFINE t == [Idle EXCEPT !.kind = "started"]
              b == [bloc EXCEPT !.started = TRUE, !.error = FALSE]
  <2>1. t \in Task /\ t.wrote = 0
    BY IdleType DEF Task, Kinds
  <2>2. b \in Bloc
    BY <1>1 DEF Bloc
  <2>3. Reload(i, t, b)
    BY <1>3 DEF Started
  <2>. HIDE DEF t, b
  <2>. QED BY <1>1, <1>2, <2>1, <2>2, <2>3, ReloadKeeps
<1>4. CASE Refresh(i)
  <2>. DEFINE t == [Idle EXCEPT !.kind = "refresh"]
              c == [bloc EXCEPT !.error = FALSE,
                                !.notice = IF page = "dashboard" THEN 0 ELSE @]
              b == IF Busy THEN bloc ELSE c
  <2>1. t \in Task /\ t.wrote = 0
    BY IdleType DEF Task, Kinds
  <2>2. b \in Bloc
    <3>1. (IF page = "dashboard" THEN 0 ELSE bloc.notice) \in Count
      BY <1>1, ZeroCount DEF Bloc
    <3>2. c \in Bloc
      BY <1>1, <3>1 DEF Bloc
    <3>. QED BY <1>1, <3>2
  <2>3. Reload(i, t, b)
    BY <1>4 DEF Refresh
  <2>. HIDE DEF t, b
  <2>. QED BY <1>1, <1>2, <2>1, <2>2, <2>3, ReloadKeeps
<1>5. CASE Ticked(i)
  <2>. DEFINE t == [Idle EXCEPT !.kind = "ticked"]
  <2>1. t \in Task /\ t.wrote = 0
    BY IdleType DEF Task, Kinds
  <2>2. Reload(i, t, bloc)
    BY <1>5 DEF Ticked
  <2>. HIDE DEF t
  <2>. QED BY <1>1, <1>2, <2>1, <2>2, ReloadKeeps
<1>. QED BY <1>3, <1>4, <1>5

LEMMA ApplyKeeps ==
  ASSUME IInv, NEW i \in Handler, Apply(i)
  PROVE  IInv'
<1>1. PICK kind \in {"apply", "target"} :
        /\ kind = "apply" => Requested < MaxWrites
        /\ task' = [task EXCEPT ![i] = [Idle EXCEPT !.kind = kind, !.pc = "write"]]
  BY DEF Apply
<1>. DEFINE t == [Idle EXCEPT !.kind = kind, !.pc = "write"]
<1>2. t \in Task /\ t.wrote = 0 /\ t.pc = "write" /\ t.kind = kind
  BY IdleType DEF Task, Kinds
<1>3. task' = [task EXCEPT ![i] = t]
  BY <1>1
<1>. HIDE DEF t
<1>4. /\ bloc \in Bloc /\ hardware \in Nat /\ UNCHANGED <<page, hardware, access>>
      /\ Late' = Late /\ task[i].pc = "idle"
  BY DEF IInv, TypeOK, Count, Apply, Late, New
<1>5. bloc' \in Bloc
  BY <1>4, ZeroCount DEF Apply, Bloc
<1>6. CASE kind = "target"
  <2>1. ~Writes(t)
    BY <1>2, <1>6 DEF Writes
  <2>2. hardware' + Late' <= hardware + Late + IF Writes(task[i]) THEN 1 ELSE 0
    BY <1>4 DEF Late
  <2>3. access' \in {"open", "late", "closed"}
    BY <1>4 DEF IInv, TypeOK
  <2>4. t.wrote <= hardware' /\ t.pc # "loaded" /\ hardware' = hardware
    BY <1>2, <1>4
  <2>. QED BY <1>2, <1>3, <1>4, <1>5, <2>1, <2>2, <2>3, <2>4, Goes
<1>7. CASE kind = "apply"
  <2>1. /\ task' \in [Handler -> Task] /\ task'[i] = t
        /\ \A j \in Handler \ {i} : task'[j] = task[j]
        /\ Writers' = Writers \cup {i} /\ i \notin Writers
    BY <1>2, <1>3, <1>4, <1>7, TaskStep DEF Writes, Writers
  <2>2. Cardinality(Writers') = Cardinality(Writers) + 1
    BY <2>1, WriterBegins
  <2>3. Requested' = hardware + (Cardinality(Writers) + 1) + Late
    BY <1>4, <2>2, RequestedIsNext
  <2>4. Requested' <= MaxWrites
    BY <1>1, <1>4, <1>7, <2>3, RequestedIs, WritersFinite, HandlerAssumption DEF Late
  <2>5. ASSUME NEW j \in Handler
        PROVE  TaskInv(j)'
    BY <1>2, <1>4, <2>1 DEF IInv, TaskInv
  <2>6. (\A j \in Handler : TaskInv(j))'
    BY <2>5
  <2>. QED BY <1>4, <1>5, <2>1, <2>4, <2>6 DEF IInv, TypeOK
<1>. QED BY <1>6, <1>7

\* A confirmed write was counted, so the hardware has room for it.
LEMMA ConfirmedTask ==
  ASSUME IInv, NEW i \in Handler, Confirmed(i)
  PROVE  [task[i] EXCEPT !.wrote = hardware + 1] \in Task
<1>1. task[i] \in Task /\ hardware \in Nat /\ Writes(task[i])
  BY DEF IInv, TypeOK, Count, Confirmed, Writes
<1>2. Cardinality(Writers) >= 1
  <2>1. i \in Writers
    BY <1>1 DEF Writers
  <2>2. Cardinality(Writers \ {i}) = Cardinality(Writers) - 1 /\ IsFiniteSet(Writers \ {i})
    BY <2>1, WritersFinite, FS_RemoveElement
  <2>3. Cardinality(Writers \ {i}) \in Nat
    BY <2>2, FS_CardinalityType
  <2>. QED BY <2>2, <2>3, WritersFinite
<1>3. hardware + 1 \in Count
  BY <1>1, <1>2, RequestedIs, WritersFinite, HandlerAssumption DEF IInv, Late, Count
<1>. QED BY <1>1, <1>3 DEF Task

LEMMA ConfirmedKeeps ==
  ASSUME IInv, NEW i \in Handler, Confirmed(i)
  PROVE  IInv'
<1>. DEFINE t == [task[i] EXCEPT !.wrote = hardware + 1]
<1>1. /\ task[i] \in Task /\ bloc \in Bloc /\ hardware \in Nat /\ Writes(task[i])
      /\ access \in {"open", "late", "closed"} /\ UNCHANGED <<page, access>>
      /\ hardware' = hardware + 1
      /\ Reload(i, t, bloc)
  BY DEF IInv, TypeOK, Count, Confirmed, Writes
<1>2. t \in Task /\ t.wrote = hardware + 1
  BY <1>1, ConfirmedTask DEF Task
<1>. HIDE DEF t
<1>3. hardware' + Late' <= hardware + Late + IF Writes(task[i]) THEN 1 ELSE 0
  BY <1>1 DEF Late
<1>. QED BY <1>1, <1>2, <1>3, ReloadKeeps

LEMMA FailedKeeps ==
  ASSUME IInv, NEW i \in Handler, Failed(i)
  PROVE  IInv'
<1>1. /\ task[i] \in Task /\ bloc \in Bloc /\ hardware \in Nat /\ UNCHANGED page
      /\ access \in {"open", "late", "closed"} /\ task[i].wrote <= hardware
  BY DEF IInv, TypeOK, Count, Failed, TaskInv
<1>2. /\ hardware' \in {hardware, hardware + 1} /\ access' \in {"open", "late", "closed"}
      /\ hardware' + Late' <= hardware + Late + IF Writes(task[i]) THEN 1 ELSE 0
  BY <1>1 DEF Failed, Late, Writes
<1>3. task[i].wrote <= hardware'
  BY <1>1, <1>2 DEF Task, Count
<1>4. CASE Reload(i, [task[i] EXCEPT !.error = TRUE], bloc)
  <2>. DEFINE t == [task[i] EXCEPT !.error = TRUE]
  <2>1. t \in Task /\ t.wrote = task[i].wrote
    BY <1>1 DEF Task
  <2>. HIDE DEF t
  <2>2. Reload(i, t, bloc)
    BY <1>4 DEF t
  <2>. QED BY <1>1, <1>2, <1>3, <2>1, <2>2, ReloadKeeps
<1>5. CASE /\ task' = [task EXCEPT ![i] = Idle]
           /\ bloc' = Emit([bloc EXCEPT !.applying = FALSE, !.error = TRUE])
  <2>1. bloc' \in Bloc
    BY <1>1, <1>5 DEF Emit, Bloc
  <2>2. ~Writes(Idle) /\ Idle.wrote <= hardware'
    BY <1>1, <1>2, IdleType DEF Writes
  <2>. QED BY <1>1, <1>2, <1>5, <2>1, <2>2, IdleType, Goes
<1>. QED BY <1>4, <1>5 DEF Failed

LEMMA ReadKeeps ==
  ASSUME IInv, NEW i \in Handler, Read(i)
  PROVE  IInv'
<1>. DEFINE t == [task[i] EXCEPT !.pc = "loaded", !.read = hardware]
<1>1. /\ task[i] \in Task /\ hardware \in Count /\ task[i].wrote <= hardware
      /\ UNCHANGED <<page, hardware, access, bloc>> /\ task \in [Handler -> Task]
      /\ bloc \in Bloc /\ access \in {"open", "late", "closed"}
  BY DEF IInv, TypeOK, Read, TaskInv
<1>2. t \in Task /\ t.pc = "loaded" /\ t.read = hardware /\ t.wrote = task[i].wrote
  BY <1>1 DEF Task
<1>3. task' = [task EXCEPT ![i] = t]
  BY <1>1 DEF Read
<1>. HIDE DEF t
<1>4. ~Writes(t)
  BY <1>2 DEF Writes
<1>5. hardware' + Late' <= hardware + Late + IF Writes(task[i]) THEN 1 ELSE 0
  BY <1>1 DEF Late, Count
<1>. QED BY <1>1, <1>2, <1>3, <1>4, <1>5, Goes

LEMMA EndLoadKeeps ==
  ASSUME IInv, NEW i \in Handler, NEW b \in Bloc, EndLoad(i, b),
         task[i].pc \in {"load", "loaded"}
  PROVE  IInv'
<1>1. /\ bloc' \in Bloc /\ task' \in [Handler -> Task]
      /\ UNCHANGED <<page, hardware, access>>
  BY EndLoadFacts DEF EndLoad
<1>2. \A j \in Handler :
        \/ task'[j] = task[j]
        \/ task'[j] = Idle /\ task[j].pc \in {"load", "loaded", "wait"}
        \/ /\ task[j].pc = "wait" /\ task'[j].pc = "load"
           /\ task'[j].wrote = task[j].wrote
  BY EndLoadFacts
<1>3. \A j \in Handler : Writes(task'[j]) <=> Writes(task[j])
  BY <1>2, IdleType DEF Writes
<1>4. Writers' = Writers
  BY <1>3 DEF Writers, Writes
<1>5. Requested' = Requested
  BY <1>1, <1>4, RequestedIs, RequestedIsNext DEF Late
<1>6. ASSUME NEW j \in Handler
      PROVE  TaskInv(j)'
  BY <1>1, <1>2, IdleType DEF IInv, TypeOK, Count, TaskInv
<1>7. (\A j \in Handler : TaskInv(j))'
  BY <1>6
<1>. QED BY <1>1, <1>5, <1>7 DEF IInv, TypeOK

\* The bloc that the load of i ends with.
LEMMA LoadedBloc ==
  ASSUME bloc \in Bloc, NEW t \in Task
  PROVE  [bloc EXCEPT !.shown = t.read, !.error = t.error,
                      !.applying = @ /\ page = "dashboard",
                      !.notice = IF page = "dashboard" THEN @ ELSE 0] \in Bloc
<1>. DEFINE a == bloc.applying /\ page = "dashboard"
            n == IF page = "dashboard" THEN bloc.notice ELSE 0
            b == [bloc EXCEPT !.shown = t.read, !.error = t.error,
                              !.applying = @ /\ page = "dashboard",
                              !.notice = IF page = "dashboard" THEN @ ELSE 0]
<1>1. a \in BOOLEAN
  OBVIOUS
<1>2. n \in Count
  BY ZeroCount DEF Bloc
<1>3. b = [bloc EXCEPT !.shown = t.read, !.error = t.error, !.applying = a, !.notice = n]
  OBVIOUS
<1>4. t.read \in Count /\ t.error \in BOOLEAN
  BY DEF Task
<1>. HIDE DEF a, n, b
<1>5. b \in Bloc
  BY <1>1, <1>2, <1>3, <1>4 DEF Bloc
<1>. QED BY <1>5 DEF b

LEMMA LoadKeeps ==
  ASSUME IInv, NEW i \in Handler, LoadEnds(i) \/ LoadFails(i)
  PROVE  IInv'
<1>1. bloc \in Bloc /\ task[i] \in Task
  BY DEF IInv, TypeOK
<1>2. CASE LoadEnds(i)
  <2>. DEFINE b == [bloc EXCEPT !.shown = task[i].read, !.error = task[i].error,
                                !.applying = @ /\ page = "dashboard",
                                !.notice = IF page = "dashboard" THEN @ ELSE 0]
  <2>1. b \in Bloc
    BY <1>1, LoadedBloc
  <2>2. EndLoad(i, b) /\ task[i].pc = "loaded"
    BY <1>2 DEF LoadEnds
  <2>. HIDE DEF b
  <2>. QED BY <2>1, <2>2, EndLoadKeeps
<1>3. CASE LoadFails(i)
  <2>. DEFINE b == [bloc EXCEPT !.error = TRUE, !.applying = StillApplying]
  <2>1. b \in Bloc
    BY <1>1 DEF Bloc, StillApplying
  <2>2. EndLoad(i, b) /\ task[i].pc \in {"load", "loaded"}
    BY <1>3 DEF LoadFails
  <2>. HIDE DEF b
  <2>. QED BY <2>1, <2>2, EndLoadKeeps
<1>. QED BY <1>2, <1>3

LEMMA OtherKeeps ==
  ASSUME IInv, LateEnd \/ Close \/ Gone \/ UNCHANGED vars
  PROVE  IInv'
<1>1. UNCHANGED <<page, task>> /\ Writers' = Writers
  BY DEF LateEnd, Close, Gone, vars, Writers, Writes
<1>2. bloc' \in Bloc
  BY DEF IInv, TypeOK, LateEnd, Close, Gone, vars, Bloc
<1>3. /\ hardware \in Nat /\ MaxWrites \in Nat /\ hardware' \in {hardware, hardware + 1}
      /\ hardware' + Late' <= hardware + Late /\ Late \in Nat /\ Late' \in Nat
      /\ access' \in {"open", "late", "closed"}
  BY HandlerAssumption DEF IInv, TypeOK, Count, LateEnd, Close, Gone, vars, Late
<1>4. Requested' <= MaxWrites /\ hardware' <= MaxWrites
  <2>1. Requested' = hardware' + Cardinality(Writers) + Late'
    BY <1>1, RequestedIsNext
  <2>2. hardware + Cardinality(Writers) + Late <= MaxWrites
    BY RequestedIs DEF IInv
  <2>. DEFINE n == Cardinality(Writers)
  <2>3. n \in Nat /\ n = n - 0 /\ hardware' \in Nat
    BY <1>3, WritersFinite
  <2>4. hardware + Late + 0 = hardware + Late
    BY <1>3
  <2>. HIDE DEF n
  <2>5. hardware' + n + Late' <= MaxWrites /\ hardware' <= MaxWrites
    BY <1>3, <2>2, <2>3, <2>4, SumStays DEF n
  <2>. QED BY <2>1, <2>5 DEF n
<1>5. ASSUME NEW j \in Handler
      PROVE  TaskInv(j)'
  BY <1>1, <1>3 DEF IInv, TypeOK, TaskInv, Task, Count
<1>6. (\A j \in Handler : TaskInv(j))'
  BY <1>5
<1>. QED BY <1>1, <1>2, <1>3, <1>4, <1>6 DEF IInv, TypeOK, Count

-----------------------------------------------------------------------------
(* The theorems.                                                           *)

LEMMA InitInv == Init => IInv
<1>. SUFFICES ASSUME Init PROVE IInv
  OBVIOUS
<1>1. \A i \in Handler : task[i] = Idle
  BY DEF Init
<1>2. TypeOK
  BY IdleType, HandlerAssumption DEF Init, TypeOK, Bloc, Count
<1>3. Writers = {}
  BY <1>1, IdleType DEF Writers, Writes
<1>4. Requested <= MaxWrites
  BY <1>3, RequestedIs, FS_EmptySet, HandlerAssumption DEF Init, Late
<1>5. \A i \in Handler : TaskInv(i)
  BY <1>1, IdleType DEF Init, TaskInv
<1>. QED BY <1>2, <1>4, <1>5 DEF IInv

LEMMA StepInv == IInv /\ [Next]_vars => IInv'
BY BeginKeeps, ApplyKeeps, ConfirmedKeeps, FailedKeeps, ReadKeeps, LoadKeeps, OtherKeeps
   DEF Next

\* The inductive invariant of a page whose handlers run side by side.
THEOREM Invariance == Spec => []IInv
BY InitInv, StepInv, PTL DEF Spec

\* The fields of the bloc and of its handlers keep their types, and the writes
\* their bound.
THEOREM TypeCorrect == Spec => []TypeOK
<1>1. IInv => TypeOK
  BY DEF IInv
<1>. QED BY Invariance, <1>1, PTL

\* A request for a graphics mode that ends without an error shows a status read
\* after its write: if it had to wait for somebody else's load, it loads again.
THEOREM GraphicsResultIsShownTheorem == Spec => GraphicsResultIsShown
<1>1. ASSUME IInv, Next, NEW i \in Handler, page = "graphics", ~bloc.closing,
             task[i].kind = "apply", task[i].pc # "idle", task'[i].pc = "idle"
      PROVE  bloc'.error \/ bloc'.shown >= task[i].wrote
  <2>1. /\ task \in [Handler -> Task] /\ bloc \in Bloc /\ TaskInv(i)
        /\ \A j \in Handler : task[j] \in Task
    BY <1>1 DEF IInv, TypeOK
  <2>2. ASSUME NEW j \in Handler, j # i, NEW u, task' = [task EXCEPT ![j] = u]
        PROVE  FALSE
    BY <1>1, <2>1, <2>2
  <2>3. ASSUME NEW j \in Handler, Started(j) \/ Refresh(j) \/ Ticked(j) \/ Apply(j)
        PROVE  FALSE
    <3>1. j # i /\ \E u : task' = [task EXCEPT ![j] = u]
      BY <1>1, <2>3 DEF Started, Refresh, Ticked, Apply, New, Reload
    <3>. QED BY <2>2, <3>1
  <2>4. ASSUME NEW j \in Handler, NEW t \in Task, Reload(j, t, bloc)
        PROVE  FALSE
    <3>1. PICK u \in Task : task' = [task EXCEPT ![j] = u] /\ u.pc \in {"load", "wait"}
      BY <1>1, <2>1, <2>4, ReloadFacts
    <3>. QED BY <1>1, <2>1, <2>2, <3>1
  <2>5. ASSUME NEW j \in Handler, Confirmed(j)
        PROVE  FALSE
    BY <1>1, <2>4, <2>5, ConfirmedTask DEF Confirmed
  <2>6. ASSUME NEW j \in Handler, Failed(j)
        PROVE  FALSE
    <3>1. [task[j] EXCEPT !.error = TRUE] \in Task
      BY <2>1 DEF Task
    <3>2. CASE Reload(j, [task[j] EXCEPT !.error = TRUE], bloc)
      BY <2>4, <3>1, <3>2
    <3>3. CASE ~Reload(j, [task[j] EXCEPT !.error = TRUE], bloc)
      <4>1. j # i /\ \E u : task' = [task EXCEPT ![j] = u]
        BY <1>1, <2>6, <3>3 DEF Failed
      <4>. QED BY <2>2, <4>1
    <3>. QED BY <3>2, <3>3
  <2>7. ASSUME NEW j \in Handler, Read(j)
        PROVE  FALSE
    <3>. DEFINE u == [task[j] EXCEPT !.pc = "loaded", !.read = hardware]
    <3>1. task' = [task EXCEPT ![j] = u] /\ u.pc = "loaded"
      BY <2>1, <2>7 DEF Read, Task
    <3>. HIDE DEF u
    <3>. QED BY <1>1, <2>1, <2>2, <3>1
  <2>8. ASSUME NEW j \in Handler, NEW b \in Bloc, EndLoad(j, b),
               task[j].pc \in {"load", "loaded"}
        PROVE  j = i /\ bloc'.shown = b.shown /\ bloc'.error = b.error
    <3>1. /\ bloc'.shown = b.shown /\ bloc'.error = b.error
          /\ \/ task'[i] = task[i]
             \/ j = i
             \/ task[i].kind # "apply"
             \/ task'[i].pc = "load"
      BY <1>1, <2>8, EndLoadFacts
    <3>. QED BY <1>1, <3>1
  <2>9. ASSUME NEW j \in Handler, LoadEnds(j)
        PROVE  bloc'.shown >= task[i].wrote
    <3>. DEFINE b == [bloc EXCEPT !.shown = task[j].read, !.error = task[j].error,
                                  !.applying = @ /\ page = "dashboard",
                                  !.notice = IF page = "dashboard" THEN @ ELSE 0]
    <3>1. b \in Bloc /\ b.shown = task[j].read
      BY <2>1, LoadedBloc DEF Bloc
    <3>2. EndLoad(j, b) /\ task[j].pc = "loaded"
      BY <2>9 DEF LoadEnds
    <3>. HIDE DEF b
    <3>3. j = i /\ bloc'.shown = task[i].read
      BY <2>8, <3>1, <3>2
    <3>4. task[i].wrote <= task[i].read
      BY <2>1, <3>2, <3>3 DEF TaskInv
    <3>5. task[i].wrote \in Int /\ task[i].read \in Int
      BY <2>1 DEF Task, Count
    <3>. QED BY <3>3, <3>4, <3>5
  <2>10. ASSUME NEW j \in Handler, LoadFails(j)
         PROVE  bloc'.error
    <3>. DEFINE b == [bloc EXCEPT !.error = TRUE, !.applying = StillApplying]
    <3>1. b \in Bloc /\ b.error = TRUE
      BY <2>1 DEF Bloc, StillApplying
    <3>2. EndLoad(j, b) /\ task[j].pc \in {"load", "loaded"}
      BY <2>10 DEF LoadFails
    <3>. HIDE DEF b
    <3>. QED BY <2>8, <3>1, <3>2
  <2>11. ~LateEnd /\ ~Close /\ ~Gone
    BY <1>1 DEF LateEnd, Close, Gone, vars
  <2>. QED BY <1>1, <2>3, <2>5, <2>6, <2>7, <2>9, <2>10, <2>11 DEF Next
<1>2. IInv /\ [Next]_vars =>
        [\A i \in Handler :
           /\ page = "graphics" /\ ~bloc.closing
           /\ task[i].kind = "apply" /\ task[i].pc # "idle" /\ task'[i].pc = "idle"
           => bloc'.error \/ bloc'.shown >= task[i].wrote]_vars
  BY <1>1
<1>. QED BY Invariance, <1>2, PTL DEF Spec, GraphicsResultIsShown

-----------------------------------------------------------------------------
(* Who ends the busy state.                                                *)

Loads(t) == t.pc \in {"load", "loaded"}

\* The load that others wait for is under way.
CompleterLoads ==
  bloc.inFlight => bloc.completer \in Handler /\ Loads(task[bloc.completer])

\* Who waits will be woken: it waits for the current completer.
WaitersAreHeard ==
  \A i \in Handler :
    task[i].pc = "wait" =>
      page = "graphics" /\ bloc.inFlight /\ task[i].on = bloc.completer

KindsFit ==
  \A i \in Handler : /\ task[i].pc = "write" => task[i].kind \in {"apply", "target"}
                     /\ page = "dashboard" => task[i].kind # "target"

\* Handler t will clear the busy state when it goes on: the dashboard's with
\* the end of the write's own handler, the graphics page's with any load.
Ends(t) ==
  IF page = "dashboard" THEN t.kind = "apply" /\ t.pc # "idle"
  ELSE Loads(t) \/ t.pc = "write"

BusyIsOwed ==
  bloc.applying /\ ~bloc.closing => \E i \in Handler : Ends(task[i])

OwedInv == CompleterLoads /\ WaitersAreHeard /\ KindsFit /\ BusyIsOwed

LEMMA AfterFields ==
  ASSUME NEW b \in Bloc, NEW t \in Task
  PROVE  /\ After(b, t).inFlight = b.inFlight /\ After(b, t).completer = b.completer
         /\ After(b, t).closing = b.closing
         /\ After(b, t).applying <=> /\ b.applying
                                     /\ ~(t.kind = "apply" /\ page = "dashboard" /\ ~bloc.closing)
<1>. DEFINE c == [b EXCEPT !.timer = TRUE]
            d == [b EXCEPT !.applying = FALSE, !.notice = t.wrote]
<1>1. /\ c.inFlight = b.inFlight /\ c.completer = b.completer /\ c.closing = b.closing
      /\ c.applying = b.applying
  BY DEF Bloc
<1>2. /\ d.inFlight = b.inFlight /\ d.completer = b.completer /\ d.closing = b.closing
      /\ d.applying = FALSE
  BY DEF Bloc
<1>3. After(b, t) = IF t.kind = "started" THEN c
                    ELSE IF t.kind = "apply" /\ page = "dashboard" /\ ~bloc.closing THEN d
                    ELSE b
  BY DEF After
<1>. HIDE DEF c, d
<1>. QED BY <1>1, <1>2, <1>3

\* The handlers that the end of the load of i wakes, and those of them that load.
Woken(i) == {j \in Handler \ {i} : task[j].pc = "wait" /\ task[j].on = bloc.completer}
Reloading(i) == {j \in Woken(i) : Forced(j)}

\* What the end of a load leaves of the fields that tell who loads and who is
\* busy.
LEMMA EndLoadFields ==
  ASSUME IInv, NEW i \in Handler, NEW b \in Bloc, EndLoad(i, b)
  PROVE  /\ bloc'.closing = Emit(b).closing
         /\ bloc'.applying <=>
              /\ Emit(b).applying
              /\ ~(task[i].kind = "apply" /\ page = "dashboard" /\ ~bloc.closing)
         /\ bloc'.inFlight <=> Reloading(i) # {}
         /\ Reloading(i) # {} => bloc'.completer \in Reloading(i)
         /\ \A j \in Handler :
              /\ j \in Reloading(i) =>
                   task'[j].pc = "load" /\ task'[j].kind = task[j].kind
              /\ j \notin Reloading(i) =>
                   task'[j] = IF j \in Woken(i) \cup {i} THEN Idle ELSE task[j]
<1>. DEFINE e      == [Emit(b) EXCEPT !.inFlight = Reloading(i) # {}, !.completer = Nobody]
            ended  == After(e, task[i])
            woke   == IF \E j \in Woken(i) : task[j].kind = "started"
                      THEN [ended EXCEPT !.timer = TRUE] ELSE ended
            again(j) == [task[j] EXCEPT !.pc = "load", !.on = Nobody]
<1>1. bloc \in Bloc /\ task \in [Handler -> Task]
  BY DEF IInv, TypeOK
<1>2. /\ task' = [j \in Handler |->
                    IF j \in Reloading(i) THEN again(j)
                    ELSE IF j \in Woken(i) \cup {i} THEN Idle ELSE task[j]]
      /\ \/ Reloading(i) = {} /\ bloc' = woke
         \/ \E j \in Reloading(i) : bloc' = [woke EXCEPT !.completer = j]
  BY DEF EndLoad, Woken, Reloading
<1>3. Emit(b) \in Bloc
  BY <1>1 DEF Emit
<1>4. /\ e \in Bloc /\ (e.inFlight <=> Reloading(i) # {})
      /\ e.closing = Emit(b).closing /\ e.applying = Emit(b).applying
  <2>. DEFINE f == Reloading(i) # {}
              k == Emit(b)
  <2>1. f \in BOOLEAN /\ k \in Bloc /\ e = [k EXCEPT !.inFlight = f, !.completer = Nobody]
    BY <1>3
  <2>. HIDE DEF f, k, e
  <2>2. e \in Bloc /\ e.inFlight = f /\ e.closing = k.closing /\ e.applying = k.applying
    BY <2>1 DEF Bloc
  <2>. QED BY <2>2 DEF f, k
<1>. HIDE DEF e
<1>5. /\ ended \in Bloc /\ ended.inFlight = e.inFlight /\ ended.closing = e.closing
      /\ ended.applying <=>
           e.applying /\ ~(task[i].kind = "apply" /\ page = "dashboard" /\ ~bloc.closing)
  BY <1>1, <1>4, AfterType, AfterFields
<1>. HIDE DEF ended
<1>6. /\ woke \in Bloc /\ woke.inFlight = ended.inFlight /\ woke.closing = ended.closing
      /\ woke.applying = ended.applying
  BY <1>5 DEF Bloc
<1>. HIDE DEF woke
<1>7. Reloading(i) \subseteq Handler
  BY DEF Reloading, Woken
<1>8. /\ bloc'.inFlight = woke.inFlight /\ bloc'.closing = woke.closing
      /\ bloc'.applying = woke.applying
      /\ Reloading(i) # {} => bloc'.completer \in Reloading(i)
  BY <1>2, <1>6, <1>7 DEF Bloc
<1>9. ASSUME NEW j \in Handler
      PROVE  again(j).pc = "load" /\ again(j).kind = task[j].kind
  BY <1>1 DEF Task
<1>. HIDE DEF again
<1>10. \A j \in Handler :
         task'[j] = IF j \in Reloading(i) THEN again(j)
                    ELSE IF j \in Woken(i) \cup {i} THEN Idle ELSE task[j]
  BY <1>2
<1>. QED BY <1>4, <1>5, <1>6, <1>8, <1>9, <1>10

\* Handler i, which does not load yet, asks for a load: it loads itself, or the
\* load that keeps it waiting ends the busy state; the dashboard's ends it now.
LEMMA ReloadOwes ==
  ASSUME IInv, OwedInv, NEW i \in Handler, NEW t \in Task, NEW b \in Bloc,
         Reload(i, t, b), UNCHANGED page, task[i].pc \in {"idle", "write"},
         page = "dashboard" => t.kind # "target",
         page = "dashboard" /\ task[i].pc = "write" => t.kind = "apply",
         b.inFlight = bloc.inFlight, b.completer = bloc.completer,
         b.closing = bloc.closing, b.applying = bloc.applying
  PROVE  OwedInv'
<1>. DEFINE l == [t EXCEPT !.pc = "load"]
            w == [t EXCEPT !.pc = "wait", !.on = bloc.completer]
            c == [b EXCEPT !.inFlight = TRUE, !.completer = i]
<1>1. /\ bloc \in Bloc /\ task \in [Handler -> Task] /\ page \in {"dashboard", "graphics"}
      /\ CompleterLoads /\ WaitersAreHeard /\ KindsFit /\ BusyIsOwed
  BY DEF IInv, TypeOK, OwedInv
<1>2. l.pc = "load" /\ l.kind = t.kind
  BY DEF Task
<1>3. w.pc = "wait" /\ w.kind = t.kind /\ w.on = bloc.completer
  BY DEF Task
<1>4. /\ c.inFlight = TRUE /\ c.completer = i /\ c.closing = bloc.closing
      /\ c.applying = bloc.applying
  BY DEF Bloc
<1>5. \/ ~bloc.inFlight /\ task' = [task EXCEPT ![i] = l] /\ bloc' = c
      \/ /\ bloc.inFlight /\ page = "dashboard"
         /\ task' = [task EXCEPT ![i] = Idle] /\ bloc' = After(b, t)
      \/ /\ bloc.inFlight /\ page = "graphics"
         /\ task' = [task EXCEPT ![i] = w] /\ bloc' = b
  BY DEF Reload, Busy
<1>. HIDE DEF l, w, c
<1>6. CASE ~bloc.inFlight /\ task' = [task EXCEPT ![i] = l] /\ bloc' = c
  <2>1. task'[i] = l /\ \A j \in Handler \ {i} : task'[j] = task[j]
    BY <1>1, <1>6
  <2>2. CompleterLoads'
    BY <1>2, <1>4, <1>6, <2>1 DEF CompleterLoads, Loads
  <2>3. WaitersAreHeard'
    BY <1>1, <1>2, <1>6, <2>1 DEF WaitersAreHeard
  <2>4. KindsFit'
    BY <1>1, <1>2, <2>1 DEF KindsFit
  <2>5. BusyIsOwed'
    <3>1. SUFFICES ASSUME bloc.applying, ~bloc.closing
                   PROVE  \E j \in Handler : Ends(task[j])'
      BY <1>4, <1>6 DEF BusyIsOwed
    <3>2. PICK k \in Handler : Ends(task[k])
      BY <1>1, <3>1 DEF BusyIsOwed
    <3>3. CASE page = "dashboard" /\ k # i
      BY <2>1, <3>2, <3>3 DEF Ends
    <3>4. CASE page = "graphics" \/ k = i
      BY <1>1, <1>2, <2>1, <3>2, <3>4 DEF Ends, Loads
    <3>. QED BY <1>1, <3>3, <3>4
  <2>. QED BY <2>2, <2>3, <2>4, <2>5 DEF OwedInv
<1>7. CASE /\ bloc.inFlight /\ page = "dashboard"
           /\ task' = [task EXCEPT ![i] = Idle] /\ bloc' = After(b, t)
  <2>1. task'[i] = Idle /\ \A j \in Handler \ {i} : task'[j] = task[j]
    BY <1>1, <1>7
  <2>2. /\ bloc'.inFlight = bloc.inFlight /\ bloc'.completer = bloc.completer
        /\ bloc'.closing = bloc.closing
        /\ bloc'.applying => bloc.applying /\ (t.kind # "apply" \/ bloc.closing)
    <3>. DEFINE a == After(b, t)
    <3>1. /\ a.inFlight = b.inFlight /\ a.completer = b.completer /\ a.closing = b.closing
          /\ a.applying <=> /\ b.applying
                            /\ ~(t.kind = "apply" /\ page = "dashboard" /\ ~bloc.closing)
      BY AfterFields
    <3>. HIDE DEF a
    <3>2. bloc' = a
      BY <1>7 DEF a
    <3>. QED BY <1>7, <3>1, <3>2
  <2>3. CompleterLoads'
    <3>1. bloc.completer # i
      BY <1>1, <1>7 DEF CompleterLoads, Loads
    <3>. QED BY <1>1, <2>1, <2>2, <3>1 DEF CompleterLoads, Loads
  <2>4. WaitersAreHeard'
    BY <1>1, <2>1, <2>2, IdleType DEF WaitersAreHeard
  <2>5. KindsFit'
    BY <1>1, <2>1, IdleType DEF KindsFit
  <2>6. BusyIsOwed'
    <3>1. SUFFICES ASSUME bloc'.applying, ~bloc'.closing
                   PROVE  \E j \in Handler : Ends(task[j])'
      BY DEF BusyIsOwed
    <3>2. PICK k \in Handler : Ends(task[k])
      BY <1>1, <2>2, <3>1 DEF BusyIsOwed
    <3>3. k # i
      BY <1>7, <2>2, <3>1, <3>2 DEF Ends
    <3>. QED BY <2>1, <3>2, <3>3 DEF Ends, Loads
  <2>. QED BY <2>3, <2>4, <2>5, <2>6 DEF OwedInv
<1>8. CASE /\ bloc.inFlight /\ page = "graphics"
           /\ task' = [task EXCEPT ![i] = w] /\ bloc' = b
  <2>1. task'[i] = w /\ \A j \in Handler \ {i} : task'[j] = task[j]
    BY <1>1, <1>8
  <2>2. bloc.completer \in Handler /\ bloc.completer # i /\ Loads(task[bloc.completer])
    BY <1>1, <1>8 DEF CompleterLoads, Loads
  <2>3. CompleterLoads'
    BY <1>8, <2>1, <2>2 DEF CompleterLoads, Loads
  <2>4. WaitersAreHeard'
    BY <1>1, <1>3, <1>8, <2>1 DEF WaitersAreHeard
  <2>5. KindsFit'
    BY <1>1, <1>3, <1>8, <2>1 DEF KindsFit
  <2>6. BusyIsOwed'
    BY <1>8, <2>1, <2>2 DEF BusyIsOwed, Ends, Loads
  <2>. QED BY <2>3, <2>4, <2>5, <2>6 DEF OwedInv
<1>. QED BY <1>5, <1>6, <1>7, <1>8

LEMMA BeginOwes ==
  ASSUME IInv, OwedInv, NEW i \in Handler, Started(i) \/ Refresh(i) \/ Ticked(i)
  PROVE  OwedInv'
<1>1. bloc \in Bloc /\ UNCHANGED page /\ task[i].pc \in {"idle", "write"}
      /\ task[i].pc # "write"
  BY DEF IInv, TypeOK, Started, Refresh, Ticked, New
<1>2. CASE Started(i)
  <2>. DEFINE t == [Idle EXCEPT !.kind = "started"]
              b == [bloc EXCEPT !.started = TRUE, !.error = FALSE]
  <2>1. t \in Task /\ t.kind # "target"
    BY IdleType DEF Task, Kinds
  <2>2. /\ b \in Bloc /\ b.inFlight = bloc.inFlight /\ b.completer = bloc.completer
        /\ b.closing = bloc.closing /\ b.applying = bloc.applying
    BY <1>1 DEF Bloc
  <2>3. Reload(i, t, b)
    BY <1>2 DEF Started
  <2>. HIDE DEF t, b
  <2>. QED BY <1>1, <2>1, <2>2, <2>3, ReloadOwes
<1>3. CASE Refresh(i)
  <2>. DEFINE t == [Idle EXCEPT !.kind = "refresh"]
              n == IF page = "dashboard" THEN 0 ELSE bloc.notice
              c == [bloc EXCEPT !.error = FALSE, !.notice = n]
              b == IF Busy THEN bloc ELSE c
  <2>1. t \in Task /\ t.kind # "target"
    BY IdleType DEF Task, Kinds
  <2>2. n \in Count
    BY <1>1, ZeroCount DEF Bloc
  <2>3. Reload(i, t, b)
    BY <1>3 DEF Refresh
  <2>. HIDE DEF n
  <2>4. /\ c \in Bloc /\ c.inFlight = bloc.inFlight /\ c.completer = bloc.completer
        /\ c.closing = bloc.closing /\ c.applying = bloc.applying
    BY <1>1, <2>2 DEF Bloc
  <2>. HIDE DEF t, c
  <2>5. /\ b \in Bloc /\ b.inFlight = bloc.inFlight /\ b.completer = bloc.completer
        /\ b.closing = bloc.closing /\ b.applying = bloc.applying
    BY <1>1, <2>4
  <2>. HIDE DEF b
  <2>. QED BY <1>1, <2>1, <2>3, <2>5, ReloadOwes
<1>4. CASE Ticked(i)
  <2>. DEFINE t == [Idle EXCEPT !.kind = "ticked"]
  <2>1. t \in Task /\ t.kind # "target"
    BY IdleType DEF Task, Kinds
  <2>2. Reload(i, t, bloc)
    BY <1>4 DEF Ticked
  <2>. HIDE DEF t
  <2>. QED BY <1>1, <2>1, <2>2, ReloadOwes
<1>. QED BY <1>2, <1>3, <1>4

LEMMA ApplyOwes ==
  ASSUME IInv, OwedInv, NEW i \in Handler, Apply(i)
  PROVE  OwedInv'
<1>1. /\ bloc \in Bloc /\ task \in [Handler -> Task] /\ task[i].pc = "idle" /\ UNCHANGED page
      /\ page \in {"dashboard", "graphics"}
      /\ CompleterLoads /\ WaitersAreHeard /\ KindsFit /\ BusyIsOwed
  BY DEF IInv, TypeOK, OwedInv, Apply, New
<1>2. PICK kind \in {"apply", "target"} :
        /\ kind = "target" => page = "graphics"
        /\ task' = [task EXCEPT ![i] = [Idle EXCEPT !.kind = kind, !.pc = "write"]]
  BY DEF Apply
<1>. DEFINE t == [Idle EXCEPT !.kind = kind, !.pc = "write"]
<1>3. t.pc = "write" /\ t.kind = kind
  BY IdleType DEF Task
<1>4. task'[i] = t /\ \A j \in Handler \ {i} : task'[j] = task[j]
  BY <1>1, <1>2
<1>. HIDE DEF t
<1>5. /\ bloc'.inFlight = bloc.inFlight /\ bloc'.completer = bloc.completer
      /\ bloc'.closing = bloc.closing
  BY <1>1 DEF Apply, Bloc
<1>6. CompleterLoads'
  BY <1>1, <1>4, <1>5 DEF CompleterLoads, Loads
<1>7. WaitersAreHeard'
  BY <1>1, <1>3, <1>4, <1>5 DEF WaitersAreHeard
<1>8. KindsFit'
  BY <1>1, <1>2, <1>3, <1>4 DEF KindsFit
<1>9. BusyIsOwed'
  BY <1>1, <1>2, <1>3, <1>4 DEF BusyIsOwed, Ends
<1>. QED BY <1>6, <1>7, <1>8, <1>9 DEF OwedInv

LEMMA ConfirmedOwes ==
  ASSUME IInv, OwedInv, NEW i \in Handler, Confirmed(i)
  PROVE  OwedInv'
<1>. DEFINE t == [task[i] EXCEPT !.wrote = hardware + 1]
<1>1. /\ task[i] \in Task /\ bloc \in Bloc /\ task[i].pc \in {"idle", "write"}
      /\ task[i].kind = "apply" /\ UNCHANGED page /\ Reload(i, t, bloc)
  BY DEF IInv, TypeOK, Confirmed
<1>2. t \in Task /\ t.kind = "apply"
  BY <1>1, ConfirmedTask DEF Task
<1>. HIDE DEF t
<1>. QED BY <1>1, <1>2, ReloadOwes

LEMMA FailedOwes ==
  ASSUME IInv, OwedInv, NEW i \in Handler, Failed(i)
  PROVE  OwedInv'
<1>1. /\ task \in [Handler -> Task] /\ task[i] \in Task /\ bloc \in Bloc
      /\ task[i].pc = "write" /\ UNCHANGED page
      /\ CompleterLoads /\ WaitersAreHeard /\ KindsFit
  BY DEF IInv, TypeOK, OwedInv, Failed
<1>2. CASE page = "graphics" /\ Reload(i, [task[i] EXCEPT !.error = TRUE], bloc)
  <2>. DEFINE t == [task[i] EXCEPT !.error = TRUE]
  <2>1. t \in Task /\ Reload(i, t, bloc)
    BY <1>1, <1>2 DEF Task
  <2>. HIDE DEF t
  <2>. QED BY <1>1, <1>2, <2>1, ReloadOwes
<1>3. CASE /\ task' = [task EXCEPT ![i] = Idle]
           /\ bloc' = Emit([bloc EXCEPT !.applying = FALSE, !.error = TRUE])
  <2>1. task'[i] = Idle /\ \A j \in Handler \ {i} : task'[j] = task[j]
    BY <1>1, <1>3
  <2>2. /\ bloc'.inFlight = bloc.inFlight /\ bloc'.completer = bloc.completer
        /\ bloc'.applying => bloc'.closing
    BY <1>1, <1>3 DEF Emit, Bloc
  <2>3. CompleterLoads'
    BY <1>1, <2>1, <2>2 DEF CompleterLoads, Loads
  <2>4. WaitersAreHeard'
    BY <1>1, <2>1, <2>2, IdleType DEF WaitersAreHeard
  <2>5. KindsFit'
    BY <1>1, <2>1, IdleType DEF KindsFit
  <2>. QED BY <2>2, <2>3, <2>4, <2>5 DEF OwedInv, BusyIsOwed
<1>. QED BY <1>2, <1>3 DEF Failed

LEMMA ReadOwes ==
  ASSUME IInv, OwedInv, NEW i \in Handler, Read(i)
  PROVE  OwedInv'
<1>. DEFINE t == [task[i] EXCEPT !.pc = "loaded", !.read = hardware]
<1>1. /\ task \in [Handler -> Task] /\ task[i].pc = "load" /\ UNCHANGED <<page, bloc>>
      /\ CompleterLoads /\ WaitersAreHeard /\ KindsFit /\ BusyIsOwed
  BY DEF IInv, TypeOK, OwedInv, Read
<1>2. task' = [task EXCEPT ![i] = t] /\ t.pc = "loaded" /\ t.kind = task[i].kind
  BY <1>1 DEF Read, Task
<1>. HIDE DEF t
<1>3. task'[i] = t /\ \A j \in Handler \ {i} : task'[j] = task[j]
  BY <1>1, <1>2
<1>4. CompleterLoads'
  BY <1>1, <1>2, <1>3 DEF CompleterLoads, Loads
<1>5. WaitersAreHeard' /\ KindsFit'
  BY <1>1, <1>2, <1>3 DEF WaitersAreHeard, KindsFit
<1>6. \A j \in Handler : Ends(task[j]) => Ends(task[j])'
  BY <1>1, <1>2, <1>3 DEF Ends, Loads
<1>7. BusyIsOwed'
  BY <1>1, <1>6 DEF BusyIsOwed
<1>. QED BY <1>4, <1>5, <1>7 DEF OwedInv

\* The end of a load wakes everybody who waits; the graphics page is then no
\* longer busy, and the dashboard only if the load was not the write's own.
LEMMA EndLoadOwes ==
  ASSUME IInv, OwedInv, NEW i \in Handler, NEW b \in Bloc, EndLoad(i, b),
         task[i].pc \in {"load", "loaded"}, b.closing = bloc.closing,
         b.applying => bloc.applying /\ page = "dashboard"
  PROVE  OwedInv'
<1>1. /\ bloc \in Bloc /\ task \in [Handler -> Task] /\ page \in {"dashboard", "graphics"}
      /\ CompleterLoads /\ WaitersAreHeard /\ KindsFit /\ BusyIsOwed /\ UNCHANGED page
  BY DEF IInv, TypeOK, OwedInv, EndLoad
<1>2. /\ bloc'.closing = Emit(b).closing
      /\ bloc'.applying <=>
           /\ Emit(b).applying
           /\ ~(task[i].kind = "apply" /\ page = "dashboard" /\ ~bloc.closing)
      /\ bloc'.inFlight <=> Reloading(i) # {}
      /\ Reloading(i) # {} => bloc'.completer \in Reloading(i)
      /\ \A j \in Handler :
           /\ j \in Reloading(i) =>
                task'[j].pc = "load" /\ task'[j].kind = task[j].kind
           /\ j \notin Reloading(i) =>
                task'[j] = IF j \in Woken(i) \cup {i} THEN Idle ELSE task[j]
  BY EndLoadFields
<1>3. Reloading(i) \subseteq Handler
  BY DEF Reloading, Woken
<1>4. \A j \in Handler : task[j].pc = "wait" => j \in Woken(i)
  BY <1>1 DEF WaitersAreHeard, Woken
<1>5. CompleterLoads'
  BY <1>2, <1>3 DEF CompleterLoads, Loads
<1>6. \A j \in Handler : task'[j].pc # "wait"
  BY <1>2, <1>4, IdleType
<1>7. WaitersAreHeard'
  BY <1>6 DEF WaitersAreHeard
<1>8. KindsFit'
  BY <1>1, <1>2, IdleType DEF KindsFit
<1>9. BusyIsOwed'
  <2>1. SUFFICES ASSUME bloc'.applying, ~bloc'.closing
                 PROVE  \E j \in Handler : Ends(task[j])'
    BY DEF BusyIsOwed
  <2>2. ~bloc.closing /\ Emit(b) = b
    BY <1>2, <2>1 DEF Emit
  <2>3. page = "dashboard" /\ bloc.applying /\ task[i].kind # "apply"
    BY <1>2, <2>1, <2>2
  <2>4. PICK k \in Handler : Ends(task[k])
    BY <1>1, <2>2, <2>3 DEF BusyIsOwed
  <2>5. k # i /\ k \notin Woken(i)
    BY <1>1, <2>3, <2>4 DEF Ends, Woken, WaitersAreHeard
  <2>6. task'[k] = task[k]
    BY <1>2, <2>5 DEF Reloading
  <2>. QED BY <1>1, <2>4, <2>6 DEF Ends
<1>. QED BY <1>5, <1>7, <1>8, <1>9 DEF OwedInv

LEMMA LoadOwes ==
  ASSUME IInv, OwedInv, NEW i \in Handler, LoadEnds(i) \/ LoadFails(i)
  PROVE  OwedInv'
<1>1. bloc \in Bloc /\ task[i] \in Task
  BY DEF IInv, TypeOK
<1>2. CASE LoadEnds(i)
  <2>. DEFINE a == bloc.applying /\ page = "dashboard"
              n == IF page = "dashboard" THEN bloc.notice ELSE 0
              b == [bloc EXCEPT !.shown = task[i].read, !.error = task[i].error,
                                !.applying = @ /\ page = "dashboard",
                                !.notice = IF page = "dashboard" THEN @ ELSE 0]
  <2>1. b \in Bloc
    BY <1>1, LoadedBloc
  <2>2. b = [bloc EXCEPT !.shown = task[i].read, !.error = task[i].error,
                         !.applying = a, !.notice = n]
    OBVIOUS
  <2>3. EndLoad(i, b) /\ task[i].pc = "loaded"
    BY <1>2 DEF LoadEnds
  <2>. HIDE DEF a, n, b
  <2>4. b.closing = bloc.closing /\ b.applying = a
    BY <1>1, <2>2 DEF Bloc
  <2>5. b.applying => bloc.applying /\ page = "dashboard"
    BY <2>4 DEF a
  <2>. QED BY <2>1, <2>3, <2>4, <2>5, EndLoadOwes
<1>3. CASE LoadFails(i)
  <2>. DEFINE b == [bloc EXCEPT !.error = TRUE, !.applying = StillApplying]
  <2>1. /\ b \in Bloc /\ b.closing = bloc.closing
        /\ b.applying => bloc.applying /\ page = "dashboard"
    BY <1>1 DEF Bloc, StillApplying
  <2>2. EndLoad(i, b) /\ task[i].pc \in {"load", "loaded"}
    BY <1>3 DEF LoadFails
  <2>. HIDE DEF b
  <2>. QED BY <2>1, <2>2, EndLoadOwes
<1>. QED BY <1>2, <1>3

LEMMA OtherOwes ==
  ASSUME IInv, OwedInv, LateEnd \/ Close \/ Gone \/ UNCHANGED vars
  PROVE  OwedInv'
<1>1. UNCHANGED <<page, task>>
  BY DEF LateEnd, Close, Gone, vars
<1>2. /\ bloc'.inFlight = bloc.inFlight /\ bloc'.completer = bloc.completer
      /\ bloc'.applying = bloc.applying /\ (bloc.closing => bloc'.closing)
  BY DEF LateEnd, Close, Gone, vars, IInv, TypeOK, Bloc
<1>. QED BY <1>1, <1>2 DEF OwedInv, CompleterLoads, WaitersAreHeard, KindsFit, BusyIsOwed,
                           Ends, Loads

LEMMA InitOwed == Init => OwedInv
BY IdleType DEF Init, OwedInv, CompleterLoads, WaitersAreHeard, KindsFit, BusyIsOwed

LEMMA StepOwed == IInv /\ OwedInv /\ [Next]_vars => OwedInv'
BY BeginOwes, ApplyOwes, ConfirmedOwes, FailedOwes, ReadOwes, LoadOwes, OtherOwes DEF Next

LEMMA OwedInvariance == Spec => []OwedInv
BY InitOwed, StepOwed, Invariance, PTL DEF Spec

\* The safety half of BusyEnds: while the page is busy and open there is a
\* handler whose next end clears the busy state, however the loads of other
\* handlers overlap (_reloadState of dgpu_bloc.dart, _loadStatus of
\* dashboard_bloc.dart).
THEOREM BusyIsAlwaysOwed == Spec => []BusyIsOwed
<1>1. OwedInv => BusyIsOwed
  BY DEF OwedInv
<1>. QED BY OwedInvariance, <1>1, PTL

\* Nobody waits for a load that is over: whoever waits on the graphics page
\* waits for the current completer, whose handler does load.
NobodyWaitsInVain ==
  \A i \in Handler :
    task[i].pc = "wait" =>
      /\ page = "graphics" /\ bloc.inFlight /\ task[i].on = bloc.completer
      /\ bloc.completer \in Handler /\ Loads(task[bloc.completer])

\* No wake-up is lost: a load that ends completes the completer its waiters hold
\* (_refreshCompleter of dgpu_bloc.dart), even when several handlers load.
THEOREM NobodyWaitsInVainHolds == Spec => []NobodyWaitsInVain
<1>1. OwedInv => NobodyWaitsInVain
  BY DEF OwedInv, CompleterLoads, WaitersAreHeard, NobodyWaitsInVain
<1>. QED BY OwedInvariance, <1>1, PTL
=============================================================================
