-------------------------- MODULE GraphicsBootProofs --------------------------
(***************************************************************************)
(* Proofs about GraphicsBoot, for any number of requests and boots.        *)
(*                                                                         *)
(* The invariant says who may hold which state of the request (Roles),     *)
(* what the file, the disk and the helpers have in common (Files), and     *)
(* that no state that exists anywhere contradicts what was answered or     *)
(* selected (Sound).                                                       *)
(***************************************************************************)
EXTENDS GraphicsBoot, TLAPS

Pc(h) == helper[h].pc
DocOf(h) == helper[h].doc

Writing == {"write", "replace", "sync"}
Attempt == {"check", "set", "reconcile", "cleanup", "verify"}

\* flock: one helper works at a time.
Serial == Pc("control") = "idle" \/ Pc("boot") = "idle"

\* What each helper may hold where.
ControlRole ==
  /\ Pc("control") \in Writing \cup {"idle"}
  /\ Pc("control") # "idle" => DocOf("control").phase \in {"pending", "cancelled"}

BootRole ==
  /\ Pc("boot") \in Writing => DocOf("boot").phase \in {"applying", "failed", "completed"}
  /\ Pc("boot") \in {"check", "set", "verify"} => DocOf("boot").phase = "applying"
  /\ Pc("boot") = "manager" =>
       DocOf("boot").phase \in {"none", "pending", "completed", "cancelled"}
  /\ Pc("boot") \in {"reconcile", "cleanup"} =>
       DocOf("boot").phase \in {"none", "applying", "completed", "cancelled"}

\* systemd waits for the unit, and a request is for a later boot.
Startup ==
  /\ Pc("boot") # "idle" => machine.unit = "activating"
  /\ Pc("boot") \notin {"idle", "manager"} => machine.manager = "starting"
  /\ Pc("boot") # "idle" /\ DocOf("boot").phase = "applying" =>
       DocOf("boot").boot # machine.boot

\* The file among the contents that the disk may hold, and what a helper knows
\* of them.
Files ==
  /\ file \in disk
  /\ \A h \in Helpers : Pc(h) = "sync" => file = DocOf(h)
  /\ Pc("boot") = "manager" => file = DocOf("boot")
  /\ Pc("boot") \in Attempt /\ DocOf("boot").phase # "applying" => file = DocOf("boot")
  /\ Pc("boot") \in Attempt /\ DocOf("boot").phase = "applying" => disk = {DocOf("boot")}

\* A state of a request agrees with what was answered and selected.
Sound(d) ==
  /\ d.phase # "none" => d.req \in 1..history.made
  /\ \A r \in history.accepted : d.req >= r
  /\ d.req \in history.cancelled => d.phase = "cancelled"
  /\ d.phase = "pending" => history.selected[d.req] = 0
  /\ d.phase = "completed" => history.selected[d.req] = 1

States ==
  /\ \A d \in disk : Sound(d)
  /\ \A h \in Helpers : Pc(h) # "idle" => Sound(DocOf(h))

\* A consumed request is selected once, at its place.
Selection ==
  /\ \A r \in Requests : history.selected[r] <= 1
  /\ \A r \in Requests : r > history.made => history.selected[r] = 0
  /\ Pc("boot") \in Writing \cup {"check", "set"} /\ DocOf("boot").phase = "applying" =>
       history.selected[DocOf("boot").req] = 0
  /\ Pc("boot") \in {"reconcile", "cleanup", "verify"} /\ DocOf("boot").phase = "applying" =>
       history.selected[DocOf("boot").req] = 1

\* Only requests that were made are answered.
Answers == history.accepted \cup history.cancelled \subseteq 1..history.made

IInv ==
  /\ TypeOK /\ Serial /\ ControlRole /\ BootRole /\ Startup
  /\ Files /\ States /\ Selection /\ Answers


-----------------------------------------------------------------------------
(* Effects of the parts of an action.                                      *)

Pcs == {"idle", "manager", "write", "replace", "sync"} \cup Attempt

\* Helper h is now at pc with doc, the other one where it was.
Moves(h, pc, doc) ==
  /\ Pc(h)' = pc /\ DocOf(h)' = doc
  /\ \A g \in Helpers \ {h} : Pc(g)' = Pc(g) /\ DocOf(g)' = DocOf(g)

LEMMA HelperType ==
  ASSUME TypeOK, NEW h \in Helpers
  PROVE  Pc(h) \in Pcs /\ DocOf(h) \in Doc
BY DEF TypeOK, HelperState, Pc, DocOf, Pcs, Attempt

LEMMA GotoEffect ==
  ASSUME TypeOK, NEW h \in Helpers, NEW pc \in Pcs, NEW doc \in Doc, Goto(h, pc, doc)
  PROVE  helper' \in [Helpers -> HelperState] /\ Moves(h, pc, doc)
<1>1. helper' \in [Helpers -> HelperState]
  BY DEF TypeOK, Pcs, Attempt, Goto, HelperState
<1>2. Moves(h, pc, doc)
  BY DEF TypeOK, Goto, Moves, Pc, DocOf
<1> QED BY <1>1, <1>2

LEMMA EndEffect ==
  ASSUME TypeOK, NEW h \in Helpers, Succeed(h) \/ Fail(h)
  PROVE  /\ helper' \in [Helpers -> HelperState] /\ Moves(h, "idle", NoDoc)
         /\ machine' \in Machine
         /\ machine'.boot = machine.boot /\ machine'.manager = machine.manager
         /\ h = "control" => machine' = machine
<1>1. Idle \in HelperState
  BY BoundsAssumption DEF Idle, NoDoc, HelperState, Doc, Phases
<1>2. helper' \in [Helpers -> HelperState]
  BY <1>1 DEF TypeOK, Succeed, Fail
<1>3. Moves(h, "idle", NoDoc)
  BY DEF TypeOK, Succeed, Fail, Idle, Moves, Pc, DocOf
<1>4. /\ machine' \in Machine
      /\ machine'.boot = machine.boot /\ machine'.manager = machine.manager
      /\ h = "control" => machine' = machine
  BY DEF TypeOK, Succeed, Fail, UnitEnds, Machine
<1> QED BY <1>2, <1>3, <1>4

LEMMA FailedType ==
  ASSUME NEW doc \in Doc
  PROVE  FailedState(doc) \in Doc /\ FailedState(doc).phase = "failed"
         /\ FailedState(doc).req = doc.req
BY DEF FailedState, Doc, Phases

\* Without a change of the history what was sound remains so.
LEMMA StillSound ==
  ASSUME UNCHANGED history, NEW d, Sound(d)
  PROVE  Sound(d)'
BY DEF Sound

LEMMA FailedSound ==
  ASSUME NEW d \in Doc, Sound(d), d.phase \in {"applying", "completed"}
  PROVE  Sound(FailedState(d))
BY FailedType DEF Sound

-----------------------------------------------------------------------------
(* Each action keeps the invariant.                                        *)

LEMMA WriteKeeps ==
  ASSUME IInv, NEW h \in Helpers, Write(h)
  PROVE  IInv'
<1>1. /\ Moves(h, "replace", DocOf(h)) /\ Pc(h) = "write" /\ TypeOK'
      /\ UNCHANGED <<file, disk, machine, history>>
  <2>1. Goto(h, "replace", DocOf(h)) /\ Pc(h) = "write"
        /\ UNCHANGED <<file, disk, machine, history>>
    BY DEF Write, Pc, DocOf
  <2>2. Moves(h, "replace", DocOf(h)) /\ helper' \in [Helpers -> HelperState]
    BY <2>1, HelperType, GotoEffect DEF IInv, Pcs
  <2> QED BY <2>1, <2>2 DEF IInv, TypeOK
<1>2. (Serial /\ ControlRole /\ BootRole /\ Startup /\ Files)'
  BY <1>1 DEF IInv, Moves, Serial, ControlRole, BootRole, Startup, Files, Helpers, Writing, Attempt
<1>3. States'
  BY <1>1, StillSound DEF IInv, Moves, States
<1>4. Selection' /\ Answers'
  BY <1>1 DEF IInv, Moves, Selection, Answers, Helpers, Writing
<1> QED BY <1>1, <1>2, <1>3, <1>4 DEF IInv

LEMMA ReplaceKeeps ==
  ASSUME IInv, NEW h \in Helpers, Replace(h)
  PROVE  IInv'
<1>1. /\ Moves(h, "sync", DocOf(h)) /\ Pc(h) = "replace"
      /\ file' = DocOf(h) /\ disk' = disk \cup {DocOf(h)}
      /\ UNCHANGED <<machine, history>> /\ TypeOK'
  <2>1. /\ Goto(h, "sync", DocOf(h)) /\ Pc(h) = "replace"
        /\ file' = DocOf(h) /\ disk' = disk \cup {DocOf(h)} /\ UNCHANGED <<machine, history>>
    BY DEF Replace, Pc, DocOf
  <2>2. Moves(h, "sync", DocOf(h)) /\ helper' \in [Helpers -> HelperState] /\ DocOf(h) \in Doc
    BY <2>1, HelperType, GotoEffect DEF IInv, Pcs
  <2> QED BY <2>1, <2>2 DEF IInv, TypeOK
<1>2. (Serial /\ ControlRole /\ BootRole /\ Startup /\ Files)'
  BY <1>1 DEF IInv, Moves, Serial, ControlRole, BootRole, Startup, Files, Helpers, Writing, Attempt
<1>3. States'
  BY <1>1, StillSound DEF IInv, Moves, States
<1>4. Selection' /\ Answers'
  BY <1>1 DEF IInv, Moves, Selection, Answers, Helpers, Writing
<1> QED BY <1>1, <1>2, <1>3, <1>4 DEF IInv

LEMMA EndKeeps ==
  ASSUME IInv, NEW h \in Helpers, Succeed(h) \/ Fail(h), UNCHANGED <<file, disk, history>>
  PROVE  IInv'
<1>1. /\ Moves(h, "idle", NoDoc) /\ TypeOK'
      /\ machine'.boot = machine.boot /\ machine'.manager = machine.manager
      /\ h = "control" => machine' = machine
  BY EndEffect DEF IInv, TypeOK
<1>2. (Serial /\ ControlRole /\ BootRole /\ Startup /\ Files)'
  BY <1>1 DEF IInv, Moves, Serial, ControlRole, BootRole, Startup, Files, Helpers, Writing, Attempt
<1>3. States'
  BY <1>1, StillSound DEF IInv, Moves, States
<1>4. Selection' /\ Answers'
  BY <1>1 DEF IInv, Moves, Selection, Answers, Helpers, Writing
<1> QED BY <1>1, <1>2, <1>3, <1>4 DEF IInv

LEMMA RaiseKeeps ==
  ASSUME IInv, NEW h \in Helpers, Raise(h), Pc(h) # "idle", Pc(h) # "manager",
         UNCHANGED <<file, disk, history>>
  PROVE  IInv'
<1> DEFINE d == DocOf(h)
<1>1. CASE Fail(h)
  BY <1>1, EndKeeps
<1>2. CASE /\ Goto(h, "write", FailedState(d)) /\ UNCHANGED machine
           /\ d.phase \in {"applying", "completed"}
  <2>1. /\ Moves(h, "write", FailedState(d)) /\ FailedState(d).phase = "failed" /\ TypeOK'
        /\ Sound(FailedState(d))
    BY <1>2, HelperType, GotoEffect, FailedType, FailedSound DEF IInv, TypeOK, States, Pcs
  <2>2. h = "boot"
    BY <1>2 DEF IInv, ControlRole, Helpers
  <2>3. (Serial /\ ControlRole /\ BootRole /\ Startup /\ Files)'
    BY <1>2, <2>1, <2>2 DEF IInv, Moves, Serial, ControlRole, BootRole, Startup, Files, Helpers,
                       Writing, Attempt
  <2>4. States'
    BY <2>1, StillSound DEF IInv, Moves, States
  <2>5. Selection' /\ Answers'
    BY <2>1, <2>2 DEF IInv, Moves, Selection, Answers, Helpers, Writing
  <2> QED BY <2>1, <2>3, <2>4, <2>5 DEF IInv
<1> QED BY <1>1, <1>2 DEF Raise, DocOf

LEMMA WriteFailsKeeps ==
  ASSUME IInv, NEW h \in Helpers, WriteFails(h)
  PROVE  IInv'
BY EndKeeps, RaiseKeeps DEF WriteFails, Pc

LEMMA KillKeeps ==
  ASSUME IInv, NEW h \in Helpers, Kill(h)
  PROVE  IInv'
BY EndKeeps DEF Kill

LEMMA AcceptEffect ==
  ASSUME history \in History, NEW r \in Requests,
         history' = [history EXCEPT !.accepted = @ \cup {r}]
  PROVE  /\ history' \in History
         /\ history'.made = history.made /\ history'.cancelled = history.cancelled
         /\ history'.selected = history.selected
         /\ history'.accepted = history.accepted \cup {r}
BY DEF History

LEMMA CancelEffect ==
  ASSUME history \in History, NEW r \in Requests, NEW c, c = history.cancelled \cup {r},
         history' = [history EXCEPT !.cancelled = @ \cup {r}, !.reported = @ \cup {r}]
  PROVE  /\ history' \in History
         /\ history'.made = history.made /\ history'.accepted = history.accepted
         /\ history'.selected = history.selected
         /\ history'.cancelled = c
BY DEF History

LEMMA SyncKeeps ==
  ASSUME IInv, NEW h \in Helpers, Sync(h)
  PROVE  IInv'
<1> DEFINE d == DocOf(h)
<1>1. disk' = {d} /\ file' = d /\ file = d /\ Sound(d) /\ d \in Doc /\ Pc(h) = "sync"
  BY HelperType DEF IInv, Sync, Files, States, Pc, DocOf
<1>2. /\ d.phase \in {"pending", "cancelled", "applying", "failed", "completed"}
      /\ d.phase \in {"pending", "cancelled"} <=> h = "control"
  BY <1>1 DEF IInv, ControlRole, BootRole, Helpers, Writing
<1>3. d.req \in Requests
  BY <1>1, <1>2, BoundsAssumption DEF Sound, IInv, TypeOK, History, Requests
<1>4. /\ d.phase = "pending" => history' = [history EXCEPT !.accepted = @ \cup {d.req}]
      /\ d.phase = "cancelled" =>
           history' = [history EXCEPT !.cancelled = @ \cup {d.req},
                                      !.reported = @ \cup {d.req}]
      /\ d.phase \in {"applying", "failed", "completed"} => history' = history
  BY DEF Sync, Written, DocOf
<1>5. /\ history' \in History
      /\ history'.made = history.made /\ history'.selected = history.selected
      /\ history'.accepted = history.accepted \cup (IF d.phase = "pending" THEN {d.req} ELSE {})
      /\ history'.cancelled =
           history.cancelled \cup (IF d.phase = "cancelled" THEN {d.req} ELSE {})
  BY <1>2, <1>3, <1>4, AcceptEffect, CancelEffect DEF IInv, TypeOK
<1>6. \/ d.phase = "applying" /\ Goto(h, "check", d) /\ UNCHANGED machine
      \/ d.phase # "applying" /\ (Succeed(h) \/ Fail(h))
  BY <1>2 DEF Sync, Written, DocOf
<1>7. /\ TypeOK'
      /\ machine'.boot = machine.boot /\ machine'.manager = machine.manager
      /\ \/ d.phase = "applying" /\ Moves(h, "check", d) /\ UNCHANGED machine
         \/ d.phase # "applying" /\ Moves(h, "idle", NoDoc)
      /\ h = "control" => machine' = machine
  BY <1>1, <1>2, <1>5, <1>6, GotoEffect, EndEffect DEF IInv, TypeOK, Pcs, Attempt
<1>8. (Serial /\ ControlRole /\ BootRole /\ Startup /\ Files)'
  BY <1>1, <1>2, <1>7 DEF IInv, Moves, Serial, ControlRole, BootRole, Startup, Files, Helpers,
                     Writing, Attempt
<1>9. \A x \in Doc : x = d => Sound(x)'
  BY <1>1, <1>2, <1>3, <1>5 DEF Sound, Requests, IInv, TypeOK, History
<1>10. States'
  <2>1. \A g \in Helpers : Pc(g)' # "idle" => DocOf(g)' = d
    BY <1>1, <1>7 DEF IInv, Serial, Moves, Helpers
  <2> QED BY <1>1, <1>9, <2>1 DEF States
<1>11. Selection' /\ Answers'
  <2>1. d.phase = "applying" => history.selected[d.req] = 0
    BY <1>1, <1>2 DEF IInv, Selection, Helpers, Writing
  <2>2. Pc("boot")' # "idle" => d.phase = "applying" /\ DocOf("boot")' = d /\ Pc("boot")' = "check"
    BY <1>1, <1>2, <1>7 DEF IInv, Serial, Moves, Helpers
  <2>3. d.req \in 1..history.made
    BY <1>1, <1>2 DEF Sound
  <2> QED BY <1>5, <2>1, <2>2, <2>3 DEF IInv, Selection, Answers, Writing
<1> QED BY <1>7, <1>8, <1>10, <1>11 DEF IInv

LEMMA RequestKeeps ==
  ASSUME IInv, Request
  PROVE  IInv'
<1> DEFINE r == history.made + 1
           d == [phase |-> "pending", req |-> r, boot |-> machine.boot]
<1>1. /\ r \in Requests /\ history' = [history EXCEPT !.made = r]
      /\ Goto("control", "write", d) /\ UNCHANGED <<file, disk, machine>>
  BY BoundsAssumption DEF IInv, TypeOK, Request, History, Requests
<1>2. d \in Doc
  BY <1>1, BoundsAssumption DEF IInv, TypeOK, Machine, Requests, Doc, Phases
<1>3. /\ history' \in History
      /\ history'.made = r /\ history'.selected = history.selected
      /\ history'.accepted = history.accepted /\ history'.cancelled = history.cancelled
  BY <1>1, BoundsAssumption DEF IInv, TypeOK, History, Requests
<1>4. Pc("control") = "idle" /\ Pc("boot") = "idle"
  BY DEF Request, LockFree, Pc, Helpers
<1>5. Moves("control", "write", d) /\ helper' \in [Helpers -> HelperState]
  BY <1>1, <1>2, GotoEffect DEF IInv, Helpers, Pcs
<1>6. TypeOK'
  BY <1>1, <1>3, <1>5 DEF IInv, TypeOK
<1>7. (Serial /\ ControlRole /\ BootRole /\ Startup /\ Files)'
  BY <1>1, <1>4, <1>5 DEF IInv, Moves, Serial, ControlRole, BootRole, Startup, Files, Helpers,
                     Writing, Attempt
<1>8. \A x \in Doc : Sound(x) => Sound(x)'
  BY <1>3, BoundsAssumption DEF IInv, TypeOK, History, Sound
<1>9. \A x \in Doc : x = d => Sound(x)'
  BY <1>1, <1>3 DEF IInv, TypeOK, History, Sound, Selection, Answers, Requests
<1>10. States'
  BY <1>1, <1>2, <1>4, <1>5, <1>8, <1>9 DEF IInv, TypeOK, Moves, States, Helpers
<1>11. Selection' /\ Answers'
  BY <1>3, <1>4, <1>5 DEF IInv, TypeOK, History, Moves, Selection, Answers, Helpers, Writing, Requests
<1> QED BY <1>6, <1>7, <1>10, <1>11 DEF IInv

LEMMA CancelKeeps ==
  ASSUME IInv, Cancel
  PROVE  IInv'
<1>1. UNCHANGED <<file, disk, machine>> /\ Pc("control") = "idle" /\ Pc("boot") = "idle"
      /\ file \in Doc /\ Sound(file)
  BY DEF Cancel, LockFree, Pc, Helpers, IInv, TypeOK, Files, States
<1>2. CASE file.phase = "pending"
  <2> DEFINE d == [file EXCEPT !.phase = "cancelled"]
  <2>1. Goto("control", "write", d) /\ UNCHANGED history
    BY <1>2 DEF Cancel
  <2>2. d \in Doc /\ d.phase = "cancelled" /\ d.req = file.req
    BY <1>1 DEF Doc, Phases
  <2>3. Moves("control", "write", d) /\ helper' \in [Helpers -> HelperState]
    BY <2>1, <2>2, GotoEffect DEF IInv, Helpers, Pcs
  <2>4. TypeOK'
    BY <1>1, <2>1, <2>3 DEF IInv, TypeOK
  <2>5. (Serial /\ ControlRole /\ BootRole /\ Startup /\ Files)'
    BY <1>1, <2>2, <2>3 DEF IInv, Moves, Serial, ControlRole, BootRole, Startup, Files, Helpers,
                       Writing, Attempt
  <2>6. Sound(d)
    BY <1>1, <1>2, <2>2 DEF Sound
  <2>7. States'
    BY <1>1, <2>1, <2>3, <2>6, StillSound DEF IInv, Moves, States, Helpers
  <2>8. Selection' /\ Answers'
    BY <1>1, <2>1, <2>3 DEF IInv, Moves, Selection, Answers, Helpers, Writing
  <2> QED BY <2>4, <2>5, <2>7, <2>8 DEF IInv
<1>3. CASE file.phase = "cancelled"
  <2>1. UNCHANGED helper /\ history' = [history EXCEPT !.reported = @ \cup {file.req}]
    BY <1>3 DEF Cancel
  <2>2. file.req \in Requests
    BY <1>1, <1>3, BoundsAssumption DEF Sound, IInv, TypeOK, History, Requests
  <2>3. /\ history' \in History
        /\ history'.made = history.made /\ history'.selected = history.selected
        /\ history'.accepted = history.accepted /\ history'.cancelled = history.cancelled
    BY <2>1, <2>2 DEF IInv, TypeOK, History
  <2>4. TypeOK'
    BY <1>1, <2>1, <2>3 DEF IInv, TypeOK
  <2>5. (Serial /\ ControlRole /\ BootRole /\ Startup /\ Files)'
    BY <1>1, <2>1 DEF IInv, Serial, ControlRole, BootRole, Startup, Files, Pc, DocOf
  <2>6. States' /\ Selection' /\ Answers'
    BY <1>1, <2>1, <2>3 DEF IInv, States, Sound, Selection, Answers, Pc, DocOf
  <2> QED BY <2>4, <2>5, <2>6 DEF IInv
<1> QED BY <1>2, <1>3 DEF Cancel

LEMMA UnitStartsKeeps ==
  ASSUME IInv, UnitStarts
  PROVE  IInv'
<1>1. Pc("boot") = "idle" /\ UNCHANGED <<file, disk, history>>
  BY DEF UnitStarts, IInv, Startup
<1>2. file \in Doc /\ Sound(file)
  BY DEF IInv, TypeOK, Files, States
<1>3. CASE LockFree /\ ~Blocked(file)
  <2>1. /\ Goto("boot", "manager", file)
        /\ machine' = [machine EXCEPT !.unit = "activating", !.desktop = FALSE]
    BY <1>3 DEF UnitStarts, StartHelper
  <2>2. machine' \in Machine /\ machine'.unit = "activating"
    BY <2>1 DEF IInv, TypeOK, Machine
  <2>3. Moves("boot", "manager", file) /\ helper' \in [Helpers -> HelperState]
    BY <1>2, <2>1, GotoEffect DEF IInv, Helpers, Pcs
  <2>4. TypeOK'
    BY <1>1, <2>2, <2>3 DEF IInv, TypeOK
  <2>5. file.phase \in {"none", "pending", "completed", "cancelled"} /\ Pc("control") = "idle"
    BY <1>2, <1>3 DEF Blocked, LockFree, Doc, Phases, Pc, Helpers
  <2>6. (Serial /\ ControlRole /\ BootRole /\ Startup /\ Files)'
    BY <1>1, <2>2, <2>3, <2>5 DEF IInv, Moves, Serial, ControlRole, BootRole, Startup, Files,
                             Helpers, Writing, Attempt
  <2>7. States'
    BY <1>1, <1>2, <2>3, StillSound DEF IInv, Moves, States, Helpers
  <2>8. Selection' /\ Answers'
    BY <1>1, <2>3 DEF IInv, Moves, Selection, Answers, Helpers, Writing
  <2> QED BY <2>4, <2>6, <2>7, <2>8 DEF IInv
<1>4. CASE ~(LockFree /\ ~Blocked(file))
  <2>1. UNCHANGED helper /\ machine' = [machine EXCEPT !.unit = "failed", !.desktop = FALSE]
    BY <1>4 DEF UnitStarts, StartHelper
  <2>2. machine' \in Machine
    BY <2>1 DEF IInv, TypeOK, Machine
  <2>3. TypeOK'
    BY <1>1, <2>1, <2>2 DEF IInv, TypeOK
  <2>4. IInv'
    BY <1>1, <2>1, <2>3 DEF IInv, Serial, ControlRole, BootRole, Startup, Files, States, Sound,
                       Selection, Answers, Pc, DocOf, Writing, Attempt
  <2> QED BY <2>4
<1> QED BY <1>3, <1>4

LEMMA AskManagerKeeps ==
  ASSUME IInv, AskManager
  PROVE  IInv'
<1> DEFINE d == DocOf("boot")
<1>1. /\ Pc("boot") = "manager" /\ UNCHANGED <<file, disk, history>>
      /\ Pc("control") = "idle" /\ d \in Doc /\ Sound(d) /\ file = d
      /\ d.phase \in {"none", "pending", "completed", "cancelled"}
  BY HelperType DEF AskManager, IInv, Serial, States, Files, BootRole, Pc, Helpers
<1>2. CASE Deferred(d)
  BY <1>1, <1>2, EndKeeps DEF AskManager, DocOf, Helpers
<1>3. CASE ~Deferred(d) /\ d.phase = "pending"
  <2> DEFINE c == [d EXCEPT !.phase = "applying"]
  <2>1. Goto("boot", "write", c) /\ UNCHANGED machine
    BY <1>3 DEF AskManager, Consume, DocOf
  <2>2. c \in Doc /\ c.phase = "applying" /\ c.req = d.req /\ c.boot = d.boot
    BY <1>1 DEF Doc, Phases
  <2>3. Moves("boot", "write", c) /\ helper' \in [Helpers -> HelperState]
    BY <2>1, <2>2, GotoEffect DEF IInv, Helpers, Pcs
  <2>4. TypeOK'
    BY <1>1, <2>1, <2>3 DEF IInv, TypeOK
  <2>5. (Serial /\ ControlRole /\ BootRole /\ Startup /\ Files)'
    BY <1>1, <1>3, <2>1, <2>2, <2>3 DEF IInv, TypeOK, Machine, Deferred, Moves, Serial,
          ControlRole, BootRole, Startup, Files, Helpers, Writing, Attempt
  <2>6. Sound(c) /\ history.selected[c.req] = 0
    BY <1>1, <1>3, <2>2 DEF Sound
  <2>7. States'
    BY <1>1, <2>3, <2>6, StillSound DEF IInv, Moves, States, Helpers
  <2>8. Selection' /\ Answers'
    BY <1>1, <2>2, <2>3, <2>6 DEF IInv, Moves, Selection, Answers, Helpers, Writing
  <2> QED BY <2>4, <2>5, <2>7, <2>8 DEF IInv
<1>4. CASE ~Deferred(d) /\ d.phase # "pending"
  <2>1. Goto("boot", "reconcile", d) /\ UNCHANGED machine
    BY <1>4 DEF AskManager, DocOf
  <2>2. Moves("boot", "reconcile", d) /\ helper' \in [Helpers -> HelperState]
    BY <1>1, <2>1, GotoEffect DEF IInv, Helpers, Pcs, Attempt
  <2>3. TypeOK'
    BY <1>1, <2>1, <2>2 DEF IInv, TypeOK
  <2>4. (Serial /\ ControlRole /\ BootRole /\ Startup /\ Files)'
    BY <1>1, <1>4, <2>1, <2>2 DEF IInv, TypeOK, Machine, Deferred, Moves, Serial,
          ControlRole, BootRole, Startup, Files, Helpers, Writing, Attempt
  <2>5. States'
    BY <1>1, <2>2, StillSound DEF IInv, Moves, States, Helpers
  <2>6. Selection' /\ Answers'
    BY <1>1, <2>2 DEF IInv, Moves, Selection, Answers, Helpers, Writing
  <2> QED BY <2>3, <2>4, <2>5, <2>6 DEF IInv
<1> QED BY <1>2, <1>3, <1>4

\* The attempt goes on to its next step with the same state.
LEMMA GoOnKeeps ==
  ASSUME IInv, NEW next \in Attempt,
         \/ Pc("boot") = "check" /\ next = "set"
         \/ Pc("boot") = "reconcile" /\ next = "cleanup"
         \/ Pc("boot") = "cleanup" /\ next = "verify" /\ DocOf("boot").phase = "applying",
         Goto("boot", next, DocOf("boot")), UNCHANGED <<file, disk, machine, history>>
  PROVE  IInv'
<1>1. /\ Moves("boot", next, DocOf("boot")) /\ helper' \in [Helpers -> HelperState]
      /\ Pc("boot") # "idle" /\ Pc("boot") # "manager"
  BY HelperType, GotoEffect DEF IInv, Helpers, Pcs
<1>2. TypeOK'
  BY <1>1 DEF IInv, TypeOK
<1>3. (Serial /\ ControlRole /\ BootRole /\ Startup /\ Files)'
  BY <1>1 DEF IInv, Moves, Serial, ControlRole, BootRole, Startup, Files, Helpers, Writing, Attempt
<1>4. States'
  BY <1>1, StillSound DEF IInv, Moves, States, Helpers
<1>5. Selection' /\ Answers'
  BY <1>1 DEF IInv, Moves, Selection, Answers, Helpers, Writing
<1> QED BY <1>2, <1>3, <1>4, <1>5 DEF IInv

LEMMA CheckKeeps ==
  ASSUME IInv, Check
  PROVE  IInv'
BY GoOnKeeps, RaiseKeeps DEF Check, Proceed, Pc, DocOf, Helpers, Attempt

LEMMA ReconcileKeeps ==
  ASSUME IInv, Reconcile
  PROVE  IInv'
BY GoOnKeeps, RaiseKeeps DEF Reconcile, Proceed, Pc, DocOf, Helpers, Attempt

LEMMA CleanupKeeps ==
  ASSUME IInv, Cleanup
  PROVE  IInv'
<1>1. CASE Proceed("cleanup", "verify", helper["boot"].doc) /\ helper["boot"].doc.phase = "applying"
  BY <1>1, GoOnKeeps, RaiseKeeps DEF Cleanup, Proceed, Pc, DocOf, Helpers, Attempt
<1>2. CASE (Succeed("boot") \/ Fail("boot")) /\ UNCHANGED <<file, disk>>
  BY <1>2, EndKeeps DEF Cleanup, Helpers
<1> QED BY <1>1, <1>2 DEF Cleanup

LEMMA VerifyKeeps ==
  ASSUME IInv, Verify
  PROVE  IInv'
<1> DEFINE d == DocOf("boot")
           c == [d EXCEPT !.phase = "completed"]
<1>1. /\ Pc("boot") = "verify" /\ UNCHANGED <<file, disk, history>>
      /\ d.phase = "applying" /\ d \in Doc /\ Sound(d)
  BY HelperType DEF Verify, Proceed, IInv, BootRole, States, Pc, Helpers
<1>2. CASE Raise("boot")
  BY <1>1, <1>2, RaiseKeeps DEF Helpers
<1>3. CASE Goto("boot", "write", c) /\ UNCHANGED machine
  <2>1. c \in Doc /\ c.phase = "completed" /\ c.req = d.req
    BY <1>1 DEF Doc, Phases
  <2>2. Moves("boot", "write", c) /\ helper' \in [Helpers -> HelperState]
    BY <1>3, <2>1, GotoEffect DEF IInv, Helpers, Pcs
  <2>3. TypeOK'
    BY <1>1, <1>3, <2>2 DEF IInv, TypeOK
  <2>4. (Serial /\ ControlRole /\ BootRole /\ Startup /\ Files)'
    BY <1>1, <1>3, <2>1, <2>2 DEF IInv, Moves, Serial, ControlRole, BootRole, Startup, Files,
                             Helpers, Writing, Attempt
  <2>5. Sound(c)
    BY <1>1, <2>1 DEF Sound, IInv, Selection
  <2>6. States'
    BY <1>1, <2>2, <2>5, StillSound DEF IInv, Moves, States, Helpers
  <2>7. Selection' /\ Answers'
    BY <1>1, <2>1, <2>2 DEF IInv, Moves, Selection, Answers, Helpers, Writing
  <2> QED BY <2>3, <2>4, <2>6, <2>7 DEF IInv
<1> QED BY <1>2, <1>3 DEF Verify, Proceed, DocOf

\* The request of the attempt, marked on disk, is selected for the first time.
LEMMA SelectKeeps ==
  ASSUME IInv, Select
  PROVE  IInv'
<1> DEFINE d == DocOf("boot")
<1>1. /\ Pc("boot") = "set" /\ Pc("control") = "idle" /\ UNCHANGED <<file, disk>>
      /\ d.phase = "applying" /\ d \in Doc /\ Sound(d)
      /\ disk = {d} /\ file = d /\ history.selected[d.req] = 0
  BY HelperType DEF Select, Proceed, IInv, Serial, BootRole, Files, States, Selection, Pc, Helpers,
                    Attempt
<1>2. d.req \in Requests /\ d.req \in 1..history.made
  BY <1>1, BoundsAssumption DEF Sound, IInv, TypeOK, History, Requests
<1>3. history' = [history EXCEPT !.selected[d.req] = IF @ < 2 THEN @ + 1 ELSE @]
  BY DEF Select, DocOf
<1>4. /\ history' \in History
      /\ history'.made = history.made /\ history'.accepted = history.accepted
      /\ history'.cancelled = history.cancelled
      /\ history'.selected = [history.selected EXCEPT ![d.req] = 1]
  BY <1>1, <1>2, <1>3 DEF IInv, TypeOK, History
<1>5. /\ TypeOK' /\ machine'.boot = machine.boot /\ machine'.manager = machine.manager
      /\ \/ Moves("boot", "reconcile", d) /\ UNCHANGED machine
         \/ Moves("boot", "write", FailedState(d)) /\ UNCHANGED machine
  <2>1. \/ Goto("boot", "reconcile", d) /\ UNCHANGED machine
        \/ Goto("boot", "write", FailedState(d)) /\ UNCHANGED machine
    BY <1>1 DEF Select, Proceed, Raise, DocOf
  <2>2. \/ Moves("boot", "reconcile", d) /\ UNCHANGED machine
        \/ Moves("boot", "write", FailedState(d)) /\ UNCHANGED machine
    BY <1>1, <2>1, FailedType, GotoEffect DEF IInv, Helpers, Pcs, Attempt
  <2>3. helper' \in [Helpers -> HelperState] /\ UNCHANGED machine
    BY <1>1, <2>1, FailedType, GotoEffect DEF IInv, Helpers, Pcs, Attempt
  <2> QED BY <1>1, <1>4, <2>2, <2>3 DEF IInv, TypeOK
<1>6. (Serial /\ ControlRole /\ BootRole /\ Startup /\ Files)'
  BY <1>1, <1>5, FailedType DEF IInv, Moves, Serial, ControlRole, BootRole, Startup, Files, Helpers,
                           Writing, Attempt
<1>7. \A x \in Doc : x \in {d, FailedState(d)} => Sound(x)'
  BY <1>1, <1>2, <1>4, FailedType DEF Sound
<1>8. States'
  BY <1>1, <1>5, <1>7, FailedType DEF Moves, States, Helpers
<1>9. /\ \A r \in Requests : history'.selected[r] <= 1
      /\ \A r \in Requests : r > history'.made => history'.selected[r] = 0
  BY <1>2, <1>4 DEF IInv, Selection, TypeOK, History, Requests
<1>10. history'.selected[d.req] = 1
  BY <1>2, <1>4 DEF IInv, TypeOK, History
<1>11. Selection' /\ Answers'
  BY <1>4, <1>5, <1>9, <1>10, FailedType, <1>1 DEF IInv, Moves, Selection, Answers, Writing
<1> QED BY <1>5, <1>6, <1>8, <1>11 DEF IInv

LEMMA PowerCycleKeeps ==
  ASSUME IInv, PowerCycle
  PROVE  IInv'
<1>1. /\ file' \in disk /\ disk' = {file'} /\ UNCHANGED history
      /\ helper' = [h \in Helpers |-> Idle] /\ machine' = PoweredOn(machine.boot + 1)
  BY DEF PowerCycle
<1>2. TypeOK'
  BY <1>1, BoundsAssumption DEF PowerCycle, IInv, TypeOK, Machine, PoweredOn, HelperState, Idle, NoDoc,
                               Doc, Phases
<1>3. \A h \in Helpers : Pc(h)' = "idle"
  BY <1>1 DEF Pc, Idle
<1>4. (Serial /\ ControlRole /\ BootRole /\ Startup /\ Files)'
  BY <1>1, <1>3 DEF Serial, ControlRole, BootRole, Startup, Files, Helpers, Writing, Attempt
<1>5. States' /\ Selection' /\ Answers'
  BY <1>1, <1>3, StillSound DEF IInv, States, Selection, Answers, Helpers, Writing
<1> QED BY <1>2, <1>4, <1>5 DEF IInv

LEMMA SystemdProceedsKeeps ==
  ASSUME IInv, SystemdProceeds
  PROVE  IInv'
<1>1. /\ UNCHANGED <<file, disk, helper, history>> /\ machine.unit # "activating"
      /\ machine' \in Machine /\ machine'.boot = machine.boot
  BY DEF SystemdProceeds, IInv, TypeOK, Machine
<1>2. TypeOK'
  BY <1>1 DEF IInv, TypeOK
<1>3. (Serial /\ ControlRole /\ BootRole /\ Startup /\ Files)'
  BY <1>1 DEF IInv, Serial, ControlRole, BootRole, Startup, Files, Pc, DocOf, Writing, Attempt
<1>4. States' /\ Selection' /\ Answers'
  BY <1>1 DEF IInv, States, Sound, Selection, Answers, Pc, DocOf
<1> QED BY <1>2, <1>3, <1>4 DEF IInv

LEMMA InitInv == Init => IInv
<1> SUFFICES ASSUME Init PROVE IInv
  OBVIOUS
<1>1. TypeOK
  BY BoundsAssumption DEF Init, TypeOK, NoDoc, Doc, Phases, Idle, HelperState, PoweredOn, Machine,
                          History, Requests
<1>2. \A h \in Helpers : Pc(h) = "idle"
  BY DEF Init, Pc, Idle
<1>3. Serial /\ ControlRole /\ BootRole /\ Startup /\ Files
  BY <1>2 DEF Init, Serial, ControlRole, BootRole, Startup, Files, Helpers, Writing, Attempt
<1>4. States /\ Selection /\ Answers
  BY <1>2 DEF Init, States, Sound, NoDoc, Selection, Answers, Requests, Helpers, Writing
<1> QED BY <1>1, <1>3, <1>4 DEF IInv

LEMMA StepInv == IInv /\ [Next]_vars => IInv'
<1> SUFFICES ASSUME IInv, [Next]_vars PROVE IInv'
  OBVIOUS
<1>1. CASE UNCHANGED vars
  BY <1>1 DEF vars, IInv, TypeOK, Serial, ControlRole, BootRole, Startup, Files, States, Sound,
              Selection, Answers, Pc, DocOf
<1>2. ASSUME NEW h \in Helpers, Write(h) \/ Replace(h) \/ Sync(h) \/ WriteFails(h) \/ Kill(h)
      PROVE  IInv'
  BY <1>2, WriteKeeps, ReplaceKeeps, SyncKeeps, WriteFailsKeeps, KillKeeps
<1>3. CASE Request \/ Cancel
  BY <1>3, RequestKeeps, CancelKeeps
<1>4. CASE UnitStarts \/ AskManager \/ Check \/ Select \/ Reconcile \/ Cleanup \/ Verify
  BY <1>4, UnitStartsKeeps, AskManagerKeeps, CheckKeeps, SelectKeeps, ReconcileKeeps, CleanupKeeps,
     VerifyKeeps
<1>5. CASE PowerCycle \/ SystemdProceeds
  BY <1>5, PowerCycleKeeps, SystemdProceedsKeeps
<1> QED BY <1>1, <1>2, <1>3, <1>4, <1>5 DEF Next

THEOREM Invariance == Spec => []IInv
<1>1. Init => IInv
  BY InitInv
<1>2. IInv /\ [Next]_vars => IInv'
  BY StepInv
<1> QED BY <1>1, <1>2, PTL DEF Spec

-----------------------------------------------------------------------------
(* The properties.                                                         *)

\* Every variable keeps its type.
THEOREM TypeCorrect == Spec => []TypeOK
BY Invariance, PTL DEF IInv

\* Whatever is killed, restarted or cut off, a request is selected at most once.
THEOREM OneShotHolds == Spec => []OneShot
<1>1. IInv => OneShot
  BY DEF IInv, Selection, States, Sound, OneShot
<1> QED BY <1>1, Invariance, PTL

\* An answered request survives kills and power cuts until a later one.
THEOREM AcceptedRequestIsKeptHolds == Spec => []AcceptedRequestIsKept
<1>1. IInv => AcceptedRequestIsKept
  BY DEF IInv, States, Sound, AcceptedRequestIsKept
<1> QED BY <1>1, Invariance, PTL

\* No hardware command out of place.
THEOREM HardwareIsGuardedHolds == Spec => []HardwareIsGuarded
<1>1. IInv => HardwareIsGuarded
  BY DEF IInv, BootRole, Startup, Files, Attempt, Pc, DocOf, HardwareIsGuarded
<1> QED BY <1>1, Invariance, PTL

\* A request whose cancellation was written is not selected afterwards.
THEOREM CancelHoldsAlways == Spec => CancelHolds
<1>1. ASSUME IInv, [Next]_vars
      PROVE  \A r \in history.cancelled : history'.selected[r] = history.selected[r]
  <2>1. CASE Select
    <3> DEFINE d == DocOf("boot")
    <3>1. d.phase = "applying" /\ Sound(d)
      BY <1>1, <2>1 DEF Select, Proceed, IInv, BootRole, States, Pc, Helpers
    <3>2. d.req \notin history.cancelled
      BY <3>1 DEF Sound
    <3>3. history' = [history EXCEPT !.selected[d.req] = IF @ < 2 THEN @ + 1 ELSE @]
      BY <2>1 DEF Select, DocOf
    <3> QED BY <1>1, <3>2, <3>3 DEF IInv, TypeOK, History
  <2>2. CASE ~Select
    <3>1. history'.selected = history.selected
      BY <1>1, <2>2 DEF Next, vars, Write, Replace, Sync, Written, WriteFails, Kill, Request, Cancel,
           UnitStarts, AskManager, Check, Reconcile, Cleanup, Verify, PowerCycle, SystemdProceeds,
           IInv, TypeOK, History
    <3> QED BY <3>1
  <2> QED BY <2>1, <2>2
<1>2. IInv /\ [Next]_vars =>
        [\A r \in history.cancelled : history'.selected[r] = history.selected[r]]_vars
  BY <1>1
<1> QED BY <1>2, Invariance, PTL DEF Spec, CancelHolds
===============================================================================
