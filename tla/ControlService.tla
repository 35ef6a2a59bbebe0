---------------------------- MODULE ControlService ----------------------------
(***************************************************************************)
(* The LegionControl1 service (control/legion_control_service.cc): D-Bus   *)
(* clients, per-connection Polkit authorization, one control operation at  *)
(* a time on the command runner, and the shutdown of the process.          *)
(*                                                                         *)
(* The main loop runs one callback at a time: method calls and departures  *)
(* in the order of the bus, answers of Polkit and completions of the       *)
(* runner whenever they come.  cmd[k] is the command started for call k;   *)
(* it behaves as CommandRunner promises.                                   *)
(***************************************************************************)
EXTENDS Naturals, Sequences

CONSTANTS
  Client,   \* unique bus names, never reused
  Call,     \* the method calls that may be made, each once
  NoCall    \* no active operation

ASSUME NoCallAssumption == NoCall \notin Call

VARIABLES
  connected,  \* the clients that have not left the bus
  call,       \* call[k]: the method call and the answers it got
  inbox,      \* calls and departures the bus has sent to the service
  polkit,     \* polkit[k]: the authorization check made for Authorize call k
  cmd,        \* the runner's commands
  temp,       \* the calls whose payload file exists
  ctx         \* the service's Ctx

vars == <<connected, call, inbox, polkit, cmd, temp, ctx>>

Runner == INSTANCE CommandRunner WITH Op <- Call

\* GetCapabilities needs no authorization; an upload passes a private file.
Methods == {"GetCapabilities", "Authorize", "Write", "Upload"}

CallState ==
  [method  : Methods \cup {"unsent"},
   sender  : Client \cup {"nobody"},
   answers : 0..2,                       \* an invocation is answered once
   reply   : {"none", "done", "error"}]

Events == [kind : {"call"}, id : Call] \cup [kind : {"left"}, id : Client]

Ctx ==
  [phase         : {"running", "draining", "cancelling", "exited"},
   auth          : SUBSET Client,
   pending       : SUBSET Client,        \* clients with a cancellable check
   active        : Call \cup {NoCall},
   disconnected  : BOOLEAN,              \* the active command was cancelled
   cleanupFailed : BOOLEAN]

TypeOK ==
  /\ connected \subseteq Client
  /\ call \in [Call -> CallState]
  /\ inbox \in Seq(Events)
  /\ polkit \in [Call -> {"none", "asking", "cancelled"}]
  /\ cmd \in [Call -> Runner!Commands]
  /\ temp \subseteq Call
  /\ ctx \in Ctx

Init ==
  /\ connected = Client
  /\ call = [k \in Call |-> [method |-> "unsent", sender |-> "nobody",
                             answers |-> 0, reply |-> "none"]]
  /\ inbox = <<>>
  /\ polkit = [k \in Call |-> "none"]
  /\ Runner!Init
  /\ temp = {}
  /\ ctx = [phase |-> "running", auth |-> {}, pending |-> {}, active |-> NoCall,
            disconnected |-> FALSE, cleanupFailed |-> FALSE]

-----------------------------------------------------------------------------
(* The clients and the bus.                                                *)

Send(k) ==
  /\ call[k].method = "unsent"
  /\ \E c \in connected, m \in Methods :
       call' = [call EXCEPT ![k].method = m, ![k].sender = c]
  /\ inbox' = Append(inbox, [kind |-> "call", id |-> k])
  /\ UNCHANGED <<connected, polkit, cmd, temp, ctx>>

Leave(c) ==
  /\ c \in connected
  /\ connected' = connected \ {c}
  /\ inbox' = Append(inbox, [kind |-> "left", id |-> c])
  /\ UNCHANGED <<call, polkit, cmd, temp, ctx>>

-----------------------------------------------------------------------------
(* Handling a method call.                                                 *)

Answered(c, reply) ==
  [c EXCEPT !.answers = IF c.answers = 0 THEN 1 ELSE 2, !.reply = reply]

Answer(k, reply) == call' = [call EXCEPT ![k] = Answered(call[k], reply)]

\* Call k, of a method in ms, is at the head of the inbox.
Handling(k, ms) ==
  /\ ctx.phase = "running"
  /\ inbox # <<>>
  /\ Head(inbox) = [kind |-> "call", id |-> k]
  /\ call[k].method \in ms
  /\ inbox' = Tail(inbox)

GetCapabilities(k) ==
  /\ Handling(k, {"GetCapabilities"})
  /\ Answer(k, "done")
  /\ UNCHANGED <<connected, polkit, cmd, temp, ctx>>

\* Mutated form: the check for a pending authorization does not return.
AuthorizeFallsThrough(k) ==
  /\ Handling(k, {"Authorize"})
  /\ \/ call[k].sender \in ctx.auth /\ Answer(k, "done") /\ UNCHANGED polkit
     \/ /\ call[k].sender \in ctx.pending \ ctx.auth /\ Answer(k, "error")
        /\ polkit' = [polkit EXCEPT ![k] = "asking"]
  /\ UNCHANGED <<connected, cmd, temp, ctx>>

\* Authorize for a client that is authorized already or is being asked.
AuthorizeAgain(k) ==
  /\ Handling(k, {"Authorize"})
  /\ \/ call[k].sender \in ctx.auth /\ Answer(k, "done")
     \/ call[k].sender \in ctx.pending \ ctx.auth /\ Answer(k, "error")
  /\ UNCHANGED <<connected, polkit, cmd, temp, ctx>>

AuthorizeAsk(k) ==
  /\ Handling(k, {"Authorize"})
  /\ call[k].sender \notin ctx.auth \cup ctx.pending
  /\ polkit' = [polkit EXCEPT ![k] = "asking"]
  /\ ctx' = [ctx EXCEPT !.pending = @ \cup {call[k].sender}]
  /\ UNCHANGED <<connected, call, cmd, temp>>

\* Mutated form: an uncertain cleanup is forgotten.
UsableAgain == ctx.active = NoCall

\* Mutated form: a running operation is replaced.
UsableOnce == ~ctx.cleanupFailed

Usable == ctx.active = NoCall /\ ~ctx.cleanupFailed

\* authorized, the validation in dispatch and invoke: whether a request is
\* valid, supported and can be stored is left open.  invoke unlinks the
\* payload of a request that it refuses.
Refuse(k) ==
  /\ Handling(k, {"Write", "Upload"})
  /\ \E valid \in BOOLEAN : ~(call[k].sender \in ctx.auth /\ valid /\ Usable)
  /\ Answer(k, "error")
  /\ UNCHANGED <<connected, polkit, cmd, temp, ctx>>

\* invoke: the payload is on disk before the command starts.
Invoke(k) ==
  /\ Handling(k, {"Write", "Upload"})
  /\ call[k].sender \in ctx.auth
  /\ Usable
  /\ temp' = IF call[k].method = "Upload" THEN temp \cup {k} ELSE temp
  /\ ctx' = [ctx EXCEPT !.active = k, !.disconnected = FALSE]
  /\ Runner!Start(k)
  /\ UNCHANGED <<connected, call, polkit>>

-----------------------------------------------------------------------------
(* The other callbacks.                                                    *)

\* Mutated form: the result counts although its client may have left.
CheckIsKnownAlways(k) == TRUE

\* auth_done finds its check by the sender.
CheckIsKnown(k) == call[k].sender \in ctx.pending

AuthDone(k) ==
  /\ ctx.phase # "exited"
  /\ polkit[k] # "none"
  /\ polkit' = [polkit EXCEPT ![k] = "none"]
  /\ \/ ~CheckIsKnown(k) /\ UNCHANGED <<call, ctx>>
     \/ /\ CheckIsKnown(k)
        /\ Answer(k, "done")
        /\ ctx' = [ctx EXCEPT !.pending = @ \ {call[k].sender},
                              !.auth = @ \cup {call[k].sender}]
     \/ /\ CheckIsKnown(k)
        /\ Answer(k, "error")
        /\ ctx' = [ctx EXCEPT !.pending = @ \ {call[k].sender}]
  /\ UNCHANGED <<connected, inbox, cmd, temp>>

\* Mutated form: a backend that exited unsuccessfully counts as done.
ReplyOptimistic(status) ==
  IF status \in {"success", "commandFailed"} THEN "done" ELSE "error"

ReplyFor(status) == IF status = "success" THEN "done" ELSE "error"

\* Mutated form: an uncertain cleanup is only logged.
TellUnlessUncertain(k, status) ==
  IF ctx.disconnected \/ status = "cleanupFailed" THEN UNCHANGED call
                                                  ELSE Answer(k, ReplyFor(status))

\* A client that left is not answered.
Tell(k, status) ==
  IF ctx.disconnected THEN UNCHANGED call ELSE Answer(k, ReplyFor(status))

\* Mutated form: the payload stays on disk.
FinishKeepsPayload(k, status) ==
  /\ temp' = temp
  /\ ctx' = [ctx EXCEPT !.active = NoCall,
                        !.cleanupFailed = @ \/ status = "cleanupFailed"]

\* finish_operation, for the operation whose completion is called.
FinishOperation(k, status) ==
  /\ temp' = temp \ {k}
  /\ ctx' = [ctx EXCEPT !.active = NoCall,
                        !.cleanupFailed = @ \/ status = "cleanupFailed"]

\* complete_operation, called by the runner.
Complete(k) ==
  /\ ctx.phase # "exited"
  /\ \E status \in Runner!Statuses :
       /\ Runner!Finish(k, status)
       /\ FinishOperation(k, status)
       /\ Tell(k, status)
  /\ UNCHANGED <<connected, inbox, polkit>>

\* The active operation loses its client and its command is cancelled: the
\* runner may still complete it with any status.
Abandoned(c) == [c EXCEPT !.disconnected = (c.active # NoCall)]

CancelCheck(cs) ==
  polkit' = [k \in Call |-> IF polkit[k] = "asking" /\ call[k].sender \in cs
                            THEN "cancelled" ELSE polkit[k]]

\* NameOwnerChanged: a client has left the bus.
Left(c) ==
  /\ ctx.phase = "running"
  /\ inbox # <<>>
  /\ Head(inbox) = [kind |-> "left", id |-> c]
  /\ inbox' = Tail(inbox)
  /\ LET mine == ctx.active # NoCall /\ call[ctx.active].sender = c
         here == IF mine THEN Abandoned(ctx) ELSE ctx
     IN  ctx' = [here EXCEPT !.auth = @ \ {c}, !.pending = @ \ {c}]
  /\ CancelCheck(ctx.pending \cap {c})
  /\ UNCHANGED <<connected, call, cmd, temp>>

-----------------------------------------------------------------------------
(* The end of the process.                                                 *)

\* The bus name is lost: the main loop quits, the object is unregistered and
\* the active operation is drained.
Quit ==
  /\ ctx.phase = "running"
  /\ ctx' = [Abandoned(ctx) EXCEPT !.phase = "draining"]
  /\ UNCHANGED <<connected, call, inbox, polkit, cmd, temp>>

\* What is still queued finds no object.
Unregistered ==
  /\ ctx.phase \in {"draining", "cancelling"}
  /\ inbox # <<>>
  /\ inbox' = Tail(inbox)
  /\ IF Head(inbox).kind = "call" THEN Answer(Head(inbox).id, "error")
                                  ELSE UNCHANGED call
  /\ UNCHANGED <<connected, polkit, cmd, temp, ctx>>

\* Mutated form: the open authorization dialogs are left alone.
CancelNothing ==
  /\ ctx.phase = "draining" /\ ctx.active = NoCall
  /\ ctx' = [ctx EXCEPT !.phase = "cancelling"]
  /\ UNCHANGED <<connected, call, inbox, polkit, cmd, temp>>

CancelChecks ==
  /\ ctx.phase = "draining" /\ ctx.active = NoCall
  /\ ctx' = [ctx EXCEPT !.phase = "cancelling"]
  /\ CancelCheck(ctx.pending)
  /\ UNCHANGED <<connected, call, inbox, cmd, temp>>

\* Mutated form: only the checks that are still wanted are awaited.
DrainedPending == ctx.pending = {}

Drained == \A k \in Call : polkit[k] = "none"

\* main returns: Ctx, which the callbacks point to, is destroyed.
Exit ==
  /\ ctx.phase = "cancelling"
  /\ Drained
  /\ ctx' = [ctx EXCEPT !.phase = "exited"]
  /\ UNCHANGED <<connected, call, inbox, polkit, cmd, temp>>

-----------------------------------------------------------------------------
\* The runner's side, of which the service sees nothing until completion.
Backend(k) ==
  /\ Runner!Launch(k) \/ Runner!Vanish(k)
  /\ UNCHANGED <<connected, call, inbox, polkit, temp, ctx>>

Handle ==
  \/ \E k \in Call : \/ GetCapabilities(k) \/ AuthorizeAgain(k) \/ AuthorizeAsk(k)
                     \/ Refuse(k) \/ Invoke(k)
  \/ \E c \in Client : Left(c)
  \/ Unregistered

Shutdown == CancelChecks \/ Exit

\* Nothing more can happen when the process is gone.
Gone == ctx.phase = "exited" /\ UNCHANGED vars

Next ==
  \/ \E k \in Call : Send(k) \/ AuthDone(k) \/ Complete(k) \/ Backend(k)
  \/ \E c \in Client : Leave(c)
  \/ Handle
  \/ Quit
  \/ Shutdown
  \/ Gone

Spec == Init /\ [][Next]_vars

\* The main loop runs its callbacks; the runner completes what it was given
\* (EventuallyDelivered of ManagedCommand); Polkit answers a check once it is
\* cancelled.  Nothing is assumed of the user.
Fairness ==
  /\ WF_vars(Handle) /\ WF_vars(Shutdown)
  /\ \A k \in Call : WF_vars(Complete(k)) /\ WF_vars(polkit[k] = "cancelled" /\ AuthDone(k))

FairSpec == Spec /\ Fairness

-----------------------------------------------------------------------------
(* Properties.                                                             *)

\* No invocation is answered twice, whatever the order of departures, Polkit
\* answers and completions: GDBus frees an invocation with its answer.
AnsweredOnce == \A k \in Call : call[k].answers <= 1

\* Access ends with the connection: a client that is authorized, or may still
\* become so, is connected or its departure has not been handled yet.
AccessEndsWithConnection ==
  \A c \in ctx.auth \cup ctx.pending :
    \/ c \in connected
    \/ ctx.phase # "running"
    \/ \E n \in DOMAIN inbox : inbox[n] = [kind |-> "left", id |-> c]

\* The completion of a command finds its own operation, which is the active
\* one: finish_operation destroys no other.
CompletionFindsItsOperation ==
  \A k \in Call : cmd[k].phase = "running" <=> ctx.active = k

\* A payload exists as long as a backend may read it, unless the cleanup was
\* uncertain, and no longer than its operation.
PayloadLifetime ==
  \A k \in Call :
    /\ k \in temp => ctx.active = k
    /\ call[k].method = "Upload" /\ cmd[k].backend = "live" =>
         k \in temp \/ cmd[k].status = "cleanupFailed"

\* When main returns no callback is outstanding that points to Ctx.
NoDanglingCallback ==
  ctx.phase = "exited" =>
    \A k \in Call : polkit[k] = "none" /\ cmd[k].phase # "running"

\* A client is told that a write was done only if the backend succeeded and
\* is gone.
HonestReply ==
  \A k \in Call :
    call[k].method \in {"Write", "Upload"} /\ call[k].reply = "done" =>
      cmd[k].status = "success" /\ cmd[k].backend = "gone"

\* After an uncertain cleanup this process starts no command any more.
NoWriteAfterUncertainCleanup ==
  [][\A k, j \in Call :
       cmd[j].status = "cleanupFailed" /\ cmd[k].phase = "idle" =>
         cmd'[k].phase = "idle"]_vars

\* A client that stays is answered as long as the service runs.
WritesAreAnswered ==
  \A k \in Call :
    call[k].method \in {"Write", "Upload"} ~>
      call[k].answers > 0 \/ call[k].sender \notin connected \/ ctx.phase # "running"

\* The process ends once the bus name is lost, also while a dialog is open.
ShutdownCompletes == ctx.phase = "draining" ~> ctx.phase = "exited"
=============================================================================
