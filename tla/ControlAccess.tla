----------------------------- MODULE ControlAccess -----------------------------
(***************************************************************************)
(* The app's access to the control service: the write queue                *)
(* (lib/core/services/legion_frontend_bridge_service.dart), the client     *)
(* that checks compatibility, authorizes and writes, and its D-Bus         *)
(* transport (lib/core/services/legion_control_client.dart).               *)
(*                                                                         *)
(* An action is the code between two awaits.  Writes of the feature        *)
(* repositories are queued and have a timeout; the settings repository     *)
(* uses the client directly, without either.                               *)
(***************************************************************************)
EXTENDS Naturals, Sequences

CONSTANTS
  Bridged,     \* the writes made through the queue
  Direct,      \* the writes of the settings repository
  KeyOf,       \* KeyOf[o]: method and arguments of a queued write
  MaxRetries,  \* retries of a queued write while the service is busy
  MaxOwners    \* bound on the starts of the service

ASSUME OpsAssumption == Bridged \cap Direct = {}
ASSUME BoundsAssumption == MaxRetries \in Nat /\ MaxOwners \in Nat

Op == Bridged \cup Direct

\* A write is none of the requests that the writes share, nor "none".
ASSUME NamesAssumption == {"caps", "auth", "none"} \cap Op = {}

VARIABLES
  op,         \* op[o]: the progress of write o
  queue,      \* _privilegedQueue: the running write and those behind it
  client,     \* the LegionControlClient
  transport,  \* the DBusLegionControlTransport
  req,        \* req[r]: the D-Bus request of kind r
  service     \* the control service, as this connection sees it

vars == <<op, queue, client, transport, req, service>>

\* Shared requests, and one for each write.
Requests == {"caps", "auth"} \cup Op

Failures == {"busy", "denied", "failed", "setup", "unavailable", "timeout"}

OpState ==
  [pc      : {"new", "queued", "ready", "caps", "allowed", "auth", "granted",
              "call", "closing", "settled"},
   result  : Failures \cup {"none", "ok"},
   retry   : BOOLEAN,             \* retryAfterAuthorizationLoss
   tries   : 0..MaxRetries,       \* the bridge's retries so far
   current : BOOLEAN]             \* its authorization is the client's

ClientState ==
  [closed        : BOOLEAN,
   capabilities  : {"none", "pending", "ok"},
   authorization : {"none", "pending", "ok"}]

TransportState == [closed : BOOLEAN, owner : 0..MaxOwners]  \* 0: not yet resolved

Request ==
  [stage  : {"none", "lookup", "sent", "answered"},
   to     : 0..MaxOwners,
   answer : Failures \cup {"none", "ok"}]

ServiceState ==
  [owner    : 0..MaxOwners,       \* its unique name, 0 while it is down
   starts   : 0..MaxOwners,
   checked  : SUBSET (1..MaxOwners),   \* said to be compatible
   granted  : SUBSET (1..MaxOwners),   \* authorized this connection
   executed : [Op -> 0..2]]          \* backend runs for a write

TypeOK ==
  /\ op \in [Op -> OpState]
  /\ queue \in Seq(Bridged)
  /\ client \in ClientState
  /\ transport \in TransportState
  /\ req \in [Requests -> Request]
  /\ service \in ServiceState

NoRequest == [stage |-> "none", to |-> 0, answer |-> "none"]

Init ==
  /\ op = [o \in Op |-> [pc |-> "new", result |-> "none", retry |-> TRUE,
                         tries |-> 0, current |-> FALSE]]
  /\ queue = <<>>
  /\ client = [closed |-> FALSE, capabilities |-> "none", authorization |-> "none"]
  /\ transport = [closed |-> FALSE, owner |-> 0]
  /\ req = [r \in Requests |-> NoRequest]
  /\ service = [owner |-> 0, starts |-> 0, checked |-> {}, granted |-> {},
                executed |-> [o \in Op |-> 0]]

-----------------------------------------------------------------------------
(* How a write ends.                                                       *)

Active(o) == op[o].pc \notin {"new", "queued", "closing", "settled"}
Settled(o) == op[o].pc = "settled"

Settle(w, result) == [w EXCEPT !.pc = "settled", !.result = result]

\* Mutated form: a write that timed out is tried again.
RetriedFailures == {"busy", "timeout"}

Retried == {"busy"}

MayRetry(w) == w.tries < MaxRetries

\* The client throws: _runControlOperation retries while the service is busy,
\* closes control access after a timeout and passes on everything else.
Failed(o, w, result) ==
  CASE o \in Bridged /\ result \in Retried /\ MayRetry(w) ->
         [w EXCEPT !.pc = "ready", !.tries = @ + 1, !.retry = TRUE]
    [] o \in Bridged /\ result = "timeout" ->
         [w EXCEPT !.pc = "closing", !.result = "timeout"]
    [] OTHER -> Settle(w, result)

\* _closeWith: whatever is awaited through the client fails with error, but
\* for the write that has timed out.
CloseClient(error, late) ==
  /\ client' = [closed |-> TRUE, capabilities |-> "none", authorization |-> "none"]
  /\ transport' = [transport EXCEPT !.closed = TRUE]
  /\ op' = [o \in Op |->
       IF o = late THEN [op[o] EXCEPT !.pc = "closing", !.result = "timeout"]
       ELSE IF op[o].pc \in {"caps", "auth", "call"} THEN Failed(o, op[o], error)
       ELSE op[o]]

-----------------------------------------------------------------------------
(* Queueing and starting.                                                  *)

\* _pendingActionKeys holds the keys of the queued and running writes.
Duplicate(o) ==
  \E p \in Bridged : p # o /\ op[p].pc \notin {"new", "settled"} /\ KeyOf[p] = KeyOf[o]

\* runControlOperation.
Submit(o) ==
  /\ op[o].pc = "new"
  /\ IF Duplicate(o)
     THEN op' = [op EXCEPT ![o] = Settle(@, "busy")] /\ UNCHANGED queue
     ELSE op' = [op EXCEPT ![o].pc = "queued"] /\ queue' = Append(queue, o)
  /\ UNCHANGED <<client, transport, req, service>>

\* Mutated form: a write starts although another one runs.
NextInQueueNow(o) == \E n \in DOMAIN queue : queue[n] = o

NextInQueue(o) == queue # <<>> /\ Head(queue) = o

\* The queue reaches the write: its timeout begins.
Start(o) ==
  /\ op[o].pc = "queued"
  /\ NextInQueue(o)
  /\ op' = [op EXCEPT ![o].pc = "ready"]
  /\ UNCHANGED <<queue, client, transport, req, service>>

\* The queue goes on behind a write that has settled.
Advance ==
  /\ queue # <<>>
  /\ Settled(Head(queue))
  /\ queue' = Tail(queue)
  /\ UNCHANGED <<op, client, transport, req, service>>

\* setServiceEnabled, one at a time (SettingsState.isApplying).
Toggle(o) ==
  /\ op[o].pc = "new"
  /\ \A p \in Direct : op[p].pc \in {"new", "settled"}
  /\ op' = [op EXCEPT ![o].pc = "ready"]
  /\ UNCHANGED <<queue, client, transport, req, service>>

-----------------------------------------------------------------------------
(* LegionControlClient._call.                                              *)

FailOp(o, result) == op' = [op EXCEPT ![o] = Failed(o, @, result)]

Lookup == [NoRequest EXCEPT !.stage = "lookup"]

\* Transport methods begin with _ensureOpen; the future they return fails.
Invoke(r) ==
  req' = [req EXCEPT ![r] = IF transport.closed
                            THEN [@ EXCEPT !.stage = "answered", !.answer = "unavailable"]
                            ELSE Lookup]

GetCapabilities(o) ==
  /\ op[o].pc = "ready"
  /\ IF client.closed THEN FailOp(o, "unavailable") /\ UNCHANGED <<client, req>>
     ELSE /\ op' = [op EXCEPT ![o].pc = IF client.capabilities = "ok" THEN "allowed"
                                                                     ELSE "caps"]
          /\ IF client.capabilities = "none"
             THEN Invoke("caps") /\ client' = [client EXCEPT !.capabilities = "pending"]
             ELSE UNCHANGED <<client, req>>
  /\ UNCHANGED <<queue, transport, service>>

Authorize(o) ==
  /\ op[o].pc = "allowed"
  /\ IF client.closed THEN FailOp(o, "unavailable") /\ UNCHANGED <<client, req>>
     ELSE /\ op' = [op EXCEPT ![o].current = TRUE,
                              ![o].pc = IF client.authorization = "ok" THEN "granted"
                                                                       ELSE "auth"]
          /\ IF client.authorization = "none"
             THEN Invoke("auth") /\ client' = [client EXCEPT !.authorization = "pending"]
             ELSE UNCHANGED <<client, req>>
  /\ UNCHANGED <<queue, transport, service>>

\* The write itself.
Call(o) ==
  /\ op[o].pc = "granted"
  /\ IF ~client.closed THEN op' = [op EXCEPT ![o].pc = "call"] /\ Invoke(o)
     ELSE FailOp(o, "unavailable") /\ UNCHANGED req
  /\ UNCHANGED <<queue, client, transport, service>>

\* o gives up its authorization if that is still the client's.
Forget(o, c) ==
  IF op[o].current /\ c.authorization = "ok" THEN [c EXCEPT !.authorization = "none"] ELSE c

\* An authorization that is given up is no longer current for anybody.
Unshare(ops, c) ==
  [p \in Op |-> IF c.authorization = "none" THEN [ops[p] EXCEPT !.current = FALSE]
                                            ELSE ops[p]]

Waiting(kind) == {o \in Op : op[o].pc = kind}

\* The shared request "caps" or "auth" ends for every write that awaits it.
SharedEnds(kind, next, result, c) ==
  /\ client' = c
  /\ op' = [o \in Op |-> CASE o \notin Waiting(kind) -> op[o]
                           [] o \in Waiting(kind) /\ result = "ok" -> [op[o] EXCEPT !.pc = next]
                           [] OTHER -> Failed(o, op[o], result)]

\* A write is retried once after the service has refused it for want of an
\* authorization; what the service answers otherwise keeps the authorization.
CallEnds(o, result, answered) ==
  LET c == IF result = "denied" \/ ~answered THEN Forget(o, client) ELSE client
      w == IF result = "denied" /\ op[o].retry
           THEN [op[o] EXCEPT !.pc = "ready", !.retry = FALSE]
           ELSE IF result = "ok" THEN Settle(op[o], "ok") ELSE Failed(o, op[o], result)
  IN  IF op[o].pc = "call"
      THEN client' = c /\ op' = Unshare([op EXCEPT ![o] = w], c)
      ELSE UNCHANGED <<client, op>>

\* The future of request r completes; answered by the service or not.
Outcome(r, result, answered) ==
  CASE client.closed -> UNCHANGED <<client, op>>
    [] ~client.closed /\ r = "caps" ->
         SharedEnds("caps", "allowed", result,
                    [client EXCEPT !.capabilities = IF result = "ok" THEN "ok" ELSE "none"])
    [] ~client.closed /\ r = "auth" ->
         SharedEnds("auth", "granted", result,
                    [client EXCEPT !.authorization = IF result = "ok" THEN "ok" ELSE "none"])
    [] OTHER -> CallEnds(r, result, answered)

-----------------------------------------------------------------------------
(* DBusLegionControlTransport._invoke.                                     *)

Ends(r, result, answered) ==
  /\ req' = [req EXCEPT ![r] = NoRequest]
  /\ Outcome(r, result, answered)

\* Mutated form: the owner is not compared.
ReplacedNever == FALSE

\* The service that was found first is gone.
Replaced == transport.owner # 0 /\ service.owner # transport.owner

\* Mutated form: the transport is not checked after the lookup.
LateNever == FALSE

\* The transport was closed during the lookup.
Late == transport.closed

\* getNameOwner has answered.
Resolve(r) ==
  /\ req[r].stage = "lookup"
  /\ CASE Late -> Ends(r, "unavailable", FALSE) /\ UNCHANGED transport
       [] ~Late /\ Replaced ->
            Ends(r, "unavailable", FALSE) /\ transport' = [transport EXCEPT !.closed = TRUE]
       [] ~Late /\ ~Replaced /\ service.owner = 0 ->
            Ends(r, "setup", FALSE) /\ UNCHANGED transport
       [] OTHER ->
            /\ req' = [req EXCEPT ![r].stage = "sent", ![r].to = service.owner]
            /\ transport' = [transport EXCEPT !.owner = service.owner]
            /\ UNCHANGED <<client, op>>
  /\ UNCHANGED <<queue, service>>

\* The lookup has failed or taken five seconds.
LookupFails(r) ==
  /\ req[r].stage = "lookup"
  /\ \/ Ends(r, "failed", FALSE) /\ UNCHANGED transport
     \/ Ends(r, "timeout", FALSE) /\ transport' = [transport EXCEPT !.closed = TRUE]
  /\ UNCHANGED <<queue, service>>

\* The reply, or what Invoke threw.
Reply(r) ==
  /\ req[r].stage = "answered"
  /\ IF transport.closed THEN Ends(r, "unavailable", FALSE)
                         ELSE Ends(r, req[r].answer, TRUE)
  /\ UNCHANGED <<queue, transport, service>>

-----------------------------------------------------------------------------
(* Timeouts and the end of control access.                                 *)

\* operation(client).timeout in the queue; it closes the client.
Timeout(o) ==
  /\ o \in Bridged /\ Active(o)
  /\ CloseClient("unavailable", o)
  /\ UNCHANGED <<queue, req, service>>

\* Five seconds without the answer to GetCapabilities.
CapabilitiesTimeout ==
  /\ ~client.closed /\ client.capabilities = "pending"
  /\ CloseClient("timeout", "none")
  /\ UNCHANGED <<queue, req, service>>

\* Mutated form: the writer is not told.
ClosedSilently(o) ==
  /\ op[o].pc = "closing" /\ ~client.closed
  /\ CloseClient("unavailable", "none")
  /\ UNCHANGED <<queue, req, service>>

\* The bridge's client.close() completes.
Closed(o) ==
  /\ op[o].pc = "closing"
  /\ IF client.closed
     THEN op' = [op EXCEPT ![o] = Settle(@, @.result)] /\ UNCHANGED <<client, transport>>
     ELSE CloseClient("unavailable", "none")
  /\ UNCHANGED <<queue, req, service>>

\* The provider of the client is disposed.
Dispose ==
  /\ ~client.closed
  /\ CloseClient("unavailable", "none")
  /\ UNCHANGED <<queue, req, service>>

-----------------------------------------------------------------------------
(* The service and the bus.                                                *)

\* The service handles a request that is addressed to it; it or the policy of
\* the bus may deny any write.
Serve(r) ==
  /\ req[r].stage = "sent" /\ req[r].to = service.owner
  /\ \E answer \in Failures \cup {"ok"} :
       /\ req' = [req EXCEPT ![r].stage = "answered", ![r].answer = answer]
       /\ CASE r = "caps" ->
                 /\ answer \in {"ok", "setup"}
                 /\ service' = [service EXCEPT !.checked =
                                  IF answer = "ok" THEN @ \cup {service.owner} ELSE @]
            [] r = "auth" ->
                 /\ answer \in {"ok", "denied", "failed"}
                 /\ service' = [service EXCEPT !.granted =
                                  IF answer = "ok" THEN @ \cup {service.owner} ELSE @]
            [] OTHER ->
                 \/ answer \in {"busy", "denied"} /\ UNCHANGED service
                 \/ /\ answer \in {"ok", "failed", "timeout"}
                    /\ service.owner \in service.granted
                    /\ service' = [service EXCEPT !.executed[r] =
                                     IF @ < 2 THEN @ + 1 ELSE @]
  /\ UNCHANGED <<op, queue, client, transport>>

\* The recipient is gone: the bus answers.
Lost(r) ==
  /\ req[r].stage = "sent" /\ req[r].to # service.owner
  /\ req' = [req EXCEPT ![r].stage = "answered", ![r].answer = "failed"]
  /\ UNCHANGED <<op, queue, client, transport, service>>

ServiceStarts ==
  /\ service.owner = 0 /\ service.starts < MaxOwners
  /\ service' = [service EXCEPT !.owner = service.starts + 1, !.starts = @ + 1]
  /\ UNCHANGED <<op, queue, client, transport, req>>

ServiceStops ==
  /\ service.owner # 0
  /\ service' = [service EXCEPT !.owner = 0]
  /\ UNCHANGED <<op, queue, client, transport, req>>

Next ==
  \/ \E o \in Bridged : Submit(o) \/ Start(o) \/ Timeout(o) \/ Closed(o)
  \/ Advance
  \/ \E o \in Direct : Toggle(o)
  \/ \E o \in Op : GetCapabilities(o) \/ Authorize(o) \/ Call(o)
  \/ \E r \in Requests : Resolve(r) \/ LookupFails(r) \/ Reply(r) \/ Serve(r) \/ Lost(r)
  \/ CapabilitiesTimeout \/ Dispose
  \/ ServiceStarts \/ ServiceStops

Spec == Init /\ [][Next]_vars

\* Timers fire, DBusClient.close completes and the queue goes on; nothing is
\* assumed of the bus, the service or the user.
Fairness ==
  /\ \A o \in Bridged : WF_vars(Start(o)) /\ WF_vars(Timeout(o)) /\ WF_vars(Closed(o))
  /\ WF_vars(Advance)

FairSpec == Spec /\ Fairness

-----------------------------------------------------------------------------
(* Properties.                                                             *)

\* A write that was reported as ended is not sent afterwards: a late answer
\* of a lookup or an authorization finds the way closed
\* (docs/architecture/portable-control.md:90-91).
NoLateWrite ==
  [][\A o \in Op : op[o].pc \in {"closing", "settled"} /\ req[o].stage # "sent" =>
       req'[o].stage # "sent"]_vars

\* A write goes only to a service that this connection has checked and that
\* has authorized it, never to a replacement.
WritesReachTheCheckedService ==
  \A o \in Op : req[o].stage = "sent" =>
    req[o].to \in service.checked \cap service.granted

\* The retries of the bridge and of the client never run a backend twice, and
\* a write is reported as done only if it ran.
ExecutedAtMostOnce ==
  \A o \in Op : /\ service.executed[o] <= 1
                /\ op[o].result = "ok" => service.executed[o] = 1

\* Writes of the queue do not overlap on the bus while access is open.
QueuedWritesDoNotOverlap ==
  \A o, p \in Bridged :
    ~transport.closed /\ req[o].stage \in {"lookup", "sent"}
      /\ req[p].stage \in {"lookup", "sent"} => o = p

\* Every queued write ends, also when the bus or the service never answers.
QueuedWritesEnd == \A o \in Bridged : op[o].pc = "queued" ~> Settled(o)
=============================================================================
