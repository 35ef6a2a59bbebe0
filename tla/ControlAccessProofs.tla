------------------------- MODULE ControlAccessProofs -------------------------
(***************************************************************************)
(* Proofs about ControlAccess, for any writes, retries and restarts of the *)
(* service.                                                                *)
(*                                                                         *)
(* The service a write goes to is the one the transport resolved first,    *)
(* and what this service has said never becomes untrue: Checked and        *)
(* Granted are stable, so it is enough that a write passed each of them    *)
(* once.  What runs a backend at most once is that a write before its call *)
(* has no request and no run behind it (WriteInv): the only answers after  *)
(* which it starts again are those given without a run.                    *)
(***************************************************************************)
EXTENDS ControlAccess, TLAPS

\* The service the transport t knows is compatible, and has authorized the app.
Checked(t, s) == t.owner # 0 /\ t.owner \in s.checked
Granted(t, s) == t.owner # 0 /\ t.owner \in s.granted

\* Where a write has not been asked of the service, or may be asked again.
Before == {"new", "queued", "ready", "caps", "allowed", "auth", "granted"}

\* A closed client has a closed transport and awaits nothing.
ClientInv ==
  /\ client.closed => /\ transport.closed
                      /\ client.capabilities = "none" /\ client.authorization = "none"
  /\ client.capabilities = "ok" => Checked(transport, service)
  /\ client.authorization = "ok" => Granted(transport, service)

\* All requests go to one service; what it answers is true of it.
RequestInv ==
  /\ \A r \in Requests :
       /\ req[r].stage = "sent" => req[r].to = transport.owner /\ transport.owner # 0
       /\ req[r].stage = "answered" => req[r].answer # "none"
  /\ req["caps"].stage = "answered" /\ req["caps"].answer = "ok" =>
       Checked(transport, service)
  /\ req["auth"].stage = "answered" /\ req["auth"].answer = "ok" =>
       Granted(transport, service)

\* A write w of client c with its request q and its runs n.
CallInv(w, q, n, c) ==
  /\ w.pc \in Before => q.stage = "none" /\ n = 0
  /\ w.pc # "call" /\ q.stage # "none" => c.closed
  /\ w.pc = "call" => q.stage # "none"
  /\ w.pc \in {"caps", "auth", "call"} => ~c.closed

PassedInv(w, q, t, s) ==
  /\ w.pc \in {"allowed", "auth", "granted", "call"} => Checked(t, s)
  /\ w.pc \in {"granted", "call"} => Granted(t, s)
  /\ q.stage \in {"lookup", "sent"} => Checked(t, s) /\ Granted(t, s)

RunInv(w, q, n) ==
  /\ q.stage \in {"lookup", "sent"} => n = 0
  /\ q.stage = "answered" /\ q.answer \in {"busy", "denied"} => n = 0
  /\ q.stage = "answered" /\ q.answer = "ok" => n = 1
  /\ n <= 1
  /\ w.result = "ok" => n = 1

WriteInv(o) ==
  /\ CallInv(op[o], req[o], service.executed[o], client)
  /\ PassedInv(op[o], req[o], transport, service)
  /\ RunInv(op[o], req[o], service.executed[o])

\* A write of the queue that has begun is its first.
QueueInv ==
  \A o \in Bridged : op[o].pc \notin {"new", "queued", "settled"} => NextInQueue(o)

IInv ==
  /\ TypeOK /\ ClientInv /\ RequestInv /\ QueueInv
  /\ \A o \in Op : WriteInv(o)

-----------------------------------------------------------------------------
(* What all steps have in common.                                          *)

\* The service of the transport stays, and so does what it has said.
Grows ==
  /\ transport.owner # 0 => transport'.owner = transport.owner
  /\ service.checked \subseteq service'.checked
  /\ service.granted \subseteq service'.granted

LEMMA PassedStays ==
  ASSUME Grows
  PROVE  /\ Checked(transport, service) => Checked(transport', service')
         /\ Granted(transport, service) => Granted(transport', service')
BY DEF Grows, Checked, Granted

\* A write that does not move.
LEMMA WriteStays ==
  ASSUME Grows, client'.closed = client.closed, NEW o \in Op, WriteInv(o),
         op'[o].pc = op[o].pc, op'[o].result = op[o].result,
         req'[o] = req[o], service'.executed[o] = service.executed[o]
  PROVE  WriteInv(o)'
BY PassedStays DEF WriteInv, CallInv, PassedInv, RunInv

\* A step of one write.
LEMMA OneWrite ==
  ASSUME IInv, TypeOK', ClientInv', RequestInv', QueueInv',
         Grows, client'.closed = client.closed, NEW o \in Op, WriteInv(o)',
         \A p \in Op \ {o} :
           op'[p] = op[p] /\ req'[p] = req[p] /\ service'.executed[p] = service.executed[p]
  PROVE  IInv'
<1>1. ASSUME NEW p \in Op, p # o
      PROVE  WriteInv(p)'
  BY <1>1, WriteStays DEF IInv
<1>2. (\A p \in Op : WriteInv(p))'
  BY <1>1
<1>. QED BY <1>2 DEF IInv

\* What the client knows, when it and the shared requests stay as they were.
LEMMA SharedStays ==
  ASSUME IInv, Grows, UNCHANGED client,
         transport.closed => transport'.closed,
         \A r \in Requests :
           \/ req'[r] = req[r]
           \/ r \in Op /\ req'[r].stage \in {"none", "lookup"}
           \/ r \in Op /\ req'[r].stage = "answered" /\ req'[r].answer # "none"
  PROVE  ClientInv' /\ RequestInv'
<1>1. ClientInv'
  BY PassedStays DEF IInv, ClientInv
<1>2. "caps" \in Requests \ Op /\ "auth" \in Requests \ Op
  BY NamesAssumption DEF Requests
<1>3. req'["caps"] = req["caps"] /\ req'["auth"] = req["auth"]
  BY <1>2
<1>4. ASSUME NEW r \in Requests
      PROVE  /\ req'[r].stage = "sent" => req'[r].to = transport'.owner /\ transport'.owner # 0
             /\ req'[r].stage = "answered" => req'[r].answer # "none"
  BY <1>4 DEF IInv, RequestInv, Grows
<1>5. RequestInv'
  BY <1>3, <1>4, PassedStays DEF IInv, RequestInv
<1>. QED BY <1>1, <1>5

LEMMA QueueStays ==
  ASSUME IInv, UNCHANGED queue,
         \A o \in Bridged : op'[o].pc \notin {"new", "queued", "settled"} =>
           op[o].pc \notin {"new", "queued", "settled"} \/ NextInQueue(o)
  PROVE  QueueInv'
BY DEF IInv, QueueInv, NextInQueue

LEMMA FailedFacts ==
  ASSUME NEW o \in Op, NEW w \in OpState, NEW result \in Failures
  PROVE  LET f == Failed(o, w, result) IN
         /\ f \in OpState
         /\ f.pc \in {"ready", "closing", "settled"}
         /\ f.pc = "ready" => result = "busy"
         /\ f.result \in {w.result, result}
<1>. DEFINE a == [w EXCEPT !.pc = "ready", !.tries = @ + 1, !.retry = TRUE]
            b == [w EXCEPT !.pc = "closing", !.result = "timeout"]
            c == Settle(w, result)
<1>1. MayRetry(w) => a \in OpState /\ a.pc = "ready" /\ a.result = w.result
  <2>1. MayRetry(w) => w.tries + 1 \in 0..MaxRetries
    BY BoundsAssumption DEF MayRetry, OpState
  <2>. QED BY <2>1 DEF OpState
<1>2. b \in OpState /\ b.pc = "closing" /\ b.result = "timeout"
  BY DEF OpState, Failures
<1>3. c \in OpState /\ c.pc = "settled" /\ c.result = result
  BY DEF OpState, Settle
<1>4. \/ Failed(o, w, result) = a /\ MayRetry(w) /\ result = "busy"
      \/ Failed(o, w, result) = b /\ result = "timeout"
      \/ Failed(o, w, result) = c
  BY DEF Failed, Retried
<1>. HIDE DEF a, b, c
<1>. QED BY <1>1, <1>2, <1>3, <1>4
-----------------------------------------------------------------------------
(* The end of control access.                                              *)

LEMMA CloseEffect ==
  ASSUME IInv, NEW error \in {"unavailable", "timeout"}, NEW late,
         late = "none" \/ (late \in Bridged /\ Active(late)),
         CloseClient(error, late), NEW o \in Op
  PROVE  /\ op'[o] \in OpState
         /\ \/ op'[o] = op[o] /\ op[o].pc \notin {"caps", "auth", "call"}
            \/ /\ op'[o].pc \in {"closing", "settled"}
               /\ op'[o].result \in {op[o].result, "unavailable", "timeout"}
               /\ op[o].pc \notin {"new", "queued", "settled"}
<1>1. op[o] \in OpState /\ error \in Failures
  BY DEF IInv, TypeOK, Failures
<1>2. CASE o = late
  <2>. DEFINE w == [op[o] EXCEPT !.pc = "closing", !.result = "timeout"]
  <2>1. w \in OpState /\ w.pc = "closing" /\ w.result = "timeout"
    BY <1>1 DEF OpState, Failures
  <2>2. op'[o] = w
    BY <1>2 DEF CloseClient
  <2>3. op[o].pc \notin {"new", "queued", "settled"}
    BY <1>2, NamesAssumption DEF Active
  <2>. QED BY <2>1, <2>2, <2>3
<1>3. CASE o # late /\ op[o].pc \in {"caps", "auth", "call"}
  <2>1. op'[o] = Failed(o, op[o], error)
    BY <1>3 DEF CloseClient
  <2>. QED BY <1>1, <1>3, <2>1, FailedFacts
<1>4. CASE o # late /\ op[o].pc \notin {"caps", "auth", "call"}
  BY <1>1, <1>4 DEF CloseClient
<1>. QED BY <1>2, <1>3, <1>4

LEMMA CloseKeeps ==
  ASSUME IInv, NEW error \in {"unavailable", "timeout"}, NEW late,
         late = "none" \/ (late \in Bridged /\ Active(late)),
         CloseClient(error, late), UNCHANGED <<queue, req, service>>
  PROVE  IInv'
<1>1. /\ client' = [closed |-> TRUE, capabilities |-> "none", authorization |-> "none"]
      /\ transport' = [transport EXCEPT !.closed = TRUE]
      /\ op' \in [Op -> OpState]
  BY CloseEffect DEF CloseClient
<1>2. transport' \in TransportState /\ transport'.closed /\ transport'.owner = transport.owner
  BY <1>1 DEF IInv, TypeOK, TransportState
<1>3. TypeOK'
  BY <1>1, <1>2 DEF IInv, TypeOK, ClientState
<1>4. Grows
  BY <1>2 DEF Grows
<1>5. ClientInv' /\ RequestInv'
  BY <1>1, <1>2, <1>4, PassedStays DEF IInv, ClientInv, RequestInv
<1>6. QueueInv'
  BY CloseEffect, QueueStays DEF Op
<1>7. ASSUME NEW o \in Op
      PROVE  WriteInv(o)'
  <2>1. WriteInv(o) /\ client'.closed
    BY <1>1 DEF IInv
  <2>2. CASE op'[o] = op[o] /\ op[o].pc \notin {"caps", "auth", "call"}
    BY <1>4, <2>1, <2>2, PassedStays DEF WriteInv, CallInv, PassedInv
  <2>3. CASE /\ op'[o].pc \in {"closing", "settled"}
             /\ op'[o].result \in {op[o].result, "unavailable", "timeout"}
    BY <1>4, <2>1, <2>3, PassedStays DEF WriteInv, CallInv, PassedInv, RunInv, Before
  <2>. QED BY <2>2, <2>3, CloseEffect
<1>8. (\A o \in Op : WriteInv(o))'
  BY <1>7
<1>. QED BY <1>3, <1>5, <1>6, <1>8 DEF IInv

LEMMA EndOfAccessKeeps ==
  ASSUME IInv,
         \/ \E o \in Bridged : Timeout(o) \/ Closed(o)
         \/ CapabilitiesTimeout \/ Dispose
  PROVE  IInv'
<1>1. CASE CapabilitiesTimeout \/ Dispose
  BY <1>1, CloseKeeps DEF CapabilitiesTimeout, Dispose
<1>2. ASSUME NEW o \in Bridged, Timeout(o)
      PROVE  IInv'
  BY <1>2, CloseKeeps DEF Timeout
<1>3. ASSUME NEW o \in Bridged, Closed(o), ~client.closed
      PROVE  IInv'
  BY <1>3, CloseKeeps DEF Closed
<1>4. ASSUME NEW o \in Bridged, Closed(o), client.closed
      PROVE  IInv'
  <2>. DEFINE w == Settle(op[o], op[o].result)
  <2>1. o \in Op /\ op[o] \in OpState /\ WriteInv(o) /\ op[o].pc = "closing"
    BY <1>4 DEF IInv, TypeOK, Closed, Op
  <2>2. w \in OpState /\ w.pc = "settled" /\ w.result = op[o].result
    BY <2>1 DEF Settle, OpState
  <2>3. op' = [op EXCEPT ![o] = w] /\ UNCHANGED <<queue, client, transport, req, service>>
    BY <1>4 DEF Closed
  <2>. HIDE DEF w
  <2>4. TypeOK' /\ op'[o] = w /\ \A p \in Op \ {o} : op'[p] = op[p]
    BY <2>1, <2>2, <2>3 DEF IInv, TypeOK
  <2>5. Grows
    BY <2>3 DEF Grows
  <2>6. ClientInv' /\ RequestInv'
    BY <2>3, <2>5, SharedStays
  <2>7. QueueInv'
    BY <2>2, <2>3, <2>4, QueueStays DEF Op
  <2>8. WriteInv(o)'
    BY <1>4, <2>1, <2>2, <2>3, <2>4 DEF WriteInv, CallInv, PassedInv, RunInv, Before
  <2>. QED BY <2>1, <2>3, <2>4, <2>5, <2>6, <2>7, <2>8, OneWrite
<1>. QED BY <1>1, <1>2, <1>3, <1>4

-----------------------------------------------------------------------------
(* The queue and the start of a write.                                     *)

\* A step of o that asks nothing of the transport.
LEMMA Moved ==
  ASSUME IInv, NEW o \in Op, NEW w \in OpState, op' = [op EXCEPT ![o] = w],
         UNCHANGED <<client, transport, req, service>>,
         queue' \in Seq(Bridged), QueueInv',
         CallInv(w, req[o], service.executed[o], client),
         PassedInv(w, req[o], transport, service), w.result # "ok"
  PROVE  IInv'
<1>1. TypeOK' /\ op'[o] = w /\ \A p \in Op \ {o} : op'[p] = op[p]
  BY DEF IInv, TypeOK
<1>2. Grows
  BY DEF Grows
<1>3. ClientInv' /\ RequestInv'
  BY <1>2, SharedStays
<1>4. WriteInv(o)'
  BY <1>1 DEF IInv, WriteInv, RunInv
<1>. QED BY <1>1, <1>2, <1>3, <1>4, OneWrite

LEMMA HeadOfAppend ==
  ASSUME NEW q \in Seq(Bridged), NEW o \in Bridged, q # <<>>
  PROVE  Append(q, o) # <<>> /\ Head(Append(q, o)) = Head(q)
OBVIOUS

LEMMA AppendType ==
  ASSUME NEW q \in Seq(Bridged), NEW o \in Bridged
  PROVE  Append(q, o) \in Seq(Bridged)
OBVIOUS

LEMMA SubmitKeeps ==
  ASSUME IInv, NEW o \in Bridged, Submit(o)
  PROVE  IInv'
<1>1. o \in Op /\ op[o] \in OpState /\ WriteInv(o) /\ op[o].pc = "new" /\ queue \in Seq(Bridged)
  BY DEF IInv, TypeOK, Submit, Op
<1>2. op[o].result # "ok"
  BY <1>1 DEF WriteInv, RunInv, CallInv, Before
<1>3. UNCHANGED <<client, transport, req, service>>
  BY DEF Submit
<1>4. CASE Duplicate(o)
  <2>. DEFINE w == Settle(op[o], "busy")
  <2>1. w \in OpState /\ w.pc = "settled" /\ w.result = "busy"
    BY <1>1 DEF Settle, OpState, Failures
  <2>2. op' = [op EXCEPT ![o] = w] /\ UNCHANGED queue
    BY <1>4 DEF Submit
  <2>. HIDE DEF w
  <2>3. \A p \in Op : op'[p] = IF p = o THEN w ELSE op[p]
    BY <1>1, <2>2 DEF IInv, TypeOK
  <2>4. QueueInv'
    BY <2>1, <2>2, <2>3, QueueStays DEF Op
  <2>5. CallInv(w, req[o], service.executed[o], client) /\ PassedInv(w, req[o], transport, service)
    BY <1>1, <2>1 DEF WriteInv, CallInv, PassedInv, Before
  <2>. QED BY <1>1, <1>3, <2>1, <2>2, <2>4, <2>5, Moved
<1>5. CASE ~Duplicate(o)
  <2>. DEFINE w == [op[o] EXCEPT !.pc = "queued"]
  <2>1. w \in OpState /\ w.pc = "queued" /\ w.result = op[o].result
    BY <1>1 DEF OpState
  <2>2. op' = [op EXCEPT ![o] = w] /\ queue' = Append(queue, o)
    BY <1>5 DEF Submit
  <2>. HIDE DEF w
  <2>3. \A p \in Op : op'[p] = IF p = o THEN w ELSE op[p]
    BY <1>1, <2>2 DEF IInv, TypeOK
  <2>4. QueueInv'
    <3>1. ASSUME NEW p \in Bridged, op'[p].pc \notin {"new", "queued", "settled"}
          PROVE  NextInQueue(p)'
      <4>1. op'[p] = op[p]
        BY <2>1, <2>3, <3>1 DEF Op
      <4>2. queue # <<>> /\ Head(queue) = p
        BY <3>1, <4>1 DEF IInv, QueueInv, NextInQueue
      <4>. QED BY <1>1, <2>2, <4>2, HeadOfAppend DEF NextInQueue
    <3>. QED BY <3>1 DEF QueueInv
  <2>5. CallInv(w, req[o], service.executed[o], client) /\ PassedInv(w, req[o], transport, service)
    BY <1>1, <2>1 DEF WriteInv, CallInv, PassedInv, Before
  <2>6. queue' \in Seq(Bridged)
    BY <1>1, <2>2, AppendType
  <2>7. w \in OpState /\ w.result # "ok"
    BY <1>2, <2>1
  <2>. QED BY <1>1, <1>3, <2>2, <2>4, <2>5, <2>6, <2>7, Moved
<1>. QED BY <1>4, <1>5

LEMMA BeginKeeps ==
  ASSUME IInv, NEW o \in Op, (o \in Bridged /\ Start(o)) \/ (o \in Direct /\ Toggle(o))
  PROVE  IInv'
<1>. DEFINE w == [op[o] EXCEPT !.pc = "ready"]
<1>1. /\ op[o] \in OpState /\ WriteInv(o) /\ op[o].pc \in {"new", "queued"}
      /\ queue \in Seq(Bridged)
  BY DEF IInv, TypeOK, Start, Toggle
<1>2. w \in OpState /\ w.pc = "ready" /\ w.result = op[o].result
  BY <1>1 DEF OpState
<1>3. op' = [op EXCEPT ![o] = w] /\ UNCHANGED <<queue, client, transport, req, service>>
  BY DEF Start, Toggle
<1>. HIDE DEF w
<1>4. \A p \in Op : op'[p] = IF p = o THEN w ELSE op[p]
  BY <1>3 DEF IInv, TypeOK
<1>5. o \in Bridged => NextInQueue(o)
  BY OpsAssumption DEF Start
<1>6. QueueInv'
  BY <1>3, <1>4, <1>5, QueueStays DEF Op
<1>7. /\ CallInv(w, req[o], service.executed[o], client)
      /\ PassedInv(w, req[o], transport, service) /\ w.result # "ok"
  BY <1>1, <1>2 DEF WriteInv, CallInv, PassedInv, RunInv, Before
<1>. QED BY <1>1, <1>2, <1>3, <1>6, <1>7, Moved

LEMMA AdvanceKeeps ==
  ASSUME IInv, Advance
  PROVE  IInv'
<1>1. /\ queue \in Seq(Bridged) /\ queue # <<>> /\ queue' = Tail(queue)
      /\ op[Head(queue)].pc = "settled" /\ UNCHANGED <<op, client, transport, req, service>>
  BY DEF IInv, TypeOK, Advance, Settled
<1>2. TypeOK'
  BY <1>1 DEF IInv, TypeOK
<1>3. QueueInv'
  BY <1>1 DEF IInv, QueueInv, NextInQueue
<1>4. Grows
  BY <1>1 DEF Grows
<1>5. ClientInv' /\ RequestInv'
  BY <1>1, <1>4, SharedStays
<1>6. ASSUME NEW o \in Op
      PROVE  WriteInv(o)'
  BY <1>1, <1>4, WriteStays DEF IInv
<1>7. (\A o \in Op : WriteInv(o))'
  BY <1>6
<1>. QED BY <1>2, <1>3, <1>5, <1>7 DEF IInv

-----------------------------------------------------------------------------
(* LegionControlClient._call.                                              *)

\* The client is closed: the write fails.
LEMMA RefusedKeeps ==
  ASSUME IInv, NEW o \in Op, op[o].pc \in {"ready", "allowed", "granted"}, client.closed,
         FailOp(o, "unavailable"), UNCHANGED <<queue, client, transport, req, service>>
  PROVE  IInv'
<1>. DEFINE w == Failed(o, op[o], "unavailable")
<1>1. op[o] \in OpState /\ WriteInv(o) /\ queue \in Seq(Bridged) /\ "unavailable" \in Failures
  BY DEF IInv, TypeOK, Failures
<1>2. op' = [op EXCEPT ![o] = w]
  BY DEF FailOp
<1>3. /\ w \in OpState /\ w.pc \in {"closing", "settled"}
      /\ w.result \in {op[o].result, "unavailable"}
  BY <1>1, FailedFacts
<1>. HIDE DEF w
<1>4. req[o].stage = "none" /\ service.executed[o] = 0 /\ w.result # "ok"
  BY <1>1, <1>3 DEF WriteInv, CallInv, RunInv, Before
<1>5. \A p \in Op : op'[p] = IF p = o THEN w ELSE op[p]
  BY <1>2 DEF IInv, TypeOK
<1>6. QueueInv'
  BY <1>5, QueueStays DEF Op
<1>7. CallInv(w, req[o], service.executed[o], client) /\ PassedInv(w, req[o], transport, service)
  BY <1>3, <1>4 DEF CallInv, PassedInv, Before
<1>. QED BY <1>1, <1>2, <1>3, <1>4, <1>6, <1>7, Moved

LEMMA InvokeFacts ==
  ASSUME IInv, NEW r \in Requests, Invoke(r)
  PROVE  /\ req' \in [Requests -> Request]
         /\ \A p \in Requests \ {r} : req'[p] = req[p]
         /\ \/ req'[r].stage = "lookup"
            \/ req'[r].stage = "answered" /\ req'[r].answer = "unavailable"
<1>. DEFINE a == [req[r] EXCEPT !.stage = "answered", !.answer = "unavailable"]
<1>1. req \in [Requests -> Request] /\ req[r] \in Request
  BY DEF IInv, TypeOK
<1>2. a \in Request /\ a.stage = "answered" /\ a.answer = "unavailable"
  BY <1>1 DEF Request, Failures
<1>3. Lookup \in Request /\ Lookup.stage = "lookup"
  BY BoundsAssumption DEF Lookup, NoRequest, Request
<1>4. req' = [req EXCEPT ![r] = IF transport.closed THEN a ELSE Lookup]
  BY DEF Invoke
<1>. HIDE DEF a
<1>. QED BY <1>1, <1>2, <1>3, <1>4

\* o asks for what the writes share.
LEMMA SharedAsked ==
  ASSUME IInv, NEW o \in Op, NEW w \in OpState, op' = [op EXCEPT ![o] = w],
         NEW k \in {"caps", "auth"}, Invoke(k), ~client.closed,
         \/ client' = [client EXCEPT !.capabilities = "pending"]
         \/ client' = [client EXCEPT !.authorization = "pending"],
         UNCHANGED <<queue, transport, service>>, QueueInv',
         CallInv(w, req[o], service.executed[o], client),
         PassedInv(w, req[o], transport, service), w.result # "ok"
  PROVE  IInv'
<1>1. k \in Requests \ Op
  BY NamesAssumption DEF Requests
<1>2. /\ client' \in ClientState /\ client'.closed = client.closed
      /\ client'.capabilities \in {client.capabilities, "pending"}
      /\ client'.authorization \in {client.authorization, "pending"}
  BY DEF IInv, TypeOK, ClientState
<1>3. /\ req' \in [Requests -> Request]
      /\ \A p \in Requests \ {k} : req'[p] = req[p]
      /\ \/ req'[k].stage = "lookup"
         \/ req'[k].stage = "answered" /\ req'[k].answer = "unavailable"
  BY <1>1, InvokeFacts
<1>4. TypeOK' /\ op'[o] = w /\ \A p \in Op \ {o} : op'[p] = op[p]
  BY <1>2, <1>3 DEF IInv, TypeOK
<1>5. Grows
  BY DEF Grows
<1>6. ClientInv'
  BY <1>2 DEF IInv, ClientInv
<1>7. RequestInv'
  BY <1>1, <1>3 DEF IInv, RequestInv, Requests
<1>8. \A p \in Op : req'[p] = req[p]
  BY <1>1, <1>3 DEF Requests
<1>9. WriteInv(o)'
  <2>1. CallInv(w, req[o], service.executed[o], client')
    BY <1>2 DEF CallInv
  <2>. QED BY <1>4, <1>8, <2>1 DEF IInv, WriteInv, RunInv
<1>. QED BY <1>2, <1>4, <1>5, <1>6, <1>7, <1>8, <1>9, OneWrite

LEMMA GetCapabilitiesKeeps ==
  ASSUME IInv, NEW o \in Op, GetCapabilities(o)
  PROVE  IInv'
<1>. DEFINE w == [op[o] EXCEPT !.pc = IF client.capabilities = "ok" THEN "allowed" ELSE "caps"]
<1>1. CASE client.closed
  BY <1>1, RefusedKeeps DEF GetCapabilities
<1>2. CASE ~client.closed
  <2>1. /\ op[o] \in OpState /\ WriteInv(o) /\ op[o].pc = "ready" /\ queue \in Seq(Bridged)
        /\ UNCHANGED <<queue, transport, service>> /\ op' = [op EXCEPT ![o] = w]
    BY <1>2 DEF IInv, TypeOK, GetCapabilities
  <2>2. /\ w \in OpState /\ w.result = op[o].result /\ w.pc \in {"allowed", "caps"}
        /\ w.pc = "allowed" => client.capabilities = "ok"
    BY <2>1 DEF OpState
  <2>. HIDE DEF w
  <2>3. \A p \in Op : op'[p] = IF p = o THEN w ELSE op[p]
    BY <2>1 DEF IInv, TypeOK
  <2>4. QueueInv'
    BY <2>1, <2>3, QueueStays DEF Op
  <2>5. /\ CallInv(w, req[o], service.executed[o], client)
        /\ PassedInv(w, req[o], transport, service) /\ w.result # "ok"
    BY <1>2, <2>1, <2>2 DEF IInv, ClientInv, WriteInv, CallInv, PassedInv, RunInv, Before
  <2>6. CASE client.capabilities = "none"
    BY <1>2, <2>1, <2>2, <2>4, <2>5, <2>6, SharedAsked DEF GetCapabilities
  <2>7. CASE client.capabilities # "none"
    BY <1>2, <2>1, <2>2, <2>4, <2>5, <2>7, Moved DEF GetCapabilities
  <2>. QED BY <2>6, <2>7
<1>. QED BY <1>1, <1>2

LEMMA AuthorizeKeeps ==
  ASSUME IInv, NEW o \in Op, Authorize(o)
  PROVE  IInv'
<1>. DEFINE w == [op[o] EXCEPT !.current = TRUE,
                     !.pc = IF client.authorization = "ok" THEN "granted" ELSE "auth"]
<1>1. CASE client.closed
  BY <1>1, RefusedKeeps DEF Authorize
<1>2. CASE ~client.closed
  <2>1. /\ op[o] \in OpState /\ WriteInv(o) /\ op[o].pc = "allowed" /\ queue \in Seq(Bridged)
        /\ UNCHANGED <<queue, transport, service>> /\ op' = [op EXCEPT ![o] = w]
    BY <1>2 DEF IInv, TypeOK, Authorize
  <2>2. /\ w \in OpState /\ w.result = op[o].result /\ w.pc \in {"granted", "auth"}
        /\ w.pc = "granted" => client.authorization = "ok"
    BY <2>1 DEF OpState
  <2>. HIDE DEF w
  <2>3. \A p \in Op : op'[p] = IF p = o THEN w ELSE op[p]
    BY <2>1 DEF IInv, TypeOK
  <2>4. QueueInv'
    BY <2>1, <2>3, QueueStays DEF Op
  <2>5. /\ CallInv(w, req[o], service.executed[o], client)
        /\ PassedInv(w, req[o], transport, service) /\ w.result # "ok"
    BY <1>2, <2>1, <2>2 DEF IInv, ClientInv, WriteInv, CallInv, PassedInv, RunInv, Before
  <2>6. CASE client.authorization = "none"
    BY <1>2, <2>1, <2>2, <2>4, <2>5, <2>6, SharedAsked DEF Authorize
  <2>7. CASE client.authorization # "none"
    BY <1>2, <2>1, <2>2, <2>4, <2>5, <2>7, Moved DEF Authorize
  <2>. QED BY <2>6, <2>7
<1>. QED BY <1>1, <1>2

LEMMA CallKeeps ==
  ASSUME IInv, NEW o \in Op, Call(o)
  PROVE  IInv'
<1>. DEFINE w == [op[o] EXCEPT !.pc = "call"]
<1>1. CASE client.closed
  BY <1>1, RefusedKeeps DEF Call
<1>2. CASE ~client.closed
  <2>1. /\ op[o] \in OpState /\ WriteInv(o) /\ op[o].pc = "granted" /\ o \in Requests
        /\ UNCHANGED <<queue, client, transport, service>> /\ op' = [op EXCEPT ![o] = w]
        /\ Invoke(o)
    BY <1>2 DEF IInv, TypeOK, Call, Requests
  <2>2. w \in OpState /\ w.result = op[o].result /\ w.pc = "call"
    BY <2>1 DEF OpState
  <2>. HIDE DEF w
  <2>3. \A p \in Op : op'[p] = IF p = o THEN w ELSE op[p]
    BY <2>1 DEF IInv, TypeOK
  <2>4. QueueInv'
    BY <2>1, <2>3, QueueStays DEF Op
  <2>5. /\ req' \in [Requests -> Request]
        /\ \A p \in Requests \ {o} : req'[p] = req[p]
        /\ \/ req'[o].stage = "lookup"
           \/ req'[o].stage = "answered" /\ req'[o].answer = "unavailable"
    BY <2>1, InvokeFacts
  <2>6. TypeOK'
    BY <2>1, <2>2, <2>5 DEF IInv, TypeOK
  <2>7. Grows
    BY <2>1 DEF Grows
  <2>8. ClientInv' /\ RequestInv'
    <3>1. \A r \in Requests :
            \/ req'[r] = req[r]
            \/ r \in Op /\ req'[r].stage \in {"none", "lookup"}
            \/ r \in Op /\ req'[r].stage = "answered" /\ req'[r].answer # "none"
      BY <2>5
    <3>. QED BY <2>1, <2>7, <3>1, SharedStays
  <2>9. WriteInv(o)'
    <3>1. op'[o] = w /\ client'.closed = client.closed /\ service'.executed[o] = 0
          /\ op[o].result # "ok"
      BY <2>1, <2>3 DEF WriteInv, CallInv, RunInv, Before
    <3>2. PassedInv(w, req'[o], transport', service')
      BY <2>1, <2>2, <2>7, PassedStays DEF WriteInv, PassedInv
    <3>. QED BY <1>2, <2>2, <2>5, <3>1, <3>2 DEF WriteInv, CallInv, RunInv, Before
  <2>10. \A p \in Op \ {o} :
           op'[p] = op[p] /\ req'[p] = req[p] /\ service'.executed[p] = service.executed[p]
    BY <2>1, <2>3, <2>5 DEF Requests
  <2>. QED BY <2>1, <2>4, <2>6, <2>7, <2>8, <2>9, <2>10, OneWrite
<1>. QED BY <1>1, <1>2

-----------------------------------------------------------------------------
(* The end of a request.                                                   *)

\* The transport is left alone, or closed.
TransportKept == transport' \in {transport, [transport EXCEPT !.closed = TRUE]}

LEMMA Cleared ==
  ASSUME IInv, NEW r \in Requests, req' = [req EXCEPT ![r] = NoRequest],
         TransportKept, UNCHANGED <<queue, service>>
  PROVE  /\ req' \in [Requests -> Request] /\ transport' \in TransportState
         /\ req'[r].stage = "none" /\ \A p \in Requests \ {r} : req'[p] = req[p]
         /\ transport.closed => transport'.closed
         /\ Grows /\ RequestInv'
<1>1. NoRequest \in Request /\ NoRequest.stage = "none"
  BY BoundsAssumption DEF NoRequest, Request
<1>2. req \in [Requests -> Request] /\ transport \in TransportState
  BY DEF IInv, TypeOK
<1>3. /\ transport' \in TransportState
      /\ transport.closed => transport'.closed
      /\ transport'.owner = transport.owner
  BY <1>2 DEF TransportKept, TransportState
<1>4. /\ req' \in [Requests -> Request] /\ req'[r].stage = "none"
      /\ \A p \in Requests \ {r} : req'[p] = req[p]
  BY <1>1, <1>2
<1>5. Grows
  BY <1>3 DEF Grows
<1>6. \A p \in Requests : req'[p] = req[p] \/ req'[p].stage = "none"
  BY <1>4
<1>7. "caps" \in Requests /\ "auth" \in Requests
  BY DEF Requests
<1>8. RequestInv'
  BY <1>3, <1>5, <1>6, <1>7, PassedStays DEF IInv, RequestInv
<1>. QED BY <1>3, <1>4, <1>5, <1>8

\* What all writes await together.
LEMMA SharedEndsKeeps ==
  ASSUME IInv, ~client.closed,
         NEW k \in {"caps", "auth"}, NEW result \in Failures \cup {"ok"}, NEW c \in ClientState,
         SharedEnds(k, IF k = "caps" THEN "allowed" ELSE "granted", result, c),
         ~c.closed,
         c.capabilities = "ok" => Checked(transport, service),
         c.authorization = "ok" => Granted(transport, service),
         result = "ok" => IF k = "caps" THEN Checked(transport, service)
                                        ELSE Granted(transport, service),
         req' = [req EXCEPT ![k] = NoRequest], TransportKept, UNCHANGED <<queue, service>>
  PROVE  IInv'
<1>1. k \in Requests \ Op
  BY NamesAssumption DEF Requests
<1>2. /\ req' \in [Requests -> Request] /\ transport' \in TransportState
      /\ Grows /\ RequestInv' /\ \A o \in Op : req'[o] = req[o]
  BY <1>1, Cleared DEF Requests
<1>3. client' = c
  BY DEF SharedEnds
<1>4. ASSUME NEW o \in Op
      PROVE  /\ op'[o] \in OpState
             /\ \/ op'[o] = op[o]
                \/ /\ op[o].pc = k /\ result = "ok" /\ op'[o].result = op[o].result
                   /\ op'[o].pc = IF k = "caps" THEN "allowed" ELSE "granted"
                \/ /\ op[o].pc = k /\ op'[o].pc \in {"ready", "closing", "settled"}
                   /\ op'[o].result \in {op[o].result} \cup Failures
  <2>. DEFINE w == [op[o] EXCEPT !.pc = IF k = "caps" THEN "allowed" ELSE "granted"]
              f == Failed(o, op[o], result)
  <2>1. op[o] \in OpState
    BY DEF IInv, TypeOK
  <2>2. op[o].pc = k => w \in OpState /\ w.result = op[o].result
                        /\ w.pc = IF k = "caps" THEN "allowed" ELSE "granted"
    BY <2>1 DEF OpState
  <2>3. result # "ok" => /\ f \in OpState /\ f.pc \in {"ready", "closing", "settled"}
                         /\ f.result \in {op[o].result} \cup Failures
    BY <2>1, FailedFacts
  <2>4. \/ op'[o] = op[o]
        \/ op[o].pc = k /\ result = "ok" /\ op'[o] = w
        \/ op[o].pc = k /\ result # "ok" /\ op'[o] = f
    <3>1. o \notin Waiting(k) => op'[o] = op[o]
      BY DEF SharedEnds
    <3>2. o \in Waiting(k) /\ result = "ok" => op'[o] = w
      BY DEF SharedEnds
    <3>3. o \in Waiting(k) /\ result # "ok" => op'[o] = f
      BY DEF SharedEnds
    <3>4. o \in Waiting(k) <=> op[o].pc = k
      BY DEF Waiting
    <3>. HIDE DEF w, f
    <3>. QED BY <3>1, <3>2, <3>3, <3>4
  <2>. HIDE DEF w, f
  <2>. QED BY <2>1, <2>2, <2>3, <2>4
<1>5. TypeOK'
  <2>1. op' \in [Op -> OpState]
    BY <1>4 DEF SharedEnds
  <2>. QED BY <1>2, <1>3, <2>1 DEF IInv, TypeOK
<1>6. ClientInv'
  BY <1>2, <1>3, PassedStays DEF ClientInv
<1>7. QueueInv'
  BY <1>4, QueueStays DEF Op
<1>8. ASSUME NEW o \in Op
      PROVE  WriteInv(o)'
  <2>1. WriteInv(o) /\ ~client'.closed /\ client'.closed = client.closed
    BY <1>3 DEF IInv, ClientState, TypeOK
  <2>2. CASE op'[o] = op[o]
    BY <1>2, <2>1, <2>2, WriteStays
  <2>3. CASE op'[o] # op[o]
    <3>1. /\ op[o].pc = k /\ req'[o].stage = "none" /\ service'.executed[o] = 0
          /\ op[o].result # "ok" /\ op'[o].result # "ok"
      BY <1>2, <1>4, <2>1, <2>3 DEF WriteInv, CallInv, RunInv, Before, Failures
    <3>2. PassedInv(op'[o], req'[o], transport', service')
      BY <1>2, <1>4, <2>1, <2>3, <3>1, PassedStays DEF WriteInv, PassedInv
    <3>3. op'[o].pc \in {"allowed", "granted", "ready", "closing", "settled"}
      BY <1>4, <2>3
    <3>. QED BY <2>1, <3>1, <3>2, <3>3 DEF WriteInv, CallInv, RunInv, Before
  <2>. QED BY <2>2, <2>3
<1>9. (\A o \in Op : WriteInv(o))'
  BY <1>8
<1>. QED BY <1>2, <1>5, <1>6, <1>7, <1>9 DEF IInv

\* The request of a write.
LEMMA CallEndsKeeps ==
  ASSUME IInv, ~client.closed, NEW o \in Op, NEW result \in Failures \cup {"ok"},
         NEW answered \in BOOLEAN, CallEnds(o, result, answered),
         req[o].stage \in {"lookup", "answered"},
         result \in {"ok", "busy", "denied"} =>
           req[o].stage = "answered" /\ req[o].answer = result,
         req' = [req EXCEPT ![o] = NoRequest], TransportKept, UNCHANGED <<queue, service>>
  PROVE  IInv'
<1>. DEFINE again == [op[o] EXCEPT !.pc = "ready", !.retry = FALSE]
            done == Settle(op[o], "ok")
            fail == Failed(o, op[o], result)
<1>1. /\ op[o] \in OpState /\ WriteInv(o) /\ o \in Requests
      /\ op \in [Op -> OpState] /\ client \in ClientState
  BY DEF IInv, TypeOK, Requests
<1>2. op[o].pc = "call"
  BY <1>1 DEF WriteInv, CallInv
<1>3. /\ req' \in [Requests -> Request] /\ transport' \in TransportState
      /\ req'[o].stage = "none"
      /\ Grows /\ RequestInv' /\ \A p \in Op \ {o} : req'[p] = req[p]
  BY <1>1, Cleared DEF Requests
<1>4. again \in OpState /\ again.pc = "ready" /\ again.result = op[o].result
  BY <1>1 DEF OpState
<1>5. done \in OpState /\ done.pc = "settled" /\ done.result = "ok"
  BY <1>1 DEF Settle, OpState
<1>6. result # "ok" =>
        /\ fail \in OpState /\ fail.pc \in {"ready", "closing", "settled"}
        /\ fail.pc = "ready" => result = "busy"
        /\ fail.result \in {op[o].result, result}
  BY <1>1, FailedFacts
<1>7. PICK c \in {client, [client EXCEPT !.authorization = "none"]}, w \in OpState :
        /\ client' = c /\ op' = Unshare([op EXCEPT ![o] = w], c)
        /\ \/ w = again /\ result = "denied"
           \/ w = done /\ result = "ok"
           \/ w = fail /\ result # "ok"
  <2>. DEFINE d == IF result = "denied" \/ ~answered THEN Forget(o, client) ELSE client
              v == IF result = "denied" /\ op[o].retry THEN again
                   ELSE IF result = "ok" THEN done ELSE fail
  <2>1. client' = d /\ op' = Unshare([op EXCEPT ![o] = v], d)
    BY <1>2 DEF CallEnds
  <2>2. d \in {client, [client EXCEPT !.authorization = "none"]}
    BY DEF Forget
  <2>. HIDE DEF again, done, fail
  <2>3. /\ v \in OpState
        /\ \/ v = again /\ result = "denied"
           \/ v = done /\ result = "ok"
           \/ v = fail /\ result # "ok"
    BY <1>4, <1>5, <1>6
  <2>. HIDE DEF d, v
  <2>. QED BY <2>1, <2>2, <2>3
<1>. HIDE DEF again, done, fail
<1>8. /\ w.pc \in {"ready", "closing", "settled"}
      /\ w.pc = "ready" => result \in {"denied", "busy"}
      /\ w.result = "ok" => op[o].result = "ok" \/ result = "ok"
  BY <1>4, <1>5, <1>6, <1>7
<1>9. /\ c \in ClientState /\ c.closed = client.closed
      /\ c.capabilities = client.capabilities
      /\ c.authorization \in {client.authorization, "none"}
  BY <1>1, <1>7 DEF ClientState
<1>10. ASSUME NEW p \in Op
       PROVE  /\ op'[p] \in OpState
              /\ p = o => op'[p].pc = w.pc /\ op'[p].result = w.result
              /\ p # o => op'[p].pc = op[p].pc /\ op'[p].result = op[p].result
  <2>. DEFINE e == [op EXCEPT ![o] = w]
  <2>1. e[p] \in OpState /\ e[p] = IF p = o THEN w ELSE op[p]
    BY <1>1, <1>7
  <2>. HIDE DEF e
  <2>2. op'[p] \in {e[p], [e[p] EXCEPT !.current = FALSE]}
    BY <1>7 DEF Unshare, e
  <2>3. /\ [e[p] EXCEPT !.current = FALSE] \in OpState
        /\ [e[p] EXCEPT !.current = FALSE].pc = e[p].pc
        /\ [e[p] EXCEPT !.current = FALSE].result = e[p].result
    BY <2>1 DEF OpState
  <2>. QED BY <2>1, <2>2, <2>3
<1>11. TypeOK'
  <2>1. op' \in [Op -> OpState]
    BY <1>7, <1>10 DEF Unshare
  <2>. QED BY <1>3, <1>7, <1>9, <2>1 DEF IInv, TypeOK
<1>12. ClientInv'
  BY <1>3, <1>7, <1>9, PassedStays DEF IInv, ClientInv
<1>13. QueueInv'
  BY <1>2, <1>10, QueueStays DEF Op
<1>14. WriteInv(o)'
  <2>1. result \in {"denied", "busy"} => service'.executed[o] = 0
    BY <1>1 DEF WriteInv, RunInv
  <2>2. result = "ok" \/ op[o].result = "ok" => service'.executed[o] = 1
    BY <1>1 DEF WriteInv, RunInv
  <2>3. service'.executed[o] <= 1
    BY <1>1 DEF WriteInv, RunInv
  <2>4. op'[o].pc = w.pc /\ op'[o].result = w.result
    BY <1>10
  <2>. QED BY <1>3, <1>8, <2>1, <2>2, <2>3, <2>4
           DEF WriteInv, CallInv, PassedInv, RunInv, Before
<1>15. ASSUME NEW p \in Op, p # o
       PROVE  WriteInv(p)'
  BY <1>3, <1>7, <1>9, <1>10, <1>15, WriteStays DEF IInv
<1>16. (\A p \in Op : WriteInv(p))'
  BY <1>14, <1>15
<1>. QED BY <1>3, <1>11, <1>12, <1>13, <1>16 DEF IInv

\* A request ends after its lookup or its answer.
LEMMA EndsKeeps ==
  ASSUME IInv, NEW r \in Requests, NEW result \in Failures \cup {"ok"},
         NEW answered \in BOOLEAN, Ends(r, result, answered),
         req[r].stage \in {"lookup", "answered"},
         result \in {"ok", "busy", "denied"} =>
           req[r].stage = "answered" /\ req[r].answer = result,
         TransportKept, UNCHANGED <<queue, service>>
  PROVE  IInv'
<1>1. req' = [req EXCEPT ![r] = NoRequest] /\ Outcome(r, result, answered)
  BY DEF Ends
<1>2. CASE client.closed
  <2>1. UNCHANGED <<client, op>>
    BY <1>1, <1>2 DEF Outcome
  <2>2. /\ req' \in [Requests -> Request] /\ transport' \in TransportState
        /\ req'[r].stage = "none" /\ Grows /\ RequestInv'
        /\ \A p \in Requests \ {r} : req'[p] = req[p]
    BY <1>1, Cleared
  <2>3. TypeOK'
    BY <2>1, <2>2 DEF IInv, TypeOK
  <2>4. ClientInv'
    BY <1>1, <1>2, <2>1, <2>2, Cleared, PassedStays DEF IInv, ClientInv
  <2>5. QueueInv'
    BY <2>1, QueueStays
  <2>6. ASSUME NEW o \in Op
        PROVE  WriteInv(o)'
    <3>1. WriteInv(o) /\ (req'[o] = req[o] \/ req'[o].stage = "none")
      BY <2>2 DEF IInv, Requests
    <3>. QED BY <1>2, <2>1, <2>2, <3>1, PassedStays
             DEF WriteInv, CallInv, PassedInv, RunInv
  <2>7. (\A o \in Op : WriteInv(o))'
    BY <2>6
  <2>. QED BY <2>2, <2>3, <2>4, <2>5, <2>7 DEF IInv
<1>3. CASE ~client.closed /\ r = "caps"
  <2>. DEFINE c == [client EXCEPT !.capabilities = IF result = "ok" THEN "ok" ELSE "none"]
  <2>1. SharedEnds("caps", "allowed", result, c)
    BY <1>1, <1>3 DEF Outcome
  <2>2. /\ c \in ClientState /\ ~c.closed /\ c.authorization = client.authorization
        /\ c.capabilities = "ok" => result = "ok"
    BY <1>3 DEF IInv, TypeOK, ClientState
  <2>3. result = "ok" => Checked(transport, service)
    BY <1>3 DEF IInv, RequestInv
  <2>. HIDE DEF c
  <2>4. c.authorization = "ok" => Granted(transport, service)
    BY <2>2 DEF IInv, ClientInv
  <2>. QED BY <1>1, <1>3, <2>1, <2>2, <2>3, <2>4, SharedEndsKeeps
<1>4. CASE ~client.closed /\ r = "auth"
  <2>. DEFINE c == [client EXCEPT !.authorization = IF result = "ok" THEN "ok" ELSE "none"]
  <2>1. SharedEnds("auth", "granted", result, c)
    BY <1>1, <1>4 DEF Outcome
  <2>2. /\ c \in ClientState /\ ~c.closed /\ c.capabilities = client.capabilities
        /\ c.authorization = "ok" => result = "ok"
    BY <1>4 DEF IInv, TypeOK, ClientState
  <2>3. result = "ok" => Granted(transport, service)
    BY <1>4 DEF IInv, RequestInv
  <2>. HIDE DEF c
  <2>4. c.capabilities = "ok" => Checked(transport, service)
    BY <2>2 DEF IInv, ClientInv
  <2>. QED BY <1>1, <1>4, <2>1, <2>2, <2>3, <2>4, SharedEndsKeeps
<1>5. CASE ~client.closed /\ r \in Op
  <2>1. r \notin {"caps", "auth"}
    BY <1>5, NamesAssumption
  <2>2. CallEnds(r, result, answered)
    BY <1>1, <1>5, <2>1 DEF Outcome
  <2>. QED BY <1>1, <1>5, <2>2, CallEndsKeeps
<1>. QED BY <1>2, <1>3, <1>4, <1>5 DEF Requests

-----------------------------------------------------------------------------
(* DBusLegionControlTransport._invoke and the service.                     *)

LEMMA EndedKeeps ==
  ASSUME IInv, NEW r \in Requests, LookupFails(r) \/ Reply(r)
  PROVE  IInv'
<1>1. CASE LookupFails(r)
  <2>1. /\ {"failed", "timeout"} \subseteq Failures \cup {"ok"}
        /\ FALSE \in BOOLEAN
    BY DEF Failures
  <2>2. TransportKept /\ UNCHANGED <<queue, service>> /\ req[r].stage = "lookup"
    BY <1>1 DEF LookupFails, TransportKept
  <2>3. Ends(r, "failed", FALSE) \/ Ends(r, "timeout", FALSE)
    BY <1>1 DEF LookupFails
  <2>4. CASE Ends(r, "failed", FALSE)
    BY <2>1, <2>2, <2>4, EndsKeeps
  <2>5. CASE Ends(r, "timeout", FALSE)
    BY <2>1, <2>2, <2>5, EndsKeeps
  <2>. QED BY <2>3, <2>4, <2>5
<1>2. CASE Reply(r)
  <2>1. TransportKept /\ UNCHANGED <<queue, service>> /\ req[r].stage = "answered"
    BY <1>2 DEF Reply, TransportKept
  <2>2. CASE transport.closed
    <3>1. Ends(r, "unavailable", FALSE) /\ "unavailable" \in Failures \cup {"ok"}
      BY <1>2, <2>2 DEF Reply, Failures
    <3>. QED BY <2>1, <3>1, EndsKeeps
  <2>3. CASE ~transport.closed
    <3>1. Ends(r, req[r].answer, TRUE)
      BY <1>2, <2>3 DEF Reply
    <3>2. req[r].answer \in Failures \cup {"ok"}
      BY <2>1 DEF IInv, TypeOK, RequestInv, Request
    <3>. QED BY <2>1, <3>1, <3>2, EndsKeeps
  <2>. QED BY <2>2, <2>3
<1>. QED BY <1>1, <1>2

\* The step of one request that leaves the writes alone.
LEMMA RequestStep ==
  ASSUME IInv, TypeOK', UNCHANGED <<op, queue, client>>, Grows, NEW r \in Requests,
         transport'.closed = transport.closed, RequestInv',
         \A p \in Requests \ {r} : req'[p] = req[p],
         \A o \in Op \ {r} : service'.executed[o] = service.executed[o],
         r \in Op => /\ req[r].stage \in {"lookup", "sent"}
                     /\ req'[r].stage \in {"sent", "answered"}
                     /\ RunInv(op[r], req'[r], service'.executed[r])
  PROVE  IInv'
<1>1. ClientInv'
  BY PassedStays DEF IInv, ClientInv
<1>2. QueueInv'
  BY QueueStays
<1>3. ASSUME NEW o \in Op, o # r
      PROVE  WriteInv(o)'
  BY <1>3, WriteStays DEF IInv, Requests
<1>4. ASSUME NEW o \in Op, o = r
      PROVE  WriteInv(o)'
  <2>1. WriteInv(o)
    BY DEF IInv
  <2>2. CallInv(op'[o], req'[o], service'.executed[o], client')
    BY <1>4, <2>1 DEF WriteInv, CallInv
  <2>3. PassedInv(op'[o], req'[o], transport', service')
    BY <1>4, <2>1, PassedStays DEF WriteInv, PassedInv
  <2>. QED BY <1>4, <2>2, <2>3 DEF WriteInv
<1>5. (\A o \in Op : WriteInv(o))'
  BY <1>3, <1>4
<1>. QED BY <1>1, <1>2, <1>5 DEF IInv

LEMMA ResolveKeeps ==
  ASSUME IInv, NEW r \in Requests, Resolve(r)
  PROVE  IInv'
<1>1. /\ req[r].stage = "lookup" /\ UNCHANGED <<queue, service>>
      /\ {"unavailable", "setup"} \subseteq Failures \cup {"ok"} /\ FALSE \in BOOLEAN
  BY DEF Resolve, Failures
<1>2. CASE Late
  <2>1. Ends(r, "unavailable", FALSE) /\ TransportKept
    BY <1>2 DEF Resolve, TransportKept
  <2>. QED BY <1>1, <2>1, EndsKeeps
<1>3. CASE ~Late /\ Replaced
  <2>1. Ends(r, "unavailable", FALSE) /\ TransportKept
    BY <1>3 DEF Resolve, TransportKept
  <2>. QED BY <1>1, <2>1, EndsKeeps
<1>4. CASE ~Late /\ ~Replaced /\ service.owner = 0
  <2>1. Ends(r, "setup", FALSE) /\ TransportKept
    BY <1>4 DEF Resolve, TransportKept
  <2>. QED BY <1>1, <2>1, EndsKeeps
<1>5. CASE ~Late /\ ~Replaced /\ service.owner # 0
  <2>. DEFINE q == [req[r] EXCEPT !.stage = "sent", !.to = service.owner]
              t == [transport EXCEPT !.owner = service.owner]
  <2>1. /\ req' = [req EXCEPT ![r] = q] /\ transport' = t /\ UNCHANGED <<client, op>>
        /\ transport.owner # 0 => service.owner = transport.owner
    BY <1>5 DEF Resolve, Replaced
  <2>2. /\ req \in [Requests -> Request] /\ transport \in TransportState
        /\ service.owner \in 0..MaxOwners
    BY DEF IInv, TypeOK, ServiceState
  <2>3. q \in Request /\ q.stage = "sent" /\ q.to = service.owner
    BY <2>2 DEF Request
  <2>4. t \in TransportState /\ t.owner = service.owner /\ t.closed = transport.closed
    BY <2>2 DEF TransportState
  <2>. HIDE DEF q, t
  <2>5. req'[r] = q /\ \A p \in Requests \ {r} : req'[p] = req[p]
    BY <2>1, <2>2
  <2>6. TypeOK'
    BY <1>1, <2>1, <2>2, <2>3, <2>4 DEF IInv, TypeOK
  <2>7. Grows
    BY <1>1, <2>1, <2>4 DEF Grows
  <2>8. RequestInv'
    <3>1. ASSUME NEW p \in Requests
          PROVE  /\ req'[p].stage = "sent" => req'[p].to = transport'.owner /\ transport'.owner # 0
                 /\ req'[p].stage = "answered" => req'[p].answer # "none"
      BY <1>5, <2>1, <2>3, <2>4, <2>5 DEF IInv, RequestInv
    <3>2. \A p \in {"caps", "auth"} : req'[p] = req[p] \/ req'[p].stage = "sent"
      BY <2>3, <2>5 DEF Requests
    <3>. QED BY <2>7, <3>1, <3>2, PassedStays DEF IInv, RequestInv
  <2>9. r \in Op => RunInv(op[r], req'[r], service'.executed[r])
    BY <1>1, <2>3, <2>5 DEF IInv, WriteInv, RunInv
  <2>. QED BY <1>1, <2>1, <2>3, <2>4, <2>5, <2>6, <2>7, <2>8, <2>9, RequestStep
<1>. QED BY <1>2, <1>3, <1>4, <1>5

LEMMA LostKeeps ==
  ASSUME IInv, NEW r \in Requests, Lost(r)
  PROVE  IInv'
<1>. DEFINE q == [req[r] EXCEPT !.stage = "answered", !.answer = "failed"]
<1>1. /\ req[r].stage = "sent" /\ req' = [req EXCEPT ![r] = q]
      /\ UNCHANGED <<op, queue, client, transport, service>>
      /\ req \in [Requests -> Request]
  BY DEF IInv, TypeOK, Lost
<1>2. q \in Request /\ q.stage = "answered" /\ q.answer = "failed"
  BY <1>1 DEF Request, Failures
<1>. HIDE DEF q
<1>3. req'[r] = q /\ \A p \in Requests \ {r} : req'[p] = req[p]
  BY <1>1
<1>4. TypeOK'
  BY <1>1, <1>2 DEF IInv, TypeOK
<1>5. Grows
  BY <1>1 DEF Grows
<1>6. RequestInv'
  <2>1. \A p \in Requests : req'[p] = req[p] \/ (req'[p].stage = "answered" /\ req'[p].answer = "failed")
    BY <1>2, <1>3
  <2>2. "caps" \in Requests /\ "auth" \in Requests
    BY DEF Requests
  <2>. QED BY <1>1, <2>1, <2>2, PassedStays, <1>5 DEF IInv, RequestInv
<1>7. r \in Op => RunInv(op[r], req'[r], service'.executed[r])
  BY <1>1, <1>2, <1>3 DEF IInv, WriteInv, RunInv
<1>. QED BY <1>1, <1>2, <1>3, <1>4, <1>5, <1>6, <1>7, RequestStep

\* What the service says of itself holds, and a run is the write's first.
LEMMA ServeKeeps ==
  ASSUME IInv, NEW r \in Requests, Serve(r)
  PROVE  IInv'
<1>1. PICK answer \in Failures \cup {"ok"} :
        /\ req' = [req EXCEPT ![r].stage = "answered", ![r].answer = answer]
        /\ CASE r = "caps" ->
                  /\ answer \in {"ok", "setup"}
                  /\ service' = [service EXCEPT !.checked =
                                   IF answer = "ok" THEN @ \cup {service.owner} ELSE @]
             [] r = "auth" ->
                  /\ answer \in {"ok", "denied", "failed"}
                  /\ service' = [service EXCEPT !.granted =
                                   IF answer = "ok" THEN @ \cup {service.owner} ELSE @]
             [] OTHER ->
                  \/ answer \in {"busy", "denied"} /\ UNCHANGED service
                  \/ /\ answer \in {"ok", "failed", "timeout"}
                     /\ service.owner \in service.granted
                     /\ service' = [service EXCEPT !.executed[r] = IF @ < 2 THEN @ + 1 ELSE @]
  BY DEF Serve
<1>. DEFINE q == [req[r] EXCEPT !.stage = "answered", !.answer = answer]
<1>2. /\ req[r].stage = "sent" /\ req[r].to = service.owner
      /\ UNCHANGED <<op, queue, client, transport>>
  BY DEF Serve
<1>3. /\ req \in [Requests -> Request] /\ service \in ServiceState
      /\ transport \in TransportState
  BY DEF IInv, TypeOK
<1>4. transport.owner = service.owner /\ service.owner \in 1..MaxOwners
  <2>1. transport.owner = service.owner /\ service.owner # 0
    BY <1>2 DEF IInv, RequestInv
  <2>. QED BY <1>3, <2>1, BoundsAssumption DEF ServiceState
<1>5. q \in Request /\ q.stage = "answered" /\ q.answer = answer
  BY <1>3 DEF Request
<1>6. req' = [req EXCEPT ![r] = q]
  BY <1>1, <1>3 DEF Request
<1>. HIDE DEF q
<1>7. req'[r] = q /\ \A p \in Requests \ {r} : req'[p] = req[p]
  BY <1>3, <1>6
<1>8. /\ service' \in ServiceState
      /\ service.checked \subseteq service'.checked
      /\ service.granted \subseteq service'.granted
      /\ r = "caps" /\ answer = "ok" => service.owner \in service'.checked
      /\ r = "auth" /\ answer = "ok" => service.owner \in service'.granted
      /\ \A o \in Op \ {r} : service'.executed[o] = service.executed[o]
      /\ r \in Op /\ answer \in {"busy", "denied"} => service'.executed[r] = service.executed[r]
      /\ r \in Op /\ answer \notin {"busy", "denied"} =>
           service'.executed[r] = IF service.executed[r] < 2 THEN service.executed[r] + 1
                                                           ELSE service.executed[r]
  <2>1. CASE r = "caps"
    <3>1. r \notin Op
      BY <2>1, NamesAssumption
    <3>. QED BY <1>1, <1>3, <1>4, <2>1, <3>1 DEF ServiceState
  <2>2. CASE r = "auth"
    <3>1. r \notin Op
      BY <2>2, NamesAssumption
    <3>. QED BY <1>1, <1>3, <1>4, <2>2, <3>1 DEF ServiceState
  <2>3. CASE r \in Op /\ answer \in {"busy", "denied"}
    <3>1. r \notin {"caps", "auth"}
      BY <2>3, NamesAssumption
    <3>. QED BY <1>1, <1>3, <2>3, <3>1
  <2>4. CASE r \in Op /\ answer \notin {"busy", "denied"}
    <3>1. r \notin {"caps", "auth"}
      BY <2>4, NamesAssumption
    <3>. DEFINE e == [service.executed EXCEPT ![r] = IF @ < 2 THEN @ + 1 ELSE @]
    <3>3. service.executed \in [Op -> 0..2]
      BY <1>3 DEF ServiceState
    <3>4. /\ e \in [Op -> 0..2] /\ \A o \in Op \ {r} : e[o] = service.executed[o]
          /\ e[r] = IF service.executed[r] < 2 THEN service.executed[r] + 1
                                               ELSE service.executed[r]
      BY <2>4, <3>3
    <3>5. service' = [service EXCEPT !.executed = e]
      BY <1>1, <1>3, <2>4, <3>1 DEF ServiceState
    <3>. HIDE DEF e
    <3>. QED BY <1>3, <2>4, <3>1, <3>4, <3>5 DEF ServiceState
  <2>. QED BY <2>1, <2>2, <2>3, <2>4 DEF Requests
<1>9. TypeOK'
  BY <1>2, <1>3, <1>5, <1>6, <1>8 DEF IInv, TypeOK
<1>10. Grows
  BY <1>2, <1>8 DEF Grows
<1>11. RequestInv'
  <2>1. ASSUME NEW p \in Requests
        PROVE  /\ req'[p].stage = "sent" => req'[p].to = transport'.owner /\ transport'.owner # 0
               /\ req'[p].stage = "answered" => req'[p].answer # "none"
    BY <1>2, <1>5, <1>7 DEF IInv, RequestInv, Failures
  <2>2. req'["caps"].stage = "answered" /\ req'["caps"].answer = "ok" =>
          Checked(transport', service')
    <3>1. CASE r = "caps"
      BY <1>2, <1>4, <1>5, <1>7, <1>8, <3>1 DEF Checked
    <3>2. CASE r # "caps"
      BY <1>7, <1>10, <3>2, PassedStays DEF IInv, RequestInv, Requests
    <3>. QED BY <3>1, <3>2
  <2>3. req'["auth"].stage = "answered" /\ req'["auth"].answer = "ok" =>
          Granted(transport', service')
    <3>1. CASE r = "auth"
      BY <1>2, <1>4, <1>5, <1>7, <1>8, <3>1 DEF Granted
    <3>2. CASE r # "auth"
      BY <1>7, <1>10, <3>2, PassedStays DEF IInv, RequestInv, Requests
    <3>. QED BY <3>1, <3>2
  <2>. QED BY <2>1, <2>2, <2>3 DEF RequestInv
<1>12. r \in Op => RunInv(op[r], req'[r], service'.executed[r])
  <2>1. r \in Op => service.executed[r] = 0 /\ op[r].result # "ok"
    BY <1>2 DEF IInv, WriteInv, RunInv
  <2>. QED BY <1>5, <1>7, <1>8, <2>1 DEF RunInv
<1>. QED BY <1>2, <1>5, <1>7, <1>8, <1>9, <1>10, <1>11, <1>12, RequestStep

LEMMA ServiceKeeps ==
  ASSUME IInv, ServiceStarts \/ ServiceStops
  PROVE  IInv'
<1>1. UNCHANGED <<op, queue, client, transport, req>>
  BY DEF ServiceStarts, ServiceStops
<1>2. /\ service' \in ServiceState /\ service'.checked = service.checked
      /\ service'.granted = service.granted /\ service'.executed = service.executed
  <2>1. service \in ServiceState
    BY DEF IInv, TypeOK
  <2>2. CASE ServiceStarts
    <3>1. service.starts + 1 \in 0..MaxOwners
      BY <2>1, <2>2, BoundsAssumption DEF ServiceStarts, ServiceState
    <3>. QED BY <2>1, <2>2, <3>1 DEF ServiceStarts, ServiceState
  <2>3. CASE ServiceStops
    BY <2>1, <2>3, BoundsAssumption DEF ServiceStops, ServiceState
  <2>. QED BY <2>2, <2>3
<1>3. TypeOK'
  BY <1>1, <1>2 DEF IInv, TypeOK
<1>4. Grows
  BY <1>1, <1>2 DEF Grows
<1>5. ClientInv' /\ RequestInv'
  BY <1>1, <1>4, SharedStays
<1>6. QueueInv'
  BY <1>1, QueueStays
<1>7. ASSUME NEW o \in Op
      PROVE  WriteInv(o)'
  BY <1>1, <1>2, <1>4, WriteStays DEF IInv
<1>8. (\A o \in Op : WriteInv(o))'
  BY <1>7
<1>. QED BY <1>3, <1>5, <1>6, <1>8 DEF IInv

-----------------------------------------------------------------------------
(* The theorems.                                                           *)

LEMMA InitInv == Init => IInv
<1>. SUFFICES ASSUME Init PROVE IInv
  OBVIOUS
<1>1. NoRequest \in Request
  BY BoundsAssumption DEF NoRequest, Request
<1>2. TypeOK
  <2>1. /\ op \in [Op -> OpState] /\ queue \in Seq(Bridged)
    BY BoundsAssumption DEF Init, OpState
  <2>2. client \in ClientState /\ transport \in TransportState /\ service \in ServiceState
    BY BoundsAssumption DEF Init, ClientState, TransportState, ServiceState
  <2>3. req \in [Requests -> Request]
    BY <1>1 DEF Init
  <2>. QED BY <2>1, <2>2, <2>3 DEF TypeOK
<1>3. \A r \in Requests : req[r].stage = "none"
  BY DEF Init, NoRequest
<1>4. ClientInv /\ QueueInv
  BY DEF Init, ClientInv, QueueInv, Op
<1>5. RequestInv
  BY <1>3 DEF RequestInv, Requests
<1>6. ASSUME NEW o \in Op
      PROVE  WriteInv(o)
  <2>1. op[o].pc = "new" /\ op[o].result = "none" /\ service.executed[o] = 0
    BY DEF Init
  <2>2. req[o].stage = "none"
    BY <1>3 DEF Requests
  <2>. QED BY <2>1, <2>2 DEF WriteInv, CallInv, PassedInv, RunInv, Before
<1>. QED BY <1>2, <1>4, <1>5, <1>6 DEF IInv

LEMMA StepInv == IInv /\ [Next]_vars => IInv'
<1>. SUFFICES ASSUME IInv, [Next]_vars PROVE IInv'
  OBVIOUS
<1>1. CASE UNCHANGED vars
  <2>1. UNCHANGED <<op, queue, client, transport, req, service>>
    BY <1>1 DEF vars
  <2>2. Grows
    BY <2>1 DEF Grows
  <2>3. TypeOK' /\ QueueInv'
    BY <2>1, QueueStays DEF IInv, TypeOK
  <2>4. ClientInv' /\ RequestInv'
    BY <2>1, <2>2, SharedStays
  <2>5. ASSUME NEW o \in Op
        PROVE  WriteInv(o)'
    BY <2>1, <2>2, WriteStays DEF IInv
  <2>6. (\A o \in Op : WriteInv(o))'
    BY <2>5
  <2>. QED BY <2>3, <2>4, <2>6 DEF IInv
<1>2. CASE \E o \in Bridged : Submit(o) \/ Start(o) \/ Timeout(o) \/ Closed(o)
  BY <1>2, SubmitKeeps, BeginKeeps, EndOfAccessKeeps DEF Op
<1>3. CASE Advance
  BY <1>3, AdvanceKeeps
<1>4. CASE \E o \in Direct : Toggle(o)
  BY <1>4, BeginKeeps DEF Op
<1>5. CASE \E o \in Op : GetCapabilities(o) \/ Authorize(o) \/ Call(o)
  BY <1>5, GetCapabilitiesKeeps, AuthorizeKeeps, CallKeeps
<1>6. CASE \E r \in Requests : Resolve(r) \/ LookupFails(r) \/ Reply(r) \/ Serve(r) \/ Lost(r)
  BY <1>6, ResolveKeeps, EndedKeeps, ServeKeeps, LostKeeps
<1>7. CASE CapabilitiesTimeout \/ Dispose
  BY <1>7, EndOfAccessKeeps
<1>8. CASE ServiceStarts \/ ServiceStops
  BY <1>8, ServiceKeeps
<1>. QED BY <1>1, <1>2, <1>3, <1>4, <1>5, <1>6, <1>7, <1>8 DEF Next

\* The inductive invariant holds of every behaviour of the client, whatever the
\* service and the bus do.
THEOREM Invariance == Spec => []IInv
BY InitInv, StepInv, PTL DEF Spec

\* The queue, the client, its transport and the service keep the shapes that
\* the code gives them.
THEOREM TypeCorrect == Spec => []TypeOK
<1>1. IInv => TypeOK
  BY DEF IInv
<1>. QED BY Invariance, <1>1, PTL

\* A write goes only to a service that this connection found compatible and
\* that authorized it, over any restarts of the service.
THEOREM CheckedServiceTheorem == Spec => []WritesReachTheCheckedService
<1>1. ASSUME IInv, NEW o \in Op, req[o].stage = "sent"
      PROVE  req[o].to \in service.checked \cap service.granted
  <2>1. Checked(transport, service) /\ Granted(transport, service)
    BY <1>1 DEF IInv, WriteInv, PassedInv
  <2>2. req[o].to = transport.owner
    BY <1>1 DEF IInv, RequestInv, Requests
  <2>. QED BY <2>1, <2>2 DEF Checked, Granted
<1>2. IInv => WritesReachTheCheckedService
  BY <1>1 DEF WritesReachTheCheckedService
<1>. QED BY Invariance, <1>2, PTL

\* However often the bridge and the client retry, a write runs its backend once
\* at most, and was run if it is reported as done.
THEOREM ExecutedAtMostOnceTheorem == Spec => []ExecutedAtMostOnce
<1>1. IInv => ExecutedAtMostOnce
  BY DEF IInv, WriteInv, RunInv, ExecutedAtMostOnce
<1>. QED BY Invariance, <1>1, PTL

\* While access is open, of the writes of the queue one at a time is on the bus.
THEOREM QueuedWritesDoNotOverlapTheorem == Spec => []QueuedWritesDoNotOverlap
<1>1. ASSUME IInv, NEW o \in Bridged, ~transport.closed, req[o].stage \in {"lookup", "sent"}
      PROVE  NextInQueue(o)
  <2>1. ~client.closed /\ WriteInv(o)
    BY <1>1 DEF IInv, ClientInv, Op
  <2>2. op[o].pc = "call"
    BY <1>1, <2>1 DEF WriteInv, CallInv
  <2>. QED BY <1>1, <2>2 DEF IInv, QueueInv
<1>2. IInv => QueuedWritesDoNotOverlap
  BY <1>1 DEF QueuedWritesDoNotOverlap, NextInQueue
<1>. QED BY Invariance, <1>2, PTL

\* A write that has ended for its caller is not sent by a lookup or an
\* authorization that was under way.
THEOREM NoLateWriteTheorem == Spec => NoLateWrite
<1>1. ASSUME IInv, Next, NEW o \in Op,
             op[o].pc \in {"closing", "settled"}, req[o].stage # "sent"
      PROVE  req'[o].stage # "sent"
  <2>1. req[o].stage # "none" => client.closed /\ transport.closed
    BY <1>1 DEF IInv, WriteInv, CallInv, ClientInv
  <2>2. req \in [Requests -> Request] /\ o \in Requests
    BY <1>1 DEF IInv, TypeOK, Requests
  <2>3. Lookup.stage = "lookup" /\ NoRequest.stage = "none"
    BY DEF Lookup, NoRequest
  <2>4. ASSUME NEW r \in Requests, req' = [req EXCEPT ![r] = NoRequest]
        PROVE  req'[o].stage # "sent"
    BY <1>1, <2>2, <2>3, <2>4
  <2>5. ASSUME NEW r \in Requests, Invoke(r)
        PROVE  req'[o].stage # "sent"
    <3>1. /\ \A p \in Requests \ {r} : req'[p] = req[p]
          /\ req'[r].stage \in {"lookup", "answered"}
      BY <1>1, <2>5, InvokeFacts
    <3>. QED BY <1>1, <2>2, <3>1
  <2>6. CASE \E p \in Op : GetCapabilities(p) \/ Authorize(p) \/ Call(p)
    <3>1. "caps" \in Requests /\ "auth" \in Requests /\ \A p \in Op : p \in Requests
      BY DEF Requests
    <3>2. UNCHANGED req \/ \E r \in Requests : Invoke(r)
      BY <2>6, <3>1 DEF GetCapabilities, Authorize, Call
    <3>. QED BY <1>1, <2>5, <3>2
  <2>7. ASSUME NEW r \in Requests, Resolve(r)
        PROVE  req'[o].stage # "sent"
    <3>1. CASE Late
      BY <2>4, <2>7, <3>1 DEF Resolve, Ends
    <3>2. CASE ~Late
      <4>1. r # o
        BY <2>1, <2>7, <3>2 DEF Resolve, Late
      <4>2. UNCHANGED req \/ \E q : req' = [req EXCEPT ![r] = q]
        BY <2>7 DEF Resolve, Ends
      <4>. QED BY <1>1, <2>2, <4>1, <4>2
    <3>. QED BY <3>1, <3>2
  <2>8. ASSUME NEW r \in Requests, LookupFails(r) \/ Reply(r)
        PROVE  req'[o].stage # "sent"
    BY <2>4, <2>8 DEF LookupFails, Reply, Ends
  <2>9. ASSUME NEW r \in Requests, Serve(r) \/ Lost(r)
        PROVE  req'[o].stage # "sent"
    <3>1. PICK a \in Failures \cup {"ok"} :
            req' = [req EXCEPT ![r] = [@ EXCEPT !.stage = "answered", !.answer = a]]
      BY <2>9 DEF Serve, Lost, Failures
    <3>2. [req[r] EXCEPT !.stage = "answered", !.answer = a].stage = "answered"
      BY <2>2 DEF Request
    <3>. QED BY <1>1, <2>2, <3>1, <3>2
  <2>10. CASE UNCHANGED req
    BY <1>1, <2>10
  <2>11. \/ \E p \in Op : GetCapabilities(p) \/ Authorize(p) \/ Call(p)
         \/ \E r \in Requests : Resolve(r) \/ LookupFails(r) \/ Reply(r) \/ Serve(r) \/ Lost(r)
         \/ UNCHANGED req
    BY <1>1 DEF Next, Submit, Start, Timeout, Closed, Advance, Toggle, CapabilitiesTimeout,
                Dispose, ServiceStarts, ServiceStops
  <2>. QED BY <2>6, <2>7, <2>8, <2>9, <2>10, <2>11
<1>2. IInv /\ [Next]_vars =>
        [\A o \in Op : op[o].pc \in {"closing", "settled"} /\ req[o].stage # "sent" =>
           req'[o].stage # "sent"]_vars
  BY <1>1
<1>. QED BY Invariance, <1>2, PTL DEF Spec, NoLateWrite
=============================================================================
