-------------------------- MODULE ControlServiceProofs --------------------------
(***************************************************************************)
(* Safety of ControlService for every set of clients and calls.  What the  *)
(* callbacks rely on is spread over the bus (inbox), Polkit, the runner    *)
(* and Ctx: the invariant says that a call is in at most one of them, and  *)
(* that the order of the bus announces every departure in time.            *)
(***************************************************************************)
EXTENDS ControlService, TLAPS

CallEvent(k) == [kind |-> "call", id |-> k]
LeftEvent(c) == [kind |-> "left", id |-> c]

\* An invocation that nobody has looked at yet.
Untouched(k) ==
  call[k].answers = 0 /\ polkit[k] = "none" /\ cmd[k] = Runner!Fresh

\* A call is queued once and untouched; its sender is on the bus or its
\* departure comes later.
InboxInv ==
  /\ \A m, n \in DOMAIN inbox :
       inbox[m] = inbox[n] /\ inbox[m].kind = "call" => m = n
  /\ \A n \in DOMAIN inbox, k \in Call :
       inbox[n] = CallEvent(k) =>
         /\ call[k].method # "unsent" /\ Untouched(k)
         /\ \/ call[k].sender \in connected
            \/ \E m \in DOMAIN inbox : m > n /\ inbox[m] = LeftEvent(call[k].sender)

\* A call waits for Polkit or for the runner, or was answered, or neither.
CallInv ==
  \A k \in Call :
    /\ call[k].method = "unsent" => Untouched(k)
    /\ call[k].method # "unsent" => call[k].sender \in Client
    /\ call[k].answers \in 0..1
    /\ call[k].answers = 0 => call[k].reply = "none"
    /\ polkit[k] # "none" => /\ call[k].method = "Authorize" /\ call[k].answers = 0
    /\ cmd[k].phase # "idle" => call[k].method \in {"Write", "Upload"}
    /\ cmd[k].phase = "running" => call[k].answers = 0

\* What the service can know of a command.
CommandInv ==
  \A k \in Call :
    /\ cmd[k].phase = "idle" => cmd[k] = Runner!Fresh
    /\ cmd[k].phase \in {"idle", "running"} <=> cmd[k].status = "none"
    /\ cmd[k].backend = "live" /\ cmd[k].phase # "running" =>
         cmd[k].status = "cleanupFailed"
    /\ cmd[k].status = "success" => cmd[k].backend = "gone"
    /\ cmd[k].status = "cleanupFailed" => ctx.cleanupFailed

\* The active operation is the running command, and owns the only payload.
ActiveInv ==
  \A k \in Call :
    /\ cmd[k].phase = "running" <=> ctx.active = k
    /\ k \in temp => ctx.active = k
    /\ ctx.active = k /\ call[k].method = "Upload" => k \in temp

PhaseInv ==
  /\ ctx.phase \in {"cancelling", "exited"} => ctx.active = NoCall
  /\ ctx.phase = "exited" => \A k \in Call : polkit[k] = "none"

IInv ==
  /\ TypeOK /\ InboxInv /\ CallInv /\ CommandInv /\ ActiveInv /\ PhaseInv
  /\ HonestReply /\ AccessEndsWithConnection

-----------------------------------------------------------------------------
(* What the helpers of the actions do.                                     *)

\* Answering a call for the first time touches only its answer.
LEMMA AnswerOnce ==
  ASSUME call \in [Call -> CallState], NEW k \in Call, NEW reply \in {"done", "error"},
         call[k].answers = 0, Answer(k, reply)
  PROVE  /\ call' \in [Call -> CallState]
         /\ \A j \in Call \ {k} : call'[j] = call[j]
         /\ call'[k].method = call[k].method /\ call'[k].sender = call[k].sender
         /\ call'[k].answers = 1 /\ call'[k].reply = reply
<1> DEFINE r == Answered(call[k], reply)
<1>1. call[k] \in CallState /\ 1 \in 0..2 /\ reply \in {"none", "done", "error"}
  OBVIOUS
<1>2. /\ r.method = call[k].method /\ r.sender = call[k].sender
      /\ r.answers = 1 /\ r.reply = reply
  BY <1>1 DEF CallState, Answered
<1>3. r = [call[k] EXCEPT !.answers = 1, !.reply = reply]
  BY DEF Answered
<1>4. r \in CallState
  BY <1>1, <1>3 DEF CallState
<1>5. call' = [call EXCEPT ![k] = r]
  BY DEF Answer
<1> HIDE DEF r
<1>. QED BY <1>2, <1>4, <1>5

\* The head of the inbox has been handled.
LEMMA Popped ==
  ASSUME inbox \in Seq(Events), inbox # <<>>, inbox' = Tail(inbox)
  PROVE  /\ inbox' \in Seq(Events)
         /\ 1 \in DOMAIN inbox /\ Head(inbox) = inbox[1]
         /\ \A n \in DOMAIN inbox' : n + 1 \in DOMAIN inbox /\ inbox'[n] = inbox[n + 1]
         /\ \A n \in DOMAIN inbox : n = 1 \/ (n - 1 \in DOMAIN inbox' /\ inbox'[n - 1] = inbox[n])
OBVIOUS

\* Another message was sent.
LEMMA Pushed ==
  ASSUME inbox \in Seq(Events), NEW e \in Events, inbox' = Append(inbox, e)
  PROVE  /\ inbox' \in Seq(Events)
         /\ \A n \in DOMAIN inbox : n \in DOMAIN inbox' /\ inbox'[n] = inbox[n]
         /\ \A n \in DOMAIN inbox' : n \in DOMAIN inbox \/ (n = Len(inbox) + 1 /\ inbox'[n] = e)
         /\ Len(inbox) + 1 \in DOMAIN inbox' /\ inbox'[Len(inbox) + 1] = e
         /\ DOMAIN inbox = 1..Len(inbox)
OBVIOUS

-----------------------------------------------------------------------------
LEMMA InitIInv == Init => IInv
BY NoCallAssumption
   DEF Init, IInv, TypeOK, InboxInv, CallInv, CommandInv, ActiveInv, PhaseInv, HonestReply,
       AccessEndsWithConnection, Untouched, CallState, Ctx, Runner!Init, Runner!Fresh,
       Runner!Commands, Runner!Statuses

-----------------------------------------------------------------------------
(* Frames: what a step has to leave alone.                                 *)

\* A call that is still queued stays untouched.
LEMMA InboxStays ==
  ASSUME TypeOK, InboxInv, UNCHANGED <<connected, inbox>>,
         \A k \in Call : Untouched(k) => /\ call'[k] = call[k] /\ cmd'[k] = cmd[k]
                                         /\ polkit'[k] = "none"
  PROVE  InboxInv'
BY DEF TypeOK, InboxInv, Untouched, CallEvent, LeftEvent

LEMMA InboxPops ==
  ASSUME TypeOK, InboxInv, inbox # <<>>, inbox' = Tail(inbox), UNCHANGED connected,
         \A k \in Call : Untouched(k) /\ Head(inbox) # CallEvent(k) =>
                           /\ call'[k] = call[k] /\ cmd'[k] = cmd[k]
                           /\ polkit'[k] = "none"
  PROVE  InboxInv'
<1>1. /\ 1 \in DOMAIN inbox /\ Head(inbox) = inbox[1] /\ inbox \in Seq(Events)
      /\ \A n \in DOMAIN inbox' : n + 1 \in DOMAIN inbox /\ inbox'[n] = inbox[n + 1]
      /\ \A n \in DOMAIN inbox : n = 1 \/ (n - 1 \in DOMAIN inbox' /\ inbox'[n - 1] = inbox[n])
  BY Popped DEF TypeOK
<1>2. DOMAIN inbox \subseteq Nat \ {0} /\ DOMAIN inbox' \subseteq Nat \ {0}
  BY Popped DEF TypeOK
<1>3. ASSUME NEW m \in DOMAIN inbox', NEW n \in DOMAIN inbox',
             inbox'[m] = inbox'[n], inbox'[m].kind = "call"
      PROVE  m = n
  <2>1. m + 1 = n + 1
    BY <1>1, <1>2, <1>3 DEF InboxInv
  <2>. QED BY <2>1, <1>2
<1>4. ASSUME NEW n \in DOMAIN inbox', NEW k \in Call, inbox'[n] = CallEvent(k)
      PROVE  /\ call'[k].method # "unsent" /\ Untouched(k)'
             /\ \/ call'[k].sender \in connected'
                \/ \E m \in DOMAIN inbox' : m > n /\ inbox'[m] = LeftEvent(call'[k].sender)
  <2>1. n + 1 \in DOMAIN inbox /\ inbox[n + 1] = CallEvent(k) /\ n + 1 # 1
    BY <1>1, <1>2, <1>4
  <2>2. Head(inbox) # CallEvent(k)
    BY <2>1, <1>1 DEF InboxInv, CallEvent
  <2>3. call[k].method # "unsent" /\ Untouched(k)
    BY <2>1 DEF InboxInv
  <2>4. call'[k] = call[k] /\ Untouched(k)'
    BY <2>2, <2>3 DEF Untouched
  <2>5. CASE call[k].sender \in connected
    BY <2>3, <2>4, <2>5
  <2>6. CASE call[k].sender \notin connected
    <3>1. PICK m \in DOMAIN inbox : m > n + 1 /\ inbox[m] = LeftEvent(call[k].sender)
      BY <2>1, <2>6 DEF InboxInv
    <3>2. m - 1 \in DOMAIN inbox' /\ inbox'[m - 1] = inbox[m] /\ m - 1 > n
      BY <3>1, <1>1, <1>2
    <3>. QED BY <3>1, <3>2, <2>3, <2>4
  <2>. QED BY <2>5, <2>6
<1>. QED BY <1>3, <1>4 DEF InboxInv

\* Whoever keeps access is not the one whose departure was just handled.
LEMMA AccessPops ==
  ASSUME TypeOK, AccessEndsWithConnection, inbox # <<>>, inbox' = Tail(inbox),
         UNCHANGED connected, ctx'.phase = "running" => ctx.phase = "running",
         \A c \in ctx'.auth \cup ctx'.pending :
           c \in ctx.auth \cup ctx.pending /\ Head(inbox) # LeftEvent(c)
  PROVE  AccessEndsWithConnection'
<1>1. /\ Head(inbox) = inbox[1]
      /\ \A n \in DOMAIN inbox : n = 1 \/ (n - 1 \in DOMAIN inbox' /\ inbox'[n - 1] = inbox[n])
  BY Popped DEF TypeOK
<1>2. ASSUME NEW c \in ctx'.auth \cup ctx'.pending, c \notin connected', ctx'.phase = "running"
      PROVE  \E n \in DOMAIN inbox' : inbox'[n] = LeftEvent(c)
  <2>1. PICK n \in DOMAIN inbox : inbox[n] = LeftEvent(c)
    BY <1>2 DEF AccessEndsWithConnection, LeftEvent
  <2>2. n # 1
    BY <1>1, <2>1
  <2>. QED BY <1>1, <2>1, <2>2
<1>. QED BY <1>2 DEF AccessEndsWithConnection, LeftEvent

\* Only the departure of a client and the end of the process matter to it.
LEMMA AccessStays ==
  ASSUME AccessEndsWithConnection, UNCHANGED <<connected, inbox>>,
         ctx'.phase = "running" => ctx.phase = "running",
         ctx'.auth \cup ctx'.pending \subseteq ctx.auth \cup ctx.pending
  PROVE  AccessEndsWithConnection'
BY DEF AccessEndsWithConnection

-----------------------------------------------------------------------------
(* Every action keeps the invariant.                                       *)

LEMMA SendKeeps ==
  ASSUME IInv, NEW k \in Call, Send(k)
  PROVE  IInv'
<1> DEFINE e == [kind |-> "call", id |-> k]
<1>1. PICK c \in connected, m \in Methods :
        call' = [call EXCEPT ![k].method = m, ![k].sender = c]
  BY DEF Send
<1>2. /\ e \in Events /\ inbox' = Append(inbox, e) /\ call[k].method = "unsent"
      /\ UNCHANGED <<connected, polkit, cmd, temp, ctx>>
  BY DEF Send, Events
<1>3. c \in Client /\ m # "unsent"
  BY DEF IInv, TypeOK, Methods
<1>4. /\ call' \in [Call -> CallState]
      /\ \A j \in Call \ {k} : call'[j] = call[j]
      /\ call'[k].method = m /\ call'[k].sender = c
      /\ call'[k].answers = call[k].answers /\ call'[k].reply = call[k].reply
  BY <1>1, <1>3 DEF IInv, TypeOK, CallState
<1>5. Untouched(k) /\ call[k].reply = "none"
  BY <1>2 DEF IInv, CallInv, Untouched
<1>6. /\ inbox' \in Seq(Events)
      /\ \A n \in DOMAIN inbox : n \in DOMAIN inbox' /\ inbox'[n] = inbox[n]
      /\ \A n \in DOMAIN inbox' : n \in DOMAIN inbox \/ (n = Len(inbox) + 1 /\ inbox'[n] = e)
  BY <1>2, Pushed DEF IInv, TypeOK
<1>7. \A n \in DOMAIN inbox : inbox[n] # e
  BY <1>2 DEF IInv, InboxInv, CallEvent
<1> HIDE DEF e
<1>8. TypeOK'
  BY <1>2, <1>4, <1>6 DEF IInv, TypeOK
<1>9. InboxInv'
  <2>1. \A i, j \in DOMAIN inbox' :
           inbox'[i] = inbox'[j] /\ inbox'[i].kind = "call" => i = j
    BY <1>6, <1>7 DEF IInv, InboxInv
  <2>2. ASSUME NEW n \in DOMAIN inbox', NEW j \in Call, inbox'[n] = CallEvent(j)
        PROVE  /\ call'[j].method # "unsent" /\ Untouched(j)'
               /\ \/ call'[j].sender \in connected'
                  \/ \E i \in DOMAIN inbox' : i > n /\ inbox'[i] = LeftEvent(call'[j].sender)
    <3>1. CASE j = k
      BY <3>1, <1>2, <1>3, <1>4, <1>5 DEF Untouched
    <3>2. CASE j # k
      <4>1. n \in DOMAIN inbox /\ inbox[n] = CallEvent(j)
        BY <3>2, <2>2, <1>6 DEF e, CallEvent
      <4>2. call'[j] = call[j] /\ Untouched(j)' /\ call'[j].method # "unsent"
        BY <4>1, <3>2, <1>2, <1>4 DEF IInv, InboxInv, Untouched
      <4>3. \/ call[j].sender \in connected
            \/ \E i \in DOMAIN inbox : i > n /\ inbox[i] = LeftEvent(call[j].sender)
        BY <4>1 DEF IInv, InboxInv
      <4>. QED BY <4>2, <4>3, <1>2, <1>6
    <3>. QED BY <3>1, <3>2
  <2>. QED BY <2>1, <2>2 DEF InboxInv
<1>10. CallInv'
  BY <1>2, <1>3, <1>4, <1>5 DEF IInv, CallInv, Untouched, Runner!Fresh
<1>11. CommandInv' /\ PhaseInv'
  BY <1>2 DEF IInv, CommandInv, PhaseInv
<1>12. ActiveInv'
  BY <1>2, <1>4, <1>5 DEF IInv, ActiveInv, Untouched, Runner!Fresh
<1>13. HonestReply'
  BY <1>2, <1>4, <1>5 DEF IInv, HonestReply
<1>14. AccessEndsWithConnection'
  BY <1>2, <1>6 DEF IInv, AccessEndsWithConnection
<1>. QED BY <1>8, <1>9, <1>10, <1>11, <1>12, <1>13, <1>14 DEF IInv

LEMMA LeaveKeeps ==
  ASSUME IInv, NEW c \in Client, Leave(c)
  PROVE  IInv'
<1> DEFINE e == [kind |-> "left", id |-> c]
<1>1. /\ e \in Events /\ inbox' = Append(inbox, e) /\ connected' = connected \ {c}
      /\ UNCHANGED <<call, polkit, cmd, temp, ctx>>
  BY DEF Leave, Events
<1>2. /\ inbox' \in Seq(Events) /\ DOMAIN inbox = 1..Len(inbox)
      /\ Len(inbox) \in Nat
      /\ \A n \in DOMAIN inbox : n \in DOMAIN inbox' /\ inbox'[n] = inbox[n]
      /\ \A n \in DOMAIN inbox' : n \in DOMAIN inbox \/ (n = Len(inbox) + 1 /\ inbox'[n] = e)
      /\ Len(inbox) + 1 \in DOMAIN inbox' /\ inbox'[Len(inbox) + 1] = e
  BY <1>1, Pushed DEF IInv, TypeOK
<1>3. e = LeftEvent(c) /\ e.kind = "left" /\ \A k \in Call : e # CallEvent(k)
  BY DEF LeftEvent, CallEvent
<1> HIDE DEF e
<1>4. TypeOK'
  BY <1>1, <1>2 DEF IInv, TypeOK
<1>5. InboxInv'
  <2>1. \A i, j \in DOMAIN inbox' :
           inbox'[i] = inbox'[j] /\ inbox'[i].kind = "call" => i = j
    BY <1>2, <1>3 DEF IInv, InboxInv
  <2>2. ASSUME NEW n \in DOMAIN inbox', NEW k \in Call, inbox'[n] = CallEvent(k)
        PROVE  /\ call'[k].method # "unsent" /\ Untouched(k)'
               /\ \/ call'[k].sender \in connected'
                  \/ \E i \in DOMAIN inbox' : i > n /\ inbox'[i] = LeftEvent(call'[k].sender)
    <3>1. n \in DOMAIN inbox /\ inbox[n] = CallEvent(k) /\ Len(inbox) + 1 > n
      BY <2>2, <1>2, <1>3
    <3>2. call'[k].method # "unsent" /\ Untouched(k)' /\ call'[k] = call[k]
      BY <3>1, <1>1 DEF IInv, InboxInv, Untouched
    <3>3. CASE call[k].sender = c
      BY <3>1, <3>2, <3>3, <1>2, <1>3
    <3>4. CASE call[k].sender # c
      <4>1. \/ call[k].sender \in connected
            \/ \E i \in DOMAIN inbox : i > n /\ inbox[i] = LeftEvent(call[k].sender)
        BY <3>1 DEF IInv, InboxInv
      <4>. QED BY <4>1, <3>2, <3>4, <1>1, <1>2
    <3>. QED BY <3>3, <3>4
  <2>. QED BY <2>1, <2>2 DEF InboxInv
<1>6. CallInv' /\ CommandInv' /\ ActiveInv' /\ PhaseInv' /\ HonestReply'
  BY <1>1 DEF IInv, CallInv, CommandInv, ActiveInv, PhaseInv, HonestReply, Untouched
<1>7. AccessEndsWithConnection'
  <2>1. ASSUME NEW d \in ctx'.auth \cup ctx'.pending, d \notin connected', ctx'.phase = "running"
        PROVE  \E n \in DOMAIN inbox' : inbox'[n] = LeftEvent(d)
    <3>1. CASE d = c
      BY <3>1, <1>2, <1>3
    <3>2. CASE d # c
      <4>1. PICK n \in DOMAIN inbox : inbox[n] = LeftEvent(d)
        BY <2>1, <3>2, <1>1 DEF IInv, AccessEndsWithConnection, LeftEvent
      <4>. QED BY <4>1, <1>2
    <3>. QED BY <3>1, <3>2
  <2>. QED BY <2>1 DEF AccessEndsWithConnection, LeftEvent
<1>. QED BY <1>4, <1>5, <1>6, <1>7 DEF IInv

\* The call at the head of the inbox is in nobody's hands yet.
LEMMA HeadIsUntouched ==
  ASSUME IInv, inbox # <<>>, NEW k \in Call, Head(inbox) = CallEvent(k)
  PROVE  /\ Untouched(k) /\ call[k].method # "unsent" /\ call[k].sender \in Client
         /\ \A j \in Call : Head(inbox) # CallEvent(j) <=> j # k
         /\ \A c \in Client : Head(inbox) # LeftEvent(c)
<1>1. 1 \in DOMAIN inbox /\ inbox[1] = CallEvent(k)
  BY DEF IInv, TypeOK
<1>. QED BY <1>1 DEF IInv, InboxInv, CallInv, CallEvent, LeftEvent

\* A call at the head of the inbox is answered at once.
LEMMA AnswerHeadKeeps ==
  ASSUME IInv, inbox # <<>>, inbox' = Tail(inbox),
         NEW k \in Call, Head(inbox) = CallEvent(k),
         NEW reply \in {"done", "error"}, Answer(k, reply),
         reply = "done" => call[k].method \notin {"Write", "Upload"},
         UNCHANGED <<connected, polkit, cmd, temp, ctx>>
  PROVE  IInv'
<1>1. /\ Untouched(k) /\ call[k].method # "unsent"
      /\ \A j \in Call : Head(inbox) # CallEvent(j) <=> j # k
      /\ \A c \in Client : Head(inbox) # LeftEvent(c)
  BY HeadIsUntouched
<1>2. /\ call' \in [Call -> CallState]
      /\ \A j \in Call \ {k} : call'[j] = call[j]
      /\ call'[k].method = call[k].method /\ call'[k].sender = call[k].sender
      /\ call'[k].answers = 1 /\ call'[k].reply = reply
  BY <1>1, AnswerOnce DEF IInv, TypeOK, Untouched
<1>3. TypeOK'
  BY <1>2, Popped DEF IInv, TypeOK
<1>4. InboxInv'
  BY <1>1, <1>2, InboxPops DEF IInv, Untouched
<1>5. CallInv'
  BY <1>1, <1>2 DEF IInv, CallInv, Untouched, Runner!Fresh
<1>6. CommandInv' /\ PhaseInv'
  BY DEF IInv, CommandInv, PhaseInv
<1>7. ActiveInv' /\ HonestReply'
  BY <1>1, <1>2 DEF IInv, ActiveInv, HonestReply, Untouched, Runner!Fresh
<1>8. AccessEndsWithConnection'
  <2>1. ctx'.auth \cup ctx'.pending \subseteq Client
    BY DEF IInv, TypeOK, Ctx
  <2>. QED BY <2>1, <1>1, AccessPops DEF IInv
<1>. QED BY <1>3, <1>4, <1>5, <1>6, <1>7, <1>8 DEF IInv

LEMMA AnsweringKeeps ==
  ASSUME IInv, NEW k \in Call, GetCapabilities(k) \/ AuthorizeAgain(k) \/ Refuse(k)
  PROVE  IInv'
<1>1. \E reply \in {"done", "error"} :
         /\ inbox # <<>> /\ Head(inbox) = CallEvent(k) /\ inbox' = Tail(inbox)
         /\ Answer(k, reply)
         /\ reply = "done" => call[k].method \notin {"Write", "Upload"}
         /\ UNCHANGED <<connected, polkit, cmd, temp, ctx>>
  BY DEF GetCapabilities, AuthorizeAgain, Refuse, Handling, CallEvent
<1>. QED BY <1>1, AnswerHeadKeeps

LEMMA UnregisteredKeeps ==
  ASSUME IInv, Unregistered
  PROVE  IInv'
<1>1. /\ inbox # <<>> /\ inbox' = Tail(inbox) /\ ctx.phase # "running"
      /\ UNCHANGED <<connected, polkit, cmd, temp, ctx>> /\ Head(inbox) \in Events
  BY DEF Unregistered, IInv, TypeOK
<1>2. CASE Head(inbox).kind = "call"
  <2>1. PICK k \in Call : Head(inbox) = CallEvent(k) /\ Answer(k, "error")
    BY <1>1, <1>2 DEF Unregistered, Events, CallEvent
  <2>. QED BY <1>1, <2>1, AnswerHeadKeeps
<1>3. CASE Head(inbox).kind # "call"
  <2>1. UNCHANGED call
    BY <1>3 DEF Unregistered
  <2>2. TypeOK'
    BY <1>1, <2>1, Popped DEF IInv, TypeOK
  <2>3. InboxInv'
    BY <1>1, <2>1, InboxPops DEF IInv, Untouched
  <2>4. CallInv' /\ CommandInv' /\ ActiveInv' /\ PhaseInv' /\ HonestReply'
    BY <1>1, <2>1 DEF IInv, CallInv, CommandInv, ActiveInv, PhaseInv, HonestReply, Untouched
  <2>5. AccessEndsWithConnection'
    BY <1>1 DEF AccessEndsWithConnection
  <2>. QED BY <2>2, <2>3, <2>4, <2>5 DEF IInv
<1>. QED BY <1>2, <1>3

LEMMA AuthorizeAskKeeps ==
  ASSUME IInv, NEW k \in Call, AuthorizeAsk(k)
  PROVE  IInv'
<1>1. /\ inbox # <<>> /\ Head(inbox) = CallEvent(k) /\ inbox' = Tail(inbox)
      /\ call[k].method = "Authorize" /\ ctx.phase = "running"
      /\ polkit' = [polkit EXCEPT ![k] = "asking"]
      /\ ctx' = [ctx EXCEPT !.pending = @ \cup {call[k].sender}]
      /\ UNCHANGED <<connected, call, cmd, temp>>
  BY DEF AuthorizeAsk, Handling, CallEvent
<1>2. /\ Untouched(k) /\ call[k].sender \in Client
      /\ \A j \in Call : Head(inbox) # CallEvent(j) <=> j # k
      /\ \A c \in Client : Head(inbox) # LeftEvent(c)
  BY <1>1, HeadIsUntouched
<1>3. /\ polkit' \in [Call -> {"none", "asking", "cancelled"}]
      /\ \A j \in Call \ {k} : polkit'[j] = polkit[j]
  BY <1>1 DEF IInv, TypeOK
<1>4. /\ ctx' \in Ctx /\ ctx'.phase = ctx.phase /\ ctx'.auth = ctx.auth
      /\ ctx'.pending = ctx.pending \cup {call[k].sender}
      /\ ctx'.active = ctx.active /\ ctx'.cleanupFailed = ctx.cleanupFailed
  BY <1>1, <1>2 DEF IInv, TypeOK, Ctx
<1>5. TypeOK'
  BY <1>1, <1>3, <1>4, Popped DEF IInv, TypeOK
<1>6. InboxInv'
  BY <1>1, <1>2, <1>3, InboxPops DEF IInv, Untouched
<1>7. CallInv'
  BY <1>1, <1>2, <1>3 DEF IInv, CallInv, Untouched, Runner!Fresh
<1>8. CommandInv' /\ PhaseInv' /\ ActiveInv' /\ HonestReply'
  BY <1>1, <1>4 DEF IInv, CommandInv, PhaseInv, ActiveInv, HonestReply
<1>9. AccessEndsWithConnection'
  <2>1. ASSUME NEW c \in ctx'.auth \cup ctx'.pending, c \notin connected'
        PROVE  \E n \in DOMAIN inbox' : inbox'[n] = LeftEvent(c)
    <3>1. \E n \in DOMAIN inbox : inbox[n] = LeftEvent(c)
      <4>1. CASE c = call[k].sender
        <5>1. 1 \in DOMAIN inbox /\ inbox[1] = CallEvent(k)
          BY <1>1 DEF IInv, TypeOK
        <5>. QED BY <5>1, <4>1, <2>1, <1>1 DEF IInv, InboxInv
      <4>2. CASE c # call[k].sender
        BY <4>2, <2>1, <1>1, <1>4 DEF IInv, AccessEndsWithConnection, LeftEvent
      <4>. QED BY <4>1, <4>2
    <3>2. c \in Client
      BY <1>4, <2>1 DEF Ctx
    <3>3. PICK n \in DOMAIN inbox : inbox[n] = LeftEvent(c)
      BY <3>1
    <3>4. /\ Head(inbox) = inbox[1]
          /\ \A m \in DOMAIN inbox : m = 1 \/ (m - 1 \in DOMAIN inbox' /\ inbox'[m - 1] = inbox[m])
      BY <1>1, Popped DEF IInv, TypeOK
    <3>. QED BY <3>2, <3>3, <3>4, <1>2
  <2>. QED BY <2>1 DEF AccessEndsWithConnection, LeftEvent
<1>. QED BY <1>5, <1>6, <1>7, <1>8, <1>9 DEF IInv

LEMMA InvokeKeeps ==
  ASSUME IInv, NEW k \in Call, Invoke(k)
  PROVE  IInv'
<1>1. /\ inbox # <<>> /\ Head(inbox) = CallEvent(k) /\ inbox' = Tail(inbox)
      /\ call[k].method \in {"Write", "Upload"} /\ ctx.phase = "running"
      /\ ctx.active = NoCall /\ ~ctx.cleanupFailed
      /\ temp' = IF call[k].method = "Upload" THEN temp \cup {k} ELSE temp
      /\ ctx' = [ctx EXCEPT !.active = k, !.disconnected = FALSE]
      /\ cmd' = [cmd EXCEPT ![k].phase = "running"]
      /\ UNCHANGED <<connected, call, polkit>>
  BY DEF Invoke, Handling, Usable, Runner!Start, CallEvent
<1>2. /\ Untouched(k)
      /\ \A j \in Call : Head(inbox) # CallEvent(j) <=> j # k
      /\ \A c \in Client : Head(inbox) # LeftEvent(c)
  BY <1>1, HeadIsUntouched
<1>3. /\ cmd' \in [Call -> Runner!Commands]
      /\ \A j \in Call \ {k} : cmd'[j] = cmd[j]
      /\ cmd'[k].phase = "running" /\ cmd'[k].status = "none" /\ cmd'[k].backend = "none"
  BY <1>1, <1>2 DEF IInv, TypeOK, Untouched, Runner!Fresh, Runner!Commands
<1>4. /\ ctx' \in Ctx /\ ctx'.phase = "running" /\ ctx'.auth = ctx.auth
      /\ ctx'.pending = ctx.pending /\ ctx'.active = k
      /\ ctx'.cleanupFailed = ctx.cleanupFailed
  BY <1>1 DEF IInv, TypeOK, Ctx
<1>5. k # NoCall /\ \A j \in Call : cmd[j].phase # "running" /\ j \notin temp
  BY <1>1, NoCallAssumption DEF IInv, ActiveInv
<1>6. TypeOK'
  BY <1>1, <1>3, <1>4, Popped DEF IInv, TypeOK
<1>7. InboxInv'
  BY <1>1, <1>2, <1>3, InboxPops DEF IInv, Untouched
<1>8. CallInv'
  BY <1>1, <1>2, <1>3 DEF IInv, CallInv, Untouched
<1>9. CommandInv'
  BY <1>1, <1>3, <1>4 DEF IInv, CommandInv
<1>10. ActiveInv'
  BY <1>1, <1>3, <1>4, <1>5 DEF IInv, ActiveInv
<1>11. PhaseInv'
  BY <1>4 DEF PhaseInv
<1>12. HonestReply'
  BY <1>1, <1>2, <1>3 DEF IInv, HonestReply, CallInv, Untouched
<1>13. AccessEndsWithConnection'
  <2>1. ctx.auth \cup ctx.pending \subseteq Client
    BY DEF IInv, TypeOK, Ctx
  <2>. QED BY <2>1, <1>1, <1>2, <1>4, AccessPops DEF IInv
<1>. QED BY <1>6, <1>7, <1>8, <1>9, <1>10, <1>11, <1>12, <1>13 DEF IInv

LEMMA AuthDoneKeeps ==
  ASSUME IInv, NEW k \in Call, AuthDone(k)
  PROVE  IInv'
<1>1. /\ ctx.phase # "exited" /\ polkit[k] # "none" /\ polkit' = [polkit EXCEPT ![k] = "none"]
      /\ UNCHANGED <<connected, inbox, cmd, temp>>
  BY DEF AuthDone
<1>2. call[k].method = "Authorize" /\ call[k].answers = 0 /\ ~Untouched(k)
  BY <1>1 DEF IInv, CallInv, Untouched
<1>3. /\ polkit' \in [Call -> {"none", "asking", "cancelled"}]
      /\ \A j \in Call : polkit'[j] \in {polkit[j], "none"}
      /\ polkit'[k] = "none"
  BY <1>1 DEF IInv, TypeOK
<1>4. /\ ctx' \in Ctx /\ ctx'.phase = ctx.phase /\ ctx'.active = ctx.active
      /\ ctx'.cleanupFailed = ctx.cleanupFailed
      /\ ctx'.auth \cup ctx'.pending \subseteq ctx.auth \cup ctx.pending
  <2>0. ctx \in Ctx
    BY DEF IInv, TypeOK
  <2>1. CASE UNCHANGED ctx
    BY <2>0, <2>1
  <2>2. CASE /\ call[k].sender \in ctx.pending
             /\ ctx' = [ctx EXCEPT !.pending = @ \ {call[k].sender},
                                   !.auth = @ \cup {call[k].sender}]
    BY <2>0, <2>2 DEF Ctx
  <2>3. CASE ctx' = [ctx EXCEPT !.pending = @ \ {call[k].sender}]
    BY <2>0, <2>3 DEF Ctx
  <2>. QED BY <2>1, <2>2, <2>3 DEF AuthDone, CheckIsKnown
<1>5. /\ call' \in [Call -> CallState]
      /\ \A j \in Call \ {k} : call'[j] = call[j]
      /\ call'[k].method = call[k].method /\ call'[k].sender = call[k].sender
      /\ \/ call'[k] = call[k]
         \/ call'[k].answers = 1
  <2>1. CASE UNCHANGED call
    BY <2>1 DEF IInv, TypeOK
  <2>2. CASE Answer(k, "done")
    BY <2>2, <1>2, AnswerOnce DEF IInv, TypeOK
  <2>3. CASE Answer(k, "error")
    BY <2>3, <1>2, AnswerOnce DEF IInv, TypeOK
  <2>. QED BY <2>1, <2>2, <2>3 DEF AuthDone
<1>6. TypeOK'
  BY <1>1, <1>3, <1>4, <1>5 DEF IInv, TypeOK
<1>7. InboxInv'
  BY <1>1, <1>2, <1>3, <1>5, InboxStays DEF IInv, Untouched
<1>8. CallInv'
  BY <1>1, <1>2, <1>3, <1>5 DEF IInv, CallInv, Untouched
<1>9. CommandInv' /\ ActiveInv' /\ HonestReply'
  BY <1>1, <1>2, <1>4, <1>5 DEF IInv, CommandInv, ActiveInv, HonestReply
<1>10. PhaseInv'
  BY <1>1, <1>4 DEF IInv, PhaseInv
<1>11. AccessEndsWithConnection'
  BY <1>1, <1>4, AccessStays DEF IInv
<1>. QED BY <1>6, <1>7, <1>8, <1>9, <1>10, <1>11 DEF IInv

LEMMA CompleteKeeps ==
  ASSUME IInv, NEW k \in Call, Complete(k)
  PROVE  IInv'
<1>1. PICK status \in Runner!Statuses :
        Runner!Finish(k, status) /\ FinishOperation(k, status) /\ Tell(k, status)
  BY DEF Complete
<1>2. /\ ctx.phase # "exited" /\ UNCHANGED <<connected, inbox, polkit>>
      /\ cmd[k].phase = "running" /\ temp' = temp \ {k}
      /\ status # "cleanupFailed" => cmd[k].backend # "live"
      /\ status = "success" => cmd[k].backend = "gone"
      /\ cmd' = [cmd EXCEPT ![k].phase = "over", ![k].status = status]
      /\ ctx' = [ctx EXCEPT !.active = NoCall,
                            !.cleanupFailed = @ \/ status = "cleanupFailed"]
  BY <1>1 DEF Complete, Runner!Finish, FinishOperation
<1>3. /\ call[k].method \in {"Write", "Upload"} /\ call[k].answers = 0 /\ ~Untouched(k)
      /\ ctx.active = k
  BY <1>2 DEF IInv, CallInv, ActiveInv, Untouched, Runner!Fresh
<1>4. /\ cmd' \in [Call -> Runner!Commands]
      /\ \A j \in Call \ {k} : cmd'[j] = cmd[j]
      /\ cmd'[k].phase = "over" /\ cmd'[k].status = status
      /\ cmd'[k].backend = cmd[k].backend
  BY <1>1, <1>2 DEF IInv, TypeOK, Runner!Commands
<1>5. /\ ctx' \in Ctx /\ ctx'.phase = ctx.phase /\ ctx'.auth = ctx.auth
      /\ ctx'.pending = ctx.pending /\ ctx'.active = NoCall
      /\ ctx'.cleanupFailed = (ctx.cleanupFailed \/ status = "cleanupFailed")
  <2>1. (ctx.cleanupFailed \/ status = "cleanupFailed") \in BOOLEAN /\ ctx \in Ctx
    BY DEF IInv, TypeOK
  <2>. QED BY <1>2, <2>1 DEF Ctx
<1>6. /\ call' \in [Call -> CallState]
      /\ \A j \in Call \ {k} : call'[j] = call[j]
      /\ call'[k].method = call[k].method /\ call'[k].sender = call[k].sender
      /\ \/ call'[k] = call[k]
         \/ call'[k].answers = 1 /\ (call'[k].reply = "done" => status = "success")
  <2>1. CASE UNCHANGED call
    BY <2>1 DEF IInv, TypeOK
  <2>2. CASE Answer(k, ReplyFor(status))
    <3>1. ReplyFor(status) \in {"done", "error"} /\ (ReplyFor(status) = "done" => status = "success")
      BY DEF ReplyFor
    <3>. HIDE DEF ReplyFor
    <3>2. DEFINE reply == ReplyFor(status)
    <3>3. reply \in {"done", "error"} /\ Answer(k, reply)
      BY <2>2, <3>1
    <3>. HIDE DEF reply
    <3>4. /\ call' \in [Call -> CallState]
          /\ \A j \in Call \ {k} : call'[j] = call[j]
          /\ call'[k].method = call[k].method /\ call'[k].sender = call[k].sender
          /\ call'[k].answers = 1 /\ call'[k].reply = reply
      BY <3>3, <1>3, AnswerOnce DEF IInv, TypeOK
    <3>. QED BY <3>1, <3>4 DEF reply
  <2>. QED BY <1>1, <2>1, <2>2 DEF Tell
<1>7. TypeOK'
  BY <1>2, <1>4, <1>5, <1>6 DEF IInv, TypeOK
<1>8. InboxInv'
  BY <1>2, <1>3, <1>4, <1>6, InboxStays DEF IInv, TypeOK, Untouched
<1>9. CallInv'
  BY <1>2, <1>3, <1>4, <1>6 DEF IInv, CallInv, Untouched
<1>10. CommandInv'
  <2>1. status # "none"
    BY <1>1 DEF Runner!Statuses
  <2>. QED BY <2>1, <1>2, <1>4, <1>5 DEF IInv, CommandInv
<1>11. ActiveInv'
  BY <1>2, <1>3, <1>4, <1>5, NoCallAssumption DEF IInv, ActiveInv
<1>12. PhaseInv'
  BY <1>2, <1>5 DEF IInv, PhaseInv
<1>13. HonestReply'
  BY <1>2, <1>3, <1>4, <1>6 DEF IInv, HonestReply, CallInv
<1>14. AccessEndsWithConnection'
  BY <1>2, <1>5, AccessStays DEF IInv
<1>. QED BY <1>7, <1>8, <1>9, <1>10, <1>11, <1>12, <1>13, <1>14 DEF IInv

\* Cancelling checks leaves the settled ones alone.
LEMMA ChecksCancelled ==
  ASSUME polkit \in [Call -> {"none", "asking", "cancelled"}], NEW cs, CancelCheck(cs)
  PROVE  /\ polkit' \in [Call -> {"none", "asking", "cancelled"}]
         /\ \A k \in Call : polkit'[k] = "none" <=> polkit[k] = "none"
BY DEF CancelCheck

LEMMA LeftKeeps ==
  ASSUME IInv, NEW c \in Client, Left(c)
  PROVE  IInv'
<1>1. /\ ctx.phase = "running" /\ inbox # <<>> /\ Head(inbox) = LeftEvent(c)
      /\ inbox' = Tail(inbox) /\ CancelCheck(ctx.pending \cap {c})
      /\ UNCHANGED <<connected, call, cmd, temp>>
  BY DEF Left, LeftEvent
<1>2. \A k \in Call : Head(inbox) # CallEvent(k)
  BY <1>1 DEF LeftEvent, CallEvent
<1>3. /\ polkit' \in [Call -> {"none", "asking", "cancelled"}]
      /\ \A k \in Call : polkit'[k] = "none" <=> polkit[k] = "none"
  BY <1>1, ChecksCancelled DEF IInv, TypeOK
<1>4. /\ ctx' \in Ctx /\ ctx'.phase = "running" /\ ctx'.auth = ctx.auth \ {c}
      /\ ctx'.pending = ctx.pending \ {c} /\ ctx'.active = ctx.active
      /\ ctx'.cleanupFailed = ctx.cleanupFailed
  <2>1. ctx \in Ctx
    BY DEF IInv, TypeOK
  <2>2. PICK here \in {ctx, Abandoned(ctx)} :
          ctx' = [here EXCEPT !.auth = @ \ {c}, !.pending = @ \ {c}]
    BY DEF Left
  <2>3. (ctx.active # NoCall) \in BOOLEAN
    OBVIOUS
  <2>4. /\ here \in Ctx /\ here.phase = "running" /\ here.auth = ctx.auth
        /\ here.pending = ctx.pending /\ here.active = ctx.active
        /\ here.cleanupFailed = ctx.cleanupFailed
    BY <1>1, <2>1, <2>2, <2>3 DEF Abandoned, Ctx
  <2>. QED BY <2>2, <2>4 DEF Ctx
<1>5. TypeOK'
  BY <1>1, <1>3, <1>4, Popped DEF IInv, TypeOK
<1>6. InboxInv'
  BY <1>1, <1>2, <1>3, InboxPops DEF IInv, Untouched
<1>7. CallInv' /\ CommandInv' /\ ActiveInv' /\ PhaseInv' /\ HonestReply'
  BY <1>1, <1>3, <1>4
     DEF IInv, CallInv, CommandInv, ActiveInv, PhaseInv, HonestReply, Untouched
<1>8. AccessEndsWithConnection'
  <2>1. \A d \in ctx'.auth \cup ctx'.pending :
           d \in ctx.auth \cup ctx.pending /\ Head(inbox) # LeftEvent(d)
    BY <1>1, <1>4 DEF LeftEvent
  <2>. QED BY <2>1, <1>1, AccessPops DEF IInv
<1>. QED BY <1>5, <1>6, <1>7, <1>8 DEF IInv

LEMMA ShutdownKeeps ==
  ASSUME IInv, Quit \/ CancelChecks \/ Exit
  PROVE  IInv'
<1>1. UNCHANGED <<connected, call, inbox, cmd, temp>>
  BY DEF Quit, CancelChecks, Exit
<1>2. /\ polkit' \in [Call -> {"none", "asking", "cancelled"}]
      /\ \A k \in Call : polkit'[k] = "none" <=> polkit[k] = "none"
  <2>1. CASE UNCHANGED polkit
    BY <2>1 DEF IInv, TypeOK
  <2>2. CASE CancelCheck(ctx.pending)
    BY <2>2, ChecksCancelled DEF IInv, TypeOK
  <2>. QED BY <2>1, <2>2 DEF Quit, CancelChecks, Exit
<1>3. /\ ctx' \in Ctx /\ ctx'.phase # "running" /\ ctx'.auth = ctx.auth
      /\ ctx'.pending = ctx.pending /\ ctx'.active = ctx.active
      /\ ctx'.cleanupFailed = ctx.cleanupFailed
      /\ ctx'.phase \in {"cancelling", "exited"} => ctx.active = NoCall
      /\ ctx'.phase = "exited" => \A k \in Call : polkit[k] = "none"
  <2>1. ctx \in Ctx /\ (ctx.active # NoCall) \in BOOLEAN
    BY DEF IInv, TypeOK
  <2>2. CASE Quit
    <3>1. /\ Abandoned(ctx) \in Ctx /\ Abandoned(ctx).auth = ctx.auth
          /\ Abandoned(ctx).pending = ctx.pending /\ Abandoned(ctx).active = ctx.active
          /\ Abandoned(ctx).cleanupFailed = ctx.cleanupFailed
      BY <2>1 DEF Abandoned, Ctx
    <3>. QED BY <2>2, <3>1 DEF Quit, Ctx
  <2>3. CASE CancelChecks
    BY <2>1, <2>3 DEF CancelChecks, Ctx
  <2>4. CASE Exit
    BY <2>1, <2>4 DEF Exit, Drained, Ctx, IInv, PhaseInv
  <2>. QED BY <2>2, <2>3, <2>4
<1>4. TypeOK'
  BY <1>1, <1>2, <1>3 DEF IInv, TypeOK
<1>5. InboxInv'
  BY <1>1, <1>2, InboxStays DEF IInv, Untouched
<1>6. CallInv' /\ CommandInv' /\ ActiveInv' /\ HonestReply'
  BY <1>1, <1>2, <1>3 DEF IInv, CallInv, CommandInv, ActiveInv, HonestReply, Untouched
<1>7. PhaseInv'
  BY <1>2, <1>3 DEF PhaseInv
<1>8. AccessEndsWithConnection'
  BY <1>3 DEF AccessEndsWithConnection
<1>. QED BY <1>4, <1>5, <1>6, <1>7, <1>8 DEF IInv

LEMMA BackendKeeps ==
  ASSUME IInv, NEW k \in Call, Backend(k)
  PROVE  IInv'
<1>1. /\ UNCHANGED <<connected, call, inbox, polkit, temp, ctx>>
      /\ \/ /\ cmd[k].phase = "running" /\ cmd[k].backend = "none"
            /\ cmd' = [cmd EXCEPT ![k].backend = "live"]
         \/ /\ cmd[k].backend = "live"
            /\ cmd' = [cmd EXCEPT ![k].backend = "gone"]
  BY DEF Backend, Runner!Launch, Runner!Vanish
<1>2. /\ cmd' \in [Call -> Runner!Commands]
      /\ \A j \in Call \ {k} : cmd'[j] = cmd[j]
      /\ cmd'[k].phase = cmd[k].phase /\ cmd'[k].status = cmd[k].status
      /\ \/ cmd[k].phase = "running" /\ cmd[k].backend = "none" /\ cmd'[k].backend = "live"
         \/ cmd[k].backend = "live" /\ cmd'[k].backend = "gone"
  BY <1>1 DEF IInv, TypeOK, Runner!Commands
<1>3. cmd[k].phase # "idle" /\ ~Untouched(k)
  BY <1>2 DEF IInv, CommandInv, Untouched, Runner!Fresh
<1>4. TypeOK'
  BY <1>1, <1>2 DEF IInv, TypeOK
<1>5. InboxInv'
  BY <1>1, <1>2, <1>3, InboxStays DEF IInv, TypeOK, Untouched
<1>6. CallInv'
  BY <1>1, <1>2, <1>3 DEF IInv, CallInv, Untouched
<1>7. CommandInv' /\ ActiveInv' /\ PhaseInv' /\ HonestReply'
  BY <1>1, <1>2, <1>3 DEF IInv, CommandInv, ActiveInv, PhaseInv, HonestReply
<1>8. AccessEndsWithConnection'
  BY <1>1 DEF IInv, AccessEndsWithConnection
<1>. QED BY <1>4, <1>5, <1>6, <1>7, <1>8 DEF IInv

LEMMA NextIInv == IInv /\ [Next]_vars => IInv'
<1>. SUFFICES ASSUME IInv, [Next]_vars PROVE IInv'
  OBVIOUS
<1>1. CASE \E k \in Call : Send(k) \/ AuthDone(k) \/ Complete(k) \/ Backend(k)
  BY <1>1, SendKeeps, AuthDoneKeeps, CompleteKeeps, BackendKeeps
<1>2. CASE \E c \in Client : Leave(c)
  BY <1>2, LeaveKeeps
<1>3. CASE Handle
  BY <1>3, AnsweringKeeps, AuthorizeAskKeeps, InvokeKeeps, LeftKeeps, UnregisteredKeeps
     DEF Handle
<1>4. CASE Quit \/ Shutdown
  BY <1>4, ShutdownKeeps DEF Shutdown
<1>5. CASE UNCHANGED vars
  BY <1>5 DEF vars, IInv, TypeOK, InboxInv, CallInv, CommandInv, ActiveInv, PhaseInv,
              HonestReply, AccessEndsWithConnection, Untouched
<1>. QED BY <1>1, <1>2, <1>3, <1>4, <1>5 DEF Next, Gone

-----------------------------------------------------------------------------
(* The theorems.                                                           *)

\* The invariant holds in every reachable state, for any clients and calls.
THEOREM Invariant == Spec => []IInv
BY InitIInv, NextIInv, PTL DEF Spec

\* The variables keep their types: in particular no invocation is answered
\* with anything but done or error.
THEOREM TypeCorrect == Spec => []TypeOK
<1>1. IInv => TypeOK
  BY DEF IInv
<1>. QED BY <1>1, Invariant, PTL

\* auth_done, complete_operation and the handlers never answer the same
\* invocation: a call is with one of them only.
THEOREM CallsAreAnsweredOnce == Spec => []AnsweredOnce
<1>1. IInv => AnsweredOnce
  BY DEF IInv, CallInv, AnsweredOnce
<1>. QED BY <1>1, Invariant, PTL

\* Ctx::auth and Ctx::pending hold no sender whose departure was handled, also
\* when Polkit answers after it.
THEOREM AccessIsOfConnections == Spec => []AccessEndsWithConnection
<1>1. IInv => AccessEndsWithConnection
  BY DEF IInv
<1>. QED BY <1>1, Invariant, PTL

\* The pointer that the completion carries is that of Ctx::active.
THEOREM CompletionsMatch == Spec => []CompletionFindsItsOperation
<1>1. IInv => CompletionFindsItsOperation
  BY DEF IInv, ActiveInv, CompletionFindsItsOperation
<1>. QED BY <1>1, Invariant, PTL

\* temp_path exists from before the start of the command to its completion.
THEOREM PayloadsLastAsLongAsNeeded == Spec => []PayloadLifetime
<1>1. IInv => PayloadLifetime
  BY DEF IInv, ActiveInv, CommandInv, PayloadLifetime
<1>. QED BY <1>1, Invariant, PTL

\* main's two waits leave no callback that could reach the destroyed Ctx.
THEOREM NothingOutlivesCtx == Spec => []NoDanglingCallback
<1>1. IInv => NoDanglingCallback
  BY NoCallAssumption DEF IInv, PhaseInv, ActiveInv, NoDanglingCallback
<1>. QED BY <1>1, Invariant, PTL

\* complete_operation reports success of a command only when it succeeded.
THEOREM RepliesAreHonest == Spec => []HonestReply
<1>1. IInv => HonestReply
  BY DEF IInv
<1>. QED BY <1>1, Invariant, PTL

\* cleanup_failed is never reset and invoke respects it, whatever comes after
\* the uncertain cleanup.
THEOREM UncertainCleanupIsFinal == Spec => NoWriteAfterUncertainCleanup
<1>1. ASSUME IInv, [Next]_vars, NEW k \in Call, NEW j \in Call,
             cmd[j].status = "cleanupFailed", cmd[k].phase = "idle"
      PROVE  cmd'[k].phase = "idle"
  <2>1. ctx.cleanupFailed /\ cmd \in [Call -> Runner!Commands]
    BY <1>1 DEF IInv, CommandInv, TypeOK
  <2>2. CASE \E i \in Call : Invoke(i)
    BY <2>1, <2>2 DEF Invoke, Usable
  <2>3. CASE UNCHANGED cmd
    BY <1>1, <2>3
  <2>4. CASE \E i \in Call : Complete(i)
    <3>1. PICK i \in Call, status \in Runner!Statuses :
            cmd[i].phase = "running" /\ cmd' = [cmd EXCEPT ![i].phase = "over", ![i].status = status]
      BY <2>4 DEF Complete, Runner!Finish
    <3>. QED BY <1>1, <2>1, <3>1
  <2>5. CASE \E i \in Call : Backend(i)
    BY <1>1, <2>1, <2>5 DEF Backend, Runner!Launch, Runner!Vanish, Runner!Commands
  <2>. QED BY <1>1, <2>2, <2>3, <2>4, <2>5
           DEF Next, vars, Handle, Shutdown, Gone, Send, AuthDone, Leave, GetCapabilities,
               AuthorizeAgain, AuthorizeAsk, Refuse, Left, Unregistered, Quit, CancelChecks, Exit
<1>2. IInv /\ [Next]_vars =>
        [\A k, j \in Call : cmd[j].status = "cleanupFailed" /\ cmd[k].phase = "idle" =>
           cmd'[k].phase = "idle"]_vars
  BY <1>1
<1>. QED BY <1>2, Invariant, PTL DEF Spec, NoWriteAfterUncertainCleanup
=============================================================================
