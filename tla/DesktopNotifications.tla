------------------------- MODULE DesktopNotifications -------------------------
(***************************************************************************)
(* The desktop notifications (lib/features/platform_surfaces/              *)
(* notifications/desktop_notifications.dart): sends run one after another; *)
(* each looks the server's unique owner up and asks it to replace the last *)
(* notification of the same kind.                                          *)
(*                                                                         *)
(* A server gives out its own ids.  Owners are unique on one bus, which    *)
(* may itself go down and come back: its owners then have the same names   *)
(* again, and the connections to the old bus are dead.  A call may fail at *)
(* any moment, or never end.                                               *)
(***************************************************************************)
EXTENDS Naturals, Sequences, FiniteSets

CONSTANTS
  Kind,        \* the kinds of event
  Owner,       \* the unique names a server can have, each once on one bus
  NoOwner,
  MaxBuses,    \* bound on the buses
  MaxSends     \* bound on the events

VARIABLES
  bus,         \* the session bus and its notification server
  issued,      \* the notifications on this bus
  connections, \* the clients, in the order they were created
  adapter,     \* the fields of DesktopNotifications
  send,        \* the send that runs
  queue        \* the kinds of the sends behind it in _pending

notifyVars == <<bus, issued, connections, adapter, send, queue>>

NoClient == 0
NoId == 0

Bus == [number : 1..MaxBuses, owner : Owner \cup {NoOwner}, past : SUBSET Owner]

Notification == [owner : Owner, kind : Kind, id : Nat \ {NoId}]

Adapter ==
  [client : Nat,                        \* _client
   owner  : Owner \cup {NoOwner},       \* _serverOwner
   ids    : [Kind -> Nat],              \* _replacementIds
   held   : Nat,                        \* the client close waits for
   close  : {"no", "closing", "draining", "closed"},
   shown  : 0..MaxSends]                \* how often show queued an event

Send ==
  [pc : {"idle", "lookup", "found", "notify", "notified", "failed"},
   kind   : Kind,
   client : Nat,
   owner  : Owner \cup {NoOwner},       \* what the lookup answered
   id     : Nat]                        \* the id sent, then the id received

TypeOK ==
  /\ bus \in Bus
  /\ issued \subseteq Notification
  /\ connections \in Seq({"live", "dead", "closed"})
  /\ adapter \in Adapter /\ send \in Send
  /\ queue \in Seq(Kind)

Idle(k) == [pc |-> "idle", kind |-> k, client |-> NoClient, owner |-> NoOwner, id |-> NoId]

NoIds == [k \in Kind |-> NoId]

Init ==
  /\ bus = [number |-> 1, owner |-> NoOwner, past |-> {}]
  /\ issued = {} /\ connections = <<>> /\ queue = <<>>
  /\ adapter = [client |-> NoClient, owner |-> NoOwner, ids |-> NoIds, held |-> NoClient,
                close |-> "no", shown |-> 0]
  /\ send = Idle(CHOOSE k \in Kind : TRUE)

Open == {c \in DOMAIN connections : connections[c] # "closed"}

-----------------------------------------------------------------------------
(* The bus and the servers.                                                *)

ServerChanges(o) ==
  /\ o # bus.owner /\ o \notin bus.past
  /\ bus' = [bus EXCEPT !.owner = o, !.past = @ \cup ({o} \ {NoOwner})]
  /\ UNCHANGED <<issued, connections, adapter, send, queue>>

BusRestarts ==
  /\ bus.number < MaxBuses
  /\ bus' = [number |-> bus.number + 1, owner |-> NoOwner, past |-> {}]
  /\ issued' = {}
  /\ connections' = [c \in DOMAIN connections |->
                       IF connections[c] = "live" THEN "dead" ELSE connections[c]]
  /\ UNCHANGED <<adapter, send, queue>>

Live == connections[send.client] = "live"

AnswerLookup ==
  /\ send.pc = "lookup" /\ Live
  /\ send' = [send EXCEPT !.pc = "found", !.owner = bus.owner]
  /\ UNCHANGED <<bus, issued, connections, adapter, queue>>

\* The server the call is addressed to replaces the notification or gives out
\* the next of its ids.
AnswerNotify ==
  /\ send.pc = "notify" /\ Live /\ bus.owner = send.owner
  /\ LET last == Cardinality({n \in issued : n.owner = send.owner})
         id   == IF send.id # NoId THEN send.id ELSE last + 1
     IN /\ issued' = issued \cup {[owner |-> send.owner, kind |-> send.kind, id |-> id]}
        /\ send' = [send EXCEPT !.pc = "notified", !.id = id]
  /\ UNCHANGED <<bus, connections, adapter, queue>>

-----------------------------------------------------------------------------
(* show and _send.                                                         *)

Disposed == adapter.close # "no"

\* An event that is enabled, not visible elsewhere and has a text.
Show(k) ==
  /\ ~Disposed /\ adapter.shown < MaxSends
  /\ adapter' = [adapter EXCEPT !.shown = @ + 1]
  /\ queue' = Append(queue, k)
  /\ UNCHANGED <<bus, issued, connections, send>>

\* The next send in _pending, with a client of its own if there is none.
Begin ==
  /\ send.pc = "idle" /\ queue # <<>>
  /\ queue' = Tail(queue)
  /\ IF Disposed THEN UNCHANGED <<connections, adapter, send>>
     ELSE LET new == adapter.client = NoClient
              c   == IF new THEN Len(connections) + 1 ELSE adapter.client
          IN /\ connections' = IF new THEN Append(connections, "live") ELSE connections
             /\ adapter' = [adapter EXCEPT !.client = c]
             /\ send' = [Idle(Head(queue)) EXCEPT !.pc = "lookup", !.client = c]
  /\ UNCHANGED <<bus, issued>>

\* Mutated form: the ids outlive the server.
KeepIds == adapter.ids

\* Ids belong to one server.
IdsOf == IF send.owner = adapter.owner THEN adapter.ids ELSE NoIds

\* The owner is known: ask it to show the notification.
Found ==
  /\ send.pc = "found"
  /\ IF Disposed THEN send' = Idle(send.kind) /\ UNCHANGED adapter
     ELSE /\ adapter' = [adapter EXCEPT !.owner = send.owner, !.ids = IdsOf]
          /\ send' = IF send.owner = NoOwner THEN Idle(send.kind)
                     ELSE [send EXCEPT !.pc = "notify", !.id = IdsOf[send.kind]]
  /\ UNCHANGED <<bus, issued, connections, queue>>

Notified ==
  /\ send.pc = "notified"
  /\ adapter' = IF Disposed THEN adapter
                ELSE [adapter EXCEPT !.ids[send.kind] = send.id]
  /\ send' = Idle(send.kind)
  /\ UNCHANGED <<bus, issued, connections, queue>>

\* What the catch clause forgets.
Forget(a) == [a EXCEPT !.client = NoClient, !.owner = NoOwner, !.ids = NoIds]

\* The call under way ends with an error, or the dispose signal ends the wait
\* for it: _send goes to its catch clause, which closes the client it finds.
Catch ==
  /\ adapter' = Forget(adapter)
  /\ send' = IF adapter.client = NoClient THEN Idle(send.kind)
             ELSE [send EXCEPT !.pc = "failed", !.client = adapter.client]
  /\ UNCHANGED <<bus, issued, connections, queue>>

CallFails == send.pc \in {"lookup", "notify"} /\ Catch

\* Mutated form: the wait for a reply does not end with dispose.
WaitOn == FALSE

SignalEnds == Disposed

UntilDisposed == send.pc \in {"lookup", "notify"} /\ SignalEnds /\ Catch

ClosedByCatch ==
  /\ send.pc = "failed"
  /\ connections' = [connections EXCEPT ![send.client] = "closed"]
  /\ send' = Idle(send.kind)
  /\ UNCHANGED <<bus, issued, adapter, queue>>

-----------------------------------------------------------------------------
(* close.                                                                  *)

Close ==
  /\ adapter.close = "no"
  /\ adapter' = [adapter EXCEPT !.close = "closing", !.held = adapter.client,
                                !.client = NoClient, !.ids = NoIds]
  /\ UNCHANGED <<bus, issued, connections, send, queue>>

ClientClosed ==
  /\ adapter.close = "closing"
  /\ connections' = IF adapter.held = NoClient THEN connections
                    ELSE [connections EXCEPT ![adapter.held] = "closed"]
  /\ adapter' = [adapter EXCEPT !.close = "draining", !.held = NoClient]
  /\ UNCHANGED <<bus, issued, send, queue>>

Drained ==
  /\ adapter.close = "draining" /\ send.pc = "idle" /\ queue = <<>>
  /\ adapter' = [adapter EXCEPT !.close = "closed"]
  /\ UNCHANGED <<bus, issued, connections, send, queue>>

Next ==
  \/ \E o \in Owner \cup {NoOwner} : ServerChanges(o)
  \/ BusRestarts \/ AnswerLookup \/ AnswerNotify
  \/ \E k \in Kind : Show(k)
  \/ Begin \/ Found \/ Notified \/ CallFails \/ UntilDisposed \/ ClosedByCatch
  \/ Close \/ ClientClosed \/ Drained

Spec == Init /\ [][Next]_notifyVars

\* The event loop turns and closing a connection ends.  No call has to be
\* answered and nothing makes the app close the adapter.
Fairness ==
  WF_notifyVars(\/ Begin \/ Found \/ Notified \/ UntilDisposed \/ ClosedByCatch
                \/ ClientClosed \/ Drained)

-----------------------------------------------------------------------------
(* Safety and liveness.                                                    *)

\* The id in a call of Notify that can still arrive is one the server it is
\* addressed to gave out, for the same kind of event: no id of an earlier server
\* or of another bus reaches one that knows it as someone else's notification.
ReplacesItsOwnNotification ==
  send.pc = "notify" /\ Live /\ send.id # NoId =>
    [owner |-> send.owner, kind |-> send.kind, id |-> send.id] \in issued

\* close ends though no call is ever answered, whatever was queued and failed
\* before, and leaves no connection open.
CloseEnds ==
  adapter.close = "closing" ~> adapter.close = "closed" /\ Open = {}
=============================================================================
