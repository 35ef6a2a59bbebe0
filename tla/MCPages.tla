-------------------------------- MODULE MCPages --------------------------------
(***************************************************************************)
(* Small instances of the pages whose bloc handles one event at a time: a  *)
(* page of settings (QueuedPage) and the keyboard's lights (Lighting).     *)
(* They share no state, so they run one at a time: `part' says which, the  *)
(* other stays as it began.                                                *)
(***************************************************************************)
EXTENDS QueuedPage

CONSTANTS Name, NoName, MaxEvents

\* The start is an event.
ASSUME EventsAssumption == MaxEvents \in Nat \ {0}

VARIABLES part, events, running, lights, engine, keyboard, store, count

Lights == INSTANCE Lighting WITH queue <- events, bloc <- lights

lightVars == <<events, running, lights, engine, keyboard, store, count>>

Settings == part = "settings"

\* The values of a setting can be exchanged, those of the mode cannot: only some
\* are profiles of the daemon.
First == CHOOSE v \in Value : TRUE

PagesInit ==
  /\ part \in {"settings", "lights"}
  /\ Init /\ Lights!Init
  /\ \A s \in Setting \ {Mode} : hardware[s] = First
  /\ IF Settings THEN store.saved = {} /\ \A n \in Name : store.profile[n] = {}
     ELSE page = "power" /\ hardware[Mode] = First

PagesNext ==
  \/ Settings /\ Next /\ UNCHANGED <<part, lightVars>>
  \/ ~Settings /\ Lights!Next /\ UNCHANGED <<part, vars>>

PagesSpec == PagesInit /\ [][PagesNext]_<<part, vars, lightVars>>

\* Lighting.
AnimationYields == Lights!AnimationYields
KeyboardShowsThePage == Lights!KeyboardShowsThePage
=============================================================================
