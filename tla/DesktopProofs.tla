----------------------------- MODULE DesktopProofs -----------------------------
(***************************************************************************)
(* Proofs about the three parts of MCDesktop and about their composition,  *)
(* for any packages, watchers, servers, kinds of events and bounds.        *)
(*                                                                         *)
(* The meter. A reading depends on the counter and the clock between two   *)
(* samples, so the invariant follows both: as long as the package cannot   *)
(* have spent more than its range, its counter is its load away from the   *)
(* baseline, having started again at most once.                            *)
(*                                                                         *)
(* The tray. A reply to RegisterStatusNotifierItem may be about a watcher  *)
(* that has gone. The invariant says that a registration the tray          *)
(* believes, or is about to believe, is one with the watcher of now unless *)
(* a change of the owner is on its way, and that the generations that tell *)
(* the replies apart do not run out: each watcher that comes or goes uses  *)
(* one.                                                                    *)
(*                                                                         *)
(* The notifications. The adapter reuses an id as long as the server is    *)
(* the one that gave it out. The invariant says that a remembered id, one  *)
(* in a call and one in a reply was given out by the owner the adapter     *)
(* knows, that a send under way uses the adapter's client and owner until  *)
(* close, that the ids of a server count its notifications, and that an    *)
(* open connection is held by somebody who will close it.                  *)
(***************************************************************************)
EXTENDS MCDesktop, WellFoundedInduction, FiniteSetTheorems, SequenceTheorems, TLAPS

-----------------------------------------------------------------------------
(* The meter (PackagePowerSampler).                                        *)

C == counter[domain]

\* A package in use has a baseline that a counter can have shown.
BaselineIsSane ==
  domain # None => prev.has /\ prev.energy <= prev.range

\* The load is counted over the time that a sample will find, and limited.
LoadIsTimed ==
  domain # None =>
    since.time = now - prev.time /\ since.spent <= PowerLimit * since.time

\* One change of the range shows.
RangeTellsMoves ==
  domain # None /\ ~since.upset => (since.moved <=> C.range # prev.range)

\* The counter is the load away from the baseline.
CounterFollowsLoad ==
  domain # None /\ ~since.upset /\ ~since.moved /\ since.spent <= prev.range =>
    IF prev.energy + since.spent <= prev.range
    THEN C.energy = prev.energy + since.spent
    ELSE C.energy = prev.energy + since.spent - prev.range - 1

MeterInv ==
  /\ TypeOK /\ BaselineIsSane /\ LoadIsTimed /\ RangeTellsMoves /\ CounterFollowsLoad
  /\ ReadingIsTheLoad

-----------------------------------------------------------------------------
(* Arithmetic.                                                             *)

LEMMA LongerCostsMore ==
  ASSUME NEW p \in Nat, NEW t \in Nat, NEW u \in Nat, t <= u
  PROVE  p * t <= p * u
OBVIOUS

LEMMA OneMore ==
  ASSUME NEW p \in Nat, NEW t \in Nat
  PROVE  p * (t + 1) = p * t + p /\ p * t \in Nat
OBVIOUS

LEMMA AdvanceType ==
  ASSUME NEW c \in Counter, NEW e \in Nat
  PROVE  /\ Advance(c, e) \in Counter /\ Advance(c, e).range = c.range
         /\ c.energy + e <= c.range => Advance(c, e).energy = c.energy + e
         /\ c.energy <= c.range /\ c.energy + e > c.range =>
              Advance(c, e).energy = c.energy + e - c.range - 1
BY SamplerAssumption DEF Advance, Counter

-----------------------------------------------------------------------------
(* Each action keeps the invariant.                                        *)

LEMMA TickKeeps ==
  ASSUME MeterInv, Tick
  PROVE  MeterInv'
<1>1. PICK e \in [Package -> 0..PowerLimit] :
        /\ now' = now + 1
        /\ counter' = [p \in Package |-> Advance(counter[p], e[p])]
        /\ since' = [spent |-> since.spent + (IF domain = None THEN 0 ELSE e[domain]),
                     time  |-> since.time + 1, moved |-> since.moved, upset |-> since.upset]
        /\ UNCHANGED <<disturbed, domain, prev, reading, seen>>
  BY DEF Tick
<1>2. \A p \in Package : e[p] \in Nat /\ e[p] <= PowerLimit
  BY <1>1, SamplerAssumption
<1>3. (IF domain = None THEN 0 ELSE e[domain]) \in Nat
  BY <1>1, <1>2 DEF MeterInv, TypeOK
<1>4. /\ since' \in Load /\ since'.time = since.time + 1
      /\ since'.moved = since.moved /\ since'.upset = since.upset
      /\ domain # None => since'.spent = since.spent + e[domain]
  BY <1>1, <1>3 DEF MeterInv, TypeOK, Load
<1>5. TypeOK'
  <2>1. \A p \in Package : Advance(counter[p], e[p]) \in Counter
    BY <1>2, AdvanceType DEF MeterInv, TypeOK
  <2>2. counter' \in [Package -> Counter] /\ now' \in Nat
    BY <1>1, <2>1 DEF MeterInv, TypeOK
  <2> QED BY <1>1, <1>4, <2>2 DEF MeterInv, TypeOK
<1>6. ASSUME domain # None
      PROVE  /\ domain \in Package /\ C \in Counter
             /\ e[domain] \in Nat /\ e[domain] <= PowerLimit
             /\ C' = Advance(C, e[domain])
  BY <1>1, <1>2, <1>6 DEF MeterInv, TypeOK, C
<1>7. BaselineIsSane' /\ ReadingIsTheLoad'
  BY <1>1 DEF MeterInv, BaselineIsSane, ReadingIsTheLoad
<1>8. LoadIsTimed'
  <2> SUFFICES ASSUME domain # None
               PROVE  since'.time = now' - prev'.time /\ since'.spent <= PowerLimit * since'.time
    BY <1>1 DEF LoadIsTimed
  <2>1. since.time = now - prev.time /\ since.spent <= PowerLimit * since.time
    BY DEF MeterInv, LoadIsTimed
  <2>2. since.time \in Nat /\ since.spent \in Nat /\ now \in Nat /\ prev.time \in Nat
    BY DEF MeterInv, TypeOK, Load, Baseline
  <2>3. PowerLimit * (since.time + 1) = PowerLimit * since.time + PowerLimit
        /\ PowerLimit * since.time \in Nat
    BY <2>2, OneMore, SamplerAssumption
  <2>4. PowerLimit * since'.time = PowerLimit * since.time + PowerLimit
    BY <1>4, <2>3
  <2>5. since'.spent = since.spent + e[domain] /\ e[domain] \in Nat /\ e[domain] <= PowerLimit
    BY <1>4, <1>6
  <2>6. since'.spent <= PowerLimit * since.time + PowerLimit
    BY <2>1, <2>2, <2>3, <2>5, SamplerAssumption
  <2>7. since'.time = now' - prev'.time
    BY <1>1, <1>4, <2>1, <2>2
  <2> QED BY <2>4, <2>6, <2>7
<1>9. RangeTellsMoves'
  BY <1>1, <1>4, <1>6, AdvanceType DEF MeterInv, RangeTellsMoves
<1>10. CounterFollowsLoad'
  <2> SUFFICES ASSUME domain # None, ~since.upset, ~since.moved, since'.spent <= prev.range
               PROVE  IF prev.energy + since'.spent <= prev.range
                      THEN C'.energy = prev.energy + since'.spent
                      ELSE C'.energy = prev.energy + since'.spent - prev.range - 1
    BY <1>1, <1>4 DEF CounterFollowsLoad
  <2> DEFINE u == e[domain]
  <2>1. /\ u \in Nat /\ C \in Counter /\ C' = Advance(C, u)
        /\ since'.spent = since.spent + u
    BY <1>4, <1>6
  <2>2. /\ prev.energy \in Nat /\ prev.range \in Nat /\ since.spent \in Nat
        /\ C.energy \in Nat /\ C.range = prev.range /\ prev.energy <= prev.range
    BY <2>1 DEF MeterInv, TypeOK, Load, Baseline, Counter, RangeTellsMoves, BaselineIsSane
  <2>3. since.spent <= prev.range
    BY <2>1, <2>2
  <2>4. IF prev.energy + since.spent <= prev.range
        THEN C.energy = prev.energy + since.spent
        ELSE C.energy = prev.energy + since.spent - prev.range - 1
    BY <2>3 DEF MeterInv, CounterFollowsLoad
  <2>5. /\ C.energy + u <= C.range => C'.energy = C.energy + u
        /\ C.energy <= C.range /\ C.energy + u > C.range => C'.energy = C.energy + u - C.range - 1
    BY <2>1, AdvanceType
  <2> HIDE DEF u
  <2> QED BY <2>1, <2>2, <2>3, <2>4, <2>5
<1> QED BY <1>5, <1>7, <1>8, <1>9, <1>10 DEF MeterInv

LEMMA DisturbType ==
  ASSUME TypeOK, NEW p \in Package, NEW c \in Counter, NEW load \in Load, Disturb(p, c, load)
  PROVE  TypeOK'
BY SamplerAssumption DEF TypeOK, Disturb

LEMMA AppearKeeps ==
  ASSUME MeterInv, NEW p \in Package, Appear(p)
  PROVE  MeterInv'
<1> DEFINE c == [counter[p] EXCEPT !.readable = ~@]
<1>1. c \in Counter /\ c.energy = counter[p].energy /\ c.range = counter[p].range
  BY DEF MeterInv, TypeOK, Counter
<1>2. TypeOK'
  BY <1>1, DisturbType DEF Appear, MeterInv, TypeOK
<1>3. UNCHANGED <<now, domain, prev, reading, seen, since>>
  BY DEF Appear, Disturb
<1>4. domain # None => C'.energy = C.energy /\ C'.range = C.range
  BY <1>1, <1>3 DEF Appear, Disturb, C, MeterInv, TypeOK
<1> QED
  BY <1>2, <1>3, <1>4
  DEF MeterInv, BaselineIsSane, LoadIsTimed, RangeTellsMoves, CounterFollowsLoad,
                          ReadingIsTheLoad

LEMMA ChangeRangeKeeps ==
  ASSUME MeterInv, NEW p \in Package, ChangeRange(p)
  PROVE  MeterInv'
<1> DEFINE load == [since EXCEPT !.moved = TRUE, !.upset = @ \/ since.moved]
<1>1. PICK r \in Ranges \ {counter[p].range} : Disturb(p, [counter[p] EXCEPT !.range = r], load)
  BY DEF ChangeRange
<1> DEFINE c == [counter[p] EXCEPT !.range = r]
<1>2. c \in Counter /\ c.energy = counter[p].energy /\ c.range = r /\ r # counter[p].range
  BY <1>1 DEF MeterInv, TypeOK, Counter
<1>3. /\ load \in Load /\ load.spent = since.spent /\ load.time = since.time
      /\ load.moved /\ (load.upset <=> since.upset \/ since.moved)
  BY DEF MeterInv, TypeOK, Load
<1>4. TypeOK'
  BY <1>1, <1>2, <1>3, DisturbType DEF MeterInv
<1>5. /\ UNCHANGED <<now, domain, prev, reading, seen>>
      /\ since' = IF p = domain THEN load ELSE since
      /\ counter' = [counter EXCEPT ![p] = c]
  BY <1>1 DEF Disturb
<1>6. CASE p = domain
  <2>1. C' = c /\ C = counter[p]
    BY <1>5, <1>6 DEF C, MeterInv, TypeOK
  <2> QED
    BY <1>2, <1>3, <1>4, <1>5, <1>6, <2>1
    DEF MeterInv, BaselineIsSane, LoadIsTimed, RangeTellsMoves,
       CounterFollowsLoad, ReadingIsTheLoad, TypeOK, Load
<1>7. CASE p # domain
  <2>1. domain # None => C' = C
    BY <1>5, <1>7 DEF C, MeterInv, TypeOK
  <2> QED
    BY <1>4, <1>5, <1>7, <2>1 DEF MeterInv, BaselineIsSane, LoadIsTimed, RangeTellsMoves,
       CounterFollowsLoad, ReadingIsTheLoad
<1> QED BY <1>6, <1>7

LEMMA JumpKeeps ==
  ASSUME MeterInv, NEW p \in Package, Jump(p)
  PROVE  MeterInv'
<1> DEFINE load == [since EXCEPT !.upset = TRUE]
<1>1. PICK e \in 0..counter[p].range : Disturb(p, [counter[p] EXCEPT !.energy = e], load)
  BY DEF Jump
<1> DEFINE c == [counter[p] EXCEPT !.energy = e]
<1>2. c \in Counter
  BY <1>1, SamplerAssumption DEF MeterInv, TypeOK, Counter
<1>3. load \in Load /\ load.spent = since.spent /\ load.time = since.time /\ load.upset
  BY DEF MeterInv, TypeOK, Load
<1>4. TypeOK'
  BY <1>1, <1>2, <1>3, DisturbType DEF MeterInv
<1>5. /\ UNCHANGED <<now, domain, prev, reading, seen>>
      /\ since' = IF p = domain THEN load ELSE since
      /\ counter' = [counter EXCEPT ![p] = c]
  BY <1>1 DEF Disturb
<1>6. domain # None /\ p # domain => C' = C
  BY <1>5 DEF C, MeterInv, TypeOK
<1> QED
  BY <1>3, <1>4, <1>5, <1>6 DEF MeterInv, BaselineIsSane, LoadIsTimed, RangeTellsMoves,
     CounterFollowsLoad, ReadingIsTheLoad

-----------------------------------------------------------------------------
(* A sample.                                                               *)

LEMMA Less ==
  \E R : IsWellFoundedOn(R, Nat) /\ \A x, y \in Nat : x < y => <<x, y>> \in R
<1> DEFINE R == OpToRel(<, Nat)
<1>1. IsWellFoundedOn(R, Nat)
  BY NatLessThanWellFounded
<1>2. \A x, y \in Nat : x < y => <<x, y>> \in R
  BY DEF OpToRel
<1> HIDE DEF R
<1> QED BY <1>1, <1>2

LEMMA Smallest ==
  ASSUME NEW T \in SUBSET Nat, T # {}
  PROVE  \E m \in T : \A n \in T : m <= n
<1>1. PICK R : IsWellFoundedOn(R, Nat) /\ \A x, y \in Nat : x < y => <<x, y>> \in R
  BY Less
<1>2. T \subseteq Nat
  OBVIOUS
<1>3. \E m \in T : \A n \in T : ~ (<<n, m>> \in R)
  <2>1. IsWellFoundedOn(R, Nat) BY <1>1
  <2> QED BY <1>2, <2>1, WFMin, Zenon
<1>4. PICK m \in T : \A n \in T : ~ (<<n, m>> \in R)
  BY <1>3
<1>5. \A n \in T : ~ (n < m)
  BY <1>1, <1>2, <1>4
<1> QED BY <1>2, <1>5

LEMMA StartIsSane ==
  ASSUME MeterInv
  PROVE  /\ Start \in Baseline /\ InUse \in Package \cup {None}
         /\ Start.has => domain # None /\ InUse = domain /\ Start = prev
         /\ Start.has => Start.energy <= Start.range
<1>1. Discovered \in Package \cup {None}
  <2>1. CASE \E p \in Package : counter[p].readable
    <3> DEFINE T == {p \in Package : counter[p].readable}
    <3>1. T \in SUBSET Nat /\ T # {}
      BY <2>1, SamplerAssumption DEF Package
    <3>2. \E p \in T : \A q \in T : p <= q
      <4> HIDE DEF T
      <4> QED BY <3>1, Smallest
    <3> QED BY <2>1, <3>2 DEF Discovered
  <2> QED BY <2>1 DEF Discovered
<1>2. NoBaseline \in Baseline
  BY DEF NoBaseline, Baseline
<1> QED BY <1>1, <1>2 DEF MeterInv, TypeOK, BaselineIsSane, Start, InUse, NoBaseline

\* Without a reading nothing is known of what a sample leaves, but its baseline.
LEMMA StoredBaseline ==
  ASSUME MeterInv, NEW c \in Counter, c.energy <= c.range, NEW r \in Reading,
         InUse \in Package, counter[InUse] = c,
         Store(InUse, BaselineOf(c), r)
  PROVE  (TypeOK /\ BaselineIsSane /\ LoadIsTimed /\ RangeTellsMoves /\ CounterFollowsLoad)'
<1> DEFINE b == BaselineOf(c)
<1>1. /\ domain' = InUse /\ prev' = b /\ reading' = r /\ since' = Nothing
      /\ seen' \in {since, Nothing} /\ UNCHANGED <<now, counter, disturbed>>
  BY DEF Store
<1>2. /\ b \in Baseline /\ b.has /\ b.energy = c.energy /\ b.range = c.range /\ b.time = now
  BY SamplerAssumption DEF BaselineOf, Baseline, MeterInv, TypeOK, Counter
<1>3. /\ Nothing \in Load /\ Nothing.spent = 0 /\ Nothing.time = 0
      /\ ~Nothing.moved /\ ~Nothing.upset
  BY DEF Nothing, Load
<1>4. TypeOK'
  BY <1>1, <1>2, <1>3 DEF MeterInv, TypeOK
<1>5. C' = c
  BY <1>1 DEF C
<1>6. c.energy \in Nat /\ c.range \in Nat /\ now \in Nat
  BY SamplerAssumption DEF Counter, MeterInv, TypeOK
<1>7. LoadIsTimed'
  <2>1. PowerLimit * 0 = 0
    BY SamplerAssumption
  <2> QED BY <1>1, <1>2, <1>3, <1>6, <2>1 DEF LoadIsTimed
<1>8. (BaselineIsSane /\ RangeTellsMoves /\ CounterFollowsLoad)'
  BY <1>1, <1>2, <1>3, <1>5, <1>6 DEF BaselineIsSane, RangeTellsMoves, CounterFollowsLoad
<1> QED BY <1>4, <1>7, <1>8

LEMMA NoBaselineKeeps ==
  ASSUME MeterInv, NEW b \in Baseline, Store(None, b, Unavailable)
  PROVE  MeterInv'
<1>1. /\ Unavailable \in Reading /\ ~Unavailable.available /\ Nothing \in Load
  BY DEF Unavailable, Reading, Nothing, Load
<1> QED
  BY <1>1
  DEF Store, MeterInv, TypeOK, BaselineIsSane, LoadIsTimed, RangeTellsMoves, CounterFollowsLoad,
              ReadingIsTheLoad

LEMMA NoPackageKeeps ==
  ASSUME MeterInv, NoPackage
  PROVE  MeterInv'
BY NoBaselineKeeps DEF NoPackage, MeterInv, TypeOK

LEMMA UnreadableKeeps ==
  ASSUME MeterInv, Unreadable
  PROVE  MeterInv'
<1>1. NoBaseline \in Baseline
  BY DEF NoBaseline, Baseline
<1> QED BY <1>1, NoBaselineKeeps DEF Unreadable

\* A sample that starts over.
LEMMA StartsOver ==
  ASSUME MeterInv, InUse # None, Sane(counter[InUse]),
         Store(InUse, BaselineOf(counter[InUse]), Unavailable)
  PROVE  MeterInv'
<1>1. /\ InUse \in Package /\ counter[InUse] \in Counter
      /\ counter[InUse].energy <= counter[InUse].range
  BY StartIsSane DEF Sane, MeterInv, TypeOK
<1>2. Unavailable \in Reading /\ ~Unavailable.available
  BY DEF Unavailable, Reading
<1>3. (TypeOK /\ BaselineIsSane /\ LoadIsTimed /\ RangeTellsMoves /\ CounterFollowsLoad)'
  BY <1>1, <1>2, StoredBaseline
<1>4. ReadingIsTheLoad'
  BY <1>2 DEF Store, ReadingIsTheLoad
<1> QED BY <1>3, <1>4 DEF MeterInv

LEMMA MeasureKeeps ==
  ASSUME MeterInv, Measure
  PROVE  MeterInv'
<1> DEFINE c == counter[InUse]
           r == [available |-> TRUE, energy |-> Delta(c), time |-> Elapsed]
<1>1. /\ InUse = domain /\ domain # None /\ Start = prev /\ domain \in Package
      /\ c = C /\ c \in Counter /\ c.readable /\ c.energy <= c.range /\ c.range = prev.range
      /\ prev.energy <= prev.range /\ ValidInterval
  BY StartIsSane DEF Measure, Comparable, Sane, MeterInv, TypeOK, C
<1>2. /\ c.energy \in Nat /\ c.range \in Nat /\ c.range \in Ranges /\ now \in Nat
      /\ prev.energy \in Nat /\ prev.range \in Nat /\ prev.time \in Nat
      /\ since.spent \in Nat /\ since.time \in Nat
  BY <1>1, SamplerAssumption DEF Counter, MeterInv, TypeOK, Baseline, Load
<1>3. Elapsed = now - prev.time /\ Elapsed \in Int /\ Elapsed = since.time /\ Elapsed <= MaxInterval
  BY <1>1, <1>2 DEF Elapsed, ValidInterval, MeterInv, LoadIsTimed
<1>4. Delta(c) = IF c.energy >= prev.energy THEN c.energy - prev.energy
                 ELSE (c.range - prev.energy) + c.energy
  BY <1>1 DEF Delta
<1>5. Delta(c) \in Nat
  BY <1>1, <1>2, <1>4
<1>6. ~since.upset => Delta(c) \in {since.spent - 1, since.spent}
  <2> SUFFICES ASSUME ~since.upset PROVE Delta(c) \in {since.spent - 1, since.spent}
    OBVIOUS
  <2>1. ~since.moved
    BY <1>1 DEF MeterInv, RangeTellsMoves
  <2>2. since.spent <= prev.range
    <3>1. since.spent <= PowerLimit * since.time
      BY <1>1 DEF MeterInv, LoadIsTimed
    <3>2. PowerLimit * since.time <= PowerLimit * MaxInterval
      BY <1>2, <1>3, LongerCostsMore, SamplerAssumption
    <3>3. PowerLimit * MaxInterval <= prev.range
      BY <1>1, <1>2, SamplerAssumption
    <3>4. PowerLimit * since.time \in Nat /\ PowerLimit * MaxInterval \in Nat
      BY <1>2, OneMore, SamplerAssumption
    <3> QED BY <1>2, <3>1, <3>2, <3>3, <3>4
  <2>3. IF prev.energy + since.spent <= prev.range
        THEN c.energy = prev.energy + since.spent
        ELSE c.energy = prev.energy + since.spent - prev.range - 1
    BY <1>1, <2>1, <2>2 DEF MeterInv, CounterFollowsLoad
  <2> QED BY <1>1, <1>2, <1>4, <2>2, <2>3
<1>7. CASE Delta(c) > MaxWatts * Elapsed
  BY <1>1, <1>7, StartsOver DEF Measure
<1>8. CASE ~(Delta(c) > MaxWatts * Elapsed)
  <2>1. Store(InUse, BaselineOf(c), r)
    BY <1>8 DEF Measure
  <2>2. r \in Reading /\ r.available /\ r.energy = Delta(c) /\ r.time = Elapsed
    BY <1>3, <1>5 DEF Reading
  <2>3. (TypeOK /\ BaselineIsSane /\ LoadIsTimed /\ RangeTellsMoves /\ CounterFollowsLoad)'
    BY <1>1, <2>1, <2>2, StoredBaseline
  <2>4. reading' = r /\ seen' = since
    BY <2>1, <2>2 DEF Store
  <2>5. MaxWatts * Elapsed \in Int
    BY <1>3, SamplerAssumption
  <2>6. Delta(c) <= MaxWatts * Elapsed
    BY <1>5, <1>8, <2>5
  <2>7. ReadingIsTheLoad'
    BY <1>3, <1>6, <2>2, <2>4, <2>6 DEF ReadingIsTheLoad
  <2> QED BY <2>3, <2>7 DEF MeterInv
<1> QED BY <1>7, <1>8

LEMMA MeterInit == Init => MeterInv
BY SamplerAssumption
DEF Init, MeterInv, TypeOK, Counter, NoBaseline, Baseline, Unavailable, Reading,
   Nothing, Load, BaselineIsSane, LoadIsTimed, RangeTellsMoves, CounterFollowsLoad, ReadingIsTheLoad

LEMMA MeterStep == MeterInv /\ [Next]_vars => MeterInv'
<1> SUFFICES ASSUME MeterInv, [Next]_vars PROVE MeterInv'
  OBVIOUS
<1>1. CASE UNCHANGED vars
  BY <1>1 DEF vars, sampler, MeterInv, TypeOK, BaselineIsSane, LoadIsTimed, RangeTellsMoves,
              CounterFollowsLoad, ReadingIsTheLoad, C
<1>2. CASE Tick
  BY <1>2, TickKeeps
<1>3. ASSUME NEW p \in Package, Appear(p) \/ ChangeRange(p) \/ Jump(p)
      PROVE  MeterInv'
  BY <1>3, AppearKeeps, ChangeRangeKeeps, JumpKeeps
<1>4. CASE NoPackage \/ Unreadable \/ Measure
  BY <1>4, NoPackageKeeps, UnreadableKeeps, MeasureKeeps
<1>5. CASE FirstSample \/ BadInterval
  BY <1>5, StartsOver DEF FirstSample, BadInterval
<1> QED BY <1>1, <1>2, <1>3, <1>4, <1>5 DEF Next, Sample

\* The invariant, and with it the types of all variables.
THEOREM MeterInvariance == Spec => []MeterInv
BY MeterInit, MeterStep, PTL DEF Spec

\* Every variable keeps its type.
THEOREM MeterTypeCorrect == Spec => []TypeOK
BY MeterInvariance, PTL DEF MeterInv

\* A reading is the load of its package since the last sample, for any ranges,
\* intervals and disturbances.
THEOREM ReadingIsTheLoadHolds == Spec => []ReadingIsTheLoad
BY MeterInvariance, PTL DEF MeterInv

-----------------------------------------------------------------------------
(* The tray (PlatformTray).                                                *)

One(b) == IF b THEN 1 ELSE 0

\* What is left of the generations: two for each watcher that has not come yet,
\* one for a watcher that may leave, one for the answer and one for dispose.
GenerationsLast ==
  tray.generation + Len(inbox) + One(tray.start # "done") + One(~tray.disposed)
    + One(watcherBus.watcher # NoWatcher) <= 2 * Cardinality(watcherBus.past) + 2

\* A generation that has not come has no call.
NoCallAhead ==
  \A g \in Tray!Generation : g > tray.generation => calls[g] = "none"

\* Before the tray listens it has registered nothing.
SilentUnlessListening ==
  /\ tray.start \in {"new", "opening"} => ~tray.listening
  /\ tray.start = "asking" => tray.listening
  /\ ~tray.listening =>
       tray.state # "registered" /\ \A g \in Tray!Generation : calls[g] = "none"
  /\ tray.state = "disposed" => tray.disposed

\* A reply that the tray will believe, or has believed, is about the owner of now
\* unless a change is on its way.
Confirmed == tray.state = "registered" \/ calls[tray.generation] = "accepted"

ConfirmedIsCurrent ==
  Confirmed /\ ~tray.disposed /\ inbox = <<>> => watcherBus.watcher \in watcherBus.items

TrayInv ==
  /\ Tray!TypeOK /\ GenerationsLast /\ NoCallAhead /\ SilentUnlessListening
  /\ ConfirmedIsCurrent

\* Sets are counted alike in the parts.
LEMMA SameCount ==
  ASSUME NEW S
  PROVE  Tray!Cardinality(S) = Cardinality(S)
BY DEF Tray!Cardinality, Cardinality

LEMMA GenerationIsFinite ==
  /\ Cardinality(Watcher) \in Nat
  /\ Tray!Generation = 0..(2 * Cardinality(Watcher) + 2)
BY DesktopAssumption, FS_CardinalityType, SameCount DEF Tray!Generation

LEMMA PastIsCounted ==
  ASSUME NEW past \in SUBSET Watcher
  PROVE  Cardinality(past) \in Nat /\ Cardinality(past) <= Cardinality(Watcher)
BY DesktopAssumption, FS_Subset, FS_CardinalityType

LEMMA OneMorePast ==
  ASSUME NEW past \in SUBSET Watcher, NEW w \in Watcher \ past
  PROVE  Cardinality(past \cup {w}) = Cardinality(past) + 1
BY DesktopAssumption, FS_Subset, FS_AddElement

LEMMA LeftType ==
  ASSUME Tray!TypeOK
  PROVE  /\ tray.generation \in Nat /\ Len(inbox) \in Nat
         /\ 2 * Cardinality(watcherBus.past) + 2 \in Nat
         /\ One(tray.start # "done") \in {0, 1} /\ One(~tray.disposed) \in {0, 1}
         /\ One(watcherBus.watcher # NoWatcher) \in {0, 1}
<1>1. tray.generation \in Nat /\ Len(inbox) \in Nat
  BY GenerationIsFinite, LenProperties DEF Tray!TypeOK, Tray!Tray
<1>2. Cardinality(watcherBus.past) \in Nat
  BY PastIsCounted DEF Tray!TypeOK, Tray!Bus
<1>. QED BY <1>1, <1>2 DEF One

\* The generation stays within its bound.
LEMMA GenerationFits ==
  ASSUME Tray!TypeOK, GenerationsLast, tray.start # "done" \/ ~tray.disposed \/ inbox # <<>>
  PROVE  tray.generation + 1 \in Tray!Generation
<1>. DEFINE n == Cardinality(Watcher)
            p == Cardinality(watcherBus.past)
            l == Len(inbox)
            a == One(tray.start # "done")
            b == One(~tray.disposed)
            c == One(watcherBus.watcher # NoWatcher)
<1>1. tray.generation \in Nat /\ n \in Nat
  BY GenerationIsFinite DEF Tray!TypeOK, Tray!Tray
<1>2. p \in Nat /\ p <= n
  BY PastIsCounted DEF Tray!TypeOK, Tray!Bus
<1>3. l \in Nat /\ (inbox # <<>> => l > 0)
  BY LenProperties, EmptySeq DEF Tray!TypeOK
<1>4. a \in {0, 1} /\ b \in {0, 1} /\ c \in {0, 1}
  BY DEF One
<1>5. a + b + l >= 1
  <2>1. (tray.start # "done" => a = 1) /\ (~tray.disposed => b = 1)
    BY DEF One
  <2>. QED BY <2>1, <1>3, <1>4
<1>6. tray.generation + l + a + b + c <= 2 * p + 2
  BY DEF GenerationsLast
<1>. HIDE DEF n, p, l, a, b, c
<1>7. tray.generation + 1 <= 2 * n + 2
  BY <1>1, <1>2, <1>3, <1>4, <1>5, <1>6
<1>8. tray.generation + 1 \in 0..(2 * n + 2)
  BY <1>1, <1>7
<1>. QED BY <1>8, GenerationIsFinite DEF n

LEMMA TrayInit == Tray!Init => TrayInv
<1>. SUFFICES ASSUME Tray!Init PROVE TrayInv
  OBVIOUS
<1>. USE DEF Tray!Init
<1>0. 0 \in Tray!Generation
  BY GenerationIsFinite
<1>1. Tray!TypeOK
  BY <1>0, EmptySeq DEF Tray!TypeOK, Tray!Bus, Tray!Tray
<1>2. GenerationsLast
  BY EmptySeq, FS_EmptySet DEF GenerationsLast, One
<1>3. NoCallAhead /\ SilentUnlessListening /\ ConfirmedIsCurrent
  BY <1>0 DEF NoCallAhead, SilentUnlessListening, ConfirmedIsCurrent, Confirmed
<1>. QED BY <1>1, <1>2, <1>3 DEF TrayInv

-----------------------------------------------------------------------------
(* The steps of the tray.                                                  *)

\* _watcherChanged takes the next generation.
LEMMA WatcherChangedInv ==
  ASSUME TrayInv, NEW t \in Tray!Tray, NEW present \in BOOLEAN,
         t.generation = tray.generation, t.state = tray.state,
         tray.generation + 1 \in Tray!Generation,
         t.listening, t.start \notin {"new", "opening"}, ~t.disposed,
         Tray!WatcherChanged(t, present)
  PROVE  /\ tray' \in Tray!Tray /\ tray'.generation = tray.generation + 1
         /\ tray'.start = t.start /\ tray'.disposed = t.disposed
         /\ calls' \in [Tray!Generation -> {"none", "sent", "accepted", "failed"}]
         /\ NoCallAhead' /\ SilentUnlessListening' /\ ConfirmedIsCurrent'
<1>. DEFINE g == tray.generation + 1
<1>0. tray.generation \in Nat
  BY GenerationIsFinite DEF TrayInv, Tray!TypeOK, Tray!Tray
<1>1. tray' = [t EXCEPT !.generation = t.generation + 1, !.state = "unavailable"]
  BY DEF Tray!WatcherChanged
<1>2. /\ tray' \in Tray!Tray /\ tray'.generation = g /\ tray'.state = "unavailable"
      /\ tray'.start = t.start /\ tray'.listening /\ ~tray'.disposed
      /\ tray'.disposed = t.disposed
  BY <1>1 DEF Tray!Tray
<1>3. calls[g] = "none"
  BY <1>0 DEF TrayInv, NoCallAhead
<1>4. /\ calls' \in [Tray!Generation -> {"none", "sent", "accepted", "failed"}]
      /\ \A h \in Tray!Generation : h # g => calls'[h] = calls[h]
      /\ calls'[g] \in {"none", "sent"}
  <2>1. CASE present
    <3>1. calls' = [calls EXCEPT ![g] = "sent"]
      BY <2>1 DEF Tray!WatcherChanged
    <3>. QED BY <3>1 DEF TrayInv, Tray!TypeOK
  <2>2. CASE ~present
    <3>1. calls' = calls
      BY <2>2 DEF Tray!WatcherChanged
    <3>. QED BY <3>1, <1>3 DEF TrayInv, Tray!TypeOK
  <2>. QED BY <2>1, <2>2
<1>5. NoCallAhead'
  <2>. SUFFICES ASSUME NEW h \in Tray!Generation, h > g PROVE calls'[h] = "none"
    BY <1>2 DEF NoCallAhead
  <2>1. h > tray.generation /\ h # g
    BY <1>0, GenerationIsFinite
  <2>. QED BY <2>1, <1>4 DEF TrayInv, NoCallAhead
<1>6. SilentUnlessListening'
  BY <1>2 DEF SilentUnlessListening
<1>7. ConfirmedIsCurrent'
  BY <1>2, <1>4 DEF ConfirmedIsCurrent, Confirmed
<1>. QED BY <1>2, <1>4, <1>5, <1>6, <1>7

LEMMA OwnerChangesInv ==
  ASSUME TrayInv, NEW w \in Watcher \cup {NoWatcher}, Tray!OwnerChanges(w)
  PROVE  TrayInv'
<1>. USE DEF TrayInv
<1>0. UNCHANGED <<calls, tray>>
  BY DEF Tray!OwnerChanges
<1>1. /\ watcherBus' \in Tray!Bus /\ watcherBus'.watcher = w
      /\ watcherBus'.past = watcherBus.past \cup ({w} \ {NoWatcher})
  BY DEF Tray!OwnerChanges, Tray!TypeOK, Tray!Bus
<1>2. \/ inbox' = inbox /\ (tray.start = "new" \/ tray.state = "disposed")
      \/ inbox' = Append(inbox, w # NoWatcher)
  BY DEF Tray!OwnerChanges
<1>3. /\ inbox' \in Seq(BOOLEAN) /\ Len(inbox) \in Nat
      /\ Len(inbox') \in Nat /\ Len(inbox') <= Len(inbox) + 1
  <2>1. inbox \in Seq(BOOLEAN) /\ Len(inbox) \in Nat
    BY LenProperties DEF Tray!TypeOK
  <2>2. /\ Append(inbox, w # NoWatcher) \in Seq(BOOLEAN)
        /\ Len(Append(inbox, w # NoWatcher)) = Len(inbox) + 1
    BY <2>1, AppendProperties
  <2>3. CASE inbox' = inbox
    BY <2>1, <2>3
  <2>4. CASE inbox' = Append(inbox, w # NoWatcher)
    BY <2>1, <2>2, <2>4
  <2>. QED BY <2>3, <2>4, <1>2
<1>4. GenerationsLast'
  <2>. DEFINE c(x) == One(x # NoWatcher)
              p == Cardinality(watcherBus.past)
              q == Cardinality(watcherBus'.past)
              l == Len(inbox)
              k == Len(inbox')
              a == One(tray.start # "done")
              b == One(~tray.disposed)
              g == tray.generation
  <2>1. g + l + a + b + c(watcherBus.watcher) <= 2 * p + 2
    BY DEF GenerationsLast
  <2>2. g \in Nat /\ p \in Nat /\ l \in Nat /\ k \in Nat /\ k <= l + 1
    BY <1>3, PastIsCounted, GenerationIsFinite DEF Tray!TypeOK, Tray!Tray, Tray!Bus
  <2>3. a \in {0, 1} /\ b \in {0, 1} /\ \A x : c(x) \in {0, 1}
    BY DEF One
  <2>4. q \in Nat /\ c(w) + 2 * p + 1 <= 2 * q + c(watcherBus.watcher)
    <3>0. w # watcherBus.watcher /\ w \notin watcherBus.past
      BY DEF Tray!OwnerChanges
    <3>1. CASE w = NoWatcher
      <4>1. q = p
        <5>. watcherBus'.past = watcherBus.past
          BY <1>1, <3>1
        <5>. QED OBVIOUS
      <4>2. c(w) = 0 /\ c(watcherBus.watcher) = 1
        BY <3>0, <3>1 DEF One
      <4>. QED BY <4>1, <4>2, <2>2
    <3>2. CASE w # NoWatcher
      <4>1. watcherBus'.past = watcherBus.past \cup {w} /\ w \in Watcher \ watcherBus.past
        BY <1>1, <3>0, <3>2
      <4>2. q = p + 1
        BY <4>1, OneMorePast DEF Tray!TypeOK, Tray!Bus
      <4>3. c(w) \in {0, 1} /\ c(watcherBus.watcher) \in {0, 1}
        BY <2>3
      <4>. HIDE DEF c, p, q
      <4>. QED BY <4>2, <4>3, <2>2
    <3>. QED BY <3>1, <3>2
  <2>5. GenerationsLast' <=> g + k + a + b + c(w) <= 2 * q + 2
    BY <1>0, <1>1 DEF GenerationsLast
  <2>. HIDE DEF c, p, q, l, k, a, b, g
  <2>. QED BY <2>1, <2>2, <2>3, <2>4, <2>5
<1>5. ConfirmedIsCurrent'
  <2>1. inbox' # <<>> \/ tray.start = "new" \/ tray.disposed
    <3>1. Append(inbox, w # NoWatcher) # <<>>
      BY AppendProperties DEF Tray!TypeOK
    <3>. QED BY <3>1, <1>2 DEF SilentUnlessListening
  <2>2. tray.start = "new" => ~Confirmed
    BY DEF SilentUnlessListening, Confirmed, Tray!TypeOK, Tray!Tray
  <2>. QED BY <2>1, <2>2, <1>0 DEF ConfirmedIsCurrent, Confirmed
<1>6. Tray!TypeOK' /\ NoCallAhead' /\ SilentUnlessListening'
  BY <1>0, <1>1, <1>3 DEF Tray!TypeOK, NoCallAhead, SilentUnlessListening
<1>. QED BY <1>4, <1>5, <1>6

LEMMA AnswersInv ==
  ASSUME TrayInv,
         Tray!AnswerPresent \/ \E g \in Tray!Generation : Tray!AnswerRegister(g)
  PROVE  TrayInv'
<1>. USE DEF TrayInv
<1>1. CASE Tray!AnswerPresent
  <2>1. /\ UNCHANGED <<watcherBus, inbox, calls>> /\ tray' \in Tray!Tray
        /\ \E x \in {"no", "yes"} : tray' = [tray EXCEPT !.present = x]
    BY <1>1 DEF Tray!AnswerPresent, Tray!TypeOK, Tray!Tray
  <2>2. /\ tray'.generation = tray.generation /\ tray'.start = tray.start
        /\ tray'.disposed = tray.disposed /\ tray'.state = tray.state
        /\ tray'.listening = tray.listening
    BY <2>1 DEF Tray!TypeOK, Tray!Tray
  <2>. QED BY <2>1, <2>2 DEF Tray!TypeOK, GenerationsLast, NoCallAhead,
              SilentUnlessListening, ConfirmedIsCurrent, Confirmed
<1>2. ASSUME NEW g \in Tray!Generation, Tray!AnswerRegister(g)
      PROVE  TrayInv'
  <2>1. /\ UNCHANGED <<inbox, tray>> /\ calls[g] = "sent"
        /\ \E a \in {"accepted", "failed"} : calls' = [calls EXCEPT ![g] = a]
    BY <1>2 DEF Tray!AnswerRegister
  <2>2. /\ calls' \in [Tray!Generation -> {"none", "sent", "accepted", "failed"}]
        /\ \A h \in Tray!Generation : h # g => calls'[h] = calls[h]
    BY <2>1 DEF Tray!TypeOK
  <2>3. /\ watcherBus' \in Tray!Bus
        /\ watcherBus'.watcher = watcherBus.watcher /\ watcherBus'.past = watcherBus.past
        /\ watcherBus.items \subseteq watcherBus'.items
        /\ calls'[g] = "accepted" => watcherBus.watcher \in watcherBus'.items
    BY <1>2 DEF Tray!AnswerRegister, Tray!TypeOK, Tray!Bus
  <2>4. NoCallAhead' /\ SilentUnlessListening'
    BY <2>1, <2>2 DEF NoCallAhead, SilentUnlessListening
  <2>5. ConfirmedIsCurrent'
    BY <2>1, <2>2, <2>3 DEF ConfirmedIsCurrent, Confirmed, Tray!TypeOK, Tray!Tray
  <2>6. Tray!TypeOK' /\ GenerationsLast'
    BY <2>1, <2>2, <2>3 DEF Tray!TypeOK, GenerationsLast
  <2>. QED BY <2>4, <2>5, <2>6
<1>. QED BY <1>1, <1>2

LEMMA StartsInv ==
  ASSUME TrayInv, Tray!Start \/ Tray!Open
  PROVE  TrayInv'
<1>. USE DEF TrayInv
<1>1. /\ UNCHANGED <<watcherBus, inbox, calls>> /\ tray.start \in {"new", "opening"}
      /\ tray' \in Tray!Tray
      /\ tray'.generation = tray.generation /\ tray'.disposed = tray.disposed
      /\ tray'.state = tray.state
      /\ \/ tray'.start \in {"opening", "done"} /\ tray'.listening = tray.listening
         \/ tray'.start = "asking" /\ tray'.listening
  BY DEF Tray!Start, Tray!Open, Tray!Opened, Tray!TypeOK, Tray!Tray
<1>2. GenerationsLast'
  <2>. DEFINE a == One(tray.start # "done")
              b == One(tray'.start # "done")
              r == One(~tray.disposed)
              c == One(watcherBus.watcher # NoWatcher)
              g == tray.generation
              l == Len(inbox)
              m == 2 * Cardinality(watcherBus.past) + 2
  <2>1. g + l + a + r + c <= m
    BY DEF GenerationsLast
  <2>2. a = 1 /\ b \in {0, 1} /\ r \in {0, 1} /\ c \in {0, 1}
    BY <1>1 DEF One
  <2>3. g \in Nat /\ l \in Nat /\ m \in Nat
    BY PastIsCounted, GenerationIsFinite, LenProperties
    DEF Tray!TypeOK, Tray!Tray, Tray!Bus
  <2>4. GenerationsLast' <=> g + l + b + r + c <= m
    BY <1>1 DEF GenerationsLast
  <2>. HIDE DEF a, b, r, c, g, l, m
  <2>. QED BY <2>1, <2>2, <2>3, <2>4
<1>3. SilentUnlessListening'
  BY <1>1 DEF SilentUnlessListening
<1>4. Tray!TypeOK' /\ NoCallAhead' /\ ConfirmedIsCurrent'
  BY <1>1 DEF Tray!TypeOK, NoCallAhead, ConfirmedIsCurrent, Confirmed
<1>. QED BY <1>2, <1>3, <1>4

LEMMA PresentInv ==
  ASSUME TrayInv, Tray!Present
  PROVE  TrayInv'
<1>. USE DEF TrayInv
<1>. DEFINE t == [tray EXCEPT !.start = "done"]
<1>0. UNCHANGED <<watcherBus, inbox>> /\ tray.start = "asking"
  BY DEF Tray!Present
<1>1. /\ t \in Tray!Tray /\ t.start = "done" /\ t.generation = tray.generation
      /\ t.state = tray.state /\ t.listening = tray.listening /\ t.disposed = tray.disposed
      /\ tray.generation \in Nat
  BY GenerationIsFinite DEF Tray!TypeOK, Tray!Tray
<1>2. CASE ~t.disposed /\ t.asked = t.generation
  <2>1. Tray!WatcherChanged(t, t.present = "yes")
    BY <1>2 DEF Tray!Present
  <2>2. tray.generation + 1 \in Tray!Generation
    BY <1>1, <1>2, GenerationFits
  <2>3. t.listening
    BY <1>0, <1>1 DEF SilentUnlessListening
  <2>. HIDE DEF t
  <2>4. /\ tray' \in Tray!Tray /\ tray'.generation = tray.generation + 1
        /\ tray'.start = "done" /\ tray'.disposed = tray.disposed
        /\ calls' \in [Tray!Generation -> {"none", "sent", "accepted", "failed"}]
        /\ NoCallAhead' /\ SilentUnlessListening' /\ ConfirmedIsCurrent'
    BY <1>1, <1>2, <2>1, <2>2, <2>3, WatcherChangedInv
  <2>5. GenerationsLast'
    <3>. DEFINE g == tray.generation
                l == Len(inbox)
                r == One(~tray.disposed)
                c == One(watcherBus.watcher # NoWatcher)
                m == 2 * Cardinality(watcherBus.past) + 2
    <3>1. One(tray.start # "done") = 1 /\ One(tray'.start # "done") = 0
      BY <1>0, <2>4 DEF One
    <3>2. g + l + 1 + r + c <= m
      BY <3>1 DEF GenerationsLast
    <3>3. g \in Nat /\ l \in Nat /\ m \in Nat /\ r \in {0, 1} /\ c \in {0, 1}
      BY LeftType
    <3>4. GenerationsLast' <=> g + 1 + l + 0 + r + c <= m
      BY <1>0, <2>4, <3>1 DEF GenerationsLast
    <3>. HIDE DEF g, l, r, c, m
    <3>. QED BY <3>2, <3>3, <3>4
  <2>. QED BY <1>0, <2>4, <2>5 DEF Tray!TypeOK
<1>3. CASE ~(~t.disposed /\ t.asked = t.generation)
  <2>1. tray' = t /\ calls' = calls
    BY <1>3 DEF Tray!Present
  <2>. HIDE DEF t
  <2>2. GenerationsLast'
    <3>. DEFINE g == tray.generation
                l == Len(inbox)
                r == One(~tray.disposed)
                c == One(watcherBus.watcher # NoWatcher)
                m == 2 * Cardinality(watcherBus.past) + 2
    <3>1. One(tray.start # "done") = 1 /\ One(tray'.start # "done") = 0
      BY <1>0, <1>1, <2>1 DEF One
    <3>2. g + l + 1 + r + c <= m
      BY <3>1 DEF GenerationsLast
    <3>3. g \in Nat /\ l \in Nat /\ m \in Nat /\ r \in {0, 1} /\ c \in {0, 1}
      BY LeftType
    <3>4. GenerationsLast' <=> g + l + 0 + r + c <= m
      BY <1>0, <1>1, <2>1, <3>1 DEF GenerationsLast
    <3>. HIDE DEF g, l, r, c, m
    <3>. QED BY <3>2, <3>3, <3>4
  <2>3. NoCallAhead' /\ SilentUnlessListening' /\ ConfirmedIsCurrent'
    BY <1>0, <1>1, <2>1
    DEF NoCallAhead, SilentUnlessListening, ConfirmedIsCurrent, Confirmed
  <2>. QED BY <1>0, <1>1, <2>1, <2>2, <2>3 DEF Tray!TypeOK
<1>. QED BY <1>2, <1>3

LEMMA DeliverInv ==
  ASSUME TrayInv, Tray!Deliver
  PROVE  TrayInv'
<1>. USE DEF TrayInv
<1>0. watcherBus' = watcherBus /\ inbox # <<>> /\ inbox' = Tail(inbox)
  BY DEF Tray!Deliver
<1>1. /\ inbox' \in Seq(BOOLEAN) /\ Head(inbox) \in BOOLEAN
      /\ Len(inbox) \in Nat /\ Len(inbox') = Len(inbox) - 1 /\ Len(inbox) > 0
  BY <1>0, HeadTailProperties, LenProperties, EmptySeq DEF Tray!TypeOK
<1>2. CASE tray.listening /\ ~tray.disposed
  <2>1. Tray!WatcherChanged(tray, Head(inbox))
    BY <1>2 DEF Tray!Deliver
  <2>2. tray.generation + 1 \in Tray!Generation /\ tray.generation \in Nat
    BY <1>0, GenerationFits, GenerationIsFinite DEF Tray!TypeOK, Tray!Tray
  <2>3. tray.start \notin {"new", "opening"}
    BY <1>2 DEF SilentUnlessListening
  <2>4. /\ tray' \in Tray!Tray /\ tray'.generation = tray.generation + 1
        /\ tray'.start = tray.start /\ tray'.disposed = tray.disposed
        /\ calls' \in [Tray!Generation -> {"none", "sent", "accepted", "failed"}]
        /\ NoCallAhead' /\ SilentUnlessListening' /\ ConfirmedIsCurrent'
    BY <1>1, <1>2, <2>1, <2>2, <2>3, WatcherChangedInv DEF Tray!TypeOK
  <2>5. GenerationsLast'
    <3>. DEFINE g == tray.generation
                l == Len(inbox)
                r == One(tray.start # "done") + One(~tray.disposed)
                c == One(watcherBus.watcher # NoWatcher)
                m == 2 * Cardinality(watcherBus.past) + 2
    <3>1. r \in 0..2 /\ c \in {0, 1}
      BY DEF One
    <3>2. g \in Nat /\ l \in Nat /\ m \in Nat
      BY <1>1, <2>2, PastIsCounted DEF Tray!TypeOK, Tray!Bus
    <3>3. One(tray.start # "done") \in {0, 1} /\ One(~tray.disposed) \in {0, 1}
      BY DEF One
    <3>4. g + l + One(tray.start # "done") + One(~tray.disposed) + c <= m
      BY DEF GenerationsLast
    <3>5. /\ GenerationsLast' <=>
               g + 1 + (l - 1) + One(tray.start # "done") + One(~tray.disposed) + c <= m
      BY <1>0, <1>1, <2>4 DEF GenerationsLast
    <3>. HIDE DEF g, l, c, m
    <3>. QED BY <3>1, <3>2, <3>3, <3>4, <3>5
  <2>. QED BY <1>0, <1>1, <2>4, <2>5 DEF Tray!TypeOK
<1>3. CASE ~(tray.listening /\ ~tray.disposed)
  <2>1. UNCHANGED <<calls, tray>>
    BY <1>3 DEF Tray!Deliver
  <2>2. GenerationsLast'
    <3>. DEFINE g == tray.generation
                l == Len(inbox)
                a == One(tray.start # "done")
                r == One(~tray.disposed)
                c == One(watcherBus.watcher # NoWatcher)
                m == 2 * Cardinality(watcherBus.past) + 2
    <3>1. g + l + a + r + c <= m
      BY DEF GenerationsLast
    <3>2. g \in Nat /\ l \in Nat /\ m \in Nat /\ a \in {0, 1} /\ r \in {0, 1} /\ c \in {0, 1}
      BY LeftType
    <3>3. GenerationsLast' <=> g + (l - 1) + a + r + c <= m
      BY <1>0, <1>1, <2>1 DEF GenerationsLast
    <3>. HIDE DEF g, l, a, r, c, m
    <3>. QED BY <3>1, <3>2, <3>3
  <2>3. ConfirmedIsCurrent'
    BY <1>3, <2>1
    DEF SilentUnlessListening, ConfirmedIsCurrent, Confirmed, Tray!TypeOK, Tray!Tray
  <2>. QED BY <1>0, <1>1, <2>1, <2>2, <2>3
       DEF Tray!TypeOK, NoCallAhead, SilentUnlessListening
<1>. QED BY <1>2, <1>3

LEMMA ReplyInv ==
  ASSUME TrayInv, NEW g \in Tray!Generation, Tray!Reply(g)
  PROVE  TrayInv'
<1>. USE DEF TrayInv
<1>0. UNCHANGED <<watcherBus, inbox>> /\ calls[g] \in {"accepted", "failed"}
  BY DEF Tray!Reply
<1>1. /\ calls' \in [Tray!Generation -> {"none", "sent", "accepted", "failed"}]
      /\ calls'[g] = "none"
      /\ \A h \in Tray!Generation : h # g => calls'[h] = calls[h]
  BY DEF Tray!Reply, Tray!TypeOK
<1>2. /\ tray' \in Tray!Tray
      /\ tray'.generation = tray.generation /\ tray'.start = tray.start
      /\ tray'.disposed = tray.disposed /\ tray'.listening = tray.listening
      /\ \/ tray'.state = tray.state
         \/ tray'.state = "unavailable"
         \/ tray'.state = "registered" /\ g = tray.generation /\ calls[g] = "accepted"
  BY <1>0 DEF Tray!Reply, Tray!Current, Tray!TypeOK, Tray!Tray
<1>3. NoCallAhead'
  BY <1>1, <1>2 DEF NoCallAhead
<1>4. SilentUnlessListening'
  <2>1. tray.listening
    BY <1>0 DEF SilentUnlessListening
  <2>. QED BY <1>2, <2>1 DEF SilentUnlessListening
<1>5. ConfirmedIsCurrent'
  <2>1. tray.generation \in Tray!Generation
    BY DEF Tray!TypeOK, Tray!Tray
  <2>2. Confirmed' => Confirmed
    BY <1>1, <1>2, <2>1 DEF Confirmed
  <2>. QED BY <1>0, <1>2, <2>2 DEF ConfirmedIsCurrent
<1>6. GenerationsLast'
  BY <1>0, <1>2 DEF GenerationsLast
<1>. QED BY <1>0, <1>1, <1>2, <1>3, <1>4, <1>5, <1>6 DEF Tray!TypeOK

LEMMA DisposeInv ==
  ASSUME TrayInv, Tray!Dispose
  PROVE  TrayInv'
<1>. USE DEF TrayInv
<1>0. UNCHANGED <<watcherBus, inbox, calls>> /\ ~tray.disposed
  BY DEF Tray!Dispose
<1>1. tray.generation + 1 \in Tray!Generation /\ tray.generation \in Nat
  BY <1>0, GenerationFits, GenerationIsFinite DEF Tray!TypeOK, Tray!Tray
<1>2. /\ tray' \in Tray!Tray /\ tray'.disposed
      /\ tray'.generation = tray.generation + 1 /\ tray'.start = tray.start
      /\ tray'.state = tray.state /\ tray'.listening = tray.listening
  BY <1>1 DEF Tray!Dispose, Tray!TypeOK, Tray!Tray
<1>3. GenerationsLast'
  <2>. DEFINE g == tray.generation
              l == Len(inbox)
              a == One(tray.start # "done")
              c == One(watcherBus.watcher # NoWatcher)
              m == 2 * Cardinality(watcherBus.past) + 2
  <2>1. One(~tray.disposed) = 1 /\ One(~tray'.disposed) = 0
    BY <1>0, <1>2 DEF One
  <2>2. g + l + a + 1 + c <= m
    BY <2>1 DEF GenerationsLast
  <2>3. g \in Nat /\ l \in Nat /\ m \in Nat /\ a \in {0, 1} /\ c \in {0, 1}
    BY LeftType
  <2>4. GenerationsLast' <=> g + 1 + l + a + 0 + c <= m
    BY <1>0, <1>2, <2>1 DEF GenerationsLast
  <2>. HIDE DEF g, l, a, c, m
  <2>. QED BY <2>2, <2>3, <2>4
<1>4. NoCallAhead'
  <2>. SUFFICES ASSUME NEW h \in Tray!Generation, h > tray.generation + 1
                PROVE  calls[h] = "none"
    BY <1>0, <1>2 DEF NoCallAhead
  <2>1. h > tray.generation
    BY <1>1, GenerationIsFinite
  <2>. QED BY <2>1 DEF NoCallAhead
<1>5. SilentUnlessListening' /\ ConfirmedIsCurrent'
  BY <1>0, <1>2 DEF SilentUnlessListening, ConfirmedIsCurrent
<1>. QED BY <1>0, <1>2, <1>3, <1>4, <1>5 DEF Tray!TypeOK

LEMMA TrayCloseInv ==
  ASSUME TrayInv, Tray!Close
  PROVE  TrayInv'
<1>. USE DEF TrayInv
<1>1. /\ watcherBus' \in Tray!Bus
      /\ watcherBus'.watcher = watcherBus.watcher /\ watcherBus'.past = watcherBus.past
      /\ inbox' = <<>> /\ calls' = [h \in Tray!Generation |-> "none"]
  BY DEF Tray!Close, Tray!TypeOK, Tray!Bus
<1>2. /\ tray' \in Tray!Tray /\ tray'.disposed /\ tray'.state = "disposed"
      /\ tray'.generation = tray.generation /\ tray'.start = "done" /\ ~tray'.listening
      /\ tray.disposed
  BY DEF Tray!Close, Tray!TypeOK, Tray!Tray
<1>3. GenerationsLast'
  <2>. DEFINE g == tray.generation
              l == Len(inbox)
              a == One(tray.start # "done")
              r == One(~tray.disposed)
              c == One(watcherBus.watcher # NoWatcher)
              m == 2 * Cardinality(watcherBus.past) + 2
  <2>1. g + l + a + r + c <= m
    BY DEF GenerationsLast
  <2>2. g \in Nat /\ l \in Nat /\ m \in Nat /\ a \in {0, 1} /\ r \in {0, 1} /\ c \in {0, 1}
    BY LeftType
  <2>3. One(tray'.start # "done") = 0 /\ One(~tray'.disposed) = r /\ Len(inbox') = 0
    BY <1>1, <1>2, EmptySeq DEF One
  <2>4. GenerationsLast' <=> g + 0 + 0 + r + c <= m
    BY <1>1, <1>2, <2>3 DEF GenerationsLast
  <2>. HIDE DEF g, l, a, r, c, m
  <2>. QED BY <2>1, <2>2, <2>4
<1>4. NoCallAhead' /\ SilentUnlessListening' /\ ConfirmedIsCurrent'
  BY <1>1, <1>2 DEF NoCallAhead, SilentUnlessListening, ConfirmedIsCurrent
<1>. QED BY <1>1, <1>2, <1>3, <1>4, EmptySeq DEF Tray!TypeOK

LEMMA TrayStep == TrayInv /\ [Tray!Next]_(Tray!trayVars) => TrayInv'
<1>. SUFFICES ASSUME TrayInv, [Tray!Next]_(Tray!trayVars) PROVE TrayInv'
  OBVIOUS
<1>1. CASE UNCHANGED Tray!trayVars
  BY <1>1 DEF Tray!trayVars, TrayInv, Tray!TypeOK, GenerationsLast, NoCallAhead,
              SilentUnlessListening, ConfirmedIsCurrent, Confirmed
<1>2. ASSUME NEW w \in Watcher \cup {NoWatcher}, Tray!OwnerChanges(w) PROVE TrayInv'
  BY <1>2, OwnerChangesInv
<1>3. CASE Tray!AnswerPresent
  BY <1>3, AnswersInv
<1>4. CASE Tray!Start
  BY <1>4, StartsInv
<1>5. CASE Tray!Open
  BY <1>5, StartsInv
<1>6. CASE Tray!Present
  BY <1>6, PresentInv
<1>7. CASE Tray!Deliver
  BY <1>7, DeliverInv
<1>8. CASE Tray!Dispose
  BY <1>8, DisposeInv
<1>9. CASE Tray!Close
  BY <1>9, TrayCloseInv
<1>10. ASSUME NEW g \in Tray!Generation, Tray!AnswerRegister(g) \/ Tray!Reply(g)
       PROVE  TrayInv'
  BY <1>10, AnswersInv, ReplyInv
<1>. QED BY <1>1, <1>2, <1>3, <1>4, <1>5, <1>6, <1>7, <1>8, <1>9, <1>10 DEF Tray!Next

LEMMA TrayInvariance == Tray!Spec => []TrayInv
<1>. QED BY TrayInit, TrayStep, PTL DEF Tray!Spec

\* While no change of the watcher is on its way, a tray that says it is registered is
\* registered with the watcher of now, whichever replies came late or not at all.
THEOREM RegistrationHolds == Tray!Spec => [](Tray!TypeOK /\ RegistrationIsCurrent)
<1>1. TrayInv => Tray!TypeOK /\ RegistrationIsCurrent
  BY DEF TrayInv, ConfirmedIsCurrent, Confirmed, RegistrationIsCurrent,
         Tray!RegistrationIsCurrent
<1>. QED BY <1>1, TrayInvariance, PTL

-----------------------------------------------------------------------------
(* No watcher is missed.                                                   *)

\* The last change on its way tells of the owner of now.
LastTells ==
  /\ tray.start = "new" => inbox = <<>>
  /\ ~tray.disposed /\ inbox # <<>> =>
       (inbox[Len(inbox)] <=> watcherBus.watcher # NoWatcher)

\* Until a change or the answer comes, the generation of the question stays without
\* a registration; a registration that is believed has no reply ahead.
AskedOnce ==
  /\ tray.asked <= tray.generation
  /\ tray.start \in {"new", "opening"} => tray.present = "unknown"
  /\ tray.start = "asking" /\ tray.asked = tray.generation =>
       calls[tray.generation] = "none" /\ tray.state # "registered"
  /\ tray.state = "registered" => tray.disposed \/ calls[tray.generation] = "none"

Asking == tray.start = "asking" /\ tray.asked = tray.generation /\ tray.present # "no"

\* A watcher that is there has the item, has refused it, or will be asked.
Heard ==
  tray.listening /\ ~tray.disposed /\ inbox = <<>> /\ watcherBus.watcher # NoWatcher =>
    \/ Asking \/ tray.state = "registered"
    \/ calls[tray.generation] \in {"sent", "accepted"}
    \/ watcherBus.watcher \in watcherBus.refused

WakeInv == TrayInv /\ LastTells /\ AskedOnce /\ Heard

LEMMA WakeFacts ==
  ASSUME TrayInv
  PROVE  /\ inbox \in Seq(BOOLEAN) /\ tray \in Tray!Tray /\ watcherBus \in Tray!Bus
         /\ tray.generation \in Tray!Generation /\ tray.generation \in Nat
         /\ tray.asked \in Nat /\ Tray!Generation \subseteq Nat
         /\ calls \in [Tray!Generation -> {"none", "sent", "accepted", "failed"}]
BY GenerationIsFinite DEF TrayInv, Tray!TypeOK, Tray!Tray

LEMMA OwnerChangesWakes ==
  ASSUME WakeInv, NEW w \in Watcher \cup {NoWatcher}, Tray!OwnerChanges(w)
  PROVE  LastTells' /\ AskedOnce' /\ Heard'
<1>. USE DEF WakeInv
<1>0. UNCHANGED <<calls, tray>> /\ watcherBus'.watcher = w
  BY WakeFacts DEF Tray!OwnerChanges, Tray!Bus
<1>1. \/ inbox' = inbox /\ (tray.start = "new" \/ tray.disposed)
      \/ inbox' = Append(inbox, w # NoWatcher) /\ tray.start # "new"
  BY DEF Tray!OwnerChanges, TrayInv, SilentUnlessListening
<1>2. inbox' # <<>> =>
        tray.disposed
        \/ (tray.start # "new" /\ (inbox'[Len(inbox')] <=> w # NoWatcher))
  <2>1. CASE inbox' = inbox /\ (tray.start = "new" \/ tray.disposed)
    BY <2>1 DEF LastTells
  <2>2. CASE inbox' = Append(inbox, w # NoWatcher) /\ tray.start # "new"
    <3>1. (w # NoWatcher) \in BOOLEAN /\ inbox \in Seq(BOOLEAN)
      BY WakeFacts
    <3>2. Len(inbox') = Len(inbox) + 1 /\ inbox'[Len(inbox) + 1] = (w # NoWatcher)
      BY <2>2, <3>1, AppendProperties
    <3>. QED BY <2>2, <3>2
  <2>. QED BY <1>1, <2>1, <2>2
<1>3. inbox' # <<>> \/ tray.start = "new" \/ tray.disposed
  BY <1>1, WakeFacts, AppendProperties
<1>4. tray.start = "new" => inbox' = <<>>
  BY <1>1 DEF LastTells
<1>5. LastTells'
  BY <1>0, <1>2, <1>4 DEF LastTells
<1>6. Heard'
  BY <1>0, <1>3 DEF Heard, TrayInv, SilentUnlessListening
<1>. QED BY <1>0, <1>5, <1>6 DEF AskedOnce

LEMMA AnswersWake ==
  ASSUME WakeInv,
         Tray!AnswerPresent \/ \E g \in Tray!Generation : Tray!AnswerRegister(g)
  PROVE  LastTells' /\ AskedOnce' /\ Heard'
<1>. USE DEF WakeInv
<1>1. CASE Tray!AnswerPresent
  <2>1. /\ UNCHANGED <<watcherBus, inbox, calls>>
        /\ tray'.generation = tray.generation /\ tray'.start = tray.start
        /\ tray'.disposed = tray.disposed /\ tray'.state = tray.state
        /\ tray'.listening = tray.listening /\ tray'.asked = tray.asked
        /\ tray.start = "asking"
        /\ tray'.present = "no" => watcherBus.watcher = NoWatcher
    BY <1>1, WakeFacts DEF Tray!AnswerPresent, Tray!Tray
  <2>. QED BY <2>1 DEF LastTells, AskedOnce, Heard, Asking
<1>2. ASSUME NEW g \in Tray!Generation, Tray!AnswerRegister(g)
      PROVE  LastTells' /\ AskedOnce' /\ Heard'
  <2>1. /\ UNCHANGED <<inbox, tray>> /\ calls[g] = "sent"
        /\ \E a \in {"accepted", "failed"} : calls' = [calls EXCEPT ![g] = a]
    BY <1>2 DEF Tray!AnswerRegister
  <2>2. /\ calls'[g] \in {"accepted", "failed"}
        /\ \A h \in Tray!Generation : h # g => calls'[h] = calls[h]
    BY <2>1, WakeFacts
  <2>3. /\ watcherBus'.watcher = watcherBus.watcher
        /\ watcherBus.refused \subseteq watcherBus'.refused
        /\ calls'[g] = "failed" /\ watcherBus.watcher # NoWatcher =>
             watcherBus.watcher \in watcherBus'.refused
    BY <1>2, WakeFacts DEF Tray!AnswerRegister, Tray!Bus
  <2>4. AskedOnce'
    BY <2>1, <2>2, WakeFacts DEF AskedOnce
  <2>5. Heard'
    <3>1. CASE g = tray.generation
      BY <2>1, <2>2, <2>3, <3>1 DEF Heard
    <3>2. CASE g # tray.generation
      BY <2>1, <2>2, <2>3, <3>2, WakeFacts DEF Heard, Asking
    <3>. QED BY <3>1, <3>2
  <2>. QED BY <2>1, <2>3, <2>4, <2>5 DEF LastTells
<1>. QED BY <1>1, <1>2

LEMMA StartsWake ==
  ASSUME WakeInv, Tray!Start \/ Tray!Open
  PROVE  LastTells' /\ AskedOnce' /\ Heard'
<1>. USE DEF WakeInv
<1>0. tray.generation \in Nat /\ tray.asked \in Nat /\ tray.generation \in Tray!Generation
  BY WakeFacts
<1>1. /\ UNCHANGED <<watcherBus, inbox, calls>> /\ tray.start \in {"new", "opening"}
      /\ tray'.generation = tray.generation /\ tray'.disposed = tray.disposed
      /\ tray'.state = tray.state /\ tray'.start # "new"
      /\ tray'.present = tray.present
      /\ \/ /\ tray'.start \in {"opening", "done"} /\ tray'.listening = tray.listening
            /\ tray'.asked = tray.asked
         \/ tray'.start = "asking" /\ tray'.listening /\ tray'.asked = tray.generation
  BY WakeFacts DEF Tray!Start, Tray!Open, Tray!Opened, Tray!Tray
<1>2. /\ ~tray.listening /\ calls[tray.generation] = "none" /\ tray.state # "registered"
      /\ tray.present = "unknown"
  BY <1>0, <1>1 DEF TrayInv, SilentUnlessListening, AskedOnce
<1>3. AskedOnce'
  BY <1>0, <1>1, <1>2 DEF AskedOnce
<1>4. Heard'
  BY <1>1, <1>2 DEF Heard, Asking
<1>. QED BY <1>1, <1>3, <1>4 DEF LastTells

\* _watcherChanged asks the watcher it is told of.
LEMMA WatcherChangedWakes ==
  ASSUME WakeInv, NEW t \in Tray!Tray, NEW present \in BOOLEAN,
         t.generation = tray.generation, t.asked = tray.asked, t.start # "new",
         t.start = "opening" => t.present = "unknown",
         tray.generation + 1 \in Tray!Generation, UNCHANGED watcherBus,
         inbox' = <<>> /\ watcherBus.watcher # NoWatcher =>
           present \/ watcherBus.watcher \in watcherBus.refused,
         Tray!WatcherChanged(t, present)
  PROVE  AskedOnce' /\ Heard' /\ tray'.start = t.start /\ tray'.disposed = t.disposed
<1>0. tray.generation \in Nat /\ tray.asked \in Nat /\ tray.asked <= tray.generation
  BY WakeFacts DEF WakeInv, AskedOnce
<1>1. /\ tray'.generation = tray.generation + 1 /\ tray'.state = "unavailable"
      /\ tray'.start = t.start /\ tray'.asked = t.asked /\ tray'.present = t.present
      /\ tray'.disposed = t.disposed
  BY <1>0 DEF Tray!WatcherChanged, Tray!Tray
<1>2. tray'.asked < tray'.generation
  BY <1>0, <1>1
<1>3. AskedOnce'
  BY <1>0, <1>1, <1>2 DEF AskedOnce
<1>4. present => calls'[tray.generation + 1] = "sent"
  BY WakeFacts DEF Tray!WatcherChanged, WakeInv
<1>5. Heard'
  BY <1>1, <1>4 DEF Heard
<1>. QED BY <1>1, <1>3, <1>5

LEMMA PresentWakes ==
  ASSUME WakeInv, Tray!Present
  PROVE  LastTells' /\ AskedOnce' /\ Heard'
<1>. USE DEF WakeInv
<1>. DEFINE t == [tray EXCEPT !.start = "done"]
            present == t.present = "yes"
<1>0. UNCHANGED <<watcherBus, inbox>> /\ tray.start = "asking" /\ tray.present # "unknown"
  BY DEF Tray!Present
<1>1. /\ t \in Tray!Tray /\ t.start = "done" /\ t.generation = tray.generation
      /\ t.state = tray.state /\ t.listening = tray.listening /\ t.disposed = tray.disposed
      /\ t.asked = tray.asked /\ t.present = tray.present
      /\ tray.present \in {"unknown", "yes", "no"}
  BY WakeFacts DEF Tray!Tray
<1>2. CASE ~t.disposed /\ t.asked = t.generation
  <2>1. Tray!WatcherChanged(t, present)
    BY <1>2 DEF Tray!Present
  <2>2. tray.generation + 1 \in Tray!Generation
    BY <1>0, <1>1, <1>2, GenerationFits DEF TrayInv
  <2>3. tray.listening
    BY <1>0 DEF TrayInv, SilentUnlessListening
  <2>4. inbox' = <<>> /\ watcherBus.watcher # NoWatcher =>
          present \/ watcherBus.watcher \in watcherBus.refused
    BY <1>0, <1>1, <1>2, <2>3 DEF Heard, Asking, AskedOnce
  <2>5. present \in BOOLEAN
    OBVIOUS
  <2>. HIDE DEF t, present
  <2>6. AskedOnce' /\ Heard' /\ tray'.start = t.start /\ tray'.disposed = t.disposed
    BY <1>0, <1>1, <2>1, <2>2, <2>4, <2>5, WatcherChangedWakes
  <2>. QED BY <1>0, <1>1, <2>6 DEF LastTells
<1>3. CASE ~(~t.disposed /\ t.asked = t.generation)
  <2>1. tray' = t /\ calls' = calls
    BY <1>3 DEF Tray!Present
  <2>. HIDE DEF t
  <2>. QED BY <1>0, <1>1, <1>3, <2>1 DEF LastTells, AskedOnce, Heard, Asking
<1>. QED BY <1>2, <1>3

LEMMA DeliverWakes ==
  ASSUME WakeInv, Tray!Deliver
  PROVE  LastTells' /\ AskedOnce' /\ Heard'
<1>. USE DEF WakeInv
<1>0. UNCHANGED watcherBus /\ inbox # <<>> /\ inbox' = Tail(inbox)
  BY DEF Tray!Deliver
<1>1. /\ inbox \in Seq(BOOLEAN) /\ Len(inbox) \in Nat /\ Len(inbox) > 0
      /\ Head(inbox) \in BOOLEAN /\ Head(inbox) = inbox[1]
      /\ inbox' \in Seq(BOOLEAN) /\ Len(inbox') = Len(inbox) - 1
      /\ \A n \in 1..Len(inbox') : inbox'[n] = inbox[n + 1]
  BY <1>0, WakeFacts, HeadTailProperties, LenProperties, EmptySeq
<1>2. inbox' = <<>> => Len(inbox) = 1
  BY <1>1
<1>3. inbox' # <<>> => Len(inbox') \in 1..Len(inbox')
  BY <1>1, EmptySeq
<1>4. inbox' # <<>> => inbox'[Len(inbox')] = inbox[Len(inbox)]
  BY <1>1, <1>3
<1>5. tray.start # "new"
  BY <1>0 DEF LastTells
<1>6. CASE tray.listening /\ ~tray.disposed
  <2>1. Tray!WatcherChanged(tray, Head(inbox))
    BY <1>6 DEF Tray!Deliver
  <2>2. tray.generation + 1 \in Tray!Generation
    BY <1>0, GenerationFits DEF TrayInv
  <2>3. tray.start # "opening"
    BY <1>6 DEF TrayInv, SilentUnlessListening
  <2>4. inbox' = <<>> /\ watcherBus.watcher # NoWatcher => Head(inbox)
    BY <1>0, <1>1, <1>2, <1>6 DEF LastTells
  <2>5. AskedOnce' /\ Heard' /\ tray'.start = tray.start /\ tray'.disposed = tray.disposed
    BY <1>0, <1>1, <1>5, <2>1, <2>2, <2>3, <2>4, WakeFacts, WatcherChangedWakes
  <2>. QED BY <1>0, <1>4, <1>5, <2>5 DEF LastTells
<1>7. CASE ~(tray.listening /\ ~tray.disposed)
  <2>1. UNCHANGED <<calls, tray>>
    BY <1>7 DEF Tray!Deliver
  <2>2. LastTells'
    BY <1>0, <1>4, <1>5, <2>1 DEF LastTells
  <2>. QED BY <1>7, <2>1, <2>2 DEF AskedOnce, Heard
<1>. QED BY <1>6, <1>7

LEMMA ReplyWakes ==
  ASSUME WakeInv, NEW g \in Tray!Generation, Tray!Reply(g)
  PROVE  LastTells' /\ AskedOnce' /\ Heard'
<1>. USE DEF WakeInv
<1>0. UNCHANGED <<watcherBus, inbox>> /\ calls[g] \in {"accepted", "failed"}
  BY DEF Tray!Reply
<1>1. /\ calls'[g] = "none"
      /\ \A h \in Tray!Generation : h # g => calls'[h] = calls[h]
      /\ tray.generation \in Tray!Generation
  BY WakeFacts DEF Tray!Reply
<1>2. /\ tray'.generation = tray.generation /\ tray'.start = tray.start
      /\ tray'.disposed = tray.disposed /\ tray'.listening = tray.listening
      /\ tray'.asked = tray.asked /\ tray'.present = tray.present
  BY WakeFacts DEF Tray!Reply, Tray!Current, Tray!Tray
<1>3. CASE Tray!Current(g)
  <2>1. /\ g = tray.generation
        /\ calls[g] = "accepted" => tray'.state = "registered"
    BY <1>3, WakeFacts DEF Tray!Reply, Tray!Current, Tray!Tray
  <2>2. tray.start # "asking" \/ tray.asked # tray.generation
    BY <1>0, <2>1 DEF AskedOnce
  <2>3. AskedOnce'
    BY <1>1, <1>2, <2>1, <2>2 DEF AskedOnce
  <2>4. Heard'
    BY <1>0, <1>1, <1>2, <1>3, <2>1, <2>2 DEF Heard, Asking, AskedOnce, Tray!Current
  <2>. QED BY <1>0, <1>2, <2>3, <2>4 DEF LastTells
<1>4. CASE ~Tray!Current(g)
  <2>1. tray' = tray /\ (g # tray.generation \/ tray.disposed)
    BY <1>4 DEF Tray!Reply, Tray!Current
  <2>2. AskedOnce'
    BY <1>1, <2>1 DEF AskedOnce
  <2>3. Heard'
    BY <1>0, <1>1, <2>1 DEF Heard, Asking
  <2>. QED BY <1>0, <2>1, <2>2, <2>3 DEF LastTells
<1>. QED BY <1>3, <1>4

LEMMA EndsWake ==
  ASSUME WakeInv, Tray!Dispose \/ Tray!Close
  PROVE  LastTells' /\ AskedOnce' /\ Heard'
<1>. USE DEF WakeInv
<1>0. /\ tray.generation \in Nat /\ tray.asked \in Nat /\ tray \in Tray!Tray
      /\ tray.asked <= tray.generation
  BY WakeFacts DEF AskedOnce
<1>1. CASE Tray!Dispose
  <2>1. /\ inbox' = inbox /\ tray'.disposed /\ tray'.generation = tray.generation + 1
        /\ tray'.asked = tray.asked /\ tray'.start = tray.start
        /\ tray'.present = tray.present
    BY <1>0, <1>1 DEF Tray!Dispose, Tray!Tray
  <2>2. tray'.asked < tray'.generation
    BY <1>0, <2>1
  <2>. QED BY <1>0, <2>1, <2>2 DEF LastTells, AskedOnce, Heard
<1>2. CASE Tray!Close
  <2>1. /\ inbox' = <<>> /\ tray'.disposed /\ tray'.generation = tray.generation
        /\ tray'.asked = tray.asked /\ tray'.start = "done" /\ tray'.state = "disposed"
    BY <1>0, <1>2 DEF Tray!Close, Tray!Tray
  <2>. QED BY <1>0, <2>1 DEF LastTells, AskedOnce, Heard
<1>. QED BY <1>1, <1>2

LEMMA WakeInvariance == Tray!Spec => []WakeInv
<1>1. Tray!Init => WakeInv
  <2>. SUFFICES ASSUME Tray!Init PROVE WakeInv
    OBVIOUS
  <2>1. TrayInv
    BY TrayInit
  <2>2. calls[0] = "none"
    BY GenerationIsFinite DEF Tray!Init
  <2>. QED BY <2>1, <2>2 DEF Tray!Init, WakeInv, LastTells, AskedOnce, Heard
<1>2. WakeInv /\ [Tray!Next]_(Tray!trayVars) => WakeInv'
  <2>. SUFFICES ASSUME WakeInv, [Tray!Next]_(Tray!trayVars) PROVE WakeInv'
    OBVIOUS
  <2>0. TrayInv'
    BY TrayStep DEF WakeInv
  <2>1. CASE UNCHANGED Tray!trayVars
    BY <2>0, <2>1 DEF Tray!trayVars, WakeInv, LastTells, AskedOnce, Heard, Asking
  <2>2. ASSUME NEW w \in Watcher \cup {NoWatcher}, Tray!OwnerChanges(w) PROVE WakeInv'
    BY <2>0, <2>2, OwnerChangesWakes DEF WakeInv
  <2>3. ASSUME NEW g \in Tray!Generation, Tray!AnswerRegister(g) \/ Tray!Reply(g)
        PROVE  WakeInv'
    BY <2>0, <2>3, AnswersWake, ReplyWakes DEF WakeInv
  <2>4. CASE Tray!AnswerPresent \/ Tray!Start \/ Tray!Open
    BY <2>0, <2>4, AnswersWake, StartsWake DEF WakeInv
  <2>5. CASE Tray!Present \/ Tray!Deliver
    BY <2>0, <2>5, PresentWakes, DeliverWakes DEF WakeInv
  <2>6. CASE Tray!Dispose \/ Tray!Close
    BY <2>0, <2>6, EndsWake DEF WakeInv
  <2>. QED BY <2>1, <2>2, <2>3, <2>4, <2>5, <2>6 DEF Tray!Next
<1>. QED BY <1>1, <1>2, PTL DEF Tray!Spec

\* The safety half of WatcherGetsTheItem: when no change, answer or reply is under way,
\* the watcher of now has the item or has refused it.
NoWatcherIsMissed ==
  /\ tray.listening /\ ~tray.disposed /\ watcherBus.watcher # NoWatcher
  /\ inbox = <<>> /\ tray.start = "done"
  /\ calls[tray.generation] \notin {"sent", "accepted"}
  => \/ tray.state = "registered" /\ watcherBus.watcher \in watcherBus.items
     \/ watcherBus.watcher \in watcherBus.refused

\* No order of owners, answers and replies leaves a watcher without the item and
\* nothing on its way that would give it to it.
THEOREM WatchersAreNotMissed == Tray!Spec => []NoWatcherIsMissed
<1>1. WakeInv => NoWatcherIsMissed
  BY DEF WakeInv, TrayInv, Heard, Asking, ConfirmedIsCurrent, Confirmed, NoWatcherIsMissed
<1>. QED BY WakeInvariance, <1>1, PTL

-----------------------------------------------------------------------------
(* The notifications (DesktopNotifications).                               *)

NoClient == Notifications!NoClient
NoId == Notifications!NoId

LiveClient(c) == c \in DOMAIN connections /\ connections[c] = "live"

Note(o, k, i) == [owner |-> o, kind |-> k, id |-> i]

Closing == adapter.close # "no"

\* The send that waits for the server uses the client of the adapter and the owner
\* it knows, until the adapter is closed; without a client no id is remembered.
SendUsesTheClient ==
  /\ {adapter.client, adapter.held} \subseteq {NoClient} \cup DOMAIN connections
  /\ send.pc # "idle" => send.client \in DOMAIN connections
  /\ send.pc \in {"notify", "notified"} => send.owner # NoOwner
  /\ send.pc \in {"lookup", "found", "notify", "notified"} /\ ~Closing =>
       send.client = adapter.client
  /\ send.pc \in {"notify", "notified"} /\ ~Closing => send.owner = adapter.owner
  /\ adapter.close # "closing" => adapter.held = NoClient
  /\ Closing => adapter.client = NoClient
  /\ adapter.client = NoClient => \A k \in Kind : adapter.ids[k] = NoId

\* An id that is remembered was given out on the bus of the client.
IdsAreIssued ==
  LiveClient(adapter.client) =>
    \A k \in Kind : adapter.ids[k] # NoId => Note(adapter.owner, k, adapter.ids[k]) \in issued

\* So is the id that is sent, and the one that was received.
SendIsIssued ==
  LiveClient(send.client) /\ send.pc \in {"notify", "notified"} =>
    (send.id # NoId => Note(send.owner, send.kind, send.id) \in issued)

ReceivedId == send.pc = "notified" => send.id # NoId

\* The notifications of a server have the ids up to their number.
Of(o) == {n \in issued : n.owner = o}

IdsAreCounted ==
  /\ IsFiniteSet(issued)
  /\ \A n \in issued : n.id <= Cardinality(Of(n.owner))

\* One id of a server stands for one kind of event.
IdsAreOfOneKind ==
  \A m, n \in issued : m.owner = n.owner /\ m.id = n.id => m = n

\* A connection is open only as long as something will close it.
OpenIsHeld ==
  \A c \in DOMAIN connections : connections[c] # "closed" =>
    c \in {adapter.client, adapter.held} \/ (send.pc = "failed" /\ c = send.client)

\* After close nothing is under way.
ClosedIsIdle == adapter.close = "closed" => send.pc = "idle"

NotificationsInv ==
  /\ Notifications!TypeOK /\ SendUsesTheClient /\ IdsAreIssued /\ SendIsIssued
  /\ ReceivedId /\ IdsAreCounted /\ IdsAreOfOneKind /\ OpenIsHeld /\ ClosedIsIdle

LEMMA NotificationsInit == Notifications!Init => NotificationsInv
<1>. SUFFICES ASSUME Notifications!Init PROVE NotificationsInv
  OBVIOUS
<1>. USE DesktopAssumption
     DEF Notifications!Init, Notifications!NoClient, Notifications!NoId, NoClient, NoId
<1>1. (CHOOSE k \in Kind : TRUE) \in Kind
  OBVIOUS
<1>2. /\ send.pc = "idle" /\ send.client = 0 /\ send \in Notifications!Send
  BY <1>1 DEF Notifications!Idle, Notifications!Send
<1>3. Notifications!TypeOK
  BY <1>2, EmptySeq DEF Notifications!TypeOK, Notifications!Bus, Notifications!Adapter,
     Notifications!NoIds
<1>4. IdsAreCounted
  BY FS_EmptySet DEF IdsAreCounted
<1>5. SendUsesTheClient
  BY <1>2 DEF SendUsesTheClient, Closing, Notifications!NoIds
<1>6. DOMAIN connections = {}
  OBVIOUS
<1>. QED BY <1>2, <1>3, <1>4, <1>5, <1>6
     DEF NotificationsInv, IdsAreIssued, SendIsIssued, ReceivedId, IdsAreOfOneKind,
         OpenIsHeld, ClosedIsIdle, LiveClient

-----------------------------------------------------------------------------
(* The bus and the servers.                                                *)

LEMMA ServerChangesInv ==
  ASSUME NotificationsInv, NEW o \in Owner \cup {NoOwner}, Notifications!ServerChanges(o)
  PROVE  NotificationsInv'
<1>1. UNCHANGED <<issued, connections, adapter, send, queue>>
  BY DEF Notifications!ServerChanges
<1>2. serverBus' \in Notifications!Bus
  BY DEF Notifications!ServerChanges, NotificationsInv, Notifications!TypeOK,
         Notifications!Bus
<1>. QED BY <1>1, <1>2
     DEF NotificationsInv, Notifications!TypeOK, SendUsesTheClient, IdsAreIssued,
         SendIsIssued, ReceivedId, IdsAreCounted, IdsAreOfOneKind, OpenIsHeld,
         ClosedIsIdle, LiveClient, Of, Closing

LEMMA BusRestartsInv ==
  ASSUME NotificationsInv, Notifications!BusRestarts
  PROVE  NotificationsInv'
<1>. USE DEF NotificationsInv
<1>1. UNCHANGED <<adapter, send, queue>> /\ issued' = {}
  BY DEF Notifications!BusRestarts
<1>2. serverBus' \in Notifications!Bus
  BY DesktopAssumption DEF Notifications!BusRestarts, Notifications!TypeOK, Notifications!Bus
<1>3. DOMAIN connections = 1..Len(connections) /\ Len(connections) \in Nat
  BY LenProperties DEF Notifications!TypeOK
<1>4. connections' = [c \in DOMAIN connections |->
                        IF connections[c] = "live" THEN "dead" ELSE connections[c]]
  BY DEF Notifications!BusRestarts
<1>5. /\ DOMAIN connections' = DOMAIN connections
      /\ connections' \in Seq({"live", "dead", "closed"})
      /\ \A c \in DOMAIN connections :
           connections'[c] # "live" /\ (connections'[c] = "closed" <=> connections[c] = "closed")
  <2>1. \A c \in DOMAIN connections : connections[c] \in {"live", "dead", "closed"}
    BY ElementOfSeq, <1>3 DEF Notifications!TypeOK
  <2>2. connections' \in [1..Len(connections) -> {"live", "dead", "closed"}]
    BY <1>3, <1>4, <2>1
  <2>. QED BY <1>3, <1>4, <2>1, <2>2, SeqDef
<1>6. Notifications!TypeOK'
  BY <1>1, <1>2, <1>5 DEF Notifications!TypeOK
<1>7. SendUsesTheClient' /\ OpenIsHeld' /\ ReceivedId' /\ ClosedIsIdle'
  BY <1>1, <1>5 DEF SendUsesTheClient, OpenIsHeld, ReceivedId, ClosedIsIdle, Closing
<1>8. IdsAreIssued' /\ SendIsIssued'
  BY <1>5 DEF IdsAreIssued, SendIsIssued, LiveClient
<1>9. IdsAreCounted' /\ IdsAreOfOneKind'
  BY <1>1, FS_EmptySet DEF IdsAreCounted, IdsAreOfOneKind
<1>. QED BY <1>6, <1>7, <1>8, <1>9

LEMMA AnswerLookupInv ==
  ASSUME NotificationsInv, Notifications!AnswerLookup
  PROVE  NotificationsInv'
<1>. USE DEF NotificationsInv
<1>1. UNCHANGED <<serverBus, issued, connections, adapter, queue>> /\ send.pc = "lookup"
  BY DEF Notifications!AnswerLookup
<1>2. /\ send' \in Notifications!Send /\ send'.pc = "found"
      /\ send'.client = send.client
  BY DEF Notifications!AnswerLookup, Notifications!TypeOK, Notifications!Send,
         Notifications!Bus
<1>3. SendUsesTheClient' /\ OpenIsHeld' /\ ClosedIsIdle'
  BY <1>1, <1>2 DEF SendUsesTheClient, OpenIsHeld, ClosedIsIdle, Closing
<1>. QED BY <1>1, <1>2, <1>3
     DEF Notifications!TypeOK, IdsAreIssued, SendIsIssued, ReceivedId, IdsAreCounted,
         IdsAreOfOneKind, LiveClient, Of

\* The server answers with the id that was sent, or with the next of its own.
LEMMA AnswerNotifyInv ==
  ASSUME NotificationsInv, Notifications!AnswerNotify
  PROVE  NotificationsInv'
<1>. USE DEF NotificationsInv
<1>. DEFINE last == Cardinality(Of(send.owner))
            id   == IF send.id # NoId THEN send.id ELSE last + 1
            note == Note(send.owner, send.kind, id)
<1>0. \A S : Notifications!Cardinality(S) = Cardinality(S)
  BY DEF Notifications!Cardinality, Cardinality
<1>1. /\ UNCHANGED <<serverBus, connections, adapter, queue>>
      /\ send.pc = "notify" /\ LiveClient(send.client)
      /\ issued' = issued \cup {note} /\ send' = [send EXCEPT !.pc = "notified", !.id = id]
  BY <1>0 DEF Notifications!AnswerNotify, Notifications!Live, LiveClient, Of, Note,
     SendUsesTheClient, NoId
<1>2. /\ send.owner \in Owner /\ send.kind \in Kind /\ send.id \in Nat
      /\ last \in Nat /\ IsFiniteSet(Of(send.owner))
  <2>1. IsFiniteSet(Of(send.owner))
    BY FS_Subset DEF IdsAreCounted, Of
  <2>. QED BY <1>1, <2>1, FS_CardinalityType
       DEF Notifications!TypeOK, Notifications!Send, SendUsesTheClient
<1>3. id \in Nat \ {NoId} /\ note \in Notifications!Notification
  BY <1>2 DEF Notifications!Notification, Note, NoId, Notifications!NoId
<1>4. /\ send' \in Notifications!Send /\ send'.pc = "notified" /\ send'.id = id
      /\ send'.client = send.client /\ send'.owner = send.owner /\ send'.kind = send.kind
  BY <1>1, <1>3 DEF Notifications!TypeOK, Notifications!Send
<1>. HIDE DEF id, note
<1>5. Notifications!TypeOK'
  BY <1>1, <1>3, <1>4 DEF Notifications!TypeOK
<1>6. SendUsesTheClient' /\ OpenIsHeld' /\ ClosedIsIdle' /\ ReceivedId' /\ IdsAreIssued'
  BY <1>1, <1>3, <1>4
  DEF SendUsesTheClient, OpenIsHeld, ClosedIsIdle, ReceivedId, IdsAreIssued, Closing,
      LiveClient
<1>7. SendIsIssued'
  BY <1>1, <1>4 DEF SendIsIssued, note
<1>8. IdsAreCounted' /\ IdsAreOfOneKind'
  <2>1. CASE send.id # NoId
    <3>1. issued' = issued
      BY <1>1, <2>1 DEF SendIsIssued, note, id
    <3>. QED BY <3>1 DEF IdsAreCounted, IdsAreOfOneKind, Of
  <2>2. CASE send.id = NoId
    <3>1. id = last + 1 /\ note.id = id /\ note.owner = send.owner
      BY <2>2 DEF id, note, Note
    <3>2. \A n \in Of(send.owner) : n.id \in Nat /\ n.id <= last
      BY DEF IdsAreCounted, Of, Notifications!TypeOK, Notifications!Notification
    <3>3. note \notin Of(send.owner) /\ \A n \in Of(send.owner) : n.id # note.id
      BY <1>2, <3>1, <3>2
    <3>4. /\ Of(send.owner)' = Of(send.owner) \cup {note}
          /\ \A o : o # send.owner => Of(o)' = Of(o)
      BY <1>1, <3>1, <1>4 DEF Of
    <3>5. Cardinality(Of(send.owner)') = last + 1 /\ IsFiniteSet(issued')
      BY <1>1, <1>2, <3>3, <3>4, FS_AddElement DEF IdsAreCounted
    <3>6. ASSUME NEW n \in issued' PROVE n.id <= Cardinality(Of(n.owner)')
      <4>1. CASE n = note
        BY <1>2, <1>4, <3>1, <3>5, <4>1
      <4>2. CASE n # note /\ n.owner = send.owner
        <5>1. n \in Of(send.owner)
          BY <1>1, <4>2 DEF Of
        <5>2. n.id \in Nat /\ n.id <= last
          BY <5>1, <3>2
        <5>3. Of(n.owner)' = Of(send.owner)'
          BY <1>4, <4>2
        <5>. HIDE DEF last
        <5>. QED BY <1>2, <3>5, <5>2, <5>3
      <4>3. CASE n # note /\ n.owner # send.owner
        <5>1. n \in issued /\ Of(n.owner)' = Of(n.owner)
          BY <1>1, <3>4, <4>3
        <5>. QED BY <5>1 DEF IdsAreCounted
      <4>. QED BY <4>1, <4>2, <4>3
    <3>7. IdsAreOfOneKind'
      <4>. SUFFICES ASSUME NEW m \in issued', NEW n \in issued',
                           m.owner = n.owner, m.id = n.id
                    PROVE  m = n
        BY DEF IdsAreOfOneKind
      <4>1. \A x \in issued : x.owner = send.owner => x.id # note.id
        BY <3>3 DEF Of
      <4>. QED BY <1>1, <3>1, <4>1 DEF IdsAreOfOneKind
    <3>. QED BY <3>5, <3>6, <3>7 DEF IdsAreCounted
  <2>. QED BY <2>1, <2>2
<1>. QED BY <1>5, <1>6, <1>7, <1>8

-----------------------------------------------------------------------------
(* show and _send.                                                         *)

LEMMA ShowInv ==
  ASSUME NotificationsInv, NEW k \in Kind, Notifications!Show(k)
  PROVE  NotificationsInv'
<1>. USE DEF NotificationsInv
<1>1. UNCHANGED <<serverBus, issued, connections, send>> /\ queue' \in Seq(Kind)
  BY AppendProperties DEF Notifications!Show, Notifications!TypeOK
<1>2. /\ adapter' \in Notifications!Adapter
      /\ adapter'.client = adapter.client /\ adapter'.owner = adapter.owner
      /\ adapter'.ids = adapter.ids /\ adapter'.held = adapter.held
      /\ adapter'.close = adapter.close
  <2>1. adapter.shown + 1 \in 0..MaxSends
    BY DesktopAssumption
    DEF Notifications!Show, Notifications!TypeOK, Notifications!Adapter
  <2>. QED BY <2>1 DEF Notifications!Show, Notifications!TypeOK, Notifications!Adapter
<1>. QED BY <1>1, <1>2
     DEF Notifications!TypeOK, SendUsesTheClient, IdsAreIssued, SendIsIssued, ReceivedId,
         IdsAreCounted, IdsAreOfOneKind, OpenIsHeld, ClosedIsIdle, LiveClient, Of, Closing

LEMMA BeginInv ==
  ASSUME NotificationsInv, Notifications!Begin
  PROVE  NotificationsInv'
<1>. USE DEF NotificationsInv, NoClient, NoId, Notifications!NoClient, Notifications!NoId
<1>1. /\ UNCHANGED <<serverBus, issued>> /\ send.pc = "idle"
      /\ queue # <<>> /\ queue' = Tail(queue)
  BY DEF Notifications!Begin
<1>2. queue' \in Seq(Kind) /\ Head(queue) \in Kind
  BY <1>1, HeadTailProperties DEF Notifications!TypeOK
<1>3. CASE Closing
  <2>1. UNCHANGED <<connections, adapter, send>>
    BY <1>3 DEF Notifications!Begin, Notifications!Disposed, Closing
  <2>. QED BY <1>1, <1>2, <2>1
       DEF Notifications!TypeOK, SendUsesTheClient, IdsAreIssued, SendIsIssued,
           ReceivedId, IdsAreCounted, IdsAreOfOneKind, OpenIsHeld, ClosedIsIdle,
           LiveClient, Of, Closing
<1>4. CASE ~Closing
  <2>. DEFINE new == adapter.client = 0
              c   == IF new THEN Len(connections) + 1 ELSE adapter.client
  <2>1. /\ connections' = IF new THEN Append(connections, "live") ELSE connections
        /\ adapter' = [adapter EXCEPT !.client = c]
        /\ send' = [Notifications!Idle(Head(queue)) EXCEPT !.pc = "lookup", !.client = c]
    BY <1>4 DEF Notifications!Begin, Notifications!Disposed, Closing
  <2>2. DOMAIN connections = 1..Len(connections) /\ Len(connections) \in Nat
    BY LenProperties DEF Notifications!TypeOK
  <2>3. /\ connections' \in Seq({"live", "dead", "closed"})
        /\ DOMAIN connections' = DOMAIN connections \cup {c} /\ c \in Nat \ {0}
        /\ \A d \in DOMAIN connections : connections'[d] = connections[d]
        /\ c \in DOMAIN connections \/ new
    <3>1. CASE new
      <4>1. c = Len(connections) + 1 /\ connections' = Append(connections, "live")
        BY <2>1, <3>1
      <4>2. /\ connections' \in Seq({"live", "dead", "closed"})
            /\ Len(connections') = Len(connections) + 1
            /\ \A d \in 1..Len(connections) : connections'[d] = connections[d]
        BY <4>1, AppendProperties DEF Notifications!TypeOK
      <4>3. DOMAIN connections' = 1..(Len(connections) + 1)
        BY <4>2, LenProperties
      <4>4. 1..(Len(connections) + 1) = 1..Len(connections) \cup {Len(connections) + 1}
        BY <2>2
      <4>. QED BY <2>2, <3>1, <4>1, <4>2, <4>3, <4>4
    <3>2. CASE ~new
      BY <2>1, <2>2, <3>2 DEF Notifications!TypeOK, SendUsesTheClient
    <3>. QED BY <3>1, <3>2
  <2>4. /\ adapter' \in Notifications!Adapter
        /\ adapter'.client = c /\ adapter'.owner = adapter.owner
        /\ adapter'.ids = adapter.ids /\ adapter'.held = adapter.held
        /\ adapter'.close = adapter.close
    BY <2>1, <2>3 DEF Notifications!TypeOK, Notifications!Adapter
  <2>5. send' \in Notifications!Send /\ send'.pc = "lookup" /\ send'.client = c
    BY <1>2, <2>1, <2>3 DEF Notifications!Send, Notifications!Idle
  <2>6. new => \A k \in Kind : adapter.ids[k] = 0
    BY DEF SendUsesTheClient
  <2>7. ~new => c = adapter.client
    OBVIOUS
  <2>8. adapter.client \in {0} \cup DOMAIN connections
    BY DEF SendUsesTheClient
  <2>. HIDE DEF new, c
  <2>9. Notifications!TypeOK'
    BY <1>1, <1>2, <2>3, <2>4, <2>5 DEF Notifications!TypeOK
  <2>10. SendUsesTheClient'
    BY <1>4, <2>3, <2>4, <2>5 DEF SendUsesTheClient, Closing
  <2>11. IdsAreIssued'
    BY <1>1, <2>3, <2>4, <2>6, <2>7 DEF IdsAreIssued, LiveClient
  <2>12. OpenIsHeld'
    <3>1. send.pc # "failed"
      BY <1>1
    <3>2. new => adapter.client = 0 /\ 0 \notin DOMAIN connections
      BY <2>2 DEF new
    <3>. QED BY <3>1, <3>2, <2>3, <2>4, <2>7 DEF OpenIsHeld
  <2>13. SendIsIssued' /\ ReceivedId' /\ IdsAreCounted' /\ IdsAreOfOneKind' /\ ClosedIsIdle'
    BY <1>1, <1>4, <2>4, <2>5
    DEF SendIsIssued, ReceivedId, IdsAreCounted, IdsAreOfOneKind, ClosedIsIdle, Of, Closing
  <2>. QED BY <2>9, <2>10, <2>11, <2>12, <2>13
<1>. QED BY <1>3, <1>4

\* The end of a send that touches nothing else.
LEMMA SendEnds ==
  ASSUME NotificationsInv, UNCHANGED <<serverBus, issued, connections, queue>>,
         send.pc # "failed", send' = Notifications!Idle(send.kind),
         adapter' \in Notifications!Adapter, adapter'.close = adapter.close,
         adapter'.client = adapter.client, adapter'.held = adapter.held,
         adapter.client = NoClient => adapter'.ids = adapter.ids,
         IdsAreIssued'
  PROVE  NotificationsInv'
<1>. USE DEF NotificationsInv
<1>1. send' \in Notifications!Send /\ send'.pc = "idle"
  BY DEF Notifications!Idle, Notifications!Send, Notifications!TypeOK,
         Notifications!NoClient, Notifications!NoId
<1>. QED BY <1>1
     DEF Notifications!TypeOK, SendUsesTheClient, SendIsIssued, ReceivedId, IdsAreCounted,
         IdsAreOfOneKind, OpenIsHeld, ClosedIsIdle, Of, Closing

LEMMA FoundInv ==
  ASSUME NotificationsInv, Notifications!Found
  PROVE  NotificationsInv'
<1>. USE DEF NotificationsInv
<1>1. UNCHANGED <<serverBus, issued, connections, queue>> /\ send.pc = "found"
  BY DEF Notifications!Found
<1>2. CASE Closing
  <2>1. send' = Notifications!Idle(send.kind) /\ adapter' = adapter
    BY <1>2 DEF Notifications!Found, Notifications!Disposed, Closing
  <2>2. IdsAreIssued'
    BY <1>1, <2>1 DEF IdsAreIssued, LiveClient
  <2>. QED BY <1>1, <2>1, <2>2, SendEnds DEF Notifications!TypeOK
<1>3. CASE ~Closing
  <2>. DEFINE ids == Notifications!IdsOf
  <2>1. adapter' = [adapter EXCEPT !.owner = send.owner, !.ids = ids]
    BY <1>3 DEF Notifications!Found, Notifications!Disposed, Closing
  <2>2. /\ ids \in [Kind -> Nat]
        /\ \A k \in Kind : ids[k] # NoId =>
             send.owner = adapter.owner /\ adapter.ids[k] = ids[k]
        /\ (\A k \in Kind : adapter.ids[k] = NoId) => ids = adapter.ids
    BY DEF Notifications!IdsOf, Notifications!NoIds, NoId, Notifications!NoId,
           Notifications!TypeOK, Notifications!Adapter
  <2>. HIDE DEF ids
  <2>3. /\ adapter' \in Notifications!Adapter /\ adapter'.ids = ids
        /\ adapter'.owner = send.owner /\ adapter'.client = adapter.client
        /\ adapter'.held = adapter.held /\ adapter'.close = adapter.close
    BY <2>1, <2>2 DEF Notifications!TypeOK, Notifications!Adapter, Notifications!Send
  <2>4. IdsAreIssued'
    BY <1>1, <2>2, <2>3 DEF IdsAreIssued, LiveClient
  <2>5. CASE send.owner = NoOwner
    <3>1. send' = Notifications!Idle(send.kind)
      BY <1>3, <2>5 DEF Notifications!Found, Notifications!Disposed, Closing
    <3>. QED BY <1>1, <2>2, <2>3, <2>4, <3>1, SendEnds DEF SendUsesTheClient
  <2>6. CASE send.owner # NoOwner
    <3>1. send' = [send EXCEPT !.pc = "notify", !.id = ids[send.kind]]
      BY <1>3, <2>6 DEF Notifications!Found, Notifications!Disposed, Closing, ids
    <3>2. /\ send' \in Notifications!Send /\ send'.pc = "notify"
          /\ send'.owner = send.owner /\ send'.kind = send.kind
          /\ send'.client = send.client /\ send'.id = ids[send.kind] /\ send.kind \in Kind
      BY <3>1, <2>2 DEF Notifications!TypeOK, Notifications!Send
    <3>3. send.client = adapter.client
      BY <1>1, <1>3 DEF SendUsesTheClient
    <3>4. Notifications!TypeOK'
      BY <1>1, <2>3, <3>2 DEF Notifications!TypeOK
    <3>5. SendIsIssued'
      BY <1>1, <2>2, <3>2, <3>3 DEF SendIsIssued, IdsAreIssued, LiveClient, Note
    <3>6. SendUsesTheClient'
      BY <1>1, <1>3, <2>2, <2>3, <2>6, <3>2, <3>3 DEF SendUsesTheClient, Closing
    <3>7. OpenIsHeld' /\ ReceivedId' /\ IdsAreCounted' /\ IdsAreOfOneKind' /\ ClosedIsIdle'
      BY <1>1, <1>3, <2>3, <3>2
      DEF OpenIsHeld, ReceivedId, IdsAreCounted, IdsAreOfOneKind, ClosedIsIdle, Of, Closing
    <3>. QED BY <2>4, <3>4, <3>5, <3>6, <3>7
  <2>. QED BY <2>5, <2>6
<1>. QED BY <1>2, <1>3

LEMMA NotifiedInv ==
  ASSUME NotificationsInv, Notifications!Notified
  PROVE  NotificationsInv'
<1>. USE DEF NotificationsInv
<1>1. /\ UNCHANGED <<serverBus, issued, connections, queue>>
      /\ send.pc = "notified" /\ send' = Notifications!Idle(send.kind)
  BY DEF Notifications!Notified
<1>2. CASE Closing
  <2>1. adapter' = adapter
    BY <1>2 DEF Notifications!Notified, Notifications!Disposed, Closing
  <2>2. IdsAreIssued'
    BY <1>1, <2>1 DEF IdsAreIssued, LiveClient
  <2>. QED BY <1>1, <2>1, <2>2, SendEnds DEF Notifications!TypeOK
<1>3. CASE ~Closing
  <2>1. adapter' = [adapter EXCEPT !.ids[send.kind] = send.id]
    BY <1>3 DEF Notifications!Notified, Notifications!Disposed, Closing
  <2>2. /\ adapter' \in Notifications!Adapter
        /\ adapter'.owner = adapter.owner /\ adapter'.client = adapter.client
        /\ adapter'.held = adapter.held /\ adapter'.close = adapter.close
        /\ adapter'.ids[send.kind] = send.id
        /\ \A k \in Kind : k # send.kind => adapter'.ids[k] = adapter.ids[k]
    BY <2>1 DEF Notifications!TypeOK, Notifications!Adapter, Notifications!Send
  <2>3. send.client = adapter.client /\ send.owner = adapter.owner
    BY <1>1, <1>3 DEF SendUsesTheClient
  <2>4. IdsAreIssued'
    BY <1>1, <2>2, <2>3 DEF IdsAreIssued, SendIsIssued, LiveClient
  <2>5. adapter.client # NoClient
    <3>1. connections \in Seq({"live", "dead", "closed"})
      BY DEF Notifications!TypeOK
    <3>2. adapter.client \in 1..Len(connections)
      BY <1>1, <2>3, <3>1, LenProperties DEF SendUsesTheClient
    <3>. QED BY <3>1, <3>2, LenProperties DEF NoClient, Notifications!NoClient
  <2>. QED BY <1>1, <2>2, <2>4, <2>5, SendEnds
<1>. QED BY <1>2, <1>3

\* The catch clause forgets the client and leaves it to be closed.
LEMMA CatchInv ==
  ASSUME NotificationsInv, Notifications!CallFails \/ Notifications!UntilDisposed
  PROVE  NotificationsInv'
<1>. USE DEF NotificationsInv
<1>1. /\ UNCHANGED <<serverBus, issued, connections, queue>>
      /\ send.pc \in {"lookup", "notify"} /\ Notifications!Catch
      /\ adapter' = Notifications!Forget(adapter)
  BY DEF Notifications!CallFails, Notifications!UntilDisposed, Notifications!Catch
<1>2. /\ adapter' \in Notifications!Adapter /\ adapter'.client = NoClient
      /\ adapter'.held = adapter.held /\ adapter'.close = adapter.close
      /\ \A k \in Kind : adapter'.ids[k] = NoId
  BY <1>1 DEF Notifications!Forget, Notifications!TypeOK, Notifications!Adapter,
     Notifications!NoIds, NoClient, Notifications!NoClient, NoId, Notifications!NoId
<1>3. NoClient \notin DOMAIN connections
  BY LenProperties DEF Notifications!TypeOK, NoClient, Notifications!NoClient
<1>4. IdsAreIssued'
  BY <1>1, <1>2, <1>3 DEF IdsAreIssued, LiveClient
<1>5. CASE adapter.client = NoClient
  <2>1. send' = Notifications!Idle(send.kind)
    BY <1>1, <1>5 DEF Notifications!Catch, NoClient
  <2>2. \A k \in Kind : adapter.ids[k] = NoId
    BY <1>5 DEF SendUsesTheClient
  <2>3. adapter'.ids = adapter.ids
    BY <1>2, <2>2 DEF Notifications!TypeOK, Notifications!Adapter
  <2>. QED BY <1>1, <1>2, <1>4, <1>5, <2>1, <2>3, SendEnds
<1>6. CASE adapter.client # NoClient
  <2>1. send' = [send EXCEPT !.pc = "failed", !.client = adapter.client]
    BY <1>1, <1>6 DEF Notifications!Catch, NoClient
  <2>2. /\ send' \in Notifications!Send /\ send'.pc = "failed"
        /\ send'.client = adapter.client
    BY <2>1 DEF Notifications!TypeOK, Notifications!Send, Notifications!Adapter
  <2>3. adapter.client \in DOMAIN connections
    BY <1>6 DEF SendUsesTheClient
  <2>4. ~Closing
    BY <1>6 DEF SendUsesTheClient
  <2>5. SendUsesTheClient' /\ OpenIsHeld'
    BY <1>1, <1>2, <2>2, <2>3 DEF SendUsesTheClient, OpenIsHeld, Closing
  <2>6. ClosedIsIdle' /\ SendIsIssued' /\ ReceivedId' /\ IdsAreCounted' /\ IdsAreOfOneKind'
    BY <1>1, <1>2, <2>2, <2>4
    DEF ClosedIsIdle, SendIsIssued, ReceivedId, IdsAreCounted, IdsAreOfOneKind, Of, Closing
  <2>. QED BY <1>1, <1>2, <1>4, <2>2, <2>5, <2>6 DEF Notifications!TypeOK
<1>. QED BY <1>5, <1>6

\* A connection is closed; it was not live for the sake of anybody else.
LEMMA ClosedConnection ==
  ASSUME NotificationsInv, NEW c \in DOMAIN connections,
         connections' = [connections EXCEPT ![c] = "closed"]
  PROVE  /\ connections' \in Seq({"live", "dead", "closed"})
         /\ DOMAIN connections' = DOMAIN connections /\ connections'[c] = "closed"
         /\ \A d \in DOMAIN connections : d # c => connections'[d] = connections[d]
<1>1. /\ connections \in Seq({"live", "dead", "closed"})
      /\ DOMAIN connections = 1..Len(connections)
  BY LenProperties DEF NotificationsInv, Notifications!TypeOK
<1>. QED BY <1>1, ExceptSeq

LEMMA ClosedByCatchInv ==
  ASSUME NotificationsInv, Notifications!ClosedByCatch
  PROVE  NotificationsInv'
<1>. USE DEF NotificationsInv
<1>1. /\ UNCHANGED <<serverBus, issued, adapter, queue>> /\ send.pc = "failed"
      /\ connections' = [connections EXCEPT ![send.client] = "closed"]
      /\ send' = Notifications!Idle(send.kind)
  BY DEF Notifications!ClosedByCatch
<1>2. send.client \in DOMAIN connections
  BY <1>1 DEF SendUsesTheClient
<1>3. /\ connections' \in Seq({"live", "dead", "closed"})
      /\ DOMAIN connections' = DOMAIN connections /\ connections'[send.client] = "closed"
      /\ \A d \in DOMAIN connections : d # send.client => connections'[d] = connections[d]
  BY <1>1, <1>2, ClosedConnection
<1>4. send' \in Notifications!Send /\ send'.pc = "idle"
  BY <1>1 DEF Notifications!Idle, Notifications!Send, Notifications!TypeOK,
     Notifications!NoClient, Notifications!NoId
<1>5. Notifications!TypeOK' /\ SendUsesTheClient'
  BY <1>1, <1>3, <1>4 DEF Notifications!TypeOK, SendUsesTheClient, Closing
<1>6. OpenIsHeld' /\ IdsAreIssued'
  BY <1>1, <1>3, <1>4 DEF OpenIsHeld, IdsAreIssued, LiveClient
<1>. QED BY <1>1, <1>4, <1>5, <1>6
     DEF SendIsIssued, ReceivedId, IdsAreCounted, IdsAreOfOneKind, ClosedIsIdle, Of

-----------------------------------------------------------------------------
(* close.                                                                  *)

LEMMA CloseInv ==
  ASSUME NotificationsInv, Notifications!Close
  PROVE  NotificationsInv'
<1>. USE DEF NotificationsInv
<1>1. UNCHANGED <<serverBus, issued, connections, send, queue>> /\ adapter.close = "no"
  BY DEF Notifications!Close
<1>2. /\ adapter' \in Notifications!Adapter /\ adapter'.client = NoClient
      /\ adapter'.held = adapter.client /\ adapter'.close = "closing"
      /\ \A k \in Kind : adapter'.ids[k] = NoId
  BY DEF Notifications!Close, Notifications!TypeOK, Notifications!Adapter,
     Notifications!NoIds, NoClient, Notifications!NoClient, NoId, Notifications!NoId
<1>3. NoClient \notin DOMAIN connections
  BY LenProperties DEF Notifications!TypeOK, NoClient, Notifications!NoClient
<1>4. SendUsesTheClient' /\ IdsAreIssued'
  BY <1>1, <1>2, <1>3 DEF SendUsesTheClient, IdsAreIssued, LiveClient, Closing
<1>5. OpenIsHeld'
  <2>1. adapter.held = NoClient
    BY <1>1 DEF SendUsesTheClient
  <2>. QED BY <1>1, <1>2, <1>3, <2>1 DEF OpenIsHeld
<1>. QED BY <1>1, <1>2, <1>4, <1>5
     DEF Notifications!TypeOK, SendIsIssued, ReceivedId, IdsAreCounted, IdsAreOfOneKind,
         ClosedIsIdle, LiveClient, Of

LEMMA ClientClosedInv ==
  ASSUME NotificationsInv, Notifications!ClientClosed
  PROVE  NotificationsInv'
<1>. USE DEF NotificationsInv
<1>1. UNCHANGED <<serverBus, issued, send, queue>> /\ adapter.close = "closing"
  BY DEF Notifications!ClientClosed
<1>2. /\ adapter' \in Notifications!Adapter /\ adapter'.client = adapter.client
      /\ adapter'.held = NoClient /\ adapter'.close = "draining"
      /\ adapter'.ids = adapter.ids /\ adapter'.owner = adapter.owner
  BY DEF Notifications!ClientClosed, Notifications!TypeOK, Notifications!Adapter,
     NoClient, Notifications!NoClient
<1>3. adapter.client = NoClient /\ NoClient \notin DOMAIN connections
  BY <1>1, LenProperties
  DEF Notifications!TypeOK, NoClient, Notifications!NoClient, SendUsesTheClient, Closing
<1>4. /\ connections' \in Seq({"live", "dead", "closed"})
      /\ DOMAIN connections' = DOMAIN connections
      /\ \A d \in DOMAIN connections :
           IF d = adapter.held THEN connections'[d] = "closed"
           ELSE connections'[d] = connections[d]
  <2>1. CASE adapter.held = NoClient
    BY <1>3, <2>1 DEF Notifications!ClientClosed, Notifications!TypeOK, NoClient
  <2>2. CASE adapter.held # NoClient
    <3>1. connections' = [connections EXCEPT ![adapter.held] = "closed"]
      BY <2>2 DEF Notifications!ClientClosed, NoClient
    <3>2. adapter.held \in DOMAIN connections
      BY <2>2 DEF SendUsesTheClient
    <3>. QED BY <3>1, <3>2, ClosedConnection
  <2>. QED BY <2>1, <2>2
<1>5. Notifications!TypeOK' /\ SendUsesTheClient'
  BY <1>1, <1>2, <1>3, <1>4 DEF Notifications!TypeOK, SendUsesTheClient, Closing
<1>6. OpenIsHeld' /\ IdsAreIssued' /\ SendIsIssued'
  BY <1>1, <1>2, <1>3, <1>4 DEF OpenIsHeld, IdsAreIssued, SendIsIssued, LiveClient
<1>. QED BY <1>1, <1>2, <1>5, <1>6
     DEF ReceivedId, IdsAreCounted, IdsAreOfOneKind, ClosedIsIdle, Of

LEMMA DrainedInv ==
  ASSUME NotificationsInv, Notifications!Drained
  PROVE  NotificationsInv'
<1>. USE DEF NotificationsInv
<1>1. /\ UNCHANGED <<serverBus, issued, connections, send, queue>>
      /\ adapter.close = "draining" /\ send.pc = "idle"
  BY DEF Notifications!Drained
<1>2. /\ adapter' \in Notifications!Adapter /\ adapter'.client = adapter.client
      /\ adapter'.held = adapter.held /\ adapter'.close = "closed"
      /\ adapter'.ids = adapter.ids /\ adapter'.owner = adapter.owner
  BY DEF Notifications!Drained, Notifications!TypeOK, Notifications!Adapter
<1>. QED BY <1>1, <1>2
     DEF Notifications!TypeOK, SendUsesTheClient, IdsAreIssued, SendIsIssued, ReceivedId,
         IdsAreCounted, IdsAreOfOneKind, OpenIsHeld, ClosedIsIdle, LiveClient, Of, Closing

LEMMA NotificationsStep ==
  NotificationsInv /\ [Notifications!Next]_(Notifications!notifyVars) => NotificationsInv'
<1>. SUFFICES ASSUME NotificationsInv, [Notifications!Next]_(Notifications!notifyVars)
              PROVE  NotificationsInv'
  OBVIOUS
<1>1. CASE UNCHANGED Notifications!notifyVars
  BY <1>1
  DEF Notifications!notifyVars, NotificationsInv, Notifications!TypeOK, SendUsesTheClient,
      IdsAreIssued, SendIsIssued, ReceivedId, IdsAreCounted, IdsAreOfOneKind, OpenIsHeld,
      ClosedIsIdle, LiveClient, Of, Closing
<1>2. ASSUME NEW o \in Owner \cup {NoOwner}, Notifications!ServerChanges(o)
      PROVE  NotificationsInv'
  BY <1>2, ServerChangesInv
<1>3. CASE Notifications!BusRestarts
  BY <1>3, BusRestartsInv
<1>4. CASE Notifications!AnswerLookup
  BY <1>4, AnswerLookupInv
<1>5. CASE Notifications!AnswerNotify
  BY <1>5, AnswerNotifyInv
<1>6. ASSUME NEW k \in Kind, Notifications!Show(k) PROVE NotificationsInv'
  BY <1>6, ShowInv
<1>7. CASE Notifications!Begin
  BY <1>7, BeginInv
<1>8. CASE Notifications!Found
  BY <1>8, FoundInv
<1>9. CASE Notifications!Notified
  BY <1>9, NotifiedInv
<1>10. CASE Notifications!CallFails \/ Notifications!UntilDisposed
  BY <1>10, CatchInv
<1>11. CASE Notifications!ClosedByCatch
  BY <1>11, ClosedByCatchInv
<1>12. CASE Notifications!Close
  BY <1>12, CloseInv
<1>13. CASE Notifications!ClientClosed
  BY <1>13, ClientClosedInv
<1>14. CASE Notifications!Drained
  BY <1>14, DrainedInv
<1>. QED BY <1>1, <1>2, <1>3, <1>4, <1>5, <1>6, <1>7, <1>8, <1>9, <1>10, <1>11, <1>12,
            <1>13, <1>14 DEF Notifications!Next

LEMMA NotificationsInvariance == Notifications!Spec => []NotificationsInv
BY NotificationsInit, NotificationsStep, PTL DEF Notifications!Spec

\* The id in a call of Notify that can still arrive is the server's own, for the
\* same kind of event.
THEOREM NotificationsReplaceTheirOwn ==
  Notifications!Spec => [](Notifications!TypeOK /\ ReplacesItsOwnNotification)
<1>1. NotificationsInv => Notifications!TypeOK /\ ReplacesItsOwnNotification
  BY DEF NotificationsInv, SendIsIssued, SendUsesTheClient, LiveClient, Note, NoId,
         ReplacesItsOwnNotification, Notifications!ReplacesItsOwnNotification,
         Notifications!Live
<1>. QED BY <1>1, NotificationsInvariance, PTL

\* What a server shows under one id is of one kind of event, as long as the bus is up.
THEOREM IdsStandForOneKind == Notifications!Spec => []IdsAreOfOneKind
<1>1. NotificationsInv => IdsAreOfOneKind
  BY DEF NotificationsInv
<1>. QED BY <1>1, NotificationsInvariance, PTL

\* The safety half of CloseEnds: when close has ended, no connection is open.
NothingStaysOpen == adapter.close = "closed" => Notifications!Open = {}

\* No sequence of failed sends and closes of clients leaves a connection to the bus open.
THEOREM CloseLeavesNothingOpen == Notifications!Spec => []NothingStaysOpen
<1>1. NotificationsInv => NothingStaysOpen
  <2>. SUFFICES ASSUME NotificationsInv, adapter.close = "closed",
                       NEW c \in DOMAIN connections, connections[c] # "closed"
                PROVE  FALSE
    BY DEF NothingStaysOpen, Notifications!Open
  <2>1. adapter.client = NoClient /\ adapter.held = NoClient /\ send.pc = "idle"
    BY DEF NotificationsInv, SendUsesTheClient, ClosedIsIdle, Closing
  <2>2. NoClient \notin DOMAIN connections
    BY LenProperties
    DEF NotificationsInv, Notifications!TypeOK, NoClient, Notifications!NoClient
  <2>. QED BY <2>1, <2>2 DEF NotificationsInv, OpenIsHeld
<1>. QED BY <1>1, NotificationsInvariance, PTL

LEMMA DesktopRunsItsParts ==
  DesktopSpec => Tray!Spec /\ Notifications!Spec /\ Spec
<1>1. DesktopInit => Tray!Init /\ Notifications!Init /\ Init
  BY DEF DesktopInit
<1>2. [DesktopNext]_<<part, vars, trayVars, notifyVars>> =>
        [Tray!Next]_(Tray!trayVars)
  BY DEF DesktopNext, trayVars, Tray!trayVars
<1>3. [DesktopNext]_<<part, vars, trayVars, notifyVars>> =>
        [Notifications!Next]_(Notifications!notifyVars)
  BY DEF DesktopNext, notifyVars, Notifications!notifyVars
<1>4. [DesktopNext]_<<part, vars, trayVars, notifyVars>> => [Next]_vars
  BY DEF DesktopNext
<1>. QED BY <1>1, <1>2, <1>3, <1>4, PTL
     DEF DesktopSpec, Tray!Spec, Notifications!Spec, Spec

\* The promises of the three parts as they are checked together.
THEOREM DesktopKeepsItsPromises ==
  DesktopSpec => [](ReadingIsTheLoad /\ RegistrationIsCurrent /\ ReplacesItsOwnNotification)
BY DesktopRunsItsParts, ReadingIsTheLoadHolds, RegistrationHolds,
   NotificationsReplaceTheirOwn, PTL
================================================================================
