------------------------- MODULE PackagePowerSampler -------------------------
(***************************************************************************)
(* The energy meter of the telemetry service (telemetry/                   *)
(* package_power_sampler.cc): once a second it reads the energy counter of *)
(* the first CPU package that can be read and turns the difference to the  *)
(* last sample into watts.                                                 *)
(*                                                                         *)
(* The counters are the kernel's.  A counter shows 0..range and starts     *)
(* again at 0.  Between two samples it may become unreadable, its range    *)
(* may change, and it may jump: a reset, or a suspended machine, which     *)
(* spends energy while the monotonic clock stands still.  `since' follows  *)
(* what the sampled package has really spent, `seen' keeps it as it was at *)
(* the last sample.                                                        *)
(***************************************************************************)
EXTENDS Integers

CONSTANTS
  Packages,       \* the number of CPU packages, in the order of their paths
  Ranges,         \* the values of max_energy_range_uj
  MinInterval, MaxInterval, MaxWatts,
  PowerLimit,     \* the energy a package spends in one unit of time, at most
  MaxTime,        \* bound on the clock
  MaxDisturbances \* bound on what else happens to the counters

Package == 1..Packages

None == 0         \* an empty domain_path_

\* A package does not exhaust its counter within the longest valid interval.
ASSUME SamplerAssumption ==
  /\ Packages \in Nat /\ Ranges \subseteq Nat \ {0}
  /\ MinInterval \in Nat /\ MaxInterval \in Nat /\ MaxWatts \in Nat
  /\ PowerLimit \in Nat /\ MaxTime \in Nat /\ MaxDisturbances \in Nat
  /\ \A r \in Ranges : PowerLimit * MaxInterval <= r /\ PowerLimit <= r

VARIABLES
  now,       \* the monotonic clock
  counter,   \* energy_uj and max_energy_range_uj of the packages
  disturbed, \* how often something happened to a counter
  domain,    \* domain_path_
  prev,      \* has_previous_sample_ and the three previous_ fields
  reading,   \* reading_, its watts as energy and time
  since,     \* what the package in use did since the last sample
  seen       \* `since' as the reading found it

sampler == <<domain, prev, reading, since, seen>>

vars == <<now, counter, disturbed, sampler>>

Counter == [energy : Nat, range : Ranges, readable : BOOLEAN]

Baseline == [has : BOOLEAN, energy : Nat, range : Nat, time : Nat]

Reading == [available : BOOLEAN, energy : Nat, time : Int]

Load == [spent : Nat, time : Nat, moved : BOOLEAN, upset : BOOLEAN]

TypeOK ==
  /\ now \in Nat
  /\ counter \in [Package -> Counter]
  /\ disturbed \in 0..MaxDisturbances
  /\ domain \in Package \cup {None}
  /\ prev \in Baseline
  /\ reading \in Reading
  /\ since \in Load /\ seen \in Load

NoBaseline == [has |-> FALSE, energy |-> 0, range |-> 0, time |-> 0]

Unavailable == [available |-> FALSE, energy |-> 0, time |-> 0]

Nothing == [spent |-> 0, time |-> 0, moved |-> FALSE, upset |-> FALSE]

Init ==
  /\ now = 0
  /\ counter \in [Package -> [energy : {0}, range : Ranges, readable : BOOLEAN]]
  /\ disturbed = 0
  /\ domain = None /\ prev = NoBaseline /\ reading = Unavailable
  /\ since = Nothing /\ seen = Nothing

-----------------------------------------------------------------------------
(* The kernel's counters.                                                  *)

Advance(c, e) ==
  [c EXCEPT !.energy = IF c.energy + e <= c.range THEN c.energy + e
                       ELSE IF c.energy <= c.range THEN c.energy + e - c.range - 1
                       ELSE 0]

\* A unit of time, in which package p spends e[p].
Tick ==
  \E e \in [Package -> 0..PowerLimit] :
    /\ now < MaxTime /\ now' = now + 1
    /\ counter' = [p \in Package |-> Advance(counter[p], e[p])]
    /\ since' = [spent |-> since.spent + (IF domain = None THEN 0 ELSE e[domain]),
                 time  |-> since.time + 1, moved |-> since.moved, upset |-> since.upset]
    /\ UNCHANGED <<disturbed, domain, prev, reading, seen>>

\* The counter of package p becomes c, with no time on the clock.
Disturb(p, c, load) ==
  /\ disturbed < MaxDisturbances /\ disturbed' = disturbed + 1
  /\ counter' = [counter EXCEPT ![p] = c]
  /\ since' = IF p = domain THEN load ELSE since
  /\ UNCHANGED <<now, domain, prev, reading, seen>>

Appear(p) ==
  Disturb(p, [counter[p] EXCEPT !.readable = ~@], since)

\* A range that changes twice may be what it was before.
ChangeRange(p) ==
  \E r \in Ranges \ {counter[p].range} :
    Disturb(p, [counter[p] EXCEPT !.range = r],
            [since EXCEPT !.moved = TRUE, !.upset = @ \/ since.moved])

Jump(p) ==
  \E e \in 0..counter[p].range :
    Disturb(p, [counter[p] EXCEPT !.energy = e], [since EXCEPT !.upset = TRUE])

-----------------------------------------------------------------------------
(* Sample.                                                                 *)

\* DiscoverPackageDomain: the first package that can be read.
Discovered ==
  IF \E p \in Package : counter[p].readable
  THEN CHOOSE p \in Package :
         counter[p].readable /\ \A q \in Package : counter[q].readable => p <= q
  ELSE None

InUse == IF domain = None THEN Discovered ELSE domain

\* A package that was just discovered has no baseline.
Start == IF domain = None THEN NoBaseline ELSE prev

\* The fields after a sample.
Store(d, b, r) ==
  /\ domain' = d /\ prev' = b /\ reading' = r
  /\ seen' = (IF r.available THEN since ELSE Nothing) /\ since' = Nothing
  /\ UNCHANGED <<now, counter, disturbed>>

NoPackage ==
  /\ InUse = None
  /\ Store(None, prev, Unavailable)

Sane(c) == c.readable /\ c.energy <= c.range

Unreadable ==
  /\ InUse # None /\ ~Sane(counter[InUse])
  /\ Store(None, NoBaseline, Unavailable)

\* Mutated form: a changed range goes unnoticed.
Started(c) == Start.has

Comparable(c) == Start.has /\ c.range = Start.range

BaselineOf(c) == [has |-> TRUE, energy |-> c.energy, range |-> c.range, time |-> now]

FirstSample ==
  /\ InUse # None /\ Sane(counter[InUse]) /\ ~Comparable(counter[InUse])
  /\ Store(InUse, BaselineOf(counter[InUse]), Unavailable)

Elapsed == now - Start.time

ValidInterval == Elapsed >= MinInterval /\ Elapsed <= MaxInterval

BadInterval ==
  /\ InUse # None /\ Sane(counter[InUse]) /\ Comparable(counter[InUse])
  /\ ~ValidInterval
  /\ Store(InUse, BaselineOf(counter[InUse]), Unavailable)

\* delta_uj, with the counter starting again at most once.
Delta(c) ==
  IF c.energy >= Start.energy THEN c.energy - Start.energy
  ELSE (c.range - Start.energy) + c.energy

Measure ==
  /\ InUse # None /\ Sane(counter[InUse]) /\ Comparable(counter[InUse])
  /\ ValidInterval
  /\ Store(InUse, BaselineOf(counter[InUse]),
           IF Delta(counter[InUse]) > MaxWatts * Elapsed THEN Unavailable
           ELSE [available |-> TRUE, energy |-> Delta(counter[InUse]), time |-> Elapsed])

Sample == NoPackage \/ Unreadable \/ FirstSample \/ BadInterval \/ Measure

Next ==
  \/ Tick \/ Sample
  \/ \E p \in Package : Appear(p) \/ ChangeRange(p) \/ Jump(p)

Spec == Init /\ [][Next]_vars

-----------------------------------------------------------------------------
(* Safety.                                                                 *)

\* A reading is the energy the package spent since the sample before, less one
\* when the counter started again, over the time since then: over no other time,
\* and with no load of another package, an older baseline or another range mixed
\* in.  Only a counter that jumped, or changed its range twice, escapes it, and
\* then the reading is still a plausible one.
ReadingIsTheLoad ==
  reading.available =>
    /\ reading.time = seen.time
    /\ reading.energy <= MaxWatts * reading.time
    /\ ~seen.upset => reading.energy \in {seen.spent - 1, seen.spent}
=============================================================================
