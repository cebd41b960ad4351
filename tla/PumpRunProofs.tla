---------------------------- MODULE PumpRunProofs ----------------------------
(***************************************************************************)
(* For any number of objects, any requests, faults and sources, and any    *)
(* movements of the clock: a run that reports success has accounted for    *)
(* every object, its reports, its archive and its statistics agree, its    *)
(* stage meter divides the wall time, and deduplication lets no duplicate  *)
(* through.                                                                *)
(*                                                                         *)
(* The four follow from one invariant, IInv.  The heart of it is TaskInv:  *)
(* as long as the output is not broken, a task that has ended has left its *)
(* object in exactly one of the ways that a report can tell.  A task that  *)
(* throws breaks the output, and then nothing is promised any more.        *)
(***************************************************************************)
EXTENDS PumpRun, FiniteSetTheorems, TLAPS

Places ==
  {"none", "heap", "start", "gate", "download", "write", "record", "failing", "ended"}
Early == {"none", "heap", "start", "gate", "download", "write"}
Counted == {"gate", "download", "write", "record"}
Outcomes == {"included", "skipped", "omitted", "failed"}

Running == {"start", "gate", "download", "write", "record", "failing"}
Meters == [last : Nat, open : [Stages -> Nat], ms : [Stages \cup {"idle"} -> Nat]]

(* "internal" is not among the verdicts: finish() finds the meter balanced. *)
TypeOK ==
  /\ source \in Sources /\ complete \in BOOLEAN /\ aborted \in BOOLEAN
  /\ listing \in {"idle", "asked", "ended", "failed"}
  /\ received \in Nat /\ yielded \in Nat
  /\ phase \in {"bootstrap", "open", "start", "data", "closing", "final", "settled"}
  /\ verdict \in {"none", "resolved", "rejected"}
  /\ driver \in {"pull", "race", "join", "resolved", "rejected", "spin"}
  /\ at \in [Objects -> Places]
  /\ forgotten \subseteq Objects /\ archive \subseteq Objects
  /\ progress \in [listed : Nat, included : Nat, skipped : Nat]
  /\ ends \in [Objects -> {<<>>} \cup {<<x>> : x \in Outcomes}]
  /\ dest \in {"open", "destroyed", "ended"}
  /\ meter \in Meters
  /\ now \in Nat /\ moves \in Nat

(* What an accepted request leaves of the window. *)
PlanOK ==
  /\ plan.window = NaN \/ plan.window \in 1..16
  /\ plan.dedupe => plan.window \in {NaN, 1}

(* Nothing of the data phase has happened. *)
Untouched ==
  /\ driver = "pull" /\ listing = "idle" /\ now = 0 /\ moves = 0
  /\ \A o \in Objects : at[o] = "none"

PhaseInv ==
  /\ phase = "bootstrap" => \E r \in Requests : request = r[2]
  /\ phase \in {"bootstrap", "open", "start"} => Untouched
  /\ phase \in {"bootstrap", "open", "start", "data"} => dest # "ended"
  /\ phase = "data" /\ plan.window = NaN => plan.priority
  /\ phase \in {"closing", "final"} => driver = "resolved"
  /\ dest = "ended" => phase \in {"final", "settled"} /\ driver = "resolved"
  /\ phase = "final" => dest = "ended"
  /\ verdict = "resolved" => phase = "settled" /\ dest = "ended" /\ stats.progress = progress
  /\ exit = "0" => dest = "ended"
  /\ \/ phase \in {"bootstrap", "settled"} /\ plan = Absent /\ Untouched
     \/ PlanOK

(* The driver stands still while the listing is asked. *)
ListInv ==
  /\ yielded <= received /\ received <= Held
  /\ listing = "asked" => phase = "data" /\ driver = "pull"
  /\ listing = "ended" => yielded = Held \/ (aborted /\ source \in {"gcs", "azure"})

(* The window is kept, and a pool that resolves has nothing left to do. *)
PoolInv ==
  /\ Executing # {} =>
       /\ plan.window \in 1..16
       /\ Cardinality(Executing) <= plan.window
       /\ driver = "pull" => Cardinality(Executing) < plan.window
  /\ Stage("heap") # {} => plan.priority
  /\ driver \in {"join", "resolved"} => Stage("heap") = {} /\ listing = "ended"
  /\ driver = "resolved" => Executing = {}

TaskInv(o) ==
  /\ at[o] = "none" <=> o > yielded
  /\ at[o] \in Early => ends[o] = <<>> /\ o \notin archive /\ o \notin forgotten
  /\ at[o] = "record" => ends[o] = <<>> /\ o \in archive /\ o \notin forgotten
  /\ at[o] = "failing" => o \notin forgotten
  /\ dest # "destroyed" /\ at[o] = "failing" => aborted /\ ends[o] = <<>> /\ o \notin archive
  /\ dest # "destroyed" /\ at[o] = "ended" =>
       \/ driver = "rejected"
       \/ o \in forgotten /\ aborted /\ ends[o] = <<>> /\ o \notin archive
       \/ o \notin forgotten /\ ends[o] = <<"included">> /\ o \in archive
       \/ o \notin forgotten /\ ends[o] \in {<<"skipped">>, <<"omitted">>} /\ o \notin archive

(* Statistics and reports agree at every moment, not only at the end. *)
Reported(outcomes) == {o \in Objects : ends[o] \in {<<x>> : x \in outcomes}}

CountInv ==
  dest # "destroyed" =>
    /\ progress.included = Cardinality(Reported({"included"}))
    /\ progress.skipped = Cardinality(Reported({"skipped", "omitted"}))
    /\ progress.listed = Cardinality({o \in Objects : at[o] \in Counted})
                           + progress.included + progress.skipped

Total(ms) == ms["list"] + ms["download"] + ms["archive"] + ms["idle"]

(* While the clock has only gone forward, the times add up to the last     *)
(* reading; a step back can only make them more.                           *)
MeterInv ==
  /\ meter.open["list"] = (IF listing = "asked" THEN 1 ELSE 0)
  /\ meter.open["download"] = Waiting("download")
  /\ meter.open["archive"] = Waiting("write")
  /\ now <= moves
  /\ Total(meter.ms) >= Scale * meter.last
  /\ now = moves => meter.last <= now /\ Total(meter.ms) = Scale * meter.last

(* With dedupe one task runs at a time, so the names it looks up are all   *)
(* there are.                                                              *)
DedupeInv ==
  plan # Absent /\ plan.dedupe =>
    /\ Executing # {} => driver = "race"
    /\ \A p \in archive :
         (ends[p] # <<>> /\ ends[p][1] = "included") \/ p \in Executing \/ driver = "rejected"
    /\ \A o \in Objects : at[o] \in {"gate", "download", "write"} =>
         \A p \in archive : Name[p] # Name[o]
    /\ \A o, p \in archive : Name[o] = Name[p] => o = p

IInv ==
  /\ TypeOK /\ PhaseInv /\ ListInv /\ PoolInv /\ CountInv /\ MeterInv /\ DedupeInv
  /\ \A o \in Objects : TaskInv(o)

-----------------------------------------------------------------------------
(* The shares of the meter are whole: every weight divides Scale. *)
LEMMA DivExact ==
  ASSUME NEW a \in Nat, NEW w \in Nat \ {0}
  PROVE  (w * a) \div w = a
OBVIOUS

LEMMA Divides ==
  ASSUME NEW w \in 1..16
  PROVE  \E c \in Nat : w * c = Scale
<1>1. \/ w = 1 \/ w = 2 \/ w = 3 \/ w = 4 \/ w = 5 \/ w = 6 \/ w = 7 \/ w = 8
      \/ w = 9 \/ w = 10 \/ w = 11 \/ w = 12 \/ w = 13 \/ w = 14 \/ w = 15 \/ w = 16
  OBVIOUS
<1>2. w * (720720 \div w) = 720720 /\ 720720 \div w \in Nat
  BY <1>1
<1> QED BY <1>2 DEF Scale

LEMMA ShareExact ==
  ASSUME NEW w \in 1..16
  PROVE  \E c \in Nat : w * c = Scale /\ \A p \in Nat : (Scale * p) \div w = c * p
<1>1. PICK c \in Nat : w * c = Scale
  BY Divides
<1>2. ASSUME NEW p \in Nat PROVE (Scale * p) \div w = c * p
  <2>1. Scale * p = w * (c * p)
    BY <1>1
  <2>2. (w * (c * p)) \div w = c * p
    BY DivExact
  <2> QED BY <2>1, <2>2
<1> QED BY <1>1, <1>2

Weight(m) == m.open["list"] + m.open["download"] + m.open["archive"]

(* Advancing attributes exactly the time that has passed. *)
LEMMA MeterAdvances ==
  ASSUME NEW m \in Meters, NEW t \in Nat, Weight(m) <= 16
  PROVE  /\ Advance(m, t) \in Meters
         /\ Advance(m, t).last = t /\ Advance(m, t).open = m.open
         /\ Total(Advance(m, t).ms)
              = Total(m.ms) + (IF t > m.last THEN Scale * (t - m.last) ELSE 0)
<1> DEFINE l == m.open["list"]  d == m.open["download"]  a == m.open["archive"]
           step == IF t > m.last THEN t - m.last ELSE 0
           dt == IF t > m.last THEN Scale * (t - m.last) ELSE 0
           w == l + d + a
           ms(s) == m.ms[s] + IF s = "idle" THEN IF w = 0 THEN dt ELSE 0
                              ELSE IF w = 0 THEN 0 ELSE (dt * m.open[s]) \div w
<1>1. l \in Nat /\ d \in Nat /\ a \in Nat /\ w \in 0..16 /\ m.last \in Nat /\ step \in Nat
  BY DEF Meters, Stages, Weight
<1>2. dt = Scale * step /\ dt \in Nat
  BY <1>1 DEF Scale
<1>3. \A s \in Stages \cup {"idle"} : m.ms[s] \in Nat
  BY DEF Meters
<1>4. Advance(m, t) = [last |-> t, open |-> m.open, ms |-> [s \in Stages \cup {"idle"} |-> ms(s)]]
  <2>1. DOMAIN m.ms = Stages \cup {"idle"} /\ m = [last |-> m.last, open |-> m.open, ms |-> m.ms]
    BY DEF Meters
  <2>2. Advance(m, t) = [m EXCEPT !.last = t, !.ms = [s \in DOMAIN m.ms |-> ms(s)]]
    BY DEF Advance
  <2> HIDE DEF ms
  <2> QED BY <2>1, <2>2
<1> HIDE DEF step, dt, w
<1>5. /\ \A s \in Stages \cup {"idle"} : ms(s) \in Nat
      /\ ms("list") + ms("download") + ms("archive") + ms("idle") = Total(m.ms) + dt
  <2>1. CASE w = 0
    BY <1>2, <1>3, <2>1 DEF Total, Stages
  <2>2. CASE w # 0
    <3>0. w \in 1..16
      BY <1>1, <2>2
    <3>1. PICK c \in Nat : w * c = Scale /\ \A p \in Nat : (Scale * p) \div w = c * p
      BY <3>0, ShareExact
    <3>2. ASSUME NEW k \in Nat PROVE (dt * k) \div w = c * (step * k)
      <4>1. dt * k = Scale * (step * k) /\ step * k \in Nat
        BY <1>1, <1>2, <3>2 DEF Scale
      <4> QED BY <3>1, <4>1
    <3>3. c * (step * l) + c * (step * d) + c * (step * a) = dt
      <4>1. c * (step * l) + c * (step * d) + c * (step * a) = step * (c * (l + d + a))
        BY <1>1
      <4>2. c * (l + d + a) = Scale
        BY <1>1, <3>1 DEF w
      <4>3. step * (c * (l + d + a)) = dt
        BY <1>1, <1>2, <4>2 DEF Scale
      <4> QED BY <4>1, <4>3
    <3>4. /\ ms("list") = m.ms["list"] + c * (step * l)
          /\ ms("download") = m.ms["download"] + c * (step * d)
          /\ ms("archive") = m.ms["archive"] + c * (step * a)
          /\ ms("idle") = m.ms["idle"]
      BY <1>1, <1>3, <2>2, <3>2 DEF Stages
    <3>5. c * (step * l) \in Nat /\ c * (step * d) \in Nat /\ c * (step * a) \in Nat
      BY <1>1
    <3> DEFINE x == c * (step * l)  y == c * (step * d)  z == c * (step * a)
    <3>6. ms("list") + ms("download") + ms("archive") + ms("idle") = Total(m.ms) + dt
      <4>1. x \in Nat /\ y \in Nat /\ z \in Nat /\ x + y + z = dt
        BY <3>3, <3>5
      <4> HIDE DEF x, y, z, ms
      <4> QED BY <1>3, <3>4, <4>1 DEF Total, Stages, x, y, z
    <3>7. \A s \in Stages \cup {"idle"} : ms(s) \in Nat
      <4>1. \A s \in Stages \cup {"idle"} : s = "list" \/ s = "download" \/ s = "archive" \/ s = "idle"
        BY DEF Stages
      <4>2. ms("list") \in Nat /\ ms("download") \in Nat /\ ms("archive") \in Nat /\ ms("idle") \in Nat
        <5> HIDE DEF ms
        <5> QED BY <1>3, <3>4, <3>5 DEF Stages
      <4> HIDE DEF ms
      <4> QED BY <4>1, <4>2
    <3> QED BY <3>6, <3>7
  <2> QED BY <2>1, <2>2
<1> HIDE DEF ms
<1>6. Advance(m, t) \in Meters
  <2>1. m.open \in [Stages -> Nat]
    BY DEF Meters
  <2> QED BY <1>4, <1>5, <2>1 DEF Meters
<1>7. Total(Advance(m, t).ms) = Total(m.ms) + dt
  BY <1>4, <1>5 DEF Total, Stages
<1> QED BY <1>4, <1>6, <1>7 DEF dt

-----------------------------------------------------------------------------
(* Counting: sets that differ in one object. *)
LEMMA OneApart ==
  ASSUME NEW S \in SUBSET Objects, NEW T \in SUBSET Objects, NEW o \in Objects,
         S \ {o} = T \ {o}
  PROVE  /\ Cardinality(S) \in Nat /\ Cardinality(T) \in Nat
         /\ Cardinality(T) = Cardinality(S) + (IF o \in T THEN 1 ELSE 0)
                                            - (IF o \in S THEN 1 ELSE 0)
<1>1. IsFiniteSet(Objects)
  BY ListingAssumption, FS_Interval DEF Objects
<1>2. IsFiniteSet(S) /\ IsFiniteSet(T) /\ Cardinality(S) \in Nat /\ Cardinality(T) \in Nat
  BY <1>1, FS_Subset, FS_CardinalityType
<1>3. Cardinality(S \ {o}) = IF o \in S THEN Cardinality(S) - 1 ELSE Cardinality(S)
  BY <1>2, FS_RemoveElement
<1>4. Cardinality(T \ {o}) = IF o \in T THEN Cardinality(T) - 1 ELSE Cardinality(T)
  BY <1>2, FS_RemoveElement
<1> DEFINE m == Cardinality(S)  n == Cardinality(T)
<1>5. /\ m \in Nat /\ n \in Nat
      /\ (IF o \in S THEN m - 1 ELSE m) = (IF o \in T THEN n - 1 ELSE n)
  BY <1>2, <1>3, <1>4
<1> HIDE DEF m, n
<1>6. n = m + (IF o \in T THEN 1 ELSE 0) - (IF o \in S THEN 1 ELSE 0)
  BY <1>5
<1> QED BY <1>5, <1>6 DEF m, n

(* Sets of objects are finite. *)
LEMMA Sizes ==
  ASSUME NEW S \in SUBSET Objects
  PROVE  IsFiniteSet(S) /\ Cardinality(S) \in Nat /\ (Cardinality(S) = 0 <=> S = {})
<1>1. IsFiniteSet(Objects)
  BY ListingAssumption, FS_Interval DEF Objects
<1> QED BY <1>1, FS_Subset, FS_CardinalityType, FS_EmptySet

LEMMA ExecutingRuns ==
  /\ TypeOK => Executing = {o \in Objects : at[o] \in Running}
  /\ TypeOK' => Executing' = {o \in Objects : at'[o] \in Running}
BY DEF TypeOK, Executing, Running, Places

(* What the move of one object does to the numbers of those in a place. *)
LEMMA MoveCounts ==
  ASSUME TypeOK, NEW o \in Objects, NEW p \in Places, at' = [at EXCEPT ![o] = p]
  PROVE  /\ \A s \in Places :
              /\ Waiting(s) \in Nat /\ Waiting(s)' \in Nat
              /\ Waiting(s)' = Waiting(s) + (IF s = p THEN 1 ELSE 0)
                                          - (IF s = at[o] THEN 1 ELSE 0)
         /\ Cardinality(Executing) \in Nat /\ Cardinality(Executing') \in Nat
         /\ Cardinality(Executing') = Cardinality(Executing)
              + (IF p \in Running THEN 1 ELSE 0) - (IF at[o] \in Running THEN 1 ELSE 0)
<1>1. at \in [Objects -> Places] /\ at' \in [Objects -> Places]
  BY DEF TypeOK
<1>2. ASSUME NEW s \in Places
      PROVE  /\ Waiting(s) \in Nat /\ Waiting(s)' \in Nat
             /\ Waiting(s)' = Waiting(s) + (IF s = p THEN 1 ELSE 0)
                                         - (IF s = at[o] THEN 1 ELSE 0)
  <2> DEFINE S == Stage(s)  T == Stage(s)'
  <2>1. /\ S \in SUBSET Objects /\ T \in SUBSET Objects /\ S \ {o} = T \ {o}
        /\ o \in T <=> s = p
        /\ o \in S <=> s = at[o]
    BY <1>1 DEF Stage
  <2> HIDE DEF S, T
  <2>2. /\ Cardinality(S) \in Nat /\ Cardinality(T) \in Nat
        /\ Cardinality(T) = Cardinality(S) + (IF o \in T THEN 1 ELSE 0)
                                           - (IF o \in S THEN 1 ELSE 0)
    BY <2>1, OneApart
  <2> QED BY <2>1, <2>2 DEF Waiting, S, T
<1>3. /\ Cardinality(Executing) \in Nat /\ Cardinality(Executing') \in Nat
      /\ Cardinality(Executing') = Cardinality(Executing)
           + (IF p \in Running THEN 1 ELSE 0) - (IF at[o] \in Running THEN 1 ELSE 0)
  <2> DEFINE S == Executing  T == Executing'
  <2>1. /\ S \in SUBSET Objects /\ T \in SUBSET Objects /\ S \ {o} = T \ {o}
        /\ o \in T <=> p \in Running
        /\ o \in S <=> at[o] \in Running
    BY <1>1 DEF Executing, Running, Places
  <2> HIDE DEF S, T
  <2>2. /\ Cardinality(S) \in Nat /\ Cardinality(T) \in Nat
        /\ Cardinality(T) = Cardinality(S) + (IF o \in T THEN 1 ELSE 0)
                                           - (IF o \in S THEN 1 ELSE 0)
    BY <2>1, OneApart
  <2> QED BY <2>1, <2>2 DEF S, T
<1> QED BY <1>2, <1>3

-----------------------------------------------------------------------------
LEMMA InitInv == Init => IInv
<1> SUFFICES ASSUME Init PROVE IInv
  OBVIOUS
<1>0. MaxObjects \in Nat /\ Held \in Nat /\ Scale \in Nat
  BY ListingAssumption DEF Held, Scale
<1>1. /\ listing = "idle" /\ yielded = 0 /\ received \in {0, Held} /\ aborted = FALSE
      /\ source \in Sources /\ complete \in BOOLEAN
  BY DEF Init, ListingInit
<1>2. /\ plan = Absent /\ phase = "bootstrap" /\ verdict = "none" /\ driver = "pull"
      /\ at = [o \in Objects |-> "none"] /\ forgotten = {} /\ archive = {}
      /\ progress = [listed |-> 0, included |-> 0, skipped |-> 0]
      /\ ends = [o \in Objects |-> <<>>] /\ dest = "open" /\ meter = NewMeter(0)
      /\ now = 0 /\ moves = 0 /\ exit = "none"
  BY DEF Init
<1>3. /\ meter \in Meters /\ meter.last = 0 /\ Total(meter.ms) = 0
      /\ \A s \in Stages : meter.open[s] = 0
  BY <1>2 DEF NewMeter, Meters, Total, Stages
<1>4. /\ Executing = {} /\ \A s \in Places \ {"none"} : Stage(s) = {}
      /\ Cardinality({}) = 0
  BY <1>2, FS_EmptySet DEF Executing, Stage
<1>5. TypeOK
  <2>1. received \in Nat /\ yielded \in Nat
    BY <1>0, <1>1
  <2>2. /\ at \in [Objects -> Places]
        /\ ends \in [Objects -> {<<>>} \cup {<<x>> : x \in Outcomes}]
    BY <1>2 DEF Places
  <2>3. progress \in [listed : Nat, included : Nat, skipped : Nat]
    BY <1>2
  <2> QED BY <1>1, <1>2, <1>3, <2>1, <2>2, <2>3 DEF TypeOK
<1>6. PhaseInv
  <2>1. \E r \in Requests : request = r[2]
    BY DEF Init
  <2> QED BY <1>1, <1>2, <2>1 DEF PhaseInv, Untouched
<1>7. ListInv /\ PoolInv
  BY <1>0, <1>1, <1>2, <1>4 DEF ListInv, PoolInv, Places
<1>8. CountInv
  <2>1. Reported({"included"}) = {} /\ Reported({"skipped", "omitted"}) = {}
    BY <1>2 DEF Reported
  <2>2. {o \in Objects : at[o] \in Counted} = {}
    BY <1>2 DEF Counted
  <2>3. progress.listed = 0 /\ progress.included = 0 /\ progress.skipped = 0
    BY <1>2
  <2> HIDE DEF Reported
  <2>4. /\ Cardinality(Reported({"included"})) = 0
        /\ Cardinality(Reported({"skipped", "omitted"})) = 0
        /\ Cardinality({o \in Objects : at[o] \in Counted}) = 0
    BY <1>4, <2>1, <2>2
  <2> QED BY <2>3, <2>4 DEF CountInv
<1>9. MeterInv
  <2>1. Waiting("download") = 0 /\ Waiting("write") = 0
    BY <1>4 DEF Waiting, Places
  <2>2. /\ meter.open["list"] = 0 /\ meter.open["download"] = 0 /\ meter.open["archive"] = 0
        /\ Scale * meter.last = 0
    BY <1>0, <1>3 DEF Stages
  <2> QED BY <1>1, <1>2, <1>3, <2>1, <2>2 DEF MeterInv
<1>10. DedupeInv
  BY <1>2 DEF DedupeInv
<1>11. \A o \in Objects : TaskInv(o)
  BY <1>0, <1>1, <1>2 DEF TaskInv, Objects
<1> QED BY <1>5, <1>6, <1>7, <1>8, <1>9, <1>10, <1>11 DEF IInv

(* While a task runs, the run is in its data phase or over, and whatever   *)
(* an end of the run promises is not promised yet.                         *)
LEMMA TaskRuns ==
  ASSUME IInv, NEW o \in Objects, at[o] \in Running
  PROVE  /\ phase \in {"data", "settled"} /\ PlanOK /\ dest # "ended"
         /\ driver \in {"pull", "race", "join", "rejected", "spin"}
         /\ verdict # "resolved" /\ exit # "0"
         /\ plan.window \in 1..16 /\ o <= yielded
         /\ o \in Executing /\ Cardinality(Executing) <= plan.window
         /\ driver = "pull" => Cardinality(Executing) < plan.window
<1>1. at[o] # "none" /\ o \in Executing
  BY ExecutingRuns DEF Running, IInv
<1>2. ~ Untouched
  BY <1>1 DEF Untouched
<1>3. driver # "resolved"
  BY <1>1 DEF IInv, PoolInv
<1>4. /\ plan.window \in 1..16 /\ Cardinality(Executing) <= plan.window
      /\ driver = "pull" => Cardinality(Executing) < plan.window
  BY <1>1 DEF IInv, PoolInv
<1>5. /\ phase \in {"data", "settled"} /\ PlanOK /\ dest # "ended"
      /\ verdict # "resolved" /\ exit # "0"
  BY <1>2, <1>3 DEF IInv, PhaseInv, TypeOK
<1>6. driver \in {"pull", "race", "join", "rejected", "spin"}
  BY <1>3 DEF IInv, TypeOK
<1>7. o <= yielded
  BY <1>1 DEF IInv, TaskInv, TypeOK, Objects
<1> QED BY <1>1, <1>3, <1>4, <1>5, <1>6, <1>7

(* What no task touches. *)
Frame == UNCHANGED <<listingVars, plan, phase, verdict, now, moves, stats, exit>>

(* How the driver may take the move of a task to place p. *)
DriverTakes(o, p) ==
  \/ driver' = driver
  \/ p = "ended" /\ driver = "race" /\ driver' \in {"pull", "rejected"}
  \/ p = "ended" /\ driver = "join" /\ driver' = "rejected"
  \/ p = "ended" /\ driver = "join" /\ Executing = {o} /\ driver' = "resolved"

(* The engine, the listing and the window after the move of a task. *)
LEMMA TaskFrame ==
  ASSUME IInv, NEW o \in Objects, at[o] \in Running,
         NEW p \in (Running \cup {"ended"}) \ {"start"}, at' = [at EXCEPT ![o] = p],
         Frame,
         DriverTakes(o, p), dest' \in {dest, "destroyed"}
  PROVE  PhaseInv' /\ ListInv' /\ PoolInv'
<1>1. /\ phase \in {"data", "settled"} /\ PlanOK /\ dest # "ended"
      /\ driver \in {"pull", "race", "join", "rejected", "spin"}
      /\ verdict # "resolved" /\ exit # "0"
      /\ plan.window \in 1..16 /\ o \in Executing /\ Cardinality(Executing) <= plan.window
      /\ driver = "pull" => Cardinality(Executing) < plan.window
  BY TaskRuns
<1>2. TypeOK /\ p \in Places
  BY DEF IInv, Running, Places
<1>3. /\ source' = source /\ complete' = complete /\ listing' = listing /\ received' = received
      /\ yielded' = yielded /\ aborted' = aborted /\ plan' = plan /\ phase' = phase
      /\ verdict' = verdict /\ now' = now /\ moves' = moves /\ stats' = stats /\ exit' = exit
  BY DEF Frame, listingVars
<1>4. PhaseInv'
  <2>1. PlanOK'
    BY <1>1, <1>3 DEF PlanOK
  <2>2. phase = "data" /\ plan.window = NaN => plan.priority
    BY DEF IInv, PhaseInv
  <2> QED BY <1>1, <1>3, <2>1, <2>2 DEF PhaseInv
<1>5. ListInv'
  <2>1. listing = "asked" => phase = "data" /\ driver = "pull"
    BY DEF IInv, ListInv
  <2>2. driver = "pull" => driver' = "pull"
    BY DEF DriverTakes
  <2> QED BY <1>3, <2>1, <2>2 DEF IInv, ListInv, Held
<1>6. PoolInv'
  <2>1. Stage("heap")' = Stage("heap")
    BY <1>2 DEF Stage, TypeOK, Running
  <2>2. /\ Cardinality(Executing) \in Nat /\ Cardinality(Executing') \in Nat
        /\ Cardinality(Executing')
             = IF p = "ended" THEN Cardinality(Executing) - 1 ELSE Cardinality(Executing)
    <3>1. /\ Cardinality(Executing) \in Nat /\ Cardinality(Executing') \in Nat
          /\ Cardinality(Executing') = Cardinality(Executing)
               + (IF p \in Running THEN 1 ELSE 0) - (IF at[o] \in Running THEN 1 ELSE 0)
      BY <1>2, MoveCounts
    <3>2. p \in Running <=> p # "ended"
      BY DEF Running
    <3> QED BY <3>1, <3>2
  <2>3. Executing' = IF p = "ended" THEN Executing \ {o} ELSE Executing
    BY <1>2 DEF Executing, TypeOK, Running
  <2>4. /\ Stage("heap") # {} => plan.priority
        /\ driver \in {"join", "resolved"} => Stage("heap") = {} /\ listing = "ended"
    BY DEF IInv, PoolInv
  <2>5. Cardinality(Executing') <= plan.window
    BY <1>1, <2>2
  <2>6. driver' = "pull" => Cardinality(Executing') < plan.window
    BY <1>1, <2>2 DEF DriverTakes
  <2>7. /\ driver' \in {"join", "resolved"} => driver \in {"join", "resolved"}
        /\ driver' = "resolved" => Executing' = {}
    BY <1>1, <2>3 DEF DriverTakes
  <2> QED BY <1>1, <1>3, <2>1, <2>4, <2>5, <2>6, <2>7 DEF PoolInv
<1> QED BY <1>4, <1>5, <1>6

(* The step of a task preserves the invariant, given what it does to the   *)
(* task itself, the counts, the meter and the names.                       *)
LEMMA TaskStep ==
  ASSUME IInv, NEW o \in Objects, at[o] \in Running,
         NEW p \in (Running \cup {"ended"}) \ {"start"}, at' = [at EXCEPT ![o] = p],
         NEW e \in {<<>>} \cup {<<x>> : x \in Outcomes}, ends' = [ends EXCEPT ![o] = e],
         Frame,
         DriverTakes(o, p), dest' \in {dest, "destroyed"},
         archive' \subseteq Objects, archive' \ {o} = archive \ {o},
         forgotten' \subseteq Objects, forgotten' \ {o} = forgotten \ {o},
         progress' \in [listed : Nat, included : Nat, skipped : Nat],
         meter' \in Meters, TaskInv(o)', CountInv', MeterInv', DedupeInv'
  PROVE  IInv'
<1>1. PhaseInv' /\ ListInv' /\ PoolInv'
  BY TaskFrame
<1>2. TypeOK'
  <2>1. TypeOK /\ at' \in [Objects -> Places]
        /\ ends' \in [Objects -> {<<>>} \cup {<<x>> : x \in Outcomes}]
    BY DEF IInv, TypeOK, Running, Places
  <2>2. driver' \in {"pull", "race", "join", "resolved", "rejected", "spin"}
    BY <2>1 DEF DriverTakes, TypeOK
  <2>3. /\ source' \in Sources /\ complete' \in BOOLEAN /\ aborted' \in BOOLEAN
        /\ listing' \in {"idle", "asked", "ended", "failed"}
        /\ received' \in Nat /\ yielded' \in Nat
        /\ phase' \in {"bootstrap", "open", "start", "data", "closing", "final", "settled"}
        /\ verdict' \in {"none", "resolved", "rejected"}
        /\ dest' \in {"open", "destroyed", "ended"}
        /\ now' \in Nat /\ moves' \in Nat
    BY <2>1 DEF Frame, TypeOK, listingVars
  <2> QED BY <2>1, <2>2, <2>3 DEF TypeOK
<1>3. ASSUME NEW x \in Objects, x # o PROVE TaskInv(x)'
  <2>1. TypeOK /\ TaskInv(x)
    BY DEF IInv
  <2>2. at'[x] = at[x] /\ ends'[x] = ends[x] /\ yielded' = yielded /\ aborted' = aborted
    BY <1>3, <2>1 DEF Frame, TypeOK, listingVars
  <2>3. (x \in archive' <=> x \in archive) /\ (x \in forgotten' <=> x \in forgotten)
    BY <1>3
  <2>4. dest' # "destroyed" => dest # "destroyed"
    OBVIOUS
  <2>5. driver = "rejected" => driver' = "rejected"
    BY DEF DriverTakes
  <2> QED BY <2>1, <2>2, <2>3, <2>4, <2>5 DEF TaskInv
<1>4. \A x \in Objects : TaskInv(x)'
  BY <1>3
<1> QED BY <1>1, <1>2, <1>4 DEF IInv

(* What an object counts for: written, skipped, or still in hand. *)
Inc(e) == IF e = <<"included">> THEN 1 ELSE 0
Skp(e) == IF e \in {<<"skipped">>, <<"omitted">>} THEN 1 ELSE 0
Cnt(p) == IF p \in Counted THEN 1 ELSE 0

(* The statistics of a task that goes to p, and is reported as e. *)
Tallied(o, p, e) ==
  /\ progress'.included = progress.included + Inc(e) - Inc(ends[o])
  /\ progress'.skipped = progress.skipped + Skp(e) - Skp(ends[o])
  /\ progress'.listed = progress.listed + Cnt(p) - Cnt(at[o])
       + Inc(e) - Inc(ends[o]) + Skp(e) - Skp(ends[o])

(* The statistics follow the reports. *)
LEMMA CountStep ==
  ASSUME TypeOK, CountInv, NEW o \in Objects,
         NEW p \in Places, at' = [at EXCEPT ![o] = p],
         NEW e \in {<<>>} \cup {<<x>> : x \in Outcomes}, ends' = [ends EXCEPT ![o] = e],
         dest' \in {dest, "destroyed"},
         dest' # "destroyed" => Tallied(o, p, e)
  PROVE  CountInv'
<1> SUFFICES ASSUME dest' # "destroyed"
             PROVE  /\ progress'.included = Cardinality(Reported({"included"})')
                    /\ progress'.skipped = Cardinality(Reported({"skipped", "omitted"})')
                    /\ progress'.listed = Cardinality({x \in Objects : at'[x] \in Counted})
                                            + progress'.included + progress'.skipped
  BY DEF CountInv
<1> DEFINE I == Reported({"included"})  J == Reported({"included"})'
           S == Reported({"skipped", "omitted"})  T == Reported({"skipped", "omitted"})'
           C == {x \in Objects : at[x] \in Counted}  D == {x \in Objects : at'[x] \in Counted}
<1>1. /\ I \in SUBSET Objects /\ J \in SUBSET Objects /\ I \ {o} = J \ {o}
      /\ o \in J <=> e = <<"included">>
      /\ o \in I <=> ends[o] = <<"included">>
  BY DEF Reported, TypeOK
<1>2. /\ S \in SUBSET Objects /\ T \in SUBSET Objects /\ S \ {o} = T \ {o}
      /\ o \in T <=> e \in {<<"skipped">>, <<"omitted">>}
      /\ o \in S <=> ends[o] \in {<<"skipped">>, <<"omitted">>}
  BY DEF Reported, TypeOK
<1>3. /\ C \in SUBSET Objects /\ D \in SUBSET Objects /\ C \ {o} = D \ {o}
      /\ o \in D <=> p \in Counted
      /\ o \in C <=> at[o] \in Counted
  BY DEF TypeOK
<1>4. /\ progress.included = Cardinality(I)
      /\ progress.skipped = Cardinality(S)
      /\ progress.listed = Cardinality(C) + progress.included + progress.skipped
  BY DEF CountInv
<1> HIDE DEF I, J, S, T, C, D
<1>5. /\ Cardinality(I) \in Nat /\ Cardinality(J) \in Nat
      /\ Cardinality(J) = Cardinality(I) + Inc(e) - Inc(ends[o])
  BY <1>1, OneApart DEF Inc
<1>6. /\ Cardinality(S) \in Nat /\ Cardinality(T) \in Nat
      /\ Cardinality(T) = Cardinality(S) + Skp(e) - Skp(ends[o])
  BY <1>2, OneApart DEF Skp
<1>7. /\ Cardinality(C) \in Nat /\ Cardinality(D) \in Nat
      /\ Cardinality(D) = Cardinality(C) + Cnt(p) - Cnt(at[o])
  BY <1>3, OneApart DEF Cnt
<1>8. /\ Inc(e) \in Nat /\ Inc(ends[o]) \in Nat /\ Skp(e) \in Nat /\ Skp(ends[o]) \in Nat
      /\ Cnt(p) \in Nat /\ Cnt(at[o]) \in Nat
  BY DEF Inc, Skp, Cnt
<1> DEFINE i == Cardinality(I)  j == Cardinality(J)  s == Cardinality(S)  t == Cardinality(T)
           c == Cardinality(C)  d == Cardinality(D)
<1>9. progress'.included = j /\ progress'.skipped = t
      /\ progress'.listed = d + progress'.included + progress'.skipped
  <2>1. i \in Nat /\ j \in Nat /\ j = i + Inc(e) - Inc(ends[o]) /\ progress.included = i
    BY <1>4, <1>5
  <2>2. s \in Nat /\ t \in Nat /\ t = s + Skp(e) - Skp(ends[o]) /\ progress.skipped = s
    BY <1>4, <1>6
  <2>3. c \in Nat /\ d \in Nat /\ d = c + Cnt(p) - Cnt(at[o])
        /\ progress.listed = c + progress.included + progress.skipped
    BY <1>4, <1>7
  <2>4. /\ progress'.included = progress.included + Inc(e) - Inc(ends[o])
        /\ progress'.skipped = progress.skipped + Skp(e) - Skp(ends[o])
        /\ progress'.listed = progress.listed + Cnt(p) - Cnt(at[o])
             + Inc(e) - Inc(ends[o]) + Skp(e) - Skp(ends[o])
    BY DEF Tallied
  <2> HIDE DEF i, j, s, t, c, d
  <2>5. progress'.included = j /\ progress'.skipped = t
    BY <1>8, <2>1, <2>2, <2>4
  <2>6. progress'.listed = d + progress'.included + progress'.skipped
    <3> DEFINE q == Cnt(p)  r == Cnt(at[o])  u == Inc(e)  v == Inc(ends[o])
               f == Skp(e)  g == Skp(ends[o])
               y == progress'.listed
    <3>1. y = (c + i + s) + q - r + u - v + f - g
      BY <2>1, <2>2, <2>3, <2>4
    <3>2. /\ c \in Nat /\ i \in Nat /\ s \in Nat
          /\ q \in Nat /\ r \in Nat /\ u \in Nat /\ v \in Nat /\ f \in Nat /\ g \in Nat
          /\ d = c + q - r /\ j = i + u - v /\ t = s + f - g
      BY <1>8, <2>1, <2>2, <2>3
    <3>3. y = d + j + t
      <4> HIDE DEF q, r, u, v, f, g, y
      <4> QED BY ONLY <3>1, <3>2
    <3> QED BY <2>5, <3>3
  <2> QED BY <2>5, <2>6
<1> QED BY <1>9 DEF J, T, D

-----------------------------------------------------------------------------
(* The meter.  It is never in more than 16 stages at a time. *)
LEMMA WeightBound == IInv => Weight(meter) <= 16 /\ Weight(meter) \in Nat
<1> SUFFICES ASSUME IInv PROVE Weight(meter) <= 16 /\ Weight(meter) \in Nat
  OBVIOUS
<1> DEFINE D == Stage("download")  W == Stage("write")  E == Executing
<1>1. /\ meter.open["list"] = (IF listing = "asked" THEN 1 ELSE 0)
      /\ meter.open["download"] = Cardinality(D)
      /\ meter.open["archive"] = Cardinality(W)
  BY DEF IInv, MeterInv, Waiting
<1>2. /\ D \in SUBSET Objects /\ W \in SUBSET Objects /\ E \in SUBSET Objects
      /\ D \cap W = {} /\ D \cup W \subseteq E
  BY DEF Stage, Executing
<1>3. listing = "asked" => driver = "pull"
  BY DEF IInv, ListInv
<1>4. E # {} => /\ plan.window \in 1..16
                /\ Cardinality(E) <= plan.window
                /\ driver = "pull" => Cardinality(E) < plan.window
  BY DEF IInv, PoolInv
<1> HIDE DEF D, W, E
<1>5. /\ IsFiniteSet(D) /\ IsFiniteSet(W) /\ IsFiniteSet(E)
      /\ Cardinality(D) \in Nat /\ Cardinality(W) \in Nat /\ Cardinality(E) \in Nat
      /\ E = {} => Cardinality(E) = 0
  BY <1>2, Sizes
<1>6. Cardinality(D) + Cardinality(W) <= Cardinality(E)
  <2>1. Cardinality(D \cup W) = Cardinality(D) + Cardinality(W) - Cardinality(D \cap W)
    BY <1>5, FS_Union
  <2>2. Cardinality(D \cap W) = 0
    BY <1>2, FS_EmptySet
  <2>3. Cardinality(D \cup W) <= Cardinality(E)
    BY <1>2, <1>5, FS_Subset
  <2> DEFINE u == Cardinality(D \cup W)  v == Cardinality(D \cap W)
             d == Cardinality(D)  w == Cardinality(W)  n == Cardinality(E)
  <2>4. d \in Nat /\ w \in Nat /\ n \in Nat /\ u = d + w - v /\ v = 0 /\ u <= n
    BY <1>5, <2>1, <2>2, <2>3
  <2> HIDE DEF u, v, d, w, n
  <2>5. d + w <= n
    BY <2>4
  <2> QED BY <2>5 DEF d, w, n
<1> DEFINE d == Cardinality(D)  w == Cardinality(W)  n == Cardinality(E)
<1>7. /\ d \in Nat /\ w \in Nat /\ n \in Nat /\ d + w <= n
      /\ listing = "asked" => n < 16
      /\ n <= 16
  BY <1>3, <1>4, <1>5, <1>6
<1>8. meter.open["download"] = d /\ meter.open["archive"] = w
  BY <1>1
<1> HIDE DEF d, w, n
<1> QED BY <1>1, <1>7, <1>8 DEF Weight

LEMMA MeterEnters ==
  ASSUME NEW m \in Meters, NEW t \in Nat, Weight(m) <= 16, NEW s \in Stages
  PROVE  /\ Enter(m, s, t) \in Meters
         /\ Enter(m, s, t).last = t /\ Enter(m, s, t).ms = Advance(m, t).ms
         /\ Enter(m, s, t).open = [m.open EXCEPT ![s] = @ + 1]
<1> DEFINE a == Advance(m, t)
<1>1. a \in Meters /\ a.last = t /\ a.open = m.open
  BY MeterAdvances
<1>2. Enter(m, s, t) = [a EXCEPT !.open[s] = @ + 1]
  BY DEF Enter
<1> HIDE DEF a
<1>3. a = [last |-> a.last, open |-> a.open, ms |-> a.ms] /\ a.open \in [Stages -> Nat]
  BY <1>1 DEF Meters
<1>4. Enter(m, s, t) = [last |-> a.last, open |-> [a.open EXCEPT ![s] = @ + 1], ms |-> a.ms]
  BY <1>2, <1>3
<1>5. [a.open EXCEPT ![s] = @ + 1] \in [Stages -> Nat]
  BY <1>3
<1>6. Enter(m, s, t) \in Meters
  BY <1>1, <1>4, <1>5 DEF Meters
<1> QED BY <1>1, <1>4, <1>6 DEF a

LEMMA MeterLeaves ==
  ASSUME NEW m \in Meters, NEW t \in Nat, Weight(m) <= 16, NEW s \in Stages, m.open[s] > 0
  PROVE  /\ Leave(m, s, t) \in Meters
         /\ Leave(m, s, t).last = t /\ Leave(m, s, t).ms = Advance(m, t).ms
         /\ Leave(m, s, t).open = [m.open EXCEPT ![s] = @ - 1]
<1> DEFINE a == Advance(m, t)
<1>1. a \in Meters /\ a.last = t /\ a.open = m.open
  BY MeterAdvances
<1>2. Leave(m, s, t) = [a EXCEPT !.open[s] = @ - 1]
  BY DEF Leave
<1> HIDE DEF a
<1>3. a = [last |-> a.last, open |-> a.open, ms |-> a.ms] /\ a.open \in [Stages -> Nat]
  BY <1>1 DEF Meters
<1>4. Leave(m, s, t) = [last |-> a.last, open |-> [a.open EXCEPT ![s] = @ - 1], ms |-> a.ms]
  BY <1>2, <1>3
<1>5. [a.open EXCEPT ![s] = @ - 1] \in [Stages -> Nat]
  <2>1. a.open[s] - 1 \in Nat
    BY <1>1, <1>3
  <2> QED BY <1>3, <2>1
<1>6. Leave(m, s, t) \in Meters
  BY <1>1, <1>4, <1>5 DEF Meters
<1> QED BY <1>1, <1>4, <1>6 DEF a

(* Moving from one stage to another attributes the time once. *)
LEMMA MeterMoves ==
  ASSUME NEW m \in Meters, NEW t \in Nat, Weight(m) <= 16, NEW r \in Stages, NEW s \in Stages,
         r # s, m.open[r] > 0
  PROVE  /\ Move(m, r, s, t) \in Meters
         /\ Move(m, r, s, t).last = t
         /\ Total(Move(m, r, s, t).ms) = Total(Advance(m, t).ms)
         /\ Move(m, r, s, t).open = [m.open EXCEPT ![r] = @ - 1, ![s] = @ + 1]
<1> DEFINE l == Leave(m, r, t)
<1>1. /\ l \in Meters /\ l.last = t /\ l.ms = Advance(m, t).ms
      /\ l.open = [m.open EXCEPT ![r] = @ - 1]
  BY MeterLeaves
<1> HIDE DEF l
<1>2. Weight(l) <= 16
  BY <1>1 DEF Weight, Meters, Stages
<1>3. /\ Enter(l, s, t) \in Meters
      /\ Enter(l, s, t).last = t /\ Enter(l, s, t).ms = Advance(l, t).ms
      /\ Enter(l, s, t).open = [l.open EXCEPT ![s] = @ + 1]
  BY <1>1, <1>2, MeterEnters
<1>4. Total(Advance(l, t).ms) = Total(l.ms)
  <2>1. Total(Advance(l, t).ms) = Total(l.ms) + 0
    BY <1>1, <1>2, MeterAdvances
  <2>2. Total(l.ms) \in Nat
    BY <1>1 DEF Total, Meters, Stages
  <2> QED BY <2>1, <2>2
<1>5. [l.open EXCEPT ![s] = @ + 1] = [m.open EXCEPT ![r] = @ - 1, ![s] = @ + 1]
  BY <1>1 DEF Meters
<1> QED BY <1>1, <1>3, <1>4, <1>5 DEF Move, l

(* Whatever the meter is told, it has accounted for the time up to now. *)
LEMMA MeterStep ==
  ASSUME IInv, UNCHANGED <<now, moves>>, meter' \in Meters, meter'.last = now,
         Total(meter'.ms) = Total(Advance(meter, now).ms),
         meter'.open["list"] = (IF listing' = "asked" THEN 1 ELSE 0),
         meter'.open["download"] = Waiting("download")',
         meter'.open["archive"] = Waiting("write")'
  PROVE  MeterInv'
<1>1. Weight(meter) <= 16 /\ meter \in Meters /\ now \in Nat /\ moves \in Nat /\ MeterInv
  BY WeightBound DEF IInv, TypeOK
<1>2. Total(meter'.ms)
        = Total(meter.ms) + (IF now > meter.last THEN Scale * (now - meter.last) ELSE 0)
  BY <1>1, MeterAdvances
<1>3. meter.last \in Nat /\ Total(meter.ms) \in Nat
  BY <1>1 DEF Meters, Total, Stages
<1>4. /\ Total(meter.ms) >= Scale * meter.last
      /\ now = moves => meter.last <= now /\ Total(meter.ms) = Scale * meter.last
      /\ now <= moves
  BY <1>1 DEF MeterInv
<1> DEFINE x == Total(meter.ms)  y == Total(meter'.ms)  l == meter.last
<1>5. y >= Scale * now /\ (now = moves => y = Scale * now)
  <2>1. /\ l \in Nat /\ x \in Nat /\ y = x + (IF now > l THEN Scale * (now - l) ELSE 0)
        /\ x >= Scale * l
        /\ now = moves => l <= now /\ x = Scale * l
    BY <1>2, <1>3, <1>4
  <2> HIDE DEF x, y, l
  <2> QED BY <1>1, <2>1 DEF Scale
<1>6. /\ Total(meter.ms)' >= Scale * meter'.last /\ now' <= moves'
      /\ now' = moves' => meter'.last <= now' /\ Total(meter.ms)' = Scale * meter'.last
  <2>1. Total(meter.ms)' = y
    BY DEF Total
  <2> HIDE DEF y
  <2> QED BY <1>1, <1>4, <1>5, <2>1
<1> HIDE DEF y
<1> QED BY <1>6 DEF MeterInv

(* Untouched it stays right, as long as nobody enters or leaves. *)
LEMMA MeterUntouched ==
  ASSUME MeterInv, UNCHANGED <<meter, now, moves, listing>>,
         Waiting("download")' = Waiting("download"), Waiting("write")' = Waiting("write")
  PROVE  MeterInv'
BY DEF MeterInv, Total

-----------------------------------------------------------------------------
(* With dedupe a task runs alone: it finds the names of all that went      *)
(* before it.                                                              *)
LEMMA DedupeStep ==
  ASSUME IInv, NEW o \in Objects, at[o] \in Running,
         NEW p \in (Running \cup {"ended"}) \ {"start"}, at' = [at EXCEPT ![o] = p],
         NEW e \in {<<>>} \cup {<<x>> : x \in Outcomes}, ends' = [ends EXCEPT ![o] = e],
         plan' = plan, DriverTakes(o, p),
         \/ archive' = archive
         \/ archive' = archive \cup {o} /\ at[o] = "write",
         o \in archive' => e = <<"included">> \/ p # "ended" \/ driver' = "rejected"
                             \/ driver # "race",
         p \in {"gate", "download", "write"} =>
           /\ archive' = archive
           /\ at[o] \in {"gate", "download"} \/ (at[o] = "start" /\ (plan.dedupe => Name[o] \notin Seen))
  PROVE  DedupeInv'
<1> SUFFICES ASSUME plan # Absent, plan.dedupe
             PROVE  /\ Executing' # {} => driver' = "race"
                    /\ \A x \in archive' :
                         \/ ends'[x] # <<>> /\ ends'[x][1] = "included"
                         \/ x \in Executing' \/ driver' = "rejected"
                    /\ \A x \in Objects : at'[x] \in {"gate", "download", "write"} =>
                         \A y \in archive' : Name[y] # Name[x]
                    /\ \A x, y \in archive' : Name[x] = Name[y] => x = y
  BY DEF DedupeInv
<1>1. TypeOK /\ PlanOK /\ plan.window \in 1..16 /\ o \in Executing
      /\ Cardinality(Executing) <= plan.window
  BY TaskRuns DEF IInv
<1>2. plan.window = 1
  <2>1. NaN \notin Int
    BY OptionAssumption
  <2> QED BY <1>1, <2>1 DEF PlanOK
<1>3. Executing = {o}
  <2>1. Executing \in SUBSET Objects /\ Executing \ {o} \in SUBSET Objects
    BY DEF Executing
  <2>2. Cardinality(Executing \ {o}) = Cardinality(Executing) - 1
    BY <1>1, <2>1, Sizes, FS_RemoveElement
  <2>3. Cardinality(Executing) \in Nat /\ Cardinality(Executing \ {o}) \in Nat
    BY <2>1, Sizes
  <2> DEFINE m == Cardinality(Executing)  n == Cardinality(Executing \ {o})
  <2>4. n = 0
    <3>1. m \in Nat /\ n \in Nat /\ n = m - 1 /\ m <= 1
      BY <1>1, <1>2, <2>2, <2>3
    <3> HIDE DEF m, n
    <3> QED BY <3>1
  <2>5. Executing \ {o} = {}
    BY <2>1, <2>4, Sizes
  <2> QED BY <1>1, <2>5
<1>4. /\ driver = "race"
      /\ \A x \in archive : \/ ends[x] # <<>> /\ ends[x][1] = "included"
                            \/ x = o
      /\ \A x \in Objects : at[x] \in {"gate", "download", "write"} =>
           \A y \in archive : Name[y] # Name[x]
      /\ \A x, y \in archive : Name[x] = Name[y] => x = y
  <2>1. DedupeInv
    BY DEF IInv
  <2>2. driver = "race"
    BY <1>3, <2>1 DEF DedupeInv
  <2> QED BY <1>3, <2>1, <2>2 DEF DedupeInv
<1>5. /\ at' \in [Objects -> Places]
      /\ \A x \in Objects \ {o} : at'[x] = at[x] /\ ends'[x] = ends[x]
      /\ at'[o] = p /\ ends'[o] = e
      /\ archive \subseteq Objects /\ archive' \subseteq Objects
  BY <1>1 DEF TypeOK, Running, Places
<1>6. Executing' = IF p = "ended" THEN {} ELSE {o}
  <2>1. \A x \in Objects \ {o} : at[x] \in {"none", "heap", "ended"}
    BY <1>3 DEF Executing
  <2>2. Executing' = {x \in Objects : at'[x] \notin {"none", "heap", "ended"}}
    BY DEF Executing
  <2>3. p \notin {"none", "heap"}
    BY DEF Running
  <2> QED BY <1>5, <2>1, <2>2, <2>3
<1>7. driver' = "race" \/ p = "ended"
  BY <1>4 DEF DriverTakes
<1>8. ASSUME NEW x \in archive'
      PROVE  \/ ends'[x] # <<>> /\ ends'[x][1] = "included"
             \/ x \in Executing' \/ driver' = "rejected"
  <2>1. CASE x = o
    BY <1>4, <1>5, <1>6, <2>1
  <2>2. CASE x # o
    <3>1. x \in archive /\ x \in Objects
      BY <1>5, <2>2
    <3> QED BY <1>4, <1>5, <2>2, <3>1
  <2> QED BY <2>1, <2>2
<1>9. ASSUME NEW x \in Objects, at'[x] \in {"gate", "download", "write"}, NEW y \in archive'
      PROVE  Name[y] # Name[x]
  <2>1. x = o
    <3>1. \A z \in Objects \ {o} : at[z] \in {"none", "heap", "ended"}
      BY <1>3 DEF Executing
    <3> QED BY <1>5, <1>9, <3>1
  <2>2. y \in archive
    BY <1>5, <1>9, <2>1
  <2>3. CASE at[o] \in {"gate", "download"}
    BY <1>4, <2>1, <2>2, <2>3
  <2>4. CASE at[o] = "start" /\ Name[o] \notin Seen
    <3>1. o \notin archive
      BY <2>4 DEF IInv, TaskInv, Early
    <3>2. ends[y] # <<>> /\ ends[y][1] = "included" /\ y \in Objects
      BY <1>4, <1>5, <2>2, <3>1
    <3>3. Name[y] \in Seen
      BY <3>2 DEF Seen
    <3> QED BY <2>1, <2>4, <3>3
  <2> QED BY <1>5, <1>9, <2>1, <2>3, <2>4
<1>10. ASSUME NEW x \in archive', NEW y \in archive', Name[x] = Name[y]
       PROVE  x = y
  <2>1. CASE archive' = archive
    BY <1>4, <1>10, <2>1
  <2>2. CASE archive' = archive \cup {o} /\ at[o] = "write"
    BY <1>4, <1>10, <2>2
  <2> QED BY <2>1, <2>2
<1> QED BY <1>6, <1>7, <1>8, <1>9, <1>10

(* The meter when a task moves between places that it does not time, and   *)
(* when one enters or leaves a place that it does.                         *)
LEMMA MeterIdle ==
  ASSUME IInv, NEW o \in Objects, NEW p \in Places, at' = [at EXCEPT ![o] = p],
         at[o] \notin {"download", "write"}, p \notin {"download", "write"},
         Frame, meter' = meter
  PROVE  meter' \in Meters /\ MeterInv'
<1>1. TypeOK /\ MeterInv
  BY DEF IInv
<1>2. /\ Waiting("download")' = Waiting("download") /\ Waiting("write")' = Waiting("write")
  <2>1. "download" \in Places /\ "write" \in Places
    BY DEF Places
  <2>2. \A s \in Places :
          /\ Waiting(s) \in Nat /\ Waiting(s)' \in Nat
          /\ Waiting(s)' = Waiting(s) + (IF s = p THEN 1 ELSE 0) - (IF s = at[o] THEN 1 ELSE 0)
    BY <1>1, MoveCounts
  <2> QED BY <2>1, <2>2
<1>3. UNCHANGED <<meter, now, moves, listing>>
  BY DEF Frame, listingVars
<1> QED BY <1>1, <1>2, <1>3, MeterUntouched DEF TypeOK

LEMMA MeterOfLeaving ==
  ASSUME IInv, NEW o \in Objects, NEW p \in Places, at' = [at EXCEPT ![o] = p],
         p \notin {"download", "write"}, Frame,
         \/ at[o] = "download" /\ meter' = Leave(meter, "download", now)
         \/ at[o] = "write" /\ meter' = Leave(meter, "archive", now)
  PROVE  meter' \in Meters /\ MeterInv'
<1>1. TypeOK /\ MeterInv /\ meter \in Meters /\ now \in Nat /\ Weight(meter) <= 16
  BY WeightBound DEF IInv, TypeOK
<1>2. "download" \in Places /\ "write" \in Places
  BY DEF Places
<1>3. \A s \in Places :
        /\ Waiting(s) \in Nat /\ Waiting(s)' \in Nat
        /\ Waiting(s)' = Waiting(s) + (IF s = p THEN 1 ELSE 0) - (IF s = at[o] THEN 1 ELSE 0)
  BY <1>1, MoveCounts
<1>4. now' = now /\ moves' = moves /\ listing' = listing
  BY DEF Frame, listingVars
<1>5. /\ meter.open["list"] = (IF listing = "asked" THEN 1 ELSE 0)
      /\ meter.open["download"] = Waiting("download")
      /\ meter.open["archive"] = Waiting("write")
      /\ meter.open \in [Stages -> Nat]
  BY <1>1 DEF MeterInv, Meters
<1>6. CASE at[o] = "download" /\ meter' = Leave(meter, "download", now)
  <2>1. /\ Waiting("download")' = Waiting("download") - 1 /\ Waiting("write")' = Waiting("write")
        /\ Waiting("download") > 0
    BY <1>2, <1>3, <1>6
  <2>2. /\ meter' \in Meters /\ meter'.last = now
        /\ meter'.ms = Advance(meter, now).ms
        /\ meter'.open = [meter.open EXCEPT !["download"] = @ - 1]
    <3>1. "download" \in Stages /\ meter.open["download"] > 0
      BY <1>5, <2>1 DEF Stages
    <3> QED BY <1>1, <1>6, <3>1, MeterLeaves
  <2>3. /\ meter'.open["list"] = (IF listing' = "asked" THEN 1 ELSE 0)
        /\ meter'.open["download"] = Waiting("download")'
        /\ meter'.open["archive"] = Waiting("write")'
    BY <1>4, <1>5, <2>1, <2>2 DEF Stages
  <2>4. Total(meter'.ms) = Total(Advance(meter, now).ms)
    BY <2>2
  <2> QED BY <1>4, <2>2, <2>3, <2>4, MeterStep
<1>7. CASE at[o] = "write" /\ meter' = Leave(meter, "archive", now)
  <2>1. /\ Waiting("write")' = Waiting("write") - 1 /\ Waiting("download")' = Waiting("download")
        /\ Waiting("write") > 0
    BY <1>2, <1>3, <1>7
  <2>2. /\ meter' \in Meters /\ meter'.last = now
        /\ meter'.ms = Advance(meter, now).ms
        /\ meter'.open = [meter.open EXCEPT !["archive"] = @ - 1]
    <3>1. "archive" \in Stages /\ meter.open["archive"] > 0
      BY <1>5, <2>1 DEF Stages
    <3> QED BY <1>1, <1>7, <3>1, MeterLeaves
  <2>3. /\ meter'.open["list"] = (IF listing' = "asked" THEN 1 ELSE 0)
        /\ meter'.open["download"] = Waiting("download")'
        /\ meter'.open["archive"] = Waiting("write")'
    BY <1>4, <1>5, <2>1, <2>2 DEF Stages
  <2>4. Total(meter'.ms) = Total(Advance(meter, now).ms)
    BY <2>2
  <2> QED BY <1>4, <2>2, <2>3, <2>4, MeterStep
<1> QED BY <1>6, <1>7

-----------------------------------------------------------------------------
(* A task that throws has broken the output. *)
LEMMA ThrowStep ==
  ASSUME IInv, NEW o \in Objects, at[o] \in Running, Throw(o),
         NEW e \in {<<>>} \cup {<<x>> : x \in Outcomes}, ends' = [ends EXCEPT ![o] = e],
         Frame, archive' = archive,
         progress' \in [listed : Nat, included : Nat, skipped : Nat],
         meter' \in Meters, MeterInv'
  PROVE  IInv'
<1>1. /\ at' = [at EXCEPT ![o] = "failing"] /\ driver' = driver /\ forgotten' = forgotten
      /\ "failing" \in (Running \cup {"ended"}) \ {"start"}
  BY DEF Throw, Goto, Running
<1>2. TypeOK /\ dest' = "destroyed" /\ o <= yielded
  BY TaskRuns DEF Throw, IInv, TypeOK
<1>3. TaskInv(o)'
  <2>1. o \notin forgotten
    BY DEF IInv, TaskInv, Running, Early
  <2>2. at'[o] = "failing" /\ yielded' = yielded
    BY <1>1, <1>2 DEF TypeOK, Frame, listingVars
  <2> QED BY <1>1, <1>2, <2>1, <2>2 DEF TaskInv, Early, TypeOK, Objects
<1>4. CountInv'
  BY <1>2 DEF CountInv
<1>5. DedupeInv'
  BY <1>1, DedupeStep DEF DriverTakes, Frame
<1> QED BY <1>1, <1>2, <1>3, <1>4, <1>5, TaskStep DEF DriverTakes, TypeOK

(* A task that ends with an outcome has told the statistics of it. *)
LEMMA DoneStep ==
  ASSUME IInv, NEW o \in Objects, at[o] \in Running \ {"failing"}, Done(o),
         NEW x \in {"included", "skipped", "omitted"}, ends' = [ends EXCEPT ![o] = <<x>>],
         x = "included" <=> at[o] = "record",
         Frame, archive' = archive,
         progress' \in [listed : Nat, included : Nat, skipped : Nat],
         progress'.included = progress.included + Inc(<<x>>),
         progress'.skipped = progress.skipped + Skp(<<x>>),
         progress'.listed = progress.listed - Cnt(at[o]) + Inc(<<x>>) + Skp(<<x>>),
         meter' \in Meters, MeterInv'
  PROVE  IInv'
<1>1. /\ at' = [at EXCEPT ![o] = "ended"] /\ dest' = dest /\ forgotten' = forgotten
      /\ "ended" \in (Running \cup {"ended"}) \ {"start"} /\ "ended" \in Places
      /\ <<x>> \in {<<>>} \cup {<<y>> : y \in Outcomes}
  BY DEF Done, Goto, Running, Places, Outcomes
<1>2. TypeOK /\ o <= yielded /\ CountInv
  BY TaskRuns DEF IInv
<1>3. DriverTakes(o, "ended")
  BY <1>2 DEF Done, DriverTakes, TypeOK
<1>4. ends[o] = <<>> /\ o \notin forgotten /\ (o \in archive <=> at[o] = "record")
  BY DEF IInv, TaskInv, Running, Early
<1>5. TaskInv(o)'
  <2>1. at'[o] = "ended" /\ ends'[o] = <<x>> /\ yielded' = yielded
    BY <1>1, <1>2 DEF TypeOK, Frame, listingVars
  <2> QED BY <1>1, <1>2, <1>4, <2>1 DEF TaskInv, Early, TypeOK, Objects
<1>6. CountInv'
  <2>1. Inc(ends[o]) = 0 /\ Skp(ends[o]) = 0 /\ Cnt("ended") = 0
    BY <1>4 DEF Inc, Skp, Cnt, Counted
  <2>2. /\ Inc(<<x>>) \in Nat /\ Skp(<<x>>) \in Nat /\ Cnt(at[o]) \in Nat
        /\ progress.included \in Nat /\ progress.skipped \in Nat /\ progress.listed \in Nat
    BY <1>2 DEF Inc, Skp, Cnt, TypeOK
  <2>3. Tallied(o, "ended", <<x>>)
    BY <2>1, <2>2 DEF Tallied
  <2>4. dest' \in {dest, "destroyed"}
    BY <1>1
  <2> QED BY <1>1, <1>2, <2>3, <2>4, CountStep
<1>7. DedupeInv'
  BY <1>1, <1>3, <1>4, DedupeStep DEF Frame
<1> QED BY <1>1, <1>2, <1>3, <1>5, <1>6, <1>7, TaskStep DEF TypeOK

(* A task that moves on, its outcome still open. *)
LEMMA AdvanceStep ==
  ASSUME IInv, NEW o \in Objects, at[o] \in {"start", "gate", "download"},
         NEW p \in {"gate", "download", "write"}, Goto(o, p),
         at[o] = "start" => (plan.dedupe => Name[o] \notin Seen),
         Frame, UNCHANGED <<driver, forgotten, archive, ends, dest>>,
         progress' = [progress EXCEPT !.listed = @ + 1 - Cnt(at[o])],
         meter' \in Meters, MeterInv'
  PROVE  IInv'
<1>1. /\ at' = [at EXCEPT ![o] = p] /\ p \in Places /\ p \in Early /\ p \notin {"ended", "start"}
      /\ p \in (Running \cup {"ended"}) \ {"start"} /\ at[o] \in Running
  BY DEF Goto, Running, Places, Early, Counted
<1>2. TypeOK /\ o <= yielded /\ CountInv
  BY <1>1, TaskRuns DEF IInv
<1>3. DriverTakes(o, p)
  BY DEF DriverTakes
<1>4. ends[o] = <<>> /\ o \notin forgotten /\ o \notin archive
  BY DEF IInv, TaskInv, Running, Early
<1>5. ends' = [ends EXCEPT ![o] = <<>>] /\ <<>> \in {<<>>} \cup {<<x>> : x \in Outcomes}
  BY <1>2, <1>4 DEF TypeOK
<1>6. TaskInv(o)'
  <2>1. at'[o] = p /\ ends'[o] = <<>> /\ yielded' = yielded
    BY <1>1, <1>2, <1>4 DEF TypeOK, Frame, listingVars
  <2> QED BY <1>1, <1>2, <1>4, <2>1 DEF TaskInv, Early, TypeOK, Objects
<1>7. /\ progress' \in [listed : Nat, included : Nat, skipped : Nat]
      /\ progress'.included = progress.included /\ progress'.skipped = progress.skipped
      /\ progress'.listed = progress.listed + 1 - Cnt(at[o])
  BY <1>2 DEF TypeOK, Cnt
<1>8. CountInv'
  <2>1. Inc(<<>>) = 0 /\ Skp(<<>>) = 0 /\ Cnt(p) = 1 /\ Cnt(at[o]) \in Nat
    BY <1>1 DEF Inc, Skp, Cnt, Counted
  <2>2. /\ progress.included \in Nat /\ progress.skipped \in Nat /\ progress.listed \in Nat
    BY <1>2 DEF TypeOK
  <2>3. Tallied(o, p, <<>>)
    BY <1>4, <1>7, <2>1, <2>2 DEF Tallied
  <2>4. dest' \in {dest, "destroyed"}
    OBVIOUS
  <2> QED BY <1>1, <1>2, <1>5, <2>3, <2>4, CountStep
<1>9. DedupeInv'
  <2>1. at[o] \in {"gate", "download"} \/ (at[o] = "start" /\ (plan.dedupe => Name[o] \notin Seen))
    OBVIOUS
  <2> QED BY <1>1, <1>3, <1>4, <1>5, <2>1, DedupeStep DEF Frame
<1> QED BY <1>1, <1>2, <1>3, <1>5, <1>6, <1>7, <1>8, <1>9, TaskStep DEF TypeOK

-----------------------------------------------------------------------------
(* The steps of a task, one by one. *)
LEMMA RefuseTaskInv ==
  ASSUME IInv, NEW o \in Objects, RefuseTask(o)
  PROVE  IInv'
<1>1. /\ at[o] = "start" /\ aborted /\ at' = [at EXCEPT ![o] = "failing"] /\ Frame
      /\ UNCHANGED <<driver, forgotten, progress, archive, ends, dest, meter>>
  BY DEF RefuseTask, Goto, Frame, engine, clock, output
<1>2. /\ at[o] \in Running /\ "failing" \in (Running \cup {"ended"}) \ {"start"}
      /\ "failing" \in Places /\ "failing" \notin {"download", "write"}
      /\ at[o] \notin {"download", "write"}
  BY <1>1 DEF Running, Places
<1>3. TypeOK /\ o <= yielded /\ CountInv
  BY <1>2, TaskRuns DEF IInv
<1>4. ends[o] = <<>> /\ o \notin forgotten /\ o \notin archive
  BY <1>1 DEF IInv, TaskInv, Early
<1>5. ends' = [ends EXCEPT ![o] = <<>>] /\ <<>> \in {<<>>} \cup {<<x>> : x \in Outcomes}
  BY <1>1, <1>3, <1>4 DEF TypeOK
<1>6. meter' \in Meters /\ MeterInv'
  BY <1>1, <1>2, MeterIdle
<1>7. TaskInv(o)'
  <2>1. at'[o] = "failing" /\ yielded' = yielded /\ aborted' = aborted
    BY <1>1, <1>3 DEF TypeOK, Frame, listingVars
  <2> QED BY <1>1, <1>3, <1>4, <2>1 DEF TaskInv, Early, TypeOK, Objects
<1>8. CountInv'
  <2>1. Inc(<<>>) = 0 /\ Skp(<<>>) = 0 /\ Cnt("failing") = 0 /\ Cnt(at[o]) = 0
    BY <1>1 DEF Inc, Skp, Cnt, Counted
  <2>2. progress \in [listed : Nat, included : Nat, skipped : Nat]
    BY <1>3 DEF TypeOK
  <2>3. Tallied(o, "failing", <<>>)
    BY <1>1, <1>4, <2>1, <2>2 DEF Tallied
  <2>4. dest' \in {dest, "destroyed"}
    BY <1>1
  <2> QED BY <1>1, <1>2, <1>3, <1>5, <2>3, <2>4, CountStep
<1>9. DriverTakes(o, "failing")
  BY <1>1 DEF DriverTakes
<1>10. DedupeInv'
  <2>1. plan' = plan
    BY <1>1 DEF Frame
  <2> QED BY <1>1, <1>2, <1>4, <1>5, <1>9, <2>1, DedupeStep
<1> QED BY <1>1, <1>2, <1>3, <1>5, <1>6, <1>7, <1>8, <1>9, <1>10, TaskStep DEF TypeOK

LEMMA RejectInv ==
  ASSUME IInv, NEW o \in Objects, Reject(o)
  PROVE  IInv'
<1>1. /\ at[o] = "failing" /\ at' = [at EXCEPT ![o] = "ended"] /\ Frame
      /\ UNCHANGED <<progress, archive, ends, dest, meter>>
      /\ IF driver \in {"race", "join"}
         THEN driver' = "rejected" /\ forgotten' = forgotten
         ELSE forgotten' = forgotten \cup {o} /\ driver' = driver
  BY DEF Reject, Goto, Frame, engine, clock, output
<1>2. /\ at[o] \in Running /\ "ended" \in (Running \cup {"ended"}) \ {"start"}
      /\ "ended" \in Places /\ "ended" \notin {"download", "write"}
      /\ at[o] \notin {"download", "write"}
  BY <1>1 DEF Running, Places
<1>3. TypeOK /\ o <= yielded /\ CountInv
  BY <1>2, TaskRuns DEF IInv
<1>4. /\ o \notin forgotten
      /\ dest # "destroyed" => aborted /\ ends[o] = <<>> /\ o \notin archive
  BY <1>1 DEF IInv, TaskInv, Early
<1>5. /\ ends' = [ends EXCEPT ![o] = ends[o]]
      /\ ends[o] \in {<<>>} \cup {<<x>> : x \in Outcomes}
  BY <1>1, <1>3 DEF TypeOK
<1>6. meter' \in Meters /\ MeterInv'
  BY <1>1, <1>2, MeterIdle
<1>7. TaskInv(o)'
  <2>1. at'[o] = "ended" /\ yielded' = yielded /\ aborted' = aborted
    BY <1>1, <1>3 DEF TypeOK, Frame, listingVars
  <2> QED BY <1>1, <1>3, <1>4, <2>1 DEF TaskInv, Early, TypeOK, Objects
<1>8. CountInv'
  <2>1. Cnt("ended") = 0 /\ Cnt(at[o]) = 0 /\ Inc(ends[o]) \in Nat /\ Skp(ends[o]) \in Nat
    BY <1>1 DEF Inc, Skp, Cnt, Counted
  <2>2. progress \in [listed : Nat, included : Nat, skipped : Nat]
    BY <1>3 DEF TypeOK
  <2> DEFINE e == ends[o]
  <2>3. Tallied(o, "ended", e)
    BY <1>1, <2>1, <2>2 DEF Tallied
  <2>4. dest' \in {dest, "destroyed"}
    BY <1>1
  <2>5. ends' = [ends EXCEPT ![o] = e] /\ e \in {<<>>} \cup {<<x>> : x \in Outcomes}
    BY <1>5
  <2> HIDE DEF e
  <2> QED BY <1>1, <1>2, <1>3, <2>3, <2>4, <2>5, CountStep
<1>9. DriverTakes(o, "ended")
  BY <1>1 DEF DriverTakes
<1>10. DedupeInv'
  <2>1. plan' = plan
    BY <1>1 DEF Frame
  <2>2. driver' = "rejected" \/ driver # "race"
    BY <1>1
  <2> QED BY <1>1, <1>2, <1>5, <1>9, <2>1, <2>2, DedupeStep
<1>11. /\ forgotten' \subseteq Objects /\ forgotten' \ {o} = forgotten \ {o}
       /\ archive' \subseteq Objects /\ archive' \ {o} = archive \ {o}
       /\ progress' \in [listed : Nat, included : Nat, skipped : Nat]
  BY <1>1, <1>3 DEF TypeOK
<1> QED BY <1>1, <1>2, <1>5, <1>6, <1>7, <1>8, <1>9, <1>10, <1>11, TaskStep

(* An outcome is reported; then the task ends, or its hook throws. *)
LEMMA ConcludeStep ==
  ASSUME IInv, NEW o \in Objects, at[o] \in Running \ {"failing"},
         NEW x \in {"included", "skipped", "omitted"}, Conclude(o, x),
         x = "included" <=> at[o] = "record",
         Frame, archive' = archive,
         progress' \in [listed : Nat, included : Nat, skipped : Nat],
         progress'.included = progress.included + Inc(<<x>>),
         progress'.skipped = progress.skipped + Skp(<<x>>),
         progress'.listed = progress.listed - Cnt(at[o]) + Inc(<<x>>) + Skp(<<x>>),
         meter' \in Meters, MeterInv'
  PROVE  IInv'
<1>1. ends[o] = <<>>
  BY DEF IInv, TaskInv, Running, Early
<1>2. /\ ends' = [ends EXCEPT ![o] = <<x>>]
      /\ <<x>> \in {<<>>} \cup {<<y>> : y \in Outcomes}
  BY <1>1 DEF Conclude, Report, Outcomes
<1>3. at[o] \in Running
  OBVIOUS
<1>4. CASE Done(o)
  BY <1>2, <1>4, DoneStep
<1>5. CASE Throw(o)
  BY <1>2, <1>3, <1>5, ThrowStep
<1> QED BY <1>4, <1>5 DEF Conclude

LEMMA BeginTaskInv ==
  ASSUME IInv, NEW o \in Objects, BeginTask(o)
  PROVE  IInv'
<1>1. /\ at[o] = "start" /\ Frame /\ archive' = archive /\ meter' = meter
      /\ at[o] \in Running /\ at[o] \in Running \ {"failing"} /\ at[o] \notin {"download", "write"}
      /\ Cnt(at[o]) = 0
  BY DEF BeginTask, Frame, engine, clock, Running, Cnt, Counted
<1>2. TypeOK /\ progress \in [listed : Nat, included : Nat, skipped : Nat] /\ ends[o] = <<>>
  BY <1>1 DEF IInv, TypeOK, TaskInv, Early
<1>3. ends' = ends => /\ ends' = [ends EXCEPT ![o] = <<>>]
                      /\ <<>> \in {<<>>} \cup {<<x>> : x \in Outcomes}
  BY <1>2 DEF TypeOK
<1>4. ASSUME NEW p \in {"gate", "failing", "ended"}, at' = [at EXCEPT ![o] = p]
      PROVE  meter' \in Meters /\ MeterInv'
  <2>1. p \in Places /\ p \notin {"download", "write"}
    BY DEF Places
  <2> QED BY <1>1, <1>4, <2>1, MeterIdle
<1>5. CASE Throw(o) /\ Count("listed") /\ ends' = ends
  <2>1. progress' \in [listed : Nat, included : Nat, skipped : Nat]
    BY <1>2, <1>5 DEF Count
  <2>2. meter' \in Meters /\ MeterInv'
    BY <1>4, <1>5 DEF Throw, Goto
  <2> QED BY <1>1, <1>3, <1>5, <2>1, <2>2, ThrowStep
<1>6. CASE /\ progress' = [progress EXCEPT !.listed = @ + 1, !.skipped = @ + 1]
           /\ Conclude(o, "skipped")
  <2>1. /\ progress' \in [listed : Nat, included : Nat, skipped : Nat]
        /\ progress'.included = progress.included /\ progress'.skipped = progress.skipped + 1
        /\ progress'.listed = progress.listed + 1
    <3>1. progress = [listed |-> progress.listed, included |-> progress.included,
                      skipped |-> progress.skipped]
      BY <1>2
    <3>2. progress' = [listed |-> progress.listed + 1, included |-> progress.included,
                       skipped |-> progress.skipped + 1]
      BY <1>6, <3>1
    <3> QED BY <1>2, <3>2
  <2>2. Inc(<<"skipped">>) = 0 /\ Skp(<<"skipped">>) = 1
    BY DEF Inc, Skp
  <2>3. /\ progress'.included = progress.included + Inc(<<"skipped">>)
        /\ progress'.skipped = progress.skipped + Skp(<<"skipped">>)
        /\ progress'.listed = progress.listed - Cnt(at[o]) + Inc(<<"skipped">>) + Skp(<<"skipped">>)
    BY <1>1, <1>2, <2>1, <2>2
  <2>4. meter' \in Meters /\ MeterInv'
    BY <1>4, <1>6 DEF Conclude, Done, Throw, Goto
  <2> QED BY <1>1, <1>6, <2>1, <2>3, <2>4, ConcludeStep
<1>7. CASE /\ ~ Skipped(o) /\ Count("listed") /\ Goto(o, "gate")
           /\ UNCHANGED <<driver, forgotten, dest, ends>>
  <2>1. progress' = [progress EXCEPT !.listed = @ + 1 - Cnt(at[o])]
    <3>1. progress.listed + 1 - Cnt(at[o]) = progress.listed + 1
      BY <1>1, <1>2
    <3> QED BY <1>7, <3>1 DEF Count
  <2>2. plan.dedupe => Name[o] \notin Seen
    BY <1>7 DEF Skipped
  <2>3. meter' \in Meters /\ MeterInv'
    BY <1>4, <1>7 DEF Goto
  <2> QED BY <1>1, <1>7, <2>1, <2>2, <2>3, AdvanceStep
<1> QED BY <1>5, <1>6, <1>7 DEF BeginTask

LEMMA DownloadInv ==
  ASSUME IInv, NEW o \in Objects, Download(o)
  PROVE  IInv'
<1>1. /\ at[o] = "gate" /\ at' = [at EXCEPT ![o] = "download"] /\ Frame
      /\ UNCHANGED <<driver, forgotten, progress, archive, ends, dest>>
      /\ meter' = Enter(meter, "download", now)
      /\ now' = now /\ moves' = moves /\ listing' = listing
  BY DEF Download, Goto, Frame, engine, listingVars, output
<1>2. TypeOK /\ MeterInv /\ meter \in Meters /\ now \in Nat /\ Weight(meter) <= 16
  BY WeightBound DEF IInv, TypeOK
<1>3. "download" \in Stages /\ "download" \in Places /\ "write" \in Places
  BY DEF Stages, Places
<1>4. /\ Waiting("download") \in Nat /\ Waiting("write") \in Nat
      /\ Waiting("download")' = Waiting("download") + 1
      /\ Waiting("write")' = Waiting("write")
  <2>1. \A s \in Places :
          /\ Waiting(s) \in Nat /\ Waiting(s)' \in Nat
          /\ Waiting(s)' = Waiting(s) + (IF s = "download" THEN 1 ELSE 0)
                                      - (IF s = at[o] THEN 1 ELSE 0)
    BY <1>1, <1>2, <1>3, MoveCounts
  <2> QED BY <1>1, <1>3, <2>1
<1>5. /\ meter' \in Meters /\ meter'.last = now /\ meter'.ms = Advance(meter, now).ms
      /\ meter'.open = [meter.open EXCEPT !["download"] = @ + 1]
  BY <1>1, <1>2, <1>3, MeterEnters
<1>6. MeterInv'
  <2>1. /\ meter'.open["list"] = (IF listing' = "asked" THEN 1 ELSE 0)
        /\ meter'.open["download"] = Waiting("download")'
        /\ meter'.open["archive"] = Waiting("write")'
    BY <1>1, <1>2, <1>4, <1>5 DEF MeterInv, Meters, Stages
  <2>2. Total(meter'.ms) = Total(Advance(meter, now).ms)
    BY <1>5
  <2> QED BY <1>1, <1>5, <2>1, <2>2, MeterStep
<1>7. progress' = [progress EXCEPT !.listed = @ + 1 - Cnt(at[o])]
  BY <1>1, <1>2 DEF TypeOK, Cnt, Counted
<1> QED BY <1>1, <1>5, <1>6, <1>7, AdvanceStep DEF Goto

LEMMA DownloadedInv ==
  ASSUME IInv, NEW o \in Objects, Downloaded(o)
  PROVE  IInv'
<1>1. /\ at[o] = "download" /\ at' = [at EXCEPT ![o] = "write"] /\ Frame
      /\ UNCHANGED <<driver, forgotten, progress, archive, ends, dest>>
      /\ meter' = Move(meter, "download", "archive", now)
      /\ now' = now /\ moves' = moves /\ listing' = listing
  BY DEF Downloaded, Goto, Frame, engine, listingVars, output
<1>2. TypeOK /\ MeterInv /\ meter \in Meters /\ now \in Nat /\ Weight(meter) <= 16
  BY WeightBound DEF IInv, TypeOK
<1>3. /\ "download" \in Stages /\ "archive" \in Stages /\ "download" # "archive"
      /\ "download" \in Places /\ "write" \in Places
  BY DEF Stages, Places
<1>4. /\ Waiting("download") \in Nat /\ Waiting("write") \in Nat /\ Waiting("download")' \in Nat
      /\ Waiting("download")' = Waiting("download") - 1
      /\ Waiting("write")' = Waiting("write") + 1
  <2>1. \A s \in Places :
          /\ Waiting(s) \in Nat /\ Waiting(s)' \in Nat
          /\ Waiting(s)' = Waiting(s) + (IF s = "write" THEN 1 ELSE 0)
                                      - (IF s = at[o] THEN 1 ELSE 0)
    BY <1>1, <1>2, <1>3, MoveCounts
  <2> QED BY <1>1, <1>3, <2>1
<1>5. meter.open["download"] > 0
  BY <1>2, <1>4 DEF MeterInv
<1>6. /\ meter' \in Meters /\ meter'.last = now
      /\ Total(meter'.ms) = Total(Advance(meter, now).ms)
      /\ meter'.open = [meter.open EXCEPT !["download"] = @ - 1, !["archive"] = @ + 1]
  BY <1>1, <1>2, <1>3, <1>5, MeterMoves
<1>7. MeterInv'
  <2>1. /\ meter'.open["list"] = (IF listing' = "asked" THEN 1 ELSE 0)
        /\ meter'.open["download"] = Waiting("download")'
        /\ meter'.open["archive"] = Waiting("write")'
    BY <1>1, <1>2, <1>4, <1>6 DEF MeterInv, Meters, Stages
  <2> QED BY <1>1, <1>6, <2>1, MeterStep
<1>8. progress' = [progress EXCEPT !.listed = @ + 1 - Cnt(at[o])]
  BY <1>1, <1>2 DEF TypeOK, Cnt, Counted
<1> QED BY <1>1, <1>6, <1>7, <1>8, AdvanceStep DEF Goto

LEMMA GateThrowsInv ==
  ASSUME IInv, NEW o \in Objects, GateThrows(o)
  PROVE  IInv'
<1>1. /\ at[o] = "gate" /\ Throw(o) /\ at' = [at EXCEPT ![o] = "failing"] /\ Frame
      /\ UNCHANGED <<progress, archive, ends, meter>>
      /\ at[o] \in Running /\ at[o] \notin {"download", "write"}
  BY DEF GateThrows, Throw, Goto, Frame, engine, clock, Running
<1>2. TypeOK /\ progress' \in [listed : Nat, included : Nat, skipped : Nat] /\ ends[o] = <<>>
  BY <1>1 DEF IInv, TypeOK, TaskInv, Early
<1>3. ends' = [ends EXCEPT ![o] = <<>>] /\ <<>> \in {<<>>} \cup {<<x>> : x \in Outcomes}
  BY <1>1, <1>2 DEF TypeOK
<1>4. meter' \in Meters /\ MeterInv'
  <2>1. "failing" \in Places /\ "failing" \notin {"download", "write"}
    BY DEF Places
  <2> QED BY <1>1, <2>1, MeterIdle
<1> QED BY <1>1, <1>2, <1>3, <1>4, ThrowStep

(* Giving up: the meter has been told. *)
LEMMA GiveUpStep ==
  ASSUME IInv, NEW o \in Objects, at[o] \in {"download", "write"}, GiveUp(o), Frame,
         archive' = archive,
         \/ at[o] = "download" /\ meter' = Leave(meter, "download", now)
         \/ at[o] = "write" /\ meter' = Leave(meter, "archive", now)
  PROVE  IInv'
<1>1. /\ at[o] \in Running /\ at[o] \in Running \ {"failing"} /\ Cnt(at[o]) = 1
      /\ at[o] # "record"
  BY DEF Running, Cnt, Counted
<1>2. TypeOK /\ progress \in [listed : Nat, included : Nat, skipped : Nat] /\ ends[o] = <<>>
  BY DEF IInv, TypeOK, TaskInv, Early
<1>3. ends' = ends => /\ ends' = [ends EXCEPT ![o] = <<>>]
                      /\ <<>> \in {<<>>} \cup {<<x>> : x \in Outcomes}
  BY <1>2 DEF TypeOK
<1>4. ASSUME NEW p \in {"failing", "ended"}, at' = [at EXCEPT ![o] = p]
      PROVE  meter' \in Meters /\ MeterInv'
  <2>1. p \in Places /\ p \notin {"download", "write"}
    BY DEF Places
  <2> QED BY <1>4, <2>1, MeterOfLeaving
<1>5. CASE Count("skipped") /\ Throw(o) /\ ends' = ends
  <2>1. progress' \in [listed : Nat, included : Nat, skipped : Nat]
    BY <1>2, <1>5 DEF Count
  <2>2. meter' \in Meters /\ MeterInv'
    BY <1>4, <1>5 DEF Throw, Goto
  <2> QED BY <1>1, <1>3, <1>5, <2>1, <2>2, ThrowStep
<1>6. CASE Count("skipped") /\ Conclude(o, "omitted")
  <2>1. /\ progress' \in [listed : Nat, included : Nat, skipped : Nat]
        /\ progress'.included = progress.included /\ progress'.skipped = progress.skipped + 1
        /\ progress'.listed = progress.listed
    BY <1>2, <1>6 DEF Count
  <2>2. Inc(<<"omitted">>) = 0 /\ Skp(<<"omitted">>) = 1
    BY DEF Inc, Skp
  <2>3. /\ progress'.included = progress.included + Inc(<<"omitted">>)
        /\ progress'.skipped = progress.skipped + Skp(<<"omitted">>)
        /\ progress'.listed = progress.listed - Cnt(at[o]) + Inc(<<"omitted">>) + Skp(<<"omitted">>)
    BY <1>1, <1>2, <2>1, <2>2
  <2>4. meter' \in Meters /\ MeterInv'
    BY <1>4, <1>6 DEF Conclude, Done, Throw, Goto
  <2> QED BY <1>1, <1>6, <2>1, <2>3, <2>4, ConcludeStep
<1>7. CASE progress' = progress /\ Report(o, "failed") /\ Throw(o)
  <2>1. /\ ends' = [ends EXCEPT ![o] = <<"failed">>]
        /\ <<"failed">> \in {<<>>} \cup {<<x>> : x \in Outcomes}
    BY <1>2, <1>7 DEF Report, Outcomes
  <2>2. meter' \in Meters /\ MeterInv'
    BY <1>4, <1>7 DEF Throw, Goto
  <2> QED BY <1>1, <1>2, <1>7, <2>1, <2>2, ThrowStep
<1> QED BY <1>5, <1>6, <1>7 DEF GiveUp

LEMMA DownloadFailsInv ==
  ASSUME IInv, NEW o \in Objects, DownloadFails(o)
  PROVE  IInv'
<1>1. /\ at[o] = "download" /\ Frame /\ archive' = archive /\ GiveUp(o)
      /\ meter' = Leave(meter, "download", now)
  BY DEF DownloadFails, Frame, engine
<1> QED BY <1>1, GiveUpStep

LEMMA WriteFailsInv ==
  ASSUME IInv, NEW o \in Objects, WriteFails(o)
  PROVE  IInv'
<1>1. /\ at[o] = "write" /\ Frame /\ archive' = archive /\ GiveUp(o)
      /\ meter' = Leave(meter, "archive", now)
  BY DEF WriteFails, Frame, engine
<1> QED BY <1>1, GiveUpStep

LEMMA WrittenInv ==
  ASSUME IInv, NEW o \in Objects, Written(o)
  PROVE  IInv'
<1>1. /\ at[o] = "write" /\ at' = [at EXCEPT ![o] = "record"] /\ Frame
      /\ UNCHANGED <<driver, forgotten, progress, ends, dest>> /\ dest = "open"
      /\ archive' = archive \cup {o}
      /\ meter' = Leave(meter, "archive", now)
  BY DEF Written, Goto, Frame, engine, output
<1>2. /\ at[o] \in Running /\ "record" \in (Running \cup {"ended"}) \ {"start"}
      /\ "record" \in Places /\ "record" \notin {"download", "write"}
  BY <1>1 DEF Running, Places
<1>3. TypeOK /\ o <= yielded /\ CountInv
  BY <1>2, TaskRuns DEF IInv
<1>4. ends[o] = <<>> /\ o \notin forgotten /\ o \notin archive
  BY <1>1 DEF IInv, TaskInv, Early
<1>5. ends' = [ends EXCEPT ![o] = <<>>] /\ <<>> \in {<<>>} \cup {<<x>> : x \in Outcomes}
  BY <1>1, <1>3, <1>4 DEF TypeOK
<1>6. meter' \in Meters /\ MeterInv'
  BY <1>1, <1>2, MeterOfLeaving
<1>7. TaskInv(o)'
  <2>1. at'[o] = "record" /\ yielded' = yielded /\ o \in archive'
    BY <1>1, <1>3 DEF TypeOK, Frame, listingVars
  <2> QED BY <1>1, <1>3, <1>4, <2>1 DEF TaskInv, Early, TypeOK, Objects
<1>8. CountInv'
  <2>1. Inc(<<>>) = 0 /\ Skp(<<>>) = 0 /\ Cnt("record") = 1 /\ Cnt(at[o]) = 1
    BY <1>1 DEF Inc, Skp, Cnt, Counted
  <2>2. progress \in [listed : Nat, included : Nat, skipped : Nat]
    BY <1>3 DEF TypeOK
  <2>3. Tallied(o, "record", <<>>)
    BY <1>1, <1>4, <2>1, <2>2 DEF Tallied
  <2>4. dest' \in {dest, "destroyed"}
    BY <1>1
  <2> QED BY <1>1, <1>2, <1>3, <1>5, <2>3, <2>4, CountStep
<1>9. DriverTakes(o, "record")
  BY <1>1 DEF DriverTakes
<1>10. DedupeInv'
  <2>1. plan' = plan /\ "record" \notin {"gate", "download", "write", "ended"}
    BY <1>1 DEF Frame
  <2> QED BY <1>1, <1>2, <1>5, <1>9, <2>1, DedupeStep
<1>11. /\ forgotten' \subseteq Objects /\ forgotten' \ {o} = forgotten \ {o}
       /\ archive' \subseteq Objects /\ archive' \ {o} = archive \ {o}
       /\ progress' \in [listed : Nat, included : Nat, skipped : Nat]
  BY <1>1, <1>3 DEF TypeOK
<1> QED BY <1>1, <1>2, <1>5, <1>6, <1>7, <1>8, <1>9, <1>10, <1>11, TaskStep

LEMMA RecordInv ==
  ASSUME IInv, NEW o \in Objects, Record(o)
  PROVE  IInv'
<1>1. /\ at[o] = "record" /\ Frame /\ archive' = archive /\ meter' = meter /\ Count("included")
      /\ at[o] \in Running /\ at[o] \in Running \ {"failing"} /\ at[o] \notin {"download", "write"}
      /\ Cnt(at[o]) = 1
  BY DEF Record, Frame, engine, clock, Running, Cnt, Counted
<1>2. TypeOK /\ progress \in [listed : Nat, included : Nat, skipped : Nat] /\ ends[o] = <<>>
  BY <1>1 DEF IInv, TypeOK, TaskInv
<1>3. ends' = ends => /\ ends' = [ends EXCEPT ![o] = <<>>]
                      /\ <<>> \in {<<>>} \cup {<<x>> : x \in Outcomes}
  BY <1>2 DEF TypeOK
<1>4. ASSUME NEW p \in {"failing", "ended"}, at' = [at EXCEPT ![o] = p]
      PROVE  meter' \in Meters /\ MeterInv'
  <2>1. p \in Places /\ p \notin {"download", "write"}
    BY DEF Places
  <2> QED BY <1>1, <1>4, <2>1, MeterIdle
<1>5. /\ progress' \in [listed : Nat, included : Nat, skipped : Nat]
      /\ progress'.included = progress.included + 1 /\ progress'.skipped = progress.skipped
      /\ progress'.listed = progress.listed
  BY <1>1, <1>2 DEF Count
<1>6. CASE Throw(o) /\ ends' = ends
  <2>1. meter' \in Meters /\ MeterInv'
    BY <1>4, <1>6 DEF Throw, Goto
  <2> QED BY <1>1, <1>3, <1>5, <1>6, <2>1, ThrowStep
<1>7. CASE Conclude(o, "included")
  <2>1. Inc(<<"included">>) = 1 /\ Skp(<<"included">>) = 0
    BY DEF Inc, Skp
  <2>2. /\ progress'.included = progress.included + Inc(<<"included">>)
        /\ progress'.skipped = progress.skipped + Skp(<<"included">>)
        /\ progress'.listed = progress.listed - Cnt(at[o]) + Inc(<<"included">>) + Skp(<<"included">>)
    BY <1>1, <1>2, <1>5, <2>1
  <2>3. meter' \in Meters /\ MeterInv'
    BY <1>4, <1>7 DEF Conclude, Done, Throw, Goto
  <2> QED BY <1>1, <1>5, <1>7, <2>2, <2>3, ConcludeStep
<1> QED BY <1>6, <1>7 DEF Record

-----------------------------------------------------------------------------
(* What an accepted request may ask of the window. *)
LEMMA Windows ==
  ASSUME NEW r, r.concurrency \in Int \cup {Absent, NaN}, Resolves(r)
  PROVE  /\ Window(r) = NaN \/ Window(r) \in 1..16
         /\ r.dedupe => Window(r) \in {NaN, 1}
<1>1. Window(r) = NaN \/ Window(r) \in 1..16
  <2>1. CASE ~ IsZip(r)
    BY <2>1 DEF Window
  <2>2. CASE IsZip(r) /\ r.deterministicOrdering
    <3>1. r.concurrency \in {Absent, 1}
      BY <2>2 DEF Resolves
    <3> QED BY <2>2, <3>1 DEF Window, Or, Given
  <2>3. CASE IsZip(r) /\ ~ r.deterministicOrdering
    <3> DEFINE c == Or(r.concurrency, 2)
    <3>1. c \in Int \cup {NaN}
      BY DEF Or, Given
    <3>2. Window(r) = IF c = NaN THEN NaN ELSE IF c < 1 THEN 1 ELSE IF c > 16 THEN 16 ELSE c
      BY <2>3 DEF Window
    <3> HIDE DEF c
    <3> QED BY <3>1, <3>2, OptionAssumption
  <2> QED BY <2>1, <2>2, <2>3
<1>2. ASSUME r.dedupe PROVE Window(r) \in {NaN, 1}
  <2>1. ~ Above(Window(r), 1)
    BY <1>2 DEF Resolves
  <2> QED BY <1>1, <2>1 DEF Above
<1> QED BY <1>1, <1>2

(* A step that leaves the tasks and the pool alone. *)
LEMMA QuietStep ==
  ASSUME IInv, UNCHANGED <<driver, at, forgotten, progress, archive, ends>>,
         UNCHANGED <<listing, received, yielded, source, complete>>,
         aborted' \in BOOLEAN, aborted => aborted',
         \/ dest' = dest \/ dest' = "destroyed"
         \/ dest = "open" /\ dest' = "ended",
         plan' = plan \/ Untouched,
         phase' \in {"open", "start", "data", "closing", "final", "settled"},
         verdict' \in {"none", "resolved", "rejected"},
         now' \in Nat, moves' \in Nat, meter' \in Meters,
         PhaseInv', MeterInv', listing = "asked" => phase' = phase
  PROVE  IInv'
<1>1. TypeOK /\ ListInv /\ PoolInv /\ CountInv /\ DedupeInv /\ \A o \in Objects : TaskInv(o)
  BY DEF IInv
<1>2. /\ driver' = driver /\ at' = at /\ forgotten' = forgotten /\ progress' = progress
      /\ archive' = archive /\ ends' = ends /\ listing' = listing /\ received' = received
      /\ yielded' = yielded /\ source' = source /\ complete' = complete
  OBVIOUS
<1>3. TypeOK'
  BY <1>1, <1>2 DEF TypeOK
<1>4. ListInv'
  BY <1>1, <1>2 DEF ListInv, Held
<1>5. Executing' = Executing /\ Stage("heap")' = Stage("heap")
  BY <1>2 DEF Executing, Stage
<1>6. plan' = plan \/ (Executing = {} /\ Stage("heap") = {} /\ archive = {} /\ driver = "pull")
  <2>1. Untouched => /\ Executing = {} /\ Stage("heap") = {} /\ driver = "pull"
                     /\ \A o \in Objects : at[o] = "none"
    BY DEF Untouched, Executing, Stage
  <2>2. Untouched => archive = {}
    BY <1>1, <2>1 DEF TaskInv, Early, TypeOK
  <2> QED BY <2>1, <2>2
<1>7. PoolInv'
  <2>1. CASE plan' = plan
    <3> HIDE DEF Executing, Stage
    <3> QED BY <1>1, <1>2, <1>5, <2>1 DEF PoolInv
  <2>2. CASE Executing = {} /\ Stage("heap") = {} /\ driver = "pull"
    <3> HIDE DEF Executing, Stage
    <3> QED BY <1>2, <1>5, <2>2 DEF PoolInv
  <2> QED BY <1>6, <2>1, <2>2
<1>8. CountInv'
  <2>1. dest' # "destroyed" => dest # "destroyed"
    OBVIOUS
  <2>2. /\ Reported({"included"})' = Reported({"included"})
        /\ Reported({"skipped", "omitted"})' = Reported({"skipped", "omitted"})
    BY <1>2 DEF Reported
  <2> HIDE DEF Reported
  <2> QED BY <1>1, <1>2, <2>1, <2>2 DEF CountInv
<1>9. DedupeInv'
  <2>1. CASE plan' = plan
    BY <1>1, <1>2, <1>5, <2>1 DEF DedupeInv
  <2>2. CASE Untouched
    <3>1. archive = {} /\ Executing = {}
      <4>1. \A o \in Objects : at[o] = "none"
        BY <2>2 DEF Untouched
      <4> QED BY <1>1, <4>1 DEF TaskInv, Early, TypeOK, Executing
    <3> QED BY <1>2, <1>5, <3>1 DEF DedupeInv
  <2> QED BY <2>1, <2>2
<1>10. ASSUME NEW o \in Objects PROVE TaskInv(o)'
  <2>1. TaskInv(o)
    BY <1>1
  <2>2. dest' # "destroyed" => dest # "destroyed"
    OBVIOUS
  <2> QED BY <1>2, <2>1, <2>2 DEF TaskInv
<1> QED BY <1>3, <1>4, <1>7, <1>8, <1>9, <1>10 DEF IInv

(* The meter is in the listing stage exactly while the listing is asked. *)
LEMMA MeterQuiet ==
  ASSUME IInv, UNCHANGED <<at, listing, meter, now, moves>>
  PROVE  meter' \in Meters /\ MeterInv'
<1>1. Waiting("download")' = Waiting("download") /\ Waiting("write")' = Waiting("write")
  BY DEF Waiting, Stage
<1> QED BY <1>1, MeterUntouched DEF IInv, TypeOK

LEMMA BootstrapInv == IInv /\ Bootstrap => IInv'
<1> SUFFICES ASSUME IInv, Bootstrap PROVE IInv'
  OBVIOUS
<1>1. /\ phase = "bootstrap"
      /\ UNCHANGED <<listing, received, yielded, source, complete, aborted, driver, at, forgotten,
                     progress, archive, ends, now, moves, stats, exit>>
  BY DEF Bootstrap, listingVars, tasks
<1>2. TypeOK /\ PhaseInv /\ Untouched /\ dest # "ended" /\ verdict # "resolved" /\ exit # "0"
  BY <1>1 DEF IInv, PhaseInv
<1>3. Untouched'
  BY <1>1, <1>2 DEF Untouched
<1>4. CASE ~ Accepts(request) /\ Settle("rejected") /\ UNCHANGED <<plan, meter>>
  <2>1. /\ phase' = "settled" /\ verdict' = "rejected" /\ dest' \in {dest, "destroyed"}
        /\ plan' = plan /\ meter' = meter
    BY <1>4 DEF Settle
  <2>2. PlanOK => PlanOK'
    BY <2>1 DEF PlanOK
  <2>3. PhaseInv'
    BY <1>1, <1>2, <1>3, <2>1, <2>2 DEF PhaseInv
  <2>4. meter' \in Meters /\ MeterInv'
    BY <1>1, <2>1, MeterQuiet
  <2>5. aborted \in BOOLEAN /\ now' \in Nat /\ moves' \in Nat
    BY <1>1, <1>2 DEF TypeOK
  <2>6. listing # "asked"
    BY <1>2 DEF Untouched
  <2> QED BY <1>1, <2>1, <2>3, <2>4, <2>5, <2>6, QuietStep
<1>5. CASE /\ Accepts(request) /\ plan' = Resolve(request)
           /\ phase' = (IF request.checkpoint THEN "open" ELSE "start")
           /\ meter' = NewMeter(now) /\ UNCHANGED <<verdict, drain, dest>>
  <2>1. PICK r \in Requests : request = r[2]
    BY <1>1, <1>2 DEF PhaseInv
  <2>2. /\ Window(request) = NaN \/ Window(request) \in 1..16
        /\ request.dedupe => Window(request) \in {NaN, 1}
    <3>1. request.concurrency \in Int \cup {Absent, NaN}
      BY <2>1, RunAssumption
    <3>2. Resolves(request)
      BY <1>5 DEF Accepts
    <3> QED BY <3>1, <3>2, Windows
  <2>3. PlanOK'
    BY <1>5, <2>2 DEF PlanOK, Resolve
  <2>4. PhaseInv'
    BY <1>1, <1>2, <1>3, <1>5, <2>3 DEF PhaseInv
  <2>5. now = 0 /\ moves = 0 /\ listing = "idle" /\ \A o \in Objects : at[o] = "none"
    BY <1>2 DEF Untouched
  <2>6. /\ meter' \in Meters /\ meter'.last = 0 /\ Total(meter'.ms) = 0
        /\ \A s \in Stages : meter'.open[s] = 0
    BY <1>5, <2>5 DEF NewMeter, Meters, Total, Stages
  <2>7. Waiting("download")' = 0 /\ Waiting("write")' = 0
    <3>1. Stage("download")' = {} /\ Stage("write")' = {} /\ Cardinality({}) = 0
      BY <1>1, <2>5, FS_EmptySet DEF Stage
    <3> QED BY <3>1 DEF Waiting
  <2>8. MeterInv'
    <3>1. Total(meter.ms)' = 0 /\ Scale * meter'.last = 0
      BY <2>6 DEF Total, Scale
    <3>2. /\ meter'.open["list"] = 0 /\ meter'.open["download"] = 0 /\ meter'.open["archive"] = 0
      BY <2>6 DEF Stages
    <3> QED BY <1>1, <2>5, <2>6, <2>7, <3>1, <3>2 DEF MeterInv
  <2>9. aborted \in BOOLEAN /\ now' \in Nat /\ moves' \in Nat
    BY <1>1, <1>2 DEF TypeOK
  <2>10. phase' \in {"open", "start"} /\ verdict' \in {"none", "resolved", "rejected"}
    BY <1>2, <1>5 DEF TypeOK
  <2> QED BY <1>1, <1>2, <1>5, <2>4, <2>5, <2>6, <2>8, <2>9, <2>10, QuietStep
<1> QED BY <1>4, <1>5 DEF Bootstrap

(* The other steps of the engine leave the plan alone. *)
LEMMA EngineStep ==
  ASSUME IInv, UNCHANGED <<listingVars, driver, tasks, plan, clock>>,
         \/ dest' = dest \/ dest' = "destroyed"
         \/ dest = "open" /\ dest' = "ended",
         phase' \in {"open", "start", "data", "closing", "final", "settled"},
         verdict' \in {"none", "resolved", "rejected"},
         PhaseInv', listing = "asked" => phase' = phase
  PROVE  IInv'
<1>1. /\ UNCHANGED <<driver, at, forgotten, progress, archive, ends>>
      /\ UNCHANGED <<listing, received, yielded, source, complete, aborted>>
      /\ UNCHANGED <<meter, now, moves>> /\ plan' = plan
  BY DEF listingVars, tasks, clock
<1>2. meter' \in Meters /\ MeterInv'
  BY <1>1, MeterQuiet
<1>3. aborted \in BOOLEAN /\ now' \in Nat /\ moves' \in Nat
  BY <1>1 DEF IInv, TypeOK
<1> QED BY <1>1, <1>2, <1>3, QuietStep

LEMMA OpenCheckpointInv == IInv /\ OpenCheckpoint => IInv'
<1> SUFFICES ASSUME IInv, OpenCheckpoint PROVE IInv'
  OBVIOUS
<1>1. /\ phase = "open" /\ UNCHANGED <<listingVars, driver, tasks, plan, clock, stats, exit>>
      /\ phase' \in {"start", "settled"} /\ verdict' \in {verdict, "rejected"}
      /\ dest' \in {dest, "destroyed"}
  BY DEF OpenCheckpoint, Settle
<1>2. /\ TypeOK /\ PhaseInv /\ Untouched /\ dest # "ended" /\ verdict # "resolved" /\ exit # "0"
      /\ PlanOK
  BY <1>1 DEF IInv, PhaseInv
<1>3. PhaseInv'
  <2>1. PlanOK' /\ Untouched'
    BY <1>1, <1>2 DEF PlanOK, Untouched, listingVars, tasks, clock
  <2> QED BY <1>1, <1>2, <2>1 DEF PhaseInv
<1>4. listing # "asked"
  BY <1>2 DEF Untouched
<1> QED BY <1>1, <1>2, <1>3, <1>4, EngineStep DEF TypeOK

LEMMA StartInv == IInv /\ Start => IInv'
<1> SUFFICES ASSUME IInv, Start PROVE IInv'
  OBVIOUS
<1>1. /\ phase = "start" /\ UNCHANGED <<listingVars, driver, tasks, plan, clock, stats, exit>>
      /\ \/ phase' = "settled"
         \/ phase' = "data" /\ (plan.window = NaN => plan.priority)
      /\ verdict' \in {verdict, "rejected"} /\ dest' \in {dest, "destroyed"}
  BY DEF Start, Settle
<1>2. /\ TypeOK /\ PhaseInv /\ Untouched /\ dest # "ended" /\ verdict # "resolved" /\ exit # "0"
      /\ PlanOK
  BY <1>1 DEF IInv, PhaseInv
<1>3. PhaseInv'
  <2>1. PlanOK' /\ Untouched'
    BY <1>1, <1>2 DEF PlanOK, Untouched, listingVars, tasks, clock
  <2> QED BY <1>1, <1>2, <2>1 DEF PhaseInv
<1>4. listing # "asked"
  BY <1>2 DEF Untouched
<1> QED BY <1>1, <1>2, <1>3, <1>4, EngineStep DEF TypeOK

LEMMA DataEndsInv == IInv /\ DataEnds => IInv'
<1> SUFFICES ASSUME IInv, DataEnds PROVE IInv'
  OBVIOUS
<1>1. /\ phase = "data" /\ UNCHANGED <<listingVars, driver, tasks, plan, clock, stats, exit>>
      /\ \/ phase' = "settled" /\ driver = "rejected"
         \/ phase' = "closing" /\ driver = "resolved"
      /\ verdict' \in {verdict, "rejected"} /\ dest' \in {dest, "destroyed"}
  BY DEF DataEnds, Settle
<1>2. /\ TypeOK /\ PhaseInv /\ dest # "ended" /\ verdict # "resolved" /\ exit # "0" /\ PlanOK
  BY <1>1 DEF IInv, PhaseInv
<1>3. PhaseInv'
  <2>1. PlanOK'
    BY <1>1, <1>2 DEF PlanOK
  <2> QED BY <1>1, <1>2, <2>1 DEF PhaseInv
<1>4. listing # "asked"
  BY <1>1 DEF IInv, ListInv
<1> QED BY <1>1, <1>2, <1>3, <1>4, EngineStep DEF TypeOK

LEMMA CloseInv == IInv /\ Close => IInv'
<1> SUFFICES ASSUME IInv, Close PROVE IInv'
  OBVIOUS
<1>1. /\ phase = "closing" /\ UNCHANGED <<listingVars, driver, tasks, plan, clock, stats, exit>>
      /\ \/ /\ dest = "open" /\ dest' = "ended" /\ phase' = "final" /\ verdict' = verdict
         \/ /\ dest' \in {dest, "destroyed"}
            /\ phase' = "settled" /\ verdict' = "rejected"
  BY DEF Close, Settle
<1>2. /\ TypeOK /\ PhaseInv /\ dest # "ended" /\ verdict # "resolved" /\ exit # "0" /\ PlanOK
      /\ driver = "resolved"
  BY <1>1 DEF IInv, PhaseInv
<1>3. PhaseInv'
  <2>1. PlanOK'
    BY <1>1, <1>2 DEF PlanOK
  <2> QED BY <1>1, <1>2, <2>1 DEF PhaseInv
<1>4. listing # "asked"
  BY <1>1 DEF IInv, ListInv
<1> QED BY <1>1, <1>2, <1>3, <1>4, EngineStep DEF TypeOK

(* Nobody is in a stage when the data is complete: finish() balances. *)
LEMMA AtTheEnd ==
  ASSUME IInv, phase = "final"
  PROVE  /\ driver = "resolved" /\ dest = "ended" /\ PlanOK /\ verdict # "resolved"
         /\ Executing = {} /\ \A s \in Stages : meter.open[s] = 0
<1>1. driver = "resolved" /\ dest = "ended" /\ PlanOK /\ verdict # "resolved" /\ listing # "asked"
  BY DEF IInv, PhaseInv, ListInv
<1>2. Executing = {}
  BY <1>1 DEF IInv, PoolInv
<1>3. Stage("download") = {} /\ Stage("write") = {} /\ Cardinality({}) = 0
  BY <1>2, FS_EmptySet DEF Executing, Stage
<1>4. meter.open["list"] = 0 /\ meter.open["download"] = 0 /\ meter.open["archive"] = 0
  BY <1>1, <1>3 DEF IInv, MeterInv, Waiting
<1> QED BY <1>1, <1>2, <1>4 DEF Stages

LEMMA FinalizeInv == IInv /\ Finalize => IInv'
<1> SUFFICES ASSUME IInv, Finalize PROVE IInv'
  OBVIOUS
<1> DEFINE m == Advance(meter, now)
<1>1. /\ phase = "final" /\ UNCHANGED <<listingVars, driver, tasks, plan, now, moves, exit>>
      /\ meter' = m
  BY DEF Finalize
<1>2. /\ driver = "resolved" /\ dest = "ended" /\ PlanOK /\ verdict # "resolved"
      /\ Executing = {} /\ \A s \in Stages : meter.open[s] = 0
  BY <1>1, AtTheEnd
<1>3. TypeOK /\ meter \in Meters /\ now \in Nat /\ Weight(meter) <= 16 /\ MeterInv
  BY WeightBound DEF IInv, TypeOK
<1>4. m \in Meters /\ m.last = now /\ m.open = meter.open
  BY <1>3, MeterAdvances
<1>5. Balanced(m)
  BY <1>2, <1>4 DEF Balanced
<1>6. /\ phase' = "settled" /\ dest' = dest
      /\ \/ verdict' = "resolved" /\ stats'.progress = progress
         \/ verdict' = "rejected" /\ stats' = stats
  BY <1>2, <1>5 DEF Finalize, Settle
<1>7. PhaseInv'
  <2>1. PlanOK' /\ progress' = progress
    BY <1>1, <1>2 DEF PlanOK, tasks
  <2> QED BY <1>1, <1>2, <1>6, <2>1 DEF PhaseInv
<1>8. UNCHANGED <<listing, received, yielded, source, complete, aborted, driver, at, forgotten,
                  progress, archive, ends, now, moves, plan>>
  BY <1>1 DEF listingVars, tasks
<1>9. MeterInv'
  <2>1. /\ Waiting("download")' = Waiting("download") /\ Waiting("write")' = Waiting("write")
    BY <1>8 DEF Waiting, Stage
  <2>2. /\ meter'.open["list"] = (IF listing' = "asked" THEN 1 ELSE 0)
        /\ meter'.open["download"] = Waiting("download")'
        /\ meter'.open["archive"] = Waiting("write")'
    BY <1>1, <1>3, <1>4, <1>8, <2>1 DEF MeterInv
  <2>3. meter' \in Meters /\ meter'.last = now /\ Total(meter'.ms) = Total(Advance(meter, now).ms)
    BY <1>1, <1>4
  <2> QED BY <1>8, <2>2, <2>3, MeterStep
<1>10. meter' \in Meters /\ aborted \in BOOLEAN /\ now' \in Nat /\ moves' \in Nat
  BY <1>1, <1>3, <1>4, <1>8 DEF TypeOK
<1>11. listing # "asked"
  BY <1>1 DEF IInv, ListInv
<1>12. verdict' \in {"none", "resolved", "rejected"} /\ phase' = "settled" /\ dest' = dest
  BY <1>6
<1> HIDE DEF m
<1> QED BY <1>7, <1>8, <1>9, <1>10, <1>11, <1>12, QuietStep

LEMMA ExitInv == IInv /\ Exit => IInv'
<1> SUFFICES ASSUME IInv, Exit PROVE IInv'
  OBVIOUS
<1>1. /\ UNCHANGED <<listingVars, driver, tasks, plan, phase, verdict, clock, dest, stats>>
      /\ UNCHANGED request
      /\ exit' = "0" => dest = "ended" \/ verdict = "resolved"
  BY DEF Exit, engine, output
<1>2. TypeOK /\ PhaseInv
  BY DEF IInv
<1>3. phase # "bootstrap" \/ exit' # "0"
  BY <1>1, <1>2 DEF PhaseInv
<1>4. PhaseInv'
  <2>1. (PlanOK => PlanOK') /\ (Untouched => Untouched') /\ progress' = progress
    BY <1>1 DEF PlanOK, Untouched, listingVars, tasks, clock
  <2> QED BY <1>1, <1>2, <2>1 DEF PhaseInv
<1>5. CASE phase = "bootstrap"
  <2>1. TypeOK' /\ ListInv' /\ CountInv' /\ PoolInv' /\ MeterInv' /\ DedupeInv'
    BY <1>1 DEF IInv, TypeOK, ListInv, CountInv, PoolInv, MeterInv, DedupeInv, listingVars, tasks,
                clock, Held, Reported, Executing, Stage, Waiting, Total
  <2>2. ASSUME NEW o \in Objects PROVE TaskInv(o)'
    BY <1>1 DEF IInv, TaskInv, listingVars, tasks
  <2> QED BY <1>4, <2>1, <2>2 DEF IInv
<1>6. CASE phase # "bootstrap"
  BY <1>1, <1>2, <1>4, <1>6, EngineStep DEF TypeOK
<1> QED BY <1>5, <1>6

LEMMA SignalFiresInv == IInv /\ SignalFires => IInv'
<1> SUFFICES ASSUME IInv, SignalFires PROVE IInv'
  OBVIOUS
<1>1. /\ phase \in {"open", "data", "closing"} /\ aborted' = TRUE
      /\ UNCHANGED <<source, complete, listing, received, yielded, driver, at, forgotten,
                     progress, archive, ends, plan, phase, verdict, dest, meter, now, moves,
                     stats, exit>>
  BY DEF SignalFires, Abort, engine, tasks, clock, output
<1>2. TypeOK /\ PhaseInv
  BY DEF IInv
<1>3. PhaseInv'
  <2>1. (PlanOK => PlanOK') /\ (Untouched => Untouched')
    BY <1>1 DEF PlanOK, Untouched
  <2> QED BY <1>1, <1>2, <2>1 DEF PhaseInv
<1>4. meter' \in Meters /\ MeterInv'
  BY <1>1, MeterQuiet
<1>5. now' \in Nat /\ moves' \in Nat /\ verdict' \in {"none", "resolved", "rejected"}
  BY <1>1, <1>2 DEF TypeOK
<1> QED BY <1>1, <1>3, <1>4, <1>5, QuietStep

LEMMA DestinationFailsInv == IInv /\ DestinationFails => IInv'
<1> SUFFICES ASSUME IInv, DestinationFails PROVE IInv'
  OBVIOUS
<1>1. /\ phase = "data" /\ dest' = "destroyed"
      /\ UNCHANGED <<listingVars, driver, tasks, plan, phase, verdict, clock, stats, exit>>
  BY DEF DestinationFails, engine
<1>2. TypeOK /\ PhaseInv /\ dest # "ended"
  BY <1>1 DEF IInv, PhaseInv
<1>3. PhaseInv'
  <2>1. PlanOK => PlanOK'
    BY <1>1 DEF PlanOK
  <2> QED BY <1>1, <1>2, <2>1 DEF PhaseInv
<1> QED BY <1>1, <1>2, <1>3, EngineStep DEF TypeOK

(* A body that breaks may break the destination, and moves nothing else. *)
LEMMA BodyBreaksInv ==
  ASSUME IInv, NEW o \in Objects, BodyBreaks(o)
  PROVE  IInv'
<1>1. /\ at[o] = "write" /\ dest' \in {dest, "destroyed"}
      /\ UNCHANGED <<listingVars, driver, tasks, plan, phase, verdict, clock, stats, exit>>
  BY DEF BodyBreaks, engine
<1>2. /\ TypeOK /\ PhaseInv /\ dest # "ended" /\ verdict # "resolved" /\ exit # "0"
      /\ phase \in {"data", "settled"} /\ PlanOK
  BY <1>1, TaskRuns DEF IInv, Running
<1>3. PhaseInv'
  <2>1. PlanOK'
    BY <1>1, <1>2 DEF PlanOK
  <2> QED BY <1>1, <1>2, <2>1 DEF PhaseInv
<1> QED BY <1>1, <1>2, <1>3, EngineStep DEF TypeOK

LEMMA ClockMovesInv == IInv /\ ClockMoves => IInv'
<1> SUFFICES ASSUME IInv, ClockMoves PROVE IInv'
  OBVIOUS
<1>1. /\ phase = "data" /\ moves' = moves + 1 /\ now' \in {now - 1, now + 1} \cap Nat
      /\ UNCHANGED <<source, complete, listing, received, yielded, aborted, driver, at, forgotten,
                     progress, archive, ends, plan, phase, verdict, dest, meter, stats, exit>>
  BY DEF ClockMoves, engine, tasks, listingVars, output
<1>2. TypeOK /\ PhaseInv /\ MeterInv
  BY DEF IInv
<1>3. PhaseInv'
  <2>1. PlanOK => PlanOK'
    BY <1>1 DEF PlanOK
  <2> QED BY <1>1, <1>2, <2>1 DEF PhaseInv
<1>4. MeterInv'
  <2>1. /\ Waiting("download")' = Waiting("download") /\ Waiting("write")' = Waiting("write")
        /\ Total(meter.ms)' = Total(meter.ms)
    BY <1>1 DEF Waiting, Stage, Total
  <2>2. now \in Nat /\ moves \in Nat /\ now' \in Nat /\ meter.last \in Nat
    BY <1>1, <1>2 DEF TypeOK, Meters
  <2> DEFINE x == Total(meter.ms)
  <2>3. /\ now <= moves /\ x >= Scale * meter.last
        /\ now = moves => meter.last <= now /\ x = Scale * meter.last
        /\ Total(meter.ms)' = x
    BY <1>2, <2>1 DEF MeterInv
  <2> HIDE DEF x
  <2>4. /\ now' <= moves' /\ x >= Scale * meter.last
        /\ now' = moves' => meter.last <= now' /\ x = Scale * meter.last
    BY <1>1, <2>2, <2>3
  <2> QED BY <1>1, <1>2, <2>1, <2>3, <2>4 DEF MeterInv
<1>5. moves' \in Nat /\ now' \in Nat /\ meter' \in Meters /\ aborted' \in BOOLEAN
      /\ verdict' \in {"none", "resolved", "rejected"}
  BY <1>1, <1>2 DEF TypeOK
<1> QED BY <1>1, <1>3, <1>4, <1>5, QuietStep

-----------------------------------------------------------------------------
(* The steps of the pool. *)
(* The engine is in the data phase, and stays there. *)
LEMMA PoolPhase ==
  ASSUME IInv, phase = "data", UNCHANGED <<plan, phase, verdict, dest, stats, exit, progress>>
  PROVE  PhaseInv'
<1>1. /\ PhaseInv /\ PlanOK /\ dest # "ended" /\ verdict # "resolved" /\ exit # "0"
  BY DEF IInv, PhaseInv
<1>2. PlanOK'
  BY <1>1 DEF PlanOK
<1> QED BY <1>1, <1>2 DEF PhaseInv

LEMMA MeterOfListing ==
  ASSUME IInv, listing = "asked", listing' # "asked", UNCHANGED <<now, moves>>,
         meter' = Leave(meter, "list", now),
         Waiting("download")' = Waiting("download"), Waiting("write")' = Waiting("write")
  PROVE  meter' \in Meters /\ MeterInv'
<1>1. TypeOK /\ MeterInv /\ meter \in Meters /\ now \in Nat /\ Weight(meter) <= 16
  BY WeightBound DEF IInv, TypeOK
<1>2. "list" \in Stages /\ meter.open["list"] = 1
  BY <1>1 DEF Stages, MeterInv
<1>3. /\ meter' \in Meters /\ meter'.last = now /\ meter'.ms = Advance(meter, now).ms
      /\ meter'.open = [meter.open EXCEPT !["list"] = @ - 1]
  BY <1>1, <1>2, MeterLeaves
<1>4. /\ meter'.open["list"] = (IF listing' = "asked" THEN 1 ELSE 0)
      /\ meter'.open["download"] = Waiting("download")'
      /\ meter'.open["archive"] = Waiting("write")'
  BY <1>1, <1>2, <1>3 DEF MeterInv, Meters, Stages
<1>5. Total(meter'.ms) = Total(Advance(meter, now).ms)
  BY <1>3
<1> QED BY <1>3, <1>4, <1>5, MeterStep

(* A step of the pool that moves no task. *)
LEMMA DriverStep ==
  ASSUME IInv, phase = "data", UNCHANGED <<engine, tasks, dest, now, moves, stats, exit>>,
         UNCHANGED <<source, complete, yielded, aborted>>,
         listing' \in {"idle", "asked", "ended", "failed"}, received' \in Nat,
         driver' \in {"pull", "join", "resolved", "rejected"},
         driver = "pull",
         ListInv', meter' \in Meters, MeterInv',
         driver' \in {"join", "resolved"} => Stage("heap") = {} /\ listing' = "ended",
         driver' = "resolved" => Executing = {}
  PROVE  IInv'
<1>1. TypeOK /\ PoolInv /\ CountInv /\ DedupeInv /\ \A o \in Objects : TaskInv(o)
  BY DEF IInv
<1>2. /\ UNCHANGED <<at, forgotten, progress, archive, ends, plan, phase, verdict, dest, now,
                     moves, stats, exit, source, complete, yielded, aborted>>
  BY DEF engine, tasks
<1>3. PhaseInv'
  BY <1>2, PoolPhase
<1>4. TypeOK'
  BY <1>1, <1>2 DEF TypeOK
<1>5. Executing' = Executing /\ Stage("heap")' = Stage("heap")
  BY <1>2 DEF Executing, Stage
<1>6. PoolInv'
  <2> HIDE DEF Executing, Stage
  <2> QED BY <1>1, <1>2, <1>5 DEF PoolInv
<1>7. CountInv'
  <2>1. /\ Reported({"included"})' = Reported({"included"})
        /\ Reported({"skipped", "omitted"})' = Reported({"skipped", "omitted"})
    BY <1>2 DEF Reported
  <2> HIDE DEF Reported
  <2> QED BY <1>1, <1>2, <2>1 DEF CountInv
<1>8. DedupeInv'
  BY <1>1, <1>2, <1>5 DEF DedupeInv
<1>9. ASSUME NEW o \in Objects PROVE TaskInv(o)'
  <2>1. TaskInv(o)
    BY <1>1
  <2> QED BY <1>2, <2>1 DEF TaskInv
<1> QED BY <1>3, <1>4, <1>6, <1>7, <1>8, <1>9 DEF IInv

(* Nobody enters or leaves a timed place unless a task moves. *)
LEMMA TimedPlaces ==
  UNCHANGED at => /\ Waiting("download")' = Waiting("download")
                  /\ Waiting("write")' = Waiting("write")
BY DEF Waiting, Stage

LEMMA AskInv == IInv /\ Ask => IInv'
<1> SUFFICES ASSUME IInv, Ask PROVE IInv'
  OBVIOUS
<1>1. /\ phase = "data" /\ driver = "pull" /\ driver' = driver
      /\ UNCHANGED <<engine, tasks, dest, now, moves, stats, exit>>
      /\ UNCHANGED <<source, complete, received, yielded, aborted>>
      /\ listing = "idle" /\ listing' = "asked" /\ meter' = Enter(meter, "list", now)
  BY DEF Ask, AskNext, output
<1>2. TypeOK /\ MeterInv /\ meter \in Meters /\ now \in Nat /\ Weight(meter) <= 16 /\ ListInv
  BY WeightBound DEF IInv, TypeOK
<1>3. UNCHANGED <<at, phase>>
  BY <1>1 DEF engine, tasks
<1>4. ListInv'
  BY <1>1, <1>2, <1>3 DEF ListInv, Held
<1>5. "list" \in Stages
  BY DEF Stages
<1>6. /\ meter' \in Meters /\ meter'.last = now /\ meter'.ms = Advance(meter, now).ms
      /\ meter'.open = [meter.open EXCEPT !["list"] = @ + 1]
  BY <1>1, <1>2, <1>5, MeterEnters
<1>7. MeterInv'
  <2>1. /\ Waiting("download")' = Waiting("download") /\ Waiting("write")' = Waiting("write")
    BY <1>3, TimedPlaces
  <2>2. /\ meter'.open["list"] = (IF listing' = "asked" THEN 1 ELSE 0)
        /\ meter'.open["download"] = Waiting("download")'
        /\ meter'.open["archive"] = Waiting("write")'
    BY <1>1, <1>2, <1>6, <2>1 DEF MeterInv, Meters, Stages
  <2>3. Total(meter'.ms) = Total(Advance(meter, now).ms)
    BY <1>6
  <2> QED BY <1>1, <1>6, <2>2, <2>3, MeterStep
<1>8. received' \in Nat
  BY <1>1, <1>2 DEF TypeOK
<1> QED BY <1>1, <1>4, <1>6, <1>7, <1>8, DriverStep

LEMMA PageInv == IInv /\ Page => IInv'
<1> SUFFICES ASSUME IInv, Page PROVE IInv'
  OBVIOUS
<1>1. /\ UNCHANGED <<engine, tasks, dest, clock, stats, exit, driver>>
      /\ UNCHANGED <<source, complete, listing, yielded, aborted>>
      /\ listing = "asked" /\ yielded = received /\ received < Held
      /\ received' = IF received + PageSize > Held THEN Held ELSE received + PageSize
  BY DEF Page, ReceivePage, output
<1>2. TypeOK /\ ListInv
  BY DEF IInv
<1>3. phase = "data" /\ driver = "pull"
  BY <1>1, <1>2 DEF ListInv
<1>4. UNCHANGED <<at, phase, meter, now, moves>>
  BY <1>1 DEF engine, tasks, clock
<1>5. received' \in Nat /\ received' >= received /\ received' <= Held
  <2>1. received \in Nat /\ PageSize \in Nat /\ Held \in Nat
    BY <1>2, ListingAssumption DEF TypeOK, Held
  <2> HIDE DEF Held
  <2> QED BY <1>1, <2>1
<1>6. ListInv'
  <2>1. Held' = Held
    BY <1>1 DEF Held
  <2> HIDE DEF Held
  <2>2. yielded' <= received'
    BY <1>1, <1>2, <1>5 DEF TypeOK
  <2> QED BY <1>1, <1>2, <1>3, <1>4, <1>5, <2>1, <2>2 DEF ListInv
<1>7. meter' \in Meters /\ MeterInv'
  BY <1>1, <1>4, MeterQuiet
<1>8. listing' \in {"idle", "asked", "ended", "failed"}
  BY <1>1
<1> QED BY <1>1, <1>3, <1>4, <1>5, <1>6, <1>7, <1>8, DriverStep

LEMMA ExhaustInv == IInv /\ Exhaust => IInv'
<1> SUFFICES ASSUME IInv, Exhaust PROVE IInv'
  OBVIOUS
<1>1. /\ phase = "data" /\ UNCHANGED <<engine, tasks, dest, now, moves, stats, exit>>
      /\ UNCHANGED <<source, complete, received, yielded, aborted>>
      /\ listing = "asked" /\ listing' = "ended" /\ yielded = received
      /\ yielded = Held \/ (aborted /\ source \in {"gcs", "azure"})
      /\ meter' = Leave(meter, "list", now)
      /\ driver' = IF plan.priority THEN "pull"
                   ELSE IF Executing = {} THEN "resolved" ELSE "join"
  BY DEF Exhaust, Ends, output
<1>2. TypeOK /\ ListInv /\ PoolInv
  BY DEF IInv
<1>3. driver = "pull"
  BY <1>1, <1>2 DEF ListInv
<1>4. UNCHANGED <<at, phase>>
  BY <1>1 DEF engine, tasks
<1>5. ListInv'
  <2>1. Held' = Held
    BY <1>1 DEF Held
  <2> HIDE DEF Held
  <2> QED BY <1>1, <1>2, <2>1 DEF ListInv
<1>6. meter' \in Meters /\ MeterInv'
  BY <1>1, <1>4, TimedPlaces, MeterOfListing
<1>7. driver' \in {"join", "resolved"} => Stage("heap") = {} /\ listing' = "ended"
  BY <1>1, <1>2 DEF PoolInv
<1>8. driver' \in {"pull", "join", "resolved", "rejected"} /\ received' \in Nat
      /\ (driver' = "resolved" => Executing = {})
  BY <1>1, <1>2 DEF TypeOK
<1> QED BY <1>1, <1>3, <1>5, <1>6, <1>7, <1>8, DriverStep

LEMMA ListingThrowsInv == IInv /\ ListingThrows => IInv'
<1> SUFFICES ASSUME IInv, ListingThrows PROVE IInv'
  OBVIOUS
<1>1. /\ phase = "data" /\ UNCHANGED <<engine, tasks, dest, now, moves, stats, exit>>
      /\ UNCHANGED <<source, complete, received, yielded, aborted>>
      /\ listing = "asked" /\ listing' = "failed"
      /\ meter' = Leave(meter, "list", now) /\ driver' = "rejected"
  BY DEF ListingThrows, ListingFails, output
<1>2. TypeOK /\ ListInv
  BY DEF IInv
<1>3. driver = "pull"
  BY <1>1, <1>2 DEF ListInv
<1>4. UNCHANGED <<at, phase>>
  BY <1>1 DEF engine, tasks
<1>5. ListInv'
  <2>1. Held' = Held
    BY <1>1 DEF Held
  <2> HIDE DEF Held
  <2> QED BY <1>1, <1>2, <2>1 DEF ListInv
<1>6. meter' \in Meters /\ MeterInv'
  BY <1>1, <1>4, TimedPlaces, MeterOfListing
<1>7. received' \in Nat
  BY <1>1, <1>2 DEF TypeOK
<1> QED BY <1>1, <1>3, <1>5, <1>6, <1>7, DriverStep

LEMMA PoolAbortsInv == IInv /\ PoolAborts => IInv'
<1> SUFFICES ASSUME IInv, PoolAborts PROVE IInv'
  OBVIOUS
<1>1. /\ phase = "data" /\ driver = "pull" /\ listing # "asked" /\ driver' = "rejected"
      /\ UNCHANGED <<listingVars, engine, tasks, dest, clock, stats, exit>>
  BY DEF PoolAborts, output
<1>2. TypeOK /\ ListInv
  BY DEF IInv
<1>3. UNCHANGED <<at, meter, now, moves, source, complete, received, yielded, aborted, listing>>
  BY <1>1 DEF tasks, clock, listingVars
<1>4. ListInv'
  <2>1. Held' = Held
    BY <1>3 DEF Held
  <2> HIDE DEF Held
  <2> QED BY <1>1, <1>2, <1>3, <2>1 DEF ListInv
<1>5. meter' \in Meters /\ MeterInv'
  BY <1>3, MeterQuiet
<1>6. received' \in Nat /\ listing' \in {"idle", "asked", "ended", "failed"}
  BY <1>2, <1>3 DEF TypeOK
<1> QED BY <1>1, <1>3, <1>4, <1>5, <1>6, DriverStep

LEMMA TakeInv == IInv /\ Take => IInv'
<1> SUFFICES ASSUME IInv, Take PROVE IInv'
  OBVIOUS
<1> DEFINE o == yielded + 1  p == IF plan.priority THEN "heap" ELSE "start"
<1>1. /\ phase = "data" /\ listing = "asked" /\ listing' = "idle" /\ yielded < received
      /\ yielded' = o /\ at' = [at EXCEPT ![o] = p]
      /\ meter' = Leave(meter, "list", now)
      /\ UNCHANGED <<source, complete, received, aborted, plan, phase, verdict, forgotten,
                     progress, archive, ends, dest, now, moves, stats, exit>>
  BY DEF Take, Yields, engine, output
<1>2. /\ TypeOK /\ ListInv /\ PoolInv /\ PhaseInv /\ CountInv /\ DedupeInv
      /\ \A x \in Objects : TaskInv(x)
  BY DEF IInv
<1>3. driver = "pull"
  BY <1>1, <1>2 DEF ListInv
<1>4. o \in Objects /\ o > yielded /\ yielded \in Nat /\ Held \in Nat
  BY <1>1, <1>2, ListingAssumption DEF TypeOK, ListInv, Held, Objects
<1>5. /\ at[o] = "none" /\ ends[o] = <<>> /\ o \notin archive /\ o \notin forgotten
  <2>1. at[o] = "none"
    BY <1>2, <1>4 DEF TaskInv
  <2> QED BY <1>2, <1>4, <2>1 DEF TaskInv, Early
<1>6. p \in {"heap", "start"} /\ p \in Places /\ p \notin {"download", "write"} /\ p \notin Counted
  BY DEF Places, Counted
<1>7. at' \in [Objects -> Places] /\ at'[o] = p /\ \A x \in Objects \ {o} : at'[x] = at[x]
  BY <1>1, <1>2, <1>4, <1>6 DEF TypeOK
<1>8. Executing' = (IF plan.priority THEN Executing ELSE Executing \cup {o}) /\ o \notin Executing
  <2>1. /\ Executing = {x \in Objects : at[x] \notin {"none", "heap", "ended"}}
        /\ Executing' = {x \in Objects : at'[x] \notin {"none", "heap", "ended"}}
    BY DEF Executing
  <2> HIDE DEF o
  <2> QED BY <1>4, <1>5, <1>6, <1>7, <2>1
<1>9. Stage("heap")' = (IF plan.priority THEN Stage("heap") \cup {o} ELSE Stage("heap"))
  <2>1. Stage("heap") = {x \in Objects : at[x] = "heap"}
        /\ Stage("heap")' = {x \in Objects : at'[x] = "heap"}
    BY DEF Stage
  <2> HIDE DEF o
  <2> QED BY <1>4, <1>5, <1>6, <1>7, <2>1
<1>10. driver' = IF plan.priority THEN "pull"
                 ELSE IF Full(Executing \cup {o}) THEN "race" ELSE "pull"
  BY <1>3 DEF Take
<1>11. meter' \in Meters /\ MeterInv'
  <2>1. \A s \in Places :
          /\ Waiting(s) \in Nat /\ Waiting(s)' \in Nat
          /\ Waiting(s)' = Waiting(s) + (IF s = p THEN 1 ELSE 0) - (IF s = at[o] THEN 1 ELSE 0)
    BY <1>1, <1>2, <1>4, <1>6, MoveCounts
  <2>2. "download" \in Places /\ "write" \in Places
    BY DEF Places
  <2>3. /\ Waiting("download")' = Waiting("download") /\ Waiting("write")' = Waiting("write")
    <3>1. "download" # p /\ "write" # p /\ "download" # at[o] /\ "write" # at[o]
      BY <1>5, <1>6
    <3> HIDE DEF o, p
    <3> QED BY <2>1, <2>2, <3>1
  <2>4. now' = now /\ moves' = moves
    BY <1>1
  <2> QED BY <1>1, <2>3, <2>4, MeterOfListing
<1>12. TypeOK'
  BY <1>1, <1>2, <1>4, <1>7, <1>10, <1>11 DEF TypeOK
<1>13. PhaseInv'
  BY <1>1, PoolPhase
<1>14. ListInv'
  <2>1. Held' = Held /\ yielded' <= received' /\ received' <= Held
    <3>1. Held' = Held
      BY <1>1 DEF Held
    <3>2. received \in Nat /\ received <= Held
      BY <1>2 DEF TypeOK, ListInv
    <3> QED BY <1>1, <1>4, <3>1, <3>2
  <2> HIDE DEF Held
  <2> QED BY <1>1, <2>1 DEF ListInv
<1>15. ~ plan.priority => plan.window \in 1..16 /\ Cardinality(Executing) < plan.window
  <2>1. ~ plan.priority => plan.window \in 1..16
    BY <1>1, <1>2 DEF PhaseInv, PlanOK
  <2>2. Executing = {} => Cardinality(Executing) = 0
    BY FS_EmptySet
  <2>3. Executing # {} => Cardinality(Executing) < plan.window
    BY <1>2, <1>3 DEF PoolInv
  <2> HIDE DEF Executing
  <2> QED BY <2>1, <2>2, <2>3
<1>16. /\ Cardinality(Executing) \in Nat /\ Cardinality(Executing \cup {o}) \in Nat
       /\ Cardinality(Executing \cup {o}) = Cardinality(Executing) + 1
  <2>1. Executing \in SUBSET Objects
    BY DEF Executing
  <2> HIDE DEF o, Executing
  <2> QED BY <1>4, <1>8, <2>1, Sizes, FS_AddElement
<1>17. PoolInv'
  <2> DEFINE X == Executing  n == Cardinality(Executing)  k == Cardinality(Executing \cup {o})
  <2>1. CASE plan.priority
    <3> HIDE DEF Executing, Stage
    <3> QED BY <1>1, <1>2, <1>3, <1>8, <1>9, <1>10, <2>1 DEF PoolInv
  <2>2. CASE ~ plan.priority
    <3>1. Executing' = Executing \cup {o} /\ Stage("heap")' = Stage("heap") /\ plan' = plan
      BY <1>1, <1>8, <1>9, <2>2
    <3>2. Cardinality(Executing') = k
      BY <3>1
    <3>3. k <= plan.window /\ plan.window \in 1..16
      <4>1. n \in Nat /\ k = n + 1 /\ n < plan.window /\ plan.window \in 1..16
        BY <1>15, <1>16, <2>2
      <4> HIDE DEF n, k
      <4> QED BY <4>1
    <3>4. driver' = "pull" => k < plan.window
      <4>1. NaN \notin Int
        BY OptionAssumption
      <4>2. driver' = "pull" => ~ Full(Executing \cup {o})
        BY <1>10, <2>2
      <4>3. driver' = "pull" => ~ (k >= plan.window)
        BY <3>3, <4>1, <4>2 DEF Full
      <4> HIDE DEF k
      <4> QED BY <1>16, <3>3, <4>3 DEF k
    <3>5. driver' \in {"pull", "race"}
      BY <1>10, <2>2
    <3>6. Stage("heap") = {}
      BY <1>2, <2>2 DEF PoolInv
    <3> HIDE DEF Executing, Stage, k
    <3> QED BY <3>1, <3>2, <3>3, <3>4, <3>5, <3>6 DEF PoolInv
  <2> QED BY <2>1, <2>2
<1>18. CountInv'
  <2>1. Reported({"included"})' = Reported({"included"})
        /\ Reported({"skipped", "omitted"})' = Reported({"skipped", "omitted"})
    BY <1>1 DEF Reported
  <2>2. {x \in Objects : at'[x] \in Counted} = {x \in Objects : at[x] \in Counted}
    <3>1. at[o] \notin Counted
      BY <1>5 DEF Counted
    <3> HIDE DEF o
    <3> QED BY <1>4, <1>6, <1>7, <3>1
  <2>3. CountInv' = (dest' # "destroyed" =>
          /\ progress'.included = Cardinality(Reported({"included"})')
          /\ progress'.skipped = Cardinality(Reported({"skipped", "omitted"})')
          /\ progress'.listed = Cardinality({x \in Objects : at'[x] \in Counted})
                                 + progress'.included + progress'.skipped)
    BY DEF CountInv
  <2> HIDE DEF Reported
  <2> QED BY <1>1, <1>2, <2>1, <2>2, <2>3 DEF CountInv
<1>19. DedupeInv'
  <2> SUFFICES ASSUME plan # Absent, plan.dedupe PROVE DedupeInv'
    BY <1>1 DEF DedupeInv
  <2>1. Executing = {} /\ archive \subseteq Objects
    BY <1>2, <1>3 DEF DedupeInv, TypeOK
  <2>2. Executing' # {} => driver' = "race"
    <3>1. CASE plan.priority
      BY <1>8, <2>1, <3>1
    <3>2. CASE ~ plan.priority
      <4>1. plan.window = 1
        <5>1. NaN \notin Int /\ PlanOK
          BY <1>1, <1>2, OptionAssumption DEF PhaseInv
        <5> QED BY <1>15, <3>2, <5>1 DEF PlanOK
      <4>2. Cardinality(Executing \cup {o}) = 1
        <5>1. Cardinality(Executing) = 0
          BY <2>1, FS_EmptySet
        <5> QED BY <1>16, <5>1
      <4>3. Full(Executing \cup {o})
        <5>1. NaN # 1
          BY OptionAssumption
        <5> QED BY <4>1, <4>2, <5>1 DEF Full
      <4> QED BY <1>10, <3>2, <4>3
    <3> QED BY <3>1, <3>2
  <2>3. \A x \in archive : ends[x] # <<>> /\ ends[x][1] = "included"
    BY <1>2, <1>3, <2>1 DEF DedupeInv
  <2>4. \A x \in Objects : at'[x] \in {"gate", "download", "write"} => at'[x] = at[x]
    BY <1>6, <1>7
  <2>5. /\ \A x \in Objects : at[x] \in {"gate", "download", "write"} =>
             \A y \in archive : Name[y] # Name[x]
        /\ \A x, y \in archive : Name[x] = Name[y] => x = y
    BY <1>2 DEF DedupeInv
  <2> HIDE DEF Executing
  <2> QED BY <1>1, <2>2, <2>3, <2>4, <2>5 DEF DedupeInv
<1>20. ASSUME NEW x \in Objects PROVE TaskInv(x)'
  <2>1. CASE x = o
    BY <1>1, <1>5, <1>6, <1>7, <2>1 DEF TaskInv, Early
  <2>2. CASE x # o
    <3>1. TaskInv(x) /\ at'[x] = at[x]
      BY <1>2, <1>7, <2>2
    <3>2. x > yielded' <=> x > yielded
      BY <1>1, <1>4, <2>2 DEF Objects
    <3>3. driver = "rejected" => driver' = "rejected"
      BY <1>3
    <3> HIDE DEF o
    <3> QED BY <1>1, <3>1, <3>2, <3>3 DEF TaskInv
  <2> QED BY <2>1, <2>2
<1> HIDE DEF o, p
<1> QED BY <1>11, <1>12, <1>13, <1>14, <1>17, <1>18, <1>19, <1>20 DEF IInv

LEMMA StartBestInv == IInv /\ StartBest => IInv'
<1> SUFFICES ASSUME IInv, StartBest PROVE IInv'
  OBVIOUS
<1>1. /\ phase = "data" /\ driver = "pull" /\ plan.priority /\ listing # "asked"
      /\ Waiting("heap") = BufferMax \/ listing = "ended"
      /\ UNCHANGED <<source, complete, received, yielded, aborted, listing, plan, phase, verdict,
                     forgotten, progress, archive, ends, dest, meter, now, moves, stats, exit>>
  BY DEF StartBest, engine, clock, listingVars, Exhausted, output
<1>2. /\ TypeOK /\ ListInv /\ PoolInv /\ PhaseInv /\ CountInv /\ MeterInv /\ DedupeInv
      /\ \A x \in Objects : TaskInv(x)
  BY DEF IInv
<1>3. PlanOK /\ NaN \notin Int
  BY <1>1, <1>2, OptionAssumption DEF PhaseInv
<1>4. Stage("heap") = {} => listing = "ended"
  <2>1. Stage("heap") = {} => Waiting("heap") = 0
    BY FS_EmptySet DEF Waiting
  <2> QED BY <1>1, <2>1, RunAssumption
<1>5. \E best \in SUBSET Stage("heap") :
        /\ at' = [o \in Objects |-> IF o \in best THEN "start" ELSE at[o]]
        /\ driver' \in {"race", "resolved", "spin"}
        /\ driver' = "resolved" => Stage("heap") = {} /\ Executing = {}
        /\ best # {} \/ Executing # {} => driver' = "race"
        /\ best # {} => /\ plan.window # NaN
                        /\ Cardinality(Executing) + Cardinality(best) <= plan.window
  <2>1. CASE plan.window = NaN
    <3>1. Executing = {}
      BY <1>2, <1>3, <2>1 DEF PoolInv
    <3>2. at' = at /\ driver' = (IF Waiting("heap") = 0 THEN "resolved" ELSE "spin")
      BY <2>1 DEF StartBest
    <3>3. at' = [o \in Objects |-> IF o \in {} THEN "start" ELSE at[o]]
      BY <1>2, <3>2 DEF TypeOK
    <3>4. Waiting("heap") = 0 => Stage("heap") = {}
      <4>1. Stage("heap") \in SUBSET Objects
        BY DEF Stage
      <4> QED BY <4>1, Sizes DEF Waiting
    <3>5. {} \in SUBSET Stage("heap")
      OBVIOUS
    <3> HIDE DEF Executing, Stage
    <3> QED BY <3>1, <3>2, <3>3, <3>4, <3>5
  <2>2. CASE plan.window # NaN
    <3>1. PICK best \in SUBSET Stage("heap") :
            /\ Cardinality(Executing) + Cardinality(best) <= plan.window
            /\ best = Stage("heap") \/ Full(Executing \cup best)
            /\ at' = [o \in Objects |-> IF o \in best THEN "start" ELSE at[o]]
            /\ driver' = IF Executing \cup best = {} THEN "resolved" ELSE "race"
      BY <2>2 DEF StartBest
    <3>2. ASSUME driver' = "resolved" PROVE Stage("heap") = {} /\ Executing = {}
      <4>1. Executing \cup best = {} /\ Executing = {} /\ best = {}
        BY <3>1, <3>2
      <4>2. ~ Full({})
        <5>1. plan.window \in 1..16 /\ Cardinality({}) = 0
          BY <1>3, <2>2, FS_EmptySet DEF PlanOK
        <5> QED BY <5>1 DEF Full
      <4> QED BY <3>1, <4>1, <4>2
    <3> HIDE DEF Executing, Stage
    <3> QED BY <2>2, <3>1, <3>2
  <2> QED BY <2>1, <2>2
<1>6. PICK best \in SUBSET Stage("heap") :
        /\ at' = [o \in Objects |-> IF o \in best THEN "start" ELSE at[o]]
        /\ driver' \in {"race", "resolved", "spin"}
        /\ driver' = "resolved" => Stage("heap") = {} /\ Executing = {}
        /\ best # {} \/ Executing # {} => driver' = "race"
        /\ best # {} => /\ plan.window # NaN
                        /\ Cardinality(Executing) + Cardinality(best) <= plan.window
  BY <1>5
<1>7. /\ at' \in [Objects -> Places]
      /\ \A x \in Objects : at'[x] = at[x] \/ (at[x] = "heap" /\ at'[x] = "start")
      /\ \A x \in Objects : at'[x] = IF x \in best THEN "start" ELSE at[x]
      /\ \A x \in best : x \in Objects /\ at[x] = "heap"
  BY <1>2, <1>6 DEF TypeOK, Stage, Places
<1>8. Executing' = Executing \cup best
  <2>1. /\ Executing = {x \in Objects : at[x] \notin {"none", "heap", "ended"}}
        /\ Executing' = {x \in Objects : at'[x] \notin {"none", "heap", "ended"}}
    BY DEF Executing
  <2> QED BY <1>7, <2>1
<1>9. Stage("heap")' \subseteq Stage("heap")
  BY <1>7 DEF Stage
<1>10. PoolInv'
  <2>1. Executing' # {} => /\ plan.window \in 1..16 /\ driver' = "race"
                           /\ Cardinality(Executing') <= plan.window
    <3>1. CASE best = {}
      <4>1. Executing' = Executing
        BY <1>8, <3>1
      <4> HIDE DEF Executing
      <4> QED BY <1>2, <1>6, <4>1 DEF PoolInv
    <3>2. CASE best # {}
      <4>1. plan.window \in 1..16 /\ Cardinality(Executing) + Cardinality(best) <= plan.window
        BY <1>3, <1>6, <3>2 DEF PlanOK
      <4>2. Executing \in SUBSET Objects /\ best \in SUBSET Objects /\ Executing \cap best = {}
        BY <1>7 DEF Executing
      <4>3. Cardinality(Executing \cup best)
              = Cardinality(Executing) + Cardinality(best) - Cardinality(Executing \cap best)
        BY <4>2, Sizes, FS_Union
      <4>4. Cardinality(Executing \cap best) = 0
        BY <4>2, FS_EmptySet
      <4>5. Cardinality(Executing) \in Nat /\ Cardinality(best) \in Nat
        BY <4>2, Sizes
      <4> DEFINE n == Cardinality(Executing)  b == Cardinality(best)
                 k == Cardinality(Executing \cup best)  z == Cardinality(Executing \cap best)
      <4>6. k <= plan.window
        <5>1. n \in Nat /\ b \in Nat /\ k = n + b - z /\ z = 0 /\ n + b <= plan.window
          BY <4>1, <4>3, <4>4, <4>5
        <5> HIDE DEF n, b, k, z
        <5> QED BY <4>1, <5>1
      <4>7. Cardinality(Executing') = k
        BY <1>8
      <4> HIDE DEF Executing, k
      <4> QED BY <1>6, <3>2, <4>1, <4>6, <4>7
    <3> QED BY <3>1, <3>2
  <2>2. driver' = "resolved" => Stage("heap")' = {} /\ listing' = "ended" /\ Executing' = {}
    <3>1. driver' = "resolved" => Stage("heap") = {} /\ Executing = {} /\ best = {}
      BY <1>6
    <3> HIDE DEF Executing, Stage
    <3> QED BY <1>1, <1>4, <1>8, <1>9, <3>1
  <2>3. driver' # "join" /\ driver' # "pull"
    BY <1>6
  <2> HIDE DEF Executing, Stage
  <2> QED BY <1>1, <2>1, <2>2, <2>3 DEF PoolInv
<1>11. TypeOK'
  <2>1. driver' \in {"pull", "race", "join", "resolved", "rejected", "spin"}
    BY <1>6
  <2> QED BY <1>1, <1>2, <1>7, <2>1 DEF TypeOK
<1>12. PhaseInv'
  BY <1>1, PoolPhase
<1>13. ListInv'
  <2>1. Held' = Held
    BY <1>1 DEF Held
  <2> HIDE DEF Held
  <2> QED BY <1>1, <1>2, <2>1 DEF ListInv
<1>14. meter' \in Meters /\ MeterInv'
  <2>1. /\ Waiting("download")' = Waiting("download") /\ Waiting("write")' = Waiting("write")
    <3>1. Stage("download")' = Stage("download") /\ Stage("write")' = Stage("write")
      BY <1>7 DEF Stage
    <3> QED BY <3>1 DEF Waiting
  <2>2. UNCHANGED <<meter, now, moves, listing>>
    BY <1>1
  <2> QED BY <1>2, <2>1, <2>2, MeterUntouched DEF TypeOK
<1>15. CountInv'
  <2>1. Reported({"included"})' = Reported({"included"})
        /\ Reported({"skipped", "omitted"})' = Reported({"skipped", "omitted"})
    BY <1>1 DEF Reported
  <2>2. {x \in Objects : at'[x] \in Counted} = {x \in Objects : at[x] \in Counted}
    BY <1>7 DEF Counted
  <2>3. CountInv' = (dest' # "destroyed" =>
          /\ progress'.included = Cardinality(Reported({"included"})')
          /\ progress'.skipped = Cardinality(Reported({"skipped", "omitted"})')
          /\ progress'.listed = Cardinality({x \in Objects : at'[x] \in Counted})
                                 + progress'.included + progress'.skipped)
    BY DEF CountInv
  <2> HIDE DEF Reported
  <2> QED BY <1>1, <1>2, <2>1, <2>2, <2>3 DEF CountInv
<1>16. DedupeInv'
  <2> SUFFICES ASSUME plan # Absent, plan.dedupe PROVE DedupeInv'
    BY <1>1 DEF DedupeInv
  <2>1. Executing' # {} => driver' = "race"
    BY <1>6, <1>8
  <2>2. \A x \in archive : (ends[x] # <<>> /\ ends[x][1] = "included") \/ x \in Executing'
    BY <1>1, <1>2, <1>8 DEF DedupeInv
  <2>3. \A x \in Objects : at'[x] \in {"gate", "download", "write"} => at'[x] = at[x]
    BY <1>7
  <2>4. /\ \A x \in Objects : at[x] \in {"gate", "download", "write"} =>
             \A y \in archive : Name[y] # Name[x]
        /\ \A x, y \in archive : Name[x] = Name[y] => x = y
    BY <1>2 DEF DedupeInv
  <2> HIDE DEF Executing
  <2> QED BY <1>1, <2>1, <2>2, <2>3, <2>4 DEF DedupeInv
<1>17. ASSUME NEW x \in Objects PROVE TaskInv(x)'
  <2>1. TaskInv(x)
    BY <1>2
  <2> QED BY <1>1, <1>7, <2>1 DEF TaskInv, Early
<1> QED BY <1>10, <1>11, <1>12, <1>13, <1>14, <1>15, <1>16, <1>17 DEF IInv

-----------------------------------------------------------------------------
LEMMA TaskPreserves ==
  ASSUME IInv, NEW o \in Objects, Task(o)
  PROVE  IInv'
BY RefuseTaskInv, BeginTaskInv, DownloadInv, GateThrowsInv, DownloadedInv, DownloadFailsInv,
   WrittenInv, BodyBreaksInv, WriteFailsInv, RecordInv, RejectInv DEF Task

LEMMA NextInv == IInv /\ [Next]_vars => IInv'
<1> SUFFICES ASSUME IInv, [Next]_vars PROVE IInv'
  OBVIOUS
<1>1. CASE Engine
  BY <1>1, BootstrapInv, OpenCheckpointInv, StartInv, DataEndsInv, CloseInv, FinalizeInv, ExitInv
     DEF Engine
<1>2. CASE Pool
  BY <1>2, AskInv, PageInv, TakeInv, ExhaustInv, ListingThrowsInv, StartBestInv, PoolAbortsInv
     DEF Pool
<1>3. CASE \E o \in Objects : Task(o)
  BY <1>3, TaskPreserves
<1>4. CASE SignalFires \/ DestinationFails \/ ClockMoves
  BY <1>4, SignalFiresInv, DestinationFailsInv, ClockMovesInv
<1>5. CASE UNCHANGED vars
  <2>1. TypeOK' /\ ListInv' /\ CountInv' /\ PoolInv' /\ MeterInv' /\ DedupeInv' /\ PhaseInv'
    BY <1>5 DEF IInv, TypeOK, ListInv, CountInv, PoolInv, MeterInv, DedupeInv, PhaseInv, vars,
                listingVars, tasks, clock, engine, output, Held, Reported, Executing, Stage, Waiting,
                Total, PlanOK, Untouched
  <2>2. ASSUME NEW o \in Objects PROVE TaskInv(o)'
    BY <1>5 DEF IInv, TaskInv, vars, listingVars, tasks, output
  <2> QED BY <2>1, <2>2 DEF IInv
<1> QED BY <1>1, <1>2, <1>3, <1>4, <1>5 DEF Next

(* The zip file and the page loop of GCS, of which IInv does not speak. *)
FlagsOK == leaving \in BOOLEAN /\ zipfile \in {"sound", "errored", "blocked"}

LEMMA FlagsInv == FlagsOK /\ [Next]_vars => FlagsOK'
<1> SUFFICES ASSUME FlagsOK, [Next]_vars PROVE FlagsOK'
  OBVIOUS
<1>1. CASE Engine
  BY <1>1 DEF FlagsOK, Engine, Bootstrap, OpenCheckpoint, Start, DataEnds, Close, Finalize, Exit,
              listingVars, output
<1>2. CASE Pool
  BY <1>2 DEF FlagsOK, Pool, Ask, Page, Take, Exhaust, ListingThrows, StartBest, PoolAborts,
              AskNext, ReceivePage, Yields, Ends, ListingFails, listingVars, output
<1>3. ASSUME NEW o \in Objects, Task(o) PROVE FlagsOK'
  BY <1>3 DEF FlagsOK, Task, RefuseTask, BeginTask, Download, GateThrows, Downloaded,
              DownloadFails, Written, BodyBreaks, WriteFails, Record, Reject, listingVars, output
<1>4. CASE SignalFires \/ DestinationFails \/ ClockMoves
  BY <1>4 DEF FlagsOK, SignalFires, Abort, DestinationFails, ClockMoves, listingVars, output
<1>5. CASE UNCHANGED vars
  BY <1>5 DEF FlagsOK, vars, listingVars, output
<1> QED BY <1>1, <1>2, <1>3, <1>4, <1>5 DEF Next

LEMMA TypesHold == Spec => [](TypeOK /\ FlagsOK)
<1>1. Init => FlagsOK
  BY DEF Init, ListingInit, FlagsOK
<1>2. IInv => TypeOK
  BY DEF IInv
<1> QED BY <1>1, <1>2, InitInv, NextInv, FlagsInv, PTL DEF Spec

LEMMA Invariance == Spec => []IInv
BY InitInv, NextInv, PTL DEF Spec

(* The final states: every object that was listed has ended, one way or    *)
(* another.                                                                *)
LEMMA AllEnded ==
  ASSUME IInv, verdict = "resolved" \/ exit = "0"
  PROVE  /\ dest = "ended" /\ driver = "resolved" /\ Executing = {} /\ listing = "ended"
         /\ \A o \in Objects : at[o] \in {"none", "ended"}
<1>1. dest = "ended" /\ driver = "resolved"
  BY DEF IInv, PhaseInv
<1>2. Executing = {} /\ Stage("heap") = {} /\ listing = "ended"
  BY <1>1 DEF IInv, PoolInv
<1> QED BY <1>1, <1>2 DEF Executing, Stage

(* A run that reports success, by its promise or by its exit code, has     *)
(* accounted for every object under the prefix: what is missing without a  *)
(* word is missing because of an abort, or of an index that was cut short. *)
THEOREM NoSilentLoss == Spec => []LossNeedsAnAbort
<1>1. IInv => LossNeedsAnAbort
  <2> SUFFICES ASSUME IInv, verdict = "resolved" \/ exit = "0", NEW o \in Objects
               PROVE  \/ o \in archive
                      \/ ends[o] \in {<<"skipped">>, <<"omitted">>}
                      \/ o > yielded /\ (~ complete \/ (aborted /\ source \in {"gcs", "azure"}))
                      \/ o \in forgotten /\ aborted
    BY DEF LossNeedsAnAbort
  <2>1. dest = "ended" /\ driver = "resolved" /\ listing = "ended" /\ at[o] \in {"none", "ended"}
    BY AllEnded
  <2>2. TaskInv(o) /\ TypeOK /\ ListInv
    BY DEF IInv
  <2>3. CASE at[o] = "ended"
    BY <2>1, <2>2, <2>3 DEF TaskInv
  <2>4. CASE at[o] = "none"
    <3>1. o > yielded
      BY <2>2, <2>4 DEF TaskInv
    <3>2. yielded = Held \/ (aborted /\ source \in {"gcs", "azure"})
      BY <2>1, <2>2 DEF ListInv
    <3>3. o <= MaxObjects /\ MaxObjects \in Nat /\ MaxObjects # 0
      BY ListingAssumption DEF Objects
    <3>4. yielded = Held => ~ complete
      BY <2>2, <3>1, <3>3 DEF Held, TypeOK, Objects
    <3> QED BY <3>1, <3>2, <3>4
  <2> QED BY <2>1, <2>3, <2>4
<1> QED BY <1>1, Invariance, PTL

(* The reports, the archive and the statistics of a run that resolves are  *)
(* one account of the same objects, and it is final.                       *)
THEOREM OutcomesAgree == Spec => []OutcomesAddUp
<1>1. IInv => OutcomesAddUp
  <2> SUFFICES ASSUME IInv, verdict = "resolved"
               PROVE  /\ stats.progress = progress
                      /\ Executing = {}
                      /\ 1..yielded = Reported({"included", "skipped", "omitted"}) \cup forgotten
                      /\ archive = Reported({"included"})
                      /\ progress.included = Cardinality(archive)
                      /\ progress.skipped = Cardinality(Reported({"skipped", "omitted"}))
                      /\ progress.listed = progress.included + progress.skipped
    BY DEF OutcomesAddUp, Reported
  <2>1. /\ dest = "ended" /\ driver = "resolved" /\ Executing = {}
        /\ \A o \in Objects : at[o] \in {"none", "ended"}
    BY AllEnded
  <2>2. TypeOK /\ ListInv /\ CountInv /\ \A o \in Objects : TaskInv(o)
    BY DEF IInv
  <2>3. stats.progress = progress
    BY DEF IInv, PhaseInv
  <2>4. yielded \in Nat /\ yielded <= MaxObjects /\ MaxObjects \in Nat
    BY <2>2, ListingAssumption DEF TypeOK, ListInv, Held
  <2>5. ASSUME NEW o \in Objects
        PROVE  /\ at[o] = "none" => ends[o] = <<>> /\ o \notin archive /\ o \notin forgotten
               /\ at[o] = "none" <=> o > yielded
               /\ at[o] = "ended" =>
                    \/ o \in forgotten /\ ends[o] = <<>> /\ o \notin archive
                    \/ o \notin forgotten /\ ends[o] = <<"included">> /\ o \in archive
                    \/ /\ o \notin forgotten /\ ends[o] \in {<<"skipped">>, <<"omitted">>}
                       /\ o \notin archive
    BY <2>1, <2>2 DEF TaskInv, Early
  <2>6. 1..yielded = {o \in Objects : at[o] = "ended"}
    <3>1. ASSUME NEW o \in 1..yielded PROVE o \in Objects /\ at[o] = "ended"
      <4>1. o \in Objects /\ ~ (o > yielded)
        BY <2>4 DEF Objects
      <4> QED BY <2>1, <2>5, <4>1
    <3>2. ASSUME NEW o \in Objects, at[o] = "ended" PROVE o \in 1..yielded
      BY <2>4, <2>5, <3>2 DEF Objects
    <3> QED BY <3>1, <3>2
  <2>7. 1..yielded = Reported({"included", "skipped", "omitted"}) \cup forgotten
    <3>1. Reported({"included", "skipped", "omitted"}) =
            {o \in Objects : ends[o] \in {<<"included">>, <<"skipped">>, <<"omitted">>}}
      BY DEF Reported
    <3>2. forgotten \subseteq Objects
      BY <2>2 DEF TypeOK
    <3>3. \A o \in Objects : at[o] = "ended" <=>
            ends[o] \in {<<"included">>, <<"skipped">>, <<"omitted">>} \/ o \in forgotten
      <4>1. ASSUME NEW o \in Objects, at[o] = "none"
            PROVE  ~ (ends[o] \in {<<"included">>, <<"skipped">>, <<"omitted">>}) /\ o \notin forgotten
        BY <2>5, <4>1
      <4>2. ASSUME NEW o \in Objects, at[o] = "ended"
            PROVE  ends[o] \in {<<"included">>, <<"skipped">>, <<"omitted">>} \/ o \in forgotten
        BY <2>5, <4>2
      <4> QED BY <2>1, <4>1, <4>2
    <3> QED BY <2>6, <3>1, <3>2, <3>3
  <2>8. archive = Reported({"included"})
    <3>1. Reported({"included"}) = {o \in Objects : ends[o] = <<"included">>}
      BY DEF Reported
    <3>2. archive \subseteq Objects
      BY <2>2 DEF TypeOK
    <3> QED BY <2>1, <2>5, <3>1, <3>2
  <2>9. /\ progress.included = Cardinality(Reported({"included"}))
        /\ progress.skipped = Cardinality(Reported({"skipped", "omitted"}))
        /\ progress.listed = Cardinality({o \in Objects : at[o] \in Counted})
                               + progress.included + progress.skipped
    BY <2>1, <2>2 DEF CountInv
  <2>10. progress.listed = progress.included + progress.skipped
    <3>1. {o \in Objects : at[o] \in Counted} = {}
      BY <2>1 DEF Counted
    <3>2. Cardinality({o \in Objects : at[o] \in Counted}) = 0
      BY <3>1, FS_EmptySet
    <3>3. progress.included \in Nat /\ progress.skipped \in Nat
      BY <2>2 DEF TypeOK
    <3> QED BY <2>9, <3>2, <3>3
  <2> HIDE DEF Reported, Executing
  <2> QED BY <2>1, <2>3, <2>7, <2>8, <2>9, <2>10
<1> QED BY <1>1, Invariance, PTL

(* The meter's times are the wall time, divided and never multiplied, and  *)
(* the check of finish() does not fail a run.                              *)
THEOREM MeterIsWall == Spec => []MeterPartitionsWall
<1>1. IInv => MeterPartitionsWall
  <2> SUFFICES ASSUME IInv PROVE MeterPartitionsWall
    OBVIOUS
  <2>1. TypeOK /\ MeterInv
    BY DEF IInv
  <2>2. /\ meter.open["list"] = (IF listing = "asked" THEN 1 ELSE 0)
        /\ meter.open["download"] = Waiting("download")
        /\ meter.open["archive"] = Waiting("write")
        /\ meter.open \in [Stages -> Nat]
    BY <2>1 DEF MeterInv, TypeOK, Meters
  <2>3. meter.open = [s \in Stages |->
                        CASE s = "list" -> IF listing = "asked" THEN 1 ELSE 0
                          [] s = "download" -> Waiting("download")
                          [] s = "archive" -> Waiting("write")]
    BY <2>2 DEF Stages
  <2>4. /\ meter.ms["list"] + meter.ms["download"] + meter.ms["archive"] + meter.ms["idle"]
             >= Scale * meter.last
        /\ now = moves =>
             meter.ms["list"] + meter.ms["download"] + meter.ms["archive"] + meter.ms["idle"]
               = Scale * meter.last
    BY <2>1 DEF MeterInv, Total
  <2>5. verdict # "internal"
    BY <2>1 DEF TypeOK
  <2> QED BY <2>3, <2>4, <2>5 DEF MeterPartitionsWall
<1> QED BY <1>1, Invariance, PTL

(* Deduplication finds every duplicate: the options that turn it on leave  *)
(* a window of one, in which a task sees the names of all that were        *)
(* written before it.                                                      *)
THEOREM NoDuplicateEntries == Spec => []DuplicatesFound
<1>1. IInv => DuplicatesFound
  BY DEF IInv, DedupeInv, DuplicatesFound
<1> QED BY <1>1, Invariance, PTL
=============================================================================
