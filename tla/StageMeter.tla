----------------------------- MODULE StageMeter -----------------------------
(***************************************************************************)
(* ArchiveStageOccupancyMeter: wall time split among listing, downloading  *)
(* and writing by how many are in each stage, or put down as idle when     *)
(* nobody is in any.  Times are in units of 1/Scale of a clock tick, so    *)
(* that the shares are whole.                                              *)
(***************************************************************************)
EXTENDS Integers, FiniteSets

Stages == {"list", "download", "archive"}
Scale == 720720  \* divisible by every weight up to 16

NewMeter(now) ==
  [last |-> now, open |-> [s \in Stages |-> 0],
   ms |-> [s \in Stages \cup {"idle"} |-> 0]]

(* Mutant: time is charged to one visitor of each stage. *)
AdvancePerStage(m, now) ==
  LET dt == IF now > m.last THEN Scale * (now - m.last) ELSE 0
      weight == Cardinality({s \in Stages : m.open[s] > 0})
  IN  [m EXCEPT !.last = now,
                !.ms = [s \in DOMAIN m.ms |->
                          m.ms[s] + IF s = "idle" THEN IF weight = 0 THEN dt ELSE 0
                                    ELSE IF weight = 0 THEN 0
                                    ELSE (dt * m.open[s]) \div weight]]

(* A clock that steps back moves `last` back and attributes nothing. *)
Advance(m, now) ==
  LET dt == IF now > m.last THEN Scale * (now - m.last) ELSE 0
      weight == m.open["list"] + m.open["download"] + m.open["archive"]
  IN  [m EXCEPT !.last = now,
                !.ms = [s \in DOMAIN m.ms |->
                          m.ms[s] + IF s = "idle" THEN IF weight = 0 THEN dt ELSE 0
                                    ELSE IF weight = 0 THEN 0
                                    ELSE (dt * m.open[s]) \div weight]]

Enter(m, stage, now) == [Advance(m, now) EXCEPT !.open[stage] = @ + 1]
Leave(m, stage, now) == [Advance(m, now) EXCEPT !.open[stage] = @ - 1]
Move(m, from, to, now) == Enter(Leave(m, from, now), to, now)

(* finish() and the decrements throw unless entering and leaving balance. *)
Balanced(m) == \A s \in Stages : m.open[s] = 0

(* classifyArchiveBottleneck. *)
Bottleneck(ms) ==
  LET most == CHOOSE n \in {ms[s] : s \in Stages} : \A s \in Stages : ms[s] <= n
  IN  CASE most = 0 /\ ms["idle"] = 0 -> "even"
        [] ms["idle"] > most -> "even"
        [] ms["download"] = most -> "download"
        [] ms["list"] >= ms["archive"] -> "list"
        [] OTHER -> "archive"
=============================================================================
