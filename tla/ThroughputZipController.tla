----------------------- MODULE ThroughputZipController -----------------------
(***************************************************************************)
(* ThroughputZipAdaptiveController (src/src/archive-throughput-zip-        *)
(* adaptive.ts) driving the limiter of AdaptiveZipLimit: every progress    *)
(* sample taken at least sampleMinIntervalMs after the last one is         *)
(* compared with two water lines; enough consecutive samples below the low *)
(* line lower the cap, enough above the high line raise it.                *)
(*                                                                         *)
(* A sample is abstracted to what the comparison yields.  Samples inside   *)
(* the interval and samples without a positive rate return early and       *)
(* change nothing: they are stuttering steps.  A run has the controller or *)
(* the throttle recovery of AdaptiveZipLimit: CSpec is the limiter with    *)
(* either of them.                                                         *)
(***************************************************************************)
EXTENDS AdaptiveZipLimit

CONSTANTS
  BreachesToDecrease,  \* #breachN
  SamplesToIncrease,   \* #upN
  ControllerMinCap     \* #minCap

ASSUME ControllerAssumption ==
  /\ BreachesToDecrease \in Nat \ {0}
  /\ SamplesToIncrease \in Nat \ {0}
  /\ ControllerMinCap \in Nat \ {0}

VARIABLES
  lowStreak,   \* #lowStreak, saturated at #breachN (only >= breachN matters)
  highStreak,  \* #highStreak, saturated at #upN
  lowRun,      \* history: samples below the low line since the last sample
               \* that was not, or since the last decrease (saturated)
  highRun      \* history: the same for the high line and increases

controller == <<lowStreak, highStreak>>
history == <<lowRun, highRun>>
allVars == <<vars, controller, history>>

(* The controller exists in throughput mode, until the run is over. *)
Controlled == mode = "throughput" /\ attached

CInit ==
  /\ Init
  /\ lowStreak = 0
  /\ highStreak = 0
  /\ lowRun = 0
  /\ highRun = 0

(* rate < target * lowWaterMarkRatio *)
ObserveLow ==
  LET streak == Smaller(lowStreak + 1, BreachesToDecrease)
      acts == streak >= BreachesToDecrease /\ cap > ControllerMinCap
  IN  /\ highStreak' = 0
      /\ \/ /\ acts
            /\ DecreaseCapForExternalSignal
            /\ lowStreak' = 0
         \/ /\ ~acts
            /\ Controlled
            /\ lowStreak' = streak
            /\ UNCHANGED vars

(* rate > target * highWaterMarkRatio *)
ObserveHigh ==
  LET streak == Smaller(highStreak + 1, SamplesToIncrease)
      acts == streak >= SamplesToIncrease /\ cap < MaxCap
  IN  /\ lowStreak' = 0
      /\ \/ /\ acts
            /\ IncreaseCapTowardMax
            /\ highStreak' = 0
         \/ /\ ~acts
            /\ Controlled
            /\ highStreak' = streak
            /\ UNCHANGED vars

(* Mutant: a sample between the lines leaves the streaks alone. *)
ObserveMidKeepsStreaks ==
  /\ Controlled
  /\ UNCHANGED <<controller, vars>>

(* between the water lines *)
ObserveMid ==
  /\ Controlled
  /\ lowStreak' = 0
  /\ highStreak' = 0
  /\ UNCHANGED vars

(* The history variables watch the samples and the cap, not the streaks. *)
WatchLow ==
  /\ lowRun' = IF cap' < cap THEN 0 ELSE Smaller(lowRun + 1, BreachesToDecrease)
  /\ highRun' = 0
WatchHigh ==
  /\ highRun' = IF cap' > cap THEN 0 ELSE Smaller(highRun + 1, SamplesToIncrease)
  /\ lowRun' = 0
WatchMid == lowRun' = 0 /\ highRun' = 0

LimiterStep ==
  /\ \/ \E j \in Jobs : Limit(j) \/ Settle(j) \/ OnThrottleRetry(j)
     \/ QuietElapses
     \/ TickRecovery
     \/ DisposeAndDetach
  /\ UNCHANGED <<controller, history>>

CNext ==
  \/ ObserveLow /\ WatchLow
  \/ ObserveHigh /\ WatchHigh
  \/ ObserveMid /\ WatchMid
  \/ LimiterStep

CSpec == CInit /\ [][CNext]_allVars

(***************************************************************************)
(* What the runtime provides: a started GetObject settles (its retries and *)
(* the SDK's own timeouts are finite), the interval keeps firing and the   *)
(* clock keeps running.  No caller is obliged to call limit(), and samples *)
(* may stop coming.                                                        *)
(***************************************************************************)
CFairSpec ==
  /\ CSpec
  /\ \A j \in Jobs : WF_allVars(Settle(j) /\ UNCHANGED <<controller, history>>)
  /\ WF_allVars(QuietElapses /\ UNCHANGED <<controller, history>>)
  /\ WF_allVars(TickRecovery /\ UNCHANGED <<controller, history>>)

-----------------------------------------------------------------------------
(* Hysteresis: the cap goes down only on a full run of consecutive slow    *)
(* samples none of which was already spent on an earlier decrease, and     *)
(* never below the controller's own minimum; it goes up only on a full run *)
(* of fast ones.                                                           *)
Hysteresis ==
  [][ mode = "throughput" =>
      /\ cap' < cap => lowRun + 1 >= BreachesToDecrease /\ cap' >= ControllerMinCap
      /\ cap' > cap => highRun + 1 >= SamplesToIncrease ]_allVars
=============================================================================
