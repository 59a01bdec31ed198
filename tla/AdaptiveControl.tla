--------------------------- MODULE AdaptiveControl ---------------------------
(***************************************************************************)
(* The control loop of an EVRT session.  The client's feedback loop turns  *)
(* what it measures into a pressure (compute_pressure, src/evrt_client.rs),*)
(* adapts its jitter delay to it (AdaptiveJitter, src/frame_queue.rs) and  *)
(* reports it; the reports reach the host over UDP and a bounded channel   *)
(* (src/evrt_session.rs), where they lower and raise the bitrate           *)
(* (AdaptiveRelief, src/frame_queue.rs).                                   *)
(*                                                                         *)
(* Measurements are drawn from a small set that has values on both sides   *)
(* of each threshold.  The two waits on the host's side, the grace period  *)
(* and the pause after a change, are flags that fall at some later time.   *)
(***************************************************************************)
EXTENDS Integers, Sequences

CONSTANTS
  Samples,     \* what the client may measure in an interval of its loop
  TargetFps,   \* the host's target frame rate
  Capacity,    \* capacity of the host's feedback channel
  MaxStrain    \* bound on strain_score, which grows for ever at the last step

ASSUME ControlAssumption ==
  /\ Samples \subseteq [arrival : Int, decode : Int, queued : Nat, drops : Nat,
                        fps : Nat]
  /\ TargetFps \in Nat
  /\ Capacity \in Nat \ {0}
  /\ MaxStrain \in Nat

VARIABLES
  cinema,    \* the session asked for the smooth mode
  sample,    \* the latest measurements
  jitter,    \* AdaptiveJitter::current_ms
  reports,   \* the host's feedback channel
  relieves,  \* reports are acted upon: the session did not start in game mode
             \* and its codec is not EVRTCK (one that did never has this TRUE)
  grace,     \* the session is younger than GRACE_PERIOD
  cooling,   \* the last change is younger than COOLDOWN
  relief     \* step, strain and recovery of AdaptiveRelief

vars == <<cinema, sample, jitter, reports, relieves, grace, cooling, relief>>

Larger(a, b) == IF a >= b THEN a ELSE b
Smaller(a, b) == IF a <= b THEN a ELSE b

-----------------------------------------------------------------------------
(* The client.                                                             *)

\* The thresholds of compute_pressure, outside Android.
Limit ==
  IF cinema
    THEN [high |-> 30, crit |-> 44, backlog_crit |-> 3, backlog_high |-> 2]
    ELSE [high |-> 22, crit |-> 34, backlog_crit |-> 2, backlog_high |-> 1]

Critical(s) ==
  s.decode >= Limit.crit \/ s.queued >= Limit.backlog_crit \/ s.drops >= 3

High(s) ==
  \/ s.arrival >= Limit.high /\ (s.queued > 0 \/ s.drops > 0)
  \/ s.decode >= Limit.high
  \/ s.queued >= Limit.backlog_high
  \/ s.drops >= 1

Pressure(s) ==
  IF Critical(s) THEN "critical" ELSE IF High(s) THEN "high" ELSE "normal"

\* The jitter delay AdaptiveJitter::update steers towards.
JitterTarget(s) ==
  CASE Pressure(s) = "critical" -> IF cinema THEN 16 ELSE 0
    [] Pressure(s) = "high"     -> IF cinema THEN 12 ELSE 4
    [] OTHER -> IF s.arrival > 25 THEN 8
                ELSE IF s.queued > 1 \/ s.drops > 0 THEN 4 ELSE 0

\* Mutant: without critical pressure the delay is never lowered.
JitterSticks(s) ==
  IF jitter > JitterTarget(s)
    THEN Larger(jitter - (IF Critical(s) THEN 4 ELSE 0), JitterTarget(s))
    ELSE Smaller(jitter + 2, JitterTarget(s))

\* AdaptiveJitter::update: down fast under critical pressure, else by one; up
\* by two; never past the target.
JitterUpdate(s) ==
  IF jitter > JitterTarget(s)
    THEN Larger(jitter - (IF Critical(s) THEN 4 ELSE 1), JitterTarget(s))
    ELSE Smaller(jitter + 2, JitterTarget(s))

\* The report.  The client measures neither the presentation nor the input
\* delay and says so with -1.
Report(s) ==
  [pressure |-> Pressure(s), backlog |-> s.queued, fps |-> s.fps, present |-> -1,
   input |-> -1]

Measured(s) ==
  /\ sample' = s
  /\ jitter' = JitterUpdate(s)
  /\ UNCHANGED <<cinema, relieves, grace, cooling, relief>>

\* A pass of the feedback loop whose report the host's receive thread puts
\* into the channel.
ReportArrives(s) ==
  /\ Measured(s)
  /\ Len(reports) < Capacity
  /\ reports' = Append(reports, Report(s))

\* A pass whose report is lost by the network, or refused by the full channel.
ReportLost(s) == Measured(s) /\ UNCHANGED reports

-----------------------------------------------------------------------------
(* The host.                                                               *)

\* How far decoding lags behind, judged only with frames queued and a
\* plausible rate.
Behind(fb) == fb.backlog > 0 /\ fb.fps >= 10 /\ fb.fps <= Larger(TargetFps - 3, 28)
Collapsed(fb) == fb.backlog > 0 /\ fb.fps >= 10 /\ fb.fps <= Larger(TargetFps - 8, 24)

Strained(fb) ==
  fb.pressure # "normal" \/ Behind(fb) \/ fb.present >= 20

Severe(fb) ==
  fb.pressure = "critical" \/ Collapsed(fb) \/ fb.present >= 26

Weight(fb) ==
  LET pressure == CASE fb.pressure = "critical" -> 3
                    [] fb.pressure = "high" -> 2
                    [] OTHER -> 0
      decoding == IF ~Behind(fb) THEN 0 ELSE IF Collapsed(fb) THEN 3 ELSE 2
      present == IF fb.present < 20 THEN 0 ELSE IF fb.present >= 26 THEN 2 ELSE 1
  IN  Larger(pressure + decoding + present, 1)

\* Mutant: a report without strain adds to the strain.
ScoredAlways(fb) ==
  [relief EXCEPT !.strain = Smaller(@ + Weight(fb), MaxStrain),
                 !.recovery = IF Strained(fb) THEN 0 ELSE Smaller(@ + 1, 10)]

\* The scores after a report; recovery_score only matters up to 10.
Scored(fb) ==
  IF Strained(fb)
    THEN [relief EXCEPT !.strain = Smaller(@ + Weight(fb), MaxStrain),
                        !.recovery = 0]
    ELSE [relief EXCEPT !.strain = Larger(@ - 1, 0),
                        !.recovery = Smaller(@ + 1, 10)]

Threshold(fb) == IF relief.step = 0 \/ Severe(fb) THEN 4 ELSE 6

\* Mutant: the last step is not looked at.
DegradesFurther(fb) == Scored(fb).strain >= Threshold(fb)

Degrades(fb) == relief.step < 2 /\ Scored(fb).strain >= Threshold(fb)

Recovers(fb) ==
  /\ relief.step > 0
  /\ Scored(fb).recovery >= 10
  /\ fb.pressure = "normal"
  /\ fb.fps = 0 \/ fb.fps >= TargetFps - 1
  /\ fb.present \in 0..16
  /\ fb.input < 0 \/ fb.input <= 45

\* on_feedback and apply_pending_milli, which the session calls at once.
OnFeedback(fb) ==
  IF Degrades(fb)
    THEN /\ relief' = [Scored(fb) EXCEPT !.step = @ + 1, !.strain = 0]
         /\ cooling' = TRUE
  ELSE IF Recovers(fb)
    THEN /\ relief' = [Scored(fb) EXCEPT !.step = @ - 1, !.recovery = 0]
         /\ cooling' = TRUE
  ELSE relief' = Scored(fb) /\ UNCHANGED cooling

\* The session takes a report out of the channel and acts on it, unless its
\* mode says otherwise or it is too early.
HostActs ==
  /\ reports # <<>> /\ relieves /\ ~grace /\ ~cooling
  /\ reports' = Tail(reports)
  /\ OnFeedback(Head(reports))
  /\ UNCHANGED <<cinema, sample, jitter, relieves, grace>>

HostIgnores ==
  /\ reports # <<>> /\ (~relieves \/ grace \/ cooling)
  /\ reports' = Tail(reports)
  /\ UNCHANGED <<cinema, sample, jitter, relieves, grace, cooling, relief>>

\* A change of the pipeline's codec switches EVRTCK on or off.
CodecChange ==
  /\ relieves' = ~relieves
  /\ UNCHANGED <<cinema, sample, jitter, reports, grace, cooling, relief>>

GraceEnds ==
  /\ grace
  /\ grace' = FALSE
  /\ UNCHANGED <<cinema, sample, jitter, reports, relieves, cooling, relief>>

CooldownEnds ==
  /\ cooling
  /\ cooling' = FALSE
  /\ UNCHANGED <<cinema, sample, jitter, reports, relieves, grace, relief>>

-----------------------------------------------------------------------------
Init ==
  /\ cinema \in BOOLEAN
  /\ sample \in Samples
  /\ jitter = 0
  /\ reports = <<>>
  /\ relieves \in BOOLEAN
  /\ grace = TRUE
  /\ cooling = FALSE
  /\ relief = [step |-> 0, strain |-> 0, recovery |-> 0]

Next ==
  \/ \E s \in Samples : ReportArrives(s) \/ ReportLost(s)
  \/ HostActs
  \/ HostIgnores
  \/ CodecChange
  \/ GraceEnds
  \/ CooldownEnds

Spec == Init /\ [][Next]_vars

\* Both loops keep running, time passes, and reports keep arriving.
Fairness ==
  /\ WF_vars(\E s \in Samples : ReportArrives(s) \/ ReportLost(s))
  /\ WF_vars(\E s \in Samples : ReportArrives(s))
  /\ WF_vars(HostActs)
  /\ WF_vars(HostIgnores)
  /\ WF_vars(GraceEnds)
  /\ WF_vars(CooldownEnds)

FairSpec == Spec /\ Fairness

-----------------------------------------------------------------------------
(* Properties.                                                             *)

\* Every variable has its type; there are three steps, and the jitter delay
\* stays within the largest target of the mode.
TypeOK ==
  /\ cinema \in BOOLEAN
  /\ sample \in Samples
  /\ jitter \in 0..(IF cinema THEN 16 ELSE 8)
  /\ Len(reports) <= Capacity
  /\ relieves \in BOOLEAN /\ grace \in BOOLEAN /\ cooling \in BOOLEAN
  /\ relief \in [step : 0..2, strain : 0..MaxStrain, recovery : 0..10]

\* While the client measures the same, its jitter delay comes to rest at the
\* target, whatever it was before (the uneven steps of AdaptiveJitter::update
\* neither overshoot nor oscillate).
JitterSettles ==
  \A s \in Samples : <>[](sample = s) => <>[](jitter = JitterTarget(s))

\* A report that shows no strain never lowers the bitrate, whatever strain
\* earlier reports left in the score (on_feedback compares the score on every
\* report).
CalmNeverDegrades ==
  [][HostActs /\ ~Strained(Head(reports)) => relief'.step <= relief.step]_vars

\* Calm: the measurements of a client that keeps up.
Calm(s) == Pressure(s) = "normal" /\ s.queued = 0 /\ s.fps >= TargetFps - 1

\* When the client keeps up for good, the bitrate comes back (the recovery
\* branch of on_feedback, which is not to be blocked by values that were not
\* measured).
ReliefRecovers ==
  (<>[](Calm(sample) /\ relieves)) => []<>(relief.step = 0)
=============================================================================
