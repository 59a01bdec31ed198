------------------------ MODULE AdaptiveControlProofs ------------------------
(***************************************************************************)
(* What holds of the control loop for all measurements, frame rates and    *)
(* channel capacities: the types, that the jitter delay approaches its     *)
(* target, that a calm report never lowers the bitrate, and that no report *)
(* ever raises it again.                                                   *)
(***************************************************************************)
EXTENDS AdaptiveControl, TLAPS

\* What the client sends: neither the presentation nor the input delay is
\* ever measured.
Reports ==
  [pressure : {"normal", "high", "critical"}, backlog : Nat, fps : Nat,
   present : {-1}, input : {-1}]

Relief == [step : 0..2, strain : 0..MaxStrain, recovery : 0..10]

\* TypeOK, and the type of what is in the channel.
TypeInv == TypeOK /\ reports \in Seq(Reports)

\* The numbers of a measurement.
LEMMA SampleTypes ==
  ASSUME NEW s \in Samples
  PROVE  s.arrival \in Int /\ s.decode \in Int /\ s.queued \in Nat /\ s.drops \in Nat
         /\ s.fps \in Nat
BY ControlAssumption

LEMMA ReportType ==
  ASSUME NEW s \in Samples
  PROVE  Report(s) \in Reports
<1>1. Pressure(s) \in {"normal", "high", "critical"}
  BY DEF Pressure
<1> QED
  BY <1>1, SampleTypes DEF Report, Reports

\* A delay comes closer to its target: at rest on it, otherwise strictly nearer
\* and not past it.
Nearer(from, to, target) ==
  /\ from = target => to = target
  /\ from > target => target <= to /\ to < from
  /\ from < target => from < to /\ to <= target

\* The delay moves towards its target and stays within the bound of the mode.
LEMMA JitterBounded ==
  ASSUME TypeOK, NEW s \in Samples
  PROVE  /\ JitterUpdate(s) \in 0..(IF cinema THEN 16 ELSE 8)
         /\ Nearer(jitter, JitterUpdate(s), JitterTarget(s))
<1> DEFINE top == IF cinema THEN 16 ELSE 8
<1>1. jitter \in 0..top /\ top \in {8, 16}
  BY DEF TypeOK
<1>2. JitterTarget(s) \in 0..top
  <2>1. CASE Pressure(s) = "critical"
    BY <2>1 DEF JitterTarget
  <2>2. CASE Pressure(s) = "high"
    BY <2>2 DEF JitterTarget
  <2>3. CASE Pressure(s) \notin {"critical", "high"}
    <3>1. JitterTarget(s) \in {0, 4, 8}
      BY <2>3 DEF JitterTarget
    <3> QED
      BY <3>1
  <2> QED
    BY <2>1, <2>2, <2>3
<1> HIDE DEF top
<1> DEFINE t == JitterTarget(s)
           d == IF Critical(s) THEN 4 ELSE 1
<1>3. t \in 0..top /\ d \in {1, 4}
  BY <1>2
<1>4. JitterUpdate(s) = IF jitter > t THEN Larger(jitter - d, t) ELSE Smaller(jitter + 2, t)
  BY DEF JitterUpdate
<1> HIDE DEF t, d
<1>5. JitterUpdate(s) \in 0..top
  BY <1>1, <1>3, <1>4 DEF Larger, Smaller
<1>6. Nearer(jitter, JitterUpdate(s), t)
  BY <1>1, <1>3, <1>4 DEF Larger, Smaller, Nearer
<1> QED
  BY <1>5, <1>6 DEF top, t

\* A report adds at least one to the score, or takes at most one away.
LEMMA WeightType ==
  ASSUME NEW fb \in Reports
  PROVE  Weight(fb) \in Nat \ {0}
<1> DEFINE a == CASE fb.pressure = "critical" -> 3 [] fb.pressure = "high" -> 2 [] OTHER -> 0
           b == IF ~Behind(fb) THEN 0 ELSE IF Collapsed(fb) THEN 3 ELSE 2
           c == IF fb.present < 20 THEN 0 ELSE IF fb.present >= 26 THEN 2 ELSE 1
<1>1. a \in Nat
  BY DEF Reports
<1>2. b \in Nat /\ c \in Nat
  OBVIOUS
<1>3. Weight(fb) = Larger(a + b + c, 1)
  BY DEF Weight
<1> HIDE DEF a, b, c
<1> QED
  BY <1>1, <1>2, <1>3 DEF Larger

LEMMA ScoredType ==
  ASSUME relief \in Relief, NEW fb \in Reports
  PROVE  /\ Scored(fb) \in Relief
         /\ Scored(fb).step = relief.step
         /\ ~Strained(fb) => Scored(fb).strain <= relief.strain
<1>1. Weight(fb) \in Nat
  BY WeightType
<1>2. MaxStrain \in Nat
  BY ControlAssumption
<1>3. CASE Strained(fb)
  <2> DEFINE x == Smaller(relief.strain + Weight(fb), MaxStrain)
  <2>1. x \in 0..MaxStrain
    BY <1>1, <1>2 DEF Relief, Smaller
  <2>2. Scored(fb) = [relief EXCEPT !.strain = x, !.recovery = 0]
    BY <1>3 DEF Scored
  <2> HIDE DEF x
  <2>3. Scored(fb) = [step |-> relief.step, strain |-> x, recovery |-> 0]
    BY <2>2 DEF Relief
  <2> QED
    BY <1>3, <2>1, <2>3 DEF Relief
<1>4. CASE ~Strained(fb)
  <2>1. /\ Larger(relief.strain - 1, 0) \in 0..MaxStrain
        /\ Larger(relief.strain - 1, 0) <= relief.strain
    BY <1>2 DEF Relief, Larger
  <2>2. Smaller(relief.recovery + 1, 10) \in 0..10
    BY DEF Relief, Smaller
  <2>3. Scored(fb) = [relief EXCEPT !.strain = Larger(relief.strain - 1, 0),
                                    !.recovery = Smaller(relief.recovery + 1, 10)]
    BY <1>4 DEF Scored
  <2> QED
    BY <2>1, <2>2, <2>3 DEF Relief
<1> QED
  BY <1>3, <1>4

\* A report with no strain is not severe: a collapsed rate is a low one.
LEMMA SevereIsStrained ==
  ASSUME NEW fb \in Reports, Severe(fb)
  PROVE  Strained(fb)
<1>1. TargetFps \in Nat /\ fb.fps \in Nat
  BY ControlAssumption DEF Reports
<1>2. Collapsed(fb) => Behind(fb)
  BY <1>1 DEF Collapsed, Behind, Larger
<1> QED
  BY <1>2 DEF Severe, Strained, Reports

\* The presentation delay is never reported, so the recovery branch is dead.
LEMMA NeverRecovers ==
  ASSUME NEW fb \in Reports
  PROVE  ~Recovers(fb)
BY DEF Recovers, Reports

\* One report, acted upon: the step rises by one or stays.
LEMMA FeedbackEffect ==
  ASSUME relief \in Relief, NEW fb \in Reports, OnFeedback(fb)
  PROVE  \/ /\ Degrades(fb)
            /\ relief' \in Relief /\ relief'.step = relief.step + 1 /\ relief'.strain = 0
         \/ ~Degrades(fb) /\ relief' = Scored(fb) /\ relief' \in Relief
<1>1. Scored(fb) \in Relief /\ Scored(fb).step = relief.step
  BY ScoredType
<1>2. CASE Degrades(fb)
  <2>1. relief.step \in {0, 1}
    BY <1>2 DEF Degrades, Relief
  <2>2. relief' = [Scored(fb) EXCEPT !.step = @ + 1, !.strain = 0]
    BY <1>2 DEF OnFeedback
  <2>3. MaxStrain \in Nat
    BY ControlAssumption
  <2> DEFINE sc == Scored(fb)
  <2>4. sc \in [step : 0..2, strain : 0..MaxStrain, recovery : 0..10] /\ sc.step \in {0, 1}
    BY <1>1, <2>1 DEF Relief
  <2>5. relief' = [sc EXCEPT !.step = sc.step + 1, !.strain = 0] /\ 0 \in 0..MaxStrain
    BY <2>2, <2>3
  <2> HIDE DEF sc
  <2>6. relief' = [step |-> sc.step + 1, strain |-> 0, recovery |-> sc.recovery]
    BY <2>4, <2>5
  <2>7. relief'.step = sc.step + 1 /\ relief'.strain = 0 /\ relief' \in Relief
    <3>1. sc.step + 1 \in 0..2 /\ sc.recovery \in 0..10
      BY <2>4
    <3> QED
      BY <2>5, <2>6, <3>1 DEF Relief
  <2> QED
    BY <1>1, <1>2, <2>7 DEF sc
<1>3. CASE ~Degrades(fb)
  BY <1>1, <1>3, NeverRecovers DEF OnFeedback
<1> QED
  BY <1>2, <1>3

LEMMA FeedbackTypes ==
  ASSUME relief \in Relief, cooling \in BOOLEAN, NEW fb \in Reports, OnFeedback(fb)
  PROVE  relief' \in Relief /\ cooling' \in BOOLEAN
<1>1. relief' \in Relief
  BY FeedbackEffect
<1>2. cooling' = TRUE \/ cooling' = cooling
  BY DEF OnFeedback
<1> QED
  BY <1>1, <1>2

LEMMA TypeStep == TypeInv /\ [Next]_vars => TypeInv'
<1> SUFFICES ASSUME TypeInv, [Next]_vars PROVE TypeInv'
  OBVIOUS
<1>0. TypeOK /\ reports \in Seq(Reports) /\ Capacity \in Nat \ {0}
  BY ControlAssumption DEF TypeInv
<1>1. CASE UNCHANGED vars
  BY <1>0, <1>1 DEF vars, TypeInv, TypeOK
<1>2. ASSUME NEW s \in Samples, Measured(s) PROVE
        /\ cinema' \in BOOLEAN /\ sample' \in Samples
        /\ jitter' \in 0..(IF cinema' THEN 16 ELSE 8)
        /\ relieves' \in BOOLEAN /\ grace' \in BOOLEAN /\ cooling' \in BOOLEAN
        /\ relief' \in [step : 0..2, strain : 0..MaxStrain, recovery : 0..10]
  <2>1. jitter' \in 0..(IF cinema THEN 16 ELSE 8)
    BY <1>0, <1>2, JitterBounded DEF Measured
  <2> QED
    BY <1>0, <1>2, <2>1 DEF Measured, TypeOK
<1>3. ASSUME NEW s \in Samples, ReportArrives(s) PROVE TypeInv'
  <2>1. Report(s) \in Reports
    BY ReportType
  <2>2. reports' \in Seq(Reports) /\ Len(reports') <= Capacity
    BY <1>0, <1>3, <2>1 DEF ReportArrives
  <2>3. Measured(s)
    BY <1>3 DEF ReportArrives
  <2> QED
    BY <1>2, <2>2, <2>3 DEF TypeInv, TypeOK
<1>4. ASSUME NEW s \in Samples, ReportLost(s) PROVE TypeInv'
  <2>1. Measured(s) /\ reports' = reports
    BY <1>4 DEF ReportLost
  <2> QED
    BY <1>0, <1>2, <2>1 DEF TypeInv, TypeOK
<1>5. ASSUME reports # <<>>, reports' = Tail(reports)
      PROVE  reports' \in Seq(Reports) /\ Len(reports') <= Capacity /\ Head(reports) \in Reports
  BY <1>0, <1>5 DEF TypeOK
<1>6. CASE HostActs
  <2>1. /\ reports' \in Seq(Reports) /\ Len(reports') <= Capacity
        /\ Head(reports) \in Reports
    BY <1>5, <1>6 DEF HostActs
  <2>2. relief \in Relief /\ cooling \in BOOLEAN
    BY <1>0 DEF TypeOK, Relief
  <2>3. relief' \in Relief /\ cooling' \in BOOLEAN
    BY <1>6, <2>1, <2>2, FeedbackTypes DEF HostActs
  <2> QED
    BY <1>0, <1>6, <2>1, <2>3 DEF HostActs, TypeInv, TypeOK, Relief
<1>7. CASE HostIgnores
  BY <1>0, <1>5, <1>7 DEF HostIgnores, TypeInv, TypeOK
<1>8. CASE CodecChange \/ GraceEnds \/ CooldownEnds
  <2>1. /\ cinema' = cinema /\ sample' = sample /\ jitter' = jitter
        /\ reports' = reports /\ relief' = relief
        /\ relieves' \in BOOLEAN /\ grace' \in BOOLEAN /\ cooling' \in BOOLEAN
    BY <1>0, <1>8 DEF CodecChange, GraceEnds, CooldownEnds, TypeOK
  <2> QED
    BY <1>0, <2>1 DEF TypeInv, TypeOK
<1> QED
  BY <1>1, <1>3, <1>4, <1>6, <1>7, <1>8 DEF Next

LEMMA TypeInit == Init => TypeInv
<1> SUFFICES ASSUME Init PROVE TypeInv
  OBVIOUS
<1>1. reports \in Seq(Reports) /\ Len(reports) <= Capacity
  BY ControlAssumption DEF Init
<1>2. relief \in [step : 0..2, strain : 0..MaxStrain, recovery : 0..10]
  BY ControlAssumption DEF Init
<1>3. jitter \in 0..(IF cinema THEN 16 ELSE 8)
  BY DEF Init
<1> QED
  BY <1>1, <1>2, <1>3 DEF Init, TypeInv, TypeOK

\* The jitter delay stays within the largest target of its mode, the channel
\* within its capacity and the relief within its three steps, whatever is
\* measured (AdaptiveJitter::update and AdaptiveRelief::on_feedback).
THEOREM ControlTypeCorrect == Spec => []TypeOK
<1>1. TypeInv => TypeOK
  BY DEF TypeInv
<1> QED
  BY <1>1, TypeInit, TypeStep, PTL DEF Spec

\* Each pass of the feedback loop takes the jitter delay strictly nearer to
\* the target of what was measured and never past it, and leaves it alone once
\* it is there (the uneven steps of AdaptiveJitter::update): the distance is
\* the measure by which a client whose measurements settle settles too.
THEOREM JitterApproaches ==
  Spec => [][\A s \in Samples : Measured(s) => Nearer(jitter, jitter', JitterTarget(s))]_vars
<1>1. TypeInv => [\A s \in Samples :
                    Measured(s) => Nearer(jitter, jitter', JitterTarget(s))]_vars
  BY JitterBounded DEF TypeInv, Measured
<1> QED
  BY <1>1, TypeInit, TypeStep, PTL DEF Spec

-----------------------------------------------------------------------------
(* Calm reports.                                                           *)

\* Below the last step, the score that a report leaves behind is under the
\* threshold the next report without strain is judged by.
StrainBelow ==
  /\ relief.step = 0 => relief.strain < 4
  /\ relief.step = 1 => relief.strain < 6

\* The host acts on a report: nothing a calm report does lowers the bitrate,
\* and the score stays under the threshold.
LEMMA ActsBelow ==
  ASSUME TypeInv, StrainBelow, HostActs
  PROVE  /\ StrainBelow'
         /\ ~Strained(Head(reports)) => relief'.step <= relief.step
         /\ relief'.step >= relief.step
<1> DEFINE fb == Head(reports)
<1>1. fb \in Reports /\ relief \in Relief
  BY DEF TypeInv, TypeOK, HostActs, Relief
<1>2. OnFeedback(fb)
  BY DEF HostActs
<1> HIDE DEF fb
<1>3. /\ Scored(fb) \in Relief /\ Scored(fb).step = relief.step
      /\ ~Strained(fb) => Scored(fb).strain <= relief.strain
  BY <1>1, ScoredType
<1>4. relief.step \in 0..2 /\ relief.strain \in Nat /\ Scored(fb).strain \in Nat
  BY <1>1, <1>3, ControlAssumption DEF Relief
<1>5. CASE Degrades(fb)
  <2>1. relief'.step = relief.step + 1 /\ relief'.strain = 0
    BY <1>1, <1>2, <1>5, FeedbackEffect
  <2>2. Strained(fb)
    <3>1. SUFFICES ASSUME ~Strained(fb) PROVE FALSE
      OBVIOUS
    <3>2. ~Severe(fb)
      BY <1>1, <3>1, SevereIsStrained
    <3>3. relief.step < 2 /\ Scored(fb).strain >= (IF relief.step = 0 THEN 4 ELSE 6)
      BY <1>5, <3>2 DEF Degrades, Threshold
    <3> QED
      BY <1>3, <1>4, <3>1, <3>3 DEF StrainBelow
  <2> QED
    BY <1>4, <2>1, <2>2 DEF StrainBelow, fb
<1>6. CASE ~Degrades(fb)
  <2>1. relief' = Scored(fb)
    BY <1>1, <1>2, <1>6, FeedbackEffect
  <2>2. relief.step < 2 => Scored(fb).strain < Threshold(fb)
    BY <1>4, <1>6 DEF Degrades, Threshold
  <2>3. Threshold(fb) \in {4, 6} /\ (relief.step = 0 => Threshold(fb) = 4)
    BY DEF Threshold
  <2> QED
    BY <1>3, <1>4, <2>1, <2>2, <2>3 DEF StrainBelow
<1> QED
  BY <1>5, <1>6

LEMMA OthersKeepRelief ==
  ASSUME [Next]_vars, ~HostActs
  PROVE  relief' = relief
BY DEF Next, vars, ReportArrives, ReportLost, Measured, HostIgnores, CodecChange,
       GraceEnds, CooldownEnds

LEMMA StrainStep == TypeInv /\ StrainBelow /\ [Next]_vars => StrainBelow'
BY ActsBelow, OthersKeepRelief DEF StrainBelow

LEMMA StrainInit == Init => StrainBelow
BY DEF Init, StrainBelow

\* A report without strain never lowers the bitrate, whatever scores earlier
\* reports left behind: those that were not enough to lower it then are not
\* enough now (the comparison with the score in on_feedback).
THEOREM CalmReportsAreHarmless == Spec => CalmNeverDegrades
<1>1. TypeInv /\ StrainBelow /\ [Next]_vars
        => [HostActs /\ ~Strained(Head(reports)) => relief'.step <= relief.step]_vars
  BY ActsBelow
<1> QED
  BY <1>1, TypeInit, TypeStep, StrainInit, StrainStep, PTL DEF Spec, CalmNeverDegrades

\* No step of the session ever takes a relief step back: the recovery branch
\* of on_feedback asks for a presentation delay, which the client does not
\* measure, so a bitrate that was lowered stays low.
THEOREM BitrateNeverReturns == Spec => [][relief'.step >= relief.step]_vars
<1>1. TypeInv /\ StrainBelow /\ [Next]_vars => [relief'.step >= relief.step]_vars
  <2>1. SUFFICES ASSUME TypeInv, StrainBelow, [Next]_vars
                 PROVE  relief'.step >= relief.step
    OBVIOUS
  <2>2. CASE HostActs
    BY <2>1, <2>2, ActsBelow
  <2>3. CASE ~HostActs
    BY <2>1, <2>3, OthersKeepRelief DEF TypeInv, TypeOK
  <2> QED
    BY <2>2, <2>3
<1> QED
  BY <1>1, TypeInit, TypeStep, StrainInit, StrainStep, PTL DEF Spec
=============================================================================
