---------------------------- MODULE VerdictProofs ----------------------------
(***************************************************************************)
(* VerdictRule for every set of targets, patches and intervals, every       *)
(* positive threshold and every fuzz budget: the verdict of a row is the    *)
(* rule's, its columns are true, its readers agree with it, and the process *)
(* that comes to it is one Pipeline allows for.                             *)
(***************************************************************************)
EXTENDS VerdictInPipeline, DiffProofs

-----------------------------------------------------------------------------

\* What is reported is in the type of a row.
LEMMA RowIsTyped ==
    ASSUME TypeOK, verdict \in Verdicts
    PROVE  RowWritten \in Row
  <1> USE RuleAssumption
  <1>1. (IF fuzz = NoResult THEN 0 ELSE fuzz.iters) \in Nat
    BY DEF TypeOK, FuzzReports
  <1>2. RiskSignals \in SUBSET Signals
    BY DEF RiskSignals, Classify, Signals, Tokens
  <1>3. input.target.fpTolerance \in BOOLEAN
    BY DEF TypeOK, Input, Target
  <1>4. clean.asan \in BOOLEAN /\ clean.tsan \in {"null", "true", "false"}
    BY DEF TypeOK, Columns
  <1>5. ci \in Intervals \cup {NoInterval} /\ Threshold \in Nat
    BY DEF TypeOK
  <1> QED
    BY <1>1, <1>2, <1>3, <1>4, <1>5, Zenon DEF RowWritten, Row

LEMMA RuleTypeInit == Init => TypeOK
  <1> SUFFICES ASSUME Init PROVE TypeOK
    OBVIOUS
  <1>1. gate \in Gates
    BY DEF Init, Gates, Outcomes
  <1>2. lane \in Lanes
    BY DEF Init, Lanes, Runs
  <1>3. clean \in Columns
    BY DEF Init, Columns
  <1>4. step \in Steps /\ fuzz \in FuzzReports
    BY DEF Init, Steps, FuzzReports
  <1> QED
    BY <1>1, <1>2, <1>3, <1>4, Zenon DEF Init, TypeOK

\* Every step keeps the types; the value of the row is a matter of RowIsTyped.
LEMMA RuleTypeStep ==
    ASSUME TypeOK, step = "record" => verdict \in Verdicts, [Next]_vars
    PROVE  TypeOK'
  <1>1. ASSUME NEW l \in Layers, NEW o \in {"passed", "failed", "skipped"}
        PROVE  [gate EXCEPT ![l] = o] \in Gates
    BY <1>1 DEF TypeOK, Gates, Outcomes
  <1>2. {"accepted", "needs-human-review", "rejected-bench", "rejected-gate"}
            \subseteq Verdicts
    BY DEF Verdicts
  <1>3. {"vet", "pins", "tests", "golden", "fuzz", "grade", "bench", "decide",
         "asan", "tsan", "caps", "record", "done", "refused", "error"}
            \subseteq Steps
    BY DEF Steps
  <1>4. CASE Vet \/ VerifyPins \/ Abort
    <2>1. step' \in Steps
      BY <1>3, <1>4 DEF Vet, VerifyPins, Abort
    <2>2. UNCHANGED <<input, gate, replay, fuzz, ci, verdict, lane, clean,
                      row>>
      BY <1>4 DEF Vet, VerifyPins, Abort
    <2> QED
      BY <2>1, <2>2 DEF TypeOK
  <1>5. CASE RunTests
    <2>1. gate' \in Gates
      <3>1. PICK o \in {"passed", "failed"} :
               gate' = [gate EXCEPT !["tests"] = o]
        BY <1>5 DEF RunTests
      <3>2. "tests" \in Layers
        BY DEF Layers
      <3> QED
        BY <1>1, <3>1, <3>2
    <2>2. step' \in Steps
      BY <1>3, <1>5 DEF RunTests
    <2>3. UNCHANGED <<input, replay, fuzz, ci, verdict, lane, clean, row>>
      BY <1>5 DEF RunTests
    <2> QED
      BY <2>1, <2>2, <2>3 DEF TypeOK
  <1>6. CASE ReplayGolden
    <2>1. "golden" \in Layers
      BY DEF Layers
    <2>2. gate' \in Gates /\ replay' \in Replays \cup {NoReplay}
      <3>1. CASE input.target.fpTolerance /\ ~input.target.reference
        <4>1. gate' = [gate EXCEPT !["golden"] = "failed"] /\ replay' = replay
          BY <1>6, <3>1 DEF ReplayGolden
        <4> QED
          BY <1>1, <2>1, <4>1 DEF TypeOK
      <3>2. CASE ~(input.target.fpTolerance /\ ~input.target.reference)
        <4>1. PICK r \in Replays :
                 /\ gate' = [gate EXCEPT !["golden"] =
                               GradeReplay(input.target, input.golden, r)]
                 /\ replay' = r
          BY <1>6, <3>2 DEF ReplayGolden
        <4>2. GradeReplay(input.target, input.golden, r)
                 \in {"passed", "failed"}
          BY DEF GradeReplay
        <4> QED
          BY <1>1, <2>1, <4>1, <4>2
      <3> QED
        BY <3>1, <3>2
    <2>3. step' \in Steps
      BY <1>3, <1>6 DEF ReplayGolden
    <2>4. UNCHANGED <<input, fuzz, ci, verdict, lane, clean, row>>
      BY <1>6 DEF ReplayGolden
    <2> QED
      BY <2>2, <2>3, <2>4 DEF TypeOK
  <1>7. CASE RunFuzz
    <2>1. "fuzz" \in Layers
      BY DEF Layers
    <2>2. gate' \in Gates /\ fuzz' \in FuzzReports
      <3>1. CASE input.target.fuzz
        <4>1. PICK report \in FuzzReports, success \in BOOLEAN :
                 /\ gate' = [gate EXCEPT !["fuzz"] =
                               GradeFuzz(report, success)]
                 /\ fuzz' = report
          BY <1>7, <3>1 DEF RunFuzz
        <4>2. GradeFuzz(report, success) \in {"passed", "failed"}
          BY DEF GradeFuzz
        <4> QED
          BY <1>1, <2>1, <4>1, <4>2
      <3>2. CASE ~input.target.fuzz
        <4>1. gate' = [gate EXCEPT !["fuzz"] = "skipped"] /\ fuzz' = fuzz
          BY <1>7, <3>2 DEF RunFuzz
        <4> QED
          BY <1>1, <2>1, <4>1 DEF TypeOK
      <3> QED
        BY <3>1, <3>2
    <2>3. step' \in Steps
      BY <1>3, <1>7 DEF RunFuzz
    <2>4. UNCHANGED <<input, replay, ci, verdict, lane, clean, row>>
      BY <1>7 DEF RunFuzz
    <2> QED
      BY <2>2, <2>3, <2>4 DEF TypeOK
  <1>8. CASE Grade \/ Decide \/ Cap
    <2>1. verdict' \in Verdicts \cup {"none"}
      BY <1>2, <1>8 DEF Grade, Decide, Cap, TypeOK
    <2>2. step' \in Steps
      BY <1>3, <1>8 DEF Grade, Decide, Cap
    <2>3. UNCHANGED <<input, gate, replay, fuzz, ci, lane, clean, row>>
      BY <1>8 DEF Grade, Decide, Cap
    <2> QED
      BY <2>1, <2>2, <2>3 DEF TypeOK
  <1>9. CASE Bench
    <2>1. step' \in Steps /\ ci' \in Intervals \cup {NoInterval}
      BY <1>3, <1>9 DEF Bench
    <2>2. UNCHANGED <<input, gate, replay, fuzz, verdict, lane, clean, row>>
      BY <1>9 DEF Bench
    <2> QED
      BY <2>1, <2>2 DEF TypeOK
  <1>10. CASE SanitizerCheck
    <2>1. PICK r \in {"clean", "flagged", "unbuildable", "not run"} :
             /\ lane' = [lane EXCEPT !.asan = r]
             /\ clean' = [clean EXCEPT !.asan = r = "clean"]
             /\ verdict' = IF r = "clean" THEN verdict
                           ELSE "needs-human-review"
      BY <1>10 DEF SanitizerCheck, LaneResult
    <2>2. r \in Runs
      BY DEF Runs
    <2>3. lane' \in Lanes
      BY <2>1, <2>2 DEF TypeOK, Lanes
    <2>4. clean' \in Columns
      <3>1. clean \in Columns /\ (r = "clean") \in BOOLEAN
        BY DEF TypeOK
      <3> QED
        BY <2>1, <3>1, Zenon DEF Columns
    <2>5. verdict' \in Verdicts \cup {"none"}
      BY <1>2, <2>1 DEF TypeOK
    <2>6. step' \in Steps
      BY <1>3, <1>10 DEF SanitizerCheck
    <2>7. UNCHANGED <<input, gate, replay, fuzz, ci, row>>
      BY <1>10 DEF SanitizerCheck
    <2> QED
      BY <2>3, <2>4, <2>5, <2>6, <2>7 DEF TypeOK
  <1>11. CASE TsanCheck
    <2>1. PICK r \in {"clean", "flagged", "unbuildable", "not run"} :
             /\ lane' = [lane EXCEPT !.tsan = r]
             /\ clean' = [clean EXCEPT !.tsan = TsanColumn(r)]
             /\ verdict' = IF r = "clean" THEN verdict
                           ELSE "needs-human-review"
      BY <1>11 DEF TsanCheck, LaneResult
    <2>2. r \in Runs
      BY DEF Runs
    <2>3. lane' \in Lanes
      BY <2>1, <2>2 DEF TypeOK, Lanes
    <2>4. clean' \in Columns
      <3>1. TsanColumn(r) \in {"null", "true", "false"}
        BY DEF TsanColumn
      <3>2. clean \in Columns
        BY DEF TypeOK
      <3> QED
        BY <2>1, <3>1, <3>2, Zenon DEF Columns
    <2>5. verdict' \in Verdicts \cup {"none"}
      BY <1>2, <2>1 DEF TypeOK
    <2>6. step' \in Steps
      BY <1>3, <1>11 DEF TsanCheck
    <2>7. UNCHANGED <<input, gate, replay, fuzz, ci, row>>
      BY <1>11 DEF TsanCheck
    <2> QED
      BY <2>3, <2>4, <2>5, <2>6, <2>7 DEF TypeOK
  <1>12. CASE Record
    <2>1. step = "record" /\ row' = RowWritten
      BY <1>12 DEF Record
    <2>2. row' \in Row \cup {NoRow}
      BY <2>1, RowIsTyped
    <2>3. step' \in Steps
      BY <1>3, <1>12 DEF Record
    <2>4. UNCHANGED <<input, gate, replay, fuzz, ci, verdict, lane, clean>>
      BY <1>12 DEF Record
    <2> QED
      BY <2>2, <2>3, <2>4 DEF TypeOK
  <1>13. CASE UNCHANGED vars
    BY <1>13 DEF vars, TypeOK
  <1> QED
    BY <1>4, <1>5, <1>6, <1>7, <1>8, <1>9, <1>10, <1>11, <1>12, <1>13
    DEF Next

LEMMA RuleInvInit == Init => RuleInv
  <1> SUFFICES ASSUME Init PROVE RuleInv
    OBVIOUS
  <1>1. TypeOK
    BY RuleTypeInit
  <1>2. \A l \in Layers : gate[l] = "not run"
    BY DEF Init
  <1>3. GateFacts /\ PathFacts
    BY <1>2 DEF Init, GateFacts, PathFacts, Graded, OnAccept, Undecided, Layers
  <1>4. RecordFacts
    BY DEF Init, RecordFacts
  <1>5. ColumnFacts /\ LaneFacts
    BY DEF Init, ColumnFacts, LaneFacts, TsanColumn, Undecided
  <1>6. ReplayFacts
    BY <1>2 DEF Init, ReplayFacts, Layers
  <1> QED
    BY <1>1, <1>3, <1>4, <1>5, <1>6 DEF RuleInv

\* What a gate that has just run leaves of the outcomes.
LEMMA OneGate ==
    ASSUME TypeOK, NEW l \in Layers, NEW o,
           gate' = [gate EXCEPT ![l] = o]
    PROVE  gate'[l] = o /\ \A k \in Layers \ {l} : gate'[k] = gate[k]
  BY DEF TypeOK, Gates

\* Before the gates are graded nothing is known of the later ones.
LEMMA GateFactsStep ==
    ASSUME TypeOK, GateFacts, [Next]_vars
    PROVE  GateFacts'
  <1> USE DEF GateFacts, Graded, OnAccept
  <1>1. CASE Vet \/ VerifyPins
    BY <1>1 DEF Vet, VerifyPins
  <1>2. CASE RunTests
    <2>1. PICK o \in {"passed", "failed"} :
             gate' = [gate EXCEPT !["tests"] = o]
      BY <1>2 DEF RunTests
    <2>2. /\ gate'["tests"] \in {"passed", "failed"}
          /\ gate'["fuzz"] = gate["fuzz"]
      BY <2>1, OneGate DEF Layers
    <2> QED
      BY <1>2, <2>2 DEF RunTests
  <1>3. CASE ReplayGolden
    <2>1. PICK o \in {"passed", "failed"} :
             gate' = [gate EXCEPT !["golden"] = o]
      BY <1>3 DEF ReplayGolden, GradeReplay
    <2>2. /\ gate'["golden"] \in {"passed", "failed"}
          /\ gate'["fuzz"] = gate["fuzz"] /\ gate'["tests"] = gate["tests"]
      BY <2>1, OneGate DEF Layers
    <2> QED
      BY <1>3, <2>2 DEF ReplayGolden
  <1>4. CASE RunFuzz
    <2>1. /\ step = "fuzz" /\ step' = "grade"
          /\ gate["tests"] \in {"passed", "failed"}
          /\ gate["golden"] \in {"passed", "failed"}
          /\ fuzz = NoResult
      BY <1>4 DEF RunFuzz
    <2>2. "fuzz" \in Layers /\ Layers \ {"fuzz"} = {"tests", "golden"}
      BY DEF Layers
    <2>3. CASE input.target.fuzz
      <3>1. PICK report \in FuzzReports, success \in BOOLEAN :
               /\ gate' = [gate EXCEPT !["fuzz"] = GradeFuzz(report, success)]
               /\ fuzz' = report
        BY <1>4, <2>3 DEF RunFuzz
      <3>2. /\ gate'["fuzz"] = GradeFuzz(report, success)
            /\ gate'["tests"] = gate["tests"]
            /\ gate'["golden"] = gate["golden"]
        BY <2>2, <3>1, OneGate
      <3>3. /\ GradeFuzz(report, success) \in {"passed", "failed"}
            /\ GradeFuzz(report, success) = "passed" =>
                  report # NoResult /\ report.divergences = 0
        BY DEF GradeFuzz
      <3> QED
        BY <2>1, <3>1, <3>2, <3>3
    <2>4. CASE ~input.target.fuzz
      <3>1. gate' = [gate EXCEPT !["fuzz"] = "skipped"] /\ fuzz' = fuzz
        BY <1>4, <2>4 DEF RunFuzz
      <3>2. /\ gate'["fuzz"] = "skipped" /\ gate'["tests"] = gate["tests"]
            /\ gate'["golden"] = gate["golden"]
        BY <2>2, <3>1, OneGate
      <3> QED
        BY <2>1, <3>1, <3>2
    <2> QED
      BY <2>3, <2>4
  <1>5. CASE Grade
    BY <1>5 DEF Grade, AllPassed, Layers
  <1>6. CASE Bench
    BY <1>6 DEF Bench
  <1>7. CASE Decide
    BY <1>7 DEF Decide
  <1>8. CASE SanitizerCheck
    BY <1>8 DEF SanitizerCheck
  <1>9. CASE TsanCheck
    BY <1>9 DEF TsanCheck
  <1>10. CASE Cap
    BY <1>10 DEF Cap
  <1>11. CASE Record
    BY <1>11 DEF Record
  <1>12. CASE Abort
    BY <1>12 DEF Abort
  <1>13. CASE UNCHANGED vars
    BY <1>13 DEF vars
  <1> HIDE DEF GateFacts, Graded, OnAccept
  <1> QED
    BY <1>1, <1>2, <1>3, <1>4, <1>5, <1>6, <1>7, <1>8, <1>9, <1>10, <1>11,
       <1>12, <1>13 DEF Next

\* The golden gate keeps the grade of its replay.
LEMMA ReplayFactsStep ==
    ASSUME TypeOK, ReplayFacts, [Next]_vars
    PROVE  ReplayFacts'
  <1> USE DEF ReplayFacts
  <1>1. CASE Vet
    BY <1>1 DEF Vet
  <1>2. CASE RunTests
    <2>1. PICK o \in {"passed", "failed"} :
             gate' = [gate EXCEPT !["tests"] = o]
      BY <1>2 DEF RunTests
    <2>2. gate'["golden"] = gate["golden"]
      BY <2>1, OneGate DEF Layers
    <2> QED
      BY <1>2, <2>2 DEF RunTests
  <1>3. CASE ReplayGolden
    <2>1. /\ step = "golden" /\ step' = "fuzz" /\ input' = input
          /\ replay = NoReplay
      BY <1>3 DEF ReplayGolden
    <2>2. "golden" \in Layers
      BY DEF Layers
    <2>3. CASE input.target.fpTolerance /\ ~input.target.reference
      <3>1. gate' = [gate EXCEPT !["golden"] = "failed"] /\ replay' = replay
        BY <1>3, <2>3 DEF ReplayGolden
      <3>2. gate'["golden"] = "failed"
        BY <2>2, <3>1, OneGate
      <3> QED
        BY <2>1, <3>1, <3>2
    <2>4. CASE ~(input.target.fpTolerance /\ ~input.target.reference)
      <3>1. PICK r \in Replays :
               /\ gate' = [gate EXCEPT !["golden"] =
                             GradeReplay(input.target, input.golden, r)]
               /\ replay' = r
        BY <1>3, <2>4 DEF ReplayGolden
      <3>2. gate'["golden"] = GradeReplay(input.target, input.golden, r)
        BY <2>2, <3>1, OneGate
      <3>3. r # NoReplay
        BY RuleAssumption DEF Replays
      <3> QED
        BY <2>1, <3>1, <3>2, <3>3
    <2> QED
      BY <2>3, <2>4
  <1>4. CASE RunFuzz
    <2>1. /\ step = "fuzz" /\ step' = "grade"
          /\ input' = input /\ replay' = replay
          /\ \E o : gate' = [gate EXCEPT !["fuzz"] = o]
      BY <1>4 DEF RunFuzz
    <2>2. gate'["golden"] = gate["golden"]
      BY <2>1, OneGate DEF Layers
    <2> QED
      BY <2>1, <2>2
  <1>5. CASE VerifyPins \/ Grade \/ Bench \/ Decide
    BY <1>5 DEF VerifyPins, Grade, Bench, Decide
  <1>6. CASE SanitizerCheck \/ TsanCheck \/ Cap \/ Record \/ Abort
    BY <1>6 DEF SanitizerCheck, TsanCheck, Cap, Record, Abort
  <1>7. CASE UNCHANGED vars
    BY <1>7 DEF vars
  <1> HIDE DEF ReplayFacts
  <1> QED
    BY <1>1, <1>2, <1>3, <1>4, <1>5, <1>6, <1>7 DEF Next

\* The verdict on the way to the row.
LEMMA PathFactsStep ==
    ASSUME TypeOK, PathFacts, [Next]_vars
    PROVE  PathFacts'
  <1> USE DEF PathFacts, LanesClean, OnAccept, Undecided
  <1>1. CASE Vet \/ VerifyPins \/ RunTests \/ ReplayGolden \/ RunFuzz
    BY <1>1 DEF Vet, VerifyPins, RunTests, ReplayGolden, RunFuzz
  <1>2. CASE Grade
    BY <1>2 DEF Grade
  <1>3. CASE Bench
    BY <1>3 DEF Bench
  <1>4. CASE Decide
    BY <1>4 DEF Decide, Clears
  <1>5. CASE SanitizerCheck
    <2>1. PICK r \in {"clean", "flagged", "unbuildable", "not run"} :
             /\ lane' = [lane EXCEPT !.asan = r]
             /\ verdict' = IF r = "clean" THEN verdict
                           ELSE "needs-human-review"
      BY <1>5 DEF SanitizerCheck, LaneResult
    <2>2. lane'.asan = r
      BY <2>1 DEF TypeOK, Lanes
    <2>3. input.target.tsanBuild \in BOOLEAN
      BY RuleAssumption DEF TypeOK, Input, Target
    <2> QED
      BY <1>5, <2>1, <2>2, <2>3 DEF SanitizerCheck
  <1>6. CASE TsanCheck
    <2>1. PICK r \in {"clean", "flagged", "unbuildable", "not run"} :
             /\ lane' = [lane EXCEPT !.tsan = r]
             /\ verdict' = IF r = "clean" THEN verdict
                           ELSE "needs-human-review"
      BY <1>6 DEF TsanCheck, LaneResult
    <2>2. lane'.tsan = r /\ lane'.asan = lane.asan
      BY <2>1 DEF TypeOK, Lanes
    <2> QED
      BY <1>6, <2>1, <2>2 DEF TsanCheck
  <1>7. CASE Cap
    BY <1>7 DEF Cap
  <1>8. CASE Record \/ Abort
    BY <1>8 DEF Record, Abort
  <1>9. CASE UNCHANGED vars
    BY <1>9 DEF vars
  <1> HIDE DEF PathFacts, OnAccept, Undecided
  <1> QED
    BY <1>1, <1>2, <1>3, <1>4, <1>5, <1>6, <1>7, <1>8, <1>9 DEF Next

\* The rule and the row depend on what the commands did and nothing else.
LEMMA RuleIsFunction ==
    ASSUME UNCHANGED <<input, gate, fuzz, ci, lane>>
    PROVE  Rule' = Rule /\ Evidence' = Evidence /\ RiskSignals' = RiskSignals
  BY DEF Rule, Evidence, RiskSignals

\* The decision, a fired cap and a failed gate lead to the rule's verdict.
LEMMA RecordFactsStep ==
    ASSUME TypeOK, GateFacts, PathFacts, RecordFacts, [Next]_vars
    PROVE  RecordFacts'
  <1> USE DEF RecordFacts
  <1>1. CASE Vet \/ VerifyPins \/ RunTests \/ ReplayGolden \/ RunFuzz \/ Bench
    BY <1>1 DEF Vet, VerifyPins, RunTests, ReplayGolden, RunFuzz, Bench
  <1>2. CASE Grade
    <2>1. /\ step = "grade" /\ row = NoRow /\ row' = row /\ gate' = gate
      BY <1>2 DEF Grade
    <2>2. CASE AllPassed
      BY <1>2, <2>1, <2>2 DEF Grade
    <2>3. CASE ~AllPassed
      <3>1. \E l \in Layers : gate[l] = "failed"
        BY <2>1, <2>3 DEF AllPassed, GateFacts, Graded, Layers
      <3>2. verdict' = "rejected-gate"
        BY <1>2, <2>3 DEF Grade
      <3> QED
        BY <2>1, <3>1, <3>2 DEF Rule
    <2> QED
      BY <2>2, <2>3
  <1>3. CASE Decide
    <2>1. /\ step = "decide" /\ row = NoRow /\ row' = row
          /\ UNCHANGED <<input, gate, fuzz, ci, lane>>
      BY <1>3 DEF Decide
    <2>2. ci \in Intervals /\ \A l \in Layers : gate[l] # "failed"
      BY <2>1 DEF PathFacts, GateFacts
    <2>3. ci.lo \in Int /\ Threshold \in Int
      BY <2>2, RuleAssumption
    <2>4. step' = "record" => verdict' = Rule
      BY <1>3, <2>2, <2>3 DEF Decide, Clears, Rule, Evidence
    <2>5. Rule' = Rule
      BY <2>1, RuleIsFunction
    <2>6. step' \in {"record", "asan"}
      BY <1>3 DEF Decide
    <2> QED
      BY <2>1, <2>2, <2>4, <2>5, <2>6
  <1>4. CASE SanitizerCheck \/ TsanCheck
    BY <1>4 DEF SanitizerCheck, TsanCheck
  <1>5. CASE Cap
    <2>1. /\ step = "caps" /\ row = NoRow /\ row' = row /\ step' = "record"
          /\ UNCHANGED <<input, gate, fuzz, ci, lane>>
      BY <1>5 DEF Cap
    <2>2. /\ ci \in Intervals /\ ci.lo >= Threshold /\ ~input.flag
          /\ \A l \in Layers : gate[l] # "failed"
      BY <2>1 DEF PathFacts, GateFacts, OnAccept
    <2>3. ci.lo \in Int /\ Threshold \in Int
      BY <2>2, RuleAssumption
    <2>4. gate["fuzz"] = "passed" => fuzz.divergences = 0 /\ fuzz.iters > 0
      BY RuleAssumption DEF GateFacts, TypeOK, FuzzReports
    <2>5. verdict = IF LanesClean(input.target.tsanBuild) THEN "accepted"
                    ELSE "needs-human-review"
      BY <2>1 DEF PathFacts
    <2>6. Evidence <=> /\ LanesClean(input.target.tsanBuild)
                       /\ RiskSignals = {} /\ gate["fuzz"] = "passed"
      BY <2>2, <2>4 DEF Evidence, RiskSignals, LanesClean
    <2>7. verdict' = IF Evidence THEN "accepted" ELSE "needs-human-review"
      BY <1>5, <2>5, <2>6 DEF Cap
    <2>8. verdict' = Rule
      BY <2>2, <2>3, <2>7 DEF Rule
    <2>9. Rule' = Rule
      BY <2>1, RuleIsFunction
    <2> QED
      BY <2>1, <2>2, <2>8, <2>9
  <1>6. CASE Record
    <2>1. /\ step = "record" /\ step' = "done" /\ row' = RowWritten
          /\ UNCHANGED <<input, gate, fuzz, ci, verdict, lane, clean>>
      BY <1>6 DEF Record
    <2>2. Rule' = Rule /\ RiskSignals' = RiskSignals
      BY <2>1, RuleIsFunction
    <2>3. RowWritten' = RowWritten
      BY <2>1, <2>2, Zenon DEF RowWritten
    <2> QED
      BY <2>1, <2>2, <2>3
  <1>7. CASE Abort
    BY <1>7 DEF Abort
  <1>8. CASE UNCHANGED vars
    <2>1. /\ UNCHANGED <<input, gate, fuzz, ci, verdict, lane, clean>>
          /\ UNCHANGED <<step, row>>
      BY <1>8 DEF vars
    <2>2. Rule' = Rule /\ RiskSignals' = RiskSignals
      BY <2>1, RuleIsFunction
    <2>3. RowWritten' = RowWritten
      BY <2>1, <2>2, Zenon DEF RowWritten
    <2> QED
      BY <2>1, <2>2, <2>3
  <1> HIDE DEF RecordFacts
  <1> QED
    BY <1>1, <1>2, <1>3, <1>4, <1>5, <1>6, <1>7, <1>8 DEF Next

\* The columns change with the lanes.
LEMMA ColumnFactsStep ==
    ASSUME TypeOK, ColumnFacts, [Next]_vars
    PROVE  ColumnFacts'
  <1> USE DEF ColumnFacts
  <1>1. CASE UNCHANGED <<lane, clean>>
    BY <1>1 DEF TsanColumn
  <1>2. CASE SanitizerCheck
    <2>1. PICK r \in {"clean", "flagged", "unbuildable", "not run"} :
             /\ lane' = [lane EXCEPT !.asan = r]
             /\ clean' = [clean EXCEPT !.asan = r = "clean"]
      BY <1>2 DEF SanitizerCheck, LaneResult
    <2>2. lane'.asan = r /\ lane'.tsan = lane.tsan
      BY <2>1 DEF TypeOK, Lanes
    <2>3. clean'.asan = (r = "clean") /\ clean'.tsan = clean.tsan
      BY <2>1, Zenon DEF TypeOK, Columns
    <2> QED
      BY <2>2, <2>3 DEF TsanColumn
  <1>3. CASE TsanCheck
    <2>1. PICK r \in {"clean", "flagged", "unbuildable", "not run"} :
             /\ lane' = [lane EXCEPT !.tsan = r]
             /\ clean' = [clean EXCEPT !.tsan = TsanColumn(r)]
      BY <1>3 DEF TsanCheck, LaneResult
    <2>2. lane'.tsan = r /\ lane'.asan = lane.asan
      BY <2>1 DEF TypeOK, Lanes
    <2>3. clean'.tsan = TsanColumn(r) /\ clean'.asan = clean.asan
      BY <2>1, Zenon DEF TypeOK, Columns
    <2> QED
      BY <2>2, <2>3
  <1>4. CASE \/ Vet \/ VerifyPins \/ RunTests \/ ReplayGolden \/ RunFuzz
             \/ Grade \/ Bench \/ Decide \/ Cap \/ Record \/ Abort
    <2>1. UNCHANGED <<lane, clean>>
      BY <1>4 DEF Vet, VerifyPins, RunTests, ReplayGolden, RunFuzz, Grade,
         Bench, Decide, Cap, Record, Abort
    <2> QED
      BY <1>1, <2>1
  <1>5. CASE UNCHANGED vars
    BY <1>1, <1>5 DEF vars
  <1> HIDE DEF ColumnFacts
  <1> QED
    BY <1>2, <1>3, <1>4, <1>5 DEF Next

LEMMA LaneFactsStep ==
    ASSUME TypeOK, PathFacts, LaneFacts, [Next]_vars
    PROVE  LaneFacts'
  <1> USE DEF LaneFacts, Undecided
  <1>1. CASE TsanCheck
    BY <1>1 DEF TsanCheck, PathFacts
  <1>2. CASE SanitizerCheck
    <2>1. lane'.tsan = lane.tsan /\ input' = input
      BY <1>2 DEF SanitizerCheck, TypeOK, Lanes
    <2>2. step = "asan" /\ step' \in {"tsan", "caps"}
      BY <1>2 DEF SanitizerCheck
    <2> QED
      BY <2>1, <2>2
  <1>3. CASE \/ Vet \/ VerifyPins \/ RunTests \/ ReplayGolden \/ RunFuzz
             \/ Grade \/ Bench \/ Decide \/ Cap \/ Record \/ Abort
    <2>1. UNCHANGED <<lane, input>>
      BY <1>3 DEF Vet, VerifyPins, RunTests, ReplayGolden, RunFuzz, Grade,
         Bench, Decide, Cap, Record, Abort
    <2>2. step' \in Undecided \cup {"asan"} => step \in Undecided
      BY <1>3 DEF Vet, VerifyPins, RunTests, ReplayGolden, RunFuzz, Grade,
         Bench, Decide, Cap, Record, Abort
    <2>3. step' # "tsan"
      BY <1>3 DEF Vet, VerifyPins, RunTests, ReplayGolden, RunFuzz, Grade,
         Bench, Decide, Cap, Record, Abort
    <2> QED
      BY <2>1, <2>2, <2>3
  <1>4. CASE UNCHANGED vars
    BY <1>4 DEF vars
  <1> HIDE DEF LaneFacts, Undecided
  <1> QED
    BY <1>1, <1>2, <1>3, <1>4 DEF Next

\* Each part of the invariant rests on the ones before it.
LEMMA RuleInvStep ==
    ASSUME RuleInv, [Next]_vars
    PROVE  RuleInv'
  <1>1. /\ TypeOK /\ GateFacts /\ ReplayFacts /\ PathFacts /\ RecordFacts
        /\ ColumnFacts /\ LaneFacts
    BY DEF RuleInv
  <1>2. step = "record" => verdict \in Verdicts
    BY <1>1 DEF RecordFacts, Rule, Verdicts
  <1>3. TypeOK'
    BY <1>1, <1>2, RuleTypeStep
  <1>4. GateFacts' /\ ReplayFacts'
    BY <1>1, GateFactsStep, ReplayFactsStep
  <1>5. PathFacts' /\ RecordFacts'
    BY <1>1, PathFactsStep, RecordFactsStep
  <1>6. ColumnFacts' /\ LaneFacts'
    BY <1>1, ColumnFactsStep, LaneFactsStep
  <1> QED
    BY <1>3, <1>4, <1>5, <1>6 DEF RuleInv

-----------------------------------------------------------------------------

\* The inductive invariant holds in every reachable state.
THEOREM RuleInvHolds == Spec => []RuleInv
  <1>1. Init => RuleInv
    BY RuleInvInit
  <1>2. RuleInv /\ [Next]_vars => RuleInv'
    BY RuleInvStep
  <1> QED
    BY <1>1, <1>2, PTL DEF Spec

\* The verdict process stays in its types (TypeOK), whatever the target
\* declares and whatever its commands do.
THEOREM RuleTypeCorrect == Spec => []TypeOK
  <1>1. RuleInv => TypeOK
    BY DEF RuleInv
  <1> QED
    BY <1>1, RuleInvHolds, PTL

\* Whatever a target declares, a patch contains and the commands do, the
\* verdict recorded is the one the rule gives (main.rs 308-470).
THEOREM RuleHolds == Spec => []VerdictFollowsTheRule
  <1>1. RuleInv => VerdictFollowsTheRule
    BY DEF RuleInv, RecordFacts, VerdictFollowsTheRule, RowWritten
  <1> QED
    BY <1>1, RuleInvHolds, PTL

\* No step of the process turns a capped or rejected verdict into a better
\* one (main.rs 5-6).
THEOREM VerdictsAreOnlyCapped == Spec => CappedNeverUpgraded
  <1> DEFINE Down == verdict' # verdict =>
                        \/ verdict = "none"
                        \/ /\ verdict = "accepted"
                           /\ verdict' = "needs-human-review"
  <1>1. RuleInv /\ [Next]_vars => [Down]_vars
    <2> SUFFICES ASSUME RuleInv, Next PROVE Down
      BY DEF vars
    <2>1. CASE Grade \/ Decide
      BY <2>1 DEF Grade, Decide, RuleInv, PathFacts, Undecided
    <2>2. CASE SanitizerCheck
      BY <2>2 DEF SanitizerCheck, RuleInv, PathFacts
    <2>3. CASE TsanCheck
      BY <2>3 DEF TsanCheck, RuleInv, PathFacts
    <2>4. CASE Cap
      BY <2>4 DEF Cap
    <2>5. CASE \/ Vet \/ VerifyPins \/ RunTests \/ ReplayGolden \/ RunFuzz
               \/ Bench \/ Record \/ Abort
      BY <2>5 DEF Vet, VerifyPins, RunTests, ReplayGolden, RunFuzz, Bench,
         Record, Abort
    <2> QED
      BY <2>1, <2>2, <2>3, <2>4, <2>5 DEF Next
  <1> QED
    BY <1>1, RuleInvHolds, PTL DEF Spec, CappedNeverUpgraded

\* The sanitizer columns of a row say what the lanes did (main.rs 413-443).
THEOREM ColumnsAreTrue == Spec => []SanitizerColumnsAreTrue
  <1>1. ASSUME RuleInv PROVE SanitizerColumnsAreTrue
    <2> SUFFICES ASSUME row # NoRow PROVE
             /\ row.sanitizersClean => lane.asan = "clean"
             /\ (row.tsanClean = "true") = (lane.tsan = "clean")
             /\ (row.tsanClean = "false") = (lane.tsan = "flagged")
      BY DEF SanitizerColumnsAreTrue
    <2>1. row.sanitizersClean = clean.asan /\ row.tsanClean = clean.tsan
      BY <1>1 DEF RuleInv, RecordFacts, RowWritten
    <2> QED
      BY <1>1, <2>1 DEF RuleInv, ColumnFacts, TsanColumn
  <1> QED
    BY <1>1, RuleInvHolds, PTL

\* For a positive bar, explain's classes agree with the rule of the bench.
LEMMA BarClass ==
    ASSUME NEW lo \in Int, NEW hi \in Int, NEW bar \in Int,
           lo <= hi, bar > 0
    PROVE  /\ ~(lo < bar) => ClassifyInterval(lo, hi, bar) = "meets bar"
           /\ lo < bar => ClassifyInterval(lo, hi, bar) # "meets bar"
  <1>1. CASE hi < 0
    <2>1. lo < bar
      BY <1>1
    <2>2. ClassifyInterval(lo, hi, bar) = "regression"
      BY <1>1 DEF ClassifyInterval
    <2> QED
      BY <2>1, <2>2
  <1>2. CASE ~(hi < 0) /\ lo <= 0
    <2>1. lo < bar
      BY <1>2
    <2>2. ClassifyInterval(lo, hi, bar) = "indistinguishable"
      BY <1>2 DEF ClassifyInterval
    <2> QED
      BY <2>1, <2>2
  <1>3. CASE ~(hi < 0) /\ ~(lo <= 0)
    BY <1>3 DEF ClassifyInterval
  <1> QED
    BY <1>1, <1>2, <1>3

\* Whatever its lines are, a patch the allowlist lets through names a path
\* outside the workspace only in a header the allowlist has no rule for, or
\* behind a tab in a rename (allowlist.rs 23-117).
THEOREM VettingIsSound == Spec => []LetThroughStaysInside
  <1>1. ASSUME RuleInv PROVE LetThroughStaysInside
    <2>1. input.diff \in Diffs
      BY <1>1 DEF RuleInv, TypeOK, Input
    <2>2. input.diff \in Seq(Line) /\ FilesNamed(input.diff)
      BY <2>1, RuleAssumption
    <2> QED
      BY <2>2, VettedStaysInside DEF LetThroughStaysInside
  <1> QED
    BY <1>1, RuleInvHolds, PTL

\* A patch is refused, by the allowlist or by git, for a path or for a changed
\* line that renders as a header, and for nothing else (allowlist.rs 26-41).
THEOREM RefusalsAreExplained == Spec => []RefusedWithCause
  <1>1. ASSUME RuleInv PROVE RefusedWithCause
    <2> SUFFICES ASSUME step = "refused"
                 PROVE  \E i \in DOMAIN input.diff :
                            Objectionable(input.diff[i])
      BY DEF RefusedWithCause
    <2>1. ~CheckDiffPaths(input.diff) \/ ~NamesOnlyInside(input.diff)
      BY <1>1 DEF RuleInv, ReplayFacts
    <2>2. input.diff \in Diffs
      BY <1>1 DEF RuleInv, TypeOK, Input
    <2>3. input.diff \in Seq(Line)
      BY <2>2, RuleAssumption
    <2> QED
      BY <2>1, <2>3, RefusalHasCause
  <1> QED
    BY <1>1, RuleInvHolds, PTL

\* For every tolerance, golden output and replay: the gate passes what the
\* policy means, a golden output with an infinity excepted (policy.rs 52-117).
THEOREM GoldenGateIsExact == Spec => []GoldenGateDecides
  <1>1. ASSUME RuleInv PROVE GoldenGateDecides
    <2>1. replay = NoReplay => gate["golden"] # "passed"
      BY <1>1 DEF RuleInv, ReplayFacts
    <2>2. ASSUME replay # NoReplay, IsBounded(input.golden)
          PROVE  (gate["golden"] = "passed") =
                     (/\ replay.success
                      /\ IF input.target.fpTolerance
                         THEN AllWithin(Tol, input.golden, replay.output)
                         ELSE replay.output = input.golden)
      <3>1. gate["golden"] = GradeReplay(input.target, input.golden, replay)
        BY <1>1, <2>2 DEF RuleInv, ReplayFacts
      <3>2. input.golden \in Goldens /\ replay \in Replays
        BY <1>1, <2>2 DEF RuleInv, TypeOK, Input
      <3>3. /\ input.golden \in Output /\ replay.output \in Output
            /\ replay.success \in BOOLEAN /\ Tol \in Tolerance
        BY <3>2, RuleAssumption DEF Replays
      <3>4. CompareWithin(Tol, input.golden, replay.output)
                <=> AllWithin(Tol, input.golden, replay.output)
        BY <2>2, <3>3, OutputComparison
      <3>5. (gate["golden"] = "passed") <=>
               (replay.success /\ Compare(input.target.fpTolerance, Tol,
                                          input.golden, replay.output))
        BY <3>1 DEF GradeReplay
      <3>6. CASE input.target.fpTolerance
        BY <3>3, <3>4, <3>5, <3>6 DEF Compare
      <3>7. CASE ~input.target.fpTolerance
        BY <3>3, <3>5, <3>7 DEF Compare
      <3> QED
        BY <3>6, <3>7
    <2> QED
      BY <2>1, <2>2 DEF GoldenGateDecides
  <1> QED
    BY <1>1, RuleInvHolds, PTL

\* What report, policy and explain read out of a row is its verdict
\* (explain/lib.rs 300-322, 380-400; report/main.rs 80-81; policy/lib.rs 89).
THEOREM ReadersDoAgree == Spec => []ReadersAgree
  <1>1. ASSUME RuleInv PROVE ReadersAgree
    <2> SUFFICES ASSUME row # NoRow PROVE
             /\ Shippable(row) = (row.verdict = "accepted")
             /\ (CountsAs(row) = "win") = (row.verdict = "accepted")
             /\ row.verdict = "accepted" =>
                    Cautions(row) = {} /\ Landed(row) = "meets bar"
             /\ row.verdict = "rejected-bench" =>
                    Landed(row) # "meets bar"
             /\ NamedGates(row) =
                    {g \in Layers : /\ gate[g] = "failed"
                                    /\ g = "fuzz" => fuzz # NoResult
                                                       /\ fuzz.divergences > 0}
             /\ row.verdict = "needs-human-review"
                     /\ (RiskSignals # {} \/ gate["fuzz"] # "passed") =>
                    NamedCaps(row) # {}
             /\ CountedLines(input.diff) =
                    {i \in DOMAIN input.diff : IsChangedLine(input.diff[i])}
      BY DEF ReadersAgree
    <2>1. row = RowWritten /\ verdict = Rule
      BY <1>1 DEF RuleInv, RecordFacts
    <2>2. /\ row.verdict = verdict /\ row.sanitizersClean = clean.asan
          /\ row.tsanClean = clean.tsan /\ row.interval = ci
          /\ row.bar = Threshold
          /\ row.iters = IF fuzz = NoResult THEN 0 ELSE fuzz.iters
      BY <2>1 DEF RowWritten
    <2>3. Threshold \in Int /\ Threshold > 0
      BY RuleAssumption
    <2>4. ASSUME verdict = "accepted"
          PROVE  Evidence /\ ci \in Intervals /\ ~(ci.lo < Threshold)
      BY <1>1, <2>1, <2>4 DEF Rule, RuleInv, RecordFacts
    <2>5. ASSUME verdict = "accepted"
          PROVE  clean.asan /\ clean.tsan # "false" /\ row.iters # 0
      <3>1. lane.asan = "clean" /\ clean.asan
        BY <1>1, <2>4, <2>5 DEF Evidence, RuleInv, ColumnFacts
      <3>2. fuzz # NoResult /\ fuzz.iters > 0
        BY <1>1, <2>4, <2>5 DEF Evidence, RuleInv, GateFacts
      <3>3. clean.tsan # "false"
        BY <1>1, <2>4, <2>5
        DEF Evidence, RuleInv, ColumnFacts, TsanColumn, LaneFacts
      <3> QED
        BY <2>2, <3>1, <3>2, <3>3
    <2>6. ASSUME ci \in Intervals
          PROVE  /\ ~(ci.lo < Threshold) => Landed(row) = "meets bar"
                 /\ ci.lo < Threshold => Landed(row) # "meets bar"
      <3>1. ci.lo \in Int /\ ci.hi \in Int /\ ci.lo <= ci.hi
        BY <2>6, RuleAssumption
      <3>2. Landed(row) = ClassifyInterval(ci.lo, ci.hi, Threshold)
        BY <2>2, Zenon DEF Landed
      <3> QED
        BY <2>3, <3>1, <3>2, BarClass
    <2>7. ASSUME verdict = "rejected-bench"
          PROVE  ci \in Intervals /\ ci.lo < Threshold
      BY <1>1, <2>1, <2>7 DEF Rule, RuleInv, RecordFacts
    <2>8. row.verdict = "accepted" =>
             Cautions(row) = {} /\ Landed(row) = "meets bar"
      <3> SUFFICES ASSUME verdict = "accepted"
                   PROVE  /\ Cautions(row) = {}
                          /\ Landed(row) = "meets bar"
        BY <2>2
      <3>1. row.sanitizersClean
        BY <2>2, <2>5, Zenon
      <3>2. row.tsanClean # "false" /\ row.iters # 0
        BY <2>2, <2>5
      <3> QED
        BY <2>4, <2>6, <3>1, <3>2 DEF Cautions
    <2>9. row.verdict = "rejected-bench" =>
             Landed(row) # "meets bar"
      BY <2>2, <2>6, <2>7, Zenon
    <2>10. Shippable(row) = (row.verdict = "accepted")
      BY <2>2, <2>5 DEF Shippable
    <2>11. (CountsAs(row) = "win") = (row.verdict = "accepted")
      BY <2>2, <2>5 DEF CountsAs
    <2>12. ASSUME verdict = "needs-human-review",
                  RiskSignals # {} \/ gate["fuzz"] # "passed"
           PROVE  NamedCaps(row) # {}
      <3>1. row.signals = RiskSignals
        BY <2>1 DEF RowWritten
      <3>2. CASE RiskSignals # {}
        <4>1. "risk" \in NamedCaps(row)
          BY <3>1, <3>2 DEF NamedCaps
        <4> QED
          BY <4>1
      <3>3. CASE RiskSignals = {}
        <4>1. gate["fuzz"] = "skipped"
          <5>1. \A l \in Layers : gate[l] # "failed"
            BY <2>1, <2>12 DEF Rule
          <5>2. row # NoRow /\ step = "done"
            BY <1>1 DEF RuleInv, RecordFacts
          <5> QED
            BY <1>1, <2>12, <3>3, <5>1, <5>2
            DEF RuleInv, GateFacts, Graded, Layers
        <4>2. row.iters = 0
          BY <1>1, <2>2, <4>1 DEF RuleInv, GateFacts
        <4>3. "no fuzz" \in NamedCaps(row)
          BY <3>1, <3>3, <4>2 DEF NamedCaps
        <4> QED
          BY <4>3
      <3> QED
        BY <3>2, <3>3
    <2>13. row.verdict = "needs-human-review"
               /\ (RiskSignals # {} \/ gate["fuzz"] # "passed") =>
              NamedCaps(row) # {}
      BY <2>2, <2>12, Zenon
    <2>14. NamedGates(row) =
              {g \in Layers : /\ gate[g] = "failed"
                              /\ g = "fuzz" => fuzz # NoResult
                                                 /\ fuzz.divergences > 0}
      <3>1. /\ row.tests = (gate["tests"] = "passed")
            /\ row.golden = (gate["golden"] = "passed")
            /\ row.divergence = (fuzz # NoResult /\ fuzz.divergences > 0)
        BY <2>1, Zenon DEF RowWritten
      <3>2. step = "done" /\ GateFacts
        BY <1>1 DEF RuleInv, RecordFacts
      <3>3. /\ gate["tests"] \in {"passed", "failed"}
            /\ gate["golden"] \in {"passed", "failed"}
            /\ gate["fuzz"] \in {"passed", "failed", "skipped"}
            /\ gate["fuzz"] = "passed" => fuzz.divergences = 0
            /\ gate["fuzz"] = "skipped" => fuzz = NoResult
        BY <3>2 DEF GateFacts, Graded
      <3>4. fuzz # NoResult /\ fuzz.divergences > 0 => gate["fuzz"] = "failed"
        BY <3>3
      <3>5. Layers = {"tests", "golden", "fuzz"}
        BY DEF Layers
      <3> QED
        BY <3>1, <3>3, <3>4, <3>5 DEF NamedGates
    <2>15. CountedLines(input.diff) =
              {i \in DOMAIN input.diff : IsChangedLine(input.diff[i])}
      <3>1. input.diff \in Diffs
        BY <1>1 DEF RuleInv, TypeOK, Input
      <3>2. input.diff \in Seq(Line) /\ HunksHaveHeaders(input.diff)
        BY <3>1, RuleAssumption
      <3> QED
        BY <3>2, CountedAreChanged
    <2> QED
      BY <2>8, <2>9, <2>10, <2>11, <2>13, <2>14, <2>15
  <1> QED
    BY <1>1, RuleInvHolds, PTL

-----------------------------------------------------------------------------
(***************************************************************************)
(* The process in its place in the pipeline.                                *)
(***************************************************************************)

\* A state of the process, as the pipeline has it.
Proc(yes, no, stage, d, v, san, failed) ==
    [stage |-> stage, run |-> Run, patch |-> d, note |-> "no-net.sh",
     isolated |-> yes, stashed |-> yes, misread |-> no, verdict |-> v,
     san |-> san, failed |-> failed]

\* The changes of the process that Pipeline's actions are made of.
LEMMA ProcessChanges ==
    ASSUME input' = input
    PROVE  LET pipes == [i \in {1} |-> Process]
           IN  /\ UNCHANGED <<VerdictOf, SanitizedBuild>>
                     /\ (step' = "error") = (step = "error")
                  => pipes' = [pipes EXCEPT ![1].stage = StageOf']
               /\ UNCHANGED <<VerdictOf, SanitizedBuild>>
                  => pipes' = [pipes EXCEPT ![1].stage = StageOf',
                                            ![1].failed = step' = "error"]
               /\ UNCHANGED SanitizedBuild
                     /\ (step' = "error") = (step = "error")
                  => pipes' = [pipes EXCEPT ![1].stage = StageOf',
                                            ![1].verdict = VerdictOf']
               /\ (step' = "error") = (step = "error")
                  => pipes' = [pipes EXCEPT ![1].stage = StageOf',
                                            ![1].verdict = VerdictOf',
                                            ![1].san = SanitizedBuild']
<1>. DEFINE yes == TRUE
            no == FALSE
            d  == input.diff
            s  == StageOf
            v  == VerdictOf
            b  == SanitizedBuild
            f  == step = "error"
            s2 == StageOf'
            v2 == VerdictOf'
            b2 == SanitizedBuild'
            f2 == step' = "error"
            P == Proc(yes, no, s, d, v, b, f)
            S == Proc(yes, no, s2, d, v, b, f)
            F == Proc(yes, no, s2, d, v, b, f2)
            V == Proc(yes, no, s2, d, v2, b, f)
            B == Proc(yes, no, s2, d, v2, b2, f)
            Q == Proc(yes, no, s2, d, v2, b2, f2)
<1>1. Process = P /\ Process' = Q
  BY DEF Process, Proc
<1>. HIDE DEF yes, no, d, s, v, b, f, s2, v2, b2, f2
<1>2. S = [P EXCEPT !.stage = s2]
  BY DEF Proc
<1>3. F = [S EXCEPT !.failed = f2]
  BY DEF Proc
<1>4. V = [S EXCEPT !.verdict = v2]
  BY DEF Proc
<1>5. B = [V EXCEPT !.san = b2]
  BY DEF Proc
<1>6. /\ v2 = v /\ b2 = b => Q = F
      /\ b2 = b /\ f2 = f => Q = V
      /\ f2 = f => Q = B
      /\ v2 = v /\ b2 = b /\ f2 = f => Q = S
  OBVIOUS
<1>. HIDE DEF P, S, F, V, B, Q
<1>7. [i \in {1} |-> S] = [[i \in {1} |-> P] EXCEPT ![1].stage = s2]
  BY <1>2
<1>8. [i \in {1} |-> F] = [[i \in {1} |-> P] EXCEPT ![1].stage = s2,
                                                   ![1].failed = f2]
  BY <1>2, <1>3
<1>9. [i \in {1} |-> V] = [[i \in {1} |-> P] EXCEPT ![1].stage = s2,
                                                   ![1].verdict = v2]
  BY <1>2, <1>4
<1>10. [i \in {1} |-> B] = [[i \in {1} |-> P] EXCEPT ![1].stage = s2,
                                                    ![1].verdict = v2,
                                                    ![1].san = b2]
  BY <1>2, <1>4, <1>5
<1>11. /\ v2 = v /\ b2 = b /\ f2 = f
          => [i \in {1} |-> Q] = [[i \in {1} |-> P] EXCEPT ![1].stage = s2]
       /\ v2 = v /\ b2 = b
          => [i \in {1} |-> Q] = [[i \in {1} |-> P] EXCEPT ![1].stage = s2,
                                                          ![1].failed = f2]
  BY <1>6, <1>7, <1>8
<1>12. /\ b2 = b /\ f2 = f
          => [i \in {1} |-> Q] = [[i \in {1} |-> P] EXCEPT ![1].stage = s2,
                                                          ![1].verdict = v2]
       /\ f2 = f
          => [i \in {1} |-> Q] = [[i \in {1} |-> P] EXCEPT ![1].stage = s2,
                                                          ![1].verdict = v2,
                                                          ![1].san = b2]
  BY <1>6, <1>9, <1>10
<1>. QED
  BY <1>1, <1>11, <1>12, Zenon DEF v, b, f, s2, v2, b2, f2

\* What Pipeline's guards read of the process.
LEMMA ProcessRead ==
    LET pipes == [i \in {1} |-> Process]
    IN  /\ pipes[1].stage = StageOf
        /\ pipes[1].patch = input.diff
        /\ pipes[1].run = Run
BY DEF Process

\* A step the pipeline does not see.
LEMMA ProcessUnseen ==
    ASSUME input' = input, row = NoRow, row' = NoRow,
           UNCHANGED <<StageOf, VerdictOf, SanitizedBuild>>,
           (step' = "error") = (step = "error")
    PROVE  UNCHANGED <<Process, RecordedRow>>
BY Zenon DEF Process, RecordedRow

\* Nothing but the process and the row changes.
LEMMA RestStands ==
    ASSUME input' = input
    PROVE  TestedTree' = TestedTree
BY DEF TestedTree

\* Until its row is written the ledger has none of this run.
LEMMA NoRowYet ==
    ASSUME row = NoRow, row' = NoRow
    PROVE  /\ RecordedRow = NoRow
           /\ UNCHANGED RecordedRow
BY DEF RecordedRow

\* A process that ends with an error fails as a pipeline does.
LEMMA ErrorFails ==
    ASSUME input' = input, step' = "error", StageOf' = "account",
           UNCHANGED <<VerdictOf, SanitizedBuild>>
    PROVE  Launched!Fail(1)
<1>1. [i \in {1} |-> Process]' =
          [[i \in {1} |-> Process] EXCEPT ![1].stage = "account",
                                          ![1].failed = TRUE]
  <2>1. (step' = "error") = TRUE
    OBVIOUS
  <2> QED
    BY <2>1, ProcessChanges, Zenon
<1> QED
  BY <1>1 DEF Launched!Fail

\* Up to the lanes no instrumented build has run.
LEMMA NoLaneYet ==
    ASSUME RuleInv, step \in Undecided \cup {"asan"}
    PROVE  SanitizedBuild = Missing
BY DEF RuleInv, LaneFacts, SanitizedBuild

\* The gates, as Pipeline has them.
LEMMA GatesAreThePipelines ==
    ASSUME RuleInv, row' = NoRow, row = NoRow, input' = input,
           VerifyPins \/ RunTests \/ ReplayGolden \/ RunFuzz \/ Grade
    PROVE  \/ Launched!RunGates(1)
           \/ UNCHANGED <<Process, RecordedRow>>
<1>1. /\ verdict = "none" /\ VerdictOf = "rejected-gate"
      /\ StageOf = "gates"
      /\ step # "error"
      /\ UNCHANGED lane
  BY DEF VerifyPins, RunTests, ReplayGolden, RunFuzz, Grade, RuleInv,
         PathFacts, Undecided, OnAccept, VerdictOf, StageOf
<1>2. SanitizedBuild = Missing
  BY NoLaneYet DEF VerifyPins, RunTests, ReplayGolden, RunFuzz, Grade,
                   Undecided
<1>3. SanitizedBuild' = Missing
  <2>1. lane.asan = "not run"
    BY DEF VerifyPins, RunTests, ReplayGolden, RunFuzz, Grade, RuleInv,
           LaneFacts, Undecided
  <2> QED
    BY <1>1, <2>1 DEF SanitizedBuild
<1>4. UNCHANGED <<TestedTree, RecordedRow>>
  BY RestStands, NoRowYet
<1>5. Launched!At(1, "gates")
  BY <1>1, ProcessRead DEF Launched!At
<1>6. CASE /\ step' \in {"pins", "tests", "golden", "fuzz", "grade"}
           /\ UNCHANGED verdict
  <2>1. UNCHANGED <<StageOf, VerdictOf, SanitizedBuild>>
    BY <1>1, <1>2, <1>3, <1>6 DEF StageOf, VerdictOf, OnAccept
  <2> QED
    BY <1>1, <1>6, <2>1, ProcessUnseen
<1>7. CASE step' = "error" /\ UNCHANGED verdict
  <2>1. /\ UNCHANGED <<VerdictOf, SanitizedBuild>>
        /\ StageOf' = "account"
    BY <1>1, <1>2, <1>3, <1>7 DEF StageOf, VerdictOf, OnAccept
  <2>2. Launched!Fail(1)
    BY <1>7, <2>1, ErrorFails
  <2> QED
    BY <1>4, <1>5, <2>2 DEF Launched!RunGates
<1>8. CASE step' = "bench" /\ UNCHANGED verdict
  <2>1. /\ UNCHANGED <<VerdictOf, SanitizedBuild>>
        /\ StageOf' = "bench"
        /\ (step' = "error") = (step = "error")
    BY <1>1, <1>2, <1>3, <1>8 DEF StageOf, VerdictOf, OnAccept
  <2>2. Launched!Enter(1, "bench")
    BY <2>1, ProcessChanges DEF Launched!Enter
  <2>3. input.diff \in Diffs
    BY DEF RuleInv, TypeOK, Input
  <2>4. [f \in {File} |-> input.diff] # Missing
    BY <2>3, MissingAssumption
  <2> QED
    BY <1>1, <1>4, <1>5, <2>2, <2>3, <2>4, ProcessRead DEF Launched!RunGates
<1>9. CASE step' = "record" /\ verdict' = "rejected-gate"
  <2>1. /\ UNCHANGED SanitizedBuild
        /\ StageOf' = "record"
        /\ VerdictOf' = "rejected-gate"
        /\ (step' = "error") = (step = "error")
    BY <1>1, <1>2, <1>3, <1>9 DEF StageOf, VerdictOf, OnAccept
  <2>2. [i \in {1} |-> Process]' =
            [[i \in {1} |-> Process] EXCEPT ![1].stage = "record",
                                            ![1].verdict = "rejected-gate"]
    BY <2>1, ProcessChanges, Zenon
  <2> QED
    BY <1>4, <1>5, <2>2 DEF Launched!RunGates
<1> QED
  BY <1>6, <1>7, <1>8, <1>9
  DEF VerifyPins, RunTests, ReplayGolden, RunFuzz, Grade

\* The bench and the decision; without the manual flag an interval that
\* clears the bar is an accept.
LEMMA BenchIsThePipelines ==
    ASSUME RuleInv, row' = NoRow, row = NoRow, input' = input, ~input.flag,
           Bench \/ Decide
    PROVE  \/ Launched!Bench(1)
           \/ UNCHANGED <<Process, RecordedRow>>
<1>1. /\ verdict = "none" /\ VerdictOf = "rejected-gate"
      /\ StageOf = "bench"
      /\ step # "error" /\ step' # "error"
      /\ UNCHANGED lane /\ lane.asan = "not run"
  BY DEF Bench, Decide, RuleInv, PathFacts, LaneFacts, Undecided, VerdictOf,
         StageOf, OnAccept
<1>2. UNCHANGED SanitizedBuild
  BY <1>1 DEF SanitizedBuild
<1>3. UNCHANGED <<TestedTree, RecordedRow>>
  BY RestStands, NoRowYet
<1>4. Launched!At(1, "bench")
  BY <1>1, ProcessRead DEF Launched!At
<1>5. CASE Bench
  <2>1. UNCHANGED <<StageOf, VerdictOf>>
    BY <1>1, <1>5 DEF Bench, StageOf, VerdictOf, OnAccept
  <2> QED
    BY <1>1, <1>2, <2>1, ProcessUnseen
<1>6. CASE step' = "record" /\ verdict' = "rejected-bench"
  <2>1. StageOf' = "record" /\ VerdictOf' = "rejected-bench"
    BY <1>6 DEF StageOf, VerdictOf, OnAccept
  <2>2. [i \in {1} |-> Process]' =
            [[i \in {1} |-> Process] EXCEPT ![1].stage = "record",
                                            ![1].verdict = "rejected-bench"]
    BY <1>1, <1>2, <2>1, ProcessChanges, Zenon
  <2> QED
    BY <1>3, <1>4, <2>2 DEF Launched!Bench
<1>7. CASE step' = "asan" /\ verdict' = "accepted"
  <2>1. StageOf' = "sanitize" /\ VerdictOf' = "accepted"
    BY <1>7 DEF StageOf, VerdictOf, OnAccept
  <2>2. [i \in {1} |-> Process]' =
            [[i \in {1} |-> Process] EXCEPT ![1].stage = "sanitize",
                                            ![1].verdict = "accepted"]
    BY <1>1, <1>2, <2>1, ProcessChanges, Zenon
  <2> QED
    BY <1>3, <1>4, <2>2 DEF Launched!Bench
<1> QED
  BY <1>5, <1>6, <1>7 DEF Decide

\* A step that caps an accept, after the instrumented build has run or not.
LEMMA CapIsThePipelines ==
    ASSUME row' = NoRow, row = NoRow, input' = input,
           StageOf = "sanitize", step # "error",
           StageOf' = "record", step' # "error",
           VerdictOf' = "needs-human-review",
           SanitizedBuild' \in {TestedTree, SanitizedBuild}
    PROVE  Launched!Sanitize(1)
<1>1. UNCHANGED <<TestedTree, RecordedRow>>
  BY RestStands, NoRowYet
<1>2. Launched!At(1, "sanitize")
  BY ProcessRead DEF Launched!At
<1>3. CASE SanitizedBuild' = TestedTree
  <2>1. [i \in {1} |-> Process]' =
            [[i \in {1} |-> Process] EXCEPT ![1].stage = "record",
                                            ![1].verdict = VerdictOf',
                                            ![1].san = TestedTree]
    BY <1>3, ProcessChanges, Zenon
  <2>2. VerdictOf' \in {"accepted", "needs-human-review"}
    OBVIOUS
  <2> QED
    BY <1>1, <1>2, <2>1, <2>2 DEF Launched!Sanitize
<1>4. CASE UNCHANGED SanitizedBuild
  <2>1. [i \in {1} |-> Process]' =
            [[i \in {1} |-> Process] EXCEPT
                ![1].stage = "record", ![1].verdict = "needs-human-review"]
    BY <1>4, ProcessChanges, Zenon
  <2> QED
    BY <1>1, <1>2, <2>1 DEF Launched!Sanitize
<1> QED
  BY <1>3, <1>4

\* The lanes and the caps.  Once a lane has capped the verdict the pipeline
\* sees nothing more of them.
LEMMA LanesAreThePipelines ==
    ASSUME RuleInv, row' = NoRow, row = NoRow, input' = input,
           SanitizerCheck \/ TsanCheck \/ Cap
    PROVE  \/ Launched!Sanitize(1)
           \/ UNCHANGED <<Process, RecordedRow>>
<1>1. /\ step \in OnAccept /\ step # "error" /\ step' # "error"
      /\ verdict \in {"accepted", "needs-human-review"}
      /\ verdict' \in {"accepted", "needs-human-review"}
      /\ verdict # "accepted" => verdict' = verdict
  BY DEF SanitizerCheck, TsanCheck, Cap, OnAccept, RuleInv, PathFacts
<1>2. VerdictOf = verdict /\ VerdictOf' = verdict'
  BY <1>1 DEF VerdictOf
<1>3. TestedTree' = TestedTree
  BY RestStands
<1>4. CASE verdict # "accepted"
  <2>1. StageOf = "record" /\ StageOf' = "record"
    BY <1>1, <1>4 DEF StageOf, OnAccept, SanitizerCheck, TsanCheck, Cap
  <2>2. UNCHANGED lane.asan
    BY <1>1, <1>4 DEF SanitizerCheck, TsanCheck, Cap, RuleInv, PathFacts,
                      TypeOK, Lanes
  <2>3. UNCHANGED SanitizedBuild
    BY <1>1, <1>3, <1>4, <2>2 DEF SanitizedBuild, LanesOver
  <2> QED
    BY <1>1, <1>2, <1>4, <2>1, <2>3, ProcessUnseen
<1>5. CASE verdict = "accepted" /\ step' \in {"tsan", "caps"}
  <2>1. StageOf = "sanitize" /\ SanitizedBuild = Missing
    BY <1>1, <1>5 DEF StageOf, SanitizedBuild, LanesOver, OnAccept
  <2>2. CASE verdict' = "accepted"
    <3>1. StageOf' = "sanitize" /\ SanitizedBuild' = Missing
      BY <1>1, <1>5, <2>2 DEF StageOf, SanitizedBuild, LanesOver, OnAccept
    <3> QED
      BY <1>1, <1>2, <1>5, <2>1, <2>2, <3>1, ProcessUnseen
  <2>3. CASE verdict' = "needs-human-review"
    <3>1. StageOf' = "record"
      BY <1>1, <1>5, <2>3 DEF StageOf, OnAccept
    <3>2. SanitizedBuild' \in {TestedTree, SanitizedBuild}
      BY <1>3, <2>1 DEF SanitizedBuild
    <3> QED
      BY <1>1, <1>2, <2>1, <2>3, <3>1, <3>2, CapIsThePipelines
  <2> QED
    BY <1>1, <2>2, <2>3
<1>6. CASE verdict = "accepted" /\ Cap
  <2>1. StageOf = "sanitize" /\ StageOf' = "record"
    BY <1>6 DEF StageOf, OnAccept, Cap
  <2>2. SanitizedBuild' = TestedTree
    BY <1>3, <1>6 DEF SanitizedBuild, LanesOver, Cap, RuleInv, PathFacts,
                      LanesClean
  <2>3. Launched!At(1, "sanitize")
    BY <2>1, ProcessRead DEF Launched!At
  <2>4. [i \in {1} |-> Process]' =
            [[i \in {1} |-> Process] EXCEPT ![1].stage = "record",
                                            ![1].verdict = VerdictOf',
                                            ![1].san = TestedTree]
    BY <1>1, <2>1, <2>2, ProcessChanges, Zenon
  <2>5. VerdictOf' \in {"accepted", "needs-human-review"}
    BY <1>1, <1>2
  <2>6. UNCHANGED RecordedRow
    BY NoRowYet
  <2> QED
    BY <1>3, <2>3, <2>4, <2>5, <2>6 DEF Launched!Sanitize
<1> QED
  BY <1>1, <1>4, <1>5, <1>6 DEF SanitizerCheck, TsanCheck

\* The row.
LEMMA RowIsThePipelines ==
    ASSUME RuleInv, row = NoRow, input' = input, Record
    PROVE  Launched!RecordRow(1)
<1>1. /\ step = "record" /\ step' = "done"
      /\ row' = RowWritten
      /\ UNCHANGED <<verdict, lane>>
  BY DEF Record
<1>2. input.diff \in Diffs /\ verdict \in Verdicts
  BY <1>1 DEF RuleInv, RecordFacts, Rule, Verdicts, TypeOK, Input
<1>3. /\ StageOf = "record" /\ StageOf' = "exit"
      /\ VerdictOf = verdict /\ UNCHANGED VerdictOf
  BY <1>1, <1>2 DEF StageOf, VerdictOf, OnAccept, Verdicts
<1>4. UNCHANGED TestedTree
  BY RestStands
<1>5. UNCHANGED SanitizedBuild
  BY <1>1, <1>4 DEF SanitizedBuild, LanesOver
<1>6. Launched!At(1, "record")
  BY <1>3, ProcessRead DEF Launched!At
<1>7. Launched!Enter(1, "exit")
  BY <1>1, <1>3, <1>5, ProcessChanges DEF Launched!Enter
<1>8. row' # NoRow /\ row'.verdict = verdict
  <2>1. RowWritten \in Row
    BY <1>2, RowIsTyped DEF RuleInv, RecordFacts
  <2> QED
    BY <1>1, <2>1, NoRowAssumption DEF RowWritten
<1>9. RecordedRow' = Launched!RowOf(1)
  <2>1. /\ [d \in Diffs |-> [f \in {File} |-> d]][input.diff] = TestedTree
        /\ [f \in {File} |-> AtHead]' = [f \in {File} |-> AtHead]
    BY <1>2 DEF TestedTree
  <2>2. [i \in {1} |-> Process][1] = Process
    OBVIOUS
  <2>3. Process.verdict = verdict /\ Process.san = SanitizedBuild
        /\ Process.patch = input.diff /\ Process.note = "no-net.sh"
        /\ Process.isolated = TRUE /\ Process.misread = FALSE
    BY <1>3 DEF Process
  <2> QED
    BY <1>4, <1>5, <1>8, <2>1, <2>2, <2>3, Zenon
    DEF RecordedRow, Launched!RowOf
<1>10. [r \in {Run} |-> RecordedRow][Run] = NoRow
  BY NoRowYet DEF RecordedRow
<1>11. [r \in {Run} |-> RecordedRow]' =
           [[r \in {Run} |-> RecordedRow] EXCEPT ![Run] = Launched!RowOf(1)]
  BY <1>9
<1> QED
  BY <1>4, <1>6, <1>7, <1>10, <1>11, ProcessRead DEF Launched!RecordRow

\* A command that fails ends the process without a row, wherever it was.
LEMMA AbortIsThePipelines ==
    ASSUME RuleInv, row' = NoRow, row = NoRow, input' = input, Abort
    PROVE  \/ Launched!RunGates(1) \/ Launched!Bench(1)
           \/ Launched!Sanitize(1) \/ Launched!RecordRow(1)
<1>1. /\ step \in {"pins", "tests", "golden", "fuzz", "bench", "asan", "tsan",
                   "record"}
      /\ step' = "error"
      /\ UNCHANGED <<verdict, lane>>
  BY DEF Abort
<1>2. UNCHANGED VerdictOf /\ StageOf' = "account"
  BY <1>1 DEF VerdictOf, StageOf, OnAccept
<1>3. UNCHANGED <<TestedTree, RecordedRow>>
  BY RestStands, NoRowYet
<1>4. UNCHANGED SanitizedBuild
  <2>1. CASE step \in Undecided \cup {"asan"}
    <3>1. lane.asan = "not run"
      BY <2>1 DEF RuleInv, LaneFacts
    <3> QED
      BY <1>1, <3>1 DEF SanitizedBuild
  <2>2. CASE step = "tsan"
    <3>1. input.target.tsanBuild /\ lane.tsan = "not run"
      BY <2>2 DEF RuleInv, LaneFacts, PathFacts
    <3> QED
      BY <1>1, <1>3, <2>2, <3>1 DEF SanitizedBuild, LanesOver
  <2>3. CASE step = "record"
    <3>1. verdict = "accepted" =>
             (input.target.tsanBuild => lane.tsan # "not run")
      BY <2>3 DEF RuleInv, RecordFacts, Rule, Evidence
    <3> QED
      BY <1>1, <1>3, <2>3, <3>1 DEF SanitizedBuild, LanesOver
  <2> QED
    BY <1>1, <2>1, <2>2, <2>3 DEF Undecided
<1>5. Launched!Fail(1)
  BY <1>1, <1>2, <1>4, ErrorFails
<1>6. StageOf \in {"gates", "bench", "sanitize", "record"}
  BY <1>1 DEF StageOf, OnAccept
<1>7. \/ Launched!At(1, "gates") \/ Launched!At(1, "bench")
      \/ Launched!At(1, "sanitize") \/ Launched!At(1, "record")
  BY <1>6, ProcessRead DEF Launched!At
<1> QED
  BY <1>3, <1>5, <1>7
  DEF Launched!RunGates, Launched!Bench, Launched!Sanitize,
      Launched!RecordRow

\* The process whose choices Pipeline leaves open takes only steps Pipeline
\* has: gates, bench, lanes, row and every error of verdict/main.rs 297-560.
\* Leaving the choices open has lost no behaviour, and what is shown of every
\* pipeline is shown of one that runs this process.
THEOREM ProcessRefinesPipeline == Spec => StepsAreThePipelines
<1>1. ASSUME RuleInv, [Next]_vars, step # "vet", ~input.flag
      PROVE  \/ Launched!PipelineStep(1)
             \/ UNCHANGED <<Process, RecordedRow>>
  <2>1. CASE UNCHANGED vars
    <3>1. /\ UNCHANGED <<input, lane, verdict, step, row>>
          /\ UNCHANGED TestedTree
      BY <2>1, RestStands DEF vars
    <3>2. UNCHANGED <<StageOf, VerdictOf, SanitizedBuild>>
      BY <3>1 DEF StageOf, VerdictOf, SanitizedBuild, LanesOver
    <3> QED
      BY <3>1, <3>2, Zenon DEF Process, RecordedRow
  <2>2. CASE Next
    <3>1. input' = input /\ row = NoRow
      BY <1>1, <2>2
      DEF Next, Vet, VerifyPins, RunTests, ReplayGolden, RunFuzz, Grade,
          Bench, Decide, SanitizerCheck, TsanCheck, Cap, Record, Abort,
          RuleInv, RecordFacts
    <3>2. CASE Record
      BY <1>1, <3>1, <3>2, RowIsThePipelines DEF Launched!PipelineStep
    <3>3. CASE ~Record
      <4>1. row' = NoRow
        BY <1>1, <2>2, <3>1, <3>3
        DEF Next, VerifyPins, RunTests, ReplayGolden, RunFuzz, Grade,
            Vet, Bench, Decide, SanitizerCheck, TsanCheck, Cap, Abort
      <4>2. CASE VerifyPins \/ RunTests \/ ReplayGolden \/ RunFuzz \/ Grade
        BY <1>1, <3>1, <4>1, <4>2, GatesAreThePipelines
        DEF Launched!PipelineStep
      <4>3. CASE Bench \/ Decide
        BY <1>1, <3>1, <4>1, <4>3, BenchIsThePipelines
        DEF Launched!PipelineStep
      <4>4. CASE SanitizerCheck \/ TsanCheck \/ Cap
        BY <1>1, <3>1, <4>1, <4>4, LanesAreThePipelines
        DEF Launched!PipelineStep
      <4>5. CASE Abort
        BY <1>1, <3>1, <4>1, <4>5, AbortIsThePipelines
        DEF Launched!PipelineStep
      <4>6. ~Vet
        BY <1>1 DEF Vet
      <4> QED
        BY <2>2, <3>3, <4>2, <4>3, <4>4, <4>5, <4>6 DEF Next
    <3> QED
      BY <3>2, <3>3
  <2> QED
    BY <1>1, <2>1, <2>2
<1>2. ASSUME RuleInv, [Next]_vars
      PROVE  [step # "vet" /\ ~input.flag => Launched!PipelineStep(1)
             ]_<<Process, RecordedRow>>
  BY <1>1, <1>2
<1> QED
  BY <1>2, RuleInvHolds, PTL DEF Spec, StepsAreThePipelines

==============================================================================
