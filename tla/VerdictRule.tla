----------------------------- MODULE VerdictRule -----------------------------
(***************************************************************************)
(* The verdict process from the gates to the ledger row: how gate outcomes, *)
(* the speedup interval, the sanitizer lanes, the risk signals and the      *)
(* manual flag become one of four verdicts, and what report, policy and     *)
(* explain later read out of the row.  Pipeline leaves these choices open.  *)
(*                                                                          *)
(* input is what the process is given.  replay, gate, fuzz, ci and lane are *)
(* what the commands it runs did; clean is what it notes of the lanes.      *)
(* An attempt of the agent begins with the vetting of its patch, one that   *)
(* an operator starts with the pins.                                        *)
(***************************************************************************)
EXTENDS DiffText, Equivalence

CONSTANTS Targets,    \* target.toml and equivalence.toml, as records
          Diffs,      \* the patches: sequences of Lines
          Goldens,    \* the outputs committed as golden
          Outputs,    \* what a replay may print
          Tol,        \* equivalence.toml: the tolerances
          Intervals,  \* speedup intervals, in percent above 1
          Threshold,  \* accept.toml: threshold, in percent
          Budget,     \* accept.toml: fuzz_iters
          NoResult,   \* the fuzz driver printed no FUZZ-RESULT line
          NoInterval,
          NoReplay,
          NoRow

Target == [suitePinned : BOOLEAN, reference : BOOLEAN, fuzz : BOOLEAN,
           fpTolerance : BOOLEAN, asanBuild : BOOLEAN, asanBinary : BOOLEAN,
           tsanBuild : BOOLEAN, tsanBinary : BOOLEAN]

\* AcceptConfig::load refuses a threshold that is not positive.
ASSUME RuleAssumption ==
    /\ Targets \subseteq Target
    /\ Diffs \subseteq Seq(Line)
    /\ \A diff \in Diffs : FilesNamed(diff) /\ HunksHaveHeaders(diff)
    /\ Goldens \subseteq Output
    /\ Outputs \subseteq Output
    /\ Tol \in Tolerance
    /\ Intervals \subseteq {i \in [lo : Int, hi : Int] : i.lo <= i.hi}
    /\ Threshold \in Nat \ {0}
    /\ Budget \in Nat
    /\ NoInterval \notin [lo : Int, hi : Int]
    /\ NoReplay \notin [success : BOOLEAN, output : Output]
    /\ NoResult \notin [iters : Nat, divergences : Nat]

VARIABLES input, step, gate, replay, fuzz, ci, verdict, lane, clean, row

vars == <<input, step, gate, replay, fuzz, ci, verdict, lane, clean, row>>

Layers   == {"tests", "golden", "fuzz"}
Outcomes == {"not run", "passed", "failed", "skipped"}
Verdicts == {"accepted", "needs-human-review", "rejected-bench",
             "rejected-gate"}
Runs     == {"not run", "clean", "flagged", "unbuildable"}
Signals  == Tokens \cup {"fp-tolerance-equivalence"}
Gates    == [Layers -> Outcomes]
Lanes    == [asan : Runs, tsan : Runs]
Columns  == [asan : BOOLEAN, tsan : {"null", "true", "false"}]
Replays  == [success : BOOLEAN, output : Outputs]
Steps    == {"vet", "pins", "tests", "golden", "fuzz", "grade", "bench",
             "decide", "asan", "tsan", "caps", "record", "done", "refused",
             "error"}

Input == [target : Targets, diff : Diffs, golden : Goldens, flag : BOOLEAN,
          tampered : SUBSET {"corpus", "suite"}]

Row == [verdict : Verdicts, tests : BOOLEAN, golden : BOOLEAN,
        iters : Nat, divergence : BOOLEAN, sanitizersClean : BOOLEAN,
        tsanClean : {"null", "true", "false"}, signals : SUBSET Signals,
        fpTolerance : BOOLEAN, interval : Intervals \cup {NoInterval},
        bar : Nat]

\* No row of the ledger reads as "there is no row".
ASSUME NoRowAssumption == NoRow \notin Row

\* What an operator starts with has been applied by git, which refuses to
\* write outside the workspace.
Init ==
    /\ input \in Input
    /\ \/ step = "vet"
       \/ step = "pins" /\ NamesOnlyInside(input.diff)
    /\ gate = [l \in Layers |-> "not run"]
    /\ replay = NoReplay
    /\ fuzz = NoResult
    /\ ci = NoInterval
    /\ verdict = "none"
    /\ lane = [asan |-> "not run", tsan |-> "not run"]
    /\ clean = [asan |-> FALSE, tsan |-> "null"]
    /\ row = NoRow

(***************************************************************************)
(* The daemon vets the patch when it is proposed and again when it is       *)
(* submitted, and applies nothing it refuses; git refuses the rest.         *)
(***************************************************************************)
Vet ==
    /\ step = "vet"
    /\ step' = IF CheckDiffPaths(input.diff) /\ NamesOnlyInside(input.diff)
               THEN "pins" ELSE "refused"
    /\ UNCHANGED <<input, gate, replay, fuzz, ci, verdict, lane, clean, row>>

(***************************************************************************)
(* The gates.                                                               *)
(***************************************************************************)

\* The corpus pin is mandatory, the pin of the test suite is checked when a
\* TESTSUITE.sha256 is there.
Intact ==
    /\ "corpus" \notin input.tampered
    /\ input.target.suitePinned => "suite" \notin input.tampered

VerifyPins ==
    /\ step = "pins"
    /\ step' = IF Intact THEN "tests" ELSE "error"
    /\ UNCHANGED <<input, gate, replay, fuzz, ci, verdict, lane, clean, row>>

RunTests ==
    /\ step = "tests"
    /\ \E o \in {"passed", "failed"} : gate' = [gate EXCEPT !["tests"] = o]
    /\ step' = "golden"
    /\ UNCHANGED <<input, replay, fuzz, ci, verdict, lane, clean, row>>

\* A command that fails fails the gate, whatever it printed.
GradeReplay(target, golden, r) ==
    IF r.success /\ Compare(target.fpTolerance, Tol, golden, r.output)
    THEN "passed" ELSE "failed"

\* A tolerance has nothing to compare with when no reference is committed:
\* the gate fails, and the replay command is not run.
ReplayGolden ==
    /\ step = "golden"
    /\ IF input.target.fpTolerance /\ ~input.target.reference
       THEN /\ gate' = [gate EXCEPT !["golden"] = "failed"]
            /\ replay' = replay
       ELSE \E r \in Replays :
               /\ gate' = [gate EXCEPT !["golden"] =
                              GradeReplay(input.target, input.golden, r)]
               /\ replay' = r
    /\ step' = "fuzz"
    /\ UNCHANGED <<input, fuzz, ci, verdict, lane, clean, row>>

\* What a driver can report: it refuses to run with less than one iteration,
\* and prints nothing when it stops early.
FuzzReports == {NoResult} \cup [iters : 1 .. Budget, divergences : 0 .. 1]

GradeFuzz(report, success) ==
    IF report # NoResult /\ success /\ report.divergences = 0
    THEN "passed" ELSE "failed"

RunFuzz ==
    /\ step = "fuzz"
    /\ IF input.target.fuzz
       THEN \E report \in FuzzReports, success \in BOOLEAN :
               /\ gate' = [gate EXCEPT !["fuzz"] = GradeFuzz(report, success)]
               /\ fuzz' = report
       ELSE /\ gate' = [gate EXCEPT !["fuzz"] = "skipped"]
            /\ fuzz' = fuzz
    /\ step' = "grade"
    /\ UNCHANGED <<input, replay, ci, verdict, lane, clean, row>>

\* all_passed: a skipped layer is no failure, and some layer passed.
AllPassed ==
    /\ \A l \in Layers : gate[l] \in {"passed", "skipped"}
    /\ \E l \in Layers : gate[l] = "passed"

\* A rejected gate skips the bench and everything after it.
Grade ==
    /\ step = "grade"
    /\ IF AllPassed
       THEN step' = "bench" /\ verdict' = verdict
       ELSE step' = "record" /\ verdict' = "rejected-gate"
    /\ UNCHANGED <<input, gate, replay, fuzz, ci, lane, clean, row>>

(***************************************************************************)
(* The bench and the decision.                                              *)
(***************************************************************************)
Bench ==
    /\ step = "bench"
    /\ ci' \in Intervals
    /\ step' = "decide"
    /\ UNCHANGED <<input, gate, replay, fuzz, verdict, lane, clean, row>>

\* The best case clears the bar.
ClearsAtBest(i) == i.hi >= Threshold

\* The lower bound, never the estimate.
Clears(i) == i.lo >= Threshold

\* The sanitizers run only for what would still be an accept.
Decide ==
    /\ step = "decide"
    /\ \/ /\ ~Clears(ci)
          /\ verdict' = "rejected-bench" /\ step' = "record"
       \/ /\ Clears(ci) /\ input.flag
          /\ verdict' = "needs-human-review" /\ step' = "record"
       \/ /\ Clears(ci) /\ ~input.flag
          /\ verdict' = "accepted" /\ step' = "asan"
    /\ UNCHANGED <<input, gate, replay, fuzz, ci, lane, clean, row>>

(***************************************************************************)
(* The sanitizer lanes.  A build that fails is no finding about the patch.  *)
(***************************************************************************)
LaneResult(build, binary) ==
    IF build /\ binary THEN {"clean", "flagged", "unbuildable"}
    ELSE {"not run"}

\* A lane that did not flag anything does not cap the verdict.
SanitizerCheckUnlessFlagged ==
    /\ step = "asan"
    /\ \E r \in LaneResult(input.target.asanBuild, input.target.asanBinary) :
          /\ lane' = [lane EXCEPT !.asan = r]
          /\ clean' = [clean EXCEPT !.asan = r # "flagged"]
          /\ verdict' = IF r # "flagged" THEN verdict ELSE "needs-human-review"
    /\ step' = IF input.target.tsanBuild THEN "tsan" ELSE "caps"
    /\ UNCHANGED <<input, gate, replay, fuzz, ci, row>>

SanitizerCheck ==
    /\ step = "asan"
    /\ \E r \in LaneResult(input.target.asanBuild, input.target.asanBinary) :
          /\ lane' = [lane EXCEPT !.asan = r]
          /\ clean' = [clean EXCEPT !.asan = r = "clean"]
          /\ verdict' = IF r = "clean" THEN verdict ELSE "needs-human-review"
    /\ step' = IF input.target.tsanBuild THEN "tsan" ELSE "caps"
    /\ UNCHANGED <<input, gate, replay, fuzz, ci, row>>

\* An unverifiable lane recorded as it is.
TsanColumnRaw(r) ==
    CASE r = "clean" -> "true" [] r = "flagged" -> "false" [] OTHER -> r

TsanColumn(r) ==
    CASE r = "clean" -> "true" [] r = "flagged" -> "false" [] OTHER -> "null"

\* The lane decides anew instead of capping what the first one left.
TsanCheckAnew ==
    /\ step = "tsan"
    /\ \E r \in LaneResult(TRUE, input.target.tsanBinary) :
          /\ lane' = [lane EXCEPT !.tsan = r]
          /\ clean' = [clean EXCEPT !.tsan = TsanColumn(r)]
          /\ verdict' = IF r = "clean" THEN "accepted" ELSE "needs-human-review"
    /\ step' = "caps"
    /\ UNCHANGED <<input, gate, replay, fuzz, ci, row>>

\* Runs even when the first lane has already capped the verdict.
TsanCheck ==
    /\ step = "tsan"
    /\ \E r \in LaneResult(TRUE, input.target.tsanBinary) :
          /\ lane' = [lane EXCEPT !.tsan = r]
          /\ clean' = [clean EXCEPT !.tsan = TsanColumn(r)]
          /\ verdict' = IF r = "clean" THEN verdict ELSE "needs-human-review"
    /\ step' = "caps"
    /\ UNCHANGED <<input, gate, replay, fuzz, ci, row>>

(***************************************************************************)
(* Risk signals, the fuzz rule and the row.                                 *)
(***************************************************************************)

RiskSignals == Classify(input.diff, input.target.fpTolerance)

\* Only a fuzz gate that failed caps the verdict.
CapUnlessFuzzFailed ==
    /\ step = "caps"
    /\ verdict' = IF verdict = "accepted"
                     /\ (RiskSignals # {} \/ gate["fuzz"] = "failed")
                  THEN "needs-human-review" ELSE verdict
    /\ step' = "record"
    /\ UNCHANGED <<input, gate, replay, fuzz, ci, lane, clean, row>>

Cap ==
    /\ step = "caps"
    /\ verdict' = IF verdict = "accepted"
                     /\ (RiskSignals # {} \/ gate["fuzz"] # "passed")
                  THEN "needs-human-review" ELSE verdict
    /\ step' = "record"
    /\ UNCHANGED <<input, gate, replay, fuzz, ci, lane, clean, row>>

RowWritten ==
    [verdict |-> verdict,
     tests |-> gate["tests"] = "passed", golden |-> gate["golden"] = "passed",
     iters |-> IF fuzz = NoResult THEN 0 ELSE fuzz.iters,
     divergence |-> fuzz # NoResult /\ fuzz.divergences > 0,
     sanitizersClean |-> clean.asan, tsanClean |-> clean.tsan,
     signals |-> RiskSignals, fpTolerance |-> input.target.fpTolerance,
     interval |-> ci, bar |-> Threshold]

Record ==
    /\ step = "record"
    /\ row' = RowWritten
    /\ step' = "done"
    /\ UNCHANGED <<input, gate, replay, fuzz, ci, verdict, lane, clean>>

\* Everything that runs a command, reads a file or writes the database can
\* end the process with an error, and then there is no row.
Abort ==
    /\ step \in {"pins", "tests", "golden", "fuzz", "bench", "asan", "tsan",
                 "record"}
    /\ step' = "error"
    /\ UNCHANGED <<input, gate, replay, fuzz, ci, verdict, lane, clean, row>>

Next ==
    \/ Vet \/ VerifyPins \/ RunTests \/ ReplayGolden \/ RunFuzz \/ Grade
    \/ Bench \/ Decide \/ SanitizerCheck \/ TsanCheck \/ Cap \/ Record
    \/ Abort

Spec == Init /\ [][Next]_vars

(***************************************************************************)
(* What the readers of a row make of it.                                    *)
(***************************************************************************)

\* report: the ROI is printed without the "Not shipped" warning.
Shippable(r) == r.verdict = "accepted" /\ r.sanitizersClean

\* policy: the row counts for its class.
CountsAs(r) ==
    CASE r.verdict = "accepted" /\ r.sanitizersClean -> "win"
      [] r.verdict = "needs-human-review" -> "held"
      [] OTHER -> "attempt"

\* explain: where an interval landed, with the bar on record.
ClassifyInterval(lo, hi, bar) ==
    IF hi < 0 THEN "regression"
    ELSE IF lo <= 0 THEN "indistinguishable"
    ELSE IF lo >= bar THEN "meets bar" ELSE "real, below bar"

Landed(r) == ClassifyInterval(r.interval.lo, r.interval.hi, r.bar)

\* explain: the cautions printed about an accepted row.
Cautions(r) ==
    {c \in {"sanitizers", "no fuzz", "tsan"} :
        \/ c = "sanitizers" /\ ~r.sanitizersClean
        \/ c = "no fuzz" /\ r.iters = 0
        \/ c = "tsan" /\ r.tsanClean = "false"}

\* explain: the gates named for a rejected-gate row.
NamedGates(r) ==
    {g \in Layers : \/ g = "tests" /\ ~r.tests
                    \/ g = "golden" /\ ~r.golden
                    \/ g = "fuzz" /\ r.divergence}

\* explain: the caps named for a needs-human-review row.
NamedCaps(r) ==
    {c \in {"risk", "no fuzz", "fp tolerance"} :
        \/ c = "risk" /\ r.signals # {}
        \/ c = "no fuzz" /\ r.signals = {} /\ r.iters = 0
        \/ c = "fp tolerance" /\ r.fpTolerance}

(***************************************************************************)
(* Properties.                                                              *)
(***************************************************************************)

\* Every variable stays in its type.
TypeOK ==
    /\ input \in Input
    /\ step \in Steps
    /\ gate \in Gates
    /\ replay \in Replays \cup {NoReplay}
    /\ fuzz \in FuzzReports
    /\ ci \in Intervals \cup {NoInterval}
    /\ verdict \in Verdicts \cup {"none"}
    /\ lane \in Lanes
    /\ clean \in Columns
    /\ row \in Row \cup {NoRow}

\* The rule in one place, from what the commands did.  Evidence: what an
\* accept needs beyond passed gates and a cleared bar (verdict/main.rs 1-14).
Evidence ==
    /\ ~input.flag
    /\ lane.asan = "clean"
    /\ input.target.tsanBuild => lane.tsan = "clean"
    /\ Classify(input.diff, input.target.fpTolerance) = {}
    /\ gate["fuzz"] = "passed" /\ fuzz.divergences = 0 /\ fuzz.iters > 0

Rule ==
    IF \E l \in Layers : gate[l] = "failed" THEN "rejected-gate"
    ELSE IF ci.lo < Threshold THEN "rejected-bench"
    ELSE IF Evidence THEN "accepted" ELSE "needs-human-review"

\* The row's verdict is the rule's, whichever way the process came to it: no
\* cap is lost because another one fired first, none fires without its cause,
\* and no accept is short of one piece of evidence (main.rs 308-470).
VerdictFollowsTheRule == row # NoRow => row.verdict = Rule

\* A verdict is only ever capped, never upgraded (main.rs 5-6): once decided
\* it changes from accepted to needs-human-review and in no other way.
CappedNeverUpgraded ==
    [][verdict' # verdict =>
          \/ verdict = "none"
          \/ verdict = "accepted" /\ verdict' = "needs-human-review"]_vars

\* The sanitizer columns claim nothing that did not happen: clean means that
\* the lane was built, run and silent, and a flagged lane is on record
\* (main.rs 413-443).
SanitizerColumnsAreTrue ==
    row # NoRow =>
        /\ row.sanitizersClean => lane.asan = "clean"
        /\ (row.tsanClean = "true") = (lane.tsan = "clean")
        /\ (row.tsanClean = "false") = (lane.tsan = "flagged")

\* A patch that gets past the allowlist names no path outside the workspace
\* in any line git takes for a header, though the allowlist follows no hunk
\* and splits git headers at the last " b/", wherever that is.  Two headers
\* are excepted, which only git's own check stops: one in a spelling the
\* allowlist has no rule for, and a rename whose path it cuts at a tab
\* (allowlist.rs 23-117; daemon.rs 267, 348).
LetThroughStaysInside ==
    CheckDiffPaths(input.diff) => OnlyUnseenLeave(input.diff)

\* A refusal, by the allowlist or by git's own check, has one of two causes: a
\* path git would not write for a file of the workspace, or a changed line that
\* renders as a file header, for which the error has a note (allowlist.rs
\* 26-41).
RefusedWithCause ==
    step = "refused" =>
        \E i \in DOMAIN input.diff : Objectionable(input.diff[i])

\* Under either policy golden replay passes exactly what it should: the
\* command succeeded and printed the golden output, or one that is within
\* the tolerance token by token: no missing token, no NaN in place of a
\* number, no number in place of a NaN (policy.rs 43-117, orchestrate.rs
\* 136-167).  Golden outputs with an infinity are left out: there the
\* allowance is infinite, or no number, and a finite number passes.
GoldenGateDecides ==
    /\ replay = NoReplay => gate["golden"] # "passed"
    /\ replay # NoReplay /\ IsBounded(input.golden) =>
          (gate["golden"] = "passed") =
              (/\ replay.success
               /\ IF input.target.fpTolerance
                  THEN AllWithin(Tol, input.golden, replay.output)
                  ELSE replay.output = input.golden)

\* report, policy and explain agree with the verdict of a row written under
\* this rule: an accept ships, counts as a win, draws no caution and clears
\* the bar explain recomputes; a bench rejection is not "inconsistent"; a gate
\* rejection names exactly the gates that failed, a fuzz gate that failed
\* without a divergence excepted; a review row that SPEC.md:103's caps apply to
\* has one of them named; and the lines explain counts as changed are those the
\* risk classifier has read (explain/lib.rs 183-210, 285-332, 365-400).
ReadersAgree ==
    row # NoRow =>
        /\ Shippable(row) = (row.verdict = "accepted")
        /\ (CountsAs(row) = "win") = (row.verdict = "accepted")
        /\ row.verdict = "accepted" =>
               Cautions(row) = {} /\ Landed(row) = "meets bar"
        /\ row.verdict = "rejected-bench" =>
               Landed(row) # "meets bar"
        /\ NamedGates(row) =
               {g \in Layers : /\ gate[g] = "failed"
                               /\ g = "fuzz" => fuzz # NoResult
                                                  /\ fuzz.divergences > 0}
        /\ row.verdict = "needs-human-review"
                /\ (RiskSignals # {} \/ gate["fuzz"] # "passed") =>
               NamedCaps(row) # {}
        /\ CountedLines(input.diff) =
               {i \in DOMAIN input.diff : IsChangedLine(input.diff[i])}

\* risk.rs:1-6, SPEC.md:149: a would-be accept whose changed lines carry a
\* risk token goes to human review.
NoRiskTokenIsAccepted ==
    row # NoRow /\ row.verdict = "accepted" =>
        \A i \in DOMAIN input.diff :
            IsChange(input.diff[i]) => input.diff[i].token = "none"

(***************************************************************************)
(* The inductive invariant: what each step of the process can count on.     *)
(***************************************************************************)
Undecided == {"vet", "pins", "tests", "golden", "fuzz", "grade", "bench",
              "decide"}
Graded    == {"bench", "decide", "asan", "tsan", "caps", "record", "done"}
OnAccept  == {"asan", "tsan", "caps"}

\* The lanes that have run leave an accept standing.
LanesClean(tsanToo) ==
    lane.asan = "clean" /\ (tsanToo => lane.tsan = "clean")

\* Each gate has run when the gates are graded; the process goes on to the
\* bench when none has failed.
GateFacts ==
    /\ step \in {"golden", "fuzz", "grade"} \cup Graded =>
           gate["tests"] \in {"passed", "failed"}
    /\ step \in {"fuzz", "grade"} \cup Graded =>
           gate["golden"] \in {"passed", "failed"}
    /\ step \in {"grade"} \cup Graded =>
           gate["fuzz"] \in {"passed", "failed", "skipped"}
    /\ step \in {"bench", "decide"} \cup OnAccept =>
           \A l \in Layers : gate[l] # "failed"
    /\ gate["fuzz"] = "passed" => fuzz # NoResult /\ fuzz.divergences = 0
    /\ step \in {"vet", "pins", "tests", "golden", "fuzz"} =>
           gate["fuzz"] = "not run"
    /\ gate["fuzz"] \in {"not run", "skipped"} => fuzz = NoResult

\* The golden gate is graded with the replay, and passes nothing without one;
\* a refused patch was objectionable to the allowlist or to git.
ReplayFacts ==
    /\ step \in {"vet", "pins", "tests", "golden"} =>
           replay = NoReplay /\ gate["golden"] = "not run"
    /\ replay = NoReplay => gate["golden"] # "passed"
    /\ replay # NoReplay =>
           gate["golden"] = GradeReplay(input.target, input.golden, replay)
    /\ step = "refused" => ~CheckDiffPaths(input.diff)
                              \/ ~NamesOnlyInside(input.diff)

\* On the accept path the interval clears the bar, and the verdict is what
\* the lanes have left of the accept.
PathFacts ==
    /\ step \in Undecided => verdict = "none"
    /\ step = "decide" => ci \in Intervals
    /\ step \in OnAccept =>
           ci \in Intervals /\ ci.lo >= Threshold /\ ~input.flag
    /\ step = "asan" => verdict = "accepted"
    /\ step = "tsan" =>
           /\ input.target.tsanBuild
           /\ verdict = IF LanesClean(FALSE) THEN "accepted"
                        ELSE "needs-human-review"
    /\ step = "caps" =>
           verdict = IF LanesClean(input.target.tsanBuild) THEN "accepted"
                     ELSE "needs-human-review"

\* What is about to be recorded, or has been, is the rule's verdict.
RecordFacts ==
    /\ step \in {"record", "done"} =>
           /\ verdict = Rule
           /\ verdict # "rejected-gate" => ci \in Intervals
    /\ row # NoRow => step = "done" /\ row = RowWritten

\* The columns follow the lanes.
ColumnFacts ==
    clean.asan = (lane.asan = "clean") /\ clean.tsan = TsanColumn(lane.tsan)

\* The lanes run in their order, once, and the second only where its build
\* is declared.
LaneFacts ==
    /\ step \in Undecided \cup {"asan"} => lane.asan = "not run"
    /\ step \in Undecided \cup {"asan", "tsan"} => lane.tsan = "not run"
    /\ lane.tsan # "not run" => input.target.tsanBuild

RuleInv ==
    /\ TypeOK
    /\ GateFacts
    /\ ReplayFacts
    /\ PathFacts
    /\ RecordFacts
    /\ ColumnFacts
    /\ LaneFacts

==============================================================================
