--------------------------------- MODULE Bench ---------------------------------
(***************************************************************************)
(* The wall-time bench of crates/bench-runner: interleaved runs of two      *)
(* commands, the bootstrap over their times, the decision, and the two      *)
(* self-tests that vouch for it, A/A and calibration.                       *)
(*                                                                          *)
(* The machine is external: a run takes what its command costs plus the     *)
(* heat of the moment, which drifts by at most Drift from run to run.       *)
(* Times are in ticks.                                                      *)
(***************************************************************************)
EXTENDS Integers, Sequences, FiniteSets

CONSTANTS Runs, WarmUps,            \* accept.toml: runs_per_side, warmup_runs
          ProbeRuns, ProbeWarmUps,  \* of calibrate's probe: 5 and 1
          Iterations,               \* values of bootstrap_iters
          Confidences,              \* values of confidence, in percent
          Bar,                      \* threshold, in percent
          Slowdown,                 \* calibrate's injection, in percent
          SessionCounts,            \* values of calibrate's sessions
          BaseTime,                 \* what the baseline costs
          CandidateTimes,           \* what a candidate may cost
          PerfCost,                 \* what perf stat adds to a run
          Drift, MaxHeat            \* the machine

\* What AcceptConfig::load lets through, and commands that take some time.
ASSUME BenchAssumption ==
    /\ Runs \in Nat \ {0, 1} /\ WarmUps \in Nat
    /\ ProbeRuns \in Nat \ {0} /\ ProbeWarmUps \in Nat
    /\ Iterations \subseteq Nat /\ Confidences \subseteq 0 .. 99
    /\ Bar \in Nat \ {0} /\ SessionCounts \subseteq Nat
    /\ Slowdown \in Nat /\ BaseTime * Slowdown >= 100
    /\ BaseTime \in Nat \ {0} /\ CandidateTimes \subseteq Nat \ {0}
    /\ PerfCost \in Nat /\ Drift \in Nat /\ MaxHeat \in Nat

VARIABLES cfg,     \* the command line and the configuration
          part,    \* what is being measured
          k,       \* how far the schedule has come
          heat,    \* the machine
          base,    \* baseline_s
          cand,    \* candidate_s
          inject,  \* calibrate's busy-wait
          ratios,  \* the bootstrap's ratios, sorted
          sess, fp, det,  \* calibrate's sessions, false positives, detections
          result,
          moved    \* history: the heat has changed

samples == <<k, base, cand, ratios>>
counts  == <<sess, fp, det>>
vars == <<cfg, part, samples, heat, inject, counts, result, moved>>

Modes == {"compare", "perf-stat", "aa", "calibrate"}

\* Both sides of a self-test run the same command; only calibrate has sessions.
Config ==
    {c \in [mode : Modes, candidate : CandidateTimes \cup {BaseTime},
            iters : Iterations, confidence : Confidences,
            sessions : SessionCounts \cup {0}] :
        /\ c.mode \in {"aa", "calibrate"} => c.candidate = BaseTime
        /\ c.mode # "calibrate" => c.sessions = 0}

(***************************************************************************)
(* The schedule: baseline and candidate in turn, warm-ups first.            *)
(***************************************************************************)
PlanLength(runs, warm) == 2 * (runs + warm)

\* All of the baseline's runs, then all of the candidate's.
BlockSide(j, runs, warm) == IF j < runs + warm THEN "baseline" ELSE "candidate"

SideAt(j, runs, warm) == IF j % 2 = 0 THEN "baseline" ELSE "candidate"

\* The last warm-up is measured.
MeasuredTooEarly(j, warm) == j \div 2 + 1 >= warm

MeasuredAt(j, warm) == j \div 2 >= warm

PlanRuns    == IF part = "probe" THEN ProbeRuns ELSE Runs
PlanWarmUps == IF part = "probe" THEN ProbeWarmUps ELSE WarmUps
PlanDone    == k = PlanLength(PlanRuns, PlanWarmUps)

\* perf stat's own time lands on both sides.
Overhead == IF cfg.mode = "perf-stat" THEN PerfCost ELSE 0

\* The busy-wait that calibrate injects, in the candidate's timed window.
Spin == IF part = "inject" THEN inject ELSE 0

Cost(side) == IF side = "baseline" THEN BaseTime + Overhead
              ELSE cfg.candidate + Overhead + Spin

Init ==
    /\ cfg \in Config
    /\ part = IF cfg.mode = "calibrate" THEN "probe" ELSE "compare"
    /\ k = 0 /\ base = <<>> /\ cand = <<>> /\ ratios = <<>>
    /\ heat \in 0 .. MaxHeat
    /\ inject = 0 /\ sess = 0 /\ fp = 0 /\ det = 0
    /\ result = "running"
    /\ moved = FALSE

Running == result = "running" /\ part # "judge"

Near(h, g) == h - g <= Drift /\ g - h <= Drift

\* One run of one command, timed.
Run ==
    /\ Running /\ ~PlanDone
    /\ \E h \in 0 .. MaxHeat :
          LET side == SideAt(k, PlanRuns, PlanWarmUps)
              time == Cost(side) + h
              keep == MeasuredAt(k, PlanWarmUps)
          IN  /\ Near(h, heat)
              /\ heat' = h /\ moved' = (moved \/ h # heat)
              /\ base' = IF keep /\ side = "baseline"
                         THEN Append(base, time) ELSE base
              /\ cand' = IF keep /\ side = "candidate"
                         THEN Append(cand, time) ELSE cand
    /\ k' = k + 1
    /\ UNCHANGED <<cfg, part, inject, ratios, counts, result>>

\* A command that cannot be started or exits nonzero ends everything.
RunFails ==
    /\ Running /\ ~PlanDone
    /\ result' = "error"
    /\ UNCHANGED <<cfg, part, samples, heat, inject, counts, moved>>

(***************************************************************************)
(* Medians and the bootstrap.  Medians are doubled, ratios are pairs of     *)
(* doubled medians, and both are exact.                                     *)
(***************************************************************************)

\* An element of s that has rank i, counting from 0, when s is sorted.
Ranked(s, i) ==
    CHOOSE x \in {s[j] : j \in DOMAIN s} :
        /\ Cardinality({j \in DOMAIN s : s[j] < x}) <= i
        /\ Cardinality({j \in DOMAIN s : s[j] <= x}) > i

Median2(s) == Ranked(s, (Len(s) - 1) \div 2) + Ranked(s, Len(s) \div 2)

\* The doubled medians that resampling with replacement can give.
Resampled(s) ==
    {Median2([i \in DOMAIN s |-> s[pick[i]]]) :
        pick \in [DOMAIN s -> DOMAIN s]}

Ratio == [num : Nat \ {0}, den : Nat \ {0}]

AtMost(q, r) == q.num * r.den <= r.num * q.den

Sorted(s) == \A i, j \in DOMAIN s : i <= j => AtMost(s[i], s[j])

\* The sort is missing.
RatiosUnsorted(iters) ==
    [1 .. iters -> [num : Resampled(base), den : Resampled(cand)]]

\* What the generator's picks can make of the samples, for any seed.
RatiosOf(iters) ==
    {s \in [1 .. iters -> [num : Resampled(base), den : Resampled(cand)]] :
        Sorted(s)}

\* alpha = (1 - confidence) / 2: floor(iters * alpha), and
\* ceil(iters * (1 - alpha)) but at most the last index.
LoIndexTooHigh(iters, confidence) ==
    IF iters = 1 THEN 0 ELSE (iters * (100 - confidence)) \div 200 + 1

LoIndex(iters, confidence) == (iters * (100 - confidence)) \div 200

HiIndex(iters, confidence) ==
    LET ceil == (iters * (100 + confidence) + 199) \div 200
    IN  IF ceil < iters THEN ceil ELSE iters - 1

Lo == ratios[LoIndex(cfg.iters, cfg.confidence) + 1]
Hi == ratios[HiIndex(cfg.iters, cfg.confidence) + 1]

Estimated == ratios # <<>>

\* Without iterations there is no index to take: a panic.
Bootstrap ==
    /\ Running /\ PlanDone /\ part # "probe" /\ ~Estimated
    /\ IF cfg.iters = 0
       THEN result' = "panic" /\ ratios' = ratios
       ELSE result' = result /\ ratios' \in RatiosOf(cfg.iters)
    /\ UNCHANGED <<cfg, part, k, base, cand, heat, inject, counts, moved>>

(***************************************************************************)
(* Decisions.                                                               *)
(***************************************************************************)

\* Any speedup clears.
ClearsOne(r) == r.num >= r.den

Clears(r) == 100 * r.num >= (100 + Bar) * r.den

\* Entirely below one.
Slower(r) == r.num < r.den

Decide ==
    /\ Running /\ Estimated /\ cfg.mode \in {"compare", "perf-stat"}
    /\ result' = IF Clears(Lo) THEN "accepted" ELSE "rejected-bench"
    /\ UNCHANGED <<cfg, part, samples, heat, inject, counts, moved>>

\* The A/A self-test demands a null verdict.
SelfTest ==
    /\ Running /\ Estimated /\ cfg.mode = "aa"
    /\ result' = IF Clears(Lo) THEN "fail" ELSE "pass"
    /\ UNCHANGED <<cfg, part, samples, heat, inject, counts, moved>>

(***************************************************************************)
(* Calibration: a probe sizes the injection, then sessions of one A/A and   *)
(* one injected comparison.                                                 *)
(***************************************************************************)
Measure(p) ==
    /\ part' = p
    /\ k' = 0 /\ base' = <<>> /\ cand' = <<>> /\ ratios' = <<>>

SizeInjection ==
    /\ Running /\ part = "probe" /\ PlanDone
    /\ inject' = (Median2(base) * Slowdown) \div 200
    /\ Measure(IF cfg.sessions = 0 THEN "judge" ELSE "aa")
    /\ UNCHANGED <<cfg, heat, counts, result, moved>>

CountFalsePositive ==
    /\ Running /\ Estimated /\ part = "aa"
    /\ fp' = IF Clears(Lo) THEN fp + 1 ELSE fp
    /\ Measure("inject")
    /\ UNCHANGED <<cfg, heat, inject, sess, det, result, moved>>

CountDetection ==
    /\ Running /\ Estimated /\ part = "inject"
    /\ det' = IF Slower(Hi) THEN det + 1 ELSE det
    /\ sess' = sess + 1
    /\ Measure(IF sess + 1 = cfg.sessions THEN "judge" ELSE "aa")
    /\ UNCHANGED <<cfg, heat, inject, fp, result, moved>>

\* The rates of no sessions are NaN, which is below and above nothing.
Judge ==
    /\ result = "running" /\ part = "judge"
    /\ result' = IF /\ cfg.sessions > 0
                    /\ 100 * fp < 5 * cfg.sessions
                    /\ 100 * det >= 95 * cfg.sessions
                 THEN "pass" ELSE "fail"
    /\ UNCHANGED <<cfg, part, samples, heat, inject, counts, moved>>

Next ==
    \/ Run \/ RunFails \/ Bootstrap \/ Decide \/ SelfTest
    \/ SizeInjection \/ CountFalsePositive \/ CountDetection \/ Judge

Spec == Init /\ [][Next]_vars

(***************************************************************************)
(* Properties.                                                              *)
(***************************************************************************)
Time == Nat \ {0}

\* Every variable stays in its type; no side has more samples than measured
\* runs, and the counts agree with the sessions.
TypeOK ==
    /\ cfg \in Config
    /\ part \in {"compare", "probe", "aa", "inject", "judge"}
    /\ k \in 0 .. PlanLength(PlanRuns, PlanWarmUps)
    /\ heat \in 0 .. MaxHeat
    /\ base \in Seq(Time) /\ Len(base) <= PlanRuns
    /\ cand \in Seq(Time) /\ Len(cand) <= PlanRuns
    /\ inject \in Nat
    /\ ratios \in Seq(Ratio) /\ Len(ratios) \in {0, cfg.iters}
    /\ sess \in Nat /\ fp \in Nat /\ det \in Nat
    /\ result \in {"running", "accepted", "rejected-bench", "pass", "fail",
                   "error", "panic"}
    /\ moved \in BOOLEAN

\* Interleaving (schedule.rs 1-3): the i-th samples of the two sides are of
\* neighbouring runs, so they differ by what their commands differ and by no
\* more than the machine drifts from one run to the next.
PairsSeeOneMachine ==
    /\ Len(base) - Len(cand) \in {0, 1}
    /\ \A i \in DOMAIN cand :
          Near(cand[i] - Cost("candidate"), base[i] - Cost("baseline"))

\* "thermal and background drift land on both sides equally": however far the
\* machine drifts in the course of the runs, the medians are as far apart as
\* the commands, give or take one run's drift.
DriftCancels ==
    Estimated =>
        LET d == Median2(cand) - Median2(base)
                     - 2 * (Cost("candidate") - Cost("baseline"))
        IN  d <= 2 * Drift /\ -d <= 2 * Drift

\* stats.rs 76-83: the interval has its ends in order, and both are ratios
\* that the samples allow.
IntervalOrdered ==
    Estimated =>
        /\ AtMost(Lo, Hi)
        /\ \E i \in DOMAIN base, j \in DOMAIN cand :
              AtMost([num |-> base[i], den |-> cand[j]], Lo)
        /\ \E i \in DOMAIN base, j \in DOMAIN cand :
              AtMost(Hi, [num |-> base[i], den |-> cand[j]])

\* What the interval is for (SPEC 3.1): a speedup is claimed, or a regression
\* resolved, only when no more than alpha of the resamples disagree.
DecisionsAtConfidence ==
    LET alpha200 == cfg.iters * (100 - cfg.confidence)
    IN  Estimated =>
          /\ Clears(Lo) =>
                200 * Cardinality({i \in DOMAIN ratios : ~Clears(ratios[i])})
                    <= alpha200
          /\ Slower(Hi) =>
                200 * Cardinality({i \in DOMAIN ratios : ~Slower(ratios[i])})
                    <= alpha200

\* On a machine that does not drift the self-tests pass: what they fail on is
\* the machine, never the bench (main.rs 350-431).
QuietMachinePasses ==
    ~moved /\ (cfg.mode = "calibrate" => cfg.sessions > 0) => result # "fail"

(***************************************************************************)
(* The inductive invariant.                                                 *)
(***************************************************************************)

\* As many samples as measured runs of the schedule are over.
Progress ==
    LET measured(n) == IF n > PlanWarmUps THEN n - PlanWarmUps ELSE 0
    IN  /\ Len(base) = measured((k + 1) \div 2)
        /\ Len(cand) = measured(k \div 2)

\* A baseline sample that waits for its partner was taken just now.
LastAtHeat ==
    Len(base) = Len(cand) + 1 =>
        base[Len(base)] = Cost("baseline") + heat

\* Ratios come from the complete samples.
Estimates ==
    Estimated => PlanDone /\ part \notin {"probe", "judge"} /\ Sorted(ratios)

BenchInv ==
    TypeOK /\ Progress /\ PairsSeeOneMachine /\ LastAtHeat /\ Estimates

\* A ratio is of medians that resampling the two sides can give.
FromSamples ==
    \A i \in DOMAIN ratios :
        ratios[i].num \in Resampled(base) /\ ratios[i].den \in Resampled(cand)

\* Which parts a mode has, and what calibration's counts are before them.
PartsOfMode ==
    /\ part = "compare" <=> cfg.mode # "calibrate"
    /\ part = "probe" => sess = 0
    /\ part = "judge" => sess = cfg.sessions

\* As long as the heat has not changed, a run takes what its command costs at
\* that heat, and no session of calibration has gone wrong.
Quiet ==
    ~moved =>
        /\ \A i \in DOMAIN base : base[i] = Cost("baseline") + heat
        /\ \A i \in DOMAIN cand : cand[i] = Cost("candidate") + heat
        /\ part \in {"aa", "inject"} => inject > 0
        /\ fp = 0 /\ det = sess
        /\ QuietMachinePasses

QuietInv == BenchInv /\ FromSamples /\ PartsOfMode /\ Quiet

==============================================================================
