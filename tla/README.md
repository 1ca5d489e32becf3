# A verification model of peltier.io's evidence pipeline

The repository is a harness in which an agent proposes performance patches to a
third-party program and a trust layer decides what they are worth. Its product
is the attempt ledger: append-only rows that say "this patch, on this commit,
got this verdict". This directory models the machinery that makes such a row
true. The main part (`Harness`) is the daemon that resets and patches a workspace,
the detached pipeline that builds, gates, benches and records, the agent that
polls for the answer, and the files through which they meet. `Serving` is how
requests reach the daemon at all: the socket, its threads and the lock between
them. `VerdictRule` is the way of one patch, from the vetting of its text through
gates and bench to the row and to what its readers make of it. `LoadGen` is the bench's service mode, which measures
latency under load from several threads, and `Bench` its wall-time mode, which
times two commands in turn.

## Inventory

| component | state | operations | interacts through |
|---|---|---|---|
| `harnessd` (crates/harnessd/src/daemon.rs) | one request at a time under `HANDLE_LOCK`; nothing else in memory | `propose_patch`, `run_verdict`, `read_verdict`, read-only ops | workspace tree, `results/pending/*`, `RUNNING.lock`, `setsid` |
| socket serving (daemon.rs:43-110) | a thread for each connection, `HANDLE_LOCK` | bind, accept, read a line, handle, answer | socket file, launch script, MCP bridge |
| diff allowlist (harnessd/src/allowlist.rs) | none | `check_diff_paths` | called by both mutating ops |
| detached pipeline (scripts generated at daemon.rs:437-474, scripts/no-net.sh) | the running shell, its log, the lock | wrapper, candidate build, verdict process, accounting | workspace, `candidate-<patch_id>/`, log, lock |
| `verdict` (crates/verdict/src/main.rs) | git stash, `baseline/`, results so far | rebuild the pristine baseline, gates, bench, sanitizer lanes, caps, row | workspace, ledger |
| risk classifier (verdict/src/risk.rs) | none | `classify` | called by `verdict` |
| gate runner (crates/diff-test) | none | upstream tests, golden replay, corpus pin, differential fuzz | called by `verdict` and the CLI |
| bench-runner (crates/bench-runner) | samples; in service mode a server, worker threads, a request counter | interleaved schedule, bootstrap, `decide`, load sessions | called by `verdict` and the CLI |
| ledger (crates/ledger) | the `attempts` table | `record`, `verdict_summary`, queries | SQLite file |
| policy, report, explain | none | pure functions of ledger rows | ledger |
| agent loop, MCP bridge (agent/) | conversation | sends the daemon's ops | socket |
| scripts, targets | configuration | start a daemon, audit, build templates | the above |

What is hard here is concurrency without shared memory. The daemon handles
requests one at a time, but a pipeline outlives the request that launched it by
minutes; a second daemon, a poll, a crash, a kill or a person with `rm` acts on
the same files. The tree is patched by the daemon, read by the candidate build,
stashed and popped by the verdict process, read again by the sanitizer build.
The failure paths are many: git, the wrapper, either build, the stash, a gate,
the database, the spawn, a full disk.

What makes each part correct:

- daemon and lock: no request changes the tree a live pipeline reads; a request
  that stops half way leaves nothing a later one trusts;
- pipeline: what was measured is the patch on the pinned commit against the
  pinned commit; every launch is accounted for; the isolation note is true;
- ledger: a row never changes, one row per run id;
- polling: an agent gets an answer, and what "failed" says is so;
- verdict rule, gates, risk signals: no accept without each gate, lane and
  absence of signals, whichever path led to the row;
- bench, service mode: each request measured once and with its whole delay,
  one server at a time, no number when too many requests were lost, an end;
- bench, wall time: drift of the machine cancels out, indices inside the sample,
  no decision against more resamples than the confidence allows, self-tests that
  fail only on the machine;
- serving: nothing but `read_verdict` runs beside another request, no request is
  carried out twice, one agent's panic or sleep is no other agent's trouble;
- allowlist: each path git would write has been vetted, where the allowlist knows
  the header, and a refusal has a cause;
- golden replay: it passes what equals the golden output, or is within the
  tolerance, and nothing else;
- policy, report, explain: one notion of a shippable win, agreeing with the
  verdict on record.

## Modules

| module | models |
|---|---|
| `Workspace` | the workspace tree and what each git command does to it |
| `HarnessState` | constants, variables, records of requests and pipelines |
| `Daemon` | `propose_patch`, `run_verdict`, a daemon crash, the removal of a stale lock |
| `Pipeline` | outer script, wrapper, inner script, verdict process, kill, host crash |
| `Poller` | `read_verdict` |
| `Harness` | the composition: `Init`, `Next`, fairness, properties, refinement mapping |
| `EvidenceService` | the abstract specification the harness implements |
| `HarnessInv` | the inductive invariants, and daemons that take turns (`TurnsSpec`) |
| `HarnessProofs` | type correctness |
| `HarnessSafety` | the proofs of the safety properties |
| `HarnessService` | the proofs about answers and of the refinement |
| `MCHarness` | instances for TLC |
| `CallService` | the abstract specification of what an agent may count on of the socket |
| `Serving` | socket, connection threads, `HANDLE_LOCK`, the agent's client and the launch script, with properties and the refinement mapping |
| `ServingProofs` | its inductive invariant, and the proofs of the properties and of the refinement |
| `MCServing` | its instance for TLC |
| `DiffText` | the lines of a patch, and what the allowlist, the risk classifier, explain and git make of them |
| `Equivalence` | the comparison of a replay with the golden output, bytes or tolerance |
| `VerdictRule` | vetting, gates, bench decision, sanitizer lanes, caps, row, and its readers, with properties and the inductive invariant |
| `VerdictInPipeline` | the process of `VerdictRule` in its place in `Pipeline`: stage, verdict, instrumented build and row as functions of its state |
| `DiffProofs` | lemmas on `DiffText` and `Equivalence`: vetted paths stay inside, comparison and tolerance agree |
| `VerdictProofs` | the proofs about `VerdictRule` and about its place in `Pipeline` |
| `MCVerdictRule` | its instances for TLC |
| `LoadGen` | service-mode comparison: sessions, server, worker threads, drop limit, with properties and inductive invariants |
| `LoadProofs` | the proofs about `LoadGen` |
| `MCLoadGen` | its instance for TLC |
| `Bench` | wall-time comparison, A/A and calibration: schedule, medians, bootstrap, decisions, with properties and the inductive invariant |
| `BenchProofs` | the proofs about `Bench` |
| `MCBench` | its instance for TLC |

### How state and actions correspond to the code

A *tree* maps each path to whose version of the file is on disk: the pinned
commit's (`AtHead`) or a patch's. Contents do not matter beyond that. A binary
is identified with the tree it was built from, so "the baseline was built from
the pinned commit" is `baseBin = HeadTree`. `tree`, `stash`, `lock`, `log`,
`pending`, `candBin`, `baseBin` and `ledger` are the files; `job[d]` is the
request daemon `d` is in the middle of, `pipe[i]` the i-th launched pipeline.

A request is split wherever another process can look: after `git checkout`,
`git clean`, `git apply`, the log, the lock, the spawn. `git apply --check` and
`git apply` are one step. Each of these steps may fail and return, `git apply`
after it has written any part of the patch, and the write of the pending file so
that an earlier proposal's file is emptied. Requests
refused before they have touched a file (bad names, a vetting error, a patch
id without a pending file) have no action.

A pipeline goes through the stages wrapper, build, baseline, build baseline,
pop, gates, bench, sanitize, record, exit, account, mark, done. From
"build" to "exit" it runs inside the wrapper, and any failure (`Fail`) ends
that part with a nonzero status; "account" is the outer script removing the
lock, "mark" its writing of the marker. Which verdict gates and bench reach is
a free choice at this level; which binaries and which tree they looked at is
not, and a ledger row (`RowOf`) carries both what the row says and, as history,
what was really measured.

`git status`, from which the verdict process learns whether there is a patch to
stash, may fail too (`StatusFails`). Its exit status is not looked at, so the
patched tree is then taken for a clean one (`Misread`). `misread` remembers that,
in the pipeline and, as history, in the row.

A log is a set of lines that `read_verdict` takes for a marker: those of the
outer script (`Marker`), and those that the patch makes something print that runs
inside the pipeline and writes to the same log (`Printed`): the candidate's
build, a test, an instrumented program. `Printing` is the set of launches of
patches that do so, at any time (`Prints`).

`told` is a history variable: the runs `read_verdict` has called failed, each with
the launch whose line it had found.

`faults` counts crashes, kills and a person's removals of a stale lock.
`RemoveStaleLock` is the remedy the daemon's own refusal message names, used
when no pipeline is alive and no request is about to launch one.

`Serving` has a record for each connection: the daemon at its other end, whether
the client has its end open, where the daemon's thread is (`backlog` until
the accept loop has started it), and the line under way in either direction. A
thread's steps are the turns of the loop in `serve_connection`. `holder[d]` is
who holds `HANDLE_LOCK` of daemon `d`. `Handle` performs the request, whatever
it is; `Panic` and the death of the daemon leave it performed or not. `at[l]` is
where launch `l` is: probing for a daemon, removing the socket, starting a
daemon, probing again, and then, as the agent, idle, waiting, or without a
connection. `performed` and `answers` are history.

`VerdictRule` is one process, step by step: for an attempt of an agent the vetting
of the patch, which precedes everything; then the pins, the three gates, grading,
bench, decision, the two sanitizer lanes, the remaining caps, the row. `input`
is what it is given (the target's optional parts, the patch, the golden output,
the manual flag, which pinned inputs were tampered with). `replay`, `gate`, `fuzz`,
`ci` and `lane` are what the commands did, free choices within what each command can do. `clean` and
`verdict` are what the process makes of them, and `Row` is the part of the
ledger row that the readers use. `Rule` states the accept rule once, from what
the commands did, and is what the process is checked against. `Abort` is every
`?` on the way: an error ends the process without a row (that the agent learns
of it is the harness's business). The readers are operators on a row:
`Shippable` (report), `CountsAs` (policy), `ClassifyInterval`, `NamedGates`,
`NamedCaps` and `Cautions` (explain).

`Pipeline` and `VerdictRule` describe the same process from two sides.
`Pipeline` leaves every outcome open, `VerdictRule` has no workspace.
`VerdictInPipeline` composes them: `Process` is what the state of `VerdictRule`
is as `pipe[1]` of a harness that has built candidate and baseline and popped
the patch back, `RecordedRow` its row as the harness's properties see one, and
`Launched` is `Pipeline` with these in place of its variables.
`StepsAreThePipelines` says that each step of the process, the manual flag
apart, is a step of that pipeline or leaves it as it is. An accept is in stage
"sanitize" until the last lane and the caps are through, and a capped one in
"record" at once, since nothing can lift it again.

`LoadGen` is `run_compare` as the `service` subcommand calls it. `sess` counts
sessions (even ones are the baseline's), `stage` says where the main thread is:
starting a server, blocked on its first line, waiting for the threads, about to
report. `next` is the atomic counter `idx`; `worker[w]` is a thread's program
counter, the slot it holds and when it sent the request; `local[w]` is its
private lists and `out` the merged ones. A sample keeps its slot and its thread,
which the code does not, so that counting once can be stated. Each step of the
worker loop is an action: claim, sleep and send, the end of the request, and the
merge under the mutex. `now` is a clock in ticks, `Period` ticks between two
intended send times. The server is external; `targets/cjson/service.c` is the
one the code comes with. It may announce itself or print something else, stall
once in a session, and die at any time, which ends an open request either with
an error (`Lose`) or with an end of stream that the code takes for the end of
the response (`CutOff`). A dead server refuses every later connection
(`Refused`). `stall` is history, for the property about omission.

`Bench` is `bench-runner compare` (with and without `--perf-stat`), `aa` and
`calibrate`. `part` is which comparison is being measured (calibration has a
probe, then A/A and injected ones in turn), `k` how far its schedule has come,
`base` and `cand` the samples kept so far, `ratios` what the bootstrap has made
of them. Each run of a command is a step. What it takes is what the command
costs, plus perf's overhead or the injected busy-wait, plus the `heat` of the
machine at that moment, which is external and moves by at most `Drift` between
two runs. The generator's picks are any picks, so what holds of `ratios` holds
for every seed. Medians are doubled and ratios kept as pairs, which makes the
arithmetic exact. `inject` is rounded down to ticks. `moved` is history: the heat
has changed since the beginning.

In `VerdictRule`, speedup intervals are in whole percent above 1.

A patch (`DiffText`) is a sequence of lines, of which the three readers, none of
which follows the hunks, look at different things. A line has a kind, which is
what git takes it for; the beginning of a changed line's own text, which decides
whether it looks like a header; the most telling token on it; and the paths a
header names. A path has a form (behind `a/` or `b/`, `/dev/null`, quoted,
absolute, bare) and components. A component is a name, `.`, `..` or `.git`, and
may have " b" at its end, since `split_git_header_paths` cuts a git header at the
last " b/", wherever that is. What git makes of the same lines is independent of
how the allowlist reads them (`NamedBy`): it takes a name from a git header only
where both names on it are the same; it honours `rename old` and `rename new`
("rename old"), for which the allowlist has no rule; and it reads a rename's
path on behind a tab, where the allowlist stops (`beyond`, `Whole`).
`NamesOnlyInside` is git's own check, which refuses a patch that names a path
outside the workspace; in `VerdictRule` a patch passes `Vet` when the allowlist
and git both let it through. `HasShape` looks for its two
markers at the beginning of lines, explain anywhere in the text.

An output (`Equivalence`) is a sequence of tokens, numbers (finite, infinite, NaN)
or words, and a `spelling` for what byte comparison sees and token comparison
does not. `TokenDiverges` follows the arithmetic of `Equivalence::compare` with its
NaNs; `Within` is what a tolerance means.

## Runs

All `MCHarness` instances have a tracked path and one that only a patch creates
(in `ignored_files` the workspace ignores it). `harness_safety` has a third, which
the workspace ignores and no patch writes, like the object files of a build.
`harness_answers` has the tracked path only.

| run | question | result |
|---|---|---|
| `harness_safety` | two daemons that take turns, two overlapping patches, two launches, two faults, a host whose namespaces come and go, a git status that may fail | `TypeOK`, `TestedTreeIsThePatch`, `OnePipelineUnderTheLock`, `RowIsAboutItsPatch`, `EveryLaunchAccounted`, `StaleOnlyByCrash` and the refinement `ImplementsService` hold |
| `harness_answers` | every daemon environment, a build template that can fall through, a launch whose patch prints the marker's text, one polling agent, two run ids, fairness, no faults | `NoteIsHonest`, `FailedMeansOver`, `NoRowAfterFailed`, `EveryLaunchResolves`, `LockIsReleased` hold |
| `run_id_reuse` | a run id is launched twice | violates `FailedMeansNoRow` |
| `two_daemons` | two daemons over one repository | violates `TestedTreeIsThePatch` |
| `ignored_files` | a patch writes a path `.gitignore` matches | violates `RowIsAboutItsPatch` |
| `netns_changes` | opt-in to unisolated runs, namespaces vary | violates `NoteIsHonest` |
| `status_failure` | git status fails in the patched workspace | violates `BaselinesArePristine` |
| `verdict_rule` | every kind of target, patches good, odd and bad, replays that differ from the golden output in one way each, every gate outcome, interval, lane outcome and flag | `TypeOK`, `LetThroughStaysInside`, `RefusedWithCause`, `GoldenGateDecides`, `VerdictFollowsTheRule`, `SanitizerColumnsAreTrue`, `ReadersAgree`, `CappedNeverUpgraded`, `StepsAreThePipelines` hold |
| `serving` | two launches against up to two daemons that may be killed, handlers that may panic under the lock, `read_verdict` that may sleep for ever | `TypeOK`, `OneAtATime`, `EachCallOnce`, `BrokenHasCause`, `CallsEnd` and the refinement `ImplementsCalls` hold |
| `service_mode` | two threads, two requests a session, two sessions a side, servers that stall, die or never start, under fairness | `TypeOK`, `EveryRequestCountsOnce`, `NothingOmitted`, `DeathShowsAsDrops`, `ReportIsTrusted`, `OneServer`, `CompareEnds` hold |
| `wall_time` | every mode, three measured runs a side after one warm-up, a machine that drifts, up to two calibration sessions | `TypeOK`, `PairsSeeOneMachine`, `DriftCancels`, `IntervalOrdered`, `DecisionsAtConfidence`, `QuietMachinePasses` hold |
| `risk_lines` | which changed lines the risk classifier reads | violates `NoRiskTokenIsAccepted` |

The six violations are disagreements between the code and what its own
comments and messages say; each is described under "findings" in PROJECT.json
with the lines on both sides.

`status_failure` is a failed `git status`, whose empty output reads as a clean tree
(crates/verdict/src/main.rs:82-87): the patch becomes its own baseline, and a row
says how much faster it is than itself. `RowIsAboutItsPatch` and
`EvidenceService`, which `harness_safety` checks with such failures allowed, say
that, ignored files apart, this is the only way to a baseline that is not the
pinned commit's (`BaselineOf`, `Baseline`).

Two more observations have no run of their own. errexit does not fire for a
command of an && list other than the last, and cjson's build template is such a
list (targets/cjson/target.toml:23), although daemon.rs:433-434 says "a failed
build aborts before verdict can measure anything": when its `mkdir` fails, a row
is recorded for a candidate that was never built. `BuildCandidateFallsThrough`
models it where `SplitBuild` is TRUE, and `RowIsAboutItsPatch` says what such a
row can be: a rejection, or about an earlier build of the same patch. And
`read_verdict` looks for the marker's text anywhere in the run's log
(daemon.rs:522), so a patch that has it printed gets "failed" while its pipeline
is live, and perhaps a row afterwards, against the note at daemon.rs:538-539.
`FailedMeansOver` and `NoRowAfterFailed` except exactly the launches that have
printed it.

### Bounds

- `Patches`: two, one of which edits the file the other edits and also adds a
  file. That is enough for one proposal's leftovers to reach another's tree.
- `Daemons`: two in `harness_safety`, under `TurnsSpec`: one may crash and the
  other find what it left, but they are never both at a request. `two_daemons`
  lets them overlap.
- `MaxLaunches = 2` and two run ids: the second launch meets everything the
  first can leave behind (stash entry, lock, log, binaries, row).
- `MaxFaults = 2`: a crash and the removal of the lock it left, or a crash in
  each of two launches.
- `harness_answers` has one patch and no faults: its properties are about
  accounting, which does not depend on the patch. A stale lock is for a person
  to remove, so nothing about liveness is claimed across crashes.
- `FreshRunIds` (TRUE except in `run_id_reuse`) says that agents use a run id
  for one launch. The code does not enforce it.
- `verdict_rule` takes every combination of a target's optional parts, a bar of
  2 percent and intervals below 1, touching 1 from either side, straddling it,
  below the bar, at it and above it: each region of `decide` and of
  `classify_ci`, and each boundary between two. One fuzz iteration and at most
  one divergence are enough, since the code compares both with zero only.
  The patches without risk are one without signals, one with a token on a context
  line and one with a token on a changed line (`MCDiffs`). `OddDiffs` are let
  through and read differently by different readers: a changed line that looks
  like a header without a space, a removed line that looks like a header with a
  good path, renamings to a name with " b/" or a tab in it and in the older
  spelling, and a git header with two different names. `UnseenDiffs` are those
  the allowlist lets out of the workspace and git does not. `BadDiffs` leave the
  workspace, or enter `.git`, in each kind of header, on either side of a " b/" and
  of the one between the names; or they only look as if they did. The golden
  output is a number, a NaN and a word; the tolerances (1 absolute, 50 percent
  relative) allow 51 around 100, so 49 is within reach of the golden value and
  152 is not, but 152 would be if the tolerance were taken of the candidate.
  `risk_lines` has its own patches and target. There `done`, `refused` and `error`
  are final, so deadlock is not checked.
- `serving`: one launch has found a daemon and sends two requests, the other has
  still to probe, remove the socket and start a daemon, and sends one. That is
  enough for two agents in one daemon at once, for a request behind another's
  panic, and for a daemon that is killed between two requests of an agent. At the
  beginning a daemon may just have been started by hand, so that two race to
  bind. A finished agent stops, so deadlock is not checked.
- `service_mode`: with two threads and two requests a thread can be held up by
  the other's claim, both can be in a request at once, or one of them can do
  everything while the other finds the counter exhausted. `Period = 1` and
  `Horizon = 2` leave room for a stall from tick 0 to tick 2 with a request due
  in the middle, measured in time or late. `DropLimit = 4` in place of the
  code's 200 (one half of a percent) puts the limit inside the eight requests
  there are: one drop is tolerated, two are not. The clock stops at `Horizon`,
  which keeps every intended send time within it. Once the comparison has
  ended nothing need happen, so deadlock is not checked.
- `wall_time` has 3 runs a side where the default configuration has 30, 1 warm-up
  for 3, a probe of 2 runs for 5: an odd and an even sample for the median, and
  a place for each side to be off by one. Bootstrap iterations are 0 (the
  panic), 1 (both ends are the same ratio) and 3; confidences 0, 50 and 95
  percent put the lower index at 1, 0 and 0 and the upper at 2. Costs are 97
  and 101 against 100, one candidate above the 2 percent bar and one slower,
  besides the same command. `Drift = 1`, `MaxHeat = 3`: over the eight runs the
  machine can drift by three ticks, more than the bar. Two calibration sessions
  let the counts differ from none, some and all. A finished bench stops, so
  deadlock is not checked.
- `SplitBuild` says whether the build template is an `&&` list (cJSON's is,
  comrak's and tokei's are not). It is TRUE in `harness_answers`, where falling
  through is one more way for a launch to end, and in no other run; the proofs
  are for both values.
- `StatusFails` is TRUE in `harness_safety` and `status_failure`. `Printing` is {1}
  in `harness_answers`, one launch that prints the marker's text beside one that
  does not, and empty elsewhere.
- `Environments`: no-net.sh with and without the opt-in to unisolated runs, and
  an override, for which the opt-in means nothing.
- `harness_safety` takes run ids for interchangeable, and the two daemons
  (`Interchangeable`): neither is ever compared with anything but itself. It
  has 2.7 million states then, and `harness_answers`, without symmetry, 540
  thousand.

### Fairness

`FairSpec` assumes weak fairness of a daemon's handler, of each pipeline's next
step and of each poll. A handler runs to its end without waiting for anybody; a
pipeline is a chain of commands; a poll loops on a timer. The assumption behind
the second is that each build, test and bench command ends: the code sets no
timeout on them, so a candidate that hangs in a gate holds the lock for as long
as it hangs. Requests, environment changes and faults have no fairness.

In `Serving` each connection's thread is weakly fair, except where it handles
`read_verdict`, which may sleep as long as it likes, and each client that waits
for a line. A mutex is not fair, and no fairness of it is needed: `--max-turns`
bounds what an agent can send, so that the others run out of requests with which
to overtake. Nothing is assumed of launches, of further requests, of panics and
of deaths.

In `LoadGen` the threads and the main thread are weakly fair, and so is time. Of
the server it is assumed that it announces itself or dies, that a stall passes,
and that a request to a live server is answered, to a dead one ends. Without the
last `CompareEnds` is false: `one_request` has no timeout, and the repository's
own guide warns of it (.agents/skills/peltier/references/verify.md:190).

## Proofs

`HarnessProofs!TypeCorrect`: `Spec => []TypeOK`, from the assumptions on the
constants alone.

`HarnessSafety` proves, for patches that write no file the workspace ignores
(`NothingIgnored`), with any numbers of daemons, patches, files, ignored ones
among them, launches, run ids, pollers and faults:

- `EvidenceInTurns`: `Spec /\ []RequestsTakeTurns => []EvidenceChain`
- `SafeInTurns`: `Spec /\ []RequestsTakeTurns => []TestedTreeIsThePatch /\
  []OnePipelineUnderTheLock /\ []RowIsAboutItsPatch`

`RequestsTakeTurns` says that no two daemons are in the middle of a request at
once. Within a daemon `HANDLE_LOCK` provides that, which `Serving` proves
(`OneAtATime`), and across daemons nothing does. It is weaker than there being
one daemon: a second one may have been started, may propose and launch, may die
and leave a lock. `TurnsAreTaken` shows that `TurnsSpec`, which `harness_safety`
checks and in which a request begins when no other daemon is at one, satisfies
that hypothesis. For one daemon (`OneDaemon`) it holds by itself:

- `TreeIsTested`: `Spec => []TestedTreeIsThePatch`
- `PipelinesExclude`: `Spec => []OnePipelineUnderTheLock`
- `RowsAreSound`: `Spec => []RowIsAboutItsPatch`

Both assumptions are needed: `two_daemons` and `ignored_files` show what
happens without them. None of the three properties is inductive. `EvidenceChain`
(`HarnessInv`) is: a live pipeline owns the lock alone and no request is in
progress (`PipelineHoldsLock`); a request in progress found the lock free or has
written it (`RequestHoldsTree`); the tree's content after each step of the reset
(`ResetProgress`), and that ignored files, which no step of it touches, are as
the commit has them (`IgnoredUntouched`); and for a live pipeline, at each stage, what the next stage
counts on (`StageFacts`): the tree is the patch, or the commit with the patch
on top of the stash; the baseline is pristine, or the patch's where the tree was
misread; a verdict past the gates has a
candidate, an accept an instrumented build. The proof goes action by action.
`LiveStep` and `NoLiveStep` reduce it to the one pipeline, or the one request,
that took the step.

`HarnessService` draws the conclusion under the same assumptions,

- `ServiceInTurns`: `Spec /\ []RequestsTakeTurns => ImplementsService`
- `HarnessImplementsService`: `Spec => ImplementsService`, for one daemon.

The spawn of a pipeline maps to `Start`, a row written to `Publish` (that its
evidence is admissible is `RowIsAboutItsPatch` in the next state), the release of
the lock or the end of a live pipeline with its host to `End`, everything else to
a stutter. `EvidenceChain` provides that at most one pipeline is live, so that
`Running` is that one's run.

Two theorems about answers hold for any number of daemons, provided agents use a
run id for one launch (`FreshRunIds`; `run_id_reuse` shows why):

- `FailedIsOver`: `Spec => []FailedMeansOver`
- `NothingAfterFailed`: `Spec => NoRowAfterFailed`

Their invariant `AnswerChain` says that no two launches or requests share a run id,
that a marker of the script's in a log, and an answer that rests on one, is about
a launch that is over, and that a printed one is still in its log
(`HasPrinted`), which is the exception both properties make.

Under the same assumption, and again for any number of daemons,

- `LaunchesAreAccounted`: `Spec => []EveryLaunchAccounted`

which is what liveness needs of each state: a pipeline that has ended has left a
row or a marker. Its invariant `AccountChain` adds to `AnswerChain` that a row names
the launch it was recorded under (`RowsNameTheirLaunch`), and, stage by stage,
what has been left so far (`Accounted`): no marker before "mark", a row from
"exit" on, and on the accounting's stages a row unless `failed` is set. A second
row for a used run id, which would be refused and leave a marker beside another
launch's row, is where the fresh run ids come in.

- `LocksGoStaleByCrashes`: `Spec => StaleOnlyByCrash`

rests on `TypeOK` alone: the pipeline that is last
to live removes the lock in the very step that ends its life, and a request that
wrote the lock is one that launches next.

`NotesAreHonest`: `Spec => []NoteIsHonest` for any number of daemons, provided
no environment sets `HOTPATH_ALLOW_UNISOLATED=1`; `netns_changes` shows why.

`HarnessState` assumes of its constants that no ledger row reads as "there is no
row" (`NoRowAssumption`, for `VerdictRule` too), and that the names of run ids,
locks and patches are told apart (`HarnessAssumption`).

`VerdictProofs` proves, for any targets, patches, outputs, tolerances, intervals,
fuzz budget and positive bar, every property of `verdict_rule`:

- `RuleTypeCorrect`: `Spec => []TypeOK`
- `RuleHolds`: `Spec => []VerdictFollowsTheRule`
- `VerdictsAreOnlyCapped`: `Spec => CappedNeverUpgraded`
- `ColumnsAreTrue`: `Spec => []SanitizerColumnsAreTrue`
- `ReadersDoAgree`: `Spec => []ReadersAgree`
- `VettingIsSound`: `Spec => []LetThroughStaysInside`
- `RefusalsAreExplained`: `Spec => []RefusedWithCause`
- `GoldenGateIsExact`: `Spec => []GoldenGateDecides`
- `ProcessRefinesPipeline`: `Spec => StepsAreThePipelines`

They rest on `RuleInv` (theorem `RuleInvHolds`), which holds in every state and not only once a row is
there: which gates have run at which step and that none has failed past the
grading (`GateFacts`), that the verdict on the accept path is what the lanes run
so far have left of the accept (`PathFacts`), that what is about to be recorded
is the rule's verdict (`RecordFacts`), that the columns follow the lanes
(`ColumnFacts`), that a lane has not run before its step, nor where it is not
declared (`LaneFacts`), and that the golden gate was graded with the replay
there is (`ReplayFacts`). Vetting is sound because of a lemma of `DiffProofs` about
a git header cut at the wrong " b/" (`SplitKeepsEveryComponent`). Git takes a name
from such a header only where both names are the same, and then each component of
the name is whole in one of the two halves: the last one, which the cut may
change in the first name, is intact in the second. Where the two names differ,
the last component of the first could be changed by the cut, but git does not use
it. `LetThroughStaysInside` excepts the two kinds of header in which the allowlist
does not see what git reads (`Unseen`), and says nothing about what git's own
check makes of them. The assumptions on the constants are
`AcceptConfig::load`'s positive threshold, intervals with `lo <= hi` (sorted
resamples), a nonnegative fuzz budget, git headers without an empty name
(`FilesNamed`) and hunks that stand behind the two names of their file
(`HunksHaveHeaders`: git refuses others). `GoldenGateDecides` is
about golden outputs without an infinity: with one the allowance is infinite, or
no number, and any finite number passes (policy.rs:92). That a fuzz report has at least one
iteration is the drivers' check, not diff-test's: a driver without it could
produce a passed gate with none.

`ProcessRefinesPipeline` goes action by action: `ProcessChanges` says which
change of the process is which update of a pipeline's record, `ErrorFails` that
an error is a pipeline's `Fail`, and a lemma for each of gates, bench, lanes, row
and errors finds the disjunct of `Pipeline` that the step is. `LaneFacts` is
needed for errors and `RecordFacts` for the row: an instrumented build that has
run stays on record, and one that has not does not appear. A binary that is
missing is none that was built (`MissingAssumption`).

`ServingProofs` proves, for any numbers of launches, daemons and requests:

- `ServingTypes`: `Spec => []TypeOK`
- `MutatingRequestsOneAtATime`: `Spec => []OneAtATime`
- `RequestsCarriedOutOnce`: `Spec => []EachCallOnce`
- `OnlyItsOwnConnection`: `Spec => []BrokenHasCause`
- `ServingImplementsCalls`: `Spec => ImplementsCalls`

`ServingInv` adds what the properties do not say: a connection nobody has opened
is untouched (`Untouched`); a thread that handles anything but `read_verdict`
holds the lock (`LockHeld`), and `TypeOK` that nobody else does; an agent's current
request is in one place only, on its way to the daemon, in the thread, done, or
on its way back, and it has been performed exactly if it is past the thread
(`Numbered`, `InOnePlace`); an answer was performed (`Answered`); and a thread that
has ended did so for its own panic or its daemon's death, as long as the client
has its end open (`EndsForCause`).

`CallService` has no connections, threads or daemons, only what each agent has
asked, what has been carried out and what has been answered. The client's write
maps to `Ask`, the thread's `Handle` to `CarryOut`, the client's read to `Answer`
and everything else to a stutter. A death or a panic may leave the requests that
were with the daemon performed, so `CarryOut` takes a set of agents at once.
`ServingInv` provides that a request is performed for the first time
(`PerformIsCarryOut`) and that a reply is to the agent's last request
(`GivenGrows`). That the next request waits for the answer needs one more
invariant: an agent that is about to ask has read the answer to its last request
(`IdleAnswered`). A connection that breaks leaves the agent without one for good,
as in the code, whose client does not reconnect.

`LoadProofs` proves, for any number of threads, requests, sessions and ticks:

- `LoadTypeCorrect`: `Spec => []TypeOK`
- `RequestsCountOnce`: `Spec => []EveryRequestCountsOnce`
- `NothingIsOmitted`: `Spec => []NothingOmitted`
- `DeathIsSeen`: `Spec => []DeathShowsAsDrops`
- `ServersAlone`: `Spec => []OneServer`
- `ReportsAreTrusted`: `Spec => []ReportIsTrusted`
- `DropsAndLatenciesAddUp`: `Spec => [](AllJoined => Cardinality(Lost) +
  Cardinality(Measured) = Count)`
- `FewAreCutShort`: `Spec => [](Cardinality(CutShort) <= Cardinality(Workers))`,
  for finitely many threads

The first property only speaks of the moment when all threads have been joined.
`CountInv` carries it there: a slot below the counter is held by one thread or
has one sample, a slot above it neither, and a thread that has stopped claiming
leaves a counter at or past the end. For the second, `StallInv` says that until a
stall is over everything answered was due before it began, so the stall's end
can only be taken for granted by requests that are still to be measured.
`DeathInv` is why a crash cannot pass for speed: a cut-off response is only had of
a dead server, slots of a thread grow, and what a thread holds after a cut-off
has not been sent to a live one, so it will be refused.
The two bounds on numbers follow: samples and slots correspond one to one when
all threads are joined, which justifies the denominator of the drop rate
(service.rs:86), and of two requests of a thread that were cut off the later one
would have been lost.
`ServersInOrder` says of every session, and not only the current one, whether
its server is dead or not yet started.

`BenchProofs` proves, for any numbers of runs, warm-ups, iterations and
sessions, any confidence, bar, costs and drift:

- `BenchTypeCorrect`: `Spec => []TypeOK`
- `PairsMatch`: `Spec => []PairsSeeOneMachine`
- `InterleavingCancelsDrift`: `Spec => []DriftCancels`
- `IntervalsDecide`: `Spec => []DecisionsAtConfidence`
- `IntervalsAreOrdered`: `Spec => []IntervalOrdered`
- `QuietMachinesPass`: `Spec => []QuietMachinePasses`

`BenchInv` adds to the first two how many samples there are after `k` runs
(`Progress`), that a baseline sample whose partner is still to come was taken at
the present heat (`LastAtHeat`), and that ratios are sorted and come from
complete samples (`Estimates`). The third theorem needs two facts about
sequences of any length: each rank of a finite sequence is taken by one of its
elements (`RankExists`: the least element with more than `i` elements at or
below it), and if every element of `s` is at most its partner in `t` plus `d`, so
is the median (`MedianBound`). The fourth is arithmetic on the indices
(`IndexBounds`) and a count of what lies beyond them in a sorted sequence
(`FewDisagree`). The fifth needs that a ratio is one of medians that
resampling can give (`FromSamples`), and that a median lies between the least and
the greatest sample; the last, that while the heat stays what it was each sample
is the command's cost plus that heat (`Quiet`), so that both sides of an A/A pair
are equal and an injected one is slower. The assumptions are `AcceptConfig::load`'s
checks, commands that take at least a tick, and an injection of at least a tick.

Model-checked and not proved: the liveness properties (`CompareEnds`,
`EveryLaunchResolves`, `LockIsReleased`, `CallsEnd`), which are out of the prover's
reach.

## Not modelled, and simplifications

- One target. `patch_id` is a hash of the diff alone, so the same diff proposed
  for two targets shares a pending file; with one target that cannot show.
- Log writes do not fail. What a patch prints stays in the log until the run id is
  launched again, and only the marker's text in it is of interest. Of git, a
  failed `git checkout` or `git clean` is taken to leave the tree as it was;
  a failed `git apply` may have written any part of the patch. The outer script itself is killed only by a host crash.
- `just verdict`, run by a person, ignores `RUNNING.lock`; it acts like a second
  daemon and is not modelled apart.
- In `VerdictRule` the bench is an interval out of `Intervals`; how it is sampled
  and resampled is in `Bench`. A test command, a replay or a lane succeeds or not.
  Hashing and the parsing of configuration files are left out (a hash file and a
  reference file stand for the same golden output), as are the wording of reports
  and the ranking of classes.
- The ranking of classes is left out because what is delicate in it is the
  rounding. `wilson_lower_bound` (crates/policy/src/lib.rs:19) of no win in 11
  attempts is 2e-17 in double precision and not 0 (so for 22, 27, 44 and others),
  which is enough for a class that failed eleven times to rank before an untried
  one and to be recommended. Saying so in a model would take IEEE arithmetic.
- `Equivalence` computes in hundredths, exactly; rounding is left out.
- In `DiffText` an operator's patch is one that git has applied, and is not vetted.
  A tab in a `---` or `+++` line begins a time stamp for both readers, trailing
  white space is left out, and a git header without `a/` and `b/`, which git would
  read, is refused at once. Of the lines git would skip in front of the first
  header, those that look like headers are vetted like any others.
  A rename without a hunk, which explain shows as no source diff, and the sentence
  explain falls back to when a fuzz gate failed without a divergence are kept out
  of `ReadersAgree`, since they are harmless.
- The gate runner's standalone use (`just gates`, no baseline, fuzz skipped)
  reaches no verdict and is not modelled.
- `LoadGen` has at most one stall in a session. Warm-up requests, which are
  closed-loop and untimed, have no effect in it, and worker threads do not
  panic. A server is one process: `sh -c` is taken to replace itself with the
  command, so that killing the child kills the server. Percentiles and the
  bootstrap are not computed; that they panic on a session without samples is
  (`empty`). The report of `service-calibrate` is left out.
- `Bench` has no floating point: rounding of ratios and of
  `iters * (1 - alpha)` is not in it. The generator itself, peak memory, the perf
  counters' values, the intervals of single medians and the environment
  fingerprint are left out. A machine's influence adds to a run's time and does
  not multiply it.
- `Serving` is the socket mode; the loop over standard input (daemon.rs 19-40)
  handles one request after another and is not modelled. Two launches that find
  no daemon at the same time remove each other's socket, which leaves one daemon
  without a path and, for what is under way, two daemons at work: that is the run
  `two_daemons`.
- The ledger's queries are only there as what policy, report and explain make of a
  row. `service-calibrate` is not modelled.
- Request parsing, the read-only operations, and all wording.

## Plan

1. (done) the harness: `Workspace` to `Harness`, `EvidenceService`, their runs,
   type correctness and safety proofs.
2. (done) `VerdictRule`: gates, decision, lanes, caps, risk signals, row and
   readers, against `Rule`; all its properties proved.
3. (done) `LoadGen`: service-mode workers over the shared request counter, drop
   limit, readiness wait and server life; liveness of the comparison; proofs.
4. (done) `Bench`: schedule, medians, bootstrap, decision and calibration;
   proofs for all sizes.
5. (done) `DiffText`, `Equivalence`: vetting of a patch against what git would
   write, and golden comparison; proofs.
6. (done) `Serving`: threads, lock, connections and launches; proofs.
7. (done) The proof of `ImplementsService`, and of `FailedMeansOver` and
   `NoRowAfterFailed` for fresh run ids.
8. (done) `VerdictInPipeline`: the two views of the verdict process composed;
   accounting of launches and of the lock; proofs.
9. (done) Daemons that take turns in place of one daemon, and `CallService`
   with the proof that `Serving` implements it; the counts of service mode.
10. The ranking of classes in policy, on integers, if it can be stated without
    floating point; the report of `service-calibrate`; the gate runner on its own.
