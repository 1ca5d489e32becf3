---------------------------- MODULE HarnessState ----------------------------
(***************************************************************************)
(* The state harnessd, the verdict pipelines it launches and the agents     *)
(* that poll it share: the workspace tree, files under results/pending/,    *)
(* the built binaries and the ledger.  The modules Daemon, Pipeline and     *)
(* Poller hold the actions; Harness composes them.                          *)
(***************************************************************************)
EXTENDS Workspace

CONSTANTS Daemons,      \* harnessd processes serving this repository
          Pollers,      \* connections that issue read_verdict
          RunIds,       \* the run ids agents use
          MaxLaunches,  \* bound: pipelines launched in a behaviour
          MaxFaults,    \* bound: crashes, kills and operator interventions
          Environments, \* the process environments a daemon may run in
          NetnsVaries,  \* may unprivileged namespaces come and go at run time?
          FreshRunIds,  \* does an agent use a run id for one launch only?
          SplitBuild,   \* is the build template an `a && b` list?
          StatusFails,  \* may git status fail in the workspace?
          Printing,     \* launches of patches that print the FAILED marker's
                        \* text
          NoRun,        \* no run id: RUNNING.lock is absent
          UnknownRun,   \* RUNNING.lock is present and empty
          NoPatch,
          NoRow

ASSUME HarnessAssumption ==
    /\ MaxLaunches \in Nat
    /\ MaxFaults \in Nat
    /\ Environments \subseteq [wrapper : {"no-net.sh", "override"},
                               allowUnisolated : BOOLEAN]
    /\ NetnsVaries \in BOOLEAN
    /\ FreshRunIds \in BOOLEAN
    /\ SplitBuild \in BOOLEAN
    /\ StatusFails \in BOOLEAN
    /\ Printing \subseteq 1 .. MaxLaunches
    /\ NoRun \notin RunIds
    /\ NoRun \notin [launch : 1 .. MaxLaunches, patch : Patches, run : RunIds]
    /\ UnknownRun \notin RunIds \cup {NoRun}
    /\ NoPatch \notin Patches

VARIABLES
    env,      \* HOTPATH_VERDICT_WRAPPER / HOTPATH_ALLOW_UNISOLATED
    netns,    \* can this host open a network namespace now?
    faults,   \* crashes, kills and interventions so far
    tree,     \* targets/<t>/workspace
    stash,    \* its git stash, oldest entry first
    pending,  \* the patches with a results/pending/<patch_id>.json
    lock,     \* content of results/pending/RUNNING.lock, NoRun when absent
    log,      \* per run id, the lines of its log that read as a marker
    candBin,  \* targets/<t>/candidate-<patch_id>/, per patch
    baseBin,  \* targets/<t>/baseline/
    ledger,   \* the attempts table: the row of each run id, or NoRow
    job,      \* the request each daemon is handling under HANDLE_LOCK
    pipe,     \* the detached pipelines, one per launch
    poll,     \* the read_verdict request of each connection
    told      \* history: the runs read_verdict has called failed

vars == <<env, netns, faults, tree, stash, pending, lock, log, candBin,
          baseBin, ledger, job, pipe, poll, told>>

Slots == 1 .. MaxLaunches

Notes    == {"no-net.sh", "not isolated", "override"}
Verdicts == {"accepted", "needs-human-review", "rejected-bench",
             "rejected-gate"}

\* The columns of a ledger row the properties are about: what the row says
\* (patch, verdict, note) beside what was really measured, and whether the
\* run had taken a patched tree for a clean one (see Misread).
Row == [patch : Patches, verdict : Verdicts, note : Notes \cup {"unrecorded"},
        cand : Binary, base : Binary, san : Binary,
        isolated : BOOLEAN, misread : BOOLEAN, by : Slots]

\* No row of the ledger reads as "there is no row".
ASSUME NoRowAssumption == NoRow \notin Row

(***************************************************************************)
(* A request a daemon has begun.  step is the next thing the handler does.  *)
(***************************************************************************)
Idle == [step |-> "idle", op |-> "none", patch |-> NoPatch, run |-> NoRun,
         note |-> "override"]

ResetSteps == {"checkout", "clean", "apply"}

ProposeJob == [step : ResetSteps \cup {"store"}, op : {"propose_patch"},
               patch : Patches, run : {NoRun}, note : Notes]

VerdictJob == [step : ResetSteps \cup {"open log", "lock", "spawn"},
               op : {"run_verdict"}, patch : Patches, run : RunIds,
               note : Notes]

Job == {Idle} \cup ProposeJob \cup VerdictJob

(***************************************************************************)
(* A launched pipeline.  Up to "record" the verdict process (or the build   *)
(* before it) runs inside the wrapper; "exit" is that process about to end  *)
(* with status 0; from "account" on only the outer script is left.          *)
(***************************************************************************)
Inner == {"build", "baseline", "build baseline", "pop", "gates", "bench",
          "sanitize", "record", "exit"}
Stages == Inner \cup {"wrapper", "account", "mark", "done", "dead"}

NoPipe == [stage |-> "free", run |-> NoRun, patch |-> NoPatch,
           note |-> "override", isolated |-> FALSE, stashed |-> FALSE,
           misread |-> FALSE, verdict |-> "rejected-gate", san |-> Missing,
           failed |-> FALSE]

LaunchedPipe == [stage : Stages, run : RunIds, patch : Patches, note : Notes,
                 isolated : BOOLEAN, stashed : BOOLEAN, misread : BOOLEAN,
                 verdict : Verdicts, san : Binary, failed : BOOLEAN]

Pipe == {NoPipe} \cup LaunchedPipe

\* From the spawn until the outer script has removed RUNNING.lock.
Live(i) == pipe[i].stage \in Inner \cup {"wrapper", "account"}

\* Run ids some launch has used, and the one a daemon is about to launch.
UsedRunIds == {pipe[i].run : i \in Slots} \cup {job[d].run : d \in Daemons}

(***************************************************************************)
(* A run's log receives the whole output of its pipeline: the marker that   *)
(* the outer script writes, and whatever the patch makes a compiler, a test *)
(* or an instrumented program print, which may hold the marker's text.      *)
(***************************************************************************)
Line == [by : Slots, from : {"script", "output"}]

Marker(i)  == [by |-> i, from |-> "script"]
Printed(i) == [by |-> i, from |-> "output"]

NotPolling == [step |-> "idle", run |-> NoRun]

Poll == {NotPolling} \cup [step : {"ledger", "log"}, run : RunIds]

\* An answer of read_verdict that says "failed": for a run, because of the
\* line by a launch that it found in the log.
Answer == [run : RunIds, by : Slots]

==============================================================================
