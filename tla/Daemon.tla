------------------------------- MODULE Daemon -------------------------------
(***************************************************************************)
(* harnessd's mutating operations, propose_patch and run_verdict.  Within   *)
(* one process HANDLE_LOCK runs them one at a time, so a daemon has at most *)
(* one request in progress and an arriving request waits for job[d] to be   *)
(* idle again; two processes share nothing but the files.  An operation is  *)
(* split where another process can see or change the files in between: the  *)
(* pipelines, read_verdict, a second daemon and a crash.                    *)
(*                                                                          *)
(* A request that is refused before it has touched a file changes nothing   *)
(* and has no action.                                                       *)
(***************************************************************************)
EXTENDS HarnessState

Continue(d, step) == job' = [job EXCEPT ![d].step = step]

\* The handler returns to its caller, with a result or an error.
Return(d) == job' = [job EXCEPT ![d] = Idle]

\* The operations without their look at RUNNING.lock.
LockIgnored == TRUE

\* ensure_no_running_pipeline
NoRunningPipeline == lock = NoRun

(***************************************************************************)
(* Accepting a request: the checks made before anything is written.         *)
(***************************************************************************)
ProposePatch(d, p) ==
    /\ job[d] = Idle
    /\ NoRunningPipeline
    /\ job' = [job EXCEPT ![d] = [Idle EXCEPT !.step = "checkout",
                                              !.op = "propose_patch",
                                              !.patch = p]]
    /\ UNCHANGED <<env, netns, faults, tree, stash, pending, lock, log,
                   candBin, baseBin, ledger, pipe, poll, told>>

RunVerdict(d, p, r) ==
    /\ job[d] = Idle
    /\ NoRunningPipeline
    /\ p \in pending
    /\ FreshRunIds => r \notin UsedRunIds
    /\ \E i \in Slots : pipe[i].stage = "free"
    /\ job' = [job EXCEPT ![d] = [Idle EXCEPT !.step = "checkout",
                                              !.op = "run_verdict",
                                              !.patch = p,
                                              !.run = r]]
    /\ UNCHANGED <<env, netns, faults, tree, stash, pending, lock, log,
                   candBin, baseBin, ledger, pipe, poll, told>>

(***************************************************************************)
(* Both operations rebuild the tree from HEAD before they apply the diff.   *)
(***************************************************************************)
GitCheckout(d) ==
    /\ job[d].step = "checkout"
    /\ \/ tree' = Checkout(tree) /\ Continue(d, "clean")
       \/ tree' = tree /\ Return(d)              \* git failed
    /\ UNCHANGED <<env, netns, faults, stash, pending, lock, log, candBin,
                   baseBin, ledger, pipe, poll, told>>

GitClean(d) ==
    /\ job[d].step = "clean"
    /\ \/ tree' = Clean(tree) /\ Continue(d, "apply")
       \/ tree' = tree /\ Return(d)              \* git failed
    /\ UNCHANGED <<env, netns, faults, stash, pending, lock, log, candBin,
                   baseBin, ledger, pipe, poll, told>>

GitApply(d) ==
    /\ job[d].step = "apply"
    /\ LET p == job[d].patch
           next == IF job[d].op = "propose_patch" THEN "store" ELSE "open log"
       IN  \/ Applies(p, tree) /\ tree' = Apply(p, tree) /\ Continue(d, next)
           \/ ~Applies(p, tree) /\ tree' = tree /\ Return(d)
           \/ /\ Applies(p, tree)              \* git failed, maybe half way
              /\ \E W \in SUBSET Touches[p] : tree' = Write(p, W, tree)
              /\ Return(d)
    /\ UNCHANGED <<env, netns, faults, stash, pending, lock, log, candBin,
                   baseBin, ledger, pipe, poll, told>>

\* propose_patch ends by writing results/pending/<patch_id>.json.  A write
\* that fails may have emptied the file of an earlier proposal, and
\* run_verdict refuses what it cannot parse.
StorePending(d) ==
    /\ job[d].step = "store"
    /\ pending' \in {pending \cup {job[d].patch},
                    pending, pending \ {job[d].patch}}
    /\ Return(d)
    /\ UNCHANGED <<env, netns, faults, tree, stash, lock, log, candBin,
                   baseBin, ledger, pipe, poll, told>>

(***************************************************************************)
(* run_verdict's launch.                                                    *)
(***************************************************************************)

\* A note that names the wrapper without probing what it will do.
UnprobedNote == IF env.wrapper = "override" THEN "override" ELSE "no-net.sh"

\* The isolation note: what the daemon's own probe says the wrapper will do.
IsolationNote ==
    IF env.wrapper = "override" THEN "override"
    ELSE IF env.allowUnisolated /\ ~netns THEN "not isolated"
    ELSE "no-net.sh"

\* The wrapper and its note are chosen, then File::create truncates the log.
OpenLog(d) ==
    /\ job[d].step = "open log"
    /\ \/ /\ job' = [job EXCEPT ![d].step = "lock", ![d].note = IsolationNote]
          /\ log' = [log EXCEPT ![job[d].run] = {}]
       \/ Return(d) /\ log' = log               \* the file cannot be created
    /\ UNCHANGED <<env, netns, faults, tree, stash, pending, lock, candBin,
                   baseBin, ledger, pipe, poll, told>>

\* The launch leaves the lock to the script, or writes the wrong id.
LockNotWritten(d)  == NoRun
PatchIdAsLock(d) == job[d].patch

LockContent(d) == job[d].run

WriteLock(d) ==
    /\ job[d].step = "lock"
    /\ lock' = LockContent(d)
    /\ Continue(d, "spawn")
    /\ UNCHANGED <<env, netns, faults, tree, stash, pending, log, candBin,
                   baseBin, ledger, pipe, poll, told>>

\* The file is created and writing the run id into it fails (a full disk):
\* the request is refused and an empty lock, "unknown" to the daemon, stays.
WriteLockFails(d) ==
    /\ job[d].step = "lock"
    /\ faults < MaxFaults
    /\ faults' = faults + 1
    /\ lock' = UnknownRun
    /\ Return(d)
    /\ UNCHANGED <<env, netns, tree, stash, pending, log, candBin, baseBin,
                   ledger, pipe, poll, told>>

FirstFree(i) ==
    /\ pipe[i].stage = "free"
    /\ \A j \in Slots : pipe[j].stage = "free" => i <= j

SpawnPipeline(d) ==
    /\ job[d].step = "spawn"
    /\ \E i \in Slots :
          /\ FirstFree(i)
          /\ pipe' = [pipe EXCEPT ![i] = [NoPipe EXCEPT
                         !.stage = "wrapper", !.run = job[d].run,
                         !.patch = job[d].patch, !.note = job[d].note]]
    /\ Return(d)
    /\ UNCHANGED <<env, netns, faults, tree, stash, pending, lock, log,
                   candBin, baseBin, ledger, poll, told>>

\* setsid could not be started: the lock just written is taken back.
SpawnFails(d) ==
    /\ job[d].step = "spawn"
    /\ lock' = NoRun
    /\ Return(d)
    /\ UNCHANGED <<env, netns, faults, tree, stash, pending, log, candBin,
                   baseBin, ledger, pipe, poll, told>>

HandlerStep(d) ==
    \/ GitCheckout(d) \/ GitClean(d) \/ GitApply(d) \/ StorePending(d)
    \/ OpenLog(d) \/ WriteLock(d) \/ WriteLockFails(d)
    \/ SpawnPipeline(d) \/ SpawnFails(d)

(***************************************************************************)
(* Outside events.                                                          *)
(***************************************************************************)

\* The daemon process dies and is restarted: the request is lost where it
\* stands.  Pipelines are detached (setsid) and go on.
DaemonCrash(d) ==
    /\ job[d] # Idle
    /\ faults < MaxFaults
    /\ faults' = faults + 1
    /\ Return(d)
    /\ UNCHANGED <<env, netns, tree, stash, pending, lock, log, candBin,
                   baseBin, ledger, pipe, poll, told>>

\* "remove the lock if the pipeline is dead": a person does, having seen
\* that no pipeline runs and no request is about to launch one.
RemoveStaleLock ==
    /\ lock # NoRun
    /\ \A i \in Slots : ~Live(i)
    /\ \A d \in Daemons : job[d].step # "spawn"
    /\ faults < MaxFaults
    /\ faults' = faults + 1
    /\ lock' = NoRun
    /\ UNCHANGED <<env, netns, tree, stash, pending, log, candBin, baseBin,
                   ledger, job, pipe, poll, told>>

==============================================================================
