------------------------------ MODULE Pipeline ------------------------------
(***************************************************************************)
(* A verdict pipeline, detached from the daemon that launched it: the outer *)
(* script, the isolation wrapper, the inner script (candidate build) and    *)
(* the verdict process (pristine baseline, gates, bench, sanitizers, ledger *)
(* row).  i is its launch.  What the gates and the bench decide is left     *)
(* open here; which binaries they looked at is not.                         *)
(***************************************************************************)
EXTENDS HarnessState

At(i, stage) == pipe[i].stage = stage

Enter(i, stage) == pipe' = [pipe EXCEPT ![i].stage = stage]

\* The wrapped process ends with a nonzero status, and the outer script
\* takes over.
Fail(i) == pipe' = [pipe EXCEPT ![i].stage = "account", ![i].failed = TRUE]

(***************************************************************************)
(* The wrapper.                                                             *)
(***************************************************************************)

\* A wrapper that runs its argument on the host rather than refuse it.
WrapperNeverRefuses == TRUE

\* no-net.sh runs its argument in a fresh namespace, or without one when
\* told to; an override wrapper may run it or not.
WrapperProceeds == env.wrapper = "override" \/ netns \/ env.allowUnisolated

\* An override wrapper is not known to isolate anything.  The inner script
\* first writes the lock again.
WrapperExecs(i) ==
    /\ At(i, "wrapper")
    /\ WrapperProceeds
    /\ pipe' = [pipe EXCEPT ![i].stage = "build",
                            ![i].isolated = env.wrapper = "no-net.sh" /\ netns]
    /\ lock' = pipe[i].run
    /\ UNCHANGED <<env, netns, faults, tree, stash, pending, log, candBin,
                   baseBin, ledger, job, poll, told>>

\* The accounting is part of what the wrapper did not run.
WrapperRefusesUnaccounted(i) ==
    /\ At(i, "wrapper")
    /\ \/ env.wrapper = "override"
       \/ ~netns /\ ~env.allowUnisolated
    /\ Enter(i, "dead")
    /\ UNCHANGED <<env, netns, faults, tree, stash, pending, lock, log,
                   candBin, baseBin, ledger, job, poll, told>>

\* no-net.sh exits 97 without running its argument; an override that is
\* missing or not executable ends with 127 or 126.
WrapperRefuses(i) ==
    /\ At(i, "wrapper")
    /\ \/ env.wrapper = "override"
       \/ ~netns /\ ~env.allowUnisolated
    /\ Fail(i)
    /\ UNCHANGED <<env, netns, faults, tree, stash, pending, lock, log,
                   candBin, baseBin, ledger, job, poll, told>>

(***************************************************************************)
(* The candidate build, under `set -e`.                                     *)
(***************************************************************************)
BuildCandidate(i) ==
    /\ At(i, "build")
    /\ candBin' = [candBin EXCEPT ![pipe[i].patch] = tree]
    /\ Enter(i, "baseline")
    /\ UNCHANGED <<env, netns, faults, tree, stash, pending, lock, log,
                   baseBin, ledger, job, poll, told>>

\* A failed build is marked in the log, and the script goes on.
BuildCandidateFailsAndGoesOn(i) ==
    /\ At(i, "build")
    /\ log' = [log EXCEPT ![pipe[i].run] = @ \cup {Marker(i)}]
    /\ Enter(i, "baseline")
    /\ UNCHANGED <<env, netns, faults, tree, stash, pending, lock, candBin,
                   baseBin, ledger, job, poll, told>>

BuildCandidateFails(i) ==
    /\ At(i, "build")
    /\ Fail(i)
    /\ UNCHANGED <<env, netns, faults, tree, stash, pending, lock, log,
                   candBin, baseBin, ledger, job, poll, told>>

\* errexit does not fire for a command that is not the last of an AND-OR
\* list: when `mkdir -p {out}` of `mkdir -p {out} && clang ...` fails, the
\* script goes on, and nothing has been built.
BuildCandidateFallsThrough(i) ==
    /\ At(i, "build")
    /\ SplitBuild
    /\ Enter(i, "baseline")
    /\ UNCHANGED <<env, netns, faults, tree, stash, pending, lock, log,
                   candBin, baseBin, ledger, job, poll, told>>

(***************************************************************************)
(* rebuild_pristine_baseline                                                *)
(***************************************************************************)
\* The baseline is built from the tree as it stands.
KeepPatch(i) ==
    /\ At(i, "baseline")
    /\ Enter(i, "build baseline")
    /\ UNCHANGED <<env, netns, faults, tree, stash, pending, lock, log,
                   candBin, baseBin, ledger, job, poll, told>>

\* `git status` fails, and what it has not printed is read as "no changes":
\* its exit status is never looked at.
Misread(i) ==
    /\ StatusFails
    /\ Dirty(tree)
    /\ pipe' = [pipe EXCEPT ![i].stage = "build baseline",
                            ![i].misread = TRUE]
    /\ UNCHANGED <<tree, stash>>

StashPatch(i) ==
    /\ At(i, "baseline")
    /\ \/ /\ Dirty(tree)
          /\ stash' = Append(stash, tree)
          /\ tree' = Stashed(tree)
          /\ pipe' = [pipe EXCEPT ![i].stage = "build baseline",
                                  ![i].stashed = TRUE]
       \/ /\ ~Dirty(tree)
          /\ Enter(i, "build baseline")
          /\ UNCHANGED <<tree, stash>>
       \/ Misread(i)
       \/ Fail(i) /\ UNCHANGED <<tree, stash>>   \* no git, or stash failed
    /\ UNCHANGED <<env, netns, faults, pending, lock, log, candBin, baseBin,
                   ledger, job, poll, told>>

\* The build's status is never looked at.
BuildBaselineIgnoringFailure(i) ==
    /\ At(i, "build baseline")
    /\ baseBin' \in {tree, baseBin}
    /\ Enter(i, "pop")
    /\ UNCHANGED <<env, netns, faults, tree, stash, pending, lock, log,
                   candBin, ledger, job, poll, told>>

\* The build's status is looked at only after the patch is back.
BuildBaseline(i) ==
    /\ At(i, "build baseline")
    /\ \/ baseBin' = tree /\ Enter(i, "pop")
       \/ /\ baseBin' = baseBin
          /\ pipe' = [pipe EXCEPT ![i].stage = "pop", ![i].failed = TRUE]
    /\ UNCHANGED <<env, netns, faults, tree, stash, pending, lock, log,
                   candBin, ledger, job, poll, told>>

PopStash(i) ==
    /\ At(i, "pop")
    /\ \/ /\ pipe[i].stashed
          /\ stash # <<>>
          /\ tree' = Unstashed(stash[Len(stash)], tree)
          /\ stash' = SubSeq(stash, 1, Len(stash) - 1)
          /\ IF pipe[i].failed THEN Fail(i) ELSE Enter(i, "gates")
       \/ /\ pipe[i].stashed                     \* git stash pop failed
          /\ Fail(i)
          /\ UNCHANGED <<tree, stash>>
       \/ /\ ~pipe[i].stashed
          /\ IF pipe[i].failed THEN Fail(i) ELSE Enter(i, "gates")
          /\ UNCHANGED <<tree, stash>>
    /\ UNCHANGED <<env, netns, faults, pending, lock, log, candBin, baseBin,
                   ledger, job, poll, told>>

(***************************************************************************)
(* Gates, bench and sanitizers.                                             *)
(***************************************************************************)

\* run_core_gates: an error (a corpus that no longer matches its pin, a gate
\* that cannot be run) ends the process; a missing candidate passes no gate.
RunGates(i) ==
    /\ At(i, "gates")
    /\ \/ Fail(i)
       \/ pipe' = [pipe EXCEPT ![i].stage = "record",
                               ![i].verdict = "rejected-gate"]
       \/ candBin[pipe[i].patch] # Missing /\ Enter(i, "bench")
    /\ UNCHANGED <<env, netns, faults, tree, stash, pending, lock, log,
                   candBin, baseBin, ledger, job, poll, told>>

Bench(i) ==
    /\ At(i, "bench")
    /\ \/ Fail(i)
       \/ pipe' = [pipe EXCEPT ![i].stage = "record",
                               ![i].verdict = "rejected-bench"]
       \/ pipe' = [pipe EXCEPT ![i].stage = "sanitize",
                               ![i].verdict = "accepted"]
    /\ UNCHANGED <<env, netns, faults, tree, stash, pending, lock, log,
                   candBin, baseBin, ledger, job, poll, told>>

\* The instrumented build is made from the tree; an accept stands when it
\* ran clean (and no other cap applies), and is capped otherwise.
Sanitize(i) ==
    /\ At(i, "sanitize")
    /\ \/ Fail(i)
       \/ \E v \in {"accepted", "needs-human-review"} :
             pipe' = [pipe EXCEPT ![i].stage = "record", ![i].verdict = v,
                                  ![i].san = tree]
       \/ pipe' = [pipe EXCEPT ![i].stage = "record",
                               ![i].verdict = "needs-human-review"]
    /\ UNCHANGED <<env, netns, faults, tree, stash, pending, lock, log,
                   candBin, baseBin, ledger, job, poll, told>>

\* The row of a run that was not benched has no environment fingerprint, and
\* with it no isolation note.
RowOf(i) == [patch |-> pipe[i].patch, verdict |-> pipe[i].verdict,
             note |-> IF pipe[i].verdict = "rejected-gate" THEN "unrecorded"
                      ELSE pipe[i].note,
             cand |-> candBin[pipe[i].patch],
             base |-> baseBin, san |-> pipe[i].san,
             isolated |-> pipe[i].isolated, misread |-> pipe[i].misread,
             by |-> i]

\* Ledger::record: run_id is the primary key, so a second row for the same
\* id is an error, and so is a database that cannot be written.
RecordRow(i) ==
    /\ At(i, "record")
    /\ \/ /\ ledger[pipe[i].run] = NoRow
          /\ ledger' = [ledger EXCEPT ![pipe[i].run] = RowOf(i)]
          /\ Enter(i, "exit")
       \/ ledger' = ledger /\ Fail(i)
    /\ UNCHANGED <<env, netns, faults, tree, stash, pending, lock, log,
                   candBin, baseBin, job, poll, told>>

ExitZero(i) ==
    /\ At(i, "exit")
    /\ Enter(i, "account")
    /\ UNCHANGED <<env, netns, faults, tree, stash, pending, lock, log,
                   candBin, baseBin, ledger, job, poll, told>>

(***************************************************************************)
(* The outer script: `rm -f lock`, then the marker unless the status was 0. *)
(***************************************************************************)

\* What is left of a pipeline that runs nothing any more.
Ended(i, stage) == [NoPipe EXCEPT !.stage = stage, !.run = pipe[i].run,
                                  !.patch = pipe[i].patch]

\* The old accounting: only a pipeline that succeeded removes the lock.
ReleaseLockOnSuccess(i) ==
    /\ At(i, "account")
    /\ lock' = IF pipe[i].failed THEN lock ELSE NoRun
    /\ pipe' = [pipe EXCEPT ![i] =
                   Ended(i, IF pipe[i].failed THEN "mark" ELSE "done")]
    /\ UNCHANGED <<env, netns, faults, tree, stash, pending, log, candBin,
                   baseBin, ledger, job, poll, told>>

\* `$?` taken after the `rm`: the status is always 0.
ReleaseLockLosingStatus(i) ==
    /\ At(i, "account")
    /\ lock' = NoRun
    /\ pipe' = [pipe EXCEPT ![i] = Ended(i, "done")]
    /\ UNCHANGED <<env, netns, faults, tree, stash, pending, log, candBin,
                   baseBin, ledger, job, poll, told>>

\* The marker goes into the log before the lock is removed.
MarkThenRelease(i) ==
    /\ At(i, "account")
    /\ IF pipe[i].failed /\ Marker(i) \notin log[pipe[i].run]
       THEN /\ log' = [log EXCEPT ![pipe[i].run] = @ \cup {Marker(i)}]
            /\ UNCHANGED <<lock, pipe>>
       ELSE /\ lock' = NoRun
            /\ pipe' = [pipe EXCEPT ![i] = Ended(i, "done")]
            /\ log' = log
    /\ UNCHANGED <<env, netns, faults, tree, stash, pending, candBin,
                   baseBin, ledger, job, poll, told>>

ReleaseLock(i) ==
    /\ At(i, "account")
    /\ lock' = NoRun
    /\ pipe' = [pipe EXCEPT ![i] =
                   Ended(i, IF pipe[i].failed THEN "mark" ELSE "done")]
    /\ UNCHANGED <<env, netns, faults, tree, stash, pending, log, candBin,
                   baseBin, ledger, job, poll, told>>

MarkFailed(i) ==
    /\ At(i, "mark")
    /\ log' = [log EXCEPT ![pipe[i].run] = @ \cup {Marker(i)}]
    /\ Enter(i, "done")
    /\ UNCHANGED <<env, netns, faults, tree, stash, pending, lock, candBin,
                   baseBin, ledger, job, poll, told>>

PipelineStep(i) ==
    \/ WrapperExecs(i) \/ WrapperRefuses(i)
    \/ BuildCandidate(i) \/ BuildCandidateFails(i)
    \/ BuildCandidateFallsThrough(i)
    \/ StashPatch(i) \/ BuildBaseline(i) \/ PopStash(i)
    \/ RunGates(i) \/ Bench(i) \/ Sanitize(i) \/ RecordRow(i) \/ ExitZero(i)
    \/ ReleaseLock(i) \/ MarkFailed(i)

\* Code of the patch is compiled or run, and what it prints goes into the
\* log as it comes: the candidate's build, the stderr of a test gate that
\* fails, the sanitizers' builds and the tail of a flagged lane's stderr;
\* the baseline's build too when it is of the patched tree.
Prints(i) ==
    /\ i \in Printing
    /\ \/ pipe[i].stage \in {"build", "gates", "sanitize"}
       \/ pipe[i].stage = "build baseline" /\ pipe[i].misread
    /\ log' = [log EXCEPT ![pipe[i].run] = @ \cup {Printed(i)}]
    /\ UNCHANGED <<env, netns, faults, tree, stash, pending, lock, candBin,
                   baseBin, ledger, job, pipe, poll, told>>

(***************************************************************************)
(* Outside events.                                                          *)
(***************************************************************************)

\* The wrapped processes are killed (out of memory, a signal) wherever they
\* are; the outer script is not.
Kill(i) ==
    /\ pipe[i].stage \in Inner
    /\ faults < MaxFaults
    /\ faults' = faults + 1
    /\ Fail(i)
    /\ UNCHANGED <<env, netns, tree, stash, pending, lock, log, candBin,
                   baseBin, ledger, job, poll, told>>

\* The host goes down: every pipeline and every request is gone, the files
\* stay as they are.
HostCrash ==
    /\ faults < MaxFaults
    /\ faults' = faults + 1
    /\ \/ \E d \in Daemons : job[d] # Idle
       \/ \E i \in Slots : Live(i) \/ pipe[i].stage = "mark"
    /\ job' = [d \in Daemons |-> Idle]
    /\ pipe' = [i \in Slots |-> IF Live(i) \/ pipe[i].stage = "mark"
                                THEN Ended(i, "dead") ELSE pipe[i]]
    /\ UNCHANGED <<env, netns, tree, stash, pending, lock, log, candBin,
                   baseBin, ledger, poll, told>>

==============================================================================
