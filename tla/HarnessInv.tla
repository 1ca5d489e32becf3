----------------------------- MODULE HarnessInv -----------------------------
(***************************************************************************)
(* The inductive invariants behind the safety properties of Harness, for    *)
(* daemons that take turns, as one alone does, and a workspace that ignores *)
(* no file a patch writes.                                                  *)
(***************************************************************************)
EXTENDS Harness

OneDaemon      == \A d, e \in Daemons : d = e

\* A second daemon may be there, but no two are at a request at a time.
\* HANDLE_LOCK sees to that within a daemon, and nothing does across them.
RequestsTakeTurns ==
    \A d, e \in Daemons : job[d] # Idle /\ job[e] # Idle => d = e

\* Next, with requests that begin when no other daemon is at one.
TurnsNext ==
    \/ \E d \in Daemons :
          /\ \A e \in Daemons \ {d} : job[e] = Idle
          /\ \/ \E p \in Patches : ProposePatch(d, p)
             \/ \E p \in Patches, r \in RunIds : RunVerdict(d, p, r)
    \/ \E d \in Daemons : HandlerStep(d) \/ DaemonCrash(d)
    \/ \E i \in Slots : PipelineStep(i) \/ Prints(i) \/ Kill(i)
    \/ \E c \in Pollers, r \in RunIds : ReadVerdict(c, r)
    \/ \E c \in Pollers : PollStep(c)
    \/ RemoveStaleLock \/ HostCrash \/ NetnsChanges

\* The harness with any number of daemons, as long as they take turns.
TurnsSpec == Init /\ [][TurnsNext]_vars

\* .gitignore matches none of the files a patch writes.
NothingIgnored == \A p \in Patches : Touches[p] \cap Ignored = {}

(***************************************************************************)
(* Who may touch the tree.                                                  *)
(***************************************************************************)

\* While a pipeline is live it owns the lock, alone, and no request is being
\* handled.
PipelineHoldsLock ==
    \A i \in Slots : Live(i) =>
        /\ lock = pipe[i].run
        /\ \A j \in Slots : Live(j) => i = j
        /\ \A d \in Daemons : job[d] = Idle

\* A request in progress found the lock free, and it still is, until the
\* request writes it.
RequestHoldsTree ==
    \A d \in Daemons :
        /\ job[d].step \in ResetSteps \cup {"store", "open log", "lock"}
              => lock = NoRun
        /\ job[d].step = "spawn" => lock = job[d].run

\* What the tree holds, from the reset to the launch.
ResetProgress ==
    \A d \in Daemons :
        /\ job[d].step = "clean" => \A f \in Tracked : tree[f] = AtHead
        /\ job[d].step = "apply" => tree = HeadTree
        /\ job[d].step \in {"store", "open log", "lock", "spawn"}
              => tree = Patched(job[d].patch)

\* `git clean` and `git stash` pass over the ignored files, and no patch
\* ever wrote one.
IgnoredUntouched == \A f \in Ignored : tree[f] = AtHead

(***************************************************************************)
(* What a live pipeline can count on at each stage.                         *)
(***************************************************************************)
TreeHoldsPatch(i) ==
    pipe[i].stage \in Tests => tree = Patched(pipe[i].patch)

\* For as long as the baseline is being built, the tree is the pinned commit
\* and the patch is the newest stash entry, or the patch was not seen and
\* the tree still has it.
StashHoldsPatch(i) ==
    pipe[i].stage \in {"build baseline", "pop"} =>
        IF pipe[i].misread
        THEN ~pipe[i].stashed /\ tree = Patched(pipe[i].patch)
        ELSE /\ pipe[i].stashed
             /\ stash # <<>>
             /\ stash[Len(stash)] = Patched(pipe[i].patch)
             /\ tree = HeadTree

\* Before the patched tree can be stashed, nothing has been.
NothingStashed(i) ==
    pipe[i].stage \in {"wrapper", "build", "baseline"} =>
        ~pipe[i].stashed /\ ~pipe[i].misread

BaselineIsPristine(i) ==
    \/ pipe[i].stage = "pop" /\ ~pipe[i].failed
    \/ pipe[i].stage \in {"gates", "bench", "sanitize", "record"}
    => baseBin = BaselineOf(pipe[i])

\* Past a build that is one command under `set -e`, there is a candidate.
CandidateIsBuilt(i) ==
    pipe[i].stage \in Inner \ {"build"} =>
        candBin[pipe[i].patch] # Missing \/ SplitBuild

\* A verdict past the gates was reached on a candidate that exists, an
\* accept on an instrumented build of it.
VerdictHasEvidence(i) ==
    /\ pipe[i].stage \in Inner \cup {"wrapper"}
          => pipe[i].san \in {Missing, Patched(pipe[i].patch)}
    /\ \/ pipe[i].stage \in {"bench", "sanitize"}
       \/ pipe[i].stage = "record" /\ pipe[i].verdict # "rejected-gate"
       => candBin[pipe[i].patch] # Missing
    /\ pipe[i].stage = "record" /\ pipe[i].verdict = "accepted"
          => pipe[i].san # Missing

StageFacts(i) ==
    /\ TreeHoldsPatch(i)
    /\ NothingStashed(i)
    /\ StashHoldsPatch(i)
    /\ BaselineIsPristine(i)
    /\ CandidateIsBuilt(i)
    /\ VerdictHasEvidence(i)

CandidatesAreTheirPatches ==
    \A p \in Patches : candBin[p] \in {Missing, Patched(p)}

\* The invariant: the mutual exclusion between requests and pipelines, and
\* the chain from the reset tree to the row that rests on it.
EvidenceChain ==
    /\ PipelineHoldsLock
    /\ RequestHoldsTree
    /\ ResetProgress
    /\ IgnoredUntouched
    /\ \A i \in Slots : StageFacts(i)
    /\ CandidatesAreTheirPatches
    /\ RowIsAboutItsPatch

(***************************************************************************)
(* Why a note can be believed when no environment lets the wrapper run      *)
(* without a namespace.                                                     *)
(***************************************************************************)
NoUnisolatedOptIn == \A e \in Environments : ~e.allowUnisolated

NoteChain ==
    /\ \A d \in Daemons :
          job[d].note = "no-net.sh" => env.wrapper = "no-net.sh"
    /\ \A i \in Slots : pipe[i].note = "no-net.sh" =>
          /\ env.wrapper = "no-net.sh"
          /\ pipe[i].stage \in Inner => pipe[i].isolated
    /\ NoteIsHonest

(***************************************************************************)
(* Why "failed" can be believed when agents use a run id for one launch.    *)
(***************************************************************************)

\* No two launches, and no launch and request, share a run id.
RunIdsAreOwn ==
    /\ \A i, j \in Slots :
          pipe[i].run = pipe[j].run /\ pipe[i].run # NoRun => i = j
    /\ \A d \in Daemons, i \in Slots :
          job[d].run # NoRun => job[d].run # pipe[i].run
    /\ \A d, e \in Daemons :
          job[d].run = job[e].run /\ job[d].run # NoRun => d = e

\* Launch i was for run id r, and nothing of it runs any more.
Over(i, r) == pipe[i].run = r /\ pipe[i].stage \in {"done", "dead"}

\* Launch i was for run id r, and its patch has printed the marker's text.
HasPrinted(i, r) == pipe[i].run = r /\ Printed(i) \in log[r]

\* The script's marker is about a launch that is over, what a patch printed
\* is in the log of its own run, and an answer rests on the one or the other.
AnswerChain ==
    /\ RunIdsAreOwn
    /\ \A i \in Slots, r \in RunIds :
          /\ Marker(i) \in log[r] => Over(i, r)
          /\ Printed(i) \in log[r] => HasPrinted(i, r)
    /\ \A a \in told : Over(a.by, a.run) \/ HasPrinted(a.by, a.run)

(***************************************************************************)
(* Why a launch is accounted for when agents use a run id once.             *)
(***************************************************************************)

\* A row's run is the run of the launch the row is by.
RowsNameTheirLaunch ==
    \A r \in RunIds : ledger[r] # NoRow => pipe[ledger[r].by].run = r

\* The verdict process ends with status 0 only behind its row; what ended
\* has a row or a marker; and short of a kill, a process that has written
\* its row does not fail any more.
Accounted(i) ==
    /\ pipe[i].failed => pipe[i].stage \in {"pop", "account"}
    /\ \/ pipe[i].stage = "exit"
       \/ pipe[i].stage = "account" /\ ~pipe[i].failed
       => Recorded(i)
    /\ pipe[i].stage = "done" => Recorded(i) \/ Marker(i) \in log[pipe[i].run]
    /\ faults = 0 /\ Recorded(i) =>
          /\ pipe[i].stage \in {"exit", "account", "done"}
          /\ ~pipe[i].failed
          /\ Marker(i) \notin log[pipe[i].run]

AccountChain ==
    /\ RowsNameTheirLaunch
    /\ \A i \in Slots : Accounted(i)

==============================================================================
