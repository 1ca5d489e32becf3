------------------------------- MODULE Harness -------------------------------
(***************************************************************************)
(* The evidence pipeline as a whole: daemons that take requests, detached   *)
(* pipelines that produce ledger rows, and agents that poll for them, all   *)
(* meeting in the files of one repository and one target workspace.         *)
(***************************************************************************)
EXTENDS Daemon, Pipeline, Poller

Init ==
    /\ env \in Environments
    /\ netns \in BOOLEAN
    /\ faults = 0
    /\ tree = HeadTree
    /\ stash = <<>>
    /\ pending = {}
    /\ lock = NoRun
    /\ log = [r \in RunIds |-> {}]
    /\ candBin = [p \in Patches |-> Missing]
    /\ baseBin = Missing
    /\ ledger = [r \in RunIds |-> NoRow]
    /\ job = [d \in Daemons |-> Idle]
    /\ pipe = [i \in Slots |-> NoPipe]
    /\ poll = [c \in Pollers |-> NotPolling]
    /\ told = {}

\* The host gains or loses the ability to open a network namespace.
NetnsChanges ==
    /\ NetnsVaries
    /\ netns' = ~netns
    /\ UNCHANGED <<env, faults, tree, stash, pending, lock, log, candBin,
                   baseBin, ledger, job, pipe, poll, told>>

Next ==
    \/ \E d \in Daemons, p \in Patches : ProposePatch(d, p)
    \/ \E d \in Daemons, p \in Patches, r \in RunIds : RunVerdict(d, p, r)
    \/ \E d \in Daemons : HandlerStep(d) \/ DaemonCrash(d)
    \/ \E i \in Slots : PipelineStep(i) \/ Prints(i) \/ Kill(i)
    \/ \E c \in Pollers, r \in RunIds : ReadVerdict(c, r)
    \/ \E c \in Pollers : PollStep(c)
    \/ RemoveStaleLock \/ HostCrash \/ NetnsChanges

Spec == Init /\ [][Next]_vars

\* A request that was taken is handled, a launched pipeline is a chain of
\* commands that each terminate, and a long poll keeps looking.
Fairness ==
    /\ \A d \in Daemons : WF_vars(HandlerStep(d))
    /\ \A i \in Slots : WF_vars(PipelineStep(i))
    /\ \A c \in Pollers : WF_vars(PollStep(c))

FairSpec == Spec /\ Fairness

TypeOK ==
    /\ env \in Environments
    /\ netns \in BOOLEAN
    /\ faults \in 0 .. MaxFaults
    /\ tree \in Tree
    /\ stash \in Seq(Tree)
    /\ pending \in SUBSET Patches
    /\ lock \in RunIds \cup {NoRun, UnknownRun}
    /\ log \in [RunIds -> SUBSET Line]
    /\ candBin \in [Patches -> Binary]
    /\ baseBin \in Binary
    /\ ledger \in [RunIds -> Row \cup {NoRow}]
    /\ job \in [Daemons -> Job]
    /\ pipe \in [Slots -> Pipe]
    /\ poll \in [Pollers -> Poll]
    /\ told \in SUBSET Answer

-----------------------------------------------------------------------------

\* The stages at which the pipeline counts on the tree holding its patch.
Tests == {"wrapper", "build", "baseline", "gates", "bench", "sanitize",
          "record", "exit"}

\* While a pipeline counts on its patch, the workspace holds that patch on
\* the pinned commit and nothing else, whatever requests, crashes and
\* earlier proposals surround it ("Refuse any op that would swap that tree
\* while a pipeline is in flight").
TestedTreeIsThePatch ==
    \A i \in Slots :
        pipe[i].stage \in Tests => tree = Patched(pipe[i].patch)

\* At most one pipeline is between its launch and the release of the lock,
\* and for as long as it is the lock is there and names its run.
OnePipelineUnderTheLock ==
    \A i \in Slots : Live(i) =>
        /\ lock = pipe[i].run
        /\ \A j \in Slots : Live(j) => i = j

\* What the baseline of a row is built from: the pinned commit, and the
\* patched tree where git status failed.
BaselineOf(row) == IF row.misread THEN Patched(row.patch) ELSE HeadTree

\* A row is evidence about the patch it names: the candidate it measured was
\* built from that patch on the pinned commit (or, with an `a && b` build
\* only, was missing and the row rejects it), the baseline from the pinned
\* commit alone unless git status failed, and from the patch then, and the
\* instrumented build from the patch.
RowIsAboutItsPatch ==
    \A r \in RunIds : ledger[r] # NoRow =>
        LET row == ledger[r]
        IN  /\ \/ row.cand = Patched(row.patch)
               \/ /\ row.cand = Missing
                  /\ SplitBuild
                  /\ row.verdict = "rejected-gate"
            /\ row.base = BaselineOf(row)
            /\ row.san \in {Missing, Patched(row.patch)}
            /\ row.verdict = "accepted" => row.san # Missing

\* "Stash any workspace patch, build the baseline": every row was measured
\* against a baseline built from the pinned commit, as verdict says when it
\* prints "baseline rebuilt from pristine checkout".
BaselinesArePristine ==
    \A r \in RunIds : ledger[r] # NoRow => ledger[r].base = HeadTree

\* A row that claims the default wrapper ran in a network namespace.
NoteIsHonest ==
    \A r \in RunIds :
        ledger[r] # NoRow /\ ledger[r].note = "no-net.sh" => ledger[r].isolated

\* An agent that is told "failed" (run ids used once) can go on: the
\* pipeline is over and "the run lock has been released" by it, unless the
\* patch has printed the marker's text.
FailedMeansOver ==
    \A a \in told : \A i \in Slots : pipe[i].run = a.run =>
        ~Live(i) \/ Printed(i) \in log[a.run]

\* read_verdict's note to a failed run: "No ledger row was or will be
\* written for this run_id".
FailedMeansNoRow ==
    \A a \in told : ledger[a.run] = NoRow

\* The part of that note that holds when run ids are used once: nothing is
\* recorded for a run after its agent has been told it failed, except where
\* the patch has printed the marker's text.
NoRowAfterFailed ==
    [][\A a \in told :
           \/ ledger'[a.run] = ledger[a.run]
           \/ Printed(ledger'[a.run].by) \in log[a.run]
      ]_vars

\* Launch i has its row in the ledger.
Recorded(i) ==
    /\ pipe[i].run \in RunIds
    /\ ledger[pipe[i].run] # NoRow
    /\ ledger[pipe[i].run].by = i

\* A pipeline whose scripts have ended, killed or not, has left its agent
\* something to find (run ids used once): a row, or a marker in the log; and
\* when nothing was killed, a row or a marker but not both.
EveryLaunchAccounted ==
    \A i \in Slots : pipe[i].stage = "done" =>
        /\ Recorded(i) \/ Marker(i) \in log[pipe[i].run]
        /\ faults = 0 => ~(Recorded(i) /\ Marker(i) \in log[pipe[i].run])

\* RUNNING.lock is there and there is nobody left who will remove it: no
\* pipeline is live, and no request is about to launch one.
StaleLock ==
    /\ lock # NoRun
    /\ \A i \in Slots : ~Live(i)
    /\ \A d \in Daemons : job[d].step # "spawn"

\* The lock goes stale only by a crash of the daemon or the host, or by a
\* disk that is full at the wrong moment: a wrapper that refuses, a build
\* that fails and a kill all end in its removal.
StaleOnlyByCrash ==
    [][StaleLock' => \/ StaleLock
                     \/ HostCrash
                     \/ \E d \in Daemons : DaemonCrash(d) \/ WriteLockFails(d)
      ]_vars

\* Launch i has left its agent something to find.
Resolved(i) ==
    /\ pipe[i].run \in RunIds
    /\ ledger[pipe[i].run] # NoRow \/ Marker(i) \in log[pipe[i].run]

\* Every pipeline that was launched leaves a row or a FAILED marker of the
\* script's, so an agent that keeps polling gets an answer.
EveryLaunchResolves ==
    \A i \in Slots : pipe[i].stage = "wrapper" ~> Resolved(i)

\* The daemon does not stay refusing requests: the lock always goes away.
LockIsReleased == (lock # NoRun) ~> (lock = NoRun)

\* Seen from outside, the harness is EvidenceService.
Running == IF \E i \in Slots : Live(i)
           THEN LET i == CHOOSE j \in Slots : Live(j)
                IN  [launch |-> i, patch |-> pipe[i].patch,
                     run |-> pipe[i].run]
           ELSE NoRun

Published == [r \in RunIds |->
    IF ledger[r] = NoRow THEN NoRow
    ELSE [patch |-> ledger[r].patch, verdict |-> ledger[r].verdict,
          cand |-> ledger[r].cand, base |-> ledger[r].base,
          misread |-> ledger[r].misread, launch |-> ledger[r].by]]

Service == INSTANCE EvidenceService
    WITH running <- Running, rows <- Published

\* The harness implements the abstract service.
ImplementsService == Service!Spec

==============================================================================
