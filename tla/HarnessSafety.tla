---------------------------- MODULE HarnessSafety ----------------------------
(***************************************************************************)
(* One daemon and a workspace that ignores no file a patch writes: then,    *)
(* whatever crashes, kills and failures happen, a pipeline tests exactly    *)
(* its patch and a row is evidence about the patch it names.                *)
(***************************************************************************)
EXTENDS HarnessProofs

-----------------------------------------------------------------------------
(***************************************************************************)
(* The workspace, when it ignores nothing a patch writes.                   *)
(***************************************************************************)

\* The reset reaches the pinned commit, from any tree without ignored files
\* of a patch.
LEMMA ResetReachesHead ==
    ASSUME NEW t \in Tree, \A f \in Ignored : t[f] = AtHead
    PROVE  /\ \A f \in Tracked \cup Ignored : Checkout(t)[f] = AtHead
           /\ (\A f \in Tracked : t[f] = AtHead) => Clean(t) = HeadTree
BY WorkspaceAssumption DEF Checkout, Clean, HeadTree, Tree

LEMMA ApplyToHead ==
    ASSUME NEW p \in Patches
    PROVE  Apply(p, HeadTree) = Patched(p)
BY DEF Apply, Write, HeadTree, Patched

\* Neither the pinned commit nor a patch on it has an ignored file.
LEMMA PatchesIgnoreNothing ==
    ASSUME NothingIgnored, NEW p \in Patches, NEW f \in Ignored
    PROVE  f \in Files /\ HeadTree[f] = AtHead /\ Patched(p)[f] = AtHead
BY WorkspaceAssumption DEF NothingIgnored, HeadTree, Patched

\* Stashing leaves the pinned commit, and popping brings the tree back.
LEMMA StashRoundTrip ==
    ASSUME NEW t \in Tree, \A f \in Ignored : t[f] = AtHead
    PROVE  /\ Stashed(t) = HeadTree
           /\ Unstashed(t, HeadTree) = t
<1>1. Stashed(t) = HeadTree
  BY DEF Stashed, HeadTree
<1>2. \A f \in Files : Unstashed(t, HeadTree)[f] = t[f]
  BY DEF Unstashed, HeadTree
<1>3. Unstashed(t, HeadTree) = [f \in Files |-> t[f]]
  BY <1>2 DEF Unstashed
<1>. QED  BY <1>1, <1>3 DEF Tree

LEMMA PatchIsDirty ==
    ASSUME NothingIgnored, NEW p \in Patches
    PROVE  Dirty(Patched(p)) /\ Patched(p) # Missing
<1>1. PICK f \in Touches[p] : f \in Files /\ f \notin Ignored
  BY WorkspaceAssumption DEF NothingIgnored
<1>2. Patched(p)[f] = p /\ p # AtHead
  BY <1>1, WorkspaceAssumption DEF Patched
<1>3. Patched(p) # Missing
  BY TreeTypes, WorkspaceAssumption DEF Tree
<1>. QED  BY <1>1, <1>2, <1>3 DEF Dirty

-----------------------------------------------------------------------------
(***************************************************************************)
(* Steps that cannot disturb the chain.                                     *)
(***************************************************************************)

LEMMA IdleStep == Idle.step = "idle"
BY DEF Idle

LEMMA LivePipeline ==
    ASSUME TypeOK, NEW i \in Slots, Live(i)
    PROVE  pipe[i] \in LaunchedPipe
<1>1. pipe[i].stage # "free"
  BY DEF Live, Inner
<1>. QED  BY <1>1, IsLaunched DEF TypeOK

\* A free lock means that no pipeline is live.
LEMMA FreeLock ==
    ASSUME TypeOK, EvidenceChain, lock = NoRun
    PROVE  \A i \in Slots : ~Live(i)
<1>. SUFFICES ASSUME NEW i \in Slots, Live(i) PROVE FALSE
  OBVIOUS
<1>1. pipe[i].run \in RunIds
  BY LivePipeline DEF LaunchedPipe
<1>. QED  BY <1>1, HarnessAssumption DEF EvidenceChain, PipelineHoldsLock

\* So does a request in progress.
LEMMA BusyDaemon ==
    ASSUME EvidenceChain, NEW d \in Daemons, job[d] # Idle
    PROVE  \A i \in Slots : ~Live(i)
BY DEF EvidenceChain, PipelineHoldsLock

\* A step of a live pipeline has to answer for that pipeline only.
LEMMA LiveStep ==
    ASSUME EvidenceChain, NEW i \in Slots, Live(i), job' = job,
           \A j \in Slots \ {i} : pipe'[j] = pipe[j],
           Live(i)' => lock' = pipe'[i].run, tree' = tree \/ IgnoredUntouched',
           StageFacts(i)', CandidatesAreTheirPatches', RowIsAboutItsPatch'
    PROVE  EvidenceChain'
<1>. USE DEF NothingStashed, CandidateIsBuilt, BaselineOf
<1>1. \A j \in Slots \ {i} : ~Live(j)
  BY DEF EvidenceChain, PipelineHoldsLock
<1>2. \A j \in Slots \ {i} : (~Live(j))'
  BY <1>1 DEF Live
<1>3. \A d \in Daemons : job'[d] = Idle
  BY DEF EvidenceChain, PipelineHoldsLock
<1>4. PipelineHoldsLock'
  BY <1>2, <1>3 DEF PipelineHoldsLock
<1>5. RequestHoldsTree' /\ ResetProgress'
  BY <1>3, IdleStep DEF RequestHoldsTree, ResetProgress, ResetSteps
<1>6. ASSUME NEW j \in Slots PROVE StageFacts(j)'
  <2>1. CASE j = i
    BY <2>1
  <2>2. CASE j # i
    <3>1. (~Live(j))'
      BY <1>2, <2>2
    <3>. QED
      BY <3>1 DEF Live, Inner, StageFacts, TreeHoldsPatch, StashHoldsPatch,
                  BaselineIsPristine, VerdictHasEvidence, Tests
  <2>. QED  BY <2>1, <2>2
<1>7. IgnoredUntouched'
  BY DEF EvidenceChain, IgnoredUntouched
<1>. QED  BY <1>4, <1>5, <1>6, <1>7 DEF EvidenceChain

\* With no pipeline live, a step has to answer for the requests only.
LEMMA NoLiveStep ==
    ASSUME EvidenceChain, \A i \in Slots : (~Live(i))',
           UNCHANGED <<candBin, ledger>>, RequestHoldsTree', ResetProgress',
           tree' = tree \/ IgnoredUntouched'
    PROVE  EvidenceChain'
<1>. USE DEF NothingStashed, CandidateIsBuilt, BaselineOf
<1>1. PipelineHoldsLock'
  BY DEF PipelineHoldsLock
<1>2. ASSUME NEW i \in Slots PROVE StageFacts(i)'
  BY DEF Live, Inner, StageFacts, TreeHoldsPatch, StashHoldsPatch,
         BaselineIsPristine, VerdictHasEvidence, Tests
<1>3. CandidatesAreTheirPatches' /\ RowIsAboutItsPatch'
  BY DEF EvidenceChain, CandidatesAreTheirPatches, RowIsAboutItsPatch
<1>4. IgnoredUntouched'
  BY DEF EvidenceChain, IgnoredUntouched
<1>. QED  BY <1>1, <1>2, <1>3, <1>4 DEF EvidenceChain

\* A step of something else leaves everything the chain is about alone.
LEMMA ElsewhereStep ==
    ASSUME EvidenceChain,
           UNCHANGED <<tree, stash, lock, candBin, baseBin, ledger, job>>,
           \A j \in Slots : pipe'[j] = pipe[j] \/ (~Live(j))'
    PROVE  EvidenceChain'
<1>. USE DEF NothingStashed, CandidateIsBuilt, BaselineOf
<1>1. PipelineHoldsLock'
  BY DEF EvidenceChain, PipelineHoldsLock, Live
<1>2. RequestHoldsTree' /\ ResetProgress'
  BY DEF EvidenceChain, RequestHoldsTree, ResetProgress
<1>3. ASSUME NEW j \in Slots PROVE StageFacts(j)'
  <2>1. CASE pipe'[j] = pipe[j]
    BY <2>1 DEF EvidenceChain, StageFacts, TreeHoldsPatch, StashHoldsPatch,
                BaselineIsPristine, VerdictHasEvidence
  <2>2. CASE (~Live(j))'
    BY <2>2 DEF Live, Inner, StageFacts, TreeHoldsPatch, StashHoldsPatch,
                BaselineIsPristine, VerdictHasEvidence, Tests
  <2>. QED  BY <2>1, <2>2
<1>4. CandidatesAreTheirPatches' /\ RowIsAboutItsPatch' /\ IgnoredUntouched'
  BY DEF EvidenceChain, CandidatesAreTheirPatches, RowIsAboutItsPatch,
         IgnoredUntouched
<1>. QED  BY <1>1, <1>2, <1>3, <1>4 DEF EvidenceChain

-----------------------------------------------------------------------------
(***************************************************************************)
(* Requests.                                                                *)
(***************************************************************************)

\* While a daemon is at its request the others are at none.
LEMMA OthersIdle ==
    ASSUME RequestsTakeTurns, TypeOK, NEW d \in Daemons, job[d] # Idle,
           HandlerStep(d) \/ DaemonCrash(d)
    PROVE  \A e \in Daemons \ {d} : job'[e] = Idle /\ job'[e].step = "idle"
<1>1. \A e \in Daemons \ {d} : job[e] = Idle
  BY DEF RequestsTakeTurns
<1>2. Idle.step = "idle"
  BY DEF Idle
<1>3. \A e \in Daemons \ {d} : job'[e] = job[e]
  <2>1. CASE Return(d)
    BY <2>1 DEF Return, TypeOK
  <2>2. ASSUME NEW s, Continue(d, s)
        PROVE  \A e \in Daemons \ {d} : job'[e] = job[e]
    BY <2>2 DEF Continue, TypeOK
  <2>3. ASSUME job' = [job EXCEPT ![d].step = "lock", ![d].note = IsolationNote]
        PROVE  \A e \in Daemons \ {d} : job'[e] = job[e]
    BY <2>3 DEF TypeOK
  <2>. QED
    BY <2>1, <2>2, <2>3
    DEF HandlerStep, DaemonCrash, GitCheckout, GitClean, GitApply,
        StorePending, OpenLog, WriteLock, WriteLockFails, SpawnPipeline,
        SpawnFails
<1>. QED  BY <1>1, <1>2, <1>3

\* Where the daemon's own request stands is all there is to know of requests.
LEMMA RequestsFollow ==
    ASSUME NEW d \in Daemons,
           \A e \in Daemons \ {d} : job'[e].step = "idle",
           /\ job'[d].step \in ResetSteps \cup {"store", "open log", "lock"}
                 => lock' = NoRun
           /\ job'[d].step = "spawn" => lock' = job'[d].run,
           /\ job'[d].step = "clean" => \A f \in Tracked : tree'[f] = AtHead
           /\ job'[d].step = "apply" => tree' = HeadTree
           /\ job'[d].step \in {"store", "open log", "lock", "spawn"}
                 => tree' = Patched(job'[d].patch)
    PROVE  RequestHoldsTree' /\ ResetProgress'
<1>1. ASSUME NEW e \in Daemons \ {d}
      PROVE  /\ job'[e].step \notin ResetSteps
             /\ job'[e].step \notin {"store", "open log", "lock", "spawn"}
  BY DEF ResetSteps
<1>2. RequestHoldsTree'
  BY <1>1 DEF RequestHoldsTree
<1>3. ResetProgress'
  BY <1>1 DEF ResetProgress, ResetSteps
<1>. QED  BY <1>2, <1>3

\* The daemon's own steps: the reset leaves the patch on the pinned commit,
\* and the lock is written before the pipeline is launched.
LEMMA RequestKeepsChain ==
    ASSUME RequestsTakeTurns, NothingIgnored, TypeOK, EvidenceChain,
           NEW d \in Daemons, HandlerStep(d) \/ DaemonCrash(d)
    PROVE  EvidenceChain'
<1>. USE DEF TypeOK, NothingStashed, CandidateIsBuilt, BaselineOf
<1>1. job[d] # Idle
  BY IdleStep
  DEF HandlerStep, DaemonCrash, GitCheckout, GitClean, GitApply, StorePending,
      OpenLog, WriteLock, WriteLockFails, SpawnPipeline, SpawnFails
<1>2. \A i \in Slots : ~Live(i)
  BY <1>1, BusyDaemon
<1>3. \A e \in Daemons \ {d} : job'[e] = Idle /\ job'[e].step = "idle"
  BY <1>1, OthersIdle
<1>4. ASSUME Return(d)
      PROVE  RequestHoldsTree' /\ ResetProgress'
  <2>1. \A e \in Daemons : job'[e].step = "idle"
    BY <1>3, <1>4, IdleStep DEF Return
  <2>. QED  BY <2>1 DEF RequestHoldsTree, ResetProgress, ResetSteps
<1>5. ASSUME pipe' = pipe
      PROVE  \A i \in Slots : (~Live(i))'
  BY <1>2, <1>5 DEF Live
<1>6. ASSUME NEW s, Continue(d, s)
      PROVE  /\ job'[d] = [job[d] EXCEPT !.step = s]
             /\ job'[d].step = s
             /\ job'[d].patch = job[d].patch
             /\ job'[d].run = job[d].run
  <2>1. job[d] \in ProposeJob \cup VerdictJob
    BY <1>1 DEF Job
  <2>2. job'[d] = [job[d] EXCEPT !.step = s]
    BY <1>6 DEF Continue
  <2>. QED  BY <2>1, <2>2 DEF ProposeJob, VerdictJob
<1>7. job[d].step \in ResetSteps => lock = NoRun /\ job[d].patch \in Patches
  BY <1>1 DEF Job, ProposeJob, VerdictJob, EvidenceChain, RequestHoldsTree
<1>8. CASE GitCheckout(d)
  <2>1. CASE tree' = Checkout(tree) /\ Continue(d, "clean")
    <3>1. \A f \in Tracked \cup Ignored : tree'[f] = AtHead
      BY <2>1, ResetReachesHead DEF EvidenceChain, IgnoredUntouched
    <3>2. lock' = NoRun
      BY <1>7, <1>8 DEF GitCheckout, ResetSteps
    <3>3. job'[d].step = "clean"
      BY <1>6, <2>1
    <3>4. RequestHoldsTree' /\ ResetProgress'
      BY <1>3, <3>1, <3>2, <3>3, RequestsFollow
    <3>5. IgnoredUntouched'
      BY <3>1 DEF IgnoredUntouched
    <3>. QED  BY <1>5, <1>8, <3>4, <3>5, NoLiveStep DEF GitCheckout
  <2>2. CASE tree' = tree /\ Return(d)
    BY <1>4, <1>5, <1>8, <2>2, NoLiveStep DEF GitCheckout
  <2>. QED  BY <1>8, <2>1, <2>2 DEF GitCheckout
<1>9. CASE GitClean(d)
  <2>1. CASE tree' = Clean(tree) /\ Continue(d, "apply")
    <3>1. tree' = HeadTree
      BY <1>9, <2>1, ResetReachesHead
      DEF GitClean, EvidenceChain, ResetProgress, IgnoredUntouched
    <3>2. lock' = NoRun
      BY <1>7, <1>9 DEF GitClean, ResetSteps
    <3>3. job'[d].step = "apply"
      BY <1>6, <2>1
    <3>4. RequestHoldsTree' /\ ResetProgress'
      BY <1>3, <3>1, <3>2, <3>3, RequestsFollow
    <3>5. IgnoredUntouched'
      BY <1>7, <1>9, <3>1, PatchesIgnoreNothing
      DEF IgnoredUntouched, GitClean, ResetSteps
    <3>. QED  BY <1>5, <1>9, <3>4, <3>5, NoLiveStep DEF GitClean
  <2>2. CASE tree' = tree /\ Return(d)
    BY <1>4, <1>5, <1>9, <2>2, NoLiveStep DEF GitClean
  <2>. QED  BY <1>9, <2>1, <2>2 DEF GitClean
<1>10. CASE GitApply(d)
  <2>1. CASE /\ tree' = Apply(job[d].patch, tree)
             /\ \E s \in {"store", "open log"} : Continue(d, s)
    <3>1. tree' = Patched(job[d].patch)
      BY <1>7, <1>10, <2>1, ApplyToHead
      DEF GitApply, EvidenceChain, ResetProgress, ResetSteps
    <3>2. lock' = NoRun
      BY <1>7, <1>10 DEF GitApply, ResetSteps
    <3>3. RequestHoldsTree' /\ ResetProgress'
      BY <1>3, <1>6, <2>1, <3>1, <3>2, RequestsFollow
    <3>4. IgnoredUntouched'
      BY <1>7, <1>10, <3>1, PatchesIgnoreNothing
      DEF IgnoredUntouched, GitApply, ResetSteps
    <3>. QED  BY <1>5, <1>10, <3>3, <3>4, NoLiveStep DEF GitApply
  <2>2. CASE tree' = tree /\ Return(d)
    BY <1>4, <1>5, <1>10, <2>2, NoLiveStep DEF GitApply
  <2>3. CASE /\ \E W \in SUBSET Touches[job[d].patch] :
                   tree' = Write(job[d].patch, W, tree)
             /\ Return(d)
    <3>1. job[d].patch \in Patches
      BY <1>7, <1>10 DEF GitApply, ResetSteps
    <3>2. PICK W \in SUBSET Touches[job[d].patch] :
             tree' = Write(job[d].patch, W, tree)
      BY <2>3
    <3>3. \A f \in Ignored : f \in Files /\ f \notin W
      BY <3>1, <3>2, WorkspaceAssumption DEF NothingIgnored
    <3>4. IgnoredUntouched'
      BY <3>2, <3>3 DEF Write, IgnoredUntouched, EvidenceChain
    <3>. QED  BY <1>4, <1>5, <1>10, <2>3, <3>4, NoLiveStep DEF GitApply
  <2>. QED  BY <1>10, <2>1, <2>2, <2>3 DEF GitApply
<1>11. CASE StorePending(d)
  BY <1>4, <1>5, <1>11, NoLiveStep DEF StorePending
<1>12. CASE OpenLog(d)
  <2>1. CASE job' = [job EXCEPT ![d].step = "lock", ![d].note = IsolationNote]
    <3>1. job[d] \in VerdictJob
      BY <1>12, JobSteps DEF OpenLog
    <3>2. job'[d].step = "lock" /\ job'[d].patch = job[d].patch
      BY <2>1, <3>1 DEF VerdictJob
    <3>3. tree' = Patched(job[d].patch) /\ lock' = NoRun
      BY <1>12 DEF OpenLog, EvidenceChain, RequestHoldsTree, ResetProgress
    <3>4. RequestHoldsTree' /\ ResetProgress'
      BY <1>3, <3>2, <3>3, RequestsFollow
    <3>. QED  BY <1>5, <1>12, <3>4, NoLiveStep DEF OpenLog
  <2>2. CASE Return(d)
    BY <1>4, <1>5, <1>12, <2>2, NoLiveStep DEF OpenLog
  <2>. QED  BY <1>12, <2>1, <2>2 DEF OpenLog
<1>13. CASE WriteLock(d)
  <2>1. tree' = Patched(job[d].patch)
    BY <1>13 DEF WriteLock, EvidenceChain, ResetProgress
  <2>2. lock' = job[d].run /\ Continue(d, "spawn")
    BY <1>13 DEF WriteLock, LockContent
  <2>3. /\ job'[d].step = "spawn"
        /\ job'[d].patch = job[d].patch
        /\ job'[d].run = job[d].run
    BY <1>6, <2>2
  <2>4. RequestHoldsTree' /\ ResetProgress'
    BY <1>3, <2>1, <2>2, <2>3, RequestsFollow DEF ResetSteps
  <2>. QED  BY <1>5, <1>13, <2>4, NoLiveStep DEF WriteLock
<1>14. CASE WriteLockFails(d)
  BY <1>4, <1>5, <1>14, NoLiveStep DEF WriteLockFails
<1>15. CASE SpawnFails(d)
  BY <1>4, <1>5, <1>15, NoLiveStep DEF SpawnFails
<1>16. CASE DaemonCrash(d)
  BY <1>4, <1>5, <1>16, NoLiveStep DEF DaemonCrash
<1>17. CASE SpawnPipeline(d)
  <2>1. PICK i \in Slots :
            pipe' = [pipe EXCEPT ![i] = [NoPipe EXCEPT
                       !.stage = "wrapper", !.run = job[d].run,
                       !.patch = job[d].patch, !.note = job[d].note]]
    BY <1>17 DEF SpawnPipeline
  <2>2. /\ pipe'[i].stage = "wrapper"
        /\ pipe'[i].run = job[d].run
        /\ pipe'[i].patch = job[d].patch
        /\ pipe'[i].san = Missing
        /\ ~pipe'[i].stashed /\ ~pipe'[i].misread
        /\ \A j \in Slots \ {i} : pipe'[j] = pipe[j]
    BY <2>1 DEF NoPipe
  <2>3. \A j \in Slots \ {i} : (~Live(j))'
    BY <1>2, <2>2 DEF Live
  <2>4. tree' = Patched(job[d].patch) /\ lock' = job[d].run
    BY <1>17 DEF SpawnPipeline, EvidenceChain, RequestHoldsTree, ResetProgress
  <2>5. \A e \in Daemons : job'[e] = Idle
    BY <1>3, <1>17 DEF SpawnPipeline, Return
  <2>6. PipelineHoldsLock'
    BY <2>2, <2>3, <2>4, <2>5 DEF PipelineHoldsLock
  <2>7. StageFacts(i)'
    BY <2>2, <2>4
    DEF StageFacts, TreeHoldsPatch, NothingStashed, StashHoldsPatch,
        BaselineIsPristine, CandidateIsBuilt, VerdictHasEvidence, Inner
  <2>8. \A j \in Slots \ {i} : StageFacts(j)'
    BY <2>3 DEF Live, Inner, StageFacts, TreeHoldsPatch, StashHoldsPatch,
                BaselineIsPristine, VerdictHasEvidence, Tests
  <2>9. RequestHoldsTree' /\ ResetProgress'
    BY <1>4, <1>17 DEF SpawnPipeline
  <2>10. CandidatesAreTheirPatches' /\ RowIsAboutItsPatch'
    BY <1>17 DEF SpawnPipeline, EvidenceChain, CandidatesAreTheirPatches,
                 RowIsAboutItsPatch
  <2>11. IgnoredUntouched'
    BY <1>17 DEF SpawnPipeline, EvidenceChain, IgnoredUntouched
  <2>. QED  BY <2>6, <2>7, <2>8, <2>9, <2>10, <2>11 DEF EvidenceChain
<1>. QED
  BY <1>8, <1>9, <1>10, <1>11, <1>12, <1>13, <1>14, <1>15, <1>16, <1>17
  DEF HandlerStep

\* A request is accepted only when no pipeline is live.
LEMMA AcceptKeepsChain ==
    ASSUME RequestsTakeTurns', TypeOK, EvidenceChain, NEW d \in Daemons,
           \/ \E p \in Patches : ProposePatch(d, p)
           \/ \E p \in Patches, r \in RunIds : RunVerdict(d, p, r)
    PROVE  EvidenceChain'
<1>1. lock = NoRun /\ UNCHANGED <<tree, lock, pipe, candBin, ledger>>
  BY DEF ProposePatch, RunVerdict, NoRunningPipeline
<1>2. job'[d].step = "checkout"
  BY DEF ProposePatch, RunVerdict, Idle, TypeOK
<1>3. \A i \in Slots : (~Live(i))'
  BY <1>1, FreeLock DEF Live
<1>4. \A e \in Daemons \ {d} : job'[e].step = "idle"
  BY <1>2, IdleStep DEF RequestsTakeTurns, Idle
<1>5. RequestHoldsTree' /\ ResetProgress'
  BY <1>1, <1>2, <1>4, RequestsFollow DEF ResetSteps
<1>. QED  BY <1>1, <1>3, <1>5, NoLiveStep

-----------------------------------------------------------------------------
(***************************************************************************)
(* Pipelines.                                                               *)
(***************************************************************************)

\* What a change of stage keeps of a pipeline.
LEMMA EnterFields ==
    ASSUME TypeOK, NEW i \in Slots, Live(i), NEW s, Enter(i, s)
    PROVE  /\ pipe'[i].stage = s
           /\ pipe'[i].run = pipe[i].run
           /\ pipe'[i].patch = pipe[i].patch
           /\ pipe'[i].stashed = pipe[i].stashed
           /\ pipe'[i].misread = pipe[i].misread
           /\ pipe'[i].verdict = pipe[i].verdict
           /\ pipe'[i].san = pipe[i].san
           /\ pipe'[i].failed = pipe[i].failed
           /\ \A j \in Slots \ {i} : pipe'[j] = pipe[j]
<1>1. pipe[i] \in LaunchedPipe
  BY LivePipeline
<1>2. pipe'[i] = [pipe[i] EXCEPT !.stage = s]
  BY DEF Enter, TypeOK
<1>3. \A j \in Slots \ {i} : pipe'[j] = pipe[j]
  BY DEF Enter, TypeOK
<1>. QED  BY <1>1, <1>2, <1>3 DEF LaunchedPipe

\* A pipeline that fails gives up everything but the lock.
LEMMA FailStep ==
    ASSUME TypeOK, EvidenceChain, NEW i \in Slots, Live(i), Fail(i),
           UNCHANGED <<job, lock, candBin, ledger>>,
           tree' = tree \/ IgnoredUntouched'
    PROVE  EvidenceChain'
<1>. USE DEF NothingStashed, CandidateIsBuilt, BaselineOf
<1>1. pipe[i] \in LaunchedPipe
  BY LivePipeline
<1>2. pipe'[i] = [pipe[i] EXCEPT !.stage = "account", !.failed = TRUE]
  BY DEF Fail, TypeOK
<1>3. pipe'[i].stage = "account" /\ pipe'[i].run = pipe[i].run
  BY <1>1, <1>2 DEF LaunchedPipe
<1>4. \A j \in Slots \ {i} : pipe'[j] = pipe[j]
  BY DEF Fail, TypeOK
<1>5. lock' = pipe'[i].run
  BY <1>3 DEF EvidenceChain, PipelineHoldsLock
<1>6. StageFacts(i)'
  BY <1>3 DEF StageFacts, TreeHoldsPatch, StashHoldsPatch,
              BaselineIsPristine, VerdictHasEvidence, Tests, Inner
<1>7. CandidatesAreTheirPatches' /\ RowIsAboutItsPatch'
  BY DEF EvidenceChain, CandidatesAreTheirPatches, RowIsAboutItsPatch
<1>. QED  BY <1>4, <1>5, <1>6, <1>7, LiveStep

\* A row is made of what the pipeline built and measured.
LEMMA RowHasEvidence ==
    ASSUME NothingIgnored, TypeOK, EvidenceChain, NEW i \in Slots,
           At(i, "record")
    PROVE  LET row == RowOf(i)
           IN  /\ \/ row.cand = Patched(row.patch)
                  \/ /\ row.cand = Missing
                     /\ SplitBuild
                     /\ row.verdict = "rejected-gate"
               /\ row.base = BaselineOf(row)
               /\ row.san \in {Missing, Patched(row.patch)}
               /\ row.verdict = "accepted" => row.san # Missing
<1>1. Live(i)
  BY DEF At, Live, Inner
<1>2. pipe[i].patch \in Patches
  BY <1>1, LivePipeline DEF LaunchedPipe
<1>3. candBin[pipe[i].patch] \in {Missing, Patched(pipe[i].patch)}
  BY <1>2 DEF EvidenceChain, CandidatesAreTheirPatches
<1>4. StageFacts(i)
  BY DEF EvidenceChain
<1>5. /\ baseBin = BaselineOf(pipe[i])
      /\ pipe[i].san \in {Missing, Patched(pipe[i].patch)}
      /\ pipe[i].verdict # "rejected-gate"
            => candBin[pipe[i].patch] # Missing
      /\ candBin[pipe[i].patch] # Missing \/ SplitBuild
      /\ pipe[i].verdict = "accepted" => pipe[i].san # Missing
  BY <1>4 DEF StageFacts, BaselineIsPristine, VerdictHasEvidence,
              CandidateIsBuilt, At, Inner
<1>. QED  BY <1>3, <1>5 DEF RowOf, BaselineOf

\* Every stage leaves the next one what it counts on.
LEMMA PipelineKeepsChain ==
    ASSUME NothingIgnored, TypeOK, EvidenceChain, NEW i \in Slots,
           PipelineStep(i) \/ Kill(i)
    PROVE  EvidenceChain'
<1>. USE DEF NothingStashed, CandidateIsBuilt, BaselineOf
<1>1. CASE MarkFailed(i)
  <2>1. /\ \A j \in Slots \ {i} : pipe'[j] = pipe[j]
        /\ pipe'[i].stage = "done"
    <3>1. pipe[i] \in LaunchedPipe
      BY <1>1, IsLaunched DEF MarkFailed, At, TypeOK
    <3>. QED  BY <1>1, <3>1 DEF MarkFailed, Enter, TypeOK, LaunchedPipe
  <2>2. (~Live(i))'
    BY <2>1 DEF Live, Inner
  <2>. QED  BY <1>1, <2>1, <2>2, ElsewhereStep DEF MarkFailed
<1>2. CASE ~MarkFailed(i)
  <2>. USE DEF At
  <2>1. Live(i)
    BY <1>2
    DEF PipelineStep, Kill, Live, Inner, WrapperExecs, WrapperRefuses,
        BuildCandidate, BuildCandidateFails, BuildCandidateFallsThrough,
        StashPatch, BuildBaseline, PopStash, RunGates, Bench, Sanitize,
        RecordRow, ExitZero, ReleaseLock
  <2>2. pipe[i] \in LaunchedPipe
    BY <2>1, LivePipeline
  <2>3. lock = pipe[i].run /\ StageFacts(i)
    BY <2>1 DEF EvidenceChain, PipelineHoldsLock
  <2>4. CandidatesAreTheirPatches /\ RowIsAboutItsPatch
    BY DEF EvidenceChain
  <2>5. pipe[i].patch \in Patches
    BY <2>2 DEF LaunchedPipe
  <2>6. ASSUME UNCHANGED candBin PROVE CandidatesAreTheirPatches'
    BY <2>4, <2>6 DEF CandidatesAreTheirPatches
  <2>7. ASSUME UNCHANGED ledger PROVE RowIsAboutItsPatch'
    BY <2>4, <2>7 DEF RowIsAboutItsPatch
  <2>8. ASSUME Fail(i), UNCHANGED <<job, lock, candBin, ledger>>,
               tree' = tree \/ IgnoredUntouched'
        PROVE  EvidenceChain'
    BY <2>1, <2>8, FailStep
  <2>9. CASE WrapperExecs(i)
    <3>1. pipe'[i] = [pipe[i] EXCEPT !.stage = "build",
               !.isolated = env.wrapper = "no-net.sh" /\ netns]
      BY <1>2, <2>9 DEF WrapperExecs, TypeOK
    <3>2. /\ pipe'[i].stage = "build"
          /\ pipe'[i].run = pipe[i].run
          /\ pipe'[i].patch = pipe[i].patch
          /\ pipe'[i].san = pipe[i].san
          /\ pipe'[i].stashed = pipe[i].stashed
          /\ pipe'[i].misread = pipe[i].misread
      BY <2>2, <3>1 DEF LaunchedPipe
    <3>3. \A j \in Slots \ {i} : pipe'[j] = pipe[j]
      BY <2>9 DEF WrapperExecs, TypeOK
    <3>4. StageFacts(i)'
      BY <2>3, <2>9, <3>2
      DEF WrapperExecs, StageFacts, TreeHoldsPatch, StashHoldsPatch,
          BaselineIsPristine, VerdictHasEvidence, Tests
    <3>. QED
      BY <2>1, <2>6, <2>7, <2>9, <3>2, <3>3, <3>4, LiveStep DEF WrapperExecs
  <2>10. CASE WrapperRefuses(i)
    BY <2>8, <2>10 DEF WrapperRefuses
  <2>11. CASE BuildCandidate(i)
    <3>1. tree = Patched(pipe[i].patch)
      BY <2>3, <2>11
      DEF BuildCandidate, StageFacts, TreeHoldsPatch, Tests
    <3>2. CandidatesAreTheirPatches'
      BY <2>4, <2>11, <3>1
      DEF BuildCandidate, CandidatesAreTheirPatches, TypeOK
    <3>3. Enter(i, "baseline")
      BY <2>11 DEF BuildCandidate
    <3>4. /\ pipe'[i].stage = "baseline"
          /\ pipe'[i].patch = pipe[i].patch
          /\ pipe'[i].verdict = pipe[i].verdict
          /\ pipe'[i].san = pipe[i].san
          /\ pipe'[i].stashed = pipe[i].stashed
          /\ pipe'[i].misread = pipe[i].misread
      BY <2>1, <3>3, EnterFields
    <3>6. candBin'[pipe[i].patch] # Missing
      BY <2>5, <2>11, <3>1, PatchIsDirty DEF BuildCandidate, TypeOK
    <3>5. StageFacts(i)'
      BY <2>3, <2>11, <3>4, <3>6
      DEF BuildCandidate, StageFacts, TreeHoldsPatch, StashHoldsPatch,
          BaselineIsPristine, VerdictHasEvidence, Tests, Inner
    <3>. QED
      BY <2>1, <2>3, <2>7, <2>11, <3>2, <3>3, <3>5, EnterFields, LiveStep
      DEF BuildCandidate
  <2>12. CASE BuildCandidateFails(i)
    BY <2>8, <2>12 DEF BuildCandidateFails
  <2>13. CASE BuildCandidateFallsThrough(i)
    <3>1. Enter(i, "baseline")
      BY <2>13 DEF BuildCandidateFallsThrough
    <3>2. StageFacts(i)'
      BY <2>1, <2>3, <2>13, <3>1, EnterFields
      DEF BuildCandidateFallsThrough, StageFacts, TreeHoldsPatch,
          StashHoldsPatch, BaselineIsPristine, VerdictHasEvidence, Tests, Inner
    <3>. QED
      BY <2>1, <2>3, <2>6, <2>7, <2>13, <3>1, <3>2, EnterFields, LiveStep
      DEF BuildCandidateFallsThrough
  <2>14. CASE StashPatch(i)
    <3>1. tree = Patched(pipe[i].patch) /\ Dirty(tree)
      BY <2>3, <2>5, <2>14, PatchIsDirty
      DEF StashPatch, Misread, StageFacts, TreeHoldsPatch, Tests
    <3>2. CASE /\ stash' = Append(stash, tree)
               /\ tree' = Stashed(tree)
               /\ pipe' = [pipe EXCEPT ![i].stage = "build baseline",
                                       ![i].stashed = TRUE]
      <4>1. pipe'[i] = [pipe[i] EXCEPT !.stage = "build baseline",
                                       !.stashed = TRUE]
        BY <3>2 DEF TypeOK
      <4>2. /\ pipe'[i].stage = "build baseline"
            /\ pipe'[i].stashed
            /\ pipe'[i].misread = pipe[i].misread
            /\ pipe'[i].run = pipe[i].run
            /\ pipe'[i].patch = pipe[i].patch
            /\ pipe'[i].san = pipe[i].san
        BY <2>2, <4>1 DEF LaunchedPipe
      <4>3. tree' = HeadTree
        BY <3>2, StashRoundTrip DEF TypeOK, EvidenceChain, IgnoredUntouched
      <4>4. stash' # <<>> /\ stash'[Len(stash')] = Patched(pipe[i].patch)
        <5>1. stash \in Seq(Tree) /\ tree \in Tree
          BY DEF TypeOK
        <5>2. Len(stash) \in Nat
          BY <5>1, LenProperties
        <5>3. /\ Len(stash') = Len(stash) + 1
              /\ stash'[Len(stash) + 1] = tree
          BY <3>2, <5>1, AppendProperties
        <5>. QED  BY <3>1, <5>2, <5>3, EmptySeq
      <4>5. StageFacts(i)'
        BY <2>3, <2>14, <4>2, <4>3, <4>4
        DEF StashPatch, StageFacts, TreeHoldsPatch, StashHoldsPatch,
            BaselineIsPristine, VerdictHasEvidence, Tests, Inner
      <4>6. \A j \in Slots \ {i} : pipe'[j] = pipe[j]
        BY <3>2 DEF TypeOK
      <4>7. IgnoredUntouched'
        BY <2>5, <4>3, PatchesIgnoreNothing DEF IgnoredUntouched
      <4>. QED
        BY <2>1, <2>3, <2>6, <2>7, <2>14, <4>2, <4>5, <4>6, <4>7, LiveStep
        DEF StashPatch
    <3>3. CASE Fail(i) /\ UNCHANGED <<tree, stash>>
      BY <2>8, <2>14, <3>3 DEF StashPatch
    <3>4. CASE Misread(i)
      <4>1. pipe'[i] = [pipe[i] EXCEPT !.stage = "build baseline",
                                       !.misread = TRUE]
        BY <3>4 DEF Misread, TypeOK
      <4>2. /\ pipe'[i].stage = "build baseline"
            /\ pipe'[i].misread
            /\ pipe'[i].stashed = pipe[i].stashed
            /\ pipe'[i].run = pipe[i].run
            /\ pipe'[i].patch = pipe[i].patch
            /\ pipe'[i].san = pipe[i].san
        BY <2>2, <4>1 DEF LaunchedPipe
      <4>3. StageFacts(i)'
        BY <2>3, <2>14, <3>1, <3>4, <4>2
        DEF StashPatch, Misread, StageFacts, TreeHoldsPatch, StashHoldsPatch,
            BaselineIsPristine, VerdictHasEvidence, Tests, Inner
      <4>4. \A j \in Slots \ {i} : pipe'[j] = pipe[j]
        BY <3>4 DEF Misread, TypeOK
      <4>. QED
        BY <2>1, <2>3, <2>6, <2>7, <2>14, <3>4, <4>2, <4>3, <4>4, LiveStep
        DEF StashPatch, Misread
    <3>. QED  BY <2>14, <3>1, <3>2, <3>3, <3>4 DEF StashPatch
  <2>15. CASE BuildBaseline(i)
    <3>1. /\ pipe[i].stage = "build baseline"
          /\ tree = BaselineOf(pipe[i])
      BY <2>3, <2>15 DEF BuildBaseline, StageFacts, StashHoldsPatch
    <3>2. /\ pipe'[i].stage = "pop"
          /\ pipe'[i].run = pipe[i].run
          /\ pipe'[i].patch = pipe[i].patch
          /\ pipe'[i].stashed = pipe[i].stashed
          /\ pipe'[i].misread = pipe[i].misread
          /\ pipe'[i].san = pipe[i].san
          /\ pipe'[i].failed \/ baseBin' = tree
          /\ \A j \in Slots \ {i} : pipe'[j] = pipe[j]
      <4>1. CASE Enter(i, "pop") /\ baseBin' = tree
        BY <2>1, <4>1, EnterFields
      <4>2. CASE pipe' = [pipe EXCEPT ![i].stage = "pop", ![i].failed = TRUE]
        <5>1. pipe'[i] = [pipe[i] EXCEPT !.stage = "pop", !.failed = TRUE]
          BY <4>2 DEF TypeOK
        <5>2. \A j \in Slots \ {i} : pipe'[j] = pipe[j]
          BY <4>2 DEF TypeOK
        <5>. QED  BY <2>2, <5>1, <5>2 DEF LaunchedPipe
      <4>. QED  BY <2>15, <4>1, <4>2 DEF BuildBaseline
    <3>3. StageFacts(i)'
      BY <2>3, <2>15, <3>1, <3>2
      DEF BuildBaseline, StageFacts, TreeHoldsPatch, StashHoldsPatch,
          BaselineIsPristine, VerdictHasEvidence, Tests, Inner
    <3>. QED
      BY <2>1, <2>3, <2>6, <2>7, <2>15, <3>2, <3>3, LiveStep
      DEF BuildBaseline
  <2>16. CASE PopStash(i)
    <3>. DEFINE p == pipe[i].patch
    <3>5. Patched(p) \in Tree /\ \A f \in Ignored : Patched(p)[f] = AtHead
      BY <2>5, TreeTypes, PatchesIgnoreNothing
    <3>6. Unstashed(Patched(p), HeadTree) = Patched(p)
      BY <3>5, StashRoundTrip
    <3>7. ASSUME tree' = Patched(p) PROVE IgnoredUntouched'
      BY <3>5, <3>7 DEF IgnoredUntouched
    <3>1. /\ pipe[i].stage = "pop"
          /\ pipe[i].stashed = ~pipe[i].misread
          /\ pipe[i].misread => tree = Patched(p)
          /\ ~pipe[i].misread =>
                 stash[Len(stash)] = Patched(p) /\ tree = HeadTree
          /\ ~pipe[i].failed => baseBin = BaselineOf(pipe[i])
      BY <2>2, <2>3, <2>16
      DEF PopStash, StageFacts, StashHoldsPatch, BaselineIsPristine,
          LaunchedPipe
    <3>2. CASE /\ Enter(i, "gates")
               /\ ~pipe[i].failed
               /\ \/ /\ pipe[i].stashed
                     /\ tree' = Unstashed(stash[Len(stash)], tree)
                  \/ ~pipe[i].stashed /\ tree' = tree
      <4>1. tree' = Patched(pipe[i].patch)
        BY <3>1, <3>2, <3>6
      <4>2. /\ pipe'[i].stage = "gates"
            /\ pipe'[i].patch = pipe[i].patch
            /\ pipe'[i].verdict = pipe[i].verdict
            /\ pipe'[i].san = pipe[i].san
            /\ pipe'[i].misread = pipe[i].misread
        BY <2>1, <3>2, EnterFields
      <4>3. StageFacts(i)'
        BY <2>3, <2>16, <3>1, <3>2, <4>1, <4>2
        DEF PopStash, StageFacts, TreeHoldsPatch, StashHoldsPatch,
            BaselineIsPristine, VerdictHasEvidence, Tests, Inner
      <4>. QED
        BY <2>1, <2>3, <2>6, <2>7, <2>16, <3>2, <3>7, <4>1, <4>3,
           EnterFields, LiveStep DEF PopStash
    <3>3. CASE Fail(i)
      BY <2>8, <2>16, <3>1, <3>3, <3>6, <3>7 DEF PopStash
    <3>. QED  BY <2>16, <3>1, <3>2, <3>3 DEF PopStash
  <2>17. CASE RunGates(i)
    <3>1. /\ baseBin = BaselineOf(pipe[i])
          /\ tree = Patched(pipe[i].patch)
          /\ candBin[pipe[i].patch] # Missing \/ SplitBuild
      BY <2>3, <2>17
      DEF RunGates, StageFacts, BaselineIsPristine, TreeHoldsPatch, Tests,
          Inner
    <3>2. CASE pipe' = [pipe EXCEPT ![i].stage = "record",
                                    ![i].verdict = "rejected-gate"]
      <4>1. pipe'[i] = [pipe[i] EXCEPT !.stage = "record",
                                       !.verdict = "rejected-gate"]
        BY <3>2 DEF TypeOK
      <4>2. /\ pipe'[i].stage = "record"
            /\ pipe'[i].verdict = "rejected-gate"
            /\ pipe'[i].run = pipe[i].run
            /\ pipe'[i].patch = pipe[i].patch
            /\ pipe'[i].san = pipe[i].san
            /\ pipe'[i].misread = pipe[i].misread
        BY <2>2, <4>1 DEF LaunchedPipe
      <4>3. \A j \in Slots \ {i} : pipe'[j] = pipe[j]
        BY <3>2 DEF TypeOK
      <4>4. StageFacts(i)'
        BY <2>3, <2>17, <3>1, <4>2
        DEF RunGates, StageFacts, TreeHoldsPatch, StashHoldsPatch,
            BaselineIsPristine, VerdictHasEvidence, Tests, Inner
      <4>. QED
        BY <2>1, <2>3, <2>6, <2>7, <2>17, <4>2, <4>3, <4>4, LiveStep
        DEF RunGates
    <3>3. CASE candBin[pipe[i].patch] # Missing /\ Enter(i, "bench")
      <4>1. /\ pipe'[i].stage = "bench"
            /\ pipe'[i].patch = pipe[i].patch
            /\ pipe'[i].verdict = pipe[i].verdict
            /\ pipe'[i].san = pipe[i].san
            /\ pipe'[i].misread = pipe[i].misread
        BY <2>1, <3>3, EnterFields
      <4>2. StageFacts(i)'
        BY <2>3, <2>17, <3>1, <3>3, <4>1
        DEF RunGates, StageFacts, TreeHoldsPatch, StashHoldsPatch,
            BaselineIsPristine, VerdictHasEvidence, Tests, Inner
      <4>. QED
        BY <2>1, <2>3, <2>6, <2>7, <2>17, <3>3, <4>2, EnterFields, LiveStep
        DEF RunGates
    <3>4. CASE Fail(i)
      BY <2>8, <2>17, <3>4 DEF RunGates
    <3>. QED  BY <2>17, <3>2, <3>3, <3>4 DEF RunGates
  <2>18. CASE Bench(i)
    <3>1. /\ baseBin = BaselineOf(pipe[i])
          /\ tree = Patched(pipe[i].patch)
          /\ candBin[pipe[i].patch] # Missing
      BY <2>3, <2>18
      DEF Bench, StageFacts, BaselineIsPristine, TreeHoldsPatch, Tests,
          VerdictHasEvidence
    <3>2. ASSUME NEW s \in {"record", "sanitize"},
                 NEW v \in {"rejected-bench", "accepted"},
                 s = "record" => v = "rejected-bench",
                 pipe' = [pipe EXCEPT ![i].stage = s, ![i].verdict = v]
          PROVE  EvidenceChain'
      <4>1. pipe'[i] = [pipe[i] EXCEPT !.stage = s, !.verdict = v]
        BY <3>2 DEF TypeOK
      <4>2. /\ pipe'[i].stage = s
            /\ pipe'[i].verdict = v
            /\ pipe'[i].run = pipe[i].run
            /\ pipe'[i].patch = pipe[i].patch
            /\ pipe'[i].san = pipe[i].san
            /\ pipe'[i].misread = pipe[i].misread
        BY <2>2, <4>1 DEF LaunchedPipe
      <4>3. \A j \in Slots \ {i} : pipe'[j] = pipe[j]
        BY <3>2 DEF TypeOK
      <4>4. StageFacts(i)'
        BY <2>3, <2>18, <3>1, <3>2, <4>2
        DEF Bench, StageFacts, TreeHoldsPatch, StashHoldsPatch,
            BaselineIsPristine, VerdictHasEvidence, Tests, Inner
      <4>. QED
        BY <2>1, <2>3, <2>6, <2>7, <2>18, <4>2, <4>3, <4>4, LiveStep
        DEF Bench
    <3>3. CASE Fail(i)
      BY <2>8, <2>18, <3>3 DEF Bench
    <3>. QED  BY <2>18, <3>2, <3>3 DEF Bench
  <2>19. CASE Sanitize(i)
    <3>1. /\ baseBin = BaselineOf(pipe[i])
          /\ tree = Patched(pipe[i].patch)
          /\ candBin[pipe[i].patch] # Missing
          /\ pipe[i].san \in {Missing, tree}
          /\ tree # Missing
      BY <2>3, <2>5, <2>19, PatchIsDirty
      DEF Sanitize, StageFacts, BaselineIsPristine, TreeHoldsPatch, Tests,
          VerdictHasEvidence, Inner
    <3>2. ASSUME NEW v \in {"accepted", "needs-human-review"},
                 NEW b \in {pipe[i].san, tree},
                 v = "accepted" => b = tree,
                 pipe'[i] = [pipe[i] EXCEPT !.stage = "record",
                                            !.verdict = v, !.san = b],
                 \A j \in Slots \ {i} : pipe'[j] = pipe[j]
          PROVE  EvidenceChain'
      <4>1. /\ pipe'[i].stage = "record"
            /\ pipe'[i].verdict = v
            /\ pipe'[i].san = b
            /\ pipe'[i].misread = pipe[i].misread
            /\ pipe'[i].run = pipe[i].run
            /\ pipe'[i].patch = pipe[i].patch
        BY <2>2, <3>2 DEF LaunchedPipe
      <4>2. StageFacts(i)'
        BY <2>3, <2>19, <3>1, <3>2, <4>1
        DEF Sanitize, StageFacts, TreeHoldsPatch, StashHoldsPatch,
            BaselineIsPristine, VerdictHasEvidence, Tests, Inner
      <4>. QED
        BY <2>1, <2>3, <2>6, <2>7, <2>19, <3>2, <4>1, <4>2, LiveStep
        DEF Sanitize
    <3>3. CASE \E v \in {"accepted", "needs-human-review"} :
                  pipe' = [pipe EXCEPT ![i].stage = "record",
                                       ![i].verdict = v, ![i].san = tree]
      <4>1. PICK v \in {"accepted", "needs-human-review"} :
                pipe' = [pipe EXCEPT ![i].stage = "record",
                                     ![i].verdict = v, ![i].san = tree]
        BY <3>3
      <4>2. /\ pipe'[i] = [pipe[i] EXCEPT !.stage = "record",
                                          !.verdict = v, !.san = tree]
            /\ \A j \in Slots \ {i} : pipe'[j] = pipe[j]
        BY <4>1 DEF TypeOK
      <4>. QED  BY <3>2, <4>2
    <3>4. CASE pipe' = [pipe EXCEPT ![i].stage = "record",
                                    ![i].verdict = "needs-human-review"]
      <4>1. /\ pipe'[i] = [pipe[i] EXCEPT !.stage = "record",
                               !.verdict = "needs-human-review",
                               !.san = pipe[i].san]
            /\ \A j \in Slots \ {i} : pipe'[j] = pipe[j]
        BY <2>2, <3>4 DEF TypeOK, LaunchedPipe
      <4>. QED  BY <3>2, <4>1
    <3>5. CASE Fail(i)
      BY <2>8, <2>19, <3>5 DEF Sanitize
    <3>. QED  BY <2>19, <3>3, <3>4, <3>5 DEF Sanitize
  <2>20. CASE RecordRow(i)
    <3>1. CASE /\ ledger' = [ledger EXCEPT ![pipe[i].run] = RowOf(i)]
               /\ Enter(i, "exit")
      <4>1. /\ pipe'[i].stage = "exit"
           /\ pipe'[i].patch = pipe[i].patch
           /\ pipe'[i].verdict = pipe[i].verdict
           /\ pipe'[i].san = pipe[i].san
        BY <2>1, <3>1, EnterFields
      <4>2. RowIsAboutItsPatch'
        <5>1. \A r \in RunIds : ledger'[r] = ledger[r] \/ ledger'[r] = RowOf(i)
          BY <3>1 DEF TypeOK
        <5>2. At(i, "record")
          BY <2>20 DEF RecordRow
        <5>. QED
          BY <2>4, <5>1, <5>2, RowHasEvidence DEF RowIsAboutItsPatch
      <4>3. StageFacts(i)'
        BY <2>3, <2>20, <3>1, <4>1
        DEF RecordRow, StageFacts, TreeHoldsPatch, StashHoldsPatch,
            BaselineIsPristine, VerdictHasEvidence, Tests, Inner
      <4>. QED
        BY <2>1, <2>3, <2>6, <2>20, <3>1, <4>2, <4>3, EnterFields, LiveStep
        DEF RecordRow
    <3>2. CASE ledger' = ledger /\ Fail(i)
      BY <2>8, <2>20, <3>2 DEF RecordRow
    <3>. QED  BY <2>20, <3>1, <3>2 DEF RecordRow
  <2>21. CASE ExitZero(i)
    <3>1. Enter(i, "account")
      BY <2>21 DEF ExitZero
    <3>2. /\ pipe'[i].stage = "account"
         /\ pipe'[i].patch = pipe[i].patch
         /\ pipe'[i].verdict = pipe[i].verdict
         /\ pipe'[i].san = pipe[i].san
      BY <2>1, <3>1, EnterFields
    <3>3. StageFacts(i)'
      BY <3>2
      DEF StageFacts, TreeHoldsPatch, StashHoldsPatch, BaselineIsPristine,
          VerdictHasEvidence, Tests, Inner
    <3>. QED
      BY <2>1, <2>3, <2>6, <2>7, <2>21, <3>1, <3>3, EnterFields, LiveStep
      DEF ExitZero
  <2>22. CASE ReleaseLock(i)
    <3>1. /\ pipe'[i] = Ended(i, IF pipe[i].failed THEN "mark" ELSE "done")
          /\ \A j \in Slots \ {i} : pipe'[j] = pipe[j]
      BY <2>22 DEF ReleaseLock, TypeOK
    <3>2. pipe'[i].stage \in {"mark", "done"}
      BY <3>1 DEF Ended, NoPipe
    <3>3. (~Live(i))'
      BY <3>2 DEF Live, Inner
    <3>4. StageFacts(i)'
      BY <3>2
      DEF StageFacts, TreeHoldsPatch, StashHoldsPatch, BaselineIsPristine,
          VerdictHasEvidence, Tests, Inner
    <3>. QED
      BY <2>1, <2>6, <2>7, <2>22, <3>1, <3>3, <3>4, LiveStep DEF ReleaseLock
  <2>23. CASE Kill(i)
    BY <2>8, <2>23 DEF Kill
  <2>. QED
    BY <1>2, <2>9, <2>10, <2>11, <2>12, <2>13, <2>14, <2>15, <2>16, <2>17,
       <2>18, <2>19, <2>20, <2>21, <2>22, <2>23 DEF PipelineStep
<1>. QED  BY <1>1, <1>2

-----------------------------------------------------------------------------
(***************************************************************************)
(* The theorems.                                                            *)
(***************************************************************************)

LEMMA ChainInit ==
    ASSUME Init
    PROVE  EvidenceChain
<1>. USE DEF NothingStashed, CandidateIsBuilt, BaselineOf
<1>1. \A i \in Slots : pipe[i].stage = "free"
  BY DEF Init, NoPipe
<1>2. \A d \in Daemons : job[d].step = "idle"
  BY IdleStep DEF Init
<1>3. PipelineHoldsLock
  BY <1>1 DEF PipelineHoldsLock, Live, Inner
<1>4. RequestHoldsTree /\ ResetProgress
  BY <1>2 DEF RequestHoldsTree, ResetProgress, ResetSteps
<1>5. \A i \in Slots : StageFacts(i)
  BY <1>1 DEF StageFacts, TreeHoldsPatch, StashHoldsPatch,
              BaselineIsPristine, VerdictHasEvidence, Tests, Inner
<1>6. CandidatesAreTheirPatches /\ RowIsAboutItsPatch
  BY DEF Init, CandidatesAreTheirPatches, RowIsAboutItsPatch
<1>7. IgnoredUntouched
  BY WorkspaceAssumption DEF Init, HeadTree, IgnoredUntouched
<1>. QED  BY <1>3, <1>4, <1>5, <1>6, <1>7 DEF EvidenceChain

LEMMA ChainStep ==
    ASSUME RequestsTakeTurns, RequestsTakeTurns', NothingIgnored, TypeOK,
           EvidenceChain, [Next]_vars
    PROVE  EvidenceChain'
<1>1. CASE \E d \in Daemons, p \in Patches : ProposePatch(d, p)
  BY <1>1, AcceptKeepsChain
<1>2. CASE \E d \in Daemons, p \in Patches, r \in RunIds :
              RunVerdict(d, p, r)
  BY <1>2, AcceptKeepsChain
<1>3. CASE \E d \in Daemons : HandlerStep(d) \/ DaemonCrash(d)
  BY <1>3, RequestKeepsChain
<1>4. CASE \E i \in Slots : PipelineStep(i) \/ Kill(i)
  BY <1>4, PipelineKeepsChain
<1>5. CASE \/ \E c \in Pollers, r \in RunIds : ReadVerdict(c, r)
           \/ \E c \in Pollers : PollStep(c)
           \/ \E i \in Slots : Prints(i)
           \/ NetnsChanges
           \/ UNCHANGED vars
  <2>1. UNCHANGED <<tree, stash, lock, candBin, baseBin, ledger, job, pipe>>
    BY <1>5 DEF ReadVerdict, PollStep, PollLedger, PollLog, Prints,
                NetnsChanges, vars
  <2>. QED  BY <2>1, ElsewhereStep
<1>6. CASE RemoveStaleLock
  <2>1. \A i \in Slots : (~Live(i))'
    BY <1>6 DEF RemoveStaleLock, Live
  <2>2. RequestHoldsTree' /\ ResetProgress'
    BY <1>6
    DEF RemoveStaleLock, EvidenceChain, RequestHoldsTree, ResetProgress
  <2>. QED  BY <1>6, <2>1, <2>2, NoLiveStep DEF RemoveStaleLock
<1>7. CASE HostCrash
  <2>1. ASSUME NEW i \in Slots PROVE (~Live(i))'
    <3>1. CASE Live(i) \/ pipe[i].stage = "mark"
      <4>1. pipe'[i] = Ended(i, "dead")
        BY <1>7, <3>1 DEF HostCrash
      <4>2. pipe'[i].stage = "dead"
        BY <4>1 DEF Ended, NoPipe
      <4>. QED  BY <4>2 DEF Live, Inner
    <3>2. CASE ~(Live(i) \/ pipe[i].stage = "mark")
      <4>1. pipe'[i] = pipe[i]
        BY <1>7, <3>2 DEF HostCrash
      <4>. QED  BY <3>2, <4>1 DEF Live
    <3>. QED  BY <3>1, <3>2
  <2>2. \A d \in Daemons : job'[d].step = "idle"
    BY <1>7, IdleStep DEF HostCrash
  <2>3. RequestHoldsTree' /\ ResetProgress'
    BY <2>2 DEF RequestHoldsTree, ResetProgress, ResetSteps
  <2>. QED  BY <1>7, <2>1, <2>3, NoLiveStep DEF HostCrash
<1>. QED  BY <1>1, <1>2, <1>3, <1>4, <1>5, <1>6, <1>7 DEF Next

\* The inductive invariant, for any number of daemons that take turns, whether
\* git status fails or not.
THEOREM EvidenceInTurns ==
    ASSUME NothingIgnored
    PROVE  Spec /\ []RequestsTakeTurns => []EvidenceChain
<1>1. Init => EvidenceChain
  BY ChainInit
<1>2. /\ RequestsTakeTurns /\ RequestsTakeTurns' /\ TypeOK /\ EvidenceChain
      /\ [Next]_vars
      => EvidenceChain'
  BY ChainStep
<1>. QED  BY <1>1, <1>2, TypeCorrect, PTL DEF Spec

\* Requests that begin in turn go on in turn.
LEMMA TurnsStep ==
    ASSUME TypeOK, RequestsTakeTurns, [TurnsNext]_vars
    PROVE  RequestsTakeTurns'
<1>1. ASSUME NEW d \in Daemons, \A e \in Daemons \ {d} : job'[e] = Idle
      PROVE  RequestsTakeTurns'
  BY <1>1 DEF RequestsTakeTurns
<1>2. ASSUME NEW d \in Daemons, \A e \in Daemons \ {d} : job[e] = Idle,
             \/ \E p \in Patches : ProposePatch(d, p)
             \/ \E p \in Patches, r \in RunIds : RunVerdict(d, p, r)
      PROVE  RequestsTakeTurns'
  <2>1. PICK j : job' = [job EXCEPT ![d] = j]
    BY <1>2 DEF ProposePatch, RunVerdict
  <2>2. \A e \in Daemons \ {d} : job'[e] = job[e]
    BY <2>1 DEF TypeOK
  <2>. QED  BY <1>1, <1>2, <2>2
<1>3. ASSUME NEW d \in Daemons, HandlerStep(d) \/ DaemonCrash(d)
      PROVE  RequestsTakeTurns'
  <2>1. job[d] # Idle
    BY <1>3, IdleStep
    DEF HandlerStep, DaemonCrash, GitCheckout, GitClean, GitApply,
        StorePending, OpenLog, WriteLock, WriteLockFails, SpawnPipeline,
        SpawnFails
  <2>. QED  BY <1>1, <1>3, <2>1, OthersIdle
<1>4. CASE \E i \in Slots : PipelineStep(i) \/ Prints(i) \/ Kill(i)
  <2>1. UNCHANGED job
    BY <1>4
    DEF PipelineStep, Prints, Kill, WrapperExecs, WrapperRefuses,
        BuildCandidate, BuildCandidateFails, BuildCandidateFallsThrough,
        StashPatch, BuildBaseline, PopStash, RunGates, Bench, Sanitize,
        RecordRow, ExitZero, ReleaseLock, MarkFailed
  <2>. QED  BY <2>1 DEF RequestsTakeTurns
<1>5. CASE HostCrash
  BY <1>5 DEF HostCrash, RequestsTakeTurns
<1>6. CASE \/ \E c \in Pollers, r \in RunIds : ReadVerdict(c, r)
           \/ \E c \in Pollers : PollStep(c)
           \/ RemoveStaleLock \/ NetnsChanges \/ UNCHANGED vars
  <2>1. UNCHANGED job
    BY <1>6 DEF ReadVerdict, PollStep, PollLedger, PollLog, RemoveStaleLock,
                NetnsChanges, vars
  <2>. QED  BY <2>1 DEF RequestsTakeTurns
<1>. QED  BY <1>2, <1>3, <1>4, <1>5, <1>6 DEF TurnsNext

\* What the run checks is that hypothesis.
LEMMA TurnsAreTaken == TurnsSpec => Spec /\ []RequestsTakeTurns
<1>1. Init => RequestsTakeTurns
  BY DEF Init, RequestsTakeTurns
<1>2. [TurnsNext]_vars => [Next]_vars
  BY DEF TurnsNext, Next
<1>3. TypeOK /\ RequestsTakeTurns /\ [TurnsNext]_vars => RequestsTakeTurns'
  BY TurnsStep
<1>. QED  BY <1>1, <1>2, <1>3, TypeCorrect, PTL DEF TurnsSpec, Spec

\* A second daemon does no harm by being there: as long as requests to the
\* two do not overlap, pipelines count on the tree they were given, exclude
\* one another, and leave rows about their own patches (daemon.rs 42-47 and
\* 84-98 see to it within a daemon, and agent-isolated.sh may start another).
THEOREM SafeInTurns ==
    ASSUME NothingIgnored
    PROVE  Spec /\ []RequestsTakeTurns
              => /\ []TestedTreeIsThePatch
                 /\ []OnePipelineUnderTheLock
                 /\ []RowIsAboutItsPatch
<1>1. EvidenceChain => /\ TestedTreeIsThePatch
                       /\ OnePipelineUnderTheLock
                       /\ RowIsAboutItsPatch
  BY DEF EvidenceChain, StageFacts, TreeHoldsPatch, TestedTreeIsThePatch,
         PipelineHoldsLock, OnePipelineUnderTheLock
<1>. QED  BY <1>1, EvidenceInTurns, PTL

\* A daemon alone takes turns, with nobody.
THEOREM EvidenceChainHolds ==
    ASSUME OneDaemon, NothingIgnored
    PROVE  Spec => []EvidenceChain
<1>1. RequestsTakeTurns
  BY DEF OneDaemon, RequestsTakeTurns
<1>. QED  BY <1>1, EvidenceInTurns, PTL

\* While a pipeline counts on its patch, the workspace holds that patch on
\* the pinned commit and nothing else.
THEOREM TreeIsTested ==
    ASSUME OneDaemon, NothingIgnored
    PROVE  Spec => []TestedTreeIsThePatch
<1>1. EvidenceChain => TestedTreeIsThePatch
  BY DEF EvidenceChain, StageFacts, TreeHoldsPatch, TestedTreeIsThePatch
<1>. QED  BY <1>1, EvidenceChainHolds, PTL

\* Pipelines exclude one another, and the lock names the one that is live.
THEOREM PipelinesExclude ==
    ASSUME OneDaemon, NothingIgnored
    PROVE  Spec => []OnePipelineUnderTheLock
<1>1. EvidenceChain => OnePipelineUnderTheLock
  BY DEF EvidenceChain, PipelineHoldsLock, OnePipelineUnderTheLock
<1>. QED  BY <1>1, EvidenceChainHolds, PTL

\* A ledger row is about the patch it names: candidate and instrumented build
\* are the patch's, and the baseline is the pinned commit's unless git status
\* failed (verdict/main.rs 76-121).
THEOREM RowsAreSound ==
    ASSUME OneDaemon, NothingIgnored
    PROVE  Spec => []RowIsAboutItsPatch
<1>1. EvidenceChain => RowIsAboutItsPatch
  BY DEF EvidenceChain
<1>. QED  BY <1>1, EvidenceChainHolds, PTL

-----------------------------------------------------------------------------
(***************************************************************************)
(* The isolation note.                                                      *)
(***************************************************************************)

\* A pipeline step changes no note, and only the wrapper enters the inner
\* script.
LEMMA PipelineKeepsNotes ==
    ASSUME NoUnisolatedOptIn, TypeOK, NoteChain, NEW i \in Slots,
           PipelineStep(i) \/ Kill(i)
    PROVE  NoteChain'
<1>. USE DEF At, TypeOK
<1>1. UNCHANGED <<env, job>>
  BY DEF PipelineStep, Kill, WrapperExecs, WrapperRefuses, BuildCandidate,
         BuildCandidateFails, BuildCandidateFallsThrough, StashPatch,
         BuildBaseline, PopStash, RunGates, Bench, Sanitize, RecordRow,
         ExitZero, ReleaseLock, MarkFailed
<1>2. pipe[i] \in LaunchedPipe
  <2>1. pipe[i].stage # "free"
    BY DEF PipelineStep, Kill, WrapperExecs, WrapperRefuses, BuildCandidate,
           BuildCandidateFails, BuildCandidateFallsThrough, StashPatch,
           BuildBaseline, PopStash, RunGates, Bench, Sanitize, RecordRow,
           ExitZero, ReleaseLock, MarkFailed, Inner
  <2>. QED  BY <2>1, IsLaunched
<1>3. ASSUME \A j \in Slots \ {i} : pipe'[j] = pipe[j],
             pipe'[i].note = "no-net.sh" =>
                 /\ pipe[i].note = "no-net.sh"
                 /\ pipe'[i].stage \in Inner => pipe'[i].isolated,
             UNCHANGED ledger
      PROVE  NoteChain'
  BY <1>1, <1>3 DEF NoteChain, NoteIsHonest
<1>4. ASSUME \A j \in Slots \ {i} : pipe'[j] = pipe[j],
             pipe'[i].note = pipe[i].note,
             pipe'[i].isolated = pipe[i].isolated,
             pipe[i].stage \in Inner \/ pipe'[i].stage \notin Inner,
             UNCHANGED ledger
      PROVE  NoteChain'
  BY <1>3, <1>4 DEF NoteChain
<1>5. ASSUME NEW s, Enter(i, s)
      PROVE  /\ \A j \in Slots \ {i} : pipe'[j] = pipe[j]
             /\ pipe'[i].note = pipe[i].note
             /\ pipe'[i].isolated = pipe[i].isolated
             /\ pipe'[i].stage = s
  <2>1. pipe'[i] = [pipe[i] EXCEPT !.stage = s]
    BY <1>5 DEF Enter
  <2>. QED  BY <1>2, <1>5, <2>1 DEF Enter, LaunchedPipe
<1>6. ASSUME Fail(i)
      PROVE  /\ \A j \in Slots \ {i} : pipe'[j] = pipe[j]
             /\ pipe'[i].note = pipe[i].note
             /\ pipe'[i].isolated = pipe[i].isolated
             /\ pipe'[i].stage = "account"
  <2>1. pipe'[i] = [pipe[i] EXCEPT !.stage = "account", !.failed = TRUE]
    BY <1>6 DEF Fail
  <2>. QED  BY <1>2, <1>6, <2>1 DEF Fail, LaunchedPipe
<1>7. ASSUME Fail(i), UNCHANGED ledger PROVE NoteChain'
  BY <1>4, <1>6, <1>7 DEF Inner
<1>8. ASSUME NEW s, Enter(i, s), pipe[i].stage \in Inner \/ s \notin Inner,
             UNCHANGED ledger
      PROVE  NoteChain'
  BY <1>4, <1>5, <1>8
<1>9. CASE WrapperExecs(i)
  <2>1. pipe'[i] = [pipe[i] EXCEPT !.stage = "build",
             !.isolated = env.wrapper = "no-net.sh" /\ netns]
    BY <1>9 DEF WrapperExecs
  <2>2. /\ pipe'[i].note = pipe[i].note
        /\ pipe'[i].isolated = (env.wrapper = "no-net.sh" /\ netns)
    BY <1>2, <2>1 DEF LaunchedPipe
  <2>3. \A j \in Slots \ {i} : pipe'[j] = pipe[j]
    BY <1>9 DEF WrapperExecs
  <2>4. pipe[i].note = "no-net.sh" => env.wrapper = "no-net.sh"
    BY DEF NoteChain
  <2>5. env.wrapper = "no-net.sh" => netns
    BY <1>9 DEF WrapperExecs, WrapperProceeds, NoUnisolatedOptIn
  <2>. QED  BY <1>3, <1>9, <2>2, <2>3, <2>4, <2>5 DEF WrapperExecs
<1>10. CASE WrapperRefuses(i)
  BY <1>7, <1>10 DEF WrapperRefuses
<1>11. CASE BuildCandidate(i)
  BY <1>8, <1>11 DEF BuildCandidate, Inner
<1>12. CASE BuildCandidateFails(i)
  BY <1>7, <1>12 DEF BuildCandidateFails
<1>13. CASE BuildCandidateFallsThrough(i)
  BY <1>8, <1>13 DEF BuildCandidateFallsThrough, Inner
<1>14. CASE StashPatch(i)
  <2>1. CASE pipe' = [pipe EXCEPT ![i].stage = "build baseline",
                                  ![i].stashed = TRUE]
    <3>1. pipe'[i] = [pipe[i] EXCEPT !.stage = "build baseline",
                                     !.stashed = TRUE]
      BY <2>1
    <3>2. pipe'[i].note = pipe[i].note /\ pipe'[i].isolated = pipe[i].isolated
      BY <1>2, <3>1 DEF LaunchedPipe
    <3>. QED  BY <1>4, <1>14, <2>1, <3>2 DEF StashPatch, Inner
  <2>2. CASE Misread(i)
    <3>1. pipe'[i] = [pipe[i] EXCEPT !.stage = "build baseline",
                                     !.misread = TRUE]
      BY <2>2 DEF Misread
    <3>2. pipe'[i].note = pipe[i].note /\ pipe'[i].isolated = pipe[i].isolated
      BY <1>2, <3>1 DEF LaunchedPipe
    <3>. QED  BY <1>4, <1>14, <2>2, <3>2 DEF StashPatch, Misread, Inner
  <2>. QED  BY <1>7, <1>8, <1>14, <2>1, <2>2 DEF StashPatch, Inner
<1>15. CASE BuildBaseline(i)
  <2>1. CASE pipe' = [pipe EXCEPT ![i].stage = "pop", ![i].failed = TRUE]
    <3>1. pipe'[i] = [pipe[i] EXCEPT !.stage = "pop", !.failed = TRUE]
      BY <2>1
    <3>2. pipe'[i].note = pipe[i].note /\ pipe'[i].isolated = pipe[i].isolated
      BY <1>2, <3>1 DEF LaunchedPipe
    <3>. QED  BY <1>4, <1>15, <2>1, <3>2 DEF BuildBaseline, Inner
  <2>. QED  BY <1>8, <1>15, <2>1 DEF BuildBaseline, Inner
<1>16. CASE PopStash(i)
  BY <1>7, <1>8, <1>16 DEF PopStash, Inner
<1>17. ASSUME NEW s, NEW v,
              pipe' = [pipe EXCEPT ![i].stage = s, ![i].verdict = v],
              pipe[i].stage \in Inner, UNCHANGED ledger
       PROVE  NoteChain'
  <2>1. pipe'[i] = [pipe[i] EXCEPT !.stage = s, !.verdict = v]
    BY <1>17
  <2>2. pipe'[i].note = pipe[i].note /\ pipe'[i].isolated = pipe[i].isolated
    BY <1>2, <2>1 DEF LaunchedPipe
  <2>3. \A j \in Slots \ {i} : pipe'[j] = pipe[j]
    BY <1>17
  <2>. QED  BY <1>4, <1>17, <2>2, <2>3
<1>18. CASE RunGates(i)
  BY <1>7, <1>8, <1>17, <1>18 DEF RunGates, Inner
<1>19. CASE Bench(i)
  BY <1>7, <1>17, <1>19 DEF Bench, Inner
<1>20. CASE Sanitize(i)
  <2>1. ASSUME NEW v, pipe' = [pipe EXCEPT ![i].stage = "record",
                                 ![i].verdict = v, ![i].san = tree]
        PROVE  NoteChain'
    <3>1. /\ pipe'[i] = [pipe[i] EXCEPT !.stage = "record",
                                        !.verdict = v, !.san = tree]
          /\ \A j \in Slots \ {i} : pipe'[j] = pipe[j]
      BY <2>1
    <3>2. pipe'[i].note = pipe[i].note /\ pipe'[i].isolated = pipe[i].isolated
      BY <1>2, <3>1 DEF LaunchedPipe
    <3>. QED  BY <1>4, <1>20, <3>1, <3>2 DEF Sanitize, Inner
  <2>. QED  BY <1>7, <1>17, <1>20, <2>1 DEF Sanitize, Inner
<1>21. CASE RecordRow(i)
  <2>1. CASE /\ ledger' = [ledger EXCEPT ![pipe[i].run] = RowOf(i)]
             /\ Enter(i, "exit")
    <3>1. pipe[i].note = "no-net.sh" => pipe[i].isolated
      BY <1>21 DEF RecordRow, NoteChain, Inner
    <3>2. \A r \in RunIds : ledger'[r] = ledger[r] \/ ledger'[r] = RowOf(i)
      BY <2>1
    <3>3. NoteIsHonest'
      BY <3>1, <3>2 DEF NoteChain, NoteIsHonest, RowOf
    <3>4. \A j \in Slots : pipe'[j].note = "no-net.sh" =>
             /\ env.wrapper = "no-net.sh"
             /\ pipe'[j].stage \in Inner => pipe'[j].isolated
      BY <1>5, <2>1, <3>1 DEF NoteChain
    <3>. QED  BY <1>1, <3>3, <3>4 DEF NoteChain
  <2>. QED  BY <1>7, <1>21, <2>1 DEF RecordRow
<1>22. CASE ExitZero(i)
  BY <1>8, <1>22 DEF ExitZero, Inner
<1>23. CASE ReleaseLock(i)
  <2>1. pipe'[i] = Ended(i, IF pipe[i].failed THEN "mark" ELSE "done")
    BY <1>23 DEF ReleaseLock
  <2>2. pipe'[i].note = "override"
    BY <2>1 DEF Ended, NoPipe
  <2>. QED  BY <1>3, <1>23, <2>2 DEF ReleaseLock
<1>24. CASE MarkFailed(i)
  BY <1>8, <1>24 DEF MarkFailed, Inner
<1>25. CASE Kill(i)
  BY <1>7, <1>25 DEF Kill
<1>. QED
  BY <1>9, <1>10, <1>11, <1>12, <1>13, <1>14, <1>15, <1>16, <1>18, <1>19,
     <1>20, <1>21, <1>22, <1>23, <1>24, <1>25 DEF PipelineStep

LEMMA RequestKeepsNotes ==
    ASSUME TypeOK, NoteChain, NEW d \in Daemons,
           HandlerStep(d) \/ DaemonCrash(d)
             \/ (\E p \in Patches : ProposePatch(d, p))
             \/ (\E p \in Patches, r \in RunIds : RunVerdict(d, p, r))
    PROVE  NoteChain'
<1>. USE DEF TypeOK
<1>1. UNCHANGED <<env, ledger>>
  BY DEF HandlerStep, DaemonCrash, ProposePatch, RunVerdict, GitCheckout,
         GitClean, GitApply, StorePending, OpenLog, WriteLock, WriteLockFails,
         SpawnPipeline, SpawnFails
<1>2. Idle.note = "override"
  BY DEF Idle
<1>3. ASSUME UNCHANGED pipe,
             \/ \E s : Continue(d, s)
             \/ job'[d].note # "no-net.sh"
             \/ env.wrapper = "no-net.sh",
             \A e \in Daemons \ {d} : job'[e] = job[e]
      PROVE  NoteChain'
  <2>1. ASSUME NEW s, Continue(d, s) PROVE job'[d].note = job[d].note
    <3>1. job'[d] = [job[d] EXCEPT !.step = s]
      BY <2>1 DEF Continue
    <3>2. CASE job[d] = Idle
      BY <3>1, <3>2 DEF Idle
    <3>3. CASE job[d] \in ProposeJob
      BY <3>1, <3>3 DEF ProposeJob
    <3>4. CASE job[d] \in VerdictJob
      BY <3>1, <3>4 DEF VerdictJob
    <3>. QED  BY <3>2, <3>3, <3>4 DEF Job
  <2>2. NoteIsHonest'
    BY <1>1 DEF NoteChain, NoteIsHonest
  <2>. QED  BY <1>1, <1>3, <2>1, <2>2 DEF NoteChain
<1>4. ASSUME Return(d)
      PROVE  /\ job'[d].note # "no-net.sh"
             /\ \A e \in Daemons \ {d} : job'[e] = job[e]
  BY <1>2, <1>4 DEF Return
<1>5. ASSUME NEW s, Continue(d, s)
      PROVE  \A e \in Daemons \ {d} : job'[e] = job[e]
  BY <1>5 DEF Continue
<1>6. ASSUME UNCHANGED pipe, Return(d) \/ \E s : Continue(d, s)
      PROVE  NoteChain'
  BY <1>3, <1>4, <1>5, <1>6
<1>7. CASE \/ \E p \in Patches : ProposePatch(d, p)
           \/ \E p \in Patches, r \in RunIds : RunVerdict(d, p, r)
  <2>1. /\ job'[d].note # "no-net.sh"
        /\ \A e \in Daemons \ {d} : job'[e] = job[e]
        /\ UNCHANGED pipe
    BY <1>7 DEF ProposePatch, RunVerdict, Idle
  <2>. QED  BY <1>3, <2>1
<1>8. CASE OpenLog(d)
  <2>1. CASE job' = [job EXCEPT ![d].step = "lock", ![d].note = IsolationNote]
    <3>1. job[d] \in VerdictJob
      BY <1>8, JobSteps DEF OpenLog
    <3>2. job'[d].note = IsolationNote
      BY <2>1, <3>1 DEF VerdictJob
    <3>3. env.wrapper \in {"no-net.sh", "override"}
      BY HarnessAssumption
    <3>4. IsolationNote = "no-net.sh" => env.wrapper = "no-net.sh"
      BY <3>3 DEF IsolationNote
    <3>5. \A e \in Daemons \ {d} : job'[e] = job[e]
      BY <2>1
    <3>. QED  BY <1>3, <1>8, <3>2, <3>4, <3>5 DEF OpenLog
  <2>. QED  BY <1>6, <1>8, <2>1 DEF OpenLog
<1>9. CASE SpawnPipeline(d)
  <2>1. PICK i \in Slots :
            pipe' = [pipe EXCEPT ![i] = [NoPipe EXCEPT
                       !.stage = "wrapper", !.run = job[d].run,
                       !.patch = job[d].patch, !.note = job[d].note]]
    BY <1>9 DEF SpawnPipeline
  <2>2. pipe'[i].stage = "wrapper" /\ pipe'[i].note = job[d].note
    BY <2>1 DEF NoPipe
  <2>3. \A j \in Slots \ {i} : pipe'[j] = pipe[j]
    BY <2>1
  <2>4. \A j \in Slots : pipe'[j].note = "no-net.sh" =>
           /\ env.wrapper = "no-net.sh"
           /\ pipe'[j].stage \in Inner => pipe'[j].isolated
    BY <2>2, <2>3 DEF NoteChain, Inner
  <2>5. \A e \in Daemons : job'[e].note = "no-net.sh" =>
           env.wrapper = "no-net.sh"
    BY <1>4, <1>9 DEF SpawnPipeline, NoteChain
  <2>. QED  BY <1>1, <2>4, <2>5 DEF NoteChain, NoteIsHonest
<1>10. CASE \/ GitCheckout(d) \/ GitClean(d) \/ GitApply(d)
            \/ StorePending(d) \/ WriteLock(d) \/ WriteLockFails(d)
            \/ SpawnFails(d) \/ DaemonCrash(d)
  <2>1. UNCHANGED pipe /\ (Return(d) \/ \E s : Continue(d, s))
    BY <1>10 DEF GitCheckout, GitClean, GitApply, StorePending, WriteLock,
                 WriteLockFails, SpawnFails, DaemonCrash
  <2>. QED  BY <1>6, <2>1
<1>. QED  BY <1>7, <1>8, <1>9, <1>10 DEF HandlerStep

\* When no daemon's environment opts in to unisolated runs, a row that names
\* no-net.sh as its isolation ran in a network namespace, however often the
\* host's ability to open one comes and goes.
THEOREM NotesAreHonest ==
    ASSUME NoUnisolatedOptIn
    PROVE  Spec => []NoteIsHonest
<1>1. Init => NoteChain
  BY DEF Init, NoteChain, NoteIsHonest, Idle, NoPipe
<1>2. TypeOK /\ NoteChain /\ [Next]_vars => NoteChain'
  <2>. SUFFICES ASSUME TypeOK, NoteChain, [Next]_vars PROVE NoteChain'
    OBVIOUS
  <2>1. CASE \E i \in Slots : PipelineStep(i) \/ Kill(i)
    BY <2>1, PipelineKeepsNotes
  <2>2. CASE \/ \E d \in Daemons, p \in Patches : ProposePatch(d, p)
             \/ \E d \in Daemons, p \in Patches, r \in RunIds :
                    RunVerdict(d, p, r)
             \/ \E d \in Daemons : HandlerStep(d) \/ DaemonCrash(d)
    BY <2>2, RequestKeepsNotes
  <2>3. CASE HostCrash
    <3>1. \A i \in Slots :
             \/ pipe'[i] = pipe[i]
             \/ pipe'[i].note # "no-net.sh"
      BY <2>3 DEF HostCrash, Ended, NoPipe
    <3>2. \A d \in Daemons : job'[d].note # "no-net.sh"
      BY <2>3 DEF HostCrash, Idle
    <3>. QED  BY <2>3, <3>1, <3>2 DEF HostCrash, NoteChain, NoteIsHonest
  <2>4. CASE \/ \E c \in Pollers, r \in RunIds : ReadVerdict(c, r)
             \/ \E c \in Pollers : PollStep(c)
             \/ \E i \in Slots : Prints(i)
             \/ RemoveStaleLock \/ NetnsChanges \/ UNCHANGED vars
    <3>1. UNCHANGED <<env, ledger, job, pipe>>
      BY <2>4 DEF ReadVerdict, PollStep, PollLedger, PollLog, Prints,
                  RemoveStaleLock, NetnsChanges, vars
    <3>. QED  BY <3>1 DEF NoteChain, NoteIsHonest
  <2>. QED  BY <2>1, <2>2, <2>3, <2>4 DEF Next
<1>3. NoteChain => NoteIsHonest
  BY DEF NoteChain
<1>. QED  BY <1>1, <1>2, <1>3, TypeCorrect, PTL DEF Spec

==============================================================================
