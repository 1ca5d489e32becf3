---------------------------- MODULE HarnessProofs ----------------------------
(***************************************************************************)
(* Theorems about Harness, for every value of its constants.                *)
(***************************************************************************)
EXTENDS HarnessInv, SequenceTheorems, TLAPS

-----------------------------------------------------------------------------
(***************************************************************************)
(* Type correctness.                                                        *)
(***************************************************************************)

\* The git commands turn trees into trees.
LEMMA TreeTypes ==
    /\ HeadTree \in Tree
    /\ \A p \in Patches : Patched(p) \in Tree
    /\ \A t \in Tree : /\ Checkout(t) \in Tree
                       /\ Clean(t) \in Tree
                       /\ Stashed(t) \in Tree
    /\ \A p \in Patches, t \in Tree :
          Apply(p, t) \in Tree /\ \A W : Write(p, W, t) \in Tree
    /\ \A s, t \in Tree : Unstashed(s, t) \in Tree
BY DEF Tree, HeadTree, Patched, Checkout, Clean, Stashed, Apply, Write,
       Unstashed

LEMMA IsLaunched ==
    ASSUME pipe \in [Slots -> Pipe], NEW i \in Slots, pipe[i].stage # "free"
    PROVE  pipe[i] \in LaunchedPipe
BY DEF Pipe, NoPipe

\* A launched pipeline stays one through a change of stage.
LEMMA EnterType ==
    ASSUME pipe \in [Slots -> Pipe], NEW i \in Slots, NEW s \in Stages,
           pipe[i].stage # "free", Enter(i, s)
    PROVE  pipe' \in [Slots -> Pipe]
<1>1. pipe[i] \in LaunchedPipe
  BY IsLaunched
<1>2. [pipe[i] EXCEPT !.stage = s] \in LaunchedPipe
  BY <1>1 DEF LaunchedPipe
<1>. QED  BY <1>2 DEF Enter, Pipe

LEMMA FailType ==
    ASSUME pipe \in [Slots -> Pipe], NEW i \in Slots,
           pipe[i].stage # "free", Fail(i)
    PROVE  pipe' \in [Slots -> Pipe]
<1>1. pipe[i] \in LaunchedPipe
  BY IsLaunched
<1>2. [pipe[i] EXCEPT !.stage = "account", !.failed = TRUE] \in LaunchedPipe
  BY <1>1 DEF LaunchedPipe, Stages
<1>. QED  BY <1>2 DEF Fail, Pipe

LEMMA EndedType ==
    ASSUME pipe \in [Slots -> Pipe], NEW i \in Slots, NEW s \in Stages,
           pipe[i].stage # "free"
    PROVE  Ended(i, s) \in LaunchedPipe
<1>1. pipe[i] \in LaunchedPipe
  BY IsLaunched
<1>. QED
  BY <1>1 DEF Ended, LaunchedPipe, NoPipe, Notes, Verdicts, Binary

\* Counting a fault stays within the bound.
LEMMA OneMoreFault ==
    ASSUME faults \in 0 .. MaxFaults, faults < MaxFaults
    PROVE  faults + 1 \in 0 .. MaxFaults
BY HarnessAssumption

\* The lines of a log are the markers of the script and what was printed.
LEMMA Lines ==
    /\ \A i \in Slots : Marker(i) \in Line /\ Printed(i) \in Line
    /\ \A i \in Slots : Marker(i).by = i /\ Printed(i).by = i
    /\ \A i, j \in Slots : Marker(i) = Marker(j) => i = j
    /\ \A i, j \in Slots : Marker(i) # Printed(j)
BY DEF Marker, Printed, Line

\* A daemon's request stays one through a change of step.
LEMMA JobSteps ==
    ASSUME job \in [Daemons -> Job], NEW d \in Daemons
    PROVE  /\ Return(d) => job' \in [Daemons -> Job]
           /\ \A s \in {"clean", "apply"} :
                 job[d].step \in ResetSteps /\ Continue(d, s)
                     => job' \in [Daemons -> Job]
           /\ job[d].step \in {"open log", "lock", "spawn"}
                 => job[d] \in VerdictJob
           /\ job[d].step = "store" => job[d] \in ProposeJob
           /\ job[d].step \in ResetSteps
                 => job[d] \in ProposeJob \cup VerdictJob
<1>1. Return(d) => job' \in [Daemons -> Job]
  BY DEF Return, Job
<1>2. ASSUME job[d].step \in {"open log", "lock", "spawn"}
      PROVE  job[d] \in VerdictJob
  <2>1. job[d] # Idle
    <3>1. Idle.step = "idle"
      BY DEF Idle
    <3>. QED  BY <1>2, <3>1
  <2>2. job[d] \notin ProposeJob
    BY <1>2 DEF ProposeJob, ResetSteps
  <2>. QED  BY <2>1, <2>2 DEF Job
<1>3. ASSUME job[d].step = "store"
      PROVE  job[d] \in ProposeJob
  <2>1. job[d] # Idle
    BY <1>3 DEF Idle
  <2>2. job[d] \notin VerdictJob
    BY <1>3 DEF VerdictJob, ResetSteps
  <2>. QED  BY <2>1, <2>2 DEF Job
<1>4. ASSUME job[d].step \in ResetSteps
      PROVE  job[d] \in ProposeJob \cup VerdictJob
  BY <1>4 DEF Job, Idle, ResetSteps
<1>5. ASSUME NEW s \in {"clean", "apply"}, job[d].step \in ResetSteps,
             Continue(d, s)
      PROVE  job' \in [Daemons -> Job]
  <2>1. [job[d] EXCEPT !.step = s] \in ProposeJob \cup VerdictJob
    BY <1>4, <1>5 DEF ProposeJob, VerdictJob, ResetSteps
  <2>. QED  BY <2>1, <1>5 DEF Continue, Job
<1>. QED  BY <1>1, <1>2, <1>3, <1>4, <1>5

\* A daemon's steps preserve type correctness.
LEMMA DaemonTypes ==
    ASSUME TypeOK, NEW d \in Daemons,
           HandlerStep(d) \/ DaemonCrash(d)
             \/ (\E p \in Patches : ProposePatch(d, p))
             \/ (\E p \in Patches, r \in RunIds : RunVerdict(d, p, r))
    PROVE  TypeOK'
<1>. USE DEF TypeOK
<1>1. CASE \E p \in Patches : ProposePatch(d, p)
  <2>1. PICK p \in Patches : ProposePatch(d, p)
    BY <1>1
  <2>2. [Idle EXCEPT !.step = "checkout", !.op = "propose_patch", !.patch = p]
            \in ProposeJob
    BY DEF Idle, ProposeJob, ResetSteps, Notes
  <2>. QED  BY <2>1, <2>2 DEF ProposePatch, Job
<1>2. CASE \E p \in Patches, r \in RunIds : RunVerdict(d, p, r)
  <2>1. PICK p \in Patches, r \in RunIds : RunVerdict(d, p, r)
    BY <1>2
  <2>2. [Idle EXCEPT !.step = "checkout", !.op = "run_verdict",
                     !.patch = p, !.run = r] \in VerdictJob
    BY DEF Idle, VerdictJob, ResetSteps, Notes
  <2>. QED  BY <2>1, <2>2 DEF RunVerdict, Job
<1>3. CASE GitCheckout(d)
  BY <1>3, JobSteps, TreeTypes DEF GitCheckout, ResetSteps
<1>4. CASE GitClean(d)
  BY <1>4, JobSteps, TreeTypes DEF GitClean, ResetSteps
<1>5. CASE GitApply(d)
  <2>1. job[d] \in ProposeJob \cup VerdictJob
    BY <1>5, JobSteps DEF GitApply, ResetSteps
  <2>2. tree' \in Tree
    <3>1. job[d].patch \in Patches
      BY <2>1 DEF ProposeJob, VerdictJob
    <3>2. Apply(job[d].patch, tree) \in Tree
      BY <3>1, TreeTypes
    <3>3. \A W : Write(job[d].patch, W, tree) \in Tree
      BY <3>1, TreeTypes
    <3>. QED  BY <1>5, <3>2, <3>3 DEF GitApply
  <2>3. job' \in [Daemons -> Job]
    <3>1. CASE Return(d)
      BY <3>1, JobSteps
    <3>2. CASE job[d].op = "propose_patch" /\ Continue(d, "store")
      <4>1. [job[d] EXCEPT !.step = "store"] \in ProposeJob
        BY <2>1, <3>2 DEF ProposeJob, VerdictJob
      <4>. QED  BY <4>1, <3>2 DEF Continue, Job
    <3>3. CASE job[d].op # "propose_patch" /\ Continue(d, "open log")
      <4>1. [job[d] EXCEPT !.step = "open log"] \in VerdictJob
        BY <2>1, <3>3 DEF ProposeJob, VerdictJob
      <4>. QED  BY <4>1, <3>3 DEF Continue, Job
    <3>. QED  BY <1>5, <3>1, <3>2, <3>3 DEF GitApply
  <2>. QED  BY <1>5, <2>2, <2>3 DEF GitApply
<1>6. CASE StorePending(d)
  BY <1>6, JobSteps DEF StorePending, ProposeJob
<1>7. CASE OpenLog(d)
  <2>1. job[d] \in VerdictJob
    BY <1>7, JobSteps DEF OpenLog
  <2>2. [job[d] EXCEPT !.step = "lock", !.note = IsolationNote] \in VerdictJob
    BY <2>1 DEF VerdictJob, IsolationNote, Notes
  <2>3. job' \in [Daemons -> Job]
    BY <1>7, <2>2, JobSteps DEF OpenLog, Job
  <2>4. log' \in [RunIds -> SUBSET Line]
    BY <1>7 DEF OpenLog
  <2>. QED  BY <1>7, <2>3, <2>4 DEF OpenLog
<1>8. CASE WriteLock(d)
  <2>1. job[d] \in VerdictJob
    BY <1>8, JobSteps DEF WriteLock
  <2>2. [job[d] EXCEPT !.step = "spawn"] \in VerdictJob
    BY <2>1 DEF VerdictJob
  <2>3. job' \in [Daemons -> Job]
    BY <1>8, <2>2 DEF WriteLock, Continue, Job
  <2>. QED  BY <1>8, <2>1, <2>3 DEF WriteLock, LockContent, VerdictJob
<1>9. CASE WriteLockFails(d)
  <2>1. faults' \in 0 .. MaxFaults
    BY <1>9, OneMoreFault DEF WriteLockFails
  <2>. QED  BY <1>9, <2>1, JobSteps DEF WriteLockFails
<1>10. CASE SpawnPipeline(d)
  <2>1. job[d] \in VerdictJob
    BY <1>10, JobSteps DEF SpawnPipeline
  <2>2. [NoPipe EXCEPT !.stage = "wrapper", !.run = job[d].run,
                       !.patch = job[d].patch, !.note = job[d].note]
            \in LaunchedPipe
    BY <2>1 DEF VerdictJob, NoPipe, LaunchedPipe, Stages, Verdicts, Binary
  <2>3. pipe' \in [Slots -> Pipe]
    BY <1>10, <2>2 DEF SpawnPipeline, Pipe
  <2>. QED  BY <1>10, <2>3, JobSteps DEF SpawnPipeline
<1>11. CASE SpawnFails(d)
  BY <1>11, JobSteps DEF SpawnFails
<1>12. CASE DaemonCrash(d)
  <2>1. faults' \in 0 .. MaxFaults
    BY <1>12, OneMoreFault DEF DaemonCrash
  <2>. QED  BY <1>12, <2>1, JobSteps DEF DaemonCrash
<1>. QED
  BY <1>1, <1>2, <1>3, <1>4, <1>5, <1>6, <1>7, <1>8, <1>9, <1>10, <1>11,
     <1>12 DEF HandlerStep

\* A pipeline's steps preserve type correctness.
LEMMA PipelineTypes ==
    ASSUME TypeOK, NEW i \in Slots, PipelineStep(i) \/ Prints(i) \/ Kill(i)
    PROVE  TypeOK'
<1>. USE DEF TypeOK, At
<1>1. CASE WrapperExecs(i)
  <2>1. pipe[i] \in LaunchedPipe
    BY <1>1, IsLaunched DEF WrapperExecs
  <2>2. [pipe[i] EXCEPT !.stage = "build",
                        !.isolated = env.wrapper = "no-net.sh" /\ netns]
            \in LaunchedPipe
    BY <2>1 DEF LaunchedPipe, Stages, Inner
  <2>3. pipe' \in [Slots -> Pipe]
    BY <1>1, <2>2 DEF WrapperExecs, Pipe
  <2>. QED  BY <1>1, <2>1, <2>3 DEF WrapperExecs, LaunchedPipe
<1>2. CASE WrapperRefuses(i)
  BY <1>2, FailType DEF WrapperRefuses
<1>3. CASE BuildCandidate(i)
  <2>1. tree \in Binary
    BY DEF Binary
  <2>2. pipe' \in [Slots -> Pipe]
    BY <1>3, EnterType DEF BuildCandidate, Stages, Inner
  <2>. QED  BY <1>3, <2>1, <2>2 DEF BuildCandidate
<1>4. CASE BuildCandidateFails(i)
  BY <1>4, FailType DEF BuildCandidateFails
<1>5. CASE BuildCandidateFallsThrough(i)
  BY <1>5, EnterType DEF BuildCandidateFallsThrough, Stages, Inner
<1>6. CASE StashPatch(i)
  <2>1. pipe' \in [Slots -> Pipe]
    <3>1. pipe[i] \in LaunchedPipe
      BY <1>6, IsLaunched DEF StashPatch
    <3>2. /\ [pipe[i] EXCEPT !.stage = "build baseline", !.stashed = TRUE]
                 \in LaunchedPipe
          /\ [pipe[i] EXCEPT !.stage = "build baseline", !.misread = TRUE]
                 \in LaunchedPipe
      BY <3>1 DEF LaunchedPipe, Stages, Inner
    <3>3. Enter(i, "build baseline") => pipe' \in [Slots -> Pipe]
      BY <1>6, EnterType DEF StashPatch, Stages, Inner
    <3>4. Fail(i) => pipe' \in [Slots -> Pipe]
      BY <1>6, FailType DEF StashPatch
    <3>. QED  BY <1>6, <3>2, <3>3, <3>4 DEF StashPatch, Misread, Pipe
  <2>2. tree' \in Tree /\ stash' \in Seq(Tree)
    <3>1. CASE stash' = Append(stash, tree) /\ tree' = Stashed(tree)
      <4>1. Append(stash, tree) \in Seq(Tree)
        BY AppendProperties
      <4>. QED  BY <3>1, <4>1, TreeTypes
    <3>2. CASE UNCHANGED <<tree, stash>>
      BY <3>2
    <3>. QED  BY <1>6, <3>1, <3>2 DEF StashPatch, Misread
  <2>. QED  BY <1>6, <2>1, <2>2 DEF StashPatch
<1>7. CASE BuildBaseline(i)
  <2>1. pipe[i] \in LaunchedPipe
    BY <1>7, IsLaunched DEF BuildBaseline
  <2>2. [pipe[i] EXCEPT !.stage = "pop", !.failed = TRUE] \in LaunchedPipe
    BY <2>1 DEF LaunchedPipe, Stages, Inner
  <2>3. Enter(i, "pop") => pipe' \in [Slots -> Pipe]
    BY <1>7, EnterType DEF BuildBaseline, Stages, Inner
  <2>4. pipe' \in [Slots -> Pipe]
    BY <1>7, <2>2, <2>3 DEF BuildBaseline, Pipe
  <2>5. baseBin' \in Binary
    BY <1>7 DEF BuildBaseline, Binary
  <2>. QED  BY <1>7, <2>4, <2>5 DEF BuildBaseline
<1>8. CASE PopStash(i)
  <2>1. pipe' \in [Slots -> Pipe]
    <3>1. Enter(i, "gates") => pipe' \in [Slots -> Pipe]
      BY <1>8, EnterType DEF PopStash, Stages, Inner
    <3>2. Fail(i) => pipe' \in [Slots -> Pipe]
      BY <1>8, FailType DEF PopStash
    <3>. QED  BY <1>8, <3>1, <3>2 DEF PopStash
  <2>2. tree' \in Tree /\ stash' \in Seq(Tree)
    <3>1. CASE stash # <<>> /\ tree' = Unstashed(stash[Len(stash)], tree)
                 /\ stash' = SubSeq(stash, 1, Len(stash) - 1)
      <4>1. Len(stash) \in Nat /\ Len(stash) # 0
        BY <3>1, LenProperties, EmptySeq
      <4>2. \A n \in 1 .. Len(stash) : stash[n] \in Tree
        BY ElementOfSeq
      <4>3. stash' \in Seq(Tree)
        BY <3>1, <4>1, <4>2, SubSeqProperties
      <4>. QED  BY <3>1, <4>1, <4>2, <4>3, TreeTypes
    <3>2. CASE UNCHANGED <<tree, stash>>
      BY <3>2
    <3>. QED  BY <1>8, <3>1, <3>2 DEF PopStash
  <2>. QED  BY <1>8, <2>1, <2>2 DEF PopStash
<1>9. CASE RunGates(i)
  <2>1. pipe[i] \in LaunchedPipe
    BY <1>9, IsLaunched DEF RunGates
  <2>2. [pipe[i] EXCEPT !.stage = "record", !.verdict = "rejected-gate"]
            \in LaunchedPipe
    BY <2>1 DEF LaunchedPipe, Stages, Inner, Verdicts
  <2>3. Enter(i, "bench") => pipe' \in [Slots -> Pipe]
    BY <1>9, EnterType DEF RunGates, Stages, Inner
  <2>4. Fail(i) => pipe' \in [Slots -> Pipe]
    BY <1>9, FailType DEF RunGates
  <2>5. pipe' \in [Slots -> Pipe]
    BY <1>9, <2>2, <2>3, <2>4 DEF RunGates, Pipe
  <2>. QED  BY <1>9, <2>5 DEF RunGates
<1>10. CASE Bench(i)
  <2>1. pipe[i] \in LaunchedPipe
    BY <1>10, IsLaunched DEF Bench
  <2>2. /\ [pipe[i] EXCEPT !.stage = "record", !.verdict = "rejected-bench"]
               \in LaunchedPipe
        /\ [pipe[i] EXCEPT !.stage = "sanitize", !.verdict = "accepted"]
               \in LaunchedPipe
    BY <2>1 DEF LaunchedPipe, Stages, Inner, Verdicts
  <2>3. Fail(i) => pipe' \in [Slots -> Pipe]
    BY <1>10, FailType DEF Bench
  <2>4. pipe' \in [Slots -> Pipe]
    BY <1>10, <2>2, <2>3 DEF Bench, Pipe
  <2>. QED  BY <1>10, <2>4 DEF Bench
<1>11. CASE Sanitize(i)
  <2>1. pipe[i] \in LaunchedPipe
    BY <1>11, IsLaunched DEF Sanitize
  <2>2. ASSUME NEW v \in {"accepted", "needs-human-review"}
        PROVE  /\ [pipe[i] EXCEPT !.stage = "record", !.verdict = v,
                                  !.san = tree] \in LaunchedPipe
               /\ [pipe[i] EXCEPT !.stage = "record", !.verdict = v]
                      \in LaunchedPipe
    BY <2>1 DEF LaunchedPipe, Stages, Inner, Verdicts, Binary
  <2>3. Fail(i) => pipe' \in [Slots -> Pipe]
    BY <1>11, FailType DEF Sanitize
  <2>4. pipe' \in [Slots -> Pipe]
    BY <1>11, <2>2, <2>3 DEF Sanitize, Pipe
  <2>. QED  BY <1>11, <2>4 DEF Sanitize
<1>12. CASE RecordRow(i)
  <2>1. pipe[i] \in LaunchedPipe
    BY <1>12, IsLaunched DEF RecordRow
  <2>2. RowOf(i) \in Row
    BY <2>1 DEF RowOf, Row, LaunchedPipe
  <2>3. ledger' \in [RunIds -> Row \cup {NoRow}]
    BY <1>12, <2>2 DEF RecordRow
  <2>4. pipe' \in [Slots -> Pipe]
    BY <1>12, EnterType, FailType DEF RecordRow, Stages, Inner
  <2>. QED  BY <1>12, <2>3, <2>4 DEF RecordRow
<1>13. CASE ExitZero(i)
  BY <1>13, EnterType DEF ExitZero, Stages
<1>14. CASE ReleaseLock(i)
  <2>1. \A s \in Stages : Ended(i, s) \in Pipe
    BY <1>14, EndedType DEF ReleaseLock, Pipe
  <2>2. pipe' \in [Slots -> Pipe]
    BY <1>14, <2>1 DEF ReleaseLock, Stages
  <2>. QED  BY <1>14, <2>2 DEF ReleaseLock
<1>15. CASE MarkFailed(i)
  <2>1. pipe' \in [Slots -> Pipe]
    BY <1>15, EnterType DEF MarkFailed, Stages
  <2>2. Marker(i) \in Line
    BY Lines
  <2>3. log' \in [RunIds -> SUBSET Line]
    BY <1>15, <2>2 DEF MarkFailed
  <2>. QED  BY <1>15, <2>1, <2>3 DEF MarkFailed
<1>16. CASE Kill(i)
  <2>1. faults' \in 0 .. MaxFaults
    BY <1>16, OneMoreFault DEF Kill
  <2>. QED  BY <1>16, <2>1, FailType DEF Kill, Inner
<1>17. CASE Prints(i)
  BY <1>17, Lines DEF Prints
<1>. QED
  BY <1>1, <1>2, <1>3, <1>4, <1>5, <1>6, <1>7, <1>8, <1>9, <1>10, <1>11,
     <1>12, <1>13, <1>14, <1>15, <1>16, <1>17 DEF PipelineStep

\* A poll's steps preserve type correctness.
LEMMA PollerTypes ==
    ASSUME TypeOK, NEW c \in Pollers,
           PollStep(c) \/ (\E r \in RunIds : ReadVerdict(c, r))
    PROVE  TypeOK'
<1>. USE DEF TypeOK
<1>1. CASE \E r \in RunIds : ReadVerdict(c, r)
  BY <1>1 DEF ReadVerdict, Poll
<1>2. ASSUME poll[c].step \in {"ledger", "log"}
      PROVE  poll[c] \in [step : {"ledger", "log"}, run : RunIds]
  BY <1>2 DEF Poll, NotPolling
<1>3. CASE PollLedger(c)
  <2>1. [poll[c] EXCEPT !.step = "log"] \in Poll
    BY <1>2, <1>3 DEF PollLedger, Poll
  <2>2. poll' \in [Pollers -> Poll]
    BY <1>3, <2>1 DEF PollLedger, EndPoll, Poll
  <2>. QED  BY <1>3, <2>2 DEF PollLedger
<1>4. CASE PollLog(c)
  <2>1. poll[c].run \in RunIds
    BY <1>2, <1>4 DEF PollLog
  <2>2. [poll[c] EXCEPT !.step = "ledger"] \in Poll
    BY <1>2, <1>4 DEF PollLog, Poll
  <2>3. \A l \in log[poll[c].run] :
            [run |-> poll[c].run, by |-> l.by] \in Answer
    <3>1. \A l \in log[poll[c].run] : l.by \in Slots
      BY <2>1 DEF Line
    <3>. QED  BY <2>1, <3>1 DEF Answer
  <2>4. told' \in SUBSET Answer
    BY <1>4, <2>3 DEF PollLog
  <2>5. poll' \in [Pollers -> Poll]
    BY <1>4, <2>2 DEF PollLog, EndPoll, Poll
  <2>. QED  BY <1>4, <2>4, <2>5 DEF PollLog
<1>. QED  BY <1>1, <1>3, <1>4 DEF PollStep

\* Every reachable state is well typed: the lock only ever holds a run id,
\* a row only names patches, notes and binaries there are.
THEOREM TypeCorrect == Spec => []TypeOK
<1>1. Init => TypeOK
  <2>1. SUFFICES ASSUME Init PROVE TypeOK
    OBVIOUS
  <2>2. faults \in 0 .. MaxFaults
    BY <2>1, HarnessAssumption DEF Init
  <2>3. stash \in Seq(Tree)
    BY <2>1 DEF Init
  <2>. QED
    BY <2>1, <2>2, <2>3, TreeTypes
    DEF Init, TypeOK, Binary, Job, Pipe, Poll
<1>2. TypeOK /\ [Next]_vars => TypeOK'
  <2>. SUFFICES ASSUME TypeOK, [Next]_vars PROVE TypeOK'
    OBVIOUS
  <2>1. CASE \E d \in Daemons, p \in Patches : ProposePatch(d, p)
    BY <2>1, DaemonTypes
  <2>2. CASE \E d \in Daemons, p \in Patches, r \in RunIds :
                RunVerdict(d, p, r)
    BY <2>2, DaemonTypes
  <2>3. CASE \E d \in Daemons : HandlerStep(d) \/ DaemonCrash(d)
    BY <2>3, DaemonTypes
  <2>4. CASE \E i \in Slots : PipelineStep(i) \/ Prints(i) \/ Kill(i)
    BY <2>4, PipelineTypes
  <2>5. CASE \E c \in Pollers, r \in RunIds : ReadVerdict(c, r)
    BY <2>5, PollerTypes
  <2>6. CASE \E c \in Pollers : PollStep(c)
    BY <2>6, PollerTypes
  <2>7. CASE RemoveStaleLock
    <3>1. faults' \in 0 .. MaxFaults
      BY <2>7, OneMoreFault DEF RemoveStaleLock, TypeOK
    <3>. QED  BY <2>7, <3>1 DEF RemoveStaleLock, TypeOK
  <2>8. CASE HostCrash
    <3>1. faults' \in 0 .. MaxFaults
      BY <2>8, OneMoreFault DEF HostCrash, TypeOK
    <3>2. ASSUME NEW i \in Slots, Live(i) \/ pipe[i].stage = "mark"
          PROVE  Ended(i, "dead") \in Pipe
      BY <3>2, EndedType DEF TypeOK, Live, Inner, Stages, Pipe
    <3>3. pipe' \in [Slots -> Pipe]
      BY <2>8, <3>2 DEF HostCrash, TypeOK
    <3>4. job' \in [Daemons -> Job]
      BY <2>8 DEF HostCrash, Job
    <3>. QED  BY <2>8, <3>1, <3>3, <3>4 DEF HostCrash, TypeOK
  <2>9. CASE NetnsChanges
    BY <2>9 DEF NetnsChanges, TypeOK
  <2>10. CASE UNCHANGED vars
    BY <2>10 DEF vars, TypeOK
  <2>. QED
    BY <2>1, <2>2, <2>3, <2>4, <2>5, <2>6, <2>7, <2>8, <2>9, <2>10 DEF Next
<1>. QED  BY <1>1, <1>2, PTL DEF Spec

==============================================================================
