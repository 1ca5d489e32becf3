--------------------------- MODULE HarnessService ---------------------------
(***************************************************************************)
(* What the harness is to those outside: an agent that is told "failed" can *)
(* rely on it, and what the ledger shows is EvidenceService.                *)
(***************************************************************************)
EXTENDS HarnessSafety

-----------------------------------------------------------------------------
(***************************************************************************)
(* Answers, when agents use a run id for one launch only.                   *)
(***************************************************************************)

\* Who wrote a line, the script or the patch.
LEMMA LineIs ==
    /\ \A l \in Line : l.by \in Slots /\ l \in {Marker(l.by), Printed(l.by)}
    /\ \A i, j \in Slots :
          /\ Marker(i) # Printed(j)
          /\ Marker(i) = Marker(j) => i = j
          /\ Printed(i) = Printed(j) => i = j
BY DEF Line, Marker, Printed

\* A step that keeps each pipeline's run, lets what is over be over, adds to
\* the logs only a marker of what is over and what a patch printed in its own
\* run, and leaves requests alone or gives them up.
LEMMA LogStep ==
    ASSUME TypeOK, AnswerChain, UNCHANGED told,
           \A i \in Slots : pipe'[i].run = pipe[i].run,
           \A i \in Slots, r \in RunIds : Over(i, r) => Over(i, r)',
           \A d \in Daemons : job'[d].run \in {job[d].run, NoRun},
           \A r \in RunIds : log[r] \subseteq log'[r],
           \A i \in Slots, r \in RunIds :
              /\ Marker(i) \in log'[r] => Marker(i) \in log[r] \/ Over(i, r)'
              /\ Printed(i) \in log'[r] =>
                    Printed(i) \in log[r] \/ pipe[i].run = r
    PROVE  AnswerChain'
<1>1. RunIdsAreOwn'
  BY DEF AnswerChain, RunIdsAreOwn
<1>2. \A i \in Slots, r \in RunIds :
         /\ Marker(i) \in log'[r] => Over(i, r)'
         /\ Printed(i) \in log'[r] => HasPrinted(i, r)'
  BY DEF AnswerChain, HasPrinted
<1>3. \A a \in told : a.run \in RunIds /\ a.by \in Slots
  BY DEF TypeOK, Answer
<1>4. \A i \in Slots, r \in RunIds : HasPrinted(i, r) => HasPrinted(i, r)'
  BY DEF HasPrinted
<1>5. \A a \in told' : Over(a.by, a.run)' \/ HasPrinted(a.by, a.run)'
  BY <1>3, <1>4 DEF AnswerChain
<1>. QED  BY <1>1, <1>2, <1>5 DEF AnswerChain

\* A step that writes to no log.
LEMMA QuietStep ==
    ASSUME TypeOK, AnswerChain, UNCHANGED <<log, told>>,
           \A i \in Slots : pipe'[i].run = pipe[i].run,
           \A i \in Slots, r \in RunIds : Over(i, r) => Over(i, r)',
           \A d \in Daemons : job'[d].run \in {job[d].run, NoRun}
    PROVE  AnswerChain'
BY LogStep

\* A change of stage of a pipeline that is not over.
LEMMA RunsOn ==
    ASSUME TypeOK, NEW i \in Slots, pipe[i].stage \notin {"done", "dead"},
           pipe'[i].run = pipe[i].run,
           \A j \in Slots \ {i} : pipe'[j] = pipe[j]
    PROVE  /\ \A j \in Slots : pipe'[j].run = pipe[j].run
           /\ \A j \in Slots, r \in RunIds : Over(j, r) => Over(j, r)'
BY DEF Over

\* Until the lock is released, a pipeline's step keeps it live, its run and
\* its patch what they are, and the other pipelines alone.
LEMMA GoesOn ==
    ASSUME TypeOK, NEW i \in Slots, PipelineStep(i) \/ Kill(i),
           ~ReleaseLock(i), ~MarkFailed(i)
    PROVE  /\ Live(i) /\ Live(i)'
           /\ pipe'[i].run = pipe[i].run /\ pipe'[i].patch = pipe[i].patch
           /\ \A j \in Slots \ {i} : pipe'[j] = pipe[j]
<1>1. pipe \in [Slots -> Pipe]
  BY DEF TypeOK
<1>2. Live(i)
  BY DEF PipelineStep, Kill, At, Live, Inner, WrapperExecs, WrapperRefuses,
         BuildCandidate, BuildCandidateFails, BuildCandidateFallsThrough,
         StashPatch, BuildBaseline, PopStash, RunGates, Bench, Sanitize,
         RecordRow, ExitZero
<1>3. pipe[i] \in LaunchedPipe
  BY <1>2, LivePipeline
<1>. DEFINE On ==
         /\ pipe'[i].stage \in Inner \cup {"account"}
         /\ pipe'[i].run = pipe[i].run /\ pipe'[i].patch = pipe[i].patch
         /\ \A j \in Slots \ {i} : pipe'[j] = pipe[j]
<1>4. ASSUME NEW s \in Inner \cup {"account"}, Enter(i, s) PROVE On
  BY <1>1, <1>3, <1>4 DEF Enter, LaunchedPipe
<1>5. ASSUME Fail(i) PROVE On
  BY <1>1, <1>3, <1>5 DEF Fail, LaunchedPipe
<1>6. ASSUME NEW s \in Inner, NEW x,
             \/ pipe' = [pipe EXCEPT ![i].stage = s, ![i].isolated = x]
             \/ pipe' = [pipe EXCEPT ![i].stage = s, ![i].stashed = x]
             \/ pipe' = [pipe EXCEPT ![i].stage = s, ![i].misread = x]
             \/ pipe' = [pipe EXCEPT ![i].stage = s, ![i].failed = x]
             \/ pipe' = [pipe EXCEPT ![i].stage = s, ![i].verdict = x]
      PROVE  On
  <2>1. CASE pipe' = [pipe EXCEPT ![i].stage = s, ![i].isolated = x]
    BY <1>1, <1>3, <2>1 DEF LaunchedPipe
  <2>2. CASE pipe' = [pipe EXCEPT ![i].stage = s, ![i].stashed = x]
    BY <1>1, <1>3, <2>2 DEF LaunchedPipe
  <2>3. CASE pipe' = [pipe EXCEPT ![i].stage = s, ![i].failed = x]
    BY <1>1, <1>3, <2>3 DEF LaunchedPipe
  <2>4. CASE pipe' = [pipe EXCEPT ![i].stage = s, ![i].verdict = x]
    BY <1>1, <1>3, <2>4 DEF LaunchedPipe
  <2>5. CASE pipe' = [pipe EXCEPT ![i].stage = s, ![i].misread = x]
    BY <1>1, <1>3, <2>5 DEF LaunchedPipe
  <2>. QED  BY <1>6, <2>1, <2>2, <2>3, <2>4, <2>5
<1>7. ASSUME NEW s \in Inner, NEW v, NEW b,
             pipe' = [pipe EXCEPT ![i].stage = s, ![i].verdict = v,
                                  ![i].san = b]
      PROVE  On
  BY <1>1, <1>3, <1>7 DEF LaunchedPipe
<1>8. {"build", "baseline", "build baseline", "pop", "gates", "bench",
       "sanitize", "record", "exit"} = Inner
  BY DEF Inner
<1>. HIDE DEF On
<1>9. On
  <2>1. CASE WrapperExecs(i)
    BY <1>6, <1>8, <2>1, Zenon DEF WrapperExecs
  <2>2. CASE StashPatch(i)
    BY <1>4, <1>5, <1>6, <1>8, <2>2 DEF StashPatch, Misread
  <2>3. CASE BuildBaseline(i)
    BY <1>4, <1>6, <1>8, <2>3 DEF BuildBaseline
  <2>4. CASE PopStash(i)
    <3>1. Fail(i) \/ Enter(i, "gates")
      BY <2>4, Zenon DEF PopStash
    <3>. QED  BY <1>4, <1>5, <1>8, <3>1
  <2>5. CASE RunGates(i)
    BY <1>4, <1>5, <1>6, <1>8, <2>5 DEF RunGates
  <2>6. CASE Bench(i)
    BY <1>5, <1>6, <1>8, <2>6 DEF Bench
  <2>7. CASE Sanitize(i)
    <3>1. CASE Fail(i)
      BY <1>5, <3>1
    <3>2. CASE \E v \in {"accepted", "needs-human-review"} :
                  pipe' = [pipe EXCEPT ![i].stage = "record",
                                       ![i].verdict = v, ![i].san = tree]
      BY <1>7, <1>8, <3>2
    <3>3. CASE pipe' = [pipe EXCEPT ![i].stage = "record",
                                    ![i].verdict = "needs-human-review"]
      BY <1>6, <1>8, <3>3
    <3>. QED  BY <2>7, <3>1, <3>2, <3>3, Zenon DEF Sanitize
  <2>8. CASE \/ BuildCandidate(i) \/ BuildCandidateFallsThrough(i)
             \/ ExitZero(i) \/ RecordRow(i)
    <3>1. Fail(i) \/ \E s \in {"baseline", "account", "exit"} : Enter(i, s)
      BY <2>8 DEF BuildCandidate, BuildCandidateFallsThrough, ExitZero,
                  RecordRow
    <3>. QED  BY <1>4, <1>5, <1>8, <3>1
  <2>9. CASE Kill(i) \/ WrapperRefuses(i) \/ BuildCandidateFails(i)
    <3>1. Fail(i)
      BY <2>9 DEF Kill, WrapperRefuses, BuildCandidateFails
    <3>. QED  BY <1>5, <3>1
  <2>. QED
    BY <2>1, <2>2, <2>3, <2>4, <2>5, <2>6, <2>7, <2>8, <2>9 DEF PipelineStep
<1>. QED  BY <1>2, <1>9 DEF Live, On

\* A pipeline's steps.  Only the writing of the marker is about answers.
LEMMA PipelineKeepsAnswers ==
    ASSUME TypeOK, AnswerChain, NEW i \in Slots, PipelineStep(i) \/ Kill(i)
    PROVE  AnswerChain'
<1>1. pipe \in [Slots -> Pipe]
  BY DEF TypeOK
<1>2. pipe[i].stage \notin {"done", "dead", "free"}
  BY DEF PipelineStep, Kill, At, Inner, WrapperExecs, WrapperRefuses,
         BuildCandidate, BuildCandidateFails, BuildCandidateFallsThrough,
         StashPatch, BuildBaseline, PopStash, RunGates, Bench, Sanitize,
         RecordRow, ExitZero, ReleaseLock, MarkFailed
<1>3. pipe[i] \in LaunchedPipe
  BY <1>1, <1>2, IsLaunched
<1>4. /\ pipe'[i].run = pipe[i].run
      /\ \A j \in Slots \ {i} : pipe'[j] = pipe[j]
  <2>1. CASE ReleaseLock(i)
    BY <1>1, <1>3, <2>1 DEF ReleaseLock, Ended, NoPipe, LaunchedPipe
  <2>2. CASE MarkFailed(i)
    BY <1>1, <1>3, <2>2 DEF MarkFailed, Enter, LaunchedPipe
  <2>. QED  BY <2>1, <2>2, GoesOn
<1>5. job' = job /\ told' = told
  BY DEF PipelineStep, Kill, WrapperExecs, WrapperRefuses,
         BuildCandidate, BuildCandidateFails, BuildCandidateFallsThrough,
         StashPatch, BuildBaseline, PopStash, RunGates, Bench, Sanitize,
         RecordRow, ExitZero, ReleaseLock, MarkFailed
<1>6. CASE log' = log
  BY <1>2, <1>4, <1>5, <1>6, RunsOn, QuietStep
<1>7. CASE MarkFailed(i)
  <2>1. \A r \in RunIds : r = pipe[i].run => Over(i, r)'
    BY <1>1, <1>3, <1>7 DEF MarkFailed, Enter, Over, LaunchedPipe
  <2>2. /\ \A j \in Slots : pipe'[j].run = pipe[j].run
        /\ \A j \in Slots, r \in RunIds : Over(j, r) => Over(j, r)'
    BY <1>2, <1>4, RunsOn
  <2>3. \A r \in RunIds :
           /\ log[r] \subseteq log'[r]
           /\ \A l \in log'[r] \ log[r] : l = Marker(i) /\ r = pipe[i].run
    BY <1>7 DEF MarkFailed, TypeOK
  <2>4. \A j \in Slots, r \in RunIds :
           /\ Marker(j) \in log'[r] => Marker(j) \in log[r] \/ Over(j, r)'
           /\ Printed(j) \in log'[r] => Printed(j) \in log[r]
    BY <2>1, <2>3, LineIs
  <2>5. \A d \in Daemons : job'[d].run = job[d].run
    BY <1>5
  <2>. QED  BY <1>5, <2>2, <2>3, <2>4, <2>5, LogStep
<1>. QED
  BY <1>6, <1>7
  DEF PipelineStep, Kill, WrapperExecs, WrapperRefuses,
      BuildCandidate, BuildCandidateFails, BuildCandidateFallsThrough,
      StashPatch, BuildBaseline, PopStash, RunGates, Bench, Sanitize,
      RecordRow, ExitZero, ReleaseLock

\* What a patch prints goes into the log of its own run.
LEMMA PrintingKeepsAnswers ==
    ASSUME TypeOK, AnswerChain, NEW i \in Slots, Prints(i)
    PROVE  AnswerChain'
<1>1. UNCHANGED <<pipe, job, told>>
  BY DEF Prints
<1>2. \A r \in RunIds :
         /\ log[r] \subseteq log'[r]
         /\ \A l \in log'[r] \ log[r] : l = Printed(i) /\ r = pipe[i].run
  BY DEF Prints, TypeOK
<1>3. \A j \in Slots, r \in RunIds :
         /\ Marker(j) \in log'[r] => Marker(j) \in log[r]
         /\ Printed(j) \in log'[r] => Printed(j) \in log[r] \/ pipe[j].run = r
  BY <1>2, LineIs
<1>4. \A j \in Slots, r \in RunIds : Over(j, r) => Over(j, r)'
  BY <1>1 DEF Over
<1>. QED  BY <1>1, <1>2, <1>3, <1>4, LogStep

\* A daemon's steps.
LEMMA RequestKeepsAnswers ==
    ASSUME TypeOK, AnswerChain, FreshRunIds, NEW d \in Daemons,
           HandlerStep(d) \/ DaemonCrash(d)
             \/ (\E p \in Patches : ProposePatch(d, p))
             \/ (\E p \in Patches, r \in RunIds : RunVerdict(d, p, r))
    PROVE  AnswerChain'
<1>1. job \in [Daemons -> Job] /\ pipe \in [Slots -> Pipe]
  BY DEF TypeOK
<1>2. told' = told
  BY DEF HandlerStep, DaemonCrash, ProposePatch, RunVerdict, GitCheckout,
         GitClean, GitApply, StorePending, OpenLog, WriteLock,
         WriteLockFails, SpawnPipeline, SpawnFails
<1>3. ASSUME NEW s, Continue(d, s)
      PROVE  \A e \in Daemons : job'[e].run = job[e].run
  <2>1. \A e \in Daemons \ {d} : job'[e] = job[e]
    BY <1>1, <1>3 DEF Continue
  <2>2. job'[d] = [job[d] EXCEPT !.step = s]
    BY <1>1, <1>3 DEF Continue
  <2>3. job[d] \in {Idle} \cup ProposeJob \cup VerdictJob
    BY <1>1 DEF Job
  <2>4. "run" \in DOMAIN job[d]
    <3>1. CASE job[d] = Idle
      BY <3>1 DEF Idle
    <3>2. CASE job[d] \in ProposeJob
      BY <3>2 DEF ProposeJob
    <3>3. CASE job[d] \in VerdictJob
      BY <3>3 DEF VerdictJob
    <3>. QED  BY <2>3, <3>1, <3>2, <3>3
  <2>5. job'[d].run = job[d].run
    BY <2>2, <2>4
  <2>. QED  BY <2>1, <2>5
<1>4. ASSUME Return(d)
      PROVE  \A e \in Daemons : job'[e].run \in {job[e].run, NoRun}
  BY <1>1, <1>4 DEF Return, Idle
<1>5. CASE \/ GitCheckout(d) \/ GitClean(d) \/ GitApply(d)
           \/ StorePending(d) \/ WriteLock(d) \/ WriteLockFails(d)
           \/ SpawnFails(d) \/ DaemonCrash(d)
  <2>1. UNCHANGED <<log, pipe>> /\ (Return(d) \/ \E s : Continue(d, s))
    BY <1>5 DEF GitCheckout, GitClean, GitApply, StorePending, WriteLock,
                WriteLockFails, SpawnFails, DaemonCrash
  <2>2. \A e \in Daemons : job'[e].run \in {job[e].run, NoRun}
    BY <1>3, <1>4, <2>1
  <2>. QED  BY <1>2, <2>1, <2>2, QuietStep DEF Over
<1>6. CASE \E p \in Patches : ProposePatch(d, p)
  <2>1. UNCHANGED <<log, pipe>>
    BY <1>6 DEF ProposePatch
  <2>2. \A e \in Daemons : job'[e].run \in {job[e].run, NoRun}
    BY <1>1, <1>6 DEF ProposePatch, Idle
  <2>. QED  BY <1>2, <2>1, <2>2, QuietStep DEF Over
<1>7. CASE \E p \in Patches, r \in RunIds : RunVerdict(d, p, r)
  <2>1. PICK p \in Patches, r \in RunIds : RunVerdict(d, p, r)
    BY <1>7
  <2>2. UNCHANGED <<log, pipe>>
    BY <2>1 DEF RunVerdict
  <2>3. /\ \A i \in Slots : pipe[i].run # r
        /\ \A e \in Daemons : job[e].run # r
    BY <2>1 DEF RunVerdict, UsedRunIds
  <2>4. job'[d].run = r /\ \A e \in Daemons \ {d} : job'[e] = job[e]
    BY <1>1, <2>1 DEF RunVerdict, Idle
  <2>5. RunIdsAreOwn'
    BY <2>2, <2>3, <2>4 DEF AnswerChain, RunIdsAreOwn
  <2>. QED  BY <1>2, <2>2, <2>5 DEF AnswerChain, Over, HasPrinted
<1>8. CASE OpenLog(d)
  <2>1. job[d] \in VerdictJob
    BY <1>1, <1>8, JobSteps DEF OpenLog
  <2>2. \A e \in Daemons : job'[e].run \in {job[e].run, NoRun}
    <3>1. ASSUME job' = [job EXCEPT ![d].step = "lock",
                                    ![d].note = IsolationNote]
          PROVE  job'[d].run = job[d].run
                    /\ \A e \in Daemons \ {d} : job'[e] = job[e]
      BY <1>1, <2>1, <3>1 DEF VerdictJob
    <3>. QED  BY <1>4, <1>8, <3>1 DEF OpenLog
  <2>3. /\ pipe' = pipe
        /\ \A r \in RunIds : log'[r] \subseteq log[r]
        /\ \A r \in RunIds : r # job[d].run => log'[r] = log[r]
    BY <1>8 DEF OpenLog, TypeOK
  <2>4. RunIdsAreOwn'
    BY <2>2, <2>3 DEF AnswerChain, RunIdsAreOwn
  <2>5. \A i \in Slots : pipe[i].run # job[d].run
    BY <2>1, HarnessAssumption DEF AnswerChain, RunIdsAreOwn, VerdictJob
  <2>6. \A i \in Slots, r \in RunIds :
           /\ Over(i, r) => Over(i, r)'
           /\ HasPrinted(i, r) => HasPrinted(i, r)'
    BY <2>3, <2>5 DEF Over, HasPrinted
  <2>7. \A i \in Slots, r \in RunIds :
           /\ Marker(i) \in log'[r] => Over(i, r)'
           /\ Printed(i) \in log'[r] => HasPrinted(i, r)'
    BY <2>3, <2>6 DEF AnswerChain
  <2>8. \A a \in told : a.run \in RunIds /\ a.by \in Slots
    BY DEF TypeOK, Answer
  <2>. QED  BY <1>2, <2>4, <2>6, <2>7, <2>8 DEF AnswerChain
<1>9. CASE SpawnPipeline(d)
  <2>1. PICK i \in Slots :
            /\ FirstFree(i)
            /\ pipe' = [pipe EXCEPT ![i] = [NoPipe EXCEPT
                          !.stage = "wrapper", !.run = job[d].run,
                          !.patch = job[d].patch, !.note = job[d].note]]
    BY <1>9 DEF SpawnPipeline
  <2>2. /\ pipe'[i].run = job[d].run
        /\ \A j \in Slots \ {i} : pipe'[j] = pipe[j]
    BY <1>1, <2>1 DEF NoPipe
  <2>3. job'[d].run = NoRun /\ \A e \in Daemons \ {d} : job'[e] = job[e]
    BY <1>1, <1>9 DEF SpawnPipeline, Return, Idle
  <2>4. RunIdsAreOwn'
    BY <2>2, <2>3 DEF AnswerChain, RunIdsAreOwn
  <2>5. pipe[i].run \notin RunIds
    <3>1. pipe[i] \notin LaunchedPipe
      BY <2>1 DEF FirstFree, LaunchedPipe, Stages, Inner
    <3>2. pipe[i] = NoPipe
      BY <1>1, <3>1 DEF Pipe
    <3>. QED  BY <3>2, HarnessAssumption DEF NoPipe
  <2>6. \A a \in told : a.run \in RunIds /\ a.by \in Slots
    BY DEF TypeOK, Answer
  <2>7. log' = log
    BY <1>9 DEF SpawnPipeline
  <2>8. \A j \in Slots, r \in RunIds :
           /\ Over(j, r) => Over(j, r)'
           /\ HasPrinted(j, r) => HasPrinted(j, r)'
    BY <2>2, <2>5, <2>7 DEF Over, HasPrinted
  <2>9. \A j \in Slots, r \in RunIds :
           /\ Marker(j) \in log'[r] => Over(j, r)'
           /\ Printed(j) \in log'[r] => HasPrinted(j, r)'
    BY <2>7, <2>8 DEF AnswerChain
  <2>. QED  BY <1>2, <2>4, <2>6, <2>8, <2>9 DEF AnswerChain
<1>. QED  BY <1>5, <1>6, <1>7, <1>8, <1>9 DEF HandlerStep

\* A poll passes on what the log says.
LEMMA PollKeepsAnswers ==
    ASSUME TypeOK, AnswerChain, NEW c \in Pollers, PollStep(c)
    PROVE  AnswerChain'
<1>1. UNCHANGED <<log, job, pipe>>
  BY DEF PollStep, PollLedger, PollLog
<1>2. ASSUME poll[c].step = "log"
      PROVE  poll[c].run \in RunIds
  BY <1>2 DEF TypeOK, Poll, NotPolling
<1>3. ASSUME NEW a \in told', a \notin told
      PROVE  Over(a.by, a.run) \/ HasPrinted(a.by, a.run)
  <2>1. PICK l \in log[poll[c].run] :
           a = [run |-> poll[c].run, by |-> l.by]
    BY <1>3 DEF PollStep, PollLedger, PollLog
  <2>2. a.run \in RunIds /\ a.by = l.by /\ l \in log[a.run]
    <3>1. poll[c].step = "log"
      BY <1>3 DEF PollStep, PollLedger, PollLog
    <3>. QED  BY <1>2, <2>1, <3>1
  <2>3. l.by \in Slots /\ l \in {Marker(l.by), Printed(l.by)}
    BY <2>2, LineIs DEF TypeOK
  <2>. QED  BY <2>2, <2>3 DEF AnswerChain
<1>. QED
  BY <1>1, <1>3 DEF AnswerChain, RunIdsAreOwn, Over, HasPrinted

LEMMA AnswerStep ==
    ASSUME FreshRunIds, TypeOK, AnswerChain, [Next]_vars
    PROVE  AnswerChain'
<1>1. CASE \E i \in Slots : PipelineStep(i) \/ Kill(i)
  BY <1>1, PipelineKeepsAnswers
<1>2. CASE \/ \E d \in Daemons, p \in Patches : ProposePatch(d, p)
           \/ \E d \in Daemons, p \in Patches, r \in RunIds :
                  RunVerdict(d, p, r)
           \/ \E d \in Daemons : HandlerStep(d) \/ DaemonCrash(d)
  BY <1>2, RequestKeepsAnswers
<1>3. CASE \E c \in Pollers : PollStep(c)
  BY <1>3, PollKeepsAnswers
<1>4. CASE HostCrash
  <2>1. /\ \A i \in Slots : pipe'[i].run = pipe[i].run
        /\ \A i \in Slots, r \in RunIds : Over(i, r) => Over(i, r)'
    BY <1>4 DEF HostCrash, Ended, Over, NoPipe, Live, Inner
  <2>2. \A d \in Daemons : job'[d].run = NoRun
    BY <1>4 DEF HostCrash, Idle
  <2>3. UNCHANGED <<log, told>>
    BY <1>4 DEF HostCrash
  <2>. QED  BY <2>1, <2>2, <2>3, QuietStep
<1>5. CASE \/ \E c \in Pollers, r \in RunIds : ReadVerdict(c, r)
           \/ RemoveStaleLock \/ NetnsChanges \/ UNCHANGED vars
  <2>1. UNCHANGED <<log, told, job, pipe>>
    BY <1>5 DEF ReadVerdict, RemoveStaleLock, NetnsChanges, vars
  <2>. QED  BY <2>1, QuietStep DEF Over
<1>6. CASE \E i \in Slots : Prints(i)
  BY <1>6, PrintingKeepsAnswers
<1>. QED  BY <1>1, <1>2, <1>3, <1>4, <1>5, <1>6 DEF Next

LEMMA AnswersHold ==
    ASSUME FreshRunIds
    PROVE  Spec => []AnswerChain
<1>1. Init => AnswerChain
  BY DEF Init, AnswerChain, RunIdsAreOwn, Idle, NoPipe
<1>2. TypeOK /\ AnswerChain /\ [Next]_vars => AnswerChain'
  BY AnswerStep
<1>. QED  BY <1>1, <1>2, TypeCorrect, PTL DEF Spec

\* An agent that is told "failed" can go on: the run it asked about is over,
\* unless its own patch printed the marker's text (daemon.rs 521-545).
THEOREM FailedIsOver ==
    ASSUME FreshRunIds
    PROVE  Spec => []FailedMeansOver
<1>1. TypeOK /\ AnswerChain => FailedMeansOver
  <2>. SUFFICES ASSUME TypeOK, AnswerChain, NEW a \in told,
                       NEW i \in Slots, pipe[i].run = a.run
                PROVE  ~Live(i) \/ Printed(i) \in log[a.run]
    BY DEF FailedMeansOver
  <2>1. /\ a.run \in RunIds /\ a.by \in Slots
        /\ Over(a.by, a.run) \/ HasPrinted(a.by, a.run)
    BY DEF TypeOK, Answer, AnswerChain
  <2>2. i = a.by
    BY <2>1, HarnessAssumption
    DEF AnswerChain, RunIdsAreOwn, Over, HasPrinted
  <2>. QED  BY <2>1, <2>2 DEF Over, HasPrinted, Live, Inner
<1>. QED  BY <1>1, AnswersHold, TypeCorrect, PTL

\* "No ledger row ... will be written for this run_id" (daemon.rs 538-539),
\* unless the run's patch printed the marker's text.
THEOREM NothingAfterFailed ==
    ASSUME FreshRunIds
    PROVE  Spec => NoRowAfterFailed
<1>1. TypeOK /\ AnswerChain /\ [Next]_vars =>
         [\A a \in told :
             \/ ledger'[a.run] = ledger[a.run]
             \/ Printed(ledger'[a.run].by) \in log[a.run]]_vars
  <2>. SUFFICES ASSUME TypeOK, AnswerChain, Next, NEW a \in told
                PROVE  \/ ledger'[a.run] = ledger[a.run]
                       \/ Printed(ledger'[a.run].by) \in log[a.run]
    OBVIOUS
  <2>1. CASE ledger' = ledger
    BY <2>1
  <2>2. CASE \E i \in Slots : RecordRow(i)
    <3>1. PICK i \in Slots : RecordRow(i)
      BY <2>2
    <3>2. /\ a.run \in RunIds /\ a.by \in Slots
          /\ Over(a.by, a.run) \/ HasPrinted(a.by, a.run)
      BY DEF TypeOK, Answer, AnswerChain
    <3>3. pipe[i].stage = "record"
      BY <3>1 DEF RecordRow, At
    <3>4. CASE pipe[i].run = a.run
      <4>1. i = a.by
        BY <3>2, <3>4, HarnessAssumption
        DEF AnswerChain, RunIdsAreOwn, Over, HasPrinted
      <4>2. Printed(i) \in log[a.run]
        BY <3>2, <3>3, <4>1 DEF Over, HasPrinted
      <4>3. ledger' = ledger \/ ledger'[a.run] = RowOf(i)
        BY <3>1, <3>2, <3>4 DEF RecordRow, TypeOK
      <4>4. RowOf(i).by = i
        BY DEF RowOf
      <4>. QED  BY <4>2, <4>3, <4>4
    <3>5. CASE pipe[i].run # a.run
      BY <3>1, <3>2, <3>5 DEF RecordRow, TypeOK
    <3>. QED  BY <3>4, <3>5
  <2>. QED
    BY <2>1, <2>2
    DEF Next, ProposePatch, RunVerdict, HandlerStep, DaemonCrash,
        GitCheckout, GitClean, GitApply, StorePending, OpenLog, WriteLock,
        WriteLockFails, SpawnPipeline, SpawnFails, PipelineStep, Prints, Kill,
        WrapperExecs, WrapperRefuses, BuildCandidate, BuildCandidateFails,
        BuildCandidateFallsThrough, StashPatch, BuildBaseline, PopStash,
        RunGates, Bench, Sanitize, ExitZero, ReleaseLock, MarkFailed,
        ReadVerdict, PollStep, PollLedger, PollLog, RemoveStaleLock,
        HostCrash, NetnsChanges
<1>. QED  BY <1>1, AnswersHold, TypeCorrect, PTL DEF Spec, NoRowAfterFailed

-----------------------------------------------------------------------------
(***************************************************************************)
(* Accounting: the lock, and what every launch leaves behind.               *)
(***************************************************************************)

\* A lock goes stale only by a crash, or by a disk that is full between the
\* creation of the lock and its writing (daemon.rs 363-374, 443-481).
THEOREM LocksGoStaleByCrashes == Spec => StaleOnlyByCrash
<1>1. TypeOK /\ [Next]_vars =>
         [StaleLock' => \/ StaleLock
                        \/ HostCrash
                        \/ \E d \in Daemons :
                              DaemonCrash(d) \/ WriteLockFails(d)]_vars
  <2>. SUFFICES ASSUME TypeOK, Next, StaleLock', ~HostCrash,
                       \A d \in Daemons :
                           ~DaemonCrash(d) /\ ~WriteLockFails(d)
                PROVE  StaleLock
    OBVIOUS
  <2>1. /\ lock' # NoRun
        /\ \A i \in Slots : ~Live(i)'
        /\ \A d \in Daemons : job'[d].step # "spawn"
    BY DEF StaleLock
  <2>2. CASE \E i \in Slots : PipelineStep(i) \/ Kill(i)
    <3>1. PICK i \in Slots : PipelineStep(i) \/ Kill(i)
      BY <2>2
    <3>2. MarkFailed(i)
      BY <2>1, <3>1, GoesOn DEF ReleaseLock
    <3>3. UNCHANGED <<lock, job>>
      BY <3>2 DEF MarkFailed
    <3>4. ~Live(i) /\ \A j \in Slots \ {i} : pipe'[j] = pipe[j]
      BY <3>2 DEF MarkFailed, At, Enter, Live, Inner, TypeOK
    <3>. QED  BY <2>1, <3>3, <3>4 DEF StaleLock, Live
  <2>3. CASE \E d \in Daemons : SpawnPipeline(d)
    <3>1. PICK d \in Daemons, i \in Slots :
              pipe' = [pipe EXCEPT ![i] = [NoPipe EXCEPT
                         !.stage = "wrapper", !.run = job[d].run,
                         !.patch = job[d].patch, !.note = job[d].note]]
      BY <2>3 DEF SpawnPipeline
    <3>2. pipe'[i].stage = "wrapper"
      BY <3>1 DEF TypeOK, NoPipe
    <3>. QED  BY <2>1, <3>2 DEF Live
  <2>4. CASE \E d \in Daemons : WriteLock(d)
    <3>1. PICK d \in Daemons : WriteLock(d)
      BY <2>4
    <3>2. job[d] \in VerdictJob
      BY <3>1, JobSteps DEF WriteLock, TypeOK
    <3>3. job'[d].step = "spawn"
      BY <3>1, <3>2 DEF WriteLock, Continue, VerdictJob, TypeOK
    <3>. QED  BY <2>1, <3>3
  <2>5. CASE RemoveStaleLock \/ \E d \in Daemons : SpawnFails(d)
    BY <2>1, <2>5 DEF RemoveStaleLock, SpawnFails
  <2>6. CASE \E d \in Daemons :
               \/ GitCheckout(d) \/ GitClean(d) \/ GitApply(d)
               \/ StorePending(d) \/ OpenLog(d)
               \/ \E p \in Patches : ProposePatch(d, p)
               \/ \E p \in Patches, r \in RunIds : RunVerdict(d, p, r)
    <3>1. PICK d \in Daemons :
              \/ GitCheckout(d) \/ GitClean(d) \/ GitApply(d)
              \/ StorePending(d) \/ OpenLog(d)
              \/ \E p \in Patches : ProposePatch(d, p)
              \/ \E p \in Patches, r \in RunIds : RunVerdict(d, p, r)
      BY <2>6
    <3>2. UNCHANGED <<lock, pipe>>
      BY <3>1 DEF GitCheckout, GitClean, GitApply, StorePending, OpenLog,
                  ProposePatch, RunVerdict
    <3>3. job[d].step # "spawn"
      BY <3>1, IdleStep
      DEF GitCheckout, GitClean, GitApply, StorePending, OpenLog,
          ProposePatch, RunVerdict
    <3>4. \A e \in Daemons \ {d} : job'[e] = job[e]
      BY <3>1 DEF GitCheckout, GitClean, GitApply, StorePending, OpenLog,
                  ProposePatch, RunVerdict, Continue, Return, TypeOK
    <3>. QED  BY <2>1, <3>2, <3>3, <3>4 DEF StaleLock, Live
  <2>7. CASE UNCHANGED <<lock, job, pipe>>
    BY <2>1, <2>7 DEF StaleLock, Live
  <2>. QED
    BY <2>2, <2>3, <2>4, <2>5, <2>6, <2>7
    DEF Next, HandlerStep, ReadVerdict, PollStep, PollLedger, PollLog,
        Prints, NetnsChanges
<1>. QED  BY <1>1, TypeCorrect, PTL DEF Spec, StaleOnlyByCrash

\* What changes nothing about a launch leaves it accounted for.
LEMMA SameAccount ==
    ASSUME NEW j \in Slots, Accounted(j), pipe'[j] = pipe[j],
           faults' = 0 => faults = 0, Recorded(j)' <=> Recorded(j),
           Recorded(j) \/ pipe[j].stage = "done" =>
               (Marker(j) \in log'[pipe[j].run]
                   <=> Marker(j) \in log[pipe[j].run])
    PROVE  Accounted(j)'
BY DEF Accounted

\* A launch is recorded or not whatever becomes of the other rows.
LEMMA SameRow ==
    ASSUME NEW j \in Slots, pipe'[j].run = pipe[j].run, ledger' = ledger
    PROVE  Recorded(j)' <=> Recorded(j)
BY DEF Recorded

\* Faults are counted up.
LEMMA FaultsAddUp ==
    ASSUME TypeOK, faults' = faults \/ faults' = faults + 1
    PROVE  faults' = 0 => faults = 0
<1>1. faults \in Int /\ faults >= 0
  BY HarnessAssumption DEF TypeOK
<1>. QED  BY <1>1

\* Up to the row, a launch has none, and nothing to answer for but that it
\* has not failed before it says so.
LEMMA BeforeTheRow ==
    ASSUME NEW i \in Slots, Accounted(i),
           pipe[i].stage \notin {"exit", "account", "done"},
           pipe'[i].run = pipe[i].run, UNCHANGED <<faults, ledger>>,
           \/ /\ pipe'[i].stage \notin {"exit", "account", "done"}
              /\ pipe'[i].failed => pipe'[i].stage = "pop"
           \/ pipe'[i].stage = "account" /\ pipe'[i].failed
    PROVE  Accounted(i)'
<1>1. Recorded(i)' <=> Recorded(i)
  BY SameRow
<1>. QED  BY <1>1 DEF Accounted

\* The step of a pipeline, for that pipeline.
LEMMA PipelineAccounts ==
    ASSUME TypeOK, AnswerChain, AccountChain, NEW i \in Slots,
           PipelineStep(i) \/ Kill(i)
    PROVE  Accounted(i)'
<1>1. pipe \in [Slots -> Pipe] /\ Accounted(i)
  BY DEF TypeOK, AccountChain
<1>2. pipe[i].stage # "free"
  BY DEF PipelineStep, Kill, At, Inner, WrapperExecs, WrapperRefuses,
         BuildCandidate, BuildCandidateFails, BuildCandidateFallsThrough,
         StashPatch, BuildBaseline, PopStash, RunGates, Bench, Sanitize,
         RecordRow, ExitZero, ReleaseLock, MarkFailed
<1>3. pipe[i] \in LaunchedPipe
  BY <1>1, <1>2, IsLaunched
<1>4. ASSUME NEW s, Enter(i, s)
      PROVE  /\ pipe'[i].stage = s /\ pipe'[i].run = pipe[i].run
             /\ pipe'[i].failed = pipe[i].failed
  BY <1>1, <1>3, <1>4 DEF Enter, LaunchedPipe
<1>5. ASSUME Fail(i)
      PROVE  /\ pipe'[i].stage = "account" /\ pipe'[i].run = pipe[i].run
             /\ pipe'[i].failed
  BY <1>1, <1>3, <1>5 DEF Fail, LaunchedPipe
<1>6. ASSUME NEW s, pipe' = [pipe EXCEPT ![i] = Ended(i, s)]
      PROVE  /\ pipe'[i].stage = s /\ pipe'[i].run = pipe[i].run
             /\ ~pipe'[i].failed
  BY <1>1, <1>6 DEF Ended, NoPipe
<1>7. pipe[i].failed => pipe[i].stage \in {"pop", "account"}
  BY <1>1 DEF Accounted
<1>8. CASE \/ WrapperExecs(i) \/ WrapperRefuses(i) \/ BuildCandidate(i)
           \/ BuildCandidateFails(i) \/ BuildCandidateFallsThrough(i)
           \/ StashPatch(i) \/ BuildBaseline(i) \/ PopStash(i)
           \/ RunGates(i) \/ Bench(i) \/ Sanitize(i)
           \/ RecordRow(i) /\ Fail(i) /\ ledger' = ledger
  <2>. DEFINE Before ==
           \/ /\ pipe'[i].stage \notin {"exit", "account", "done"}
              /\ pipe'[i].failed => pipe'[i].stage = "pop"
           \/ pipe'[i].stage = "account" /\ pipe'[i].failed
  <2>1. pipe[i].stage \notin {"exit", "account", "done"}
           /\ UNCHANGED <<faults, ledger>>
    BY <1>8
    DEF At, WrapperExecs, WrapperRefuses, BuildCandidate,
        BuildCandidateFails, BuildCandidateFallsThrough, StashPatch,
        BuildBaseline, PopStash, RunGates, Bench, Sanitize, RecordRow
  <2>2. pipe'[i].run = pipe[i].run
    BY <1>8, GoesOn
    DEF PipelineStep, At, MarkFailed, ReleaseLock, WrapperExecs,
        WrapperRefuses, BuildCandidate, BuildCandidateFails,
        BuildCandidateFallsThrough, StashPatch, BuildBaseline, PopStash,
        RunGates, Bench, Sanitize, RecordRow
  <2>3. Before
    <3>1. CASE WrapperExecs(i)
      BY <1>1, <1>3, <1>7, <3>1 DEF WrapperExecs, At, LaunchedPipe
    <3>2. CASE \/ WrapperRefuses(i) \/ BuildCandidateFails(i)
               \/ RecordRow(i) /\ Fail(i) /\ ledger' = ledger
      BY <1>5, <3>2 DEF WrapperRefuses, BuildCandidateFails
    <3>3. CASE BuildCandidate(i) \/ BuildCandidateFallsThrough(i)
      BY <1>4, <1>7, <3>3 DEF BuildCandidate, BuildCandidateFallsThrough, At
    <3>4. CASE StashPatch(i)
      <4>. pipe[i].stage = "baseline"
        BY <3>4 DEF StashPatch, At
      <4>1. CASE pipe' = [pipe EXCEPT ![i].stage = "build baseline",
                                      ![i].stashed = TRUE]
        BY <1>1, <1>3, <1>7, <4>1 DEF LaunchedPipe
      <4>2. CASE Enter(i, "build baseline")
        <5>1. pipe'[i].stage = "build baseline" /\ ~pipe'[i].failed
          BY <1>4, <1>7, <4>2
        <5>. QED  BY <5>1
      <4>3. CASE Fail(i)
        BY <1>5, <4>3
      <4>4. CASE pipe' = [pipe EXCEPT ![i].stage = "build baseline",
                                      ![i].misread = TRUE]
        BY <1>1, <1>3, <1>7, <4>4 DEF LaunchedPipe
      <4>. QED  BY <3>4, <4>1, <4>2, <4>3, <4>4 DEF StashPatch, Misread
    <3>5. CASE BuildBaseline(i)
      <4>1. CASE pipe' = [pipe EXCEPT ![i].stage = "pop", ![i].failed = TRUE]
        BY <1>1, <1>3, <4>1 DEF LaunchedPipe
      <4>2. CASE Enter(i, "pop")
        BY <1>4, <4>2
      <4>. QED  BY <3>5, <4>1, <4>2 DEF BuildBaseline
    <3>6. CASE PopStash(i)
      <4>1. Fail(i) \/ (Enter(i, "gates") /\ ~pipe[i].failed)
        <5>1. CASE pipe[i].failed
          BY <3>6, <5>1 DEF PopStash
        <5>2. CASE ~pipe[i].failed
          BY <3>6, <5>2, Zenon DEF PopStash
        <5>. QED  BY <5>1, <5>2
      <4>. QED  BY <1>4, <1>5, <4>1
    <3>7. CASE RunGates(i)
      <4>1. CASE pipe' = [pipe EXCEPT ![i].stage = "record",
                                      ![i].verdict = "rejected-gate"]
        BY <1>1, <1>3, <1>7, <3>7, <4>1 DEF RunGates, At, LaunchedPipe
      <4>. QED  BY <1>4, <1>5, <1>7, <3>7, <4>1 DEF RunGates, At
    <3>8. CASE Bench(i)
      <4>1. CASE \E s, v : pipe' = [pipe EXCEPT ![i].stage = s,
                                                ![i].verdict = v]
                             /\ s \in {"record", "sanitize"}
        BY <1>1, <1>3, <1>7, <3>8, <4>1 DEF Bench, At, LaunchedPipe
      <4>. QED  BY <1>5, <3>8, <4>1 DEF Bench
    <3>9. CASE Sanitize(i)
      <4>1. CASE \E v \in {"accepted", "needs-human-review"} :
                    pipe' = [pipe EXCEPT ![i].stage = "record",
                                         ![i].verdict = v, ![i].san = tree]
        BY <1>1, <1>3, <1>7, <3>9, <4>1 DEF Sanitize, At, LaunchedPipe
      <4>2. CASE pipe' = [pipe EXCEPT ![i].stage = "record",
                                      ![i].verdict = "needs-human-review"]
        BY <1>1, <1>3, <1>7, <3>9, <4>2 DEF Sanitize, At, LaunchedPipe
      <4>. QED  BY <1>5, <3>9, <4>1, <4>2 DEF Sanitize
    <3>. QED
      BY <1>8, <3>1, <3>2, <3>3, <3>4, <3>5, <3>6, <3>7, <3>8, <3>9
  <2>. QED  BY <1>1, <2>1, <2>2, <2>3, BeforeTheRow
<1>9. CASE RecordRow(i) /\ Enter(i, "exit")
           /\ ledger' = [ledger EXCEPT ![pipe[i].run] = RowOf(i)]
  <2>1. pipe[i].run \in RunIds
    BY <1>3 DEF LaunchedPipe
  <2>2. ledger'[pipe[i].run] = RowOf(i) /\ RowOf(i).by = i
    BY <1>9, <2>1 DEF TypeOK, RowOf
  <2>3. Marker(i) \notin log[pipe[i].run]
    BY <1>9, <2>1 DEF AnswerChain, Over, RecordRow, At
  <2>4. pipe'[i].stage = "exit" /\ pipe'[i].run = pipe[i].run
           /\ ~pipe'[i].failed
    BY <1>4, <1>7, <1>9 DEF RecordRow, At
  <2>5. RowOf(i) # NoRow
    BY <1>3, NoRowAssumption DEF RowOf, Row, LaunchedPipe, TypeOK
  <2>6. log' = log
    BY <1>9 DEF RecordRow
  <2>. QED  BY <2>1, <2>2, <2>3, <2>4, <2>5, <2>6 DEF Accounted, Recorded
<1>10. CASE ExitZero(i)
  <2>1. pipe'[i].stage = "account" /\ pipe'[i].run = pipe[i].run
           /\ ~pipe'[i].failed /\ Recorded(i)
    BY <1>1, <1>4, <1>7, <1>10 DEF ExitZero, At, Accounted
  <2>2. UNCHANGED <<faults, ledger, log>>
    BY <1>10 DEF ExitZero
  <2>3. Recorded(i)'
    BY <2>1, <2>2, SameRow
  <2>. QED  BY <1>1, <2>1, <2>2, <2>3 DEF Accounted
<1>11. CASE ReleaseLock(i)
  <2>1. pipe'[i].run = pipe[i].run /\ ~pipe'[i].failed
           /\ pipe'[i].stage = IF pipe[i].failed THEN "mark" ELSE "done"
    BY <1>6, <1>11 DEF ReleaseLock
  <2>2. UNCHANGED <<faults, ledger, log>> /\ pipe[i].stage = "account"
    BY <1>11 DEF ReleaseLock, At
  <2>3. Recorded(i)' <=> Recorded(i)
    BY <2>1, <2>2, SameRow
  <2>. QED  BY <1>1, <2>1, <2>2, <2>3 DEF Accounted
<1>12. CASE MarkFailed(i)
  <2>1. pipe'[i].stage = "done" /\ pipe'[i].run = pipe[i].run
           /\ ~pipe'[i].failed /\ pipe[i].stage = "mark"
    BY <1>4, <1>7, <1>12 DEF MarkFailed, At
  <2>2. UNCHANGED <<faults, ledger>>
    BY <1>12 DEF MarkFailed
  <2>3. Marker(i) \in log'[pipe[i].run]
    BY <1>3, <1>12 DEF MarkFailed, TypeOK, LaunchedPipe
  <2>4. Recorded(i)' <=> Recorded(i)
    BY <2>1, <2>2, SameRow
  <2>. QED  BY <1>1, <2>1, <2>2, <2>3, <2>4 DEF Accounted
<1>13. CASE Kill(i)
  <2>1. faults' # 0
    BY <1>13 DEF Kill, TypeOK
  <2>2. pipe'[i].stage = "account" /\ pipe'[i].failed
    BY <1>5, <1>13 DEF Kill
  <2>. QED  BY <2>1, <2>2 DEF Accounted
<1>. QED
  BY <1>8, <1>9, <1>10, <1>11, <1>12, <1>13 DEF PipelineStep, RecordRow

\* The step of a pipeline, for the others and for the rows.
LEMMA PipelineKeepsAccounts ==
    ASSUME TypeOK, AnswerChain, AccountChain, NEW i \in Slots,
           PipelineStep(i) \/ Kill(i)
    PROVE  AccountChain'
<1>1. /\ \A j \in Slots \ {i} : pipe'[j] = pipe[j]
      /\ pipe'[i].run = pipe[i].run
  <2>1. CASE ~ReleaseLock(i) /\ ~MarkFailed(i)
    BY <2>1, GoesOn
  <2>2. CASE ReleaseLock(i)
    BY <2>2 DEF ReleaseLock, Ended, NoPipe, TypeOK
  <2>3. CASE MarkFailed(i)
    <3>1. pipe[i] \in LaunchedPipe
      BY <2>3, IsLaunched DEF MarkFailed, At, TypeOK
    <3>. QED  BY <2>3, <3>1 DEF MarkFailed, Enter, LaunchedPipe, TypeOK
  <2>. QED  BY <2>1, <2>2, <2>3
<1>2. \/ UNCHANGED ledger
      \/ /\ RecordRow(i) /\ ledger[pipe[i].run] = NoRow
         /\ ledger' = [ledger EXCEPT ![pipe[i].run] = RowOf(i)]
  BY DEF PipelineStep, Kill, WrapperExecs, WrapperRefuses, BuildCandidate,
         BuildCandidateFails, BuildCandidateFallsThrough, StashPatch,
         BuildBaseline, PopStash, RunGates, Bench, Sanitize, RecordRow,
         ExitZero, ReleaseLock, MarkFailed
<1>3. RowOf(i).by = i
  BY DEF RowOf
<1>4. \A r \in RunIds :
         \/ ledger'[r] = ledger[r]
         \/ r = pipe[i].run /\ ledger[r] = NoRow /\ ledger'[r].by = i
  BY <1>2, <1>3 DEF TypeOK
<1>5. RowsNameTheirLaunch'
  <2>1. \A r \in RunIds : ledger[r] # NoRow => ledger[r].by \in Slots
    BY DEF TypeOK, Row
  <2>. QED
    BY <1>1, <1>4, <2>1 DEF AccountChain, RowsNameTheirLaunch
<1>6. ASSUME NEW j \in Slots, j # i
      PROVE  Accounted(j)'
  <2>1. Recorded(j)' <=> Recorded(j)
    BY <1>1, <1>4, <1>6 DEF Recorded
  <2>2. \/ UNCHANGED log
        \/ log' = [log EXCEPT ![pipe[i].run] = @ \cup {Marker(i)}]
    BY DEF PipelineStep, Kill, WrapperExecs, WrapperRefuses,
           BuildCandidate, BuildCandidateFails, BuildCandidateFallsThrough,
           StashPatch, BuildBaseline, PopStash, RunGates, Bench, Sanitize,
           RecordRow, ExitZero, ReleaseLock, MarkFailed
  <2>3. \A r \in RunIds : Marker(j) \in log'[r] <=> Marker(j) \in log[r]
    BY <1>6, <2>2, LineIs DEF TypeOK
  <2>4. Recorded(j) \/ pipe[j].stage = "done" => pipe[j].run \in RunIds
    BY IsLaunched DEF Recorded, TypeOK, LaunchedPipe
  <2>5. faults' = 0 => faults = 0
    BY FaultsAddUp
    DEF PipelineStep, Kill, WrapperExecs, WrapperRefuses,
        BuildCandidate, BuildCandidateFails, BuildCandidateFallsThrough,
        StashPatch, BuildBaseline, PopStash, RunGates, Bench, Sanitize,
        RecordRow, ExitZero, ReleaseLock, MarkFailed
  <2>. QED
    BY <1>1, <1>6, <2>1, <2>3, <2>4, <2>5, SameAccount DEF AccountChain
<1>7. Accounted(i)'
  BY PipelineAccounts
<1>. QED  BY <1>5, <1>6, <1>7 DEF AccountChain

\* A daemon's steps: none but the launch makes a pipeline, and none takes a
\* marker from a launch's log.
LEMMA RequestKeepsAccounts ==
    ASSUME TypeOK, AnswerChain, AccountChain, NEW d \in Daemons,
           HandlerStep(d) \/ DaemonCrash(d)
    PROVE  AccountChain'
<1>1. ledger' = ledger /\ (faults' = 0 => faults = 0)
  BY FaultsAddUp
  DEF HandlerStep, DaemonCrash, GitCheckout, GitClean, GitApply,
      StorePending, OpenLog, WriteLock, WriteLockFails, SpawnPipeline,
      SpawnFails
<1>2. ASSUME NEW j \in Slots, pipe'[j] = pipe[j]
      PROVE  Recorded(j)' <=> Recorded(j)
  BY <1>1, <1>2, SameRow
<1>3. CASE UNCHANGED <<pipe, log>>
  BY <1>1, <1>2, <1>3, SameAccount DEF AccountChain, RowsNameTheirLaunch
<1>4. CASE OpenLog(d)
  <2>1. pipe' = pipe
    BY <1>4 DEF OpenLog
  <2>2. job[d].run \in RunIds
    BY <1>4, JobSteps DEF OpenLog, VerdictJob, TypeOK
  <2>3. \A j \in Slots : pipe[j].run # job[d].run
    BY <2>2, HarnessAssumption DEF AnswerChain, RunIdsAreOwn
  <2>4. \A r \in RunIds : r # job[d].run => log'[r] = log[r]
    BY <1>4 DEF OpenLog, TypeOK
  <2>5. \A j \in Slots :
           Recorded(j) \/ pipe[j].stage = "done" => pipe[j].run \in RunIds
    BY IsLaunched DEF Recorded, TypeOK, LaunchedPipe
  <2>6. ASSUME NEW j \in Slots PROVE Accounted(j)'
    BY <1>1, <1>2, <2>1, <2>3, <2>4, <2>5, SameAccount DEF AccountChain
  <2>. QED  BY <1>1, <2>1, <2>6 DEF AccountChain, RowsNameTheirLaunch
<1>5. CASE SpawnPipeline(d)
  <2>1. PICK i \in Slots :
            /\ FirstFree(i)
            /\ pipe' = [pipe EXCEPT ![i] = [NoPipe EXCEPT
                          !.stage = "wrapper", !.run = job[d].run,
                          !.patch = job[d].patch, !.note = job[d].note]]
    BY <1>5 DEF SpawnPipeline
  <2>2. /\ pipe'[i].stage = "wrapper" /\ pipe'[i].run = job[d].run
        /\ ~pipe'[i].failed
        /\ \A j \in Slots \ {i} : pipe'[j] = pipe[j]
    BY <2>1 DEF NoPipe, TypeOK
  <2>3. pipe[i].run = NoRun
    <3>1. pipe[i] \notin LaunchedPipe
      BY <2>1 DEF FirstFree, LaunchedPipe, Stages, Inner
    <3>2. pipe[i] = NoPipe
      BY <3>1 DEF TypeOK, Pipe
    <3>. QED  BY <3>2 DEF NoPipe
  <2>4. ASSUME NEW r \in RunIds, ledger[r] # NoRow
        PROVE  ledger[r].by \in Slots \ {i} /\ pipe[ledger[r].by].run = r
    <3>1. ledger[r].by \in Slots
      BY <2>4 DEF TypeOK, Row
    <3>2. pipe[ledger[r].by].run = r
      BY <2>4 DEF AccountChain, RowsNameTheirLaunch
    <3>. QED  BY <2>3, <3>1, <3>2, HarnessAssumption
  <2>5. RowsNameTheirLaunch'
    BY <1>1, <2>2, <2>4 DEF RowsNameTheirLaunch
  <2>6. ~Recorded(i)'
    BY <1>1, <2>2, <2>4 DEF Recorded
  <2>7. Accounted(i)'
    BY <2>2, <2>6 DEF Accounted
  <2>8. ASSUME NEW j \in Slots \ {i} PROVE Accounted(j)'
    <3>1. log' = log
      BY <1>5 DEF SpawnPipeline
    <3>. QED  BY <1>1, <1>2, <2>2, <3>1, SameAccount DEF AccountChain
  <2>. QED  BY <2>5, <2>7, <2>8 DEF AccountChain
<1>. QED
  BY <1>3, <1>4, <1>5
  DEF HandlerStep, DaemonCrash, GitCheckout, GitClean, GitApply,
      StorePending, WriteLock, WriteLockFails, SpawnFails

LEMMA AccountStep ==
    ASSUME TypeOK, AnswerChain, AccountChain, [Next]_vars
    PROVE  AccountChain'
<1>1. CASE \E i \in Slots : PipelineStep(i) \/ Kill(i)
  BY <1>1, PipelineKeepsAccounts
<1>2. CASE \E d \in Daemons : HandlerStep(d) \/ DaemonCrash(d)
  BY <1>2, RequestKeepsAccounts
<1>3. CASE HostCrash
  <2>1. ledger' = ledger /\ faults' # 0
    BY <1>3 DEF HostCrash, TypeOK
  <2>2. ASSUME NEW i \in Slots
        PROVE  /\ pipe'[i].run = pipe[i].run
               /\ Accounted(i)'
    <3>1. CASE Live(i) \/ pipe[i].stage = "mark"
      <4>1. /\ pipe'[i].stage = "dead" /\ pipe'[i].run = pipe[i].run
            /\ ~pipe'[i].failed
        BY <1>3, <3>1 DEF HostCrash, Ended, NoPipe
      <4>. QED  BY <2>1, <4>1 DEF Accounted
    <3>2. CASE ~(Live(i) \/ pipe[i].stage = "mark")
      <4>1. pipe'[i] = pipe[i] /\ log' = log
        BY <1>3, <3>2 DEF HostCrash
      <4>2. Recorded(i)' <=> Recorded(i)
        BY <2>1, <4>1, SameRow
      <4>. QED  BY <2>1, <4>1, <4>2, SameAccount DEF AccountChain
    <3>. QED  BY <3>1, <3>2
  <2>3. \A r \in RunIds : ledger[r] # NoRow => ledger[r].by \in Slots
    BY DEF TypeOK, Row
  <2>. QED  BY <2>1, <2>2, <2>3 DEF AccountChain, RowsNameTheirLaunch
<1>4. CASE UNCHANGED <<pipe, log, ledger>> /\ (faults' = 0 => faults = 0)
  <2>1. \A i \in Slots : Recorded(i)' <=> Recorded(i)
    BY <1>4, SameRow
  <2>. QED
    BY <1>4, <2>1, SameAccount DEF AccountChain, RowsNameTheirLaunch
<1>5. CASE \E i \in Slots : Prints(i)
  <2>1. UNCHANGED <<pipe, ledger, faults>>
    BY <1>5 DEF Prints
  <2>2. \A j \in Slots, r \in RunIds :
           Marker(j) \in log'[r] <=> Marker(j) \in log[r]
    <3>1. PICK i \in Slots : Prints(i)
      BY <1>5
    <3>2. \A r \in RunIds :
             /\ log[r] \subseteq log'[r]
             /\ \A l \in log'[r] \ log[r] : l = Printed(i)
      BY <3>1 DEF Prints, TypeOK
    <3>. QED  BY <3>2, LineIs
  <2>3. \A j \in Slots : Recorded(j)' <=> Recorded(j)
    BY <2>1, SameRow
  <2>4. \A j \in Slots :
           Recorded(j) \/ pipe[j].stage = "done" => pipe[j].run \in RunIds
    BY IsLaunched DEF Recorded, TypeOK, LaunchedPipe
  <2>5. \A j \in Slots : Accounted(j)'
    BY <2>1, <2>2, <2>3, <2>4, SameAccount DEF AccountChain
  <2>. QED  BY <2>1, <2>5 DEF AccountChain, RowsNameTheirLaunch
<1>. QED
  BY <1>1, <1>2, <1>3, <1>4, <1>5, FaultsAddUp
  DEF Next, ProposePatch, RunVerdict, ReadVerdict, PollStep, PollLedger,
      PollLog, RemoveStaleLock, NetnsChanges, vars

\* A pipeline whose scripts have ended has left a row or a marker, and
\* without a kill not both (daemon.rs 449-464).
THEOREM LaunchesAreAccounted ==
    ASSUME FreshRunIds
    PROVE  Spec => []EveryLaunchAccounted
<1>1. Init => AccountChain
  BY DEF Init, AccountChain, RowsNameTheirLaunch, Accounted, Recorded, NoPipe
<1>2. TypeOK /\ AnswerChain /\ AccountChain /\ [Next]_vars => AccountChain'
  BY AccountStep
<1>3. AccountChain => EveryLaunchAccounted
  BY DEF AccountChain, Accounted, EveryLaunchAccounted
<1>. QED  BY <1>1, <1>2, <1>3, AnswersHold, TypeCorrect, PTL DEF Spec

-----------------------------------------------------------------------------
(***************************************************************************)
(* The refinement, under the assumptions of HarnessSafety.                  *)
(***************************************************************************)
RunOf(i) == [launch |-> i, patch |-> pipe[i].patch, run |-> pipe[i].run]

\* The run that is going is the live pipeline's, ...
LEMMA RunningIs ==
    ASSUME NEW i \in Slots, Live(i), \A j \in Slots : Live(j) => j = i
    PROVE  Running = RunOf(i)
<1>1. (CHOOSE j \in Slots : Live(j)) = i
  OBVIOUS
<1>. QED  BY <1>1 DEF Running, RunOf

\* ... in the next state as in this one, ...
LEMMA RunningWillBe ==
    ASSUME NEW i \in Slots, Live(i)', \A j \in Slots : Live(j)' => j = i
    PROVE  Running' = RunOf(i)'
<1>1. (CHOOSE j \in Slots : Live(j)') = i
  OBVIOUS
<1>. QED  BY <1>1 DEF Running, RunOf

\* ... and there is none without one.
LEMMA RunningNot ==
    /\ (\A j \in Slots : ~Live(j)) => Running = NoRun
    /\ (\A j \in Slots : ~Live(j)') => Running' = NoRun
BY DEF Running

\* A run is no absence of one.
LEMMA RunIsRun ==
    ASSUME TypeOK, NEW i \in Slots, Live(i)
    PROVE  RunOf(i) \in Service!Run /\ RunOf(i) # NoRun
<1>1. pipe[i].patch \in Patches /\ pipe[i].run \in RunIds
  BY LivePipeline DEF LaunchedPipe
<1>2. RunOf(i) \in [launch : Slots, patch : Patches, run : RunIds]
  BY <1>1 DEF RunOf
<1>. QED  BY <1>2, HarnessAssumption DEF Service!Run, Slots

\* A step that starts and ends no pipeline and records nothing.
LEMMA NothingSeen ==
    ASSUME EvidenceChain, ledger' = ledger,
           \A j \in Slots :
              /\ Live(j)' <=> Live(j)
              /\ Live(j) => pipe'[j].patch = pipe[j].patch
                               /\ pipe'[j].run = pipe[j].run
    PROVE  UNCHANGED <<Running, Published>>
<1>1. Running' = Running
  <2>1. CASE \E i \in Slots : Live(i)
    <3>1. PICK i \in Slots : Live(i)
      BY <2>1
    <3>2. \A j \in Slots : Live(j) => j = i
      BY <3>1 DEF EvidenceChain, PipelineHoldsLock
    <3>3. Running = RunOf(i)
      BY <3>1, <3>2, RunningIs
    <3>4. Running' = RunOf(i)'
      BY <3>1, <3>2, RunningWillBe
    <3>. QED  BY <3>1, <3>3, <3>4 DEF RunOf
  <2>2. CASE \A i \in Slots : ~Live(i)
    BY <2>2, RunningNot
  <2>. QED  BY <2>1, <2>2
<1>. QED  BY <1>1 DEF Published

\* The launch of a pipeline is the start of a run.
LEMMA SpawnIsStart ==
    ASSUME TypeOK, TypeOK', EvidenceChain, NEW d \in Daemons, SpawnPipeline(d)
    PROVE  Service!Start
<1>1. \A j \in Slots : ~Live(j)
  BY BusyDaemon, IdleStep DEF SpawnPipeline
<1>2. PICK i \in Slots :
          pipe' = [pipe EXCEPT ![i] = [NoPipe EXCEPT
                     !.stage = "wrapper", !.run = job[d].run,
                     !.patch = job[d].patch, !.note = job[d].note]]
  BY DEF SpawnPipeline
<1>3. pipe'[i].stage = "wrapper" /\ \A j \in Slots \ {i} : pipe'[j] = pipe[j]
  BY <1>2 DEF TypeOK, NoPipe
<1>4. Live(i)' /\ \A j \in Slots : Live(j)' => j = i
  BY <1>1, <1>3 DEF Live
<1>5. Running = NoRun /\ Running' = RunOf(i)'
  BY <1>1, <1>4, RunningNot, RunningWillBe
<1>6. pipe'[i] \in LaunchedPipe
  BY <1>3 DEF TypeOK, Pipe, NoPipe
<1>7. Running' \in Service!Run
  BY <1>5, <1>6 DEF RunOf, Service!Run, LaunchedPipe
<1>8. Published' = Published
  BY DEF SpawnPipeline, Published
<1>. QED  BY <1>5, <1>7, <1>8 DEF Service!Start

\* The row is one the service may publish.
LEMMA RecordIsPublish ==
    ASSUME TypeOK, EvidenceChain, EvidenceChain', NEW i \in Slots, RecordRow(i)
    PROVE  Service!Publish \/ UNCHANGED <<Running, Published>>
<1>1. Live(i)
  BY DEF RecordRow, At, Live, Inner
<1>2. pipe[i] \in LaunchedPipe /\ pipe \in [Slots -> Pipe]
  BY <1>1, LivePipeline DEF TypeOK
<1>3. \A j \in Slots :
         /\ Live(j)' <=> Live(j)
         /\ Live(j) => pipe'[j].patch = pipe[j].patch
                          /\ pipe'[j].run = pipe[j].run
  <2>1. /\ pipe'[i].stage \in {"exit", "account"}
        /\ pipe'[i].patch = pipe[i].patch /\ pipe'[i].run = pipe[i].run
    BY <1>2 DEF RecordRow, Enter, Fail, LaunchedPipe
  <2>2. \A j \in Slots \ {i} : pipe'[j] = pipe[j]
    BY <1>2 DEF RecordRow, Enter, Fail
  <2>. QED  BY <1>1, <2>1, <2>2 DEF Live, Inner
<1>4. CASE ledger' = ledger
  BY <1>3, <1>4, NothingSeen
<1>5. CASE /\ ledger[pipe[i].run] = NoRow
           /\ ledger' = [ledger EXCEPT ![pipe[i].run] = RowOf(i)]
           /\ ledger' # ledger
  <2>. DEFINE r == pipe[i].run
              p == pipe[i].patch
              v == pipe[i].verdict
              c == candBin[p]
              m == pipe[i].misread
              b == BaselineOf(pipe[i])
              row == [patch |-> p, verdict |-> v, cand |-> c,
                      base |-> b, misread |-> m, launch |-> i]
  <2>1. r \in RunIds /\ p \in Patches /\ v \in Verdicts /\ m \in BOOLEAN
    BY <1>2 DEF LaunchedPipe
  <2>2. \A q \in RunIds : ledger'[q] = IF q = r THEN RowOf(i) ELSE ledger[q]
    BY <1>5 DEF TypeOK
  <2>3. ledger'[r] = RowOf(i) /\ RowOf(i) # NoRow
    BY <1>5, <2>1, <2>2 DEF TypeOK
  <2>4. /\ RowOf(i).patch = p /\ RowOf(i).verdict = v /\ RowOf(i).cand = c
        /\ RowOf(i).misread = m /\ RowOf(i).by = i
    BY DEF RowOf
  <2>5. /\ c = Patched(p) \/ (c = Missing /\ v = "rejected-gate")
        /\ RowOf(i).base = b
    BY <2>1, <2>3, <2>4 DEF EvidenceChain, RowIsAboutItsPatch, BaselineOf
  <2>6. c \in Service!Evidence(p, v)
    BY <2>5
    DEF Service!Evidence, Service!Patched, Patched
  <2>7. Running = RunOf(i)
    BY <1>1, RunningIs DEF EvidenceChain, PipelineHoldsLock
  <2>8. Running # NoRun /\ Running.run = r /\ Running.patch = p
           /\ Running.launch = i
    BY <1>1, <2>7, RunIsRun DEF RunOf
  <2>9. Running' = Running
    BY <1>1, <1>3, <2>7, RunningWillBe DEF RunOf, EvidenceChain,
                                           PipelineHoldsLock
  <2>10. Published[r] = NoRow
    BY <1>5, <2>1 DEF Published
  <2>11. Published' = [Published EXCEPT ![r] = row]
    <3>1. ASSUME NEW q \in RunIds, q # r
          PROVE  Published'[q] = Published[q]
      BY <2>2, <3>1 DEF Published
    <3>2. Published'[r] = row
      BY <2>1, <2>3, <2>4, <2>5 DEF Published
    <3>. QED  BY <2>1, <3>1, <3>2 DEF Published
  <2>12. b = Service!Baseline(p, m)
    BY DEF BaselineOf, Service!Baseline, Service!HeadTree, HeadTree,
           Service!Patched, Patched
  <2>. HIDE DEF row
  <2>13. row = [patch |-> Running.patch, verdict |-> v, cand |-> c,
                base |-> Service!Baseline(Running.patch, m), misread |-> m,
                launch |-> Running.launch]
    BY <2>8, <2>12 DEF row
  <2>. HIDE DEF r, p, v, c, m, b
  <2>. QED
    BY <2>1, <2>6, <2>8, <2>9, <2>10, <2>11, <2>13 DEF Service!Publish
<1>. QED  BY <1>4, <1>5 DEF RecordRow

\* The release of the lock is the end of the run.
LEMMA ReleaseIsEnd ==
    ASSUME TypeOK, EvidenceChain, NEW i \in Slots, ReleaseLock(i)
    PROVE  Service!End
<1>1. Live(i)
  BY DEF ReleaseLock, At, Live
<1>2. \A j \in Slots : Live(j) => j = i
  BY <1>1 DEF EvidenceChain, PipelineHoldsLock
<1>3. Running # NoRun
  BY <1>1, <1>2, RunningIs, RunIsRun
<1>4. pipe'[i].stage \in {"mark", "done"}
         /\ \A j \in Slots \ {i} : pipe'[j] = pipe[j]
  BY DEF ReleaseLock, Ended, NoPipe, TypeOK
<1>5. \A j \in Slots : ~Live(j)'
  BY <1>2, <1>4 DEF Live, Inner
<1>6. Published' = Published
  BY DEF ReleaseLock, Published
<1>. QED  BY <1>3, <1>5, <1>6, RunningNot DEF Service!End

\* So is the host's crash, when a run is going.
LEMMA CrashIsEnd ==
    ASSUME TypeOK, EvidenceChain, HostCrash
    PROVE  Service!End \/ UNCHANGED <<Running, Published>>
<1>1. \A j \in Slots : ~Live(j)'
  BY DEF HostCrash, Live, Inner, Ended, NoPipe
<1>2. Published' = Published
  BY DEF HostCrash, Published
<1>3. CASE \E i \in Slots : Live(i)
  <2>1. PICK i \in Slots : Live(i)
    BY <1>3
  <2>2. Running # NoRun
    BY <2>1, RunningIs, RunIsRun DEF EvidenceChain, PipelineHoldsLock
  <2>. QED  BY <1>1, <1>2, <2>2, RunningNot DEF Service!End
<1>4. CASE \A i \in Slots : ~Live(i)
  BY <1>1, <1>2, <1>4, RunningNot
<1>. QED  BY <1>3, <1>4

\* The rest of what a pipeline does is not seen.
LEMMA PipelineIsUnseen ==
    ASSUME TypeOK, EvidenceChain, NEW i \in Slots,
           PipelineStep(i) \/ Kill(i), ~RecordRow(i), ~ReleaseLock(i)
    PROVE  UNCHANGED <<Running, Published>>
<1>1. ledger' = ledger
  BY DEF PipelineStep, Kill, WrapperExecs, WrapperRefuses,
         BuildCandidate, BuildCandidateFails, BuildCandidateFallsThrough,
         StashPatch, BuildBaseline, PopStash, RunGates, Bench, Sanitize,
         ExitZero, MarkFailed
<1>2. CASE MarkFailed(i)
  <2>1. ~Live(i) /\ ~Live(i)' /\ \A j \in Slots \ {i} : pipe'[j] = pipe[j]
    BY <1>2 DEF TypeOK, MarkFailed, At, Enter, Live, Inner
  <2>2. \A j \in Slots \ {i} : Live(j)' <=> Live(j)
    BY <2>1 DEF Live
  <2>. QED  BY <1>1, <2>1, <2>2, NothingSeen
<1>3. CASE ~MarkFailed(i)
  <2>1. \A j \in Slots :
           /\ Live(j)' <=> Live(j)
           /\ Live(j) => pipe'[j].patch = pipe[j].patch
                            /\ pipe'[j].run = pipe[j].run
    BY <1>3, GoesOn DEF Live
  <2>. QED  BY <1>1, <2>1, NothingSeen
<1>. QED  BY <1>2, <1>3

LEMMA ServiceStep ==
    ASSUME TypeOK, TypeOK', EvidenceChain, EvidenceChain', [Next]_vars
    PROVE  [Service!Next]_<<Running, Published>>
<1>1. CASE \E i \in Slots : PipelineStep(i) \/ Kill(i)
  BY <1>1, RecordIsPublish, ReleaseIsEnd, PipelineIsUnseen DEF Service!Next
<1>2. CASE \E d \in Daemons : SpawnPipeline(d)
  BY <1>2, SpawnIsStart DEF Service!Next
<1>3. CASE HostCrash
  BY <1>3, CrashIsEnd DEF Service!Next
<1>4. CASE UNCHANGED <<pipe, ledger>>
  BY <1>4, NothingSeen DEF Live
<1>. QED
  BY <1>1, <1>2, <1>3, <1>4
  DEF Next, ProposePatch, RunVerdict, HandlerStep, DaemonCrash, GitCheckout,
      GitClean, GitApply, StorePending, OpenLog, WriteLock, WriteLockFails,
      SpawnFails, Prints, ReadVerdict, PollStep, PollLedger, PollLog,
      RemoveStaleLock, NetnsChanges, vars

\* With daemons that take turns and nothing ignored, what is seen of the
\* harness is the service: one run at a time, rows that never change, and in
\* each the evidence of its own patch, against the pinned commit unless git
\* status failed.
THEOREM ServiceInTurns ==
    ASSUME NothingIgnored
    PROVE  Spec /\ []RequestsTakeTurns => ImplementsService
<1>1. Init => Service!Init
  <2>. SUFFICES ASSUME Init PROVE Service!Init
    OBVIOUS
  <2>1. \A i \in Slots : ~Live(i)
    BY DEF Init, Live, NoPipe, Inner
  <2>2. Running = NoRun
    BY <2>1, RunningNot
  <2>3. Published = [r \in RunIds |-> NoRow]
    BY DEF Init, Published
  <2>. QED  BY <2>2, <2>3 DEF Service!Init
<1>2. TypeOK /\ TypeOK' /\ EvidenceChain /\ EvidenceChain' /\ [Next]_vars
         => [Service!Next]_<<Running, Published>>
  BY ServiceStep
<1>. QED
  BY <1>1, <1>2, TypeCorrect, EvidenceInTurns, PTL
  DEF Spec, ImplementsService, Service!Spec

\* A daemon alone implements the service.
THEOREM HarnessImplementsService ==
    ASSUME OneDaemon, NothingIgnored
    PROVE  Spec => ImplementsService
<1>1. RequestsTakeTurns
  BY DEF OneDaemon, RequestsTakeTurns
<1>. QED  BY <1>1, ServiceInTurns, PTL

==============================================================================
