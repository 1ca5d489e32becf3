------------------------------- MODULE Poller -------------------------------
(***************************************************************************)
(* read_verdict: a long poll that holds no lock.  Each turn opens the       *)
(* ledger, then reads the run's log, then sleeps; the files change between  *)
(* these reads.                                                             *)
(***************************************************************************)
EXTENDS HarnessState

ReadVerdict(c, r) ==
    /\ poll[c] = NotPolling
    /\ poll' = [poll EXCEPT ![c] = [step |-> "ledger", run |-> r]]
    /\ UNCHANGED <<env, netns, faults, tree, stash, pending, lock, log,
                   candBin, baseBin, ledger, job, pipe, told>>

EndPoll(c) == poll' = [poll EXCEPT ![c] = NotPolling]

\* verdict_summary: a row answers the request, and a ledger that cannot be
\* read ends it with an error.
PollLedger(c) ==
    /\ poll[c].step = "ledger"
    /\ \/ EndPoll(c)
       \/ /\ ledger[poll[c].run] = NoRow
          /\ poll' = [poll EXCEPT ![c].step = "log"]
    /\ UNCHANGED <<env, netns, faults, tree, stash, pending, lock, log,
                   candBin, baseBin, ledger, job, pipe, told>>

\* Without a row, the marker's text anywhere in the log answers "failed",
\* whoever wrote it; without either the request sleeps and tries again until
\* its deadline answers "running".
PollLog(c) ==
    /\ poll[c].step = "log"
    /\ LET lines == log[poll[c].run]
       IN  \/ /\ \E l \in lines :
                    told' = told \cup {[run |-> poll[c].run, by |-> l.by]}
              /\ EndPoll(c)
           \/ /\ lines = {}
              /\ told' = told
              /\ poll' = [poll EXCEPT ![c].step = "ledger"] \/ EndPoll(c)
    /\ UNCHANGED <<env, netns, faults, tree, stash, pending, lock, log,
                   candBin, baseBin, ledger, job, pipe>>

PollStep(c) == PollLedger(c) \/ PollLog(c)

==============================================================================
