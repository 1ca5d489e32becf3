-------------------------- MODULE VerdictInPipeline --------------------------
(***************************************************************************)
(* The verdict process as Pipeline sees it.  Pipeline leaves open what      *)
(* gates, bench and sanitizer lanes decide; here the process of VerdictRule *)
(* is put in its place, as launch 1 of a harness that has built candidate   *)
(* and baseline and popped the patch back, and whose run has no row yet.    *)
(* The workspace is one file that the patch writes.                         *)
(***************************************************************************)
EXTENDS VerdictRule

CONSTANT Missing    \* no binary

File   == "file"
Run    == "run"
AtHead == "head"

\* A binary that is missing is none that was built.
ASSUME MissingAssumption == Missing \notin [{File} -> Diffs]

\* The tree with the patch on it, and what is built from it.
TestedTree == [f \in {File} |-> input.diff]

(***************************************************************************)
(* Where the process is in the pipeline.  The sanitizers' part is over as   *)
(* soon as a lane has capped the verdict: no later step can lift it.        *)
(***************************************************************************)
StageOf ==
    CASE step \in {"vet", "refused"}                          -> "free"
      [] step \in {"pins", "tests", "golden", "fuzz", "grade"} -> "gates"
      [] step \in {"bench", "decide"}                         -> "bench"
      [] step \in OnAccept /\ verdict = "accepted"            -> "sanitize"
      [] step \in OnAccept /\ verdict # "accepted"            -> "record"
      [] step = "record"                                      -> "record"
      [] step = "done"                                        -> "exit"
      [] step = "error"                                       -> "account"

\* The accept, if it is still one, has been through every lane.
LanesOver ==
    \/ verdict # "accepted"
    \/ step \in {"record", "done"}
    \/ step = "error" /\ (input.target.tsanBuild => lane.tsan # "not run")

\* The instrumented build that ran, if one did.
SanitizedBuild ==
    IF LanesOver /\ lane.asan \in {"clean", "flagged"} THEN TestedTree
    ELSE Missing

\* The verdict a pipeline starts with, until the process has one.
VerdictOf == IF verdict = "none" THEN "rejected-gate" ELSE verdict

Process ==
    [stage |-> StageOf, run |-> Run, patch |-> input.diff,
     note |-> "no-net.sh", isolated |-> TRUE, stashed |-> TRUE,
     misread |-> FALSE, verdict |-> VerdictOf, san |-> SanitizedBuild,
     failed |-> step = "error"]

\* The row, as the harness's properties see it.
RecordedRow ==
    IF row = NoRow THEN NoRow
    ELSE [patch |-> input.diff, verdict |-> row.verdict,
          note |-> IF row.verdict = "rejected-gate" THEN "unrecorded"
                   ELSE "no-net.sh",
          cand |-> TestedTree, base |-> [f \in {File} |-> AtHead],
          san |-> SanitizedBuild, isolated |-> TRUE, misread |-> FALSE,
          by |-> 1]

Launched == INSTANCE Pipeline WITH
    Files <- {File}, Tracked <- {File}, Ignored <- {}, Patches <- Diffs,
    Applicable <- Diffs, Touches <- [d \in Diffs |-> {File}],
    AtHead <- AtHead, Missing <- Missing,
    Daemons <- {}, Pollers <- {}, RunIds <- {Run}, MaxLaunches <- 1,
    MaxFaults <- 0, Environments <- {}, NetnsVaries <- FALSE,
    FreshRunIds <- TRUE, SplitBuild <- FALSE, StatusFails <- FALSE,
    Printing <- {}, NoRun <- "no run", UnknownRun <- "",
    NoPatch <- "no patch", NoRow <- NoRow,
    env <- [wrapper |-> "no-net.sh", allowUnisolated |-> FALSE],
    netns <- TRUE, faults <- 0, tree <- TestedTree, stash <- <<>>,
    pending <- {input.diff}, lock <- Run, log <- [r \in {Run} |-> {}],
    candBin <- [d \in Diffs |-> [f \in {File} |-> d]],
    baseBin <- [f \in {File} |-> AtHead],
    ledger <- [r \in {Run} |-> RecordedRow],
    job <- <<>>, pipe <- [i \in {1} |-> Process], poll <- <<>>, told <- {}

\* Whatever gates, bench and lanes decide, and wherever a command fails, the
\* verdict process takes only steps Pipeline allows for: leaving its choices
\* open there has lost no behaviour of the process that makes them.  The
\* daemon launches it without --needs-human-review (daemon.rs 439-441;
\* verdict/main.rs 297-560).
StepsAreThePipelines ==
    [][step # "vet" /\ ~input.flag => Launched!PipelineStep(1)
      ]_<<Process, RecordedRow>>

==============================================================================
