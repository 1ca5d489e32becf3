--------------------------- MODULE EvidenceService ---------------------------
(***************************************************************************)
(* What the harness promises the agent and whoever reads the ledger: runs   *)
(* happen one at a time; a run that is going publishes at most one row, for *)
(* the run id and the patch it was started with; the row's evidence is a    *)
(* function of that patch, the pinned commit and whether git could say that *)
(* the patch was there, of nothing else that was ever proposed or tested;   *)
(* and a row never changes.                                                 *)
(***************************************************************************)
EXTENDS Workspace

CONSTANTS RunIds, Slots, Verdicts, NoRun, NoRow

VARIABLES running,   \* the run that is going: launch, patch and run id
          rows       \* the published rows

Run == [launch : Slots, patch : Patches, run : RunIds]

\* The only evidence a row about patch p can carry.
Evidence(p, v) ==
    {Patched(p)} \cup (IF v = "rejected-gate" THEN {Missing} ELSE {})

\* What it is measured against: the pinned commit, or the patch itself where
\* the patched tree was misread as clean.
Baseline(p, misread) == IF misread THEN Patched(p) ELSE HeadTree

Init ==
    /\ running = NoRun
    /\ rows = [r \in RunIds |-> NoRow]

Start ==
    /\ running = NoRun
    /\ running' \in Run
    /\ UNCHANGED rows

Publish ==
    /\ running # NoRun
    /\ rows[running.run] = NoRow
    /\ \E v \in Verdicts, m \in BOOLEAN : \E c \in Evidence(running.patch, v) :
          rows' = [rows EXCEPT ![running.run] =
                      [patch |-> running.patch, verdict |-> v, cand |-> c,
                       base |-> Baseline(running.patch, m), misread |-> m,
                       launch |-> running.launch]]
    /\ UNCHANGED running

End ==
    /\ running # NoRun
    /\ running' = NoRun
    /\ UNCHANGED rows

Next == Start \/ Publish \/ End

Spec == Init /\ [][Next]_<<running, rows>>

==============================================================================
