------------------------------ MODULE MCHarness ------------------------------
(***************************************************************************)
(* Harness on small instances: a tracked file, a file only patches create   *)
(* and a file the workspace ignores.                                        *)
(***************************************************************************)
EXTENDS HarnessInv, TLC

CONSTANTS src, new, obj,   \* paths
          p1, p2, p3       \* patches

\* p1 edits a file and adds one, p2 edits the same file, p3 adds an ignored
\* file beside an edit.
MCTouches == [p \in Patches |-> Files \cap
    CASE p = p1 -> {src, new} [] p = p2 -> {src} [] p = p3 -> {src, obj}]

\* Run ids are told apart by nothing but being different, and so are daemons.
Interchangeable == Permutations(RunIds) \cup Permutations(Daemons)

\* allowUnisolated means nothing to an override.
AnyEnvironment == {[wrapper |-> "no-net.sh", allowUnisolated |-> FALSE],
                   [wrapper |-> "no-net.sh", allowUnisolated |-> TRUE],
                   [wrapper |-> "override",  allowUnisolated |-> FALSE]}

DefaultEnvironment == {[wrapper |-> "no-net.sh", allowUnisolated |-> FALSE]}

OverridingEnvironment == {[wrapper |-> "no-net.sh", allowUnisolated |-> TRUE]}

==============================================================================
