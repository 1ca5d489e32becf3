------------------------------ MODULE Workspace ------------------------------
(***************************************************************************)
(* A target's git workspace (targets/<t>/workspace) as the harness uses it. *)
(* A tree records, for each path, whose version of the file is on disk:     *)
(* AtHead (the pinned commit's content, or absence when the commit does not *)
(* have the path) or the patch that last wrote it.  A binary is identified  *)
(* with the tree it was built from.                                         *)
(*                                                                          *)
(* The git commands are external; each operator is the effect the harness's *)
(* call of that command has on the tree.                                    *)
(***************************************************************************)
EXTENDS Integers, Sequences

CONSTANTS Files,       \* the paths of the workspace that matter
          Tracked,     \* those in the pinned commit
          Ignored,     \* untracked paths the workspace's .gitignore matches
          Patches,     \* diffs that pass the allowlist, by patch_id
          Applicable,  \* those whose hunks match the pinned commit
          Touches,     \* the files each patch writes
          AtHead,      \* the pinned commit's version of a file
          Missing      \* a binary that has never been built

ASSUME WorkspaceAssumption ==
    /\ Tracked \subseteq Files
    /\ Ignored \subseteq Files \ Tracked
    /\ Applicable \subseteq Patches
    /\ Touches \in [Patches -> (SUBSET Files) \ {{}}]
    /\ AtHead \notin Patches
    /\ Missing \notin [Files -> Patches \cup {AtHead}]

Tree   == [Files -> Patches \cup {AtHead}]
Binary == Tree \cup {Missing}

\* The pinned commit as checked out, and that checkout with one patch on it.
HeadTree   == [f \in Files |-> AtHead]
Patched(p) == [f \in Files |-> IF f \in Touches[p] THEN p ELSE AtHead]

\* `git checkout -- .`: every tracked file goes back to the commit.
Checkout(t) == [f \in Files |-> IF f \in Tracked THEN AtHead ELSE t[f]]

\* A reset that leaves out `git clean`.
CleanNothing(t) == t

\* `git clean -fdq`: untracked files are removed, ignored ones (no -x) are not.
Clean(t) ==
    [f \in Files |-> IF f \in Tracked \cup Ignored THEN t[f] ELSE AtHead]

\* `git apply --check`: the hunks match and no file the patch writes has
\* been changed, or created, by another.
Applies(p, t) ==
    /\ p \in Applicable
    /\ \A f \in Touches[p] : t[f] = AtHead

\* `git apply`, when it has written the files of W.
Write(p, W, t) == [f \in Files |-> IF f \in W THEN p ELSE t[f]]
Apply(p, t)    == Write(p, Touches[p], t)

\* `git status --porcelain` prints something: it never lists ignored files.
Dirty(t) == \E f \in Files \ Ignored : t[f] # AtHead

\* What `git stash --include-untracked` leaves on disk: ignored files stay.
Stashed(t) == [f \in Files |-> IF f \in Ignored THEN t[f] ELSE AtHead]

\* `git stash pop` of the entry s onto the tree t.
Unstashed(s, t) ==
    [f \in Files |-> IF f \in Ignored \/ s[f] = AtHead THEN t[f] ELSE s[f]]

==============================================================================
