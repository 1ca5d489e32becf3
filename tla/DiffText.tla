------------------------------ MODULE DiffText ------------------------------
(***************************************************************************)
(* The text of a patch and its three readers, each with its own idea of     *)
(* what a line is: the daemon's allowlist, which vets the paths, the risk   *)
(* classifier, which reads the changed lines, and explain, which counts     *)
(* them.  None of them follows the hunks; git does.                         *)
(***************************************************************************)
EXTENDS Integers, Sequences, FiniteSets

\* A component of a path, up to how many times " b" is appended to its base:
\* the text " b/", which separates the two names of a git header, is the end
\* of such a component.
Component == [base : {"name", ".", "..", ".git"}, tail : Nat]

\* How a path is written: behind a/ or b/, as /dev/null, between quotes,
\* from the root, or with nothing in front.
Forms == {"prefixed", "null", "quoted", "absolute", "bare"}
Path  == [form : Forms, comps : Seq(Component)]

Tokens == {"concurrency", "unsafe", "floating-point"}
\* "rename" is `rename from/to` and `copy from/to`; "rename old" is `rename
\* old/new`, an older spelling that git honours and the allowlist does not
\* know.
Kinds  == {"diff --git", "---", "+++", "rename", "rename old", "added",
           "removed", "other"}

\* A line: what git takes it for, how the text of a changed line begins ("++"
\* or "--" glued to what follows, or followed by a space), the most telling
\* token on it, and the paths a header names.  path of a changed line is what
\* its text reads like behind "++ " or "-- "; from is for git headers.  Where
\* a tab stands in a path, path ends there; beyond is for renames, in which
\* git reads on: the component the tab is in, a name, and those behind it.
Line == [kind : Kinds, lead : {"plain", "glued", "spaced"},
         token : Tokens \cup {"none"}, path : Path, from : Path,
         beyond : Seq(Component)]

IsChange(l) == l.kind \in {"added", "removed"}

(***************************************************************************)
(* The allowlist.                                                           *)
(***************************************************************************)

\* A ".." is refused wherever it stands; ".. b" is a name like any other.
Ordinary(c) == c.tail > 0 \/ c.base \in {"name", "."}

CheckRelPath(comps) == \A i \in DOMAIN comps : Ordinary(comps[i])

VetExtracted(p) ==
    \/ p.form = "null"
    \/ /\ p.form \in {"prefixed", "bare"}
       /\ p.comps # <<>> /\ CheckRelPath(p.comps)

VetFileHeader(p) == p.form \in {"null", "prefixed"} /\ VetExtracted(p)

\* The component with " b" appended, and without.
WithB(c)    == [base |-> c.base, tail |-> c.tail + 1]
WithoutB(c) == [base |-> c.base, tail |-> c.tail - 1]

\* "a/<x> b/<y>" behind its a/, as one run of components.
HeaderText(x, y) == [x EXCEPT ![Len(x)] = WithB(@)] \o y

Splits(text) == {i \in 1 .. Len(text) - 1 : text[i].tail > 0}

LastSplit(text) ==
    CHOOSE i \in Splits(text) : \A j \in Splits(text) : j <= i

\* Split at the last " b/", which need not be the one between the names.
SplitGitHeaderPaths(text) ==
    LET i == LastSplit(text)
    IN  << [j \in 1 .. i |-> IF j = i THEN WithoutB(text[j]) ELSE text[j]],
           SubSeq(text, i + 1, Len(text)) >>

\* A header without its a/ and b/ cannot be split.
VetGitHeader(x, y) ==
    /\ x.form = "prefixed" /\ y.form = "prefixed"
    /\ LET halves == SplitGitHeaderPaths(HeaderText(x.comps, y.comps))
       IN  \A h \in {1, 2} : halves[h] # <<>> /\ CheckRelPath(halves[h])

\* The space is overlooked: a line such as "---x" is taken for a header.
ReadsAsFileHeaderUnspaced(l) ==
    l.kind \in {"---", "+++"} \/ (IsChange(l) /\ l.lead # "plain")

\* The text "--- " or "+++ " in front, hunk or no hunk.
ReadsAsFileHeader(l) ==
    l.kind \in {"---", "+++"} \/ (IsChange(l) /\ l.lead = "spaced")

\* Only the file a hunk ends up in is looked at.
VetNewName(l) ==
    CASE l.kind = "diff --git"  -> VetGitHeader(l.from, l.path)
      [] l.kind = "+++"         -> VetFileHeader(l.path)
      [] OTHER                  -> TRUE

VetLine(l) ==
    CASE l.kind = "diff --git"  -> VetGitHeader(l.from, l.path)
      [] ReadsAsFileHeader(l)   -> VetFileHeader(l.path)
      [] l.kind = "rename"      -> VetExtracted(l.path)
      [] OTHER                  -> TRUE

CheckDiffPaths(diff) == \A i \in DOMAIN diff : VetLine(diff[i])

(***************************************************************************)
(* The risk classifier.                                                     *)
(***************************************************************************)

\* A line that begins with "+++" or "---" is taken for a file header.
IsChangedLine(l) == IsChange(l) /\ l.lead = "plain"

Classify(diff, fpTolerance) ==
    ({diff[i].token : i \in {k \in DOMAIN diff : IsChangedLine(diff[k])}}
        \cap Tokens)
        \cup (IF fpTolerance THEN {"fp-tolerance-equivalence"} ELSE {})

(***************************************************************************)
(* The shape explain prints of a patch.                                     *)
(***************************************************************************)
ReadsAs(l, marker, kind) ==
    l.kind = marker \/ (l.kind = kind /\ l.lead = "spaced")

\* Absent the two markers the patch is taken for a placeholder.
HasShape(diff) ==
    /\ \E i \in DOMAIN diff : ReadsAs(diff[i], "---", "removed")
    /\ \E i \in DOMAIN diff : ReadsAs(diff[i], "+++", "added")

\* Every line that is not a file by its space is an added line.
AddedUnlessSpaced(diff) == {i \in DOMAIN diff : /\ diff[i].kind = "added"
                                                /\ diff[i].lead # "spaced"}

Added(diff)   == {i \in DOMAIN diff : /\ diff[i].kind = "added"
                                      /\ diff[i].lead = "plain"}
Removed(diff) == {i \in DOMAIN diff : /\ diff[i].kind = "removed"
                                      /\ diff[i].lead = "plain"}

CountedLines(diff) ==
    IF HasShape(diff) THEN Added(diff) \cup Removed(diff) ELSE {}

\* git writes a hunk behind the two names of its file.
HunksHaveHeaders(diff) ==
    (\E i \in DOMAIN diff : IsChange(diff[i])) =>
        \A marker \in {"---", "+++"} :
            \E i \in DOMAIN diff : diff[i].kind = marker

(***************************************************************************)
(* What git makes of the same text.                                         *)
(***************************************************************************)

\* A path that does not end at the tab.
Whole(l) ==
    IF l.beyond = <<>> THEN l.path
    ELSE [form  |-> IF l.path.form = "null" THEN "absolute" ELSE l.path.form,
          comps |-> SubSeq(l.path.comps, 1, Len(l.path.comps) - 1)
                        \o l.beyond]

\* The paths git may write: those of the lines it takes for headers.  It
\* takes a name from a git header only where both names on it are the same.
NamedBy(l) ==
    CASE l.kind = "diff --git" ->
             IF l.from.comps = l.path.comps THEN {l.from, l.path} ELSE {}
      [] l.kind \in {"---", "+++"}           -> {l.path}
      [] l.kind \in {"rename", "rename old"} -> {Whole(l)}
      [] OTHER                              -> {}

IsUp(c)   == c.base = ".." /\ c.tail = 0
IsStep(c) == ~IsUp(c) /\ ~(c.base = "." /\ c.tail = 0)

\* Walking down the path never leaves the workspace nor enters .git.
Inside(p) ==
    \/ p.form = "null"
    \/ /\ p.form \in {"prefixed", "bare"}
       /\ \A k \in DOMAIN p.comps :
             /\ p.comps[k] # [base |-> ".git", tail |-> 0]
             /\ Cardinality({j \in 1 .. k : IsUp(p.comps[j])})
                    <= Cardinality({j \in 1 .. k : IsStep(p.comps[j])})

\* `git apply` refuses any other patch.
NamesOnlyInside(diff) ==
    \A i \in DOMAIN diff : \A p \in NamedBy(diff[i]) : Inside(p)

\* A header that git reads and the allowlist does not, or not to its end.
Unseen(l) ==
    \/ l.kind = "rename old"
    \/ l.kind = "rename" /\ l.beyond # <<>>

OnlyUnseenLeave(diff) ==
    \A i \in DOMAIN diff :
        Unseen(diff[i]) \/ \A p \in NamedBy(diff[i]) : Inside(p)

\* A path git itself would write for a file of the workspace.
Plain(p, forms) ==
    \/ p.form = "null" /\ "null" \in forms
    \/ /\ p.form \in forms \ {"null"}
       /\ p.comps # <<>>
       /\ \A k \in DOMAIN p.comps : p.comps[k].base \in {"name", "."}

HeaderForms(l) ==
    CASE l.kind = "diff --git"               -> {"prefixed"}
      [] l.kind \in {"rename", "rename old"} -> {"prefixed", "bare", "null"}
      [] OTHER                               -> {"prefixed", "null"}

\* The paths that stand on a header, whatever git takes from it.
PathsOn(l) ==
    CASE l.kind = "diff --git"               -> {l.from, l.path}
      [] l.kind \in {"---", "+++"}            -> {l.path}
      [] l.kind \in {"rename", "rename old"} -> {l.path, Whole(l)}
      [] OTHER                               -> {}

\* A header that names no such path, or a changed line that reads like a
\* header: the only causes a refusal can have.
Objectionable(l) ==
    \/ \E p \in PathsOn(l) : ~Plain(p, HeaderForms(l))
    \/ IsChange(l) /\ l.lead = "spaced"

\* No name in a git header is empty.
FilesNamed(diff) ==
    \A i \in DOMAIN diff :
        diff[i].kind = "diff --git" =>
            diff[i].from.comps # <<>> /\ diff[i].path.comps # <<>>

==============================================================================
