---------------------------- MODULE MCVerdictRule ----------------------------
(***************************************************************************)
(* VerdictRule on small instances: every kind of target, patches of a few   *)
(* lines of few kinds, intervals on every side of 1 and of the bar, and     *)
(* outputs that differ from the golden one in one way each.                 *)
(***************************************************************************)
EXTENDS VerdictInPipeline

\* A target names a binary only beside a build command, and a reference only
\* matters under a tolerance.
MCTargets == {t \in Target : /\ t.asanBinary => t.asanBuild
                             /\ t.tsanBinary => t.tsanBuild
                             /\ t.reference => t.fpTolerance}

\* The targets of the repository: no TSan lane, no tolerance.
PlainTargets == {t \in MCTargets : ~t.tsanBuild /\ ~t.fpTolerance}

\* A target of the kernel lane, without sanitizer lanes.
KernelTargets == {t \in MCTargets : /\ t.fpTolerance /\ ~t.tsanBuild
                                    /\ ~t.asanBuild}

(***************************************************************************)
(* Patches.                                                                 *)
(***************************************************************************)
C(base, tail) == [base |-> base, tail |-> tail]
Name          == C("name", 0)
NameB         == C("name", 1)

P(form, comps) == [form |-> form, comps |-> comps]
Rel(comps)     == P("prefixed", comps)
Null           == P("null", <<>>)
Source         == Rel(<<Name, Name>>)

Text(kind, lead, token, path) ==
    [kind |-> kind, lead |-> lead, token |-> token, path |-> path,
     from |-> Null, beyond |-> <<>>]
Changed(kind, lead, token) == Text(kind, lead, token, P("bare", <<Name>>))
Header(kind, path)         == Text(kind, "plain", "none", path)
GitHeader(x, y) == [Header("diff --git", y) EXCEPT !.from = x]

Plain1      == Changed("added", "plain", "none")
ContextLine == Changed("other", "plain", "unsafe")
RiskyLine   == Changed("removed", "plain", "concurrency")
DoubledLine == Changed("added", "glued", "concurrency")
CommentLine == Changed("removed", "spaced", "none")
PathLine    == Text("removed", "spaced", "none", Source)

\* A patch of one file, in whose name a risk token stands.
Patch(lines) ==
    << GitHeader(Source, Source), Header("---", Source),
       [Header("+++", Source) EXCEPT !.token = "concurrency"] >> \o lines

MCDiffs == {Patch(<<Plain1>>), Patch(<<Plain1, ContextLine>>),
            Patch(<<Plain1, RiskyLine>>)}

\* Renamed to a name with " b/" in it.
Renaming(x, y) == << GitHeader(x, y), Header("rename", P("bare", x.comps)),
                     Header("rename", P("bare", y.comps)) >>

Up       == C("..", 0)
Outside  == Rel(<<Up, Name>>)
OutsideB == Rel(<<NameB, Up, Name>>)

\* A rename whose path the allowlist reads up to a tab.
Tabbed(comps, beyond) ==
    [Header("rename", P("bare", comps)) EXCEPT !.beyond = beyond]

\* Let through: a glued line, a removed line that reads like a header with a
\* good path, renamings to a name with " b/" in it, to one with a tab in it
\* and in the older spelling, and git headers whose two names differ.
OddDiffs == {Patch(<<Plain1, DoubledLine>>), Patch(<<Plain1, PathLine>>),
             Renaming(Source, Rel(<<NameB, Name>>)),
             <<Tabbed(<<Name>>, <<Name, Name>>)>>,
             <<Header("rename old", P("bare", <<Name>>))>>,
             <<GitHeader(Rel(<<Name, Up>>), Rel(<<NameB, Name>>)),
               Header("---", Source), Header("+++", Source), Plain1>>}

\* Let through by the allowlist, and refused by git.
UnseenDiffs == {<<Header("rename old", P("bare", <<Up, Name>>))>>,
                <<Tabbed(<<Name>>, <<Name, Up, Up, Name>>)>>}

\* Refused: paths that leave the workspace, in each kind of header, beside
\* or behind a " b/", and a removed comment that renders as a header.
BadDiffs ==
    {Patch(<<Plain1, CommentLine>>),
     <<Header("---", Outside), Header("+++", Source), Plain1>>,
     <<Header("---", Source), Header("+++", Rel(<<C(".git", 0), Name>>)),
       Plain1>>,
     <<Header("---", P("quoted", <<Name>>)), Header("+++", Null)>>,
     <<Header("---", P("bare", <<Name>>)), Header("+++", P("bare", <<Name>>)),
       Plain1>>,
     <<Header("---", Null), Header("+++", P("absolute", <<Name>>)), Plain1>>,
     <<Header("rename", P("bare", <<Up, Name>>))>>,
     <<Tabbed(<<Up>>, <<Name>>)>>, <<Tabbed(<<>>, <<Name>>)>>}
        \cup {<<GitHeader(x, y)>> : x \in {Source, Rel(<<NameB, Name>>),
                                           Outside, OutsideB},
                                    y \in {Outside, OutsideB,
                                           Rel(<<Name, Up>>)}}
        \cup {<<GitHeader(x, x)>> : x \in {Rel(<<Up>>), Rel(<<NameB, Up>>)}}
        \cup {<<GitHeader(Outside, Rel(<<NameB, Name>>))>>}

AllDiffs  == MCDiffs \cup OddDiffs \cup UnseenDiffs \cup BadDiffs
RiskDiffs == MCDiffs \cup OddDiffs

(***************************************************************************)
(* Outputs.                                                                 *)
(***************************************************************************)
Out(tokens) == [tokens |-> tokens, spelling |-> 0]
Word(n)       == [kind |-> "word", n |-> n]

\* An absolute tolerance of 1 and a relative one of 50%: around 100, 51.
MCTol == [abs |-> 1, rel |-> 50]

Golden    == Out(<<Finite(100), NaN, Word(1)>>)
MCGoldens == {Golden}
MCOutputs ==
    {Golden, [Golden EXCEPT !.spelling = 1],
     Out(<<Finite(49), NaN, Word(1)>>), Out(<<Finite(152), NaN, Word(1)>>),
     Out(<<NaN, NaN, Word(1)>>), Out(<<Infinity, NaN, Word(1)>>),
     Out(<<Word(1), Finite(0), Word(1)>>),
     Out(<<Finite(100), Finite(0), Word(1)>>), Out(<<Finite(100), NaN>>)}

(***************************************************************************)
(* A regression, intervals that touch 1 from below, straddle it and touch   *)
(* it from above, one below the bar, one at it and one above.               *)
(***************************************************************************)
MCIntervals == {[lo |-> -2, hi |-> -1], [lo |-> -1, hi |-> 0],
                [lo |-> -1, hi |-> 3], [lo |-> 0, hi |-> 2],
                [lo |-> 1, hi |-> 3], [lo |-> 2, hi |-> 2],
                [lo |-> 3, hi |-> 4]}

==============================================================================
