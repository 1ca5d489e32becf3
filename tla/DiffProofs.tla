----------------------------- MODULE DiffProofs -----------------------------
(***************************************************************************)
(* The allowlist against git's reading of the same text, for patches of any *)
(* length and paths of any depth, and the tolerance comparison against what *)
(* a tolerance means, for every output.                                     *)
(***************************************************************************)
EXTENDS DiffText, Equivalence, FiniteSetTheorems, SequenceTheorems,
        WellFoundedInduction, TLAPS

-----------------------------------------------------------------------------

\* A path none of whose components is a ".." or a .git stays inside.
LEMMA OrdinaryStaysInside ==
    ASSUME NEW p \in Path, p.form \in {"prefixed", "bare"},
           CheckRelPath(p.comps)
    PROVE  Inside(p)
  <1> SUFFICES ASSUME NEW k \in DOMAIN p.comps
               PROVE  /\ p.comps[k] # [base |-> ".git", tail |-> 0]
                      /\ Cardinality({j \in 1 .. k : IsUp(p.comps[j])})
                             <= Cardinality({j \in 1 .. k :
                                                IsStep(p.comps[j])})
    BY DEF Inside
  <1>1. p.comps \in Seq(Component) /\ DOMAIN p.comps = 1 .. Len(p.comps)
    BY DEF Path
  <1>2. k \in Nat /\ 1 .. k \subseteq DOMAIN p.comps
    BY <1>1
  <1>3. \A j \in 1 .. k : ~IsUp(p.comps[j])
    BY <1>2 DEF CheckRelPath, Ordinary, IsUp
  <1>4. Cardinality({j \in 1 .. k : IsUp(p.comps[j])}) = 0
    <2>1. {j \in 1 .. k : IsUp(p.comps[j])} = {}
      BY <1>3
    <2> QED
      BY <2>1, FS_EmptySet
  <1>5. Cardinality({j \in 1 .. k : IsStep(p.comps[j])}) \in Nat
    <2> DEFINE steps == {j \in 1 .. k : IsStep(p.comps[j])}
    <2>1. IsFiniteSet(1 .. k)
      BY <1>2, FS_Interval
    <2>2. IsFiniteSet(steps)
      BY <2>1, FS_Subset
    <2> QED
      BY <2>2, FS_CardinalityType
  <1>6. p.comps[k] # [base |-> ".git", tail |-> 0]
    BY DEF CheckRelPath, Ordinary
  <1> QED
    BY <1>4, <1>5, <1>6

\* The indices of a split are bounded, so one of them is the last.
LEMMA LastSplitExists ==
    ASSUME NEW text, Len(text) \in Nat, Splits(text) # {}
    PROVE  /\ LastSplit(text) \in Splits(text)
           /\ \A j \in Splits(text) : j <= LastSplit(text)
  <1> DEFINE n == Len(text)
             less == {ss \in Nat \X Nat : ss[1] < ss[2]}
             T == {n - i : i \in Splits(text)}
  <1>1. Splits(text) \subseteq 1 .. n
    BY DEF Splits
  <1>2. T \subseteq Nat /\ T # {}
    BY <1>1
  <1>3. IsWellFoundedOn(less, Nat)
    <2>1. OpToRel(<, Nat) = less
      BY DEF OpToRel
    <2> QED
      BY <2>1, NatLessThanWellFounded
  <1>4. PICK m \in T : \A k \in T : <<k, m>> \notin less
    BY <1>2, <1>3, WFMin
  <1>5. PICK i \in Splits(text) : m = n - i
    BY <1>4
  <1>6. ASSUME NEW j \in Splits(text) PROVE j <= i
    <2>1. n - j \in T
      OBVIOUS
    <2>2. i \in Nat /\ j \in Nat /\ n \in Nat /\ n - i \in Nat /\ n - j \in Nat
      BY <1>1, <1>2, <1>5, <2>1
    <2>3. ~(n - j < n - i)
      BY <1>4, <1>5, <2>1, <2>2
    <2> QED
      BY <2>2, <2>3
  <1>7. \E k \in Splits(text) : \A j \in Splits(text) : j <= k
    BY <1>5, <1>6
  <1> QED
    BY <1>7, Zenon DEF LastSplit

\* The text of a git header, component by component.
LEMMA HeaderTextIs ==
    ASSUME NEW x \in Seq(Component), NEW y \in Seq(Component), x # <<>>
    PROVE  LET text == HeaderText(x, y)
               m    == Len(x)
           IN  /\ m \in Nat \ {0} /\ Len(y) \in Nat
               /\ text \in Seq(Component)
               /\ Len(text) = m + Len(y)
               /\ \A k \in 1 .. m - 1 : text[k] = x[k]
               /\ text[m] = WithB(x[m])
               /\ \A k \in 1 .. Len(y) : text[m + k] = y[k]
  <1> DEFINE m == Len(x)
             z == [x EXCEPT ![m] = WithB(@)]
  <1>1. m \in Nat \ {0} /\ Len(y) \in Nat /\ m \in DOMAIN x
    BY EmptySeq
  <1>2. x[m] \in Component
    BY <1>1, ElementOfSeq
  <1>3. WithB(x[m]) \in Component
    BY <1>2 DEF Component, WithB
  <1>4. z = [x EXCEPT ![m] = WithB(x[m])]
    OBVIOUS
  <1>5. z \in Seq(Component) /\ Len(z) = m /\ DOMAIN z = DOMAIN x
    BY <1>1, <1>3, <1>4, ExceptSeq
  <1>6. /\ z[m] = WithB(x[m])
        /\ \A k \in 1 .. m - 1 : z[k] = x[k]
    BY <1>1, <1>4
  <1>7. HeaderText(x, y) = z \o y
    BY DEF HeaderText
  <1>8. /\ z \o y \in Seq(Component)
        /\ Len(z \o y) = m + Len(y)
        /\ \A k \in 1 .. m + Len(y) :
              (z \o y)[k] = IF k <= m THEN z[k] ELSE y[k - m]
    <2> HIDE DEF z
    <2>1. /\ Len(z \o y) = Len(z) + Len(y)
          /\ \A k \in 1 .. Len(z) + Len(y) :
                (z \o y)[k] = IF k <= Len(z) THEN z[k] ELSE y[k - Len(z)]
      BY <1>5, ConcatProperties
    <2>2. z \o y \in Seq(Component)
      BY <1>5, ConcatProperties
    <2> QED
      BY <1>5, <2>1, <2>2, Zenon
  <1>9. \A k \in 1 .. Len(y) : (z \o y)[m + k] = y[k]
    BY <1>1, <1>8
  <1>10. \A k \in 1 .. m : (z \o y)[k] = z[k]
    BY <1>1, <1>8
  <1> QED
    BY <1>1, <1>6, <1>7, <1>8, <1>9, <1>10

\* allowlist.rs 107-110: wherever a git header is split that holds one name
\* twice, no component of the name escapes the vetting of the two halves.
LEMMA SplitKeepsEveryComponent ==
    ASSUME NEW x \in Path, NEW y \in Path, x.comps = y.comps,
           x.comps # <<>>, VetGitHeader(x, y)
    PROVE  CheckRelPath(x.comps) /\ CheckRelPath(y.comps)
  <1> DEFINE xs == x.comps
             ys == y.comps
             m == Len(xs)
             n == Len(ys)
             text == HeaderText(xs, ys)
             i == LastSplit(text)
             one == SplitGitHeaderPaths(text)[1]
             two == SplitGitHeaderPaths(text)[2]
  <1>1. xs \in Seq(Component) /\ ys \in Seq(Component)
    BY DEF Path
  <1>2. xs # <<>> /\ ys # <<>> /\ xs = ys /\ m = n
    OBVIOUS
  <1>3. /\ m \in Nat \ {0} /\ n \in Nat \ {0}
        /\ text \in Seq(Component)
        /\ Len(text) = m + n
        /\ \A k \in 1 .. m - 1 : text[k] = xs[k]
        /\ text[m] = WithB(xs[m])
        /\ \A k \in 1 .. n : text[m + k] = ys[k]
    BY <1>1, <1>2, HeaderTextIs, EmptySeq
  <1>4. xs[m] \in Component
    BY <1>1, <1>3, ElementOfSeq
  <1>5. i \in Splits(text) /\ m <= i
    <2>1. text[m].tail > 0
      BY <1>3, <1>4 DEF Component, WithB
    <2>2. m \in Splits(text)
      BY <1>3, <2>1 DEF Splits
    <2> QED
      BY <1>3, <2>2, LastSplitExists
  <1> HIDE DEF xs, ys, m, n, text, i, one, two
  <1>6. i \in Nat \ {0} /\ i < m + n /\ text[i].tail > 0
    <2>1. i \in 1 .. Len(text) - 1 /\ text[i].tail > 0
      BY <1>5 DEF Splits
    <2> QED
      BY <1>3, <2>1
  <1>7. CheckRelPath(one) /\ CheckRelPath(two)
    BY DEF VetGitHeader, text, one, two, xs, ys
  <1>8. one = [j \in 1 .. i |->
                  IF j = i THEN WithoutB(text[j]) ELSE text[j]]
    BY DEF SplitGitHeaderPaths, i, one
  <1>9. two = SubSeq(text, i + 1, m + n)
    BY <1>3 DEF SplitGitHeaderPaths, i, two
  <1>10. \A j \in 1 .. i - 1 : Ordinary(text[j])
    <2> SUFFICES ASSUME NEW j \in 1 .. i - 1 PROVE Ordinary(text[j])
      OBVIOUS
    <2>1. j \in 1 .. i /\ j # i
      BY <1>6
    <2>2. one[j] = text[j] /\ j \in DOMAIN one
      BY <1>8, <2>1
    <2>3. Ordinary(one[j])
      BY <1>7, <2>2, Zenon DEF CheckRelPath
    <2> QED
      BY <2>2, <2>3
  <1>11. \A j \in i + 1 .. m + n : Ordinary(text[j])
    <2> SUFFICES ASSUME NEW j \in i + 1 .. m + n PROVE Ordinary(text[j])
      OBVIOUS
    <2>1. \A k \in i + 1 .. m + n : text[k] \in Component
      BY <1>3, <1>6, ElementOfSeq
    <2>2. /\ two \in Seq(Component)
          /\ Len(two) = m + n - i
          /\ two[j - i] = text[j]
      <3>1. i + 1 \in Int /\ m + n \in Int /\ i + 1 <= m + n
        BY <1>3, <1>6
      <3>2. /\ two \in Seq(Component)
            /\ Len(two) = (m + n) - (i + 1) + 1
            /\ \A k \in 1 .. (m + n) - (i + 1) + 1 :
                  two[k] = text[(i + 1) + k - 1]
        BY <1>9, <2>1, <3>1, SubSeqProperties
      <3>3. j - i \in 1 .. (m + n) - (i + 1) + 1
        BY <1>3, <1>6
      <3>4. (i + 1) + (j - i) - 1 = j
        BY <1>3, <1>6
      <3> QED
        BY <1>3, <1>6, <3>2, <3>3, <3>4
    <2>3. j - i \in DOMAIN two
      BY <1>3, <1>6, <2>2
    <2> QED
      BY <1>7, <2>2, <2>3 DEF CheckRelPath
  <1>12. \A k \in 1 .. m : Ordinary(xs[k])
    <2> SUFFICES ASSUME NEW k \in 1 .. m PROVE Ordinary(xs[k])
      OBVIOUS
    <2>1. CASE k < m
      <3>1. k \in 1 .. m - 1 /\ k \in 1 .. i - 1
        BY <1>3, <1>5, <1>6, <2>1
      <3> QED
        BY <1>3, <1>10, <3>1
    <2>2. CASE k = m /\ i = m
      <3>1. one[m] = WithoutB(WithB(xs[m])) /\ m \in DOMAIN one
        BY <1>3, <1>8, <2>2
      <3>2. Ordinary(WithoutB(WithB(xs[m])))
        BY <1>7, <3>1 DEF CheckRelPath
      <3>3. WithoutB(WithB(xs[m])).base = xs[m].base
        BY DEF WithB, WithoutB
      <3>4. WithoutB(WithB(xs[m])).tail = xs[m].tail
        BY <1>4 DEF WithB, WithoutB, Component
      <3> QED
        BY <2>2, <3>2, <3>3, <3>4 DEF Ordinary
    <2>3. CASE k = m /\ m < i
      <3>1. m + n \in i + 1 .. m + n /\ n \in 1 .. n
        BY <1>3, <1>6
      <3>2. Ordinary(text[m + n]) /\ text[m + n] = ys[n]
        BY <1>3, <1>11, <3>1
      <3> QED
        BY <1>2, <2>3, <3>2
    <2> QED
      BY <1>3, <1>5, <1>6, <2>1, <2>2, <2>3
  <1>13. \A k \in 1 .. n : Ordinary(ys[k])
    <2> SUFFICES ASSUME NEW k \in 1 .. n PROVE Ordinary(text[m + k])
      BY <1>3
    <2>1. CASE m + k < i
      <3>1. m + k \in 1 .. i - 1
        BY <1>3, <1>6, <2>1
      <3> QED
        BY <1>10, <3>1
    <2>2. CASE m + k = i
      BY <1>6, <2>2 DEF Ordinary
    <2>3. CASE m + k > i
      <3>1. m + k \in i + 1 .. m + n
        BY <1>3, <1>6, <2>3
      <3> QED
        BY <1>11, <3>1
    <2> QED
      BY <1>3, <1>6, <2>1, <2>2, <2>3
  <1> QED
    BY <1>1, <1>12, <1>13 DEF CheckRelPath, xs, ys, m, n

\* Where git sees a header, the allowlist has vetted every path in it, unless
\* it does not know the header or stops at a tab (allowlist.rs 43-72, 101-103).
LEMMA VettedStaysInside ==
    ASSUME NEW diff \in Seq(Line), FilesNamed(diff), CheckDiffPaths(diff)
    PROVE  OnlyUnseenLeave(diff)
  <1> SUFFICES ASSUME NEW k \in DOMAIN diff, NEW p \in NamedBy(diff[k]),
                      ~Unseen(diff[k])
               PROVE  Inside(p)
    BY DEF OnlyUnseenLeave
  <1> DEFINE l == diff[k]
  <1>1. l \in Line
    OBVIOUS
  <1>2. l.path \in Path /\ l.from \in Path
    BY <1>1 DEF Line
  <1>3. VetLine(l)
    BY DEF CheckDiffPaths
  <1>4. l.kind = "diff --git" => l.from.comps # <<>>
    BY DEF FilesNamed
  <1> HIDE DEF l
  <1>5. CASE l.kind = "diff --git"
    <2>1. p \in {l.from, l.path} /\ l.from.comps = l.path.comps
      BY <1>5 DEF NamedBy, l
    <2>2. VetGitHeader(l.from, l.path)
      BY <1>3, <1>5 DEF VetLine, ReadsAsFileHeader, IsChange
    <2>3. l.from.form = "prefixed" /\ l.path.form = "prefixed"
      BY <2>2 DEF VetGitHeader
    <2>4. CheckRelPath(l.from.comps) /\ CheckRelPath(l.path.comps)
      BY <1>2, <1>4, <1>5, <2>1, <2>2, SplitKeepsEveryComponent
    <2> QED
      BY <1>2, <2>1, <2>3, <2>4, OrdinaryStaysInside
  <1>6. CASE l.kind \in {"---", "+++"}
    <2>1. p = l.path
      BY <1>6 DEF NamedBy, l
    <2>2. VetFileHeader(l.path)
      BY <1>3, <1>6 DEF VetLine, ReadsAsFileHeader
    <2> QED
      BY <1>2, <2>1, <2>2, OrdinaryStaysInside
      DEF VetFileHeader, VetExtracted, Inside
  <1>7. CASE l.kind = "rename"
    <2>1. p = l.path
      BY <1>7 DEF NamedBy, Unseen, Whole, l
    <2>2. VetExtracted(l.path)
      BY <1>3, <1>7 DEF VetLine, ReadsAsFileHeader, IsChange
    <2> QED
      BY <1>2, <2>1, <2>2, OrdinaryStaysInside DEF VetExtracted, Inside
  <1>8. l.kind \in {"diff --git", "---", "+++", "rename"}
    BY DEF NamedBy, Unseen, l
  <1> QED
    BY <1>5, <1>6, <1>7, <1>8

\* A header of two plain names is split into two plain names, wherever that
\* happens.
LEMMA PlainHeaderPasses ==
    ASSUME NEW x \in Path, NEW y \in Path, Plain(x, {"prefixed"}),
           Plain(y, {"prefixed"})
    PROVE  VetGitHeader(x, y)
  <1> DEFINE xs == x.comps
             ys == y.comps
             m == Len(xs)
             n == Len(ys)
             text == HeaderText(xs, ys)
             i == LastSplit(text)
             one == SplitGitHeaderPaths(text)[1]
             two == SplitGitHeaderPaths(text)[2]
  <1>1. /\ x.form = "prefixed" /\ y.form = "prefixed"
        /\ xs \in Seq(Component) /\ ys \in Seq(Component)
        /\ xs # <<>> /\ ys # <<>>
        /\ \A k \in DOMAIN xs : xs[k].base \in {"name", "."}
        /\ \A k \in DOMAIN ys : ys[k].base \in {"name", "."}
    BY DEF Plain, Path
  <1>2. /\ m \in Nat \ {0} /\ n \in Nat \ {0}
        /\ text \in Seq(Component)
        /\ Len(text) = m + n
        /\ \A k \in 1 .. m - 1 : text[k] = xs[k]
        /\ text[m] = WithB(xs[m])
        /\ \A k \in 1 .. n : text[m + k] = ys[k]
    BY <1>1, HeaderTextIs, EmptySeq
  <1>3. i \in Splits(text)
    <2>1. xs[m] \in Component
      BY <1>1, <1>2, ElementOfSeq
    <2>2. text[m].tail > 0
      BY <1>2, <2>1 DEF Component, WithB
    <2>3. m \in Splits(text)
      BY <1>2, <2>2 DEF Splits
    <2> QED
      BY <1>2, <2>3, LastSplitExists
  <1>4. DOMAIN xs = 1 .. m /\ DOMAIN ys = 1 .. n
    BY <1>1
  <1> HIDE DEF xs, ys, m, n, text, i, one, two
  <1>5. i \in Nat \ {0} /\ i < m + n
    <2>1. i \in 1 .. Len(text) - 1
      BY <1>3 DEF Splits
    <2> QED
      BY <1>2, <2>1
  <1>6. \A k \in 1 .. m + n : text[k].base \in {"name", "."}
    <2> SUFFICES ASSUME NEW k \in 1 .. m + n
                 PROVE  text[k].base \in {"name", "."}
      OBVIOUS
    <2>1. CASE k < m
      <3>1. k \in 1 .. m - 1 /\ k \in DOMAIN xs
        BY <1>2, <1>4, <2>1
      <3>2. text[k] = xs[k]
        BY <1>2, <3>1
      <3> QED
        BY <1>1, <3>1, <3>2
    <2>2. CASE k = m
      <3>1. m \in DOMAIN xs /\ text[m] = WithB(xs[m])
        BY <1>2, <1>4
      <3>2. text[m].base = xs[m].base
        BY <3>1 DEF WithB
      <3> QED
        BY <1>1, <2>2, <3>1, <3>2
    <2>3. CASE k > m
      <3>1. k - m \in 1 .. n /\ m + (k - m) = k
        BY <1>2, <2>3
      <3> QED
        BY <1>1, <1>2, <1>4, <3>1
    <2> QED
      BY <1>2, <2>1, <2>2, <2>3
  <1>7. one = [j \in 1 .. i |->
                  IF j = i THEN WithoutB(text[j]) ELSE text[j]]
    BY DEF SplitGitHeaderPaths, i, one
  <1>8. one # <<>> /\ CheckRelPath(one)
    <2>1. DOMAIN one = 1 .. i /\ 1 \in DOMAIN one
      BY <1>5, <1>7
    <2>2. \A j \in 1 .. i : one[j].base = text[j].base
      BY <1>7 DEF WithoutB
    <2>3. \A j \in 1 .. i : one[j].base \in {"name", "."}
      BY <1>2, <1>5, <1>6, <2>2
    <2>4. one # <<>>
      <3>1. <<>> \in Seq(Component) /\ Len(<<>>) = 0
        BY EmptySeq
      <3>2. 1 \notin DOMAIN <<>>
        BY <3>1, LenProperties
      <3> QED
        BY <2>1, <3>2, Zenon
    <2>5. CheckRelPath(one)
      BY <2>1, <2>3 DEF CheckRelPath, Ordinary
    <2> QED
      BY <2>4, <2>5
  <1>9. two = SubSeq(text, i + 1, m + n)
    BY <1>2 DEF SplitGitHeaderPaths, i, two
  <1>10. two # <<>> /\ CheckRelPath(two)
    <2>1. \A k \in i + 1 .. m + n : text[k] \in Component
      BY <1>2, <1>5, ElementOfSeq
    <2>2. i + 1 \in Int /\ m + n \in Int /\ i + 1 <= m + n
      BY <1>2, <1>5
    <2>3. /\ two \in Seq(Component)
          /\ Len(two) = (m + n) - (i + 1) + 1
          /\ \A k \in 1 .. (m + n) - (i + 1) + 1 :
                two[k] = text[(i + 1) + k - 1]
      BY <1>9, <2>1, <2>2, SubSeqProperties
    <2>4. Len(two) > 0
      BY <2>2, <2>3
    <2>5. \A k \in 1 .. Len(two) : two[k].base \in {"name", "."}
      <3> SUFFICES ASSUME NEW k \in 1 .. Len(two)
                   PROVE  two[k].base \in {"name", "."}
        OBVIOUS
      <3>1. (i + 1) + k - 1 \in 1 .. m + n
        BY <1>2, <1>5, <2>2, <2>3
      <3> QED
        BY <1>6, <2>3, <3>1
    <2> QED
      BY <2>3, <2>4, <2>5, EmptySeq DEF CheckRelPath, Ordinary
  <1> QED
    BY <1>1, <1>8, <1>10 DEF VetGitHeader, one, two, text, xs, ys

\* A path git would write for a file of the workspace stays in it.
LEMMA PlainStaysInside ==
    ASSUME NEW p, NEW forms, forms \subseteq {"prefixed", "bare", "null"},
           p.comps \in Seq(Component), Plain(p, forms)
    PROVE  Inside(p)
  <1>1. CASE p.form = "null"
    BY <1>1 DEF Inside
  <1>2. CASE p.form # "null"
    <2>1. /\ p.form \in {"prefixed", "bare"}
          /\ \A k \in DOMAIN p.comps : p.comps[k].base \in {"name", "."}
      BY <1>2 DEF Plain
    <2> DEFINE q == [form |-> p.form, comps |-> p.comps]
    <2>2. /\ q \in Path /\ q.form \in {"prefixed", "bare"}
          /\ CheckRelPath(q.comps)
      BY <2>1 DEF Path, Forms, CheckRelPath, Ordinary
    <2>3. q.form = p.form /\ q.comps = p.comps
      OBVIOUS
    <2> HIDE DEF q
    <2>4. Inside(q)
      BY <2>2, OrdinaryStaysInside
    <2> QED
      BY <2>3, <2>4 DEF Inside
  <1> QED
    BY <1>1, <1>2

\* The components of a path behind a tab are components like any other.
LEMMA WholeIsAPath ==
    ASSUME NEW l \in Line
    PROVE  Whole(l).comps \in Seq(Component)
  <1>1. l.path.comps \in Seq(Component) /\ l.beyond \in Seq(Component)
    BY DEF Line, Path
  <1>2. CASE l.beyond = <<>>
    BY <1>1, <1>2 DEF Whole
  <1>3. CASE l.beyond # <<>>
    <2> DEFINE n == Len(l.path.comps) - 1
               front == SubSeq(l.path.comps, 1, n)
    <2>1. Len(l.path.comps) \in Nat
      BY <1>1
    <2>2. \A k \in 1 .. n : l.path.comps[k] \in Component
      BY <1>1, <2>1, ElementOfSeq
    <2>3. front \in Seq(Component)
      BY <2>1, <2>2, SubSeqProperties
    <2>4. front \o l.beyond \in Seq(Component)
      BY <1>1, <2>3, ConcatProperties
    <2> QED
      BY <1>3, <2>4 DEF Whole
  <1> QED
    BY <1>2, <1>3

\* Nothing else is refused, by the allowlist or by git: a diff without an
\* objectionable line passes both.
LEMMA RefusalHasCause ==
    ASSUME NEW diff \in Seq(Line),
           ~CheckDiffPaths(diff) \/ ~NamesOnlyInside(diff)
    PROVE  \E i \in DOMAIN diff : Objectionable(diff[i])
  <1> SUFFICES ASSUME NEW k \in DOMAIN diff,
                      \/ ~VetLine(diff[k])
                      \/ \E p \in NamedBy(diff[k]) : ~Inside(p),
                      ~Objectionable(diff[k])
               PROVE  FALSE
    BY DEF CheckDiffPaths, NamesOnlyInside
  <1> DEFINE l == diff[k]
  <1>1. l \in Line
    OBVIOUS
  <1>2. l.path \in Path /\ l.from \in Path
    BY <1>1 DEF Line
  <1>3. /\ \A p \in PathsOn(l) : Plain(p, HeaderForms(l))
        /\ ~(IsChange(l) /\ l.lead = "spaced")
        /\ ~VetLine(l) \/ \E p \in NamedBy(l) : ~Inside(p)
    BY DEF Objectionable
  <1> HIDE DEF l
  <1>4. \A p \in NamedBy(l) : Inside(p)
    <2> SUFFICES ASSUME NEW p \in NamedBy(l) PROVE Inside(p)
      OBVIOUS
    <2>1. p \in {l.from, l.path, Whole(l)} /\ p \in PathsOn(l)
      BY DEF NamedBy, PathsOn
    <2>2. p.comps \in Seq(Component)
      BY <1>1, <1>2, <2>1, WholeIsAPath DEF Path
    <2>3. HeaderForms(l) \subseteq {"prefixed", "bare", "null"}
      BY DEF HeaderForms
    <2> QED
      BY <1>3, <2>1, <2>2, <2>3, PlainStaysInside
  <1>5. CASE l.kind = "diff --git"
    <2>1. Plain(l.from, {"prefixed"}) /\ Plain(l.path, {"prefixed"})
      BY <1>3, <1>5 DEF PathsOn, HeaderForms
    <2>2. VetGitHeader(l.from, l.path)
      BY <1>2, <2>1, PlainHeaderPasses
    <2> QED
      BY <1>3, <1>4, <1>5, <2>2 DEF VetLine, ReadsAsFileHeader, IsChange
  <1>6. CASE l.kind \in {"---", "+++"}
    <2>1. Plain(l.path, {"prefixed", "null"})
      BY <1>3, <1>6 DEF PathsOn, HeaderForms
    <2>2. VetFileHeader(l.path)
      BY <2>1 DEF Plain, VetFileHeader, VetExtracted, CheckRelPath, Ordinary
    <2> QED
      BY <1>3, <1>4, <1>6, <2>2 DEF VetLine, ReadsAsFileHeader
  <1>7. CASE l.kind = "rename"
    <2>1. Plain(l.path, {"prefixed", "bare", "null"})
      BY <1>3, <1>7 DEF PathsOn, HeaderForms
    <2>2. VetExtracted(l.path)
      BY <2>1 DEF Plain, VetExtracted, CheckRelPath, Ordinary
    <2> QED
      BY <1>3, <1>4, <1>7, <2>2 DEF VetLine, ReadsAsFileHeader, IsChange
  <1>8. CASE l.kind \notin {"diff --git", "---", "+++", "rename"}
    BY <1>3, <1>4, <1>8 DEF VetLine, ReadsAsFileHeader
  <1> QED
    BY <1>5, <1>6, <1>7, <1>8

\* explain counts the lines the risk classifier reads: git writes both markers
\* in front of a hunk (explain/lib.rs 183-210).
LEMMA CountedAreChanged ==
    ASSUME NEW diff \in Seq(Line), HunksHaveHeaders(diff)
    PROVE  CountedLines(diff) =
               {i \in DOMAIN diff : IsChangedLine(diff[i])}
  <1>1. Added(diff) \cup Removed(diff)
           = {i \in DOMAIN diff : IsChangedLine(diff[i])}
    BY DEF Added, Removed, IsChangedLine, IsChange
  <1>2. CASE HasShape(diff)
    BY <1>1, <1>2 DEF CountedLines
  <1>3. CASE ~HasShape(diff)
    <2>1. ~\E i \in DOMAIN diff : IsChange(diff[i])
      BY <1>3 DEF HasShape, ReadsAs, HunksHaveHeaders
    <2>2. {i \in DOMAIN diff : IsChangedLine(diff[i])} = {}
      BY <2>1 DEF IsChangedLine
    <2> QED
      BY <1>3, <2>2 DEF CountedLines
  <1> QED
    BY <1>2, <1>3

-----------------------------------------------------------------------------

\* One token: the comparison in floating point is the tolerance, unless the
\* golden number is infinite (policy.rs 85-108).
LEMMA TokenComparison ==
    ASSUME NEW tol \in Tolerance, NEW b \in Value, NEW c \in Value,
           b.kind # "inf"
    PROVE  ~TokenDiverges(tol, b, c) <=> Within(tol, b, c)
  <1> USE DEF IsNumber, Infinity, NaN
  <1>1. /\ b.kind \in {"finite", "word", "nan"} /\ b.n \in Int
        /\ c.kind \in {"finite", "word", "nan", "inf"} /\ c.n \in Int
        /\ b.kind = "nan" => b = NaN
        /\ c.kind = "nan" => c = NaN
    BY DEF Value
  <1>2. CASE b.kind = "word" \/ c.kind = "word"
    BY <1>1, <1>2 DEF TokenDiverges, Within
  <1>3. CASE b.kind = "nan" /\ c.kind # "word"
    <2>1. Distance(b, c) = NaN
      BY <1>3 DEF Distance
    <2>2. TokenDiverges(tol, b, c) <=> b # c
      BY <1>1, <1>3, <2>1 DEF TokenDiverges
    <2> QED
      BY <1>3, <2>2 DEF Within
  <1>4. CASE b.kind = "finite" /\ c.kind = "nan"
    <2>1. Distance(b, c) = NaN
      BY <1>4 DEF Distance
    <2> QED
      BY <1>1, <1>4, <2>1 DEF TokenDiverges, Within
  <1>5. CASE b.kind = "finite" /\ c.kind = "inf"
    <2>1. Distance(b, c) = Infinity
      BY <1>5 DEF Distance
    <2>2. Allowance(tol, b).kind = "finite"
      BY <1>5 DEF Allowance, Finite
    <2>3. Exceeds(Distance(b, c), Allowance(tol, b))
      BY <2>1, <2>2 DEF Exceeds
    <2> QED
      BY <1>1, <1>5, <2>3 DEF TokenDiverges, Within
  <1>6. CASE b.kind = "finite" /\ c.kind = "finite"
    <2> DEFINE d == 100 * Magnitude(b.n - c.n)
               a == 100 * tol.abs + tol.rel * Magnitude(b.n)
    <2>1. Distance(b, c) = Finite(d) /\ Allowance(tol, b) = Finite(a)
      BY <1>6 DEF Distance, Allowance
    <2>2. d \in Int /\ Magnitude(b.n) \in Int /\ tol.abs \in Nat
          /\ tol.rel \in Nat
      BY <1>1 DEF Magnitude, Tolerance
    <2>3. a \in Int
      BY <2>2
    <2>4. /\ Magnitude(b.n) >= 0
          /\ b.n = c.n => d = 0
      BY <1>1 DEF Magnitude
    <2>5. b = c => d = 0
      BY <2>4
    <2>6. a >= 0
      <3>1. tol.rel * Magnitude(b.n) >= 0
        BY <2>2, <2>4
      <3> QED
        BY <2>2, <3>1
    <2> HIDE DEF d, a
    <2>7. TokenDiverges(tol, b, c) <=> d > a
      BY <1>1, <1>6, <2>1 DEF TokenDiverges, Exceeds, Finite
    <2>8. Within(tol, b, c) <=> d <= a
      BY <1>6, <2>2, <2>3, <2>5, <2>6 DEF Within, d, a
    <2> QED
      BY <2>2, <2>3, <2>7, <2>8
  <1> QED
    BY <1>1, <1>2, <1>3, <1>4, <1>5, <1>6

\* Two outputs, of any length.
LEMMA OutputComparison ==
    ASSUME NEW tol \in Tolerance, NEW base \in Output, NEW cand \in Output,
           IsBounded(base)
    PROVE  CompareWithin(tol, base, cand) <=> AllWithin(tol, base, cand)
  <1> SUFFICES ASSUME Len(base.tokens) = Len(cand.tokens),
                      NEW i \in DOMAIN base.tokens
               PROVE  ~TokenDiverges(tol, base.tokens[i], cand.tokens[i])
                         <=> Within(tol, base.tokens[i], cand.tokens[i])
    BY DEF CompareWithin, AllWithin
  <1>1. base.tokens \in Seq(Value) /\ cand.tokens \in Seq(Value)
    BY DEF Output
  <1>2. base.tokens[i] \in Value /\ cand.tokens[i] \in Value
    BY <1>1
  <1>3. base.tokens[i].kind # "inf"
    BY DEF IsBounded
  <1> QED
    BY <1>2, <1>3, TokenComparison

==============================================================================
