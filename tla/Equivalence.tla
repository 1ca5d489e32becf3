----------------------------- MODULE Equivalence -----------------------------
(***************************************************************************)
(* When a replay's output counts as equal to the committed one              *)
(* (targets/<name>/equivalence.toml): byte for byte, or number by number    *)
(* within a tolerance, in floating-point arithmetic with its infinities and *)
(* its NaN.  Finite arithmetic is exact here; rounding is left out.         *)
(***************************************************************************)
EXTENDS Integers, Sequences

\* A token between white space: a number, or a word, which n identifies.
Value ==
    [kind : {"finite", "word"}, n : Int] \cup [kind : {"inf"}, n : {-1, 1}]
        \cup [kind : {"nan"}, n : {0}]

\* spelling stands for what the values of the tokens do not tell: the white
\* space and the way a number is written.
Output == [tokens : Seq(Value), spelling : Nat]

\* rel is in percent; a negative or NaN tolerance is refused when loaded.
Tolerance == [abs : Nat, rel : Nat]

Finite(n) == [kind |-> "finite", n |-> n]
Infinity  == [kind |-> "inf", n |-> 1]
NaN       == [kind |-> "nan", n |-> 0]

Magnitude(i) == IF i < 0 THEN -i ELSE i

\* |b - c| in hundredths.
Distance(b, c) ==
    CASE b.kind = "nan" \/ c.kind = "nan" -> NaN
      [] b.kind = "inf" /\ c = b          -> NaN
      [] b.kind = "finite" /\ c.kind = "finite"
                                          -> Finite(100 * Magnitude(b.n - c.n))
      [] OTHER                            -> Infinity

\* abs + rel * |b| in hundredths: zero times infinity is no number.
Allowance(tol, b) ==
    CASE b.kind = "finite" -> Finite(100 * tol.abs + tol.rel * Magnitude(b.n))
      [] b.kind = "inf" /\ tol.rel > 0 -> Infinity
      [] OTHER -> NaN

\* x > y: false when either is no number.
Exceeds(x, y) ==
    \/ x.kind = "inf" /\ y.kind = "finite"
    \/ x.kind = "finite" /\ y.kind = "finite" /\ x.n > y.n

IsNumber(v) == v.kind # "word"

\* The comparison alone decides: a lone NaN exceeds nothing.
TokenDivergesUnlessNaN(tol, b, c) ==
    IF IsNumber(b) /\ IsNumber(c)
    THEN Exceeds(Distance(b, c), Allowance(tol, b))
    ELSE b # c

\* The tolerance is taken relative to the candidate.
TokenDivergesFromCandidate(tol, b, c) ==
    IF IsNumber(b) /\ IsNumber(c)
    THEN /\ ~(b = NaN /\ c = NaN)
         /\ \/ Distance(b, c) = NaN
            \/ Exceeds(Distance(b, c), Allowance(tol, c))
    ELSE b # c

TokenDiverges(tol, b, c) ==
    IF IsNumber(b) /\ IsNumber(c)
    THEN /\ ~(b = NaN /\ c = NaN)
         /\ \/ Distance(b, c) = NaN
            \/ Exceeds(Distance(b, c), Allowance(tol, b))
    ELSE b # c

CompareWithin(tol, base, cand) ==
    /\ Len(base.tokens) = Len(cand.tokens)
    /\ \A i \in DOMAIN base.tokens :
          ~TokenDiverges(tol, base.tokens[i], cand.tokens[i])

\* Outputs of byte-identical targets are compared by their hash.
Compare(fpTolerance, tol, base, cand) ==
    IF fpTolerance THEN CompareWithin(tol, base, cand) ELSE base = cand

(***************************************************************************)
(* What a tolerance means.                                                  *)
(***************************************************************************)
Within(tol, b, c) ==
    \/ b = c
    \/ /\ b.kind = "finite" /\ c.kind = "finite"
       /\ 100 * Magnitude(b.n - c.n) <= 100 * tol.abs + tol.rel * Magnitude(b.n)

AllWithin(tol, base, cand) ==
    /\ Len(base.tokens) = Len(cand.tokens)
    /\ \A i \in DOMAIN base.tokens :
          Within(tol, base.tokens[i], cand.tokens[i])

\* No number of the output is infinite.
IsBounded(out) == \A i \in DOMAIN out.tokens : out.tokens[i].kind # "inf"

==============================================================================
