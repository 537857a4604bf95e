----------------------------- MODULE TokenRuns -----------------------------
(***************************************************************************)
(* The similarity of two programs: matchTokenRuns of                       *)
(* server/internal/domain/similarity.go goes through one of them from left *)
(* to right and takes, at each token, the longest run that the other has   *)
(* too.  Common code is left out of both by the same search.               *)
(***************************************************************************)
EXTENDS Integers, Sequences, FiniteSets, SequencesExt

CONSTANTS
  Identifiers, \* tokens that may be renamed
  Keywords,    \* tokens that may not
  MaxTokens,   \* bound on the length of a program
  MinRun       \* SimilarityMinTokens, and the least run of common code

ASSUME RunsAssumption ==
  /\ Identifiers \cap Keywords = {}
  /\ MaxTokens \in Nat
  /\ MinRun \in Nat \ {0}

Tokens == Identifiers \cup Keywords
Programs == SeqOf(Tokens, MaxTokens)

VARIABLES
  left, right,       \* a and b
  rename,            \* of two submissions; a template is compared literally
  ignored,           \* the first tokens of both that are common code
  usedLeft, usedRight,
  at,                \* i: the next token of a; 0 between two comparisons
  tiles,             \* the runs taken
  matched            \* their lengths added up: pair.MatchedTokens

runVars == <<left, right, rename, ignored, usedLeft, usedRight, at, tiles, matched>>

TokenRunsTypeOK ==
  /\ left \in Seq(Tokens) /\ right \in Seq(Tokens)
  /\ rename \in BOOLEAN
  /\ ignored \subseteq Nat
  /\ usedLeft \subseteq 1..Len(left) /\ usedRight \subseteq 1..Len(right)
  /\ at \in 0..MaxTokens + 1
  /\ tiles \subseteq [a : 1..MaxTokens, b : 1..MaxTokens, length : MinRun..MaxTokens]
  /\ matched \in 0..MaxTokens

TokenRunsInit ==
  /\ left = <<>> /\ right = <<>>
  /\ rename = FALSE
  /\ ignored = {} /\ usedLeft = {} /\ usedRight = {}
  /\ at = 0
  /\ tiles = {} /\ matched = 0

Positions(from, length) == from..(from + length - 1)

\* The same token; or two identifiers, each always for the same other one.
SameKey(x, y) == x = y \/ {x, y} \subseteq Identifiers
Agree(i, j, length) ==
  /\ \A k \in 0..(length - 1) :
       IF rename THEN SameKey(left[i + k], right[j + k]) ELSE left[i + k] = right[j + k]
  /\ \A k, l \in 0..(length - 1) :
       left[i + k] = left[i + l] <=> right[j + k] = right[j + l]

Run(i, j, length) ==
  /\ i + length - 1 <= Len(left) /\ j + length - 1 <= Len(right)
  /\ Positions(i, length) \cap usedLeft = {}
  /\ Positions(j, length) \cap usedRight = {}
  /\ Agree(i, j, length)

RunsFrom(i) ==
  {t \in [a : {i}, b : 1..Len(right), length : MinRun..MaxTokens] : Run(i, t.b, t.length)}

\* The longest, and of those the first in b.
Better(x, y) == x.length > y.length \/ (x.length = y.length /\ x.b <= y.b)
Best(i) == CHOOSE x \in RunsFrom(i) : \A y \in RunsFrom(i) : Better(x, y)

-----------------------------------------------------------------------------
\* Two submissions, what they share with the template left out, or one with the
\* template itself.
CompareTokens(a, b, common) ==
  /\ left' = a /\ right' = b
  /\ rename' \in {TRUE, common # {}}
  /\ ignored' = common
  /\ usedLeft' = common \cap DOMAIN a /\ usedRight' = common \cap DOMAIN b
  /\ at' = 1
  /\ tiles' = {} /\ matched' = 0

\* A token of a template may be used again, one of a submission may not.
UsedNever(t) == {}
UsedOf(t) == IF rename THEN Positions(t.b, t.length) ELSE {}
TakeRun ==
  /\ at > 0 /\ at <= Len(left)
  /\ RunsFrom(at) # {}
  /\ LET t == Best(at)
     IN /\ tiles' = tiles \cup {t}
        /\ usedLeft' = usedLeft \cup Positions(t.a, t.length)
        /\ usedRight' = usedRight \cup UsedOf(t)
        /\ at' = at + t.length
        /\ matched' = matched + t.length
  /\ UNCHANGED <<left, right, rename, ignored>>

SkipToken ==
  /\ at > 0 /\ at <= Len(left)
  /\ RunsFrom(at) = {}
  /\ at' = at + 1
  /\ UNCHANGED <<left, right, rename, ignored, usedLeft, usedRight, tiles, matched>>

NextComparison ==
  /\ at > Len(left)
  /\ at > 0
  /\ left' = <<>> /\ right' = <<>>
  /\ rename' = FALSE
  /\ ignored' = {} /\ usedLeft' = {} /\ usedRight' = {}
  /\ at' = 0
  /\ tiles' = {} /\ matched' = 0

TokenRunsNext ==
  \/ /\ at = 0
     /\ \E a, b \in Programs, common \in {{}, {1}} : CompareTokens(a, b, common)
  \/ TakeRun
  \/ SkipToken
  \/ NextComparison

TokenRunsSpec == TokenRunsInit /\ [][TokenRunsNext]_runVars

-----------------------------------------------------------------------------
\* A token is evidence once at most, so that no similarity exceeds 100 per cent:
\* the runs are apart, in both submissions, and none is of common code.
TokensCountOnce ==
  /\ \A s, t \in tiles :
       s # t =>
         /\ Positions(s.a, s.length) \cap Positions(t.a, t.length) = {}
         /\ rename => Positions(s.b, s.length) \cap Positions(t.b, t.length) = {}
  /\ \A t \in tiles : Positions(t.a, t.length) \cap ignored = {}
  /\ rename =>
       /\ matched <= Cardinality(DOMAIN left \ ignored)
       /\ matched <= Cardinality(DOMAIN right \ ignored)

-----------------------------------------------------------------------------
(* Inductive strengthening, for the proofs *)

\* What is used is what is ignored and what the runs cover, each token of a run
\* counted once; runs of a template may share its tokens.
RunsApart ==
  \A s, t \in tiles :
    s # t =>
      /\ Positions(s.a, s.length) \cap Positions(t.a, t.length) = {}
      /\ rename => Positions(s.b, s.length) \cap Positions(t.b, t.length) = {}
RunsMarked ==
  \A t \in tiles :
    /\ Positions(t.a, t.length) \subseteq usedLeft \ ignored
    /\ rename => Positions(t.b, t.length) \subseteq usedRight \ ignored
UsedCounted ==
  /\ ignored \cap DOMAIN left \subseteq usedLeft
  /\ ignored \cap DOMAIN right \subseteq usedRight
  /\ matched = Cardinality(usedLeft \ ignored)
  /\ rename => matched = Cardinality(usedRight \ ignored)

RunsInv ==
  /\ TokenRunsTypeOK
  /\ Len(left) <= MaxTokens /\ Len(right) <= MaxTokens
  /\ at <= Len(left) + 1
  /\ RunsApart /\ RunsMarked /\ UsedCounted
=============================================================================
