--------------------------- MODULE DetectorChunks ---------------------------
(***************************************************************************)
(* A long program is classified in overlapping chunks: _detect of          *)
(* detector/engine.py, whose result the server accepts or rejects in       *)
(* validateLocalDetection of evaluator/local_detector.go.                  *)
(***************************************************************************)
EXTENDS Integers, Sequences, Sums

CONSTANTS
  Totals,       \* numbers of tokens
  Capacity,     \* tokens of a chunk, without the special ones
  OverlapTokens,
  DetectorMax,  \* max_chunks of the detector
  ServerMax     \* the server's own limit

ASSUME ChunksAssumption ==
  /\ Totals \subseteq Nat
  /\ Capacity \in Nat /\ OverlapTokens \in Nat
  /\ OverlapTokens < Capacity
  /\ DetectorMax \in Nat /\ ServerMax \in Nat

VARIABLES
  tokens,    \* of the program, -1 between two requests
  start,     \* of the next chunk
  covered,   \* the tokens that have a weight
  chunks,    \* the chunks classified so far
  answered   \* "none", "result" or "refused"

chunkVars == <<tokens, start, covered, chunks, answered>>

Chunk == [tokenCount : 1..Capacity, weightTokens : 1..Capacity]

ChunksTypeOK ==
  /\ tokens \in Totals \cup {-1}
  /\ start \in Nat /\ covered \in Nat
  /\ chunks \in Seq(Chunk)
  /\ answered \in {"none", "result", "refused"}

ChunksInit ==
  /\ tokens = -1
  /\ start = 0 /\ covered = 0
  /\ chunks = <<>>
  /\ answered = "none"

Least(x, y) == IF x < y THEN x ELSE y

\* 1 + max(0, ceil((n - capacity) / step))
StepNoOverlap == Capacity
Step == Capacity - OverlapTokens
ChunkCount(n) == IF n <= Capacity THEN 1 ELSE 1 + (n - Capacity + Step - 1) \div Step

\* A program without tokens has a result without chunks.
DetectCode(n) ==
  /\ tokens = -1
  /\ tokens' = n
  /\ answered' = IF n = 0 THEN "result"
                 ELSE IF ChunkCount(n) > DetectorMax THEN "refused" ELSE "none"
  /\ UNCHANGED <<start, covered, chunks>>

ClassifyChunk ==
  /\ tokens > 0
  /\ answered = "none"
  /\ start < tokens
  /\ LET end == Least(start + Capacity, tokens)
     IN /\ chunks' = Append(chunks, [tokenCount |-> end - start, weightTokens |-> end - covered])
        /\ covered' = end
        /\ answered' = IF end = tokens THEN "result" ELSE "none"
  /\ start' = start + Step
  /\ UNCHANGED tokens

NextRequest ==
  /\ answered # "none"
  /\ tokens' = -1
  /\ start' = 0 /\ covered' = 0
  /\ chunks' = <<>>
  /\ answered' = "none"

ChunksNext == (\E n \in Totals : DetectCode(n)) \/ ClassifyChunk \/ NextRequest

ChunksSpec == ChunksInit /\ [][ChunksNext]_chunkVars

-----------------------------------------------------------------------------
\* What the server demands of a result, scores and lines apart.
Weights(cs) == [i \in DOMAIN cs |-> cs[i].weightTokens]
ValidResult ==
  /\ covered = tokens
  /\ Len(chunks) <= ServerMax
  /\ tokens > 0 =>
       /\ chunks # <<>>
       /\ \A i \in 1..Len(chunks) :
            /\ chunks[i].tokenCount \in 1..Capacity
            /\ chunks[i].weightTokens \in 1..chunks[i].tokenCount
            /\ chunks[i].weightTokens =
                 IF i = 1 THEN chunks[i].tokenCount ELSE chunks[i].tokenCount - OverlapTokens
       /\ SumOf(Weights(chunks)) = tokens

\* The server accepts every result of the detector: each token has its weight
\* once, the last chunk included, and the number of chunks is the one foretold.
ResultAccepted ==
  answered = "result" =>
    ValidResult /\ (tokens > 0 => Len(chunks) = ChunkCount(tokens))

-----------------------------------------------------------------------------
(* Inductive strengthening, for the proofs *)

\* Each chunk but the first repeats OverlapTokens of the one before it.
ChunksRepeat ==
  \A i \in 1..Len(chunks) :
    /\ chunks[i].weightTokens =
         IF i = 1 THEN chunks[i].tokenCount ELSE chunks[i].tokenCount - OverlapTokens
    /\ chunks[i].weightTokens <= chunks[i].tokenCount

\* Where the n chunks so far end, while tokens are left and when none is.
ChunksAligned ==
  LET n == Len(chunks)
  IN /\ start = n * Step
     /\ n = 0 => covered = 0 /\ answered = "none"
     /\ n > 0 =>
          /\ covered = Least(start + OverlapTokens, tokens)
          /\ answered = IF start + OverlapTokens < tokens THEN "none" ELSE "result"
     /\ n > 1 => start + OverlapTokens < tokens + Step

Unstarted == start = 0 /\ covered = 0 /\ chunks = <<>>

ChunksInv ==
  /\ ChunksTypeOK
  /\ ChunksRepeat
  /\ SumOf(Weights(chunks)) = covered
  /\ \/ tokens = -1 /\ Unstarted /\ answered = "none"
     \/ tokens = 0 /\ Unstarted /\ answered = "result"
     \/ tokens > 0 /\ Unstarted /\ answered = "refused"
     \/ tokens > 0 /\ ChunkCount(tokens) <= DetectorMax /\ ChunksAligned
=============================================================================
