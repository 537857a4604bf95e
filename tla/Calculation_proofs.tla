------------------------- MODULE Calculation_proofs -------------------------
(***************************************************************************)
(* Theorems about what is calculated: TokenRuns, DetectorChunks and        *)
(* LegacyScore, for programs, rubrics and limits of any size.              *)
(*                                                                         *)
(* Sums are functions defined by recursion: that they exist and what they  *)
(* return is shown by the least index at which it would fail.              *)
(***************************************************************************)
EXTENDS TokenRuns, DetectorChunks, LegacyScore, TLAPS, FiniteSetTheorems,
        SequenceTheorems, WellFoundedInduction

(* Numbers and sums *)

\* A set of naturals has a least element, and a bounded one a greatest.
LEMMA LeastElement ==
  ASSUME NEW T, T \subseteq Nat, T # {}
  PROVE  \E x \in T : \A y \in T : x <= y
<1> DEFINE R == OpToRel(<, Nat)
<1>1. IsWellFoundedOn(R, Nat)
  BY NatLessThanWellFounded
<1> HIDE DEF R
<1>2. PICK x \in T : \A y \in T : ~ (<<y, x>> \in R)
  BY <1>1, WFMin
<1>3. \A y \in T : ~ (y < x)
  BY <1>2 DEF R, OpToRel
<1> QED
  BY <1>3

LEMMA GreatestElement ==
  ASSUME NEW n \in Nat, NEW T, T \subseteq 0..n, T # {}
  PROVE  \E x \in T : \A y \in T : y <= x
<1> DEFINE U == {u \in 0..n : n - u \in T}
<1>1. U # {}
  <2>1. PICK x \in T : TRUE
    OBVIOUS
  <2>2. n - x \in U
    BY <2>1
  <2> QED
    BY <2>2
<1>2. PICK u \in U : \A v \in U : u <= v
  <2>1. U \subseteq Nat
    OBVIOUS
  <2> HIDE DEF U
  <2> QED
    BY <1>1, <2>1, LeastElement
<1>3. n - u \in T
  OBVIOUS
<1>4. ASSUME NEW y \in T PROVE y <= n - u
  <2>1. n - y \in U
    OBVIOUS
  <2>2. u <= n - y
    BY <1>2, <2>1
  <2> QED
    BY <2>2
<1> QED
  BY <1>3, <1>4

\* A loop over s has a running sum.
LEMMA RunningSumExists ==
  ASSUME NEW s \in Seq(Nat)
  PROVE  \E g : g = [i \in 0..Len(s) |-> IF i = 0 THEN 0 ELSE g[i - 1] + s[i]]
<1> DEFINE Upto(g, n) ==
      /\ g \in [0..n -> Nat]
      /\ g[0] = 0
      /\ \A i \in 1..n : g[i] = g[i - 1] + s[i]
           Missing == {n \in 0..Len(s) : ~\E g \in [0..n -> Nat] : Upto(g, n)}
<1>1. Missing = {}
  <2>1. SUFFICES ASSUME Missing # {} PROVE FALSE
    OBVIOUS
  <2>2. PICK m \in Missing : \A n \in Missing : m <= n
    <3>1. Missing \subseteq Nat
      OBVIOUS
    <3> HIDE DEF Missing
    <3> QED
      BY <2>1, <3>1, LeastElement
  <2>3. CASE m = 0
    <3>1. Upto([i \in 0..0 |-> 0], 0)
      OBVIOUS
    <3> QED
      BY <2>3, <3>1
  <2>4. CASE m # 0
    <3>1. m \in 1..Len(s) /\ m - 1 \in 0..Len(s) /\ m - 1 \notin Missing
      <4>1. m \in 1..Len(s)
        BY <2>4
      <4> HIDE DEF Missing
      <4> QED
        BY <2>2, <4>1
    <3>2. PICK g \in [0..(m - 1) -> Nat] : Upto(g, m - 1)
      BY <3>1
    <3> DEFINE h == [i \in 0..m |-> IF i = m THEN g[m - 1] + s[m] ELSE g[i]]
    <3>3. s[m] \in Nat
      BY <2>4
    <3>4. h \in [0..m -> Nat]
      BY <3>1, <3>2, <3>3
    <3>5. h[0] = 0
      BY <3>1, <3>2, <2>4
    <3>6. \A i \in 1..m : h[i] = h[i - 1] + s[i]
      BY <3>1, <3>2, <2>4
    <3> QED
      BY <3>4, <3>5, <3>6
  <2> QED
    BY <2>3, <2>4
<1>2. PICK g \in [0..Len(s) -> Nat] : Upto(g, Len(s))
  BY <1>1
<1>3. g = [i \in 0..Len(s) |-> IF i = 0 THEN 0 ELSE g[i - 1] + s[i]]
  BY <1>2
<1> QED
  BY <1>3

\* RunningSum is the loop: it starts at zero and adds one number at a time.
LEMMA RunningSumIs ==
  ASSUME NEW s \in Seq(Nat)
  PROVE  /\ RunningSum(s) \in [0..Len(s) -> Nat]
         /\ RunningSum(s)[0] = 0
         /\ \A i \in 1..Len(s) : RunningSum(s)[i] = RunningSum(s)[i - 1] + s[i]
<1> DEFINE g == RunningSum(s)
<1>1. g = [i \in 0..Len(s) |-> IF i = 0 THEN 0 ELSE g[i - 1] + s[i]]
  BY RunningSumExists DEF RunningSum
<1> HIDE DEF g
<1>2. g[0] = 0 /\ \A i \in 1..Len(s) : g[i] = g[i - 1] + s[i]
  BY <1>1
<1> DEFINE Odd == {i \in 0..Len(s) : g[i] \notin Nat}
<1>3. Odd = {}
  <2> SUFFICES ASSUME Odd # {} PROVE FALSE
    OBVIOUS
  <2>1. PICK m \in Odd : \A n \in Odd : m <= n
    <3>1. Odd \subseteq Nat
      OBVIOUS
    <3> HIDE DEF Odd
    <3> QED
      BY <3>1, LeastElement
  <2>2. m \in 1..Len(s) /\ m - 1 \in 0..Len(s)
    BY <1>2
  <2>3. g[m - 1] \in Nat
    <3>1. m - 1 \notin Odd
      <4> HIDE DEF Odd
      <4> QED
        BY <2>1, <2>2
    <3> QED
      BY <2>2, <3>1
  <2>4. s[m] \in Nat /\ g[m] = g[m - 1] + s[m] /\ g[m] \notin Nat
    BY <1>2, <2>2
  <2> QED
    BY <2>3, <2>4
<1> QED
  BY <1>1, <1>2, <1>3 DEF g

\* A loop that goes on for one more number adds it.
LEMMA SumAppend ==
  ASSUME NEW s \in Seq(Nat), NEW n \in Nat
  PROVE  SumOf(Append(s, n)) = SumOf(s) + n
<1> DEFINE t == Append(s, n)
           f == RunningSum(s)
           g == RunningSum(t)
           Apart == {i \in 0..Len(s) : f[i] # g[i]}
<1>1. t \in Seq(Nat) /\ Len(t) = Len(s) + 1 /\ t[Len(t)] = n /\ \A i \in 1..Len(s) : t[i] = s[i]
  OBVIOUS
<1> HIDE DEF t
<1>2. /\ f \in [0..Len(s) -> Nat] /\ g \in [0..Len(t) -> Nat]
      /\ f[0] = 0 /\ g[0] = 0
      /\ \A i \in 1..Len(s) : f[i] = f[i - 1] + s[i]
      /\ \A i \in 1..Len(t) : g[i] = g[i - 1] + t[i]
  BY <1>1, RunningSumIs
<1> HIDE DEF f, g
<1>3. Apart = {}
  <2> SUFFICES ASSUME Apart # {} PROVE FALSE
    OBVIOUS
  <2>1. PICK m \in Apart : \A i \in Apart : m <= i
    <3>1. Apart \subseteq Nat
      OBVIOUS
    <3> HIDE DEF Apart
    <3> QED
      BY <3>1, LeastElement
  <2>2. m \in 1..Len(s) /\ m - 1 \in 0..Len(s)
    BY <1>2
  <2>3. f[m - 1] = g[m - 1]
    <3>1. m - 1 \notin Apart
      <4> HIDE DEF Apart
      <4> QED
        BY <2>1, <2>2
    <3> QED
      BY <2>2, <3>1
  <2>4. m \in 1..Len(t) /\ t[m] = s[m]
    BY <1>1, <2>2
  <2> QED
    BY <1>2, <2>2, <2>3, <2>4
<1>4. g[Len(t)] = f[Len(s)] + n
  <2>1. Len(s) \in 0..Len(s) /\ Len(t) \in 1..Len(t) /\ Len(t) - 1 = Len(s)
    BY <1>1
  <2>2. f[Len(s)] = g[Len(s)]
    BY <1>3, <2>1
  <2>3. g[Len(t)] = g[Len(t) - 1] + t[Len(t)]
    BY <1>2, <2>1
  <2> QED
    BY <1>1, <2>1, <2>2, <2>3
<1> QED
  BY <1>4 DEF SumOf, f, g, t

LEMMA SumEmpty == SumOf(<<>>) = 0
<1>1. <<>> \in Seq(Nat) /\ Len(<<>>) = 0
  OBVIOUS
<1> QED
  BY <1>1, RunningSumIs DEF SumOf

\* The quotient is the number of times k fits.
LEMMA Quotient ==
  ASSUME NEW m \in Nat, NEW k \in Nat \ {0}, NEW q \in Nat, q * k <= m, m < q * k + k
  PROVE  m \div k = q
  OBVIOUS

\* For k times one more.
LEMMA OneMore ==
  ASSUME NEW n \in Nat, NEW k \in Nat
  PROVE  (n + 1) * k = n * k + k /\ n * k \in Nat
  OBVIOUS

-----------------------------------------------------------------------------
(* DetectorChunks: the chunks classified so far are what the server expects, *)
(* and their weights add up to the tokens they cover.                        *)

LEMMA StepPositive == Step \in Nat \ {0} /\ Step + OverlapTokens = Capacity
  BY ChunksAssumption DEF Step

\* One chunk more: the next one starts Step tokens later.
LEMMA WeightsAppend ==
  ASSUME NEW cs \in Seq(Chunk), NEW c \in Chunk
  PROVE  SumOf(Weights(Append(cs, c))) = SumOf(Weights(cs)) + c.weightTokens
<1>1. Weights(cs) \in Seq(Nat) /\ c.weightTokens \in Nat
  <2> DEFINE n == Len(cs)
  <2>1. n \in Nat /\ DOMAIN cs = 1..n /\ \A i \in 1..n : cs[i] \in Chunk
    OBVIOUS
  <2>2. \A d \in Chunk : d.weightTokens \in Nat
    BY ChunksAssumption DEF Chunk
  <2>3. Weights(cs) \in [1..n -> Nat]
    BY <2>1, <2>2 DEF Weights
  <2> HIDE DEF n
  <2> QED
    BY <2>1, <2>2, <2>3, SeqDef
<1>2. Weights(Append(cs, c)) = Append(Weights(cs), c.weightTokens)
  BY <1>1 DEF Weights
<1> QED
  BY <1>1, <1>2, SumAppend

\* The number of chunks foretold is the number made when the last one ends
\* with the program: n chunks that do not reach its end, and one that does.
LEMMA ChunksForetold ==
  ASSUME NEW n \in Nat, NEW t \in Nat, t > 0,
         n > 0 => n * Step + OverlapTokens < t,
         t <= n * Step + Capacity
  PROVE  ChunkCount(t) = n + 1
<1>1. n * Step \in Nat
  BY StepPositive, OneMore
<1>2. CASE t <= Capacity
  <2>1. n = 0
    <3>1. n > 0 => n * Step >= Step
      <4>1. n > 0 => (n - 1) * Step \in Nat /\ n * Step = (n - 1) * Step + Step
        <5>1. SUFFICES ASSUME n > 0 PROVE (n - 1) * Step \in Nat /\ n * Step = (n - 1) * Step + Step
          OBVIOUS
        <5>2. n - 1 \in Nat /\ (n - 1) + 1 = n
          BY <5>1
        <5> QED
          BY <5>2, StepPositive, OneMore
      <4> QED
        BY <4>1, StepPositive
    <3> QED
      BY <1>1, <1>2, <3>1, StepPositive, ChunksAssumption
  <2> QED
    BY <1>2, <2>1 DEF ChunkCount
<1>3. CASE ~(t <= Capacity)
  <2>1. n > 0
    BY <1>3, StepPositive, ChunksAssumption
  <2> DEFINE m == t - Capacity + Step - 1
  <2>2. m \in Nat /\ n * Step <= m /\ m < n * Step + Step
    BY <1>1, <1>3, <2>1, StepPositive, ChunksAssumption
  <2>3. m \div Step = n
    BY <2>2, StepPositive, Quotient
  <2> QED
    BY <1>3, <2>3 DEF ChunkCount
<1> QED
  BY <1>2, <1>3

LEMMA ChunksStart == ChunksInit => ChunksInv
<1>1. SumOf(Weights(<<>>)) = 0
  BY SumEmpty DEF Weights
<1> QED
  BY <1>1 DEF ChunksInit, ChunksInv, ChunksTypeOK, ChunksRepeat, Unstarted

\* The chunk that is classified next begins Step after the last one and adds
\* what is not covered yet.
LEMMA ClassifyKeeps ==
  ASSUME ChunksInv, ClassifyChunk
  PROVE  ChunksInv'
<1> DEFINE n == Len(chunks)
           end == Least(start + Capacity, tokens)
           c == [tokenCount |-> end - start, weightTokens |-> end - covered]
<1>1. /\ tokens > 0 /\ answered = "none" /\ start < tokens
      /\ chunks' = Append(chunks, c) /\ covered' = end
      /\ answered' = IF end = tokens THEN "result" ELSE "none"
      /\ start' = start + Step /\ tokens' = tokens
  BY DEF ClassifyChunk
<1>2. /\ tokens \in Nat /\ start \in Nat /\ covered \in Nat /\ chunks \in Seq(Chunk)
      /\ tokens \in Totals
  BY <1>1, ChunksAssumption DEF ChunksInv, ChunksTypeOK
<1>3. /\ n \in Nat /\ start = n * Step
      /\ n = 0 => start = 0 /\ covered = 0
      /\ n > 0 => covered = start + OverlapTokens /\ covered < tokens
  <2>1. n \in Nat /\ (Unstarted => n = 0)
    BY <1>2 DEF Unstarted
  <2>2. 0 * Step = 0
    BY StepPositive
  <2>3. CASE Unstarted /\ n = 0
    BY <2>2, <2>3 DEF Unstarted
  <2>4. CASE ChunksAligned
    <3>1. start = n * Step /\ (n = 0 => covered = 0)
      BY <2>4 DEF ChunksAligned
    <3>2. n > 0 => /\ covered = Least(start + OverlapTokens, tokens)
                   /\ start + OverlapTokens < tokens
      BY <1>1, <2>4 DEF ChunksAligned
    <3>3. n > 0 => covered = start + OverlapTokens
      BY <1>2, <3>2, ChunksAssumption DEF Least
    <3> QED
      BY <2>1, <2>2, <3>1, <3>2, <3>3
  <2> QED
    BY <1>1, <2>1, <2>3, <2>4 DEF ChunksInv
<1> HIDE DEF n
<1>4. /\ end \in Nat /\ start < end /\ covered < end /\ end <= tokens
      /\ end <= start + Capacity
      /\ end - start \in 1..Capacity /\ end - covered \in 1..Capacity
      /\ end - covered <= end - start
      /\ end - covered = IF n = 0 THEN end - start ELSE end - start - OverlapTokens
  BY <1>1, <1>2, <1>3, StepPositive, ChunksAssumption DEF Least
<1>5. c \in Chunk
  BY <1>4 DEF Chunk
<1>6. ChunksTypeOK'
  BY <1>1, <1>2, <1>4, <1>5, StepPositive DEF ChunksTypeOK
<1>7. ChunksRepeat'
  <2>1. Len(chunks') = n + 1 /\ chunks'[n + 1] = c /\ \A i \in 1..n : chunks'[i] = chunks[i]
    BY <1>1, <1>2 DEF n
  <2>2. c.tokenCount = end - start /\ c.weightTokens = end - covered
    OBVIOUS
  <2> HIDE DEF end, c
  <2>3. ASSUME NEW i \in 1..(n + 1)
        PROVE  /\ chunks'[i].weightTokens =
                    IF i = 1 THEN chunks'[i].tokenCount
                    ELSE chunks'[i].tokenCount - OverlapTokens
               /\ chunks'[i].weightTokens <= chunks'[i].tokenCount
    <3>1. CASE i = n + 1
      BY <1>3, <1>4, <2>1, <2>2, <3>1
    <3>2. CASE i # n + 1
      <4>1. i \in 1..n /\ i \in 1..Len(chunks)
        BY <1>3, <3>2 DEF n
      <4> QED
        BY <2>1, <4>1 DEF ChunksInv, ChunksRepeat
    <3> QED
      BY <3>1, <3>2
  <2> QED
    BY <2>1, <2>3 DEF ChunksRepeat
<1>8. SumOf(Weights(chunks))' = covered'
  <2>1. SumOf(Weights(chunks)) = covered
    BY DEF ChunksInv
  <2>2. SumOf(Weights(chunks')) = covered + c.weightTokens
    BY <1>1, <1>2, <1>5, <2>1, WeightsAppend
  <2>3. c.weightTokens = end - covered
    OBVIOUS
  <2> HIDE DEF end, c
  <2> QED
    BY <1>1, <1>2, <1>4, <2>2, <2>3
<1>9. ChunksAligned'
  <2>1. Len(chunks') = n + 1 /\ n + 1 > 0
    BY <1>1, <1>2, <1>3 DEF n
  <2>2. start' = (n + 1) * Step
    BY <1>1, <1>3, StepPositive, OneMore
  <2>3. covered' = Least(start' + OverlapTokens, tokens')
    BY <1>1, <1>2, StepPositive, ChunksAssumption DEF Least
  <2>4. answered' = IF start' + OverlapTokens < tokens' THEN "none" ELSE "result"
    BY <1>1, <1>2, StepPositive, ChunksAssumption DEF Least
  <2>5. n + 1 > 1 => start' + OverlapTokens < tokens' + Step
    BY <1>1, <1>2, <1>3, StepPositive, ChunksAssumption
  <2> QED
    BY <1>3, <2>1, <2>2, <2>3, <2>4, <2>5 DEF ChunksAligned
<1>10. ChunkCount(tokens') <= DetectorMax
  BY <1>1 DEF ChunksInv
<1> QED
  BY <1>1, <1>6, <1>7, <1>8, <1>9, <1>10 DEF ChunksInv

\* Every step of the detector keeps the chunks aligned.
LEMMA ChunksStep == ChunksInv /\ [ChunksNext]_chunkVars => ChunksInv'
<1> SUFFICES ASSUME ChunksInv, [ChunksNext]_chunkVars PROVE ChunksInv'
  OBVIOUS
<1>1. ASSUME NEW t \in Totals, DetectCode(t) PROVE ChunksInv'
  <2>1. /\ tokens' = t /\ t \in Nat /\ Unstarted
        /\ answered' = IF t = 0 THEN "result"
                       ELSE IF ChunkCount(t) > DetectorMax THEN "refused" ELSE "none"
        /\ UNCHANGED <<start, covered, chunks>>
    BY <1>1, ChunksAssumption DEF DetectCode, ChunksInv, ChunksAligned
  <2>2. ChunksTypeOK' /\ ChunksRepeat' /\ SumOf(Weights(chunks))' = covered' /\ Unstarted'
    BY <2>1 DEF ChunksInv, ChunksTypeOK, ChunksRepeat, Unstarted
  <2>3. CASE t = 0
    BY <2>1, <2>2, <2>3 DEF ChunksInv
  <2>4. CASE t > 0 /\ ChunkCount(t) > DetectorMax
    BY <2>1, <2>2, <2>4 DEF ChunksInv
  <2>5. CASE t > 0 /\ ~(ChunkCount(t) > DetectorMax)
    <3>1. ChunkCount(t) \in Int
      BY <2>1, StepPositive, ChunksAssumption DEF ChunkCount
    <3>2. 0 * Step = 0 /\ Len(chunks') = 0
      BY <2>1, StepPositive DEF Unstarted
    <3>3. ChunksAligned'
      BY <2>1, <2>2, <2>5, <3>2 DEF Unstarted, ChunksAligned
    <3> QED
      BY <2>1, <2>2, <2>5, <3>1, <3>3, ChunksAssumption DEF ChunksInv
  <2> QED
    BY <2>1, <2>3, <2>4, <2>5
<1>2. CASE ClassifyChunk
  BY <1>2, ClassifyKeeps
<1>3. CASE NextRequest
  <2>1. ChunksInit'
    BY <1>3 DEF NextRequest, ChunksInit
  <2>2. SumOf(Weights(chunks')) = 0
    BY <2>1, SumEmpty DEF ChunksInit, Weights
  <2> QED
    BY <2>1, <2>2 DEF ChunksInit, ChunksInv, ChunksTypeOK, ChunksRepeat, Unstarted
<1>4. CASE UNCHANGED chunkVars
  BY <1>4 DEF chunkVars, ChunksInv, ChunksTypeOK, ChunksRepeat, Unstarted, ChunksAligned
<1> QED
  BY <1>1, <1>2, <1>3, <1>4 DEF ChunksNext

\* When the last chunk is reached all tokens are covered, by the number of
\* chunks that was foretold before the first was classified.
LEMMA ChunksComplete ==
  ASSUME ChunksInv, DetectorMax <= ServerMax
  PROVE  ResultAccepted
<1> SUFFICES ASSUME answered = "result"
             PROVE  ValidResult /\ (tokens > 0 => Len(chunks) = ChunkCount(tokens))
  BY DEF ResultAccepted
<1>1. CASE tokens = 0 /\ Unstarted
  BY <1>1, ChunksAssumption DEF Unstarted, ValidResult
<1>2. CASE tokens > 0 /\ ChunkCount(tokens) <= DetectorMax /\ ChunksAligned
  <2> DEFINE n == Len(chunks)
  <2>1. n \in Nat /\ tokens \in Nat /\ chunks \in Seq(Chunk)
    BY <1>2, ChunksAssumption DEF ChunksInv, ChunksTypeOK
  <2>2. n > 0
    BY <1>2, <2>1 DEF ChunksAligned
  <2> DEFINE k == n - 1
  <2>3. k \in Nat /\ n = k + 1 /\ k * Step \in Nat /\ start = k * Step + Step
    <3>1. k \in Nat /\ n = k + 1
      BY <2>1, <2>2
    <3>2. (k + 1) * Step = k * Step + Step /\ k * Step \in Nat
      BY <3>1, StepPositive, OneMore
    <3> QED
      BY <1>2, <3>1, <3>2 DEF ChunksAligned
  <2>4. /\ covered = Least(start + OverlapTokens, tokens)
        /\ ~(start + OverlapTokens < tokens)
        /\ k > 0 => start + OverlapTokens < tokens + Step
    BY <1>2, <2>1, <2>2 DEF ChunksAligned
  <2> HIDE DEF k
  <2>5. covered = tokens
    BY <2>1, <2>3, <2>4, StepPositive, ChunksAssumption DEF Least
  <2>6. tokens <= k * Step + Capacity /\ (k > 0 => k * Step + OverlapTokens < tokens)
    BY <2>1, <2>3, <2>4, StepPositive, ChunksAssumption
  <2>7. Len(chunks) = ChunkCount(tokens)
    BY <1>2, <2>1, <2>3, <2>6, ChunksForetold
  <2>8. Len(chunks) <= ServerMax
    BY <1>2, <2>1, <2>7, ChunksAssumption
  <2>9. /\ chunks # <<>>
        /\ \A i \in 1..Len(chunks) :
             /\ chunks[i].tokenCount \in 1..Capacity
             /\ chunks[i].weightTokens \in 1..chunks[i].tokenCount
             /\ chunks[i].weightTokens =
                  IF i = 1 THEN chunks[i].tokenCount ELSE chunks[i].tokenCount - OverlapTokens
    <3>1. chunks # <<>>
      BY <2>2
    <3>2. ASSUME NEW i \in 1..Len(chunks)
          PROVE  chunks[i].tokenCount \in 1..Capacity /\ chunks[i].weightTokens \in 1..Capacity
      <4>1. chunks[i] \in Chunk
        BY <2>1
      <4> QED
        BY <4>1 DEF Chunk
    <3>3. ASSUME NEW i \in 1..Len(chunks)
          PROVE  chunks[i].weightTokens \in 1..chunks[i].tokenCount
      BY <3>2, ChunksAssumption DEF ChunksInv, ChunksRepeat
    <3> QED
      BY <3>1, <3>2, <3>3 DEF ChunksInv, ChunksRepeat
  <2>10. SumOf(Weights(chunks)) = tokens
    BY <2>5 DEF ChunksInv
  <2> QED
    BY <2>5, <2>7, <2>8, <2>9, <2>10 DEF ValidResult
<1> QED
  BY <1>1, <1>2 DEF ChunksInv

\* The server accepts every result of the detector, for any number of tokens and
\* any size and overlap of the chunks: each token has its weight once.  It takes
\* that the detector's own limit is not above the server's; both are 64, in
\* detector/settings.py:19, which no configuration changes, and in
\* local_detector.go:115.
THEOREM ResultsAccepted ==
  ASSUME DetectorMax <= ServerMax
  PROVE  ChunksSpec => []ResultAccepted
<1> QED
  BY ChunksStart, ChunksStep, ChunksComplete, PTL DEF ChunksSpec

-----------------------------------------------------------------------------
(* TokenRuns: the runs are apart, and matched counts the tokens they use. *)

\* The longest run, and of those the first, exists: the loop over j finds it.
LEMMA BestExists ==
  ASSUME RunsInv, NEW i \in 1..MaxTokens, RunsFrom(i) # {}
  PROVE  Best(i) \in RunsFrom(i)
<1> DEFINE Runs == RunsFrom(i)
           Lengths == {n \in 0..MaxTokens : \E t \in Runs : t.length = n}
<1>1. \A t \in Runs : t.length \in 0..MaxTokens /\ t.b \in Nat
  BY RunsAssumption DEF RunsFrom, RunsInv, TokenRunsTypeOK
<1>2. Runs # {}
  OBVIOUS
<1> HIDE DEF Runs
<1>3. PICK n \in Lengths : \A l \in Lengths : l <= n
  <2>1. Lengths \subseteq 0..MaxTokens /\ Lengths # {}
    BY <1>1, <1>2
  <2> HIDE DEF Lengths
  <2> QED
    BY <2>1, GreatestElement, RunsAssumption
<1> DEFINE Firsts == {b \in Nat : \E t \in Runs : t.length = n /\ t.b = b}
<1>4. PICK b \in Firsts : \A c \in Firsts : b <= c
  <2>1. Firsts \subseteq Nat /\ Firsts # {}
    BY <1>1
  <2> HIDE DEF Firsts
  <2> QED
    BY <2>1, LeastElement
<1>5. PICK x \in Runs : x.length = n /\ x.b = b
  OBVIOUS
<1>6. ASSUME NEW y \in Runs PROVE Better(x, y)
  <2>1. y.length \in Lengths /\ y.length <= n
    BY <1>1, <1>3
  <2>2. y.length = n => y.b \in Firsts
    BY <1>1
  <2>3. y.length = n => b <= y.b
    BY <1>4, <2>2
  <2> QED
    BY <1>1, <1>3, <1>5, <2>1, <2>3, RunsAssumption DEF Better
<1> QED
  BY <1>5, <1>6 DEF Best, Runs

\* A program's positions, and those of a run in it.
LEMMA ProgramPositions ==
  ASSUME NEW n \in Nat
  PROVE  IsFiniteSet(1..n) /\ Cardinality(1..n) = n
<1>1. 1 \in Int /\ n \in Int
  OBVIOUS
<1>2. IsFiniteSet(1..n) /\ Cardinality(1..n) = IF 1 > n THEN 0 ELSE n - 1 + 1
  BY <1>1, FS_Interval
<1> QED
  BY <1>2

LEMMA RunPositions ==
  ASSUME NEW from \in Nat \ {0}, NEW length \in Nat, NEW n \in Nat, from + length - 1 <= n
  PROVE  /\ Positions(from, length) \subseteq 1..n
         /\ IsFiniteSet(Positions(from, length))
         /\ Cardinality(Positions(from, length)) = length
<1>1. from + length - 1 \in Int /\ from \in Int
  OBVIOUS
<1> QED
  BY <1>1, FS_Interval DEF Positions

\* A set that is finite grows by what is added to it and was not there.
LEMMA DisjointUnion ==
  ASSUME NEW S, NEW T, IsFiniteSet(S), IsFiniteSet(T), S \cap T = {}
  PROVE  Cardinality(S \cup T) = Cardinality(S) + Cardinality(T)
<1>1. Cardinality(S) \in Nat /\ Cardinality(T) \in Nat /\ Cardinality(S \cap T) = 0
  BY FS_CardinalityType, FS_EmptySet
<1>2. Cardinality(S \cup T) = Cardinality(S) + Cardinality(T) - Cardinality(S \cap T)
  BY FS_Union
<1> QED
  BY <1>1, <1>2

LEMMA RunsStart == TokenRunsInit => RunsInv
<1> SUFFICES ASSUME TokenRunsInit PROVE RunsInv
  OBVIOUS
<1> USE DEF TokenRunsInit
<1>1. Len(left) = 0 /\ Len(right) = 0 /\ left \in Seq(Tokens) /\ right \in Seq(Tokens)
  OBVIOUS
<1>2. Cardinality({} \ {}) = 0
  BY FS_EmptySet
<1>3. TokenRunsTypeOK
  <2>1. rename \in BOOLEAN
    OBVIOUS
  <2>2. at \in 0..MaxTokens + 1 /\ matched \in 0..MaxTokens
    BY RunsAssumption
  <2> QED
    BY <1>1, <2>1, <2>2 DEF TokenRunsTypeOK
<1>4. RunsApart /\ RunsMarked /\ UsedCounted
  BY <1>2 DEF RunsApart, RunsMarked, UsedCounted
<1> QED
  BY <1>1, <1>3, <1>4, RunsAssumption DEF RunsInv

LEMMA CompareKeeps ==
  ASSUME RunsInv, at = 0, NEW a \in Programs, NEW b \in Programs,
         NEW common \in {{}, {1}}, CompareTokens(a, b, common)
  PROVE  RunsInv'
<1> USE DEF CompareTokens
<1>1. /\ a \in Seq(Tokens) /\ b \in Seq(Tokens)
      /\ Len(a) <= MaxTokens /\ Len(b) <= MaxTokens
      /\ DOMAIN a = 1..Len(a) /\ DOMAIN b = 1..Len(b)
      /\ Len(a) \in Nat /\ Len(b) \in Nat
  <2>1. ASSUME NEW p \in Programs PROVE p \in Seq(Tokens) /\ Len(p) <= MaxTokens
    <3>1. PICK n \in 0..MaxTokens : p \in [1..n -> Tokens]
      BY DEF Programs, SeqOf
    <3>2. n \in Nat /\ n <= MaxTokens
      BY RunsAssumption
    <3> QED
      BY <3>1, <3>2, SeqDef
  <2> QED
    BY <2>1
<1>2. (usedLeft \ ignored)' = {} /\ (usedRight \ ignored)' = {}
  OBVIOUS
<1>3. TokenRunsTypeOK'
  <2>1. left' \in Seq(Tokens) /\ right' \in Seq(Tokens) /\ rename' \in BOOLEAN
    BY <1>1
  <2>2. ignored' \subseteq Nat /\ usedLeft' \subseteq 1..Len(left')
        /\ usedRight' \subseteq 1..Len(right')
    BY <1>1
  <2>3. at' \in 0..MaxTokens + 1 /\ matched' \in 0..MaxTokens
    BY RunsAssumption
  <2> QED
    BY <2>1, <2>2, <2>3 DEF TokenRunsTypeOK
<1>4. RunsApart' /\ RunsMarked'
  BY DEF RunsApart, RunsMarked
<1>5. UsedCounted'
  BY <1>2, FS_EmptySet DEF UsedCounted
<1> QED
  BY <1>1, <1>3, <1>4, <1>5 DEF RunsInv

LEMMA TakeRunKeeps ==
  ASSUME RunsInv, TakeRun
  PROVE  RunsInv'
<1> DEFINE t == Best(at)
           As == Positions(t.a, t.length)
           Bs == Positions(t.b, t.length)
<1>1. /\ at > 0 /\ at <= Len(left)
      /\ tiles' = tiles \cup {t}
      /\ usedLeft' = usedLeft \cup As
      /\ usedRight' = usedRight \cup UsedOf(t)
      /\ at' = at + t.length
      /\ matched' = matched + t.length
      /\ UNCHANGED <<left, right, rename, ignored>>
  BY DEF TakeRun
<1>2. /\ Len(left) \in Nat /\ Len(right) \in Nat
      /\ Len(left) <= MaxTokens /\ Len(right) <= MaxTokens
      /\ DOMAIN left = 1..Len(left) /\ DOMAIN right = 1..Len(right)
  BY DEF RunsInv, TokenRunsTypeOK
<1>3. at \in 1..MaxTokens /\ t \in RunsFrom(at)
  <2>1. at \in 1..MaxTokens
    BY <1>1, <1>2, RunsAssumption DEF RunsInv, TokenRunsTypeOK
  <2> QED
    BY <2>1, BestExists DEF TakeRun
<1> HIDE DEF t
<1>4. /\ t \in [a : 1..MaxTokens, b : 1..MaxTokens, length : MinRun..MaxTokens]
      /\ t.a = at /\ t.b \in 1..Len(right) /\ t.length \in Nat \ {0}
      /\ Run(at, t.b, t.length)
  BY <1>2, <1>3, RunsAssumption DEF RunsFrom
<1>5. /\ at + t.length - 1 <= Len(left) /\ t.b + t.length - 1 <= Len(right)
      /\ As \cap usedLeft = {} /\ Bs \cap usedRight = {}
  BY <1>4 DEF Run
<1>6. /\ As \subseteq 1..Len(left) /\ IsFiniteSet(As) /\ Cardinality(As) = t.length
      /\ Bs \subseteq 1..Len(right) /\ IsFiniteSet(Bs) /\ Cardinality(Bs) = t.length
  <2>1. t.a \in Nat \ {0} /\ t.b \in Nat \ {0} /\ t.length \in Nat
    BY <1>3, <1>4
  <2> QED
    BY <1>2, <1>4, <1>5, <2>1, RunPositions
<1>7. As \cap ignored = {} /\ Bs \cap ignored = {}
  BY <1>2, <1>5, <1>6 DEF RunsInv, UsedCounted
<1> HIDE DEF As, Bs
<1>8. IsFiniteSet(usedLeft \ ignored) /\ IsFiniteSet(usedRight \ ignored)
  <2>1. IsFiniteSet(1..Len(left)) /\ IsFiniteSet(1..Len(right))
    BY <1>2, FS_Interval
  <2>2. usedLeft \subseteq 1..Len(left) /\ usedRight \subseteq 1..Len(right)
    BY DEF RunsInv, TokenRunsTypeOK
  <2> QED
    BY <2>1, <2>2, FS_Subset, FS_Difference
<1>9. matched' = Cardinality(usedLeft' \ ignored')
  <2>1. usedLeft' \ ignored' = (usedLeft \ ignored) \cup As
    BY <1>1, <1>7
  <2>2. Cardinality((usedLeft \ ignored) \cup As) = Cardinality(usedLeft \ ignored) + Cardinality(As)
    BY <1>5, <1>6, <1>8, DisjointUnion
  <2> QED
    BY <1>1, <1>6, <2>1, <2>2 DEF RunsInv, UsedCounted
<1>10. rename' => usedRight' = usedRight \cup Bs /\ matched' = Cardinality(usedRight' \ ignored')
  <2> SUFFICES ASSUME rename PROVE usedRight' = usedRight \cup Bs /\ matched' = Cardinality(usedRight' \ ignored')
    BY <1>1
  <2>1. usedRight' = usedRight \cup Bs
    BY <1>1 DEF UsedOf, Bs
  <2>2. usedRight' \ ignored' = (usedRight \ ignored) \cup Bs
    BY <1>1, <1>7, <2>1
  <2>3. Cardinality((usedRight \ ignored) \cup Bs) = Cardinality(usedRight \ ignored) + Cardinality(Bs)
    BY <1>5, <1>6, <1>8, DisjointUnion
  <2> QED
    BY <1>1, <1>6, <2>1, <2>2, <2>3 DEF RunsInv, UsedCounted
<1>11. UsedCounted'
  <2>1. usedLeft \subseteq usedLeft' /\ usedRight \subseteq usedRight'
    BY <1>1
  <2> QED
    BY <1>1, <1>9, <1>10, <2>1 DEF RunsInv, UsedCounted
<1>12. TokenRunsTypeOK'
  <2>1. tiles' \subseteq [a : 1..MaxTokens, b : 1..MaxTokens, length : MinRun..MaxTokens]
    BY <1>1, <1>4 DEF RunsInv, TokenRunsTypeOK
  <2>2. usedLeft' \subseteq 1..Len(left') /\ usedRight' \subseteq 1..Len(right')
    BY <1>1, <1>6 DEF RunsInv, TokenRunsTypeOK, UsedOf, Bs
  <2>3. at' \in 0..MaxTokens + 1
    BY <1>1, <1>2, <1>3, <1>4, <1>5, RunsAssumption
  <2>4. matched' \in 0..MaxTokens
    <3>1. IsFiniteSet(1..Len(left)) /\ Cardinality(1..Len(left)) = Len(left)
      BY <1>2, ProgramPositions
    <3>2. (usedLeft' \ ignored') \in SUBSET (1..Len(left))
      BY <1>1, <2>2
    <3>3. IsFiniteSet(usedLeft' \ ignored') /\ matched' <= Len(left)
      BY <1>9, <3>1, <3>2, FS_Subset
    <3>4. matched' \in Nat
      BY <1>9, <3>3, FS_CardinalityType
    <3> QED
      BY <1>2, <3>3, <3>4, RunsAssumption
  <2> QED
    BY <1>1, <2>1, <2>2, <2>3, <2>4 DEF RunsInv, TokenRunsTypeOK
<1>13. RunsMarked'
  <2>1. As \subseteq usedLeft' \ ignored' /\ (rename' => Bs \subseteq usedRight' \ ignored')
    BY <1>1, <1>7, <1>10
  <2>2. ASSUME NEW s \in tiles
        PROVE  /\ Positions(s.a, s.length) \subseteq usedLeft' \ ignored'
               /\ rename' => Positions(s.b, s.length) \subseteq usedRight' \ ignored'
    BY <1>1 DEF RunsInv, RunsMarked
  <2> QED
    BY <1>1, <2>1, <2>2 DEF RunsMarked, As, Bs
<1>14. RunsApart'
  <2>1. ASSUME NEW s \in tiles
        PROVE  /\ Positions(s.a, s.length) \cap As = {}
               /\ rename => Positions(s.b, s.length) \cap Bs = {}
    BY <1>5 DEF RunsInv, RunsMarked
  <2>2. ASSUME NEW r \in tiles', NEW s \in tiles', r # s
        PROVE  /\ Positions(r.a, r.length) \cap Positions(s.a, s.length) = {}
               /\ rename => Positions(r.b, r.length) \cap Positions(s.b, s.length) = {}
    <3>1. CASE r \in tiles /\ s \in tiles
      BY <2>2, <3>1 DEF RunsInv, RunsApart
    <3>2. CASE r = t /\ s \in tiles
      BY <2>1, <3>2 DEF As, Bs
    <3>3. CASE r \in tiles /\ s = t
      BY <2>1, <3>3 DEF As, Bs
    <3> QED
      BY <1>1, <2>2, <3>1, <3>2, <3>3
  <2> QED
    BY <1>1, <2>2 DEF RunsApart
<1>15. Len(left') <= MaxTokens /\ Len(right') <= MaxTokens /\ at' <= Len(left') + 1
  BY <1>1, <1>2, <1>3, <1>4, <1>5
<1> QED
  BY <1>11, <1>12, <1>13, <1>14, <1>15 DEF RunsInv

\* Every step of a comparison keeps the runs apart and counted.
LEMMA RunsStep == RunsInv /\ [TokenRunsNext]_runVars => RunsInv'
<1> SUFFICES ASSUME RunsInv, [TokenRunsNext]_runVars PROVE RunsInv'
  OBVIOUS
<1>1. ASSUME at = 0, NEW a \in Programs, NEW b \in Programs, NEW common \in {{}, {1}},
             CompareTokens(a, b, common)
      PROVE  RunsInv'
  BY <1>1, CompareKeeps
<1>2. CASE TakeRun
  BY <1>2, TakeRunKeeps
<1>3. CASE SkipToken
  <2>1. /\ at' = at + 1 /\ at <= Len(left)
        /\ UNCHANGED <<left, right, rename, ignored, usedLeft, usedRight, tiles, matched>>
    BY <1>3 DEF SkipToken
  <2>2. Len(left) \in Nat /\ Len(left) <= MaxTokens /\ at \in Nat
    BY DEF RunsInv, TokenRunsTypeOK
  <2>3. TokenRunsTypeOK' /\ at' <= Len(left') + 1
    <3>1. at' \in 0..MaxTokens + 1 /\ at' <= Len(left') + 1
      BY <2>1, <2>2, RunsAssumption
    <3> QED
      BY <2>1, <3>1 DEF RunsInv, TokenRunsTypeOK
  <2>4. RunsApart' /\ RunsMarked' /\ UsedCounted'
    BY <2>1 DEF RunsInv, RunsApart, RunsMarked, UsedCounted
  <2> QED
    BY <2>1, <2>3, <2>4 DEF RunsInv
<1>4. CASE NextComparison
  <2>1. TokenRunsInit'
    BY <1>4 DEF NextComparison, TokenRunsInit
  <2>2. RunsInv'
    <3> USE <2>1 DEF TokenRunsInit
    <3>1. Len(left') = 0 /\ Len(right') = 0 /\ left' \in Seq(Tokens) /\ right' \in Seq(Tokens)
      OBVIOUS
    <3>2. TokenRunsTypeOK'
      <4>1. rename' \in BOOLEAN
        OBVIOUS
      <4>2. at' \in 0..MaxTokens + 1 /\ matched' \in 0..MaxTokens
        BY RunsAssumption
      <4> QED
        BY <3>1, <4>1, <4>2 DEF TokenRunsTypeOK
    <3>3. RunsApart' /\ RunsMarked' /\ UsedCounted'
      BY FS_EmptySet DEF RunsApart, RunsMarked, UsedCounted
    <3> QED
      BY <3>1, <3>2, <3>3, RunsAssumption DEF RunsInv
  <2> QED
    BY <2>2
<1>5. CASE UNCHANGED runVars
  BY <1>5 DEF runVars, RunsInv, TokenRunsTypeOK, RunsApart, RunsMarked, UsedCounted
<1> QED
  BY <1>1, <1>2, <1>3, <1>4, <1>5 DEF TokenRunsNext

\* What is counted is a part of what may be evidence.
LEMMA RunsCounted == RunsInv => TokensCountOnce
<1> SUFFICES ASSUME RunsInv PROVE TokensCountOnce
  OBVIOUS
<1>1. ASSUME rename
      PROVE  /\ matched <= Cardinality(DOMAIN left \ ignored)
             /\ matched <= Cardinality(DOMAIN right \ ignored)
  <2>1. /\ DOMAIN left = 1..Len(left) /\ DOMAIN right = 1..Len(right)
        /\ Len(left) \in Nat /\ Len(right) \in Nat
    BY DEF RunsInv, TokenRunsTypeOK
  <2>2. IsFiniteSet(DOMAIN left \ ignored) /\ IsFiniteSet(DOMAIN right \ ignored)
    <3>1. IsFiniteSet(DOMAIN left) /\ IsFiniteSet(DOMAIN right)
      BY <2>1, ProgramPositions
    <3> QED
      BY <3>1, FS_Difference
  <2>3. /\ (usedLeft \ ignored) \in SUBSET (DOMAIN left \ ignored)
        /\ (usedRight \ ignored) \in SUBSET (DOMAIN right \ ignored)
    BY <2>1 DEF RunsInv, TokenRunsTypeOK
  <2>4. matched = Cardinality(usedLeft \ ignored) /\ matched = Cardinality(usedRight \ ignored)
    BY <1>1 DEF RunsInv, UsedCounted
  <2>5. /\ Cardinality(usedLeft \ ignored) <= Cardinality(DOMAIN left \ ignored)
        /\ Cardinality(usedRight \ ignored) <= Cardinality(DOMAIN right \ ignored)
    BY <2>2, <2>3, FS_Subset
  <2> QED
    BY <2>4, <2>5
<1>2. \A t \in tiles : Positions(t.a, t.length) \cap ignored = {}
  BY DEF RunsInv, RunsMarked
<1> QED
  BY <1>1, <1>2 DEF RunsInv, RunsApart, TokensCountOnce

\* A token is evidence once at most, in programs of any length: the tokens two
\* submissions share are never more than either has outside the template.
THEOREM SharedTokensCountOnce == TokenRunsSpec => []TokensCountOnce
<1> QED
  BY RunsStart, RunsStep, RunsCounted, PTL DEF TokenRunsSpec

-----------------------------------------------------------------------------
(* LegacyScore: what is viewed is normal, whatever was stored. *)
Rubric == SeqOf(Dimension, MaxDimensions)

Stored ==
  [byRules : BOOLEAN, weighed : BOOLEAN, dimensions : Rubric, total : Nat,
   incomplete : BOOLEAN]

\* A rubric of n dimensions, and the sum of its points.
LEMMA RubricIs ==
  /\ \A ds \in Rubric : \E n \in 0..MaxDimensions : ds \in [1..n -> Dimension]
  /\ \A n \in 0..MaxDimensions : [1..n -> Dimension] \subseteq Rubric
  BY DEF Rubric, SeqOf

LEMMA SumIsNat ==
  ASSUME NEW ds \in Rubric
  PROVE  Sum(ds) \in Nat
<1>1. PICK n \in 0..MaxDimensions : ds \in [1..n -> Dimension]
  BY RubricIs
<1> DEFINE scores == [i \in DOMAIN ds |-> ds[i].score]
<1>2. n \in Nat /\ scores \in Seq(Nat) /\ Len(scores) \in 0..Len(scores)
  <2>1. n \in Nat
    BY ScoreAssumption
  <2>2. \A d \in Dimension : d.score \in Nat
    BY ScoreAssumption DEF Dimension
  <2>3. scores \in [1..n -> Nat]
    BY <1>1, <2>2
  <2>4. scores \in Seq(Nat)
    BY <2>1, <2>3, SeqDef
  <2> QED
    BY <2>1, <2>4
<1> HIDE DEF scores
<1>3. SumOf(scores) \in Nat
  BY <1>2, RunningSumIs DEF SumOf
<1> QED
  BY <1>3 DEF Sum, scores

NormalDimensions(e) == [i \in DOMAIN e.dimensions |-> NormalDimension(e, e.dimensions[i])]

LEMMA NormalDimensionOK ==
  ASSUME NEW e, NEW d \in Dimension
  PROVE  /\ NormalDimension(e, d) \in Dimension
         /\ ~NormalDimension(e, d).unscored => ~Unproven(e, NormalDimension(e, d))
         /\ NormalDimension(e, NormalDimension(e, d)) = NormalDimension(e, d)
<1>1. CASE Unproven(e, d)
  <2>1. /\ NormalDimension(e, d) \in Dimension
        /\ NormalDimension(e, d) = [d EXCEPT !.unscored = TRUE, !.score = 0, !.verified = FALSE]
    BY <1>1, ScoreAssumption DEF NormalDimension, Dimension
  <2>2. /\ NormalDimension(e, d).unscored = TRUE
        /\ NormalDimension(e, d).score = 0 /\ NormalDimension(e, d).verified = FALSE
    BY <2>1 DEF Dimension
  <2>3. Unproven(e, NormalDimension(e, d))
    BY <2>2 DEF Unproven
  <2> QED
    BY <2>1, <2>2, <2>3 DEF NormalDimension, Dimension
<1>2. CASE ~Unproven(e, d)
  <2>1. NormalDimension(e, d) \in Dimension /\ NormalDimension(e, d) = [d EXCEPT !.unscored = FALSE]
    BY <1>2 DEF NormalDimension, Dimension
  <2>2. ~Unproven(e, NormalDimension(e, d)) /\ NormalDimension(e, d).unscored = FALSE
    BY <1>2, <2>1 DEF Unproven, Dimension
  <2> QED
    BY <2>1, <2>2 DEF NormalDimension, Dimension
<1> QED
  BY <1>1, <1>2

LEMMA Normalized ==
  ASSUME NEW e \in Stored
  PROVE  /\ Normalize(e) \in Stored
         /\ Normalize(Normalize(e)) = Normalize(e)
         /\ Normalize(e).byRules = e.byRules
         /\ e.byRules =>
              /\ Normalize(e).total = Sum(Normalize(e).dimensions)
              /\ HasGrade(Normalize(e)) =>
                   \A i \in DOMAIN Normalize(e).dimensions :
                     ~Unproven(Normalize(e), Normalize(e).dimensions[i])
<1>1. CASE ~e.byRules
  BY <1>1 DEF Normalize
<1>2. CASE e.byRules
  <2> DEFINE ds == NormalDimensions(e)
             inc == ds = <<>> \/ \E i \in DOMAIN ds : ds[i].unscored
             f == [e EXCEPT !.dimensions = ds, !.total = Sum(ds), !.incomplete = inc]
  <2>n. PICK n \in 0..MaxDimensions : e.dimensions \in [1..n -> Dimension]
    BY RubricIs DEF Stored
  <2>1. DOMAIN e.dimensions = 1..n /\ DOMAIN ds = DOMAIN e.dimensions
    BY <2>n DEF NormalDimensions
  <2>2. \A i \in DOMAIN ds : ds[i] = NormalDimension(e, e.dimensions[i]) /\ e.dimensions[i] \in Dimension
    BY <2>n, <2>1 DEF NormalDimensions
  <2>3. ds \in Rubric /\ ds = [i \in DOMAIN ds |-> ds[i]]
    <3>1. ds \in [1..n -> Dimension]
      BY <2>1, <2>2, NormalDimensionOK DEF NormalDimensions
    <3> QED
      BY <3>1, RubricIs
  <2>s. Sum(ds) \in Nat
    BY <2>3, SumIsNat
  <2>4. Normalize(e) = f
    BY <1>2 DEF Normalize, NormalDimensions, TotalFromZero
  <2> HIDE DEF ds
  <2>i. inc \in BOOLEAN
    OBVIOUS
  <2> HIDE DEF inc
  <2>5. /\ f \in Stored /\ f.byRules = e.byRules /\ f.weighed = e.weighed
        /\ f.dimensions = ds /\ f.total = Sum(ds)
        /\ f.incomplete = inc
    BY <2>3, <2>s, <2>i DEF Stored
  <2> HIDE DEF f
  <2>6. \A d : /\ Unproven(f, d) <=> Unproven(e, d)
               /\ NormalDimension(f, d) = NormalDimension(e, d)
    BY <2>5 DEF Unproven, NormalDimension
  <2>7. NormalDimensions(f) = ds
    <3>1. \A i \in DOMAIN ds : NormalDimension(f, ds[i]) = ds[i]
      BY <2>2, <2>6, NormalDimensionOK
    <3> QED
      BY <2>3, <2>5, <3>1 DEF NormalDimensions
  <2>8. Normalize(f) = f
    <3>1. Normalize(f) = [f EXCEPT !.dimensions = ds, !.total = Sum(ds), !.incomplete = inc]
      BY <1>2, <2>5, <2>7 DEF Normalize, NormalDimensions, TotalFromZero, inc
    <3> QED
      BY <2>5, <3>1 DEF Stored
  <2>9. ASSUME HasGrade(f), NEW i \in DOMAIN ds PROVE ~Unproven(f, ds[i])
    BY <2>2, <2>5, <2>6, <2>9, NormalDimensionOK DEF HasGrade
  <2> QED
    BY <1>2, <2>4, <2>5, <2>8, <2>9
<1> QED
  BY <1>1, <1>2

ScoreInv ==
  /\ storedScore # NoEvaluation => storedScore \in Stored
  /\ viewed # NoEvaluation => \E e \in Stored : viewed = Normalize(e)

LEMMA EvaluationStored == Evaluation \subseteq Stored
  BY ScoreAssumption DEF Evaluation, Stored, Rubric

LEMMA ScoreStart == ScoreInit => ScoreInv
  BY DEF ScoreInit, ScoreInv

LEMMA ScoreStep == ScoreInv /\ [ScoreNext]_scoreVars => ScoreInv'
<1> SUFFICES ASSUME ScoreInv, [ScoreNext]_scoreVars PROVE ScoreInv'
  OBVIOUS
<1>1. ASSUME NEW e \in Evaluation, EvaluateByRules(e) PROVE ScoreInv'
  BY <1>1, EvaluationStored, Normalized DEF EvaluateByRules, ScoreInv
<1>2. ASSUME NEW e \in Evaluation, StoredBefore(e) PROVE ScoreInv'
  BY <1>2, EvaluationStored DEF StoredBefore, ScoreInv
<1>3. CASE ReadEvaluation
  BY <1>3 DEF ReadEvaluation, ScoreInv
<1>4. CASE AnotherEvaluation
  BY <1>4 DEF AnotherEvaluation, ScoreInv
<1>5. CASE UNCHANGED scoreVars
  BY <1>5 DEF scoreVars, ScoreInv
<1> QED
  BY <1>1, <1>2, <1>3, <1>4, <1>5 DEF ScoreNext

\* An evaluation stored by other rules has a total of its own; one that is read
\* has the total of its dimensions.
LEMMA ScoreTyped == ScoreInv => ScoreTypeOK
<1> SUFFICES ASSUME ScoreInv PROVE ScoreTypeOK
  OBVIOUS
<1>1. \A e \in {storedScore, viewed} \ {NoEvaluation} : e \in Stored
  BY Normalized DEF ScoreInv
<1>2. ASSUME NEW e \in Stored PROVE e.total \in Nat /\ [e EXCEPT !.total = 0] \in Evaluation
  BY ScoreAssumption DEF Stored, Evaluation, Rubric
<1> QED
  BY <1>1, <1>2 DEF ScoreTypeOK

\* A grade by rules is the sum of what tests have proven, also when it is read
\* once more.
THEOREM PlaceholdersNeverGrade == ScoreSpec => []PlaceholderNeverGrades
<1>1. ScoreInv => PlaceholderNeverGrades
  BY Normalized DEF ScoreInv, PlaceholderNeverGrades
<1> QED
  BY <1>1, ScoreStart, ScoreStep, PTL DEF ScoreSpec
=============================================================================
