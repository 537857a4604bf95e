------------------------- MODULE SampleBank_proofs --------------------------
(***************************************************************************)
(* Theorems about SampleBank for any number of servers, requests and       *)
(* tasks.  The argument: a request remembers a bank as it once was         *)
(* (HeldPrefix), so an offer that is longer than the bank was made from    *)
(* the whole of it and extends it by one sample it has compared with all   *)
(* others; any other save changes nothing.                                 *)
(***************************************************************************)
EXTENDS SampleBank, TLAPS

LEMMA BankInitial == Init => BankInv
  BY BankAssumption DEF Init, BankInv, BankTypeOK, HeldPrefix, DraftFresh, Stored,
     HoldsFlight, SamplesDiffer, NeverMissing, AnswersAgree, Full, Missing, IsInjective,
     Working

\* Bank k is what it was, or longer by one.
Grows(k) ==
  /\ bank'[k] \in Seq(Samples) /\ Len(bank'[k]) <= Expected
  /\ Len(bank[k]) <= Len(bank'[k])
  /\ \A i \in 1..Len(bank[k]) : bank'[k][i] = bank[k][i]
  /\ IsInjective(bank'[k])

\* A save extends the bank by the request's draft or leaves it alone.
LEMMA StoreExtends ==
  ASSUME BankInv, NEW r \in Requests, pc[r] = "saving", Store(r)
  PROVE  /\ bank' = bank \/ (/\ Len(bank[TaskOf[r]]) < Expected
                             /\ draft[r] \in Samples
                             /\ bank' = [bank EXCEPT ![TaskOf[r]] = Append(@, draft[r])])
         /\ Len(held[r]) + 1 <= Len(bank'[TaskOf[r]])
<1> DEFINE k == TaskOf[r]
<1>1. k \in Tasks /\ bank[k] \in Seq(Samples) /\ held[r] \in Seq(Samples)
  BY BankAssumption DEF BankInv, BankTypeOK
<1>2. draft[r] \in Samples /\ draft[r] \in Fresh(r)
  BY DEF BankInv, DraftFresh, Fresh
<1>3. Len(held[r]) < Expected /\ Len(held[r]) <= Len(bank[k]) /\ Len(held[r]) \in Nat
  BY <1>1, BankAssumption DEF BankInv, HeldPrefix, Full
<1>4. Offered(r) \in Seq(Samples) /\ Len(Offered(r)) = Len(held[r]) + 1
  BY <1>1, <1>2 DEF Offered
<1>5. CASE Replaces(r)
  <2>1. Len(bank[k]) = Len(held[r])
    BY <1>1, <1>3, <1>4, <1>5 DEF Replaces
  <2>2. bank[k] = held[r]
    BY <1>1, <2>1 DEF BankInv, HeldPrefix
  <2> QED
    BY <1>1, <1>2, <1>3, <1>4, <1>5, <2>1, <2>2 DEF Store, Offered, BankInv, BankTypeOK
<1>6. CASE ~Replaces(r)
  BY <1>1, <1>3, <1>4, <1>6 DEF Store, Replaces
<1> QED
  BY <1>5, <1>6

LEMMA StoreGrows ==
  ASSUME BankInv, NEW r \in Requests, pc[r] = "saving", Store(r)
  PROVE  bank' \in [Tasks -> Seq(Samples)] /\ \A k \in Tasks : Grows(k)
<1>1. bank \in [Tasks -> Seq(Samples)] /\ TaskOf[r] \in Tasks /\ held[r] \in Seq(Samples)
  BY BankAssumption DEF BankInv, BankTypeOK
<1>2. CASE bank' = bank
  BY <1>1, <1>2 DEF Grows, BankInv, BankTypeOK, SamplesDiffer
<1>3. CASE bank' # bank
  <2> DEFINE k == TaskOf[r]
  <2>1. /\ Len(bank[k]) < Expected /\ draft[r] \in Samples
        /\ bank' = [bank EXCEPT ![k] = Append(@, draft[r])]
    BY <1>3, StoreExtends
  <2>2. draft[r] \in Fresh(r)
    BY DEF BankInv, DraftFresh
  <2>3. Len(bank[k]) = Len(held[r])
    BY <1>1, <1>3, <2>1 DEF Store, Replaces, Offered, BankInv, HeldPrefix
  <2>4. \A i \in 1..Len(bank[k]) : bank[k][i] # draft[r]
    BY <2>2, <2>3 DEF Fresh, BankInv, HeldPrefix
  <2>5. IsInjective(Append(bank[k], draft[r]))
    <3>1. IsInjective(bank[k])
      BY <1>1 DEF BankInv, SamplesDiffer
    <3> QED
      BY <1>1, <2>1, <2>4, <3>1 DEF IsInjective
  <2>6. Grows(k)
    BY <1>1, <2>1, <2>5, BankAssumption DEF Grows
  <2>7. \A j \in Tasks \ {k} : Grows(j)
    BY <1>1, <2>1 DEF Grows, BankInv, BankTypeOK, SamplesDiffer
  <2> QED
    BY <1>1, <2>1, <2>6, <2>7
<1> QED
  BY <1>2, <1>3

\* Whatever a step does to the banks, what was remembered stays a prefix and a
\* complete bank stays as it is.
LEMMA GrowthKept ==
  ASSUME BankInv, bank' \in [Tasks -> Seq(Samples)], \A k \in Tasks : Grows(k),
         NEW r \in Requests
  PROVE  /\ Len(held[r]) <= Len(bank'[TaskOf[r]])
         /\ \A i \in 1..Len(held[r]) : held[r][i] = bank'[TaskOf[r]][i]
         /\ pc[r] = "checking" => Len(held[r]) + 1 <= Len(bank'[TaskOf[r]])
         /\ pc[r] = "complete" => held[r] = bank'[TaskOf[r]]
<1> DEFINE k == TaskOf[r]
<1>1. k \in Tasks /\ bank[k] \in Seq(Samples) /\ held[r] \in Seq(Samples)
  BY BankAssumption DEF BankInv, BankTypeOK
<1>2. Grows(k) /\ bank'[k] \in Seq(Samples)
  BY <1>1
<1>3. Len(held[r]) <= Len(bank[k]) /\ \A i \in 1..Len(held[r]) : held[r][i] = bank[k][i]
  BY DEF BankInv, HeldPrefix
<1>4. Len(held[r]) <= Len(bank'[k]) /\ \A i \in 1..Len(held[r]) : held[r][i] = bank'[k][i]
  BY <1>1, <1>2, <1>3 DEF Grows
<1>5. ASSUME pc[r] = "checking" PROVE Len(held[r]) + 1 <= Len(bank'[k])
  <2>1. Len(Offered(r)) = Len(held[r]) + 1
    BY <1>1 DEF Offered
  <2> QED
    BY <1>1, <1>2, <1>5, <2>1 DEF BankInv, Stored, Missing, Grows
<1>6. ASSUME pc[r] = "complete" PROVE held[r] = bank'[k]
  <2>1. Len(held[r]) = Expected
    BY <1>6 DEF BankInv, AnswersAgree
  <2>2. Len(bank'[k]) = Len(held[r])
    BY <1>1, <1>2, <1>4, <2>1, BankAssumption DEF Grows
  <2> QED
    BY <1>1, <1>2, <1>4, <2>2
<1> QED
  BY <1>4, <1>5, <1>6

\* The invariant of the control state alone: who holds which flight.
FlightInv == BankTypeOK /\ HoldsFlight

LEMMA FlightStep ==
  ASSUME FlightInv, Next, bank' \in [Tasks -> Seq(Samples)],
         \A k \in Tasks : Len(bank'[k]) <= Expected
  PROVE  FlightInv'
<1> USE BankAssumption DEF FlightInv, BankTypeOK, HoldsFlight, Working, Finished
<1>1. ASSUME NEW r \in Requests, Start(r) PROVE FlightInv'
  BY <1>1 DEF Start, Goto, local
<1>2. ASSUME NEW r \in Requests, TakeFlight(r) PROVE FlightInv'
  BY <1>2 DEF TakeFlight, Free, Goto, local
<1>3. ASSUME NEW r \in Requests, JoinFlight(r) \/ Landed(r) \/ Leave(r) PROVE FlightInv'
  <2>1. CASE JoinFlight(r)
    BY <2>1 DEF JoinFlight, Goto
  <2>2. CASE Landed(r)
    BY <2>2 DEF Landed, Goto
  <2>3. CASE Leave(r)
    BY <2>3 DEF Leave, Goto, local
  <2> QED
    BY <1>3, <2>1, <2>2, <2>3
<1>4. ASSUME NEW r \in Requests, Read(r) \/ Check(r) PROVE FlightInv'
  <2>1. held' \in [Requests -> Seq(Samples)] /\ draft' = draft /\ await' = await
    <3>1. bank[TaskOf[r]] \in Seq(Samples)
      OBVIOUS
    <3>2. held' = [held EXCEPT ![r] = bank[TaskOf[r]]]
      BY <1>4 DEF Read, Check
    <3>3. draft' = draft /\ await' = await
      BY <1>4 DEF Read, Check, Return
    <3> QED
      BY <3>1, <3>2, <3>3
  <2>2. pc[r] \in Working
    BY <1>4 DEF Read, Check
  <2>3. \/ \E l \in Finished : Goto(r, l) /\ Release(r)
        \/ Goto(r, "generating") /\ flight' = flight
    BY <1>4 DEF Read, Check, Return
  <2>4. CASE Goto(r, "generating") /\ flight' = flight
    BY <2>1, <2>2, <2>4 DEF Goto
  <2>5. ASSUME NEW l \in Finished, Goto(r, l) /\ Release(r) PROVE FlightInv'
    BY <2>1, <2>2, <2>5 DEF Goto, Release
  <2> QED
    BY <2>3, <2>4, <2>5
<1>5. ASSUME NEW r \in Requests, Generate(r) \/ Save(r) PROVE FlightInv'
  <2>1. CASE Generate(r)
    BY <2>1 DEF Generate, Fresh, Goto
  <2>2. CASE Save(r)
    BY <2>2 DEF Save, Goto, local
  <2> QED
    BY <1>5, <2>1, <2>2
<1>6. ASSUME NEW r \in Requests, Abort(r) PROVE FlightInv'
  BY <1>6 DEF Abort, Release, Goto, local
<1>7. ASSUME NEW sv \in Servers, Crash(sv) PROVE FlightInv'
  BY <1>7 DEF Crash, local
<1> QED
  BY <1>1, <1>2, <1>3, <1>4, <1>5, <1>6, <1>7 DEF Next, Step

\* Banks only grow, at every step.
LEMMA BanksGrow ==
  ASSUME BankInv, Next
  PROVE  bank' \in [Tasks -> Seq(Samples)] /\ \A k \in Tasks : Grows(k)
<1>1. CASE UNCHANGED bank
  BY <1>1 DEF Grows, BankInv, BankTypeOK, SamplesDiffer
<1>2. ASSUME NEW r \in Requests, Save(r) \/ Abort(r), bank' # bank
      PROVE  bank' \in [Tasks -> Seq(Samples)] /\ \A k \in Tasks : Grows(k)
  BY <1>2, StoreGrows DEF Save, Abort
<1> QED
  BY <1>1, <1>2 DEF Next, Step, Start, TakeFlight, JoinFlight, Landed, Read, Generate,
     Check, Return, Leave, Crash

\* What a request remembers and offers stays true of the banks.
LEMMA DataStep ==
  ASSUME BankInv, Next, FlightInv'
  PROVE  HeldPrefix' /\ DraftFresh' /\ Stored' /\ NeverMissing' /\ AnswersAgree'
<1> DEFINE Good(q) ==
      /\ Len(held[q]) <= Len(bank[TaskOf[q]])
      /\ \A i \in 1..Len(held[q]) : held[q][i] = bank[TaskOf[q]][i]
      /\ pc[q] \in {"generating", "saving"} => ~Full(held[q])
      /\ pc[q] = "saving" => draft[q] \in Fresh(q)
      /\ pc[q] = "checking" => ~Missing(q)
      /\ pc[q] # "missing"
      /\ pc[q] = "complete" => held[q] = bank[TaskOf[q]] /\ Len(held[q]) = Expected
<1>1. \A q \in Requests : Good(q)
  BY DEF BankInv, HeldPrefix, DraftFresh, Stored, NeverMissing, AnswersAgree
<1>2. bank' \in [Tasks -> Seq(Samples)] /\ \A k \in Tasks : Grows(k)
  BY BanksGrow
<1>3. BankTypeOK /\ BankTypeOK'
  BY DEF BankInv, FlightInv
<1>4. ASSUME NEW q \in Requests, held'[q] = held[q], draft'[q] = draft[q],
             pc'[q] = pc[q] \/ pc'[q] \in {"arriving", "waiting", "reading", "failed", "lost"}
      PROVE  Good(q)'
  <2>1. /\ Len(held[q]) <= Len(bank'[TaskOf[q]])
        /\ \A i \in 1..Len(held[q]) : held[q][i] = bank'[TaskOf[q]][i]
        /\ pc[q] = "checking" => Len(held[q]) + 1 <= Len(bank'[TaskOf[q]])
        /\ pc[q] = "complete" => held[q] = bank'[TaskOf[q]]
    BY <1>2, GrowthKept
  <2>2. pc[q] = "checking" => Len(Append(held[q], draft[q])) = Len(held[q]) + 1
    BY <1>3 DEF BankTypeOK
  <2>3. ~(Len(bank'[TaskOf[q]]) < Len(held[q]) + 1) \/ pc[q] # "checking"
    BY <1>2, <1>3, <2>1, BankAssumption DEF BankTypeOK
  <2> QED
    BY <1>1, <1>4, <2>1, <2>2, <2>3 DEF Full, Fresh, Missing, Offered
<1>5. ASSUME NEW r \in Requests, NEW q \in Requests,
             Start(r) \/ TakeFlight(r) \/ JoinFlight(r) \/ Landed(r) \/ Abort(r) \/ Leave(r)
      PROVE  Good(q)'
  BY <1>3, <1>4, <1>5 DEF BankTypeOK, Start, TakeFlight, JoinFlight, Landed, Abort, Leave,
     Goto, local
<1>6. ASSUME NEW r \in Requests, NEW q \in Requests, Read(r) \/ Check(r)
      PROVE  Good(q)'
  <2>1. CASE q # r
    BY <1>3, <1>4, <1>6, <2>1 DEF BankTypeOK, Read, Check, Return, Goto
  <2>2. CASE q = r
    <3>1. held'[r] = bank[TaskOf[r]] /\ bank' = bank
      BY <1>3, <1>6 DEF BankTypeOK, Read, Check, Return
    <3>2. pc[r] = "checking" => ~Missing(r)
      BY <1>1
    <3>3. /\ pc'[r] \in {"complete", "generating"}
          /\ (pc'[r] = "complete") <=> Full(bank[TaskOf[r]])
      BY <1>3, <1>6, <3>2 DEF BankTypeOK, Read, Check, Return, Goto
    <3>4. bank[TaskOf[r]] \in Seq(Samples) /\ Len(bank[TaskOf[r]]) <= Expected
      BY <1>3, BankAssumption DEF BankTypeOK
    <3> QED
      BY <2>2, <3>1, <3>3, <3>4, BankAssumption DEF Full
  <2> QED
    BY <2>1, <2>2
<1>7. ASSUME NEW r \in Requests, NEW q \in Requests, Generate(r)
      PROVE  Good(q)'
  <2>1. CASE q # r
    BY <1>3, <1>4, <1>7, <2>1 DEF BankTypeOK, Generate, Goto
  <2>2. CASE q = r
    BY <1>1, <1>3, <1>7, <2>2 DEF BankTypeOK, Generate, Goto, Fresh, Full
  <2> QED
    BY <2>1, <2>2
<1>8. ASSUME NEW r \in Requests, NEW q \in Requests, Save(r)
      PROVE  Good(q)'
  <2>1. CASE q # r
    BY <1>3, <1>4, <1>8, <2>1 DEF BankTypeOK, Save, Goto, local
  <2>2. CASE q = r
    <3>1. pc'[r] = "checking" /\ held' = held /\ draft' = draft
      BY <1>3, <1>8 DEF BankTypeOK, Save, Goto, local
    <3>2. Len(held[r]) + 1 <= Len(bank'[TaskOf[r]])
      BY <1>8, StoreExtends DEF Save
    <3>3. Len(Append(held[r], draft[r])) = Len(held[r]) + 1
      BY <1>3 DEF BankTypeOK
    <3>4. ~(Len(bank'[TaskOf[r]]) < Len(held[r]) + 1)
      BY <1>2, <1>3, <3>2, BankAssumption DEF BankTypeOK
    <3>5. /\ Len(held[r]) <= Len(bank'[TaskOf[r]])
          /\ \A i \in 1..Len(held[r]) : held[r][i] = bank'[TaskOf[r]][i]
      BY <1>2, GrowthKept
    <3> QED
      BY <2>2, <3>1, <3>3, <3>4, <3>5 DEF Missing, Offered
  <2> QED
    BY <2>1, <2>2
<1>9. ASSUME NEW sv \in Servers, NEW q \in Requests, Crash(sv)
      PROVE  Good(q)'
  BY <1>3, <1>4, <1>9 DEF BankTypeOK, Crash, local
<1>10. \A q \in Requests : Good(q)'
  BY <1>5, <1>6, <1>7, <1>8, <1>9 DEF Next, Step
<1> QED
  BY <1>10 DEF HeldPrefix, DraftFresh, Stored, NeverMissing, AnswersAgree

LEMMA BankStep == BankInv /\ [Next]_vars => BankInv'
<1> SUFFICES ASSUME BankInv, [Next]_vars PROVE BankInv'
  OBVIOUS
<1>1. CASE Next
  <2>1. bank' \in [Tasks -> Seq(Samples)] /\ \A k \in Tasks : Grows(k)
    BY <1>1, BanksGrow
  <2>2. FlightInv'
    BY <1>1, <2>1, FlightStep DEF BankInv, FlightInv, Grows
  <2>3. SamplesDiffer'
    BY <2>1 DEF SamplesDiffer, Grows
  <2> QED
    BY <1>1, <2>2, <2>3, DataStep DEF BankInv, FlightInv
<1>2. CASE UNCHANGED vars
  BY <1>2 DEF vars, BankInv, BankTypeOK, HeldPrefix, DraftFresh, Stored, HoldsFlight,
     SamplesDiffer, NeverMissing, AnswersAgree, Full, Fresh, Missing, Offered
<1> QED
  BY <1>1, <1>2

LEMMA BankInvariant == Spec => []BankInv
  BY BankInitial, BankStep, PTL DEF Spec

-----------------------------------------------------------------------------
\* Every variable keeps its type, and no bank outgrows what a read accepts.
THEOREM BankTypesCorrect == Spec => []BankTypeOK
  BY BankInvariant, PTL DEF BankInv

\* All complete answers, of all servers and for good, are the same bank.
THEOREM OneBankForAll == Spec => []AnswersAgree
  BY BankInvariant, PTL DEF BankInv

\* Samples of one bank differ although servers generate them independently.
THEOREM NoDuplicateSamples == Spec => []SamplesDiffer
  BY BankInvariant, PTL DEF BankInv

\* A server works once for a task at any time.
THEOREM FlightIsSole == Spec => []SingleFlight
<1>1. BankInv => SingleFlight
  BY DEF BankInv, HoldsFlight, SingleFlight
<1> QED
  BY <1>1, BankInvariant, PTL

\* The read after a save always finds at least what was offered.
THEOREM SavedIsThere == Spec => []NeverMissing
  BY BankInvariant, PTL DEF BankInv

\* Requests on any number of servers implement the append-only bank.
THEOREM BankImplementation == Spec => ImplementsBank
<1>1. Init => Bank!Init
  BY DEF Init, Bank!Init
<1>2. BankInv /\ [Next]_vars => [Bank!Next]_bank
  <2> SUFFICES ASSUME BankInv, Next, bank' # bank PROVE Bank!Next
    BY DEF vars
  <2>1. PICK r \in Requests : pc[r] = "saving" /\ Store(r)
    BY DEF Next, Step, Start, TakeFlight, JoinFlight, Landed, Read, Generate, Save, Check,
       Return, Abort, Leave, Crash
  <2>2. TaskOf[r] \in Tasks
    BY BankAssumption
  <2> QED
    BY <2>1, <2>2, StoreExtends DEF Bank!Next, Bank!Extend
<1> QED
  BY <1>1, <1>2, BankInvariant, PTL DEF Spec, ImplementsBank, Bank!Spec
=============================================================================
