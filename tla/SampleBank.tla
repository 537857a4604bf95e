----------------------------- MODULE SampleBank -----------------------------
(***************************************************************************)
(* The banks of AI-written solutions an assignment's submissions are       *)
(* compared with (server/internal/evaluator/ai_samples.go on               *)
(* server/internal/store/ai_samples.go).                                   *)
(*                                                                         *)
(* Requests on several servers load the bank of a task and generate what   *)
(* is missing, one sample at a time, each saved at once.  Within a server  *)
(* one request per task does so and the others wait for it; between        *)
(* servers only the save's condition on the bank's length arbitrates.      *)
(***************************************************************************)
EXTENDS Naturals, Sequences, Functions

CONSTANTS
  Servers,
  Requests,     \* calls of loadOrGenerateAISamples, each made once
  Tasks,        \* fingerprints: the assignment as it stands when a request reads it
  ServerOf,     \* the server that runs a request
  TaskOf,       \* the task a request works for
  Samples,      \* what the model may answer, up to normalizedAIQuote
  Expected,     \* AISampleExpectedCount
  None

ASSUME BankAssumption ==
  /\ ServerOf \in [Requests -> Servers]
  /\ TaskOf \in [Requests -> Tasks]
  /\ Expected \in Nat \ {0}
  /\ None \notin Requests \cup Samples

VARIABLES
  bank,    \* ai_sample_banks: the samples saved for each task
  flight,  \* aiSampleFlights of each server: the request that holds a task, or None
  pc,      \* where a request stands
  held,    \* bank.Samples as it last read them
  draft,   \* the sample it has generated
  await    \* the request whose done channel it waits on

vars == <<bank, flight, pc, held, draft, await>>
local == <<held, draft, await>>

Working  == {"reading", "generating", "saving", "checking"}
Finished == {"complete", "failed", "missing", "lost"}

\* The banks and the requests' variables hold what their types allow; no bank
\* exceeds Expected, which ReadAISampleBank would refuse at every later read.
BankTypeOK ==
  /\ bank \in [Tasks -> Seq(Samples)]
  /\ \A k \in Tasks : Len(bank[k]) <= Expected
  /\ flight \in [Servers -> [Tasks -> Requests \cup {None}]]
  /\ pc \in [Requests -> {"new", "arriving", "waiting"} \cup Working \cup Finished]
  /\ held \in [Requests -> Seq(Samples)]
  /\ draft \in [Requests -> Samples \cup {None}]
  /\ await \in [Requests -> Requests \cup {None}]

Init ==
  /\ bank = [k \in Tasks |-> <<>>]
  /\ flight = [sv \in Servers |-> [k \in Tasks |-> None]]
  /\ pc = [r \in Requests |-> "new"]
  /\ held = [r \in Requests |-> <<>>]
  /\ draft = [r \in Requests |-> None]
  /\ await = [r \in Requests |-> None]

-----------------------------------------------------------------------------
Goto(r, label) == pc' = [pc EXCEPT ![r] = label]

\* The deferred function removes the flight and closes done, whatever the result.
KeepFlight(r) == UNCHANGED flight
Release(r) == flight' = [flight EXCEPT ![ServerOf[r]][TaskOf[r]] = None]

\* The request returns, from inside its flight.
Return(r, result) ==
  /\ Goto(r, result)
  /\ Release(r)
  /\ UNCHANGED <<bank, draft, await>>

FullOneLate(samples) == Len(samples) > Expected
Full(samples) == Len(samples) >= Expected

Start(r) ==
  /\ pc[r] = "new"
  /\ Goto(r, "arriving")
  /\ UNCHANGED <<bank, flight, local>>

\* Under aiSampleMu: take the flight ...
FreeUnlocked(r) == TRUE
Free(r) == flight[ServerOf[r]][TaskOf[r]] = None

TakeFlight(r) ==
  /\ pc[r] = "arriving"
  /\ Free(r)
  /\ flight' = [flight EXCEPT ![ServerOf[r]][TaskOf[r]] = r]
  /\ Goto(r, "reading")
  /\ UNCHANGED <<bank, local>>

\* ... or wait for the request that has it.
JoinFlight(r) ==
  /\ pc[r] = "arriving"
  /\ ~Free(r)
  /\ await' = [await EXCEPT ![r] = flight[ServerOf[r]][TaskOf[r]]]
  /\ Goto(r, "waiting")
  /\ UNCHANGED <<bank, flight, held, draft>>

\* <-done: the request starts over and loads what is there by now.
Landed(r) ==
  /\ pc[r] = "waiting"
  /\ flight[ServerOf[r]][TaskOf[r]] # await[r]
  /\ await' = [await EXCEPT ![r] = None]
  /\ Goto(r, "arriving")
  /\ UNCHANGED <<bank, flight, held, draft>>

\* ReadAISampleBank before the loop.
Read(r) ==
  /\ pc[r] = "reading"
  /\ held' = [held EXCEPT ![r] = bank[TaskOf[r]]]
  /\ IF Full(bank[TaskOf[r]])
     THEN Return(r, "complete")
     ELSE Goto(r, "generating") /\ UNCHANGED <<bank, flight, draft, await>>

\* generateAISample: an answer equal to one of the samples it was given is
\* asked for again and then an error.
FreshAny(r) == Samples
Fresh(r) == {x \in Samples : \A i \in 1..Len(held[r]) : held[r][i] # x}

Generate(r) ==
  /\ pc[r] = "generating"
  /\ \E x \in Fresh(r) : draft' = [draft EXCEPT ![r] = x]
  /\ Goto(r, "saving")
  /\ UNCHANGED <<bank, flight, held, await>>

\* SaveAISampleBank: INSERT ... ON DUPLICATE KEY UPDATE
\* IF(JSON_LENGTH(bank_json) < len(samples), new, old).
Offered(r) == Append(held[r], draft[r])
ReplacesAny(r) == TRUE
ReplacesEqual(r) == Len(bank[TaskOf[r]]) <= Len(Offered(r))
Replaces(r) == Len(bank[TaskOf[r]]) < Len(Offered(r))

Store(r) ==
  bank' = IF Replaces(r) THEN [bank EXCEPT ![TaskOf[r]] = Offered(r)] ELSE bank

Save(r) ==
  /\ pc[r] = "saving"
  /\ Store(r)
  /\ Goto(r, "checking")
  /\ UNCHANGED <<flight, local>>

\* The read after the save, "the persisted winner".
Missing(r) == Len(bank[TaskOf[r]]) < Len(Offered(r))

Check(r) ==
  /\ pc[r] = "checking"
  /\ held' = [held EXCEPT ![r] = bank[TaskOf[r]]]
  /\ IF Missing(r) THEN Return(r, "missing")
     ELSE IF Full(bank[TaskOf[r]]) THEN Return(r, "complete")
     ELSE Goto(r, "generating") /\ UNCHANGED <<bank, flight, draft, await>>

\* A storage, model or network error, or the caller gone (ctx.Done), at any
\* point of the flight; a save may have been stored all the same.
Abort(r) ==
  /\ pc[r] \in Working
  /\ Goto(r, "failed")
  /\ Release(r)
  /\ UNCHANGED bank \/ (pc[r] = "saving" /\ Store(r))
  /\ UNCHANGED local

\* A waiting request is cancelled by its caller.
Leave(r) ==
  /\ pc[r] = "waiting"
  /\ Goto(r, "failed")
  /\ UNCHANGED <<bank, flight, local>>

\* A server dies with its flights and its requests; a restarted one has none.
Crash(sv) ==
  /\ \E r \in Requests : ServerOf[r] = sv /\ pc[r] \in Working
  /\ pc' = [r \in Requests |->
              IF ServerOf[r] = sv /\ pc[r] \in {"arriving", "waiting"} \cup Working
              THEN "lost" ELSE pc[r]]
  /\ flight' = [flight EXCEPT ![sv] = [k \in Tasks |-> None]]
  /\ UNCHANGED <<bank, local>>

Step(r) ==
  \/ TakeFlight(r) \/ JoinFlight(r) \/ Landed(r)
  \/ Read(r) \/ Generate(r) \/ Save(r) \/ Check(r)

Next ==
  \/ \E r \in Requests : Start(r) \/ Step(r) \/ Abort(r) \/ Leave(r)
  \/ \E sv \in Servers : Crash(sv)

Spec == Init /\ [][Next]_vars

(***************************************************************************)
(* A goroutine goes on, and completeValidated comes back: with a sample or *)
(* an error (Abort), which is never owed.                                  *)
(***************************************************************************)
FairSpec == Spec /\ \A r \in Requests : WF_vars(Step(r) \/ Abort(r))

-----------------------------------------------------------------------------
(* Properties *)

\* What the bank promises, in the terms of AppendOnlyBank: a sample that was
\* readable once stays at its place for good, so that the reports of all
\* servers cite the same one, and a bank never grows beyond Expected.
Bank == INSTANCE AppendOnlyBank
ImplementsBank == Bank!Spec

\* A request that succeeds, on whichever server, returns the one bank all
\* others return, complete.
AnswersAgree ==
  \A r \in Requests :
    pc[r] = "complete" => held[r] = bank[TaskOf[r]] /\ Len(held[r]) = Expected

\* The samples of a bank are different implementations, although requests of
\* several servers generate them at the same time without seeing each other's.
SamplesDiffer == \A k \in Tasks : IsInjective(bank[k])

\* Single-flight generation within a server: of the requests for one task only
\* the flight's holder reads, generates and saves, whatever fails or crashes.
SingleFlight ==
  \A r, q \in Requests :
    pc[r] \in Working /\ pc[q] \in Working /\ ServerOf[r] = ServerOf[q] /\ TaskOf[r] = TaskOf[q]
      => r = q

\* "saved sample is missing" never happens: the bank read after a save is at
\* least as long as what was offered.
NeverMissing == \A r \in Requests : pc[r] # "missing"

\* Every request is answered in the end: the waiting ones are neither
\* forgotten by a flight that fails nor passed over for ever by others.
EveryRequestAnswered == \A r \in Requests : pc[r] = "arriving" ~> pc[r] \in Finished

-----------------------------------------------------------------------------
(* Inductive strengthening, for the proofs *)

\* What a request remembers of a bank is how that bank once was: shorter, or
\* equal up to where it stops.
HeldPrefix ==
  \A r \in Requests :
    /\ Len(held[r]) <= Len(bank[TaskOf[r]])
    /\ \A i \in 1..Len(held[r]) : held[r][i] = bank[TaskOf[r]][i]
    /\ pc[r] \in {"generating", "saving"} => ~Full(held[r])

\* The sample it is about to save is not one it has read.
DraftFresh == \A r \in Requests : pc[r] = "saving" => draft[r] \in Fresh(r)

\* What was offered, or a bank as long, is there to be read.
Stored == \A r \in Requests : pc[r] = "checking" => ~Missing(r)

\* A request that works holds its flight.
HoldsFlight == \A r \in Requests : pc[r] \in Working => flight[ServerOf[r]][TaskOf[r]] = r

BankInv ==
  BankTypeOK /\ HeldPrefix /\ DraftFresh /\ Stored /\ HoldsFlight /\ SamplesDiffer
    /\ NeverMissing /\ AnswersAgree
=============================================================================
