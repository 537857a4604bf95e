---------------------------- MODULE ModelAnswer ----------------------------
(***************************************************************************)
(* An answer of the model that passes its checks: completeValidated of     *)
(* server/internal/evaluator/deepseek.go.  Two attempts decode into the    *)
(* same target, and a decoding may set some of its fields and fail.        *)
(***************************************************************************)
EXTENDS Naturals, FiniteSets

CONSTANTS
  Fields,    \* of the target: its score, its evidence, ...
  Required   \* those validate() demands

ASSUME AnswerAssumption == Required \subseteq Fields

VARIABLES
  attempt,    \* 0 before the first
  target,     \* the attempt a field was decoded from, 0 if it is unset
  verdict,    \* of completeValidated: "none", "answered" or "failed"
  corrected   \* the messages hold the answer to an earlier attempt

answerVars == <<attempt, target, verdict, corrected>>

ModelAnswerTypeOK ==
  /\ attempt \in 0..2
  /\ target \in [Fields -> 0..2]
  /\ verdict \in {"none", "answered", "failed"}
  /\ corrected \in BOOLEAN

EmptyTarget == [f \in Fields |-> 0]
Asking == attempt < 2 /\ verdict = "none"

ModelAnswerInit ==
  /\ attempt = 0
  /\ target = EmptyTarget
  /\ verdict = "none"
  /\ corrected = FALSE

\* The caller asks again, with a target of its own.
AskAnew ==
  /\ verdict # "none"
  /\ attempt' = 0
  /\ target' = EmptyTarget
  /\ verdict' = "none"
  /\ corrected' = FALSE

\* resetJSONTarget, before an answer is decoded.
ResetNothing == target
ResetTarget == EmptyTarget

\* The loop ends with an error, or goes on with another attempt if this was the
\* first, may be repeated, and the caller is still there.
TryAgain(retry, content) ==
  \/ verdict' = "failed" /\ UNCHANGED corrected
  \/ /\ retry
     /\ attempt = 0
     /\ UNCHANGED verdict
     /\ corrected' = content

\* completeOnce gives no answer.  It may be repeated after a transport error, an
\* overloaded or failing service, an empty answer, or one that is truncated.
CallFails ==
  /\ Asking
  /\ attempt' = attempt + 1
  /\ \E retry, content \in BOOLEAN : (content => retry) /\ TryAgain(retry, content)
  /\ UNCHANGED target

\* An answer is decoded, wholly or until the decoder fails, and then validated.
Decode ==
  /\ Asking
  /\ attempt' = attempt + 1
  /\ \E fs \in SUBSET Fields :
       /\ target' = [f \in Fields |-> IF f \in fs THEN attempt + 1 ELSE ResetTarget[f]]
       /\ \/ /\ \A f \in Required : target'[f] # 0
             /\ verdict' = "answered"
             /\ UNCHANGED corrected
          \/ TryAgain(TRUE, TRUE)

ModelAnswerNext == AskAnew \/ CallFails \/ Decode

ModelAnswerSpec == ModelAnswerInit /\ [][ModelAnswerNext]_answerVars

-----------------------------------------------------------------------------
\* What is answered is one answer of the model: no field of an earlier one that
\* was rejected is left in it.
OneAnswer ==
  verdict = "answered" => \A f \in Fields : target[f] \in {0, attempt}
=============================================================================
