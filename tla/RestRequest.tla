---------------------------- MODULE RestRequest ----------------------------
(***************************************************************************)
(* What the rate-limited REST transport promises its caller (spec 4.1):    *)
(* one call at a time; a call in simulate mode returns a stub at once;     *)
(* otherwise it ends with the server's final answer classified -- 200/201  *)
(* a body, 204 an empty result, any other status a failure -- or with an   *)
(* exception.  Rate limiting is invisible: 429 is never a final answer.    *)
(***************************************************************************)
EXTENDS Integers

CONSTANTS
  Final,      \* the statuses the server may finally answer (no 429)
  None        \* model value: no answer yet

VARIABLES aState, aAnswer, aResult

aVars == <<aState, aAnswer, aResult>>

Outcome(s) ==
  CASE s \in {200, 201} -> "body"
    [] s = 204          -> "empty"
    [] OTHER            -> "none"

AInit == aState = "idle" /\ aAnswer = None /\ aResult = None

Issue ==
  /\ aState = "idle"
  /\ \/ aState' = "done" /\ aResult' = "stub"
     \/ aState' = "pending" /\ aResult' = None
  /\ aAnswer' = None

Complete ==
  /\ aState = "pending"
  /\ \E s \in Final : aAnswer' = s /\ aResult' = Outcome(s)
  /\ aState' = "done"

Raise ==
  /\ aState = "pending"
  /\ aState' = "done" /\ aResult' = "raise"
  /\ UNCHANGED aAnswer

Return ==
  /\ aState = "done"
  /\ aState' = "idle"
  /\ UNCHANGED <<aAnswer, aResult>>

ANext == Issue \/ Complete \/ Raise \/ Return

\* The transport's safety: what a call may hand back, and in which order.
\* Nothing promises that a call ends: a server may rate-limit for ever and
\* a request may hang, so no fairness is part of the contract.
ASafety == AInit /\ [][ANext]_aVars

=============================================================================
