------------------------- MODULE RateLimitedRequest -------------------------
(***************************************************************************)
(* DiscordClient._request of marketing/scripts/setup_discord.py, called    *)
(* by a sequential caller.  In dry-run it returns the stub at once.        *)
(* Otherwise it sends the request; a 429 answer is slept out for its       *)
(* retry_after (1.0 when absent) and the identical request is sent again,  *)
(* with no bound; 200/201 return the JSON body, 204 returns {}, any other  *)
(* status returns None.  requests may raise instead of answering.          *)
(***************************************************************************)
EXTENDS Integers

CONSTANTS
  Statuses,   \* the statuses the server may answer, 429 included
  None,       \* model value: None / no answer
  MaxCalls    \* bound: calls the caller makes

VARIABLES
  st,         \* "idle", "send" (request in flight), "done" (result held)
  status,     \* the status of the last response
  slept,      \* the retry_after slept since the last 429, or None
  result,     \* what _request returned
  calls       \* calls made so far

vars == <<st, status, slept, result, calls>>

RateLimited == 429

\* Mutant: 204 is read with resp.json() like 200, as a body.
OutcomeNo204(s) ==
  CASE s \in {200, 201, 204} -> "body"
    [] OTHER                 -> "none"

\* The value _request returns for a final status.
Outcome(s) ==
  CASE s \in {200, 201} -> "body"
    [] s = 204          -> "empty"
    [] OTHER            -> "none"

Init == st = "idle" /\ status = None /\ slept = None /\ result = None /\ calls = 0

\* A call of get/post/put/patch/delete; dry-run returns the stub.
Call ==
  /\ st = "idle" /\ calls < MaxCalls
  /\ calls' = calls + 1
  /\ \/ st' = "done" /\ result' = "stub"
     \/ st' = "send" /\ result' = None
  /\ status' = None /\ slept' = None

\* Mutant: the 429 branch is missing, a rate-limited call returns None.
RespondNoRetry ==
  /\ st = "send"
  /\ \E s \in Statuses :
       /\ status' = s
       /\ st' = "done" /\ result' = Outcome(s) /\ slept' = None
  /\ UNCHANGED calls

\* One response: a 429 is slept out (retry_after, 1.0 by default) and the
\* loop sends again; any other status ends the call.
Respond ==
  /\ st = "send"
  /\ \E s \in Statuses :
       /\ status' = s
       /\ IF s = RateLimited
          THEN /\ \E r \in {"retry_after", "default"} : slept' = r
               /\ UNCHANGED <<st, result>>
          ELSE st' = "done" /\ result' = Outcome(s) /\ slept' = None
  /\ UNCHANGED calls

\* session.request raises (connection error): the exception propagates.
Raise ==
  /\ st = "send"
  /\ st' = "done" /\ result' = "raise"
  /\ UNCHANGED <<status, slept, calls>>

\* The caller takes the result and may call again.
Return ==
  /\ st = "done"
  /\ st' = "idle"
  /\ UNCHANGED <<status, slept, result, calls>>

Next == Call \/ Respond \/ Raise \/ Return

\* No fairness: the 429 loop has no bound and session.request is given no
\* timeout, so nothing in the code makes a call end.
Spec == Init /\ [][Next]_vars

(***************************************************************************)
(* Properties                                                              *)
(***************************************************************************)
\* The abstract request: a pending call is one in flight; a 429 is not an
\* answer the caller can see.
AState == IF st = "send" THEN "pending" ELSE st

AAnswer == IF status = RateLimited THEN None ELSE status

A == INSTANCE RestRequest WITH Final <- Statuses \ {RateLimited},
       aState <- AState, aAnswer <- AAnswer, aResult <- result

\* spec 4.1 and 7 (rate-limit absorption): every step of _request is a step
\* of the abstract transport -- however many 429s come in a row, none is
\* handed to the caller, the call stays pending until a final answer or an
\* exception, and the final answer is classified as the contract says.
ImplementsRestRequest == A!ASafety

=============================================================================
