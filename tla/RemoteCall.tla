----------------------------- MODULE RemoteCall -----------------------------
(* What poll_command promises: the response to the verb that was sent, and  *)
(* one call at a time.                                                      *)
CONSTANTS Verbs, Answer(_), NONE

VARIABLES pending, response

Init == pending = NONE /\ response = NONE

Call == \E v \in Verbs : pending = NONE /\ pending' = v /\ response' = NONE

Return == pending # NONE /\ response' = Answer(pending) /\ pending' = NONE

Next == Call \/ Return

vars == <<pending, response>>

\* Every call returns.
Spec == Init /\ [][Next]_vars /\ WF_vars(Return)
=============================================================================
