------------------------------ MODULE AsyncCalls ------------------------------
(***************************************************************************)
(* What an AsyncThriftClient promises to its user, abstractly: calls are   *)
(* made one after the other, and each calls back once, with its outcome,   *)
(* before the next one is made.  A call that cannot even be sent is over   *)
(* at once, with an error.                                                 *)
(***************************************************************************)
EXTENDS Naturals

VARIABLES
  oneway,   \* the calls that are not answered
  started,  \* how many calls were made
  current,  \* the one in progress, 0 if there is none
  result    \* of each call, "none" before it has called back

callVars == <<oneway, started, current, result>>

Results(k) == {"error"} \union IF k \in oneway THEN {"sent"} ELSE {"reply", "exception"}

Init ==
  /\ started = 0 /\ current = 0
  /\ \A k \in DOMAIN result : result[k] = "none"

Begin ==
  /\ current = 0 /\ started + 1 \in DOMAIN result
  /\ started' = started + 1
  /\ current' = started'
  /\ UNCHANGED <<oneway, result>>

BeginFails ==
  /\ current = 0 /\ started + 1 \in DOMAIN result
  /\ started' = started + 1
  /\ result' = [result EXCEPT ![started'] = "error"]
  /\ UNCHANGED <<oneway, current>>

CallBack ==
  /\ current # 0 /\ result[current] = "none"
  /\ \E r \in Results(current) : result' = [result EXCEPT ![current] = r]
  /\ current' = 0
  /\ UNCHANGED <<oneway, started>>

Next == Begin \/ BeginFails \/ CallBack

Spec == Init /\ [][Next]_callVars
=============================================================================
