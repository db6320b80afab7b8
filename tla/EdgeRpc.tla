------------------------------- MODULE EdgeRpc -------------------------------
(***************************************************************************)
(* What the response correlator promises its callers: a request / response *)
(* service.  A call is made under an id that is never used twice, waits,   *)
(* and returns exactly once, with the record of the method that was        *)
(* called, with the error the server sent, or with a failure (a check on   *)
(* the response that failed, the connection that closed).  Several calls   *)
(* may return in one step: a teardown fails all that wait.                 *)
(***************************************************************************)
EXTENDS Naturals, TLC

CONSTANTS
    IDs,        \* the request ids
    Methods,    \* the methods that can be called
    Expected    \* method -> the kind of record its caller expects

VARIABLES
    waiting,    \* id -> method of the calls that wait for their answer
    returned    \* id -> [method, kind] of the calls that returned

vars == <<waiting, returned>>

Outcomes(method) == {Expected[method], "Error", "Failure"}

Init ==
    /\ waiting = <<>>
    /\ returned = <<>>

Invoke(id, method) ==
    /\ id \notin DOMAIN waiting \cup DOMAIN returned
    /\ waiting' = (id :> method) @@ waiting
    /\ UNCHANGED returned

\* the calls of a non-empty set return, each with an outcome of its method
Return(ids) ==
    /\ ids # {}
    /\ waiting' = [id \in DOMAIN waiting \ ids |-> waiting[id]]
    /\ DOMAIN returned' = DOMAIN returned \cup ids
    /\ \A id \in DOMAIN returned : returned'[id] = returned[id]
    /\ \A id \in ids :
          /\ returned'[id].method = waiting[id]
          /\ returned'[id].kind \in Outcomes(waiting[id])

Next ==
    \/ \E id \in IDs, method \in Methods : Invoke(id, method)
    \/ \E ids \in SUBSET DOMAIN waiting : Return(ids)

Spec == Init /\ [][Next]_vars

EveryCallReturns ==
    \A id \in IDs : (id \in DOMAIN waiting) ~> (id \in DOMAIN returned)

=============================================================================
