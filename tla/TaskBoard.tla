----------------------------- MODULE TaskBoard -----------------------------
(***************************************************************************)
(* What a distributed scan promises, without workers, leases or messages:  *)
(* a board of tasks, each over some endpoints, and a result per endpoint.  *)
(* A task is ticked off only when its endpoints' results are in, a result  *)
(* is entered once and never changes, and the scan is complete exactly     *)
(* when the whole board is ticked off.                                     *)
(***************************************************************************)
CONSTANTS
    Endpoint,
    Task,
    Targets(_),   \* the endpoints of a task
    Expected,     \* [Endpoint -> result]: what each endpoint will yield
    None          \* no result; also what an endpoint that is silent yields

VARIABLES finished, found, complete

board == <<finished, found, complete>>

Init ==
    /\ finished = {}
    /\ found = [e \in Endpoint |-> None]
    /\ complete = FALSE

(* Results of some endpoints arrive, again or for the first time. *)
Report(S) ==
    /\ found' = [e \in Endpoint |-> IF e \in S THEN Expected[e] ELSE found[e]]
    /\ UNCHANGED <<finished, complete>>

Finish(t) ==
    /\ t \notin finished
    /\ \A e \in Targets(t) : found[e] = Expected[e]
    /\ finished' = finished \cup {t}
    /\ complete' = (finished' = Task)
    /\ UNCHANGED found

Next ==
    \/ \E S \in SUBSET Endpoint : Report(S)
    \/ \E t \in Task : Finish(t)

Spec == Init /\ [][Next]_board

=============================================================================
