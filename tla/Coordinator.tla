---------------------------- MODULE Coordinator ----------------------------
(***************************************************************************)
(* A distributed scan (distributed.rs): the coordinator's SQLite store,    *)
(* whose every request is one transaction, the worker processes with their *)
(* renewer threads, and the connections between them.  A worker has one    *)
(* request in flight; when it dies the request may still be handled, at    *)
(* any later time.  One scan is modelled.                                  *)
(***************************************************************************)
EXTENDS Integers, FiniteSets

CONSTANTS
    Worker,            \* worker_ids; a restarted worker may keep its id
    N,                 \* target_count
    TaskSize,          \* task_size
    Attempts,          \* syn_attempts
    perm,              \* round -> Permutation of that round's seed
    simulated_result,  \* endpoint -> what simulated_result returns for it
    Transient,         \* workers started with exit_when_idle
    None,              \* NULL, Option::None
    MaxFaults,         \* bound: deaths of workers and failed tasks
    MaxStalls          \* bound: leases that run out under a live worker

Endpoint == 0 .. N - 1
Round == 0 .. Attempts - 1
TargetState == {"no_response", "unreachable", "closed", "open"}
Result == [state : TargetState, banner : {"none", "ok"}, conflicts : Nat]
Observation == {o \in Result : o.conflicts = 0}

ASSUME ScanAssumption ==
    /\ N \in Nat \ {0} /\ TaskSize \in Nat \ {0} /\ Attempts \in Nat \ {0}
    /\ perm \in [Round -> [Endpoint -> Endpoint]]
    /\ \A r \in Round, e \in Endpoint : \E o \in Endpoint : perm[r][o] = e
    /\ simulated_result \in [Endpoint -> Observation]

ASSUME WorkerAssumption ==
    /\ Transient \subseteq Worker
    /\ None \notin Worker
    /\ MaxFaults \in Nat /\ MaxStalls \in Nat

(* create_scan cuts each round into ranges of task_size positions. A task  *)
(* is named by its round and order_start, whose order is that of the ids.  *)
Start == {s \in Endpoint : \E k \in Endpoint : s = k * TaskSize}
Task == Round \X Start

Positions(t) == {o \in Endpoint : t[2] <= o /\ o < t[2] + TaskSize}

Targets(t) == {perm[t[1]][o] : o \in Positions(t)}

Before(t, u) == t[1] < u[1] \/ (t[1] = u[1] /\ t[2] < u[2])

ASSUME NoneAssumption == None \notin Task /\ None \notin Result

VARIABLES
    \* the store
    scan,      \* scans.status, or "absent"
    status, owner,   \* of tasks
    expired,   \* lease_expires_at_ms is past
    results,   \* a row per endpoint, or None
    workers,   \* whether the worker has a row, and its current_task_id
    \* the worker processes
    wpc,       \* where run_worker is; the name of a call while it is in flight
    lease,     \* the TaskLease it works on
    late,      \* requests whose sender is gone
    faults, stalls

taskVars == <<scan, status, owner, expired>>
store == <<taskVars, results, workers>>
procs == <<wpc, lease>>
vars == <<store, procs, late, faults, stalls>>

-----------------------------------------------------------------------------
(* Transactions of the store *)

create_scan ==
    /\ scan' = "active"
    /\ status' = [t \in Task |-> "pending"]
    /\ UNCHANGED <<owner, expired, results, workers>>

register_worker(w) ==
    /\ workers' = [workers EXCEPT ![w].known = TRUE]
    /\ UNCHANGED <<taskVars, results>>

(* mutant: a running task is never leased again *)
LeasablePendingOnly == {t \in Task : scan = "active" /\ status[t] = "pending"}

(* mutant: leases do not protect a running task *)
LeasableAny ==
    {t \in Task : scan = "active" /\ status[t] \in {"pending", "running"}}

Leasable ==
    {t \in Task :
        /\ scan = "active"
        /\ status[t] = "pending" \/ (status[t] = "running" /\ expired[t])}

(* ORDER BY round, task_id LIMIT 1 *)
First(t) == t \in Leasable /\ \A u \in Leasable \ {t} : Before(t, u)

(* lease_task when it finds a task, and when it finds none *)
lease_task(w, t) ==
    /\ First(t)
    /\ status' = [status EXCEPT ![t] = "running"]
    /\ owner' = [owner EXCEPT ![t] = w]
    /\ expired' = [expired EXCEPT ![t] = FALSE]
    /\ workers' = [workers EXCEPT ![w].current = t]
    /\ UNCHANGED <<scan, results>>

lease_none(w) ==
    /\ Leasable = {}
    /\ workers' = [workers EXCEPT ![w].current = None]
    /\ UNCHANGED <<taskVars, results>>

terminal_endpoint_indexes(t) ==
    {e \in Targets(t) : results[e] # None /\ results[e].state # "no_response"}

(* The lease is prolonged even when it has run out, unless taken over. *)
renew_task(w, t) ==
    /\ IF owner[t] = w /\ status[t] = "running"
       THEN expired' = [expired EXCEPT ![t] = FALSE]
       ELSE UNCHANGED expired
    /\ UNCHANGED <<scan, status, owner, results, workers>>

rank(s) == CASE s = "no_response" -> 0
             [] s = "unreachable" -> 1
             [] s = "closed"      -> 2
             [] s = "open"        -> 3

merge_result(current, incoming) ==
    LET better == \/ rank(incoming.state) > rank(current.state)
                  \/ /\ incoming.state = current.state
                     /\ incoming.banner = "ok" /\ current.banner # "ok"
        chosen == IF better THEN incoming ELSE current
        conflict == \/ current.state # incoming.state
                    \/ current.banner # incoming.banner
    IN  IF conflict THEN [chosen EXCEPT !.conflicts = @ + 1] ELSE chosen

reduce_result(current, incoming) ==
    IF current = None THEN incoming ELSE merge_result(current, incoming)

(* submit_observations: whoever sends them, lease or not *)
submit_observations(S) ==
    /\ results' =
         [e \in Endpoint |->
            IF e \in S /\ simulated_result[e].state # "no_response"
            THEN reduce_result(results[e], simulated_result[e])
            ELSE results[e]]
    /\ UNCHANGED <<taskVars, workers>>

(* complete_task of the task's owner, mark_scan_completed_if_done included *)
complete_task(w, t) ==
    /\ status' = [status EXCEPT ![t] = "done"]
    /\ owner' = [owner EXCEPT ![t] = None]
    /\ expired' = [expired EXCEPT ![t] = FALSE]
    /\ scan' = IF \A u \in Task : status'[u] = "done" THEN "completed" ELSE scan
    /\ workers' = [workers EXCEPT ![w].current = None]
    /\ UNCHANGED results

(* fail_task of the task's owner: back to pending, however often it failed *)
fail_task(w, t) ==
    /\ status' = [status EXCEPT ![t] = "pending"]
    /\ owner' = [owner EXCEPT ![t] = None]
    /\ expired' = [expired EXCEPT ![t] = FALSE]
    /\ UNCHANGED <<scan, results, workers>>

-----------------------------------------------------------------------------
CreateScan ==
    /\ scan = "absent"
    /\ create_scan
    /\ UNCHANGED <<procs, late, faults, stalls>>

(* A lease passes its expiry time: freely when no process works on the     *)
(* task, a bounded number of times under a stalled but live worker.        *)
Held(t) ==
    \E w \in Worker : owner[t] = w /\ lease[w] # None /\ lease[w].task = t

Expire(t) ==
    /\ status[t] = "running" /\ ~expired[t]
    /\ IF Held(t)
       THEN stalls < MaxStalls /\ stalls' = stalls + 1
       ELSE UNCHANGED stalls
    /\ expired' = [expired EXCEPT ![t] = TRUE]
    /\ UNCHANGED <<scan, status, owner, results, workers, procs, late, faults>>

-----------------------------------------------------------------------------
(* run_worker *)

Goto(w, l) == wpc' = [wpc EXCEPT ![w] = l]
Rest == UNCHANGED <<late, faults, stalls>>

WorkerStart(w) ==
    /\ wpc[w] = "down"
    /\ Goto(w, "hello")
    /\ UNCHANGED <<store, lease>> /\ Rest

Hello(w) ==
    /\ wpc[w] = "hello"
    /\ register_worker(w)
    /\ Goto(w, "lease")
    /\ UNCHANGED lease /\ Rest

Lease(w) ==
    /\ wpc[w] = "lease"
    /\ \E t \in Task :
          /\ lease_task(w, t)
          /\ lease' = [lease EXCEPT ![w] =
                [task |-> t, terminal |-> terminal_endpoint_indexes(t)]]
    /\ Goto(w, "run")
    /\ Rest

(* exit_when_idle ends the process, otherwise it asks again. *)
LeaseIdle(w) ==
    /\ wpc[w] = "lease"
    /\ lease_none(w)
    /\ Goto(w, IF w \in Transient THEN "down" ELSE "lease")
    /\ UNCHANGED lease /\ Rest

(* The renewer thread, every ten seconds while run_task runs; it ignores   *)
(* the answer.                                                             *)
Renew(w) ==
    /\ wpc[w] = "run"
    /\ renew_task(w, lease[w].task)
    /\ UNCHANGED procs /\ Rest

(* mutant: the task is completed before its observations are submitted *)
RunTaskCompleteFirst(w) ==
    /\ wpc[w] = "run"
    /\ Goto(w, "complete")
    /\ UNCHANGED <<store, lease>> /\ Rest

(* run_task returns observations: of its endpoints, those the lease did    *)
(* not list as terminal.                                                   *)
RunTask(w) ==
    /\ wpc[w] = "run"
    /\ Goto(w, "submit")
    /\ UNCHANGED <<store, lease>> /\ Rest

RunTaskFails(w) ==
    /\ wpc[w] = "run" /\ faults < MaxFaults
    /\ Goto(w, "fail")
    /\ faults' = faults + 1
    /\ UNCHANGED <<store, lease, late, stalls>>

observations(l) == Targets(l.task) \ l.terminal

Submit(w) ==
    /\ wpc[w] = "submit"
    /\ submit_observations(observations(lease[w]))
    /\ Goto(w, "complete")
    /\ UNCHANGED lease /\ Rest

(* A request refused because the lease is lost closes the connection, and  *)
(* the worker's `?` ends the process.                                      *)
Refused(w) ==
    /\ Goto(w, "down")
    /\ UNCHANGED store

Complete(w) ==
    /\ wpc[w] = "complete"
    /\ lease' = [lease EXCEPT ![w] = None]
    /\ IF owner[lease[w].task] = w
       THEN complete_task(w, lease[w].task) /\ Goto(w, "lease")
       ELSE Refused(w)
    /\ Rest

Fail(w) ==
    /\ wpc[w] = "fail"
    /\ lease' = [lease EXCEPT ![w] = None]
    /\ IF owner[lease[w].task] = w
       THEN fail_task(w, lease[w].task) /\ Goto(w, "lease")
       ELSE Refused(w)
    /\ Rest

(* The request in flight when a worker dies; a running task's renewer may  *)
(* have one too.                                                           *)
Request(w) ==
    [kind   |-> IF wpc[w] = "run" THEN "renew" ELSE wpc[w],
     worker |-> w,
     lease  |-> lease[w]]

(* The process is killed, or a connection or a transaction fails and `?`   *)
(* ends it: the request is lost, or handled after its sender is gone.      *)
WorkerDies(w) ==
    /\ wpc[w] # "down" /\ faults < MaxFaults
    /\ faults' = faults + 1
    /\ Goto(w, "down")
    /\ lease' = [lease EXCEPT ![w] = None]
    /\ late' \in {late, late \cup {Request(w)}}
    /\ UNCHANGED <<store, stalls>>

(* What the coordinator does with such a request *)
Handle(m) ==
    \/ m.kind = "hello" /\ register_worker(m.worker)
    \/ /\ m.kind = "lease"
       /\ \/ \E t \in Task : lease_task(m.worker, t)
          \/ lease_none(m.worker)
    \/ m.kind = "renew" /\ renew_task(m.worker, m.lease.task)
    \/ m.kind = "submit" /\ submit_observations(observations(m.lease))
    \/ /\ m.kind = "complete"
       /\ IF owner[m.lease.task] = m.worker
          THEN complete_task(m.worker, m.lease.task)
          ELSE UNCHANGED store
    \/ /\ m.kind = "fail"
       /\ IF owner[m.lease.task] = m.worker
          THEN fail_task(m.worker, m.lease.task)
          ELSE UNCHANGED store

LateRequest(m) ==
    /\ Handle(m)
    /\ late' = late \ {m}
    /\ UNCHANGED <<procs, faults, stalls>>

-----------------------------------------------------------------------------
Init ==
    /\ scan = "absent"
    /\ status = [t \in Task |-> "absent"]
    /\ owner = [t \in Task |-> None]
    /\ expired = [t \in Task |-> FALSE]
    /\ results = [e \in Endpoint |-> None]
    /\ workers = [w \in Worker |-> [known |-> FALSE, current |-> None]]
    /\ wpc = [w \in Worker |-> "down"]
    /\ lease = [w \in Worker |-> None]
    /\ late = {}
    /\ faults = 0 /\ stalls = 0

WorkerStep(w) ==
    \/ Hello(w) \/ Lease(w) \/ LeaseIdle(w) \/ RunTask(w) \/ Submit(w)
    \/ Complete(w) \/ Fail(w)

Next ==
    \/ CreateScan
    \/ \E t \in Task : Expire(t)
    \/ \E w \in Worker :
          \/ WorkerStart(w) \/ WorkerStep(w) \/ Renew(w)
          \/ RunTaskFails(w) \/ WorkerDies(w)
    \/ \E m \in late : LateRequest(m)

Spec == Init /\ [][Next]_vars

(* Live processes run, leases nobody renews run out, and somebody starts a *)
(* worker when none is left.                                               *)
StartOne ==
    /\ \A w \in Worker : wpc[w] = "down"
    /\ \E w \in Worker : WorkerStart(w)

ExpireUnheld(t) == ~Held(t) /\ Expire(t)

Fairness ==
    /\ \A w \in Worker : WF_vars(WorkerStep(w))
    /\ \A t \in Task : WF_vars(ExpireUnheld(t))
    /\ WF_vars(StartOne)

FairSpec == Spec /\ Fairness

-----------------------------------------------------------------------------
(* Properties *)

(* What the results table holds for an endpoint in the end *)
Expected ==
    [e \in Endpoint |->
        IF simulated_result[e].state = "no_response" THEN None
        ELSE simulated_result[e]]

TaskLease == [task : Task, terminal : SUBSET Endpoint]
Kind == {"hello", "lease", "renew", "submit", "complete", "fail"}

StoreType ==
    /\ scan \in {"absent", "active", "completed"}
    /\ status \in [Task -> {"absent", "pending", "running", "done"}]
    /\ owner \in [Task -> Worker \cup {None}]
    /\ expired \in [Task -> BOOLEAN]
    /\ results \in [Endpoint -> Result \cup {None}]
    /\ workers \in [Worker -> [known : BOOLEAN, current : Task \cup {None}]]

ProcessType ==
    /\ wpc \in [Worker -> {"down", "hello", "lease", "run", "submit",
                           "complete", "fail"}]
    /\ lease \in [Worker -> TaskLease \cup {None}]
    /\ late \subseteq [kind : Kind, worker : Worker,
                       lease : TaskLease \cup {None}]
    /\ faults \in 0 .. MaxFaults
    /\ stalls \in 0 .. MaxStalls

(* Every variable has its type; no task is ever in TaskStatus::Failed. *)
TypeOK == StoreType /\ ProcessType

Resolved(t) == \A e \in Targets(t) : results[e] = Expected[e]

(* A task is done only when every endpoint of it that answers has its      *)
(* result in the table, and a completed scan has exactly the expected      *)
(* result for every endpoint, however often tasks were leased again,       *)
(* workers died and requests were handled late.                            *)
DoneResolved ==
    /\ \A t \in Task : status[t] = "done" => Resolved(t)
    /\ scan = "completed" => \A e \in Endpoint : results[e] = Expected[e]

(* No request, late ones included, reopens a done task or a completed      *)
(* scan, and a result is never changed by a repeated observation.          *)
DoneIsFinal ==
    [][/\ \A t \in Task : status[t] = "done" => status'[t] = "done"
       /\ scan = "completed" => scan' = "completed"
       /\ \A e \in Endpoint : results[e] # None => results'[e] = results[e]]_vars

(* While a lease has not run out, only requests of its owner move the task *)
(* on; everybody else's are refused.                                       *)
LeaseRespected ==
    [][\A t \in Task :
         status[t] = "running" /\ ~expired[t] /\ owner'[t] # owner[t] =>
            \/ wpc'[owner[t]] # wpc[owner[t]]
            \/ \E m \in late \ late' : m.worker = owner[t]]_vars

(* A scan is completed in the end: a task whose worker died, whose request *)
(* was lost or whose lease ran out is leased again.                        *)
ScanCompletes == (scan = "active") ~> (scan = "completed")

(* The scan implements the task board. *)
Board == INSTANCE TaskBoard
    WITH finished <- {t \in Task : status[t] = "done"},
         found <- results,
         complete <- (scan = "completed")

BoardSpec == Board!Spec

=============================================================================
