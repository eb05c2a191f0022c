------------------------- MODULE CoordinatorProofs -------------------------
(* Theorems about Coordinator, for every set of workers, every number of   *)
(* endpoints and rounds and every task size.                               *)
EXTENDS Coordinator, TLAPS

(* The endpoints that answer and have their result, or never answer.       *)
Known(e) == results[e] = Expected[e]

(* A lease held by a process, or by a request that outlived its process:   *)
(* what it lists as terminal is known.                                     *)
LeaseOK(l) == l \in TaskLease /\ \A e \in l.terminal : Known(e)

(* The task of a lease about to be completed has had its observations      *)
(* submitted.                                                              *)
WorkOK ==
    \A w \in Worker :
        /\ wpc[w] \in {"run", "submit", "complete", "fail"} => LeaseOK(lease[w])
        /\ wpc[w] = "complete" => Resolved(lease[w].task)

LateOK ==
    \A m \in late :
        /\ m.kind \in {"renew", "submit", "complete", "fail"} => LeaseOK(m.lease)
        /\ m.kind = "complete" => Resolved(m.lease.task)

(* Only a running task has an owner. *)
OwnerOK == \A t \in Task : owner[t] # None <=> status[t] = "running"

(* The table holds nothing but what the simulation yields. *)
ResultsOK == \A e \in Endpoint : results[e] = None \/ Known(e)

BoardOK ==
    /\ \A t \in Task : status[t] = "done" => Resolved(t)
    /\ scan = "completed" => \A t \in Task : status[t] = "done"
    /\ scan = "absent" => \A t \in Task : status[t] = "absent"

(* The store's half of the invariant, and the processes' half *)
StoreInv == StoreType /\ OwnerOK /\ ResultsOK /\ BoardOK
ProcessInv == ProcessType /\ WorkOK /\ LateOK

IInv == StoreInv /\ ProcessInv

-----------------------------------------------------------------------------
(* The tasks of a round cover the endpoints (create_scan): the position of *)
(* an endpoint lies in the range that starts at a multiple of task_size.   *)
LEMMA TasksCover == \A e \in Endpoint : \E t \in Task : e \in Targets(t)
<1>. SUFFICES ASSUME NEW e \in Endpoint
              PROVE  \E t \in Task : e \in Targets(t)
  OBVIOUS
<1>1. 0 \in Round
  BY ScanAssumption DEF Round
<1>2. PICK o \in Endpoint : perm[0][o] = e
  BY <1>1, ScanAssumption
<1>. DEFINE k == o \div TaskSize
            s == k * TaskSize
<1>3. o \in Nat /\ TaskSize \in Nat /\ TaskSize > 0 /\ o < N /\ N \in Nat
  BY ScanAssumption DEF Endpoint
<1>4. /\ k \in Nat /\ s \in Nat
      /\ s <= o /\ o < s + TaskSize
      /\ k <= o
  BY <1>3, Z3
<1>5. k \in Endpoint /\ s \in Endpoint
  BY <1>3, <1>4 DEF Endpoint
<1>6. <<0, s>> \in Task
  BY <1>1, <1>5 DEF Task, Start
<1>7. e \in Targets(<<0, s>>)
  BY <1>2, <1>4 DEF Targets, Positions
<1>. QED
  BY <1>6, <1>7

LEMMA TargetsType == \A t \in Task : Targets(t) \subseteq Endpoint
  BY ScanAssumption DEF Targets, Positions, Task

(* An observation merged with itself is no conflict and changes nothing.   *)
LEMMA MergeSame ==
    ASSUME NEW o \in Result
    PROVE  merge_result(o, o) = o
<1>1. ~(rank(o.state) > rank(o.state))
  <2>1. rank(o.state) \in 0 .. 3
    BY DEF Result, TargetState, rank
  <2>. QED
    BY <2>1
<1>. QED
  BY <1>1 DEF merge_result

LEMMA ExpectedType ==
    \A e \in Endpoint :
        /\ Expected[e] \in Result \cup {None}
        /\ simulated_result[e] \in Result
        /\ simulated_result[e].conflicts = 0
        /\ IF simulated_result[e].state = "no_response"
           THEN Expected[e] = None
           ELSE Expected[e] = simulated_result[e]
  BY ScanAssumption DEF Expected, Observation

(* A submission enters exactly the expected results of its endpoints.      *)
LEMMA SubmitReports ==
    ASSUME ResultsOK, NEW S, submit_observations(S)
    PROVE  results' =
             [e \in Endpoint |-> IF e \in S THEN Expected[e] ELSE results[e]]
<1>. SUFFICES ASSUME NEW e \in Endpoint
              PROVE  results'[e] = IF e \in S THEN Expected[e] ELSE results[e]
  BY DEF submit_observations
<1>1. results'[e] = IF e \in S /\ simulated_result[e].state # "no_response"
                    THEN reduce_result(results[e], simulated_result[e])
                    ELSE results[e]
  BY DEF submit_observations
<1>2. results[e] = None \/ results[e] = Expected[e]
  BY DEF ResultsOK, Known
<1>3. CASE simulated_result[e].state = "no_response"
  BY <1>1, <1>2, <1>3, ExpectedType
<1>4. CASE simulated_result[e].state # "no_response"
  BY <1>1, <1>2, <1>4, ExpectedType, MergeSame DEF reduce_result
<1>. QED
  BY <1>3, <1>4

(* A known result stays known.                                             *)
KnownKept == \A e \in Endpoint : Known(e) => Known(e)'

LEMMA ResolvedStays ==
    ASSUME KnownKept, NEW t \in Task, Resolved(t)
    PROVE  Resolved(t)'
  BY TargetsType DEF KnownKept, Known, Resolved

-----------------------------------------------------------------------------
(* Every transaction keeps the store's half and what is known.             *)

LEMMA CreateStore ==
    ASSUME StoreInv, scan = "absent", create_scan
    PROVE  StoreInv' /\ KnownKept
<1>. USE DEF StoreInv, create_scan
<1>1. StoreType'
  BY DEF StoreType
<1>2. OwnerOK'
  BY DEF OwnerOK, BoardOK
<1>3. ResultsOK' /\ KnownKept
  BY DEF ResultsOK, KnownKept, Known
<1>4. BoardOK'
  BY DEF BoardOK
<1>. QED
  BY <1>1, <1>2, <1>3, <1>4

LEMMA RegisterStore ==
    ASSUME StoreInv, NEW w \in Worker, register_worker(w) \/ lease_none(w)
    PROVE  StoreInv' /\ KnownKept
<1>. USE DEF StoreInv, register_worker, lease_none, taskVars
<1>1. StoreType'
  BY DEF StoreType
<1>2. OwnerOK' /\ ResultsOK' /\ KnownKept
  BY DEF OwnerOK, ResultsOK, KnownKept, Known
<1>3. BoardOK'
  BY DEF BoardOK, Resolved
<1>. QED
  BY <1>1, <1>2, <1>3

(* A leasable task is not done. *)
LEMMA LeaseStore ==
    ASSUME StoreInv, NEW w \in Worker, NEW t \in Task, lease_task(w, t)
    PROVE  StoreInv' /\ KnownKept
<1>. USE DEF StoreInv, lease_task
<1>1. scan = "active" /\ status[t] \in {"pending", "running"}
  BY DEF First, Leasable
<1>2. StoreType'
  BY DEF StoreType
<1>3. OwnerOK'
  BY WorkerAssumption DEF OwnerOK, StoreType
<1>4. ResultsOK' /\ KnownKept
  BY DEF ResultsOK, KnownKept, Known
<1>5. BoardOK'
  BY <1>1 DEF BoardOK, StoreType, Resolved
<1>. QED
  BY <1>2, <1>3, <1>4, <1>5

LEMMA RenewStore ==
    ASSUME StoreInv, NEW w \in Worker, NEW t \in Task, renew_task(w, t)
    PROVE  StoreInv' /\ KnownKept
<1>. USE DEF StoreInv, renew_task
<1>1. StoreType'
  BY DEF StoreType
<1>2. OwnerOK' /\ ResultsOK' /\ KnownKept
  BY DEF OwnerOK, ResultsOK, KnownKept, Known
<1>3. BoardOK'
  BY DEF BoardOK, Resolved
<1>. QED
  BY <1>1, <1>2, <1>3

LEMMA SubmitStore ==
    ASSUME StoreInv, NEW S, submit_observations(S)
    PROVE  StoreInv' /\ KnownKept /\ \A e \in Endpoint \cap S : Known(e)'
<1>1. results' =
        [e \in Endpoint |-> IF e \in S THEN Expected[e] ELSE results[e]]
  BY SubmitReports DEF StoreInv
<1>2. KnownKept /\ \A e \in Endpoint \cap S : Known(e)'
  BY <1>1 DEF KnownKept, Known
<1>3. StoreType'
  BY <1>1, ExpectedType DEF StoreInv, StoreType, submit_observations, taskVars
<1>4. OwnerOK' /\ ResultsOK'
  BY <1>1, <1>2
  DEF StoreInv, OwnerOK, ResultsOK, Known, submit_observations, taskVars
<1>5. BoardOK'
  BY <1>2, ResolvedStays DEF StoreInv, BoardOK, submit_observations, taskVars
<1>. QED
  BY <1>2, <1>3, <1>4, <1>5 DEF StoreInv

LEMMA CompleteStore ==
    ASSUME StoreInv, NEW w \in Worker, NEW t \in Task,
           owner[t] = w, Resolved(t), complete_task(w, t)
    PROVE  StoreInv' /\ KnownKept
<1>. USE DEF StoreInv, complete_task
<1>0. status[t] = "running"
  BY WorkerAssumption DEF OwnerOK
<1>1. StoreType'
  BY DEF StoreType
<1>2. OwnerOK'
  BY DEF OwnerOK, StoreType
<1>3. ResultsOK' /\ KnownKept
  BY DEF ResultsOK, KnownKept, Known
<1>4. scan # "absent"
  BY <1>0 DEF BoardOK
<1>5. BoardOK'
  <2>1. \A u \in Task : status'[u] = "done" => Resolved(u)'
    BY DEF BoardOK, StoreType, Resolved
  <2>2. scan' = "completed" => \A u \in Task : status'[u] = "done"
    BY <1>0 DEF BoardOK
  <2>. QED
    BY <1>4, <2>1, <2>2 DEF BoardOK
<1>. QED
  BY <1>1, <1>2, <1>3, <1>5

LEMMA FailStore ==
    ASSUME StoreInv, NEW w \in Worker, NEW t \in Task,
           owner[t] = w, fail_task(w, t)
    PROVE  StoreInv' /\ KnownKept
<1>. USE DEF StoreInv, fail_task
<1>0. status[t] = "running"
  BY WorkerAssumption DEF OwnerOK
<1>1. StoreType'
  BY DEF StoreType
<1>2. OwnerOK'
  BY DEF OwnerOK, StoreType
<1>3. ResultsOK' /\ KnownKept
  BY DEF ResultsOK, KnownKept, Known
<1>4. BoardOK'
  BY <1>0 DEF BoardOK, StoreType, Resolved
<1>. QED
  BY <1>1, <1>2, <1>3, <1>4

LEMMA SameStore ==
    ASSUME StoreInv, UNCHANGED store
    PROVE  StoreInv' /\ KnownKept
<1>. USE DEF store, taskVars, StoreInv
<1>1. StoreType'
  BY DEF StoreType
<1>2. OwnerOK' /\ ResultsOK' /\ KnownKept
  BY DEF OwnerOK, ResultsOK, KnownKept, Known
<1>3. BoardOK'
  BY DEF BoardOK, Resolved
<1>. QED
  BY <1>1, <1>2, <1>3

-----------------------------------------------------------------------------
(* The processes' half *)

LEMMA LeaseStays ==
    ASSUME KnownKept, NEW l, LeaseOK(l)
    PROVE  LeaseOK(l)'
  BY DEF KnownKept, LeaseOK, TaskLease

(* What a worker may hold at a place of its loop *)
HoldsAt(pc, l) ==
    /\ pc \in {"run", "submit", "complete", "fail"} => LeaseOK(l)
    /\ pc = "complete" => Resolved(l.task)

LEMMA HoldsStays ==
    ASSUME KnownKept, NEW pc, NEW l, HoldsAt(pc, l)
    PROVE  HoldsAt(pc, l)'
  BY LeaseStays, ResolvedStays DEF HoldsAt, LeaseOK, TaskLease

(* Requests outlive their senders unharmed. *)
LEMMA LateStays ==
    ASSUME KnownKept, LateOK, late' \subseteq late
    PROVE  LateOK'
  BY LeaseStays, ResolvedStays DEF LateOK, LeaseOK, TaskLease

LateRequests ==
    [kind : Kind, worker : Worker, lease : TaskLease \cup {None}]

(* A step of one worker: it moves to a place where it may hold what it     *)
(* then holds; the others and the orphaned requests only see results come. *)
LEMMA WorkerMoves ==
    ASSUME ProcessInv, KnownKept, NEW w \in Worker,
           NEW l \in {"down", "hello", "lease", "run", "submit", "complete",
                      "fail"},
           NEW h \in TaskLease \cup {None},
           wpc' = [wpc EXCEPT ![w] = l],
           lease' = [lease EXCEPT ![w] = h],
           HoldsAt(l, h)', LateOK', late' \subseteq LateRequests,
           faults' \in 0 .. MaxFaults, stalls' \in 0 .. MaxStalls
    PROVE  ProcessInv'
<1>. USE DEF ProcessInv
<1>1. ProcessType'
  BY DEF ProcessType, LateRequests
<1>2. ASSUME NEW v \in Worker, NEW k, NEW g, k = wpc'[v], g = lease'[v]
      PROVE  HoldsAt(k, g)'
  <2>1. CASE v = w
    <3>1. k = l /\ g = h
      BY <1>2, <2>1 DEF ProcessType
    <3>. QED
      BY <3>1
  <2>2. CASE v # w
    <3>1. k = wpc[v] /\ g = lease[v]
      BY <1>2, <2>2 DEF ProcessType
    <3>2. HoldsAt(k, g)
      BY <3>1 DEF WorkOK, HoldsAt
    <3>. QED
      BY <3>2, HoldsStays
  <2>. QED
    BY <2>1, <2>2
<1>3. WorkOK'
  BY <1>2 DEF WorkOK, HoldsAt
<1>. QED
  BY <1>1, <1>3

(* A step of the coordinator or of time: no process moves.                 *)
LEMMA NobodyMoves ==
    ASSUME ProcessInv, KnownKept, UNCHANGED procs, late' \subseteq late,
           faults' \in 0 .. MaxFaults, stalls' \in 0 .. MaxStalls
    PROVE  ProcessInv'
<1>. USE DEF ProcessInv, procs
<1>1. ProcessType'
  BY DEF ProcessType
<1>2. LateOK'
  BY LateStays
<1>3. ASSUME NEW v \in Worker, NEW k, NEW g, k = wpc[v], g = lease[v]
      PROVE  HoldsAt(k, g)'
  <2>1. HoldsAt(k, g)
    BY <1>3 DEF WorkOK, HoldsAt
  <2>. QED
    BY <2>1, HoldsStays
<1>4. WorkOK'
  BY <1>3 DEF WorkOK, HoldsAt
<1>. QED
  BY <1>1, <1>2, <1>4

-----------------------------------------------------------------------------
(* What any step does to the store: nothing, or one transaction, with the  *)
(* precondition its sender established.                                    *)

ExpireLease(t) ==
    /\ expired' = [expired EXCEPT ![t] = TRUE]
    /\ UNCHANGED <<scan, status, owner, results, workers>>

StoreStep ==
    \/ UNCHANGED store
    \/ scan = "absent" /\ create_scan
    \/ \E t \in Task : ExpireLease(t)
    \/ \E w \in Worker : register_worker(w) \/ lease_none(w)
    \/ \E w \in Worker, t \in Task : lease_task(w, t)
    \/ \E w \in Worker, t \in Task : renew_task(w, t)
    \/ \E S \in SUBSET Endpoint : submit_observations(S)
    \/ \E w \in Worker, t \in Task :
          owner[t] = w /\ Resolved(t) /\ complete_task(w, t)
    \/ \E w \in Worker, t \in Task : owner[t] = w /\ fail_task(w, t)

LEMMA ObservationsType ==
    ASSUME NEW l \in TaskLease
    PROVE  observations(l) \in SUBSET Endpoint
  BY TargetsType DEF observations, TaskLease

LEMMA WorkerStoreStep ==
    ASSUME IInv, NEW w \in Worker,
           \/ WorkerStart(w) \/ WorkerStep(w) \/ Renew(w)
           \/ RunTaskFails(w) \/ WorkerDies(w)
    PROVE  StoreStep
<1>. USE DEF IInv, ProcessInv, WorkOK, LeaseOK, StoreStep
<1>1. CASE WorkerStart(w) \/ RunTask(w) \/ RunTaskFails(w) \/ WorkerDies(w)
  BY <1>1 DEF WorkerStart, RunTask, RunTaskFails, WorkerDies
<1>2. CASE Hello(w) \/ LeaseIdle(w)
  BY <1>2 DEF Hello, LeaseIdle
<1>3. CASE Lease(w)
  BY <1>3 DEF Lease
<1>4. CASE Renew(w)
  BY <1>4 DEF Renew, TaskLease
<1>5. CASE Submit(w)
  BY <1>5, ObservationsType DEF Submit
<1>6. CASE Complete(w)
  BY <1>6 DEF Complete, Refused, TaskLease
<1>7. CASE Fail(w)
  BY <1>7 DEF Fail, Refused, TaskLease
<1>. QED
  BY <1>1, <1>2, <1>3, <1>4, <1>5, <1>6, <1>7 DEF WorkerStep

LEMMA LateStoreStep ==
    ASSUME IInv, NEW m \in late, LateRequest(m)
    PROVE  StoreStep
<1>. USE DEF IInv, ProcessInv, LateOK, LeaseOK, StoreStep
<1>1. m.worker \in Worker
  BY DEF ProcessType
<1>2. CASE m.kind = "hello" /\ register_worker(m.worker)
  BY <1>1, <1>2
<1>3. CASE m.kind = "lease" /\ \/ \E t \in Task : lease_task(m.worker, t)
                               \/ lease_none(m.worker)
  BY <1>1, <1>3
<1>4. CASE m.kind = "renew" /\ renew_task(m.worker, m.lease.task)
  BY <1>1, <1>4 DEF TaskLease
<1>5. CASE m.kind = "submit" /\ submit_observations(observations(m.lease))
  BY <1>5, ObservationsType
<1>6. CASE /\ m.kind = "complete"
           /\ IF owner[m.lease.task] = m.worker
              THEN complete_task(m.worker, m.lease.task)
              ELSE UNCHANGED store
  BY <1>1, <1>6 DEF TaskLease
<1>7. CASE /\ m.kind = "fail"
           /\ IF owner[m.lease.task] = m.worker
              THEN fail_task(m.worker, m.lease.task)
              ELSE UNCHANGED store
  BY <1>1, <1>7 DEF TaskLease
<1>. QED
  BY <1>2, <1>3, <1>4, <1>5, <1>6, <1>7 DEF LateRequest, Handle

LEMMA EveryStoreStep ==
    ASSUME IInv, [Next]_vars
    PROVE  StoreStep
<1>1. CASE CreateScan
  BY <1>1 DEF CreateScan, StoreStep
<1>2. ASSUME NEW t \in Task, Expire(t)
      PROVE  StoreStep
  BY <1>2 DEF Expire, ExpireLease, StoreStep
<1>3. CASE UNCHANGED vars
  BY <1>3 DEF vars, StoreStep
<1>. QED
  BY <1>1, <1>2, <1>3, WorkerStoreStep, LateStoreStep DEF Next

LEMMA ExpireStore ==
    ASSUME StoreInv, NEW t \in Task, ExpireLease(t)
    PROVE  StoreInv' /\ KnownKept
<1>. USE DEF StoreInv, ExpireLease
<1>1. StoreType'
  BY DEF StoreType
<1>2. OwnerOK' /\ ResultsOK' /\ KnownKept
  BY DEF OwnerOK, ResultsOK, KnownKept, Known
<1>3. BoardOK'
  BY DEF BoardOK, Resolved
<1>. QED
  BY <1>1, <1>2, <1>3

LEMMA StoreKept ==
    ASSUME StoreInv, StoreStep
    PROVE  StoreInv' /\ KnownKept
  BY CreateStore, RegisterStore, LeaseStore, RenewStore, SubmitStore,
     CompleteStore, FailStore, SameStore, ExpireStore DEF StoreStep

-----------------------------------------------------------------------------
(* The processes' half, action by action                                   *)

LEMMA WorkerProcess ==
    ASSUME IInv, KnownKept, NEW w \in Worker, WorkerStart(w) \/ WorkerStep(w)
    PROVE  ProcessInv'
<1>. USE DEF Goto, Rest
<1>p. ProcessInv /\ ProcessType
  BY DEF IInv, ProcessInv
<1>l. late' = late /\ UNCHANGED <<faults, stalls>>
  BY DEF WorkerStart, WorkerStep, Hello, Lease, LeaseIdle, RunTask, Submit,
         Complete, Fail
<1>t. /\ LateOK' /\ late' \subseteq LateRequests
      /\ faults' \in 0 .. MaxFaults /\ stalls' \in 0 .. MaxStalls
  <2>1. LateOK'
    BY <1>l, LateStays DEF IInv, ProcessInv
  <2>. QED
    BY <1>p, <1>l, <2>1 DEF ProcessType, LateRequests
<1>k. PICK h \in TaskLease \cup {None} : h = lease[w]
  BY <1>p DEF ProcessType
<1>s. lease' = lease => lease' = [lease EXCEPT ![w] = h]
  BY <1>p, <1>k DEF ProcessType
<1>h. wpc[w] \in {"run", "submit", "complete", "fail"} => LeaseOK(h)'
  <2>1. wpc[w] \in {"run", "submit", "complete", "fail"} => LeaseOK(h)
    BY <1>p, <1>k DEF ProcessInv, WorkOK
  <2>. QED
    BY <2>1, LeaseStays
<1>1. CASE WorkerStart(w)
  <2>1. HoldsAt("hello", h)'
    BY DEF HoldsAt
  <2>. QED
    BY <1>1, <1>p, <1>t, <1>s, <2>1, WorkerMoves DEF WorkerStart
<1>2. CASE Hello(w)
  <2>1. HoldsAt("lease", h)'
    BY DEF HoldsAt
  <2>. QED
    BY <1>2, <1>p, <1>t, <1>s, <2>1, WorkerMoves DEF Hello
<1>3. CASE Lease(w)
  <2>1. PICK t \in Task :
          lease' = [lease EXCEPT ![w] =
             [task |-> t, terminal |-> terminal_endpoint_indexes(t)]]
    BY <1>3 DEF Lease
  <2>2. terminal_endpoint_indexes(t) \subseteq Endpoint
    BY TargetsType DEF terminal_endpoint_indexes
  <2>3. PICK T \in SUBSET Endpoint : T = terminal_endpoint_indexes(t)
    BY <2>2
  <2>. DEFINE g == [task |-> t, terminal |-> T]
  <2>4. g \in TaskLease
    BY DEF TaskLease
  <2>5. \A e \in T : Known(e)
    BY <2>3 DEF terminal_endpoint_indexes, IInv, StoreInv, ResultsOK
  <2>6. HoldsAt("run", g)'
    BY <2>4, <2>5 DEF HoldsAt, LeaseOK, KnownKept
  <2>7. lease' = [lease EXCEPT ![w] = g]
    BY <2>1, <2>3
  <2>. HIDE DEF g
  <2>. QED
    BY <1>3, <1>p, <1>t, <2>4, <2>6, <2>7, WorkerMoves DEF Lease
<1>4. CASE LeaseIdle(w)
  <2>1. HoldsAt("lease", h)' /\ HoldsAt("down", h)'
    BY DEF HoldsAt
  <2>. QED
    BY <1>4, <1>p, <1>t, <1>s, <2>1, WorkerMoves DEF LeaseIdle
<1>5. CASE RunTask(w)
  <2>1. HoldsAt("submit", h)'
    BY <1>5, <1>h DEF HoldsAt, RunTask
  <2>. QED
    BY <1>5, <1>p, <1>t, <1>s, <2>1, WorkerMoves DEF RunTask
<1>6. CASE Submit(w)
  <2>1. LeaseOK(h) /\ LeaseOK(h)'
    BY <1>6, <1>h, <1>k, <1>p DEF Submit, ProcessInv, WorkOK
  <2>2. \A e \in Endpoint \cap observations(h) : Known(e)'
    BY <1>6, <1>k, SubmitStore DEF Submit, IInv
  <2>3. Resolved(h.task)'
    <3>1. h.task \in Task
      BY <2>1 DEF LeaseOK, TaskLease
    <3>2. ASSUME NEW e \in Targets(h.task)
          PROVE  Known(e)'
      <4>1. e \in Endpoint
        BY <3>1, <3>2, TargetsType
      <4>. QED
        BY <2>1, <2>2, <4>1 DEF observations, LeaseOK
    <3>. QED
      BY <3>2 DEF Resolved, Known
  <2>4. HoldsAt("complete", h)'
    BY <2>1, <2>3 DEF HoldsAt
  <2>. QED
    BY <1>6, <1>p, <1>t, <1>s, <2>4, WorkerMoves DEF Submit
<1>7. CASE Complete(w) \/ Fail(w)
  <2>1. HoldsAt("lease", None)' /\ HoldsAt("down", None)'
    BY DEF HoldsAt
  <2>. QED
    BY <1>7, <1>p, <1>t, <2>1, WorkerMoves DEF Complete, Fail, Refused
<1>. QED
  BY <1>1, <1>2, <1>3, <1>4, <1>5, <1>6, <1>7 DEF WorkerStep

(* A failed task and a dead worker; the dead worker's request keeps what   *)
(* the worker held.                                                        *)
LEMMA FaultProcess ==
    ASSUME IInv, KnownKept, NEW w \in Worker, RunTaskFails(w) \/ WorkerDies(w)
    PROVE  ProcessInv'
<1>. USE DEF Goto
<1>p. ProcessInv /\ ProcessType /\ WorkOK /\ LateOK
  BY DEF IInv, ProcessInv
<1>t. faults' \in 0 .. MaxFaults /\ stalls' \in 0 .. MaxStalls
  BY <1>p, WorkerAssumption DEF RunTaskFails, WorkerDies, ProcessType
<1>k. PICK h \in TaskLease \cup {None} : h = lease[w]
  BY <1>p DEF ProcessType
<1>1. CASE RunTaskFails(w)
  <2>1. LeaseOK(h)
    BY <1>1, <1>p, <1>k DEF RunTaskFails, WorkOK
  <2>2. HoldsAt("fail", h)'
    BY <2>1, LeaseStays DEF HoldsAt
  <2>3. LateOK' /\ late' \subseteq LateRequests
    BY <1>1, <1>p, LateStays DEF RunTaskFails, ProcessType, LateRequests
  <2>4. lease' = [lease EXCEPT ![w] = h]
    BY <1>1, <1>k, <1>p DEF RunTaskFails, ProcessType
  <2>. QED
    BY <1>1, <1>p, <1>t, <2>2, <2>3, <2>4, WorkerMoves DEF RunTaskFails
<1>2. CASE WorkerDies(w)
  <2>1. HoldsAt("down", None)'
    BY DEF HoldsAt
  <2>. DEFINE q == [kind   |-> IF wpc[w] = "run" THEN "renew" ELSE wpc[w],
                    worker |-> w, lease |-> h]
  <2>2. late' \subseteq late \cup {q}
    BY <1>2, <1>k DEF WorkerDies, Request
  <2>3. q \in LateRequests
    BY <1>2, <1>p DEF WorkerDies, ProcessType, LateRequests, Kind
  <2>4. late' \subseteq LateRequests
    BY <1>p, <2>2, <2>3 DEF ProcessType, LateRequests
  <2>5. PICK k : k = wpc[w] /\ k # "renew"
    BY <1>p DEF ProcessType
  <2>6. HoldsAt(k, h)'
    <3>1. HoldsAt(k, h)
      BY <1>p, <1>k, <2>5 DEF HoldsAt, WorkOK
    <3>. QED
      BY <3>1, HoldsStays
  <2>7. ASSUME NEW m \in late'
        PROVE  /\ m.kind \in {"renew", "submit", "complete", "fail"}
                    => LeaseOK(m.lease)'
               /\ m.kind = "complete" => Resolved(m.lease.task)'
    <3>1. CASE m \in late
      BY <1>p, <3>1, LeaseStays, ResolvedStays
      DEF LateOK, LeaseOK, TaskLease
    <3>2. CASE m = q
      <4>1. m.lease = h /\ m.kind = (IF k = "run" THEN "renew" ELSE k)
        BY <2>5, <3>2
      <4>2. m.kind \in {"renew", "submit", "complete", "fail"} => LeaseOK(h)'
        BY <2>5, <2>6, <4>1 DEF HoldsAt
      <4>3. m.kind = "complete" => Resolved(h.task)'
        BY <2>6, <4>1 DEF HoldsAt
      <4>4. /\ m.kind \in {"renew", "submit", "complete", "fail"}
                 => LeaseOK(m.lease)'
            /\ m.kind = "complete" => Resolved(m.lease.task)'
        BY <4>1, <4>2, <4>3 DEF LeaseOK, Resolved, Known
      <4>. QED
        BY <4>4
    <3>. QED
      BY <2>2, <2>7, <3>1, <3>2
  <2>8. LateOK'
    BY <2>7 DEF LateOK
  <2>. HIDE DEF q
  <2>. QED
    BY <1>2, <1>p, <1>t, <2>1, <2>4, <2>8, WorkerMoves DEF WorkerDies
<1>. QED
  BY <1>1, <1>2

LEMMA OtherProcess ==
    ASSUME IInv, KnownKept,
           \/ CreateScan
           \/ \E t \in Task : Expire(t)
           \/ \E w \in Worker : Renew(w)
           \/ \E m \in late : LateRequest(m)
    PROVE  ProcessInv'
<1>1. ProcessInv /\ ProcessType
  BY DEF IInv, ProcessInv
<1>2. UNCHANGED procs /\ late' \subseteq late
  BY DEF CreateScan, Expire, Renew, LateRequest, Rest
<1>3. faults' \in 0 .. MaxFaults /\ stalls' \in 0 .. MaxStalls
  BY <1>1, WorkerAssumption
  DEF CreateScan, Expire, Renew, LateRequest, Rest, ProcessType
<1>. QED
  BY <1>1, <1>2, <1>3, NobodyMoves

LEMMA IInvStep == IInv /\ [Next]_vars => IInv'
<1>. SUFFICES ASSUME IInv, [Next]_vars PROVE IInv'
  OBVIOUS
<1>1. StoreInv' /\ KnownKept
  BY EveryStoreStep, StoreKept DEF IInv
<1>2. ProcessInv'
  <2>1. CASE Next
    BY <1>1, <2>1, WorkerProcess, FaultProcess, OtherProcess DEF Next
  <2>2. CASE UNCHANGED vars
    <3>1. UNCHANGED <<procs, late, faults, stalls>>
      BY <2>2 DEF vars
    <3>. QED
      BY <1>1, <3>1, NobodyMoves DEF IInv, ProcessInv, ProcessType
  <2>. QED
    BY <2>1, <2>2
<1>. QED
  BY <1>1, <1>2 DEF IInv

LEMMA IInvInit == Init => IInv
<1>. SUFFICES ASSUME Init PROVE IInv
  OBVIOUS
<1>1. StoreType /\ ProcessType
  BY WorkerAssumption DEF Init, StoreType, ProcessType
<1>2. OwnerOK /\ ResultsOK /\ BoardOK
  BY DEF Init, OwnerOK, ResultsOK, BoardOK
<1>3. WorkOK /\ LateOK
  BY DEF Init, WorkOK, LateOK
<1>. QED
  BY <1>1, <1>2, <1>3 DEF IInv, StoreInv, ProcessInv

(* IInv holds in every state of the coordinator and its workers (Store,    *)
(* run_worker).                                                            *)
THEOREM Inductive == Spec => []IInv
  BY IInvInit, IInvStep, PTL DEF Spec

(* Every variable of the store and of the processes keeps its type.        *)
THEOREM TypeCorrect == Spec => []TypeOK
<1>1. IInv => TypeOK
  BY DEF IInv, StoreInv, ProcessInv, TypeOK
<1>. QED
  BY <1>1, Inductive, PTL

(* A done task has the results of all its endpoints and a completed scan   *)
(* has exactly the expected result for every endpoint, whatever was leased *)
(* twice, lost, delayed or repeated (complete_task, submit_observations).  *)
THEOREM ResultsComplete == Spec => []DoneResolved
<1>1. IInv => DoneResolved
  <2>. SUFFICES ASSUME IInv PROVE DoneResolved
    OBVIOUS
  <2>1. BoardOK
    BY DEF IInv, StoreInv
  <2>2. ASSUME scan = "completed", NEW e \in Endpoint
        PROVE  results[e] = Expected[e]
    <3>1. PICK t \in Task : e \in Targets(t)
      BY TasksCover
    <3>. QED
      BY <2>1, <2>2, <3>1 DEF BoardOK, Resolved
  <2>. QED
    BY <2>1, <2>2 DEF DoneResolved, BoardOK
<1>. QED
  BY <1>1, Inductive, PTL

-----------------------------------------------------------------------------
(* What no transaction takes back: a done task has no owner and is never   *)
(* leasable, so neither complete_task, fail_task nor lease_task reaches    *)
(* it; a completed scan has only done tasks; and a row of the results is   *)
(* the expected one, which a repeated observation leaves alone.            *)
Settled ==
    /\ \A t \in Task : status[t] = "done" => status'[t] = "done"
    /\ scan = "completed" => scan' = "completed"
    /\ \A e \in Endpoint : results[e] # None => results'[e] = results[e]

LEMMA StoreSettled ==
    ASSUME StoreInv, StoreStep
    PROVE  Settled
<1>. USE DEF StoreInv
<1>1. \A e \in Endpoint : results[e] # None => results'[e] = results[e]
  <2>1. ASSUME NEW S \in SUBSET Endpoint, submit_observations(S)
        PROVE  \A e \in Endpoint : results[e] # None => results'[e] = results[e]
    BY <2>1, SubmitReports DEF ResultsOK, Known
  <2>2. results' = results \/ \E S \in SUBSET Endpoint : submit_observations(S)
    BY DEF StoreStep, store, taskVars, create_scan, ExpireLease,
           register_worker, lease_none, lease_task, renew_task, complete_task,
           fail_task
  <2>. QED
    BY <2>1, <2>2
<1>2. ASSUME NEW t \in Task, status[t] = "done"
      PROVE  status'[t] = "done"
  <2>1. \A w \in Worker : owner[t] # w
    BY <1>2, WorkerAssumption DEF OwnerOK
  <2>2. t \notin Leasable /\ scan # "absent"
    BY <1>2 DEF Leasable, BoardOK
  <2>. QED
    BY <1>2, <2>1, <2>2
    DEF StoreStep, store, taskVars, StoreType, create_scan, ExpireLease,
        register_worker, lease_none, lease_task, First, renew_task,
        submit_observations, complete_task, fail_task
<1>3. ASSUME scan = "completed"
      PROVE  scan' = "completed"
  BY <1>3
  DEF StoreStep, store, taskVars, create_scan, ExpireLease, register_worker,
      lease_none, lease_task, renew_task, submit_observations, complete_task,
      fail_task
<1>. QED
  BY <1>1, <1>2, <1>3 DEF Settled

(* No request, however late, reopens a done task or a completed scan or    *)
(* changes a result that is in the table (lease_task, complete_task,       *)
(* fail_task, merge_result).                                               *)
THEOREM FinalStays == Spec => DoneIsFinal
<1>1. IInv /\ [Next]_vars => [Settled]_vars
  BY EveryStoreStep, StoreSettled DEF IInv
<1>2. [][Settled]_vars => DoneIsFinal
  BY PTL DEF DoneIsFinal, Settled
<1>. QED
  BY <1>1, <1>2, Inductive, PTL DEF Spec

-----------------------------------------------------------------------------
(* The owner of a task whose lease runs on changes only with a request of  *)
(* that owner: lease_task passes such a task over, and complete_task and   *)
(* fail_task compare the owner.                                            *)
OwnRequest(t) ==
    \/ wpc'[owner[t]] # wpc[owner[t]]
    \/ \E m \in late \ late' : m.worker = owner[t]

LEMMA LeaseGuards ==
    ASSUME IInv, [Next]_vars, NEW t \in Task,
           status[t] = "running", ~expired[t], owner'[t] # owner[t]
    PROVE  OwnRequest(t)
<1>. USE DEF IInv, StoreInv, ProcessInv
<1>1. t \notin Leasable /\ scan # "absent"
  BY DEF Leasable, BoardOK
<1>2. ASSUME NEW w \in Worker, NEW u \in Task, lease_task(w, u)
      PROVE  FALSE
  BY <1>1, <1>2 DEF lease_task, First, StoreType
<1>3. ASSUME NEW w \in Worker, NEW u \in Task,
             complete_task(w, u) \/ fail_task(w, u)
      PROVE  u = t
  BY <1>3 DEF complete_task, fail_task, StoreType
<1>4. ASSUME NEW w \in Worker, Complete(w) \/ Fail(w)
      PROVE  OwnRequest(t)
  <2>1. lease[w].task \in Task
    BY <1>4 DEF Complete, Fail, WorkOK, LeaseOK, TaskLease
  <2>2. owner[t] = w
    BY <1>3, <1>4, <2>1 DEF Complete, Fail, Refused, store, taskVars
  <2>3. wpc'[w] # wpc[w]
    BY <1>4 DEF Complete, Fail, Refused, Goto, ProcessType
  <2>. QED
    BY <2>2, <2>3 DEF OwnRequest
<1>5. ASSUME NEW m \in late, LateRequest(m)
      PROVE  OwnRequest(t)
  <2>1. m.worker \in Worker /\ m \in late \ late'
    BY <1>5 DEF LateRequest, ProcessType
  <2>2. m.kind \in {"complete", "fail"}
    BY <1>2, <1>5, <2>1
    DEF LateRequest, Handle, register_worker, lease_none, renew_task,
        submit_observations, taskVars
  <2>3. m.lease.task \in Task
    BY <2>2 DEF LateOK, LeaseOK, TaskLease
  <2>4. m.worker = owner[t]
    BY <1>3, <1>5, <2>1, <2>2, <2>3
    DEF LateRequest, Handle, store, taskVars
  <2>. QED
    BY <2>1, <2>4 DEF OwnRequest
<1>6. ASSUME NEW w \in Worker,
             \/ WorkerStart(w) \/ Hello(w) \/ Lease(w) \/ LeaseIdle(w)
             \/ RunTask(w) \/ Submit(w) \/ Renew(w) \/ RunTaskFails(w)
             \/ WorkerDies(w)
      PROVE  FALSE
  BY <1>2, <1>6
  DEF WorkerStart, Hello, Lease, LeaseIdle, RunTask, Submit, Renew,
      RunTaskFails, WorkerDies, register_worker, lease_none, renew_task,
      submit_observations, store, taskVars
<1>7. ~CreateScan /\ ~(\E u \in Task : Expire(u)) /\ ~(UNCHANGED vars)
  BY DEF CreateScan, create_scan, Expire, vars, store, taskVars
<1>. QED
  BY <1>4, <1>5, <1>6, <1>7 DEF Next, WorkerStep

(* While a lease has not run out nobody but its owner moves the task on    *)
(* (lease_task, complete_task, fail_task).                                 *)
THEOREM LeasesAreRespected == Spec => LeaseRespected
<1>. DEFINE Guarded ==
       \A t \in Task :
          status[t] = "running" /\ ~expired[t] /\ owner'[t] # owner[t] =>
             \/ wpc'[owner[t]] # wpc[owner[t]]
             \/ \E m \in late \ late' : m.worker = owner[t]
<1>1. IInv /\ [Next]_vars => [Guarded]_vars
  BY LeaseGuards DEF OwnRequest
<1>2. [][Guarded]_vars => LeaseRespected
  BY PTL DEF LeaseRespected
<1>. QED
  BY <1>1, <1>2, Inductive, PTL DEF Spec

-----------------------------------------------------------------------------
(* Every transaction is a step of the task board or leaves it alone: a     *)
(* submission reports the expected results of its endpoints, complete_task *)
(* ticks off one task that is resolved, the rest is invisible.             *)
LEMMA StepRefines ==
    ASSUME StoreInv, StoreStep
    PROVE  [Board!Next]_(Board!board)
<1>. USE DEF StoreInv
<1>. DEFINE Done == {t \in Task : status[t] = "done"}
<1>1. ASSUME NEW S \in SUBSET Endpoint, submit_observations(S)
      PROVE  Board!Report(S)
  BY <1>1, SubmitReports DEF Board!Report, submit_observations, taskVars
<1>2. ASSUME NEW w \in Worker, NEW t \in Task,
             owner[t] = w, Resolved(t), complete_task(w, t)
      PROVE  Board!Finish(t)
  <2>1. status[t] = "running"
    BY <1>2, WorkerAssumption DEF OwnerOK
  <2>2. t \notin Done /\ \A e \in Targets(t) : results[e] = Expected[e]
    BY <1>2, <2>1 DEF Resolved
  <2>3. Done' = Done \cup {t}
    BY <1>2 DEF complete_task, StoreType
  <2>4. (scan' = "completed") = (Done' = Task)
    <3>1. scan # "completed"
      BY <2>1 DEF BoardOK
    <3>2. (\A u \in Task : status'[u] = "done") <=> Done' = Task
      OBVIOUS
    <3>. QED
      BY <1>2, <3>1, <3>2 DEF complete_task
  <2>5. results' = results
    BY <1>2 DEF complete_task
  <2>. QED
    BY <2>2, <2>3, <2>4, <2>5 DEF Board!Finish
<1>3. ASSUME Done' = Done, results' = results,
             (scan' = "completed") = (scan = "completed")
      PROVE  UNCHANGED Board!board
  BY <1>3 DEF Board!board
<1>4. ASSUME NEW w \in Worker, NEW t \in Task, lease_task(w, t)
      PROVE  Done' = Done
  BY <1>4 DEF lease_task, First, Leasable, StoreType
<1>5. ASSUME NEW w \in Worker, NEW t \in Task, owner[t] = w, fail_task(w, t)
      PROVE  Done' = Done
  <2>1. status[t] = "running"
    BY <1>5, WorkerAssumption DEF OwnerOK
  <2>. QED
    BY <1>5, <2>1 DEF fail_task, StoreType
<1>6. ASSUME scan = "absent", create_scan
      PROVE  Done' = Done
  BY <1>6 DEF create_scan, BoardOK
<1>7. \/ \E S \in SUBSET Endpoint : submit_observations(S)
      \/ \E w \in Worker, t \in Task :
            owner[t] = w /\ Resolved(t) /\ complete_task(w, t)
      \/ /\ Done' = Done /\ results' = results
         /\ (scan' = "completed") = (scan = "completed")
  BY <1>4, <1>5, <1>6
  DEF StoreStep, store, taskVars, create_scan, ExpireLease, register_worker,
      lease_none, lease_task, renew_task, fail_task
<1>. HIDE DEF Done
<1>. QED
  BY <1>1, <1>2, <1>3, <1>7 DEF Board!Next

(* The scan implements the task board: with workers that die, requests     *)
(* that are lost or late and leases that run out, the store goes through   *)
(* the board's steps only (the transactions of CoordinatorStore).          *)
THEOREM ImplementsBoard == Spec => BoardSpec
<1>1. Init => Board!Init
  BY DEF Init, Board!Init
<1>2. IInv /\ [Next]_vars => [Board!Next]_(Board!board)
  BY EveryStoreStep, StepRefines DEF IInv
<1>. QED
  BY <1>1, <1>2, Inductive, PTL DEF Spec, BoardSpec, Board!Spec

=============================================================================
