------------------------------ MODULE Limiter ------------------------------
(***************************************************************************)
(* The application bandwidth budget: TokenBucket (rate.rs) behind the      *)
(* mutex of SharedBandwidthLimiter (scanner.rs), shared by the scanner     *)
(* thread, which collects a batch of SYNs and may be stopped while it      *)
(* waits, and the banner tasks, which wait before they connect.  The rate  *)
(* may be changed through a file while the scan runs.                      *)
(*                                                                         *)
(* Amounts are measured in time: a packet costs SYN_WIRE_BYTES / rate, the *)
(* bucket holds tokens / rate and at most burst_seconds.  In this measure  *)
(* set_rate_at, which keeps the fill ratio, changes only the cost of the   *)
(* packets to come.  The rate is positive.                                 *)
(***************************************************************************)
EXTENDS Integers

CONSTANTS
    Task,        \* slots of banner tasks
    Burst,       \* TOKEN_BUCKET_BURST_SECONDS
    Costs,       \* SYN_WIRE_BYTES / rate, for the rates an operator sets
    Poll,        \* DYNAMIC_BANDWIDTH_POLL_INTERVAL
    MaxSleep,    \* MAX_INTERRUPTIBLE_SLEEP
    BatchMax,    \* SYNs of a batch
    None,
    MaxTime      \* bound: the clock

Time == 0 .. MaxTime

ASSUME RateAssumption ==
    /\ Burst \in Nat /\ Poll \in Nat /\ MaxSleep \in Nat \ {0}
    /\ Costs \subseteq Nat \ {0}
    /\ BatchMax \in Nat \ {0} /\ MaxTime \in Nat
    /\ None \notin Nat

VARIABLES
    now,
    credit, last,   \* TokenBucket: tokens, last_seconds
    cost, reload,   \* current_bps, last_reload
    file,           \* what dynamic_application_mbps_file reads as
    \* the scanner: its place, SYNs in the batch and their cost, the cost of
    \* the SYN waited for, remaining, and the end of the current sleep
    spc, count, load, due, remaining, wake,
    \* the tasks: place, cost and end of their sleep
    tpc, tdue, twake,
    stopping,
    granted, sent,  \* history: the cost of all reservations, of all packets out
    mark            \* history: granted and last after some reservation

bucket == <<credit, last, cost, reload, granted, mark>>
scanner == <<spc, count, load, due, remaining, wake>>
tasks == <<tpc, tdue, twake>>
vars == <<now, bucket, file, scanner, tasks, stopping, sent>>

Larger(a, b) == IF a >= b THEN a ELSE b
Smaller(a, b) == IF a <= b THEN a ELSE b

-----------------------------------------------------------------------------
(* BandwidthLimiter::reserve, under the mutex *)

(* reload_if_due: a value that can be read replaces the cost, anything     *)
(* else leaves it.                                                         *)
ReloadDue == reload = None \/ now - reload >= Poll

reload_if_due ==
    IF ReloadDue
    THEN reload' = now /\ cost' = IF file = None THEN cost ELSE file
    ELSE UNCHANGED <<reload, cost>>

(* consume_at: what has flowed in up to the time already accounted for, a  *)
(* time that may lie ahead of the clock when others wait.                  *)
accounted == Larger(now, last)

(* The bucket is refilled up to its capacity, by consume_at or, when the    *)
(* rate changes, by set_rate_at just before it: the ratio the latter keeps *)
(* is the credit.                                                          *)
refilled == Smaller(credit + (accounted - last), Burst)

(* mutant: reservations ahead of the clock are forgotten *)
consume_at_now(need) ==
    LET have == Smaller(credit + Larger(now - last, 0), Burst)
    IN  IF have >= need
        THEN credit' = have - need /\ last' = now
        ELSE credit' = 0 /\ last' = now + (need - have)

consume_at(need) ==
    IF refilled >= need
    THEN credit' = refilled - need /\ last' = accounted
    ELSE credit' = 0 /\ last' = accounted + (need - refilled)

(* The reservation ends at last': the caller waits last' - now. *)
reserve ==
    /\ reload_if_due
    /\ consume_at(cost')
    /\ granted' = granted + cost'
    /\ mark' \in {mark, [granted |-> granted', last |-> last']}

-----------------------------------------------------------------------------
(* The scanner: send_rounds, prepare_syn_batch, consume_interruptible *)

BatchStart ==
    /\ spc = "head"
    /\ spc' = IF stopping THEN "stopped" ELSE "prepare"
    /\ UNCHANGED <<now, bucket, file, count, load, due, remaining, wake, tasks,
                   stopping, sent>>

ScannerReserve ==
    /\ spc = "prepare" /\ count < BatchMax
    /\ reserve
    /\ due' = cost' /\ remaining' = last' - now
    /\ spc' = "wait"
    /\ UNCHANGED <<now, file, count, load, wake, tasks, stopping, sent>>

ScannerSleep ==
    /\ spc = "wait" /\ remaining > 0 /\ ~stopping
    /\ wake' = now + Smaller(remaining, MaxSleep)
    /\ remaining' = remaining - Smaller(remaining, MaxSleep)
    /\ spc' = "sleep"
    /\ UNCHANGED <<now, bucket, file, count, load, due, tasks, stopping, sent>>

ScannerWake ==
    /\ spc = "sleep" /\ now >= wake
    /\ spc' = "wait" /\ wake' = None
    /\ UNCHANGED <<now, bucket, file, count, load, due, remaining, tasks,
                   stopping, sent>>

(* mutant: the SYN joins the batch while its bytes are still owed *)
ScannerGrantedEarly ==
    /\ spc = "wait" /\ ~stopping
    /\ count' = count + 1 /\ load' = load + due /\ due' = 0
    /\ remaining' = 0
    /\ spc' = "prepare"
    /\ UNCHANGED <<now, bucket, file, wake, tasks, stopping, sent>>

ScannerGranted ==
    /\ spc = "wait" /\ remaining = 0 /\ ~stopping
    /\ count' = count + 1 /\ load' = load + due /\ due' = 0
    /\ spc' = "prepare"
    /\ UNCHANGED <<now, bucket, file, remaining, wake, tasks, stopping, sent>>

(* A stop refuses the SYN; the batch so far still goes out. *)
ScannerRefused ==
    /\ spc = "wait" /\ stopping
    /\ due' = 0 /\ remaining' = 0
    /\ spc' = "send"
    /\ UNCHANGED <<now, bucket, file, count, load, wake, tasks, stopping, sent>>

(* The batch is full, or the sweep ends. *)
BatchReady ==
    /\ spc = "prepare"
    /\ spc' = "send"
    /\ UNCHANGED <<now, bucket, file, count, load, due, remaining, wake, tasks,
                   stopping, sent>>

SendBatch ==
    /\ spc = "send"
    /\ sent' = sent + load
    /\ count' = 0 /\ load' = 0
    /\ spc' = "head"
    /\ UNCHANGED <<now, bucket, file, due, remaining, wake, tasks, stopping>>

-----------------------------------------------------------------------------
(* A banner task: AsyncTokenBucket::consume before every connect *)

TaskReserve(t) ==
    /\ tpc[t] = "idle"
    /\ reserve
    /\ tpc' = [tpc EXCEPT ![t] = "wait"]
    /\ tdue' = [tdue EXCEPT ![t] = cost']
    /\ twake' = [twake EXCEPT ![t] = last']
    /\ UNCHANGED <<now, file, scanner, stopping, sent>>

TaskConnect(t) ==
    /\ tpc[t] = "wait" /\ now >= twake[t]
    /\ sent' = sent + tdue[t]
    /\ tpc' = [tpc EXCEPT ![t] = "idle"]
    /\ tdue' = [tdue EXCEPT ![t] = 0]
    /\ twake' = [twake EXCEPT ![t] = None]
    /\ UNCHANGED <<now, bucket, file, scanner, stopping>>

TaskAbort(t) ==
    /\ tpc[t] = "wait" /\ stopping
    /\ tpc' = [tpc EXCEPT ![t] = "gone"]
    /\ tdue' = [tdue EXCEPT ![t] = 0]
    /\ twake' = [twake EXCEPT ![t] = None]
    /\ UNCHANGED <<now, bucket, file, scanner, stopping, sent>>

-----------------------------------------------------------------------------
(* The world: the clock, a stop, and an operator who rewrites the file,    *)
(* which cannot be read while it is missing or empty.                      *)

Tick ==
    /\ now < MaxTime
    /\ now' = now + 1
    /\ UNCHANGED <<bucket, file, scanner, tasks, stopping, sent>>

Stop ==
    /\ ~stopping
    /\ stopping' = TRUE
    /\ UNCHANGED <<now, bucket, file, scanner, tasks, sent>>

Rewrite ==
    /\ file' \in Costs \cup {None}
    /\ UNCHANGED <<now, bucket, scanner, tasks, stopping, sent>>

Init ==
    /\ now = 0
    /\ credit = Burst /\ last = 0
    /\ cost \in Costs /\ reload = None
    /\ file \in {cost, None}
    /\ spc = "head" /\ count = 0 /\ load = 0 /\ due = 0 /\ remaining = 0
    /\ wake = None
    /\ tpc = [t \in Task |-> "idle"]
    /\ tdue = [t \in Task |-> 0]
    /\ twake = [t \in Task |-> None]
    /\ stopping = FALSE
    /\ granted = 0 /\ sent = 0
    /\ mark = [granted |-> 0, last |-> 0]

Next ==
    \/ BatchStart \/ ScannerReserve \/ ScannerSleep \/ ScannerWake
    \/ ScannerGranted \/ ScannerRefused \/ BatchReady \/ SendBatch
    \/ \E t \in Task : TaskReserve(t) \/ TaskConnect(t) \/ TaskAbort(t)
    \/ Tick \/ Stop \/ Rewrite

Spec == Init /\ [][Next]_vars

-----------------------------------------------------------------------------
(* Properties *)

(* Every variable has its type; the bucket never holds more than the       *)
(* burst.                                                                  *)
TypeOK ==
    /\ now \in Time
    /\ credit \in 0 .. Burst /\ last \in Nat
    /\ cost \in Costs /\ reload \in Time \cup {None}
    /\ file \in Costs \cup {None}
    /\ spc \in {"head", "prepare", "wait", "sleep", "send", "stopped"}
    /\ count \in 0 .. BatchMax /\ load \in Nat /\ due \in Nat
    /\ remaining \in Nat /\ wake \in Nat \cup {None}
    /\ tpc \in [Task -> {"idle", "wait", "gone"}]
    /\ tdue \in [Task -> Nat] /\ twake \in [Task -> Nat \cup {None}]
    /\ stopping \in BOOLEAN
    /\ granted \in Nat /\ sent \in Nat
    /\ mark \in [granted : Nat, last : Nat]

(* Whatever was reserved since some reservation fits into the time up to   *)
(* the end of the last reservation plus one burst, in every window and     *)
(* across changes of the rate.                                             *)
ReservedWithinBudget ==
    granted - mark.granted <= last - mark.last + Burst

(* What went out never exceeds the time passed plus one burst, although    *)
(* callers wait outside the lock, wake in any order, and the scanner holds *)
(* back a whole batch.                                                     *)
SentWithinBudget == sent <= now + Burst

(* Reservations are served in order: a later one never ends earlier, not   *)
(* even when the rate rises.                                               *)
ReservedInOrder == [][last' >= last /\ (granted' # granted => last' >= now)]_vars

=============================================================================
