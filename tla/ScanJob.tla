------------------------------ MODULE ScanJob ------------------------------
(***************************************************************************)
(* One job of the live scanner: the scanner thread (scanner.rs, run,       *)
(* send_rounds, receive, finish_scan), the banner pipeline thread with its *)
(* inspection tasks (banner_pipeline), the bounded channel between them,   *)
(* the stop flag, and the files that outlive the process (job.rs).         *)
(*                                                                         *)
(* Endpoints are named by their position in the sweep.  The sweep order is *)
(* a fixed permutation of the endpoint indexes, the same in every round    *)
(* and every resume, so positions and indexes are in bijection.            *)
(***************************************************************************)
EXTENDS Integers, Sequences, FiniteSets

CONSTANTS
    N,            \* job.meta.target_count
    Attempts,     \* cfg.scan.syn_attempts: rounds of SYNs
    BatchMin,     \* SENDMMSG_BATCH_MIN
    BatchMax,     \* SENDMMSG_BATCH_MIN + SENDMMSG_BATCH_RANGE - 1
    CkptEvery,    \* the 10_000 of send_rounds
    Capacity,     \* cfg.scan.banner_queue_capacity
    Concurrency,  \* cfg.scan.banner_concurrency
    None,         \* Option::None, which ends the pipeline when sent
    MaxReplies,   \* bound: replies the capture delivers over the whole job
    MaxFaults,    \* bound: crashes, I/O errors, failed tasks
    MaxDrops,     \* bound: runs in which the kernel drops captured packets
    MaxStops      \* bound: Ctrl-C and timeouts

ASSUME SizeAssumption ==
    /\ N \in Nat \ {0}
    /\ Attempts \in Nat \ {0}
    /\ BatchMin \in Nat \ {0}
    /\ BatchMax \in Nat
    /\ BatchMin <= BatchMax
    /\ CkptEvery \in Nat \ {0}
    /\ Capacity \in Nat \ {0}
    /\ Concurrency \in Nat \ {0}

ASSUME BoundAssumption ==
    /\ MaxReplies \in Nat
    /\ MaxFaults \in Nat
    /\ MaxDrops \in Nat
    /\ MaxStops \in Nat

Endpoint == 0 .. N - 1
Round == 0 .. Attempts - 1

ASSUME NoneAssumption == None \notin Endpoint

(* TargetState in the order of its rank *)
TargetState == {"no_response", "unreachable", "closed", "open"}

rank(s) == CASE s = "no_response" -> 0
             [] s = "unreachable" -> 1
             [] s = "closed"      -> 2
             [] s = "open"        -> 3

VARIABLES
    \* files of the job directory
    ckpt,      \* checkpoint.json: round, next_index, degraded
    states,    \* state.bin
    banner,    \* banner_state.bin
    log,       \* events.ndjson: records on a line of their own, records fused
               \* with an earlier fragment, and whether the file ends mid-line
    summary,   \* summary.json, or None
    \* the scanner thread
    pc, ret, cur, round, order,
    draft,     \* timed_out as finish_scan put it in the summary to be saved
    \* shared between threads
    stopping, timed_out, drops, queue,
    \* the pipeline thread and its tasks
    ppc, phase, pcur, task,
    \* history and bounds
    probed, resent, dropped, early, replies, faults, stops

fileVars == <<ckpt, states, banner, log, summary>>
scanVars == <<pc, ret, cur, round, order, draft>>
flagVars == <<stopping, timed_out, drops>>
pipeVars == <<ppc, phase, pcur, task>>
histVars == <<probed, resent, dropped, early>>
boundVars == <<replies, faults, stops>>
vars == <<fileVars, scanVars, flagVars, queue, pipeVars, histVars, boundVars>>

Up == pc # "down"

(* finish_scan has read the capture's drop counters *)
CountersTaken == pc \in {"poison", "join"}

(* mutant: the pipeline thread ends without dropping the receiver *)
ReceiverKept == ppc = "failed"

ReceiverGone == ppc \in {"exited", "failed"}
Open == {e \in Endpoint : states[e] = "open"}
Done == {e \in Endpoint : banner[e] = "done"}

-----------------------------------------------------------------------------
(* Leaving the process: every thread dies with it, however it ends.        *)

ProcessGone ==
    /\ pc' = "down" /\ ret' = "none" /\ cur' = None
    /\ round' = 0 /\ order' = 0 /\ draft' = FALSE
    /\ stopping' = FALSE /\ timed_out' = FALSE /\ drops' = FALSE
    /\ queue' = <<>>
    /\ ppc' = "exited" /\ phase' = "serving" /\ pcur' = None
    /\ task' = [e \in Endpoint |-> "idle"]

(* What append_event can leave behind when the process dies inside it: the *)
(* record is written in pieces, the newline last, then synced.             *)
LogAfterDeath ==
    IF ppc = "append"
    THEN log' \in {log, [log EXCEPT !.torn = TRUE]}
    ELSE log' = log

-----------------------------------------------------------------------------
(* Starting a run: `riftmap scan` after create_shard, or `riftmap resume`. *)
(* run maps the files, starts the pipeline and turns to the open targets   *)
(* an earlier run left without a finished banner.                          *)

Start ==
    /\ pc = "down"
    /\ pc' = "resume" /\ ret' = "none" /\ cur' = 0
    /\ round' = ckpt.round /\ order' = ckpt.next /\ draft' = FALSE
    /\ stopping' = FALSE /\ timed_out' = FALSE /\ drops' = FALSE
    /\ queue' = <<>>
    /\ ppc' = "drain" /\ phase' = "serving" /\ pcur' = None
    /\ task' = [e \in Endpoint |-> "idle"]
    /\ UNCHANGED <<fileVars, histVars, boundVars>>

(* The channel: SyncSender::send appends, blocks while the buffer is full, *)
(* and fails once the receiver is dropped.                                 *)
Send(m) ==
    /\ ~ReceiverGone
    /\ Len(queue) < Capacity
    /\ queue' = Append(queue, m)

(* mutants: done targets are queued again; interrupted ones are not *)
NeedsBannerAgain(e) == states[e] = "open"
NeedsBannerFresh(e) == states[e] = "open" /\ banner[e] = "none"

NeedsBanner(e) == states[e] = "open" /\ banner[e] # "done"

(* enqueue_resume_banner_targets, one endpoint of its loop: the byte is    *)
(* set before the blocking send.                                           *)
ResumeMark ==
    /\ pc = "resume" /\ cur \in Endpoint
    /\ IF NeedsBanner(cur)
       THEN /\ banner' = [banner EXCEPT ![cur] = "queued"]
            /\ pc' = "resume_send"
            /\ cur' = cur
       ELSE /\ cur' = cur + 1
            /\ UNCHANGED <<banner, pc>>
    /\ UNCHANGED <<ckpt, states, log, summary, ret, round, order, draft,
                   flagVars, queue, pipeVars, histVars, boundVars>>

ResumeSend ==
    /\ pc = "resume_send"
    /\ Send(cur)
    /\ pc' = "resume" /\ cur' = cur + 1
    /\ UNCHANGED <<fileVars, ret, round, order, draft, flagVars, pipeVars,
                   histVars, boundVars>>

(* The send's error leaves run through `?`: main returns it and the        *)
(* process ends without a summary.                                         *)
ResumeSendFails ==
    /\ pc = "resume_send"
    /\ ReceiverGone
    /\ ProcessGone
    /\ early' = TRUE
    /\ UNCHANGED <<fileVars, probed, resent, dropped, boundVars>>

(* The loop over the rounds starts; a job past its last round has none.    *)
ResumeEnd ==
    /\ pc = "resume" /\ cur = N
    /\ cur' = None
    /\ IF round < Attempts
       THEN pc' = "top" /\ ret' = ret
       ELSE pc' = "receive" /\ ret' = "final"
    /\ UNCHANGED <<fileVars, round, order, draft, flagVars, queue, pipeVars,
                   histVars, boundVars>>

-----------------------------------------------------------------------------
(* The rounds *)

checkpoint(r, next) == ckpt' = [ckpt EXCEPT !.round = r, !.next = next]

(* mutant: a stop does not save the position *)
RoundStopUnsaved ==
    /\ pc = "top" /\ order < N /\ stopping
    /\ pc' = "receive" /\ ret' = "final"
    /\ UNCHANGED <<fileVars, cur, round, order, draft, flagVars, queue,
                   pipeVars, histVars, boundVars>>

(* mutant: the end of a round is not counted *)
RoundEndUncounted ==
    /\ pc = "top" /\ order = N
    /\ checkpoint(round, 0)
    /\ order' = 0
    /\ pc' = "receive" /\ ret' = "final"
    /\ UNCHANGED <<states, banner, log, summary, cur, round, draft, flagVars,
                   queue, pipeVars, histVars, boundVars>>

(* The head of the batch loop: stop, go on, or end the round. *)
RoundStop ==
    /\ pc = "top" /\ order < N /\ stopping
    /\ checkpoint(round, order)
    /\ pc' = "receive" /\ ret' = "final"
    /\ UNCHANGED <<states, banner, log, summary, cur, round, order, draft,
                   flagVars, queue, pipeVars, histVars, boundVars>>

RoundContinue ==
    /\ pc = "top" /\ order < N /\ ~stopping
    /\ pc' = "batch"
    /\ UNCHANGED <<fileVars, ret, cur, round, order, draft, flagVars, queue,
                   pipeVars, histVars, boundVars>>

RoundEnd ==
    /\ pc = "top" /\ order = N
    /\ checkpoint(round + 1, 0)
    /\ round' = round + 1 /\ order' = 0
    /\ pc' = "receive"
    /\ ret' = IF round + 1 < Attempts THEN "pause" ELSE "final"
    /\ UNCHANGED <<states, banner, log, summary, cur, draft, flagVars, queue,
                   pipeVars, histVars, boundVars>>

(* prepare_syn_batch walks from `order`, passing over endpoints that have  *)
(* answered.  It ends at m: with the batch full, at the end of the sweep,  *)
(* or, once stopping, before an endpoint whose bytes the limiter refused.  *)
BatchOf(m) == {e \in order .. m - 1 : states[e] = "no_response"}

BatchFull(m, b) ==
    /\ Cardinality(BatchOf(m)) = b
    /\ m - 1 \in BatchOf(m)

BatchCut(m, b) ==
    /\ stopping
    /\ Cardinality(BatchOf(m)) < b
    /\ m < N
    /\ states[m] = "no_response"

BatchEnds(m, b) ==
    \/ BatchFull(m, b)
    \/ m = N /\ Cardinality(BatchOf(m)) < b
    \/ BatchCut(m, b)

ProbesSent(S) ==
    LET sent == {round} \X S
    IN  /\ probed' = probed \cup sent
        /\ resent' = resent \cup (sent \cap probed)

SendBatch ==
    /\ pc = "batch"
    /\ \E b \in BatchMin .. BatchMax, m \in order .. N :
           /\ BatchEnds(m, b)
           /\ ProbesSent(BatchOf(m))
           /\ order' = m
    /\ pc' = "receive" /\ ret' = "batch"
    /\ UNCHANGED <<fileVars, cur, round, draft, flagVars, queue, pipeVars,
                   dropped, early, boundVars>>

(* sendmmsg fails after part of the batch: run returns the error. *)
SendBatchFails ==
    /\ pc = "batch" /\ faults < MaxFaults
    /\ \E b \in BatchMin .. BatchMax, m \in order .. N :
           /\ BatchEnds(m, b)
           /\ \E k \in order .. m : ProbesSent(BatchOf(k))
    /\ LogAfterDeath
    /\ ProcessGone
    /\ faults' = faults + 1
    /\ early' = TRUE
    /\ UNCHANGED <<ckpt, states, banner, summary, dropped, replies, stops>>

-----------------------------------------------------------------------------
(* receive: the capture hands over validated replies until it times out.   *)
(* A SYN-ACK that makes an endpoint open also queues its banner.           *)

(* Only a reply to a SYN of ours passes the checks of ports and cookie;    *)
(* with a configured source_port that may be a SYN of an earlier run.      *)
Replied(e) == \E r \in Round : <<r, e>> \in probed

Upgraded(e, s) == rank(s) > rank(states[e])

(* mutant: every SYN-ACK queues a banner until one is done *)
EnqueueEverySynAck(e, s) == s = "open" /\ banner[e] # "done"

(* the endpoint has just become open and was never queued *)
MayEnqueue(e, s) == Upgraded(e, s) /\ s = "open" /\ banner[e] = "none"

(* observe_response, and enqueue_banner up to its send *)
Receive(e, s) ==
    /\ pc = "receive" /\ replies < MaxReplies
    /\ Replied(e)
    /\ s # "no_response"
    /\ replies' = replies + 1
    /\ states' = [states EXCEPT ![e] = IF Upgraded(e, s) THEN s ELSE @]
    /\ IF MayEnqueue(e, s)
       THEN /\ banner' = [banner EXCEPT ![e] = "queued"]
            /\ pc' = "receive_send" /\ cur' = e
       ELSE UNCHANGED <<banner, pc, cur>>
    /\ UNCHANGED <<ckpt, log, summary, ret, round, order, draft, flagVars,
                   queue, pipeVars, histVars, faults, stops>>

(* `let _ = sender.send(..)`: blocks while full, ignores a gone receiver. *)
ReceiveSend ==
    /\ pc = "receive_send"
    /\ \/ Send(cur)
       \/ ReceiverGone /\ UNCHANGED queue
    /\ pc' = "receive" /\ cur' = None
    /\ UNCHANGED <<fileVars, ret, round, order, draft, flagVars, pipeVars,
                   histVars, boundVars>>

(* The kernel drops a packet the capture would have seen before its last   *)
(* receive: only the kernel's counter for this run remembers it.           *)
CaptureDrop ==
    /\ Up /\ ~CountersTaken
    /\ ~drops /\ dropped < MaxDrops
    /\ drops' = TRUE
    /\ dropped' = dropped + 1
    /\ UNCHANGED <<fileVars, scanVars, stopping, timed_out, queue, pipeVars,
                   probed, resent, early, boundVars>>

(* After a batch the position is saved when it is a multiple of CkptEvery. *)
AfterBatch ==
    /\ pc = "receive" /\ ret = "batch"
    /\ IF order % CkptEvery = 0 THEN checkpoint(round, order) ELSE ckpt' = ckpt
    /\ pc' = "top" /\ ret' = "none"
    /\ UNCHANGED <<states, banner, log, summary, cur, round, order, draft,
                   flagVars, queue, pipeVars, histVars, boundVars>>

AfterPause ==
    /\ pc = "receive" /\ ret = "pause"
    /\ pc' = "top" /\ ret' = "none"
    /\ UNCHANGED <<fileVars, cur, round, order, draft, flagVars, queue,
                   pipeVars, histVars, boundVars>>

-----------------------------------------------------------------------------
(* finish_scan *)

(* mutant: an interrupted round is checkpointed as a finished one *)
final_index_always_end == N

final_checkpoint_index == IF round >= Attempts THEN N ELSE ckpt.next

(* mutant: the last run's drops alone decide *)
AfterFinalForgets ==
    /\ pc = "receive" /\ ret = "final"
    /\ ckpt' = [round |-> round, next |-> final_checkpoint_index,
                degraded |-> drops]
    /\ draft' = timed_out
    /\ pc' = "poison" /\ ret' = "none"
    /\ UNCHANGED <<states, banner, log, summary, cur, round, order, flagVars,
                   queue, pipeVars, histVars, boundVars>>

(* After the last receive: the drop counters are recorded, the final       *)
(* checkpoint is written and the summary's counts are taken.  The states   *)
(* and the round do not change any more; timed_out still may.              *)
AfterFinal ==
    /\ pc = "receive" /\ ret = "final"
    /\ ckpt' = [round |-> round, next |-> final_checkpoint_index,
                degraded |-> ckpt.degraded \/ drops]
    /\ draft' = timed_out
    /\ pc' = "poison" /\ ret' = "none"
    /\ UNCHANGED <<states, banner, log, summary, cur, round, order, flagVars,
                   queue, pipeVars, histVars, boundVars>>

(* `let _ = sender.send(None)` *)
SendPoison ==
    /\ pc = "poison"
    /\ \/ Send(None)
       \/ ReceiverGone /\ UNCHANGED queue
    /\ pc' = "join"
    /\ UNCHANGED <<fileVars, ret, cur, round, order, draft, flagVars,
                   pipeVars, histVars, boundVars>>

saturating_sub(a, b) == IF a >= b THEN a - b ELSE 0

(* join, recount the banners, save_summary, return *)
Join ==
    /\ pc = "join" /\ ppc = "exited"
    /\ summary' =
         [completed |-> round >= Attempts, timed_out |-> draft,
          drops |-> ckpt.degraded,
          open |-> Cardinality(Open), done |-> Cardinality(Done),
          incomplete |-> saturating_sub(Cardinality(Open), Cardinality(Done))]
    /\ ProcessGone
    /\ UNCHANGED <<ckpt, states, banner, log, histVars, boundVars>>

(* the pipeline's error comes out of join's `??`, ahead of save_summary *)
JoinFails ==
    /\ pc = "join" /\ ppc = "failed"
    /\ ProcessGone
    /\ UNCHANGED <<fileVars, histVars, boundVars>>

-----------------------------------------------------------------------------
(* banner_pipeline *)

PipeFrame == UNCHANGED <<ckpt, states, summary, scanVars, flagVars, histVars,
                         replies, stops>>

Running == {e \in Endpoint : task[e] = "running"}
Finished == {e \in Endpoint : task[e] \in {"ok", "err"}}

(* mutant: the byte is written without the record *)
PipeReapMarkFirst(e) ==
    /\ ppc = "drain" /\ task[e] = "ok"
    /\ task' = [task EXCEPT ![e] = "idle"]
    /\ ppc' = "mark" /\ pcur' = e
    /\ UNCHANGED <<banner, log, queue, phase, faults>> /\ PipeFrame

(* drain_completed_banner_tasks takes a finished task; its result is       *)
(* appended to the event log and only then marked done.                    *)
PipeReap(e) ==
    /\ ppc = "drain" /\ task[e] = "ok"
    /\ task' = [task EXCEPT ![e] = "idle"]
    /\ ppc' = "append" /\ pcur' = e
    /\ UNCHANGED <<banner, log, queue, phase, faults>> /\ PipeFrame

append_event(e) ==
    log' = IF log.torn
           THEN [log EXCEPT !.fused = @ \cup {e}, !.torn = FALSE]
           ELSE [log EXCEPT !.lines = @ \cup {e}]

PipeAppend ==
    /\ ppc = "append"
    /\ append_event(pcur)
    /\ ppc' = "mark"
    /\ UNCHANGED <<banner, queue, phase, pcur, task, faults>> /\ PipeFrame

PipeMark ==
    /\ ppc = "mark"
    /\ banner' = [banner EXCEPT ![pcur] = "done"]
    /\ ppc' = "drain" /\ pcur' = None
    /\ UNCHANGED <<log, queue, phase, task, faults>> /\ PipeFrame

(* An error leaves the pipeline at once: the task set and the receiver are *)
(* dropped with everything in them.                                        *)
PipeFails ==
    /\ ppc' = "failed" /\ phase' = "serving" /\ pcur' = None
    /\ queue' = <<>>
    /\ task' = [e \in Endpoint |-> "idle"]
    /\ PipeFrame

PipeReapFails(e) ==
    /\ ppc = "drain" /\ task[e] = "err"
    /\ PipeFails
    /\ UNCHANGED <<banner, log, faults>>

(* append_event returns an error, part of the record written or not *)
PipeAppendFails ==
    /\ ppc = "append" /\ faults < MaxFaults
    /\ LogAfterDeath
    /\ PipeFails
    /\ faults' = faults + 1
    /\ UNCHANGED banner

(* seek or write fails and the byte is not written, or sync_data fails     *)
(* after it was                                                            *)
PipeMarkFails ==
    /\ ppc = "mark" /\ faults < MaxFaults
    /\ banner' \in {banner, [banner EXCEPT ![pcur] = "done"]}
    /\ PipeFails
    /\ faults' = faults + 1
    /\ UNCHANGED log

(* The head of the loop, nothing finished left to take. *)
PipePoll ==
    /\ ppc = "drain" /\ phase = "serving" /\ Finished = {}
    /\ IF stopping
       THEN phase' = "aborting" /\ ppc' = ppc
       ELSE ppc' = "recv" /\ phase' = phase
    /\ UNCHANGED <<banner, log, queue, pcur, task, faults>> /\ PipeFrame

(* recv_timeout: a target, the end, or nothing for 100 ms *)
PipeRecv ==
    /\ ppc = "recv"
    /\ IF queue = <<>>
       THEN ppc' = "drain" /\ UNCHANGED <<phase, pcur, queue>>
       ELSE /\ queue' = Tail(queue)
            /\ IF Head(queue) = None
               THEN /\ ppc' = "drain" /\ pcur' = pcur
                    /\ phase' = IF stopping THEN "aborting" ELSE "closing"
               ELSE ppc' = "permit" /\ pcur' = Head(queue) /\ phase' = phase
    /\ UNCHANGED <<banner, log, task, faults>> /\ PipeFrame

(* The ticker and the jitter only delay; the semaphore bounds the tasks. *)
PipeSpawn ==
    /\ ppc = "permit"
    /\ Cardinality(Running) < Concurrency
    /\ task' = [task EXCEPT ![pcur] = "running"]
    /\ ppc' = "drain" /\ pcur' = None
    /\ UNCHANGED <<banner, log, queue, phase, faults>> /\ PipeFrame

(* mutant: the pipeline does not wait for its tasks *)
PipeExitEarly ==
    /\ ppc = "drain" /\ phase # "serving"
    /\ task' = [e \in Endpoint |-> "idle"]
    /\ ppc' = "exited" /\ queue' = <<>>
    /\ UNCHANGED <<banner, log, phase, pcur, faults>> /\ PipeFrame

(* After the loop, the last task is gone: the receiver is dropped. *)
PipeExit ==
    /\ ppc = "drain" /\ phase # "serving"
    /\ \A e \in Endpoint : task[e] = "idle"
    /\ ppc' = "exited" /\ queue' = <<>>
    /\ UNCHANGED <<banner, log, phase, pcur, task, faults>> /\ PipeFrame

(* inspect_banner returns a result whatever status it ends with; it fails  *)
(* for a local socket error or a panic.  An aborted task ends at its next  *)
(* await.                                                                  *)
TaskReturns(e) ==
    /\ task[e] = "running"
    /\ task' = [task EXCEPT ![e] = "ok"]
    /\ UNCHANGED <<banner, log, queue, ppc, phase, pcur, faults>> /\ PipeFrame

TaskFails(e) ==
    /\ task[e] = "running" /\ faults < MaxFaults
    /\ task' = [task EXCEPT ![e] = "err"]
    /\ faults' = faults + 1
    /\ UNCHANGED <<banner, log, queue, ppc, phase, pcur>> /\ PipeFrame

TaskCancelled(e) ==
    /\ task[e] = "running" /\ phase = "aborting"
    /\ task' = [task EXCEPT ![e] = "idle"]
    /\ UNCHANGED <<banner, log, queue, ppc, phase, pcur, faults>> /\ PipeFrame

-----------------------------------------------------------------------------
(* Stop requests and death *)

CtrlC ==
    /\ Up /\ ~stopping /\ stops < MaxStops
    /\ stopping' = TRUE
    /\ stops' = stops + 1
    /\ UNCHANGED <<fileVars, scanVars, timed_out, drops, queue, pipeVars,
                   histVars, replies, faults>>

(* The timer thread of scan_runtime stores two flags, one after the other. *)
TimeoutFlag ==
    /\ Up /\ ~timed_out /\ stops < MaxStops
    /\ timed_out' = TRUE
    /\ stops' = stops + 1
    /\ UNCHANGED <<fileVars, scanVars, stopping, drops, queue, pipeVars,
                   histVars, replies, faults>>

TimeoutStop ==
    /\ Up /\ timed_out /\ ~stopping
    /\ stopping' = TRUE
    /\ UNCHANGED <<fileVars, scanVars, timed_out, drops, queue, pipeVars,
                   histVars, boundVars>>

(* The process is killed, or a `?` of run or finish_scan returns an I/O    *)
(* error and main exits; mapped files keep what was written to them.       *)
Crash ==
    /\ Up /\ faults < MaxFaults
    /\ LogAfterDeath
    /\ ProcessGone
    /\ faults' = faults + 1
    /\ early' = (early \/ ~CountersTaken)
    /\ UNCHANGED <<ckpt, states, banner, summary, probed, resent, dropped,
                   replies, stops>>

-----------------------------------------------------------------------------
Init ==
    /\ ckpt = [round |-> 0, next |-> 0, degraded |-> FALSE]
    /\ states = [e \in Endpoint |-> "no_response"]
    /\ banner = [e \in Endpoint |-> "none"]
    /\ log = [lines |-> {}, fused |-> {}, torn |-> FALSE]
    /\ summary = None
    /\ pc = "down" /\ ret = "none" /\ cur = None
    /\ round = 0 /\ order = 0 /\ draft = FALSE
    /\ stopping = FALSE /\ timed_out = FALSE /\ drops = FALSE
    /\ queue = <<>>
    /\ ppc = "exited" /\ phase = "serving" /\ pcur = None
    /\ task = [e \in Endpoint |-> "idle"]
    /\ probed = {} /\ resent = {} /\ dropped = 0 /\ early = FALSE
    /\ replies = 0 /\ faults = 0 /\ stops = 0

(* What the scanner thread does when nothing goes wrong *)
ScannerStep ==
    \/ ResumeMark \/ ResumeSend \/ ResumeSendFails \/ ResumeEnd
    \/ RoundStop \/ RoundContinue \/ RoundEnd \/ SendBatch
    \/ \E e \in Endpoint, s \in TargetState : Receive(e, s)
    \/ ReceiveSend \/ AfterBatch \/ AfterPause \/ AfterFinal
    \/ SendPoison \/ Join \/ JoinFails

PipeStep ==
    \/ \E e \in Endpoint : PipeReap(e) \/ PipeReapFails(e)
    \/ PipeAppend \/ PipeMark \/ PipePoll \/ PipeRecv \/ PipeSpawn \/ PipeExit

TaskStep(e) == TaskReturns(e) \/ TaskCancelled(e)

Fault ==
    \/ SendBatchFails \/ CaptureDrop \/ PipeAppendFails \/ PipeMarkFails
    \/ Crash
    \/ \E e \in Endpoint : TaskFails(e)

Stop == CtrlC \/ TimeoutFlag \/ TimeoutStop

Next ==
    \/ Start \/ ScannerStep \/ PipeStep \/ Fault \/ Stop
    \/ \E e \in Endpoint : TaskStep(e)

Spec == Init /\ [][Next]_vars

(* Threads are scheduled, tasks end by their timeouts, the timer thread    *)
(* runs, and the operator resumes an unfinished job.                       *)
Fairness ==
    /\ WF_vars(Start)
    /\ WF_vars(ScannerStep)
    /\ WF_vars(PipeStep)
    /\ WF_vars(TimeoutStop)
    /\ \A e \in Endpoint : WF_vars(TaskStep(e))

FairSpec == Spec /\ Fairness

-----------------------------------------------------------------------------
(* Properties *)

Summary == [completed : BOOLEAN, timed_out : BOOLEAN, drops : BOOLEAN,
            open : Nat, done : Nat, incomplete : Nat]

FilesOK ==
    /\ ckpt \in [round : 0 .. Attempts, next : 0 .. N, degraded : BOOLEAN]
    /\ states \in [Endpoint -> TargetState]
    /\ banner \in [Endpoint -> {"none", "queued", "done"}]
    /\ log \in [lines : SUBSET Endpoint, fused : SUBSET Endpoint,
                torn : BOOLEAN]
    /\ summary \in Summary \cup {None}

ScannerOK ==
    /\ pc \in {"down", "resume", "resume_send", "top", "batch", "receive",
               "receive_send", "poison", "join"}
    /\ ret \in {"none", "batch", "pause", "final"}
    /\ cur \in 0 .. N \cup {None}
    /\ round \in 0 .. Attempts
    /\ order \in 0 .. N

FlagsOK ==
    /\ draft \in BOOLEAN
    /\ stopping \in BOOLEAN
    /\ timed_out \in BOOLEAN
    /\ drops \in BOOLEAN

QueueOK ==
    /\ queue \in Seq(Endpoint \cup {None})
    /\ Len(queue) <= Capacity

PipelineOK ==
    /\ ppc \in {"drain", "recv", "permit", "append", "mark", "exited",
                "failed"}
    /\ phase \in {"serving", "closing", "aborting"}
    /\ pcur \in Endpoint \cup {None}
    /\ task \in [Endpoint -> {"idle", "running", "ok", "err"}]
    /\ Cardinality(Running) <= Concurrency

HistoryOK ==
    /\ probed \subseteq Round \X Endpoint
    /\ resent \subseteq probed
    /\ dropped \in 0 .. MaxDrops /\ early \in BOOLEAN
    /\ replies \in 0 .. MaxReplies
    /\ faults \in 0 .. MaxFaults
    /\ stops \in 0 .. MaxStops

(* Every variable has its type; the channel holds at most                  *)
(* banner_queue_capacity targets and the semaphore lets at most            *)
(* banner_concurrency inspections run.                                     *)
TypeOK ==
    FilesOK /\ ScannerOK /\ FlagsOK /\ QueueOK /\ PipelineOK /\ HistoryOK

(* An endpoint has been dealt with in round r: it got a SYN in that round, *)
(* or it needs none because it has answered.                               *)
Covered(r, e) == <<r, e>> \in probed \/ states[e] # "no_response"

(* checkpoint.json never claims more than was sent: every endpoint before  *)
(* the saved position of the saved round, and every endpoint of an earlier *)
(* round, was probed in that round or had answered, whatever stops, send   *)
(* errors and crashes came between.  A resume therefore skips nobody.      *)
CheckpointCovers ==
    \A r \in Round, e \in Endpoint :
        \/ r < ckpt.round
        \/ r = ckpt.round /\ e < ckpt.next
        => Covered(r, e)

(* A run that ends without a fault never repeats a SYN of its round when   *)
(* it is resumed: the stop path saves the exact next position.             *)
ProbedOnce == faults = 0 => resent = {}

(* An endpoint whose banner byte says done has its record in               *)
(* events.ndjson: the byte is written only after the append.               *)
EventBeforeDone == Done \subseteq log.lines \cup log.fused

(* Where an endpoint's inspection is: being sent, in the channel, held by  *)
(* the pipeline, or a task.                                                *)
Places(e) ==
    Cardinality({i \in 1 .. Len(queue) : queue[i] = e})
    + (IF pc \in {"resume_send", "receive_send"} /\ cur = e THEN 1 ELSE 0)
    + (IF pcur = e THEN 1 ELSE 0)
    + (IF task[e] # "idle" THEN 1 ELSE 0)

(* No endpoint is inspected twice in a run, nor again once it is done:     *)
(* it is in at most one place, and then its byte says queued.              *)
InspectedOnce ==
    \A e \in Endpoint :
        /\ Places(e) <= 1
        /\ Places(e) = 1 => banner[e] = "queued" /\ states[e] = "open"

(* resume has not reached the endpoint yet *)
AwaitsResume(e) == pc \in {"resume", "resume_send"} /\ cur <= e

(* No open endpoint is forgotten: unless a stop or an error ended the      *)
(* pipeline, an open endpoint without a finished banner is on its way.     *)
NoOrphanBanner ==
    Up /\ ppc # "failed" /\ phase # "aborting" =>
        \A e \in Endpoint :
            e \in Open \ Done /\ ~AwaitsResume(e) => Places(e) = 1

(* Between the SYN-ACK and the DONE byte an open endpoint is in one place: *)
(* blocked in a send, in the channel, in the pipeline's hands or in a task *)
(* - never in two, and never in none.                                      *)
BannerInOnePlace == InspectedOnce /\ NoOrphanBanner

(* The summary counts are exact when saved, a run that lost packets has    *)
(* marked the job degraded by then, and a run that was not asked to stop   *)
(* saves one only after every open endpoint's banner is done.              *)
SummaryHonest ==
    [][summary' # summary =>
         /\ summary'.incomplete = Cardinality(Open \ Done)
         /\ summary'.completed = (ckpt.round >= Attempts)
         /\ drops => ckpt.degraded
         /\ ~stopping => Open \subseteq Done]_vars

(* No step, crash and resume included, loses progress: states only rise in *)
(* rank, a done banner stays done, records stay, and the checkpoint never  *)
(* moves back.                                                             *)
ProgressKept ==
    [][/\ \A e \in Endpoint : rank(states'[e]) >= rank(states[e])
       /\ Done \subseteq Done'
       /\ log.lines \subseteq log'.lines
       /\ \/ ckpt'.round > ckpt.round
          \/ ckpt'.round = ckpt.round /\ ckpt'.next >= ckpt.next]_vars

(* what the scan has dealt with, for the abstract sweep *)
Dealt == {p \in Round \X Endpoint : Covered(p[1], p[2])}

Progress == INSTANCE Sweep WITH
    dealt <- Dealt,
    saved <- [round |-> ckpt.round, next |-> ckpt.next]

(* The live scan implements the abstract sweep that the local simulation   *)
(* implements too: over all runs of the job, with their stops, send        *)
(* errors, failing pipelines and deaths, the saved position only moves     *)
(* forward, and only over what was probed or has answered by then.         *)
ImplementsSweep == Progress!SweepSpec

(* A stop request always ends the process: nobody stays blocked on the     *)
(* full channel or on the pipeline thread.                                 *)
StopTerminates == (Up /\ stopping) ~> (pc = "down")

(* Every endpoint seen open is inspected in the end, however many stops,   *)
(* crashes and pipeline errors (finitely many) came between.               *)
OpenInspected ==
    \A e \in Endpoint : (states[e] = "open") ~> (banner[e] = "done")

(* All SYN rounds of the job are completed in the end. *)
RoundsComplete == <>(ckpt.round = Attempts)

(* synthesize_missing_results accepts the job *)
ExportAllAllowed == ckpt.round >= Attempts /\ ~ckpt.degraded

(* "When pcap reports dropped packets, the job is degraded"                *)
(* (SAFETY_MODEL.md): a job that lost packets in any of its runs refuses   *)
(* the full export, unless one of them ended before finish_scan asked for  *)
(* the counters - killed, by an I/O error, or by a stop that met it still  *)
(* queueing the banners of a resume.                                       *)
DropsRemembered ==
    pc = "down" /\ ExportAllAllowed /\ ~early => dropped = 0

=============================================================================
