--------------------------- MODULE ScanJobProofs ---------------------------
(* Theorems about ScanJob, and last about the commands of JobReaders that  *)
(* run beside it, for every number of endpoints, rounds, batch size,       *)
(* checkpoint period, channel capacity and concurrency.                    *)
EXTENDS JobReaders, TLAPS, FiniteSetTheorems, SequenceTheorems

(* Where the control is determines what its registers hold: the target     *)
(* being sent or inspected is an endpoint, and a round in progress is one  *)
(* of the job's rounds.                                                    *)
ControlOK ==
    /\ pc = "resume" => cur \in 0 .. N
    /\ pc \in {"resume_send", "receive_send"} => cur \in Endpoint
    /\ ppc \in {"permit", "append", "mark"} => pcur \in Endpoint
    /\ pc \in {"top", "batch"} => round < Attempts
    /\ pc \in {"receive", "receive_send"} /\ ret \in {"batch", "pause"}
         => round < Attempts

TypeInv == TypeOK /\ ControlOK

(* Subsets of Endpoint are finite, so their cardinality is a number. *)
LEMMA EndpointFinite ==
    /\ IsFiniteSet(Endpoint)
    /\ \A S \in SUBSET Endpoint : IsFiniteSet(S) /\ Cardinality(S) \in Nat
<1>1. IsFiniteSet(Endpoint)
  BY FS_Interval, SizeAssumption DEF Endpoint
<1>2. ASSUME NEW S \in SUBSET Endpoint
      PROVE  IsFiniteSet(S) /\ Cardinality(S) \in Nat
  BY <1>1, FS_Subset, FS_CardinalityType
<1>. QED
  BY <1>1, <1>2

(* A pipeline with no task runs none. *)
LEMMA NoTaskRuns ==
    ASSUME task' = [e \in Endpoint |-> "idle"]
    PROVE  Cardinality(Running)' <= Concurrency
<1>1. Running' = {}
  BY DEF Running
<1>. QED
  BY <1>1, FS_EmptySet, SizeAssumption

(* A task that stops running only lowers the number of running tasks. *)
LEMMA FewerRunning ==
    ASSUME Cardinality(Running) <= Concurrency, Running' \subseteq Running
    PROVE  Cardinality(Running)' <= Concurrency
<1>1. Running \in SUBSET Endpoint /\ Running' \in SUBSET Endpoint
  BY DEF Running
<1>2. Cardinality(Running') <= Cardinality(Running)
  BY <1>1, EndpointFinite, FS_Subset
<1>. QED
  BY <1>1, <1>2, EndpointFinite, SizeAssumption

LEMMA TypeInit == Init => TypeInv
<1>. SUFFICES ASSUME Init PROVE TypeInv
  OBVIOUS
<1>1. FilesOK
  BY SizeAssumption DEF Init, FilesOK, TargetState
<1>2. ScannerOK
  BY SizeAssumption DEF Init, ScannerOK
<1>3. FlagsOK
  BY DEF Init, FlagsOK
<1>4. QueueOK
  BY SizeAssumption DEF Init, QueueOK
<1>5. PipelineOK
  <2>1. Running = {}
    BY DEF Init, Running
  <2>. QED
    BY <2>1, FS_EmptySet, SizeAssumption DEF Init, PipelineOK
<1>6. HistoryOK
  <2>1. early \in BOOLEAN
    BY DEF Init
  <2>. QED
    BY <2>1, BoundAssumption DEF Init, HistoryOK
<1>7. ControlOK
  BY DEF Init, ControlOK
<1>. QED
  BY <1>1, <1>2, <1>3, <1>4, <1>5, <1>6, <1>7 DEF TypeInv, TypeOK

(* What an action does not touch keeps its type. *)
LEMMA Frames ==
    /\ FilesOK /\ UNCHANGED fileVars => FilesOK'
    /\ FlagsOK /\ UNCHANGED <<flagVars, draft>> => FlagsOK'
    /\ QueueOK /\ UNCHANGED queue => QueueOK'
    /\ PipelineOK /\ UNCHANGED pipeVars => PipelineOK'
    /\ HistoryOK /\ UNCHANGED <<histVars, boundVars>> => HistoryOK'
<1>1. FilesOK /\ UNCHANGED fileVars => FilesOK'
  BY DEF FilesOK, fileVars
<1>2. FlagsOK /\ UNCHANGED <<flagVars, draft>> => FlagsOK'
  BY DEF FlagsOK, flagVars
<1>3. QueueOK /\ UNCHANGED queue => QueueOK'
  BY DEF QueueOK
<1>4. PipelineOK /\ UNCHANGED pipeVars => PipelineOK'
  BY DEF PipelineOK, pipeVars, Running
<1>5. HistoryOK /\ UNCHANGED <<histVars, boundVars>> => HistoryOK'
  BY DEF HistoryOK, histVars, boundVars
<1>. QED
  BY <1>1, <1>2, <1>3, <1>4, <1>5

(* A message that fits keeps the channel typed and within its capacity. *)
LEMMA SendType ==
    ASSUME QueueOK, NEW m \in Endpoint \cup {None}, Send(m)
    PROVE  QueueOK'
  BY SizeAssumption DEF QueueOK, Send

(* The death of the process leaves well-typed, empty thread state. *)
LEMMA ProcessGoneType ==
    ASSUME ProcessGone, FilesOK', HistoryOK'
    PROVE  TypeInv'
<1>1. ScannerOK' /\ ControlOK' /\ QueueOK'
  BY SizeAssumption DEF ProcessGone, ScannerOK, ControlOK, QueueOK
<1>2. FlagsOK'
  BY DEF ProcessGone, FlagsOK
<1>3. PipelineOK'
  BY NoTaskRuns DEF ProcessGone, PipelineOK
<1>. QED
  BY <1>1, <1>2, <1>3 DEF TypeInv, TypeOK

(* Dying inside an append keeps the log typed. *)
LEMMA LogAfterDeathType ==
    ASSUME FilesOK, LogAfterDeath, UNCHANGED <<ckpt, states, banner, summary>>
    PROVE  FilesOK'
<1>1. log' = log \/ log' = [log EXCEPT !.torn = TRUE]
  BY DEF LogAfterDeath
<1>2. CASE log' = log
  BY <1>2, Frames DEF fileVars
<1>3. CASE log' = [log EXCEPT !.torn = TRUE]
  BY <1>3 DEF FilesOK
<1>. QED
  BY <1>1, <1>2, <1>3

(* A saved position of the sweep keeps the files typed. *)
LEMMA CheckpointType ==
    ASSUME FilesOK, NEW r \in 0 .. Attempts, NEW n \in 0 .. N,
           checkpoint(r, n), UNCHANGED <<states, banner, log, summary>>
    PROVE  FilesOK'
<1>1. ckpt' \in [round : 0 .. Attempts, next : 0 .. N, degraded : BOOLEAN]
  BY DEF FilesOK, checkpoint
<1>. QED
  BY <1>1 DEF FilesOK

LEMMA StartType ==
    ASSUME TypeInv, Start
    PROVE  TypeInv'
<1>. USE DEF TypeInv, TypeOK, Start
<1>1. FilesOK' /\ HistoryOK'
  BY Frames
<1>2. ScannerOK' /\ ControlOK' /\ QueueOK'
  BY SizeAssumption DEF FilesOK, ScannerOK, ControlOK, QueueOK
<1>3. FlagsOK'
  BY DEF FlagsOK
<1>4. PipelineOK'
  BY NoTaskRuns DEF PipelineOK
<1>. QED
  BY <1>1, <1>2, <1>3, <1>4

LEMMA ResumeType ==
    ASSUME TypeInv, ResumeMark \/ ResumeSend \/ ResumeSendFails \/ ResumeEnd
    PROVE  TypeInv'
<1>. USE DEF TypeInv, TypeOK
<1>1. CASE ResumeMark
  BY <1>1, Frames, SizeAssumption
  DEF ResumeMark, FilesOK, ScannerOK, ControlOK, Endpoint, flagVars, pipeVars
<1>2. CASE ResumeSend
  BY <1>2, Frames, SendType, SizeAssumption
  DEF ResumeSend, ScannerOK, ControlOK, Endpoint, flagVars, pipeVars
<1>3. CASE ResumeSendFails
  <2>1. early' \in BOOLEAN
    BY <1>3 DEF ResumeSendFails
  <2>2. HistoryOK'
    BY <1>3, <2>1 DEF ResumeSendFails, HistoryOK, boundVars
  <2>. QED
    BY <1>3, <2>2, Frames, ProcessGoneType DEF ResumeSendFails
<1>4. CASE ResumeEnd
  BY <1>4, Frames, SizeAssumption
  DEF ResumeEnd, ScannerOK, ControlOK, flagVars, pipeVars
<1>. QED
  BY <1>1, <1>2, <1>3, <1>4

(* The endpoints of a batch are endpoints of the sweep. *)
LEMMA ProbesType ==
    ASSUME HistoryOK, ScannerOK, round < Attempts,
           NEW m \in order .. N, ProbesSent(BatchOf(m)),
           UNCHANGED <<dropped, replies, stops>>, faults' \in 0 .. MaxFaults,
           early' \in BOOLEAN
    PROVE  HistoryOK'
<1>1. BatchOf(m) \subseteq Endpoint
  BY SizeAssumption DEF BatchOf, Endpoint, ScannerOK
<1>2. round \in Round
  BY SizeAssumption DEF Round, ScannerOK
<1>. QED
  BY <1>1, <1>2 DEF ProbesSent, HistoryOK

LEMMA RoundType ==
    ASSUME TypeInv,
           \/ RoundStop \/ RoundContinue \/ RoundEnd
           \/ SendBatch \/ SendBatchFails
    PROVE  TypeInv'
<1>. USE DEF TypeInv, TypeOK
<1>1. CASE RoundStop
  <2>1. FilesOK'
    BY <1>1, CheckpointType DEF RoundStop, ScannerOK
  <2>. QED
    BY <1>1, <2>1, Frames, SizeAssumption
    DEF RoundStop, ScannerOK, ControlOK, flagVars, pipeVars
<1>2. CASE RoundContinue
  BY <1>2, Frames
  DEF RoundContinue, ScannerOK, ControlOK, flagVars, pipeVars
<1>3. CASE RoundEnd
  <2>1. round + 1 \in 0 .. Attempts /\ 0 \in 0 .. N
    BY <1>3, SizeAssumption DEF RoundEnd, ScannerOK, ControlOK
  <2>2. FilesOK'
    BY <1>3, <2>1, CheckpointType DEF RoundEnd
  <2>3. ScannerOK' /\ ControlOK'
    BY <1>3, <2>1, SizeAssumption DEF RoundEnd, ScannerOK, ControlOK, pipeVars
  <2>. QED
    BY <1>3, <2>2, <2>3, Frames DEF RoundEnd
<1>4. CASE SendBatch
  <2>1. PICK m \in order .. N : ProbesSent(BatchOf(m)) /\ order' = m
    BY <1>4 DEF SendBatch
  <2>2. HistoryOK'
    BY <1>4, <2>1, ProbesType DEF SendBatch, ControlOK, HistoryOK, boundVars
  <2>. QED
    BY <1>4, <2>1, <2>2, Frames, SizeAssumption
    DEF SendBatch, ScannerOK, ControlOK, flagVars, pipeVars
<1>5. CASE SendBatchFails
  <2>1. PICK m \in order .. N : \E k \in order .. m : ProbesSent(BatchOf(k))
    BY <1>5 DEF SendBatchFails
  <2>2. PICK k \in order .. N : ProbesSent(BatchOf(k))
    BY <2>1, SizeAssumption DEF ScannerOK
  <2>3. HistoryOK'
    BY <1>5, <2>2, ProbesType, BoundAssumption
    DEF SendBatchFails, ControlOK, HistoryOK
  <2>. QED
    BY <1>5, <2>3, LogAfterDeathType, ProcessGoneType DEF SendBatchFails
<1>. QED
  BY <1>1, <1>2, <1>3, <1>4, <1>5

LEMMA ReceiveType ==
    ASSUME TypeInv,
           \/ \E e \in Endpoint, s \in TargetState : Receive(e, s)
           \/ ReceiveSend \/ CaptureDrop
           \/ AfterBatch \/ AfterPause \/ AfterFinal
    PROVE  TypeInv'
<1>. USE DEF TypeInv, TypeOK
<1>1. ASSUME NEW e \in Endpoint, NEW s \in TargetState, Receive(e, s)
      PROVE  TypeInv'
  <2>1. FilesOK'
    BY <1>1 DEF Receive, FilesOK
  <2>2. HistoryOK'
    BY <1>1, BoundAssumption DEF Receive, HistoryOK, histVars
  <2>. QED
    BY <1>1, <2>1, <2>2, Frames, SizeAssumption
    DEF Receive, ScannerOK, ControlOK, Endpoint, flagVars, pipeVars
<1>2. CASE ReceiveSend
  BY <1>2, Frames, SendType
  DEF ReceiveSend, ScannerOK, ControlOK, flagVars, pipeVars
<1>3. CASE CaptureDrop
  <2>1. HistoryOK'
    BY <1>3, BoundAssumption DEF CaptureDrop, HistoryOK, boundVars
  <2>2. FlagsOK'
    BY <1>3 DEF CaptureDrop, FlagsOK, scanVars
  <2>. QED
    BY <1>3, <2>1, <2>2, Frames
    DEF CaptureDrop, ScannerOK, ControlOK, scanVars, pipeVars
<1>4. CASE AfterBatch
  <2>1. FilesOK'
    BY <1>4, CheckpointType, Frames DEF AfterBatch, ScannerOK, fileVars
  <2>. QED
    BY <1>4, <2>1, Frames
    DEF AfterBatch, ScannerOK, ControlOK, flagVars, pipeVars
<1>5. CASE AfterPause
  BY <1>5, Frames
  DEF AfterPause, ScannerOK, ControlOK, flagVars, pipeVars
<1>6. CASE AfterFinal
  <2>1. FilesOK'
    BY <1>6, SizeAssumption
    DEF AfterFinal, final_checkpoint_index, FilesOK, FlagsOK, ScannerOK
  <2>2. FlagsOK'
    BY <1>6 DEF AfterFinal, FlagsOK, flagVars
  <2>. QED
    BY <1>6, <2>1, <2>2, Frames
    DEF AfterFinal, ScannerOK, ControlOK, pipeVars
<1>. QED
  BY <1>1, <1>2, <1>3, <1>4, <1>5, <1>6

LEMMA FinishType ==
    ASSUME TypeInv, SendPoison \/ Join \/ JoinFails
    PROVE  TypeInv'
<1>. USE DEF TypeInv, TypeOK
<1>1. CASE SendPoison
  BY <1>1, Frames, SendType
  DEF SendPoison, ScannerOK, ControlOK, flagVars, pipeVars
<1>2. CASE Join
  <2>1. Cardinality(Open) \in Nat /\ Cardinality(Done) \in Nat
    BY EndpointFinite DEF Open, Done
  <2>2. saturating_sub(Cardinality(Open), Cardinality(Done)) \in Nat
    BY <2>1 DEF saturating_sub
  <2>3. (round >= Attempts) \in BOOLEAN /\ draft \in BOOLEAN
        /\ ckpt.degraded \in BOOLEAN
    BY DEF FlagsOK, FilesOK
  <2>4. summary' \in Summary
    BY <1>2, <2>1, <2>2, <2>3 DEF Join, Summary
  <2>5. FilesOK'
    BY <1>2, <2>4 DEF Join, FilesOK
  <2>. QED
    BY <1>2, <2>5, Frames, ProcessGoneType DEF Join
<1>3. CASE JoinFails
  BY <1>3, Frames, ProcessGoneType DEF JoinFails
<1>. QED
  BY <1>1, <1>2, <1>3

(* The steps of the pipeline thread and of its tasks leave the scanner's   *)
(* registers and flags alone.                                              *)
LEMMA PipeFrameType ==
    ASSUME TypeInv, PipeFrame, faults' \in 0 .. MaxFaults
    PROVE  ScannerOK' /\ FlagsOK' /\ HistoryOK'
<1>1. ScannerOK'
  BY DEF TypeInv, TypeOK, PipeFrame, scanVars, ScannerOK
<1>2. FlagsOK'
  BY DEF TypeInv, TypeOK, PipeFrame, scanVars, flagVars, FlagsOK
<1>3. HistoryOK'
  BY DEF TypeInv, TypeOK, PipeFrame, histVars, HistoryOK
<1>. QED
  BY <1>1, <1>2, <1>3

LEMMA PipeFailsType ==
    ASSUME TypeInv, PipeFails, faults' \in 0 .. MaxFaults, FilesOK'
    PROVE  TypeInv'
<1>1. ScannerOK' /\ FlagsOK' /\ HistoryOK'
  BY PipeFrameType DEF PipeFails
<1>2. QueueOK'
  BY SizeAssumption DEF PipeFails, QueueOK
<1>3. PipelineOK'
  BY NoTaskRuns DEF PipeFails, PipelineOK
<1>4. ControlOK'
  BY DEF PipeFails, TypeInv, ControlOK, PipeFrame, scanVars
<1>. QED
  BY <1>1, <1>2, <1>3, <1>4 DEF TypeInv, TypeOK

LEMMA PipeType ==
    ASSUME TypeInv,
           \/ \E e \in Endpoint : PipeReap(e) \/ PipeReapFails(e)
           \/ PipeAppend \/ PipeMark \/ PipeAppendFails \/ PipeMarkFails
           \/ PipePoll \/ PipeRecv \/ PipeSpawn \/ PipeExit
    PROVE  TypeInv'
<1>. USE DEF TypeInv, TypeOK
<1>f. faults \in 0 .. MaxFaults
  BY DEF HistoryOK
<1>1. ASSUME NEW e \in Endpoint, PipeReap(e)
      PROVE  TypeInv'
  <2>1. Running' \subseteq Running
    BY <1>1 DEF PipeReap, Running, PipelineOK
  <2>2. PipelineOK'
    BY <1>1, <2>1, FewerRunning DEF PipeReap, PipelineOK
  <2>3. FilesOK' /\ QueueOK'
    BY <1>1, Frames DEF PipeReap, PipeFrame, fileVars
  <2>4. ControlOK'
    BY <1>1 DEF PipeReap, PipeFrame, ControlOK, scanVars
  <2>. QED
    BY <1>1, <1>f, <2>2, <2>3, <2>4, PipeFrameType DEF PipeReap
<1>2. ASSUME NEW e \in Endpoint, PipeReapFails(e)
      PROVE  TypeInv'
  <2>1. FilesOK'
    BY <1>2, Frames DEF PipeReapFails, PipeFails, PipeFrame, fileVars
  <2>. QED
    BY <1>2, <1>f, <2>1, PipeFailsType DEF PipeReapFails
<1>3. CASE PipeAppend
  <2>1. pcur \in Endpoint
    BY <1>3 DEF PipeAppend, ControlOK
  <2>2. log' \in [lines : SUBSET Endpoint, fused : SUBSET Endpoint,
                   torn : BOOLEAN]
    BY <1>3, <2>1 DEF PipeAppend, append_event, FilesOK
  <2>3. FilesOK'
    BY <1>3, <2>2 DEF PipeAppend, PipeFrame, FilesOK
  <2>4. PipelineOK' /\ QueueOK'
    BY <1>3, Frames DEF PipeAppend, PipelineOK, Running
  <2>5. ControlOK'
    BY <1>3 DEF PipeAppend, PipeFrame, ControlOK, scanVars
  <2>. QED
    BY <1>3, <1>f, <2>3, <2>4, <2>5, PipeFrameType DEF PipeAppend
<1>4. CASE PipeMark
  <2>1. FilesOK'
    BY <1>4 DEF PipeMark, PipeFrame, FilesOK
  <2>2. PipelineOK' /\ QueueOK'
    BY <1>4, Frames DEF PipeMark, PipelineOK, Running
  <2>3. ControlOK'
    BY <1>4 DEF PipeMark, PipeFrame, ControlOK, scanVars
  <2>. QED
    BY <1>4, <1>f, <2>1, <2>2, <2>3, PipeFrameType DEF PipeMark
<1>5. CASE PipeAppendFails \/ PipeMarkFails
  <2>1. ASSUME PipeAppendFails PROVE FilesOK'
    BY <2>1, LogAfterDeathType DEF PipeAppendFails, PipeFails, PipeFrame
  <2>2. ASSUME PipeMarkFails PROVE FilesOK'
    <3>1. banner' \in [Endpoint -> {"none", "queued", "done"}]
      BY <2>2 DEF PipeMarkFails, FilesOK
    <3>. QED
      BY <2>2, <3>1 DEF PipeMarkFails, PipeFails, PipeFrame, FilesOK
  <2>3. faults' \in 0 .. MaxFaults
    BY <1>5, <1>f, BoundAssumption DEF PipeAppendFails, PipeMarkFails
  <2>. QED
    BY <1>5, <2>1, <2>2, <2>3, PipeFailsType DEF PipeAppendFails, PipeMarkFails
<1>6. CASE PipePoll
  <2>1. FilesOK' /\ QueueOK'
    BY <1>6, Frames DEF PipePoll, PipeFrame, fileVars
  <2>2. PipelineOK'
    BY <1>6 DEF PipePoll, PipelineOK, Running
  <2>3. ControlOK'
    BY <1>6 DEF PipePoll, PipeFrame, ControlOK, scanVars
  <2>. QED
    BY <1>6, <1>f, <2>1, <2>2, <2>3, PipeFrameType DEF PipePoll
<1>7. CASE PipeRecv
  <2>1. FilesOK'
    BY <1>7, Frames DEF PipeRecv, PipeFrame, fileVars
  <2>2. queue # <<>> => /\ Head(queue) \in Endpoint \cup {None}
                        /\ Tail(queue) \in Seq(Endpoint \cup {None})
                        /\ Len(Tail(queue)) = Len(queue) - 1
    BY HeadTailProperties DEF QueueOK
  <2>3. QueueOK'
    BY <1>7, <2>2, SizeAssumption DEF PipeRecv, QueueOK
  <2>4. PipelineOK'
    BY <1>7, <2>2 DEF PipeRecv, PipelineOK, Running
  <2>5. ControlOK'
    BY <1>7, <2>2 DEF PipeRecv, PipeFrame, ControlOK, scanVars
  <2>. QED
    BY <1>7, <1>f, <2>1, <2>3, <2>4, <2>5, PipeFrameType DEF PipeRecv
<1>8. CASE PipeSpawn
  <2>1. pcur \in Endpoint
    BY <1>8 DEF PipeSpawn, ControlOK
  <2>2. Running' \subseteq Running \cup {pcur}
    BY <1>8, <2>1 DEF PipeSpawn, Running, PipelineOK
  <2>3. Running \in SUBSET Endpoint /\ Running' \in SUBSET Endpoint
    BY DEF Running
  <2>4. /\ IsFiniteSet(Running \cup {pcur})
        /\ Cardinality(Running \cup {pcur}) <= Cardinality(Running) + 1
    BY <2>3, EndpointFinite, FS_AddElement
  <2>5. Cardinality(Running') <= Cardinality(Running \cup {pcur})
    BY <2>2, <2>4, FS_Subset
  <2>6. Cardinality(Running') <= Concurrency
    <3>1. /\ Cardinality(Running) \in Nat
          /\ Cardinality(Running') \in Nat
          /\ Cardinality(Running \cup {pcur}) \in Nat
      BY <2>3, <2>4, EndpointFinite, FS_CardinalityType
    <3>. QED
      BY <1>8, <2>4, <2>5, <3>1, SizeAssumption DEF PipeSpawn
  <2>7. PipelineOK'
    BY <1>8, <2>6 DEF PipeSpawn, PipelineOK
  <2>8. FilesOK' /\ QueueOK'
    BY <1>8, Frames DEF PipeSpawn, PipeFrame, fileVars
  <2>9. ControlOK'
    BY <1>8 DEF PipeSpawn, PipeFrame, ControlOK, scanVars
  <2>. QED
    BY <1>8, <1>f, <2>7, <2>8, <2>9, PipeFrameType DEF PipeSpawn
<1>9. CASE PipeExit
  <2>1. FilesOK'
    BY <1>9, Frames DEF PipeExit, PipeFrame, fileVars
  <2>2. QueueOK'
    BY <1>9, SizeAssumption DEF PipeExit, QueueOK
  <2>3. PipelineOK'
    BY <1>9 DEF PipeExit, PipelineOK, Running
  <2>4. ControlOK'
    BY <1>9 DEF PipeExit, PipeFrame, ControlOK, scanVars
  <2>. QED
    BY <1>9, <1>f, <2>1, <2>2, <2>3, <2>4, PipeFrameType DEF PipeExit
<1>. QED
  BY <1>1, <1>2, <1>3, <1>4, <1>5, <1>6, <1>7, <1>8, <1>9

LEMMA TaskType ==
    ASSUME TypeInv, NEW e \in Endpoint,
           TaskReturns(e) \/ TaskFails(e) \/ TaskCancelled(e)
    PROVE  TypeInv'
<1>. USE DEF TypeInv, TypeOK, TaskReturns, TaskFails, TaskCancelled
<1>1. Running' \subseteq Running
  BY DEF Running, PipelineOK
<1>2. PipelineOK'
  BY <1>1, FewerRunning DEF PipelineOK
<1>3. FilesOK' /\ QueueOK'
  BY Frames DEF PipeFrame, fileVars
<1>4. ControlOK'
  BY DEF PipeFrame, ControlOK, scanVars
<1>5. faults' \in 0 .. MaxFaults
  BY BoundAssumption DEF HistoryOK
<1>. QED
  BY <1>2, <1>3, <1>4, <1>5, PipeFrameType

LEMMA StopType ==
    ASSUME TypeInv, CtrlC \/ TimeoutFlag \/ TimeoutStop
    PROVE  TypeInv'
<1>. USE DEF TypeInv, TypeOK, CtrlC, TimeoutFlag, TimeoutStop
<1>1. FilesOK' /\ QueueOK' /\ PipelineOK'
  BY Frames
<1>2. FlagsOK'
  BY DEF FlagsOK, scanVars
<1>3. ScannerOK' /\ ControlOK'
  BY DEF ScannerOK, ControlOK, scanVars, pipeVars
<1>4. HistoryOK'
  BY BoundAssumption DEF HistoryOK, histVars, boundVars
<1>. QED
  BY <1>1, <1>2, <1>3, <1>4

LEMMA CrashType ==
    ASSUME TypeInv, Crash
    PROVE  TypeInv'
<1>. USE DEF TypeInv, TypeOK, Crash
<1>1. FilesOK'
  BY LogAfterDeathType
<1>2. HistoryOK'
  BY BoundAssumption DEF HistoryOK, histVars
<1>. QED
  BY <1>1, <1>2, ProcessGoneType

LEMMA TypeStep == TypeInv /\ [Next]_vars => TypeInv'
<1>. SUFFICES ASSUME TypeInv, [Next]_vars PROVE TypeInv'
  OBVIOUS
<1>1. CASE Next
  BY <1>1, StartType, ResumeType, RoundType, ReceiveType, FinishType,
     PipeType, TaskType, StopType, CrashType
  DEF Next, ScannerStep, PipeStep, Fault, Stop, TaskStep
<1>2. CASE UNCHANGED vars
  <2>1. UNCHANGED <<fileVars, flagVars, draft, queue, pipeVars, histVars,
                    boundVars>>
    BY <1>2 DEF vars, scanVars
  <2>2. ScannerOK' /\ ControlOK'
    BY <1>2
    DEF vars, scanVars, pipeVars, TypeInv, TypeOK, ScannerOK, ControlOK
  <2>. QED
    BY <2>1, <2>2, Frames DEF TypeInv, TypeOK
<1>. QED
  BY <1>1, <1>2

(* TypeInv holds in every state of a job (run, banner_pipeline).           *)
THEOREM TypeInductive == Spec => []TypeInv
  BY TypeInit, TypeStep, PTL DEF Spec

(* Every variable keeps its type; the channel never holds more than        *)
(* banner_queue_capacity targets and never more than banner_concurrency    *)
(* inspections run, for every choice of the constants.                     *)
THEOREM TypeCorrect == Spec => []TypeOK
<1>1. TypeInv => TypeOK
  BY DEF TypeInv
<1>. QED
  BY <1>1, TypeInductive, PTL

-----------------------------------------------------------------------------
(* The checkpoint.  While a run is up its round is the saved round, every  *)
(* endpoint it has swept past in that round is covered, and its position   *)
(* is not behind the saved one.                                            *)

SweptPast ==
    Up /\ round < Attempts => \A e \in Endpoint : e < order => Covered(round, e)

SweepInv ==
    /\ CheckpointCovers
    /\ Up => round = ckpt.round
    /\ SweptPast
    /\ Up /\ round < Attempts => ckpt.next <= order

LEMMA RankType == \A s \in TargetState : rank(s) \in 0 .. 3
  BY DEF rank, TargetState

(* No step takes a probe back or lowers a state. *)
HistoryKept ==
    /\ probed \subseteq probed'
    /\ \A e \in Endpoint : \/ states'[e] = states[e]
                           \/ rank(states'[e]) > rank(states[e])

LEMMA ReceiveKeeps ==
    ASSUME TypeInv, NEW e \in Endpoint, NEW s \in TargetState, Receive(e, s)
    PROVE  HistoryKept
  BY DEF TypeInv, TypeOK, FilesOK, Receive, HistoryKept, Upgraded, histVars

LEMMA HistoryStep == TypeInv /\ [Next]_vars => HistoryKept
<1>. SUFFICES ASSUME TypeInv, [Next]_vars PROVE HistoryKept
  OBVIOUS
<1>1. CASE \E e \in Endpoint, s \in TargetState : Receive(e, s)
  BY <1>1, ReceiveKeeps
<1>2. CASE SendBatch \/ SendBatchFails
  BY <1>2 DEF SendBatch, SendBatchFails, ProbesSent, HistoryKept, fileVars
<1>3. CASE \/ Start \/ ResumeMark \/ ResumeSend \/ ResumeSendFails
           \/ ResumeEnd \/ RoundStop \/ RoundContinue \/ RoundEnd
           \/ ReceiveSend \/ AfterBatch \/ AfterPause \/ AfterFinal
           \/ SendPoison \/ Join \/ JoinFails \/ CaptureDrop \/ Stop \/ Crash
  <2>1. UNCHANGED <<probed, states>>
    BY <1>3
    DEF Start, ResumeMark, ResumeSend, ResumeSendFails, ResumeEnd, RoundStop,
        RoundContinue, RoundEnd, ReceiveSend, AfterBatch, AfterPause,
        AfterFinal, SendPoison, Join, JoinFails, CaptureDrop, Stop, CtrlC,
        TimeoutFlag, TimeoutStop, Crash, fileVars, histVars
  <2>. QED
    BY <2>1 DEF HistoryKept
<1>4. CASE PipeStep \/ PipeAppendFails \/ PipeMarkFails
           \/ \E e \in Endpoint : TaskStep(e) \/ TaskFails(e)
  <2>1. PipeFrame
    BY <1>4
    DEF PipeStep, PipeReap, PipeReapFails, PipeAppend, PipeMark, PipePoll,
        PipeRecv, PipeSpawn, PipeExit, PipeAppendFails, PipeMarkFails,
        PipeFails, TaskStep, TaskReturns, TaskCancelled, TaskFails
  <2>. QED
    BY <2>1 DEF PipeFrame, HistoryKept, histVars
<1>5. CASE UNCHANGED vars
  BY <1>5 DEF vars, HistoryKept, fileVars, histVars
<1>. QED
  BY <1>1, <1>2, <1>3, <1>4, <1>5 DEF Next, ScannerStep, Fault

(* An endpoint dealt with in a round stays dealt with. *)
LEMMA CoveredStays ==
    ASSUME TypeInv, TypeInv', HistoryKept, NEW r, NEW e \in Endpoint,
           Covered(r, e)
    PROVE  Covered(r, e)'
<1>1. states[e] \in TargetState /\ states'[e] \in TargetState
  BY DEF TypeInv, TypeOK, FilesOK
<1>2. CASE <<r, e>> \in probed
  BY <1>2 DEF HistoryKept, Covered
<1>3. CASE states[e] # "no_response"
  BY <1>1, <1>3 DEF HistoryKept, Covered, rank, TargetState
<1>. QED
  BY <1>2, <1>3 DEF Covered

(* A step that moves neither the checkpoint nor the run's position.        *)
LEMMA SweepFrame ==
    ASSUME TypeInv, TypeInv', SweepInv, HistoryKept,
           UNCHANGED <<ckpt, round, order>>, Up' => Up
    PROVE  SweepInv'
<1>1. \A r \in Round, e \in Endpoint : Covered(r, e) => Covered(r, e)'
  BY CoveredStays
<1>2. CheckpointCovers'
  BY <1>1 DEF SweepInv, CheckpointCovers
<1>3. SweptPast'
  BY <1>1, SizeAssumption DEF SweepInv, SweptPast, Round, TypeInv, TypeOK, ScannerOK
<1>. QED
  BY <1>2, <1>3 DEF SweepInv

(* The end of the process, however it comes.                               *)
LEMMA SweepDeath ==
    ASSUME TypeInv, TypeInv', SweepInv, HistoryKept,
           UNCHANGED ckpt, ProcessGone
    PROVE  SweepInv'
<1>1. \A r \in Round, e \in Endpoint : Covered(r, e) => Covered(r, e)'
  BY CoveredStays
<1>2. CheckpointCovers'
  BY <1>1 DEF SweepInv, CheckpointCovers
<1>3. ~Up'
  BY DEF ProcessGone, Up
<1>. QED
  BY <1>2, <1>3 DEF SweepInv, SweptPast

LEMMA SweepStep ==
    ASSUME TypeInv, TypeInv', SweepInv, [Next]_vars
    PROVE  SweepInv'
<1>h. HistoryKept
  BY HistoryStep
<1>c. \A r \in Round, e \in Endpoint : Covered(r, e) => Covered(r, e)'
  BY <1>h, CoveredStays
<1>t. /\ round \in 0 .. Attempts /\ order \in 0 .. N
      /\ ckpt \in [round : 0 .. Attempts, next : 0 .. N, degraded : BOOLEAN]
  BY DEF TypeInv, TypeOK, ScannerOK, FilesOK
<1>1. CASE Start
  BY <1>1, <1>c, <1>t, SizeAssumption
  DEF Start, SweepInv, SweptPast, CheckpointCovers, Covered, Up, fileVars,
      histVars, Round
<1>2. CASE SendBatch
  <2>1. PICK m \in order .. N : ProbesSent(BatchOf(m)) /\ order' = m
    BY <1>2 DEF SendBatch
  <2>2. round < Attempts /\ round \in Round
    BY <1>2, <1>t, SizeAssumption
    DEF SendBatch, TypeInv, ControlOK, Round
  <2>3. ASSUME NEW e \in Endpoint, e < m
        PROVE  Covered(round, e)'
    <3>1. CASE e < order
      BY <1>2, <1>c, <2>2, <3>1 DEF SendBatch, SweepInv, SweptPast, Up
    <3>2. CASE e >= order
      <4>1. e \in order .. m - 1
        BY <1>t, <2>3, <3>2 DEF Endpoint
      <4>. QED
        BY <1>2, <2>1, <4>1
        DEF SendBatch, BatchOf, ProbesSent, Covered, fileVars
    <3>. QED
      BY <1>t, <3>1, <3>2 DEF Endpoint
  <2>4. CheckpointCovers'
    BY <1>2, <1>c DEF SendBatch, SweepInv, CheckpointCovers, fileVars
  <2>5. SweptPast'
    BY <1>2, <2>1, <2>3 DEF SendBatch, SweptPast
  <2>. QED
    BY <1>2, <1>t, <2>1, <2>4, <2>5 DEF SendBatch, SweepInv, Up, fileVars
<1>3. CASE RoundStop \/ AfterBatch
  <2>1. round < Attempts /\ round \in Round /\ Up
    BY <1>3, <1>t, SizeAssumption
    DEF RoundStop, AfterBatch, TypeInv, ControlOK, Round, Up
  <2>2. UNCHANGED <<round, order, states, probed>> /\ Up'
    BY <1>3 DEF RoundStop, AfterBatch, Up, histVars
  <2>3. /\ ckpt'.round = round
        /\ ckpt'.next = order \/ ckpt' = ckpt
    BY <1>3, <1>t, <2>1 DEF RoundStop, AfterBatch, checkpoint, SweepInv
  <2>4. CheckpointCovers'
    BY <1>c, <1>t, <2>1, <2>2, <2>3
    DEF SweepInv, CheckpointCovers, SweptPast
  <2>5. SweptPast'
    BY <2>1, <2>2 DEF SweepInv, SweptPast, Covered
  <2>. QED
    BY <1>t, <2>1, <2>2, <2>3, <2>4, <2>5 DEF SweepInv
<1>4. CASE RoundEnd
  <2>1. round < Attempts /\ round \in Round /\ Up /\ order = N
    BY <1>4, <1>t, SizeAssumption
    DEF RoundEnd, TypeInv, ControlOK, Round, Up
  <2>2. /\ ckpt'.round = round + 1 /\ ckpt'.next = 0
        /\ round' = round + 1 /\ order' = 0
    BY <1>4, <1>t DEF RoundEnd, checkpoint
  <2>3. \A e \in Endpoint : Covered(round, e)
    BY <2>1, SizeAssumption DEF SweepInv, SweptPast, Endpoint
  <2>4. CheckpointCovers'
    BY <1>c, <1>t, <2>1, <2>2, <2>3 DEF SweepInv, CheckpointCovers, Round, Endpoint
  <2>. QED
    BY <2>2, <2>4 DEF SweepInv, SweptPast, Endpoint
<1>5. CASE AfterFinal
  <2>1. /\ ckpt'.round = round /\ round = ckpt.round
        /\ ckpt'.next = final_checkpoint_index
        /\ UNCHANGED <<round, order>> /\ Up /\ Up'
    BY <1>5 DEF AfterFinal, SweepInv, Up
  <2>2. CASE round < Attempts
    <3>1. ckpt'.next = ckpt.next
      BY <1>t, <2>1, <2>2, SizeAssumption DEF final_checkpoint_index
    <3>2. CheckpointCovers'
      BY <1>c, <2>1, <3>1 DEF SweepInv, CheckpointCovers
    <3>3. SweptPast'
      BY <1>c, <1>t, <2>1, <2>2, SizeAssumption
      DEF SweepInv, SweptPast, Round
    <3>. QED
      BY <2>1, <3>1, <3>2, <3>3 DEF SweepInv
  <2>3. CASE round >= Attempts
    <3>1. CheckpointCovers'
      BY <1>c, <1>t, <2>1, <2>3, SizeAssumption
      DEF SweepInv, CheckpointCovers, Round
    <3>. QED
      BY <1>t, <2>1, <2>3, <3>1, SizeAssumption DEF SweepInv, SweptPast
  <2>. QED
    BY <1>t, <2>2, <2>3, SizeAssumption
<1>6. CASE ResumeSendFails \/ SendBatchFails \/ Join \/ JoinFails \/ Crash
  BY <1>6, <1>h, SweepDeath
  DEF ResumeSendFails, SendBatchFails, Join, JoinFails, Crash, fileVars
<1>7. CASE \/ ResumeMark \/ ResumeSend \/ ResumeEnd \/ RoundContinue
           \/ \E e \in Endpoint, s \in TargetState : Receive(e, s)
           \/ ReceiveSend \/ AfterPause \/ SendPoison
  <2>1. UNCHANGED <<ckpt, round, order>> /\ Up
    BY <1>7
    DEF ResumeMark, ResumeSend, ResumeEnd, RoundContinue, Receive,
        ReceiveSend, AfterPause, SendPoison, Up, fileVars
  <2>. QED
    BY <1>h, <2>1, SweepFrame
<1>8. CASE CaptureDrop \/ Stop
  BY <1>8, <1>h, SweepFrame
  DEF CaptureDrop, Stop, CtrlC, TimeoutFlag, TimeoutStop, Up, fileVars,
      scanVars
<1>9. CASE PipeStep \/ PipeAppendFails \/ PipeMarkFails
           \/ \E e \in Endpoint : TaskStep(e) \/ TaskFails(e)
  <2>1. PipeFrame
    BY <1>9
    DEF PipeStep, PipeReap, PipeReapFails, PipeAppend, PipeMark, PipePoll,
        PipeRecv, PipeSpawn, PipeExit, PipeAppendFails, PipeMarkFails,
        PipeFails, TaskStep, TaskReturns, TaskCancelled, TaskFails
  <2>. QED
    BY <1>h, <2>1, SweepFrame DEF PipeFrame, Up, scanVars
<1>10. CASE UNCHANGED vars
  BY <1>h, <1>10, SweepFrame DEF vars, fileVars, scanVars, Up
<1>. QED
  BY <1>1, <1>2, <1>3, <1>4, <1>5, <1>6, <1>7, <1>8, <1>9, <1>10
  DEF Next, ScannerStep, Fault

(* SweepInv holds in every state: the running sweep is never ahead of what *)
(* was probed or has answered (send_rounds, checkpoint).                   *)
THEOREM SweepInductive == Spec => [](TypeInv /\ SweepInv)
<1>1. Init => SweepInv
  BY DEF Init, SweepInv, SweptPast, CheckpointCovers, Up, Round, Endpoint
<1>. QED
  BY <1>1, TypeInductive, SweepStep, PTL DEF Spec

(* checkpoint.json never claims more than was sent, through every stop,    *)
(* send error, pipeline error and crash (send_rounds, finish_scan).        *)
THEOREM CheckpointSound == Spec => []CheckpointCovers
<1>1. SweepInv => CheckpointCovers
  BY DEF SweepInv
<1>. QED
  BY <1>1, SweepInductive, PTL

-----------------------------------------------------------------------------
(* The banner byte and the record.  Between the append and the byte the    *)
(* pipeline holds an endpoint whose record is in the log.                  *)

Recorded == log.lines \cup log.fused

RecordInv ==
    /\ EventBeforeDone
    /\ ppc = "mark" => pcur \in Recorded

(* Dying inside an append loses no record.                                 *)
LEMMA DeathKeepsRecords ==
    ASSUME TypeInv, LogAfterDeath
    PROVE  log'.lines = log.lines /\ Recorded' = Recorded
<1>1. log' = log \/ log' = [log EXCEPT !.torn = TRUE]
  BY DEF LogAfterDeath
<1>2. log \in [lines : SUBSET Endpoint, fused : SUBSET Endpoint,
               torn : BOOLEAN]
  BY DEF TypeInv, TypeOK, FilesOK
<1>. QED
  BY <1>1, <1>2 DEF Recorded

(* append_event adds the endpoint's record and keeps the others.           *)
LEMMA AppendRecords ==
    ASSUME TypeInv, NEW e \in Endpoint, append_event(e)
    PROVE  /\ log.lines \subseteq log'.lines
           /\ Recorded' = Recorded \cup {e}
<1>1. log \in [lines : SUBSET Endpoint, fused : SUBSET Endpoint,
               torn : BOOLEAN]
  BY DEF TypeInv, TypeOK, FilesOK
<1>2. CASE log.torn
  <2>1. /\ log'.lines = log.lines
        /\ log'.fused = log.fused \cup {e}
    BY <1>1, <1>2 DEF append_event
  <2>. QED
    BY <2>1 DEF Recorded
<1>3. CASE ~log.torn
  <2>1. /\ log'.lines = log.lines \cup {e}
        /\ log'.fused = log.fused
    BY <1>1, <1>3 DEF append_event
  <2>. QED
    BY <2>1 DEF Recorded
<1>. QED
  BY <1>2, <1>3

(* What any step may do to the banner bytes and to the log: a done byte is *)
(* added only for the endpoint held between append and mark, none is taken *)
(* back, and no record is lost.                                            *)
BytesKept ==
    /\ Done \subseteq Done'
    /\ Done' \subseteq Done \/ (ppc = "mark" /\ Done' \subseteq Done \cup {pcur})
    /\ log.lines \subseteq log'.lines
    /\ Recorded \subseteq Recorded'

LEMMA BytesStep == TypeInv /\ [Next]_vars => BytesKept
<1>. SUFFICES ASSUME TypeInv, [Next]_vars PROVE BytesKept
  OBVIOUS
<1>t. banner \in [Endpoint -> {"none", "queued", "done"}]
  BY DEF TypeInv, TypeOK, FilesOK
<1>1. CASE ResumeMark
  BY <1>1, <1>t DEF ResumeMark, NeedsBanner, BytesKept, Done, Recorded
<1>2. CASE \E e \in Endpoint, s \in TargetState : Receive(e, s)
  BY <1>2, <1>t DEF Receive, MayEnqueue, BytesKept, Done, Recorded
<1>3. CASE PipeMark
  BY <1>3, <1>t DEF PipeMark, BytesKept, Done, Recorded
<1>4. CASE PipeAppend
  <2>1. pcur \in Endpoint
    BY <1>4 DEF PipeAppend, TypeInv, ControlOK
  <2>. QED
    BY <1>4, <2>1, AppendRecords DEF PipeAppend, BytesKept, Done
<1>5. CASE SendBatchFails \/ PipeAppendFails \/ Crash
  <2>1. LogAfterDeath /\ banner' = banner
    BY <1>5 DEF SendBatchFails, PipeAppendFails, PipeFails, Crash
  <2>. QED
    BY <2>1, DeathKeepsRecords DEF BytesKept, Done
<1>6. CASE \/ Start \/ ResumeSend \/ ResumeSendFails \/ ResumeEnd
           \/ RoundStop \/ RoundContinue \/ RoundEnd \/ SendBatch
           \/ ReceiveSend \/ AfterBatch \/ AfterPause \/ AfterFinal
           \/ SendPoison \/ Join \/ JoinFails \/ CaptureDrop \/ Stop
           \/ UNCHANGED vars
  <2>1. UNCHANGED <<banner, log>>
    BY <1>6
    DEF Start, ResumeSend, ResumeSendFails, ResumeEnd, RoundStop,
        RoundContinue, RoundEnd, SendBatch, ReceiveSend, AfterBatch,
        AfterPause, AfterFinal, SendPoison, Join, JoinFails, CaptureDrop,
        Stop, CtrlC, TimeoutFlag, TimeoutStop, vars, fileVars
  <2>. QED
    BY <2>1 DEF BytesKept, Done, Recorded
<1>7. CASE \/ \E e \in Endpoint : PipeReap(e) \/ PipeReapFails(e)
           \/ PipePoll \/ PipeRecv \/ PipeSpawn \/ PipeExit
           \/ \E e \in Endpoint : TaskStep(e) \/ TaskFails(e)
  <2>1. UNCHANGED <<banner, log>>
    BY <1>7
    DEF PipeReap, PipeReapFails, PipeFails, PipePoll, PipeRecv, PipeSpawn,
        PipeExit, TaskStep, TaskReturns, TaskCancelled, TaskFails
  <2>. QED
    BY <2>1 DEF BytesKept, Done, Recorded
<1>8. CASE PipeMarkFails
  BY <1>8, <1>t DEF PipeMarkFails, BytesKept, Done, Recorded
<1>. QED
  BY <1>1, <1>2, <1>3, <1>4, <1>5, <1>6, <1>7, <1>8
  DEF Next, ScannerStep, PipeStep, Fault

LEMMA RecordStep ==
    ASSUME TypeInv, RecordInv, [Next]_vars
    PROVE  RecordInv'
<1>b. BytesKept
  BY BytesStep
<1>1. EventBeforeDone'
  BY <1>b DEF RecordInv, EventBeforeDone, BytesKept, Recorded
<1>2. CASE PipeAppend
  <2>1. pcur \in Endpoint
    BY <1>2 DEF PipeAppend, TypeInv, ControlOK
  <2>2. pcur' \in Recorded'
    BY <1>2, <2>1, AppendRecords DEF PipeAppend
  <2>. QED
    BY <1>1, <2>2 DEF RecordInv
<1>3. CASE ~PipeAppend
  <2>1. ppc' = "mark" => ppc = "mark" /\ pcur' = pcur
    <3>1. CASE \/ Start \/ ScannerStep \/ SendBatchFails \/ CaptureDrop
               \/ Crash \/ Stop \/ UNCHANGED vars
      <4>1. \/ ppc' \in {"drain", "exited"}
            \/ UNCHANGED <<ppc, pcur>>
        BY <3>1
        DEF Start, ScannerStep, ResumeMark, ResumeSend, ResumeSendFails,
            ResumeEnd, RoundStop, RoundContinue, RoundEnd, SendBatch, Receive,
            ReceiveSend, AfterBatch, AfterPause, AfterFinal, SendPoison, Join,
            JoinFails, SendBatchFails, CaptureDrop, Crash, Stop, CtrlC,
            TimeoutFlag, TimeoutStop, ProcessGone, vars, pipeVars
      <4>. QED
        BY <4>1
    <3>2. CASE \/ PipeStep \/ PipeAppendFails \/ PipeMarkFails
               \/ \E e \in Endpoint : TaskStep(e) \/ TaskFails(e)
      <4>1. \/ ppc' \in {"drain", "recv", "permit", "append", "exited",
                         "failed"}
            \/ UNCHANGED <<ppc, pcur>>
        BY <1>3, <3>2
        DEF PipeStep, PipeReap, PipeReapFails, PipeMark, PipeAppendFails,
            PipeMarkFails, PipeFails, PipePoll, PipeRecv, PipeSpawn, PipeExit, TaskStep, TaskReturns,
            TaskCancelled, TaskFails
      <4>. QED
        BY <4>1
    <3>. QED
      BY <3>1, <3>2 DEF Next, Fault
  <2>. QED
    BY <1>1, <1>b, <2>1 DEF RecordInv, BytesKept
<1>. QED
  BY <1>2, <1>3

(* A done byte in banner_state.bin always has its record in events.ndjson, *)
(* wherever the process or the pipeline died                               *)
(* (drain_completed_banner_tasks).                                         *)
THEOREM DoneIsRecorded == Spec => []EventBeforeDone
<1>1. Init => RecordInv
  BY DEF Init, RecordInv, EventBeforeDone, Done
<1>2. RecordInv => EventBeforeDone
  BY DEF RecordInv
<1>. QED
  BY <1>1, <1>2, TypeInductive, RecordStep, PTL DEF Spec

-----------------------------------------------------------------------------
(* Progress is never lost *)

(* Only the scanner's own saves move the checkpoint, and only forward.     *)
CheckpointForward ==
    \/ ckpt'.round > ckpt.round
    \/ ckpt'.round = ckpt.round /\ ckpt'.next >= ckpt.next

LEMMA CheckpointStep ==
    ASSUME TypeInv, SweepInv, [Next]_vars
    PROVE  CheckpointForward
<1>t. /\ round \in 0 .. Attempts /\ order \in 0 .. N
      /\ ckpt \in [round : 0 .. Attempts, next : 0 .. N, degraded : BOOLEAN]
  BY DEF TypeInv, TypeOK, ScannerOK, FilesOK
<1>1. CASE RoundStop \/ AfterBatch
  <2>1. round < Attempts /\ Up
    BY <1>1 DEF RoundStop, AfterBatch, TypeInv, ControlOK, Up
  <2>2. ckpt' = ckpt \/ (ckpt'.round = round /\ ckpt'.next = order)
    <3>1. ckpt' = ckpt \/ checkpoint(round, order)
      BY <1>1 DEF RoundStop, AfterBatch
    <3>2. CASE checkpoint(round, order)
      BY <1>t, <3>2 DEF checkpoint
    <3>3. CASE ckpt' = ckpt
      BY <3>3
    <3>. QED
      BY <3>1, <3>2, <3>3
  <2>. QED
    BY <1>t, <2>1, <2>2 DEF SweepInv, CheckpointForward
<1>2. CASE RoundEnd
  <2>1. ckpt'.round = ckpt.round + 1
    BY <1>2, <1>t DEF RoundEnd, checkpoint, SweepInv, Up
  <2>. QED
    BY <1>t, <2>1 DEF CheckpointForward
<1>3. CASE AfterFinal
  <2>1. ckpt'.round = ckpt.round /\ ckpt'.next \in {N, ckpt.next}
    BY <1>3 DEF AfterFinal, final_checkpoint_index, SweepInv, Up
  <2>. QED
    BY <1>t, <2>1, SizeAssumption DEF CheckpointForward
<1>4. CASE ckpt' = ckpt
  BY <1>t, <1>4 DEF CheckpointForward
<1>5. ~(RoundStop \/ AfterBatch \/ RoundEnd \/ AfterFinal) => ckpt' = ckpt
  <2>1. CASE \/ Start \/ SendBatchFails \/ CaptureDrop \/ Crash \/ Stop
             \/ UNCHANGED vars
    BY <2>1
    DEF Start, SendBatchFails, CaptureDrop, Crash, Stop, CtrlC, TimeoutFlag,
        TimeoutStop, vars, fileVars
  <2>2. CASE ScannerStep
    BY <2>2
    DEF ScannerStep, ResumeMark, ResumeSend, ResumeSendFails, ResumeEnd,
        RoundContinue, SendBatch, Receive, ReceiveSend, AfterPause,
        SendPoison, Join, JoinFails, fileVars
  <2>3. CASE \/ PipeStep \/ PipeAppendFails \/ PipeMarkFails
             \/ \E e \in Endpoint : TaskStep(e) \/ TaskFails(e)
    BY <2>3
    DEF PipeStep, PipeReap, PipeReapFails, PipeAppend, PipeMark, PipePoll,
        PipeRecv, PipeSpawn, PipeExit, PipeAppendFails, PipeMarkFails,
        PipeFails, TaskStep, TaskReturns, TaskCancelled, TaskFails, PipeFrame
  <2>. QED
    BY <2>1, <2>2, <2>3 DEF Next, Fault
<1>. QED
  BY <1>1, <1>2, <1>3, <1>4, <1>5

LEMMA RanksRise ==
    ASSUME TypeInv, TypeInv', HistoryKept
    PROVE  \A e \in Endpoint : rank(states'[e]) >= rank(states[e])
<1>. SUFFICES ASSUME NEW e \in Endpoint
              PROVE  rank(states'[e]) >= rank(states[e])
  OBVIOUS
<1>1. rank(states[e]) \in 0 .. 3 /\ rank(states'[e]) \in 0 .. 3
  BY RankType DEF TypeInv, TypeOK, FilesOK
<1>. QED
  BY <1>1 DEF HistoryKept

(* No step of any thread, no crash and no resume loses progress: ranks     *)
(* rise, done banners stay done, records stay, the checkpoint never moves  *)
(* back.                                                                   *)
THEOREM ProgressIsKept == Spec => ProgressKept
<1>1. ASSUME TypeInv, TypeInv', SweepInv, [Next]_vars
      PROVE  [/\ \A e \in Endpoint : rank(states'[e]) >= rank(states[e])
              /\ Done \subseteq Done'
              /\ log.lines \subseteq log'.lines
              /\ \/ ckpt'.round > ckpt.round
                 \/ ckpt'.round = ckpt.round /\ ckpt'.next >= ckpt.next]_vars
  <2>1. \A e \in Endpoint : rank(states'[e]) >= rank(states[e])
    BY <1>1, HistoryStep, RanksRise
  <2>2. Done \subseteq Done' /\ log.lines \subseteq log'.lines
    BY <1>1, BytesStep DEF BytesKept
  <2>3. CheckpointForward
    BY <1>1, CheckpointStep
  <2>. QED
    BY <2>1, <2>2, <2>3 DEF CheckpointForward
<1>. QED
  BY <1>1, SweepInductive, PTL DEF Spec, ProgressKept

-----------------------------------------------------------------------------
(* Sweep, the abstract specification of a scan's progress *)

LEMMA SweepBegins == Init => Progress!SweepInit
<1>. SUFFICES ASSUME Init PROVE Progress!SweepInit
  OBVIOUS
<1>1. Dealt = {}
  BY DEF Init, Dealt, Covered, Round, Endpoint
<1>. QED
  BY <1>1 DEF Progress!SweepInit, Init

(* What was dealt with stays so. *)
LEMMA DealtStays ==
    ASSUME TypeInv, TypeInv', HistoryKept
    PROVE  Dealt \subseteq Dealt'
<1>1. probed \subseteq probed'
  BY DEF HistoryKept
<1>2. ASSUME NEW e \in Endpoint, states[e] # "no_response"
      PROVE  states'[e] # "no_response"
  <2>1. states[e] \in TargetState /\ states'[e] \in TargetState
    BY DEF TypeInv, TypeOK, FilesOK
  <2>2. states'[e] = states[e] \/ rank(states'[e]) > rank(states[e])
    BY DEF HistoryKept
  <2>3. rank("no_response") = 0 /\ rank(states[e]) \in 0 .. 3
    BY <2>1, RankType DEF rank
  <2>. QED
    BY <1>2, <2>2, <2>3
<1>. QED
  BY <1>1, <1>2 DEF Dealt, Covered

LEMMA SweepAdvances ==
    ASSUME TypeInv, TypeInv', SweepInv, SweepInv', [Next]_vars
    PROVE  Progress!SweepNext
<1>1. Dealt \subseteq Dealt'
  BY HistoryStep, DealtStays
<1>2. [round |-> ckpt'.round, next |-> ckpt'.next] \in Progress!Position
  BY DEF TypeInv, TypeOK, FilesOK, Progress!Position
<1>3. Progress!NotBefore([round |-> ckpt'.round, next |-> ckpt'.next],
                         [round |-> ckpt.round, next |-> ckpt.next])
  BY CheckpointStep DEF CheckpointForward, Progress!NotBefore
<1>4. Progress!Covers([round |-> ckpt'.round, next |-> ckpt'.next], Dealt')
  BY DEF SweepInv, CheckpointCovers, Dealt, Progress!Covers, Progress!Pair,
         Progress!Passed, Round, Endpoint
<1>. QED
  BY <1>1, <1>2, <1>3, <1>4 DEF Progress!SweepNext

(* A live scan, over all its runs, does what Sweep promises: a position    *)
(* once saved is never lost, and what lies behind it was dealt with        *)
(* (send_rounds, checkpoint, finish_scan).                                 *)
THEOREM ScanImplementsSweep == Spec => ImplementsSweep
<1>1. TypeInv /\ SweepInv /\ (TypeInv /\ SweepInv)' /\ [Next]_vars
        => Progress!SweepNext
  BY SweepAdvances
<1>. QED
  BY <1>1, SweepBegins, SweepInductive, PTL
  DEF Spec, ImplementsSweep, Progress!SweepSpec

-----------------------------------------------------------------------------
(* No SYN is repeated.  Where the run's position is the saved one, or is   *)
(* about to be handed to a later run, the checkpoint is not behind it;     *)
(* every probe sent lies behind the position the sweep goes on from.       *)

Settled ==
    \/ pc \in {"resume", "resume_send", "poison", "join"}
    \/ pc \in {"receive", "receive_send"} /\ ret = "final"

Behind(r, n) == \A p \in probed : p[1] < r \/ (p[1] = r /\ p[2] < n)

FrontInv ==
    /\ Settled => order <= ckpt.next
    /\ faults = 0 =>
         /\ resent = {}
         /\ Up => Behind(round, order)
         /\ ~Up => Behind(ckpt.round, ckpt.next)

(* Dying with the position saved leaves every probe behind the checkpoint. *)
LEMMA FrontDeath ==
    ASSUME TypeInv, SweepInv, FrontInv, Settled, ProcessGone,
           UNCHANGED <<ckpt, probed, resent, faults>>
    PROVE  FrontInv'
<1>t. /\ round \in 0 .. Attempts /\ order \in 0 .. N
      /\ ckpt \in [round : 0 .. Attempts, next : 0 .. N, degraded : BOOLEAN]
      /\ probed \subseteq Round \X Endpoint
  BY DEF TypeInv, TypeOK, ScannerOK, FilesOK, HistoryOK
<1>1. Up /\ ~Up' /\ ~Settled'
  BY DEF Settled, ProcessGone, Up
<1>2. round = ckpt.round /\ order <= ckpt.next
  BY <1>1 DEF SweepInv, FrontInv
<1>3. Behind(round, order) => Behind(ckpt.round, ckpt.next)
  BY <1>t, <1>2 DEF Behind, Round, Endpoint
<1>4. UNCHANGED Behind(ckpt.round, ckpt.next)
  BY DEF Behind
<1>. QED
  BY <1>1, <1>3, <1>4 DEF FrontInv

(* A step that moves neither the position nor the checkpoint.              *)
LEMMA FrontFrame ==
    ASSUME FrontInv, UNCHANGED <<ckpt, round, order, probed, resent>>,
           faults' = 0 => faults = 0, Up' = Up, Settled' => Settled
    PROVE  FrontInv'
<1>1. /\ Behind(round, order)' = Behind(round, order)
      /\ Behind(ckpt.round, ckpt.next)' = Behind(ckpt.round, ckpt.next)
  BY DEF Behind
<1>. QED
  BY <1>1 DEF FrontInv

LEMMA FrontStep ==
    ASSUME TypeInv, SweepInv, FrontInv, [Next]_vars
    PROVE  FrontInv'
<1>t. /\ round \in 0 .. Attempts /\ order \in 0 .. N
      /\ ckpt \in [round : 0 .. Attempts, next : 0 .. N, degraded : BOOLEAN]
      /\ probed \subseteq Round \X Endpoint
      /\ faults \in Nat
  BY BoundAssumption DEF TypeInv, TypeOK, ScannerOK, FilesOK, HistoryOK
<1>1. CASE Start
  <2>1. /\ UNCHANGED <<ckpt, probed, resent, faults>>
        /\ round' = ckpt.round /\ order' = ckpt.next
        /\ ~Up /\ Up'
    BY <1>1 DEF Start, Up, fileVars, histVars, boundVars
  <2>2. Behind(round, order)' = Behind(ckpt.round, ckpt.next)
    BY <2>1 DEF Behind
  <2>. QED
    BY <1>t, <2>1, <2>2 DEF FrontInv
<1>2. CASE SendBatch
  <2>1. PICK m \in order .. N : ProbesSent(BatchOf(m)) /\ order' = m
    BY <1>2 DEF SendBatch
  <2>2. /\ UNCHANGED <<ckpt, round, faults>> /\ Up /\ Up' /\ ~Settled'
    BY <1>2 DEF SendBatch, Up, Settled, fileVars, boundVars
  <2>3. \A p \in {round} \X BatchOf(m) : p[1] = round /\ p[2] \in order .. m - 1
    BY DEF BatchOf
  <2>4. ASSUME Behind(round, order)
        PROVE  Behind(round, order)'
    <3>1. probed' = probed \cup ({round} \X BatchOf(m))
      BY <2>1 DEF ProbesSent
    <3>2. \A p \in probed : p[1] < round \/ (p[1] = round /\ p[2] < m)
      BY <1>t, <2>4 DEF Behind, Endpoint
    <3>3. \A p \in {round} \X BatchOf(m) : p[1] = round /\ p[2] < m
      BY <1>t, <2>3
    <3>. QED
      BY <2>1, <2>2, <3>1, <3>2, <3>3 DEF Behind
  <2>5. ASSUME Behind(round, order), resent = {}
        PROVE  resent' = {}
    <3>1. ({round} \X BatchOf(m)) \cap probed = {}
      BY <1>t, <2>3, <2>5 DEF Behind
    <3>. QED
      BY <2>1, <2>5, <3>1 DEF ProbesSent
  <2>. QED
    BY <2>2, <2>4, <2>5 DEF FrontInv
<1>3. CASE RoundStop \/ AfterBatch
  <2>1. /\ UNCHANGED <<round, order, probed, resent, faults>> /\ Up /\ Up'
    BY <1>3 DEF RoundStop, AfterBatch, Up, histVars, boundVars
  <2>2. Behind(round, order)' = Behind(round, order)
    BY <2>1 DEF Behind
  <2>3. Settled' => ckpt'.next = order
    BY <1>3, <1>t DEF RoundStop, AfterBatch, checkpoint, Settled
  <2>. QED
    BY <1>t, <2>1, <2>2, <2>3 DEF FrontInv
<1>4. CASE RoundEnd
  <2>1. /\ UNCHANGED <<probed, resent, faults>> /\ Up /\ Up'
        /\ round' = round + 1 /\ order' = 0 /\ ckpt'.next = 0
    BY <1>4, <1>t DEF RoundEnd, checkpoint, Up, histVars, boundVars
  <2>2. Behind(round, order) => Behind(round, order)'
    BY <1>t, <2>1 DEF Behind, Round
  <2>. QED
    BY <1>t, <2>1, <2>2 DEF FrontInv
<1>5. CASE AfterFinal
  <2>1. /\ UNCHANGED <<round, order, probed, resent, faults>> /\ Up /\ Up'
        /\ Settled
    BY <1>5 DEF AfterFinal, Up, Settled, histVars, boundVars
  <2>2. Behind(round, order)' = Behind(round, order)
    BY <2>1 DEF Behind
  <2>3. ckpt'.next = final_checkpoint_index
    BY <1>5 DEF AfterFinal
  <2>4. order <= final_checkpoint_index
    BY <1>t, <2>1, SizeAssumption DEF final_checkpoint_index, FrontInv
  <2>. QED
    BY <2>1, <2>2, <2>3, <2>4 DEF FrontInv
<1>6. CASE ResumeSendFails \/ Join \/ JoinFails
  <2>1. Settled /\ ProcessGone /\ UNCHANGED <<ckpt, probed, resent, faults>>
    BY <1>6
    DEF ResumeSendFails, Join, JoinFails, Settled, fileVars, histVars,
        boundVars
  <2>. QED
    BY <2>1, FrontDeath
<1>7. CASE SendBatchFails \/ Crash
  <2>1. faults' # 0 /\ ~Settled'
    BY <1>7, <1>t DEF SendBatchFails, Crash, ProcessGone, Settled
  <2>. QED
    BY <2>1 DEF FrontInv
<1>8. CASE ResumeEnd
  <2>1. Settled /\ UNCHANGED <<ckpt, round, order, probed, resent, faults>>
        /\ Up /\ Up'
    BY <1>8 DEF ResumeEnd, Settled, Up, fileVars, histVars, boundVars
  <2>. QED
    BY <2>1, FrontFrame
<1>9. CASE \/ ResumeMark \/ ResumeSend \/ RoundContinue
           \/ \E e \in Endpoint, s \in TargetState : Receive(e, s)
           \/ ReceiveSend \/ AfterPause \/ SendPoison
  <2>1. /\ UNCHANGED <<ckpt, round, order, probed, resent, faults>>
        /\ Up /\ Up'
    BY <1>9
    DEF ResumeMark, ResumeSend, RoundContinue, Receive, ReceiveSend,
        AfterPause, SendPoison, Up, fileVars, histVars, boundVars
  <2>2. Settled' => Settled
    BY <1>9
    DEF ResumeMark, ResumeSend, RoundContinue, Receive, ReceiveSend,
        AfterPause, SendPoison, Settled
  <2>. QED
    BY <2>1, <2>2, FrontFrame
<1>10. CASE CaptureDrop \/ Stop \/ UNCHANGED vars
  BY <1>10, FrontFrame
  DEF CaptureDrop, Stop, CtrlC, TimeoutFlag, TimeoutStop, Up, Settled, vars,
      fileVars, scanVars, histVars, boundVars
<1>11. CASE PipeStep \/ PipeAppendFails \/ PipeMarkFails
            \/ \E e \in Endpoint : TaskStep(e) \/ TaskFails(e)
  <2>1. PipeFrame /\ faults' \in {faults, faults + 1}
    BY <1>11
    DEF PipeStep, PipeReap, PipeReapFails, PipeAppend, PipeMark, PipePoll,
        PipeRecv, PipeSpawn, PipeExit, PipeAppendFails, PipeMarkFails,
        PipeFails, TaskStep, TaskReturns, TaskCancelled, TaskFails
  <2>. QED
    BY <1>t, <2>1, FrontFrame DEF PipeFrame, Up, Settled, scanVars, histVars
<1>. QED
  BY <1>1, <1>2, <1>3, <1>4, <1>5, <1>6, <1>7, <1>8, <1>9, <1>10, <1>11
  DEF Next, ScannerStep, Fault

(* A job that only ever stops in the way send_rounds and finish_scan       *)
(* foresee never sends a SYN of a round twice, however often it is stopped *)
(* and resumed and wherever in a round the stop met it.                    *)
THEOREM ProbesAreNotRepeated == Spec => []ProbedOnce
<1>1. Init => FrontInv
  BY SizeAssumption DEF Init, FrontInv, Settled, Behind, Up
<1>2. FrontInv => ProbedOnce
  BY DEF FrontInv, ProbedOnce
<1>. QED
  BY <1>1, <1>2, SweepInductive, FrontStep, PTL DEF Spec

-----------------------------------------------------------------------------
(* A drop is in the checkpoint, or still in the counters of this run's     *)
(* capture, unless a run ended before it read them.                        *)
DropInv ==
    /\ CountersTaken /\ drops => ckpt.degraded
    /\ dropped > 0 /\ ~early => ckpt.degraded \/ (Up /\ drops)

LEMMA DropStep ==
    ASSUME TypeInv, DropInv, [Next]_vars
    PROVE  DropInv'
<1>t. /\ ckpt \in [round : 0 .. Attempts, next : 0 .. N, degraded : BOOLEAN]
      /\ dropped \in Nat
  BY BoundAssumption DEF TypeInv, TypeOK, FilesOK, HistoryOK
<1>1. CASE Start
  BY <1>1 DEF Start, DropInv, CountersTaken, Up, fileVars, histVars
<1>2. CASE RoundStop \/ AfterBatch \/ RoundEnd
  <2>1. ckpt'.degraded = ckpt.degraded
    BY <1>2, <1>t DEF RoundStop, AfterBatch, RoundEnd, checkpoint
  <2>2. UNCHANGED <<drops, dropped, early>> /\ Up /\ Up' /\ ~CountersTaken'
    BY <1>2
    DEF RoundStop, AfterBatch, RoundEnd, Up, CountersTaken, flagVars, histVars
  <2>. QED
    BY <2>1, <2>2 DEF DropInv
<1>3. CASE AfterFinal
  <2>1. ckpt'.degraded = (ckpt.degraded \/ drops)
    BY <1>3 DEF AfterFinal
  <2>2. UNCHANGED <<drops, dropped, early>> /\ Up
    BY <1>3 DEF AfterFinal, Up, flagVars, histVars
  <2>. QED
    BY <2>1, <2>2 DEF DropInv
<1>4. CASE CaptureDrop
  BY <1>4 DEF CaptureDrop, DropInv, CountersTaken, Up, fileVars, scanVars
<1>5. CASE ResumeSendFails \/ SendBatchFails
  <2>1. early' /\ ~CountersTaken'
    BY <1>5 DEF ResumeSendFails, SendBatchFails, ProcessGone, CountersTaken
  <2>. QED
    BY <2>1 DEF DropInv
<1>6. CASE Crash
  <2>1. ~CountersTaken' /\ UNCHANGED <<ckpt, dropped>>
        /\ early' = (early \/ ~CountersTaken)
    BY <1>6 DEF Crash, ProcessGone, CountersTaken
  <2>. QED
    BY <2>1 DEF DropInv
<1>7. CASE Join \/ JoinFails
  <2>1. /\ CountersTaken /\ ~CountersTaken'
        /\ UNCHANGED <<ckpt, dropped, early>>
    BY <1>7
    DEF Join, JoinFails, ProcessGone, CountersTaken, fileVars, histVars
  <2>. QED
    BY <2>1 DEF DropInv
<1>8. CASE \/ ResumeMark \/ ResumeSend \/ ResumeEnd \/ RoundContinue
           \/ SendBatch
           \/ \E e \in Endpoint, s \in TargetState : Receive(e, s)
           \/ ReceiveSend \/ AfterPause \/ SendPoison
  <2>1. /\ UNCHANGED <<ckpt, drops, dropped, early>> /\ Up /\ Up'
        /\ CountersTaken' => CountersTaken
    BY <1>8
    DEF ResumeMark, ResumeSend, ResumeEnd, RoundContinue, SendBatch, Receive,
        ReceiveSend, AfterPause, SendPoison, Up, CountersTaken, fileVars,
        flagVars, histVars
  <2>. QED
    BY <2>1 DEF DropInv
<1>9. CASE Stop \/ UNCHANGED vars
  BY <1>9
  DEF Stop, CtrlC, TimeoutFlag, TimeoutStop, DropInv, CountersTaken, Up, vars,
      fileVars, scanVars, flagVars, histVars
<1>10. CASE PipeStep \/ PipeAppendFails \/ PipeMarkFails
            \/ \E e \in Endpoint : TaskStep(e) \/ TaskFails(e)
  <2>1. PipeFrame
    BY <1>10
    DEF PipeStep, PipeReap, PipeReapFails, PipeAppend, PipeMark, PipePoll,
        PipeRecv, PipeSpawn, PipeExit, PipeAppendFails, PipeMarkFails,
        PipeFails, TaskStep, TaskReturns, TaskCancelled, TaskFails
  <2>. QED
    BY <2>1
    DEF PipeFrame, DropInv, CountersTaken, Up, scanVars, flagVars, histVars
<1>. QED
  BY <1>1, <1>2, <1>3, <1>4, <1>5, <1>6, <1>7, <1>8, <1>9, <1>10
  DEF Next, ScannerStep, Fault

(* DropInv holds in every state (finish_scan adds the capture's counters   *)
(* to the checkpoint and never takes the mark back).                       *)
THEOREM DropsInductive == Spec => [](TypeInv /\ DropInv)
<1>1. Init => DropInv
  BY DEF Init, DropInv, CountersTaken
<1>. QED
  BY <1>1, TypeInductive, DropStep, PTL DEF Spec

(* A job one of whose runs lost packets refuses the full export for ever,  *)
(* unless a run ended before finish_scan could ask for the counters.       *)
THEOREM DropsAreRemembered == Spec => []DropsRemembered
<1>1. TypeInv /\ DropInv => DropsRemembered
  BY BoundAssumption
  DEF TypeInv, TypeOK, HistoryOK, DropInv, DropsRemembered, ExportAllAllowed,
      Up
<1>. QED
  BY <1>1, DropsInductive, PTL

-----------------------------------------------------------------------------
(* The places of a banner.  An endpoint on its way to an inspection is     *)
(* blocked in a send, in the channel, held by the pipeline or in a task.   *)

(* The targets in the channel *)
Queued == {queue[i] : i \in 1 .. Len(queue)}

Sending(e) == pc \in {"resume_send", "receive_send"} /\ cur = e

Distinct == \A i, j \in 1 .. Len(queue) : queue[i] = queue[j] => i = j

(* No target is in the channel twice, and None is the last to be sent. *)
QueueInv ==
    /\ Distinct
    /\ \A i \in 1 .. Len(queue) :
           queue[i] = None => i = Len(queue) /\ pc = "join"

(* What the pipeline's place in its loop says of its registers. *)
PipeInv ==
    /\ ppc \in {"drain", "recv", "exited", "failed"} => pcur = None
    /\ ReceiverGone => queue = <<>> /\ \A e \in Endpoint : task[e] = "idle"
    /\ ~Up => ppc = "exited"
    /\ Up /\ ppc = "exited" => phase # "serving"
    /\ phase = "closing" => queue = <<>> /\ pc = "join"
    /\ phase = "aborting" => stopping

(* The four places of an endpoint exclude each other. *)
Apart(e) ==
    /\ e \in Queued => ~Sending(e) /\ pcur # e /\ task[e] = "idle"
    /\ Sending(e) => pcur # e /\ task[e] = "idle"
    /\ pcur = e => task[e] = "idle"

InPlace(e) == e \in Queued \/ Sending(e) \/ pcur = e \/ task[e] # "idle"

ByteInv(e) ==
    /\ InPlace(e) => banner[e] = "queued"
    /\ banner[e] # "none" => states[e] = "open"

(* The targets the resume has still to visit are nowhere yet. *)
Unvisited(e) ==
    AwaitsResume(e) => e \notin Queued /\ pcur # e /\ task[e] = "idle"

OnItsWay(e) ==
    Up /\ ppc # "failed" /\ phase # "aborting" =>
        (e \in Open \ Done /\ ~AwaitsResume(e) => InPlace(e))

PlaceOf(e) == Apart(e) /\ ByteInv(e) /\ Unvisited(e) /\ OnItsWay(e)

PlaceInv == QueueInv /\ PipeInv /\ \A e \in Endpoint : PlaceOf(e)

(* What send does to the channel's contents *)
LEMMA AppendQueued ==
    ASSUME QueueOK, NEW m \in Endpoint \cup {None}, queue' = Append(queue, m)
    PROVE  /\ Queued' = Queued \cup {m}
           /\ Distinct /\ m \notin Queued => Distinct'
<1>1. /\ queue \in Seq(Endpoint \cup {None})
      /\ Len(queue) \in Nat
      /\ Len(queue') = Len(queue) + 1
      /\ \A i \in 1 .. Len(queue) : queue'[i] = queue[i]
      /\ queue'[Len(queue) + 1] = m
  BY AppendProperties DEF QueueOK
<1>2. Queued' = Queued \cup {m}
  <2>1. ASSUME NEW i \in 1 .. Len(queue')
        PROVE  queue'[i] \in Queued \cup {m}
    BY <1>1 DEF Queued
  <2>2. ASSUME NEW i \in 1 .. Len(queue)
        PROVE  queue[i] \in Queued'
    <3>1. i \in 1 .. Len(queue') /\ queue'[i] = queue[i]
      BY <1>1
    <3>. QED
      BY <3>1 DEF Queued
  <2>3. m \in Queued'
    <3>1. Len(queue) + 1 \in 1 .. Len(queue')
      BY <1>1
    <3>. QED
      BY <1>1, <3>1 DEF Queued
  <2>. QED
    BY <2>1, <2>2, <2>3 DEF Queued
<1>3. ASSUME Distinct, m \notin Queued,
             NEW i \in 1 .. Len(queue'), NEW j \in 1 .. Len(queue'),
             queue'[i] = queue'[j]
      PROVE  i = j
  <2>1. \A k \in 1 .. Len(queue) : queue[k] # m
    BY <1>3 DEF Queued
  <2>. QED
    BY <1>1, <1>3, <2>1 DEF Distinct
<1>. QED
  BY <1>2, <1>3 DEF Distinct

(* What recv does to the channel's contents *)
LEMMA TailQueued ==
    ASSUME QueueOK, Distinct, queue # <<>>, queue' = Tail(queue)
    PROVE  /\ Head(queue) \in Queued
           /\ Queued' = Queued \ {Head(queue)}
           /\ Distinct'
<1>1. /\ queue \in Seq(Endpoint \cup {None})
      /\ Len(queue) \in Nat /\ Len(queue) > 0
      /\ Head(queue) = queue[1]
      /\ Len(queue') = Len(queue) - 1
      /\ \A i \in 1 .. Len(queue') : queue'[i] = queue[i + 1]
  BY HeadTailProperties DEF QueueOK
<1>2. Head(queue) \in Queued
  BY <1>1 DEF Queued
<1>3. ASSUME NEW i \in 1 .. Len(queue')
      PROVE  queue'[i] \in Queued \ {Head(queue)}
  <2>1. i + 1 \in 1 .. Len(queue) /\ i + 1 # 1 /\ 1 \in 1 .. Len(queue)
    BY <1>1
  <2>. QED
    BY <1>1, <2>1 DEF Distinct, Queued
<1>4. ASSUME NEW i \in 1 .. Len(queue), queue[i] # Head(queue)
      PROVE  queue[i] \in Queued'
  <2>1. i - 1 \in 1 .. Len(queue') /\ queue'[i - 1] = queue[i]
    BY <1>1, <1>4
  <2>. QED
    BY <2>1 DEF Queued
<1>5. Distinct'
  <2>. SUFFICES ASSUME NEW i \in 1 .. Len(queue'), NEW j \in 1 .. Len(queue'),
                       queue'[i] = queue'[j]
                PROVE  i = j
    BY DEF Distinct
  <2>1. i + 1 \in 1 .. Len(queue) /\ j + 1 \in 1 .. Len(queue)
    BY <1>1
  <2>2. i + 1 = j + 1
    BY <1>1, <2>1 DEF Distinct
  <2>. QED
    BY <2>2
<1>6. Queued' = Queued \ {Head(queue)}
  BY <1>3, <1>4 DEF Queued
<1>. QED
  BY <1>2, <1>5, <1>6

LEMMA EmptyQueued ==
    /\ queue = <<>> => Queued = {}
    /\ queue' = <<>> => Queued' = {} /\ QueueInv'
  BY DEF Queued, QueueInv, Distinct

(* None in the channel means the scanner is waiting in join. *)
LEMMA NoneQueued ==
    ASSUME QueueInv, None \in Queued
    PROVE  pc = "join"
  BY DEF QueueInv, Queued

(* A step that moves no target; the scanner may go on to another line.     *)
LEMMA PlaceFrame ==
    ASSUME PlaceInv, UNCHANGED <<queue, pipeVars, banner, states>>,
           Up' = Up, pc = "join" => pc' = "join", stopping => stopping',
           \A e \in Endpoint : /\ Sending(e)' = Sending(e)
                               /\ AwaitsResume(e)' = AwaitsResume(e)
    PROVE  PlaceInv'
<1>1. QueueInv'
  BY DEF PlaceInv, QueueInv, Distinct
<1>2. PipeInv'
  BY DEF PlaceInv, PipeInv, ReceiverGone, pipeVars
<1>3. ASSUME NEW e \in Endpoint
      PROVE  PlaceOf(e)'
  <2>1. /\ (e \in Queued)' = (e \in Queued)
        /\ (e \in Open \ Done)' = (e \in Open \ Done)
        /\ UNCHANGED <<ppc, phase, pcur, task>>
    BY DEF Queued, Open, Done, pipeVars
  <2>. QED
    BY <1>3, <2>1
    DEF PlaceInv, PlaceOf, Apart, ByteInv, InPlace, Unvisited, OnItsWay
<1>. QED
  BY <1>1, <1>2, <1>3 DEF PlaceInv

(* No thread, no channel: nothing is on its way.                           *)
LEMMA PlaceClear ==
    ASSUME PlaceInv, UNCHANGED <<banner, states>>,
           queue' = <<>>, pcur' = None, task' = [e \in Endpoint |-> "idle"],
           phase' = "serving",
           \A e \in Endpoint : ~Sending(e)',
           \/ ~Up' /\ ppc' = "exited"
           \/ Up' /\ ppc' = "drain" /\ pc' = "resume" /\ cur' = 0
    PROVE  PlaceInv'
<1>1. QueueInv' /\ Queued' = {}
  BY EmptyQueued
<1>2. PipeInv'
  BY DEF PipeInv, ReceiverGone
<1>3. ASSUME NEW e \in Endpoint
      PROVE  PlaceOf(e)'
  <2>1. pcur' # e /\ task'[e] = "idle" /\ e \notin Queued' /\ ~Sending(e)'
    BY <1>1, NoneAssumption
  <2>2. Apart(e)' /\ Unvisited(e)' /\ ByteInv(e)'
    BY <2>1 DEF PlaceInv, PlaceOf, Apart, Unvisited, ByteInv, InPlace
  <2>3. Up' => AwaitsResume(e)'
    BY DEF AwaitsResume, Endpoint, Up
  <2>. QED
    BY <2>2, <2>3 DEF PlaceOf, OnItsWay
<1>. QED
  BY <1>1, <1>2, <1>3 DEF PlaceInv

(* The byte is set: the target is in the scanner's hands.                  *)
LEMMA PlaceMark ==
    ASSUME TypeInv, PlaceInv,
           \/ ResumeMark
           \/ \E e \in Endpoint, s \in TargetState : Receive(e, s)
    PROVE  PlaceInv'
<1>t. /\ banner \in [Endpoint -> {"none", "queued", "done"}]
      /\ states \in [Endpoint -> TargetState]
  BY DEF TypeInv, TypeOK, FilesOK
<1>q. /\ UNCHANGED <<queue, pipeVars, stopping>> /\ Queued' = Queued
      /\ pc \in {"resume", "receive"} /\ Up /\ Up' /\ pc' # "join"
      /\ \A e \in Endpoint : ~Sending(e)
  BY DEF ResumeMark, Receive, Queued, flagVars, Up, Sending
<1>1. QueueInv'
  BY <1>q DEF PlaceInv, QueueInv, Distinct
<1>2. PipeInv'
  BY <1>q DEF PlaceInv, PipeInv, ReceiverGone, pipeVars
<1>3. CASE ResumeMark
  <2>. SUFFICES ASSUME NEW e \in Endpoint PROVE PlaceOf(e)'
    BY <1>1, <1>2 DEF PlaceInv
  <2>1. /\ pc = "resume" /\ cur \in Endpoint /\ states' = states
        /\ UNCHANGED <<ppc, phase, pcur, task>>
        /\ PlaceOf(e) /\ Queued' = Queued /\ ~Sending(e)
    BY <1>3, <1>q DEF ResumeMark, pipeVars, PlaceInv
  <2>2. CASE NeedsBanner(cur)
    <3>1. /\ banner' = [banner EXCEPT ![cur] = "queued"]
          /\ pc' = "resume_send" /\ cur' = cur
      BY <1>3, <2>2 DEF ResumeMark
    <3>2. AwaitsResume(e)' = AwaitsResume(e) /\ (Sending(e)' <=> e = cur)
          /\ AwaitsResume(cur)
      BY <2>1, <3>1 DEF AwaitsResume, Sending, Endpoint
    <3>3. e = cur => e \notin Queued /\ pcur # e /\ task[e] = "idle"
      BY <2>1, <3>2 DEF PlaceOf, Unvisited
    <3>4. Apart(e)' /\ Unvisited(e)'
      BY <2>1, <3>2, <3>3 DEF PlaceOf, Apart, Unvisited
    <3>5. ByteInv(e)'
      BY <1>t, <2>1, <2>2, <3>1, <3>2, <3>3
      DEF PlaceOf, ByteInv, InPlace, NeedsBanner
    <3>6. e # cur => (e \in Open \ Done)' = (e \in Open \ Done)
      BY <1>t, <2>1, <3>1 DEF Open, Done
    <3>7. OnItsWay(e)'
      BY <1>q, <2>1, <3>2, <3>6 DEF PlaceOf, OnItsWay, InPlace
    <3>. QED
      BY <3>4, <3>5, <3>7 DEF PlaceOf
  <2>3. CASE ~NeedsBanner(cur)
    <3>1. banner' = banner /\ pc' = pc /\ cur' = cur + 1
      BY <1>3, <2>3 DEF ResumeMark
    <3>2. /\ ~Sending(e)' /\ (AwaitsResume(e)' => AwaitsResume(e))
          /\ e # cur => AwaitsResume(e)' = AwaitsResume(e)
      BY <2>1, <3>1 DEF AwaitsResume, Sending, Endpoint
    <3>3. Apart(e)' /\ Unvisited(e)' /\ ByteInv(e)'
      BY <2>1, <3>1, <3>2
      DEF PlaceOf, Apart, Unvisited, ByteInv, InPlace
    <3>4. (e \in Open \ Done)' = (e \in Open \ Done)
      BY <2>1, <3>1 DEF Open, Done
    <3>5. e = cur => e \notin Open \ Done
      BY <2>3 DEF NeedsBanner, Open, Done
    <3>6. OnItsWay(e)'
      BY <1>q, <2>1, <3>2, <3>4, <3>5 DEF PlaceOf, OnItsWay, InPlace
    <3>. QED
      BY <3>3, <3>6 DEF PlaceOf
  <2>. QED
    BY <2>2, <2>3
<1>4. ASSUME NEW f \in Endpoint, NEW s \in TargetState, Receive(f, s)
      PROVE  PlaceInv'
  <2>. SUFFICES ASSUME NEW e \in Endpoint PROVE PlaceOf(e)'
    BY <1>1, <1>2 DEF PlaceInv
  <2>1. /\ pc = "receive" /\ pc' \in {"receive", "receive_send"}
        /\ states' = [states EXCEPT ![f] = IF Upgraded(f, s) THEN s ELSE @]
        /\ UNCHANGED <<ppc, phase, pcur, task>>
        /\ PlaceOf(e) /\ Queued' = Queued /\ ~Sending(e)
    BY <1>4, <1>q DEF Receive, pipeVars, PlaceInv
  <2>2. ~AwaitsResume(e) /\ ~AwaitsResume(e)'
    BY <2>1 DEF AwaitsResume
  <2>3. states[e] = "open" => states'[e] = "open"
    BY <1>t, <2>1 DEF Upgraded, rank, TargetState
  <2>4. CASE MayEnqueue(f, s)
    <3>1. /\ banner' = [banner EXCEPT ![f] = "queued"]
          /\ pc' = "receive_send" /\ cur' = f
          /\ banner[f] = "none" /\ states'[f] = "open"
      BY <1>4, <1>t, <2>1, <2>4 DEF Receive, MayEnqueue
    <3>2. Sending(e)' <=> e = f
      BY <3>1 DEF Sending
    <3>3. e = f => ~InPlace(e)
      BY <2>1, <3>1 DEF PlaceOf, ByteInv
    <3>4. Apart(e)' /\ Unvisited(e)'
      BY <2>1, <2>2, <3>2, <3>3 DEF PlaceOf, Apart, Unvisited, InPlace
    <3>5. ByteInv(e)'
      BY <1>t, <2>1, <2>3, <3>1, <3>2, <3>3 DEF PlaceOf, ByteInv, InPlace
    <3>6. e # f => (e \in Open \ Done)' = (e \in Open \ Done)
      BY <1>t, <2>1, <3>1 DEF Open, Done
    <3>7. OnItsWay(e)'
      BY <1>q, <2>1, <2>2, <3>2, <3>6 DEF PlaceOf, OnItsWay, InPlace
    <3>. QED
      BY <3>4, <3>5, <3>7 DEF PlaceOf
  <2>5. CASE ~MayEnqueue(f, s)
    <3>1. banner' = banner /\ pc' = pc /\ cur' = cur
      BY <1>4, <2>5 DEF Receive
    <3>2. ~Sending(e)'
      BY <2>1, <3>1 DEF Sending
    <3>3. Apart(e)' /\ Unvisited(e)' /\ ByteInv(e)'
      BY <2>1, <2>2, <2>3, <3>1, <3>2
      DEF PlaceOf, Apart, Unvisited, ByteInv, InPlace
    <3>4. states'[e] = "open" => states[e] = "open" \/ banner[e] # "none"
      BY <1>t, <2>1, <2>5 DEF MayEnqueue, Upgraded
    <3>5. (e \in Open \ Done)' => e \in Open \ Done
      BY <1>t, <2>1, <3>1, <3>4 DEF PlaceOf, ByteInv, Open, Done
    <3>6. OnItsWay(e)'
      BY <1>q, <2>1, <2>2, <3>2, <3>5 DEF PlaceOf, OnItsWay, InPlace
    <3>. QED
      BY <3>3, <3>6 DEF PlaceOf
  <2>. QED
    BY <2>4, <2>5
<1>. QED
  BY <1>3, <1>4

(* The target goes into the channel, or the message that ends the          *)
(* pipeline; a gone receiver swallows both.                                *)
LEMMA PlaceSend ==
    ASSUME TypeInv, PlaceInv, ResumeSend \/ ReceiveSend \/ SendPoison
    PROVE  PlaceInv'
<1>t. QueueOK
  BY DEF TypeInv, TypeOK
<1>q. /\ UNCHANGED <<pipeVars, stopping, banner, states>>
      /\ pc \in {"resume_send", "receive_send", "poison"} /\ Up /\ Up'
      /\ phase # "closing"
      /\ \A e \in Endpoint : ~Sending(e)'
      /\ \A e \in Endpoint : (e \in Open \ Done)' = (e \in Open \ Done)
  BY DEF ResumeSend, ReceiveSend, SendPoison, flagVars, fileVars, Up, Sending,
         PlaceInv, PipeInv, Open, Done
<1>n. None \notin Queued
  BY <1>q, NoneQueued DEF PlaceInv
<1>1. CASE SendPoison
  <2>1. CASE Send(None)
    <3>1. queue' = Append(queue, None) /\ ~ReceiverGone /\ pc' = "join"
      BY <1>1, <2>1 DEF SendPoison, Send
    <3>2. Queued' = Queued \cup {None} /\ Distinct'
      BY <1>t, <1>n, <3>1, AppendQueued DEF PlaceInv, QueueInv
    <3>3. QueueInv'
      <4>1. /\ Len(queue) \in Nat /\ Len(queue') = Len(queue) + 1
            /\ \A i \in 1 .. Len(queue) : queue'[i] = queue[i]
        BY <1>t, <3>1, AppendProperties DEF QueueOK
      <4>2. \A i \in 1 .. Len(queue) : queue[i] # None
        BY <1>n DEF Queued
      <4>. QED
        BY <3>1, <3>2, <4>1, <4>2 DEF QueueInv
    <3>4. PipeInv'
      BY <1>q, <3>1 DEF PlaceInv, PipeInv, ReceiverGone, pipeVars
    <3>5. ASSUME NEW e \in Endpoint PROVE PlaceOf(e)'
      <4>1. /\ (e \in Queued)' = (e \in Queued) /\ ~Sending(e)
            /\ ~AwaitsResume(e) /\ ~AwaitsResume(e)'
            /\ UNCHANGED <<ppc, phase, pcur, task, banner, states>>
            /\ PlaceOf(e)
        BY <1>1, <1>q, <3>1, <3>2, NoneAssumption
        DEF SendPoison, Sending, AwaitsResume, pipeVars, PlaceInv
      <4>. QED
        BY <1>q, <4>1
        DEF PlaceOf, Apart, ByteInv, InPlace, Unvisited, OnItsWay
    <3>. QED
      BY <3>3, <3>4, <3>5 DEF PlaceInv
  <2>2. CASE ReceiverGone /\ UNCHANGED queue
    BY <1>1, <1>q, <2>2, PlaceFrame DEF SendPoison, Sending, AwaitsResume
  <2>. QED
    BY <1>1, <2>1, <2>2 DEF SendPoison
<1>2. CASE (ResumeSend \/ ReceiveSend) /\ Send(cur)
  <2>1. /\ queue' = Append(queue, cur) /\ ~ReceiverGone /\ pc' # "join"
        /\ cur \in Endpoint /\ Sending(cur)
    BY <1>2
    DEF ResumeSend, ReceiveSend, Send, TypeInv, ControlOK, Sending
  <2>2. cur \notin Queued
    BY <2>1 DEF PlaceInv, PlaceOf, Apart
  <2>3. Queued' = Queued \cup {cur} /\ Distinct'
    BY <1>t, <2>1, <2>2, AppendQueued DEF PlaceInv, QueueInv
  <2>4. QueueInv'
    <3>1. None \notin Queued'
      BY <1>n, <2>1, <2>3, NoneAssumption
    <3>. QED
      BY <2>3, <3>1 DEF QueueInv, Queued
  <2>5. PipeInv'
    BY <1>q, <2>1 DEF PlaceInv, PipeInv, ReceiverGone, pipeVars
  <2>6. ASSUME NEW e \in Endpoint PROVE PlaceOf(e)'
    <3>1. /\ UNCHANGED <<ppc, phase, pcur, task, banner, states>>
          /\ PlaceOf(e) /\ (Sending(e) <=> e = cur) /\ ~Sending(e)'
      BY <1>q, <2>1 DEF pipeVars, PlaceInv, Sending
    <3>2. (AwaitsResume(e)' => AwaitsResume(e) /\ e # cur)
          /\ (e # cur => AwaitsResume(e)' = AwaitsResume(e))
      BY <1>2, <2>1
      DEF ResumeSend, ReceiveSend, AwaitsResume, Endpoint
    <3>3. Apart(e)'
      BY <2>3, <3>1 DEF PlaceOf, Apart
    <3>4. Unvisited(e)'
      BY <2>3, <3>1, <3>2 DEF PlaceOf, Unvisited
    <3>5. ByteInv(e)'
      BY <2>3, <3>1 DEF PlaceOf, ByteInv, InPlace
    <3>6. OnItsWay(e)'
      BY <1>q, <2>3, <3>1, <3>2 DEF PlaceOf, OnItsWay, InPlace
    <3>. QED
      BY <3>3, <3>4, <3>5, <3>6 DEF PlaceOf
  <2>. QED
    BY <2>4, <2>5, <2>6 DEF PlaceInv
<1>3. CASE ReceiveSend /\ ReceiverGone /\ UNCHANGED queue
  <2>1. ppc = "failed" \/ phase = "aborting"
    BY <1>3, <1>q DEF PlaceInv, PipeInv, ReceiverGone, TypeInv, TypeOK, PipelineOK
  <2>2. QueueInv' /\ PipeInv' /\ Queued' = Queued
    BY <1>3, <1>q
    DEF PlaceInv, QueueInv, Distinct, PipeInv, ReceiverGone, pipeVars, Queued,
        ReceiveSend
  <2>3. ASSUME NEW e \in Endpoint PROVE PlaceOf(e)'
    <3>1. /\ UNCHANGED <<ppc, phase, pcur, task, banner, states>>
          /\ PlaceOf(e) /\ ~Sending(e)' /\ ~AwaitsResume(e)'
      BY <1>3, <1>q DEF pipeVars, PlaceInv, ReceiveSend, AwaitsResume
    <3>. QED
      BY <2>1, <2>2, <3>1
      DEF PlaceOf, Apart, ByteInv, InPlace, Unvisited, OnItsWay
  <2>. QED
    BY <2>2, <2>3 DEF PlaceInv
<1>. QED
  BY <1>1, <1>2, <1>3 DEF ResumeSend, ReceiveSend

(* The scanner's side of the places does not move in the pipeline's steps. *)
LEMMA PipeKeepsScanner ==
    ASSUME PipeFrame
    PROVE  /\ UNCHANGED <<pc, cur, states, stopping>> /\ Up' = Up
           /\ \A e \in Endpoint : /\ Sending(e)' = Sending(e)
                                  /\ AwaitsResume(e)' = AwaitsResume(e)
  BY DEF PipeFrame, scanVars, flagVars, Up, Sending, AwaitsResume

(* The channel stays as it is. *)
LEMMA QueueKept ==
    ASSUME QueueInv, UNCHANGED <<queue, pc>>
    PROVE  QueueInv' /\ Queued' = Queued
  BY DEF QueueInv, Distinct, Queued

(* A target moves between the pipeline's hands and a task, or a task ends. *)
LEMMA PlaceTask ==
    ASSUME TypeInv, PlaceInv, NEW f \in Endpoint,
           \/ PipeReap(f) \/ TaskReturns(f) \/ TaskFails(f)
           \/ TaskCancelled(f) \/ (PipeSpawn /\ pcur = f)
    PROVE  PlaceInv'
<1>t. task \in [Endpoint -> {"idle", "running", "ok", "err"}]
  BY DEF TypeInv, TypeOK, PipelineOK
<1>q. /\ PipeFrame /\ UNCHANGED <<queue, banner, phase>>
      /\ \A e \in Endpoint : e # f => task'[e] = task[e]
  BY <1>t
  DEF PipeReap, TaskReturns, TaskFails, TaskCancelled, PipeSpawn
<1>k. /\ UNCHANGED <<pc, cur, states, stopping>> /\ Up' = Up
      /\ \A e \in Endpoint : /\ Sending(e)' = Sending(e)
                             /\ AwaitsResume(e)' = AwaitsResume(e)
      /\ QueueInv' /\ Queued' = Queued
  BY <1>q, PipeKeepsScanner, QueueKept DEF PlaceInv
<1>g. ~ReceiverGone /\ ~ReceiverGone'
  BY <1>t
  DEF PipeReap, TaskReturns, TaskFails, TaskCancelled, PipeSpawn, PlaceInv,
      PipeInv, ReceiverGone
<1>1. PipeInv'
  <2>1. ppc' \in {"drain", "recv", "exited", "failed"} => pcur' = None
    BY DEF PipeReap, TaskReturns, TaskFails, TaskCancelled, PipeSpawn,
           PlaceInv, PipeInv
  <2>. QED
    BY <1>q, <1>k, <1>g, <2>1 DEF PlaceInv, PipeInv, ReceiverGone
<1>2. ASSUME NEW e \in Endpoint PROVE PlaceOf(e)'
  <2>1. /\ PlaceOf(e)
        /\ (e \in Open \ Done)' = (e \in Open \ Done)
    BY <1>q, <1>k DEF PlaceInv, Open, Done
  <2>2. CASE e # f
    <3>1. task'[e] = task[e] /\ (pcur' = e <=> pcur = e)
      BY <1>q, <2>2, NoneAssumption
      DEF PipeReap, TaskReturns, TaskFails, TaskCancelled, PipeSpawn,
          PlaceInv, PipeInv
    <3>2. ppc' = "failed" <=> ppc = "failed"
      BY <1>g DEF ReceiverGone
    <3>. QED
      BY <1>q, <1>k, <2>1, <3>1, <3>2
      DEF PlaceOf, Apart, ByteInv, InPlace, Unvisited, OnItsWay
  <2>3. CASE e = f
    <3>1. InPlace(e) /\ (pcur = e \/ task[e] # "idle")
      BY <1>t, <2>3
      DEF PipeReap, TaskReturns, TaskFails, TaskCancelled, PipeSpawn, InPlace
    <3>2. ~Sending(e) /\ e \notin Queued /\ ~AwaitsResume(e)
          /\ banner[e] = "queued" /\ states[e] = "open"
      BY <2>1, <3>1 DEF PlaceOf, Apart, Unvisited, ByteInv
    <3>3. ~(pcur' = e /\ task'[e] # "idle")
      BY <1>t, <2>1, <2>3, NoneAssumption
      DEF PipeReap, TaskReturns, TaskFails, TaskCancelled, PipeSpawn,
          PlaceOf, Apart
    <3>4. phase = "aborting" \/ pcur' = e \/ task'[e] # "idle"
      BY <1>t, <2>3
      DEF PipeReap, TaskReturns, TaskFails, TaskCancelled, PipeSpawn
    <3>. QED
      BY <1>q, <1>k, <3>2, <3>3, <3>4
      DEF PlaceOf, Apart, ByteInv, InPlace, Unvisited, OnItsWay
  <2>. QED
    BY <2>2, <2>3
<1>. QED
  BY <1>k, <1>1, <1>2 DEF PlaceInv

(* The pipeline's error drops everything it had; only the bytes remain.    *)
LEMMA PlaceFails ==
    ASSUME TypeInv, PlaceInv, PipeFails, Up,
           ~ReceiverGone,
           banner' = banner \/ (pcur \in Endpoint
                                /\ banner' = [banner EXCEPT ![pcur] = "done"])
    PROVE  PlaceInv'
<1>t. banner \in [Endpoint -> {"none", "queued", "done"}]
  BY DEF TypeInv, TypeOK, FilesOK
<1>k. /\ UNCHANGED <<pc, cur, states, stopping>> /\ Up' = Up
      /\ \A e \in Endpoint : /\ Sending(e)' = Sending(e)
                             /\ AwaitsResume(e)' = AwaitsResume(e)
      /\ QueueInv' /\ Queued' = {}
  BY PipeKeepsScanner, EmptyQueued DEF PipeFails
<1>1. PipeInv'
  BY <1>k DEF PipeFails, PipeInv, ReceiverGone
<1>2. ASSUME NEW e \in Endpoint PROVE PlaceOf(e)'
  <2>1. /\ PlaceOf(e) /\ pcur' # e /\ task'[e] = "idle" /\ ppc' = "failed"
    BY NoneAssumption DEF PlaceInv, PipeFails
  <2>2. pcur = e => ~Sending(e) /\ states[e] = "open"
    BY <2>1 DEF PlaceOf, Apart, ByteInv, InPlace
  <2>3. ByteInv(e)'
    BY <1>t, <1>k, <2>1, <2>2 DEF PlaceOf, ByteInv, InPlace
  <2>. QED
    BY <1>k, <2>1, <2>3 DEF PlaceOf, Apart, Unvisited, OnItsWay
<1>. QED
  BY <1>k, <1>1, <1>2 DEF PlaceInv

LEMMA PlacePipe ==
    ASSUME TypeInv, PlaceInv,
           PipeAppend \/ PipeMark \/ PipePoll \/ PipeRecv \/ PipeExit
    PROVE  PlaceInv'
<1>t. /\ QueueOK
      /\ banner \in [Endpoint -> {"none", "queued", "done"}]
      /\ stopping \in BOOLEAN
  BY DEF TypeInv, TypeOK, FilesOK, FlagsOK
<1>k. /\ PipeFrame
      /\ UNCHANGED <<pc, cur, states, stopping>> /\ Up' = Up
      /\ \A e \in Endpoint : /\ Sending(e)' = Sending(e)
                             /\ AwaitsResume(e)' = AwaitsResume(e)
      /\ ppc \notin {"exited", "failed"} /\ Up /\ ppc' # "failed"
  <2>1. PipeFrame
    BY DEF PipeAppend, PipeMark, PipePoll, PipeRecv, PipeExit
  <2>2. ppc \notin {"exited", "failed"} /\ ppc' # "failed"
    BY DEF PipeAppend, PipeMark, PipePoll, PipeRecv, PipeExit
  <2>. QED
    BY <2>1, <2>2, PipeKeepsScanner DEF PlaceInv, PipeInv
<1>1. CASE PipeAppend \/ PipePoll
  <2>1. /\ UNCHANGED <<queue, banner, pcur, task>>
        /\ phase' \in {phase, "aborting"}
        /\ phase' = "aborting" => phase = "aborting" \/ stopping
        /\ ppc' \in {"drain", "recv"} => ppc \in {"drain", "recv"}
        /\ ppc' # "exited"
    BY <1>1 DEF PipeAppend, PipePoll
  <2>2. QueueInv' /\ Queued' = Queued
    BY <1>k, <2>1, QueueKept DEF PlaceInv
  <2>3. PipeInv'
    BY <1>k, <2>1 DEF PlaceInv, PipeInv, ReceiverGone
  <2>4. ASSUME NEW e \in Endpoint PROVE PlaceOf(e)'
    <3>1. PlaceOf(e) /\ (e \in Open \ Done)' = (e \in Open \ Done)
      BY <1>k, <2>1 DEF PlaceInv, Open, Done
    <3>. QED
      BY <1>k, <2>1, <2>2, <3>1
      DEF PlaceOf, Apart, ByteInv, InPlace, Unvisited, OnItsWay
  <2>. QED
    BY <2>2, <2>3, <2>4 DEF PlaceInv
<1>2. CASE PipeMark
  <2>1. /\ UNCHANGED <<queue, phase, task>> /\ pcur \in Endpoint
        /\ banner' = [banner EXCEPT ![pcur] = "done"]
        /\ ppc' = "drain" /\ pcur' = None
    BY <1>2 DEF PipeMark, TypeInv, ControlOK
  <2>2. QueueInv' /\ Queued' = Queued
    BY <1>k, <2>1, QueueKept DEF PlaceInv
  <2>3. PipeInv'
    BY <1>k, <2>1 DEF PlaceInv, PipeInv, ReceiverGone
  <2>4. ASSUME NEW e \in Endpoint PROVE PlaceOf(e)'
    <3>1. PlaceOf(e) /\ pcur' # e
      BY <2>1, NoneAssumption DEF PlaceInv
    <3>2. CASE e = pcur
      <4>1. /\ ~Sending(e) /\ e \notin Queued /\ task[e] = "idle"
            /\ states[e] = "open" /\ ~AwaitsResume(e)
        BY <3>1, <3>2 DEF PlaceOf, Apart, ByteInv, InPlace, Unvisited
      <4>2. e \in Done' /\ banner'[e] = "done"
        BY <1>t, <2>1, <3>2 DEF Done
      <4>. QED
        BY <1>k, <2>1, <2>2, <3>1, <4>1, <4>2
        DEF PlaceOf, Apart, ByteInv, InPlace, Unvisited, OnItsWay
    <3>3. CASE e # pcur
      <4>1. banner'[e] = banner[e] /\ (e \in Open \ Done)' = (e \in Open \ Done)
        BY <1>k, <1>t, <2>1, <3>3 DEF Open, Done
      <4>. QED
        BY <1>k, <2>1, <2>2, <3>1, <3>3, <4>1
        DEF PlaceOf, Apart, ByteInv, InPlace, Unvisited, OnItsWay
    <3>. QED
      BY <3>2, <3>3
  <2>. QED
    BY <2>2, <2>3, <2>4 DEF PlaceInv
<1>3. CASE PipeRecv /\ queue = <<>>
  <2>1. UNCHANGED <<queue, banner, phase, pcur, task>>
        /\ ppc = "recv" /\ ppc' = "drain"
    BY <1>3 DEF PipeRecv
  <2>2. QueueInv' /\ Queued' = Queued
    BY <1>k, <2>1, QueueKept DEF PlaceInv
  <2>3. PipeInv'
    BY <1>k, <2>1 DEF PlaceInv, PipeInv, ReceiverGone
  <2>4. ASSUME NEW e \in Endpoint PROVE PlaceOf(e)'
    <3>1. PlaceOf(e) /\ (e \in Open \ Done)' = (e \in Open \ Done)
      BY <1>k, <2>1 DEF PlaceInv, Open, Done
    <3>. QED
      BY <1>k, <2>1, <2>2, <3>1
      DEF PlaceOf, Apart, ByteInv, InPlace, Unvisited, OnItsWay
  <2>. QED
    BY <2>2, <2>3, <2>4 DEF PlaceInv
<1>4. CASE PipeRecv /\ queue # <<>>
  <2>1. /\ queue' = Tail(queue) /\ UNCHANGED <<banner, task>>
        /\ ppc = "recv" /\ pcur = None
    BY <1>4 DEF PipeRecv, PlaceInv, PipeInv
  <2>2. /\ Head(queue) \in Queued
        /\ Queued' = Queued \ {Head(queue)}
        /\ Distinct'
    BY <1>t, <1>4, <2>1, TailQueued DEF PlaceInv, QueueInv
  <2>3. /\ Len(queue) \in Nat /\ Len(queue) > 0
        /\ Head(queue) = queue[1] /\ Head(queue) \in Endpoint \cup {None}
        /\ Tail(queue) \in Seq(Endpoint \cup {None})
        /\ Len(queue') = Len(queue) - 1
        /\ \A i \in 1 .. Len(queue') : queue'[i] = queue[i + 1]
    BY <1>t, <1>4, <2>1, HeadTailProperties DEF QueueOK
  <2>4. QueueInv'
    <3>1. ASSUME NEW i \in 1 .. Len(queue'), queue'[i] = None
          PROVE  i = Len(queue') /\ pc' = "join"
      <4>1. i + 1 \in 1 .. Len(queue) /\ queue[i + 1] = None
        BY <2>3, <3>1
      <4>2. i + 1 = Len(queue) /\ pc = "join"
        BY <4>1 DEF PlaceInv, QueueInv
      <4>. QED
        BY <1>k, <2>3, <4>2
    <3>. QED
      BY <2>2, <3>1 DEF QueueInv
  <2>5. CASE Head(queue) = None
    <3>1. /\ ppc' = "drain" /\ pcur' = None
          /\ phase' = IF stopping THEN "aborting" ELSE "closing"
      BY <1>4, <2>1, <2>5 DEF PipeRecv
    <3>2. queue' = <<>> /\ pc = "join"
      <4>1. 1 \in 1 .. Len(queue) /\ queue[1] = None
        BY <2>3, <2>5
      <4>2. 1 = Len(queue) /\ pc = "join"
        BY <4>1 DEF PlaceInv, QueueInv
      <4>. QED
        BY <2>1, <2>3, <4>2, EmptySeq
    <3>3. PipeInv'
      BY <1>k, <1>t, <3>1, <3>2 DEF PipeInv, ReceiverGone
    <3>4. ASSUME NEW e \in Endpoint PROVE PlaceOf(e)'
      <4>1. /\ PlaceOf(e) /\ (e \in Queued)' = (e \in Queued) /\ pcur' = pcur
            /\ (e \in Open \ Done)' = (e \in Open \ Done)
            /\ phase # "aborting" \/ stopping
        BY <1>k, <2>1, <2>2, <2>5, <3>1, NoneAssumption
        DEF PlaceInv, PipeInv, Open, Done
      <4>2. OnItsWay(e)'
        BY <1>k, <2>1, <3>1, <4>1 DEF PlaceOf, OnItsWay, InPlace
      <4>. QED
        BY <1>k, <2>1, <4>1, <4>2
        DEF PlaceOf, Apart, ByteInv, InPlace, Unvisited
    <3>. QED
      BY <2>4, <3>3, <3>4 DEF PlaceInv
  <2>6. CASE Head(queue) # None
    <3>1. /\ ppc' = "permit" /\ pcur' = Head(queue) /\ phase' = phase
          /\ Head(queue) \in Endpoint
      BY <1>4, <2>1, <2>3, <2>6 DEF PipeRecv
    <3>2. PipeInv'
      BY <1>k, <1>4, <3>1 DEF PlaceInv, PipeInv, ReceiverGone
    <3>3. ASSUME NEW e \in Endpoint PROVE PlaceOf(e)'
      <4>1. /\ PlaceOf(e) /\ pcur # e
            /\ (e \in Open \ Done)' = (e \in Open \ Done)
        BY <1>k, <2>1, NoneAssumption DEF PlaceInv, Open, Done
      <4>2. (e \in Queued)' \/ pcur' = e <=> e \in Queued
        BY <2>2, <3>1
      <4>3. ~((e \in Queued)' /\ pcur' = e)
        BY <2>2, <3>1
      <4>4. Apart(e)' /\ Unvisited(e)'
        BY <1>k, <2>1, <4>1, <4>2, <4>3 DEF PlaceOf, Apart, Unvisited
      <4>5. ByteInv(e)' /\ OnItsWay(e)'
        BY <1>k, <2>1, <3>1, <4>1, <4>2
        DEF PlaceOf, ByteInv, InPlace, OnItsWay
      <4>. QED
        BY <4>4, <4>5 DEF PlaceOf
    <3>. QED
      BY <2>4, <3>2, <3>3 DEF PlaceInv
  <2>. QED
    BY <2>5, <2>6
<1>5. CASE PipeExit
  <2>1. /\ UNCHANGED <<banner, phase, pcur, task>> /\ queue' = <<>>
        /\ ppc = "drain" /\ ppc' = "exited" /\ phase # "serving"
        /\ \A e \in Endpoint : task[e] = "idle"
    BY <1>5 DEF PipeExit
  <2>2. QueueInv' /\ Queued' = {}
    BY <2>1, EmptyQueued
  <2>3. PipeInv'
    BY <1>k, <2>1 DEF PlaceInv, PipeInv, ReceiverGone
  <2>4. Queued = {} \/ phase = "aborting"
    <3>1. phase \in {"closing", "aborting"}
      BY <2>1 DEF TypeInv, TypeOK, PipelineOK
    <3>. QED
      BY <3>1, EmptyQueued DEF PlaceInv, PipeInv
  <2>5. ASSUME NEW e \in Endpoint PROVE PlaceOf(e)'
    <3>1. PlaceOf(e) /\ (e \in Open \ Done)' = (e \in Open \ Done)
      BY <1>k, <2>1 DEF PlaceInv, Open, Done
    <3>. QED
      BY <1>k, <2>1, <2>2, <2>4, <3>1
      DEF PlaceOf, Apart, ByteInv, InPlace, Unvisited, OnItsWay
  <2>. QED
    BY <2>2, <2>3, <2>5 DEF PlaceInv
<1>. QED
  BY <1>1, <1>2, <1>3, <1>4, <1>5

LEMMA PlaceStep ==
    ASSUME TypeInv, PlaceInv, [Next]_vars
    PROVE  PlaceInv'
<1>1. CASE Start
  <2>1. /\ UNCHANGED <<banner, states>> /\ \A e \in Endpoint : ~Sending(e)'
        /\ Up' /\ ppc' = "drain" /\ pc' = "resume" /\ cur' = 0
    BY <1>1 DEF Start, fileVars, Sending, Up
  <2>. QED
    BY <1>1, <2>1, PlaceClear DEF Start
<1>2. CASE ResumeSendFails \/ SendBatchFails \/ Join \/ JoinFails \/ Crash
  <2>1. ProcessGone /\ UNCHANGED <<banner, states>>
    BY <1>2
    DEF ResumeSendFails, SendBatchFails, Join, JoinFails, Crash, fileVars
  <2>2. ~Up' /\ \A e \in Endpoint : ~Sending(e)'
    BY <2>1 DEF ProcessGone, Up, Sending
  <2>. QED
    BY <2>1, <2>2, PlaceClear DEF ProcessGone
<1>3. CASE \/ RoundStop \/ RoundContinue \/ RoundEnd \/ SendBatch
           \/ AfterBatch \/ AfterPause \/ AfterFinal
  <2>1. /\ UNCHANGED <<queue, pipeVars, banner, states, stopping>>
        /\ pc \in {"top", "batch", "receive"}
        /\ pc' \in {"top", "batch", "receive", "poison"}
    BY <1>3
    DEF RoundStop, RoundContinue, RoundEnd, SendBatch, AfterBatch, AfterPause,
        AfterFinal, fileVars, flagVars
  <2>. QED
    BY <2>1, PlaceFrame DEF Up, Sending, AwaitsResume
<1>4. CASE ResumeEnd
  <2>1. /\ UNCHANGED <<queue, pipeVars, banner, states, stopping>>
        /\ pc = "resume" /\ cur = N /\ pc' \in {"top", "receive"}
    BY <1>4 DEF ResumeEnd, fileVars, flagVars
  <2>2. \A e \in Endpoint : AwaitsResume(e)' = AwaitsResume(e)
    BY <2>1, SizeAssumption DEF AwaitsResume, Endpoint
  <2>3. Up' = Up /\ \A e \in Endpoint : Sending(e)' = Sending(e)
    BY <2>1 DEF Up, Sending
  <2>. QED
    BY <2>1, <2>2, <2>3, PlaceFrame
<1>5. CASE CaptureDrop \/ Stop \/ UNCHANGED vars
  <2>1. /\ UNCHANGED <<queue, pipeVars, banner, states, pc, cur>>
        /\ stopping => stopping'
    BY <1>5
    DEF CaptureDrop, Stop, CtrlC, TimeoutFlag, TimeoutStop, vars, fileVars,
        scanVars, flagVars
  <2>. QED
    BY <2>1, PlaceFrame DEF Up, Sending, AwaitsResume
<1>6. CASE PipeSpawn
  <2>1. pcur \in Endpoint
    BY <1>6 DEF PipeSpawn, TypeInv, ControlOK
  <2>. QED
    BY <1>6, <2>1, PlaceTask
<1>7. CASE \/ PipeAppendFails \/ PipeMarkFails
           \/ \E e \in Endpoint : PipeReapFails(e)
  <2>1. /\ PipeFails /\ ~ReceiverGone
        /\ banner' = banner \/ (pcur \in Endpoint
                                /\ banner' = [banner EXCEPT ![pcur] = "done"])
    BY <1>7
    DEF PipeAppendFails, PipeMarkFails, PipeReapFails, ReceiverGone, TypeInv,
        ControlOK
  <2>2. Up
    BY <2>1 DEF PlaceInv, PipeInv, ReceiverGone
  <2>. QED
    BY <2>1, <2>2, PlaceFails
<1>. QED
  BY <1>1, <1>2, <1>3, <1>4, <1>5, <1>6, <1>7, PlaceMark, PlaceSend, PlacePipe,
     PlaceTask
  DEF Next, ScannerStep, PipeStep, Fault, TaskStep

(* PlaceInv holds in every state of a job (enqueue_banner,                 *)
(* enqueue_resume_banner_targets, banner_pipeline).                        *)
THEOREM PlacesInductive == Spec => [](TypeInv /\ PlaceInv)
<1>1. Init => PlaceInv
  <2>. SUFFICES ASSUME Init PROVE PlaceInv
    OBVIOUS
  <2>1. QueueInv /\ Queued = {}
    BY DEF Init, QueueInv, Distinct, Queued
  <2>2. PipeInv
    BY DEF Init, PipeInv, Up
  <2>3. ASSUME NEW e \in Endpoint PROVE PlaceOf(e)
    BY <2>1, NoneAssumption
    DEF Init, PlaceOf, Apart, ByteInv, InPlace, Unvisited, OnItsWay, Sending,
        AwaitsResume, Up
  <2>. QED
    BY <2>1, <2>2, <2>3 DEF PlaceInv
<1>. QED
  BY <1>1, TypeInductive, PlaceStep, PTL DEF Spec

(* The count of an endpoint's places is 0 or 1. *)
LEMMA PlacesCounted ==
    ASSUME TypeInv, PlaceInv, NEW e \in Endpoint
    PROVE  Places(e) = IF InPlace(e) THEN 1 ELSE 0
<1>. DEFINE Slots == {i \in 1 .. Len(queue) : queue[i] = e}
<1>1. e \notin Queued => Cardinality(Slots) = 0
  <2>. SUFFICES ASSUME e \notin Queued PROVE Cardinality(Slots) = 0
    OBVIOUS
  <2>1. Slots = {}
    BY DEF Queued
  <2>. QED
    BY <2>1, FS_EmptySet
<1>2. e \in Queued => Cardinality(Slots) = 1
  <2>. SUFFICES ASSUME e \in Queued PROVE Cardinality(Slots) = 1
    OBVIOUS
  <2>1. PICK i \in 1 .. Len(queue) : queue[i] = e
    BY DEF Queued
  <2>2. Slots = {i}
    BY <2>1 DEF PlaceInv, QueueInv, Distinct
  <2>. QED
    BY <2>2, FS_Singleton
<1>3. Apart(e)
  BY DEF PlaceInv, PlaceOf
<1>4. Places(e) = Cardinality(Slots) + (IF Sending(e) THEN 1 ELSE 0)
                  + (IF pcur = e THEN 1 ELSE 0)
                  + (IF task[e] # "idle" THEN 1 ELSE 0)
  BY DEF Places, Sending
<1>. QED
  BY <1>1, <1>2, <1>3, <1>4 DEF Apart, InPlace

(* An open endpoint whose inspection is not done is in exactly one place - *)
(* blocked in a send, in the channel, in the pipeline's hands or in a task *)
(* - and any other in none, through every stop, error, crash and resume.   *)
THEOREM BannersAreInOnePlace == Spec => []BannerInOnePlace
<1>1. TypeInv /\ PlaceInv => InspectedOnce
  BY PlacesCounted DEF PlaceInv, PlaceOf, ByteInv, InspectedOnce
<1>2. TypeInv /\ PlaceInv => NoOrphanBanner
  BY PlacesCounted DEF PlaceInv, PlaceOf, OnItsWay, NoOrphanBanner
<1>. QED
  BY <1>1, <1>2, PlacesInductive, PTL DEF BannerInOnePlace

-----------------------------------------------------------------------------
(* The summary *)

LEMMA SummaryStep ==
    ASSUME TypeInv, SweepInv, DropInv, PlaceInv, [Next]_vars,
           summary' # summary
    PROVE  /\ summary'.incomplete = Cardinality(Open \ Done)
           /\ summary'.completed = (ckpt.round >= Attempts)
           /\ drops => ckpt.degraded
           /\ ~stopping => Open \subseteq Done
<1>1. Join
  <2>1. CASE \/ Start \/ SendBatchFails \/ CaptureDrop \/ Crash \/ Stop
             \/ UNCHANGED vars
    BY <2>1
    DEF Start, SendBatchFails, CaptureDrop, Crash, Stop, CtrlC, TimeoutFlag,
        TimeoutStop, vars, fileVars
  <2>2. CASE ScannerStep
    BY <2>2
    DEF ScannerStep, ResumeMark, ResumeSend, ResumeSendFails, ResumeEnd,
        RoundStop, RoundContinue, RoundEnd, SendBatch, Receive, ReceiveSend,
        AfterBatch, AfterPause, AfterFinal, SendPoison, JoinFails, fileVars
  <2>3. CASE \/ PipeStep \/ PipeAppendFails \/ PipeMarkFails
             \/ \E e \in Endpoint : TaskStep(e) \/ TaskFails(e)
    BY <2>3
    DEF PipeStep, PipeReap, PipeReapFails, PipeAppend, PipeMark, PipePoll,
        PipeRecv, PipeSpawn, PipeExit, PipeAppendFails, PipeMarkFails,
        PipeFails, TaskStep, TaskReturns, TaskCancelled, TaskFails, PipeFrame
  <2>. QED
    BY <2>1, <2>2, <2>3 DEF Next, Fault
<1>2. pc = "join" /\ ppc = "exited" /\ Up /\ CountersTaken
  BY <1>1 DEF Join, Up, CountersTaken
<1>3. summary'.incomplete = Cardinality(Open \ Done)
  <2>1. Done \subseteq Open
    BY DEF PlaceInv, PlaceOf, ByteInv, Open, Done
  <2>2. /\ IsFiniteSet(Open)
        /\ Cardinality(Open) \in Nat /\ Cardinality(Done) \in Nat
    BY EndpointFinite DEF Open, Done
  <2>3. Cardinality(Open \ Done) = Cardinality(Open) - Cardinality(Done)
    <3>1. Open \cap Done = Done
      BY <2>1
    <3>. QED
      BY <2>2, <3>1, FS_Difference
  <2>4. Cardinality(Done) <= Cardinality(Open)
    BY <2>1, <2>2, FS_Subset
  <2>. QED
    BY <1>1, <2>2, <2>3, <2>4 DEF Join, saturating_sub
<1>4. summary'.completed = (ckpt.round >= Attempts)
  BY <1>1, <1>2 DEF Join, SweepInv
<1>5. drops => ckpt.degraded
  BY <1>2 DEF DropInv
<1>6. ASSUME ~stopping
      PROVE  Open \subseteq Done
  <2>1. Queued = {} /\ pcur = None /\ phase # "aborting"
        /\ \A e \in Endpoint : task[e] = "idle"
    BY <1>2, <1>6, EmptyQueued DEF PlaceInv, PipeInv, ReceiverGone
  <2>2. ASSUME NEW e \in Open PROVE e \in Done
    <3>1. e \in Endpoint /\ ~AwaitsResume(e) /\ ~Sending(e)
      BY <1>2 DEF Open, AwaitsResume, Sending
    <3>2. ~InPlace(e)
      BY <2>1, <3>1, NoneAssumption DEF InPlace
    <3>3. OnItsWay(e)
      BY <3>1 DEF PlaceInv, PlaceOf
    <3>. QED
      BY <1>2, <2>1, <3>1, <3>2, <3>3 DEF OnItsWay
  <2>. QED
    BY <2>2
<1>. QED
  BY <1>3, <1>4, <1>5, <1>6

(* What save_summary writes at the end of a run is true of the files: the  *)
(* counts are exact, packets this run lost have marked the job degraded,   *)
(* and a run nobody stopped has finished every open endpoint's banner.     *)
THEOREM SummaryIsHonest == Spec => SummaryHonest
<1>1. ASSUME TypeInv, SweepInv, DropInv, PlaceInv, [Next]_vars
      PROVE  [summary' # summary =>
                /\ summary'.incomplete = Cardinality(Open \ Done)
                /\ summary'.completed = (ckpt.round >= Attempts)
                /\ drops => ckpt.degraded
                /\ ~stopping => Open \subseteq Done]_vars
  BY <1>1, SummaryStep
<1>. QED
  BY <1>1, SweepInductive, DropsInductive, PlacesInductive, PTL
  DEF Spec, SummaryHonest

-----------------------------------------------------------------------------
(* The commands that read the job beside the scan (JobReaders).            *)

LEMMA ReadFrame ==
    ASSUME ReadStep \/ UNCHANGED allVars
    PROVE  UNCHANGED vars
  BY DEF ReadStep, ExportOpen, ExportEvents, ExportCheck, ExportState,
         ExportWrite, ExportRefused, StatusOpen, StatusSummary,
         StatusNoSummary, read_state_counters, read_banner_counters,
         StatusCounted, StatusEnds, ListOpen, ListSummary, allVars

(* They change no file of the scan, so all that holds of a scan alone      *)
(* holds beside them.                                                      *)
LEMMA ScanBeside == SpecReaders => Spec
<1>1. InitReaders => Init
  BY DEF InitReaders
<1>2. [NextReaders]_allVars => [Next]_vars
  BY ReadFrame DEF NextReaders, ScanStep
<1>. QED
  BY <1>1, <1>2, PTL DEF SpecReaders, Spec

(* What a step of the scan leaves to its readers. *)
ScanKept ==
    /\ probed \subseteq probed'
    /\ \A e \in Endpoint : rank(states'[e]) >= rank(states[e])
    /\ Open \subseteq Open' /\ Done \subseteq Done'
    /\ Cardinality(Open) <= Cardinality(Open')
    /\ Cardinality(Done) <= Cardinality(Done')
    /\ ckpt'.round >= ckpt.round

LEMMA SubsetCount ==
    ASSUME NEW S \in SUBSET Endpoint, NEW T \in SUBSET Endpoint, S \subseteq T
    PROVE  /\ Cardinality(S) \in Nat /\ Cardinality(T) \in Nat
           /\ Cardinality(S) <= Cardinality(T) /\ Cardinality(T) <= N
<1>1. IsFiniteSet(T) /\ IsFiniteSet(Endpoint)
  BY EndpointFinite
<1>2. Cardinality(S) <= Cardinality(T) /\ Cardinality(T) <= Cardinality(Endpoint)
  BY <1>1, FS_Subset
<1>3. Cardinality(Endpoint) = N
  BY FS_Interval, SizeAssumption DEF Endpoint
<1>. QED
  BY <1>2, <1>3, EndpointFinite

LEMMA ScanKeeps ==
    ASSUME TypeInv, TypeInv', SweepInv, [Next]_vars
    PROVE  ScanKept
<1>1. probed \subseteq probed' /\ HistoryKept
  BY HistoryStep DEF HistoryKept
<1>2. \A e \in Endpoint : rank(states'[e]) >= rank(states[e])
  BY <1>1, RanksRise
<1>3. Open \subseteq Open'
  <2>1. ASSUME NEW e \in Endpoint, states[e] = "open" PROVE states'[e] = "open"
    <3>1. rank(states'[e]) >= 3 /\ states'[e] \in TargetState
      BY <1>2, <2>1 DEF rank, TypeInv, TypeOK, FilesOK
    <3>. QED
      BY <3>1 DEF rank, TargetState
  <2>. QED
    BY <2>1 DEF Open
<1>4. Done \subseteq Done'
  BY BytesStep DEF BytesKept
<1>5. ckpt'.round >= ckpt.round
  <2>1. ckpt.round \in Nat /\ ckpt'.round \in Nat
    BY SizeAssumption DEF TypeInv, TypeOK, FilesOK
  <2>. QED
    BY <2>1, CheckpointStep DEF CheckpointForward
<1>6. Open \in SUBSET Endpoint /\ Open' \in SUBSET Endpoint
      /\ Done \in SUBSET Endpoint /\ Done' \in SUBSET Endpoint
  BY DEF Open, Done
<1>7. Cardinality(Open) <= Cardinality(Open') /\ Cardinality(Done) <= Cardinality(Done')
  BY <1>3, <1>4, <1>6, SubsetCount
<1>. QED
  BY <1>1, <1>2, <1>3, <1>4, <1>5, <1>7 DEF ScanKept

(* What the files say: only open endpoints have a record, and a summary,   *)
(* of whichever run, claims no more than holds since.                      *)
LinesOpen == log.lines \subseteq Open

SummaryInv ==
    summary # None =>
        /\ summary.completed => ckpt.round >= Attempts
        /\ summary.open <= Cardinality(Open)
        /\ summary.done <= Cardinality(Done)
        /\ summary.incomplete <= N

(* A line is added only by the append of the endpoint in hand. *)
LEMMA LinesStep ==
    ASSUME TypeInv, [Next]_vars
    PROVE  \/ log'.lines = log.lines
           \/ ppc = "append" /\ log'.lines \subseteq log.lines \cup {pcur}
<1>0. log \in [lines : SUBSET Endpoint, fused : SUBSET Endpoint, torn : BOOLEAN]
  BY DEF TypeInv, TypeOK, FilesOK
<1>1. CASE SendBatchFails \/ PipeAppendFails \/ Crash
  BY <1>1, DeathKeepsRecords DEF SendBatchFails, PipeAppendFails, Crash
<1>2. CASE PipeAppend
  <2>1. \/ log' = [log EXCEPT !.fused = @ \cup {pcur}, !.torn = FALSE]
        \/ log' = [log EXCEPT !.lines = @ \cup {pcur}]
    BY <1>2 DEF PipeAppend, append_event
  <2>2. log'.lines \subseteq log.lines \cup {pcur}
    BY <1>0, <2>1
  <2>. QED
    BY <1>2, <2>2 DEF PipeAppend
<1>3. CASE \/ Start \/ ScannerStep \/ CaptureDrop \/ Stop
  BY <1>3
  DEF Start, ScannerStep, ResumeMark, ResumeSend, ResumeSendFails, ResumeEnd,
      RoundStop, RoundContinue, RoundEnd, SendBatch, Receive, ReceiveSend,
      AfterBatch, AfterPause, AfterFinal, SendPoison, Join, JoinFails,
      CaptureDrop, Stop, CtrlC, TimeoutFlag, TimeoutStop, fileVars
<1>4. CASE \/ PipeMark \/ PipePoll \/ PipeRecv \/ PipeSpawn \/ PipeExit \/ PipeMarkFails
           \/ \E e \in Endpoint : PipeReap(e) \/ PipeReapFails(e) \/ TaskStep(e)
                                    \/ TaskFails(e)
  BY <1>4
  DEF PipeReap, PipeReapFails, PipeMark, PipePoll, PipeRecv, PipeSpawn, PipeExit,
      PipeMarkFails, TaskStep, TaskReturns, TaskCancelled, TaskFails
<1>5. CASE UNCHANGED vars
  BY <1>5 DEF vars, fileVars
<1>. QED
  BY <1>1, <1>2, <1>3, <1>4, <1>5 DEF Next, Fault, PipeStep

LEMMA LinesOpenStep ==
    ASSUME TypeInv, PlaceInv, ScanKept, LinesOpen, [Next]_vars
    PROVE  LinesOpen'
<1>1. log.lines \subseteq Open'
  BY DEF LinesOpen, ScanKept
<1>2. CASE ppc = "append"
  <2>1. pcur \in Endpoint
    BY <1>2 DEF TypeInv, ControlOK
  <2>2. states[pcur] = "open"
    BY <2>1 DEF PlaceInv, PlaceOf, ByteInv, InPlace
  <2>3. pcur \in Open'
    BY <2>1, <2>2 DEF Open, ScanKept
  <2>. QED
    BY <1>1, <2>3, LinesStep DEF LinesOpen
<1>. QED
  BY <1>1, <1>2, LinesStep DEF LinesOpen

LEMMA SummaryInvStep ==
    ASSUME TypeInv, TypeInv', SweepInv, ScanKept, SummaryInv, [Next]_vars
    PROVE  SummaryInv'
<1>0. /\ Cardinality(Open) \in Nat /\ Cardinality(Done) \in Nat
      /\ Cardinality(Open') \in Nat /\ Cardinality(Done') \in Nat
      /\ Cardinality(Open) <= N
      /\ ckpt.round \in Nat /\ ckpt'.round \in Nat
      /\ Attempts \in Nat /\ N \in Nat
  <2>1. /\ Open \in SUBSET Endpoint /\ Done \in SUBSET Endpoint
        /\ Open' \in SUBSET Endpoint /\ Done' \in SUBSET Endpoint
    BY DEF Open, Done
  <2>2. /\ Cardinality(Open) \in Nat /\ Cardinality(Done) \in Nat
        /\ Cardinality(Open') \in Nat /\ Cardinality(Done') \in Nat
        /\ Cardinality(Open) <= N
    BY <2>1, SubsetCount
  <2>. QED
    BY <2>2, SizeAssumption DEF TypeInv, TypeOK, FilesOK
<1>1. CASE Join
  <2>1. /\ ckpt' = ckpt /\ Open' = Open /\ Done' = Done
        /\ round = ckpt.round
    BY <1>1 DEF Join, Open, Done, SweepInv, Up
  <2>2. /\ summary'.completed <=> (round >= Attempts)
        /\ summary'.open = Cardinality(Open) /\ summary'.done = Cardinality(Done)
        /\ summary'.incomplete = saturating_sub(Cardinality(Open), Cardinality(Done))
    BY <1>1 DEF Join
  <2>3. saturating_sub(Cardinality(Open), Cardinality(Done)) <= N
    BY <1>0 DEF saturating_sub
  <2>4. SummaryInv' <=>
          (summary' # None =>
            /\ summary'.completed => ckpt'.round >= Attempts
            /\ summary'.open <= Cardinality(Open')
            /\ summary'.done <= Cardinality(Done')
            /\ summary'.incomplete <= N)
    BY DEF SummaryInv
  <2>. QED
    BY <1>0, <2>1, <2>2, <2>3, <2>4
<1>2. CASE summary' = summary
  <2>1. CASE summary = None
    BY <1>2, <2>1 DEF SummaryInv
  <2>2. CASE summary # None
    <3>1. summary.open \in Nat /\ summary.done \in Nat
      BY <2>2 DEF TypeInv, TypeOK, FilesOK, Summary
    <3>. QED
      BY <1>0, <1>2, <2>2, <3>1 DEF SummaryInv, ScanKept
  <2>. QED
    BY <2>1, <2>2
<1>3. ~Join => summary' = summary
  <2>1. CASE \/ Start \/ SendBatchFails \/ CaptureDrop \/ Crash \/ Stop
             \/ UNCHANGED vars
    BY <2>1
    DEF Start, SendBatchFails, CaptureDrop, Crash, Stop, CtrlC, TimeoutFlag,
        TimeoutStop, vars, fileVars
  <2>2. CASE ScannerStep
    BY <2>2
    DEF ScannerStep, ResumeMark, ResumeSend, ResumeSendFails, ResumeEnd, RoundStop,
        RoundContinue, RoundEnd, SendBatch, Receive, ReceiveSend, AfterBatch, AfterPause,
        AfterFinal, SendPoison, JoinFails, fileVars
  <2>3. CASE \/ PipeStep \/ PipeAppendFails \/ PipeMarkFails
             \/ \E e \in Endpoint : TaskStep(e) \/ TaskFails(e)
    BY <2>3
    DEF PipeStep, PipeReap, PipeReapFails, PipeAppend, PipeMark, PipePoll,
        PipeRecv, PipeSpawn, PipeExit, PipeAppendFails, PipeMarkFails,
        PipeFails, TaskStep, TaskReturns, TaskCancelled, TaskFails, PipeFrame
  <2>. QED
    BY <2>1, <2>2, <2>3 DEF Next, Fault
<1>. QED
  BY <1>1, <1>2, <1>3

(* When no process runs, the only step of a scan is to start one. *)
LEMMA OnlyStarts ==
    ASSUME TypeInv, PlaceInv, pc = "down", Next
    PROVE  pc' # "down"
<1>0. ppc = "exited" /\ \A e \in Endpoint : task[e] = "idle"
  BY DEF PlaceInv, PipeInv, Up, ReceiverGone
<1>1. CASE Start
  BY <1>1 DEF Start
<1>2. ~(ScannerStep \/ Stop \/ Fault)
  BY <1>0
  DEF ScannerStep, ResumeMark, ResumeSend, ResumeSendFails, ResumeEnd, RoundStop,
      RoundContinue, RoundEnd, SendBatch, Receive, ReceiveSend, AfterBatch, AfterPause,
      AfterFinal, SendPoison, Join, JoinFails, Stop, CtrlC, TimeoutFlag, TimeoutStop,
      Fault, SendBatchFails, CaptureDrop, PipeAppendFails, PipeMarkFails, Crash,
      TaskFails, Up
<1>3. ~(PipeStep \/ \E e \in Endpoint : TaskStep(e))
  BY <1>0
  DEF PipeStep, PipeReap, PipeReapFails, PipeAppend, PipeMark, PipePoll, PipeRecv,
      PipeSpawn, PipeExit, TaskStep, TaskReturns, TaskCancelled
<1>. QED
  BY <1>1, <1>2, <1>3 DEF Next

-----------------------------------------------------------------------------
(* The types of the commands *)

LEMMA BuildType ==
    ASSUME meta \in [round : 0 .. Attempts, next : 0 .. N, degraded : BOOLEAN],
           NEW s \in Summary \cup {None}, NEW n_open \in Nat, NEW n_done \in Nat,
           s # None => s.incomplete \in Nat
    PROVE  build_job_status(s, n_open, n_done) \in Status
<1>0. s # None => /\ s.completed \in BOOLEAN /\ s.timed_out \in BOOLEAN
                  /\ s.drops \in BOOLEAN
  BY DEF Summary
<1>1. completed(s) \in BOOLEAN
  <2>1. rounds_swept \in BOOLEAN
    BY DEF rounds_swept
  <2>. QED
    BY <1>0, <2>1, Zenon DEF completed
<1>2. /\ degraded(s) \in BOOLEAN
      /\ (s # None) \in BOOLEAN /\ (s # None /\ s.timed_out) \in BOOLEAN
  BY Zenon DEF degraded
<1>3. next_action(s, completed(s)) \in
         {"export", "resume", "review_degraded_export", "inspect_missing_summary"}
  BY Zenon DEF next_action
<1>4. (IF s = None THEN failed_or_incomplete(n_open, n_done) ELSE s.incomplete) \in Nat
  BY DEF failed_or_incomplete, saturating_sub
<1>. QED
  BY <1>1, <1>2, <1>3, <1>4 DEF build_job_status, Status

LEMMA ListingType ==
    ASSUME meta \in [round : 0 .. Attempts, next : 0 .. N, degraded : BOOLEAN],
           NEW s
    PROVE  [status |-> list_status(s), round |-> meta.round,
            completed |-> s # None /\ s.completed,
            degraded |-> degraded(s)] \in Listing
<1>1. (s # None /\ s.completed) \in BOOLEAN /\ degraded(s) \in BOOLEAN
  BY Zenon DEF degraded
<1>2. list_status(s) \in {"completed", "timed_out", "degraded",
                          "running_or_interrupted", "missing_summary"}
  BY Zenon DEF list_status
<1>. QED
  BY <1>1, <1>2 DEF Listing

LEMMA QuietType ==
    ASSUME ReadersOK, [NextReaders]_allVars
    PROVE  quiet' \in BOOLEAN
<1>1. \/ quiet' = quiet \/ quiet' = (pc = "down")
      \/ quiet' = (quiet /\ pc' = "down")
  BY DEF NextReaders, ScanStep, ReadStep, ExportOpen, ExportEvents, ExportCheck,
         ExportState, ExportWrite, ExportRefused, StatusOpen, StatusSummary,
         StatusNoSummary, read_state_counters, read_banner_counters,
         StatusCounted, StatusEnds, ListOpen, ListSummary, allVars, readerVars
<1>2. quiet \in BOOLEAN
  BY DEF ReadersOK
<1>. QED
  BY <1>1, <1>2, Zenon

LEMMA ReadersTypeStep ==
    ASSUME TypeInv, ReadersOK, [NextReaders]_allVars
    PROVE  ReadersOK'
<1>q. quiet' \in BOOLEAN
  BY QuietType
<1>o. /\ NoOptions \in Options /\ 0 \in 0 .. N /\ 0 \in Nat
      /\ NoMeta \in [round : 0 .. Attempts, next : 0 .. N, degraded : BOOLEAN]
      /\ NoRows \in [Endpoint -> Row \cup {None}]
  BY SizeAssumption DEF NoOptions, Options, NoMeta, NoRows
<1>c. /\ ckpt \in [round : 0 .. Attempts, next : 0 .. N, degraded : BOOLEAN]
      /\ states \in [Endpoint -> TargetState]
      /\ summary \in Summary \cup {None}
  BY DEF TypeInv, TypeOK, FilesOK
<1>. USE DEF ReadersOK
<1>1. CASE ScanStep
  BY <1>1, <1>q DEF ScanStep
<1>2. CASE \E o \in Options : ExportOpen(o)
  BY <1>2, <1>q, <1>o, ReadsAssumption DEF ExportOpen
<1>3. CASE ExportEvents
  <2>1. [state |-> "open", banner |-> TRUE] \in Row
    BY DEF Row, TargetState
  <2>2. rows' \in [Endpoint -> Row \cup {None}]
    BY <1>3, <2>1 DEF ExportEvents
  <2>. QED
    BY <1>3, <1>q, <2>2 DEF ExportEvents
<1>4. CASE ExportCheck
  BY <1>4, <1>q, <1>o DEF ExportCheck
<1>5. CASE ExportState
  <2>1. [state |-> decode(pos), banner |-> FALSE] \in Row
    BY <1>5, <1>c DEF ExportState, decode, Row
  <2>2. or_insert(rows[pos], [state |-> decode(pos), banner |-> FALSE]) \in Row \cup {None}
    BY <1>5, <2>1 DEF ExportState, or_insert
  <2>3. rows' \in [Endpoint -> Row \cup {None}]
    BY <1>5, <2>2 DEF ExportState
  <2>4. pos' \in 0 .. N
    BY <1>5, SizeAssumption DEF ExportState, Endpoint
  <2>. QED
    BY <1>5, <1>q, <2>3, <2>4 DEF ExportState
<1>6. CASE ExportWrite
  <2>1. Selected \in [Endpoint -> Row \cup {None}]
    BY DEF Selected
  <2>. QED
    BY <1>6, <1>q, <1>o, <2>1 DEF ExportWrite, CommandEnds
<1>7. CASE ExportRefused \/ StatusEnds
  BY <1>7, <1>q, <1>o DEF ExportRefused, StatusEnds, CommandEnds
<1>8. CASE StatusOpen \/ ListOpen
  BY <1>8, <1>q, <1>c, ReadsAssumption DEF StatusOpen, ListOpen
<1>9. CASE StatusSummary \/ StatusCounted
  <2>1. CASE StatusSummary
    <3>1. summary \in Summary /\ summary.open \in Nat /\ summary.done \in Nat
          /\ summary.incomplete \in Nat
      BY <1>c, <2>1 DEF StatusSummary, Summary
    <3>2. build_job_status(summary, summary.open, summary.done) \in Status
      BY <3>1, BuildType
    <3>. QED
      BY <1>q, <2>1, <3>2 DEF StatusSummary
  <2>2. CASE StatusCounted
    <3>1. build_job_status(None, opened, finished) \in Status
      BY BuildType
    <3>. QED
      BY <1>q, <2>2, <3>1 DEF StatusCounted
  <2>. QED
    BY <1>9, <2>1, <2>2
<1>10. CASE StatusNoSummary
  BY <1>10, <1>q, <1>o DEF StatusNoSummary
<1>11. CASE read_state_counters \/ read_banner_counters
  <2>1. pos' \in 0 .. N /\ opened' \in Nat /\ finished' \in Nat
    BY <1>11, SizeAssumption DEF read_state_counters, read_banner_counters, Endpoint
  <2>. QED
    BY <1>11, <1>q, <2>1 DEF read_state_counters, read_banner_counters
<1>12. CASE ListSummary
  <2>1. listed' \in Listing
    BY <1>12, ListingType DEF ListSummary
  <2>. QED
    BY <1>12, <1>q, <1>o, <2>1 DEF ListSummary, CommandEnds
<1>13. CASE UNCHANGED allVars
  BY <1>13 DEF allVars, readerVars
<1>. QED
  BY <1>1, <1>2, <1>3, <1>4, <1>5, <1>6, <1>7, <1>8, <1>9, <1>10, <1>11, <1>12,
     <1>13 DEF NextReaders, ReadStep

-----------------------------------------------------------------------------
(* Export.  A row says no more than is known of its endpoint, and goes on  *)
(* saying no more while the scan goes on.                                  *)

LEMMA FilesFrame ==
    ASSUME UNCHANGED vars
    PROVE  /\ UNCHANGED <<ckpt, states, banner, log, summary, pc, probed>>
           /\ Open' = Open /\ Done' = Done
  BY DEF vars, fileVars, scanVars, histVars, Open, Done

RowOK(e, row) ==
    row # None =>
        /\ row.state = "no_response" => \A r \in Round : <<r, e>> \in probed
        /\ rank(row.state) <= rank(states[e])
        /\ row.banner => row.state = "open"

RowsInv ==
    /\ \A e \in Endpoint :
          RowOK(e, rows[e]) /\ (results # None => RowOK(e, results[e]))
    /\ rpc = "states" => ckpt.round >= Attempts

(* All rounds of the saved checkpoint are swept: nobody is left out. *)
LEMMA SweptCovers ==
    ASSUME TypeInv, CheckpointCovers, ckpt.round >= Attempts
    PROVE  \A r \in Round, e \in Endpoint : Covered(r, e)
<1>1. ASSUME NEW r \in Round PROVE r < ckpt.round
  BY SizeAssumption DEF Round, TypeInv, TypeOK, FilesOK
<1>. QED
  BY <1>1 DEF CheckpointCovers

LEMMA RowKept ==
    ASSUME TypeInv, TypeInv', ScanKept, NEW e \in Endpoint,
           NEW row \in Row \cup {None}, RowOK(e, row)
    PROVE  RowOK(e, row)'
<1>1. /\ rank(states[e]) \in Int /\ rank(states'[e]) \in Int
      /\ rank(states'[e]) >= rank(states[e])
  BY RankType DEF TypeInv, TypeOK, FilesOK, ScanKept
<1>2. row # None => rank(row.state) \in Int
  BY RankType DEF Row
<1>. QED
  BY <1>1, <1>2 DEF RowOK, ScanKept

LEMMA RowsStep ==
    ASSUME TypeInv, TypeInv', CheckpointCovers, LinesOpen, ReadersOK, RowsInv,
           [Next]_vars => ScanKept, [NextReaders]_allVars
    PROVE  RowsInv'
<1>t. /\ states \in [Endpoint -> TargetState] /\ log.lines \subseteq Endpoint
      /\ ckpt.round \in Nat /\ Attempts \in Nat
  BY SizeAssumption DEF TypeInv, TypeOK, FilesOK
<1>r. rows \in [Endpoint -> Row \cup {None}]
  BY DEF ReadersOK
<1>1. CASE ScanStep
  <2>1. ScanKept /\ rows' = rows /\ results' = results /\ rpc' = rpc
    BY <1>1 DEF ScanStep
  <2>2. ASSUME NEW e \in Endpoint
        PROVE  RowOK(e, rows[e])' /\ (results' # None => RowOK(e, results[e])')
    <3>1. RowOK(e, rows[e])'
      <4>1. PICK row \in Row \cup {None} : row = rows[e]
        BY <1>r
      <4>2. RowOK(e, row)'
        BY <2>1, <4>1, RowKept DEF RowsInv
      <4>. QED
        BY <2>1, <4>1, <4>2 DEF RowOK
    <3>2. ASSUME results' # None PROVE RowOK(e, results[e])'
      <4>1. PICK row \in Row \cup {None} : row = results[e]
        BY <2>1, <3>2 DEF ReadersOK
      <4>2. RowOK(e, row)'
        BY <2>1, <3>2, <4>1, RowKept DEF RowsInv
      <4>. QED
        BY <2>1, <4>1, <4>2 DEF RowOK
    <3>. QED
      BY <3>1, <3>2
  <2>3. rpc' = "states" => ckpt'.round >= Attempts
    <3>1. ckpt'.round \in Nat /\ ckpt'.round >= ckpt.round
      BY <2>1, SizeAssumption DEF ScanKept, TypeInv, TypeOK, FilesOK
    <3>. QED
      BY <1>t, <2>1, <3>1 DEF RowsInv
  <2>. QED
    BY <2>2, <2>3 DEF RowsInv
<1>2. CASE ReadStep \/ UNCHANGED allVars
  <2>0. UNCHANGED <<ckpt, states, log, probed>>
    BY <1>2, ReadFrame, FilesFrame
  <2>1. ASSUME NEW e \in Endpoint, NEW row \in Row \cup {None}, RowOK(e, row)
        PROVE  RowOK(e, row)'
    BY <2>0, <2>1 DEF RowOK
  <2>e. ASSUME NEW e \in Endpoint PROVE RowOK(e, rows[e])
    BY DEF RowsInv
  <2>2. CASE ExportEvents
    <3>1. ASSUME NEW e \in Endpoint PROVE RowOK(e, rows[e])'
      <4>1. CASE e \in log.lines
        <5>1. states'[e] = "open" /\ rows'[e] = [state |-> "open", banner |-> TRUE]
          BY <2>0, <2>2, <4>1 DEF LinesOpen, Open, ExportEvents
        <5>. QED
          BY <5>1 DEF RowOK, rank
      <4>2. CASE e \notin log.lines
        BY <2>2, <4>2 DEF ExportEvents, RowOK
      <4>. QED
        BY <4>1, <4>2
    <3>. QED
      BY <2>0, <2>2, <3>1 DEF ExportEvents, RowsInv, RowOK
  <2>3. CASE ExportState
    <3>1. ASSUME NEW e \in Endpoint PROVE RowOK(e, rows[e])'
      <4>1. CASE e # pos \/ rows[e] # None
        <5>1. rows'[e] = rows[e]
          BY <1>r, <2>3, <4>1 DEF ExportState, or_insert
        <5>. QED
          BY <2>0, <2>e, <5>1 DEF RowOK
      <4>2. CASE e = pos /\ rows[e] = None
        <5>1. rows'[e] = [state |-> states[e], banner |-> FALSE]
          BY <1>r, <2>3, <4>2 DEF ExportState, or_insert, decode
        <5>2. states[e] = "no_response" => \A r \in Round : <<r, e>> \in probed
          BY <2>3, SweptCovers DEF RowsInv, ExportState, Covered
        <5>3. rank(states[e]) \in Int
          BY <1>t, RankType
        <5>. QED
          BY <2>0, <5>1, <5>2, <5>3 DEF RowOK
      <4>. QED
        BY <4>1, <4>2
    <3>. QED
      BY <2>0, <2>3, <3>1 DEF ExportState, RowsInv, RowOK
  <2>4. CASE ExportWrite
    <3>1. ASSUME NEW e \in Endpoint PROVE RowOK(e, rows[e])' /\ RowOK(e, results[e])'
      <4>1. rows'[e] = None /\ results'[e] \in {rows[e], None}
        BY <2>4 DEF ExportWrite, CommandEnds, NoRows, Selected
      <4>. QED
        BY <2>0, <2>e, <4>1 DEF RowOK
    <3>. QED
      BY <2>4, <3>1 DEF ExportWrite, CommandEnds, RowsInv
  <2>5. CASE ExportCheck
    BY <2>0, <2>5 DEF ExportCheck, CompleteEnough, ExportAllAllowed, RowsInv, RowOK
  <2>6. CASE /\ rows' = rows \/ rows' = NoRows
             /\ results' = results /\ (rpc' = rpc \/ rpc' # "states")
    BY <2>0, <2>6 DEF RowsInv, RowOK, NoRows
  <2>7. \/ ExportEvents \/ ExportState \/ ExportWrite \/ ExportCheck
        \/ /\ rows' = rows \/ rows' = NoRows
           /\ results' = results /\ (rpc' = rpc \/ rpc' # "states")
    BY <1>2
    DEF ReadStep, ExportOpen, ExportRefused, StatusOpen, StatusSummary,
        StatusNoSummary, read_state_counters, read_banner_counters,
        StatusCounted, StatusEnds, ListOpen, ListSummary, CommandEnds, allVars,
        readerVars
  <2>. QED
    BY <2>2, <2>3, <2>4, <2>5, <2>6, <2>7
<1>. QED
  BY <1>1, <1>2 DEF NextReaders

-----------------------------------------------------------------------------
(* Status and listing.  A command knows the checkpoint it has read; the    *)
(* scan has moved on from there, unless nobody was scanning.               *)

QuietInv ==
    /\ quiet => pc = "down"
    /\ rpc \in {"summary", "count_states", "count_banners", "list"} =>
          /\ meta.round <= ckpt.round
          /\ quiet => meta = ckpt

LEMMA QuietStep ==
    ASSUME TypeInv, TypeInv', PlaceInv, ReadersOK, QuietInv,
           [Next]_vars => ScanKept, [NextReaders]_allVars
    PROVE  QuietInv'
<1>t. /\ ckpt.round \in Nat /\ ckpt'.round \in Nat /\ meta.round \in Nat
  BY SizeAssumption DEF TypeInv, TypeOK, FilesOK, ReadersOK
<1>1. CASE ScanStep
  <2>1. ~quiet'
    BY <1>1, OnlyStarts DEF ScanStep, QuietInv
  <2>2. ckpt'.round >= ckpt.round /\ rpc' = rpc /\ meta' = meta
    BY <1>1 DEF ScanStep, ScanKept
  <2>. QED
    BY <1>t, <2>1, <2>2 DEF QuietInv
<1>2. CASE ReadStep \/ UNCHANGED allVars
  <2>0. ckpt' = ckpt /\ pc' = pc
    BY <1>2, ReadFrame, FilesFrame
  <2>1. CASE \/ StatusOpen \/ ListOpen \/ \E o \in Options : ExportOpen(o)
    <3>1. quiet' = (pc = "down")
      BY <2>1 DEF StatusOpen, ListOpen, ExportOpen
    <3>2. quiet' => pc' = "down"
      BY <2>0, <3>1, Zenon
    <3>3. \/ rpc' \notin {"summary", "count_states", "count_banners", "list"}
          \/ meta' = ckpt'
      BY <2>0, <2>1 DEF StatusOpen, ListOpen, ExportOpen
    <3>. QED
      BY <1>t, <2>0, <3>2, <3>3 DEF QuietInv
  <2>2. CASE /\ quiet' = quiet
             /\ \/ rpc' \notin {"summary", "count_states", "count_banners", "list"}
                \/ /\ rpc \in {"summary", "count_states", "count_banners", "list"}
                   /\ meta' = meta
    BY <2>0, <2>2 DEF QuietInv
  <2>3. \/ StatusOpen \/ ListOpen \/ \E o \in Options : ExportOpen(o)
        \/ /\ quiet' = quiet
           /\ \/ rpc' \notin {"summary", "count_states", "count_banners", "list"}
              \/ /\ rpc \in {"summary", "count_states", "count_banners", "list"}
                 /\ meta' = meta
    BY <1>2
    DEF ReadStep, ExportEvents, ExportCheck, ExportState, ExportWrite,
        ExportRefused, StatusSummary, StatusNoSummary, read_state_counters,
        read_banner_counters, StatusCounted, StatusEnds, ListSummary,
        CommandEnds, allVars, readerVars
  <2>. QED
    BY <2>1, <2>2, <2>3
<1>. QED
  BY <1>1, <1>2 DEF NextReaders

(* The counters are of what was open, or done, when it was read. *)
OpenBefore(n) == {e \in Open : e < n}
DoneBefore(n) == {e \in Done : e < n}

CountInv ==
    /\ rpc = "count_states" =>
          pos \in Endpoint /\ finished = 0 /\ opened <= Cardinality(OpenBefore(pos))
    /\ rpc = "count_banners" =>
          opened <= Cardinality(Open) /\ finished <= Cardinality(DoneBefore(pos))

LEMMA CountOne ==
    ASSUME NEW S \in SUBSET Endpoint, NEW n \in Endpoint
    PROVE  /\ Cardinality({e \in S : e < n}) \in Nat
           /\ Cardinality({e \in S : e < n + 1}) \in Nat
           /\ Cardinality({e \in S : e < n + 1}) =
                 Cardinality({e \in S : e < n}) + IF n \in S THEN 1 ELSE 0
           /\ n + 1 = N => {e \in S : e < n + 1} = S
           /\ {e \in S : e < 0} = {} /\ Cardinality({}) = 0
<1>0. /\ \A e \in S : e \in Int /\ 0 <= e /\ e < N
      /\ n \in Int /\ 0 <= n /\ N \in Nat
  BY SizeAssumption DEF Endpoint
<1>1. PICK T \in SUBSET Endpoint : T = {e \in S : e < n}
  OBVIOUS
<1>2. IsFiniteSet(T) /\ Cardinality(T) \in Nat
  BY EndpointFinite
<1>3. n \notin T
  BY <1>1, SizeAssumption DEF Endpoint
<1>4. {e \in S : e < n + 1} = IF n \in S THEN T \cup {n} ELSE T
  <2>1. \A e \in S : e < n + 1 <=> e < n \/ e = n
    BY <1>0
  <2>2. \A e : e \in {x \in S : x < n + 1} <=> e \in T \/ (e = n /\ n \in S)
    BY <1>1, <2>1, Zenon
  <2>. QED
    BY <2>2
<1>5. Cardinality(T \cup {n}) = Cardinality(T) + 1
  BY <1>2, <1>3, FS_AddElement
<1>6. Cardinality({e \in S : e < n + 1}) = Cardinality(T) + IF n \in S THEN 1 ELSE 0
  <2>1. CASE n \in S
    BY <1>4, <1>5, <2>1
  <2>2. CASE n \notin S
    BY <1>2, <1>4, <2>2
  <2>. QED
    BY <2>1, <2>2
<1>7. n + 1 = N => {e \in S : e < n + 1} = S
  <2>1. n + 1 = N => \A e \in S : e < n + 1
    BY <1>0
  <2>. QED
    BY <2>1, Zenon
<1>8. {e \in S : e < 0} = {} /\ Cardinality({}) = 0
  <2>1. \A e \in S : ~(e < 0)
    BY <1>0
  <2>. QED
    BY <2>1, FS_EmptySet
<1>. QED
  BY <1>1, <1>2, <1>6, <1>7, <1>8

LEMMA CountStep ==
    ASSUME TypeInv, TypeInv', ReadersOK, CountInv,
           [Next]_vars => ScanKept, [NextReaders]_allVars
    PROVE  CountInv'
<1>s. /\ Open \in SUBSET Endpoint /\ Done \in SUBSET Endpoint
      /\ Open' \in SUBSET Endpoint /\ Done' \in SUBSET Endpoint
  BY DEF Open, Done
<1>t. opened \in Nat /\ finished \in Nat /\ N \in Nat \ {0} /\ pos \in 0 .. N
  BY SizeAssumption DEF ReadersOK
<1>1. CASE ScanStep
  <2>1. UNCHANGED <<rpc, pos, opened, finished>> /\ Open \subseteq Open' /\ Done \subseteq Done'
    BY <1>1 DEF ScanStep, ScanKept
  <2>2. PICK a \in SUBSET Endpoint, b \in SUBSET Endpoint,
             c \in SUBSET Endpoint, d \in SUBSET Endpoint :
          /\ a = OpenBefore(pos) /\ b = DoneBefore(pos)
          /\ c = OpenBefore(pos)' /\ d = DoneBefore(pos)'
    BY <1>s DEF OpenBefore, DoneBefore
  <2>3. a \subseteq c /\ b \subseteq d
    BY <2>1, <2>2 DEF OpenBefore, DoneBefore
  <2>4. /\ Cardinality(a) \in Nat /\ Cardinality(b) \in Nat
        /\ Cardinality(c) \in Nat /\ Cardinality(d) \in Nat
        /\ Cardinality(a) <= Cardinality(c) /\ Cardinality(b) <= Cardinality(d)
        /\ Cardinality(Open) \in Nat /\ Cardinality(Open') \in Nat
        /\ Cardinality(Open) <= Cardinality(Open')
    BY <1>s, <2>1, <2>3, SubsetCount
  <2>5. rpc' = "count_states" =>
          pos' \in Endpoint /\ finished' = 0 /\ opened' <= Cardinality(c)
    BY <1>t, <2>1, <2>2, <2>4 DEF CountInv
  <2>6. rpc' = "count_banners" =>
          opened' <= Cardinality(Open') /\ finished' <= Cardinality(d)
    BY <1>t, <2>1, <2>2, <2>4 DEF CountInv
  <2>. QED
    BY <2>2, <2>5, <2>6 DEF CountInv
<1>2. CASE ReadStep \/ UNCHANGED allVars
  <2>0. Open' = Open /\ Done' = Done /\ states' = states /\ banner' = banner
    BY <1>2, ReadFrame, FilesFrame
  <2>1. CASE StatusNoSummary
    <3>1. Cardinality(OpenBefore(0)) = 0 /\ 0 \in Endpoint
      <4>1. 0 \in Endpoint
        BY SizeAssumption DEF Endpoint
      <4>. QED
        BY <1>s, <4>1, CountOne DEF OpenBefore
    <3>2. OpenBefore(pos)' = OpenBefore(0)
      BY <2>0, <2>1 DEF OpenBefore, StatusNoSummary
    <3>3. rpc' = "count_states" /\ pos' = 0 /\ opened' = 0 /\ finished' = 0
      BY <2>1 DEF StatusNoSummary
    <3>. QED
      BY <3>1, <3>2, <3>3 DEF CountInv
  <2>2. CASE read_state_counters
    <3>1. /\ rpc = "count_states" /\ pos \in Endpoint /\ finished' = finished
          /\ opened' = IF pos \in Open THEN opened + 1 ELSE opened
          /\ rpc' = IF pos + 1 = N THEN "count_banners" ELSE rpc
          /\ pos' = IF pos + 1 = N THEN 0 ELSE pos + 1
      BY <2>2 DEF read_state_counters, IsOpen, Open
    <3>2. PICK m \in Nat, n \in Nat :
             m = Cardinality(OpenBefore(pos)) /\ n = Cardinality(OpenBefore(pos + 1))
             /\ n = m + IF pos \in Open THEN 1 ELSE 0
      <4>1. /\ Cardinality({e \in Open : e < pos}) \in Nat
            /\ Cardinality({e \in Open : e < pos + 1}) \in Nat
            /\ Cardinality({e \in Open : e < pos + 1}) =
                 Cardinality({e \in Open : e < pos}) + IF pos \in Open THEN 1 ELSE 0
        BY <1>s, <3>1, CountOne
      <4>. QED
        BY <4>1, Zenon DEF OpenBefore
    <3>3. opened' <= n /\ opened' \in Nat /\ finished' = 0
      BY <1>t, <3>1, <3>2 DEF CountInv
    <3>4. CASE pos + 1 = N
      <4>1. OpenBefore(pos + 1) = Open
        BY <1>s, <3>1, <3>4, CountOne DEF OpenBefore
      <4>2. Cardinality(DoneBefore(pos)') \in Nat
        BY <1>s, SubsetCount DEF DoneBefore
      <4>3. opened' <= Cardinality(Open') /\ finished' <= Cardinality(DoneBefore(pos)')
        BY <2>0, <3>2, <3>3, <4>1, <4>2
      <4>. QED
        BY <3>1, <3>4, <4>3 DEF CountInv
    <3>5. CASE pos + 1 # N
      <4>1. OpenBefore(pos)' = OpenBefore(pos + 1) /\ pos + 1 \in Endpoint
        BY <1>t, <2>0, <3>1, <3>5 DEF OpenBefore, Endpoint
      <4>. QED
        BY <3>1, <3>2, <3>3, <3>5, <4>1 DEF CountInv
    <3>. QED
      BY <3>4, <3>5
  <2>3. CASE read_banner_counters
    <3>1. /\ rpc = "count_banners" /\ rpc' = rpc /\ pos \in Endpoint /\ pos' = pos + 1
          /\ opened' = opened
          /\ finished' = IF pos \in Done THEN finished + 1 ELSE finished
      BY <2>3 DEF read_banner_counters, Done
    <3>2. PICK m \in Nat, n \in Nat :
             m = Cardinality(DoneBefore(pos)) /\ n = Cardinality(DoneBefore(pos + 1))
             /\ n = m + IF pos \in Done THEN 1 ELSE 0
      <4>1. /\ Cardinality({e \in Done : e < pos}) \in Nat
            /\ Cardinality({e \in Done : e < pos + 1}) \in Nat
            /\ Cardinality({e \in Done : e < pos + 1}) =
                 Cardinality({e \in Done : e < pos}) + IF pos \in Done THEN 1 ELSE 0
        BY <1>s, <3>1, CountOne
      <4>. QED
        BY <4>1, Zenon DEF DoneBefore
    <3>3. finished' <= n /\ DoneBefore(pos)' = DoneBefore(pos + 1)
      BY <1>t, <2>0, <3>1, <3>2 DEF CountInv, DoneBefore
    <3>4. opened' <= Cardinality(Open')
      BY <2>0, <3>1 DEF CountInv
    <3>. QED
      BY <3>1, <3>2, <3>3, <3>4 DEF CountInv
  <2>4. CASE \/ rpc' \notin {"count_states", "count_banners"}
             \/ UNCHANGED <<rpc, pos, opened, finished>>
    <3>1. pos' = pos => /\ OpenBefore(pos)' = OpenBefore(pos)
                        /\ DoneBefore(pos)' = DoneBefore(pos)
      BY <2>0 DEF OpenBefore, DoneBefore
    <3>. QED
      BY <2>0, <2>4, <3>1 DEF CountInv
  <2>5. \/ StatusNoSummary \/ read_state_counters \/ read_banner_counters
        \/ rpc' \notin {"count_states", "count_banners"}
        \/ UNCHANGED <<rpc, pos, opened, finished>>
    BY <1>2
    DEF ReadStep, ExportOpen, ExportEvents, ExportCheck, ExportState, ExportWrite,
        ExportRefused, StatusOpen, StatusSummary, StatusCounted, StatusEnds,
        ListOpen, ListSummary, CommandEnds, allVars, readerVars
  <2>. QED
    BY <2>1, <2>2, <2>3, <2>4, <2>5
<1>. QED
  BY <1>1, <1>2 DEF NextReaders

AllCovered == \A r \in Round, e \in Endpoint : Covered(r, e)

LEMMA CoveredKept ==
    ASSUME TypeInv, TypeInv', ScanKept, AllCovered
    PROVE  AllCovered'
<1>1. ASSUME NEW e \in Endpoint, states[e] # "no_response"
      PROVE  states'[e] # "no_response"
  <2>1. /\ states[e] \in TargetState /\ states'[e] \in TargetState
        /\ rank(states'[e]) >= rank(states[e])
    BY DEF TypeInv, TypeOK, FilesOK, ScanKept
  <2>. QED
    BY <1>1, <2>1 DEF rank, TargetState
<1>. QED
  BY <1>1 DEF AllCovered, Covered, ScanKept

(* What a status, old or new, says of the job *)
StatusFits(s) ==
    /\ s.completed => AllCovered
    /\ s.open <= Cardinality(Open)
    /\ s.done <= Cardinality(Done)
    /\ s.incomplete <= N

ReportsInv ==
    /\ status # None => StatusFits(status)
    /\ listed # None /\ listed.status = "completed" => AllCovered

LEMMA BuiltFits ==
    ASSUME TypeInv, CheckpointCovers, SummaryInv, ReadersOK,
           NEW s \in {summary, None}, NEW n_open \in Nat, NEW n_done \in Nat,
           n_open <= Cardinality(Open), n_done <= Cardinality(Done),
           s = None => meta.round <= ckpt.round
    PROVE  StatusFits(build_job_status(s, n_open, n_done))
<1>0. /\ meta.round \in Nat /\ ckpt.round \in Nat /\ Attempts \in Nat
      /\ N \in Nat /\ Cardinality(Open) \in Nat /\ Cardinality(Open) <= N
  <2>1. Open \in SUBSET Endpoint
    BY DEF Open
  <2>. QED
    BY <2>1, SubsetCount, SizeAssumption DEF ReadersOK, TypeInv, TypeOK, FilesOK
<1>1. PICK b : b = build_job_status(s, n_open, n_done)
  OBVIOUS
<1>2. /\ b.completed = completed(s) /\ b.open = n_open /\ b.done = n_done
      /\ b.incomplete = IF s = None THEN failed_or_incomplete(n_open, n_done)
                                    ELSE s.incomplete
  BY <1>1, Zenon DEF build_job_status
<1>3. completed(s) => AllCovered
  <2>1. completed(s) => ckpt.round >= Attempts
    <3>1. CASE s = None
      <4>1. completed(s) => rounds_swept
        BY <3>1, Zenon DEF completed
      <4>. QED
        BY <1>0, <3>1, <4>1 DEF rounds_swept
    <3>2. CASE s # None
      <4>1. completed(s) => summary.completed /\ summary # None
        BY <3>2, Zenon DEF completed
      <4>. QED
        BY <4>1 DEF SummaryInv
    <3>. QED
      BY <3>1, <3>2
  <2>. QED
    BY <2>1, SweptCovers DEF AllCovered
<1>4. b.incomplete <= N
  <2>1. CASE s = None
    BY <1>0, <1>2, <2>1 DEF failed_or_incomplete, saturating_sub
  <2>2. CASE s # None
    BY <1>2, <2>2 DEF SummaryInv
  <2>. QED
    BY <2>1, <2>2
<1>5. b.completed => AllCovered
  BY <1>2, <1>3, Zenon
<1>. QED
  BY <1>1, <1>2, <1>4, <1>5 DEF StatusFits

LEMMA ReportsStep ==
    ASSUME TypeInv, TypeInv', CheckpointCovers, SummaryInv, ReadersOK, QuietInv,
           CountInv, ReportsInv, [Next]_vars => ScanKept, [NextReaders]_allVars
    PROVE  ReportsInv'
<1>s. /\ Cardinality(Open) \in Nat /\ Cardinality(Done) \in Nat
      /\ Cardinality(Open') \in Nat /\ Cardinality(Done') \in Nat
  <2>1. /\ Open \in SUBSET Endpoint /\ Done \in SUBSET Endpoint
        /\ Open' \in SUBSET Endpoint /\ Done' \in SUBSET Endpoint
    BY DEF Open, Done
  <2>. QED
    BY <2>1, SubsetCount
<1>1. CASE ScanStep
  <2>1. ScanKept /\ status' = status /\ listed' = listed
    BY <1>1 DEF ScanStep
  <2>2. AllCovered => AllCovered'
    BY <2>1, CoveredKept
  <2>3. ASSUME status # None PROVE StatusFits(status)'
    <3>1. status.open \in Nat /\ status.done \in Nat /\ StatusFits(status)
      BY <2>3 DEF ReadersOK, Status, ReportsInv
    <3>. QED
      BY <1>s, <2>1, <2>2, <3>1 DEF StatusFits, ScanKept
  <2>. QED
    BY <2>1, <2>2, <2>3 DEF ReportsInv
<1>2. CASE ReadStep \/ UNCHANGED allVars
  <2>0. /\ Cardinality(Open)' = Cardinality(Open) /\ Cardinality(Done)' = Cardinality(Done)
        /\ AllCovered' <=> AllCovered
    <3>1. UNCHANGED <<states, probed>> /\ Open' = Open /\ Done' = Done
      BY <1>2, ReadFrame, FilesFrame
    <3>. QED
      BY <3>1 DEF AllCovered, Covered
  <2>1. CASE StatusSummary \/ StatusCounted
    <3>1. PICK b : b = status' /\ StatusFits(b)
      <4>1. CASE StatusSummary
        <5>1. summary \in Summary /\ summary # None
          BY <4>1 DEF StatusSummary, TypeInv, TypeOK, FilesOK
        <5>2. /\ summary.open \in Nat /\ summary.done \in Nat
              /\ summary.open <= Cardinality(Open) /\ summary.done <= Cardinality(Done)
          BY <5>1 DEF Summary, SummaryInv
        <5>. QED
          BY <4>1, <5>1, <5>2, BuiltFits DEF StatusSummary
      <4>2. CASE StatusCounted
        <5>1. rpc = "count_banners" /\ pos = N
          BY <4>2 DEF StatusCounted
        <5>2. DoneBefore(pos) \in SUBSET Endpoint /\ DoneBefore(pos) \subseteq Done
              /\ Done \in SUBSET Endpoint
          BY DEF DoneBefore, Done
        <5>3. Cardinality(DoneBefore(pos)) <= Cardinality(Done)
              /\ Cardinality(DoneBefore(pos)) \in Nat
          BY <5>2, SubsetCount
        <5>4. /\ opened \in Nat /\ finished \in Nat /\ meta.round <= ckpt.round
              /\ opened <= Cardinality(Open) /\ finished <= Cardinality(Done)
          BY <1>s, <5>1, <5>3 DEF CountInv, QuietInv, ReadersOK
        <5>. QED
          BY <4>2, <5>4, BuiltFits DEF StatusCounted
      <4>. QED
        BY <2>1, <4>1, <4>2
    <3>2. listed' = listed
      BY <2>1 DEF StatusSummary, StatusCounted
    <3>. QED
      BY <2>0, <3>1, <3>2 DEF ReportsInv, StatusFits
  <2>2. CASE ListSummary
    <3>1. status' = status /\ (listed'.status = list_status(summary))
      BY <2>2 DEF ListSummary
    <3>2. list_status(summary) = "completed" => summary # None /\ summary.completed
      BY DEF list_status
    <3>3. listed'.status = "completed" => AllCovered
      BY <3>1, <3>2, SweptCovers DEF SummaryInv, AllCovered
    <3>. QED
      BY <2>0, <3>1, <3>3 DEF ReportsInv, StatusFits
  <2>3. CASE UNCHANGED <<status, listed>>
    BY <2>0, <2>3 DEF ReportsInv, StatusFits
  <2>4. StatusSummary \/ StatusCounted \/ ListSummary \/ UNCHANGED <<status, listed>>
    BY <1>2
    DEF ReadStep, ExportOpen, ExportEvents, ExportCheck, ExportState, ExportWrite,
        ExportRefused, StatusOpen, StatusNoSummary, read_state_counters,
        read_banner_counters, StatusEnds, ListOpen, allVars, readerVars
  <2>. QED
    BY <2>1, <2>2, <2>3, <2>4
<1>. QED
  BY <1>1, <1>2 DEF NextReaders

-----------------------------------------------------------------------------
(* The image of a job at rest.  Nobody else moves, so the rows collected   *)
(* so far are exactly those of the records and of the bytes passed.        *)

EventRow == [state |-> "open", banner |-> TRUE]
StateRow(e) == [state |-> states[e], banner |-> FALSE]

(* synthesize_missing_results has passed the endpoint *)
Passed(e) == opts.output_all /\ (rpc = "write" \/ (rpc = "states" /\ e < pos))

RowImage(e) ==
    rows[e] = IF e \in log.lines THEN EventRow
              ELSE IF Passed(e) THEN StateRow(e) ELSE None

ImageInv ==
    /\ rpc \in {"check", "states"} => opts.output_all
    /\ rpc = "states" => pos \in Endpoint
    /\ rpc \in {"check", "states", "write"} /\ quiet =>
          \A e \in Endpoint : RowImage(e)

LEMMA ImageStep ==
    ASSUME TypeInv, PlaceInv, ReadersOK, QuietInv, ImageInv, [NextReaders]_allVars
    PROVE  ImageInv'
<1>t. /\ rows \in [Endpoint -> Row \cup {None}] /\ pos \in 0 .. N
      /\ states \in [Endpoint -> TargetState]
  BY DEF ReadersOK, TypeInv, TypeOK, FilesOK
<1>1. CASE ScanStep
  <2>1. ~quiet'
    BY <1>1, OnlyStarts DEF ScanStep, QuietInv
  <2>2. UNCHANGED <<rpc, opts, pos>>
    BY <1>1 DEF ScanStep
  <2>. QED
    BY <2>1, <2>2 DEF ImageInv
<1>2. CASE ReadStep \/ UNCHANGED allVars
  <2>0. states' = states /\ log' = log
    BY <1>2, ReadFrame, FilesFrame
  <2>1. CASE ExportEvents
    <3>1. /\ opts' = opts
          /\ rpc' = IF opts.output_all THEN "check" ELSE "write"
          /\ rows' = [e \in Endpoint |-> IF e \in log.lines THEN EventRow ELSE None]
      BY <2>1 DEF ExportEvents, EventRow
    <3>2. ASSUME NEW e \in Endpoint PROVE RowImage(e)'
      <4>1. ~Passed(e)'
        BY <3>1 DEF Passed
      <4>. QED
        BY <2>0, <3>1, <4>1 DEF RowImage, EventRow
    <3>. QED
      BY <3>1, <3>2 DEF ImageInv
  <2>2. CASE ExportCheck
    <3>1. /\ rpc = "check" /\ rpc' = "states" /\ pos' = 0
          /\ UNCHANGED <<opts, rows, quiet>>
      BY <2>2 DEF ExportCheck
    <3>2. 0 \in Endpoint /\ \A e \in Endpoint : ~(e < 0)
      BY SizeAssumption DEF Endpoint
    <3>3. ASSUME NEW e \in Endpoint, quiet PROVE RowImage(e)'
      <4>1. ~Passed(e)' /\ ~Passed(e) /\ RowImage(e)
        BY <3>1, <3>2, <3>3 DEF Passed, ImageInv
      <4>. QED
        BY <2>0, <3>1, <4>1 DEF RowImage, EventRow
    <3>. QED
      BY <3>1, <3>2, <3>3 DEF ImageInv
  <2>3. CASE ExportState
    <3>1. /\ rpc = "states" /\ pos \in Endpoint /\ pos' = pos + 1
          /\ rpc' = IF pos + 1 = N THEN "write" ELSE rpc
          /\ UNCHANGED <<opts, quiet>> /\ opts.output_all
          /\ rows' = [rows EXCEPT ![pos] = or_insert(rows[pos], StateRow(pos))]
      BY <2>3 DEF ExportState, ImageInv, decode, StateRow
    <3>2. rpc' = "states" => pos' \in Endpoint
      BY <3>1, SizeAssumption DEF Endpoint
    <3>3. ASSUME NEW e \in Endpoint, quiet PROVE RowImage(e)'
      <4>1. RowImage(e) /\ (Passed(e) <=> e < pos)
        BY <3>1, <3>3 DEF ImageInv, Passed
      <4>2. Passed(e)' <=> e < pos \/ e = pos
        <5>1. e \in Int /\ pos \in Int /\ e < N /\ N \in Int
          BY <3>1, SizeAssumption DEF Endpoint
        <5>2. Passed(e)' <=> (rpc' = "write" \/ (rpc' = "states" /\ e < pos + 1))
          BY <3>1 DEF Passed
        <5>3. CASE pos + 1 = N
          BY <3>1, <5>1, <5>2, <5>3
        <5>4. CASE pos + 1 # N
          BY <3>1, <5>1, <5>2, <5>4
        <5>. QED
          BY <5>3, <5>4
      <4>3. StateRow(e)' = StateRow(e)
        BY <2>0 DEF StateRow
      <4>4. EventRow # None
        <5>1. EventRow \in Row
          BY DEF EventRow, Row, TargetState
        <5>. QED
          BY <5>1, RowAssumption
      <4>5. CASE e # pos
        <5>1. rows'[e] = rows[e] /\ (Passed(e)' <=> Passed(e))
          BY <1>t, <3>1, <4>1, <4>2, <4>5
        <5>. QED
          BY <2>0, <4>1, <4>3, <5>1 DEF RowImage, EventRow
      <4>6. CASE e = pos
        <5>1. rows'[e] = or_insert(rows[e], StateRow(e)) /\ Passed(e)'
          BY <1>t, <3>1, <4>2, <4>6
        <5>2. ~Passed(e)
          BY <4>1, <4>6, SizeAssumption DEF Endpoint
        <5>. QED
          BY <2>0, <4>1, <4>3, <4>4, <5>1, <5>2 DEF RowImage, EventRow, or_insert
      <4>. QED
        BY <4>5, <4>6
    <3>. QED
      BY <3>1, <3>2, <3>3 DEF ImageInv
  <2>4. CASE rpc' \notin {"check", "states", "write"}
    BY <2>4 DEF ImageInv
  <2>5. CASE UNCHANGED allVars
    <3>1. UNCHANGED <<rpc, opts, pos, rows, quiet>>
      BY <2>5 DEF allVars, readerVars
    <3>. QED
      BY <2>0, <3>1 DEF ImageInv, RowImage, EventRow, StateRow, Passed
  <2>6. \/ ExportEvents \/ ExportCheck \/ ExportState
        \/ rpc' \notin {"check", "states", "write"} \/ UNCHANGED allVars
    BY <1>2
    DEF ReadStep, ExportOpen, ExportWrite, ExportRefused, StatusOpen, StatusSummary,
        StatusNoSummary, read_state_counters, read_banner_counters,
        StatusCounted, StatusEnds, ListOpen, ListSummary, CommandEnds
  <2>. QED
    BY <2>1, <2>2, <2>3, <2>4, <2>5, <2>6
<1>. QED
  BY <1>1, <1>2 DEF NextReaders

LEMMA ExactStep ==
    ASSUME TypeInv, LinesOpen, ReadersOK, ImageInv, [NextReaders]_allVars,
           results' # results, quiet, opts.state = None, ~opts.banner,
           NEW e \in Endpoint
    PROVE  IF opts.output_all
           THEN results'[e] = [state |-> states[e], banner |-> e \in log.lines]
           ELSE (results'[e] # None) <=> e \in log.lines
<1>1. ExportWrite
  BY DEF NextReaders, ScanStep, ReadStep, ExportOpen, ExportEvents, ExportCheck,
         ExportState, ExportRefused, StatusOpen, StatusSummary,
         StatusNoSummary, read_state_counters, read_banner_counters,
         StatusCounted, StatusEnds, ListOpen, ListSummary, allVars, readerVars
<1>2. /\ rpc = "write" /\ RowImage(e)
      /\ results'[e] = IF rows[e] # None /\ includes(opts, rows[e]) THEN rows[e] ELSE None
  BY <1>1 DEF ExportWrite, ImageInv, Selected
<1>3. /\ EventRow \in Row /\ StateRow(e) \in Row
      /\ EventRow # None /\ StateRow(e) # None
  <2>1. EventRow \in Row /\ StateRow(e) \in Row
    BY DEF EventRow, StateRow, Row, TargetState, TypeInv, TypeOK, FilesOK
  <2>. QED
    BY <2>1, RowAssumption
<1>4. CASE e \in log.lines
  <2>1. rows[e] = EventRow /\ states[e] = "open"
    BY <1>2, <1>4 DEF RowImage, LinesOpen, Open
  <2>2. includes(opts, rows[e])
    BY <2>1 DEF includes, EventRow
  <2>3. results'[e] = EventRow /\ (e \in log.lines) = TRUE
    BY <1>2, <1>3, <1>4, <2>1, <2>2
  <2>. QED
    BY <1>3, <1>4, <2>1, <2>3 DEF EventRow
<1>5. CASE e \notin log.lines /\ opts.output_all
  <2>1. rows[e] = StateRow(e)
    BY <1>2, <1>5 DEF RowImage, Passed
  <2>2. includes(opts, rows[e])
    BY <1>5, <2>1 DEF includes
  <2>3. results'[e] = StateRow(e) /\ (e \in log.lines) = FALSE
    BY <1>2, <1>3, <1>5, <2>1, <2>2
  <2>. QED
    BY <1>5, <2>3 DEF StateRow
<1>6. CASE e \notin log.lines /\ ~opts.output_all
  BY <1>2, <1>6 DEF RowImage, Passed
<1>. QED
  BY <1>4, <1>5, <1>6

LEMMA AdviceStep ==
    ASSUME TypeInv, SummaryInv, QuietInv, [NextReaders]_allVars,
           status' # status, quiet, status'.next_action = "export"
    PROVE  ExportAllAllowed
<1>1. StatusSummary \/ StatusCounted
  BY DEF NextReaders, ScanStep, ReadStep, ExportOpen, ExportEvents, ExportCheck,
         ExportState, ExportWrite, ExportRefused, StatusOpen,
         StatusNoSummary, read_state_counters, read_banner_counters,
         StatusEnds, ListOpen, ListSummary, allVars, readerVars
<1>2. CASE StatusCounted
  <2>1. status'.next_action = next_action(None, completed(None))
    BY <1>2, Zenon DEF StatusCounted, build_job_status
  <2>. QED
    BY <2>1 DEF next_action
<1>3. CASE StatusSummary
  <2>1. status'.next_action = next_action(summary, completed(summary))
    BY <1>3, Zenon DEF StatusSummary, build_job_status
  <2>2. summary # None /\ rpc = "summary"
    BY <1>3 DEF StatusSummary
  <2>3. completed(summary) /\ ~degraded(summary)
    BY <2>1, <2>2 DEF next_action
  <2>4. summary.completed /\ ~meta.degraded
    BY <2>2, <2>3 DEF completed, degraded
  <2>5. meta = ckpt
    BY <2>2 DEF QuietInv
  <2>. QED
    BY <2>2, <2>4, <2>5 DEF SummaryInv, ExportAllAllowed
<1>. QED
  BY <1>1, <1>2, <1>3

-----------------------------------------------------------------------------
(* The theorems about the commands *)

CommandInv ==
    /\ LinesOpen /\ SummaryInv /\ ReadersOK /\ RowsInv
    /\ QuietInv /\ CountInv /\ ReportsInv /\ ImageInv

LEMMA CommandInit == InitReaders => CommandInv
<1>. SUFFICES ASSUME InitReaders PROVE CommandInv
  OBVIOUS
<1>1. LinesOpen /\ SummaryInv
  BY DEF InitReaders, Init, LinesOpen, SummaryInv
<1>2. ReadersOK
  BY SizeAssumption, ReadsAssumption
  DEF InitReaders, ReadersOK, NoOptions, Options, NoMeta, NoRows
<1>3. RowsInv /\ QuietInv /\ CountInv /\ ReportsInv /\ ImageInv
  BY DEF InitReaders, Init, RowsInv, RowOK, NoRows, QuietInv, CountInv, ReportsInv,
         ImageInv
<1>. QED
  BY <1>1, <1>2, <1>3 DEF CommandInv

LEMMA CommandStep ==
    ASSUME TypeInv, TypeInv', SweepInv, PlaceInv, CommandInv, [NextReaders]_allVars
    PROVE  CommandInv'
<1>1. [Next]_vars
  BY ReadFrame DEF NextReaders, ScanStep
<1>2. ScanKept
  BY <1>1, ScanKeeps
<1>3. CheckpointCovers
  BY DEF SweepInv
<1>4. LinesOpen' /\ SummaryInv'
  BY <1>1, <1>2, LinesOpenStep, SummaryInvStep DEF CommandInv
<1>5. ReadersOK' /\ RowsInv'
  BY <1>2, <1>3, ReadersTypeStep, RowsStep DEF CommandInv
<1>6. QuietInv' /\ CountInv'
  BY <1>2, QuietStep, CountStep DEF CommandInv
<1>7. ReportsInv' /\ ImageInv'
  BY <1>2, <1>3, ReportsStep, ImageStep DEF CommandInv
<1>. QED
  BY <1>4, <1>5, <1>6, <1>7 DEF CommandInv

(* CommandInv holds beside every scan (export_with_options, job_status,    *)
(* job_list_entry).                                                        *)
THEOREM CommandsInductive ==
    SpecReaders => [](TypeInv /\ SweepInv /\ PlaceInv /\ CommandInv)
<1>1. SpecReaders => [](TypeInv /\ SweepInv /\ PlaceInv)
  BY ScanBeside, SweepInductive, PlacesInductive, PTL
<1>2. TypeInv /\ SweepInv /\ PlaceInv /\ TypeInv' /\ CommandInv /\ [NextReaders]_allVars
        => CommandInv'
  BY CommandStep
<1>. QED
  BY <1>1, <1>2, CommandInit, PTL DEF SpecReaders

(* Whatever the scan does between the reads of an export, the export calls *)
(* a target silent only if it got a SYN in every round, and gives no       *)
(* target a higher state than it has (export_with_options,                 *)
(* synthesize_missing_results).                                            *)
THEOREM ExportIsTruthful == SpecReaders => []ExportTruthful
<1>1. RowsInv => ExportTruthful
  <2>. SUFFICES ASSUME RowsInv PROVE ExportTruthful
    OBVIOUS
  <2>1. ASSUME NEW e \in Endpoint, NEW row \in Exported(e) \ {None}
        PROVE  RowOK(e, row) /\ row # None
    BY DEF RowsInv, Exported
  <2>2. SilentWasProbed
    BY <2>1 DEF SilentWasProbed, RowOK
  <2>3. ExportNotAhead
    BY <2>1 DEF ExportNotAhead, RowOK
  <2>. QED
    BY <2>2, <2>3 DEF ExportTruthful
<1>. QED
  BY <1>1, CommandsInductive, PTL DEF CommandInv

(* A status or a listing says completed only of a job whose every target   *)
(* was dealt with in every round, and counts no more open targets and      *)
(* banners than there are (job_status, build_job_status, job_list_entry).  *)
THEOREM StatusIsTruthful == SpecReaders => []StatusTruthful
<1>1. ReadersOK /\ ReportsInv => StatusTruthful
  <2>. SUFFICES ASSUME ReadersOK, ReportsInv PROVE StatusTruthful
    OBVIOUS
  <2>1. CompletedWasSwept
    BY DEF ReportsInv, StatusFits, CompletedWasSwept, AllCovered
  <2>2. StatusNotAhead
    BY DEF ReportsInv, StatusFits, StatusNotAhead
  <2>. QED
    BY <2>1, <2>2 DEF StatusTruthful
<1>. QED
  BY <1>1, CommandsInductive, PTL DEF CommandInv

(* An export of a job nobody scans is its exact image: every target with   *)
(* its state and whether a banner was recorded, or every recorded banner   *)
(* (export_with_options, synthesize_missing_results).                      *)
THEOREM QuietExportIsExact == SpecReaders => QuietExportExact
<1>1. ASSUME TypeInv, LinesOpen, ReadersOK, ImageInv, [NextReaders]_allVars
      PROVE  [results' # results /\ quiet /\ opts.state = None /\ ~opts.banner =>
                \A e \in Endpoint :
                   IF opts.output_all
                   THEN results'[e] = [state |-> states[e], banner |-> e \in log.lines]
                   ELSE (results'[e] # None) <=> e \in log.lines]_allVars
  BY <1>1, ExactStep
<1>. QED
  BY <1>1, CommandsInductive, PTL DEF SpecReaders, QuietExportExact, CommandInv

(* The status of a job nobody scans suggests an export only if the full    *)
(* export is accepted (next_action, synthesize_missing_results).           *)
THEOREM AdviceIsGood == SpecReaders => AdviceHolds
<1>1. ASSUME TypeInv, SummaryInv, QuietInv, [NextReaders]_allVars
      PROVE  [status' # status /\ quiet /\ status'.next_action = "export" =>
                ExportAllAllowed]_allVars
  BY <1>1, AdviceStep
<1>. QED
  BY <1>1, CommandsInductive, PTL DEF SpecReaders, AdviceHolds, CommandInv

=============================================================================
