-------------------------- MODULE SimulationProofs --------------------------
(***************************************************************************)
(* Proofs about Simulation, for any number of targets, rounds and deaths   *)
(* and any simulated states.  The type invariant is not inductive, nor is  *)
(* StatesReproducible: that a later round never writes a state needs that  *)
(* whatever the first round passed has its final state, which needs that   *)
(* no checkpoint is ahead of the loop.                                     *)
(***************************************************************************)
EXTENDS Simulation, TLAPS, FiniteSetTheorems

InRound == pc \in {"loop", "state", "rtt", "event", "mark", "answered"}
Busy == pc \in {"state", "rtt", "event", "mark", "answered"}
Written == pc \in {"rtt", "event", "mark", "answered"}

DealtWith(r, e) == <<r, e>> \in probed \/ Answered(e)

(* the process works on the round of the checkpoint, at or after it *)
ProcOK ==
    /\ pc # "down" => meta.round = ckpt.round
    /\ InRound => meta.round < Attempts /\ ckpt.next <= order
    /\ Busy => order < N /\ <<meta.round, order>> \in probed
    /\ pc \in {"finish", "summary"} => meta.round = Attempts

(* what the checkpoint and the loop have passed was dealt with *)
CoverOK ==
    /\ \A r \in Round, e \in Endpoint :
          r < ckpt.round \/ (r = ckpt.round /\ e < ckpt.next) => DealtWith(r,
          e)
    /\ InRound => \A e \in Endpoint : e < order => DealtWith(meta.round, e)

(* ... and has its final state; only the first round writes states *)
StateOK ==
    /\ \A e \in Endpoint : state[e] \in {Silent, Expected(e)}
    /\ \A e \in Endpoint :
          ckpt.round > 0 \/ e < ckpt.next => state[e] = Expected(e)
    /\ InRound => \A e \in Endpoint : e < order => state[e] = Expected(e)
    /\ pc = "state" => meta.round = 0
    /\ Busy => simulated_state[order] # "no_response"
    /\ Written => state[order] = Expected(order)

(* the record of a target is written once its state is *)
EventsOK ==
    /\ \A e \in Endpoint : /\ events[e] <= 1
                           /\ banner[e] => events[e] = 1
                           /\ events[e] = 1 => Answered(e)
    /\ pc \in {"state", "rtt", "event"} => events[order] = 0
    /\ pc = "mark" => events[order] = 1

SummaryOK == summary # None => ckpt.round = Attempts

SimInv == TypeOK /\ ProcOK /\ CoverOK /\ StateOK /\ EventsOK /\ SummaryOK

-----------------------------------------------------------------------------
(* Each part of the invariant is kept by every step *)

(* What the type invariant says of the numbers *)
Sizes ==
    /\ N \in Nat /\ Attempts \in Nat
    /\ ckpt.round \in Nat /\ ckpt.round <= Attempts
    /\ ckpt.next \in Nat /\ ckpt.next <= N
    /\ meta.round \in Nat /\ meta.round <= Attempts
    /\ meta.next \in Nat /\ meta.next <= N
    /\ order \in Nat /\ order <= N

LEMMA SizesKnown ==
    ASSUME TypeOK
    PROVE  Sizes
BY SimAssumption DEF TypeOK, MetaOK, Sizes

(* A SYN is counted, the position stays *)
LEMMA ProbeMeta ==
    ASSUME TypeOK, Probe
    PROVE  MetaOK(meta)' /\ meta'.round = meta.round
BY DEF TypeOK, MetaOK, Probe

(* The saved position after an answer *)
LEMMA AnswerMeta ==
    ASSUME SimInv, AfterAnswer
    PROVE  /\ MetaOK(meta)' /\ MetaOK(ckpt)'
           /\ meta'.round = meta.round /\ ckpt'.round = meta.round
           /\ ckpt'.next = ckpt.next \/ ckpt'.next = order + 1
<1>1. order \in Nat /\ N \in Nat /\ order < N /\ meta.round = ckpt.round
  BY SizesKnown DEF Sizes, SimInv, ProcOK, Busy, AfterAnswer
<1>2. order + 1 \in 0 .. N
  BY <1>1
<1>3. CASE order % CkptEvery = 0
  <2>1. meta' = [meta EXCEPT !.next = order + 1] /\ ckpt' = meta'
    BY <1>3 DEF AfterAnswer, checkpoint
  <2> QED BY <2>1, <1>2 DEF SimInv, TypeOK, MetaOK
<1>4. CASE order % CkptEvery # 0
  BY <1>1, <1>4 DEF AfterAnswer, SimInv, TypeOK, MetaOK
<1> QED BY <1>3, <1>4

(* ... at the end of a round *)
LEMMA RoundMeta ==
    ASSUME SimInv, RoundEnd
    PROVE  /\ MetaOK(meta)' /\ MetaOK(ckpt)'
           /\ meta'.round = meta.round + 1 /\ ckpt'.round = meta.round + 1
           /\ ckpt'.next = 0
<1>1. meta.round + 1 \in 0 .. Attempts /\ 0 \in 0 .. N
  BY SizesKnown DEF Sizes, SimInv, ProcOK, InRound, RoundEnd
<1>2. meta' = [[meta EXCEPT !.round = @ + 1] EXCEPT !.next = 0]
  BY DEF RoundEnd, checkpoint
<1>3. ckpt' = meta'
  BY DEF RoundEnd, checkpoint
<1> QED BY <1>1, <1>2, <1>3 DEF SimInv, TypeOK, MetaOK

(* ... and of the run *)
LEMMA FinalMeta ==
    ASSUME SimInv, FinalCheckpoint
    PROVE  /\ MetaOK(meta)' /\ MetaOK(ckpt)'
           /\ meta'.round = meta.round /\ ckpt'.round = meta.round
           /\ ckpt'.next = N
<1>1. meta.round = Attempts /\ Attempts \in Nat /\ N \in 0 .. N
  BY SizesKnown DEF Sizes, SimInv, ProcOK, FinalCheckpoint
<1>2. meta' = [meta EXCEPT !.next = N] /\ ckpt' = meta'
  BY <1>1 DEF FinalCheckpoint, checkpoint, final_checkpoint_index, Completed
<1> QED BY <1>1, <1>2 DEF SimInv, TypeOK, MetaOK

(* Types: an answer is written in a round below Attempts, below N. *)
LEMMA TypeKept ==
    ASSUME SimInv, Next
    PROVE  TypeOK'
<1>0. Sizes
  BY SizesKnown DEF SimInv
<1>t. TypeOK
  BY DEF SimInv
<1>a. /\ InRound => meta.round < Attempts /\ meta.round + 1 \in 0 .. Attempts
      /\ Busy => order \in Endpoint /\ order + 1 \in 0 .. N
  BY <1>0 DEF SimInv, ProcOK, Sizes, Endpoint, InRound, Busy
<1> USE DEF TypeOK
<1>1. CASE Start
  BY <1>1, <1>t DEF Start, fileVars, histVars, MetaOK
<1>2. CASE Die
  <2>1. MetaOK(NoMeta) /\ 0 \in 0 .. N
    BY <1>0 DEF MetaOK, NoMeta, Sizes
  <2>2. faults' \in 0 .. MaxFaults
    BY <1>2, <1>t, SimAssumption DEF Die
  <2>3. damage' \in {"none", "end", "inside"}
    BY <1>2, <1>t DEF Die
  <2> QED BY <1>2, <1>t, <2>1, <2>2, <2>3 DEF Die, ProcessGone
<1>3. CASE SkipAnswered
  <2>1. order' \in 0 .. N
    BY <1>3, <1>0 DEF SkipAnswered, Sizes
  <2> QED BY <1>3, <1>t, <2>1 DEF SkipAnswered, fileVars, histVars
<1>4. CASE Probe
  <2>1. /\ <<meta.round, order>> \in (0 .. Attempts) \X Endpoint
        /\ order + 1 \in 0 .. N
    BY <1>4, <1>0 DEF Probe, Sizes, Endpoint
  <2>2. probed' \subseteq (0 .. Attempts) \X Endpoint
    BY <1>4, <1>t, <2>1 DEF Probe
  <2>3. order' \in 0 .. N /\ pc' \in {"loop", "state"}
    BY <1>4, <1>t, <2>1 DEF Probe
  <2>4. probes' \in Nat
    BY <1>4, <1>t DEF Probe
  <2>5. MetaOK(meta)'
    BY <1>4, <1>t, ProbeMeta
  <2> QED BY <1>4, <1>t, <2>2, <2>3, <2>4, <2>5 DEF Probe, fileVars
<1>5. CASE WriteState
  <2>1. [state |-> simulated_state[order], attempts |-> meta.round + 1]
           \in [state : TargetState, attempts : 0 .. Attempts]
    BY <1>5, <1>a, SimAssumption DEF WriteState, InRound, Busy
  <2>2. state' \in [Endpoint -> [state : TargetState,
                                 attempts : 0 .. Attempts]]
    BY <1>5, <1>t, <2>1 DEF WriteState
  <2> QED BY <1>5, <1>t, <2>2 DEF WriteState, histVars
<1>6. CASE WriteRtt
  BY <1>6, <1>t DEF WriteRtt, AfterRtt, histVars
<1>7. CASE AppendEvent
  <2>1. order \in Endpoint
    BY <1>7, <1>a DEF AppendEvent, Busy
  <2>2. events' \in [Endpoint -> Nat]
    <3>1. events[order] + 1 \in Nat
      BY <1>t, <2>1
    <3> QED BY <1>7, <1>t, <3>1 DEF AppendEvent
  <2>3. damage' \in {"none", "end", "inside"}
    BY <1>7, <1>t DEF AppendEvent
  <2>4. pc' \in {"mark", "answered"}
    BY <1>7 DEF AppendEvent
  <2> QED BY <1>7, <1>t, <2>2, <2>3, <2>4 DEF AppendEvent, histVars
<1>8. CASE MarkDone
  BY <1>8, <1>t DEF MarkDone, histVars
<1>9. CASE AfterAnswer
  <2>1. order' \in 0 .. N
    BY <1>9, <1>a DEF AfterAnswer, Busy
  <2>2. MetaOK(meta)' /\ MetaOK(ckpt)'
    BY <1>9, AnswerMeta
  <2> QED BY <1>9, <1>t, <2>1, <2>2 DEF AfterAnswer, histVars
<1>10. CASE RoundEnd
  <2>1. order' \in 0 .. N /\ pc' \in {"loop", "finish"}
    BY <1>10, <1>0 DEF RoundEnd, Sizes
  <2>2. MetaOK(meta)' /\ MetaOK(ckpt)'
    BY <1>10, RoundMeta
  <2> QED BY <1>10, <1>t, <2>1, <2>2 DEF RoundEnd, histVars
<1>11. CASE FinalCheckpoint
  <2>1. MetaOK(meta)' /\ MetaOK(ckpt)'
    BY <1>11, FinalMeta
  <2> QED BY <1>11, <1>t, <2>1 DEF FinalCheckpoint, histVars
<1>12. CASE SaveSummary
  <2>1. MetaOK(NoMeta) /\ 0 \in 0 .. N
    BY <1>0 DEF MetaOK, NoMeta, Sizes
  <2> QED BY <1>12, <1>t, <2>1 DEF SaveSummary, ProcessGone, histVars
<1> QED
  BY <1>1, <1>2, <1>3, <1>4, <1>5, <1>6, <1>7, <1>8, <1>9, <1>10, <1>11,
       <1>12 DEF Next, Step

(* The process: every checkpoint it saves is of its own round. *)
LEMMA ProcKept ==
    ASSUME SimInv, Next
    PROVE  ProcOK'
<1>0. Sizes
  BY SizesKnown DEF SimInv, Sizes
<1> USE <1>0 DEF Sizes, SimInv, ProcOK, InRound, Busy
<1>1. CASE Start
  BY <1>1 DEF Start, fileVars, histVars
<1>2. CASE Die
  BY <1>2 DEF Die, ProcessGone, fileVars, histVars
<1>3. CASE SkipAnswered
  BY <1>3 DEF SkipAnswered, fileVars, histVars
<1>4. CASE Probe
  <2>1. meta'.round = meta.round /\ ckpt' = ckpt
    BY <1>4, ProbeMeta DEF Probe, fileVars
  <2>2. CASE simulated_state[order] = "no_response"
    BY <1>4, <2>1, <2>2 DEF Probe
  <2>3. CASE simulated_state[order] # "no_response"
    <3>1. <<meta'.round, order'>> \in probed'
      BY <1>4, <2>1, <2>3 DEF Probe
    <3> QED BY <1>4, <2>1, <2>3, <3>1 DEF Probe
  <2> QED BY <2>2, <2>3
<1>5. CASE WriteState
  BY <1>5 DEF WriteState, fileVars, histVars
<1>6. CASE WriteRtt
  BY <1>6 DEF WriteRtt, AfterRtt, fileVars, histVars
<1>7. CASE AppendEvent
  BY <1>7 DEF AppendEvent, fileVars, histVars
<1>8. CASE MarkDone
  BY <1>8 DEF MarkDone, fileVars, histVars
<1>9. CASE AfterAnswer
  <2>1. /\ meta'.round = meta.round /\ ckpt'.round = meta.round
        /\ ckpt'.next = ckpt.next \/ ckpt'.next = order + 1
    BY <1>9, AnswerMeta
  <2>2. meta.round < Attempts /\ ckpt.next <= order
    BY <1>9 DEF AfterAnswer
  <2>3. order' = order + 1 /\ pc' = "loop"
    BY <1>9 DEF AfterAnswer
  <2> QED BY <2>1, <2>2, <2>3
<1>10. CASE RoundEnd
  <2>1. meta'.round = meta.round + 1 /\ ckpt'.round = meta.round + 1
        /\ ckpt'.next = 0
    BY <1>10, RoundMeta
  <2>2. order' = 0 /\ meta.round < Attempts
    BY <1>10 DEF RoundEnd
  <2>3. \/ pc' = "loop" /\ meta.round + 1 < Attempts
        \/ pc' = "finish" /\ meta.round + 1 = Attempts
    BY <1>10, <2>2 DEF RoundEnd
  <2> QED BY <2>1, <2>2, <2>3
<1>11. CASE FinalCheckpoint
  BY <1>11, FinalMeta DEF FinalCheckpoint, fileVars, histVars
<1>12. CASE SaveSummary
  BY <1>12 DEF SaveSummary, ProcessGone, fileVars, histVars
<1> QED
  BY <1>1, <1>2, <1>3, <1>4, <1>5, <1>6, <1>7, <1>8, <1>9, <1>10, <1>11,
       <1>12 DEF Next, Step

(* Coverage: a target is passed when it was probed or had answered. *)
LEMMA CoverKept ==
    ASSUME SimInv, Next
    PROVE  CoverOK'
<1>0. Sizes
  BY SizesKnown DEF SimInv, Sizes
<1>a. ASSUME probed' = probed, state' = state
      PROVE  \A r, e : DealtWith(r, e)' <=> DealtWith(r, e)
  BY <1>a DEF DealtWith, Answered
<1> USE SimAssumption, <1>0 DEF Sizes, SimInv, ProcOK, CoverOK, InRound,
     Busy, Endpoint, Round
<1>1. CASE Start
  <2>1. /\ ckpt' = ckpt /\ probed' = probed /\ state' = state
        /\ meta' = ckpt /\ order' = ckpt.next
        /\ pc' = "loop" => ckpt.round < Attempts
        /\ pc' \in {"loop", "finish"}
    BY <1>1 DEF Start, fileVars, histVars
  <2>2. pc' = "loop" => \A e \in Endpoint :
           e < ckpt.next => DealtWith(ckpt.round, e)
    BY <2>1
  <2> QED BY <1>a, <2>1, <2>2
<1>2. CASE Die
  BY <1>2, <1>a DEF Die, ProcessGone, fileVars, histVars
<1>3. CASE SkipAnswered
  BY <1>3, <1>a DEF SkipAnswered, fileVars, histVars, DealtWith
<1>4. CASE Probe
  BY <1>4, ProbeMeta DEF Probe, fileVars, histVars, DealtWith, Answered
<1>5. CASE WriteState
  BY <1>5 DEF WriteState, fileVars, histVars, StateOK, Silent, Expected,
     DealtWith, Answered
<1>6. CASE WriteRtt
  BY <1>6, <1>a DEF WriteRtt, AfterRtt, fileVars, histVars
<1>7. CASE AppendEvent
  BY <1>7, <1>a DEF AppendEvent, fileVars, histVars
<1>8. CASE MarkDone
  BY <1>8, <1>a DEF MarkDone, fileVars, histVars
<1>9. CASE AfterAnswer
  <2>1. /\ meta'.round = meta.round /\ ckpt'.round = meta.round
        /\ ckpt'.next = ckpt.next \/ ckpt'.next = order + 1
    BY <1>9, AnswerMeta
  <2>2. /\ order' = order + 1 /\ meta.round = ckpt.round
        /\ probed' = probed /\ state' = state
        /\ ckpt.next <= order
    BY <1>9 DEF AfterAnswer, histVars
  <2>3. DealtWith(meta.round, order)
    BY <1>9 DEF AfterAnswer, DealtWith
  <2>4. ASSUME NEW e \in Endpoint, e < order + 1
        PROVE  DealtWith(meta.round, e)
    <3>1. e < order \/ e = order
      BY <2>4
    <3> QED BY <1>9, <2>3, <3>1 DEF AfterAnswer
  <2>5. \A r \in Round, e \in Endpoint :
           r < ckpt'.round \/ (r = ckpt'.round /\ e < ckpt'.next)
           => DealtWith(r, e)
    BY <2>1, <2>2, <2>4
  <2>6. \A e \in Endpoint : e < order' => DealtWith(meta'.round, e)
    BY <2>1, <2>2, <2>4
  <2> QED BY <1>a, <2>2, <2>5, <2>6
<1>10. CASE RoundEnd
  <2>1. /\ meta'.round = meta.round + 1 /\ ckpt'.round = meta.round + 1
        /\ ckpt'.next = 0
    BY <1>10, RoundMeta
  <2>2. order' = 0 /\ probed' = probed /\ state' = state
    BY <1>10 DEF RoundEnd, histVars
  <2>3. \A e \in Endpoint : DealtWith(meta.round, e)
    BY <1>10 DEF RoundEnd
  <2>4. meta.round = ckpt.round
    BY <1>10 DEF RoundEnd
  <2>5. ASSUME NEW r \in Round, NEW e \in Endpoint, r < meta.round + 1
        PROVE  DealtWith(r, e)
    BY <2>3, <2>4, <2>5
  <2>6. ASSUME NEW r \in Round, NEW e \in Endpoint,
               r < ckpt'.round \/ (r = ckpt'.round /\ e < ckpt'.next)
        PROVE  DealtWith(r, e)
    BY <2>1, <2>5, <2>6
  <2>7. \A e \in Endpoint : ~(e < order')
    BY <2>2
  <2> QED BY <1>a, <2>2, <2>6, <2>7
<1>11. CASE FinalCheckpoint
  BY <1>11, <1>a, FinalMeta DEF FinalCheckpoint, fileVars, histVars
<1>12. CASE SaveSummary
  BY <1>12, <1>a DEF SaveSummary, ProcessGone, fileVars, histVars
<1> QED
  BY <1>1, <1>2, <1>3, <1>4, <1>5, <1>6, <1>7, <1>8, <1>9, <1>10, <1>11,
       <1>12 DEF Next, Step

(* States: a later round meets nothing that would answer. *)
LEMMA StateKept ==
    ASSUME SimInv, Next
    PROVE  StateOK'
<1>0. Sizes
  BY SizesKnown DEF SimInv, Sizes
<1> USE SimAssumption, <1>0 DEF Sizes, SimInv, ProcOK, StateOK, InRound,
     Busy, Written, Expected, Silent, Answered,
        Endpoint
<1>1. CASE Start
  BY <1>1 DEF Start, fileVars, histVars
<1>2. CASE Die
  BY <1>2 DEF Die, ProcessGone, fileVars, histVars
<1>3. CASE SkipAnswered
  BY <1>3 DEF SkipAnswered, fileVars, histVars
<1>4. CASE Probe
  <2>1. state' = state /\ ckpt' = ckpt /\ meta'.round = meta.round
    BY <1>4, ProbeMeta DEF Probe, fileVars
  <2>2. state[order] = Silent /\ order \in Endpoint
    <3>1. order \in Endpoint /\ state[order].state = "no_response"
      BY <1>4 DEF Probe
    <3>2. CASE state[order] = Expected(order)
      BY <3>1, <3>2
    <3> QED BY <3>1, <3>2
  <2>3. CASE simulated_state[order] = "no_response"
    <3>1. state[order] = Expected(order)
      BY <2>2, <2>3
    <3>2. order' = order + 1 /\ pc' = "loop"
      BY <1>4, <2>3 DEF Probe
    <3>3. \A e \in Endpoint : e < order + 1 => e < order \/ e = order
      OBVIOUS
    <3>4. \A e \in Endpoint : e < order + 1 => state[e] = Expected(e)
      BY <1>4, <3>1, <3>3 DEF Probe
    <3> QED BY <2>1, <3>2, <3>4
  <2>4. CASE simulated_state[order] # "no_response"
    <3>1. state[order] # Expected(order)
      BY <2>2, <2>4
    <3>2. ckpt.round = 0 /\ meta.round = 0
      <4>1. ~(ckpt.round > 0)
        BY <2>2, <3>1
      <4> QED BY <1>4, <4>1 DEF Probe
    <3>3. order' = order /\ pc' = "state"
      BY <1>4, <2>4 DEF Probe
    <3> QED BY <1>4, <2>1, <2>4, <3>2, <3>3 DEF Probe
  <2> QED BY <2>3, <2>4
<1>5. CASE WriteState
  <2>1. order \in Endpoint /\ Expected(order) =
           [state |-> simulated_state[order], attempts |-> meta.round + 1]
    BY <1>5 DEF WriteState
  <2>2. \A e \in Endpoint :
           state'[e] = IF e = order THEN Expected(e) ELSE state[e]
    BY <1>5, <2>1 DEF WriteState, TypeOK
  <2>3. ckpt' = ckpt /\ meta' = meta /\ order' = order /\ pc' = "rtt"
    BY <1>5 DEF WriteState
  <2> HIDE DEF Expected, Silent
  <2> QED BY <1>5, <2>1, <2>2, <2>3 DEF WriteState
<1>6. CASE WriteRtt
  BY <1>6 DEF WriteRtt, AfterRtt, fileVars, histVars
<1>7. CASE AppendEvent
  BY <1>7 DEF AppendEvent, fileVars, histVars
<1>8. CASE MarkDone
  BY <1>8 DEF MarkDone, fileVars, histVars
<1>9. CASE AfterAnswer
  <2>1. /\ meta'.round = meta.round /\ ckpt'.round = meta.round
        /\ ckpt'.next = ckpt.next \/ ckpt'.next = order + 1
    BY <1>9, AnswerMeta
  <2>2. /\ order' = order + 1 /\ pc' = "loop" /\ state' = state
        /\ meta.round = ckpt.round /\ ckpt.next <= order
    BY <1>9 DEF AfterAnswer
  <2>3. \A e \in Endpoint : e < order + 1 => e < order \/ e = order
    OBVIOUS
  <2>4. \A e \in Endpoint : e < order + 1 => state[e] = Expected(e)
    BY <1>9, <2>3 DEF AfterAnswer
  <2> HIDE DEF Expected, Silent
  <2> QED BY <2>1, <2>2, <2>4
<1>10. CASE RoundEnd
  BY <1>10, RoundMeta DEF RoundEnd, fileVars, histVars
<1>11. CASE FinalCheckpoint
  BY <1>11, FinalMeta DEF FinalCheckpoint, fileVars, histVars
<1>12. CASE SaveSummary
  BY <1>12 DEF SaveSummary, ProcessGone, fileVars, histVars
<1> QED
  BY <1>1, <1>2, <1>3, <1>4, <1>5, <1>6, <1>7, <1>8, <1>9, <1>10, <1>11,
       <1>12 DEF Next, Step

(* Records: nothing is appended for a target before its state. *)
LEMMA EventsKept ==
    ASSUME SimInv, Next
    PROVE  EventsOK'
<1>0. Sizes
  BY SizesKnown DEF SimInv, Sizes
<1> USE SimAssumption, <1>0 DEF Sizes, SimInv, TypeOK, ProcOK, StateOK,
     EventsOK, InRound, Busy, Answered, Silent,
        Expected, Endpoint
<1>1. CASE Start
  BY <1>1 DEF Start, fileVars, histVars
<1>2. CASE Die
  BY <1>2 DEF Die, ProcessGone, fileVars, histVars
<1>3. CASE SkipAnswered
  BY <1>3 DEF SkipAnswered, fileVars, histVars
<1>4. CASE Probe
  <2>1. events' = events /\ banner' = banner /\ state' = state
    BY <1>4 DEF Probe, fileVars
  <2>2. order \in Endpoint /\ ~Answered(order) /\ pc' \in {"loop", "state"}
    BY <1>4 DEF Probe
  <2>3. events[order] = 0
    BY <2>2
  <2>4. pc' = "state" => order' = order
    BY <1>4 DEF Probe
  <2> HIDE DEF Expected, Silent
  <2> QED BY <2>1, <2>2, <2>3, <2>4
<1>5. CASE WriteState
  BY <1>5 DEF WriteState, fileVars, histVars
<1>6. CASE WriteRtt
  BY <1>6 DEF WriteRtt, AfterRtt, fileVars, histVars
<1>7. CASE AppendEvent
  <2>1. /\ order \in Endpoint /\ events[order] = 0 /\ ~banner[order]
        /\ Answered(order)
    BY <1>7 DEF AppendEvent, Written
  <2>2. pc' = "mark" /\ order' = order /\ banner' = banner /\ state' = state
    BY <1>7, <2>1 DEF AppendEvent
  <2>3. \A e \in Endpoint : events'[e] = IF e = order THEN 1 ELSE events[e]
    <3>1. events \in [Endpoint -> Nat] /\ ~banner[order] /\ events[order] = 0
      BY <2>1
    <3> HIDE DEF SimInv, Sizes
    <3> QED BY <1>7, <3>1 DEF AppendEvent
  <2>4. EventsOK
    OBVIOUS
  <2> HIDE DEF SimInv, Sizes, Expected, Silent
  <2> QED BY <2>1, <2>2, <2>3, <2>4
<1>8. CASE MarkDone
  BY <1>8 DEF MarkDone, fileVars, histVars
<1>9. CASE AfterAnswer
  BY <1>9, AnswerMeta DEF AfterAnswer, fileVars, histVars
<1>10. CASE RoundEnd
  BY <1>10, RoundMeta DEF RoundEnd, fileVars, histVars
<1>11. CASE FinalCheckpoint
  BY <1>11, FinalMeta DEF FinalCheckpoint, fileVars, histVars
<1>12. CASE SaveSummary
  BY <1>12 DEF SaveSummary, ProcessGone, fileVars, histVars
<1> QED
  BY <1>1, <1>2, <1>3, <1>4, <1>5, <1>6, <1>7, <1>8, <1>9, <1>10, <1>11,
       <1>12 DEF Next, Step

(* The summary is written after the last round. *)
LEMMA SummaryKept ==
    ASSUME SimInv, Next
    PROVE  SummaryOK'
<1>0. Sizes
  BY SizesKnown DEF SimInv, Sizes
<1> USE SimAssumption, <1>0 DEF Sizes, SimInv, ProcOK, SummaryOK, InRound,
     Busy
<1>1. CASE Start
  BY <1>1 DEF Start, fileVars, histVars
<1>2. CASE Die
  BY <1>2 DEF Die, ProcessGone, fileVars, histVars
<1>3. CASE SkipAnswered
  BY <1>3 DEF SkipAnswered, fileVars, histVars
<1>4. CASE Probe
  BY <1>4, ProbeMeta DEF Probe, fileVars, histVars
<1>5. CASE WriteState
  BY <1>5 DEF WriteState, fileVars, histVars
<1>6. CASE WriteRtt
  BY <1>6 DEF WriteRtt, AfterRtt, fileVars, histVars
<1>7. CASE AppendEvent
  BY <1>7 DEF AppendEvent, fileVars, histVars
<1>8. CASE MarkDone
  BY <1>8 DEF MarkDone, fileVars, histVars
<1>9. CASE AfterAnswer
  BY <1>9, AnswerMeta DEF AfterAnswer, fileVars, histVars
<1>10. CASE RoundEnd
  BY <1>10, RoundMeta DEF RoundEnd, fileVars, histVars
<1>11. CASE FinalCheckpoint
  BY <1>11, FinalMeta DEF FinalCheckpoint, fileVars, histVars
<1>12. CASE SaveSummary
  BY <1>12 DEF SaveSummary, ProcessGone, fileVars, histVars
<1> QED
  BY <1>1, <1>2, <1>3, <1>4, <1>5, <1>6, <1>7, <1>8, <1>9, <1>10, <1>11,
       <1>12 DEF Next, Step

-----------------------------------------------------------------------------
(* The invariant *)

LEMMA InitHolds == Init => SimInv
<1> SUFFICES ASSUME Init PROVE SimInv
  OBVIOUS
<1> USE SimAssumption DEF Init, NoMeta, Silent
<1>1. TypeOK
  BY DEF TypeOK, MetaOK, Endpoint, TargetState
<1>2. ProcOK /\ CoverOK /\ SummaryOK
  BY DEF ProcOK, CoverOK, SummaryOK, InRound, Busy, Endpoint, Round
<1>3. StateOK
  BY DEF StateOK, InRound, Busy, Written, Endpoint
<1>4. EventsOK
  BY DEF EventsOK, Endpoint
<1> QED BY <1>1, <1>2, <1>3, <1>4 DEF SimInv

LEMMA InvKept == SimInv /\ [Next]_vars => SimInv'
<1>1. ASSUME SimInv, Next PROVE SimInv'
  BY <1>1, TypeKept, ProcKept, CoverKept, StateKept, EventsKept, SummaryKept
     DEF SimInv
<1>2. ASSUME SimInv, UNCHANGED vars PROVE SimInv'
  BY <1>2 DEF vars, fileVars, procVars, histVars, SimInv, TypeOK, MetaOK,
     ProcOK, CoverOK, StateOK, EventsOK, SummaryOK, InRound, Busy, Written,
     DealtWith, Answered
<1> QED BY <1>1, <1>2

(* The invariant holds wherever the process dies.                          *)
THEOREM SimInvariant == Spec => []SimInv
BY InitHolds, InvKept, PTL DEF Spec

(* Every variable keeps its type: no round, position or attempt number     *)
(* leaves its range, however often the process dies.                       *)
THEOREM TypeCorrect == Spec => []TypeOK
<1>1. SimInv => TypeOK
  BY DEF SimInv
<1> QED BY <1>1, SimInvariant, PTL

(* "Resume from interruption preserves progress": once the first round is  *)
(* past, state.bin is the one of a run without interruption.               *)
THEOREM StatesAreReproducible == Spec => []StatesReproducible
<1>1. SimInv => StatesReproducible
  BY DEF SimInv, StateOK, StatesReproducible
<1> QED BY <1>1, SimInvariant, PTL

(* No interruption makes the simulation append a target's record twice.    *)
THEOREM EventsAreUnique == Spec => []AtMostOneEvent
<1>1. SimInv => AtMostOneEvent
  BY DEF SimInv, EventsOK, AtMostOneEvent
<1> QED BY <1>1, SimInvariant, PTL

(* Resuming a job with a summary leaves states, round-trip times, banners  *)
(* and events as they are.                                                 *)
THEOREM ResumeChangesNothing == Spec => ResumeIdempotent
<1> DEFINE Quiet == summary # None =>
                        UNCHANGED <<state, rtt, banner, events, probes>>
<1>1. ASSUME SimInv, Next, summary # None
      PROVE  UNCHANGED <<state, rtt, banner, events, probes>>
  <2>1. pc = "down" \/ meta.round = Attempts
    BY <1>1 DEF SimInv, ProcOK, SummaryOK
  <2>2. ~InRound
    BY <1>1, <2>1, SizesKnown DEF SimInv, ProcOK, InRound, Sizes
  <2> QED
    BY <1>1, <2>2 DEF Next, Step, InRound, Start, Die, SkipAnswered, Probe,
       WriteState, WriteRtt, AppendEvent, MarkDone, AfterAnswer, RoundEnd,
       FinalCheckpoint, SaveSummary, fileVars, histVars
<1>2. SimInv /\ [Next]_vars => [Quiet]_vars
  BY <1>1
<1> QED BY <1>2, SimInvariant, PTL DEF Spec, ResumeIdempotent

-----------------------------------------------------------------------------
(* Refinement *)

LEMMA SweepStarts == Init => Progress!SweepInit
<1> SUFFICES ASSUME Init PROVE Progress!SweepInit
  OBVIOUS
<1>1. Dealt = {}
  BY DEF Init, Dealt, Answered, Silent, Round, Endpoint
<1> QED BY <1>1 DEF Progress!SweepInit, Init, NoMeta

(* A pair once dealt with stays so. *)
LEMMA DealtGrows ==
    ASSUME SimInv, Next
    PROVE  Dealt \subseteq Dealt'
<1>1. probed \subseteq probed'
  BY DEF Next, Step, Start, Die, SkipAnswered, Probe, WriteState, WriteRtt,
     AppendEvent, MarkDone, AfterAnswer, RoundEnd, FinalCheckpoint,
     SaveSummary, histVars
<1>2. ASSUME NEW e \in Endpoint, Answered(e) PROVE Answered(e)'
  <2>1. CASE WriteState
    <3>1. simulated_state[order] # "no_response" /\ state \in
             [Endpoint -> [state : TargetState, attempts : 0 .. Attempts]]
      BY <2>1 DEF SimInv, StateOK, TypeOK, Busy, WriteState
    <3> QED BY <1>2, <2>1, <3>1 DEF WriteState, Answered
  <2>2. CASE ~WriteState
    <3>1. state' = state
      BY <2>2 DEF Next, Step, Start, Die, SkipAnswered, Probe, WriteRtt,
         AppendEvent, MarkDone, AfterAnswer, RoundEnd, FinalCheckpoint,
         SaveSummary, fileVars
    <3> QED BY <1>2, <3>1 DEF Answered
  <2> QED BY <2>1, <2>2
<1> QED BY <1>1, <1>2 DEF Dealt

(* The saved position only moves forward. *)
LEMMA CheckpointForward ==
    ASSUME SimInv, Next
    PROVE  \/ ckpt'.round > ckpt.round
           \/ ckpt'.round = ckpt.round /\ ckpt'.next >= ckpt.next
<1>0. Sizes
  BY SizesKnown DEF SimInv
<1>1. CASE AfterAnswer
  BY <1>0, <1>1, AnswerMeta DEF SimInv, ProcOK, InRound, AfterAnswer, Sizes
<1>2. CASE RoundEnd
  BY <1>0, <1>2, RoundMeta DEF SimInv, ProcOK, RoundEnd, Sizes
<1>3. CASE FinalCheckpoint
  BY <1>0, <1>3, FinalMeta DEF SimInv, ProcOK, FinalCheckpoint, Sizes
<1>4. CASE ~(AfterAnswer \/ RoundEnd \/ FinalCheckpoint)
  <2>1. ckpt' = ckpt
    BY <1>4 DEF Next, Step, Start, Die, SkipAnswered, Probe, WriteState,
       WriteRtt, AppendEvent, MarkDone, SaveSummary, fileVars
  <2> QED BY <1>0, <2>1 DEF Sizes
<1> QED BY <1>1, <1>2, <1>3, <1>4

LEMMA SweepMoves ==
    SimInv /\ [Next]_vars =>
        [Progress!SweepNext]_<<Dealt, [round |-> ckpt.round,
        next |-> ckpt.next]>>
<1>1. ASSUME SimInv, Next PROVE Progress!SweepNext
  <2>0. SimInv'
    BY <1>1, InvKept
  <2>1. Dealt \subseteq Dealt'
    BY <1>1, DealtGrows
  <2>2. Sizes'
    BY <2>0, SimAssumption DEF SimInv, Sizes, TypeOK, MetaOK
  <2>3. [round |-> ckpt'.round, next |-> ckpt'.next] \in Progress!Position
    BY <2>2 DEF Sizes, Progress!Position
  <2>4. Progress!NotBefore([round |-> ckpt'.round, next |-> ckpt'.next],
                           [round |-> ckpt.round, next |-> ckpt.next])
    BY <1>1, CheckpointForward DEF Progress!NotBefore
  <2>5. Progress!Covers([round |-> ckpt'.round, next |-> ckpt'.next], Dealt')
    BY <2>0 DEF SimInv, CoverOK, DealtWith, Dealt, Round, Endpoint,
       Progress!Covers, Progress!Pair, Progress!Passed
  <2> QED BY <2>1, <2>3, <2>4, <2>5 DEF Progress!SweepNext
<1>2. ASSUME UNCHANGED vars
      PROVE  UNCHANGED <<Dealt, [round |-> ckpt.round, next |-> ckpt.next]>>
  BY <1>2 DEF vars, fileVars, histVars, Dealt, Answered
<1> QED BY <1>1, <1>2

(* The simulated scan, with any number of deaths, implements the abstract  *)
(* sweep.                                                                  *)
THEOREM Refinement == Spec => ImplementsSweep
BY SweepStarts, SweepMoves, SimInvariant, PTL
   DEF Spec, ImplementsSweep, Progress!SweepSpec

-----------------------------------------------------------------------------
(* Completion.  SummaryExact and LossBounded speak of a completed job, but *)
(* what a death costs is decided while the sweep runs: the target in hand  *)
(* is the only one whose files may lag behind its state byte.              *)

InHand == IF pc \in {"rtt", "event"} THEN {order} ELSE {}

Gone == Lost \ InHand

(* each death costs at most the target in hand, and for good *)
LossOK ==
    /\ Cardinality(Gone) <= faults
    /\ damage # "none" => Gone # {}
    /\ pc = "state" => ~Answered(order)
    /\ pc = "event" => rtt[order] /\ simulated_state[order] = "open" /\ Banner

(* SYNs: a death loses those since the checkpoint, nothing else does *)
CountOK ==
    /\ meta.sent <= probes /\ ckpt.sent <= probes
    /\ pc = "summary" => ckpt = meta
    /\ faults = 0 => /\ pc # "down" => meta.sent = probes
                     /\ pc = "down" => ckpt.sent = probes
                     /\ \A e \in Endpoint :
                           events[e] = 1 =>
                               banner[e] \/ (pc = "mark" /\ order = e)

CompletionInv == LossOK /\ CountOK /\ SummaryExact

LEMMA FiniteTargets ==
    /\ IsFiniteSet(Endpoint)
    /\ \A S \in SUBSET Endpoint : IsFiniteSet(S) /\ Cardinality(S) \in Nat
<1>1. IsFiniteSet(Endpoint)
  BY FS_Interval, SimAssumption DEF Endpoint
<1> QED BY <1>1, FS_Subset, FS_CardinalityType

LEMMA GoneFinite == IsFiniteSet(Gone) /\ Gone \subseteq Endpoint
BY FiniteTargets DEF Gone, Lost

(* A target's loss shows in three of its own fields *)
LEMMA SameLost ==
    ASSUME state' = state, rtt' = rtt, events' = events
    PROVE  Lost' = Lost
BY DEF Lost, Answered

(* A target of the sweep in the middle of its writes *)
LEMMA InWork ==
    ASSUME SimInv, Busy
    PROVE  order \in Endpoint
BY SizesKnown DEF SimInv, ProcOK, Busy, Sizes, Endpoint

(* No step but a death adds to what is lost, and no step takes from it *)
LEMMA GoneSteps ==
    ASSUME SimInv, LossOK, Next
    PROVE  IF Die THEN Gone \subseteq Gone' /\ Gone' \subseteq Gone \cup InHand
                  ELSE Gone' = Gone
<1>1. CASE Die
  <2>1. Lost' = Lost /\ InHand' = {}
    BY <1>1, SameLost DEF Die, ProcessGone, InHand
  <2> QED BY <1>1, <2>1 DEF Gone
<1>2. CASE ~Die /\ (WriteState \/ WriteRtt \/ AppendEvent)
  <2>0. Busy /\ order \in Endpoint
    BY <1>2, InWork DEF Busy, WriteState, WriteRtt, AppendEvent
  <2>1. \A e \in Endpoint \ {order} :
           state'[e] = state[e] /\ rtt'[e] = rtt[e] /\ events'[e] = events[e]
    BY <1>2, <2>0 DEF WriteState, WriteRtt, AppendEvent, SimInv, TypeOK
  <2>2. \A e \in Endpoint \ {order} : e \in Lost' <=> e \in Lost
    BY <2>1 DEF Lost, Answered
  <2>3. order' = order
    BY <1>2 DEF WriteState, WriteRtt, AppendEvent
  <2>4. order \notin Gone
    BY <1>2 DEF Gone, InHand, WriteState, WriteRtt, AppendEvent, LossOK, Lost
  <2>5. order \notin Gone'
    <3>1. CASE WriteState
      BY <2>3, <3>1 DEF WriteState, Gone, InHand
    <3>2. CASE WriteRtt
      <4>1. pc' = "event" \/ ~(simulated_state[order] = "open" /\ Banner)
        BY <3>2 DEF WriteRtt, AfterRtt
      <4>2. CASE pc' = "event"
        BY <2>3, <4>2 DEF Gone, InHand
      <4>3. CASE ~(simulated_state[order] = "open" /\ Banner)
        <5>1. state'[order].state = simulated_state[order] /\ rtt'[order]
          BY <2>0, <3>2
             DEF WriteRtt, SimInv, StateOK, TypeOK, Written, Busy, Expected
        <5> QED BY <4>3, <5>1 DEF Gone, Lost
      <4> QED BY <4>1, <4>2, <4>3
    <3>3. CASE AppendEvent
      <4>1. events[order] = 0 /\ ~banner[order]
        BY <2>0, <3>3 DEF AppendEvent, SimInv, EventsOK
      <4>2. events'[order] = 1 /\ rtt'[order]
        BY <2>0, <3>3, <4>1 DEF AppendEvent, SimInv, TypeOK, LossOK
      <4> QED BY <4>2 DEF Gone, Lost
    <3> QED BY <1>2, <3>1, <3>2, <3>3
  <2>6. \A e \in Endpoint \ {order} : e \in Gone' <=> e \in Gone
    BY <2>2, <2>3 DEF Gone, InHand
  <2>7. Gone \subseteq Endpoint /\ Gone' \subseteq Endpoint
    BY DEF Gone, Lost
  <2> QED BY <1>2, <2>4, <2>5, <2>6, <2>7
<1>3. CASE ~Die /\ ~(WriteState \/ WriteRtt \/ AppendEvent)
  <2>1. Lost' = Lost
    BY <1>3, SameLost
       DEF Next, Step, Start, SkipAnswered, Probe, MarkDone, AfterAnswer,
           RoundEnd, FinalCheckpoint, SaveSummary, fileVars
  <2>2. InHand = {} /\ InHand' = {}
    BY <1>3 DEF Next, Step, Start, SkipAnswered, Probe, MarkDone,
       AfterAnswer, RoundEnd, FinalCheckpoint, SaveSummary, ProcessGone,
       InHand
  <2> QED BY <1>3, <2>1, <2>2 DEF Gone
<1> QED BY <1>1, <1>2, <1>3

LEMMA LossKept ==
    ASSUME SimInv, LossOK, Next
    PROVE  LossOK'
<1>0. faults \in Nat /\ Cardinality(Gone) \in Nat /\ IsFiniteSet(Gone)
  BY GoneFinite, FiniteTargets, SimAssumption DEF SimInv, TypeOK
<1>1. Cardinality(Gone') <= faults'
  <2>1. CASE Die
    <3>1. Gone' \subseteq Gone \cup {order}
      BY <2>1, GoneSteps DEF InHand
    <3>2. /\ IsFiniteSet(Gone \cup {order})
          /\ Cardinality(Gone \cup {order}) <= Cardinality(Gone) + 1
          /\ Cardinality(Gone \cup {order}) \in Nat
      BY <1>0, FS_AddElement, FS_CardinalityType
    <3>3. /\ Cardinality(Gone') <= Cardinality(Gone \cup {order})
          /\ Cardinality(Gone') \in Nat
      BY <3>1, <3>2, FS_Subset, FS_CardinalityType
    <3>4. faults' = faults + 1
      BY <2>1 DEF Die
    <3> QED BY <1>0, <3>2, <3>3, <3>4 DEF LossOK
  <2>2. CASE ~Die
    <3>1. faults' = faults
      BY <2>2 DEF Next, Step, Start, SkipAnswered, Probe, WriteState,
         WriteRtt, AppendEvent, MarkDone, AfterAnswer, RoundEnd,
         FinalCheckpoint, SaveSummary, histVars
    <3> QED BY <2>2, <3>1, GoneSteps DEF LossOK
  <2> QED BY <2>1, <2>2
<1>2. damage' # "none" => Gone' # {}
  <2>1. CASE damage # "none"
    BY <2>1, GoneSteps DEF LossOK
  <2>2. CASE damage = "none" /\ damage' # "none"
    <3>1. Die /\ pc = "event"
      BY <2>2 DEF Next, Step, Start, Die, SkipAnswered, Probe, WriteState,
         WriteRtt, AppendEvent, MarkDone, AfterAnswer, RoundEnd,
         FinalCheckpoint, SaveSummary, fileVars
    <3>2. order \in Endpoint /\ state[order] = Expected(order)
      BY <3>1, InWork DEF SimInv, StateOK, Busy, Written
    <3>3. simulated_state[order] = "open" /\ Banner /\ events[order] = 0
      BY <3>1 DEF LossOK, SimInv, EventsOK
    <3>4. order \in Lost
      BY <3>2, <3>3 DEF Lost, Answered, Expected
    <3>5. Lost' = Lost /\ InHand' = {}
      BY <3>1, SameLost DEF Die, ProcessGone, InHand
    <3> QED BY <3>4, <3>5 DEF Gone
  <2> QED BY <2>1, <2>2
<1>3. pc' = "state" => ~Answered(order)'
  BY DEF Next, Step, Start, Die, ProcessGone, SkipAnswered, Probe, WriteState,
     WriteRtt, AfterRtt, AppendEvent, MarkDone, AfterAnswer, RoundEnd,
     FinalCheckpoint, SaveSummary, fileVars, Answered
<1>4. pc' = "event" => /\ rtt'[order'] /\ simulated_state[order'] = "open"
                       /\ Banner
  <2> SUFFICES ASSUME pc' = "event"
               PROVE  /\ rtt'[order'] /\ simulated_state[order'] = "open"
                      /\ Banner
    OBVIOUS
  <2>1. WriteRtt
    BY DEF Next, Step, Start, Die, ProcessGone, SkipAnswered, Probe,
       WriteState, AppendEvent, MarkDone, AfterAnswer, RoundEnd,
       FinalCheckpoint, SaveSummary
  <2>2. order \in Endpoint
    BY <2>1, InWork DEF WriteRtt, Busy
  <2> QED BY <2>1, <2>2 DEF WriteRtt, AfterRtt, SimInv, TypeOK
<1> QED BY <1>1, <1>2, <1>3, <1>4 DEF LossOK

(* The SYN counters: a checkpoint saves the one of job.meta *)
LEMMA SentMoves ==
    ASSUME SimInv, Next
    PROVE  /\ Probe => /\ probes' = probes + 1 /\ ckpt' = ckpt
                       /\ meta'.sent = meta.sent + 1
           /\ ~Probe => probes' = probes
           /\ AfterAnswer \/ RoundEnd \/ FinalCheckpoint =>
                 /\ meta'.sent = meta.sent
                 /\ ckpt'.sent = meta.sent \/ ckpt' = ckpt
           /\ FinalCheckpoint => ckpt' = meta'
           /\ ~(Probe \/ AfterAnswer \/ RoundEnd \/ FinalCheckpoint) =>
                 ckpt' = ckpt
<1>t. MetaOK(meta)
  BY DEF SimInv, TypeOK
<1>1. ASSUME Probe
      PROVE  /\ probes' = probes + 1 /\ ckpt' = ckpt
             /\ meta'.sent = meta.sent + 1
  BY <1>1, <1>t DEF Probe, fileVars, MetaOK
<1>2. ASSUME ~Probe PROVE probes' = probes
  BY <1>2 DEF Next, Step, Start, Die, SkipAnswered, WriteState, WriteRtt,
     AppendEvent, MarkDone, AfterAnswer, RoundEnd, FinalCheckpoint,
     SaveSummary, histVars
<1>3. ASSUME AfterAnswer
      PROVE  meta'.sent = meta.sent /\ (ckpt'.sent = meta.sent \/ ckpt' = ckpt)
  BY <1>3, <1>t DEF AfterAnswer, checkpoint, MetaOK
<1>4. ASSUME RoundEnd
      PROVE  meta'.sent = meta.sent /\ ckpt'.sent = meta.sent
  <2>1. meta' = [[meta EXCEPT !.round = @ + 1] EXCEPT !.next = 0]
        /\ ckpt' = meta'
    BY <1>4 DEF RoundEnd, checkpoint
  <2> QED BY <1>t, <2>1 DEF MetaOK
<1>5. ASSUME FinalCheckpoint
      PROVE  /\ meta'.sent = meta.sent /\ ckpt'.sent = meta.sent
             /\ ckpt' = meta'
  <2>1. PICK n : meta' = [meta EXCEPT !.next = n] /\ ckpt' = meta'
    BY <1>5 DEF FinalCheckpoint, checkpoint
  <2> QED BY <1>t, <2>1 DEF MetaOK
<1>6. ASSUME ~(Probe \/ AfterAnswer \/ RoundEnd \/ FinalCheckpoint)
      PROVE  ckpt' = ckpt
  BY <1>6 DEF Next, Step, Start, Die, SkipAnswered, WriteState, WriteRtt,
     AppendEvent, MarkDone, SaveSummary, fileVars
<1> QED BY <1>1, <1>2, <1>3, <1>4, <1>5, <1>6

LEMMA CountKept ==
    ASSUME SimInv, CountOK, Next
    PROVE  CountOK'
<1>0. /\ meta.sent \in Nat /\ ckpt.sent \in Nat /\ probes \in Nat
      /\ faults \in Nat
  BY SimAssumption DEF SimInv, TypeOK, MetaOK
<1>1. /\ meta.sent <= probes /\ ckpt.sent <= probes
      /\ faults = 0 /\ pc # "down" => meta.sent = probes
      /\ faults = 0 /\ pc = "down" => ckpt.sent = probes
  BY DEF CountOK
<1>2. /\ meta'.sent <= probes' /\ ckpt'.sent <= probes'
      /\ pc' = "summary" => ckpt' = meta'
      /\ faults' = 0 /\ pc' # "down" => meta'.sent = probes'
      /\ faults' = 0 /\ pc' = "down" => ckpt'.sent = probes'
  <2>1. CASE Start
    <3>1. /\ meta' = ckpt /\ ckpt' = ckpt /\ probes' = probes
          /\ faults' = faults /\ pc = "down" /\ pc' \in {"loop", "finish"}
      BY <2>1 DEF Start, fileVars, histVars
    <3> QED BY <1>0, <1>1, <3>1
  <2>2. CASE Die
    <3>1. /\ meta' = NoMeta /\ ckpt' = ckpt /\ probes' = probes
          /\ faults' # 0 /\ pc' = "down"
      BY <1>0, <2>2 DEF Die, ProcessGone
    <3> QED BY <1>0, <1>1, <3>1 DEF NoMeta
  <2>3. CASE Probe
    <3>1. /\ probes' = probes + 1 /\ ckpt' = ckpt
          /\ meta'.sent = meta.sent + 1
      BY <2>3, SentMoves
    <3>2. pc # "down" /\ pc' \in {"loop", "state"} /\ faults' = faults
      BY <2>3 DEF Probe
    <3> QED BY <1>0, <1>1, <3>1, <3>2
  <2>4. CASE AfterAnswer \/ RoundEnd \/ FinalCheckpoint
    <3>1. /\ meta'.sent = meta.sent
          /\ ckpt'.sent = meta.sent \/ ckpt' = ckpt
          /\ FinalCheckpoint => ckpt' = meta'
      BY <2>4, SentMoves
    <3>2. /\ pc # "down" /\ pc' \in {"loop", "finish", "summary"}
          /\ pc' = "summary" => FinalCheckpoint
          /\ probes' = probes /\ faults' = faults
      BY <2>4 DEF AfterAnswer, RoundEnd, FinalCheckpoint, histVars
    <3> QED BY <1>0, <1>1, <3>1, <3>2
  <2>5. CASE SaveSummary
    <3>1. /\ pc = "summary" /\ meta' = NoMeta /\ ckpt' = ckpt
          /\ probes' = probes /\ faults' = faults /\ pc' = "down"
      BY <2>5 DEF SaveSummary, ProcessGone, histVars
    <3>2. ckpt = meta
      BY <3>1 DEF CountOK
    <3> QED BY <1>0, <1>1, <3>1, <3>2 DEF NoMeta
  <2>6. CASE SkipAnswered \/ WriteState \/ WriteRtt \/ AppendEvent \/ MarkDone
    <3>1. /\ meta' = meta /\ ckpt' = ckpt /\ probes' = probes
          /\ faults' = faults /\ pc # "down"
          /\ pc' \in {"loop", "rtt", "event", "mark", "answered"}
      BY <2>6 DEF SkipAnswered, WriteState, WriteRtt, AfterRtt, AppendEvent,
         MarkDone, fileVars, histVars
    <3> QED BY <1>1, <3>1
  <2> QED BY <2>1, <2>2, <2>3, <2>4, <2>5, <2>6 DEF Next, Step
<1>3. ASSUME faults' = 0, NEW e \in Endpoint, events'[e] = 1
      PROVE  banner'[e] \/ (pc' = "mark" /\ order' = e)
  <2>0. faults = 0 /\ ~Die
    BY <1>0, <1>3 DEF Next, Step, Start, Die, SkipAnswered, Probe, WriteState,
       WriteRtt, AppendEvent, MarkDone, AfterAnswer, RoundEnd,
       FinalCheckpoint, SaveSummary, histVars
  <2>1. CASE AppendEvent
    <3>1. order \in Endpoint
      BY <2>1, InWork DEF AppendEvent, Busy
    <3>2. events[order] = 0 /\ ~banner[order]
      BY <2>1, <3>1 DEF AppendEvent, SimInv, EventsOK
    <3>3. /\ pc' = "mark" /\ order' = order /\ banner' = banner
          /\ e # order => events'[e] = events[e]
      BY <2>1, <3>2 DEF AppendEvent, SimInv, TypeOK
    <3> QED BY <1>3, <2>0, <2>1, <3>3 DEF CountOK, AppendEvent
  <2>2. CASE MarkDone
    <3>1. order \in Endpoint
      BY <2>2, InWork DEF MarkDone, Busy
    <3>2. /\ events' = events
          /\ banner'[e] = IF e = order THEN TRUE ELSE banner[e]
      BY <2>2, <3>1 DEF MarkDone, SimInv, TypeOK
    <3> QED BY <1>3, <2>0, <3>2 DEF CountOK
  <2>3. CASE ~(AppendEvent \/ MarkDone)
    <3>1. events' = events /\ banner' = banner /\ pc # "mark"
      BY <2>0, <2>3 DEF Next, Step, Start, SkipAnswered, Probe, WriteState,
         WriteRtt, AfterAnswer, RoundEnd, FinalCheckpoint, SaveSummary,
         fileVars
    <3> QED BY <1>3, <2>0, <3>1 DEF CountOK
  <2> QED BY <2>1, <2>2, <2>3
<1> QED BY <1>2, <1>3 DEF CountOK

(* With a summary there, the sweep is over *)
LEMMA SummaryIsLast ==
    ASSUME SimInv, summary # None
    PROVE  ~InRound
BY SizesKnown DEF SimInv, ProcOK, SummaryOK, InRound, Sizes

(* After the last round every target counts for its simulated state *)
LEMMA CountsAreFinal ==
    ASSUME SimInv, pc = "summary", NEW s \in TargetState
    PROVE  InState(s) = {e \in Endpoint : simulated_state[e] = s}
<1>1. ckpt.round > 0
  BY SizesKnown, SimAssumption DEF SimInv, ProcOK, Sizes
<1>2. \A e \in Endpoint : state[e] = Expected(e)
  BY <1>1 DEF SimInv, StateOK
<1>3. \A e \in Endpoint : Expected(e).state = simulated_state[e]
  BY DEF Expected, Silent
<1> QED BY <1>2, <1>3 DEF InState

(* Without a death every open target has its record and its byte *)
LEMMA OpenAreDone ==
    ASSUME SimInv, LossOK, CountOK, pc = "summary", faults = 0, Banner
    PROVE  InState("open") \subseteq BannersDone
<1>1. Gone = {}
  <2>1. Cardinality(Gone) = 0
    BY GoneFinite, FiniteTargets DEF LossOK
  <2> QED BY <2>1, GoneFinite, FS_EmptySet
<1>2. ASSUME NEW e \in InState("open") PROVE banner[e]
  <2>1. e \in Endpoint /\ state[e].state = "open" /\ Answered(e)
    BY <1>2 DEF InState, Answered
  <2>2. e \notin Lost
    BY <1>1 DEF Gone, InHand
  <2>3. events[e] # 0
    BY <2>1, <2>2 DEF Lost
  <2>4. events[e] \in Nat /\ events[e] <= 1
    BY <2>1 DEF SimInv, TypeOK, EventsOK
  <2>5. events[e] = 1
    BY <2>3, <2>4
  <2> QED BY <2>1, <2>5 DEF CountOK
<1> QED BY <1>2 DEF InState, BannersDone

LEMMA ExactKept ==
    ASSUME SimInv, LossOK, CountOK, SummaryExact, Next
    PROVE  SummaryExact'
<1>0. /\ probes \in Nat /\ meta.sent \in Nat /\ faults \in Nat
      /\ Attempts \in Nat
  BY SimAssumption DEF SimInv, TypeOK, MetaOK
<1>1. CASE SaveSummary
  <2>1. pc = "summary" /\ summary' = summarize_state_bytes
        /\ probes' = probes /\ faults' = faults
    BY <1>1 DEF SaveSummary, histVars
  <2>2. summary'.completed
    <3>1. Completed
      BY <1>0, <2>1 DEF Completed, SimInv, ProcOK
    <3> QED BY <2>1, <3>1 DEF summarize_state_bytes
  <2>3. ASSUME NEW s \in TargetState
        PROVE  summary'.counts[s] =
                  Cardinality({e \in Endpoint : simulated_state[e] = s})
    BY <2>1, CountsAreFinal DEF summarize_state_bytes
  <2>4. summary'.sent = meta.sent
    BY <2>1 DEF summarize_state_bytes
  <2>5. ASSUME faults = 0, Banner PROVE summary'.incomplete = 0
    <3>1. InState("open") \subseteq BannersDone
      BY <2>1, <2>5, OpenAreDone
    <3>2. BannersDone \in SUBSET Endpoint /\ InState("open") \in SUBSET Endpoint
      BY DEF BannersDone, InState
    <3>3. PICK a \in Nat, b \in Nat :
             /\ a = Cardinality(InState("open"))
             /\ b = Cardinality(BannersDone) /\ a <= b
      BY <3>1, <3>2, FiniteTargets, FS_Subset
    <3>4. saturating_sub(a, b) = 0
      BY <3>3 DEF saturating_sub
    <3> QED BY <2>1, <3>3, <3>4 DEF summarize_state_bytes
  <2>6. meta.sent <= probes /\ (faults = 0 => meta.sent = probes)
    BY <2>1 DEF CountOK
  <2> QED BY <2>1, <2>2, <2>3, <2>4, <2>5, <2>6 DEF SummaryExact
<1>2. CASE ~SaveSummary
  <2>1. summary' = summary
    BY <1>2 DEF Next, Step, Start, Die, SkipAnswered, Probe, WriteState,
       WriteRtt, AppendEvent, MarkDone, AfterAnswer, RoundEnd,
       FinalCheckpoint, fileVars
  <2>2. summary # None => probes' = probes
    BY SummaryIsLast, SentMoves DEF Probe, InRound
  <2>3. faults' = 0 => faults = 0
    BY <1>0 DEF Next, Step, Start, Die, SkipAnswered, Probe, WriteState,
       WriteRtt, AppendEvent, MarkDone, AfterAnswer, RoundEnd,
       FinalCheckpoint, SaveSummary, histVars
  <2> QED BY <2>1, <2>2, <2>3 DEF SummaryExact
<1> QED BY <1>1, <1>2

LEMMA CompletionInductive == Spec => []CompletionInv
<1>1. Init => CompletionInv
  <2> SUFFICES ASSUME Init PROVE CompletionInv
    OBVIOUS
  <2>1. Lost = {}
    BY DEF Init, Lost, Answered, Silent
  <2>2. Gone = {}
    BY <2>1 DEF Gone
  <2>3. LossOK
    BY <2>2, FS_EmptySet DEF Init, LossOK
  <2>4. CountOK
    BY DEF Init, CountOK, NoMeta
  <2>5. SummaryExact
    BY DEF Init, SummaryExact
  <2> QED BY <2>3, <2>4, <2>5 DEF CompletionInv
<1>2. SimInv /\ CompletionInv /\ [Next]_vars => CompletionInv'
  <2>1. ASSUME SimInv, CompletionInv, Next PROVE CompletionInv'
    BY <2>1, LossKept, CountKept, ExactKept DEF CompletionInv
  <2>2. ASSUME SimInv, CompletionInv, UNCHANGED vars PROVE CompletionInv'
    BY <2>2 DEF vars, fileVars, procVars, histVars, CompletionInv, LossOK,
       CountOK, SummaryExact, Gone, Lost, InHand, Answered
  <2> QED BY <2>1, <2>2
<1> QED BY <1>1, <1>2, SimInvariant, PTL DEF Spec

(* The summary of a completed job is true however often the process died:  *)
(* its counts are those of the simulated states, and every death cost at   *)
(* most the one target it met between its state byte and its record.       *)
THEOREM CompletionIsSound == Spec => []CompletionSound
<1>1. SimInv /\ CompletionInv => CompletionSound
  <2> SUFFICES ASSUME SimInv, CompletionInv PROVE CompletionSound
    OBVIOUS
  <2>1. summary # None => Gone = Lost
    BY SummaryIsLast DEF InRound, Gone, InHand
  <2> QED BY <2>1 DEF CompletionInv, LossOK, CompletionSound, LossBounded
<1> QED BY <1>1, SimInvariant, CompletionInductive, PTL
=============================================================================
