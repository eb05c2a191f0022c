----------------------------- MODULE Simulation -----------------------------
(***************************************************************************)
(* A job scanned with [simulation].enabled (scanner.rs, mod simulation):   *)
(* one thread, no network.  Every target has a fixed simulated state.      *)
(* The process may die between any two writes; the mapped files and the    *)
(* saved checkpoint outlive it, job.meta does not.                         *)
(*                                                                         *)
(* Targets are named by their position in the sweep, as in ScanJob.        *)
(***************************************************************************)
EXTENDS Integers, FiniteSets

CONSTANTS
    N,                \* job.meta.target_count
    Attempts,         \* cfg.scan.syn_attempts
    CkptEvery,        \* the 10_000 of send_rounds
    simulated_state,  \* the state hash_unit and the ratios give each target
    Banner,           \* cfg.simulation.banner
    None,
    MaxFaults         \* bound: deaths of the process

TargetState == {"no_response", "unreachable", "closed", "open"}
Endpoint == 0 .. N - 1
Round == 0 .. Attempts - 1

ASSUME SimAssumption ==
    /\ N \in Nat \ {0} /\ Attempts \in Nat \ {0} /\ CkptEvery \in Nat \ {0}
    /\ simulated_state \in [Endpoint -> TargetState]
    /\ Banner \in BOOLEAN
    /\ MaxFaults \in Nat

VARIABLES
    ckpt,      \* checkpoint.json: round, next, sent
    state,     \* state.bin: the state and the attempt it was seen in
    rtt,       \* rtt_us.bin: whether a value was stored
    banner,    \* banner_state.bin: whether it says BANNER_DONE
    events,    \* events.ndjson: number of records of each target
    damage,    \* where the event log holds a fragment: none, end, inside
    summary,   \* summary.json, or None
    pc, order, meta,   \* the process: where, loop index, job.meta
    probed, probes, faults  \* history: pairs probed, SYNs counted; bound

fileVars == <<ckpt, state, rtt, banner, events, damage, summary>>
procVars == <<pc, order, meta>>
histVars == <<probed, probes, faults>>
vars == <<fileVars, procVars, histVars>>

Silent == [state |-> "no_response", attempts |-> 0]

NoMeta == [round |-> 0, next |-> 0, sent |-> 0]

Init ==
    /\ ckpt = NoMeta
    /\ state = [e \in Endpoint |-> Silent]
    /\ rtt = [e \in Endpoint |-> FALSE]
    /\ banner = [e \in Endpoint |-> FALSE]
    /\ events = [e \in Endpoint |-> 0]
    /\ damage = "none"
    /\ summary = None
    /\ pc = "down" /\ order = 0 /\ meta = NoMeta
    /\ probed = {} /\ probes = 0 /\ faults = 0

-----------------------------------------------------------------------------
(* scan or resume: PreparedJob, run up to send_rounds *)

(* mutant: a completed job is swept again *)
StartAgain ==
    /\ pc = "down"
    /\ meta' = ckpt
    /\ order' = IF ckpt.round < Attempts THEN ckpt.next ELSE 0
    /\ pc' = "loop"
    /\ UNCHANGED <<fileVars, histVars>>

Start ==
    /\ pc = "down"
    /\ meta' = ckpt /\ order' = ckpt.next
    /\ pc' = IF ckpt.round < Attempts THEN "loop" ELSE "finish"
    /\ UNCHANGED <<fileVars, histVars>>

ProcessGone == pc' = "down" /\ order' = 0 /\ meta' = NoMeta

(* inside append_event, part of the record may have been written *)
Die ==
    /\ pc # "down" /\ faults < MaxFaults
    /\ faults' = faults + 1
    /\ ProcessGone
    /\ \/ UNCHANGED damage
       \/ pc = "event" /\ ~banner[order] /\ damage = "none"
          /\ damage' = "end"
    /\ UNCHANGED <<ckpt, state, rtt, banner, events, summary, probed, probes>>

(* job.checkpoint: the index is set and job.meta saved *)
checkpoint(m, next) ==
    /\ meta' = [m EXCEPT !.next = next]
    /\ ckpt' = meta'

-----------------------------------------------------------------------------
(* send_rounds *)

(* mutant: an open target is probed again until its banner is done *)
AnsweredAndDone(e) ==
    /\ state[e].state # "no_response"
    /\ state[e].state = "open" /\ Banner => banner[e]

Answered(e) == state[e].state # "no_response"

SkipAnswered ==
    /\ pc = "loop" /\ order < N /\ Answered(order)
    /\ order' = order + 1
    /\ UNCHANGED <<fileVars, pc, meta, histVars>>

(* packets_sent and sent_at are written, then the simulated state decides *)
Probe ==
    /\ pc = "loop" /\ order < N /\ ~Answered(order)
    /\ meta' = [meta EXCEPT !.sent = @ + 1]
    /\ probes' = probes + 1
    /\ probed' = probed \cup {<<meta.round, order>>}
    /\ IF simulated_state[order] = "no_response"
       THEN order' = order + 1 /\ pc' = pc
       ELSE order' = order /\ pc' = "state"
    /\ UNCHANGED <<fileVars, faults>>

(* mutant: the record is skipped where a checkpoint is due *)
AfterRttElse ==
    IF simulated_state[order] = "open" /\ Banner /\ order % CkptEvery # 0
    THEN "event" ELSE "answered"

AfterRtt ==
    IF simulated_state[order] = "open" /\ Banner THEN "event" ELSE "answered"

(* mutant: rounds are counted from zero *)
WriteStateFromZero ==
    /\ pc = "state"
    /\ state' = [state EXCEPT ![order] =
                    [state |-> simulated_state[order],
                     attempts |-> meta.round]]
    /\ pc' = "rtt"
    /\ UNCHANGED <<ckpt, rtt, banner, events, damage, summary, order, meta,
                   histVars>>

WriteState ==
    /\ pc = "state"
    /\ state' = [state EXCEPT ![order] =
                    [state |-> simulated_state[order],
                     attempts |-> meta.round + 1]]
    /\ pc' = "rtt"
    /\ UNCHANGED <<ckpt, rtt, banner, events, damage, summary, order, meta,
                   histVars>>

WriteRtt ==
    /\ pc = "rtt"
    /\ rtt' = [rtt EXCEPT ![order] = TRUE]
    /\ pc' = AfterRtt
    /\ UNCHANGED <<ckpt, state, banner, events, damage, summary, order, meta,
                   histVars>>

(* append_banner_event: a done target is left alone *)
AppendEvent ==
    /\ pc = "event"
    /\ IF banner[order]
       THEN /\ pc' = "answered"
            /\ UNCHANGED <<events, damage>>
       ELSE /\ pc' = "mark"
            /\ events' = [events EXCEPT ![order] = @ + 1]
            /\ damage' = IF damage = "end" THEN "inside" ELSE damage
    /\ UNCHANGED <<ckpt, state, rtt, banner, summary, order, meta, histVars>>

MarkDone ==
    /\ pc = "mark"
    /\ banner' = [banner EXCEPT ![order] = TRUE]
    /\ pc' = "answered"
    /\ UNCHANGED <<ckpt, state, rtt, events, damage, summary, order, meta,
                   histVars>>

(* mutant: the position of the next period is saved *)
AfterAnswerAhead ==
    /\ pc = "answered"
    /\ IF order % CkptEvery = 0
       THEN checkpoint(meta, IF order + CkptEvery < N THEN order + CkptEvery
                                                      ELSE N)
       ELSE UNCHANGED <<meta, ckpt>>
    /\ order' = order + 1
    /\ pc' = "loop"
    /\ UNCHANGED <<state, rtt, banner, events, damage, summary, histVars>>

(* the position is saved after an answer at a multiple of CkptEvery *)
AfterAnswer ==
    /\ pc = "answered"
    /\ IF order % CkptEvery = 0
       THEN checkpoint(meta, order + 1)
       ELSE UNCHANGED <<meta, ckpt>>
    /\ order' = order + 1
    /\ pc' = "loop"
    /\ UNCHANGED <<state, rtt, banner, events, damage, summary, histVars>>

RoundEnd ==
    /\ pc = "loop" /\ order = N
    /\ checkpoint([meta EXCEPT !.round = @ + 1], 0)
    /\ order' = 0
    /\ pc' = IF meta.round + 1 < Attempts THEN "loop" ELSE "finish"
    /\ UNCHANGED <<state, rtt, banner, events, damage, summary, histVars>>

-----------------------------------------------------------------------------
(* run, from the end of send_rounds *)

final_checkpoint_index(completed) == IF completed THEN N ELSE meta.next

Completed == meta.round >= Attempts

FinalCheckpoint ==
    /\ pc = "finish"
    /\ checkpoint(meta, final_checkpoint_index(Completed))
    /\ pc' = "summary"
    /\ UNCHANGED <<state, rtt, banner, events, damage, summary, order, histVars>>

InState(s) == {e \in Endpoint : state[e].state = s}
BannersDone == {e \in Endpoint : banner[e]}

saturating_sub(a, b) == IF a >= b THEN a - b ELSE 0

summarize_state_bytes ==
    [completed |-> Completed, sent |-> meta.sent,
     counts |-> [s \in TargetState |-> Cardinality(InState(s))],
     done |-> Cardinality(BannersDone),
     incomplete |-> saturating_sub(Cardinality(InState("open")),
                                   Cardinality(BannersDone))]

SaveSummary ==
    /\ pc = "summary"
    /\ summary' = summarize_state_bytes
    /\ ProcessGone
    /\ UNCHANGED <<ckpt, state, rtt, banner, events, damage, histVars>>

Step ==
    \/ SkipAnswered \/ Probe \/ WriteState \/ WriteRtt \/ AppendEvent
    \/ MarkDone \/ AfterAnswer \/ RoundEnd \/ FinalCheckpoint \/ SaveSummary

Next == Start \/ Step \/ Die

Spec == Init /\ [][Next]_vars

-----------------------------------------------------------------------------
(* Properties *)

MetaOK(m) == m \in [round : 0 .. Attempts, next : 0 .. N, sent : Nat]

(* Every variable has its type. *)
TypeOK ==
    /\ MetaOK(ckpt) /\ MetaOK(meta)
    /\ state \in [Endpoint -> [state : TargetState, attempts : 0 .. Attempts]]
    /\ rtt \in [Endpoint -> BOOLEAN]
    /\ banner \in [Endpoint -> BOOLEAN]
    /\ events \in [Endpoint -> Nat]
    /\ damage \in {"none", "end", "inside"}
    /\ pc \in {"down", "loop", "state", "rtt", "event", "mark", "answered",
               "finish", "summary"}
    /\ order \in 0 .. N
    /\ probed \subseteq (0 .. Attempts) \X Endpoint
    /\ probes \in Nat
    /\ faults \in 0 .. MaxFaults

Expected(e) ==
    IF simulated_state[e] = "no_response"
    THEN Silent
    ELSE [state |-> simulated_state[e], attempts |-> 1]

(* "Resume from interruption preserves progress" (VALIDATION.md): once the *)
(* checkpoint is past the first round, state.bin is the one a run without  *)
(* interruption writes, attempt numbers included, wherever the process     *)
(* died in between.                                                        *)
StatesReproducible ==
    \A e \in Endpoint :
        /\ ckpt.round > 0 => state[e] = Expected(e)
        /\ state[e] \in {Silent, Expected(e)}

(* The state byte is written before the event: no death makes a target's   *)
(* record appear twice, and a done banner has its record.                  *)
AtMostOneEvent ==
    \A e \in Endpoint :
        /\ events[e] <= 1
        /\ banner[e] => events[e] = 1

(* The summary of a completed job counts every target in its simulated     *)
(* state; it never claims more SYNs than were sent, and if no process died *)
(* it has them all and every banner is there.                              *)
SummaryExact ==
    summary # None =>
        /\ summary.completed
        /\ \A s \in TargetState :
              summary.counts[s] = Cardinality({e \in Endpoint :
                                                simulated_state[e] = s})
        /\ summary.sent <= probes
        /\ faults = 0 => /\ summary.sent = probes
                         /\ Banner => summary.incomplete = 0

(* "A repeated resume on a completed job is idempotent and does not        *)
(* duplicate completed banner work" (VALIDATION.md).                       *)
ResumeIdempotent ==
    [][summary # None =>
         UNCHANGED <<state, rtt, banner, events, probes>>]_vars

Dealt == {p \in Round \X Endpoint : p \in probed \/ Answered(p[2])}

Progress == INSTANCE Sweep WITH
    dealt <- Dealt,
    saved <- [round |-> ckpt.round, next |-> ckpt.next]

(* The simulated scan implements the abstract sweep: the checkpoint moves  *)
(* forward only, over targets that were dealt with.                        *)
ImplementsSweep == Progress!SweepSpec

(* targets without the RTT or the record an uninterrupted run gives them *)
Lost == {e \in Endpoint : /\ Answered(e)
                          /\ \/ ~rtt[e]
                             \/ state[e].state = "open" /\ Banner /\ events[e] = 0}

(* "Resume from interruption ... produces the same final export as an      *)
(* uninterrupted run" (VALIDATION.md) but for the target a death met       *)
(* between its state byte and its record: one death costs at most one      *)
(* target, and the event log is damaged only along with such a loss.       *)
LossBounded ==
    summary # None => /\ Cardinality(Lost) <= faults
                      /\ damage # "none" => Lost # {}

(* A completed job is complete: its summary is true, and its files lack no *)
(* more than the deaths account for.                                       *)
CompletionSound == SummaryExact /\ LossBounded

=============================================================================
