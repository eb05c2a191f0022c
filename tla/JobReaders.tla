----------------------------- MODULE JobReaders -----------------------------
(***************************************************************************)
(* The commands that read a job directory while another process may be     *)
(* scanning into it: `export` (job.rs), `job status`, `report` and the     *)
(* entry of `job list` (ops.rs).  They take no lock and open one file      *)
(* after the other, so the scanner moves on between their reads.  The      *)
(* scanner, its pipeline and the files are those of ScanJob; one command   *)
(* runs at a time.                                                         *)
(***************************************************************************)
EXTENDS ScanJob

CONSTANT MaxReads   \* bound: commands run over the life of the job

ASSUME ReadsAssumption == MaxReads \in Nat

VARIABLES
    rpc,      \* where the command is
    opts,     \* ExportOptions
    meta,     \* the checkpoint as PreparedJob::open read it
    pos,      \* endpoint the command reads next
    rows,     \* by_id: what export has for each endpoint, or None
    opened, finished,  \* counters of job_status
    reads,    \* commands started
    results,  \* results.ndjson, or None
    status,   \* the JobStatus printed last, or None
    listed,   \* the JobListEntry printed last, or None
    quiet     \* history: no process has run since the command started

readerVars == <<rpc, opts, meta, pos, rows, opened, finished, reads, results,
                status, listed, quiet>>
allVars == <<vars, readerVars>>

(* The protocol and banner status filters choose among rows of one state,  *)
(* so one of them stands for both: `banner` keeps rows that have a banner. *)
Options == [output_all : BOOLEAN, state : TargetState \cup {None},
            banner : BOOLEAN]
Row == [state : TargetState, banner : BOOLEAN]

ASSUME RowAssumption == None \notin Row

NoRows == [e \in Endpoint |-> None]
NoOptions == [output_all |-> FALSE, state |-> None, banner |-> FALSE]
NoMeta == [round |-> 0, next |-> 0, degraded |-> FALSE]

(* the command returns and its locals are gone *)
CommandEnds ==
    /\ rpc' = "idle"
    /\ opts' = NoOptions /\ meta' = NoMeta
    /\ pos' = 0 /\ rows' = NoRows
    /\ opened' = 0 /\ finished' = 0

-----------------------------------------------------------------------------
(* Reading events.ndjson.  A record is written piece by piece, so a reader *)
(* may meet the end of a record that is still being appended.  A fragment  *)
(* that lacks nothing but its newline is taken as unreadable too.          *)

EventsReadable == log.fused = {} /\ ~log.torn
EventsBroken == ~EventsReadable \/ ppc = "append"

-----------------------------------------------------------------------------
(* export_with_options *)

includes(o, row) ==
    /\ ~o.output_all => row.state = "open"
    /\ o.state # None => row.state = o.state
    /\ o.banner => row.banner

ExportOpen(o) ==
    /\ rpc = "idle" /\ reads < MaxReads
    /\ rpc' = "events" /\ opts' = o /\ rows' = NoRows
    /\ reads' = reads + 1 /\ quiet' = (pc = "down")
    /\ UNCHANGED <<vars, meta, pos, opened, finished, results, status, listed>>

(* the last record of a result_id wins; all records of an endpoint are of  *)
(* an open one                                                             *)
ExportEvents ==
    /\ rpc = "events" /\ EventsReadable
    /\ rows' = [e \in Endpoint |-> IF e \in log.lines
                                   THEN [state |-> "open", banner |-> TRUE]
                                   ELSE None]
    /\ rpc' = IF opts.output_all THEN "check" ELSE "write"
    /\ UNCHANGED <<vars, opts, meta, pos, opened, finished, reads, results,
                   status, listed, quiet>>

(* mutant: the last round counts as swept while it goes on *)
CompleteEnoughEarly == ckpt.round + 1 >= Attempts /\ ~ckpt.degraded

(* synthesize_missing_results opens the job again and checks it *)
CompleteEnough == ExportAllAllowed

ExportCheck ==
    /\ rpc = "check" /\ CompleteEnough
    /\ rpc' = "states" /\ pos' = 0
    /\ UNCHANGED <<vars, opts, meta, rows, opened, finished, reads, results,
                   status, listed, quiet>>

(* decode_state_byte of the endpoint's byte *)
decode(e) == states[e]

(* mutant: the state file replaces the event *)
insert(row, new) == new

or_insert(row, new) == IF row = None THEN new ELSE row

(* one endpoint: an event is kept, otherwise the state byte makes a row *)
ExportState ==
    /\ rpc = "states" /\ pos \in Endpoint
    /\ rows' = [rows EXCEPT ![pos] =
                    or_insert(@, [state |-> decode(pos), banner |-> FALSE])]
    /\ pos' = pos + 1
    /\ rpc' = IF pos + 1 = N THEN "write" ELSE rpc
    /\ UNCHANGED <<vars, opts, meta, opened, finished, reads, results, status,
                   listed, quiet>>

Selected == [e \in Endpoint |->
                IF rows[e] # None /\ includes(opts, rows[e])
                THEN rows[e] ELSE None]

ExportWrite ==
    /\ rpc = "write"
    /\ results' = Selected
    /\ CommandEnds
    /\ UNCHANGED <<vars, reads, status, listed, quiet>>

(* an unreadable event line, or a job that may not be exported in full *)
ExportRefused ==
    /\ \/ rpc = "events" /\ EventsBroken
       \/ rpc = "check" /\ ~CompleteEnough
    /\ CommandEnds
    /\ UNCHANGED <<vars, reads, results, status, listed, quiet>>

-----------------------------------------------------------------------------
(* job_status, job_report and job_list_entry *)

(* PreparedJob::open *)
StatusOpen ==
    /\ rpc = "idle" /\ reads < MaxReads
    /\ rpc' = "summary" /\ meta' = ckpt
    /\ reads' = reads + 1 /\ quiet' = (pc = "down")
    /\ UNCHANGED <<vars, opts, pos, rows, opened, finished, results, status,
                   listed>>

degraded(s) == meta.degraded \/ (s # None /\ s.drops)

(* mutant: lost packets do not matter *)
next_action_any_drops(s, done) ==
    IF s = None THEN "inspect_missing_summary"
    ELSE IF s.timed_out THEN "resume"
    ELSE IF done THEN "export"
    ELSE "resume"

next_action(s, done) ==
    IF s = None THEN "inspect_missing_summary"
    ELSE IF s.timed_out THEN "resume"
    ELSE IF done /\ degraded(s) THEN "review_degraded_export"
    ELSE IF done THEN "export"
    ELSE "resume"

(* mutant: a round in progress counts as swept *)
rounds_swept_early == meta.round + 1 >= Attempts

rounds_swept == meta.round >= Attempts

completed(s) == IF s = None THEN rounds_swept ELSE s.completed

(* the two counters come from files read one after the other *)
failed_or_incomplete(n_open, n_done) == saturating_sub(n_open, n_done)

build_job_status(s, n_open, n_done) ==
    [round |-> meta.round, next |-> meta.next,
     summary_present |-> s # None,
     completed |-> completed(s),
     timed_out |-> s # None /\ s.timed_out,
     degraded |-> degraded(s),
     open |-> n_open, done |-> n_done,
     incomplete |-> IF s = None THEN failed_or_incomplete(n_open, n_done)
                                ELSE s.incomplete,
     next_action |-> next_action(s, completed(s))]

(* load_summary finds the file: every counter is the summary's *)
StatusSummary ==
    /\ rpc = "summary" /\ summary # None
    /\ status' = build_job_status(summary, summary.open, summary.done)
    /\ rpc' = "report"
    /\ UNCHANGED <<vars, opts, meta, pos, rows, opened, finished, reads,
                   results, listed, quiet>>

(* it does not: state.bin and then banner_state.bin are counted *)
StatusNoSummary ==
    /\ rpc = "summary" /\ summary = None
    /\ rpc' = "count_states" /\ pos' = 0 /\ opened' = 0 /\ finished' = 0
    /\ UNCHANGED <<vars, opts, meta, rows, reads, results, status, listed,
                   quiet>>

IsOpen(e) == states[e] = "open"

read_state_counters ==
    /\ rpc = "count_states" /\ pos \in Endpoint
    /\ opened' = IF IsOpen(pos) THEN opened + 1 ELSE opened
    /\ rpc' = IF pos + 1 = N THEN "count_banners" ELSE rpc
    /\ pos' = IF pos + 1 = N THEN 0 ELSE pos + 1
    /\ UNCHANGED <<vars, opts, meta, rows, finished, reads, results, status,
                   listed, quiet>>

read_banner_counters ==
    /\ rpc = "count_banners" /\ pos \in Endpoint
    /\ finished' = IF banner[pos] = "done" THEN finished + 1 ELSE finished
    /\ pos' = pos + 1
    /\ UNCHANGED <<vars, rpc, opts, meta, rows, opened, reads, results, status,
                   listed, quiet>>

StatusCounted ==
    /\ rpc = "count_banners" /\ pos = N
    /\ status' = build_job_status(None, opened, finished)
    /\ rpc' = "report"
    /\ UNCHANGED <<vars, opts, meta, pos, rows, opened, finished, reads,
                   results, listed, quiet>>

(* job_report goes on to count the events, and fails on a broken line;     *)
(* job_status is done.                                                     *)
StatusEnds ==
    /\ rpc = "report"
    /\ CommandEnds
    /\ UNCHANGED <<vars, reads, results, status, listed, quiet>>

list_status(s) ==
    IF s # None /\ s.completed THEN "completed"
    ELSE IF s # None /\ s.timed_out THEN "timed_out"
    ELSE IF degraded(s) THEN "degraded"
    ELSE IF s # None THEN "running_or_interrupted"
    ELSE "missing_summary"

(* job_list_entry: the checkpoint is read, then the summary *)
ListOpen ==
    /\ rpc = "idle" /\ reads < MaxReads
    /\ rpc' = "list" /\ meta' = ckpt
    /\ reads' = reads + 1 /\ quiet' = (pc = "down")
    /\ UNCHANGED <<vars, opts, pos, rows, opened, finished, results, status,
                   listed>>

ListSummary ==
    /\ rpc = "list"
    /\ listed' = [status |-> list_status(summary), round |-> meta.round,
                  completed |-> summary # None /\ summary.completed,
                  degraded |-> degraded(summary)]
    /\ CommandEnds
    /\ UNCHANGED <<vars, reads, results, status, quiet>>

-----------------------------------------------------------------------------
InitReaders ==
    /\ Init
    /\ rpc = "idle"
    /\ opts = NoOptions /\ meta = NoMeta
    /\ pos = 0 /\ rows = NoRows
    /\ opened = 0 /\ finished = 0 /\ reads = 0
    /\ results = None /\ status = None /\ listed = None
    /\ quiet = TRUE

(* a step of the scanner's process *)
ScanStep ==
    /\ Next
    /\ quiet' = (quiet /\ pc' = "down")
    /\ UNCHANGED <<rpc, opts, meta, pos, rows, opened, finished, reads,
                   results, status, listed>>

ReadStep ==
    \/ \E o \in Options : ExportOpen(o)
    \/ ExportEvents \/ ExportCheck \/ ExportState \/ ExportWrite
    \/ ExportRefused
    \/ StatusOpen \/ StatusSummary \/ StatusNoSummary
    \/ read_state_counters \/ read_banner_counters \/ StatusCounted
    \/ StatusEnds
    \/ ListOpen \/ ListSummary

NextReaders == ScanStep \/ ReadStep

SpecReaders == InitReaders /\ [][NextReaders]_allVars

-----------------------------------------------------------------------------
(* Properties *)

Status == [round : 0 .. Attempts, next : 0 .. N, summary_present : BOOLEAN,
           completed : BOOLEAN, timed_out : BOOLEAN, degraded : BOOLEAN,
           open : Nat, done : Nat, incomplete : Nat,
           next_action : {"export", "resume", "review_degraded_export",
                          "inspect_missing_summary"}]

Listing == [status : {"completed", "timed_out", "degraded",
                      "running_or_interrupted", "missing_summary"},
            round : 0 .. Attempts, completed : BOOLEAN, degraded : BOOLEAN]

(* Every variable of the commands has its type. *)
ReadersOK ==
    /\ rpc \in {"idle", "events", "check", "states", "write", "summary",
                "count_states", "count_banners", "report", "list"}
    /\ opts \in Options
    /\ meta \in [round : 0 .. Attempts, next : 0 .. N, degraded : BOOLEAN]
    /\ pos \in 0 .. N
    /\ rows \in [Endpoint -> Row \cup {None}]
    /\ opened \in Nat /\ finished \in Nat
    /\ reads \in 0 .. MaxReads
    /\ results \in [Endpoint -> Row \cup {None}] \cup {None}
    /\ status \in Status \cup {None}
    /\ listed \in Listing \cup {None}
    /\ quiet \in BOOLEAN

(* the rows of the export in progress and of the last one *)
Exported(e) == {rows[e]} \cup (IF results = None THEN {} ELSE {results[e]})

(* "incomplete jobs are rejected to avoid classifying unsent targets as    *)
(* no-response": an export calls a target silent only if it got a SYN in   *)
(* every round, however the export, stops, crashes and resumes interleave. *)
SilentWasProbed ==
    \A e \in Endpoint, r \in Round :
        \A row \in Exported(e) \ {None} :
            row.state = "no_response" => <<r, e>> \in probed

(* An export never claims more than was observed: a row's state is at most *)
(* the target's state, and a row with a banner is of an open target.       *)
ExportNotAhead ==
    \A e \in Endpoint : \A row \in Exported(e) \ {None} :
        /\ rank(row.state) <= rank(states[e])
        /\ row.banner => row.state = "open"

(* What an export writes, beside a scan or not, is no more than is known. *)
ExportTruthful == SilentWasProbed /\ ExportNotAhead

(* Of a job nobody is scanning, an export is the exact image: with         *)
(* output_all one row per target with its state, otherwise one per open    *)
(* target with a recorded banner.                                          *)
QuietExportExact ==
    [][results' # results /\ quiet /\ opts.state = None /\ ~opts.banner =>
         \A e \in Endpoint :
            IF opts.output_all
            THEN results'[e] = [state |-> states[e], banner |-> e \in log.lines]
            ELSE (results'[e] # None) <=> e \in log.lines]_allVars

(* When a status or a listing says completed, every target was dealt with  *)
(* in every round, whichever run the summary it read stems from.           *)
CompletedWasSwept ==
    \/ status # None /\ status.completed
    \/ listed # None /\ listed.status = "completed"
    => \A r \in Round, e \in Endpoint : Covered(r, e)

(* A status never reports more open targets or banners than there are,     *)
(* though it may read the summary of an earlier run.                       *)
StatusNotAhead ==
    status # None =>
        /\ status.open <= Cardinality(Open)
        /\ status.done <= Cardinality(Done)
        /\ status.incomplete <= N

(* What status and list print is of the right kind and no more than is     *)
(* known.                                                                  *)
StatusTruthful == ReadersOK /\ CompletedWasSwept /\ StatusNotAhead

(* If nobody is scanning, the status suggests an export only of a job the  *)
(* full export accepts.                                                    *)
AdviceHolds ==
    [][status' # status /\ quiet /\ status'.next_action = "export" =>
         ExportAllAllowed]_allVars

=============================================================================
