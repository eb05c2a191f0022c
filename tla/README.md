# RiftMap in TLA+

RiftMap sweeps a set of IPv4 endpoints with SYNs, classifies each as open,
closed, unreachable or silent, inspects the banners of the open ones, and keeps
everything in a job directory so that an interrupted scan can be resumed.  A
second mode hands the sweep out to workers through a coordinator.  This
directory models the parts of the program where order, failure and concurrency
matter, checks them with TLC and proves the main safety properties with TLAPS.

Files named in the text are relative to the repository; `scanner.rs` stands for
`src/scanner.rs`, and so on.  `PROJECT.json` maps every definition to its lines.

## 1. Inventory

| Part | State | Operations | Hard behaviour | What makes it correct |
|---|---|---|---|---|
| Live scanner (`scanner.rs`, `run`, `send_rounds`, `finish_scan`) | round, sweep position, mapped `state.bin`, stop and timeout flags, capture | start or resume, prepare and send a batch, receive, checkpoint, pause, finish | stop at any point, partial sends, dying between sending and saving | a resume skips nobody and, after a clean stop, repeats nobody |
| Banner pipeline (`banner_pipeline`) | bounded channel, task set, semaphore, `banner_state.bin` | receive a target, spawn, reap (append record, mark done), abort, exit | two threads write one file; full channel against a stopping reader; one error drops everything in flight | each open endpoint inspected once per run, recorded before marked, none lost, no deadlock |
| Job directory (`job.rs`) | ten files of one job, among them `checkpoint.json`, `state.bin`, `banner_state.bin`, `events.ndjson` | create, open, bring up to date, checkpoint, append event, save summary | process death between any two writes, files of different age, jobs of older versions | a checkpoint vouches for whole files; progress is never lost |
| Coordinator (`distributed.rs`, `Store`) | tables scans, tasks, workers, results, observations | create scan, register, lease, renew, submit, complete, fail | leases that run out under live workers, requests handled late | done tasks have their results; nothing done is reopened |
| Worker (`run_worker`) | its lease, a renewer thread | hello, lease, run, submit, complete, fail | death with a request in flight, restart with the same id | every task is finished in the end |
| Observation reducer (`observe_response`, `merge_result`) | state byte, conflict count, RTT | observe a reply, merge a result | order and repetition of observations | the outcome depends on what was seen, not on the order |
| Banner inspection (`inspect_banner`, `protocol.rs`) | evidence, status, attempts | connect, read, probe, retry | partial reads, time limits, attempts that mix | status and evidence belong together; bounded time |
| Rate limiting (`rate.rs`, `SharedBandwidthLimiter`) | tokens, time already reserved | consume, change rate | concurrent reservations, rate changes | never more than rate x time + burst |
| Permutation (`permutation.rs`) | none | index of a position | domain edges, cycle walking | a bijection of the targets |
| Target sets (`target.rs`) | sorted ranges | parse, merge, subtract, count | ends of ranges, excluded prefixes | equals the set it denotes |
| Export, status, list, prune (`job.rs`, `ops.rs`) | reads the job directory | export, status, report, prune | reading files of a running or killed job | one result per endpoint, no silent negatives |
| Local simulation (`scanner.rs`, `simulation`) | as the live scanner, sequential | run | resume | same files as a live scan |
| Packets (`packet.rs`, `receive`) | cookies, ports, sent times | build a SYN, recognise a frame, validate a reply | late and foreign replies, wrap-around, three kinds of link header | only answers to our own SYNs are believed |
| Configuration, command line | none of interest here | validate, parse, print | none | not modelled |

Interactions.  `main` creates or opens a job and calls `scan`.  The scanner
thread and the pipeline thread share the channel, the stop flag, the bandwidth
limiter and the file `banner_state.bin` (one through a mapping, the other
through a file handle).  A Ctrl-C handler and a timer thread set flags.  The job
directory is the only thing that outlives the process.  In the distributed mode
every request is one TCP connection and one SQLite transaction; a refused
request closes the connection and ends the worker.

The full list of hazards, each at its line and with the properties that would
catch it, is in `PROJECT.json`.

## 2. Plan

The modules, most important first; each builds on what stands before it.

1. `ScanJob` - scanner, pipeline and job files; `ScanJobProofs`.
2. `TaskBoard` - abstract specification of a distributed scan - and
   `Coordinator`, which implements it; `CoordinatorProofs`.
3. `Limiter` - the bandwidth budget and its callers; `LimiterProofs`.
4. `Framing` - where a server's message ends - and `BannerInspect`, one inspection
   with its attempts; `BannerInspectProofs`.
5. `Permutation` - the order of a sweep.
6. `Targets` - from target files to endpoints and back; `EndpointsProofs` is about both.
7. `JobReaders` - export, status, report and list beside a running `ScanJob`.
8. `Sweep` - abstract specification of a scan's progress, which `ScanJob` implements -
   and `Simulation`, the local simulation, which implements it too; `SimulationProofs`.
9. `Replies` - from captured frames to observations; `RepliesProofs`.
10. `JobStore` - the life of job directories, from creation to prune;
    `JobStoreProofs`.

How they compose: `JobReaders` EXTENDS `ScanJob` and adds a reader to its
processes; `BannerInspect` EXTENDS `Framing`; `Coordinator`, `ScanJob` and
`Simulation` INSTANCE their abstract specifications.  The others meet at stated boundaries:
`ScanJob` names endpoints by their place in the sweep, which `Permutation`
justifies; it takes a valid reply as one step, which `Replies` takes apart, and
an inspection, which `BannerInspect` does; it starts from a complete directory,
which `JobStore` shows that a scan does.

Left: two scans in one coordinator.

## 3. Modules

### ScanJob

One job over its whole life, many processes one after the other.

| Variables | Code |
|---|---|
| `ckpt` | `checkpoint.json`: `round`, `next_index`, `degraded` |
| `states`, `banner` | bytes of `state.bin` and `banner_state.bin` |
| `log` | `events.ndjson`: which endpoints have a record on a line of its own, which have one joined to a fragment, and whether the file ends inside a line |
| `summary` | `summary.json`: completed, timed_out, banner_failed_or_incomplete |
| `pc`, `ret`, `cur` | where the scanner thread is; what it does after the current receive; the endpoint it is sending to the channel |
| `round`, `order`, `draft` | locals of `send_rounds` and the summary under construction |
| `stopping`, `timed_out`, `drops`, `queue` | the flags, the kernel's drop counter of this capture, the channel |
| `ppc`, `phase`, `pcur`, `task` | the pipeline's place, whether it serves, closes or aborts, the endpoint in its hands, the tasks |
| `probed`, `resent`, `dropped`, `early` | history: SYNs sent per round, SYNs sent twice, runs with drops, whether a run ended before it read the drop counters |
| `replies`, `faults`, `stops` | bounds |

Endpoints are named by their place in the sweep.  The permutation is fixed by
the job's seed, so places and indexes are in bijection; that the Feistel network
is one is shown in `Permutation`.

Atomicity.  Each thread's step ends at a shared access: setting the banner byte
and sending to the channel are two steps (the send may block in between);
appending the record and setting the done byte are two steps; the timer's two
stores are two steps.  A checkpoint and a summary are one step because
`atomic_write` replaces the file by a rename.  A batch is sent in one step, or
in part when `sendmmsg` fails.  A `receive` is a sequence of `Receive` steps that
ends when the capture times out.

Faults.  `Crash` is the death of the process at any step: mapped files keep
every store, an append may leave a fragment, everything else is gone.  An I/O
error that leaves `run` through `?` has the same effect.  Besides: a send error
in the middle of a batch, an append or mark that fails, an inspection task that
returns an error or panics, packets dropped by the capture.

Abstractions.  RTTs, conflict counts and the attempts nibble of the state byte
are in `Replies`.  A reply is accepted for an endpoint that was probed at
any time, which is what the cookie and port checks let through when
`source_port` is configured (with ephemeral ports they let through less).  Loss
of the page cache in a power failure is not modelled.

### TaskBoard and Coordinator

`TaskBoard` is the promise: tasks are ticked off only when the results of their
endpoints are in, a result is entered once, and the scan is complete exactly when
the board is.  `Coordinator` is the code: each transaction of the store is an
operator with the code's name (`lease_task`, `renew_task`, `submit_observations`,
`complete_task`, `fail_task`, ...), and `run_worker` is a process that issues them
in order.  The worker's program counter is the request it is waiting for, so a
worker that dies (`WorkerDies`) may leave that request behind in `late`, to be
handled at any later time - after the task was leased to somebody else, after the
same worker id was started again, or after the scan was completed.  Restarts keep
the worker id, which the command line allows.

Time.  `lease_expires_at_ms` is the flag `expired`.  It is raised freely when no
live process holds the task, and at most `MaxStalls` times under a live one (a
process that does not get to renew for 30 s).  `renew_task` clears it for the
owner even after expiry, as the code does.

Abstractions.  One scan; results are a state, a banner status and a conflict
count; `simulated_result` is a constant function of the endpoint, as in the code,
where it is a hash of the endpoint.  The `observations` table is only counted, by
`status`, and is left out together with the read-only requests.  `heartbeat` is
never sent.

### Limiter

The token bucket, the mutex around it, and its two kinds of callers.  All amounts
are times: a packet costs `SYN_WIRE_BYTES / rate`, and `credit` is
`tokens / rate`, at most the burst of `TOKEN_BUCKET_BURST_SECONDS`.  This makes
`consume_at` exact in integers, and it shows what `set_rate_at` is: keeping the
fill ratio keeps `credit`, so a change of rate changes the `cost` of the packets
to come and nothing else.  (`set_rate_at` also moves `last_seconds` forward; the
`consume_at` that always follows it under the same lock does so in any case.)

| Variables | Code |
|---|---|
| `credit`, `last` | `tokens`, `last_seconds` of `TokenBucket` |
| `cost`, `reload`, `file` | `current_bps`, `last_reload`, the contents of the dynamic rate file (`None` when it cannot be read) |
| `spc`, `count`, `load`, `due`, `remaining`, `wake` | the scanner in `prepare_syn_batch` and `consume_interruptible` |
| `tpc`, `tdue`, `twake` | banner tasks in `AsyncTokenBucket::consume` |
| `granted`, `sent`, `mark` | history: cost of all reservations, of all packets out, and the totals at a freely chosen reservation |

`reserve` is one step because it runs under the mutex; the sleeps are not.  Any
time may pass before a sleeper goes on.  A refused SYN has used up its
reservation, as in the code.  Rounding of floating-point times is left out.

### Framing and BannerInspect

`Framing` is `protocol.rs` on sequences of byte values: `message_len` of the six
protocols as it stands in the code, with its three outcomes (`More`, `Complete(n)`,
`Error(status)`), and `parse` reduced to whether it accepts a message.  The length in a
Redis header is read digit by digit and refused above `isize_MAX`, as `str::parse` does.
`BannerInspect` is one call of `inspect_banner`.

| Variables | Code |
|---|---|
| `proto`, `mode` | the service, `scan.ssh.probe_mode` |
| `pc`, `attempt` | the place in the attempt, the loop counter |
| `raw`, `status`, `parsed` | `BannerObservation` |
| `rest` | what the connected server still sends |
| `stream`, `probed`, `faults` | history: all bytes of this connection, connections written to, whether a call failed |

A server is a sequence of bytes.  `ReadChunk` takes any number of them up to the
size of one read; when they are used up the server closes (`ReadEnd`), stays silent
(`ReadFails`) or sends more (`ReadMore`), again and again.  Connect, read and
write can fail or time out wherever they are called.  What `read_banner` received
beyond the message is dropped by `truncate`, so `rest` continues behind it: this is
what `read_ssh_packet` then sees.

Of the KEXINIT only the packet header, the padding and the message number are modelled;
`KexMin` stands for the shortest payload with all its lists (62 bytes in the code).
`KexinitRecorded` speaks of a packet that fits `banner_max_bytes` and has at least the
six bytes the code looks at; a longer one is refused after its header.  Waiting for the
budget is in `Limiter`; cancellation is in `ScanJob`, where an inspection is one step
with the outcomes result, error or panic, and cancelled.  `oversized` does depend on how
bytes are cut: a complete message that arrives together with enough further bytes is
rejected, which is why `ChunkingIrrelevant` speaks of reads within the limit.

### Permutation

`new`, `round`, `full` and `get` of `permutation.rs`, one pass of the loop of `get`
per step, for every position of a round in turn.  `n`, `key` and `half` are the
fields of the struct, `order` and `x` the argument and the loop variable, `image`
the results.  The keyed hash of a Feistel round is an arbitrary function of the half
word: nothing that is shown depends on which.  `walked` is history, for the argument
that a walk does not come back.

### Targets

The files an operator edits become entries, entries ranges (`parse_entry_targets`,
`merge`), excluded and denied ranges are taken out (`subtract`, `filter_allowed`),
what is left is counted against `max_targets`, and `create_shard` writes the
endpoints of a shard.  `find_index` and `endpoint_index` look endpoints up again.
Each stage is an operator with the code's name and a step of the pipeline
`edit` - `parsed` - `prepared` - `created` or `refused`.  A loop of the code is a
recursive function whose index is the number of passes made (`MergeOne`, `CarveOne`,
`SubtractOne`, `Halve`).  `sort_unstable` is any order by key: what can come out of a sort or a
merge is a set of sequences (`sorted`, `Merged`), of which a step takes one.  Addresses
have `Width` bits; the arithmetic that could overflow at the end of the address space is
kept.  The text of a line is not parsed.

### JobReaders

`ScanJob` with one more process: an `export`, `job status`, `job report` or `job list`
that takes no lock and opens one file after the other.  `rpc` is where it is, `meta`
the checkpoint as it was read, `pos` the byte read next, `rows`, `opened` and
`finished` what it has gathered, `results`, `status` and `listed` what it has put out.
Every byte of a mapped file is a step of its own, so that the scan moves on between
them; a log that ends inside a record is refused, as a JSON error is in the code.
CSV quoting, the protocol filter and the software table of the report are formatting
and left out.

### Sweep and Simulation

`Sweep` is the promise of any scan, live or simulated: the saved position only moves forward, and
whatever it has passed was probed or had answered.  `Simulation` is the scan of a
job with `[simulation].enabled`: state byte, RTT, record, banner byte, checkpoint and
summary are written one step at a time, and a process may die between any two of
them (`Die`), inside the append too.  `job.meta` is lost with the process, the files
are not.  The hash that chooses a target's simulated state is a constant function.

### Replies

Sending (`SendSyn`), receiving (`BeginReceive`, frames, `EndReceive`), rounds and
restarts, with the world's side of it: `wire` holds every SYN ever sent, and an answer
to any of them may arrive at any later time, any number of times, to the process that
sent it or to a later one.  `Answer` frames are what hosts and routers make of a SYN;
`Stray` frames carry any ports and numbers.  `ipv4_header`, `handle_tcp_reply` and
`handle_icmp_reply` are the code's checks in the code's order; `observe_response`
writes state, attempt, conflict count and RTT.  `now_ms` is taken once per `receive`.
Sequence numbers wrap at `U32`, counters saturate.  The keyed hashes for cookies and
ephemeral ports are constant functions; in the instance ports of different runs
differ, so a collision of two nonces is not shown.  `RttNotOver` has this as a
condition (`OwnPorts`): without it, a late reply to an earlier process is measured
against a `sent_at` of that process's clock.

### JobStore

Each job has a `file` map with three contents - none, short (created, not all of it
written), full - and at most one process working on it: `create` writes the files in
the order of `create_shard`; `scan` (a scan or resume) goes through `open`,
`ensure_endpoint_files`, the length check, `fixed_mmap` of the state files and the
backfill of `banner_state.bin`; an export goes through the first three.  `job prune`
lists the directories and then removes one after the other, file by file, whatever
else goes on.  A `Legacy` job has only the files of the first version, and its event
log any records.  `recent` stands for a checkpoint time after the cutoff.

## 4. Runs

| Run | Instance | Checks |
|---|---|---|
| `scan_sweep` | 3 endpoints, 2 rounds, batches of 1-2, 1 reply, 1 fault, 1 drop, 1 stop | `CheckpointCovers`, `ProbedOnce`, `DropsRemembered`, `ProgressKept`, `SummaryHonest` |
| `scan_live` | 2 endpoints, channel of 1, 1 inspection at a time, 2 replies, 1 fault, 1 stop, with fairness | `EventBeforeDone`, `BannerInOnePlace`, `StopTerminates`, `OpenInspected`, `RoundsComplete` |
| `coord_rounds` | 2 workers (one leaves when idle), 3 endpoints in tasks of 2, 2 rounds in different order, 1 fault, 1 stall, with fairness | `LeaseRespected`, `BoardSpec`, `ScanCompletes` |
| `limiter_budget` | 1 banner task, burst 2, packets of cost 1 or 3, polls and sleeps of 2, batches of 2, clock up to 5 | `ReservedWithinBudget`, `SentWithinBudget` |
| `banner_read` | 2 attempts, a limit of 12 bytes, reads of up to 14, `isize_MAX` of 8; servers made of up to 3 pieces of a protocol and, for SSH, a banner with one of 7 packets | `EvidenceSound`, `ResultSound`, `ChunkingIrrelevant`, `OneActiveProbe`, `InspectionEnds` |
| `permutation_sweep` | half words of 1 and 2 bits, 9 sizes up to 16, each round with one of 3 functions | `SweepIsPermutation`, `WalkEnds` |
| `targets_scope` | 16 addresses, up to 3 of 7 included and 2 of 5 excluded entries, 2 services, 1 to 3 shards | `ScopeExact`, `ShardsPartition`, `LookupExact` |
| `targets_excludes` | the same | `ExcludesWin`, which is violated |
| `readers_commands` | 2 endpoints, 2 rounds, 1 reply, 1 drop, 1 stop, 1 command with any options | `ExportTruthful`, `StatusTruthful`, `QuietExportExact`, `AdviceHolds` |
| `simulation_resume` | 6 targets in all four states, 2 rounds, 3 deaths, a checkpoint every 2 | `CompletionSound`, `StatesReproducible`, `AtMostOneEvent`, `ResumeIdempotent`, `ImplementsSweep` |
| `replies_validate` | 2 services of one host, 1 stranger, 2 processes, 2 rounds, 2 answers, time up to 2, numbers below 12 | `BestAnswerKept`, `ConflictsMeanDisagreement`, `RttNotOver` |
| `store_files` | a job of an older version and a new one, 1 target, 1 death, 1 prune, 2 commands per job | `FilesWhole`, `BackfillSound`, `PruneTakesJobs` |

Some of these are conjunctions, each part with a comment of its own in its module:
`BannerInOnePlace` (`InspectedOnce`, `NoOrphanBanner`), `EvidenceSound`
(`EvidenceOfOneAttempt`, `EvidenceBounded`), `ResultSound` (`ResultConsistent`,
`KexinitRecorded`), `ExportTruthful` (`SilentWasProbed`, `ExportNotAhead`),
`StatusTruthful` (`ReadersOK`, `CompletedWasSwept`, `StatusNotAhead`),
`CompletionSound` (`SummaryExact`, `LossBounded`), `FilesWhole` (`ListedIsWhole`,
`MappedIsWhole`) and `BackfillSound` (`DoneHasEvent`, `UpgradeComplete`).  `BoardSpec`
includes what `DoneResolved` and `DoneIsFinal` say of the store, and `ImplementsSweep` of
`ScanJob` combines `CheckpointCovers` with the last part of `ProgressKept`.  These three,
`ReservedInOrder` and the type invariants are proved (section 6) and not repeated in
a run, except that of `JobReaders`, `ReadersOK`.

Why the bounds are enough to be interesting.  A channel of one slot is full with
one target, so two open endpoints are enough for the scanner to block while the
pipeline holds one, runs one, or stops.  Batches of one and two with a period of
two let a batch end on a checkpoint or step over it.  Two rounds show that the
position is reset and that an answer in the first round is passed over in the
second.  One fault and one stop combine with any number of resumes.  In
`Coordinator` three endpoints in tasks of two give a full and a partial task;
a worker dies with a request on the way and comes back under its id, while another
stalls until its lease is given away; the three outcomes open, closed and silent are
all present.  In `Limiter` a slow rate costs more than a burst per packet, so
reservations run ahead of the clock, and a fast one less; the scanner's sleep is
cut into pieces; a batch of two is held back while the tasks reserve.  In
`BannerInspect` a limit of 12 bytes is the length of the shortest reply of several
lines, so the pieces give replies below, at and above it, and two attempts are
enough for one to disturb the next.  The sizes of `Permutation` lie below, at and
above powers of four, so that walks have no, one or many steps; of its three
functions one is constant and one loses information.  The entries of `Targets` nest,
touch, overlap and reach both ends of the address space.  In `JobReaders` one command
meets the scan at any of its steps; process deaths are left out of this run (they are
in the other runs of `ScanJob`) to keep two rounds.  In `Simulation` an open target
stands at a saved position, at an unsaved one and at the end.  In `Replies` one cookie
is the largest number, whose acknowledgement wraps to 0, and two answers are enough to
disagree, to repeat and to come in either order.  In `JobStore` the constraint
`OneJobAtATime` leaves out the states in which both jobs are worked on, because no
step reads another job's files except the prune, which still lists both.

Deadlock is checked where the system goes on for ever: a finished job can always be
started again, and idle workers keep asking.  An inspection, a round of a permutation,
a target list, a bounded exchange of replies and a removed job end.

### Where the documents say more than the code does

`targets_excludes` has a finding in `PROJECT.json`: "Excludes always win", but
excluded prefixes lose their last address in the same `trim_last_address` as included
ones, and that address is scanned if another entry includes it.

The properties of the passing runs are stated as the code keeps them.  Where a
document or comment promises more, the difference is a condition in the property:

* "Persist periodically" (`scanner.rs:2084`): the checkpoint is written only when a
  batch happens to end on a multiple of 10,000, so a whole round may pass without one.
  `CheckpointCovers` and `ProgressKept` hold all the same; a death costs more repeated SYNs.
* "Each scan writes `summary.json` before returning" (`OPERATIONS.md`): a stop while a
  resume still queues banners makes a send fail and the run return without one
  (`scanner.rs:1994`, action `ResumeSendFails`).
* A process death inside `append_event` (`job.rs:360`) leaves a fragment to which the
  next record is joined; an export then fails on the line.  `ScanJob`, `JobReaders` and
  `Simulation` keep such fragments in `log`; `CompletionSound` bounds what a simulated
  scan loses by them.
* "When pcap reports dropped packets, the job is degraded" (`SAFETY_MODEL.md`): drops of
  a process that ends before `finish_scan` has read the counters (`scanner.rs:2310`) are
  forgotten - one that dies, but also one that is stopped while a resume still queues
  banners, which then returns early.  `DropsRemembered` speaks of jobs without such a run.
* kexinit_probe "reads the server KEXINIT packet when available" (`SAFETY_MODEL.md`):
  one that arrives in the same read as the identification line is cut off with it
  (`scanner.rs:1029`), and one longer than `banner_max_bytes` is not read.
  `KexinitRecorded` speaks of connections without dropped bytes and of packets that fit.
* "Resume from interruption ... produces the same final export" (`VALIDATION.md`): a
  simulated scan that dies between state byte and record is resumed past that target
  (`scanner.rs:1285`).  `LossBounded`: one target per death at most.
* "`rtt_ms`: observed response RTT" (`RESULT_SCHEMA.md`): with a fixed `source_port` a
  reply to an earlier process's SYN is accepted and measured with two clocks
  (`scanner.rs:1662`), and so is one with a drawn port when both processes drew the same.
  `RttNotOver` speaks of `source_port = 0` and of ports that differ.
* Ethernet frames are recognised only if the first half byte of the interface's
  address is not 4 (`scanner.rs:1533`): `HeaderFound` in `Replies`.
* "duplicate or lower-ranked observations" (`RESULT_SCHEMA.md`): `conflicting_observations`
  does not count duplicates, and counts a higher-ranked one that replaces an answer
  (`scanner.rs:1620`).  `ConflictsMeanDisagreement` states what it does count.
* "Older jobs without `banner_state.bin` are backfilled" (`README.md`), and `resume` is for
  use after process failure (`OPERATIONS.md`): a death inside the backfill
  (`job.rs:373`) leaves a file that is never filled, one inside
  `ensure_endpoint_files` (`job.rs:248`) a short file that is refused ever after.
  `UpgradeComplete` speaks of upgrades without a death.
* "`job prune` removes old job directories" (`ROADMAP.md`): a job that is resumed between
  the listing and its turn is removed too (`ops.rs:359`); `PruneTakesJobs` says what
  is never removed.

## 5. Fairness

`ScanJob`: weak fairness of the scanner thread, the pipeline thread, each
inspection task and the timer's second store - threads and tasks are scheduled,
every await of an inspection has a time limit - and of `Start`, the operator who
resumes an unfinished job.  No fairness of replies, stops or faults; these are
finitely many.  `StopTerminates` does not depend on `Start`.

`Coordinator`: weak fairness of each live worker's steps, of the expiry of leases
that nobody holds (time passes), and of starting a worker when none is left.  A
late request is never assumed to be handled.  Failures are finitely many: the code
retries a failed task without limit, so a task that fails every time keeps the
scan from completing.

`BannerInspect`: weak fairness of the whole inspection; every call in it has a time
limit, so some step is always taken.  Nothing is assumed of the server, which may
send for ever.

`Permutation`: weak fairness of the loop of `Permutation::get`, which is sequential
code.  The other modules have no liveness property: a simulated scan, a command or a
prune runs to its end unless the process dies, and a reply may never come.

## 6. Proofs

All theorems hold for every value of the constants that satisfies the named
assumptions (`SizeAssumption`, `BoundAssumption`, `NoneAssumption`, and for the
commands `ReadsAssumption`, `RowAssumption`;
`ScanAssumption`, `WorkerAssumption`, `NoneAssumption`; `RateAssumption`;
`InspectAssumption`, `FramingAssumption`; `SizesAssumption`, `PowerAssumption`,
`WidthAssumption`, `HashAssumption`, `XorAssumption`; `AddressAssumption`,
`EntryAssumption`, `ServiceAssumption`, `CountAssumption`; `SimAssumption`;
`StoreAssumption`; `RepliesAssumption`).

Those of `Targets`: an address has two bits at least, so that the prefixes /30, /31
and /32 are told apart (the code has 32), and powers of two are positive numbers, which
the provers do not know; a prefix is at most the width (`parse_entry` refuses others);
there is a service and no port is given twice (`Config::validate`, `config.rs`); a shard
count and `max_targets` are positive (validated too).  The address space, the lines, the
reserved and private blocks, the services and the numbers of shards are arbitrary.

`ScanJobProofs`

* `TypeCorrect`: `TypeOK`.  It is not inductive: that a channel is not overfilled or
  a place of the scanner is left with the right operand needs `ControlOK`, which
  ties `cur`, `pcur` and `round` to the program counters.
* `CheckpointSound`: `CheckpointCovers`.  The invariant `SweepInv` adds that the
  position of the running round is itself covered (everything before `order` was
  probed or has answered), that a running process has the checkpoint's round, and
  that the checkpoint is not ahead of `order`.  Then every checkpoint the code
  writes - at a stop, after a batch, at a round's end, in `finish_scan` - is
  covered, and replies only add to what is covered.
* `DoneIsRecorded`: `EventBeforeDone`, from `RecordInv`: whenever the pipeline is
  about to mark an endpoint, its record is in the log.
* `ProgressIsKept`: the action property `ProgressKept`, from the invariants above.
* `ScanImplementsSweep`: the refinement of `Sweep`.  `dealt` is what was probed or has
  answered, `saved` the checkpoint's position; `SweepInv` after a step gives that the new
  position covers only what was dealt with by then, the invariants before it that the
  position did not move back.
* `ProbesAreNotRepeated`: `ProbedOnce`.  That no SYN was repeated so far says nothing
  about the next batch.  `FrontInv` says that all probes lie behind the position the
  process is at, or, when none runs, behind the checkpoint; and that a process past its
  last batch has saved that position, so that it may end at any later step.
* `DropsAreRemembered`: `DropsRemembered`, from `DropInv`: a drop is in the checkpoint
  or still in the counters of the running capture, unless `early`.  The attempt to prove
  the property for jobs without faults failed: a stop is no fault, and one that meets a
  resume in its queueing loop loses the counters.  Hence `early`.
* `BannersAreInOnePlace`: `BannerInOnePlace`.  `Places` counts; the invariant `PlaceInv`
  says the same without counting (the channel holds no endpoint twice, and any two of
  the four places exclude each other), ties the banner byte to the places, and states
  which endpoints a resume has still before it.
* `SummaryIsHonest`: the action property `SummaryHonest`, from `PlaceInv` (nothing is in
  flight when the pipeline has been joined) and `DropInv`.

The commands beside a scan (`JobReaders`) are in the same module, since their processes
are those of `ScanJob` and one more: `ScanBeside` shows that a behaviour with readers is
one of `ScanJob`, so that everything above holds of it.  `CommandInv` is about what a
command has gathered while the scan went on.

* `ExportIsTruthful` (`ExportTruthful`), from `RowsInv`: a row, once read, stays true,
  because states only rise and rounds once swept stay swept; and a full export that has
  passed its check finds the rounds still complete.
* `StatusIsTruthful` (`StatusTruthful`), from `SummaryInv` (a summary of whichever run
  claims no more than holds since), `CountInv` (what has been counted up to `pos` is at
  most what is there up to `pos`) and `ReportsInv`.
* `QuietExportIsExact` (`QuietExportExact`) and `AdviceIsGood` (`AdviceHolds`), from
  `QuietInv` (what was read is still the case if nobody scans) and `ImageInv` (the rows
  gathered so far are the image of the part read so far).

`CoordinatorProofs`

* The invariant `IInv` has a half about the store (`StoreInv`: only running tasks
  have owners, the results table holds nothing but expected results, done tasks are
  resolved) and a half about processes and late requests (`ProcessInv`: whatever a
  lease lists as terminal is known, and whoever is about to complete a task has had
  its observations submitted).  The second half has to speak of requests whose
  sender is gone, because the store acts on them without checking a lease.
* Every step is reduced once to a step of the store (`EveryStoreStep`); each
  transaction then keeps `StoreInv`, and a known result stays known.
* `TypeCorrect`, `ResultsComplete` (`DoneResolved`; the completeness of a completed
  scan also uses `TasksCover`, that the tasks of a round cover all endpoints),
  `FinalStays` (`DoneIsFinal`), `LeasesAreRespected` (`LeaseRespected`) and
  `ImplementsBoard`, the refinement of `TaskBoard`.

`LimiterProofs`

* `TypeCorrect`: `TypeOK`, together with where the callers are (`CallersOK`).
* `BudgetIsKept` (`ReservedWithinBudget`) and `OrderIsKept` (`ReservedInOrder`),
  from `RateAssumption`.  The budget is not inductive: a full bucket could be spent
  again.  `BudgetInv` counts the credit left in the bucket as spent since the mark.
  Every step is one reservation or leaves the bucket alone (`BudgetStep`), and one
  reservation moves at most as much into `granted` as it takes out of `credit` or
  adds to `last` (`ReserveKeeps`).  `mark` is chosen freely, so the bound holds for
  every window between two reservations.
* `SendingIsWithinBudget`: `SentWithinBudget`.  The invariant has to say for each caller
  still waiting that what it will send fits into the time at which it wakes; with
  callers that overtake each other no sum over them is enough.  `Ledger` gives each unit
  of granted time at most one owner - what was sent, the batch in hand, the scanner's
  wait, or a task's - such that the owners' sets are disjoint, have the size of what they hold,
  and lie below the owner's waking time plus one burst.  What is sent lies below
  `now + Burst` then, and disjoint sets below a number have no more elements than it.

`BannerInspectProofs`

* `MessageFits`: a message found complete lies within the data.  It goes through the
  six framings; that the least of a set of positions is one of them (`MinIn`) comes
  from the well-foundedness of the naturals.
* `TypeCorrect`: `TypeOK`, with what is known at each place (`PlacesOK`).
* `EvidenceIsSound` (`EvidenceSound`) and `ProbesAreSingle` (`OneActiveProbe`), from one
  invariant `InspectInv`: while reading, what was read and what is still to come make up the stream; a read is
  started only below the limit; and a connection that was written to has a complete
  banner, so that its attempt is the last - accepted or rejected for good.
* `CompleteIsLocal`: a message found complete is found complete in all bytes that agree
  with it (`Agree`) up to its end; `VerdictIsFinal`: nor does a rejection change.  Both
  go through the six framings.  For Redis the digits of the length have to give a number
  (`ValueIsNat`): `Value` is a recursive function, and both that the recursion has a
  solution and that its values are natural follow from a least position at which it
  would fail, which the well-foundedness of the naturals gives.
* `ChunksDoNotMatter` (`ChunkingIrrelevant`) follows from `VerdictIsFinal`.
* `ResultsAreSound` (`ResultSound`), from `ResultInv`: an ok status comes from a banner
  that was found complete, and its truncation is complete again (`CompleteIsLocal`);
  where the KEXINIT is read, the bytes behind the banner are the rest of the stream.

`EndpointsProofs`

* `TypeCorrect` (`TypeOK`) and `SweepPermutes` (`SweepIsPermutation`).  Half words and
  numbers correspond (`JoinUnique`, `DivBound`); a Feistel round can be undone because
  the exclusive or can, so the network is one-to-one whatever the hash.  The invariant
  keeps every application of the network in `walked`: two walks that met would have met
  one step earlier, back to the place where one of them started, which is an index and
  therefore no place a walk goes on from.  A one-to-one map of a finite set into itself
  is onto, so a finished round has visited everything.
* `ScopeIsExact` (`ScopeExact`).  Induction over data has to be done by hand: `Passes`
  says that what holds before a loop and is kept by a pass holds after any number of
  passes, for a set of pass numbers instead of an operator; it and `LoopExists` (the
  recursive function of a loop exists) go back to the least number at which they would fail.
  Each loop has its invariant.  `merge` (`MergeStep`): the blocks read so far and the
  merged ones have the same addresses (`Among`), and the merged ones lie `Apart`: sorted and
  without overlap.  `subtract` (`CarveInv`, `SubtractInv`): the pieces cut so
  far are the addresses left of the cursor outside every exclude, and the excludes that
  were skipped for good end before the range.  `FlattenHas`: a concatenation over the lines
  or blocks has what one of them has.  Then `ranges` is the set that the lines mean, less
  the denied blocks (`TargetsInv`); `iter` over ranges that lie apart is increasing, hence
  without repetition, and `count` is its length (`IterExact`).
* `ShardsArePartition` (`ShardsPartition`), from the same invariant: the places of a shard
  and the endpoint list are one-to-one (`PlacesExact`, `AllExact`), because
  `(k - 1) \div Len(Ports)` and `(k - 1) % Len(Ports)` determine the place; a place has one
  remainder modulo the number of shards.
* `LookupIsExact` (`LookupExact`): `find_index` keeps the address, if it is there,
  inside `low .. high`, and every pass makes the interval shorter (`HalveCases`,
  `SearchExact`), so the recursion has reached an end after as many passes as there are
  endpoints; `endpoint_index` finds the service in the block of that address
  (`IndexExact`).

`SimulationProofs`

* `TypeCorrect`, `StatesAreReproducible`, `EventsAreUnique`, `ResumeChangesNothing` and
  `Refinement` (`ImplementsSweep`), from `SimInv`.  That a later round never writes a
  state needs that whatever the first round passed has its final state (`StateOK`),
  which needs that no checkpoint is ahead of the loop (`ProcOK`, `CoverOK`).
* `CompletionIsSound` (`CompletionSound`), from `CompletionInv`: the targets lost so far
  are not more than the deaths, not counting the one in hand, which only a death loses
  (`LossOK`); and without deaths every SYN is in the process's or the saved count
  (`CountOK`).

`JobStoreProofs`

* `TypeCorrect`, `FilesAreWhole` (`FilesWhole`, from `CheckpointVouches` and
  `MappingsComplete`), `SkippedHasEvent` (`DoneHasEvent`) and `PruneSparesOthers`
  (`PruneTakesJobs`), from `StoreInv`: for each place a command may have reached, the
  files that are whole by then (`CreateOK`, `StageOK`), what a checkpoint vouches for
  (`StoredOK`), and what may stand on a prune's list (`PruneOK`).  A job that a prune has
  begun to remove is exempt, since nothing keeps a scan from running into the removal.
* `BackfillIsSound` (`BackfillSound`), from `UpgradeInv`: without a death, every file that
  `ensure_endpoint_files` has passed is whole, and a target with a record that is not
  marked done is only found where a backfill is under way or about to be decided.

`RepliesProofs`

* `TypeCorrect`, `BestAnswerIsKept` (`BestAnswerKept`) and `ConflictsAreDisagreements`
  (`ConflictsMeanDisagreement`), from `ReplyInv`.  Sequence numbers on the wire are
  cookies of where they go and come from (`WireOK`); therefore an answer is believed
  exactly if its SYN has the port of this process (`AnswerBelieved`), and a stray frame
  never is (`StrayIgnored`).  `ConflictsOK` says the same as the cardinality in the
  property, without counting.  Nothing is assumed of the hashes: ports of two processes
  may collide, since `Recognisable` speaks of ports.
* `RttIsNotOver`: the action property `RttNotOver`, from `ClockInv`: every SYN has the
  port of a process that has run (`OriginOK`), so that a reply this process believes
  answers one of its own; then `sent_at` is the time of the last SYN to that target on
  this process's clock (`SentOK`), and `now_ms` a time on it after all SYNs (`ReceiveOK`).
  The difference neither wraps nor loses more than saturation takes off.

Every invariant and every action property that a passing run checks is proved.  Only
model-checked: the properties under fairness (`StopTerminates`, `OpenInspected`,
`RoundsComplete`, `ScanCompletes`, `InspectionEnds`, `WalkEnds`), which are outside what
TLAPS proves here.

## 7. Not modelled

* The byte layout and checksums of packets (`SynPacket`): encoding without a protocol
  of its own.  The checks on what comes back are in `Replies`.
* The text fields of banners and the name lists of a KEXINIT; CSV and report formatting.
* Configuration and command line: parsing, validation and printing.  The ranges that
  validation enforces are the assumptions on the constants.
* Multi-scan scheduling of the coordinator: tasks of all scans share one order, and the
  model has one scan.
* Loss of the page cache in a power failure: a death of the process keeps every store to
  a mapped file.
* Floating-point rounding in the rate limiter, and a rate of zero.

## 8. Running

    tlc -workers 2 -config ScanJob_sweep.cfg MCScanJob
    tlc -workers 2 -config Simulation_resume.cfg MCSimulation
    for m in ScanJob Coordinator Limiter BannerInspect Endpoints Simulation JobStore Replies
    do tlapm ${m}Proofs.tla; done

Each run needs less than two minutes with two workers, each module of proofs a few
minutes.

The operators marked `mutant` are not part of the specification: each is a
plausible slip in the definition that follows it, with which TLC finds the
property named in `PROJECT.json` violated.
