------------------------------ MODULE JobStore ------------------------------
(***************************************************************************)
(* The job root: directories come into being file by file (create_shard),  *)
(* are opened and brought up to date by later commands (job.rs), grow      *)
(* older, and are removed file by file by `job prune` (ops.rs).  Every     *)
(* process may die between two of its writes.  Nothing locks a job: a      *)
(* prune runs beside the one scan, resume or export of a job.              *)
(*                                                                         *)
(* A file is missing, short (created, but not all of it written) or full.  *)
(* A legacy job was written by a version without the later files.          *)
(***************************************************************************)
EXTENDS Integers, Sequences, FiniteSets

CONSTANTS
    Job,        \* job directories
    Legacy,     \* those an older version left behind
    Target,     \* endpoints of a job
    None,
    MaxFaults,  \* bound: deaths of processes
    MaxPrunes,  \* bound: prune commands
    MaxOpens    \* bound: scan, resume and export commands on a job

Endpoints == {"targets", "ports", "protocols"}
Zeroed == {"state", "rtt", "sent_at", "conflicts", "banner_state"}
Required == {"config", "checkpoint"} \cup Endpoints \cup Zeroed
File == Required \cup {"summary"}
LegacyFile == {"config", "checkpoint", "targets", "state"}

ASSUME StoreAssumption ==
    /\ Legacy \subseteq Job
    /\ None \notin Job
    /\ MaxFaults \in Nat /\ MaxPrunes \in Nat /\ MaxOpens \in Nat

VARIABLES
    dir,       \* jobs whose directory exists
    file,      \* what there is of each file
    events,    \* targets with a record in events.ndjson
    done,      \* targets whose banner_state.bin byte says DONE
    recent,    \* jobs whose checkpoint.json is newer than the cutoff
    \* the process working on a job: where it is, for which command, step,
    \* and whether banner_state.bin has to be backfilled
    pc, why, step, backfill,
    listed,    \* prune: jobs still to be removed
    removing,  \* prune: the job being removed, or None
    born, opens, faults, prunes,  \* bounds: jobs created, commands, deaths
    touched    \* history: jobs a prune has begun to remove

storeVars == <<dir, file, events, done, recent>>
procVars == <<pc, why, step, backfill>>
pruneVars == <<listed, removing, touched>>
boundVars == <<born, opens, faults, prunes>>
vars == <<storeVars, procVars, pruneVars, boundVars>>

Init ==
    /\ dir = Legacy
    /\ file = [j \in Job |-> [f \in File |->
                  IF j \in Legacy /\ f \in LegacyFile THEN "full" ELSE "none"]]
    /\ events \in [Job -> SUBSET Target]
    /\ \A j \in Job \ Legacy : events[j] = {}
    /\ done = [j \in Job |-> {}]
    /\ recent = {}
    /\ pc = [j \in Job |-> "none"]
    /\ why = [j \in Job |-> "scan"]
    /\ step = [j \in Job |-> 1]
    /\ backfill = [j \in Job |-> FALSE]
    /\ listed = {} /\ removing = None /\ touched = {}
    /\ born = Legacy /\ opens = [j \in Job |-> 0]
    /\ faults = 0 /\ prunes = 0

Goto(j, p) == pc' = [pc EXCEPT ![j] = p] /\ step' = [step EXCEPT ![j] = 1]

Advance(j) == pc' = pc /\ step' = [step EXCEPT ![j] = @ + 1]

Write(j, f, how) == file' = [file EXCEPT ![j][f] = how]

-----------------------------------------------------------------------------
(* create_shard *)

(* mutant: the checkpoint is saved ahead of the files it describes *)
CreateOrderEarly ==
    << <<"config", "full">>, <<"checkpoint", "full">>,
       <<"targets", "short">>, <<"ports", "short">>, <<"protocols", "short">>,
       <<"targets", "full">>, <<"ports", "full">>, <<"protocols", "full">>,
       <<"state", "short">>, <<"state", "full">>,
       <<"rtt", "short">>, <<"rtt", "full">>,
       <<"sent_at", "short">>, <<"sent_at", "full">>,
       <<"conflicts", "short">>, <<"conflicts", "full">>,
       <<"banner_state", "short">>, <<"banner_state", "full">> >>

(* config.toml and checkpoint.json are renamed into place, the others are  *)
(* created and then written or extended                                    *)
CreateOrder ==
    << <<"config", "full">>,
       <<"targets", "short">>, <<"ports", "short">>, <<"protocols", "short">>,
       <<"targets", "full">>, <<"ports", "full">>, <<"protocols", "full">>,
       <<"state", "short">>, <<"state", "full">>,
       <<"rtt", "short">>, <<"rtt", "full">>,
       <<"sent_at", "short">>, <<"sent_at", "full">>,
       <<"conflicts", "short">>, <<"conflicts", "full">>,
       <<"banner_state", "short">>, <<"banner_state", "full">>,
       <<"checkpoint", "full">> >>

(* the directory's name comes from a random seed: it is a new one *)
CreateDir(j) ==
    /\ pc[j] = "none" /\ j \notin born
    /\ born' = born \cup {j} /\ dir' = dir \cup {j}
    /\ opens' = [opens EXCEPT ![j] = @ + 1]
    /\ why' = [why EXCEPT ![j] = "scan"]
    /\ Goto(j, "create")
    /\ UNCHANGED <<file, events, done, recent, backfill, pruneVars, faults,
                   prunes>>

CreateFile(j) ==
    /\ pc[j] = "create" /\ j \in dir
    /\ Write(j, CreateOrder[step[j]][1], CreateOrder[step[j]][2])
    /\ recent' = IF CreateOrder[step[j]][1] = "checkpoint"
                 THEN recent \cup {j} ELSE recent
    /\ IF step[j] < Len(CreateOrder) THEN Advance(j) ELSE Goto(j, "ports")
    /\ UNCHANGED <<dir, events, done, why, backfill, pruneVars, boundVars>>

-----------------------------------------------------------------------------
(* resume and export: Config::load, PreparedJob::open, then                *)
(* ensure_endpoint_files                                                   *)

Open(j, w) ==
    /\ pc[j] = "none" /\ opens[j] < MaxOpens
    /\ file[j]["config"] = "full" /\ file[j]["checkpoint"] = "full"
    /\ opens' = [opens EXCEPT ![j] = @ + 1]
    /\ why' = [why EXCEPT ![j] = w]
    /\ Goto(j, "ports")
    /\ UNCHANGED <<storeVars, backfill, pruneVars, born, faults, prunes>>

After(p) == IF p = "ports" THEN "protocols" ELSE "check"

(* an existing file is left as it is, a missing one created... *)
EnsureCreate(j, p) ==
    /\ pc[j] = p /\ j \in dir
    /\ IF step[j] = 1 /\ file[j][p] = "none"
       THEN Write(j, p, "short") /\ Advance(j)
       ELSE step[j] = 1 /\ Goto(j, After(p)) /\ UNCHANGED file
    /\ UNCHANGED <<dir, events, done, recent, why, backfill, pruneVars,
                   boundVars>>

(* ... and filled with the port or protocol of the job's config, through   *)
(* a handle that outlives an unlink                                        *)
EnsureFill(j, p) ==
    /\ pc[j] = p /\ step[j] = 2
    /\ Write(j, p, IF file[j][p] = "none" THEN "none" ELSE "full")
    /\ Goto(j, After(p))
    /\ UNCHANGED <<dir, events, done, recent, why, backfill, pruneVars,
                   boundVars>>

LengthsMatch(j) == file[j]["ports"] = "full" /\ file[j]["protocols"] = "full"

EnsureCheck(j) ==
    /\ pc[j] = "check"
    /\ Goto(j, IF LengthsMatch(j) /\ file[j]["targets"] # "none" THEN "map"
                                                                 ELSE "none")
    /\ UNCHANGED <<storeVars, why, backfill, pruneVars, boundVars>>

-----------------------------------------------------------------------------
(* fixed_mmap: create_fixed_file makes a file and sets its length, also of *)
(* a short one.  export maps nothing but sizes two files the same way.     *)

create_fixed_file(s) == IF s = "none" THEN "short" ELSE "full"

MapOrder(w) == IF w = "export" THEN <<"rtt", "conflicts">>
               ELSE <<"state", "rtt", "sent_at", "conflicts">>

MapFile(j) ==
    /\ pc[j] = "map" /\ j \in dir /\ step[j] <= Len(MapOrder(why[j]))
    /\ LET f == MapOrder(why[j])[step[j]]
       IN  /\ Write(j, f, create_fixed_file(file[j][f]))
           /\ IF file[j][f] = "none" THEN UNCHANGED <<pc, step>>
                                     ELSE Advance(j)
    /\ UNCHANGED <<dir, events, done, recent, why, backfill, pruneVars,
                   boundVars>>

(* an export that does not synthesize results sizes nothing *)
MapEnd(j) ==
    /\ pc[j] = "map"
    /\ \/ step[j] > Len(MapOrder(why[j]))
       \/ why[j] = "export" /\ step[j] = 1
    /\ Goto(j, IF why[j] = "export" THEN "none" ELSE "banner")
    /\ UNCHANGED <<storeVars, why, backfill, pruneVars, boundVars>>

(* mutant: whether the file exists is asked after it was created *)
BannerExistedLate(j) ==
    /\ pc[j] = "banner" /\ step[j] = 1
    /\ backfill' = [backfill EXCEPT ![j] = FALSE]
    /\ Advance(j)
    /\ UNCHANGED <<storeVars, why, pruneVars, boundVars>>

(* ensure_banner_state_backfilled: whether the file exists is asked first *)
BannerExisted(j) ==
    /\ pc[j] = "banner" /\ step[j] = 1
    /\ backfill' = [backfill EXCEPT ![j] = file[j]["banner_state"] = "none"]
    /\ Advance(j)
    /\ UNCHANGED <<storeVars, why, pruneVars, boundVars>>

BannerMap(j) ==
    /\ pc[j] = "banner" /\ j \in dir /\ step[j] = 2
    /\ Write(j, "banner_state", create_fixed_file(file[j]["banner_state"]))
    /\ IF file[j]["banner_state"] = "none" THEN UNCHANGED <<pc, step>>
       ELSE Goto(j, IF backfill[j] THEN "backfill" ELSE "scan")
    /\ UNCHANGED <<dir, events, done, recent, why, backfill, pruneVars,
                   boundVars>>

(* a byte of the mapped banner_state.bin, lost if the file was unlinked *)
MarkDone(j, t) ==
    done' = IF file[j]["banner_state"] = "none" THEN done
            ELSE [done EXCEPT ![j] = @ \cup {t}]

(* backfill_banner_done_from_events, a record at a time *)
EventTargets(j) == events[j]

BackfillOne(j, t) ==
    /\ pc[j] = "backfill" /\ t \in EventTargets(j) \ done[j]
    /\ MarkDone(j, t)
    /\ UNCHANGED <<dir, file, events, recent, procVars, pruneVars, boundVars>>

BackfillEnd(j) ==
    /\ pc[j] = "backfill"
    /\ EventTargets(j) \subseteq done[j] \/ file[j]["banner_state"] = "none"
    /\ Goto(j, "scan")
    /\ UNCHANGED <<storeVars, why, backfill, pruneVars, boundVars>>

-----------------------------------------------------------------------------
(* the scan, reduced to what it leaves in the directory *)

(* append_event, then the byte *)
BannerDone(j, t) ==
    /\ pc[j] = "scan" /\ j \in dir /\ t \notin done[j]
    /\ events' = [events EXCEPT ![j] = @ \cup {t}]
    /\ MarkDone(j, t)
    /\ UNCHANGED <<dir, file, recent, procVars, pruneVars, boundVars>>

(* save_meta renames a new file into place, even if the old one is gone *)
SaveCheckpoint(j) ==
    /\ pc[j] = "scan" /\ j \in dir
    /\ Write(j, "checkpoint", "full")
    /\ recent' = recent \cup {j}
    /\ UNCHANGED <<dir, events, done, procVars, pruneVars, boundVars>>

SaveSummary(j) ==
    /\ pc[j] = "scan" /\ j \in dir
    /\ Write(j, "summary", "full")
    /\ Goto(j, "none")
    /\ UNCHANGED <<dir, events, done, recent, why, backfill, pruneVars,
                   boundVars>>

(* a write into a directory that is gone ends the process *)
WriteFails(j) ==
    /\ pc[j] # "none" /\ j \notin dir
    /\ Goto(j, "none")
    /\ UNCHANGED <<storeVars, why, backfill, pruneVars, boundVars>>

Die(j) ==
    /\ pc[j] # "none" /\ faults < MaxFaults
    /\ faults' = faults + 1
    /\ Goto(j, "none")
    /\ UNCHANGED <<storeVars, why, backfill, pruneVars, born, opens, prunes>>

Age(j) ==
    /\ j \in recent
    /\ recent' = recent \ {j}
    /\ UNCHANGED <<dir, file, events, done, procVars, pruneVars, boundVars>>

-----------------------------------------------------------------------------
(* job_prune_before: job_list first, then one directory after the other *)

(* mutant: every directory of the root is a job *)
job_list_any == dir

job_list == {j \in dir : file[j]["checkpoint"] = "full"}

PruneList ==
    /\ removing = None /\ listed = {} /\ prunes < MaxPrunes
    /\ prunes' = prunes + 1
    /\ listed' = job_list \ recent
    /\ UNCHANGED <<storeVars, procVars, removing, touched, born, opens, faults>>

PruneEntry(j) ==
    /\ removing = None /\ j \in listed
    /\ listed' = listed \ {j} /\ removing' = j
    /\ touched' = touched \cup {j}
    /\ UNCHANGED <<storeVars, procVars, boundVars>>

(* remove_dir_all takes the files in the order of the directory *)
RemoveFile(f) ==
    /\ removing # None /\ file[removing][f] # "none"
    /\ Write(removing, f, "none")
    /\ done' = IF f = "banner_state" THEN [done EXCEPT ![removing] = {}] ELSE done
    /\ UNCHANGED <<dir, events, recent, procVars, pruneVars, boundVars>>

RemoveEvents ==
    /\ removing # None /\ events[removing] # {}
    /\ events' = [events EXCEPT ![removing] = {}]
    /\ UNCHANGED <<dir, file, done, recent, procVars, pruneVars, boundVars>>

(* the last step, refused while anything is left *)
RemoveDir ==
    /\ removing # None /\ events[removing] = {}
    /\ \A f \in File : file[removing][f] = "none"
    /\ dir' = dir \ {removing}
    /\ recent' = recent \ {removing}
    /\ removing' = None
    /\ UNCHANGED <<file, events, done, procVars, listed, touched, boundVars>>

(* an error, or the end of the command, leaves the rest where it is *)
PruneStops ==
    /\ removing # None /\ faults < MaxFaults
    /\ faults' = faults + 1
    /\ removing' = None /\ listed' = {}
    /\ UNCHANGED <<storeVars, procVars, touched, born, opens, prunes>>

JobStep(j) ==
    \/ CreateDir(j) \/ CreateFile(j)
    \/ \E w \in {"scan", "export"} : Open(j, w)
    \/ \E p \in {"ports", "protocols"} : EnsureCreate(j, p) \/ EnsureFill(j, p)
    \/ EnsureCheck(j) \/ MapFile(j) \/ MapEnd(j)
    \/ BannerExisted(j) \/ BannerMap(j)
    \/ \E t \in Target : BackfillOne(j, t) \/ BannerDone(j, t)
    \/ BackfillEnd(j) \/ SaveCheckpoint(j) \/ SaveSummary(j)
    \/ WriteFails(j) \/ Die(j) \/ Age(j)

Prune ==
    \/ PruneList \/ (\E j \in Job : PruneEntry(j))
    \/ (\E f \in File : RemoveFile(f)) \/ RemoveEvents \/ RemoveDir
    \/ PruneStops

Next == (\E j \in Job : JobStep(j)) \/ Prune

Spec == Init /\ [][Next]_vars

-----------------------------------------------------------------------------
(* Properties *)

(* Every variable has its type; a removed job left nothing behind, and     *)
(* what is being removed is a directory.                                   *)
TypeOK ==
    /\ dir \subseteq Job /\ recent \subseteq dir /\ touched \subseteq born
    /\ file \in [Job -> [File -> {"none", "short", "full"}]]
    /\ events \in [Job -> SUBSET Target] /\ done \in [Job -> SUBSET Target]
    /\ \A j \in Job \ dir :
          events[j] = {} /\ done[j] = {} /\ \A f \in File : file[j][f] = "none"
    /\ pc \in [Job -> {"none", "create", "ports", "protocols", "check", "map",
                      "banner", "backfill", "scan"}]
    /\ why \in [Job -> {"scan", "export"}] /\ step \in [Job -> 1..18]
    /\ backfill \in [Job -> BOOLEAN]
    /\ removing \in touched \cup {None}
    /\ removing # None => removing \in dir
    /\ listed \cup born \subseteq Job
    /\ faults \in 0..MaxFaults /\ prunes \in 0..MaxPrunes

Whole(j) == \A f \in Required : file[j][f] = "full"

(* create_shard saves checkpoint.json last: whatever the moment of a       *)
(* death, a directory with a checkpoint (what open, job list and prune     *)
(* take for a job) has every file of a job at its full length, unless it   *)
(* came from an older version or a prune got at it.                        *)
ListedIsWhole ==
    \A j \in Job \ (Legacy \cup touched) :
        file[j]["checkpoint"] = "full" => Whole(j)

(* When a scan or resume begins, ensure_endpoint_files and fixed_mmap have *)
(* brought every file to its full length, those of an older version and    *)
(* those an earlier death left short as well: no mapped slice is too short *)
(* for the targets.                                                        *)
MappedIsWhole ==
    \A j \in Job \ touched : pc[j] = "scan" => Whole(j)

(* Files are whole wherever a command relies on it. *)
FilesWhole == ListedIsWhole /\ MappedIsWhole

(* No target is taken for done without a record of it in events.ndjson:    *)
(* backfilling marks only what the events show, and banner_state.bin is    *)
(* all zero after any other creation or resizing.                          *)
DoneHasEvent == \A j \in Job \ touched : done[j] \subseteq events[j]

(* job_prune_before begins to remove only what contains a checkpoint.json, *)
(* and never a directory that create_shard is still filling.               *)
PruneTakesJobs ==
    [][\A j \in touched' \ touched :
           file[j]["checkpoint"] = "full" /\ pc[j] # "create"]_vars

(* "Older jobs without banner_state.bin are backfilled from events.ndjson" *)
(* (README), and resume accepts them: if no process died over it, every    *)
(* job passes the length check, and a scan begins with every target that   *)
(* has a record marked done.                                               *)
UpgradeComplete ==
    faults = 0 => \A j \in Job \ touched :
        /\ pc[j] = "check" => LengthsMatch(j)
        /\ pc[j] = "scan" => events[j] \subseteq done[j]

(* banner_state.bin and events.ndjson agree after an upgrade: what is done *)
(* has a record and, if no process died, what has a record is done.        *)
BackfillSound == DoneHasEvent /\ UpgradeComplete

=============================================================================
