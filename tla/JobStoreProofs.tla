--------------------------- MODULE JobStoreProofs ---------------------------
(***************************************************************************)
(* Proofs about JobStore, for any set of jobs and targets and any number   *)
(* of deaths, prunes and commands.  The invariant says, for each place a   *)
(* command may have reached in a job, which files are at full length by    *)
(* then; a job that a prune began to remove is exempt.                     *)
(***************************************************************************)
EXTENDS JobStore, TLAPS

Content == {"none", "short", "full"}
Place == {"none", "create", "ports", "protocols", "check", "map", "banner",
          "backfill", "scan"}
Opened == {"ports", "protocols", "check", "map", "banner", "backfill", "scan"}
Checked == {"map", "banner", "backfill", "scan"}
Mapped == {"banner", "backfill", "scan"}
Live == {"backfill", "scan"}

Full(j, f) == file[j][f] = "full"

Base(j) == Full(j, "config") /\ Full(j, "checkpoint") /\ Full(j, "targets")

(* what create_shard has behind it *)
CreateOK(j) ==
    pc[j] = "create" =>
        /\ j \notin Legacy \cup touched \cup listed
        /\ ~Full(j, "checkpoint")
        /\ \A i \in 1 .. 18 :
              i < step[j] /\ CreateOrder[i][2] = "full"
              => Full(j, CreateOrder[i][1])

(* what is behind a command that opened the job *)
StageOK(j) ==
    j \notin touched =>
        /\ pc[j] \in Opened => Base(j)
        /\ pc[j] \in Checked => Full(j, "ports") /\ Full(j, "protocols")
        /\ pc[j] = "map" /\ why[j] = "scan" =>
              /\ step[j] > 1 => Full(j, "state")
              /\ step[j] > 2 => Full(j, "rtt")
              /\ step[j] > 3 => Full(j, "sent_at")
              /\ step[j] > 4 => Full(j, "conflicts")
        /\ pc[j] \in Mapped => /\ Full(j, "state") /\ Full(j, "rtt")
                               /\ Full(j, "sent_at") /\ Full(j, "conflicts")
        /\ pc[j] \in Live => Full(j, "banner_state")

(* what a checkpoint.json vouches for *)
StoredOK(j) ==
    j \notin touched /\ Full(j, "checkpoint") =>
        Base(j) /\ (j \notin Legacy => Whole(j))

JobOK == \A j \in Job : CreateOK(j) /\ StageOK(j) /\ StoredOK(j)

(* what is on the list of a prune is a job, and not being removed yet *)
PruneOK ==
    /\ removing \notin listed /\ listed \subseteq dir /\ dir \subseteq born
    /\ Legacy \subseteq born
    /\ \A j \in listed : Full(j, "checkpoint")

(* done bytes live in banner_state.bin *)
BytesOK == \A j \in Job : file[j]["banner_state"] = "none" => done[j] = {}

StoreInv == TypeOK /\ JobOK /\ PruneOK /\ BytesOK /\ DoneHasEvent

-----------------------------------------------------------------------------
(* One file is written *)

LEMMA WriteDoes ==
    ASSUME file \in [Job -> [File -> Content]],
           NEW j \in Job, NEW f \in File, NEW h \in Content, Write(j, f, h)
    PROVE  /\ file' \in [Job -> [File -> Content]]
           /\ \A k \in Job, g \in File :
                 file'[k][g] = IF k = j /\ g = f THEN h ELSE file[k][g]
BY DEF Write

(* The order in which create_shard writes *)
LEMMA OrderFacts ==
    /\ Len(CreateOrder) = 18
    /\ \A i \in 1 .. 18 : /\ CreateOrder[i][1] \in File
                          /\ CreateOrder[i][2] \in {"short", "full"}
                          /\ i < 18 => CreateOrder[i][1] # "checkpoint"
    /\ CreateOrder[18] = <<"checkpoint", "full">>
<1>1. Len(CreateOrder) = 18
  BY DEF CreateOrder
<1>2. CreateOrder[18] = <<"checkpoint", "full">>
  BY DEF CreateOrder
<1>3. ASSUME NEW i \in 1 .. 18
      PROVE  /\ CreateOrder[i][1] \in File
             /\ CreateOrder[i][2] \in {"short", "full"}
             /\ i < 18 => CreateOrder[i][1] # "checkpoint"
  BY <1>3 DEF CreateOrder, File, Required, Endpoints, Zeroed
<1> QED BY <1>1, <1>2, <1>3

(* No file is created again after it was full *)
LEMMA OrderOnce ==
    ASSUME NEW i \in 1 .. 18, NEW k \in 1 .. 18, i < k,
           CreateOrder[i][2] = "full", CreateOrder[i][1] = CreateOrder[k][1]
    PROVE  FALSE
BY DEF CreateOrder

(* Every file is full in the end *)
LEMMA OrderWhole ==
    ASSUME NEW f \in Required
    PROVE  \E i \in 1 .. 18 : CreateOrder[i] = <<f, "full">>
BY DEF CreateOrder, Required, Endpoints, Zeroed

-----------------------------------------------------------------------------
(* What the steps of a job's process do to the files: at most one of them  *)
(* changes, in a directory that is there                                   *)

FileSteps(k) ==
    \/ file' = file
    \/ \E f \in File, h \in Content :
          /\ Write(k, f, h)
          /\ k \in dir \/ h = "none"
          /\ h # "none" \/ file[k][f] = "none"

LEMMA FixedContent ==
    ASSUME NEW c \in Content
    PROVE  create_fixed_file(c) \in Content \ {"none"}
BY DEF create_fixed_file, Content

LEMMA WritesOne ==
    ASSUME TypeOK, NEW k \in Job, JobStep(k)
    PROVE  FileSteps(k)
<1> USE DEF FileSteps
<1>1. CASE CreateFile(k)
  <2>1. step[k] \in 1 .. 18
    BY DEF TypeOK
  <2>2. PICK i \in 1 .. 18 : i = step[k]
    BY <2>1
  <2>3. CreateOrder[i][1] \in File /\ CreateOrder[i][2] \in Content \ {"none"}
    BY OrderFacts DEF Content
  <2> QED BY <1>1, <2>2, <2>3 DEF CreateFile
<1>2. ASSUME NEW p \in {"ports", "protocols"},
             EnsureCreate(k, p) \/ EnsureFill(k, p)
      PROVE  FileSteps(k)
  <2>1. p \in File
    BY DEF File, Required, Endpoints
  <2>2. CASE EnsureCreate(k, p)
    BY <2>1, <2>2 DEF EnsureCreate, Content
  <2>3. CASE EnsureFill(k, p)
    <3>1. CASE file[k][p] = "none"
      BY <2>1, <2>3, <3>1 DEF EnsureFill, Content
    <3>2. CASE file[k][p] # "none"
      <4>1. k \in dir
        BY <2>1, <3>2 DEF TypeOK
      <4> QED BY <2>1, <2>3, <3>2, <4>1 DEF EnsureFill, Content
    <3> QED BY <3>1, <3>2
  <2> QED BY <1>2, <2>2, <2>3
<1>3. CASE MapFile(k)
  <2>1. PICK f : f = MapOrder(why[k])[step[k]] /\ f \in File
    BY <1>3 DEF MapFile, MapOrder, TypeOK, File, Required, Zeroed
  <2>2. PICK h : h = create_fixed_file(file[k][f])
    OBVIOUS
  <2>3. h \in Content \ {"none"}
    BY <2>1, <2>2, FixedContent DEF TypeOK, Content
  <2> QED BY <1>3, <2>1, <2>2, <2>3 DEF MapFile
<1>4. CASE BannerMap(k)
  <2>1. PICK h : h = create_fixed_file(file[k]["banner_state"])
    OBVIOUS
  <2>2. h \in Content \ {"none"} /\ "banner_state" \in File
    BY <2>1, FixedContent DEF TypeOK, Content, File, Required, Zeroed
  <2> QED BY <1>4, <2>1, <2>2 DEF BannerMap
<1>5. CASE SaveCheckpoint(k)
  BY <1>5 DEF SaveCheckpoint, File, Required, Content
<1>6. CASE SaveSummary(k)
  BY <1>6 DEF SaveSummary, File, Content
<1>7. CASE \/ CreateDir(k) \/ (\E w \in {"scan", "export"} : Open(k, w))
           \/ EnsureCheck(k) \/ MapEnd(k) \/ BannerExisted(k)
           \/ (\E t \in Target : BackfillOne(k, t) \/ BannerDone(k, t))
           \/ BackfillEnd(k) \/ WriteFails(k) \/ Die(k) \/ Age(k)
  BY <1>7 DEF CreateDir, Open, EnsureCheck, MapEnd, BannerExisted,
     BackfillOne, BannerDone, BackfillEnd, WriteFails, Die, Age, storeVars
<1> QED
  BY <1>1, <1>2, <1>3, <1>4, <1>5, <1>6, <1>7 DEF JobStep

(* The same, in terms of contents *)
LEMMA FilesAfter ==
    ASSUME TypeOK, NEW k \in Job, JobStep(k)
    PROVE  /\ file' \in [Job -> [File -> Content]]
           /\ \A j \in Job \ {k} : file'[j] = file[j]
           /\ \A f \in File : file'[k][f] = "none" => file[k][f] = "none"
           /\ k \notin dir => file'[k] = file[k]
<1>0. file \in [Job -> [File -> Content]]
  BY DEF TypeOK, Content
<1>1. CASE file' = file
  BY <1>0, <1>1
<1>2. ASSUME NEW f \in File, NEW h \in Content, Write(k, f, h),
             k \in dir \/ h = "none", h # "none" \/ file[k][f] = "none"
      PROVE  /\ file' \in [Job -> [File -> Content]]
             /\ \A j \in Job \ {k} : file'[j] = file[j]
             /\ \A g \in File : file'[k][g] = "none" => file[k][g] = "none"
             /\ k \notin dir => file'[k] = file[k]
  <2>1. /\ file' \in [Job -> [File -> Content]]
        /\ \A j \in Job, g \in File :
              file'[j][g] = IF j = k /\ g = f THEN h ELSE file[j][g]
    BY <1>0, <1>2, WriteDoes
  <2>2. \A j \in Job \ {k} : file'[j] = file[j]
    BY <1>2 DEF Write
  <2>3. ASSUME k \notin dir PROVE file'[k] = file[k]
    <3>1. h = "none" /\ file[k][f] = "none"
      BY <1>2, <2>3 DEF TypeOK
    <3> QED BY <1>0, <2>1, <3>1
  <2> QED BY <1>2, <2>1, <2>2, <2>3
<1> QED BY <1>1, <1>2, WritesOne DEF FileSteps

(* A process works on its own job; only create_shard makes a directory *)
LEMMA OthersAlone ==
    ASSUME TypeOK, NEW k \in Job, JobStep(k)
    PROVE  /\ \A j \in Job \ {k} :
                 /\ pc'[j] = pc[j] /\ step'[j] = step[j] /\ why'[j] = why[j]
                 /\ events'[j] = events[j] /\ done'[j] = done[j]
           /\ listed' = listed /\ removing' = removing /\ touched' = touched
           /\ \/ dir' = dir /\ born' = born
              \/ dir' = dir \cup {k} /\ born' = born \cup {k} /\ CreateDir(k)
<1> USE DEF Goto, Advance, MarkDone, storeVars, procVars, pruneVars,
     boundVars, TypeOK
<1>1. CASE CreateDir(k) \/ CreateFile(k)
  BY <1>1 DEF CreateDir, CreateFile
<1>2. ASSUME NEW w \in {"scan", "export"}, Open(k, w)
      PROVE  /\ \A j \in Job \ {k} :
                   /\ pc'[j] = pc[j] /\ step'[j] = step[j] /\ why'[j] = why[j]
                   /\ events'[j] = events[j] /\ done'[j] = done[j]
             /\ listed' = listed /\ removing' = removing /\ touched' = touched
             /\ dir' = dir /\ born' = born
  BY <1>2 DEF Open
<1>3. ASSUME NEW p \in {"ports", "protocols"},
             EnsureCreate(k, p) \/ EnsureFill(k, p)
      PROVE  /\ \A j \in Job \ {k} :
                   /\ pc'[j] = pc[j] /\ step'[j] = step[j] /\ why'[j] = why[j]
                   /\ events'[j] = events[j] /\ done'[j] = done[j]
             /\ listed' = listed /\ removing' = removing /\ touched' = touched
             /\ dir' = dir /\ born' = born
  BY <1>3 DEF EnsureCreate, EnsureFill
<1>4. CASE EnsureCheck(k) \/ MapFile(k) \/ MapEnd(k)
  BY <1>4 DEF EnsureCheck, MapFile, MapEnd
<1>5. CASE BannerExisted(k) \/ BannerMap(k) \/ BackfillEnd(k)
  BY <1>5 DEF BannerExisted, BannerMap, BackfillEnd
<1>6. ASSUME NEW t \in Target, BackfillOne(k, t) \/ BannerDone(k, t)
      PROVE  /\ \A j \in Job \ {k} :
                   /\ pc'[j] = pc[j] /\ step'[j] = step[j] /\ why'[j] = why[j]
                   /\ events'[j] = events[j] /\ done'[j] = done[j]
             /\ listed' = listed /\ removing' = removing /\ touched' = touched
             /\ dir' = dir /\ born' = born
  BY <1>6 DEF BackfillOne, BannerDone
<1>7. CASE SaveCheckpoint(k) \/ SaveSummary(k)
  BY <1>7 DEF SaveCheckpoint, SaveSummary
<1>8. CASE WriteFails(k) \/ Die(k) \/ Age(k)
  BY <1>8 DEF WriteFails, Die, Age
<1> QED
  BY <1>1, <1>2, <1>3, <1>4, <1>5, <1>6, <1>7, <1>8 DEF JobStep

ProcType ==
    /\ pc \in [Job -> {"none", "create", "ports", "protocols", "check", "map",
                      "banner", "backfill", "scan"}]
    /\ why \in [Job -> {"scan", "export"}] /\ step \in [Job -> 1..18]
    /\ backfill \in [Job -> BOOLEAN]

LEMMA ProcTyped ==
    ASSUME TypeOK, NEW k \in Job, JobStep(k)
    PROVE  ProcType'
<1>0. ProcType /\ step[k] \in 1 .. 18
  BY DEF TypeOK, ProcType
<1> USE <1>0 DEF Goto, Advance, storeVars, procVars, pruneVars, boundVars, ProcType
<1>1. CASE CreateDir(k)
  BY <1>1 DEF CreateDir
<1>2. CASE CreateFile(k)
  <2>1. CASE step[k] < Len(CreateOrder)
    <3>1. step[k] + 1 \in 1 .. 18
      BY <2>1, OrderFacts
    <3> QED BY <1>2, <2>1, <3>1 DEF CreateFile
  <2>2. CASE ~(step[k] < Len(CreateOrder))
    <3>1. /\ pc' = [pc EXCEPT ![k] = "ports"]
          /\ step' = [step EXCEPT ![k] = 1]
          /\ why' = why /\ backfill' = backfill
      BY <1>2, <2>2, Zenon DEF CreateFile
    <3> QED BY <3>1
  <2> QED BY <2>1, <2>2
<1>3. ASSUME NEW w \in {"scan", "export"}, Open(k, w) PROVE ProcType'
  BY <1>3 DEF Open
<1>4. ASSUME NEW p \in {"ports", "protocols"},
             EnsureCreate(k, p) \/ EnsureFill(k, p)
      PROVE  ProcType'
  <2>1. step[k] = 1 => step[k] + 1 \in 1 .. 18
    OBVIOUS
  <2> QED BY <1>4, <2>1 DEF EnsureCreate, EnsureFill, After
<1>5. CASE EnsureCheck(k) \/ MapEnd(k)
  <2>1. PICK p \in {"none", "map", "banner"} :
           /\ pc' = [pc EXCEPT ![k] = p] /\ step' = [step EXCEPT ![k] = 1]
           /\ why' = why /\ backfill' = backfill
    <3>1. CASE EnsureCheck(k)
      BY <3>1 DEF EnsureCheck
    <3>2. CASE MapEnd(k)
      BY <3>2 DEF MapEnd
    <3> QED BY <1>5, <3>1, <3>2
  <2> QED BY <2>1
<1>6. CASE MapFile(k)
  <2>1. step[k] + 1 \in 1 .. 18
    BY <1>6 DEF MapFile, MapOrder
  <2> QED BY <1>6, <2>1 DEF MapFile
<1>7. CASE BannerExisted(k)
  <2>1. step[k] + 1 \in 1 .. 18
    BY <1>7 DEF BannerExisted
  <2>2. (file[k]["banner_state"] = "none") \in BOOLEAN
    OBVIOUS
  <2> QED BY <1>7, <2>1, <2>2 DEF BannerExisted
<1>8. CASE BannerMap(k) \/ BackfillEnd(k) \/ SaveCheckpoint(k) \/ SaveSummary(k)
  BY <1>8 DEF BannerMap, BackfillEnd, SaveCheckpoint, SaveSummary
<1>9. ASSUME NEW t \in Target, BackfillOne(k, t) \/ BannerDone(k, t)
      PROVE  ProcType'
  BY <1>9 DEF BackfillOne, BannerDone
<1>10. CASE WriteFails(k) \/ Die(k) \/ Age(k)
  BY <1>10 DEF WriteFails, Die, Age
<1> QED
  BY <1>1, <1>2, <1>3, <1>4, <1>5, <1>6, <1>7, <1>8, <1>9, <1>10 DEF JobStep

(* The records and bytes of a job: a byte needs banner_state.bin *)
LEMMA BytesAfter ==
    ASSUME TypeOK, NEW k \in Job, JobStep(k)
    PROVE  /\ events' \in [Job -> SUBSET Target]
           /\ done' \in [Job -> SUBSET Target]
           /\ k \notin dir => events' = events
           /\ file[k]["banner_state"] = "none" => done' = done
           /\ done[k] \subseteq events[k] => done'[k] \subseteq events'[k]
<1> USE DEF TypeOK, storeVars
<1>1. ASSUME NEW t \in Target, BackfillOne(k, t)
      PROVE  /\ events' = events /\ done' \in [Job -> SUBSET Target]
             /\ file[k]["banner_state"] = "none" => done' = done
             /\ done[k] \subseteq events[k] => done'[k] \subseteq events'[k]
  BY <1>1 DEF BackfillOne, MarkDone, EventTargets
<1>2. ASSUME NEW t \in Target, BannerDone(k, t)
      PROVE  /\ events' \in [Job -> SUBSET Target]
             /\ done' \in [Job -> SUBSET Target] /\ k \in dir
             /\ file[k]["banner_state"] = "none" => done' = done
             /\ done[k] \subseteq events[k] => done'[k] \subseteq events'[k]
  BY <1>2 DEF BannerDone, MarkDone
<1>3. CASE ~\E t \in Target : BackfillOne(k, t) \/ BannerDone(k, t)
  <2>1. events' = events /\ done' = done
    BY <1>3 DEF JobStep, CreateDir, CreateFile, Open, EnsureCreate,
       EnsureFill, EnsureCheck, MapFile, MapEnd, BannerExisted, BannerMap,
       BackfillEnd, SaveCheckpoint, SaveSummary, WriteFails, Die, Age
  <2> QED BY <2>1
<1> QED BY <1>1, <1>2, <1>3

LEMMA RecentAfter ==
    ASSUME TypeOK, NEW k \in Job, JobStep(k)
    PROVE  /\ recent' \subseteq dir'
           /\ faults' \in 0 .. MaxFaults /\ prunes' = prunes
<1> USE StoreAssumption DEF TypeOK, storeVars, boundVars
<1>1. CASE CreateFile(k) \/ SaveCheckpoint(k)
  BY <1>1 DEF CreateFile, SaveCheckpoint
<1>2. CASE Die(k) \/ Age(k) \/ CreateDir(k)
  BY <1>2 DEF Die, Age, CreateDir
<1>3. CASE ~(CreateFile(k) \/ SaveCheckpoint(k) \/ Die(k) \/ Age(k) \/ CreateDir(k))
  BY <1>3 DEF JobStep, Open, EnsureCreate, EnsureFill, EnsureCheck, MapFile,
     MapEnd, BannerExisted, BannerMap, BackfillOne, BannerDone, BackfillEnd,
     SaveSummary, WriteFails
<1> QED BY <1>1, <1>2, <1>3

(* Types and bookkeeping survive a step of a process *)
LEMMA JobTypes ==
    ASSUME StoreInv, NEW k \in Job, JobStep(k)
    PROVE  TypeOK' /\ BytesOK' /\ DoneHasEvent'
<1>0. TypeOK
  BY DEF StoreInv
<1>1. ProcType'
  BY <1>0, ProcTyped
<1>2. /\ file' \in [Job -> [File -> Content]]
      /\ \A j \in Job \ {k} : file'[j] = file[j]
      /\ \A f \in File : file'[k][f] = "none" => file[k][f] = "none"
      /\ k \notin dir => file'[k] = file[k]
  BY <1>0, FilesAfter
<1>3. /\ \A j \in Job \ {k} : events'[j] = events[j] /\ done'[j] = done[j]
      /\ listed' = listed /\ removing' = removing /\ touched' = touched
      /\ \/ dir' = dir /\ born' = born
         \/ dir' = dir \cup {k} /\ born' = born \cup {k} /\ CreateDir(k)
  BY <1>0, OthersAlone
<1>4. /\ events' \in [Job -> SUBSET Target] /\ done' \in [Job -> SUBSET Target]
      /\ k \notin dir => events' = events
      /\ file[k]["banner_state"] = "none" => done' = done
      /\ done[k] \subseteq events[k] => done'[k] \subseteq events'[k]
  BY <1>0, BytesAfter
<1>5. /\ recent' \subseteq dir' /\ faults' \in 0 .. MaxFaults
      /\ prunes' = prunes
  BY <1>0, RecentAfter
<1>6. "banner_state" \in File
  BY DEF File, Required, Zeroed
<1>7. ASSUME NEW j \in Job \ dir'
      PROVE  events'[j] = {} /\ done'[j] = {} /\ \A f \in File : file'[j][f] = "none"
  <2>1. /\ j \notin dir /\ events[j] = {} /\ done[j] = {}
        /\ \A f \in File : file[j][f] = "none"
    BY <1>0, <1>3, <1>7 DEF TypeOK
  <2> QED BY <1>2, <1>3, <1>4, <1>6, <2>1
<1>8. /\ dir' \subseteq Job /\ touched' \subseteq born'
      /\ listed' \cup born' \subseteq Job
      /\ removing' \in touched' \cup {None}
      /\ removing' # None => removing' \in dir'
  BY <1>0, <1>3 DEF TypeOK
<1>9. TypeOK'
  BY <1>0, <1>1, <1>2, <1>4, <1>5, <1>7, <1>8 DEF TypeOK, ProcType, Content
<1>10. BytesOK'
  BY <1>2, <1>3, <1>4, <1>6 DEF StoreInv, BytesOK
<1>11. DoneHasEvent'
  BY <1>3, <1>4 DEF StoreInv, DoneHasEvent
<1> QED BY <1>9, <1>10, <1>11

-----------------------------------------------------------------------------
(* Which files are full: the process's own job *)

OwnOK(k) == CreateOK(k) /\ StageOK(k) /\ StoredOK(k)

(* Names of files are file names *)
LEMMA Names ==
    /\ Required \subseteq File
    /\ {"config", "checkpoint", "targets", "ports", "protocols", "state",
        "rtt", "sent_at", "conflicts", "banner_state"} = Required
<1>1. Required \subseteq File
  BY DEF File
<1>2. {"config", "checkpoint", "targets", "ports", "protocols", "state",
       "rtt", "sent_at", "conflicts", "banner_state"} = Required
  BY SMTT(20) DEF Required, Endpoints, Zeroed
<1> QED BY <1>1, <1>2

(* A step that writes no file may move on only by what is full already *)
LEMMA OwnQuiet ==
    ASSUME StoreInv, NEW k \in Job,
           \/ CreateDir(k) \/ (\E w \in {"scan", "export"} : Open(k, w))
           \/ EnsureCheck(k) \/ MapEnd(k) \/ BannerExisted(k)
           \/ (\E t \in Target : BackfillOne(k, t) \/ BannerDone(k, t))
           \/ BackfillEnd(k) \/ WriteFails(k) \/ Die(k) \/ Age(k)
    PROVE  OwnOK(k)'
<1>0. /\ CreateOK(k) /\ StageOK(k) /\ StoredOK(k)
      /\ pc \in [Job -> Place] /\ step \in [Job -> 1 .. 18]
      /\ why \in [Job -> {"scan", "export"}]
      /\ touched \subseteq born /\ listed \subseteq born /\ Legacy \subseteq born
  BY DEF StoreInv, JobOK, PruneOK, TypeOK, Place
<1>f. file' = file /\ touched' = touched /\ listed' = listed
  BY DEF CreateDir, Open, EnsureCheck, MapEnd, BannerExisted, BackfillOne,
     BannerDone, BackfillEnd, WriteFails, Die, Age, storeVars, pruneVars
<1>s. StoredOK(k)'
  BY <1>0, <1>f DEF StoredOK, Base, Full, Whole
<1> USE <1>0, <1>f DEF Goto, Advance, OwnOK, CreateOK, StageOK, Full, Base,
     Opened, Checked, Mapped, Live
<1>1. CASE CreateDir(k)
  <2>1. file[k]["checkpoint"] = "none"
    BY <1>1, Names DEF CreateDir, StoreInv, TypeOK, PruneOK
  <2>2. pc'[k] = "create" /\ step'[k] = 1 /\ k \notin born
    BY <1>1 DEF CreateDir
  <2> QED BY <1>s, <2>1, <2>2
<1>2. ASSUME NEW w \in {"scan", "export"}, Open(k, w) PROVE OwnOK(k)'
  <2>1. pc'[k] = "ports" /\ Full(k, "checkpoint")
    BY <1>2 DEF Open
  <2>2. k \notin touched => Base(k)
    BY <2>1 DEF StoredOK
  <2> QED BY <1>s, <2>1, <2>2
<1>3. CASE EnsureCheck(k)
  <2>1. pc[k] = "check" /\ step'[k] = 1 /\ pc'[k] \in {"map", "none"}
    BY <1>3 DEF EnsureCheck
  <2>2. pc'[k] = "map" => Full(k, "ports") /\ Full(k, "protocols")
    BY <1>3 DEF EnsureCheck, LengthsMatch
  <2> QED BY <1>s, <2>1, <2>2
<1>4. CASE MapEnd(k)
  <2>1. pc[k] = "map" /\ pc'[k] \in {"banner", "none"}
    BY <1>4 DEF MapEnd
  <2>2. pc'[k] = "banner" => why[k] = "scan" /\ step[k] > 4
    BY <1>4 DEF MapEnd, MapOrder
  <2>3. pc'[k] = "banner" => step[k] > 1 /\ step[k] > 2 /\ step[k] > 3
    BY <2>2
  <2> QED BY <1>s, <2>1, <2>2, <2>3
<1>5. CASE BannerExisted(k)
  <2>1. pc[k] = "banner" /\ pc'[k] = "banner"
    BY <1>5 DEF BannerExisted
  <2> QED BY <1>s, <2>1
<1>6. ASSUME NEW t \in Target, BackfillOne(k, t) \/ BannerDone(k, t)
      PROVE  OwnOK(k)'
  <2>1. pc' = pc /\ step' = step /\ why' = why
    BY <1>6 DEF BackfillOne, BannerDone, procVars
  <2> QED BY <1>s, <2>1
<1>7. CASE BackfillEnd(k)
  <2>1. pc[k] = "backfill" /\ pc'[k] = "scan"
    BY <1>7 DEF BackfillEnd
  <2> QED BY <1>s, <2>1
<1>8. CASE WriteFails(k) \/ Die(k)
  <2>1. pc'[k] = "none"
    BY <1>8 DEF WriteFails, Die
  <2> QED BY <1>s, <2>1
<1>9. CASE Age(k)
  <2>1. pc' = pc /\ step' = step /\ why' = why
    BY <1>9 DEF Age, procVars
  <2> QED BY <1>s, <2>1
<1> QED
  BY <1>1, <1>2, <1>3, <1>4, <1>5, <1>6, <1>7, <1>8, <1>9

(* create_shard *)
LEMMA OwnCreates ==
    ASSUME StoreInv, NEW k \in Job, CreateFile(k)
    PROVE  OwnOK(k)'
<1>0. /\ CreateOK(k) /\ pc[k] = "create"
      /\ pc \in [Job -> Place] /\ step \in [Job -> 1 .. 18]
      /\ file \in [Job -> [File -> Content]]
  BY DEF StoreInv, JobOK, TypeOK, CreateFile, Content, Place
<1>1. PICK n \in 1 .. 18 : n = step[k]
  BY <1>0
<1>2. PICK f \in File, h \in {"short", "full"} :
         f = CreateOrder[n][1] /\ h = CreateOrder[n][2]
  BY OrderFacts
<1>3. \A g \in File : file'[k][g] = IF g = f THEN h ELSE file[k][g]
  BY <1>0, <1>1, <1>2, WriteDoes DEF CreateFile, Content
<1>4. k \notin Legacy /\ k \notin touched /\ k \notin listed
      /\ touched' = touched /\ listed' = listed
  BY <1>0 DEF CreateOK, CreateFile, pruneVars
<1>5. \A i \in 1 .. 18 : i < n + 1 /\ CreateOrder[i][2] = "full"
                         => file'[k][CreateOrder[i][1]] = "full"
  <2> SUFFICES ASSUME NEW i \in 1 .. 18, i < n + 1, CreateOrder[i][2] = "full"
               PROVE  file'[k][CreateOrder[i][1]] = "full"
    OBVIOUS
  <2>1. CASE i = n
    BY <1>2, <1>3, <2>1
  <2>2. CASE i < n
    <3>1. CreateOrder[i][1] # f /\ CreateOrder[i][1] \in File
      BY <1>2, <2>2, OrderOnce, OrderFacts
    <3>2. file[k][CreateOrder[i][1]] = "full"
      BY <1>0, <1>1, <2>2 DEF CreateOK, Full
    <3> QED BY <1>3, <3>1, <3>2
  <2> QED BY <2>1, <2>2
<1>6. CASE n < 18
  <2>1. pc'[k] = "create" /\ step'[k] = n + 1
    BY <1>0, <1>1, <1>6, OrderFacts DEF CreateFile, Advance
  <2>2. f # "checkpoint" /\ file[k]["checkpoint"] # "full"
    BY <1>0, <1>2, <1>6, OrderFacts DEF CreateOK, Full
  <2>3. file'[k]["checkpoint"] # "full"
    BY <1>3, <2>2, Names
  <2> QED BY <1>4, <1>5, <2>1, <2>3 DEF OwnOK, CreateOK, StageOK, StoredOK,
          Full, Opened, Checked, Mapped, Live
<1>7. CASE n = 18
  <2>1. pc'[k] = "ports"
    BY <1>0, <1>1, <1>7, OrderFacts DEF CreateFile, Goto
  <2>2. \A g \in Required : file'[k][g] = "full"
    <3> TAKE g \in Required
    <3>1. PICK i \in 1 .. 18 : CreateOrder[i] = <<g, "full">>
      BY OrderWhole
    <3>2. CreateOrder[i][1] = g /\ CreateOrder[i][2] = "full" /\ i < n + 1
      BY <1>7, <3>1
    <3> QED BY <1>5, <3>2
  <2> QED BY <1>4, <2>1, <2>2, Names DEF OwnOK, CreateOK, StageOK, StoredOK,
          Full, Base, Whole, Opened, Checked, Mapped, Live
<1> QED BY <1>1, <1>6, <1>7

(* ensure_endpoint_files, fixed_mmap, the scan's saves: one file is written *)
(* and what is full stays full                                              *)
LEMMA OwnGrows ==
    ASSUME StoreInv, NEW k \in Job,
           \/ \E p \in {"ports", "protocols"} :
                 EnsureCreate(k, p) \/ EnsureFill(k, p)
           \/ MapFile(k) \/ BannerMap(k) \/ SaveCheckpoint(k) \/ SaveSummary(k)
    PROVE  /\ \A g \in File : file[k][g] = "full" => file'[k][g] = "full"
           /\ SaveCheckpoint(k) \/ file'[k]["checkpoint"] = file[k]["checkpoint"]
           /\ touched' = touched /\ listed' = listed
           /\ pc[k] # "create" /\ pc'[k] # "create"
<1>0. file \in [Job -> [File -> Content]] /\ pc \in [Job -> Place]
      /\ why \in [Job -> {"scan", "export"}] /\ step \in [Job -> 1 .. 18]
  BY DEF StoreInv, TypeOK, Content, Place
<1>1. touched' = touched /\ listed' = listed
  BY DEF EnsureCreate, EnsureFill, MapFile, BannerMap, SaveCheckpoint,
     SaveSummary, pruneVars
<1>2. ASSUME NEW p \in {"ports", "protocols"}, EnsureCreate(k, p)
      PROVE  /\ \A g \in File : file[k][g] = "full" => file'[k][g] = "full"
             /\ file'[k]["checkpoint"] = file[k]["checkpoint"]
             /\ pc[k] # "create" /\ pc'[k] # "create"
  BY <1>0, <1>2, Names DEF EnsureCreate, Write, Goto, Advance, After
<1>3. ASSUME NEW p \in {"ports", "protocols"}, EnsureFill(k, p)
      PROVE  /\ \A g \in File : file[k][g] = "full" => file'[k][g] = "full"
             /\ file'[k]["checkpoint"] = file[k]["checkpoint"]
             /\ pc[k] # "create" /\ pc'[k] # "create"
  BY <1>0, <1>3, Names DEF EnsureFill, Write, Goto, After
<1>4. CASE MapFile(k)
  <2>1. PICK f : f = MapOrder(why[k])[step[k]]
    OBVIOUS
  <2>2. f \in {"state", "rtt", "sent_at", "conflicts"}
    BY <1>0, <1>4, <2>1 DEF MapFile, MapOrder
  <2>3. Write(k, f, create_fixed_file(file[k][f]))
    BY <1>4, <2>1 DEF MapFile
  <2>4. /\ \A g \in File : file[k][g] = "full" => file'[k][g] = "full"
        /\ file'[k]["checkpoint"] = file[k]["checkpoint"]
    BY <1>0, <2>2, <2>3, Names DEF Write, create_fixed_file
  <2>5. pc[k] # "create" /\ pc'[k] # "create"
    BY <1>0, <1>4 DEF MapFile, Advance
  <2> QED BY <1>1, <2>4, <2>5
<1>5. CASE BannerMap(k)
  <2>1. /\ \A g \in File : file[k][g] = "full" => file'[k][g] = "full"
        /\ file'[k]["checkpoint"] = file[k]["checkpoint"]
    BY <1>0, <1>5, Names DEF BannerMap, Write, create_fixed_file
  <2>2. pc[k] # "create" /\ pc'[k] # "create"
    BY <1>0, <1>5 DEF BannerMap, Goto
  <2> QED BY <1>1, <2>1, <2>2
<1>6. CASE SaveCheckpoint(k)
  BY <1>0, <1>1, <1>6, Names DEF SaveCheckpoint, Write, procVars
<1>7. CASE SaveSummary(k)
  BY <1>0, <1>1, <1>7, Names DEF SaveSummary, Write, Goto, File
<1> QED BY <1>1, <1>2, <1>3, <1>4, <1>5, <1>6, <1>7

LEMMA OwnWrites ==
    ASSUME StoreInv, NEW k \in Job,
           \/ \E p \in {"ports", "protocols"} :
                 EnsureCreate(k, p) \/ EnsureFill(k, p)
           \/ MapFile(k) \/ BannerMap(k) \/ SaveCheckpoint(k) \/ SaveSummary(k)
    PROVE  OwnOK(k)'
<1>0. /\ CreateOK(k) /\ StageOK(k) /\ StoredOK(k)
      /\ file \in [Job -> [File -> Content]] /\ pc \in [Job -> Place]
      /\ why \in [Job -> {"scan", "export"}] /\ step \in [Job -> 1 .. 18]
  BY DEF StoreInv, JobOK, TypeOK, Content, Place
<1>g. /\ \A g \in File : file[k][g] = "full" => file'[k][g] = "full"
      /\ SaveCheckpoint(k) \/ file'[k]["checkpoint"] = file[k]["checkpoint"]
      /\ touched' = touched /\ listed' = listed
      /\ pc[k] # "create" /\ pc'[k] # "create"
  BY OwnGrows
<1>c. CreateOK(k)'
  BY <1>g DEF CreateOK
<1>s. StoredOK(k)'
  <2>1. SaveCheckpoint(k) /\ k \notin touched => file[k]["checkpoint"] = "full"
    BY <1>0 DEF SaveCheckpoint, StageOK, Opened, Base, Full
  <2> QED BY <1>0, <1>g, <2>1, Names DEF StoredOK, Base, Whole, Full
<1> USE <1>0, <1>g DEF Goto, Advance, OwnOK, StageOK, Full, Base,
     Opened, Checked, Mapped, Live
<1>1. ASSUME NEW p \in {"ports", "protocols"},
             EnsureCreate(k, p) \/ EnsureFill(k, p)
      PROVE  StageOK(k)'
  <2>1. pc[k] = p /\ pc'[k] \in {"ports", "protocols", "check"}
    BY <1>1 DEF EnsureCreate, EnsureFill, After
  <2> QED BY <2>1, Names
<1>2. ASSUME MapFile(k) PROVE StageOK(k)'
  <2>0. pc[k] = "map" /\ pc'[k] = "map" /\ why'[k] = why[k]
    BY <1>2 DEF MapFile
  <2>1. CASE step'[k] = step[k]
    BY <2>0, <2>1, Names
  <2>2. CASE step'[k] # step[k] /\ why[k] = "scan"
    <3>1. PICK n \in 1 .. 18 : n = step[k]
      OBVIOUS
    <3>2. PICK f : f = MapOrder(why[k])[step[k]]
      OBVIOUS
    <3>3. /\ n = 1 => f = "state"
          /\ n = 2 => f = "rtt"
          /\ n = 3 => f = "sent_at"
          /\ n = 4 => f = "conflicts"
          /\ n <= 4
      BY <1>2, <2>2, <3>1, <3>2 DEF MapFile, MapOrder
    <3>4. file[k][f] # "none" /\ step'[k] = n + 1
      BY <1>2, <2>2, <3>1, <3>2 DEF MapFile
    <3>5. Write(k, f, "full")
      BY <1>2, <3>2, <3>4 DEF MapFile, create_fixed_file
    <3>6. f \in File => file'[k][f] = "full"
      BY <3>5 DEF Write
    <3> QED BY <2>0, <2>2, <3>1, <3>3, <3>4, <3>6, Names
  <2>3. CASE step'[k] # step[k] /\ why[k] # "scan"
    BY <2>0, <2>3, Names
  <2> QED BY <2>1, <2>2, <2>3
<1>3. ASSUME BannerMap(k) PROVE StageOK(k)'
  <2>1. pc[k] = "banner" /\ pc'[k] \in {"banner", "backfill", "scan"}
    BY <1>3 DEF BannerMap
  <2>2. pc'[k] # "banner" => file'[k]["banner_state"] = "full"
    BY <1>3, Names DEF BannerMap, Write, create_fixed_file
  <2> QED BY <2>1, <2>2, Names
<1>4. ASSUME SaveCheckpoint(k) PROVE StageOK(k)'
  <2>1. pc' = pc
    BY <1>4 DEF SaveCheckpoint, procVars
  <2>2. pc[k] = "scan"
    BY <1>4 DEF SaveCheckpoint
  <2> QED BY <2>1, <2>2, Names
<1>5. ASSUME SaveSummary(k) PROVE StageOK(k)'
  <2>1. pc'[k] = "none"
    BY <1>5 DEF SaveSummary
  <2> QED BY <2>1
<1> QED BY <1>c, <1>s, <1>1, <1>2, <1>3, <1>4, <1>5

(* A process keeps the invariant, for its own job and the others *)
LEMMA JobKeeps ==
    ASSUME StoreInv, NEW k \in Job, JobStep(k)
    PROVE  JobOK' /\ PruneOK'
<1>0. TypeOK
  BY DEF StoreInv
<1>1. OwnOK(k)'
  BY OwnQuiet, OwnCreates, OwnWrites DEF JobStep
<1>2. /\ \A j \in Job \ {k} :
            pc'[j] = pc[j] /\ step'[j] = step[j] /\ why'[j] = why[j]
      /\ listed' = listed /\ removing' = removing /\ touched' = touched
      /\ \/ dir' = dir /\ born' = born
         \/ dir' = dir \cup {k} /\ born' = born \cup {k} /\ CreateDir(k)
  BY <1>0, OthersAlone
<1>3. \A j \in Job \ {k} : file'[j] = file[j]
  BY <1>0, FilesAfter
<1>4. ASSUME NEW j \in Job \ {k}
      PROVE  CreateOK(j)' /\ StageOK(j)' /\ StoredOK(j)'
  BY <1>2, <1>3, <1>4 DEF StoreInv, JobOK, CreateOK, StageOK, StoredOK, Full,
     Base, Whole
<1>5. JobOK'
  BY <1>1, <1>4 DEF JobOK, OwnOK
<1>6. k \in listed => file'[k]["checkpoint"] = "full"
  <2> SUFFICES ASSUME k \in listed PROVE file'[k]["checkpoint"] = "full"
    OBVIOUS
  <2>1. file[k]["checkpoint"] = "full"
    BY DEF StoreInv, PruneOK, Full
  <2>2. ~CreateFile(k)
    BY DEF StoreInv, JobOK, CreateOK, CreateFile
  <2>3. CASE file' = file
    BY <2>1, <2>3
  <2>4. CASE file' # file
    <3>1. \/ \E p \in {"ports", "protocols"} :
                EnsureCreate(k, p) \/ EnsureFill(k, p)
          \/ MapFile(k) \/ BannerMap(k) \/ SaveCheckpoint(k) \/ SaveSummary(k)
      BY <2>2, <2>4 DEF JobStep, CreateDir, Open, EnsureCheck, MapEnd,
         BannerExisted, BackfillOne, BannerDone, BackfillEnd, WriteFails, Die,
         Age, storeVars
    <3> QED BY <2>1, <3>1, OwnGrows, Names
  <2> QED BY <2>3, <2>4
<1>7. PruneOK'
  BY <1>0, <1>2, <1>3, <1>6 DEF StoreInv, PruneOK, Full, TypeOK
<1> QED BY <1>5, <1>7

-----------------------------------------------------------------------------
(* The prune: it changes files only of a job it has begun to remove *)

LEMMA PruneStep ==
    ASSUME StoreInv, Prune
    PROVE  /\ pc' = pc /\ step' = step /\ why' = why /\ backfill' = backfill
           /\ born' = born /\ touched \subseteq touched'
           /\ \A j \in Job \ touched : /\ file'[j] = file[j]
                                       /\ events'[j] = events[j]
                                       /\ done'[j] = done[j]
           /\ file' \in [Job -> [File -> Content]]
<1>0. /\ file \in [Job -> [File -> Content]] /\ removing \in touched \cup {None}
      /\ touched \subseteq Job
  BY DEF StoreInv, TypeOK, Content
<1>1. CASE PruneList \/ PruneStops \/ \E j \in Job : PruneEntry(j)
  BY <1>0, <1>1 DEF PruneList, PruneStops, PruneEntry, storeVars, procVars,
     boundVars
<1>2. ASSUME NEW f \in File, RemoveFile(f)
      PROVE  /\ \A j \in Job \ touched : /\ file'[j] = file[j]
                                         /\ events'[j] = events[j]
                                         /\ done'[j] = done[j]
             /\ file' \in [Job -> [File -> Content]]
             /\ UNCHANGED <<procVars, pruneVars, boundVars>>
  <2>1. PICK r \in Job : r = removing /\ r \in touched
    BY <1>0, <1>2 DEF RemoveFile
  <2>2. /\ file' \in [Job -> [File -> Content]]
        /\ \A j \in Job \ {r} : file'[j] = file[j]
    BY <1>0, <1>2, <2>1 DEF RemoveFile, Write, Content
  <2>3. \A j \in Job \ {r} : done'[j] = done[j]
    BY <1>2, <2>1 DEF RemoveFile, StoreInv, TypeOK
  <2> QED BY <1>2, <2>1, <2>2, <2>3 DEF RemoveFile
<1>3. CASE RemoveEvents
  BY <1>0, <1>3 DEF RemoveEvents, StoreInv, TypeOK, procVars, pruneVars,
     boundVars
<1>4. CASE RemoveDir
  BY <1>0, <1>4 DEF RemoveDir, procVars, boundVars
<1> QED
  BY <1>1, <1>2, <1>3, <1>4 DEF Prune, procVars, pruneVars, boundVars

LEMMA PruneTypes ==
    ASSUME StoreInv, Prune
    PROVE  TypeOK' /\ BytesOK'
<1>0. TypeOK /\ BytesOK /\ PruneOK
  BY DEF StoreInv
<1>n. None \notin Job /\ "banner_state" \in File
  BY StoreAssumption, Names
<1>1. ASSUME PruneList \/ PruneStops \/ \E j \in Job : PruneEntry(j)
      PROVE  TypeOK' /\ BytesOK'
  <2>1. UNCHANGED <<storeVars, procVars, born>>
    BY <1>1 DEF PruneList, PruneStops, PruneEntry, boundVars
  <2>2. /\ touched' \subseteq born' /\ listed' \cup born' \subseteq Job
        /\ removing' \in touched' \cup {None}
        /\ removing' # None => removing' \in dir'
        /\ faults' \in 0 .. MaxFaults /\ prunes' \in 0 .. MaxPrunes
    <3>1. CASE PruneList
      BY <1>0, <3>1, StoreAssumption
         DEF PruneList, storeVars, TypeOK, job_list
    <3>2. CASE PruneStops
      BY <1>0, <3>2, StoreAssumption DEF PruneStops, storeVars, TypeOK
    <3>3. ASSUME NEW j \in Job, PruneEntry(j)
          PROVE  /\ touched' \subseteq born' /\ listed' \cup born' \subseteq Job
                 /\ removing' \in touched' \cup {None}
                 /\ removing' # None => removing' \in dir'
                 /\ faults' \in 0 .. MaxFaults /\ prunes' \in 0 .. MaxPrunes
      BY <1>0, <3>3 DEF PruneEntry, storeVars, boundVars, TypeOK, PruneOK
    <3> QED BY <1>1, <3>1, <3>2, <3>3
  <2> QED BY <1>0, <2>1, <2>2 DEF TypeOK, BytesOK, storeVars, procVars
<1>2. ASSUME NEW f \in File, RemoveFile(f) PROVE TypeOK' /\ BytesOK'
  <2>1. PICK r \in Job : r = removing /\ r \in dir
    BY <1>0, <1>2 DEF RemoveFile, TypeOK
  <2>2. /\ file' \in [Job -> [File -> Content]]
        /\ \A j \in Job, g \in File :
              file'[j][g] = IF j = r /\ g = f THEN "none" ELSE file[j][g]
    BY <1>0, <1>2, <2>1, WriteDoes DEF RemoveFile, TypeOK, Content
  <2>3. /\ done' \in [Job -> SUBSET Target]
        /\ \A j \in Job : done'[j] = IF j = r /\ f = "banner_state"
                                     THEN {} ELSE done[j]
    BY <1>0, <1>2, <2>1 DEF RemoveFile, TypeOK
  <2>4. UNCHANGED <<dir, events, recent, procVars, pruneVars, boundVars>>
    BY <1>2 DEF RemoveFile
  <2>5. BytesOK'
    BY <1>0, <1>n, <2>2, <2>3 DEF BytesOK
  <2>6. ASSUME NEW j \in Job \ dir'
        PROVE  events'[j] = {} /\ done'[j] = {} /\ \A g \in File : file'[j][g] = "none"
    <3>1. /\ events[j] = {} /\ done[j] = {}
          /\ \A g \in File : file[j][g] = "none"
      BY <1>0, <2>4 DEF TypeOK
    <3> QED BY <2>2, <2>3, <2>4, <3>1
  <2>7. TypeOK'
    BY <1>0, <2>2, <2>3, <2>4, <2>6
       DEF TypeOK, procVars, pruneVars, boundVars, Content
  <2> QED BY <2>5, <2>7
<1>3. ASSUME RemoveEvents PROVE TypeOK' /\ BytesOK'
  <2>1. /\ events' \in [Job -> SUBSET Target]
        /\ \A j \in Job : events[j] = {} => events'[j] = {}
    BY <1>0, <1>3 DEF RemoveEvents, TypeOK
  <2>2. UNCHANGED <<dir, file, done, recent, procVars, pruneVars, boundVars>>
    BY <1>3 DEF RemoveEvents
  <2> QED
    BY <1>0, <2>1, <2>2 DEF TypeOK, BytesOK, procVars, pruneVars, boundVars
<1>4. ASSUME RemoveDir PROVE TypeOK' /\ BytesOK'
  <2>1. PICK r \in Job : r = removing
    BY <1>0, <1>4 DEF RemoveDir, TypeOK
  <2>2. /\ events[r] = {} /\ done[r] = {}
        /\ \A f \in File : file[r][f] = "none"
    BY <1>0, <1>n, <1>4, <2>1 DEF RemoveDir, BytesOK
  <2>3. /\ UNCHANGED <<file, events, done, procVars, listed, touched, boundVars>>
        /\ dir' = dir \ {r} /\ recent' = recent \ {r} /\ removing' = None
    BY <1>4, <2>1 DEF RemoveDir
  <2> QED BY <1>0, <2>2, <2>3 DEF TypeOK, BytesOK, procVars, boundVars
<1> QED BY <1>1, <1>2, <1>3, <1>4 DEF Prune

LEMMA PruneKeeps ==
    ASSUME StoreInv, Prune
    PROVE  JobOK' /\ PruneOK' /\ DoneHasEvent'
<1>0. /\ TypeOK /\ JobOK /\ PruneOK /\ DoneHasEvent
      /\ Legacy \subseteq Job /\ None \notin Job
  BY StoreAssumption DEF StoreInv
<1>1. /\ pc' = pc /\ step' = step /\ why' = why /\ born' = born
      /\ touched \subseteq touched'
      /\ \A j \in Job \ touched : /\ file'[j] = file[j]
                                  /\ events'[j] = events[j]
                                  /\ done'[j] = done[j]
  BY PruneStep
<1>2. DoneHasEvent'
  BY <1>0, <1>1 DEF DoneHasEvent
<1>3. ASSUME NEW j \in Job PROVE StageOK(j)' /\ StoredOK(j)'
  BY <1>0, <1>1, <1>3 DEF JobOK, StageOK, StoredOK, Full, Base, Whole
<1>4. ASSUME NEW j \in Job, pc[j] = "create"
      PROVE  j \notin Legacy \cup touched' \cup listed'
  <2>1. /\ j \notin Legacy \cup touched \cup listed
        /\ file[j]["checkpoint"] # "full"
    BY <1>0, <1>4 DEF JobOK, CreateOK, Full
  <2>2. listed' \subseteq listed \cup job_list
    BY DEF Prune, PruneList, PruneEntry, RemoveFile, RemoveEvents, RemoveDir,
       PruneStops, pruneVars
  <2>3. touched' \subseteq touched \cup listed
    BY DEF Prune, PruneList, PruneEntry, RemoveFile, RemoveEvents, RemoveDir,
       PruneStops, pruneVars
  <2> QED BY <2>1, <2>2, <2>3 DEF job_list
<1>5. ASSUME NEW j \in Job PROVE CreateOK(j)'
  BY <1>0, <1>1, <1>4, <1>5 DEF JobOK, CreateOK, Full
<1>6. PruneOK'
  <2>1. ASSUME PruneList PROVE PruneOK'
    BY <1>0, <2>1 DEF PruneList, PruneOK, TypeOK, job_list, Full, storeVars
  <2>2. ASSUME NEW j \in Job, PruneEntry(j) PROVE PruneOK'
    BY <1>0, <2>2 DEF PruneEntry, PruneOK, Full, storeVars, boundVars
  <2>3. ASSUME NEW f \in File, RemoveFile(f) PROVE PruneOK'
    <3>1. PICK r \in Job : r = removing
      BY <1>0, <2>3 DEF RemoveFile, TypeOK
    <3>2. \A j \in Job \ {r} : file'[j] = file[j]
      BY <1>0, <2>3, <3>1 DEF RemoveFile, Write, TypeOK
    <3> QED BY <1>0, <2>3, <3>1, <3>2
            DEF RemoveFile, PruneOK, TypeOK, Full, pruneVars, boundVars
  <2>4. ASSUME RemoveEvents PROVE PruneOK'
    BY <1>0, <2>4 DEF RemoveEvents, PruneOK, Full, pruneVars, boundVars
  <2>5. ASSUME RemoveDir PROVE PruneOK'
    BY <1>0, <2>5 DEF RemoveDir, PruneOK, TypeOK, Full, boundVars
  <2>6. ASSUME PruneStops PROVE PruneOK'
    BY <1>0, <2>6 DEF PruneStops, PruneOK, Full, storeVars
  <2> QED BY <2>1, <2>2, <2>3, <2>4, <2>5, <2>6 DEF Prune
<1> QED BY <1>2, <1>3, <1>5, <1>6 DEF JobOK

-----------------------------------------------------------------------------
(* The invariant and what follows from it *)

LEMMA StoreInit == Init => StoreInv
<1> SUFFICES ASSUME Init PROVE StoreInv
  OBVIOUS
<1> USE StoreAssumption DEF Init
<1>1. TypeOK
  BY DEF TypeOK
<1>2. PruneOK /\ BytesOK /\ DoneHasEvent
  BY DEF PruneOK, BytesOK, DoneHasEvent
<1>3. ASSUME NEW j \in Job PROVE CreateOK(j) /\ StageOK(j) /\ StoredOK(j)
  <2>1. pc[j] = "none"
    OBVIOUS
  <2>2. CreateOK(j) /\ StageOK(j)
    BY <2>1 DEF CreateOK, StageOK, Opened, Checked, Mapped, Live
  <2>3. \A f \in File : file[j][f] = IF j \in Legacy /\ f \in LegacyFile
                                     THEN "full" ELSE "none"
    OBVIOUS
  <2>4. StoredOK(j)
    BY <2>3, Names DEF StoredOK, Full, Base, LegacyFile
  <2> QED BY <2>2, <2>4
<1> QED BY <1>1, <1>2, <1>3 DEF StoreInv, JobOK

LEMMA StoreStep == StoreInv /\ [Next]_vars => StoreInv'
<1>1. ASSUME StoreInv, NEW k \in Job, JobStep(k) PROVE StoreInv'
  BY <1>1, JobTypes, JobKeeps DEF StoreInv
<1>2. ASSUME StoreInv, Prune PROVE StoreInv'
  BY <1>2, PruneTypes, PruneKeeps DEF StoreInv
<1>3. ASSUME StoreInv, UNCHANGED vars PROVE StoreInv'
  BY <1>3 DEF vars, storeVars, procVars, pruneVars, boundVars, StoreInv,
     TypeOK, JobOK, PruneOK, BytesOK, DoneHasEvent, CreateOK, StageOK,
     StoredOK, Full, Base, Whole
<1> QED BY <1>1, <1>2, <1>3 DEF Next

(* The invariant holds whatever commands, prunes and deaths happen.         *)
THEOREM StoreInvariant == Spec => []StoreInv
BY StoreInit, StoreStep, PTL DEF Spec

(* Every variable keeps its type, and a removed job leaves nothing behind. *)
THEOREM TypeCorrect == Spec => []TypeOK
<1>1. StoreInv => TypeOK
  BY DEF StoreInv
<1> QED BY <1>1, StoreInvariant, PTL

(* Whenever create_shard dies, a directory with a checkpoint.json has all  *)
(* the files of a job at full length.                                      *)
THEOREM CheckpointVouches == Spec => []ListedIsWhole
<1>1. StoreInv => ListedIsWhole
  BY DEF StoreInv, JobOK, StoredOK, Full, ListedIsWhole
<1> QED BY <1>1, StoreInvariant, PTL

(* A scan never maps a file shorter than the job's targets, also in a job  *)
(* of an older version or one whose upgrade died.                          *)
THEOREM MappingsComplete == Spec => []MappedIsWhole
<1>1. StoreInv => MappedIsWhole
  BY Names DEF StoreInv, JobOK, StageOK, Full, Base, Whole, MappedIsWhole,
     Opened, Checked, Mapped, Live
<1> QED BY <1>1, StoreInvariant, PTL

(* The two together: open, list, scan and resume find whole files.         *)
THEOREM FilesAreWhole == Spec => []FilesWhole
<1>1. ListedIsWhole /\ MappedIsWhole => FilesWhole
  BY DEF FilesWhole
<1> QED BY <1>1, CheckpointVouches, MappingsComplete, PTL

(* No target is skipped on resume without a record in the event log.       *)
THEOREM SkippedHasEvent == Spec => []DoneHasEvent
<1>1. StoreInv => DoneHasEvent
  BY DEF StoreInv
<1> QED BY <1>1, StoreInvariant, PTL

(* A prune begins to remove only directories with a checkpoint.json, none  *)
(* that is still being created.                                            *)
THEOREM PruneSparesOthers == Spec => PruneTakesJobs
<1> DEFINE Taken == \A j \in touched' \ touched :
                       file[j]["checkpoint"] = "full" /\ pc[j] # "create"
<1>1. ASSUME StoreInv, [Next]_vars PROVE Taken
  <2>1. touched' \subseteq touched \cup listed
    <3>1. ASSUME NEW k \in Job, JobStep(k) PROVE touched' = touched
      BY <1>1, <3>1, OthersAlone DEF StoreInv
    <3>2. ASSUME Prune PROVE touched' \subseteq touched \cup listed
      BY <3>2 DEF Prune, PruneList, PruneEntry, RemoveFile, RemoveEvents,
         RemoveDir, PruneStops, pruneVars
    <3>3. ASSUME UNCHANGED vars PROVE touched' = touched
      BY <3>3 DEF vars, pruneVars
    <3> QED BY <1>1, <3>1, <3>2, <3>3 DEF Next
  <2>2. \A j \in listed : Full(j, "checkpoint") /\ j \in Job
    BY <1>1 DEF StoreInv, PruneOK, TypeOK
  <2> QED BY <1>1, <2>1, <2>2 DEF StoreInv, JobOK, CreateOK, Full
<1>2. StoreInv /\ [Next]_vars => [Taken]_vars
  BY <1>1
<1> QED BY <1>2, StoreInvariant, PTL DEF Spec, PruneTakesJobs
-----------------------------------------------------------------------------
(* Upgrades.  As long as nothing died, a file an open leaves short is the  *)
(* one it is about to fill, and banner_state.bin of a job with records is  *)
(* complete or on its way to the backfill.                                 *)

EndpointsOK(j) ==
    /\ \A p \in {"ports", "protocols"} :
          /\ file[j][p] = "short" =>
                pc[j] = "create" \/ (pc[j] = p /\ step[j] = 2)
          /\ pc[j] = p /\ step[j] = 2 => file[j][p] # "none"
    /\ pc[j] \in {"protocols", "check"} => Full(j, "ports")
    /\ pc[j] = "check" => Full(j, "protocols")

BackfillOK(j) ==
    /\ pc[j] = "create" => events[j] = {}
    /\ file[j]["banner_state"] # "none" =>
          \/ events[j] \subseteq done[j]
          \/ /\ backfill[j]
             /\ pc[j] = "backfill" \/ (pc[j] = "banner" /\ step[j] = 2)
    /\ pc[j] = "banner" /\ step[j] = 2 /\ file[j]["banner_state"] = "none" =>
          backfill[j]

UpgradeOK(j) == j \notin touched => EndpointsOK(j) /\ BackfillOK(j)

UpgradeInv == faults = 0 => \A j \in Job : UpgradeOK(j)

(* Another process leaves the job's backfill decision alone; only a death  *)
(* counts as a fault                                                       *)
LEMMA BackfillAlone ==
    ASSUME TypeOK, NEW k \in Job, JobStep(k)
    PROVE  /\ \A j \in Job \ {k} : backfill'[j] = backfill[j]
           /\ BannerExisted(k) \/ backfill' = backfill
           /\ Die(k) \/ faults' = faults
<1>1. CASE BannerExisted(k)
  BY <1>1 DEF BannerExisted, TypeOK, boundVars
<1>2. CASE ~BannerExisted(k)
  BY <1>2 DEF JobStep, CreateDir, CreateFile, Open, EnsureCreate, EnsureFill,
     EnsureCheck, MapFile, MapEnd, BannerMap, BackfillOne, BannerDone,
     BackfillEnd, SaveCheckpoint, SaveSummary, WriteFails, Die, Age, procVars,
     boundVars
<1> QED BY <1>1, <1>2

(* Steps that leave the files alone *)
LEMMA UpgradeQuiet ==
    ASSUME StoreInv, StoreInv', NEW k \in Job \ touched,
           EndpointsOK(k), BackfillOK(k),
           \/ CreateDir(k) \/ (\E w \in {"scan", "export"} : Open(k, w))
           \/ EnsureCheck(k) \/ MapEnd(k) \/ BannerExisted(k)
           \/ (\E t \in Target : BackfillOne(k, t) \/ BannerDone(k, t))
           \/ BackfillEnd(k) \/ WriteFails(k) \/ Age(k)
    PROVE  EndpointsOK(k)' /\ BackfillOK(k)'
<1>0. /\ TypeOK /\ StageOK(k) /\ dir \subseteq born /\ k \in Job
      /\ pc \in [Job -> Place] /\ step \in [Job -> 1 .. 18]
      /\ events \in [Job -> SUBSET Target] /\ done \in [Job -> SUBSET Target]
      /\ backfill \in [Job -> BOOLEAN]
      /\ {"ports", "protocols", "banner_state"} \subseteq File
  BY Names DEF StoreInv, JobOK, PruneOK, TypeOK, Place
<1>f. file' = file /\ touched' = touched
  BY DEF CreateDir, Open, EnsureCheck, MapEnd, BannerExisted, BackfillOne,
     BannerDone, BackfillEnd, WriteFails, Age, storeVars, pruneVars
<1> USE <1>0, <1>f DEF Goto, Advance, EndpointsOK, BackfillOK, Full
<1>1. CASE CreateDir(k)
  <2>1. /\ pc'[k] = "create" /\ step'[k] = 1
        /\ events' = events /\ done' = done /\ backfill' = backfill
    BY <1>1 DEF CreateDir
  <2>2. /\ k \notin dir /\ events[k] = {}
        /\ file[k]["banner_state"] = "none"
    BY <1>1 DEF CreateDir, TypeOK
  <2> QED BY <2>1, <2>2
<1>2. ASSUME NEW w \in {"scan", "export"}, Open(k, w)
      PROVE  EndpointsOK(k)' /\ BackfillOK(k)'
  <2>1. /\ pc[k] = "none" /\ pc'[k] = "ports" /\ step'[k] = 1
        /\ events' = events /\ done' = done /\ backfill' = backfill
    BY <1>2 DEF Open, storeVars
  <2> QED BY <2>1
<1>3. CASE EnsureCheck(k)
  <2>1. /\ pc[k] = "check" /\ pc'[k] \in {"map", "none"} /\ step'[k] = 1
        /\ events' = events /\ done' = done /\ backfill' = backfill
    BY <1>3 DEF EnsureCheck, storeVars
  <2> QED BY <2>1
<1>4. CASE MapEnd(k)
  <2>1. /\ pc[k] = "map" /\ pc'[k] \in {"banner", "none"} /\ step'[k] = 1
        /\ events' = events /\ done' = done /\ backfill' = backfill
    BY <1>4 DEF MapEnd, storeVars
  <2> QED BY <2>1
<1>5. CASE BannerExisted(k)
  <2>1. /\ pc[k] = "banner" /\ step[k] = 1 /\ pc'[k] = "banner"
        /\ step'[k] = 2 /\ events' = events /\ done' = done
        /\ backfill'[k] = (file[k]["banner_state"] = "none")
    BY <1>5 DEF BannerExisted, storeVars
  <2>2. file[k]["banner_state"] = "none" => backfill'[k]
    BY <2>1
  <2>3. file[k]["banner_state"] # "none" => events[k] \subseteq done[k]
    BY <2>1
  <2> QED BY <2>1, <2>2, <2>3
<1>6. ASSUME NEW t \in Target, BackfillOne(k, t)
      PROVE  EndpointsOK(k)' /\ BackfillOK(k)'
  <2>1. /\ pc[k] = "backfill" /\ pc' = pc /\ step' = step
        /\ backfill' = backfill /\ events' = events
        /\ done[k] \subseteq done'[k]
    BY <1>6 DEF BackfillOne, MarkDone, procVars
  <2> QED BY <2>1
<1>7. ASSUME NEW t \in Target, BannerDone(k, t)
      PROVE  EndpointsOK(k)' /\ BackfillOK(k)'
  <2>1. /\ pc[k] = "scan" /\ pc' = pc /\ step' = step
        /\ backfill' = backfill /\ events'[k] = events[k] \cup {t}
    BY <1>7 DEF BannerDone, procVars
  <2>2. file[k]["banner_state"] = "full"
    BY <2>1 DEF StageOK, Live
  <2>3. done'[k] = done[k] \cup {t}
    BY <1>7, <2>2 DEF BannerDone, MarkDone
  <2> QED BY <2>1, <2>2, <2>3
<1>8. CASE BackfillEnd(k)
  <2>1. /\ pc[k] = "backfill" /\ pc'[k] = "scan" /\ step'[k] = 1
        /\ events' = events /\ done' = done /\ backfill' = backfill
    BY <1>8 DEF BackfillEnd, storeVars
  <2>2. file[k]["banner_state"] = "full"
    BY <2>1 DEF StageOK, Live
  <2>3. events[k] \subseteq done[k]
    BY <1>8, <2>2 DEF BackfillEnd, EventTargets
  <2> QED BY <2>1, <2>3
<1>9. CASE WriteFails(k)
  <2>1. /\ k \notin dir /\ pc'[k] = "none" /\ step'[k] = 1
        /\ events' = events /\ done' = done /\ backfill' = backfill
    BY <1>9 DEF WriteFails, storeVars
  <2>2. \A f \in File : file[k][f] = "none"
    BY <2>1 DEF TypeOK
  <2> QED BY <2>1, <2>2
<1>10. CASE Age(k)
  <2>1. /\ pc' = pc /\ step' = step
        /\ events' = events /\ done' = done /\ backfill' = backfill
    BY <1>10 DEF Age, procVars
  <2> QED BY <2>1
<1> QED BY <1>1, <1>2, <1>3, <1>4, <1>5, <1>6, <1>7, <1>8, <1>9, <1>10

(* Steps that write a file *)
LEMMA UpgradeWrites ==
    ASSUME StoreInv, StoreInv', NEW k \in Job \ touched,
           EndpointsOK(k), BackfillOK(k),
           \/ CreateFile(k)
           \/ \E p \in {"ports", "protocols"} :
                 EnsureCreate(k, p) \/ EnsureFill(k, p)
           \/ MapFile(k) \/ BannerMap(k) \/ SaveCheckpoint(k) \/ SaveSummary(k)
    PROVE  EndpointsOK(k)' /\ BackfillOK(k)'
<1>0. /\ TypeOK /\ CreateOK(k) /\ StageOK(k) /\ k \in Job
      /\ file \in [Job -> [File -> Content]]
      /\ pc \in [Job -> Place] /\ step \in [Job -> 1 .. 18]
      /\ events \in [Job -> SUBSET Target] /\ done \in [Job -> SUBSET Target]
      /\ backfill \in [Job -> BOOLEAN]
      /\ {"checkpoint", "summary", "ports", "protocols", "banner_state", "state", "rtt",
          "sent_at", "conflicts"} \subseteq File
  BY Names DEF StoreInv, JobOK, PruneOK, TypeOK, Place, Content, File
<1>e. /\ events' = events /\ done' = done /\ backfill' = backfill
      /\ touched' = touched
  BY DEF CreateFile, EnsureCreate, EnsureFill, MapFile, BannerMap,
     SaveCheckpoint, SaveSummary, procVars, pruneVars
<1> USE <1>0, <1>e DEF Goto, Advance, EndpointsOK, BackfillOK, Full
<1>1. CASE CreateFile(k)
  <2>0. pc[k] = "create" /\ events[k] = {} /\ k \notin Legacy
    BY <1>1 DEF CreateFile, CreateOK
  <2>1. CASE step[k] < Len(CreateOrder)
    <3>1. pc' = pc
      BY <1>1, <2>1 DEF CreateFile
    <3> QED BY <2>0, <3>1
  <2>2. CASE ~(step[k] < Len(CreateOrder))
    <3>1. pc' = [pc EXCEPT ![k] = "ports"] /\ step' = [step EXCEPT ![k] = 1]
      BY <1>1, <2>2, Zenon DEF CreateFile
    <3>2. pc'[k] = "ports" /\ step'[k] = 1
      BY <3>1
    <3>3. StageOK(k)' /\ StoredOK(k)'
      BY DEF StoreInv, JobOK
    <3>4. file'[k]["checkpoint"] = "full"
      BY <3>2, <3>3 DEF StageOK, Opened, Base
    <3>5. file'[k]["ports"] = "full" /\ file'[k]["protocols"] = "full"
      BY <2>0, <3>3, <3>4, Names DEF StoredOK, Whole
    <3> QED BY <2>0, <3>2, <3>5
  <2> QED BY <2>1, <2>2
<1>2. ASSUME NEW p \in {"ports", "protocols"}, EnsureCreate(k, p)
      PROVE  EndpointsOK(k)' /\ BackfillOK(k)'
  <2>1. CASE step[k] = 1 /\ file[k][p] = "none"
    <3>1. Write(k, p, "short") /\ pc' = pc /\ step'[k] = 2 /\ pc[k] = p
      BY <1>2, <2>1 DEF EnsureCreate
    <3>2. \A g \in File : file'[k][g] = IF g = p THEN "short" ELSE file[k][g]
      BY <3>1, WriteDoes DEF Content
    <3>3. BackfillOK(k)'
      BY <3>1, <3>2
    <3>4. EndpointsOK(k)'
      BY <2>1, <3>1, <3>2
    <3> QED BY <3>3, <3>4
  <2>2. CASE ~(step[k] = 1 /\ file[k][p] = "none")
    <3>1. /\ file' = file /\ pc'[k] = After(p) /\ step'[k] = 1 /\ pc[k] = p
          /\ step[k] = 1
      BY <1>2, <2>2 DEF EnsureCreate
    <3>2. file[k][p] = "full"
      BY <2>2, <3>1 DEF Content
    <3> QED BY <3>1, <3>2 DEF After
  <2> QED BY <2>1, <2>2
<1>3. ASSUME NEW p \in {"ports", "protocols"}, EnsureFill(k, p)
      PROVE  EndpointsOK(k)' /\ BackfillOK(k)'
  <2>1. pc[k] = p /\ step[k] = 2 /\ pc'[k] = After(p) /\ step'[k] = 1
    BY <1>3 DEF EnsureFill
  <2>2. file[k][p] # "none"
    BY <2>1
  <2>3. Write(k, p, "full")
    BY <1>3, <2>2 DEF EnsureFill
  <2>4. \A g \in File : file'[k][g] = IF g = p THEN "full" ELSE file[k][g]
    BY <2>3, WriteDoes DEF Content
  <2> QED BY <2>1, <2>4 DEF After
<1>4. CASE MapFile(k)
  <2>1. PICK f \in {"state", "rtt", "sent_at", "conflicts"} :
           f = MapOrder(why[k])[step[k]]
    <3>1. CASE why[k] = "export"
      BY <1>4, <3>1 DEF MapFile, MapOrder
    <3>2. CASE why[k] # "export"
      BY <1>4, <3>2 DEF MapFile, MapOrder
    <3> QED BY <3>1, <3>2
  <2>2. PICK h : h = create_fixed_file(file[k][f])
    OBVIOUS
  <2>3. h \in Content /\ Write(k, f, h)
    BY <1>4, <2>1, <2>2, FixedContent DEF MapFile
  <2>4. \A g \in File : file'[k][g] = IF g = f THEN h ELSE file[k][g]
    BY <2>3, WriteDoes
  <2>5. pc[k] = "map" /\ pc' = pc
    BY <1>4 DEF MapFile
  <2> QED BY <2>1, <2>4, <2>5
<1>5. CASE BannerMap(k)
  <2>0. pc[k] = "banner" /\ step[k] = 2
    BY <1>5 DEF BannerMap
  <2>1. CASE file[k]["banner_state"] = "none"
    <3>1. Write(k, "banner_state", "short") /\ pc' = pc /\ step' = step
      BY <1>5, <2>1 DEF BannerMap, create_fixed_file
    <3>2. \A g \in File :
             file'[k][g] = IF g = "banner_state" THEN "short" ELSE file[k][g]
      BY <3>1, WriteDoes DEF Content
    <3> QED BY <2>0, <2>1, <3>1, <3>2
  <2>2. CASE file[k]["banner_state"] # "none"
    <3>1. Write(k, "banner_state", "full")
      BY <1>5, <2>2 DEF BannerMap, create_fixed_file
    <3>2. \A g \in File :
             file'[k][g] = IF g = "banner_state" THEN "full" ELSE file[k][g]
      BY <3>1, WriteDoes DEF Content
    <3>3. /\ step'[k] = 1
          /\ pc'[k] = IF backfill[k] THEN "backfill" ELSE "scan"
      BY <1>5, <2>2 DEF BannerMap
    <3> QED BY <2>0, <2>2, <3>2, <3>3
  <2> QED BY <2>1, <2>2
<1>6. CASE SaveCheckpoint(k) \/ SaveSummary(k)
  <2>1. PICK f \in {"checkpoint", "summary"} : Write(k, f, "full")
    BY <1>6 DEF SaveCheckpoint, SaveSummary
  <2>2. \A g \in File : file'[k][g] = IF g = f THEN "full" ELSE file[k][g]
    BY <2>1, WriteDoes DEF Content
  <2>3. pc[k] = "scan" /\ pc'[k] \in {"scan", "none"}
    BY <1>6 DEF SaveCheckpoint, SaveSummary, procVars
  <2> QED BY <2>1, <2>2, <2>3
<1> QED BY <1>1, <1>2, <1>3, <1>4, <1>5, <1>6

LEMMA UpgradeStep ==
    ASSUME StoreInv, StoreInv', UpgradeInv, [Next]_vars
    PROVE  UpgradeInv'
<1>0. TypeOK /\ faults \in Nat
  BY StoreAssumption DEF StoreInv, TypeOK
<1>1. ASSUME NEW k \in Job, JobStep(k) PROVE UpgradeInv'
  <2> SUFFICES ASSUME faults' = 0, NEW j \in Job \ touched'
               PROVE  EndpointsOK(j)' /\ BackfillOK(j)'
    BY DEF UpgradeInv, UpgradeOK
  <2>1. ~Die(k)
    BY <1>0 DEF Die
  <2>2. /\ faults = 0 /\ touched' = touched
    BY <1>0, <1>1, <2>1, BackfillAlone, OthersAlone
  <2>3. EndpointsOK(j) /\ BackfillOK(j)
    BY <2>2 DEF UpgradeInv, UpgradeOK
  <2>4. CASE j = k
    <3>1. k \in Job \ touched /\ EndpointsOK(k) /\ BackfillOK(k)
      BY <2>2, <2>3, <2>4
    <3>2. EndpointsOK(k)' /\ BackfillOK(k)'
      BY <1>1, <2>1, <3>1, UpgradeQuiet, UpgradeWrites DEF JobStep
    <3> QED BY <2>4, <3>2
  <2>5. CASE j # k
    <3>1. /\ file'[j] = file[j] /\ pc'[j] = pc[j] /\ step'[j] = step[j]
          /\ events'[j] = events[j] /\ done'[j] = done[j]
          /\ backfill'[j] = backfill[j]
      BY <1>0, <1>1, <2>5, FilesAfter, OthersAlone, BackfillAlone
    <3> QED BY <2>3, <3>1 DEF EndpointsOK, BackfillOK, Full
  <2> QED BY <2>4, <2>5
<1>2. ASSUME Prune PROVE UpgradeInv'
  <2>1. faults' = 0 => faults = 0
    BY <1>0, <1>2 DEF Prune, PruneList, PruneEntry, RemoveFile, RemoveEvents,
       RemoveDir, PruneStops, boundVars
  <2>2. /\ pc' = pc /\ step' = step /\ backfill' = backfill
        /\ touched \subseteq touched'
        /\ \A j \in Job \ touched : /\ file'[j] = file[j]
                                    /\ events'[j] = events[j]
                                    /\ done'[j] = done[j]
    BY <1>2, PruneStep
  <2> QED BY <2>1, <2>2 DEF UpgradeInv, UpgradeOK, EndpointsOK, BackfillOK, Full
<1>3. ASSUME UNCHANGED vars PROVE UpgradeInv'
  BY <1>3 DEF vars, storeVars, procVars, pruneVars, boundVars, UpgradeInv,
     UpgradeOK, EndpointsOK, BackfillOK, Full
<1> QED BY <1>1, <1>2, <1>3 DEF Next

(* banner_state.bin never claims a banner the event log does not have, and *)
(* a job that no death interrupted, legacy or new, is accepted by the      *)
(* length check and scanned with every recorded banner marked done.        *)
THEOREM BackfillIsSound == Spec => []BackfillSound
<1>1. Init => UpgradeInv
  <2> SUFFICES ASSUME Init, NEW j \in Job PROVE EndpointsOK(j) /\ BackfillOK(j)
    BY DEF UpgradeInv, UpgradeOK
  <2>1. /\ pc[j] = "none"
        /\ \A f \in File : file[j][f] = IF j \in Legacy /\ f \in LegacyFile
                                        THEN "full" ELSE "none"
    BY DEF Init
  <2>2. \A f \in {"ports", "protocols", "banner_state"} : file[j][f] = "none"
    BY <2>1, Names DEF LegacyFile
  <2> QED BY <2>1, <2>2 DEF EndpointsOK, BackfillOK
<1>2. StoreInv /\ StoreInv' /\ UpgradeInv /\ [Next]_vars => UpgradeInv'
  BY UpgradeStep
<1>3. StoreInv /\ UpgradeInv => BackfillSound
  <2> SUFFICES ASSUME StoreInv, UpgradeInv PROVE BackfillSound
    OBVIOUS
  <2>1. ASSUME faults = 0, NEW j \in Job \ touched
        PROVE  /\ pc[j] = "check" => LengthsMatch(j)
               /\ pc[j] = "scan" => events[j] \subseteq done[j]
    <3>1. EndpointsOK(j) /\ BackfillOK(j) /\ StageOK(j)
      BY <2>1 DEF UpgradeInv, UpgradeOK, StoreInv, JobOK
    <3> QED
      BY <2>1, <3>1 DEF EndpointsOK, BackfillOK, StageOK, Full, Live,
         LengthsMatch
  <2> QED BY <2>1 DEF BackfillSound, UpgradeComplete, StoreInv
<1> QED BY <1>1, <1>2, <1>3, StoreInvariant, PTL DEF Spec
=============================================================================
