----------------------------- MODULE BackupDrill -----------------------------
(***************************************************************************)
(* Scheduled backups (scripts/backup_scheduler.py), the tool they start    *)
(* (scripts/backup_restore.py) and restore drills, while the system they   *)
(* copy goes on.  A scheduler that is killed loses its lock and leaves its *)
(* tool running; a tool that is killed leaves what it has written.         *)
(***************************************************************************)
EXTENDS Naturals, FiniteSets

CONSTANTS BackupRuns,      \* invocations of the scheduler, each for its tool
          Drills,          \* restore drills
          Keys,            \* object keys
          Settled,         \* those with object and row in the first state
          Staged,          \* those put and not yet committed in the first state
          Buckets, TargetDbs,
          SlotLength,      \* an interval, in ticks of five minutes
          Tolerance,       \* how much later than observed_at a backup may end
          MaxTime,         \* bound: ticks
          MaxChanges,      \* bound: changes of the live system
          MaxKills         \* bound: deaths and outages

ASSUME BackupAssumption ==
    /\ Settled \subseteq Keys /\ Staged \subseteq Keys
    /\ SlotLength \in Nat \ {0}
    /\ {Tolerance, MaxTime, MaxChanges, MaxKills} \subseteq Nat

VARIABLES
    now,
    liveRefs,      \* storage_objects rows that are not deleted
    liveObjects,   \* the source bucket
    lockHolder,    \* who holds .context-vault-backup.lock
    sched,         \* scheduler invocations
    tool,          \* their tools
    receipt,       \* receipts/<slot>.json
    dir,           \* backups/<slot>
    claimed,       \* slots some scheduler has reported as PASS or SKIPPED
    drill,
    made,          \* target databases and buckets that exist
    targetRefs, bucket,
    changes, kills

liveVars == <<liveRefs, liveObjects, changes>>
backupFiles == <<receipt, dir>>
targets == <<made, targetRefs, bucket>>
backupVars == <<now, liveVars, lockHolder, sched, tool, backupFiles, claimed, drill,
                targets, kills>>

SlotOf(t) == t \div SlotLength
Slots == 0..SlotOf(MaxTime)
Nobody == "nobody"
Absent == "absent"
NoReceipt == [status |-> Absent, completed |-> 0]
NoDir == [state |-> Absent, dump |-> {}, copied |-> {}, quiet |-> TRUE]
NoDrill == [pc |-> "idle", slot |-> 0, db |-> Absent, bucket |-> Absent, left |-> {}]

BackupInit ==
    /\ now = 0
    /\ liveRefs = Settled
    /\ liveObjects = Settled \union Staged
    /\ lockHolder = Nobody
    /\ sched = [r \in BackupRuns |-> [pc |-> "idle", slot |-> 0, observed |-> 0]]
    /\ tool = [r \in BackupRuns |-> [pc |-> "idle", slot |-> 0, left |-> {}, completed |-> 0]]
    /\ receipt = [s \in Slots |-> NoReceipt]
    /\ dir = [s \in Slots |-> NoDir]
    /\ claimed = {}
    /\ drill = [x \in Drills |-> NoDrill]
    /\ targetRefs = [db \in TargetDbs |-> {}]
    /\ bucket = [b \in Buckets |-> {}]
    /\ made = {}
    /\ changes = 0
    /\ kills = 0

BackupTick ==
    /\ now < MaxTime
    /\ now' = now + 1
    /\ UNCHANGED <<liveVars, lockHolder, sched, tool, backupFiles, claimed, drill, targets,
                   kills>>

BackupKill ==
    /\ kills < MaxKills
    /\ kills' = kills + 1

-----------------------------------------------------------------------------
(* The system that is copied: an object is stored before its row, and       *)
(* deleted after its row (promotion) or before it (sweeper, collector).     *)

Disturb == dir' = [s \in Slots |-> [dir[s] EXCEPT !.quiet =
                                      @ /\ dir[s].state # "dumped"]]
LiveStep ==
    /\ changes < MaxChanges
    /\ changes' = changes + 1
    /\ Disturb
    /\ UNCHANGED <<now, lockHolder, sched, tool, receipt, claimed, drill, targets, kills>>

StoreObject(k) ==
    /\ k \notin liveObjects
    /\ liveObjects' = liveObjects \union {k}
    /\ UNCHANGED liveRefs
    /\ LiveStep

ReferenceObject(k) ==
    /\ k \in liveObjects \ liveRefs
    /\ liveRefs' = liveRefs \union {k}
    /\ UNCHANGED liveObjects
    /\ LiveStep

ReleaseObject(k) ==
    /\ k \in liveRefs
    /\ liveRefs' = liveRefs \ {k}
    /\ UNCHANGED liveObjects
    /\ LiveStep

DeleteObject(k) ==
    /\ k \in liveObjects
    /\ liveObjects' = liveObjects \ {k}
    /\ UNCHANGED liveRefs
    /\ LiveStep

-----------------------------------------------------------------------------
(* The scheduler: run_schedule.                                             *)

SchedStep(r, from, to) ==
    /\ sched[r].pc = from
    /\ sched' = [sched EXCEPT ![r].pc = to]
    /\ UNCHANGED <<now, liveVars, backupFiles, drill, targets>>

\* The clock is read before the lock is asked for; a held lock ends the run.
StartRun(r) ==
    /\ sched[r].pc = "idle"
    /\ sched' = [sched EXCEPT ![r] = [pc |-> "observed", slot |-> SlotOf(now), observed |-> now]]
    /\ UNCHANGED <<now, liveVars, lockHolder, tool, backupFiles, claimed, drill, targets,
                   kills>>

TakeLock(r) ==
    /\ lockHolder = Nobody
    /\ SchedStep(r, "observed", "locked")
    /\ lockHolder' = r
    /\ UNCHANGED <<tool, claimed, kills>>

OverlapActive(r) ==
    /\ lockHolder # Nobody
    /\ SchedStep(r, "observed", "ended")
    /\ UNCHANGED <<lockHolder, tool, claimed, kills>>

\* _validate_child_receipt: a terminal PASS receipt whose manifest is in the
\* directory, completed in the slot and not later than observed_at allows.
ReceiptValid(r) ==
    LET s == sched[r].slot
        done == receipt[s].completed IN
    /\ receipt[s].status = "PASS"
    /\ dir[s].state = "manifest"
    /\ SlotOf(done) = s
    /\ done <= sched[r].observed + Tolerance

Unlock == lockHolder' = Nobody

\* A slot with a receipt is a replay, valid or refused; one with a directory
\* alone is an incomplete attempt and refused.
AnswerFromSlot(r) ==
    LET s == sched[r].slot IN
    /\ receipt[s].status # Absent \/ dir[s].state # Absent
    /\ SchedStep(r, "locked", "ended")
    /\ claimed' = claimed \union (IF ReceiptValid(r) THEN {s} ELSE {})
    /\ Unlock
    /\ UNCHANGED <<tool, kills>>

StartTool(r) ==
    LET s == sched[r].slot IN
    /\ receipt[s].status = Absent
    /\ dir[s].state = Absent
    /\ SchedStep(r, "locked", "waiting")
    /\ tool' = [tool EXCEPT ![r].pc = "started", ![r].slot = s]
    /\ UNCHANGED <<lockHolder, claimed, kills>>

\* The tool's exit status and then its receipt decide.
ReportRun(r) ==
    /\ tool[r].pc \in {"passed", "failed"}
    /\ SchedStep(r, "waiting", "ended")
    /\ claimed' = claimed \union
         (IF tool[r].pc = "passed" /\ ReceiptValid(r) THEN {sched[r].slot} ELSE {})
    /\ Unlock
    /\ UNCHANGED <<tool, kills>>

\* timeout_seconds: the tool is killed with its wait.
ToolTimesOut(r) ==
    /\ tool[r].pc \notin {"passed", "failed"}
    /\ BackupKill
    /\ SchedStep(r, "waiting", "ended")
    /\ tool' = [tool EXCEPT ![r].pc = "killed"]
    /\ Unlock
    /\ UNCHANGED claimed

\* The lock is the process's and goes with it; the tool goes on.
SchedulerDies(r) ==
    /\ sched[r].pc \in {"locked", "waiting"}
    /\ BackupKill
    /\ SchedStep(r, sched[r].pc, "ended")
    /\ Unlock
    /\ UNCHANGED <<tool, claimed>>

-----------------------------------------------------------------------------
(* The tool: main and create_backup.                                        *)

ToolStep(r, from, to) ==
    /\ tool[r].pc = from
    /\ tool' = [tool EXCEPT ![r].pc = to]
    /\ UNCHANGED <<now, liveVars, lockHolder, sched, claimed, drill, targets, kills>>

\* Mutant: the receipt is opened without O_EXCL.
ReserveShared(r) ==
    /\ ToolStep(r, "started", "reserved")
    /\ receipt' = [receipt EXCEPT ![tool[r].slot].status = "reserved"]
    /\ UNCHANGED dir

\* O_CREAT | O_EXCL: of two tools of one slot one fails here.
ReserveReceipt(r) ==
    /\ receipt[tool[r].slot].status = Absent
    /\ ToolStep(r, "started", "reserved")
    /\ receipt' = [receipt EXCEPT ![tool[r].slot].status = "reserved"]
    /\ UNCHANGED dir

ReservationFails(r) ==
    /\ receipt[tool[r].slot].status # Absent
    /\ ToolStep(r, "started", "failed")
    /\ UNCHANGED backupFiles

MakeDirectory(r) ==
    /\ dir[tool[r].slot].state = Absent
    /\ ToolStep(r, "reserved", "made")
    /\ dir' = [dir EXCEPT ![tool[r].slot].state = "made"]
    /\ UNCHANGED receipt

\* pg_dump is one snapshot of the rows.
DumpDatabase(r) ==
    /\ ToolStep(r, "made", "dumped")
    /\ dir' = [dir EXCEPT ![tool[r].slot].state = "dumped",
                          ![tool[r].slot].dump = liveRefs,
                          ![tool[r].slot].quiet = (liveRefs = liveObjects)]
    /\ UNCHANGED receipt

\* The bucket is listed afterwards, and each object is read when its turn comes.
ListObjects(r) ==
    /\ tool[r].pc = "dumped"
    /\ tool' = [tool EXCEPT ![r].pc = "copying", ![r].left = liveObjects]
    /\ UNCHANGED <<now, liveVars, lockHolder, sched, backupFiles, claimed, drill, targets,
                   kills>>

CopyObject(r, k) ==
    LET s == tool[r].slot IN
    /\ tool[r].pc = "copying"
    /\ k \in tool[r].left \intersect liveObjects
    /\ tool' = [tool EXCEPT ![r].left = @ \ {k}]
    /\ dir' = [dir EXCEPT ![s].copied = @ \union {k}]
    /\ UNCHANGED <<now, liveVars, lockHolder, sched, receipt, claimed, drill, targets,
                   kills>>

\* evaluate_backup_policy: at least one object; the manifest is the last file.
WriteManifest(r) ==
    LET s == tool[r].slot IN
    /\ tool[r].pc = "copying"
    /\ tool[r].left = {}
    /\ dir[s].copied # {}
    /\ tool' = [tool EXCEPT ![r].pc = "manifest", ![r].completed = now]
    /\ dir' = [dir EXCEPT ![s].state = "manifest"]
    /\ UNCHANGED <<now, liveVars, lockHolder, sched, receipt, claimed, drill, targets,
                   kills>>

WritePass(r) ==
    /\ ToolStep(r, "manifest", "passed")
    /\ receipt' = [receipt EXCEPT ![tool[r].slot] =
                     [status |-> "PASS", completed |-> tool[r].completed]]
    /\ UNCHANGED dir

\* The directory exists, the object listed is gone, or there is no object: the
\* reserved receipt becomes a terminal FAIL.
WriteFail(r) ==
    LET s == tool[r].slot IN
    /\ \/ tool[r].pc = "reserved" /\ dir[s].state # Absent
       \/ tool[r].pc = "copying" /\ tool[r].left \ liveObjects # {}
       \/ tool[r].pc = "copying" /\ tool[r].left = {} /\ dir[s].copied = {}
    /\ ToolStep(r, tool[r].pc, "failed")
    /\ receipt' = [receipt EXCEPT ![s].status = "FAIL"]
    /\ UNCHANGED dir

\* An outage of database, storage or disk on the way.
ToolFails(r) ==
    /\ tool[r].pc \in {"reserved", "made", "dumped", "copying"}
    /\ BackupKill
    /\ tool' = [tool EXCEPT ![r].pc = "failed"]
    /\ receipt' = [receipt EXCEPT ![tool[r].slot].status = "FAIL"]
    /\ UNCHANGED <<now, liveVars, lockHolder, sched, dir, claimed, drill, targets>>

-----------------------------------------------------------------------------
(* A restore drill: run_restore_drill.                                      *)

DrillStep(x, from, to) ==
    /\ drill[x].pc = from
    /\ drill' = [drill EXCEPT ![x].pc = to]
    /\ UNCHANGED <<now, liveVars, lockHolder, sched, tool, backupFiles, claimed, kills>>

\* The manifest's hash comes from a receipt that passed; the targets must not
\* exist.
AdmitDrill(x, s, db, b) ==
    /\ drill[x].pc = "idle"
    /\ receipt[s].status = "PASS"
    /\ dir[s].state = "manifest"
    /\ {db, b} \intersect made = {}
    /\ drill' = [drill EXCEPT ![x] = [pc |-> "admitted", slot |-> s, db |-> db,
                                      bucket |-> b, left |-> dir[s].copied]]
    /\ UNCHANGED <<now, liveVars, lockHolder, sched, tool, backupFiles, claimed, targets,
                   kills>>

\* createdb and make_bucket refuse what another drill has made meanwhile.
CreateTargetDb(x) ==
    /\ DrillStep(x, "admitted", "database")
    /\ drill[x].db \notin made
    /\ made' = made \union {drill[x].db}
    /\ UNCHANGED <<targetRefs, bucket>>

\* Mutant: a bucket that exists by now is used.
MakeBucketIfMissing(x) ==
    /\ DrillStep(x, "database", "bucket")
    /\ made' = made \union {drill[x].bucket}
    /\ UNCHANGED <<targetRefs, bucket>>

MakeBucket(x) ==
    /\ DrillStep(x, "database", "bucket")
    /\ drill[x].bucket \notin made
    /\ made' = made \union {drill[x].bucket}
    /\ UNCHANGED <<targetRefs, bucket>>

TargetTaken(x) ==
    /\ \/ drill[x].pc = "admitted" /\ drill[x].db \in made
       \/ drill[x].pc = "database" /\ drill[x].bucket \in made
    /\ DrillStep(x, drill[x].pc, "failed")
    /\ UNCHANGED targets

RestoreDatabase(x) ==
    /\ DrillStep(x, "bucket", "restored")
    /\ targetRefs' = [targetRefs EXCEPT ![drill[x].db] = dir[drill[x].slot].dump]
    /\ UNCHANGED <<made, bucket>>

RestoreObject(x, k) ==
    /\ drill[x].pc = "restored"
    /\ k \in drill[x].left
    /\ drill' = [drill EXCEPT ![x].left = @ \ {k}]
    /\ bucket' = [bucket EXCEPT ![drill[x].bucket] = @ \union {<<k, drill[x].slot>>}]
    /\ UNCHANGED <<now, liveVars, lockHolder, sched, tool, backupFiles, claimed,
                   made, targetRefs, kills>>

BucketKeys(b) == {o[1] : o \in bucket[b]}

\* reconcile_keys: neither missing nor orphan objects.
Reconciled(x) == targetRefs[drill[x].db] = BucketKeys(drill[x].bucket)

Reconcile(x) ==
    /\ drill[x].left = {}
    /\ DrillStep(x, "restored", IF Reconciled(x) THEN "passed" ELSE "failed")
    /\ UNCHANGED targets
-----------------------------------------------------------------------------
RunBackup(r) ==
    \/ StartRun(r) \/ TakeLock(r) \/ OverlapActive(r) \/ AnswerFromSlot(r)
    \/ StartTool(r) \/ ReportRun(r)
    \/ ToolTimesOut(r) \/ SchedulerDies(r)

RunTool(r) ==
    \/ ReserveReceipt(r) \/ ReservationFails(r) \/ MakeDirectory(r)
    \/ DumpDatabase(r) \/ ListObjects(r) \/ WriteManifest(r)
    \/ WritePass(r) \/ WriteFail(r) \/ ToolFails(r)
    \/ \E k \in Keys : CopyObject(r, k)

RunDrill(x) ==
    \/ \E s \in Slots, db \in TargetDbs, b \in Buckets : AdmitDrill(x, s, db, b)
    \/ CreateTargetDb(x) \/ MakeBucket(x) \/ TargetTaken(x)
    \/ RestoreDatabase(x) \/ Reconcile(x)
    \/ \E k \in Keys : RestoreObject(x, k)

LiveSystem ==
    \E k \in Keys : StoreObject(k) \/ ReferenceObject(k) \/ ReleaseObject(k) \/ DeleteObject(k)

BackupNext ==
    \/ BackupTick \/ LiveSystem
    \/ \E r \in BackupRuns : RunBackup(r) \/ RunTool(r)
    \/ \E x \in Drills : RunDrill(x)

BackupSpec == BackupInit /\ [][BackupNext]_backupVars
-----------------------------------------------------------------------------
(* Properties.                                                             *)

\* A slot that was reported as backed up keeps a complete backup and the
\* receipt that says so, whatever a tool left behind by a killed scheduler, a
\* second tool or a later run of the slot does.
ClaimedSlotStands ==
    \A s \in claimed :
      /\ receipt[s].status = "PASS"
      /\ SlotOf(receipt[s].completed) = s
      /\ dir[s].state = "manifest"
      /\ \A r \in BackupRuns :
           tool[r].slot = s => tool[r].pc \in {"idle", "started", "passed", "failed", "killed"}

\* The verdict of a drill is about one backup.  Passed: every row of its
\* database has its object, and every object comes from that backup, also with
\* a rival drill on the same bucket.  Failed at the comparison: rows and objects
\* did not agree when the dump was taken, or changed before the last object was
\* copied.
DrillVerdictTrue ==
    \A x \in Drills :
      LET s == drill[x].slot IN
      /\ drill[x].pc = "passed" =>
           /\ targetRefs[drill[x].db] = dir[s].dump
           /\ bucket[drill[x].bucket] = dir[s].dump \X {s}
      /\ drill[x].pc = "failed" /\ drill[x].left = {} => ~dir[s].quiet
=============================================================================
