------------------------------- MODULE DbPool -------------------------------
(***************************************************************************)
(* CDbConnectionPool (engine/server/databases/connection_pool.cpp): the    *)
(* main thread puts jobs into a ring of QSize slots; the backup thread     *)
(* looks at every job first and saves writes to the backup database; the   *)
(* worker thread then takes the job out of its slot and runs it.  Two      *)
(* semaphores pass the jobs on, m_NumBackup from the main thread to the    *)
(* backup thread and m_NumWorker from there to the worker.  On shutdown    *)
(* the main thread signals once more without a job; the empty slot that    *)
(* the two threads then find is their end marker.                          *)
(*                                                                         *)
(* The main thread does not check for room in the ring.  Backlog is the    *)
(* assumption that the environment makes good for it: the number of jobs   *)
(* waiting in slots when one more is put in stays below Backlog.           *)
(***************************************************************************)
EXTENDS Integers, Sequences

CONSTANTS
    QSize,      \* std::size(m_aQueries), 512 in the code
    Backlog,    \* jobs allowed to wait in slots at a time (an assumption)
    MaxJobs     \* bound on the jobs of a behaviour

ASSUME SizesAssumption ==
    /\ QSize \in Nat \ {0}
    /\ Backlog \in Nat
    /\ MaxJobs \in Nat

VARIABLES
    useSql,     \* Config()->m_SvUseSQL: MySQL servers with an SQLite backup
    mainPc,     \* main thread: "start", "start2", "run", "waiting", "stopped"
    insertIdx,  \* m_InsertIdx
    slots,      \* m_aQueries
    numBackup,  \* value of m_NumBackup
    numWorker,  \* value of m_NumWorker
    shutdown,   \* m_Shutdown
    bPc,        \* backup thread: "wait", "look", "exited"
    bNum,       \* its JobNum
    bCur,       \* its pThreadData
    bHasBackup, \* its m_pWriteBackup is set
    wPc,        \* worker: "top", "wait", then the branch of its switch it is
                \* in, "read", "write", "backup", "other", and "exited"
    wNum,       \* its JobNum
    wCur,       \* its pThreadData
    wTry,       \* its i, read servers already tried for this job
    wOk,        \* its Success, for a write
    failMode,   \* its FailMode
    reads,      \* m_vpReadConnections.size()
    hasWrite,   \* m_pWriteConnection is set
    hasBackup   \* its m_pWriteBackup is set

\* History: the jobs in the order of insertion, the jobs with their results
\* in the order of completion, the writes shown to the backup database first.
VARIABLES enq, done, saved

mainVars == <<useSql, mainPc, insertIdx, enq>>
backupVars == <<bPc, bNum, bCur, bHasBackup, saved>>
workerVars == <<wPc, wNum, wCur, wTry, wOk, failMode, reads, hasWrite, hasBackup, done>>
vars == <<mainVars, slots, numBackup, numWorker, shutdown, backupVars, workerVars>>

\* CSqlExecData::m_Mode, with the Mode of the ADD_ kinds folded in.
Mode == {"read", "write", "addread", "addwrite", "addbackup", "print"}
Job == [num : 0..(MaxJobs - 1), mode : Mode]

\* The nullptr a slot holds when it has no job.
Null == [num |-> -1, mode |-> "none"]
-----------------------------------------------------------------------------
Init ==
    /\ useSql \in BOOLEAN
    /\ mainPc = "start"
    /\ insertIdx = 0
    /\ slots = [k \in 0..(QSize - 1) |-> Null]
    /\ numBackup = 0
    /\ numWorker = 0
    /\ shutdown = FALSE
    /\ bPc = "wait"
    /\ bNum = 0
    /\ bCur = Null
    /\ bHasBackup = FALSE
    /\ wPc = "top"
    /\ wNum = 0
    /\ wCur = Null
    /\ wTry = 0
    /\ wOk = FALSE
    /\ failMode = FALSE
    /\ reads = 0
    /\ hasWrite = FALSE
    /\ hasBackup = FALSE
    /\ enq = << >>
    /\ done = << >>
    /\ saved = {}

\* Jobs still in their slots: inserted and not yet moved out by the worker.
Busy == wPc \in {"read", "write", "backup", "other"}
Moved == IF Busy THEN wNum + 1 ELSE wNum
InSlots == Len(enq) - Moved

\* Slip: the index is wrapped one slot too late.
PushWrapsLate(mode) ==
    /\ Len(enq) < MaxJobs
    /\ InSlots < Backlog
    /\ LET job == [num |-> Len(enq), mode |-> mode]
       IN  /\ slots' = [slots EXCEPT ![insertIdx] = job]
           /\ enq' = Append(enq, job)
    /\ insertIdx' = (insertIdx + 1) % (QSize + 1)
    /\ numBackup' = numBackup + 1
    /\ UNCHANGED <<useSql, numWorker, shutdown, backupVars, workerVars>>

\* The insertion all requests share.  The new job overwrites whatever the
\* slot holds; the semaphore makes the write visible to the backup thread.
Push(mode) ==
    /\ Len(enq) < MaxJobs
    /\ InSlots < Backlog
    /\ LET job == [num |-> Len(enq), mode |-> mode]
       IN  /\ slots' = [slots EXCEPT ![insertIdx] = job]
           /\ enq' = Append(enq, job)
    /\ insertIdx' = (insertIdx + 1) % QSize
    /\ numBackup' = numBackup + 1
    /\ UNCHANGED <<useSql, numWorker, shutdown, backupVars, workerVars>>

NoSqliteFile ==
    /\ mainPc = "start"
    /\ mainPc' = "run"
    /\ UNCHANGED <<useSql, insertIdx, enq, slots, numBackup, numWorker, shutdown,
                   backupVars, workerVars>>

\* CServer::Run registers the databases of the configuration: the SQLite file,
\* if one is configured, is the backup of a MySQL server, or else the only read
\* and write server.
Startup ==
    \/ NoSqliteFile
    \/ /\ mainPc = "start"
       /\ useSql
       /\ Push("addbackup")
       /\ mainPc' = "run"
    \/ /\ mainPc = "start"
       /\ ~useSql
       /\ Push("addread")
       /\ mainPc' = "start2"
    \/ /\ mainPc = "start2"
       /\ Push("addwrite")
       /\ mainPc' = "run"

\* The operator's command add_sqlserver, in the configuration file that is read
\* before Run or later: the test on the argument sets Write to FALSE for "w" and
\* to TRUE for "r".
ConAddSqlServer(arg) ==
    /\ mainPc \in {"start", "run"}
    /\ useSql
    /\ Push(IF arg = "w" THEN "addread" ELSE "addwrite")
    /\ UNCHANGED mainPc

Execute ==
    /\ mainPc = "run"
    /\ Push("read")
    /\ UNCHANGED mainPc

ExecuteWrite ==
    /\ mainPc = "run"
    /\ Push("write")
    /\ UNCHANGED mainPc

\* One request of dump_sqlservers (the method is called Print).
DumpSqlServers ==
    /\ mainPc \in {"start", "run"}
    /\ Push("print")
    /\ UNCHANGED mainPc

OnShutdown ==
    /\ mainPc = "run"
    /\ mainPc' = "waiting"
    /\ shutdown' = TRUE
    /\ numBackup' = numBackup + 1
    /\ UNCHANGED <<useSql, insertIdx, enq, slots, numWorker, backupVars, workerVars>>

\* The loop of OnShutdown that polls m_Shutdown ends.
ShutdownReturns ==
    /\ mainPc = "waiting"
    /\ ~shutdown
    /\ mainPc' = "stopped"
    /\ UNCHANGED <<useSql, insertIdx, enq, slots, numBackup, numWorker, shutdown,
                   backupVars, workerVars>>
-----------------------------------------------------------------------------
\* CBackup::ProcessQueries up to the test of the pointer.
BackupTake ==
    /\ bPc = "wait"
    /\ numBackup > 0
    /\ numBackup' = numBackup - 1
    /\ bCur' = slots[bNum % QSize]
    /\ bPc' = "look"
    /\ UNCHANGED <<mainVars, slots, numWorker, shutdown, bNum, bHasBackup, saved, workerVars>>

\* Slip: the backup thread returns without waking the worker.
BackupExitsSilently ==
    /\ bPc = "look"
    /\ bCur = Null
    /\ bPc' = "exited"
    /\ UNCHANGED <<mainVars, slots, numBackup, numWorker, shutdown, bNum, bCur, bHasBackup,
                   saved, workerVars>>

\* The end marker: the thread passes it on and returns.
BackupExit ==
    /\ bPc = "look"
    /\ bCur = Null
    /\ bPc' = "exited"
    /\ numWorker' = numWorker + 1
    /\ UNCHANGED <<mainVars, slots, numBackup, shutdown, bNum, bCur, bHasBackup, saved, workerVars>>

\* Slip: the backup database is skipped during shutdown as well.
BackupSkipsAtShutdown ==
    /\ bPc = "look"
    /\ bCur # Null
    /\ bHasBackup' = (bHasBackup \/ bCur.mode = "addbackup")
    /\ saved' = IF bCur.mode = "write" /\ bHasBackup /\ ~shutdown
                THEN saved \cup {bCur.num} ELSE saved
    /\ bNum' = bNum + 1
    /\ bCur' = Null
    /\ bPc' = "wait"
    /\ numWorker' = numWorker + 1
    /\ UNCHANGED <<mainVars, slots, numBackup, shutdown, workerVars>>

\* A job: open the backup database, show it a write first, or skip the job;
\* then pass it on.  Whether the backup database accepts the write does not
\* change what follows.
BackupPass ==
    /\ bPc = "look"
    /\ bCur # Null
    /\ bHasBackup' = (bHasBackup \/ bCur.mode = "addbackup")
    /\ saved' = IF bCur.mode = "write" /\ bHasBackup THEN saved \cup {bCur.num} ELSE saved
    /\ bNum' = bNum + 1
    /\ bCur' = Null
    /\ bPc' = "wait"
    /\ numWorker' = numWorker + 1
    /\ UNCHANGED <<mainVars, slots, numBackup, shutdown, workerVars>>
-----------------------------------------------------------------------------
\* CWorker::ProcessQueries, one action per stretch between two points where
\* another thread can be seen.
WorkerCheck ==
    /\ wPc = "top"
    /\ wPc' = "wait"
    /\ failMode' = (failMode /\ numWorker # 0)
    /\ UNCHANGED <<mainVars, slots, numBackup, numWorker, shutdown, backupVars,
                   wNum, wCur, wTry, wOk, reads, hasWrite, hasBackup, done>>

\* The job is handled: its result is stored and the next round begins.
Complete(result) ==
    /\ done' = Append(done, [job |-> wCur, result |-> result])
    /\ wNum' = wNum + 1
    /\ wCur' = Null
    /\ wTry' = 0
    /\ wOk' = FALSE
    /\ wPc' = "top"

\* Slip: the worker looks at its job without moving it out of the slot.
WorkerTakesCopy ==
    /\ wPc = "wait"
    /\ numWorker > 0
    /\ LET job == slots[wNum % QSize]
       IN  /\ job # Null
           /\ wCur' = job
           /\ wPc' = IF job.mode \in {"read", "write"} THEN job.mode ELSE "other"
    /\ numWorker' = numWorker - 1
    /\ UNCHANGED <<mainVars, slots, numBackup, shutdown, backupVars, wNum, wTry, wOk, failMode,
                   reads, hasWrite, hasBackup, done>>

\* The worker takes the job out of its slot.
WorkerTake ==
    /\ wPc = "wait"
    /\ numWorker > 0
    /\ LET job == slots[wNum % QSize]
       IN  /\ job # Null
           /\ wCur' = job
           /\ wPc' = IF job.mode \in {"read", "write"} THEN job.mode ELSE "other"
    /\ numWorker' = numWorker - 1
    /\ slots' = [slots EXCEPT ![wNum % QSize] = Null]
    /\ UNCHANGED <<mainVars, numBackup, shutdown, backupVars, wNum, wTry, wOk, failMode,
                   reads, hasWrite, hasBackup, done>>

\* Slip: the worker leaves as soon as it sees the shutdown flag.
WorkerExitsAtOnce ==
    /\ wPc = "wait"
    /\ numWorker > 0
    /\ shutdown
    /\ numWorker' = numWorker - 1
    /\ shutdown' = FALSE
    /\ wPc' = "exited"
    /\ UNCHANGED <<mainVars, slots, numBackup, backupVars, wNum, wCur, wTry, wOk, failMode,
                   reads, hasWrite, hasBackup, done>>

\* The end marker: the worker tells the main thread and returns.
WorkerExit ==
    /\ wPc = "wait"
    /\ numWorker > 0
    /\ slots[wNum % QSize] = Null
    /\ numWorker' = numWorker - 1
    /\ shutdown' = FALSE
    /\ wPc' = "exited"
    /\ UNCHANGED <<mainVars, slots, numBackup, backupVars, wNum, wCur, wTry, wOk, failMode,
                   reads, hasWrite, hasBackup, done>>

\* Slip: a dismissed request is dropped without its result.
WorkerReadDrops(ok) ==
    /\ wPc = "read"
    /\ IF wTry < reads /\ ~shutdown /\ ~failMode
       THEN IF ok
            THEN Complete("ok") /\ UNCHANGED failMode
            ELSE /\ wTry' = wTry + 1
                 /\ UNCHANGED <<wPc, wNum, wCur, wOk, failMode, done>>
       ELSE /\ wNum' = wNum + 1
            /\ wPc' = "top"
            /\ failMode' = TRUE
            /\ UNCHANGED <<wCur, wTry, wOk, done>>
    /\ UNCHANGED <<mainVars, slots, numBackup, numWorker, shutdown, backupVars,
                   reads, hasWrite, hasBackup>>

\* READ_ACCESS: the next read server is tried, unless the request is dismissed
\* or there is no server left.
WorkerRead(ok) ==
    /\ wPc = "read"
    /\ IF wTry < reads /\ ~shutdown /\ ~failMode
       THEN IF ok
            THEN Complete("ok") /\ UNCHANGED failMode
            ELSE /\ wTry' = wTry + 1
                 /\ UNCHANGED <<wPc, wNum, wCur, wOk, failMode, done>>
       ELSE /\ Complete(IF wTry < reads THEN "dismissed" ELSE "failed")
            /\ failMode' = TRUE
    /\ UNCHANGED <<mainVars, slots, numBackup, numWorker, shutdown, backupVars,
                   reads, hasWrite, hasBackup>>

\* Slip: a failed write does not enter fail mode.
WorkerWriteForgets(ok) ==
    /\ wPc = "write"
    /\ ok => hasWrite /\ ~((shutdown \/ failMode) /\ hasBackup)
    /\ wOk' = ok
    /\ wPc' = "backup"
    /\ UNCHANGED <<mainVars, slots, numBackup, numWorker, shutdown, backupVars,
                   wNum, wCur, wTry, failMode, reads, hasWrite, hasBackup, done>>

\* WRITE_ACCESS, on the write server, skipped during shutdown and in fail mode
\* if there is a backup.
WorkerWrite(ok) ==
    /\ wPc = "write"
    /\ ok => hasWrite /\ ~((shutdown \/ failMode) /\ hasBackup)
    /\ wOk' = ok
    /\ failMode' = (failMode \/ ~ok)
    /\ wPc' = "backup"
    /\ UNCHANGED <<mainVars, slots, numBackup, numWorker, shutdown, backupVars,
                   wNum, wCur, wTry, reads, hasWrite, hasBackup, done>>

\* WRITE_ACCESS, the backup database is told how the write server fared; it
\* makes good a failure.
WorkerBackup(ok) ==
    /\ wPc = "backup"
    /\ ok => hasBackup
    /\ Complete(IF wOk \/ ok THEN "ok" ELSE "failed")
    /\ UNCHANGED <<mainVars, slots, numBackup, numWorker, shutdown, backupVars,
                   failMode, reads, hasWrite, hasBackup>>

\* ADD_MYSQL, ADD_SQLITE, PRINT.
WorkerOther ==
    /\ wPc = "other"
    /\ reads' = IF wCur.mode = "addread" THEN reads + 1 ELSE reads
    /\ hasWrite' = (hasWrite \/ wCur.mode = "addwrite")
    /\ hasBackup' = (hasBackup \/ wCur.mode = "addbackup")
    /\ Complete("ok")
    /\ UNCHANGED <<mainVars, slots, numBackup, numWorker, shutdown, backupVars, failMode>>
-----------------------------------------------------------------------------
Main ==
    \/ Startup
    \/ \E arg \in {"r", "w"} : ConAddSqlServer(arg)
    \/ Execute
    \/ ExecuteWrite
    \/ DumpSqlServers
    \/ OnShutdown
    \/ ShutdownReturns

Backup == BackupTake \/ BackupExit \/ BackupPass

Worker ==
    \/ WorkerCheck
    \/ WorkerTake
    \/ WorkerExit
    \/ \E ok \in BOOLEAN : WorkerRead(ok) \/ WorkerWrite(ok) \/ WorkerBackup(ok)
    \/ WorkerOther

Next == Main \/ Backup \/ Worker

SafeSpec == Init /\ [][Next]_vars

\* The operating system runs the two detached threads, and the main thread
\* polls m_Shutdown until it is false; nobody has to shut the server down.
Spec == SafeSpec /\ WF_vars(Backup) /\ WF_vars(Worker) /\ WF_vars(ShutdownReturns)
-----------------------------------------------------------------------------
MainTypeOK ==
    /\ useSql \in BOOLEAN
    /\ mainPc \in {"start", "start2", "run", "waiting", "stopped"}
    /\ insertIdx \in 0..(QSize - 1)
    /\ enq \in Seq(Job)

SharedTypeOK ==
    /\ slots \in [0..(QSize - 1) -> Job \cup {Null}]
    /\ numBackup \in Nat
    /\ numWorker \in Nat
    /\ shutdown \in BOOLEAN

BackupTypeOK ==
    /\ bPc \in {"wait", "look", "exited"}
    /\ bNum \in Nat
    /\ bCur \in Job \cup {Null}
    /\ bHasBackup \in BOOLEAN
    /\ saved \subseteq 0..(MaxJobs - 1)

WorkerTypeOK ==
    /\ wPc \in {"top", "wait", "read", "write", "backup", "other", "exited"}
    /\ wNum \in Nat
    /\ wCur \in IF Busy THEN Job ELSE {Null}
    /\ wTry \in Nat
    /\ wOk \in BOOLEAN
    /\ failMode \in BOOLEAN
    /\ reads \in Nat
    /\ hasWrite \in BOOLEAN
    /\ hasBackup \in BOOLEAN
    /\ done \in Seq([job : Job, result : {"ok", "failed", "dismissed"}])

\* The variables stay what the code's types make them: m_InsertIdx inside the
\* ring, the semaphores at or above zero, a job in the worker's hands while it
\* handles one.
TypeOK == MainTypeOK /\ SharedTypeOK /\ BackupTypeOK /\ WorkerTypeOK

\* Slots sl hold the jobs of q numbered lo and higher, and no others.
Ring(sl, q, lo) ==
    /\ \A n \in lo..(Len(q) - 1) : sl[n % QSize] = q[n + 1]
    /\ \A k \in 0..(QSize - 1) :
          sl[k] # Null => \E n \in lo..(Len(q) - 1) : k = n % QSize

\* The ring (m_aQueries) holds exactly the jobs that the worker has not moved
\* out, each in the slot its number selects, so that neither thread ever looks
\* at an overwritten, an already handled or a stale job.
RingHoldsBacklog == Ring(slots, enq, Moved)

\* Every job that ProcessQueries of the worker finishes is the next one in the
\* order in which the main thread called Execute: none is lost, none runs twice
\* and none overtakes another.
InOrderOnce ==
    \A i \in 1..Len(done) : i <= Len(enq) /\ done[i].job = enq[i]

\* "work through all database jobs after OnShutdown is called before exiting
\* the thread": when the worker is gone every job has been handled and the
\* main thread is shutting down.
DrainedAtExit ==
    wPc = "exited" => Len(done) = Len(enq) /\ mainPc \in {"waiting", "stopped"}

\* The writes inserted after the registration of the backup database.
BackedUp(n) ==
    /\ enq[n + 1].mode = "write"
    /\ \E m \in 0..(n - 1) : enq[m + 1].mode = "addbackup"

\* "writes to WRITE_BACKUP first": no write reaches the worker's branch for
\* writes before the backup thread has shown it to the backup database,
\* whatever the two threads' speeds.
BackupFirst ==
    wPc \in {"write", "backup"} /\ BackedUp(wNum) => wCur.num \in saved

\* The pool implements the job queue the game server relies on: JobQueue says
\* what may be dismissed, and that all jobs get done once the threads run.
JQ == INSTANCE JobQueue WITH
        Job <- Job,
        Optional <- {job \in Job : job.mode = "read"},
        pending <- SubSeq(enq, Len(done) + 1, Len(enq)),
        done <- done,
        degraded <- failMode,
        closing <- mainPc \in {"waiting", "stopped"},
        closed <- wPc = "exited"

ImplementsJobQueue == JQ!Spec

\* OnShutdown waits for the worker by polling m_Shutdown: the wait ends.
ShutdownEnds == mainPc = "waiting" ~> mainPc = "stopped"
=============================================================================
