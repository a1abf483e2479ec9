---------------------------- MODULE DbPoolProofs ----------------------------
(***************************************************************************)
(* Proofs about DbPool for every size of the ring, every number of jobs    *)
(* and all interleavings of the three threads.                             *)
(***************************************************************************)
EXTENDS DbPool, NumberFacts, SequenceTheorems

\* The jobs that wait in slots never fill the ring, so that the slot behind
\* the last one is empty when the end marker is looked for.
ASSUME RoomAssumption == Backlog < QSize
-----------------------------------------------------------------------------
\* The remainder of a job's number is an index of the ring.
LEMMA SlotRange ==
    ASSUME NEW n \in Nat
    PROVE  n % QSize \in 0..(QSize - 1)
  BY SizesAssumption, DivMod DEF SizesAssumption

\* Every state of the pool has the types of the code's variables: the
\* semaphores never go below zero, m_InsertIdx stays inside the ring.
THEOREM TypeCorrect == SafeSpec => []TypeOK
<1>1. Init => TypeOK
  BY SizesAssumption DEF SizesAssumption, Init, TypeOK, MainTypeOK, SharedTypeOK, BackupTypeOK,
     WorkerTypeOK, Busy
<1>2. TypeOK /\ [Next]_vars => TypeOK'
  <2> SUFFICES ASSUME TypeOK, [Next]_vars
               PROVE  TypeOK'
    OBVIOUS
  <2> USE DEF TypeOK
  \* A thread's step leaves the variables of the other threads alone.
  <2>1. UNCHANGED mainVars => MainTypeOK'
    BY DEF mainVars, MainTypeOK
  <2>2. UNCHANGED backupVars => BackupTypeOK'
    BY DEF backupVars, BackupTypeOK
  <2>3. UNCHANGED workerVars => WorkerTypeOK'
    BY DEF workerVars, WorkerTypeOK, Busy
  <2>4. CASE Main
    <3>1. ASSUME NEW mode \in Mode, Push(mode), mainPc' \in {"start", "start2", "run"}
          PROVE  TypeOK'
      <4> DEFINE job == [num |-> Len(enq), mode |-> mode]
      <4>1. job \in Job
        BY <3>1, SizesAssumption DEF SizesAssumption, Push, Job, MainTypeOK
      <4>2. enq' = Append(enq, job) /\ slots' = [slots EXCEPT ![insertIdx] = job]
        BY <3>1 DEF Push
      <4> HIDE DEF job
      <4>3. insertIdx' \in 0..(QSize - 1)
        BY <3>1, SlotRange DEF Push, MainTypeOK
      <4>4. MainTypeOK'
        BY <3>1, <4>1, <4>2, <4>3 DEF Push, MainTypeOK
      <4>5. slots' \in [0..(QSize - 1) -> Job \cup {Null}] /\ numBackup' \in Nat
        <5>1. slots' \in [0..(QSize - 1) -> Job \cup {Null}]
          BY <4>1, <4>2 DEF SharedTypeOK
        <5>2. numBackup' \in Nat
          BY <3>1 DEF Push, SharedTypeOK
        <5> QED
          BY <5>1, <5>2
      <4>6. SharedTypeOK'
        BY <3>1, <4>5 DEF Push, SharedTypeOK
      <4> QED
        BY <3>1, <2>2, <2>3, <4>4, <4>6 DEF Push
    <3>2. CASE Startup
      <4>1. CASE NoSqliteFile
        BY <4>1, <2>2, <2>3 DEF NoSqliteFile, MainTypeOK, SharedTypeOK
      <4> QED
        BY <3>1, <3>2, <4>1 DEF Startup, Mode, MainTypeOK
    <3>3. ASSUME NEW arg \in {"r", "w"}, ConAddSqlServer(arg)
          PROVE  TypeOK'
      BY <3>1, <3>3 DEF ConAddSqlServer, Mode, MainTypeOK
    <3>4. CASE Execute \/ ExecuteWrite \/ DumpSqlServers
      BY <3>1, <3>4 DEF Execute, ExecuteWrite, DumpSqlServers, Mode, MainTypeOK
    <3>5. CASE OnShutdown \/ ShutdownReturns
      <4>1. MainTypeOK'
        BY <3>5 DEF OnShutdown, ShutdownReturns, MainTypeOK
      <4>2. numBackup' \in Nat
        BY <3>5 DEF OnShutdown, ShutdownReturns, SharedTypeOK
      <4>3. SharedTypeOK'
        BY <3>5, <4>2 DEF OnShutdown, ShutdownReturns, SharedTypeOK
      <4> QED
        BY <3>5, <4>1, <4>3, <2>2, <2>3 DEF OnShutdown, ShutdownReturns
    <3> QED
      BY <2>4, <3>2, <3>3, <3>4, <3>5 DEF Main
  <2>5. CASE Backup
    <3>1. CASE BackupTake
      <4>1. slots[bNum % QSize] \in Job \cup {Null}
        BY SlotRange DEF SharedTypeOK, BackupTypeOK
      <4>2. BackupTypeOK'
        BY <3>1, <4>1 DEF BackupTake, BackupTypeOK
      <4>3. SharedTypeOK'
        BY <3>1 DEF BackupTake, SharedTypeOK
      <4> QED
        BY <3>1, <4>2, <4>3, <2>1, <2>3 DEF BackupTake
    <3>2. CASE BackupExit
      BY <3>2, <2>1, <2>3 DEF BackupExit, SharedTypeOK, BackupTypeOK
    <3>3. CASE BackupPass
      <4>1. bCur.num \in 0..(MaxJobs - 1)
        BY <3>3 DEF BackupPass, BackupTypeOK, Job
      <4>2. bNum' \in Nat /\ saved' \subseteq 0..(MaxJobs - 1)
        <5>1. bNum' \in Nat
          BY <3>3 DEF BackupPass, BackupTypeOK
        <5>2. saved' = saved \/ saved' = saved \cup {bCur.num}
          BY <3>3, Zenon DEF BackupPass
        <5>3. saved' \subseteq 0..(MaxJobs - 1)
          BY <4>1, <5>2 DEF BackupTypeOK
        <5> QED
          BY <5>1, <5>3
      <4>3. bHasBackup' \in BOOLEAN
        BY <3>3 DEF BackupPass
      <4>4. BackupTypeOK'
        BY <3>3, <4>2, <4>3 DEF BackupPass, BackupTypeOK
      <4>5. SharedTypeOK'
        BY <3>3 DEF BackupPass, SharedTypeOK
      <4> QED
        BY <3>3, <4>4, <4>5, <2>1, <2>3 DEF BackupPass
    <3> QED
      BY <2>5, <3>1, <3>2, <3>3 DEF Backup
  <2>6. CASE Worker
    <3>1. ASSUME NEW result \in {"ok", "failed", "dismissed"}, Busy, Complete(result),
                 UNCHANGED <<mainVars, slots, numBackup, numWorker, shutdown, backupVars>>,
                 failMode' \in BOOLEAN, reads' \in Nat, hasWrite' \in BOOLEAN,
                 hasBackup' \in BOOLEAN
          PROVE  TypeOK'
      <4>1. done' \in Seq([job : Job, result : {"ok", "failed", "dismissed"}])
        BY <3>1 DEF Complete, WorkerTypeOK
      <4>2. wNum' \in Nat /\ wCur' \in (IF Busy' THEN Job ELSE {Null}) /\ wTry' \in Nat
        BY <3>1 DEF Complete, WorkerTypeOK, Busy
      <4>3. WorkerTypeOK'
        BY <3>1, <4>1, <4>2 DEF Complete, WorkerTypeOK
      <4>4. SharedTypeOK'
        BY <3>1 DEF SharedTypeOK
      <4> QED
        BY <3>1, <4>3, <4>4, <2>1, <2>2
    <3>2. CASE WorkerCheck
      BY <3>2, <2>1, <2>2 DEF WorkerCheck, SharedTypeOK, WorkerTypeOK, Busy
    <3>3. CASE WorkerTake
      <4>1. wNum % QSize \in 0..(QSize - 1)
        BY SlotRange DEF WorkerTypeOK
      <4>2. slots[wNum % QSize] \in Job
        BY <3>3, <4>1 DEF WorkerTake, SharedTypeOK
      <4>3. WorkerTypeOK'
        BY <3>3, <4>2 DEF WorkerTake, WorkerTypeOK, Busy
      <4>4. SharedTypeOK'
        BY <3>3, <4>1 DEF WorkerTake, SharedTypeOK
      <4> QED
        BY <3>3, <4>3, <4>4, <2>1, <2>2 DEF WorkerTake
    <3>4. CASE WorkerExit
      <4>1. WorkerTypeOK'
        BY <3>4 DEF WorkerExit, WorkerTypeOK, Busy
      <4>2. numWorker' \in Nat
        BY <3>4 DEF WorkerExit, SharedTypeOK
      <4>3. SharedTypeOK'
        BY <3>4, <4>2 DEF WorkerExit, SharedTypeOK
      <4> QED
        BY <3>4, <4>1, <4>3, <2>1, <2>2 DEF WorkerExit
    <3>5. ASSUME NEW ok \in BOOLEAN, WorkerRead(ok)
          PROVE  TypeOK'
      <4>1. CASE wTry < reads /\ ~shutdown /\ ~failMode /\ ~ok
        BY <3>5, <4>1, <2>1, <2>2 DEF WorkerRead, SharedTypeOK, WorkerTypeOK, Busy
      <4>2. CASE ~(wTry < reads /\ ~shutdown /\ ~failMode /\ ~ok)
        <5>1. PICK result \in {"ok", "failed", "dismissed"} : Complete(result)
          BY <3>5, <4>2 DEF WorkerRead
        <5>2. Busy /\ failMode' \in BOOLEAN
          BY <3>5, <4>2 DEF WorkerRead, WorkerTypeOK, Busy
        <5> QED
          BY <3>1, <3>5, <5>1, <5>2 DEF WorkerRead, WorkerTypeOK
      <4> QED
        BY <4>1, <4>2
    <3>6. ASSUME NEW ok \in BOOLEAN, WorkerWrite(ok)
          PROVE  TypeOK'
      BY <3>6, <2>1, <2>2 DEF WorkerWrite, SharedTypeOK, WorkerTypeOK, Busy
    <3>7. ASSUME NEW ok \in BOOLEAN, WorkerBackup(ok)
          PROVE  TypeOK'
      <4>1. PICK result \in {"ok", "failed", "dismissed"} : Complete(result)
        BY <3>7 DEF WorkerBackup
      <4> QED
        BY <3>1, <3>7, <4>1 DEF WorkerBackup, WorkerTypeOK, Busy
    <3>8. CASE WorkerOther
      BY <3>1, <3>8 DEF WorkerOther, WorkerTypeOK, Busy
    <3> QED
      BY <2>6, <3>2, <3>3, <3>4, <3>5, <3>6, <3>7, <3>8 DEF Worker
  <2>7. CASE UNCHANGED vars
    BY <2>7, <2>1, <2>2, <2>3 DEF vars, SharedTypeOK
  <2> QED
    BY <2>4, <2>5, <2>6, <2>7 DEF Next
<1> QED
  BY <1>1, <1>2, PTL DEF SafeSpec
-----------------------------------------------------------------------------
(***************************************************************************)
(* The inductive invariant.  RingHoldsBacklog alone is not inductive: that *)
(* the threads look at the right slots rests on how far each thread has    *)
(* come, which the counts of the semaphores tie together.                  *)
(***************************************************************************)
Closing == mainPc \in {"waiting", "stopped"}

\* Signals sent to and taken by the two threads.
SentToBackup == IF Closing THEN Len(enq) + 1 ELSE Len(enq)
TakenByBackup == IF bPc = "wait" THEN bNum ELSE bNum + 1
SentToWorker == IF bPc = "exited" THEN bNum + 1 ELSE bNum
TakenByWorker == IF Busy \/ wPc = "exited" THEN wNum + 1 ELSE wNum

CountInv ==
    /\ numBackup = SentToBackup - TakenByBackup
    /\ numWorker = SentToWorker - TakenByWorker
    /\ insertIdx = Len(enq) % QSize
    /\ Len(enq) <= MaxJobs
    /\ InSlots <= Backlog
    /\ Moved <= bNum
    /\ bNum <= Len(enq)

\* Each thread has in hand the job its counter says, and leaves only when it
\* has found the end marker behind the last job.
HandInv ==
    /\ bPc = "look" => bCur = IF bNum < Len(enq) THEN enq[bNum + 1] ELSE Null
    /\ bPc = "exited" => Closing /\ bNum = Len(enq)
    /\ Busy => wCur = enq[wNum + 1]
    /\ wPc = "exited" => bPc = "exited" /\ wNum = Len(enq)

HistoryInv ==
    /\ \A n \in 0..(Len(enq) - 1) : enq[n + 1].num = n
    /\ Len(done) = wNum
    /\ InOrderOnce

QueueInv == CountInv /\ HandInv /\ HistoryInv /\ RingHoldsBacklog

\* What the backup thread has shown to its database.
SavedInv ==
    /\ bHasBackup <=> \E m \in 0..(bNum - 1) : enq[m + 1].mode = "addbackup"
    /\ \A n \in 0..(bNum - 1) : BackedUp(n) => n \in saved

\* The ring stays right when a job is put in behind the last one,
LEMMA RingPush ==
    ASSUME NEW sl \in [0..(QSize - 1) -> Job \cup {Null}], NEW q \in Seq(Job),
           NEW lo \in Nat, lo <= Len(q), Len(q) - lo < QSize,
           NEW job \in Job, Ring(sl, q, lo)
    PROVE  Ring([sl EXCEPT ![Len(q) % QSize] = job], Append(q, job), lo)
<1> DEFINE s2 == [sl EXCEPT ![Len(q) % QSize] = job]
           q2 == Append(q, job)
<1>1. QSize \in Nat \ {0}
  BY SizesAssumption DEF SizesAssumption
<1>2. /\ Len(q) \in Nat
      /\ Len(q2) = Len(q) + 1
      /\ q2[Len(q) + 1] = job
      /\ \A n \in 0..(Len(q) - 1) : q2[n + 1] = q[n + 1]
  OBVIOUS
<1>3. Len(q) % QSize \in 0..(QSize - 1)
  BY <1>2, SlotRange
<1>4. /\ s2[Len(q) % QSize] = job
      /\ \A k \in 0..(QSize - 1) : k # Len(q) % QSize => s2[k] = sl[k]
  BY <1>3
<1> HIDE DEF s2, q2
<1>5. ASSUME NEW n \in lo..Len(q)
      PROVE  s2[n % QSize] = q2[n + 1]
  <2>1. CASE n = Len(q)
    BY <2>1, <1>2, <1>4
  <2>2. CASE n < Len(q)
    <3>1. n \in Nat /\ n \in lo..(Len(q) - 1) /\ Len(q) - n < QSize
      BY <2>2, <1>1, <1>2
    <3>2. n % QSize # Len(q) % QSize /\ n % QSize \in 0..(QSize - 1)
      BY <3>1, <2>2, <1>1, <1>2, ModDistinct, SlotRange
    <3>3. sl[n % QSize] = q[n + 1]
      BY <3>1 DEF Ring
    <3> QED
      BY <3>1, <3>2, <3>3, <1>2, <1>4
  <2> QED
    BY <2>1, <2>2, <1>2
<1>6. ASSUME NEW k \in 0..(QSize - 1), s2[k] # Null
      PROVE  \E n \in lo..Len(q) : k = n % QSize
  <2>1. CASE k = Len(q) % QSize
    BY <2>1, <1>2
  <2>2. CASE k # Len(q) % QSize
    <3>1. PICK n \in lo..(Len(q) - 1) : k = n % QSize
      BY <2>2, <1>4, <1>6 DEF Ring
    <3> QED
      BY <3>1, <1>2
  <2> QED
    BY <2>1, <2>2
<1>7. Len(q2) - 1 = Len(q)
  BY <1>2
<1>8. Ring(s2, q2, lo)
  BY <1>5, <1>6, <1>7 DEF Ring
<1> QED
  BY <1>8 DEF s2, q2

\* and when the oldest one is moved out;
LEMMA RingTake ==
    ASSUME NEW sl \in [0..(QSize - 1) -> Job \cup {Null}], NEW q \in Seq(Job),
           NEW lo \in Nat, lo < Len(q), Len(q) - lo < QSize, Ring(sl, q, lo)
    PROVE  /\ sl[lo % QSize] = q[lo + 1]
           /\ Ring([sl EXCEPT ![lo % QSize] = Null], q, lo + 1)
<1> DEFINE s2 == [sl EXCEPT ![lo % QSize] = Null]
<1>1. QSize \in Nat \ {0} /\ Len(q) \in Nat
  BY SizesAssumption DEF SizesAssumption
<1>2. lo % QSize \in 0..(QSize - 1)
  BY SlotRange
<1>3. /\ s2[lo % QSize] = Null
      /\ \A k \in 0..(QSize - 1) : k # lo % QSize => s2[k] = sl[k]
  BY <1>2
<1> HIDE DEF s2
<1>4. sl[lo % QSize] = q[lo + 1]
  BY <1>1 DEF Ring
<1>5. ASSUME NEW n \in (lo + 1)..(Len(q) - 1)
      PROVE  s2[n % QSize] = q[n + 1]
  <2>1. n \in Nat /\ n \in lo..(Len(q) - 1) /\ lo < n /\ n - lo < QSize
    BY <1>1
  <2>2. n % QSize # lo % QSize /\ n % QSize \in 0..(QSize - 1)
    BY <2>1, <1>1, ModDistinct, SlotRange
  <2>3. sl[n % QSize] = q[n + 1]
    BY <2>1 DEF Ring
  <2> QED
    BY <2>2, <2>3, <1>3
<1>6. ASSUME NEW k \in 0..(QSize - 1), s2[k] # Null
      PROVE  \E n \in (lo + 1)..(Len(q) - 1) : k = n % QSize
  <2>1. k # lo % QSize /\ sl[k] # Null
    BY <1>3, <1>6
  <2>2. PICK n \in lo..(Len(q) - 1) : k = n % QSize
    BY <2>1 DEF Ring
  <2>3. n # lo
    BY <2>1, <2>2
  <2>4. n \in (lo + 1)..(Len(q) - 1)
    BY <2>2, <2>3, <1>1
  <2> QED
    BY <2>2, <2>4
<1>7. Ring(s2, q, lo + 1)
  BY <1>5, <1>6 DEF Ring
<1> QED
  BY <1>4, <1>7 DEF s2

\* the slot behind the last job is empty.
LEMMA RingEnd ==
    ASSUME NEW sl \in [0..(QSize - 1) -> Job \cup {Null}], NEW q \in Seq(Job),
           NEW lo \in Nat, Len(q) - lo < QSize, Ring(sl, q, lo)
    PROVE  sl[Len(q) % QSize] = Null
<1>1. QSize \in Nat \ {0} /\ Len(q) \in Nat
  BY SizesAssumption DEF SizesAssumption
<1> SUFFICES ASSUME sl[Len(q) % QSize] # Null
             PROVE  FALSE
  OBVIOUS
<1>2. PICK n \in lo..(Len(q) - 1) : Len(q) % QSize = n % QSize
  BY <1>1, SlotRange DEF Ring
<1>3. n \in Nat /\ n < Len(q) /\ Len(q) - n < QSize
  <2> DEFINE k == Len(q)
  <2>1. n \in lo..(k - 1) /\ k \in Nat /\ lo \in Nat /\ QSize \in Nat /\ k - lo < QSize
    BY <1>1
  <2> HIDE DEF k
  <2>2. n \in Nat /\ n < k /\ k - n < QSize
    BY ONLY <2>1
  <2> QED
    BY <2>2 DEF k
<1> QED
  BY <1>1, <1>2, <1>3, ModDistinct

\* Where the threads are when the counts agree.
LEMMA QueueFacts ==
    ASSUME TypeOK, QueueInv
    PROVE  /\ Len(enq) \in Nat
           /\ Moved \in Nat
           /\ Moved <= bNum
           /\ bNum <= Len(enq)
           /\ Len(enq) - Moved < QSize
           /\ bPc = "look" /\ ~Closing => bNum < Len(enq)
           /\ Busy => wNum < bNum
           /\ wPc = "wait" /\ numWorker > 0 => wNum < bNum \/ bPc = "exited"
<1>1. /\ numBackup \in Nat /\ numWorker \in Nat /\ bNum \in Nat /\ wNum \in Nat
      /\ Len(enq) \in Nat /\ bPc \in {"wait", "look", "exited"}
  BY DEF TypeOK, MainTypeOK, SharedTypeOK, BackupTypeOK, WorkerTypeOK
<1>2. /\ numBackup = SentToBackup - TakenByBackup
      /\ numWorker = SentToWorker - TakenByWorker
      /\ Len(enq) - Moved <= Backlog
      /\ Moved <= bNum
      /\ bNum <= Len(enq)
  BY DEF QueueInv, CountInv, InSlots
<1>3. Moved \in Nat /\ Len(enq) - Moved < QSize
  BY <1>1, <1>2, SizesAssumption, RoomAssumption DEF Moved, SizesAssumption
<1>4. bPc = "look" /\ ~Closing => bNum < Len(enq)
  BY <1>1, <1>2 DEF SentToBackup, TakenByBackup
<1>5. Busy => wNum < bNum
  BY <1>1, <1>2 DEF Moved
<1>6. wPc = "wait" /\ numWorker > 0 => wNum < bNum \/ bPc = "exited"
  BY <1>1, <1>2 DEF SentToWorker, TakenByWorker, Busy
<1> QED
  BY <1>1, <1>2, <1>3, <1>4, <1>5, <1>6

\* One lemma per kind of step: every request the main thread makes,
LEMMA PushKeepsQueue ==
    ASSUME TypeOK, QueueInv, NEW mode \in Mode, Push(mode), ~Closing, ~Closing'
    PROVE  QueueInv'
<1> DEFINE job == [num |-> Len(enq), mode |-> mode]
<1>1. /\ Len(enq) \in Nat /\ Moved \in Nat /\ Moved <= bNum /\ bNum <= Len(enq)
      /\ Len(enq) - Moved < QSize
      /\ bPc = "look" => bNum < Len(enq)
      /\ Busy => wNum < bNum
  BY QueueFacts
<1>2. /\ numBackup \in Nat /\ bNum \in Nat /\ wNum \in Nat /\ enq \in Seq(Job)
      /\ insertIdx \in Nat
      /\ slots \in [0..(QSize - 1) -> Job \cup {Null}]
      /\ Len(done) \in Nat
  BY DEF TypeOK, MainTypeOK, SharedTypeOK, BackupTypeOK, WorkerTypeOK
<1>3. /\ numBackup = SentToBackup - TakenByBackup
      /\ numWorker = SentToWorker - TakenByWorker
      /\ insertIdx = Len(enq) % QSize
      /\ Len(enq) - Moved <= Backlog
  BY DEF QueueInv, CountInv, InSlots
<1>4. /\ job \in Job
      /\ enq' = Append(enq, job)
      /\ slots' = [slots EXCEPT ![Len(enq) % QSize] = job]
  BY <1>1, <1>3, SizesAssumption DEF Push, Job, SizesAssumption
<1>5. /\ UNCHANGED <<numWorker, bPc, bNum, bCur, wPc, wNum, wCur, done>>
      /\ Len(enq) < MaxJobs /\ Len(enq) - Moved < Backlog
      /\ numBackup' = numBackup + 1
      /\ insertIdx' = (insertIdx + 1) % QSize
  BY DEF Push, backupVars, workerVars, InSlots
<1>6. /\ Len(enq') = Len(enq) + 1
      /\ enq'[Len(enq) + 1] = job
      /\ \A n \in 0..(Len(enq) - 1) : enq'[n + 1] = enq[n + 1]
  BY <1>1, <1>2, <1>4
<1>7. Moved' = Moved /\ (Busy' <=> Busy)
  BY <1>5 DEF Moved, Busy
<1>8. job.num = Len(enq)
  OBVIOUS
<1> HIDE DEF job
<1>9. CountInv'
  <2>1. insertIdx' = Len(enq') % QSize
    BY <1>1, <1>3, <1>5, <1>6, ModNext, SizesAssumption DEF SizesAssumption
  <2>2. numBackup' = SentToBackup' - TakenByBackup'
    BY <1>1, <1>2, <1>3, <1>5, <1>6 DEF SentToBackup, TakenByBackup
  <2>3. numWorker' = SentToWorker' - TakenByWorker'
    BY <1>3, <1>5, <1>7 DEF SentToWorker, TakenByWorker
  <2>4. Len(enq') <= MaxJobs /\ Len(enq') - Moved' <= Backlog /\ Moved' <= bNum' /\ bNum' <= Len(enq')
    BY <1>1, <1>2, <1>5, <1>6, <1>7, SizesAssumption DEF SizesAssumption
  <2> QED
    BY <2>1, <2>2, <2>3, <2>4 DEF CountInv, InSlots
<1>10. HandInv'
  <2>1. bPc' = "look" => bCur' = IF bNum' < Len(enq') THEN enq'[bNum' + 1] ELSE Null
    BY <1>1, <1>2, <1>5, <1>6 DEF QueueInv, HandInv
  <2>2. ~(bPc = "exited") /\ ~(wPc = "exited")
    BY DEF QueueInv, HandInv
  <2>3. Busy' => wCur' = enq'[wNum' + 1]
    BY <1>1, <1>2, <1>5, <1>6, <1>7 DEF QueueInv, HandInv
  <2> QED
    BY <2>1, <2>2, <2>3, <1>5 DEF HandInv
<1>11. HistoryInv'
  <2>1. \A n \in 0..(Len(enq') - 1) : enq'[n + 1].num = n
    BY <1>1, <1>6, <1>8 DEF QueueInv, HistoryInv
  <2>2. \A i \in 1..Len(done) : i <= Len(enq) /\ done[i].job = enq[i]
    BY DEF QueueInv, HistoryInv, InOrderOnce
  <2>3. \A i \in 1..Len(done) : i <= Len(enq') /\ done[i].job = enq'[i]
    BY <2>2, <1>1, <1>2, <1>4, <1>6
  <2> QED
    BY <2>1, <2>3, <1>5 DEF QueueInv, HistoryInv, InOrderOnce
<1>12. RingHoldsBacklog'
  <2>1. Ring(slots', enq', Moved)
    <3>1. Ring(slots, enq, Moved) /\ Moved <= Len(enq)
      BY <1>1, <1>2 DEF QueueInv, RingHoldsBacklog
    <3> QED
      BY <3>1, <1>1, <1>2, <1>4, RingPush, Zenon
  <2> QED
    BY <2>1, <1>7 DEF RingHoldsBacklog, Ring
<1> QED
  BY <1>9, <1>10, <1>11, <1>12 DEF QueueInv

\* the call of OnShutdown and its return,
LEMMA ShutdownKeepsQueue ==
    ASSUME TypeOK, QueueInv, OnShutdown \/ ShutdownReturns
    PROVE  QueueInv'
<1>1. /\ numBackup \in Nat /\ bNum \in Nat /\ Len(enq) \in Nat
      /\ bPc = "look" /\ ~Closing => bNum < Len(enq)
  BY QueueFacts DEF TypeOK, SharedTypeOK, BackupTypeOK
<1>2. /\ UNCHANGED <<insertIdx, slots, numWorker, bPc, bNum, bCur, wPc, wNum, wCur, enq, done>>
      /\ Closing'
  BY DEF OnShutdown, ShutdownReturns, backupVars, workerVars, Closing
<1>3. numBackup' = SentToBackup' - TakenByBackup'
  <2>1. CASE OnShutdown
    BY <2>1, <1>1, <1>2 DEF OnShutdown, QueueInv, CountInv, SentToBackup, TakenByBackup, Closing
  <2>2. CASE ShutdownReturns
    BY <2>2, <1>1, <1>2
    DEF ShutdownReturns, QueueInv, CountInv, SentToBackup, TakenByBackup, Closing
  <2> QED
    BY <2>1, <2>2
<1>4. Moved' = Moved /\ (Busy' <=> Busy)
  BY <1>2 DEF Moved, Busy
<1>5. CountInv'
  BY <1>2, <1>3, <1>4 DEF QueueInv, CountInv, InSlots, SentToWorker, TakenByWorker
<1>6. HandInv'
  BY <1>2, <1>4 DEF QueueInv, HandInv
<1>7. HistoryInv' /\ RingHoldsBacklog'
  BY <1>2, <1>4 DEF QueueInv, HistoryInv, InOrderOnce, RingHoldsBacklog, Ring
<1> QED
  BY <1>5, <1>6, <1>7 DEF QueueInv

\* the steps of the backup thread,
LEMMA BackupKeepsQueue ==
    ASSUME TypeOK, QueueInv, Backup
    PROVE  QueueInv'
<1>1. /\ Len(enq) \in Nat /\ Moved \in Nat /\ Moved <= bNum /\ bNum <= Len(enq)
      /\ Len(enq) - Moved < QSize
      /\ bPc = "look" /\ ~Closing => bNum < Len(enq)
  BY QueueFacts
<1>2. /\ numBackup \in Nat /\ bNum \in Nat /\ wNum \in Nat /\ numWorker \in Nat
      /\ enq \in Seq(Job) /\ slots \in [0..(QSize - 1) -> Job \cup {Null}]
  BY DEF TypeOK, MainTypeOK, SharedTypeOK, BackupTypeOK, WorkerTypeOK
<1>3. /\ UNCHANGED <<mainPc, insertIdx, slots, wPc, wNum, wCur, enq, done>>
  BY DEF Backup, BackupTake, BackupExit, BackupPass, mainVars, workerVars
<1>4. Moved' = Moved /\ (Busy' <=> Busy) /\ (Closing' <=> Closing)
  BY <1>3 DEF Moved, Busy, Closing
<1>5. HistoryInv' /\ RingHoldsBacklog'
  BY <1>3, <1>4 DEF QueueInv, HistoryInv, InOrderOnce, RingHoldsBacklog, Ring
<1>6. CASE BackupTake
  <2>1. /\ bPc = "wait" /\ bPc' = "look" /\ numBackup > 0 /\ numBackup' = numBackup - 1
        /\ bCur' = slots[bNum % QSize] /\ bNum' = bNum /\ numWorker' = numWorker
    BY <1>6 DEF BackupTake
  <2>2. CountInv'
    BY <2>1, <1>1, <1>2, <1>3, <1>4
    DEF QueueInv, CountInv, InSlots, SentToBackup, TakenByBackup, SentToWorker, TakenByWorker
  <2>3. Ring(slots, enq, Moved)
    BY DEF QueueInv, RingHoldsBacklog
  <2>4. bNum < Len(enq) => bCur' = enq[bNum + 1]
    BY <2>1, <2>3, <1>1, <1>2 DEF Ring
  <2>5. bNum = Len(enq) => bCur' = Null
    BY <2>1, <2>3, <1>1, <1>2, RingEnd
  <2>6. bCur' = IF bNum' < Len(enq') THEN enq'[bNum' + 1] ELSE Null
    BY <2>1, <2>4, <2>5, <1>1, <1>2, <1>3
  <2>7. HandInv'
    BY <2>1, <2>6, <1>3, <1>4 DEF QueueInv, HandInv
  <2> QED
    BY <2>2, <2>7, <1>5 DEF QueueInv
<1>7. CASE BackupExit
  <2>1. /\ bPc = "look" /\ bPc' = "exited" /\ bCur = Null
        /\ bNum' = bNum /\ numBackup' = numBackup /\ numWorker' = numWorker + 1
    BY <1>7 DEF BackupExit
  <2>2. bNum = Len(enq)
    <3>1. bNum < Len(enq) => enq[bNum + 1] \in Job
      BY <1>1, <1>2
    <3>2. Null \notin Job
      BY SizesAssumption DEF Null, Job, SizesAssumption
    <3> QED
      BY <2>1, <3>1, <3>2, <1>1, <1>2 DEF QueueInv, HandInv
  <2>3. Closing
    BY <2>1, <2>2, <1>1, <1>2
  <2>4. CountInv'
    <3>1. TakenByWorker' = TakenByWorker /\ TakenByWorker \in Nat
      BY <1>2, <1>3, <1>4 DEF TakenByWorker
    <3>2. numWorker' = SentToWorker' - TakenByWorker'
      BY <2>1, <3>1, <1>2 DEF QueueInv, CountInv, SentToWorker
    <3>3. numBackup' = SentToBackup' - TakenByBackup'
      BY <2>1, <1>2, <1>3, <1>4 DEF QueueInv, CountInv, SentToBackup, TakenByBackup
    <3>4. Moved' <= bNum' /\ bNum' <= Len(enq')
      BY <2>1, <1>1, <1>2, <1>3, <1>4
    <3> QED
      BY <3>2, <3>3, <3>4, <1>3, <1>4 DEF QueueInv, CountInv, InSlots
  <2>5. HandInv'
    BY <2>1, <2>2, <2>3, <1>3, <1>4 DEF QueueInv, HandInv
  <2> QED
    BY <2>4, <2>5, <1>5 DEF QueueInv
<1>8. CASE BackupPass
  <2>1. /\ bPc = "look" /\ bPc' = "wait" /\ bCur # Null
        /\ bNum' = bNum + 1 /\ numBackup' = numBackup /\ numWorker' = numWorker + 1
    BY <1>8 DEF BackupPass
  <2>2. bNum < Len(enq)
    BY <2>1, <1>1, <1>2 DEF QueueInv, HandInv
  <2>3. CountInv'
    <3>1. TakenByWorker' = TakenByWorker /\ TakenByWorker \in Nat
      BY <1>2, <1>3, <1>4 DEF TakenByWorker
    <3>2. numWorker' = SentToWorker' - TakenByWorker'
      BY <2>1, <3>1, <1>2 DEF QueueInv, CountInv, SentToWorker
    <3>3. numBackup' = SentToBackup' - TakenByBackup'
      BY <2>1, <1>2, <1>3, <1>4 DEF QueueInv, CountInv, SentToBackup, TakenByBackup
    <3>4. Moved' <= bNum' /\ bNum' <= Len(enq')
      BY <2>1, <2>2, <1>1, <1>2, <1>3, <1>4
    <3> QED
      BY <3>2, <3>3, <3>4, <1>3, <1>4 DEF QueueInv, CountInv, InSlots
  <2>4. HandInv'
    BY <2>1, <1>3, <1>4 DEF QueueInv, HandInv
  <2> QED
    BY <2>3, <2>4, <1>5 DEF QueueInv
<1> QED
  BY <1>6, <1>7, <1>8 DEF Backup

\* and the steps of the worker: those that neither take nor finish a job,
LEMMA IdleKeepsQueue ==
    ASSUME TypeOK, QueueInv,
           UNCHANGED <<insertIdx, slots, numBackup, numWorker, bPc, bNum, bCur,
                       wNum, wCur, enq, done>>,
           Closing' <=> Closing, Busy' <=> Busy, (wPc' = "exited") <=> (wPc = "exited")
    PROVE  QueueInv'
<1>1. Moved' = Moved /\ (Closing' <=> Closing)
  BY DEF Moved
<1>2. CountInv'
  BY <1>1
  DEF QueueInv, CountInv, InSlots, SentToBackup, TakenByBackup, SentToWorker, TakenByWorker
<1>3. HandInv'
  BY <1>1 DEF QueueInv, HandInv
<1>4. HistoryInv' /\ RingHoldsBacklog'
  BY <1>1 DEF QueueInv, HistoryInv, InOrderOnce, RingHoldsBacklog, Ring
<1> QED
  BY <1>2, <1>3, <1>4 DEF QueueInv

\* the one that takes the next job out of its slot,
LEMMA TakeKeepsQueue ==
    ASSUME TypeOK, QueueInv, WorkerTake
    PROVE  QueueInv' /\ wNum < bNum
<1>1. /\ Len(enq) \in Nat /\ Moved \in Nat /\ Moved <= bNum /\ bNum <= Len(enq)
      /\ Len(enq) - Moved < QSize
      /\ wPc = "wait" /\ numWorker > 0 => wNum < bNum \/ bPc = "exited"
  BY QueueFacts
<1>2. /\ bNum \in Nat /\ wNum \in Nat /\ numWorker \in Nat
      /\ enq \in Seq(Job) /\ slots \in [0..(QSize - 1) -> Job \cup {Null}]
  BY DEF TypeOK, MainTypeOK, SharedTypeOK, BackupTypeOK, WorkerTypeOK
<1>3. /\ wPc = "wait" /\ numWorker > 0 /\ slots[wNum % QSize] # Null
      /\ wPc' \in {"read", "write", "other"}
      /\ wCur' = slots[wNum % QSize]
      /\ numWorker' = numWorker - 1
      /\ slots' = [slots EXCEPT ![wNum % QSize] = Null]
      /\ UNCHANGED <<mainPc, insertIdx, numBackup, bPc, bNum, bCur, wNum, enq, done>>
  BY DEF WorkerTake, mainVars, backupVars
<1>4. ~Busy /\ Busy' /\ Moved = wNum /\ Moved' = wNum + 1 /\ (Closing' <=> Closing)
  BY <1>3 DEF Moved, Busy, Closing
<1>5. Ring(slots, enq, wNum)
  BY <1>4 DEF QueueInv, RingHoldsBacklog
<1>6. wNum < Len(enq)
  <2>1. slots[Len(enq) % QSize] = Null
    BY <1>1, <1>2, <1>4, <1>5, RingEnd
  <2>2. wNum <= Len(enq) /\ wNum # Len(enq)
    BY <2>1, <1>1, <1>2, <1>3, <1>4
  <2> QED
    BY <2>2, <1>1, <1>2
<1>7. wNum < bNum
  BY <1>1, <1>3, <1>6 DEF QueueInv, HandInv
<1>8. slots[wNum % QSize] = enq[wNum + 1] /\ Ring(slots', enq, wNum + 1)
  BY <1>1, <1>2, <1>3, <1>4, <1>5, <1>6, RingTake
<1>9. CountInv'
  <2>1. numWorker' = SentToWorker' - TakenByWorker'
    BY <1>2, <1>3, <1>4 DEF QueueInv, CountInv, SentToWorker, TakenByWorker
  <2>2. numBackup' = SentToBackup' - TakenByBackup'
    BY <1>3, <1>4 DEF QueueInv, CountInv, SentToBackup, TakenByBackup
  <2>3. Moved' <= bNum' /\ Len(enq') - Moved' <= Backlog
    BY <1>1, <1>2, <1>3, <1>4, <1>7, SizesAssumption
    DEF QueueInv, CountInv, InSlots, SizesAssumption
  <2> QED
    BY <2>1, <2>2, <2>3, <1>3 DEF QueueInv, CountInv, InSlots
<1>10. HandInv'
  BY <1>3, <1>4, <1>8 DEF QueueInv, HandInv
<1>11. HistoryInv'
  BY <1>3 DEF QueueInv, HistoryInv, InOrderOnce
<1>12. RingHoldsBacklog'
  BY <1>3, <1>4, <1>8 DEF RingHoldsBacklog, Ring
<1> QED
  BY <1>7, <1>9, <1>10, <1>11, <1>12 DEF QueueInv

\* the one that finds the end marker,
LEMMA ExitKeepsQueue ==
    ASSUME TypeOK, QueueInv, WorkerExit
    PROVE  QueueInv'
<1>1. /\ Len(enq) \in Nat /\ Moved \in Nat /\ Moved <= bNum /\ bNum <= Len(enq)
      /\ Len(enq) - Moved < QSize
      /\ wPc = "wait" /\ numWorker > 0 => wNum < bNum \/ bPc = "exited"
  BY QueueFacts
<1>2. /\ bNum \in Nat /\ wNum \in Nat /\ numWorker \in Nat
      /\ enq \in Seq(Job) /\ slots \in [0..(QSize - 1) -> Job \cup {Null}]
  BY DEF TypeOK, MainTypeOK, SharedTypeOK, BackupTypeOK, WorkerTypeOK
<1>3. /\ wPc = "wait" /\ numWorker > 0 /\ slots[wNum % QSize] = Null
      /\ wPc' = "exited"
      /\ numWorker' = numWorker - 1
      /\ UNCHANGED <<mainPc, insertIdx, slots, numBackup, bPc, bNum, bCur, wNum, wCur, enq, done>>
  BY DEF WorkerExit, mainVars, backupVars
<1>4. ~Busy /\ ~Busy' /\ Moved = wNum /\ Moved' = wNum /\ (Closing' <=> Closing)
  BY <1>3 DEF Moved, Busy, Closing
<1>5. Ring(slots, enq, wNum)
  BY <1>4 DEF QueueInv, RingHoldsBacklog
<1>6. wNum = Len(enq)
  <2> SUFFICES ASSUME wNum < Len(enq)
               PROVE  FALSE
    BY <1>1, <1>2, <1>4
  <2>1. slots[wNum % QSize] = enq[wNum + 1]
    BY <1>1, <1>2, <1>5 DEF Ring
  <2>2. enq[wNum + 1] \in Job
    BY <1>1, <1>2
  <2> QED
    BY <2>1, <2>2, <1>3, SizesAssumption DEF Null, Job, SizesAssumption
<1>7. bPc = "exited"
  BY <1>1, <1>2, <1>3, <1>6
<1>8. CountInv'
  <2>1. numWorker' = SentToWorker' - TakenByWorker'
    BY <1>2, <1>3, <1>4 DEF QueueInv, CountInv, SentToWorker, TakenByWorker
  <2>2. numBackup' = SentToBackup' - TakenByBackup'
    BY <1>3, <1>4 DEF QueueInv, CountInv, SentToBackup, TakenByBackup
  <2> QED
    BY <2>1, <2>2, <1>3, <1>4 DEF QueueInv, CountInv, InSlots
<1>9. HandInv'
  BY <1>3, <1>4, <1>6, <1>7 DEF QueueInv, HandInv
<1>10. HistoryInv' /\ RingHoldsBacklog'
  BY <1>3, <1>4 DEF QueueInv, HistoryInv, InOrderOnce, RingHoldsBacklog, Ring
<1> QED
  BY <1>8, <1>9, <1>10 DEF QueueInv

\* and those that finish one.
LEMMA CompleteKeepsQueue ==
    ASSUME TypeOK, QueueInv, Busy, NEW result, Complete(result),
           UNCHANGED <<mainPc, insertIdx, slots, numBackup, numWorker, bPc, bNum, bCur, enq>>
    PROVE  QueueInv'
<1>1. /\ Len(enq) \in Nat /\ bNum <= Len(enq) /\ wNum < bNum
  BY QueueFacts
<1>2. /\ bNum \in Nat /\ wNum \in Nat /\ wCur \in Job
      /\ done \in Seq([job : Job, result : {"ok", "failed", "dismissed"}])
  BY DEF TypeOK, BackupTypeOK, WorkerTypeOK
<1>3. /\ wNum' = wNum + 1 /\ wPc' = "top"
      /\ done' = Append(done, [job |-> wCur, result |-> result])
  BY DEF Complete
<1>4. /\ ~Busy' /\ wPc' # "exited" /\ wPc # "exited"
      /\ Moved = wNum + 1 /\ Moved' = wNum + 1 /\ (Closing' <=> Closing)
  BY <1>3 DEF Moved, Busy, Closing
<1>5. CountInv'
  BY <1>3, <1>4
  DEF QueueInv, CountInv, InSlots, SentToBackup, TakenByBackup, SentToWorker, TakenByWorker
<1>6. HandInv'
  BY <1>4 DEF QueueInv, HandInv
<1>7. HistoryInv'
  <2>1. Len(done) = wNum /\ wCur = enq[wNum + 1]
    BY DEF QueueInv, HistoryInv, HandInv
  <2>2. Len(done') = wNum + 1 /\ done'[wNum + 1].job = enq[wNum + 1]
    BY <2>1, <1>2, <1>3
  <2>3. \A i \in 1..wNum : done'[i] = done[i]
    BY <2>1, <1>2, <1>3
  <2>4. \A i \in 1..wNum : i <= Len(enq) /\ done[i].job = enq[i]
    BY <2>1 DEF QueueInv, HistoryInv, InOrderOnce
  <2>5. \A i \in 1..(wNum + 1) : i <= Len(enq) /\ done'[i].job = enq[i]
    BY <2>2, <2>3, <2>4, <1>1, <1>2
  <2> QED
    BY <2>2, <2>5, <1>3 DEF QueueInv, HistoryInv, InOrderOnce
<1>8. RingHoldsBacklog'
  BY <1>4 DEF QueueInv, RingHoldsBacklog, Ring
<1> QED
  BY <1>5, <1>6, <1>7, <1>8 DEF QueueInv

\* The counts, the jobs in hand, the history and the ring agree in every state.
THEOREM QueueCorrect == SafeSpec => []QueueInv
<1>1. Init => QueueInv
  <2> SUFFICES ASSUME Init PROVE QueueInv
    OBVIOUS
  <2>1. Len(enq) = 0 /\ Len(done) = 0 /\ ~Closing /\ ~Busy
    BY DEF Init, Closing, Busy
  <2>2. 0 = 0 % QSize
    BY ModZero, SizesAssumption DEF SizesAssumption
  <2>3. CountInv
    <3>1. /\ numBackup = 0 /\ numWorker = 0 /\ insertIdx = 0 /\ bNum = 0 /\ wNum = 0
          /\ bPc = "wait" /\ wPc = "top"
      BY DEF Init
    <3>2. /\ SentToBackup = 0 /\ TakenByBackup = 0 /\ SentToWorker = 0 /\ TakenByWorker = 0
          /\ Moved = 0
      BY <2>1, <3>1 DEF SentToBackup, TakenByBackup, SentToWorker, TakenByWorker, Moved
    <3> QED
      BY <2>1, <2>2, <3>1, <3>2, SizesAssumption DEF CountInv, InSlots, SizesAssumption
  <2>4. HandInv /\ HistoryInv
    BY <2>1 DEF Init, HandInv, HistoryInv, InOrderOnce
  <2>5. RingHoldsBacklog
    BY <2>1 DEF Init, RingHoldsBacklog, Ring, Moved
  <2> QED
    BY <2>3, <2>4, <2>5 DEF QueueInv
<1>2. TypeOK /\ QueueInv /\ [Next]_vars => QueueInv'
  <2> SUFFICES ASSUME TypeOK, QueueInv, [Next]_vars
               PROVE  QueueInv'
    OBVIOUS
  <2>1. CASE Main
    <3>1. CASE Startup
      <4>1. CASE NoSqliteFile
        <5>1. (Closing' <=> Closing) /\ (Busy' <=> Busy)
          BY <4>1 DEF NoSqliteFile, workerVars, Closing, Busy
        <5> QED
          BY <4>1, <5>1, IdleKeepsQueue DEF NoSqliteFile, workerVars, backupVars
      <4> QED
        BY <3>1, <4>1, PushKeepsQueue DEF Startup, Mode, Closing
    <3>2. ASSUME NEW arg \in {"r", "w"}, ConAddSqlServer(arg)
          PROVE  QueueInv'
      BY <3>2, PushKeepsQueue DEF ConAddSqlServer, Mode, Closing
    <3>3. CASE Execute \/ ExecuteWrite \/ DumpSqlServers
      BY <3>3, PushKeepsQueue DEF Execute, ExecuteWrite, DumpSqlServers, Mode, Closing
    <3> QED
      BY <2>1, <3>1, <3>2, <3>3, ShutdownKeepsQueue DEF Main
  <2>2. CASE Backup
    BY <2>2, BackupKeepsQueue
  <2>3. CASE Worker
    <3>1. CASE WorkerCheck
      BY <3>1, IdleKeepsQueue DEF WorkerCheck, mainVars, backupVars, Busy, Closing
    <3>2. CASE WorkerTake
      BY <3>2, TakeKeepsQueue
    <3>3. CASE WorkerExit
      BY <3>3, ExitKeepsQueue
    <3>4. ASSUME NEW ok \in BOOLEAN, WorkerRead(ok)
          PROVE  QueueInv'
      <4>1. /\ UNCHANGED <<mainPc, insertIdx, slots, numBackup, numWorker, bPc, bNum, bCur, enq>>
            /\ Busy
        BY <3>4 DEF WorkerRead, mainVars, backupVars, Busy
      <4>2. CASE \E result \in {"ok", "failed", "dismissed"} : Complete(result)
        BY <4>1, <4>2, CompleteKeepsQueue
      <4>3. CASE UNCHANGED <<wPc, wNum, wCur, done>>
        BY <4>1, <4>3, IdleKeepsQueue DEF Busy, Closing
      <4> QED
        BY <3>4, <4>2, <4>3 DEF WorkerRead
    <3>5. ASSUME NEW ok \in BOOLEAN, WorkerWrite(ok)
          PROVE  QueueInv'
      BY <3>5, IdleKeepsQueue DEF WorkerWrite, mainVars, backupVars, Busy, Closing
    <3>6. ASSUME NEW ok \in BOOLEAN, WorkerBackup(ok)
          PROVE  QueueInv'
      BY <3>6, CompleteKeepsQueue DEF WorkerBackup, mainVars, backupVars, Busy
    <3>7. CASE WorkerOther
      BY <3>7, CompleteKeepsQueue DEF WorkerOther, mainVars, backupVars, Busy
    <3> QED
      BY <2>3, <3>1, <3>2, <3>3, <3>4, <3>5, <3>6, <3>7 DEF Worker
  <2>4. CASE UNCHANGED vars
    BY <2>4, IdleKeepsQueue DEF vars, mainVars, backupVars, workerVars, Busy, Closing
  <2> QED
    BY <2>1, <2>2, <2>3, <2>4 DEF Next
<1> QED
  BY <1>1, <1>2, TypeCorrect, PTL DEF SafeSpec

\* The threads only ever see the jobs that are due.
THEOREM RingCorrect == SafeSpec => []RingHoldsBacklog
<1>1. QueueInv => RingHoldsBacklog
  BY DEF QueueInv
<1> QED
  BY <1>1, QueueCorrect, PTL

\* Jobs are finished once each, in the order of insertion.
THEOREM OrderCorrect == SafeSpec => []InOrderOnce
<1>1. QueueInv => InOrderOnce
  BY DEF QueueInv, HistoryInv
<1> QED
  BY <1>1, QueueCorrect, PTL

\* The worker leaves only when the server shuts down and no job is left.
THEOREM DrainCorrect == SafeSpec => []DrainedAtExit
<1>1. QueueInv => DrainedAtExit
  BY DEF QueueInv, HistoryInv, HandInv, DrainedAtExit, Closing
<1> QED
  BY <1>1, QueueCorrect, PTL
-----------------------------------------------------------------------------
\* Before the worker touches a write, the backup thread has shown it to the
\* backup database.
THEOREM BackupCorrect == SafeSpec => []BackupFirst
<1>1. Init => SavedInv
  BY DEF Init, SavedInv
<1>2. TypeOK /\ QueueInv /\ SavedInv /\ [Next]_vars => SavedInv'
  <2> SUFFICES ASSUME TypeOK, QueueInv, SavedInv, [Next]_vars
               PROVE  SavedInv'
    OBVIOUS
  <2>1. /\ Len(enq) \in Nat /\ bNum \in Nat /\ bNum <= Len(enq) /\ enq \in Seq(Job)
    BY QueueFacts DEF TypeOK, MainTypeOK, BackupTypeOK
  <2>2. \A n \in 0..(bNum - 1) : enq'[n + 1] = enq[n + 1]
    <3>1. CASE UNCHANGED enq
      BY <3>1
    <3>2. ASSUME NEW mode \in Mode, Push(mode)
          PROVE  \A n \in 0..(bNum - 1) : enq'[n + 1] = enq[n + 1]
      <4>1. PICK job : enq' = Append(enq, job)
        BY <3>2 DEF Push
      <4> QED
        BY <4>1, <2>1
    <3> QED
      BY <3>1, <3>2
      DEF Next, Main, Startup, NoSqliteFile, ConAddSqlServer,
          Execute, ExecuteWrite, DumpSqlServers, OnShutdown,
          ShutdownReturns, Backup, BackupTake, BackupExit, BackupPass, Worker, WorkerCheck,
          WorkerTake, WorkerExit, WorkerRead, WorkerWrite, WorkerBackup, WorkerOther,
          vars, mainVars, Mode
  <2>3. \A n \in 0..(bNum - 1) : BackedUp(n)' <=> BackedUp(n)
    <3> TAKE n \in 0..(bNum - 1)
    <3>1. enq'[n + 1] = enq[n + 1]
      BY <2>2
    <3>2. \A m \in 0..(n - 1) : m \in 0..(bNum - 1)
      BY <2>1
    <3>3. \A m \in 0..(n - 1) : enq'[m + 1] = enq[m + 1]
      BY <2>2, <3>2, Zenon
    <3>4. (\E m \in 0..(n - 1) : enq'[m + 1].mode = "addbackup")
          <=> (\E m \in 0..(n - 1) : enq[m + 1].mode = "addbackup")
      BY <3>3, Zenon
    <3> QED
      BY <3>1, <3>4, Zenon DEF BackedUp
  <2>4. CASE BackupPass
    <3>1. /\ bCur # Null /\ bPc = "look" /\ bNum' = bNum + 1 /\ enq' = enq
          /\ bHasBackup' <=> bHasBackup \/ bCur.mode = "addbackup"
          /\ saved' = IF bCur.mode = "write" /\ bHasBackup THEN saved \cup {bCur.num} ELSE saved
      BY <2>4 DEF BackupPass, mainVars
    <3>2. bNum < Len(enq) /\ bCur = enq[bNum + 1] /\ bCur.num = bNum
      BY <3>1, <2>1 DEF QueueInv, HandInv, HistoryInv
    <3>3. bHasBackup' <=> \E m \in 0..bNum : enq[m + 1].mode = "addbackup"
      <4>1. \A m : m \in 0..bNum <=> m \in 0..(bNum - 1) \/ m = bNum
        BY <2>1
      <4> QED
        BY <3>1, <3>2, <4>1, Zenon DEF SavedInv
    <3>4. \A n \in 0..(bNum - 1) : BackedUp(n) => n \in saved'
      BY <3>1 DEF SavedInv
    <3>5. BackedUp(bNum) => bNum \in saved'
      BY <3>1, <3>2 DEF SavedInv, BackedUp
    <3>6. \A n \in 0..bNum : BackedUp(n) => n \in saved'
      BY <3>4, <3>5, <2>1
    <3>7. bNum' - 1 = bNum
      BY <3>1, <2>1
    <3>8. \A n : BackedUp(n)' <=> BackedUp(n)
      BY <3>1 DEF BackedUp
    <3> QED
      BY <3>1, <3>3, <3>6, <3>7, <3>8 DEF SavedInv
  <2>5. CASE ~BackupPass
    <3>1. UNCHANGED <<bHasBackup, saved, bNum>>
      BY <2>5
      DEF Next, Main, Startup, NoSqliteFile, ConAddSqlServer,
          Execute, ExecuteWrite, DumpSqlServers, Push, OnShutdown,
          ShutdownReturns, Backup, BackupTake, BackupExit, Worker, WorkerCheck,
          WorkerTake, WorkerExit, WorkerRead, WorkerWrite, WorkerBackup, WorkerOther,
          vars, backupVars
    <3> QED
      BY <3>1, <2>2, <2>3 DEF SavedInv
  <2> QED
    BY <2>4, <2>5
<1>3. TypeOK /\ QueueInv /\ SavedInv => BackupFirst
  <2> SUFFICES ASSUME TypeOK, QueueInv, SavedInv, wPc \in {"write", "backup"}, BackedUp(wNum)
               PROVE  wCur.num \in saved
    BY DEF BackupFirst
  <2>1. Busy /\ wNum < bNum /\ bNum <= Len(enq) /\ Len(enq) \in Nat /\ bNum \in Nat /\ wNum \in Nat
    BY QueueFacts DEF Busy, TypeOK, BackupTypeOK, WorkerTypeOK
  <2>2. wCur.num = wNum
    <3>1. wCur = enq[wNum + 1]
      BY <2>1 DEF QueueInv, HandInv
    <3>2. wNum \in 0..(Len(enq) - 1)
      BY <2>1
    <3>3. enq[wNum + 1].num = wNum
      BY <3>2 DEF QueueInv, HistoryInv
    <3> QED
      BY <3>1, <3>3
  <2> QED
    BY <2>1, <2>2 DEF SavedInv
<1> QED
  BY <1>1, <1>2, <1>3, TypeCorrect, QueueCorrect, PTL DEF SafeSpec
-----------------------------------------------------------------------------
(***************************************************************************)
(* The pool implements JobQueue (safety): each step of a thread is a step  *)
(* of the abstract queue or leaves it alone.                               *)
(***************************************************************************)
Pending == SubSeq(enq, Len(done) + 1, Len(enq))

\* A write that failed on the write server has put the worker in fail mode;
\* the shutdown flag is only up while the main thread waits.
FlagInv ==
    /\ wPc = "backup" /\ ~wOk => failMode
    /\ wPc = "read" => wCur.mode = "read"
    /\ shutdown => mainPc = "waiting"

\* The flags agree with the worker's place in its loop.
LEMMA FlagCorrect == SafeSpec => []FlagInv
<1>1. Init => FlagInv
  BY DEF Init, FlagInv
<1>2. FlagInv /\ [Next]_vars => FlagInv'
  <2> SUFFICES ASSUME FlagInv, [Next]_vars
               PROVE  FlagInv'
    OBVIOUS
  <2>1. CASE Main \/ Backup \/ UNCHANGED vars
    BY <2>1
    DEF FlagInv, Main, Startup, NoSqliteFile, ConAddSqlServer,
        Execute, ExecuteWrite, DumpSqlServers, Push, OnShutdown,
        ShutdownReturns, Backup, BackupTake, BackupExit, BackupPass, vars, mainVars, workerVars
  <2>2. CASE Worker
    <3>1. CASE WorkerCheck \/ WorkerExit
      BY <3>1 DEF FlagInv, WorkerCheck, WorkerExit, mainVars
    <3>2. CASE WorkerTake
      <4>1. /\ wPc' # "backup" /\ (wPc' = "read" => wCur'.mode = "read")
            /\ UNCHANGED <<shutdown, mainPc>>
        BY <3>2 DEF WorkerTake, mainVars
      <4> QED
        BY <4>1 DEF FlagInv
    <3>3. CASE /\ UNCHANGED <<shutdown, mainPc>>
               /\ wPc' = "top" \/ UNCHANGED <<wPc, wCur, wOk, failMode>>
      BY <3>3 DEF FlagInv
    <3>4. ASSUME NEW ok \in BOOLEAN, WorkerRead(ok)
          PROVE  FlagInv'
      BY <3>3, <3>4 DEF WorkerRead, Complete, mainVars
    <3>5. ASSUME NEW ok \in BOOLEAN, WorkerWrite(ok)
          PROVE  FlagInv'
      BY <3>5 DEF WorkerWrite, FlagInv, mainVars
    <3>6. ASSUME NEW ok \in BOOLEAN, WorkerBackup(ok)
          PROVE  FlagInv'
      BY <3>3, <3>6 DEF WorkerBackup, Complete, mainVars
    <3>7. CASE WorkerOther
      BY <3>3, <3>7 DEF WorkerOther, Complete, mainVars
    <3> QED
      BY <2>2, <3>1, <3>2, <3>4, <3>5, <3>6, <3>7 DEF Worker
  <2> QED
    BY <2>1, <2>2 DEF Next
<1> QED
  BY <1>1, <1>2, PTL DEF SafeSpec

\* The abstract queue's pending jobs, read off the numbers: none is left when
\* the worker has caught up, and the job in its hands is their head.
LEMMA PendingFacts ==
    ASSUME TypeOK, QueueInv
    PROVE  /\ Len(done) \in Nat /\ Len(enq) \in Nat /\ Len(done) <= Len(enq)
           /\ Len(done) = Len(enq) <=> Pending = << >>
           /\ Busy => /\ Pending # << >>
                      /\ Head(Pending) = wCur
                      /\ Tail(Pending) = SubSeq(enq, Len(done) + 2, Len(enq))
<1>1. /\ Len(enq) \in Nat /\ Moved \in Nat /\ Moved <= bNum /\ bNum <= Len(enq)
      /\ Busy => wNum < bNum
  BY QueueFacts
<1>2. /\ bNum \in Nat /\ wNum \in Nat /\ enq \in Seq(Job) /\ Len(done) = wNum
      /\ Busy => wCur = enq[wNum + 1]
  BY DEF TypeOK, MainTypeOK, BackupTypeOK, WorkerTypeOK, QueueInv, HistoryInv, HandInv
<1>3. wNum <= Len(enq)
  BY <1>1, <1>2 DEF Moved
<1>4. Len(Pending) = IF wNum + 1 <= Len(enq) THEN Len(enq) - (wNum + 1) + 1 ELSE 0
  BY <1>1, <1>2, <1>3, SubSeqProperties DEF Pending
<1>5. Len(done) = Len(enq) <=> Pending = << >>
  <2>1. Pending \in Seq(Job)
    BY <1>1, <1>2, <1>3, SubSeqProperties DEF Pending
  <2> QED
    BY <2>1, <1>1, <1>2, <1>3, <1>4, EmptySeq
<1>6. ASSUME Busy
      PROVE  /\ Head(Pending) = wCur
             /\ Tail(Pending) = SubSeq(enq, Len(done) + 2, Len(enq))
  BY <1>6, <1>1, <1>2, HeadTailOfSubSeq DEF Pending
<1> QED
  BY <1>1, <1>2, <1>3, <1>5, <1>6

\* A new job goes to the end of the pending ones.
LEMMA PushIsSubmit ==
    ASSUME TypeOK, QueueInv, NEW mode \in Mode, Push(mode), ~Closing, ~Closing'
    PROVE  JQ!Next
<1> DEFINE job == [num |-> Len(enq), mode |-> mode]
<1>1. /\ Len(done) \in Nat /\ Len(enq) \in Nat /\ Len(done) <= Len(enq) /\ enq \in Seq(Job)
  BY PendingFacts DEF TypeOK, MainTypeOK
<1>2. job \in Job /\ enq' = Append(enq, job) /\ UNCHANGED <<done, failMode, wPc>>
  BY <1>1, SizesAssumption DEF Push, Job, SizesAssumption, workerVars
<1> HIDE DEF job
<1>3. SubSeq(enq', Len(done') + 1, Len(enq')) = Append(SubSeq(enq, Len(done) + 1, Len(enq)), job)
  <2>1. enq' \in Seq(Job) /\ Len(enq') = Len(enq) + 1 /\ enq'[Len(enq) + 1] = job
        /\ \A k \in 1..Len(enq) : enq'[k] = enq[k]
    BY <1>1, <1>2
  <2> DEFINE a == SubSeq(enq', Len(done) + 1, Len(enq) + 1)
             b == SubSeq(enq, Len(done) + 1, Len(enq))
  <2>2. /\ a \in Seq(Job) /\ Len(a) = Len(enq) - Len(done) + 1
        /\ \A k \in 1..(Len(enq) - Len(done) + 1) : a[k] = enq'[Len(done) + k]
    BY <1>1, <2>1, SubSeqProperties
  <2>3. /\ b \in Seq(Job) /\ Len(b) = Len(enq) - Len(done)
        /\ \A k \in 1..(Len(enq) - Len(done)) : b[k] = enq[Len(done) + k]
    BY <1>1, SubSeqProperties
  <2> HIDE DEF a, b
  <2>4. /\ Append(b, job) \in Seq(Job) /\ Len(Append(b, job)) = Len(a)
        /\ \A k \in 1..Len(b) : Append(b, job)[k] = b[k]
        /\ Append(b, job)[Len(b) + 1] = job
    BY <1>1, <1>2, <2>2, <2>3
  <2>5. ASSUME NEW k \in 1..Len(a)
        PROVE  a[k] = Append(b, job)[k]
    <3>1. CASE k = Len(b) + 1
      BY <3>1, <1>1, <2>1, <2>2, <2>3, <2>4
    <3>2. CASE k \in 1..Len(b)
      <4>1. k \in 1..(Len(enq) - Len(done)) /\ Len(done) + k \in 1..Len(enq)
        BY <3>2, <1>1, <2>3
      <4>2. a[k] = enq'[Len(done) + k] /\ b[k] = enq[Len(done) + k]
        BY <4>1, <1>1, <2>2, <2>3
      <4>3. enq'[Len(done) + k] = enq[Len(done) + k]
        BY <4>1, <2>1
      <4> QED
        BY <3>2, <4>2, <4>3, <2>4
    <3> QED
      BY <3>1, <3>2, <1>1, <2>2, <2>3
  <2>6. a = Append(b, job)
    BY <2>2, <2>4, <2>5, SeqEqual
  <2> QED
    BY <2>1, <2>6, <1>2 DEF a, b
<1>4. JQ!Submit(job)
  <2>1. /\ ~(mainPc \in {"waiting", "stopped"})
        /\ (mainPc \in {"waiting", "stopped"})' = (mainPc \in {"waiting", "stopped"})
        /\ (wPc = "exited")' = (wPc = "exited")
    BY <1>2 DEF Closing
  <2> QED
    BY <2>1, <1>2, <1>3 DEF JQ!Submit
<1> QED
  BY <1>2, <1>4 DEF JQ!Next

\* A finished job leaves the head of the pending ones.
LEMMA CompleteIsFinish ==
    ASSUME TypeOK, QueueInv, Busy, NEW result \in JQ!Result, Complete(result),
           UNCHANGED <<mainPc, enq>>,
           result = "dismissed" => wCur.mode = "read" /\ (Closing \/ failMode),
           failMode' = (failMode \/ result # "ok")
    PROVE  JQ!Next
<1>1. /\ Len(done) \in Nat /\ Len(enq) \in Nat
      /\ Pending # << >> /\ Head(Pending) = wCur
      /\ Tail(Pending) = SubSeq(enq, Len(done) + 2, Len(enq))
  BY PendingFacts
<1>2. wCur \in Job /\ done \in Seq([job : Job, result : {"ok", "failed", "dismissed"}])
  BY DEF TypeOK, WorkerTypeOK
<1>3. done' = Append(done, [job |-> wCur, result |-> result]) /\ wPc' = "top" /\ wPc # "exited"
  BY DEF Complete, Busy
<1>4. Len(done') = Len(done) + 1
  <2> DEFINE e == [job |-> wCur, result |-> result]
  <2>1. e \in [job : Job, result : {"ok", "failed", "dismissed"}]
    BY <1>2 DEF JQ!Result
  <2> HIDE DEF e
  <2>2. Len(Append(done, e)) = Len(done) + 1
    BY <2>1, <1>2, AppendProperties
  <2> QED
    BY <2>2, <1>3 DEF e
<1>5. Pending' = Tail(Pending)
  <2>1. Len(done') + 1 = Len(done) + 2 /\ enq' = enq
    BY <1>1, <1>4
  <2> QED
    BY <2>1, <1>1 DEF Pending
<1>6. JQ!Finish(result)
  BY <1>1, <1>2, <1>3, <1>5 DEF JQ!Finish, Pending, Closing
<1> QED
  BY <1>6 DEF JQ!Next, JQ!FinishAny

\* A success leaves the fail mode as it is.
LEMMA SuccessIsFinish ==
    ASSUME TypeOK, QueueInv, Busy, Complete("ok"), UNCHANGED <<mainPc, enq, failMode>>
    PROVE  JQ!Next
<1>1. failMode' = (failMode \/ "ok" # "ok")
  BY DEF TypeOK, WorkerTypeOK
<1> QED
  BY <1>1, CompleteIsFinish DEF JQ!Result

\* The pool refines the queue: nothing is lost, reordered or run twice, only
\* reads are dismissed and only in fail mode or during shutdown, and the pool
\* is closed only when it is empty.
THEOREM PoolImplementsQueue == SafeSpec => JQ!SafeSpec
<1>1. Init => JQ!Init
  BY DEF Init, JQ!Init
<1>2. TypeOK /\ QueueInv /\ FlagInv /\ [Next]_vars => [JQ!Next]_JQ!vars
  <2> SUFFICES ASSUME TypeOK, QueueInv, FlagInv, [Next]_vars
               PROVE  [JQ!Next]_JQ!vars
    OBVIOUS
  \* Nothing the abstract queue talks about changes.
  <2>1. UNCHANGED <<mainPc, enq, done, failMode>> /\ (wPc' = "exited" <=> wPc = "exited")
          => UNCHANGED JQ!vars
    BY DEF JQ!vars
  <2>2. CASE Main
    <3>1. CASE Startup
      <4>1. CASE NoSqliteFile
        BY <4>1 DEF NoSqliteFile, workerVars, JQ!vars
      <4> QED
        BY <3>1, <4>1, PushIsSubmit DEF Startup, Mode, Closing
    <3>2. ASSUME NEW arg \in {"r", "w"}, ConAddSqlServer(arg)
          PROVE  JQ!Next
      BY <3>2, PushIsSubmit DEF ConAddSqlServer, Mode, Closing
    <3>3. CASE Execute \/ ExecuteWrite \/ DumpSqlServers
      BY <3>3, PushIsSubmit DEF Execute, ExecuteWrite, DumpSqlServers, Mode, Closing
    <3>4. CASE OnShutdown
      BY <3>4 DEF OnShutdown, workerVars, JQ!Next, JQ!Close
    <3>5. CASE ShutdownReturns
      BY <3>5 DEF ShutdownReturns, workerVars, JQ!vars
    <3> QED
      BY <2>2, <3>1, <3>2, <3>3, <3>4, <3>5 DEF Main
  <2>3. CASE Backup
    BY <2>3, <2>1 DEF Backup, BackupTake, BackupExit, BackupPass, mainVars, workerVars
  <2>4. CASE Worker
    <3>1. CASE WorkerCheck
      <4>1. CASE failMode' = failMode
        BY <3>1, <4>1, <2>1 DEF WorkerCheck, mainVars
      <4>2. CASE failMode' # failMode
        BY <3>1, <4>2 DEF WorkerCheck, mainVars, TypeOK, WorkerTypeOK, JQ!Next, JQ!Recover
      <4> QED
        BY <4>1, <4>2
    <3>2. CASE WorkerTake
      BY <3>2, <2>1 DEF WorkerTake, mainVars
    <3>3. CASE WorkerExit
      <4>1. QueueInv'
        BY <3>3, ExitKeepsQueue
      <4>2. Closing /\ Len(done) = Len(enq)
        BY <3>3, <4>1
        DEF QueueInv, HandInv, HistoryInv, WorkerExit, mainVars, backupVars, Closing
      <4>3. Pending = << >>
        BY <4>2, PendingFacts
      <4>4. JQ!Shut
        BY <3>3, <4>2, <4>3 DEF WorkerExit, mainVars, JQ!Shut, Pending, Closing
      <4> QED
        BY <4>4 DEF JQ!Next
    <3>4. ASSUME NEW ok \in BOOLEAN, WorkerRead(ok)
          PROVE  [JQ!Next]_JQ!vars
      <4>1. Busy /\ UNCHANGED <<mainPc, enq>> /\ wCur.mode = "read"
        BY <3>4 DEF WorkerRead, mainVars, Busy, FlagInv
      <4>2. CASE wTry < reads /\ ~shutdown /\ ~failMode /\ ~ok
        BY <3>4, <4>1, <4>2, <2>1 DEF WorkerRead
      <4>3. CASE wTry < reads /\ ~shutdown /\ ~failMode /\ ok
        <5>1. Complete("ok") /\ failMode' = failMode
          BY <3>4, <4>3 DEF WorkerRead
        <5> QED
          BY <5>1, <4>1, SuccessIsFinish
      <4>4. CASE ~(wTry < reads /\ ~shutdown /\ ~failMode)
        <5>1. failMode' = TRUE /\ Complete(IF wTry < reads THEN "dismissed" ELSE "failed")
          BY <3>4, <4>4 DEF WorkerRead
        <5>2. CASE wTry < reads
          BY <5>1, <5>2, <4>1, <4>4, CompleteIsFinish DEF FlagInv, JQ!Result, Closing
        <5>3. CASE ~(wTry < reads)
          BY <5>1, <5>3, <4>1, CompleteIsFinish DEF JQ!Result
        <5> QED
          BY <5>2, <5>3
      <4> QED
        BY <4>2, <4>3, <4>4
    <3>5. ASSUME NEW ok \in BOOLEAN, WorkerWrite(ok)
          PROVE  [JQ!Next]_JQ!vars
      <4>1. /\ Busy /\ wPc' = "backup" /\ wPc # "exited"
            /\ UNCHANGED <<mainPc, enq, done>>
            /\ failMode' = (failMode \/ ~ok)
        BY <3>5 DEF WorkerWrite, mainVars, Busy
      <4>2. CASE failMode' = failMode
        BY <4>1, <4>2, <2>1
      <4>3. CASE failMode' # failMode
        <5>1. failMode' = TRUE
          BY <4>1, <4>3 DEF TypeOK, WorkerTypeOK
        <5>2. JQ!Degrade
          BY <4>1, <5>1, PendingFacts DEF JQ!Degrade, Pending
        <5> QED
          BY <5>2 DEF JQ!Next
      <4> QED
        BY <4>2, <4>3
    <3>6. ASSUME NEW ok \in BOOLEAN, WorkerBackup(ok)
          PROVE  JQ!Next
      <4>1. Busy /\ UNCHANGED <<mainPc, enq, failMode>> /\ (wOk \/ failMode)
        BY <3>6 DEF WorkerBackup, mainVars, Busy, FlagInv
      <4>2. CASE wOk \/ ok
        <5>1. Complete("ok")
          BY <3>6, <4>2 DEF WorkerBackup
        <5> QED
          BY <5>1, <4>1, SuccessIsFinish
      <4>3. CASE ~(wOk \/ ok)
        <5>1. Complete("failed") /\ failMode = TRUE
          BY <3>6, <4>1, <4>3 DEF WorkerBackup, TypeOK, WorkerTypeOK
        <5> QED
          BY <5>1, <4>1, CompleteIsFinish DEF JQ!Result
      <4> QED
        BY <4>2, <4>3
    <3>7. CASE WorkerOther
      <4>1. Busy /\ UNCHANGED <<mainPc, enq, failMode>> /\ Complete("ok")
        BY <3>7 DEF WorkerOther, mainVars, Busy
      <4> QED
        BY <4>1, SuccessIsFinish
    <3> QED
      BY <2>4, <3>1, <3>2, <3>3, <3>4, <3>5, <3>6, <3>7 DEF Worker
  <2>5. CASE UNCHANGED vars
    BY <2>5, <2>1 DEF vars, mainVars, workerVars
  <2> QED
    BY <2>2, <2>3, <2>4, <2>5 DEF Next
<1> QED
  BY <1>1, <1>2, TypeCorrect, QueueCorrect, FlagCorrect, PTL DEF SafeSpec, JQ!SafeSpec
=============================================================================
