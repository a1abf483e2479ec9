------------------------------ MODULE JobQueue ------------------------------
(***************************************************************************)
(* What the database job queue promises to the game server, whatever the   *)
(* threads behind it do: jobs submitted before the server closes the queue *)
(* are finished once each, in the order of submission, and the queue       *)
(* reports itself closed only when nothing is left.  A job that is only    *)
(* optional (a read) may be dismissed, but only while the queue is closing *)
(* or has been degraded by an earlier failure.                             *)
(*                                                                         *)
(* DbPool implements this module; Accounts relies on what it promises.     *)
(***************************************************************************)
EXTENDS Naturals, Sequences

CONSTANTS
    Job,        \* the jobs that can be submitted
    Optional    \* those of them that may be dismissed

VARIABLES
    pending,    \* the submitted jobs that are not finished, oldest first
    done,       \* the finished jobs and their results, oldest first
    degraded,   \* an earlier job failed and the queue has not recovered
    closing,    \* the server asked the queue to close
    closed      \* the queue answered that it is closed

vars == <<pending, done, degraded, closing, closed>>

Result == {"ok", "failed", "dismissed"}

Init ==
    /\ pending = << >>
    /\ done = << >>
    /\ degraded = FALSE
    /\ closing = FALSE
    /\ closed = FALSE

Submit(job) ==
    /\ ~closing
    /\ pending' = Append(pending, job)
    /\ UNCHANGED <<done, degraded, closing, closed>>

\* The oldest pending job is finished.  A result other than "ok" degrades the
\* queue.
Finish(result) ==
    /\ pending # << >>
    /\ result = "dismissed" => Head(pending) \in Optional /\ (closing \/ degraded)
    /\ pending' = Tail(pending)
    /\ done' = Append(done, [job |-> Head(pending), result |-> result])
    /\ degraded' = (degraded \/ result # "ok")
    /\ UNCHANGED <<closing, closed>>

\* One attempt of the running job failed; it may still end well elsewhere.
Degrade ==
    /\ pending # << >>
    /\ degraded' = TRUE
    /\ UNCHANGED <<pending, done, closing, closed>>

Recover ==
    /\ degraded
    /\ degraded' = FALSE
    /\ UNCHANGED <<pending, done, closing, closed>>

Close ==
    /\ ~closing
    /\ closing' = TRUE
    /\ UNCHANGED <<pending, done, degraded, closed>>

Shut ==
    /\ closing
    /\ pending = << >>
    /\ closed' = TRUE
    /\ UNCHANGED <<pending, done, degraded, closing>>

FinishAny == \E result \in Result : Finish(result)

Next ==
    \/ \E job \in Job : Submit(job)
    \/ FinishAny
    \/ Degrade
    \/ Recover
    \/ Close
    \/ Shut

SafeSpec == Init /\ [][Next]_vars

Spec == SafeSpec /\ WF_vars(FinishAny) /\ WF_vars(Shut)
=============================================================================
