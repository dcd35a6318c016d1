------------------------------ MODULE FlinkJobs ------------------------------
(***************************************************************************)
(* The cold path: the two Flink jobs of stream/flink/jobs, each reading    *)
(* traces.events.v1 into an Iceberg table of its own, and the two scripts  *)
(* that operate them: submit.sh, with the resume points it honours or      *)
(* refuses to ignore, and stop.sh, which records those points.             *)
(*                                                                         *)
(* Flink and Iceberg are external, modelled from the job settings: a       *)
(* checkpoint every 30 s, whose second phase commits to Iceberg; retained  *)
(* on cancellation, one per job (num-retained is left at 1); fixed-delay   *)
(* restart.  The topic is one log of events.  What an event contributes to *)
(* a table (a row, or its share of a window) counts as written when the    *)
(* checkpoint that covers it is committed.                                 *)
(*                                                                         *)
(* Slips names what may happen beyond the routine the scripts describe:    *)
(*   "early"    stop.sh on a resumed job that has no checkpoint of its own *)
(*   "late"     a checkpoint completes while stop.sh is stopping the job   *)
(*   "lost"     Flink gives a job up (attempts exhausted, JobManager gone) *)
(*   "overlap"  a job is submitted while one of its pipeline is alive      *)
(* Without slips the operator submits only what is not running, and goes   *)
(* through with a reset (create_tables --recreate and stop.sh --forget)    *)
(* before the next submit.                                                 *)
(***************************************************************************)
EXTENDS Integers, Sequences, FiniteSets

CONSTANTS
  Pipelines,    \* pipeline names, one per file of stream/flink/jobs
  JobLists,     \* the job lists submit.sh is called with
  Slips,        \* which of the four kinds of slip may happen
  NoPoint,      \* no resume point
  MaxEvents,    \* bound: events produced
  MaxRuns,      \* bound: jobs submitted
  MaxFailures   \* bound: task failures

ASSUME FlinkAssumption ==
  /\ Slips \subseteq {"early", "late", "lost", "overlap"}
  /\ \A todo \in JobLists : /\ todo \in Seq(Pipelines) /\ todo # <<>>
                            /\ \A m, n \in 1 .. Len(todo) : todo[m] = todo[n] => m = n
  /\ MaxEvents \in Nat /\ MaxRuns \in Nat /\ MaxFailures \in Nat
  /\ NoPoint \notin [job : Nat, chk : Nat, pos : Nat]

VARIABLES
  produced,  \* events in the topic
  jobs,      \* every job submitted so far, in order
  rows,      \* per pipeline and event: how often its contribution is in the table
  points,    \* stream/flink/.resume: per pipeline, the recorded checkpoint
  script,    \* the script that is running
  resetting, \* the operator has begun a reset of the warehouse
  slipped,   \* something of Slips has happened (history)
  failures   \* task failures so far

flinkVars == <<produced, jobs, rows, points, script, resetting, slipped, failures>>


-----------------------------------------------------------------------------
\* Variants named Mutant... are faulty versions of the definition after them, each
\* one slip away from the code; a property that no such slip breaks says nothing.
Events == 1 .. MaxEvents
JobIds == 1 .. Len(jobs)

\* The external path of a checkpoint: job, number, and the offsets it holds.
Point == [job : Nat, chk : Nat, pos : Nat]
\* `start`: position at submission; `done`: position of the latest of `chks`
\* completed checkpoints; `upto`: position up to which Iceberg holds its commits
\* (max-committed-checkpoint-id).
Job == [pipe : Pipelines, state : {"running", "restarting", "gone"}, resumed : BOOLEAN,
        start : Nat, pos : Nat, chks : Nat, done : Nat, upto : Nat]
Script == [cmd : {"idle", "submit", "resume", "stop", "forget"},
           todo : Seq(Pipelines), jids : SUBSET Nat, jid : Nat, read : Point \cup {NoPoint}]
Idle == [cmd |-> "idle", todo |-> <<>>, jids |-> {}, jid |-> 0, read |-> NoPoint]

Alive(j)   == jobs[j].state # "gone"
AliveIn(p) == {j \in JobIds : Alive(j) /\ jobs[j].pipe = p}
Landed(p)  == Cardinality({e \in Events : rows[p][e] > 0})

Init ==
  /\ produced = 0
  /\ jobs = <<>>
  /\ rows = [p \in Pipelines |-> [e \in Events |-> 0]]
  /\ points = [p \in Pipelines |-> NoPoint]
  /\ script = Idle
  /\ resetting = FALSE /\ slipped = FALSE
  /\ failures = 0

\* A step that is a slip of some kind under a condition.
Slip(kind, condition) ==
  /\ condition => kind \in Slips
  /\ slipped' = (slipped \/ condition)

\* One Iceberg commit: the events of (from, to] are added to p's table.
MutantSkipsOne(p, from, to) ==
  [rows EXCEPT ![p] = [e \in Events |-> rows[p][e] + IF e \in from + 2 .. to THEN 1 ELSE 0]]
Committed(p, from, to) ==
  [rows EXCEPT ![p] = [e \in Events |-> rows[p][e] + IF e \in from + 1 .. to THEN 1 ELSE 0]]

-----------------------------------------------------------------------------
(***************************************************************************)
(* The cluster.                                                            *)
(***************************************************************************)
Produce ==
  /\ produced < MaxEvents
  /\ produced' = produced + 1
  /\ UNCHANGED <<jobs, rows, points, script, resetting, failures, slipped>>

Read(j) ==
  /\ jobs[j].state = "running" /\ jobs[j].pos < produced
  /\ jobs' = [jobs EXCEPT ![j].pos = @ + 1]
  /\ UNCHANGED <<produced, rows, points, script, resetting, failures, slipped>>

\* A checkpoint completes: offsets and prepared files are durable, not committed.
\* A checkpoint that covers nothing new is left out, except a job's first.
Checkpoint(j) ==
  /\ jobs[j].state = "running"
  /\ jobs[j].chks = 0 \/ jobs[j].pos > jobs[j].done
  /\ Slip("late", script.jid = j)
  /\ jobs' = [jobs EXCEPT ![j].chks = @ + 1, ![j].done = jobs[j].pos]
  /\ UNCHANGED <<produced, rows, points, script, resetting, failures>>

\* notifyCheckpointComplete reaches the Iceberg committer.
Commit(j) ==
  /\ jobs[j].state = "running" /\ jobs[j].upto < jobs[j].done
  /\ rows' = Committed(jobs[j].pipe, jobs[j].upto, jobs[j].done)
  /\ jobs' = [jobs EXCEPT ![j].upto = jobs[j].done]
  /\ UNCHANGED <<produced, points, script, resetting, failures, slipped>>

Fail(j) ==
  /\ jobs[j].state = "running" /\ failures < MaxFailures
  /\ jobs' = [jobs EXCEPT ![j].state = "restarting"]
  /\ failures' = failures + 1
  /\ UNCHANGED <<produced, rows, points, script, resetting, slipped>>

\* Back from the latest checkpoint, or from where the job was submitted; files
\* that checkpoint had prepared and nobody committed are committed now.
Restart(j) ==
  /\ jobs[j].state = "restarting"
  /\ jobs' = [jobs EXCEPT ![j].state = "running", ![j].pos = jobs[j].done, ![j].upto = jobs[j].done]
  /\ rows' = Committed(jobs[j].pipe, jobs[j].upto, jobs[j].done)
  /\ UNCHANGED <<produced, points, script, resetting, failures, slipped>>

GiveUp(j) ==
  /\ Alive(j) /\ Slip("lost", TRUE)
  /\ jobs' = [jobs EXCEPT ![j].state = "gone"]
  /\ UNCHANGED <<produced, rows, points, script, resetting, failures>>

-----------------------------------------------------------------------------
(***************************************************************************)
(* submit.sh [--resume] [job ...]                                          *)
(***************************************************************************)
\* No job, no row and no resume point: what a completed reset leaves.
Clean == /\ \A j \in JobIds : ~Alive(j)
         /\ \A p \in Pipelines : points[p] = NoPoint /\ Landed(p) = 0

\* Without job arguments the script takes every file, in the order of their names.
BeginSubmit(cmd, todo) ==
  /\ script = Idle
  /\ resetting => Clean
  /\ Slip("overlap", \E i \in 1 .. Len(todo) : AliveIn(todo[i]) # {})
  /\ Len(jobs) + Len(todo) <= MaxRuns
  /\ script' = [Idle EXCEPT !.cmd = cmd, !.todo = todo]
  /\ resetting' = FALSE
  /\ UNCHANGED <<produced, jobs, rows, points, failures>>

\* A job that starts reading at `start`.
NewJob(p, resumed, start) ==
  [pipe |-> p, state |-> "running", resumed |-> resumed, start |-> start,
   pos |-> start, chks |-> 0, done |-> start, upto |-> start]

\* On to the next job of the list.
Continue == script' = IF Len(script.todo) = 1 THEN Idle ELSE [script EXCEPT !.todo = Tail(@)]

\* No point recorded: read from earliest-offset.  A point recorded: refused, and
\* the script exits without the jobs that remain.
MutantIgnoresPoint(p) == FALSE
Refuses(p) == points[p] # NoPoint
SubmitNext ==
  LET p == Head(script.todo)
  IN  /\ script.cmd = "submit"
      /\ IF Refuses(p) THEN script' = Idle /\ UNCHANGED jobs
         ELSE jobs' = Append(jobs, NewJob(p, FALSE, 0)) /\ Continue
      /\ UNCHANGED <<produced, rows, points, resetting, failures, slipped>>

\* The checkpoint a path names is still there: a job keeps only its latest.
Exists(point) == jobs[point.job].chks = point.chk

\* Up to where the table holds the commits of the job that took the checkpoint.
CommittedBy(point) == jobs[point.job].upto

\* Restored from the point, the committer first commits what that checkpoint had
\* prepared and its job never committed.  With no point, or with the files of its
\* checkpoint gone, the script stops there.  The point stays on disk.
ResumeNext ==
  LET p     == Head(script.todo)
      point == points[p]
      fresh == NewJob(p, TRUE, point.pos)
  IN  /\ script.cmd = "resume"
      /\ IF point = NoPoint THEN script' = Idle /\ UNCHANGED <<jobs, rows>>
         ELSE IF ~Exists(point) THEN script' = Idle /\ UNCHANGED <<jobs, rows>>
         ELSE /\ jobs' = Append([jobs EXCEPT ![point.job].upto = point.pos], fresh)
              /\ rows' = Committed(p, CommittedBy(point), point.pos)
              /\ Continue
      /\ UNCHANGED <<produced, points, resetting, failures, slipped>>

-----------------------------------------------------------------------------
(***************************************************************************)
(* stop.sh [--forget], and create_tables.py --recreate.                    *)
(***************************************************************************)
\* The jobs listed are those in state RUNNING: one waiting for a restart is not.
\* With none, --forget still discards every point.
BeginStop(cmd) ==
  LET running == {j \in JobIds : jobs[j].state = "running"}
  IN  /\ script = Idle
      /\ Slip("early", \E j \in running : jobs[j].resumed /\ jobs[j].chks = 0)
      /\ IF running = {} THEN UNCHANGED script
         ELSE script' = [Idle EXCEPT !.cmd = cmd, !.jids = running]
      /\ points' = IF running = {} /\ cmd = "forget" THEN [p \in Pipelines |-> NoPoint] ELSE points
      /\ resetting' = (resetting \/ cmd = "forget")
      /\ UNCHANGED <<produced, jobs, rows, failures>>

\* The latest completed checkpoint of one job, asked for before the job is cancelled.
MutantReadsNothing(j) == NoPoint
LatestOf(j) == IF jobs[j].chks = 0 THEN NoPoint
               ELSE [job |-> j, chk |-> jobs[j].chks, pos |-> jobs[j].done]
ReadPath ==
  /\ script.cmd \in {"stop", "forget"} /\ script.jid = 0
  /\ \E j \in script.jids : script' = [script EXCEPT !.jid = j, !.read = LatestOf(j)]
  /\ UNCHANGED <<produced, jobs, rows, points, resetting, failures, slipped>>

\* What ends up in the job's file: with no path, or with --forget, it is removed.
Recorded == IF script.cmd = "forget" THEN NoPoint ELSE script.read

\* A job that is no longer there makes the PATCH, and with it the script, fail.
CancelJob ==
  LET j    == script.jid
      left == script.jids \ {j}
  IN  /\ j # 0
      /\ IF Alive(j)
         THEN /\ jobs' = [jobs EXCEPT ![j].state = "gone"]
              /\ points' = [points EXCEPT ![jobs[j].pipe] = Recorded]
              /\ script' = IF left = {} THEN Idle ELSE [Idle EXCEPT !.cmd = script.cmd, !.jids = left]
         ELSE script' = Idle /\ UNCHANGED <<jobs, points>>
      /\ UNCHANGED <<produced, rows, resetting, failures, slipped>>

\* "Stop the Flink jobs first."
Recreate ==
  /\ script = Idle
  /\ \A j \in JobIds : ~Alive(j)
  /\ rows' = [p \in Pipelines |-> [e \in Events |-> 0]]
  /\ resetting' = TRUE
  /\ UNCHANGED <<produced, jobs, points, script, failures, slipped>>

-----------------------------------------------------------------------------
Cluster(j) == Read(j) \/ Checkpoint(j) \/ Commit(j) \/ Restart(j)

Next ==
  \/ Produce
  \/ \E j \in JobIds : Cluster(j) \/ Fail(j) \/ GiveUp(j)
  \/ \E cmd \in {"submit", "resume"}, todo \in JobLists : BeginSubmit(cmd, todo)
  \/ SubmitNext \/ ResumeNext
  \/ \E cmd \in {"stop", "forget"} : BeginStop(cmd)
  \/ ReadPath \/ CancelJob \/ Recreate

Spec == Init /\ [][Next]_flinkVars

\* A job that can read, complete a checkpoint, commit it or restart does so in time:
\* the source polls, checkpoints are periodic, restarts come after a fixed delay.  A
\* script that was started runs to its end.
FairSpec ==
  /\ Spec
  /\ \A j \in 1 .. MaxRuns : WF_flinkVars(j \in JobIds /\ Cluster(j))
  /\ WF_flinkVars(SubmitNext \/ ResumeNext \/ ReadPath \/ CancelJob)
-----------------------------------------------------------------------------
TypeOK ==
  /\ produced \in 0 .. MaxEvents
  /\ jobs \in Seq(Job)
  /\ rows \in [Pipelines -> [Events -> Nat]]
  /\ points \in [Pipelines -> Point \cup {NoPoint}]
  /\ script \in Script
  /\ resetting \in BOOLEAN /\ slipped \in BOOLEAN
  /\ failures \in 0 .. MaxFailures

\* Exactly once, across restarts, stops and resumptions, until something slips: a table
\* holds a prefix of the topic, each event of it once.  No symptom but a COUNT would show
\* otherwise.
ExactlyOnce ==
  ~slipped => \A p \in Pipelines : \A e \in Events :
    /\ rows[p][e] <= 1
    /\ rows[p][e] = 1 => \A d \in 1 .. e : rows[p][d] = 1

\* When no job of a pipeline is left, and nothing has slipped, its table is empty or
\* its resume point is on disk, still exists, and is not behind the table: the refusal
\* of submit.sh is enough to prevent a replay, and --resume will neither replay nor fail.
Resumable ==
  \A p \in Pipelines :
    AliveIn(p) = {} /\ ~resetting /\ ~slipped /\ Landed(p) > 0 =>
      points[p] # NoPoint /\ Exists(points[p]) /\ points[p].pos >= Landed(p)

\* As long as a job of the pipeline stays alive, whatever is in the topic gets into
\* the table, failures included.
Lands ==
  \A p \in Pipelines : \A e \in Events :
    [](produced >= e => <>(rows[p][e] > 0 \/ AliveIn(p) = {}))
=============================================================================
