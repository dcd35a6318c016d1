----------------------------- MODULE FlinkProofs -----------------------------
(***************************************************************************)
(* Theorems about the cold path, for any pipelines, job lists, slips and   *)
(* bounds: until something slips, tables hold what the topic holds, once,  *)
(* and the resume points that stop.sh records are enough to go on.         *)
(***************************************************************************)
EXTENDS FlinkJobs, FiniteSetTheorems, TLAPS

-----------------------------------------------------------------------------
(***************************************************************************)
(* Types: the jobs that resume points and the script name exist.           *)
(***************************************************************************)
Named ==
  /\ \A p \in Pipelines : points[p] # NoPoint => points[p].job \in JobIds
  /\ script.jids \subseteq JobIds
  /\ script.jid # 0 => script.jid \in script.jids /\ script.cmd \in {"stop", "forget"}
  /\ script.read # NoPoint => script.read.job \in JobIds
  /\ script.cmd \in {"submit", "resume"} => script.todo # <<>>

Typed == TypeOK /\ Named

Becomes(j, new) == jobs' = [jobs EXCEPT ![j] = new]

LEMMA JobTypes ==
  ASSUME TypeOK, NEW j \in JobIds
  PROVE  /\ jobs[j] \in Job /\ jobs[j].pipe \in Pipelines
         /\ jobs[j].state \in {"running", "restarting", "gone"} /\ jobs[j].resumed \in BOOLEAN
         /\ jobs[j].start \in Nat /\ jobs[j].pos \in Nat /\ jobs[j].chks \in Nat
         /\ jobs[j].done \in Nat /\ jobs[j].upto \in Nat
  <1>1. jobs[j] \in Job
    BY DEF TypeOK, JobIds
  <1>2. QED
    BY <1>1 DEF Job

\* One job changes.
LEMMA OneJob ==
  ASSUME TypeOK, NEW j \in JobIds, NEW new \in Job, Becomes(j, new)
  PROVE  /\ jobs' \in Seq(Job) /\ JobIds' = JobIds /\ jobs'[j] = new
         /\ \A i \in JobIds : i # j => jobs'[i] = jobs[i]
  BY DEF TypeOK, Becomes, JobIds

\* A job is submitted.
LEMMA OneMore ==
  ASSUME NEW base \in Seq(Job), NEW new \in Job, jobs \in Seq(Job), Len(base) = Len(jobs),
         jobs' = Append(base, new)
  PROVE  /\ jobs' \in Seq(Job) /\ JobIds' = JobIds \cup {Len(jobs) + 1}
         /\ Len(jobs) + 1 \notin JobIds /\ jobs'[Len(jobs) + 1] = new
         /\ \A i \in JobIds : jobs'[i] = base[i]
  <1>1. Len(jobs) \in Nat
    OBVIOUS
  <1>2. jobs' \in Seq(Job) /\ Len(jobs') = Len(jobs) + 1
    OBVIOUS
  <1>3. \A n \in Nat : 1 .. n + 1 = (1 .. n) \cup {n + 1} /\ n + 1 \notin 1 .. n
    OBVIOUS
  <1>4. JobIds' = JobIds \cup {Len(jobs) + 1} /\ Len(jobs) + 1 \notin JobIds
    BY <1>1, <1>2, <1>3 DEF JobIds
  <1>5. QED
    BY <1>2, <1>4 DEF JobIds

\* A new job of a pipeline.
LEMMA NewJobTypes ==
  ASSUME NEW p \in Pipelines, NEW resumed \in BOOLEAN, NEW start \in Nat
  PROVE  NewJob(p, resumed, start) \in Job
  BY DEF NewJob, Job

\* A commit adds to the rows of one table.
LEMMA CommittedRows ==
  ASSUME TypeOK, NEW p \in Pipelines, NEW from \in Nat, NEW to \in Nat
  PROVE  /\ Committed(p, from, to) \in [Pipelines -> [Events -> Nat]]
         /\ \A q \in Pipelines : q # p => Committed(p, from, to)[q] = rows[q]
         /\ \A e \in Events : Committed(p, from, to)[p][e] = rows[p][e] + IF e \in from + 1 .. to THEN 1 ELSE 0
  <1>1. rows \in [Pipelines -> [Events -> Nat]] /\ rows[p] \in [Events -> Nat]
    BY DEF TypeOK
  <1>2. PICK table : table = [e \in Events |-> rows[p][e] + IF e \in from + 1 .. to THEN 1 ELSE 0]
    OBVIOUS
  <1>3. \A e \in Events : (rows[p][e] + IF e \in from + 1 .. to THEN 1 ELSE 0) \in Nat
    BY <1>1
  <1>4. table \in [Events -> Nat]
    BY <1>2, <1>3
  <1>5. Committed(p, from, to) = [rows EXCEPT ![p] = table]
    BY <1>2 DEF Committed
  <1>6. QED
    BY <1>1, <1>2, <1>4, <1>5

LEMMA InitTyped == Init => Typed
  <1> SUFFICES ASSUME Init PROVE Typed
    OBVIOUS
  <1>1. jobs \in Seq(Job) /\ rows \in [Pipelines -> [Events -> Nat]]
    BY DEF Init
  <1>2. points \in [Pipelines -> Point \cup {NoPoint}]
    BY DEF Init
  <1>3. script \in Script
    BY DEF Init, Idle, Script
  <1>4. produced \in 0 .. MaxEvents /\ failures \in 0 .. MaxFailures
    BY FlinkAssumption DEF Init
  <1>5. Named
    BY DEF Init, Named, Idle
  <1>6. QED
    BY <1>1, <1>2, <1>3, <1>4, <1>5 DEF Init, Typed, TypeOK

\* A step of one job that leaves the scripts and their files alone.
LEMMA JobTyped ==
  ASSUME Typed, NEW j \in JobIds, NEW new \in Job, Becomes(j, new),
         rows' \in [Pipelines -> [Events -> Nat]], failures' \in 0 .. MaxFailures,
         slipped' \in BOOLEAN, UNCHANGED <<produced, points, script, resetting>>
  PROVE  Typed'
  <1>1. jobs' \in Seq(Job) /\ JobIds' = JobIds
    BY OneJob DEF Typed
  <1>2. QED
    BY <1>1 DEF Typed, TypeOK, Named

-----------------------------------------------------------------------------
(***************************************************************************)
(* What each step of the cluster does to its job.                          *)
(***************************************************************************)
\* The job stays one of its pipeline, submitted from where it was.
Same(j, new) == /\ new.pipe = jobs[j].pipe /\ new.resumed = jobs[j].resumed
                /\ new.start = jobs[j].start

LEMMA ReadStep ==
  ASSUME Typed, NEW j \in JobIds, Read(j)
  PROVE  \E new \in Job :
           /\ Becomes(j, new) /\ Same(j, new) /\ jobs[j].state = "running" /\ new.state = "running"
           /\ new.chks = jobs[j].chks /\ new.done = jobs[j].done /\ new.upto = jobs[j].upto
           /\ new.pos = jobs[j].pos + 1
  <1>0. jobs[j] \in Job /\ jobs[j].pos \in Nat
    BY JobTypes DEF Typed
  <1>1. PICK new : new = [jobs[j] EXCEPT !.pos = @ + 1]
    OBVIOUS
  <1>2. jobs[j].pos + 1 \in Nat
    BY <1>0
  <1>3. /\ new \in Job /\ new.pos = jobs[j].pos + 1 /\ new.state = jobs[j].state /\ Same(j, new)
        /\ new.chks = jobs[j].chks /\ new.done = jobs[j].done /\ new.upto = jobs[j].upto
    BY <1>0, <1>1, <1>2 DEF Job, Same
  <1>4. Becomes(j, new) /\ jobs[j].state = "running"
    BY <1>0, <1>1 DEF Read, Becomes, Job, Typed, TypeOK, JobIds
  <1>5. QED
    BY <1>3, <1>4

LEMMA CheckpointStep ==
  ASSUME Typed, NEW j \in JobIds, Checkpoint(j)
  PROVE  \E new \in Job :
           /\ Becomes(j, new) /\ Same(j, new) /\ jobs[j].state = "running" /\ new.state = "running"
           /\ new.chks = jobs[j].chks + 1 /\ new.done = jobs[j].pos /\ new.upto = jobs[j].upto
           /\ new.pos = jobs[j].pos
  <1>0. jobs[j] \in Job /\ jobs[j].pos \in Nat /\ jobs[j].chks \in Nat
    BY JobTypes DEF Typed
  <1>1. PICK new : new = [jobs[j] EXCEPT !.chks = @ + 1, !.done = jobs[j].pos]
    OBVIOUS
  <1>2. jobs[j].chks + 1 \in Nat
    BY <1>0
  <1>3. /\ new \in Job /\ new.chks = jobs[j].chks + 1 /\ new.state = jobs[j].state /\ Same(j, new)
        /\ new.done = jobs[j].pos /\ new.upto = jobs[j].upto /\ new.pos = jobs[j].pos
    BY <1>0, <1>1, <1>2 DEF Job, Same
  <1>4. Becomes(j, new) /\ jobs[j].state = "running"
    BY <1>0, <1>1 DEF Checkpoint, Becomes, Job, Typed, TypeOK, JobIds
  <1>5. QED
    BY <1>3, <1>4

LEMMA CommitStep ==
  ASSUME Typed, NEW j \in JobIds, Commit(j)
  PROVE  \E new \in Job :
           /\ Becomes(j, new) /\ Same(j, new) /\ jobs[j].state = "running" /\ new.state = "running"
           /\ new.chks = jobs[j].chks /\ new.done = jobs[j].done /\ new.upto = jobs[j].done
           /\ new.pos = jobs[j].pos
  <1>0. jobs[j] \in Job /\ jobs[j].done \in Nat
    BY JobTypes DEF Typed
  <1>1. PICK new : new = [jobs[j] EXCEPT !.upto = jobs[j].done]
    OBVIOUS
  <1>2. /\ new \in Job /\ new.chks = jobs[j].chks /\ new.state = jobs[j].state /\ Same(j, new)
        /\ new.done = jobs[j].done /\ new.upto = jobs[j].done /\ new.pos = jobs[j].pos
    BY <1>0, <1>1 DEF Job, Same
  <1>3. Becomes(j, new) /\ jobs[j].state = "running"
    BY <1>0, <1>1 DEF Commit, Becomes, Job, Typed, TypeOK, JobIds
  <1>4. QED
    BY <1>2, <1>3

LEMMA FailStep ==
  ASSUME Typed, NEW j \in JobIds, Fail(j)
  PROVE  \E new \in Job :
           /\ Becomes(j, new) /\ Same(j, new) /\ jobs[j].state = "running" /\ new.state = "restarting"
           /\ new.chks = jobs[j].chks /\ new.done = jobs[j].done /\ new.upto = jobs[j].upto
           /\ new.pos = jobs[j].pos
  <1>0. jobs[j] \in Job
    BY JobTypes DEF Typed
  <1>1. PICK new : new = [jobs[j] EXCEPT !.state = "restarting"]
    OBVIOUS
  <1>2. /\ new \in Job /\ new.chks = jobs[j].chks /\ new.state = "restarting" /\ Same(j, new)
        /\ new.done = jobs[j].done /\ new.upto = jobs[j].upto /\ new.pos = jobs[j].pos
    BY <1>0, <1>1 DEF Job, Same
  <1>3. Becomes(j, new) /\ jobs[j].state = "running"
    BY <1>0, <1>1 DEF Fail, Becomes, Job, Typed, TypeOK, JobIds
  <1>4. QED
    BY <1>2, <1>3

LEMMA RestartStep ==
  ASSUME Typed, NEW j \in JobIds, Restart(j)
  PROVE  \E new \in Job :
           /\ Becomes(j, new) /\ Same(j, new) /\ jobs[j].state = "restarting" /\ new.state = "running"
           /\ new.chks = jobs[j].chks /\ new.done = jobs[j].done /\ new.upto = jobs[j].done
           /\ new.pos = jobs[j].done
  <1>0. jobs[j] \in Job /\ jobs[j].done \in Nat
    BY JobTypes DEF Typed
  <1>1. PICK new : new = [jobs[j] EXCEPT !.state = "running", !.pos = jobs[j].done, !.upto = jobs[j].done]
    OBVIOUS
  <1>2. /\ new \in Job /\ new.chks = jobs[j].chks /\ new.state = "running" /\ Same(j, new)
        /\ new.done = jobs[j].done /\ new.upto = jobs[j].done /\ new.pos = jobs[j].done
    BY <1>0, <1>1 DEF Job, Same
  <1>3. Becomes(j, new) /\ jobs[j].state = "restarting"
    BY <1>0, <1>1 DEF Restart, Becomes, Job, Typed, TypeOK, JobIds
  <1>4. QED
    BY <1>2, <1>3

\* A job that is cancelled or given up.
LEMMA GoneStep ==
  ASSUME Typed, NEW j \in JobIds, jobs' = [jobs EXCEPT ![j].state = "gone"]
  PROVE  \E new \in Job :
           /\ Becomes(j, new) /\ Same(j, new) /\ new.state = "gone"
           /\ new.chks = jobs[j].chks /\ new.done = jobs[j].done /\ new.upto = jobs[j].upto
           /\ new.pos = jobs[j].pos
  <1>0. jobs[j] \in Job
    BY JobTypes DEF Typed
  <1>1. PICK new : new = [jobs[j] EXCEPT !.state = "gone"]
    OBVIOUS
  <1>2. /\ new \in Job /\ new.chks = jobs[j].chks /\ new.state = "gone" /\ Same(j, new)
        /\ new.done = jobs[j].done /\ new.upto = jobs[j].upto /\ new.pos = jobs[j].pos
    BY <1>0, <1>1 DEF Job, Same
  <1>3. Becomes(j, new)
    BY <1>0, <1>1 DEF Becomes, Job, Typed, TypeOK, JobIds
  <1>4. QED
    BY <1>2, <1>3

\* The job that a resumed one takes over from.
LEMMA TakenOver ==
  ASSUME Typed, NEW j \in JobIds, NEW upto \in Nat
  PROVE  \E old \in Job :
           /\ [jobs EXCEPT ![j].upto = upto] = [jobs EXCEPT ![j] = old]
           /\ Same(j, old) /\ old.state = jobs[j].state /\ old.chks = jobs[j].chks
           /\ old.done = jobs[j].done /\ old.upto = upto
  <1>0. jobs[j] \in Job
    BY JobTypes DEF Typed
  <1>1. PICK old : old = [jobs[j] EXCEPT !.upto = upto]
    OBVIOUS
  <1>2. /\ old \in Job /\ Same(j, old) /\ old.state = jobs[j].state /\ old.chks = jobs[j].chks
        /\ old.done = jobs[j].done /\ old.upto = upto
    BY <1>0, <1>1 DEF Job, Same
  <1>3. [jobs EXCEPT ![j].upto = upto] = [jobs EXCEPT ![j] = old]
    BY <1>0, <1>1 DEF Job, Typed, TypeOK, JobIds
  <1>4. QED
    BY <1>2, <1>3

-----------------------------------------------------------------------------
(***************************************************************************)
(* What each step of a script does.                                        *)
(***************************************************************************)
LEMMA ScriptTypes ==
  ASSUME Typed
  PROVE  /\ script \in Script /\ Idle \in Script
         /\ script.cmd \in {"idle", "submit", "resume", "stop", "forget"}
         /\ script.todo \in Seq(Pipelines) /\ script.jids \in SUBSET Nat /\ script.jid \in Nat
         /\ script.read \in Point \cup {NoPoint}
         /\ Idle.cmd = "idle" /\ Idle.todo = <<>> /\ Idle.jids = {} /\ Idle.jid = 0 /\ Idle.read = NoPoint
  <1>1. script \in Script
    BY DEF Typed, TypeOK
  <1>2. Idle \in Script
    BY DEF Idle, Script
  <1>3. QED
    BY <1>1, <1>2 DEF Script, Idle

\* A list of jobs begins with a pipeline, and what is left of it is part of it.
LEMMA ListRest ==
  ASSUME NEW todo \in Seq(Pipelines), todo # <<>>
  PROVE  /\ Len(todo) \in Nat \ {0} /\ Head(todo) = todo[1] /\ Head(todo) \in Pipelines
         /\ Tail(todo) \in Seq(Pipelines) /\ Len(Tail(todo)) = Len(todo) - 1
         /\ \A n \in 1 .. Len(todo) - 1 : Tail(todo)[n] = todo[n + 1]
  OBVIOUS

LEMMA ContinueStep ==
  ASSUME Typed, script.cmd \in {"submit", "resume"}, Continue
  PROVE  \/ script' = Idle
         \/ /\ script' \in Script /\ script'.cmd = script.cmd /\ script'.todo = Tail(script.todo)
            /\ Tail(script.todo) # <<>> /\ script'.jids = script.jids /\ script'.jid = script.jid
            /\ script'.read = script.read
  <1>1. script \in Script /\ script.todo \in Seq(Pipelines) /\ script.todo # <<>>
    BY ScriptTypes DEF Typed, Named
  <1>2. CASE Len(script.todo) = 1
    BY <1>2 DEF Continue
  <1>3. CASE Len(script.todo) # 1
    <2>1. PICK rest \in Seq(Pipelines) : rest = Tail(script.todo)
      BY <1>1, ListRest
    <2>2. rest # <<>>
      <3>1. Len(rest) = Len(script.todo) - 1 /\ Len(script.todo) \in Nat \ {0}
        BY <1>1, <2>1, ListRest
      <3>2. Len(rest) # 0
        BY <1>3, <3>1
      <3>3. QED
        BY <3>2
    <2>3. script' = [script EXCEPT !.todo = rest]
      BY <1>1, <1>3, <2>1 DEF Continue
    <2>4. QED
      BY <1>1, <2>1, <2>2, <2>3 DEF Script
  <1>4. QED
    BY <1>2, <1>3

LEMMA SubmitStep ==
  ASSUME Typed, SubmitNext
  PROVE  /\ script.cmd = "submit" /\ Head(script.todo) \in Pipelines
         /\ \/ script' = Idle /\ jobs' = jobs
            \/ /\ points[Head(script.todo)] = NoPoint /\ Continue
               /\ \E new \in Job : /\ new = NewJob(Head(script.todo), FALSE, 0)
                                   /\ jobs' = Append(jobs, new)
  <1>1. script.cmd = "submit" /\ script.todo \in Seq(Pipelines) /\ script.todo # <<>>
    BY ScriptTypes DEF SubmitNext, Typed, Named
  <1>2. Head(script.todo) \in Pipelines
    BY <1>1, ListRest
  <1>3. NewJob(Head(script.todo), FALSE, 0) \in Job
    BY <1>2, NewJobTypes
  <1>4. QED
    BY <1>1, <1>2, <1>3 DEF SubmitNext, Refuses

\* Pipeline p goes on from its point: a new job after the one that took the point,
\* whose prepared files are committed.
Resumes(p, point, old, new, base) ==
  /\ p = Head(script.todo) /\ point = points[p] /\ point # NoPoint /\ Continue
  /\ point.job \in JobIds /\ point.pos \in Nat
  /\ Same(point.job, old) /\ old.state = jobs[point.job].state
  /\ old.chks = jobs[point.job].chks /\ old.done = jobs[point.job].done
  /\ old.upto = point.pos
  /\ base = [jobs EXCEPT ![point.job] = old] /\ Len(base) = Len(jobs)
  /\ new = NewJob(p, TRUE, point.pos) /\ jobs' = Append(base, new)
  /\ rows' = Committed(p, jobs[point.job].upto, point.pos)

LEMMA ResumeStep ==
  ASSUME Typed, ResumeNext
  PROVE  /\ script.cmd = "resume" /\ Head(script.todo) \in Pipelines
         /\ \/ script' = Idle /\ jobs' = jobs /\ rows' = rows
            \/ \E p \in Pipelines, point \in Point, old \in Job, new \in Job, base \in Seq(Job) :
                 Resumes(p, point, old, new, base)
  <1>1. script.cmd = "resume" /\ script.todo \in Seq(Pipelines) /\ script.todo # <<>>
    BY ScriptTypes DEF ResumeNext, Typed, Named
  <1>2. PICK p \in Pipelines : p = Head(script.todo)
    BY <1>1, ListRest
  <1>3. CASE script' = Idle /\ UNCHANGED <<jobs, rows>>
    BY <1>1, <1>2, <1>3
  <1>4. CASE /\ points[p] # NoPoint /\ Continue
             /\ jobs' = Append([jobs EXCEPT ![points[p].job].upto = points[p].pos],
                               NewJob(p, TRUE, points[p].pos))
             /\ rows' = Committed(p, CommittedBy(points[p]), points[p].pos)
    <2>1. PICK point \in Point : point = points[p]
      BY <1>4 DEF Typed, TypeOK
    <2>2. point.job \in JobIds /\ point.pos \in Nat
      BY <1>4, <2>1 DEF Typed, Named, Point
    <2>3. PICK old \in Job :
            /\ [jobs EXCEPT ![point.job].upto = point.pos] = [jobs EXCEPT ![point.job] = old]
            /\ Same(point.job, old) /\ old.state = jobs[point.job].state
            /\ old.chks = jobs[point.job].chks /\ old.done = jobs[point.job].done
            /\ old.upto = point.pos
      BY <2>2, TakenOver
    <2>4. PICK base \in Seq(Job) : base = [jobs EXCEPT ![point.job] = old] /\ Len(base) = Len(jobs)
      <3>1. PICK base : base = [jobs EXCEPT ![point.job] = old]
        OBVIOUS
      <3>2. base \in Seq(Job) /\ Len(base) = Len(jobs)
        BY <2>2, <3>1 DEF Typed, TypeOK, JobIds
      <3>3. QED
        BY <3>1, <3>2
    <2>5. PICK new \in Job : new = NewJob(p, TRUE, point.pos)
      BY <2>2, NewJobTypes
    <2>6. jobs' = Append(base, new)
      BY <1>4, <2>1, <2>3, <2>4, <2>5
    <2>7. rows' = Committed(p, jobs[point.job].upto, point.pos)
      BY <1>4, <2>1 DEF CommittedBy
    <2>8. point # NoPoint
      BY <1>4, <2>1
    <2>9. Resumes(p, point, old, new, base)
      BY <1>2, <1>4, <2>1, <2>2, <2>3, <2>4, <2>5, <2>6, <2>7, <2>8 DEF Resumes
    <2>10. QED
      BY <1>1, <1>2, <2>9
  <1>5. QED
    BY <1>2, <1>3, <1>4 DEF ResumeNext

LEMMA LatestTypes ==
  ASSUME Typed, NEW j \in JobIds
  PROVE  /\ LatestOf(j) \in Point \cup {NoPoint} /\ NoPoint \notin Point
         /\ jobs[j].chks = 0 => LatestOf(j) = NoPoint
         /\ jobs[j].chks # 0 => /\ LatestOf(j) \in Point /\ LatestOf(j).job = j
                                /\ LatestOf(j).chk = jobs[j].chks /\ LatestOf(j).pos = jobs[j].done
         /\ LatestOf(j) # NoPoint => LatestOf(j).job \in JobIds
  <1>1. NoPoint \notin Point
    BY FlinkAssumption DEF Point
  <1>2. CASE jobs[j].chks = 0
    BY <1>1, <1>2 DEF LatestOf
  <1>3. CASE jobs[j].chks # 0
    <2>1. j \in Nat /\ jobs[j].chks \in Nat /\ jobs[j].done \in Nat
      BY JobTypes DEF Typed, JobIds
    <2>2. QED
      BY <1>1, <1>3, <2>1 DEF LatestOf, Point
  <1>4. QED
    BY <1>2, <1>3

LEMMA BeginStopStep ==
  ASSUME Typed, NEW cmd \in {"stop", "forget"}, BeginStop(cmd)
  PROVE  \E running \in SUBSET JobIds :
           /\ running = {j \in JobIds : jobs[j].state = "running"}
           /\ script = Idle
           /\ \/ running = {} /\ script' = script
              \/ /\ running # {} /\ script' \in Script /\ script'.cmd = cmd /\ script'.jids = running
                 /\ script'.jid = 0 /\ script'.read = NoPoint /\ points' = points
  <1>1. PICK running \in SUBSET JobIds : running = {j \in JobIds : jobs[j].state = "running"}
    OBVIOUS
  <1>2. running \in SUBSET Nat /\ script = Idle
    BY DEF JobIds, BeginStop
  <1>3. CASE running = {}
    BY <1>1, <1>2, <1>3 DEF BeginStop
  <1>4. CASE running # {}
    <2>1. script' = [Idle EXCEPT !.cmd = cmd, !.jids = running] /\ points' = points
      BY <1>1, <1>4 DEF BeginStop
    <2>2. /\ script' \in Script /\ script'.cmd = cmd /\ script'.jids = running
          /\ script'.jid = 0 /\ script'.read = NoPoint
      BY <1>2, <2>1, ScriptTypes DEF Script
    <2>3. QED
      BY <1>1, <1>2, <1>4, <2>1, <2>2
  <1>5. QED
    BY <1>3, <1>4

LEMMA ReadPathStep ==
  ASSUME Typed, ReadPath
  PROVE  \E j \in script.jids :
           /\ script.cmd \in {"stop", "forget"} /\ j \in JobIds /\ j # 0
           /\ script' \in Script /\ script'.cmd = script.cmd /\ script'.jids = script.jids
           /\ script'.jid = j /\ script'.read = LatestOf(j)
  <1>1. PICK j \in script.jids : script' = [script EXCEPT !.jid = j, !.read = LatestOf(j)]
    BY DEF ReadPath
  <1>2. j \in JobIds /\ j \in Nat /\ j # 0
    BY DEF Typed, Named, JobIds
  <1>3. PICK read \in Point \cup {NoPoint} : read = LatestOf(j)
    BY <1>2, LatestTypes
  <1>4. script' = [script EXCEPT !.jid = j, !.read = read]
    BY <1>1, <1>3
  <1>5. /\ script' \in Script /\ script'.cmd = script.cmd /\ script'.jids = script.jids
        /\ script'.jid = j /\ script'.read = read
    BY <1>2, <1>4, ScriptTypes DEF Script
  <1>6. QED
    BY <1>2, <1>3, <1>5 DEF ReadPath

LEMMA CancelStep ==
  ASSUME Typed, CancelJob
  PROVE  \E j \in JobIds :
           /\ j = script.jid /\ j \in script.jids /\ script.cmd \in {"stop", "forget"}
           /\ \/ ~Alive(j) /\ script' = Idle /\ jobs' = jobs /\ points' = points
              \/ /\ Alive(j) /\ jobs' = [jobs EXCEPT ![j].state = "gone"]
                 /\ points' = [points EXCEPT ![jobs[j].pipe] = Recorded]
                 /\ \/ script' = Idle
                    \/ /\ script' \in Script /\ script'.cmd = script.cmd
                       /\ script'.jids = script.jids \ {j} /\ script'.jid = 0 /\ script'.read = NoPoint
  <1>1. PICK j \in JobIds : j = script.jid /\ j \in script.jids /\ script.cmd \in {"stop", "forget"}
    BY DEF CancelJob, Typed, Named
  <1>2. CASE ~Alive(j)
    BY <1>1, <1>2 DEF CancelJob
  <1>3. CASE Alive(j)
    <2>1. PICK left \in SUBSET Nat : left = script.jids \ {j}
      BY ScriptTypes
    <2>2. PICK cmd : cmd = script.cmd
      OBVIOUS
    <2>3. script' = Idle \/ script' = [Idle EXCEPT !.cmd = cmd, !.jids = left]
      BY <1>1, <1>3, <2>1, <2>2 DEF CancelJob
    <2>4. cmd \in {"idle", "submit", "resume", "stop", "forget"}
      BY <2>2, ScriptTypes
    <2>5. \/ script' = Idle
          \/ /\ script' \in Script /\ script'.cmd = cmd /\ script'.jids = left
             /\ script'.jid = 0 /\ script'.read = NoPoint
      BY <2>1, <2>3, <2>4, ScriptTypes DEF Script
    <2>6. /\ jobs' = [jobs EXCEPT ![j].state = "gone"]
          /\ points' = [points EXCEPT ![jobs[j].pipe] = Recorded]
      BY <1>1, <1>3 DEF CancelJob
    <2>7. QED
      BY <1>1, <1>3, <2>1, <2>2, <2>5, <2>6
  <1>4. QED
    BY <1>2, <1>3

LEMMA NextTyped == Typed /\ [Next]_flinkVars => Typed'
  <1> SUFFICES ASSUME Typed, [Next]_flinkVars PROVE Typed'
    OBVIOUS
  <1>0. /\ TypeOK /\ rows \in [Pipelines -> [Events -> Nat]] /\ failures \in 0 .. MaxFailures
        /\ slipped \in BOOLEAN /\ resetting \in BOOLEAN /\ jobs \in Seq(Job)
    BY DEF Typed, TypeOK
  <1>1. CASE Produce
    <2>1. produced' \in 0 .. MaxEvents
      BY <1>1, FlinkAssumption DEF Produce, Typed, TypeOK
    <2>2. QED
      BY <1>1, <2>1 DEF Produce, Typed, TypeOK, Named, JobIds
  <1>2. ASSUME NEW j \in JobIds, Cluster(j) \/ Fail(j) \/ GiveUp(j)
        PROVE  Typed'
    <2>0. jobs[j].pipe \in Pipelines /\ jobs[j].upto \in Nat /\ jobs[j].done \in Nat
      BY <1>0, JobTypes
    <2>1. CASE Read(j)
      BY <1>0, <2>1, ReadStep, JobTyped DEF Read
    <2>2. CASE Checkpoint(j)
      <3>1. slipped' \in BOOLEAN
        BY <1>0, <2>2 DEF Checkpoint, Slip
      <3>2. QED
        BY <1>0, <2>2, <3>1, CheckpointStep, JobTyped DEF Checkpoint
    <2>3. CASE Commit(j)
      <3>1. rows' \in [Pipelines -> [Events -> Nat]]
        BY <1>0, <2>0, <2>3, CommittedRows DEF Commit
      <3>2. QED
        BY <1>0, <2>3, <3>1, CommitStep, JobTyped DEF Commit
    <2>4. CASE Fail(j)
      <3>1. failures' \in 0 .. MaxFailures
        BY <1>0, <2>4, FlinkAssumption DEF Fail
      <3>2. QED
        BY <1>0, <2>4, <3>1, FailStep, JobTyped DEF Fail
    <2>5. CASE Restart(j)
      <3>1. rows' \in [Pipelines -> [Events -> Nat]]
        BY <1>0, <2>0, <2>5, CommittedRows DEF Restart
      <3>2. QED
        BY <1>0, <2>5, <3>1, RestartStep, JobTyped DEF Restart
    <2>6. CASE GiveUp(j)
      <3>1. slipped' \in BOOLEAN
        BY <1>0, <2>6 DEF GiveUp, Slip
      <3>2. QED
        BY <1>0, <2>6, <3>1, GoneStep, JobTyped DEF GiveUp
    <2>7. QED
      BY <1>2, <2>1, <2>2, <2>3, <2>4, <2>5, <2>6 DEF Cluster
  <1>3. ASSUME NEW cmd \in {"submit", "resume"}, NEW todo \in JobLists, BeginSubmit(cmd, todo)
        PROVE  Typed'
    <2>1. todo \in Seq(Pipelines) /\ todo # <<>>
      BY FlinkAssumption
    <2>2. script' = [Idle EXCEPT !.cmd = cmd, !.todo = todo]
      BY <1>3 DEF BeginSubmit
    <2>3. /\ script' \in Script /\ script'.cmd = cmd /\ script'.todo = todo /\ script'.jids = {}
          /\ script'.jid = 0 /\ script'.read = NoPoint
      BY <2>1, <2>2, ScriptTypes DEF Script
    <2>4. slipped' \in BOOLEAN /\ resetting' \in BOOLEAN
      BY <1>0, <1>3 DEF BeginSubmit, Slip
    <2>5. QED
      BY <1>3, <2>1, <2>3, <2>4 DEF BeginSubmit, Typed, TypeOK, Named, JobIds
  <1>4. CASE SubmitNext
    <2>1. /\ jobs' \in Seq(Job) /\ JobIds \subseteq JobIds'
      <3>1. CASE jobs' = jobs
        BY <1>0, <3>1 DEF JobIds
      <3>2. ASSUME NEW new \in Job, jobs' = Append(jobs, new)
            PROVE  jobs' \in Seq(Job) /\ JobIds \subseteq JobIds'
        BY <1>0, <3>2, OneMore
      <3>3. QED
        BY <1>4, <3>1, <3>2, SubmitStep
    <2>2. /\ script' \in Script /\ script'.jids \subseteq JobIds
          /\ script'.jid # 0 => script'.jid \in script'.jids /\ script'.cmd \in {"stop", "forget"}
          /\ script'.read # NoPoint => script'.read.job \in JobIds
          /\ script'.cmd \in {"submit", "resume"} => script'.todo # <<>>
      BY <1>4, SubmitStep, ContinueStep, ScriptTypes DEF Typed, Named
    <2>3. QED
      BY <1>4, <2>1, <2>2 DEF SubmitNext, Typed, TypeOK, Named
  <1>5. CASE ResumeNext
    <2>1. /\ jobs' \in Seq(Job) /\ JobIds \subseteq JobIds'
          /\ rows' \in [Pipelines -> [Events -> Nat]]
      <3>1. CASE jobs' = jobs /\ rows' = rows
        BY <1>0, <3>1 DEF JobIds
      <3>2. CASE ~(jobs' = jobs /\ rows' = rows)
        <4>1. PICK p \in Pipelines, point \in Point, old \in Job, new \in Job, base \in Seq(Job) :
                Resumes(p, point, old, new, base)
          BY <1>5, <3>2, ResumeStep
        <4>2. jobs' \in Seq(Job) /\ JobIds \subseteq JobIds'
          BY <1>0, <4>1, OneMore DEF Resumes
        <4>3. jobs[point.job].upto \in Nat
          BY <1>0, <4>1, JobTypes DEF Resumes
        <4>4. rows' = Committed(p, jobs[point.job].upto, point.pos) /\ point.pos \in Nat
          BY <4>1 DEF Resumes
        <4>5. QED
          BY <1>0, <4>2, <4>3, <4>4, CommittedRows
      <3>3. QED
        BY <3>1, <3>2
    <2>2. script.cmd = "resume" /\ (script' = Idle \/ Continue)
      BY <1>5, ResumeStep DEF Resumes
    <2>3. /\ script' \in Script /\ script'.jids \subseteq JobIds
          /\ script'.jid # 0 => script'.jid \in script'.jids /\ script'.cmd \in {"stop", "forget"}
          /\ script'.read # NoPoint => script'.read.job \in JobIds
          /\ script'.cmd \in {"submit", "resume"} => script'.todo # <<>>
      BY <2>2, ContinueStep, ScriptTypes DEF Typed, Named
    <2>4. QED
      BY <1>5, <2>1, <2>3 DEF ResumeNext, Typed, TypeOK, Named
  <1>6. ASSUME NEW cmd \in {"stop", "forget"}, BeginStop(cmd)
        PROVE  Typed'
    <2>1. /\ script' \in Script /\ script'.jids \subseteq JobIds /\ script'.jid = 0
          /\ script'.read = NoPoint /\ script'.cmd \notin {"submit", "resume"}
      BY <1>6, BeginStopStep, ScriptTypes
    <2>2. /\ points' \in [Pipelines -> Point \cup {NoPoint}]
          /\ \A p \in Pipelines : points'[p] # NoPoint => points'[p].job \in JobIds
      BY <1>6 DEF BeginStop, Typed, TypeOK, Named
    <2>3. slipped' \in BOOLEAN /\ resetting' \in BOOLEAN
      BY <1>0, <1>6 DEF BeginStop, Slip
    <2>4. QED
      BY <1>6, <2>1, <2>2, <2>3 DEF BeginStop, Typed, TypeOK, Named, JobIds
  <1>7. CASE ReadPath
    <2>1. PICK j \in script.jids :
            /\ script.cmd \in {"stop", "forget"} /\ j \in JobIds
            /\ script' \in Script /\ script'.cmd = script.cmd /\ script'.jids = script.jids
            /\ script'.jid = j /\ script'.read = LatestOf(j)
      BY <1>7, ReadPathStep
    <2>2. script'.read # NoPoint => script'.read.job \in JobIds
      BY <2>1, LatestTypes
    <2>3. QED
      BY <1>7, <2>1, <2>2 DEF ReadPath, Typed, TypeOK, Named, JobIds
  <1>8. CASE CancelJob
    <2>1. PICK j \in JobIds :
           /\ j = script.jid /\ j \in script.jids /\ script.cmd \in {"stop", "forget"}
           /\ \/ ~Alive(j) /\ script' = Idle /\ jobs' = jobs /\ points' = points
              \/ /\ Alive(j) /\ jobs' = [jobs EXCEPT ![j].state = "gone"]
                 /\ points' = [points EXCEPT ![jobs[j].pipe] = Recorded]
                 /\ \/ script' = Idle
                    \/ /\ script' \in Script /\ script'.cmd = script.cmd
                       /\ script'.jids = script.jids \ {j} /\ script'.jid = 0 /\ script'.read = NoPoint
      BY <1>8, CancelStep
    <2>2. /\ script' \in Script /\ script'.jids \subseteq JobIds /\ script'.jid = 0
          /\ script'.read = NoPoint /\ script'.cmd \notin {"submit", "resume"}
      BY <2>1, ScriptTypes DEF Typed, Named
    <2>3. jobs' \in Seq(Job) /\ JobIds' = JobIds
      <3>1. CASE jobs' = jobs
        BY <1>0, <3>1 DEF JobIds
      <3>2. CASE jobs' = [jobs EXCEPT ![j].state = "gone"]
        BY <1>0, <3>2, GoneStep, OneJob
      <3>3. QED
        BY <2>1, <3>1, <3>2
    <2>4. PICK recorded \in Point \cup {NoPoint} :
            recorded = Recorded /\ (recorded # NoPoint => recorded.job \in JobIds)
      BY ScriptTypes DEF Recorded, Typed, Named
    <2>5. points \in [Pipelines -> Point \cup {NoPoint}]
      BY DEF Typed, TypeOK
    <2>6. points' = points \/ points' = [points EXCEPT ![jobs[j].pipe] = recorded]
      BY <2>1, <2>4
    <2>7. /\ points' \in [Pipelines -> Point \cup {NoPoint}]
          /\ \A p \in Pipelines : points'[p] # NoPoint => points'[p].job \in JobIds
      BY <2>4, <2>5, <2>6 DEF Typed, Named
    <2>8. QED
      BY <1>8, <2>2, <2>3, <2>7 DEF CancelJob, Typed, TypeOK, Named
  <1>9. CASE Recreate
    <2>1. rows' \in [Pipelines -> [Events -> Nat]]
      BY <1>9 DEF Recreate
    <2>2. QED
      BY <1>9, <2>1 DEF Recreate, Typed, TypeOK, Named, JobIds
  <1>10. CASE UNCHANGED flinkVars
    BY <1>10 DEF flinkVars, Typed, TypeOK, Named, JobIds
  <1>11. QED
    BY <1>1, <1>2, <1>3, <1>4, <1>5, <1>6, <1>7, <1>8, <1>9, <1>10 DEF Next

\* Whatever slips, every variable keeps its type; the jobs that resume points, stop.sh and
\* its list name are jobs the cluster has had.
THEOREM TypeCorrect == Spec => []TypeOK
  <1>1. Spec => []Typed
    BY InitTyped, NextTyped, PTL DEF Spec
  <1>2. Typed => TypeOK
    BY DEF Typed
  <1>3. QED
    BY <1>1, <1>2, PTL

-----------------------------------------------------------------------------
(***************************************************************************)
(* The routine: what holds until something slips.                          *)
(***************************************************************************)
\* The table of p has the first t events, once each.
Prefix(p, t) == \A e \in Events : rows[p][e] = IF e <= t THEN 1 ELSE 0

\* A job has committed no more than its checkpoints cover, and they no more than it has read.
Healthy(j) == /\ j.start <= j.upto /\ j.upto <= j.done /\ j.done <= j.pos
              /\ j.chks = 0 => j.done = j.start
              /\ ~j.resumed => j.start = 0

\* One job writes a table, and the table is what that job has committed.
Writing ==
  /\ \A i, j \in JobIds : Alive(i) /\ Alive(j) /\ jobs[i].pipe = jobs[j].pipe => i = j
  /\ \A j \in JobIds : Alive(j) => Healthy(jobs[j]) /\ Prefix(jobs[j].pipe, jobs[j].upto)

\* The point of p names a checkpoint that is still there, and the table is what the job
\* that took it has committed.
Recoverable(p) ==
  LET j == jobs[points[p].job]
  IN  /\ j.pipe = p /\ j.chks = points[p].chk /\ j.upto <= points[p].pos
      /\ Prefix(p, j.upto)
Resting ==
  \A p \in Pipelines : AliveIn(p) = {} =>
    /\ \E t \in Nat : Prefix(p, t)
    /\ ~resetting => IF points[p] = NoPoint THEN Prefix(p, 0) ELSE Recoverable(p)

\* The jobs that a script still has to submit are not alive.
Submitting ==
  script.cmd \in {"submit", "resume"} =>
    /\ ~resetting
    /\ \A n \in 1 .. Len(script.todo) : AliveIn(script.todo[n]) = {}
    /\ \A m, n \in 1 .. Len(script.todo) : script.todo[m] = script.todo[n] => m = n

\* The jobs that stop.sh still has to cancel are alive, and will have a checkpoint of
\* their own or have written nothing; the path it has read is that of the latest one.
Stopping ==
  script.cmd \in {"stop", "forget"} =>
    /\ \A j \in script.jids : Alive(j) /\ ~(jobs[j].resumed /\ jobs[j].chks = 0)
    /\ script.cmd = "forget" => resetting
    /\ script.jid # 0 => script.read = LatestOf(script.jid)

Routine == Writing /\ Resting /\ Submitting /\ Stopping
ColdInv == Typed /\ (~slipped => Routine)

LEMMA FreePipe ==
  ASSUME NEW p
  PROVE  AliveIn(p) = {} <=> \A j \in JobIds : Alive(j) => jobs[j].pipe # p
  BY DEF AliveIn

\* A commit that goes on from where the table ends leaves a longer prefix.
LEMMA PrefixGrows ==
  ASSUME TypeOK, NEW p \in Pipelines, NEW from \in Nat, NEW to \in Nat, from <= to,
         Prefix(p, from), rows' = Committed(p, from, to)
  PROVE  Prefix(p, to)' /\ \A q \in Pipelines : q # p => rows'[q] = rows[q]
  <1>1. ASSUME NEW e \in Events
        PROVE  rows'[p][e] = IF e <= to THEN 1 ELSE 0
    <2>1. rows'[p][e] = rows[p][e] + IF e \in from + 1 .. to THEN 1 ELSE 0
      BY CommittedRows
    <2>2. rows[p][e] = IF e <= from THEN 1 ELSE 0
      BY DEF Prefix
    <2>3. rows'[p][e] = (IF e <= from THEN 1 ELSE 0) + IF e \in from + 1 .. to THEN 1 ELSE 0
      BY <2>1, <2>2
    <2>4. e \in Int
      BY DEF Events
    <2>5. \A n, m, e_ \in Int : n <= m =>
            (IF e_ <= n THEN 1 ELSE 0) + (IF e_ \in n + 1 .. m THEN 1 ELSE 0) = IF e_ <= m THEN 1 ELSE 0
      OBVIOUS
    <2>6. (IF e <= from THEN 1 ELSE 0) + (IF e \in from + 1 .. to THEN 1 ELSE 0) = IF e <= to THEN 1 ELSE 0
      BY <2>4, <2>5
    <2>7. QED
      BY <2>3, <2>6
  <1>2. QED
    BY <1>1, CommittedRows DEF Prefix

\* A table that has the first t events has at most t of them.
LEMMA LandedPrefix ==
  ASSUME NEW p \in Pipelines, NEW t \in Nat, Prefix(p, t)
  PROVE  Landed(p) \in Nat /\ Landed(p) <= t
  <1>1. PICK landed : landed = {e \in Events : rows[p][e] > 0}
    OBVIOUS
  <1>2. landed \subseteq 1 .. t
    BY <1>1 DEF Prefix, Events
  <1>3. IsFiniteSet(1 .. t) /\ Cardinality(1 .. t) = t
    <2>1. IsFiniteSet(1 .. t) /\ Cardinality(1 .. t) = IF 1 > t THEN 0 ELSE t - 1 + 1
      BY FS_Interval
    <2>2. QED
      BY <2>1
  <1>4. IsFiniteSet(landed) /\ Cardinality(landed) <= Cardinality(1 .. t)
    BY <1>2, <1>3, FS_Subset
  <1>5. Cardinality(landed) \in Nat
    BY <1>4, FS_CardinalityType
  <1>6. QED
    BY <1>1, <1>3, <1>4, <1>5 DEF Landed

\* A table that nothing has landed in is empty.
LEMMA LandedNothing ==
  ASSUME TypeOK, NEW p \in Pipelines, Landed(p) = 0
  PROVE  Prefix(p, 0)
  <1>1. PICK landed : landed = {e \in Events : rows[p][e] > 0}
    OBVIOUS
  <1>2. MaxEvents \in Nat
    BY FlinkAssumption
  <1>3. IsFiniteSet(1 .. MaxEvents)
    BY <1>2, FS_Interval
  <1>4. IsFiniteSet(landed) /\ Cardinality(landed) = 0
    BY <1>1, <1>3, FS_Subset DEF Landed, Events
  <1>5. landed = {}
    BY <1>4, FS_EmptySet
  <1>6. \A e \in Events : ~(rows[p][e] > 0)
    BY <1>1, <1>5
  <1>7. rows[p] \in [Events -> Nat]
    BY DEF TypeOK
  <1>8. \A e \in Events : rows[p][e] = 0
    BY <1>6, <1>7
  <1>9. \A e \in Events : ~(e <= 0)
    BY <1>2 DEF Events
  <1>10. QED
    BY <1>8, <1>9 DEF Prefix

LEMMA InitCold == Init => ColdInv
  <1> SUFFICES ASSUME Init PROVE ColdInv
    OBVIOUS
  <1>1. Typed
    BY InitTyped
  <1>2. JobIds = {}
    BY DEF Init, JobIds
  <1>3. \A p \in Pipelines : Prefix(p, 0)
    BY DEF Init, Prefix, Events
  <1>4. Writing /\ Resting
    BY <1>2, <1>3 DEF Writing, Resting, Init
  <1>5. Submitting /\ Stopping
    BY DEF Init, Idle, Submitting, Stopping
  <1>6. QED
    BY <1>1, <1>4, <1>5 DEF ColdInv, Routine

-----------------------------------------------------------------------------
\* A step of a job that is alive and stays it, and of no other job or table.
LEMMA JobKeepsRoutine ==
  ASSUME Typed, Routine, NEW j \in JobIds, NEW new \in Job, Becomes(j, new), Same(j, new),
         NEW pipe \in Pipelines, pipe = jobs[j].pipe, Alive(j), new.state # "gone", Healthy(new),
         jobs[j].chks # 0 => new.chks # 0,
         script.jid = j => new.chks = jobs[j].chks /\ new.done = jobs[j].done,
         Prefix(pipe, new.upto)', \A q \in Pipelines : q # pipe => rows'[q] = rows[q],
         points' = points, script' = script, resetting' = resetting
  PROVE  Routine'
  <1>1. /\ JobIds' = JobIds /\ jobs'[j] = new /\ \A i \in JobIds : i # j => jobs'[i] = jobs[i]
        /\ new.pipe = jobs[j].pipe /\ new.resumed = jobs[j].resumed
    BY OneJob DEF Typed, Same
  <1>2. \A i \in JobIds : (Alive(i)' <=> Alive(i)) /\ jobs'[i].pipe = jobs[i].pipe
    BY <1>1 DEF Alive
  <1>3. \A p : AliveIn(p)' = AliveIn(p)
    BY <1>1, <1>2 DEF AliveIn
  <1>4. Writing'
    <2>1. \A i, k \in JobIds : Alive(i) /\ Alive(k) /\ jobs[i].pipe = jobs[k].pipe => i = k
      BY DEF Routine, Writing
    <2>2. ASSUME NEW i \in JobIds, Alive(i)'
          PROVE  Healthy(jobs[i])' /\ Prefix(jobs[i].pipe, jobs[i].upto)'
      <3>1. CASE i = j
        BY <1>1, <3>1 DEF Healthy, Prefix
      <3>2. CASE i # j
        <4>1. Alive(i) /\ jobs[i].pipe # jobs[j].pipe /\ jobs[i].pipe \in Pipelines
          BY <1>2, <2>1, <2>2, <3>2, JobTypes DEF Typed
        <4>2. Healthy(jobs[i]) /\ Prefix(jobs[i].pipe, jobs[i].upto)
          BY <4>1 DEF Routine, Writing
        <4>3. rows'[jobs[i].pipe] = rows[jobs[i].pipe] /\ jobs'[i] = jobs[i]
          BY <1>1, <3>2, <4>1
        <4>4. QED
          BY <4>2, <4>3 DEF Healthy, Prefix
      <3>3. QED
        BY <3>1, <3>2
    <2>3. QED
      BY <1>1, <1>2, <2>1, <2>2 DEF Writing
  <1>5. Resting'
    <2>1. ASSUME NEW p \in Pipelines, AliveIn(p)' = {}
          PROVE  /\ \E t \in Nat : Prefix(p, t)'
                 /\ ~resetting' => IF points'[p] = NoPoint THEN Prefix(p, 0)' ELSE Recoverable(p)'
      <3>1. AliveIn(p) = {} /\ p # jobs[j].pipe
        BY <1>3, <2>1, FreePipe
      <3>2. rows'[p] = rows[p]
        BY <3>1
      <3>3. /\ \E t \in Nat : Prefix(p, t)
            /\ ~resetting => IF points[p] = NoPoint THEN Prefix(p, 0) ELSE Recoverable(p)
        BY <3>1 DEF Routine, Resting
      <3>4. ASSUME points[p] # NoPoint, Recoverable(p)
            PROVE  Recoverable(p)'
        <4>1. points[p].job \in JobIds /\ jobs[points[p].job].pipe = p
          BY <3>4 DEF Typed, Named, Recoverable
        <4>2. jobs'[points[p].job] = jobs[points[p].job]
          BY <1>1, <3>1, <4>1
        <4>3. QED
          BY <3>2, <3>4, <4>2 DEF Recoverable, Prefix
      <3>5. QED
        BY <3>2, <3>3, <3>4 DEF Prefix
    <2>2. QED
      BY <2>1 DEF Resting
  <1>6. Submitting'
    BY <1>3 DEF Routine, Submitting
  <1>7. Stopping'
    <2>1. ASSUME script.cmd \in {"stop", "forget"}, NEW i \in script.jids
          PROVE  Alive(i)' /\ ~(jobs'[i].resumed /\ jobs'[i].chks = 0)
      <3>1. i \in JobIds /\ Alive(i) /\ ~(jobs[i].resumed /\ jobs[i].chks = 0)
        BY <2>1 DEF Routine, Stopping, Typed, Named
      <3>2. QED
        BY <1>1, <1>2, <3>1
    <2>2. ASSUME script.jid # 0
          PROVE  LatestOf(script.jid)' = LatestOf(script.jid)
      <3>1. script.jid \in JobIds
        BY <2>2 DEF Typed, Named
      <3>2. jobs'[script.jid].chks = jobs[script.jid].chks /\ jobs'[script.jid].done = jobs[script.jid].done
        BY <1>1, <3>1
      <3>3. QED
        BY <3>2 DEF LatestOf
    <2>3. QED
      BY <2>1, <2>2 DEF Routine, Stopping
  <1>8. QED
    BY <1>4, <1>5, <1>6, <1>7 DEF Routine

LEMMA ClusterKeepsRoutine ==
  ASSUME Typed, Routine, NEW j \in JobIds, Cluster(j) \/ Fail(j) \/ GiveUp(j), ~slipped'
  PROVE  Routine'
  <1>0. /\ TypeOK /\ jobs[j].pipe \in Pipelines
        /\ jobs[j].start \in Nat /\ jobs[j].pos \in Nat /\ jobs[j].chks \in Nat
        /\ jobs[j].done \in Nat /\ jobs[j].upto \in Nat
    BY JobTypes DEF Typed
  <1>1. PICK pipe \in Pipelines :
          /\ pipe = jobs[j].pipe
          /\ Alive(j) => Healthy(jobs[j]) /\ Prefix(pipe, jobs[j].upto)
    BY <1>0 DEF Routine, Writing
  <1>2. CASE Read(j)
    <2>1. PICK new \in Job :
            /\ Becomes(j, new) /\ Same(j, new) /\ jobs[j].state = "running" /\ new.state = "running"
            /\ new.chks = jobs[j].chks /\ new.done = jobs[j].done /\ new.upto = jobs[j].upto
            /\ new.pos = jobs[j].pos + 1
      BY <1>2, ReadStep
    <2>2. Alive(j) /\ Healthy(new)
      BY <1>0, <1>1, <2>1 DEF Alive, Healthy, Same
    <2>3. rows' = rows /\ points' = points /\ script' = script /\ resetting' = resetting
      BY <1>2 DEF Read
    <2>4. Prefix(pipe, new.upto)'
      BY <1>1, <2>1, <2>2, <2>3 DEF Prefix
    <2>5. QED
      BY <1>1, <2>1, <2>2, <2>3, <2>4, JobKeepsRoutine
  <1>3. CASE Checkpoint(j)
    <2>1. PICK new \in Job :
            /\ Becomes(j, new) /\ Same(j, new) /\ jobs[j].state = "running" /\ new.state = "running"
            /\ new.chks = jobs[j].chks + 1 /\ new.done = jobs[j].pos /\ new.upto = jobs[j].upto
            /\ new.pos = jobs[j].pos
      BY <1>3, CheckpointStep
    <2>2. Alive(j) /\ Healthy(new) /\ new.chks # 0
      BY <1>0, <1>1, <2>1 DEF Alive, Healthy, Same
    <2>3. /\ rows' = rows /\ points' = points /\ script' = script /\ resetting' = resetting
          /\ script.jid # j
      BY <1>3 DEF Checkpoint, Slip
    <2>4. Prefix(pipe, new.upto)'
      BY <1>1, <2>1, <2>2, <2>3 DEF Prefix
    <2>5. QED
      BY <1>1, <2>1, <2>2, <2>3, <2>4, JobKeepsRoutine
  <1>4. CASE Commit(j)
    <2>1. PICK new \in Job :
            /\ Becomes(j, new) /\ Same(j, new) /\ jobs[j].state = "running" /\ new.state = "running"
            /\ new.chks = jobs[j].chks /\ new.done = jobs[j].done /\ new.upto = jobs[j].done
            /\ new.pos = jobs[j].pos
      BY <1>4, CommitStep
    <2>2. Alive(j) /\ Healthy(new) /\ jobs[j].upto <= jobs[j].done
      BY <1>0, <1>1, <2>1 DEF Alive, Healthy, Same
    <2>3. /\ rows' = Committed(pipe, jobs[j].upto, jobs[j].done)
          /\ points' = points /\ script' = script /\ resetting' = resetting
      BY <1>1, <1>4 DEF Commit
    <2>4. Prefix(pipe, new.upto)' /\ \A q \in Pipelines : q # pipe => rows'[q] = rows[q]
      <3>1. PICK from \in Nat, to \in Nat : from = jobs[j].upto /\ to = jobs[j].done
        BY <1>0
      <3>2. Prefix(pipe, to)' /\ \A q \in Pipelines : q # pipe => rows'[q] = rows[q]
        BY <1>0, <1>1, <2>2, <2>3, <3>1, PrefixGrows
      <3>3. new.upto = to
        BY <2>1, <3>1
      <3>4. QED
        BY <3>2, <3>3
    <2>5. QED
      BY <1>1, <2>1, <2>2, <2>3, <2>4, JobKeepsRoutine
  <1>5. CASE Fail(j)
    <2>1. PICK new \in Job :
            /\ Becomes(j, new) /\ Same(j, new) /\ jobs[j].state = "running" /\ new.state = "restarting"
            /\ new.chks = jobs[j].chks /\ new.done = jobs[j].done /\ new.upto = jobs[j].upto
            /\ new.pos = jobs[j].pos
      BY <1>5, FailStep
    <2>2. Alive(j) /\ Healthy(new)
      BY <1>0, <1>1, <2>1 DEF Alive, Healthy, Same
    <2>3. rows' = rows /\ points' = points /\ script' = script /\ resetting' = resetting
      BY <1>5 DEF Fail
    <2>4. Prefix(pipe, new.upto)'
      BY <1>1, <2>1, <2>2, <2>3 DEF Prefix
    <2>5. QED
      BY <1>1, <2>1, <2>2, <2>3, <2>4, JobKeepsRoutine
  <1>6. CASE Restart(j)
    <2>1. PICK new \in Job :
            /\ Becomes(j, new) /\ Same(j, new) /\ jobs[j].state = "restarting" /\ new.state = "running"
            /\ new.chks = jobs[j].chks /\ new.done = jobs[j].done /\ new.upto = jobs[j].done
            /\ new.pos = jobs[j].done
      BY <1>6, RestartStep
    <2>2. Alive(j) /\ Healthy(new) /\ jobs[j].upto <= jobs[j].done
      BY <1>0, <1>1, <2>1 DEF Alive, Healthy, Same
    <2>3. /\ rows' = Committed(pipe, jobs[j].upto, jobs[j].done)
          /\ points' = points /\ script' = script /\ resetting' = resetting
      BY <1>1, <1>6 DEF Restart
    <2>4. Prefix(pipe, new.upto)' /\ \A q \in Pipelines : q # pipe => rows'[q] = rows[q]
      <3>1. PICK from \in Nat, to \in Nat : from = jobs[j].upto /\ to = jobs[j].done
        BY <1>0
      <3>2. Prefix(pipe, to)' /\ \A q \in Pipelines : q # pipe => rows'[q] = rows[q]
        BY <1>0, <1>1, <2>2, <2>3, <3>1, PrefixGrows
      <3>3. new.upto = to
        BY <2>1, <3>1
      <3>4. QED
        BY <3>2, <3>3
    <2>5. QED
      BY <1>1, <2>1, <2>2, <2>3, <2>4, JobKeepsRoutine
  <1>7. CASE GiveUp(j)
    BY <1>7 DEF GiveUp, Slip
  <1>8. QED
    BY <1>2, <1>3, <1>4, <1>5, <1>6, <1>7 DEF Cluster

\* A step that leaves jobs, tables and points alone.
LEMMA SameJobs ==
  ASSUME Routine, jobs' = jobs, rows' = rows, points' = points, resetting' = resetting
  PROVE  Writing' /\ Resting'
  BY DEF Routine, Writing, Resting, Recoverable, Prefix, Alive, AliveIn, JobIds

\* The first pipeline of the list gets a job: nothing of that pipeline is alive, and the
\* job goes on from what its table holds.
LEMMA SubmittedKeepsRoutine ==
  ASSUME Typed, Routine, script.cmd \in {"submit", "resume"}, Continue,
         NEW pipe \in Pipelines, pipe = Head(script.todo),
         NEW base \in Seq(Job), Len(base) = Len(jobs),
         \A i \in JobIds : base[i].pipe = jobs[i].pipe /\ base[i].state = jobs[i].state,
         \A i \in JobIds : jobs[i].pipe # pipe => base[i] = jobs[i],
         NEW new \in Job, jobs' = Append(base, new), new.pipe = pipe, new.state = "running", Healthy(new),
         Prefix(pipe, new.upto)', \A q \in Pipelines : q # pipe => rows'[q] = rows[q],
         points' = points, resetting' = resetting
  PROVE  Routine'
  <1>1. PICK k : k = Len(jobs) + 1
    OBVIOUS
  <1>2. /\ JobIds' = JobIds \cup {k} /\ k \notin JobIds /\ jobs'[k] = new
        /\ \A i \in JobIds : jobs'[i] = base[i]
    BY <1>1, OneMore DEF Typed, TypeOK
  <1>3. /\ script.todo \in Seq(Pipelines) /\ script.todo # <<>>
        /\ ~resetting
        /\ \A n \in 1 .. Len(script.todo) : AliveIn(script.todo[n]) = {}
        /\ \A m, n \in 1 .. Len(script.todo) : script.todo[m] = script.todo[n] => m = n
    BY ScriptTypes DEF Routine, Submitting, Typed, Named
  <1>4. Len(script.todo) \in Nat \ {0} /\ pipe = script.todo[1]
    BY <1>3, ListRest
  <1>5. 1 \in 1 .. Len(script.todo)
    BY <1>4
  <1>6. AliveIn(pipe) = {}
    BY <1>3, <1>4, <1>5
  <1>7. \A i \in JobIds : (Alive(i)' <=> Alive(i)) /\ jobs'[i].pipe = jobs[i].pipe
    BY <1>2 DEF Alive
  <1>8. Alive(k)' /\ jobs'[k].pipe = pipe
    BY <1>2 DEF Alive
  <1>9. \A i \in JobIds : Alive(i) => jobs[i].pipe # pipe /\ jobs'[i] = jobs[i]
    BY <1>2, <1>6, FreePipe
  <1>10. \A q : q # pipe => AliveIn(q)' = AliveIn(q)
    BY <1>2, <1>7, <1>8 DEF AliveIn
  <1>11. Writing'
    <2>1. ASSUME NEW i \in JobIds', NEW l \in JobIds', Alive(i)', Alive(l)', jobs'[i].pipe = jobs'[l].pipe
          PROVE  i = l
      <3>1. \A m, n \in JobIds : Alive(m) /\ Alive(n) /\ jobs[m].pipe = jobs[n].pipe => m = n
        BY DEF Routine, Writing
      <3>2. CASE i \in JobIds /\ l \in JobIds
        BY <1>7, <2>1, <3>1, <3>2
      <3>3. CASE i = k /\ l \in JobIds
        <4>1. Alive(l) /\ jobs'[l].pipe = jobs[l].pipe /\ jobs[l].pipe # pipe /\ jobs'[i].pipe = pipe
          BY <1>7, <1>8, <1>9, <2>1, <3>3
        <4>2. QED
          BY <2>1, <4>1
      <3>4. CASE i \in JobIds /\ l = k
        <4>1. Alive(i) /\ jobs'[i].pipe = jobs[i].pipe /\ jobs[i].pipe # pipe /\ jobs'[l].pipe = pipe
          BY <1>7, <1>8, <1>9, <2>1, <3>4
        <4>2. QED
          BY <2>1, <4>1
      <3>5. QED
        BY <1>2, <3>2, <3>3, <3>4
    <2>2. ASSUME NEW i \in JobIds', Alive(i)'
          PROVE  Healthy(jobs[i])' /\ Prefix(jobs[i].pipe, jobs[i].upto)'
      <3>1. CASE i = k
        <4>1. jobs'[i] = new
          BY <1>2, <3>1
        <4>2. QED
          BY <4>1 DEF Healthy, Prefix
      <3>2. CASE i # k
        <4>1. i \in JobIds /\ Alive(i)
          BY <1>2, <1>7, <2>2, <3>2
        <4>2. jobs[i].pipe # pipe /\ jobs'[i] = jobs[i] /\ jobs[i].pipe \in Pipelines
          BY <1>9, <4>1, JobTypes DEF Typed
        <4>3. Healthy(jobs[i]) /\ Prefix(jobs[i].pipe, jobs[i].upto)
          BY <4>1 DEF Routine, Writing
        <4>4. rows'[jobs[i].pipe] = rows[jobs[i].pipe]
          BY <4>2
        <4>5. QED
          BY <4>2, <4>3, <4>4 DEF Healthy, Prefix
      <3>3. QED
        BY <3>1, <3>2
    <2>3. QED
      BY <2>1, <2>2 DEF Writing
  <1>12. Resting'
    <2>1. ASSUME NEW p \in Pipelines, AliveIn(p)' = {}
          PROVE  /\ \E t \in Nat : Prefix(p, t)'
                 /\ ~resetting' => IF points'[p] = NoPoint THEN Prefix(p, 0)' ELSE Recoverable(p)'
      <3>1. p # pipe
        BY <1>2, <1>8, <2>1 DEF AliveIn
      <3>2. AliveIn(p) = {} /\ rows'[p] = rows[p]
        BY <1>10, <2>1, <3>1
      <3>3. /\ \E t \in Nat : Prefix(p, t)
            /\ ~resetting => IF points[p] = NoPoint THEN Prefix(p, 0) ELSE Recoverable(p)
        BY <3>2 DEF Routine, Resting
      <3>4. ASSUME points[p] # NoPoint, Recoverable(p)
            PROVE  Recoverable(p)'
        <4>1. points[p].job \in JobIds /\ jobs[points[p].job].pipe = p
          BY <3>4 DEF Typed, Named, Recoverable
        <4>2. jobs'[points[p].job] = jobs[points[p].job]
          BY <1>2, <3>1, <4>1
        <4>3. QED
          BY <3>2, <3>4, <4>2 DEF Recoverable, Prefix
      <3>5. QED
        BY <3>2, <3>3, <3>4 DEF Prefix
    <2>2. QED
      BY <2>1 DEF Resting
  <1>13. Submitting' /\ Stopping'
    <2>1. CASE script' = Idle
      BY <2>1 DEF Idle, Submitting, Stopping
    <2>2. CASE script'.cmd = script.cmd /\ script'.todo = Tail(script.todo)
      <3>1. PICK rest \in Seq(Pipelines) :
              /\ rest = Tail(script.todo) /\ Len(rest) = Len(script.todo) - 1
              /\ \A n \in 1 .. Len(script.todo) - 1 : rest[n] = script.todo[n + 1]
        BY <1>3, ListRest
      <3>2. \A n \in 1 .. Len(rest) : rest[n] = script.todo[n + 1] /\ n + 1 \in 1 .. Len(script.todo) /\ n + 1 # 1
        BY <1>4, <3>1
      <3>3. ASSUME NEW n \in 1 .. Len(rest)
            PROVE  rest[n] # pipe /\ AliveIn(rest[n]) = {}
        <4>1. rest[n] = script.todo[n + 1] /\ n + 1 \in 1 .. Len(script.todo) /\ n + 1 # 1
          BY <3>2
        <4>2. PICK l \in 1 .. Len(script.todo) : l = n + 1
          BY <4>1
        <4>3. script.todo[l] # script.todo[1] /\ AliveIn(script.todo[l]) = {}
          BY <1>3, <1>5, <4>1, <4>2
        <4>4. QED
          BY <1>4, <4>1, <4>2, <4>3
      <3>4. \A n \in 1 .. Len(rest) : AliveIn(rest[n])' = {}
        BY <1>10, <3>3
      <3>5. ASSUME NEW m \in 1 .. Len(rest), NEW n \in 1 .. Len(rest), rest[m] = rest[n]
            PROVE  m = n
        <4>1. PICK l \in 1 .. Len(script.todo) : l = m + 1 /\ rest[m] = script.todo[l]
          BY <3>2
        <4>2. PICK o \in 1 .. Len(script.todo) : o = n + 1 /\ rest[n] = script.todo[o]
          BY <3>2
        <4>3. l = o
          BY <1>3, <3>5, <4>1, <4>2
        <4>4. QED
          BY <4>1, <4>2, <4>3
      <3>6. script'.todo = rest /\ resetting' = FALSE
        BY <1>3, <2>2, <3>1 DEF Typed, TypeOK
      <3>7. \A n \in 1 .. Len(script'.todo) : AliveIn(script.todo[n])' = {}
        BY <3>4, <3>6 DEF AliveIn
      <3>8. Submitting'
        BY <3>5, <3>6, <3>7 DEF Submitting
      <3>9. QED
        BY <2>2, <3>8 DEF Stopping
    <2>3. QED
      BY <2>1, <2>2, ContinueStep
  <1>14. QED
    BY <1>11, <1>12, <1>13 DEF Routine

LEMMA SubmitKeepsRoutine ==
  ASSUME Typed, Routine, SubmitNext
  PROVE  Routine'
  <1>1. rows' = rows /\ points' = points /\ resetting' = resetting
    BY DEF SubmitNext
  <1>2. CASE script' = Idle /\ jobs' = jobs
    BY <1>1, <1>2, SameJobs DEF Idle, Submitting, Stopping, Routine
  <1>3. CASE ~(script' = Idle /\ jobs' = jobs)
    <2>1. PICK pipe \in Pipelines : pipe = Head(script.todo)
      BY SubmitStep
    <2>2. /\ script.cmd = "submit" /\ points[pipe] = NoPoint /\ Continue
          /\ \E new \in Job : new = NewJob(pipe, FALSE, 0) /\ jobs' = Append(jobs, new)
      BY <1>3, <2>1, SubmitStep
    <2>3. PICK new \in Job : new = NewJob(pipe, FALSE, 0) /\ jobs' = Append(jobs, new)
      BY <2>2
    <2>4. new.pipe = pipe /\ new.state = "running" /\ new.upto = 0 /\ Healthy(new)
      BY <2>3 DEF NewJob, Healthy
    <2>5. /\ script.todo \in Seq(Pipelines) /\ script.todo # <<>> /\ ~resetting
          /\ \A n \in 1 .. Len(script.todo) : AliveIn(script.todo[n]) = {}
      BY <2>2, ScriptTypes DEF Routine, Submitting, Typed, Named
    <2>6. Len(script.todo) \in Nat \ {0} /\ pipe = script.todo[1]
      BY <2>1, <2>5, ListRest
    <2>7. 1 \in 1 .. Len(script.todo)
      BY <2>6
    <2>8. AliveIn(pipe) = {}
      BY <2>5, <2>6, <2>7
    <2>9. Prefix(pipe, 0)
      BY <2>2, <2>5, <2>8 DEF Routine, Resting
    <2>10. Prefix(pipe, new.upto)'
      BY <1>1, <2>4, <2>9 DEF Prefix
    <2>11. jobs \in Seq(Job)
      BY DEF Typed, TypeOK
    <2>12. QED
      BY <1>1, <2>1, <2>2, <2>3, <2>4, <2>10, <2>11, SubmittedKeepsRoutine
  <1>4. QED
    BY <1>2, <1>3

LEMMA ResumeKeepsRoutine ==
  ASSUME Typed, Routine, ResumeNext
  PROVE  Routine'
  <1>1. points' = points /\ resetting' = resetting
    BY DEF ResumeNext
  <1>2. CASE script' = Idle /\ jobs' = jobs /\ rows' = rows
    BY <1>1, <1>2, SameJobs DEF Idle, Submitting, Stopping, Routine
  <1>3. CASE ~(script' = Idle /\ jobs' = jobs /\ rows' = rows)
    <2>1. PICK pipe \in Pipelines, point \in Point, old \in Job, new \in Job, base \in Seq(Job) :
            Resumes(pipe, point, old, new, base)
      BY <1>3, ResumeStep
    <2>2. /\ script.cmd = "resume" /\ Continue /\ pipe = Head(script.todo)
          /\ point = points[pipe] /\ point # NoPoint /\ point.job \in JobIds /\ point.pos \in Nat
      BY <2>1, ResumeStep DEF Resumes
    <2>3. PICK j \in JobIds : j = point.job
      BY <2>2
    <2>4. PICK from \in Nat, to \in Nat : from = jobs[j].upto /\ to = point.pos
      BY <2>2, JobTypes DEF Typed
    <2>5. /\ script.todo \in Seq(Pipelines) /\ script.todo # <<>> /\ ~resetting
          /\ \A n \in 1 .. Len(script.todo) : AliveIn(script.todo[n]) = {}
      BY <2>2, ScriptTypes DEF Routine, Submitting, Typed, Named
    <2>6. Len(script.todo) \in Nat \ {0} /\ pipe = script.todo[1]
      BY <2>2, <2>5, ListRest
    <2>7. 1 \in 1 .. Len(script.todo)
      BY <2>6
    <2>8. AliveIn(pipe) = {}
      BY <2>5, <2>6, <2>7
    <2>9. Recoverable(pipe)
      BY <2>2, <2>5, <2>8 DEF Routine, Resting
    <2>10. jobs[j].pipe = pipe /\ from <= to /\ Prefix(pipe, from)
      BY <2>2, <2>3, <2>4, <2>9 DEF Recoverable
    <2>11. rows' = Committed(pipe, from, to)
      BY <2>1, <2>3, <2>4 DEF Resumes
    <2>12. Prefix(pipe, to)' /\ \A q \in Pipelines : q # pipe => rows'[q] = rows[q]
      BY <2>10, <2>11, PrefixGrows DEF Typed
    <2>13. new = NewJob(pipe, TRUE, to) /\ jobs' = Append(base, new)
      BY <2>1, <2>4 DEF Resumes
    <2>14. new.pipe = pipe /\ new.state = "running" /\ new.upto = to /\ Healthy(new)
      BY <2>13 DEF NewJob, Healthy
    <2>15. /\ base = [jobs EXCEPT ![j] = old] /\ Len(base) = Len(jobs)
           /\ old.pipe = jobs[j].pipe /\ old.state = jobs[j].state
      BY <2>1, <2>3 DEF Resumes, Same
    <2>16. /\ \A i \in JobIds : base[i].pipe = jobs[i].pipe /\ base[i].state = jobs[i].state
           /\ \A i \in JobIds : jobs[i].pipe # pipe => base[i] = jobs[i]
      <3>1. base[j] = old /\ \A i \in JobIds : i # j => base[i] = jobs[i]
        BY <2>15 DEF Typed, TypeOK, JobIds
      <3>2. QED
        BY <2>10, <2>15, <3>1
    <2>17. Prefix(pipe, new.upto)'
      BY <2>12, <2>14
    <2>18. QED
      BY <1>1, <2>2, <2>12, <2>13, <2>14, <2>15, <2>16, <2>17, SubmittedKeepsRoutine
  <1>4. QED
    BY <1>2, <1>3

\* submit.sh begins: with a reset under way, it has to be complete.
LEMMA BeginSubmitKeepsRoutine ==
  ASSUME Typed, Routine, NEW cmd \in {"submit", "resume"}, NEW todo \in JobLists,
         BeginSubmit(cmd, todo), ~slipped'
  PROVE  Routine'
  <1>1. /\ jobs' = jobs /\ rows' = rows /\ points' = points /\ resetting' = FALSE
        /\ \A n \in 1 .. Len(todo) : AliveIn(todo[n]) = {}
        /\ resetting => Clean
        /\ script' = [Idle EXCEPT !.cmd = cmd, !.todo = todo]
    BY DEF BeginSubmit, Slip
  <1>2. /\ script'.cmd = cmd /\ script'.todo = todo
    BY <1>1 DEF Idle
  <1>3. Writing'
    BY <1>1 DEF Routine, Writing, Prefix, Alive, JobIds
  <1>4. \A p : AliveIn(p)' = AliveIn(p)
    BY <1>1 DEF AliveIn, Alive, JobIds
  <1>5. ASSUME NEW p \in Pipelines, AliveIn(p) = {}
        PROVE  /\ \E t \in Nat : Prefix(p, t)
               /\ IF points[p] = NoPoint THEN Prefix(p, 0) ELSE Recoverable(p)
    <2>1. CASE ~resetting
      BY <1>5, <2>1 DEF Routine, Resting
    <2>2. CASE resetting
      BY <1>1, <2>2, LandedNothing DEF Clean, Typed
    <2>3. QED
      BY <2>1, <2>2
  <1>6. Resting'
    BY <1>1, <1>4, <1>5 DEF Resting, Prefix, Recoverable
  <1>7. \A m, n \in 1 .. Len(todo) : todo[m] = todo[n] => m = n
    BY FlinkAssumption
  <1>8. \A n \in 1 .. Len(script'.todo) : AliveIn(script.todo[n])' = {}
    BY <1>1, <1>2 DEF AliveIn, Alive, JobIds
  <1>9. Submitting' /\ Stopping'
    BY <1>1, <1>2, <1>7, <1>8 DEF Submitting, Stopping
  <1>10. QED
    BY <1>3, <1>6, <1>9 DEF Routine

LEMMA BeginStopKeepsRoutine ==
  ASSUME Typed, Routine, NEW cmd \in {"stop", "forget"}, BeginStop(cmd), ~slipped'
  PROVE  Routine'
  <1>1. PICK running \in SUBSET JobIds :
           /\ running = {j \in JobIds : jobs[j].state = "running"}
           /\ script = Idle
           /\ \/ running = {} /\ script' = script
              \/ /\ running # {} /\ script' \in Script /\ script'.cmd = cmd /\ script'.jids = running
                 /\ script'.jid = 0 /\ script'.read = NoPoint /\ points' = points
    BY BeginStopStep
  <1>2. /\ jobs' = jobs /\ rows' = rows
        /\ (resetting' = FALSE => resetting = FALSE /\ points' = points /\ cmd = "stop")
        /\ ~ \E j \in running : jobs[j].resumed /\ jobs[j].chks = 0
    BY <1>1 DEF BeginStop, Slip, Typed, TypeOK
  <1>3. resetting' \in BOOLEAN
    BY DEF BeginStop, Typed, TypeOK
  <1>4. Writing'
    BY <1>2 DEF Routine, Writing, Prefix, Alive, JobIds
  <1>5. \A p : AliveIn(p)' = AliveIn(p)
    BY <1>2 DEF AliveIn, Alive, JobIds
  <1>6. Resting'
    BY <1>2, <1>3, <1>5 DEF Routine, Resting, Prefix, Recoverable
  <1>7. Submitting'
    BY <1>1 DEF Idle, Submitting
  <1>8. Stopping'
    <2>1. \A j \in running : Alive(j) /\ ~(jobs[j].resumed /\ jobs[j].chks = 0)
      BY <1>1, <1>2 DEF Alive
    <2>2. cmd = "forget" => resetting'
      BY <1>2, <1>3
    <2>3. QED
      BY <1>1, <1>2, <2>1, <2>2 DEF Stopping, Idle, Alive
  <1>9. QED
    BY <1>4, <1>6, <1>7, <1>8 DEF Routine

LEMMA ReadPathKeepsRoutine ==
  ASSUME Typed, Routine, ReadPath
  PROVE  Routine'
  <1>1. PICK j \in script.jids :
           /\ script.cmd \in {"stop", "forget"} /\ j \in JobIds /\ j # 0
           /\ script'.cmd = script.cmd /\ script'.jids = script.jids
           /\ script'.jid = j /\ script'.read = LatestOf(j)
    BY ReadPathStep
  <1>2. jobs' = jobs /\ rows' = rows /\ points' = points /\ resetting' = resetting
    BY DEF ReadPath
  <1>3. Writing' /\ Resting'
    BY <1>2, SameJobs
  <1>4. Submitting'
    BY <1>1 DEF Submitting
  <1>5. script'.read = LatestOf(script.jid)'
    BY <1>1, <1>2 DEF LatestOf
  <1>6. Stopping'
    BY <1>1, <1>2, <1>5 DEF Routine, Stopping, Alive
  <1>7. QED
    BY <1>3, <1>4, <1>6 DEF Routine

\* A job is cancelled, and its file has the path of its latest checkpoint, or is removed.
LEMMA CancelKeepsRoutine ==
  ASSUME Typed, Routine, CancelJob
  PROVE  Routine'
  <1>1. PICK j \in JobIds :
           /\ j = script.jid /\ j \in script.jids /\ script.cmd \in {"stop", "forget"}
           /\ \/ ~Alive(j) /\ script' = Idle /\ jobs' = jobs /\ points' = points
              \/ /\ Alive(j) /\ jobs' = [jobs EXCEPT ![j].state = "gone"]
                 /\ points' = [points EXCEPT ![jobs[j].pipe] = Recorded]
                 /\ \/ script' = Idle
                    \/ /\ script' \in Script /\ script'.cmd = script.cmd
                       /\ script'.jids = script.jids \ {j} /\ script'.jid = 0 /\ script'.read = NoPoint
    BY CancelStep
  <1>2. /\ rows' = rows /\ resetting' = resetting /\ j # 0
        /\ \A i \in script.jids : i \in JobIds /\ Alive(i) /\ ~(jobs[i].resumed /\ jobs[i].chks = 0)
        /\ script.cmd = "forget" => resetting
        /\ script.read = LatestOf(j)
    BY <1>1 DEF CancelJob, Routine, Stopping, Typed, Named, JobIds
  <1>3. PICK pipe \in Pipelines : pipe = jobs[j].pipe
    BY JobTypes DEF Typed
  <1>4. /\ Alive(j) /\ Healthy(jobs[j]) /\ Prefix(pipe, jobs[j].upto)
        /\ \A i, k \in JobIds : Alive(i) /\ Alive(k) /\ jobs[i].pipe = jobs[k].pipe => i = k
    BY <1>1, <1>2, <1>3 DEF Routine, Writing
  <1>5. PICK new \in Job :
          /\ Becomes(j, new) /\ Same(j, new) /\ new.state = "gone"
          /\ new.chks = jobs[j].chks /\ new.upto = jobs[j].upto
    BY <1>1, <1>4, GoneStep
  <1>6. /\ JobIds' = JobIds /\ jobs'[j] = new /\ \A i \in JobIds : i # j => jobs'[i] = jobs[i]
        /\ new.pipe = pipe
    BY <1>3, <1>5, OneJob DEF Typed, Same
  <1>7. \A i \in JobIds : (Alive(i)' <=> Alive(i) /\ i # j) /\ jobs'[i].pipe = jobs[i].pipe
    BY <1>3, <1>5, <1>6 DEF Alive
  <1>8. Writing'
    <2>1. ASSUME NEW i \in JobIds, Alive(i)'
          PROVE  Healthy(jobs[i])' /\ Prefix(jobs[i].pipe, jobs[i].upto)'
      <3>1. Alive(i) /\ jobs'[i] = jobs[i]
        BY <1>6, <1>7, <2>1
      <3>2. Healthy(jobs[i]) /\ Prefix(jobs[i].pipe, jobs[i].upto)
        BY <3>1 DEF Routine, Writing
      <3>3. QED
        BY <1>2, <3>1, <3>2 DEF Healthy, Prefix
    <2>2. QED
      BY <1>4, <1>6, <1>7, <2>1 DEF Writing
  <1>9. PICK recorded \in Point \cup {NoPoint} : recorded = Recorded
    BY ScriptTypes DEF Recorded
  <1>10. /\ points'[pipe] = recorded
         /\ \A q \in Pipelines : q # pipe => points'[q] = points[q]
    BY <1>1, <1>3, <1>4, <1>9 DEF Typed, TypeOK
  <1>11. ASSUME ~resetting
         PROVE  IF recorded = NoPoint THEN Prefix(pipe, 0)
                ELSE recorded.job = j /\ recorded.chk = jobs[j].chks /\ recorded.pos = jobs[j].done
    <2>1. recorded = LatestOf(j)
      BY <1>1, <1>2, <1>9, <1>11 DEF Recorded
    <2>2. CASE jobs[j].chks = 0
      <3>1. recorded = NoPoint
        BY <2>1, <2>2, LatestTypes
      <3>2. jobs[j].start = 0 /\ jobs[j].done = 0 /\ jobs[j].upto <= jobs[j].done
        BY <1>1, <1>2, <1>4, <2>2 DEF Healthy
      <3>3. jobs[j].upto \in Nat
        BY JobTypes DEF Typed
      <3>4. jobs[j].upto = 0
        BY <3>2, <3>3
      <3>5. QED
        BY <1>4, <3>1, <3>4
    <2>3. CASE jobs[j].chks # 0
      BY <2>1, <2>3, LatestTypes
    <2>4. QED
      BY <2>2, <2>3
  <1>12. Resting'
    <2>1. ASSUME NEW p \in Pipelines, AliveIn(p)' = {}
          PROVE  /\ \E t \in Nat : Prefix(p, t)'
                 /\ ~resetting' => IF points'[p] = NoPoint THEN Prefix(p, 0)' ELSE Recoverable(p)'
      <3>1. CASE p = pipe
        <4>1. jobs[j].upto \in Nat /\ jobs[j].upto <= jobs[j].done
          BY <1>4, JobTypes DEF Typed, Healthy
        <4>2. Prefix(p, jobs[j].upto)
          BY <1>4, <3>1
        <4>3. \E t \in Nat : Prefix(p, t)'
          BY <1>2, <4>1, <4>2 DEF Prefix
        <4>4. CASE recorded = NoPoint
          BY <1>2, <1>10, <1>11, <3>1, <4>3, <4>4 DEF Prefix
        <4>5. ASSUME recorded # NoPoint, ~resetting
              PROVE  Recoverable(p)'
          <5>1. points'[p] = recorded /\ recorded.job = j /\ recorded.chk = jobs[j].chks /\ recorded.pos = jobs[j].done
            BY <1>10, <1>11, <3>1, <4>5
          <5>2. jobs'[j].pipe = p /\ jobs'[j].chks = jobs[j].chks /\ jobs'[j].upto = jobs[j].upto
            BY <1>5, <1>6, <3>1
          <5>3. QED
            BY <1>2, <4>1, <4>2, <5>1, <5>2 DEF Recoverable, Prefix
        <4>6. QED
          BY <1>2, <1>10, <3>1, <4>3, <4>4, <4>5
      <3>2. CASE p # pipe
        <4>1. AliveIn(p) = {}
          BY <1>3, <1>6, <1>7, <2>1, <3>2 DEF AliveIn
        <4>2. /\ \E t \in Nat : Prefix(p, t)
              /\ ~resetting => IF points[p] = NoPoint THEN Prefix(p, 0) ELSE Recoverable(p)
          BY <4>1 DEF Routine, Resting
        <4>3. points'[p] = points[p]
          BY <1>10, <3>2
        <4>4. ASSUME points[p] # NoPoint, Recoverable(p)
              PROVE  Recoverable(p)'
          <5>1. points[p].job \in JobIds /\ jobs[points[p].job].pipe = p
            BY <4>4 DEF Typed, Named, Recoverable
          <5>2. jobs'[points[p].job] = jobs[points[p].job]
            BY <1>3, <1>6, <3>2, <5>1
          <5>3. QED
            BY <1>2, <4>3, <4>4, <5>2 DEF Recoverable, Prefix
        <4>5. QED
          BY <1>2, <4>2, <4>3, <4>4 DEF Prefix
      <3>3. QED
        BY <3>1, <3>2
    <2>2. QED
      BY <2>1 DEF Resting
  <1>13. Submitting' /\ Stopping'
    <2>1. CASE script' = Idle
      BY <2>1 DEF Idle, Submitting, Stopping
    <2>2. CASE script'.cmd = script.cmd /\ script'.jids = script.jids \ {j} /\ script'.jid = 0
      <3>1. \A i \in script'.jids : Alive(i)' /\ ~(jobs'[i].resumed /\ jobs'[i].chks = 0)
        BY <1>2, <1>6, <1>7, <2>2
      <3>2. QED
        BY <1>1, <1>2, <2>2, <3>1 DEF Submitting, Stopping
    <2>3. QED
      BY <1>1, <1>4, <2>1, <2>2
  <1>14. QED
    BY <1>8, <1>12, <1>13 DEF Routine

LEMMA RecreateKeepsRoutine ==
  ASSUME Typed, Routine, Recreate
  PROVE  Routine'
  <1>1. /\ script' = script /\ script = Idle /\ jobs' = jobs /\ \A j \in JobIds : ~Alive(j)
        /\ rows' = [p \in Pipelines |-> [e \in Events |-> 0]] /\ resetting' = TRUE
    BY DEF Recreate
  <1>2. Writing'
    BY <1>1 DEF Writing, Alive, JobIds
  <1>3. \A p \in Pipelines : Prefix(p, 0)'
    BY <1>1 DEF Prefix, Events
  <1>4. Resting'
    BY <1>1, <1>3 DEF Resting
  <1>5. Submitting' /\ Stopping'
    BY <1>1 DEF Idle, Submitting, Stopping
  <1>6. QED
    BY <1>2, <1>4, <1>5 DEF Routine

LEMMA NextCold == ColdInv /\ [Next]_flinkVars => ColdInv'
  <1> SUFFICES ASSUME ColdInv, [Next]_flinkVars PROVE ColdInv'
    OBVIOUS
  <1>1. Typed /\ Typed' /\ slipped \in BOOLEAN
    BY NextTyped DEF ColdInv, Typed, TypeOK
  <1>2. slipped => slipped'
    BY <1>1 DEF Next, Produce, Cluster, Read, Checkpoint, Commit, Fail, Restart, GiveUp, BeginSubmit,
                SubmitNext, ResumeNext, BeginStop, ReadPath, CancelJob, Recreate, Slip, flinkVars
  <1>3. ASSUME ~slipped'
        PROVE  Routine'
    <2>1. Routine
      BY <1>2, <1>3 DEF ColdInv
    <2>2. CASE /\ jobs' = jobs /\ rows' = rows /\ points' = points /\ resetting' = resetting
               /\ script' = script
      <3>1. Writing' /\ Resting'
        BY <2>1, <2>2, SameJobs
      <3>2. Submitting' /\ Stopping'
        BY <2>1, <2>2 DEF Routine, Submitting, Stopping, AliveIn, Alive, JobIds, LatestOf
      <3>3. QED
        BY <3>1, <3>2 DEF Routine
    <2>3. QED
      BY <1>1, <1>3, <2>1, <2>2, ClusterKeepsRoutine, BeginSubmitKeepsRoutine, SubmitKeepsRoutine,
         ResumeKeepsRoutine, BeginStopKeepsRoutine, ReadPathKeepsRoutine, CancelKeepsRoutine,
         RecreateKeepsRoutine DEF Next, Produce, flinkVars
  <1>4. QED
    BY <1>1, <1>3 DEF ColdInv

LEMMA ColdAlways == Spec => []ColdInv
  BY InitCold, NextCold, PTL DEF Spec

\* Each event once: until something slips, a table holds a prefix of the topic and every
\* event of it once, through any number of failures, restarts, stops, resumptions, refused
\* and partial submits, and resets.
THEOREM TablesExact == Spec => []ExactlyOnce
  <1>1. ASSUME ColdInv
        PROVE  ExactlyOnce
    <2>1. ASSUME ~slipped, NEW p \in Pipelines
          PROVE  \E t \in Nat : Prefix(p, t)
      <3>1. CASE AliveIn(p) = {}
        BY <1>1, <2>1, <3>1 DEF ColdInv, Routine, Resting
      <3>2. CASE AliveIn(p) # {}
        <4>1. PICK j \in JobIds : Alive(j) /\ jobs[j].pipe = p
          BY <3>2 DEF AliveIn
        <4>2. Prefix(p, jobs[j].upto) /\ jobs[j].upto \in Nat
          BY <1>1, <2>1, <4>1, JobTypes DEF ColdInv, Routine, Writing, Typed
        <4>3. QED
          BY <4>2
      <3>3. QED
        BY <3>1, <3>2
    <2>2. ASSUME ~slipped, NEW p \in Pipelines, NEW e \in Events
          PROVE  /\ rows[p][e] <= 1
                 /\ rows[p][e] = 1 => \A d \in 1 .. e : rows[p][d] = 1
      <3>1. PICK t \in Nat : Prefix(p, t)
        BY <2>1, <2>2
      <3>2. e \in Nat /\ e <= MaxEvents /\ MaxEvents \in Nat
        BY FlinkAssumption DEF Events
      <3>3. rows[p][e] = IF e <= t THEN 1 ELSE 0
        BY <3>1 DEF Prefix
      <3>4. ASSUME rows[p][e] = 1, NEW d \in 1 .. e
            PROVE  rows[p][d] = 1
        <4>1. e <= t
          BY <3>3, <3>4
        <4>2. d \in Events /\ d <= t
          BY <3>1, <3>2, <4>1 DEF Events
        <4>3. QED
          BY <3>1, <4>2 DEF Prefix
      <3>5. QED
        BY <3>3, <3>4
    <2>3. QED
      BY <2>2 DEF ExactlyOnce
  <1>2. QED
    BY <1>1, ColdAlways, PTL

\* What stop.sh leaves is enough: until something slips, a pipeline none of whose jobs is
\* alive has an empty table or a resume point on disk, whose checkpoint exists and is not
\* behind the table, so that submit.sh refuses to start over and --resume replays nothing.
THEOREM PointsSuffice == Spec => []Resumable
  <1>1. ASSUME ColdInv
        PROVE  Resumable
    <2>1. ASSUME NEW p \in Pipelines, AliveIn(p) = {}, ~resetting, ~slipped, Landed(p) > 0
          PROVE  points[p] # NoPoint /\ Exists(points[p]) /\ points[p].pos >= Landed(p)
      <3>1. Typed /\ (IF points[p] = NoPoint THEN Prefix(p, 0) ELSE Recoverable(p))
        BY <1>1, <2>1 DEF ColdInv, Routine, Resting
      <3>2. points[p] # NoPoint
        <4>1. ASSUME Prefix(p, 0)
              PROVE  FALSE
          BY <2>1, <4>1, LandedPrefix
        <4>2. QED
          BY <3>1, <4>1
      <3>3. PICK point \in Point : point = points[p] /\ point.job \in JobIds
        BY <3>1, <3>2 DEF Typed, TypeOK, Named
      <3>4. PICK upto \in Nat : upto = jobs[point.job].upto
        BY <3>1, <3>3, JobTypes DEF Typed
      <3>5. jobs[point.job].chks = point.chk /\ upto <= point.pos /\ Prefix(p, upto)
        BY <3>1, <3>2, <3>3, <3>4 DEF Recoverable
      <3>6. Landed(p) \in Nat /\ Landed(p) <= upto /\ point.pos \in Nat
        BY <3>5, LandedPrefix DEF Point
      <3>7. point.pos >= Landed(p)
        BY <3>5, <3>6
      <3>8. QED
        BY <3>2, <3>3, <3>5, <3>7 DEF Exists
    <2>2. QED
      BY <2>1 DEF Resumable
  <1>2. QED
    BY <1>1, ColdAlways, PTL

=============================================================================
