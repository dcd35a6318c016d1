------------------------------ MODULE GateProofs ------------------------------
(***************************************************************************)
(* Theorems about the two gates of the repository.  EvalGate: what a pass  *)
(* of the regression gate means, for any number of runs, examples,         *)
(* prompts, edits and any thresholds.  Warehouse: what a finished dbt      *)
(* build and the data quality gate say of the marts, for any number of     *)
(* turns, builds, kinds and sessions.                                      *)
(***************************************************************************)
EXTENDS EvalGate, Warehouse, FiniteSetTheorems, TLAPS

-----------------------------------------------------------------------------
(***************************************************************************)
(* The inductive invariant.                                                *)
(***************************************************************************)
Run == [corpus : Nat, judge : Nat, prompt : Prompts, rows : [Grades -> Nat],
        state : {"running", "finished", "aborted", "dead"}]
Types ==
  /\ repo \in [corpus : Nat, judge : Nat]
  /\ runs \in Seq(Run)
  /\ making \in [ids : Seq(Nat), edited : BOOLEAN]
  /\ \A i \in 1 .. Len(making.ids) : making.ids[i] \in RunIds
  /\ \A i \in 1 .. Len(baseline.ids) : baseline.ids[i] \in RunIds

\* Only a run that graded every example finishes.
WholeRuns == \A r \in RunIds : runs[r].state = "finished" => Rows(r) = Examples

\* The runs of the baseline in the making: of one prompt, made under what the files
\* still say unless they were edited, and the first one without a flaw.
MakingInv ==
  /\ Len(making.ids) <= 2
  /\ \A i \in 1 .. Len(making.ids) :
       /\ runs[making.ids[i]].prompt = runs[making.ids[1]].prompt
       /\ ~making.edited => /\ runs[making.ids[i]].corpus = repo.corpus
                            /\ runs[making.ids[i]].judge = repo.judge
  /\ Len(making.ids) = 2 => /\ runs[making.ids[1]].state = "finished"
                            /\ Failures(making.ids[1]) = 0

\* The runs a baseline rests on are over, without errors, and of its configuration.
RestsOn(b) ==
  /\ Stamped(b) /\ Failures(b) = 0
  /\ ~baseline.edited => Setting(b) = baseline.config
BaselineInv == \A i \in 1 .. Len(baseline.ids) : RestsOn(baseline.ids[i])

GateInv == Types /\ WholeRuns /\ MakingInv /\ BaselineInv

-----------------------------------------------------------------------------
\* What is counted of a run depends on its rows only.
LEMMA SameRows ==
  ASSUME NEW r, NEW kinds, runs'[r].rows = runs[r].rows
  PROVE  Count(r, kinds)' = Count(r, kinds)
  BY DEF Count

LEMMA SameRun ==
  ASSUME NEW r, runs'[r] = runs[r]
  PROVE  /\ Rows(r)' = Rows(r) /\ Failures(r)' = Failures(r) /\ Setting(r)' = Setting(r)
         /\ Stamped(r)' = Stamped(r)
  BY SameRows DEF Rows, Failures, Setting, Stamped

\* The number of errors of a run is a number: one per example at most.
LEMMA FailuresType == \A r : Failures(r) \in Nat
  <1> SUFFICES ASSUME NEW r PROVE Failures(r) \in Nat
    OBVIOUS
  <1> DEFINE errors == {"error"} \cap Grades
             cells  == errors \X (1 .. Examples)
             found  == {x \in cells : x[2] <= runs[r].rows[x[1]]}
  <1>1. IsFiniteSet(errors)
    BY FS_Singleton, FS_Subset
  <1>2. IsFiniteSet(1 .. Examples)
    BY FS_Interval, GateAssumption
  <1>3. IsFiniteSet(cells)
    BY <1>1, <1>2, FS_Product
  <1>4. IsFiniteSet(found)
    <2>1. found \subseteq cells
      OBVIOUS
    <2>2. QED
      BY <1>3, <2>1, FS_Subset
  <1>5. Failures(r) = Cardinality(found)
    BY DEF Failures, Count
  <1>6. QED
    BY <1>4, <1>5, FS_CardinalityType

\* Initially there is nothing to be wrong about.
LEMMA InitInv == Init => GateInv
  <1> SUFFICES ASSUME Init PROVE GateInv
    OBVIOUS
  <1>1. /\ runs = <<>> /\ making.ids = <<>> /\ making.edited = FALSE /\ baseline.ids = <<>>
        /\ making \in [ids : Seq(Nat), edited : BOOLEAN] /\ repo \in [corpus : Nat, judge : Nat]
    BY DEF Init, Resting, NoBaseline
  <1>2. Types /\ WholeRuns
    BY <1>1 DEF Types, WholeRuns, RunIds
  <1>3. MakingInv /\ BaselineInv
    BY <1>1 DEF MakingInv, BaselineInv
  <1>4. QED
    BY <1>2, <1>3 DEF GateInv

\* The baseline stays what it is as long as nothing touches it or a run that is over.
LEMMA BaselineStays ==
  ASSUME Types, BaselineInv, UNCHANGED baseline,
         \A r \in RunIds : Stamped(r) => runs'[r] = runs[r]
  PROVE  BaselineInv'
  <1>1. ASSUME NEW i \in 1 .. Len(baseline.ids)
        PROVE  RestsOn(baseline.ids[i])'
    <2>1. PICK b \in RunIds : b = baseline.ids[i]
      BY DEF Types
    <2>2. RestsOn(b)
      BY <2>1 DEF BaselineInv
    <2>3. runs'[b] = runs[b]
      BY <2>2 DEF RestsOn
    <2>4. RestsOn(b)'
      BY <2>2, <2>3, SameRun DEF RestsOn
    <2>5. QED
      BY <2>1, <2>4
  <1>2. QED
    BY <1>1 DEF BaselineInv

\* A step of one run that is under way, which ends it or adds to its rows.
LEMMA RunStep ==
  ASSUME GateInv, NEW r \in RunIds, runs[r].state = "running", NEW run \in Run,
         runs' = [runs EXCEPT ![r] = run], UNCHANGED <<repo, making, baseline>>,
         run.corpus = runs[r].corpus, run.judge = runs[r].judge, run.prompt = runs[r].prompt,
         run.state = "finished" => run.rows = runs[r].rows /\ Rows(r) = Examples
  PROVE  GateInv'
  <1> USE DEF GateInv
  <1>1. /\ runs' \in Seq(Run) /\ Len(runs') = Len(runs) /\ runs'[r] = run
        /\ \A q \in RunIds : q # r => runs'[q] = runs[q]
    BY DEF Types, RunIds
  <1>2. Types' /\ RunIds' = RunIds
    BY <1>1 DEF Types, RunIds
  <1>3. WholeRuns'
    <2>1. ASSUME NEW q \in RunIds, runs'[q].state = "finished"
          PROVE  Rows(q)' = Examples
      <3>1. CASE q = r
        BY <1>1, <2>1, <3>1, SameRows DEF Rows
      <3>2. CASE q # r
        BY <1>1, <2>1, <3>2, SameRun DEF WholeRuns
      <3>3. QED
        BY <3>1, <3>2
    <2>2. QED
      BY <1>2, <2>1 DEF WholeRuns
  <1>4. MakingInv'
    <2>1. \A q \in RunIds : /\ runs'[q].prompt = runs[q].prompt
                            /\ runs'[q].corpus = runs[q].corpus /\ runs'[q].judge = runs[q].judge
      BY <1>1
    <2>2. \A i \in 1 .. Len(making.ids) : making.ids[i] \in RunIds /\ making.ids[1] \in RunIds
      BY DEF Types
    <2>3. ASSUME Len(making.ids) = 2
          PROVE  runs'[making.ids[1]].state = "finished" /\ Failures(making.ids[1])' = 0
      <3>1. PICK a \in RunIds : a = making.ids[1]
        BY <2>2, <2>3
      <3>2. runs[a].state = "finished" /\ Failures(a) = 0
        BY <2>3, <3>1 DEF MakingInv
      <3>3. runs'[a] = runs[a]
        BY <1>1, <3>2
      <3>4. Failures(a)' = 0
        BY <3>2, <3>3, SameRun
      <3>5. QED
        BY <3>1, <3>2, <3>3, <3>4
    <2>4. QED
      BY <2>1, <2>2, <2>3 DEF MakingInv
  <1>5. BaselineInv'
    BY <1>1, BaselineStays DEF Stamped
  <1>6. QED
    BY <1>2, <1>3, <1>4, <1>5

\* Grading, ending and killing a run are such steps.
LEMMA RunsInv ==
  ASSUME GateInv, NEW r \in RunIds,
         Grade(r) \/ Kill(r) \/ \E how \in {"finished", "aborted"} : Finish(r, how)
  PROVE  GateInv'
  <1>1. runs[r] \in Run /\ runs \in Seq(Run)
    BY DEF GateInv, Types, RunIds
  <1>2. ASSUME NEW g \in Grades, runs[r].state = "running",
               runs' = [runs EXCEPT ![r].rows[g] = @ + 1], UNCHANGED <<repo, making, baseline>>
        PROVE  GateInv'
    <2> DEFINE rows == [runs[r].rows EXCEPT ![g] = @ + 1]
               run  == [runs[r] EXCEPT !.rows = rows]
    <2>1. rows \in [Grades -> Nat]
      BY <1>1 DEF Run
    <2> HIDE DEF rows
    <2>2. /\ run \in Run /\ run.corpus = runs[r].corpus /\ run.judge = runs[r].judge
          /\ run.prompt = runs[r].prompt /\ run.state = "running"
      BY <1>1, <1>2, <2>1 DEF Run
    <2>3. runs' = [runs EXCEPT ![r] = run]
      BY <1>2 DEF rows
    <2> HIDE DEF run
    <2>4. QED
      BY <1>2, <2>2, <2>3, RunStep
  <1>3. ASSUME NEW state \in {"finished", "aborted", "dead"}, runs[r].state = "running",
               runs' = [runs EXCEPT ![r].state = state], UNCHANGED <<repo, making, baseline>>,
               state = "finished" => Rows(r) = Examples
        PROVE  GateInv'
    <2> DEFINE run == [runs[r] EXCEPT !.state = state]
    <2>1. /\ run \in Run /\ run.corpus = runs[r].corpus /\ run.judge = runs[r].judge
          /\ run.prompt = runs[r].prompt /\ run.rows = runs[r].rows /\ run.state = state
      BY <1>1 DEF Run
    <2>2. runs' = [runs EXCEPT ![r] = run]
      BY <1>3
    <2> HIDE DEF run
    <2>3. QED
      BY <1>3, <2>1, <2>2, RunStep
  <1>4. CASE Grade(r)
    BY <1>2, <1>4 DEF Grade
  <1>5. CASE Kill(r)
    BY <1>3, <1>5 DEF Kill
  <1>6. ASSUME NEW how \in {"finished", "aborted"}, Finish(r, how)
        PROVE  GateInv'
    BY <1>3, <1>6 DEF Finish
  <1>7. QED
    BY <1>4, <1>5, <1>6

\* A new run comes after those there are, which stay as they are.
LEMMA Appended ==
  ASSUME Types, WholeRuns, NEW prompt \in Prompts, runs' = Append(runs, NewRun(prompt))
  PROVE  /\ runs' \in Seq(Run) /\ Len(runs) \in Nat
         /\ RunIds \subseteq RunIds' /\ Len(runs) + 1 \in RunIds'
         /\ \A q \in RunIds : runs'[q] = runs[q]
         /\ runs'[Len(runs) + 1] = NewRun(prompt)
         /\ WholeRuns'
  <1>1. NewRun(prompt) \in Run /\ NewRun(prompt).state = "running"
    <2>1. [g \in Grades |-> 0] \in [Grades -> Nat]
      OBVIOUS
    <2>2. repo.corpus \in Nat /\ repo.judge \in Nat
      BY DEF Types
    <2>3. QED
      BY <2>1, <2>2 DEF NewRun, Run
  <1>2. /\ runs' \in Seq(Run) /\ Len(runs) \in Nat /\ Len(runs') = Len(runs) + 1
        /\ \A q \in 1 .. Len(runs) : runs'[q] = runs[q]
        /\ runs'[Len(runs) + 1] = NewRun(prompt)
    BY <1>1 DEF Types
  <1>3. RunIds \subseteq RunIds' /\ RunIds' = RunIds \cup {Len(runs) + 1}
    BY <1>2 DEF RunIds
  <1>4. ASSUME NEW q \in RunIds', runs'[q].state = "finished"
        PROVE  Rows(q)' = Examples
    <2>1. q \in RunIds /\ runs'[q] = runs[q]
      BY <1>1, <1>2, <1>3, <1>4 DEF RunIds
    <2>2. QED
      BY <1>4, <2>1, SameRun DEF WholeRuns
  <1>5. QED
    BY <1>2, <1>3, <1>4 DEF WholeRuns, RunIds

\* `eval run` leaves the baselines alone.
LEMMA StartRunInv ==
  ASSUME GateInv, StartRun
  PROVE  GateInv'
  <1> USE DEF GateInv
  <1>1. PICK prompt \in Prompts : runs' = Append(runs, NewRun(prompt))
    BY DEF StartRun
  <1>2. UNCHANGED <<repo, making, baseline>>
    BY DEF StartRun
  <1>3. /\ runs' \in Seq(Run) /\ RunIds \subseteq RunIds' /\ WholeRuns'
        /\ \A q \in RunIds : runs'[q] = runs[q]
    BY <1>1, Appended
  <1>4. Types'
    BY <1>2, <1>3 DEF Types
  <1>5. MakingInv'
    <2>1. \A i \in 1 .. Len(making.ids) : making.ids[i] \in RunIds /\ making.ids[1] \in RunIds
      BY DEF Types
    <2>2. ASSUME Len(making.ids) = 2
          PROVE  runs'[making.ids[1]].state = "finished" /\ Failures(making.ids[1])' = 0
      <3>1. PICK a \in RunIds : a = making.ids[1]
        BY <2>1, <2>2
      <3>2. QED
        BY <1>2, <1>3, <2>2, <3>1, SameRun DEF MakingInv
    <2>3. QED
      BY <1>2, <1>3, <2>1, <2>2 DEF MakingInv
  <1>6. BaselineInv'
    BY <1>2, <1>3, BaselineStays
  <1>7. QED
    BY <1>3, <1>4, <1>5, <1>6

\* `eval baseline` begins with a run of its own.
LEMMA StartBaselineInv ==
  ASSUME GateInv, StartBaseline
  PROVE  GateInv'
  <1> USE DEF GateInv
  <1>1. PICK prompt \in Prompts : runs' = Append(runs, NewRun(prompt))
    BY DEF StartBaseline
  <1>2. /\ making' = [ids |-> <<Len(runs) + 1>>, edited |-> FALSE]
        /\ UNCHANGED <<repo, baseline>>
    BY DEF StartBaseline
  <1>3. /\ runs' \in Seq(Run) /\ RunIds \subseteq RunIds' /\ WholeRuns'
        /\ Len(runs) \in Nat /\ Len(runs) + 1 \in RunIds'
        /\ \A q \in RunIds : runs'[q] = runs[q]
        /\ runs'[Len(runs) + 1] = NewRun(prompt)
    BY <1>1, Appended
  <1>4. /\ making' \in [ids : Seq(Nat), edited : BOOLEAN]
        /\ Len(making'.ids) = 1 /\ making'.ids[1] = Len(runs) + 1
    BY <1>2, <1>3
  <1>5. Types'
    BY <1>2, <1>3, <1>4 DEF Types
  <1>6. MakingInv'
    BY <1>2, <1>3, <1>4 DEF MakingInv, NewRun
  <1>7. BaselineInv'
    BY <1>2, <1>3, BaselineStays
  <1>8. QED
    BY <1>3, <1>5, <1>6, <1>7

\* An edit is remembered as long as a baseline is in the making.
LEMMA EditInv ==
  ASSUME GateInv, NEW what \in {"corpus", "judge"}, Edit(what)
  PROVE  GateInv'
  <1> USE DEF GateInv
  <1>1. /\ UNCHANGED <<runs, baseline>> /\ RunIds' = RunIds
        /\ repo' = [repo EXCEPT ![what] = @ + 1]
        /\ making' = [making EXCEPT !.edited = making.ids # <<>>]
    BY DEF Edit, RunIds
  <1>2. repo' \in [corpus : Nat, judge : Nat]
    BY <1>1 DEF Types
  <1>3. /\ making' \in [ids : Seq(Nat), edited : BOOLEAN] /\ making'.ids = making.ids
        /\ making'.edited <=> making.ids # <<>>
    BY <1>1 DEF Types
  <1>4. Types'
    BY <1>1, <1>2, <1>3 DEF Types
  <1>5. WholeRuns'
    BY <1>1, SameRun DEF WholeRuns
  <1>6. MakingInv'
    <2>1. CASE making.ids = <<>>
      BY <1>3, <2>1 DEF MakingInv
    <2>2. CASE making.ids # <<>>
      <3>1. ASSUME Len(making.ids) = 2
            PROVE  runs'[making.ids[1]].state = "finished" /\ Failures(making.ids[1])' = 0
        <4>1. PICK a \in RunIds : a = making.ids[1]
          BY <3>1 DEF Types
        <4>2. QED
          BY <1>1, <1>3, <3>1, <4>1, SameRun DEF MakingInv
      <3>2. QED
        BY <1>1, <1>3, <2>2, <3>1 DEF MakingInv
    <2>3. QED
      BY <2>1, <2>2
  <1>7. BaselineInv'
    BY <1>1, BaselineStays
  <1>8. QED
    BY <1>4, <1>5, <1>6, <1>7

\* `eval baseline` gives up, goes on with its second run, or writes the file.
LEMMA ContinueInv ==
  ASSUME GateInv, ContinueBaseline
  PROVE  GateInv'
  <1> USE DEF GateInv
  <1> DEFINE n == Len(making.ids)
  <1>1. /\ n \in {1, 2} /\ UNCHANGED repo /\ making.ids \in Seq(Nat) /\ making.edited \in BOOLEAN
        /\ \A i \in 1 .. n : making.ids[i] \in RunIds
    <2>1. making \in [ids : Seq(Nat), edited : BOOLEAN]
      BY DEF Types
    <2>2. making.ids \in Seq(Nat) /\ making.edited \in BOOLEAN
      BY <2>1
    <2>3. making.ids # <<>> /\ UNCHANGED repo
      BY DEF ContinueBaseline
    <2>4. n \in Nat /\ n # 0 /\ n <= 2
      BY <2>2, <2>3 DEF MakingInv
    <2>5. n \in {1, 2}
      <3> HIDE DEF n
      <3>1. QED
        BY <2>4
    <2>6. QED
      BY <2>2, <2>3, <2>5 DEF Types
  <1>2. PICK r \in RunIds : r = making.ids[n]
    BY <1>1
  <1>3. PICK a \in RunIds : a = making.ids[1]
    BY <1>1
  <1>4. PICK p \in Prompts : p = runs[r].prompt
    <2>1. runs[r] \in Run
      BY DEF Types, RunIds
    <2>2. QED
      BY <2>1 DEF Run
  <1>5. CASE making' = Resting /\ UNCHANGED <<runs, baseline>>
    <2>1. /\ making' \in [ids : Seq(Nat), edited : BOOLEAN] /\ Len(making'.ids) = 0
      BY <1>5 DEF Resting
    <2>2. Types' /\ MakingInv'
      BY <1>1, <1>5, <2>1 DEF Types, MakingInv, RunIds
    <2>3. WholeRuns' /\ BaselineInv'
      BY <1>5, SameRun, BaselineStays DEF WholeRuns, RunIds
    <2>4. QED
      BY <2>2, <2>3
  <1>6. CASE /\ n = 1 /\ runs[r].state = "finished" /\ Failures(r) = 0
             /\ runs' = Append(runs, NewRun(p))
             /\ making' = [making EXCEPT !.ids = Append(@, Len(runs) + 1)]
             /\ UNCHANGED baseline
    <2>1. /\ runs' \in Seq(Run) /\ RunIds \subseteq RunIds' /\ WholeRuns'
          /\ Len(runs) \in Nat /\ Len(runs) + 1 \in RunIds'
          /\ \A q \in RunIds : runs'[q] = runs[q]
          /\ runs'[Len(runs) + 1] = NewRun(p)
      BY <1>6, Appended
    <2>2. /\ making' \in [ids : Seq(Nat), edited : BOOLEAN] /\ making'.edited = making.edited
          /\ Len(making'.ids) = 2 /\ making'.ids[1] = r /\ making'.ids[2] = Len(runs) + 1
      <3> DEFINE ids == Append(making.ids, Len(runs) + 1)
      <3>1. ids \in Seq(Nat) /\ Len(ids) = 2 /\ ids[1] = making.ids[1] /\ ids[2] = Len(runs) + 1
        <4>1. making.ids \in Seq(Nat) /\ Len(making.ids) = 1 /\ Len(runs) + 1 \in Nat
          BY <1>1, <1>6, <2>1
        <4>2. QED
          BY <4>1
      <3>2. making' = [making EXCEPT !.ids = ids]
        BY <1>6
      <3> HIDE DEF ids
      <3>3. QED
        BY <1>2, <1>6, <3>1, <3>2 DEF Types
    <2>3. Types'
      BY <1>1, <1>6, <2>1, <2>2 DEF Types
    <2>4. MakingInv'
      <3>1. Failures(r)' = 0 /\ runs'[r].state = "finished"
        BY <1>6, <2>1, SameRun
      <3>2. ~making.edited => runs[r].corpus = repo.corpus /\ runs[r].judge = repo.judge
        BY <1>2, <1>6 DEF MakingInv
      <3>3. /\ runs'[Len(runs) + 1].corpus = repo.corpus /\ runs'[Len(runs) + 1].judge = repo.judge
            /\ runs'[Len(runs) + 1].prompt = runs[r].prompt
        BY <1>4, <2>1 DEF NewRun
      <3>4. ASSUME NEW i \in {1, 2}
            PROVE  /\ runs'[making'.ids[i]].prompt = runs[r].prompt
                   /\ ~making.edited => /\ runs'[making'.ids[i]].corpus = repo.corpus
                                        /\ runs'[making'.ids[i]].judge = repo.judge
        BY <2>1, <2>2, <3>2, <3>3
      <3>5. QED
        BY <1>1, <2>2, <3>1, <3>4 DEF MakingInv
    <2>5. BaselineInv'
      BY <1>6, <2>1, BaselineStays
    <2>6. QED
      BY <2>1, <2>3, <2>4, <2>5
  <1>7. CASE /\ n = 2 /\ runs[r].state = "finished" /\ Failures(r) = 0
             /\ baseline' = [ids |-> making.ids, edited |-> making.edited,
                             config |-> Pinned(repo.corpus, repo.judge, p, Rows(a))]
             /\ making' = Resting /\ UNCHANGED runs
    <2>1. /\ making' \in [ids : Seq(Nat), edited : BOOLEAN] /\ Len(making'.ids) = 0
      BY <1>7 DEF Resting
    <2>2. RunIds' = RunIds /\ WholeRuns'
      BY <1>7, SameRun DEF WholeRuns, RunIds
    <2>3. Types' /\ MakingInv'
      BY <1>1, <1>7, <2>1, <2>2 DEF Types, MakingInv
    <2>4. ASSUME NEW b \in {a, r}
          PROVE  RestsOn(b)'
      <3>1. runs[b].state = "finished" /\ Failures(b) = 0 /\ runs[b].prompt = p
        BY <1>1, <1>2, <1>3, <1>4, <1>7 DEF MakingInv
      <3>2. Rows(b) = Examples /\ Rows(a) = Examples
        <4>1. runs[a].state = "finished"
          BY <1>3, <1>7 DEF MakingInv
        <4>2. QED
          BY <3>1, <4>1 DEF WholeRuns
      <3>3. ~making.edited => runs[b].corpus = repo.corpus /\ runs[b].judge = repo.judge
        BY <1>1, <1>2, <1>3 DEF MakingInv
      <3>4. ~making.edited => Setting(b) = Pinned(repo.corpus, repo.judge, p, Rows(a))
        BY <3>1, <3>2, <3>3 DEF Setting, Pinned
      <3>5. /\ Failures(b)' = 0 /\ Stamped(b)' /\ Setting(b)' = Setting(b)
        BY <1>7, <3>1, SameRun DEF Stamped
      <3>6. QED
        BY <1>7, <3>4, <3>5 DEF RestsOn
    <2>5. \A i \in 1 .. Len(baseline'.ids) : baseline'.ids[i] \in {a, r}
      BY <1>1, <1>2, <1>3, <1>7
    <2>6. BaselineInv'
      BY <2>4, <2>5 DEF BaselineInv
    <2>7. QED
      BY <2>2, <2>3, <2>6
  <1>8. Failures(r) \in Nat
    BY FailuresType
  <1>9. CASE runs[r].state # "finished" \/ Failures(r) > 0
    BY <1>2, <1>5, <1>9 DEF ContinueBaseline
  <1>10. CASE runs[r].state = "finished" /\ Failures(r) = 0
    <2>1. CASE n = 1
      BY <1>2, <1>4, <1>6, <1>10, <2>1 DEF ContinueBaseline
    <2>2. CASE n = 2
      BY <1>2, <1>3, <1>4, <1>7, <1>10, <2>2 DEF ContinueBaseline
    <2>3. QED
      BY <1>1, <2>1, <2>2
  <1>11. QED
    BY <1>8, <1>9, <1>10

\* --from-runs takes runs that are over, without errors and of one configuration.
LEMMA FromRunsInv ==
  ASSUME GateInv, FromRuns
  PROVE  GateInv'
  <1> USE DEF GateInv
  <1>1. PICK a \in RunIds, b \in RunIds :
          /\ Baselineable(a) /\ Baselineable(b) /\ Agree({a, b})
          /\ \E ids \in {<<a>>, <<a, b>>} :
               baseline' = [ids |-> ids, config |-> ConfigOf(a), edited |-> FALSE]
    BY DEF FromRuns
  <1>2. UNCHANGED <<repo, runs, making>> /\ RunIds' = RunIds
    BY DEF FromRuns, RunIds
  <1>3. ASSUME NEW c \in {a, b}
        PROVE  RestsOn(c)'
    <2>1. Stamped(c) /\ Failures(c) = 0
      BY <1>1 DEF Baselineable
    <2>2. ConfigOf(c) = ConfigOf(a) /\ Setting(c) = ConfigOf(c)
      BY <1>1 DEF Agree, Setting, ConfigOf, Pinned
    <2>3. /\ Failures(c)' = 0 /\ Stamped(c)' /\ Setting(c)' = Setting(c)
      BY <1>2, <2>1, SameRun DEF Stamped
    <2>4. QED
      BY <1>1, <2>2, <2>3 DEF RestsOn
  <1>4. \A i \in 1 .. Len(baseline'.ids) : baseline'.ids[i] \in {a, b}
    BY <1>1
  <1>5. Types' /\ BaselineInv'
    BY <1>2, <1>3, <1>4 DEF Types, BaselineInv
  <1>6. WholeRuns'
    BY <1>2, SameRun DEF WholeRuns
  <1>7. MakingInv'
    <2>1. ASSUME Len(making.ids) = 2
          PROVE  Failures(making.ids[1])' = 0
      <3>1. PICK c \in RunIds : c = making.ids[1]
        BY <2>1 DEF Types
      <3>2. QED
        BY <1>2, <2>1, <3>1, SameRun DEF MakingInv
    <2>2. QED
      BY <1>2, <2>1 DEF MakingInv
  <1>8. QED
    BY <1>5, <1>6, <1>7

\* Every step keeps the invariant.
LEMMA NextInv == GateInv /\ [Next]_vars => GateInv'
  <1> SUFFICES ASSUME GateInv, [Next]_vars PROVE GateInv'
    OBVIOUS
  <1>1. CASE UNCHANGED vars
    <2>1. UNCHANGED <<repo, runs, making, baseline>> /\ RunIds' = RunIds
      BY <1>1 DEF vars, RunIds
    <2>2. \A r : Rows(r)' = Rows(r) /\ Failures(r)' = Failures(r)
      BY <2>1, SameRun
    <2>3. Types' /\ WholeRuns' /\ MakingInv'
      BY <2>1, <2>2 DEF GateInv, Types, WholeRuns, MakingInv
    <2>4. BaselineInv'
      BY <2>1, BaselineStays DEF GateInv
    <2>5. QED
      BY <2>3, <2>4 DEF GateInv
  <1>2. QED
    BY <1>1, EditInv, StartRunInv, StartBaselineInv, ContinueInv, FromRunsInv, RunsInv DEF Next

\* The invariant holds in every state the program reaches.
LEMMA Invariance == Spec => []GateInv
  <1>1. Init => GateInv
    BY InitInv
  <1>2. GateInv /\ [Next]_vars => GateInv'
    BY NextInv
  <1>3. QED
    BY <1>1, <1>2, PTL DEF Spec

-----------------------------------------------------------------------------
\* A pass of `eval gate` compares like with like, for any runs, thresholds and edits.
THEOREM ComparableOnly == Spec => []PassIsComparable
  <1>1. GateInv => PassIsComparable
    <2> SUFFICES ASSUME GateInv, ~baseline.edited, NEW r \in RunIds, NEW b \in Range(baseline.ids),
                        Check(r) = 0
                 PROVE  Setting(r) = Setting(b)
      BY DEF PassIsComparable
    <2>1. baseline # NoBaseline /\ baseline.config = ConfigOf(r)
      BY DEF Check
    <2>2. PICK i \in DOMAIN baseline.ids : b = baseline.ids[i]
      BY DEF Range
    <2>3. i \in 1 .. Len(baseline.ids)
      BY DEF GateInv, Types
    <2>4. Setting(b) = baseline.config
      BY <2>2, <2>3 DEF GateInv, BaselineInv, RestsOn
    <2>5. QED
      BY <2>1, <2>4 DEF ConfigOf, Pinned, Setting
  <1>2. QED
    BY <1>1, Invariance, PTL

\* A pass of either gate rests on something measured on both sides.
THEOREM MeasuredOnly == Spec => []PassIsMeasured
  <1>1. GateInv => PassIsMeasured
    <2> SUFFICES ASSUME GateInv, baseline # NoBaseline, NEW r \in RunIds,
                        \/ Unmeasured(r) \/ Base("faithfulness_mean") = None
                        \/ \E b \in Range(baseline.ids) : Failures(b) > 0
                 PROVE  Check(r) # 0 /\ Compare(r) # 0
      BY DEF PassIsMeasured
    <2>1. CASE Failures(r) > 0
      BY <2>1 DEF HarnessFailure, Check, Compare
    <2>2. CASE None \in {Base("faithfulness_mean"), Mean("faithfulness_mean", r)}
      <3>1. \A limit, noise : Regressed(r, "faithfulness_mean", limit, noise)
        BY <2>2 DEF Regressed
      <3>2. "faithfulness_mean" \in Metrics /\ "faithfulness_mean" \in Gated
        BY DEF Metrics, Gated
      <3>3. QED
        BY <3>1, <3>2 DEF Check, Compare
    <2>3. CASE \E b \in Range(baseline.ids) : Failures(b) > 0
      <3>1. PICK i \in DOMAIN baseline.ids : Failures(baseline.ids[i]) > 0
        BY <2>3 DEF Range
      <3>2. i \in 1 .. Len(baseline.ids)
        BY DEF GateInv, Types
      <3>3. Failures(baseline.ids[i]) = 0
        BY <3>2 DEF GateInv, BaselineInv, RestsOn
      <3>4. QED
        BY <3>1, <3>3
    <2>4. QED
      BY <2>1, <2>2, <2>3 DEF Unmeasured
  <1>2. QED
    BY <1>1, Invariance, PTL

\* What `eval gate` passes `eval run --gate` passes, whatever the thresholds are.
THEOREM GatesConsistent == Spec => []GatesAgree
  <1>1. GatesAgree
    <2> SUFFICES ASSUME NEW r \in RunIds, Check(r) = 0, repo.corpus = runs[r].corpus
                 PROVE  Compare(r) = 0
      BY DEF GatesAgree
    <2>1. /\ baseline # NoBaseline /\ ~HarnessFailure(r) /\ baseline.config = ConfigOf(r)
          /\ \A m \in Metrics : ~Regressed(r, m, Limit(m), Noise(m))
      BY DEF Check, CheckLimit
    <2>2. baseline.config = Pinned(repo.corpus, baseline.config[2], runs[r].prompt, Rows(r))
      BY <2>1 DEF ConfigOf, Pinned
    <2>3. Gated \subseteq Metrics
      BY DEF Gated, Metrics
    <2>4. QED
      BY <2>1, <2>2, <2>3 DEF Compare
  <1>2. QED
    BY <1>1, PTL

-----------------------------------------------------------------------------
(***************************************************************************)
(* The warehouse.  Types, and what a step of a build does.                 *)
(***************************************************************************)
\* The nodes the argument turns on.
Stg  == "stg_trace_events"
Agg  == "stg_agg_model_5m"
Rec  == "marts_reconcile_with_staging"
Sess == "fct_sessions"

\* Where a build is: at a node, in one of some steps; still to come to it; making its table.
At(b, node, steps) == builds[b].node = node /\ builds[b].step \in steps
Other(b, c) == c \in Builds /\ c # b /\ Running(c)

Build ==
  [todo : SUBSET Nodes, node : Nodes \cup {"none"}, rows : SUBSET Spans,
   step : {"idle", "next", "create", "commit", "test"},
   failed : BOOLEAN, tainted : BOOLEAN, alone : BOOLEAN, crowded : BOOLEAN, torn : BOOLEAN]
MartTypes ==
  /\ turns \in Traffic
  /\ raw \in SUBSET Spans /\ IsFiniteSet(raw)
  /\ agg \subseteq UNION {TurnSpans(t, turns[t]) : t \in 1 .. Len(turns)} /\ IsFiniteSet(agg)
  /\ tables \in [Models -> {Missing} \cup SUBSET Spans]
  /\ \A m \in Models : tables[m] # Missing => IsFiniteSet(tables[m]) /\ tables[m] = Of(m, tables[m])
  /\ builds \in [Builds -> Build]
  /\ \A b \in Builds : /\ IsFiniteSet(builds[b].rows)
                       /\ At(b, builds[b].node, {"create", "commit"}) => builds[b].node \in Models
                       /\ At(b, builds[b].node, {"commit"}) => builds[b].rows = Of(builds[b].node, builds[b].rows)
                       /\ At(b, builds[b].node, {"test"}) => builds[b].node \in Nodes
  /\ last \in [outcome : {"none", "ok", "failed", "killed"}, tainted : BOOLEAN, alone : BOOLEAN,
               crowded : BOOLEAN, torn : BOOLEAN]
  /\ batches \in {<<>>, <<1, 2>>, <<2>>}

\* Turns are finitely many spans; a mart takes rows, it adds none.
LEMMA SpanFacts ==
  /\ \A turn \in Nat, outcome \in AllOutcomes :
       TurnSpans(turn, outcome) \in SUBSET Spans /\ IsFiniteSet(TurnSpans(turn, outcome))
  /\ Bad \in Spans
  /\ \A m, S : Of(m, S) \subseteq S /\ Of(m, Of(m, S)) = Of(m, S)
  /\ \A m, S, T : S \subseteq T => Of(m, S) \subseteq Of(m, T)
  /\ \A m, S : S \subseteq Spans /\ m \notin {"fct_model_costs", "fct_cost_by_prompt", "fct_tool_reliability"}
                 => Of(m, S) = S
  <1>1. ASSUME NEW turn \in Nat, NEW outcome \in AllOutcomes
        PROVE  TurnSpans(turn, outcome) \in SUBSET Spans /\ IsFiniteSet(TurnSpans(turn, outcome))
    <2>1. Kinds(outcome) \subseteq AllKinds
      BY DEF Kinds, AllKinds, AllOutcomes
    <2>2. TurnSpans(turn, outcome) \in SUBSET Spans
      BY <2>1 DEF TurnSpans, Span, Spans
    <2>3. \A x, y : IsFiniteSet({x, y})
      <3>1. ASSUME NEW x, NEW y PROVE IsFiniteSet({x, y})
        <4>1. {x} \cup {y} = {x, y} /\ IsFiniteSet({x})
          BY FS_Singleton
        <4>2. QED
          BY <4>1, FS_AddElement
      <3>2. QED
        BY <3>1
    <2>4. IsFiniteSet({"AGENT_STEP", "RETRIEVAL", "LLM_CALL"})
      <3>1. {"AGENT_STEP", "RETRIEVAL"} \cup {"LLM_CALL"} = {"AGENT_STEP", "RETRIEVAL", "LLM_CALL"}
        OBVIOUS
      <3>2. IsFiniteSet({"AGENT_STEP", "RETRIEVAL"})
        BY <2>3
      <3>3. QED
        BY <3>1, <3>2, FS_AddElement
    <2>5. IsFiniteSet({"AGENT_STEP", "TOOL_CALL"}) /\ IsFiniteSet({"GATEWAY", "LLM_CALL"})
      BY <2>3
    <2>6. IsFiniteSet(Kinds(outcome))
      BY <2>4, <2>5 DEF Kinds, AllOutcomes
    <2>7. IsFiniteSet(TurnSpans(turn, outcome))
      <3> DEFINE f == [k \in Kinds(outcome) |-> Span(turn, k, outcome)]
      <3>1. f \in [Kinds(outcome) -> TurnSpans(turn, outcome)]
        BY DEF TurnSpans
      <3>2. \A s \in TurnSpans(turn, outcome) : \E k \in Kinds(outcome) : f[k] = s
        BY DEF TurnSpans
      <3>3. f \in Surjection(Kinds(outcome), TurnSpans(turn, outcome))
        BY <3>1, <3>2 DEF Surjection
      <3>4. QED
        BY <2>6, <3>3, FS_Surjection
    <2>8. QED
      BY <2>2, <2>7
  <1>2. Bad \in Spans
    BY DEF Bad, Span, Spans, AllKinds, AllOutcomes
  <1>3. QED
    BY <1>1, <1>2 DEF Of, Takes, Spans, AllKinds

\* The mark of a missing table is no set of rows.
LEMMA NotMissing ==
  ASSUME MartTypes
  PROVE  /\ raw # Missing /\ agg # Missing /\ agg \in SUBSET Spans
         /\ \A S \in SUBSET Spans : S # Missing
         /\ \A m \in Models : tables[m] # Missing => tables[m] \in SUBSET Spans
  <1>1. Missing \notin SUBSET Spans
    BY WarehouseAssumption
  <1>2. agg \in SUBSET Spans
    <2>1. \A t \in 1 .. Len(turns) : t \in Nat /\ turns[t] \in AllOutcomes
      BY WarehouseAssumption DEF MartTypes, Traffic
    <2>2. QED
      BY <2>1, SpanFacts DEF MartTypes
  <1>3. QED
    BY <1>1, <1>2 DEF MartTypes

\* Steps change the build that takes them, and the flags of a build only when builds start,
\* end and are reverted under.
OthersStay(x) == \A c \in Builds : c # x => builds'[c] = builds[c]
FlagsStay(x) ==
  /\ builds'[x].tainted = builds[x].tainted /\ builds'[x].alone = builds[x].alone
  /\ builds'[x].crowded = builds[x].crowded /\ builds'[x].torn = builds[x].torn
OnlyTable(node) == \A m \in Models : m # node => tables'[m] = tables[m]
Fails(x) ==
  /\ builds'[x].step = "next" /\ builds'[x].node = builds[x].node /\ builds'[x].failed
  /\ builds'[x].todo = builds[x].todo \ Descendants(builds[x].node) /\ builds'[x].rows = {}

Moves(x, node) ==
  /\ node \in builds[x].todo /\ IsNext(node, builds[x].todo)
  /\ builds[x].step = "next"
  /\ builds'[x].todo = builds[x].todo \ {node} /\ builds'[x].node = node
  /\ builds'[x].step = (IF node \in Models THEN "create" ELSE "test")
  /\ builds'[x].rows = builds[x].rows /\ builds'[x].failed = builds[x].failed
  /\ node \in Models => tables'[node] = Missing
  /\ node \notin Models => tables' = tables
  /\ OnlyTable(node)

\* Going on to a node drops its table, or only tests.
LEMMA MovesEffect ==
  ASSUME MartTypes, NEW x \in Builds, NextNode(x)
  PROVE  /\ \E node \in Nodes : Moves(x, node)
         /\ OthersStay(x) /\ FlagsStay(x) /\ UNCHANGED <<turns, raw, agg, last, batches>>
         /\ builds' \in [Builds -> Build] /\ tables' \in [Models -> {Missing} \cup SUBSET Spans]
  <1>1. PICK node \in builds[x].todo :
          /\ IsNext(node, builds[x].todo)
          /\ builds' = [builds EXCEPT ![x].todo = @ \ {node}, ![x].node = node,
                                      ![x].step = IF node \in Models THEN "create" ELSE "test"]
          /\ tables' = IF node \in Models THEN DropTable(node) ELSE tables
    BY DEF NextNode
  <1>2. builds[x] \in Build /\ node \in Nodes /\ builds[x].step = "next"
    BY DEF MartTypes, Build, NextNode
  <1>3. builds'[x] = [builds[x] EXCEPT !.todo = @ \ {node}, !.node = node,
                                      !.step = IF node \in Models THEN "create" ELSE "test"]
    BY <1>1, <1>2 DEF MartTypes
  <1>4. /\ builds'[x].todo = builds[x].todo \ {node} /\ builds'[x].node = node
        /\ builds'[x].step = (IF node \in Models THEN "create" ELSE "test")
        /\ builds'[x].rows = builds[x].rows /\ builds'[x].failed = builds[x].failed
        /\ FlagsStay(x) /\ builds'[x] \in Build
    <2> DEFINE rest == builds[x].todo \ {node}
               step == IF node \in Models THEN "create" ELSE "test"
    <2>1. rest \in SUBSET Nodes /\ step \in {"create", "test"}
      BY <1>2 DEF Build
    <2>2. builds'[x] = [builds[x] EXCEPT !.todo = rest, !.node = node, !.step = step]
      BY <1>3
    <2> HIDE DEF rest, step
    <2>3. builds'[x].todo = rest /\ builds'[x].node = node /\ builds'[x].step = step
      BY <1>2, <2>2 DEF Build
    <2>4. builds'[x].rows = builds[x].rows /\ builds'[x].failed = builds[x].failed /\ FlagsStay(x)
      BY <1>2, <2>2 DEF Build, FlagsStay
    <2>5. builds'[x] \in Build
      BY <1>2, <2>1, <2>2 DEF Build
    <2>6. QED
      BY <2>3, <2>4, <2>5 DEF rest, step
  <1>5. OthersStay(x)
    <2>1. ASSUME NEW c \in Builds, c # x PROVE builds'[c] = builds[c]
      BY <1>1, <2>1 DEF MartTypes
    <2>2. QED
      BY <2>1 DEF OthersStay
  <1>6. builds' \in [Builds -> Build]
    BY <1>1, <1>4, <1>5 DEF MartTypes, OthersStay
  <1>7. /\ node \in Models => tables'[node] = Missing
        /\ node \notin Models => tables' = tables
        /\ OnlyTable(node) /\ tables' \in [Models -> {Missing} \cup SUBSET Spans]
    BY <1>1, <1>2 DEF MartTypes, DropTable, OnlyTable
  <1>8. Moves(x, node)
    BY <1>1, <1>2, <1>4, <1>7 DEF Moves
  <1>9. QED
    BY <1>2, <1>4, <1>5, <1>6, <1>7, <1>8 DEF NextNode

Computes(x) ==
  LET node == builds[x].node
  IN  /\ tables[node] = Missing /\ Source(node) # Missing
      /\ builds'[x].step = "commit" /\ builds'[x].rows = Of(node, Source(node))
      /\ builds'[x].todo = builds[x].todo /\ builds'[x].node = node
      /\ builds'[x].failed = builds[x].failed

\* What a failed build skips, it need not make.
LEMMA FailedFacts ==
  ASSUME NEW build \in Build
  PROVE  /\ Failed(build) \in Build
         /\ Failed(build).step = "next" /\ Failed(build).node = build.node /\ Failed(build).failed
         /\ Failed(build).todo = build.todo \ Descendants(build.node) /\ Failed(build).rows = {}
         /\ Failed(build).tainted = build.tainted /\ Failed(build).alone = build.alone
         /\ Failed(build).crowded = build.crowded /\ Failed(build).torn = build.torn
  <1> DEFINE rest == build.todo \ Descendants(build.node)
  <1>1. rest \in SUBSET Nodes /\ {} \in SUBSET Spans
    BY DEF Build
  <1>2. Failed(build) = [build EXCEPT !.step = "next", !.failed = TRUE, !.rows = {}, !.todo = rest]
    BY DEF Failed, Build
  <1>3. QED
    BY <1>1, <1>2 DEF Build

\* Create table as computes the rows, of a table that is missing, or fails.
LEMMA CreateEffect ==
  ASSUME MartTypes, NEW x \in Builds, Create(x)
  PROVE  /\ builds[x].step = "create" /\ builds[x].node \in Models
         /\ \/ Computes(x)
            \/ Fails(x) /\ (tables[builds[x].node] # Missing \/ Source(builds[x].node) = Missing)
         /\ OthersStay(x) /\ FlagsStay(x) /\ UNCHANGED <<turns, raw, agg, tables, last, batches>>
         /\ builds' \in [Builds -> Build]
         /\ IsFiniteSet(builds'[x].rows)
  <1> DEFINE node == builds[x].node
  <1>1. builds[x] \in Build /\ builds[x].step = "create" /\ node \in Models
    BY DEF MartTypes, At, Create
  <1>2. OthersStay(x)
    BY <1>1 DEF MartTypes, OthersStay, Create
  <1>3. Source(node) # Missing => Source(node) \in SUBSET Spans /\ IsFiniteSet(Source(node))
    BY NotMissing DEF MartTypes, Source, Models, Staging
  <1>4. CASE tables[node] = Missing /\ Source(node) # Missing
    <2>1. Of(node, Source(node)) \in SUBSET Spans /\ IsFiniteSet(Of(node, Source(node)))
      BY <1>3, <1>4, SpanFacts, FS_Subset
    <2>2. builds'[x] = [builds[x] EXCEPT !.step = "commit", !.rows = Of(node, Source(node))]
      BY <1>1, <1>4 DEF MartTypes, Create
    <2>3. Computes(x) /\ FlagsStay(x) /\ builds'[x] \in Build
      BY <1>1, <1>4, <2>1, <2>2 DEF Build, Computes, FlagsStay
    <2>4. builds' \in [Builds -> Build]
      BY <1>2, <2>3 DEF MartTypes, OthersStay, Create
    <2>5. builds'[x].rows = Of(node, Source(node))
      BY <2>3 DEF Computes
    <2>6. QED
      BY <1>1, <1>2, <2>1, <2>3, <2>4, <2>5 DEF Create
  <1>5. CASE ~(tables[node] = Missing /\ Source(node) # Missing)
    <2>1. builds'[x] = Failed(builds[x])
      BY <1>1, <1>5 DEF MartTypes, Create
    <2>2. Fails(x) /\ FlagsStay(x) /\ builds'[x] \in Build
      BY <1>1, <2>1, FailedFacts DEF Fails, FlagsStay
    <2>3. builds' \in [Builds -> Build]
      BY <1>2, <2>2 DEF MartTypes, OthersStay, Create
    <2>4. IsFiniteSet(builds'[x].rows)
      BY <2>2, FS_EmptySet DEF Fails
    <2>5. QED
      BY <1>1, <1>2, <1>5, <2>2, <2>3, <2>4 DEF Create
  <1>6. QED
    BY <1>4, <1>5

Stores(x) ==
  LET node == builds[x].node
  IN  /\ tables[node] = Missing /\ tables'[node] = builds[x].rows /\ OnlyTable(node)
      /\ builds'[x].step = "test" /\ builds'[x].rows = {}
      /\ builds'[x].todo = builds[x].todo /\ builds'[x].node = node
      /\ builds'[x].failed = builds[x].failed

\* The commit stores the rows, unless another build made the table first.
LEMMA CommitEffect ==
  ASSUME MartTypes, NEW x \in Builds, Commit(x)
  PROVE  /\ builds[x].step = "commit" /\ builds[x].node \in Models
         /\ \/ Stores(x)
            \/ Fails(x) /\ UNCHANGED tables /\ tables[builds[x].node] # Missing
         /\ OthersStay(x) /\ FlagsStay(x) /\ UNCHANGED <<turns, raw, agg, last, batches>>
         /\ builds' \in [Builds -> Build] /\ tables' \in [Models -> {Missing} \cup SUBSET Spans]
         /\ builds'[x].rows = {}
  <1> DEFINE node == builds[x].node
  <1>1. builds[x] \in Build /\ builds[x].step = "commit" /\ node \in Models
    BY DEF MartTypes, At, Commit
  <1>2. OthersStay(x)
    <2>1. ASSUME NEW c \in Builds, c # x PROVE builds'[c] = builds[c]
      BY <1>1, <2>1 DEF MartTypes, Commit
    <2>2. QED
      BY <2>1 DEF OthersStay
  <1>3. CASE tables[node] = Missing
    <2>1. builds'[x] = [builds[x] EXCEPT !.step = "test", !.rows = {}]
      BY <1>1, <1>3 DEF MartTypes, Commit
    <2>2. builds'[x] \in Build
      BY <1>1, <2>1 DEF Build
    <2>3. /\ builds'[x].step = "test" /\ builds'[x].rows = {}
          /\ builds'[x].todo = builds[x].todo /\ builds'[x].node = node
          /\ builds'[x].failed = builds[x].failed /\ FlagsStay(x)
      BY <1>1, <2>1 DEF Build, FlagsStay
    <2>4. builds[x].rows \in SUBSET Spans
      BY <1>1 DEF Build
    <2>5. tables'[node] = builds[x].rows /\ OnlyTable(node) /\ tables' \in [Models -> {Missing} \cup SUBSET Spans]
      BY <1>1, <1>3, <2>4 DEF MartTypes, Commit, OnlyTable
    <2>6. builds' \in [Builds -> Build]
      BY <1>2, <1>3, <2>2 DEF MartTypes, OthersStay, Commit
    <2>7. Stores(x)
      BY <1>3, <2>3, <2>5 DEF Stores
    <2>8. QED
      BY <1>1, <1>2, <2>3, <2>5, <2>6, <2>7 DEF Commit
  <1>4. CASE tables[node] # Missing
    <2>1. builds'[x] = Failed(builds[x]) /\ UNCHANGED tables
      BY <1>1, <1>4 DEF MartTypes, Commit
    <2>2. Fails(x) /\ FlagsStay(x) /\ builds'[x] \in Build /\ builds'[x].rows = {}
      BY <1>1, <2>1, FailedFacts DEF Fails, FlagsStay
    <2>3. builds' \in [Builds -> Build]
      BY <1>2, <1>4, <2>2 DEF MartTypes, OthersStay, Commit
    <2>4. QED
      BY <1>1, <1>2, <1>4, <2>1, <2>2, <2>3 DEF MartTypes, Commit
  <1>5. QED
    BY <1>3, <1>4

Tested(x) ==
  /\ builds'[x].step = "next" /\ builds'[x].node = builds[x].node /\ builds'[x].rows = builds[x].rows
  /\ builds'[x].todo = builds[x].todo
  /\ builds'[x].failed = (builds[x].failed \/ ~Passes(builds[x].node))

\* A test changes only whether its build failed.
LEMMA TestEffect ==
  ASSUME MartTypes, NEW x \in Builds, Test(x)
  PROVE  /\ builds[x].step = "test" /\ builds[x].node \in Nodes /\ Tested(x)
         /\ OthersStay(x) /\ FlagsStay(x) /\ UNCHANGED <<turns, raw, agg, tables, last, batches>>
         /\ builds' \in [Builds -> Build]
  <1> DEFINE verdict == builds[x].failed \/ ~Passes(builds[x].node)
  <1>1. builds[x] \in Build /\ builds[x].step = "test" /\ builds[x].node \in Nodes
    BY DEF MartTypes, At, Test
  <1>2. builds' = [builds EXCEPT ![x].step = "next", ![x].failed = verdict]
    BY DEF Test
  <1>3. verdict \in BOOLEAN
    OBVIOUS
  <1> HIDE DEF verdict
  <1>4. builds'[x] = [builds[x] EXCEPT !.step = "next", !.failed = verdict]
    BY <1>2 DEF MartTypes
  <1>5. OthersStay(x)
    <2>1. ASSUME NEW c \in Builds, c # x PROVE builds'[c] = builds[c]
      BY <1>2, <2>1 DEF MartTypes
    <2>2. QED
      BY <2>1 DEF OthersStay
  <1>6. builds'[x] \in Build
    BY <1>1, <1>3, <1>4 DEF Build
  <1>7. builds'[x].step = "next" /\ builds'[x].node = builds[x].node /\ builds'[x].rows = builds[x].rows
    BY <1>1, <1>4 DEF Build
  <1>8. builds'[x].todo = builds[x].todo /\ builds'[x].failed = verdict /\ FlagsStay(x)
    BY <1>1, <1>4 DEF Build, FlagsStay
  <1>9. builds' \in [Builds -> Build]
    BY <1>2, <1>5, <1>6 DEF MartTypes, OthersStay
  <1>10. QED
    BY <1>1, <1>5, <1>7, <1>8, <1>9 DEF Test, Tested, verdict

\* What a build that starts, ends or dies beside it leaves of one under way.
Carries(c) ==
  /\ builds'[c].todo = builds[c].todo /\ builds'[c].node = builds[c].node
  /\ builds'[c].rows = builds[c].rows /\ builds'[c].step = builds[c].step
  /\ builds'[c].failed = builds[c].failed /\ builds'[c].tainted = builds[c].tainted

\* A build that starts has everything to do.
LEMMA StartEffect ==
  ASSUME MartTypes, NEW x \in Builds, Start(x)
  PROVE  /\ ~Running(x) /\ UNCHANGED <<turns, raw, agg, tables, last, batches>>
         /\ builds' \in [Builds -> Build]
         /\ builds'[x].todo = Nodes /\ builds'[x].node = "none" /\ builds'[x].step = "next"
         /\ builds'[x].rows = {} /\ builds'[x].failed = FALSE /\ builds'[x].torn = FALSE
         /\ builds'[x].tainted = (Bad \in raw) /\ builds'[x].alone = Quiet /\ builds'[x].crowded = Several
         /\ \A c \in Builds : c # x /\ ~Running(c) => builds'[c] = Idle
         /\ \A c \in Builds : c # x /\ Running(c) =>
              /\ Carries(c) /\ builds'[c].alone = FALSE /\ builds'[c].torn = builds[c].torn
              /\ builds'[c].crowded = (builds[c].crowded \/ Several)
  <1>0. Quiet \in BOOLEAN /\ Several \in BOOLEAN /\ (Bad \in raw) \in BOOLEAN /\ {} \in SUBSET Spans
    BY DEF Quiet, Several
  <1>1. Idle \in Build
    BY DEF Idle, Build
  <1>2. builds' = [c \in Builds |->
          IF c = x
          THEN [Idle EXCEPT !.todo = Nodes, !.step = "next", !.tainted = Bad \in raw,
                            !.alone = Quiet, !.crowded = Several]
          ELSE IF Running(c) THEN [builds[c] EXCEPT !.alone = FALSE, !.crowded = @ \/ Several] ELSE Idle]
    BY DEF Start
  <1>3. builds'[x] = [todo |-> Nodes, node |-> "none", rows |-> {}, step |-> "next", failed |-> FALSE,
                      tainted |-> (Bad \in raw), alone |-> Quiet, crowded |-> Several, torn |-> FALSE]
    BY <1>2 DEF Idle
  <1>4. ASSUME NEW c \in Builds, c # x, Running(c)
        PROVE  /\ builds'[c] \in Build
               /\ Carries(c) /\ builds'[c].alone = FALSE /\ builds'[c].torn = builds[c].torn
               /\ builds'[c].crowded = (builds[c].crowded \/ Several)
    <2> DEFINE crowd == builds[c].crowded \/ Several
    <2>1. builds'[c] = [builds[c] EXCEPT !.alone = FALSE, !.crowded = crowd]
      BY <1>2, <1>4
    <2>2. builds[c] \in Build /\ crowd \in BOOLEAN
      BY <1>0 DEF MartTypes
    <2> HIDE DEF crowd
    <2>3. builds'[c] \in Build /\ Carries(c) /\ builds'[c].alone = FALSE /\ builds'[c].torn = builds[c].torn
      BY <2>1, <2>2 DEF Build, Carries
    <2>4. builds'[c].crowded = crowd
      BY <2>1, <2>2 DEF Build
    <2>5. QED
      BY <2>3, <2>4 DEF crowd
  <1>5. \A c \in Builds : c # x /\ ~Running(c) => builds'[c] = Idle
    BY <1>2
  <1>6. builds'[x] \in Build
    BY <1>0, <1>3 DEF Build
  <1>7. \A c \in Builds : builds'[c] \in Build
    BY <1>1, <1>4, <1>5, <1>6
  <1>8. builds' \in [Builds -> Build]
    BY <1>2, <1>7
  <1>9. /\ builds'[x].todo = Nodes /\ builds'[x].node = "none" /\ builds'[x].step = "next"
        /\ builds'[x].rows = {} /\ builds'[x].failed = FALSE /\ builds'[x].torn = FALSE
        /\ builds'[x].tainted = (Bad \in raw) /\ builds'[x].alone = Quiet /\ builds'[x].crowded = Several
    BY <1>3
  <1>10. QED
    BY <1>4, <1>5, <1>8, <1>9 DEF Start

\* A build that ends leaves the tables and is remembered as the last.
LEMMA EndedEffect ==
  ASSUME MartTypes, NEW x \in Builds, NEW outcome \in {"ok", "failed", "killed"}, Ended(x, outcome)
  PROVE  /\ UNCHANGED <<turns, raw, agg, tables, batches>>
         /\ last' = [outcome |-> outcome, tainted |-> builds[x].tainted, alone |-> builds[x].alone,
                     crowded |-> builds[x].crowded, torn |-> builds[x].torn]
         /\ builds' \in [Builds -> Build] /\ builds'[x] = Idle
         /\ \A c \in Builds : c # x /\ ~Running(c) => builds'[c] = Idle
         /\ \A c \in Builds : c # x /\ Running(c) =>
              /\ Carries(c) /\ builds'[c].alone = builds[c].alone /\ builds'[c].crowded = builds[c].crowded
              /\ builds'[c].torn = (builds[c].torn \/ outcome = "killed")
  <1>0. {} \in SUBSET Spans
    OBVIOUS
  <1>1. Idle \in Build
    BY DEF Idle, Build
  <1>2. builds' = [c \in Builds |-> IF c = x \/ ~Running(c) THEN Idle
                                    ELSE [builds[c] EXCEPT !.torn = @ \/ outcome = "killed"]]
    BY DEF Ended
  <1>4. ASSUME NEW c \in Builds, c # x, Running(c)
        PROVE  /\ builds'[c] \in Build
               /\ Carries(c) /\ builds'[c].alone = builds[c].alone /\ builds'[c].crowded = builds[c].crowded
               /\ builds'[c].torn = (builds[c].torn \/ outcome = "killed")
    <2> DEFINE torn == builds[c].torn \/ outcome = "killed"
    <2>1. builds'[c] = [builds[c] EXCEPT !.torn = torn]
      BY <1>2, <1>4
    <2>2. builds[c] \in Build /\ torn \in BOOLEAN
      BY DEF MartTypes
    <2> HIDE DEF torn
    <2>3. builds'[c] \in Build /\ Carries(c) /\ builds'[c].alone = builds[c].alone /\ builds'[c].crowded = builds[c].crowded
      BY <2>1, <2>2 DEF Build, Carries
    <2>4. builds'[c].torn = torn
      BY <2>1, <2>2 DEF Build
    <2>5. QED
      BY <2>3, <2>4 DEF torn
  <1>5. builds'[x] = Idle /\ \A c \in Builds : c # x /\ ~Running(c) => builds'[c] = Idle
    BY <1>2
  <1>7. \A c \in Builds : builds'[c] \in Build
    BY <1>1, <1>4, <1>5
  <1>8. builds' \in [Builds -> Build]
    BY <1>2, <1>7
  <1>10. QED
    BY <1>4, <1>5, <1>8 DEF Ended

Grows == UNCHANGED <<turns, tables, builds, last>> /\ raw \subseteq raw'
Traffics == Land \/ CloseWindow \/ Seed \/ Insert \/ Inject

\* The turns to come are fixed; a table takes the next of them.
LEMMA TurnFacts ==
  ASSUME MartTypes
  PROVE  /\ Len(turns) = MaxTurns
         /\ \A t \in 1 .. Len(turns) : t \in Nat /\ turns[t] \in AllOutcomes
         /\ \A table : NextTurn(table) \in Nat \ {0}
  <1>1. turns \in [1 .. MaxTurns -> Outcomes] /\ MaxTurns \in Nat /\ Outcomes \subseteq AllOutcomes
    BY WarehouseAssumption DEF MartTypes, Traffic
  <1>2. turns \in Seq(Outcomes) /\ Len(turns) = MaxTurns
    BY <1>1
  <1>3. ASSUME NEW table PROVE NextTurn(table) \in Nat \ {0}
    <2> DEFINE S == {t \in 1 .. Len(turns) : \E s \in table : s.turn = t}
    <2>1. IsFiniteSet(1 .. Len(turns)) /\ S \in SUBSET (1 .. Len(turns))
      BY <1>1, <1>2, FS_Interval
    <2>2. Cardinality(S) \in Nat
      BY <2>1, FS_Subset, FS_CardinalityType
    <2>3. QED
      BY <2>2 DEF NextTurn
  <1>4. QED
    BY <1>1, <1>2, <1>3

\* Traffic, the seed and the bad row only add to the raw table.
LEMMA TrafficEffect ==
  ASSUME MartTypes, Traffics
  PROVE  Grows /\ MartTypes'
  <1>1. Grows
    BY DEF Grows, Traffics, Land, CloseWindow, Seed, Insert, Inject
  <1>2. turns' \in Traffic /\ last' = last /\ tables' = tables /\ builds' = builds
    BY <1>1 DEF Grows, MartTypes
  <1>3. /\ raw' \in SUBSET Spans /\ IsFiniteSet(raw')
        /\ agg' \subseteq UNION {TurnSpans(t, turns[t]) : t \in 1 .. Len(turns)} /\ IsFiniteSet(agg')
        /\ batches' \in {<<>>, <<1, 2>>, <<2>>}
    <2>1. CASE Land
      <3> DEFINE more == TurnSpans(NextTurn(raw), turns[NextTurn(raw)])
      <3>1. NextTurn(raw) \in 1 .. Len(turns)
        BY <2>1, TurnFacts, WarehouseAssumption DEF Land
      <3>2. more \in SUBSET Spans /\ IsFiniteSet(more)
        BY <3>1, TurnFacts, SpanFacts
      <3>3. QED
        BY <2>1, <3>2, FS_Union DEF Land, MartTypes
    <2>2. CASE CloseWindow
      <3> DEFINE more == TurnSpans(NextTurn(agg), turns[NextTurn(agg)])
      <3>1. NextTurn(agg) \in 1 .. Len(turns)
        BY <2>2, TurnFacts, WarehouseAssumption DEF CloseWindow
      <3>2. more \in {TurnSpans(t, turns[t]) : t \in 1 .. Len(turns)} /\ IsFiniteSet(more)
        BY <3>1, TurnFacts, SpanFacts
      <3>3. QED
        BY <2>2, <3>2, FS_Union DEF CloseWindow, MartTypes
    <2>3. CASE Seed
      BY <2>3 DEF Seed, MartTypes
    <2>4. CASE Insert
      <3> DEFINE more == Batches[Head(batches)]
      <3>1. Head(batches) \in {1, 2} /\ Tail(batches) \in {<<>>, <<2>>}
        <4>1. batches = <<1, 2>> \/ batches = <<2>>
          BY <2>4 DEF Insert, MartTypes
        <4>2. Head(<<1, 2>>) = 1 /\ Tail(<<1, 2>>) = <<2>> /\ Head(<<2>>) = 2 /\ Tail(<<2>>) = <<>>
          OBVIOUS
        <4>3. QED
          BY <4>1, <4>2
      <3>2. more \in SUBSET Spans /\ IsFiniteSet(more)
        <4>1. MaxTurns + 1 \in Nat /\ MaxTurns + 2 \in Nat
          BY WarehouseAssumption
        <4>2. "answered" \in AllOutcomes /\ "failed" \in AllOutcomes
          BY DEF AllOutcomes
        <4>3. Batches[1] = TurnSpans(MaxTurns + 1, "answered") /\ Batches[2] = TurnSpans(MaxTurns + 2, "failed")
          BY DEF Batches
        <4>4. QED
          BY <3>1, <4>1, <4>2, <4>3, SpanFacts
      <3>3. QED
        BY <2>4, <3>1, <3>2, FS_Union DEF Insert, MartTypes
    <2>5. CASE Inject
      BY <2>5, SpanFacts, FS_AddElement DEF Inject, MartTypes
    <2>6. QED
      BY <2>1, <2>2, <2>3, <2>4, <2>5 DEF Traffics
  <1>4. QED
    BY <1>1, <1>2, <1>3 DEF MartTypes, At, Grows

\* The revert takes the bad row away and tears every build under way.
LEMMA RevertEffect ==
  ASSUME MartTypes, Revert
  PROVE  /\ UNCHANGED <<turns, tables, agg, last, batches>> /\ raw' = raw \ {Bad}
         /\ builds' \in [Builds -> Build]
         /\ \A c \in Builds :
              /\ builds'[c].todo = builds[c].todo /\ builds'[c].node = builds[c].node
              /\ builds'[c].rows = builds[c].rows /\ builds'[c].step = builds[c].step
              /\ builds'[c].failed = builds[c].failed /\ builds'[c].tainted = FALSE
              /\ builds'[c].alone = builds[c].alone /\ builds'[c].crowded = builds[c].crowded
              /\ builds'[c].torn = Running(c)
  <1>1. builds' = [b \in Builds |-> [builds[b] EXCEPT !.tainted = FALSE, !.torn = Running(b)]]
    BY DEF Revert
  <1>2. ASSUME NEW c \in Builds
        PROVE  /\ builds'[c] \in Build
               /\ builds'[c].todo = builds[c].todo /\ builds'[c].node = builds[c].node
               /\ builds'[c].rows = builds[c].rows /\ builds'[c].step = builds[c].step
               /\ builds'[c].failed = builds[c].failed /\ builds'[c].tainted = FALSE
               /\ builds'[c].alone = builds[c].alone /\ builds'[c].crowded = builds[c].crowded
               /\ builds'[c].torn = Running(c)
    <2> DEFINE running == Running(c)
    <2>1. builds'[c] = [builds[c] EXCEPT !.tainted = FALSE, !.torn = running]
      BY <1>1
    <2>2. builds[c] \in Build /\ running \in BOOLEAN
      BY DEF MartTypes, Running
    <2> HIDE DEF running
    <2>3. builds'[c] \in Build
      BY <2>1, <2>2 DEF Build
    <2>4. /\ builds'[c].todo = builds[c].todo /\ builds'[c].node = builds[c].node
          /\ builds'[c].rows = builds[c].rows /\ builds'[c].step = builds[c].step
          /\ builds'[c].failed = builds[c].failed /\ builds'[c].tainted = FALSE
          /\ builds'[c].alone = builds[c].alone /\ builds'[c].crowded = builds[c].crowded
          /\ builds'[c].torn = running
      BY <2>1, <2>2 DEF Build
    <2>5. QED
      BY <2>3, <2>4 DEF running
  <1>3. builds' \in [Builds -> Build]
    BY <1>1, <1>2
  <1>4. QED
    BY <1>2, <1>3 DEF Revert

\* The types of the tables and the rows, build by build.
TablesSound(all) == \A m \in Models : all[m] # Missing => IsFiniteSet(all[m]) /\ all[m] = Of(m, all[m])
RowsSound(build) ==
  /\ IsFiniteSet(build.rows)
  /\ build.step \in {"create", "commit"} => build.node \in Models
  /\ build.step = "commit" => build.rows = Of(build.node, build.rows)
  /\ build.step = "test" => build.node \in Nodes

\* The types, table by table and build by build.
LEMMA TypesApart ==
  MartTypes <=>
    /\ turns \in Traffic /\ raw \in SUBSET Spans /\ IsFiniteSet(raw)
    /\ agg \subseteq UNION {TurnSpans(t, turns[t]) : t \in 1 .. Len(turns)} /\ IsFiniteSet(agg)
    /\ tables \in [Models -> {Missing} \cup SUBSET Spans] /\ TablesSound(tables)
    /\ builds \in [Builds -> Build] /\ \A b \in Builds : RowsSound(builds[b])
    /\ last \in [outcome : {"none", "ok", "failed", "killed"}, tainted : BOOLEAN, alone : BOOLEAN,
                 crowded : BOOLEAN, torn : BOOLEAN]
    /\ batches \in {<<>>, <<1, 2>>, <<2>>}
  BY DEF MartTypes, TablesSound, RowsSound, At

IdleSound == RowsSound(Idle)
\* A build that is not under way is well typed.
LEMMA IdleIsSound == IdleSound
  BY FS_EmptySet DEF IdleSound, RowsSound, Idle

\* The empty warehouse is well typed.
LEMMA InitMarts == WarehouseInit => MartTypes
  <1> SUFFICES ASSUME WarehouseInit PROVE MartTypes
    OBVIOUS
  <1>1. Idle \in Build
    <2>1. {} \in SUBSET Spans
      OBVIOUS
    <2>2. QED
      BY <2>1 DEF Idle, Build
  <1>2. builds \in [Builds -> Build] /\ \A b \in Builds : RowsSound(builds[b])
    BY <1>1, IdleIsSound DEF WarehouseInit, IdleSound
  <1>3. tables \in [Models -> {Missing} \cup SUBSET Spans] /\ TablesSound(tables)
    BY DEF WarehouseInit, TablesSound
  <1>4. IsFiniteSet({})
    BY FS_EmptySet
  <1>5. QED
    BY <1>2, <1>3, <1>4, TypesApart DEF WarehouseInit

\* Every step keeps the types.
LEMMA StepMarts ==
  ASSUME MartTypes, [WarehouseNext]_warehouseVars
  PROVE  MartTypes'
  <1> DEFINE Last == [outcome : {"none", "ok", "failed", "killed"}, tainted : BOOLEAN, alone : BOOLEAN,
                      crowded : BOOLEAN, torn : BOOLEAN]
             Rest == /\ turns' = turns /\ raw' \in SUBSET Spans /\ IsFiniteSet(raw') /\ agg' = agg
                     /\ batches' = batches /\ last' \in Last
                     /\ tables' \in [Models -> {Missing} \cup SUBSET Spans]
                     /\ builds' \in [Builds -> Build]
  <1>0. TablesSound(tables) /\ \A b \in Builds : RowsSound(builds[b])
    BY TypesApart
  <1>1. ASSUME Rest, TablesSound(tables'), \A b \in Builds : RowsSound(builds'[b])
        PROVE  MartTypes'
    <2>1. MartTypes' <=>
            /\ turns' \in Traffic /\ raw' \in SUBSET Spans /\ IsFiniteSet(raw')
            /\ agg' \subseteq UNION {TurnSpans(t, turns'[t]) : t \in 1 .. Len(turns')} /\ IsFiniteSet(agg')
            /\ tables' \in [Models -> {Missing} \cup SUBSET Spans] /\ TablesSound(tables')
            /\ builds' \in [Builds -> Build] /\ \A b \in Builds : RowsSound(builds'[b])
            /\ last' \in Last
            /\ batches' \in {<<>>, <<1, 2>>, <<2>>}
      BY DEF MartTypes, TablesSound, RowsSound, At
    <2>2. QED
      BY <1>1, <2>1 DEF MartTypes
  <1>2. CASE UNCHANGED warehouseVars
    BY <1>2 DEF warehouseVars, MartTypes, At
  <1>3. CASE Traffics
    BY <1>3, TrafficEffect
  <1>4. CASE Revert
    <2>1. Rest /\ tables' = tables
      <3>1. UNCHANGED <<turns, tables, agg, last, batches>> /\ raw' = raw \ {Bad} /\ builds' \in [Builds -> Build]
        BY <1>4, RevertEffect
      <3>2. QED
        BY <3>1, FS_RemoveElement DEF MartTypes
    <2>2. \A b \in Builds : RowsSound(builds'[b])
      BY <1>0, <1>4, RevertEffect DEF RowsSound
    <2>3. QED
      BY <1>0, <1>1, <2>1, <2>2
  <1>5. ASSUME NEW x \in Builds, Start(x) PROVE MartTypes'
    <2>1. Rest /\ tables' = tables
      BY <1>5, StartEffect DEF MartTypes
    <2>2. \A b \in Builds : RowsSound(builds'[b])
      <3>1. RowsSound(builds'[x])
        <4>1. builds'[x].rows = {} /\ builds'[x].step = "next"
          BY <1>5, StartEffect
        <4>2. QED
          BY <4>1, FS_EmptySet DEF RowsSound
      <3>2. ASSUME NEW c \in Builds, c # x, Running(c) PROVE RowsSound(builds'[c])
        <4>1. Carries(c)
          BY <1>5, <3>2, StartEffect
        <4>2. QED
          BY <1>0, <4>1 DEF Carries, RowsSound
      <3>3. ASSUME NEW c \in Builds, c # x, ~Running(c) PROVE RowsSound(builds'[c])
        BY <1>5, <3>3, StartEffect, IdleIsSound DEF IdleSound
      <3>4. QED
        BY <3>1, <3>2, <3>3
    <2>3. QED
      BY <1>0, <1>1, <2>1, <2>2
  <1>6. ASSUME NEW x \in Builds, NextNode(x) PROVE MartTypes'
    <2>1. Rest
      BY <1>6, MovesEffect DEF MartTypes
    <2>2. PICK node \in Nodes : Moves(x, node)
      BY <1>6, MovesEffect
    <2>3. RowsSound(builds'[x])
      BY <1>0, <2>2 DEF RowsSound, Moves
    <2>4. \A b \in Builds : RowsSound(builds'[b])
      BY <1>0, <1>6, <2>3, MovesEffect DEF OthersStay
    <2>5. TablesSound(tables')
      BY <1>0, <2>2 DEF TablesSound, Moves, OnlyTable
    <2>6. QED
      BY <1>1, <2>1, <2>4, <2>5
  <1>7. ASSUME NEW x \in Builds, Create(x) PROVE MartTypes'
    <2>1. Rest /\ tables' = tables
      BY <1>7, CreateEffect DEF MartTypes
    <2>2. RowsSound(builds'[x])
      BY <1>7, CreateEffect, SpanFacts DEF RowsSound, Computes, Fails
    <2>3. \A b \in Builds : RowsSound(builds'[b])
      BY <1>0, <1>7, <2>2, CreateEffect DEF OthersStay
    <2>4. QED
      BY <1>0, <1>1, <2>1, <2>3
  <1>8. ASSUME NEW x \in Builds, Commit(x) PROVE MartTypes'
    <2>1. Rest
      BY <1>8, CommitEffect DEF MartTypes
    <2>2. RowsSound(builds'[x])
      BY <1>8, CommitEffect, FS_EmptySet DEF RowsSound, Stores, Fails, Nodes
    <2>3. \A b \in Builds : RowsSound(builds'[b])
      BY <1>0, <1>8, <2>2, CommitEffect DEF OthersStay
    <2>4. TablesSound(tables')
      BY <1>0, <1>8, CommitEffect DEF TablesSound, Stores, OnlyTable, RowsSound
    <2>5. QED
      BY <1>1, <2>1, <2>3, <2>4
  <1>9. ASSUME NEW x \in Builds, Test(x) PROVE MartTypes'
    <2>1. Rest /\ tables' = tables
      BY <1>9, TestEffect DEF MartTypes
    <2>2. RowsSound(builds'[x])
      BY <1>0, <1>9, TestEffect DEF RowsSound, Tested
    <2>3. \A b \in Builds : RowsSound(builds'[b])
      BY <1>0, <1>9, <2>2, TestEffect DEF OthersStay
    <2>4. QED
      BY <1>0, <1>1, <2>1, <2>3
  <1>10. ASSUME NEW x \in Builds, NEW outcome \in {"ok", "failed", "killed"}, Ended(x, outcome) PROVE MartTypes'
    <2>1. Rest /\ tables' = tables
      BY <1>10, EndedEffect DEF MartTypes, Build
    <2>2. \A b \in Builds : RowsSound(builds'[b])
      BY <1>0, <1>10, EndedEffect, IdleIsSound DEF RowsSound, Carries, IdleSound
    <2>3. QED
      BY <1>0, <1>1, <2>1, <2>2
  <1>11. ASSUME NEW x \in Builds, End(x) \/ KillBuild(x) PROVE MartTypes'
    BY <1>10, <1>11 DEF End, KillBuild
  <1>12. QED
    BY <1>2, <1>3, <1>4, <1>5, <1>6, <1>7, <1>8, <1>9, <1>11 DEF WarehouseNext, Traffics

-----------------------------------------------------------------------------
(***************************************************************************)
(* The walk of a build over the nodes, and the builds beside it.           *)
(***************************************************************************)
LEMMA Names ==
  /\ Models = Marts \cup {Stg, Agg} /\ Staging = {Stg, Agg} /\ Nodes = Models \cup Asserts
  /\ Rec \in Asserts /\ Sess \in Marts
  /\ Stg # Agg /\ Stg \notin Marts /\ Agg \notin Marts
  /\ \A n \in Asserts : n \notin Models
  /\ "none" \notin Nodes
  BY DEF Models, Staging, Marts, Asserts, Nodes, Stg, Agg, Rec, Sess

\* What depends on what, in the graph dbt reads off the models.
LEMMA Heirs ==
  /\ Descendants(Stg) = Marts \cup Asserts
  /\ \A n \in Models : n # Stg => Descendants(n) \subseteq Asserts
  /\ Rec \notin Descendants(Agg)
  BY DEF Descendants, Parents, Models, Staging, Marts, Asserts, Stg, Agg, Rec

\* The order the builds take the nodes in.
LEMMA OrderFacts ==
  /\ Order[1] = Agg /\ Order[2] = Stg /\ Order[3] = "fct_cost_by_prompt" /\ Order[4] = "fct_model_costs"
  /\ Order[5] = Sess /\ Order[6] = "fct_tool_reliability" /\ Order[7] = Rec
  /\ Order[8] = "streamed_agg_does_not_overcount" /\ DOMAIN Order = 1 .. 8
  BY DEF Order, Agg, Stg, Sess, Rec

\* What is still to come when a node is next.
LEMMA NextFacts ==
  ASSUME NEW node, NEW todo, IsNext(node, todo)
  PROVE  /\ node \in todo
         /\ node = Stg => Agg \notin todo
         /\ node \in Marts => Agg \notin todo /\ Stg \notin todo
         /\ node \in Asserts => \A n \in Models : n \notin todo
  <1>1. PICK i \in 1 .. 8 : Order[i] = node /\ node \in todo /\ \A j \in 1 .. i - 1 : Order[j] \notin todo
    BY OrderFacts DEF IsNext
  <1>2. i = 1 \/ i = 2 \/ i = 3 \/ i = 4 \/ i = 5 \/ i = 6 \/ i = 7 \/ i = 8
    OBVIOUS
  <1>3. ASSUME node = Stg PROVE Agg \notin todo
    <2>1. i = 2
      BY <1>1, <1>2, <1>3, OrderFacts DEF Agg, Stg, Sess, Rec
    <2>2. QED
      BY <1>1, <2>1, OrderFacts
  <1>4. ASSUME node \in Marts PROVE Agg \notin todo /\ Stg \notin todo
    <2>1. i > 2
      BY <1>1, <1>2, <1>4, OrderFacts, Names
    <2>2. 1 \in 1 .. i - 1 /\ 2 \in 1 .. i - 1
      BY <2>1
    <2>3. QED
      BY <1>1, <2>2, OrderFacts
  <1>5. ASSUME node \in Asserts PROVE \A n \in Models : n \notin todo
    <2>1. i > 6
      BY <1>1, <1>2, <1>5, OrderFacts, Names DEF Marts, Sess
    <2>2. 1 \in 1 .. i - 1 /\ 2 \in 1 .. i - 1 /\ 3 \in 1 .. i - 1 /\ 4 \in 1 .. i - 1 /\ 5 \in 1 .. i - 1 /\ 6 \in 1 .. i - 1
      BY <2>1
    <2>3. QED
      BY <1>1, <2>2, OrderFacts, Names DEF Marts, Sess
  <1>6. QED
    BY <1>1, <1>3, <1>4, <1>5

\* A build past a node is past those it depends on; one that has not failed still has the
\* reconciliation before it when it makes a mart.
Walk(build) ==
  /\ Agg \in build.todo => Stg \in build.todo
  /\ Stg \in build.todo => Marts \cup {Rec} \subseteq build.todo
  /\ ~build.failed => \A m \in Marts :
       m \in build.todo \/ (build.node = m /\ build.step \in {"create", "commit"}) => Rec \in build.todo
  /\ build.step \in {"create", "commit", "test"} =>
       /\ build.node \notin build.todo
       /\ build.node = Agg => Stg \in build.todo
       /\ build.node = Stg => Marts \cup {Rec} \subseteq build.todo
       /\ build.node \in Marts => Stg \notin build.todo
       /\ build.node \in Asserts => \A n \in Models : n \notin build.todo
Walking == \A b \in Builds : Walk(builds[b])

\* A build that is alone has nobody beside it, one that is not crowded at most one other.
Company ==
  \A b \in Builds : Running(b) =>
    /\ builds[b].alone => \A c \in Builds : ~Other(b, c)
    /\ ~builds[b].crowded => \A c, d \in Builds : Other(b, c) /\ Other(b, d) => c = d

StartedWalks == Walk(Idle) /\ \A build : build.todo = Nodes /\ build.step = "next" => Walk(build)
\* A build that starts has everything still before it.
LEMMA StartWalks == StartedWalks
  BY Names DEF StartedWalks, Walk, Idle

SameWalk(old, new) ==
  new.todo = old.todo /\ new.node = old.node /\ new.step = old.step /\ new.failed = old.failed
\* Where a build is in its walk depends on nothing but itself.
LEMMA WalkSame ==
  ASSUME NEW old, NEW new, SameWalk(old, new), Walk(old)
  PROVE  Walk(new)
  BY DEF SameWalk, Walk

\* Every step keeps the builds in the order of the graph.
LEMMA StepWalks ==
  ASSUME MartTypes, Walking, [WarehouseNext]_warehouseVars
  PROVE  Walking'
  <1>1. ASSUME UNCHANGED builds PROVE Walking'
    BY <1>1 DEF Walking
  <1>2. CASE Revert
    BY <1>2, RevertEffect, WalkSame DEF Walking, SameWalk
  <1>3. ASSUME NEW x \in Builds, OthersStay(x), Walk(builds'[x]) PROVE Walking'
    BY <1>3 DEF Walking, OthersStay
  <1>4. ASSUME NEW x \in Builds, Start(x) PROVE Walking'
    <2>1. Walk(builds'[x])
      BY <1>4, StartEffect, StartWalks DEF StartedWalks
    <2>2. ASSUME NEW c \in Builds, c # x, Running(c) PROVE Walk(builds'[c])
      BY <1>4, <2>2, StartEffect, WalkSame DEF Walking, SameWalk, Carries
    <2>3. ASSUME NEW c \in Builds, c # x, ~Running(c) PROVE Walk(builds'[c])
      BY <1>4, <2>3, StartEffect, StartWalks DEF StartedWalks
    <2>4. QED
      BY <2>1, <2>2, <2>3 DEF Walking
  <1>5. ASSUME NEW x \in Builds, NextNode(x) PROVE Walking'
    <2>1. PICK node \in Nodes : Moves(x, node)
      BY <1>5, MovesEffect
    <2>2. Walk(builds[x]) /\ IsNext(node, builds[x].todo)
      BY <2>1 DEF Walking, Moves
    <2>3. Walk(builds'[x])
      BY <2>1, <2>2, NextFacts, Names DEF Walk, Moves
    <2>4. QED
      BY <1>3, <1>5, <2>3, MovesEffect
  <1>6. ASSUME NEW x \in Builds, Fails(x), Walk(builds[x]), builds[x].node \in Models,
               builds[x].step \in {"create", "commit"}
        PROVE  Walk(builds'[x])
    BY <1>6, Heirs, Names DEF Walk, Fails
  <1>7. ASSUME NEW x \in Builds, Create(x) PROVE Walking'
    <2>1. Walk(builds[x])
      BY DEF Walking
    <2>2. Computes(x) => Walk(builds'[x])
      BY <1>7, <2>1, CreateEffect, Names DEF Walk, Computes
    <2>3. QED
      BY <1>3, <1>6, <1>7, <2>1, <2>2, CreateEffect
  <1>8. ASSUME NEW x \in Builds, Commit(x) PROVE Walking'
    <2>1. Walk(builds[x])
      BY DEF Walking
    <2>2. Stores(x) => Walk(builds'[x])
      BY <1>8, <2>1, CommitEffect, Names DEF Walk, Stores
    <2>3. QED
      BY <1>3, <1>6, <1>8, <2>1, <2>2, CommitEffect
  <1>9. ASSUME NEW x \in Builds, Test(x) PROVE Walking'
    <2>1. Walk(builds[x])
      BY DEF Walking
    <2>2. Walk(builds'[x])
      BY <1>9, <2>1, TestEffect DEF Walk, Tested
    <2>3. QED
      BY <1>3, <1>9, <2>2, TestEffect
  <1>10. ASSUME NEW x \in Builds, NEW outcome \in {"ok", "failed", "killed"}, Ended(x, outcome) PROVE Walking'
    <2>1. ASSUME NEW c \in Builds, c # x, Running(c) PROVE Walk(builds'[c])
      BY <1>10, <2>1, EndedEffect, WalkSame DEF Walking, SameWalk, Carries
    <2>2. ASSUME NEW c \in Builds, c = x \/ ~Running(c) PROVE Walk(builds'[c])
      BY <1>10, <2>2, EndedEffect, StartWalks DEF StartedWalks
    <2>3. QED
      BY <2>1, <2>2 DEF Walking
  <1>11. ASSUME NEW x \in Builds, End(x) \/ KillBuild(x) PROVE Walking'
    BY <1>10, <1>11 DEF End, KillBuild
  <1>12. Traffics \/ UNCHANGED warehouseVars => UNCHANGED builds
    BY TrafficEffect DEF Grows, warehouseVars
  <1>13. QED
    BY <1>1, <1>2, <1>4, <1>5, <1>7, <1>8, <1>9, <1>11, <1>12 DEF WarehouseNext, Traffics

\* Every step keeps count of the company a build has had.
LEMMA StepCompany ==
  ASSUME MartTypes, Company, [WarehouseNext]_warehouseVars
  PROVE  Company'
  <1>1. ASSUME \A c \in Builds : builds'[c].step = builds[c].step /\ builds'[c].alone = builds[c].alone
                                 /\ builds'[c].crowded = builds[c].crowded
        PROVE  Company'
    BY <1>1 DEF Company, Other, Running
  <1>2. CASE Revert
    BY <1>1, <1>2, RevertEffect
  <1>3. ASSUME NEW x \in Builds, OthersStay(x), FlagsStay(x), Running(x) PROVE Company'
    <2>1. \A c \in Builds : /\ Running(c)' => Running(c)
                            /\ builds'[c].alone = builds[c].alone /\ builds'[c].crowded = builds[c].crowded
      BY <1>3 DEF OthersStay, FlagsStay, Running
    <2>2. QED
      BY <2>1 DEF Company, Other
  <1>4. ASSUME NEW x \in Builds, Start(x) PROVE Company'
    <2>1. ~Running(x)
      BY <1>4, StartEffect
    <2>2. \A c \in Builds : Running(c)' => c = x \/ Running(c)
      <3>1. ASSUME NEW c \in Builds, c # x, ~Running(c) PROVE builds'[c].step = "idle"
        <4>1. builds'[c] = Idle
          BY <1>4, <3>1, StartEffect
        <4>2. QED
          BY <4>1 DEF Idle
      <3>2. QED
        BY <3>1 DEF Running
    <2>3. /\ builds'[x].alone => \A c \in Builds : ~Running(c)
          /\ ~builds'[x].crowded => \A c, d \in Builds : Running(c) /\ Running(d) => c = d
      BY <1>4, StartEffect DEF Quiet, Several
    <2>4. ASSUME NEW b \in Builds, b # x, Running(b)
          PROVE  /\ ~builds'[b].alone
                 /\ ~builds'[b].crowded => \A c, d \in Builds : Running(c) /\ Running(d) => c = d
      BY <1>4, <2>4, StartEffect DEF Several
    <2>5. ASSUME NEW b \in Builds, Running(b)'
          PROVE  /\ builds'[b].alone => \A c \in Builds : ~Other(b, c)'
                 /\ ~builds'[b].crowded => \A c, d \in Builds : Other(b, c)' /\ Other(b, d)' => c = d
      <3>1. CASE b = x
        BY <2>2, <2>3, <3>1 DEF Other
      <3>2. CASE b # x
        <4>1. Running(b)
          BY <2>2, <2>5, <3>2
        <4>2. ~builds'[b].alone
          BY <2>4, <3>2, <4>1
        <4>3. ASSUME ~builds'[b].crowded, NEW c \in Builds, c # b, Running(c)' PROVE c = x
          BY <2>2, <2>4, <3>2, <4>1, <4>3
        <4>4. QED
          BY <4>2, <4>3 DEF Other
      <3>3. QED
        BY <3>1, <3>2
    <2>6. QED
      BY <2>5 DEF Company
  <1>5. ASSUME NEW x \in Builds, NextNode(x) \/ Create(x) \/ Commit(x) \/ Test(x) PROVE Company'
    BY <1>3, <1>5, MovesEffect, CreateEffect, CommitEffect, TestEffect DEF NextNode, Running
  <1>6. ASSUME NEW x \in Builds, NEW outcome \in {"ok", "failed", "killed"}, Ended(x, outcome) PROVE Company'
    <2>1. \A c \in Builds : Running(c)' => c # x /\ Running(c)
      BY <1>6, EndedEffect DEF Running, Idle
    <2>2. \A c \in Builds : Running(c)' => builds'[c].alone = builds[c].alone /\ builds'[c].crowded = builds[c].crowded
      BY <1>6, <2>1, EndedEffect
    <2>3. QED
      BY <2>1, <2>2 DEF Company, Other
  <1>7. ASSUME NEW x \in Builds, End(x) \/ KillBuild(x) PROVE Company'
    BY <1>6, <1>7 DEF End, KillBuild
  <1>8. Traffics \/ UNCHANGED warehouseVars => Company'
    <2>1. Traffics \/ UNCHANGED warehouseVars => UNCHANGED builds
      BY TrafficEffect DEF Grows, warehouseVars
    <2>2. QED
      BY <1>1, <2>1
  <1>9. QED
    BY <1>2, <1>4, <1>5, <1>7, <1>8 DEF WarehouseNext, Traffics

-----------------------------------------------------------------------------
(***************************************************************************)
(* Two builds: what one keeps true for the other.                          *)
(***************************************************************************)
\* At a node, in one of some steps; making its table; past its staging table; past a mart.
In(p, node, steps) == p.node = node /\ p.step \in steps
Makes(p, model) == In(p, model, {"create", "commit"})
Settled(p) == p.step # "idle" /\ Stg \notin p.todo /\ ~Makes(p, Stg)
Made(p, mart) == Settled(p) /\ mart \notin p.todo /\ ~Makes(p, mart)

\* A mart a build is past is made of the staging table there is, or has lost rows that the
\* reconciliation will miss, or the other build has it still to make.
Fresh(all, mart) == all[Stg] # Missing /\ all[mart] = Of(mart, all[Stg])
Short(p, all, mart) ==
  /\ Rec \in p.todo \/ In(p, Rec, {"test"})
  /\ all[Stg] # Missing /\ all[mart] # Missing
  /\ all[mart] \subseteq Of(mart, all[Stg]) /\ all[mart] # Of(mart, all[Stg])
Tends(q, all, mart) ==
  \/ Makes(q, Stg) /\ all[Stg] = Missing
  \/ Settled(q) /\ mart \in q.todo
  \/ In(q, mart, {"create"}) /\ all[mart] = Missing
  \/ /\ In(q, mart, {"commit"}) /\ all[mart] = Missing
     /\ all[Stg] # Missing /\ q.rows = Of(mart, all[Stg])

\* What holds of a build p that has not failed, whose marts nobody left half made or
\* spoiled, and that has at most the build q beside it.
Calm(p) == p.step # "idle" /\ ~p.failed /\ ~p.torn /\ ~p.crowded
FromRaw(p, base) == In(p, Stg, {"commit"}) => p.rows \subseteq base
Rebuilt(q, all) == all[Stg] = Missing => Makes(q, Stg)
Grown(q, all, base) ==
  /\ all[Stg] # Missing => all[Stg] \subseteq base
  /\ In(q, Stg, {"commit"}) /\ all[Stg] = Missing => q.rows \subseteq base
Below(p, q, all, base, mart) ==
  In(p, mart, {"commit"}) =>
    /\ p.rows \subseteq base
    /\ all[Stg] # Missing => p.rows \subseteq Of(mart, all[Stg])
    /\ In(q, Stg, {"commit"}) /\ all[Stg] = Missing => p.rows \subseteq Of(mart, q.rows)
Matched(p, q, all, mart) == Made(p, mart) => Fresh(all, mart) \/ Short(p, all, mart) \/ Tends(q, all, mart)
PairedWith(p, q, all, base) ==
  Settled(p) =>
    /\ Rebuilt(q, all) /\ Grown(q, all, base)
    /\ \A m \in Marts : Below(p, q, all, base, m) /\ Matched(p, q, all, m)

\* The build beside one, if there is one.
Peer(b, q) ==
  \/ \E c \in Builds : Other(b, c) /\ q = builds[c]
  \/ q = Idle /\ \A c \in Builds : ~Other(b, c)
Paired ==
  \A b \in Builds : Calm(builds[b]) =>
    /\ FromRaw(builds[b], raw)
    /\ \A q \in Build : Peer(b, q) => PairedWith(builds[b], q, tables, raw)

\* The other build drops a table.
LEMMA OtherMoves ==
  ASSUME MartTypes, NEW x \in Builds, NEW node \in Nodes, Moves(x, node),
         NEW p, PairedWith(p, builds[x], tables, raw)
  PROVE  PairedWith(p, builds'[x], tables', raw)
  <1> SUFFICES ASSUME Settled(p) PROVE PairedWith(p, builds'[x], tables', raw)
    BY DEF PairedWith
  <1>0. Rebuilt(builds[x], tables) /\ Grown(builds[x], tables, raw)
    BY DEF PairedWith
  <1>1. builds[x].step = "next" /\ tables[Stg] # Missing /\ tables[Stg] \subseteq raw
    BY <1>0 DEF Moves, Rebuilt, Grown, Makes, In
  <1>2. Rebuilt(builds'[x], tables') /\ Grown(builds'[x], tables', raw)
    <2>1. CASE node = Stg
      BY <2>1, Names DEF Moves, Rebuilt, Grown, Makes, In
    <2>2. CASE node # Stg
      <3>1. tables'[Stg] = tables[Stg]
        BY <2>2, Names DEF Moves, OnlyTable
      <3>2. QED
        BY <1>1, <3>1 DEF Rebuilt, Grown
    <2>3. QED
      BY <2>1, <2>2
  <1>3. ASSUME NEW m \in Marts
        PROVE  Below(p, builds'[x], tables', raw, m) /\ Matched(p, builds'[x], tables', m)
    <2>0. Below(p, builds[x], tables, raw, m) /\ Matched(p, builds[x], tables, m)
      BY DEF PairedWith
    <2>1. CASE node = Stg
      <3>1. tables'[Stg] = Missing /\ Makes(builds'[x], Stg) /\ builds'[x].step = "create"
        BY <2>1, Names DEF Moves, Makes, In
      <3>2. QED
        BY <2>0, <3>1 DEF Below, Matched, Tends, In
    <2>2. CASE node # Stg
      <3>1. tables'[Stg] = tables[Stg]
        BY <2>2, Names DEF Moves, OnlyTable
      <3>2. Below(p, builds'[x], tables', raw, m)
        BY <1>1, <2>0, <3>1 DEF Below
      <3>3. CASE node = m
        <4>1. builds'[x].node = m /\ builds'[x].step = "create" /\ tables'[m] = Missing
          BY <3>3, Names DEF Moves
        <4>2. Tends(builds'[x], tables', m)
          BY <4>1 DEF Tends, In
        <4>3. QED
          BY <3>2, <4>2 DEF Matched
      <3>4. CASE node # m
        <4>1. tables'[m] = tables[m]
          BY <3>4, Names DEF Moves, OnlyTable
        <4>2. Tends(builds[x], tables, m) => Tends(builds'[x], tables', m)
          BY <1>1, <2>2, <3>4, Names DEF Tends, Settled, Makes, In, Moves
        <4>3. QED
          BY <2>0, <3>1, <3>2, <4>1, <4>2 DEF Matched, Fresh, Short
      <3>5. QED
        BY <3>2, <3>3, <3>4
    <2>3. QED
      BY <2>1, <2>2
  <1>4. QED
    BY <1>2, <1>3 DEF PairedWith

\* The other build computes a table.
LEMMA OtherComputes ==
  ASSUME MartTypes, NEW x \in Builds, Computes(x), builds[x].step = "create", builds[x].node \in Models,
         NEW p, PairedWith(p, builds[x], tables, raw),
         \A m \in Marts : In(p, m, {"commit"}) => p.rows = Of(m, p.rows)
  PROVE  PairedWith(p, builds'[x], tables, raw)
  <1> SUFFICES ASSUME Settled(p) PROVE PairedWith(p, builds'[x], tables, raw)
    BY DEF PairedWith
  <1> DEFINE node == builds[x].node
  <1>0. Rebuilt(builds[x], tables) /\ Grown(builds[x], tables, raw)
    BY DEF PairedWith
  <1>1. /\ builds'[x].step = "commit" /\ builds'[x].node = node /\ builds'[x].todo = builds[x].todo
        /\ builds'[x].rows = Of(node, Source(node)) /\ tables[node] = Missing
    BY DEF Computes
  <1>2. node = Stg => builds'[x].rows = raw
    BY <1>1, SpanFacts DEF Source, MartTypes, Stg
  <1>3. Rebuilt(builds'[x], tables) /\ Grown(builds'[x], tables, raw)
    BY <1>0, <1>1, <1>2 DEF Rebuilt, Grown, Makes, In
  <1>4. ASSUME NEW m \in Marts
        PROVE  Below(p, builds'[x], tables, raw, m) /\ Matched(p, builds'[x], tables, m)
    <2>0. Below(p, builds[x], tables, raw, m) /\ Matched(p, builds[x], tables, m)
      BY DEF PairedWith
    <2>1. Below(p, builds'[x], tables, raw, m)
      <3>1. SUFFICES ASSUME In(p, m, {"commit"}), In(builds'[x], Stg, {"commit"})
                     PROVE  p.rows \subseteq Of(m, builds'[x].rows)
        BY <2>0 DEF Below
      <3>2. builds'[x].rows = raw /\ p.rows \subseteq raw /\ p.rows = Of(m, p.rows)
        BY <1>1, <1>2, <2>0, <3>1 DEF Below, In
      <3>3. QED
        BY <3>2, SpanFacts
    <2>2. Tends(builds[x], tables, m) => Tends(builds'[x], tables, m)
      <3>1. CASE node = m
        <4>1. tables[Stg] # Missing /\ builds'[x].rows = Of(m, tables[Stg])
          BY <1>0, <1>1, <3>1, Names DEF Rebuilt, Makes, In, Source, Stg, Agg
        <4>2. QED
          BY <1>1, <3>1, <4>1 DEF Tends, In
      <3>2. CASE node # m
        BY <1>1, <3>2 DEF Tends, Settled, Makes, In
      <3>3. QED
        BY <3>1, <3>2
    <2>3. QED
      BY <2>0, <2>1, <2>2 DEF Matched
  <1>5. QED
    BY <1>3, <1>4 DEF PairedWith

\* The other build fails to make a table.
LEMMA OtherFails ==
  ASSUME MartTypes, NEW x \in Builds, Fails(x), builds[x].node \in Models, Walk(builds[x]),
         builds[x].step \in {"create", "commit"},
         tables[builds[x].node] # Missing \/ Source(builds[x].node) = Missing,
         NEW p, PairedWith(p, builds[x], tables, raw)
  PROVE  PairedWith(p, builds'[x], tables, raw)
  <1> SUFFICES ASSUME Settled(p) PROVE PairedWith(p, builds'[x], tables, raw)
    BY DEF PairedWith
  <1> DEFINE node == builds[x].node
  <1>0. Rebuilt(builds[x], tables) /\ Grown(builds[x], tables, raw)
    BY DEF PairedWith
  <1>1. node = Stg => tables[Stg] # Missing
    BY NotMissing DEF Source, Stg
  <1>2. tables[Stg] # Missing
    BY <1>0, <1>1 DEF Rebuilt, Makes, In
  <1>3. node # Agg => tables[node] # Missing
    BY <1>1, <1>2, Names DEF Source, Stg, Agg
  <1>4. Rebuilt(builds'[x], tables) /\ Grown(builds'[x], tables, raw)
    BY <1>0, <1>2 DEF Rebuilt, Grown
  <1>5. ASSUME NEW m \in Marts
        PROVE  Below(p, builds'[x], tables, raw, m) /\ Matched(p, builds'[x], tables, m)
    <2>0. Below(p, builds[x], tables, raw, m) /\ Matched(p, builds[x], tables, m)
      BY DEF PairedWith
    <2>1. Tends(builds[x], tables, m) => Tends(builds'[x], tables, m)
      <3>1. CASE node = Stg
        BY <1>2, <3>1, Names DEF Tends, Settled, Makes, In
      <3>2. CASE node = m
        <4>1. m \notin builds[x].todo /\ tables[m] # Missing
          BY <1>3, <3>2, Names DEF Walk
        <4>2. QED
          BY <1>2, <4>1 DEF Tends
      <3>3. CASE node # m /\ node # Stg
        <4>1. m \notin Descendants(node)
          BY <3>3, Heirs, Names
        <4>2. m \in builds[x].todo => m \in builds'[x].todo
          BY <4>1 DEF Fails
        <4>3. Settled(builds[x]) => Settled(builds'[x])
          BY DEF Settled, Makes, In, Fails
        <4>4. QED
          BY <1>2, <3>3, <4>2, <4>3 DEF Tends, In
      <3>4. QED
        BY <3>1, <3>2, <3>3
    <2>2. QED
      BY <1>2, <2>0, <2>1 DEF Below, Matched
  <1>6. QED
    BY <1>4, <1>5 DEF PairedWith

\* The other build commits a table.
LEMMA OtherStores ==
  ASSUME MartTypes, NEW x \in Builds, Stores(x), builds[x].step = "commit", builds[x].node \in Models,
         Walk(builds[x]), NEW p, PairedWith(p, builds[x], tables, raw)
  PROVE  PairedWith(p, builds'[x], tables', raw)
  <1> SUFFICES ASSUME Settled(p) PROVE PairedWith(p, builds'[x], tables', raw)
    BY DEF PairedWith
  <1> DEFINE node == builds[x].node
  <1>0. Rebuilt(builds[x], tables) /\ Grown(builds[x], tables, raw)
    BY DEF PairedWith
  <1>1. /\ builds'[x].step = "test" /\ builds'[x].node = node /\ builds'[x].todo = builds[x].todo
        /\ tables[node] = Missing /\ tables'[node] = builds[x].rows
        /\ \A m \in Models : m # node => tables'[m] = tables[m]
    BY DEF Stores, OnlyTable
  <1>2. builds[x].rows \in SUBSET Spans /\ builds[x].rows # Missing
    BY NotMissing DEF MartTypes, Build
  <1>3. node # Stg => tables[Stg] # Missing /\ tables'[Stg] = tables[Stg]
    BY <1>0, <1>1, Names DEF Rebuilt, Makes, In
  <1>4. node = Stg => tables'[Stg] = builds[x].rows /\ builds[x].rows \subseteq raw /\ tables[Stg] = Missing
    BY <1>0, <1>1 DEF Grown, In
  <1>5. tables'[Stg] # Missing /\ tables'[Stg] \subseteq raw
    BY <1>0, <1>2, <1>3, <1>4 DEF Grown
  <1>6. Rebuilt(builds'[x], tables') /\ Grown(builds'[x], tables', raw)
    BY <1>5 DEF Rebuilt, Grown
  <1>7. ASSUME NEW m \in Marts
        PROVE  Below(p, builds'[x], tables', raw, m) /\ Matched(p, builds'[x], tables', m)
    <2>0. Below(p, builds[x], tables, raw, m) /\ Matched(p, builds[x], tables, m)
      BY DEF PairedWith
    <2>1. Below(p, builds'[x], tables', raw, m)
      BY <1>1, <1>3, <1>4, <1>5, <2>0 DEF Below, In
    <2>2. CASE node = Stg
      <3>1. m \in builds'[x].todo /\ Settled(builds'[x])
        BY <1>1, <2>2, Names DEF Walk, Settled, Makes, In
      <3>2. QED
        BY <2>1, <3>1 DEF Matched, Tends
    <2>3. CASE node = m
      <3>1. m \notin builds[x].todo /\ tables[m] = Missing /\ tables[Stg] # Missing
        BY <1>1, <1>3, <2>3, Names DEF Walk
      <3>2. Of(m, tables[Stg]) # Missing
        <4>1. tables[Stg] \in SUBSET Spans
          BY <3>1, Names DEF MartTypes
        <4>2. Of(m, tables[Stg]) \in SUBSET Spans
          BY <4>1, SpanFacts
        <4>3. QED
          BY <4>2, NotMissing
      <3>3. Made(p, m) => builds[x].rows = Of(m, tables[Stg])
        BY <2>0, <3>1, <3>2 DEF Matched, Fresh, Short, Tends, In
      <3>4. QED
        BY <1>1, <1>3, <1>5, <2>1, <2>3, <3>3, Names DEF Matched, Fresh
    <2>4. CASE node # m /\ node # Stg
      <3>1. tables'[m] = tables[m] /\ tables'[Stg] = tables[Stg] /\ tables[Stg] # Missing
        BY <1>1, <1>3, <2>4, Names
      <3>2. Tends(builds[x], tables, m) => Tends(builds'[x], tables', m)
        BY <1>1, <2>4, <3>1 DEF Tends, Settled, Makes, In
      <3>3. QED
        BY <2>0, <2>1, <3>1, <3>2 DEF Matched, Fresh, Short
    <2>5. QED
      BY <2>2, <2>3, <2>4
  <1>8. QED
    BY <1>6, <1>7 DEF PairedWith

\* The other build tests what it made.
LEMMA OtherTested ==
  ASSUME MartTypes, NEW x \in Builds, Tested(x), builds[x].step = "test",
         NEW p, PairedWith(p, builds[x], tables, raw)
  PROVE  PairedWith(p, builds'[x], tables, raw)
  <1> SUFFICES ASSUME Settled(p) PROVE PairedWith(p, builds'[x], tables, raw)
    BY DEF PairedWith
  <1>0. Rebuilt(builds[x], tables) /\ Grown(builds[x], tables, raw)
    BY DEF PairedWith
  <1>1. tables[Stg] # Missing
    BY <1>0 DEF Rebuilt, Makes, In
  <1>2. ASSUME NEW m \in Marts
        PROVE  Below(p, builds'[x], tables, raw, m) /\ Matched(p, builds'[x], tables, m)
    <2>0. Below(p, builds[x], tables, raw, m) /\ Matched(p, builds[x], tables, m)
      BY DEF PairedWith
    <2>1. Tends(builds[x], tables, m) => Tends(builds'[x], tables, m)
      BY <1>1 DEF Tends, Settled, Makes, In, Tested
    <2>2. QED
      BY <1>1, <2>0, <2>1 DEF Below, Matched
  <1>3. QED
    BY <1>0, <1>1, <1>2 DEF PairedWith, Rebuilt, Grown

\* What a build does with its own tables.
LEMMA OwnMoves ==
  ASSUME MartTypes, NEW x \in Builds, NEW node \in Nodes, Moves(x, node),
         NEW q, PairedWith(builds[x], q, tables, raw)
  PROVE  PairedWith(builds'[x], q, tables', raw) /\ FromRaw(builds'[x], raw)
  <1>1. /\ builds[x].step = "next" /\ builds'[x].todo = builds[x].todo \ {node} /\ builds'[x].node = node
        /\ builds'[x].step \in {"create", "test"}
    BY DEF Moves
  <1>2. FromRaw(builds'[x], raw)
    BY <1>1 DEF FromRaw, In
  <1>3. SUFFICES ASSUME Settled(builds'[x]) PROVE PairedWith(builds'[x], q, tables', raw)
    BY <1>2 DEF PairedWith
  <1>4. node # Stg /\ Settled(builds[x])
    BY <1>1, <1>3, Names DEF Settled, Makes, In, Moves
  <1>5. /\ tables'[Stg] = tables[Stg] /\ Rebuilt(q, tables) /\ Grown(q, tables, raw)
        /\ \A m \in Marts : Matched(builds[x], q, tables, m)
    BY <1>4, Names DEF PairedWith, Moves, OnlyTable
  <1>6. ASSUME NEW m \in Marts PROVE Below(builds'[x], q, tables', raw, m) /\ Matched(builds'[x], q, tables', m)
    <2>1. Below(builds'[x], q, tables', raw, m)
      BY <1>1 DEF Below, In
    <2>2. CASE node = m
      <3>1. Makes(builds'[x], m)
        BY <1>1, <2>2, Names DEF Makes, In, Moves
      <3>2. QED
        BY <2>1, <3>1 DEF Matched, Made
    <2>3. CASE node # m
      <3>1. tables'[m] = tables[m]
        BY <2>3, Names DEF Moves, OnlyTable
      <3>2. Made(builds'[x], m) => Made(builds[x], m)
        BY <1>1, <1>4, <2>3 DEF Made, Makes, In
      <3>3. Short(builds[x], tables, m) => Short(builds'[x], tables', m)
        BY <1>1, <1>5, <3>1, Names DEF Short, In, Moves
      <3>4. Tends(q, tables, m) => Tends(q, tables', m)
        BY <1>5, <3>1 DEF Tends
      <3>5. QED
        BY <1>5, <2>1, <3>1, <3>2, <3>3, <3>4 DEF Matched, Fresh
    <2>4. QED
      BY <2>2, <2>3
  <1>7. QED
    BY <1>5, <1>6 DEF PairedWith, Rebuilt, Grown

\* A calm build computes a table from the staging table there is.
LEMMA OwnComputes ==
  ASSUME MartTypes, NEW x \in Builds, Computes(x), builds[x].step = "create", builds[x].node \in Models,
         Walk(builds[x]), NEW q, PairedWith(builds[x], q, tables, raw)
  PROVE  PairedWith(builds'[x], q, tables, raw) /\ FromRaw(builds'[x], raw)
  <1> DEFINE node == builds[x].node
  <1>1. /\ builds'[x].step = "commit" /\ builds'[x].todo = builds[x].todo /\ builds'[x].node = node
        /\ builds'[x].rows = Of(node, Source(node)) /\ Source(node) # Missing
    BY DEF Computes
  <1>2. FromRaw(builds'[x], raw)
    BY <1>1, SpanFacts DEF FromRaw, In, Source, Stg
  <1>3. SUFFICES ASSUME Settled(builds'[x]) PROVE PairedWith(builds'[x], q, tables, raw)
    BY <1>2 DEF PairedWith
  <1>4. Settled(builds[x])
    BY <1>1, <1>3 DEF Settled, Makes, In
  <1>5. Rebuilt(q, tables) /\ Grown(q, tables, raw) /\ \A m \in Marts : Matched(builds[x], q, tables, m)
    BY <1>4 DEF PairedWith
  <1>6. ASSUME NEW m \in Marts PROVE Below(builds'[x], q, tables, raw, m) /\ Matched(builds'[x], q, tables, m)
    <2>1. Below(builds'[x], q, tables, raw, m)
      <3>1. SUFFICES ASSUME node = m PROVE Below(builds'[x], q, tables, raw, m)
        BY <1>1 DEF Below, In
      <3>2. Source(m) = tables[Stg] /\ tables[Stg] # Missing
        BY <1>1, <3>1, Names DEF Source, Stg, Agg
      <3>3. builds'[x].rows \subseteq tables[Stg] /\ builds'[x].rows = Of(m, tables[Stg])
        BY <1>1, <3>1, <3>2, SpanFacts
      <3>4. QED
        BY <1>5, <3>2, <3>3 DEF Below, Grown
    <2>2. Made(builds'[x], m) => Made(builds[x], m)
      BY <1>1, <1>4 DEF Made, Makes, In
    <2>3. Short(builds[x], tables, m) => Short(builds'[x], tables, m)
      BY <1>1 DEF Short, In
    <2>4. QED
      BY <1>5, <2>1, <2>2, <2>3 DEF Matched
  <1>7. QED
    BY <1>5, <1>6 DEF PairedWith

\* A calm build stores a mart: what it computed still matches the staging table, or falls
\* short of it in a way the reconciliation sees.
LEMMA OwnStores ==
  ASSUME MartTypes, NEW x \in Builds, Stores(x), builds[x].step = "commit", builds[x].node \in Models,
         Walk(builds[x]), ~builds[x].failed, FromRaw(builds[x], raw),
         NEW q, PairedWith(builds[x], q, tables, raw)
  PROVE  PairedWith(builds'[x], q, tables', raw) /\ FromRaw(builds'[x], raw)
  <1> DEFINE node == builds[x].node
  <1>1. /\ builds'[x].step = "test" /\ builds'[x].todo = builds[x].todo /\ builds'[x].node = node
        /\ tables[node] = Missing /\ tables'[node] = builds[x].rows
        /\ \A m \in Models : m # node => tables'[m] = tables[m]
    BY DEF Stores, OnlyTable
  <1>2. FromRaw(builds'[x], raw)
    BY <1>1 DEF FromRaw, In
  <1>3. builds[x].rows \in SUBSET Spans /\ builds[x].rows # Missing
    BY NotMissing DEF MartTypes, Build
  <1>4. CASE node = Stg
    <2>1. tables'[Stg] # Missing /\ tables'[Stg] \subseteq raw
      BY <1>1, <1>3, <1>4 DEF FromRaw, In
    <2>2. \A m \in Marts : m \in builds'[x].todo
      BY <1>1, <1>4 DEF Walk
    <2>3. QED
      BY <1>1, <1>2, <2>1, <2>2 DEF PairedWith, Rebuilt, Grown, Below, Matched, Made, In
  <1>5. CASE node # Stg
    <2>1. SUFFICES ASSUME Settled(builds'[x]) PROVE PairedWith(builds'[x], q, tables', raw)
      BY <1>2 DEF PairedWith
    <2>2. Settled(builds[x])
      BY <1>1, <1>5, <2>1 DEF Settled, Makes, In
    <2>3. tables'[Stg] = tables[Stg]
      BY <1>1, <1>5, Names
    <2>4. /\ Rebuilt(q, tables) /\ Grown(q, tables, raw)
          /\ \A m \in Marts : Matched(builds[x], q, tables, m) /\ Below(builds[x], q, tables, raw, m)
      BY <2>2 DEF PairedWith
    <2>5. ASSUME NEW m \in Marts PROVE Below(builds'[x], q, tables', raw, m) /\ Matched(builds'[x], q, tables', m)
      <3>1. Below(builds'[x], q, tables', raw, m)
        BY <1>1 DEF Below, In
      <3>2. CASE node = m
        <4>1. tables[Stg] = Missing => Tends(q, tables', m)
          BY <2>3, <2>4 DEF Rebuilt, Tends
        <4>2. ASSUME tables[Stg] # Missing PROVE Fresh(tables', m) \/ Short(builds'[x], tables', m)
          <5>1. builds[x].rows \subseteq Of(m, tables[Stg])
            BY <1>1, <2>4, <3>2, <4>2 DEF Below, In
          <5>2. Rec \in builds[x].todo
            BY <3>2 DEF Walk
          <5>3. QED
            BY <1>1, <1>3, <2>3, <3>2, <4>2, <5>1, <5>2 DEF Fresh, Short
        <4>3. QED
          BY <3>1, <4>1, <4>2 DEF Matched
      <3>3. CASE node # m
        <4>1. tables'[m] = tables[m]
          BY <1>1, <3>3, Names
        <4>2. Made(builds'[x], m) => Made(builds[x], m)
          BY <1>1, <2>2, <3>3 DEF Made, Makes, In
        <4>3. Short(builds[x], tables, m) => Short(builds'[x], tables', m)
          BY <1>1, <2>3, <4>1 DEF Short, In
        <4>4. Tends(q, tables, m) => Tends(q, tables', m)
          BY <2>3, <4>1 DEF Tends
        <4>5. QED
          BY <2>3, <2>4, <3>1, <4>1, <4>2, <4>3, <4>4 DEF Matched, Fresh
      <3>4. QED
        BY <3>2, <3>3
    <2>6. QED
      BY <2>3, <2>4, <2>5 DEF PairedWith, Rebuilt, Grown
  <1>6. QED
    BY <1>4, <1>5

\* The reconciliation misses nothing: fewer rows are a smaller count.
LEMMA Counted ==
  ASSUME MartTypes, NEW p, NEW m \in Marts, Passes(Rec), Short(p, tables, m)
  PROVE  FALSE
  <1>1. Calls(tables[m]) = Calls(Of(m, tables[Stg]))
    BY Names DEF Passes, Holds, Reconciled, Rec, Stg, Staging
  <1>2. tables[Stg] \in SUBSET Spans /\ IsFiniteSet(tables[Stg])
    BY Names DEF Short, MartTypes
  <1>3. IsFiniteSet(Of(m, tables[Stg]))
    BY <1>2, SpanFacts, FS_Subset
  <1>4. QED
    BY <1>1, <1>3, FS_Subset DEF Short, Calls

\* A test a calm build passes leaves it calm: what falls short fails the reconciliation.
LEMMA OwnTested ==
  ASSUME MartTypes, NEW x \in Builds, Tested(x), builds[x].step = "test", ~builds'[x].failed,
         NEW q, PairedWith(builds[x], q, tables, raw)
  PROVE  PairedWith(builds'[x], q, tables, raw) /\ FromRaw(builds'[x], raw)
  <1>1. /\ builds'[x].step = "next" /\ builds'[x].todo = builds[x].todo /\ builds'[x].node = builds[x].node
        /\ Passes(builds[x].node)
    BY DEF Tested
  <1>2. FromRaw(builds'[x], raw)
    BY <1>1 DEF FromRaw, In
  <1>3. SUFFICES ASSUME Settled(builds'[x]) PROVE PairedWith(builds'[x], q, tables, raw)
    BY <1>2 DEF PairedWith
  <1>4. Settled(builds[x])
    BY <1>1, <1>3 DEF Settled, Makes, In
  <1>5. ASSUME NEW m \in Marts PROVE Below(builds'[x], q, tables, raw, m) /\ Matched(builds'[x], q, tables, m)
    <2>1. Below(builds'[x], q, tables, raw, m) /\ Matched(builds[x], q, tables, m)
      BY <1>1, <1>4 DEF Below, In, PairedWith
    <2>2. Made(builds'[x], m) => Made(builds[x], m)
      BY <1>1, <1>4 DEF Made, Makes, In
    <2>3. Short(builds[x], tables, m) => Rec \in builds[x].todo
      BY <1>1, Counted DEF Short, In
    <2>4. Short(builds[x], tables, m) => Short(builds'[x], tables, m)
      BY <1>1, <2>3 DEF Short
    <2>5. QED
      BY <2>1, <2>2, <2>4 DEF Matched
  <1>6. QED
    BY <1>4, <1>5 DEF PairedWith

\* A step of one build: it keeps what holds of itself, and what holds of the other.
OwnKept(x) ==
  Calm(builds'[x]) /\ FromRaw(builds[x], raw) =>
    \A q \in Build : PairedWith(builds[x], q, tables, raw) =>
      PairedWith(builds'[x], q, tables', raw) /\ FromRaw(builds'[x], raw)
OtherKept(x) ==
  \A b \in Builds : b # x /\ PairedWith(builds[b], builds[x], tables, raw) =>
    PairedWith(builds[b], builds'[x], tables', raw)

\* A build has another beside it, or the idle one stands in for it.
LEMMA PeerFacts ==
  ASSUME NEW b \in Builds
  PROVE  /\ (\E c \in Builds : Other(b, c)) \/ Peer(b, Idle)
         /\ \A c \in Builds : Other(b, c) => Peer(b, builds[c])
  BY DEF Peer

\* A build that is not under way is at no node and has nothing to do.
LEMMA IdleBuild == Idle \in Build /\ Idle.step = "idle" /\ Idle.node = "none" /\ Idle.todo = {}
  <1>1. {} \in SUBSET Spans
    OBVIOUS
  <1>2. QED
    BY <1>1 DEF Idle, Build

\* A step of one build keeps the pairing, if it keeps its own side and the other's.
LEMMA PairedByStep ==
  ASSUME MartTypes, MartTypes', Company, Paired, NEW x \in Builds, OthersStay(x), FlagsStay(x), raw' = raw,
         builds[x].step # "idle", builds'[x].step # "idle", builds[x].failed => builds'[x].failed,
         OwnKept(x), OtherKept(x)
  PROVE  Paired'
  <1>1. \A c \in Builds : c # x => builds'[c] = builds[c]
    BY DEF OthersStay
  <1>2. ASSUME Calm(builds'[x])
        PROVE  FromRaw(builds'[x], raw') /\ \A q \in Build : Peer(x, q)' => PairedWith(builds'[x], q, tables', raw')
    <2>1. Calm(builds[x])
      BY <1>2 DEF Calm, FlagsStay
    <2>2. FromRaw(builds[x], raw) /\ \A q \in Build : Peer(x, q) => PairedWith(builds[x], q, tables, raw)
      BY <2>1 DEF Paired
    <2>3. \A q \in Build : Peer(x, q)' => Peer(x, q)
      BY <1>1 DEF Peer, Other, Running
    <2>4. \A q \in Build : PairedWith(builds[x], q, tables, raw) =>
            PairedWith(builds'[x], q, tables', raw) /\ FromRaw(builds'[x], raw)
      BY <1>2, <2>2 DEF OwnKept
    <2>5. \E q \in Build : Peer(x, q)
      <3>1. \A c \in Builds : builds[c] \in Build
        BY DEF MartTypes
      <3>2. QED
        BY <3>1, IdleBuild, PeerFacts
    <2>6. QED
      BY <2>2, <2>3, <2>4, <2>5
  <1>3. ASSUME NEW b \in Builds, b # x, Calm(builds'[b])
        PROVE  FromRaw(builds'[b], raw') /\ \A q \in Build : Peer(b, q)' => PairedWith(builds'[b], q, tables', raw')
    <2>1. builds'[b] = builds[b] /\ Calm(builds[b])
      BY <1>1, <1>3
    <2>2. FromRaw(builds[b], raw) /\ \A q \in Build : Peer(b, q) => PairedWith(builds[b], q, tables, raw)
      BY <2>1 DEF Paired
    <2>3. Other(b, x) /\ \A c \in Builds : Other(b, c) => c = x
      BY <1>3, <2>1 DEF Company, Calm, Other, Running
    <2>4. PairedWith(builds[b], builds[x], tables, raw)
      BY <2>2, <2>3 DEF Peer, MartTypes
    <2>5. PairedWith(builds[b], builds'[x], tables', raw)
      BY <1>3, <2>4 DEF OtherKept
    <2>6. \A q \in Build : Peer(b, q)' => q = builds'[x]
      BY <1>1, <1>3, <2>3 DEF Peer, Other, Running
    <2>7. QED
      BY <2>1, <2>2, <2>5, <2>6
  <1>4. QED
    BY <1>2, <1>3 DEF Paired

\* Rows that land do not disturb the pairing.
LEMMA PairedSame ==
  ASSUME NEW p, NEW q, NEW all, NEW base, NEW more, base \subseteq more, PairedWith(p, q, all, base)
  PROVE  PairedWith(p, q, all, more)
  BY DEF PairedWith, Rebuilt, Grown, Below, Matched

\* Neither a build that starts nor one that ends has tables on its hands.
Harmless(q) == \A all, m : ~Makes(q, Stg) /\ ~Tends(q, all, m)
\* A build with no table on its hands can be traded for another such.
LEMMA PairedHarmless ==
  ASSUME NEW p, NEW q, NEW s, NEW all, NEW base, PairedWith(p, q, all, base), Harmless(q), Harmless(s)
  PROVE  PairedWith(p, s, all, base)
  <1>1. ~In(s, Stg, {"commit"})
    BY DEF Harmless, Makes, In
  <1>2. QED
    BY <1>1 DEF PairedWith, Rebuilt, Grown, Below, Matched, Harmless

\* Builds that start or end have no table on their hands.
LEMMA HarmlessBuilds ==
  ASSUME NEW q, (q.step = "next" /\ (q.todo = {} \/ Stg \in q.todo)) \/ q.step = "idle"
  PROVE  Harmless(q)
  BY DEF Harmless, Tends, Makes, Settled, In

\* What a build that only carries on keeps.
LEMMA PairedCarries ==
  ASSUME NEW p, NEW r, NEW q, NEW all, NEW base, PairedWith(p, q, all, base), FromRaw(p, base),
         r.todo = p.todo, r.node = p.node, r.rows = p.rows, r.step = p.step
  PROVE  PairedWith(r, q, all, base) /\ FromRaw(r, base)
  BY DEF PairedWith, FromRaw, Below, Matched, Made, Short, Settled, Makes, In

\* Every step keeps the pairing.
LEMMA StepPaired ==
  ASSUME MartTypes, MartTypes', Walking, Company, Paired, [WarehouseNext]_warehouseVars
  PROVE  Paired'
  <1>1. CASE Grows
    <2>1. builds' = builds /\ tables' = tables /\ raw \subseteq raw'
      BY <1>1 DEF Grows
    <2>2. \A b \in Builds, q \in Build : Peer(b, q)' => Peer(b, q)
      BY <2>1 DEF Peer, Other, Running
    <2>3. \A b \in Builds : FromRaw(builds[b], raw) => FromRaw(builds'[b], raw')
      BY <2>1 DEF FromRaw
    <2>4. \A b \in Builds, q \in Build : PairedWith(builds[b], q, tables, raw) => PairedWith(builds'[b], q, tables', raw')
      BY <2>1, PairedSame
    <2>5. \A b \in Builds : Calm(builds'[b]) => Calm(builds[b])
      BY <2>1
    <2>6. QED
      BY <2>2, <2>3, <2>4, <2>5 DEF Paired
  <1>2. CASE Revert
    <2>1. \A b \in Builds : ~Calm(builds'[b])
      BY <1>2, RevertEffect DEF Calm, Running
    <2>2. QED
      BY <2>1 DEF Paired
  <1>3. ASSUME NEW x \in Builds, Start(x) PROVE Paired'
    <2>1. ASSUME NEW q PROVE FromRaw(builds'[x], raw') /\ PairedWith(builds'[x], q, tables', raw')
      BY <1>3, StartEffect, Names DEF FromRaw, PairedWith, Settled, In
    <2>2. ASSUME NEW b \in Builds, b # x, Calm(builds'[b])
          PROVE  FromRaw(builds'[b], raw') /\ \A q \in Build : Peer(b, q)' => PairedWith(builds'[b], q, tables', raw')
      <3>1. Running(b)
        <4>1. ~Running(b) => builds'[b] = Idle
          BY <1>3, <2>2, StartEffect
        <4>2. QED
          BY <2>2, <4>1, IdleBuild DEF Calm
      <3>2. Carries(b) /\ builds'[b].torn = builds[b].torn /\ ~builds[b].crowded /\ ~Several
        BY <1>3, <2>2, <3>1, StartEffect DEF Calm
      <3>3. Calm(builds[b])
        BY <2>2, <3>1, <3>2 DEF Calm, Carries, Running
      <3>4. \A c \in Builds : ~Other(b, c)
        BY <3>1, <3>2 DEF Several, Other
      <3>5. FromRaw(builds[b], raw) /\ PairedWith(builds[b], Idle, tables, raw)
        BY <3>3, <3>4, IdleBuild, PeerFacts DEF Paired
      <3>6. FromRaw(builds'[b], raw) /\ PairedWith(builds'[b], Idle, tables, raw)
        BY <3>2, <3>5, PairedCarries DEF Carries
      <3>7. ASSUME NEW q \in Build, Peer(b, q)' PROVE Harmless(q)
        <4>1. \A c \in Builds : c # b /\ c # x => builds'[c] = Idle
          BY <1>3, <3>4, StartEffect DEF Other
        <4>2. q = builds'[x] \/ q = Idle
          BY <3>7, <4>1 DEF Peer, Other
        <4>3. builds'[x].step = "next" /\ Stg \in builds'[x].todo
          BY <1>3, StartEffect, Names
        <4>4. QED
          BY <4>2, <4>3, HarmlessBuilds, IdleBuild
      <3>8. Harmless(Idle)
        BY HarmlessBuilds, IdleBuild
      <3>9. UNCHANGED <<raw, tables>>
        BY <1>3, StartEffect
      <3>10. QED
        BY <3>6, <3>7, <3>8, <3>9, PairedHarmless
    <2>3. QED
      BY <2>1, <2>2 DEF Paired
  <1>4. ASSUME NEW x \in Builds, NextNode(x) PROVE Paired'
    <2>1. PICK node \in Nodes : Moves(x, node)
      BY <1>4, MovesEffect
    <2>2. OwnKept(x)
      BY <2>1, OwnMoves DEF OwnKept
    <2>3. OtherKept(x)
      BY <2>1, OtherMoves DEF OtherKept
    <2>4. builds[x].step # "idle" /\ builds'[x].step # "idle" /\ (builds[x].failed => builds'[x].failed)
      BY <2>1 DEF Moves
    <2>5. QED
      BY <1>4, <2>2, <2>3, <2>4, MovesEffect, PairedByStep
  <1>5. ASSUME NEW x \in Builds, Create(x) PROVE Paired'
    <2>1. /\ builds[x].step = "create" /\ builds[x].node \in Models /\ Walk(builds[x])
          /\ \/ Computes(x)
             \/ Fails(x) /\ (tables[builds[x].node] # Missing \/ Source(builds[x].node) = Missing)
          /\ UNCHANGED <<raw, tables>>
      BY <1>5, CreateEffect DEF Walking
    <2>2. OwnKept(x)
      <3>1. Fails(x) => ~Calm(builds'[x])
        BY DEF Fails, Calm
      <3>2. QED
        BY <2>1, <3>1, OwnComputes DEF OwnKept
    <2>3. OtherKept(x)
      <3>1. \A b \in Builds, m \in Marts : In(builds[b], m, {"commit"}) => builds[b].rows = Of(m, builds[b].rows)
        BY DEF MartTypes, At, In
      <3>2. QED
        BY <2>1, <3>1, OtherComputes, OtherFails DEF OtherKept
    <2>4. builds[x].step # "idle" /\ builds'[x].step # "idle" /\ (builds[x].failed => builds'[x].failed)
      BY <2>1 DEF Computes, Fails
    <2>5. QED
      BY <1>5, <2>2, <2>3, <2>4, CreateEffect, PairedByStep
  <1>6. ASSUME NEW x \in Builds, Commit(x) PROVE Paired'
    <2>1. /\ builds[x].step = "commit" /\ builds[x].node \in Models /\ Walk(builds[x])
          /\ Stores(x) \/ (Fails(x) /\ UNCHANGED tables /\ tables[builds[x].node] # Missing)
          /\ UNCHANGED raw
      BY <1>6, CommitEffect DEF Walking
    <2>2. OwnKept(x)
      <3>1. Fails(x) => ~Calm(builds'[x])
        BY DEF Fails, Calm
      <3>2. Stores(x) /\ Calm(builds'[x]) => ~builds[x].failed
        BY DEF Stores, Calm
      <3>3. QED
        BY <2>1, <3>1, <3>2, OwnStores DEF OwnKept
    <2>3. OtherKept(x)
      BY <2>1, OtherStores, OtherFails DEF OtherKept
    <2>4. builds[x].step # "idle" /\ builds'[x].step # "idle" /\ (builds[x].failed => builds'[x].failed)
      BY <2>1 DEF Stores, Fails
    <2>5. QED
      BY <1>6, <2>2, <2>3, <2>4, CommitEffect, PairedByStep
  <1>7. ASSUME NEW x \in Builds, Test(x) PROVE Paired'
    <2>1. builds[x].step = "test" /\ Tested(x) /\ UNCHANGED <<raw, tables>>
      BY <1>7, TestEffect
    <2>2. OwnKept(x)
      BY <2>1, OwnTested DEF OwnKept, Calm
    <2>3. OtherKept(x)
      BY <2>1, OtherTested DEF OtherKept
    <2>4. builds[x].step # "idle" /\ builds'[x].step # "idle" /\ (builds[x].failed => builds'[x].failed)
      BY <2>1 DEF Tested
    <2>5. QED
      BY <1>7, <2>2, <2>3, <2>4, TestEffect, PairedByStep
  <1>8. ASSUME NEW x \in Builds, NEW outcome \in {"ok", "failed", "killed"}, Ended(x, outcome),
               builds[x].step # "idle", outcome # "killed" => builds[x].step = "next" /\ builds[x].todo = {}
        PROVE  Paired'
    <2>1. ASSUME NEW b \in Builds, Calm(builds'[b])
          PROVE  FromRaw(builds'[b], raw') /\ \A q \in Build : Peer(b, q)' => PairedWith(builds'[b], q, tables', raw')
      <3>1. b # x /\ Running(b)
        <4>1. b = x \/ ~Running(b) => builds'[b] = Idle
          BY <1>8, EndedEffect
        <4>2. QED
          BY <2>1, <4>1, IdleBuild DEF Calm
      <3>2. /\ Carries(b) /\ builds'[b].crowded = builds[b].crowded
            /\ builds'[b].torn = (builds[b].torn \/ outcome = "killed")
        BY <1>8, <3>1, EndedEffect
      <3>3. Calm(builds[b]) /\ outcome # "killed"
        BY <2>1, <3>2 DEF Calm, Carries
      <3>4. Other(b, x) /\ \A c \in Builds : Other(b, c) => c = x
        BY <1>8, <3>1, <3>3 DEF Company, Calm, Other, Running
      <3>5. builds[x] \in Build /\ Peer(b, builds[x])
        BY <3>4, PeerFacts DEF MartTypes
      <3>6. FromRaw(builds[b], raw) /\ PairedWith(builds[b], builds[x], tables, raw)
        BY <3>3, <3>5 DEF Paired
      <3>7. FromRaw(builds'[b], raw) /\ PairedWith(builds'[b], builds[x], tables, raw)
        BY <3>2, <3>6, PairedCarries DEF Carries
      <3>8. Harmless(builds[x]) /\ Harmless(Idle)
        BY <1>8, <3>3, HarmlessBuilds, IdleBuild
      <3>9. PairedWith(builds'[b], Idle, tables, raw)
        BY <3>7, <3>8, PairedHarmless
      <3>10. \A c \in Builds : c # b => builds'[c] = Idle
        BY <1>8, <3>4, EndedEffect DEF Other
      <3>11. \A q \in Build : Peer(b, q)' => q = Idle
        BY <3>10 DEF Peer, Other
      <3>12. UNCHANGED <<raw, tables>>
        BY <1>8, EndedEffect
      <3>13. QED
        BY <3>7, <3>9, <3>11, <3>12
    <2>2. QED
      BY <2>1 DEF Paired
  <1>9. ASSUME NEW x \in Builds, End(x) \/ KillBuild(x) PROVE Paired'
    BY <1>8, <1>9 DEF End, KillBuild, Running
  <1>10. Traffics \/ UNCHANGED warehouseVars => Grows
    BY TrafficEffect DEF Grows, warehouseVars
  <1>11. QED
    BY <1>1, <1>2, <1>3, <1>4, <1>5, <1>6, <1>7, <1>9, <1>10 DEF WarehouseNext, Traffics

-----------------------------------------------------------------------------
\* When no build is left under way: none was, or the last one ended.
EndsLast(x, outcome) ==
  /\ Ended(x, outcome) /\ builds[x].step # "idle" /\ \A c \in Builds : ~Other(x, c)
  /\ outcome # "killed" => builds[x].step = "next" /\ builds[x].todo = {}
  /\ outcome = "ok" => ~builds[x].failed
  /\ outcome = "failed" => builds[x].failed
StaysQuiet == Quiet /\ UNCHANGED <<tables, last>>

\* The warehouse gets quiet only when the last build ends.
LEMMA QuietSteps ==
  ASSUME MartTypes, [WarehouseNext]_warehouseVars, Quiet'
  PROVE  StaysQuiet \/ \E x \in Builds, outcome \in {"ok", "failed", "killed"} : EndsLast(x, outcome)
  <1>1. CASE Grows
    BY <1>1 DEF Grows, StaysQuiet, Quiet, Running
  <1>2. CASE Revert
    BY <1>2, RevertEffect DEF StaysQuiet, Quiet, Running
  <1>3. ASSUME NEW x \in Builds, builds'[x].step # "idle" PROVE FALSE
    BY <1>3 DEF Quiet, Running
  <1>4. ASSUME NEW x \in Builds, Start(x) PROVE FALSE
    <2>1. builds'[x].step = "next"
      BY <1>4, StartEffect
    <2>2. QED
      BY <1>3, <2>1
  <1>5. ASSUME NEW x \in Builds, NextNode(x) PROVE FALSE
    BY <1>3, <1>5, MovesEffect DEF Moves
  <1>6. ASSUME NEW x \in Builds, Create(x) PROVE FALSE
    <2>1. Computes(x) \/ Fails(x)
      BY <1>6, CreateEffect
    <2>2. QED
      BY <1>3, <2>1 DEF Computes, Fails
  <1>7. ASSUME NEW x \in Builds, Commit(x) PROVE FALSE
    <2>1. Stores(x) \/ Fails(x)
      BY <1>7, CommitEffect
    <2>2. QED
      BY <1>3, <2>1 DEF Stores, Fails
  <1>8. ASSUME NEW x \in Builds, Test(x) PROVE FALSE
    <2>1. Tested(x)
      BY <1>8, TestEffect
    <2>2. QED
      BY <1>3, <2>1 DEF Tested
  <1>9. ASSUME NEW x \in Builds, NEW outcome \in {"ok", "failed", "killed"}, Ended(x, outcome)
        PROVE  \A c \in Builds : ~Other(x, c)
    <2>1. ASSUME NEW c \in Builds, Other(x, c) PROVE FALSE
      <3>1. Carries(c) /\ builds[c].step # "idle"
        BY <1>9, <2>1, EndedEffect DEF Other, Running
      <3>2. QED
        BY <1>3, <3>1 DEF Carries
    <2>2. QED
      BY <2>1
  <1>10. ASSUME NEW x \in Builds, End(x) PROVE \E outcome \in {"ok", "failed", "killed"} : EndsLast(x, outcome)
    <2>1. PICK outcome \in {"ok", "failed"} : /\ Ended(x, outcome)
                                              /\ outcome = (IF builds[x].failed THEN "failed" ELSE "ok")
      BY <1>10 DEF End
    <2>2. builds[x].step = "next" /\ builds[x].todo = {}
      BY <1>10 DEF End
    <2>3. EndsLast(x, outcome)
      BY <1>9, <2>1, <2>2 DEF EndsLast
    <2>4. QED
      BY <2>3
  <1>11. ASSUME NEW x \in Builds, KillBuild(x) PROVE EndsLast(x, "killed")
    BY <1>9, <1>11 DEF KillBuild, EndsLast, Running
  <1>12. Traffics \/ UNCHANGED warehouseVars => Grows
    BY TrafficEffect DEF Grows, warehouseVars
  <1>13. QED
    BY <1>1, <1>2, <1>4, <1>5, <1>6, <1>7, <1>8, <1>10, <1>11, <1>12 DEF WarehouseNext, Traffics

\* Every step keeps the marts of a quiet warehouse coherent.
LEMMA StepCoherent ==
  ASSUME MartTypes, Paired, Coherent, [WarehouseNext]_warehouseVars
  PROVE  Coherent'
  <1> SUFFICES ASSUME Quiet', last'.outcome = "ok", ~last'.torn, ~last'.crowded
               PROVE  \A m \in Marts : Fresh(tables', m)
    <2>1. Sess \in Marts
      BY Names
    <2>2. QED
      BY <2>1 DEF Coherent, Fresh, Stg
  <1>1. CASE StaysQuiet
    BY <1>1 DEF StaysQuiet, Coherent, Fresh, Stg
  <1>2. ASSUME NEW x \in Builds, NEW outcome \in {"ok", "failed", "killed"}, EndsLast(x, outcome)
        PROVE  \A m \in Marts : Fresh(tables', m)
    <2>1. /\ last'.outcome = outcome /\ last'.torn = builds[x].torn /\ last'.crowded = builds[x].crowded
          /\ tables' = tables
      <3>1. /\ tables' = tables
            /\ last' = [outcome |-> outcome, tainted |-> builds[x].tainted, alone |-> builds[x].alone,
                        crowded |-> builds[x].crowded, torn |-> builds[x].torn]
        BY <1>2, EndedEffect DEF EndsLast
      <3>2. QED
        BY <3>1
    <2>2. Calm(builds[x]) /\ builds[x].step = "next" /\ builds[x].todo = {}
      BY <1>2, <2>1 DEF EndsLast, Calm
    <2>3. PairedWith(builds[x], Idle, tables, raw)
      BY <1>2, <2>2, IdleBuild, PeerFacts DEF EndsLast, Paired
    <2>4. Harmless(Idle)
      BY IdleBuild, HarmlessBuilds
    <2>5. ASSUME NEW m \in Marts PROVE Fresh(tables, m)
      <3>1. Made(builds[x], m) /\ ~Short(builds[x], tables, m)
        BY <2>2 DEF Made, Settled, Makes, In, Short
      <3>2. Matched(builds[x], Idle, tables, m)
        BY <2>3, <3>1 DEF PairedWith, Made
      <3>3. QED
        BY <2>4, <3>1, <3>2 DEF Matched, Harmless
    <2>6. QED
      BY <2>1, <2>5
  <1>3. QED
    BY <1>1, <1>2, QuietSteps

-----------------------------------------------------------------------------
(***************************************************************************)
(* The bad row.                                                            *)
(***************************************************************************)
\* A build p that started with the bad row there, beside q: wherever it looks, it sees it.
Seen(p, q, all) ==
  /\ In(p, Stg, {"commit"}) => Bad \in p.rows
  /\ Settled(p) => /\ all[Stg] # Missing => Bad \in all[Stg]
                   /\ In(q, Stg, {"commit"}) /\ all[Stg] = Missing => Bad \in q.rows
  /\ In(p, Sess, {"commit"}) => Bad \in p.rows
  /\ In(p, Sess, {"test"}) => /\ all[Sess] # Missing => Bad \in all[Sess]
                              /\ In(q, Sess, {"commit"}) /\ all[Sess] = Missing => Bad \in q.rows
  /\ Sess \in p.todo \/ In(p, Sess, {"create", "commit", "test"})
Tainted ==
  \A b \in Builds : Running(b) /\ builds[b].tainted =>
    /\ Bad \in raw
    /\ ~builds[b].crowded /\ ~builds[b].failed => \A q \in Build : Peer(b, q) => Seen(builds[b], q, tables)
\* ... and does not end well.
TaintedLast == last.tainted /\ ~last.crowded => last.outcome # "ok"

\* The bad row is alone in its session, which makes the cost of that session negative; no
\* other row makes a cost negative.
BadShows(all) == \E g \in Groups(Sess, all[Sess]) : ~(TotalCost(g) >= 0)
\* A session mart with the bad row has a group that costs less than nothing.
LEMMA BadGroup ==
  ASSUME NEW all, Bad \in all[Sess]
  PROVE  BadShows(all)
  <1> DEFINE g == {s \in all[Sess] : GroupOf(Sess, s) = GroupOf(Sess, Bad)}
  <1>1. g \in Groups(Sess, all[Sess])
    BY DEF Groups
  <1>2. \A s : GroupOf(Sess, s) = SessionOf(s)
    BY DEF GroupOf, Sess
  <1>3. g = {Bad}
    BY <1>2 DEF SessionOf
  <1>4. Cost(Bad) = -1
    BY DEF Cost
  <1>5. {s \in {Bad} : Cost(s) = 1} = {} /\ {s \in {Bad} : Cost(s) = -1} = {Bad}
    BY <1>4
  <1>6. Cardinality({}) = 0 /\ Cardinality({Bad}) = 1
    BY FS_EmptySet, FS_Singleton
  <1>7. TotalCost({Bad}) = 0 - 1
    BY <1>5, <1>6 DEF TotalCost
  <1>8. QED
    BY <1>1, <1>3, <1>7 DEF BadShows

\* No row but the bad one lowers a cost.
LEMMA CostsAdd ==
  ASSUME NEW g, IsFiniteSet(g), Bad \notin g
  PROVE  TotalCost(g) >= 0
  <1>1. {s \in g : Cost(s) = -1} = {}
    BY DEF Cost
  <1>2. IsFiniteSet({s \in g : Cost(s) = 1})
    BY FS_Subset
  <1>3. Cardinality({s \in g : Cost(s) = 1}) \in Nat /\ Cardinality({}) = 0
    BY <1>2, FS_CardinalityType, FS_EmptySet
  <1>4. QED
    BY <1>1, <1>3 DEF TotalCost

\* A session mart with the bad row fails its test.
LEMMA BadFails ==
  ASSUME tables[Sess] # Missing => Bad \in tables[Sess], Passes(Sess)
  PROVE  FALSE
  <1>1. tables[Sess] # Missing
    BY Names DEF Passes, Reads
  <1>2. NonNegative(Sess)
    BY DEF Passes, Holds, Sess, Staging
  <1>3. QED
    BY <1>1, <1>2, BadGroup DEF BadShows, NonNegative

\* A step keeps what a build sees: its own, and the other's.
OwnSees(x) ==
  ~builds'[x].failed => \A q \in Build : Seen(builds[x], q, tables) => Seen(builds'[x], q, tables')
OtherSees(x) ==
  \A b \in Builds : b # x /\ Seen(builds[b], builds[x], tables) => Seen(builds[b], builds'[x], tables')

\* A step of one build keeps the bad row in sight of all, if it keeps it in sight of
\* both.
LEMMA TaintedByStep ==
  ASSUME MartTypes, Company, Tainted, NEW x \in Builds, OthersStay(x), FlagsStay(x), raw' = raw,
         builds[x].step # "idle", builds'[x].step # "idle", builds[x].failed => builds'[x].failed,
         Bad \in raw => OwnSees(x) /\ OtherSees(x)
  PROVE  Tainted'
  <1>1. \A c \in Builds : c # x => builds'[c] = builds[c]
    BY DEF OthersStay
  <1>2. ASSUME builds'[x].tainted
        PROVE  /\ Bad \in raw'
               /\ ~builds'[x].crowded /\ ~builds'[x].failed =>
                    \A q \in Build : Peer(x, q)' => Seen(builds'[x], q, tables')
    <2>1. Bad \in raw /\ (~builds[x].crowded /\ ~builds[x].failed =>
            \A q \in Build : Peer(x, q) => Seen(builds[x], q, tables))
      BY <1>2 DEF Tainted, FlagsStay, Running
    <2>2. \A q \in Build : Peer(x, q)' => Peer(x, q)
      BY <1>1 DEF Peer, Other, Running
    <2>3. QED
      BY <2>1, <2>2 DEF OwnSees, FlagsStay
  <1>3. ASSUME NEW b \in Builds, b # x, Running(b)', builds'[b].tainted
        PROVE  /\ Bad \in raw'
               /\ ~builds'[b].crowded /\ ~builds'[b].failed =>
                    \A q \in Build : Peer(b, q)' => Seen(builds'[b], q, tables')
    <2>1. builds'[b] = builds[b] /\ Running(b)
      BY <1>1, <1>3 DEF Running
    <2>2. Bad \in raw /\ (~builds[b].crowded /\ ~builds[b].failed =>
            \A q \in Build : Peer(b, q) => Seen(builds[b], q, tables))
      BY <1>3, <2>1 DEF Tainted
    <2>3. SUFFICES ASSUME ~builds[b].crowded, ~builds[b].failed
                   PROVE  \A q \in Build : Peer(b, q)' => Seen(builds[b], q, tables')
      BY <2>1, <2>2
    <2>4. Other(b, x) /\ \A c \in Builds : Other(b, c) => c = x
      BY <1>3, <2>1, <2>3 DEF Company, Other, Running
    <2>5. Seen(builds[b], builds[x], tables)
      BY <2>2, <2>3, <2>4 DEF Peer, MartTypes
    <2>6. \A q \in Build : Peer(b, q)' => q = builds'[x]
      BY <1>1, <1>3, <2>4 DEF Peer, Other, Running
    <2>7. QED
      BY <1>3, <2>2, <2>5, <2>6 DEF OtherSees
  <1>4. QED
    BY <1>2, <1>3 DEF Tainted

\* A build that holds nothing is no matter to what another sees.
Empty(q) == ~In(q, Stg, {"commit"}) /\ ~In(q, Sess, {"commit"})
\* A build with nothing in its hands can be traded for another such.
LEMMA SeenEmpty ==
  ASSUME NEW p, NEW q, NEW s, NEW all, Seen(p, q, all), Empty(s)
  PROVE  Seen(p, s, all)
  BY DEF Seen, Empty

\* What a build sees depends on where it is and on nothing it remembers.
LEMMA SeenCarries ==
  ASSUME NEW p, NEW r, NEW q, NEW all, Seen(p, q, all),
         r.todo = p.todo, r.node = p.node, r.rows = p.rows, r.step = p.step
  PROVE  Seen(r, q, all)
  BY DEF Seen, Settled, Makes, In

\* A build goes to its next node: what is in sight stays in sight.
LEMMA MovesSee ==
  ASSUME MartTypes, NEW x \in Builds, NEW node \in Nodes, Moves(x, node)
  PROVE  OwnSees(x) /\ OtherSees(x)
  <1>1. /\ builds[x].step = "next" /\ builds'[x].todo = builds[x].todo \ {node} /\ builds'[x].node = node
        /\ builds'[x].step = (IF node \in Models THEN "create" ELSE "test")
        /\ node \in Models => tables'[node] = Missing
        /\ \A m \in Models : m # node => tables'[m] = tables[m]
    BY DEF Moves, OnlyTable
  <1>2. ASSUME NEW q, Seen(builds[x], q, tables) PROVE Seen(builds'[x], q, tables')
    <2>1. Sess \in builds[x].todo
      BY <1>1, <1>2 DEF Seen, In
    <2>2. Sess \in builds'[x].todo \/ In(builds'[x], Sess, {"create"})
      BY <1>1, <2>1, Names DEF In
    <2>3. Settled(builds'[x]) => node # Stg /\ Settled(builds[x])
      BY <1>1, Names DEF Settled, Makes, In
    <2>4. node # Stg => tables'[Stg] = tables[Stg]
      BY <1>1, Names
    <2>5. ~In(builds'[x], Stg, {"commit"}) /\ ~In(builds'[x], Sess, {"commit"}) /\ ~In(builds'[x], Sess, {"test"})
      BY <1>1, Names DEF In
    <2>6. QED
      BY <1>2, <2>2, <2>3, <2>4, <2>5 DEF Seen, In
  <1>3. ASSUME NEW p, Seen(p, builds[x], tables) PROVE Seen(p, builds'[x], tables')
    <2>1. Empty(builds'[x])
      BY <1>1 DEF Empty, In
    <2>2. /\ tables'[Stg] # Missing => tables'[Stg] = tables[Stg]
          /\ tables'[Sess] # Missing => tables'[Sess] = tables[Sess]
      BY <1>1, Names
    <2>3. QED
      BY <1>3, <2>1, <2>2 DEF Seen, Empty
  <1>4. QED
    BY <1>2, <1>3 DEF OwnSees, OtherSees

\* The staging table takes the bad row.
LEMMA BadKinds == Bad \in raw => Bad \in Of(Stg, raw)
  BY DEF Of, Takes, Bad, Span, Stg, AllKinds
\* The session mart takes the bad row.
LEMMA BadSession == \A S : Bad \in S => Bad \in Of(Sess, S)
  BY DEF Of, Takes, Bad, Span, Sess, AllKinds

\* A build computes a table: the bad row is in it, when it was in what it read.
LEMMA ComputesSee ==
  ASSUME MartTypes, Walking, NEW x \in Builds, Computes(x), builds[x].step = "create", builds[x].node \in Models,
         Bad \in raw, tables' = tables
  PROVE  OwnSees(x) /\ \A p : (In(p, Sess, {"test"}) => Settled(p)) /\ Seen(p, builds[x], tables)
                                => Seen(p, builds'[x], tables)
  <1> DEFINE node == builds[x].node
  <1>1. /\ builds'[x].step = "commit" /\ builds'[x].todo = builds[x].todo /\ builds'[x].node = node
        /\ builds'[x].rows = Of(node, Source(node)) /\ Source(node) # Missing /\ Walk(builds[x])
    BY DEF Computes, Walking
  <1>2. node = Stg => Bad \in builds'[x].rows
    BY <1>1, BadKinds DEF Source, Stg
  <1>3. node = Sess => builds'[x].rows = Of(Sess, tables[Stg]) /\ tables[Stg] # Missing
    BY <1>1 DEF Source, Stg, Sess
  <1>4. ASSUME NEW q, Seen(builds[x], q, tables) PROVE Seen(builds'[x], q, tables)
    <2>1. Settled(builds'[x]) => Settled(builds[x])
      BY <1>1 DEF Settled, Makes, In
    <2>2. node = Sess => Bad \in builds'[x].rows
      <3>1. node = Sess => Settled(builds[x])
        BY <1>1, Names DEF Walk, Settled, Makes, In
      <3>2. node = Sess => Bad \in tables[Stg]
        BY <1>3, <1>4, <3>1 DEF Seen
      <3>3. QED
        BY <1>3, <3>2, BadSession
    <2>3. QED
      BY <1>1, <1>2, <1>4, <2>1, <2>2 DEF Seen, In
  <1>5. ASSUME NEW p, In(p, Sess, {"test"}) => Settled(p), Seen(p, builds[x], tables)
        PROVE  Seen(p, builds'[x], tables)
    <2>1. In(p, Sess, {"test"}) /\ node = Sess => Bad \in builds'[x].rows
      <3>1. In(p, Sess, {"test"}) /\ node = Sess => Bad \in tables[Stg]
        BY <1>3, <1>5 DEF Seen
      <3>2. QED
        BY <1>3, <3>1, BadSession
    <2>2. QED
      BY <1>1, <1>2, <1>5, <2>1 DEF Seen, In
  <1>6. QED
    BY <1>4, <1>5 DEF OwnSees

\* A build stores a table: the bad row is where it was computed.
LEMMA StoresSee ==
  ASSUME MartTypes, NEW x \in Builds, Stores(x), builds[x].step = "commit", builds[x].node \in Models
  PROVE  OwnSees(x) /\ OtherSees(x)
  <1> DEFINE node == builds[x].node
  <1>1. /\ builds'[x].step = "test" /\ builds'[x].todo = builds[x].todo /\ builds'[x].node = node
        /\ tables[node] = Missing /\ tables'[node] = builds[x].rows
        /\ \A m \in Models : m # node => tables'[m] = tables[m]
    BY DEF Stores, OnlyTable
  <1>2. builds[x].rows # Missing
    BY NotMissing DEF MartTypes, Build
  <1>3. /\ node = Stg => tables'[Stg] = builds[x].rows
        /\ node # Stg => tables'[Stg] = tables[Stg]
        /\ node = Sess => tables'[Sess] = builds[x].rows
        /\ node # Sess => tables'[Sess] = tables[Sess]
    BY <1>1, Names
  <1>4. ASSUME NEW q, Seen(builds[x], q, tables) PROVE Seen(builds'[x], q, tables')
    <2>1. ~In(builds'[x], Stg, {"commit"}) /\ ~In(builds'[x], Sess, {"commit"})
      BY <1>1 DEF In
    <2>2. Sess \in builds'[x].todo \/ In(builds'[x], Sess, {"create", "commit", "test"})
      BY <1>1, <1>4 DEF Seen, In
    <2>3. In(builds'[x], Sess, {"test"}) => tables'[Sess] # Missing /\ Bad \in tables'[Sess]
      BY <1>1, <1>2, <1>3, <1>4 DEF Seen, In
    <2>4. node = Stg => tables'[Stg] # Missing /\ Bad \in tables'[Stg]
      BY <1>1, <1>2, <1>3, <1>4 DEF Seen, In
    <2>5. node # Stg /\ Settled(builds'[x]) => Settled(builds[x])
      BY <1>1 DEF Settled, Makes, In
    <2>6. QED
      BY <1>3, <1>4, <2>1, <2>2, <2>3, <2>4, <2>5 DEF Seen
  <1>5. ASSUME NEW p, Seen(p, builds[x], tables) PROVE Seen(p, builds'[x], tables')
    <2>1. Empty(builds'[x])
      BY <1>1 DEF Empty, In
    <2>2. Settled(p) /\ tables'[Stg] # Missing => Bad \in tables'[Stg]
      BY <1>1, <1>3, <1>5 DEF Seen, In
    <2>3. In(p, Sess, {"test"}) /\ tables'[Sess] # Missing => Bad \in tables'[Sess]
      BY <1>1, <1>3, <1>5 DEF Seen, In
    <2>4. QED
      BY <1>5, <2>1, <2>2, <2>3 DEF Seen, Empty
  <1>6. QED
    BY <1>4, <1>5 DEF OwnSees, OtherSees

\* The test of the session mart fails a build that sees the bad row.
LEMMA TestedSees ==
  ASSUME MartTypes, NEW x \in Builds, Tested(x), builds[x].step = "test"
  PROVE  /\ ~builds'[x].failed => \A q : Seen(builds[x], q, tables) => Seen(builds'[x], q, tables)
         /\ \A p : Seen(p, builds[x], tables) => Seen(p, builds'[x], tables)
  <1>1. /\ builds'[x].step = "next" /\ builds'[x].todo = builds[x].todo /\ builds'[x].node = builds[x].node
        /\ ~builds'[x].failed => Passes(builds[x].node)
    BY DEF Tested
  <1>2. ASSUME ~builds'[x].failed, NEW q, Seen(builds[x], q, tables) PROVE Seen(builds'[x], q, tables)
    <2>1. builds[x].node # Sess
      BY <1>1, <1>2, BadFails DEF Seen, In
    <2>2. Settled(builds'[x]) => Settled(builds[x])
      BY <1>1 DEF Settled, Makes, In
    <2>3. QED
      BY <1>1, <1>2, <2>1, <2>2 DEF Seen, In
  <1>3. ASSUME NEW p, Seen(p, builds[x], tables) PROVE Seen(p, builds'[x], tables)
    BY <1>1, <1>3, SeenEmpty DEF Empty, In
  <1>4. QED
    BY <1>2, <1>3

\* Every step keeps the bad row in sight of the builds that started with it.
LEMMA StepTainted ==
  ASSUME MartTypes, Walking, Company, Tainted, [WarehouseNext]_warehouseVars
  PROVE  Tainted'
  <1>1. CASE Grows
    <2>1. builds' = builds /\ tables' = tables /\ raw \subseteq raw'
      BY <1>1 DEF Grows
    <2>2. \A b \in Builds, q \in Build : Peer(b, q)' => Peer(b, q)
      BY <2>1 DEF Peer, Other, Running
    <2>3. QED
      BY <2>1, <2>2 DEF Tainted, Running
  <1>2. CASE Revert
    BY <1>2, RevertEffect DEF Tainted
  <1>3. ASSUME NEW x \in Builds, Start(x) PROVE Tainted'
    <2>1. \A q : Seen(builds'[x], q, tables')
      BY <1>3, StartEffect, Names DEF Seen, Settled, In
    <2>2. ASSUME NEW b \in Builds, b # x, Running(b)', builds'[b].tainted
          PROVE  /\ Bad \in raw'
                 /\ ~builds'[b].crowded /\ ~builds'[b].failed =>
                      \A q \in Build : Peer(b, q)' => Seen(builds'[b], q, tables')
      <3>1. Running(b)
        <4>1. ~Running(b) => builds'[b] = Idle
          BY <1>3, <2>2, StartEffect
        <4>2. QED
          BY <2>2, <4>1, IdleBuild DEF Running
      <3>2. Carries(b) /\ builds'[b].crowded = (builds[b].crowded \/ Several) /\ UNCHANGED <<raw, tables>>
        BY <1>3, <2>2, <3>1, StartEffect
      <3>3. Bad \in raw
        BY <2>2, <3>1, <3>2 DEF Tainted, Carries
      <3>4. SUFFICES ASSUME ~builds'[b].crowded, ~builds'[b].failed, NEW q \in Build, Peer(b, q)'
                     PROVE  Seen(builds'[b], q, tables)
        BY <3>2, <3>3
      <3>5. \A c \in Builds : ~Other(b, c)
        BY <3>1, <3>2, <3>4 DEF Several, Other
      <3>6. Seen(builds[b], Idle, tables)
        BY <2>2, <3>1, <3>2, <3>4, <3>5, IdleBuild, PeerFacts DEF Tainted, Carries
      <3>7. Seen(builds'[b], Idle, tables)
        BY <3>2, <3>6, SeenCarries DEF Carries
      <3>8. Empty(q)
        <4>1. \A c \in Builds : c # b /\ c # x => builds'[c] = Idle
          BY <1>3, <3>5, StartEffect DEF Other
        <4>2. q = builds'[x] \/ q = Idle
          BY <3>4, <4>1 DEF Peer, Other
        <4>3. builds'[x].step = "next"
          BY <1>3, StartEffect
        <4>4. QED
          BY <4>2, <4>3, IdleBuild DEF Empty, In
      <3>9. QED
        BY <3>7, <3>8, SeenEmpty
    <2>3. builds'[x].tainted = (Bad \in raw) /\ raw' = raw
      BY <1>3, StartEffect
    <2>4. QED
      BY <2>1, <2>2, <2>3 DEF Tainted
  <1>4. ASSUME NEW x \in Builds, NextNode(x) PROVE Tainted'
    <2>1. PICK node \in Nodes : Moves(x, node)
      BY <1>4, MovesEffect
    <2>2. builds[x].step # "idle" /\ builds'[x].step # "idle" /\ (builds[x].failed => builds'[x].failed)
      BY <2>1 DEF Moves
    <2>3. OwnSees(x) /\ OtherSees(x)
      BY <2>1, MovesSee
    <2>4. QED
      BY <1>4, <2>2, <2>3, MovesEffect, TaintedByStep
  <1>5. ASSUME NEW x \in Builds, Fails(x), tables' = tables PROVE OwnSees(x) /\ OtherSees(x)
    <2>1. Empty(builds'[x]) /\ builds'[x].failed
      BY <1>5 DEF Empty, In, Fails
    <2>2. QED
      BY <1>5, <2>1, SeenEmpty DEF OwnSees, OtherSees
  <1>6. ASSUME NEW x \in Builds, Create(x) PROVE Tainted'
    <2>1. /\ builds[x].step = "create" /\ builds[x].node \in Models
          /\ Computes(x) \/ Fails(x)
          /\ UNCHANGED <<raw, tables>>
      BY <1>6, CreateEffect
    <2>2. builds[x].step # "idle" /\ builds'[x].step # "idle" /\ (builds[x].failed => builds'[x].failed)
      BY <2>1 DEF Computes, Fails
    <2>3. \A b \in Builds : In(builds[b], Sess, {"test"}) => Settled(builds[b])
      BY Names DEF Walking, Walk, In, Settled, Makes
    <2>4. Computes(x) /\ Bad \in raw => OwnSees(x) /\ OtherSees(x)
      BY <2>1, <2>3, ComputesSee DEF OwnSees, OtherSees
    <2>5. Bad \in raw => OwnSees(x) /\ OtherSees(x)
      BY <1>5, <2>1, <2>4
    <2>6. QED
      BY <1>6, <2>2, <2>5, CreateEffect, TaintedByStep
  <1>7. ASSUME NEW x \in Builds, Commit(x) PROVE Tainted'
    <2>1. /\ builds[x].step = "commit" /\ builds[x].node \in Models
          /\ Stores(x) \/ (Fails(x) /\ UNCHANGED tables)
      BY <1>7, CommitEffect
    <2>2. builds[x].step # "idle" /\ builds'[x].step # "idle" /\ (builds[x].failed => builds'[x].failed)
      BY <2>1 DEF Stores, Fails
    <2>3. OwnSees(x) /\ OtherSees(x)
      BY <1>5, <2>1, StoresSee
    <2>4. QED
      BY <1>7, <2>2, <2>3, CommitEffect, TaintedByStep
  <1>8. ASSUME NEW x \in Builds, Test(x) PROVE Tainted'
    <2>1. builds[x].step = "test" /\ Tested(x) /\ UNCHANGED <<raw, tables>>
      BY <1>8, TestEffect
    <2>2. builds[x].step # "idle" /\ builds'[x].step # "idle" /\ (builds[x].failed => builds'[x].failed)
      BY <2>1 DEF Tested
    <2>3. OwnSees(x) /\ OtherSees(x)
      BY <2>1, TestedSees DEF OwnSees, OtherSees
    <2>4. QED
      BY <1>8, <2>2, <2>3, TestEffect, TaintedByStep
  <1>9. ASSUME NEW x \in Builds, NEW outcome \in {"ok", "failed", "killed"}, Ended(x, outcome)
        PROVE  Tainted'
    <2>1. ASSUME NEW b \in Builds, Running(b)', builds'[b].tainted
          PROVE  /\ Bad \in raw'
                 /\ ~builds'[b].crowded /\ ~builds'[b].failed =>
                      \A q \in Build : Peer(b, q)' => Seen(builds'[b], q, tables')
      <3>1. b # x /\ Running(b)
        <4>1. b = x \/ ~Running(b) => builds'[b] = Idle
          BY <1>9, EndedEffect
        <4>2. QED
          BY <2>1, <4>1, IdleBuild DEF Running
      <3>2. Carries(b) /\ builds'[b].crowded = builds[b].crowded /\ UNCHANGED <<raw, tables>>
        BY <1>9, <3>1, EndedEffect
      <3>3. Bad \in raw
        BY <2>1, <3>1, <3>2 DEF Tainted, Carries
      <3>4. SUFFICES ASSUME ~builds'[b].crowded, ~builds'[b].failed, NEW q \in Build, Peer(b, q)'
                     PROVE  Seen(builds'[b], q, tables)
        BY <3>2, <3>3
      <3>5. \A r \in Build : Peer(b, r) => Seen(builds[b], r, tables)
        BY <2>1, <3>1, <3>2, <3>4 DEF Tainted, Carries
      <3>6. \A r \in Build : Peer(b, r) => Seen(builds'[b], r, tables)
        BY <3>2, <3>5, SeenCarries DEF Carries
      <3>7. CASE q = Idle
        <4>1. PICK r \in Build : Peer(b, r)
          <5>1. \A c \in Builds : builds[c] \in Build
            BY DEF MartTypes
          <5>2. QED
            BY <5>1, IdleBuild, PeerFacts
        <4>2. Empty(q)
          BY <3>7, IdleBuild DEF Empty, In
        <4>3. QED
          BY <3>6, <4>1, <4>2, SeenEmpty
      <3>8. ASSUME NEW c \in Builds, c # b, Running(c)', q = builds'[c] PROVE Seen(builds'[b], q, tables)
        <4>1. c # x /\ Running(c)
          <5>1. c = x \/ ~Running(c) => builds'[c] = Idle
            BY <1>9, EndedEffect
          <5>2. QED
            BY <3>8, <5>1, IdleBuild DEF Running
        <4>2. Carries(c) /\ Peer(b, builds[c]) /\ builds[c] \in Build
          BY <1>9, <3>8, <4>1, EndedEffect DEF Peer, Other, MartTypes
        <4>3. Seen(builds'[b], builds[c], tables)
          BY <3>6, <4>2
        <4>4. QED
          BY <3>8, <4>2, <4>3 DEF Seen, In, Carries
      <3>9. QED
        BY <3>4, <3>7, <3>8 DEF Peer, Other
    <2>2. QED
      BY <2>1 DEF Tainted
  <1>10. ASSUME NEW x \in Builds, End(x) \/ KillBuild(x) PROVE Tainted'
    BY <1>9, <1>10 DEF End, KillBuild
  <1>11. Traffics \/ UNCHANGED warehouseVars => Grows
    BY TrafficEffect DEF Grows, warehouseVars
  <1>12. QED
    BY <1>1, <1>2, <1>3, <1>4, <1>6, <1>7, <1>8, <1>10, <1>11 DEF WarehouseNext, Traffics

\* A build that started with the bad row does not end well.
LEMMA StepTaintedLast ==
  ASSUME MartTypes, Tainted, TaintedLast, [WarehouseNext]_warehouseVars
  PROVE  TaintedLast'
  <1>1. ASSUME UNCHANGED last PROVE TaintedLast'
    BY <1>1 DEF TaintedLast
  <1>2. ASSUME NEW x \in Builds, NEW outcome \in {"ok", "failed", "killed"}, Ended(x, outcome),
               outcome = "ok" => builds[x].step = "next" /\ builds[x].todo = {} /\ ~builds[x].failed
        PROVE  TaintedLast'
    <2>1. /\ last'.outcome = outcome /\ last'.tainted = builds[x].tainted /\ last'.crowded = builds[x].crowded
      <3>1. last' = [outcome |-> outcome, tainted |-> builds[x].tainted, alone |-> builds[x].alone,
                     crowded |-> builds[x].crowded, torn |-> builds[x].torn]
        BY <1>2, EndedEffect
      <3>2. QED
        BY <3>1
    <2>2. ASSUME outcome = "ok", builds[x].tainted, ~builds[x].crowded PROVE FALSE
      <3>1. \A q \in Build : Peer(x, q) => Seen(builds[x], q, tables)
        BY <1>2, <2>2 DEF Tainted, Running
      <3>2. \E q \in Build : Peer(x, q)
        <4>1. \A c \in Builds : builds[c] \in Build
          BY DEF MartTypes
        <4>2. QED
          BY <4>1, IdleBuild, PeerFacts
      <3>3. QED
        BY <1>2, <2>2, <3>1, <3>2 DEF Seen, In
    <2>3. QED
      BY <2>1, <2>2 DEF TaintedLast
  <1>3. ASSUME NEW x \in Builds, End(x) \/ KillBuild(x) PROVE TaintedLast'
    BY <1>2, <1>3 DEF End, KillBuild
  <1>4. Traffics \/ UNCHANGED warehouseVars => UNCHANGED last
    BY TrafficEffect DEF Grows, warehouseVars
  <1>5. ASSUME NEW x \in Builds, Start(x) \/ NextNode(x) \/ Create(x) \/ Commit(x) \/ Test(x) PROVE UNCHANGED last
    BY <1>5 DEF Start, NextNode, Create, Commit, Test
  <1>6. QED
    BY <1>1, <1>3, <1>4, <1>5 DEF WarehouseNext, Traffics, Revert

-----------------------------------------------------------------------------
(***************************************************************************)
(* A build that is alone.                                                  *)
(***************************************************************************)
\* The groups of a mart cost something; the aggregate is ahead of its staging table.
Sane(all, mart) == \A g \in Groups(mart, all[mart]) : TotalCost(g) >= 0
Exceeds(all) == \E s \in all[Agg] : s \notin all[Stg]
\* Nobody drops or makes its tables: every mart it is past is made of the staging table, it
\* has failed only for a reason, and otherwise what it has tested is sane.
Solo(p, all) ==
  /\ \A n \in Models : Makes(p, n) => all[n] = Missing
  /\ \A n \in Staging : n \notin p.todo /\ ~Makes(p, n) => all[n] # Missing
  /\ \A m \in Marts : /\ Made(p, m) => Fresh(all, m)
                      /\ In(p, m, {"commit"}) => p.rows = Of(m, all[Stg])
  /\ p.failed => Settled(p) /\ (Bad \in all[Stg] \/ Exceeds(all))
  /\ ~p.failed => \A m \in Marts : Made(p, m) /\ ~In(p, m, {"test"}) => Sane(all, m)
  /\ p.tainted => /\ In(p, Stg, {"commit"}) => Bad \in p.rows
                  /\ Settled(p) => Bad \in all[Stg]

\* A build alone has nobody in its way; what it leaves behind stays until the next.
Alone == \A b \in Builds : Running(b) /\ builds[b].alone => Solo(builds[b], tables)
Afterwards ==
  Quiet /\ last.alone /\ last.outcome \in {"ok", "failed"} =>
    /\ \A n \in Staging : tables[n] # Missing
    /\ \A m \in Marts : Fresh(tables, m)
    /\ last.outcome = "ok" => \A m \in Marts : Sane(tables, m)
    /\ last.outcome = "failed" => Bad \in tables[Stg] \/ Exceeds(tables)
    /\ last.tainted => Bad \in tables[Stg]

\* A build that is alone goes to its next node.
LEMMA SoloMoves ==
  ASSUME MartTypes, NEW x \in Builds, NEW node \in Nodes, Moves(x, node), FlagsStay(x),
         Walk(builds[x]), Solo(builds[x], tables)
  PROVE  Solo(builds'[x], tables')
  <1>1. /\ builds[x].step = "next" /\ builds'[x].todo = builds[x].todo \ {node} /\ builds'[x].node = node
        /\ builds'[x].step = (IF node \in Models THEN "create" ELSE "test")
        /\ builds'[x].failed = builds[x].failed /\ builds'[x].tainted = builds[x].tainted
        /\ node \in Models => tables'[node] = Missing
        /\ \A m \in Models : m # node => tables'[m] = tables[m]
        /\ node \in builds[x].todo
    BY DEF Moves, OnlyTable, FlagsStay
  <1>2. \A n \in Models : Makes(builds'[x], n) => n = node
    BY <1>1 DEF Makes, In
  <1>3. \A n : ~Makes(builds[x], n) /\ ~In(builds'[x], n, {"commit"})
    BY <1>1 DEF Makes, In
  <1>4. Settled(builds'[x]) => Settled(builds[x]) /\ node # Stg /\ tables'[Stg] = tables[Stg]
    BY <1>1, Names DEF Settled, Makes, In
  <1>5. Settled(builds[x]) => Settled(builds'[x]) /\ node # Stg /\ node # Agg
    BY <1>1, Names DEF Settled, Makes, In, Walk
  <1>6. \A n \in Staging : n \notin builds'[x].todo /\ ~Makes(builds'[x], n) => tables'[n] # Missing
    <2>1. ASSUME NEW n \in Staging, n \notin builds'[x].todo, ~Makes(builds'[x], n) PROVE tables'[n] # Missing
      <3>1. n # node /\ n \in Models
        BY <1>1, <2>1, Names DEF Makes, In
      <3>2. QED
        BY <1>1, <1>3, <2>1, <3>1 DEF Solo
    <2>2. QED
      BY <2>1
  <1>7. ASSUME NEW m \in Marts, Made(builds'[x], m)
        PROVE  Made(builds[x], m) /\ m # node /\ tables'[m] = tables[m] /\ tables'[Stg] = tables[Stg]
    BY <1>1, <1>3, <1>4, <1>7, Names DEF Made, Makes, In
  <1>8. \A m \in Marts : Made(builds'[x], m) => Fresh(tables', m)
    BY <1>7 DEF Solo, Fresh
  <1>9. builds'[x].failed => Settled(builds'[x]) /\ (Bad \in tables'[Stg] \/ Exceeds(tables'))
    <2>1. Settled(builds[x]) => tables'[Stg] = tables[Stg] /\ tables'[Agg] = tables[Agg]
      BY <1>1, <1>5, Names
    <2>2. QED
      BY <1>1, <1>5, <2>1 DEF Solo, Exceeds
  <1>10. ~builds'[x].failed => \A m \in Marts : Made(builds'[x], m) => Sane(tables', m)
    BY <1>1, <1>3, <1>7 DEF Solo, Sane, In
  <1>11. QED
    BY <1>1, <1>2, <1>3, <1>4, <1>6, <1>8, <1>9, <1>10 DEF Solo

\* A build that is alone computes a table.
LEMMA SoloComputes ==
  ASSUME MartTypes, NEW x \in Builds, builds[x].step = "create", builds[x].node \in Models,
         Computes(x) \/ (Fails(x) /\ (tables[builds[x].node] # Missing \/ Source(builds[x].node) = Missing)),
         FlagsStay(x), Walk(builds[x]), Solo(builds[x], tables), builds[x].tainted => Bad \in raw
  PROVE  Solo(builds'[x], tables)
  <1> DEFINE node == builds[x].node
  <1>1. tables[node] = Missing
    BY DEF Solo, Makes, In
  <1>2. node \in Marts => Settled(builds[x]) /\ tables[Stg] # Missing /\ Source(node) = tables[Stg]
    <2>1. node \in Marts => Settled(builds[x]) /\ Stg \notin builds[x].todo /\ ~Makes(builds[x], Stg)
      BY Names DEF Walk, Settled, Makes, In
    <2>2. node \in Marts => Source(node) = tables[Stg]
      BY Names DEF Source, Stg, Agg
    <2>3. QED
      BY <2>1, <2>2, Names DEF Solo
  <1>3. Source(node) # Missing
    BY <1>2, NotMissing, Names DEF Source, Stg, Agg
  <1>4. Computes(x)
    BY <1>1, <1>3
  <1>5. /\ builds'[x].step = "commit" /\ builds'[x].todo = builds[x].todo /\ builds'[x].node = node
        /\ builds'[x].rows = Of(node, Source(node))
        /\ builds'[x].failed = builds[x].failed /\ builds'[x].tainted = builds[x].tainted
    BY <1>4 DEF Computes, FlagsStay
  <1>6. \A n : Makes(builds'[x], n) <=> Makes(builds[x], n)
    BY <1>5 DEF Makes, In
  <1>7. (Settled(builds'[x]) <=> Settled(builds[x])) /\ \A m : Made(builds'[x], m) <=> Made(builds[x], m)
    BY <1>5, <1>6 DEF Settled, Made
  <1>8. \A m : ~In(builds'[x], m, {"test"}) /\ ~In(builds[x], m, {"test"})
    BY <1>5 DEF In
  <1>9. \A m \in Marts : In(builds'[x], m, {"commit"}) => builds'[x].rows = Of(m, tables[Stg])
    BY <1>2, <1>5 DEF In
  <1>10. builds'[x].tainted /\ In(builds'[x], Stg, {"commit"}) => Bad \in builds'[x].rows
    BY <1>5, BadKinds DEF In, Source, Stg
  <1>11. QED
    BY <1>5, <1>6, <1>7, <1>8, <1>9, <1>10 DEF Solo

\* A build that is alone stores a table.
LEMMA SoloStores ==
  ASSUME MartTypes, NEW x \in Builds, builds[x].step = "commit", builds[x].node \in Models,
         Stores(x) \/ (Fails(x) /\ tables[builds[x].node] # Missing),
         FlagsStay(x), Walk(builds[x]), Solo(builds[x], tables)
  PROVE  Solo(builds'[x], tables')
  <1> DEFINE node == builds[x].node
  <1>1. Stores(x)
    BY DEF Solo, Makes, In
  <1>2. /\ builds'[x].step = "test" /\ builds'[x].todo = builds[x].todo /\ builds'[x].node = node
        /\ tables'[node] = builds[x].rows /\ tables[node] = Missing
        /\ \A m \in Models : m # node => tables'[m] = tables[m]
        /\ builds'[x].failed = builds[x].failed /\ builds'[x].tainted = builds[x].tainted
    BY <1>1 DEF Stores, OnlyTable, FlagsStay
  <1>3. builds[x].rows # Missing
    BY NotMissing DEF MartTypes, Build
  <1>4. \A n : ~Makes(builds'[x], n) /\ ~In(builds'[x], n, {"commit"})
    BY <1>2 DEF Makes, In
  <1>5. \A n \in Staging : n \notin builds'[x].todo => tables'[n] # Missing
    <2>1. ASSUME NEW n \in Staging, n \notin builds[x].todo, n # node PROVE tables'[n] # Missing
      <3>1. ~Makes(builds[x], n) /\ n \in Models
        BY <2>1, Names DEF Makes, In
      <3>2. QED
        BY <1>2, <2>1, <3>1 DEF Solo
    <2>2. QED
      BY <1>2, <1>3, <2>1
  <1>6. Settled(builds[x]) => node # Stg /\ node # Agg /\ Settled(builds'[x])
    BY <1>2, <1>4 DEF Settled, Walk, Makes, In
  <1>7. Settled(builds'[x]) /\ node # Stg => Settled(builds[x])
    BY <1>2 DEF Settled, Makes, In
  <1>8. ASSUME NEW m \in Marts, Made(builds'[x], m)
        PROVE  /\ node # Stg /\ Settled(builds[x]) /\ tables'[Stg] = tables[Stg]
               /\ m # node => Made(builds[x], m) /\ tables'[m] = tables[m]
    <2>1. Settled(builds'[x]) /\ m \notin builds[x].todo
      BY <1>2, <1>8 DEF Made
    <2>2. node # Stg
      BY <2>1 DEF Walk
    <2>3. Settled(builds[x])
      BY <1>7, <2>1, <2>2
    <2>4. m # node => Made(builds[x], m) /\ tables'[m] = tables[m]
      BY <1>2, <2>1, <2>3, Names DEF Made, Makes, In
    <2>5. QED
      BY <1>2, <2>2, <2>3, <2>4, Names
  <1>9. ASSUME NEW m \in Marts, Made(builds'[x], m) PROVE Fresh(tables', m)
    <2>1. CASE m = node
      <3>1. builds[x].rows = Of(m, tables[Stg])
        BY <2>1 DEF Solo, In
      <3>2. tables[Stg] # Missing
        BY <1>8, <1>9, Names DEF Solo, Settled
      <3>3. QED
        BY <1>2, <1>8, <1>9, <2>1, <3>1, <3>2 DEF Fresh
    <2>2. CASE m # node
      BY <1>8, <1>9, <2>2 DEF Solo, Fresh
    <2>3. QED
      BY <2>1, <2>2
  <1>10. builds'[x].failed => Settled(builds'[x]) /\ (Bad \in tables'[Stg] \/ Exceeds(tables'))
    <2>1. Settled(builds[x]) => tables'[Stg] = tables[Stg] /\ tables'[Agg] = tables[Agg]
      BY <1>2, <1>6, Names
    <2>2. QED
      BY <1>2, <1>6, <2>1 DEF Solo, Exceeds
  <1>11. ~builds'[x].failed => \A m \in Marts : Made(builds'[x], m) /\ ~In(builds'[x], m, {"test"}) => Sane(tables', m)
    <2>1. ASSUME ~builds'[x].failed, NEW m \in Marts, Made(builds'[x], m), ~In(builds'[x], m, {"test"})
          PROVE  Sane(tables', m)
      <3>1. m # node
        BY <1>2, <2>1 DEF In
      <3>2. ~In(builds[x], m, {"test"})
        BY DEF In
      <3>3. QED
        BY <1>2, <1>8, <2>1, <3>1, <3>2 DEF Solo, Sane
    <2>2. QED
      BY <2>1
  <1>12. builds'[x].tainted /\ Settled(builds'[x]) => Bad \in tables'[Stg]
    <2>1. CASE node = Stg
      BY <1>2, <2>1 DEF Solo, In
    <2>2. CASE node # Stg
      BY <1>2, <1>7, <2>2, Names DEF Solo
    <2>3. QED
      BY <2>1, <2>2
  <1>13. QED
    BY <1>4, <1>5, <1>9, <1>10, <1>11, <1>12 DEF Solo

\* What the tests of a node read: those of a mart its staging table too.
LEMMA ReadsFacts ==
  /\ \A m \in Marts : Reads(m) = {Stg, m}
  /\ \A n \in Staging : Reads(n) = {n}
  <1>1. ASSUME NEW m \in Marts PROVE Reads(m) = {Stg, m}
    <2>1. m \in Models /\ m \notin Staging
      BY Names
    <2>2. Parents(m) = {Stg}
      BY DEF Parents, Stg, Marts, Staging
    <2>3. QED
      BY <2>1, <2>2 DEF Reads
  <1>2. ASSUME NEW n \in Staging PROVE Reads(n) = {n}
    <2>1. n \in Models /\ Parents(n) = {}
      BY DEF Parents, Models, Marts, Staging
    <2>2. QED
      BY <2>1 DEF Reads
  <1>3. QED
    BY <1>1, <1>2

\* A mart that is as it should be fails its own tests only for the bad row.
LEMMA Innocent ==
  ASSUME MartTypes, NEW m \in Marts, Fresh(tables, m)
  PROVE  /\ Passes(m) <=> NonNegative(m)
         /\ ~NonNegative(m) => Bad \in tables[Stg]
  <1>1. /\ tables[Stg] # Missing /\ tables[Stg] \in SUBSET Spans /\ tables[m] = Of(m, tables[Stg])
        /\ m \in Models /\ m \notin Staging
    BY NotMissing, Names DEF Fresh
  <1>2. tables[m] \in SUBSET Spans /\ tables[m] \subseteq tables[Stg]
    BY <1>1, SpanFacts
  <1>3. tables[m] # Missing /\ IsFiniteSet(tables[m])
    <2>1. tables[m] # Missing
      BY <1>2, NotMissing
    <2>2. QED
      BY <1>1, <2>1 DEF MartTypes
  <1>4. Reads(m) = {Stg, m}
    BY ReadsFacts
  <1>5. Holds(m) <=> NonNegative(m)
    <2>1. \A s \in tables[m] : \E t \in tables["stg_trace_events"] : SessionOf(s) = SessionOf(t)
      BY <1>2 DEF Stg
    <2>2. m # "marts_reconcile_with_staging" /\ m # "streamed_agg_does_not_overcount"
      BY DEF Marts
    <2>3. QED
      BY <1>1, <2>1, <2>2 DEF Holds
  <1>6. Passes(m) <=> NonNegative(m)
    BY <1>1, <1>3, <1>4, <1>5 DEF Passes
  <1>7. ASSUME Bad \notin tables[Stg], NEW g \in Groups(m, tables[m]) PROVE TotalCost(g) >= 0
    <2>1. g \subseteq tables[m]
      BY DEF Groups
    <2>2. IsFiniteSet(g) /\ Bad \notin g
      BY <1>2, <1>3, <1>7, <2>1, FS_Subset
    <2>3. QED
      BY <2>2, CostsAdd
  <1>8. QED
    BY <1>6, <1>7 DEF NonNegative

\* A build that is alone fails a test only for the bad row or the aggregate.
LEMMA SoloTested ==
  ASSUME MartTypes, NEW x \in Builds, builds[x].step = "test", builds[x].node \in Nodes, Tested(x),
         FlagsStay(x), Walk(builds[x]), Solo(builds[x], tables)
  PROVE  Solo(builds'[x], tables)
  <1> DEFINE node == builds[x].node
  <1>1. /\ builds'[x].step = "next" /\ builds'[x].todo = builds[x].todo /\ builds'[x].node = node
        /\ builds'[x].failed = (builds[x].failed \/ ~Passes(node)) /\ builds'[x].tainted = builds[x].tainted
    BY DEF Tested, FlagsStay
  <1>2. \A n : ~Makes(builds'[x], n) /\ ~Makes(builds[x], n) /\ ~In(builds'[x], n, {"commit"}) /\ ~In(builds'[x], n, {"test"})
    BY <1>1 DEF Makes, In
  <1>3. (Settled(builds'[x]) <=> Settled(builds[x])) /\ \A m : Made(builds'[x], m) <=> Made(builds[x], m)
    BY <1>1, <1>2 DEF Settled, Made
  <1>4. node \in Marts \cup Asserts => Settled(builds[x])
    BY <1>2, Names DEF Walk, Settled
  <1>5. node \in Marts => Made(builds[x], node) /\ Fresh(tables, node)
    BY <1>2, <1>4 DEF Made, Walk, Solo
  <1>6. node \in Asserts => /\ \A m \in Marts : Fresh(tables, m)
                            /\ \A n \in Staging : tables[n] # Missing
    BY <1>2, <1>4, Names DEF Made, Walk, Solo
  <1>7. node \in Staging => Passes(node)
    <2>1. ASSUME node \in Staging PROVE Passes(node)
      <3>1. node \notin builds[x].todo
        BY <2>1, Names DEF Walk
      <3>2. tables[node] # Missing
        BY <1>2, <2>1, <3>1 DEF Solo
      <3>3. QED
        <4>1. Reads(node) = {node}
          BY <2>1, ReadsFacts
        <4>2. Holds(node)
          BY <2>1 DEF Holds, Staging
        <4>3. QED
          BY <3>2, <4>1, <4>2 DEF Passes
    <2>2. QED
      BY <2>1
  <1>8. node = Rec => Passes(node)
    <2>1. ASSUME node = Rec PROVE Passes(node)
      <3>1. /\ \A m \in Marts : tables[m] = Of(m, tables[Stg]) /\ tables[Stg] # Missing
        BY <1>6, <2>1, Names DEF Fresh
      <3>2. tables[Stg] \in SUBSET Spans
        BY <1>6, <2>1, NotMissing, Names
      <3>3. \A m \in Marts : tables[m] # Missing
        BY <3>1, <3>2, SpanFacts, NotMissing
      <3>4. Reads(Rec) = Marts \cup {Stg}
        BY Names DEF Reads, Parents, Rec, Stg, Staging, Marts
      <3>5. Holds(Rec)
        BY <3>1 DEF Holds, Reconciled, Rec, Stg, Staging
      <3>6. QED
        BY <2>1, <3>1, <3>3, <3>4, <3>5, Names DEF Passes
    <2>2. QED
      BY <2>1
  <1>9. node \in Asserts /\ node # Rec => (Passes(node) \/ Exceeds(tables))
    <2>1. ASSUME node \in Asserts, node # Rec PROVE Passes(node) \/ Exceeds(tables)
      <3>1. node = "streamed_agg_does_not_overcount"
        BY <2>1 DEF Asserts, Rec
      <3>2. Reads(node) = Staging
        BY <3>1 DEF Reads, Parents, Models, Marts, Staging
      <3>3. Holds(node) <=> ~Exceeds(tables)
        BY <3>1 DEF Holds, Overcounts, Exceeds, Agg, Stg, Staging
      <3>4. QED
        BY <1>6, <2>1, <3>2, <3>3 DEF Passes
    <2>2. QED
      BY <2>1
  <1>10. ~Passes(node) => Settled(builds[x]) /\ (Bad \in tables[Stg] \/ Exceeds(tables))
    BY <1>4, <1>5, <1>7, <1>8, <1>9, Innocent, Names
  <1>11. ~builds'[x].failed => \A m \in Marts : Made(builds'[x], m) => Sane(tables, m)
    <2>1. ASSUME ~builds'[x].failed, NEW m \in Marts, Made(builds[x], m) PROVE Sane(tables, m)
      <3>1. CASE m = node
        BY <1>1, <1>5, <2>1, <3>1, Innocent DEF NonNegative, Sane
      <3>2. CASE m # node
        BY <1>1, <2>1, <3>2 DEF Solo, In
      <3>3. QED
        BY <3>1, <3>2
    <2>2. QED
      BY <1>3, <2>1
  <1>12. QED
    BY <1>1, <1>2, <1>3, <1>10, <1>11 DEF Solo

\* What holds of a build alone depends on where it is, what it failed and the tables.
LEMMA SoloSame ==
  ASSUME NEW p, NEW r, NEW all, Solo(p, all), r.todo = p.todo, r.node = p.node, r.rows = p.rows,
         r.step = p.step, r.failed = p.failed, r.tainted => p.tainted
  PROVE  Solo(r, all)
  <1>1. \A n, steps : In(r, n, steps) <=> In(p, n, steps)
    BY DEF In
  <1>2. \A n : Makes(r, n) <=> Makes(p, n)
    BY <1>1 DEF Makes
  <1>3. (Settled(r) <=> Settled(p)) /\ \A m : Made(r, m) <=> Made(p, m)
    BY <1>2 DEF Settled, Made
  <1>4. QED
    BY <1>1, <1>2, <1>3 DEF Solo

\* A build that starts has failed nothing yet.
LEMMA SoloStarts ==
  ASSUME NEW p, NEW all, p.todo = Nodes, p.node = "none", p.step = "next", p.failed = FALSE
  PROVE  Solo(p, all)
  <1>1. \A n \in Nodes : \A steps : ~In(p, n, steps)
    BY Names DEF In
  <1>2. ~Settled(p) /\ \A m : ~Made(p, m)
    BY Names DEF Settled, Made
  <1>3. (\A n \in Models : n \in Nodes) /\ (\A n \in Staging : n \in Nodes) /\ (\A n \in Marts : n \in Nodes)
    BY Names
  <1>4. Stg \in Nodes
    BY Names
  <1>5. QED
    BY <1>1, <1>2, <1>3, <1>4 DEF Solo, Makes

\* Only a build's own steps matter when it is alone.
LEMMA AloneByStep ==
  ASSUME MartTypes, Company, Alone, NEW x \in Builds, OthersStay(x), FlagsStay(x), builds[x].step # "idle",
         builds[x].alone => Solo(builds'[x], tables')
  PROVE  Alone'
  <1>1. ASSUME NEW b \in Builds, b # x, Running(b)', builds'[b].alone PROVE FALSE
    BY <1>1 DEF OthersStay, Company, Other, Running
  <1>2. QED
    BY <1>1 DEF Alone, FlagsStay

\* Every step keeps what holds of a build that is alone.
LEMMA StepAlone ==
  ASSUME MartTypes, Walking, Company, Tainted, Alone, [WarehouseNext]_warehouseVars
  PROVE  Alone'
  <1>1. CASE Grows
    BY <1>1 DEF Grows, Alone, Running
  <1>2. CASE Revert
    <2>1. ASSUME NEW b \in Builds, Running(b)', builds'[b].alone PROVE Solo(builds'[b], tables')
      <3>1. /\ builds'[b].todo = builds[b].todo /\ builds'[b].node = builds[b].node
            /\ builds'[b].rows = builds[b].rows /\ builds'[b].step = builds[b].step
            /\ builds'[b].failed = builds[b].failed /\ builds'[b].tainted = FALSE
            /\ builds'[b].alone = builds[b].alone /\ tables' = tables
        BY <1>2, RevertEffect
      <3>2. Solo(builds[b], tables)
        BY <2>1, <3>1 DEF Alone, Running
      <3>3. QED
        BY <3>1, <3>2, SoloSame
    <2>2. QED
      BY <2>1 DEF Alone
  <1>3. ASSUME NEW x \in Builds, Start(x) PROVE Alone'
    <2>1. Solo(builds'[x], tables')
      BY <1>3, StartEffect, SoloStarts
    <2>2. ASSUME NEW b \in Builds, b # x, Running(b)' PROVE ~builds'[b].alone
      <3>1. Running(b)
        <4>1. ~Running(b) => builds'[b] = Idle
          BY <1>3, <2>2, StartEffect
        <4>2. QED
          BY <2>2, <4>1, IdleBuild DEF Running
      <3>2. QED
        BY <1>3, <2>2, <3>1, StartEffect
    <2>3. QED
      BY <2>1, <2>2 DEF Alone
  <1>4. ASSUME NEW x \in Builds, builds[x].step # "idle", builds[x].alone
        PROVE  Walk(builds[x]) /\ Solo(builds[x], tables) /\ (builds[x].tainted => Bad \in raw)
    BY <1>4 DEF Walking, Alone, Tainted, Running
  <1>5. ASSUME NEW x \in Builds, NextNode(x) PROVE Alone'
    <2>1. PICK node \in Nodes : Moves(x, node)
      BY <1>5, MovesEffect
    <2>2. builds[x].step # "idle" /\ OthersStay(x) /\ FlagsStay(x)
      BY <1>5, <2>1, MovesEffect DEF Moves
    <2>3. builds[x].alone => Solo(builds'[x], tables')
      BY <1>4, <2>1, <2>2, SoloMoves
    <2>4. QED
      BY <2>2, <2>3, AloneByStep
  <1>6. ASSUME NEW x \in Builds, Create(x) PROVE Alone'
    <2>1. /\ builds[x].step = "create" /\ builds[x].node \in Models
          /\ Computes(x) \/ (Fails(x) /\ (tables[builds[x].node] # Missing \/ Source(builds[x].node) = Missing))
          /\ OthersStay(x) /\ FlagsStay(x) /\ tables' = tables
      BY <1>6, CreateEffect
    <2>2. builds[x].alone => Solo(builds'[x], tables')
      BY <1>4, <2>1, SoloComputes
    <2>3. QED
      BY <2>1, <2>2, AloneByStep
  <1>7. ASSUME NEW x \in Builds, Commit(x) PROVE Alone'
    <2>1. /\ builds[x].step = "commit" /\ builds[x].node \in Models
          /\ Stores(x) \/ (Fails(x) /\ tables[builds[x].node] # Missing)
          /\ OthersStay(x) /\ FlagsStay(x)
      BY <1>7, CommitEffect
    <2>2. builds[x].alone => Solo(builds'[x], tables')
      BY <1>4, <2>1, SoloStores
    <2>3. QED
      BY <2>1, <2>2, AloneByStep
  <1>8. ASSUME NEW x \in Builds, Test(x) PROVE Alone'
    <2>1. /\ builds[x].step = "test" /\ builds[x].node \in Nodes /\ Tested(x)
          /\ OthersStay(x) /\ FlagsStay(x) /\ tables' = tables
      BY <1>8, TestEffect
    <2>2. builds[x].alone => Solo(builds'[x], tables')
      BY <1>4, <2>1, SoloTested
    <2>3. QED
      BY <2>1, <2>2, AloneByStep
  <1>9. ASSUME NEW x \in Builds, NEW outcome \in {"ok", "failed", "killed"}, Ended(x, outcome)
        PROVE  Alone'
    <2>1. ASSUME NEW b \in Builds, Running(b)', builds'[b].alone PROVE Solo(builds'[b], tables')
      <3>1. b # x /\ Running(b)
        <4>1. b = x \/ ~Running(b) => builds'[b] = Idle
          BY <1>9, EndedEffect
        <4>2. QED
          BY <2>1, <4>1, IdleBuild DEF Running
      <3>2. Carries(b) /\ builds'[b].alone = builds[b].alone /\ tables' = tables
        BY <1>9, <3>1, EndedEffect
      <3>3. Solo(builds[b], tables)
        BY <2>1, <3>1, <3>2 DEF Alone
      <3>4. QED
        BY <3>2, <3>3, SoloSame DEF Carries
    <2>2. QED
      BY <2>1 DEF Alone
  <1>10. ASSUME NEW x \in Builds, End(x) \/ KillBuild(x) PROVE Alone'
    BY <1>9, <1>10 DEF End, KillBuild
  <1>11. Traffics \/ UNCHANGED warehouseVars => Grows
    BY TrafficEffect DEF Grows, warehouseVars
  <1>12. QED
    BY <1>1, <1>2, <1>3, <1>5, <1>6, <1>7, <1>8, <1>10, <1>11 DEF WarehouseNext, Traffics

\* Every step keeps what a build that was alone left behind.
LEMMA StepAfterwards ==
  ASSUME MartTypes, Alone, Afterwards, [WarehouseNext]_warehouseVars
  PROVE  Afterwards'
  <1> SUFFICES ASSUME Quiet', last'.alone, last'.outcome \in {"ok", "failed"}
               PROVE  /\ \A n \in Staging : tables'[n] # Missing
                      /\ \A m \in Marts : Fresh(tables', m)
                      /\ last'.outcome = "ok" => \A m \in Marts : Sane(tables', m)
                      /\ last'.outcome = "failed" => Bad \in tables'[Stg] \/ Exceeds(tables')
                      /\ last'.tainted => Bad \in tables'[Stg]
    BY DEF Afterwards
  <1>1. CASE StaysQuiet
    BY <1>1 DEF StaysQuiet, Afterwards
  <1>2. CASE \E x \in Builds, outcome \in {"ok", "failed", "killed"} : EndsLast(x, outcome)
    <2>1. PICK x \in Builds, outcome \in {"ok", "failed", "killed"} : EndsLast(x, outcome)
      BY <1>2
    <2>2. /\ last'.outcome = outcome /\ last'.tainted = builds[x].tainted /\ last'.alone = builds[x].alone
          /\ tables' = tables
      <3>1. /\ tables' = tables
            /\ last' = [outcome |-> outcome, tainted |-> builds[x].tainted, alone |-> builds[x].alone,
                        crowded |-> builds[x].crowded, torn |-> builds[x].torn]
        BY <2>1, EndedEffect DEF EndsLast
      <3>2. QED
        BY <3>1
    <2>3. Solo(builds[x], tables) /\ builds[x].step = "next" /\ builds[x].todo = {}
      BY <2>1, <2>2 DEF EndsLast, Alone, Running
    <2>4. Settled(builds[x]) /\ \A m : Made(builds[x], m) /\ ~Makes(builds[x], m) /\ ~In(builds[x], m, {"test"})
      BY <2>3 DEF Settled, Made, Makes, In
    <2>5. QED
      BY <2>1, <2>2, <2>3, <2>4 DEF Solo, EndsLast
  <1>3. QED
    BY <1>1, <1>2, QuietSteps

-----------------------------------------------------------------------------
(***************************************************************************)
(* What is read off the marts.                                             *)
(***************************************************************************)
LEMMA GroupFacts ==
  ASSUME MartTypes, NEW m \in Marts, Fresh(tables, m), NEW g \in Groups(m, tables[m])
  PROVE  /\ TurnCount(g) \in Nat /\ Calls(g) \in Nat
         /\ TurnCount(g) >= 1 /\ Calls(g) >= TurnCount(g)
  <1>1. tables[Stg] \in SUBSET Spans /\ tables[m] = Of(m, tables[Stg]) /\ m \in Models
    BY NotMissing, Names DEF Fresh
  <1>2. tables[m] \in SUBSET Spans
    BY <1>1, SpanFacts
  <1>3. IsFiniteSet(tables[m])
    BY <1>1, <1>2, NotMissing DEF MartTypes
  <1>4. PICK t \in tables[m] : g = {s \in tables[m] : GroupOf(m, s) = GroupOf(m, t)}
    BY DEF Groups
  <1>5. IsFiniteSet(g) /\ t \in g
    BY <1>3, <1>4, FS_Subset
  <1> DEFINE T == {s.turn : s \in g}
             f == [s \in g |-> s.turn]
  <1>6. f \in Surjection(g, T)
    BY DEF Surjection
  <1>7. IsFiniteSet(T) /\ Cardinality(T) <= Cardinality(g)
    BY <1>5, <1>6, FS_Surjection
  <1>8. T # {}
    BY <1>5
  <1>9. Cardinality(T) \in Nat /\ Cardinality(g) \in Nat /\ Cardinality(T) # 0
    BY <1>5, <1>7, <1>8, FS_CardinalityType, FS_EmptySet
  <1>10. QED
    BY <1>7, <1>9 DEF TurnCount, Calls

\* The quality gate fails a session mart with the bad row.
LEMMA GatesFail ==
  ASSUME MartTypes, Bad \in tables[Stg], Fresh(tables, Sess)
  PROVE  ~Quality
  <1>1. Bad \in tables[Sess]
    BY BadSession DEF Fresh
  <1>2. PICK g \in Groups(Sess, tables[Sess]) : ~(TotalCost(g) >= 0)
    BY <1>1, BadGroup DEF BadShows
  <1>3. ~Expected(Sess, g)
    BY <1>2 DEF Expected, Sess
  <1>4. QED
    BY <1>2, <1>3, Names DEF Quality

\* The quality gate passes marts that are fresh and sane.
LEMMA GatesPass ==
  ASSUME MartTypes, \A m \in Marts : Fresh(tables, m) /\ Sane(tables, m),
         \A k \in {"LLM_CALL", "TOOL_CALL"} : \E s \in tables[Stg] : s.kind = k
  PROVE  Quality
  <1>1. ASSUME NEW m \in Marts PROVE tables[m] \notin {Missing, {}}
    <2>1. tables[Stg] \in SUBSET Spans /\ tables[m] = Of(m, tables[Stg])
      BY <1>1, NotMissing, Names DEF Fresh
    <2>2. tables[m] \in SUBSET Spans
      BY <2>1, SpanFacts
    <2>3. \E s \in tables[Stg] : s.kind \in Takes(m)
      BY DEF Takes, Marts, AllKinds
    <2>4. QED
      BY <2>1, <2>2, <2>3, NotMissing DEF Of
  <1>2. ASSUME NEW m \in Marts, NEW g \in Groups(m, tables[m]) PROVE Expected(m, g)
    <2>1. /\ TurnCount(g) \in Nat /\ Calls(g) \in Nat
          /\ TurnCount(g) >= 1 /\ Calls(g) >= TurnCount(g)
      BY <1>2, GroupFacts
    <2>2. TotalCost(g) >= 0
      BY <1>2 DEF Sane
    <2>3. QED
      BY <2>1, <2>2 DEF Expected, Marts
  <1>3. QED
    BY <1>1, <1>2 DEF Quality

\* The operator's comparisons agree when staging and the raw table do.
LEMMA CountsAgree ==
  ASSUME MartTypes, Fresh(tables, Sess), raw # {}, tables[Stg] = raw
  PROVE  CountsMatch /\ \A session \in {"session", "bad"} : SessionAgrees(session)
  <1>1. tables["fct_sessions"] = raw
    BY SpanFacts DEF MartTypes, Fresh, Sess
  <1>2. QED
    BY <1>1 DEF CountsMatch, SessionAgrees

-----------------------------------------------------------------------------
\* The inductive invariant of the warehouse.
WarehouseInv ==
  MartTypes /\ Walking /\ Company /\ Paired /\ Tainted /\ TaintedLast /\ Alone /\ Afterwards /\ Coherent

\* The invariant holds of the empty warehouse ...
LEMMA WarehouseInitInv == WarehouseInit => WarehouseInv
  <1> SUFFICES ASSUME WarehouseInit PROVE WarehouseInv
    OBVIOUS
  <1>1. /\ \A b \in Builds : builds[b] = Idle
        /\ last.outcome = "none" /\ last.tainted = FALSE
    BY DEF WarehouseInit
  <1>2. \A b \in Builds : ~Running(b) /\ ~Calm(builds[b])
    BY <1>1, IdleBuild DEF Running, Calm
  <1>3. Walking
    BY <1>1, StartWalks DEF Walking, StartedWalks
  <1>4. Company /\ Paired /\ Tainted /\ Alone
    BY <1>2 DEF Company, Paired, Tainted, Alone
  <1>5. TaintedLast /\ Afterwards /\ Coherent
    BY <1>1 DEF TaintedLast, Afterwards, Coherent
  <1>6. QED
    BY <1>3, <1>4, <1>5, InitMarts DEF WarehouseInv

\* ... every step keeps it ...
LEMMA WarehouseStepInv == WarehouseInv /\ [WarehouseNext]_warehouseVars => WarehouseInv'
  <1> SUFFICES ASSUME WarehouseInv, [WarehouseNext]_warehouseVars PROVE WarehouseInv'
    OBVIOUS
  <1>1. MartTypes /\ Walking /\ Company /\ Paired /\ Tainted /\ TaintedLast /\ Alone /\ Afterwards /\ Coherent
    BY DEF WarehouseInv
  <1>2. MartTypes'
    BY <1>1, StepMarts
  <1>3. Walking' /\ Company'
    BY <1>1, StepWalks, StepCompany
  <1>4. Paired'
    BY <1>1, <1>2, StepPaired
  <1>5. Tainted' /\ TaintedLast'
    BY <1>1, StepTainted, StepTaintedLast
  <1>6. Alone' /\ Afterwards'
    BY <1>1, StepAlone, StepAfterwards
  <1>7. Coherent'
    BY <1>1, StepCoherent
  <1>8. QED
    BY <1>2, <1>3, <1>4, <1>5, <1>6, <1>7 DEF WarehouseInv

\* ... so it always holds.
LEMMA WarehouseAlways == WarehouseSpec => []WarehouseInv
  BY WarehouseInitInv, WarehouseStepInv, PTL DEF WarehouseSpec

\* The types of the warehouse: a mart holds only rows of the kinds it takes, the streamed
\* aggregate only spans of the traffic.
THEOREM WarehouseTyped == WarehouseSpec => []WarehouseTypeOK
  <1>1. WarehouseInv => WarehouseTypeOK
    <2> SUFFICES ASSUME MartTypes PROVE WarehouseTypeOK
      BY DEF WarehouseInv
    <2>1. \A m \in Models : tables[m] # Missing => \A s \in tables[m] : s.kind \in Takes(m)
      BY DEF MartTypes, Of
    <2>2. \A b \in Builds : builds[b].todo \subseteq Nodes
      BY DEF MartTypes, Build
    <2>3. QED
      BY <2>1, <2>2 DEF MartTypes, WarehouseTypeOK
  <1>2. QED
    BY <1>1, WarehouseAlways, PTL

\* "Every mart must account for exactly the staging rows it claims to summarise": for any
\* number of builds, however they interleave with each other and with what lands, a build
\* that ends well last, that nobody was killed beside or reverted under and that never had
\* two others beside it, leaves four marts of the one staging table there is.
THEOREM MartsCoherent == WarehouseSpec => []Coherent
  <1>1. WarehouseInv => Coherent
    BY DEF WarehouseInv
  <1>2. QED
    BY <1>1, WarehouseAlways, PTL

\* "One impossible row is caught independently by both gates": a build that started with the
\* bad row there does not end well, whatever another build does to its tables meanwhile, and
\* after one that was alone the quality gate fails too.
THEOREM BadRowCaught == WarehouseSpec => []BadCaught
  <1>1. WarehouseInv => BadCaught
    <2> SUFFICES ASSUME WarehouseInv, Quiet, last.tainted, ~last.crowded
                 PROVE  last.outcome # "ok" /\ (last.outcome = "failed" /\ last.alone => ~Quality)
      BY DEF BadCaught
    <2>1. last.outcome # "ok"
      BY DEF WarehouseInv, TaintedLast
    <2>2. last.outcome = "failed" /\ last.alone => Bad \in tables[Stg] /\ Fresh(tables, Sess)
      BY Names DEF WarehouseInv, Afterwards
    <2>3. QED
      BY <2>1, <2>2, GatesFail DEF WarehouseInv
  <1>2. QED
    BY <1>1, WarehouseAlways, PTL

\* The gates do not cry wolf: a build that was alone fails only for the bad row or because
\* the streaming job was ahead, and what the quality gate and the operator's comparisons say
\* after one that ended well follows from the rows there are.
THEOREM NoFalseAlarms == WarehouseSpec => []NoFalseAlarm
  <1>1. WarehouseInv => NoFalseAlarm
    <2> SUFFICES ASSUME WarehouseInv, Quiet, last.alone
                 PROVE  /\ last.outcome = "failed" => Bad \in tables[Stg] \/ Overcounts
                        /\ last.outcome = "ok" =>
                             /\ (\A k \in {"LLM_CALL", "TOOL_CALL"} : \E s \in tables[Stg] : s.kind = k) => Quality
                             /\ raw # {} /\ tables[Stg] = raw =>
                                  CountsMatch /\ \A session \in {"session", "bad"} : SessionAgrees(session)
      BY DEF NoFalseAlarm, Stg
    <2>1. Exceeds(tables) <=> Overcounts
      BY DEF Exceeds, Overcounts, Agg, Stg
    <2>2. last.outcome = "failed" => Bad \in tables[Stg] \/ Overcounts
      BY <2>1 DEF WarehouseInv, Afterwards
    <2>3. ASSUME last.outcome = "ok" PROVE \A m \in Marts : Fresh(tables, m) /\ Sane(tables, m)
      BY <2>3 DEF WarehouseInv, Afterwards
    <2>4. QED
      BY <2>2, <2>3, GatesPass, CountsAgree, Names DEF WarehouseInv
  <1>2. QED
    BY <1>1, WarehouseAlways, PTL
=============================================================================
