------------------------------- MODULE EvalGate -------------------------------
(***************************************************************************)
(* What the evaluation concludes from its runs: baselines, made by two     *)
(* runs in one process or from stored rows; the two implementations of the *)
(* regression gate, `eval run --gate` on the summary in memory (`compare`) *)
(* and `eval gate` on the rows (`check`).                                  *)
(*                                                                         *)
(* The gates change no state, so they are operators, and the invariants    *)
(* claim something of whatever might be gated at any moment.               *)
(* How runs are paid for is EvalRun's subject.  A stored result keeps only *)
(* its grade; nothing rewrites a result (every `eval run` creates its own  *)
(* run), so a baseline's metrics are those of the rows of its runs.        *)
(* --allow-config-drift, which waives the claims, is left out.             *)
(***************************************************************************)
EXTENDS Integers, Sequences, FiniteSets, Functions

CONSTANTS
  Prompts,      \* prompt versions a run can be asked for
  Examples,     \* examples of the subset
  Grades,       \* grades that occur, of those below
  Floors,       \* FLOORS of eval/baseline.py, in hundredths
  Declared,     \* DECLARED_THRESHOLDS of eval/gate.py, in hundredths
  MaxRuns,      \* bound: runs
  MaxActive,    \* bound: runs under way at once
  MaxUpsets,    \* bound: runs killed or stopped at the cap
  MaxEdits      \* bound: edits of sources.yaml and models.yaml

VARIABLES
  repo,      \* the working tree: corpus version and judge model
  runs,      \* eval_runs and eval_results
  making,    \* the `eval baseline` process
  baseline   \* eval/baseline.json

vars == <<repo, runs, making, baseline>>

-----------------------------------------------------------------------------
\* Variants named Mutant... are faulty versions of the definition after them.
RunIds == 1 .. Len(runs)
Metrics == {"faithfulness_mean", "hit_at_5_rate", "citation_ok_rate"}
AllGrades == {"good", "weak", "miss", "uncited", "unparsed", "error"}

ASSUME GateAssumption ==
  /\ Examples \in Nat \ {0} /\ Grades \subseteq AllGrades
  /\ Floors \in [Metrics -> Nat] /\ Declared \in [Metrics -> Nat]
  /\ \A m \in Metrics : m # "citation_ok_rate" => Floors[m] <= Declared[m]
  /\ {MaxRuns, MaxActive, MaxUpsets, MaxEdits} \subseteq Nat

NoBaseline == [ids |-> <<>>, config |-> <<>>, edited |-> FALSE]
Resting == [ids |-> <<>>, edited |-> FALSE]

Init ==
  /\ repo = [corpus |-> 1, judge |-> 1]
  /\ runs = <<>>
  /\ making = Resting
  /\ baseline = NoBaseline

\* Rows of a run with one of some grades; which example a row is of makes no difference.
Count(r, kinds) ==
  Cardinality({x \in (kinds \cap Grades) \X (1 .. Examples) : x[2] <= runs[r].rows[x[1]]})
Rows(r) == Count(r, Grades)

\* The configuration PINNED names; n is what the rows say.
Pinned(corpus, judge, prompt, n) == <<corpus, judge, prompt, n>>
ConfigOf(r) == Pinned(runs[r].corpus, runs[r].judge, runs[r].prompt, Rows(r))

-----------------------------------------------------------------------------
\* sources.yaml bumps the corpus version, models.yaml points the judge alias elsewhere.
Edit(what) ==
  /\ repo.corpus + repo.judge < 2 + MaxEdits
  /\ repo' = [repo EXCEPT ![what] = @ + 1]
  /\ making' = [making EXCEPT !.edited = making.ids # <<>>]
  /\ UNCHANGED <<runs, baseline>>

-----------------------------------------------------------------------------
(***************************************************************************)
(* Runs.                                                                   *)
(***************************************************************************)
\* create_run, with what the files say at that moment.
NewRun(prompt) ==
  [corpus |-> repo.corpus, judge |-> repo.judge, prompt |-> prompt, rows |-> [g \in Grades |-> 0], state |-> "running"]

MayStart ==
  /\ Len(runs) < MaxRuns
  /\ Cardinality({r \in RunIds : runs[r].state = "running"}) < MaxActive

StartRun ==
  /\ MayStart
  /\ \E prompt \in Prompts : runs' = Append(runs, NewRun(prompt))
  /\ UNCHANGED <<repo, making, baseline>>

\* One example is graded and committed.
Grade(r) ==
  /\ runs[r].state = "running" /\ Rows(r) < Examples
  /\ \E g \in Grades : runs' = [runs EXCEPT ![r].rows[g] = @ + 1]
  /\ UNCHANGED <<repo, making, baseline>>

\* The end of run_eval: after the last example, or at the cap after any; either way
\* finish_run stamps the row.
Upset == Cardinality({r \in RunIds : runs[r].state \in {"aborted", "dead"}}) < MaxUpsets
Finish(r, how) ==
  /\ runs[r].state = "running" /\ Rows(r) > 0
  /\ IF how = "finished" THEN Rows(r) = Examples ELSE Upset
  /\ runs' = [runs EXCEPT ![r].state = how]
  /\ UNCHANGED <<repo, making, baseline>>

Kill(r) ==
  /\ runs[r].state = "running" /\ Upset
  /\ runs' = [runs EXCEPT ![r].state = "dead"]
  /\ UNCHANGED <<repo, making, baseline>>

Stamped(r) == runs[r].state \in {"finished", "aborted"}

-----------------------------------------------------------------------------
(***************************************************************************)
(* Baselines.                                                              *)
(***************************************************************************)
Failures(r) == Count(r, {"error"})
ParseFailures(r) == Count(r, {"unparsed"})

\* cmd_baseline: the first of two runs.
StartBaseline ==
  /\ making.ids = <<>> /\ MayStart
  /\ \E prompt \in Prompts : runs' = Append(runs, NewRun(prompt))
  /\ making' = [ids |-> <<Len(runs) + 1>>, edited |-> FALSE]
  /\ UNCHANGED <<repo, baseline>>

\* Then the second, or the file: its configuration is read now, n is the first run's.
ContinueBaseline ==
  LET r == making.ids[Len(making.ids)]
      p == runs[r].prompt
  IN  /\ making.ids # <<>> /\ runs[r].state # "running"
      /\ IF runs[r].state # "finished" \/ Failures(r) > 0
         THEN making' = Resting /\ UNCHANGED <<runs, baseline>>
         ELSE IF Len(making.ids) = 1
         THEN /\ MayStart
              /\ runs' = Append(runs, NewRun(p))
              /\ making' = [making EXCEPT !.ids = Append(@, Len(runs) + 1)]
              /\ UNCHANGED baseline
         ELSE /\ baseline' = [ids |-> making.ids, edited |-> making.edited,
                              config |-> Pinned(repo.corpus, repo.judge, p, Rows(making.ids[1]))]
              /\ making' = Resting
              /\ UNCHANGED runs
      /\ UNCHANGED <<repo>>

\* --from-runs: one or two ids, the same one twice included; a run the cap stopped is
\* stamped like any other.  The order of the ids makes no difference: the smaller first.
MutantAnyStamped(r) == Stamped(r) /\ Rows(r) > 0
Baselineable(r) == Stamped(r) /\ Rows(r) > 0 /\ Failures(r) = 0
MutantDiffers(ids) == TRUE
Agree(ids) == \A i, j \in ids : ConfigOf(i) = ConfigOf(j)
FromRuns ==
  /\ \E a, b \in RunIds :
       /\ a <= b /\ Baselineable(a) /\ Baselineable(b) /\ Agree({a, b})
       /\ \E ids \in {<<a>>, <<a, b>>} :
            baseline' = [ids |-> ids, config |-> ConfigOf(a), edited |-> FALSE]
  /\ UNCHANGED <<repo, runs, making>>

-----------------------------------------------------------------------------
(***************************************************************************)
(* Metrics and the two gates.  Means are exact multiples of 1/12 for up to *)
(* four examples; None stands for a metric nothing can be said about.      *)
(***************************************************************************)
None == -1
Low(m) == CASE m = "faithfulness_mean" -> {"weak"} [] m = "hit_at_5_rate" -> {"miss"} [] OTHER -> {"uncited"}
High(m) == AllGrades \ (Low(m) \cup {"error"} \cup IF m = "faithfulness_mean" THEN {"unparsed"} ELSE {})
Points(m) == IF m = "faithfulness_mean" THEN [high |-> 500, low |-> 400] ELSE [high |-> 100, low |-> 0]

\* metrics_from_rows, and RunSummary.metrics: over the examples that did not error.
Mean(m, r) ==
  LET high == Count(r, High(m))
      low  == Count(r, Low(m))
  IN  IF high + low = 0 THEN None
      ELSE (12 * (high * Points(m).high + low * Points(m).low)) \div (high + low)

\* Baseline.from_runs: twice the average, and the distance, of two observations; the
\* other one where a run has none.
Base(m) ==
  LET a == Mean(m, Head(baseline.ids))
      b == Mean(m, baseline.ids[Len(baseline.ids)])
  IN  IF a = None THEN (IF b = None THEN None ELSE 2 * b) ELSE IF b = None THEN 2 * a ELSE a + b
Distance(m) ==
  LET a == Mean(m, Head(baseline.ids))
      b == Mean(m, baseline.ids[Len(baseline.ids)])
  IN  IF None \in {a, b} THEN 0 ELSE IF a > b THEN a - b ELSE b - a

\* thresholds: max(2 sigma, floor) with 2 sigma = sqrt(2) * distance for two runs, the
\* declared ones for a single run and for what only `eval gate` looks at.
Single == Len(baseline.ids) = 1
Gated == {"faithfulness_mean", "hit_at_5_rate"}
Limit(m) == IF Single \/ m \notin Gated THEN Declared[m] ELSE Floors[m]
Noise(m) == IF Single \/ m \notin Gated THEN 0 ELSE Distance(m)

\* A drop by more than the threshold, without the square root.
Dropped(now, m, limit, noise) ==
  LET drop == Base(m) - 2 * now  \* twice the drop
  IN  drop > 24 * limit /\ drop * drop > 8 * noise * noise

Regressed(r, m, limit, noise) == None \in {Base(m), Mean(m, r)} \/ Dropped(Mean(m, r), m, limit, noise)

HarnessFailure(r) == Failures(r) > 0 \/ ParseFailures(r) > 2

\* `eval gate --run`: 2 for nothing to compare, 3 before 1.
MutantDeclared(m) == Declared[m]
CheckLimit(m) == Limit(m)
Check(r) ==
  IF baseline = NoBaseline \/ Rows(r) = 0 THEN 2
  ELSE IF HarnessFailure(r) THEN 3
  ELSE IF baseline.config # ConfigOf(r) THEN 1
  ELSE IF \E m \in Metrics : Regressed(r, m, CheckLimit(m), Noise(m)) THEN 1 ELSE 0

\* `eval run --gate`, when run_eval has returned: the judge is taken from the baseline
\* and the corpus version from sources.yaml as it is by then.
Compare(r) ==
  LET judge == IF baseline = NoBaseline THEN 0 ELSE baseline.config[2]
  IN  IF baseline = NoBaseline THEN 2
      ELSE IF HarnessFailure(r) THEN 3
      ELSE IF baseline.config # Pinned(repo.corpus, judge, runs[r].prompt, Rows(r)) THEN 1
      ELSE IF \E m \in Gated : Regressed(r, m, Limit(m), Noise(m)) THEN 1 ELSE 0

-----------------------------------------------------------------------------
Next ==
  \/ \E what \in {"corpus", "judge"} : Edit(what)
  \/ StartRun \/ StartBaseline \/ ContinueBaseline \/ FromRuns
  \/ \E r \in RunIds : \/ Grade(r) \/ Kill(r)
                       \/ \E how \in {"finished", "aborted"} : Finish(r, how)

Spec == Init /\ [][Next]_vars
-----------------------------------------------------------------------------
TypeOK ==
  /\ repo \in [{"corpus", "judge"} -> 1 .. MaxEdits + 1]
  /\ runs \in Seq([corpus : Nat, judge : Nat, prompt : Prompts, rows : [Grades -> 0 .. Examples],
                   state : {"running", "finished", "aborted", "dead"}])
  /\ \A r \in RunIds : Rows(r) <= Examples
  /\ making.ids \in Seq(RunIds) /\ making.edited \in BOOLEAN
  /\ baseline.ids \in Seq(RunIds) /\ baseline.edited \in BOOLEAN

\* "Comparing across configurations is the most common way eval numbers lie": `eval gate`
\* never passes a run that was made under another corpus, judge, prompt or number of
\* examples than some run the baseline rests on, whatever was edited and gated in
\* between; unless files were edited while `eval baseline` was at work.
Setting(r) == <<runs[r].corpus, runs[r].judge, runs[r].prompt, Rows(r)>>
PassIsComparable ==
  ~baseline.edited => \A r \in RunIds : \A b \in Range(baseline.ids) :
    Setting(r) # Setting(b) => Check(r) # 0

\* A pass rests on something measured on both sides: neither gate passes a run when an
\* example of it, or of a run of the baseline, errored or when either side has no
\* faithfulness score at all.
Unmeasured(r) == Failures(r) > 0 \/ Mean("faithfulness_mean", r) = None
PassIsMeasured ==
  baseline # NoBaseline => \A r \in RunIds :
    Unmeasured(r) \/ Base("faithfulness_mean") = None \/ (\E b \in Range(baseline.ids) : Failures(b) > 0)
      => 0 \notin {Check(r), Compare(r)}

\* The two gates do not contradict each other: as long as sources.yaml is what it was,
\* what `eval gate` passes `eval run --gate` passes too.
GatesAgree ==
  \A r \in RunIds : Stamped(r) /\ Check(r) = 0 /\ repo.corpus = runs[r].corpus => Compare(r) = 0
=============================================================================
