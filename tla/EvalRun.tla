------------------------------- MODULE EvalRun -------------------------------
(***************************************************************************)
(* Paid runs of the evaluation harness: execute, run_eval and              *)
(* score_example under the BudgetGuard, beside the gateway whose           *)
(* /v1/stats total is their only measure of cost and the file .spend.json  *)
(* that outlives both.                                                     *)
(*                                                                         *)
(* An example is an agent turn, retried on 429 and 5xx, and its grading by *)
(* the judge; each is a bounded number of gateway calls.  Questions,       *)
(* answers and scores are left out: what is left is who pays, when it is   *)
(* counted and when it is checked.  The ledger is the sum of its entries,  *)
(* and money is whole: units of the sixth decimal, to which they are kept. *)
(***************************************************************************)
EXTENDS Integers

CONSTANTS
  Harnesses,    \* processes of `python -m eval` that may run at the same time
  Examples,     \* examples of a run
  MaxSteps,     \* max_steps: model calls of a turn, before the forced answer
  MaxRetries,   \* MAX_RETRIES: attempts at a turn
  JudgeCalls,   \* the most calls one judgement makes
  MaxCost,      \* the most one call costs
  Cap,          \* cap_usd
  Estimate,     \* estimate_per_example * len(examples)
  MaxRuns,      \* bound: runs started
  MaxFailures,  \* bound: runs that die of an exception
  MaxTimeouts,  \* bound: calls the client gives up waiting for
  MaxFaults,    \* bound: kills, restarts of the gateway, polls without an answer
  MaxOther      \* bound: spending of the gateway's other clients

ASSUME EvalAssumption ==
  /\ Examples \in Nat \ {0} /\ MaxSteps \in Nat \ {0} /\ MaxRetries \in Nat \ {0}
  /\ JudgeCalls \in Nat /\ MaxCost \in Nat /\ Cap \in Nat /\ Estimate \in Nat
  /\ MaxRuns \in Nat /\ MaxFailures \in Nat /\ MaxTimeouts \in Nat
  /\ MaxFaults \in Nat /\ MaxOther \in Nat

VARIABLES
  stats,      \* total_cost_usd of the gateway since it started
  late,       \* calls the client has given up and the gateway still makes
  billed,     \* what harness calls have ever cost (history)
  ledger,     \* .spend.json
  runs,       \* per harness: its current run
  overlapped, \* a run has begun beside another one (history)
  started, failures, timeouts, faults, other  \* how often, see the bounds

evalVars == <<stats, late, billed, ledger, runs, overlapped,
              started, failures, timeouts, faults, other>>

-----------------------------------------------------------------------------
\* Variants named Mutant... are faulty versions of the definition after them, each
\* one slip away from the code; a property that no such slip breaks says nothing.

\* The most one example costs, and a whole run.
CallsPerExample == MaxRetries * (MaxSteps + 1) + JudgeCalls
PerExample      == MaxCost * CallsPerExample
PerRun          == Examples * PerExample

Unset == -1

\* "asked": admitted, at the confirmation prompt; "turn" to "poll": the loop of
\* run_eval; "commit": the finally of execute.
Phases == {"idle", "asked", "turn", "judge", "write", "poll", "commit"}
Run == [phase : Phases,
        loaded : Nat,                  \* the ledger, as the process loaded it
        base : Nat \cup {Unset},       \* _baseline
        latest : Nat,                  \* _latest
        done : Nat,                    \* examples behind it
        attempt : Nat, steps : Nat, judged : Nat,  \* calls for the example in flight
        spent : Nat,                   \* what its calls have cost (history)
        kept : Nat,                    \* of that, for examples that have a row (history)
        raised : BOOLEAN,              \* an exception ended it
        blind : BOOLEAN]               \* the gateway restarted, or did not answer, during it
NoRun == [phase |-> "idle", loaded |-> 0, base |-> Unset, latest |-> 0, done |-> 0,
          attempt |-> 1, steps |-> 0, judged |-> 0, spent |-> 0, kept |-> 0,
          raised |-> FALSE, blind |-> FALSE]

Active(h) == runs[h].phase # "idle"
RunTo(h, run) == runs' = [runs EXCEPT ![h] = run]

Init ==
  /\ stats = 0 /\ late = 0 /\ billed = 0 /\ ledger = 0
  /\ runs = [h \in Harnesses |-> NoRun]
  /\ overlapped = FALSE
  /\ started = 0 /\ failures = 0 /\ timeouts = 0 /\ faults = 0 /\ other = 0

-----------------------------------------------------------------------------
(***************************************************************************)
(* The budget guard.                                                       *)
(***************************************************************************)
\* preflight: the projection has to fit under the cap.
Admitted(spent) == spent + Estimate <= Cap

\* observe: the first total becomes the baseline, later ones give the run's cost.
Observed(run, total) ==
  LET base == IF run.base = Unset THEN total ELSE run.base
  IN  [run EXCEPT !.base = base, !.latest = IF total > base THEN total - base ELSE 0]

\* check, after every example.
MutantNeverOver(run)   == FALSE
Over(run) == run.loaded + run.latest > Cap

\* gateway_total_cost: 0 when the gateway does not answer.
Polled(answered) == IF answered THEN stats ELSE 0
Answered(answered) ==
  IF answered THEN UNCHANGED faults ELSE faults < MaxFaults /\ faults' = faults + 1

\* record rewrites the file from the entries loaded at the start and the new one.
Recorded(run) == run.loaded + run.latest

-----------------------------------------------------------------------------
(***************************************************************************)
(* One run.                                                                *)
(***************************************************************************)
\* Ledger.load and preflight.  A refused run leaves no trace and is left out.
Start(h) ==
  /\ ~Active(h) /\ started < MaxRuns
  /\ Admitted(ledger)
  /\ RunTo(h, [NoRun EXCEPT !.phase = "asked", !.loaded = ledger])
  /\ overlapped' = (overlapped \/ \E g \in Harnesses : Active(g))
  /\ started' = started + 1
  /\ UNCHANGED <<stats, late, billed, ledger, failures, timeouts, faults, other>>

\* confirm, require_gateway and require_retrieval refuse, without a record; or the
\* run is created and, before its first example, the baseline taken.
MutantNoBaseline(run, total) == run
TakeBaseline(run, total) == Observed(run, total)
Refuse(h) ==
  /\ runs[h].phase = "asked"
  /\ RunTo(h, NoRun)
  /\ UNCHANGED <<stats, late, billed, ledger, overlapped, started, failures, timeouts, faults, other>>
Create(h, answered) ==
  /\ runs[h].phase = "asked"
  /\ Answered(answered)
  /\ RunTo(h, [TakeBaseline(runs[h], Polled(answered))
                 EXCEPT !.phase = "turn", !.blind = @ \/ ~answered])
  /\ UNCHANGED <<stats, late, billed, ledger, overlapped, started, failures, timeouts, other>>

\* A gateway call of the run that succeeds, at some cost.
Pay(h, cost, run) ==
  /\ stats' = stats + cost
  /\ billed' = billed + cost
  /\ RunTo(h, [run EXCEPT !.spent = @ + cost])
  /\ UNCHANGED <<late, ledger, overlapped, started, failures, timeouts, faults, other>>

\* run_turn: max_steps calls, and one more that forces the answer.
TurnCall(h, cost) ==
  LET run == runs[h]
  IN  /\ run.phase = "turn" /\ run.steps <= MaxSteps
      /\ Pay(h, cost, [run EXCEPT !.steps = @ + 1])

\* _with_retries: a 429 or 5xx starts the turn over, the last one, like any other
\* error, makes an error row; a turn that ends is graded, unless --no-judge.
Turn(h) ==
  LET run == runs[h]
  IN  /\ run.phase = "turn"
      /\ \/ run.attempt < MaxRetries /\ RunTo(h, [run EXCEPT !.attempt = @ + 1, !.steps = 0])
         \/ RunTo(h, [run EXCEPT !.phase = "write"])
         \/ run.steps > 0 /\ RunTo(h, [run EXCEPT !.phase = "judge"])
      /\ UNCHANGED <<stats, late, billed, ledger, overlapped, started, failures, timeouts, faults, other>>

\* judge: two dimensions, each with one repair.
JudgeCall(h, cost) ==
  LET run == runs[h]
  IN  /\ run.phase = "judge" /\ run.judged < JudgeCalls
      /\ Pay(h, cost, [run EXCEPT !.judged = @ + 1])
Judge(h) ==
  /\ runs[h].phase = "judge" /\ runs[h].judged > 0
  /\ RunTo(h, [runs[h] EXCEPT !.phase = "write"])
  /\ UNCHANGED <<stats, late, billed, ledger, overlapped, started, failures, timeouts, faults, other>>

\* The client stops waiting (read timeout); the gateway does not.  In a turn that
\* makes an error row; in a judgement the exception leaves score_example.
Timeout(h) ==
  LET run == runs[h]
  IN  /\ timeouts < MaxTimeouts
      /\ timeouts' = timeouts + 1 /\ late' = late + 1
      /\ \/ /\ run.phase = "turn" /\ run.steps <= MaxSteps
            /\ RunTo(h, [run EXCEPT !.phase = "write"])
            /\ UNCHANGED failures
         \/ /\ run.phase = "judge" /\ run.judged < JudgeCalls /\ failures < MaxFailures
            /\ RunTo(h, [run EXCEPT !.phase = "commit", !.raised = TRUE])
            /\ failures' = failures + 1
      /\ UNCHANGED <<stats, billed, ledger, overlapped, started, faults, other>>

\* write_result, committed at once: the row of the example.
MutantInOneBatch(run) == IF run.done + 1 = Examples THEN run.spent ELSE run.kept
Kept(run) == run.spent
Write(h) ==
  /\ runs[h].phase = "write"
  /\ RunTo(h, [runs[h] EXCEPT !.phase = "poll", !.kept = Kept(runs[h])])
  /\ UNCHANGED <<stats, late, billed, ledger, overlapped, started, failures, timeouts, faults, other>>

\* observe and check: on to the next example, or out of the loop to finish_run.
MutantForgets(run, total) == run
Poll(run, total) == Observed(run, total)
Check(h, answered) ==
  LET run == [Poll(runs[h], Polled(answered))
                EXCEPT !.done = @ + 1, !.attempt = 1, !.steps = 0, !.judged = 0,
                       !.blind = @ \/ ~answered]
  IN  /\ runs[h].phase = "poll"
      /\ Answered(answered)
      /\ RunTo(h, [run EXCEPT !.phase = IF Over(run) \/ run.done = Examples THEN "commit" ELSE "turn"])
      /\ UNCHANGED <<stats, late, billed, ledger, overlapped, started, failures, timeouts, other>>

\* The tools, the judge, the sink or the operator raise: only the finally is left.
Raise(h) ==
  /\ runs[h].phase \in {"asked", "turn", "judge", "write", "poll"}
  /\ failures < MaxFailures /\ failures' = failures + 1
  /\ RunTo(h, [runs[h] EXCEPT !.phase = "commit", !.raised = TRUE])
  /\ UNCHANGED <<stats, late, billed, ledger, overlapped, started, timeouts, faults, other>>

Commit(h) ==
  /\ runs[h].phase = "commit"
  /\ ledger' = Recorded(runs[h])
  /\ RunTo(h, NoRun)
  /\ UNCHANGED <<stats, late, billed, overlapped, started, failures, timeouts, faults, other>>

Harness(h) ==
  \/ Start(h) \/ Refuse(h) \/ Turn(h) \/ Judge(h) \/ Timeout(h) \/ Write(h)
  \/ Raise(h) \/ Commit(h)
  \/ \E answered \in BOOLEAN : Create(h, answered) \/ Check(h, answered)
  \/ \E cost \in 1 .. MaxCost : TurnCall(h, cost) \/ JudgeCall(h, cost)

-----------------------------------------------------------------------------
(***************************************************************************)
(* Around the runs.                                                        *)
(***************************************************************************)
\* The process is killed, and records nothing.
Kill(h) ==
  /\ Active(h) /\ faults < MaxFaults
  /\ faults' = faults + 1
  /\ RunTo(h, NoRun)
  /\ UNCHANGED <<stats, late, billed, ledger, overlapped, started, failures, timeouts, other>>

\* The gateway restarts: its statistics are process-lifetime, its calls are gone.
Restart ==
  /\ faults < MaxFaults /\ faults' = faults + 1
  /\ stats' = 0 /\ late' = 0
  /\ runs' = [h \in Harnesses |-> [runs[h] EXCEPT !.blind = @ \/ Active(h)]]
  /\ UNCHANGED <<billed, ledger, overlapped, started, failures, timeouts, other>>

\* A call nobody waits for any more succeeds.
Answer(cost) ==
  /\ late > 0 /\ late' = late - 1
  /\ stats' = stats + cost /\ billed' = billed + cost
  /\ UNCHANGED <<ledger, runs, overlapped, started, failures, timeouts, faults, other>>

\* Another client of the gateway.
Traffic ==
  /\ other < MaxOther /\ other' = other + 1
  /\ stats' = stats + 1
  /\ UNCHANGED <<late, billed, ledger, runs, overlapped, started, failures, timeouts, faults>>

Next ==
  \/ \E h \in Harnesses : Harness(h) \/ Kill(h)
  \/ \E cost \in 1 .. MaxCost : Answer(cost)
  \/ Restart \/ Traffic

Spec == Init /\ [][Next]_evalVars
-----------------------------------------------------------------------------
TypeOK ==
  /\ stats \in Nat /\ late \in Nat /\ billed \in Nat /\ ledger \in Nat
  /\ runs \in [Harnesses -> Run]
  /\ overlapped \in BOOLEAN
  /\ started \in 0 .. MaxRuns /\ failures \in 0 .. MaxFailures
  /\ timeouts \in 0 .. MaxTimeouts /\ faults \in 0 .. MaxFaults /\ other \in 0 .. MaxOther

\* The hard stop works: what a run spends, on top of the ledger it started from,
\* passes the cap by no more than the example in flight, whoever else uses the
\* gateway -- unless the gateway restarts or fails to answer during the run.
RunBounded ==
  \A h \in Harnesses :
    Active(h) /\ ~runs[h].blind => runs[h].loaded + runs[h].spent <= Cap + PerExample

\* What the headroom between the cap and the authorised amount has to cover, as long
\* as runs do not overlap: the example in flight, one more per run that died of an
\* exception, one call per timeout, and a whole run per kill, restart or failed poll.
CapHeld ==
  ~overlapped =>
    billed <= Cap + PerExample + failures * PerExample + timeouts * MaxCost + faults * PerRun

\* What a run is about to record covers what it spent; if an exception ended it, all
\* but the example it died in.
Covered ==
  \A h \in Harnesses :
    LET run == runs[h]
    IN  run.phase = "commit" /\ ~run.blind =>
          run.spent <= run.latest + IF run.raised THEN PerExample ELSE 0

\* "A crash costs the example in flight and nothing else": what was paid for examples
\* without a row is never more than one example, however the run ends.
OneExampleLost == \A h \in Harnesses : runs[h].spent <= runs[h].kept + PerExample
=============================================================================
