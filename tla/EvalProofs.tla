----------------------------- MODULE EvalProofs -----------------------------
(***************************************************************************)
(* Theorems about EvalRun, for any harnesses, examples, costs and bounds.  *)
(***************************************************************************)
EXTENDS EvalRun, TLAPS

-----------------------------------------------------------------------------
(***************************************************************************)
(* Products.  From here on the three costs below are opaque numbers.       *)
(***************************************************************************)
\* Products of numbers are numbers.
LEMMA ProductType == \A a, b \in Nat : a * b \in Nat
  OBVIOUS

\* One more factor adds one summand.
LEMMA ProductStep == \A a, b \in Nat : (a + 1) * b = a * b + b
  OBVIOUS

\* Products grow with their factors.
LEMMA ProductMono == \A a, b, c \in Nat : a <= b => a * c <= b * c
  <1> SUFFICES ASSUME NEW a \in Nat, NEW b \in Nat, NEW c \in Nat, a <= b
               PROVE  a * c <= b * c
    OBVIOUS
  <1>1. PICK d \in Nat : b = a + d
    <2> WITNESS b - a \in Nat
    <2> QED OBVIOUS
  <1>2. b * c = a * c + d * c
    BY <1>1
  <1>3. d * c \in Nat /\ a * c \in Nat
    BY ProductType
  <1>4. QED
    BY <1>2, <1>3

\* What the calls of an example in flight may have cost.
Calls(run)  == (run.attempt - 1) * (MaxSteps + 1) + run.steps + run.judged
Flight(run) == MaxCost * Calls(run)

\* The arithmetic of the steps below, on plain numbers.
LEMMA Widen == \A o, n, s, t, m \in Nat : n = o /\ s <= t /\ o <= m + s => n <= m + t
  OBVIOUS

\* A call that costs at most what was set aside for it.
LEMMA Paid == \A o, n, m, x \in Nat : n + m = o + x /\ x <= m => n <= o
  OBVIOUS

\* A cost added before a sum is added after it.
LEMMA Added == \A b, c, w \in Nat : (b + c) + w = (b + w) + c
  OBVIOUS

\* The same, with what was set aside between them.
LEMMA Repaid == \A b, c, v, m \in Nat : ((b + c) + v) + m = (b + (v + m)) + c
  OBVIOUS

\* The costs of an example and of a run are numbers, and no call costs more than its example.
LEMMA CostTypes ==
  /\ CallsPerExample \in Nat /\ PerExample \in Nat /\ PerRun \in Nat
  /\ MaxCost <= PerExample
  <1>1. MaxRetries * (MaxSteps + 1) \in Nat
    BY EvalAssumption, ProductType
  <1>2. MaxRetries * (MaxSteps + 1) >= 1
    <2>1. 1 * (MaxSteps + 1) <= MaxRetries * (MaxSteps + 1)
      BY EvalAssumption, ProductMono
    <2>2. QED
      BY <2>1, EvalAssumption
  <1>3. CallsPerExample \in Nat /\ CallsPerExample >= 1
    BY <1>1, <1>2, EvalAssumption DEF CallsPerExample
  <1>4. PerExample = CallsPerExample * MaxCost
    BY <1>3, EvalAssumption DEF PerExample
  <1>5. PerExample \in Nat
    BY <1>3, <1>4, EvalAssumption, ProductType
  <1>6. PerRun \in Nat
    BY <1>5, EvalAssumption, ProductType DEF PerRun
  <1>7. 1 * MaxCost <= PerExample
    BY <1>3, <1>4, EvalAssumption, ProductMono
  <1>8. QED
    BY <1>3, <1>5, <1>6, <1>7, EvalAssumption

\* The example in flight costs at most PerExample, however its calls are spread over attempts.
LEMMA FlightFacts ==
  ASSUME NEW run \in Run,
         run.attempt \in 1 .. MaxRetries, run.steps \in 0 .. MaxSteps + 1,
         run.judged \in 0 .. JudgeCalls
  PROVE  /\ Calls(run) \in Nat
         /\ Flight(run) \in Nat /\ Flight(run) <= PerExample
  <1>1. /\ run.attempt - 1 \in Nat /\ MaxRetries - 1 \in Nat /\ MaxSteps + 1 \in Nat
        /\ run.attempt - 1 <= MaxRetries - 1
    BY EvalAssumption
  <1>2. /\ (run.attempt - 1) * (MaxSteps + 1) \in Nat
        /\ (run.attempt - 1) * (MaxSteps + 1) <= (MaxRetries - 1) * (MaxSteps + 1)
    BY <1>1, ProductType, ProductMono
  <1>3. /\ (MaxRetries - 1) * (MaxSteps + 1) \in Nat
        /\ MaxRetries * (MaxSteps + 1) = (MaxRetries - 1) * (MaxSteps + 1) + (MaxSteps + 1)
    <2>1. ((MaxRetries - 1) + 1) * (MaxSteps + 1) = (MaxRetries - 1) * (MaxSteps + 1) + (MaxSteps + 1)
      BY <1>1, ProductStep
    <2>2. (MaxRetries - 1) + 1 = MaxRetries
      BY EvalAssumption
    <2>3. QED
      BY <1>1, <2>1, <2>2, ProductType
  <1>4. Calls(run) \in Nat /\ Calls(run) <= CallsPerExample
    BY <1>1, <1>2, <1>3, EvalAssumption DEF Calls, CallsPerExample
  <1>5. Calls(run) * MaxCost \in Nat /\ Calls(run) * MaxCost <= CallsPerExample * MaxCost
    BY <1>4, CostTypes, EvalAssumption, ProductType, ProductMono
  <1>6. Flight(run) = Calls(run) * MaxCost /\ PerExample = CallsPerExample * MaxCost
    BY <1>4, CostTypes, EvalAssumption DEF Flight, PerExample
  <1>7. QED
    BY <1>4, <1>5, <1>6

\* A call adds MaxCost to the allowance of the example in flight, and more calls never lower it.
LEMMA FlightGrows ==
  ASSUME NEW run \in Run, NEW next \in Run, Calls(run) \in Nat, Calls(next) \in Nat
  PROVE  /\ Calls(next) = Calls(run) + 1 => Flight(next) = Flight(run) + MaxCost
         /\ Calls(run) <= Calls(next) => Flight(run) <= Flight(next)
  <1>1. /\ Flight(run) = Calls(run) * MaxCost
        /\ Flight(next) = Calls(next) * MaxCost
    BY EvalAssumption DEF Flight
  <1>2. QED
    BY <1>1, EvalAssumption, ProductStep, ProductMono

-----------------------------------------------------------------------------
(***************************************************************************)
(* Types.                                                                  *)
(***************************************************************************)
\* A harness without a run has a well-formed record.
LEMMA NoRunType == NoRun \in Run
  BY DEF NoRun, Run, Phases, Unset

\* RunTo moves one harness and no other.
LEMMA RunToEffect ==
  ASSUME TypeOK, NEW h \in Harnesses, NEW run, RunTo(h, run)
  PROVE  /\ runs'[h] = run
         /\ \A g \in Harnesses \ {h} : runs'[g] = runs[g]
         /\ run \in Run => runs' \in [Harnesses -> Run]
  BY DEF TypeOK, RunTo

\* observe sets the baseline once, and the latest cost, never below zero.
LEMMA ObservedFacts ==
  ASSUME NEW run \in Run, NEW total \in Nat
  PROVE  /\ Observed(run, total) \in Run
         /\ \E base \in Nat, latest \in Nat :
              /\ base = IF run.base = Unset THEN total ELSE run.base
              /\ latest = IF total > base THEN total - base ELSE 0
              /\ Observed(run, total) = [run EXCEPT !.base = base, !.latest = latest]
  <1> DEFINE base == IF run.base = Unset THEN total ELSE run.base
             latest == IF total > base THEN total - base ELSE 0
  <1>1. base \in Nat
    BY DEF Run, Unset
  <1>2. latest \in Nat
    BY <1>1
  <1>3. Observed(run, total) = [run EXCEPT !.base = base, !.latest = latest]
    BY DEF Observed
  <1> HIDE DEF base, latest
  <1>4. [run EXCEPT !.base = base, !.latest = latest] \in Run
    BY <1>1, <1>2 DEF Run
  <1>5. QED
    BY <1>1, <1>2, <1>3, <1>4 DEF base, latest

\* Every variable keeps its type: no counter passes its bound, and the totals a run
\* compares and records (observe, gateway_total_cost) never become negative.
THEOREM TypeCorrect == Spec => []TypeOK
<1>1. Init => TypeOK
  <2> SUFFICES ASSUME Init
               PROVE  TypeOK
    OBVIOUS
  <2>1. runs \in [Harnesses -> Run]
    BY NoRunType DEF Init
  <2>2. /\ stats \in Nat /\ late \in Nat /\ billed \in Nat /\ ledger \in Nat
        /\ overlapped \in BOOLEAN
    BY DEF Init
  <2>3. /\ started \in 0 .. MaxRuns /\ failures \in 0 .. MaxFailures
        /\ timeouts \in 0 .. MaxTimeouts /\ faults \in 0 .. MaxFaults /\ other \in 0 .. MaxOther
    BY EvalAssumption DEF Init
  <2>4. QED
    BY <2>1, <2>2, <2>3 DEF TypeOK
<1>2. TypeOK /\ [Next]_evalVars => TypeOK'
  <2> SUFFICES ASSUME TypeOK, [Next]_evalVars
               PROVE  TypeOK'
    OBVIOUS
  <2>1. ASSUME NEW h \in Harnesses
        PROVE  runs[h] \in Run
    BY DEF TypeOK
  <2>2. ASSUME NEW answered \in BOOLEAN
        PROVE  Polled(answered) \in Nat
    BY DEF TypeOK, Polled
  <2>3. ASSUME NEW h \in Harnesses, Start(h) \/ Refuse(h) \/ Kill(h)
        PROVE  TypeOK'
    <3>1. [NoRun EXCEPT !.phase = "asked", !.loaded = ledger] \in Run
      BY NoRunType DEF Run, Phases, TypeOK
    <3>2. CASE Start(h)
      BY <3>1, <3>2, RunToEffect, EvalAssumption DEF Start, TypeOK
    <3>3. CASE Refuse(h)
      BY <3>3, NoRunType, RunToEffect DEF Refuse, TypeOK
    <3>4. CASE Kill(h)
      BY <3>4, NoRunType, RunToEffect, EvalAssumption DEF Kill, TypeOK
    <3>5. QED
      BY <2>3, <3>2, <3>3, <3>4
  <2>4. ASSUME NEW h \in Harnesses, NEW answered \in BOOLEAN, Create(h, answered)
        PROVE  TypeOK'
    <3> DEFINE run == Observed(runs[h], Polled(answered))
               next == [run EXCEPT !.phase = "turn", !.blind = @ \/ ~answered]
    <3>1. run \in Run
      BY <2>1, <2>2, ObservedFacts
    <3> HIDE DEF run
    <3>2. next \in Run
      BY <3>1 DEF Run, Phases
    <3>3. RunTo(h, next)
      BY <2>4 DEF Create, TakeBaseline, run
    <3> HIDE DEF next
    <3>4. QED
      BY <2>4, <3>2, <3>3, RunToEffect, EvalAssumption DEF Create, Answered, TypeOK
  <2>5. ASSUME NEW h \in Harnesses, NEW cost \in 1 .. MaxCost, TurnCall(h, cost) \/ JudgeCall(h, cost)
        PROVE  TypeOK'
    <3>1. ASSUME NEW run \in Run, Pay(h, cost, run)
          PROVE  TypeOK'
      <4>1. [run EXCEPT !.spent = @ + cost] \in Run
        BY <3>1, EvalAssumption DEF Run
      <4>2. QED
        BY <3>1, <4>1, RunToEffect, EvalAssumption DEF Pay, TypeOK
    <3>2. /\ [runs[h] EXCEPT !.steps = @ + 1] \in Run
          /\ [runs[h] EXCEPT !.judged = @ + 1] \in Run
      BY <2>1 DEF Run
    <3>3. QED
      BY <2>5, <3>1, <3>2 DEF TurnCall, JudgeCall
  <2>6. ASSUME NEW h \in Harnesses, Turn(h) \/ Judge(h) \/ Write(h)
        PROVE  TypeOK'
    <3>1. /\ [runs[h] EXCEPT !.attempt = @ + 1, !.steps = 0] \in Run
          /\ [runs[h] EXCEPT !.phase = "write"] \in Run
          /\ [runs[h] EXCEPT !.phase = "judge"] \in Run
          /\ [runs[h] EXCEPT !.phase = "poll", !.kept = Kept(runs[h])] \in Run
      <4> DEFINE run == runs[h]
      <4>1. run \in Run
        BY <2>1
      <4> HIDE DEF run
      <4>2. /\ [run EXCEPT !.attempt = run.attempt + 1, !.steps = 0] \in Run
            /\ [run EXCEPT !.phase = "poll", !.kept = run.spent] \in Run
        <5>1. run.attempt + 1 \in Nat /\ run.spent \in Nat
          BY <4>1 DEF Run
        <5>2. [run EXCEPT !.attempt = run.attempt + 1, !.steps = 0] \in Run
          BY <4>1, <5>1 DEF Run
        <5>3. [run EXCEPT !.phase = "poll", !.kept = run.spent] \in Run
          BY <4>1, <5>1 DEF Run, Phases
        <5>4. QED
          BY <5>2, <5>3
      <4>3. /\ [run EXCEPT !.phase = "write"] \in Run
            /\ [run EXCEPT !.phase = "judge"] \in Run
        BY <4>1 DEF Run, Phases
      <4>4. QED
        BY <4>2, <4>3 DEF Kept, run
    <3>2. QED
      BY <2>6, <3>1, RunToEffect DEF Turn, Judge, Write, TypeOK
  <2>7. ASSUME NEW h \in Harnesses, Timeout(h) \/ Raise(h)
        PROVE  TypeOK'
    <3>1. /\ [runs[h] EXCEPT !.phase = "write"] \in Run
          /\ [runs[h] EXCEPT !.phase = "commit", !.raised = TRUE] \in Run
      BY <2>1 DEF Run, Phases
    <3>2. QED
      BY <2>7, <3>1, RunToEffect, EvalAssumption DEF Timeout, Raise, TypeOK
  <2>8. ASSUME NEW h \in Harnesses, NEW answered \in BOOLEAN, Check(h, answered)
        PROVE  TypeOK'
    <3> DEFINE seen == Observed(runs[h], Polled(answered))
               run == [seen EXCEPT !.done = @ + 1, !.attempt = 1, !.steps = 0, !.judged = 0,
                                   !.blind = @ \/ ~answered]
               next == [run EXCEPT !.phase = IF Over(run) \/ run.done = Examples THEN "commit" ELSE "turn"]
    <3>1. seen \in Run
      BY <2>1, <2>2, ObservedFacts
    <3> HIDE DEF seen
    <3>2. run \in Run
      <4>1. seen.done + 1 \in Nat /\ (seen.blind \/ ~answered) \in BOOLEAN
        BY <3>1 DEF Run
      <4>2. QED
        BY <3>1, <4>1 DEF Run
    <3>3. RunTo(h, next)
      BY <2>8 DEF Check, Poll, seen
    <3> HIDE DEF run
    <3>4. next \in Run
      BY <3>2 DEF Run, Phases
    <3> HIDE DEF next
    <3>5. QED
      BY <2>8, <3>3, <3>4, RunToEffect, EvalAssumption DEF Check, Answered, TypeOK
  <2>9. ASSUME NEW h \in Harnesses, Commit(h)
        PROVE  TypeOK'
    <3>1. Recorded(runs[h]) \in Nat
      BY <2>1 DEF Recorded, Run
    <3>2. QED
      BY <2>9, <3>1, NoRunType, RunToEffect DEF Commit, TypeOK
  <2>10. CASE Restart
    <3>1. \A h \in Harnesses : [runs[h] EXCEPT !.blind = @ \/ Active(h)] \in Run
      BY <2>1 DEF Run, Active
    <3>2. runs' \in [Harnesses -> Run]
      BY <2>10, <3>1 DEF Restart
    <3>3. /\ faults' \in 0 .. MaxFaults /\ stats' \in Nat /\ late' \in Nat
      BY <2>10, EvalAssumption DEF Restart, TypeOK
    <3>4. QED
      BY <2>10, <3>2, <3>3 DEF Restart, TypeOK
  <2>11. CASE Traffic
    BY <2>11, EvalAssumption DEF Traffic, TypeOK
  <2>12. ASSUME NEW cost \in 1 .. MaxCost, Answer(cost)
         PROVE  TypeOK'
    BY <2>12, EvalAssumption DEF Answer, TypeOK
  <2>13. CASE UNCHANGED evalVars
    BY <2>13 DEF evalVars, TypeOK
  <2>14. QED
    BY <2>3, <2>4, <2>5, <2>6, <2>7, <2>8, <2>9, <2>10, <2>11, <2>12, <2>13 DEF Next, Harness
<1>3. QED
  BY <1>1, <1>2, PTL DEF Spec

-----------------------------------------------------------------------------
(***************************************************************************)
(* One run, whatever the others do.                                        *)
(***************************************************************************)
InLoop(run) == run.phase \in {"turn", "judge", "write", "poll"}

\* The loops are bounded.
Counted(run) ==
  /\ run.attempt \in 1 .. MaxRetries /\ run.steps \in 0 .. MaxSteps + 1
  /\ run.judged \in 0 .. JudgeCalls
  /\ InLoop(run) => run.done < Examples

\* What is paid and has no row is the example in flight; the rest of the cost is that of
\* the examples behind the run.
RowsPaid(run) ==
  /\ run.spent <= run.kept + PerExample
  /\ run.phase \in {"turn", "judge"} => run.spent <= run.kept + Flight(run)
  /\ run.phase = "poll" => run.kept = run.spent
  /\ InLoop(run) /\ run.phase # "poll" => run.kept <= run.done * PerExample
  /\ InLoop(run) => run.spent <= (run.done + 1) * PerExample
  /\ run.spent <= PerRun

\* While the gateway's total can be trusted, it has grown by the run's cost since the
\* baseline, the last check saw all the rows written before it, and allowed one more.
Watched(run, total) ==
  /\ InLoop(run) => run.base # Unset /\ run.base + run.spent <= total
  /\ InLoop(run) => run.loaded + run.latest <= Cap
  /\ InLoop(run) /\ run.phase # "poll" => run.kept <= run.latest
  /\ InLoop(run) => run.spent <= run.latest + PerExample
  /\ run.phase = "commit" =>
       /\ run.loaded + run.spent <= Cap + PerExample
       /\ run.spent <= run.latest + (IF run.raised THEN PerExample ELSE 0)

\* Before the loop nothing is spent.
Fresh(run) ==
  run.phase \in {"idle", "asked"} =>
    /\ run.base = Unset
    /\ run.done = 0 /\ run.spent = 0 /\ run.kept = 0 /\ run.latest = 0

Sound(run, total) ==
  /\ Counted(run) /\ RowsPaid(run) /\ Fresh(run)
  /\ run.loaded <= Cap
  /\ run.blind \/ Watched(run, total)

RunInv == \A h \in Harnesses : Sound(runs[h], stats)

\* A harness without a run is sound.
LEMMA SoundNoRun == \A total \in Nat : Sound(NoRun, total)
  <1>1. MaxRetries >= 1 /\ JudgeCalls >= 0 /\ MaxSteps >= 0 /\ Cap >= 0
    BY EvalAssumption
  <1>2. /\ NoRun.phase = "idle" /\ NoRun.loaded = 0 /\ NoRun.base = Unset /\ NoRun.latest = 0
        /\ NoRun.done = 0 /\ NoRun.attempt = 1 /\ NoRun.steps = 0 /\ NoRun.judged = 0
        /\ NoRun.spent = 0 /\ NoRun.kept = 0
    BY DEF NoRun
  <1>3. Counted(NoRun)
    BY <1>1, <1>2, EvalAssumption DEF Counted, InLoop
  <1>4. RowsPaid(NoRun) /\ Fresh(NoRun) /\ NoRun.loaded <= Cap
    BY <1>1, <1>2, CostTypes DEF RowsPaid, Fresh, InLoop
  <1>5. \A total \in Nat : Watched(NoRun, total)
    BY <1>2 DEF Watched, InLoop
  <1>6. QED
    BY <1>3, <1>4, <1>5 DEF Sound

\* Only a growing total is seen by the others, or, after a restart, by nobody.
LEMMA SoundGrows ==
  ASSUME NEW run \in Run, NEW a \in Nat, NEW b \in Nat, Sound(run, a), a <= b
  PROVE  Sound(run, b)
  BY DEF Sound, Watched, InLoop, Run

\* A restart of the gateway keeps a run sound: nothing is claimed of a total it cannot trust.
LEMMA SoundBlind ==
  ASSUME NEW run \in Run, NEW a \in Nat, NEW b \in Nat, Sound(run, a)
  PROVE  Sound([run EXCEPT !.blind = @ \/ run.phase # "idle"], b)
  <1> DEFINE next == [run EXCEPT !.blind = @ \/ run.phase # "idle"]
  <1>1. /\ next.phase = run.phase /\ next.loaded = run.loaded /\ next.base = run.base
        /\ next.latest = run.latest /\ next.done = run.done /\ next.attempt = run.attempt
        /\ next.steps = run.steps /\ next.judged = run.judged /\ next.spent = run.spent
        /\ next.kept = run.kept
        /\ next.blind = (run.blind \/ run.phase # "idle")
    BY DEF Run
  <1> HIDE DEF next
  <1>2. Flight(next) = Flight(run)
    BY <1>1 DEF Flight, Calls
  <1>3. Counted(next) /\ RowsPaid(next) /\ Fresh(next) /\ next.loaded <= Cap
    BY <1>1, <1>2 DEF Sound, Counted, RowsPaid, Fresh, InLoop
  <1>4. next.blind \/ Watched(next, b)
    BY <1>1 DEF Watched, InLoop
  <1>5. QED
    BY <1>3, <1>4 DEF Sound, next

\* The examples behind a run and the one in flight fit into PerRun.
LEMMA RunPays ==
  ASSUME NEW done \in Nat, done < Examples
  PROVE  /\ done * PerExample \in Nat
         /\ (done + 1) * PerExample = done * PerExample + PerExample
         /\ (done + 1) * PerExample <= PerRun
  <1>1. done * PerExample \in Nat /\ (done + 1) * PerExample = done * PerExample + PerExample
    BY CostTypes, ProductType, ProductStep
  <1>2. (done + 1) * PerExample <= Examples * PerExample
    BY CostTypes, EvalAssumption, ProductMono
  <1>3. QED
    BY <1>1, <1>2 DEF PerRun

\* A call adds at most MaxCost to the cost and to the total alike.
LEMMA SoundPay ==
  ASSUME NEW run \in Run, NEW total \in Nat, NEW cost \in 1 .. MaxCost, Sound(run, total),
         NEW next \in Run,
         next \in {[run EXCEPT !.steps = @ + 1, !.spent = @ + cost],
                   [run EXCEPT !.judged = @ + 1, !.spent = @ + cost]},
         next.steps \in 0 .. MaxSteps + 1, next.judged \in 0 .. JudgeCalls,
         run.phase \in {"turn", "judge"}
  PROVE  Sound(next, total + cost)
  <1>1. /\ next.phase = run.phase /\ next.loaded = run.loaded /\ next.base = run.base
        /\ next.latest = run.latest /\ next.done = run.done /\ next.attempt = run.attempt
        /\ next.spent = run.spent + cost /\ next.kept = run.kept
        /\ next.blind = run.blind
        /\ next.steps + next.judged = run.steps + run.judged + 1
    <2>1. run.spent + cost \in Nat /\ run.steps \in Nat /\ run.judged \in Nat
      BY DEF Run
    <2>2. CASE next = [run EXCEPT !.steps = @ + 1, !.spent = @ + cost]
      BY <2>1, <2>2 DEF Run
    <2>3. CASE next = [run EXCEPT !.judged = @ + 1, !.spent = @ + cost]
      BY <2>1, <2>3 DEF Run
    <2>4. QED
      BY <2>2, <2>3
  <1>2. Counted(next)
    BY <1>1 DEF Sound, Counted, InLoop
  <1>3. /\ Flight(run) \in Nat /\ Flight(next) \in Nat
        /\ Flight(next) <= PerExample /\ PerExample \in Nat
        /\ Calls(run) \in Nat /\ Calls(next) \in Nat
    BY <1>2, FlightFacts, CostTypes DEF Sound, Counted
  <1>4. Calls(next) = Calls(run) + 1
    <2> DEFINE before == (run.attempt - 1) * (MaxSteps + 1)
    <2>1. before \in Nat
      BY ProductType, EvalAssumption DEF Sound, Counted
    <2>2. Calls(run) = before + run.steps + run.judged /\ Calls(next) = before + next.steps + next.judged
      BY <1>1 DEF Calls
    <2> HIDE DEF before
    <2>3. QED
      BY <1>1, <2>1, <2>2 DEF Run
  <1>5. Flight(next) = Flight(run) + MaxCost
    BY <1>3, <1>4, FlightGrows
  <1>6. next.spent <= next.kept + Flight(next)
    BY <1>1, <1>3, <1>5, EvalAssumption DEF Sound, RowsPaid, Run
  <1>7. next.spent <= (next.done + 1) * PerExample /\ next.spent <= PerRun
    <2>1. next.done \in Nat /\ next.done < Examples /\ next.kept \in Nat /\ next.spent \in Nat
      BY <1>1, <1>2 DEF Counted, InLoop, Run
    <2>2. next.kept <= next.done * PerExample
      BY <1>1 DEF Sound, RowsPaid, InLoop
    <2>3. QED
      BY <1>3, <1>6, <2>1, <2>2, RunPays, CostTypes
  <1>8. RowsPaid(next) /\ Fresh(next)
    BY <1>1, <1>3, <1>6, <1>7 DEF Sound, RowsPaid, Fresh, InLoop, Run
  <1>9. ASSUME ~run.blind
        PROVE  Watched(next, total + cost)
    <2>1. next.spent <= next.latest + PerExample
      BY <1>1, <1>3, <1>6, <1>9 DEF Sound, Watched, InLoop, Run
    <2>2. QED
      BY <1>1, <1>9, <2>1, EvalAssumption DEF Sound, Watched, InLoop, Run, Unset
  <1>10. QED
    BY <1>1, <1>2, <1>8, <1>9 DEF Sound

\* A turn that starts over keeps the allowance of the attempt it gives up.
LEMMA SoundRetry ==
  ASSUME NEW run \in Run, NEW total \in Nat, Sound(run, total),
         run.phase = "turn", run.attempt < MaxRetries
  PROVE  Sound([run EXCEPT !.attempt = @ + 1, !.steps = 0], total)
  <1> DEFINE next == [run EXCEPT !.attempt = @ + 1, !.steps = 0]
  <1>1. /\ next.phase = run.phase /\ next.loaded = run.loaded /\ next.base = run.base
        /\ next.latest = run.latest /\ next.done = run.done /\ next.attempt = run.attempt + 1
        /\ next.steps = 0 /\ next.judged = run.judged /\ next.spent = run.spent
        /\ next.kept = run.kept
        /\ next.blind = run.blind
    BY DEF Run
  <1>2. next \in Run
    <2>1. run.attempt + 1 \in Nat
      BY DEF Run
    <2>2. QED
      BY <2>1 DEF Run
  <1> HIDE DEF next
  <1>3. Counted(next)
    BY <1>1, EvalAssumption DEF Sound, Counted, InLoop, Run
  <1>4. /\ Flight(run) \in Nat /\ Flight(next) \in Nat
        /\ Calls(run) \in Nat /\ Calls(next) \in Nat
    BY <1>2, <1>3, FlightFacts DEF Sound, Counted
  <1>5. Calls(run) <= Calls(next)
    <2> DEFINE tried == run.attempt - 1
    <2>1. tried \in Nat /\ run.attempt = tried + 1
      BY DEF Sound, Counted
    <2>2. tried * (MaxSteps + 1) \in Nat
      BY <2>1, ProductType, EvalAssumption
    <2>3. (tried + 1) * (MaxSteps + 1) = tried * (MaxSteps + 1) + (MaxSteps + 1)
      BY <2>1, ProductStep, EvalAssumption
    <2>4. run.steps \in 0 .. MaxSteps + 1 /\ run.judged \in Nat
      BY DEF Sound, Counted, Run
    <2>5. next.attempt - 1 = tried + 1
      BY <1>1, <2>1
    <2>6. /\ Calls(run) = tried * (MaxSteps + 1) + run.steps + run.judged
          /\ Calls(next) = (tried + 1) * (MaxSteps + 1) + 0 + run.judged
      BY <1>1, <2>5 DEF Calls
    <2> HIDE DEF tried
    <2>7. QED
      BY <2>1, <2>2, <2>3, <2>4, <2>6, EvalAssumption
  <1>6. Flight(run) <= Flight(next)
    BY <1>2, <1>4, <1>5, FlightGrows
  <1>7. RowsPaid(next) /\ Fresh(next) /\ next.loaded <= Cap
    BY <1>1, <1>4, <1>6 DEF Sound, RowsPaid, Fresh, InLoop, Run
  <1>8. next.blind \/ Watched(next, total)
    BY <1>1 DEF Sound, Watched, InLoop
  <1>9. QED
    BY <1>3, <1>7, <1>8 DEF Sound, next

\* From the turn to the judge, from either to the row, and from the row to the check.
LEMMA SoundOn ==
  ASSUME NEW run \in Run, NEW total \in Nat, Sound(run, total)
  PROVE  /\ run.phase = "turn" => Sound([run EXCEPT !.phase = "judge"], total)
         /\ run.phase \in {"turn", "judge"} => Sound([run EXCEPT !.phase = "write"], total)
         /\ run.phase = "write" => Sound([run EXCEPT !.phase = "poll", !.kept = run.spent], total)
  <1>1. ASSUME NEW next \in Run, NEW phase \in {"judge", "write"}, next = [run EXCEPT !.phase = phase],
               run.phase = "turn" \/ (run.phase = "judge" /\ phase = "write")
        PROVE  Sound(next, total)
    <2>1. /\ next.phase = phase /\ next.loaded = run.loaded /\ next.base = run.base
          /\ next.latest = run.latest /\ next.done = run.done /\ next.attempt = run.attempt
          /\ next.steps = run.steps /\ next.judged = run.judged /\ next.spent = run.spent
          /\ next.kept = run.kept
          /\ next.blind = run.blind
      BY <1>1 DEF Run
    <2>2. Flight(next) = Flight(run)
      BY <2>1 DEF Flight, Calls
    <2>3. Counted(next) /\ RowsPaid(next) /\ Fresh(next) /\ next.loaded <= Cap
      BY <1>1, <2>1, <2>2 DEF Sound, Counted, RowsPaid, Fresh, InLoop
    <2>4. next.blind \/ Watched(next, total)
      BY <1>1, <2>1 DEF Sound, Watched, InLoop
    <2>5. QED
      BY <2>3, <2>4 DEF Sound
  <1>2. ASSUME NEW next \in Run, next = [run EXCEPT !.phase = "poll", !.kept = run.spent],
               run.phase = "write"
        PROVE  Sound(next, total)
    <2>1. /\ next.phase = "poll" /\ next.loaded = run.loaded /\ next.base = run.base
          /\ next.latest = run.latest /\ next.done = run.done /\ next.attempt = run.attempt
          /\ next.steps = run.steps /\ next.judged = run.judged /\ next.spent = run.spent
          /\ next.kept = run.spent
          /\ next.blind = run.blind
      BY <1>2 DEF Run
    <2>2. Counted(next) /\ RowsPaid(next) /\ Fresh(next) /\ next.loaded <= Cap
      BY <1>2, <2>1, CostTypes DEF Sound, Counted, RowsPaid, Fresh, InLoop, Run
    <2>3. next.blind \/ Watched(next, total)
      BY <1>2, <2>1 DEF Sound, Watched, InLoop
    <2>4. QED
      BY <2>2, <2>3 DEF Sound
  <1>3. \A phase \in {"judge", "write"} : [run EXCEPT !.phase = phase] \in Run
    BY DEF Run, Phases
  <1>4. [run EXCEPT !.phase = "poll", !.kept = run.spent] \in Run
    <2>1. run.spent \in Nat
      BY DEF Run
    <2>2. QED
      BY <2>1 DEF Run, Phases
  <1>5. ASSUME NEW phase \in {"judge", "write"}, run.phase = "turn" \/ (run.phase = "judge" /\ phase = "write")
        PROVE  Sound([run EXCEPT !.phase = phase], total)
    BY <1>1, <1>3, <1>5
  <1>6. run.phase = "write" => Sound([run EXCEPT !.phase = "poll", !.kept = run.spent], total)
    BY <1>2, <1>4
  <1>7. run.phase = "turn" => Sound([run EXCEPT !.phase = "judge"], total)
    BY <1>5
  <1>8. run.phase \in {"turn", "judge"} => Sound([run EXCEPT !.phase = "write"], total)
    BY <1>5
  <1>9. QED
    BY <1>6, <1>7, <1>8

\* An exception leaves the example in flight uncounted.
LEMMA SoundRaise ==
  ASSUME NEW run \in Run, NEW total \in Nat, Sound(run, total), InLoop(run) \/ run.phase = "asked"
  PROVE  Sound([run EXCEPT !.phase = "commit", !.raised = TRUE], total)
  <1> DEFINE next == [run EXCEPT !.phase = "commit", !.raised = TRUE]
  <1>1. /\ next.phase = "commit" /\ next.loaded = run.loaded /\ next.base = run.base
        /\ next.latest = run.latest /\ next.done = run.done /\ next.attempt = run.attempt
        /\ next.steps = run.steps /\ next.judged = run.judged /\ next.spent = run.spent
        /\ next.kept = run.kept
        /\ next.blind = run.blind /\ next.raised = TRUE
    BY DEF Run
  <1> HIDE DEF next
  <1>2. Counted(next) /\ RowsPaid(next) /\ Fresh(next) /\ next.loaded <= Cap
    BY <1>1 DEF Sound, Counted, RowsPaid, Fresh, InLoop
  <1>3. next.blind \/ Watched(next, total)
    BY <1>1, CostTypes, EvalAssumption DEF Sound, Watched, Fresh, InLoop, Run
  <1>4. QED
    BY <1>2, <1>3 DEF Sound, next

\* The first total, before the first example.
LEMMA SoundCreate ==
  ASSUME NEW run \in Run, NEW total \in Nat, NEW answered \in BOOLEAN, Sound(run, total),
         run.phase = "asked",
         NEW polled \in Nat, answered => polled = total
  PROVE  Sound([Observed(run, polled) EXCEPT !.phase = "turn", !.blind = @ \/ ~answered], total)
  <1> DEFINE next == [Observed(run, polled) EXCEPT !.phase = "turn", !.blind = @ \/ ~answered]
  <1>1. run.base = Unset /\ run.done = 0 /\ run.spent = 0 /\ run.kept = 0 /\ run.latest = 0
    BY DEF Sound, Fresh
  <1>2. Observed(run, polled) = [run EXCEPT !.base = polled, !.latest = 0]
    <2>1. PICK base \in Nat, latest \in Nat :
            /\ base = IF run.base = Unset THEN polled ELSE run.base
            /\ latest = IF polled > base THEN polled - base ELSE 0
            /\ Observed(run, polled) = [run EXCEPT !.base = base, !.latest = latest]
      BY ObservedFacts
    <2>2. base = polled /\ latest = 0
      BY <1>1, <2>1
    <2>3. QED
      BY <2>1, <2>2
  <1>3. /\ next.phase = "turn" /\ next.loaded = run.loaded /\ next.base = polled
        /\ next.latest = 0 /\ next.done = 0 /\ next.attempt = run.attempt
        /\ next.steps = run.steps /\ next.judged = run.judged /\ next.spent = 0
        /\ next.kept = 0
        /\ next.blind = (run.blind \/ ~answered)
    BY <1>1, <1>2 DEF Run
  <1>4. next \in Run
    <2>1. (run.blind \/ ~answered) \in BOOLEAN
      BY DEF Run
    <2>2. next = [run EXCEPT !.base = polled, !.latest = 0, !.phase = "turn",
                             !.blind = (run.blind \/ ~answered)]
      BY <1>2 DEF Run
    <2> HIDE DEF next
    <2>3. QED
      BY <2>1, <2>2 DEF Run, Phases
  <1> HIDE DEF next
  <1>5. Counted(next)
    BY <1>3, EvalAssumption DEF Sound, Counted
  <1>6. Flight(next) \in Nat
    BY <1>4, <1>5, FlightFacts DEF Counted
  <1>7. RowsPaid(next) /\ Fresh(next) /\ next.loaded <= Cap
    BY <1>3, <1>6, CostTypes DEF Sound, RowsPaid, Fresh
  <1>8. next.blind \/ Watched(next, total)
    <2>1. ASSUME ~next.blind
          PROVE  Watched(next, total)
      <3>1. polled = total /\ next.loaded <= Cap /\ next.loaded \in Nat
        BY <1>3, <2>1 DEF Sound, Run
      <3>2. QED
        BY <1>3, <3>1, CostTypes DEF Watched, InLoop, Unset
    <2>2. QED
      BY <2>1
  <1>9. QED
    BY <1>5, <1>7, <1>8 DEF Sound, next

\* A check that sees the total lets the next example in only under the cap.
LEMMA SoundCheck ==
  ASSUME NEW run \in Run, NEW total \in Nat, NEW answered \in BOOLEAN, Sound(run, total),
         run.phase = "poll",
         NEW polled \in Nat, answered => polled = total,
         NEW seen \in Run,
         seen = [Observed(run, polled) EXCEPT !.done = @ + 1, !.attempt = 1, !.steps = 0,
                                              !.judged = 0, !.blind = @ \/ ~answered]
  PROVE  Sound([seen EXCEPT !.phase = IF Over(seen) \/ seen.done = Examples THEN "commit" ELSE "turn"],
               total)
  <1> DEFINE over == Over(seen) \/ seen.done = Examples
             next == [seen EXCEPT !.phase = IF over THEN "commit" ELSE "turn"]
  <1>1. PICK base \in Nat, latest \in Nat :
          /\ base = IF run.base = Unset THEN polled ELSE run.base
          /\ latest = IF polled > base THEN polled - base ELSE 0
          /\ Observed(run, polled) = [run EXCEPT !.base = base, !.latest = latest]
    BY ObservedFacts
  <1>2. /\ seen.loaded = run.loaded /\ seen.base = base
        /\ seen.latest = latest /\ seen.done = run.done + 1 /\ seen.attempt = 1
        /\ seen.steps = 0 /\ seen.judged = 0 /\ seen.spent = run.spent
        /\ seen.kept = run.kept
        /\ seen.blind = (run.blind \/ ~answered)
    BY <1>1 DEF Run
  <1>3. /\ next.phase = IF over THEN "commit" ELSE "turn"
        /\ next.loaded = seen.loaded /\ next.base = seen.base
        /\ next.latest = seen.latest /\ next.done = seen.done /\ next.attempt = seen.attempt
        /\ next.steps = seen.steps /\ next.judged = seen.judged /\ next.spent = seen.spent
        /\ next.kept = seen.kept /\ next.blind = seen.blind
    BY DEF Run
  <1>4. next \in Run
    <2>1. \A phase \in {"commit", "turn"} : [seen EXCEPT !.phase = phase] \in Run
      BY DEF Run, Phases
    <2> HIDE DEF over
    <2>2. QED
      BY <2>1
  <1>5. ~over => seen.loaded + seen.latest <= Cap /\ seen.done # Examples
    <2>1. seen.loaded \in Nat /\ seen.latest \in Nat
      BY DEF Run
    <2>2. ~Over(seen) => seen.loaded + seen.latest <= Cap
      BY <2>1, EvalAssumption DEF Over
    <2>3. QED
      BY <2>2
  <1> HIDE DEF next, over
  <1>6. Counted(next)
    BY <1>2, <1>3, <1>5, EvalAssumption DEF Sound, Counted, InLoop, Run
  <1>7. Flight(next) \in Nat
    BY <1>4, <1>6, FlightFacts DEF Counted
  <1>8. /\ run.kept = run.spent
        /\ run.spent <= (run.done + 1) * PerExample /\ run.spent <= PerRun
        /\ run.done \in Nat /\ run.spent \in Nat
    BY DEF Sound, RowsPaid, InLoop, Run
  <1>9. (run.done + 1 + 1) * PerExample = (run.done + 1) * PerExample + PerExample
        /\ (run.done + 1) * PerExample \in Nat
    <2>1. \A done \in Nat : /\ (done + 1) * PerExample = done * PerExample + PerExample
                           /\ done * PerExample \in Nat
      BY CostTypes, ProductStep, ProductType
    <2>2. run.done + 1 \in Nat
      BY <1>8
    <2>3. QED
      BY <2>1, <2>2
  <1>10. RowsPaid(next)
    BY <1>2, <1>3, <1>7, <1>8, <1>9, CostTypes DEF RowsPaid, InLoop
  <1>11. Fresh(next) /\ next.loaded <= Cap
    BY <1>2, <1>3 DEF Sound, Fresh
  <1>12. ASSUME ~next.blind
         PROVE  Watched(next, total)
    <2>1. /\ ~run.blind /\ polled = total
          /\ Watched(run, total)
      BY <1>2, <1>3, <1>12 DEF Sound
    <2>2. /\ base = run.base /\ run.base + run.spent <= total
          /\ run.loaded + run.latest <= Cap /\ run.spent <= run.latest + PerExample
      BY <1>1, <2>1 DEF Watched, InLoop
    <2>3. run.spent <= latest
      BY <1>1, <1>8, <2>1, <2>2
    <2>4. next.loaded + next.spent <= Cap + PerExample
      BY <1>2, <1>3, <1>8, <2>2, CostTypes, EvalAssumption DEF Run
    <2>5. CASE over
      BY <1>2, <1>3, <1>8, <2>3, <2>4, <2>5, CostTypes DEF Watched, InLoop
    <2>6. CASE ~over
      BY <1>1, <1>2, <1>3, <1>5, <1>8, <2>2, <2>3, <2>6, CostTypes DEF Watched, InLoop, Unset
    <2>7. QED
      BY <2>5, <2>6
  <1>13. QED
    BY <1>6, <1>10, <1>11, <1>12 DEF Sound, next, over

\* Each run pays within its bounds, and, while it can trust the gateway's total, stops
\* in time, whatever the other runs and the gateway's other clients do.
THEOREM RunsSound == Spec => []RunInv
<1>1. Init => RunInv
  BY SoundNoRun DEF Init, RunInv
<1>2. TypeOK /\ TypeOK' /\ RunInv /\ [Next]_evalVars => RunInv'
  <2> SUFFICES ASSUME TypeOK, TypeOK', RunInv, [Next]_evalVars
               PROVE  RunInv'
    OBVIOUS
  <2>1. /\ stats \in Nat /\ stats' \in Nat
        /\ \A h \in Harnesses : runs[h] \in Run /\ runs'[h] \in Run /\ Sound(runs[h], stats)
    BY DEF TypeOK, RunInv
  \* A step of one run leaves the others as they are, and the total no smaller.
  <2>2. ASSUME NEW h \in Harnesses, NEW run, RunTo(h, run), stats <= stats', Sound(run, stats')
        PROVE  RunInv'
    <3>1. /\ runs'[h] = run
          /\ \A g \in Harnesses \ {h} : runs'[g] = runs[g]
      BY <2>2, RunToEffect
    <3>2. \A g \in Harnesses : Sound(runs'[g], stats')
      BY <2>1, <2>2, <3>1, SoundGrows
    <3>3. QED
      BY <3>2 DEF RunInv
  <2>3. ASSUME NEW h \in Harnesses, Start(h)
        PROVE  RunInv'
    <3> DEFINE next == [NoRun EXCEPT !.phase = "asked", !.loaded = ledger]
    <3>1. ledger <= Cap
      BY <2>3, EvalAssumption DEF Start, Admitted, TypeOK
    <3>2. /\ next.phase = "asked" /\ next.loaded = ledger /\ next.base = Unset /\ next.latest = 0
          /\ next.done = 0 /\ next.attempt = 1 /\ next.steps = 0 /\ next.judged = 0
          /\ next.spent = 0 /\ next.kept = 0
      BY DEF NoRun
    <3> HIDE DEF next
    <3>3. Counted(next)
      BY <3>2, EvalAssumption DEF Counted, InLoop
    <3>4. RowsPaid(next) /\ Fresh(next) /\ Watched(next, stats)
      BY <3>2, CostTypes DEF RowsPaid, Fresh, Watched, InLoop
    <3>5. Sound(next, stats)
      BY <3>1, <3>2, <3>3, <3>4 DEF Sound
    <3>6. RunTo(h, next) /\ stats' = stats
      BY <2>3 DEF Start, next
    <3>7. QED
      BY <2>1, <2>2, <3>5, <3>6
  <2>4. ASSUME NEW h \in Harnesses, Refuse(h) \/ Kill(h) \/ Commit(h)
        PROVE  RunInv'
    <3>1. RunTo(h, NoRun) /\ stats' = stats
      BY <2>4 DEF Refuse, Kill, Commit
    <3>2. QED
      BY <2>1, <2>2, <3>1, SoundNoRun
  <2>5. ASSUME NEW h \in Harnesses, NEW answered \in BOOLEAN, Create(h, answered)
        PROVE  RunInv'
    <3>1. /\ RunTo(h, [Observed(runs[h], Polled(answered)) EXCEPT !.phase = "turn", !.blind = @ \/ ~answered])
          /\ stats' = stats /\ runs[h].phase = "asked"
      BY <2>5 DEF Create, TakeBaseline
    <3>2. Polled(answered) \in Nat /\ (answered => Polled(answered) = stats)
      BY <2>1 DEF Polled
    <3> DEFINE polled == Polled(answered)
               next == [Observed(runs[h], polled) EXCEPT !.phase = "turn", !.blind = @ \/ ~answered]
    <3>3. runs[h] \in Run /\ Sound(runs[h], stats) /\ polled \in Nat /\ (answered => polled = stats)
      BY <2>1, <3>2
    <3> HIDE DEF polled
    <3>4. Sound(next, stats)
      BY <2>1, <3>1, <3>3, SoundCreate
    <3>5. RunTo(h, next)
      BY <3>1 DEF polled
    <3> HIDE DEF next
    <3>6. QED
      BY <2>1, <2>2, <3>1, <3>4, <3>5
  <2>6. ASSUME NEW h \in Harnesses, NEW cost \in 1 .. MaxCost, TurnCall(h, cost) \/ JudgeCall(h, cost)
        PROVE  RunInv'
    <3> DEFINE run == runs[h]
               turned == [run EXCEPT !.steps = @ + 1, !.spent = @ + cost]
               judged == [run EXCEPT !.judged = @ + 1, !.spent = @ + cost]
    <3>1. run \in Run /\ Sound(run, stats) /\ Counted(run)
      BY <2>1 DEF Sound
    <3>2. stats' = stats + cost /\ stats <= stats'
      BY <2>1, <2>6 DEF TurnCall, JudgeCall, Pay
    <3>3. PICK next \in {turned, judged} :
            /\ RunTo(h, next) /\ run.phase \in {"turn", "judge"}
            /\ next.steps \in 0 .. MaxSteps + 1 /\ next.judged \in 0 .. JudgeCalls
      <4>1. CASE TurnCall(h, cost)
        <5>1. RunTo(h, turned)
          <6>1. RunTo(h, [[run EXCEPT !.steps = @ + 1] EXCEPT !.spent = @ + cost])
            BY <4>1 DEF TurnCall, Pay
          <6>2. [[run EXCEPT !.steps = @ + 1] EXCEPT !.spent = @ + cost] = turned
            BY <3>1 DEF Run
          <6>3. QED
            BY <6>1, <6>2
        <5>2. turned.steps \in 0 .. MaxSteps + 1 /\ turned.judged \in 0 .. JudgeCalls
          BY <3>1, <4>1, EvalAssumption DEF Counted, TurnCall, Run
        <5>3. QED
          BY <4>1, <5>1, <5>2 DEF TurnCall
      <4>2. CASE JudgeCall(h, cost)
        <5>1. RunTo(h, judged)
          <6>1. RunTo(h, [[run EXCEPT !.judged = @ + 1] EXCEPT !.spent = @ + cost])
            BY <4>2 DEF JudgeCall, Pay
          <6>2. [[run EXCEPT !.judged = @ + 1] EXCEPT !.spent = @ + cost] = judged
            BY <3>1 DEF Run
          <6>3. QED
            BY <6>1, <6>2
        <5>2. judged.steps \in 0 .. MaxSteps + 1 /\ judged.judged \in 0 .. JudgeCalls
          BY <3>1, <4>2, EvalAssumption DEF Counted, JudgeCall, Run
        <5>3. QED
          BY <4>2, <5>1, <5>2 DEF JudgeCall
      <4>3. QED
        BY <2>6, <4>1, <4>2
    <3>4. next \in Run
      <4>1. runs'[h] = next
        BY <3>3, RunToEffect
      <4>2. QED
        BY <2>1, <4>1
    <3> HIDE DEF run
    <3>5. Sound(next, stats')
      BY <2>1, <3>1, <3>2, <3>3, <3>4, SoundPay
    <3>6. QED
      BY <2>2, <3>2, <3>3, <3>5
  <2>7. ASSUME NEW h \in Harnesses, Turn(h) \/ Judge(h) \/ Write(h) \/ Timeout(h) \/ Raise(h)
        PROVE  RunInv'
    <3>1. PICK next :
            /\ RunTo(h, next) /\ stats' = stats
            /\ \/ /\ runs[h].phase = "turn" /\ runs[h].attempt < MaxRetries
                  /\ next = [runs[h] EXCEPT !.attempt = @ + 1, !.steps = 0]
               \/ runs[h].phase = "turn" /\ next = [runs[h] EXCEPT !.phase = "judge"]
               \/ runs[h].phase \in {"turn", "judge"} /\ next = [runs[h] EXCEPT !.phase = "write"]
               \/ runs[h].phase = "write" /\ next = [runs[h] EXCEPT !.phase = "poll", !.kept = runs[h].spent]
               \/ /\ InLoop(runs[h]) \/ runs[h].phase = "asked"
                  /\ next = [runs[h] EXCEPT !.phase = "commit", !.raised = TRUE]
      <4>1. CASE Turn(h)
        BY <4>1 DEF Turn
      <4>2. CASE Judge(h)
        BY <4>2 DEF Judge
      <4>3. CASE Write(h)
        BY <4>3 DEF Write, Kept
      <4>4. CASE Timeout(h)
        BY <4>4 DEF Timeout, InLoop
      <4>5. CASE Raise(h)
        BY <4>5 DEF Raise, InLoop
      <4>6. QED
        BY <2>7, <4>1, <4>2, <4>3, <4>4, <4>5
    <3>2. Sound(next, stats)
      <4> DEFINE run == runs[h]
      <4>1. run \in Run /\ Sound(run, stats)
        BY <2>1
      <4> HIDE DEF run
      <4>2. /\ InLoop(run) \/ run.phase = "asked" =>
                 Sound([run EXCEPT !.phase = "commit", !.raised = TRUE], stats)
            /\ run.phase = "turn" /\ run.attempt < MaxRetries =>
                 Sound([run EXCEPT !.attempt = @ + 1, !.steps = 0], stats)
        BY <2>1, <4>1, SoundRaise, SoundRetry
      <4>3. /\ run.phase = "turn" => Sound([run EXCEPT !.phase = "judge"], stats)
            /\ run.phase \in {"turn", "judge"} => Sound([run EXCEPT !.phase = "write"], stats)
            /\ run.phase = "write" => Sound([run EXCEPT !.phase = "poll", !.kept = run.spent], stats)
        BY <2>1, <4>1, SoundOn
      <4>4. QED
        BY <3>1, <4>2, <4>3 DEF run
    <3>3. QED
      BY <2>1, <2>2, <3>1, <3>2
  <2>8. ASSUME NEW h \in Harnesses, NEW answered \in BOOLEAN, Check(h, answered)
        PROVE  RunInv'
    <3> DEFINE observed == Observed(runs[h], Polled(answered))
               seen == [observed EXCEPT !.done = @ + 1, !.attempt = 1, !.steps = 0,
                                        !.judged = 0, !.blind = @ \/ ~answered]
               next == [seen EXCEPT !.phase = IF Over(seen) \/ seen.done = Examples THEN "commit" ELSE "turn"]
    <3>1. RunTo(h, next) /\ stats' = stats /\ runs[h].phase = "poll"
      BY <2>8 DEF Check, Poll
    <3>2. Polled(answered) \in Nat /\ (answered => Polled(answered) = stats)
      BY <2>1 DEF Polled
    <3>3. seen \in Run
      <4>1. observed \in Run
        BY <2>1, <3>2, ObservedFacts
      <4> HIDE DEF observed
      <4>2. observed.done + 1 \in Nat /\ (observed.blind \/ ~answered) \in BOOLEAN
        BY <4>1 DEF Run
      <4>3. QED
        BY <4>1, <4>2 DEF Run
    <3>4. Sound(next, stats)
      BY <2>1, <3>1, <3>2, <3>3, SoundCheck
    <3> HIDE DEF next
    <3>5. QED
      BY <2>1, <2>2, <3>1, <3>4
  <2>9. CASE Restart
    <3>1. \A h \in Harnesses : runs'[h] = [runs[h] EXCEPT !.blind = @ \/ runs[h].phase # "idle"]
      BY <2>9 DEF Restart, Active
    <3>2. ASSUME NEW h \in Harnesses
          PROVE  Sound(runs'[h], stats')
      <4> DEFINE run == runs[h]
      <4>1. run \in Run /\ Sound(run, stats)
        BY <2>1
      <4>2. runs'[h] = [run EXCEPT !.blind = @ \/ run.phase # "idle"]
        BY <3>1
      <4> HIDE DEF run
      <4>3. Sound([run EXCEPT !.blind = @ \/ run.phase # "idle"], stats')
        BY <2>1, <4>1, SoundBlind
      <4>4. QED
        BY <4>2, <4>3
    <3>3. QED
      BY <3>2 DEF RunInv
  <2>10. CASE Traffic \/ (\E cost \in 1 .. MaxCost : Answer(cost)) \/ UNCHANGED evalVars
    <3>1. runs' = runs /\ stats <= stats'
      BY <2>1, <2>10 DEF Traffic, Answer, evalVars
    <3>2. \A h \in Harnesses : Sound(runs[h], stats')
      BY <2>1, <3>1, SoundGrows
    <3>3. \A h \in Harnesses : runs'[h] = runs[h]
      BY <3>1
    <3>4. \A h \in Harnesses : Sound(runs'[h], stats')
      BY <3>2, <3>3
    <3>5. QED
      BY <3>4 DEF RunInv
  <2>11. QED
    BY <2>3, <2>4, <2>5, <2>6, <2>7, <2>8, <2>9, <2>10 DEF Next, Harness
<1>3. QED
  BY <1>1, <1>2, TypeCorrect, PTL DEF Spec

\* The hard stop, for every run and whatever else uses the gateway.
THEOREM HardStop == Spec => []RunBounded
<1>1. TypeOK /\ RunInv => RunBounded
  <2> SUFFICES ASSUME TypeOK, RunInv, NEW h \in Harnesses, Active(h), ~runs[h].blind
               PROVE  runs[h].loaded + runs[h].spent <= Cap + PerExample
    BY DEF RunBounded
  <2> DEFINE run == runs[h]
  <2>1. run \in Run /\ Sound(run, stats) /\ Watched(run, stats)
    BY DEF TypeOK, RunInv, Sound
  <2>2. run.phase # "idle"
    BY DEF Active
  <2> HIDE DEF run
  <2>3. run.loaded + run.spent <= Cap + PerExample
    BY <2>1, <2>2, CostTypes, EvalAssumption DEF Sound, Watched, Fresh, InLoop, Run, Phases
  <2>4. QED
    BY <2>3 DEF run
<1>2. QED
  BY <1>1, TypeCorrect, RunsSound, PTL

\* What the ledger is told covers what the run spent.
THEOREM RecordCovers == Spec => []Covered
<1>1. RunInv => Covered
  BY DEF RunInv, Sound, Watched, Covered
<1>2. QED
  BY <1>1, RunsSound, PTL

\* A crash costs the example in flight and nothing else.
THEOREM LostExample == Spec => []OneExampleLost
<1>1. RunInv => OneExampleLost
  BY DEF RunInv, Sound, RowsPaid, OneExampleLost
<1>2. QED
  BY <1>1, RunsSound, PTL

-----------------------------------------------------------------------------
(***************************************************************************)
(* The books of all runs, as long as they do not overlap: what was billed, *)
(* and the calls nobody waits for, against the ledger, the run at hand and *)
(* the allowance the incidents so far have earned.                         *)
(***************************************************************************)
Owed  == billed + late * MaxCost
Slack == failures * PerExample + timeouts * MaxCost + faults * PerRun

\* What the incidents of a run at hand have earned and its record may leave out.
Reserve(run) == (IF run.blind THEN PerRun ELSE 0) + (IF run.raised THEN PerExample ELSE 0)

Alone   == \A g, h \in Harnesses : Active(g) /\ Active(h) => g = h
Settled == (\A h \in Harnesses : ~Active(h)) => Owed <= ledger + Slack
AtHand  == \A h \in Harnesses : Active(h) =>
             /\ runs[h].loaded = ledger
             /\ Owed + Reserve(runs[h]) <= runs[h].loaded + runs[h].spent + Slack
Books == ~overlapped => Alone /\ Settled /\ AtHand /\ Owed <= Cap + PerExample + Slack

\* The sums are numbers, and grow by one product at a time.
BookType ==
  /\ Owed \in Nat /\ Slack \in Nat
  /\ failures * PerExample \in Nat /\ timeouts * MaxCost \in Nat
  /\ faults * PerRun \in Nat /\ late * MaxCost \in Nat

\* Types of the sums.
LEMMA BookTypes == TypeOK => BookType
  <1> SUFFICES ASSUME TypeOK
               PROVE  BookType
    OBVIOUS
  <1>1. /\ failures \in Nat /\ timeouts \in Nat /\ faults \in Nat /\ late \in Nat /\ billed \in Nat
    BY EvalAssumption DEF TypeOK
  <1>2. /\ failures * PerExample \in Nat /\ timeouts * MaxCost \in Nat
        /\ faults * PerRun \in Nat /\ late * MaxCost \in Nat
    BY <1>1, CostTypes, ProductType, EvalAssumption
  <1>3. QED
    BY <1>1, <1>2, CostTypes DEF Owed, Slack, BookType

\* What one step adds to the two sums.
LEMMA BookSums ==
  ASSUME TypeOK, TypeOK'
  PROVE  /\ UNCHANGED <<failures, timeouts, faults>> => Slack' = Slack
         /\ failures' = failures + 1 /\ UNCHANGED <<timeouts, faults>> => Slack' = Slack + PerExample
         /\ timeouts' = timeouts + 1 /\ UNCHANGED <<failures, faults>> => Slack' = Slack + MaxCost
         /\ timeouts' = timeouts + 1 /\ failures' = failures + 1 /\ UNCHANGED faults =>
              Slack' = Slack + MaxCost + PerExample
         /\ faults' = faults + 1 /\ UNCHANGED <<failures, timeouts>> => Slack' = Slack + PerRun
         /\ UNCHANGED <<billed, late>> => Owed' = Owed
         /\ \A cost \in Nat : billed' = billed + cost /\ UNCHANGED late => Owed' = Owed + cost
         /\ late' = late + 1 /\ UNCHANGED billed => Owed' = Owed + MaxCost
         /\ \A cost \in Nat : late' = late - 1 /\ billed' = billed + cost => Owed' + MaxCost = Owed + cost
         /\ late' = 0 /\ UNCHANGED billed => Owed' <= Owed
  <1> DEFINE failed == failures * PerExample
             timed == timeouts * MaxCost
             faulty == faults * PerRun
             waiting == late * MaxCost
  <1>1. /\ failures \in Nat /\ timeouts \in Nat /\ faults \in Nat /\ late \in Nat /\ late' \in Nat
        /\ billed \in Nat
    BY EvalAssumption DEF TypeOK
  <1>2. late' = late - 1 => late = late' + 1
    BY <1>1
  <1>3. /\ failures' = failures + 1 => failed' = failed + PerExample
        /\ failures' = failures => failed' = failed
    BY <1>1, CostTypes, ProductStep
  <1>4. /\ faults' = faults + 1 => faulty' = faulty + PerRun
        /\ faults' = faults => faulty' = faulty
    BY <1>1, CostTypes, ProductStep
  <1>5. /\ timeouts' = timeouts + 1 => timed' = timed + MaxCost
        /\ timeouts' = timeouts => timed' = timed
    BY <1>1, ProductStep, EvalAssumption
  <1>6. /\ late' = late + 1 => waiting' = waiting + MaxCost
        /\ late' = late - 1 => waiting = waiting' + MaxCost
        /\ late' = late => waiting' = waiting
    BY <1>1, <1>2, ProductStep, EvalAssumption
  <1>7. late' = 0 => waiting' = 0
    BY EvalAssumption
  <1>8. /\ failed \in Nat /\ timed \in Nat /\ faulty \in Nat /\ waiting \in Nat /\ waiting' \in Nat
    BY <1>1, CostTypes, ProductType, EvalAssumption
  <1>9. /\ Slack = failed + timed + faulty /\ Slack' = failed' + timed' + faulty'
        /\ Owed = billed + waiting /\ Owed' = billed' + waiting'
    BY DEF Slack, Owed
  <1> HIDE DEF failed, timed, faulty, waiting
  <1>10. /\ UNCHANGED <<failures, timeouts, faults>> => Slack' = Slack
         /\ failures' = failures + 1 /\ UNCHANGED <<timeouts, faults>> => Slack' = Slack + PerExample
         /\ timeouts' = timeouts + 1 /\ UNCHANGED <<failures, faults>> => Slack' = Slack + MaxCost
         /\ timeouts' = timeouts + 1 /\ failures' = failures + 1 /\ UNCHANGED faults =>
              Slack' = Slack + MaxCost + PerExample
         /\ faults' = faults + 1 /\ UNCHANGED <<failures, timeouts>> => Slack' = Slack + PerRun
    BY <1>3, <1>4, <1>5, <1>8, <1>9, CostTypes, EvalAssumption
  <1>11. /\ UNCHANGED <<billed, late>> => Owed' = Owed
         /\ late' = late + 1 /\ UNCHANGED billed => Owed' = Owed + MaxCost
         /\ late' = 0 /\ UNCHANGED billed => Owed' <= Owed
    BY <1>1, <1>6, <1>7, <1>8, <1>9, EvalAssumption
  <1>12. ASSUME NEW cost \in Nat, billed' = billed + cost
         PROVE  /\ late' = late => Owed' = Owed + cost
                /\ late' = late - 1 => Owed' + MaxCost = Owed + cost
    <2>1. MaxCost \in Nat
      BY EvalAssumption
    <2>2. ASSUME late' = late
          PROVE  Owed' = Owed + cost
      <3>1. waiting' = waiting
        BY <1>6, <2>2
      <3>2. Owed' = (billed + cost) + waiting
        BY <1>9, <1>12, <3>1, Zenon
      <3>3. (billed + cost) + waiting = (billed + waiting) + cost
        BY <1>1, <1>8, Added
      <3>4. QED
        BY <1>9, <3>2, <3>3, Zenon
    <2>3. ASSUME late' = late - 1
          PROVE  Owed' + MaxCost = Owed + cost
      <3>1. waiting = waiting' + MaxCost
        BY <1>6, <2>3
      <3>2. Owed = billed + (waiting' + MaxCost) /\ Owed' = (billed + cost) + waiting'
        BY <1>9, <1>12, <3>1, Zenon
      <3>3. ((billed + cost) + waiting') + MaxCost = (billed + (waiting' + MaxCost)) + cost
        <4>1. billed \in Nat /\ cost \in Nat /\ waiting' \in Nat /\ MaxCost \in Nat
          BY <1>1, <1>8, <2>1
        <4>2. ASSUME NEW v \in Nat
              PROVE  ((billed + cost) + v) + MaxCost = (billed + (v + MaxCost)) + cost
          BY <4>1, Repaid
        <4>3. QED
          BY <4>1, <4>2, Zenon
      <3>4. QED
        BY <3>2, <3>3, Zenon
    <2>4. QED
      BY <2>2, <2>3
  <1>13. QED
    BY <1>10, <1>11, <1>12

\* A step of the run at hand that costs and earns at least as much as it owes.
LEMMA BooksGoOn ==
  ASSUME TypeOK, TypeOK', RunInv', Books, ~overlapped, ~overlapped', ledger' = ledger,
         NEW h \in Harnesses, NEW run \in Run, NEW next \in Run,
         runs[h] = run, RunTo(h, next),
         run.phase # "idle", next.phase # "idle", next.loaded = run.loaded,
         Owed' + Reserve(next) + run.spent + Slack <= Owed + Reserve(run) + next.spent + Slack'
  PROVE  Books'
  <1>1. /\ runs'[h] = next
        /\ \A g \in Harnesses \ {h} : runs'[g] = runs[g]
    BY RunToEffect
  <1>2. \A g \in Harnesses : Active(g)' => g = h
    BY <1>1 DEF Books, Alone, Active
  <1>3. /\ Owed \in Nat /\ Owed' \in Nat /\ Slack \in Nat /\ Slack' \in Nat
        /\ Reserve(run) \in Nat /\ Reserve(next) \in Nat
        /\ run.loaded \in Nat /\ run.spent \in Nat /\ next.spent \in Nat
    <2>1. BookType /\ BookType'
      BY BookTypes, PTL
    <2>2. /\ Reserve(run) \in Nat /\ Reserve(next) \in Nat
          /\ run.loaded \in Nat /\ run.spent \in Nat /\ next.spent \in Nat
      BY CostTypes DEF Reserve, Run
    <2>3. QED
      BY <2>1, <2>2 DEF BookType
  <1>4. run.loaded = ledger /\ Owed + Reserve(run) <= run.loaded + run.spent + Slack
    BY DEF Books, AtHand, Active
  <1>5. next.loaded = ledger' /\ Owed' + Reserve(next) <= next.loaded + next.spent + Slack'
    BY <1>3, <1>4
  <1>6. Sound(next, stats')
    BY <1>1 DEF RunInv
  <1>7. Owed' <= Cap + PerExample + Slack'
    <2>1. CASE next.blind
      <3>1. next.loaded <= Cap /\ next.spent <= PerRun /\ Reserve(next) >= PerRun
        BY <1>6, <2>1, CostTypes DEF Sound, RowsPaid, Reserve
      <3>2. QED
        BY <1>3, <1>5, <3>1, CostTypes, EvalAssumption
    <2>2. CASE ~next.blind
      <3>1. next.loaded + next.spent <= Cap + PerExample
        BY <1>6, <2>2, CostTypes, EvalAssumption DEF Sound, Watched, Fresh, InLoop, Run, Phases
      <3>2. QED
        BY <1>3, <1>5, <3>1, CostTypes, EvalAssumption
    <2>3. QED
      BY <2>1, <2>2
  <1>8. Alone' /\ Settled' /\ AtHand'
    <2>1. Active(h)'
      BY <1>1 DEF Active
    <2>2. runs'[h].loaded = ledger' /\ Owed' + Reserve(runs'[h]) <= runs'[h].loaded + runs'[h].spent + Slack'
      BY <1>1, <1>5
    <2>3. Alone'
      BY <1>2 DEF Alone
    <2>4. Settled'
      BY <2>1 DEF Settled
    <2>5. AtHand'
      BY <1>2, <2>2 DEF AtHand
    <2>6. QED
      BY <2>3, <2>4, <2>5
  <1>9. QED
    BY <1>7, <1>8 DEF Books

\* The end of the run at hand.
LEMMA BooksClose ==
  ASSUME TypeOK, TypeOK', Books, ~overlapped, ~overlapped',
         NEW h \in Harnesses, Active(h), RunTo(h, NoRun),
         Owed' = Owed, Slack <= Slack', Owed <= ledger' + Slack'
  PROVE  Books'
  <1>1. /\ runs'[h] = NoRun
        /\ \A g \in Harnesses \ {h} : runs'[g] = runs[g]
    BY RunToEffect
  <1>2. \A g \in Harnesses : ~Active(g)'
    BY <1>1 DEF Books, Alone, Active, NoRun
  <1>3. Owed <= Cap + PerExample + Slack
    BY DEF Books
  <1>4. Owed' <= Cap + PerExample + Slack'
    <2>1. BookType /\ BookType'
      BY BookTypes, PTL
    <2>2. Owed \in Nat /\ Owed' \in Nat /\ Slack \in Nat /\ Slack' \in Nat
      BY <2>1 DEF BookType
    <2>3. QED
      <3>1. Cap + PerExample \in Nat
        BY CostTypes, EvalAssumption
      <3>2. QED
        BY <1>3, <2>2, <3>1, Widen, Zenon
  <1>5. QED
    BY <1>2, <1>4 DEF Books, Alone, Settled, AtHand

\* The headroom of the cap is enough for what the incidents may cost.
THEOREM CapHolds == Spec => []CapHeld
<1>1. Init => Books
  <2> SUFFICES ASSUME Init
               PROVE  Books
    OBVIOUS
  <2>1. Owed = 0 /\ Slack = 0
    BY CostTypes, EvalAssumption DEF Init, Owed, Slack
  <2>2. \A h \in Harnesses : ~Active(h)
    BY DEF Init, Active, NoRun
  <2>3. ledger = 0
    BY DEF Init
  <2>4. QED
    BY <2>1, <2>2, <2>3, CostTypes, EvalAssumption DEF Books, Alone, Settled, AtHand
<1>2. TypeOK /\ TypeOK' /\ RunInv /\ RunInv' /\ Books /\ [Next]_evalVars => Books'
  <2> SUFFICES ASSUME TypeOK, TypeOK', RunInv, RunInv', Books, [Next]_evalVars, ~overlapped'
               PROVE  Books'
    BY DEF Books
  <2>1. ~overlapped
    BY DEF Next, Harness, Start, Refuse, Turn, Judge, Timeout, Write, Raise, Commit, Create, Check,
           TurnCall, JudgeCall, Pay, Kill, Restart, Answer, Traffic, evalVars, TypeOK
  <2>2. Owed \in Nat /\ Owed' \in Nat /\ Slack \in Nat /\ Slack' \in Nat
    <3>1. BookType /\ BookType'
      BY BookTypes, PTL
    <3>2. QED
      BY <3>1 DEF BookType
  <2>3. \A h \in Harnesses : runs[h] \in Run /\ runs'[h] \in Run /\ Sound(runs[h], stats)
    BY DEF TypeOK, RunInv
  <2>4. ASSUME NEW h \in Harnesses, Start(h)
        PROVE  Books'
    <3> DEFINE next == [NoRun EXCEPT !.phase = "asked", !.loaded = ledger]
    <3>1. \A g \in Harnesses : ~Active(g)
      BY <2>4 DEF Start
    <3>2. Owed' = Owed /\ Slack' = Slack /\ ledger' = ledger /\ RunTo(h, next)
      BY <2>4 DEF Start, Owed, Slack
    <3>3. /\ next.phase = "asked" /\ next.loaded = ledger /\ next.spent = 0
          /\ next.blind = FALSE /\ next.raised = FALSE
      BY DEF NoRun
    <3> HIDE DEF next
    <3>4. /\ runs'[h] = next
          /\ \A g \in Harnesses \ {h} : runs'[g] = runs[g]
      BY <3>2, RunToEffect
    <3>5. Active(h)' /\ \A g \in Harnesses : Active(g)' => g = h
      BY <3>1, <3>3, <3>4 DEF Active
    <3>6. Owed <= ledger + Slack /\ Owed <= Cap + PerExample + Slack
      BY <2>1, <3>1 DEF Books, Settled
    <3>7. Reserve(next) = 0
      BY <3>3 DEF Reserve
    <3>8. runs'[h].loaded = ledger' /\ Owed' + Reserve(runs'[h]) <= runs'[h].loaded + runs'[h].spent + Slack'
      BY <2>2, <3>2, <3>3, <3>4, <3>6, <3>7 DEF TypeOK
    <3>9. Alone' /\ Settled' /\ AtHand'
      BY <3>5, <3>8 DEF Alone, Settled, AtHand
    <3>10. QED
      BY <3>2, <3>6, <3>9 DEF Books
  <2>5. ASSUME NEW h \in Harnesses, Refuse(h) \/ Kill(h) \/ Commit(h)
        PROVE  Books'
    <3> DEFINE run == runs[h]
    <3>1. /\ RunTo(h, NoRun) /\ Active(h) /\ Owed' = Owed
          /\ run \in Run /\ Sound(run, stats)
      BY <2>3, <2>5 DEF Refuse, Kill, Commit, Active, Owed
    <3>2. Owed + Reserve(run) <= run.loaded + run.spent + Slack /\ run.loaded = ledger
      BY <2>1, <3>1 DEF Books, AtHand
    <3> HIDE DEF run
    <3>3. /\ run.loaded \in Nat /\ run.spent \in Nat /\ run.latest \in Nat
          /\ Reserve(run) \in Nat /\ run.spent <= PerRun
      BY <3>1, CostTypes DEF Run, Reserve, Sound, RowsPaid
    <3>4. CASE Refuse(h)
      <4>1. run.spent = 0 /\ ledger' = ledger /\ Slack' = Slack
        BY <3>1, <3>4 DEF Refuse, Sound, Fresh, Slack, run
      <4>2. QED
        BY <2>1, <2>2, <3>1, <3>2, <3>3, <4>1, BooksClose
    <3>5. CASE Kill(h)
      <4>1. ledger' = ledger /\ Slack' = Slack + PerRun
        BY <3>5, BookSums DEF Kill
      <4>2. QED
        BY <2>1, <2>2, <3>1, <3>2, <3>3, <4>1, BooksClose, CostTypes
    <3>6. CASE Commit(h)
      <4>1. ledger' = run.loaded + run.latest /\ Slack' = Slack /\ run.phase = "commit"
        BY <3>6 DEF Commit, Recorded, Slack, run
      <4>2. Owed <= ledger' + Slack
        <5>1. CASE run.blind
          <6>1. Reserve(run) >= PerRun
            BY <5>1, CostTypes DEF Reserve
          <6>2. QED
            BY <2>2, <3>2, <3>3, <4>1, <6>1, CostTypes
        <5>2. CASE ~run.blind
          <6>1. run.spent <= run.latest + Reserve(run)
            <7>1. run.spent <= run.latest + (IF run.raised THEN PerExample ELSE 0)
              BY <3>1, <4>1, <5>2 DEF Sound, Watched
            <7>2. Reserve(run) = 0 + (IF run.raised THEN PerExample ELSE 0)
              BY <5>2 DEF Reserve
            <7>3. QED
              BY <7>1, <7>2, CostTypes
          <6>2. QED
            BY <2>2, <3>2, <3>3, <4>1, <6>1
        <5>3. QED
          BY <5>1, <5>2
      <4>3. QED
        BY <2>1, <2>2, <3>1, <4>1, <4>2, BooksClose
    <3>7. QED
      BY <2>5, <3>4, <3>5, <3>6
  <2>6. ASSUME NEW h \in Harnesses, NEW cost \in 1 .. MaxCost, TurnCall(h, cost) \/ JudgeCall(h, cost)
        PROVE  Books'
    <3> DEFINE run == runs[h]
    <3>1. PICK called \in {[run EXCEPT !.steps = @ + 1], [run EXCEPT !.judged = @ + 1]} :
            Pay(h, cost, called) /\ run.phase # "idle"
      BY <2>6 DEF TurnCall, JudgeCall
    <3> DEFINE next == [called EXCEPT !.spent = @ + cost]
    <3>2. run \in Run
      BY <2>3
    <3> HIDE DEF run
    <3>3. /\ next.phase = run.phase /\ next.loaded = run.loaded /\ next.spent = run.spent + cost
          /\ next.blind = run.blind /\ next.raised = run.raised
      <4>1. CASE called = [run EXCEPT !.steps = @ + 1]
        BY <3>2, <4>1 DEF Run
      <4>2. CASE called = [run EXCEPT !.judged = @ + 1]
        BY <3>2, <4>2 DEF Run
      <4>3. QED
        BY <4>1, <4>2
    <3> HIDE DEF next
    <3>4. RunTo(h, next) /\ Owed' = Owed + cost /\ Slack' = Slack /\ ledger' = ledger
      BY <3>1, BookSums DEF Pay, next
    <3>5. Reserve(next) = Reserve(run) /\ Reserve(run) \in Nat /\ run.spent \in Nat
      BY <3>2, <3>3, CostTypes DEF Reserve, Run
    <3>6. Owed' + Reserve(next) + run.spent + Slack <= Owed + Reserve(run) + next.spent + Slack'
      BY <2>2, <3>3, <3>4, <3>5
    <3>7. runs[h] = run /\ next \in Run
      BY <2>3, <3>4, RunToEffect DEF run
    <3>8. QED
      BY <2>1, <3>1, <3>2, <3>3, <3>4, <3>6, <3>7, BooksGoOn
  \* The remaining steps of a run at hand cost nothing; an incident earns its allowance.
  <2>7. ASSUME NEW h \in Harnesses, NEW run \in Run, runs[h] = run, run.phase # "idle",
               NEW next \in Run, RunTo(h, next), next.phase # "idle",
               next.loaded = run.loaded, next.spent = run.spent, ledger' = ledger,
               \/ Reserve(next) = Reserve(run) /\ Owed' = Owed /\ Slack' = Slack
               \/ Reserve(next) = Reserve(run) /\ Owed' = Owed + MaxCost /\ Slack' = Slack + MaxCost
               \/ Reserve(next) <= Reserve(run) + PerExample /\ Owed' = Owed /\ Slack' = Slack + PerExample
               \/ /\ Reserve(next) <= Reserve(run) + PerExample
                  /\ Owed' = Owed + MaxCost /\ Slack' = Slack + MaxCost + PerExample
               \/ Reserve(next) <= Reserve(run) + PerRun /\ Owed' = Owed /\ Slack' = Slack + PerRun
        PROVE  Books'
    <3>1. Reserve(next) \in Nat /\ Reserve(run) \in Nat /\ run.spent \in Nat
      BY CostTypes DEF Reserve, Run
    <3>2. Owed' + Reserve(next) + run.spent + Slack <= Owed + Reserve(run) + next.spent + Slack'
      BY <2>2, <2>7, <3>1, CostTypes, EvalAssumption
    <3>3. QED
      BY <2>1, <2>7, <3>2, BooksGoOn
  <2>8. ASSUME NEW h \in Harnesses, Turn(h) \/ Judge(h) \/ Write(h)
        PROVE  Books'
    <3> DEFINE run == runs[h]
    <3>1. PICK next \in {[run EXCEPT !.attempt = @ + 1, !.steps = 0], [run EXCEPT !.phase = "write"],
                         [run EXCEPT !.phase = "judge"],
                         [run EXCEPT !.phase = "poll", !.kept = run.spent]} :
            RunTo(h, next) /\ run.phase \in {"turn", "judge", "write"}
      BY <2>8 DEF Turn, Judge, Write, Kept
    <3>2. run \in Run
      BY <2>3
    <3> HIDE DEF run
    <3>3. /\ next.phase # "idle" /\ next.loaded = run.loaded /\ next.spent = run.spent
          /\ next.blind = run.blind /\ next.raised = run.raised
      BY <3>1, <3>2 DEF Run
    <3>4. Reserve(next) = Reserve(run)
      BY <3>3 DEF Reserve
    <3>5. Owed' = Owed /\ Slack' = Slack /\ ledger' = ledger
      BY <2>8, BookSums DEF Turn, Judge, Write
    <3>6. runs[h] = run /\ next \in Run
      BY <2>3, <3>1, RunToEffect DEF run
    <3>7. QED
      BY <2>7, <3>1, <3>2, <3>3, <3>4, <3>5, <3>6
  <2>9. ASSUME NEW h \in Harnesses, Timeout(h) \/ Raise(h)
        PROVE  Books'
    <3> DEFINE run == runs[h]
               broken == [run EXCEPT !.phase = "commit", !.raised = TRUE]
               timed == [run EXCEPT !.phase = "write"]
    <3>1. /\ run.phase # "idle" /\ ledger' = ledger
          /\ \/ RunTo(h, broken) /\ Owed' = Owed /\ Slack' = Slack + PerExample
             \/ RunTo(h, broken) /\ Owed' = Owed + MaxCost /\ Slack' = Slack + MaxCost + PerExample
             \/ RunTo(h, timed) /\ Owed' = Owed + MaxCost /\ Slack' = Slack + MaxCost
      <4>1. CASE Raise(h)
        BY <4>1, BookSums DEF Raise
      <4>2. CASE Timeout(h)
        BY <4>2, BookSums DEF Timeout
      <4>3. QED
        BY <2>9, <4>1, <4>2
    <3>2. run \in Run
      BY <2>3
    <3> HIDE DEF run
    <3>3. /\ broken.phase # "idle" /\ broken.loaded = run.loaded /\ broken.spent = run.spent
          /\ broken.blind = run.blind /\ broken.raised = TRUE
          /\ timed.phase # "idle" /\ timed.loaded = run.loaded /\ timed.spent = run.spent
          /\ timed.blind = run.blind /\ timed.raised = run.raised
      BY <3>2 DEF Run
    <3> HIDE DEF broken, timed
    <3>4. Reserve(timed) = Reserve(run) /\ Reserve(broken) <= Reserve(run) + PerExample
      BY <3>3, CostTypes DEF Reserve
    <3>5. PICK next \in {broken, timed} :
            /\ RunTo(h, next)
            /\ \/ Reserve(next) <= Reserve(run) + PerExample /\ Owed' = Owed /\ Slack' = Slack + PerExample
               \/ /\ Reserve(next) <= Reserve(run) + PerExample
                  /\ Owed' = Owed + MaxCost /\ Slack' = Slack + MaxCost + PerExample
               \/ Reserve(next) = Reserve(run) /\ Owed' = Owed + MaxCost /\ Slack' = Slack + MaxCost
      BY <3>1, <3>4
    <3>6. /\ next.phase # "idle" /\ next.loaded = run.loaded /\ next.spent = run.spent
      BY <3>3, <3>5
    <3>7. runs[h] = run /\ next \in Run
      BY <2>3, <3>5, RunToEffect DEF run
    <3>8. QED
      BY <2>7, <3>1, <3>2, <3>5, <3>6, <3>7
  <2>10. ASSUME NEW h \in Harnesses, NEW answered \in BOOLEAN, Create(h, answered) \/ Check(h, answered)
         PROVE  Books'
    <3> DEFINE run == runs[h]
               next == runs'[h]
    <3>1. Polled(answered) \in Nat
      BY DEF Polled, TypeOK
    <3>2. PICK base \in Nat, latest \in Nat :
            Observed(run, Polled(answered)) = [run EXCEPT !.base = base, !.latest = latest]
      <4>1. run \in Run
        BY <2>3
      <4> HIDE DEF run
      <4> DEFINE polled == Polled(answered)
      <4>2. polled \in Nat
        BY <3>1
      <4> HIDE DEF polled
      <4>3. PICK base \in Nat, latest \in Nat :
              /\ base = IF run.base = Unset THEN polled ELSE run.base
              /\ latest = IF polled > base THEN polled - base ELSE 0
              /\ Observed(run, polled) = [run EXCEPT !.base = base, !.latest = latest]
        BY <4>1, <4>2, ObservedFacts
      <4>4. QED
        BY <4>3 DEF polled
    <3>3. run \in Run /\ next \in Run
      BY <2>3
    <3>4. /\ next.phase # "idle" /\ next.loaded = run.loaded /\ next.spent = run.spent
          /\ next.blind = (run.blind \/ ~answered) /\ next.raised = run.raised
          /\ RunTo(h, next)
      <4>1. CASE Create(h, answered)
        <5> DEFINE first == [[run EXCEPT !.base = base, !.latest = latest]
                               EXCEPT !.phase = "turn", !.blind = @ \/ ~answered]
        <5>1. RunTo(h, first)
          BY <3>2, <4>1 DEF Create, TakeBaseline
        <5>2. next = first
          BY <5>1, RunToEffect
        <5> HIDE DEF next
        <5>3. /\ first.phase = "turn" /\ first.loaded = run.loaded /\ first.spent = run.spent
              /\ first.blind = (run.blind \/ ~answered) /\ first.raised = run.raised
          BY <3>3 DEF Run
        <5>4. QED
          BY <5>1, <5>2, <5>3
      <4>2. CASE Check(h, answered)
        <5> DEFINE seen == [[run EXCEPT !.base = base, !.latest = latest]
                              EXCEPT !.done = @ + 1, !.attempt = 1, !.steps = 0, !.judged = 0,
                                     !.blind = @ \/ ~answered]
                   over == Over(seen) \/ seen.done = Examples
                   checked == [seen EXCEPT !.phase = IF over THEN "commit" ELSE "turn"]
        <5>1. RunTo(h, checked)
          BY <3>2, <4>2 DEF Check, Poll
        <5>2. next = checked
          BY <5>1, RunToEffect
        <5> HIDE DEF next, over
        <5>3. /\ checked.phase # "idle" /\ checked.loaded = run.loaded /\ checked.spent = run.spent
              /\ checked.blind = (run.blind \/ ~answered) /\ checked.raised = run.raised
          BY <3>3 DEF Run
        <5>4. QED
          BY <5>1, <5>2, <5>3
      <4>3. QED
        BY <2>10, <4>1, <4>2
    <3>5. run.phase # "idle" /\ ledger' = ledger
      BY <2>10 DEF Create, Check
    <3>6. Owed' = Owed /\ Slack' = Slack + (IF answered THEN 0 ELSE PerRun)
      BY <2>2, <2>10, BookSums DEF Create, Check, Answered
    <3>7. Reserve(next) <= Reserve(run) + (IF answered THEN 0 ELSE PerRun)
          /\ (answered => Reserve(next) = Reserve(run))
      <4> HIDE DEF run, next
      <4>1. CASE answered
        <5>1. next.blind = run.blind /\ next.raised = run.raised
          BY <3>3, <3>4, <4>1 DEF Run
        <5>2. Reserve(next) = Reserve(run) /\ Reserve(run) \in Nat
          BY <5>1, CostTypes DEF Reserve
        <5>3. QED
          BY <4>1, <5>2
      <4>2. CASE ~answered
        BY <3>4, <4>2, CostTypes DEF Reserve
      <4>3. QED
        BY <4>1, <4>2
    <3>8. runs[h] = run
      OBVIOUS
    <3> HIDE DEF run, next
    <3>9. QED
      BY <2>2, <2>7, <3>3, <3>4, <3>5, <3>6, <3>7, <3>8
  <2>11. CASE Restart
    <3>1. /\ ledger' = ledger /\ Owed' <= Owed /\ Slack' = Slack + PerRun
          /\ \A h \in Harnesses : runs'[h] = [runs[h] EXCEPT !.blind = @ \/ Active(h)]
      BY <2>11, BookSums DEF Restart
    <3>2. ASSUME NEW h \in Harnesses
          PROVE  /\ runs'[h].phase = runs[h].phase /\ runs'[h].loaded = runs[h].loaded
                 /\ runs'[h].spent = runs[h].spent /\ runs'[h].raised = runs[h].raised
      BY <2>3, <3>1 DEF Run
    <3>3. \A h \in Harnesses : Active(h)' <=> Active(h)
      BY <3>2 DEF Active
    <3>4. \A h \in Harnesses : /\ Reserve(runs'[h]) <= Reserve(runs[h]) + PerRun
                              /\ Reserve(runs'[h]) \in Nat /\ Reserve(runs[h]) \in Nat
                              /\ runs[h].loaded \in Nat /\ runs[h].spent \in Nat
      BY <2>3, <3>2, CostTypes DEF Reserve, Run
    <3>5. Alone' /\ Settled'
      BY <2>1, <2>2, <3>1, <3>3, CostTypes DEF Books, Alone, Settled, TypeOK
    <3>6. AtHand'
      <4>1. ASSUME NEW h \in Harnesses, Active(h)'
            PROVE  /\ runs'[h].loaded = ledger'
                   /\ Owed' + Reserve(runs'[h]) <= runs'[h].loaded + runs'[h].spent + Slack'
        <5>1. runs[h].loaded = ledger /\ Owed + Reserve(runs[h]) <= runs[h].loaded + runs[h].spent + Slack
          BY <2>1, <3>3, <4>1 DEF Books, AtHand
        <5>2. QED
          BY <2>2, <3>1, <3>2, <3>4, <5>1, CostTypes
      <4>2. QED
        BY <4>1 DEF AtHand
    <3>7. Owed' <= Cap + PerExample + Slack'
      BY <2>1, <2>2, <3>1, CostTypes, EvalAssumption DEF Books
    <3>8. QED
      BY <3>5, <3>6, <3>7 DEF Books
  <2>12. CASE Traffic \/ (\E cost \in 1 .. MaxCost : Answer(cost)) \/ UNCHANGED evalVars
    <3>1. runs' = runs /\ ledger' = ledger /\ Slack' = Slack
      BY <2>12, BookSums DEF Traffic, Answer, evalVars
    <3>2. Owed' <= Owed
      <4>1. ASSUME NEW cost \in 1 .. MaxCost, Answer(cost)
            PROVE  Owed' <= Owed
        <5>1. Owed' + MaxCost = Owed + cost
          BY <4>1, BookSums DEF Answer
        <5>2. QED
          <6>1. cost \in Nat /\ cost <= MaxCost /\ MaxCost \in Nat
            BY EvalAssumption
          <6>2. QED
            BY <2>2, <5>1, <6>1, Paid, Zenon
      <4>2. CASE Traffic \/ UNCHANGED evalVars
        <5>1. Owed' = Owed
          BY <4>2, BookSums DEF Traffic, evalVars
        <5>2. QED
          BY <2>2, <5>1
      <4>3. QED
        BY <2>12, <4>1, <4>2
    <3>3. \A h \in Harnesses : Active(h)' <=> Active(h)
      BY <3>1 DEF Active
    <3>4. Alone' /\ Settled'
      BY <2>1, <2>2, <3>1, <3>2, <3>3 DEF Books, Alone, Settled, TypeOK
    <3>5. \A h \in Harnesses : Reserve(runs[h]) \in Nat /\ runs[h].loaded \in Nat /\ runs[h].spent \in Nat
      BY <2>3, CostTypes DEF Reserve, Run
    <3>6. AtHand'
      <4>1. ASSUME NEW h \in Harnesses, Active(h)
            PROVE  /\ runs[h].loaded = ledger'
                   /\ Owed' + Reserve(runs[h]) <= runs[h].loaded + runs[h].spent + Slack'
        <5>1. runs[h].loaded = ledger /\ Owed + Reserve(runs[h]) <= runs[h].loaded + runs[h].spent + Slack
          BY <2>1, <4>1 DEF Books, AtHand
        <5>2. QED
          BY <2>2, <3>1, <3>2, <3>5, <5>1
      <4>2. \A h \in Harnesses : runs'[h] = runs[h]
        BY <3>1
      <4>3. QED
        BY <3>3, <4>1, <4>2 DEF AtHand
    <3>7. Owed' <= Cap + PerExample + Slack'
      BY <2>1, <2>2, <3>1, <3>2, CostTypes, EvalAssumption DEF Books
    <3>8. QED
      BY <3>4, <3>6, <3>7 DEF Books
  <2>13. QED
    BY <2>4, <2>5, <2>6, <2>8, <2>9, <2>10, <2>11, <2>12 DEF Next, Harness
<1>3. TypeOK /\ Books => CapHeld
  <2> SUFFICES ASSUME TypeOK, Books, ~overlapped
               PROVE  billed <= Cap + PerExample + failures * PerExample + timeouts * MaxCost + faults * PerRun
    BY DEF CapHeld
  <2>1. Owed <= Cap + PerExample + Slack
    BY DEF Books
  <2> DEFINE failed == failures * PerExample
             timed == timeouts * MaxCost
             faulty == faults * PerRun
             waiting == late * MaxCost
  <2>2. /\ failed \in Nat /\ timed \in Nat /\ faulty \in Nat /\ waiting \in Nat
        /\ billed \in Nat
    BY BookTypes DEF BookType, TypeOK
  <2>3. Owed = billed + waiting /\ Slack = failed + timed + faulty
    BY DEF Owed, Slack
  <2> HIDE DEF failed, timed, faulty, waiting
  <2>4. billed <= Cap + PerExample + failed + timed + faulty
    BY <2>1, <2>2, <2>3, CostTypes, EvalAssumption
  <2>5. QED
    BY <2>4 DEF failed, timed, faulty
<1>4. QED
  BY <1>1, <1>2, <1>3, TypeCorrect, RunsSound, PTL DEF Spec
=============================================================================
