----------------------------- MODULE AgentProofs -----------------------------
(***************************************************************************)
(* Theorems about turns of the agent, for any tools, answers, aliases,     *)
(* step limit and bounds.  The last part is about the sums of /v1/stats.   *)
(***************************************************************************)
EXTENDS AgentTurn, FiniteSetTheorems, TLAPS

-----------------------------------------------------------------------------
(***************************************************************************)
(* The inductive invariant.                                                *)
(***************************************************************************)
\* A reply and an observation are only ever under way to a turn that waits for them.
Addressed ==
  /\ reply # None => cur.phase = "asked"
  /\ reply \notin {None, Failed} /\ cur.truncated => reply.uses = <<>>
  /\ answer # None => /\ cur.phase = "called" /\ answer.id = cur.call
                      /\ answer.found => calls[answer.id].name = SearchDocs

\* The forced request is the last one.
Counted ==
  /\ cur.phase # "idle" => turns >= 1
  /\ cur.phase \in {"ask", "tool", "called"} => ~cur.truncated
  /\ cur.phase \in {"ask", "asked", "tool", "called"} =>
       cur.asked = IF cur.truncated THEN cur.steps + 1 ELSE cur.steps

\* The request a turn waits for is the only one of that turn the gateway works on,
\* unless the turn gave up.
InFlight ==
  \A r \in flight :
    /\ r.turn <= turns
    /\ r.turn = turns /\ cur.phase # "failed" =>
         /\ cur.phase = "asked" /\ reply = None /\ r.n = cur.asked
         /\ cur.truncated => ~r.offered
         /\ \A q \in flight : q.turn = turns => q = r

\* What was charged to a turn is what it knows of and what is under way to it.
Due == IF reply \in {None, Failed} THEN 0 ELSE reply.cost
Charged ==
  /\ \A t \in Turns : t > turns => billed[t] = 0
  /\ CostKnown
  /\ turns > 0 /\ cur.phase # "failed" => billed[turns] = cur.cost + Due

\* The uses of the last answer are being worked off in order, with one call at a time
\* under way; the numbers of the uses go on from those answered before.
InProgress == cur.phase \in {"tool", "called"}
Working ==
  /\ InProgress =>
       /\ messages # <<>> /\ messages[Len(messages)].uses = cur.uses
       /\ Len(cur.results) < Len(cur.uses)
       /\ \A i \in 1 .. Len(cur.uses) : cur.uses[i].id = Len(cur.called) - Len(cur.results) + i
  /\ ~InProgress =>
       /\ cur.uses = <<>> /\ cur.results = <<>>
       /\ messages # <<>> => messages[Len(messages)].uses = <<>>
  /\ cur.phase = "called" =>
       /\ cur.call \in 1 .. Len(calls)
       /\ calls[cur.call] = [turn |-> turns, use |-> NextUse.id, name |-> NextUse.name]

\* Results are sound answers of the uses before them, and name calls of `made`.
Sound(made, turn, results, uses) ==
  /\ Len(results) <= Len(uses)
  /\ \A i \in 1 .. Len(results) :
       /\ results[i].use = uses[i].id
       /\ results[i].from \in 0 .. Len(made)
       /\ results[i].from # 0 =>
            made[results[i].from] = [turn |-> turn, use |-> uses[i].id, name |-> uses[i].name]
Complete(made, turn, results, uses) ==
  uses # <<>> => Sound(made, turn, results, uses) /\ Len(results) = Len(uses)
History ==
  /\ Sound(calls, turns, cur.results, cur.uses)
  /\ \A i \in 1 .. Len(messages) - 1 :
       Complete(calls, turns, messages[i + 1].results, messages[i].uses)

Indexed == IndexedBySearch /\ \A e \in 1 .. Len(cur.retrieved) : cur.retrieved[e].from \in 1 .. Len(calls)

\* The server works in the order of the calls.
InOrder ==
  /\ Held(queue) \cup Held(spans) \subseteq 1 .. Len(calls)
  /\ Ascending(queue) /\ Ascending(spans)
  /\ \A s \in Held(spans), q \in Held(queue) : s < q
  /\ ToolsTraced

AgentInv ==
  TypeOK /\ Addressed /\ Counted /\ InFlight /\ Charged /\ Working /\ History /\ Indexed /\ InOrder

-----------------------------------------------------------------------------
(***************************************************************************)
(* Each step preserves it.                                                 *)
(***************************************************************************)
\* What the declarations say of the turn under way.
LEMMA TurnTypes ==
  ASSUME TypeOK
  PROVE  /\ cur \in Turn /\ turns \in 0 .. MaxTurns /\ messages \in Seq(Message) /\ calls \in Seq(Call)
         /\ cur.asked \in 0 .. MaxSteps + 1 /\ cur.steps \in 0 .. MaxSteps /\ cur.cost \in Nat
         /\ cur.uses \in Seq(Use) /\ cur.results \in Seq(Result) /\ cur.called \in Seq(Names)
         /\ cur.searches \in Seq(Nat) /\ cur.truncated \in BOOLEAN /\ cur.call \in Nat
         /\ cur.alias \in Aliases \cup {NoAlias}
         /\ cur.retrieved \in Seq([from : Nat, index : Nat])
         /\ MaxTurns \in Nat /\ MaxSteps \in Nat
  BY AgentAssumption DEF TypeOK, Turn

\* Everything starts empty.
LEMMA InitInv == Init => AgentInv
  <1> SUFFICES ASSUME Init PROVE AgentInv
    OBVIOUS
  <1> USE DEF Init
  <1>1. TypeOK
    <2>1. cur \in Turn
      BY AgentAssumption DEF NewTurn, Turn
    <2>2. stats \in Stats
      BY DEF NoStats, Stats, Counter
    <2>3. QED
      BY <2>1, <2>2, AgentAssumption DEF TypeOK, Turns
  <1>2. /\ cur.phase = "idle" /\ cur.cost = 0 /\ cur.uses = <<>> /\ cur.results = <<>>
        /\ cur.called = <<>> /\ cur.searches = <<>> /\ cur.retrieved = <<>>
    BY DEF NewTurn
  <1>3. Addressed /\ Counted /\ InFlight
    BY <1>2 DEF Addressed, Counted, InFlight
  <1>4. Charged
    BY <1>2, AgentAssumption DEF Charged, CostKnown, Turns
  <1>5. Working /\ History
    BY <1>2 DEF Working, InProgress, History, Sound
  <1>6. Indexed
    BY <1>2 DEF Indexed, IndexedBySearch, SearchesOf
  <1>7. InOrder
    BY DEF InOrder, Held, Ascending, ToolsTraced
  <1>8. QED
    BY <1>1, <1>3, <1>4, <1>5, <1>6, <1>7 DEF AgentInv

\* Calls that are still to come do not touch the answers there are.
LEMMA StillSound ==
  ASSUME NEW made \in Seq(Call), NEW more \in Seq(Call), Len(made) <= Len(more),
         \A i \in 1 .. Len(made) : more[i] = made[i],
         NEW turn, NEW results, NEW uses, Sound(made, turn, results, uses)
  PROVE  Sound(more, turn, results, uses)
  BY DEF Sound

\* A new turn starts with an empty slate; the requests and calls of earlier ones go on.
LEMMA StartTurnInv ==
  ASSUME AgentInv, NEW alias \in Chosen, StartTurn(alias)
  PROVE  AgentInv'
  <1> USE DEF AgentInv
  <1>0. /\ turns' = turns + 1 /\ turns \in Nat /\ turns' \in Turns /\ turns' \in 0 .. MaxTurns
        /\ cur' = NewTurn("ask", alias) /\ messages' = <<Say("user", <<>>, <<>>)>>
        /\ reply' = None /\ answer' = None
        /\ UNCHANGED <<flight, stats, billed, calls, queue, spans, alive, upsets>>
    BY TurnTypes DEF StartTurn, Turns
  <1>1. TypeOK'
    <2>1. cur' \in Turn
      BY <1>0, AgentAssumption DEF NewTurn, Turn
    <2>2. messages' \in Seq(Message)
      <3>1. Say("user", <<>>, <<>>) \in Message
        BY DEF Say, Message
      <3>2. QED
        BY <1>0, <3>1
    <2>3. QED
      BY <1>0, <2>1, <2>2 DEF TypeOK
  <1>2. /\ cur'.phase = "ask" /\ cur'.cost = 0 /\ cur'.uses = <<>> /\ cur'.results = <<>>
        /\ cur'.called = <<>> /\ cur'.searches = <<>> /\ cur'.retrieved = <<>>
        /\ cur'.asked = 0 /\ cur'.steps = 0 /\ cur'.truncated = FALSE
    BY <1>0 DEF NewTurn
  <1>3. Addressed' /\ Counted'
    BY <1>0, <1>2 DEF Addressed, Counted
  <1>4. InFlight'
    <2>1. \A r \in flight : r.turn \in Nat /\ r.turn <= turns
      BY DEF InFlight, TypeOK, Request, Turns
    <2>2. \A r \in flight : r.turn <= turns' /\ r.turn # turns'
      BY <1>0, <2>1
    <2>3. QED
      BY <1>0, <2>2 DEF InFlight
  <1>5. Charged'
    <2>1. billed'[turns'] = 0 /\ Due' = 0
      BY <1>0 DEF Charged, Due
    <2>2. \A t \in Turns : t > turns' => billed'[t] = 0
      BY <1>0 DEF Charged, Turns
    <2>3. QED
      BY <1>0, <1>2, <2>1, <2>2 DEF Charged, CostKnown
  <1>6. Working' /\ History'
    <2>1. Len(messages') = 1 /\ messages'[1].uses = <<>> /\ messages' # <<>>
      BY <1>0 DEF Say
    <2>2. Working'
      BY <1>2, <2>1 DEF Working, InProgress
    <2>3. Sound(calls, turns, cur.results, cur.uses)'
      BY <1>2 DEF Sound
    <2>4. 1 .. Len(messages') - 1 = {}
      BY <2>1
    <2>5. QED
      BY <2>2, <2>3, <2>4 DEF History
  <1>7. Indexed'
    BY <1>2 DEF Indexed, IndexedBySearch, SearchesOf
  <1>8. InOrder'
    BY <1>0 DEF InOrder, Held, Ascending, ToolsTraced
  <1>9. QED
    BY <1>1, <1>3, <1>4, <1>5, <1>6, <1>7, <1>8

\* The uses, the results and the history of a turn that asks or gives up stay empty.
LEMMA Resting ==
  ASSUME AgentInv, ~InProgress, ~InProgress',
         UNCHANGED <<messages, calls, turns>>, cur'.uses = cur.uses, cur'.results = cur.results
  PROVE  Working' /\ History'
  <1>1. Working'
    BY DEF AgentInv, Working, InProgress
  <1>2. History'
    BY DEF AgentInv, History, Sound
  <1>3. QED
    BY <1>1, <1>2

\* What the searches, the calls and the server know does not depend on the rest.
LEMMA SameSearches ==
  ASSUME Indexed, UNCHANGED <<calls, turns>>,
         cur'.called = cur.called, cur'.searches = cur.searches, cur'.retrieved = cur.retrieved
  PROVE  Indexed'
  BY DEF Indexed, IndexedBySearch, SearchesOf

\* Nor does what was traced.
LEMMA SameServer ==
  ASSUME InOrder, UNCHANGED <<calls, queue, spans, alive>>
  PROVE  InOrder'
  <1>1. calls' = calls /\ queue' = queue /\ spans' = spans /\ (alive' <=> alive)
    OBVIOUS
  <1>2. QED
    BY <1>1 DEF InOrder, Held, Ascending, ToolsTraced

\* Asking puts the one request of the turn into flight.
LEMMA AskInv ==
  ASSUME AgentInv, Ask
  PROVE  AgentInv'
  <1> USE DEF AgentInv
  <1> DEFINE request == [turn |-> turns, n |-> cur.asked + 1, alias |-> cur.alias, offered |-> ~Forced]
  <1>0. /\ cur.phase = "ask" /\ cur.alias \in Aliases /\ turns >= 1 /\ turns \in Turns
        /\ cur.asked = cur.steps /\ ~cur.truncated /\ reply = None /\ answer = None
        /\ flight' = flight \cup {request}
        /\ UNCHANGED <<turns, reply, stats, billed, calls, queue, answer, spans, alive, upsets>>
    BY TurnTypes DEF Ask, Counted, Addressed, Turns, serverSide
  <1>1. /\ cur' \in Turn /\ cur'.phase = "asked" /\ cur'.asked = cur.asked + 1
        /\ cur'.steps = IF Forced THEN cur.steps ELSE cur.steps + 1
        /\ cur'.truncated <=> Forced
        /\ cur'.cost = cur.cost /\ cur'.uses = cur.uses /\ cur'.results = cur.results
        /\ cur'.called = cur.called /\ cur'.searches = cur.searches /\ cur'.retrieved = cur.retrieved
    <2>1. PICK steps \in 0 .. MaxSteps : steps = IF Forced THEN cur.steps ELSE cur.steps + 1
      BY TurnTypes DEF Forced
    <2>2. PICK truncated \in BOOLEAN : truncated = Forced
      BY Zenon DEF Forced
    <2>3. cur' = [cur EXCEPT !.phase = "asked", !.asked = cur.asked + 1, !.steps = steps,
                             !.truncated = truncated]
      BY <2>1, <2>2, Zenon DEF Ask
    <2>4. cur \in Turn /\ cur.asked + 1 \in 0 .. MaxSteps + 1
      BY <1>0, TurnTypes
    <2>5. /\ cur' \in Turn /\ cur'.phase = "asked" /\ cur'.asked = cur.asked + 1
          /\ cur'.steps = steps /\ cur'.truncated = truncated
          /\ cur'.cost = cur.cost /\ cur'.uses = cur.uses /\ cur'.results = cur.results
          /\ cur'.called = cur.called /\ cur'.searches = cur.searches /\ cur'.retrieved = cur.retrieved
      BY <2>3, <2>4 DEF Turn
    <2>6. QED
      BY <2>1, <2>2, <2>5
  <1>2. request \in Request
    BY <1>0, TurnTypes DEF Request, Forced
  <1>3. /\ messages' \in Seq(Message)
        /\ Forced => messages' = Append(messages, Say("user", <<>>, <<>>))
        /\ ~Forced => messages' = messages
    <2>1. Say("user", <<>>, <<>>) \in Message
      BY DEF Say, Message
    <2>2. QED
      BY <2>1, TurnTypes DEF Ask
  <1>4. TypeOK'
    BY <1>0, <1>1, <1>2, <1>3 DEF TypeOK
  <1>5. Addressed' /\ Counted'
    BY <1>0, <1>1, TurnTypes DEF Addressed, Counted, Forced
  <1>6. InFlight'
    <2>1. \A r \in flight : r.turn <= turns /\ r.turn # turns
      BY <1>0 DEF InFlight
    <2>2. request.turn = turns /\ request.n = cur.asked + 1 /\ (request.offered <=> ~Forced)
      OBVIOUS
    <2> HIDE DEF request
    <2>3. ASSUME NEW r \in flight', r.turn = turns
          PROVE  r = request
      BY <1>0, <2>1, <2>3
    <2>4. turns <= turns
      BY <1>0 DEF Turns
    <2>5. QED
      BY <1>0, <1>1, <2>1, <2>2, <2>3, <2>4 DEF InFlight
  <1>7. Charged'
    BY <1>0, <1>1 DEF Charged, CostKnown, Due
  <1>8. Working' /\ History'
    <2>1. CASE ~Forced
      BY <1>0, <1>1, <1>3, <2>1, Resting DEF InProgress
    <2>2. CASE Forced
      <3>1. /\ Len(messages') = Len(messages) + 1 /\ Len(messages) \in Nat /\ messages' # <<>>
            /\ messages'[Len(messages')].uses = <<>>
            /\ \A i \in 1 .. Len(messages) : messages'[i] = messages[i]
        <4>1. PICK note : note = Say("user", <<>>, <<>>)
          OBVIOUS
        <4>2. note.uses = <<>>
          BY <4>1 DEF Say
        <4>3. note \in Message /\ messages' = Append(messages, note) /\ messages \in Seq(Message)
          BY <1>3, <2>2, <4>1, TurnTypes DEF Say, Message
        <4>4. QED
          BY <4>2, <4>3
      <3>2. Len(messages) > 0 => messages[Len(messages)].uses = <<>>
        BY <1>0, TurnTypes DEF Working, InProgress
      <3>3. Working'
        BY <1>0, <1>1, <3>1 DEF Working, InProgress
      <3>4. Sound(calls, turns, cur.results, cur.uses)'
        BY <1>0, <1>1 DEF History
      <3>5. ASSUME NEW i \in 1 .. Len(messages') - 1
            PROVE  Complete(calls', turns', messages'[i + 1].results, messages'[i].uses)
        <4>1. CASE messages'[i].uses = <<>>
          BY <4>1 DEF Complete
        <4>2. CASE messages'[i].uses # <<>>
          <5>1. i \in 1 .. Len(messages) - 1 /\ i + 1 \in 1 .. Len(messages)
            BY <3>1, <3>2, <4>2
          <5>2. QED
            BY <1>0, <3>1, <5>1 DEF History
        <4>3. QED
          BY <4>1, <4>2
      <3>6. QED
        BY <3>3, <3>4, <3>5 DEF History
    <2>3. QED
      BY <2>1, <2>2
  <1>9. Indexed' /\ InOrder'
    BY <1>0, <1>1, SameSearches, SameServer DEF serverSide
  <1>10. QED
    BY <1>4, <1>5, <1>6, <1>7, <1>8, <1>9

\* A turn that fails, before it asks or while it waits, knows less than it was charged.
LEMMA FailInv ==
  ASSUME AgentInv, Unreachable \/ GiveUp
  PROVE  AgentInv'
  <1> USE DEF AgentInv
  <1>1. /\ cur.phase \in {"ask", "asked"} /\ reply = None /\ answer = None
        /\ UNCHANGED <<turns, messages, upsets, gatewaySide, serverSide>>
    BY DEF Unreachable, GiveUp, Addressed
  <1>2. /\ cur' \in Turn /\ cur'.phase = "failed" /\ cur'.cost = cur.cost
        /\ cur'.uses = cur.uses /\ cur'.results = cur.results /\ cur'.called = cur.called
        /\ cur'.searches = cur.searches /\ cur'.retrieved = cur.retrieved
    BY TurnTypes DEF Unreachable, GiveUp, Turn
  <1>3. TypeOK'
    BY <1>1, <1>2 DEF TypeOK, gatewaySide, serverSide
  <1>4. Addressed' /\ Counted' /\ InFlight' /\ Charged'
    BY <1>1, <1>2 DEF Addressed, Counted, InFlight, Charged, CostKnown, gatewaySide, serverSide
  <1>5. Working' /\ History'
    BY <1>1, <1>2, Resting DEF InProgress, serverSide
  <1>6. Indexed' /\ InOrder'
    BY <1>1, <1>2, SameSearches, SameServer DEF serverSide
  <1>7. QED
    BY <1>3, <1>4, <1>5, <1>6

\* The uses of an answer are numbered on from those the turn has had.
LEMMA UsesOfAnswer ==
  ASSUME TypeOK, NEW names \in Seq(Names)
  PROVE  /\ UsesOf(names) \in Seq(Use) /\ Len(UsesOf(names)) = Len(names)
         /\ \A i \in 1 .. Len(names) : UsesOf(names)[i].id = Len(cur.called) + i
  <1>1. /\ Len(names) \in Nat /\ Len(cur.called) \in Nat
        /\ \A i \in 1 .. Len(names) : names[i] \in Names
    BY TurnTypes
  <1>2. \A i \in 1 .. Len(names) : [id |-> Len(cur.called) + i, name |-> names[i]] \in Use
    BY <1>1 DEF Use
  <1>3. QED
    BY <1>1, <1>2 DEF UsesOf

\* An answer is appended whole, and the turn knows what it cost.
LEMMA ReceiveInv ==
  ASSUME AgentInv, Receive
  PROVE  AgentInv'
  <1> USE DEF AgentInv
  <1>0. /\ cur.phase = "asked" /\ reply # None /\ answer = None /\ reply' = None
        /\ turns >= 1 /\ turns \in Turns
        /\ cur.uses = <<>> /\ cur.results = <<>>
        /\ \A r \in flight : r.turn <= turns /\ r.turn # turns
        /\ UNCHANGED <<turns, flight, stats, billed, serverSide, upsets>>
    BY TurnTypes DEF Receive, Addressed, Counted, Turns, Working, InProgress, InFlight
  <1>1. CASE reply = Failed
    <2>1. /\ cur' \in Turn /\ cur'.phase = "failed" /\ cur'.cost = cur.cost
          /\ cur'.uses = cur.uses /\ cur'.results = cur.results /\ cur'.called = cur.called
          /\ cur'.searches = cur.searches /\ cur'.retrieved = cur.retrieved
          /\ messages' = messages
      <3>1. cur' = [cur EXCEPT !.phase = "failed"] /\ messages' = messages
        BY <1>1, Zenon DEF Receive
      <3>2. QED
        BY <3>1, TurnTypes DEF Turn
    <2>2. TypeOK'
      BY <1>0, <2>1 DEF TypeOK, serverSide
    <2>3. Addressed' /\ Counted' /\ InFlight' /\ Charged'
      BY <1>0, <2>1 DEF Addressed, Counted, InFlight, Charged, CostKnown, serverSide
    <2>4. Working' /\ History'
      BY <1>0, <2>1, Resting DEF InProgress, serverSide
    <2>5. Indexed' /\ InOrder'
      BY <1>0, <2>1, SameSearches, SameServer DEF serverSide
    <2>6. QED
      BY <2>2, <2>3, <2>4, <2>5
  <1>2. CASE reply # Failed
    <2> DEFINE uses == UsesOf(reply.uses)
               said == Say("assistant", uses, <<>>)
    <2>0. reply \in Reply /\ reply.uses \in Seq(Names) /\ reply.cost \in Nat
      BY <1>0, <1>2 DEF TypeOK, Reply
    <2>1. /\ uses \in Seq(Use) /\ (uses = <<>> <=> reply.uses = <<>>)
          /\ \A i \in 1 .. Len(uses) : uses[i].id = Len(cur.called) + i
      BY <2>0, UsesOfAnswer
    <2>a. said \in Message /\ said.uses = uses /\ messages' = Append(messages, said)
      BY <1>0, <1>2, <2>1 DEF Say, Message, Receive
    <2>b. cur' = [cur EXCEPT !.cost = Spent(reply.cost), !.uses = uses,
                             !.phase = IF reply.uses = <<>> THEN "done" ELSE "tool"]
      BY <1>0, <1>2 DEF Receive
    <2> HIDE DEF uses, said
    <2>2. /\ cur' \in Turn /\ cur'.phase = (IF reply.uses = <<>> THEN "done" ELSE "tool")
          /\ cur'.cost = cur.cost + reply.cost /\ cur'.uses = uses
          /\ cur'.results = cur.results /\ cur'.called = cur.called
          /\ cur'.searches = cur.searches /\ cur'.retrieved = cur.retrieved
          /\ cur'.asked = cur.asked /\ cur'.steps = cur.steps /\ cur'.truncated = cur.truncated
      <3>1. PICK phase \in {"done", "tool"} : phase = IF reply.uses = <<>> THEN "done" ELSE "tool"
        OBVIOUS
      <3>2. PICK cost \in Nat : cost = cur.cost + reply.cost
        BY <2>0, TurnTypes
      <3>3. cur' = [cur EXCEPT !.cost = cost, !.uses = uses, !.phase = phase]
        BY <2>b, <3>1, <3>2 DEF Spent
      <3>4. QED
        BY <2>1, <3>1, <3>2, <3>3, TurnTypes DEF Turn
    <2>3. TypeOK'
      BY <1>0, <2>a, <2>2, TurnTypes DEF TypeOK, serverSide
    <2>4. Addressed' /\ Counted' /\ InFlight'
      BY <1>0, <1>2, <2>2, TurnTypes DEF Addressed, Counted, InFlight, serverSide
    <2>5. Charged'
      BY <1>0, <1>2, <2>0, <2>2, TurnTypes DEF Charged, CostKnown, Due
    <2>6. /\ messages' # <<>> /\ Len(messages') = Len(messages) + 1 /\ Len(messages) \in Nat
          /\ messages'[Len(messages')] = said
          /\ \A i \in 1 .. Len(messages) : messages'[i] = messages[i]
      BY <2>a, TurnTypes
    <2>7. Working'
      <3>1. Len(cur.called) \in Nat /\ Len(cur'.results) = 0 /\ Len(uses) \in Nat
            /\ (uses # <<>> => Len(uses) > 0)
        BY <1>0, <2>1, <2>2, TurnTypes
      <3>2. cur'.phase = "tool" => \A i \in 1 .. Len(uses) : uses[i].id = Len(cur.called) - 0 + i
        BY <2>1, <3>1
      <3>3. QED
        BY <1>0, <2>1, <2>a, <2>2, <2>6, <3>1, <3>2 DEF Working, InProgress
    <2>8. History'
      <3>1. Sound(calls, turns, cur.results, cur.uses)'
        BY <1>0, <2>1, <2>2, TurnTypes DEF Sound
      <3>2. Len(messages) > 0 => messages[Len(messages)].uses = <<>>
        BY <1>0, TurnTypes DEF Working, InProgress
      <3>3. ASSUME NEW i \in 1 .. Len(messages') - 1
            PROVE  Complete(calls', turns', messages'[i + 1].results, messages'[i].uses)
        <4>1. CASE messages'[i].uses = <<>>
          BY <4>1 DEF Complete
        <4>2. CASE messages'[i].uses # <<>>
          <5>1. i \in 1 .. Len(messages) - 1 /\ i + 1 \in 1 .. Len(messages)
            BY <2>6, <3>2, <4>2
          <5>2. QED
            BY <1>0, <2>6, <5>1 DEF History, serverSide
        <4>3. QED
          BY <4>1, <4>2
      <3>4. QED
        BY <3>1, <3>3 DEF History
    <2>9. Indexed' /\ InOrder'
      BY <1>0, <2>2, SameSearches, SameServer DEF serverSide
    <2>10. QED
      BY <2>3, <2>4, <2>5, <2>7, <2>8, <2>9
  <1>3. QED
    BY <1>1, <1>2

\* The use at hand: its number is one more than the number of uses answered so far.
LEMMA UseAtHand ==
  ASSUME AgentInv, InProgress
  PROVE  /\ NextUse \in Use /\ NextUse = cur.uses[Len(cur.results) + 1]
         /\ NextUse.id = Len(cur.called) + 1
         /\ Len(cur.results) + 1 \in 1 .. Len(cur.uses)
         /\ NextUse.id \in Nat /\ NextUse.name \in Names
  <1>1. /\ Len(cur.results) \in Nat /\ Len(cur.uses) \in Nat /\ Len(cur.called) \in Nat
        /\ Len(cur.results) < Len(cur.uses) /\ cur.uses \in Seq(Use)
    <2>1. Len(cur.results) < Len(cur.uses)
      BY DEF AgentInv, Working
    <2>2. cur.uses \in Seq(Use) /\ cur.results \in Seq(Result) /\ cur.called \in Seq(Names)
      BY TurnTypes DEF AgentInv
    <2>3. QED
      BY <2>1, <2>2
  <1>2. Len(cur.results) + 1 \in 1 .. Len(cur.uses)
    BY <1>1
  <1>3. NextUse.id = Len(cur.called) - Len(cur.results) + (Len(cur.results) + 1)
    BY <1>2 DEF AgentInv, Working, NextUse
  <1>4. NextUse \in Use
    BY <1>1, <1>2 DEF NextUse
  <1>5. NextUse.id = Len(cur.called) + 1
    <2>1. \A m, n \in Nat : m - n + (n + 1) = m + 1
      OBVIOUS
    <2>2. Len(cur.called) - Len(cur.results) + (Len(cur.results) + 1) = Len(cur.called) + 1
      BY <1>1, <2>1
    <2>3. QED
      BY <1>3, <2>2
  <1>6. NextUse.id \in Nat /\ NextUse.name \in Names
    BY <1>4 DEF Use
  <1>7. NextUse = cur.uses[Len(cur.results) + 1]
    BY DEF NextUse
  <1>8. QED
    BY <1>2, <1>4, <1>5, <1>6, <1>7

\* A call goes to the back of the server's queue.
LEMMA CallToolInv ==
  ASSUME AgentInv, CallTool
  PROVE  AgentInv'
  <1> USE DEF AgentInv
  <1> DEFINE id   == Len(calls) + 1
             call == [turn |-> turns, use |-> NextUse.id, name |-> NextUse.name]
  <1>0. /\ cur.phase = "tool" /\ InProgress /\ turns \in Turns /\ reply = None /\ answer = None
        /\ UNCHANGED <<turns, messages, gatewaySide, answer, spans, alive, upsets>>
    BY TurnTypes DEF CallTool, InProgress, Counted, Turns, Addressed
  <1>1. NextUse.id \in Nat /\ NextUse.name \in Names
    BY <1>0, UseAtHand
  <1>2. /\ call \in Call /\ calls' = Append(calls, call)
        /\ cur' = [cur EXCEPT !.phase = "called", !.call = id]
        /\ queue' = IF alive THEN Append(queue, id) ELSE queue
    BY <1>0, <1>1 DEF Call, CallTool
  <1>a. call.name = NextUse.name
    OBVIOUS
  <1>3. /\ calls' \in Seq(Call) /\ calls \in Seq(Call) /\ Len(calls') = Len(calls) + 1 /\ Len(calls) \in Nat
        /\ calls'[Len(calls) + 1] = call
        /\ \A i \in 1 .. Len(calls) : calls'[i] = calls[i]
    <2> HIDE DEF call
    <2>1. QED
      BY <1>2, TurnTypes
  <1>4. /\ cur' \in Turn /\ cur'.phase = "called" /\ cur'.call = id /\ cur'.cost = cur.cost
        /\ cur'.uses = cur.uses /\ cur'.results = cur.results /\ cur'.called = cur.called
        /\ cur'.searches = cur.searches /\ cur'.retrieved = cur.retrieved
        /\ cur'.asked = cur.asked /\ cur'.steps = cur.steps /\ cur'.truncated = cur.truncated
    <2>1. cur \in Turn /\ id \in Nat
      BY <1>3, TurnTypes
    <2> HIDE DEF id, call
    <2>2. QED
      BY <1>2, <2>1 DEF Turn
  <1>5. id \in Nat /\ queue' \in Seq(Nat)
    BY <1>2, <1>3 DEF TypeOK
  <1>6. TypeOK'
    BY <1>0, <1>3, <1>4, <1>5 DEF TypeOK, gatewaySide
  <1>7. Addressed' /\ Counted' /\ InFlight' /\ Charged'
    BY <1>0, <1>4 DEF Addressed, Counted, InFlight, Charged, CostKnown, Due, gatewaySide
  <1>8. Working'
    <2>1. NextUse' = NextUse
      BY <1>4 DEF NextUse
    <2>2. InProgress'
      BY <1>4 DEF InProgress
    <2>3. cur'.call \in 1 .. Len(calls') /\ calls'[cur'.call] = call
      BY <1>3, <1>4
    <2>4. QED
      BY <1>0, <1>4, <2>1, <2>2, <2>3 DEF Working
  <1>9. History'
    <2>1. \A results, uses : Sound(calls, turns, results, uses) => Sound(calls', turns', results, uses)
      <3>1. Len(calls) <= Len(calls') /\ turns' = turns
        BY <1>0, <1>3
      <3>2. QED
        BY <1>3, <3>1, StillSound
    <2>2. QED
      BY <1>0, <1>4, <2>1 DEF History, Complete
  <1>10. Indexed'
    <2>1. /\ \A i \in 1 .. Len(calls) : i \in 1 .. Len(calls')
          /\ UNCHANGED turns
      BY <1>0, <1>3
    <2>2. QED
      BY <1>3, <1>4, <2>1 DEF Indexed, IndexedBySearch, SearchesOf
  <1>11. InOrder'
    <2> HIDE DEF call, id
    <2>0. id = Len(calls) + 1 /\ id \in 1 .. Len(calls') /\ 1 .. Len(calls) \subseteq 1 .. Len(calls')
      BY <1>3 DEF id
    <2>1. CASE ~alive
      <3>1. queue' = queue /\ spans' = spans /\ ~alive'
        BY <1>0, <1>2, <2>1
      <3>2. QED
        BY <2>0, <3>1 DEF InOrder, Held, Ascending, ToolsTraced
    <2>2. CASE alive
      <3>1. queue' = Append(queue, id) /\ spans' = spans /\ alive' /\ queue \in Seq(Nat) /\ id \in Nat
        BY <1>0, <1>2, <1>5, <2>2 DEF TypeOK
      <3>2. /\ Len(queue') = Len(queue) + 1 /\ Len(queue) \in Nat /\ queue'[Len(queue) + 1] = id
            /\ \A i \in 1 .. Len(queue) : queue'[i] = queue[i]
        BY <3>1
      <3>3. Held(queue)' = Held(queue) \cup {id}
        BY <3>2 DEF Held
      <3>4. Held(queue) \subseteq 1 .. Len(calls) /\ Held(spans) \subseteq 1 .. Len(calls)
        BY DEF InOrder
      <3>5. Ascending(queue)'
        <4>1. \A i \in 1 .. Len(queue) : queue[i] < id
          <5>1. ASSUME NEW i \in 1 .. Len(queue) PROVE queue[i] < id
            <6>1. queue[i] \in 1 .. Len(calls)
              BY <3>4 DEF Held
            <6>2. QED
              BY <1>3, <2>0, <6>1
          <5>2. QED
            BY <5>1
        <4>2. QED
          BY <3>2, <4>1 DEF InOrder, Ascending
      <3>6. \A s \in Held(spans), q \in Held(queue)' : s < q
        BY <1>3, <2>0, <3>3, <3>4 DEF InOrder
      <3>7. Held(spans)' = Held(spans) /\ Ascending(spans)'
        BY <3>1 DEF Held, Ascending, InOrder
      <3>8. ToolsTraced'
        <4>1. Held(spans) = {i \in 1 .. Len(calls) \ Held(queue) : calls[i].name \in Tools}
          BY <2>2 DEF InOrder, ToolsTraced
        <4>2. 1 .. Len(calls') \ Held(queue)' = 1 .. Len(calls) \ Held(queue)
          BY <1>3, <2>0, <3>3, <3>4
        <4>3. {i \in 1 .. Len(calls') \ Held(queue)' : calls'[i].name \in Tools}
                = {i \in 1 .. Len(calls) \ Held(queue) : calls[i].name \in Tools}
          BY <1>3, <4>2
        <4>4. QED
          BY <3>7, <4>1, <4>3 DEF ToolsTraced
      <3>9. QED
        BY <2>0, <3>3, <3>4, <3>5, <3>6, <3>7, <3>8 DEF InOrder
    <2>3. QED
      BY <2>1, <2>2
  <1>12. QED
    BY <1>6, <1>7, <1>8, <1>9, <1>10, <1>11

\* A sequence with one more entry at its end.
LEMMA OneMore ==
  ASSUME NEW S, NEW s \in Seq(S), NEW x \in S
  PROVE  /\ Append(s, x) \in Seq(S) /\ Len(Append(s, x)) = Len(s) + 1 /\ Len(s) \in Nat
         /\ Append(s, x)[Len(s) + 1] = x /\ \A i \in 1 .. Len(s) : Append(s, x)[i] = s[i]
         /\ 1 .. Len(s) + 1 = 1 .. Len(s) \cup {Len(s) + 1} /\ Len(s) + 1 \notin 1 .. Len(s)
  OBVIOUS

\* The use at hand is answered by its own call, or by the loop's error: the results of
\* the answer go on soundly, and the search it was, if it was one, is the next one.
LEMMA ObserveInv ==
  ASSUME AgentInv, cur.phase = "called", NEW from \in 0 .. Len(calls), NEW found \in BOOLEAN,
         from # 0 => calls[from] = [turn |-> turns, use |-> NextUse.id, name |-> NextUse.name],
         found => from # 0 /\ NextUse.name = SearchDocs,
         Observe(from, found)
  PROVE  AgentInv'
  <1> USE DEF AgentInv
  <1>0. /\ InProgress /\ reply = None /\ turns \in Turns /\ turns >= 1 /\ ~cur.truncated
        /\ cur.asked = cur.steps
        /\ messages \in Seq(Message) /\ calls \in Seq(Call) /\ Len(calls) \in Nat
    BY TurnTypes DEF InProgress, Addressed, Counted, Turns
  <1>1. /\ NextUse = cur.uses[Len(cur.results) + 1] /\ NextUse.id = Len(cur.called) + 1
        /\ Len(cur.results) + 1 \in 1 .. Len(cur.uses)
        /\ NextUse.id \in Nat /\ NextUse.name \in Names
    BY <1>0, UseAtHand
  <1>2. PICK result : result = [use |-> NextUse.id, from |-> from]
    OBVIOUS
  <1>3. result \in Result /\ result.use = NextUse.id /\ result.from = from
    BY <1>0, <1>1, <1>2 DEF Result
  <1>4. PICK results : results = Append(cur.results, result)
    OBVIOUS
  <1>a. /\ cur.results \in Seq(Result) /\ cur.uses \in Seq(Use) /\ cur.called \in Seq(Names)
        /\ cur.searches \in Seq(Nat) /\ cur.retrieved \in Seq([from : Nat, index : Nat])
    BY TurnTypes
  <1>5. /\ results \in Seq(Result) /\ Len(results) = Len(cur.results) + 1 /\ Len(cur.results) \in Nat
        /\ results[Len(cur.results) + 1] = result
        /\ \A i \in 1 .. Len(cur.results) : results[i] = cur.results[i]
        /\ 1 .. Len(results) = 1 .. Len(cur.results) \cup {Len(cur.results) + 1}
    <2>1. cur.results \in Seq(Result) /\ result \in Result
      BY <1>3, <1>a
    <2>2. QED
      BY <1>4, <2>1, OneMore
  <1>6. Sound(calls, turns, results, cur.uses)
    <2>1. Len(results) <= Len(cur.uses)
      BY <1>1, <1>5
    <2>2. Sound(calls, turns, cur.results, cur.uses)
      BY DEF History
    <2>3. ASSUME NEW i \in 1 .. Len(results)
          PROVE  /\ results[i].use = cur.uses[i].id /\ results[i].from \in 0 .. Len(calls)
                 /\ results[i].from # 0 => calls[results[i].from]
                      = [turn |-> turns, use |-> cur.uses[i].id, name |-> cur.uses[i].name]
      <3>1. CASE i \in 1 .. Len(cur.results)
        BY <1>5, <2>2, <3>1 DEF Sound
      <3>2. CASE i = Len(cur.results) + 1
        BY <1>1, <1>3, <1>5, <3>2
      <3>3. QED
        BY <1>5, <3>1, <3>2
    <2>4. QED
      BY <2>1, <2>3 DEF Sound
  <1> DEFINE whole == Len(results) = Len(cur.uses)
  <1>7. /\ cur' \in Turn /\ cur'.phase = (IF whole THEN "ask" ELSE "tool")
        /\ cur'.uses = (IF whole THEN <<>> ELSE cur.uses)
        /\ cur'.results = (IF whole THEN <<>> ELSE results)
        /\ cur'.called = Append(cur.called, NextUse.name)
        /\ cur'.searches = (IF NextUse.name = SearchDocs THEN Append(cur.searches, NextUse.id) ELSE cur.searches)
        /\ cur'.retrieved = (IF found THEN Append(cur.retrieved, [from |-> from, index |-> Len(cur.searches)])
                             ELSE cur.retrieved)
        /\ cur'.asked = cur.asked /\ cur'.steps = cur.steps /\ cur'.truncated = cur.truncated
        /\ cur'.cost = cur.cost
    <2>1. PICK phase \in {"ask", "tool"} : phase = IF whole THEN "ask" ELSE "tool"
      OBVIOUS
    <2>2. PICK uses \in Seq(Use) : uses = IF whole THEN <<>> ELSE cur.uses
      <3>1. (IF whole THEN <<>> ELSE cur.uses) \in Seq(Use)
        BY <1>a
      <3>2. QED
        BY <3>1
    <2>3. PICK left \in Seq(Result) : left = IF whole THEN <<>> ELSE results
      <3>1. (IF whole THEN <<>> ELSE results) \in Seq(Result)
        BY <1>5
      <3>2. QED
        BY <3>1
    <2>4. PICK called \in Seq(Names) : called = Append(cur.called, NextUse.name)
      <3>1. Append(cur.called, NextUse.name) \in Seq(Names)
        BY <1>1, <1>a
      <3>2. QED
        BY <3>1
    <2>5. PICK searches \in Seq(Nat) :
            searches = IF NextUse.name = SearchDocs THEN Append(cur.searches, NextUse.id) ELSE cur.searches
      <3>1. Append(cur.searches, NextUse.id) \in Seq(Nat)
        BY <1>1, <1>a
      <3>2. QED
        BY <1>a, <3>1
    <2>6. PICK retrieved \in Seq([from : Nat, index : Nat]) :
            retrieved = IF found THEN Append(cur.retrieved, [from |-> from, index |-> Len(cur.searches)])
                        ELSE cur.retrieved
      <3>1. Len(cur.searches) \in Nat /\ from \in Nat
        BY <1>0, TurnTypes
      <3>2. PICK chunk \in [from : Nat, index : Nat] : chunk = [from |-> from, index |-> Len(cur.searches)]
        BY <3>1
      <3>3. Append(cur.retrieved, chunk) \in Seq([from : Nat, index : Nat])
        BY <1>a, <3>2
      <3>4. QED
        BY <1>a, <3>2, <3>3
    <2>7. cur' = [cur EXCEPT !.phase = phase, !.uses = uses, !.results = left, !.called = called,
                             !.searches = searches, !.retrieved = retrieved, !.call = 0]
      BY <1>2, <1>4, <2>1, <2>2, <2>3, <2>4, <2>5, <2>6 DEF Observe, Searched
    <2>8. cur \in Turn
      BY TurnTypes
    <2>9. /\ cur' \in Turn /\ cur'.phase = phase /\ cur'.uses = uses /\ cur'.results = left
          /\ cur'.called = called /\ cur'.searches = searches /\ cur'.retrieved = retrieved
          /\ cur'.asked = cur.asked /\ cur'.steps = cur.steps /\ cur'.truncated = cur.truncated
          /\ cur'.cost = cur.cost
      BY <2>7, <2>8 DEF Turn
    <2>10. QED
      BY <2>1, <2>2, <2>3, <2>4, <2>5, <2>6, <2>9
  <1>8. PICK said : said = Say("user", <<>>, results)
    OBVIOUS
  <1>9. /\ said \in Message /\ said.uses = <<>> /\ said.results = results
        /\ messages' = IF whole THEN Append(messages, said) ELSE messages
        /\ answer' = None
        /\ UNCHANGED <<turns, flight, reply, stats, billed, calls, queue, spans, alive, upsets>>
    <2>1. said \in Message /\ said.uses = <<>> /\ said.results = results
      BY <1>5, <1>8 DEF Say, Message
    <2>2. messages' = IF whole THEN Append(messages, said) ELSE messages
      BY <1>2, <1>4, <1>8 DEF Observe
    <2>3. QED
      BY <2>1, <2>2 DEF Observe, gatewaySide
  <1> HIDE DEF whole
  <1>10. TypeOK'
    BY <1>0, <1>7, <1>9 DEF TypeOK
  <1>11. Addressed' /\ Counted' /\ InFlight' /\ Charged'
    <2>1. cur'.phase \in {"ask", "tool"}
      BY <1>7
    <2>2. \A r \in flight : r.turn <= turns /\ r.turn # turns
      BY DEF InFlight
    <2>3. QED
      BY <1>0, <1>7, <1>9, <2>1, <2>2 DEF Addressed, Counted, InFlight, Charged, CostKnown, Due
  <1>12. Working' /\ History'
    <2>1. CASE ~whole
      <3>1. messages' = messages /\ cur'.phase = "tool" /\ cur'.uses = cur.uses /\ cur'.results = results
        BY <1>7, <1>9, <2>1
      <3>2. Len(results) < Len(cur.uses)
        BY <1>1, <1>5, <2>1 DEF whole
      <3>3. Len(cur'.called) - Len(results) = Len(cur.called) - Len(cur.results)
        <4>1. Len(cur'.called) = Len(cur.called) + 1 /\ Len(cur.called) \in Nat
          BY <1>1, <1>7, OneMore, TurnTypes
        <4>2. \A m, n \in Nat : (m + 1) - (n + 1) = m - n
          OBVIOUS
        <4>3. QED
          BY <1>5, <4>1, <4>2
      <3>4. Working'
        BY <1>0, <3>1, <3>2, <3>3 DEF Working, InProgress
      <3>5. History'
        BY <1>6, <1>9, <3>1 DEF History
      <3>6. QED
        BY <3>4, <3>5
    <2>2. CASE whole
      <3>1. /\ cur'.phase = "ask" /\ cur'.uses = <<>> /\ cur'.results = <<>>
            /\ messages' = Append(messages, said)
        BY <1>7, <1>9, <2>2
      <3>2. /\ Len(messages') = Len(messages) + 1 /\ Len(messages) \in Nat /\ messages' # <<>>
            /\ messages'[Len(messages) + 1] = said
            /\ \A i \in 1 .. Len(messages) : messages'[i] = messages[i]
        BY <1>0, <1>9, <3>1
      <3>3. messages # <<>> /\ messages[Len(messages)].uses = cur.uses
        BY <1>0 DEF Working
      <3>4. Working'
        BY <1>9, <3>1, <3>2 DEF Working, InProgress
      <3>5. Sound(calls, turns, cur.results, cur.uses)'
        BY <3>1 DEF Sound
      <3>6. ASSUME NEW i \in 1 .. Len(messages') - 1
            PROVE  Complete(calls', turns', messages'[i + 1].results, messages'[i].uses)
        <4>1. i \in 1 .. Len(messages)
          BY <3>2
        <4>2. CASE i = Len(messages)
          <5>1. messages'[i].uses = cur.uses /\ messages'[i + 1].results = results
            BY <1>9, <3>2, <3>3, <4>1, <4>2
          <5>2. QED
            BY <1>6, <1>9, <2>2, <5>1 DEF Complete, whole
        <4>3. CASE i # Len(messages)
          <5>1. i \in 1 .. Len(messages) - 1 /\ i + 1 \in 1 .. Len(messages)
            BY <3>2, <4>1, <4>3
          <5>2. QED
            BY <1>9, <3>2, <5>1 DEF History
        <4>4. QED
          BY <4>2, <4>3
      <3>7. QED
        BY <3>4, <3>5, <3>6 DEF History
    <2>3. QED
      BY <2>1, <2>2
  <1>13. Indexed'
    <2> DEFINE n == Len(cur.called)
               k == Len(cur.searches)
    <2>1. /\ n \in Nat /\ k \in Nat /\ NextUse.id = n + 1
          /\ Len(cur'.called) = n + 1 /\ cur'.called[n + 1] = NextUse.name
          /\ \A i \in 1 .. n : cur'.called[i] = cur.called[i]
          /\ 1 .. n + 1 = 1 .. n \cup {n + 1} /\ n + 1 \notin 1 .. n
      <3>1. n \in Nat /\ k \in Nat
        BY <1>a
      <3>2. PICK name \in Names : name = NextUse.name
        BY <1>1
      <3>3. cur'.called = Append(cur.called, name)
        BY <1>7, <3>2
      <3>4. QED
        BY <1>1, <1>a, <3>1, <3>2, <3>3, OneMore
    <2>2. SearchesOf(cur'.called) = SearchesOf(cur.called) \cup (IF NextUse.name = SearchDocs THEN {n + 1} ELSE {})
      BY <2>1 DEF SearchesOf
    <2>3. SearchesOf(cur.called) \subseteq 1 .. n
      BY DEF SearchesOf
    <2>4. /\ {cur.searches[i] : i \in 1 .. k} = SearchesOf(cur.called)
          /\ \A i, j \in 1 .. k : i < j => cur.searches[i] < cur.searches[j]
      BY DEF Indexed, IndexedBySearch
    <2>5. NextUse.name = SearchDocs =>
            /\ Len(cur'.searches) = k + 1 /\ cur'.searches[k + 1] = n + 1
            /\ \A i \in 1 .. k : cur'.searches[i] = cur.searches[i]
            /\ 1 .. k + 1 = 1 .. k \cup {k + 1} /\ k + 1 \notin 1 .. k
      <3>1. PICK use \in Nat : use = NextUse.id
        BY <1>1
      <3>2. NextUse.name = SearchDocs => cur'.searches = Append(cur.searches, use)
        BY <1>7, <3>1
      <3>3. cur.searches \in Seq(Nat) /\ use = n + 1
        BY <1>a, <2>1, <3>1
      <3>4. /\ Len(Append(cur.searches, use)) = k + 1 /\ Append(cur.searches, use)[k + 1] = use
            /\ \A i \in 1 .. k : Append(cur.searches, use)[i] = cur.searches[i]
            /\ 1 .. k + 1 = 1 .. k \cup {k + 1} /\ k + 1 \notin 1 .. k
        BY <3>3, OneMore
      <3>5. QED
        BY <3>2, <3>3, <3>4
    <2>6. NextUse.name # SearchDocs => cur'.searches = cur.searches
      BY <1>7
    <2>7. \A i \in 1 .. k : cur.searches[i] \in 1 .. n
      BY <2>3, <2>4
    <2>8. UNCHANGED <<calls, turns>>
      BY <1>9
    <2> HIDE DEF n, k
    <2>9. {cur'.searches[i] : i \in 1 .. Len(cur'.searches)} = SearchesOf(cur'.called)
      <3>1. CASE NextUse.name = SearchDocs
        <4>1. {cur'.searches[i] : i \in 1 .. k \cup {k + 1}} = {cur.searches[i] : i \in 1 .. k} \cup {n + 1}
          BY <2>5, <3>1
        <4>2. 1 .. Len(cur'.searches) = 1 .. k \cup {k + 1}
          BY <2>5, <3>1
        <4>3. QED
          BY <2>2, <2>4, <3>1, <4>1, <4>2
      <3>2. CASE NextUse.name # SearchDocs
        BY <2>2, <2>4, <2>6, <3>2 DEF k
      <3>3. QED
        BY <3>1, <3>2
    <2>10. \A i, j \in 1 .. Len(cur'.searches) : i < j => cur'.searches[i] < cur'.searches[j]
      <3>1. CASE NextUse.name = SearchDocs
        <4>1. SUFFICES ASSUME NEW i \in 1 .. k + 1, NEW j \in 1 .. k + 1, i < j
                       PROVE  cur'.searches[i] < cur'.searches[j]
          BY <2>5, <3>1
        <4>2. i \in 1 .. k
          BY <2>1, <4>1
        <4>3. CASE j = k + 1
          <5>1. cur.searches[i] \in 1 .. n
            BY <2>7, <4>2
          <5>2. cur.searches[i] < n + 1
            BY <2>1, <5>1
          <5>3. QED
            BY <2>5, <3>1, <4>2, <4>3, <5>2
        <4>4. CASE j # k + 1
          BY <2>4, <2>5, <3>1, <4>1, <4>2, <4>4
        <4>5. QED
          BY <4>3, <4>4
      <3>2. CASE NextUse.name # SearchDocs
        BY <2>4, <2>6, <3>2 DEF k
      <3>3. QED
        BY <3>1, <3>2
    <2> DEFINE Found(r, searches) ==
          /\ r.index + 1 \in 1 .. Len(searches)
          /\ calls[r.from].turn = turns /\ calls[r.from].use = searches[r.index + 1]
          /\ r.from \in 1 .. Len(calls)
    <2>11. \A e \in 1 .. Len(cur'.retrieved) : Found(cur'.retrieved[e], cur'.searches)
      <3>1. \A e \in 1 .. Len(cur.retrieved) : Found(cur.retrieved[e], cur.searches)
        BY DEF Indexed, IndexedBySearch
      <3>2. ASSUME NEW r, Found(r, cur.searches)
            PROVE  Found(r, cur'.searches)
        <4>1. r.index + 1 \in 1 .. k
          BY <3>2 DEF k
        <4>2. CASE NextUse.name = SearchDocs
          BY <2>5, <3>2, <4>1, <4>2
        <4>3. CASE NextUse.name # SearchDocs
          BY <2>6, <3>2, <4>3
        <4>4. QED
          BY <4>2, <4>3
      <3>3. CASE ~found
        <4>1. cur'.retrieved = cur.retrieved
          BY <1>7, <3>3
        <4> HIDE DEF Found
        <4>2. QED
          BY <3>1, <3>2, <4>1
      <3>4. CASE found
        <4>1. PICK chunk : chunk = [from |-> from, index |-> k]
          OBVIOUS
        <4>2. chunk \in [from : Nat, index : Nat] /\ chunk.from = from /\ chunk.index = k
          BY <1>0, <2>1, <4>1
        <4>3. cur'.retrieved = Append(cur.retrieved, chunk)
          BY <1>7, <3>4, <4>1 DEF k
        <4>4. Found(chunk, cur'.searches)
          <5>1. from # 0 /\ NextUse.name = SearchDocs
            BY <3>4
          <5>2. calls[from].turn = turns /\ calls[from].use = n + 1
            BY <2>1, <5>1
          <5>3. from \in 1 .. Len(calls)
            BY <1>0, <5>1
          <5>4. k + 1 \in 1 .. k + 1
            BY <2>1
          <5>5. QED
            BY <2>5, <4>2, <5>1, <5>2, <5>3, <5>4
        <4>5. /\ Len(cur'.retrieved) = Len(cur.retrieved) + 1
              /\ cur'.retrieved[Len(cur.retrieved) + 1] = chunk
              /\ \A e \in 1 .. Len(cur.retrieved) : cur'.retrieved[e] = cur.retrieved[e]
              /\ 1 .. Len(cur.retrieved) + 1 = 1 .. Len(cur.retrieved) \cup {Len(cur.retrieved) + 1}
          BY <1>a, <4>2, <4>3, OneMore
        <4> HIDE DEF Found
        <4>6. QED
          BY <3>1, <3>2, <4>4, <4>5
      <3>5. QED
        BY <3>3, <3>4
    <2>12. QED
      BY <2>8, <2>9, <2>10, <2>11 DEF Indexed, IndexedBySearch
  <1>14. InOrder'
    BY <1>9, SameServer
  <1>15. QED
    BY <1>10, <1>11, <1>12, <1>13, <1>14
\* An observation in hand is that of the call the turn waits for.
LEMMA AnsweredInv ==
  ASSUME AgentInv, Return \/ ToolFails
  PROVE  AgentInv'
  <1> USE DEF AgentInv
  <1>1. /\ cur.call \in 1 .. Len(calls) /\ cur.phase = "called" /\ Len(calls) \in Nat
        /\ calls[cur.call] = [turn |-> turns, use |-> NextUse.id, name |-> NextUse.name]
    <2>1. cur.phase = "called"
      BY DEF Return, ToolFails
    <2>2. QED
      BY <2>1, TurnTypes DEF Working
  <1>2. CASE Return
    <2>1. /\ answer # None /\ answer.id = cur.call /\ answer.found \in BOOLEAN
          /\ answer.found => calls[answer.id].name = SearchDocs
          /\ Observe(answer.id, answer.found)
      BY <1>2 DEF Return, Addressed, TypeOK, Observation
    <2>2. NextUse.name = calls[cur.call].name
      BY <1>1
    <2>3. PICK found \in BOOLEAN : (found <=> answer.found) /\ found = answer.found
      BY <2>1, Zenon
    <2>4. answer.id \in 0 .. Len(calls) /\ answer.id # 0
      BY <1>1, <2>1
    <2>5. Observe(answer.id, found)
      BY <2>1, <2>3, Zenon
    <2>6. QED
      BY <1>1, <2>1, <2>2, <2>3, <2>4, <2>5, ObserveInv
  <1>3. CASE ToolFails
    <2>1. Observe(0, FALSE)
      BY <1>3, Zenon DEF ToolFails
    <2>2. 0 \in 0 .. Len(calls)
      BY <1>1
    <2>3. QED
      BY <1>1, <2>1, <2>2, ObserveInv
  <1>4. QED
    BY <1>2, <1>3

\* The server takes the oldest call: it comes after all the calls that left a span, and
\* before all the others.
LEMMA ServeInv ==
  ASSUME AgentInv, NEW found \in BOOLEAN, Serve(found)
  PROVE  AgentInv'
  <1> USE DEF AgentInv
  <1>1. PICK id : id = Head(queue)
    OBVIOUS
  <1>2. /\ alive /\ queue # <<>> /\ queue \in Seq(Nat) /\ spans \in Seq(Nat)
        /\ found => calls[id].name = SearchDocs
        /\ queue' = Tail(queue)
        /\ spans' = IF calls[id].name \in Tools THEN Append(spans, id) ELSE spans
        /\ answer' = IF cur.phase = "called" /\ cur.call = id THEN [id |-> id, found |-> found] ELSE answer
        /\ UNCHANGED <<turns, cur, messages, flight, reply, stats, billed, calls, upsets>> /\ alive'
    BY <1>1 DEF Serve, Traced, WaitsFor, TypeOK, agentSide, gatewaySide
  <1>3. /\ id \in Nat /\ queue' \in Seq(Nat) /\ id = queue[1]
        /\ Len(queue) \in Nat /\ Len(queue) > 0 /\ Len(queue') = Len(queue) - 1
        /\ \A i \in 1 .. Len(queue') : i + 1 \in 1 .. Len(queue) /\ queue'[i] = queue[i + 1]
    BY <1>1, <1>2
  <1>4. \A i \in 1 .. Len(queue') : id < queue'[i]
    <2>1. SUFFICES ASSUME NEW i \in 1 .. Len(queue') PROVE id < queue[i + 1]
      BY <1>3
    <2>2. i + 1 \in 1 .. Len(queue) /\ 1 \in 1 .. Len(queue) /\ 1 < i + 1
      BY <1>3
    <2>3. QED
      BY <1>3, <2>2 DEF InOrder, Ascending
  <1>5. Held(queue) = Held(queue') \cup {id} /\ id \notin Held(queue')
    <2>1. ASSUME NEW x \in Held(queue) PROVE x \in Held(queue') \cup {id}
      <3>1. PICK i \in 1 .. Len(queue) : x = queue[i]
        BY DEF Held
      <3>2. CASE i = 1
        BY <1>3, <3>1, <3>2
      <3>3. CASE i # 1
        <4>1. i - 1 \in 1 .. Len(queue') /\ queue'[i - 1] = queue[i]
          BY <1>3, <3>3
        <4>2. QED
          BY <3>1, <4>1 DEF Held
      <3>4. QED
        BY <3>2, <3>3
    <2>2. ASSUME NEW x \in Held(queue') \cup {id} PROVE x \in Held(queue)
      <3>1. 1 \in 1 .. Len(queue)
        BY <1>3
      <3>2. QED
        BY <1>3, <2>2, <3>1 DEF Held
    <2>3. id \notin Held(queue')
      BY <1>3, <1>4 DEF Held
    <2>4. QED
      BY <2>1, <2>2, <2>3
  <1>6. Held(queue) \subseteq 1 .. Len(calls) /\ Held(spans) \subseteq 1 .. Len(calls)
    BY DEF InOrder
  <1>7. id \in 1 .. Len(calls)
    BY <1>5, <1>6
  <1>8. TypeOK'
    <2>1. spans' \in Seq(Nat)
      BY <1>2, <1>3
    <2>2. [id |-> id, found |-> found] \in Observation
      BY <1>3 DEF Observation
    <2>3. answer' \in Observation \cup {None}
      BY <1>2, <2>2 DEF TypeOK
    <2>4. QED
      BY <1>2, <1>3, <2>1, <2>3 DEF TypeOK
  <1>9. Addressed'
    <2>1. CASE cur.phase = "called" /\ cur.call = id
      <3>1. answer'.id = id /\ (answer'.found <=> found)
        BY <1>2, <2>1
      <3>2. QED
        BY <1>2, <2>1, <3>1 DEF Addressed
    <2>2. CASE ~(cur.phase = "called" /\ cur.call = id)
      BY <1>2, <2>2 DEF Addressed
    <2>3. QED
      BY <2>1, <2>2
  <1>10. Counted' /\ InFlight' /\ Charged' /\ Working' /\ History' /\ Indexed'
    BY <1>2 DEF Counted, InFlight, Charged, CostKnown, Due, Working, InProgress, NextUse,
                History, Indexed, IndexedBySearch
  <1>11. InOrder'
    <2>1. Ascending(queue')
      <3>1. SUFFICES ASSUME NEW i \in 1 .. Len(queue'), NEW j \in 1 .. Len(queue'), i < j
                     PROVE  queue[i + 1] < queue[j + 1]
        BY <1>3 DEF Ascending
      <3>2. i + 1 \in 1 .. Len(queue) /\ j + 1 \in 1 .. Len(queue) /\ i + 1 < j + 1
        BY <1>3, <3>1
      <3>3. QED
        BY <3>2 DEF InOrder, Ascending
    <2>2. \A s \in Held(spans) : s < id
      BY <1>5 DEF InOrder
    <2>3. \A q \in Held(queue') : id < q
      BY <1>4 DEF Held
    <2>4. CASE calls[id].name \in Tools
      <3>1. /\ Len(spans') = Len(spans) + 1 /\ Len(spans) \in Nat /\ spans'[Len(spans) + 1] = id
            /\ \A i \in 1 .. Len(spans) : spans'[i] = spans[i]
            /\ 1 .. Len(spans) + 1 = 1 .. Len(spans) \cup {Len(spans) + 1}
        BY <1>2, <1>3, <2>4, OneMore
      <3>2. Held(spans') = Held(spans) \cup {id}
        BY <3>1 DEF Held
      <3>3. Ascending(spans')
        <4>1. SUFFICES ASSUME NEW i \in 1 .. Len(spans) + 1, NEW j \in 1 .. Len(spans) + 1, i < j
                       PROVE  spans'[i] < spans'[j]
          BY <3>1 DEF Ascending
        <4>2. i \in 1 .. Len(spans)
          BY <3>1, <4>1
        <4>3. CASE j = Len(spans) + 1
          <5>1. spans[i] < id
            BY <2>2, <4>2 DEF Held
          <5>2. QED
            BY <3>1, <4>2, <4>3, <5>1
        <4>4. CASE j # Len(spans) + 1
          BY <3>1, <4>1, <4>2, <4>4 DEF InOrder, Ascending
        <4>5. QED
          BY <4>3, <4>4
      <3>4. \A s \in Held(spans'), q \in Held(queue') : s < q
        BY <1>5, <2>3, <3>2 DEF InOrder
      <3>5. Held(spans') = {i \in 1 .. Len(calls) \ Held(queue') : calls[i].name \in Tools}
        BY <1>2, <1>5, <1>7, <2>4, <3>2 DEF InOrder, ToolsTraced
      <3>6. Held(queue') \cup Held(spans') \subseteq 1 .. Len(calls)
        BY <1>5, <1>6, <3>2
      <3>7. QED
        BY <1>2, <2>1, <3>3, <3>4, <3>5, <3>6 DEF InOrder, ToolsTraced
    <2>5. CASE calls[id].name \notin Tools
      <3>1. spans' = spans
        BY <1>2, <2>5
      <3>2. Held(spans) = {i \in 1 .. Len(calls) \ Held(queue') : calls[i].name \in Tools}
        BY <1>2, <1>5, <2>5 DEF InOrder, ToolsTraced
      <3>3. Held(queue') \cup Held(spans) \subseteq 1 .. Len(calls)
        BY <1>5, <1>6
      <3>4. \A s \in Held(spans), q \in Held(queue') : s < q
        BY <1>5 DEF InOrder
      <3>5. QED
        BY <1>2, <2>1, <3>1, <3>2, <3>3, <3>4 DEF InOrder, ToolsTraced
    <2>6. QED
      BY <2>4, <2>5
  <1>12. QED
    BY <1>8, <1>9, <1>10, <1>11

\* With the server gone nothing is owed to anyone.
LEMMA DieInv ==
  ASSUME AgentInv, Die
  PROVE  AgentInv'
  <1> USE DEF AgentInv
  <1>1. /\ queue' = <<>> /\ ~alive' /\ alive' \in BOOLEAN /\ upsets' \in 0 .. MaxUpsets
        /\ UNCHANGED <<turns, cur, messages, flight, reply, stats, billed, calls, answer, spans>>
    <2>1. upsets' \in 0 .. MaxUpsets
      BY AgentAssumption DEF Die, Upset, TypeOK
    <2>2. alive' = FALSE
      BY DEF Die
    <2>3. QED
      BY <2>1, <2>2 DEF Die, agentSide, gatewaySide
  <1>2. TypeOK'
    BY <1>1 DEF TypeOK
  <1>3. /\ Addressed' /\ Counted' /\ InFlight' /\ Charged' /\ Working' /\ History' /\ Indexed'
    BY <1>1 DEF Addressed, Counted, InFlight, Charged, CostKnown, Due, Working, InProgress, NextUse,
                History, Indexed, IndexedBySearch
  <1>4. InOrder'
    <2>1. Held(queue') = {} /\ Ascending(queue')
      BY <1>1 DEF Held, Ascending
    <2>2. QED
      BY <1>1, <2>1 DEF InOrder, ToolsTraced
  <1>5. QED
    BY <1>2, <1>3, <1>4
\* The counters go up by natural numbers.
LEMMA CounterTypes ==
  ASSUME TypeOK, NEW alias \in Aliases, NEW cost \in Nat
  PROVE  Success(alias, cost) \in Stats /\ Failure(alias) \in Stats
  <1>1. /\ stats \in Stats /\ stats.by \in [Aliases -> Counter] /\ stats.by[alias] \in Counter
        /\ stats.requests \in Nat /\ stats.errors \in Nat /\ stats.cost \in Nat
    BY DEF TypeOK, Stats
  <1>a. /\ stats.requests + 1 \in Nat /\ stats.errors + 1 \in Nat /\ stats.cost + cost \in Nat
    BY <1>1
  <1>b. PICK old \in Counter : old = stats.by[alias]
    BY <1>1
  <1>c. /\ old.requests + 1 \in Nat /\ old.cost + cost \in Nat
    BY DEF Counter
  <1>2. PICK more \in Counter : more = [requests |-> stats.by[alias].requests + 1,
                                        cost |-> stats.by[alias].cost + cost]
    <2>1. [requests |-> old.requests + 1, cost |-> old.cost + cost] \in Counter
      BY <1>c DEF Counter
    <2>2. QED
      BY <1>b, <2>1
  <1>3. PICK again \in Counter : again = [stats.by[alias] EXCEPT !.requests = @ + 1]
    <2>1. [old EXCEPT !.requests = old.requests + 1] \in Counter
      BY <1>c DEF Counter
    <2>2. QED
      BY <1>b, <2>1
  <1>4. PICK by \in [Aliases -> Counter] : by = [stats.by EXCEPT ![alias] = more]
    BY <1>1, <1>2
  <1>5. PICK by2 \in [Aliases -> Counter] : by2 = [stats.by EXCEPT ![alias] = again]
    BY <1>1, <1>3
  <1>6. Success(alias, cost) = [stats EXCEPT !.requests = @ + 1, !.cost = @ + cost, !.by = by]
    BY <1>1, <1>2, <1>4 DEF Success, Stats
  <1>7. Failure(alias) = [stats EXCEPT !.requests = @ + 1, !.errors = @ + 1, !.by = by2]
    BY <1>1, <1>3, <1>5 DEF Failure, Stats
  <1>8. QED
    BY <1>1, <1>a, <1>6, <1>7 DEF Stats

\* The gateway answers a request, counts it and charges its turn, waited for or not.
LEMMA ChatOnceInv ==
  ASSUME AgentInv, NEW r \in flight, ChatOnce(r)
  PROVE  AgentInv'
  <1> USE DEF AgentInv
  <1>1. /\ r \in Request /\ r.turn \in Turns /\ r.alias \in Aliases /\ r.turn <= turns
        /\ flight' = flight \ {r}
        /\ UNCHANGED <<turns, cur, messages, calls, queue, answer, spans, alive, upsets>>
    BY DEF ChatOnce, TypeOK, Request, InFlight, agentSide, serverSide
  <1>2. r.turn = turns /\ cur.phase # "failed" =>
          /\ Awaited(r) /\ reply = None /\ (cur.truncated => ~r.offered)
          /\ \A q \in flight' : q.turn # turns
    BY <1>1 DEF InFlight, Awaited
  <1>3. \A q \in flight' : q \in flight
    BY <1>1
  <1>a. Awaited(r) => r.turn = turns /\ cur.phase = "asked" /\ cur.phase # "failed"
    BY DEF Awaited
  <1>4. Counted' /\ Working' /\ History' /\ Indexed' /\ InOrder'
    BY <1>1, SameServer DEF Counted, Working, InProgress, NextUse, History, Indexed, IndexedBySearch
  <1>5. InFlight'
    <2>1. CASE Awaited(r)
      BY <1>1, <1>2, <1>3, <1>a, <2>1 DEF InFlight
    <2>2. CASE ~Awaited(r)
      <3>1. reply' = reply
        BY <2>2 DEF ChatOnce
      <3>2. QED
        BY <1>1, <1>3, <3>1 DEF InFlight
    <2>3. QED
      BY <2>1, <2>2
  <1>6. CASE /\ stats' = Failure(r.alias) /\ billed' = billed
             /\ reply' = IF Awaited(r) THEN Failed ELSE reply
    <2>1. TypeOK'
      <3>1. stats' \in Stats
        BY <1>1, <1>6, CounterTypes
      <3>2. reply' \in Reply \cup {None, Failed}
        BY <1>6 DEF TypeOK
      <3>3. QED
        BY <1>1, <1>3, <1>6, <3>1, <3>2 DEF TypeOK
    <2>2. Addressed'
      BY <1>1, <1>6, <1>a DEF Addressed
    <2>3. Charged'
      BY <1>1, <1>2, <1>6, <1>a DEF Charged, CostKnown, Due
    <2>4. QED
      BY <1>4, <1>5, <2>1, <2>2, <2>3
  <1>7. ASSUME NEW cost \in 1 .. MaxCost, NEW uses \in IF r.offered THEN UseLists \cup {<<>>} ELSE {<<>>},
               stats' = Success(r.alias, cost), billed' = [billed EXCEPT ![r.turn] = @ + cost],
               reply' = IF Awaited(r) THEN [cost |-> cost, uses |-> uses] ELSE reply
        PROVE  AgentInv'
    <2>1. PICK said : said = [cost |-> cost, uses |-> uses]
      OBVIOUS
    <2>2. /\ cost \in Nat /\ uses \in Seq(Names) /\ (~r.offered => uses = <<>>)
      <3>1. cost \in Nat
        BY AgentAssumption
      <3>2. UseLists \subseteq Seq(Names) /\ <<>> \in Seq(Names)
        BY AgentAssumption
      <3>3. r.offered => uses \in UseLists \cup {<<>>}
        OBVIOUS
      <3>4. ~r.offered => uses \in {<<>>}
        OBVIOUS
      <3>5. QED
        BY <3>1, <3>2, <3>3, <3>4
    <2>3. /\ said \in Reply /\ said.cost = cost /\ said.uses = uses
          /\ said \notin {None, Failed}
      BY <2>1, <2>2, AgentAssumption DEF Reply
    <2>4. reply' = IF Awaited(r) THEN said ELSE reply
      BY <1>7, <2>1
    <2>5. /\ billed' \in [0 .. MaxTurns -> Nat] /\ r.turn \in 0 .. MaxTurns
          /\ billed'[r.turn] = billed[r.turn] + cost
          /\ \A t \in 0 .. MaxTurns : billed[t] \in Nat /\ (t # r.turn => billed'[t] = billed[t])
      <3>1. billed \in [0 .. MaxTurns -> Nat] /\ r.turn \in 0 .. MaxTurns
        BY <1>1 DEF TypeOK, Turns
      <3>2. PICK more \in Nat : more = billed[r.turn] + cost
        BY <2>2, <3>1
      <3>3. billed' = [billed EXCEPT ![r.turn] = more]
        BY <1>7, <3>2
      <3>4. QED
        BY <3>1, <3>2, <3>3
    <2>6. TypeOK'
      <3>1. stats' \in Stats
        BY <1>1, <1>7, <2>2, CounterTypes
      <3>2. reply' \in Reply \cup {None, Failed}
        BY <2>3, <2>4 DEF TypeOK
      <3>3. QED
        BY <1>1, <1>3, <2>5, <3>1, <3>2 DEF TypeOK
    <2>7. Addressed'
      <3>1. CASE Awaited(r)
        BY <1>1, <1>2, <1>a, <2>2, <2>3, <2>4, <3>1 DEF Addressed
      <3>2. CASE ~Awaited(r)
        BY <1>1, <2>4, <3>2 DEF Addressed
      <3>3. QED
        BY <3>1, <3>2
    <2>8. Charged'
      <3>1. \A t \in Turns : t > turns' => billed'[t] = 0
        <4>1. SUFFICES ASSUME NEW t \in Turns, t > turns PROVE billed'[t] = 0
          BY <1>1
        <4>2. t # r.turn /\ t \in 0 .. MaxTurns
          BY <1>1, <4>1, TurnTypes DEF Turns
        <4>3. QED
          BY <2>5, <4>1, <4>2 DEF Charged
      <3>2. turns \in 0 .. MaxTurns /\ cur.cost \in Nat /\ turns > 0
        BY <1>1, TurnTypes DEF Turns
      <3>3. CASE r.turn = turns /\ cur.phase # "failed"
        <4>1. Awaited(r) /\ reply = None /\ cur.phase = "asked" /\ Due' = cost
          BY <1>2, <1>a, <2>3, <2>4, <3>3 DEF Due
        <4>2. billed[turns] = cur.cost
          <5>1. Due = 0
            BY <4>1 DEF Due
          <5>2. QED
            BY <3>2, <3>3, <5>1 DEF Charged
        <4>3. billed'[turns] = cur.cost + cost
          BY <2>5, <3>3, <4>2
        <4>4. cur.cost <= cur.cost + cost
          BY <2>2, <3>2
        <4>5. QED
          BY <1>1, <3>1, <4>1, <4>3, <4>4 DEF Charged, CostKnown
      <3>4. CASE r.turn = turns /\ cur.phase = "failed"
        <4>1. cur.cost <= billed[turns] /\ billed[turns] \in Nat
          BY <2>5, <3>2 DEF Charged, CostKnown
        <4>2. cur.cost <= billed'[turns]
          BY <2>2, <2>5, <3>2, <3>4, <4>1
        <4>3. QED
          BY <1>1, <3>1, <3>4, <4>2 DEF Charged, CostKnown
      <3>5. CASE r.turn # turns
        <4>1. reply' = reply /\ billed'[turns] = billed[turns]
          BY <1>a, <2>4, <2>5, <3>2, <3>5
        <4>2. QED
          BY <1>1, <3>1, <4>1 DEF Charged, CostKnown, Due
      <3>6. QED
        BY <3>3, <3>4, <3>5
    <2>9. QED
      BY <1>4, <1>5, <2>6, <2>7, <2>8
  <1>8. QED
    BY <1>6, <1>7 DEF ChatOnce

\* Streams of other clients are charged to nobody's turn.
LEMMA StreamChatInv ==
  ASSUME AgentInv, NEW alias \in Aliases, StreamChat(alias)
  PROVE  AgentInv'
  <1> USE DEF AgentInv
  <1>1. /\ upsets' \in 0 .. MaxUpsets
        /\ UNCHANGED <<turns, cur, messages, flight, reply, calls, queue, answer, spans, alive>>
    <2>1. Upset
      BY DEF StreamChat
    <2>2. upsets \in 0 .. MaxUpsets /\ MaxUpsets \in Nat
      BY AgentAssumption DEF TypeOK
    <2>3. upsets' \in 0 .. MaxUpsets
      BY <2>1, <2>2 DEF Upset
    <2>4. UNCHANGED <<turns, cur, messages, flight, reply, calls, queue, answer, spans, alive>>
      BY DEF StreamChat, agentSide, serverSide
    <2>5. QED
      BY <2>3, <2>4
  <1>2. \A cost \in 1 .. MaxCost : cost \in Nat
    BY AgentAssumption
  <1>3. stats' \in Stats
    <2>1. \/ \E cost \in 1 .. MaxCost : stats' = Success(alias, cost)
          \/ stats' = Failure(alias) \/ stats' = stats
      BY DEF StreamChat
    <2>2. QED
      BY <1>2, <2>1, CounterTypes DEF TypeOK
  <1>4. billed' \in [0 .. MaxTurns -> Nat] /\ \A t \in Turns : billed'[t] = billed[t]
    <2>1. billed \in [0 .. MaxTurns -> Nat] /\ MaxTurns \in Nat
      BY AgentAssumption DEF TypeOK
    <2>2. CASE billed' = billed
      BY <2>1, <2>2
    <2>3. ASSUME NEW cost \in 1 .. MaxCost, billed' = [billed EXCEPT ![0] = @ + cost]
          PROVE  <1>4!:
      <3>1. 0 \in 0 .. MaxTurns
        BY <2>1
      <3>2. PICK more \in Nat : more = billed[0] + cost
        BY <1>2, <2>1, <3>1
      <3>3. billed' = [billed EXCEPT ![0] = more]
        BY <2>3, <3>2
      <3>4. \A t \in Turns : t # 0 /\ t \in 0 .. MaxTurns
        BY <2>1 DEF Turns
      <3>5. QED
        BY <2>1, <3>3, <3>4
    <2>4. QED
      BY <2>2, <2>3 DEF StreamChat
  <1>5. TypeOK'
    BY <1>1, <1>3, <1>4 DEF TypeOK
  <1>6. Charged'
    <2>1. turns \in 0 .. MaxTurns /\ (turns > 0 => turns \in Turns)
      BY TurnTypes DEF Turns
    <2>2. QED
      BY <1>1, <1>4, <2>1 DEF Charged, CostKnown, Due
  <1>7. /\ Addressed' /\ Counted' /\ InFlight' /\ Working' /\ History' /\ Indexed' /\ InOrder'
    BY <1>1, SameServer DEF Addressed, Counted, InFlight, Working, InProgress, NextUse,
                History, Indexed, IndexedBySearch
  <1>8. QED
    BY <1>5, <1>6, <1>7

\* A request that breaks off with its gateway had not been answered.
LEMMA RestartGatewayInv ==
  ASSUME AgentInv, RestartGateway
  PROVE  AgentInv'
  <1> USE DEF AgentInv
  <1>1. /\ upsets' \in 0 .. MaxUpsets /\ flight' = {} /\ stats' = NoStats
        /\ UNCHANGED <<turns, cur, messages, billed, calls, queue, answer, spans, alive>>
    BY AgentAssumption DEF RestartGateway, Upset, agentSide, serverSide, TypeOK
  <1>2. \/ reply' = reply
        \/ reply' = Failed /\ reply = None /\ cur.phase = "asked"
    <2>1. ASSUME NEW r \in flight, Awaited(r)
          PROVE  reply = None /\ cur.phase = "asked"
      BY <2>1 DEF Awaited, InFlight
    <2>2. QED
      BY <2>1 DEF RestartGateway
  <1>3. stats' \in Stats
    BY <1>1 DEF NoStats, Stats, Counter
  <1>4. TypeOK'
    BY <1>1, <1>2, <1>3 DEF TypeOK
  <1>5. Addressed' /\ Charged'
    BY <1>1, <1>2 DEF Addressed, Charged, CostKnown, Due
  <1>6. /\ Counted' /\ InFlight' /\ Working' /\ History' /\ Indexed' /\ InOrder'
    BY <1>1, SameServer DEF Counted, InFlight, Working, InProgress, NextUse,
                History, Indexed, IndexedBySearch
  <1>7. QED
    BY <1>4, <1>5, <1>6

-----------------------------------------------------------------------------
\* Every step preserves the invariant, whichever process takes it.
LEMMA NextInv ==
  ASSUME AgentInv, [Next]_agentVars
  PROVE  AgentInv'
  <1>1. CASE Agent
    BY <1>1, AskInv, FailInv, ReceiveInv, CallToolInv, AnsweredInv DEF Agent
  <1>2. CASE UNCHANGED agentVars
    <2>1. /\ UNCHANGED <<turns, cur, messages, flight, reply, stats, billed, calls, queue, answer,
                         spans, upsets>>
          /\ (alive' <=> alive) /\ alive' = alive
      BY <1>2 DEF agentVars
    <2>2. TypeOK'
      BY <2>1 DEF AgentInv, TypeOK
    <2>3. /\ Addressed' /\ Counted' /\ InFlight' /\ Charged' /\ Working' /\ History' /\ Indexed' /\ InOrder'
      BY <2>1, SameServer DEF AgentInv, Addressed, Counted, InFlight, Charged, CostKnown, Due, Working,
            InProgress, NextUse, History, Indexed, IndexedBySearch
    <2>4. QED
      BY <2>2, <2>3 DEF AgentInv
  <1>3. QED
    BY <1>1, <1>2, StartTurnInv, ServeInv, DieInv, ChatOnceInv, StreamChatInv, RestartGatewayInv DEF Next

\* It is an invariant.
LEMMA Invariant == Spec => []AgentInv
  <1>1. Init => AgentInv
    BY InitInv
  <1>2. AgentInv /\ [Next]_agentVars => AgentInv'
    BY NextInv
  <1>3. QED
    BY <1>1, <1>2, PTL DEF Spec

\* Results that are sound answer their uses.
LEMMA SoundAnswers ==
  ASSUME NEW results, NEW uses, Sound(calls, turns, results, uses)
  PROVE  Answers(results, uses)
  BY DEF Sound, Answers

\* Nothing in any process ever leaves its type, whatever the turns, the gateway and the
\* server do to each other.
THEOREM TypeCorrect == Spec => []TypeOK
  <1>1. AgentInv => TypeOK
    BY DEF AgentInv
  <1>2. QED
    BY <1>1, Invariant, PTL

\* run_turn's history is one the provider accepts: every tool_use block is answered in
\* the message after it, by the call made for it in this very turn or by the loop's own
\* error, however late the server's replies to earlier calls are.
THEOREM HistoriesWellFormed == Spec => []Paired
  <1>1. ASSUME AgentInv
        PROVE  Paired
    <2>1. Answers(cur.results, cur.uses)
      BY <1>1, SoundAnswers DEF AgentInv, History
    <2>2. messages \in Seq(Message) /\ Len(messages) \in Nat
      BY <1>1, TurnTypes DEF AgentInv
    <2>3. ASSUME NEW i \in 1 .. Len(messages), messages[i].uses # <<>>, i < Len(messages)
          PROVE  /\ Answers(messages[i + 1].results, messages[i].uses)
                 /\ Len(messages[i + 1].results) = Len(messages[i].uses)
      <3>1. i \in 1 .. Len(messages) - 1
        BY <2>2, <2>3
      <3>2. QED
        BY <1>1, <2>3, <3>1, SoundAnswers DEF AgentInv, History, Complete
    <2>4. ASSUME NEW i \in 1 .. Len(messages), messages[i].uses # <<>>, ~(i < Len(messages))
          PROVE  cur.phase \notin {"ask", "asked", "done"}
      <3>1. i = Len(messages) /\ messages # <<>>
        BY <2>2, <2>4
      <3>2. QED
        BY <1>1, <2>4, <3>1 DEF AgentInv, Working, InProgress
    <2>5. QED
      BY <2>1, <2>3, <2>4 DEF Paired
  <1>2. QED
    BY <1>1, Invariant, PTL

\* What TurnResult says a finished turn cost is what the gateway charged for it, and a
\* failed one never claims more: requests given up on, late answers, errors and gateway
\* restarts included.
THEOREM CostsKnown == Spec => []CostKnown
  <1>1. AgentInv => CostKnown
    BY DEF AgentInv, Charged
  <1>2. QED
    BY <1>1, Invariant, PTL

\* Entry n of retrieval_calls is the n-th search_docs of the turn, failed ones included,
\* and every retrieved chunk carries the index of the call it came from.
THEOREM SearchesIndexed == Spec => []IndexedBySearch
  <1>1. AgentInv => IndexedBySearch
    BY DEF AgentInv, Indexed
  <1>2. QED
    BY <1>1, Invariant, PTL

\* While the server lives, the TOOL_CALL spans are those of the calls of known tools that
\* have left its queue, each once and in the order the agents made them, whether or not
\* anyone still waited.
THEOREM CallsTraced == Spec => []ToolsTraced
  <1>1. AgentInv => ToolsTraced
    BY DEF AgentInv, InOrder
  <1>2. QED
    BY <1>1, Invariant, PTL

-----------------------------------------------------------------------------
(***************************************************************************)
(* Sums.  The fold of a function takes the elements of its domain one by   *)
(* one; induction over the finite subsets of the domain is that every set  *)
(* of them has one with no smaller one in it.                              *)
(***************************************************************************)
\* One with no smaller one in it.
LEMMA Minimal ==
  ASSUME NEW S, IsFiniteSet(S), NEW Z \in SUBSET (SUBSET S), Z # {}
  PROVE  \E x \in Z : \A y \in Z : y \subseteq x => y = x
  <1>1. Z \subseteq FiniteSubsetsOf(S)
    BY FS_Subset DEF FiniteSubsetsOf
  <1>2. PICK x \in Z : \A y \in Z : <<y, x>> \notin StrictSubsetOrdering(S)
    BY <1>1, WFMin, FS_StrictSubsetOrderingWellFounded
  <1>3. ASSUME NEW y \in Z, y \subseteq x, y # x PROVE FALSE
    <2>1. <<y, x>> \in StrictSubsetOrdering(S)
      BY <1>1, <1>3 DEF StrictSubsetOrdering, FiniteSubsetsOf
    <2>2. QED
      BY <1>2, <2>1
  <1>4. QED
    BY <1>3

\* g sums up f over every subset of S, in the order the fold takes the elements.
Pick(u) == CHOOSE x \in u : TRUE
Sums(f, S, g) == g = [u \in SUBSET S |-> IF u = {} THEN 0 ELSE f[Pick(u)] + g[u \ {Pick(u)}]]

\* Taking an element out of a set leaves a smaller one.
LEMMA Picked == \A u : u # {} => Pick(u) \in u /\ u \ {Pick(u)} \subseteq u /\ u \ {Pick(u)} # u
  BY DEF Pick

\* A sum, by its first element.
LEMMA SumsAt ==
  ASSUME NEW f, NEW S, NEW g, Sums(f, S, g)
  PROVE  /\ g[{}] = 0
         /\ \A u \in SUBSET S : u # {} => g[u] = f[Pick(u)] + g[u \ {Pick(u)}]
  <1>1. \A u \in SUBSET S : g[u] = IF u = {} THEN 0 ELSE f[Pick(u)] + g[u \ {Pick(u)}]
    BY DEF Sums
  <1>2. QED
    BY <1>1

\* The sum over a set does not depend on what it is a subset of.
LEMMA SumsAgree ==
  ASSUME NEW f, NEW S, NEW R, NEW g, NEW h, Sums(f, S, g), Sums(f, R, h), IsFiniteSet(S)
  PROVE  \A u \in SUBSET S : u \subseteq R => g[u] = h[u]
  <1> DEFINE Z == {u \in SUBSET S : u \subseteq R /\ g[u] # h[u]}
  <1>1. SUFFICES ASSUME Z # {} PROVE FALSE
    OBVIOUS
  <1>2. PICK x \in Z : \A y \in Z : y \subseteq x => y = x
    <2>1. Z \in SUBSET (SUBSET S)
      OBVIOUS
    <2> HIDE DEF Z
    <2>2. QED
      BY <1>1, <2>1, Minimal
  <1>3. x \in SUBSET S /\ x \subseteq R /\ g[x] # h[x]
    BY <1>2
  <1>4. x # {}
    BY <1>3, SumsAt
  <1> DEFINE y == x \ {Pick(x)}
  <1>5. y \subseteq x /\ y # x
    BY <1>4, Picked
  <1>6. y \notin Z /\ y \in SUBSET S /\ y \subseteq R
    BY <1>2, <1>3, <1>5
  <1>7. g[y] = h[y]
    BY <1>6
  <1>8. g[x] = f[Pick(x)] + g[y] /\ h[x] = f[Pick(x)] + h[y]
    BY <1>3, <1>4, SumsAt
  <1>9. QED
    BY <1>3, <1>7, <1>8

\* The recursion of the fold has a solution.
LEMMA SumsExist ==
  ASSUME NEW f, NEW S, IsFiniteSet(S)
  PROVE  \E g : Sums(f, S, g)
  <1> DEFINE Z == {u \in SUBSET S : ~ \E g : Sums(f, u, g)}
  <1>1. SUFFICES ASSUME Z # {} PROVE FALSE
    <2>1. S \notin Z => \E g : Sums(f, S, g)
      OBVIOUS
    <2>2. QED
      BY <2>1
  <1>2. PICK x \in Z : \A y \in Z : y \subseteq x => y = x
    <2>1. Z \in SUBSET (SUBSET S)
      OBVIOUS
    <2> HIDE DEF Z
    <2>2. QED
      BY <1>1, <2>1, Minimal
  <1> DEFINE below(u) == CHOOSE g : Sums(f, u, g)
             part(u) == below(u)[u]
             h == [u \in SUBSET x |-> IF u = {} THEN 0 ELSE f[Pick(u)] + part(u \ {Pick(u)})]
  <1>3. \A u \in SUBSET x : u # x => Sums(f, u, below(u)) /\ IsFiniteSet(u)
    <2>1. \A u \in SUBSET x : u # x => \E g : Sums(f, u, g)
      BY <1>2
    <2>2. \A u \in SUBSET x : IsFiniteSet(u)
      BY <1>2, FS_Subset
    <2>3. QED
      BY <2>1, <2>2
  <1> HIDE DEF below
  <1>4. ASSUME NEW u \in SUBSET x, u # x
        PROVE  h[u] = part(u)
    <2>1. Sums(f, u, below(u)) /\ u \in SUBSET u
      BY <1>3, <1>4
    <2>2. CASE u = {}
      BY <2>1, <2>2, SumsAt
    <2>3. CASE u # {}
      <3> DEFINE v == u \ {Pick(u)}
      <3>1. v \in SUBSET u /\ v \in SUBSET x /\ v # x
        BY <1>4, <2>3
      <3>2. part(u) = f[Pick(u)] + below(u)[v]
        BY <2>1, <2>3, SumsAt
      <3>3. Sums(f, v, below(v)) /\ IsFiniteSet(v) /\ v \in SUBSET v
        BY <1>3, <3>1
      <3> HIDE DEF v
      <3>4. below(u)[v] = below(v)[v]
        BY <2>1, <3>1, <3>3, SumsAgree
      <3>5. h[u] = f[Pick(u)] + part(v)
        BY <2>3 DEF v
      <3>6. QED
        BY <3>2, <3>4, <3>5
    <2>4. QED
      BY <2>2, <2>3
  <1> HIDE DEF part
  <1>5. ASSUME NEW u \in SUBSET x
        PROVE  h[u] = IF u = {} THEN 0 ELSE f[Pick(u)] + h[u \ {Pick(u)}]
    <2>1. CASE u = {}
      BY <2>1
    <2>2. CASE u # {}
      <3>1. u \ {Pick(u)} \in SUBSET x /\ u \ {Pick(u)} # x
        BY <2>2, Picked
      <3>2. h[u \ {Pick(u)}] = part(u \ {Pick(u)})
        BY <1>4, <3>1
      <3>3. h[u] = f[Pick(u)] + part(u \ {Pick(u)})
        BY <2>2
      <3>4. QED
        BY <2>2, <3>2, <3>3
    <2>3. QED
      BY <2>1, <2>2
  <1>6. h = [u \in SUBSET x |-> h[u]]
    OBVIOUS
  <1> HIDE DEF h
  <1>7. Sums(f, x, h)
    BY <1>5, <1>6 DEF Sums
  <1>8. QED
    BY <1>2, <1>7

\* What the fold computes.
LEMMA TotalIs ==
  ASSUME NEW f, IsFiniteSet(DOMAIN f)
  PROVE  \E g : Sums(f, DOMAIN f, g) /\ Total(f) = g[DOMAIN f]
  <1> DEFINE g == CHOOSE g : Sums(f, DOMAIN f, g)
  <1>1. Sums(f, DOMAIN f, g)
    BY SumsExist
  <1>2. Total(f) = g[DOMAIN f]
    BY DEF Total, FoldFunction, FoldFunctionOnSet, MapThenFoldSet, Sums, Pick
  <1>3. QED
    BY <1>1, <1>2

\* Sums of numbers are numbers, and sums of nothing are nothing.
LEMMA SumsType ==
  ASSUME NEW S, IsFiniteSet(S), NEW f \in [S -> Nat], NEW g, Sums(f, S, g)
  PROVE  \A u \in SUBSET S : /\ g[u] \in Nat
                             /\ (\A a \in S : f[a] = 0) => g[u] = 0
  <1> DEFINE Typed(u) == g[u] \in Nat /\ ((\A a \in S : f[a] = 0) => g[u] = 0)
             Z == {u \in SUBSET S : ~Typed(u)}
  <1>1. SUFFICES ASSUME Z # {} PROVE FALSE
    OBVIOUS
  <1>2. PICK x \in Z : \A y \in Z : y \subseteq x => y = x
    <2>1. Z \in SUBSET (SUBSET S)
      OBVIOUS
    <2> HIDE DEF Z
    <2>2. QED
      BY <1>1, <2>1, Minimal
  <1>3. x # {}
    <2>1. g[{}] = 0 /\ Typed({})
      BY SumsAt
    <2>2. ~Typed(x)
      BY <1>2
    <2>3. QED
      BY <2>1, <2>2
  <1> DEFINE y == x \ {Pick(x)}
  <1>4. y \in SUBSET S /\ y \subseteq x /\ y # x /\ Pick(x) \in S
    BY <1>2, <1>3, Picked
  <1>5. Typed(y)
    <2>1. y \notin Z
      BY <1>2, <1>4
    <2>2. QED
      BY <1>4, <2>1
  <1>6. g[x] = f[Pick(x)] + g[y] /\ f[Pick(x)] \in Nat
    <2>1. x \in SUBSET S
      BY <1>2
    <2>2. QED
      BY <1>3, <1>4, <2>1, SumsAt
  <1>7. QED
    BY <1>2, <1>4, <1>5, <1>6

\* So are totals of functions.
LEMMA TotalType ==
  ASSUME NEW S, IsFiniteSet(S), NEW f \in [S -> Nat]
  PROVE  Total(f) \in Nat /\ ((\A a \in S : f[a] = 0) => Total(f) = 0)
  <1>1. DOMAIN f = S
    OBVIOUS
  <1>2. PICK g : Sums(f, S, g) /\ Total(f) = g[S]
    BY <1>1, TotalIs
  <1>3. S \in SUBSET S
    OBVIOUS
  <1>4. QED
    BY <1>2, <1>3, SumsType

\* A term of f is raised by d.
Raised(S, f, a, d, e) == e \in [S -> Nat] /\ e[a] = f[a] + d /\ \A b \in S : b # a => e[b] = f[b]

\* What is added to one term is added to the sum: it is added to the sums over the sets
\* the term is in, and to no other.
LEMMA TotalAdds ==
  ASSUME NEW S, IsFiniteSet(S), NEW f \in [S -> Nat], NEW a \in S, NEW d \in Nat, NEW e, Raised(S, f, a, d, e)
  PROVE  Total(e) = Total(f) + d
  <1> USE DEF Raised
  <1>1. DOMAIN f = S /\ DOMAIN e = S
    OBVIOUS
  <1>2. PICK g : Sums(f, S, g) /\ Total(f) = g[S]
    BY <1>1, TotalIs
  <1>3. PICK h : Sums(e, S, h) /\ Total(e) = h[S]
    BY <1>1, TotalIs
  <1> DEFINE More(u) == h[u] = g[u] + (IF a \in u THEN d ELSE 0)
             Z == {u \in SUBSET S : ~More(u)}
  <1>4. Z = {}
    <2>1. SUFFICES ASSUME Z # {} PROVE FALSE
      OBVIOUS
    <2>2. PICK x \in Z : \A y \in Z : y \subseteq x => y = x
      <3>1. Z \in SUBSET (SUBSET S)
        OBVIOUS
      <3> HIDE DEF Z
      <3>2. QED
        BY <2>1, <3>1, Minimal
    <2>3. x # {}
      <3>1. g[{}] = 0 /\ h[{}] = 0
        BY <1>2, <1>3, SumsAt
      <3>2. More({}) /\ ~More(x)
        BY <2>2, <3>1
      <3>3. QED
        BY <3>2
    <2> DEFINE y == x \ {Pick(x)}
    <2>4. x \in SUBSET S /\ y \in SUBSET S /\ y \subseteq x /\ y # x /\ Pick(x) \in x /\ Pick(x) \in S
      BY <2>2, <2>3, Picked
    <2>5. More(y)
      <3>1. y \notin Z
        BY <2>2, <2>4
      <3>2. QED
        BY <2>4, <3>1
    <2>6. g[x] = f[Pick(x)] + g[y] /\ h[x] = e[Pick(x)] + h[y]
      BY <1>2, <1>3, <2>3, <2>4, SumsAt
    <2>7. g[y] \in Nat /\ f[Pick(x)] \in Nat
      BY <1>2, <2>4, SumsType
    <2>8. CASE Pick(x) = a
      <3>1. a \in x /\ a \notin y
        BY <2>4, <2>8
      <3>2. h[y] = g[y]
        BY <2>5, <2>7, <3>1
      <3>3. h[x] = g[x] + d
        BY <2>6, <2>7, <2>8, <3>2
      <3>4. QED
        BY <2>2, <3>1, <3>3
    <2>9. CASE Pick(x) # a
      <3>1. a \in x <=> a \in y
        BY <2>4, <2>9
      <3>2. e[Pick(x)] = f[Pick(x)]
        BY <2>4, <2>9
      <3>3. More(x)
        BY <2>5, <2>6, <2>7, <3>1, <3>2
      <3>4. QED
        BY <2>2, <3>3
    <2>10. QED
      BY <2>8, <2>9
  <1>5. More(S)
    BY <1>4
  <1>6. QED
    BY <1>2, <1>3, <1>5

-----------------------------------------------------------------------------
\* The counters of the gateway.
LEMMA Aggregates ==
  ASSUME TypeOK
  PROVE  /\ [a \in Aliases |-> stats.by[a].requests] \in [Aliases -> Nat]
         /\ [a \in Aliases |-> stats.by[a].cost] \in [Aliases -> Nat]
         /\ billed \in [0 .. MaxTurns -> Nat] /\ stats.requests \in Nat /\ stats.cost \in Nat /\ stats.errors \in Nat
         /\ IsFiniteSet(Aliases) /\ IsFiniteSet(0 .. MaxTurns) /\ MaxTurns \in Nat
  <1>1. stats \in Stats /\ stats.by \in [Aliases -> Counter]
    BY DEF TypeOK, Stats
  <1>2. \A a \in Aliases : stats.by[a].requests \in Nat /\ stats.by[a].cost \in Nat
    BY <1>1 DEF Counter
  <1>3. IsFiniteSet(Aliases) /\ MaxTurns \in Nat
    BY AgentAssumption
  <1>4. IsFiniteSet(0 .. MaxTurns)
    BY <1>3, FS_Interval
  <1>5. QED
    BY <1>1, <1>2, <1>3, <1>4 DEF TypeOK, Stats

\* The columns of /v1/stats that are added up.
Requests == [a \in Aliases |-> stats.by[a].requests]
Costs == [a \in Aliases |-> stats.by[a].cost]

\* One alias gets more requests and more cost: so do its totals.
LEMMA CountersAdd ==
  ASSUME TypeOK, TypeOK', StatsAddUp, NEW alias \in Aliases, NEW n \in Nat, NEW cost \in Nat,
         stats'.by[alias].requests = stats.by[alias].requests + n,
         stats'.by[alias].cost = stats.by[alias].cost + cost,
         \A a \in Aliases : a # alias => stats'.by[a] = stats.by[a]
  PROVE  Total(Requests') = stats.requests + n /\ Total(Costs') = stats.cost + cost
  <1>1. /\ Requests \in [Aliases -> Nat] /\ Costs \in [Aliases -> Nat]
        /\ IsFiniteSet(Aliases) /\ stats.requests = Total(Requests) /\ stats.cost = Total(Costs)
    BY Aggregates DEF StatsAddUp, Requests, Costs
  <1>2. /\ stats' \in Stats /\ stats'.by \in [Aliases -> Counter]
    BY DEF TypeOK, Stats
  <1>3. Requests' \in [Aliases -> Nat] /\ Costs' \in [Aliases -> Nat]
    BY <1>2 DEF Requests, Costs, Counter
  <1>4. /\ \A a \in Aliases : Requests[a] = stats.by[a].requests /\ Costs[a] = stats.by[a].cost
        /\ \A a \in Aliases : Requests'[a] = stats'.by[a].requests /\ Costs'[a] = stats'.by[a].cost
    BY DEF Requests, Costs
  <1>5. Raised(Aliases, Requests, alias, n, Requests') /\ Raised(Aliases, Costs, alias, cost, Costs')
    BY <1>3, <1>4 DEF Raised
  <1>6. Total(Requests') = Total(Requests) + n /\ Total(Costs') = Total(Costs) + cost
    BY <1>1, <1>5, TotalAdds
  <1>7. QED
    BY <1>1, <1>6

\* What record_success and record_error leave.
LEMMA Recorded ==
  ASSUME TypeOK, NEW alias \in Aliases, NEW cost \in Nat
  PROVE  /\ LET s == Success(alias, cost)
            IN  /\ s.requests = stats.requests + 1 /\ s.errors = stats.errors /\ s.cost = stats.cost + cost
                /\ s.by[alias].requests = stats.by[alias].requests + 1
                /\ s.by[alias].cost = stats.by[alias].cost + cost
                /\ \A a \in Aliases : a # alias => s.by[a] = stats.by[a]
         /\ LET s == Failure(alias)
            IN  /\ s.requests = stats.requests + 1 /\ s.errors = stats.errors + 1 /\ s.cost = stats.cost
                /\ s.by[alias].requests = stats.by[alias].requests + 1
                /\ s.by[alias].cost = stats.by[alias].cost
                /\ \A a \in Aliases : a # alias => s.by[a] = stats.by[a]
  <1>1. stats \in Stats /\ stats.by \in [Aliases -> Counter] /\ stats.by[alias] \in Counter
    BY DEF TypeOK, Stats
  <1> DEFINE more == [requests |-> stats.by[alias].requests + 1, cost |-> stats.by[alias].cost + cost]
             again == [stats.by[alias] EXCEPT !.requests = @ + 1]
  <1>2. /\ again.requests = stats.by[alias].requests + 1 /\ again.cost = stats.by[alias].cost
        /\ more.requests = stats.by[alias].requests + 1 /\ more.cost = stats.by[alias].cost + cost
    BY <1>1 DEF Counter
  <1>3. Success(alias, cost) = [stats EXCEPT !.requests = @ + 1, !.cost = @ + cost, !.by = [stats.by EXCEPT ![alias] = more]]
    BY <1>1 DEF Success, Stats
  <1>4. Failure(alias) = [stats EXCEPT !.requests = @ + 1, !.errors = @ + 1, !.by = [stats.by EXCEPT ![alias] = again]]
    BY <1>1 DEF Failure, Stats
  <1> HIDE DEF more, again
  <1>5. QED
    BY <1>1, <1>2, <1>3, <1>4 DEF Stats

\* Something is charged to a turn, or to nobody's.
LEMMA BilledAdds ==
  ASSUME TypeOK, NEW t \in 0 .. MaxTurns, NEW cost \in Nat, billed' = [billed EXCEPT ![t] = @ + cost]
  PROVE  Total(billed') = Total(billed) + cost /\ Total(billed) \in Nat
  <1> DEFINE Numbers == 0 .. MaxTurns
  <1>1. billed \in [Numbers -> Nat] /\ IsFiniteSet(Numbers) /\ t \in Numbers
    BY Aggregates
  <1>2. Raised(Numbers, billed, t, cost, billed')
    <2>1. billed[t] + cost \in Nat
      BY <1>1
    <2>2. QED
      BY <1>1, <2>1 DEF Raised
  <1> HIDE DEF Numbers
  <1>3. ASSUME NEW e, Raised(Numbers, billed, t, cost, e) PROVE Total(e) = Total(billed) + cost
    BY <1>1, <1>3, TotalAdds
  <1>4. Total(billed') = Total(billed) + cost
    BY <1>2, <1>3, Zenon
  <1>5. Total(billed) \in Nat
    BY <1>1, TotalType
  <1>6. QED
    BY <1>4, <1>5

\* Whatever the gateway does to its counters and charges, they still add up.
LEMMA AddUpNext ==
  ASSUME TypeOK, TypeOK', StatsAddUp, [Next]_agentVars
  PROVE  StatsAddUp'
  <1>1. /\ stats.requests \in Nat /\ stats.cost \in Nat /\ stats.errors \in Nat
        /\ stats.cost <= Total(billed) /\ stats.errors <= stats.requests
        /\ Total(billed) \in Nat /\ Total(billed') \in Nat
    <2>1. Total(billed) \in Nat
      BY Aggregates, TotalType
    <2>2. billed' \in [0 .. MaxTurns -> Nat] /\ IsFiniteSet(0 .. MaxTurns)
      BY Aggregates DEF TypeOK
    <2>3. QED
      BY <2>1, <2>2, Aggregates, TotalType DEF StatsAddUp
  <1>2. CASE UNCHANGED <<stats, billed>>
    BY <1>2 DEF StatsAddUp
  <1>3. ASSUME NEW alias \in Aliases, NEW cost \in Nat, stats' = Success(alias, cost),
               NEW t \in 0 .. MaxTurns, billed' = [billed EXCEPT ![t] = @ + cost]
        PROVE  StatsAddUp'
    <2>1. /\ stats'.requests = stats.requests + 1 /\ stats'.errors = stats.errors /\ stats'.cost = stats.cost + cost
          /\ Total(Requests') = stats.requests + 1 /\ Total(Costs') = stats.cost + cost
      BY <1>3, Recorded, CountersAdd
    <2>2. Total(billed') = Total(billed) + cost
      BY <1>3, BilledAdds
    <2>3. QED
      BY <1>1, <2>1, <2>2 DEF StatsAddUp, Requests, Costs
  <1>4. ASSUME NEW alias \in Aliases, stats' = Failure(alias), billed' = billed
        PROVE  StatsAddUp'
    <2>1. /\ stats'.requests = stats.requests + 1 /\ stats'.errors = stats.errors + 1 /\ stats'.cost = stats.cost
          /\ Total(Requests') = stats.requests + 1 /\ Total(Costs') = stats.cost
      <3>1. Total(Costs') = stats.cost + 0 /\ Total(Requests') = stats.requests + 1
        <4>1. stats.by[alias].cost + 0 = stats.by[alias].cost
          <5>1. stats.by[alias] \in Counter
            BY DEF TypeOK, Stats
          <5>2. QED
            BY <5>1 DEF Counter
        <4>2. QED
          BY <1>4, <4>1, Recorded, CountersAdd
      <3>2. QED
        BY <1>1, <1>4, <3>1, Recorded
    <2>2. QED
      BY <1>1, <1>4, <2>1 DEF StatsAddUp, Requests, Costs
  <1>5. ASSUME NEW t \in 0 .. MaxTurns, NEW cost \in Nat, billed' = [billed EXCEPT ![t] = @ + cost], stats' = stats
        PROVE  StatsAddUp'
    <2>1. Total(billed') = Total(billed) + cost
      BY <1>5, BilledAdds
    <2>2. QED
      BY <1>1, <1>5, <2>1 DEF StatsAddUp
  <1>6. ASSUME stats' = NoStats
        PROVE  StatsAddUp'
    <2>1. /\ stats'.requests = 0 /\ stats'.cost = 0 /\ stats'.errors = 0
          /\ \A a \in Aliases : stats'.by[a].requests = 0 /\ stats'.by[a].cost = 0
      BY <1>6 DEF NoStats
    <2>2. Total(Requests') = 0 /\ Total(Costs') = 0
      <3>1. /\ Requests' \in [Aliases -> Nat] /\ \A a \in Aliases : Requests'[a] = 0
            /\ Costs' \in [Aliases -> Nat] /\ \A a \in Aliases : Costs'[a] = 0
        BY <2>1 DEF Requests, Costs
      <3>2. QED
        BY <3>1, AgentAssumption, TotalType
    <2>3. QED
      BY <1>1, <2>1, <2>2 DEF StatsAddUp, Requests, Costs
  <1>7. \A cost \in 1 .. MaxCost : cost \in Nat
    BY AgentAssumption
  <1>8. ASSUME NEW r \in flight, ChatOnce(r) PROVE StatsAddUp'
    <2>1. r.alias \in Aliases /\ r.turn \in 0 .. MaxTurns
      <3>1. r \in Request
        BY DEF TypeOK
      <3>2. QED
        BY <3>1, AgentAssumption DEF Request, Turns
    <2>2. QED
      BY <1>3, <1>4, <1>7, <1>8, <2>1 DEF ChatOnce
  <1>9. ASSUME NEW alias \in Aliases, StreamChat(alias) PROVE StatsAddUp'
    <2>1. 0 \in 0 .. MaxTurns
      BY AgentAssumption
    <2>2. QED
      BY <1>3, <1>4, <1>5, <1>7, <1>9, <2>1 DEF StreamChat
  <1>10. ASSUME NEW alias \in Chosen, StartTurn(alias) PROVE UNCHANGED <<stats, billed>>
    BY <1>10 DEF StartTurn
  <1>11. Agent \/ (\E found \in BOOLEAN : Serve(found)) \/ Die \/ UNCHANGED agentVars => UNCHANGED <<stats, billed>>
    BY DEF Agent, Ask, Unreachable, GiveUp, Receive, CallTool, Return, ToolFails, Observe, Serve, Die, gatewaySide, agentVars
  <1>12. QED
    BY <1>2, <1>6, <1>8, <1>9, <1>10, <1>11 DEF Next, RestartGateway

\* /v1/stats adds up, per model and in all, whatever the requests, errors, cancelled streams
\* and restarts, and never claims more than was charged.
THEOREM StatsSound == Spec => []StatsAddUp
  <1>1. ASSUME Init PROVE StatsAddUp
    <2>1. /\ TypeOK /\ stats = NoStats /\ stats.requests = 0 /\ stats.cost = 0 /\ stats.errors = 0
          /\ \A a \in Aliases : stats.by[a].requests = 0 /\ stats.by[a].cost = 0
      BY <1>1, InitInv DEF Init, NoStats, AgentInv
    <2>2. Total([a \in Aliases |-> stats.by[a].requests]) = 0 /\ Total([a \in Aliases |-> stats.by[a].cost]) = 0
      BY <2>1, AgentAssumption, TotalType
    <2>3. Total(billed) \in Nat
      BY <2>1, Aggregates, TotalType
    <2>4. QED
      BY <2>1, <2>2, <2>3 DEF StatsAddUp
  <1>2. AgentInv => TypeOK
    BY DEF AgentInv
  <1>3. TypeOK /\ TypeOK' /\ StatsAddUp /\ [Next]_agentVars => StatsAddUp'
    BY AddUpNext
  <1>4. QED
    BY <1>1, <1>2, <1>3, Invariant, PTL DEF Spec

=============================================================================
