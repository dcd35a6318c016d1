------------------------------ MODULE AgentTurn ------------------------------
(***************************************************************************)
(* Turns of the agent (services/agent/loop.py) that follow one another on  *)
(* one MCP server subprocess and one gateway, as the turns of a worker of  *)
(* the evaluation harness do.                                              *)
(*                                                                         *)
(* The three processes share messages only.  The agent asks the gateway,   *)
(* calls the tools the answer wants, each for at most tool_timeout, and    *)
(* asks again; after max_steps answers it asks once more without tools.    *)
(* The server runs one tool at a time: dispatch_tool is synchronous inside *)
(* the server's event loop, so a call that was given up on still runs and  *)
(* everything behind it waits.  The gateway finishes, counts and pays for  *)
(* a request whether or not its client is still there.                     *)
(*                                                                         *)
(* MCP is external: a reply carries the id of its request, and a reply     *)
(* nobody waits for any more is dropped.  So is the provider: an answer    *)
(* wants any of UseLists if it was offered tools, and nothing otherwise.   *)
(***************************************************************************)
EXTENDS Integers, Sequences, FiniteSets, Functions

CONSTANTS
  Names,       \* what a model may call a tool
  Tools,       \* the registry TOOLS of the MCP server
  SearchDocs,  \* "search_docs"
  UseLists,    \* the lists of tools one answer may want
  Aliases,     \* aliases of models.yaml
  NoAlias,     \* an alias models.yaml does not have
  Chosen,      \* the values of model_alias turns are started with
  None,        \* nothing
  Failed,      \* an error status
  MaxSteps,    \* max_steps
  MaxTurns,    \* bound: turns
  MaxCost,     \* bound: cost of one request
  MaxUpsets    \* bound: streams of other clients, gateway restarts, server crashes

ASSUME AgentAssumption ==
  /\ SearchDocs \in Tools /\ Tools \subseteq Names
  /\ UseLists \subseteq Seq(Names)
  /\ IsFiniteSet(Aliases) /\ NoAlias \notin Aliases /\ Chosen \subseteq Aliases \cup {NoAlias}
  /\ MaxSteps \in Nat /\ MaxTurns \in Nat /\ MaxCost \in Nat /\ MaxUpsets \in Nat
  /\ None \notin [cost : Nat, uses : Seq(Names)] \cup [id : Nat, found : BOOLEAN] \cup {Failed}
  /\ Failed \notin [cost : Nat, uses : Seq(Names)]

VARIABLES
  turns,    \* turns started
  cur,      \* the locals of the run_turn that is running, or ran last
  messages, \* its history
  flight,   \* requests the gateway is working on
  reply,    \* the answer under way to the request cur waits for
  stats,    \* GatewayStats
  calls,    \* tool calls so far; an index is the id of the request
  queue,    \* ids the server has yet to work on, in order of arrival
  answer,   \* the observation under way to the call cur waits for
  spans,    \* ids whose TOOL_CALL span was emitted, in order
  alive,    \* the subprocess has not died
  upsets,   \* streams of other clients, gateway restarts and server crashes so far
  billed    \* history: what the gateway charged to each turn, and to others (0)

agentSide   == <<turns, cur, messages>>
gatewaySide == <<flight, reply, stats, billed>>
serverSide  == <<calls, queue, answer, spans, alive>>
agentVars   == <<turns, cur, messages, flight, reply, stats, billed, calls, queue, answer,
                 spans, alive, upsets>>

-----------------------------------------------------------------------------
\* Variants named Mutant... are faulty versions of the definition after them.
Turns == 1 .. MaxTurns

Request == [turn : Turns, n : Nat, alias : Aliases, offered : BOOLEAN]
Reply   == [cost : Nat, uses : Seq(Names)]
Call    == [turn : Turns, use : Nat, name : Names]

\* A tool_result: the tool_use_id it answers, and the call its content is from; 0
\* for the error the loop writes itself.
Result  == [use : Nat, from : Nat]
Use     == [id : Nat, name : Names]
Message == [role : {"user", "assistant"}, uses : Seq(Use), results : Seq(Result)]

Counter == [requests : Nat, cost : Nat]
Stats   == [requests : Nat, errors : Nat, cost : Nat, by : [Aliases -> Counter]]
NoStats == [requests |-> 0, errors |-> 0, cost |-> 0,
            by |-> [a \in Aliases |-> [requests |-> 0, cost |-> 0]]]

\* `searches` is retrieval_calls, one use id per entry; `retrieved` what came back.
Turn == [phase : {"idle", "ask", "asked", "tool", "called", "done", "failed"},
         alias : Aliases \cup {NoAlias}, asked : 0 .. MaxSteps + 1, steps : 0 .. MaxSteps, uses : Seq(Use),
         results : Seq(Result), called : Seq(Names), searches : Seq(Nat),
         retrieved : Seq([from : Nat, index : Nat]), cost : Nat, truncated : BOOLEAN, call : Nat]
NewTurn(phase, alias) ==
  [phase |-> phase, alias |-> alias, asked |-> 0, steps |-> 0, uses |-> <<>>, results |-> <<>>,
   called |-> <<>>, searches |-> <<>>, retrieved |-> <<>>, cost |-> 0, truncated |-> FALSE, call |-> 0]

Say(role, uses, results) == [role |-> role, uses |-> uses, results |-> results]

Init ==
  /\ turns = 0 /\ cur = NewTurn("idle", NoAlias) /\ messages = <<>>
  /\ flight = {} /\ reply = None /\ stats = NoStats
  /\ calls = <<>> /\ queue = <<>> /\ answer = None /\ spans = <<>> /\ alive = TRUE /\ upsets = 0
  /\ billed = [t \in 0 .. MaxTurns |-> 0]

-----------------------------------------------------------------------------
(***************************************************************************)
(* The agent: run_turn.                                                    *)
(***************************************************************************)
StartTurn(alias) ==
  /\ cur.phase \in {"idle", "done", "failed"} /\ turns < MaxTurns
  /\ turns' = turns + 1
  /\ cur' = NewTurn("ask", alias)
  /\ messages' = <<Say("user", <<>>, <<>>)>>
  /\ reply' = None /\ answer' = None
  /\ UNCHANGED <<flight, stats, billed, calls, queue, spans, alive, upsets>>

\* Steps are left: ask with the tools.  None is left: the note that the budget is
\* exhausted, and one request without tools.
Forced == cur.steps = MaxSteps
Ask ==
  /\ cur.phase = "ask" /\ cur.alias \in Aliases
  /\ cur' = [cur EXCEPT !.phase = "asked", !.asked = @ + 1, !.steps = IF Forced THEN @ ELSE @ + 1,
                        !.truncated = Forced]
  /\ messages' = IF Forced THEN Append(messages, Say("user", <<>>, <<>>)) ELSE messages
  /\ flight' = flight \cup {[turn |-> turns, n |-> cur.asked + 1, alias |-> cur.alias, offered |-> ~Forced]}
  /\ UNCHANGED <<turns, reply, stats, billed, serverSide, upsets>>

\* No gateway (GatewayUnavailableError), or a 400 for the alias, which the gateway
\* refuses before it opens a span or counts anything: either leaves run_turn.
Unreachable ==
  /\ cur.phase = "ask"
  /\ cur' = [cur EXCEPT !.phase = "failed", !.truncated = FALSE]
  /\ UNCHANGED <<turns, messages, upsets, gatewaySide, serverSide>>

\* httpx.ReadTimeout leaves run_turn; the request goes on without its client.
GiveUp ==
  /\ cur.phase = "asked" /\ reply = None
  /\ cur' = [cur EXCEPT !.phase = "failed"]
  /\ UNCHANGED <<turns, messages, upsets, gatewaySide, serverSide>>

\* The tool_use blocks of an answer, with ids no other block of the turn has.
UsesOf(names) == [i \in 1 .. Len(names) |-> [id |-> Len(cur.called) + i, name |-> names[i]]]

\* An error status leaves run_turn.  An answer is appended whole; one that wants no
\* tools ends the loop.
MutantForgetsForced(cost) == IF cur.truncated THEN cur.cost ELSE cur.cost + cost
Spent(cost) == cur.cost + cost
Receive ==
  /\ cur.phase = "asked" /\ reply # None
  /\ IF reply = Failed
     THEN cur' = [cur EXCEPT !.phase = "failed"] /\ UNCHANGED messages
     ELSE /\ cur' = [cur EXCEPT !.cost = Spent(reply.cost), !.uses = UsesOf(reply.uses),
                                !.phase = IF reply.uses = <<>> THEN "done" ELSE "tool"]
          /\ messages' = Append(messages, Say("assistant", UsesOf(reply.uses), <<>>))
  /\ reply' = None
  /\ UNCHANGED <<turns, flight, stats, billed, serverSide, upsets>>

NextUse == cur.uses[Len(cur.results) + 1]

\* The call is written to the pipe of the subprocess, with the trace of this turn.
CallTool ==
  LET id == Len(calls) + 1
  IN  /\ cur.phase = "tool"
      /\ calls' = Append(calls, [turn |-> turns, use |-> NextUse.id, name |-> NextUse.name])
      /\ queue' = IF alive THEN Append(queue, id) ELSE queue
      /\ cur' = [cur EXCEPT !.phase = "called", !.call = id]
      /\ UNCHANGED <<turns, messages, gatewaySide, answer, spans, alive, upsets>>

\* One use is answered, by an observation or by the exception that took its place.
\* After the last use of the answer the results go into the history as one message.
MutantOnlyFound(found) == NextUse.name = SearchDocs /\ found
Searched(found) == NextUse.name = SearchDocs
Observe(from, found) ==
  LET results == Append(cur.results, [use |-> NextUse.id, from |-> from])
      whole   == Len(results) = Len(cur.uses)
  IN  /\ cur' = [cur EXCEPT
           !.phase     = IF whole THEN "ask" ELSE "tool",
           !.uses      = IF whole THEN <<>> ELSE @,
           !.results   = IF whole THEN <<>> ELSE results,
           !.called    = Append(@, NextUse.name),
           !.searches  = IF Searched(found) THEN Append(@, NextUse.id) ELSE @,
           !.retrieved = IF found THEN Append(@, [from |-> from, index |-> Len(cur.searches)]) ELSE @,
           !.call      = 0]
      /\ messages' = IF whole THEN Append(messages, Say("user", <<>>, results)) ELSE messages
      /\ answer' = None
      /\ UNCHANGED <<turns, gatewaySide, calls, queue, spans, alive, upsets>>

Return ==
  /\ cur.phase = "called" /\ answer # None
  /\ Observe(answer.id, answer.found)

\* asyncio.wait_for gives up, or the subprocess is gone and the call raises: the
\* error takes the observation's place.
MutantWaits == FALSE
TimesOut == answer = None
ToolFails ==
  /\ cur.phase = "called" /\ TimesOut
  /\ Observe(0, FALSE)

-----------------------------------------------------------------------------
(***************************************************************************)
(* The MCP server.                                                         *)
(***************************************************************************)
\* dispatch_tool on the oldest call.  A tool that is not in TOOLS raises before the
\* span opens; any other call leaves a span, whatever comes of it.  The reply
\* reaches the agent if it still waits for this very id.
MutantAnyone(id) == cur.phase = "called"
WaitsFor(id) == cur.phase = "called" /\ cur.call = id
MutantIfWaited(id) == calls[id].name \in Tools /\ WaitsFor(id)
Traced(id) == calls[id].name \in Tools
Serve(found) ==
  LET id == Head(queue)
  IN  /\ alive /\ queue # <<>>
      /\ found => calls[id].name = SearchDocs
      /\ queue' = Tail(queue)
      /\ spans' = IF Traced(id) THEN Append(spans, id) ELSE spans
      /\ answer' = IF WaitsFor(id) THEN [id |-> id, found |-> found] ELSE answer
      /\ UNCHANGED <<agentSide, gatewaySide, calls, alive, upsets>>

Upset == upsets < MaxUpsets /\ upsets' = upsets + 1

Die ==
  /\ alive /\ Upset
  /\ alive' = FALSE /\ queue' = <<>>
  /\ UNCHANGED <<agentSide, gatewaySide, calls, answer, spans>>

-----------------------------------------------------------------------------
(***************************************************************************)
(* The gateway: chat, chat_once, stream_chat and its counters.             *)
(***************************************************************************)
\* record_success and record_error.
Success(alias, cost) ==
  [stats EXCEPT !.requests = @ + 1, !.cost = @ + cost,
                !.by[alias] = [requests |-> @.requests + 1, cost |-> @.cost + cost]]
MutantOnlyTotals(alias) == [stats EXCEPT !.requests = @ + 1, !.errors = @ + 1]
Failure(alias) == [stats EXCEPT !.requests = @ + 1, !.errors = @ + 1, !.by[alias].requests = @ + 1]

\* The agent still waits for this request.
Awaited(r) == cur.phase = "asked" /\ r.turn = turns /\ r.n = cur.asked

ChatOnce(r) ==
  /\ flight' = flight \ {r}
  /\ \/ \E cost \in 1 .. MaxCost, uses \in IF r.offered THEN UseLists \cup {<<>>} ELSE {<<>>} :
          /\ stats' = Success(r.alias, cost)
          /\ billed' = [billed EXCEPT ![r.turn] = @ + cost]
          /\ reply' = IF Awaited(r) THEN [cost |-> cost, uses |-> uses] ELSE reply
     \/ /\ stats' = Failure(r.alias)
        /\ reply' = IF Awaited(r) THEN Failed ELSE reply
        /\ UNCHANGED billed
  /\ UNCHANGED <<agentSide, serverSide, upsets>>

\* A streamed request of another client: to its last frame, into a provider error,
\* or cancelled at a yield, which counts as nothing.
StreamChat(alias) ==
  /\ Upset
  /\ \/ \E cost \in 1 .. MaxCost : stats' = Success(alias, cost) /\ billed' = [billed EXCEPT ![0] = @ + cost]
     \/ stats' = Failure(alias) /\ UNCHANGED billed
     \/ \E cost \in 1 .. MaxCost : billed' = [billed EXCEPT ![0] = @ + cost] /\ UNCHANGED stats
  /\ UNCHANGED <<agentSide, flight, reply, serverSide>>

\* The process is replaced: its requests break off, its counters start again.
RestartGateway ==
  /\ Upset
  /\ flight' = {} /\ stats' = NoStats
  /\ reply' = IF \E r \in flight : Awaited(r) THEN Failed ELSE reply
  /\ UNCHANGED <<agentSide, billed, serverSide>>

-----------------------------------------------------------------------------
Agent == Ask \/ Unreachable \/ GiveUp \/ Receive \/ CallTool \/ Return \/ ToolFails

Next ==
  \/ \E alias \in Chosen : StartTurn(alias)
  \/ Agent
  \/ \E found \in BOOLEAN : Serve(found)
  \/ Die
  \/ \E r \in flight : ChatOnce(r)
  \/ \E alias \in Aliases : StreamChat(alias)
  \/ RestartGateway

Spec == Init /\ [][Next]_agentVars

\* The agent takes its next step, and both of its timers fire.  Nothing is assumed
\* of the gateway or of the MCP server.
FairSpec == Spec /\ WF_agentVars(Agent)

-----------------------------------------------------------------------------
(***************************************************************************)
(* Properties.                                                             *)
(***************************************************************************)
Observation == [id : Nat, found : BOOLEAN]
TypeOK ==
  /\ turns \in 0 .. MaxTurns
  /\ cur \in Turn
  /\ messages \in Seq(Message)
  /\ flight \subseteq Request
  /\ reply \in Reply \cup {None, Failed}
  /\ stats \in Stats
  /\ calls \in Seq(Call)
  /\ queue \in Seq(Nat) /\ spans \in Seq(Nat)
  /\ answer \in Observation \cup {None}
  /\ alive \in BOOLEAN /\ upsets \in 0 .. MaxUpsets
  /\ billed \in [0 .. MaxTurns -> Nat]

\* `results` answers `uses`: one for one and in order, each with what the call made
\* for that very use returned, or with the loop's own error.
Answers(results, uses) ==
  /\ Len(results) <= Len(uses)
  /\ \A i \in 1 .. Len(results) :
       /\ results[i].use = uses[i].id
       /\ results[i].from # 0 =>
            calls[results[i].from] = [turn |-> turns, use |-> uses[i].id, name |-> uses[i].name]

\* The provider rejects a history in which a tool_use is not answered in the next
\* message.  It never sees one, and no use is answered with the late result of
\* another: a call that timed out in this turn or an earlier one.
Paired ==
  /\ Answers(cur.results, cur.uses)
  /\ \A i \in 1 .. Len(messages) : messages[i].uses # <<>> =>
       IF i < Len(messages)
       THEN /\ Answers(messages[i + 1].results, messages[i].uses)
            /\ Len(messages[i + 1].results) = Len(messages[i].uses)
       ELSE cur.phase \notin {"ask", "asked", "done"}

\* hit@k reads call_index: entry n of retrieval_calls is the n-th search_docs the
\* turn made, failed ones included, and every retrieved chunk names its own call.
SearchesOf(called) == {i \in 1 .. Len(called) : called[i] = SearchDocs}
IndexedBySearch ==
  /\ {cur.searches[n] : n \in 1 .. Len(cur.searches)} = SearchesOf(cur.called)
  /\ \A m, n \in 1 .. Len(cur.searches) : m < n => cur.searches[m] < cur.searches[n]
  /\ \A e \in 1 .. Len(cur.retrieved) :
       LET r == cur.retrieved[e]
       IN  /\ r.index + 1 \in 1 .. Len(cur.searches)
           /\ calls[r.from].turn = turns
           /\ calls[r.from].use = cur.searches[r.index + 1]

\* What a finished turn says it cost is what the gateway charged for it; a turn that
\* failed may have cost more than it knows, never less.
CostKnown ==
  turns > 0 => /\ cur.cost <= billed[turns]
               /\ cur.phase = "done" => cur.cost = billed[turns]

\* The totals of /v1/stats are the sums of its per-model figures and never exceed
\* what was charged, across errors, cancelled streams, late answers and restarts.
Total(f) == FoldFunction(+, 0, f)
StatsAddUp ==
  /\ stats.requests = Total([a \in Aliases |-> stats.by[a].requests])
  /\ stats.cost = Total([a \in Aliases |-> stats.by[a].cost])
  /\ stats.cost <= Total(billed)
  /\ stats.errors <= stats.requests

\* The trace of a turn holds the tool calls it made: each call of a known tool has left
\* its span once the server has worked on it, those that timed out long ago as well, once
\* and in the order of the calls.
Held(ids) == {ids[i] : i \in 1 .. Len(ids)}
Ascending(ids) == \A i, j \in 1 .. Len(ids) : i < j => ids[i] < ids[j]
ToolsTraced ==
  alive => /\ Held(spans) = {id \in 1 .. Len(calls) \ Held(queue) : calls[id].name \in Tools}
           /\ Ascending(spans)

\* A turn that has begun ends, though the gateway or the server never answer again.
TurnEnds == \A t \in Turns : [](turns = t => <>(cur.phase \in {"done", "failed"}))
=============================================================================
