------------------------------ MODULE Telemetry ------------------------------
(***************************************************************************)
(* The trace context of services/sdk/telemetry.py: three context variables *)
(* (session, trace, parent span), the two context managers session() and   *)
(* span() that set and reset them, and the event each span emits when its  *)
(* block exits.                                                            *)
(*                                                                         *)
(* The processes of the platform (agent, gateway, MCP server) all use this *)
(* code.  They are told apart only by their tasks: a task that receives a  *)
(* request starts from an empty context, and what crosses the process      *)
(* boundary is the trace context its caller read with current_trace_id()   *)
(* and current_parent_span_id() ("carried" below), possibly much later and *)
(* possibly more than once.                                                *)
(*                                                                         *)
(* Identifiers.  uuid4 ids never repeat, so an id is named after what      *)
(* minted it: span n is the n-th span opened anywhere, the trace that span *)
(* n starts is trace n, and generated session ids are numbered too.        *)
(* Attributes, token counts, latency and the set() calls are left out.     *)
(***************************************************************************)
EXTENDS Integers, Sequences, FiniteSets

CONSTANTS
  Tasks,          \* execution contexts: asyncio tasks, request handlers
  GeneratorTasks, \* the tasks whose with-blocks live in an async generator
  SessionNames,   \* session ids that callers supply
  None,           \* Python's None
  MaxSpans,       \* bound: spans opened in a behaviour
  MaxSessions,    \* bound: session ids generated in a behaviour
  MaxDepth,       \* bound: with-blocks open at once in one task
  MaxCarried      \* bound: trace contexts sent across a process boundary

ASSUME TelemetryAssumption ==
  /\ GeneratorTasks \subseteq Tasks
  /\ None \notin SessionNames \cup Nat
  /\ MaxSpans \in Nat /\ MaxSessions \in Nat /\ MaxDepth \in Nat /\ MaxCarried \in Nat

VARIABLES
  ctx,      \* per task: the values of the three context variables
  stack,    \* per task: its open with-blocks, outermost first
  life,     \* per task: "new", "running" or "gone"
  spans,    \* every span opened so far, in order of opening
  minted,   \* number of session ids generated so far
  carried,  \* trace contexts read for another process
  emitted   \* the span ids handed to the emitter, in order

vars == <<ctx, stack, life, spans, minted, carried, emitted>>

-----------------------------------------------------------------------------
SpanIds    == 1 .. Len(spans)
SessionIds == SessionNames \cup Nat
Context    == [session : SessionIds \cup {None},
               trace   : Nat \cup {None},
               parent  : Nat \cup {None}]
EmptyContext == [session |-> None, trace |-> None, parent |-> None]

\* A with-block.  `span` is 0 for session(); `saved` holds the values the reset
\* tokens remember; a block resets the trace and the session only if it set them.
Frame == [span : Nat, saved : Context, ownsTrace : BOOLEAN, ownsSession : BOOLEAN]

\* "lost": the block exited, but no event was emitted for it.
Status == {"open", "ok", "error", "lost"}
SpanRecord == [trace : Nat, parent : Nat \cup {None}, session : SessionIds,
               task : Tasks, adopted : BOOLEAN, status : Status]

Top(t)   == stack[t][Len(stack[t])]
Front(s) == SubSeq(s, 1, Len(s) - 1)
Push(t, frame, new) ==
  /\ Len(stack[t]) < MaxDepth
  /\ stack' = [stack EXCEPT ![t] = Append(@, frame)]
  /\ ctx' = [ctx EXCEPT ![t] = new]
  /\ life' = [life EXCEPT ![t] = "running"]

Init ==
  /\ ctx = [t \in Tasks |-> EmptyContext]
  /\ stack = [t \in Tasks |-> <<>>]
  /\ life = [t \in Tasks |-> "new"]
  /\ spans = <<>>
  /\ minted = 0
  /\ carried = {}
  /\ emitted = <<>>

-----------------------------------------------------------------------------
\* Variants named Mutant... are faulty versions of the definition after them, each
\* one slip away from the code; a property that no such slip breaks says nothing.

\* The whole context of a new session block: trace and parent are cleared so
\* that nothing of an enclosing span is inherited.
MutantKeepsParent(t, sid)   == [session |-> sid, trace |-> None, parent |-> ctx[t].parent]
InSession(t, sid) == [session |-> sid, trace |-> None, parent |-> None]

\* session(session_id) with an id, or session() which generates one (sid = None).
OpenSession(t, sid) ==
  LET id == IF sid = None THEN minted + 1 ELSE sid
  IN  /\ life[t] # "gone"
      /\ sid = None => minted < MaxSessions
      /\ minted' = IF sid = None THEN minted + 1 ELSE minted
      /\ Push(t, [span |-> 0, saved |-> ctx[t], ownsTrace |-> TRUE, ownsSession |-> TRUE],
              InSession(t, id))
      /\ UNCHANGED <<spans, carried, emitted>>

\* span(event_type, name, trace_id=..., parent_span_id=...).  `from` is the
\* carried context those two arguments come from, EmptyContext when absent; it
\* is a fallback that an open trace in this context overrides.
NewTrace(t, from) ==
  IF ctx[t].trace # None THEN ctx[t].trace
  ELSE IF from.trace = None THEN Len(spans) + 1 ELSE from.trace

MutantExplicitWins(t, from) == IF from.parent # None THEN from.parent ELSE ctx[t].parent
MutantNotAdopted(t, from)   == ctx[t].parent
NewParent(t, from) == IF ctx[t].trace = None THEN from.parent ELSE ctx[t].parent

\* A span outside any session() block gets a session of its own.
NewSession(t) == IF ctx[t].session = None THEN minted + 1 ELSE ctx[t].session

NewSpan(t, from) ==
  [trace |-> NewTrace(t, from), parent |-> NewParent(t, from), session |-> NewSession(t), task |-> t,
   adopted |-> ctx[t].trace = None /\ from.trace # None, status |-> "open"]
NewFrame(t) ==
  [span |-> Len(spans) + 1, saved |-> ctx[t], ownsTrace |-> ctx[t].trace = None,
   ownsSession |-> ctx[t].session = None]
NewContext(t, from) ==
  [session |-> NewSession(t), trace |-> NewTrace(t, from), parent |-> Len(spans) + 1]

OpenSpan(t, from) ==
  LET implicit == ctx[t].session = None
  IN  /\ life[t] # "gone"
      /\ Len(spans) < MaxSpans
      /\ implicit => minted < MaxSessions
      /\ minted' = IF implicit THEN minted + 1 ELSE minted
      /\ spans' = Append(spans, NewSpan(t, from))
      /\ Push(t, NewFrame(t), NewContext(t, from))
      /\ UNCHANGED <<carried, emitted>>

\* The context after the reset tokens of a block have been applied.
MutantClearsTrace(c, frame) ==
  [session |-> IF frame.ownsSession THEN frame.saved.session ELSE c.session,
   trace   |-> None,
   parent  |-> frame.saved.parent]
Reset(c, frame) ==
  [session |-> IF frame.ownsSession THEN frame.saved.session ELSE c.session,
   trace   |-> IF frame.ownsTrace THEN frame.saved.trace ELSE c.trace,
   parent  |-> frame.saved.parent]

\* A span's block has exited: its event is emitted, whatever the outcome.
MutantNewestFirst(n, outcome) ==
  /\ spans' = [spans EXCEPT ![n].status = outcome]
  /\ emitted' = <<n>> \o emitted
Emit(n, outcome) ==
  /\ spans' = [spans EXCEPT ![n].status = outcome]
  /\ emitted' = Append(emitted, n)

\* The innermost block of t exits: normally, or because an exception passes
\* through it.  A span resets its tokens first and emits its event last.
CloseBlock(t, outcome) ==
  LET frame == Top(t)
  IN  /\ life[t] = "running" /\ stack[t] # <<>>
      /\ stack' = [stack EXCEPT ![t] = Front(@)]
      /\ ctx' = [ctx EXCEPT ![t] = Reset(@, frame)]
      /\ IF frame.span = 0 THEN UNCHANGED <<spans, emitted>> ELSE Emit(frame.span, outcome)
      /\ UNCHANGED <<life, minted, carried>>

\* The task iterating an async generator is cancelled while the generator is
\* suspended at a yield.  The event loop finalises the generator from another
\* task, whose context is a copy: each reset raises ValueError inside the
\* finally block, before the emit, so every span open in the generator is lost.
FinalizeElsewhere(t) ==
  /\ t \in GeneratorTasks
  /\ life[t] = "running" /\ stack[t] # <<>>
  /\ life' = [life EXCEPT ![t] = "gone"]
  /\ stack' = [stack EXCEPT ![t] = <<>>]
  /\ spans' = [n \in SpanIds |->
                 IF \E i \in 1 .. Len(stack[t]) : stack[t][i].span = n
                 THEN [spans[n] EXCEPT !.status = "lost"] ELSE spans[n]]
  /\ UNCHANGED <<ctx, minted, carried, emitted>>

\* asyncio.create_task: the new task runs in a copy of its creator's context.
Fork(t, u) ==
  /\ life[t] = "running" /\ life[u] = "new"
  /\ ctx' = [ctx EXCEPT ![u] = ctx[t]]
  /\ life' = [life EXCEPT ![u] = "running"]
  /\ UNCHANGED <<stack, spans, minted, carried, emitted>>

\* A caller reads its trace context to send it with a request (HTTP headers, MCP
\* arguments); headers are sent only when a trace is open.
Carry(t) ==
  /\ life[t] = "running" /\ ctx[t].trace # None
  /\ Cardinality(carried) < MaxCarried
  /\ carried' = carried \cup {ctx[t]}
  /\ UNCHANGED <<ctx, stack, life, spans, minted, emitted>>

Next ==
  \E t \in Tasks :
    \/ \E sid \in SessionNames \cup {None} \cup {c.session : c \in carried} : OpenSession(t, sid)
    \/ \E from \in carried \cup {EmptyContext} : OpenSpan(t, from)
    \/ \E outcome \in {"ok", "error"} : CloseBlock(t, outcome)
    \/ FinalizeElsewhere(t)
    \/ \E u \in Tasks : Fork(t, u)
    \/ Carry(t)

Spec == Init /\ [][Next]_vars
-----------------------------------------------------------------------------
TypeOK ==
  /\ ctx \in [Tasks -> Context]
  /\ stack \in [Tasks -> Seq(Frame)]
  /\ life \in [Tasks -> {"new", "running", "gone"}]
  /\ spans \in Seq(SpanRecord)
  /\ minted \in Nat
  /\ carried \subseteq Context
  /\ emitted \in Seq(Nat)

\* What current_trace_id() and current_parent_span_id() return belongs together:
\* both are absent, or the parent is a span of that trace and of the session in
\* scope, among the spans opened so far.
Coherent(c, opened) ==
  /\ c.trace = None <=> c.parent = None
  /\ c.trace # None => /\ c.parent \in 1 .. Len(opened)
                       /\ opened[c.parent].trace = c.trace
                       /\ opened[c.parent].session = c.session

\* Every context the SDK holds is coherent: the one in scope in each task, those
\* the reset tokens will restore, and those on their way to another process.
ContextsCoherent ==
  /\ \A t \in Tasks : /\ Coherent(ctx[t], spans)
                      /\ \A i \in 1 .. Len(stack[t]) : Coherent(stack[t][i].saved, spans)
  /\ \A c \in carried : Coherent(c, spans)

\* A span's parent is an earlier span of the same trace, whichever task or
\* process opened it: following parents from a span never leaves its trace and
\* always ends at a root.  get_trace rebuilds its tree on this.
ParentInTrace ==
  \A n \in SpanIds : spans[n].parent # None =>
    /\ spans[n].parent \in 1 .. n - 1
    /\ spans[spans[n].parent].trace = spans[n].trace

\* A trace is one turn: however contexts are forked, nested in sessions, carried
\* to other processes and used late, no trace ever has two root spans.
OneRootPerTrace ==
  \A m, n \in SpanIds :
    spans[m].parent = None /\ spans[n].parent = None /\ spans[m].trace = spans[n].trace => m = n

\* Spans nested within a process stay in one session, hence in one partition of
\* the topic; only a span that adopts a carried trace may change session.
NestedKeepsSession ==
  \A n \in SpanIds : spans[n].parent # None /\ ~spans[n].adopted =>
    spans[spans[n].parent].session = spans[n].session

\* A span hands exactly one event to the emitter, on exit, whether its block
\* returns or raises; none while it is open or when the loop finalised it.
ExactlyOneEvent ==
  /\ \A i, j \in 1 .. Len(emitted) : emitted[i] = emitted[j] => i = j
  /\ {emitted[i] : i \in 1 .. Len(emitted)} = {n \in SpanIds : spans[n].status \in {"ok", "error"}}

\* Within one task the events of nested spans precede the event of the span they
\* are nested in: a consumer sees a parent only after its local children.
ChildrenFirst ==
  \A i \in 1 .. Len(emitted) : \A n \in SpanIds :
    spans[n].parent = emitted[i] /\ spans[n].task = spans[emitted[i]].task /\ ~spans[n].adopted
      => \E j \in 1 .. i - 1 : emitted[j] = n

\* Every span that is left reaches the emitter once, and after what is nested in it.
EventsInOrder == ExactlyOneEvent /\ ChildrenFirst

\* Leaving a block puts all three variables back to what they were when it was
\* entered, although a nested span holds a token for only one of them.
RestoresContext ==
  [][\A t \in Tasks : Len(stack'[t]) = Len(stack[t]) - 1 /\ life'[t] = "running"
       => ctx'[t] = Top(t).saved]_vars

\* The claim of span()'s docstring: the event fires even when the body raises.
EventFires ==
  \A n \in SpanIds : spans[n].status # "open" => \E i \in 1 .. Len(emitted) : emitted[i] = n
=============================================================================
