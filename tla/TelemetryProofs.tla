--------------------------- MODULE TelemetryProofs ---------------------------
(***************************************************************************)
(* Theorems about Telemetry, for any set of tasks and any bounds.          *)
(***************************************************************************)
EXTENDS Telemetry, SequenceTheorems, TLAPS

\* Opening a block adds one frame; closing it removes the last one.
LEMMA AppendFacts ==
  ASSUME NEW S, NEW s \in Seq(S), NEW e \in S
  PROVE  /\ Append(s, e) \in Seq(S)
         /\ Len(Append(s, e)) = Len(s) + 1
         /\ \A i \in 1 .. Len(s) : Append(s, e)[i] = s[i]
         /\ Append(s, e)[Len(s) + 1] = e
  OBVIOUS

LEMMA FrontFacts ==
  ASSUME NEW S, NEW s \in Seq(S), s # <<>>
  PROVE  /\ Front(s) \in Seq(S)
         /\ Len(s) \in Nat \ {0}
         /\ Len(Front(s)) = Len(s) - 1
         /\ \A i \in 1 .. Len(s) - 1 : Front(s)[i] = s[i]
         /\ s[Len(s)] \in S
  <1>1. Len(s) \in Nat \ {0} /\ \A i \in 1 .. Len(s) : s[i] \in S
    BY EmptySeq, LenProperties, ElementOfSeq
  <1>2. /\ SubSeq(s, 1, Len(s) - 1) \in Seq(S)
        /\ Len(SubSeq(s, 1, Len(s) - 1)) = IF 1 <= Len(s) - 1 THEN Len(s) - 1 - 1 + 1 ELSE 0
        /\ \A i \in 1 .. Len(s) - 1 - 1 + 1 : SubSeq(s, 1, Len(s) - 1)[i] = s[1 + i - 1]
    <2>1. \A i \in 1 .. Len(s) - 1 : s[i] \in S
      BY <1>1
    <2>2. QED
      BY <1>1, <2>1, SubSeqProperties
  <1>3. /\ Len(SubSeq(s, 1, Len(s) - 1)) = Len(s) - 1
        /\ \A i \in 1 .. Len(s) - 1 : SubSeq(s, 1, Len(s) - 1)[i] = s[i]
    <2>1. Len(s) - 1 - 1 + 1 = Len(s) - 1 /\ \A i \in 1 .. Len(s) - 1 : 1 + i - 1 = i
      BY <1>1
    <2>2. QED
      BY <1>1, <1>2, <2>1
  <1>4. Len(s) \in 1 .. Len(s)
    BY <1>1
  <1>5. QED
    BY <1>1, <1>2, <1>3, <1>4 DEF Front

\* Spans are only added, and of an opened span only the status changes.
Extends(new, old) ==
  /\ Len(old) <= Len(new)
  /\ \A n \in 1 .. Len(old) : /\ new[n].trace = old[n].trace
                              /\ new[n].parent = old[n].parent
                              /\ new[n].session = old[n].session
                              /\ new[n].adopted = old[n].adopted

-----------------------------------------------------------------------------
(***************************************************************************)
(* What each action does, with the facts about its values that the proofs  *)
(* below share.                                                            *)
(***************************************************************************)
LEMMA OpenSpanEffect ==
  ASSUME TypeOK, NEW t \in Tasks, NEW from \in carried \cup {EmptyContext}, OpenSpan(t, from)
  PROVE  /\ NewSpan(t, from) \in SpanRecord /\ NewFrame(t) \in Frame
         /\ NewContext(t, from) \in Context /\ from \in Context
         /\ spans' = Append(spans, NewSpan(t, from))
         /\ stack' = [stack EXCEPT ![t] = Append(@, NewFrame(t))]
         /\ ctx' = [ctx EXCEPT ![t] = NewContext(t, from)]
         /\ life[t] # "gone" /\ life' = [life EXCEPT ![t] = "running"]
         /\ minted' \in Nat /\ UNCHANGED <<carried, emitted>>
  <1>1. from \in Context /\ ctx[t] \in Context /\ Len(spans) \in Nat /\ minted \in Nat
    BY DEF TypeOK, Context, EmptyContext
  <1>2. NewSession(t) \in SessionIds
    BY <1>1 DEF Context, SessionIds, NewSession
  <1>3. NewTrace(t, from) \in Nat /\ NewParent(t, from) \in Nat \cup {None}
    BY <1>1 DEF Context, NewTrace, NewParent
  <1>4. NewSpan(t, from) \in SpanRecord
    BY <1>2, <1>3 DEF SpanRecord, Status, NewSpan
  <1>5. NewFrame(t) \in Frame
    BY <1>1 DEF Frame, NewFrame
  <1>6. NewContext(t, from) \in Context
    BY <1>1, <1>2, <1>3 DEF Context, NewContext
  <1>7. /\ spans' = Append(spans, NewSpan(t, from))
        /\ Push(t, NewFrame(t), NewContext(t, from))
        /\ life[t] # "gone" /\ minted' \in Nat /\ UNCHANGED <<carried, emitted>>
    BY <1>1 DEF OpenSpan
  <1>8. QED
    BY <1>1, <1>4, <1>5, <1>6, <1>7 DEF Push
NewSessionFrame(t) ==
  [span |-> 0, saved |-> ctx[t], ownsTrace |-> TRUE, ownsSession |-> TRUE]

LEMMA OpenSessionEffect ==
  ASSUME TypeOK, NEW t \in Tasks, NEW sid \in SessionNames \cup {None} \cup {c.session : c \in carried},
         OpenSession(t, sid)
  PROVE  \E id \in SessionIds :
           /\ InSession(t, id) \in Context /\ NewSessionFrame(t) \in Frame
           /\ stack' = [stack EXCEPT ![t] = Append(@, NewSessionFrame(t))]
           /\ ctx' = [ctx EXCEPT ![t] = InSession(t, id)]
           /\ life[t] # "gone" /\ life' = [life EXCEPT ![t] = "running"]
           /\ minted' \in Nat /\ UNCHANGED <<spans, carried, emitted>>
  <1> DEFINE id == IF sid = None THEN minted + 1 ELSE sid
  <1>1. sid \in SessionIds \cup {None}
    BY DEF TypeOK, Context, SessionIds
  <1>2. id \in SessionIds
    BY <1>1 DEF TypeOK, SessionIds
  <1>3. InSession(t, id) \in Context /\ NewSessionFrame(t) \in Frame
    BY <1>2 DEF TypeOK, InSession, Context, Frame, NewSessionFrame
  <1>4. /\ Push(t, NewSessionFrame(t), InSession(t, id)) /\ life[t] # "gone"
        /\ minted' \in Nat /\ UNCHANGED <<spans, carried, emitted>>
    BY DEF OpenSession, TypeOK, NewSessionFrame
  <1> HIDE DEF id
  <1>5. QED
    BY <1>2, <1>3, <1>4 DEF Push

LEMMA CloseBlockEffect ==
  ASSUME TypeOK, NEW t \in Tasks, NEW outcome \in {"ok", "error"}, CloseBlock(t, outcome)
  PROVE  /\ Top(t) \in Frame /\ Reset(ctx[t], Top(t)) \in Context
         /\ Len(stack[t]) \in Nat \ {0} /\ stack[t] # <<>> /\ Top(t) = stack[t][Len(stack[t])]
         /\ stack' = [stack EXCEPT ![t] = Front(@)]
         /\ ctx' = [ctx EXCEPT ![t] = Reset(@, Top(t))]
         /\ spans' \in Seq(SpanRecord) /\ Extends(spans', spans) /\ Len(spans') = Len(spans)
         /\ emitted' \in Seq(Nat)
         /\ life[t] = "running" /\ UNCHANGED <<life, minted, carried>>
  <1>1. stack[t] \in Seq(Frame) /\ stack[t] # <<>>
    BY DEF CloseBlock, TypeOK
  <1>2. Top(t) \in Frame /\ Len(stack[t]) \in Nat \ {0}
    BY <1>1, FrontFacts DEF Top
  <1>3. Reset(ctx[t], Top(t)) \in Context
    BY <1>2 DEF TypeOK, Reset, Context, Frame
  <1>4. spans' \in Seq(SpanRecord) /\ Extends(spans', spans) /\ Len(spans') = Len(spans)
         /\ emitted' \in Seq(Nat)
    <2>1. CASE Top(t).span = 0
      BY <2>1 DEF CloseBlock, TypeOK, Extends
    <2>2. CASE Top(t).span # 0
      <3> DEFINE k == Top(t).span
      <3>1. k \in Nat
        BY <1>2 DEF Frame
      <3>2. spans' = [spans EXCEPT ![k].status = outcome] /\ emitted' = Append(emitted, k)
        BY <2>2 DEF CloseBlock, Emit
      <3>3. emitted' \in Seq(Nat)
        BY <3>1, <3>2, AppendFacts DEF TypeOK
      <3>4. spans \in [1 .. Len(spans) -> SpanRecord] /\ Len(spans) \in Nat
        BY DEF TypeOK
      <3>5. spans' \in [1 .. Len(spans) -> SpanRecord]
        BY <3>2, <3>4 DEF SpanRecord, Status
      <3>6. spans' \in Seq(SpanRecord) /\ Len(spans') = Len(spans)
        BY <3>4, <3>5
      <3>7. Extends(spans', spans)
        BY <3>2, <3>4, <3>6 DEF Extends, SpanRecord
      <3>8. QED
        BY <3>3, <3>6, <3>7
    <2>3. QED
      BY <2>1, <2>2
  <1>5. QED
    BY <1>1, <1>2, <1>3, <1>4 DEF CloseBlock, Top

LEMMA FinalizeEffect ==
  ASSUME TypeOK, NEW t \in Tasks, FinalizeElsewhere(t)
  PROVE  spans' \in Seq(SpanRecord) /\ Len(spans') = Len(spans) /\ Extends(spans', spans)
  <1>1. \A n \in SpanIds : spans[n] \in SpanRecord
    BY DEF TypeOK, SpanIds
  <1>2. \A r \in SpanRecord : [r EXCEPT !.status = "lost"] \in SpanRecord
    BY DEF SpanRecord, Status
  <1>3. spans' \in [1 .. Len(spans) -> SpanRecord]
    BY <1>1, <1>2 DEF FinalizeElsewhere, SpanIds
  <1>4. Len(spans) \in Nat
    BY DEF TypeOK
  <1>5. spans' \in Seq(SpanRecord) /\ Len(spans') = Len(spans)
    BY <1>3, <1>4
  <1>6. QED
    BY <1>1, <1>4, <1>5 DEF FinalizeElsewhere, Extends, SpanIds, SpanRecord

-----------------------------------------------------------------------------
LEMMA TypeStep == TypeOK /\ [Next]_vars => TypeOK'
  <1> SUFFICES ASSUME TypeOK, [Next]_vars PROVE TypeOK'
    OBVIOUS
  <1>1. ASSUME NEW t \in Tasks, NEW sid \in SessionNames \cup {None} \cup {c.session : c \in carried},
               OpenSession(t, sid)
        PROVE  TypeOK'
    <2>1. Append(stack[t], NewSessionFrame(t)) \in Seq(Frame)
      BY <1>1, OpenSessionEffect, AppendFacts DEF TypeOK
    <2>2. QED
      BY <1>1, <2>1, OpenSessionEffect DEF TypeOK
  <1>2. ASSUME NEW t \in Tasks, NEW from \in carried \cup {EmptyContext}, OpenSpan(t, from)
        PROVE  TypeOK'
    <2>1. /\ Append(stack[t], NewFrame(t)) \in Seq(Frame)
          /\ Append(spans, NewSpan(t, from)) \in Seq(SpanRecord)
      BY <1>2, OpenSpanEffect, AppendFacts DEF TypeOK
    <2>2. QED
      BY <1>2, <2>1, OpenSpanEffect DEF TypeOK
  <1>3. ASSUME NEW t \in Tasks, NEW outcome \in {"ok", "error"}, CloseBlock(t, outcome)
        PROVE  TypeOK'
    <2>1. Front(stack[t]) \in Seq(Frame)
      BY <1>3, CloseBlockEffect, FrontFacts DEF TypeOK
    <2>2. QED
      BY <1>3, <2>1, CloseBlockEffect DEF TypeOK
  <1>4. ASSUME NEW t \in Tasks, FinalizeElsewhere(t)
        PROVE  TypeOK'
    <2>1. spans' \in Seq(SpanRecord)
      BY <1>4, FinalizeEffect
    <2>2. stack' \in [Tasks -> Seq(Frame)]
      <3>1. <<>> \in Seq(Frame)
        OBVIOUS
      <3>2. QED
        BY <1>4, <3>1 DEF FinalizeElsewhere, TypeOK
    <2>3. life' \in [Tasks -> {"new", "running", "gone"}]
      BY <1>4 DEF FinalizeElsewhere, TypeOK
    <2>4. QED
      BY <1>4, <2>1, <2>2, <2>3 DEF FinalizeElsewhere, TypeOK
  <1>5. ASSUME NEW t \in Tasks, NEW u \in Tasks, Fork(t, u)
        PROVE  TypeOK'
    BY <1>5 DEF Fork, TypeOK
  <1>6. ASSUME NEW t \in Tasks, Carry(t)
        PROVE  TypeOK'
    BY <1>6 DEF Carry, TypeOK
  <1>7. CASE UNCHANGED vars
    BY <1>7 DEF vars, TypeOK
  <1>8. QED
    BY <1>1, <1>2, <1>3, <1>4, <1>5, <1>6, <1>7 DEF Next

\* Every variable keeps its type: whatever the callers nest, carry or abandon,
\* the context variables hold ids and the event list holds span ids.
THEOREM TypeCorrect == Spec => []TypeOK
  <1>1. Init => TypeOK
    BY DEF Init, TypeOK, Context, EmptyContext
  <1>2. QED
    BY <1>1, TypeStep, PTL DEF Spec

-----------------------------------------------------------------------------
(***************************************************************************)
(* The shape of traces.  Inductive invariant: every context held anywhere  *)
(* is coherent, and every span either starts trace n as span n or hangs    *)
(* below an earlier span of its trace.                                     *)
(***************************************************************************)
Placed(n, opened) ==
  IF opened[n].parent = None
  THEN opened[n].trace = n
  ELSE /\ opened[n].parent \in 1 .. n - 1
       /\ opened[opened[n].parent].trace = opened[n].trace
       /\ ~opened[n].adopted => opened[opened[n].parent].session = opened[n].session

AllPlaced == \A n \in 1 .. Len(spans) : Placed(n, spans)

LEMMA ExtendsKeeps ==
  ASSUME NEW old \in Seq(SpanRecord), NEW new \in Seq(SpanRecord), Extends(new, old)
  PROVE  /\ \A c \in Context : Coherent(c, old) => Coherent(c, new)
         /\ \A n \in 1 .. Len(old) : Placed(n, old) => Placed(n, new)
  <1>1. Len(old) \in Nat /\ Len(new) \in Nat
    OBVIOUS
  <1>2. ASSUME NEW c \in Context, Coherent(c, old) PROVE Coherent(c, new)
    BY <1>1, <1>2 DEF Extends, Coherent
  <1>3. ASSUME NEW n \in 1 .. Len(old), Placed(n, old) PROVE Placed(n, new)
    <2>1. CASE old[n].parent = None
      BY <1>1, <1>3, <2>1 DEF Extends, Placed
    <2>2. CASE old[n].parent # None
      <3>1. old[n].parent \in 1 .. Len(old)
        BY <1>1, <1>3, <2>2 DEF Placed
      <3>2. QED
        BY <1>1, <1>3, <2>2, <3>1 DEF Extends, Placed
    <2>3. QED
      BY <2>1, <2>2
  <1>4. QED
    BY <1>2, <1>3

\* Along a stack s of open blocks with context c in scope, resetting a block gives
\* back the context it was entered with, provided the blocks inside it were left.
Chain(c, s) ==
  \A i \in 1 .. Len(s) :
    Reset(IF i = Len(s) THEN c ELSE s[i + 1].saved, s[i]) = s[i].saved

Nested ==
  /\ \A t \in Tasks : Chain(ctx[t], stack[t])
  /\ \A t \in Tasks : life[t] = "new" => stack[t] = <<>>

TraceInv == TypeOK /\ ContextsCoherent /\ AllPlaced /\ Nested

LEMMA ChainPush ==
  ASSUME NEW s \in Seq(Frame), NEW c, NEW new, NEW f \in Frame, Chain(c, s),
         f.saved = c, Reset(new, f) = c
  PROVE  Chain(new, Append(s, f))
  <1>1. /\ Len(s) \in Nat
        /\ Len(Append(s, f)) = Len(s) + 1
        /\ \A i \in 1 .. Len(s) : Append(s, f)[i] = s[i]
        /\ Append(s, f)[Len(s) + 1] = f
    BY AppendFacts
  <1> DEFINE a == Append(s, f)
  <1> HIDE DEF a
  <1>2. ASSUME NEW i \in 1 .. Len(a)
        PROVE  Reset(IF i = Len(a) THEN new ELSE a[i + 1].saved, a[i]) = a[i].saved
    <2>1. CASE i = Len(s) + 1
      BY <1>1, <2>1 DEF a
    <2>2. CASE i = Len(s)
      BY <1>1, <1>2, <2>2 DEF a, Chain
    <2>3. CASE i < Len(s)
      <3>1. i \in 1 .. Len(s) /\ i + 1 \in 1 .. Len(s)
        BY <1>1, <1>2, <2>3 DEF a
      <3>2. a[i] = s[i] /\ a[i + 1] = s[i + 1] /\ i # Len(s) /\ i # Len(a)
        BY <1>1, <2>3, <3>1 DEF a
      <3>3. QED
        BY <3>1, <3>2 DEF Chain
    <2>4. QED
      BY <1>1, <1>2, <2>1, <2>2, <2>3 DEF a
  <1>3. QED
    BY <1>2 DEF Chain, a

LEMMA ChainPop ==
  ASSUME NEW s \in Seq(Frame), NEW c, s # <<>>, Chain(c, s)
  PROVE  /\ Reset(c, s[Len(s)]) = s[Len(s)].saved
         /\ Chain(Reset(c, s[Len(s)]), Front(s))
  <1>1. /\ Len(s) \in Nat \ {0}
        /\ Len(Front(s)) = Len(s) - 1
        /\ \A i \in 1 .. Len(s) - 1 : Front(s)[i] = s[i]
    BY FrontFacts
  <1>2. Reset(c, s[Len(s)]) = s[Len(s)].saved
    BY <1>1 DEF Chain
  <1> DEFINE a == Front(s)
  <1> HIDE DEF a
  <1>3. ASSUME NEW i \in 1 .. Len(a)
        PROVE  Reset(IF i = Len(a) THEN s[Len(s)].saved ELSE a[i + 1].saved, a[i]) = a[i].saved
    <2>1. i \in 1 .. Len(s) /\ i # Len(s) /\ a[i] = s[i]
      BY <1>1, <1>3 DEF a
    <2>2. Reset(s[i + 1].saved, s[i]) = s[i].saved
      BY <2>1 DEF Chain
    <2>3. CASE i = Len(a)
      <3>1. i + 1 = Len(s)
        BY <1>1, <2>3 DEF a
      <3>2. QED
        BY <2>1, <2>2, <2>3, <3>1
    <2>4. CASE i # Len(a)
      <3>1. a[i + 1] = s[i + 1]
        BY <1>1, <1>3, <2>4 DEF a
      <3>2. QED
        BY <2>1, <2>2, <2>4, <3>1
    <2>5. QED
      BY <2>3, <2>4
  <1>4. QED
    BY <1>2, <1>3 DEF Chain, a

LEMMA NoneIsNoId == None \notin SessionIds /\ None \notin Nat
  BY TelemetryAssumption DEF SessionIds

\* What opening a span adds: a coherent context, a well placed span, and a frame
\* whose reset gives back the context the span was opened in.
LEMMA NewSpanFits ==
  ASSUME TraceInv, NEW t \in Tasks, NEW from \in carried \cup {EmptyContext}, OpenSpan(t, from)
  PROVE  /\ Coherent(NewContext(t, from), spans')
         /\ Placed(Len(spans) + 1, spans')
         /\ Len(spans') = Len(spans) + 1
         /\ Extends(spans', spans)
         /\ Reset(NewContext(t, from), NewFrame(t)) = ctx[t]
  <1> DEFINE n == Len(spans) + 1
  <1> USE NoneIsNoId
  <1>1. /\ ctx[t] \in Context /\ from \in Context /\ NewSpan(t, from) \in SpanRecord
        /\ NewContext(t, from) \in Context
        /\ Len(spans) \in Nat /\ spans \in Seq(SpanRecord)
        /\ spans' = Append(spans, NewSpan(t, from))
    BY OpenSpanEffect DEF TraceInv, TypeOK
  <1>2. /\ spans'[n] = NewSpan(t, from) /\ Len(spans') = n
        /\ \A i \in 1 .. Len(spans) : spans'[i] = spans[i]
    BY <1>1, AppendFacts
  <1>3. Extends(spans', spans)
    BY <1>1, <1>2 DEF Extends
  <1>4. Coherent(ctx[t], spans)
    BY DEF TraceInv, ContextsCoherent
  <1>5. Coherent(from, spans)
    BY DEF TraceInv, ContextsCoherent, EmptyContext, Coherent
  <1>6. Coherent(NewContext(t, from), spans')
    <2>1. NewTrace(t, from) \in Nat
      BY <1>1 DEF NewTrace, Context
    <2>2. QED
      BY <1>1, <1>2, <2>1 DEF Coherent, NewContext, NewSpan
  <1>7. Placed(n, spans')
    <2>1. CASE ctx[t].trace # None
      <3>1. /\ ctx[t].parent \in 1 .. Len(spans) /\ ctx[t].parent # None
            /\ spans[ctx[t].parent].trace = ctx[t].trace
            /\ spans[ctx[t].parent].session = ctx[t].session
        BY <1>1, <1>4, <2>1 DEF Coherent
      <3>2. ctx[t].session # None
        <4>1. spans[ctx[t].parent] \in SpanRecord
          BY <1>1, <3>1
        <4>2. spans[ctx[t].parent].session \in SessionIds
          BY <4>1 DEF SpanRecord
        <4>3. QED
          BY <3>1, <4>2
      <3>3. /\ spans'[n].parent = ctx[t].parent /\ spans'[n].trace = ctx[t].trace
            /\ spans'[n].session = ctx[t].session
        BY <1>2, <2>1, <3>2 DEF NewSpan, NewTrace, NewParent, NewSession
      <3>4. QED
        BY <1>1, <1>2, <3>1, <3>3 DEF Placed
    <2>2. CASE ctx[t].trace = None /\ from.trace = None
      <3>1. from.parent = None
        BY <1>5, <2>2 DEF Coherent
      <3>2. spans'[n].parent = None /\ spans'[n].trace = n
        BY <1>2, <2>2, <3>1 DEF NewSpan, NewTrace, NewParent
      <3>3. QED
        BY <3>2 DEF Placed
    <2>3. CASE ctx[t].trace = None /\ from.trace # None
      <3>1. /\ from.parent \in 1 .. Len(spans) /\ from.parent # None
            /\ spans[from.parent].trace = from.trace
        BY <1>1, <1>5, <2>3 DEF Coherent
      <3>2. /\ spans'[n].parent = from.parent /\ spans'[n].trace = from.trace
            /\ spans'[n].adopted
        <4>1. NewTrace(t, from) = from.trace /\ NewParent(t, from) = from.parent
          BY <2>3 DEF NewTrace, NewParent
        <4>2. NewSpan(t, from).adopted = TRUE
          BY <2>3 DEF NewSpan
        <4>3. QED
          BY <1>2, <4>1, <4>2 DEF NewSpan
      <3>3. QED
        BY <1>1, <1>2, <3>1, <3>2 DEF Placed
    <2>4. QED
      BY <2>1, <2>2, <2>3
  <1>8. Reset(NewContext(t, from), NewFrame(t)) = ctx[t]
    <2>1. ctx[t] = [session |-> ctx[t].session, trace |-> ctx[t].trace, parent |-> ctx[t].parent]
      BY <1>1 DEF Context
    <2>2. QED
      BY <2>1 DEF Reset, NewContext, NewFrame, NewSession, NewTrace
  <1>9. QED
    BY <1>2, <1>3, <1>6, <1>7, <1>8

\* A step that adds no span but keeps the recorded ones leaves placement alone.
LEMMA PlacedKept ==
  ASSUME TypeOK, TypeOK', AllPlaced, Extends(spans', spans), Len(spans') = Len(spans)
  PROVE  AllPlaced'
  BY ExtendsKeeps DEF TypeOK, AllPlaced

\* Contexts stay coherent when spans are extended.
LEMMA StillCoherent ==
  ASSUME TypeOK, TypeOK', ContextsCoherent, Extends(spans', spans)
  PROVE  /\ \A t \in Tasks : Coherent(ctx[t], spans) => Coherent(ctx[t], spans')
         /\ \A c \in Context : Coherent(c, spans) => Coherent(c, spans')
         /\ \A t \in Tasks : \A i \in 1 .. Len(stack[t]) : Coherent(stack[t][i].saved, spans')
         /\ \A c \in carried : Coherent(c, spans')
  <1>1. \A c \in Context : Coherent(c, spans) => Coherent(c, spans')
    BY ExtendsKeeps DEF TypeOK
  <1>2. \A t \in Tasks : \A i \in 1 .. Len(stack[t]) : stack[t][i].saved \in Context
    <2>1. \A t \in Tasks : \A i \in 1 .. Len(stack[t]) : stack[t][i] \in Frame
      BY DEF TypeOK
    <2>2. QED
      BY <2>1 DEF Frame
  <1>3. QED
    BY <1>1, <1>2 DEF TypeOK, ContextsCoherent

\* Entering a block with a coherent context whose reset gives back the present one.
LEMMA PushKeeps ==
  ASSUME TraceInv, TypeOK', NEW t \in Tasks, NEW f \in Frame, NEW new,
         f.saved = ctx[t], Reset(new, f) = ctx[t], Coherent(new, spans'),
         Extends(spans', spans) \/ spans' = spans,
         stack' = [stack EXCEPT ![t] = Append(@, f)],
         ctx' = [ctx EXCEPT ![t] = new],
         life' = [life EXCEPT ![t] = "running"], carried' = carried
  PROVE  ContextsCoherent' /\ Nested'
  <1> USE DEF TraceInv
  <1>1. stack[t] \in Seq(Frame) /\ Chain(new, Append(stack[t], f))
    BY ChainPush DEF TypeOK, Nested
  <1>2. Nested'
    BY <1>1 DEF TypeOK, Nested
  <1>3. Extends(spans', spans)
    BY DEF TypeOK, Extends
  <1>4. /\ Len(stack[t]) \in Nat
        /\ Len(stack'[t]) = Len(stack[t]) + 1
        /\ \A i \in 1 .. Len(stack[t]) : stack'[t][i] = stack[t][i]
        /\ stack'[t][Len(stack[t]) + 1] = f
    BY <1>1, AppendFacts DEF TypeOK
  <1>5. \A i \in 1 .. Len(stack'[t]) : Coherent(stack'[t][i].saved, spans')
    <2>1. Coherent(f.saved, spans')
      BY <1>3, StillCoherent DEF ContextsCoherent
    <2>2. \A i \in 1 .. Len(stack[t]) : Coherent(stack'[t][i].saved, spans')
      BY <1>3, <1>4, StillCoherent
    <2>3. QED
      BY <1>4, <2>1, <2>2
  <1>6. \A u \in Tasks \ {t} : ctx'[u] = ctx[u] /\ stack'[u] = stack[u]
    BY DEF TypeOK
  <1>7. \A u \in Tasks \ {t} :
          Coherent(ctx'[u], spans') /\ \A i \in 1 .. Len(stack'[u]) : Coherent(stack'[u][i].saved, spans')
    BY <1>3, <1>6, StillCoherent DEF ContextsCoherent
  <1>8. ctx'[t] = new
    BY DEF TypeOK
  <1>9. \A c \in carried' : Coherent(c, spans')
    BY <1>3, StillCoherent
  <1>10. QED
    BY <1>2, <1>5, <1>7, <1>8, <1>9 DEF ContextsCoherent

LEMMA InvInit == Init => TraceInv
  <1>1. Init => TypeOK
    BY DEF Init, TypeOK, Context, EmptyContext
  <1>2. Init => ContextsCoherent
    BY DEF Init, ContextsCoherent, Coherent, EmptyContext
  <1>3. Init => AllPlaced
    BY DEF Init, AllPlaced
  <1>4. Init => Nested
    BY DEF Init, Nested, Chain
  <1>5. QED
    BY <1>1, <1>2, <1>3, <1>4 DEF TraceInv

LEMMA InvStep == TraceInv /\ TypeOK' /\ [Next]_vars => TraceInv'
  <1> SUFFICES ASSUME TraceInv, TypeOK', [Next]_vars PROVE TraceInv'
    OBVIOUS
  <1> USE DEF TraceInv
  <1>1. ASSUME NEW t \in Tasks, NEW sid \in SessionNames \cup {None} \cup {c.session : c \in carried},
               OpenSession(t, sid)
        PROVE  TraceInv'
    <2>1. PICK id \in SessionIds :
            /\ InSession(t, id) \in Context /\ NewSessionFrame(t) \in Frame
            /\ stack' = [stack EXCEPT ![t] = Append(@, NewSessionFrame(t))]
            /\ ctx' = [ctx EXCEPT ![t] = InSession(t, id)]
            /\ life[t] # "gone" /\ life' = [life EXCEPT ![t] = "running"]
            /\ minted' \in Nat /\ UNCHANGED <<spans, carried, emitted>>
      BY <1>1, OpenSessionEffect
    <2>2. Coherent(InSession(t, id), spans)
      BY DEF Coherent, InSession
    <2>3. Reset(InSession(t, id), NewSessionFrame(t)) = ctx[t]
      BY DEF TypeOK, Context, Reset, InSession, NewSessionFrame
    <2>4. ContextsCoherent' /\ Nested'
      BY <2>1, <2>2, <2>3, PushKeeps DEF NewSessionFrame
    <2>5. AllPlaced'
      BY <2>1 DEF AllPlaced
    <2>6. QED
      BY <2>4, <2>5
  <1>2. ASSUME NEW t \in Tasks, NEW from \in carried \cup {EmptyContext}, OpenSpan(t, from)
        PROVE  TraceInv'
    <2>1. /\ NewFrame(t) \in Frame /\ NewFrame(t).saved = ctx[t]
          /\ stack' = [stack EXCEPT ![t] = Append(@, NewFrame(t))]
          /\ ctx' = [ctx EXCEPT ![t] = NewContext(t, from)]
          /\ life' = [life EXCEPT ![t] = "running"] /\ carried' = carried
      BY <1>2, OpenSpanEffect DEF NewFrame
    <2>2. /\ Coherent(NewContext(t, from), spans')
          /\ Placed(Len(spans) + 1, spans')
          /\ Len(spans') = Len(spans) + 1
          /\ Extends(spans', spans)
          /\ Reset(NewContext(t, from), NewFrame(t)) = ctx[t]
      BY <1>2, NewSpanFits
    <2>3. ContextsCoherent' /\ Nested'
      BY <2>1, <2>2, PushKeeps
    <2>4. AllPlaced'
      <3>1. \A n \in 1 .. Len(spans) : Placed(n, spans')
        BY <2>2, ExtendsKeeps DEF TypeOK, AllPlaced
      <3>2. Len(spans) \in Nat
        BY DEF TypeOK
      <3>3. QED
        BY <2>2, <3>1, <3>2 DEF AllPlaced
    <2>5. QED
      BY <2>3, <2>4
  <1>3. ASSUME NEW t \in Tasks, NEW outcome \in {"ok", "error"}, CloseBlock(t, outcome)
        PROVE  TraceInv'
    <2>1. /\ Len(stack[t]) \in 1 .. Len(stack[t]) /\ stack[t] # <<>> /\ Top(t) = stack[t][Len(stack[t])]
          /\ stack' = [stack EXCEPT ![t] = Front(@)]
          /\ ctx' = [ctx EXCEPT ![t] = Reset(@, Top(t))]
          /\ Extends(spans', spans) /\ Len(spans') = Len(spans)
          /\ life[t] = "running" /\ life' = life /\ carried' = carried
      BY <1>3, CloseBlockEffect
    <2>2. Reset(ctx[t], Top(t)) = Top(t).saved /\ Chain(Reset(ctx[t], Top(t)), Front(stack[t]))
      BY <2>1, ChainPop DEF TypeOK, Nested
    <2>3. Nested'
      BY <2>1, <2>2 DEF TypeOK, Nested
    <2>4. \A u \in Tasks : Coherent(ctx'[u], spans)
      BY <2>1, <2>2 DEF TypeOK, ContextsCoherent
    <2>5. \A u \in Tasks : \A i \in 1 .. Len(stack'[u]) :
            i \in 1 .. Len(stack[u]) /\ stack'[u][i] = stack[u][i]
      <3>1. /\ Len(stack[t]) \in Nat /\ Len(Front(stack[t])) = Len(stack[t]) - 1
            /\ \A i \in 1 .. Len(stack[t]) - 1 : Front(stack[t])[i] = stack[t][i]
        BY <2>1, FrontFacts DEF TypeOK
      <3>2. stack'[t] = Front(stack[t]) /\ \A u \in Tasks \ {t} : stack'[u] = stack[u]
        BY <2>1 DEF TypeOK
      <3>3. \A i \in 1 .. Len(Front(stack[t])) :
              i \in 1 .. Len(stack[t]) /\ Front(stack[t])[i] = stack[t][i]
        BY <3>1
      <3>4. QED
        BY <3>2, <3>3
    <2>6. ContextsCoherent'
      <3>1. ContextsCoherent
        OBVIOUS
      <3>2. \A c \in Context : Coherent(c, spans) => Coherent(c, spans')
        BY <2>1, <3>1, StillCoherent
      <3>3. \A u \in Tasks : Coherent(ctx'[u], spans')
        BY <2>4, <3>2 DEF TypeOK
      <3>4. \A u \in Tasks : \A i \in 1 .. Len(stack'[u]) : Coherent(stack'[u][i].saved, spans')
        BY <2>1, <2>5, <3>1, StillCoherent
      <3>5. \A c \in carried' : Coherent(c, spans')
        BY <2>1, <3>1, StillCoherent
      <3>6. QED
        BY <3>3, <3>4, <3>5 DEF ContextsCoherent
    <2>7. QED
      BY <2>1, <2>3, <2>6, PlacedKept
  <1>4. ASSUME NEW t \in Tasks, FinalizeElsewhere(t)
        PROVE  TraceInv'
    <2>1. Extends(spans', spans) /\ Len(spans') = Len(spans)
      BY <1>4, FinalizeEffect
    <2>2. /\ ctx' = ctx /\ carried' = carried
          /\ stack' = [stack EXCEPT ![t] = <<>>]
          /\ life' = [life EXCEPT ![t] = "gone"]
      BY <1>4 DEF FinalizeElsewhere
    <2>3. Nested'
      BY <2>2 DEF TypeOK, Nested, Chain
    <2>4. \A u \in Tasks : \A i \in 1 .. Len(stack'[u]) :
            i \in 1 .. Len(stack[u]) /\ stack'[u][i] = stack[u][i]
      <3>1. stack'[t] = <<>> /\ \A u \in Tasks \ {t} : stack'[u] = stack[u]
        BY <2>2 DEF TypeOK
      <3>2. \A i \in 1 .. Len(<<>>) : FALSE
        OBVIOUS
      <3>3. QED
        BY <3>1, <3>2
    <2>5. ContextsCoherent'
      <3>1. \A u \in Tasks : Coherent(ctx'[u], spans')
        BY <2>1, <2>2, StillCoherent DEF ContextsCoherent
      <3>2. \A u \in Tasks : \A i \in 1 .. Len(stack'[u]) : Coherent(stack'[u][i].saved, spans')
        BY <2>1, <2>4, StillCoherent
      <3>3. \A c \in carried' : Coherent(c, spans')
        BY <2>1, <2>2, StillCoherent
      <3>4. QED
        BY <3>1, <3>2, <3>3 DEF ContextsCoherent
    <2>6. QED
      BY <2>1, <2>3, <2>5, PlacedKept
  <1>5. ASSUME NEW t \in Tasks, NEW u \in Tasks, Fork(t, u)
        PROVE  TraceInv'
    <2>1. /\ life[u] = "new" /\ ctx' = [ctx EXCEPT ![u] = ctx[t]]
          /\ life' = [life EXCEPT ![u] = "running"]
          /\ UNCHANGED <<stack, spans, carried>>
      BY <1>5 DEF Fork
    <2>2. Nested'
      BY <2>1 DEF TypeOK, Nested, Chain
    <2>3. ContextsCoherent'
      BY <2>1 DEF TypeOK, ContextsCoherent
    <2>4. AllPlaced'
      BY <2>1 DEF AllPlaced
    <2>5. QED
      BY <2>2, <2>3, <2>4
  <1>6. ASSUME NEW t \in Tasks, Carry(t)
        PROVE  TraceInv'
    BY <1>6 DEF Carry, ContextsCoherent, AllPlaced, Nested
  <1>7. CASE UNCHANGED vars
    BY <1>7 DEF vars, ContextsCoherent, AllPlaced, Nested
  <1>8. QED
    BY <1>1, <1>2, <1>3, <1>4, <1>5, <1>6, <1>7 DEF Next

\* The inductive invariant, and what follows from it.
LEMMA InvHolds == Spec => []TraceInv
  <1>1. TraceInv /\ [Next]_vars => TraceInv'
    BY InvStep, TypeStep DEF TraceInv
  <1>2. QED
    BY InvInit, <1>1, PTL DEF Spec

\* Whatever is nested, forked, carried and used late, every context the SDK holds
\* names a parent span of its own trace and session.
THEOREM Coherence == Spec => []ContextsCoherent
  <1>1. TraceInv => ContextsCoherent
    BY DEF TraceInv
  <1>2. QED
    BY <1>1, InvHolds, PTL

\* A span's parent is an earlier span of the same trace.
THEOREM Parents == Spec => []ParentInTrace
  <1>1. TraceInv => ParentInTrace
    BY DEF TraceInv, AllPlaced, Placed, ParentInTrace, SpanIds
  <1>2. QED
    BY <1>1, InvHolds, PTL

\* No trace has two root spans: a root starts the trace that bears its name.
THEOREM SingleRoot == Spec => []OneRootPerTrace
  <1>1. TraceInv => OneRootPerTrace
    BY DEF TraceInv, AllPlaced, Placed, OneRootPerTrace, SpanIds
  <1>2. QED
    BY <1>1, InvHolds, PTL

\* Only a span that adopts a carried trace can be in another session than its parent.
THEOREM SessionKept == Spec => []NestedKeepsSession
  <1>1. TraceInv => NestedKeepsSession
    BY DEF TraceInv, AllPlaced, Placed, NestedKeepsSession, SpanIds
  <1>2. QED
    BY <1>1, InvHolds, PTL

\* Leaving a block puts session, trace and parent back to what they were when it was
\* entered, at any depth and however sessions and spans are nested.
THEOREM ResetsRestore == Spec => RestoresContext
  <1> DEFINE Restores ==
        \A t \in Tasks : Len(stack'[t]) = Len(stack[t]) - 1 /\ life'[t] = "running"
          => ctx'[t] = Top(t).saved
  <1>1. TraceInv /\ TraceInv' /\ [Next]_vars => [Restores]_vars
    <2> SUFFICES ASSUME TraceInv, TraceInv', Next, NEW u \in Tasks,
                        Len(stack'[u]) = Len(stack[u]) - 1, life'[u] = "running"
                 PROVE  ctx'[u] = Top(u).saved
      OBVIOUS
    <2> USE DEF TraceInv
    <2>1. stack[u] \in Seq(Frame) /\ Len(stack[u]) \in Nat /\ stack'[u] # stack[u]
      BY DEF TypeOK
    <2>2. ASSUME NEW t \in Tasks, NEW sid \in SessionNames \cup {None} \cup {c.session : c \in carried},
                 OpenSession(t, sid)
          PROVE  FALSE
      <3>1. stack' = [stack EXCEPT ![t] = Append(@, NewSessionFrame(t))] /\ NewSessionFrame(t) \in Frame
        BY <2>2, OpenSessionEffect
      <3>2. u = t /\ stack'[u] = Append(stack[u], NewSessionFrame(t))
        BY <2>1, <3>1 DEF TypeOK
      <3>3. QED
        BY <2>1, <3>1, <3>2, AppendFacts
    <2>3. ASSUME NEW t \in Tasks, NEW from \in carried \cup {EmptyContext}, OpenSpan(t, from)
          PROVE  FALSE
      <3>1. stack' = [stack EXCEPT ![t] = Append(@, NewFrame(t))] /\ NewFrame(t) \in Frame
        BY <2>3, OpenSpanEffect
      <3>2. u = t /\ stack'[u] = Append(stack[u], NewFrame(t))
        BY <2>1, <3>1 DEF TypeOK
      <3>3. QED
        BY <2>1, <3>1, <3>2, AppendFacts
    <2>4. ASSUME NEW t \in Tasks, NEW outcome \in {"ok", "error"}, CloseBlock(t, outcome)
          PROVE  ctx'[u] = Top(u).saved
      <3>1. /\ stack' = [stack EXCEPT ![t] = Front(@)] /\ stack[t] # <<>>
            /\ ctx' = [ctx EXCEPT ![t] = Reset(@, Top(t))]
        BY <2>4, CloseBlockEffect
      <3>2. u = t /\ ctx'[u] = Reset(ctx[u], Top(u))
        BY <2>1, <3>1 DEF TypeOK
      <3>3. QED
        BY <2>1, <3>1, <3>2, ChainPop DEF Nested, Top
    <2>5. ASSUME NEW t \in Tasks, FinalizeElsewhere(t)
          PROVE  FALSE
      BY <2>1, <2>5 DEF FinalizeElsewhere, TypeOK
    <2>6. ASSUME NEW t \in Tasks, NEW v \in Tasks, Fork(t, v)
          PROVE  FALSE
      BY <2>1, <2>6 DEF Fork
    <2>7. ASSUME NEW t \in Tasks, Carry(t)
          PROVE  FALSE
      BY <2>1, <2>7 DEF Carry
    <2>8. QED
      BY <2>2, <2>3, <2>4, <2>5, <2>6, <2>7 DEF Next
  <1>2. QED
    BY <1>1, InvHolds, PTL DEF Spec, RestoresContext
-----------------------------------------------------------------------------
(***************************************************************************)
(* The events.  A span's event comes after those of its children in the    *)
(* task because a child is opened on top of it: the invariant ties every   *)
(* open span to a block of its task's stack, and every context a task can  *)
(* come back to whose parent is a span of that task to a block below.      *)
(***************************************************************************)
\* The block with span n is among the lowest ones of stack s.
Among(n, s, depth) == \E i \in 1 .. depth : s[i].span = n

\* Block i of stack s of task t, if it is a span's: that span is open, newer than those
\* below, and its parent is the one the block takes the context back to.
FrameFits(t, s, i, opened) ==
  s[i].span # 0 =>
    /\ s[i].span \in 1 .. Len(opened)
    /\ opened[s[i].span].task = t
    /\ opened[s[i].span].status = "open"
    /\ opened[s[i].span].adopted \/ opened[s[i].span].parent = s[i].saved.parent
    /\ \A j \in 1 .. i - 1 : s[j].span < s[i].span

\* If the parent span of context c is one of t's own, its block is still there.
Rooted(t, c, s, depth, opened) ==
  c.parent # None /\ opened[c.parent].task = t => Among(c.parent, s, depth)

Framed == \A t \in Tasks : \A i \in 1 .. Len(stack[t]) : FrameFits(t, stack[t], i, spans)

Standing ==
  \A t \in Tasks : life[t] # "gone" =>
    /\ Rooted(t, ctx[t], stack[t], Len(stack[t]), spans)
    /\ \A i \in 1 .. Len(stack[t]) : Rooted(t, stack[t][i].saved, stack[t], i - 1, spans)

\* What has become of each span.
Tracked ==
  \A n \in 1 .. Len(spans) :
    /\ life[spans[n].task] # "new"
    /\ spans[n].status = "open" => Among(n, stack[spans[n].task], Len(stack[spans[n].task]))
    /\ spans[n].status = "lost" => life[spans[n].task] = "gone"

EventInv == Framed /\ Standing /\ Tracked /\ ExactlyOneEvent /\ ChildrenFirst

\* What stays of the spans seen from task u: their place, and for its own the status.
Unmoved(u, new, old) ==
  /\ Len(old) <= Len(new)
  /\ \A n \in 1 .. Len(old) : /\ new[n].task = old[n].task
                              /\ new[n].parent = old[n].parent
                              /\ new[n].adopted = old[n].adopted
                              /\ old[n].task = u => new[n].status = old[n].status

LEMMA SameBlocks ==
  ASSUME NEW t, NEW opened, NEW d \in Nat, NEW s, NEW r, \A i \in 1 .. d : r[i] = s[i]
  PROVE  /\ \A i \in 1 .. d : FrameFits(t, s, i, opened) => FrameFits(t, r, i, opened)
         /\ \A c : \A k \in 0 .. d : Rooted(t, c, s, k, opened) => Rooted(t, c, r, k, opened)
  <1>1. ASSUME NEW i \in 1 .. d, FrameFits(t, s, i, opened) PROVE FrameFits(t, r, i, opened)
    <2>1. r[i] = s[i] /\ \A j \in 1 .. i - 1 : r[j] = s[j]
      OBVIOUS
    <2>2. QED
      BY <1>1, <2>1 DEF FrameFits
  <1>2. ASSUME NEW c, NEW k \in 0 .. d, Rooted(t, c, s, k, opened) PROVE Rooted(t, c, r, k, opened)
    <2>1. \A i \in 1 .. k : r[i] = s[i]
      OBVIOUS
    <2>2. QED
      BY <1>2, <2>1 DEF Rooted, Among
  <1>3. QED
    BY <1>1, <1>2

LEMMA UnmovedKeeps ==
  ASSUME NEW u \in Tasks, NEW old \in Seq(SpanRecord), NEW new \in Seq(SpanRecord), Unmoved(u, new, old), NEW s
  PROVE  /\ \A i \in Nat : FrameFits(u, s, i, old) => FrameFits(u, s, i, new)
         /\ \A c \in Context, k \in Nat :
              Coherent(c, old) /\ Rooted(u, c, s, k, old) => Rooted(u, c, s, k, new)
  <1>1. Len(old) \in Nat /\ Len(new) \in Nat /\ Len(old) <= Len(new)
    BY DEF Unmoved
  <1>2. ASSUME NEW i \in Nat, FrameFits(u, s, i, old) PROVE FrameFits(u, s, i, new)
    BY <1>1, <1>2 DEF FrameFits, Unmoved
  <1>3. ASSUME NEW c \in Context, NEW k \in Nat, Coherent(c, old), Rooted(u, c, s, k, old)
        PROVE  Rooted(u, c, s, k, new)
    <2>1. c.parent # None => c.parent \in 1 .. Len(old)
      BY <1>3 DEF Coherent
    <2>2. QED
      BY <1>3, <2>1 DEF Rooted, Unmoved
  <1>4. QED
    BY <1>2, <1>3

\* Every block, and every context it saves, has its type and is coherent.
LEMMA Blocks ==
  ASSUME TraceInv, NEW t \in Tasks
  PROVE  /\ stack[t] \in Seq(Frame) /\ Len(stack[t]) \in Nat
         /\ ctx[t] \in Context /\ Coherent(ctx[t], spans)
         /\ \A i \in 1 .. Len(stack[t]) :
              /\ stack[t][i] \in Frame /\ stack[t][i].span \in Nat
              /\ stack[t][i].saved \in Context /\ Coherent(stack[t][i].saved, spans)
  <1>1. stack[t] \in Seq(Frame) /\ ctx[t] \in Context
    BY DEF TraceInv, TypeOK
  <1>2. \A i \in 1 .. Len(stack[t]) : stack[t][i] \in Frame
    BY <1>1
  <1>3. \A f \in Frame : f.span \in Nat /\ f.saved \in Context
    BY DEF Frame
  <1>4. QED
    BY <1>1, <1>2, <1>3 DEF TraceInv, ContextsCoherent

\* A task whose own stack and context a step leaves alone, and whose spans keep their
\* place and status.
LEMMA Bystander ==
  ASSUME TraceInv, EventInv, NEW u \in Tasks, spans' \in Seq(SpanRecord), Unmoved(u, spans', spans),
         stack'[u] = stack[u], ctx'[u] = ctx[u]
  PROVE  /\ \A i \in 1 .. Len(stack'[u]) : FrameFits(u, stack'[u], i, spans')
         /\ life[u] # "gone" =>
              /\ Rooted(u, ctx'[u], stack'[u], Len(stack'[u]), spans')
              /\ \A i \in 1 .. Len(stack'[u]) : Rooted(u, stack'[u][i].saved, stack'[u], i - 1, spans')
  <1>1. spans \in Seq(SpanRecord)
    BY DEF TraceInv, TypeOK
  <1>2. \A i \in 1 .. Len(stack[u]) : FrameFits(u, stack[u], i, spans')
    <2>1. \A i \in Nat : FrameFits(u, stack[u], i, spans) => FrameFits(u, stack[u], i, spans')
      BY <1>1, UnmovedKeeps
    <2>2. \A i \in 1 .. Len(stack[u]) : i \in Nat /\ FrameFits(u, stack[u], i, spans)
      BY DEF EventInv, Framed
    <2>3. QED
      BY <2>1, <2>2
  <1>3. ASSUME life[u] # "gone"
        PROVE  /\ Rooted(u, ctx[u], stack[u], Len(stack[u]), spans')
               /\ \A i \in 1 .. Len(stack[u]) : Rooted(u, stack[u][i].saved, stack[u], i - 1, spans')
    <2>1. /\ Rooted(u, ctx[u], stack[u], Len(stack[u]), spans)
          /\ \A i \in 1 .. Len(stack[u]) : Rooted(u, stack[u][i].saved, stack[u], i - 1, spans)
      BY <1>3 DEF EventInv, Standing
    <2>2. \A i \in 1 .. Len(stack[u]) : i - 1 \in Nat
      OBVIOUS
    <2>3. Rooted(u, ctx[u], stack[u], Len(stack[u]), spans')
      BY <1>1, <2>1, Blocks, UnmovedKeeps
    <2>4. ASSUME NEW i \in 1 .. Len(stack[u])
          PROVE  Rooted(u, stack[u][i].saved, stack[u], i - 1, spans')
      BY <1>1, <2>1, <2>2, Blocks, UnmovedKeeps
    <2>5. QED
      BY <2>3, <2>4
  <1>4. QED
    BY <1>2, <1>3

\* Entering a block keeps the stack's structure.
LEMMA PushStands ==
  ASSUME TraceInv, EventInv, NEW t \in Tasks, NEW f \in Frame, NEW new \in Context,
         spans' \in Seq(SpanRecord), f.saved = ctx[t], life[t] # "gone",
         \A u \in Tasks : Unmoved(u, spans', spans),
         stack' = [stack EXCEPT ![t] = Append(@, f)],
         ctx' = [ctx EXCEPT ![t] = new],
         life' = [life EXCEPT ![t] = "running"],
         FrameFits(t, Append(stack[t], f), Len(stack[t]) + 1, spans'),
         Rooted(t, new, Append(stack[t], f), Len(stack[t]) + 1, spans')
  PROVE  Framed' /\ Standing'
  <1> DEFINE s == stack[t]
             r == Append(stack[t], f)
  <1>1. /\ s \in Seq(Frame) /\ Len(s) \in Nat /\ Len(r) = Len(s) + 1
        /\ \A i \in 1 .. Len(s) : r[i] = s[i]
        /\ r[Len(s) + 1] = f
    BY Blocks, AppendFacts
  <1>2. /\ stack'[t] = r /\ ctx'[t] = new /\ life'[t] = "running"
        /\ \A u \in Tasks \ {t} : stack'[u] = stack[u] /\ ctx'[u] = ctx[u] /\ life'[u] = life[u]
    BY DEF TraceInv, TypeOK
  <1>3. spans \in Seq(SpanRecord) /\ Unmoved(t, spans', spans)
    BY DEF TraceInv, TypeOK
  <1>4. /\ \A i \in 1 .. Len(s) : FrameFits(t, s, i, spans')
        /\ Rooted(t, ctx[t], s, Len(s), spans')
        /\ \A i \in 1 .. Len(s) : Rooted(t, s[i].saved, s, i - 1, spans')
    <2>1. /\ \A i \in 1 .. Len(s) : FrameFits(t, s, i, spans)
          /\ Rooted(t, ctx[t], s, Len(s), spans)
          /\ \A i \in 1 .. Len(s) : Rooted(t, s[i].saved, s, i - 1, spans)
      BY DEF EventInv, Framed, Standing
    <2>2. \A i \in 1 .. Len(s) : i - 1 \in Nat /\ i \in Nat
      OBVIOUS
    <2>3. \A i \in 1 .. Len(s) : FrameFits(t, s, i, spans')
      BY <1>3, <2>1, <2>2, UnmovedKeeps
    <2>4. Rooted(t, ctx[t], s, Len(s), spans')
      BY <1>1, <1>3, <2>1, Blocks, UnmovedKeeps
    <2>5. ASSUME NEW i \in 1 .. Len(s) PROVE Rooted(t, s[i].saved, s, i - 1, spans')
      BY <1>3, <2>1, <2>2, Blocks, UnmovedKeeps
    <2>6. QED
      BY <2>3, <2>4, <2>5
  <1> HIDE DEF s, r
  <1>5. /\ \A i \in 1 .. Len(s) : FrameFits(t, r, i, spans')
        /\ \A i \in 1 .. Len(s) : Rooted(t, r[i].saved, r, i - 1, spans')
        /\ Rooted(t, f.saved, r, Len(s), spans')
    <2>1. \A i \in 1 .. Len(s) : i - 1 \in 0 .. Len(s)
      BY <1>1
    <2>2. Len(s) \in 0 .. Len(s)
      BY <1>1
    <2>3. \A i \in 1 .. Len(s) : FrameFits(t, r, i, spans')
      BY <1>1, <1>4, SameBlocks
    <2>4. \A c : \A k \in 0 .. Len(s) : Rooted(t, c, s, k, spans') => Rooted(t, c, r, k, spans')
      BY <1>1, SameBlocks
    <2>5. ASSUME NEW i \in 1 .. Len(s) PROVE Rooted(t, r[i].saved, r, i - 1, spans')
      BY <1>1, <1>4, <2>1, <2>4
    <2>6. Rooted(t, f.saved, r, Len(s), spans')
      BY <1>4, <2>2, <2>4 DEF s
    <2>7. QED
      BY <2>3, <2>5, <2>6
  <1>6. \A i \in 1 .. Len(r) : FrameFits(t, r, i, spans') /\ Rooted(t, r[i].saved, r, i - 1, spans')
    <2>1. \A i \in 1 .. Len(r) : i \in 1 .. Len(s) \/ (i = Len(s) + 1 /\ i - 1 = Len(s))
      BY <1>1
    <2>2. FrameFits(t, r, Len(s) + 1, spans')
      BY DEF r, s
    <2>3. QED
      BY <1>1, <1>5, <2>1, <2>2
  <1>7. Rooted(t, new, r, Len(r), spans')
    BY <1>1 DEF r, s
  <1>8. Framed'
    <2>1. \A u \in Tasks \ {t} : \A i \in 1 .. Len(stack'[u]) : FrameFits(u, stack'[u], i, spans')
      BY <1>2, Bystander
    <2>2. QED
      BY <1>2, <1>6, <2>1 DEF Framed
  <1>9. Standing'
    <2>1. ASSUME NEW u \in Tasks \ {t}, life'[u] # "gone"
          PROVE  /\ Rooted(u, ctx'[u], stack'[u], Len(stack'[u]), spans')
                 /\ \A i \in 1 .. Len(stack'[u]) : Rooted(u, stack'[u][i].saved, stack'[u], i - 1, spans')
      BY <1>2, <2>1, Bystander
    <2>2. QED
      BY <1>2, <1>6, <1>7, <2>1 DEF Standing
  <1>10. QED
    BY <1>8, <1>9

LEMMA Recorded ==
  ASSUME TraceInv
  PROVE  \A n \in SpanIds : spans[n].task \in Tasks /\ spans[n].status \in Status
  <1>1. \A n \in SpanIds : spans[n] \in SpanRecord
    BY DEF TraceInv, TypeOK, SpanIds
  <1>2. QED
    BY <1>1 DEF SpanRecord

\* No task loses sight of a span that a step opens, closes or leaves alone.
LEMMA StepInit == Init => EventInv
  <1>1. Init => Framed /\ Standing /\ Tracked
    BY DEF Init, Framed, Standing, Tracked, Rooted, EmptyContext
  <1>2. Init => ExactlyOneEvent /\ ChildrenFirst
    BY DEF Init, ExactlyOneEvent, ChildrenFirst, SpanIds
  <1>3. QED
    BY <1>1, <1>2 DEF EventInv

\* Opening a span of task t: its block fits, and the new context is rooted in it.
LEMMA OpenedFits ==
  ASSUME TraceInv, EventInv, NEW t \in Tasks, NEW from \in carried \cup {EmptyContext}, OpenSpan(t, from)
  PROVE  /\ FrameFits(t, Append(stack[t], NewFrame(t)), Len(stack[t]) + 1, spans')
         /\ Rooted(t, NewContext(t, from), Append(stack[t], NewFrame(t)), Len(stack[t]) + 1, spans')
         /\ \A u \in Tasks : Unmoved(u, spans', spans)
         /\ Len(spans') = Len(spans) + 1 /\ Len(spans) \in Nat
         /\ \A i \in 1 .. Len(spans) : spans'[i] = spans[i]
         /\ spans'[Len(spans) + 1] = NewSpan(t, from)
         /\ NewSpan(t, from).adopted \/ NewSpan(t, from).parent = ctx[t].parent
  <1> DEFINE n == Len(spans) + 1
             r == Append(stack[t], NewFrame(t))
  <1>1. /\ NewFrame(t) \in Frame /\ NewSpan(t, from) \in SpanRecord
        /\ from \in Context /\ spans' = Append(spans, NewSpan(t, from))
        /\ spans \in Seq(SpanRecord) /\ Len(spans) \in Nat
    BY OpenSpanEffect DEF TraceInv, TypeOK
  <1>2. /\ Len(spans') = n /\ spans'[n] = NewSpan(t, from)
        /\ \A i \in 1 .. Len(spans) : spans'[i] = spans[i]
    BY <1>1, AppendFacts
  <1>3. \A u \in Tasks : Unmoved(u, spans', spans)
    BY <1>1, <1>2 DEF Unmoved
  <1>4. /\ stack[t] \in Seq(Frame) /\ Len(stack[t]) \in Nat
        /\ r[Len(stack[t]) + 1] = NewFrame(t)
        /\ \A i \in 1 .. Len(stack[t]) : r[i] = stack[t][i]
    BY <1>1, Blocks, AppendFacts
  <1>5. NewSpan(t, from).adopted \/ NewSpan(t, from).parent = ctx[t].parent
    <2>1. CASE ctx[t].trace # None
      BY <2>1 DEF NewSpan, NewParent
    <2>2. CASE ctx[t].trace = None /\ from.trace # None
      BY <2>2 DEF NewSpan
    <2>3. CASE ctx[t].trace = None /\ from.trace = None
      <3>1. Coherent(ctx[t], spans) /\ Coherent(from, spans)
        BY Blocks DEF TraceInv, ContextsCoherent, EmptyContext, Coherent
      <3>2. ctx[t].parent = None /\ from.parent = None
        BY <2>3, <3>1 DEF Coherent
      <3>3. QED
        BY <2>3, <3>2 DEF NewSpan, NewParent
    <2>4. QED
      BY <2>1, <2>2, <2>3
  <1>6. NewFrame(t).span = n /\ NewFrame(t).saved = ctx[t]
    BY DEF NewFrame
  <1>7. NewSpan(t, from).task = t /\ NewSpan(t, from).status = "open"
    BY DEF NewSpan
  <1>8. \A j \in 1 .. Len(stack[t]) : r[j].span < n
    <2>1. \A j \in 1 .. Len(stack[t]) : stack[t][j].span \in Nat /\ FrameFits(t, stack[t], j, spans)
      BY Blocks DEF EventInv, Framed
    <2>2. \A j \in 1 .. Len(stack[t]) : stack[t][j].span < n
      BY <1>1, <2>1 DEF FrameFits
    <2>3. QED
      BY <1>4, <2>2
  <1> HIDE DEF r
  <1>9. FrameFits(t, r, Len(stack[t]) + 1, spans')
    <2>1. \A j \in 1 .. Len(stack[t]) + 1 - 1 : r[j].span < n
      BY <1>4, <1>8
    <2>2. n \in 1 .. Len(spans')
      BY <1>1, <1>2
    <2>3. QED
      BY <1>2, <1>4, <1>5, <1>6, <1>7, <2>1, <2>2 DEF FrameFits
  <1>10. Rooted(t, NewContext(t, from), r, Len(stack[t]) + 1, spans')
    <2>1. Len(stack[t]) + 1 \in 1 .. Len(stack[t]) + 1
      BY <1>4
    <2>2. NewContext(t, from).parent = n
      BY DEF NewContext
    <2>3. QED
      BY <1>4, <1>6, <2>1, <2>2 DEF Rooted, Among
  <1>11. QED
    BY <1>1, <1>2, <1>3, <1>5, <1>9, <1>10 DEF r

LEMMA OpenSpanEvents ==
  ASSUME TraceInv, TypeOK', EventInv, NEW t \in Tasks, NEW from \in carried \cup {EmptyContext}, OpenSpan(t, from)
  PROVE  EventInv'
  <1> DEFINE n == Len(spans) + 1
  <1>1. /\ NewFrame(t) \in Frame /\ NewContext(t, from) \in Context
        /\ NewFrame(t).saved = ctx[t] /\ NewFrame(t).span = n
        /\ stack' = [stack EXCEPT ![t] = Append(@, NewFrame(t))]
        /\ ctx' = [ctx EXCEPT ![t] = NewContext(t, from)]
        /\ life[t] # "gone" /\ life' = [life EXCEPT ![t] = "running"]
        /\ emitted' = emitted
    BY OpenSpanEffect DEF TraceInv, NewFrame
  <1>2. /\ FrameFits(t, Append(stack[t], NewFrame(t)), Len(stack[t]) + 1, spans')
        /\ Rooted(t, NewContext(t, from), Append(stack[t], NewFrame(t)), Len(stack[t]) + 1, spans')
        /\ \A u \in Tasks : Unmoved(u, spans', spans)
        /\ Len(spans') = n /\ Len(spans) \in Nat
        /\ \A i \in 1 .. Len(spans) : spans'[i] = spans[i]
        /\ spans'[n] = NewSpan(t, from)
        /\ NewSpan(t, from).adopted \/ NewSpan(t, from).parent = ctx[t].parent
    BY OpenedFits
  <1>3. NewSpan(t, from).task = t /\ NewSpan(t, from).status = "open"
    BY DEF NewSpan
  <1>4. Framed' /\ Standing'
    BY <1>1, <1>2, PushStands DEF TypeOK
  <1>5. SpanIds' = SpanIds \cup {n}
    BY <1>2 DEF SpanIds
  <1>6. Tracked'
    <2>1. /\ stack'[t] = Append(stack[t], NewFrame(t)) /\ life'[t] = "running"
          /\ \A u \in Tasks \ {t} : stack'[u] = stack[u] /\ life'[u] = life[u]
      BY <1>1 DEF TraceInv, TypeOK
    <2>2. /\ Len(stack[t]) \in Nat /\ Len(stack'[t]) = Len(stack[t]) + 1
          /\ \A i \in 1 .. Len(stack[t]) : stack'[t][i] = stack[t][i]
          /\ stack'[t][Len(stack[t]) + 1] = NewFrame(t)
      BY <1>1, <2>1, Blocks, AppendFacts
    <2>3. Among(n, stack'[t], Len(stack'[t]))
      <3>1. Len(stack[t]) + 1 \in 1 .. Len(stack'[t])
        BY <2>2
      <3>2. QED
        BY <1>1, <2>2, <3>1 DEF Among
    <2>4. \A m : Among(m, stack[t], Len(stack[t])) => Among(m, stack'[t], Len(stack'[t]))
      BY <2>2 DEF Among
    <2>5. \A m \in 1 .. Len(spans) : spans[m].task \in Tasks
      BY Recorded DEF SpanIds
    <2>6. ASSUME NEW m \in 1 .. Len(spans)
          PROVE  /\ life'[spans'[m].task] # "new"
                 /\ spans'[m].status = "open" => Among(m, stack'[spans'[m].task], Len(stack'[spans'[m].task]))
                 /\ spans'[m].status = "lost" => life'[spans'[m].task] = "gone"
      <3>1. /\ life[spans[m].task] # "new"
            /\ spans[m].status = "open" => Among(m, stack[spans[m].task], Len(stack[spans[m].task]))
            /\ spans[m].status = "lost" => life[spans[m].task] = "gone"
        BY DEF EventInv, Tracked
      <3>2. spans'[m] = spans[m]
        BY <1>2
      <3>3. CASE spans[m].task = t
        BY <1>1, <2>1, <2>4, <3>1, <3>2, <3>3
      <3>4. CASE spans[m].task # t
        BY <2>1, <2>5, <3>1, <3>2, <3>4
      <3>5. QED
        BY <3>3, <3>4
    <2>7. \A m \in 1 .. Len(spans') : m \in 1 .. Len(spans) \/ m = n
      BY <1>2
    <2>8. /\ life'[spans'[n].task] # "new" /\ spans'[n].status # "lost"
          /\ Among(n, stack'[spans'[n].task], Len(stack'[spans'[n].task]))
      BY <1>2, <1>3, <2>1, <2>3
    <2>9. QED
      BY <2>6, <2>7, <2>8 DEF Tracked
  <1>7. ExactlyOneEvent'
    <2>1. {m \in SpanIds' : spans'[m].status \in {"ok", "error"}} = {m \in SpanIds : spans[m].status \in {"ok", "error"}}
      <3>1. \A m \in SpanIds : spans'[m] = spans[m]
        BY <1>2 DEF SpanIds
      <3>2. spans'[n].status \notin {"ok", "error"}
        BY <1>2, <1>3
      <3>3. QED
        BY <1>5, <3>1, <3>2
    <2>2. QED
      BY <1>1, <2>1 DEF EventInv, ExactlyOneEvent
  <1>8. ChildrenFirst'
    <2>1. \A i \in 1 .. Len(emitted) : emitted[i] \in SpanIds /\ spans[emitted[i]].status \in {"ok", "error"}
      BY DEF EventInv, ExactlyOneEvent
    <2>2. \A i \in 1 .. Len(emitted) : spans'[emitted[i]] = spans[emitted[i]]
      BY <1>2, <2>1 DEF SpanIds
    <2>3. ASSUME NEW i \in 1 .. Len(emitted), spans'[n].parent = emitted[i],
                 spans'[n].task = spans[emitted[i]].task, ~spans'[n].adopted
          PROVE  FALSE
      <3>1. ctx[t].parent = emitted[i] /\ spans[ctx[t].parent].task = t
        BY <1>2, <1>3, <2>3
      <3>2. ctx[t].parent # None
        BY <2>1, <3>1, NoneIsNoId DEF SpanIds
      <3>3. PICK j \in 1 .. Len(stack[t]) : stack[t][j].span = emitted[i]
        BY <1>1, <3>1, <3>2 DEF EventInv, Standing, Rooted, Among
      <3>4. FrameFits(t, stack[t], j, spans) /\ stack[t][j].span # 0
        BY <2>1, <3>3 DEF EventInv, Framed, SpanIds
      <3>5. spans[emitted[i]].status = "open"
        BY <3>3, <3>4 DEF FrameFits
      <3>6. QED
        BY <2>1, <3>5
    <2>4. ASSUME NEW i \in 1 .. Len(emitted), NEW m \in SpanIds,
                 spans[m].parent = emitted[i], spans[m].task = spans[emitted[i]].task, ~spans[m].adopted
          PROVE  \E j \in 1 .. i - 1 : emitted[j] = m
      BY <2>4 DEF EventInv, ChildrenFirst
    <2>5. \A m \in SpanIds : spans'[m] = spans[m]
      BY <1>2 DEF SpanIds
    <2>6. ASSUME NEW i \in 1 .. Len(emitted), NEW m \in SpanIds',
                 spans'[m].parent = emitted[i], spans'[m].task = spans'[emitted[i]].task, ~spans'[m].adopted
          PROVE  \E j \in 1 .. i - 1 : emitted[j] = m
      BY <1>5, <2>2, <2>3, <2>4, <2>5, <2>6
    <2>7. QED
      BY <1>1, <2>6 DEF ChildrenFirst
  <1>9. QED
    BY <1>4, <1>6, <1>7, <1>8 DEF EventInv
\* Leaving a block of task t leaves the structure below it.
LEMMA PopStands ==
  ASSUME TraceInv, EventInv, NEW t \in Tasks, spans' \in Seq(SpanRecord), life[t] = "running", life' = life,
         stack[t] # <<>>,
         \A u \in Tasks \ {t} : Unmoved(u, spans', spans),
         Len(spans') = Len(spans),
         \A n \in SpanIds : /\ spans'[n].task = spans[n].task
                            /\ spans'[n].parent = spans[n].parent
                            /\ spans'[n].adopted = spans[n].adopted
                            /\ n # Top(t).span => spans'[n].status = spans[n].status,
         stack' = [stack EXCEPT ![t] = Front(@)],
         ctx' = [ctx EXCEPT ![t] = Top(t).saved]
  PROVE  Framed' /\ Standing'
  <1> DEFINE s == stack[t]
             r == Front(stack[t])
             d == Len(stack[t])
  <1>1. /\ s \in Seq(Frame) /\ d \in Nat \ {0} /\ Len(r) = d - 1
        /\ \A i \in 1 .. d - 1 : r[i] = s[i]
        /\ Top(t) = s[d] /\ d \in 1 .. d
    BY Blocks, FrontFacts DEF Top
  <1>2. /\ stack'[t] = r /\ ctx'[t] = s[d].saved /\ life'[t] = "running"
        /\ \A u \in Tasks \ {t} : stack'[u] = stack[u] /\ ctx'[u] = ctx[u] /\ life'[u] = life[u]
    BY <1>1 DEF TraceInv, TypeOK
  <1>3. /\ \A i \in 1 .. d : FrameFits(t, s, i, spans) /\ Rooted(t, s[i].saved, s, i - 1, spans)
        /\ \A i \in 1 .. d : s[i].span \in Nat /\ s[i].saved \in Context /\ Coherent(s[i].saved, spans)
    BY Blocks DEF EventInv, Framed, Standing
  <1>4. \A i \in 1 .. d - 1 : s[i].span # 0 => s[i].span # s[d].span
    <2>1. ASSUME NEW i \in 1 .. d - 1, s[i].span # 0, s[i].span = s[d].span PROVE FALSE
      <3>1. s[i].span < s[d].span /\ s[i].span \in Nat /\ s[d].span \in Nat
        BY <1>1, <1>3, <2>1 DEF FrameFits
      <3>2. QED
        BY <2>1, <3>1
    <2>2. QED
      BY <2>1
  <1> HIDE DEF s, r, d
  <1>5. \A i \in 1 .. d - 1 : FrameFits(t, s, i, spans')
    <2>1. \A i \in 1 .. d - 1 : i \in 1 .. d
      BY <1>1
    <2>2. ASSUME NEW i \in 1 .. d - 1, s[i].span # 0
          PROVE  FrameFits(t, s, i, spans')
      <3>1. FrameFits(t, s, i, spans) /\ s[i].span # Top(t).span
        BY <1>1, <1>3, <1>4, <2>1, <2>2
      <3>2. s[i].span \in SpanIds
        BY <2>2, <3>1 DEF FrameFits, SpanIds
      <3>3. QED
        BY <2>2, <3>1, <3>2 DEF FrameFits, SpanIds
    <2>3. QED
      BY <2>2 DEF FrameFits
  <1>6. \A i \in 1 .. d : Rooted(t, s[i].saved, s, i - 1, spans')
    <2>1. ASSUME NEW i \in 1 .. d, s[i].saved.parent # None
          PROVE  spans'[s[i].saved.parent].task = spans[s[i].saved.parent].task
      <3>1. Coherent(s[i].saved, spans)
        BY <1>3
      <3>2. QED
        BY <2>1, <3>1 DEF Coherent, SpanIds
    <2>2. QED
      BY <1>3, <2>1 DEF Rooted
  <1>7. /\ \A i \in 1 .. d - 1 : FrameFits(t, r, i, spans')
        /\ \A i \in 1 .. d - 1 : Rooted(t, r[i].saved, r, i - 1, spans')
        /\ Rooted(t, s[d].saved, r, d - 1, spans')
    <2>1. d - 1 \in Nat /\ d - 1 \in 0 .. d - 1 /\ \A i \in 1 .. d - 1 : i - 1 \in 0 .. d - 1 /\ i \in 1 .. d
      BY <1>1
    <2>2. \A i \in 1 .. d - 1 : FrameFits(t, s, i, spans') => FrameFits(t, r, i, spans')
      BY <1>1, <2>1, SameBlocks
    <2>3. \A c : \A k \in 0 .. d - 1 : Rooted(t, c, s, k, spans') => Rooted(t, c, r, k, spans')
      BY <1>1, <2>1, SameBlocks
    <2>4. ASSUME NEW i \in 1 .. d - 1 PROVE Rooted(t, r[i].saved, r, i - 1, spans')
      BY <1>1, <1>6, <2>1, <2>3
    <2>5. Rooted(t, s[d].saved, r, d - 1, spans')
      BY <1>1, <1>6, <2>1, <2>3
    <2>6. QED
      BY <1>5, <2>2, <2>4, <2>5
  <1>8. Framed'
    <2>1. \A u \in Tasks \ {t} : \A i \in 1 .. Len(stack'[u]) : FrameFits(u, stack'[u], i, spans')
      BY <1>2, Bystander
    <2>2. QED
      BY <1>1, <1>2, <1>7, <2>1 DEF Framed
  <1>9. Standing'
    <2>1. ASSUME NEW u \in Tasks \ {t}, life'[u] # "gone"
          PROVE  /\ Rooted(u, ctx'[u], stack'[u], Len(stack'[u]), spans')
                 /\ \A i \in 1 .. Len(stack'[u]) : Rooted(u, stack'[u][i].saved, stack'[u], i - 1, spans')
      BY <1>2, <2>1, Bystander
    <2>2. QED
      BY <1>1, <1>2, <1>7, <2>1 DEF Standing
  <1>10. QED
    BY <1>8, <1>9

\* The span of the block task t leaves has not been emitted, and its children in t have.
LEMMA ChildrenSent ==
  ASSUME TraceInv, EventInv, NEW t \in Tasks, life[t] = "running", stack[t] # <<>>, Top(t).span # 0
  PROVE  /\ Top(t).span \in SpanIds
         /\ spans[Top(t).span].task = t /\ spans[Top(t).span].status = "open"
         /\ \A i \in 1 .. Len(emitted) : emitted[i] # Top(t).span
         /\ \A m \in SpanIds :
              spans[m].parent = Top(t).span /\ spans[m].task = t /\ ~spans[m].adopted
                => \E j \in 1 .. Len(emitted) : emitted[j] = m
  <1> DEFINE s == stack[t]
             d == Len(stack[t])
             n == Top(t).span
  <1>1. /\ s \in Seq(Frame) /\ d \in Nat \ {0} /\ Top(t) = s[d] /\ d \in 1 .. d
    BY Blocks, FrontFacts DEF Top
  <1>2. \A i \in 1 .. d : FrameFits(t, s, i, spans) /\ Rooted(t, s[i].saved, s, i - 1, spans) /\ s[i].span \in Nat
    BY Blocks DEF EventInv, Framed, Standing
  <1>3. /\ n \in SpanIds /\ spans[n].task = t /\ spans[n].status = "open"
        /\ \A j \in 1 .. d - 1 : s[j].span < n
    BY <1>1, <1>2 DEF FrameFits, SpanIds
  <1>4. \A m \in SpanIds : spans[m].status \in {"ok", "error"} <=> \E i \in 1 .. Len(emitted) : emitted[i] = m
    BY DEF EventInv, ExactlyOneEvent
  <1>5. \A i \in 1 .. Len(emitted) : emitted[i] # n
    BY <1>3, <1>4
  <1>6. ASSUME NEW m \in SpanIds, spans[m].parent = n, spans[m].task = t, ~spans[m].adopted
        PROVE  spans[m].status \in {"ok", "error"}
    <2>1. spans[m].status \in Status
      BY Recorded
    <2>2. spans[m].status # "lost"
      BY <1>6 DEF EventInv, Tracked, SpanIds
    <2>3. ASSUME spans[m].status = "open" PROVE FALSE
      <3>1. PICK k \in 1 .. d : s[k].span = m
        BY <1>6, <2>3 DEF EventInv, Tracked, Among, SpanIds
      <3>2. m # 0 /\ n # None /\ n \in Nat
        BY <1>3, NoneIsNoId DEF SpanIds
      <3>3. s[k].saved.parent = n
        BY <1>2, <1>6, <3>1, <3>2 DEF FrameFits
      <3>4. Among(n, s, k - 1)
        BY <1>2, <1>3, <3>2, <3>3 DEF Rooted
      <3>5. PICK j \in 1 .. k - 1 : s[j].span = n
        BY <3>4 DEF Among
      <3>6. j \in 1 .. d - 1
        BY <1>1
      <3>7. QED
        BY <1>3, <3>2, <3>5, <3>6
    <2>4. QED
      BY <2>1, <2>2, <2>3 DEF Status
  <1>7. QED
    BY <1>3, <1>4, <1>5, <1>6
\* emitted' = emitted \o <<n>>, for a span n that was open and whose children are out.
LEMMA SentKeeps ==
  ASSUME TraceInv, EventInv, NEW n \in SpanIds, NEW t \in Tasks, spans[n].task = t,
         emitted' = Append(emitted, n), Len(spans') = Len(spans),
         spans'[n].status \in {"ok", "error"},
         \A m \in SpanIds : /\ spans'[m].task = spans[m].task
                            /\ spans'[m].parent = spans[m].parent
                            /\ spans'[m].adopted = spans[m].adopted
                            /\ m # n => spans'[m].status = spans[m].status,
         \A i \in 1 .. Len(emitted) : emitted[i] # n,
         \A m \in SpanIds : spans[m].parent = n /\ spans[m].task = t /\ ~spans[m].adopted
                              => \E j \in 1 .. Len(emitted) : emitted[j] = m
  PROVE  ExactlyOneEvent' /\ ChildrenFirst'
  <1> DEFINE k == Len(emitted)
             e == Append(emitted, n)
  <1>1. emitted \in Seq(Nat) /\ n \in Nat
    BY DEF TraceInv, TypeOK, SpanIds
  <1>2. k \in Nat /\ Len(e) = k + 1 /\ e[k + 1] = n /\ \A i \in 1 .. k : e[i] = emitted[i]
    BY <1>1, AppendFacts
  <1>3. SpanIds' = SpanIds /\ emitted' = e
    BY DEF SpanIds
  <1>4. /\ \A i, j \in 1 .. k : emitted[i] = emitted[j] => i = j
        /\ {emitted[i] : i \in 1 .. k} = {m \in SpanIds : spans[m].status \in {"ok", "error"}}
    BY DEF EventInv, ExactlyOneEvent
  <1> HIDE DEF e, k
  <1>5. \A i \in 1 .. k + 1 : i \in 1 .. k \/ i = k + 1
    BY <1>2
  <1>6. \A i, j \in 1 .. k + 1 : e[i] = e[j] => i = j
    <2>1. \A i \in 1 .. k : e[i] # e[k + 1]
      BY <1>2 DEF k
    <2>2. QED
      BY <1>2, <1>4, <1>5, <2>1
  <1>7. {e[i] : i \in 1 .. k + 1} = {m \in SpanIds : spans'[m].status \in {"ok", "error"}}
    <2>1. {e[i] : i \in 1 .. k + 1} = {emitted[i] : i \in 1 .. k} \cup {n}
      <3>1. k + 1 \in 1 .. k + 1 /\ \A i \in 1 .. k : i \in 1 .. k + 1
        BY <1>2
      <3>2. QED
        BY <1>2, <1>5, <3>1
    <2>2. QED
      BY <1>4, <2>1
  <1>8. ExactlyOneEvent'
    BY <1>2, <1>3, <1>6, <1>7 DEF ExactlyOneEvent
  <1>9. ASSUME NEW i \in 1 .. k + 1, NEW m \in SpanIds, spans'[m].parent = e[i],
               spans'[m].task = spans'[e[i]].task, ~spans'[m].adopted
        PROVE  \E j \in 1 .. i - 1 : e[j] = m
    <2>1. e[i] \in SpanIds
      BY <1>2, <1>4, <1>5
    <2>2. spans[m].parent = e[i] /\ spans[m].task = spans[e[i]].task /\ ~spans[m].adopted
      BY <1>9, <2>1
    <2>3. CASE i \in 1 .. k
      <3>1. \E j \in 1 .. i - 1 : emitted[j] = m
        BY <1>2, <2>2, <2>3 DEF EventInv, ChildrenFirst, k
      <3>2. \A j \in 1 .. i - 1 : j \in 1 .. k
        BY <1>2, <2>3
      <3>3. QED
        BY <1>2, <3>1, <3>2
    <2>4. CASE i = k + 1
      <3>1. \E j \in 1 .. k : emitted[j] = m
        BY <1>2, <2>2, <2>4 DEF k
      <3>2. i - 1 = k
        BY <1>2, <2>4
      <3>3. QED
        BY <1>2, <3>1, <3>2
    <2>5. QED
      BY <1>5, <2>3, <2>4
  <1>10. ChildrenFirst'
    BY <1>2, <1>3, <1>9 DEF ChildrenFirst
  <1>11. QED
    BY <1>8, <1>10

LEMMA CloseBlockEvents ==
  ASSUME TraceInv, TypeOK', EventInv, NEW t \in Tasks, NEW outcome \in {"ok", "error"}, CloseBlock(t, outcome)
  PROVE  EventInv'
  <1> DEFINE n == Top(t).span
  <1>1. /\ stack[t] # <<>> /\ Len(stack[t]) \in Nat \ {0} /\ Top(t) = stack[t][Len(stack[t])]
        /\ stack' = [stack EXCEPT ![t] = Front(@)] /\ Top(t) \in Frame
        /\ ctx' = [ctx EXCEPT ![t] = Reset(@, Top(t))]
        /\ Len(spans') = Len(spans) /\ life[t] = "running" /\ life' = life
    BY CloseBlockEffect DEF TraceInv
  <1>2. Reset(ctx[t], Top(t)) = Top(t).saved
    BY <1>1, Blocks, ChainPop DEF TraceInv, Nested
  <1>3. ctx' = [ctx EXCEPT ![t] = Top(t).saved]
    BY <1>1, <1>2
  <1>4. n \in Nat
    BY <1>1 DEF Frame
  <1>5. spans \in Seq(SpanRecord) /\ spans' \in Seq(SpanRecord) /\ Len(spans) \in Nat
    BY DEF TraceInv, TypeOK
  <1>6. \A m \in SpanIds : /\ spans'[m].task = spans[m].task
                           /\ spans'[m].parent = spans[m].parent
                           /\ spans'[m].adopted = spans[m].adopted
                           /\ m # n => spans'[m].status = spans[m].status
    <2>1. CASE n = 0
      BY <2>1 DEF CloseBlock
    <2>2. CASE n # 0
      <3>1. spans' = [spans EXCEPT ![n].status = outcome]
        BY <2>2 DEF CloseBlock, Emit
      <3>2. spans \in [SpanIds -> SpanRecord]
        BY <1>5 DEF SpanIds
      <3>3. \A m \in SpanIds : m # n => spans'[m] = spans[m]
        BY <3>1, <3>2
      <3>4. n \in SpanIds => spans'[n] = [spans[n] EXCEPT !.status = outcome] /\ spans[n] \in SpanRecord
        BY <3>1, <3>2
      <3>5. \A r \in SpanRecord : /\ [r EXCEPT !.status = outcome].task = r.task
                                  /\ [r EXCEPT !.status = outcome].parent = r.parent
                                  /\ [r EXCEPT !.status = outcome].adopted = r.adopted
        BY DEF SpanRecord
      <3>6. QED
        BY <3>3, <3>4, <3>5
    <2>3. QED
      BY <2>1, <2>2
  <1>7. n # 0 => /\ n \in SpanIds /\ spans[n].task = t /\ spans[n].status = "open"
                 /\ emitted' = Append(emitted, n) /\ spans'[n].status = outcome
    <2>1. SUFFICES ASSUME n # 0
                   PROVE  /\ n \in SpanIds /\ spans[n].task = t /\ spans[n].status = "open"
                          /\ emitted' = Append(emitted, n) /\ spans'[n].status = outcome
      OBVIOUS
    <2>2. n \in SpanIds /\ spans[n].task = t /\ spans[n].status = "open"
      BY <1>1, <2>1, ChildrenSent
    <2>3. spans' = [spans EXCEPT ![n].status = outcome] /\ emitted' = Append(emitted, n)
      BY <2>1 DEF CloseBlock, Emit
    <2>4. spans'[n] = [spans[n] EXCEPT !.status = outcome] /\ spans[n] \in SpanRecord
      BY <1>5, <2>2, <2>3 DEF SpanIds
    <2>5. QED
      BY <2>2, <2>3, <2>4 DEF SpanRecord
  <1>8. \A u \in Tasks \ {t} : Unmoved(u, spans', spans)
    BY <1>1, <1>5, <1>6, <1>7 DEF Unmoved, SpanIds
  <1>9. Framed' /\ Standing'
    BY <1>1, <1>3, <1>5, <1>6, <1>8, PopStands
  <1>10. SpanIds' = SpanIds
    BY <1>1 DEF SpanIds
  <1>11. Tracked'
    <2>1. stack'[t] = Front(stack[t]) /\ \A u \in Tasks \ {t} : stack'[u] = stack[u]
      BY <1>1 DEF TraceInv, TypeOK
    <2>2. /\ Len(stack'[t]) = Len(stack[t]) - 1
          /\ \A i \in 1 .. Len(stack[t]) - 1 : stack'[t][i] = stack[t][i]
      BY <1>1, <2>1, Blocks, FrontFacts
    <2>3. \A m \in Nat : m # n /\ Among(m, stack[t], Len(stack[t])) => Among(m, stack'[t], Len(stack'[t]))
      BY <1>1, <2>2 DEF Among
    <2>4. ASSUME NEW m \in SpanIds
          PROVE  /\ life[spans'[m].task] # "new"
                 /\ spans'[m].status = "open" => Among(m, stack'[spans'[m].task], Len(stack'[spans'[m].task]))
                 /\ spans'[m].status = "lost" => life[spans'[m].task] = "gone"
      <3>1. /\ life[spans[m].task] # "new"
            /\ spans[m].status = "open" => Among(m, stack[spans[m].task], Len(stack[spans[m].task]))
            /\ spans[m].status = "lost" => life[spans[m].task] = "gone"
        BY DEF EventInv, Tracked, SpanIds
      <3>2. spans'[m].task = spans[m].task /\ spans[m].task \in Tasks /\ m \in Nat \ {0}
        BY <1>6, Recorded DEF SpanIds
      <3>3. CASE m = n
        BY <1>7, <3>1, <3>2, <3>3
      <3>4. CASE m # n
        <4>1. spans'[m].status = spans[m].status
          BY <1>6, <3>4
        <4>2. QED
          BY <2>1, <2>3, <3>1, <3>2, <3>4, <4>1
      <3>5. QED
        BY <3>3, <3>4
    <2>5. QED
      BY <1>1, <1>10, <2>4 DEF Tracked, SpanIds
  <1>12. ExactlyOneEvent' /\ ChildrenFirst'
    <2>1. CASE n = 0
      <3>1. UNCHANGED <<spans, emitted>>
        BY <2>1 DEF CloseBlock
      <3>2. QED
        BY <3>1 DEF EventInv, ExactlyOneEvent, ChildrenFirst, SpanIds
    <2>2. CASE n # 0
      <3>1. /\ \A i \in 1 .. Len(emitted) : emitted[i] # n
            /\ \A m \in SpanIds : spans[m].parent = n /\ spans[m].task = t /\ ~spans[m].adopted
                                    => \E j \in 1 .. Len(emitted) : emitted[j] = m
        BY <1>1, <2>2, ChildrenSent
      <3>2. QED
        BY <1>1, <1>6, <1>7, <2>2, <3>1, SentKeeps
    <2>3. QED
      BY <2>1, <2>2
  <1>13. QED
    BY <1>9, <1>11, <1>12 DEF EventInv
LEMMA OpenSessionEvents ==
  ASSUME TraceInv, TypeOK', EventInv, NEW t \in Tasks,
         NEW sid \in SessionNames \cup {None} \cup {c.session : c \in carried}, OpenSession(t, sid)
  PROVE  EventInv'
  <1>1. PICK id \in SessionIds :
          /\ InSession(t, id) \in Context /\ NewSessionFrame(t) \in Frame
          /\ stack' = [stack EXCEPT ![t] = Append(@, NewSessionFrame(t))]
          /\ ctx' = [ctx EXCEPT ![t] = InSession(t, id)]
          /\ life[t] # "gone" /\ life' = [life EXCEPT ![t] = "running"]
          /\ minted' \in Nat /\ UNCHANGED <<spans, carried, emitted>>
    BY OpenSessionEffect DEF TraceInv
  <1> DEFINE f == NewSessionFrame(t)
             r == Append(stack[t], f)
             d == Len(stack[t])
  <1>2. f.saved = ctx[t] /\ f.span = 0
    BY DEF NewSessionFrame
  <1>3. /\ d \in Nat /\ Len(r) = d + 1 /\ r[d + 1] = f
        /\ \A i \in 1 .. d : r[i] = stack[t][i]
    BY <1>1, Blocks, AppendFacts
  <1>4. spans' \in Seq(SpanRecord) /\ \A u \in Tasks : Unmoved(u, spans', spans)
    BY <1>1 DEF TypeOK, Unmoved, TraceInv
  <1>5. FrameFits(t, r, d + 1, spans')
    BY <1>2, <1>3 DEF FrameFits
  <1>6. Rooted(t, InSession(t, id), r, d + 1, spans')
    BY DEF InSession, Rooted
  <1>7. Framed' /\ Standing'
    BY <1>1, <1>2, <1>4, <1>5, <1>6, PushStands
  <1>8. Tracked'
    <2>1. /\ stack'[t] = r /\ life'[t] = "running"
          /\ \A u \in Tasks \ {t} : stack'[u] = stack[u] /\ life'[u] = life[u]
      BY <1>1 DEF TraceInv, TypeOK
    <2>2. \A m : Among(m, stack[t], d) => Among(m, stack'[t], Len(stack'[t]))
      BY <1>3, <2>1 DEF Among
    <2>3. ASSUME NEW m \in SpanIds
          PROVE  /\ life'[spans[m].task] # "new"
                 /\ spans[m].status = "open" => Among(m, stack'[spans[m].task], Len(stack'[spans[m].task]))
                 /\ spans[m].status = "lost" => life'[spans[m].task] = "gone"
      <3>1. /\ life[spans[m].task] # "new"
            /\ spans[m].status = "open" => Among(m, stack[spans[m].task], Len(stack[spans[m].task]))
            /\ spans[m].status = "lost" => life[spans[m].task] = "gone"
        BY DEF EventInv, Tracked, SpanIds
      <3>2. QED
        BY <1>1, <2>1, <2>2, <3>1, Recorded
    <2>4. QED
      BY <1>1, <2>3 DEF Tracked, SpanIds
  <1>9. ExactlyOneEvent' /\ ChildrenFirst'
    BY <1>1 DEF EventInv, ExactlyOneEvent, ChildrenFirst, SpanIds
  <1>10. QED
    BY <1>7, <1>8, <1>9 DEF EventInv

\* The loop finalises a generator: its open spans are lost with its whole stack, and none
\* of them had been emitted.
LEMMA FinalizeEvents ==
  ASSUME TraceInv, TypeOK', EventInv, NEW t \in Tasks, FinalizeElsewhere(t)
  PROVE  EventInv'
  <1> DEFINE Lost(n) == \E i \in 1 .. Len(stack[t]) : stack[t][i].span = n
  <1>1. /\ stack' = [stack EXCEPT ![t] = <<>>] /\ life' = [life EXCEPT ![t] = "gone"]
        /\ spans' = [n \in SpanIds |-> IF Lost(n) THEN [spans[n] EXCEPT !.status = "lost"] ELSE spans[n]]
        /\ ctx' = ctx /\ emitted' = emitted
    BY DEF FinalizeElsewhere
  <1>2. Len(spans') = Len(spans) /\ spans' \in Seq(SpanRecord) /\ SpanIds' = SpanIds
    BY FinalizeEffect DEF TraceInv, SpanIds
  <1>3. /\ stack'[t] = <<>> /\ life'[t] = "gone"
        /\ \A u \in Tasks \ {t} : stack'[u] = stack[u] /\ life'[u] = life[u] /\ ctx'[u] = ctx[u]
    BY <1>1 DEF TraceInv, TypeOK
  <1>4. \A n \in SpanIds : Lost(n) => spans[n].task = t /\ spans[n].status = "open"
    <2>1. ASSUME NEW n \in SpanIds, NEW i \in 1 .. Len(stack[t]), stack[t][i].span = n
          PROVE  spans[n].task = t /\ spans[n].status = "open"
      <3>1. FrameFits(t, stack[t], i, spans) /\ n # 0
        BY DEF EventInv, Framed, SpanIds
      <3>2. QED
        BY <2>1, <3>1 DEF FrameFits
    <2>2. QED
      BY <2>1
  <1> HIDE DEF Lost
  <1>5. \A n \in SpanIds : /\ spans'[n].task = spans[n].task
                           /\ spans'[n].parent = spans[n].parent
                           /\ spans'[n].adopted = spans[n].adopted
                           /\ spans'[n].status = IF Lost(n) THEN "lost" ELSE spans[n].status
    <2>1. \A n \in SpanIds : spans[n] \in SpanRecord
      BY DEF TraceInv, TypeOK, SpanIds
    <2>2. \A r \in SpanRecord : /\ [r EXCEPT !.status = "lost"].task = r.task
                                /\ [r EXCEPT !.status = "lost"].parent = r.parent
                                /\ [r EXCEPT !.status = "lost"].adopted = r.adopted
                                /\ [r EXCEPT !.status = "lost"].status = "lost"
      BY DEF SpanRecord
    <2>3. \A n \in SpanIds : spans'[n] = IF Lost(n) THEN [spans[n] EXCEPT !.status = "lost"] ELSE spans[n]
      BY <1>1
    <2>4. QED
      BY <2>1, <2>2, <2>3
  <1>6. \A u \in Tasks \ {t} : Unmoved(u, spans', spans)
    <2>1. Len(spans) \in Nat
      BY DEF TraceInv, TypeOK
    <2>2. QED
      BY <1>2, <1>4, <1>5, <2>1 DEF Unmoved, SpanIds
  <1>7. \A i \in 1 .. Len(<<>>) : FALSE
    OBVIOUS
  <1>8. Framed' /\ Standing'
    <2>1. \A u \in Tasks \ {t} : \A i \in 1 .. Len(stack'[u]) : FrameFits(u, stack'[u], i, spans')
      BY <1>2, <1>3, <1>6, Bystander
    <2>2. ASSUME NEW u \in Tasks \ {t}, life'[u] # "gone"
          PROVE  /\ Rooted(u, ctx'[u], stack'[u], Len(stack'[u]), spans')
                 /\ \A i \in 1 .. Len(stack'[u]) : Rooted(u, stack'[u][i].saved, stack'[u], i - 1, spans')
      BY <1>2, <1>3, <1>6, <2>2, Bystander
    <2>3. Framed'
      BY <1>3, <1>7, <2>1 DEF Framed
    <2>4. Standing'
      BY <1>3, <2>2 DEF Standing
    <2>5. QED
      BY <2>3, <2>4
  <1>9. Tracked'
    <2>1. ASSUME NEW m \in SpanIds
          PROVE  /\ life'[spans'[m].task] # "new"
                 /\ spans'[m].status = "open" => Among(m, stack'[spans'[m].task], Len(stack'[spans'[m].task]))
                 /\ spans'[m].status = "lost" => life'[spans'[m].task] = "gone"
      <3>1. /\ life[spans[m].task] # "new"
            /\ spans[m].status = "open" => Among(m, stack[spans[m].task], Len(stack[spans[m].task]))
            /\ spans[m].status = "lost" => life[spans[m].task] = "gone"
        BY DEF EventInv, Tracked, SpanIds
      <3>2. spans[m].task \in Tasks
        BY Recorded
      <3>3. CASE spans[m].task = t
        <4>1. spans[m].status = "open" => Lost(m)
          BY <3>1, <3>3 DEF Among, Lost
        <4>2. QED
          BY <1>3, <1>5, <3>3, <4>1
      <3>4. CASE spans[m].task # t
        BY <1>3, <1>4, <1>5, <3>1, <3>2, <3>4
      <3>5. QED
        BY <3>3, <3>4
    <2>2. QED
      BY <1>2, <2>1 DEF Tracked, SpanIds
  <1>10. emitted' = emitted /\ SpanIds' = SpanIds
    BY <1>1, <1>2
  <1>11. ExactlyOneEvent'
    <2>1. {n \in SpanIds : spans'[n].status \in {"ok", "error"}} = {n \in SpanIds : spans[n].status \in {"ok", "error"}}
      BY <1>4, <1>5
    <2>2. QED
      BY <1>10, <2>1 DEF EventInv, ExactlyOneEvent
  <1>12. ChildrenFirst'
    <2>1. \A i \in 1 .. Len(emitted) : emitted[i] \in SpanIds
      BY DEF EventInv, ExactlyOneEvent
    <2>2. ASSUME NEW i \in 1 .. Len(emitted), NEW m \in SpanIds, spans'[m].parent = emitted[i],
                 spans'[m].task = spans'[emitted[i]].task, ~spans'[m].adopted
          PROVE  \E j \in 1 .. i - 1 : emitted[j] = m
      <3>1. spans[m].parent = emitted[i] /\ spans[m].task = spans[emitted[i]].task /\ ~spans[m].adopted
        BY <1>5, <2>1, <2>2
      <3>2. QED
        BY <3>1 DEF EventInv, ChildrenFirst
    <2>3. QED
      BY <1>10, <2>2 DEF ChildrenFirst
  <1>13. QED
    BY <1>8, <1>9, <1>11, <1>12 DEF EventInv

LEMMA ForkEvents ==
  ASSUME TraceInv, EventInv, NEW t \in Tasks, NEW u \in Tasks, Fork(t, u)
  PROVE  EventInv'
  <1>1. /\ life[u] = "new" /\ ctx' = [ctx EXCEPT ![u] = ctx[t]]
        /\ life' = [life EXCEPT ![u] = "running"]
        /\ stack' = stack /\ spans' = spans /\ emitted' = emitted
    BY DEF Fork
  <1>2. /\ stack[u] = <<>> /\ ctx'[u] = ctx[t]
        /\ \A v \in Tasks \ {u} : ctx'[v] = ctx[v] /\ life'[v] = life[v]
    BY <1>1 DEF TraceInv, TypeOK, Nested
  <1>3. Coherent(ctx[t], spans)
    BY Blocks
  <1>4. ctx[t].parent # None => spans[ctx[t].parent].task # u
    <2>1. ctx[t].parent # None => ctx[t].parent \in 1 .. Len(spans)
      BY <1>3 DEF Coherent
    <2>2. QED
      BY <1>1, <2>1 DEF EventInv, Tracked
  <1>5. Framed'
    BY <1>1 DEF EventInv, Framed
  <1>6. Standing'
    <2>1. Rooted(u, ctx'[u], stack'[u], Len(stack'[u]), spans')
      BY <1>1, <1>2, <1>4 DEF Rooted
    <2>2. \A i \in 1 .. Len(stack[u]) : FALSE
      BY <1>2
    <2>3. \A v \in Tasks \ {u} : life'[v] # "gone" =>
            /\ Rooted(v, ctx'[v], stack'[v], Len(stack'[v]), spans')
            /\ \A i \in 1 .. Len(stack'[v]) : Rooted(v, stack'[v][i].saved, stack'[v], i - 1, spans')
      BY <1>1, <1>2 DEF EventInv, Standing
    <2>4. QED
      BY <1>1, <2>1, <2>2, <2>3 DEF Standing
  <1>7. Tracked'
    <2>1. \A n \in SpanIds : life[spans[n].task] # "new" /\ spans[n].task \in Tasks
      BY Recorded DEF EventInv, Tracked, SpanIds
    <2>2. \A n \in SpanIds : life'[spans[n].task] = life[spans[n].task]
      BY <1>1, <1>2, <2>1
    <2>3. QED
      BY <1>1, <2>1, <2>2 DEF EventInv, Tracked, SpanIds
  <1>8. ExactlyOneEvent' /\ ChildrenFirst'
    BY <1>1 DEF EventInv, ExactlyOneEvent, ChildrenFirst, SpanIds
  <1>9. QED
    BY <1>5, <1>6, <1>7, <1>8 DEF EventInv

LEMMA EventUnchanged ==
  ASSUME EventInv, UNCHANGED <<ctx, stack, life, spans, emitted>>
  PROVE  EventInv'
  <1>1. Framed' /\ Standing' /\ Tracked'
    BY DEF EventInv, Framed, Standing, Tracked
  <1>2. ExactlyOneEvent' /\ ChildrenFirst'
    BY DEF EventInv, ExactlyOneEvent, ChildrenFirst, SpanIds
  <1>3. QED
    BY <1>1, <1>2 DEF EventInv

LEMMA EventStep == TraceInv /\ TypeOK' /\ EventInv /\ [Next]_vars => EventInv'
  <1> SUFFICES ASSUME TraceInv, TypeOK', EventInv, [Next]_vars PROVE EventInv'
    OBVIOUS
  <1>1. ASSUME NEW t \in Tasks, NEW sid \in SessionNames \cup {None} \cup {c.session : c \in carried},
               OpenSession(t, sid)
        PROVE  EventInv'
    BY <1>1, OpenSessionEvents
  <1>2. ASSUME NEW t \in Tasks, NEW from \in carried \cup {EmptyContext}, OpenSpan(t, from)
        PROVE  EventInv'
    BY <1>2, OpenSpanEvents
  <1>3. ASSUME NEW t \in Tasks, NEW outcome \in {"ok", "error"}, CloseBlock(t, outcome)
        PROVE  EventInv'
    BY <1>3, CloseBlockEvents
  <1>4. ASSUME NEW t \in Tasks, FinalizeElsewhere(t)
        PROVE  EventInv'
    BY <1>4, FinalizeEvents
  <1>5. ASSUME NEW t \in Tasks, NEW u \in Tasks, Fork(t, u)
        PROVE  EventInv'
    BY <1>5, ForkEvents
  <1>6. ASSUME NEW t \in Tasks, Carry(t)
        PROVE  EventInv'
    BY <1>6, EventUnchanged DEF Carry
  <1>7. CASE UNCHANGED vars
    BY <1>7, EventUnchanged DEF vars
  <1>8. QED
    BY <1>1, <1>2, <1>3, <1>4, <1>5, <1>6, <1>7 DEF Next

\* Every span whose block was left, and only those, is in the event stream, once, and
\* after the spans that were nested in it in its task: for any number of tasks, forks,
\* adopted traces and generators that the loop finalises.
THEOREM ParentsLast == Spec => []EventsInOrder
  <1>1. EventInv => EventsInOrder
    BY DEF EventInv, EventsInOrder
  <1>2. TypeOK /\ TraceInv /\ EventInv /\ [Next]_vars => EventInv'
    BY EventStep, TypeStep DEF TraceInv
  <1>3. QED
    BY <1>1, <1>2, StepInit, InvHolds, TypeCorrect, PTL DEF Spec
=============================================================================
