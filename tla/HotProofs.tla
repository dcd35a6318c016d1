------------------------------ MODULE HotProofs ------------------------------
(***************************************************************************)
(* Theorems about the emitter of KafkaEmitter as HotPath composes it with  *)
(* the consumers of its topic, for any threads, queue size and bounds, and *)
(* about the tree a reader builds of the rows.                             *)
(***************************************************************************)
EXTENDS HotPath, FiniteSetTheorems, TLAPS

-----------------------------------------------------------------------------
(***************************************************************************)
(* The inductive invariant.                                                *)
(***************************************************************************)
Producer == [config : Nat, queue : Seq(Nat)]
Step == [pc : {"idle", "configure", "get", "lock", "produce"},
         event : Nat, config : Nat, producer : Nat]
Types ==
  /\ config \in Nat /\ emitted \in Nat /\ exited \in BOOLEAN
  /\ producers \in Seq(Producer) /\ runtime \in 0 .. Len(producers)
  /\ thread \in [Threads -> Step]
  /\ topic \in Seq(Nat)

\* A configuration is needed to build, and each one is built for at most once: while no
\* producer is installed there is one configuration more than there are producers.
Built ==
  /\ OneProducer
  /\ runtime = 0 /\ config # 0 => Len(producers) < config
  /\ \A t \in Threads : thread[t].pc \in {"get", "lock", "produce"} => config # 0

\* What a thread holds on to: nothing between two events, a producer once it has one.
Held ==
  \A t \in Threads :
    /\ thread[t].pc = "idle" => thread[t].event = 0
    /\ thread[t].pc = "produce" => thread[t].producer \in 1 .. Len(producers)

\* Nothing is in hand when the process has exited.
Stopped ==
  exited => /\ \A t \in Threads : thread[t].pc = "idle"
            /\ \A p \in Producers : producers[p].queue = <<>>

\* An event is in the topic, in the log, lost with a replaced producer, held by a
\* thread or queued.
Somewhere(e) ==
  \/ e \in Landed \cup logged \cup purged
  \/ \E t \in Threads : thread[t].event = e
  \/ \E p \in Producers : e \in Queued(p)
Kept ==
  /\ \A e \in 1 .. emitted : Somewhere(e)
  /\ purged # {} => config > 1

EmitterInv == Types /\ Built /\ Held /\ Stopped /\ Kept

-----------------------------------------------------------------------------
\* A producer that is not the installed one belongs to an earlier configuration.
LEMMA Replaced ==
  ASSUME Types, Built, NEW p \in Producers, p # runtime
  PROVE  config > 1
  <1> DEFINE n == Len(producers)
  <1>1. /\ n \in Nat /\ config \in Nat /\ p \in 1 .. n /\ runtime \in 0 .. n
        /\ n <= config /\ (runtime = 0 /\ config # 0 => n < config)
    BY DEF Types, Built, OneProducer, Producers
  <1> HIDE DEF n
  <1>2. QED
    BY <1>1

\* Queued and Landed say the same of a sequence, through these four facts.
Elements(s) == {s[i] : i \in 1 .. Len(s)}
LEMMA AppendElements ==
  ASSUME NEW S, NEW s \in Seq(S), NEW x \in S
  PROVE  Append(s, x) \in Seq(S) /\ Elements(Append(s, x)) = Elements(s) \cup {x}
  <1>1. /\ Append(s, x) \in Seq(S) /\ Len(Append(s, x)) = Len(s) + 1 /\ Len(s) \in Nat
        /\ \A i \in 1 .. Len(s) : Append(s, x)[i] = s[i]
        /\ Append(s, x)[Len(s) + 1] = x
    OBVIOUS
  <1>2. 1 .. Len(s) + 1 = 1 .. Len(s) \cup {Len(s) + 1}
    BY <1>1
  <1>3. QED
    BY <1>1, <1>2 DEF Elements

LEMMA TailElements ==
  ASSUME NEW S, NEW s \in Seq(S), s # <<>>
  PROVE  /\ Tail(s) \in Seq(S) /\ Head(s) \in S
         /\ Elements(s) \subseteq {Head(s)} \cup Elements(Tail(s))
  <1>1. /\ Tail(s) \in Seq(S) /\ Head(s) \in S /\ Head(s) = s[1]
        /\ Len(s) \in Nat \ {0} /\ Len(Tail(s)) = Len(s) - 1
        /\ \A i \in 1 .. Len(s) - 1 : Tail(s)[i] = s[i + 1]
    OBVIOUS
  <1>2. ASSUME NEW i \in 1 .. Len(s)
        PROVE  s[i] \in {Head(s)} \cup Elements(Tail(s))
    <2>1. CASE i = 1
      BY <1>1, <2>1
    <2>2. CASE i # 1
      <3>1. i - 1 \in 1 .. Len(Tail(s)) /\ Tail(s)[i - 1] = s[i]
        BY <1>1, <2>2
      <3>2. QED
        BY <3>1 DEF Elements
    <2>3. QED
      BY <2>1, <2>2
  <1>3. QED
    BY <1>1, <1>2 DEF Elements

-----------------------------------------------------------------------------
(***************************************************************************)
(* Each step preserves it.                                                 *)
(***************************************************************************)
\* The invariant holds when the process starts, with everything still empty.
LEMMA InitInv == EmitterInit => EmitterInv
  <1> SUFFICES ASSUME EmitterInit PROVE EmitterInv
    OBVIOUS
  <1> USE DEF EmitterInit
  <1>1. Idle \in Step /\ \A t \in Threads : thread[t] = Idle
    BY DEF Idle, Step
  <1>2. producers \in Seq(Producer) /\ Len(producers) = 0 /\ topic \in Seq(Nat)
    OBVIOUS
  <1>3. Types
    <2>1. thread \in [Threads -> Step]
      BY <1>1 DEF EmitterInit
    <2>2. config \in Nat /\ emitted \in Nat /\ exited \in BOOLEAN
      BY DEF EmitterInit
    <2>a. runtime \in 0 .. Len(producers)
      <3>1. runtime = 0 /\ Len(producers) = 0
        BY <1>2 DEF EmitterInit
      <3>2. QED
        BY <3>1
    <2> HIDE DEF EmitterInit
    <2>3. QED
      BY <1>2, <2>1, <2>2, <2>a DEF Types
  <1>4. Built /\ Stopped /\ Held
    BY <1>1, <1>2 DEF Built, OneProducer, Stopped, Held, Idle
  <1>a. Kept
    <2>1. 1 .. emitted = {}
      OBVIOUS
    <2>2. QED
      BY <2>1 DEF Kept
  <1>5. QED
    BY <1>3, <1>4, <1>a DEF EmitterInv

\* Producers are records with a queue, and one of them can be replaced by another.
LEMMA ProducerTypes ==
  ASSUME Types, NEW p \in Producers
  PROVE  producers[p] \in Producer /\ producers[p].queue \in Seq(Nat)
  <1>1. producers[p] \in Producer
    BY DEF Types, Producers
  <1>2. QED
    BY <1>1 DEF Producer

LEMMA WithQueue ==
  ASSUME NEW r \in Producer, NEW q \in Seq(Nat)
  PROVE  [r EXCEPT !.queue = q] \in Producer /\ [r EXCEPT !.queue = q].queue = q
  BY DEF Producer

LEMMA Changed ==
  ASSUME Types, NEW p \in Producers, NEW r \in Producer, producers' = [producers EXCEPT ![p] = r]
  PROVE  /\ producers' \in Seq(Producer) /\ Len(producers') = Len(producers)
         /\ producers'[p] = r /\ \A q \in Producers : q # p => producers'[q] = producers[q]
  BY DEF Types, Producers

\* A thread moves to its next step: the others stay where they are.
LEMMA Moved ==
  ASSUME Types, NEW t \in Threads, NEW next \in Step, thread' = [thread EXCEPT ![t] = next]
  PROVE  /\ thread' \in [Threads -> Step] /\ thread'[t] = next
         /\ \A u \in Threads : u # t => thread'[u] = thread[u]
  BY DEF Types

\* An event is given to a thread that has none: nothing else moves.
LEMMA BeginEmitInv ==
  ASSUME EmitterInv, NEW t \in Threads, BeginEmit(t)
  PROVE  EmitterInv'
  <1> USE DEF EmitterInv
  <1> DEFINE next == [thread[t] EXCEPT !.event = emitted + 1,
                                       !.pc = IF config = 0 THEN "configure" ELSE "get"]
  <1>0. /\ thread[t] \in Step /\ emitted + 1 \in Nat
        /\ thread[t].pc = "idle" /\ thread[t].event = 0
    BY DEF Types, Held, BeginEmit
  <1>a. /\ next \in Step /\ next.event = emitted + 1
        /\ next.pc = IF config = 0 THEN "configure" ELSE "get"
    BY <1>0 DEF Step
  <1>b. thread' = [thread EXCEPT ![t] = next]
    BY <1>0 DEF BeginEmit, Step, Types
  <1> HIDE DEF next
  <1>1. Types'
    BY <1>0, <1>a, <1>b, Moved DEF Types, BeginEmit
  <1>2. /\ \A u \in Threads : u # t => thread'[u] = thread[u]
        /\ thread'[t].event = emitted + 1
        /\ thread'[t].pc = IF config = 0 THEN "configure" ELSE "get"
        /\ thread[t].event = 0
    BY <1>0, <1>a, <1>b, Moved
  <1>3. Built' /\ Held' /\ Stopped'
    <2>1. UNCHANGED <<config, runtime, producers, exited>> /\ ~exited
      BY DEF BeginEmit
    <2>2. ASSUME NEW u \in Threads
          PROVE  /\ thread'[u].pc \in {"get", "lock", "produce"} => config # 0
                 /\ thread'[u].pc = "idle" => thread'[u].event = 0
                 /\ thread'[u].pc = "produce" => thread'[u].producer \in 1 .. Len(producers)
      BY <1>2 DEF Built, Held
    <2>3. Built'
      BY <2>1, <2>2 DEF Built, OneProducer
    <2>4. Held' /\ Stopped'
      BY <2>1, <2>2 DEF Held, Stopped
    <2>5. QED
      BY <2>3, <2>4
  <1>4. Kept'
    <2>1. ASSUME NEW e \in 1 .. emitted', e # emitted + 1
          PROVE  Somewhere(e)'
      <3>1. e \in 1 .. emitted /\ e # 0
        BY <2>1 DEF Types, BeginEmit
      <3>2. CASE \E u \in Threads : thread[u].event = e
        BY <1>2, <3>1, <3>2 DEF Somewhere
      <3>3. CASE e \in Landed \cup logged \cup purged \/ \E p \in Producers : e \in Queued(p)
        BY <3>3 DEF Somewhere, BeginEmit, Landed, Producers, Queued
      <3>4. QED
        BY <3>1, <3>2, <3>3 DEF Kept, Somewhere
    <2>2. ASSUME NEW e \in 1 .. emitted', e = emitted + 1
          PROVE  Somewhere(e)'
      BY <1>2, <2>2 DEF Somewhere
    <2>3. \A e \in 1 .. emitted' : Somewhere(e)'
      BY <2>1, <2>2
    <2>4. QED
      BY <2>3 DEF Kept, BeginEmit
  <1>5. QED
    BY <1>1, <1>3, <1>4

\* A step that moves no event leaves every event where it was.
LEMMA StaySomewhere ==
  ASSUME Types, Kept, emitted' = emitted, purged' = purged, config' >= config, config' \in Nat,
         UNCHANGED <<logged, producers>>, Landed \subseteq Landed',
         \A t \in Threads : thread'[t].event = thread[t].event
  PROVE  Kept'
  <1>1. ASSUME NEW e \in 1 .. emitted
        PROVE  Somewhere(e)'
    <2>1. Somewhere(e)
      BY DEF Kept
    <2>2. QED
      BY <2>1 DEF Somewhere, Producers, Queued
  <1>2. QED
    BY <1>1 DEF Kept, Types

\* configure_kafka by a thread or by the program: one more configuration, no producer.
LEMMA ConfigureInv ==
  ASSUME EmitterInv, ConfigureAgain \/ \E t \in Threads : ConfigureLazily(t)
  PROVE  EmitterInv'
  <1> USE DEF EmitterInv
  <1>1. /\ config' = config + 1 /\ runtime' = 0
        /\ UNCHANGED <<producers, emitted, topic, logged, purged, exited>>
    BY DEF ConfigureAgain, ConfigureLazily, Configured
  <1>2. /\ thread' \in [Threads -> Step]
        /\ \A u \in Threads : /\ thread'[u].event = thread[u].event
                              /\ thread'[u].producer = thread[u].producer
                              /\ thread'[u].pc = "idle" <=> thread[u].pc = "idle"
                              /\ thread'[u].pc = "produce" <=> thread[u].pc = "produce"
    <2>1. CASE ConfigureAgain
      BY <2>1 DEF ConfigureAgain, Types
    <2>2. ASSUME NEW t \in Threads, ConfigureLazily(t)
          PROVE  <1>2!:
      BY <2>2 DEF ConfigureLazily, Types, Step
    <2>3. QED
      BY <2>1, <2>2
  <1>3. Types'
    <2>1. 0 \in 0 .. Len(producers)
      BY DEF Types
    <2>2. QED
      BY <1>1, <1>2, <2>1 DEF Types
  <1>4. Built'
    <2>1. Len(producers) \in Nat /\ config \in Nat /\ Len(producers) <= config
      BY DEF Types, Built, OneProducer
    <2>2. QED
      BY <1>1, <2>1 DEF Built, OneProducer
  <1>5. Held' /\ Stopped'
    BY <1>1, <1>2 DEF Held, Stopped, Producers
  <1>6. Kept'
    BY <1>1, <1>2, StaySomewhere DEF Landed, Types
  <1>7. QED
    BY <1>3, <1>4, <1>5, <1>6

\* A thread reads the configuration: a step of its own program counter only.
LEMMA ReadConfigInv ==
  ASSUME EmitterInv, NEW t \in Threads, ReadConfig(t)
  PROVE  EmitterInv'
  <1> USE DEF EmitterInv
  <1>1. /\ thread' \in [Threads -> Step]
        /\ \A u \in Threads : u # t => thread'[u] = thread[u]
        /\ thread'[t].event = thread[t].event /\ thread'[t].pc = "lock" /\ thread[t].pc = "get"
    BY DEF ReadConfig, Types, Step
  <1>2. UNCHANGED <<config, runtime, producers, emitted, topic, logged, purged, exited>>
    BY DEF ReadConfig
  <1>3. Types' /\ Built' /\ Held' /\ Stopped'
    BY <1>1, <1>2 DEF Types, Built, OneProducer, Held, Stopped, Producers
  <1>4. Kept'
    BY <1>1, <1>2, StaySomewhere DEF Landed, Types
  <1>5. QED
    BY <1>3, <1>4

\* Under the lock: a thread takes the producer there is, builds the one its
\* configuration has not had yet, or loses its event to the log.
LEMMA GetKafkaInv ==
  ASSUME EmitterInv, NEW t \in Threads, GetKafka(t)
  PROVE  EmitterInv'
  <1> USE DEF EmitterInv
  <1>0. /\ UNCHANGED <<config, emitted, topic, purged, exited>>
        /\ thread[t].pc = "lock" /\ config # 0 /\ thread[t] \in Step
        /\ Len(producers) \in Nat /\ ~exited
    BY DEF GetKafka, Built, Types, Stopped
  <1>1. CASE /\ runtime # 0
             /\ thread' = [thread EXCEPT ![t].pc = "produce", ![t].producer = runtime]
             /\ UNCHANGED <<runtime, producers, logged>>
    <2>1. /\ thread' \in [Threads -> Step]
          /\ \A u \in Threads : u # t => thread'[u] = thread[u]
          /\ thread'[t].event = thread[t].event /\ thread'[t].pc = "produce"
          /\ thread'[t].producer = runtime
      <3> DEFINE next == [thread[t] EXCEPT !.pc = "produce", !.producer = runtime]
      <3>1. thread[t] \in Step /\ runtime \in Nat
        BY <1>0 DEF Types
      <3>2. /\ next \in Step /\ next.event = thread[t].event /\ next.pc = "produce"
            /\ next.producer = runtime
        BY <3>1 DEF Step
      <3>3. thread' = [thread EXCEPT ![t] = next]
        BY <1>1, <3>1 DEF Step, Types
      <3> HIDE DEF next
      <3>4. QED
        BY <3>2, <3>3, Moved
    <2>2. Types' /\ Built' /\ Stopped'
      BY <1>0, <1>1, <2>1 DEF Types, Built, OneProducer, Stopped, Producers
    <2>3. Held'
      <3>1. runtime \in 1 .. Len(producers)
        BY <1>1 DEF Types
      <3>2. QED
        BY <1>0, <1>1, <2>1, <3>1 DEF Held
    <2>4. Kept'
      BY <1>0, <1>1, <2>1, StaySomewhere DEF Landed, Types
    <2>5. QED
      BY <2>2, <2>3, <2>4
  <1>2. CASE /\ runtime = 0
             /\ producers' = Append(producers, [config |-> thread[t].config, queue |-> <<>>])
             /\ runtime' = Len(producers) + 1
             /\ thread' = [thread EXCEPT ![t].pc = "produce", ![t].producer = Len(producers) + 1]
             /\ UNCHANGED logged
    <2>1. /\ thread' \in [Threads -> Step]
          /\ \A u \in Threads : u # t => thread'[u] = thread[u]
          /\ thread'[t].event = thread[t].event /\ thread'[t].pc = "produce"
          /\ thread'[t].producer = Len(producers) + 1
      <3> DEFINE next == [thread[t] EXCEPT !.pc = "produce", !.producer = Len(producers) + 1]
      <3>1. thread[t] \in Step /\ Len(producers) + 1 \in Nat
        BY <1>0 DEF Types
      <3>2. /\ next \in Step /\ next.event = thread[t].event /\ next.pc = "produce"
            /\ next.producer = Len(producers) + 1
        BY <3>1 DEF Step
      <3>3. thread' = [thread EXCEPT ![t] = next]
        BY <1>2, <3>1 DEF Step, Types
      <3> HIDE DEF next
      <3>4. QED
        BY <3>2, <3>3, Moved
    <2>2. /\ producers' \in Seq(Producer) /\ Len(producers') = Len(producers) + 1
          /\ \A p \in 1 .. Len(producers) : producers'[p] = producers[p]
      <3>1. [config |-> thread[t].config, queue |-> <<>>] \in Producer
        BY <1>0 DEF Producer, Step
      <3>2. QED
        BY <1>2, <3>1 DEF Types
    <2>3. Types'
      BY <1>0, <1>2, <2>1, <2>2 DEF Types
    <2>4. Built'
      <3>1. Len(producers) + 1 <= config
        BY <1>0, <1>2 DEF Built, Types
      <3>2. QED
        BY <1>0, <1>2, <2>2, <3>1 DEF Built, OneProducer, Types
    <2>5. Held' /\ Stopped'
      BY <1>0, <1>2, <2>1, <2>2 DEF Held, Stopped
    <2>6. ASSUME NEW e \in 1 .. emitted
          PROVE  Somewhere(e)'
      <3>1. Somewhere(e)
        BY DEF Kept
      <3>2. \A p \in Producers : p \in Producers' /\ Queued(p)' = Queued(p)
        BY <1>0, <2>2 DEF Producers, Queued
      <3>3. QED
        BY <1>0, <1>2, <2>1, <3>1, <3>2 DEF Somewhere, Landed
    <2>7. QED
      BY <1>0, <2>3, <2>4, <2>5, <2>6 DEF Kept
  <1>3. CASE /\ logged' = logged \cup {thread[t].event}
             /\ thread' = [thread EXCEPT ![t] = Idle]
             /\ UNCHANGED <<runtime, producers>>
    <2>1. /\ thread' \in [Threads -> Step]
          /\ \A u \in Threads : u # t => thread'[u] = thread[u]
          /\ thread'[t].event = 0 /\ thread'[t].pc = "idle"
      BY <1>3 DEF Types, Step, Idle
    <2>2. Types' /\ Built' /\ Stopped' /\ Held'
      BY <1>0, <1>3, <2>1 DEF Types, Built, OneProducer, Stopped, Producers, Held
    <2>3. ASSUME NEW e \in 1 .. emitted
          PROVE  Somewhere(e)'
      <3>1. Somewhere(e)
        BY DEF Kept
      <3>2. \A p \in Producers : p \in Producers' /\ Queued(p)' = Queued(p)
        BY <1>3 DEF Producers, Queued
      <3>3. Landed' = Landed
        BY <1>0 DEF Landed
      <3>4. QED
        BY <1>0, <1>3, <2>1, <3>1, <3>2, <3>3 DEF Somewhere
    <2>4. QED
      BY <1>0, <2>2, <2>3 DEF Kept
  <1>4. QED
    BY <1>1, <1>2, <1>3 DEF GetKafka, MustBuild

\* Before any event the program configures, and builds if it can.
LEMMA WarmupInv ==
  ASSUME EmitterInv, Warmup
  PROVE  EmitterInv'
  <1> USE DEF EmitterInv
  <1>1. /\ config = 0 /\ config' = 1 /\ emitted = 0 /\ ~exited
        /\ UNCHANGED <<thread, emitted, topic, logged, purged, exited>>
        /\ \/ producers' = <<[config |-> 1, queue |-> <<>>]>> /\ runtime' = 1
           \/ UNCHANGED <<producers, runtime>>
    BY DEF Warmup
  <1>2. Len(producers) = 0 /\ runtime = 0 /\ purged = {}
    BY <1>1 DEF Types, Built, OneProducer, Kept
  <1>3. /\ producers' \in Seq(Producer) /\ Len(producers') \in {0, 1}
        /\ runtime' = Len(producers')
    <2>1. CASE producers' = <<[config |-> 1, queue |-> <<>>]>> /\ runtime' = 1
      <3>1. [config |-> 1, queue |-> <<>>] \in Producer
        BY DEF Producer
      <3>2. QED
        BY <2>1, <3>1
    <2>2. CASE UNCHANGED <<producers, runtime>>
      BY <1>2, <2>2 DEF Types
    <2>3. QED
      BY <1>1, <2>1, <2>2
  <1>4. Types' /\ Built' /\ Stopped' /\ Kept'
    BY <1>1, <1>2, <1>3 DEF Types, Built, OneProducer, Stopped, Kept
  <1>5. Held'
    BY <1>1 DEF Held, Built
  <1>6. QED
    BY <1>4, <1>5

\* produce(): the event is queued, or a full queue hands it to the log.
LEMMA ProduceInv ==
  ASSUME EmitterInv, NEW t \in Threads, Produce(t)
  PROVE  EmitterInv'
  <1> USE DEF EmitterInv
  <1>p. PICK p \in Producers : p = thread[t].producer
    BY DEF Produce, Held, Producers
  <1>e. PICK e0 \in Nat : e0 = thread[t].event
    BY DEF Types, Step
  <1>0. /\ UNCHANGED <<config, runtime, emitted, topic, purged, exited>>
        /\ thread[t] \in Step /\ thread[t].pc = "produce" /\ ~exited
        /\ thread' = [thread EXCEPT ![t] = Idle]
    BY DEF Produce, Types, Stopped
  <1>1. Idle \in Step /\ Idle.pc = "idle" /\ Idle.event = 0
    BY DEF Idle, Step
  <1>2. /\ thread' \in [Threads -> Step] /\ thread'[t] = Idle
        /\ \A u \in Threads : u # t => thread'[u] = thread[u]
    BY <1>0, <1>1, Moved
  <1>3. CASE logged' = logged \cup {e0} /\ UNCHANGED producers
    <2>1. Types' /\ Built' /\ Stopped' /\ Held'
      BY <1>0, <1>1, <1>2, <1>3 DEF Types, Built, OneProducer, Stopped, Producers, Held
    <2>2. ASSUME NEW e \in 1 .. emitted
          PROVE  Somewhere(e)'
      <3>1. Somewhere(e)
        BY DEF Kept
      <3>2. \A q \in Producers : q \in Producers' /\ Queued(q)' = Queued(q)
        BY <1>3 DEF Producers, Queued
      <3>3. Landed' = Landed
        BY <1>0 DEF Landed
      <3>4. QED
        BY <1>0, <1>e, <1>2, <1>3, <3>1, <3>2, <3>3 DEF Somewhere
    <2>3. QED
      BY <1>0, <2>1, <2>2 DEF Kept
  <1>4. CASE producers' = [producers EXCEPT ![p].queue = Append(@, e0)] /\ UNCHANGED logged
    <2> DEFINE longer == [producers[p] EXCEPT !.queue = Append(producers[p].queue, e0)]
    <2>1. producers[p] \in Producer /\ producers[p].queue \in Seq(Nat)
      BY ProducerTypes
    <2>2. /\ Append(producers[p].queue, e0) \in Seq(Nat)
          /\ Elements(Append(producers[p].queue, e0)) = Queued(p) \cup {e0}
      BY <2>1, AppendElements DEF Queued, Elements
    <2>3. longer \in Producer /\ longer.queue = Append(producers[p].queue, e0)
      BY <2>1, <2>2, WithQueue
    <2>4. producers' = [producers EXCEPT ![p] = longer]
      BY <1>4
    <2> HIDE DEF longer
    <2>5. /\ producers' \in Seq(Producer) /\ Len(producers') = Len(producers)
          /\ producers'[p] = longer /\ \A q \in Producers : q # p => producers'[q] = producers[q]
      BY <2>3, <2>4, Changed
    <2>6. Types' /\ Built' /\ Stopped' /\ Held'
      BY <1>0, <1>1, <1>2, <2>5 DEF Types, Built, OneProducer, Stopped, Held
    <2>7. /\ e0 \in Queued(p)' /\ Producers' = Producers
          /\ \A q \in Producers : Queued(q) \subseteq Queued(q)'
      <3>1. Queued(p)' = Queued(p) \cup {e0}
        BY <2>2, <2>3, <2>5 DEF Queued, Elements
      <3>2. \A q \in Producers : q # p => Queued(q)' = Queued(q)
        BY <2>5 DEF Queued
      <3>3. Producers' = Producers
        BY <2>5 DEF Producers
      <3>4. QED
        BY <3>1, <3>2, <3>3
    <2>8. ASSUME NEW e \in 1 .. emitted
          PROVE  Somewhere(e)'
      <3>1. Somewhere(e) /\ Landed' = Landed
        BY <1>0 DEF Kept, Landed
      <3>2. QED
        BY <1>0, <1>e, <1>2, <1>4, <2>7, <3>1 DEF Somewhere
    <2>9. QED
      BY <1>0, <2>6, <2>8 DEF Kept
  <1>5. QED
    BY <1>3, <1>4, <1>p, <1>e DEF Produce

\* A delivery takes the oldest event off the queue, to the topic or to the log.
LEMMA DeliverInv ==
  ASSUME EmitterInv, NEW p \in Producers, Deliver(p)
  PROVE  EmitterInv'
  <1> USE DEF EmitterInv
  <1> DEFINE q == producers[p].queue
             shorter == [producers[p] EXCEPT !.queue = Tail(q)]
  <1>1. /\ UNCHANGED <<config, runtime, thread, emitted, purged, exited>> /\ ~exited
        /\ producers' = [producers EXCEPT ![p] = shorter] /\ q # <<>>
        /\ \/ topic' = Append(topic, Head(q)) /\ UNCHANGED logged
           \/ logged' = logged \cup {Head(q)} /\ UNCHANGED topic
    BY DEF Deliver
  <1>2. producers[p] \in Producer /\ q \in Seq(Nat)
    BY ProducerTypes
  <1>3. Tail(q) \in Seq(Nat) /\ Head(q) \in Nat /\ Elements(q) \subseteq {Head(q)} \cup Elements(Tail(q))
    BY <1>1, <1>2, TailElements
  <1>4. shorter \in Producer /\ shorter.queue = Tail(q)
    BY <1>2, <1>3, WithQueue
  <1> HIDE DEF shorter
  <1>5. /\ producers' \in Seq(Producer) /\ Len(producers') = Len(producers)
        /\ producers'[p] = shorter /\ \A r \in Producers : r # p => producers'[r] = producers[r]
    BY <1>1, <1>4, Changed
  <1>6. /\ topic' \in Seq(Nat) /\ Landed \subseteq Landed'
        /\ logged \subseteq logged' /\ Head(q) \in Landed' \cup logged'
    <2>1. topic \in Seq(Nat)
      BY DEF Types
    <2>2. CASE topic' = Append(topic, Head(q)) /\ UNCHANGED logged
      BY <1>3, <2>1, <2>2, AppendElements DEF Landed, Elements
    <2>3. CASE logged' = logged \cup {Head(q)} /\ UNCHANGED topic
      BY <2>1, <2>3 DEF Landed
    <2>4. QED
      BY <1>1, <2>2, <2>3
  <1>7. Types' /\ Built' /\ Stopped' /\ Held'
    BY <1>1, <1>5, <1>6 DEF Types, Built, OneProducer, Stopped, Held
  <1>8. /\ Producers' = Producers
        /\ \A r \in Producers : Queued(r) \subseteq Queued(r)' \cup {Head(q)}
    <2>1. Queued(p) \subseteq Queued(p)' \cup {Head(q)}
      BY <1>3, <1>4, <1>5 DEF Queued, Elements
    <2>2. \A r \in Producers : r # p => Queued(r)' = Queued(r)
      BY <1>5 DEF Queued
    <2>3. QED
      BY <1>5, <2>1, <2>2 DEF Producers
  <1>9. ASSUME NEW e \in 1 .. emitted
        PROVE  Somewhere(e)'
    <2>1. Somewhere(e)
      BY DEF Kept
    <2>2. QED
      BY <1>1, <1>6, <1>8, <2>1 DEF Somewhere
  <1>10. QED
    BY <1>1, <1>7, <1>9 DEF Kept

\* A replaced producer is destroyed with its queue; it belongs to an earlier configuration.
LEMMA DestroyInv ==
  ASSUME EmitterInv, NEW p \in Producers, Destroy(p)
  PROVE  EmitterInv'
  <1> USE DEF EmitterInv
  <1> DEFINE bare == [producers[p] EXCEPT !.queue = <<>>]
  <1>1. /\ UNCHANGED <<config, runtime, thread, emitted, topic, logged, exited>>
        /\ producers' = [producers EXCEPT ![p] = bare] /\ p # runtime
        /\ purged' = purged \cup Queued(p) /\ producers[p].queue # <<>>
    BY DEF Destroy
  <1>2. bare \in Producer /\ bare.queue = <<>>
    <2>1. producers[p] \in Producer /\ <<>> \in Seq(Nat)
      BY ProducerTypes
    <2>2. QED
      BY <2>1, WithQueue
  <1> HIDE DEF bare
  <1>3. /\ producers' \in Seq(Producer) /\ Len(producers') = Len(producers)
        /\ producers'[p] = bare /\ \A r \in Producers : r # p => producers'[r] = producers[r]
    BY <1>1, <1>2, Changed
  <1>4. Types' /\ Built' /\ Held'
    BY <1>1, <1>3 DEF Types, Built, OneProducer, Held
  <1>5. Stopped'
    BY <1>1 DEF Stopped
  <1>6. config > 1
    BY <1>1, Replaced
  <1>7. Producers' = Producers /\ \A r \in Producers : r # p => Queued(r)' = Queued(r)
    BY <1>3 DEF Queued, Producers
  <1>8. ASSUME NEW e \in 1 .. emitted
        PROVE  Somewhere(e)'
    <2>1. Somewhere(e) /\ Landed' = Landed
      BY <1>1 DEF Kept, Landed
    <2>2. QED
      BY <1>1, <1>7, <2>1 DEF Somewhere
  <1>9. QED
    BY <1>1, <1>4, <1>5, <1>6, <1>8 DEF Kept

\* At exit the installed producer's queue is logged and the others' are lost.
LEMMA ExitInv ==
  ASSUME EmitterInv, Exit
  PROVE  EmitterInv'
  <1> USE DEF EmitterInv
  <1>1. /\ UNCHANGED <<config, runtime, thread, emitted, topic>> /\ exited' = TRUE
        /\ logged' = logged \cup Pending
        /\ purged' = purged \cup UNION {Queued(p) : p \in Producers \ {runtime}}
        /\ producers' = [p \in Producers |-> [producers[p] EXCEPT !.queue = <<>>]]
        /\ \A t \in Threads : thread[t] = Idle
    BY DEF Exit
  <1>2. \A p \in Producers : /\ [producers[p] EXCEPT !.queue = <<>>] \in Producer
                             /\ [producers[p] EXCEPT !.queue = <<>>].queue = <<>>
    <2>1. ASSUME NEW p \in Producers
          PROVE  producers[p] \in Producer /\ <<>> \in Seq(Nat)
      BY ProducerTypes
    <2>2. QED
      BY <2>1, WithQueue
  <1>3. /\ producers' \in Seq(Producer) /\ Len(producers') = Len(producers)
        /\ \A p \in Producers : producers'[p].queue = <<>>
    <2> DEFINE n == Len(producers)
    <2>1. n \in Nat /\ Producers = 1 .. n
      BY DEF Types, Producers
    <2>2. producers' \in [1 .. n -> Producer]
      BY <1>1, <1>2, <2>1
    <2>3. \A p \in Producers : producers'[p].queue = <<>>
      BY <1>1, <1>2
    <2> HIDE DEF n
    <2>4. producers' \in Seq(Producer) /\ Len(producers') = n
      BY <2>1, <2>2
    <2>5. QED
      BY <2>3, <2>4 DEF n
  <1>4. Types' /\ Built' /\ Held' /\ Stopped'
    BY <1>1, <1>3 DEF Types, Built, OneProducer, Held, Stopped, Producers, Idle
  <1>5. ASSUME purged' # {} PROVE config' > 1
    <2>1. CASE purged # {}
      BY <1>1, <2>1 DEF Kept
    <2>2. CASE purged = {}
      <3>1. PICK p \in Producers : p # runtime
        BY <1>1, <1>5, <2>2
      <3>2. QED
        BY <1>1, <3>1, Replaced
    <2>3. QED
      BY <2>1, <2>2
  <1>6. ASSUME NEW e \in 1 .. emitted
        PROVE  Somewhere(e)'
    <2>1. Somewhere(e) /\ Landed' = Landed
      BY <1>1 DEF Kept, Landed
    <2>2. ASSUME NEW p \in Producers, e \in Queued(p)
          PROVE  e \in logged' \cup purged'
      <3>1. CASE p = runtime
        <4>1. runtime # 0
          BY <3>1 DEF Producers
        <4>2. QED
          BY <1>1, <2>2, <3>1, <4>1 DEF Pending
      <3>2. CASE p # runtime
        BY <1>1, <2>2, <3>2
      <3>3. QED
        BY <3>1, <3>2
    <2>3. QED
      BY <1>1, <2>1, <2>2 DEF Somewhere
  <1>7. QED
    BY <1>1, <1>4, <1>5, <1>6 DEF Kept

\* Whatever the consumer does, the topic only grows by messages.
LEMMA HotInv ==
  ASSUME EmitterInv, UNCHANGED emitterVars, topic' \in Seq(Nat), Landed \subseteq Landed'
  PROVE  EmitterInv'
  <1> USE DEF EmitterInv, emitterVars
  <1>1. Types' /\ Built' /\ Held' /\ Stopped'
    BY DEF Types, Built, OneProducer, Held, Stopped, Producers
  <1>2. Kept'
    BY StaySomewhere DEF Types
  <1>3. QED
    BY <1>1, <1>2

\* The invariant is kept by every step of the composition.
LEMMA NextInv == EmitterInv /\ [Next]_vars => EmitterInv'
  <1> SUFFICES ASSUME EmitterInv, [Next]_vars PROVE EmitterInv'
    OBVIOUS
  <1>1. CASE EmitterNext
    BY <1>1, BeginEmitInv, ConfigureInv, ReadConfigInv, GetKafkaInv, ProduceInv, WarmupInv,
       DeliverInv, DestroyInv, ExitInv DEF EmitterNext
  <1>2. ASSUME UNCHANGED emitterVars, topic' = topic \/ topic' = Append(topic, 0)
        PROVE  EmitterInv'
    <2>1. topic \in Seq(Nat)
      BY DEF EmitterInv, Types
    <2>2. CASE topic' = topic
      BY <1>2, <2>1, <2>2, HotInv DEF Landed
    <2>3. CASE topic' = Append(topic, 0)
      BY <1>2, <2>1, <2>3, HotInv, AppendElements DEF Landed, Elements
    <2>4. QED
      BY <1>2, <2>2, <2>3
  <1>3. CASE UNCHANGED emitterVars /\ (\/ Poison \/ Bootstrap \/ Create \/ Drop \/ Killed
                                      \/ Consume \/ FailBlock \/ Merge \/ Expire)
    <2>1. topic' = topic \/ topic' = Append(topic, 0)
      BY <1>3 DEF Poison, Bootstrap, Create, Drop, Killed, Consume, Poll, InsertInto, Commit,
                  FailBlock, Merge, Expire
    <2>2. QED
      BY <1>2, <1>3, <2>1
  <1>4. CASE UNCHANGED vars
    BY <1>2, <1>4 DEF vars
  <1>5. QED
    BY <1>1, <1>3, <1>4 DEF Next

-----------------------------------------------------------------------------
\* What is in hand is in hand of somebody, and after the exit nothing is.
LEMMA Reported == EmitterInv => AccountedFor
  <1> SUFFICES ASSUME EmitterInv PROVE AccountedFor
    OBVIOUS
  <1> USE DEF EmitterInv
  <1>1. ASSUME NEW e \in 1 .. emitted
        PROVE  e \in Landed \cup logged \cup purged \cup InHand
    BY DEF Kept, Somewhere, InHand
  <1>2. ASSUME exited, NEW e \in InHand
        PROVE  e = 0
    <2>1. \A p \in Producers : Queued(p) = {}
      BY <1>2 DEF Stopped, Queued
    <2>2. QED
      BY <1>2, <2>1 DEF Stopped, Held, InHand
  <1>3. QED
    BY <1>1, <1>2 DEF AccountedFor, Kept

\* "Locked so two gateway worker threads cannot each build a Producer", for any number
\* of threads, configurations and failed builds.
THEOREM SingleProducer == Spec => []OneProducer
  <1>1. Init => EmitterInv
    BY InitInv DEF Init
  <1>2. EmitterInv /\ [Next]_vars => EmitterInv'
    BY NextInv
  <1>3. EmitterInv => OneProducer
    BY DEF EmitterInv, Built
  <1>4. QED
    BY <1>1, <1>2, <1>3, PTL DEF Spec

\* No event is lost in silence, for any number of threads, events and any queue, except
\* with a producer that configure_kafka replaced.
THEOREM NoSilentLoss == Spec => []AccountedFor
  <1>1. Init => EmitterInv
    BY InitInv DEF Init
  <1>2. EmitterInv /\ [Next]_vars => EmitterInv'
    BY NextInv
  <1>3. EmitterInv => AccountedFor
    BY Reported
  <1>4. QED
    BY <1>1, <1>2, <1>3, PTL DEF Spec
-----------------------------------------------------------------------------
(***************************************************************************)
(* The consumer: the invariant that its tables, its offset and the         *)
(* bootstrap script keep together.                                         *)
(***************************************************************************)
\* A table holds messages of its own kind only.
ByKind ==
  /\ \A o \in DOMAIN rt : o \in Offsets /\ topic[o] # 0
  /\ \A o \in DOMAIN dead : o \in Offsets /\ topic[o] = 0
Table(o) == IF topic[o] = 0 THEN DOMAIN dead ELSE DOMAIN rt

Consumed ==
  /\ offset \in 0 .. Len(topic)
  /\ \A o \in 1 .. offset : o \in gone \cup missed \cup Table(o)
Poisoned(offsets) == \A o \in offsets : o \in Offsets /\ topic[o] = 0

\* The block under way starts at the offset, and a message in it still has its view to
\* come, is skipped, or has been written.
Underway ==
  block # None =>
    /\ block.to \in offset + 1 .. Len(topic)
    /\ Poisoned(block.skipped)
    /\ \A o \in offset + 1 .. block.to :
         View(o) \in block.views \/ o \in block.skipped \cup gone \cup Table(o)

\* What a script has left is an end of the longest one there is.  The dead-letter view
\* is there only with the other: it is created after it and dropped before it.
Longest == 2 * Len(Order)
Dropping(i) == <<"drop", Order[i]>>
Creating(i) == <<"create", Order[i]>>
Sent == {Dropping(i) : i \in 1 .. 6} \cup {Creating(i) : i \in 1 .. 6}
Scripted ==
  /\ script \in Seq(Sent) /\ Len(script) <= Longest
  /\ \A i \in 1 .. Len(script) : script[i] = Statements(TRUE)[Longest - Len(script) + i]
  /\ "dlq_mv" \in objects => "mv" \in objects
  /\ Len(script) = 1 => "mv" \in objects
  /\ Len(script) = Longest - 1 => "dlq_mv" \notin objects

ConsumerInv == ByKind /\ Consumed /\ Poisoned(missed) /\ Underway /\ Scripted

-----------------------------------------------------------------------------
\* Sequences: as functions, joined, and without their first element.
LEMMA Listed ==
  ASSUME NEW S, NEW n \in Nat, NEW f \in [1 .. n -> S]
  PROVE  f \in Seq(S) /\ Len(f) = n
  OBVIOUS

LEMMA Joined ==
  ASSUME NEW S, NEW s \in Seq(S), NEW t \in Seq(S)
  PROVE  /\ s \o t \in Seq(S) /\ Len(s \o t) = Len(s) + Len(t)
         /\ \A i \in 1 .. Len(s) : (s \o t)[i] = s[i]
         /\ \A i \in 1 .. Len(t) : (s \o t)[Len(s) + i] = t[i]
         /\ <<>> \o t = t
  OBVIOUS

LEMMA Rest ==
  ASSUME NEW S, NEW s \in Seq(S), s # <<>>
  PROVE  /\ Tail(s) \in Seq(S) /\ Len(Tail(s)) = Len(s) - 1 /\ Head(s) = s[1] /\ Len(s) \in Nat \ {0}
         /\ \A i \in 1 .. Len(s) - 1 : Tail(s)[i] = s[i + 1]
  OBVIOUS

\* The statements bootstrap.py sends, one by one.
LEMMA TheScript ==
  /\ Longest = 12
  /\ Statements(TRUE) \in Seq(Sent) /\ Len(Statements(TRUE)) = 12
  /\ Statements(FALSE) \in Seq(Sent) /\ Len(Statements(FALSE)) = 6
  /\ \A i \in 1 .. 6 : /\ Statements(TRUE)[i] = Dropping(7 - i)
                       /\ Statements(TRUE)[6 + i] = Creating(i)
                       /\ Statements(FALSE)[i] = Creating(i)
  <1> DEFINE drops   == [i \in 1 .. 6 |-> Dropping(7 - i)]
             creates == [i \in 1 .. 6 |-> Creating(i)]
  <1>1. Len(Order) = 6
    BY DEF Order
  <1>2. \A i \in 1 .. 6 : 7 - i \in 1 .. 6 /\ Reverse(Order)[i] = Order[7 - i]
    BY <1>1 DEF Reverse
  <1>3. /\ drops = [i \in 1 .. Len(Order) |-> <<"drop", Reverse(Order)[i]>>]
        /\ creates = [i \in 1 .. Len(Order) |-> <<"create", Order[i]>>]
    BY <1>1, <1>2 DEF Dropping, Creating
  <1>4. Statements(TRUE) = drops \o creates /\ Statements(FALSE) = <<>> \o creates
    BY <1>3 DEF Statements
  <1>5. drops \in [1 .. 6 -> Sent] /\ creates \in [1 .. 6 -> Sent]
    BY <1>2 DEF Sent
  <1>6. \A i \in 1 .. 6 : drops[i] = Dropping(7 - i) /\ creates[i] = Creating(i)
    OBVIOUS
  <1> HIDE DEF drops, creates
  <1>7. drops \in Seq(Sent) /\ Len(drops) = 6 /\ creates \in Seq(Sent) /\ Len(creates) = 6
    BY <1>5, Listed
  <1>8. /\ drops \o creates \in Seq(Sent) /\ Len(drops \o creates) = 12
        /\ \A i \in 1 .. 6 : /\ (drops \o creates)[i] = drops[i]
                             /\ (drops \o creates)[6 + i] = creates[i]
        /\ <<>> \o creates = creates
    <2>1. /\ drops \o creates \in Seq(Sent) /\ Len(drops \o creates) = Len(drops) + Len(creates)
          /\ \A i \in 1 .. Len(drops) : (drops \o creates)[i] = drops[i]
          /\ \A i \in 1 .. Len(creates) : (drops \o creates)[Len(drops) + i] = creates[i]
          /\ <<>> \o creates = creates
      BY <1>7, Joined
    <2>2. QED
      BY <1>7, <2>1
  <1>9. Longest = 12
    BY <1>1 DEF Longest
  <1>10. QED
    BY <1>4, <1>6, <1>7, <1>8, <1>9

\* Which statement is next, by the number of those that are left.
LEMMA NextStatement ==
  ASSUME Scripted, script # <<>>
  PROVE  /\ Len(script) \in 1 .. 12 /\ Tail(script) \in Seq(Sent)
         /\ Len(Tail(script)) = Len(script) - 1
         /\ Len(script) > 6 => Head(script) = Dropping(Len(script) - 6)
         /\ Len(script) <= 6 => Head(script) = Creating(7 - Len(script))
         /\ \A i \in 1 .. Len(Tail(script)) :
              Tail(script)[i] = Statements(TRUE)[Longest - Len(Tail(script)) + i]
  <1>1. PICK n \in 1 .. 12 : n = Len(script)
    <2>1. Len(script) \in Nat \ {0} /\ Len(script) <= 12
      BY Rest, TheScript DEF Scripted
    <2>2. PICK n \in Nat \ {0} : n = Len(script)
      BY <2>1
    <2>3. n <= 12
      BY <2>1, <2>2
    <2>4. \A m \in Nat \ {0} : m <= 12 => m \in 1 .. 12
      OBVIOUS
    <2>5. QED
      BY <2>2, <2>3, <2>4
  <1>2. /\ Len(Tail(script)) = n - 1 /\ Tail(script) \in Seq(Sent) /\ Head(script) = script[1]
        /\ \A i \in 1 .. n - 1 : Tail(script)[i] = script[i + 1]
    BY <1>1, Rest DEF Scripted
  <1>3. \A i \in 1 .. n : script[i] = Statements(TRUE)[12 - n + i]
    BY <1>1, TheScript DEF Scripted
  <1>4. ASSUME NEW i \in 1 .. n - 1
        PROVE  Tail(script)[i] = Statements(TRUE)[12 - (n - 1) + i]
    <2>1. i + 1 \in 1 .. n /\ 12 - n + (i + 1) = 12 - (n - 1) + i
      OBVIOUS
    <2>2. Tail(script)[i] = Statements(TRUE)[12 - n + (i + 1)]
      BY <1>2, <1>3, <2>1
    <2>3. QED
      BY <2>1, <2>2
  <1>5. Head(script) = Statements(TRUE)[12 - n + 1]
    <2>1. 1 \in 1 .. n
      OBVIOUS
    <2>2. QED
      BY <1>2, <1>3, <2>1
  <1>6. ASSUME n > 6
        PROVE  Head(script) = Dropping(n - 6)
    <2>1. PICK i \in 1 .. 6 : i = 13 - n /\ 12 - n + 1 = i /\ 7 - i = n - 6
      BY <1>6
    <2>2. QED
      BY <1>5, <2>1, TheScript
  <1>7. ASSUME n <= 6
        PROVE  Head(script) = Creating(7 - n)
    <2>1. PICK i \in 1 .. 6 : i = 7 - n /\ 12 - n + 1 = 6 + i
      BY <1>7
    <2>2. QED
      BY <1>5, <2>1, TheScript
  <1>8. Len(script) \in 1 .. 12 /\ Longest = 12
    BY <1>1, TheScript
  <1>9. \A i \in 1 .. Len(Tail(script)) :
          Tail(script)[i] = Statements(TRUE)[Longest - Len(Tail(script)) + i]
    BY <1>2, <1>4, <1>8
  <1>10. QED
    BY <1>1, <1>2, <1>6, <1>7, <1>8, <1>9

-----------------------------------------------------------------------------
\* A consumer that has seen nothing yet.
LEMMA ConsumerInit == Init => ConsumerInv
  <1> SUFFICES ASSUME Init PROVE ConsumerInv
    OBVIOUS
  <1>1. /\ topic = <<>> /\ objects = {} /\ script = <<>> /\ offset = 0 /\ block = None
        /\ rt = <<>> /\ dead = <<>> /\ gone = {} /\ missed = {}
    BY DEF Init, EmitterInit, HotInit
  <1>2. ByKind /\ Consumed /\ Poisoned(missed) /\ Underway
    BY <1>1 DEF ByKind, Consumed, Poisoned, Underway
  <1>3. Scripted
    <2>1. script \in Seq(Sent) /\ Len(script) = 0
      BY <1>1
    <2>2. QED
      BY <1>1, <2>1, TheScript DEF Scripted
  <1>4. QED
    BY <1>2, <1>3 DEF ConsumerInv

\* New messages arrive behind the old ones.
LEMMA GrowInv ==
  ASSUME ConsumerInv, topic \in Seq(Nat), topic' \in Seq(Nat), Len(topic) <= Len(topic'),
         \A i \in 1 .. Len(topic) : topic'[i] = topic[i],
         UNCHANGED <<objects, script, offset, block, rt, dead, gone, missed>>
  PROVE  ConsumerInv'
  <1> USE DEF ConsumerInv
  <1>1. /\ Len(topic) \in Nat /\ Len(topic') \in Nat
        /\ \A o \in Offsets : o \in Offsets' /\ topic'[o] = topic[o] /\ View(o)' = View(o) /\ Table(o)' = Table(o)
    BY DEF Offsets, View, Table
  <1>2. ByKind' /\ Poisoned(missed)'
    BY <1>1 DEF ByKind, Poisoned
  <1>3. Consumed'
    <2>1. offset \in 0 .. Len(topic') /\ 1 .. offset \subseteq Offsets
      BY <1>1 DEF Consumed, Offsets
    <2>2. QED
      BY <1>1, <2>1 DEF Consumed
  <1>4. Underway'
    <2>1. SUFFICES ASSUME block # None PROVE Underway'
      BY DEF Underway
    <2>2. /\ block.to \in offset + 1 .. Len(topic') /\ Poisoned(block.skipped)
          /\ offset + 1 .. block.to \subseteq Offsets
      BY <1>1, <2>1 DEF Underway, Consumed, Offsets
    <2>3. QED
      BY <1>1, <2>1, <2>2 DEF Underway, Poisoned
  <1>5. Scripted'
    BY DEF Scripted
  <1>6. QED
    BY <1>2, <1>3, <1>4, <1>5

\* The order of the numbered files.
LEMMA TheOrder ==
  /\ Order[5] = "mv" /\ Order[6] = "dlq_mv"
  /\ \A i \in 1 .. 6 : (Order[i] = "mv" => i = 5) /\ (Order[i] = "dlq_mv" => i = 6)
  /\ Order[1] = "database"
  BY DEF Order

\* What is to be shown of a script after a step.
LEMMA StillScripted ==
  ASSUME NEW m \in 0 .. 12, script' \in Seq(Sent), Len(script') = m,
         \A i \in 1 .. m : script'[i] = Statements(TRUE)[12 - m + i],
         "dlq_mv" \in objects' => "mv" \in objects',
         m = 1 => "mv" \in objects', m = 11 => "dlq_mv" \notin objects'
  PROVE  Scripted'
  <1>1. Longest = 12 /\ Longest - 1 = 11
    BY TheScript
  <1>2. /\ script' \in Seq(Sent) /\ Len(script') <= Longest
        /\ \A i \in 1 .. Len(script') : script'[i] = Statements(TRUE)[Longest - Len(script') + i]
    <2>1. Longest - Len(script') = 12 - m /\ Len(script') <= Longest
      BY <1>1
    <2>2. ASSUME NEW i \in 1 .. Len(script')
          PROVE  script'[i] = Statements(TRUE)[Longest - Len(script') + i]
      <3>1. i \in 1 .. m
        OBVIOUS
      <3>2. script'[i] = Statements(TRUE)[12 - m + i]
        BY <3>1
      <3>3. QED
        BY <2>1, <3>2
    <2>3. QED
      BY <2>1, <2>2
  <1>3. Len(script') = Longest - 1 => "dlq_mv" \notin objects'
    BY <1>1
  <1>4. QED
    BY <1>2, <1>3, Zenon DEF Scripted

\* bootstrap.py starts, creates an object, or is killed: no table loses a row.
LEMMA BuildInv ==
  ASSUME ConsumerInv, Bootstrap \/ Create \/ Killed
  PROVE  ConsumerInv'
  <1> USE DEF ConsumerInv
  <1>1. UNCHANGED <<topic, offset, block, rt, dead, gone, missed>>
    BY DEF Bootstrap, Create, Killed
  <1>2. ByKind' /\ Consumed' /\ Poisoned(missed)' /\ Underway'
    BY <1>1 DEF ByKind, Consumed, Poisoned, Underway, Offsets, Table, View
  <1>3. CASE Bootstrap
    <2>1. /\ objects' = objects
          /\ script' = Statements(TRUE) \/ script' = Statements(FALSE)
      BY <1>3 DEF Bootstrap
    <2>2. CASE script' = Statements(TRUE)
      <3>1. \A i \in 1 .. 12 : 12 - 12 + i = i
        OBVIOUS
      <3>2. script' \in Seq(Sent) /\ Len(script') = 12
        BY <2>2, TheScript, Zenon
      <3>3. \A i \in 1 .. 12 : script'[i] = Statements(TRUE)[12 - 12 + i]
        BY <2>2, <3>1
      <3>4. "dlq_mv" \in objects' => "mv" \in objects'
        BY <2>1 DEF Scripted
      <3>5. PICK m \in 0 .. 12 : m = 12
        OBVIOUS
      <3>6. \A i \in 1 .. m : script'[i] = Statements(TRUE)[12 - m + i]
        BY <3>3, <3>5
      <3>7. Len(script') = m /\ m # 1 /\ m # 11 /\ script' \in Seq(Sent)
        BY <3>2, <3>5
      <3>8. Scripted'
        BY <3>4, <3>6, <3>7, StillScripted
      <3>9. QED
        BY <1>2, <3>8
    <2>3. CASE script' = Statements(FALSE)
      <3>1. \A i \in 1 .. 6 : 12 - 6 + i = 6 + i
        OBVIOUS
      <3>2. \A i \in 1 .. 6 : script'[i] = Statements(TRUE)[12 - 6 + i]
        BY <2>3, <3>1, TheScript
      <3>3. script' \in Seq(Sent) /\ Len(script') = 6
        BY <2>3, TheScript, Zenon
      <3>4. "dlq_mv" \in objects' => "mv" \in objects'
        BY <2>1 DEF Scripted
      <3>5. PICK m \in 0 .. 12 : m = 6
        OBVIOUS
      <3>6. \A i \in 1 .. m : script'[i] = Statements(TRUE)[12 - m + i]
        BY <3>2, <3>5
      <3>7. Len(script') = m /\ m # 1 /\ m # 11 /\ script' \in Seq(Sent)
        BY <3>3, <3>5
      <3>8. Scripted'
        BY <3>4, <3>6, <3>7, StillScripted
      <3>9. QED
        BY <1>2, <3>8
    <2>4. QED
      BY <2>1, <2>2, <2>3
  <1>4. CASE Create
    <2>1. /\ script # <<>> /\ Head(script)[1] = "create" /\ script' = Tail(script)
          /\ objects' = objects \cup {Head(script)[2]}
      BY <1>4 DEF Create
    <2>2. PICK n \in 1 .. 12 : n = Len(script)
      BY <2>1, NextStatement
    <2>3. n <= 6 /\ Head(script)[2] = Order[7 - n] /\ 7 - n \in 1 .. 6
      <3>1. n > 6 => Head(script)[1] = "drop"
        BY <2>1, <2>2, NextStatement DEF Dropping
      <3>2. n <= 6
        BY <2>1, <3>1
      <3>3. Head(script) = Creating(7 - n)
        BY <2>1, <2>2, <3>2, NextStatement
      <3>4. QED
        BY <3>2, <3>3 DEF Creating
    <2>4. /\ "dlq_mv" \in objects' => "mv" \in objects'
          /\ n - 1 = 1 => "mv" \in objects'
      <3>1. n = 1 => "mv" \in objects
        BY <2>2 DEF Scripted
      <3>2. n = 2 => Head(script)[2] = "mv"
        BY <2>3, TheOrder
      <3>3. Head(script)[2] = "dlq_mv" => n = 1
        BY <2>3, TheOrder
      <3>4. QED
        BY <2>1, <3>1, <3>2, <3>3 DEF Scripted
    <2>5. /\ script' \in Seq(Sent) /\ Len(script') = n - 1
          /\ \A i \in 1 .. n - 1 : script'[i] = Statements(TRUE)[12 - (n - 1) + i]
      BY <2>1, <2>2, NextStatement, TheScript
    <2>6. Scripted'
      <3>1. n - 1 \in 0 .. 12 /\ n - 1 # 11
        BY <2>3
      <3>2. QED
        BY <2>4, <2>5, <3>1, StillScripted
    <2>7. QED
      BY <1>2, <2>6
  <1>5. CASE Killed
    <2>1. script' = <<>> /\ objects' = objects
      BY <1>5 DEF Killed
    <2>2. script' \in Seq(Sent) /\ Len(script') = 0
      BY <2>1
    <2>3. QED
      BY <1>2, <2>1, <2>2, TheScript DEF Scripted
  <1>6. QED
    BY <1>3, <1>4, <1>5

\* What --recreate drops is gone.
LEMMA DropInv ==
  ASSUME ConsumerInv, Drop
  PROVE  ConsumerInv'
  <1> USE DEF ConsumerInv
  <1>1. PICK o : o = Head(script)[2]
    OBVIOUS
  <1>2. /\ script # <<>> /\ Head(script)[1] = "drop" /\ script' = Tail(script)
        /\ objects' = IF o = "database" THEN {} ELSE objects \ {o}
        /\ rt' = IF o = "rt" THEN <<>> ELSE rt
        /\ dead' = IF o = "dlq" THEN <<>> ELSE dead
        /\ gone' = gone \cup (IF o = "rt" THEN DOMAIN rt ELSE {}) \cup (IF o = "dlq" THEN DOMAIN dead ELSE {})
        /\ UNCHANGED <<topic, offset, block, missed>>
    BY <1>1 DEF Drop
  <1>3. /\ DOMAIN rt' \subseteq DOMAIN rt /\ DOMAIN dead' \subseteq DOMAIN dead /\ gone \subseteq gone'
        /\ \A p : p \in gone \cup Table(p) => p \in gone' \cup Table(p)'
    <2>1. DOMAIN <<>> = {}
      OBVIOUS
    <2>2. QED
      BY <1>2, <2>1 DEF Table
  <1>4. ByKind' /\ Poisoned(missed)'
    BY <1>2, <1>3 DEF ByKind, Poisoned, Offsets
  <1>5. Consumed'
    BY <1>2, <1>3 DEF Consumed
  <1>6. Underway'
    <2>1. \A p : View(p)' = View(p)
      BY <1>2 DEF View
    <2>2. QED
      BY <1>2, <1>3, <2>1 DEF Underway, Poisoned, Offsets
  <1>7. Scripted'
    <2>1. PICK n \in 1 .. 12 : n = Len(script)
      BY <1>2, NextStatement
    <2>2. n > 6 /\ o = Order[n - 6] /\ n - 6 \in 1 .. 6
      <3>1. n <= 6 => Head(script)[1] = "create"
        BY <1>2, <2>1, NextStatement DEF Creating
      <3>2. n > 6
        BY <1>2, <3>1
      <3>3. Head(script) = Dropping(n - 6)
        BY <1>2, <2>1, <3>2, NextStatement
      <3>4. QED
        BY <1>1, <3>2, <3>3 DEF Dropping
    <2>3. /\ "dlq_mv" \in objects' => "mv" \in objects'
          /\ n - 1 = 11 => "dlq_mv" \notin objects'
      <3>1. n = 11 => "dlq_mv" \notin objects
        BY <2>1, TheScript DEF Scripted
      <3>2. n = 12 => o = "dlq_mv"
        BY <2>2, TheOrder
      <3>3. o = "mv" => n = 11
        <4>1. PICK i \in 1 .. 6 : i = n - 6
          BY <2>2
        <4>2. o = "mv" => i = 5
          BY <2>2, <4>1, TheOrder
        <4>3. QED
          BY <4>1, <4>2
      <3>4. QED
        BY <1>2, <3>1, <3>2, <3>3 DEF Scripted
    <2>4. /\ script' \in Seq(Sent) /\ Len(script') = n - 1
          /\ \A i \in 1 .. n - 1 : script'[i] = Statements(TRUE)[12 - (n - 1) + i]
      BY <1>2, <2>1, NextStatement, TheScript
    <2>5. n - 1 \in 0 .. 12 /\ n - 1 # 1
      BY <2>2
    <2>6. QED
      BY <2>3, <2>4, <2>5, StillScripted
  <1>8. QED
    BY <1>4, <1>5, <1>6, <1>7

\* A block skips what no attached view selects.  The view of the spans is attached
\* whenever one is.
LEMMA PollInv ==
  ASSUME ConsumerInv, topic \in Seq(Nat), Poll
  PROVE  ConsumerInv'
  <1> USE DEF ConsumerInv
  <1>1. /\ UNCHANGED <<topic, objects, script, offset, rt, dead, gone, missed>>
        /\ Attached # {}
    BY DEF Poll
  <1>2. PICK to \in offset + 1 .. offset + BlockSize :
          /\ to <= Len(topic)
          /\ block' = [to |-> to, views |-> Attached,
                       skipped |-> {o \in offset + 1 .. to : View(o) \notin Attached}]
    BY DEF Poll
  <1>3. /\ block'.to = to /\ block'.views = Attached
        /\ block'.skipped = {o \in offset + 1 .. to : View(o) \notin Attached}
    BY <1>2
  <1>4. "mv" \in Attached
    BY <1>1 DEF Attached, Views, Scripted
  <1>5. to \in offset + 1 .. Len(topic) /\ offset + 1 .. to \subseteq Offsets
    BY <1>2 DEF Consumed, Offsets
  <1>6. Poisoned(block'.skipped)
    BY <1>3, <1>4, <1>5 DEF Poisoned, View
  <1>7. Underway'
    <2>1. \A o : View(o)' = View(o)
      BY <1>1 DEF View
    <2>2. \A o \in offset + 1 .. to : View(o) \in block'.views \/ o \in block'.skipped
      BY <1>3
    <2>3. QED
      BY <1>1, <1>3, <1>5, <1>6, <2>1, <2>2 DEF Underway, Poisoned, Offsets
  <1>8. ByKind' /\ Consumed' /\ Poisoned(missed)' /\ Scripted'
    BY <1>1 DEF ByKind, Consumed, Poisoned, Scripted, Offsets, Table
  <1>9. QED
    BY <1>7, <1>8

\* A view writes the messages of its own kind.
LEMMA InsertInv ==
  ASSUME ConsumerInv, topic \in Seq(Nat), NEW v \in Views, InsertInto(v)
  PROVE  ConsumerInv'
  <1> USE DEF ConsumerInv
  <1>1. /\ UNCHANGED <<topic, objects, script, offset, gone, missed>>
        /\ block' = [block EXCEPT !.views = @ \ {v}] /\ v \in block.views
        /\ v = "mv" => rt' = Copied(rt, Selected("mv")) /\ dead' = dead
        /\ v = "dlq_mv" => dead' = Copied(dead, Selected("dlq_mv")) /\ rt' = rt
        /\ v = "mv" \/ v = "dlq_mv"
    BY DEF InsertInto, Views
  <1>2. block # None
    BY <1>1 DEF None
  <1>3. /\ block.to \in offset + 1 .. Len(topic) /\ offset + 1 .. block.to \subseteq Offsets
        /\ Poisoned(block.skipped)
        /\ \A o \in offset + 1 .. block.to :
             View(o) \in block.views \/ o \in block.skipped \cup gone \cup Table(o)
    BY <1>2 DEF Underway, Consumed, Offsets
  <1>4. \A table, rows : DOMAIN Copied(table, rows) = DOMAIN table \cup rows
    BY DEF Copied
  <1>5. /\ DOMAIN rt' = DOMAIN rt \cup (IF v = "mv" THEN Selected("mv") ELSE {})
        /\ DOMAIN dead' = DOMAIN dead \cup (IF v = "dlq_mv" THEN Selected("dlq_mv") ELSE {})
    BY <1>1, <1>4
  <1>6. /\ \A o \in Selected("mv") : o \in Offsets /\ topic[o] # 0
        /\ \A o \in Selected("dlq_mv") : o \in Offsets /\ topic[o] = 0
    BY <1>3 DEF Selected, View
  <1>7. ByKind'
    BY <1>1, <1>5, <1>6 DEF ByKind, Offsets
  <1>8. \A o : o \in Table(o) => o \in Table(o)'
    BY <1>1, <1>5 DEF Table
  <1>9. Consumed' /\ Poisoned(missed)' /\ Scripted'
    BY <1>1, <1>8 DEF Consumed, Poisoned, Scripted, Offsets
  <1>10. Underway'
    <2>1. /\ block'.to = block.to /\ block'.skipped = block.skipped
          /\ block'.views = block.views \ {v}
      <3>1. PICK views : views = block.views \ {v}
        OBVIOUS
      <3>2. block' = [block EXCEPT !.views = views]
        BY <1>1, <3>1
      <3>3. QED
        BY <3>1, <3>2
    <2>2. ASSUME NEW o \in offset + 1 .. block.to, View(o) = v
          PROVE  o \in Table(o)'
      <3>1. o \in Selected(v)
        BY <2>2 DEF Selected
      <3>2. QED
        BY <1>1, <1>5, <2>2, <3>1 DEF Table, View
    <2>3. \A o : View(o)' = View(o)
      BY <1>1 DEF View
    <2>4. QED
      BY <1>1, <1>3, <1>8, <2>1, <2>2, <2>3 DEF Underway, Poisoned, Offsets
  <1>11. QED
    BY <1>7, <1>9, <1>10

\* A block is committed when no view of it is left.
LEMMA CommitInv ==
  ASSUME ConsumerInv, topic \in Seq(Nat), Commit
  PROVE  ConsumerInv'
  <1> USE DEF ConsumerInv
  <1>1. /\ block # None /\ block.views = {} /\ offset' = block.to /\ block' = None
        /\ missed' = missed \cup block.skipped
        /\ UNCHANGED <<topic, objects, script, rt, dead, gone>>
    BY DEF Commit, Written, Resumed
  <1>2. /\ block.to \in offset + 1 .. Len(topic) /\ Poisoned(block.skipped)
        /\ \A o \in offset + 1 .. block.to : o \in block.skipped \cup gone \cup Table(o)
    BY <1>1 DEF Underway
  <1>3. Consumed'
    <2>1. ASSUME NEW o \in 1 .. block.to
          PROVE  o \in gone \cup missed' \cup Table(o)
      <3>1. CASE o \in 1 .. offset
        BY <1>1, <3>1 DEF Consumed
      <3>2. CASE o \notin 1 .. offset
        <4>1. o \in offset + 1 .. block.to
          BY <1>2, <3>2 DEF Consumed
        <4>2. QED
          BY <1>1, <1>2, <4>1
      <3>3. QED
        BY <3>1, <3>2
    <2>2. block.to \in 0 .. Len(topic)
      BY <1>2 DEF Consumed
    <2>3. QED
      BY <1>1, <2>1, <2>2 DEF Consumed, Table
  <1>4. Poisoned(missed)'
    BY <1>1, <1>2 DEF Poisoned, Offsets
  <1>5. ByKind' /\ Underway' /\ Scripted'
    BY <1>1 DEF ByKind, Underway, Scripted, Offsets
  <1>6. QED
    BY <1>3, <1>4, <1>5

\* A failed block is read again; a merge and the TTL leave a row of each message they
\* do not take.
LEMMA KeeperInv ==
  ASSUME ConsumerInv, FailBlock \/ Merge \/ Expire
  PROVE  ConsumerInv'
  <1> USE DEF ConsumerInv
  <1>1. /\ UNCHANGED <<topic, objects, script, offset, dead, missed>>
        /\ block' = None \/ block' = block
    BY DEF FailBlock, Merge, Expire
  <1>2. /\ DOMAIN rt' \subseteq DOMAIN rt /\ gone \subseteq gone'
        /\ \A p : p \in gone \cup Table(p) => p \in gone' \cup Table(p)'
    <2>1. CASE FailBlock
      BY <2>1 DEF FailBlock, Table
    <2>2. CASE Merge
      <3>1. DOMAIN rt' = DOMAIN rt /\ gone' = gone
        BY <2>2 DEF Merge
      <3>2. QED
        BY <1>1, <3>1 DEF Table
    <2>3. CASE Expire
      <3>1. PICK o \in DOMAIN rt : rt' = Restrict(rt, DOMAIN rt \ {o}) /\ gone' = gone \cup {o}
        BY <2>3 DEF Expire
      <3>2. DOMAIN rt' = DOMAIN rt \ {o}
        BY <3>1 DEF Restrict
      <3>3. QED
        BY <1>1, <3>1, <3>2 DEF Table
    <2>4. QED
      BY <2>1, <2>2, <2>3
  <1>3. ByKind' /\ Poisoned(missed)' /\ Consumed' /\ Scripted'
    BY <1>1, <1>2 DEF ByKind, Poisoned, Consumed, Scripted, Offsets
  <1>4. Underway'
    <2>1. \A p : View(p)' = View(p)
      BY <1>1 DEF View
    <2>2. QED
      BY <1>1, <1>2, <2>1 DEF Underway, Poisoned, Offsets
  <1>5. QED
    BY <1>3, <1>4

\* Of the emitter's steps the consumer sees at most one more message.
LEMMA TopicGrows ==
  ASSUME EmitterInv, EmitterNext
  PROVE  topic' = topic \/ \E x \in Nat : topic' = Append(topic, x)
  <1>1. ASSUME NEW p \in Producers, Deliver(p)
        PROVE  topic' = topic \/ \E x \in Nat : topic' = Append(topic, x)
    <2>1. producers[p].queue \in Seq(Nat) /\ producers[p].queue # <<>>
      BY <1>1, ProducerTypes DEF EmitterInv, Deliver
    <2>2. Head(producers[p].queue) \in Nat
      BY <2>1, TailElements
    <2>3. QED
      BY <1>1, <2>2 DEF Deliver
  <1>2. QED
    BY <1>1 DEF EmitterNext, BeginEmit, ConfigureLazily, ReadConfig, GetKafka, Produce, Warmup,
                ConfigureAgain, Destroy, Exit

\* The consumer's invariant is kept by every step of the composition.
LEMMA ConsumerNext ==
  ASSUME EmitterInv, ConsumerInv, [Next]_vars
  PROVE  ConsumerInv'
  <1>1. topic \in Seq(Nat)
    BY DEF EmitterInv, Types
  <1>2. ASSUME UNCHANGED <<objects, script, offset, block, rt, dead, gone, missed>>,
               topic' = topic \/ \E x \in Nat : topic' = Append(topic, x)
        PROVE  ConsumerInv'
    <2>1. CASE topic' = topic
      BY <1>1, <1>2, <2>1, GrowInv
    <2>2. ASSUME NEW x \in Nat, topic' = Append(topic, x)
          PROVE  ConsumerInv'
      <3>1. /\ topic' \in Seq(Nat) /\ Len(topic) <= Len(topic')
            /\ \A i \in 1 .. Len(topic) : topic'[i] = topic[i]
        BY <1>1, <2>2
      <3>2. QED
        BY <1>1, <1>2, <3>1, GrowInv
    <2>3. QED
      BY <1>2, <2>1, <2>2
  <1>3. CASE EmitterNext /\ UNCHANGED hotVars
    BY <1>2, <1>3, TopicGrows DEF hotVars
  <1>4. CASE Poison
    <2>1. topic' = Append(topic, 0) /\ 0 \in Nat
      BY <1>4 DEF Poison
    <2>2. QED
      BY <1>2, <1>4, <2>1 DEF Poison
  <1>5. CASE UNCHANGED vars
    BY <1>2, <1>5 DEF vars, hotVars
  <1>6. CASE Consume
    BY <1>1, <1>6, PollInv, InsertInv, CommitInv DEF Consume
  <1>7. QED
    BY <1>3, <1>4, <1>5, <1>6, BuildInv, DropInv, KeeperInv DEF Next

LEMMA ConsumerInvariant == Spec => []ConsumerInv
  <1>1. Init => EmitterInv /\ ConsumerInv
    BY InitInv, ConsumerInit DEF Init
  <1>2. EmitterInv /\ ConsumerInv /\ [Next]_vars => EmitterInv' /\ ConsumerInv'
    BY NextInv, ConsumerNext
  <1>3. QED
    BY <1>1, <1>2, PTL DEF Spec

\* "Every message lands in exactly one of the two tables": of whatever the group has
\* committed, through failed blocks, merges, the TTL and bootstraps killed at any
\* statement, for any block size and any number of them.
THEOREM EverythingLands == Spec => []NothingBetween
  <1>1. ConsumerInv => NothingBetween
    BY DEF ConsumerInv, ByKind, Consumed, Table, NothingBetween
  <1>2. QED
    BY <1>1, ConsumerInvariant, PTL

\* A span is never consumed without its view, though the views come and go one by one:
\* the order of the numbered files, and its reverse, keep the dead-letter view from being
\* there alone.
THEOREM SpansNeverSkipped == Spec => []SpansKept
  <1>1. ConsumerInv => SpansKept
    BY DEF ConsumerInv, Poisoned, SpansKept
  <1>2. QED
    BY <1>1, ConsumerInvariant, PTL

\* Distinct spans as many as the broker has offsets are all the messages of the topic:
\* no duplicate and no dead letter stands in for a span that is missing.
THEOREM CountsSuffice == Spec => []MatchMeansComplete
  <1>1. ASSUME ConsumerInv, topic \in Seq(Nat)
        PROVE  MatchMeansComplete
    <2>1. SUFFICES ASSUME NEW offsets \in Len(topic) .. MaxEvents + MaxPoison,
                          Cardinality(DOMAIN rt) = offsets
                   PROVE  DOMAIN rt = 1 .. offsets
      BY DEF MatchMeansComplete, Match, Distinct
    <2>2. offsets \in Nat /\ DOMAIN rt \subseteq 1 .. offsets
      BY <1>1 DEF ConsumerInv, ByKind, Offsets
    <2>3. IsFiniteSet(1 .. offsets) /\ Cardinality(1 .. offsets) = offsets
      BY <2>2, FS_Interval
    <2>4. QED
      BY <2>1, <2>2, <2>3, FS_Subset
  <1>2. EmitterInv => topic \in Seq(Nat)
    BY DEF EmitterInv, Types
  <1>3. Spec => []EmitterInv
    <2>1. Init => EmitterInv
      BY InitInv DEF Init
    <2>2. QED
      BY <2>1, NextInv, PTL DEF Spec
  <1>4. QED
    BY <1>1, <1>2, <1>3, ConsumerInvariant, PTL

-----------------------------------------------------------------------------
(***************************************************************************)
(* The tree.                                                               *)
(***************************************************************************)
\* A set of numbers has a least one: the intervals that end below its elements are
\* finite, and strict inclusion among finite sets is well founded.
LEMMA Least ==
  ASSUME NEW S \in SUBSET Nat, S # {}
  PROVE  \E m \in S : \A s \in S : m <= s
  <1> DEFINE T == {0 .. s : s \in S}
  <1>1. T \subseteq FiniteSubsetsOf(Nat) /\ T # {}
    <2>1. \A s \in S : 0 .. s \subseteq Nat /\ IsFiniteSet(0 .. s)
      BY FS_Interval
    <2>2. QED
      BY <2>1 DEF FiniteSubsetsOf
  <1> HIDE DEF T
  <1>2. PICK x \in T : \A y \in T : <<y, x>> \notin StrictSubsetOrdering(Nat)
    BY <1>1, WFMin, FS_StrictSubsetOrderingWellFounded
  <1>3. PICK m \in S : x = 0 .. m
    BY DEF T
  <1>4. ASSUME NEW s \in S, ~(m <= s) PROVE FALSE
    <2>1. 0 .. s \in T
      BY DEF T
    <2>2. 0 .. s \subseteq 0 .. m /\ m \in 0 .. m /\ m \notin 0 .. s
      BY <1>4
    <2>3. <<0 .. s, x>> \in StrictSubsetOrdering(Nat)
      BY <1>1, <1>3, <2>1, <2>2 DEF StrictSubsetOrdering, FiniteSubsetsOf
    <2>4. QED
      BY <1>2, <2>1, <2>3
  <1>5. QED
    BY <1>4

\* A level of the tree and the next one; the first n levels.
Grow(rows, level) == {e \in rows : Parent[e] \in level} \cup level
Levels(rows, n, g) == g = [i \in 0 .. n |-> IF i = 0 THEN Roots(rows) ELSE Grow(rows, g[i - 1])]

\* The levels, one by one.
LEMMA LevelsAt ==
  ASSUME NEW rows, NEW n \in Nat, NEW g, Levels(rows, n, g)
  PROVE  /\ g[0] = Roots(rows)
         /\ \A i \in 1 .. n : g[i] = Grow(rows, g[i - 1])
  <1>1. \A i \in 0 .. n : g[i] = IF i = 0 THEN Roots(rows) ELSE Grow(rows, g[i - 1])
    BY DEF Levels
  <1>2. 0 \in 0 .. n /\ \A i \in 1 .. n : i \in 0 .. n /\ i # 0
    OBVIOUS
  <1>3. QED
    BY <1>1, <1>2

\* Two lists of levels agree as far as both go: they would differ first at a level made of
\* the same one before.
LEMMA LevelsAgree ==
  ASSUME NEW rows, NEW n \in Nat, NEW m \in Nat, NEW g, NEW h, Levels(rows, n, g), Levels(rows, m, h)
  PROVE  \A i \in 0 .. n : i <= m => g[i] = h[i]
  <1> DEFINE S == {i \in 0 .. n : i <= m /\ g[i] # h[i]}
  <1>1. SUFFICES ASSUME S # {} PROVE FALSE
    OBVIOUS
  <1>2. PICK k \in S : \A s \in S : k <= s
    <2>1. S \in SUBSET Nat
      OBVIOUS
    <2> HIDE DEF S
    <2>2. QED
      BY <1>1, <2>1, Least
  <1>3. k \in 1 .. n /\ k \in 1 .. m
    <2>1. g[0] = h[0]
      BY LevelsAt
    <2>2. k \in 0 .. n /\ k <= m /\ g[k] # h[k]
      BY <1>2
    <2>3. k # 0
      BY <2>1, <2>2
    <2>4. QED
      BY <2>2, <2>3
  <1>4. g[k - 1] = h[k - 1]
    <2>1. k - 1 \in 0 .. n /\ k - 1 <= m /\ k - 1 \notin S
      BY <1>2, <1>3
    <2>2. QED
      BY <2>1
  <1>5. g[k] = h[k]
    BY <1>3, <1>4, LevelsAt
  <1>6. QED
    BY <1>2, <1>5

\* There are as many levels as one likes: one more than the most there would be.
LEMMA LevelsExist ==
  ASSUME NEW rows, NEW n \in Nat
  PROVE  \E g : Levels(rows, n, g)
  <1> DEFINE S == {k \in Nat : ~ \E g : Levels(rows, k, g)}
  <1>1. SUFFICES ASSUME S # {} PROVE FALSE
    OBVIOUS
  <1>2. PICK k \in S : \A s \in S : k <= s
    BY <1>1, Least
  <1>3. CASE k = 0
    <2> DEFINE g == [i \in 0 .. 0 |-> Roots(rows)]
    <2>1. \A i \in 0 .. 0 : i = 0
      OBVIOUS
    <2>2. g = [i \in 0 .. 0 |-> IF i = 0 THEN Roots(rows) ELSE Grow(rows, g[i - 1])]
      BY <2>1
    <2>3. Levels(rows, 0, g)
      BY <2>2 DEF Levels
    <2>4. QED
      BY <1>2, <1>3, <2>3
  <1>4. CASE k # 0
    <2>1. k - 1 \in Nat /\ k - 1 \notin S
      BY <1>2, <1>4
    <2>2. PICK g : Levels(rows, k - 1, g)
      BY <2>1
    <2> DEFINE h == [i \in 0 .. k |-> IF i = k THEN Grow(rows, g[k - 1]) ELSE g[i]]
    <2>3. ASSUME NEW i \in 0 .. k
          PROVE  h[i] = IF i = 0 THEN Roots(rows) ELSE Grow(rows, h[i - 1])
      <3>1. CASE i = 0
        <4>1. h[0] = g[0]
          BY <1>4, <3>1
        <4>2. QED
          BY <2>1, <2>2, <3>1, <4>1, LevelsAt
      <3>2. CASE i = k
        <4>1. k - 1 \in 0 .. k /\ k - 1 # k /\ k \in 0 .. k
          BY <1>4
        <4>2. h[k] = Grow(rows, g[k - 1]) /\ h[k - 1] = g[k - 1]
          BY <4>1
        <4>3. QED
          BY <1>4, <3>2, <4>2
      <3>3. CASE i # 0 /\ i # k
        <4>1. i \in 1 .. k - 1 /\ i - 1 \in 0 .. k /\ i - 1 # k
          BY <3>3
        <4>2. h[i] = g[i] /\ h[i - 1] = g[i - 1]
          BY <3>3, <4>1
        <4>3. g[i] = Grow(rows, g[i - 1])
          BY <2>1, <2>2, <4>1, LevelsAt
        <4>4. QED
          BY <3>3, <4>2, <4>3
      <3>4. QED
        BY <3>1, <3>2, <3>3
    <2>4. h = [i \in 0 .. k |-> IF i = 0 THEN Roots(rows) ELSE Grow(rows, h[i - 1])]
      BY <2>3
    <2>5. Levels(rows, k, h)
      BY <2>4 DEF Levels
    <2>6. QED
      BY <1>2, <2>5
  <1>5. QED
    BY <1>3, <1>4

\* The recursion of Under has a solution: level n is that of the first n levels.
Solves(rows, level) ==
  level = [n \in Nat |-> IF n = 0 THEN Roots(rows)
                         ELSE {e \in rows : Parent[e] \in level[n - 1]} \cup level[n - 1]]
LEMMA Solved ==
  ASSUME NEW rows
  PROVE  \E level : Solves(rows, level)
  <1> DEFINE first(n) == CHOOSE g : Levels(rows, n, g)
             level == [n \in Nat |-> first(n)[n]]
  <1>1. \A n \in Nat : Levels(rows, n, first(n))
    BY LevelsExist
  <1> HIDE DEF first
  <1>2. ASSUME NEW n \in Nat
        PROVE  level[n] = IF n = 0 THEN Roots(rows)
                          ELSE {e \in rows : Parent[e] \in level[n - 1]} \cup level[n - 1]
    <2>1. CASE n = 0
      BY <1>1, <2>1, LevelsAt
    <2>2. CASE n # 0
      <3>1. n - 1 \in Nat /\ n \in 1 .. n /\ n - 1 \in 0 .. n /\ n - 1 <= n - 1 /\ n - 1 # n
        BY <2>2
      <3>2. first(n)[n] = Grow(rows, first(n)[n - 1])
        BY <1>1, <3>1, LevelsAt
      <3>3. first(n)[n - 1] = first(n - 1)[n - 1]
        BY <1>1, <3>1, LevelsAgree
      <3>4. level[n] = Grow(rows, level[n - 1])
        BY <3>1, <3>2, <3>3
      <3>5. QED
        BY <2>2, <3>4 DEF Grow
    <2>3. QED
      BY <2>1, <2>2
  <1> HIDE DEF level
  <1>3. level = [n \in Nat |-> level[n]]
    BY DEF level
  <1>4. Solves(rows, level)
    BY <1>2, <1>3 DEF Solves
  <1>5. QED
    BY <1>4

\* What Under computes is a level of a solution.
LEMMA UnderIs ==
  ASSUME NEW rows
  PROVE  \E level : Solves(rows, level) /\ Under(rows) = level[Cardinality(rows)]
  <1> DEFINE level == CHOOSE level : Solves(rows, level)
  <1>1. Solves(rows, level)
    BY Solved
  <1>2. Under(rows) = level[Cardinality(rows)]
    BY DEF Under, Solves
  <1>3. QED
    BY <1>1, <1>2

\* Of finitely many spans some are not under a root yet: the one minted first is in the
\* next level.
LEMMA LevelsFill ==
  ASSUME NEW rows \in SUBSET (1 .. MaxEvents), NEW level, Solves(rows, level), NEW n \in Nat
  PROVE  Roots(rows) \subseteq level[n] /\ level[n] \subseteq rows /\ (level[n] = rows \/ Cardinality(level[n]) >= n)
  <1> DEFINE Fills(k) == /\ Roots(rows) \subseteq level[k] /\ level[k] \subseteq rows
                         /\ level[k] = rows \/ Cardinality(level[k]) >= k
             S == {k \in Nat : ~Fills(k)}
  <1>1. SUFFICES ASSUME S # {} PROVE FALSE
    OBVIOUS
  <1>2. PICK k \in S : \A s \in S : k <= s
    BY <1>1, Least
  <1>3. /\ level[0] = Roots(rows)
        /\ \A i \in Nat \ {0} : level[i] = {e \in rows : Parent[e] \in level[i - 1]} \cup level[i - 1]
    <2>1. \A i \in Nat : level[i] = IF i = 0 THEN Roots(rows)
                                    ELSE {e \in rows : Parent[e] \in level[i - 1]} \cup level[i - 1]
      BY DEF Solves
    <2>2. QED
      BY <2>1
  <1>4. IsFiniteSet(rows)
    <2>1. IsFiniteSet(1 .. MaxEvents)
      BY FS_Interval, EmitterAssumption
    <2>2. QED
      BY <2>1, FS_Subset
  <1>5. CASE k = 0
    <2>1. level[0] \subseteq rows
      BY <1>3 DEF Roots
    <2>2. Cardinality(level[0]) \in Nat
      BY <1>4, <2>1, FS_Subset, FS_CardinalityType
    <2>3. QED
      BY <1>2, <1>3, <1>5, <2>1, <2>2
  <1>6. CASE k # 0
    <2> DEFINE X == level[k - 1]
    <2>1. Fills(k - 1) /\ k - 1 \in Nat
      BY <1>2, <1>6
    <2>2. level[k] = {e \in rows : Parent[e] \in X} \cup X
      BY <1>2, <1>3, <1>6
    <2> HIDE DEF X
    <2>3. Roots(rows) \subseteq X /\ X \subseteq rows /\ (X = rows \/ Cardinality(X) >= k - 1)
      BY <2>1 DEF X
    <2>4. Roots(rows) \subseteq level[k] /\ level[k] \subseteq rows /\ X # rows
      BY <1>2, <2>2, <2>3
    <2>5. PICK minted \in [1 .. MaxEvents -> 1 .. MaxEvents] :
            \A e \in 1 .. MaxEvents : Parent[e] # 0 => minted[Parent[e]] < minted[e]
      BY HotAssumption
    <2> DEFINE M == {minted[e] : e \in rows \ X}
    <2>6. M \in SUBSET Nat /\ M # {}
      <3>1. \E e \in rows : e \notin X
        BY <2>3, <2>4
      <3>2. \A e \in rows : minted[e] \in Nat
        BY <2>5
      <3>3. QED
        BY <3>1, <3>2
    <2> HIDE DEF M
    <2>7. PICK a \in M : \A b \in M : a <= b
      BY <2>6, Least
    <2>8. PICK e \in rows \ X : a = minted[e]
      BY DEF M
    <2>9. e \in level[k]
      <3>1. Parent[e] \in rows
        BY <2>3, <2>8 DEF Roots
      <3>2. e \in 1 .. MaxEvents /\ Parent[e] \in 1 .. MaxEvents
        BY <3>1
      <3>3. Parent[e] # 0
        BY <3>2, EmitterAssumption
      <3>4. minted[Parent[e]] \in Nat /\ minted[e] \in Nat
        BY <3>2
      <3>5. minted[Parent[e]] < minted[e]
        BY <2>5, <3>2, <3>3
      <3>6. minted[Parent[e]] \notin M
        BY <2>7, <2>8, <3>4, <3>5
      <3>7. QED
        BY <2>2, <3>1, <3>6 DEF M
    <2>10. IsFiniteSet(X) /\ IsFiniteSet(level[k]) /\ X \cup {e} \subseteq level[k]
      BY <1>4, <2>2, <2>3, <2>4, <2>9, FS_Subset
    <2>11. Cardinality(X \cup {e}) = Cardinality(X) + 1 /\ Cardinality(X) \in Nat
      BY <2>8, <2>10, FS_AddElement, FS_CardinalityType
    <2>12. Cardinality(X \cup {e}) <= Cardinality(level[k]) /\ Cardinality(level[k]) \in Nat
      BY <2>10, FS_Subset, FS_CardinalityType
    <2>13. Cardinality(level[k]) >= k
      BY <2>3, <2>4, <2>11, <2>12
    <2>14. QED
      BY <1>2, <2>4, <2>13
  <1>7. QED
    BY <1>5, <1>6

\* The levels that are as many as the rows hold them all.
LEMMA TreeHolds ==
  ASSUME NEW rows \in SUBSET (1 .. MaxEvents)
  PROVE  Under(rows) = rows
  <1>1. PICK level : Solves(rows, level) /\ Under(rows) = level[Cardinality(rows)]
    BY UnderIs
  <1>2. IsFiniteSet(rows) /\ Cardinality(rows) \in Nat
    <2>1. IsFiniteSet(1 .. MaxEvents)
      BY FS_Interval, EmitterAssumption
    <2>2. IsFiniteSet(rows)
      BY <2>1, FS_Subset
    <2>3. QED
      BY <2>2, FS_CardinalityType
  <1>3. /\ Under(rows) \subseteq rows
        /\ Under(rows) = rows \/ Cardinality(Under(rows)) >= Cardinality(rows)
    BY <1>1, <1>2, LevelsFill
  <1>4. Cardinality(Under(rows)) \in Nat /\ Cardinality(Under(rows)) <= Cardinality(rows)
    BY <1>2, <1>3, FS_Subset, FS_CardinalityType
  <1>5. QED
    BY <1>2, <1>3, <1>4, FS_Subset

-----------------------------------------------------------------------------
\* Only the events there are get into a queue or the topic.
Numbers == 0 .. MaxEvents
Numbered ==
  /\ emitted \in Numbers /\ topic \in Seq(Numbers)
  /\ \A t \in Threads : thread[t].event \in Numbers
  /\ \A p \in Producers : producers[p].queue \in Seq(Numbers)

\* One thread moves on, with the event it has or none.
LEMMA ThreadNumbered ==
  ASSUME Types, Numbered, NEW t \in Threads, NEW next, next.event \in Numbers,
         thread' = [thread EXCEPT ![t] = next]
  PROVE  \A u \in Threads : thread'[u].event \in Numbers
  BY DEF Types, Numbered

\* One queue changes.
LEMMA QueueNumbered ==
  ASSUME Types, Numbered, NEW p \in Producers, NEW q \in Seq(Numbers),
         producers' = [producers EXCEPT ![p].queue = q]
  PROVE  \A o \in Producers' : producers'[o].queue \in Seq(Numbers)
  <1>1. producers \in Seq(Producer)
    BY DEF Types
  <1>2. Len(producers') = Len(producers) /\ \A o \in Producers : producers'[o].queue = IF o = p THEN q ELSE producers[o].queue
    BY <1>1 DEF Producers, Producer
  <1>3. QED
    BY <1>2 DEF Numbered, Producers

\* Every step of the emitter and of the consumer keeps to the events there are.
LEMMA NumberedNext == EmitterInv /\ Numbered /\ [Next]_vars => Numbered'
  <1> SUFFICES ASSUME EmitterInv, Numbered, [Next]_vars PROVE Numbered'
    OBVIOUS
  <1>0. /\ Types /\ 0 \in Numbers
        /\ emitted \in Numbers /\ topic \in Seq(Numbers)
        /\ \A t \in Threads : thread[t].event \in Numbers
        /\ \A p \in Producers : producers[p].queue \in Seq(Numbers)
    BY EmitterAssumption DEF EmitterInv, Numbered, Numbers
  <1>1. ASSUME NEW t \in Threads, BeginEmit(t) PROVE Numbered'
    <2>1. emitted + 1 \in Numbers
      BY <1>0, <1>1, EmitterAssumption DEF BeginEmit, Numbers
    <2>2. \A u \in Threads : thread'[u].event \in Numbers
      BY <1>0, <1>1, <2>1 DEF BeginEmit, Types
    <2>3. QED
      BY <1>0, <1>1, <2>1, <2>2 DEF BeginEmit, Numbered, Producers
  <1>2. ASSUME NEW t \in Threads, ConfigureLazily(t) \/ ReadConfig(t) PROVE Numbered'
    <2> DEFINE got == [thread[t] EXCEPT !.pc = "get"]
               read == [thread[t] EXCEPT !.pc = "lock", !.config = config]
    <2>1. thread[t] \in Step /\ got.event = thread[t].event /\ read.event = thread[t].event
      BY <1>0 DEF Types, Step
    <2>2. thread' = [thread EXCEPT ![t] = got] \/ thread' = [thread EXCEPT ![t] = read]
      BY <1>0, <1>2, <2>1 DEF ConfigureLazily, ReadConfig, Types, Step
    <2> HIDE DEF got, read
    <2>3. \A u \in Threads : thread'[u].event \in Numbers
      BY <1>0, <2>1, <2>2, ThreadNumbered
    <2>4. QED
      BY <1>0, <1>2, <2>3 DEF ConfigureLazily, ReadConfig, Numbered, Producers
  <1>3. ASSUME NEW t \in Threads, GetKafka(t) PROVE Numbered'
    <2> DEFINE with(p) == [thread[t] EXCEPT !.pc = "produce", !.producer = p]
    <2>1. thread[t] \in Step /\ \A p : with(p).event = thread[t].event
      BY <1>0 DEF Types, Step
    <2>2. Idle.event = 0 /\ (thread' = [thread EXCEPT ![t] = Idle] \/ \E p : thread' = [thread EXCEPT ![t] = with(p)])
      BY <1>0, <1>3, <2>1 DEF GetKafka, Types, Step, Idle
    <2> HIDE DEF with
    <2>3. \A u \in Threads : thread'[u].event \in Numbers
      BY <1>0, <2>1, <2>2, ThreadNumbered
    <2>4. CASE producers' = producers
      BY <1>0, <1>3, <2>3, <2>4 DEF GetKafka, Numbered, Producers
    <2>5. CASE producers' = Append(producers, [config |-> thread[t].config, queue |-> <<>>])
      <3>1. \A p \in Producers' : producers'[p].queue \in Seq(Numbers)
        BY <1>0, <2>5 DEF Types, Producers
      <3>2. QED
        BY <1>0, <1>3, <2>3, <3>1 DEF GetKafka, Numbered
    <2>6. QED
      BY <1>3, <2>4, <2>5 DEF GetKafka
  <1>4. ASSUME NEW t \in Threads, Produce(t) PROVE Numbered'
    <2> DEFINE p == thread[t].producer
    <2>1. \A u \in Threads : thread'[u].event \in Numbers
      BY <1>0, <1>4 DEF Produce, Types, Idle
    <2>2. CASE producers' = producers
      BY <1>0, <1>4, <2>1, <2>2 DEF Produce, Numbered, Producers
    <2>3. CASE producers' = [producers EXCEPT ![p].queue = Append(@, thread[t].event)]
      <3>1. p \in Producers
        BY <1>4 DEF Produce, EmitterInv, Held, Producers
      <3>2. Append(producers[p].queue, thread[t].event) \in Seq(Numbers)
        BY <1>0, <3>1
      <3>3. producers' = [producers EXCEPT ![p].queue = Append(producers[p].queue, thread[t].event)]
        BY <2>3
      <3>4. QED
        BY <1>0, <1>4, <2>1, <3>1, <3>2, <3>3, QueueNumbered DEF Produce, Numbered
    <2>4. QED
      BY <1>4, <2>2, <2>3 DEF Produce
  <1>5. CASE Warmup
    <2>1. ASSUME producers' = <<[config |-> 1, queue |-> <<>>]>>, NEW p \in Producers'
          PROVE  producers'[p].queue \in Seq(Numbers)
      <3>1. p = 1
        BY <2>1 DEF Producers
      <3>2. producers'[1].queue = <<>>
        BY <2>1
      <3>3. QED
        BY <3>1, <3>2
    <2>2. \A p \in Producers' : producers'[p].queue \in Seq(Numbers)
      BY <1>0, <1>5, <2>1 DEF Warmup, Producers
    <2>3. QED
      BY <1>0, <1>5, <2>2 DEF Warmup, Numbered
  <1>6. CASE ConfigureAgain
    BY <1>0, <1>6 DEF ConfigureAgain, Numbered, Producers
  <1>7. ASSUME NEW p \in Producers, Deliver(p) PROVE Numbered'
    <2>1. /\ producers[p].queue \in Seq(Numbers) /\ producers[p].queue # <<>>
          /\ producers' = [producers EXCEPT ![p].queue = Tail(producers[p].queue)]
      BY <1>0, <1>7 DEF Deliver
    <2>2. Tail(producers[p].queue) \in Seq(Numbers) /\ Head(producers[p].queue) \in Numbers
      BY <2>1
    <2>3. \A o \in Producers' : producers'[o].queue \in Seq(Numbers)
      BY <1>0, <2>1, <2>2, QueueNumbered
    <2>4. topic' \in Seq(Numbers)
      BY <1>0, <1>7, <2>2 DEF Deliver
    <2>5. QED
      BY <1>0, <1>7, <2>3, <2>4 DEF Deliver, Numbered
  <1>8. ASSUME NEW p \in Producers, Destroy(p) PROVE Numbered'
    <2>1. <<>> \in Seq(Numbers) /\ producers' = [producers EXCEPT ![p].queue = <<>>]
      BY <1>8 DEF Destroy
    <2>2. \A o \in Producers' : producers'[o].queue \in Seq(Numbers)
      BY <1>0, <2>1, QueueNumbered
    <2>3. QED
      BY <1>0, <1>8, <2>2 DEF Destroy, Numbered
  <1>9. CASE Exit
    <2>1. producers' = [p \in Producers |-> [producers[p] EXCEPT !.queue = <<>>]] /\ producers \in Seq(Producer)
      BY <1>0, <1>9 DEF Exit, Types
    <2>2. Len(producers') = Len(producers)
      BY <2>1 DEF Producers
    <2>3. ASSUME NEW p \in Producers PROVE producers'[p].queue = <<>>
      <3>1. producers[p] \in Producer
        BY <2>1 DEF Producers
      <3>2. producers'[p] = [producers[p] EXCEPT !.queue = <<>>]
        BY <2>1
      <3>3. QED
        BY <3>1, <3>2 DEF Producer
    <2>4. \A p \in Producers' : producers'[p].queue \in Seq(Numbers)
      <3>1. Producers' = Producers /\ <<>> \in Seq(Numbers)
        BY <2>2 DEF Producers
      <3>2. QED
        BY <2>3, <3>1
    <2>5. QED
      BY <1>0, <1>9, <2>4 DEF Exit, Numbered
  <1>10. CASE UNCHANGED emitterVars /\ (\/ Poison \/ Bootstrap \/ Create \/ Drop \/ Killed
                                       \/ Consume \/ FailBlock \/ Merge \/ Expire)
    <2>1. topic' = topic \/ topic' = Append(topic, 0)
      BY <1>10 DEF Poison, Bootstrap, Create, Drop, Killed, Consume, Poll, InsertInto, Commit,
                   FailBlock, Merge, Expire
    <2>2. topic' \in Seq(Numbers)
      BY <1>0, <2>1
    <2>3. QED
      BY <1>0, <1>10, <2>2 DEF emitterVars, Numbered, Producers
  <1>11. CASE UNCHANGED vars
    BY <1>0, <1>11 DEF vars, emitterVars, Numbered, Producers
  <1>12. QED
    BY <1>1, <1>2, <1>3, <1>4, <1>5, <1>6, <1>7, <1>8, <1>9, <1>10, <1>11 DEF Next, EmitterNext

\* "Silently dropping those spans would under-report a trace's cost while looking complete":
\* every span get_trace reads is in the tree it builds, for any trace whose spans were minted
\* after their parents, whichever of them arrived, expired or were cut off.
THEOREM TreesWhole == Spec => []TraceWhole
  <1>1. ConsumerInv /\ Numbered => TraceWhole
    <2> SUFFICES ASSUME ConsumerInv, Numbered, NEW rows \in Reads PROVE Under(rows) = rows
      BY DEF TraceWhole
    <2>1. \A o \in DOMAIN rt : topic[o] \in Numbers
      BY DEF ConsumerInv, ByKind, Offsets, Numbered
    <2>2. rows \subseteq 1 .. MaxEvents
      BY <2>1, EmitterAssumption DEF Reads, Spans, Numbers
    <2>3. QED
      BY <2>2, TreeHolds
  <1>2. Init => EmitterInv /\ Numbered
    <2>1. ASSUME Init PROVE Numbered
      BY <2>1, EmitterAssumption DEF Init, EmitterInit, HotInit, Numbered, Numbers, Idle, Producers
    <2>2. QED
      BY <2>1, InitInv DEF Init
  <1>3. EmitterInv /\ Numbered /\ [Next]_vars => (EmitterInv /\ Numbered)'
    BY NextInv, NumberedNext
  <1>4. QED
    BY <1>1, <1>2, <1>3, ConsumerInvariant, PTL DEF Spec
=============================================================================
