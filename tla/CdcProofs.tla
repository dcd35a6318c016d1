------------------------------ MODULE CdcProofs ------------------------------
(***************************************************************************)
(* Theorems about CdcLand, for any keys, partitions, landers, batch size   *)
(* and bounds.                                                             *)
(***************************************************************************)
EXTENDS CdcLand, FiniteSetTheorems, SequenceTheorems, WellFoundedInduction, TLAPS

LEMMA AppendFacts ==
  ASSUME NEW S, NEW s \in Seq(S), NEW e \in S
  PROVE  /\ Append(s, e) \in Seq(S)
         /\ Len(s) \in Nat /\ Len(Append(s, e)) = Len(s) + 1
         /\ \A i \in 1 .. Len(s) : Append(s, e)[i] = s[i]
         /\ Append(s, e)[Len(s) + 1] = e
  OBVIOUS

LEMMA ConcatFacts ==
  ASSUME NEW S, NEW s \in Seq(S), NEW t \in Seq(S)
  PROVE  /\ s \o t \in Seq(S)
         /\ Len(s) \in Nat /\ Len(t) \in Nat /\ Len(s \o t) = Len(s) + Len(t)
         /\ \A i \in 1 .. Len(s) : (s \o t)[i] = s[i]
         /\ \A i \in 1 .. Len(t) : (s \o t)[Len(s) + i] = t[i]
  <1>1. Len(s) \in Nat /\ Len(t) \in Nat
    OBVIOUS
  <1>2. /\ s \o t \in Seq(S)
        /\ Len(s \o t) = Len(s) + Len(t)
        /\ \A i \in 1 .. Len(s) + Len(t) : (s \o t)[i] = IF i <= Len(s) THEN s[i] ELSE t[i - Len(s)]
    BY ConcatProperties
  <1>3. QED
    BY <1>1, <1>2

\* A topic only grows, within one incarnation.
Grows(new, old) ==
  \A p \in Partitions : /\ Len(old[p]) <= Len(new[p])
                        /\ \A i \in 1 .. Len(old[p]) : new[p][i] = old[p][i]

-----------------------------------------------------------------------------
(***************************************************************************)
(* What the steps of the connector and of the lander do.                   *)
(***************************************************************************)
ReadRecord(id) == [id |-> id, op |-> "r", lsn |-> Len(wal), image |-> db[id]]

\* A snapshot appends one read record per row, each of a row that exists.
LEMMA RegisterEffect ==
  ASSUME IsFiniteSet(Ids), TypeOK, Register
  PROVE  /\ topic' \in [Partitions -> Seq(Record)]
         /\ Grows(topic', topic)
         /\ \A p \in Partitions : \A i \in Len(topic[p]) + 1 .. Len(topic'[p]) :
              \E id \in Ids : db[id] # 0 /\ topic'[p][i] = ReadRecord(id)
         /\ connector' \in [on : BOOLEAN, captured : Nat, base : Nat]
         /\ missed' \subseteq Ids
         /\ UNCHANGED <<wal, db, group, table, land, runs, upsets>>
  <1> DEFINE rows(p) == {id \in Ids : PartitionOf[id] = p /\ db[id] # 0}
  <1>1. PICK order \in [Partitions -> UNION {[1 .. Cardinality(rows(p)) -> rows(p)] : p \in Partitions}] :
           /\ \A p \in Partitions : order[p] \in [1 .. Cardinality(rows(p)) -> rows(p)]
           /\ topic' = [p \in Partitions |->
                topic[p] \o [i \in 1 .. Cardinality(rows(p)) |-> ReadRecord(order[p][i])]]
    BY DEF Register, ReadRecord
  <1> DEFINE added(p) == [i \in 1 .. Cardinality(rows(p)) |-> ReadRecord(order[p][i])]
  <1>2. ASSUME NEW p \in Partitions
        PROVE  /\ added(p) \in Seq(Record)
               /\ \A i \in 1 .. Len(added(p)) : \E id \in Ids : db[id] # 0 /\ added(p)[i] = ReadRecord(id)
    <2>1. Cardinality(rows(p)) \in Nat
      BY FS_Subset, FS_CardinalityType
    <2>2. \A i \in 1 .. Cardinality(rows(p)) : order[p][i] \in rows(p)
      BY <1>1
    <2>3. \A id \in Ids : ReadRecord(id) \in Record
      BY DEF TypeOK, ReadRecord, Record, RowOps
    <2>4. \A i \in 1 .. Cardinality(rows(p)) : order[p][i] \in Ids /\ db[order[p][i]] # 0
      BY <2>2
    <2>5. \A i \in 1 .. Cardinality(rows(p)) : added(p)[i] = ReadRecord(order[p][i])
      OBVIOUS
    <2>6. added(p) \in [1 .. Cardinality(rows(p)) -> Record]
      BY <2>3, <2>4
    <2> HIDE DEF added, rows
    <2>7. added(p) \in Seq(Record) /\ Len(added(p)) = Cardinality(rows(p))
      <3> DEFINE n == Cardinality(rows(p))
                 s == added(p)
      <3>1. n \in Nat /\ s \in [1 .. n -> Record]
        BY <2>1, <2>6
      <3> HIDE DEF n, s
      <3>2. s \in Seq(Record) /\ Len(s) = n
        BY <3>1
      <3>3. QED
        BY <3>2 DEF n, s
    <2>8. QED
      BY <2>4, <2>5, <2>7
  <1>3. ASSUME NEW p \in Partitions
        PROVE  /\ topic'[p] = topic[p] \o added(p)
               /\ topic[p] \in Seq(Record)
    BY <1>1 DEF TypeOK
  <1> HIDE DEF added, rows
  <1>4. ASSUME NEW p \in Partitions
        PROVE  /\ topic'[p] \in Seq(Record)
               /\ Len(topic[p]) <= Len(topic'[p])
               /\ \A i \in 1 .. Len(topic[p]) : topic'[p][i] = topic[p][i]
               /\ \A i \in Len(topic[p]) + 1 .. Len(topic'[p]) :
                    \E id \in Ids : db[id] # 0 /\ topic'[p][i] = ReadRecord(id)
    <2>1. /\ topic[p] \o added(p) \in Seq(Record)
          /\ Len(topic[p]) \in Nat /\ Len(added(p)) \in Nat
          /\ Len(topic[p] \o added(p)) = Len(topic[p]) + Len(added(p))
          /\ \A i \in 1 .. Len(topic[p]) : (topic[p] \o added(p))[i] = topic[p][i]
          /\ \A i \in 1 .. Len(added(p)) : (topic[p] \o added(p))[Len(topic[p]) + i] = added(p)[i]
      BY <1>2, <1>3, ConcatFacts
    <2>2. ASSUME NEW i \in Len(topic[p]) + 1 .. Len(topic'[p])
          PROVE  \E id \in Ids : db[id] # 0 /\ topic'[p][i] = ReadRecord(id)
      <3>1. i - Len(topic[p]) \in 1 .. Len(added(p)) /\ Len(topic[p]) + (i - Len(topic[p])) = i
        BY <1>3, <2>1
      <3>2. topic'[p][i] = added(p)[i - Len(topic[p])]
        BY <1>3, <2>1, <3>1
      <3>3. QED
        BY <1>2, <3>1, <3>2
    <2>3. topic'[p] = topic[p] \o added(p)
      BY <1>3
    <2>4. /\ topic'[p] \in Seq(Record)
          /\ Len(topic[p]) <= Len(topic'[p])
          /\ \A i \in 1 .. Len(topic[p]) : topic'[p][i] = topic[p][i]
      BY <2>1, <2>3
    <2>5. QED
      BY <2>2, <2>4
  <1>5. topic' \in [Partitions -> Seq(Record)]
    BY <1>1, <1>4
  <1>6. missed' \subseteq Ids
    <2>1. \A k \in 1 .. Len(wal) : wal[k] \in Change
      BY DEF TypeOK
    <2>2. \A k \in 1 .. Len(wal) : wal[k].id \in Ids
      BY <2>1 DEF Change
    <2>3. connector.captured \in Nat /\ missed \subseteq Ids
      BY DEF TypeOK
    <2>4. QED
      BY <2>2, <2>3 DEF Register
  <1>7. connector' \in [on : BOOLEAN, captured : Nat, base : Nat]
    <2>1. connector' = [on |-> TRUE, captured |-> Len(wal), base |-> Len(wal)] /\ Len(wal) \in Nat
      BY DEF Register, TypeOK
    <2>2. QED
      BY <2>1
  <1>8. UNCHANGED <<wal, db, group, table, land, runs, upsets>>
    BY DEF Register
  <1>9. QED
    BY <1>4, <1>5, <1>6, <1>7, <1>8 DEF Grows

\* Capturing appends the record of one change, and for a delete a tombstone.
LEMMA CaptureEffect ==
  ASSUME TypeOK, Capture
  PROVE  /\ topic' \in [Partitions -> Seq(Record)]
         /\ Grows(topic', topic)
         /\ \A p \in Partitions : \A i \in Len(topic[p]) + 1 .. Len(topic'[p]) :
              \/ topic'[p][i].op = "tombstone"
              \/ \E k \in 1 .. Len(wal) :
                   topic'[p][i] = [id |-> wal[k].id, op |-> wal[k].op, lsn |-> k - 1, image |-> wal[k].image]
         /\ connector' \in [on : BOOLEAN, captured : Nat, base : Nat]
         /\ UNCHANGED <<wal, db, missed, group, table, land, runs, upsets>>
  <1> DEFINE k == connector.captured + 1
             c == wal[k]
             q == PartitionOf[c.id]
             record == [id |-> c.id, op |-> c.op, lsn |-> k - 1, image |-> c.image]
             stone == [record EXCEPT !.op = "tombstone"]
             more == IF c.op = "d" THEN <<record, stone>> ELSE <<record>>
  <1>1. k \in 1 .. Len(wal) /\ connector.captured \in Nat
    BY DEF Capture, TypeOK
  <1>2. c \in Change
    BY <1>1 DEF TypeOK
  <1>3. q \in Partitions /\ record \in Record /\ stone \in Record
    <2>1. c.id \in Ids /\ c.op \in {"c", "u", "d"} /\ c.image \in Nat
      BY <1>2 DEF Change
    <2>2. k - 1 \in Nat
      BY <1>1
    <2>3. record \in Record
      BY <2>1, <2>2 DEF Record, RowOps
    <2>4. stone \in Record
      BY <2>3 DEF Record
    <2>5. QED
      BY <2>1, <2>3, <2>4, CdcAssumption
  <1>4. topic' = [topic EXCEPT ![q] = @ \o more]
    BY DEF Capture
  <1>5. more \in Seq(Record) /\ Len(more) \in Nat
        /\ \A i \in 1 .. Len(more) : more[i] = record \/ more[i] = stone
    <2>1. CASE c.op = "d"
      BY <1>3, <2>1
    <2>2. CASE c.op # "d"
      BY <1>3, <2>2
    <2>3. QED
      BY <2>1, <2>2
  <1>6. stone.op = "tombstone"
    BY <1>3
  <1> HIDE DEF more, stone
  <1>7. ASSUME NEW p \in Partitions
        PROVE  /\ topic'[p] \in Seq(Record)
               /\ Len(topic[p]) <= Len(topic'[p])
               /\ \A i \in 1 .. Len(topic[p]) : topic'[p][i] = topic[p][i]
               /\ \A i \in Len(topic[p]) + 1 .. Len(topic'[p]) : topic'[p][i] = record \/ topic'[p][i] = stone
    <2>1. topic[p] \in Seq(Record) /\ Len(topic[p]) \in Nat
      BY DEF TypeOK
    <2>2. CASE p = q
      <3>1. topic'[p] = topic[p] \o more
        BY <1>3, <1>4, <2>2 DEF TypeOK
      <3>2. /\ topic[p] \o more \in Seq(Record)
            /\ Len(topic[p] \o more) = Len(topic[p]) + Len(more)
            /\ \A i \in 1 .. Len(topic[p]) : (topic[p] \o more)[i] = topic[p][i]
            /\ \A i \in 1 .. Len(more) : (topic[p] \o more)[Len(topic[p]) + i] = more[i]
        BY <1>5, <2>1, ConcatFacts
      <3>3. ASSUME NEW i \in Len(topic[p]) + 1 .. Len(topic'[p])
            PROVE  topic'[p][i] = record \/ topic'[p][i] = stone
        <4>1. i - Len(topic[p]) \in 1 .. Len(more) /\ Len(topic[p]) + (i - Len(topic[p])) = i
          BY <1>5, <2>1, <3>1, <3>2
        <4>2. topic'[p][i] = more[i - Len(topic[p])]
          BY <3>1, <3>2, <4>1
        <4>3. QED
          BY <1>5, <4>1, <4>2
      <3>4. QED
        BY <1>5, <2>1, <3>1, <3>2, <3>3
    <2>3. CASE p # q
      BY <1>3, <1>4, <2>1, <2>3 DEF TypeOK
    <2>4. QED
      BY <2>2, <2>3
  <1>8. topic' \in [Partitions -> Seq(Record)]
    BY <1>4, <1>7 DEF TypeOK
  <1>9. connector' \in [on : BOOLEAN, captured : Nat, base : Nat]
    <2>1. /\ connector \in [on : BOOLEAN, captured : Nat, base : Nat]
          /\ connector' = [connector EXCEPT !.captured = k] /\ k \in Nat
      BY <1>1 DEF Capture, TypeOK
    <2>2. QED
      BY <2>1
  <1>10. UNCHANGED <<wal, db, missed, group, table, land, runs, upsets>>
    BY DEF Capture
  <1>11. QED
    BY <1>1, <1>6, <1>7, <1>8, <1>9, <1>10 DEF Grows

\* The lander's steps replace its own run by another well-typed run.
RunStep(l, run) == run \in Run /\ land' = [land EXCEPT ![l] = run]

LEMMA RunStepType ==
  ASSUME land \in [Landers -> Run], NEW l \in Landers, NEW run, RunStep(l, run)
  PROVE  /\ land' \in [Landers -> Run] /\ land'[l] = run
         /\ \A m \in Landers \ {l} : land'[m] = land[m]
  BY DEF RunStep

LEMMA NoRunType == NoRun \in Run
  BY DEF NoRun, Run, Phases

LEMMA CountEffect ==
  ASSUME TypeOK, NEW l \in Landers, Count(l)
  PROVE  \E run \in Run :
           /\ RunStep(l, run) /\ run.phase = "counted" /\ run.existing = (table # {})
           /\ run.rows = {}
           /\ runs' \in Nat /\ UNCHANGED <<wal, db, connector, missed, topic, group, table, upsets>>
  <1> DEFINE run == [NoRun EXCEPT !.phase = "counted",
                                  !.existing = (table # {})]
  <1>1. runs + 1 \in Nat
    BY CdcAssumption DEF TypeOK
  <1>2. NoRun \in Run /\ NoRun.rows = {} /\ (table # {}) \in BOOLEAN
    BY NoRunType DEF NoRun
  <1> HIDE DEF NoRun
  <1>3. run \in Run /\ run.phase = "counted" /\ run.existing = (table # {}) /\ run.rows = {}
    BY <1>1, <1>2 DEF Run, Phases
  <1> HIDE DEF run
  <1>4. land' = [land EXCEPT ![l] = run] /\ runs' = runs + 1
        /\ UNCHANGED <<wal, db, connector, missed, topic, group, table, upsets>>
    BY DEF Count, run
  <1>5. QED
    BY <1>1, <1>3, <1>4 DEF RunStep

LEMMA GuardEffect ==
  ASSUME TypeOK, NEW l \in Landers, Guard(l)
  PROVE  \E phase \in {"absent", "refused", "admitted"} :
           /\ RunStep(l, [land[l] EXCEPT !.phase = phase])
           /\ land[l].phase = "counted"
           /\ phase = "admitted" => ~Truncating(l)
           /\ UNCHANGED <<wal, db, connector, missed, topic, group, table, runs, upsets>>
  <1> DEFINE phase == IF \A p \in Partitions : topic[p] = <<>> THEN "absent"
                      ELSE IF Truncating(l) THEN "refused" ELSE "admitted"
  <1>1. land[l] \in Run /\ land \in [Landers -> Run]
    BY DEF TypeOK
  <1>2. phase \in {"absent", "refused", "admitted"} /\ (phase = "admitted" => ~Truncating(l))
    OBVIOUS
  <1>3. land' = [land EXCEPT ![l].phase = phase] /\ land[l].phase = "counted"
        /\ UNCHANGED <<wal, db, connector, missed, topic, group, table, runs, upsets>>
    BY DEF Guard
  <1> HIDE DEF phase
  <1>4. [land[l] EXCEPT !.phase = phase] \in Run
    BY <1>1, <1>2 DEF Run, Phases
  <1>5. land' = [land EXCEPT ![l] = [land[l] EXCEPT !.phase = phase]]
    BY <1>3
  <1>6. QED
    BY <1>2, <1>3, <1>4, <1>5 DEF RunStep

LEMMA AssignEffect ==
  ASSUME TypeOK, NEW l \in Landers, Assign(l)
  PROVE  \E run \in Run :
           /\ RunStep(l, run) /\ land[l].phase = "admitted"
           /\ run.phase = "polling" /\ run.rows = land[l].rows
           /\ \A p \in Partitions : run.pos[p] = StartOffset(p)
           /\ UNCHANGED <<wal, db, connector, missed, topic, group, table, runs, upsets>>
  <1> DEFINE start == [p \in Partitions |-> StartOffset(p)]
             run == [land[l] EXCEPT !.phase = "polling", !.ingest = runs,
                                    !.pos = start, !.kept = start]
  <1>1. land[l] \in Run /\ land \in [Landers -> Run] /\ runs \in Nat
    BY DEF TypeOK
  <1>2. start \in [Partitions -> Nat]
    BY DEF TypeOK, StartOffset
  <1>3. land' = [land EXCEPT ![l].phase = "polling", ![l].ingest = runs,
                             ![l].pos = start, ![l].kept = start]
        /\ land[l].phase = "admitted"
        /\ UNCHANGED <<wal, db, connector, missed, topic, group, table, runs, upsets>>
    BY DEF Assign
  <1> HIDE DEF start
  <1>4. run \in Run /\ run.phase = "polling" /\ run.rows = land[l].rows /\ run.pos = start
    BY <1>1, <1>2 DEF Run, Phases
  <1>5. land' = [land EXCEPT ![l] = run]
    BY <1>1, <1>3
  <1>6. QED
    BY <1>3, <1>4, <1>5 DEF RunStep, start

LEMMA PollEffect ==
  ASSUME TypeOK, NEW l \in Landers, NEW p \in Partitions, Poll(l, p)
  PROVE  LET record == topic[p][land[l].pos[p] + 1]
         IN  /\ land[l].phase = "polling"
             /\ land[l].pos[p] + 1 \in 1 .. Len(topic[p])
             /\ \E run \in Run :
                  /\ RunStep(l, run) /\ run.phase \in {"polling", "insert"}
                  /\ run.pos = [land[l].pos EXCEPT ![p] = @ + 1]
                  /\ run.rows = IF Landable(record)
                                THEN land[l].rows \cup {RowOf(record, p, land[l].pos[p], land[l].ingest)}
                                ELSE land[l].rows
             /\ UNCHANGED <<wal, db, connector, missed, topic, group, table, runs, upsets>>
  <1> DEFINE old == land[l]
             record == topic[p][old.pos[p] + 1]
             rows == IF Landable(record) THEN old.rows \cup {RowOf(record, p, old.pos[p], old.ingest)}
                     ELSE old.rows
             phase == IF Cardinality(rows) >= Batch /\ rows # old.rows THEN "insert" ELSE old.phase
             run == [old EXCEPT !.pos[p] = @ + 1, !.any = TRUE, !.rows = rows, !.phase = phase]
  <1>1. old \in Run /\ land \in [Landers -> Run] /\ topic[p] \in Seq(Record)
    BY DEF TypeOK
  <1>2. old.pos \in [Partitions -> Nat] /\ old.ingest \in Nat /\ old.rows \in SUBSET Row
    BY <1>1 DEF Run
  <1>3. old.phase = "polling" /\ old.pos[p] < Len(topic[p]) /\ land' = [land EXCEPT ![l] = run]
        /\ UNCHANGED <<wal, db, connector, missed, topic, group, table, runs, upsets>>
    BY DEF Poll
  <1>4. old.pos[p] + 1 \in 1 .. Len(topic[p])
    BY <1>1, <1>2, <1>3
  <1>5. record \in Record
    BY <1>1, <1>4
  <1>6. Landable(record) => RowOf(record, p, old.pos[p], old.ingest) \in Row
    BY <1>2, <1>5 DEF Record, RowOf, Row, Landable
  <1>7. rows \in SUBSET Row
    BY <1>2, <1>6
  <1>8. phase \in {"polling", "insert"}
    BY <1>3
  <1>9. [old.pos EXCEPT ![p] = @ + 1] \in [Partitions -> Nat]
    BY <1>2
  <1> HIDE DEF rows, phase, record
  <1>10. run.phase = phase /\ run.rows = rows /\ run.pos = [old.pos EXCEPT ![p] = @ + 1]
    BY <1>1 DEF Run
  <1>11. run \in Run
    BY <1>1, <1>7, <1>8, <1>9 DEF Run, Phases
  <1> HIDE DEF run
  <1>12. RunStep(l, run)
    BY <1>3, <1>11 DEF RunStep, run
  <1>13. QED
    BY <1>3, <1>4, <1>8, <1>10, <1>11, <1>12 DEF rows, record

LEMMA DrainedEffect ==
  ASSUME TypeOK, NEW l \in Landers, Drained(l)
  PROVE  /\ land[l].phase = "polling"
         /\ \E run \in Run :
              /\ RunStep(l, run)
              /\ \/ run = NoRun
                 \/ run.phase = "insert" /\ run.rows = land[l].rows /\ run.pos = land[l].pos
                 \/ run.phase = "commit" /\ run.rows = {} /\ land[l].rows = {} /\ run.pos = land[l].pos
         /\ UNCHANGED <<wal, db, connector, missed, topic, group, table, runs, upsets>>
  <1> DEFINE old == land[l]
             full == [old EXCEPT !.phase = "insert", !.last = TRUE]
             done == [old EXCEPT !.phase = "commit", !.last = TRUE]
  <1>1. old \in Run /\ land \in [Landers -> Run]
    BY DEF TypeOK
  <1>2. full \in Run /\ full.phase = "insert" /\ full.rows = old.rows /\ full.pos = old.pos
    BY <1>1 DEF Run, Phases
  <1>3. done \in Run /\ done.phase = "commit" /\ done.rows = old.rows /\ done.pos = old.pos
    BY <1>1 DEF Run, Phases
  <1>4. /\ old.phase = "polling"
        /\ land' = [land EXCEPT ![l] = IF old.rows # {} THEN full ELSE IF old.any THEN done ELSE NoRun]
        /\ UNCHANGED <<wal, db, connector, missed, topic, group, table, runs, upsets>>
    BY DEF Drained
  <1> HIDE DEF full, done
  <1>5. QED
    BY <1>2, <1>3, <1>4, NoRunType DEF RunStep

LEMMA InsertEffect ==
  ASSUME TypeOK, NEW l \in Landers, Insert(l)
  PROVE  /\ land[l].phase = "insert" /\ land[l].rows \subseteq Row
         /\ table' = table \cup land[l].rows
         /\ \E run \in Run : RunStep(l, run) /\ run.phase = "commit" /\ run.rows = {} /\ run.pos = land[l].pos
         /\ UNCHANGED <<wal, db, connector, missed, topic, group, runs, upsets>>
  <1> DEFINE old == land[l]
             run == [old EXCEPT !.phase = "commit", !.rows = {}]
  <1>1. old \in Run /\ land \in [Landers -> Run]
    BY DEF TypeOK
  <1>2. run \in Run /\ run.phase = "commit" /\ run.rows = {} /\ run.pos = old.pos /\ old.rows \subseteq Row
    BY <1>1 DEF Run, Phases
  <1>3. old.phase = "insert" /\ land' = [land EXCEPT ![l] = run] /\ table' = table \cup old.rows
        /\ UNCHANGED <<wal, db, connector, missed, topic, group, runs, upsets>>
    BY DEF Insert
  <1> HIDE DEF run
  <1>4. QED
    BY <1>2, <1>3 DEF RunStep

LEMMA CommitEffect ==
  ASSUME TypeOK, NEW l \in Landers, CommitOffsets(l)
  PROVE  /\ land[l].phase = "commit"
         /\ group' \in [Partitions -> Nat \cup {-1}]
         /\ \A p \in Partitions : group'[p] = group[p] \/ group'[p] = land[l].pos[p]
         /\ \E run \in Run :
              /\ RunStep(l, run)
              /\ \/ run = NoRun
                 \/ run.phase = "polling" /\ run.rows = land[l].rows /\ run.pos = land[l].pos
         /\ UNCHANGED <<wal, db, connector, missed, topic, table, runs, upsets>>
  <1> DEFINE old == land[l]
             run == [old EXCEPT !.phase = "polling", !.kept = old.pos]
  <1>1. old \in Run /\ land \in [Landers -> Run]
    BY DEF TypeOK
  <1>2. run \in Run /\ run.phase = "polling" /\ run.rows = old.rows /\ run.pos = old.pos
    BY <1>1 DEF Run, Phases
  <1>3. old.phase = "commit" /\ land' = [land EXCEPT ![l] = IF old.last THEN NoRun ELSE run]
        /\ group' = [p \in Partitions |-> IF old.pos[p] > old.kept[p] THEN old.pos[p] ELSE group[p]]
        /\ UNCHANGED <<wal, db, connector, missed, topic, table, runs, upsets>>
    BY DEF CommitOffsets
  <1>4. \A p \in Partitions : old.pos[p] \in Nat /\ group[p] \in Nat \cup {-1}
    BY <1>1 DEF Run, TypeOK
  <1>5. group' \in [Partitions -> Nat \cup {-1}]
        /\ \A p \in Partitions : group'[p] = group[p] \/ group'[p] = old.pos[p]
    BY <1>3, <1>4
  <1> HIDE DEF run
  <1>6. \E new \in Run :
          /\ RunStep(l, new)
          /\ \/ new = NoRun
             \/ new.phase = "polling" /\ new.rows = old.rows /\ new.pos = old.pos
    <2>1. CASE old.last
      BY <1>3, <2>1, NoRunType DEF RunStep
    <2>2. CASE ~old.last
      BY <1>2, <1>3, <2>2 DEF RunStep
    <2>3. QED
      BY <2>1, <2>2
  <1>7. QED
    BY <1>3, <1>5, <1>6

-----------------------------------------------------------------------------
LEMMA TypeInit == Init => TypeOK
  BY NoRunType DEF Init, TypeOK

\* Commits keep the types of the log and of the rows.
LEMMA WriteEffect ==
  ASSUME TypeOK, NEW id \in Ids, NEW op \in {"c", "u", "d"}, Write(id, op)
  PROVE  /\ wal' \in Seq(Change) /\ db' \in [Ids -> Nat] /\ Len(wal) \in Nat
         /\ Len(wal') = Len(wal) + 1
         /\ \A k \in 1 .. Len(wal) : wal'[k] = wal[k]
         /\ wal'[Len(wal) + 1] =
              [id |-> id, op |-> op, image |-> IF op = "d" THEN db[id] ELSE Len(wal) + 1]
         /\ db' = [db EXCEPT ![id] = IF op = "d" THEN 0 ELSE Len(wal) + 1]
         /\ UNCHANGED <<connector, missed, topic, group, table, land, runs, upsets>>
  <1> DEFINE change == [id |-> id, op |-> op, image |-> IF op = "d" THEN db[id] ELSE Len(wal) + 1]
  <1>1. Len(wal) \in Nat /\ db[id] \in Nat /\ wal \in Seq(Change)
    BY DEF TypeOK
  <1>2. change \in Change
    BY <1>1 DEF Change
  <1>3. wal' = Append(wal, change) /\ db' = [db EXCEPT ![id] = IF op = "d" THEN 0 ELSE Len(wal) + 1]
        /\ UNCHANGED <<connector, missed, topic, group, table, land, runs, upsets>>
    BY DEF Write
  <1> HIDE DEF change
  <1>4. QED
    BY <1>1, <1>2, <1>3, AppendFacts DEF TypeOK, change

LEMMA TypeStep ==
  ASSUME IsFiniteSet(Ids), TypeOK, [Next]_cdcVars
  PROVE  TypeOK'
  <1>1. ASSUME NEW id \in Ids, NEW op \in {"c", "u", "d"}, Write(id, op) PROVE TypeOK'
    BY <1>1, WriteEffect DEF TypeOK
  <1>2. ASSUME Register PROVE TypeOK'
    BY <1>2, RegisterEffect DEF TypeOK
  <1>3. ASSUME Unregister PROVE TypeOK'
    <2>1. /\ connector \in [on : BOOLEAN, captured : Nat, base : Nat]
          /\ connector' = [connector EXCEPT !.on = FALSE]
      BY <1>3 DEF Unregister, TypeOK
    <2>2. connector' \in [on : BOOLEAN, captured : Nat, base : Nat]
      BY <2>1
    <2>3. QED
      BY <1>3, <2>2 DEF Unregister, Upset, TypeOK
  <1>4. ASSUME Capture PROVE TypeOK'
    BY <1>4, CaptureEffect DEF TypeOK
  <1>5. ASSUME Restart PROVE TypeOK'
    <2>1. connector \in [on : BOOLEAN, captured : Nat, base : Nat]
      BY DEF TypeOK
    <2>2. PICK k \in connector.base .. connector.captured - 1 : connector' = [connector EXCEPT !.captured = k]
      BY <1>5 DEF Restart
    <2>3. k \in Nat
      BY <2>1, <2>2
    <2>4. connector' \in [on : BOOLEAN, captured : Nat, base : Nat]
      BY <2>1, <2>2, <2>3
    <2>5. QED
      BY <1>5, <2>4 DEF Restart, Upset, TypeOK
  <1>6. ASSUME RecreateTopic PROVE TypeOK'
    <2>1. /\ connector \in [on : BOOLEAN, captured : Nat, base : Nat]
          /\ connector' = [connector EXCEPT !.on = FALSE]
      BY <1>6 DEF RecreateTopic, TypeOK
    <2>2. connector' \in [on : BOOLEAN, captured : Nat, base : Nat]
      BY <2>1
    <2>3. topic' \in [Partitions -> Seq(Record)]
      BY <1>6 DEF RecreateTopic
    <2>4. group' \in [Partitions -> Nat \cup {-1}] /\ missed' \subseteq Ids
      BY <1>6 DEF RecreateTopic, TypeOK
    <2>5. QED
      BY <1>6, <2>2, <2>3, <2>4 DEF RecreateTopic, Upset, TypeOK
  <1>7. ASSUME NEW l \in Landers, Count(l) PROVE TypeOK'
    <2>1. land' \in [Landers -> Run]
      BY <1>7, CountEffect, RunStepType DEF TypeOK
    <2>2. QED
      BY <1>7, <2>1, CountEffect DEF TypeOK
  <1>8. ASSUME NEW l \in Landers, Guard(l) PROVE TypeOK'
    <2>1. land' \in [Landers -> Run]
      BY <1>8, GuardEffect, RunStepType DEF TypeOK
    <2>2. QED
      BY <1>8, <2>1, GuardEffect DEF TypeOK
  <1>9. ASSUME NEW l \in Landers, Assign(l) PROVE TypeOK'
    <2>1. land' \in [Landers -> Run]
      BY <1>9, AssignEffect, RunStepType DEF TypeOK
    <2>2. QED
      BY <1>9, <2>1, AssignEffect DEF TypeOK
  <1>10. ASSUME NEW l \in Landers, NEW p \in Partitions, Poll(l, p) PROVE TypeOK'
    <2>1. land' \in [Landers -> Run]
      BY <1>10, PollEffect, RunStepType DEF TypeOK
    <2>2. QED
      BY <1>10, <2>1, PollEffect DEF TypeOK
  <1>11. ASSUME NEW l \in Landers, Drained(l) PROVE TypeOK'
    <2>1. land' \in [Landers -> Run]
      BY <1>11, DrainedEffect, RunStepType DEF TypeOK
    <2>2. QED
      BY <1>11, <2>1, DrainedEffect DEF TypeOK
  <1>12. ASSUME NEW l \in Landers, Insert(l) PROVE TypeOK'
    <2>1. land' \in [Landers -> Run]
      BY <1>12, InsertEffect, RunStepType DEF TypeOK
    <2>2. QED
      BY <1>12, <2>1, InsertEffect DEF TypeOK
  <1>13. ASSUME NEW l \in Landers, CommitOffsets(l) PROVE TypeOK'
    <2>1. land' \in [Landers -> Run]
      BY <1>13, CommitEffect, RunStepType DEF TypeOK
    <2>2. QED
      BY <1>13, <2>1, CommitEffect DEF TypeOK
  <1>14. ASSUME NEW l \in Landers, Crash(l) PROVE TypeOK'
    BY <1>14, NoRunType DEF Crash, TypeOK
  <1>15. ASSUME Recreate PROVE TypeOK'
    BY <1>15 DEF Recreate, Upset, TypeOK
  <1>16. ASSUME ResetGroup PROVE TypeOK'
    BY <1>16 DEF ResetGroup, Upset, TypeOK
  <1>17. CASE UNCHANGED cdcVars
    BY <1>17 DEF cdcVars, TypeOK
  <1>18. QED
    BY <1>1, <1>2, <1>3, <1>4, <1>5, <1>6, <1>7, <1>8, <1>9, <1>10, <1>11, <1>12, <1>13, <1>14,
       <1>15, <1>16, <1>17 DEF Next

\* Every variable keeps its type through commits, snapshots, replays, crashes and
\* re-creations: in particular a position never becomes the -1 of "no offset".
THEOREM TypeCorrect == ASSUME IsFiniteSet(Ids) PROVE Spec => []TypeOK
  <1>1. TypeOK /\ [Next]_cdcVars => TypeOK'
    BY TypeStep
  <1>2. QED
    BY TypeInit, <1>1, PTL DEF Spec

-----------------------------------------------------------------------------
(***************************************************************************)
(* Provenance.  Inductive invariant: the database's row of a key is the    *)
(* version its last change wrote, and every record in the topic, in memory *)
(* or in the table is what the log says at its LSN: a streamed record the  *)
(* change that starts there, a snapshot read the row the changes before it *)
(* left.                                                                   *)
(***************************************************************************)
LastAt(w, k, id, n) == k \in 1 .. n /\ w[k].id = id /\ \A j \in k + 1 .. n : w[j].id # id

Read(w, id, n, image) ==
  \E k \in 1 .. n : LastAt(w, k, id, n) /\ w[k].op # "d" /\ w[k].image = image

Genuine(w, r) ==
  IF r.op = "r" THEN r.lsn <= Len(w) /\ Read(w, r.id, r.lsn, r.image)
  ELSE /\ r.lsn + 1 <= Len(w)
       /\ w[r.lsn + 1].id = r.id /\ w[r.lsn + 1].op = r.op /\ w[r.lsn + 1].image = r.image

DbIsLast == \A id \in Ids : db[id] # 0 => Read(wal, id, Len(wal), db[id])
TopicGenuine ==
  \A p \in Partitions : \A i \in 1 .. Len(topic[p]) :
    topic[p][i].op # "tombstone" => Genuine(wal, topic[p][i])
TableGenuine == \A row \in table : Genuine(wal, row)
BatchGenuine == \A l \in Landers : \A row \in land[l].rows : Genuine(wal, row)

Provenance == DbIsLast /\ TopicGenuine /\ TableGenuine /\ BatchGenuine

\* Appending to the log changes nothing about what it said before.
LEMMA GenuineKept ==
  ASSUME NEW w \in Seq(Change), NEW new \in Seq(Change), Len(w) <= Len(new),
         \A k \in 1 .. Len(w) : new[k] = w[k],
         NEW r \in Record \cup Row, Genuine(w, r)
  PROVE  Genuine(new, r)
  <1>1. Len(w) \in Nat /\ Len(new) \in Nat /\ r.lsn \in Nat
    BY DEF Record, Row
  <1>2. CASE r.op = "r"
    <2>1. r.lsn <= Len(w) /\ Read(w, r.id, r.lsn, r.image)
      BY <1>2 DEF Genuine
    <2>2. PICK k \in 1 .. r.lsn : LastAt(w, k, r.id, r.lsn) /\ w[k].op # "d" /\ w[k].image = r.image
      BY <2>1 DEF Read
    <2>3. LastAt(new, k, r.id, r.lsn) /\ new[k].op # "d" /\ new[k].image = r.image
      BY <1>1, <2>1, <2>2 DEF LastAt
    <2>4. QED
      BY <1>1, <1>2, <2>1, <2>3 DEF Genuine, Read
  <1>3. CASE r.op # "r"
    BY <1>1, <1>3 DEF Genuine
  <1>4. QED
    BY <1>2, <1>3

\* Equal LSN and rank determine the version.
LEMMA GenuineTie ==
  ASSUME NEW w \in Seq(Change), NEW a \in Row, NEW b \in Row, Genuine(w, a), Genuine(w, b),
         a.id = b.id, a.lsn = b.lsn, Rank(a) = Rank(b)
  PROVE  Shows(a) = Shows(b)
  <1>1. a.lsn \in Nat /\ (a.op = "r" <=> b.op = "r")
    BY DEF Row, Rank
  <1>2. CASE a.op = "r"
    <2>1. PICK k \in 1 .. a.lsn : LastAt(w, k, a.id, a.lsn) /\ w[k].image = a.image
      BY <1>2 DEF Genuine, Read
    <2>2. PICK j \in 1 .. b.lsn : LastAt(w, j, b.id, b.lsn) /\ w[j].image = b.image
      BY <1>1, <1>2 DEF Genuine, Read
    <2>3. j = k
      BY <1>1, <2>1, <2>2 DEF LastAt
    <2>4. QED
      BY <1>1, <1>2, <2>1, <2>2, <2>3 DEF Shows
  <1>3. CASE a.op # "r"
    BY <1>1, <1>3 DEF Genuine, Shows
  <1>4. QED
    BY <1>2, <1>3

\* Records appended to the topic are genuine if each of them is.
LEMMA NewRecordsGenuine ==
  ASSUME TypeOK, TopicGenuine, topic' \in [Partitions -> Seq(Record)], Grows(topic', topic), wal' = wal,
         \A p \in Partitions : \A i \in Len(topic[p]) + 1 .. Len(topic'[p]) :
           topic'[p][i].op = "tombstone" \/ Genuine(wal, topic'[p][i])
  PROVE  TopicGenuine'
  <1> SUFFICES ASSUME NEW p \in Partitions, NEW i \in 1 .. Len(topic'[p]), topic'[p][i].op # "tombstone"
               PROVE  Genuine(wal, topic'[p][i])
    BY DEF TopicGenuine
  <1>1. Len(topic[p]) \in Nat /\ Len(topic'[p]) \in Nat
    BY DEF TypeOK
  <1>2. CASE i <= Len(topic[p])
    <2>1. i \in 1 .. Len(topic[p]) /\ topic'[p][i] = topic[p][i]
      BY <1>1, <1>2 DEF Grows
    <2>2. QED
      BY <2>1 DEF TopicGenuine
  <1>3. CASE i > Len(topic[p])
    BY <1>1, <1>3
  <1>4. QED
    BY <1>1, <1>2, <1>3

LEMMA ProvenanceStep ==
  ASSUME IsFiniteSet(Ids), TypeOK, TypeOK', Provenance, [Next]_cdcVars
  PROVE  Provenance'
  <1> USE DEF Provenance
  <1>1. /\ \A p \in Partitions : \A i \in 1 .. Len(topic[p]) : topic[p][i] \in Record
        /\ \A row \in table : row \in Row
        /\ \A l \in Landers : \A row \in land[l].rows : row \in Row
    BY DEF TypeOK, Run
  <1>2. ASSUME NEW id \in Ids, NEW op \in {"c", "u", "d"}, Write(id, op) PROVE Provenance'
    <2> DEFINE n == Len(wal)
    <2>1. /\ wal \in Seq(Change) /\ wal' \in Seq(Change) /\ n \in Nat /\ Len(wal') = n + 1
          /\ \A k \in 1 .. n : wal'[k] = wal[k]
          /\ wal'[n + 1] = [id |-> id, op |-> op, image |-> IF op = "d" THEN db[id] ELSE n + 1]
          /\ db' = [db EXCEPT ![id] = IF op = "d" THEN 0 ELSE n + 1]
          /\ UNCHANGED <<topic, table, land>>
      BY <1>2, WriteEffect DEF TypeOK
    <2>2. \A r \in Record \cup Row : Genuine(wal, r) => Genuine(wal', r)
      BY <2>1, GenuineKept
    <2>3. TopicGenuine' /\ TableGenuine' /\ BatchGenuine'
      BY <1>1, <2>1, <2>2 DEF TopicGenuine, TableGenuine, BatchGenuine
    <2>4. ASSUME NEW j \in Ids, db'[j] # 0 PROVE Read(wal', j, n + 1, db'[j])
      <3>1. CASE j = id
        <4>1. op # "d" /\ db'[j] = n + 1
          BY <2>1, <2>4, <3>1 DEF TypeOK
        <4>2. LastAt(wal', n + 1, j, n + 1) /\ wal'[n + 1].op # "d" /\ wal'[n + 1].image = n + 1
          BY <2>1, <3>1, <4>1 DEF LastAt
        <4>3. QED
          BY <2>1, <4>1, <4>2 DEF Read
      <3>2. CASE j # id
        <4>1. db'[j] = db[j]
          BY <2>1, <3>2 DEF TypeOK
        <4>2. PICK k \in 1 .. n : LastAt(wal, k, j, n) /\ wal[k].op # "d" /\ wal[k].image = db[j]
          BY <2>4, <4>1 DEF DbIsLast, Read
        <4>3. LastAt(wal', k, j, n + 1) /\ wal'[k].op # "d" /\ wal'[k].image = db[j]
          BY <2>1, <3>2, <4>2 DEF LastAt
        <4>4. QED
          BY <2>1, <4>1, <4>2, <4>3 DEF Read
      <3>3. QED
        BY <3>1, <3>2
    <2>5. DbIsLast'
      BY <2>1, <2>4 DEF DbIsLast
    <2>6. QED
      BY <2>3, <2>5
  <1>3. ASSUME Register PROVE Provenance'
    <2>1. /\ topic' \in [Partitions -> Seq(Record)] /\ Grows(topic', topic)
          /\ \A p \in Partitions : \A i \in Len(topic[p]) + 1 .. Len(topic'[p]) :
               \E id \in Ids : db[id] # 0 /\ topic'[p][i] = ReadRecord(id)
          /\ UNCHANGED <<wal, db, table, land>>
      BY <1>3, RegisterEffect
    <2>2. \A id \in Ids : db[id] # 0 => Genuine(wal, ReadRecord(id))
      BY DEF TypeOK, DbIsLast, Genuine, ReadRecord
    <2>3. TopicGenuine'
      BY <2>1, <2>2, NewRecordsGenuine
    <2>4. QED
      BY <2>1, <2>3 DEF DbIsLast, TableGenuine, BatchGenuine
  <1>4. ASSUME Capture PROVE Provenance'
    <2>1. /\ topic' \in [Partitions -> Seq(Record)] /\ Grows(topic', topic)
          /\ \A p \in Partitions : \A i \in Len(topic[p]) + 1 .. Len(topic'[p]) :
              \/ topic'[p][i].op = "tombstone"
              \/ \E k \in 1 .. Len(wal) :
                   topic'[p][i] = [id |-> wal[k].id, op |-> wal[k].op, lsn |-> k - 1, image |-> wal[k].image]
          /\ UNCHANGED <<wal, db, table, land>>
      BY <1>4, CaptureEffect
    <2>2. ASSUME NEW k \in 1 .. Len(wal)
          PROVE  Genuine(wal, [id |-> wal[k].id, op |-> wal[k].op, lsn |-> k - 1, image |-> wal[k].image])
      <3>1. wal[k] \in Change /\ Len(wal) \in Nat
        BY DEF TypeOK
      <3>2. wal[k].op # "r" /\ (k - 1) + 1 = k
        BY <3>1 DEF Change
      <3>3. QED
        BY <3>1, <3>2 DEF Genuine
    <2>3. TopicGenuine'
      BY <2>1, <2>2, NewRecordsGenuine
    <2>4. QED
      BY <2>1, <2>3 DEF DbIsLast, TableGenuine, BatchGenuine
  <1>5. ASSUME Unregister \/ Restart \/ ResetGroup PROVE Provenance'
    BY <1>5 DEF Unregister, Restart, ResetGroup, DbIsLast, TopicGenuine, TableGenuine, BatchGenuine
  <1>6. ASSUME RecreateTopic PROVE Provenance'
    BY <1>6 DEF RecreateTopic, DbIsLast, TopicGenuine, TableGenuine, BatchGenuine
  <1>7. ASSUME Recreate PROVE Provenance'
    BY <1>7 DEF Recreate, DbIsLast, TopicGenuine, TableGenuine, BatchGenuine
  <1>8. ASSUME UNCHANGED <<wal, db, topic>>, TableGenuine', BatchGenuine' PROVE Provenance'
    BY <1>8 DEF DbIsLast, TopicGenuine
  <1>9. ASSUME NEW l \in Landers, NEW run, RunStep(l, run), UNCHANGED wal,
               \A row \in run.rows : Genuine(wal, row)
        PROVE  BatchGenuine'
    BY <1>9, RunStepType DEF TypeOK, BatchGenuine
  <1>10. \A l \in Landers : \A row \in land[l].rows : Genuine(wal, row)
    BY DEF BatchGenuine
  <1>11. ASSUME NEW l \in Landers, Count(l) PROVE Provenance'
    BY <1>8, <1>9, <1>11, CountEffect DEF TableGenuine
  <1>12. ASSUME NEW l \in Landers, Guard(l) PROVE Provenance'
    <2>1. PICK phase \in {"absent", "refused", "admitted"} :
             /\ RunStep(l, [land[l] EXCEPT !.phase = phase])
             /\ UNCHANGED <<wal, db, connector, missed, topic, group, table, runs, upsets>>
      BY <1>12, GuardEffect
    <2>2. [land[l] EXCEPT !.phase = phase].rows = land[l].rows
      BY DEF TypeOK, Run
    <2>3. QED
      BY <1>8, <1>9, <1>10, <2>1, <2>2 DEF TableGenuine
  <1>13. ASSUME NEW l \in Landers, Assign(l) PROVE Provenance'
    BY <1>8, <1>9, <1>10, <1>13, AssignEffect DEF TableGenuine
  <1>14. ASSUME NEW l \in Landers, NEW p \in Partitions, Poll(l, p) PROVE Provenance'
    <2> DEFINE o == land[l].pos[p] + 1
               row == RowOf(topic[p][o], p, land[l].pos[p], land[l].ingest)
    <2>1. o \in 1 .. Len(topic[p])
      BY <1>14, PollEffect
    <2>2. PICK run \in Run :
            /\ RunStep(l, run)
            /\ run.rows = IF Landable(topic[p][o]) THEN land[l].rows \cup {row} ELSE land[l].rows
      BY <1>14, PollEffect
    <2>3. UNCHANGED <<wal, db, topic, table>>
      BY <1>14, PollEffect
    <2>4. Landable(topic[p][o]) => Genuine(wal, row)
      <3>1. Landable(topic[p][o]) => Genuine(wal, topic[p][o])
        BY <2>1 DEF TopicGenuine, Landable, RowOps
      <3>2. QED
        BY <3>1 DEF Genuine, RowOf
    <2> HIDE DEF o, row
    <2>5. QED
      BY <1>8, <1>9, <1>10, <2>2, <2>3, <2>4 DEF TableGenuine
  <1>15. ASSUME NEW l \in Landers, Drained(l) PROVE Provenance'
    <2>1. PICK run \in Run : RunStep(l, run) /\ run.rows \subseteq land[l].rows
      BY <1>15, DrainedEffect DEF NoRun
    <2>2. QED
      BY <1>8, <1>9, <1>10, <1>15, <2>1, DrainedEffect DEF TableGenuine
  <1>16. ASSUME NEW l \in Landers, Insert(l) PROVE Provenance'
    BY <1>8, <1>9, <1>10, <1>16, InsertEffect DEF TableGenuine
  <1>17. ASSUME NEW l \in Landers, CommitOffsets(l) PROVE Provenance'
    <2>1. PICK run \in Run : RunStep(l, run) /\ run.rows \subseteq land[l].rows
      BY <1>17, CommitEffect DEF NoRun
    <2>2. QED
      BY <1>8, <1>9, <1>10, <1>17, <2>1, CommitEffect DEF TableGenuine
  <1>18. ASSUME NEW l \in Landers, Crash(l) PROVE Provenance'
    <2>1. RunStep(l, NoRun) /\ NoRun.rows = {}
      BY <1>18, NoRunType DEF Crash, RunStep, NoRun
    <2>2. UNCHANGED <<wal, db, topic, table>>
      BY <1>18 DEF Crash
    <2>3. QED
      BY <1>8, <1>9, <2>1, <2>2 DEF TableGenuine
  <1>19. CASE UNCHANGED cdcVars
    BY <1>19 DEF cdcVars, DbIsLast, TopicGenuine, TableGenuine, BatchGenuine
  <1>20. QED
    BY <1>2, <1>3, <1>4, <1>5, <1>6, <1>7, <1>11, <1>12, <1>13, <1>14, <1>15, <1>16, <1>17, <1>18,
       <1>19 DEF Next

\* What LSN and snapshot rank cannot separate is the same version of the row, for
\* any interleaving of commits, snapshots, replays, new topics and landers: the
\* tiebreaks on kafka_offset and ingest_ts never choose between versions.
THEOREM TiesUnobservable == ASSUME IsFiniteSet(Ids) PROVE Spec => []TiesIdentical
  <1>1. Init => TypeOK /\ Provenance
    BY TypeInit DEF Init, NoRun, Provenance, DbIsLast, TopicGenuine, TableGenuine, BatchGenuine
  <1>2. TypeOK /\ Provenance /\ [Next]_cdcVars => (TypeOK /\ Provenance)'
    BY TypeStep, ProvenanceStep
  <1>3. TypeOK /\ Provenance => TiesIdentical
    BY GenuineTie DEF TypeOK, Provenance, TableGenuine, TiesIdentical
  <1>4. QED
    BY <1>1, <1>2, <1>3, PTL DEF Spec

-----------------------------------------------------------------------------
(***************************************************************************)
(* Completeness.  Inductive invariant: a run that is past the guard covers *)
(* the committed offsets with what is in the table, and its own position   *)
(* with the table and the batch in its memory.                             *)
(***************************************************************************)
\* Every record of a partition's log below offset n has its row in S.
CoveredAt(p, log, S, n) ==
  \A o \in 1 .. Len(log) :
    o <= n /\ log[o].op # "tombstone" =>
      \E row \in S : row = RowOf(log[o], p, o - 1, row.ingest)
Covered == \A p \in Partitions : CoveredAt(p, topic[p], table, group[p])

Admitted(run) == run.phase \in {"admitted", "polling", "insert", "commit"}
Reading(run)  == run.phase \in {"polling", "insert", "commit"}

\* What holds of one run, against the shared topic, table and group.
RunOK(run) ==
  /\ run.phase = "counted" /\ run.existing => table # {}
  /\ Admitted(run) => Covered
  /\ Reading(run) => \A p \in Partitions :
       /\ run.pos[p] <= Len(topic[p])
       /\ CoveredAt(p, topic[p], table \cup run.rows, run.pos[p])
  /\ run.phase = "commit" => run.rows = {}

LandInv ==
  /\ table # {} => Covered
  /\ \A p \in Partitions : group[p] <= Len(topic[p])
  /\ \A l \in Landers : RunOK(land[l])

LEMMA CoveredGrows ==
  ASSUME NEW p, NEW log \in Seq(Record), NEW new \in Seq(Record), NEW S, NEW T, NEW n \in Nat \cup {-1},
         Len(log) <= Len(new), \A i \in 1 .. Len(log) : new[i] = log[i], n <= Len(log),
         S \subseteq T, CoveredAt(p, log, S, n)
  PROVE  n <= Len(new) /\ CoveredAt(p, new, T, n)
  <1>1. Len(log) \in Nat /\ Len(new) \in Nat
    OBVIOUS
  <1>2. \A o \in 1 .. Len(new) : o <= n => o \in 1 .. Len(log) /\ new[o] = log[o]
    BY <1>1
  <1>3. QED
    BY <1>1, <1>2 DEF CoveredAt

\* New records lie above every committed offset and every position.
LEMMA GrowsKeeps ==
  ASSUME TypeOK, LandInv, topic' \in [Partitions -> Seq(Record)], Grows(topic', topic),
         UNCHANGED <<group, table, land>>
  PROVE  LandInv'
  <1>1. \A p \in Partitions :
          /\ topic[p] \in Seq(Record) /\ topic'[p] \in Seq(Record) /\ group[p] \in Nat \cup {-1}
          /\ Len(topic[p]) <= Len(topic'[p])
          /\ \A i \in 1 .. Len(topic[p]) : topic'[p][i] = topic[p][i]
    BY DEF TypeOK, Grows
  <1>2. Covered => Covered'
    BY <1>1, CoveredGrows DEF LandInv, Covered
  <1>3. \A p \in Partitions : group'[p] <= Len(topic'[p])
    <2> SUFFICES ASSUME NEW p \in Partitions PROVE group[p] <= Len(topic'[p])
      OBVIOUS
    <2>1. group[p] <= Len(topic[p]) /\ Len(topic[p]) \in Nat /\ Len(topic'[p]) \in Nat
      BY <1>1 DEF LandInv
    <2>2. QED
      BY <1>1, <2>1
  <1>4. ASSUME NEW l \in Landers PROVE RunOK(land[l])'
    <2>1. RunOK(land[l]) /\ land[l] \in Run
      BY DEF LandInv, TypeOK
    <2>2. ASSUME Reading(land[l]), NEW p \in Partitions
          PROVE  /\ land[l].pos[p] <= Len(topic'[p])
                 /\ CoveredAt(p, topic'[p], table \cup land[l].rows, land[l].pos[p])
      <3>1. land[l].pos[p] \in Nat
        BY <2>1 DEF Run
      <3>2. land[l].pos[p] <= Len(topic[p]) /\ CoveredAt(p, topic[p], table \cup land[l].rows, land[l].pos[p])
        BY <2>1, <2>2 DEF RunOK
      <3>3. QED
        BY <1>1, <3>1, <3>2, CoveredGrows
    <2>3. QED
      BY <1>2, <2>1, <2>2 DEF RunOK, Admitted, Reading
  <1>5. QED
    BY <1>2, <1>3, <1>4 DEF LandInv

\* A step of lander l that leaves topic, table and group alone.
LEMMA OwnStep ==
  ASSUME TypeOK, LandInv, NEW l \in Landers, NEW run \in Run, RunStep(l, run), RunOK(run),
         UNCHANGED <<topic, group, table>>
  PROVE  LandInv'
  <1>1. /\ land' \in [Landers -> Run] /\ land'[l] = run
        /\ \A m \in Landers \ {l} : land'[m] = land[m]
    BY RunStepType DEF TypeOK
  <1>2. \A m \in Landers : RunOK(land'[m])
    BY <1>1 DEF LandInv
  <1>3. QED
    BY <1>1, <1>2 DEF LandInv, RunOK, Covered

LEMMA LandStep ==
  ASSUME IsFiniteSet(Ids), ~CarelessRecreate, TypeOK, TypeOK', LandInv, [Next]_cdcVars
  PROVE  LandInv'
  <1>1. ASSUME NEW l \in Landers PROVE RunOK(land[l]) /\ land[l] \in Run
    BY DEF LandInv, TypeOK
  <1>2. \A p \in Partitions : /\ topic[p] \in Seq(Record) /\ Len(topic[p]) \in Nat
                              /\ group[p] \in Nat \cup {-1} /\ group[p] <= Len(topic[p])
    BY DEF TypeOK, LandInv
  <1>3. RunOK(NoRun)
    BY DEF RunOK, NoRun, Admitted, Reading
  <1>4. CASE Register
    BY <1>4, RegisterEffect, GrowsKeeps
  <1>5. CASE Capture
    BY <1>5, CaptureEffect, GrowsKeeps
  <1>6. CASE RecreateTopic
    <2>1. /\ topic' = [p \in Partitions |-> <<>>] /\ group' = [p \in Partitions |-> -1]
          /\ table' = table /\ land' = land /\ \A l \in Landers : Ended(l)
      BY <1>6 DEF RecreateTopic
    <2>2. \A p \in Partitions : topic'[p] = <<>> /\ group'[p] = -1 /\ Len(<<>>) = 0
      BY <2>1
    <2>3. \A p \in Partitions : group'[p] <= Len(topic'[p])
      BY <2>2
    <2>4. Covered'
      BY <2>2 DEF Covered, CoveredAt
    <2>5. \A l \in Landers : RunOK(land[l])'
      BY <2>1 DEF RunOK, Ended, Admitted, Reading
    <2>6. QED
      BY <2>1, <2>3, <2>4, <2>5 DEF LandInv
  <1>7. CASE Recreate
    <2>1. table' = {} /\ topic' = topic /\ group' = group /\ land' = land /\ \A l \in Landers : Ended(l)
      BY <1>7 DEF Recreate
    <2>2. \A l \in Landers : RunOK(land[l])'
      BY <2>1 DEF RunOK, Ended, Admitted, Reading
    <2>3. QED
      BY <1>2, <2>1, <2>2 DEF LandInv
  <1>8. CASE ResetGroup
    <2>1. group' = [p \in Partitions |-> 0] /\ UNCHANGED <<topic, table, land>>
      BY <1>8 DEF ResetGroup
    <2>2. Covered' /\ \A p \in Partitions : group'[p] <= Len(topic'[p])
      BY <1>2, <2>1 DEF Covered, CoveredAt
    <2>3. \A l \in Landers : RunOK(land[l])'
      BY <1>1, <2>1, <2>2 DEF RunOK
    <2>4. QED
      BY <2>1, <2>2, <2>3 DEF LandInv
  <1>9. ASSUME UNCHANGED <<topic, group, table, land>> PROVE LandInv'
    BY <1>9 DEF LandInv, Covered, RunOK
  <1>10. CASE Unregister \/ Restart \/ UNCHANGED cdcVars
    BY <1>9, <1>10 DEF Unregister, Restart, cdcVars
  <1>11. CASE \E id \in Ids, op \in {"c", "u", "d"} : Write(id, op)
    BY <1>9, <1>11, WriteEffect
  <1>12. ASSUME NEW l \in Landers, Count(l) PROVE LandInv'
    <2>1. PICK run \in Run :
            /\ RunStep(l, run) /\ run.phase = "counted" /\ run.existing = (table # {})
            /\ UNCHANGED <<topic, group, table>>
      BY <1>12, CountEffect
    <2>2. RunOK(run)
      BY <2>1 DEF RunOK, Admitted, Reading
    <2>3. QED
      BY <2>1, <2>2, OwnStep
  <1>13. ASSUME NEW l \in Landers, Guard(l) PROVE LandInv'
    <2>1. PICK phase \in {"absent", "refused", "admitted"} :
            /\ RunStep(l, [land[l] EXCEPT !.phase = phase])
            /\ land[l].phase = "counted" /\ (phase = "admitted" => ~Truncating(l))
            /\ UNCHANGED <<topic, group, table>>
      BY <1>13, GuardEffect
    <2> DEFINE run == [land[l] EXCEPT !.phase = phase]
    <2>2. run \in Run /\ run.phase = phase
      BY <1>1, <2>1 DEF Run, RunStep
    <2>3. ASSUME phase = "admitted" PROVE Covered
      <3>1. CASE land[l].existing
        BY <1>1, <2>1, <3>1 DEF RunOK, LandInv
      <3>2. CASE ~land[l].existing
        <4>1. \A p \in Partitions : ~(group[p] > 0)
          BY <2>1, <2>3, <3>2 DEF Truncating
        <4>2. QED
          BY <1>2, <4>1 DEF Covered, CoveredAt
      <3>3. QED
        BY <3>1, <3>2
    <2> HIDE DEF run
    <2>4. RunOK(run)
      BY <2>1, <2>2, <2>3 DEF RunOK, Admitted, Reading
    <2>5. QED
      BY <2>1, <2>2, <2>4, OwnStep DEF run
  <1>14. ASSUME NEW l \in Landers, Assign(l) PROVE LandInv'
    <2>1. PICK run \in Run :
            /\ RunStep(l, run) /\ land[l].phase = "admitted"
            /\ run.phase = "polling" /\ run.rows = land[l].rows
            /\ \A p \in Partitions : run.pos[p] = StartOffset(p)
            /\ UNCHANGED <<topic, group, table>>
      BY <1>14, AssignEffect
    <2>2. Covered
      BY <1>1, <2>1 DEF RunOK, Admitted
    <2>3. ASSUME NEW p \in Partitions
          PROVE  /\ run.pos[p] <= Len(topic[p])
                 /\ CoveredAt(p, topic[p], table \cup run.rows, run.pos[p])
      <3>1. run.pos[p] = IF group[p] < 0 THEN 0 ELSE group[p]
        BY <2>1 DEF StartOffset
      <3>2. CoveredAt(p, topic[p], table, group[p])
        BY <2>2 DEF Covered
      <3>3. QED
        BY <1>2, <3>1, <3>2 DEF CoveredAt
    <2>4. RunOK(run)
      BY <2>1, <2>2, <2>3 DEF RunOK, Admitted, Reading
    <2>5. QED
      BY <2>1, <2>4, OwnStep
  <1>15. ASSUME NEW l \in Landers, NEW q \in Partitions, Poll(l, q) PROVE LandInv'
    <2> DEFINE o == land[l].pos[q] + 1
               new == RowOf(topic[q][o], q, land[l].pos[q], land[l].ingest)
    <2>1. /\ land[l].phase = "polling" /\ o \in 1 .. Len(topic[q])
          /\ UNCHANGED <<topic, group, table>>
      BY <1>15, PollEffect
    <2>2. PICK run \in Run :
            /\ RunStep(l, run) /\ run.phase \in {"polling", "insert"}
            /\ run.pos = [land[l].pos EXCEPT ![q] = @ + 1]
            /\ run.rows = IF Landable(topic[q][o]) THEN land[l].rows \cup {new} ELSE land[l].rows
      BY <1>15, PollEffect
    <2>3. /\ Covered
          /\ \A p \in Partitions : /\ land[l].pos[p] \in Nat /\ land[l].pos[p] <= Len(topic[p])
                                   /\ CoveredAt(p, topic[p], table \cup land[l].rows, land[l].pos[p])
      BY <1>1, <2>1 DEF RunOK, Admitted, Reading, Run
    <2>4. ASSUME NEW p \in Partitions
          PROVE  /\ run.pos[p] <= Len(topic[p])
                 /\ CoveredAt(p, topic[p], table \cup run.rows, run.pos[p])
      <3>1. CASE p # q
        <4>1. run.pos[p] = land[l].pos[p] /\ land[l].rows \subseteq run.rows
          BY <1>1, <2>2, <3>1 DEF Run
        <4>2. QED
          BY <2>3, <4>1 DEF CoveredAt
      <3>2. CASE p = q
        <4>1. run.pos[p] = o /\ o = land[l].pos[p] + 1 /\ land[l].rows \subseteq run.rows
          BY <1>1, <2>2, <3>2 DEF Run
        <4>2. topic[p][o].op # "tombstone" => new \in run.rows
          <5>1. topic[p][o] \in Record
            BY <1>2, <2>1, <3>2
          <5>2. topic[p][o].op # "tombstone" => Landable(topic[q][o])
            BY <3>2, <5>1 DEF Record, Landable
          <5>3. QED
            BY <2>2, <5>2
        <4>3. new = RowOf(topic[p][o], p, o - 1, new.ingest)
          BY <2>3, <3>2 DEF RowOf
        <4>4. ASSUME NEW i \in 1 .. Len(topic[p]), i <= o, topic[p][i].op # "tombstone"
              PROVE  \E row \in table \cup run.rows : row = RowOf(topic[p][i], p, i - 1, row.ingest)
          <5>1. CASE i = o
            BY <4>2, <4>3, <4>4, <5>1
          <5>2. CASE i # o
            <6>1. i <= land[l].pos[p]
              BY <1>2, <2>3, <4>1, <4>4, <5>2
            <6>2. QED
              BY <2>3, <4>1, <4>4, <6>1 DEF CoveredAt
          <5>3. QED
            BY <5>1, <5>2
        <4>5. QED
          BY <2>1, <3>2, <4>1, <4>4 DEF CoveredAt
      <3>3. QED
        BY <3>1, <3>2
    <2> HIDE DEF o, new
    <2>5. RunOK(run)
      BY <2>2, <2>3, <2>4 DEF RunOK, Admitted, Reading
    <2>6. QED
      BY <2>1, <2>2, <2>5, OwnStep
  <1>16. ASSUME NEW l \in Landers, Drained(l) PROVE LandInv'
    <2>1. PICK run \in Run :
            /\ RunStep(l, run)
            /\ \/ run = NoRun
               \/ run.phase = "insert" /\ run.rows = land[l].rows /\ run.pos = land[l].pos
               \/ run.phase = "commit" /\ run.rows = {} /\ land[l].rows = {} /\ run.pos = land[l].pos
      BY <1>16, DrainedEffect
    <2>2. land[l].phase = "polling" /\ UNCHANGED <<topic, group, table>>
      BY <1>16, DrainedEffect
    <2>3. RunOK(run)
      BY <1>1, <1>3, <2>1, <2>2 DEF RunOK, Admitted, Reading
    <2>4. QED
      BY <2>1, <2>2, <2>3, OwnStep
  <1>17. ASSUME NEW l \in Landers, Insert(l) PROVE LandInv'
    <2>1. land[l].phase = "insert" /\ table' = table \cup land[l].rows /\ UNCHANGED <<topic, group>>
      BY <1>17, InsertEffect
    <2>2. PICK run \in Run : RunStep(l, run) /\ run.phase = "commit" /\ run.rows = {} /\ run.pos = land[l].pos
      BY <1>17, InsertEffect
    <2>3. Covered
      BY <1>1, <2>1 DEF RunOK, Admitted
    <2>4. Covered'
      BY <2>1, <2>3 DEF Covered, CoveredAt
    <2>5. RunOK(run)'
      <3>1. \A p \in Partitions : /\ run.pos[p] <= Len(topic[p])
                                  /\ CoveredAt(p, topic[p], table', run.pos[p])
        BY <1>1, <2>1, <2>2 DEF RunOK, Reading
      <3>2. table' \cup run.rows = table'
        BY <2>2
      <3>3. QED
        BY <2>1, <2>2, <2>4, <3>1, <3>2 DEF RunOK
    <2>6. ASSUME NEW m \in Landers \ {l} PROVE RunOK(land[m])'
      <3>1. PICK other \in Run : other = land[m] /\ land'[m] = other
        BY <2>2, RunStepType DEF TypeOK
      <3>2. RunOK(other)
        BY <1>1, <3>1
      <3>3. RunOK(other)'
        BY <2>1, <2>4, <3>2 DEF RunOK, CoveredAt
      <3>4. QED
        BY <3>1, <3>3 DEF RunOK, Admitted, Reading
    <2>7. land'[l] = run
      BY <2>2, RunStepType DEF TypeOK
    <2>8. QED
      <3>1. RunOK(land[l])'
        BY <2>5, <2>7 DEF RunOK, Admitted, Reading
      <3>2. QED
        BY <1>2, <2>1, <2>4, <2>6, <3>1 DEF LandInv
  <1>18. ASSUME NEW l \in Landers, CommitOffsets(l) PROVE LandInv'
    <2>1. /\ land[l].phase = "commit" /\ UNCHANGED <<topic, table>>
          /\ \A p \in Partitions : group'[p] = group[p] \/ group'[p] = land[l].pos[p]
      BY <1>18, CommitEffect
    <2>2. PICK run \in Run :
            /\ RunStep(l, run)
            /\ \/ run = NoRun
               \/ run.phase = "polling" /\ run.rows = land[l].rows /\ run.pos = land[l].pos
      BY <1>18, CommitEffect
    <2>3. Covered /\ land[l].rows = {}
          /\ \A p \in Partitions : /\ land[l].pos[p] <= Len(topic[p])
                                   /\ CoveredAt(p, topic[p], table \cup land[l].rows, land[l].pos[p])
      BY <1>1, <2>1 DEF RunOK, Admitted, Reading
    <2>4. Covered'
      <3>1. table \cup land[l].rows = table
        BY <2>3
      <3>2. QED
        BY <2>1, <2>3, <3>1 DEF Covered
    <2>5. \A p \in Partitions : group'[p] <= Len(topic'[p])
      BY <1>2, <2>1, <2>3
    <2>6. RunOK(run)'
      <3>1. CASE run = NoRun
        BY <3>1 DEF RunOK, NoRun, Admitted, Reading
      <3>2. CASE run # NoRun
        BY <2>1, <2>2, <2>3, <2>4, <3>2 DEF RunOK
      <3>3. QED
        BY <3>1, <3>2
    <2>7. ASSUME NEW m \in Landers \ {l} PROVE RunOK(land[m])'
      <3>1. PICK other \in Run : other = land[m] /\ land'[m] = other
        BY <2>2, RunStepType DEF TypeOK
      <3>2. RunOK(other)
        BY <1>1, <3>1
      <3>3. RunOK(other)'
        BY <2>1, <2>4, <3>2 DEF RunOK
      <3>4. QED
        BY <3>1, <3>3 DEF RunOK, Admitted, Reading
    <2>8. land'[l] = run
      BY <2>2, RunStepType DEF TypeOK
    <2>9. QED
      <3>1. RunOK(land[l])'
        BY <2>6, <2>8 DEF RunOK, Admitted, Reading
      <3>2. QED
        BY <2>4, <2>5, <2>7, <3>1 DEF LandInv
  <1>19. ASSUME NEW l \in Landers, Crash(l) PROVE LandInv'
    <2>1. RunStep(l, NoRun) /\ UNCHANGED <<topic, group, table>>
      BY <1>19, NoRunType DEF Crash, RunStep
    <2>2. QED
      BY <1>3, <2>1, NoRunType, OwnStep
  <1>20. QED
    BY <1>4, <1>5, <1>6, <1>7, <1>8, <1>10, <1>11, <1>12, <1>13, <1>14, <1>15, <1>16, <1>17, <1>18,
       <1>19 DEF Next

\* No hole in the landed changelog: provided the table is not recreated under a
\* running lander, whatever crashes, is replayed or lands concurrently, every record
\* below the committed offsets is in the table as soon as the table holds anything.
THEOREM NoHole == ASSUME IsFiniteSet(Ids), ~CarelessRecreate PROVE Spec => []Complete
  <1>1. Init => TypeOK /\ LandInv
    <2>1. Init => LandInv
      BY DEF Init, LandInv, RunOK, NoRun, Admitted, Reading
    <2>2. QED
      BY <2>1, TypeInit
  <1>2. TypeOK /\ LandInv /\ [Next]_cdcVars => (TypeOK /\ LandInv)'
    BY TypeStep, LandStep
  <1>3. LandInv => Complete
    BY DEF LandInv, Covered, CoveredAt, Complete
  <1>4. QED
    BY <1>1, <1>2, <1>3, PTL DEF Spec

-----------------------------------------------------------------------------
(***************************************************************************)
(* Convergence.  Inductive invariant: a delete is final; every captured    *)
(* change of a live row is in the topic, itself or in a read of a later    *)
(* snapshot; every captured delete is in the topic, or in the table of an  *)
(* earlier topic, or nothing of its row is anywhere.                       *)
(***************************************************************************)
\* The changes that a record or a row reflects: 1 .. Reach(r).
Reach(r) == r.lsn + Rank(r)

\* The topic holds the delete of id; it holds nothing of id.
Told(id) ==
  \E p \in Partitions : \E i \in 1 .. Len(topic[p]) : topic[p][i].id = id /\ topic[p][i].op = "d"
Unheard(id) ==
  \A p \in Partitions : \A i \in 1 .. Len(topic[p]) : topic[p][i].id = id => topic[p][i].op = "tombstone"
\* No row of id is in the table or in a batch.
Untouched(id) ==
  /\ \A row \in table : row.id # id
  /\ \A l \in Landers : \A row \in land[l].rows : row.id # id
Buried(id) ==
  \/ Told(id)
  \/ Unheard(id) /\ ((\E row \in table : row.id = id /\ row.op = "d") \/ Untouched(id))

\* The topic holds a record of id that reflects change k.
Reached(id, k) ==
  \E p \in Partitions : \E i \in 1 .. Len(topic[p]) :
    topic[p][i].id = id /\ topic[p][i].op \in RowOps /\ Reach(topic[p][i]) >= k

DeletesFinal ==
  /\ \A j \in 1 .. Len(wal) : wal[j].op = "d" =>
       db[wal[j].id] = 0 /\ \A i \in j + 1 .. Len(wal) : wal[i].id # wal[j].id
  /\ \A k \in 1 .. Len(wal) : db[wal[k].id] = 0 =>
       \E j \in 1 .. Len(wal) : wal[j].id = wal[k].id /\ wal[j].op = "d"
Heard ==
  /\ connector.captured <= Len(wal)
  /\ connector.on => \A k \in 1 .. connector.captured : db[wal[k].id] # 0 => Reached(wal[k].id, k)
  /\ \A k \in 1 .. connector.captured : wal[k].op = "d" /\ wal[k].id \notin missed => Buried(wal[k].id)
Idle == \A l \in Landers : land[l].phase \notin {"polling", "insert"} => land[l].rows = {}

\* Offsets and times of rows have a bound, so a newest row exists.
Bounded(S) == \E n \in Nat : \A row \in S : row.offset <= n /\ row.ingest <= n
RowsBounded == Bounded(table) /\ \A l \in Landers : Bounded(land[l].rows)

ChangeInv == DeletesFinal /\ Heard /\ Idle /\ RowsBounded

LEMMA BoundedFacts ==
  /\ Bounded({})
  /\ \A S \in SUBSET Row, T \in SUBSET Row : Bounded(S) /\ Bounded(T) => Bounded(S \cup T)
  /\ \A row \in Row : Bounded({row})
  /\ \A S, T : T \subseteq S /\ Bounded(S) => Bounded(T)
  <1>1. Bounded({})
    BY DEF Bounded
  <1>2. ASSUME NEW S \in SUBSET Row, NEW T \in SUBSET Row, Bounded(S), Bounded(T)
        PROVE  Bounded(S \cup T)
    <2>1. PICK m \in Nat : \A row \in S : row.offset <= m /\ row.ingest <= m
      BY <1>2 DEF Bounded
    <2>2. PICK n \in Nat : \A row \in T : row.offset <= n /\ row.ingest <= n
      BY <1>2 DEF Bounded
    <2>3. \A row \in S \cup T : row.offset \in Nat /\ row.ingest \in Nat
      BY <1>2 DEF Row
    <2>4. m + n \in Nat /\ \A row \in S \cup T : row.offset <= m + n /\ row.ingest <= m + n
      BY <2>1, <2>2, <2>3
    <2>5. QED
      BY <2>4 DEF Bounded
  <1>3. ASSUME NEW row \in Row PROVE Bounded({row})
    <2>1. row.offset \in Nat /\ row.ingest \in Nat
      BY DEF Row
    <2>2. row.offset + row.ingest \in Nat /\ row.offset <= row.offset + row.ingest
          /\ row.ingest <= row.offset + row.ingest
      BY <2>1
    <2>3. QED
      BY <2>2 DEF Bounded
  <1>4. \A S, T : T \subseteq S /\ Bounded(S) => Bounded(T)
    BY DEF Bounded
  <1>5. QED
    BY <1>1, <1>2, <1>3, <1>4

LEMMA ReachFacts ==
  ASSUME NEW r \in Record \cup Row
  PROVE  /\ r.lsn \in Nat /\ Rank(r) \in {0, 1} /\ Reach(r) \in Nat
         /\ r.op = "r" => Reach(r) = r.lsn
         /\ r.op # "r" => Reach(r) = r.lsn + 1
  BY DEF Reach, Rank, Record, Row

-----------------------------------------------------------------------------
\* A commit deletes what is there and never writes a deleted row.
LEMMA WriteChange ==
  ASSUME TypeOK, ChangeInv, NEW id \in Ids, NEW op \in {"c", "u", "d"}, Write(id, op)
  PROVE  ChangeInv'
  <1> DEFINE n == Len(wal)
  <1>1. /\ wal \in Seq(Change) /\ wal' \in Seq(Change) /\ n \in Nat /\ Len(wal') = n + 1
        /\ \A k \in 1 .. n : wal'[k] = wal[k]
        /\ wal'[n + 1].id = id /\ wal'[n + 1].op = op
        /\ db' = [db EXCEPT ![id] = IF op = "d" THEN 0 ELSE n + 1] /\ db \in [Ids -> Nat]
        /\ UNCHANGED <<connector, missed, topic, group, table, land, runs, upsets>>
    <2>1. wal'[n + 1] = [id |-> id, op |-> op, image |-> IF op = "d" THEN db[id] ELSE n + 1]
      BY WriteEffect
    <2>2. wal'[n + 1].id = id /\ wal'[n + 1].op = op
      BY <2>1
    <2>3. wal \in Seq(Change) /\ db \in [Ids -> Nat]
      BY DEF TypeOK
    <2>4. /\ wal' \in Seq(Change) /\ n \in Nat /\ Len(wal') = n + 1
          /\ \A k \in 1 .. n : wal'[k] = wal[k]
          /\ db' = [db EXCEPT ![id] = IF op = "d" THEN 0 ELSE n + 1]
          /\ UNCHANGED <<connector, missed, topic, group, table, land, runs, upsets>>
      BY WriteEffect
    <2>5. QED
      BY <2>2, <2>3, <2>4
  <1>2. \A k \in 1 .. n : wal[k].id \in Ids
    <2>1. \A k \in 1 .. n : wal[k] \in Change
      BY <1>1
    <2>2. QED
      BY <2>1 DEF Change
  <1>3. \A k \in 1 .. n : wal[k].id = id => db[id] # 0
    BY DEF Write, ChangesOf
  <1>4. \A k \in 1 .. n : wal[k].op = "d" => wal[k].id # id
    BY <1>3 DEF ChangeInv, DeletesFinal
  <1>5. \A j \in 1 .. n + 1 : wal'[j].op = "d" =>
           db'[wal'[j].id] = 0 /\ \A i \in j + 1 .. n + 1 : wal'[i].id # wal'[j].id
    <2> SUFFICES ASSUME NEW j \in 1 .. n + 1, wal'[j].op = "d"
                 PROVE  db'[wal'[j].id] = 0 /\ \A i \in j + 1 .. n + 1 : wal'[i].id # wal'[j].id
      OBVIOUS
    <2>1. CASE j = n + 1
      BY <1>1, <2>1
    <2>2. CASE j # n + 1
      <3>1. j \in 1 .. n /\ wal'[j] = wal[j]
        BY <1>1, <2>2
      <3>2. wal[j].id # id /\ wal[j].id \in Ids /\ db[wal[j].id] = 0
            /\ \A i \in j + 1 .. n : wal[i].id # wal[j].id
        BY <1>2, <1>4, <3>1 DEF ChangeInv, DeletesFinal
      <3>3. \A i \in j + 1 .. n + 1 : i = n + 1 \/ (i \in j + 1 .. n /\ wal'[i] = wal[i])
        BY <1>1, <3>1
      <3>4. QED
        BY <1>1, <3>1, <3>2, <3>3
    <2>3. QED
      BY <2>1, <2>2
  <1>6. \A k \in 1 .. n + 1 : db'[wal'[k].id] = 0 =>
           \E j \in 1 .. n + 1 : wal'[j].id = wal'[k].id /\ wal'[j].op = "d"
    <2> SUFFICES ASSUME NEW k \in 1 .. n + 1, db'[wal'[k].id] = 0
                 PROVE  \E j \in 1 .. n + 1 : wal'[j].id = wal'[k].id /\ wal'[j].op = "d"
      OBVIOUS
    <2>1. n + 1 \in 1 .. n + 1 /\ n + 1 # 0
      BY <1>1
    <2>2. CASE wal'[k].id = id
      <3>1. op = "d"
        BY <1>1, <2>1, <2>2
      <3>2. QED
        BY <1>1, <2>1, <2>2, <3>1
    <2>3. CASE wal'[k].id # id
      <3>1. k \in 1 .. n /\ wal'[k] = wal[k]
        BY <1>1, <2>3
      <3>2. db[wal[k].id] = 0
        BY <1>1, <1>2, <2>3, <3>1
      <3>3. PICK j \in 1 .. n : wal[j].id = wal[k].id /\ wal[j].op = "d"
        BY <3>1, <3>2 DEF ChangeInv, DeletesFinal
      <3>4. j \in 1 .. n + 1
        BY <1>1
      <3>5. QED
        BY <1>1, <3>1, <3>3, <3>4
    <2>4. QED
      BY <2>2, <2>3
  <1>7. DeletesFinal'
    BY <1>1, <1>5, <1>6 DEF DeletesFinal
  <1>8. Heard'
    <2>1. connector.captured \in Nat /\ connector.captured <= n
      BY DEF TypeOK, ChangeInv, Heard
    <2>2. \A k \in 1 .. connector.captured : k \in 1 .. n /\ wal'[k] = wal[k]
      BY <1>1, <2>1
    <2>3. \A k \in 1 .. n : db'[wal[k].id] # 0 => db[wal[k].id] # 0
      BY <1>1, <1>2, <1>3
    <2>4. \A i, k : Reached(i, k)' <=> Reached(i, k)
      BY <1>1 DEF Reached
    <2>5. \A i : Buried(i)' <=> Buried(i)
      BY <1>1 DEF Buried, Told, Unheard, Untouched
    <2>6. \A k \in 1 .. connector.captured : wal[k].op = "d" /\ wal[k].id \notin missed => Buried(wal[k].id)
      BY DEF ChangeInv, Heard
    <2>7. connector.on => \A k \in 1 .. connector.captured : db[wal[k].id] # 0 => Reached(wal[k].id, k)
      BY DEF ChangeInv, Heard
    <2>8. connector.captured <= n + 1
      BY <1>1, <2>1
    <2>9. ASSUME NEW k \in 1 .. connector.captured
          PROVE  /\ connector.on /\ db'[wal'[k].id] # 0 => Reached(wal[k].id, k)'
                 /\ wal'[k].op = "d" /\ wal'[k].id \notin missed => Buried(wal[k].id)'
      <3>1. k \in 1 .. n /\ wal'[k] = wal[k]
        BY <2>2
      <3>2. PICK i \in Ids : i = wal[k].id /\ i = wal'[k].id
        BY <1>2, <3>1
      <3>3. connector.on /\ db'[i] # 0 => Reached(i, k)'
        BY <2>3, <2>4, <2>7, <3>1, <3>2
      <3>4. wal[k].op = "d" /\ i \notin missed => Buried(i)'
        BY <2>5, <2>6, <3>2
      <3>5. QED
        BY <3>1, <3>2, <3>3, <3>4
    <2>10. QED
      BY <1>1, <2>8, <2>9 DEF Heard
  <1>9. Idle' /\ RowsBounded'
    BY <1>1 DEF ChangeInv, Idle, RowsBounded
  <1>10. QED
    BY <1>7, <1>8, <1>9 DEF ChangeInv

\* A snapshot reads every row that exists.
LEMMA RegisterReads ==
  ASSUME IsFiniteSet(Ids), TypeOK, Register, NEW id \in Ids, db[id] # 0
  PROVE  \E i \in 1 .. Len(topic'[PartitionOf[id]]) : topic'[PartitionOf[id]][i] = ReadRecord(id)
  <1> DEFINE q == PartitionOf[id]
             rows(p) == {j \in Ids : PartitionOf[j] = p /\ db[j] # 0}
             m == Cardinality(rows(q))
  <1>1. q \in Partitions /\ topic[q] \in Seq(Record) /\ id \in rows(q)
    BY CdcAssumption DEF TypeOK
  <1>2. PICK order \in [Partitions -> UNION {[1 .. Cardinality(rows(p)) -> rows(p)] : p \in Partitions}] :
           /\ order[q] \in [1 .. m -> rows(q)]
           /\ {order[q][i] : i \in DOMAIN order[q]} = rows(q)
           /\ topic' = [p \in Partitions |->
                topic[p] \o [i \in 1 .. Cardinality(rows(p)) |-> ReadRecord(order[p][i])]]
    BY <1>1 DEF Register, ReadRecord
  <1>3. m \in Nat
    BY FS_Subset, FS_CardinalityType
  <1>4. PICK i \in 1 .. m : order[q][i] = id
    BY <1>1, <1>2
  <1> DEFINE added == [j \in 1 .. m |-> ReadRecord(order[q][j])]
  <1>5. \A j \in 1 .. m : order[q][j] \in Ids
    BY <1>2
  <1>6. added \in [1 .. m -> Record] /\ added[i] = ReadRecord(id)
    BY <1>4, <1>5 DEF TypeOK, ReadRecord, Record, RowOps
  <1>7. topic'[q] = topic[q] \o added
    BY <1>1, <1>2
  <1> HIDE DEF added, m, q, rows
  <1>8. added \in Seq(Record) /\ Len(added) = m
    BY <1>3, <1>6
  <1>9. /\ Len(topic[q]) \in Nat /\ Len(topic[q] \o added) = Len(topic[q]) + m
        /\ (topic[q] \o added)[Len(topic[q]) + i] = ReadRecord(id)
    <2>1. /\ topic[q] \o added \in Seq(Record)
          /\ Len(topic[q]) \in Nat /\ Len(added) \in Nat
          /\ Len(topic[q] \o added) = Len(topic[q]) + Len(added)
          /\ \A j \in 1 .. Len(topic[q]) : (topic[q] \o added)[j] = topic[q][j]
          /\ \A j \in 1 .. Len(added) : (topic[q] \o added)[Len(topic[q]) + j] = added[j]
      <3>1. added \in Seq(Record) /\ topic[q] \in Seq(Record)
        BY <1>1, <1>8
      <3>2. QED
        BY <3>1, ConcatFacts
    <2>2. i \in 1 .. Len(added)
      BY <1>4, <1>8
    <2>3. QED
      BY <1>6, <1>8, <2>1, <2>2
  <1>10. Len(topic[q]) + i \in 1 .. Len(topic'[q])
    BY <1>3, <1>4, <1>7, <1>9
  <1>11. QED
    BY <1>7, <1>9, <1>10 DEF q

\* The topic grows by records of live rows, or of changes later than the captured
\* ones: what was heard of a row stays heard.
LEMMA HeardKept ==
  ASSUME TypeOK, topic' \in [Partitions -> Seq(Record)], Grows(topic', topic),
         NEW id, UNCHANGED <<table, land>>
  PROVE  /\ \A k : Reached(id, k) => Reached(id, k)'
         /\ Told(id) => Told(id)'
         /\ (\A p \in Partitions : \A i \in Len(topic[p]) + 1 .. Len(topic'[p]) : topic'[p][i].id # id)
              /\ Buried(id) => Buried(id)'
  <1>1. \A p \in Partitions : Len(topic[p]) \in Nat /\ Len(topic'[p]) \in Nat /\ Len(topic[p]) <= Len(topic'[p])
    BY DEF TypeOK, Grows
  <1>2. \A p \in Partitions : \A i \in 1 .. Len(topic[p]) : i \in 1 .. Len(topic'[p]) /\ topic'[p][i] = topic[p][i]
    BY <1>1 DEF Grows
  <1>3. \A k : Reached(id, k) => Reached(id, k)'
    BY <1>2 DEF Reached, Reach, Rank
  <1>4. Told(id) => Told(id)'
    BY <1>2 DEF Told
  <1>5. ASSUME \A p \in Partitions : \A i \in Len(topic[p]) + 1 .. Len(topic'[p]) : topic'[p][i].id # id,
               Unheard(id)
        PROVE  Unheard(id)'
    <2>1. \A p \in Partitions : \A i \in 1 .. Len(topic'[p]) :
            i \in 1 .. Len(topic[p]) \/ i \in Len(topic[p]) + 1 .. Len(topic'[p])
      BY <1>1
    <2>2. QED
      BY <1>2, <1>5, <2>1 DEF Unheard
  <1>6. QED
    BY <1>3, <1>4, <1>5 DEF Buried, Untouched

LEMMA RegisterChange ==
  ASSUME IsFiniteSet(Ids), TypeOK, ChangeInv, Register
  PROVE  ChangeInv'
  <1> DEFINE n == Len(wal)
  <1>1. /\ topic' \in [Partitions -> Seq(Record)] /\ Grows(topic', topic)
        /\ \A p \in Partitions : \A i \in Len(topic[p]) + 1 .. Len(topic'[p]) :
             \E id \in Ids : db[id] # 0 /\ topic'[p][i] = ReadRecord(id)
        /\ UNCHANGED <<wal, db, group, table, land, runs, upsets>>
    BY RegisterEffect
  <1>2. connector' = [on |-> TRUE, captured |-> n, base |-> n] /\ n \in Nat
    BY DEF Register, TypeOK
  <1>3. /\ missed \subseteq missed'
        /\ \A k \in connector.captured + 1 .. n : wal[k].op = "d" => wal[k].id \in missed'
    BY DEF Register
  <1>4. \A k \in 1 .. n : wal[k].id \in Ids
    <2>1. \A k \in 1 .. n : wal[k] \in Change
      BY DEF TypeOK
    <2>2. QED
      BY <2>1 DEF Change
  <1>5. ASSUME NEW k \in 1 .. n, db[wal[k].id] # 0
        PROVE  Reached(wal[k].id, k)'
    <2> DEFINE id == wal[k].id
               p == PartitionOf[id]
    <2>1. id \in Ids /\ p \in Partitions
      BY <1>4, CdcAssumption
    <2>2. PICK i \in 1 .. Len(topic'[p]) : topic'[p][i] = ReadRecord(id)
      BY <1>5, <2>1, RegisterReads
    <2>3. ReadRecord(id).id = id /\ ReadRecord(id).op = "r" /\ Reach(ReadRecord(id)) = n
      BY <1>2 DEF ReadRecord, Reach, Rank
    <2>4. topic'[p][i].id = wal'[k].id /\ topic'[p][i].op \in RowOps /\ Reach(topic'[p][i]) >= k
      BY <1>1, <1>2, <2>2, <2>3 DEF RowOps
    <2>5. QED
      BY <2>1, <2>4 DEF Reached, Reach, Rank
  <1>6. ASSUME NEW k \in 1 .. n, wal[k].op = "d", wal[k].id \notin missed'
        PROVE  Buried(wal[k].id)'
    <2>1. connector.captured \in Nat
      BY DEF TypeOK
    <2>2. k \in 1 .. connector.captured
      BY <1>2, <1>3, <1>6, <2>1
    <2>3. Buried(wal[k].id) /\ db[wal[k].id] = 0
      BY <1>3, <1>6, <2>2 DEF ChangeInv, Heard, DeletesFinal
    <2>4. \A id \in Ids : ReadRecord(id).id = id
      BY DEF ReadRecord
    <2>5. \A p \in Partitions : \A i \in Len(topic[p]) + 1 .. Len(topic'[p]) : topic'[p][i].id # wal[k].id
      BY <1>1, <2>3, <2>4
    <2>6. PICK id \in Ids : id = wal[k].id
      BY <1>4
    <2>7. Buried(id)'
      BY <1>1, <2>3, <2>5, <2>6, HeardKept
    <2>8. QED
      BY <1>1, <2>6, <2>7
  <1>7. Heard'
    <2>1. connector'.captured = n /\ n <= n
      BY <1>2
    <2>2. QED
      BY <1>1, <1>5, <1>6, <2>1 DEF Heard
  <1>8. DeletesFinal' /\ Idle' /\ RowsBounded'
    BY <1>1 DEF ChangeInv, DeletesFinal, Idle, RowsBounded
  <1>9. QED
    BY <1>7, <1>8 DEF ChangeInv

\* What Capture appends, in full: for a delete, the delete itself.
LEMMA CaptureRecords ==
  ASSUME TypeOK, Capture
  PROVE  LET k == connector.captured + 1
         IN  /\ k \in 1 .. Len(wal) /\ connector' = [connector EXCEPT !.captured = k]
             /\ \A p \in Partitions : \A i \in Len(topic[p]) + 1 .. Len(topic'[p]) :
                  topic'[p][i].id = wal[k].id
             /\ \E p \in Partitions : \E i \in 1 .. Len(topic'[p]) :
                  topic'[p][i] = [id |-> wal[k].id, op |-> wal[k].op, lsn |-> k - 1, image |-> wal[k].image]
  <1> DEFINE k == connector.captured + 1
             c == wal[k]
             q == PartitionOf[c.id]
             record == [id |-> c.id, op |-> c.op, lsn |-> k - 1, image |-> c.image]
             stone == [record EXCEPT !.op = "tombstone"]
             more == IF c.op = "d" THEN <<record, stone>> ELSE <<record>>
  <1>1. k \in 1 .. Len(wal) /\ connector.captured \in Nat
    BY DEF Capture, TypeOK
  <1>2. c \in Change
    BY <1>1 DEF TypeOK
  <1>3. q \in Partitions /\ record \in Record /\ stone \in Record /\ k - 1 \in Nat
    <2>1. c.id \in Ids /\ c.op \in {"c", "u", "d"} /\ c.image \in Nat /\ k - 1 \in Nat
      BY <1>1, <1>2 DEF Change
    <2>2. record \in Record
      BY <2>1 DEF Record, RowOps
    <2>3. stone \in Record
      BY <2>2 DEF Record
    <2>4. QED
      BY <2>1, <2>2, <2>3, CdcAssumption
  <1>4. topic' = [topic EXCEPT ![q] = @ \o more] /\ connector' = [connector EXCEPT !.captured = k]
    BY DEF Capture
  <1>5. /\ more \in Seq(Record) /\ Len(more) \in Nat /\ 1 \in 1 .. Len(more) /\ more[1] = record
        /\ \A i \in 1 .. Len(more) : more[i] = record \/ more[i] = stone
    <2>1. CASE c.op = "d"
      BY <1>3, <2>1
    <2>2. CASE c.op # "d"
      BY <1>3, <2>2
    <2>3. QED
      BY <2>1, <2>2
  <1>6. record.id = c.id /\ stone.id = c.id
    OBVIOUS
  <1> HIDE DEF more, stone, record, q, c
  <1>7. topic[q] \in Seq(Record) /\ topic'[q] = topic[q] \o more
        /\ \A p \in Partitions : p # q => topic'[p] = topic[p]
    BY <1>3, <1>4 DEF TypeOK
  <1>8. /\ topic[q] \o more \in Seq(Record)
        /\ Len(topic[q]) \in Nat /\ Len(topic[q] \o more) = Len(topic[q]) + Len(more)
        /\ \A i \in 1 .. Len(more) : (topic[q] \o more)[Len(topic[q]) + i] = more[i]
    BY <1>5, <1>7, ConcatFacts
  <1>9. ASSUME NEW p \in Partitions, NEW i \in Len(topic[p]) + 1 .. Len(topic'[p])
        PROVE  topic'[p][i].id = c.id
    <2>1. p = q
      <3>1. p # q => ~(i \in Len(topic[p]) + 1 .. Len(topic[p]))
        BY DEF TypeOK
      <3>2. QED
        BY <1>7, <3>1
    <2>2. i - Len(topic[q]) \in 1 .. Len(more) /\ Len(topic[q]) + (i - Len(topic[q])) = i
      BY <1>5, <1>7, <1>8, <2>1
    <2>3. topic'[p][i] = more[i - Len(topic[q])]
      BY <1>7, <1>8, <2>1, <2>2
    <2>4. QED
      BY <1>5, <1>6, <2>2, <2>3
  <1>10. Len(topic[q]) + 1 \in 1 .. Len(topic'[q]) /\ topic'[q][Len(topic[q]) + 1] = record
    BY <1>5, <1>7, <1>8
  <1>11. QED
    BY <1>1, <1>3, <1>4, <1>9, <1>10 DEF record, c

LEMMA CaptureChange ==
  ASSUME TypeOK, ChangeInv, Capture
  PROVE  ChangeInv'
  <1>0. PICK k \in Nat : k = connector.captured + 1
    BY DEF TypeOK
  <1>1. /\ topic' \in [Partitions -> Seq(Record)] /\ Grows(topic', topic)
        /\ UNCHANGED <<wal, db, missed, group, table, land, runs, upsets>>
    BY CaptureEffect
  <1>2. /\ k \in 1 .. Len(wal) /\ connector' = [connector EXCEPT !.captured = k]
        /\ \A p \in Partitions : \A i \in Len(topic[p]) + 1 .. Len(topic'[p]) :
             topic'[p][i].id = wal[k].id
    BY <1>0, CaptureRecords
  <1>3. PICK p \in Partitions : \E i \in 1 .. Len(topic'[p]) :
          topic'[p][i] = [id |-> wal[k].id, op |-> wal[k].op, lsn |-> k - 1, image |-> wal[k].image]
    BY <1>0, CaptureRecords
  <1>4. PICK i \in 1 .. Len(topic'[p]) :
          topic'[p][i] = [id |-> wal[k].id, op |-> wal[k].op, lsn |-> k - 1, image |-> wal[k].image]
    BY <1>3
  <1>5. connector'.captured = k /\ connector'.on = connector.on /\ connector.captured \in Nat /\ connector.on
        /\ Len(wal) \in Nat
    <2>1. connector \in [on : BOOLEAN, captured : Nat, base : Nat] /\ connector.on /\ Len(wal) \in Nat
      BY DEF TypeOK, Capture
    <2>2. QED
      BY <1>2, <2>1
  <1>6. \A j \in 1 .. Len(wal) : wal[j].id \in Ids /\ wal[j].op \in {"c", "u", "d"}
    <2>1. \A j \in 1 .. Len(wal) : wal[j] \in Change
      BY DEF TypeOK
    <2>2. QED
      BY <2>1 DEF Change
  <1>7. PICK id \in Ids : id = wal[k].id
    BY <1>2, <1>6
  <1>8. topic'[p][i].id = id /\ topic'[p][i].op = wal[k].op /\ topic'[p][i].lsn = k - 1
    BY <1>4, <1>7
  <1>9. Reached(id, k)'
    <2>1. wal[k].op \in {"c", "u", "d"} /\ wal[k].op # "r" /\ wal[k].op \in RowOps
      BY <1>2, <1>6 DEF RowOps
    <2>2. Rank(topic'[p][i]) = 1
      BY <1>8, <2>1 DEF Rank
    <2>3. Reach(topic'[p][i]) = (k - 1) + 1
      BY <1>8, <2>2 DEF Reach
    <2>4. topic'[p][i].lsn + (IF topic'[p][i].op = "r" THEN 0 ELSE 1) >= k
      BY <1>5, <2>3 DEF Reach, Rank
    <2>5. topic'[p][i].op \in RowOps
      BY <1>8, <2>1
    <2>6. QED
      BY <1>8, <2>4, <2>5 DEF Reached, Reach, Rank
  <1>10. wal[k].op = "d" => Buried(id)'
    BY <1>8 DEF Buried, Told
  <1>11. ASSUME NEW j \in 1 .. k
         PROVE  /\ db[wal[j].id] # 0 => Reached(wal[j].id, j)'
                /\ wal[j].op = "d" /\ wal[j].id \notin missed => Buried(wal[j].id)'
    <2>1. CASE j = k
      <3>1. id = wal[j].id /\ id = wal'[j].id
        BY <1>1, <1>7, <2>1
      <3>2. Reached(id, j)' /\ (wal[j].op = "d" => Buried(id)')
        BY <1>9, <1>10, <2>1
      <3>3. QED
        BY <3>1, <3>2
    <2>2. CASE j # k
      <3>1. j \in 1 .. connector.captured /\ j \in 1 .. Len(wal) /\ k \in j + 1 .. Len(wal)
        BY <1>0, <1>2, <1>5, <2>2
      <3>2. PICK other \in Ids : other = wal[j].id
        BY <1>6, <3>1
      <3>3. db[other] # 0 => Reached(other, j)'
        BY <1>1, <1>5, <3>1, <3>2, HeardKept DEF ChangeInv, Heard
      <3>4. ASSUME wal[j].op = "d", other \notin missed PROVE Buried(other)'
        <4>1. wal[k].id # other
          BY <3>1, <3>2, <3>4 DEF ChangeInv, DeletesFinal
        <4>2. Buried(other)
          BY <3>1, <3>2, <3>4 DEF ChangeInv, Heard
        <4>3. QED
          BY <1>1, <1>2, <4>1, <4>2, HeardKept
      <3>5. QED
        BY <1>1, <3>2, <3>3, <3>4
    <2>3. QED
      BY <2>1, <2>2
  <1>12. Heard'
    BY <1>1, <1>2, <1>5, <1>11 DEF Heard
  <1>13. DeletesFinal' /\ Idle' /\ RowsBounded'
    BY <1>1 DEF ChangeInv, DeletesFinal, Idle, RowsBounded
  <1>14. QED
    BY <1>12, <1>13 DEF ChangeInv

\* A step of lander l takes rows from its batch, or from the record it polls.
LEMMA LanderKeeps ==
  ASSUME TypeOK, ChangeInv, NEW l \in Landers, NEW run \in Run, RunStep(l, run),
         UNCHANGED <<wal, db, connector, missed, topic>>,
         table' = table \/ table' = table \cup land[l].rows,
         \A row \in run.rows :
           \/ row \in land[l].rows
           \/ \E p \in Partitions : \E i \in 1 .. Len(topic[p]) :
                topic[p][i].id = row.id /\ topic[p][i].op # "tombstone",
         run.phase \notin {"polling", "insert"} => run.rows = {},
         Bounded(run.rows)
  PROVE  ChangeInv'
  <1>1. /\ land' \in [Landers -> Run] /\ land'[l] = run
        /\ \A m \in Landers \ {l} : land'[m] = land[m]
    BY RunStepType DEF TypeOK
  <1>2. ASSUME NEW id, Buried(id) PROVE Buried(id)'
    <2>1. Told(id) => Told(id)'
      BY DEF Told
    <2>2. Unheard(id) => Unheard(id)'
      BY DEF Unheard
    <2>3. table \subseteq table'
      OBVIOUS
    <2>4. ASSUME Unheard(id), Untouched(id) PROVE Untouched(id)'
      <3>1. \A row \in table' : row.id # id
        BY <2>4 DEF Untouched
      <3>2. \A row \in run.rows : row.id # id
        BY <2>4 DEF Untouched, Unheard
      <3>3. \A m \in Landers : \A row \in land'[m].rows : row.id # id
        BY <1>1, <2>4, <3>2 DEF Untouched
      <3>4. QED
        BY <3>1, <3>3 DEF Untouched
    <2>5. QED
      BY <1>2, <2>1, <2>2, <2>3, <2>4 DEF Buried
  <1>3. \A id, k : Reached(id, k) => Reached(id, k)'
    BY DEF Reached, Reach, Rank
  <1>4. ASSUME NEW k \in 1 .. connector.captured
        PROVE  /\ connector.on /\ db[wal[k].id] # 0 => Reached(wal[k].id, k)'
               /\ wal[k].op = "d" /\ wal[k].id \notin missed => Buried(wal[k].id)'
    <2>1. PICK id : id = wal[k].id /\ id = wal'[k].id
      OBVIOUS
    <2>2. connector.on /\ db[id] # 0 => Reached(id, k)'
      BY <1>3, <2>1 DEF ChangeInv, Heard
    <2>3. wal[k].op = "d" /\ id \notin missed => Buried(id)'
      BY <1>2, <2>1 DEF ChangeInv, Heard
    <2>4. QED
      BY <2>1, <2>2, <2>3
  <1>5. Heard'
    <2>1. connector.captured <= Len(wal)
      BY DEF ChangeInv, Heard
    <2>2. QED
      BY <1>4, <2>1 DEF Heard
  <1>6. DeletesFinal'
    BY DEF ChangeInv, DeletesFinal
  <1>7. Idle'
    BY <1>1 DEF ChangeInv, Idle
  <1>8. RowsBounded'
    <2>1. table \in SUBSET Row /\ land[l].rows \in SUBSET Row
      BY DEF TypeOK, Run
    <2>2. Bounded(table')
      BY <2>1, BoundedFacts DEF ChangeInv, RowsBounded
    <2>3. \A m \in Landers : Bounded(land'[m].rows)
      BY <1>1 DEF ChangeInv, RowsBounded
    <2>4. QED
      BY <2>2, <2>3 DEF RowsBounded, Bounded
  <1>9. QED
    BY <1>5, <1>6, <1>7, <1>8 DEF ChangeInv

LEMMA LanderChange ==
  ASSUME TypeOK, ChangeInv, NEW l \in Landers,
         \/ Count(l) \/ Guard(l) \/ Assign(l) \/ Drained(l) \/ Insert(l) \/ CommitOffsets(l) \/ Crash(l)
         \/ \E p \in Partitions : Poll(l, p)
  PROVE  ChangeInv'
  <1>1. land[l] \in Run /\ Bounded(land[l].rows) /\ Bounded({}) /\ NoRun \in Run
    BY BoundedFacts, NoRunType DEF TypeOK, ChangeInv, RowsBounded
  <1>2. land[l].phase \notin {"polling", "insert"} => land[l].rows = {}
    BY DEF ChangeInv, Idle
  <1>3. NoRun.rows = {}
    BY DEF NoRun
  <1>4. ASSUME NEW run \in Run, RunStep(l, run), UNCHANGED <<wal, db, connector, missed, topic>>,
               table' = table \/ table' = table \cup land[l].rows,
               run.rows \subseteq land[l].rows,
               run.phase \notin {"polling", "insert"} => run.rows = {}
        PROVE  ChangeInv'
    <2>1. Bounded(run.rows)
      BY <1>1, <1>4, BoundedFacts
    <2>2. QED
      BY <1>4, <2>1, LanderKeeps
  <1>5. ASSUME Count(l) PROVE ChangeInv'
    <2>1. PICK run \in Run : RunStep(l, run) /\ run.rows = {}
                             /\ UNCHANGED <<wal, db, connector, missed, topic, table>>
      BY <1>5, CountEffect
    <2>2. QED
      BY <1>4, <2>1
  <1>6. ASSUME Guard(l) PROVE ChangeInv'
    <2>1. PICK phase \in {"absent", "refused", "admitted"} :
            /\ RunStep(l, [land[l] EXCEPT !.phase = phase]) /\ land[l].phase = "counted"
            /\ UNCHANGED <<wal, db, connector, missed, topic, table>>
      BY <1>6, GuardEffect
    <2>2. PICK run \in Run : run = [land[l] EXCEPT !.phase = phase]
      BY <2>1 DEF RunStep
    <2>3. run.rows = {} /\ RunStep(l, run)
      BY <1>1, <1>2, <2>1, <2>2 DEF Run
    <2>4. QED
      BY <1>4, <2>1, <2>3
  <1>7. ASSUME Assign(l) PROVE ChangeInv'
    <2>1. PICK run \in Run : /\ RunStep(l, run) /\ run.phase = "polling" /\ run.rows = land[l].rows
                             /\ UNCHANGED <<wal, db, connector, missed, topic, table>>
      BY <1>7, AssignEffect
    <2>2. QED
      BY <1>4, <2>1
  <1>8. ASSUME Drained(l) PROVE ChangeInv'
    <2>1. PICK run \in Run :
              /\ RunStep(l, run)
              /\ \/ run = NoRun
                 \/ run.phase = "insert" /\ run.rows = land[l].rows /\ run.pos = land[l].pos
                 \/ run.phase = "commit" /\ run.rows = {} /\ land[l].rows = {} /\ run.pos = land[l].pos
      BY <1>8, DrainedEffect
    <2>2. UNCHANGED <<wal, db, connector, missed, topic, table>>
      BY <1>8, DrainedEffect
    <2>3. run.rows \subseteq land[l].rows /\ (run.phase \notin {"polling", "insert"} => run.rows = {})
      BY <1>3, <2>1
    <2>4. QED
      BY <1>4, <2>1, <2>2, <2>3
  <1>9. ASSUME Insert(l) PROVE ChangeInv'
    <2>1. PICK run \in Run : RunStep(l, run) /\ run.rows = {}
      BY <1>9, InsertEffect
    <2>2. table' = table \cup land[l].rows /\ UNCHANGED <<wal, db, connector, missed, topic>>
      BY <1>9, InsertEffect
    <2>3. QED
      BY <1>4, <2>1, <2>2
  <1>10. ASSUME CommitOffsets(l) PROVE ChangeInv'
    <2>1. PICK run \in Run :
              /\ RunStep(l, run)
              /\ \/ run = NoRun
                 \/ run.phase = "polling" /\ run.rows = land[l].rows /\ run.pos = land[l].pos
      BY <1>10, CommitEffect
    <2>2. UNCHANGED <<wal, db, connector, missed, topic, table>>
      BY <1>10, CommitEffect
    <2>3. QED
      BY <1>3, <1>4, <2>1, <2>2
  <1>11. ASSUME Crash(l) PROVE ChangeInv'
    <2>1. RunStep(l, NoRun) /\ UNCHANGED <<wal, db, connector, missed, topic, table>>
      BY <1>1, <1>11 DEF Crash, RunStep
    <2>2. QED
      BY <1>1, <1>3, <1>4, <2>1
  <1>12. ASSUME NEW p \in Partitions, Poll(l, p) PROVE ChangeInv'
    <2> DEFINE o == land[l].pos[p] + 1
               row == RowOf(topic[p][o], p, land[l].pos[p], land[l].ingest)
    <2>1. o \in 1 .. Len(topic[p]) /\ UNCHANGED <<wal, db, connector, missed, topic, table>>
      BY <1>12, PollEffect
    <2>2. PICK run \in Run :
            /\ RunStep(l, run) /\ run.phase \in {"polling", "insert"}
            /\ run.rows = IF Landable(topic[p][o]) THEN land[l].rows \cup {row} ELSE land[l].rows
      BY <1>12, PollEffect
    <2>3. row.id = topic[p][o].id
      BY DEF RowOf
    <2>4. Landable(topic[p][o]) => topic[p][o].op # "tombstone"
      BY DEF Landable, RowOps
    <2> HIDE DEF o, row
    <2>5. CASE Landable(topic[p][o])
      <3>1. run.rows = land[l].rows \cup {row}
        BY <2>2, <2>5
      <3>2. run.rows \subseteq Row /\ land[l].rows \subseteq Row
        BY <1>1 DEF Run
      <3>3. row \in Row
        BY <3>1, <3>2
      <3>4. Bounded(run.rows)
        BY <1>1, <3>1, <3>2, <3>3, BoundedFacts
      <3>5. \A r \in run.rows :
               \/ r \in land[l].rows
               \/ \E q \in Partitions : \E i \in 1 .. Len(topic[q]) :
                    topic[q][i].id = r.id /\ topic[q][i].op # "tombstone"
        BY <2>1, <2>3, <2>4, <2>5, <3>1
      <3>6. QED
        BY <2>1, <2>2, <3>4, <3>5, LanderKeeps
    <2>6. CASE ~Landable(topic[p][o])
      BY <1>4, <2>1, <2>2, <2>6
    <2>7. QED
      BY <2>5, <2>6
  <1>13. QED
    BY <1>5, <1>6, <1>7, <1>8, <1>9, <1>10, <1>11, <1>12

\* A new topic: what it no longer tells is in the table, or counts as missed.
LEMMA RecreateTopicChange ==
  ASSUME TypeOK, ChangeInv, RecreateTopic
  PROVE  ChangeInv'
  <1>1. /\ topic' = [p \in Partitions |-> <<>>]
        /\ connector' = [connector EXCEPT !.on = FALSE]
        /\ missed' = missed \cup {id \in Ids : ChangesOf(id, Len(wal)) # {} /\ db[id] = 0
                                    /\ ~\E row \in table : row.id = id /\ row.op = "d"}
        /\ UNCHANGED <<wal, db, table, land, runs>>
    BY DEF RecreateTopic
  <1>2. connector \in [on : BOOLEAN, captured : Nat, base : Nat] /\ Len(wal) \in Nat
    BY DEF TypeOK
  <1>3. connector'.captured = connector.captured /\ ~connector'.on
    BY <1>1, <1>2
  <1>4. \A id : Unheard(id)'
    <2>1. \A p \in Partitions : topic'[p] = <<>> /\ Len(<<>>) = 0
      BY <1>1
    <2>2. QED
      BY <2>1 DEF Unheard
  <1>5. connector.captured \in Nat /\ connector.captured <= Len(wal)
    BY <1>2 DEF ChangeInv, Heard
  <1>6. ASSUME NEW k \in 1 .. connector.captured, wal[k].op = "d", wal[k].id \notin missed'
        PROVE  Buried(wal[k].id)'
    <2>1. k \in 1 .. Len(wal)
      BY <1>2, <1>5
    <2>2. wal[k] \in Change
      BY <2>1 DEF TypeOK
    <2>3. PICK id \in Ids : id = wal[k].id
      BY <2>2 DEF Change
    <2>4. db[id] = 0 /\ k \in ChangesOf(id, Len(wal))
      BY <1>6, <2>1, <2>3 DEF ChangeInv, DeletesFinal, ChangesOf
    <2>5. \E row \in table : row.id = id /\ row.op = "d"
      BY <1>1, <1>6, <2>3, <2>4
    <2>6. Buried(id)'
      BY <1>1, <1>4, <2>5 DEF Buried
    <2>7. QED
      BY <1>1, <2>3, <2>6
  <1>7. Heard'
    BY <1>1, <1>3, <1>5, <1>6 DEF Heard
  <1>8. DeletesFinal' /\ Idle' /\ RowsBounded'
    BY <1>1 DEF ChangeInv, DeletesFinal, Idle, RowsBounded
  <1>9. QED
    BY <1>7, <1>8 DEF ChangeInv

\* A new table under no run: what it held is in no batch either.
LEMMA RecreateChange ==
  ASSUME ~CarelessRecreate, TypeOK, ChangeInv, Recreate
  PROVE  ChangeInv'
  <1>1. table' = {} /\ UNCHANGED <<wal, db, connector, missed, topic, group, land, runs>>
        /\ \A l \in Landers : Ended(l)
    BY DEF Recreate
  <1>2. \A l \in Landers : land[l].rows = {}
    BY <1>1 DEF Ended, ChangeInv, Idle
  <1>3. \A id : Untouched(id)'
    BY <1>1, <1>2 DEF Untouched
  <1>4. \A id : Buried(id) => Buried(id)'
    BY <1>1, <1>3 DEF Buried, Told, Unheard
  <1>5. \A id, k : Reached(id, k) => Reached(id, k)'
    BY <1>1 DEF Reached, Reach, Rank
  <1>6. ASSUME NEW k \in 1 .. connector.captured
        PROVE  /\ connector.on /\ db[wal[k].id] # 0 => Reached(wal[k].id, k)'
               /\ wal[k].op = "d" /\ wal[k].id \notin missed => Buried(wal[k].id)'
    <2>1. PICK id : id = wal[k].id /\ id = wal'[k].id
      BY <1>1
    <2>2. connector.on /\ db[id] # 0 => Reached(id, k)'
      BY <1>5, <2>1 DEF ChangeInv, Heard
    <2>3. wal[k].op = "d" /\ id \notin missed => Buried(id)'
      BY <1>4, <2>1 DEF ChangeInv, Heard
    <2>4. QED
      BY <2>1, <2>2, <2>3
  <1>7. Heard'
    <2>1. connector.captured <= Len(wal)
      BY DEF ChangeInv, Heard
    <2>2. QED
      BY <1>1, <1>6, <2>1 DEF Heard
  <1>8. DeletesFinal' /\ Idle' /\ RowsBounded'
    BY <1>1, BoundedFacts DEF ChangeInv, DeletesFinal, Idle, RowsBounded, Bounded
  <1>9. QED
    BY <1>7, <1>8 DEF ChangeInv

LEMMA ChangeStep ==
  ASSUME IsFiniteSet(Ids), ~CarelessRecreate, TypeOK, ChangeInv, [Next]_cdcVars
  PROVE  ChangeInv'
  <1>1. ASSUME UNCHANGED <<wal, db, missed, topic, table, land>>,
               connector'.on => connector.on, connector'.captured <= connector.captured,
               connector'.captured \in Nat
        PROVE  ChangeInv'
    <2>1. connector.captured \in Nat /\ connector.captured <= Len(wal) /\ Len(wal) \in Nat
      BY DEF TypeOK, ChangeInv, Heard
    <2>2. \A k \in 1 .. connector'.captured : k \in 1 .. connector.captured
      BY <1>1, <2>1
    <2>3. /\ \A id, k : Reached(id, k) <=> Reached(id, k)'
          /\ \A id : Buried(id) <=> Buried(id)'
      BY <1>1 DEF Reached, Reach, Rank, Buried, Told, Unheard, Untouched
    <2>4. ASSUME NEW k \in 1 .. connector'.captured
          PROVE  /\ connector'.on /\ db[wal[k].id] # 0 => Reached(wal[k].id, k)'
                 /\ wal[k].op = "d" /\ wal[k].id \notin missed => Buried(wal[k].id)'
      <3>1. PICK id : id = wal[k].id /\ id = wal'[k].id
        BY <1>1
      <3>2. connector'.on /\ db[id] # 0 => Reached(id, k)'
        BY <1>1, <2>2, <2>3, <3>1 DEF ChangeInv, Heard
      <3>3. wal[k].op = "d" /\ id \notin missed => Buried(id)'
        BY <2>2, <2>3, <3>1 DEF ChangeInv, Heard
      <3>4. QED
        BY <3>1, <3>2, <3>3
    <2>5. connector'.captured <= Len(wal)
      BY <1>1, <2>1
    <2>6. Heard'
      BY <1>1, <2>4, <2>5 DEF Heard
    <2>7. DeletesFinal' /\ Idle' /\ RowsBounded'
      BY <1>1 DEF ChangeInv, DeletesFinal, Idle, RowsBounded, Bounded
    <2>8. QED
      BY <2>6, <2>7 DEF ChangeInv
  <1>2. connector \in [on : BOOLEAN, captured : Nat, base : Nat]
    BY DEF TypeOK
  <1>3. CASE Unregister
    BY <1>1, <1>2, <1>3 DEF Unregister
  <1>4. CASE Restart
    <2>1. PICK k \in connector.base .. connector.captured - 1 : connector' = [connector EXCEPT !.captured = k]
      BY <1>4 DEF Restart
    <2>2. k \in Nat /\ k <= connector.captured
      BY <1>2, <2>1
    <2>3. connector'.on = connector.on /\ connector'.captured = k
      BY <1>2, <2>1
    <2>4. UNCHANGED <<wal, db, missed, topic, table, land>>
      BY <1>4 DEF Restart
    <2>5. QED
      BY <1>1, <2>2, <2>3, <2>4
  <1>5. CASE ResetGroup \/ UNCHANGED cdcVars
    <2>1. UNCHANGED <<wal, db, missed, topic, table, land, connector>>
      BY <1>5 DEF ResetGroup, cdcVars
    <2>2. connector'.captured \in Nat /\ connector'.captured <= connector.captured
      BY <1>2, <2>1
    <2>3. QED
      BY <1>1, <2>1, <2>2
  <1>6. ASSUME NEW l \in Landers,
               \/ Count(l) \/ Guard(l) \/ Assign(l) \/ Drained(l) \/ Insert(l) \/ CommitOffsets(l) \/ Crash(l)
               \/ \E p \in Partitions : Poll(l, p)
        PROVE  ChangeInv'
    BY <1>6, LanderChange
  <1>7. QED
    BY <1>3, <1>4, <1>5, <1>6, WriteChange, RegisterChange, CaptureChange, RecreateTopicChange,
       RecreateChange DEF Next

LEMMA ChangeInit == Init => ChangeInv
  <1> SUFFICES ASSUME Init PROVE ChangeInv
    OBVIOUS
  <1>1. wal = <<>> /\ Len(wal) = 0 /\ connector.captured = 0 /\ table = {}
        /\ \A l \in Landers : land[l].rows = {}
    BY DEF Init, NoRun
  <1>2. DeletesFinal /\ Heard /\ Idle
    BY <1>1 DEF DeletesFinal, Heard, Idle
  <1>3. RowsBounded
    BY <1>1, BoundedFacts DEF RowsBounded
  <1>4. QED
    BY <1>2, <1>3 DEF ChangeInv

-----------------------------------------------------------------------------
(***************************************************************************)
(* The newest row of a key exists, and shows the last change it reflects.  *)
(***************************************************************************)
\* The greatest element: the least of the intervals from its elements up.
LEMMA Greatest ==
  ASSUME NEW S \in SUBSET Nat, S # {}, NEW n \in Nat, \A s \in S : s <= n
  PROVE  \E m \in S : \A s \in S : s <= m
  <1> DEFINE T == {s .. n : s \in S}
  <1>1. T \subseteq FiniteSubsetsOf(Nat) /\ T # {}
    <2>1. \A s \in S : s .. n \subseteq Nat /\ IsFiniteSet(s .. n)
      BY FS_Interval
    <2>2. QED
      BY <2>1 DEF FiniteSubsetsOf
  <1> HIDE DEF T
  <1>2. PICK x \in T : \A y \in T : <<y, x>> \notin StrictSubsetOrdering(Nat)
    BY <1>1, WFMin, FS_StrictSubsetOrderingWellFounded
  <1>3. PICK m \in S : x = m .. n
    BY DEF T
  <1>4. ASSUME NEW s \in S, ~(s <= m) PROVE FALSE
    <2>1. s .. n \in T
      BY DEF T
    <2>2. s .. n \subseteq m .. n /\ m \in m .. n /\ m \notin s .. n
      BY <1>4
    <2>3. <<s .. n, x>> \in StrictSubsetOrdering(Nat)
      BY <1>1, <1>3, <2>1, <2>2 DEF StrictSubsetOrdering, FiniteSubsetsOf
    <2>4. QED
      BY <1>2, <2>1, <2>3
  <1>5. QED
    BY <1>4

LEMMA Highest ==
  ASSUME NEW S, S # {}, NEW f \in [S -> Nat], NEW n \in Nat, \A s \in S : f[s] <= n
  PROVE  \E m \in S : \A s \in S : f[s] <= f[m]
  <1> DEFINE V == {f[s] : s \in S}
  <1>1. V \in SUBSET Nat /\ V # {} /\ \A v \in V : v <= n
    OBVIOUS
  <1> HIDE DEF V
  <1>2. PICK v \in V : \A u \in V : u <= v
    BY <1>1, Greatest
  <1>3. QED
    BY <1>2 DEF V

LEMMA NewestExists ==
  ASSUME NEW S \in SUBSET Row, S # {}, Bounded(S), NEW n \in Nat, \A row \in S : row.lsn <= n
  PROVE  \E r \in S : \A other \in S : ~Newer(other, r)
  <1>1. PICK b \in Nat : \A row \in S : row.offset <= b /\ row.ingest <= b
    BY DEF Bounded
  <1>2. \A row \in S : row.lsn \in Nat /\ Rank(row) \in {0, 1} /\ row.offset \in Nat /\ row.ingest \in Nat
    BY DEF Row, Rank
  <1>3. PICK r1 \in S : \A row \in S : row.lsn <= r1.lsn
    <2> DEFINE f == [row \in S |-> row.lsn]
    <2>1. f \in [S -> Nat] /\ (\A row \in S : f[row] <= n) /\ \A row \in S : f[row] = row.lsn
      BY <1>2
    <2> HIDE DEF f
    <2>2. \E m \in S : \A s \in S : f[s] <= f[m]
      BY <2>1, Highest
    <2>3. QED
      BY <2>1, <2>2
  <1> DEFINE A == {row \in S : row.lsn = r1.lsn}
  <1>4. PICK r2 \in A : \A row \in A : Rank(row) <= Rank(r2)
    <2> DEFINE f == [row \in A |-> Rank(row)]
    <2>1. f \in [A -> Nat] /\ (\A row \in A : f[row] <= 1) /\ A # {} /\ \A row \in A : f[row] = Rank(row)
      BY <1>2, <1>3
    <2> HIDE DEF f, A
    <2>2. \E m \in A : \A s \in A : f[s] <= f[m]
      BY <2>1, Highest
    <2>3. QED
      BY <2>1, <2>2
  <1> DEFINE B == {row \in A : Rank(row) = Rank(r2)}
  <1>5. PICK r3 \in B : \A row \in B : row.offset <= r3.offset
    <2> DEFINE f == [row \in B |-> row.offset]
    <2>1. f \in [B -> Nat] /\ (\A row \in B : f[row] <= b) /\ B # {} /\ \A row \in B : f[row] = row.offset
      BY <1>1, <1>2, <1>4
    <2> HIDE DEF f, B
    <2>2. \E m \in B : \A s \in B : f[s] <= f[m]
      BY <1>1, <2>1, Highest
    <2>3. QED
      BY <2>1, <2>2
  <1> DEFINE C == {row \in B : row.offset = r3.offset}
  <1>6. PICK r \in C : \A row \in C : row.ingest <= r.ingest
    <2> DEFINE f == [row \in C |-> row.ingest]
    <2>1. f \in [C -> Nat] /\ (\A row \in C : f[row] <= b) /\ C # {} /\ \A row \in C : f[row] = row.ingest
      BY <1>1, <1>2, <1>5
    <2> HIDE DEF f, C
    <2>2. \E m \in C : \A s \in C : f[s] <= f[m]
      BY <1>1, <2>1, Highest
    <2>3. QED
      BY <2>1, <2>2
  <1>7. r \in S /\ r.lsn = r1.lsn /\ Rank(r) = Rank(r2) /\ r.offset = r3.offset
    BY <1>6
  <1>8. ASSUME NEW other \in S, Newer(other, r) PROVE FALSE
    <2>1. other.lsn <= r1.lsn
      BY <1>3
    <2>2. other.lsn = r1.lsn => Rank(other) <= Rank(r2)
      BY <1>4
    <2>3. other.lsn = r1.lsn /\ Rank(other) = Rank(r2) => other.offset <= r3.offset
      BY <1>5
    <2>4. other.lsn = r1.lsn /\ Rank(other) = Rank(r2) /\ other.offset = r3.offset => other.ingest <= r.ingest
      BY <1>6
    <2>5. /\ other.lsn \in Nat /\ Rank(other) \in Nat /\ other.offset \in Nat /\ other.ingest \in Nat
          /\ r.lsn \in Nat /\ Rank(r) \in Nat /\ r.offset \in Nat /\ r.ingest \in Nat
      BY <1>2, <1>7
    <2> HIDE DEF A, B, C
    <2>6. QED
      BY <1>7, <1>8, <2>1, <2>2, <2>3, <2>4, <2>5 DEF Newer
  <1>9. QED
    BY <1>7, <1>8

\* A genuine row shows the last change of its key among those it reflects.
LEMMA GenuineReach ==
  ASSUME NEW w \in Seq(Change), NEW r \in Row, Genuine(w, r)
  PROVE  /\ Reach(r) \in Nat /\ Reach(r) <= Len(w)
         /\ \E k \in 1 .. Reach(r) : LastAt(w, k, r.id, Reach(r)) /\ Shows(r) = <<w[k].image, w[k].op = "d">>
  <1>1. /\ r.lsn \in Nat /\ Reach(r) \in Nat
        /\ r.op = "r" => Reach(r) = r.lsn
        /\ r.op # "r" => Reach(r) = r.lsn + 1
    BY ReachFacts
  <1>2. CASE r.op = "r"
    BY <1>1, <1>2 DEF Genuine, Read, Shows
  <1>3. CASE r.op # "r"
    <2>1. Reach(r) = r.lsn + 1 /\ Reach(r) <= Len(w) /\ Reach(r) \in 1 .. Reach(r)
      BY <1>1, <1>3 DEF Genuine
    <2>2. w[Reach(r)].id = r.id /\ w[Reach(r)].op = r.op /\ w[Reach(r)].image = r.image
      BY <1>3, <2>1 DEF Genuine
    <2>3. LastAt(w, Reach(r), r.id, Reach(r)) /\ Shows(r) = <<w[Reach(r)].image, w[Reach(r)].op = "d">>
      BY <1>1, <2>1, <2>2 DEF LastAt, Shows
    <2>4. QED
      BY <1>1, <2>1, <2>3
  <1>4. QED
    BY <1>2, <1>3

\* The row that the resolution picks among rows of one key.
LatestOf(S) == CHOOSE row \in {row \in S : \A other \in S : ~Newer(other, row)} : TRUE

\* It reflects at least what any other row does.
LEMMA LatestReflects ==
  ASSUME NEW w \in Seq(Change), NEW S \in SUBSET Row, S # {}, Bounded(S), \A row \in S : Genuine(w, row)
  PROVE  /\ LatestOf(S) \in S
         /\ \A row \in S : Reach(row) <= Reach(LatestOf(S))
  <1>1. \A row \in S : row.lsn <= Len(w)
    <2>1. ASSUME NEW row \in S PROVE row.lsn <= Len(w)
      <3>1. row.lsn \in Nat /\ Len(w) \in Nat
        BY DEF Row
      <3>2. QED
        BY <3>1 DEF Genuine
    <2>2. QED
      BY <2>1
  <1>2. \E r \in S : \A other \in S : ~Newer(other, r)
    <2>1. Len(w) \in Nat
      OBVIOUS
    <2>2. QED
      BY <1>1, <2>1, NewestExists
  <1>3. LatestOf(S) \in S /\ \A other \in S : ~Newer(other, LatestOf(S))
    BY <1>2 DEF LatestOf
  <1>4. ASSUME NEW row \in S PROVE Reach(row) <= Reach(LatestOf(S))
    <2>1. PICK last \in Row : last = LatestOf(S) /\ ~Newer(row, last)
      BY <1>3
    <2>2. /\ row.lsn \in Nat /\ Rank(row) \in {0, 1}
          /\ last.lsn \in Nat /\ Rank(last) \in {0, 1}
      BY ReachFacts
    <2>3. row.lsn <= last.lsn /\ (row.lsn = last.lsn => Rank(row) <= Rank(last))
      BY <2>1, <2>2 DEF Newer
    <2>4. Reach(row) <= Reach(last)
      BY <2>2, <2>3 DEF Reach
    <2>5. QED
      BY <2>1, <2>4
  <1>5. QED
    BY <1>3, <1>4

LEMMA LatestFacts ==
  ASSUME TypeOK, TableGenuine, Bounded(table), NEW id, RowsOf(id) # {}
  PROVE  /\ Latest(id) \in RowsOf(id) /\ Latest(id) \in Row /\ Genuine(wal, Latest(id))
         /\ \A row \in RowsOf(id) : Reach(row) <= Reach(Latest(id))
  <1>1. RowsOf(id) \subseteq Row /\ (\A row \in RowsOf(id) : Genuine(wal, row)) /\ Bounded(RowsOf(id))
    BY DEF TypeOK, RowsOf, TableGenuine, Bounded
  <1>2. Latest(id) = LatestOf(RowsOf(id))
    BY DEF Latest, Candidates, LatestOf
  <1>3. /\ LatestOf(RowsOf(id)) \in RowsOf(id)
        /\ \A row \in RowsOf(id) : Reach(row) <= Reach(LatestOf(RowsOf(id)))
    BY <1>1, LatestReflects DEF TypeOK
  <1>4. QED
    BY <1>1, <1>2, <1>3

-----------------------------------------------------------------------------
LEMMA AllLanded ==
  ASSUME TypeOK, LandInv, CaughtUp, NEW p \in Partitions, NEW i \in 1 .. Len(topic[p]),
         topic[p][i].op # "tombstone"
  PROVE  \E row \in table : row.id = topic[p][i].id /\ row.op = topic[p][i].op /\ Reach(row) = Reach(topic[p][i])
  <1>1. Len(topic[p]) \in Nat /\ group[p] \in Nat \cup {-1} /\ StartOffset(p) = Len(topic[p])
    BY DEF TypeOK, CaughtUp
  <1>2. i <= group[p]
    BY <1>1 DEF StartOffset
  <1>3. CoveredAt(p, topic[p], table, group[p])
    BY DEF LandInv, CaughtUp, Covered
  <1>4. PICK row \in table : row = RowOf(topic[p][i], p, i - 1, row.ingest)
    BY <1>2, <1>3 DEF CoveredAt
  <1>5. row.id = topic[p][i].id /\ row.op = topic[p][i].op /\ row.lsn = topic[p][i].lsn
    BY <1>4 DEF RowOf
  <1>6. QED
    BY <1>5 DEF Reach, Rank

\* A live row: its last change is reflected by a row that landed, and nothing
\* reflects more.
LEMMA LiveShown ==
  ASSUME TypeOK, Provenance, LandInv, ChangeInv, CaughtUp, NEW id \in Ids, db[id] # 0
  PROVE  View(id) = <<db[id], FALSE>>
  <1> DEFINE n == Len(wal)
  <1>1. n \in Nat /\ wal \in Seq(Change)
    BY DEF TypeOK
  <1>2. PICK k \in 1 .. n : LastAt(wal, k, id, n) /\ wal[k].op # "d" /\ wal[k].image = db[id]
    BY DEF Provenance, DbIsLast, Read
  <1>3. Reached(id, k)
    BY <1>2 DEF CaughtUp, ChangeInv, Heard, LastAt
  <1>4. PICK p \in Partitions : \E i \in 1 .. Len(topic[p]) :
          topic[p][i].id = id /\ topic[p][i].op \in RowOps /\ Reach(topic[p][i]) >= k
    BY <1>3 DEF Reached
  <1>5. PICK i \in 1 .. Len(topic[p]) :
          topic[p][i].id = id /\ topic[p][i].op \in RowOps /\ Reach(topic[p][i]) >= k
    BY <1>4
  <1>6. topic[p][i].op # "tombstone"
    BY <1>5 DEF RowOps
  <1>7. PICK row \in table : row.id = id /\ Reach(row) = Reach(topic[p][i])
    BY <1>5, <1>6, AllLanded
  <1>8. row \in RowsOf(id) /\ row \in Row
    BY <1>7 DEF RowsOf, TypeOK
  <1>9. PICK r \in Row : /\ r = Latest(id) /\ r \in RowsOf(id) /\ Genuine(wal, r)
                         /\ Reach(row) <= Reach(r)
    BY <1>8, LatestFacts DEF Provenance, ChangeInv, RowsBounded
  <1>10. r.id = id
    BY <1>9 DEF RowsOf
  <1>11. Reach(r) \in Nat /\ Reach(r) <= n
    BY <1>1, <1>9, GenuineReach
  <1>12. PICK j \in 1 .. Reach(r) : LastAt(wal, j, id, Reach(r)) /\ Shows(r) = <<wal[j].image, wal[j].op = "d">>
    BY <1>1, <1>9, <1>10, GenuineReach
  <1>13. Reach(row) \in Nat /\ k <= Reach(r)
    BY <1>5, <1>7, <1>8, <1>9, <1>11, ReachFacts
  <1>14. j = k
    BY <1>1, <1>2, <1>11, <1>12, <1>13 DEF LastAt
  <1>15. (wal[k].op = "d") = FALSE
    BY <1>2
  <1>16. View(id) = Shows(r)
    BY <1>8, <1>9 DEF View
  <1>17. QED
    BY <1>2, <1>12, <1>14, <1>15, <1>16

\* A deleted row: the table holds its delete, and nothing reflects more.
LEMMA DeadShown ==
  ASSUME TypeOK, Provenance, LandInv, ChangeInv, CaughtUp, NEW id \in Ids \ missed, db[id] = 0,
         RowsOf(id) # {}
  PROVE  View(id)[2]
  <1> DEFINE n == Len(wal)
  <1>1. n \in Nat /\ wal \in Seq(Change) /\ table \subseteq Row
    BY DEF TypeOK
  <1>2. PICK r \in Row : /\ r = Latest(id) /\ r \in RowsOf(id) /\ Genuine(wal, r)
                         /\ \A row \in RowsOf(id) : Reach(row) <= Reach(r)
    BY LatestFacts DEF Provenance, ChangeInv, RowsBounded
  <1>3. r.id = id /\ Reach(r) \in Nat /\ Reach(r) <= n
    BY <1>1, <1>2, GenuineReach DEF RowsOf
  <1>4. PICK k \in 1 .. Reach(r) : LastAt(wal, k, id, Reach(r)) /\ Shows(r) = <<wal[k].image, wal[k].op = "d">>
    BY <1>1, <1>2, <1>3, GenuineReach
  <1>5. k \in 1 .. n /\ wal[k].id = id
    BY <1>1, <1>3, <1>4 DEF LastAt
  <1>6. PICK j \in 1 .. n : wal[j].id = id /\ wal[j].op = "d"
    BY <1>5 DEF ChangeInv, DeletesFinal
  <1>7. Buried(id)
    BY <1>6 DEF CaughtUp, ChangeInv, Heard
  <1>8. \E row \in table : row.id = id /\ row.op = "d"
    <2>1. CASE Told(id)
      <3>1. PICK p \in Partitions : \E i \in 1 .. Len(topic[p]) : topic[p][i].id = id /\ topic[p][i].op = "d"
        BY <2>1 DEF Told
      <3>2. PICK i \in 1 .. Len(topic[p]) : topic[p][i].id = id /\ topic[p][i].op = "d"
        BY <3>1
      <3>3. QED
        BY <3>2, AllLanded
    <2>2. CASE ~Told(id)
      BY <1>7, <2>2 DEF Buried, Untouched, RowsOf
    <2>3. QED
      BY <2>1, <2>2
  <1>9. PICK row \in table : row.id = id /\ row.op = "d"
    BY <1>8
  <1>10. row \in Row /\ row \in RowsOf(id) /\ Genuine(wal, row)
    BY <1>1, <1>9 DEF RowsOf, Provenance, TableGenuine
  <1>11. /\ row.lsn \in Nat /\ Reach(row) = row.lsn + 1
         /\ row.lsn + 1 <= n /\ wal[row.lsn + 1].id = id /\ wal[row.lsn + 1].op = "d"
    BY <1>9, <1>10, ReachFacts DEF Genuine
  <1>12. PICK m \in 1 .. n : m = row.lsn + 1 /\ m = Reach(row)
    BY <1>1, <1>11
  <1>13. \A i \in m + 1 .. n : wal[i].id # id
    BY <1>11, <1>12 DEF ChangeInv, DeletesFinal
  <1>14. m <= Reach(r)
    <2>1. Reach(row) <= Reach(r)
      BY <1>2, <1>10
    <2>2. QED
      BY <1>12, <2>1
  <1>15. k = m
    BY <1>1, <1>3, <1>4, <1>5, <1>11, <1>12, <1>13, <1>14 DEF LastAt
  <1>16. View(id) = Shows(r)
    BY <1>2 DEF View
  <1>17. (wal[k].op = "d") = TRUE
    BY <1>11, <1>12, <1>15
  <1>18. View(id) = <<wal[k].image, TRUE>>
    BY <1>4, <1>16, <1>17
  <1>19. QED
    BY <1>18

\* Once everything is captured and landed, the dimension agrees with the database on
\* every key whose delete was not lost, whatever was replayed, restarted, recreated
\* or landed twice on the way.
THEOREM DimensionConverges == ASSUME IsFiniteSet(Ids), ~CarelessRecreate PROVE Spec => []Converges
  <1> DEFINE Inv == TypeOK /\ Provenance /\ LandInv /\ ChangeInv
  <1>1. Init => Inv
    <2>1. Init => Provenance
      BY DEF Init, NoRun, Provenance, DbIsLast, TopicGenuine, TableGenuine, BatchGenuine
    <2>2. Init => LandInv
      BY DEF Init, LandInv, RunOK, NoRun, Admitted, Reading
    <2>3. QED
      BY <2>1, <2>2, TypeInit, ChangeInit
  <1>2. Inv /\ [Next]_cdcVars => Inv'
    BY TypeStep, ProvenanceStep, LandStep, ChangeStep
  <1>3. Inv => Converges
    <2> SUFFICES ASSUME Inv, CaughtUp, NEW id \in Ids \ missed
                 PROVE  IF db[id] # 0 THEN View(id) = <<db[id], FALSE>>
                        ELSE View(id) = Nothing \/ View(id)[2]
      BY DEF Converges
    <2>1. CASE db[id] # 0
      BY <2>1, LiveShown
    <2>2. CASE db[id] = 0
      <3>1. RowsOf(id) = {} => View(id) = Nothing
        BY DEF View
      <3>2. QED
        BY <2>2, <3>1, DeadShown
    <2>3. QED
      BY <2>1, <2>2
  <1>4. QED
    BY <1>1, <1>2, <1>3, PTL DEF Spec

-----------------------------------------------------------------------------
(***************************************************************************)
(* Refinement of Dimension.  A row that shows change k of the database     *)
(* shows version number |Own(wal, id, k)| of its key's history.            *)
(***************************************************************************)
\* The changes of a key among the first m, as a value of the log, and how many.
Own(w, id, m) == {k \in 1 .. m : w[k].id = id}
Number(w, id, m) == Cardinality(Own(w, id, m))
Version(w, k) == <<w[k].image, w[k].op = "d">>
HistoryOf(w, id) ==
  LET own == Own(w, id, Len(w))
      nth(i) == CHOOSE k \in own : Cardinality({j \in own : j <= k}) = i
  IN  [i \in 1 .. Cardinality(own) |-> Version(w, nth(i))]

\* The number grows by one at each change of the key, and nowhere else.
Numbered(w, id) ==
  /\ \A m \in Nat : Number(w, id, m) \in Nat
  /\ Number(w, id, 0) = 0
  /\ \A a, b \in Nat : a <= b => Number(w, id, a) <= Number(w, id, b)
  /\ \A a, b \in Nat : a < b /\ w[b].id = id => Number(w, id, a) + 1 <= Number(w, id, b)
  /\ \A m \in Nat : Number(w, id, m + 1) = IF w[m + 1].id = id THEN Number(w, id, m) + 1 ELSE Number(w, id, m)

LEMMA OwnNumbered == ASSUME NEW w, NEW id PROVE Numbered(w, id)
  <1>1. \A m \in Nat : IsFiniteSet(Own(w, id, m)) /\ Number(w, id, m) \in Nat
    <2> SUFFICES ASSUME NEW m \in Nat
                 PROVE  IsFiniteSet(Own(w, id, m)) /\ Number(w, id, m) \in Nat
      OBVIOUS
    <2>1. IsFiniteSet(1 .. m) /\ Own(w, id, m) \in SUBSET (1 .. m)
      BY FS_Interval DEF Own
    <2>2. QED
      BY <2>1, FS_Subset, FS_CardinalityType DEF Number
  <1>2. Number(w, id, 0) = 0
    <2>1. Own(w, id, 0) = {}
      BY DEF Own
    <2>2. QED
      BY <2>1, FS_EmptySet DEF Number
  <1>3. ASSUME NEW a \in Nat, NEW b \in Nat, a <= b
        PROVE  Number(w, id, a) <= Number(w, id, b)
    <2>1. Own(w, id, a) \in SUBSET Own(w, id, b)
      BY <1>3 DEF Own
    <2>2. QED
      BY <1>1, <2>1, FS_Subset DEF Number
  <1>4. ASSUME NEW m \in Nat
        PROVE  Number(w, id, m + 1) = IF w[m + 1].id = id THEN Number(w, id, m) + 1 ELSE Number(w, id, m)
    <2>1. CASE w[m + 1].id = id
      <3>1. Own(w, id, m + 1) = Own(w, id, m) \cup {m + 1} /\ m + 1 \notin Own(w, id, m)
        BY <2>1 DEF Own
      <3>2. QED
        BY <1>1, <2>1, <3>1, FS_AddElement DEF Number
    <2>2. CASE w[m + 1].id # id
      <3>1. Own(w, id, m + 1) = Own(w, id, m)
        BY <2>2 DEF Own
      <3>2. QED
        BY <2>2, <3>1 DEF Number
    <2>3. QED
      BY <2>1, <2>2
  <1>5. ASSUME NEW a \in Nat, NEW b \in Nat, a < b, w[b].id = id
        PROVE  Number(w, id, a) + 1 <= Number(w, id, b)
    <2>1. PICK m \in Nat : b = m + 1 /\ a <= m
      <3>1. b - 1 \in Nat /\ b = (b - 1) + 1 /\ a <= b - 1
        BY <1>5
      <3>2. QED
        BY <3>1
    <2>2. Number(w, id, b) = Number(w, id, m) + 1
      BY <1>4, <1>5, <2>1
    <2>3. Number(w, id, a) <= Number(w, id, m)
      BY <1>3, <2>1
    <2>4. Number(w, id, a) \in Nat /\ Number(w, id, m) \in Nat
      BY <1>1
    <2>5. QED
      BY <2>2, <2>3, <2>4
  <1>6. QED
    BY <1>1, <1>2, <1>3, <1>4, <1>5 DEF Numbered

\* Every number up to the count is that of one change.
LEMMA NthExists ==
  ASSUME NEW w, NEW id, NEW n \in Nat, NEW i \in 1 .. Number(w, id, n)
  PROVE  \E k \in Own(w, id, n) : Number(w, id, k) = i
  <1> DEFINE S == {m \in 0 .. n : Number(w, id, m) < i}
  <1>0. Numbered(w, id)
    BY OwnNumbered
  <1>1. i \in Nat /\ i > 0 /\ Number(w, id, 0) = 0 /\ Number(w, id, n) \in Nat /\ i <= Number(w, id, n)
    BY <1>0 DEF Numbered
  <1>2. S \in SUBSET Nat /\ 0 \in S /\ \A s \in S : s <= n
    BY <1>1
  <1>3. PICK g \in S : \A s \in S : s <= g
    <2> HIDE DEF S
    <2>1. QED
      BY <1>2, Greatest
  <1>4. g \in 0 .. n /\ Number(w, id, g) < i /\ g # n
    BY <1>1, <1>3
  <1>5. g \in Nat /\ g + 1 \in 1 .. n /\ g + 1 \notin S
    BY <1>2, <1>3, <1>4
  <1>6. Number(w, id, g) \in Nat /\ Number(w, id, g + 1) \in Nat /\ Number(w, id, g + 1) >= i
    <2>1. Number(w, id, g) \in Nat /\ Number(w, id, g + 1) \in Nat
      BY <1>0, <1>5 DEF Numbered
    <2>2. ~(Number(w, id, g + 1) < i)
      BY <1>5
    <2>3. QED
      BY <1>1, <2>1, <2>2
  <1>7. Number(w, id, g + 1) = IF w[g + 1].id = id THEN Number(w, id, g) + 1 ELSE Number(w, id, g)
    BY <1>0, <1>5 DEF Numbered
  <1>8. w[g + 1].id = id /\ Number(w, id, g + 1) = i
    BY <1>1, <1>4, <1>6, <1>7
  <1>9. g + 1 \in Own(w, id, n)
    BY <1>5, <1>8 DEF Own
  <1>10. QED
    BY <1>8, <1>9

\* The history holds, at the number of each change, the version it wrote.
LEMMA HistoryAt ==
  ASSUME NEW w, NEW id, Len(w) \in Nat
  PROVE  /\ HistoryOf(w, id) \in Seq({Version(w, k) : k \in Own(w, id, Len(w))})
         /\ Len(HistoryOf(w, id)) = Number(w, id, Len(w))
         /\ \A k \in Own(w, id, Len(w)) :
              /\ Number(w, id, k) \in 1 .. Number(w, id, Len(w))
              /\ HistoryOf(w, id)[Number(w, id, k)] = Version(w, k)
  <1> DEFINE own == Own(w, id, Len(w))
             size == Number(w, id, Len(w))
             nth(i) == CHOOSE k \in own : Cardinality({j \in own : j <= k}) = i
             V == {Version(w, k) : k \in own}
  <1>0. Numbered(w, id)
    BY OwnNumbered
  <1>1. \A k \in own : {j \in own : j <= k} = Own(w, id, k) /\ k \in Nat /\ k <= Len(w) /\ w[k].id = id /\ k > 0
    BY DEF Own
  <1>2. size \in Nat /\ Number(w, id, 0) = 0
    BY <1>0 DEF Numbered
  <1>3. ASSUME NEW i \in 1 .. size
        PROVE  nth(i) \in own /\ Number(w, id, nth(i)) = i
    <2>1. \E k \in own : Number(w, id, k) = i
      BY NthExists
    <2>2. \E k \in own : Cardinality({j \in own : j <= k}) = i
      BY <1>1, <2>1 DEF Number
    <2>3. nth(i) \in own /\ Cardinality({j \in own : j <= nth(i)}) = i
      BY <2>2
    <2>4. QED
      BY <1>1, <2>3 DEF Number
  <1>4. ASSUME NEW k \in own
        PROVE  Number(w, id, k) \in 1 .. size
    <2>1. k \in Nat /\ k <= Len(w) /\ w[k].id = id /\ 0 < k
      BY <1>1
    <2>2. Number(w, id, k) \in Nat /\ Number(w, id, k) <= size
      BY <1>0, <2>1 DEF Numbered
    <2>3. Number(w, id, 0) + 1 <= Number(w, id, k)
      BY <1>0, <2>1 DEF Numbered
    <2>4. QED
      BY <1>2, <2>2, <2>3
  <1>5. ASSUME NEW k \in own PROVE nth(Number(w, id, k)) = k
    <2>1. Number(w, id, k) \in 1 .. size
      BY <1>4
    <2>2. PICK m \in own : m = nth(Number(w, id, k)) /\ Number(w, id, m) = Number(w, id, k)
      BY <1>3, <2>1
    <2> HIDE DEF nth
    <2>3. m \in Nat /\ k \in Nat /\ w[m].id = id /\ w[k].id = id /\ Number(w, id, k) \in Nat
      BY <1>1, <2>1
    <2>4. /\ m < k => Number(w, id, m) + 1 <= Number(w, id, k)
          /\ k < m => Number(w, id, k) + 1 <= Number(w, id, m)
      BY <1>0, <2>3 DEF Numbered
    <2>5. m = k
      BY <2>2, <2>3, <2>4
    <2>6. QED
      BY <2>2, <2>5
  <1>6. HistoryOf(w, id) = [i \in 1 .. size |-> Version(w, nth(i))]
    BY DEF HistoryOf, Number
  <1>7. \A i \in 1 .. size : Version(w, nth(i)) \in V
    BY <1>3
  <1> HIDE DEF nth, size, V
  <1>8. HistoryOf(w, id) \in [1 .. size -> V]
    BY <1>6, <1>7
  <1>9. HistoryOf(w, id) \in Seq(V) /\ Len(HistoryOf(w, id)) = size
    <2>1. PICK s \in [1 .. size -> V] : s = HistoryOf(w, id)
      BY <1>8
    <2>2. s \in Seq(V) /\ Len(s) = size
      BY <1>2
    <2>3. QED
      BY <2>1, <2>2
  <1>10. \A k \in own : HistoryOf(w, id)[Number(w, id, k)] = Version(w, k)
    BY <1>4, <1>5, <1>6
  <1>11. QED
    BY <1>4, <1>9, <1>10 DEF size, V

\* A commit appends one version to the history of its key.
LEMMA HistoryGrows ==
  ASSUME NEW w \in Seq(Change), NEW new \in Seq(Change), Len(new) = Len(w) + 1,
         \A k \in 1 .. Len(w) : new[k] = w[k], NEW id
  PROVE  /\ \A m \in 0 .. Len(w) : Number(new, id, m) = Number(w, id, m)
         /\ Len(HistoryOf(w, id)) \in Nat
         /\ Len(HistoryOf(new, id)) =
              IF new[Len(w) + 1].id = id THEN Len(HistoryOf(w, id)) + 1 ELSE Len(HistoryOf(w, id))
         /\ SubSeq(HistoryOf(new, id), 1, Len(HistoryOf(w, id))) = HistoryOf(w, id)
         /\ new[Len(w) + 1].id # id => HistoryOf(new, id) = HistoryOf(w, id)
  <1> DEFINE n == Len(w)
             h == HistoryOf(w, id)
             g == HistoryOf(new, id)
             V == {Version(w, k) : k \in Own(w, id, Len(w))}
             U == {Version(new, k) : k \in Own(new, id, Len(new))}
  <1>1. n \in Nat /\ Len(new) = n + 1 /\ Len(new) \in Nat
    OBVIOUS
  <1>2. Numbered(w, id) /\ Numbered(new, id)
    BY OwnNumbered
  <1>3. \A m \in 0 .. n : Own(new, id, m) = Own(w, id, m) /\ Number(new, id, m) = Number(w, id, m)
    <2>1. \A m \in 0 .. n : Own(new, id, m) = Own(w, id, m)
      BY <1>1 DEF Own
    <2>2. QED
      BY <2>1 DEF Number
  <1>4. /\ h \in Seq(V) /\ Len(h) = Number(w, id, n)
        /\ \A k \in Own(w, id, n) : Number(w, id, k) \in 1 .. Len(h) /\ h[Number(w, id, k)] = Version(w, k)
    BY <1>1, HistoryAt
  <1>5. /\ g \in Seq(U) /\ Len(g) = Number(new, id, n + 1)
        /\ \A k \in Own(new, id, n + 1) : Number(new, id, k) \in 1 .. Len(g) /\ g[Number(new, id, k)] = Version(new, k)
    BY <1>1, HistoryAt
  <1> HIDE DEF h, g, V, U
  <1>6. /\ h \in Seq(U \cup V) /\ g \in Seq(U \cup V)
        /\ Len(h) \in Nat /\ Len(g) \in Nat
    BY <1>4, <1>5
  <1>7. Len(g) = IF new[n + 1].id = id THEN Len(h) + 1 ELSE Len(h)
    <2>1. Number(new, id, n + 1) = IF new[n + 1].id = id THEN Number(new, id, n) + 1 ELSE Number(new, id, n)
      BY <1>1, <1>2 DEF Numbered
    <2>2. Number(new, id, n) = Number(w, id, n)
      BY <1>1, <1>3
    <2>3. QED
      BY <1>4, <1>5, <2>1, <2>2
  <1>8. ASSUME NEW i \in 1 .. Len(h) PROVE g[i] = h[i]
    <2>1. PICK k \in Own(w, id, n) : Number(w, id, k) = i
      BY <1>1, <1>4, NthExists
    <2>2. k \in 0 .. n /\ k \in 1 .. n /\ w[k].id = id
      BY <1>1, <2>1 DEF Own
    <2>3. k \in Own(new, id, n + 1) /\ Number(new, id, k) = i /\ new[k] = w[k]
      BY <1>1, <1>3, <2>1, <2>2 DEF Own
    <2>4. g[i] = Version(new, k) /\ h[i] = Version(w, k)
      BY <1>4, <1>5, <2>1, <2>3
    <2>5. QED
      BY <2>3, <2>4 DEF Version
  <1>9. SubSeq(g, 1, Len(h)) = h
    <2>1. \A i \in 1 .. Len(h) : g[i] \in U \cup V
      BY <1>5, <1>6, <1>7
    <2>2. /\ SubSeq(g, 1, Len(h)) \in Seq(U \cup V) /\ Len(SubSeq(g, 1, Len(h))) = Len(h)
          /\ \A i \in 1 .. Len(h) : SubSeq(g, 1, Len(h))[i] = g[i]
      <3>1. /\ SubSeq(g, 1, Len(h)) \in Seq(U \cup V)
            /\ Len(SubSeq(g, 1, Len(h))) = IF 1 <= Len(h) THEN Len(h) - 1 + 1 ELSE 0
            /\ \A i \in 1 .. Len(h) - 1 + 1 : SubSeq(g, 1, Len(h))[i] = g[1 + i - 1]
        BY <1>6, <2>1, SubSeqProperties
      <3>2. Len(h) - 1 + 1 = Len(h) /\ \A i \in 1 .. Len(h) : 1 + i - 1 = i
        BY <1>6
      <3>3. QED
        BY <1>6, <3>1, <3>2
    <2>3. QED
      BY <1>6, <1>8, <2>2, SeqEqual
  <1>10. new[n + 1].id # id => g = h
    BY <1>6, <1>7, <1>8, SeqEqual
  <1>11. QED
    BY <1>3, <1>6, <1>7, <1>9, <1>10 DEF h, g

\* The refinement mapping, as values of the log and of the rows of one key.
OfKey(T, id) == {row \in T : row.id = id}
ShownOf(w, id, S) == IF S = {} THEN 0 ELSE Number(w, id, Reach(LatestOf(S)))
ViewOf(S) == IF S = {} THEN Nothing ELSE Shows(LatestOf(S))

LEMMA Mapping ==
  ASSUME NEW id
  PROVE  /\ History(id) = HistoryOf(wal, id)
         /\ Shown(id) = ShownOf(wal, id, OfKey(table, id))
         /\ View(id) = ViewOf(OfKey(table, id))
         /\ History(id)' = HistoryOf(wal', id)
         /\ Shown(id)' = ShownOf(wal', id, OfKey(table', id))
         /\ View(id)' = ViewOf(OfKey(table', id))
  <1>1. History(id) = HistoryOf(wal, id) /\ History(id)' = HistoryOf(wal', id)
    BY DEF History, HistoryOf, ChangesOf, Own, Version
  <1>2. RowsOf(id) = OfKey(table, id) /\ RowsOf(id)' = OfKey(table', id)
    BY DEF RowsOf, OfKey
  <1>3. Latest(id) = LatestOf(RowsOf(id)) /\ Latest(id)' = LatestOf(RowsOf(id)')
    BY DEF Latest, Candidates, LatestOf
  <1>4. View(id) = ViewOf(RowsOf(id)) /\ View(id)' = ViewOf(RowsOf(id)')
    BY <1>3 DEF View, ViewOf
  <1>5. Shown(id) = ShownOf(wal, id, RowsOf(id)) /\ Shown(id)' = ShownOf(wal', id, RowsOf(id)')
    BY <1>3 DEF Shown, ShownOf, Number, Own, ChangesOf, Reach
  <1>6. QED
    BY <1>1, <1>2, <1>4, <1>5

\* What is shown is a version of the history, the one that `shown` counts to.
LEMMA ShownVersion ==
  ASSUME NEW w \in Seq(Change), NEW id, NEW S \in SUBSET Row, Bounded(S),
         \A row \in S : row.id = id /\ Genuine(w, row)
  PROVE  /\ Len(HistoryOf(w, id)) \in Nat
         /\ ShownOf(w, id, S) \in 0 .. Len(HistoryOf(w, id))
         /\ ViewOf(S) = IF ShownOf(w, id, S) = 0 THEN Nothing ELSE HistoryOf(w, id)[ShownOf(w, id, S)]
  <1> DEFINE n == Len(w)
  <1>1. n \in Nat
    OBVIOUS
  <1>2. /\ Len(HistoryOf(w, id)) = Number(w, id, n) /\ Number(w, id, n) \in Nat
        /\ \A k \in Own(w, id, n) : /\ Number(w, id, k) \in 1 .. Number(w, id, n)
                                    /\ HistoryOf(w, id)[Number(w, id, k)] = Version(w, k)
    BY <1>1, HistoryAt, OwnNumbered DEF Numbered
  <1>3. CASE S = {}
    BY <1>2, <1>3 DEF ShownOf, ViewOf
  <1>4. CASE S # {}
    <2>1. PICK r \in S : r = LatestOf(S)
      BY <1>4, LatestReflects
    <2>2. r \in Row /\ r.id = id /\ Genuine(w, r)
      OBVIOUS
    <2>3. /\ Reach(r) \in Nat /\ Reach(r) <= n
          /\ \E k \in 1 .. Reach(r) : LastAt(w, k, id, Reach(r)) /\ Shows(r) = Version(w, k)
      BY <2>2, GenuineReach DEF Version
    <2>4. PICK k \in 1 .. Reach(r) : LastAt(w, k, id, Reach(r)) /\ Shows(r) = Version(w, k)
      BY <2>3
    <2>5. k \in Own(w, id, n)
      BY <1>1, <2>3, <2>4 DEF LastAt, Own
    <2>6. Number(w, id, Reach(r)) = Number(w, id, k)
      <3>1. Own(w, id, Reach(r)) = Own(w, id, k)
        BY <2>3, <2>4 DEF LastAt, Own
      <3>2. QED
        BY <3>1 DEF Number
    <2>7. ShownOf(w, id, S) = Number(w, id, k) /\ ViewOf(S) = Version(w, k)
      BY <1>4, <2>1, <2>4, <2>6 DEF ShownOf, ViewOf
    <2>8. QED
      BY <1>2, <2>5, <2>7
  <1>5. QED
    BY <1>3, <1>4

\* Rows keep a bound even when the table is recreated under a running lander.
LEMMA BoundedStep ==
  ASSUME IsFiniteSet(Ids), TypeOK, RowsBounded, [Next]_cdcVars
  PROVE  RowsBounded'
  <1>1. CASE UNCHANGED <<table, land>>
    BY <1>1 DEF RowsBounded, Bounded
  <1>2. ASSUME NEW l \in Landers, NEW run, RunStep(l, run), Bounded(run.rows),
               table' = table \/ table' = table \cup land[l].rows
        PROVE  RowsBounded'
    <2>1. table \in SUBSET Row /\ land[l].rows \in SUBSET Row
      BY DEF TypeOK, Run
    <2>2. Bounded(table')
      BY <1>2, <2>1, BoundedFacts DEF RowsBounded
    <2>3. \A m \in Landers : Bounded(land'[m].rows)
      BY <1>2, RunStepType DEF TypeOK, RowsBounded
    <2>4. QED
      BY <2>2, <2>3 DEF RowsBounded, Bounded
  <1>3. \A l \in Landers : land[l] \in Run /\ land[l].rows \subseteq Row /\ Bounded(land[l].rows)
    BY DEF TypeOK, Run, RowsBounded
  <1>4. Bounded({}) /\ NoRun.rows = {} /\ NoRun \in Run
    BY BoundedFacts, NoRunType DEF NoRun
  <1>5. ASSUME NEW l \in Landers, Count(l) PROVE RowsBounded'
    BY <1>2, <1>4, <1>5, CountEffect
  <1>6. ASSUME NEW l \in Landers, Guard(l) PROVE RowsBounded'
    <2>1. PICK phase \in {"absent", "refused", "admitted"} :
            RunStep(l, [land[l] EXCEPT !.phase = phase]) /\ table' = table
      BY <1>6, GuardEffect
    <2>2. [land[l] EXCEPT !.phase = phase].rows = land[l].rows
      BY <1>3 DEF Run
    <2>3. QED
      BY <1>2, <1>3, <2>1, <2>2
  <1>7. ASSUME NEW l \in Landers, Assign(l) PROVE RowsBounded'
    BY <1>2, <1>3, <1>7, AssignEffect
  <1>8. ASSUME NEW l \in Landers, Drained(l) PROVE RowsBounded'
    <2>1. PICK run \in Run : RunStep(l, run) /\ (run.rows = {} \/ run.rows = land[l].rows) /\ table' = table
      BY <1>4, <1>8, DrainedEffect
    <2>2. QED
      BY <1>2, <1>3, <1>4, <2>1
  <1>9. ASSUME NEW l \in Landers, Insert(l) PROVE RowsBounded'
    BY <1>2, <1>4, <1>9, InsertEffect
  <1>10. ASSUME NEW l \in Landers, CommitOffsets(l) PROVE RowsBounded'
    <2>1. PICK run \in Run : RunStep(l, run) /\ (run.rows = {} \/ run.rows = land[l].rows) /\ table' = table
      BY <1>4, <1>10, CommitEffect
    <2>2. QED
      BY <1>2, <1>3, <1>4, <2>1
  <1>11. ASSUME NEW l \in Landers, Crash(l) PROVE RowsBounded'
    BY <1>2, <1>4, <1>11 DEF Crash, RunStep
  <1>12. ASSUME NEW l \in Landers, NEW p \in Partitions, Poll(l, p) PROVE RowsBounded'
    <2> DEFINE record == topic[p][land[l].pos[p] + 1]
               row == RowOf(record, p, land[l].pos[p], land[l].ingest)
    <2>0. PICK run \in Run :
            RunStep(l, run)
            /\ run.rows = IF Landable(record) THEN land[l].rows \cup {row} ELSE land[l].rows
      BY <1>12, PollEffect
    <2> HIDE DEF record, row
    <2>1. /\ RunStep(l, run) /\ table' = table
          /\ (run.rows = land[l].rows \cup {row} \/ run.rows = land[l].rows)
      BY <1>12, <2>0 DEF Poll
    <2>2. CASE run.rows = land[l].rows
      BY <1>2, <1>3, <2>1, <2>2
    <2>3. CASE run.rows = land[l].rows \cup {row}
      <3>1. run.rows \subseteq Row
        BY DEF Run
      <3>2. row \in Row
        BY <2>3, <3>1
      <3>3. Bounded({row}) /\ {row} \in SUBSET Row
        BY <3>2, BoundedFacts
      <3>4. Bounded(run.rows)
        BY <1>3, <2>3, <3>3, BoundedFacts
      <3>5. QED
        BY <1>2, <2>1, <3>4
    <2>4. QED
      BY <2>1, <2>2, <2>3
  <1>13. ASSUME Recreate PROVE RowsBounded'
    BY <1>4, <1>13 DEF Recreate, RowsBounded, Bounded
  <1>14. CASE \E id \in Ids, op \in {"c", "u", "d"} : Write(id, op)
    BY <1>1, <1>14 DEF Write
  <1>15. CASE Register \/ Unregister \/ Capture \/ Restart \/ RecreateTopic \/ ResetGroup \/ UNCHANGED cdcVars
    BY <1>1, <1>15 DEF Register, Unregister, Capture, Restart, RecreateTopic, ResetGroup, cdcVars
  <1>16. QED
    BY <1>5, <1>6, <1>7, <1>8, <1>9, <1>10, <1>11, <1>12, <1>13, <1>14, <1>15 DEF Next

RowsSound == TypeOK /\ Provenance /\ RowsBounded

LEMMA SoundKeys ==
  ASSUME RowsSound, NEW id
  PROVE  /\ wal \in Seq(Change) /\ OfKey(table, id) \in SUBSET Row /\ Bounded(OfKey(table, id))
         /\ \A row \in OfKey(table, id) : row.id = id /\ Genuine(wal, row)
  BY DEF RowsSound, TypeOK, Provenance, TableGenuine, RowsBounded, Bounded, OfKey

\* A commit is a commit of the dimension: what is shown reflects earlier changes only.
LEMMA WriteCommits ==
  ASSUME RowsSound, NEW id \in Ids, NEW op \in {"c", "u", "d"}, Write(id, op)
  PROVE  Dim!Commit
  <1> DEFINE n == Len(wal)
  <1>1. /\ wal \in Seq(Change) /\ wal' \in Seq(Change) /\ n \in Nat /\ Len(wal') = n + 1
        /\ \A k \in 1 .. n : wal'[k] = wal[k]
        /\ table' = table
    BY WriteEffect DEF RowsSound, TypeOK
  <1>2. wal'[n + 1].id = id
    <2>1. wal'[n + 1] = [id |-> id, op |-> op, image |-> IF op = "d" THEN db[id] ELSE n + 1]
      BY WriteEffect DEF RowsSound
    <2>2. QED
      BY <2>1
  <1>3. ASSUME NEW i \in Ids
        PROVE  /\ Len(History(i)) \in Nat
               /\ i = id => Len(History(i)') = Len(History(i)) + 1
               /\ i = id => SubSeq(History(i)', 1, Len(History(i))) = History(i)
               /\ i # id => History(i)' = History(i)
               /\ Shown(i)' = Shown(i) /\ View(i)' = View(i)
    <2>1. /\ \A m \in 0 .. n : Number(wal', i, m) = Number(wal, i, m)
          /\ Len(HistoryOf(wal, i)) \in Nat
          /\ Len(HistoryOf(wal', i)) =
               IF wal'[n + 1].id = i THEN Len(HistoryOf(wal, i)) + 1 ELSE Len(HistoryOf(wal, i))
          /\ SubSeq(HistoryOf(wal', i), 1, Len(HistoryOf(wal, i))) = HistoryOf(wal, i)
          /\ wal'[n + 1].id # i => HistoryOf(wal', i) = HistoryOf(wal, i)
      BY <1>1, HistoryGrows
    <2>2. ShownOf(wal', i, OfKey(table, i)) = ShownOf(wal, i, OfKey(table, i))
      <3>1. CASE OfKey(table, i) = {}
        BY <3>1 DEF ShownOf
      <3>2. CASE OfKey(table, i) # {}
        <4>1. PICK r \in OfKey(table, i) : r = LatestOf(OfKey(table, i))
          BY <3>2, SoundKeys, LatestReflects
        <4>2. r \in Row /\ Genuine(wal, r)
          BY SoundKeys
        <4>3. Reach(r) \in 0 .. n
          BY <1>1, <4>2, GenuineReach
        <4>4. QED
          BY <2>1, <3>2, <4>1, <4>3 DEF ShownOf
      <3>3. QED
        BY <3>1, <3>2
    <2>3. QED
      BY <1>1, <1>2, <2>1, <2>2, Mapping
  <1>4. QED
    BY <1>3 DEF Dim!Commit

\* Landing rows moves what is shown forward.
LEMMA LandingAdvances ==
  ASSUME RowsSound, RowsSound', wal' = wal, table \subseteq table'
  PROVE  Dim!Advance
  <1>1. ASSUME NEW id \in Ids
        PROVE  /\ History(id)' = History(id)
               /\ Shown(id)' \in Shown(id) .. Len(History(id))
               /\ View(id)' = IF Shown(id)' = 0 THEN Nothing ELSE History(id)[Shown(id)']
    <2> DEFINE S == OfKey(table, id)
               T == OfKey(table', id)
    <2>1. /\ wal \in Seq(Change) /\ S \in SUBSET Row /\ Bounded(S)
          /\ \A row \in S : row.id = id /\ Genuine(wal, row)
      BY SoundKeys
    <2>2. /\ T \in SUBSET Row /\ Bounded(T)
          /\ \A row \in T : row.id = id /\ Genuine(wal, row)
      BY DEF RowsSound, TypeOK, Provenance, TableGenuine, RowsBounded, Bounded, OfKey
    <2>3. S \subseteq T
      BY DEF OfKey
    <2> HIDE DEF S, T
    <2>4. /\ Len(HistoryOf(wal, id)) \in Nat
          /\ ShownOf(wal, id, S) \in 0 .. Len(HistoryOf(wal, id))
          /\ ShownOf(wal, id, T) \in 0 .. Len(HistoryOf(wal, id))
          /\ ViewOf(T) = IF ShownOf(wal, id, T) = 0 THEN Nothing ELSE HistoryOf(wal, id)[ShownOf(wal, id, T)]
      BY <2>1, <2>2, ShownVersion
    <2>5. ShownOf(wal, id, S) <= ShownOf(wal, id, T)
      <3>1. CASE S = {}
        BY <2>4, <3>1 DEF ShownOf
      <3>2. CASE S # {}
        <4>1. PICK r \in S : r = LatestOf(S)
          BY <2>1, <3>2, LatestReflects
        <4>2. T # {} /\ r \in T
          BY <2>3, <4>1
        <4>3. PICK last \in T : last = LatestOf(T) /\ Reach(r) <= Reach(last)
          BY <2>1, <2>2, <4>2, LatestReflects
        <4>4. r \in Row /\ last \in Row
          BY <2>1, <2>2
        <4>5. Reach(r) \in Nat /\ Reach(last) \in Nat
          BY <4>4, ReachFacts
        <4>6. Number(wal, id, Reach(r)) <= Number(wal, id, Reach(last))
          BY <4>3, <4>5, OwnNumbered DEF Numbered
        <4>7. QED
          BY <3>2, <4>1, <4>2, <4>3, <4>6 DEF ShownOf
      <3>3. QED
        BY <3>1, <3>2
    <2>6. QED
      BY <2>4, <2>5, Mapping DEF S, T
  <1>2. QED
    BY <1>1 DEF Dim!Advance

\* The changelog, its topic, landers and table implement the abstract dimension: what a
\* key shows is one of the versions the database committed, and it moves forward in
\* commit order until the table is recreated, whatever is replayed or lands twice.
THEOREM DimensionImplemented == ASSUME IsFiniteSet(Ids) PROVE Spec => MovesForward
  <1>1. Init => Dim!DimInit
    <2> SUFFICES ASSUME Init, NEW id \in Ids
                 PROVE  History(id) = <<>> /\ Shown(id) = 0 /\ View(id) = Nothing
      BY DEF Dim!DimInit
    <2>1. wal = <<>> /\ table = {} /\ Len(wal) = 0 /\ Len(wal) \in Nat
      BY DEF Init
    <2>2. RowsOf(id) = {}
      BY <2>1 DEF RowsOf
    <2>3. Shown(id) = 0 /\ View(id) = Nothing
      BY <2>2 DEF Shown, View
    <2>4. /\ HistoryOf(wal, id) \in Seq({Version(wal, k) : k \in Own(wal, id, Len(wal))})
          /\ Len(HistoryOf(wal, id)) = Number(wal, id, Len(wal))
      <3>1. Len(wal) \in Nat
        BY <2>1
      <3>2. QED
        BY <3>1, HistoryAt
    <2>5. Number(wal, id, 0) = 0
      BY OwnNumbered DEF Numbered
    <2>6. History(id) = <<>>
      BY <2>1, <2>4, <2>5, Mapping, EmptySeq
    <2>7. QED
      BY <2>3, <2>6
  <1>2. Init => RowsSound
    <2>1. Init => Provenance
      BY DEF Init, NoRun, Provenance, DbIsLast, TopicGenuine, TableGenuine, BatchGenuine
    <2>2. QED
      BY <2>1, TypeInit, ChangeInit DEF RowsSound, ChangeInv
  <1>3. RowsSound /\ [Next]_cdcVars => RowsSound'
    BY TypeStep, ProvenanceStep, BoundedStep DEF RowsSound
  <1>4. RowsSound /\ RowsSound' /\ [Next]_cdcVars => [Dim!DimNext]_(Dim!dimVars)
    <2> SUFFICES ASSUME RowsSound, RowsSound', [Next]_cdcVars PROVE [Dim!DimNext]_(Dim!dimVars)
      OBVIOUS
    <2>1. CASE \E id \in Ids, op \in {"c", "u", "d"} : Write(id, op)
      BY <2>1, WriteCommits DEF Dim!DimNext
    <2>2. CASE Recreate
      <3>1. table' = {} /\ wal' = wal
        BY <2>2 DEF Recreate
      <3>2. \A id : OfKey(table', id) = {}
        BY <3>1 DEF OfKey
      <3>3. \A id \in Ids : History(id)' = History(id) /\ Shown(id)' = 0 /\ View(id)' = Nothing
        BY <3>1, <3>2, Mapping DEF ShownOf, ViewOf
      <3>4. Dim!Empty
        BY <3>3 DEF Dim!Empty
      <3>5. QED
        BY <3>4 DEF Dim!DimNext
    <2>3. ASSUME wal' = wal, table \subseteq table' PROVE [Dim!DimNext]_(Dim!dimVars)
      BY <2>3, LandingAdvances DEF Dim!DimNext
    <2>4. ASSUME NEW l \in Landers,
                 \/ Count(l) \/ Guard(l) \/ Assign(l) \/ Drained(l) \/ Insert(l) \/ CommitOffsets(l) \/ Crash(l)
                 \/ \E p \in Partitions : Poll(l, p)
          PROVE  [Dim!DimNext]_(Dim!dimVars)
      <3>1. wal' = wal /\ table \subseteq table'
        BY <2>4 DEF Count, Guard, Assign, Drained, Insert, CommitOffsets, Crash, Poll
      <3>2. QED
        BY <2>3, <3>1
    <2>5. CASE Register \/ Unregister \/ Capture \/ Restart \/ RecreateTopic \/ ResetGroup \/ UNCHANGED cdcVars
      <3>1. wal' = wal /\ table' = table
        BY <2>5 DEF Register, Unregister, Capture, Restart, RecreateTopic, ResetGroup, cdcVars
      <3>2. QED
        BY <2>3, <3>1
    <2>6. QED
      BY <2>1, <2>2, <2>4, <2>5 DEF Next
  <1>5. QED
    BY <1>1, <1>2, <1>3, <1>4, PTL DEF Spec, MovesForward, Dim!DimSpec
=============================================================================
