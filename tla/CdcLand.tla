------------------------------- MODULE CdcLand -------------------------------
(***************************************************************************)
(* The prompt-version dimension, from a Postgres commit to the row the     *)
(* marts join: the Debezium connector (external: modelled from the         *)
(* configuration in scripts/register_connector.py and from what cdc_land   *)
(* and stg_prompt_versions rely on), the changelog topic, the batch lander *)
(* scripts/cdc_land.py, the Iceberg table it appends to, and the           *)
(* resolution of the changelog in stg_prompt_versions.sql.                 *)
(*                                                                         *)
(* Log sequence numbers.  Change k of the database starts at LSN k - 1, so *)
(* a snapshot taken after n changes is stamped n, the LSN at which the     *)
(* next change will start: the tie that the resolution has to break.       *)
(* A version of a row is named after the change that wrote it.             *)
(* Tables other than prompt_versions, SQL text, timestamps of the source   *)
(* and the synthetic `seed` command are left out.                          *)
(***************************************************************************)
EXTENDS Integers, Sequences, FiniteSets

CONSTANTS
  Ids,            \* primary keys of prompt_versions
  Partitions,     \* partitions of the changelog topic
  PartitionOf,    \* Debezium keys records by primary key: its partition
  Landers,        \* processes that may run `cdc_land.py land` at the same time
  Batch,          \* --batch
  Nothing,        \* no row
  CarelessRecreate, \* TRUE: the table may be recreated under a running lander
  MaxChanges,     \* bound: commits in the database
  MaxRecords,     \* bound: records in one partition
  MaxRuns,        \* bound: runs of the lander
  MaxUpsets       \* bound: restarts, resets and re-creations

ASSUME CdcAssumption ==
  /\ PartitionOf \in [Ids -> Partitions]
  /\ Batch \in Nat \ {0}
  /\ CarelessRecreate \in BOOLEAN
  /\ Nothing \notin Nat \X BOOLEAN
  /\ MaxChanges \in Nat /\ MaxRecords \in Nat /\ MaxRuns \in Nat /\ MaxUpsets \in Nat

VARIABLES
  wal,       \* the database's committed changes
  db,        \* per key: the version in the database, 0 if there is no row
  connector, \* [on, captured, base]: registered?, changes captured, and the last snapshot
  missed,    \* keys whose delete may never reach the table (history variable)
  topic,     \* per partition: the records of the changelog topic
  group,     \* per partition: the group's committed offset, -1 if it has none
  table,     \* lake.cdc.prompt_versions: a set of rows
  land,      \* per lander: the state of its current run
  runs,      \* runs started so far
  upsets     \* restarts, resets and re-creations so far

cdcVars == <<wal, db, connector, missed, topic, group, table, land, runs, upsets>>

-----------------------------------------------------------------------------
\* Counts the events that MaxUpsets bounds.
Upset == upsets < MaxUpsets /\ upsets' = upsets + 1

RowOps == {"c", "u", "d", "r"}

\* A committed change: `image` names the version it wrote, for a delete the
\* version it removed (the before image: REPLICA IDENTITY FULL).
Change == [id : Ids, op : {"c", "u", "d"}, image : Nat]
Record == [id : Ids, op : RowOps \cup {"tombstone"}, lsn : Nat, image : Nat]
Row    == [id : Ids, op : RowOps, lsn : Nat, image : Nat,
           partition : Partitions, offset : Nat, ingest : Nat]

\* The phases of one run.  "counted": SELECT count(*) done; "admitted": the guard
\* passed; "polling"; "insert" and "commit" with `last` FALSE inside the loop and
\* TRUE after it; "absent" and "refused": the two refusals, exit code 1.
Phases == {"idle", "counted", "admitted", "polling", "insert", "commit", "absent", "refused"}
Run == [phase : Phases, existing : BOOLEAN, ingest : Nat,
        pos : [Partitions -> Nat],      \* next offset to poll
        kept : [Partitions -> Nat],     \* position at this run's latest commit
        rows : SUBSET Row,              \* the batch in memory
        any : BOOLEAN,                  \* by_op or skipped is non-empty
        last : BOOLEAN]
NoRun == [phase |-> "idle", existing |-> FALSE, ingest |-> 0,
          pos |-> [p \in Partitions |-> 0], kept |-> [p \in Partitions |-> 0],
          rows |-> {}, any |-> FALSE, last |-> FALSE]

Init ==
  /\ wal = <<>>
  /\ db = [id \in Ids |-> 0]
  /\ connector = [on |-> FALSE, captured |-> 0, base |-> 0]
  /\ missed = {}
  /\ topic = [p \in Partitions |-> <<>>]
  /\ group = [p \in Partitions |-> -1]
  /\ table = {}
  /\ land = [l \in Landers |-> NoRun]
  /\ runs = 0
  /\ upsets = 0

\* No run of l is in progress.
Ended(l) == land[l].phase \in {"idle", "absent", "refused"}

-----------------------------------------------------------------------------
(***************************************************************************)
(* The database and the connector.                                         *)
(***************************************************************************)
ChangesOf(id, n) == {k \in 1 .. n : wal[k].id = id}

\* A commit.  Keys come from a sequence, so a deleted key is never inserted again.
Write(id, op) ==
  LET k == Len(wal) + 1
  IN  /\ k <= MaxChanges
      /\ IF op = "c" THEN ChangesOf(id, Len(wal)) = {} ELSE db[id] # 0
      /\ wal' = Append(wal, [id |-> id, op |-> op, image |-> IF op = "d" THEN db[id] ELSE k])
      /\ db' = [db EXCEPT ![id] = IF op = "d" THEN 0 ELSE k]
      /\ UNCHANGED <<connector, missed, topic, group, table, land, runs, upsets>>

\* PUT /connectors/agentlake-metadata/config with no stored offsets and
\* snapshot.mode=initial: every row present is read once, as op='r', all at the
\* LSN of the snapshot; streaming starts from there, so a delete committed while
\* no connector listened is not in the topic at all.
Register ==
  LET n == Len(wal)
      rows(p) == {id \in Ids : PartitionOf[id] = p /\ db[id] # 0}
      read(id) == [id |-> id, op |-> "r", lsn |-> n, image |-> db[id]]
  IN  /\ ~connector.on
      /\ connector' = [on |-> TRUE, captured |-> n, base |-> n]
      /\ \E order \in [Partitions -> UNION {[1 .. Cardinality(rows(p)) -> rows(p)] : p \in Partitions}] :
           /\ \A p \in Partitions : /\ order[p] \in [1 .. Cardinality(rows(p)) -> rows(p)]
                                    /\ {order[p][i] : i \in DOMAIN order[p]} = rows(p)
           /\ topic' = [p \in Partitions |->
                topic[p] \o [i \in 1 .. Cardinality(rows(p)) |-> read(order[p][i])]]
      /\ \A p \in Partitions : Len(topic'[p]) <= MaxRecords
      /\ missed' = missed \cup {wal[k].id : k \in {j \in connector.captured + 1 .. n : wal[j].op = "d"}}
      /\ UNCHANGED <<wal, db, group, table, land, runs, upsets>>

\* register_connector.py --delete: the committed offsets go with the connector.
Unregister ==
  /\ Upset
  /\ connector.on
  /\ connector' = [connector EXCEPT !.on = FALSE]
  /\ UNCHANGED <<wal, db, missed, topic, group, table, land, runs>>

\* The connector streams its next change; a delete is followed by a tombstone.
Capture ==
  LET k == connector.captured + 1
      c == wal[k]
      p == PartitionOf[c.id]
      record == [id |-> c.id, op |-> c.op, lsn |-> k - 1, image |-> c.image]
  IN  /\ connector.on /\ k <= Len(wal)
      /\ connector' = [connector EXCEPT !.captured = k]
      /\ topic' = [topic EXCEPT ![p] =
           @ \o IF c.op = "d" THEN <<record, [record EXCEPT !.op = "tombstone"]>> ELSE <<record>>]
      /\ Len(topic'[p]) <= MaxRecords
      /\ UNCHANGED <<wal, db, missed, group, table, land, runs, upsets>>

\* The worker restarts from its last stored offsets and captures again what it
\* had captured since: the topic repeats records.
Restart ==
  /\ Upset
  /\ connector.on
  /\ \E k \in connector.base .. connector.captured - 1 :
       connector' = [connector EXCEPT !.captured = k]
  /\ UNCHANGED <<wal, db, missed, topic, group, table, land, runs>>

\* The topic is deleted and created anew: offsets are numbered from 0 again, the
\* group's offsets for it are gone, and the connector starts over.
RecreateTopic ==
  /\ Upset
  /\ \A l \in Landers : Ended(l)
  /\ topic' = [p \in Partitions |-> <<>>]
  /\ group' = [p \in Partitions |-> -1]
  /\ connector' = [connector EXCEPT !.on = FALSE]
  /\ missed' = missed \cup {id \in Ids : ChangesOf(id, Len(wal)) # {} /\ db[id] = 0
                              /\ ~\E row \in table : row.id = id /\ row.op = "d"}
  /\ UNCHANGED <<wal, db, table, land, runs>>

-----------------------------------------------------------------------------
(***************************************************************************)
(* cdc_land.py land.                                                       *)
(***************************************************************************)
\* The command starts: SELECT count(*) FROM the table.
Count(l) ==
  /\ Ended(l) /\ runs < MaxRuns
  /\ runs' = runs + 1
  /\ land' = [land EXCEPT ![l] = [NoRun EXCEPT !.phase = "counted", !.existing = (table # {})]]
  /\ UNCHANGED <<wal, db, connector, missed, topic, group, table, upsets>>

\* An empty table beside a group that has read something: the table was recreated
\* while the group kept its place.  --force is parsed and never looked at.
MutantNoGuard(l) == FALSE
Truncating(l) == ~land[l].existing /\ \E p \in Partitions : group[p] > 0

\* The topic must exist and the guard must not refuse.
Guard(l) ==
  /\ land[l].phase = "counted"
  /\ land' = [land EXCEPT ![l].phase =
       IF \A p \in Partitions : topic[p] = <<>> THEN "absent"
       ELSE IF Truncating(l) THEN "refused" ELSE "admitted"]
  /\ UNCHANGED <<wal, db, connector, missed, topic, group, table, runs, upsets>>

\* assign(): each partition is read from the committed offset of that moment,
\* auto.offset.reset=earliest where there is none.  The rows of the run will all
\* carry the time of this step; `runs` is the clock, which two runs may read equal.
StartOffset(p) == IF group[p] < 0 THEN 0 ELSE group[p]
Assign(l) ==
  LET start == [p \in Partitions |-> StartOffset(p)]
  IN  /\ land[l].phase = "admitted"
      /\ land' = [land EXCEPT ![l].phase = "polling", ![l].ingest = runs,
                                 ![l].pos = start, ![l].kept = start]
      /\ UNCHANGED <<wal, db, connector, missed, topic, group, table, runs, upsets>>

\* envelope_to_values: the row of a record; a tombstone has none.
MutantSkipsDeletes(record) == record.op \in {"c", "u", "r"}
Landable(record) == record.op \in RowOps
RowOf(record, p, offset, ingest) ==
  [id |-> record.id, op |-> record.op, lsn |-> record.lsn, image |-> record.image,
   partition |-> p, offset |-> offset, ingest |-> ingest]

\* One message.  A record without a row image is counted and skipped; a full batch
\* is inserted before the next poll.
Poll(l, p) ==
  LET run    == land[l]
      record == topic[p][run.pos[p] + 1]
      rows   == IF Landable(record)
                THEN run.rows \cup {RowOf(record, p, run.pos[p], run.ingest)} ELSE run.rows
  IN  /\ run.phase = "polling" /\ run.pos[p] < Len(topic[p])
      /\ land' = [land EXCEPT ![l] =
           [run EXCEPT !.pos[p] = @ + 1, !.any = TRUE, !.rows = rows,
                       !.phase = IF Cardinality(rows) >= Batch /\ rows # run.rows
                                 THEN "insert" ELSE @]]
      /\ UNCHANGED <<wal, db, connector, missed, topic, group, table, runs, upsets>>

\* poll() returns nothing within --poll-timeout: the topic is taken for drained.
Drained(l) ==
  LET run == land[l]
  IN  /\ run.phase = "polling"
      /\ land' = [land EXCEPT ![l] =
           IF run.rows # {} THEN [run EXCEPT !.phase = "insert", !.last = TRUE]
           ELSE IF run.any THEN [run EXCEPT !.phase = "commit", !.last = TRUE]
           ELSE NoRun]
      /\ UNCHANGED <<wal, db, connector, missed, topic, group, table, runs, upsets>>

\* INSERT INTO ... VALUES: atomic, one Iceberg snapshot.
Insert(l) ==
  LET run == land[l]
  IN  /\ run.phase = "insert"
      /\ table' = table \cup run.rows
      /\ land' = [land EXCEPT ![l] = [run EXCEPT !.phase = "commit", !.rows = {}]]
      /\ UNCHANGED <<wal, db, connector, missed, topic, group, runs, upsets>>

\* consumer.commit(): the positions of the partitions read since the last commit.
CommitOffsets(l) ==
  LET run == land[l]
  IN  /\ run.phase = "commit"
      /\ group' = [p \in Partitions |-> IF run.pos[p] > run.kept[p] THEN run.pos[p] ELSE group[p]]
      /\ land' = [land EXCEPT ![l] =
           IF run.last THEN NoRun ELSE [run EXCEPT !.phase = "polling", !.kept = run.pos]]
      /\ UNCHANGED <<wal, db, connector, missed, topic, table, runs, upsets>>

\* The run dies: killed, or an exception of Trino or Kafka propagates.
Crash(l) ==
  /\ ~Ended(l)
  /\ land' = [land EXCEPT ![l] = NoRun]
  /\ UNCHANGED <<wal, db, connector, missed, topic, group, table, runs, upsets>>

-----------------------------------------------------------------------------
(***************************************************************************)
(* The operator's two remedies.                                            *)
(***************************************************************************)
\* create-table --recreate.
Recreate ==
  /\ Upset
  /\ CarelessRecreate \/ \A l \in Landers : Ended(l)
  /\ table # {}
  /\ table' = {}
  /\ UNCHANGED <<wal, db, connector, missed, topic, group, land, runs>>

\* kafka-consumer-groups.sh --reset-offsets --to-earliest, as the refusal advises.
ResetGroup ==
  /\ Upset
  /\ \E p \in Partitions : group[p] # 0
  /\ group' = [p \in Partitions |-> 0]
  /\ UNCHANGED <<wal, db, connector, missed, topic, table, land, runs>>

Next ==
  \/ \E id \in Ids, op \in {"c", "u", "d"} : Write(id, op)
  \/ Register \/ Unregister \/ Capture \/ Restart \/ RecreateTopic
  \/ \E l \in Landers :
       \/ Count(l)
       \/ Guard(l) \/ Assign(l) \/ Drained(l) \/ Insert(l) \/ CommitOffsets(l) \/ Crash(l)
       \/ \E p \in Partitions : Poll(l, p)
  \/ Recreate \/ ResetGroup

Spec == Init /\ [][Next]_cdcVars

-----------------------------------------------------------------------------
(***************************************************************************)
(* stg_prompt_versions: the latest row per key.                            *)
(***************************************************************************)
MutantNoRank(row) == 0
Rank(row) == IF row.op = "r" THEN 0 ELSE 1

\* order by source_lsn desc, rank desc, kafka_offset desc, ingest_ts desc.
MutantByOffset(a, b) ==
  \/ a.offset > b.offset
  \/ a.offset = b.offset /\ a.ingest > b.ingest
Newer(a, b) ==
  \/ a.lsn > b.lsn
  \/ a.lsn = b.lsn /\ Rank(a) > Rank(b)
  \/ a.lsn = b.lsn /\ Rank(a) = Rank(b) /\ a.offset > b.offset
  \/ a.lsn = b.lsn /\ Rank(a) = Rank(b) /\ a.offset = b.offset /\ a.ingest > b.ingest

RowsOf(id)    == {row \in table : row.id = id}
Candidates(id) == {row \in RowsOf(id) : \A other \in RowsOf(id) : ~Newer(other, row)}
Latest(id)    == CHOOSE row \in Candidates(id) : TRUE
Shows(row)    == <<row.image, row.op = "d">>
View(id)      == IF RowsOf(id) = {} THEN Nothing ELSE Shows(Latest(id))
-----------------------------------------------------------------------------
TypeOK ==
  /\ wal \in Seq(Change)
  /\ db \in [Ids -> Nat]
  /\ connector \in [on : BOOLEAN, captured : Nat, base : Nat]
  /\ missed \subseteq Ids
  /\ topic \in [Partitions -> Seq(Record)]
  /\ group \in [Partitions -> Nat \cup {-1}]
  /\ table \subseteq Row
  /\ land \in [Landers -> Run]
  /\ runs \in Nat /\ upsets \in Nat

\* The landed changelog has no hole: as soon as the table holds anything, every
\* record below the committed offsets is in it, tombstones aside, whoever crashed
\* between an insert and a commit, landed concurrently, or recreated table or topic.
\* It is what the guard of cmd_land and committing after the insert are for.
Complete ==
  table # {} =>
    \A p \in Partitions : \A o \in 1 .. Len(topic[p]) :
      o <= group[p] /\ topic[p][o].op # "tombstone" =>
        \E row \in table : row = RowOf(topic[p][o], p, o - 1, row.ingest)

\* Two rows of a key that LSN and snapshot rank cannot separate show the same
\* version, so neither replayed batches nor renumbered offsets can be observed.
TiesIdentical ==
  \A a, b \in table :
    a.id = b.id /\ a.lsn = b.lsn /\ Rank(a) = Rank(b) => Shows(a) = Shows(b)

\* When the connector has captured everything and everything captured is landed, the
\* dimension agrees with the database for every key whose delete was not lost.
CaughtUp ==
  /\ connector.on /\ connector.captured = Len(wal)
  /\ table # {}
  /\ \A p \in Partitions : StartOffset(p) = Len(topic[p])
Converges ==
  CaughtUp =>
    \A id \in Ids \ missed :
      IF db[id] # 0 THEN View(id) = <<db[id], FALSE>>
      ELSE View(id) = Nothing \/ View(id)[2]

\* What the dimension shows, as an abstract history per key (see Dimension).
History(id) ==
  LET own == ChangesOf(id, Len(wal))
      nth(i) == CHOOSE k \in own : Cardinality({j \in own : j <= k}) = i
  IN  [i \in 1 .. Cardinality(own) |-> <<wal[nth(i)].image, wal[nth(i)].op = "d">>]
\* The changes a row reflects: all before its LSN, and its own unless it is a read.
Shown(id) ==
  IF RowsOf(id) = {} THEN 0 ELSE Cardinality(ChangesOf(id, Latest(id).lsn + Rank(Latest(id))))

Dim == INSTANCE Dimension WITH
  history <- [id \in Ids |-> History(id)],
  shown   <- [id \in Ids |-> Shown(id)],
  view    <- [id \in Ids |-> View(id)]

\* The dimension only moves forward in commit order, key by key, and shows only
\* what was committed, except that recreating the table empties it.
MovesForward == Dim!DimSpec
=============================================================================
