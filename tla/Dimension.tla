------------------------------ MODULE Dimension ------------------------------
(***************************************************************************)
(* What the prompt dimension promises, with no connector, topic, lander or *)
(* table in sight: for every key the warehouse shows one version out of    *)
(* the history the database committed, and what it shows only ever moves   *)
(* forward in that history -- until the table is recreated, when it shows  *)
(* nothing.  CdcLand implements this.                                      *)
(***************************************************************************)
EXTENDS Integers, Sequences

CONSTANTS Ids, Nothing

VARIABLES
  history, \* per key: its committed versions, in commit order
  shown,   \* per key: the position in that history of the version shown, 0 if none
  view     \* per key: the version shown, or Nothing

dimVars == <<history, shown, view>>

DimInit ==
  /\ history = [id \in Ids |-> <<>>]
  /\ shown = [id \in Ids |-> 0]
  /\ view = [id \in Ids |-> Nothing]

\* The database commits a change of one key.
Commit ==
  \E id \in Ids :
    /\ Len(history'[id]) = Len(history[id]) + 1
    /\ SubSeq(history'[id], 1, Len(history[id])) = history[id]
    /\ \A other \in Ids \ {id} : history'[other] = history[other]
    /\ UNCHANGED <<shown, view>>

\* Landing some records moves any number of keys forward, never back.
Advance ==
  /\ UNCHANGED history
  /\ \A id \in Ids : /\ shown'[id] \in shown[id] .. Len(history[id])
                     /\ view'[id] = IF shown'[id] = 0 THEN Nothing
                                    ELSE history[id][shown'[id]]

\* create-table --recreate: the dimension is empty until the next landing.
Empty ==
  /\ UNCHANGED history
  /\ shown' = [id \in Ids |-> 0]
  /\ view' = [id \in Ids |-> Nothing]

DimNext == Commit \/ Advance \/ Empty

DimSpec == DimInit /\ [][DimNext]_dimVars
=============================================================================
