------------------------------ MODULE ReadModel ------------------------------
(***************************************************************************)
(* What a projection table promises, whatever it is a projection of: the    *)
(* row of a key always shows one committed version of its source, whole,    *)
(* and only ever moves to a later one.                                      *)
(* OrderHistory and Catalogue implement this module.                        *)
(***************************************************************************)
EXTENDS Integers, Sequences

CONSTANTS Keys,      \* what the rows are about
          Values,    \* the projected content of a source
          NoRow      \* the key has no row yet

VARIABLES committed, \* committed[k]: the contents of k's source, version 0 first
          shown      \* shown[k]: the row of k, or NoRow

\* The row that shows the n-th committed content of k.
RowAt(k, n) == [version |-> n - 1, value |-> committed[k][n]]

ShownVersion(k) == IF shown[k] = NoRow THEN -1 ELSE shown[k].version

ReadModelInit ==
  /\ committed = [k \in Keys |-> <<>>]
  /\ shown = [k \in Keys |-> NoRow]

\* The source changes: its versions are numbered without a gap.
Commit(k) ==
  /\ \E v \in Values : committed' = [committed EXCEPT ![k] = Append(@, v)]
  /\ UNCHANGED shown

\* The row jumps to some later version; it need not visit those in between.
Show(k) ==
  /\ \E n \in ShownVersion(k) + 2..Len(committed[k]) :
       shown' = [shown EXCEPT ![k] = RowAt(k, n)]
  /\ UNCHANGED committed

ReadModelNext == \E k \in Keys : Commit(k) \/ Show(k)

ReadModelSpec == ReadModelInit /\ [][ReadModelNext]_<<committed, shown>>

\* Again and again every row shows the current version of its source.
CatchesUp ==
  \A k \in Keys : []<>(committed[k] # <<>> => shown[k] = RowAt(k, Len(committed[k])))
=============================================================================
