--------------------------- MODULE MCSqlRepository ---------------------------
(***************************************************************************)
(* SqlRepository for TLC: the values of its constants.                     *)
(***************************************************************************)
EXTENDS SqlRepository, TLC

CONSTANT MaxMoments  \* bound: what a read may see of its jobs

\* a record with parts and one without for one job; the other has none
MCParts == 1 :> { <<{"a"}, {"t"}>>, <<{}, {}>> } @@ 2 :> { <<{}, {}>> }

MCTransitions == {<<"Completed", None>>}

\* Once the database is in use its schema no longer changes, nor does a step
\* depend on it.  Of an operation that is done or has failed only that it is over
\* matters, and whether what it read satisfies ReadsWhole: no other invariant asks
\* for more, and its caller forgets it.
InUse == \E p \in Proc : at[p] # "idle"
Progress(p) ==
  IF at[p] \in {"done", "missed", "failed"} THEN <<"over">>
  ELSE <<at[p], call[p], pending[p], snapshot[p], records[p], others[p], seen[p]>>
UsedSchema ==
  <<IF InUse THEN engine ELSE schemaVars, tables, [p \in Proc |-> Progress(p)], ReadsWhole>>

\* a read overlaps a few commits at most
FewMoments == \A p \in Proc : Cardinality(seen[p]) <= MaxMoments

\* the processes are interchangeable
ProcSymmetry == Permutations(Proc)
=============================================================================
