--------------------------- MODULE MCFileRepository ---------------------------
(***************************************************************************)
(* FileRepository for TLC: the values of its constants.                    *)
(***************************************************************************)
EXTENDS FileRepository, TLC

\* A job settles, or is resumed.
MCTransitions == {<<"Completed", None>>, <<"Submitted", None>>}

\* What an inode without a name held is gone: Open empties it.  The claims
\* returned are a history no step reads.
NamedData ==
  <<names, program, expected, crashes, overlapped, [i \in Inode \ Free |-> data[i]]>>

\* Once processes overlap, one job is enough: they meet in the files of a job.
OneContended ==
  overlapped => \A j \in JobId \ {1} : file[j] = None /\ temp[j] = None

\* The processes are interchangeable.
ProcSymmetry == Permutations(Proc)
=============================================================================
