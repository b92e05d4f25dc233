------------------------------- MODULE RepoMC -------------------------------
(***************************************************************************)
(* Instances of Repo for TLC.                                              *)
(***************************************************************************)
EXTENDS RepoUndo, TLC

CONSTANTS p1, p2, t1, t2, v1

\* One table, in every open.
OneList == {{t1}}

\* A process that lists one of the two tables, and one that lists both.
SubLists == {{t1}, {t1, t2}}

\* Tables are made, never emptied.
NoTrunc == {"rdonly", "creat"}

\* Neither the files nor the processes have an order.
Symmetry == Permutations(Files) \cup Permutations(Procs)

(***************************************************************************)
(* What later steps and the invariants look at.  Left out: the contents of *)
(* a file nothing refers to, the arguments of a call that has returned,    *)
(* and the history of a transaction no property speaks of any more.        *)
(***************************************************************************)
Arguments(p) ==
    IF pc[p] # "idle" THEN <<call[p], mode[p], tabs[p]>>
    ELSE IF live[p] THEN <<AccMode(mode[p]), tabs[p]>>
    ELSE IF env[p] # NoFile THEN <<ret[p]>>
    ELSE <<>>

View ==
    <<path, bak, [f \in Files \ Unused |-> content[f]], pc, fd, copied, env, txn, live, quiet,
      [p \in Procs |-> Arguments(p)],
      [p \in Procs |-> IF (ThreePC /\ quiet[p]) \/ pend[p] # NoTxn THEN snap[p] ELSE NoTxn]>>

=============================================================================
