------------------------------ MODULE RepoIter ------------------------------
(***************************************************************************)
(* The iterators of lib/repo.c over one table, while the transaction that  *)
(* owns them goes on inserting and deleting rows.                          *)
(*                                                                         *)
(* hed_repo_create_iter puts the cursor on the first row; hed_repo_step    *)
(* returns the row the cursor stands on and moves it, so that between two  *)
(* calls the cursor stands on the row of the call to come.  EAGAIN says    *)
(* there is such a row, 0 that the one returned was the last.  The caller  *)
(* steps for as long as it gets EAGAIN.                                    *)
(***************************************************************************)
EXTENDS Naturals, Sequences

CONSTANTS
    MaxKey,     \* rows have the keys 1 .. MaxKey
    Iters,      \* iterators the caller may have at a time
    Nowhere     \* where a cursor stands that no row follows any more

ASSUME RepoIterAssumption == MaxKey \in Nat /\ Nowhere \notin Nat

Keys == 1 .. MaxKey

VARIABLES
    rows,       \* keys of the table
    state,      \* what the last call on an iterator said
    cursor,     \* the row a cursor stands on
    out,        \* history: the rows an iterator returned, in order
    stayed,     \* history: rows there since the iterator was created
    seen,       \* history: rows there at some time since then
    bad         \* MDB_TXN_ERROR: a write failed, LMDB refuses the transaction

vars == <<rows, state, cursor, out, stayed, seen, bad>>
hist == <<out, stayed, seen>>

TypeOK ==
    /\ rows \in SUBSET Keys
    /\ state \in [Iters -> {"none", "EAGAIN", "end", "EINVAL"}]
    /\ cursor \in [Iters -> Keys \cup {Nowhere}]
    /\ out \in [Iters -> Seq(Keys)]
    /\ stayed \in [Iters -> SUBSET Keys]
    /\ seen \in [Iters -> SUBSET Keys]
    /\ bad \in BOOLEAN

Init ==
    /\ rows \in SUBSET Keys
    /\ state = [i \in Iters |-> "none"]
    /\ cursor = [i \in Iters |-> Nowhere]
    /\ out = [i \in Iters |-> <<>>]
    /\ stayed = [i \in Iters |-> {}]
    /\ seen = [i \in Iters |-> {}]
    /\ bad = FALSE

-----------------------------------------------------------------------------
Least(S) == CHOOSE k \in S : \A j \in S : k <= j

\* Faulty: the row after the next one.
SkippingAfter(S, k) ==
    LET later == {j \in S : j > k + 1}
    IN  IF later = {} THEN Nowhere ELSE Least(later)

\* Faulty: the end of the table is not noticed.
EndlessAfter(S, k) ==
    LET later == {j \in S : j > k}
    IN  IF later = {} THEN k + 1 ELSE Least(later)

\* The row that follows k in the order of the table.
After(S, k) ==
    LET later == {j \in S : j > k}
    IN  IF later = {} THEN Nowhere ELSE Least(later)

\* An empty table has no iterator: MDB_FIRST answers MDB_NOTFOUND.
hed_repo_create_iter(i) ==
    /\ state[i] = "none"
    /\ rows # {}
    /\ ~bad
    /\ state' = [state EXCEPT ![i] = "EAGAIN"]
    /\ cursor' = [cursor EXCEPT ![i] = Least(rows)]
    /\ out' = [out EXCEPT ![i] = <<>>]
    /\ stayed' = [stayed EXCEPT ![i] = rows]
    /\ seen' = [seen EXCEPT ![i] = rows]
    /\ UNCHANGED <<rows, bad>>

\* Faulty: the cursor is moved before the row it stands on is read.
hed_repo_step_late(i) ==
    /\ state[i] = "EAGAIN"
    /\ cursor[i] # Nowhere
    /\ ~bad
    /\ LET next == After(rows, cursor[i])
           k    == IF next = Nowhere THEN cursor[i] ELSE next
       IN  /\ out' = [out EXCEPT ![i] = Append(@, k)]
           /\ state' = [state EXCEPT ![i] = IF next = Nowhere THEN "end" ELSE "EAGAIN"]
           /\ cursor' = [cursor EXCEPT ![i] = k]
    /\ UNCHANGED <<rows, stayed, seen, bad>>

\* MDB_GET_CURRENT, then MDB_NEXT: at the last row the cursor stays.
hed_repo_step(i) ==
    /\ state[i] = "EAGAIN"
    /\ cursor[i] # Nowhere
    /\ ~bad
    /\ out' = [out EXCEPT ![i] = Append(@, cursor[i])]
    /\ LET next == After(rows, cursor[i])
       IN  IF next = Nowhere
           THEN state' = [state EXCEPT ![i] = "end"] /\ UNCHANGED cursor
           ELSE cursor' = [cursor EXCEPT ![i] = next] /\ UNCHANGED state
    /\ UNCHANGED <<rows, stayed, seen, bad>>

\* Faulty: the caller is asked to try again.
step_fails_again(i) ==
    /\ state[i] = "EAGAIN"
    /\ cursor[i] = Nowhere \/ bad
    /\ UNCHANGED vars

\* MDB_GET_CURRENT answers MDB_NOTFOUND: the row to come was deleted, and was
\* the last one.  Or MDB_BAD_TXN.  The caller cannot tell one from the other.
step_fails(i) ==
    /\ state[i] = "EAGAIN"
    /\ cursor[i] = Nowhere \/ bad
    /\ state' = [state EXCEPT ![i] = "EINVAL"]
    /\ UNCHANGED <<rows, cursor, hist, bad>>

hed_repo_destroy_iter(i) ==
    /\ state[i] # "none"
    /\ state' = [state EXCEPT ![i] = "none"]
    /\ cursor' = [cursor EXCEPT ![i] = Nowhere]
    /\ out' = [out EXCEPT ![i] = <<>>]
    /\ stayed' = [stayed EXCEPT ![i] = {}]
    /\ seen' = [seen EXCEPT ![i] = {}]
    /\ UNCHANGED <<rows, bad>>

\* mdb_put of a key that is new: cursors stay on the rows they stand on.
hed_repo_update(k) ==
    /\ k \notin rows
    /\ ~bad
    /\ rows' = rows \cup {k}
    /\ seen' = [i \in Iters |-> IF state[i] = "none" THEN seen[i] ELSE seen[i] \cup {k}]
    /\ UNCHANGED <<state, cursor, out, stayed, bad>>

\* mdb_put or mdb_del fails half-way (MDB_MAP_FULL).
write_fails ==
    /\ ~bad
    /\ bad' = TRUE
    /\ UNCHANGED <<rows, state, cursor, hist>>

\* Faulty: a cursor does not notice that its row is gone.
hed_repo_del_blind(k) ==
    /\ k \in rows
    /\ ~bad
    /\ rows' = rows \ {k}
    /\ stayed' = [i \in Iters |-> stayed[i] \ {k}]
    /\ UNCHANGED <<state, cursor, out, seen, bad>>

\* mdb_del: a cursor on the row that goes stands on the row after it.
hed_repo_del(k) ==
    /\ k \in rows
    /\ ~bad
    /\ rows' = rows \ {k}
    /\ cursor' = [i \in Iters |-> IF cursor[i] = k THEN After(rows, k) ELSE cursor[i]]
    /\ stayed' = [i \in Iters |-> stayed[i] \ {k}]
    /\ UNCHANGED <<state, out, seen, bad>>

\* hed_repo_commit or hed_repo_abort, and the next hed_repo_start: by then the
\* caller has destroyed its iterators, for LMDB frees their cursors.
hed_repo_restart ==
    /\ \A i \in Iters : state[i] = "none"
    /\ rows' \in SUBSET Keys
    /\ bad' = FALSE
    /\ UNCHANGED <<state, cursor, hist>>

Next ==
    \/ \E i \in Iters :
           \/ hed_repo_create_iter(i) \/ hed_repo_step(i) \/ step_fails(i)
           \/ hed_repo_destroy_iter(i)
    \/ \E k \in Keys : hed_repo_update(k) \/ hed_repo_del(k)
    \/ write_fails \/ hed_repo_restart

Spec == Init /\ [][Next]_vars

\* The caller's loop goes on as long as hed_repo_step asks it to.
FairSpec == Spec /\ \A i \in Iters : WF_vars(hed_repo_step(i) \/ step_fails(i))

-----------------------------------------------------------------------------
Elements(s) == {s[n] : n \in 1 .. Len(s)}

\* Rows come in the order of their keys, so none comes twice, whatever is
\* inserted and deleted between two steps (repo.c:476-498).
Ascending ==
    \A i \in Iters : \A m, n \in 1 .. Len(out[i]) : m < n => out[i][m] < out[i][n]

\* When the loop ends, with 0 or with -EINVAL because the last rows went away,
\* every row that was there all the time has been returned; until then, those
\* that have not are still ahead of the cursor (repo.c:476-498).
NoneMissed ==
    \A i \in Iters :
        /\ state[i] = "end" \/ (state[i] = "EINVAL" /\ ~bad) =>
               stayed[i] \subseteq Elements(out[i])
        /\ state[i] = "EAGAIN" =>
               \A k \in stayed[i] \ Elements(out[i]) : cursor[i] # Nowhere /\ cursor[i] <= k

\* Nothing is returned that was not in the table at some time since the
\* iterator was created, and what is to be returned next is in the table now:
\* a row deleted between two steps is not handed out (repo.c:477).
NoGhosts ==
    \A i \in Iters :
        /\ Elements(out[i]) \subseteq seen[i]
        /\ state[i] = "EAGAIN" /\ cursor[i] # Nowhere => cursor[i] \in rows

\* The inductive invariant of the proofs: a cursor is ahead of all that its
\* iterator returned, and the history is that of the table (repo.c:476-498).
Ahead ==
    \A i \in Iters : state[i] = "EAGAIN" /\ cursor[i] # Nowhere =>
        \A n \in 1 .. Len(out[i]) : out[i][n] < cursor[i]
Tracked == \A i \in Iters : state[i] # "none" => stayed[i] \subseteq rows /\ rows \subseteq seen[i]
IInv == TypeOK /\ Ascending /\ NoneMissed /\ NoGhosts /\ Ahead /\ Tracked

\* The rows that a loop may still return, and what makes it end: whatever is
\* inserted and deleted meanwhile, they do not become more, and each row that is
\* returned, or deleted under the cursor, makes them fewer (repo.c:476-498).
Left(i) == IF cursor[i] = Nowhere THEN 0 ELSE MaxKey + 1 - cursor[i]

LoopAdvances ==
    [][\A i \in Iters : state[i] = "EAGAIN" /\ state'[i] = "EAGAIN" =>
           \/ Left(i)' < Left(i)
           \/ Left(i)' = Left(i) /\ cursor'[i] = cursor[i] /\ out'[i] = out[i]]_vars

\* A loop ends, with 0 or -EINVAL, even one whose every step inserts and deletes
\* rows: repo.c never answers EAGAIN for ever.
LoopEnds == \A i \in Iters : state[i] = "EAGAIN" ~> state[i] # "EAGAIN"

=============================================================================
