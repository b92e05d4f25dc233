----------------------------- MODULE RepoProofs -----------------------------
(***************************************************************************)
(* The invariants of Repo hold for any number of processes, files, tables  *)
(* and sequence values, with and without CONFIG_HED_REPO_3PC.              *)
(***************************************************************************)
EXTENDS Repo, TLAPS

-----------------------------------------------------------------------------
(* The operations of RepoDb keep contents in Db, keep every counter ahead   *)
(* of its rows, and move no counter back.                                  *)

\* A uint32_t incremented is a uint32_t: one more, or 0 (repo.c:407).
LEMMA NextIdRange ==
    ASSUME NEW db \in Db, NEW t \in Tables, db.seq[t] # NoSeq
    PROVE  /\ NextId(db, t) \in Seqs
           /\ NextId(db, t) = 0 \/ NextId(db, t) = db.seq[t] + 1
<1>1. db.seq[t] \in 0 .. SeqMod - 1
    BY DEF Db, Seqs
<1>2. SeqMod \in Nat /\ SeqMod > 1
    BY RepoDbAssumption
<1>3. CASE db.seq[t] + 1 < SeqMod
    <2>1. (db.seq[t] + 1) % SeqMod = db.seq[t] + 1
        BY <1>1, <1>2, <1>3
    <2> QED
        BY <2>1, <1>1, <1>2, <1>3 DEF NextId, Seqs
<1>4. CASE db.seq[t] + 1 = SeqMod
    <2>1. (db.seq[t] + 1) % SeqMod = 0
        BY <1>1, <1>2, <1>4
    <2> QED
        BY <2>1, <1>2 DEF NextId, Seqs
<1> QED
    BY <1>1, <1>2, <1>3, <1>4

LEMMA EmptyDbType == EmptyDb \in Db /\ SeqBoundsRows(EmptyDb)
    BY DEF EmptyDb, Db, SeqBoundsRows

LEMMA OpenTablesType ==
    ASSUME NEW db \in Db, NEW T \in SUBSET Tables, NEW m \in Modes
    PROVE  OpenTables(db, T, m) \in Db
<1>1. CreateTables(db, T) \in Db
    BY DEF CreateTables, Db
<1>2. TruncateTables(db, T) \in Db
    <2>1. 0 \in Seqs
        BY RepoDbAssumption DEF Seqs
    <2>2. [t \in Tables |-> IF t \in T THEN 0 ELSE NoSeq] \in [Tables -> Seqs \cup {NoSeq}]
        BY <2>1
    <2>3. [t \in Tables |-> IF t \in T THEN {} ELSE db.row[t]] \in [Tables -> SUBSET Keys]
        BY DEF Db
    <2> QED
        BY <1>1, <2>2, <2>3 DEF TruncateTables, Db
<1> QED
    BY <1>1, <1>2 DEF OpenTables

LEMMA OpenTablesBounds ==
    ASSUME NEW db \in Db, NEW T \in SUBSET Tables, NEW m \in Modes, SeqBoundsRows(db)
    PROVE  SeqBoundsRows(OpenTables(db, T, m))
<1>1. SeqBoundsRows(CreateTables(db, T))
    BY DEF CreateTables, Db, SeqBoundsRows
<1>2. SeqBoundsRows(TruncateTables(db, T))
    BY DEF TruncateTables, CreateTables, Db, SeqBoundsRows
<1> QED
    BY <1>1, <1>2 DEF OpenTables

LEMMA NextSeqKeeps ==
    ASSUME NEW db \in Db, NEW t \in Tables, db.seq[t] # NoSeq, SeqBoundsRows(db)
    PROVE  NextSeq(db, t) \in Db /\ SeqBoundsRows(NextSeq(db, t))
<1>1. NextId(db, t) \in Seqs /\ (NextId(db, t) = 0 \/ NextId(db, t) = db.seq[t] + 1)
    BY NextIdRange
<1>2. NextSeq(db, t) \in Db
    BY <1>1 DEF NextSeq, Db
<1>3. SeqBoundsRows(NextSeq(db, t))
    <2> SUFFICES ASSUME NEW u \in Tables,
                        NextSeq(db, t).seq[u] # NoSeq, u \notin NextSeq(db, t).wrapped,
                        NEW k \in NextSeq(db, t).row[u]
                 PROVE  k <= NextSeq(db, t).seq[u]
        BY DEF SeqBoundsRows
    <2>1. k \in db.row[u] /\ u \notin db.wrapped
        BY DEF NextSeq, Db
    <2>2. CASE u # t
        BY <2>1, <2>2 DEF NextSeq, Db, SeqBoundsRows
    <2>3. CASE u = t
        <3>1. NextSeq(db, t).seq[u] = NextId(db, t)
            BY <2>3 DEF NextSeq, Db
        <3>2. NextId(db, t) # 0
            BY <2>3 DEF NextSeq, Db
        <3>3. k <= db.seq[t]
            BY <2>1, <2>3 DEF SeqBoundsRows
        <3>4. k \in Nat /\ db.seq[t] \in Nat
            BY <2>1, RepoDbAssumption DEF Db, Keys, Seqs
        <3> QED
            BY <1>1, <3>1, <3>2, <3>3, <3>4
    <2> QED
        BY <2>2, <2>3
<1> QED
    BY <1>2, <1>3

LEMMA PutRowKeeps ==
    ASSUME NEW db \in Db, NEW t \in Tables, NEW k \in Keys,
           Issued(db, t, k), SeqBoundsRows(db)
    PROVE  PutRow(db, t, k) \in Db /\ SeqBoundsRows(PutRow(db, t, k))
<1>1. PutRow(db, t, k) \in Db
    BY DEF PutRow, Db
<1>2. SeqBoundsRows(PutRow(db, t, k))
    BY DEF PutRow, Db, SeqBoundsRows, Issued
<1> QED
    BY <1>1, <1>2

LEMMA DelRowKeeps ==
    ASSUME NEW db \in Db, NEW t \in Tables, NEW k \in Keys, SeqBoundsRows(db)
    PROVE  DelRow(db, t, k) \in Db /\ SeqBoundsRows(DelRow(db, t, k))
    BY DEF DelRow, Db, SeqBoundsRows

LEMMA SetVersionKeeps ==
    ASSUME NEW db \in Db, NEW v \in Versions, SeqBoundsRows(db)
    PROVE  SetVersion(db, v) \in Db /\ SeqBoundsRows(SetVersion(db, v))
    BY DEF SetVersion, Db, SeqBoundsRows

\* An id past every key of the table, or 0, is the key of no row.
LEMMA NextIdIsUnused ==
    ASSUME NEW db \in Db, SeqBoundsRows(db)
    PROVE  NextIdUnusedIn(db)
<1> SUFFICES ASSUME NEW t \in Tables, db.seq[t] # NoSeq, t \notin db.wrapped,
                    NextId(db, t) \in db.row[t]
             PROVE  FALSE
    BY DEF NextIdUnusedIn
<1>1. NextId(db, t) \in 1 .. SeqMod - 1
    BY DEF Db, Keys
<1>2. NextId(db, t) <= db.seq[t]
    BY DEF SeqBoundsRows
<1>3. NextId(db, t) = 0 \/ NextId(db, t) = db.seq[t] + 1
    BY NextIdRange
<1>4. db.seq[t] \in Nat
    BY RepoDbAssumption DEF Db, Seqs
<1> QED
    BY <1>1, <1>2, <1>3, <1>4, RepoDbAssumption

-----------------------------------------------------------------------------
\* MovedOn is reflexive and transitive, and every operation of a transaction,
\* and the creation of tables, moves on.
LEMMA MovedOnToSelf ==
    ASSUME NEW db \in Db
    PROVE  MovedOn(db, db)
    BY RepoDbAssumption DEF MovedOn, Db, Seqs

LEMMA MovedOnTransitive ==
    ASSUME NEW a \in Db, NEW b \in Db, NEW c \in Db, MovedOn(a, b), MovedOn(b, c)
    PROVE  MovedOn(a, c)
<1> SUFFICES ASSUME NEW t \in Tables, a.seq[t] # NoSeq, t \notin c.wrapped
             PROVE  a.seq[t] <= c.seq[t]
    BY DEF MovedOn
<1>1. a.seq[t] <= b.seq[t] /\ b.seq[t] # NoSeq
    BY DEF MovedOn
<1>2. b.seq[t] <= c.seq[t] /\ c.seq[t] # NoSeq
    BY <1>1 DEF MovedOn
<1>3. a.seq[t] \in Nat /\ b.seq[t] \in Nat /\ c.seq[t] \in Nat
    BY <1>1, <1>2, RepoDbAssumption DEF Db, Seqs
<1> QED
    BY <1>1, <1>2, <1>3

LEMMA NextSeqMovesOn ==
    ASSUME NEW db \in Db, NEW t \in Tables, db.seq[t] # NoSeq
    PROVE  MovedOn(db, NextSeq(db, t))
<1> DEFINE new == NextSeq(db, t)
<1>1. NextId(db, t) \in Seqs /\ (NextId(db, t) = 0 \/ NextId(db, t) = db.seq[t] + 1)
    BY NextIdRange
<1>2. new.seq = [db.seq EXCEPT ![t] = NextId(db, t)] /\ db.wrapped \subseteq new.wrapped
    BY DEF NextSeq, Db
<1>3. NextId(db, t) = 0 => t \in new.wrapped
    BY DEF NextSeq, Db
<1> SUFFICES ASSUME NEW u \in Tables
             PROVE  /\ db.seq[u] = NoSeq <=> new.seq[u] = NoSeq
                    /\ db.seq[u] # NoSeq /\ u \notin new.wrapped => db.seq[u] <= new.seq[u]
    BY <1>2 DEF MovedOn
<1>4. CASE u = t
    <2>1. new.seq[u] = NextId(db, t)
        BY <1>2, <1>4 DEF Db
    <2>2. db.seq[t] \in Nat /\ NextId(db, t) # NoSeq
        BY <1>1, RepoDbAssumption DEF Db, Seqs
    <2> QED
        BY <1>1, <1>3, <1>4, <2>1, <2>2
<1>5. CASE u # t
    <2>1. new.seq[u] = db.seq[u]
        BY <1>2, <1>5 DEF Db
    <2> QED
        BY <2>1, RepoDbAssumption DEF Db, Seqs
<1> QED
    BY <1>4, <1>5

LEMMA RowsMoveOn ==
    ASSUME NEW db \in Db, NEW t \in Tables, NEW k \in Keys
    PROVE  MovedOn(db, PutRow(db, t, k)) /\ MovedOn(db, DelRow(db, t, k))
    BY MovedOnToSelf DEF MovedOn, PutRow, DelRow, Db

LEMMA SetVersionMovesOn ==
    ASSUME NEW db \in Db, NEW v \in Versions
    PROVE  MovedOn(db, SetVersion(db, v))
    BY MovedOnToSelf DEF MovedOn, SetVersion, Db

\* Without O_TRUNC opening tables leaves every counter as it is.
LEMMA OpenTablesMovesOn ==
    ASSUME NEW db \in Db, NEW T \in SUBSET Tables, NEW m \in Modes, ~Truncates(m)
    PROVE  MovedOn(db, OpenTables(db, T, m))
    BY MovedOnToSelf DEF MovedOn, OpenTables, CreateTables, Db

-----------------------------------------------------------------------------
(* The processes.                                                          *)

\* A file that a process has mapped has its meta pages.
LEMMA MappedIsDb ==
    ASSUME IInv, NEW p \in Procs, env[p] # NoFile
    PROVE  env[p] \in Files /\ content[env[p]] \in Db \cup {Cut}
    BY DEF IInv, TypeOK, FileInv

LEMMA OpenedIsDb ==
    ASSUME IInv, NEW p \in Procs, pc[p] = "tables"
    PROVE  /\ env[p] # NoFile
           /\ WithTables(p) \in Db \cup {Cut}
           /\ WithTables(p) # Cut => SeqBoundsRows(WithTables(p))
<1>1. env[p] # NoFile /\ pend[p] \in Db \cup {Cut}
    BY DEF IInv, TypeOK, CallInv, NothingLeaks
<1>2. OpenMode(p) \in Modes /\ tabs[p] \in SUBSET Tables
    BY DEF OpenMode, AccMode, Modes, IInv, TypeOK
<1>3. pend[p] # Cut => SeqBoundsRows(pend[p])
    BY <1>1, RepoAssumption DEF IInv, SeqInv
<1> QED
    BY <1>1, <1>2, <1>3, OpenTablesType, OpenTablesBounds DEF WithTables

\* What a process changes in its transaction is again contents with the
\* counters ahead of the rows, and none behind where it was.
WriteOf(p) ==
    \E db \in Db : Sees(p) /\ SeqBoundsRows(db) /\ MovedOn(pend[p], db) /\ Write(p, db)

LEMMA RowsAreWritten ==
    ASSUME IInv, NEW p \in Procs,
           \/ \E t \in tabs[p] : hed_repo_next_seq(p, t)
           \/ \E t \in tabs[p], k \in Keys : hed_repo_update(p, t, k)
           \/ \E t \in tabs[p], k \in Keys : hed_repo_del(p, t, k)
           \/ \E v \in Versions : hed_repo_set_version(p, v)
    PROVE  WriteOf(p)
<1>1. Sees(p)
    BY DEF hed_repo_next_seq, hed_repo_update, hed_repo_del, hed_repo_set_version
<1>2. tabs[p] \subseteq Tables
    BY DEF IInv, TypeOK
<1>3. pend[p] \in Db /\ SeqBoundsRows(pend[p])
    BY <1>1 DEF IInv, TypeOK, SeqInv, Sees, InTxn, HasTxn
<1>4. CASE \E t \in tabs[p] : hed_repo_next_seq(p, t)
    BY <1>1, <1>2, <1>3, <1>4, NextSeqKeeps, NextSeqMovesOn DEF hed_repo_next_seq, WriteOf
<1>5. CASE \E t \in tabs[p], k \in Keys : hed_repo_update(p, t, k)
    BY <1>1, <1>2, <1>3, <1>5, PutRowKeeps, RowsMoveOn DEF hed_repo_update, WriteOf
<1>6. CASE \E t \in tabs[p], k \in Keys : hed_repo_del(p, t, k)
    BY <1>1, <1>2, <1>3, <1>6, DelRowKeeps, RowsMoveOn DEF hed_repo_del, WriteOf
<1>7. CASE \E v \in Versions : hed_repo_set_version(p, v)
    BY <1>1, <1>3, <1>7, SetVersionKeeps, SetVersionMovesOn DEF hed_repo_set_version, WriteOf
<1> QED
    BY <1>4, <1>5, <1>6, <1>7

\* The parts of IInv that speak of every process by itself.
LEMMA InitIInv == Init => IInv
<1> SUFFICES ASSUME Init PROVE IInv
    OBVIOUS
<1>1. TypeOK
    BY DEF Init, TypeOK, Modes
<1>2. CallInv /\ FileInv /\ BackupInv /\ BackupIsBase /\ TxnBaseCurrent /\ CounterInv
    BY DEF Init, CallInv, FileInv, BackupInv, BackupIsBase, TxnBaseCurrent, CounterInv
<1>5. CopyInv
    BY DEF Init, CopyInv
<1>3. NothingLeaks /\ CommitReachesPath
    BY RepoAssumption DEF Init, NothingLeaks, CommitReachesPath
<1>4. SeqInv
    BY DEF Init, SeqInv
<1> QED
    BY <1>1, <1>2, <1>3, <1>4, <1>5 DEF IInv

LEMMA TypeStep ==
    ASSUME IInv, [Next]_vars
    PROVE  TypeOK'
<1> USE DEF fs, ctl, txn, hnd, ghost, Goto, Return, EndTxn, Disturb, Spoil, Put, Started
<1>0. CASE UNCHANGED vars
    BY <1>0 DEF IInv, TypeOK, vars
<1> SUFFICES ASSUME NEW p \in Procs, Step(p) \/ Fail(p) \/ Call(p) \/ Crash(p)
             PROVE  TypeOK'
    BY <1>0 DEF Next
<1>1. CASE env_open_existing(p)
    BY <1>1 DEF IInv, TypeOK, env_open_existing, AfterEnv
<1>2. CASE env_open_absent(p)
    BY <1>2, EmptyDbType DEF IInv, TypeOK, env_open_absent, AfterEnv, Unused
<1>3. CASE env_open_torn(p)
    BY <1>3, EmptyDbType DEF IInv, TypeOK, env_open_torn, AfterEnv
<1>4. CASE start_backup(p)
    BY <1>4 DEF IInv, TypeOK, start_backup, Unused
<1>5. CASE start_copy(p)
    BY <1>5, MappedIsDb DEF IInv, TypeOK, CallInv, start_copy
<1>6. CASE start_begin(p)
    BY <1>6, MappedIsDb DEF IInv, TypeOK, CallInv, start_begin
<1>7. CASE open_tables(p)
    BY <1>7, OpenedIsDb, MappedIsDb DEF IInv, TypeOK, CallInv, open_tables
<1>8. CASE open_tables_missing(p) \/ call_fails(p)
    <2>1. Unwind(p) /\ UNCHANGED fs
        BY <1>8 DEF open_tables_missing, call_fails
    <2> QED
        BY <2>1 DEF IInv, TypeOK, Unwind
<1>9. CASE open_commit_fails(p)
    BY <1>9, MappedIsDb DEF IInv, TypeOK, CallInv, open_commit_fails
<1>10. CASE commit_fails(p) \/ write_fails(p) \/ hed_repo_abort(p)
    BY <1>10 DEF IInv, TypeOK, commit_fails, write_fails, hed_repo_abort
<1>11. CASE \E m \in OpenModes, T \in TableLists : hed_repo_open(p, m, T)
    BY <1>11, RepoAssumption DEF IInv, TypeOK, hed_repo_open
<1>12. CASE hed_repo_start(p)
    BY <1>12 DEF IInv, TypeOK, hed_repo_start, AfterEnv
<1>13. CASE hed_repo_commit(p)
    BY <1>13 DEF IInv, TypeOK, NothingLeaks, hed_repo_commit, InTxn, HasTxn
<1>14. CASE hed_repo_reload(p)
    BY <1>14 DEF IInv, TypeOK, hed_repo_reload
<1>15. CASE hed_repo_rollback(p)
    BY <1>15 DEF IInv, TypeOK, hed_repo_rollback, Renamed
<1>16. CASE hed_repo_close(p)
    BY <1>16 DEF IInv, TypeOK, hed_repo_close
<1>17. CASE Crash(p)
    BY <1>17 DEF IInv, TypeOK, Crash
<1>18. CASE WriteOf(p)
    BY <1>18 DEF IInv, TypeOK, WriteOf, Write
<1>19. CASE start_copied(p)
    BY <1>19, MappedIsDb DEF IInv, TypeOK, CallInv, start_copied, CopyDone
<1>20. CASE env_open_fails(p)
    BY <1>20 DEF IInv, TypeOK, env_open_fails, Unwind, Unused
<1> QED
    BY <1>1, <1>2, <1>3, <1>4, <1>5, <1>6, <1>7, <1>8, <1>9, <1>10, <1>11, <1>12,
       <1>13, <1>14, <1>15, <1>16, <1>17, <1>18, <1>19, <1>20,
       RowsAreWritten
       DEF Step, Fail, Call

LEMMA CallStep ==
    ASSUME IInv, [Next]_vars
    PROVE  CallInv'
<1> USE DEF fs, ctl, txn, hnd, ghost, Goto, Return, EndTxn, Disturb, Spoil, Put, Started, IInv, TypeOK, CallInv, FileInv, NothingLeaks
<1>0. CASE UNCHANGED vars
    BY <1>0 DEF vars
<1> SUFFICES ASSUME NEW p \in Procs, Step(p) \/ Fail(p) \/ Call(p) \/ Crash(p)
             PROVE  CallInv'
    BY <1>0 DEF Next
<1>1. CASE env_open_existing(p)
    BY <1>1, RepoAssumption DEF env_open_existing, AfterEnv
<1>2. CASE env_open_absent(p)
    BY <1>2 DEF env_open_absent, AfterEnv, Unused
<1>3. CASE env_open_torn(p)
    BY <1>3, RepoAssumption DEF env_open_torn, AfterEnv
<1>4. CASE start_backup(p)
    BY <1>4, RepoAssumption DEF start_backup, Unused
<1>5. CASE start_copy(p)
    BY <1>5, MappedIsDb, RepoAssumption DEF start_copy
<1>6. CASE start_begin(p)
    BY <1>6, MappedIsDb, RepoAssumption DEF start_begin
<1>7. CASE open_tables(p)
    BY <1>7 DEF open_tables
<1>8. CASE open_tables_missing(p) \/ call_fails(p)
    <2>1. pc[p] # "idle" /\ Unwind(p) /\ UNCHANGED fs
        BY <1>8 DEF open_tables_missing, call_fails
    <2> QED
        BY <2>1 DEF Unwind
<1>9. CASE open_commit_fails(p)
    BY <1>9 DEF open_commit_fails
<1>10. CASE commit_fails(p) \/ write_fails(p) \/ hed_repo_abort(p)
    BY <1>10 DEF commit_fails, write_fails, hed_repo_abort, InTxn, HasTxn
<1>11. CASE \E m \in OpenModes, T \in TableLists : hed_repo_open(p, m, T)
    BY <1>11 DEF hed_repo_open
<1>12. CASE hed_repo_start(p)
    BY <1>12 DEF hed_repo_start, AfterEnv, Ready
<1>13. CASE hed_repo_commit(p)
    BY <1>13 DEF hed_repo_commit, InTxn, HasTxn
<1>14. CASE hed_repo_reload(p)
    BY <1>14 DEF hed_repo_reload, Ready
<1>15. CASE hed_repo_rollback(p)
    BY <1>15 DEF hed_repo_rollback, Renamed, Ready
<1>16. CASE hed_repo_close(p)
    BY <1>16 DEF hed_repo_close
<1>17. CASE Crash(p)
    BY <1>17 DEF Crash
<1>18. CASE WriteOf(p)
    BY <1>18, RepoAssumption DEF WriteOf, Write, Sees, InTxn, HasTxn
<1>19. CASE start_copied(p)
    BY <1>19, RepoAssumption DEF start_copied, CopyDone
<1>20. CASE env_open_fails(p)
    BY <1>20 DEF env_open_fails, Unwind, Unused
<1> QED
    BY <1>1, <1>2, <1>3, <1>4, <1>5, <1>6, <1>7, <1>8, <1>9, <1>10, <1>11, <1>12,
       <1>13, <1>14, <1>15, <1>16, <1>17, <1>18, <1>19, <1>20,
       RowsAreWritten
       DEF Step, Fail, Call

LEMMA FileStep ==
    ASSUME IInv, [Next]_vars
    PROVE  FileInv'
<1> USE DEF fs, ctl, txn, hnd, ghost, Goto, Return, EndTxn, Disturb, Spoil, Put, Started, IInv, TypeOK, FileInv, CallInv
<1>0. CASE UNCHANGED vars
    BY <1>0 DEF vars
<1> SUFFICES ASSUME NEW p \in Procs, Step(p) \/ Fail(p) \/ Call(p) \/ Crash(p)
             PROVE  FileInv'
    BY <1>0 DEF Next
<1>1. CASE env_open_existing(p)
    BY <1>1 DEF env_open_existing, AfterEnv
<1>2. CASE env_open_absent(p)
    BY <1>2, EmptyDbType, RepoAssumption DEF env_open_absent, AfterEnv, Unused
<1>3. CASE env_open_torn(p)
    BY <1>3, EmptyDbType, RepoAssumption DEF env_open_torn, AfterEnv
<1>4. CASE start_backup(p)
    BY <1>4 DEF start_backup, Unused
<1>5. CASE start_copy(p)
    BY <1>5, RepoAssumption DEF start_copy
<1>6. CASE start_begin(p)
    BY <1>6 DEF start_begin
<1>7. CASE open_tables(p)
    BY <1>7, OpenedIsDb, RepoAssumption DEF open_tables
<1>8. CASE open_tables_missing(p) \/ call_fails(p)
    <2>1. pc[p] # "idle" /\ Unwind(p) /\ UNCHANGED fs
        BY <1>8 DEF open_tables_missing, call_fails
    <2> QED
        BY <2>1 DEF Unwind
<1>9. CASE open_commit_fails(p)
    BY <1>9 DEF open_commit_fails
<1>10. CASE commit_fails(p) \/ write_fails(p) \/ hed_repo_abort(p)
    BY <1>10 DEF commit_fails, write_fails, hed_repo_abort, InTxn, HasTxn
<1>11. CASE \E m \in OpenModes, T \in TableLists : hed_repo_open(p, m, T)
    BY <1>11 DEF hed_repo_open
<1>12. CASE hed_repo_start(p)
    BY <1>12 DEF hed_repo_start, AfterEnv, Ready
<1>13. CASE hed_repo_commit(p)
    BY <1>13, RepoAssumption DEF hed_repo_commit, InTxn, HasTxn
<1>14. CASE hed_repo_reload(p)
    BY <1>14 DEF hed_repo_reload, Ready
<1>15. CASE hed_repo_rollback(p)
    BY <1>15 DEF hed_repo_rollback, Renamed, Ready
<1>16. CASE hed_repo_close(p)
    BY <1>16 DEF hed_repo_close
<1>17. CASE Crash(p)
    BY <1>17 DEF Crash
<1>18. CASE WriteOf(p)
    BY <1>18 DEF WriteOf, Write, Sees, InTxn, HasTxn
<1>19. CASE start_copied(p)
    BY <1>19, MappedIsDb, RepoAssumption DEF start_copied, CopyDone
<1>20. CASE env_open_fails(p)
    BY <1>20 DEF env_open_fails, Unwind, Unused
<1> QED
    BY <1>1, <1>2, <1>3, <1>4, <1>5, <1>6, <1>7, <1>8, <1>9, <1>10, <1>11, <1>12,
       <1>13, <1>14, <1>15, <1>16, <1>17, <1>18, <1>19, <1>20,
       RowsAreWritten
       DEF Step, Fail, Call

LEMMA LeakStep ==
    ASSUME IInv, [Next]_vars
    PROVE  NothingLeaks'
<1> USE DEF fs, ctl, txn, hnd, ghost, Goto, Return, EndTxn, Disturb, Spoil, Put, Started, IInv, TypeOK, NothingLeaks, CallInv
<1>0. CASE UNCHANGED vars
    BY <1>0 DEF vars
<1> SUFFICES ASSUME NEW p \in Procs, Step(p) \/ Fail(p) \/ Call(p) \/ Crash(p)
             PROVE  NothingLeaks'
    BY <1>0 DEF Next
<1>1. CASE env_open_existing(p)
    BY <1>1 DEF env_open_existing, AfterEnv
<1>2. CASE env_open_absent(p)
    BY <1>2 DEF env_open_absent, AfterEnv, Unused
<1>3. CASE env_open_torn(p)
    BY <1>3 DEF env_open_torn, AfterEnv
<1>4. CASE start_backup(p)
    BY <1>4 DEF start_backup, Unused
<1>5. CASE start_copy(p)
    BY <1>5 DEF start_copy
<1>6. CASE start_begin(p)
    BY <1>6, MappedIsDb, RepoAssumption DEF start_begin
<1>7. CASE open_tables(p)
    BY <1>7, RepoAssumption DEF open_tables
<1>8. CASE open_tables_missing(p) \/ call_fails(p)
    <2>1. pc[p] # "idle" /\ Unwind(p) /\ UNCHANGED fs
        BY <1>8 DEF open_tables_missing, call_fails
    <2> QED
        BY <2>1, RepoAssumption DEF Unwind
<1>9. CASE open_commit_fails(p)
    BY <1>9, RepoAssumption DEF open_commit_fails
<1>10. CASE commit_fails(p) \/ write_fails(p) \/ hed_repo_abort(p)
    BY <1>10, RepoAssumption DEF commit_fails, write_fails, hed_repo_abort, InTxn, HasTxn
<1>11. CASE \E m \in OpenModes, T \in TableLists : hed_repo_open(p, m, T)
    BY <1>11 DEF hed_repo_open
<1>12. CASE hed_repo_start(p)
    BY <1>12 DEF hed_repo_start, AfterEnv, Ready
<1>13. CASE hed_repo_commit(p)
    BY <1>13, RepoAssumption DEF hed_repo_commit, InTxn, HasTxn
<1>14. CASE hed_repo_reload(p)
    BY <1>14 DEF hed_repo_reload, Ready
<1>15. CASE hed_repo_rollback(p)
    BY <1>15 DEF hed_repo_rollback, Renamed, Ready
<1>16. CASE hed_repo_close(p)
    BY <1>16, RepoAssumption DEF hed_repo_close
<1>17. CASE Crash(p)
    BY <1>17, RepoAssumption DEF Crash
<1>18. CASE WriteOf(p)
    BY <1>18, RepoAssumption DEF WriteOf, Write, Sees, InTxn, HasTxn
<1>19. CASE start_copied(p)
    BY <1>19 DEF start_copied, CopyDone
<1>20. CASE env_open_fails(p)
    BY <1>20 DEF env_open_fails, Unwind, Unused
<1> QED
    BY <1>1, <1>2, <1>3, <1>4, <1>5, <1>6, <1>7, <1>8, <1>9, <1>10, <1>11, <1>12,
       <1>13, <1>14, <1>15, <1>16, <1>17, <1>18, <1>19, <1>20,
       RowsAreWritten
       DEF Step, Fail, Call

LEMMA BackupInvStep ==
    ASSUME IInv, [Next]_vars
    PROVE  BackupInv'
<1> USE DEF fs, ctl, txn, hnd, ghost, Goto, Return, EndTxn, Disturb, Spoil, Put, Started, IInv, TypeOK, BackupInv, CallInv, FileInv
<1>0. CASE UNCHANGED vars
    BY <1>0 DEF vars
<1> SUFFICES ASSUME NEW p \in Procs, Step(p) \/ Fail(p) \/ Call(p) \/ Crash(p)
             PROVE  BackupInv'
    BY <1>0 DEF Next
<1>1. CASE env_open_existing(p)
    BY <1>1 DEF env_open_existing, AfterEnv
<1>2. CASE env_open_absent(p)
    BY <1>2 DEF env_open_absent, AfterEnv, Unused
<1>3. CASE env_open_torn(p)
    BY <1>3 DEF env_open_torn, AfterEnv
<1>4. CASE start_backup(p)
    <2>1. \A q \in Procs : quiet'[q] => q = p
        BY <1>4 DEF start_backup
    <2>2. bak' = fd'[p] /\ pc'[p] = "copy" /\ copied'[p] = NoTxn
        BY <1>4 DEF start_backup, Unused
    <2> QED
        BY <2>1, <2>2
<1>5. CASE start_copy(p)
    <2>1. \A q \in Procs : quiet'[q] => q = p /\ quiet[p]
        BY <1>5 DEF start_copy
    <2>2. quiet[p] => fd[p] \in Files /\ bak = fd[p] /\ env[p] # bak /\ copied[p] = NoTxn
        BY <1>5 DEF start_copy
    <2>3. /\ pc'[p] = "pages" /\ bak' = bak /\ fd' = fd /\ env' = env
          /\ copied[p] = NoTxn => copied'[p] = content[env[p]]
          /\ content' = [content EXCEPT ![fd[p]] = Cut]
        BY <1>5, RepoAssumption DEF start_copy
    <2> QED
        BY <2>1, <2>2, <2>3
<1>6. CASE start_begin(p)
    BY <1>6 DEF start_begin
<1>7. CASE open_tables(p)
    <2>1. \A q \in Procs : quiet'[q] => q = p
        BY <1>7 DEF open_tables
    <2>2. pc'[p] = "idle"
        BY <1>7 DEF open_tables
    <2> QED
        BY <2>1, <2>2
<1>8. CASE open_tables_missing(p) \/ call_fails(p)
    <2>1. pc[p] # "idle" /\ Unwind(p) /\ UNCHANGED fs
        BY <1>8 DEF open_tables_missing, call_fails
    <2> QED
        BY <2>1 DEF Unwind
<1>9. CASE open_commit_fails(p)
    BY <1>9 DEF open_commit_fails
<1>10. CASE commit_fails(p) \/ write_fails(p) \/ hed_repo_abort(p)
    BY <1>10 DEF commit_fails, write_fails, hed_repo_abort, InTxn, HasTxn
<1>11. CASE \E m \in OpenModes, T \in TableLists : hed_repo_open(p, m, T)
    BY <1>11 DEF hed_repo_open
<1>12. CASE hed_repo_start(p)
    BY <1>12 DEF hed_repo_start, AfterEnv, Ready
<1>13. CASE hed_repo_commit(p)
    BY <1>13 DEF hed_repo_commit, InTxn, HasTxn
<1>14. CASE hed_repo_reload(p)
    BY <1>14 DEF hed_repo_reload, Ready
<1>15. CASE hed_repo_rollback(p)
    <2>1. \A q \in Procs : quiet'[q] => q = p
        BY <1>15 DEF hed_repo_rollback
    <2>2. pc'[p] = "env"
        BY <1>15 DEF hed_repo_rollback, Ready
    <2> QED
        BY <2>1, <2>2
<1>16. CASE hed_repo_close(p)
    BY <1>16 DEF hed_repo_close
<1>17. CASE Crash(p)
    BY <1>17 DEF Crash
<1>18. CASE WriteOf(p)
    BY <1>18 DEF WriteOf, Write, Sees, InTxn, HasTxn
<1>19. CASE start_copied(p)
    <2>1. \A q \in Procs : quiet'[q] => q = p /\ quiet[p]
        BY <1>19 DEF start_copied
    <2>2. quiet[p] =>
              /\ fd[p] \in Files /\ bak = fd[p] /\ bak # NoFile /\ env[p] # bak
              /\ content[fd[p]] = Cut /\ copied[p] = content[env[p]]
        BY <1>19, RepoAssumption DEF start_copied
    <2>3. quiet[p] => CopyDone(p) = content[env[p]]
        BY <2>2, RepoAssumption DEF CopyDone
    <2>4. /\ pc'[p] = "begin" /\ bak' = bak /\ env' = env
          /\ content' = [content EXCEPT ![fd[p]] = CopyDone(p)]
        BY <1>19 DEF start_copied
    <2> QED
        BY <2>1, <2>2, <2>3, <2>4
<1>20. CASE env_open_fails(p)
    BY <1>20 DEF env_open_fails, Unwind, Unused
<1> QED
    BY <1>1, <1>2, <1>3, <1>4, <1>5, <1>6, <1>7, <1>8, <1>9, <1>10, <1>11, <1>12,
       <1>13, <1>14, <1>15, <1>16, <1>17, <1>18, <1>19, <1>20,
       RowsAreWritten
       DEF Step, Fail, Call

LEMMA BackupBaseStep ==
    ASSUME IInv, [Next]_vars
    PROVE  BackupIsBase'
<1> USE DEF fs, ctl, txn, hnd, ghost, Goto, Return, EndTxn, Disturb, Spoil, Put, Started, IInv, TypeOK, BackupIsBase, BackupInv, CallInv, FileInv
<1>0. CASE UNCHANGED vars
    BY <1>0 DEF vars
<1> SUFFICES ASSUME NEW p \in Procs, Step(p) \/ Fail(p) \/ Call(p) \/ Crash(p)
             PROVE  BackupIsBase'
    BY <1>0 DEF Next
<1>1. CASE env_open_existing(p)
    BY <1>1 DEF env_open_existing, AfterEnv
<1>2. CASE env_open_absent(p)
    BY <1>2 DEF env_open_absent, AfterEnv, Unused
<1>3. CASE env_open_torn(p)
    BY <1>3 DEF env_open_torn, AfterEnv
<1>4. CASE start_backup(p)
    <2>1. \A q \in Procs : quiet'[q] => q = p
        BY <1>4 DEF start_backup
    <2>2. snap'[p] = NoTxn
        BY <1>4 DEF start_backup
    <2> QED
        BY <2>1, <2>2
<1>5. CASE start_copy(p)
    BY <1>5 DEF start_copy
<1>6. CASE start_begin(p)
    BY <1>6 DEF start_begin
<1>7. CASE open_tables(p)
    <2>1. \A q \in Procs : quiet'[q] => q = p /\ quiet[p]
        BY <1>7 DEF open_tables
    <2>2. /\ bak' = bak /\ snap' = snap /\ env[p] # bak
          /\ \A f \in Files : f # env[p] => content'[f] = content[f]
        BY <1>7, OpenedIsDb DEF open_tables
    <2> QED
        BY <2>1, <2>2
<1>8. CASE open_tables_missing(p) \/ call_fails(p)
    <2>1. pc[p] # "idle" /\ Unwind(p) /\ UNCHANGED fs
        BY <1>8 DEF open_tables_missing, call_fails
    <2> QED
        BY <2>1 DEF Unwind
<1>9. CASE open_commit_fails(p)
    BY <1>9 DEF open_commit_fails
<1>10. CASE commit_fails(p) \/ write_fails(p) \/ hed_repo_abort(p)
    BY <1>10 DEF commit_fails, write_fails, hed_repo_abort, InTxn, HasTxn
<1>11. CASE \E m \in OpenModes, T \in TableLists : hed_repo_open(p, m, T)
    BY <1>11 DEF hed_repo_open
<1>12. CASE hed_repo_start(p)
    BY <1>12 DEF hed_repo_start, AfterEnv, Ready
<1>13. CASE hed_repo_commit(p)
    BY <1>13 DEF hed_repo_commit, InTxn, HasTxn
<1>14. CASE hed_repo_reload(p)
    BY <1>14 DEF hed_repo_reload, Ready
<1>15. CASE hed_repo_rollback(p)
    <2>1. \A q \in Procs : quiet'[q] => q = p
        BY <1>15 DEF hed_repo_rollback
    <2>2. \/ snap'[p] = NoTxn
          \/ quiet'[p] = quiet[p] /\ snap' = snap /\ bak' = bak /\ content' = content
        BY <1>15 DEF hed_repo_rollback
    <2> QED
        BY <2>1, <2>2
<1>16. CASE hed_repo_close(p)
    <2>1. \A q \in Procs : quiet'[q] => q = p
        BY <1>16 DEF hed_repo_close
    <2>2. snap'[p] = NoTxn
        BY <1>16 DEF hed_repo_close
    <2> QED
        BY <2>1, <2>2
<1>17. CASE Crash(p)
    BY <1>17 DEF Crash
<1>18. CASE WriteOf(p)
    BY <1>18 DEF WriteOf, Write, Sees, InTxn, HasTxn
<1>19. CASE start_copied(p)
    BY <1>19 DEF start_copied, CopyDone
<1>20. CASE env_open_fails(p)
    BY <1>20 DEF env_open_fails, Unwind, Unused
<1> QED
    BY <1>1, <1>2, <1>3, <1>4, <1>5, <1>6, <1>7, <1>8, <1>9, <1>10, <1>11, <1>12,
       <1>13, <1>14, <1>15, <1>16, <1>17, <1>18, <1>19, <1>20,
       RowsAreWritten
       DEF Step, Fail, Call

LEMMA TxnBaseStep ==
    ASSUME IInv, [Next]_vars
    PROVE  TxnBaseCurrent'
<1> USE DEF fs, ctl, txn, hnd, ghost, Goto, Return, EndTxn, Disturb, Spoil, Put, Started, IInv, TypeOK, TxnBaseCurrent, NothingLeaks, CallInv, FileInv
<1>0. CASE UNCHANGED vars
    BY <1>0 DEF vars
<1> SUFFICES ASSUME NEW p \in Procs, Step(p) \/ Fail(p) \/ Call(p) \/ Crash(p)
             PROVE  TxnBaseCurrent'
    BY <1>0 DEF Next
<1>1. CASE env_open_existing(p)
    BY <1>1 DEF env_open_existing, AfterEnv
<1>2. CASE env_open_absent(p)
    BY <1>2 DEF env_open_absent, AfterEnv, Unused
<1>3. CASE env_open_torn(p)
    BY <1>3 DEF env_open_torn, AfterEnv
<1>4. CASE start_backup(p)
    BY <1>4 DEF start_backup, Unused
<1>5. CASE start_copy(p)
    BY <1>5 DEF start_copy
<1>6. CASE start_begin(p)
    BY <1>6 DEF start_begin
<1>7. CASE open_tables(p)
    <2>1. writer = p /\ \A q \in Procs \ {p} : pend[q] = NoTxn
        BY <1>7, RepoAssumption DEF open_tables
    <2>2. pend' = [pend EXCEPT ![p] = NoTxn]
        BY <1>7 DEF open_tables
    <2> QED
        BY <2>1, <2>2
<1>8. CASE open_tables_missing(p) \/ call_fails(p)
    <2>1. pc[p] # "idle" /\ Unwind(p) /\ UNCHANGED fs
        BY <1>8 DEF open_tables_missing, call_fails
    <2> QED
        BY <2>1 DEF Unwind
<1>9. CASE open_commit_fails(p)
    BY <1>9 DEF open_commit_fails
<1>10. CASE commit_fails(p) \/ write_fails(p) \/ hed_repo_abort(p)
    BY <1>10 DEF commit_fails, write_fails, hed_repo_abort, InTxn, HasTxn
<1>11. CASE \E m \in OpenModes, T \in TableLists : hed_repo_open(p, m, T)
    BY <1>11 DEF hed_repo_open
<1>12. CASE hed_repo_start(p)
    BY <1>12 DEF hed_repo_start, AfterEnv, Ready
<1>13. CASE hed_repo_commit(p)
    BY <1>13 DEF hed_repo_commit, InTxn, HasTxn
<1>14. CASE hed_repo_reload(p)
    BY <1>14 DEF hed_repo_reload, Ready
<1>15. CASE hed_repo_rollback(p)
    BY <1>15 DEF hed_repo_rollback, Renamed, Ready
<1>16. CASE hed_repo_close(p)
    BY <1>16 DEF hed_repo_close
<1>17. CASE Crash(p)
    BY <1>17 DEF Crash
<1>18. CASE WriteOf(p)
    BY <1>18 DEF WriteOf, Write, Sees, InTxn, HasTxn
<1>19. CASE start_copied(p)
    BY <1>19 DEF start_copied, CopyDone
<1>20. CASE env_open_fails(p)
    BY <1>20 DEF env_open_fails, Unwind, Unused
<1> QED
    BY <1>1, <1>2, <1>3, <1>4, <1>5, <1>6, <1>7, <1>8, <1>9, <1>10, <1>11, <1>12,
       <1>13, <1>14, <1>15, <1>16, <1>17, <1>18, <1>19, <1>20,
       RowsAreWritten
       DEF Step, Fail, Call

LEMMA SeqStep ==
    ASSUME IInv, [Next]_vars
    PROVE  SeqInv'
<1> USE DEF fs, ctl, txn, hnd, ghost, Goto, Return, EndTxn, Disturb, Spoil, Put, Started, IInv, TypeOK, SeqInv, CallInv
<1>0. CASE UNCHANGED vars
    BY <1>0 DEF vars
<1> SUFFICES ASSUME NEW p \in Procs, Step(p) \/ Fail(p) \/ Call(p) \/ Crash(p)
             PROVE  SeqInv'
    BY <1>0 DEF Next
<1>1. CASE env_open_existing(p)
    BY <1>1 DEF env_open_existing, AfterEnv
<1>2. CASE env_open_absent(p)
    BY <1>2, EmptyDbType DEF env_open_absent, AfterEnv, Unused
<1>3. CASE env_open_torn(p)
    BY <1>3, EmptyDbType DEF env_open_torn, AfterEnv
<1>4. CASE start_backup(p)
    BY <1>4 DEF start_backup, Unused
<1>5. CASE start_copy(p)
    BY <1>5, MappedIsDb, RepoAssumption DEF start_copy
<1>6. CASE start_begin(p)
    BY <1>6, MappedIsDb, RepoAssumption DEF start_begin
<1>7. CASE open_tables(p)
    BY <1>7, OpenedIsDb DEF open_tables
<1>8. CASE open_tables_missing(p) \/ call_fails(p)
    <2>1. pc[p] # "idle" /\ Unwind(p) /\ UNCHANGED fs
        BY <1>8 DEF open_tables_missing, call_fails
    <2> QED
        BY <2>1 DEF Unwind
<1>9. CASE open_commit_fails(p)
    BY <1>9 DEF open_commit_fails
<1>10. CASE commit_fails(p) \/ write_fails(p) \/ hed_repo_abort(p)
    BY <1>10 DEF commit_fails, write_fails, hed_repo_abort, InTxn, HasTxn
<1>11. CASE \E m \in OpenModes, T \in TableLists : hed_repo_open(p, m, T)
    BY <1>11 DEF hed_repo_open
<1>12. CASE hed_repo_start(p)
    BY <1>12 DEF hed_repo_start, AfterEnv, Ready
<1>13. CASE hed_repo_commit(p)
    BY <1>13 DEF hed_repo_commit, InTxn, HasTxn
<1>14. CASE hed_repo_reload(p)
    BY <1>14 DEF hed_repo_reload, Ready
<1>15. CASE hed_repo_rollback(p)
    BY <1>15 DEF hed_repo_rollback, Renamed, Ready
<1>16. CASE hed_repo_close(p)
    BY <1>16 DEF hed_repo_close
<1>17. CASE Crash(p)
    BY <1>17 DEF Crash
<1>18. CASE WriteOf(p)
    BY <1>18 DEF WriteOf, Write, Sees, InTxn, HasTxn
<1>19. CASE start_copied(p)
    BY <1>19 DEF start_copied, CopyDone
<1>20. CASE env_open_fails(p)
    BY <1>20 DEF env_open_fails, Unwind, Unused
<1> QED
    BY <1>1, <1>2, <1>3, <1>4, <1>5, <1>6, <1>7, <1>8, <1>9, <1>10, <1>11, <1>12,
       <1>13, <1>14, <1>15, <1>16, <1>17, <1>18, <1>19, <1>20,
       RowsAreWritten
       DEF Step, Fail, Call

LEMMA PathStep ==
    ASSUME IInv, [Next]_vars
    PROVE  CommitReachesPath'
<1> USE DEF fs, ctl, txn, hnd, ghost, Goto, Return, EndTxn, Disturb, Spoil, Put, Started, IInv, TypeOK, CommitReachesPath, PathIsStable, CallInv, FileInv
<1>0. CASE UNCHANGED vars
    BY <1>0 DEF vars
<1> SUFFICES ASSUME NEW p \in Procs, Step(p) \/ Fail(p) \/ Call(p) \/ Crash(p)
             PROVE  CommitReachesPath'
    BY <1>0 DEF Next
<1>1. CASE env_open_existing(p)
    BY <1>1 DEF env_open_existing, AfterEnv
<1>2. CASE env_open_absent(p)
    BY <1>2 DEF env_open_absent, AfterEnv, Unused
<1>3. CASE env_open_torn(p)
    BY <1>3 DEF env_open_torn, AfterEnv
<1>4. CASE start_backup(p)
    BY <1>4 DEF start_backup, Unused
<1>5. CASE start_copy(p)
    BY <1>5 DEF start_copy
<1>6. CASE start_begin(p)
    BY <1>6 DEF start_begin
<1>7. CASE open_tables(p)
    BY <1>7 DEF open_tables
<1>8. CASE open_tables_missing(p) \/ call_fails(p)
    <2>1. pc[p] # "idle" /\ Unwind(p) /\ UNCHANGED fs
        BY <1>8 DEF open_tables_missing, call_fails
    <2> QED
        BY <2>1 DEF Unwind
<1>9. CASE open_commit_fails(p)
    BY <1>9 DEF open_commit_fails
<1>10. CASE commit_fails(p) \/ write_fails(p) \/ hed_repo_abort(p)
    BY <1>10 DEF commit_fails, write_fails, hed_repo_abort, InTxn, HasTxn
<1>11. CASE \E m \in OpenModes, T \in TableLists : hed_repo_open(p, m, T)
    BY <1>11 DEF hed_repo_open
<1>12. CASE hed_repo_start(p)
    BY <1>12 DEF hed_repo_start, AfterEnv, Ready
<1>13. CASE hed_repo_commit(p)
    BY <1>13 DEF hed_repo_commit, InTxn, HasTxn
<1>14. CASE hed_repo_reload(p)
    BY <1>14 DEF hed_repo_reload, Ready
<1>15. CASE hed_repo_rollback(p)
    BY <1>15 DEF hed_repo_rollback, Renamed, Ready
<1>16. CASE hed_repo_close(p)
    BY <1>16 DEF hed_repo_close
<1>17. CASE Crash(p)
    BY <1>17 DEF Crash
<1>18. CASE WriteOf(p)
    BY <1>18 DEF WriteOf, Write, Sees, InTxn, HasTxn
<1>19. CASE start_copied(p)
    BY <1>19 DEF start_copied, CopyDone
<1>20. CASE env_open_fails(p)
    BY <1>20 DEF env_open_fails, Unwind, Unused
<1> QED
    BY <1>1, <1>2, <1>3, <1>4, <1>5, <1>6, <1>7, <1>8, <1>9, <1>10, <1>11, <1>12,
       <1>13, <1>14, <1>15, <1>16, <1>17, <1>18, <1>19, <1>20,
       RowsAreWritten
       DEF Step, Fail, Call

LEMMA CopyStep ==
    ASSUME IInv, [Next]_vars
    PROVE  CopyInv'
<1> USE DEF fs, ctl, txn, hnd, ghost, Goto, Return, EndTxn, Disturb, Spoil, Put, Started, IInv, TypeOK, CopyInv, PathIsStable, CallInv, NothingLeaks
<1>0. CASE UNCHANGED vars
    BY <1>0 DEF vars
<1> SUFFICES ASSUME NEW p \in Procs, Step(p) \/ Fail(p) \/ Call(p) \/ Crash(p)
             PROVE  CopyInv'
    BY <1>0 DEF Next
<1>1. CASE env_open_existing(p)
    BY <1>1 DEF env_open_existing, AfterEnv
<1>2. CASE env_open_absent(p)
    BY <1>2 DEF env_open_absent, AfterEnv, Unused
<1>3. CASE env_open_torn(p)
    BY <1>3 DEF env_open_torn, AfterEnv
<1>4. CASE start_backup(p)
    BY <1>4 DEF start_backup, Unused
<1>5. CASE start_copy(p)
    BY <1>5 DEF start_copy
<1>6. CASE start_begin(p)
    BY <1>6 DEF start_begin
<1>7. CASE open_tables(p)
    BY <1>7 DEF open_tables
<1>8. CASE open_tables_missing(p) \/ call_fails(p)
    <2>1. pc[p] # "idle" /\ Unwind(p) /\ UNCHANGED fs
        BY <1>8 DEF open_tables_missing, call_fails
    <2> QED
        BY <2>1 DEF Unwind
<1>9. CASE open_commit_fails(p)
    BY <1>9 DEF open_commit_fails
<1>10. CASE commit_fails(p) \/ write_fails(p) \/ hed_repo_abort(p)
    BY <1>10 DEF commit_fails, write_fails, hed_repo_abort, InTxn, HasTxn
<1>11. CASE \E m \in OpenModes, T \in TableLists : hed_repo_open(p, m, T)
    BY <1>11 DEF hed_repo_open
<1>12. CASE hed_repo_start(p)
    BY <1>12 DEF hed_repo_start, AfterEnv, Ready
<1>13. CASE hed_repo_commit(p)
    BY <1>13 DEF hed_repo_commit, InTxn, HasTxn
<1>14. CASE hed_repo_reload(p)
    BY <1>14 DEF hed_repo_reload, Ready
<1>15. CASE hed_repo_rollback(p)
    BY <1>15 DEF hed_repo_rollback, Renamed, Ready
<1>16. CASE hed_repo_close(p)
    BY <1>16 DEF hed_repo_close
<1>17. CASE Crash(p)
    BY <1>17 DEF Crash
<1>18. CASE WriteOf(p)
    BY <1>18 DEF WriteOf, Write, Sees, InTxn, HasTxn
<1>19. CASE start_copied(p)
    BY <1>19 DEF start_copied, CopyDone
<1>20. CASE env_open_fails(p)
    BY <1>20 DEF env_open_fails, Unwind, Unused
<1> QED
    BY <1>1, <1>2, <1>3, <1>4, <1>5, <1>6, <1>7, <1>8, <1>9, <1>10, <1>11, <1>12,
       <1>13, <1>14, <1>15, <1>16, <1>17, <1>18, <1>19, <1>20,
       RowsAreWritten
       DEF Step, Fail, Call

LEMMA CounterInvStep ==
    ASSUME IInv, [Next]_vars
    PROVE  CounterInv'
<1> USE DEF fs, ctl, txn, hnd, ghost, Goto, Return, EndTxn, Disturb, Spoil, Put, Started, IInv, TypeOK, CounterInv, PathIsStable, NothingLeaks, CallInv, FileInv
<1>0. CASE UNCHANGED vars
    BY <1>0 DEF vars
<1> SUFFICES ASSUME NEW p \in Procs, Step(p) \/ Fail(p) \/ Call(p) \/ Crash(p)
             PROVE  CounterInv'
    BY <1>0 DEF Next
<1>1. CASE env_open_existing(p)
    BY <1>1 DEF env_open_existing, AfterEnv
<1>2. CASE env_open_absent(p)
    BY <1>2 DEF env_open_absent, AfterEnv, Unused
<1>3. CASE env_open_torn(p)
    BY <1>3 DEF env_open_torn, AfterEnv
<1>4. CASE start_backup(p)
    BY <1>4 DEF start_backup, Unused
<1>5. CASE start_copy(p)
    BY <1>5 DEF start_copy
<1>6. CASE start_begin(p)
    <2>1. /\ content[env[p]] \in Db \cup {Cut}
          /\ content[env[p]] # Cut => MovedOn(content[env[p]], content[env[p]])
        BY <1>6, MappedIsDb, MovedOnToSelf DEF start_begin
    <2>2. \A q \in Procs \ {p} : pend[q] = NoTxn /\ pend'[q] = NoTxn
        BY <1>6, RepoAssumption DEF start_begin
    <2>3. /\ pend'[p] = content[env[p]] /\ snap'[p] = content[env[p]]
          /\ content' = content /\ env' = env
        BY <1>6 DEF start_begin
    <2> QED
        BY <2>1, <2>2, <2>3, RepoAssumption
<1>7. CASE open_tables(p)
    <2>1. writer = p /\ \A q \in Procs \ {p} : pend[q] = NoTxn
        BY <1>7, RepoAssumption DEF open_tables
    <2>2. pend' = [pend EXCEPT ![p] = NoTxn]
        BY <1>7 DEF open_tables
    <2> QED
        BY <2>1, <2>2
<1>8. CASE open_tables_missing(p) \/ call_fails(p)
    <2>1. pc[p] # "idle" /\ Unwind(p) /\ UNCHANGED fs
        BY <1>8 DEF open_tables_missing, call_fails
    <2> QED
        BY <2>1 DEF Unwind
<1>9. CASE open_commit_fails(p)
    BY <1>9 DEF open_commit_fails
<1>10. CASE commit_fails(p) \/ write_fails(p) \/ hed_repo_abort(p)
    BY <1>10 DEF commit_fails, write_fails, hed_repo_abort, InTxn, HasTxn
<1>11. CASE \E m \in OpenModes, T \in TableLists : hed_repo_open(p, m, T)
    BY <1>11 DEF hed_repo_open
<1>12. CASE hed_repo_start(p)
    BY <1>12 DEF hed_repo_start, AfterEnv, Ready
<1>13. CASE hed_repo_commit(p)
    BY <1>13 DEF hed_repo_commit, InTxn, HasTxn
<1>14. CASE hed_repo_reload(p)
    BY <1>14 DEF hed_repo_reload, Ready
<1>15. CASE hed_repo_rollback(p)
    BY <1>15 DEF hed_repo_rollback, Renamed, Ready
<1>16. CASE hed_repo_close(p)
    BY <1>16 DEF hed_repo_close
<1>17. CASE Crash(p)
    BY <1>17 DEF Crash
<1>18. CASE WriteOf(p)
    <2> PICK db \in Db : Sees(p) /\ MovedOn(pend[p], db) /\ Write(p, db)
        BY <1>18 DEF WriteOf
    <2>1. pend[p] \in Db /\ snap[p] \in Db /\ MovedOn(snap[p], pend[p])
        BY DEF Sees, InTxn, HasTxn
    <2>2. MovedOn(snap[p], db)
        BY <2>1, MovedOnTransitive
    <2> QED
        BY <2>1, <2>2, RepoAssumption DEF Write, Sees, InTxn, HasTxn
<1>19. CASE start_copied(p)
    BY <1>19 DEF start_copied, CopyDone
<1>20. CASE env_open_fails(p)
    BY <1>20 DEF env_open_fails, Unwind, Unused
<1> QED
    BY <1>1, <1>2, <1>3, <1>4, <1>5, <1>6, <1>7, <1>8, <1>9, <1>10, <1>11, <1>12,
       <1>13, <1>14, <1>15, <1>16, <1>17, <1>18, <1>19, <1>20,
       RowsAreWritten
       DEF Step, Fail, Call

-----------------------------------------------------------------------------
\* Every state the processes can reach satisfies the whole of IInv.
THEOREM Invariance == Spec => []IInv
<1>1. Init => IInv
    BY InitIInv
<1>2. IInv /\ [Next]_vars => IInv'
    <2> SUFFICES ASSUME IInv, [Next]_vars PROVE IInv'
        OBVIOUS
    <2> QED
        BY TypeStep, CallStep, FileStep, LeakStep, BackupInvStep, BackupBaseStep,
           TxnBaseStep, SeqStep, PathStep, CopyStep, CounterInvStep DEF IInv
<1> QED
    BY <1>1, <1>2, PTL DEF Spec

\* The state of the processes and of the files keeps its shape: no field of
\* the contents leaves its range, the counter least of all (repo.c:407).
THEOREM TypeCorrect == Spec => []TypeOK
<1>1. IInv => TypeOK
    BY DEF IInv
<1> QED
    BY <1>1, Invariance, PTL

\* hed_repo_start saves what hed_repo_rollback puts back (repo.c:200-213, 250).
THEOREM BackupCorrect == Spec => []BackupIsBase
<1>1. IInv => BackupIsBase
    BY DEF IInv
<1> QED
    BY <1>1, Invariance, PTL

\* hed_repo_commit overwrites no other process's commit (repo.c:213, 225).
THEOREM NoLostUpdate == Spec => []TxnBaseCurrent
<1>1. IInv => TxnBaseCurrent
    BY DEF IInv
<1> QED
    BY <1>1, Invariance, PTL

\* The mutex is always with a process that has a transaction to end and the
\* environment to end it in, also where repo_open gives up with its transaction
\* open; no error path keeps the backup open (repo.c:17-18, 76-103, 206-211).
THEOREM NoLeak == Spec => []NothingLeaks
<1>1. IInv => NothingLeaks
    BY DEF IInv
<1> QED
    BY <1>1, Invariance, PTL

\* hed_repo_next_seq gives an id that no row has (repo.c:387-416).
THEOREM SequenceFresh == Spec => []NextIdUnused
<1>1. IInv => NextIdUnused
    <2> SUFFICES ASSUME IInv PROVE NextIdUnused
        OBVIOUS
    <2> QED
        BY NextIdIsUnused DEF IInv, TypeOK, SeqInv, NextIdUnused
<1> QED
    BY <1>1, Invariance, PTL

\* Where nobody else rolls back, what is mapped is what the path names.
THEOREM CommitsReachPath == Spec => []CommitReachesPath
<1>1. IInv => CommitReachesPath
    BY DEF IInv
<1> QED
    BY <1>1, Invariance, PTL

-----------------------------------------------------------------------------
\* Where the files are stable, two actions change the contents the path names.
LEMMA ContentsChangers ==
    ASSUME IInv, Next, PathIsStable,
           NEW f \in Files, f = path, content[f] \notin {Torn, Cut}, content'[f] # content[f]
    PROVE  \E p \in Procs : open_tables(p) \/ hed_repo_commit(p)
<1> PICK p \in Procs : Step(p) \/ Fail(p) \/ Call(p) \/ Crash(p)
    BY DEF Next
<1>1. ~env_open_absent(p) /\ ~env_open_torn(p) /\ ~env_open_fails(p)
    BY RepoAssumption DEF env_open_absent, env_open_torn, env_open_fails, IInv, TypeOK
<1>2. ~start_backup(p)
    BY RepoAssumption DEF start_backup, Unused, IInv, FileInv, TypeOK
<1>3. ~start_copy(p) /\ ~start_copied(p)
    <2> SUFFICES ASSUME start_copy(p) \/ start_copied(p) PROVE FALSE
        OBVIOUS
    <2>1. fd[p] # NoFile /\ fd[p] = bak
        BY DEF start_copy, start_copied, IInv, CallInv, CopyInv
    <2>2. bak # path
        BY <2>1 DEF IInv, FileInv
    <2> QED
        BY <2>1, <2>2 DEF start_copy, start_copied, IInv, TypeOK
<1>4. CASE UNCHANGED fs
    BY <1>4 DEF fs
<1>5. CASE hed_repo_rollback(p) \/ hed_repo_close(p)
    BY <1>5 DEF hed_repo_rollback, hed_repo_close
<1>6. CASE WriteOf(p)
    BY <1>6 DEF WriteOf, Write, fs
<1> QED
    BY <1>1, <1>2, <1>3, <1>4, <1>5, <1>6, RowsAreWritten
       DEF Step, Fail, Call, env_open_existing, start_begin, open_tables_missing,
           open_commit_fails, call_fails, commit_fails, write_fails, hed_repo_open,
           hed_repo_start, hed_repo_abort, hed_repo_reload, Crash

\* And each of the two is a commit.
LEMMA ContentsChange ==
    ASSUME IInv, Next, PathIsStable
    PROVE  ContentStep
<1> SUFFICES ASSUME NEW f \in Files, f = path, content[f] \notin {Torn, Cut},
                    content'[f] # content[f]
             PROVE  \E p \in Procs : Commits(p, f)
    BY DEF ContentStep
<1> PICK p \in Procs : open_tables(p) \/ hed_repo_commit(p)
    BY ContentsChangers
<1>1. CASE open_tables(p)
    <2>1. pc[p] = "tables" /\ writer = p /\ writer' = NoProc /\ ret'[p] = "ok"
        BY <1>1 DEF open_tables, EndTxn, Return, IInv, TypeOK, CallInv, NothingLeaks
    <2>2. env[p] = path /\ pend[p] = content[f]
        BY <2>1 DEF IInv, CommitReachesPath, CallInv, NothingLeaks, CounterInv
    <2>3. content'[f] = OpenTables(content[f], tabs[p], OpenMode(p))
        BY <1>1, <2>2 DEF open_tables, Put, WithTables, IInv, TypeOK
    <2>4. Creates(OpenMode(p))
        BY <2>3 DEF OpenTables, Truncates, Creates
    <2>5. call[p] = "open" /\ Creates(mode[p]) /\ OpenMode(p) = mode[p]
        BY <2>4 DEF OpenMode, AccMode, Creates
    <2> QED
        BY <2>1, <2>3, <2>5 DEF Commits
<1>2. CASE hed_repo_commit(p)
    <2>1. pend[p] # NoTxn /\ ~bad[p]
        BY <1>2 DEF hed_repo_commit, InTxn, HasTxn
    <2>2. env[p] = path /\ writer = p
        BY <2>1 DEF IInv, NothingLeaks, CommitReachesPath
    <2>3. writer' = NoProc /\ ret'[p] = "ok" /\ call'[p] = "commit"
        BY <1>2, <2>1 DEF hed_repo_commit, EndTxn, Return, IInv, TypeOK
    <2>4. content'[f] = pend[p]
        BY <1>2, <2>2 DEF hed_repo_commit, Put, IInv, TypeOK
    <2> QED
        BY <2>1, <2>2, <2>3, <2>4 DEF Commits
<1> QED
    BY <1>1, <1>2

\* What is committed changes only by a commit that returns 0, to what its
\* transaction made of it (repo.c:100, 225).
THEOREM ContentsByWriters == Spec => OnlyWritersChangeContents
<1>1. IInv /\ [Next]_vars => [PathIsStable => ContentStep]_vars
    BY ContentsChange
<1> QED
    BY <1>1, Invariance, PTL DEF Spec, OnlyWritersChangeContents

-----------------------------------------------------------------------------
\* Wherever the contents the path names change, the counters have moved on, or
\* the step is that of an hed_repo_open with O_TRUNC.
LEMMA CountersMove ==
    ASSUME IInv, Next, PathIsStable
    PROVE  CounterStep
<1> SUFFICES ASSUME NEW f \in Files, f = path,
                    content[f] \notin {Torn, Cut}, content'[f] \notin {Torn, Cut}
             PROVE  TruncatingOpen \/ MovedOn(content[f], content'[f])
    BY DEF CounterStep
<1>1. content[f] \in Db
    BY DEF IInv, TypeOK
<1>2. CASE content'[f] = content[f]
    BY <1>1, <1>2, MovedOnToSelf
<1> SUFFICES ASSUME content'[f] # content[f]
             PROVE  TruncatingOpen \/ MovedOn(content[f], content'[f])
    BY <1>2
<1>3. PICK p \in Procs : Commits(p, f)
    BY ContentsChange DEF ContentStep
<1>4. CASE content'[f] = pend[p] /\ ~(pc[p] = "tables")
    <2>1. pend[p] # NoTxn /\ env[p] # NoFile
        BY <1>3 DEF Commits, IInv, NothingLeaks
    <2>2. env[p] = path
        BY <2>1 DEF IInv, CommitReachesPath
    <2>3. content[f] = snap[p] /\ MovedOn(snap[p], pend[p])
        BY <1>4, <2>1, <2>2 DEF IInv, CounterInv
    <2> QED
        BY <1>4, <2>3
<1>5. CASE /\ pc[p] = "tables" /\ call[p] = "open"
           /\ content'[f] = OpenTables(content[f], tabs[p], mode[p])
    <2>1. CASE Truncates(mode[p])
        BY <1>3, <1>5, <2>1 DEF Commits, TruncatingOpen
    <2>2. CASE ~Truncates(mode[p])
        <3>1. mode[p] \in Modes /\ tabs[p] \in SUBSET Tables
            BY DEF IInv, TypeOK
        <3> QED
            BY <1>1, <1>5, <2>2, <3>1, OpenTablesMovesOn
    <2> QED
        BY <2>1, <2>2
<1>6. CASE content'[f] = pend[p] /\ pc[p] = "tables"
    <2>1. pend[p] = content[f]
        BY <1>3, <1>6 DEF Commits, IInv, CallInv, NothingLeaks, CommitReachesPath, CounterInv
    <2> QED
        BY <1>6, <2>1
<1> QED
    BY <1>3, <1>4, <1>5, <1>6 DEF Commits

\* A committed id is not given again (repo.c:88-97, 225, 407).
THEOREM CountersForward == Spec => CountersGoForward
<1>1. IInv /\ [Next]_vars => [PathIsStable => CounterStep]_vars
    BY CountersMove
<1> QED
    BY <1>1, Invariance, PTL DEF Spec, CountersGoForward

=============================================================================
