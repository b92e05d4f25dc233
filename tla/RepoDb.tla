------------------------------- MODULE RepoDb -------------------------------
(***************************************************************************)
(* The contents of one hed repository file, and what each operation of     *)
(* lib/repo.c does to them inside a transaction.  An LMDB environment      *)
(* holds named tables: ".hed", which the library keeps for itself (one     *)
(* sequence number per listed table, and a version), and the tables the    *)
(* application lists.  A row is abstracted to its key: which keys are      *)
(* present is all the properties tell apart.                               *)
(***************************************************************************)
EXTENDS Naturals

CONSTANTS
    Tables,     \* names an application may list in hed_repo_open
    Versions,   \* values hed_repo_set_version may store
    SeqMod,     \* number of values of a sequence counter: 2^32 in the code
    NoSeq,      \* ".hed" has no sequence entry for the table
    NoVersion   \* ".hed" has no version entry

ASSUME RepoDbAssumption ==
    /\ SeqMod \in Nat
    /\ SeqMod > 1
    /\ NoSeq \notin Nat

\* A sequence counter, and the keys made from one: 0 is the value by which
\* hed_repo_next_seq reports failure, so it is no key.
Seqs == 0 .. SeqMod - 1
Keys == 1 .. SeqMod - 1

(***************************************************************************)
(* hed and made tell which tables exist; wrapped is a history field: the   *)
(* tables whose counter passed SeqMod - 1 since it was last reset.  It is  *)
(* part of the contents so that an abort or a rollback takes it back too.  *)
(***************************************************************************)
Db == [hed     : BOOLEAN,
       made    : SUBSET Tables,
       seq     : [Tables -> Seqs \cup {NoSeq}],
       row     : [Tables -> SUBSET Keys],
       ver     : Versions \cup {NoVersion},
       wrapped : SUBSET Tables]

\* What mdb_env_open makes of a file that was absent or has no byte.
EmptyDb == [hed     |-> FALSE,
            made    |-> {},
            seq     |-> [t \in Tables |-> NoSeq],
            row     |-> [t \in Tables |-> {}],
            ver     |-> NoVersion,
            wrapped |-> {}]

-----------------------------------------------------------------------------
\* The flags hed_repo_open accepts: O_CREAT only with O_RDWR, O_TRUNC only
\* with O_CREAT.  "creat" is O_RDWR|O_CREAT, "trunc" is that with O_TRUNC.
Modes == {"rdonly", "rdwr", "creat", "trunc"}

Creates(m)   == m \in {"creat", "trunc"}
Truncates(m) == m = "trunc"

\* flags & O_ACCMODE: what the handle keeps, and later reopens with.
AccMode(m) == IF m = "rdonly" THEN "rdonly" ELSE "rdwr"

\* repo_open_table on ".hed" and each table of the list T: without MDB_CREATE
\* a missing table is MDB_NOTFOUND.
CanOpenTables(db, T, m) == Creates(m) \/ (db.hed /\ T \subseteq db.made)

CreateTables(db, T) == [db EXCEPT !.hed = TRUE, !.made = @ \cup T]

\* Faulty: the rows of the listed tables are kept.
TruncateKeepsRows(db, T) ==
    [CreateTables(db, T) EXCEPT
        !.seq = [t \in Tables |-> IF t \in T THEN 0 ELSE NoSeq],
        !.ver = NoVersion,
        !.wrapped = {}]

\* Faulty: a table outside the list gets sequence 0, with its rows kept.
TruncateResetsAll(db, T) ==
    [CreateTables(db, T) EXCEPT
        !.seq = [t \in Tables |-> 0],
        !.row = [t \in Tables |-> IF t \in T THEN {} ELSE db.row[t]],
        !.ver = NoVersion,
        !.wrapped = {}]

\* O_TRUNC empties ".hed" whole (the sequences of tables outside the list go
\* with it) and the listed tables, then gives each listed table sequence 0.
TruncateTables(db, T) ==
    [CreateTables(db, T) EXCEPT
        !.seq     = [t \in Tables |-> IF t \in T THEN 0 ELSE NoSeq],
        !.row     = [t \in Tables |-> IF t \in T THEN {} ELSE db.row[t]],
        !.ver     = NoVersion,
        !.wrapped = {}]

\* Faulty: the sequences are reset for O_CREAT, too.
OpenTablesReset(db, T, m) == IF Creates(m) THEN TruncateTables(db, T) ELSE db

\* The tables repo_open leaves in its transaction.
OpenTables(db, T, m) ==
    IF Truncates(m) THEN TruncateTables(db, T)
    ELSE IF Creates(m) THEN CreateTables(db, T)
    ELSE db

-----------------------------------------------------------------------------
\* Faulty: a counter that does not wrap where the stored width ends.
NextIdTooWide(db, t) == db.seq[t] + 1

\* hed_repo_next_seq: *old + 1 in a uint32_t, stored back in ".hed".
NextId(db, t) == (db.seq[t] + 1) % SeqMod

NextSeq(db, t) ==
    [db EXCEPT !.seq[t]  = NextId(db, t),
               !.wrapped = IF NextId(db, t) = 0 THEN @ \cup {t} ELSE @]

\* mdb_put, mdb_del and the ".version" entry.
PutRow(db, t, k)  == [db EXCEPT !.row[t] = @ \cup {k}]
DelRow(db, t, k)  == [db EXCEPT !.row[t] = @ \ {k}]
SetVersion(db, v) == [db EXCEPT !.ver = v]

\* An application that keys its rows with hed_repo_next_seq stores a row only
\* under an id it was given; without a sequence it uses keys of its own.
Issued(db, t, k) == db.seq[t] # NoSeq /\ t \notin db.wrapped => k <= db.seq[t]

\* The next id of a table that has a counter is not the key of a row there.
NextIdUnusedIn(db) ==
    \A t \in Tables :
        db.seq[t] # NoSeq /\ t \notin db.wrapped => NextId(db, t) \notin db.row[t]

\* A counter that has not wrapped is no less than any key of its table.
SeqBoundsRows(db) ==
    \A t \in Tables :
        db.seq[t] # NoSeq /\ t \notin db.wrapped =>
            \A k \in db.row[t] : k <= db.seq[t]

\* No counter appeared, went or went back, save that of a table that wrapped.
MovedOn(old, new) ==
    /\ old.wrapped \subseteq new.wrapped
    /\ \A t \in Tables :
           /\ old.seq[t] = NoSeq <=> new.seq[t] = NoSeq
           /\ old.seq[t] # NoSeq /\ t \notin new.wrapped => old.seq[t] <= new.seq[t]

=============================================================================
