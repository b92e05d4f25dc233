-------------------------------- MODULE Repo --------------------------------
(***************************************************************************)
(* The transactional repository of lib/repo.c: processes that each hold    *)
(* one struct hed_repo on the same path.  A directory has two entries, the *)
(* repository and its backup; an entry names a file, and a file stays      *)
(* readable through a handle that opened it after its name is gone.        *)
(*                                                                         *)
(* A call that touches the directory takes several steps (pc), so that     *)
(* other processes run, and this one may die, between them.  What a        *)
(* transaction does is private until its commit, which LMDB makes atomic.  *)
(*                                                                         *)
(* O_RDONLY is 0, so "flags & O_RDONLY" is 0 and MDB_RDONLY is never asked *)
(* for: every environment is writable and every transaction a write one.   *)
(***************************************************************************)
EXTENDS RepoDb

CONSTANTS
    Procs,      \* processes that use the repository
    Files,      \* files the two directory entries may name
    TableLists, \* lists of tables given to hed_repo_open
    OpenModes,  \* flags given to hed_repo_open
    ThreePC,    \* CONFIG_HED_REPO_3PC
    NoFile,     \* no file: an absent entry, a NULL env
    NoTxn,      \* a NULL txn
    NoProc,     \* nobody
    Torn,       \* a file without LMDB's two meta pages: empty, or cut in them
    Cut         \* one with the meta pages that lacks others, or has wrong ones

ASSUME RepoAssumption ==
    /\ ThreePC \in BOOLEAN
    /\ TableLists \subseteq SUBSET Tables
    /\ OpenModes \subseteq Modes
    /\ NoFile \notin Files
    /\ NoProc \notin Procs
    /\ NoTxn \notin Db
    /\ Torn \notin Db \cup {NoTxn}
    /\ Cut \notin Db \cup {NoTxn, Torn}

VARIABLES
    path,     \* the repository's directory entry
    bak,      \* the backup's directory entry
    content,  \* contents of each file
    pc,       \* where a process stands in the call it makes
    call,     \* the last call on the handle
    ret,      \* what the last one that returns something returned
    fd,       \* the backup hed_repo_start has open
    copied,   \* what that file holds once mdb_env_copyfd is done
    env,      \* repo->env: the file LMDB maps
    pend,     \* repo->txn: the contents the open transaction sees
    writer,   \* the holder of the mutex in LMDB's lock file
    bad,      \* LMDB flagged the transaction after a failed write
    mode,     \* flags given to hed_repo_open
    tabs,     \* repo->table
    live,     \* repo->path and repo->backup are allocated
    snap,     \* history: what the last transaction started from
    quiet     \* history: no other process touched the files since the backup

fs    == <<path, bak, content>>
ctl   == <<pc, call, ret, fd, copied>>
txn   == <<pend, writer, bad>>
hnd   == <<env, mode, tabs, live>>
ghost == <<snap, quiet>>
vars  == <<fs, ctl, txn, hnd, ghost>>

TypeOK ==
    /\ path \in Files \cup {NoFile}
    /\ bak \in Files \cup {NoFile}
    /\ content \in [Files -> Db \cup {Torn, Cut}]
    /\ pc \in [Procs -> {"idle", "env", "backup", "copy", "pages", "begin", "tables"}]
    /\ call \in [Procs -> {"none", "open", "reload", "rollback", "start",
                           "commit", "abort", "close"}]
    /\ ret \in [Procs -> {"ok", "error", "commit"}]
    /\ fd \in [Procs -> Files \cup {NoFile}]
    /\ copied \in [Procs -> Db \cup {NoTxn, Cut}]
    /\ env \in [Procs -> Files \cup {NoFile}]
    /\ pend \in [Procs -> Db \cup {NoTxn, Cut}]
    /\ writer \in Procs \cup {NoProc}
    /\ bad \in [Procs -> BOOLEAN]
    /\ mode \in [Procs -> Modes]
    /\ tabs \in [Procs -> SUBSET Tables]
    /\ live \in [Procs -> BOOLEAN]
    /\ snap \in [Procs -> Db \cup {NoTxn, Cut}]
    /\ quiet \in [Procs -> BOOLEAN]

Init ==
    /\ path = NoFile
    /\ bak = NoFile
    /\ content = [f \in Files |-> Torn]
    /\ pc = [p \in Procs |-> "idle"]
    /\ call = [p \in Procs |-> "none"]
    /\ ret = [p \in Procs |-> "ok"]
    /\ fd = [p \in Procs |-> NoFile]
    /\ copied = [p \in Procs |-> NoTxn]
    /\ env = [p \in Procs |-> NoFile]
    /\ pend = [p \in Procs |-> NoTxn]
    /\ writer = NoProc
    /\ bad = [p \in Procs |-> FALSE]
    /\ mode = [p \in Procs |-> "rdonly"]
    /\ tabs = [p \in Procs |-> {}]
    /\ live = [p \in Procs |-> FALSE]
    /\ snap = [p \in Procs |-> NoTxn]
    /\ quiet = [p \in Procs |-> FALSE]

-----------------------------------------------------------------------------
\* Files no entry and no process refers to.
Unused == {f \in Files : f \notin {path, bak} /\ \A p \in Procs : f \notin {env[p], fd[p]}}

\* The flags repo_open works with: those of hed_repo_open, or what it kept.
OpenMode(p) == IF call[p] = "open" THEN mode[p] ELSE AccMode(mode[p])

\* Where a call goes once the environment is open: hed_repo_start.
AfterEnv == IF ThreePC THEN "backup" ELSE "begin"

Goto(p, where) == pc' = [pc EXCEPT ![p] = where]

Return(p, result) ==
    /\ Goto(p, "idle")
    /\ ret' = [ret EXCEPT ![p] = result]

\* A handle between two calls, with an environment and no transaction: what
\* hed_repo_start, hed_repo_reload and hed_repo_rollback assert.
Ready(p) == pc[p] = "idle" /\ live[p] /\ env[p] # NoFile /\ pend[p] = NoTxn

\* repo->txn is not NULL; LMDB still accepts operations on it; and what it
\* shows of the tables can be told.
HasTxn(p) == pc[p] = "idle" /\ live[p] /\ pend[p] # NoTxn
InTxn(p)  == HasTxn(p) /\ ~bad[p]
Sees(p)   == InTxn(p) /\ pend[p] # Cut

\* A transaction that was open ends, whichever way, and releases the mutex.
EndTxn(p) ==
    /\ pend' = [pend EXCEPT ![p] = NoTxn]
    /\ writer' = IF pend[p] # NoTxn THEN NoProc ELSE writer
    /\ bad' = [bad EXCEPT ![p] = FALSE]

\* What p does to the files disturbs the backup the others rely on.
Disturb(p) == quiet' = [q \in Procs |-> q = p /\ quiet[p]]

\* p opens, truncates or writes the file f: if others copy into it, their pages
\* and what p makes of the file are mixed from then on.  Mine is p's own copy.
Spoil(p, f, mine) ==
    copied' = [q \in Procs |-> IF q = p THEN mine
                               ELSE IF fd[q] = f THEN Cut ELSE copied[q]]

\* Contents that p commits to the file it maps, which stays damaged if it is.
Put(p, db) == content' = [content EXCEPT ![env[p]] = IF @ = Cut THEN Cut ELSE db]

-----------------------------------------------------------------------------
(***************************************************************************)
(* hed_repo_open, and the steps of repo_open, which hed_repo_reload and    *)
(* hed_repo_rollback run too.                                              *)
(***************************************************************************)

\* hed_repo_open on a struct that holds no repository.
hed_repo_open(p, m, T) ==
    /\ pc[p] = "idle"
    /\ ~live[p] \/ env[p] = NoFile
    /\ env' = [env EXCEPT ![p] = NoFile]
    /\ pend' = [pend EXCEPT ![p] = NoTxn]
    /\ mode' = [mode EXCEPT ![p] = m]
    /\ tabs' = [tabs EXCEPT ![p] = T]
    /\ live' = [live EXCEPT ![p] = TRUE]
    /\ call' = [call EXCEPT ![p] = "open"]
    /\ Goto(p, "env")
    /\ snap' = [snap EXCEPT ![p] = NoTxn]
    /\ UNCHANGED <<fs, ret, fd, copied, writer, bad, quiet>>

\* mdb_env_open on the file the path names.  It reads the two meta pages and no
\* other: a file that was cut behind them opens like any other.
env_open_existing(p) ==
    /\ pc[p] = "env"
    /\ path # NoFile
    /\ content[path] # Torn
    /\ env' = [env EXCEPT ![p] = path]
    /\ Spoil(p, path, NoTxn)
    /\ Goto(p, AfterEnv)
    /\ UNCHANGED <<fs, call, ret, fd, txn, mode, tabs, live, ghost>>

\* mdb_env_open where the path names nothing: not being given MDB_RDONLY, it
\* creates the file, whatever the flags of hed_repo_open.
env_open_absent(p) ==
    /\ pc[p] = "env"
    /\ path = NoFile
    /\ \E f \in Unused :
           /\ path' = f
           /\ content' = [content EXCEPT ![f] = EmptyDb]
           /\ env' = [env EXCEPT ![p] = f]
    /\ Goto(p, AfterEnv)
    /\ Disturb(p)
    /\ UNCHANGED <<bak, call, ret, fd, copied, txn, mode, tabs, live, snap>>

\* mdb_env_open on a file of no length, a new environment to it.  One cut in
\* its meta pages is MDB_INVALID, which is call_fails below.
env_open_torn(p) ==
    /\ pc[p] = "env"
    /\ path # NoFile
    /\ content[path] = Torn
    /\ content' = [content EXCEPT ![path] = EmptyDb]
    /\ env' = [env EXCEPT ![p] = path]
    /\ Spoil(p, path, NoTxn)
    /\ Goto(p, AfterEnv)
    /\ Disturb(p)
    /\ UNCHANGED <<path, bak, call, ret, fd, txn, mode, tabs, live, snap>>

\* What the tables are opened in: the contents p sees in its transaction.  Of
\* damaged ones any table may be there.
FindsTables(p) == pend[p] # Cut => CanOpenTables(pend[p], tabs[p], OpenMode(p))

WithTables(p) == IF pend[p] = Cut THEN Cut ELSE OpenTables(pend[p], tabs[p], OpenMode(p))

\* Open, make and truncate the tables in the transaction that hed_repo_start
\* began, and commit.
open_tables(p) ==
    /\ pc[p] = "tables"
    /\ FindsTables(p)
    /\ Put(p, WithTables(p))
    /\ EndTxn(p)
    /\ Return(p, "ok")
    /\ Disturb(p)
    /\ UNCHANGED <<path, bak, call, fd, copied, hnd, snap>>

\* The same with mdb_txn_commit failing: repo_open returns its error without
\* going through repo_close, and hed_repo_open frees the two names.
open_commit_fails(p) ==
    /\ pc[p] = "tables"
    /\ FindsTables(p)
    /\ EndTxn(p)
    /\ live' = [live EXCEPT ![p] = call[p] # "open"]
    /\ Return(p, "commit")
    /\ UNCHANGED <<fs, call, fd, copied, env, mode, tabs, ghost>>

\* Faulty: the environment is closed under the transaction.
UnwindKeepsTxn(p) ==
    /\ UNCHANGED txn
    /\ env' = [env EXCEPT ![p] = IF call[p] = "start" THEN @ ELSE NoFile]
    /\ live' = [live EXCEPT ![p] = call[p] # "open"]
    /\ fd' = [fd EXCEPT ![p] = NoFile]
    /\ copied' = [copied EXCEPT ![p] = NoTxn]
    /\ Return(p, "error")
    /\ UNCHANGED <<call, mode, tabs, ghost>>

\* The call ends with an error.  hed_repo_start returns with the handle as it
\* was; repo_open aborts its transaction, if it has come that far, and closes
\* what it opened, and hed_repo_open then frees the names, which
\* hed_repo_reload and hed_repo_rollback do not.
Unwind(p) ==
    /\ EndTxn(p)
    /\ env' = [env EXCEPT ![p] = IF call[p] = "start" THEN @ ELSE NoFile]
    /\ live' = [live EXCEPT ![p] = call[p] # "open"]
    /\ fd' = [fd EXCEPT ![p] = NoFile]
    /\ copied' = [copied EXCEPT ![p] = NoTxn]
    /\ Return(p, "error")
    /\ UNCHANGED <<call, mode, tabs, ghost>>

\* mdb_dbi_open answers MDB_NOTFOUND.
open_tables_missing(p) ==
    /\ pc[p] = "tables"
    /\ ~FindsTables(p)
    /\ Unwind(p)
    /\ UNCHANGED fs

\* mdb_env_open fails once it has created the file.
env_open_fails(p) ==
    /\ pc[p] = "env"
    /\ path = NoFile
    /\ path' \in Unused
    /\ content' = [content EXCEPT ![path'] = Torn]
    /\ Unwind(p)
    /\ UNCHANGED bak

\* Whatever library or system call the next step makes fails, in the middle of
\* a copy, too: what was written of the backup by then stays.
call_fails(p) ==
    /\ pc[p] # "idle"
    /\ Unwind(p)
    /\ UNCHANGED fs

-----------------------------------------------------------------------------
(***************************************************************************)
(* hed_repo_start: with CONFIG_HED_REPO_3PC the backup is truncated and    *)
(* the environment copied into it before the transaction takes the mutex.  *)
(***************************************************************************)
hed_repo_start(p) ==
    /\ Ready(p)
    /\ call' = [call EXCEPT ![p] = "start"]
    /\ Goto(p, AfterEnv)
    /\ UNCHANGED <<fs, ret, fd, copied, txn, hnd, ghost>>

\* ufile_new with O_TRUNC: the file the entry names, or a new one.
start_backup(p) ==
    /\ pc[p] = "backup"
    /\ \E f \in IF bak = NoFile THEN Unused ELSE {bak} :
           /\ bak' = f
           /\ content' = [content EXCEPT ![f] = Torn]
           /\ fd' = [fd EXCEPT ![p] = f]
           /\ Spoil(p, f, NoTxn)
    /\ Goto(p, "copy")
    /\ snap' = [snap EXCEPT ![p] = NoTxn]
    /\ quiet' = [q \in Procs |-> q = p]
    /\ UNCHANGED <<path, call, ret, txn, hnd>>

\* mdb_env_copyfd takes the contents that are committed, waiting for the mutex,
\* and writes the meta pages, which promise them, before the other pages.
start_copy(p) ==
    /\ pc[p] = "copy"
    /\ writer = NoProc
    /\ content' = [content EXCEPT ![fd[p]] = Cut]
    /\ Spoil(p, fd[p], IF copied[p] = Cut THEN Cut ELSE content[env[p]])
    /\ Goto(p, "pages")
    /\ Disturb(p)
    /\ UNCHANGED <<path, bak, call, ret, fd, txn, hnd, snap>>

\* What the file holds in the end: no contents if it was truncated meanwhile,
\* and damaged ones if the map that is read or the copy itself was.
CopyDone(p) ==
    IF content[fd[p]] = Torn THEN Torn
    ELSE IF content[env[p]] = Cut THEN Cut
    ELSE copied[p]

\* Faulty: what mdb_env_copyfd returns is not looked at, and it failed.
start_copied_unchecked(p) ==
    /\ pc[p] = "pages"
    /\ fd' = [fd EXCEPT ![p] = NoFile]
    /\ copied' = [copied EXCEPT ![p] = NoTxn]
    /\ Goto(p, "begin")
    /\ UNCHANGED <<fs, call, ret, txn, hnd, ghost>>

\* It writes the other pages, and the fd is closed.
start_copied(p) ==
    /\ pc[p] = "pages"
    /\ content' = [content EXCEPT ![fd[p]] = CopyDone(p)]
    /\ fd' = [fd EXCEPT ![p] = NoFile]
    /\ Spoil(p, fd[p], NoTxn)
    /\ Goto(p, "begin")
    /\ Disturb(p)
    /\ UNCHANGED <<path, bak, call, ret, txn, hnd, snap>>

\* Back to the application, or on in repo_open.
Started(p) ==
    \/ call[p] = "start" /\ Return(p, "ok")
    \/ call[p] # "start" /\ Goto(p, "tables") /\ UNCHANGED ret

\* Faulty: two write transactions at a time.
start_begin_unlocked(p) ==
    /\ pc[p] = "begin"
    /\ writer' = p
    /\ pend' = [pend EXCEPT ![p] = content[env[p]]]
    /\ snap' = [snap EXCEPT ![p] = content[env[p]]]
    /\ Started(p)
    /\ UNCHANGED <<fs, call, fd, copied, bad, hnd, quiet>>

\* mdb_txn_begin waits for the mutex.
start_begin(p) ==
    /\ pc[p] = "begin"
    /\ writer = NoProc
    /\ writer' = p
    /\ pend' = [pend EXCEPT ![p] = content[env[p]]]
    /\ snap' = [snap EXCEPT ![p] = content[env[p]]]
    /\ Started(p)
    /\ UNCHANGED <<fs, call, fd, copied, bad, hnd, quiet>>

-----------------------------------------------------------------------------
\* Operations inside a transaction.  mdb_dbi_open, without MDB_CREATE, finds
\* only the tables that exist.  On damaged contents an operation does what
\* nobody can tell, fails, or kills the process: they stay Cut.
Write(p, db) ==
    /\ pend' = [pend EXCEPT ![p] = db]
    /\ UNCHANGED <<fs, ctl, writer, bad, hnd, ghost>>

hed_repo_update(p, t, k) ==
    /\ Sees(p)
    /\ t \in pend[p].made
    /\ Issued(pend[p], t, k)
    /\ Write(p, PutRow(pend[p], t, k))

hed_repo_del(p, t, k) ==
    /\ Sees(p)
    /\ t \in pend[p].made
    /\ k \in pend[p].row[t]
    /\ Write(p, DelRow(pend[p], t, k))

\* Without a sequence entry the call changes nothing and returns 0.
hed_repo_next_seq(p, t) ==
    /\ Sees(p)
    /\ pend[p].hed
    /\ pend[p].seq[t] # NoSeq
    /\ Write(p, NextSeq(pend[p], t))

hed_repo_set_version(p, v) ==
    /\ Sees(p)
    /\ pend[p].hed
    /\ Write(p, SetVersion(pend[p], v))

\* mdb_put or mdb_del runs out of pages (MDB_MAP_FULL): LMDB flags the
\* transaction, refuses every later operation and will not commit it.
write_fails(p) ==
    /\ InTxn(p)
    /\ bad' = [bad EXCEPT ![p] = TRUE]
    /\ UNCHANGED <<fs, ctl, pend, writer, hnd, ghost>>

-----------------------------------------------------------------------------
hed_repo_commit(p) ==
    /\ InTxn(p)
    /\ Put(p, pend[p])
    /\ EndTxn(p)
    /\ call' = [call EXCEPT ![p] = "commit"]
    /\ Return(p, "ok")
    /\ Disturb(p)
    /\ UNCHANGED <<path, bak, fd, copied, hnd, snap>>

\* Faulty: the pages of a commit that fails reach the file.
commit_fails_written(p) ==
    /\ HasTxn(p)
    /\ Put(p, pend[p])
    /\ EndTxn(p)
    /\ call' = [call EXCEPT ![p] = "commit"]
    /\ Return(p, "error")
    /\ UNCHANGED <<path, bak, fd, copied, hnd, ghost>>

\* mdb_txn_commit fails, always so after a failed write: nothing is written.
commit_fails(p) ==
    /\ HasTxn(p)
    /\ EndTxn(p)
    /\ call' = [call EXCEPT ![p] = "commit"]
    /\ Return(p, "error")
    /\ UNCHANGED <<fs, fd, copied, hnd, ghost>>

hed_repo_abort(p) ==
    /\ HasTxn(p)
    /\ EndTxn(p)
    /\ call' = [call EXCEPT ![p] = "abort"]
    /\ UNCHANGED <<fs, pc, ret, fd, copied, hnd, ghost>>

-----------------------------------------------------------------------------
hed_repo_reload(p) ==
    /\ Ready(p)
    /\ env' = [env EXCEPT ![p] = NoFile]
    /\ call' = [call EXCEPT ![p] = "reload"]
    /\ Goto(p, "env")
    /\ UNCHANGED <<fs, ret, fd, copied, txn, mode, tabs, live, ghost>>

\* What rename does with the two entries: it moves the backup over the path, or
\* fails, as it does where there is no backup.
Renamed == bak # NoFile /\ path' = bak /\ bak' = NoFile

\* Faulty: the environment stays open on the file the rename unlinks.
hed_repo_rollback_open(p) ==
    /\ ThreePC
    /\ Ready(p)
    /\ \/ Renamed /\ snap' = [snap EXCEPT ![p] = NoTxn]
       \/ UNCHANGED <<path, bak, snap>>
    /\ call' = [call EXCEPT ![p] = "rollback"]
    /\ Goto(p, AfterEnv)
    /\ Disturb(p)
    /\ UNCHANGED <<content, ret, fd, copied, txn, hnd>>

\* That the rename failed is not looked at: repo_open then opens what is there,
\* and its hed_repo_start overwrites the backup.
hed_repo_rollback(p) ==
    /\ ThreePC
    /\ Ready(p)
    /\ env' = [env EXCEPT ![p] = NoFile]
    /\ \/ Renamed /\ snap' = [snap EXCEPT ![p] = NoTxn]
       \/ UNCHANGED <<path, bak, snap>>
    /\ call' = [call EXCEPT ![p] = "rollback"]
    /\ Goto(p, "env")
    /\ Disturb(p)
    /\ UNCHANGED <<content, ret, fd, copied, txn, mode, tabs, live>>

\* Faulty: closing commits what is pending.
hed_repo_close_commits(p) ==
    /\ pc[p] = "idle"
    /\ live[p]
    /\ env[p] # NoFile
    /\ content' = IF pend[p] # NoTxn THEN [content EXCEPT ![env[p]] = pend[p]] ELSE content
    /\ EndTxn(p)
    /\ env' = [env EXCEPT ![p] = NoFile]
    /\ live' = [live EXCEPT ![p] = FALSE]
    /\ call' = [call EXCEPT ![p] = "close"]
    /\ snap' = [snap EXCEPT ![p] = NoTxn]
    /\ Disturb(p)
    /\ UNCHANGED <<path, bak, pc, ret, fd, copied, mode, tabs>>

\* Faulty: closing forgets the open transaction.
hed_repo_close_leaks(p) ==
    /\ pc[p] = "idle"
    /\ live[p]
    /\ env[p] # NoFile
    /\ env' = [env EXCEPT ![p] = NoFile]
    /\ live' = [live EXCEPT ![p] = FALSE]
    /\ UNCHANGED <<fs, txn, ghost, ctl, mode, tabs>>

\* repo_close aborts an open transaction, and the backup is removed, if remove
\* does not fail.  With the environment gone already (a failed reload or
\* rollback) hed_repo_close does nothing at all.
hed_repo_close(p) ==
    /\ pc[p] = "idle"
    /\ live[p]
    /\ env[p] # NoFile
    /\ EndTxn(p)
    /\ env' = [env EXCEPT ![p] = NoFile]
    /\ live' = [live EXCEPT ![p] = FALSE]
    /\ bak' \in IF AccMode(mode[p]) = "rdwr" THEN {bak, NoFile} ELSE {bak}
    /\ call' = [call EXCEPT ![p] = "close"]
    /\ snap' = [snap EXCEPT ![p] = NoTxn]
    /\ Disturb(p)
    /\ UNCHANGED <<path, content, pc, ret, fd, copied, mode, tabs>>

-----------------------------------------------------------------------------
\* The process dies: its mapping, its transaction and the mutex go (LMDB's is
\* robust), the files stay as they are.
Crash(p) ==
    /\ live[p]
    /\ pc' = [pc EXCEPT ![p] = "idle"]
    /\ call' = [call EXCEPT ![p] = "none"]
    /\ ret' = [ret EXCEPT ![p] = "ok"]
    /\ fd' = [fd EXCEPT ![p] = NoFile]
    /\ copied' = [copied EXCEPT ![p] = NoTxn]
    /\ env' = [env EXCEPT ![p] = NoFile]
    /\ EndTxn(p)
    /\ live' = [live EXCEPT ![p] = FALSE]
    /\ snap' = [snap EXCEPT ![p] = NoTxn]
    /\ UNCHANGED <<fs, mode, tabs, quiet>>

\* A step the library takes by itself once a call is under way.
Step(p) ==
    \/ env_open_existing(p) \/ env_open_absent(p) \/ env_open_torn(p)
    \/ start_backup(p) \/ start_copy(p) \/ start_copied(p) \/ start_begin(p)
    \/ open_tables(p) \/ open_tables_missing(p)

\* A library or system call that fails.
Fail(p) ==
    \/ env_open_fails(p) \/ open_commit_fails(p) \/ call_fails(p)
    \/ commit_fails(p) \/ write_fails(p)

\* A call of the application.
Call(p) ==
    \/ \E m \in OpenModes, T \in TableLists : hed_repo_open(p, m, T)
    \/ hed_repo_start(p) \/ hed_repo_commit(p) \/ hed_repo_abort(p)
    \/ \E t \in tabs[p] : hed_repo_next_seq(p, t)
    \/ \E t \in tabs[p], k \in Keys : hed_repo_update(p, t, k)
    \/ \E t \in tabs[p], k \in Keys : hed_repo_del(p, t, k)
    \/ \E v \in Versions : hed_repo_set_version(p, v)
    \/ hed_repo_reload(p) \/ hed_repo_rollback(p) \/ hed_repo_close(p)

Next == \E p \in Procs : Step(p) \/ Fail(p) \/ Call(p) \/ Crash(p)

Spec == Init /\ [][Next]_vars

\* A process that is inside a call keeps running; nothing makes it fail.
FairSpec == Spec /\ \A p \in Procs : WF_vars(Step(p))

-----------------------------------------------------------------------------
(***************************************************************************)
(* Properties.                                                             *)
(***************************************************************************)

\* The repository has one writer, or a configuration of one process: nobody
\* moves the files under a handle (only hed_repo_rollback does).
PathIsStable == ~ThreePC \/ \E p \in Procs : Procs = {p}

\* hed_repo_rollback (repo.c:250) renames the backup over the repository.
\* From the moment a transaction has started until the handle is closed, rolled
\* back or starts again, the backup holds exactly what that transaction
\* started from, whether it is still open, was committed or was aborted, and
\* whether or not a rollback was tried that could not rename it: as long as no
\* other process took a backup, committed or rolled back meanwhile.
BackupIsBase ==
    \A p \in Procs :
        ThreePC /\ quiet[p] /\ snap[p] # NoTxn =>
            bak # NoFile /\ content[bak] = snap[p]

\* No lost update: while a transaction is open the file it will be committed
\* to holds what it started from (hed_repo_start, repo.c:213).
TxnBaseCurrent ==
    \A p \in Procs :
        pend[p] # NoTxn /\ (ThreePC => quiet[p]) => content[env[p]] = snap[p]

\* Nothing is left behind by the paths that give up (repo.c:76-103, 153-158,
\* 206-211), not even where repo_open fails with its transaction open: who
\* holds the mutex has a transaction, with the environment it belongs to, and
\* is inside repo_open or has a handle to end it with; the backup is open only
\* while it is copied, and an environment always belongs to a handle that can
\* be closed, save after repo.c:100.
NothingLeaks ==
    \A p \in Procs :
        /\ writer = p <=> pend[p] # NoTxn
        /\ writer = p => pc[p] \in {"idle", "tables"} /\ live[p] /\ env[p] # NoFile
        /\ fd[p] # NoFile => pc[p] \in {"copy", "pages"}
        /\ env[p] # NoFile => live[p] \/ ret[p] = "commit"

\* The id hed_repo_next_seq is about to give (repo.c:407) is not the key of a
\* row of the table, in any whole file and in any open transaction, whatever
\* was aborted, rolled back, truncated or lost in a crash before.
NextIdUnused ==
    /\ \A f \in Files : content[f] \notin {Torn, Cut} => NextIdUnusedIn(content[f])
    /\ \A p \in Procs : pend[p] \notin {NoTxn, Cut} => NextIdUnusedIn(pend[p])

\* A transaction that commits changes the file the path names, so that the
\* next process to open the path sees it; not one a rollback has unlinked.
CommitReachesPath ==
    PathIsStable => \A p \in Procs : env[p] # NoFile => env[p] = path

\* The step ends p's transaction with success: that of the application, and the
\* file holds what it made of the contents; or that of hed_repo_open with
\* O_CREAT, and the file holds the tables asked for.
Commits(p, f) ==
    /\ writer = p
    /\ writer' = NoProc
    /\ ret'[p] = "ok"
    /\ \/ call'[p] = "commit" /\ ~bad[p] /\ content'[f] = pend[p]
       \/ /\ pc[p] = "tables"
          /\ call[p] = "open"
          /\ Creates(mode[p])
          /\ content'[f] = OpenTables(content[f], tabs[p], mode[p])

ContentStep ==
    \A f \in Files :
        f = path /\ content[f] \notin {Torn, Cut} /\ content'[f] # content[f] =>
            \E p \in Procs : Commits(p, f)

\* The committed contents change only by the commit of the process that holds
\* the mutex, to just what its transaction made of them, or by hed_repo_open
\* with O_CREAT (repo.c:100, 225): never by an abort, a failed commit, a close
\* or a crash, by a reload or a read-only open, or by a call that fails.
OnlyWritersChangeContents == [][PathIsStable => ContentStep]_vars

\* The step of an hed_repo_open with O_TRUNC that sets up its tables: it holds
\* the mutex, so that no other process takes a step of this kind.
TruncatingOpen ==
    \E p \in Procs :
        /\ writer = p
        /\ writer' = NoProc
        /\ pc[p] = "tables"
        /\ call[p] = "open"
        /\ Truncates(mode[p])

CounterStep ==
    \A f \in Files :
        f = path /\ content[f] \notin {Torn, Cut} /\ content'[f] \notin {Torn, Cut} =>
            TruncatingOpen \/ MovedOn(content[f], content'[f])

\* An id that was committed is not given again: the counter of a table, which
\* only O_TRUNC gives it (repo.c:88-97), goes back when it wraps or at the next
\* O_TRUNC, and at nothing else: no other open, no abort, and no commit of a
\* transaction that began before the counter moved.  A table that was made with
\* O_CREAT alone has no counter, whatever is done to it.
CountersGoForward == [][PathIsStable => CounterStep]_vars

\* A call returns, unless other processes keep holding the mutex: a process
\* never waits for a mutex that it holds itself, or that a dead one held.
CallsReturn ==
    \A p \in Procs :
        []<>(pc[p] = "idle") \/ []<>(\E q \in Procs \ {p} : writer = q)

\* The flags of hed_repo_open ask for the file to be created only together
\* with O_RDWR (repo.c:118), and repo.c:55 and 194 mean O_RDONLY to reach LMDB
\* as MDB_RDONLY: a read-only open creates no file.
ReadOnlyCreatesNothing ==
    [][ path = NoFile /\ path' # NoFile =>
          \E p \in Procs : pc[p] = "env" /\ mode[p] # "rdonly" ]_vars

-----------------------------------------------------------------------------
(***************************************************************************)
(* What the invariants rest on.                                            *)
(***************************************************************************)

\* Where a call stands tells what the handle holds.
CallInv ==
    \A p \in Procs :
        /\ pc[p] # "idle" => live[p]
        /\ pc[p] \notin {"idle", "tables"} => pend[p] = NoTxn
        /\ pc[p] = "tables" => pend[p] # NoTxn /\ call[p] # "start"
        /\ pc[p] = "env" => env[p] = NoFile
        /\ pc[p] \in {"backup", "copy", "pages", "begin"} => env[p] # NoFile
        /\ pc[p] \in {"backup", "copy", "pages"} => ThreePC
        /\ pc[p] \in {"copy", "pages"} => fd[p] # NoFile /\ snap[p] = NoTxn
        /\ pc[p] = "pages" => copied[p] # NoTxn
        /\ pc[p] \notin {"copy", "pages"} => copied[p] = NoTxn

\* The backup is no file that a process maps, or opens by the path, and what a
\* process maps has its meta pages, though it may lack others.
FileInv ==
    /\ bak # NoFile => ThreePC /\ bak # path
    /\ \A p \in Procs :
           env[p] # NoFile =>
               env[p] # bak /\ path # NoFile /\ content[env[p]] # Torn

\* Undisturbed, a process copies into the backup, and has copied into it what
\* its transaction will start from.
BackupInv ==
    \A p \in Procs :
        quiet[p] =>
            /\ pc[p] \in {"copy", "pages"} => bak = fd[p]
            /\ pc[p] = "copy" => copied[p] = NoTxn
            /\ pc[p] = "pages" => content[bak] = Cut /\ copied[p] = content[env[p]]
            /\ ThreePC /\ pc[p] = "begin" => bak # NoFile /\ content[bak] = content[env[p]]

\* Where nobody else moves the files, a copy goes to the backup entry.
CopyInv == PathIsStable => \A p \in Procs : fd[p] # NoFile => fd[p] = bak

\* A counter that has not wrapped is ahead of its rows.
SeqInv ==
    /\ \A f \in Files : content[f] \notin {Torn, Cut} => SeqBoundsRows(content[f])
    /\ \A p \in Procs : pend[p] \notin {NoTxn, Cut} => SeqBoundsRows(pend[p])
    /\ \A p \in Procs : copied[p] \notin {NoTxn, Cut} => SeqBoundsRows(copied[p])

\* An open transaction has moved its counters on from what it started from, and
\* a process that has the path to itself still finds that in the file it will
\* commit to: CONFIG_HED_REPO_3PC's quiet is not needed for it.
CounterInv ==
    \A p \in Procs :
        pend[p] # NoTxn =>
            /\ snap[p] # NoTxn
            /\ pend[p] = Cut <=> snap[p] = Cut
            /\ pend[p] # Cut => MovedOn(snap[p], pend[p])
            /\ pc[p] = "tables" => pend[p] = snap[p]
            /\ PathIsStable => content[env[p]] = snap[p]

\* The conjunction is inductive.
IInv ==
    /\ TypeOK
    /\ CallInv
    /\ FileInv
    /\ BackupInv
    /\ CopyInv
    /\ BackupIsBase
    /\ TxnBaseCurrent
    /\ NothingLeaks
    /\ SeqInv
    /\ CommitReachesPath
    /\ CounterInv

=============================================================================
