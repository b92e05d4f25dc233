--------------------------- MODULE RepoUndoProofs ---------------------------
(***************************************************************************)
(* One process with CONFIG_HED_REPO_3PC implements UndoStore, whatever its *)
(* tables and however many files it leaves behind.                         *)
(***************************************************************************)
EXTENDS RepoUndo, RepoProofs

\* With nobody to disturb it, a process that has begun its backup keeps it, and
\* nobody else writes to it.
Undisturbed ==
    \A p \in Procs :
        /\ pc[p] \in {"copy", "pages", "begin", "tables"} => quiet[p]
        /\ pc[p] = "copy" => content[fd[p]] = Torn

LEMMA UndisturbedStep ==
    ASSUME NEW solo, Procs = {solo}, ThreePC, IInv, Undisturbed, [Next]_vars
    PROVE  Undisturbed'
<1> USE DEF fs, ctl, txn, hnd, ghost, Goto, Return, EndTxn, Disturb, Spoil, Put, Started,
            IInv, TypeOK, Undisturbed
<1>0. CASE UNCHANGED vars
    BY <1>0 DEF vars
<1> DEFINE p == solo
<1> SUFFICES ASSUME Step(p) \/ Fail(p) \/ Call(p) \/ Crash(p)
             PROVE  Undisturbed'
    BY <1>0 DEF Next
<1> HIDE DEF p
<1>1. p \in Procs /\ Procs = {p}
    BY DEF p
<1>2. CASE env_open_existing(p) \/ env_open_absent(p) \/ env_open_torn(p)
    BY <1>1, <1>2 DEF env_open_existing, env_open_absent, env_open_torn, AfterEnv
<1>3. CASE start_backup(p)
    <2>1. PICK f \in Files : /\ fd' = [fd EXCEPT ![p] = f]
                            /\ content' = [content EXCEPT ![f] = Torn]
        BY <1>3 DEF start_backup, Unused
    <2>2. quiet'[p] /\ content'[fd'[p]] = Torn
        BY <1>1, <1>3, <2>1 DEF start_backup
    <2> QED
        BY <1>1, <2>2
<1>4. CASE start_copy(p) \/ start_copied(p) \/ start_begin(p) \/ open_tables(p)
    BY <1>1, <1>4 DEF start_copy, start_copied, start_begin, open_tables
<1>5. CASE open_tables_missing(p) \/ env_open_fails(p) \/ call_fails(p)
    <2>1. Unwind(p)
        BY <1>5 DEF open_tables_missing, env_open_fails, call_fails
    <2> QED
        BY <1>1, <2>1 DEF Unwind
<1>6. CASE open_commit_fails(p) \/ commit_fails(p)
    BY <1>1, <1>6 DEF open_commit_fails, commit_fails
<1>7. CASE hed_repo_start(p) \/ hed_repo_reload(p) \/ hed_repo_rollback(p)
    BY <1>1, <1>7 DEF hed_repo_start, AfterEnv, hed_repo_reload, hed_repo_rollback
<1>8. CASE \E m \in OpenModes, T \in TableLists : hed_repo_open(p, m, T)
    BY <1>1, <1>8 DEF hed_repo_open
<1>9. CASE hed_repo_commit(p) \/ hed_repo_abort(p) \/ write_fails(p) \/ WriteOf(p)
    BY <1>1, <1>9 DEF hed_repo_commit, hed_repo_abort, write_fails, WriteOf, Write,
                      Sees, InTxn, HasTxn
<1>10. CASE hed_repo_close(p) \/ Crash(p)
    BY <1>1, <1>10 DEF hed_repo_close, Crash
<1> QED
    BY <1>1, <1>2, <1>3, <1>4, <1>5, <1>6, <1>7, <1>8, <1>9, <1>10, RowsAreWritten
       DEF Step, Fail, Call

-----------------------------------------------------------------------------
\* The mapping, for the one process there is.
LEMMA Mapped ==
    ASSUME NEW solo, Procs = {solo}, IInv
    PROVE  /\ Only = solo
           /\ env[solo] # NoFile => env[solo] = path
           /\ fd[solo] # NoFile => fd[solo] = bak
           /\ \A e \in Files : Holds(e) \in Db \cup {Cut}
           /\ Cut \notin Db /\ NoTxn \notin Db /\ Cut # NoTxn
<1>1. PathIsStable
    BY DEF PathIsStable
<1>2. \A e \in Files : Holds(e) \in Db \cup {Cut}
    BY RepoAssumption DEF IInv, TypeOK, Holds
<1>3. env[solo] # NoFile => env[solo] = path
    BY <1>1 DEF IInv, CommitReachesPath
<1>4. fd[solo] # NoFile => fd[solo] = bak
    BY <1>1 DEF IInv, CopyInv
<1> QED
    BY <1>2, <1>3, <1>4, RepoAssumption DEF Only

\* Where a call stands, and the handle that the user sees.
LEMMA Standing ==
    ASSUME IInv, NEW p \in Procs
    PROVE  /\ pc[p] # "idle" => Handle(p) = "busy"
           /\ pc[p] = "idle" /\ env[p] # NoFile => Handle(p) = "open"
           /\ pc[p] = "idle" /\ env[p] = NoFile => Handle(p) = "closed"
           /\ pc[p] \notin {"idle", "tables"} => pend[p] = NoTxn
           /\ pend[p] # NoTxn => env[p] # NoFile /\ live[p]
    BY DEF Handle, IInv, CallInv, NothingLeaks

\* A step that leaves the files and the transaction alone.
LEMMA CallsOnly ==
    ASSUME NEW solo, Procs = {solo}, IInv,
           UNCHANGED <<path, bak, content, pend>>,
           \/ UNCHANGED Handle(solo)
           \/ /\ Handle(solo) # "busy" /\ pend[solo] = NoTxn
              /\ Handle(solo)' = "busy"
    PROVE  [Store!Next]_(Store!vars)
<1>1. Only = solo
    BY Mapped
<1>2. UNCHANGED <<Holds(path), Holds(bak), pend[Only]>>
    BY DEF Holds, Only
<1>3. Only' = Only
    BY DEF Only
<1>4. CASE UNCHANGED Handle(solo)
    <2>1. UNCHANGED Handle(Only)
        BY <1>1, <1>3, <1>4
    <2> QED
        BY <1>2, <2>1 DEF Store!vars
<1>5. CASE Handle(solo) # "busy" /\ pend[solo] = NoTxn /\ Handle(solo)' = "busy"
    <2>1. Handle(Only) # "busy" /\ pend[Only] = NoTxn /\ Handle(Only)' = "busy"
        BY <1>1, <1>3, <1>5
    <2>2. Store!Call
        BY <1>2, <2>1 DEF Store!Call
    <2> QED
        BY <2>2 DEF Store!Next
<1> QED
    BY <1>4, <1>5

\* A step that gives up: the transaction ends, the files stay as they are.
LEMMA GivesUp ==
    ASSUME NEW solo, Procs = {solo}, IInv,
           UNCHANGED <<path, bak, content>>, pend'[solo] = NoTxn,
           Handle(solo) # "closed",
           Handle(solo)' \in {"closed", "open"}
    PROVE  [Store!Next]_(Store!vars)
<1>1. Only = solo /\ Only' = Only
    BY Mapped DEF Only
<1>2. UNCHANGED <<Holds(path), Holds(bak)>>
    BY DEF Holds
<1>3. Store!Fail
    BY <1>1, <1>2 DEF Store!Fail
<1> QED
    BY <1>3 DEF Store!Next

-----------------------------------------------------------------------------
(* The steps of the calls that open the repository or start a transaction. *)

LEMMA OpenSteps ==
    ASSUME NEW p, Procs = {p}, ThreePC, IInv, Undisturbed,
           env_open_existing(p) \/ env_open_absent(p) \/ env_open_torn(p) \/ env_open_fails(p)
    PROVE  [Store!Next]_(Store!vars)
<1> USE DEF fs, ctl, txn, hnd, ghost, Goto, Return
<1>1. /\ Only = p /\ Only' = Only
      /\ Handle(p) = "busy" /\ pend[p] = NoTxn /\ pc[p] = "env" /\ env[p] = NoFile
    <2>1. pc[p] = "env"
        BY DEF env_open_existing, env_open_absent, env_open_torn, env_open_fails
    <2> QED
        BY <2>1, Mapped, Standing DEF Only, IInv, CallInv
<1>2. CASE env_open_existing(p)
    <2>1. UNCHANGED <<path, bak, content, pend>>
        BY <1>2 DEF env_open_existing
    <2>2. Handle(p)' = "busy"
        BY <1>2 DEF env_open_existing, AfterEnv, Handle, IInv, TypeOK
    <2> QED
        BY <1>1, <2>1, <2>2, CallsOnly
<1>3. CASE env_open_absent(p) \/ env_open_torn(p)
    <2>1. path' \in Files /\ content' = [content EXCEPT ![path'] = EmptyDb] /\ path' # bak
          /\ bak' = bak /\ pend' = pend
        BY <1>3 DEF env_open_absent, env_open_torn, Unused, IInv, TypeOK, FileInv
    <2>2. Handle(p)' = "busy"
        BY <1>3 DEF env_open_absent, env_open_torn, AfterEnv, Handle, IInv, TypeOK
    <2>3. Holds(path) \in {NoTxn, Cut}
        BY <1>3 DEF env_open_absent, env_open_torn, Holds
    <2>4. Holds(path)' = EmptyDb /\ Holds(bak)' = Holds(bak)
        BY <2>1, EmptyDbType, RepoAssumption DEF Holds, IInv, TypeOK
    <2>5. Store!Create
        BY <1>1, <2>1, <2>2, <2>3, <2>4 DEF Store!Create
    <2> QED
        BY <2>5 DEF Store!Next
<1>4. CASE env_open_fails(p)
    <2>1. path' \in Files /\ content' = [content EXCEPT ![path'] = Torn] /\ path' # bak
          /\ bak' = bak /\ path = NoFile
        BY <1>4 DEF env_open_fails, Unused
    <2>2. pend'[p] = NoTxn
        BY <1>4, <1>1 DEF env_open_fails, Unwind, EndTxn, IInv, TypeOK
    <2>3. Handle(p)' = "closed"
        BY <1>1, <1>4 DEF env_open_fails, Unwind, Handle, IInv, TypeOK
    <2>4. Holds(path) = NoTxn /\ Holds(path)' = Cut /\ Holds(bak)' = Holds(bak)
        BY <2>1, RepoAssumption DEF Holds, IInv, TypeOK
    <2>5. Store!Create
        BY <1>1, <2>1, <2>2, <2>3, <2>4 DEF Store!Create
    <2> QED
        BY <2>5 DEF Store!Next
<1> QED
    BY <1>2, <1>3, <1>4

LEMMA BackupSteps ==
    ASSUME NEW p, Procs = {p}, ThreePC, IInv, Undisturbed,
           start_backup(p) \/ start_copy(p) \/ start_copied(p)
    PROVE  [Store!Next]_(Store!vars)
<1> USE DEF fs, ctl, txn, hnd, ghost, Goto, Return
<1>1. /\ Only = p /\ Only' = Only
      /\ Handle(p) = "busy" /\ pend[p] = NoTxn /\ pend' = pend
      /\ env[p] = path /\ path \in Files /\ path' = path
    <2>1. pc[p] \in {"backup", "copy", "pages"}
        BY DEF start_backup, start_copy, start_copied
    <2>2. env[p] # NoFile /\ path # NoFile
        BY <2>1 DEF IInv, CallInv, FileInv
    <2> QED
        BY <2>1, <2>2, Mapped, Standing
           DEF Only, start_backup, start_copy, start_copied, IInv, TypeOK
<1>2. Handle(p)' = "busy"
    BY DEF start_backup, start_copy, start_copied, Handle, IInv, TypeOK
<1>3. CASE start_backup(p)
    <2>1. /\ bak' \in Files /\ bak' # path /\ content' = [content EXCEPT ![bak'] = Torn]
        BY <1>1, <1>3, RepoAssumption DEF start_backup, Unused, IInv, TypeOK, FileInv
    <2>2. Holds(bak)' = Cut /\ Holds(path)' = Holds(path)
        BY <1>1, <2>1, RepoAssumption DEF Holds, IInv, TypeOK
    <2>3. Store!Forget
        BY <1>1, <1>2, <2>2 DEF Store!Forget
    <2> QED
        BY <2>3 DEF Store!Next
<1>4. CASE start_copy(p) \/ start_copied(p)
    <2>1. fd[p] = bak /\ bak \in Files /\ bak # path /\ bak' = bak
        BY <1>4, Mapped, RepoAssumption
           DEF start_copy, start_copied, IInv, CallInv, FileInv, TypeOK
    <2>2. CASE start_copy(p)
        <3>1. content[bak] = Torn /\ content' = [content EXCEPT ![bak] = Cut]
            BY <2>1, <2>2 DEF start_copy, Undisturbed
        <3>2. UNCHANGED <<Holds(path), Holds(bak)>>
            BY <1>1, <2>1, <3>1, RepoAssumption DEF Holds, IInv, TypeOK
        <3> QED
            BY <1>1, <1>2, <3>2 DEF Store!vars
    <2>3. CASE start_copied(p)
        <3>1. content[bak] = Cut /\ copied[p] = content[env[p]]
            BY <2>3 DEF start_copied, Undisturbed, IInv, BackupInv
        <3>2. CopyDone(p) = content[path]
            BY <1>1, <2>1, <3>1, RepoAssumption DEF CopyDone
        <3>3. content' = [content EXCEPT ![bak] = content[path]]
            BY <2>1, <2>3, <3>2 DEF start_copied
        <3>4. Holds(bak) = Cut /\ Holds(path)' = Holds(path) /\ Holds(bak)' = Holds(path)
            BY <1>1, <2>1, <3>1, <3>3, RepoAssumption DEF Holds, IInv, TypeOK
        <3>5. Holds(path) # NoTxn
            BY <1>1, Mapped
        <3>6. Store!Save
            BY <1>1, <1>2, <3>4, <3>5 DEF Store!Save
        <3> QED
            BY <3>6 DEF Store!Next
    <2> QED
        BY <1>4, <2>2, <2>3
<1> QED
    BY <1>3, <1>4

LEMMA BeginSteps ==
    ASSUME NEW p, Procs = {p}, ThreePC, IInv, Undisturbed,
           start_begin(p) \/ open_tables(p)
    PROVE  [Store!Next]_(Store!vars)
<1> USE DEF fs, ctl, txn, hnd, ghost, Goto, Return
<1>1. /\ Only = p /\ Only' = Only /\ Handle(p) = "busy"
      /\ env[p] = path /\ path \in Files /\ path # NoFile
      /\ path' = path /\ bak' = bak
      /\ content[path] \in Db \cup {Cut}
    <2>1. pc[p] \in {"begin", "tables"}
        BY DEF start_begin, open_tables
    <2>2. env[p] # NoFile
        BY <2>1 DEF IInv, CallInv, NothingLeaks
    <2> QED
        BY <2>1, <2>2, Mapped, Standing, MappedIsDb
           DEF Only, start_begin, open_tables, IInv, FileInv
<1>2. Holds(path) = content[path]
    BY <1>1, RepoAssumption DEF Holds
<1>3. CASE start_begin(p)
    <2>1. bak # NoFile /\ content[bak] = content[path] /\ pend[p] = NoTxn
        BY <1>1, <1>3 DEF start_begin, Undisturbed, IInv, BackupInv, CallInv
    <2>2. Holds(bak) = Holds(path)
        BY <1>1, <1>2, <2>1 DEF Holds
    <2>3. pend'[p] = Holds(path) /\ content' = content
        BY <1>1, <1>2, <1>3 DEF start_begin, IInv, TypeOK
    <2>4. UNCHANGED <<Holds(path), Holds(bak)>>
        BY <1>1, <2>3 DEF Holds
    <2>5. Handle(p)' \in {"open", "busy"}
        BY <1>1, <1>3, RepoAssumption DEF start_begin, Started, Handle, IInv, TypeOK
    <2>6. Holds(path) # NoTxn
        BY <1>1, Mapped
    <2>7. Store!Begin
        BY <1>1, <2>1, <2>2, <2>3, <2>4, <2>5, <2>6 DEF Store!Begin
    <2> QED
        BY <2>7 DEF Store!Next
<1>4. CASE open_tables(p)
    <2>1. pend[p] # NoTxn /\ pend[p] = content[path]
        <3>1. PathIsStable
            BY DEF PathIsStable
        <3> QED
            BY <1>1, <1>4, <3>1 DEF open_tables, IInv, CallInv, CounterInv
    <2>2. content' = [content EXCEPT ![path] = IF @ = Cut THEN Cut ELSE WithTables(p)]
        BY <1>1, <1>4 DEF open_tables, Put
    <2>3. IF pend[p] = Cut THEN content'[path] = Cut ELSE content'[path] \in Db
        <3>1. WithTables(p) \in Db \cup {Cut} /\ (pend[p] # Cut => WithTables(p) \in Db)
            BY <1>1, <1>4, <2>1, OpenedIsDb, OpenTablesType, RepoAssumption
               DEF open_tables, WithTables, OpenMode, AccMode, Modes, IInv, TypeOK
        <3> QED
            BY <1>1, <2>1, <2>2, <3>1 DEF IInv, TypeOK
    <2>4. bak # path
        BY <1>1 DEF IInv, FileInv
    <2>5. Holds(path)' = content'[path] /\ Holds(bak)' = Holds(bak)
        BY <1>1, <2>2, <2>3, <2>4, RepoAssumption DEF Holds, IInv, TypeOK
    <2>6. pend'[p] = NoTxn /\ Handle(p)' = "open"
        BY <1>1, <1>4, RepoAssumption DEF open_tables, EndTxn, Handle, IInv, TypeOK
    <2>7. Store!Format
        BY <1>1, <2>1, <2>3, <2>5, <2>6 DEF Store!Format
    <2> QED
        BY <2>7 DEF Store!Next
<1> QED
    BY <1>3, <1>4

-----------------------------------------------------------------------------
(* The other calls.                                                        *)

LEMMA TxnSteps ==
    ASSUME NEW p, Procs = {p}, IInv, WriteOf(p) \/ hed_repo_commit(p)
    PROVE  [Store!Next]_(Store!vars)
<1> USE DEF fs, ctl, txn, hnd, ghost, Goto, Return
<1>1. /\ Only = p /\ Only' = Only /\ pend[p] # NoTxn /\ Handle(p) = "open"
      /\ pc[p] = "idle" /\ env[p] # NoFile
    <2>1. pc[p] = "idle" /\ pend[p] # NoTxn
        BY DEF WriteOf, hed_repo_commit, Sees, InTxn, HasTxn
    <2> QED
        BY <2>1, Mapped, Standing DEF Only
<1>2. env[p] = path /\ path \in Files /\ bak # path /\ path' = path /\ bak' = bak
    BY <1>1, Mapped DEF WriteOf, Write, hed_repo_commit, IInv, TypeOK, FileInv
<1>3. Handle(p)' = "open"
    BY <1>1 DEF WriteOf, Write, hed_repo_commit, Handle, IInv, TypeOK
<1>4. CASE WriteOf(p)
    <2>1. pend[p] \in Db /\ pend'[p] \in Db /\ content' = content
        BY <1>1, <1>4 DEF WriteOf, Write, Sees, IInv, TypeOK
    <2>2. UNCHANGED <<Holds(path), Holds(bak)>>
        BY <1>2, <2>1 DEF Holds
    <2>3. Store!Edit
        BY <1>1, <1>3, <2>1, <2>2 DEF Store!Edit
    <2> QED
        BY <2>3 DEF Store!Next
<1>5. CASE hed_repo_commit(p)
    <2>1. content[path] \in Db \cup {Cut} /\ (content[path] = Cut <=> pend[p] = Cut)
        <3>1. PathIsStable
            BY DEF PathIsStable
        <3> QED
            BY <1>1, <1>2, <3>1, MappedIsDb DEF IInv, CounterInv
    <2>2. content' = [content EXCEPT ![path] = IF @ = Cut THEN Cut ELSE pend[p]]
        BY <1>2, <1>5 DEF hed_repo_commit, Put
    <2>3. content'[path] = pend[p] /\ pend[p] \in Db \cup {Cut}
        BY <1>1, <1>2, <2>1, <2>2 DEF IInv, TypeOK
    <2>4. Holds(path)' = pend[p] /\ Holds(bak)' = Holds(bak)
        BY <1>2, <2>2, <2>3, RepoAssumption DEF Holds, IInv, TypeOK
    <2>5. pend'[p] = NoTxn
        BY <1>5 DEF hed_repo_commit, EndTxn, IInv, TypeOK
    <2>6. Store!Commit
        BY <1>1, <1>3, <2>4, <2>5 DEF Store!Commit
    <2> QED
        BY <2>6 DEF Store!Next
<1> QED
    BY <1>4, <1>5

LEMMA RollbackStep ==
    ASSUME NEW p, Procs = {p}, IInv, hed_repo_rollback(p)
    PROVE  [Store!Next]_(Store!vars)
<1> USE DEF fs, ctl, txn, hnd, ghost, Goto, Return
<1>1. /\ Only = p /\ Only' = Only /\ pend[p] = NoTxn /\ pend' = pend
      /\ content' = content /\ Handle(p) = "open"
    BY Mapped, Standing DEF Only, hed_repo_rollback, Ready
<1>2. Handle(p)' = "busy"
    BY DEF hed_repo_rollback, Handle, IInv, TypeOK
<1>3. CASE UNCHANGED <<path, bak>>
    BY <1>1, <1>2, <1>3, CallsOnly
<1>4. CASE Renamed
    <2>1. bak \in Files /\ path' = bak /\ bak' = NoFile
        BY <1>4 DEF Renamed, IInv, TypeOK
    <2>2. Holds(path)' = Holds(bak) /\ Holds(bak)' = NoTxn
        BY <1>1, <2>1, RepoAssumption DEF Holds
    <2>3. Holds(bak) # NoTxn
        BY <2>1, Mapped
    <2>4. Store!Restore
        BY <1>1, <1>2, <2>2, <2>3 DEF Store!Restore
    <2> QED
        BY <2>4 DEF Store!Next
<1> QED
    BY <1>3, <1>4 DEF hed_repo_rollback

LEMMA CloseStep ==
    ASSUME NEW p, Procs = {p}, IInv, hed_repo_close(p)
    PROVE  [Store!Next]_(Store!vars)
<1> USE DEF fs, ctl, txn, hnd, ghost
<1>1. Only = p /\ Only' = Only /\ Handle(p) = "open"
    BY Mapped, Standing DEF Only, hed_repo_close
<1>2. /\ path' = path /\ content' = content /\ bak' \in {bak, NoFile}
      /\ pend'[p] = NoTxn
    BY <1>1 DEF hed_repo_close, EndTxn, IInv, TypeOK
<1>3. Handle(p)' = "closed"
    BY DEF hed_repo_close, Handle, IInv, TypeOK
<1>4. Holds(path)' = Holds(path) /\ Holds(bak)' \in {Holds(bak), NoTxn}
    BY <1>2 DEF Holds
<1>5. Store!Close
    BY <1>1, <1>2, <1>3, <1>4 DEF Store!Close
<1> QED
    BY <1>5 DEF Store!Next

\* The calls that fail, and the process that dies.
LEMMA FailSteps ==
    ASSUME NEW p, Procs = {p}, IInv,
           \/ open_tables_missing(p) \/ call_fails(p) \/ open_commit_fails(p)
           \/ commit_fails(p) \/ hed_repo_abort(p) \/ Crash(p)
    PROVE  [Store!Next]_(Store!vars)
<1> USE DEF fs, ctl, txn, hnd, ghost, Goto, Return
<1>1. UNCHANGED <<path, bak, content>>
    BY DEF open_tables_missing, call_fails, open_commit_fails, commit_fails,
           hed_repo_abort, Crash
<1>2. pend'[p] = NoTxn
    BY DEF open_tables_missing, call_fails, Unwind, open_commit_fails, commit_fails,
           hed_repo_abort, Crash, EndTxn, IInv, TypeOK
<1>3. pc'[p] = "idle"
    BY DEF open_tables_missing, call_fails, Unwind, open_commit_fails, commit_fails,
           hed_repo_abort, HasTxn, Crash, IInv, TypeOK
<1>4. Handle(p)' \in {"closed", "open"}
    BY <1>3 DEF Handle
<1>5. CASE Handle(p) # "closed"
    BY <1>1, <1>2, <1>4, <1>5, GivesUp
<1>6. CASE Handle(p) = "closed"
    <2>1. pc[p] = "idle" /\ env[p] = NoFile /\ pend[p] = NoTxn
        BY <1>6, Standing
    <2>2. Crash(p)
        BY <2>1 DEF open_tables_missing, call_fails, open_commit_fails, commit_fails,
                    hed_repo_abort, HasTxn
    <2>3. pend' = pend
        BY <2>1, <2>2 DEF Crash, EndTxn, IInv, TypeOK
    <2>4. Handle(p)' = Handle(p)
        BY <1>3, <1>6, <2>2 DEF Crash, Handle, IInv, TypeOK
    <2> QED
        BY <1>1, <2>3, <2>4, CallsOnly
<1> QED
    BY <1>5, <1>6

\* The calls that only begin, and a write that fails.
LEMMA CallSteps ==
    ASSUME NEW p, Procs = {p}, IInv,
           \/ \E m \in OpenModes, T \in TableLists : hed_repo_open(p, m, T)
           \/ hed_repo_start(p) \/ hed_repo_reload(p) \/ write_fails(p)
    PROVE  [Store!Next]_(Store!vars)
<1> USE DEF fs, ctl, txn, hnd, ghost, Goto
<1>1. UNCHANGED <<path, bak, content>>
    BY DEF hed_repo_open, hed_repo_start, hed_repo_reload, write_fails
<1>2. CASE \E m \in OpenModes, T \in TableLists : hed_repo_open(p, m, T)
    <2>1. pc[p] = "idle" /\ pend[p] = NoTxn
        BY <1>2, Standing DEF hed_repo_open
    <2>2. pend' = pend
        BY <1>2, <2>1 DEF hed_repo_open, IInv, TypeOK
    <2>3. Handle(p) # "busy" /\ Handle(p)' = "busy"
        BY <1>2, <2>1 DEF hed_repo_open, Handle, IInv, TypeOK
    <2> QED
        BY <1>1, <2>1, <2>2, <2>3, CallsOnly
<1>3. CASE hed_repo_start(p) \/ hed_repo_reload(p)
    <2>1. pc[p] = "idle" /\ pend[p] = NoTxn /\ pend' = pend
        BY <1>3 DEF hed_repo_start, hed_repo_reload, Ready
    <2>2. Handle(p) # "busy" /\ Handle(p)' = "busy"
        BY <1>3, <2>1 DEF hed_repo_start, hed_repo_reload, AfterEnv, Handle, IInv, TypeOK
    <2> QED
        BY <1>1, <2>1, <2>2, CallsOnly
<1>4. CASE write_fails(p)
    <2>1. pend' = pend /\ Handle(p)' = Handle(p)
        BY <1>4 DEF write_fails, Handle
    <2> QED
        BY <1>1, <2>1, CallsOnly
<1> QED
    BY <1>2, <1>3, <1>4

LEMMA StoreStep ==
    ASSUME NEW solo, Procs = {solo}, ThreePC, IInv, Undisturbed, [Next]_vars
    PROVE  [Store!Next]_(Store!vars)
<1>1. CASE UNCHANGED vars
    <2>1. UNCHANGED <<path, bak, content, pend>> /\ UNCHANGED Handle(solo)
        BY <1>1 DEF vars, fs, ctl, txn, hnd, Handle
    <2> QED
        BY <2>1, CallsOnly
<1>2. CASE Next
    <2>1. solo \in Procs
        OBVIOUS
    <2>2. Step(solo) \/ Fail(solo) \/ Call(solo) \/ Crash(solo)
        BY <1>2 DEF Next
    <2>3. \/ env_open_existing(solo) \/ env_open_absent(solo) \/ env_open_torn(solo)
          \/ env_open_fails(solo)
          \/ start_backup(solo) \/ start_copy(solo) \/ start_copied(solo)
          \/ start_begin(solo) \/ open_tables(solo)
          \/ WriteOf(solo) \/ hed_repo_commit(solo)
          \/ hed_repo_rollback(solo) \/ hed_repo_close(solo)
          \/ open_tables_missing(solo) \/ call_fails(solo) \/ open_commit_fails(solo)
          \/ commit_fails(solo) \/ hed_repo_abort(solo) \/ Crash(solo)
          \/ \E m \in OpenModes, T \in TableLists : hed_repo_open(solo, m, T)
          \/ hed_repo_start(solo) \/ hed_repo_reload(solo) \/ write_fails(solo)
        BY <2>1, <2>2, RowsAreWritten DEF Step, Fail, Call
    <2> QED
        BY <2>3, OpenSteps, BackupSteps, BeginSteps, TxnSteps, RollbackStep, CloseStep,
           FailSteps, CallSteps
<1> QED
    BY <1>1, <1>2

-----------------------------------------------------------------------------
\* With CONFIG_HED_REPO_3PC, one process's repository is an undo store: a
\* transaction begins only once what it starts from is saved, a rollback puts
\* back exactly what was saved, and nothing but a close, a rollback or the next
\* start takes it away, whatever fails or crashes (repo.c:187-214, 241-253).
THEOREM UndoImplemented ==
    ASSUME NEW solo, Procs = {solo}, ThreePC
    PROVE  Spec => ImplementsUndoStore
<1>1. Init => Store!Init /\ Undisturbed
    <2> SUFFICES ASSUME Init PROVE Store!Init /\ Undisturbed
        OBVIOUS
    <2>1. Only = solo
        BY Mapped, InitIInv
    <2> QED
        BY <2>1 DEF Init, Store!Init, Holds, Handle, Undisturbed
<1>2. IInv /\ Undisturbed /\ [Next]_vars => Undisturbed'
    BY UndisturbedStep
<1>3. IInv /\ Undisturbed /\ [Next]_vars => [Store!Next]_(Store!vars)
    BY StoreStep
<1> QED
    BY <1>1, <1>2, <1>3, Invariance, PTL DEF Spec, ImplementsUndoStore, Store!Spec

=============================================================================
