------------------------------ MODULE RepoUndo ------------------------------
(***************************************************************************)
(* One process with CONFIG_HED_REPO_3PC implements UndoStore: the path is  *)
(* the store, the backup its undo copy, repo->txn its transaction.  A file *)
(* that was cut short is spoilt, whether or not LMDB opens it.             *)
(***************************************************************************)
EXTENDS Repo

Holds(entry) ==
    IF entry = NoFile THEN NoTxn ELSE IF content[entry] = Torn THEN Cut ELSE content[entry]

Handle(p) ==
    IF pc[p] # "idle" THEN "busy" ELSE IF env[p] = NoFile THEN "closed" ELSE "open"

Only == CHOOSE p \in Procs : TRUE

Store == INSTANCE UndoStore WITH
             Contents <- Db,
             Empty    <- EmptyDb,
             None     <- NoTxn,
             Spoilt   <- Cut,
             db       <- Holds(path),
             undo     <- Holds(bak),
             work     <- pend[Only],
             handle   <- Handle(Only)

\* hed_repo_start saves before it begins, hed_repo_rollback puts back what was
\* saved, and between two calls what was saved stays: a crash at any step and
\* a call that fails at any step change neither the repository nor the backup
\* in any other way (repo.c:76-103, 187-214, 241-253).
ImplementsUndoStore == Store!Spec

=============================================================================
