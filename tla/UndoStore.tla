----------------------------- MODULE UndoStore -----------------------------
(***************************************************************************)
(* What a repository with CONFIG_HED_REPO_3PC promises to its one user: a  *)
(* store whose contents a transaction replaces at once or not at all, and  *)
(* that can be taken back to where its last transaction started from, be   *)
(* that transaction committed or not.                                      *)
(*                                                                         *)
(* The undo copy is there for one use, and from one call to the next: no   *)
(* commit, abort, crash or failed call takes it away.  Three things do:    *)
(* closing the store, taking it back, and a call that starts a transaction,*)
(* which spoils the old copy before it has a new one.  A user who takes    *)
(* the store back after such a call failed puts the spoilt copy in its     *)
(* place, and who is not taken back, because the copy could not be moved,  *)
(* is not told and finds the copy replaced.                                *)
(***************************************************************************)
CONSTANTS
    Contents,   \* what the store may hold
    Empty,      \* what a new store holds, a member of Contents
    None,       \* no store, no undo copy, no transaction: not in Contents
    Spoilt      \* contents that nobody can tell: not in Contents

VARIABLES
    db,     \* the committed contents
    undo,   \* the undo copy
    work,   \* the contents as the open transaction sees them
    handle  \* the user's handle: "closed", "open", or "busy" inside a call

vars == <<db, undo, work, handle>>

TypeOK ==
    /\ db \in Contents \cup {None, Spoilt}
    /\ undo \in Contents \cup {None, Spoilt}
    /\ work \in Contents \cup {None, Spoilt}
    /\ handle \in {"closed", "open", "busy"}

Init == db = None /\ undo = None /\ work = None /\ handle = "closed"

\* A call to open the store or to start a transaction; also one to take the
\* store back whose undo copy cannot be moved.
Call ==
    /\ handle # "busy"
    /\ work = None
    /\ handle' = "busy"
    /\ UNCHANGED <<db, undo, work>>

\* A call fails, or the user crashes, whatever was done by then.
Fail ==
    /\ handle # "closed"
    /\ handle' \in {"closed", "open"}
    /\ work' = None
    /\ UNCHANGED <<db, undo>>

\* A store is made where there was none, or none that anybody could read.
Create ==
    /\ handle = "busy"
    /\ work = None
    /\ db \in {None, Spoilt}
    /\ \/ db' = Empty /\ UNCHANGED handle
       \/ db' = Spoilt /\ handle' = "closed"
    /\ UNCHANGED <<undo, work>>

\* Give up the old undo copy, and make one of the committed contents.
Forget ==
    /\ handle = "busy"
    /\ work = None
    /\ undo' = Spoilt
    /\ UNCHANGED <<db, work, handle>>

Save ==
    /\ handle = "busy"
    /\ work = None
    /\ db # None
    /\ undo = Spoilt
    /\ undo' = db
    /\ UNCHANGED <<db, work, handle>>

\* A transaction starts only from contents that have an undo copy: the user's,
\* or the one in which opening the store sets up its tables.
Begin ==
    /\ handle = "busy"
    /\ work = None
    /\ db # None
    /\ undo = db
    /\ work' = db
    /\ handle' \in {"open", "busy"}
    /\ UNCHANGED <<db, undo>>

Edit ==
    /\ handle = "open"
    /\ work \in Contents
    /\ work' \in Contents
    /\ UNCHANGED <<db, undo, handle>>

Commit ==
    /\ handle = "open"
    /\ work # None
    /\ db' = work
    /\ work' = None
    /\ UNCHANGED <<undo, handle>>

Format ==
    /\ handle = "busy"
    /\ work # None
    /\ IF work = Spoilt THEN db' = Spoilt ELSE db' \in Contents
    /\ work' = None
    /\ handle' = "open"
    /\ UNCHANGED undo

\* Take the store back to its undo copy; the call goes on as one that opens it.
Restore ==
    /\ handle = "open"
    /\ work = None
    /\ undo # None
    /\ db' = undo
    /\ undo' = None
    /\ handle' = "busy"
    /\ UNCHANGED work

Close ==
    /\ handle = "open"
    /\ work' = None
    /\ undo' \in {undo, None}
    /\ handle' = "closed"
    /\ UNCHANGED db

Next ==
    \/ Call \/ Fail \/ Create \/ Forget \/ Save \/ Begin \/ Edit \/ Commit
    \/ Format \/ Restore \/ Close

Spec == Init /\ [][Next]_vars

=============================================================================
