# Verification of hed

hed is a C library for embedded configuration daemons.  This directory holds
TLA+ models of it, the TLC runs that check them on small instances, and proofs
checked by TLAPS.  All references `file:line` are to the repository.

## The system

| component | code | state | operations |
|---|---|---|---|
| repository | `lib/repo.c`, `include/hed/repo.h` | an LMDB file, its backup (`CONFIG_HED_REPO_3PC`), one handle and one write transaction per process | open, close, reload, start, commit, abort, rollback; get, update, del, count, next_seq, set_version; iterators |
| connection server | `lib/server.c`, `include/hed/server.h` | a poll set, an accepting socket, a bounded pool of connections, a signal channel, timers | init, conn_init, process, run, halt, fini |
| RPC table | `lib/rpc.c`, `include/hed/rpc.h` | none between calls | create, destroy a table of methods from a list of permissions |
| base value types | `lib/base-impl.c`, generated `lib/base.c`, `lib/base-json.c`, `include/hed/base.h` | none | check, encode, decode, to and from JSON |
| network value types | `lib/inet-impl.c`, generated `lib/inet.c`, `lib/inet-json.c`, `include/hed/inet.h` | none | the same for addresses, prefixes, networks |

The daemon built on hed runs the server's loop; a method called through the
RPC table decodes its arguments with the value types, and reads or changes the
repository inside a transaction.  In the library itself two components meet:
`server.c` gives the daemon's factory to galv (`server.c:136`, 186), which has
`rpc.c` make a table of methods for each connection it accepts and free it with
the connection.  The repository and the value types are put to use by the
daemon's own methods, which are not part of hed.

### What is hard, and what makes each part correct

* Repository.  Several processes share one file, one mutex and one backup
  name.  Every call is a sequence of library and system calls each of which can
  fail, and between any two of which the process can die or another one run.
  It is correct when transactions are serial, a failed call leaves no mutex,
  transaction or descriptor behind, a rollback finds what the last transaction
  started from, and a sequence never gives an id that a row has.
* Server.  Timers and descriptors share one wait; signals end the loop; the
  shutdown waits for connections.  It is correct when the pool's bound holds,
  every exit path releases each resource once, ready descriptors are served,
  and a shutdown ends.
* RPC table, value types.  Sequential: correct when they compute what their
  YAML descriptions and names say, at the ends of the ranges too.

## Modules

| module | what it is |
|---|---|
| `RepoDb` | contents of a repository file as a record, and what each operation of `repo.c` does to them inside a transaction |
| `Repo` | the processes, their handles, the two directory entries: one action per call, and per step of a call that others can come between |
| `UndoStore` | the abstract specification: a store with transactions and one undo copy, and what takes that copy away |
| `RepoUndo` | the refinement mapping from `Repo` with one process to `UndoStore` |
| `RepoMC` | instances for TLC, a view and a symmetry |
| `RepoIter` | the iterators over one table, while the transaction that owns them writes |
| `Service` | the abstract specification of a server: a bounded set of sessions, admitted, answered and drained |
| `Server` | `server.c`: init and its unwinding, the loop, the signal channel, halt, fini, and the clients, signals and timers around them; and the mapping to `Service` |
| `RpcTable` | `rpc.c`: the table of methods of each connection, entry by entry |
| `Daemon` | `Server` and `RpcTable` together: a connection is accepted only once it has its table, and loses it when it is closed |
| `DaemonMC` | instances for TLC |
| `Values` | the value types of both `base` and `inet`: checks, encoders, decoders, JSON conversions, and a value on its way through them |
| `RepoProofs`, `RepoUndoProofs`, `RepoIterProofs`, `RpcTableProofs`, `ServerProofs`, `ServiceProofs`, `DaemonProofs`, `ValuesProofs` | theorems and their proofs |

A definition whose comment begins with "Faulty" is a plausible error in the
one that follows it; nothing uses it but the check that the properties notice.

### Repo, and how it corresponds to the code

`path` and `bak` are the two directory entries, each naming a file or nothing;
`content` gives the committed contents of every file.  `Torn` is a file without
LMDB's two meta pages, just truncated or cut in them; `Cut` has them and lacks
other pages.  mdb_env_copyfd writes the meta pages first and mdb_env_open reads
no others: `Torn` is refused (or, when empty, made an environment), `Cut` opens
like any other file, and the transactions on it see `Cut`, which nobody can tell
anything of.  `env`, `pend`, `mode`, `tabs`, `live` are the fields of
`struct hed_repo` (`repo.h:18-27`) of each process; `pend` is the contents that
the open transaction sees, `NoTxn` for a NULL `txn`.  `writer` is the holder of
the mutex in LMDB's lock file, `bad` the error flag LMDB keeps in a transaction.
`fd` is the backup that is being copied to, `copied` what it will hold when the
copy is done.  `pc` says where a process stands in a call:

    hed_repo_open, _reload, _rollback
        -> env -> backup -> copy -> pages -> begin -> tables -> idle
    hed_repo_start
               -> backup -> copy -> pages -> begin -> idle

("backup", "copy" and "pages" only with `CONFIG_HED_REPO_3PC`.)  "copy" is
before the meta pages are written, "pages" before the others.  At "tables"
repo_open has its own transaction and the mutex: `open_tables` commits it,
`open_commit_fails` fails in that, `open_tables_missing` and `call_fails` go by
repo_close, which aborts it (`Unwind`).  `call_fails` fails the step that is
next, whatever it is, in the middle of a copy too; `Crash` may take a process at
any point, and so leaves a cut backup as a failed copy does.  `hed_repo_rollback`
renames or fails to, with a backup or without, and goes on alike.  A row is its
key, for no property looks at values; hed_repo_get and hed_repo_count change
nothing and have no action.  `snap` and `quiet` are history variables: what
the last transaction started from, and whether another process has touched the
files since this one's backup began.

`UndoStore` promises that contents are replaced at once or not at all, and that
the undo copy is there from one call to the next.  Three things take it away: a
close, its use, and a call that starts a transaction, which spoils the old copy
before it has a new one.  After such a call failed, taking the store back puts
the spoilt copy in its place (`Restore`); when the copy cannot be moved, the user
is not told, and the call that opens the store goes on to replace it (`Call`,
`Forget`, `Save`).  The code does both (Findings), so the specification says so;
the refinement shows that there is no other way.

LMDB, rename(2) and the disk are modelled from how `repo.c` uses them: one
writer at a time, commits atomic and durable, a mutex that is freed when its
holder dies.  A process that goes on using a file which a rollback of another
has unlinked shares LMDB's lock file with users of the new one; what LMDB does
to the contents then is not modelled.  Two copies into one file, and a copy into a
file that somebody opens or commits to meanwhile, make it `Cut` (`Spoil`,
`CopyDone`).  What operations do in a transaction on `Cut` contents is undefined;
they are left out, and a commit or an abort ends it.

### RepoIter

The store is one table's keys; `cursor` is where LMDB's cursor stands, which
is on the row that the *next* hed_repo_step returns (`repo.c:476-498`).
`state` is what the last call told the caller: EAGAIN to go on, "end" for 0,
EINVAL.  After a deletion the cursor stands on the row that follows, or
nowhere; a failed write makes LMDB refuse the transaction (`bad`), which
hed_repo_step reports as the same EINVAL.  `out`, `stayed`, `seen` are history.
That a caller destroys its iterators before the transaction ends is assumed:
LMDB frees their cursors with it.

### Server

`pc` says where the process stands: "off", the step of an init function that
is next ("adopt", "poll", "accept", "mode", "sig"), "ready", in the loop
("wait", "dispatch"), "stopped", in hed_srv_halt ("halt_wait",
"halt_dispatch"), "halted".  `open` and `misclosed` are the resources held, and
those closed without being held; `Unwound` is the cascade of labels.  `batch`
is what the last wait reported and is not dispatched yet: peers, signals and
timers go on while it is worked off, one descriptor per step.  `result` is what
hed_srv_run or hed_srv_halt returned.  From galv the model takes that a full
pool takes the accepting socket out of the poll set, that a connection whose
peer has left or that fails is closed (`dispatch_close`), that one for which no
table is made is closed at once (`dispatch_refuse`), and that an error of any
worker ends upoll_dispatch; how galv frames messages is left out.

The last step of both init functions blocks the signals, and nothing in
`server.c` unblocks them: from then on they stay pending (`blocked`, `sigs`),
also when no server is there, and the next one of the process reads them.

`Service` knows a phase instead of a place in the code, the set of sessions,
which of them wait for an answer, and whether the process was told to end.
`Phase` maps the places: the steps of an init function are "down", a loop that
has ended is "idle", hed_srv_halt is "draining" and after it "drained".  One
batch of descriptors is then as many steps of the service, and what the loop
does with timers, interruptions and SIGUSR1 is none.

### RpcTable

hed_rpc_create allocates `Nr` entries, writes those of the factory's list one
by one (`create_entry`), and hands the block to galv or, when the list is
empty, frees it.  A write at an id that the block does not have sets `stray`.
The gid of an entry is not read by `rpc.c` and not modelled.  `Destroy` frees
the tables of a set of connections, for an interrupted halt closes all at once.

### Daemon

The worker of the accepting socket calls hed_rpc_create.  While it does
(`Busy`) the process takes no other step, and clients, signals and time go on.
`accept_permitted` and `accept_denied` are the end of the call together with
what galv then does to the connection; `close` joins every action of `Server`
that takes a connection out of the pool with the `Destroy` of its table.  Where
galv calls the two functions is external: it is taken from the interface that
`rpc.h` gives it.  The factory is that of the process and does not change.

### Values

A value of some type is a C object (`form` "value"), a stream, a stream that an
encoder gave up on ("torn") or JSON, and goes from one to the other by `enc`,
`dec`, `dec_to_json` and `enc_from_json`, which may refuse it.  An object may be
any of its C type, for `hed_init_*` leaves memory as it was and a release build
has no assertions; a member may be assigned through a setter or the pointer of
an accessor at any time (`set_num`, `set_addr`), and nothing checks it then.
`born` remembers whether the object was one its check accepts.

An encoder fails at any item and leaves what it has written: so does one that
reads JSON and comes to a member it refuses (`enc_fails`,
`enc_from_json_refuses`).  JSON is the set of what json-c and the parsers of
text make of it: one value, or none when a member is missing, of another type
or not understood.  The names that `hed_*_dump_str` offers are JSON that the
conversions must accept.  A stream is that of any object, one cut short, or
something else.

Enumerations are their generated tables, looked up by bisection in the order of
strcmp; integers keep their width; an address is the set of its 1 bits, which
the order of bytes in a word of the host permutes; a time keeps seconds and
nanoseconds, with small units; a name is its length.

Each decoder has a definition of its own, with the check that it calls.  The
conversions to JSON do not call the decoders of structures but those of their
members, in generated code of their own (`hed_dec_to_json`); `ReadersAgree` holds
the one against the other, so that a decoder or a conversion that forgets a
check shows.

The text of a time is a record: the second its date would be in UTC, the number
that the digits of its fraction write, how many they are, and the offset it says.
`strptime` refuses years of more than four digits (`YearMax`), gmtime_r those that
no int holds (`GmTimeMax`); strftime cannot fail, as the 30 bytes have room for any
year that gmtime_r gives.  sscanf takes the number of the fraction for
milliseconds and looks at nothing behind it.

What a JSON text says is defined apart from the conversions (`Says`): the value
that the table has for a name, the number as it is written, the instant of a
date with its fraction by the number of its digits and its offset.  `Kept`
compares a conversion with that, so that a conversion that misreads a text is
not compared with itself; the texts hed does misread are excepted by name
(`Foreign`, `Narrowed`).

## Runs

| run | instance | what it shows |
|---|---|---|
| `repo_solo` | 1 process, backup on, 2 files, 1 table, counter of 3 values, a version | the invariants of one process, through failures in repo_open's own transaction, in the copy and of the rename; and `ImplementsUndoStore` |
| `repo_duo` | 2 processes, backup off, 2 tables, lists {t1} and {t1, t2}, counter of 2 values | serial transactions; no id in use after a partial truncation; contents change only by a commit that succeeds, to what it made of them; a counter goes forward, wraps, or is emptied by O_TRUNC |
| `repo_duo_3pc` | 2 processes, backup on, 4 files, 1 table, no truncation | the inductive invariant `IInv`, the backup under interference in it |
| `repo_calls_return` | 2 processes, backup off, 1 table | `CallsReturn` under fairness |
| `repo_rdonly` | 1 process | `ReadOnlyCreatesNothing` fails: see Findings |
| `repo_iter` | 1 iterator, 4 keys | rows in order, none missed, none that is gone; loops end; `IInv` of `RepoIterProofs` |
| `srv_pool` | `Daemon`: 3 clients, a pool of 2, a factory with two entries for one id or one that refuses everybody | the wait has room for all events; what run and halt return means what it says; each resource closed once; a halt only drains; tables live as long as their connections, and no request meets another one; all of it is `Service` to the outside; `DInv` of `DaemonProofs` |
| `srv_live` | 2 clients, a pool of 1 | SIGTERM ends the loop, requests are served, the halt returns |
| `rpc_table` | 2 connections, 2 methods, 4 ids, lists of up to 3 entries | a table is what its list says; no write outside; no block lost; `IInv` of `RpcTableProofs` |
| `values` | every type | a decoder and its conversion to JSON find the same; what hed made is not refused; conversions keep the value; a torn stream is no value; `IInv` of `ValuesProofs` |
| `values_size`, `values_pfx` | the same | `FitsPackedMax`, `PrefixUpToMax` fail: see Findings |

Bounds.  `SeqMod` stands for 2^32: with 2 or 3 values a counter reaches its
end and wraps.  Two files are enough for one process, since a rollback frees
the file it replaces; with two processes each may still map a file that has no
name, hence four.  Keys are the ids a counter can give.  `View` drops the
contents of files nothing refers to, the arguments of calls that have returned
and history no property reads; files and processes are symmetric.  The
liveness run uses neither view nor symmetry.

Fairness.  `FairSpec` asks that a process inside a call takes its next step if
nothing prevents it: library code that runs, not the application (which need
not end its transaction) and not failures.  The wait for the mutex is not
assumed fair.

In `RepoIter` iterators do not touch each other, so one is enough for what a
run can show, and four keys leave one before, one at, and two behind a cursor;
the proofs are for any number.  `srv_pool` has one client more than the pool
holds, so that the accepting socket leaves and rejoins the poll set and the
wait has a full house of events; `srv_live` does with two clients and a pool of
one, as liveness is dear.  Ids of `RpcTable` run to `IdMod`, which stands for
2^32, so that max_id + 1 wraps; lists of three entries repeat ids and go over
max_id.  `Values` takes both ends of every range and the first value beyond,
and addresses with at most one bit set: checks and encodings look at single
bits, so a wrong one shows.  What is assigned to a member comes from
`FewNumbers` and `FewAddresses`, which are in and out of every range.  Milliseconds, nanoseconds and the greatest time
are small, and the decimal base is 2, so that a fraction has from one to four
digits of which three are the milliseconds; years of four digits end at
`YearMax` = 1, those of an int at `GmTimeMax` = 2, the accepted ones at
`TimeMax` = 3, each below the next; local time is UTC or one unit ahead.

Fairness of the server.  The process takes a step when it can.  The rest is
asked of its surroundings, since the code depends on it: a wait that
could report something does so in the end although timers and stops of the
process come in between; the timers now and then leave none that is due (were
one always due, `server.c:219` would never dispatch anything, not even
SIGTERM); SIGUSR1 does not come for ever before SIGTERM, of which the kernel
hands out the lower number first; and, for `HaltReturns` only, a client that is
being halted closes its end, as hed_srv_halt has no timeout (the comment at
`server.c:262`).  In `RepoIter` the caller goes on stepping while it is told to.

An application is assumed to respect the assertions of the calls (no start
inside a transaction, no use of a closed handle), to use the tables it listed,
and, in a table that has a counter, to store rows only under ids it was given.

## Proofs

`IInv` is the inductive invariant.  Besides the properties it says where a call
can stand (`CallInv`), that the backup is never a file somebody maps and that a
mapped file has its meta pages, though it may lack others (`FileInv`), that an undisturbed process copies into the
entry `bak` and has copied what it is about to start from (`BackupInv`,
`CopyInv`), that a counter is ahead of its rows (`SeqInv`), and that the
contents a writer works on are not behind those it started from (`CounterInv`).  Without
`FileInv` a commit could overwrite the backup; without `BackupInv` the backup
property could not be carried over the steps before the transaction starts.
There is one lemma per conjunct with one step per action.

| theorem | statement |
|---|---|
| `Invariance` | `Spec => []IInv` |
| `TypeCorrect`, `BackupCorrect`, `NoLostUpdate`, `NoLeak`, `SequenceFresh`, `CommitsReachPath` | the invariants, for every process and file set, tables, counter width, backup on or off |
| `ContentsByWriters` | the action property `OnlyWritersChangeContents` |
| `CountersForward` | the action property `CountersGoForward` |
| `UndoImplemented` | one process with the backup implements `UndoStore` |

`CountersForward` takes the relation `MovedOn` between two contents: no counter
is behind, and a counter that wrapped stays marked.  It is reflexive and
transitive, each operation of a transaction moves on, and the two actions that
change the file a path names, a commit and an open, are compared with it; that
the commit replaces what its transaction started from is `NoLostUpdate`.

`NoLeak` has two cases of a process that holds the mutex: one between two calls,
with a handle to end its transaction with, and one inside repo_open at "tables",
which every way out of it, `Unwind` among them, has to give up.

`UndoImplemented` maps a file that is `Torn` or `Cut` to spoilt contents.  Each
action is a step of the store or a stutter; it takes `FileInv`, so that what is
copied into is not what is copied from, and `BackupInv`, for a transaction begins
only from contents that have an undo copy.

They assume `RepoDbAssumption` (a counter has at least two values, the
sentinels are no values) and `RepoAssumption`; `UndoImplemented` one process and
the backup compiled in.

For the iterators, `IInv` of `RepoIter` adds to the properties that a cursor
is ahead of all that was returned (`Ahead`: without it `Ascending` would not
survive a step) and that the history is that of the table (`Tracked`: without
it a row might be behind the cursor that never was in the table).  The proof
rests on two lemmas: a non-empty set of keys has a least one, and `After` gives
the first of the keys behind.

| theorem | statement |
|---|---|
| `Invariance` (`RepoIterProofs`) | `Spec => []IInv` |
| `StepsAscend`, `StepsMissNone`, `StepsReturnRows` | `Ascending`, `NoneMissed`, `NoGhosts`, for any number of iterators and rows |
| `StepsAdvance` | the action property `LoopAdvances`: the rows to come only become fewer, which with fairness makes `LoopEnds` |

They assume `RepoIterAssumption` (the sentinel is no number).

For the server `IInv` has three parts besides the properties.  `HeldInv` says
what is held at each place of the init functions, without which `Released`
would not survive a failure.  `BatchInv` says that what a wait has reported
stays true until it is dispatched, although a whole batch comes in between: a
reported connection is still in the pool, and a reported accepting socket still
has room.  `PoolInv` has the bound that follows.  `WaitHasRoom` is the least
obvious: the wait has one event less than there are descriptors, and suffices
because the accepting socket is ready only when the pool is not full; the proof
counts the two cases.

That the server implements the service is shown step by step, in five groups:
what happens around the process, its waits, the calls of the program, the ends
of a loop or a halt, and the dispatch of a connection.  It takes `BatchInv`,
for a session can only be answered or ended when it is one, and that the pool is
empty wherever the phase becomes "down".

For the tables of methods `Filled` says that the table being made holds the
last method of each id among the entries read so far; `TableIsList` follows when
the list is at its end.

The invariant of `Daemon` is that of its two parts and `TablesFollowPool`.  The
lemmas of `RpcTableProofs` are used through an instance; each step of the daemon
is a step of the server or none, and a step of the tables or none.  What is new
is that both parts agree on who is connected: it takes that whatever closes
connections admits none, and that a closed server has an empty pool.

| theorem | statement |
|---|---|
| `Invariance` (`ServerProofs`, `RpcTableProofs`) | `Spec => []IInv` |
| `TypeCorrect`, `StopIsAsked`, `DrainIsClean`, `ResourcesReleased`, `WaitHasRoom` | the invariants of `Server`, for any number of clients and a pool of any size |
| `HaltOnlyDrains` | the action property `HaltDrains` |
| `ServiceImplemented` | `Server` implements `Service` |
| `TableCorrect`, `WritesFit`, `NoBlockLost` | the invariants of `RpcTable`, for any factory and width of an id |
| `DaemonInvariance`, `TablesLiveWithPool`, `MethodsFound` | `DInv` and the invariants of `Daemon` |
| `DaemonIsServer`, `DaemonIsSafe` | `Daemon` implements `Server`, so that the invariants of `Server` and `HaltDrains` are true of it |
| `DaemonServes` | `Daemon` implements `Service` |

They assume `ServerAssumption` (a pool of at least one, descriptors that differ;
there may be infinitely many clients), `RpcTableAssumption` (a null function
is no method, no connection is none) and `DaemonAssumption` (the same, and that
the factories have the types of `rpc.h`).

For the values the operators are most of the work, and the state machine rests
on what is proved of them, for every object of the C types (`CType`) where TLC
tries some:

* A bisection of a table in the order of strcmp is a search of it
  (`BisectFinds`).  Induction over data is out of the prover's reach, so the
  fixed point of the recursion is built in as many rounds as the longest table
  has entries, five; `IsTable` says so.  The tables of hed are shown to be in
  that order; an unsorted one, as `link_state` is in `base.yml`, is where the
  proof would stop.
* A stream gives back the object that was encoded (`DecodesBack`), and one that
  was cut short gives none, wherever it was cut (`TornIsNothing`).
* A text made of an object says that object, and is read as it, unless its year
  has five digits; a text that is read says what was made of it, unless a number
  was narrowed, the text of a time is one hed does not write, or local time is not
  UTC.
* Each decoder gives what is in the stream if the check of its type accepts it
  (the lemma `DecodersCheck`, type by type).
* An accepted object takes at most `PackedMax` bytes, and one more if it is a
  service (`PackedRoom`); some service does.

The invariant has four parts.  `FormInv` types each form: a stream holds at
most one object of its type, a torn one none.  `DecodedIsValid` says
that what a decoder gives passes the check.  `BornInv` says that of a caller's accepted object every form is
accepted; without it a network could not be carried through JSON, where its
prefix is not checked.  `WayInv` is `NotRefused` one conversion ahead: outside of the
two exceptions the next one finds a value it accepts.

| theorem | statement |
|---|---|
| `BisectFinds`, `EnumLookup` | the lookup of a name, and that names and values are found from each other |
| `DecodesBack`, `TornIsNothing` | the two ways of a stream |
| `PackedRoom` | how far `HED_*_PACKED_SIZE_MAX` falls short |
| `Invariance` (`ValuesProofs`) | `Spec => []IInv` |
| `ReadersAlike` | the invariant `ReadersAgree` |
| `NeverRefused`, `TornIsRefused`, `ValueKept` | the action properties `NotRefused`, `TornRefused`, `Kept` |

They assume `ValuesAssumption`: the units of time and the greatest times are
numbers, the former not 0, a second has as many milliseconds as three digits
write, years of four digits end before those of an int, and offsets from UTC are
integers.  Nothing is
assumed of the inputs but the sets of `Init`, each shown to lie in its type; the
invariant and its steps are about any object of that type.

Only checked by TLC: `CallsReturn`, `LoopEnds`, `TermStops`, `Served` and
`HaltReturns`, as liveness under fairness is out of the prover's reach.  Every
invariant and every action property of the passing runs, and both refinements, are proved.

Some hazards are outside of what the properties cover, and the properties say so
in a premise: `BackupIsBase` and `TxnBaseCurrent` are about undisturbed processes
where the backup is shared (`quiet`); `CommitReachesPath`,
`OnlyWritersChangeContents` and `CountersGoForward` about configurations in which
no other process rolls back (`PathIsStable`), for then the code protects nobody;
`TableIsList` and `EntriesFit` about factories with ids up to max_id (`Sound`).

## Findings

Shown by a run:

* `repo.c:55`, `repo.c:194`: O_RDONLY is 0, so the tests `flags & O_RDONLY` are
  never true; a read-only open creates the file, takes the backup and the mutex
  (`repo_rdonly`).
* `inet.h:728`, `inet.h:887`: prefixes of 32 and 128 are refused, which
  `inet.yml` gives as the maximum (`values_pfx`).
* `inet.h:1195` and its like: the maximal size of a structure leaves out the
  byte of its array (`values_size`).  For a network the byte that its prefix
  does not need makes up for it, for a service nothing does (`PackedRoom`).

Met while modelling, and excepted by name in the property concerned:

* `NotRefused`: the JSON conversions of networks do not check the prefix
  against the address, as `inet.c` does (`inet-json.c:349-496`).
* `NotRefused`, `Kept`: a time goes to JSON as UTC and comes back as local time
  (`base-impl.c:88`).
* `NotRefused`: a time whose year has five digits is accepted and written, and
  the conversion back refuses it (`base-impl.c:80`).
* `ReadersAgree`: a time whose year no int holds is decoded and not written
  (`base-impl.c:115`); the prefix of a network is checked by the one and not by
  the other.
* `Kept`: of a fraction only the number is read, .5 as 5 ms, and what follows it
  is not (`base-impl.c:84`).
* `UndoStore`: a rename that fails in hed_repo_rollback is not reported, and the
  backup is overwritten; after a start that failed in its copy a rollback puts the
  cut backup over the repository, which opens (`repo.c:206`, 250).
* `Kept`: a JSON number is narrowed before it is checked (`inet-json.c:96`,
  141, 186).
* `Released`: when the signal channel fails it is closed a second time, and no
  failure closes the accepting worker (`server.c:145-160`, 195-206).

Read in the code, without a property:

* `base.c:25`: the pattern of a name, `base.yml:15`, is never matched.
* `inet-impl.c:298-342`: the masks select other bits than a prefix has, and the
  functions return 1 where `inet.h:1617` says -EINVAL.
* `server.c:269`: hed_srv_halt returns an unset variable if nothing is connected.
* `server.c:203`, 285: a socket of galv_fd_adopt_open is closed with
  galv_unix_adopt_close.
* `rpc.c:24`, `rpc.c:30`: max_id + 1 may wrap; the assertion looks at the index,
  not at the id.
* `repo.c:378`: an error of LMDB comes back from hed_repo_count as a count.

## Plan

1. Done: the repository, its undo store and its iterators, with their proofs.
2. Done: the server, its abstract service, the tables of methods, and
   their composition `Daemon`, with their proofs.
3. Done: `Values`, with its proofs.
4. Left to prove: the measures of the server's loops, which `TermStops` and
   `HaltReturns` rest on besides fairness.  That a halt admits nobody
   (`HaltOnlyDrains`) is one part of it.

Not modelled: the bytes of the encodings and of JSON (dpack and json-c do
them); the text of addresses; dates that are not well formed and fractions
whose product overflows; json-c running out of memory; the gid of a permission, which nothing
reads; `rpc_clnt.h`, which only forwards; the build files, which keep no state;
LMDB, galv and utils beyond what hed sees of them; and a daemon's methods, which
would open a transaction while they serve a request: no file of the library
does, so there is no code to be faithful to.
