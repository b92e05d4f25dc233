------------------------------ MODULE RpcTable ------------------------------
(***************************************************************************)
(* lib/rpc.c: the table of methods that galv gets for each connection,     *)
(* made from the list of methods of a factory and indexed by method id.    *)
(* The process is single-threaded: hed_rpc_create makes one at a time.     *)
(***************************************************************************)
EXTENDS Naturals, Sequences

CONSTANTS
    Conns,      \* connections
    Nobody,     \* no connection
    Methods,    \* functions of the server
    Null,       \* no function
    IdMod,      \* stands for 2^32, the values of a uint32_t
    MaxAuth     \* bound on the length of a factory's list

ASSUME RpcTableAssumption ==
    IdMod \in Nat \ {0} /\ Null \notin Methods /\ Nobody \notin Conns /\ MaxAuth \in Nat

Ids == 0 .. IdMod - 1

VARIABLES
    max_id,     \* the factory: the greatest id it knows,
    auth,       \* and its list
    caller,     \* the connection that hed_rpc_create runs for
    i,          \* the entry of the list it comes to next
    permit,     \* it has come to one
    heap,       \* connections that a block is allocated for
    fn,         \* what is in the blocks, by id
    meth,       \* connections that galv was given a table for
    stray       \* an entry was written outside of its block

factory == <<max_id, auth>>
call == <<caller, i, permit>>
vars == <<factory, call, heap, fn, meth, stray>>

Empty == [id \in {} |-> Null]

Init ==
    /\ max_id \in Ids
    /\ auth \in UNION {[1 .. n -> [id : Ids, meth : Methods]] : n \in 0 .. MaxAuth}
    /\ caller = Nobody /\ i = 1 /\ permit = FALSE
    /\ heap = {} /\ fn = [c \in Conns |-> Empty]
    /\ meth = {}
    /\ stray = FALSE

\* Faulty: no room for the greatest id.
NrShort == max_id

\* max_id + 1, in 32 bits.
Nr == (max_id + 1) % IdMod

\* calloc.  When it fails, hed_rpc_create returns -ENOMEM and has done nothing.
hed_rpc_create(c) ==
    /\ caller = Nobody
    /\ c \notin meth
    /\ caller' = c /\ i' = 1 /\ permit' = FALSE
    /\ heap' = heap \cup {c}
    /\ fn' = [fn EXCEPT ![c] = [id \in 0 .. Nr - 1 |-> Null]]
    /\ UNCHANGED <<factory, meth, stray>>

\* Faulty: an id that has a method keeps it.
create_entry_first ==
    /\ caller # Nobody
    /\ i <= Len(auth)
    /\ IF auth[i].id \in DOMAIN fn[caller]
       THEN /\ fn' = [fn EXCEPT ![caller][auth[i].id] = IF @ = Null THEN auth[i].meth ELSE @]
            /\ UNCHANGED stray
       ELSE stray' = TRUE /\ UNCHANGED fn
    /\ permit' = TRUE
    /\ i' = i + 1
    /\ UNCHANGED <<factory, caller, heap, meth>>

\* fn[auth->id] = auth->meth: the last entry of an id is the one that counts.
create_entry ==
    /\ caller # Nobody
    /\ i <= Len(auth)
    /\ IF auth[i].id \in DOMAIN fn[caller]
       THEN fn' = [fn EXCEPT ![caller][auth[i].id] = auth[i].meth] /\ UNCHANGED stray
       ELSE stray' = TRUE /\ UNCHANGED fn
    /\ permit' = TRUE
    /\ i' = i + 1
    /\ UNCHANGED <<factory, caller, heap, meth>>

\* Faulty: the first entry is enough.
create_permits_early ==
    /\ caller # Nobody
    /\ permit
    /\ meth' = meth \cup {caller}
    /\ caller' = Nobody
    /\ UNCHANGED <<factory, i, permit, heap, fn, stray>>

\* The table is handed over.
create_permits ==
    /\ caller # Nobody
    /\ i > Len(auth)
    /\ permit
    /\ meth' = meth \cup {caller}
    /\ caller' = Nobody
    /\ UNCHANGED <<factory, i, permit, heap, fn, stray>>

\* Faulty: the block stays allocated.
create_refuses_leaky ==
    /\ caller # Nobody
    /\ i > Len(auth)
    /\ ~permit
    /\ caller' = Nobody
    /\ UNCHANGED <<factory, i, permit, heap, fn, meth, stray>>

\* -EPERM.
create_refuses ==
    /\ caller # Nobody
    /\ i > Len(auth)
    /\ ~permit
    /\ heap' = heap \ {caller}
    /\ fn' = [fn EXCEPT ![caller] = Empty]
    /\ caller' = Nobody
    /\ UNCHANGED <<factory, i, permit, meth, stray>>

\* hed_rpc_destroy of each of C, whose connections galv closes.
Destroy(C) ==
    /\ C \subseteq meth
    /\ caller = Nobody
    /\ meth' = meth \ C
    /\ heap' = heap \ C
    /\ fn' = [c \in Conns |-> IF c \in C THEN Empty ELSE fn[c]]
    /\ UNCHANGED <<factory, call, stray>>

hed_rpc_destroy(c) == Destroy({c})

Next ==
    \/ create_entry \/ create_permits \/ create_refuses
    \/ \E c \in Conns : hed_rpc_create(c) \/ hed_rpc_destroy(c)

Spec == Init /\ [][Next]_vars

-----------------------------------------------------------------------------
\* A factory whose list names no id above its max_id, itself not the greatest
\* value of its type: nothing in rpc.c makes sure of either.
Sound == max_id + 1 < IdMod /\ \A n \in DOMAIN auth : auth[n].id <= max_id

\* The method of an id in the first n entries of a list: the last one counts.
MethodIn(list, n, id) ==
    LET named == {m \in 1 .. n : list[m].id = id}
    IN  IF named = {} THEN Null ELSE list[CHOOSE m \in named : \A k \in named : k <= m].meth

Listed(id) == MethodIn(auth, Len(auth), id)

\* galv finds the method of every id of the list, and none under the others, in
\* the table of every connection, whatever connections came and went before
\* (rpc.c:24-40).
TableIsList ==
    Sound => \A c \in meth : fn[c] = [id \in 0 .. max_id |-> Listed(id)]

\* No entry of a sound factory is written outside of the table (rpc.c:30-34).
EntriesFit == Sound => ~stray

\* The blocks allocated are those of the tables that galv has and of the one
\* that is being made: a connection that is refused leaves none (rpc.c:43, 55).
BlocksOwned == heap = meth \cup ({caller} \cap Conns)

-----------------------------------------------------------------------------
(* What the properties rest on.                                            *)

TypeOK ==
    /\ max_id \in Ids
    /\ auth \in Seq([id : Ids, meth : Methods])
    /\ caller \in Conns \cup {Nobody}
    /\ i \in 1 .. Len(auth) + 1
    /\ permit \in BOOLEAN
    /\ heap \subseteq Conns /\ meth \subseteq Conns
    /\ fn \in [Conns -> UNION {[0 .. n - 1 -> Methods \cup {Null}] : n \in 0 .. IdMod}]
    /\ stray \in BOOLEAN

\* The table that is being made holds the entries that hed_rpc_create has come
\* to, and galv does not have it yet.
Filled ==
    caller # Nobody =>
        /\ caller \notin meth
        /\ Sound => fn[caller] = [id \in 0 .. max_id |-> MethodIn(auth, i - 1, id)]

\* The conjunction is inductive.
IInv ==
    /\ TypeOK
    /\ Filled
    /\ TableIsList
    /\ EntriesFit
    /\ BlocksOwned

=============================================================================
