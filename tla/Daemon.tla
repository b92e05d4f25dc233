------------------------------- MODULE Daemon -------------------------------
(***************************************************************************)
(* A server with its factory of method tables: lib/server.c hands the      *)
(* factory to galv (server.c:136, 186), which has lib/rpc.c make a table   *)
(* for each connection that it accepts and free it with the connection.    *)
(* Where galv calls them is taken from what rpc.h gives it to call.        *)
(*                                                                         *)
(* hed_rpc_create runs in the worker of the accepting socket: while it     *)
(* does, the process takes no other step, but peers and signals go on.     *)
(***************************************************************************)
EXTENDS Server, Sequences

CONSTANTS
    Nobody, Methods, Null, IdMod, MaxAuth,      \* as in RpcTable
    Factories   \* the factories that a program may give to hed_srv_init

ASSUME DaemonAssumption ==
    /\ IdMod \in Nat \ {0} /\ MaxAuth \in Nat
    /\ Null \notin Methods /\ Nobody \notin Peers
    /\ \A f \in Factories :
          /\ f.max_id \in 0 .. IdMod - 1
          /\ f.auth \in Seq([id : 0 .. IdMod - 1, meth : Methods])

VARIABLES max_id, auth, caller, i, permit, heap, fn, meth, stray

tables == <<max_id, auth, caller, i, permit, heap, fn, meth, stray>>
daemon == <<vars, tables>>

Rpc == INSTANCE RpcTable WITH Conns <- Peers

DInit ==
    /\ Init
    /\ \E f \in Factories : max_id = f.max_id /\ auth = f.auth
    /\ caller = Nobody /\ i = 1 /\ permit = FALSE
    /\ heap = {} /\ fn = [p \in Peers |-> Rpc!Empty]
    /\ meth = {}
    /\ stray = FALSE

Busy == caller # Nobody

-----------------------------------------------------------------------------
\* The accepting socket's worker has a connection and asks for its table.
accept_begins(p) ==
    /\ Dispatching /\ Listen \in batch
    /\ link[p] = "backlog"
    /\ Rpc!hed_rpc_create(p)
    /\ UNCHANGED vars

accept_entry == Rpc!create_entry /\ UNCHANGED vars

accept_permitted == Rpc!create_permits /\ dispatch_accept(caller)

accept_denied == Rpc!create_refuses /\ dispatch_refuse(caller)

\* calloc fails.
accept_no_memory(p) == ~Busy /\ dispatch_refuse(p) /\ UNCHANGED tables

\* What takes connections out of the pool frees their tables.
Closing ==
    \/ \E p \in Peers : dispatch_close(p)
    \/ hed_srv_dispatch_sigchan \/ dispatch_fails \/ halt_interrupted

close == Closing /\ Rpc!Destroy(Pool \ Pool')

\* The rest of what the process does leaves the pool alone.
Working ==
    \/ hed_srv_init \/ hed_srv_conn_init \/ acquire \/ acquire_fails
    \/ hed_srv_run \/ hed_srv_halt \/ hed_srv_fini
    \/ process_timers \/ process_interrupted \/ process_wait \/ halt_wait
    \/ \E p \in Peers : dispatch_request(p)

work == ~Busy /\ Working /\ UNCHANGED tables

Outside ==
    \/ \E p \in Peers : peer_connects(p) \/ peer_sends(p) \/ peer_closes(p)
    \/ \E s \in Signals : signal(s)
    \/ timer_expires \/ process_continued

DNext ==
    \/ \E p \in Peers : accept_begins(p) \/ accept_no_memory(p)
    \/ accept_entry \/ accept_permitted \/ accept_denied
    \/ close \/ work
    \/ Outside /\ UNCHANGED tables

DSpec == DInit /\ [][DNext]_daemon

-----------------------------------------------------------------------------
\* The tables allocated are those of the pool and the one that is being made:
\* however a connection ends, by its peer, by a refusal, by a signal or an
\* error in the halt, its table goes, and a server that has come to its end
\* leaves none (rpc.c:43, 55; server.c:259-286).
TablesFollowPool == meth = Pool /\ heap = Pool \cup ({caller} \cap Peers)

\* A connection that requests are dispatched to has the whole table of its
\* factory, never one that is being filled, or was freed (rpc.c:24-40).
RequestsFindMethods ==
    Rpc!Sound =>
        \A p \in Pool : fn[p] = [id \in 0 .. max_id |-> Rpc!Listed(id)]

\* What they rest on: the invariants of the two parts.
DInv ==
    /\ IInv
    /\ Rpc!IInv
    /\ TablesFollowPool

=============================================================================
