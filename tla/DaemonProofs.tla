---------------------------- MODULE DaemonProofs ----------------------------
(***************************************************************************)
(* The server with its tables of methods: each part keeps its invariant    *)
(* when they run together, requests meet the table of their connection,    *)
(* and the whole still implements Service.                                 *)
(***************************************************************************)
EXTENDS Daemon, ServiceProofs

Facts == INSTANCE RpcTableProofs WITH Conns <- Peers

LEMMA Parameters ==
    /\ IdMod \in Nat \ {0} /\ MaxAuth \in Nat
    /\ Null \notin Methods /\ Nobody \notin Peers
    /\ Facts!RpcTableAssumption
    BY DaemonAssumption DEF DaemonAssumption, Facts!RpcTableAssumption

\* What is proved of RpcTable is said of the instance in Daemon.
LEMMA SameInv ==
    /\ Rpc!IInv <=> Facts!IInv
    /\ Rpc!IInv' <=> Facts!IInv'
    BY DEF Rpc!IInv, Rpc!TypeOK, Rpc!Filled, Rpc!TableIsList, Rpc!EntriesFit, Rpc!BlocksOwned,
           Rpc!Sound, Rpc!Listed, Rpc!MethodIn, Rpc!Ids,
           Facts!IInv, Facts!TypeOK, Facts!Filled, Facts!TableIsList, Facts!EntriesFit,
           Facts!BlocksOwned, Facts!Sound, Facts!Listed, Facts!MethodIn, Facts!Ids

TableStep ==
    \/ \E p \in Peers : Rpc!hed_rpc_create(p)
    \/ Rpc!create_entry \/ Rpc!create_permits \/ Rpc!create_refuses
    \/ \E C \in SUBSET Peers : Rpc!Destroy(C)
    \/ UNCHANGED tables

LEMMA TablesKept ==
    ASSUME Rpc!IInv, TableStep
    PROVE  Rpc!IInv'
<1>1. Facts!IInv
    BY SameInv
<1> USE DEF Rpc!factory, Rpc!call, Facts!factory, Facts!call
<1>2. ASSUME NEW p \in Peers, Rpc!hed_rpc_create(p)
      PROVE  Rpc!IInv'
    <2>1. Facts!hed_rpc_create(p)
        BY <1>2 DEF Rpc!hed_rpc_create, Facts!hed_rpc_create, Rpc!Nr, Facts!Nr
    <2> QED
        BY <1>1, <2>1, SameInv, Parameters, Facts!CreateKeeps
<1>3. CASE Rpc!create_entry
    <2>1. Facts!create_entry
        BY <1>3 DEF Rpc!create_entry, Facts!create_entry
    <2> QED
        BY <1>1, <2>1, SameInv, Parameters, Facts!EntryKeeps
<1>4. CASE Rpc!create_permits
    <2>1. Facts!create_permits
        BY <1>4 DEF Rpc!create_permits, Facts!create_permits
    <2> QED
        BY <1>1, <2>1, SameInv, Parameters, Facts!PermitsKeeps
<1>5. CASE Rpc!create_refuses
    <2>1. Facts!create_refuses
        BY <1>5 DEF Rpc!create_refuses, Facts!create_refuses, Rpc!Empty, Facts!Empty
    <2> QED
        BY <1>1, <2>1, SameInv, Parameters, Facts!RefusesKeeps
<1>6. ASSUME NEW C \in SUBSET Peers, Rpc!Destroy(C)
      PROVE  Rpc!IInv'
    <2>1. Facts!Destroy(C)
        BY <1>6 DEF Rpc!Destroy, Facts!Destroy, Rpc!Empty, Facts!Empty
    <2> QED
        BY <1>1, <2>1, SameInv, Parameters, Facts!DestroyKeeps
<1>7. CASE UNCHANGED tables
    BY <1>7 DEF tables, Rpc!IInv, Rpc!TypeOK, Rpc!Filled, Rpc!TableIsList, Rpc!EntriesFit,
                Rpc!BlocksOwned, Rpc!Sound, Rpc!Listed
<1> QED
    BY <1>2, <1>3, <1>4, <1>5, <1>6, <1>7 DEF TableStep

-----------------------------------------------------------------------------
LEMMA InitDInv == DInit => DInv
<1> SUFFICES ASSUME DInit PROVE DInv
    OBVIOUS
<1>1. IInv
    BY InitIInv DEF DInit
<1>2. max_id \in 0 .. IdMod - 1 /\ auth \in Seq([id : 0 .. IdMod - 1, meth : Methods])
    BY DaemonAssumption DEF DaemonAssumption, DInit
<1>3. Len(auth) \in Nat
    BY <1>2
<1>4. fn \in [Peers -> UNION {[0 .. n - 1 -> Methods \cup {Null}] : n \in 0 .. IdMod}]
    <2>1. Rpc!Empty \in [0 .. 0 - 1 -> Methods \cup {Null}]
        BY DEF Rpc!Empty
    <2>2. Rpc!Empty \in UNION {[0 .. n - 1 -> Methods \cup {Null}] : n \in 0 .. IdMod}
        BY <2>1, Parameters
    <2> QED
        BY <2>2 DEF DInit
<1>5. i \in 1 .. Len(auth) + 1
    BY <1>3 DEF DInit
<1>6. Rpc!TypeOK
    BY <1>2, <1>4, <1>5 DEF DInit, Rpc!TypeOK, Rpc!Ids
<1>7. Rpc!IInv
    BY <1>6, Parameters DEF DInit, Rpc!IInv, Rpc!Filled, Rpc!TableIsList, Rpc!EntriesFit,
                            Rpc!BlocksOwned
<1>8. Pool = {}
    BY DEF DInit, Init, Pool
<1> QED
    BY <1>1, <1>7, <1>8, Parameters DEF DInit, DInv, TablesFollowPool

\* hed_rpc_create runs for a connection.
LEMMA CallerIsPeer ==
    ASSUME DInv, Busy
    PROVE  caller \in Peers
    BY DEF DInv, Rpc!IInv, Rpc!TypeOK, Busy

\* Each step of the daemon is one of the server, or the server rests.
LEMMA ServerStep ==
    ASSUME DInv, [DNext]_daemon
    PROVE  [Next]_vars
<1>1. CASE UNCHANGED daemon
    BY <1>1 DEF daemon
<1>2. CASE accept_entry \/ \E p \in Peers : accept_begins(p)
    BY <1>2 DEF accept_entry, accept_begins
<1>3. CASE accept_permitted \/ accept_denied
    <2>1. caller \in Peers
        BY <1>3, CallerIsPeer DEF accept_permitted, accept_denied, Rpc!create_permits,
                                  Rpc!create_refuses, Busy
    <2> QED
        BY <1>3, <2>1 DEF accept_permitted, accept_denied, Next, LoopStep
<1>4. CASE \E p \in Peers : accept_no_memory(p)
    BY <1>4 DEF accept_no_memory, Next, LoopStep
<1>5. CASE close
    BY <1>5 DEF close, Closing, Next, LoopStep
<1>6. CASE work
    BY <1>6 DEF work, Working, Next, LoopStep
<1>7. CASE Outside
    BY <1>7 DEF Outside, Next
<1> QED
    BY <1>1, <1>2, <1>3, <1>4, <1>5, <1>6, <1>7 DEF DNext

LEMMA TableSteps ==
    ASSUME DInv, [DNext]_daemon
    PROVE  TableStep
<1>1. CASE close
    <2>1. Pool \ Pool' \in SUBSET Peers
        BY DEF Pool
    <2> QED
        BY <1>1, <2>1 DEF close, TableStep
<1>2. CASE ~close
    BY <1>2 DEF DNext, accept_begins, accept_entry, accept_permitted, accept_denied,
                accept_no_memory, work, daemon, TableStep
<1> QED
    BY <1>1, <1>2

-----------------------------------------------------------------------------
\* What closes connections admits none.
LEMMA ClosingShrinks ==
    ASSUME TypeOK, Closing
    PROVE  Pool' \subseteq Pool
<1>1. ASSUME NEW p \in Peers, dispatch_close(p)
      PROVE  Pool' \subseteq Pool
    BY <1>1, DropPool DEF dispatch_close
<1>2. CASE hed_srv_dispatch_sigchan
    <2>1. Leave("0", "EINTR") \/ link' = link
        BY <1>2 DEF hed_srv_dispatch_sigchan, peers
    <2> QED
        BY <2>1, LeavePool DEF Pool
<1>3. CASE dispatch_fails \/ halt_interrupted
    BY <1>3, LeavePool DEF dispatch_fails, halt_interrupted
<1> QED
    BY <1>1, <1>2, <1>3 DEF Closing

LEMMA WorkingKeeps ==
    ASSUME IInv, Working
    PROVE  Pool' = Pool
<1>1. CASE acquire_fails \/ hed_srv_fini
    <2>1. Pool = {}
        BY <1>1 DEF IInv, PoolInv, acquire_fails, hed_srv_fini
    <2> QED
        BY <1>1, <2>1, NonePool DEF acquire_fails, hed_srv_fini
<1>2. CASE ~(acquire_fails \/ hed_srv_fini)
    BY <1>2, StillPool DEF Working, Still
<1> QED
    BY <1>1, <1>2

LEMMA OutsideKeeps ==
    ASSUME TypeOK, Outside
    PROVE  Pool' = Pool
    BY StillPool, ConnectPool DEF Outside, Still

LEMMA RefuseKeeps ==
    ASSUME TypeOK, NEW p \in Peers, dispatch_refuse(p)
    PROVE  Pool' = Pool
<1>1. Drop(p) /\ p \notin Pool
    BY DEF dispatch_refuse, Pool
<1> QED
    BY <1>1, DropPool

\* A table is handed over, and freed, with its connection.
LEMMA FollowStep ==
    ASSUME DInv, [DNext]_daemon
    PROVE  meth' = Pool'
<1>1. TypeOK /\ IInv /\ meth = Pool
    BY DEF DInv, IInv, TablesFollowPool
<1>2. CASE UNCHANGED daemon
    BY <1>1, <1>2 DEF daemon, tables, vars, peers, Pool
<1>3. CASE accept_entry \/ \E p \in Peers : accept_begins(p)
    BY <1>1, <1>3 DEF accept_entry, accept_begins, Rpc!create_entry, Rpc!hed_rpc_create,
                      Rpc!factory, vars, peers, Pool
<1>4. CASE accept_permitted
    <2>1. caller \in Peers /\ dispatch_accept(caller) /\ meth' = meth \cup {caller}
        BY <1>4, CallerIsPeer DEF accept_permitted, Rpc!create_permits, Busy
    <2> QED
        BY <1>1, <2>1, AcceptPool
<1>5. CASE accept_denied
    <2>1. caller \in Peers /\ dispatch_refuse(caller) /\ meth' = meth
        BY <1>5, CallerIsPeer DEF accept_denied, Rpc!create_refuses, Busy
    <2> QED
        BY <1>1, <2>1, RefuseKeeps
<1>6. CASE \E p \in Peers : accept_no_memory(p)
    BY <1>1, <1>6, RefuseKeeps DEF accept_no_memory, tables
<1>7. CASE close
    <2>1. meth' = meth \ (Pool \ Pool') /\ Pool' \subseteq Pool
        BY <1>1, <1>7, ClosingShrinks DEF close, Rpc!Destroy
    <2> QED
        BY <1>1, <2>1
<1>8. CASE work
    BY <1>1, <1>8, WorkingKeeps DEF work, tables
<1>9. CASE Outside /\ UNCHANGED tables
    BY <1>1, <1>9, OutsideKeeps DEF tables
<1> QED
    BY <1>2, <1>3, <1>4, <1>5, <1>6, <1>7, <1>8, <1>9 DEF DNext

-----------------------------------------------------------------------------
\* The parts keep their invariants when they run together, for any factories.
THEOREM DaemonInvariance == DSpec => []DInv
<1>1. DInit => DInv
    BY InitDInv
<1>2. DInv /\ [DNext]_daemon => DInv'
    <2> SUFFICES ASSUME DInv, [DNext]_daemon PROVE DInv'
        OBVIOUS
    <2>1. IInv'
        BY ServerStep, TypeStep, HeldStep, BatchStep, PoolStep, StopStep, ZeroStep,
           ReleasedStep DEF IInv, DInv
    <2>2. Rpc!IInv'
        BY TableSteps, TablesKept DEF DInv
    <2>3. TablesFollowPool'
        BY <2>2, FollowStep DEF TablesFollowPool, Rpc!IInv, Rpc!BlocksOwned
    <2> QED
        BY <2>1, <2>2, <2>3 DEF DInv
<1> QED
    BY <1>1, <1>2, PTL DEF DSpec

\* However a connection begins or ends, it has a table as long as it is in the
\* pool (rpc.c:43, 55; server.c:259-286).
THEOREM TablesLiveWithPool == DSpec => []TablesFollowPool
<1>1. DInv => TablesFollowPool
    BY DEF DInv
<1> QED
    BY <1>1, DaemonInvariance, PTL

\* A request is looked up in the whole table of the factory (rpc.c:24-40).
THEOREM MethodsFound == DSpec => []RequestsFindMethods
<1>1. DInv => RequestsFindMethods
    BY DEF DInv, TablesFollowPool, RequestsFindMethods, Rpc!IInv, Rpc!TableIsList
<1> QED
    BY <1>1, DaemonInvariance, PTL

\* The tables of methods only add to the server: every step of a daemon is one
\* of its server, or leaves the server alone (server.c, rpc.c).
THEOREM DaemonIsServer == DSpec => Spec
<1>1. DInit => Init
    BY DEF DInit
<1>2. DInv /\ [DNext]_daemon => [Next]_vars
    BY ServerStep
<1> QED
    BY <1>1, <1>2, DaemonInvariance, PTL DEF DSpec, Spec

\* So what is proved of the server alone is true of a daemon, where the table of a
\* connection may not be made: the types, room for the events, the meaning of what
\* run and halt return, the resources, and a halt that only drains
\* (server.c:110-287).
THEOREM DaemonIsSafe ==
    DSpec => /\ [](TypeOK /\ EventsFit /\ StopMeansAsked /\ ZeroMeansDrained /\ Released)
             /\ HaltDrains
<1>1. DSpec => Spec
    BY DaemonIsServer
<1> QED
    BY <1>1, TypeCorrect, WaitHasRoom, StopIsAsked, DrainIsClean, ResourcesReleased,
       HaltOnlyDrains, PTL

\* And its clients see the abstract service (server.c:209-274).
THEOREM DaemonServes == DSpec => ImplementsService
    BY DaemonIsServer, ServiceImplemented

=============================================================================
