---------------------------- MODULE ServerProofs ----------------------------
(***************************************************************************)
(* The server keeps its promises with any number of clients and a pool of  *)
(* any size.                                                               *)
(***************************************************************************)
EXTENDS Server, FiniteSetTheorems, TLAPS

-----------------------------------------------------------------------------
\* What the steps do to the pool.

LEMMA Descriptors ==
    /\ ConnNr \in Nat
    /\ Listen \notin Peers /\ SigChan \notin Peers /\ Listen # SigChan
    BY ServerAssumption DEF ServerAssumption

LEMMA DropPool ==
    ASSUME TypeOK, NEW p \in Peers, Drop(p)
    PROVE  Pool' = Pool \ {p}
    BY DEF TypeOK, Drop, Pool

LEMMA AcceptPool ==
    ASSUME TypeOK, NEW p \in Peers, dispatch_accept(p)
    PROVE  Pool' = Pool \cup {p} /\ p \notin Pool
    BY DEF TypeOK, dispatch_accept, Pool

\* An error ends the halt with an empty pool, and leaves that of the loop.
LEMMA LeavePool ==
    ASSUME TypeOK, NEW a, NEW b, Leave(a, b)
    PROVE  /\ pc \in Looping => Pool' = Pool /\ pc' = "stopped" /\ result' = a
           /\ pc \notin Looping => Pool' = {} /\ pc' = "halted" /\ result' = b
           /\ batch' = {}
    BY DEF TypeOK, Leave, Pool, peers

LEMMA ContinuePc ==
    ASSUME NEW fd, NEW pool, Dispatching, Continue(fd, pool)
    PROVE  /\ batch' = batch \ {fd}
           /\ pc = "dispatch" => pc' \in {"dispatch", "wait"} /\ result' = result
           /\ pc = "halt_dispatch" =>
                  \/ pc' \in {"halt_dispatch", "halt_wait"} /\ result' = result
                  \/ pc' = "halted" /\ pool = {} /\ result' = "0"
           /\ pc' = pc \/ batch' = {}
           /\ cut' = cut /\ asked' = asked
    BY DEF Continue, Dispatching

\* The steps that leave every connection where it is.
Still ==
    \/ hed_srv_init \/ hed_srv_conn_init \/ acquire \/ hed_srv_run \/ hed_srv_halt
    \/ process_timers \/ process_interrupted \/ process_wait \/ halt_wait
    \/ \E p \in Peers : dispatch_request(p) \/ peer_sends(p) \/ peer_closes(p)
    \/ \E s \in Signals : signal(s)
    \/ timer_expires \/ process_continued \/ UNCHANGED vars

LEMMA StillPool ==
    ASSUME Still
    PROVE  Pool' = Pool /\ (Room' <=> Room) /\ link' = link
<1>1. link' = link
    BY DEF Still, hed_srv_init, hed_srv_conn_init, acquire, hed_srv_run, hed_srv_halt,
           process_timers, process_interrupted, process_wait, halt_wait, dispatch_request,
           peer_sends, peer_closes, signal, timer_expires, process_continued,
           vars, proc, peers, events, held
<1>2. Pool' = Pool
    BY <1>1 DEF Pool
<1> QED
    BY <1>1, <1>2 DEF Room

LEMMA ConnectPool ==
    ASSUME TypeOK, NEW p \in Peers, peer_connects(p)
    PROVE  Pool' = Pool
    BY DEF TypeOK, peer_connects, Pool

LEMMA NonePool ==
    ASSUME link' = [p \in Peers |-> "none"]
    PROVE  Pool' = {}
    BY DEF Pool

-----------------------------------------------------------------------------
\* Every step of the server, by what it does to the process and the pool.
Around ==
    \/ \E p \in Peers : peer_connects(p) \/ peer_sends(p) \/ peer_closes(p)
    \/ \E s \in Signals : signal(s)
    \/ timer_expires \/ process_continued \/ UNCHANGED vars

Waiting ==
    \/ process_timers \/ process_interrupted \/ process_wait \/ halt_wait

Ending == halt_interrupted \/ hed_srv_dispatch_sigchan \/ dispatch_fails

Serving ==
    \/ \E p \in Peers : dispatch_request(p) \/ dispatch_close(p)
    \/ \E p \in Peers : dispatch_accept(p) \/ dispatch_refuse(p)

Calling ==
    \/ hed_srv_init \/ hed_srv_conn_init \/ acquire \/ acquire_fails
    \/ hed_srv_run \/ hed_srv_halt \/ hed_srv_fini

LEMMA NextCases ==
    ASSUME [Next]_vars
    PROVE  Around \/ Waiting \/ Ending \/ Serving \/ Calling
    BY DEF Next, LoopStep, Around, Waiting, Ending, Serving, Calling

-----------------------------------------------------------------------------
LEMMA InitIInv == Init => IInv
<1> SUFFICES ASSUME Init PROVE IInv
    OBVIOUS
<1>1. TypeOK
    BY DEF Init, TypeOK
<1>2. Pool = {}
    BY DEF Init, Pool
<1>3. PoolInv
    BY <1>2, FS_EmptySet, Descriptors DEF Init, PoolInv, Halting
<1>4. HeldInv /\ BatchInv
    BY DEF Init, HeldInv, BatchInv
<1> QED
    BY <1>1, <1>3, <1>4 DEF Init, IInv, StopMeansAsked, ZeroMeansDrained, Released

LEMMA LeaveType ==
    ASSUME TypeOK, NEW a \in {"0", "EINTR", "error"}, NEW b \in {"0", "EINTR", "error"},
           Leave(a, b)
    PROVE  /\ pc' \in {"stopped", "halted"} /\ batch' \subseteq Fds
           /\ result' \in {"none", "0", "EINTR", "error", "failed"}
           /\ cut' \subseteq Peers
           /\ link' \in [Peers -> {"none", "backlog", "pool"}]
           /\ input' \subseteq Peers /\ eof' \subseteq Peers
    BY DEF Leave, TypeOK, peers, Pool

LEMMA ContinueType ==
    ASSUME TypeOK, NEW fd, NEW pool, Dispatching, Continue(fd, pool)
    PROVE  /\ pc' \in {"dispatch", "halt_dispatch", "wait", "halt_wait", "halted"}
           /\ batch' \subseteq Fds
           /\ result' \in {"none", "0", "EINTR", "error", "failed"}
           /\ cut' \subseteq Peers /\ asked' \in BOOLEAN
    BY DEF Continue, TypeOK, Dispatching

LEMMA TypeStep ==
    ASSUME IInv, [Next]_vars
    PROVE  TypeOK'
<1> USE DEF IInv, proc, peers, events, held
<1>1. CASE Around
    <2>1. ASSUME NEW p \in Peers, peer_connects(p) \/ peer_sends(p) \/ peer_closes(p)
          PROVE  TypeOK'
        BY <2>1 DEF TypeOK, peer_connects, peer_sends, peer_closes
    <2>2. ASSUME NEW s \in Signals, signal(s)
          PROVE  TypeOK'
        BY <2>2 DEF TypeOK, signal
    <2>3. CASE timer_expires \/ process_continued
        BY <2>3 DEF TypeOK, timer_expires, process_continued
    <2>4. CASE UNCHANGED vars
        BY <2>4 DEF TypeOK, vars
    <2> QED
        BY <1>1, <2>1, <2>2, <2>3, <2>4 DEF Around
<1>2. CASE Waiting
    <2>1. batch' \subseteq Fds
        BY <1>2 DEF TypeOK, Waiting, process_timers, process_interrupted, process_wait,
                    halt_wait, Reported, Ready, Pool, Fds
    <2>2. UNCHANGED <<result, asked, cut, sigs, link, input, eof, held>>
        BY <1>2 DEF Waiting, process_timers, process_interrupted, process_wait, halt_wait
    <2>3. pc' \in {"wait", "dispatch", "halt_dispatch"}
        BY <1>2 DEF Waiting, process_timers, process_interrupted, process_wait, halt_wait
    <2>4. due' \in BOOLEAN /\ intr' \in BOOLEAN
        BY <1>2 DEF TypeOK, Waiting, process_timers, process_interrupted, process_wait, halt_wait
    <2> QED
        BY <2>1, <2>2, <2>3, <2>4 DEF TypeOK, Looping, Halting
<1>3. CASE halt_interrupted
    <2>1. Leave("0", "EINTR") /\ UNCHANGED <<asked, sigs, due, held>> /\ intr' = FALSE
        BY <1>3 DEF halt_interrupted
    <2> QED
        BY <2>1, LeaveType DEF TypeOK
<1>4. CASE dispatch_fails
    <2>1. Leave("error", "error") /\ UNCHANGED <<asked, events, held>>
        BY <1>4 DEF dispatch_fails
    <2> QED
        BY <2>1, LeaveType DEF TypeOK
<1>5. CASE hed_srv_dispatch_sigchan
    <2>1. PICK s \in sigs :
              /\ sigs' = sigs \ {s}
              /\ IF s = "TERM"
                 THEN Leave("0", "EINTR") /\ asked' = TRUE
                 ELSE Continue(SigChan, Pool) /\ UNCHANGED peers
        BY <1>5 DEF hed_srv_dispatch_sigchan
    <2>2. Dispatching /\ UNCHANGED <<due, intr, held>>
        BY <1>5 DEF hed_srv_dispatch_sigchan
    <2>3. CASE s = "TERM"
        BY <2>1, <2>2, <2>3, LeaveType DEF TypeOK
    <2>4. CASE s # "TERM"
        <3>1. Continue(SigChan, Pool) /\ UNCHANGED peers
            BY <2>1, <2>4
        <3> QED
            BY <2>1, <2>2, <3>1, ContinueType DEF TypeOK, Looping, Halting
    <2> QED
        BY <2>3, <2>4
<1>6. CASE Serving
    <2>1. /\ Dispatching /\ (\E fd, pool : Continue(fd, pool)) /\ UNCHANGED <<events, held>>
          /\ link' \in [Peers -> {"none", "backlog", "pool"}]
          /\ input' \subseteq Peers /\ eof' \subseteq Peers
        BY <1>6 DEF TypeOK, Serving, dispatch_request, dispatch_close, dispatch_accept,
                    dispatch_refuse, Drop
    <2> QED
        BY <2>1, ContinueType DEF TypeOK, Looping, Halting
<1>7. CASE acquire
    <2>1. pc' \in Opening \cup {"ready"} /\ open' \subseteq Resources
        BY <1>7 DEF TypeOK, acquire, Opening, Following, Resources
    <2> QED
        BY <1>7, <2>1 DEF TypeOK, acquire
<1>8. CASE acquire_fails
    <2>1. Unwound(pc) \subseteq Resources
        BY <1>8 DEF acquire_fails, Unwound, Opening, Resources
    <2> QED
        BY <1>8, <2>1 DEF TypeOK, acquire_fails, Release
<1>9. CASE hed_srv_init \/ hed_srv_conn_init
    BY <1>9 DEF TypeOK, hed_srv_init, hed_srv_conn_init, Opening, Resources
<1>10. CASE hed_srv_run \/ hed_srv_halt
    BY <1>10 DEF TypeOK, hed_srv_run, hed_srv_halt, Looping, Halting
<1>11. CASE hed_srv_fini
    BY <1>11 DEF TypeOK, hed_srv_fini, Release, Resources
<1> QED
    BY <1>1, <1>2, <1>3, <1>4, <1>5, <1>6, <1>7, <1>8, <1>9, <1>10, <1>11, NextCases
       DEF Ending, Calling

-----------------------------------------------------------------------------
Up == {"ready", "stopped", "halted"} \cup Looping \cup Halting

LEMMA HeldUp == \A where \in Up : Held(where) = Resources
    BY DEF Up, Held, Looping, Halting

\* A server that is up stays so until it is closed.
LEMMA StaysUp ==
    ASSUME TypeOK, Waiting \/ Ending \/ Serving \/ hed_srv_run \/ hed_srv_halt
    PROVE  /\ pc \in Up /\ pc' \in Up /\ UNCHANGED held
           /\ result' \in {result, "none", "0", "EINTR", "error"}
<1> USE DEF Up, Looping, Halting
<1>1. CASE Waiting \/ hed_srv_run \/ hed_srv_halt
    BY <1>1 DEF Waiting, process_timers, process_interrupted, process_wait, halt_wait,
                hed_srv_run, hed_srv_halt, proc
<1>2. CASE halt_interrupted \/ dispatch_fails
    BY <1>2 DEF halt_interrupted, dispatch_fails, Leave, Dispatching
<1>3. CASE hed_srv_dispatch_sigchan
    <2>1. \/ Leave("0", "EINTR")
          \/ Continue(SigChan, Pool)
        BY <1>3 DEF hed_srv_dispatch_sigchan
    <2>2. Dispatching /\ UNCHANGED held
        BY <1>3 DEF hed_srv_dispatch_sigchan
    <2> QED
        BY <2>1, <2>2 DEF Leave, Continue, Dispatching
<1>4. CASE Serving
    <2>1. Dispatching /\ (\E fd, pool : Continue(fd, pool)) /\ UNCHANGED held
        BY <1>4 DEF Serving, dispatch_request, dispatch_close, dispatch_accept, dispatch_refuse
    <2> QED
        BY <2>1 DEF Continue, Dispatching
<1> QED
    BY <1>1, <1>2, <1>3, <1>4 DEF Ending

LEMMA HeldStep ==
    ASSUME IInv, [Next]_vars
    PROVE  HeldInv'
<1> USE DEF IInv, held, proc
<1>1. CASE Around
    <2>1. UNCHANGED <<pc, result, open, misclosed>>
        BY <1>1 DEF Around, peer_connects, peer_sends, peer_closes, signal,
                    timer_expires, process_continued, vars
    <2> QED
        BY <2>1 DEF HeldInv, Held
<1>2. CASE Waiting \/ Ending \/ Serving \/ hed_srv_run \/ hed_srv_halt
    <2>1. /\ pc \in Up /\ pc' \in Up /\ UNCHANGED <<open, misclosed>>
          /\ result' \in {result, "none", "0", "EINTR", "error"}
        BY <1>2, StaysUp
    <2>2. Held(pc) = Resources /\ Held(pc') = Resources /\ pc # "off"
        BY <2>1, HeldUp DEF Up, Looping, Halting
    <2> QED
        BY <2>1, <2>2 DEF HeldInv
<1>3. CASE hed_srv_init \/ hed_srv_conn_init
    BY <1>3 DEF HeldInv, Held, hed_srv_init, hed_srv_conn_init
<1>4. CASE acquire
    <2>1. pc \in Opening /\ open = Held(pc) /\ misclosed = {} /\ result # "failed"
        BY <1>4 DEF HeldInv, acquire, Opening
    <2>2. open' = Held(pc')
        BY <1>4, <2>1 DEF acquire, Opening, Held, Following, Resources
    <2> QED
        BY <1>4, <2>1, <2>2 DEF HeldInv, acquire
<1>5. CASE acquire_fails \/ hed_srv_fini
    BY <1>5 DEF HeldInv, acquire_fails, hed_srv_fini
<1> QED
    BY <1>1, <1>2, <1>3, <1>4, <1>5, NextCases DEF Calling

LEMMA ReleasedStep ==
    ASSUME IInv, [Next]_vars
    PROVE  Released'
<1> USE DEF IInv, held, proc
<1>1. CASE Around
    <2>1. UNCHANGED <<pc, result, open, misclosed>>
        BY <1>1 DEF Around, peer_connects, peer_sends, peer_closes, signal,
                    timer_expires, process_continued, vars
    <2> QED
        BY <2>1 DEF Released
<1>2. CASE Waiting \/ Ending \/ Serving \/ hed_srv_run \/ hed_srv_halt
    <2>1. pc' \in Up
        BY <1>2, StaysUp
    <2> QED
        BY <2>1 DEF Released, Up, Looping, Halting
<1>3. CASE hed_srv_init \/ hed_srv_conn_init \/ acquire
    <2>1. pc' # "off"
        BY <1>3 DEF hed_srv_init, hed_srv_conn_init, acquire, Following, Opening
    <2> QED
        BY <2>1 DEF Released
<1>4. CASE acquire_fails
    <2>1. pc \in Opening /\ open = Held(pc) /\ misclosed = {}
        BY <1>4 DEF HeldInv, acquire_fails, Opening
    <2>2. open \ Unwound(pc) \subseteq {"accept"} /\ Unwound(pc) \ open \subseteq {"sig"}
        BY <2>1 DEF Opening, Held, Unwound
    <2> QED
        BY <1>4, <2>1, <2>2 DEF Released, acquire_fails, Release
<1>5. CASE hed_srv_fini
    <2>1. open = Resources /\ misclosed = {} /\ result' # "failed"
        BY <1>5, HeldUp DEF HeldInv, hed_srv_fini, Up
    <2> QED
        BY <1>5, <2>1 DEF Released, hed_srv_fini, Release, Resources
<1> QED
    BY <1>1, <1>2, <1>3, <1>4, <1>5, NextCases DEF Calling

-----------------------------------------------------------------------------
LEMMA RoomLeft ==
    ASSUME IsFiniteSet(Pool), Pool' \subseteq Pool
    PROVE  /\ IsFiniteSet(Pool')
           /\ Cardinality(Pool) \in Nat /\ Cardinality(Pool') \in Nat
           /\ Cardinality(Pool') <= Cardinality(Pool)
    BY FS_Subset, FS_CardinalityType

\* Only the worker of the accepting socket adds to the pool.
LEMMA PoolShrinks ==
    ASSUME TypeOK, [Next]_vars
    PROVE  Pool' \subseteq Pool \/ \E p \in Peers : dispatch_accept(p)
<1>1. CASE Around
    BY <1>1, StillPool, ConnectPool DEF Around, Still
<1>2. CASE Waiting \/ hed_srv_init \/ hed_srv_conn_init \/ acquire \/ hed_srv_run \/ hed_srv_halt
    BY <1>2, StillPool DEF Waiting, Still
<1>3. CASE acquire_fails \/ hed_srv_fini
    BY <1>3, NonePool DEF acquire_fails, hed_srv_fini
<1>4. CASE halt_interrupted \/ dispatch_fails
    BY <1>4, LeavePool DEF halt_interrupted, dispatch_fails
<1>5. CASE hed_srv_dispatch_sigchan
    <2>1. Leave("0", "EINTR") \/ link' = link
        BY <1>5 DEF hed_srv_dispatch_sigchan, peers
    <2> QED
        BY <2>1, LeavePool DEF Pool
<1>6. CASE Serving
    <2>1. ASSUME NEW p \in Peers, dispatch_request(p)
          PROVE  Pool' \subseteq Pool
        BY <2>1, StillPool DEF Still
    <2>2. ASSUME NEW p \in Peers, dispatch_close(p) \/ dispatch_refuse(p)
          PROVE  Pool' \subseteq Pool
        BY <2>2, DropPool DEF dispatch_close, dispatch_refuse
    <2> QED
        BY <1>6, <2>1, <2>2 DEF Serving
<1> QED
    BY <1>1, <1>2, <1>3, <1>4, <1>5, <1>6, NextCases DEF Ending, Calling

LEMMA BatchStep ==
    ASSUME IInv, [Next]_vars
    PROVE  BatchInv'
<1> USE DEF IInv
<1>1. CASE Around \/ process_timers \/ process_interrupted
    <2>1. batch' = batch /\ pc' = pc
        BY <1>1 DEF Around, peer_connects, peer_sends, peer_closes, signal, timer_expires,
                    process_continued, process_timers, process_interrupted, vars, proc
    <2>2. Pool' = Pool
        BY <1>1, StillPool, ConnectPool DEF Around, Still
    <2> QED
        BY <2>1, <2>2 DEF BatchInv, Room, Dispatching
<1>2. CASE process_wait \/ halt_wait
    <2>1. Pool' = Pool
        BY <1>2, StillPool DEF Still
    <2>2. batch' \subseteq Ready
        BY <1>2 DEF process_wait, halt_wait, Reported
    <2>3. batch' \cap Peers \subseteq Pool
        BY <2>2, Descriptors DEF Ready
    <2>4. Listen \in batch' => pc \notin Halting /\ Room
        BY <2>2, Descriptors DEF Ready, Pool
    <2>5. /\ pc \in {"wait", "halt_wait"}
          /\ pc' = IF pc = "wait" THEN "dispatch" ELSE "halt_dispatch"
        BY <1>2 DEF process_wait, halt_wait
    <2> QED
        BY <2>1, <2>3, <2>4, <2>5 DEF BatchInv, Room, Dispatching, Halting
<1>3. CASE Calling
    <2>1. pc \in {"off", "ready", "stopped", "halted"} \cup Opening /\ batch' = batch
        BY <1>3 DEF Calling, hed_srv_init, hed_srv_conn_init, acquire, acquire_fails,
                    hed_srv_run, hed_srv_halt, hed_srv_fini
    <2>2. batch' = {}
        BY <2>1 DEF BatchInv, Dispatching, Opening
    <2> QED
        BY <2>2 DEF BatchInv
<1>4. CASE halt_interrupted \/ dispatch_fails
    <2>1. batch' = {}
        BY <1>4 DEF halt_interrupted, dispatch_fails, Leave
    <2> QED
        BY <2>1 DEF BatchInv
<1>5. CASE hed_srv_dispatch_sigchan
    <2>1. CASE Leave("0", "EINTR")
        BY <2>1 DEF BatchInv, Leave
    <2>2. CASE Continue(SigChan, Pool) /\ UNCHANGED peers
        <3>1. Pool' = Pool
            BY <2>2 DEF Pool, peers
        <3>2. Dispatching /\ batch' \subseteq batch /\ (pc' = pc \/ batch' = {})
            BY <1>5, <2>2, ContinuePc DEF hed_srv_dispatch_sigchan
        <3> QED
            BY <3>1, <3>2 DEF BatchInv, Room, Dispatching
    <2> QED
        BY <1>5, <2>1, <2>2 DEF hed_srv_dispatch_sigchan
<1>6. CASE Serving
    <2>1. ASSUME NEW p \in Peers, dispatch_request(p)
          PROVE  BatchInv'
        <3>1. Pool' = Pool
            BY <2>1, StillPool DEF Still
        <3>2. Dispatching /\ batch' \subseteq batch /\ (pc' = pc \/ batch' = {})
            BY <2>1, ContinuePc DEF dispatch_request
        <3> QED
            BY <3>1, <3>2 DEF BatchInv, Room, Dispatching
    <2>2. ASSUME NEW p \in Peers, dispatch_close(p)
          PROVE  BatchInv'
        <3>1. Pool' = Pool \ {p}
            BY <2>2, DropPool DEF dispatch_close
        <3>2. Dispatching /\ batch' = batch \ {p} /\ (pc' = pc \/ batch' = {})
            BY <2>2, ContinuePc DEF dispatch_close
        <3>3. Room => Room'
            BY <3>1, RoomLeft, Descriptors DEF Room, PoolInv
        <3> QED
            BY <3>1, <3>2, <3>3 DEF BatchInv, Dispatching
    <2>3. ASSUME NEW p \in Peers, dispatch_accept(p)
          PROVE  BatchInv'
        <3>1. Pool' = Pool \cup {p}
            BY <2>3, AcceptPool
        <3>2. Dispatching /\ batch' = batch \ {Listen} /\ (pc' = pc \/ batch' = {})
            BY <2>3, ContinuePc DEF dispatch_accept
        <3> QED
            BY <3>1, <3>2 DEF BatchInv, Dispatching
    <2>4. ASSUME NEW p \in Peers, dispatch_refuse(p)
          PROVE  BatchInv'
        <3>1. Pool' = Pool
            BY <2>4, DropPool DEF dispatch_refuse, Pool
        <3>2. Dispatching /\ batch' = batch \ {Listen} /\ (pc' = pc \/ batch' = {})
            BY <2>4, ContinuePc DEF dispatch_refuse
        <3> QED
            BY <3>1, <3>2 DEF BatchInv, Dispatching
    <2> QED
        BY <1>6, <2>1, <2>2, <2>3, <2>4 DEF Serving
<1> QED
    BY <1>1, <1>2, <1>3, <1>4, <1>5, <1>6, NextCases DEF Waiting, Ending

LEMMA PoolStep ==
    ASSUME IInv, [Next]_vars
    PROVE  PoolInv'
<1> USE DEF IInv
<1>1. IsFiniteSet(Pool') /\ Cardinality(Pool') <= ConnNr
    <2>1. CASE Pool' \subseteq Pool
        BY <2>1, RoomLeft, Descriptors DEF PoolInv
    <2>2. ASSUME NEW p \in Peers, dispatch_accept(p)
          PROVE  IsFiniteSet(Pool') /\ Cardinality(Pool') <= ConnNr
        <3>1. Pool' = Pool \cup {p} /\ p \notin Pool /\ Listen \in batch
            BY <2>2, AcceptPool DEF dispatch_accept
        <3>2. IsFiniteSet(Pool) /\ Cardinality(Pool) \in Nat /\ Cardinality(Pool) < ConnNr
            BY <3>1, FS_CardinalityType DEF PoolInv, BatchInv, Room
        <3>3. IsFiniteSet(Pool \cup {p}) /\ Cardinality(Pool \cup {p}) = Cardinality(Pool) + 1
            BY <3>1, <3>2, FS_AddElement
        <3> QED
            BY <3>1, <3>2, <3>3, Descriptors
    <2> QED
        BY <2>1, <2>2, PoolShrinks
<1>2. pc' \in {"off", "halted"} \cup Opening => Pool' = {}
    <2>1. CASE Around
        <3>1. pc' = pc
            BY <2>1 DEF Around, peer_connects, peer_sends, peer_closes, signal,
                        timer_expires, process_continued, vars, proc
        <3>2. Pool' = Pool
            BY <2>1, StillPool, ConnectPool DEF Around, Still
        <3> QED
            BY <3>1, <3>2 DEF PoolInv
    <2>2. CASE Waiting
        BY <2>2 DEF Waiting, process_timers, process_interrupted, process_wait, halt_wait,
                    proc, Opening
    <2>3. CASE halt_interrupted \/ dispatch_fails
        BY <2>3, LeavePool DEF halt_interrupted, dispatch_fails, Opening
    <2>4. CASE hed_srv_dispatch_sigchan
        <3>1. CASE Leave("0", "EINTR")
            BY <3>1, LeavePool DEF Opening
        <3>2. CASE Continue(SigChan, Pool) /\ UNCHANGED peers
            <4>1. Pool' = Pool
                BY <3>2 DEF Pool, peers
            <4> QED
                BY <2>4, <3>2, <4>1, ContinuePc
                   DEF hed_srv_dispatch_sigchan, Dispatching, Opening
        <3> QED
            BY <2>4, <3>1, <3>2 DEF hed_srv_dispatch_sigchan
    <2>5. ASSUME NEW p \in Peers, dispatch_request(p)
          PROVE  pc' \notin {"off", "halted"} \cup Opening
        <3>1. Dispatching /\ p \in batch /\ Continue(p, Pool)
            BY <2>5 DEF dispatch_request
        <3>2. p \in Pool
            BY <3>1 DEF BatchInv
        <3> QED
            BY <3>1, <3>2, ContinuePc DEF Dispatching, Opening
    <2>6. ASSUME NEW p \in Peers, dispatch_close(p)
          PROVE  pc' \in {"off", "halted"} \cup Opening => Pool' = {}
        <3>1. Dispatching /\ Continue(p, Pool \ {p}) /\ Pool' = Pool \ {p}
            BY <2>6, DropPool DEF dispatch_close
        <3> QED
            BY <3>1, ContinuePc DEF Dispatching, Opening
    <2>7. ASSUME NEW p \in Peers, dispatch_accept(p) \/ dispatch_refuse(p)
          PROVE  pc' \notin {"off", "halted"} \cup Opening
        <3>1. Listen \in batch /\ \E pool : Continue(Listen, pool)
            BY <2>7 DEF dispatch_accept, dispatch_refuse
        <3>2. pc = "dispatch" /\ Dispatching
            BY <3>1 DEF BatchInv, Dispatching
        <3> QED
            BY <3>1, <3>2, ContinuePc DEF Opening
    <2>8. CASE acquire \/ hed_srv_init \/ hed_srv_conn_init
        <3>1. Pool' = Pool
            BY <2>8, StillPool DEF Still
        <3>2. pc \in {"off"} \cup Opening
            BY <2>8 DEF acquire, hed_srv_init, hed_srv_conn_init
        <3> QED
            BY <3>1, <3>2 DEF PoolInv
    <2>9. CASE hed_srv_run \/ hed_srv_halt
        <3>1. Pool' = Pool
            BY <2>9, StillPool DEF Still
        <3> QED
            BY <2>9, <3>1 DEF hed_srv_run, hed_srv_halt, Opening
    <2>10. CASE acquire_fails \/ hed_srv_fini
        BY <2>10, NonePool DEF acquire_fails, hed_srv_fini
    <2> QED
        BY <2>1, <2>2, <2>3, <2>4, <2>5, <2>6, <2>7, <2>8, <2>9, <2>10, NextCases
           DEF Ending, Serving, Calling
<1>3. pc' \in Halting => cut' = {}
    <2>1. CASE Around \/ Waiting
        <3>1. cut' = cut /\ (pc' \in Halting => pc \in Halting)
            BY <2>1 DEF Around, peer_connects, peer_sends, peer_closes, signal,
                        timer_expires, process_continued, vars, proc, Halting,
                        Waiting, process_timers, process_interrupted, process_wait, halt_wait
        <3> QED
            BY <3>1 DEF PoolInv
    <2>2. CASE halt_interrupted \/ dispatch_fails
        BY <2>2, LeavePool DEF halt_interrupted, dispatch_fails, Halting
    <2>3. CASE Serving \/ hed_srv_dispatch_sigchan
        <3>1. Dispatching /\ (Leave("0", "EINTR") \/ \E fd, pool : Continue(fd, pool))
            BY <2>3 DEF Serving, dispatch_request, dispatch_close, dispatch_accept,
                        dispatch_refuse, hed_srv_dispatch_sigchan
        <3>2. ASSUME NEW fd, NEW pool, Continue(fd, pool)
              PROVE  pc' \in Halting => cut' = {}
            BY <3>1, <3>2, ContinuePc DEF PoolInv, Dispatching, Halting
        <3> QED
            BY <3>1, <3>2, LeavePool DEF Halting
    <2>4. CASE Calling
        BY <2>4 DEF Calling, hed_srv_init, hed_srv_conn_init, acquire, acquire_fails,
                    hed_srv_run, hed_srv_halt, hed_srv_fini, Halting, Opening, Following
    <2> QED
        BY <2>1, <2>2, <2>3, <2>4, NextCases DEF Ending
<1> QED
    BY <1>1, <1>2, <1>3 DEF PoolInv

-----------------------------------------------------------------------------
LEMMA StopStep ==
    ASSUME IInv, [Next]_vars
    PROVE  StopMeansAsked'
<1> USE DEF IInv
<1>1. CASE Around
    BY <1>1 DEF Around, peer_connects, peer_sends, peer_closes, signal, timer_expires,
                process_continued, vars, proc, StopMeansAsked
<1>2. CASE Waiting \/ Calling
    <2>1. pc' # "stopped"
        BY <1>2 DEF Waiting, process_timers, process_interrupted, process_wait, halt_wait, proc,
                    Calling, hed_srv_init, hed_srv_conn_init, acquire, acquire_fails,
                    hed_srv_run, hed_srv_halt, hed_srv_fini, Opening, Following
    <2> QED
        BY <2>1 DEF StopMeansAsked
<1>3. CASE Ending
    <2>1. ASSUME Leave("0", "EINTR"), asked' = TRUE
          PROVE  StopMeansAsked'
        BY <2>1 DEF StopMeansAsked
    <2>2. CASE dispatch_fails
        BY <2>2, LeavePool DEF dispatch_fails, StopMeansAsked
    <2>3. CASE halt_interrupted
        BY <2>3, LeavePool DEF halt_interrupted, StopMeansAsked, Looping
    <2>4. CASE hed_srv_dispatch_sigchan
        <3>1. CASE Continue(SigChan, Pool)
            BY <2>4, <3>1, ContinuePc DEF hed_srv_dispatch_sigchan, StopMeansAsked, Dispatching
        <3> QED
            BY <2>1, <2>4, <3>1 DEF hed_srv_dispatch_sigchan
    <2> QED
        BY <1>3, <2>2, <2>3, <2>4 DEF Ending
<1>4. CASE Serving
    <2>1. Dispatching /\ \E fd, pool : Continue(fd, pool)
        BY <1>4 DEF Serving, dispatch_request, dispatch_close, dispatch_accept, dispatch_refuse
    <2> QED
        BY <2>1, ContinuePc DEF StopMeansAsked, Dispatching
<1> QED
    BY <1>1, <1>2, <1>3, <1>4, NextCases

LEMMA ZeroStep ==
    ASSUME IInv, [Next]_vars
    PROVE  ZeroMeansDrained'
<1> USE DEF IInv
<1>1. CASE Around
    BY <1>1 DEF Around, peer_connects, peer_sends, peer_closes, signal, timer_expires,
                process_continued, vars, proc, ZeroMeansDrained
<1>2. CASE Waiting \/ hed_srv_init \/ hed_srv_conn_init \/ acquire \/ acquire_fails
           \/ hed_srv_run \/ hed_srv_fini
    <2>1. pc' # "halted"
        BY <1>2 DEF Waiting, process_timers, process_interrupted, process_wait, halt_wait, proc,
                    hed_srv_init, hed_srv_conn_init, acquire, acquire_fails,
                    hed_srv_run, hed_srv_fini, Opening, Following
    <2> QED
        BY <2>1 DEF ZeroMeansDrained
<1>3. CASE hed_srv_halt
    BY <1>3 DEF hed_srv_halt, ZeroMeansDrained
<1>4. CASE Ending
    <2>1. CASE dispatch_fails
        BY <2>1, LeavePool DEF dispatch_fails, ZeroMeansDrained
    <2>2. CASE Leave("0", "EINTR")
        BY <2>2, LeavePool DEF ZeroMeansDrained
    <2>3. CASE hed_srv_dispatch_sigchan /\ Continue(SigChan, Pool)
        <3>1. Dispatching
            BY <2>3 DEF hed_srv_dispatch_sigchan
        <3> QED
            BY <2>3, <3>1, ContinuePc DEF ZeroMeansDrained, Dispatching, PoolInv, Halting
    <2> QED
        BY <1>4, <2>1, <2>2, <2>3 DEF Ending, halt_interrupted, hed_srv_dispatch_sigchan
<1>5. CASE Serving
    <2>1. Dispatching /\ \E fd, pool : Continue(fd, pool)
        BY <1>5 DEF Serving, dispatch_request, dispatch_close, dispatch_accept, dispatch_refuse
    <2> QED
        BY <2>1, ContinuePc DEF ZeroMeansDrained, Dispatching, PoolInv, Halting
<1> QED
    BY <1>1, <1>2, <1>3, <1>4, <1>5, NextCases DEF Calling

-----------------------------------------------------------------------------
\* The inductive invariant holds whatever clients, signals and timers do.
THEOREM Invariance == Spec => []IInv
<1>1. Init => IInv
    BY InitIInv
<1>2. IInv /\ [Next]_vars => IInv'
    BY TypeStep, HeldStep, BatchStep, PoolStep, StopStep, ZeroStep, ReleasedStep DEF IInv
<1> QED
    BY <1>1, <1>2, PTL DEF Spec

\* Every variable keeps its type; in particular hed_srv_halt returns 0, -EINTR
\* or an error, never -ESHUTDOWN (server.c:269-273).
THEOREM TypeCorrect == Spec => []TypeOK
<1>1. IInv => TypeOK
    BY DEF IInv
<1> QED
    BY <1>1, Invariance, PTL

\* hed_srv_run returns 0 for a signal to terminate, and for nothing else
\* (server.c:238-246).
THEOREM StopIsAsked == Spec => []StopMeansAsked
<1>1. IInv => StopMeansAsked
    BY DEF IInv
<1> QED
    BY <1>1, Invariance, PTL

\* hed_srv_halt that returns 0 has cut nobody off (server.c:258-273).
THEOREM DrainIsClean == Spec => []ZeroMeansDrained
<1>1. IInv => ZeroMeansDrained
    BY DEF IInv
<1> QED
    BY <1>1, Invariance, PTL

\* Init functions that fail, and hed_srv_fini, close what was opened, once, but
\* for the two known faults (server.c:145-160, 195-206, 277-287).
THEOREM ResourcesReleased == Spec => []Released
<1>1. IInv => Released
    BY DEF IInv
<1> QED
    BY <1>1, Invariance, PTL

\* ConnNr + 1 events are enough for a pool of any size, the signal channel and
\* the accepting socket, as this is not polled when the pool is full
\* (server.c:132, 182).
THEOREM WaitHasRoom == Spec => []EventsFit
<1>1. ASSUME IInv PROVE EventsFit
    <2> DEFINE socket == IF Room THEN {Listen} ELSE {}
    <2>1. /\ IsFiniteSet(Pool) /\ Cardinality(Pool) \in Nat /\ Cardinality(Pool) <= ConnNr
          /\ Listen \notin Pool /\ SigChan \notin Pool
        BY <1>1, FS_CardinalityType, Descriptors DEF IInv, PoolInv, Pool
    <2>2. /\ IsFiniteSet(Pool \cup socket)
          /\ Cardinality(Pool \cup socket) \in Nat
          /\ Cardinality(Pool \cup socket) <= ConnNr
          /\ SigChan \notin Pool \cup socket
        <3>1. CASE Room
            BY <2>1, <3>1, FS_AddElement, Descriptors DEF Room
        <3>2. CASE ~Room
            BY <2>1, <3>2
        <3> QED
            BY <3>1, <3>2
    <2> HIDE DEF socket
    <2> DEFINE all == (Pool \cup socket) \cup {SigChan}
    <2>3. IsFiniteSet(all) /\ Cardinality(all) = Cardinality(Pool \cup socket) + 1
        BY <2>2, FS_AddElement
    <2>4. Ready \subseteq all
        BY DEF Ready, socket
    <2>5. Cardinality(Ready) <= Cardinality(all) /\ Cardinality(Ready) \in Nat
        BY <2>3, <2>4, FS_Subset, FS_CardinalityType
    <2> QED
        BY <2>2, <2>3, <2>5, Descriptors DEF EventsFit
<1> QED
    BY <1>1, Invariance, PTL

\* Nobody joins the pool of a server that halts (server.c:258-268).
THEOREM HaltOnlyDrains == Spec => HaltDrains
<1>1. ASSUME IInv, [Next]_vars
      PROVE  [(pc \in Halting) => (Pool' \subseteq Pool)]_vars
    <2>1. ASSUME NEW p \in Peers, dispatch_accept(p) PROVE pc \notin Halting
        BY <1>1, <2>1 DEF IInv, BatchInv, dispatch_accept, Halting
    <2> QED
        BY <1>1, <2>1, PoolShrinks DEF IInv
<1> QED
    BY <1>1, Invariance, PTL DEF Spec, HaltDrains

=============================================================================
