---------------------------- MODULE ServiceProofs ----------------------------
(***************************************************************************)
(* The server implements Service with any number of clients and a pool of  *)
(* any size.                                                               *)
(***************************************************************************)
EXTENDS ServerProofs

Serves == [Abstract!Next]_(Abstract!vars)

\* What the abstract service sees of requests and of signals.
Asking == input \cap Pool
Told == "TERM" \in sigs

LEMMA Phases ==
    /\ pc \in {"off"} \cup Opening => Phase = "down"
    /\ pc \in {"ready", "stopped"} => Phase = "idle"
    /\ pc \in Looping => Phase = "running"
    /\ pc \in Halting => Phase = "draining"
    /\ pc = "halted" => Phase = "drained"
    BY DEF Phase, Opening, Looping, Halting

LEMMA NextPhases ==
    /\ pc' \in {"off"} \cup Opening => Phase' = "down"
    /\ pc' \in {"ready", "stopped"} => Phase' = "idle"
    /\ pc' \in Looping => Phase' = "running"
    /\ pc' \in Halting => Phase' = "draining"
    /\ pc' = "halted" => Phase' = "drained"
    BY DEF Phase, Opening, Looping, Halting

LEMMA Unseen ==
    ASSUME UNCHANGED <<Phase, Pool, Asking, Told, result>>
    PROVE  Serves
    BY DEF Serves, Abstract!vars, Asking, Told

-----------------------------------------------------------------------------
LEMMA AroundServes ==
    ASSUME IInv, Around
    PROVE  Serves
<1> USE DEF proc, peers, events, held
<1>1. UNCHANGED <<pc, Phase, Pool, result>>
    <2>1. UNCHANGED <<pc, result>>
        BY DEF Around, peer_connects, peer_sends, peer_closes, signal, timer_expires,
               process_continued, vars
    <2>2. Pool' = Pool
        BY StillPool, ConnectPool DEF Around, Still, IInv
    <2> QED
        BY <2>1, <2>2 DEF Phase
<1>2. ASSUME NEW p \in Peers, peer_sends(p)
      PROVE  Serves
    <2>1. input' = input \cup {p} /\ UNCHANGED sigs
        BY <1>2 DEF peer_sends
    <2>2. CASE p \in Pool
        <3>1. Asking' = Asking \cup {p} /\ Told' = Told
            BY <1>1, <2>1, <2>2 DEF Asking, Told
        <3>2. Abstract!Ask(p)
            BY <1>1, <2>2, <3>1 DEF Abstract!Ask, Asking, Told
        <3> QED
            BY <3>2 DEF Serves, Abstract!Next
    <2>3. CASE p \notin Pool
        BY <1>1, <2>1, <2>3, Unseen DEF Asking, Told
    <2> QED
        BY <2>2, <2>3
<1>3. ASSUME NEW s \in Signals, signal(s)
      PROVE  Serves
    <2>1. sigs' = sigs \cup {s} /\ UNCHANGED input
        BY <1>3 DEF signal
    <2>2. CASE s = "TERM"
        <3>1. Told' = TRUE /\ Asking' = Asking
            BY <1>1, <2>1, <2>2 DEF Asking, Told
        <3>2. Abstract!Tell
            BY <1>1, <3>1 DEF Abstract!Tell, Asking, Told
        <3> QED
            BY <3>2 DEF Serves, Abstract!Next
    <2>3. CASE s # "TERM"
        BY <1>1, <2>1, <2>3, Unseen DEF Asking, Told
    <2> QED
        BY <2>2, <2>3
<1>4. CASE UNCHANGED <<input, sigs>>
    BY <1>1, <1>4, Unseen DEF Asking, Told
<1> QED
    BY <1>2, <1>3, <1>4
       DEF Around, peer_connects, peer_closes, timer_expires, process_continued, vars

LEMMA WaitingServes ==
    ASSUME IInv, Waiting
    PROVE  Serves
<1>1. UNCHANGED <<Pool, input, sigs, result>>
    BY StillPool DEF Still, Waiting, process_timers, process_interrupted, process_wait,
       halt_wait, proc, peers
<1>2. (pc \in Looping /\ pc' \in Looping) \/ (pc \in Halting /\ pc' \in Halting)
    BY DEF Waiting, process_timers, process_interrupted, process_wait, halt_wait, proc,
           Looping, Halting
<1> QED
    BY <1>1, <1>2, Phases, NextPhases, Unseen DEF Asking, Told

LEMMA CallingServes ==
    ASSUME IInv, Calling
    PROVE  Serves
<1> USE DEF proc, peers, events, held
<1>1. CASE hed_srv_init \/ hed_srv_conn_init
    <2>1. UNCHANGED <<Pool, input, sigs>> /\ result' = "none"
        BY <1>1, StillPool DEF Still, hed_srv_init, hed_srv_conn_init
    <2>2. Phase = "down" /\ Phase' = "down"
        BY <1>1, Phases, NextPhases DEF hed_srv_init, hed_srv_conn_init, Opening
    <2>3. Abstract!Start
        BY <2>1, <2>2 DEF Abstract!Start
    <2> QED
        BY <2>3 DEF Serves, Abstract!Next
<1>2. CASE acquire
    <2>1. UNCHANGED <<Pool, input, sigs, result>>
        BY <1>2, StillPool DEF Still, acquire
    <2>2. pc \in Opening /\ pc' \in Opening \cup {"ready"}
        BY <1>2 DEF acquire, Opening, Following
    <2>3. Phase = "down" /\ Phase' \in {"down", "idle"}
        BY <2>2, Phases, NextPhases
    <2>4. CASE Phase' = "idle"
        <3>1. Abstract!Start
            BY <2>1, <2>3, <2>4 DEF Abstract!Start
        <3> QED
            BY <3>1 DEF Serves, Abstract!Next
    <2>5. CASE Phase' = "down"
        BY <2>1, <2>3, <2>5, Unseen DEF Asking, Told
    <2> QED
        BY <2>3, <2>4, <2>5
<1>3. CASE acquire_fails
    <2>1. pc \in Opening /\ pc' = "off" /\ UNCHANGED sigs /\ result' = "failed"
        BY <1>3 DEF acquire_fails
    <2>2. Pool = {} /\ Pool' = {}
        BY <1>3, <2>1, NonePool DEF IInv, PoolInv, acquire_fails
    <2>3. Phase = "down" /\ Phase' = "down"
        BY <2>1, Phases, NextPhases
    <2>4. Abstract!Start
        BY <2>1, <2>2, <2>3 DEF Abstract!Start
    <2> QED
        BY <2>4 DEF Serves, Abstract!Next
<1>4. CASE hed_srv_run
    <2>1. UNCHANGED <<Pool, input, sigs>> /\ result' = "none"
        BY <1>4, StillPool DEF Still, hed_srv_run
    <2>2. Phase = "idle" /\ Phase' = "running"
        BY <1>4, Phases, NextPhases DEF hed_srv_run, Looping
    <2>3. Abstract!Run
        BY <2>1, <2>2 DEF Abstract!Run
    <2> QED
        BY <2>3 DEF Serves, Abstract!Next
<1>5. CASE hed_srv_halt
    <2>1. UNCHANGED <<Pool, input, sigs>>
        BY <1>5, StillPool DEF Still, hed_srv_halt
    <2>2. Phase = "idle" /\ Phase' = IF Pool = {} THEN "drained" ELSE "draining"
        BY <1>5, Phases, NextPhases DEF hed_srv_halt, Halting
    <2>3. Abstract!Drain
        BY <1>5, <2>1, <2>2 DEF Abstract!Drain, hed_srv_halt
    <2> QED
        BY <2>3 DEF Serves, Abstract!Next
<1>6. CASE hed_srv_fini
    <2>1. pc = "halted" /\ pc' = "off" /\ UNCHANGED <<sigs, result>>
        BY <1>6 DEF hed_srv_fini
    <2>2. Pool = {} /\ Pool' = {}
        BY <1>6, <2>1, NonePool DEF IInv, PoolInv, hed_srv_fini
    <2>3. Phase = "drained" /\ Phase' = "down"
        BY <2>1, Phases, NextPhases
    <2>4. Abstract!Close
        BY <2>1, <2>2, <2>3 DEF Abstract!Close
    <2> QED
        BY <2>4 DEF Serves, Abstract!Next
<1> QED
    BY <1>1, <1>2, <1>3, <1>4, <1>5, <1>6 DEF Calling

-----------------------------------------------------------------------------
\* The loop fails or obeys; the halt cuts off who is left.
LEMMA LeaveServes ==
    ASSUME IInv, NEW a, NEW b \in {"EINTR", "error"}, Leave(a, b),
           pc \in Looping \cup Halting,
           \/ pc \in Looping /\ a = "0" /\ Told /\ Told' = FALSE
           \/ pc \in Looping /\ a = "error" /\ Told' = Told
           \/ pc \in Halting /\ Told' \in {Told, FALSE}
    PROVE  Serves
<1>1. CASE pc \in Looping
    <2>1. Pool' = Pool /\ pc' = "stopped" /\ result' = a /\ input' = input
        BY <1>1, LeavePool DEF IInv, Leave, peers
    <2>2. Phase = "running" /\ Phase' = "idle"
        BY <1>1, <2>1, Phases, NextPhases
    <2>3. pc \notin Halting
        BY <1>1 DEF Looping, Halting
    <2>4. CASE a = "0" /\ Told /\ Told' = FALSE
        <3>1. Abstract!Obey
            BY <2>1, <2>2, <2>4 DEF Abstract!Obey, Told
        <3> QED
            BY <3>1 DEF Serves, Abstract!Next
    <2>5. CASE a = "error" /\ Told' = Told
        <3>1. Abstract!Fail
            BY <2>1, <2>2, <2>5 DEF Abstract!Fail, Told
        <3> QED
            BY <3>1 DEF Serves, Abstract!Next
    <2> QED
        BY <2>3, <2>4, <2>5
<1>2. CASE pc \in Halting
    <2>1. pc \notin Looping
        BY <1>2 DEF Looping, Halting
    <2>2. Pool' = {} /\ pc' = "halted" /\ result' = b
        BY <2>1, LeavePool DEF IInv
    <2>3. Phase = "draining" /\ Phase' = "drained"
        BY <1>2, <2>2, Phases, NextPhases
    <2>4. Told' \in {Told, FALSE}
        BY <2>1
    <2>5. Abstract!Cut
        BY <2>2, <2>3, <2>4 DEF Abstract!Cut, Told
    <2> QED
        BY <2>5 DEF Serves, Abstract!Next
<1> QED
    BY <1>1, <1>2

LEMMA EndingServes ==
    ASSUME IInv, Ending
    PROVE  Serves
<1>1. CASE halt_interrupted
    <2>1. pc \in Halting /\ Told' = Told /\ Leave("0", "EINTR")
        BY <1>1 DEF halt_interrupted, Halting, Told
    <2>2. Told' \in {Told, FALSE} /\ pc \in Looping \cup Halting
        BY <2>1
    <2> QED
        BY <2>1, <2>2, LeaveServes
<1>2. CASE dispatch_fails
    <2>1. pc \in Looping \cup Halting /\ Told' = Told /\ Leave("error", "error")
        BY <1>2 DEF dispatch_fails, Dispatching, Looping, Halting, Told, events
    <2>2. Told' \in {Told, FALSE}
        BY <2>1
    <2> QED
        BY <2>1, <2>2, LeaveServes
<1>3. CASE hed_srv_dispatch_sigchan
    <2>1. PICK s \in sigs :
              /\ sigs' = sigs \ {s}
              /\ IF s = "TERM"
                 THEN Leave("0", "EINTR") /\ asked' = TRUE
                 ELSE Continue(SigChan, Pool) /\ UNCHANGED peers
        BY <1>3 DEF hed_srv_dispatch_sigchan
    <2>2. Dispatching /\ pc \in Looping \cup Halting
        BY <1>3 DEF hed_srv_dispatch_sigchan, Dispatching, Looping, Halting
    <2>3. CASE s = "TERM"
        <3>1. Told /\ Told' = FALSE /\ Leave("0", "EINTR")
            BY <2>1, <2>3 DEF Told
        <3> QED
            BY <2>2, <3>1, LeaveServes
    <2>4. CASE s # "TERM"
        <3>1. Continue(SigChan, Pool) /\ UNCHANGED <<Pool, input>> /\ Told' = Told
            BY <2>1, <2>4 DEF Told, peers, Pool
        <3>2. CASE pc' = "halted" /\ pc = "halt_dispatch"
            <4>1. Pool = {} /\ result' = "0"
                BY <2>2, <3>1, <3>2, ContinuePc
            <4>2. Phase = "draining" /\ Phase' = "drained"
                BY <3>2, Phases, NextPhases DEF Halting
            <4>3. Abstract!Finish
                BY <3>1, <4>1, <4>2 DEF Abstract!Finish, Told
            <4> QED
                BY <4>3 DEF Serves, Abstract!Next
        <3>3. CASE ~(pc' = "halted" /\ pc = "halt_dispatch")
            <4>1. /\ result' = result
                  /\ (pc \in Looping /\ pc' \in Looping) \/ (pc \in Halting /\ pc' \in Halting)
                BY <2>2, <3>1, <3>3, ContinuePc DEF Dispatching, Looping, Halting
            <4> QED
                BY <3>1, <4>1, Phases, NextPhases, Unseen DEF Asking
        <3> QED
            BY <3>2, <3>3
    <2> QED
        BY <2>3, <2>4
<1> QED
    BY <1>1, <1>2, <1>3 DEF Ending

LEMMA ServingServes ==
    ASSUME IInv, Serving
    PROVE  Serves
<1>1. /\ Dispatching /\ (\E fd, pool : Continue(fd, pool))
      /\ pc \in Looping \cup Halting /\ Told' = Told
    BY DEF Serving, dispatch_request, dispatch_close, dispatch_accept, dispatch_refuse,
           Dispatching, Looping, Halting, Told, events
\* Unless the halt is over, the phase stays.
<1>2. pc' # "halted" => Phase' = Phase /\ result' = result /\ Phase \in {"running", "draining"}
    <2>1. pc' # "halted" =>
              /\ result' = result
              /\ (pc \in Looping /\ pc' \in Looping) \/ (pc \in Halting /\ pc' \in Halting)
        BY <1>1, ContinuePc DEF Dispatching, Looping, Halting
    <2> QED
        BY <2>1, Phases, NextPhases
<1>3. pc' = "halted" => Phase = "draining" /\ Phase' = "drained" /\ result' = "0"
    BY <1>1, ContinuePc, Phases, NextPhases DEF Dispatching, Halting
<1>4. ASSUME NEW p \in Peers, dispatch_request(p)
      PROVE  Serves
    <2>1. /\ Continue(p, Pool) /\ p \in batch /\ p \in input
          /\ input' = input \ {p}
        BY <1>4 DEF dispatch_request
    <2>2. p \in Pool /\ Pool' = Pool
        BY <1>4, <2>1, StillPool DEF IInv, BatchInv, Still
    <2>3. pc' # "halted"
        BY <1>1, <2>1, <2>2, ContinuePc DEF Dispatching
    <2>4. Asking' = Asking \ {p} /\ p \in Asking
        BY <2>1, <2>2 DEF Asking
    <2>5. Abstract!Answer(p)
        BY <1>1, <1>2, <2>2, <2>3, <2>4 DEF Abstract!Answer, Asking, Told
    <2> QED
        BY <2>5 DEF Serves, Abstract!Next
<1>5. ASSUME NEW p \in Peers, dispatch_close(p)
      PROVE  Serves
    <2>1. /\ Continue(p, Pool \ {p}) /\ p \in batch /\ Drop(p)
          /\ input' = input \ {p}
        BY <1>5 DEF dispatch_close, Drop
    <2>2. p \in Pool /\ Pool' = Pool \ {p}
        BY <2>1, DropPool DEF IInv, BatchInv
    <2>3. Asking' = Asking \ {p}
        BY <2>1, <2>2 DEF Asking
    <2>4. pc' = "halted" => Pool' = {}
        BY <1>1, <2>1, <2>2, ContinuePc DEF Dispatching
    <2>5. Abstract!End(p)
        BY <1>1, <1>2, <1>3, <2>2, <2>3, <2>4 DEF Abstract!End, Asking, Told
    <2> QED
        BY <2>5 DEF Serves, Abstract!Next
<1>6. ASSUME NEW p \in Peers, dispatch_accept(p) \/ dispatch_refuse(p)
      PROVE  pc = "dispatch" /\ pc' \in Looping /\ Phase = "running" /\ Room
    <2>1. Listen \in batch
        BY <1>6 DEF dispatch_accept, dispatch_refuse
    <2>2. pc = "dispatch" /\ Room
        BY <2>1 DEF IInv, BatchInv
    <2> QED
        BY <1>1, <2>2, ContinuePc, Phases DEF Looping
<1>7. ASSUME NEW p \in Peers, dispatch_accept(p)
      PROVE  Serves
    <2>1. p \notin Pool /\ Pool' = Pool \cup {p} /\ input' = input
        BY <1>7, AcceptPool DEF IInv, dispatch_accept
    <2>2. pc' # "halted" /\ Phase = "running" /\ Room
        BY <1>6, <1>7 DEF Looping
    <2>3. Asking' \in {Asking, Asking \cup {p}}
        BY <2>1 DEF Asking
    <2>4. /\ Phase = "running" /\ Phase' = Phase /\ result' = result
          /\ Cardinality(Pool) < ConnNr /\ Told' = Told
        BY <1>1, <1>2, <2>2 DEF Room
    <2>5. Cardinality(Pool) = Abstract!Cardinality(Pool)
        BY DEF Cardinality, Abstract!Cardinality
    <2>6. Abstract!Admit(p)
        BY <2>1, <2>3, <2>4, <2>5 DEF Abstract!Admit, Asking, Told
    <2> QED
        BY <2>6 DEF Serves, Abstract!Next
<1>8. ASSUME NEW p \in Peers, dispatch_refuse(p)
      PROVE  Serves
    <2>1. Drop(p) /\ link[p] = "backlog" /\ input' = input \ {p}
        BY <1>8 DEF dispatch_refuse, Drop
    <2>2. Pool' = Pool /\ p \notin Pool
        BY <2>1, DropPool DEF IInv, Pool
    <2>3. Asking' = Asking
        BY <2>1, <2>2 DEF Asking
    <2>4. pc' # "halted"
        BY <1>6, <1>8 DEF Looping
    <2> QED
        BY <1>1, <1>2, <2>2, <2>3, <2>4, Unseen
<1> QED
    BY <1>4, <1>5, <1>7, <1>8 DEF Serving

-----------------------------------------------------------------------------
\* The program that calls the server and its clients see the abstract service
\* and nothing else: at most ConnNr sessions, admitted only while it runs; a
\* run that ends with 0 only when it was told to; a drain that says 0 only when
\* it cut nobody off (server.c:209-274).
THEOREM ServiceImplemented == Spec => ImplementsService
<1>1. Init => Abstract!Init
    <2> SUFFICES ASSUME Init PROVE Abstract!Init
        OBVIOUS
    <2>1. Phase = "down" /\ Pool = {}
        BY Phases DEF Init, Pool
    <2> QED
        BY <2>1 DEF Init, Abstract!Init
<1>2. IInv /\ [Next]_vars => [Abstract!Next]_(Abstract!vars)
    BY NextCases, AroundServes, WaitingServes, CallingServes, EndingServes, ServingServes
       DEF Serves
<1> QED
    BY <1>1, <1>2, Invariance, PTL DEF Spec, ImplementsService, Abstract!Spec

=============================================================================
