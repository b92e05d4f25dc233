------------------------------- MODULE Server -------------------------------
(***************************************************************************)
(* lib/server.c: a process that serves connections from one loop, with a   *)
(* pool of ConnNr of them, a signal channel and timers.                    *)
(*                                                                         *)
(* The process is single-threaded: what comes between its steps is what    *)
(* peers, signals and time do.  Descriptors are level triggered.  The      *)
(* libraries below (galv: connections; utils: poll, timers, signals) are   *)
(* modelled from how server.c uses them.                                   *)
(***************************************************************************)
EXTENDS Naturals, FiniteSets

CONSTANTS
    Peers,      \* clients, each with a connection at most
    ConnNr,     \* CONFIG_HED_CONN_NR
    Listen,     \* the descriptor of the accepting socket
    SigChan     \* the descriptor of the signal channel

ASSUME ServerAssumption ==
    /\ ConnNr \in Nat \ {0}
    /\ Listen \notin Peers /\ SigChan \notin Peers /\ Listen # SigChan

Fds == Peers \cup {Listen, SigChan}
Signals == {"TERM", "USR"}      \* SIGHUP, INT, QUIT, TERM; SIGUSR1, USR2
Resources == {"repo", "adopt", "poll", "accept", "sig"}
Opening == {"adopt", "poll", "accept", "mode", "sig"}
Looping == {"wait", "dispatch"}
Halting == {"halt_wait", "halt_dispatch"}

VARIABLES
    pc,         \* where the process stands
    open,       \* resources it holds
    misclosed,  \* resources it closed without holding them
    inherited,  \* it was given its socket: hed_srv_conn_init
    blocked,    \* the signals are blocked: they wait for the channel
    link,       \* where the connection of a peer is
    input,      \* peers with a request to be read
    eof,        \* peers that closed their end
    sigs,       \* pending signals
    due,        \* a timer is due
    intr,       \* epoll_wait will answer EINTR: the process was stopped, continued
    batch,      \* descriptors that the last wait reported, not yet dispatched
    result,     \* what hed_srv_run or hed_srv_halt returned
    asked,      \* history: a signal to terminate was read in this loop
    cut         \* history: connections that hed_srv_halt closed on its peers

proc == <<pc, batch, result, asked, cut>>
peers == <<link, input, eof>>
events == <<sigs, due, intr>>
held == <<open, misclosed, inherited, blocked>>
vars == <<proc, peers, events, held>>

TypeOK ==
    /\ pc \in {"off", "ready", "stopped", "halted"} \cup Opening \cup Looping \cup Halting
    /\ open \subseteq Resources /\ misclosed \subseteq Resources
    /\ inherited \in BOOLEAN /\ blocked \in BOOLEAN
    /\ link \in [Peers -> {"none", "backlog", "pool"}]
    /\ input \subseteq Peers /\ eof \subseteq Peers
    /\ sigs \subseteq Signals
    /\ due \in BOOLEAN /\ intr \in BOOLEAN
    /\ batch \subseteq Fds
    /\ result \in {"none", "0", "EINTR", "error", "failed"}
    /\ asked \in BOOLEAN
    /\ cut \subseteq Peers

Init ==
    /\ pc = "off"
    /\ open = {} /\ misclosed = {} /\ inherited = FALSE /\ blocked = FALSE
    /\ link = [p \in Peers |-> "none"] /\ input = {} /\ eof = {}
    /\ sigs = {} /\ due = FALSE /\ intr = FALSE
    /\ batch = {} /\ result = "none" /\ asked = FALSE /\ cut = {}

Pool == {p \in Peers : link[p] = "pool"}
Room == Cardinality(Pool) < ConnNr

\* Faulty: the accepting socket is polled when the pool is full, too.
ReadyWhenFull ==
    {p \in Pool : p \in input \cup eof}
        \cup (IF pc \notin Halting /\ \E p \in Peers : link[p] = "backlog"
              THEN {Listen} ELSE {})
        \cup (IF sigs # {} THEN {SigChan} ELSE {})

\* Faulty: hed_srv_halt leaves the accepting socket in the poll set.
ReadyUnsuspended ==
    {p \in Pool : p \in input \cup eof}
        \cup (IF Room /\ \E p \in Peers : link[p] = "backlog" THEN {Listen} ELSE {})
        \cup (IF sigs # {} THEN {SigChan} ELSE {})

\* The descriptors epoll_wait reports.  galv takes the accepting socket out of
\* the poll set while the pool is full, hed_srv_halt takes it out for good.
Ready ==
    {p \in Pool : p \in input \cup eof}
        \cup (IF pc \notin Halting /\ Room /\ \E p \in Peers : link[p] = "backlog"
              THEN {Listen} ELSE {})
        \cup (IF sigs # {} THEN {SigChan} ELSE {})

-----------------------------------------------------------------------------
(* hed_srv_init, hed_srv_conn_init: one step per resource.                 *)

\* Closing S, whatever is open.
Release(S) ==
    /\ open' = open \ S
    /\ misclosed' = misclosed \cup (S \ open)

\* What comes after step s; only hed_srv_init sets the mode of the socket.
Following(s) ==
    CASE s = "adopt" -> "poll"
      [] s = "poll" -> "accept"
      [] s = "accept" -> IF inherited THEN "sig" ELSE "mode"
      [] s = "mode" -> "sig"
      [] s = "sig" -> "ready"

\* Faulty: a failure to open the poll set goes to the wrong label.
UnwoundLate(s) ==
    CASE s \in {"adopt", "poll"} -> {"repo"}
      [] s \in {"accept", "mode"} -> {"repo", "adopt", "poll"}
      [] s = "sig" -> {"repo", "adopt", "poll", "sig"}

\* What the labels close when step s fails.  The accepting socket's worker is
\* not among it.  A channel that was not opened, or that hed_srv_open_sigchan
\* closed itself, is closed once more.
Unwound(s) ==
    CASE s = "adopt" -> {"repo"}
      [] s = "poll" -> {"repo", "adopt"}
      [] s \in {"accept", "mode"} -> {"repo", "adopt", "poll"}
      [] s = "sig" -> {"repo", "adopt", "poll", "sig"}

hed_srv_init ==
    /\ pc = "off"
    /\ pc' = "adopt"
    /\ open' = {"repo"} /\ misclosed' = {}
    /\ inherited' = FALSE
    /\ result' = "none" /\ asked' = FALSE /\ cut' = {}
    /\ UNCHANGED <<batch, peers, events, blocked>>

hed_srv_conn_init ==
    /\ pc = "off"
    /\ pc' = "adopt"
    /\ open' = {"repo"} /\ misclosed' = {}
    /\ inherited' = TRUE
    /\ result' = "none" /\ asked' = FALSE /\ cut' = {}
    /\ UNCHANGED <<batch, peers, events, blocked>>

\* The last step of all blocks the signals, and nothing unblocks them.
acquire ==
    /\ pc \in Opening
    /\ pc' = Following(pc)
    /\ open' = open \cup ({pc} \cap Resources)
    /\ blocked' = (blocked \/ pc = "sig")
    /\ UNCHANGED <<batch, result, asked, cut, peers, events, misclosed, inherited>>

\* Whoever was waiting on the socket is disconnected.
acquire_fails ==
    /\ pc \in Opening
    /\ pc' = "off"
    /\ Release(Unwound(pc))
    /\ link' = [p \in Peers |-> "none"] /\ input' = {} /\ eof' = {}
    /\ result' = "failed"
    /\ UNCHANGED <<batch, asked, cut, events, inherited, blocked>>

-----------------------------------------------------------------------------
(* The loop: hed_srv_run around hed_srv_process.                           *)

hed_srv_run ==
    /\ pc \in {"ready", "stopped"}
    /\ pc' = "wait"
    /\ result' = "none" /\ asked' = FALSE
    /\ UNCHANGED <<batch, cut, peers, events, held>>

\* The wait did not block, or nothing came: the timers run, and nothing else.
\* They may arm themselves again for a time that has passed when they are done.
process_timers ==
    /\ pc = "wait"
    /\ due
    /\ due' \in BOOLEAN
    /\ intr' = FALSE
    /\ UNCHANGED <<sigs, proc, peers, held>>

\* Faulty: the loop ends where hed_srv_run maps -EINTR to 0.
process_interrupted_ends ==
    /\ pc = "wait"
    /\ ~due /\ intr
    /\ intr' = FALSE
    /\ pc' = "stopped" /\ result' = "0"
    /\ UNCHANGED <<batch, asked, cut, sigs, due, peers, held>>

\* -EINTR: the loop goes on.
process_interrupted ==
    /\ pc = "wait"
    /\ ~due /\ intr
    /\ intr' = FALSE
    /\ UNCHANGED <<sigs, due, proc, peers, held>>

\* Faulty: room for one event.
ReportedOne == {B \in SUBSET Ready : Cardinality(B) = 1}

\* upoll_wait reports at most ConnNr + 1 descriptors (server.c:132).
Reported ==
    {B \in SUBSET Ready :
        \/ Cardinality(B) = ConnNr + 1
        \/ B = Ready /\ Cardinality(B) <= ConnNr}

process_wait ==
    /\ pc = "wait"
    /\ ~due /\ Ready # {}
    /\ batch' \in Reported
    /\ pc' = "dispatch"
    /\ intr' = FALSE
    /\ UNCHANGED <<result, asked, cut, sigs, due, peers, held>>

-----------------------------------------------------------------------------
(* upoll_dispatch: the workers of the reported descriptors, until one of   *)
(* them returns an error.  Used by the loop and by hed_srv_halt.           *)

Dispatching == pc \in {"dispatch", "halt_dispatch"}

\* Faulty: hed_srv_halt waits without a look at the pool.
ContinueWaiting(fd, pool) ==
    /\ batch' = batch \ {fd}
    /\ pc' = IF batch' # {} THEN pc
             ELSE IF pc = "dispatch" THEN "wait" ELSE "halt_wait"
    /\ UNCHANGED <<result, asked, cut>>

\* The rest of the batch, then the next wait.  hed_srv_halt waits only while
\* the pool is not empty.
Continue(fd, pool) ==
    /\ batch' = batch \ {fd}
    /\ pc' = IF batch' # {} THEN pc
             ELSE IF pc = "dispatch" THEN "wait"
             ELSE IF pool # {} THEN "halt_wait" ELSE "halted"
    /\ result' = IF pc' = "halted" THEN "0" ELSE result
    /\ UNCHANGED <<asked, cut>>

\* Faulty: hed_srv_halt leaves the connections that are left open.
LeaveUncut(loop, halt) ==
    /\ batch' = {}
    /\ IF pc \in Looping
       THEN pc' = "stopped" /\ result' = loop
       ELSE pc' = "halted" /\ result' = halt
    /\ UNCHANGED <<cut, peers>>

\* An error ends the loop: hed_srv_run returns it (0 for -ESHUTDOWN), and
\* hed_srv_halt does (-EINTR for -ESHUTDOWN) once it has closed what is left.
Leave(loop, halt) ==
    /\ batch' = {}
    /\ IF pc \in Looping
       THEN /\ pc' = "stopped" /\ result' = loop
            /\ UNCHANGED <<cut, peers>>
       ELSE /\ pc' = "halted" /\ result' = halt
            /\ cut' = Pool
            /\ link' = [p \in Peers |-> IF p \in Pool THEN "none" ELSE link[p]]
            /\ input' = input \ Pool /\ eof' = eof \ Pool

Drop(p) ==
    /\ link' = [link EXCEPT ![p] = "none"]
    /\ input' = input \ {p} /\ eof' = eof \ {p}

dispatch_request(p) ==
    /\ Dispatching /\ p \in batch
    /\ p \in input
    /\ input' = input \ {p}
    /\ UNCHANGED <<link, eof>>
    /\ Continue(p, Pool)
    /\ UNCHANGED <<events, held>>

\* A connection is closed: its peer left, or it failed.
dispatch_close(p) ==
    /\ Dispatching /\ p \in batch
    /\ Drop(p)
    /\ Continue(p, Pool \ {p})
    /\ UNCHANGED <<events, held>>

dispatch_accept(p) ==
    /\ Dispatching /\ Listen \in batch
    /\ link[p] = "backlog"
    /\ link' = [link EXCEPT ![p] = "pool"]
    /\ Continue(Listen, Pool \cup {p})
    /\ UNCHANGED <<input, eof, events, held>>

\* hed_rpc_create gave no table: galv closes the connection.
dispatch_refuse(p) ==
    /\ Dispatching /\ Listen \in batch
    /\ link[p] = "backlog"
    /\ Drop(p)
    /\ Continue(Listen, Pool)
    /\ UNCHANGED <<events, held>>

\* Faulty: the worker reads a signal and does not look at which.
hed_srv_dispatch_sigchan_deaf ==
    /\ Dispatching /\ SigChan \in batch
    /\ \E s \in sigs :
          /\ sigs' = sigs \ {s}
          /\ asked' = (asked \/ s = "TERM")
          /\ batch' = batch \ {SigChan}
          /\ pc' = IF batch' # {} THEN pc
                   ELSE IF pc = "dispatch" THEN "wait" ELSE "halt_wait"
    /\ UNCHANGED <<result, cut, peers, due, intr, held>>

\* Faulty: hed_srv_halt maps -ESHUTDOWN as hed_srv_run does.
hed_srv_dispatch_sigchan_zero ==
    /\ Dispatching /\ SigChan \in batch
    /\ \E s \in sigs :
          /\ sigs' = sigs \ {s}
          /\ IF s = "TERM"
             THEN Leave("0", "0") /\ asked' = TRUE
             ELSE Continue(SigChan, Pool) /\ UNCHANGED peers
    /\ UNCHANGED <<due, intr, held>>

\* Faulty: hed_srv_halt does not map -ESHUTDOWN.
hed_srv_dispatch_sigchan_raw ==
    /\ Dispatching /\ SigChan \in batch
    /\ \E s \in sigs :
          /\ sigs' = sigs \ {s}
          /\ IF s = "TERM"
             THEN Leave("0", "ESHUTDOWN") /\ asked' = TRUE
             ELSE Continue(SigChan, Pool) /\ UNCHANGED peers
    /\ UNCHANGED <<due, intr, held>>

\* One signal is read at a time.
hed_srv_dispatch_sigchan ==
    /\ Dispatching /\ SigChan \in batch
    /\ \E s \in sigs :
          /\ sigs' = sigs \ {s}
          /\ IF s = "TERM"
             THEN Leave("0", "EINTR") /\ asked' = TRUE
             ELSE Continue(SigChan, Pool) /\ UNCHANGED peers
    /\ UNCHANGED <<due, intr, held>>

\* A worker fails (accept or allocation): everything stops.
dispatch_fails ==
    /\ Dispatching
    /\ Leave("error", "error")
    /\ UNCHANGED <<asked, events, held>>

-----------------------------------------------------------------------------
(* hed_srv_halt: wait for the peers to close, without a timeout.           *)

\* With an empty pool ret is returned as it was never set.
hed_srv_halt ==
    /\ pc \in {"ready", "stopped"}
    /\ pc' = IF Pool = {} THEN "halted" ELSE "halt_wait"
    /\ result' \in IF Pool = {} THEN {"0", "EINTR", "error"} ELSE {"none"}
    /\ cut' = {}
    /\ UNCHANGED <<batch, asked, peers, events, held>>

halt_wait ==
    /\ pc = "halt_wait"
    /\ Ready # {}
    /\ batch' \in Reported
    /\ pc' = "halt_dispatch"
    /\ intr' = FALSE
    /\ UNCHANGED <<result, asked, cut, sigs, due, peers, held>>

halt_interrupted ==
    /\ pc = "halt_wait"
    /\ intr
    /\ intr' = FALSE
    /\ Leave("0", "EINTR")
    /\ UNCHANGED <<asked, sigs, due, held>>

hed_srv_fini ==
    /\ pc = "halted"
    /\ pc' = "off"
    /\ Release({"sig", "accept", "poll", "adopt", "repo"})
    /\ link' = [p \in Peers |-> "none"] /\ input' = {} /\ eof' = {}
    /\ UNCHANGED <<batch, result, asked, cut, events, inherited, blocked>>

-----------------------------------------------------------------------------
(* What happens around the process.                                        *)

peer_connects(p) ==
    /\ "adopt" \in open
    /\ link[p] = "none"
    /\ link' = [link EXCEPT ![p] = "backlog"]
    /\ UNCHANGED <<input, eof, proc, events, held>>

peer_sends(p) ==
    /\ link[p] # "none" /\ p \notin eof
    /\ p \notin input
    /\ input' = input \cup {p}
    /\ UNCHANGED <<link, eof, proc, events, held>>

peer_closes(p) ==
    /\ link[p] # "none" /\ p \notin eof
    /\ eof' = eof \cup {p}
    /\ UNCHANGED <<link, input, proc, events, held>>

\* Until a server blocks them signals have their default action; from then on
\* they stay pending, also between one server and the next.
signal(s) ==
    /\ blocked
    /\ s \notin sigs
    /\ sigs' = sigs \cup {s}
    /\ UNCHANGED <<due, intr, proc, peers, held>>

timer_expires ==
    /\ pc = "wait"
    /\ ~due
    /\ due' = TRUE
    /\ UNCHANGED <<sigs, intr, proc, peers, held>>

process_continued ==
    /\ pc \in {"wait", "halt_wait"}
    /\ ~intr
    /\ intr' = TRUE
    /\ UNCHANGED <<sigs, due, proc, peers, held>>

-----------------------------------------------------------------------------
LoopStep ==
    \/ process_timers \/ process_interrupted \/ process_wait
    \/ halt_wait \/ halt_interrupted
    \/ hed_srv_dispatch_sigchan
    \/ \E p \in Peers : dispatch_request(p) \/ dispatch_close(p)
    \/ \E p \in Peers : dispatch_accept(p) \/ dispatch_refuse(p)

Next ==
    \/ hed_srv_init \/ hed_srv_conn_init \/ acquire \/ acquire_fails
    \/ hed_srv_run \/ hed_srv_halt \/ hed_srv_fini
    \/ LoopStep \/ dispatch_fails
    \/ \E p \in Peers : peer_connects(p) \/ peer_sends(p) \/ peer_closes(p)
    \/ \E s \in Signals : signal(s)
    \/ timer_expires \/ process_continued

Spec == Init /\ [][Next]_vars

ReadsTerm == hed_srv_dispatch_sigchan /\ asked' /\ ~asked
TimersPause == process_timers /\ ~due'

\* The process runs when it can.  A wait that can report descriptors again and
\* again does so once, whatever interrupts it; no endless stream of SIGUSR1,
\* which the kernel hands out first, keeps SIGTERM from being read; and the
\* timers, once run, now and then leave none that is due already.
FairSpec ==
    /\ Spec
    /\ WF_vars(LoopStep)
    /\ SF_vars(process_wait) /\ SF_vars(ReadsTerm) /\ SF_vars(TimersPause)

\* Also: a peer that is being halted closes its end.
ClosingSpec == FairSpec /\ \A p \in Peers : WF_vars(pc \in Halting /\ peer_closes(p))

-----------------------------------------------------------------------------
\* One wait reports every ready descriptor: the accepting socket needs no
\* event of its own when the pool is full (server.c:132, 182).
EventsFit == Cardinality(Ready) <= ConnNr + 1

\* hed_srv_run returns 0 only to report a signal to terminate that was read
\* since it was called, and not for any interruption (server.c:238-246).
StopMeansAsked == pc = "stopped" /\ result = "0" => asked

\* hed_srv_halt returns 0 only when every connection was closed by its peer,
\* however requests, signals and hang-ups come in (server.c:258-273).
ZeroMeansDrained == pc = "halted" /\ result = "0" => cut = {}

\* When a server has come to its end each resource has been closed once, also
\* when an init function failed at any of its steps.  Two failures are
\* excepted, for the code gets them wrong: the accepting socket is not closed
\* when a later step fails, and the signal channel is closed again when
\* opening it failed (server.c:145-160, 195-206).
Released ==
    pc = "off" =>
        IF result = "failed"
        THEN open \subseteq {"accept"} /\ misclosed \subseteq {"sig"}
        ELSE open = {} /\ misclosed = {}

\* While the server halts, nobody joins the pool: it only drains
\* (server.c:258-268).
HaltDrains == [][(pc \in Halting) => (Pool' \subseteq Pool)]_vars

\* What the process is for: the calls of the program and its clients see the
\* abstract service and nothing else, whatever batches, signals and hang-ups
\* come in between (server.c:209-274).
Phase ==
    CASE pc \in {"off"} \cup Opening -> "down"
      [] pc \in {"ready", "stopped"} -> "idle"
      [] pc \in Looping -> "running"
      [] pc \in Halting -> "draining"
      [] pc = "halted" -> "drained"

Abstract == INSTANCE Service WITH
                Clients <- Peers, MaxSessions <- ConnNr,
                phase <- Phase, sessions <- Pool, asking <- input \cap Pool,
                told <- "TERM" \in sigs, verdict <- result

ImplementsService == Abstract!Spec

\* A pending SIGTERM ends the loop, also one that came before the server was
\* there, to another of this process (server.c:37-48, 91).
TermStops == "TERM" \in sigs /\ pc \in Looping ~> pc \notin Looping

\* A request that has reached a connection of the pool is read, or the
\* connection closed, as long as the loop runs (server.c:217-228).
Served ==
    \A p \in Peers :
        p \in input /\ link[p] = "pool" /\ pc \in Looping
            ~> p \notin input \/ pc \notin Looping

\* hed_srv_halt returns (server.c:260-268).
HaltReturns == pc \in Halting ~> pc \notin Halting

-----------------------------------------------------------------------------
(* What the properties rest on.                                            *)

\* What the process holds where it stands.
Held(where) ==
    CASE where = "adopt" -> {"repo"}
      [] where = "poll" -> {"repo", "adopt"}
      [] where = "accept" -> {"repo", "adopt", "poll"}
      [] where \in {"mode", "sig"} -> {"repo", "adopt", "poll", "accept"}
      [] OTHER -> Resources

HeldInv == pc # "off" => open = Held(pc) /\ misclosed = {} /\ result # "failed"

\* What a wait has reported is there until it is dispatched: connections of the
\* pool, and room for one that is accepted.
BatchInv ==
    /\ ~Dispatching => batch = {}
    /\ batch \cap Peers \subseteq Pool
    /\ Listen \in batch => pc = "dispatch" /\ Room

PoolInv ==
    /\ IsFiniteSet(Pool) /\ Cardinality(Pool) <= ConnNr
    /\ pc \in {"off", "halted"} \cup Opening => Pool = {}
    /\ pc \in Halting => cut = {}

\* The conjunction is inductive.
IInv ==
    /\ TypeOK
    /\ HeldInv
    /\ BatchInv
    /\ PoolInv
    /\ StopMeansAsked
    /\ ZeroMeansDrained
    /\ Released

=============================================================================
