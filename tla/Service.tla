------------------------------- MODULE Service -------------------------------
(***************************************************************************)
(* What lib/server.c promises to the program that calls it and to its      *)
(* clients: a bounded number of sessions, admitted while the program runs  *)
(* the service and at no other time; a run that ends by itself only when   *)
(* it was told to; and a drain that says whether a session was cut.        *)
(***************************************************************************)
EXTENDS Naturals, FiniteSets

CONSTANTS
    Clients,
    MaxSessions

VARIABLES
    phase,      \* what the program has called last
    sessions,   \* clients that are being served
    asking,     \* those with a request that was not answered
    told,       \* somebody asked the program to end
    verdict     \* what the last call said

vars == <<phase, sessions, asking, told, verdict>>

TypeOK ==
    /\ phase \in {"down", "idle", "running", "draining", "drained"}
    /\ sessions \subseteq Clients
    /\ asking \subseteq sessions
    /\ told \in BOOLEAN
    /\ verdict \in {"none", "0", "EINTR", "error", "failed"}

Init ==
    /\ phase = "down" /\ sessions = {} /\ asking = {}
    /\ told = FALSE /\ verdict = "none"

\* The program starts the service, in vain or not.
Start ==
    /\ phase = "down"
    /\ \/ phase' = "idle" /\ UNCHANGED verdict
       \/ verdict' \in {"none", "failed"} /\ UNCHANGED phase
    /\ UNCHANGED <<sessions, asking, told>>

Run ==
    /\ phase = "idle"
    /\ phase' = "running" /\ verdict' = "none"
    /\ UNCHANGED <<sessions, asking, told>>

\* A client may have sent its first request before it is admitted.
Admit(c) ==
    /\ phase = "running"
    /\ c \notin sessions /\ Cardinality(sessions) < MaxSessions
    /\ sessions' = sessions \cup {c}
    /\ asking' \in {asking, asking \cup {c}}
    /\ UNCHANGED <<phase, told, verdict>>

Ask(c) ==
    /\ c \in sessions
    /\ asking' = asking \cup {c}
    /\ UNCHANGED <<phase, sessions, told, verdict>>

Answer(c) ==
    /\ phase \in {"running", "draining"}
    /\ c \in asking
    /\ asking' = asking \ {c}
    /\ UNCHANGED <<phase, sessions, told, verdict>>

\* The end of the last session may be that of the drain.
End(c) ==
    /\ phase \in {"running", "draining"}
    /\ c \in sessions
    /\ sessions' = sessions \ {c} /\ asking' = asking \ {c}
    /\ \/ UNCHANGED <<phase, verdict>>
       \/ /\ phase = "draining" /\ sessions' = {}
          /\ phase' = "drained" /\ verdict' = "0"
    /\ UNCHANGED told

Tell == told' = TRUE /\ UNCHANGED <<phase, sessions, asking, verdict>>

\* The run ends because it was told to, or because something failed; the
\* sessions stay.
Obey ==
    /\ phase = "running" /\ told
    /\ phase' = "idle" /\ verdict' = "0" /\ told' = FALSE
    /\ UNCHANGED <<sessions, asking>>

Fail ==
    /\ phase = "running"
    /\ phase' = "idle" /\ verdict' = "error"
    /\ UNCHANGED <<sessions, asking, told>>

\* With no session left the drain is done, and says anything.
Drain ==
    /\ phase = "idle"
    /\ IF sessions = {}
       THEN phase' = "drained" /\ verdict' \in {"0", "EINTR", "error"}
       ELSE phase' = "draining" /\ verdict' = "none"
    /\ UNCHANGED <<sessions, asking, told>>

Finish ==
    /\ phase = "draining" /\ sessions = {}
    /\ phase' = "drained" /\ verdict' = "0"
    /\ UNCHANGED <<sessions, asking, told>>

\* A drain that is interrupted cuts the sessions that are left and says so.
Cut ==
    /\ phase = "draining"
    /\ phase' = "drained" /\ verdict' \in {"EINTR", "error"}
    /\ sessions' = {} /\ asking' = {}
    /\ told' \in {told, FALSE}

Close ==
    /\ phase = "drained"
    /\ phase' = "down"
    /\ UNCHANGED <<sessions, asking, told, verdict>>

Next ==
    \/ Start \/ Run \/ Tell \/ Obey \/ Fail \/ Drain \/ Finish \/ Cut \/ Close
    \/ \E c \in Clients : Admit(c) \/ Ask(c) \/ Answer(c) \/ End(c)

Spec == Init /\ [][Next]_vars

=============================================================================
