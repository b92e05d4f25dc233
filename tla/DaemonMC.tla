------------------------------ MODULE DaemonMC ------------------------------
(***************************************************************************)
(* Instances of Daemon for TLC.                                            *)
(***************************************************************************)
EXTENDS Daemon

CONSTANTS m1, m2

\* A factory that lists an id twice and leaves one out, and one that refuses
\* everybody.
TwoFactories ==
    {[max_id |-> 1, auth |-> <<[id |-> 1, meth |-> m1], [id |-> 1, meth |-> m2]>>],
     [max_id |-> 0, auth |-> <<>>]}

=============================================================================
