---------------------------- MODULE MCBroadcasts ----------------------------
(***************************************************************************)
(* Small instances of Broadcasts.                                          *)
(***************************************************************************)
EXTENDS Broadcasts, TLC

CONSTANTS s1, s2, t1

\* One session has a timeout; the other logs in in time.
OneTimer == t1 :> s1

\* Everybody logs in in time.
NoTimer == [t \in Timers |-> s1]
=============================================================================
