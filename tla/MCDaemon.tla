------------------------------ MODULE MCDaemon ------------------------------
(***************************************************************************)
(* Instances of Daemon for TLC.                                            *)
(***************************************************************************)
EXTENDS Daemon

MCNotifs == 1..2

(* The search: notifications with the first commit, the later commits without *)
(* notifications.  The two loops share nothing but the life of the process.   *)
MCBound == head > 1 => \A n \in Notifs : status[n] = "absent"

=============================================================================
