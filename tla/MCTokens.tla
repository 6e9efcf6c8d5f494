------------------------------ MODULE MCTokens ------------------------------
(* The instances of Tokens, Scopes and Tunnels for TLC.  The two stores share nothing  *)
(* but the clock and the process, so a behaviour is of one of them.  There are two     *)
(* tokens or two tunnels, so that a sweep can take one and leave one that is live or   *)
(* revoked; TTLs of 0 and above the maximum are asked for and refused.  The scope of   *)
(* one token is what is left of any string of four words, slashes and blanks: a        *)
(* prefix, an empty part and a word, or a name between blanks.  Relays of different    *)
(* visitors do not meet.                                                               *)
EXTENDS Scopes

CONSTANTS
  TunnelIds, Timeouts, MaxTimeout, Visitors,      \* of Tunnels
  t1, t2, v1

VARIABLES component, expires, tunnels, tunnelFiles, relays, tunnelIds, deleted

Tn == INSTANCE Tunnels WITH
        Tunnel <- TunnelIds, index <- tunnels, disk <- tunnelFiles, issued <- tunnelIds

tokenVars == <<obj, index, disk, issued, ended, scope>>
tunnelVars == <<expires, tunnels, tunnelFiles, relays, tunnelIds, deleted>>

ASSUME TunnelsAssumption == Tn!ConstantsAssumption

MCInit == ScopedInit /\ Tn!Init /\ component \in {"tokens", "tunnels"}

MCNext ==
  /\ \/ component = "tokens" /\ Scoped /\ UNCHANGED tunnelVars
     \/ component = "tunnels" /\ Tn!Next /\ UNCHANGED tokenVars
  /\ UNCHANGED component

MCSpec == MCInit /\ [][MCNext]_<<vars, scope, tunnelVars, component>> /\ Fairness /\ Tn!Fairness

-----------------------------------------------------------------------------
\* A tunnel that was deleted or has expired is never a route again, and one that nobody
\* deleted is a route until then (tunnel.py:55-183).
TunnelsLiveOnce == Tn!TunnelsLiveOnce

\* The file of a token or a tunnel past its date goes, also if the daemon was down when
\* the date came (tokens.py:128-146, tunnel.py:142-172).
FilesGo == ExpiredFilesGo /\ Tn!ExpiredFilesGo

\* One end of a relay that closes ends the relay, both of its tasks and both of its
\* connections (ingress.py:536-581).
RelaysEnd == Tn!RelaysEnd
=============================================================================
