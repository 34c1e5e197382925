----------------------------- MODULE MCMonitor -----------------------------
(***************************************************************************)
(* A small instance of Monitor for TLC.                                    *)
(***************************************************************************)
EXTENDS Monitor

\* Setups that work: plain on the loopback interface, pinned on an external one.
\* Setups that must not: an external address without a fingerprint or with a blank
\* one, a node that pinned some other certificate, a monitor that pinned no or
\* another node.
SomeConfigs ==
    {[bind |-> "loopback", peer |-> NoFlag, pin |-> NoFlag],
     [bind |-> "external", peer |-> NoFlag, pin |-> NoFlag],
     [bind |-> "external", peer |-> Blank, pin |-> Blank],
     [bind |-> "external", peer |-> MonitorCert, pin |-> NoFlag]}
    \cup [bind : {"external"}, peer : {MonitorCert}, pin : Nodes]
    \cup [bind : {"external"}, peer : Nodes, pin : Nodes]
============================================================================
