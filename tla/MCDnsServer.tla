---------------------------- MODULE MCDnsServer ----------------------------
(* Instances of DnsServer for TLC. *)
EXTENDS DnsServer
CONSTANTS u4, u6, t4, t6

WildcardOverlaps == {{u4, u6}, {t4, t6}}

\* What listen.udp, udp6, tcp and tcp6 may name: one or two addresses of each protocol.
UdpMovedPlans == {{u6, t4}, {u4, u6, t4}}
TcpMovedPlans == {{u4, t4}, {u4, t6}, {u4, t4, t6}}
=============================================================================
