---------------------------- MODULE MCPingMonitor ----------------------------
EXTENDS PingMonitor

CONSTANTS s1, s2
=============================================================================
