---------------------------- MODULE MCModbusTcp ----------------------------
(* An instance of ModbusTcp for TLC: a context of modbus_new_tcp with link   *)
(* recovery and one of modbus_new_tcp_pi with protocol recovery.             *)
EXTENDS ModbusTcp

CONSTANTS a, b

MCClients == {a, b}
MCLink == {a}
MCPi == {b}
MCFds == {3, 4}

=============================================================================
