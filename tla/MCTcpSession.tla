---------------------------- MODULE MCTcpSession ----------------------------
(* Small instances of TcpSession: a radio in the shack by its .local name over TLS, and one in the field. *)
EXTENDS TcpSession

CONSTANTS shack, field

BothRadios == {shack, field}
OverTls == {shack}
ByName == {shack}
=============================================================================
