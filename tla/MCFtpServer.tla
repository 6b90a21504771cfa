---------------------------- MODULE MCFtpServer ----------------------------
(***************************************************************************)
(* Model checking FtpServer: two clients, one server thread at a time.     *)
(***************************************************************************)
EXTENDS FtpServer

CONSTANTS c1, c2, s1, s2, ip1, ip2

MCClients == {c1, c2}
MCServers == {s1}
MCIps == {ip1, ip2}
MCRestarters == {"stats"}

\* An IPC request may restart the server while another start is under way.
MCTwoServers == {s1, s2}
MCIpcRestarts == {"ipc"}
=============================================================================
