---------------------- MODULE MC_ConnectionController ----------------------
(* Model values for the connection controller.                             *)
EXTENDS ConnectionController

TcpOnly == {"Tcp"}
RtuOnly == {"Rtu"}
BothTypes == {"Tcp", "Rtu"}
TwoDevices == {"first", "second"}
=============================================================================
