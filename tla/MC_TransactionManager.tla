----------------------- MODULE MC_TransactionManager -----------------------
(* Model values for the transaction manager; the bounds are in the .cfg.   *)
EXTENDS TransactionManager

TcpOnly == {"Tcp"}
RtuOnly == {"Rtu"}
BothTransports == {"Tcp", "Rtu"}

NoFaults == {}
Drops == {"drop"}
Damage == {"torn", "corrupt", "noise", "drop"}
Cuts == {"torn", "drop"}
=============================================================================
