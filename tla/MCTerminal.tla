------------------------------ MODULE MCTerminal ------------------------------
(* Small instance of Terminal: the dashboard loads two of its programs.    *)
EXTENDS Terminal

TwoModules == <<"syscall", "anomaly">>
=============================================================================
