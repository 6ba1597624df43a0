------------------------------ MODULE MCFrontend ------------------------------
(* Small instance of Frontend.                                             *)
EXTENDS Frontend

Keys == 1 .. MaxFeed
=============================================================================
