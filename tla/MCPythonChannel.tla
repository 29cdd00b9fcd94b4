--------------------------- MODULE MCPythonChannel ---------------------------
(* Small instances of PythonChannel for TLC. *)
EXTENDS PythonChannel
=============================================================================
