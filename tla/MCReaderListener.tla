-------------------------- MODULE MCReaderListener --------------------------
(* Small instances of ReaderListener for TLC. *)
EXTENDS ReaderListener
=============================================================================
