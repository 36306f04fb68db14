---------------------------- MODULE MCIngestion ----------------------------
(* Finite instances of Ingestion: model values come from the .cfg files.   *)
EXTENDS Ingestion
============================================================================
