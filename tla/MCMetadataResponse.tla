-------------------------- MODULE MCMetadataResponse --------------------------
(* TLC instance of MetadataResponse. *)
EXTENDS MetadataResponse
===============================================================================
