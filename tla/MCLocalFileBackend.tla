------------------------ MODULE MCLocalFileBackend ------------------------
(* LocalFileBackend on a few texts and files. *)
EXTENDS LocalFileBackend, TLC

MCInode == 1..(Cardinality(Writer) + 2)
=============================================================================
