---------------------------- MODULE MCIoqueueKeys ----------------------------
(* Small instances of the life of the ioqueue's keys. *)
EXTENDS IoqueueKeys, TLC
=============================================================================
