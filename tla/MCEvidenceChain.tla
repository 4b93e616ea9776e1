-------------------------- MODULE MCEvidenceChain --------------------------
(* EvidenceChain with one kill and two disturbances: a file can be          *)
(* overwritten and put back while a command runs, or an artifact and its    *)
(* manifest be overwritten together.                                        *)
EXTENDS EvidenceChain
=============================================================================
