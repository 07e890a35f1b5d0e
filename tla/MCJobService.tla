---------------------------- MODULE MCJobService ----------------------------
(* Three jobs for the two workers of the service, which answers can leave   *)
(* without a descriptor.                                                    *)
EXTENDS JobService
CONSTANTS w0, w1
=============================================================================
