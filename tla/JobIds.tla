------------------------------- MODULE JobIds -------------------------------
(* The identities a job and its backend operation share: the operation id  *)
(* is a function of the job id (jobexec/map.go, operationID).              *)
EXTENDS Integers, FiniteSets

CONSTANTS
    Jobs,  \* job ids, and the operation ids derived from them
    None   \* no job

ASSUME JobIdsOK == IsFiniteSet(Jobs) /\ None \notin Jobs
=============================================================================
