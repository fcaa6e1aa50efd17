-------------------------- MODULE MCApprovalChain --------------------------
(***************************************************************************)
(* ApprovalChain for TLC: a template with approvals at levels 1 and 2, a   *)
(* clerk of level 0 and a manager of level 2.  People start the work and   *)
(* send it to review, and leave the outcome to the approvals.              *)
(***************************************************************************)
EXTENDS ApprovalChain, TLC

CONSTANTS a1, a2, clerk, manager, h1, h2

MCApprovals == {a1, a2}
MCLevel == [a \in MCApprovals |-> IF a = a1 THEN 1 ELSE 2]
MCUsers == {clerk, manager}
MCAuthority == [u \in MCUsers |-> IF u = manager THEN 2 ELSE 0]
MCDestinations == {"IN_PROGRESS", "IN_REVIEW"}
=============================================================================
