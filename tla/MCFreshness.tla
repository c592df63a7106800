---------------------------- MODULE MCFreshness ----------------------------
(***************************************************************************)
(* A value of PARTS for Freshness that a .cfg cannot write down.           *)
(***************************************************************************)
EXTENDS Freshness

AnyParts ==
  [method |-> "POST", target_uri |-> "evaluate", content_type |-> "json",
   body |-> "submit", request_id |-> "r1"]
=============================================================================
