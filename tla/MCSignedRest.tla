---------------------------- MODULE MCSignedRest ----------------------------
(***************************************************************************)
(* Values of the constants of SignedRest that a .cfg cannot write down.    *)
(***************************************************************************)
EXTENDS SignedRest

(* One call, so that time and restarts take the state space.               *)
OneCall ==
  {[method |-> "POST", target_uri |-> "evaluate",
    content_type |-> "json", body |-> "submit", request_id |-> "r1"]}

(* Two calls that differ in body and request ID only, so that a field of   *)
(* one request can arrive with the other.                                  *)
TwoCalls ==
  OneCall \cup
  {[method |-> "POST", target_uri |-> "evaluate",
    content_type |-> "json", body |-> "cancel", request_id |-> "r2"]}

AllFields ==
  {"method", "target_uri", "content_type", "body", "request_id",
   "service_id", "instance_id", "content_digest", "signature_input",
   "signature"}
=============================================================================
