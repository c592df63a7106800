--------------------------- MODULE MCSendExchange ---------------------------
(***************************************************************************)
(* Values of the constants of SendExchange that a .cfg cannot write down.  *)
(***************************************************************************)
EXTENDS SendExchange

Parts(body, uri, id) ==
  [method |-> "POST", target_uri |-> uri, content_type |-> "json",
   body |-> body, request_id |-> id]

(* Each caller's request ID is its name.                                   *)
Purposes == [c \in CALLERS |-> Parts("submit", "plain", c)]

Canonical == [uri \in TargetUris |-> uri]
=============================================================================
