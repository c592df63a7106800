---------------------------- MODULE MCEnrollment ----------------------------
(***************************************************************************)
(* Values of the constants of EnrollmentExchange that a .cfg cannot write. *)
(***************************************************************************)
EXTENDS EnrollmentExchange

Text(padded, text) == [padded |-> padded, text |-> text]

Setting(endpoint, pod_uid, token) ==
  [endpoint |-> endpoint, pod_uid |-> pod_uid, token |-> token]

InOrder == {Setting(Text(TRUE, "https://worker.test"), TRUE, TRUE)}

(* One setting in order, and one for each thing sign refuses.              *)
InOrderOrNot ==
  InOrder \cup
  {Setting(Text(FALSE, "http://worker.test"), TRUE, TRUE),
   Setting(Text(FALSE, "https://worker.test"), FALSE, TRUE),
   Setting(Text(FALSE, "https://worker.test"), TRUE, FALSE)}
=============================================================================
