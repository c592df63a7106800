-------------------------------- MODULE Http --------------------------------
(***************************************************************************)
(* What a blocking HTTP call brings back (reqwest, as src/src/transport.rs *)
(* uses it): nothing, or a status with a body that may have been cut off.  *)
(***************************************************************************)
EXTENDS Naturals, ClientError

NoReply == [answered |-> FALSE]

Reply(status, body) ==
  [answered |-> TRUE, status |-> status, whole |-> TRUE, body |-> body]

CutShort(reply) == [reply EXCEPT !.whole = FALSE]

(* A slip the runs must notice: 200 not among the successes.               *)
IsCreatedOrLater(status) == status \in 201 .. 299

IsSuccess(status) == status \in 200 .. 299
=============================================================================
