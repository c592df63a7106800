---------------------------- MODULE RequestText ----------------------------
(***************************************************************************)
(* The signature base as the text it is: what RequestParts::new admits,    *)
(* how sign_with and verify_incoming lay it out in lines, and whether the  *)
(* receiver of a request reads from it what its signer wrote.              *)
(*                                                                         *)
(* Module Wire keeps the base as a record.  This module says why that is   *)
(* right: two admitted requests with the same base are the same request.   *)
(* The digest, the IDs and the parameters are texts the crate computes.    *)
(***************************************************************************)
EXTENDS Text

CONSTANTS
  HEADS,       \* the four texts a caller passes to RequestParts::new
  COMPUTED     \* the five the crate computes

ComputedFields ==
  {"digest", "service_id", "instance_id", "request_id", "parameters"}

LineNames ==
  {"@method", "@target-uri", "content-digest", "content-type",
   "infernal-service-id", "infernal-instance-id", "infernal-request-id",
   "@signature-params"}

ASSUME RequestTextAssumption ==
  /\ HEADS \subseteq [method : Seq(CHARACTERS), authority : Seq(CHARACTERS),
                      path_and_query : Seq(CHARACTERS),
                      content_type : Seq(CHARACTERS)]
  /\ COMPUTED \subseteq [ComputedFields -> Seq(PRINTABLE)]
  /\ LineNames \cup {"https://"} \subseteq PRINTABLE

-----------------------------------------------------------------------------
(* A slip the runs must notice: a slash in the authority goes unnoticed.   *)
PartsWithAnyAuthority(head) ==
  IF head.method = << >> \/ ~Over(head.method, UPPERCASE)
    THEN Err(InvalidRequestPart("method"))
  ELSE IF ~ValidUriValue(head.authority)
    THEN Err(InvalidRequestPart("authority"))
  ELSE IF \/ ~StartsWith(head.path_and_query, "/")
          \/ ~ValidUriValue(head.path_and_query)
    THEN Err(InvalidRequestPart("path_and_query"))
  ELSE IF ~ValidHeaderValue(head.content_type)
    THEN Err(InvalidRequestPart("content_type"))
  ELSE Ok(head)

(* RequestParts::new                                                       *)
RequestParts(head) ==
  IF head.method = << >> \/ ~Over(head.method, UPPERCASE)
    THEN Err(InvalidRequestPart("method"))
  ELSE IF \/ ~ValidUriValue(head.authority)
          \/ Holds(head.authority, {"/", "@", "?", "#"})
    THEN Err(InvalidRequestPart("authority"))
  ELSE IF \/ ~StartsWith(head.path_and_query, "/")
          \/ Holds(head.path_and_query, {"#"})
          \/ ~ValidUriValue(head.path_and_query)
    THEN Err(InvalidRequestPart("path_and_query"))
  ELSE IF ~ValidHeaderValue(head.content_type)
    THEN Err(InvalidRequestPart("content_type"))
  ELSE Ok(head)

TargetUri(parts) ==
  <<"https://">> \o (parts.authority \o parts.path_and_query)

Line(name, value, rest) == <<name>> \o (value \o (<<LF>> \o rest))

SignatureBase(parts, computed) ==
  Line("@method", parts.method,
  Line("@target-uri", TargetUri(parts),
  Line("content-digest", computed.digest,
  Line("content-type", parts.content_type,
  Line("infernal-service-id", computed.service_id,
  Line("infernal-instance-id", computed.instance_id,
  Line("infernal-request-id", computed.request_id,
       <<"@signature-params">> \o computed.parameters)))))))

(* HTTP drops the blanks around a header value.                            *)
OverHttp(head) ==
  LET text == head.content_type
      kept == {i \in 1 .. Len(text) : text[i] # SPACE}
      first == CHOOSE i \in kept : \A j \in kept : i <= j
      last  == CHOOSE i \in kept : \A j \in kept : j <= i
  IN [head EXCEPT !.content_type =
        IF kept = {} THEN << >> ELSE SubSeq(text, first, last)]

-----------------------------------------------------------------------------
VARIABLES
  head, computed,    \* what the caller passes, and what the crate computes
  base,              \* the base that was signed, or the error
  received,          \* head and computed texts of the request that arrives
  request_verified   \* whether it verifies under that signature

request_vars == <<head, computed, base, received, request_verified>>

RequestInit ==
  /\ head \in HEADS
  /\ computed \in COMPUTED
  /\ base = NOT_YET
  /\ received = NOT_YET
  /\ request_verified = NOT_YET

SignRequest ==
  /\ base = NOT_YET
  /\ base' = IF RequestParts(head).ok
                 THEN Ok(SignatureBase(head, computed))
                 ELSE RequestParts(head)
  /\ UNCHANGED <<head, computed, received, request_verified>>

(* The signature arrives with the request it was made for, or another.     *)
ReceiveRequest ==
  /\ base # NOT_YET
  /\ base.ok
  /\ received = NOT_YET
  /\ \E h \in HEADS, c \in COMPUTED :
       received' = [head |-> OverHttp(h), computed |-> c]
  /\ UNCHANGED <<head, computed, base, request_verified>>

VerifyRequest ==
  /\ received # NOT_YET
  /\ request_verified = NOT_YET
  /\ request_verified' =
       Ok(/\ RequestParts(received.head).ok
          /\ SignatureBase(received.head, received.computed) = base.value)
  /\ UNCHANGED <<head, computed, base, received>>

RequestNext == SignRequest \/ ReceiveRequest \/ VerifyRequest

RequestSpec == RequestInit /\ [][RequestNext]_request_vars
-----------------------------------------------------------------------------
(* A signature verifies for no other request than the one it was made for: *)
(* where the authority ends and the path begins, and where one line ends   *)
(* and the next begins, can be read in one way only.                       *)
OnlyItsOwnVerifies ==
  request_verified # NOT_YET =>
    (request_verified.value =>
       received = [head |-> head, computed |-> computed])

(* And for that request it does verify: what sign admits passes through    *)
(* HTTP as it is and is admitted by the receiver.                          *)
ItsOwnVerifies ==
  request_verified # NOT_YET =>
    (received = [head |-> OverHttp(head), computed |-> computed]
       => request_verified.value)
=============================================================================
