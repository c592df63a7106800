----------------------------- MODULE Enrollment -----------------------------
(***************************************************************************)
(* The candidate's side of initial enrollment: the proof a new instance    *)
(* submits (src/src/enrollment.rs), and what the two enrollment calls make *)
(* of the kernel's reply (src/src/transport.rs).                           *)
(*                                                                         *)
(* A text that is trimmed is a record of its trimmed text and whether      *)
(* there is white space around it.  base64url is a wrapper that decoding   *)
(* removes; the proof message is the record of the fields it holds, for    *)
(* which module ProofText gives the reason.                                *)
(***************************************************************************)
EXTENDS Http, Credential

CONSTANTS
  HTTPS_TEXTS,  \* texts that begin with https:// and do not end there
  EMPTY,        \* the empty text
  SHORT         \* bytes that are not CHALLENGE_LENGTH long

Trim(text) == [text EXCEPT !.padded = FALSE]

Base64(bytes) == [base64url |-> bytes]

(* A slip the runs must notice: the endpoint left out of the proof.        *)
ProofWithoutEndpoint(challenge, public_key, endpoint, pod_uid, token) ==
  [context |-> "infernal-law/enrollment/v1", challenge |-> challenge,
   key |-> public_key, pod_uid |-> pod_uid,
   token_digest |-> [sha256 |-> token]]

ProofMessage(challenge, public_key, endpoint, pod_uid, token) ==
  [context |-> "infernal-law/enrollment/v1", challenge |-> challenge,
   key |-> public_key, endpoint |-> endpoint, pod_uid |-> pod_uid,
   token_digest |-> [sha256 |-> token]]

(* EnrollmentSubmission with the signature over message.                   *)
Submission(credential, challenge, endpoint, pod_uid, token, message) ==
  LET key == credential.public_key
  IN [service_id |-> key.service_id, instance_id |-> key.instance_id,
      key_id |-> key.key_id, algorithm |-> "ed25519",
      public_key |-> Base64(key.public_key),
      challenge |-> Base64(challenge), endpoint |-> endpoint,
      pod_uid |-> pod_uid, workload_token |-> token,
      signature |-> Base64(SignBytes(credential.signing_key, message))]

(* A slip the runs must notice: trimmed only after the endpoint is looked  *)
(* at, so that white space in front of https:// is refused.                *)
CheckUntrimmed(credential, challenge, endpoint, pod_uid, token) ==
  IF endpoint.padded \/ endpoint.text \notin HTTPS_TEXTS
    THEN Err(InvalidRequestPart("endpoint"))
  ELSE IF Trim(pod_uid).text = EMPTY
    THEN Err(InvalidRequestPart("pod_uid"))
  ELSE Ok(Submission(credential, challenge, Trim(endpoint), Trim(pod_uid),
            token,
            ProofMessage(challenge, credential.public_key, Trim(endpoint),
                         Trim(pod_uid), token)))

(* EnrollmentSubmission::sign.  The token is not trimmed.                  *)
SignSubmission(credential, challenge, endpoint, pod_uid, token) ==
  IF Trim(endpoint).text \notin HTTPS_TEXTS
    THEN Err(InvalidRequestPart("endpoint"))
  ELSE IF Trim(pod_uid).text = EMPTY
    THEN Err(InvalidRequestPart("pod_uid"))
  ELSE IF token = EMPTY
    THEN Err(InvalidRequestPart("workload_token"))
  ELSE Ok(Submission(credential, challenge, Trim(endpoint), Trim(pod_uid),
            token,
            ProofMessage(challenge, credential.public_key, Trim(endpoint),
                         Trim(pod_uid), token)))

(* The body request_enrollment_challenge posts.                            *)
ChallengeRequest(pod_uid, workload_token) ==
  [pod_uid |-> Trim(pod_uid), workload_token |-> workload_token]

(* A slip the runs must notice: any number of bytes will do.               *)
ChallengeOfAnyLength(issued) ==
  IF issued.challenge = GARBLED
    THEN Err(MalformedEnrollmentResponse)
    ELSE Ok(issued.challenge.base64url)

(* IssuedChallenge::challenge_bytes.                                       *)
ChallengeBytes(issued) ==
  IF issued.challenge = GARBLED
    THEN Err(MalformedEnrollmentResponse)
  ELSE IF issued.challenge.base64url = SHORT
    THEN Err(MalformedEnrollmentResponse)
  ELSE Ok(issued.challenge.base64url)

-----------------------------------------------------------------------------
(* The three JSON bodies the kernel answers with.                          *)
IssuedChallenge(challenge) ==
  [type |-> "IssuedChallenge", challenge |-> Base64(challenge)]
EnrolledInstance(instance_id) ==
  [type |-> "EnrolledInstance", instance_id |-> instance_id]
EnrollmentRejection == [type |-> "EnrollmentRejection"]

Parses(body, type) == body # GARBLED /\ body.type = type

(* A slip the runs must notice: what does not parse taken for a rejection. *)
GarbledIsRejection(reply, type) ==
  IF ~reply.answered \/ ~reply.whole THEN Err(Transport)
  ELSE IF IsSuccess(reply.status) /\ Parses(reply.body, type)
    THEN Ok(reply.body)
  ELSE Err(EnrollmentRejected)

(***************************************************************************)
(* How request_enrollment_challenge and submit_enrollment read a reply.    *)
(* The whole body is read before the status is looked at, and a body that  *)
(* is not of the shape its status calls for is malformed.                  *)
(***************************************************************************)
EnrollmentReply(reply, type) ==
  IF ~reply.answered \/ ~reply.whole
    THEN Err(Transport)
  ELSE IF IsSuccess(reply.status)
    THEN IF Parses(reply.body, type)
           THEN Ok(reply.body) ELSE Err(MalformedEnrollmentResponse)
  ELSE IF Parses(reply.body, "EnrollmentRejection")
    THEN Err(EnrollmentRejected)
  ELSE Err(MalformedEnrollmentResponse)

RequestEnrollmentChallenge(reply) == EnrollmentReply(reply, "IssuedChallenge")

(* A slip the runs must notice: any JSON taken for a success.              *)
SubmitAnyJson(reply) ==
  IF ~reply.answered \/ ~reply.whole
    THEN Err(Transport)
  ELSE IF reply.body = GARBLED
    THEN Err(MalformedEnrollmentResponse)
  ELSE Ok(reply.body)

SubmitEnrollment(reply) == EnrollmentReply(reply, "EnrolledInstance")
=============================================================================
