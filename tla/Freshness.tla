----------------------------- MODULE Freshness -----------------------------
(***************************************************************************)
(* The timestamps and the nonce of one signature, from both ends.          *)
(*                                                                         *)
(* The signer's end is SignedRequest::sign, which takes two i64 values and *)
(* a nonce and may refuse them.  The verifier's end is verify_incoming,    *)
(* which reads the timestamps as decimal numbers that may not fit an i64.  *)
(* The request that reaches it was signed with the right key by a peer     *)
(* that checks nothing (an SDK in another language, say), so that only the *)
(* crate's own checks stand between a bad window and the caller.           *)
(***************************************************************************)
EXTENDS Verify

CONSTANTS
  PARTS,       \* the parts of the request
  SERVICE,     \* the service that signs it
  NONCES,      \* nonces, well formed or not
  NO_ANSWER    \* the call has not returned yet

ASSUME PartsAssumption == PARTS \in RequestParts

VARIABLES
  created, expires,  \* the numbers the peer wrote as timestamps
  nonce,             \* the nonce it wrote
  now,               \* the verifier's Unix time
  signed,            \* what sign returned for the same values
  verified           \* what verify_incoming returned

vars == <<created, expires, nonce, now, signed, verified>>

PeerCredential == Generate(SERVICE, 1)
PeerKey == PeerCredential.public_key

(* Numbers a header can show: beyond what an i64 holds, too.               *)
Written == -1 .. (I64_MAX + 1)

PeerInput(c, e, n) == SignatureParameters(c, e, n, PeerKey.key_id)

PeerSignature(c, e, n) ==
  SignBytes(PeerCredential.signing_key,
            BaseOf(PARTS, ContentDigest(PARTS.body), SERVICE,
                   PeerKey.instance_id, PeerInput(c, e, n)))

ASSUME GarbledAssumption ==
  /\ GARBLED # PeerKey.key_id
  /\ \A c, e \in Written, n \in NONCES :
       GARBLED \notin {PeerInput(c, e, n), PeerSignature(c, e, n)}

PeerRequest(c, e, n) ==
  [parts           |-> PARTS,
   service_id      |-> SERVICE,
   instance_id     |-> PeerKey.instance_id,
   content_digest  |-> ContentDigest(PARTS.body),
   signature_input |-> PeerInput(c, e, n),
   signature       |-> PeerSignature(c, e, n)]

Init ==
  /\ created \in Written
  /\ expires \in Written
  /\ nonce \in NONCES
  /\ now \in I64
  /\ signed = NO_ANSWER
  /\ verified = NO_ANSWER

(* sign takes i64 arguments: a number beyond them cannot be asked for.     *)
CallSign ==
  /\ signed = NO_ANSWER
  /\ created \in I64
  /\ expires \in I64
  /\ signed' = Sign(PARTS, PeerCredential, created, expires, nonce)
  /\ UNCHANGED <<created, expires, nonce, now, verified>>

CallVerify ==
  /\ verified = NO_ANSWER
  /\ verified' = VerifyIncoming(PeerRequest(created, expires, nonce),
                              PeerKey, now)
  /\ UNCHANGED <<created, expires, nonce, now, signed>>

Next == CallSign \/ CallVerify

Spec == Init /\ [][Next]_vars
-----------------------------------------------------------------------------
(* The rule in unbounded integers, with no saturation and no wrapping.     *)
WellFormed(c, e, n) ==
  /\ 0 <= c
  /\ c < e
  /\ e <= c + SIGNATURE_VALIDITY_SECONDS
  /\ e <= I64_MAX
  /\ n \in WELL_FORMED_NONCES

Within(c, e, t) ==
  /\ 0 <= t
  /\ c - CLOCK_SKEW_SECONDS <= t
  /\ t <= e + CLOCK_SKEW_SECONDS

(* verify_incoming accepts a correctly signed request exactly within its   *)
(* window, widened by the skew: neither the saturating additions nor the   *)
(* subtraction of the code on i64 moves an end of the window, at any clock *)
(* value and for any numbers in the header.                                *)
FreshExactly ==
  verified # NO_ANSWER =>
    (verified.ok <=> /\ WellFormed(created, expires, nonce)
                     /\ Within(created, expires, now))

(* The two ends agree: sign refuses exactly those values that              *)
(* verify_incoming refuses whatever its clock shows, so nothing is signed  *)
(* that can never be verified and nothing more can be verified.            *)
EndsAgree ==
  signed # NO_ANSWER =>
    (signed.ok <=>
       \E t \in I64 :
         VerifyIncoming(PeerRequest(created, expires, nonce),
                        PeerKey, t).ok)
=============================================================================
