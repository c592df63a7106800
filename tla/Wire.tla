-------------------------------- MODULE Wire --------------------------------
(***************************************************************************)
(* The wire-format primitives shared by signing and verification           *)
(* (src/src/wire.rs) and the freshness rule of src/src/verify.rs.          *)
(*                                                                         *)
(* Timestamps are i64 in the code, so they keep a width here: I64_MAX is   *)
(* the largest value (2^63 - 1 in the program, any number in a model), and *)
(* the two arithmetic operators the code applies to them, the built-in     *)
(* subtraction and saturating_add, are defined on that width.              *)
(*                                                                         *)
(* Text is abstract.  A nonce is a value that is or is not within the      *)
(* length and alphabet the code accepts; the signature base is the record  *)
(* of its components, for which module RequestText gives the reason; the   *)
(* digest of a body is the body under a tag, which says that SHA-256 does  *)
(* not collide.                                                            *)
(***************************************************************************)
EXTENDS Integers, ClientError

CONSTANTS
  I64_MAX,                     \* i64::MAX
  SIGNATURE_VALIDITY_SECONDS,  \* 30 in the program
  CLOCK_SKEW_SECONDS,          \* 5 in the program
  WELL_FORMED_NONCES           \* nonces of an accepted length and alphabet

ASSUME WidthAssumption ==
  /\ I64_MAX \in Nat
  /\ SIGNATURE_VALIDITY_SECONDS \in 1 .. I64_MAX
  /\ CLOCK_SKEW_SECONDS \in 0 .. I64_MAX

I64 == (-I64_MAX - 1) .. I64_MAX

(***************************************************************************)
(* a - b on i64 in a build without overflow checks: a difference of two    *)
(* i64 values leaves the range at most once, on either side.               *)
(***************************************************************************)
Span == 2 * (I64_MAX + 1)

WrappingSub(a, b) ==
  IF a - b > I64_MAX THEN (a - b) - Span
  ELSE IF a - b < -I64_MAX - 1 THEN (a - b) + Span
  ELSE a - b

(* A slip the runs must notice: + for saturating_add.                      *)
WrappingAdd(a, b) ==
  IF a + b > I64_MAX THEN (a + b) - Span
  ELSE IF a + b < -I64_MAX - 1 THEN (a + b) + Span
  ELSE a + b

SaturatingAdd(a, b) ==
  IF a + b > I64_MAX THEN I64_MAX
  ELSE IF a + b < -I64_MAX - 1 THEN -I64_MAX - 1
  ELSE a + b

-----------------------------------------------------------------------------
(***************************************************************************)
(* The parameters stand for their text: the values, and whether these are  *)
(* spelled as the code spells them.  Another spelling, with zeros in front *)
(* of a number or a key ID in capitals, parses to the same values but is   *)
(* another text to be signed; see module InputText.                        *)
(***************************************************************************)
SignatureParameters(created, expires, nonce, key_id) ==
  [created |-> created, expires |-> expires, nonce |-> nonce,
   key_id |-> key_id, algorithm |-> "ed25519", spelling |-> "own"]

(* Slips the runs must notice: the target is not signed, nor the digest    *)
(* header.                                                                 *)
BaseWithoutTarget(method, target_uri, digest, content_type, service_id, instance_id, request_id, parameters) ==
  [method |-> method, digest |-> digest,
   content_type |-> content_type, service_id |-> service_id,
   instance_id |-> instance_id, request_id |-> request_id,
   parameters |-> parameters]

BaseWithoutDigest(method, target_uri, digest, content_type, service_id, instance_id, request_id, parameters) ==
  [method |-> method, target_uri |-> target_uri,
   content_type |-> content_type, service_id |-> service_id,
   instance_id |-> instance_id, request_id |-> request_id,
   parameters |-> parameters]

SignatureBase(method, target_uri, digest, content_type, service_id, instance_id, request_id, parameters) ==
  [method |-> method, target_uri |-> target_uri, digest |-> digest,
   content_type |-> content_type, service_id |-> service_id,
   instance_id |-> instance_id, request_id |-> request_id,
   parameters |-> parameters]

ContentDigest(body) == [sha256 |-> body]

(***************************************************************************)
(* The checks run in this order and the first failure is returned, so the  *)
(* subtraction is only evaluated once created is known not to be negative. *)
(***************************************************************************)
ValidateSignatureMetadata(created, expires, nonce) ==
  IF created < 0
    THEN Err(InvalidRequestPart("created"))
  ELSE IF \/ expires <= created
          \/ WrappingSub(expires, created) > SIGNATURE_VALIDITY_SECONDS
    THEN Err(InvalidRequestPart("expires"))
  ELSE IF nonce \notin WELL_FORMED_NONCES
    THEN Err(InvalidRequestPart("nonce"))
  ELSE Ok("valid")

(* Slips the runs must notice: no upper end, no skew at the lower end, and *)
(* an upper end one second early.                                          *)
TimeWithoutExpiry(created, expires, now) ==
  IF now < 0 \/ created > SaturatingAdd(now, CLOCK_SKEW_SECONDS)
    THEN Err(InvalidRequestPart("freshness"))
  ELSE Ok("fresh")

TimeWithoutLeadingSkew(created, expires, now) ==
  IF \/ now < 0
     \/ created > now
     \/ SaturatingAdd(expires, CLOCK_SKEW_SECONDS) < now
    THEN Err(InvalidRequestPart("freshness"))
  ELSE Ok("fresh")

TimeOneSecondShort(created, expires, now) ==
  IF \/ now < 0
     \/ created > SaturatingAdd(now, CLOCK_SKEW_SECONDS)
     \/ SaturatingAdd(expires, CLOCK_SKEW_SECONDS) <= now
    THEN Err(InvalidRequestPart("freshness"))
  ELSE Ok("fresh")

ValidateSignatureTime(created, expires, now) ==
  IF \/ now < 0
     \/ created > SaturatingAdd(now, CLOCK_SKEW_SECONDS)
     \/ SaturatingAdd(expires, CLOCK_SKEW_SECONDS) < now
    THEN Err(InvalidRequestPart("freshness"))
  ELSE Ok("fresh")
=============================================================================
