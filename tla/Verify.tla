------------------------------- MODULE Verify -------------------------------
(***************************************************************************)
(* Verification of an inbound request (src/src/verify.rs).  An incoming    *)
(* request has the fields of a signed one; any header may hold a value     *)
(* other than the one its signer wrote, or GARBLED.                        *)
(***************************************************************************)
EXTENDS Request

(* from_wire parses the two IDs and copies everything else unread.         *)
FromWire(wire) ==
  IF wire.service_id = GARBLED
    THEN Err(InvalidRequestPart("service_id"))
  ELSE IF wire.instance_id = GARBLED
    THEN Err(InvalidRequestPart("instance_id"))
  ELSE Ok(wire)

(* Digits only, and no more than an i64 holds.                             *)
ParsesAsTimestamp(digits) == digits \in 0 .. I64_MAX

(* A slip the runs must notice: the numbers are parsed but not validated.  *)
ParseWithoutValidation(value) ==
  IF \/ value = GARBLED
     \/ value.algorithm # "ed25519"
     \/ value.key_id = GARBLED
    THEN Err(InvalidRequestPart("signature_input"))
  ELSE IF \/ ~ParsesAsTimestamp(value.created)
          \/ ~ParsesAsTimestamp(value.expires)
    THEN Err(InvalidRequestPart("timestamp"))
  ELSE Ok([parameters |-> value, created |-> value.created,
           expires |-> value.expires, key_id |-> value.key_id])

(***************************************************************************)
(* The parameters returned are the text received, not a text rebuilt from  *)
(* the parsed values: the signature is checked over what was sent.         *)
(***************************************************************************)
ParseSignatureInput(value) ==
  IF \/ value = GARBLED
     \/ value.algorithm # "ed25519"
    THEN Err(InvalidRequestPart("signature_input"))
  ELSE IF \/ ~ParsesAsTimestamp(value.created)
          \/ ~ParsesAsTimestamp(value.expires)
    THEN Err(InvalidRequestPart("timestamp"))
  ELSE LET metadata == ValidateSignatureMetadata(
                         value.created, value.expires, value.nonce)
       IN IF ~metadata.ok
            THEN metadata
          ELSE IF value.key_id = GARBLED
            THEN Err(InvalidRequestPart("signature_input"))
          ELSE Ok([parameters |-> value,
                   created    |-> value.created,
                   expires    |-> value.expires,
                   key_id     |-> value.key_id])

(* Base64 of exactly 64 bytes between the label and the closing colon.     *)
ParseSignature(value) ==
  IF value = GARBLED
    THEN Err(InvalidRequestPart("signature"))
    ELSE Ok(value)

(* A slip the runs must notice: what is returned does not say which of the *)
(* requests of its time was verified.                                      *)
VerifiedWithoutRequestId(request, metadata) ==
  [service_id  |-> request.service_id,
   instance_id |-> request.instance_id,
   key_id      |-> metadata.key_id,
   created     |-> metadata.created,
   expires     |-> metadata.expires]

VerifiedRequest(request, metadata) ==
  [service_id  |-> request.service_id,
   instance_id |-> request.instance_id,
   key_id      |-> metadata.key_id,
   request_id  |-> request.parts.request_id,
   created     |-> metadata.created,
   expires     |-> metadata.expires]

(* The checks that follow the parsing of Signature-Input, in their order.  *)
VerifyParsed(request, metadata, public_key, now) ==
  LET time == ValidateSignatureTime(metadata.created, metadata.expires, now)
      signature == ParseSignature(request.signature)
      base == BaseOf(request.parts, request.content_digest,
                     request.service_id, request.instance_id,
                     metadata.parameters)
  IN IF metadata.key_id # public_key.key_id
       THEN Err(InvalidRequestPart("key_id"))
     ELSE IF ~time.ok
       THEN time
     ELSE IF ContentDigest(request.parts.body) # request.content_digest
       THEN Err(InvalidSignature)
     ELSE IF ~signature.ok
       THEN signature
     ELSE IF ~VerifyBytes(public_key.public_key, base, signature.value).ok
       THEN VerifyBytes(public_key.public_key, base, signature.value)
     ELSE Ok(VerifiedRequest(request, metadata))

VerifyIncoming(request, public_key, now) ==
  LET metadata == ParseSignatureInput(request.signature_input)
  IN IF \/ request.service_id # public_key.service_id
        \/ request.instance_id # public_key.instance_id
       THEN Err(InvalidRequestPart("service_id"))
     ELSE IF ~metadata.ok
       THEN metadata
     ELSE VerifyParsed(request, metadata.value, public_key, now)
=============================================================================
