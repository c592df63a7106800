------------------------------ MODULE Request ------------------------------
(***************************************************************************)
(* Construction of a signed request (src/src/request.rs).                  *)
(*                                                                         *)
(* The parts of a request are those RequestParts::new accepted; authority  *)
(* and path are kept together as the target URI they are signed as.        *)
(***************************************************************************)
EXTENDS Wire, Credential

CONSTANTS Methods, TargetUris, ContentTypes, Bodies, RequestIds

RequestParts ==
  [method : Methods, target_uri : TargetUris, content_type : ContentTypes,
   body : Bodies, request_id : RequestIds]

(***************************************************************************)
(* What the signature of a request with these parts and headers covers.    *)
(* sign_with and verify_incoming both build it, from their own copies.     *)
(***************************************************************************)
BaseOf(parts, content_digest, service_id, instance_id, parameters) ==
  SignatureBase(parts.method, parts.target_uri, content_digest,
                parts.content_type, service_id, instance_id,
                parts.request_id, parameters)

SignWith(parts, public_key, created, expires, nonce, signing_key) ==
  LET metadata == ValidateSignatureMetadata(created, expires, nonce)
      digest == ContentDigest(parts.body)
      parameters ==
        SignatureParameters(created, expires, nonce, public_key.key_id)
      base == BaseOf(parts, digest, public_key.service_id,
                     public_key.instance_id, parameters)
  IN IF ~metadata.ok
       THEN metadata
       ELSE Ok([parts           |-> parts,
                service_id      |-> public_key.service_id,
                instance_id     |-> public_key.instance_id,
                content_digest  |-> digest,
                signature_input |-> parameters,
                signature       |-> SignBytes(signing_key, base)])

Sign(parts, credential, created, expires, nonce) ==
  SignWith(parts, credential.public_key, created, expires, nonce,
           credential.signing_key)
=============================================================================
