--------------------------- MODULE KernelIdentity ---------------------------
(***************************************************************************)
(* The identity a kernel process publishes at GET /v1/kernel-identity, and *)
(* how a caller turns a response into one (src/src/kernel_identity.rs,     *)
(* fetch_kernel_identity in src/src/transport.rs).                         *)
(***************************************************************************)
EXTENDS Credential, Http

(* The body a kernel process with this public key answers with.            *)
PublishedIdentity(public_key) ==
  [algorithm |-> "ed25519", instance_id |-> public_key.instance_id,
   key_id |-> public_key.key_id, public_key |-> public_key.public_key,
   fingerprint |-> [sha256 |-> public_key.public_key]]

(* A slip the runs must notice: the key ID taken for the instance ID.      *)
FromJsonSwapped(body) ==
  IF body = GARBLED
    THEN Err(MalformedKernelIdentity)
    ELSE Ok([instance_id |-> body.key_id, key_id |-> body.instance_id,
             public_key |-> body.public_key,
             fingerprint |-> body.fingerprint])

(***************************************************************************)
(* Every field must parse and the two byte strings must have 32 bytes.     *)
(* Nothing here asks whether the key is a curve point or whether the       *)
(* fingerprint is the digest of the key.                                   *)
(***************************************************************************)
FromJson(body) ==
  IF \/ body = GARBLED
     \/ body.algorithm # "ed25519"
     \/ GARBLED \in {body.instance_id, body.key_id,
                     body.public_key, body.fingerprint}
    THEN Err(MalformedKernelIdentity)
    ELSE Ok([instance_id |-> body.instance_id, key_id |-> body.key_id,
             public_key |-> body.public_key,
             fingerprint |-> body.fingerprint])

FetchKernelIdentity(reply) ==
  IF \/ ~reply.answered
     \/ ~IsSuccess(reply.status)
     \/ ~reply.whole
    THEN Err(Transport)
    ELSE FromJson(reply.body)

(* Slips the runs must notice: any key will do, and the fingerprint is     *)
(* taken for the key, which makes bytes that are no curve point.           *)
VerifyWithAnyKey(identity, message, signature) ==
  VerifyBytes(KeyBytes(signature.signing_key), message, signature)

VerifyWithFingerprint(identity, message, signature) ==
  VerifyBytes([identity.fingerprint.sha256 EXCEPT !.on_curve = FALSE],
              message, signature)

(* KernelIdentity::verify: the IDs and the fingerprint play no part.       *)
VerifyMessage(identity, message, signature) ==
  VerifyBytes(identity.public_key, message, signature)
=============================================================================
