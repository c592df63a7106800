----------------------------- MODULE Credential -----------------------------
(***************************************************************************)
(* A process's signing identity (src/src/credential.rs).                   *)
(*                                                                         *)
(* Ed25519 is symbolic.  A signing key is a number, the draw of randomness *)
(* it came from; the matching public key carries that number and whether   *)
(* its 32 bytes are a curve point; a signature is the pair of the signing  *)
(* key and the bytes it covers, and verify_strict accepts it for exactly   *)
(* that key and those bytes.  generate draws instance ID, key ID and key   *)
(* afresh, so the n-th call returns values no other call returns; the      *)
(* tags keep an instance ID, a key ID and a key from ever being equal.     *)
(***************************************************************************)
EXTENDS Naturals, ClientError

InstanceId(n) == <<"instance", n>>
KeyId(n)      == <<"key", n>>
KeyBytes(n)   == [on_curve |-> TRUE, signing_key |-> n]

ClientPublicKey(service_id, instance_id, key_id, public_key) ==
  [service_id |-> service_id, instance_id |-> instance_id,
   key_id |-> key_id, public_key |-> public_key]

(* A slip the runs must notice: the two IDs the wrong way round.           *)
RestoreSwapped(service_id, instance_id, key_id, public_key) ==
  IF public_key.on_curve
    THEN Ok(ClientPublicKey(service_id, key_id, instance_id, public_key))
    ELSE Err(InvalidPublicKey)

(* ClientPublicKey::restore refuses bytes that are not a curve point.      *)
Restore(service_id, instance_id, key_id, public_key) ==
  IF public_key.on_curve
    THEN Ok(ClientPublicKey(service_id, instance_id, key_id, public_key))
    ELSE Err(InvalidPublicKey)

(* ClientCredential::generate, the n-th time it is called.                 *)
Generate(service_id, n) ==
  [public_key |->
     ClientPublicKey(service_id, InstanceId(n), KeyId(n), KeyBytes(n)),
   signing_key |-> n]

SignBytes(signing_key, message) ==
  [signing_key |-> signing_key, message |-> message]

VerifyBytes(public_key, message, signature) ==
  IF ~public_key.on_curve
    THEN Err(InvalidPublicKey)
  ELSE IF signature # SignBytes(public_key.signing_key, message)
    THEN Err(InvalidSignature)
  ELSE Ok("verified")
=============================================================================
