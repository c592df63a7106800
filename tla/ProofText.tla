----------------------------- MODULE ProofText -----------------------------
(***************************************************************************)
(* The message an enrollment proof signs, as the bytes it is               *)
(* (proof_message in src/src/enrollment.rs): each field after its length.  *)
(* Bytes are numbers, and so is a length, the four bytes of which are one  *)
(* number here: cut to 32 bits, that is, modulo LENGTH_SPAN.               *)
(*                                                                         *)
(* Module Enrollment keeps the message as a record.  This module says why  *)
(* that is right: the kernel, which lays out the fields that arrive, gets  *)
(* the message that was signed from those fields and from no others.       *)
(***************************************************************************)
EXTENDS Integers, Sequences

CONSTANTS
  LENGTH_SPAN,  \* 2^32 in the program
  FIELDS,       \* the nine fields of the proofs that are made
  NO_PROOF_YET  \* nothing has arrived

(* No field is as long as 4 GiB, which the code does not check.            *)
Bytes == {text \in Seq(Nat) : Len(text) < LENGTH_SPAN}

Fields ==
  [context : Bytes, challenge : Bytes, service_id : Bytes,
   instance_id : Bytes, key_id : Bytes, public_key : Bytes,
   endpoint : Bytes, pod_uid : Bytes, token_digest : Bytes]

ASSUME ProofTextAssumption ==
  /\ LENGTH_SPAN \in Nat \ {0}
  /\ FIELDS \subseteq Fields

VARIABLES
  proof_signed,     \* the fields a candidate signs
  proof_received,   \* the fields that reach the kernel
  proof_verified    \* whether the signature is one over their message

proof_vars == <<proof_signed, proof_received, proof_verified>>

(* A slip the runs must notice: the field alone.                           *)
FieldOnly(field, rest) == field \o rest

Field(field, rest) == <<Len(field) % LENGTH_SPAN>> \o (field \o rest)

ProofMessage(f) ==
  Field(f.context,
  Field(f.challenge,
  Field(f.service_id,
  Field(f.instance_id,
  Field(f.key_id,
  Field(f.public_key,
  Field(f.endpoint,
  Field(f.pod_uid,
  Field(f.token_digest, << >>)))))))))

ProofInit ==
  /\ proof_signed \in FIELDS
  /\ proof_received = NO_PROOF_YET
  /\ proof_verified = NO_PROOF_YET

ReceiveProof ==
  /\ proof_received = NO_PROOF_YET
  /\ \E f \in FIELDS : proof_received' = [fields |-> f]
  /\ UNCHANGED <<proof_signed, proof_verified>>

VerifyProof ==
  /\ proof_received # NO_PROOF_YET
  /\ proof_verified = NO_PROOF_YET
  /\ proof_verified' =
       [ok |-> ProofMessage(proof_received.fields)
                 = ProofMessage(proof_signed)]
  /\ UNCHANGED <<proof_signed, proof_received>>

ProofNext == ReceiveProof \/ VerifyProof

ProofSpec == ProofInit /\ [][ProofNext]_proof_vars
-----------------------------------------------------------------------------
(* A proof is one over the fields it was signed for and no others, however *)
(* bytes are moved between neighbouring fields of any length.              *)
ProofDetermines ==
  proof_verified # NO_PROOF_YET =>
    (proof_verified.ok => proof_received.fields = proof_signed)
=============================================================================
