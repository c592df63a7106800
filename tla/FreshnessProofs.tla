-------------------------- MODULE FreshnessProofs --------------------------
(***************************************************************************)
(* Proofs about Freshness, for every width of the timestamps, validity and *)
(* skew.  The checks of the code are first shown equivalent to the same    *)
(* inequalities over unbounded integers; the two theorems follow.          *)
(***************************************************************************)
EXTENDS Freshness, TLAPS

USE WidthAssumption

(* validate_signature_metadata on i64 values is the rule without a width.  *)
LEMMA MetadataExact ==
  ASSUME NEW c \in I64, NEW e \in I64, NEW n
  PROVE  ValidateSignatureMetadata(c, e, n).ok <=> WellFormed(c, e, n)
  BY DEF ValidateSignatureMetadata, WrappingSub, Span, I64, Ok, Err,
         WellFormed

(* validate_signature_time on i64 values, its window not negative.         *)
LEMMA TimeExact ==
  ASSUME NEW c \in 0 .. I64_MAX, NEW e \in 0 .. I64_MAX, NEW t \in I64
  PROVE  ValidateSignatureTime(c, e, t).ok <=> Within(c, e, t)
  BY DEF ValidateSignatureTime, SaturatingAdd, I64, Ok, Err, Within

-----------------------------------------------------------------------------
(* What parse_signature_input makes of the peer's header.                  *)
LEMMA InputParses ==
  ASSUME NEW c \in Written, NEW e \in Written, NEW n \in NONCES
  PROVE  /\ ParseSignatureInput(PeerInput(c, e, n)).ok <=> WellFormed(c, e, n)
         /\ WellFormed(c, e, n) =>
              ParseSignatureInput(PeerInput(c, e, n)).value =
                [parameters |-> PeerInput(c, e, n), created |-> c,
                 expires |-> e, key_id |-> PeerKey.key_id]
  <1> DEFINE in == PeerInput(c, e, n)
  <1>1. /\ in # GARBLED
        /\ in.created = c
        /\ in.expires = e
        /\ in.nonce = n
        /\ in.key_id = PeerKey.key_id
        /\ in.algorithm = "ed25519"
    BY GarbledAssumption DEF PeerInput, SignatureParameters
  <1>2. PeerKey.key_id # GARBLED
    BY GarbledAssumption
  <1> HIDE DEF in
  <1>3. CASE c \in 0 .. I64_MAX /\ e \in 0 .. I64_MAX
    <2>1. c \in I64 /\ e \in I64
      BY <1>3 DEF I64
    <2>2. ValidateSignatureMetadata(c, e, n).ok <=> WellFormed(c, e, n)
      BY <2>1, <1>3, MetadataExact DEF WellFormed
    <2>3. QED
      BY <1>1, <1>2, <1>3, <2>2
      DEF ParseSignatureInput, ParsesAsTimestamp, Ok, Err, in
  <1>4. CASE ~(c \in 0 .. I64_MAX /\ e \in 0 .. I64_MAX)
    <2>1. ~WellFormed(c, e, n)
      BY <1>4 DEF WellFormed, Written
    <2>2. ~ParseSignatureInput(in).ok
      BY <1>1, <1>4 DEF ParseSignatureInput, ParsesAsTimestamp, Ok, Err
    <2>3. QED
      BY <2>1, <2>2 DEF in
  <1>5. QED
    BY <1>3, <1>4

(* The digest and the signature of the peer's request are right, so that   *)
(* its timestamps and nonce alone decide.                                  *)
LEMMA VerdictExact ==
  ASSUME NEW c \in Written, NEW e \in Written, NEW n \in NONCES,
         NEW t \in I64
  PROVE  VerifyIncoming(PeerRequest(c, e, n), PeerKey, t).ok <=>
           WellFormed(c, e, n) /\ Within(c, e, t)
  <1> DEFINE request == PeerRequest(c, e, n)
             metadata == ParseSignatureInput(PeerInput(c, e, n))
  <1>1. /\ request.service_id = PeerKey.service_id
        /\ request.instance_id = PeerKey.instance_id
        /\ request.signature_input = PeerInput(c, e, n)
    BY DEF PeerRequest, PeerKey, PeerCredential, Generate, ClientPublicKey
  <1>2. VerifyIncoming(request, PeerKey, t) =
          IF metadata.ok THEN VerifyParsed(request, metadata.value, PeerKey, t)
                         ELSE metadata
    BY <1>1 DEF VerifyIncoming
  <1>3. CASE ~WellFormed(c, e, n)
    BY <1>2, <1>3, InputParses
  <1>4. CASE WellFormed(c, e, n)
    <2> DEFINE value == [parameters |-> PeerInput(c, e, n), created |-> c,
                         expires |-> e, key_id |-> PeerKey.key_id]
               base == BaseOf(request.parts, request.content_digest,
                              request.service_id, request.instance_id,
                              value.parameters)
    <2>1. metadata.ok /\ metadata.value = value
      BY <1>4, InputParses
    <2>2. ValidateSignatureTime(c, e, t).ok <=> Within(c, e, t)
      <3>1. c \in 0 .. I64_MAX /\ e \in 0 .. I64_MAX
        BY <1>4 DEF WellFormed, Written
      <3>2. QED
        BY <3>1, TimeExact
    <2>3. /\ ParseSignature(request.signature).ok
          /\ ParseSignature(request.signature).value = PeerSignature(c, e, n)
      BY GarbledAssumption DEF ParseSignature, PeerRequest, Ok, Err
    <2>4. VerifyBytes(PeerKey.public_key, base, PeerSignature(c, e, n)).ok
      BY DEF VerifyBytes, PeerSignature, PeerRequest, PeerKey, PeerCredential,
             Generate, ClientPublicKey, KeyBytes, Ok, Err
    <2>5. ContentDigest(request.parts.body) = request.content_digest
      BY DEF PeerRequest
    <2>6. VerifyParsed(request, value, PeerKey, t).ok <=>
            ValidateSignatureTime(c, e, t).ok
      BY <2>3, <2>4, <2>5 DEF VerifyParsed, Ok, Err
    <2>7. QED
      BY <1>2, <1>4, <2>1, <2>2, <2>6
  <1>5. QED
    BY <1>3, <1>4

-----------------------------------------------------------------------------
Inv ==
  /\ created \in Written
  /\ expires \in Written
  /\ nonce \in NONCES
  /\ now \in I64
  /\ signed # NO_ANSWER =>
       /\ created \in I64
       /\ expires \in I64
       /\ signed = Sign(PARTS, PeerCredential, created, expires, nonce)
  /\ verified # NO_ANSWER =>
       verified = VerifyIncoming(PeerRequest(created, expires, nonce),
                                 PeerKey, now)

LEMMA InvHolds == Spec => []Inv
  <1>1. Init => Inv
    BY DEF Init, Inv
  <1>2. Inv /\ [Next]_vars => Inv'
    <2> SUFFICES ASSUME Inv, [Next]_vars PROVE Inv'
      OBVIOUS
    <2>1. CASE CallSign
      BY <2>1 DEF Inv, CallSign
    <2>2. CASE CallVerify
      BY <2>2 DEF Inv, CallVerify
    <2>3. CASE UNCHANGED vars
      BY <2>3 DEF Inv, vars
    <2>4. QED
      BY <2>1, <2>2, <2>3 DEF Next
  <1>3. QED
    BY <1>1, <1>2, PTL DEF Spec

(* FreshExactly, for every width, validity period and skew: the window in  *)
(* which verify_incoming accepts a signature has no error at either end.   *)
THEOREM FreshnessIsExact == Spec => []FreshExactly
  <1>1. Inv => FreshExactly
    BY VerdictExact DEF Inv, FreshExactly
  <1>2. QED
    BY <1>1, InvHolds, PTL

(* What sign accepts, as a formula over its arguments.                     *)
LEMMA SignExact ==
  ASSUME NEW c \in I64, NEW e \in I64, NEW n
  PROVE  Sign(PARTS, PeerCredential, c, e, n).ok <=> WellFormed(c, e, n)
  BY MetadataExact DEF Sign, SignWith, Ok, Err

(* EndsAgree, for every width, validity period and skew: sign and          *)
(* verify_incoming draw the same line between values of a signature.       *)
THEOREM SignerAndVerifierAgree == Spec => []EndsAgree
  <1> DEFINE Verdict(t) ==
               VerifyIncoming(PeerRequest(created, expires, nonce),
                              PeerKey, t).ok
  <1>1. Inv => EndsAgree
    <2> SUFFICES ASSUME Inv, signed # NO_ANSWER
                 PROVE  signed.ok <=> \E t \in I64 : Verdict(t)
      BY DEF EndsAgree
    <2>1. signed.ok <=> WellFormed(created, expires, nonce)
      BY SignExact DEF Inv
    <2>2. \A t \in I64 :
            Verdict(t) <=>
              /\ WellFormed(created, expires, nonce)
              /\ Within(created, expires, t)
      BY VerdictExact DEF Inv
    <2>3. WellFormed(created, expires, nonce) =>
            Within(created, expires, created)
      BY DEF Inv, WellFormed, Within, Written
    <2>4. created \in I64
      BY DEF Inv
    <2>5. QED
      BY <2>1, <2>2, <2>3, <2>4
  <1>2. QED
    BY <1>1, InvHolds, PTL
=============================================================================
