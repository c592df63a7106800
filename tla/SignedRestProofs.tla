-------------------------- MODULE SignedRestProofs --------------------------
(***************************************************************************)
(* Proofs about SignedRest, for any number of kernel processes, workers    *)
(* and requests, any clock bounds and any set of alterable fields.         *)
(*                                                                         *)
(* The argument: whatever the network does to a request, the signature it  *)
(* arrives with is one a kernel process made, or does not parse; and a     *)
(* signature determines every field verify_incoming looks at.  So what     *)
(* verifies is, field by field, the request that signature was made for.   *)
(***************************************************************************)
EXTENDS SignedRest, TLAPS

USE WidthAssumption, DeploymentAssumption

(* r carries its own body's digest and the n-th process's signature over   *)
(* its own fields.                                                         *)
Covers(r, n) ==
  /\ r.content_digest = ContentDigest(r.parts.body)
  /\ r.signature = SignBytes(n, BaseOf(r.parts, r.content_digest, r.service_id,
                                       r.instance_id, r.signature_input))

(* m is what sign returned to the n-th kernel process.                     *)
SignedBy(m, n) ==
  LET in == m.signature_input
  IN /\ m \in WireRequests
     /\ m.service_id = KERNEL_SERVICE
     /\ m.instance_id = InstanceId(n)
     /\ in \in SignatureInputs
     /\ in.key_id = KeyId(n)
     /\ in.algorithm = "ed25519"
     /\ in.nonce \in WELL_FORMED_NONCES
     /\ in.created \in 0 .. MAX_CLOCK
     /\ in.expires \in (in.created + 1) .. I64_MAX
     /\ in.expires <= in.created + SIGNATURE_VALIDITY_SECONDS
     /\ Covers(m, n)

LEMMA BaseType ==
  ASSUME NEW parts \in RequestParts, NEW digest \in [sha256 : Bodies],
         NEW s \in SERVICE_IDS, NEW n \in 1 .. MAX_EPOCH,
         NEW in \in SignatureInputs
  PROVE  BaseOf(parts, digest, s, InstanceId(n), in) \in Bases
  BY DEF BaseOf, SignatureBase, RequestParts, Bases

(* What sign returns, when it returns a request.                           *)
LEMMA SignReturns ==
  ASSUME NEW parts \in CALLS, NEW n \in 1 .. MAX_EPOCH,
         NEW c \in 0 .. MAX_CLOCK, NEW e \in Expiries(c), NEW nonce \in NONCES,
         Sign(parts, KernelCredential(n), c, e, nonce).ok
  PROVE  /\ SignedBy(Sign(parts, KernelCredential(n), c, e, nonce).value, n)
         /\ Sign(parts, KernelCredential(n), c, e, nonce).value
              .signature_input.created = c
  <1> DEFINE digest == ContentDigest(parts.body)
             in == SignatureParameters(c, e, nonce, KeyId(n))
             base == BaseOf(parts, digest, KERNEL_SERVICE, InstanceId(n), in)
             m == [parts           |-> parts,
                   service_id      |-> KERNEL_SERVICE,
                   instance_id     |-> InstanceId(n),
                   content_digest  |-> digest,
                   signature_input |-> in,
                   signature       |-> SignBytes(n, base)]
  <1>1. /\ ValidateSignatureMetadata(c, e, nonce).ok
        /\ Sign(parts, KernelCredential(n), c, e, nonce).value = m
    BY DEF Sign, SignWith, KernelCredential, Generate, ClientPublicKey, Ok
  <1>2. /\ c \in Int /\ e \in Int
        /\ c < e
        /\ e <= c + SIGNATURE_VALIDITY_SECONDS
        /\ e <= I64_MAX
        /\ nonce \in WELL_FORMED_NONCES
    BY <1>1 DEF ValidateSignatureMetadata, WrappingSub, Span, Err, Ok, Expiries
  <1>3. in \in SignatureInputs
    BY <1>2 DEF SignatureParameters, SignatureInputs
  <1>4. parts \in RequestParts /\ digest \in [sha256 : Bodies]
    BY DEF RequestParts, ContentDigest
  <1>5. base \in Bases
    BY <1>3, <1>4, BaseType
  <1>6. m \in WireRequests
    BY <1>3, <1>4, <1>5 DEF WireRequests, SignBytes
  <1>7. SignedBy(m, n)
    BY <1>2, <1>3, <1>6 DEF SignedBy, Covers, SignatureParameters
  <1>8. m.signature_input.created = c
    BY DEF SignatureParameters
  <1>9. QED
    BY <1>1, <1>7, <1>8

-----------------------------------------------------------------------------
SentOK == \A m \in sent : \E n \in 1 .. epoch : SignedBy(m, n)

Signatures == {m.signature : m \in sent}

(* A delivered request has the shape of a request, and its signature is    *)
(* one that was sent or does not parse.                                    *)
LEMMA DeliveredShape ==
  ASSUME SentOK, NEW m \in sent, NEW wire \in Delivered(m)
  PROVE  /\ wire \in WireRequests
         /\ wire.signature \in Signatures \cup {GARBLED}
  <1>1. /\ m \in WireRequests
        /\ m.signature_input \in SignatureInputs
        /\ m.signature \in Signatures
    BY DEF Signatures, SentOK, SignedBy, Covers
  <1>2. wire.parts \in RequestParts
    <2>1. m.parts \in RequestParts
      BY <1>1 DEF WireRequests
    <2>2. wire.parts \in ArrivingParts(m.parts)
      BY DEF Delivered
    <2>3. QED
      BY <2>1, <2>2 DEF ArrivingParts, Arrives, RequestParts
  <1>3. /\ wire.service_id \in SERVICE_IDS \cup {GARBLED}
        /\ wire.instance_id \in {InstanceId(n) : n \in 1 .. MAX_EPOCH}
                                  \cup {GARBLED}
        /\ wire.content_digest \in [sha256 : Bodies]
    BY <1>1 DEF Delivered, Arrives, WireRequests, ContentDigest
  <1>4. wire.signature_input \in SignatureInputs \cup {GARBLED}
    <2> DEFINE in == m.signature_input
               Rsa == [in EXCEPT !.algorithm = "rsa"]
               NoKey == [in EXCEPT !.key_id = GARBLED]
               Respelled == [in EXCEPT !.spelling = "other"]
               Created(t) == [in EXCEPT !.created = t]
               Expires(t) == [in EXCEPT !.expires = t]
               Nonce(n) == [in EXCEPT !.nonce = n]
    <2>1. {Rsa, NoKey, Respelled} \subseteq SignatureInputs
      BY <1>1 DEF SignatureInputs
    <2>2. \A t \in Int : /\ Created(t) \in SignatureInputs
                         /\ Expires(t) \in SignatureInputs
      BY <1>1 DEF SignatureInputs
    <2>3. \A n \in NONCES : Nonce(n) \in SignatureInputs
      BY <1>1 DEF SignatureInputs
    <2>4. in.created + 1 \in Int /\ in.expires + 1 \in Int
      BY <1>1 DEF SignatureInputs
    <2>5. \A o \in sent : o.signature_input \in SignatureInputs
      BY DEF SentOK, SignedBy
    <2>6. OtherInputs(in) =
            UNION { {GARBLED, Rsa, NoKey, Respelled},
                    {Created(t) : t \in {-1, in.created + 1}},
                    {Expires(t) : t \in {in.expires + 1, I64_MAX + 1}},
                    {Nonce(n) : n \in NONCES},
                    {o.signature_input : o \in sent} }
      BY Zenon DEF OtherInputs
    <2> HIDE DEF Rsa, NoKey, Respelled, Created, Expires, Nonce
    <2>7. OtherInputs(in) \subseteq SignatureInputs \cup {GARBLED}
      BY <2>1, <2>2, <2>3, <2>4, <2>5, <2>6
    <2>8. wire.signature_input \in {in} \cup OtherInputs(in)
      BY DEF Delivered, Arrives
    <2>9. QED
      BY <1>1, <2>7, <2>8
  <1>5. wire.signature \in Signatures \cup {GARBLED}
    BY <1>1 DEF Delivered, Arrives, Signatures
  <1>6. Signatures \subseteq [signing_key : 1 .. MAX_EPOCH, message : Bases]
                               \cup {GARBLED}
    BY DEF Signatures, SentOK, SignedBy, Covers, WireRequests
  <1>7. wire \in WireRequests
    <2>1. wire = [parts           |-> wire.parts,
                  service_id      |-> wire.service_id,
                  instance_id     |-> wire.instance_id,
                  content_digest  |-> wire.content_digest,
                  signature_input |-> wire.signature_input,
                  signature       |-> wire.signature]
      BY DEF Delivered
    <2>2. QED
      BY <1>2, <1>3, <1>4, <1>5, <1>6, <2>1 DEF WireRequests
  <1>8. QED
    BY <1>5, <1>7

-----------------------------------------------------------------------------
(* What it takes for verify_incoming to accept: the parsed parameters are  *)
(* within bounds and fresh, the digest is that of the body, and the        *)
(* signature is the one the key makes of exactly these fields.             *)
Verified(r, n, t) ==
  LET in == r.signature_input
  IN /\ in \in SignatureInputs
     /\ in.expires <= in.created + SIGNATURE_VALIDITY_SECONDS
     /\ in.created - CLOCK_SKEW_SECONDS <= t
     /\ t <= in.expires + CLOCK_SKEW_SECONDS
     /\ Covers(r, n)

LEMMA InputAccepted ==
  ASSUME NEW in \in SignatureInputs \cup {GARBLED},
         ParseSignatureInput(in).ok
  PROVE  /\ in \in SignatureInputs
         /\ in.created \in 0 .. I64_MAX
         /\ in.expires \in 0 .. I64_MAX
         /\ in.expires <= in.created + SIGNATURE_VALIDITY_SECONDS
         /\ ParseSignatureInput(in).value =
              [parameters |-> in, created |-> in.created,
               expires |-> in.expires, key_id |-> in.key_id]
  <1>1. /\ in # GARBLED
        /\ in.created \in 0 .. I64_MAX
        /\ in.expires \in 0 .. I64_MAX
        /\ ValidateSignatureMetadata(in.created, in.expires, in.nonce).ok
        /\ ParseSignatureInput(in).value =
             [parameters |-> in, created |-> in.created,
              expires |-> in.expires, key_id |-> in.key_id]
    BY DEF ParseSignatureInput, ParsesAsTimestamp, Ok, Err
  <1>2. in.expires <= in.created + SIGNATURE_VALIDITY_SECONDS
    BY <1>1 DEF ValidateSignatureMetadata, WrappingSub, Span, Ok, Err
  <1>3. QED
    BY <1>1, <1>2

LEMMA AcceptedMeansVerified ==
  ASSUME NEW r \in WireRequests, NEW n \in 1 .. MAX_EPOCH,
         NEW t \in 0 .. MAX_CLOCK,
         VerifyIncoming(r, KernelKey(n), t).ok
  PROVE  Verified(r, n, t)
  <1> DEFINE in == r.signature_input
             metadata == ParseSignatureInput(in)
             base == BaseOf(r.parts, r.content_digest, r.service_id,
                            r.instance_id, in)
  <1>1. /\ metadata.ok
        /\ VerifyParsed(r, metadata.value, KernelKey(n), t).ok
    BY DEF VerifyIncoming, Err
  <1>2. in \in SignatureInputs \cup {GARBLED}
    BY DEF WireRequests
  <1>3. /\ in \in SignatureInputs
        /\ in.created \in 0 .. I64_MAX
        /\ in.expires \in 0 .. I64_MAX
        /\ in.expires <= in.created + SIGNATURE_VALIDITY_SECONDS
        /\ metadata.value = [parameters |-> in, created |-> in.created,
                             expires |-> in.expires, key_id |-> in.key_id]
    BY <1>1, <1>2, InputAccepted
  <1>4. /\ ValidateSignatureTime(in.created, in.expires, t).ok
        /\ r.content_digest = ContentDigest(r.parts.body)
        /\ ParseSignature(r.signature).ok
        /\ VerifyBytes(KernelKey(n).public_key, base,
                       ParseSignature(r.signature).value).ok
    BY <1>1, <1>3 DEF VerifyParsed, Ok, Err
  <1>5. /\ in.created - CLOCK_SKEW_SECONDS <= t
        /\ t <= in.expires + CLOCK_SKEW_SECONDS
    BY <1>3, <1>4 DEF ValidateSignatureTime, SaturatingAdd, Ok, Err
  <1>6. r.signature = SignBytes(n, base)
    BY <1>4 DEF ParseSignature, VerifyBytes, KernelKey, KernelCredential,
                Generate, ClientPublicKey, KeyBytes, Ok, Err
  <1>7. QED
    BY <1>3, <1>4, <1>5, <1>6 DEF Verified, Covers

(* A signature belongs to one request only.                                *)
LEMMA SignatureDetermines ==
  ASSUME NEW r \in WireRequests, NEW n, Covers(r, n),
         NEW m \in WireRequests, NEW k, Covers(m, k),
         r.signature = m.signature
  PROVE  r = m
  <1>1. SignBytes(n, BaseOf(r.parts, r.content_digest, r.service_id,
                            r.instance_id, r.signature_input)) =
        SignBytes(k, BaseOf(m.parts, m.content_digest, m.service_id,
                            m.instance_id, m.signature_input))
    BY DEF Covers
  <1>2. /\ r.parts.method = m.parts.method
        /\ r.parts.target_uri = m.parts.target_uri
        /\ r.parts.content_type = m.parts.content_type
        /\ r.parts.request_id = m.parts.request_id
        /\ r.content_digest = m.content_digest
        /\ r.service_id = m.service_id
        /\ r.instance_id = m.instance_id
        /\ r.signature_input = m.signature_input
    BY <1>1 DEF SignBytes, BaseOf, SignatureBase
  <1>3. r.parts.body = m.parts.body
    BY <1>2 DEF Covers, ContentDigest
  <1>4. r.parts = m.parts
    BY <1>2, <1>3 DEF WireRequests, RequestParts
  <1>5. QED
    BY <1>2, <1>4 DEF WireRequests

-----------------------------------------------------------------------------
(* What a worker that is not idle holds.                                   *)
WorkOK(r) ==
  /\ r.pc # "idle" =>
       /\ r.request \in WireRequests
       /\ r.request.signature \in Signatures \cup {GARBLED}
  /\ r.pc \in {"verify", "reply"} => r.key \in KernelKeys

AcceptedOK(a) ==
  LET in == a.request.signature_input
  IN /\ a.request \in sent
     /\ in \in SignatureInputs
     /\ in.expires <= in.created + SIGNATURE_VALIDITY_SECONDS
     /\ in.created - CLOCK_SKEW_SECONDS <= a.now
     /\ a.now <= in.expires + CLOCK_SKEW_SECONDS

(* The inductive invariant.                                                *)
IInv ==
  /\ TypeOK
  /\ SentOK
  /\ \A w \in WORKERS : WorkOK(work[w])
  /\ \A a \in accepted : AcceptedOK(a)

LEMMA InitIInv == Init => IInv
  <1> SUFFICES ASSUME Init PROVE IInv
    OBVIOUS
  <1>1. Idle \in Work /\ WorkOK(Idle)
    BY DEF Idle, Work, WorkOK
  <1>2. TypeOK
    BY <1>1 DEF Init, TypeOK
  <1>3. QED
    BY <1>1, <1>2 DEF Init, IInv, SentOK

(* A step that replaces what one worker holds, and nothing else, preserves *)
(* the invariant if what it holds then is in order.                        *)
LEMMA OneWorkerStep ==
  ASSUME IInv, NEW w \in WORKERS, NEW r \in Work, WorkOK(r),
         work' = [work EXCEPT ![w] = r],
         UNCHANGED <<epoch, kernel_clock, clock, sent, accepted>>,
         cache' \in KernelKeys \cup {NONE}
  PROVE  IInv'
  <1>1. TypeOK'
    BY DEF IInv, TypeOK
  <1>2. SentOK'
    BY DEF IInv, SentOK, SignedBy, Covers
  <1>3. \A v \in WORKERS : WorkOK(work[v])'
    BY DEF IInv, TypeOK, WorkOK, Signatures
  <1>4. \A a \in accepted' : AcceptedOK(a)'
    BY DEF IInv, AcceptedOK
  <1>5. QED
    BY <1>1, <1>2, <1>3, <1>4 DEF IInv

LEMMA TickIInv ==
  ASSUME IInv, TickKernel \/ TickService
  PROVE  IInv'
  <1>1. TypeOK'
    BY DEF IInv, TypeOK, TickKernel, TickService
  <1>2. UNCHANGED <<epoch, sent, cache, work, accepted>>
    BY DEF TickKernel, TickService
  <1>3. SentOK' /\ (\A w \in WORKERS : WorkOK(work[w]))'
    BY <1>2 DEF IInv, SentOK, SignedBy, Covers, WorkOK, Signatures
  <1>4. (\A a \in accepted : AcceptedOK(a))'
    BY <1>2 DEF IInv, AcceptedOK
  <1>5. QED
    BY <1>1, <1>3, <1>4 DEF IInv

LEMMA RestartIInv ==
  ASSUME IInv, RestartKernel
  PROVE  IInv'
  <1>1. /\ epoch \in 1 .. MAX_EPOCH
        /\ epoch' = epoch + 1
        /\ epoch < MAX_EPOCH
        /\ UNCHANGED <<kernel_clock, clock, sent, cache, work, accepted>>
    BY DEF RestartKernel, IInv, TypeOK
  <1>2. TypeOK'
    BY <1>1 DEF IInv, TypeOK
  <1>3. SentOK'
    BY <1>1 DEF IInv, SentOK, SignedBy, Covers
  <1>4. (\A w \in WORKERS : WorkOK(work[w]))'
    BY <1>1 DEF IInv, WorkOK, Signatures
  <1>5. (\A a \in accepted : AcceptedOK(a))'
    BY <1>1 DEF IInv, AcceptedOK
  <1>6. QED
    BY <1>2, <1>3, <1>4, <1>5 DEF IInv

LEMMA SendAdds ==
  ASSUME IInv, SendRequest
  PROVE  \E m : /\ SignedBy(m, epoch)
               /\ m.parts \in CALLS
               /\ m.signature_input.created = kernel_clock
               /\ sent' = sent \cup {m}
  <1>1. epoch \in 1 .. MAX_EPOCH /\ kernel_clock \in 0 .. MAX_CLOCK
    BY DEF IInv, TypeOK
  <1>2. PICK parts \in CALLS, nonce \in NONCES,
             expires \in Expiries(kernel_clock) :
          LET signed == Sign(parts, KernelCredential(epoch), kernel_clock,
                             expires, nonce)
          IN signed.ok /\ sent' = sent \cup {signed.value}
    BY DEF SendRequest
  <1>3. QED
    <2>1. Sign(parts, KernelCredential(epoch), kernel_clock, expires,
               nonce).value.parts = parts
      BY <1>2 DEF Sign, SignWith, Ok
    <2>2. QED
      BY <1>1, <1>2, <2>1, SignReturns

LEMMA SendIInv ==
  ASSUME IInv, SendRequest
  PROVE  IInv'
  <1>1. PICK m : SignedBy(m, epoch) /\ sent' = sent \cup {m}
    BY SendAdds
  <1>2. UNCHANGED <<epoch, kernel_clock, clock, cache, work, accepted>>
    BY DEF SendRequest
  <1>3. SentOK'
    <2>1. epoch \in 1 .. epoch
      BY DEF IInv, TypeOK
    <2>2. QED
      BY <1>1, <1>2, <2>1 DEF IInv, SentOK, SignedBy, Covers
  <1>4. TypeOK'
    BY <1>1, <1>2 DEF IInv, TypeOK, SignedBy
  <1>5. (\A w \in WORKERS : WorkOK(work[w]))'
    BY <1>1, <1>2 DEF IInv, WorkOK, Signatures
  <1>6. (\A a \in accepted : AcceptedOK(a))'
    BY <1>1, <1>2 DEF IInv, AcceptedOK
  <1>7. QED
    BY <1>3, <1>4, <1>5, <1>6 DEF IInv

(* The fetched identity, restored as a public key, is the kernel's own.    *)
LEMMA FetchedKey ==
  ASSUME NEW key \in KernelKeys
  PROVE  LET identity ==
               FetchKernelIdentity(Reply(200, PublishedIdentity(key)))
         IN (identity.ok /\ IdentityKey(identity.value).ok) =>
              IdentityKey(identity.value).value = key
  BY DEF FetchKernelIdentity, Reply, IsSuccess, PublishedIdentity, FromJson,
         IdentityKey, Restore, KernelKeys, KernelKey, KernelCredential,
         Generate, ClientPublicKey, KeyBytes, Ok, Err

LEMMA FetchReturnsKey ==
  ASSUME NEW w \in WORKERS, WorkOK(work[w]), FetchReturns(w)
  PROVE  /\ work' = [work EXCEPT ![w] =
                       [work[w] EXCEPT !.pc = "verify", !.key = work[w].key,
                                       !.now = clock]]
         /\ cache' = work[w].key
  <1> DEFINE identity == FetchKernelIdentity(Reply(200, Answer(w)))
  <1>1. work[w].key \in KernelKeys
    BY DEF WorkOK, FetchReturns
  <1>2. identity.ok /\ IdentityKey(identity.value).ok
    BY DEF FetchReturns
  <1>3. IdentityKey(identity.value).value = work[w].key
    BY <1>1, <1>2, FetchedKey DEF Answer
  <1>4. QED
    BY <1>3 DEF FetchReturns

LEMMA ReceiveIInv ==
  ASSUME IInv, NEW w \in WORKERS, NEW m \in sent, NEW wire \in Delivered(m),
         Receive(w, wire)
  PROVE  IInv'
  <1> DEFINE r == [pc |-> IF cache = NONE THEN "fetch" ELSE "verify",
                   request |-> wire, key |-> cache, now |-> clock,
                   refetched |-> FALSE, why |-> ""]
  <1>1. work' = [work EXCEPT ![w] = r]
    BY DEF Receive, FromWire, Ok, Err
  <1>2. /\ wire \in WireRequests
        /\ wire.signature \in Signatures \cup {GARBLED}
    BY DeliveredShape DEF IInv
  <1>3. r \in Work /\ WorkOK(r)
    BY <1>2 DEF IInv, TypeOK, Work, WorkOK
  <1>4. QED
    BY <1>1, <1>3, OneWorkerStep DEF Receive, IInv, TypeOK

LEMMA RefuseIInv ==
  ASSUME IInv, NEW w \in WORKERS, (\E wire : Refuse(w, wire)) \/ Finish(w)
  PROVE  IInv'
  <1>1. Idle \in Work /\ WorkOK(Idle)
    BY DEF Idle, Work, WorkOK
  <1>2. QED
    BY <1>1, OneWorkerStep DEF Refuse, Finish, IInv, TypeOK

(* The step that matters: what verifies was sent, and in its window.       *)
LEMMA AcceptsWhatWasSent ==
  ASSUME IInv, NEW w \in WORKERS, Accept(w)
  PROVE  /\ AcceptedOK([request |-> work[w].request, now |-> work[w].now])
         /\ work[w].request \in WireRequests
         /\ work[w].now \in 0 .. MAX_CLOCK
  <1> DEFINE r == work[w].request
             t == work[w].now
             a == [request |-> r, now |-> t]
  <1>1. /\ work[w] \in Work
        /\ r \in WireRequests
        /\ r.signature \in Signatures \cup {GARBLED}
        /\ t \in 0 .. MAX_CLOCK
        /\ VerifyIncoming(r, work[w].key, t).ok
    BY DEF IInv, TypeOK, WorkOK, Work, Accept, Verdict
  <1>2. PICK n \in 1 .. MAX_EPOCH : work[w].key = KernelKey(n)
    BY DEF IInv, WorkOK, Accept, KernelKeys
  <1>3. Verified(r, n, t)
    BY <1>1, <1>2, AcceptedMeansVerified
  <1>4. r \in sent
    <2>1. r.signature # GARBLED
      BY <1>1, <1>2 DEF VerifyIncoming, VerifyParsed, ParseSignature, Ok, Err
    <2>2. PICK m \in sent : r.signature = m.signature
      BY <1>1, <2>1 DEF Signatures
    <2>3. PICK k \in 1 .. epoch : SignedBy(m, k)
      BY DEF IInv, SentOK
    <2>4. QED
      BY <1>1, <1>3, <2>2, <2>3, SignatureDetermines DEF Verified, SignedBy
  <1>5. AcceptedOK(a)
    BY <1>3, <1>4 DEF AcceptedOK, Verified
  <1>6. QED
    BY <1>1, <1>5

LEMMA AcceptIInv ==
  ASSUME IInv, NEW w \in WORKERS, Accept(w)
  PROVE  IInv'
  <1> DEFINE a == [request |-> work[w].request, now |-> work[w].now]
  <1>1. AcceptedOK(a)
    BY AcceptsWhatWasSent
  <1>2. /\ accepted' = accepted \cup {a}
        /\ work' = [work EXCEPT ![w] = Idle]
        /\ UNCHANGED <<epoch, kernel_clock, clock, sent, cache>>
    BY DEF Accept
  <1>3. Idle \in Work /\ WorkOK(Idle)
    BY DEF Idle, Work, WorkOK
  <1>4. TypeOK'
    BY <1>2, <1>3, AcceptsWhatWasSent DEF IInv, TypeOK
  <1>5. SentOK'
    BY <1>2 DEF IInv, SentOK, SignedBy, Covers
  <1>6. (\A v \in WORKERS : WorkOK(work[v]))'
    BY <1>2, <1>3 DEF IInv, TypeOK, WorkOK, Signatures
  <1>7. (\A b \in accepted : AcceptedOK(b))'
    BY <1>1, <1>2 DEF IInv, AcceptedOK
  <1>8. QED
    BY <1>4, <1>5, <1>6, <1>7 DEF IInv

(* Failing verification, and the fetch that may follow.                    *)
LEMMA FailIInv ==
  ASSUME IInv, NEW w \in WORKERS, Refetch(w) \/ Reject(w) \/ FetchFails(w)
  PROVE  IInv'
  <1>1. work[w] \in Work /\ WorkOK(work[w]) /\ work[w].pc # "idle"
    BY DEF IInv, TypeOK, Refetch, Reject, FetchFails
  <1>2. CASE Refetch(w)
    <2> DEFINE r == [work[w] EXCEPT !.pc = "fetch", !.refetched = TRUE]
    <2>1. r \in Work /\ WorkOK(r)
      BY <1>1 DEF Work, WorkOK
    <2>2. QED
      BY <1>2, <2>1, OneWorkerStep DEF Refetch, IInv, TypeOK
  <1>3. ASSUME NEW why \in {"verify", "fetch"},
               work' = [work EXCEPT ![w] = Rejected(work[w].request, why)],
               UNCHANGED <<epoch, kernel_clock, clock, sent, cache, accepted>>
        PROVE  IInv'
    <2>1. /\ Rejected(work[w].request, why) \in Work
          /\ WorkOK(Rejected(work[w].request, why))
      <3> DEFINE q == work[w].request
      <3>1. /\ q \in WireRequests
            /\ q.signature \in Signatures \cup {GARBLED}
        BY <1>1 DEF WorkOK
      <3>2. 0 \in 0 .. MAX_CLOCK
        OBVIOUS
      <3>3. why \in {"", "verify", "fetch"}
        BY <1>3
      <3> HIDE DEF q
      <3>4. QED
        BY <3>1, <3>2, <3>3 DEF Rejected, Work, WorkOK, q
    <2>2. QED
      BY <1>3, <2>1, OneWorkerStep DEF IInv, TypeOK
  <1>4. QED
    BY <1>2, <1>3 DEF Reject, FetchFails

LEMMA FetchIInv ==
  ASSUME IInv, NEW w \in WORKERS, KernelAnswers(w) \/ FetchReturns(w)
  PROVE  IInv'
  <1>1. work[w] \in Work /\ WorkOK(work[w]) /\ epoch \in 1 .. MAX_EPOCH
    BY DEF IInv, TypeOK
  <1>2. CASE KernelAnswers(w)
    <2> DEFINE r == [work[w] EXCEPT !.pc = "reply", !.key = KernelKey(epoch)]
    <2>1. r \in Work /\ WorkOK(r)
      BY <1>1, <1>2 DEF Work, WorkOK, KernelKeys, KernelAnswers
    <2>2. QED
      BY <1>2, <2>1, OneWorkerStep DEF KernelAnswers, IInv, TypeOK
  <1>3. CASE FetchReturns(w)
    <2> DEFINE key == work[w].key
               r == [work[w] EXCEPT !.pc = "verify", !.key = key, !.now = clock]
    <2>1. key \in KernelKeys
      BY <1>1, <1>3 DEF WorkOK, FetchReturns
    <2>2. work' = [work EXCEPT ![w] = r] /\ cache' = key
      BY <1>1, <1>3, FetchReturnsKey
    <2>3. r \in Work /\ WorkOK(r)
      BY <1>1, <1>3, <2>1 DEF Work, WorkOK, FetchReturns, IInv, TypeOK
    <2>4. QED
      BY <1>3, <2>1, <2>2, <2>3, OneWorkerStep DEF FetchReturns
  <1>4. QED
    BY <1>2, <1>3

-----------------------------------------------------------------------------
LEMMA NextIInv == IInv /\ [Next]_vars => IInv'
  <1> SUFFICES ASSUME IInv, [Next]_vars PROVE IInv'
    OBVIOUS
  <1>1. CASE TickKernel \/ TickService
    BY <1>1, TickIInv
  <1>2. CASE RestartKernel
    BY <1>2, RestartIInv
  <1>3. CASE SendRequest
    BY <1>3, SendIInv
  <1>4. ASSUME NEW w \in WORKERS, Worker(w)
        PROVE  IInv'
    <2>1. CASE \E m \in sent : \E wire \in Delivered(m) : Receive(w, wire)
      BY <2>1, ReceiveIInv
    <2>2. CASE (\E wire : Refuse(w, wire)) \/ Finish(w)
      BY <2>2, RefuseIInv
    <2>3. CASE Accept(w)
      BY <2>3, AcceptIInv
    <2>4. CASE Refetch(w) \/ Reject(w) \/ FetchFails(w)
      BY <2>4, FailIInv
    <2>5. CASE KernelAnswers(w) \/ FetchReturns(w)
      BY <2>5, FetchIInv
    <2>6. QED
      BY <1>4, <2>1, <2>2, <2>3, <2>4, <2>5 DEF Worker
  <1>5. CASE UNCHANGED vars
    <2>1. UNCHANGED <<epoch, kernel_clock, clock, sent, cache, work, accepted>>
      BY <1>5 DEF vars
    <2>2. TypeOK' /\ SentOK'
      BY <2>1 DEF IInv, TypeOK, SentOK, SignedBy, Covers
    <2>3. /\ (\A w \in WORKERS : WorkOK(work[w]))'
          /\ (\A a \in accepted : AcceptedOK(a))'
      BY <2>1 DEF IInv, WorkOK, Signatures, AcceptedOK
    <2>4. QED
      BY <2>2, <2>3 DEF IInv
  <1>6. QED
    BY <1>1, <1>2, <1>3, <1>4, <1>5 DEF Next

LEMMA IInvHolds == Spec => []IInv
  BY InitIInv, NextIInv, PTL DEF Spec

(* Every value stays of its kind: among others, what a worker verifies     *)
(* always has the shape of a request, however it was altered on the way.   *)
THEOREM TypeCorrect == Spec => []TypeOK
  <1>1. IInv => TypeOK
    BY DEF IInv
  <1>2. QED
    BY <1>1, IInvHolds, PTL

(* verify_incoming accepts nothing but what a kernel process signed.       *)
THEOREM AcceptedIsAuthentic == Spec => []Authentic
  <1>1. IInv => Authentic
    BY DEF IInv, Authentic, AcceptedOK
  <1>2. QED
    BY <1>1, IInvHolds, PTL

(* A repeated delivery verifies again only within the validity period plus *)
(* twice the skew, whatever the two clocks do.                             *)
THEOREM DuplicatesAreBounded == Spec => []DuplicateWindow
  <1>1. IInv => DuplicateWindow
    <2> SUFFICES ASSUME IInv, NEW a \in accepted, NEW b \in accepted,
                        a.request = b.request
                 PROVE  a.now - b.now <= SIGNATURE_VALIDITY_SECONDS
                                           + 2 * CLOCK_SKEW_SECONDS
      BY DEF DuplicateWindow
    <2>1. AcceptedOK(a) /\ AcceptedOK(b)
      BY DEF IInv
    <2>2. a.now \in Int /\ b.now \in Int
      BY DEF IInv, TypeOK
    <2>3. a.request.signature_input \in SignatureInputs
      BY <2>1 DEF AcceptedOK
    <2>4. QED
      BY <2>1, <2>2, <2>3 DEF AcceptedOK, SignatureInputs
  <1>2. QED
    BY <1>1, IInvHolds, PTL

-----------------------------------------------------------------------------
(* Refinement.  Of the fields of a request only those a signature attests  *)
(* are kept, and a step that neither signs nor accepts is a stutter.       *)

LEMMA SendAttests ==
  ASSUME IInv, SendRequest
  PROVE  Delivery!Next
  <1>1. PICK m : /\ SignedBy(m, epoch)
                 /\ m.parts \in CALLS
                 /\ sent' = sent \cup {m}
    BY SendAdds
  <1>2. Statement(m) \in Statements
    BY <1>1 DEF Statement, Statements, SignedBy, IInv, TypeOK
  <1>3. Delivery!Attest(Statement(m))
    BY <1>1 DEF Delivery!Attest, Statement, SignedBy, SignatureInputs,
                SendRequest
  <1>4. QED
    BY <1>2, <1>3 DEF Delivery!Next

LEMMA AcceptDelivers ==
  ASSUME IInv, NEW w \in WORKERS, Accept(w)
  PROVE  Delivery!Next
  <1> DEFINE a == [request |-> work[w].request, now |-> work[w].now]
  <1>1. /\ accepted' = accepted \cup {a}
        /\ UNCHANGED sent
    BY DEF Accept
  <1>2. AcceptedOK(a) /\ a.now \in 0 .. MAX_CLOCK
    BY AcceptsWhatWasSent
  <1>3. PICK s \in {Statement(m) : m \in sent}, t \in 0 .. MAX_CLOCK :
          s = Statement(a.request) /\ t = a.now
    BY <1>2 DEF AcceptedOK
  <1>4. Delivery!Deliver(s, t)
    BY <1>1, <1>2, <1>3 DEF Delivery!Deliver, Delivery!Fresh, Statement,
                            AcceptedOK
  <1>5. QED
    BY <1>4 DEF Delivery!Next

(* The service delivers only what the kernel attested, while it is fresh:  *)
(* keys, wire format, cache, restarts and the network are all invisible in *)
(* AuthenticDelivery, which SignedRest implements.                         *)
THEOREM SignedRestImplementsDelivery == Spec => DeliverySpec
  <1>1. Init => Delivery!Init
    BY DEF Init, Delivery!Init
  <1>2. IInv /\ [Next]_vars => [Delivery!Next]_(Delivery!vars)
    <2> SUFFICES ASSUME IInv, [Next]_vars,
                        ~(UNCHANGED <<sent, accepted>>)
                 PROVE  Delivery!Next
      BY DEF Delivery!vars
    <2>1. CASE SendRequest
      BY <2>1, SendAttests
    <2>2. ASSUME NEW w \in WORKERS, Accept(w)
          PROVE  Delivery!Next
      BY <2>2, AcceptDelivers
    <2>3. QED
      BY <2>1, <2>2 DEF Next, vars, Worker, TickKernel, TickService,
         RestartKernel, Receive, Refuse, Refetch, Reject, Finish, KernelAnswers,
         FetchReturns, FetchFails
  <1>3. QED
    BY <1>1, <1>2, IInvHolds, PTL DEF Spec, DeliverySpec, Delivery!Spec
=============================================================================
