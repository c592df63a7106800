--------------------------- MODULE RotationProofs ---------------------------
(***************************************************************************)
(* Proofs that requests which should verify do: within the agreed skew,    *)
(* and after a restart of the kernel once the identity is fetched again.   *)
(*                                                                         *)
(* The argument: a signature a worker holds was made by a process no later *)
(* than the one that answers its fetch.  So if the request is the running  *)
(* process's own, the fetched key is its signer's, and the only check left *)
(* that can fail is freshness, which fails too late and never too early,   *)
(* because the request was signed in the past of a clock close by.         *)
(***************************************************************************)
EXTENDS SignedRestProofs

USE WidthAssumption, DeploymentAssumption

(* No two processes share an instance ID.                                  *)
LEMMA DistinctInstances ==
  ASSUME NEW n, NEW k, InstanceId(n) = InstanceId(k)
  PROVE  n = k
  BY DEF InstanceId

LEMMA SignedIsReadable ==
  ASSUME NEW n \in 1 .. MAX_EPOCH, NEW m, SignedBy(m, n)
  PROVE  /\ m.signature # GARBLED
         /\ m.signature.signing_key = n
         /\ m.signature.message.parameters = m.signature_input
  <1> DEFINE base == BaseOf(m.parts, m.content_digest, m.service_id,
                            m.instance_id, m.signature_input)
  <1>1. /\ m.parts \in RequestParts
        /\ m.content_digest \in [sha256 : Bodies]
    BY DEF SignedBy, WireRequests, Covers, RequestParts, ContentDigest
  <1>2. base \in Bases
    BY <1>1, BaseType DEF SignedBy
  <1>3. m.signature = SignBytes(n, base)
    BY DEF SignedBy, Covers
  <1>4. m.signature \in [signing_key : 1 .. MAX_EPOCH, message : Bases]
    BY <1>2, <1>3 DEF SignBytes
  <1>5. m.signature # GARBLED
    BY <1>4, GarbledAssumption
  <1>6. m.signature.signing_key = n /\ m.signature.message = base
    BY <1>3 DEF SignBytes
  <1>7. base.parameters = m.signature_input
    BY DEF BaseOf, SignatureBase
  <1>8. QED
    BY <1>5, <1>6, <1>7

(* A request as its signer sent it verifies against the signer's key       *)
(* within its window.                                                      *)
LEMMA WindowVerifies ==
  ASSUME NEW n \in 1 .. MAX_EPOCH, NEW m, SignedBy(m, n),
         NEW t \in 0 .. MAX_CLOCK,
         m.signature_input.created <= t + CLOCK_SKEW_SECONDS,
         t <= m.signature_input.expires + CLOCK_SKEW_SECONDS
  PROVE  VerifyIncoming(m, KernelKey(n), t).ok
  <1> DEFINE in == m.signature_input
             metadata == ParseSignatureInput(in)
             value == [parameters |-> in, created |-> in.created,
                       expires |-> in.expires, key_id |-> in.key_id]
             base == BaseOf(m.parts, m.content_digest, m.service_id,
                            m.instance_id, in)
  <1>1. /\ in \in SignatureInputs
        /\ in.created \in 0 .. I64_MAX
        /\ in.expires \in (in.created + 1) .. I64_MAX
        /\ in.expires <= in.created + SIGNATURE_VALIDITY_SECONDS
        /\ in.nonce \in WELL_FORMED_NONCES
        /\ in.key_id = KeyId(n)
        /\ in.algorithm = "ed25519"
        /\ m \in WireRequests
    BY DEF SignedBy
  <1>2. in # GARBLED /\ in.key_id # GARBLED /\ m.signature # GARBLED
    <2>1. in # GARBLED
      BY <1>1, GarbledAssumption
    <2>2. in.key_id # GARBLED
      BY <1>1, GarbledAssumption
    <2>3. QED
      BY <2>1, <2>2, SignedIsReadable
  <1>3. metadata.ok /\ metadata.value = value
    <2>1. ValidateSignatureMetadata(in.created, in.expires, in.nonce).ok
      BY <1>1 DEF ValidateSignatureMetadata, WrappingSub, Span, Ok, Err
    <2>2. /\ ParsesAsTimestamp(in.created)
          /\ ParsesAsTimestamp(in.expires)
      BY <1>1 DEF ParsesAsTimestamp
    <2>3. QED
      BY <1>1, <1>2, <2>1, <2>2 DEF ParseSignatureInput, Ok
  <1>4. ValidateSignatureTime(in.created, in.expires, t).ok
    BY <1>1 DEF ValidateSignatureTime, SaturatingAdd, Ok, Err
  <1>5. /\ ParseSignature(m.signature).ok
        /\ ParseSignature(m.signature).value = m.signature
    BY <1>2 DEF ParseSignature, Ok
  <1>6. VerifyBytes(KernelKey(n).public_key, base, m.signature).ok
    BY DEF VerifyBytes, SignedBy, Covers, KernelKey, KernelCredential, Generate,
           ClientPublicKey, KeyBytes, Ok
  <1>7. VerifyParsed(m, value, KernelKey(n), t).ok
    BY <1>1, <1>4, <1>5, <1>6
    DEF VerifyParsed, SignedBy, Covers, KernelKey, KernelCredential, Generate,
        ClientPublicKey, Ok
  <1>8. /\ m.service_id = KernelKey(n).service_id
        /\ m.instance_id = KernelKey(n).instance_id
    BY DEF SignedBy, KernelKey, KernelCredential, Generate, ClientPublicKey
  <1>9. QED
    BY <1>3, <1>7, <1>8 DEF VerifyIncoming

-----------------------------------------------------------------------------
ClocksOK ==
  /\ clock <= kernel_clock + CLOCK_DRIFT
  /\ kernel_clock <= clock + CLOCK_DRIFT

SignedInThePast == \A m \in sent : m.signature_input.created <= kernel_clock

(* What a worker holds when it verifies, and when it does so again.        *)
HoldsPast(r) ==
  r.pc = "verify" =>
    /\ r.now <= clock
    /\ r.request.signature # GARBLED =>
         r.request.signature.message.parameters.created <= r.now + CLOCK_DRIFT

HoldsLaterKey(r) ==
  (r.pc \in {"reply", "verify"} /\ r.refetched) =>
    \E n \in 1 .. epoch :
      /\ r.key = KernelKey(n)
      /\ r.request.signature # GARBLED => r.request.signature.signing_key <= n

(* RefetchSuffices, of what one worker holds.                              *)
RefusedLate(r) ==
  /\ CLOCK_DRIFT <= CLOCK_SKEW_SECONDS
  /\ r.pc = "rejected"
  /\ r.why = "verify"
  /\ r.request \in SentBy(epoch)
  => kernel_clock > r.request.signature_input.expires

InOrder(r) == HoldsPast(r) /\ HoldsLaterKey(r) /\ RefusedLate(r)

(* The inductive invariant of this module.                                 *)
JInv ==
  /\ IInv
  /\ ClocksOK
  /\ SignedInThePast
  /\ \A w \in WORKERS : InOrder(work[w])

(* InTimeRequestVerifies follows from the clocks alone.                    *)
LEMMA JInvInTime == JInv => InTimeRequestVerifies
  <1> SUFFICES ASSUME JInv, CLOCK_DRIFT <= CLOCK_SKEW_SECONDS, cache # NONE,
                      NEW m \in sent, m.instance_id = cache.instance_id,
                      kernel_clock <= m.signature_input.expires
               PROVE  VerifyIncoming(m, cache, clock).ok
    BY DEF InTimeRequestVerifies
  <1>1. /\ epoch \in 1 .. MAX_EPOCH
        /\ clock \in 0 .. MAX_CLOCK
        /\ kernel_clock \in 0 .. MAX_CLOCK
        /\ cache \in KernelKeys
    BY DEF JInv, IInv, TypeOK
  <1>2. PICK n \in 1 .. epoch : SignedBy(m, n)
    BY DEF JInv, IInv, SentOK
  <1>3. PICK k \in 1 .. MAX_EPOCH : cache = KernelKey(k)
    BY <1>1 DEF KernelKeys
  <1>4. n = k
    <2>1. InstanceId(n) = InstanceId(k)
      BY <1>2, <1>3 DEF SignedBy, KernelKey, KernelCredential, Generate,
                        ClientPublicKey
    <2>2. QED
      BY <2>1, DistinctInstances
  <1>5. /\ m.signature_input.created \in Int
        /\ m.signature_input.expires \in Int
        /\ m.signature_input.created <= kernel_clock
    BY <1>2 DEF SignedBy, SignatureInputs, JInv, SignedInThePast
  <1>6. /\ m.signature_input.created <= clock + CLOCK_SKEW_SECONDS
        /\ clock <= m.signature_input.expires + CLOCK_SKEW_SECONDS
    BY <1>1, <1>5 DEF JInv, ClocksOK
  <1>7. QED
    BY <1>1, <1>2, <1>3, <1>4, <1>6, WindowVerifies

-----------------------------------------------------------------------------
(* A signature in the hands of a worker was made by a process that has     *)
(* started by now, and in the past.                                        *)
LEMMA SignaturesArePast ==
  ASSUME JInv, NEW s \in Signatures
  PROVE  /\ s.signing_key \in 1 .. epoch
         /\ s.message.parameters.created \in Int
         /\ s.message.parameters.created <= kernel_clock
  <1>1. PICK m \in sent : s = m.signature
    BY DEF Signatures
  <1>2. PICK n \in 1 .. epoch : SignedBy(m, n)
    BY DEF JInv, IInv, SentOK
  <1>3. n \in 1 .. MAX_EPOCH
    BY DEF JInv, IInv, TypeOK
  <1>4. s.signing_key = n /\ s.message.parameters = m.signature_input
    BY <1>1, <1>2, <1>3, SignedIsReadable
  <1>5. m.signature_input.created \in Int
    BY <1>2 DEF SignedBy, SignatureInputs
  <1>6. QED
    BY <1>4, <1>5 DEF JInv, SignedInThePast

(* A step that replaces what one worker holds, and nothing else of what    *)
(* JInv speaks of.                                                         *)
LEMMA OneWorkerInOrder ==
  ASSUME JInv, IInv', NEW w \in WORKERS, NEW r, InOrder(r),
         work' = [work EXCEPT ![w] = r],
         UNCHANGED <<epoch, kernel_clock, clock, sent>>
  PROVE  JInv'
  <1>1. ClocksOK' /\ SignedInThePast'
    BY DEF JInv, ClocksOK, SignedInThePast
  <1>2. (\A v \in WORKERS : InOrder(work[v]))'
    BY DEF JInv, IInv, TypeOK, InOrder, HoldsPast, HoldsLaterKey, RefusedLate,
           SentBy
  <1>3. QED
    BY <1>1, <1>2 DEF JInv

LEMMA InitJInv == Init => JInv
  <1> SUFFICES ASSUME Init PROVE JInv
    OBVIOUS
  <1>1. ClocksOK /\ SignedInThePast
    BY DEF Init, ClocksOK, SignedInThePast
  <1>2. InOrder(Idle)
    BY DEF InOrder, HoldsPast, HoldsLaterKey, RefusedLate, Idle
  <1>3. QED
    BY <1>1, <1>2, InitIInv DEF Init, JInv

LEMMA TickJInv ==
  ASSUME JInv, IInv', TickKernel \/ TickService
  PROVE  JInv'
  <1>1. /\ clock \in Int /\ kernel_clock \in Int
        /\ clock <= clock' /\ kernel_clock <= kernel_clock'
        /\ clock' \in Int /\ kernel_clock' \in Int
        /\ UNCHANGED <<epoch, sent, work>>
    BY DEF TickKernel, TickService, JInv, IInv, TypeOK
  <1>2. ClocksOK'
    <2>1. CLOCK_DRIFT \in Int /\ ClocksOK
      BY DEF JInv
    <2>2. CASE TickKernel
      BY <1>1, <2>1, <2>2 DEF ClocksOK, TickKernel
    <2>3. CASE TickService
      BY <1>1, <2>1, <2>3 DEF ClocksOK, TickService
    <2>4. QED
      BY <2>2, <2>3
  <1>3. SignedInThePast'
    <2> SUFFICES ASSUME NEW m \in sent
                 PROVE  m.signature_input.created <= kernel_clock'
      BY <1>1 DEF SignedInThePast
    <2>1. m.signature_input.created \in Int
      BY DEF JInv, IInv, SentOK, SignedBy, SignatureInputs
    <2>2. QED
      BY <1>1, <2>1 DEF JInv, SignedInThePast
  <1>4. (\A w \in WORKERS : InOrder(work[w]))'
    <2> SUFFICES ASSUME NEW w \in WORKERS PROVE InOrder(work[w])'
      OBVIOUS
    <2>1. /\ work[w] \in Work /\ InOrder(work[w])
      BY DEF JInv, IInv, TypeOK
    <2>2. HoldsPast(work[w])' /\ HoldsLaterKey(work[w])'
      <3>1. work[w].now \in Int
        <4>1. work[w].now \in 0 .. MAX_CLOCK
          BY <2>1 DEF Work
        <4>2. QED
          BY <4>1
      <3>2. HoldsPast(work[w])'
        BY <1>1, <2>1, <3>1 DEF InOrder, HoldsPast
      <3>3. HoldsLaterKey(work[w])'
        BY <1>1, <2>1 DEF InOrder, HoldsLaterKey
      <3>4. QED
        BY <3>2, <3>3
    <2>3. RefusedLate(work[w])'
      <3>1. \A m \in SentBy(epoch) : m.signature_input.expires \in Int
        BY DEF JInv, IInv, SentOK, SentBy, SignedBy, SignatureInputs
      <3>2. QED
        BY <1>1, <2>1, <3>1 DEF InOrder, RefusedLate, SentBy
    <2>4. QED
      BY <2>2, <2>3 DEF InOrder
  <1>5. QED
    BY <1>2, <1>3, <1>4 DEF JInv

(* A process that has just started has sent nothing.                       *)
LEMMA RestartJInv ==
  ASSUME JInv, IInv', RestartKernel
  PROVE  JInv'
  <1>1. /\ epoch \in 1 .. MAX_EPOCH /\ epoch' = epoch + 1
        /\ UNCHANGED <<kernel_clock, clock, sent, work>>
    BY DEF RestartKernel, JInv, IInv, TypeOK
  <1>2. ClocksOK' /\ SignedInThePast'
    BY <1>1 DEF JInv, ClocksOK, SignedInThePast
  <1>3. SentBy(epoch)' = {}
    <2> SUFFICES ASSUME NEW m \in sent, m.instance_id = InstanceId(epoch + 1)
                 PROVE  FALSE
      BY <1>1 DEF SentBy
    <2>1. PICK n \in 1 .. epoch : m.instance_id = InstanceId(n)
      BY DEF JInv, IInv, SentOK, SignedBy
    <2>2. n = epoch + 1
      BY <2>1, DistinctInstances
    <2>3. QED
      BY <1>1, <2>2
  <1>4. (\A w \in WORKERS : InOrder(work[w]))'
    <2> SUFFICES ASSUME NEW w \in WORKERS PROVE InOrder(work[w])'
      OBVIOUS
    <2>1. InOrder(work[w])
      BY DEF JInv
    <2>2. HoldsPast(work[w])'
      BY <1>1, <2>1 DEF InOrder, HoldsPast
    <2>3. HoldsLaterKey(work[w])'
      BY <1>1, <2>1 DEF InOrder, HoldsLaterKey
    <2>4. RefusedLate(work[w])'
      BY <1>1, <1>3 DEF RefusedLate
    <2>5. QED
      BY <2>2, <2>3, <2>4 DEF InOrder
  <1>5. QED
    BY <1>2, <1>4 DEF JInv

(* A new request cannot turn out to be one a worker already refused: its   *)
(* signature would have been in circulation before it was made.            *)
LEMMA SendJInv ==
  ASSUME JInv, IInv', SendRequest
  PROVE  JInv'
  <1>1. PICK m : /\ SignedBy(m, epoch)
                 /\ m.signature_input.created = kernel_clock
                 /\ sent' = sent \cup {m}
    BY SendAdds DEF JInv
  <1>2. UNCHANGED <<epoch, kernel_clock, clock, cache, work, accepted>>
    BY DEF SendRequest
  <1>3. epoch \in 1 .. MAX_EPOCH /\ kernel_clock \in 0 .. MAX_CLOCK
    BY DEF JInv, IInv, TypeOK
  <1>4. ClocksOK' /\ SignedInThePast'
    BY <1>1, <1>2, <1>3 DEF JInv, ClocksOK, SignedInThePast
  <1>5. (\A w \in WORKERS : InOrder(work[w]))'
    <2> SUFFICES ASSUME NEW w \in WORKERS PROVE InOrder(work[w])'
      OBVIOUS
    <2>1. InOrder(work[w]) /\ WorkOK(work[w])
      BY DEF JInv, IInv
    <2>2. HoldsPast(work[w])'
      BY <1>2, <2>1 DEF InOrder, HoldsPast
    <2>3. HoldsLaterKey(work[w])'
      BY <1>2, <2>1 DEF InOrder, HoldsLaterKey
    <2>4. RefusedLate(work[w])'
      <3> DEFINE r == work[w].request
      <3>1. CASE work[w].pc = "rejected" /\ r = m
        <4>1. r.signature \in Signatures
          BY <1>1, <1>3, <2>1, <3>1, SignedIsReadable DEF WorkOK
        <4>2. PICK k \in sent : r.signature = k.signature
          BY <4>1 DEF Signatures
        <4>3. PICK n \in 1 .. epoch : SignedBy(k, n)
          BY DEF JInv, IInv, SentOK
        <4>4. r = k
          BY <1>1, <3>1, <4>2, <4>3, SignatureDetermines DEF SignedBy
        <4>5. sent' = sent
          BY <1>1, <3>1, <4>4
        <4>6. QED
          BY <1>2, <2>1, <4>5 DEF InOrder, RefusedLate, SentBy
      <3>2. CASE work[w].pc # "rejected" \/ r # m
        BY <1>1, <1>2, <2>1, <3>2 DEF InOrder, RefusedLate, SentBy
      <3>3. QED
        BY <3>1, <3>2
    <2>5. QED
      BY <2>2, <2>3, <2>4 DEF InOrder
  <1>6. QED
    BY <1>4, <1>5 DEF JInv

(* The last refusal: what still fails after a fetch is too old.            *)
LEMMA RejectInOrder ==
  ASSUME JInv, NEW w \in WORKERS, Reject(w)
  PROVE  RefusedLate(Rejected(work[w].request, "verify"))
  <1> DEFINE m == work[w].request
             t == work[w].now
             in == m.signature_input
  <1> SUFFICES ASSUME CLOCK_DRIFT <= CLOCK_SKEW_SECONDS, m \in SentBy(epoch)
               PROVE  kernel_clock > in.expires
    BY DEF RefusedLate, Rejected
  <1>1. /\ work[w].pc = "verify" /\ work[w].refetched
        /\ ~VerifyIncoming(m, work[w].key, t).ok
    BY DEF Reject, Verdict
  <1>2. /\ epoch \in 1 .. MAX_EPOCH
        /\ clock \in 0 .. MAX_CLOCK
        /\ kernel_clock \in 0 .. MAX_CLOCK
        /\ work[w] \in Work
    BY DEF JInv, IInv, TypeOK
  <1>3. t \in 0 .. MAX_CLOCK
    BY <1>2 DEF Work
  <1>4. SignedBy(m, epoch)
    <2>1. PICK n \in 1 .. epoch : SignedBy(m, n)
      BY DEF JInv, IInv, SentOK, SentBy
    <2>2. InstanceId(n) = InstanceId(epoch)
      BY <2>1 DEF SentBy, SignedBy
    <2>3. QED
      BY <2>1, <2>2, DistinctInstances
  <1>5. /\ m.signature # GARBLED
        /\ m.signature.signing_key = epoch
        /\ m.signature.message.parameters = in
    BY <1>2, <1>4, SignedIsReadable
  <1>6. HoldsPast(work[w]) /\ HoldsLaterKey(work[w])
    BY DEF JInv, InOrder
  <1>7. PICK n \in 1 .. epoch : work[w].key = KernelKey(n) /\ epoch <= n
    BY <1>1, <1>5, <1>6 DEF HoldsLaterKey
  <1>8. work[w].key = KernelKey(epoch)
    <2>1. n = epoch
      BY <1>2, <1>7
    <2>2. QED
      BY <1>7, <2>1
  <1>9. /\ t <= clock
        /\ in.created <= t + CLOCK_DRIFT
    BY <1>1, <1>5, <1>6 DEF HoldsPast
  <1>10. in.created \in Int /\ in.expires \in Int
    BY <1>4 DEF SignedBy, SignatureInputs
  <1>11. in.created <= t + CLOCK_SKEW_SECONDS
    BY <1>3, <1>9, <1>10
  <1>12. ~(t <= in.expires + CLOCK_SKEW_SECONDS)
    BY <1>1, <1>2, <1>3, <1>4, <1>8, <1>11, WindowVerifies
  <1>13. clock <= kernel_clock + CLOCK_DRIFT
    BY DEF JInv, ClocksOK
  <1>14. QED
    BY <1>2, <1>3, <1>9, <1>10, <1>12, <1>13

LEMMA WorkerJInv ==
  ASSUME JInv, IInv', NEW w \in WORKERS, Worker(w)
  PROVE  JInv'
  <1>1. /\ epoch \in 1 .. MAX_EPOCH
        /\ clock \in 0 .. MAX_CLOCK
        /\ kernel_clock \in 0 .. MAX_CLOCK
        /\ work[w] \in Work /\ WorkOK(work[w]) /\ InOrder(work[w])
    BY DEF JInv, IInv, TypeOK
  <1>2. InOrder(Idle)
    BY DEF InOrder, HoldsPast, HoldsLaterKey, RefusedLate, Idle
  <1>3. \A s \in Signatures : s.message.parameters.created <= clock + CLOCK_DRIFT
    <2> SUFFICES ASSUME NEW s \in Signatures
                 PROVE  s.message.parameters.created <= clock + CLOCK_DRIFT
      OBVIOUS
    <2>1. /\ s.message.parameters.created \in Int
          /\ s.message.parameters.created <= kernel_clock
      BY SignaturesArePast
    <2>2. kernel_clock <= clock + CLOCK_DRIFT
      BY DEF JInv, ClocksOK
    <2>3. QED
      BY <1>1, <2>1, <2>2
  <1>4. ASSUME NEW m \in sent, NEW wire \in Delivered(m), Receive(w, wire)
        PROVE  JInv'
    <2> DEFINE r == [pc |-> IF cache = NONE THEN "fetch" ELSE "verify",
                     request |-> wire, key |-> cache, now |-> clock,
                     refetched |-> FALSE, why |-> ""]
    <2>1. work' = [work EXCEPT ![w] = r]
      BY <1>4 DEF Receive, FromWire, Ok, Err
    <2>2. wire.signature \in Signatures \cup {GARBLED}
      BY DeliveredShape DEF JInv, IInv
    <2>3. InOrder(r)
      BY <1>1, <1>3, <2>2 DEF InOrder, HoldsPast, HoldsLaterKey, RefusedLate
    <2>4. QED
      BY <1>4, <2>1, <2>3, OneWorkerInOrder DEF Receive
  <1>5. CASE (\E wire : Refuse(w, wire)) \/ Finish(w)
    BY <1>2, <1>5, OneWorkerInOrder DEF Refuse, Finish
  <1>6. CASE Accept(w)
    BY <1>2, <1>6, OneWorkerInOrder DEF Accept
  <1>7. CASE Refetch(w)
    <2> DEFINE r == [work[w] EXCEPT !.pc = "fetch", !.refetched = TRUE]
    <2>1. r.pc = "fetch"
      BY <1>1 DEF Work
    <2>2. InOrder(r)
      BY <2>1 DEF InOrder, HoldsPast, HoldsLaterKey, RefusedLate
    <2>3. QED
      BY <1>7, <2>2, OneWorkerInOrder DEF Refetch
  <1>8. CASE Reject(w)
    <2> DEFINE r == Rejected(work[w].request, "verify")
    <2>1. r.pc = "rejected"
      BY DEF Rejected
    <2>2. RefusedLate(r)
      BY <1>8, RejectInOrder
    <2>3. InOrder(r)
      BY <2>1, <2>2 DEF InOrder, HoldsPast, HoldsLaterKey
    <2>4. QED
      BY <1>8, <2>3, OneWorkerInOrder DEF Reject
  <1>9. CASE FetchFails(w)
    <2> DEFINE r == Rejected(work[w].request, "fetch")
    <2>1. r.pc = "rejected" /\ r.why = "fetch"
      BY DEF Rejected
    <2>2. InOrder(r)
      BY <2>1 DEF InOrder, HoldsPast, HoldsLaterKey, RefusedLate
    <2>3. QED
      BY <1>9, <2>2, OneWorkerInOrder DEF FetchFails
  <1>10. CASE KernelAnswers(w)
    <2> DEFINE r == [work[w] EXCEPT !.pc = "reply", !.key = KernelKey(epoch)]
    <2>1. /\ r.pc = "reply"
          /\ r.key = KernelKey(epoch)
          /\ r.request = work[w].request
      BY <1>1 DEF Work
    <2>2. r.request.signature \in Signatures \cup {GARBLED}
      BY <1>1, <1>10, <2>1 DEF WorkOK, KernelAnswers
    <2>3. r.request.signature # GARBLED =>
            r.request.signature.signing_key <= epoch
      BY <1>1, <2>2, SignaturesArePast
    <2>4. InOrder(r)
      BY <1>1, <2>1, <2>3 DEF InOrder, HoldsPast, HoldsLaterKey, RefusedLate
    <2>5. QED
      BY <1>10, <2>4, OneWorkerInOrder DEF KernelAnswers
  <1>11. CASE FetchReturns(w)
    <2> DEFINE r == [work[w] EXCEPT !.pc = "verify", !.key = work[w].key,
                                    !.now = clock]
    <2>1. work' = [work EXCEPT ![w] = r]
      BY <1>1, <1>11, FetchReturnsKey
    <2>2. /\ r.pc = "verify"
          /\ r.now = clock
          /\ r.key = work[w].key
          /\ r.refetched = work[w].refetched
          /\ r.request = work[w].request
      BY <1>1 DEF Work
    <2>3. work[w].pc = "reply"
      BY <1>11 DEF FetchReturns
    <2>4. r.request.signature \in Signatures \cup {GARBLED}
      BY <1>1, <2>2, <2>3 DEF WorkOK
    <2>5. HoldsPast(r)
      BY <1>1, <1>3, <2>2, <2>4 DEF HoldsPast
    <2>6. HoldsLaterKey(r)
      BY <1>1, <2>2, <2>3 DEF InOrder, HoldsLaterKey
    <2>7. InOrder(r)
      BY <2>2, <2>5, <2>6 DEF InOrder, RefusedLate
    <2>8. QED
      BY <1>11, <2>1, <2>7, OneWorkerInOrder DEF FetchReturns
  <1>12. QED
    BY <1>4, <1>5, <1>6, <1>7, <1>8, <1>9, <1>10, <1>11 DEF Worker

LEMMA JInvHolds == Spec => []JInv
  <1>1. JInv /\ IInv' /\ [Next]_vars => JInv'
    <2> SUFFICES ASSUME JInv, IInv', [Next]_vars PROVE JInv'
      OBVIOUS
    <2>1. CASE TickKernel \/ TickService
      BY <2>1, TickJInv
    <2>2. CASE RestartKernel
      BY <2>2, RestartJInv
    <2>3. CASE SendRequest
      BY <2>3, SendJInv
    <2>4. ASSUME NEW w \in WORKERS, Worker(w)
          PROVE  JInv'
      BY <2>4, WorkerJInv
    <2>5. CASE UNCHANGED vars
      BY <2>5 DEF vars, JInv, ClocksOK, SignedInThePast, InOrder, HoldsPast,
                  HoldsLaterKey, RefusedLate, SentBy
    <2>6. QED
      BY <2>1, <2>2, <2>3, <2>4, <2>5 DEF Next
  <1>2. QED
    BY <1>1, InitJInv, IInvHolds, PTL DEF Spec

(* While the clocks agree within the skew, verify_incoming accepts every   *)
(* request that its signer, whose identity is cached, considers unexpired. *)
THEOREM InTimeRequestsVerify == Spec => []InTimeRequestVerifies
  BY JInvInTime, JInvHolds, PTL

(* One fetch of the identity after a failure is enough, with any number of *)
(* workers and restarts: no request of the running process is refused for  *)
(* another reason than its age.                                            *)
THEOREM OneRefetchSuffices == Spec => []RefetchSuffices
  <1>1. JInv => RefetchSuffices
    BY DEF JInv, InOrder, RefusedLate, RefetchSuffices
  <1>2. QED
    BY <1>1, JInvHolds, PTL
=============================================================================
