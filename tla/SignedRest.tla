----------------------------- MODULE SignedRest -----------------------------
(***************************************************************************)
(* A kernel process signs its outbound calls with the credential it        *)
(* generated at start, and a service that receives them verifies each one  *)
(* against the identity the kernel publishes, which it fetches once,       *)
(* caches, and fetches again when a verification fails.                    *)
(*                                                                         *)
(* What each process computes is the crate's code (Request, Verify,        *)
(* KernelIdentity).  Who calls it, and when, is outside the crate: the     *)
(* kernel's restarts, the network, the two clocks, and the service's       *)
(* workers, which follow the rule the documentation of KernelIdentity      *)
(* gives to callers.  The network may delay, reorder, repeat or drop a     *)
(* request, and may change on the way any of the fields ALTERABLE names,   *)
(* each on its own or all at once.                                         *)
(***************************************************************************)
EXTENDS Verify, KernelIdentity, FiniteSets

CONSTANTS
  KERNEL_SERVICE,   \* the service ID the kernel signs as
  SERVICE_IDS,      \* every service ID a header may name
  CALLS,            \* the request parts the kernel asks to have signed
  NONCES,           \* the nonces a caller may pass, well formed or not
  ALTERABLE,        \* names of the fields that may change in transit
  WORKERS,          \* threads of the receiving service
  NONE,             \* no identity cached, no request in hand
  CLOCK_DRIFT,      \* how far apart the two clocks may be
  MAX_CLOCK,        \* bound: last clock value
  MAX_EPOCH,        \* bound: kernel processes ever started
  MAX_SENT          \* bound: requests signed by one kernel process

ASSUME DeploymentAssumption ==
  /\ KERNEL_SERVICE \in SERVICE_IDS
  /\ CALLS \subseteq RequestParts
  /\ CLOCK_DRIFT \in Nat
  /\ MAX_CLOCK \in 0 .. I64_MAX
  /\ MAX_EPOCH \in Nat \ {0}
  /\ MAX_SENT \in Nat

VARIABLES
  epoch,         \* number of the kernel process now running
  kernel_clock,  \* the kernel's Unix time
  clock,         \* the receiving service's Unix time
  sent,          \* every request a kernel process has signed and sent
  cache,         \* the identity the service holds, as a public key, or NONE
  work,          \* what each worker of the service is doing
  accepted       \* history: requests that verified, with the time used

vars == <<epoch, kernel_clock, clock, sent, cache, work, accepted>>

KernelCredential(n) == Generate(KERNEL_SERVICE, n)
KernelKey(n) == KernelCredential(n).public_key

-----------------------------------------------------------------------------
(* Types.  Integers that come from a header may lie outside i64.           *)

SignatureInputs ==
  [created : Int, expires : Int, nonce : NONCES,
   key_id : {KeyId(n) : n \in 1 .. MAX_EPOCH} \cup {GARBLED},
   algorithm : {"ed25519", "rsa"}, spelling : {"own", "other"}]

Bases ==
  [method : Methods, target_uri : TargetUris,
   digest : [sha256 : Bodies], content_type : ContentTypes,
   service_id : SERVICE_IDS,
   instance_id : {InstanceId(n) : n \in 1 .. MAX_EPOCH},
   request_id : RequestIds, parameters : SignatureInputs]

WireRequests ==
  [parts : RequestParts,
   service_id : SERVICE_IDS \cup {GARBLED},
   instance_id : {InstanceId(n) : n \in 1 .. MAX_EPOCH} \cup {GARBLED},
   content_digest : [sha256 : Bodies],
   signature_input : SignatureInputs \cup {GARBLED},
   signature : [signing_key : 1 .. MAX_EPOCH, message : Bases]
                 \cup {GARBLED}]

KernelKeys == {KernelKey(n) : n \in 1 .. MAX_EPOCH}

(* No header a signer writes is unreadable.                                *)
ASSUME GarbledAssumption ==
  /\ GARBLED \notin SERVICE_IDS
  /\ GARBLED \notin {InstanceId(n) : n \in 1 .. MAX_EPOCH}
  /\ GARBLED \notin {KeyId(n) : n \in 1 .. MAX_EPOCH}
  /\ GARBLED \notin SignatureInputs
  /\ GARBLED \notin [signing_key : 1 .. MAX_EPOCH, message : Bases]

(***************************************************************************)
(* A worker's place in its loop, and the values it holds there:            *)
(*   idle      nothing in hand                                             *)
(*   verify    about to verify request against key at time now             *)
(*   fetch     about to send GET /v1/kernel-identity                       *)
(*   reply     the kernel has answered with key; the answer is on its way  *)
(*   rejected  refused request, for the reason in why                      *)
(* refetched says that the request in hand already failed once.            *)
(***************************************************************************)
Work ==
  [pc : {"idle", "verify", "fetch", "reply", "rejected"},
   request : WireRequests \cup {NONE},
   key : KernelKeys \cup {NONE},
   now : 0 .. MAX_CLOCK,
   refetched : BOOLEAN,
   why : {"", "verify", "fetch"}]

Idle ==
  [pc |-> "idle", request |-> NONE, key |-> NONE, now |-> 0,
   refetched |-> FALSE, why |-> ""]

Rejected(request, why) ==
  [pc |-> "rejected", request |-> request, key |-> NONE, now |-> 0,
   refetched |-> FALSE, why |-> why]

TypeOK ==
  /\ epoch \in 1 .. MAX_EPOCH
  /\ kernel_clock \in 0 .. MAX_CLOCK
  /\ clock \in 0 .. MAX_CLOCK
  /\ sent \subseteq WireRequests
  /\ cache \in KernelKeys \cup {NONE}
  /\ work \in [WORKERS -> Work]
  /\ \A a \in accepted : a \in [request : WireRequests, now : 0 .. MAX_CLOCK]

Init ==
  /\ epoch = 1
  /\ kernel_clock = 0
  /\ clock = 0
  /\ sent = {}
  /\ cache = NONE
  /\ work = [w \in WORKERS |-> Idle]
  /\ accepted = {}

-----------------------------------------------------------------------------
(* The clocks advance on their own, never more than CLOCK_DRIFT apart.     *)

TickKernel ==
  /\ kernel_clock < MAX_CLOCK
  /\ kernel_clock + 1 <= clock + CLOCK_DRIFT
  /\ kernel_clock' = kernel_clock + 1
  /\ UNCHANGED <<epoch, clock, sent, cache, work, accepted>>

TickService ==
  /\ clock < MAX_CLOCK
  /\ clock + 1 <= kernel_clock + CLOCK_DRIFT
  /\ clock' = clock + 1
  /\ UNCHANGED <<epoch, kernel_clock, sent, cache, work, accepted>>

-----------------------------------------------------------------------------
(* The kernel.                                                             *)

(* A restarted process generates a new credential and persists nothing.    *)
RestartKernel ==
  /\ epoch < MAX_EPOCH
  /\ epoch' = epoch + 1
  /\ UNCHANGED <<kernel_clock, clock, sent, cache, work, accepted>>

SentBy(n) == {m \in sent : m.instance_id = InstanceId(n)}

(***************************************************************************)
(* The kernel asks for created = its own time and any expires, among them  *)
(* the first values on either side of what sign_with accepts; a refused    *)
(* call sends nothing.                                                     *)
(***************************************************************************)
Expiries(created) ==
  {e \in created .. (created + SIGNATURE_VALIDITY_SECONDS + 1) :
     e <= I64_MAX}

SendRequest ==
  /\ Cardinality(SentBy(epoch)) < MAX_SENT
  /\ \E parts \in CALLS, nonce \in NONCES,
        expires \in Expiries(kernel_clock) :
       LET signed == Sign(parts, KernelCredential(epoch), kernel_clock,
                          expires, nonce)
       IN /\ signed.ok
          /\ sent' = sent \cup {signed.value}
  /\ UNCHANGED <<epoch, kernel_clock, clock, cache, work, accepted>>

-----------------------------------------------------------------------------
(* The network.                                                            *)

(* What a field may arrive as: its own value, and any of others where      *)
(* ALTERABLE allows it.                                                    *)
Arrives(field, own, others) ==
  {own} \cup IF field \in ALTERABLE THEN others ELSE {}

(* Other texts of Signature-Input: with values in range and not, with the  *)
(* same values spelled another way, and those of other requests.           *)
OtherInputs(in) ==
  UNION {
    {GARBLED, [in EXCEPT !.algorithm = "rsa"], [in EXCEPT !.key_id = GARBLED],
     [in EXCEPT !.spelling = "other"]},
    {[in EXCEPT !.created = t] : t \in {-1, in.created + 1}},
    {[in EXCEPT !.expires = t] : t \in {in.expires + 1, I64_MAX + 1}},
    {[in EXCEPT !.nonce = n] : n \in NONCES},
    {o.signature_input : o \in sent} }

ArrivingParts(parts) ==
  [method       : Arrives("method", parts.method, Methods),
   target_uri   : Arrives("target_uri", parts.target_uri, TargetUris),
   content_type : Arrives("content_type", parts.content_type, ContentTypes),
   body         : Arrives("body", parts.body, Bodies),
   request_id   : Arrives("request_id", parts.request_id, RequestIds)]

(***************************************************************************)
(* Everything m may arrive as.  The alterable fields change independently  *)
(* of each other, so a body may come with a digest made for it, and the    *)
(* headers and signatures of two requests may be mixed in every way.  What *)
(* does not happen is a signature no process made: that Ed25519 rules out. *)
(***************************************************************************)
Delivered(m) ==
  [parts : ArrivingParts(m.parts),
   service_id : Arrives("service_id", m.service_id, SERVICE_IDS \cup {GARBLED}),
   instance_id :
     Arrives("instance_id", m.instance_id,
             {InstanceId(n) : n \in 1 .. MAX_EPOCH} \cup {GARBLED}),
   content_digest :
     Arrives("content_digest", m.content_digest,
             {ContentDigest(b) : b \in Bodies}),
   signature_input :
     Arrives("signature_input", m.signature_input,
             OtherInputs(m.signature_input)),
   signature :
     Arrives("signature", m.signature,
             {o.signature : o \in sent} \cup {GARBLED})]

-----------------------------------------------------------------------------
(* The receiving service.                                                  *)

(***************************************************************************)
(* A worker takes up a request: the server hands it the parts and headers, *)
(* from_wire parses them, and the worker copies the cached identity and    *)
(* the time it will verify with.  Requests stay in sent, so a request may  *)
(* be delivered late, out of order, again, or never.                       *)
(***************************************************************************)
Receive(w, wire) ==
  /\ work[w].pc = "idle"
  /\ FromWire(wire).ok
  /\ work' = [work EXCEPT ![w] =
       [pc |-> IF cache = NONE THEN "fetch" ELSE "verify",
        request |-> FromWire(wire).value, key |-> cache, now |-> clock,
        refetched |-> FALSE, why |-> ""]]
  /\ UNCHANGED <<epoch, kernel_clock, clock, sent, cache, accepted>>

(* A request from_wire refuses never reaches verification.                 *)
Refuse(w, wire) ==
  /\ work[w].pc = "idle"
  /\ ~FromWire(wire).ok
  /\ work' = [work EXCEPT ![w] = Idle]
  /\ UNCHANGED <<epoch, kernel_clock, clock, sent, cache, accepted>>

Verdict(w) == VerifyIncoming(work[w].request, work[w].key, work[w].now)

Accept(w) ==
  /\ work[w].pc = "verify"
  /\ Verdict(w).ok
  /\ accepted' = accepted \cup
       {[request |-> work[w].request, now |-> work[w].now]}
  /\ work' = [work EXCEPT ![w] = Idle]
  /\ UNCHANGED <<epoch, kernel_clock, clock, sent, cache>>

(* The first failure sends the worker to fetch the identity again.         *)
Refetch(w) ==
  /\ work[w].pc = "verify"
  /\ ~Verdict(w).ok
  /\ ~work[w].refetched
  /\ work' = [work EXCEPT ![w].pc = "fetch", ![w].refetched = TRUE]
  /\ UNCHANGED <<epoch, kernel_clock, clock, sent, cache, accepted>>

Reject(w) ==
  /\ work[w].pc = "verify"
  /\ ~Verdict(w).ok
  /\ work[w].refetched
  /\ work' = [work EXCEPT ![w] = Rejected(work[w].request, "verify")]
  /\ UNCHANGED <<epoch, kernel_clock, clock, sent, cache, accepted>>

(* The worker has told its client of the refusal and is free again.        *)
Finish(w) ==
  /\ work[w].pc = "rejected"
  /\ work' = [work EXCEPT ![w] = Idle]
  /\ UNCHANGED <<epoch, kernel_clock, clock, sent, cache, accepted>>

-----------------------------------------------------------------------------
(***************************************************************************)
(* fetch_kernel_identity, a blocking call.  The kernel process running     *)
(* when the call arrives answers with its own identity; the answer may be  *)
(* read by the worker much later, after a restart or after another         *)
(* worker's fetch, or not at all.                                          *)
(***************************************************************************)
KernelAnswers(w) ==
  /\ work[w].pc = "fetch"
  /\ work' = [work EXCEPT ![w].pc = "reply", ![w].key = KernelKey(epoch)]
  /\ UNCHANGED <<epoch, kernel_clock, clock, sent, cache, accepted>>

Answer(w) == PublishedIdentity(work[w].key)

(***************************************************************************)
(* What a caller may get instead of the answer: nothing in time, a status  *)
(* that is not a success, a body cut short, a body that does not parse, an *)
(* identity for another algorithm, or one that parses although its key is  *)
(* no curve point, which the conversion to a ClientPublicKey refuses.      *)
(***************************************************************************)
FaultyReplies(body) ==
  {NoReply, Reply(503, body), CutShort(Reply(200, body)),
   Reply(200, GARBLED),
   Reply(200, [body EXCEPT !.algorithm = "rsa"]),
   Reply(200, [body EXCEPT !.public_key.on_curve = FALSE])}

(* The identity as the public key verify_incoming takes.                   *)
IdentityKey(identity) ==
  Restore(KERNEL_SERVICE, identity.instance_id, identity.key_id,
          identity.public_key)

FetchReturns(w) ==
  /\ work[w].pc = "reply"
  /\ LET identity == FetchKernelIdentity(Reply(200, Answer(w)))
         key == IdentityKey(identity.value)
     IN /\ identity.ok
        /\ key.ok
        /\ cache' = key.value
        /\ work' = [work EXCEPT ![w].pc = "verify", ![w].key = key.value,
                                ![w].now = clock]
  /\ UNCHANGED <<epoch, kernel_clock, clock, sent, accepted>>

FetchFails(w) ==
  /\ work[w].pc \in {"fetch", "reply"}
  /\ \E reply \in IF work[w].pc = "fetch" THEN {NoReply}
                  ELSE FaultyReplies(Answer(w)) :
       LET identity == FetchKernelIdentity(reply)
       IN identity.ok => ~IdentityKey(identity.value).ok
  /\ work' = [work EXCEPT ![w] = Rejected(work[w].request, "fetch")]
  /\ UNCHANGED <<epoch, kernel_clock, clock, sent, cache, accepted>>

-----------------------------------------------------------------------------
(* Only a worker that is free takes a request up, so that TLC need not     *)
(* list what could arrive for the others.                                  *)
Worker(w) ==
  \/ /\ work[w].pc = "idle"
     /\ \E m \in sent : \E wire \in Delivered(m) :
          Receive(w, wire) \/ Refuse(w, wire)
  \/ Accept(w)
  \/ Refetch(w)
  \/ Reject(w)
  \/ Finish(w)
  \/ KernelAnswers(w)
  \/ FetchReturns(w)
  \/ FetchFails(w)

Next ==
  \/ TickKernel
  \/ TickService
  \/ RestartKernel
  \/ SendRequest
  \/ \E w \in WORKERS : Worker(w)

Spec == Init /\ [][Next]_vars
-----------------------------------------------------------------------------
(***************************************************************************)
(* Fairness.  The calls the crate makes are blocking and return (its HTTP  *)
(* client has a timeout), and the threads that make them are scheduled, so *)
(* a worker that can go on does.  Of the environment it is assumed that    *)
(* the running kernel goes on making calls, that its calls go on reaching  *)
(* the service, and that a fetch tried again and again is answered and     *)
(* read some time.                                                         *)
(***************************************************************************)
ReceiveCurrent(w) == \E m \in SentBy(epoch) : Receive(w, m)

Fairness ==
  /\ WF_vars(SendRequest)
  /\ \A w \in WORKERS :
       /\ WF_vars(Accept(w))
       /\ WF_vars(Refetch(w))
       /\ WF_vars(Reject(w))
       /\ WF_vars(Finish(w))
       /\ WF_vars(FetchFails(w))
       /\ SF_vars(KernelAnswers(w))
       /\ SF_vars(FetchReturns(w))
       /\ SF_vars(ReceiveCurrent(w))

FairSpec == Spec /\ Fairness

-----------------------------------------------------------------------------
(***************************************************************************)
(* Safety.                                                                 *)
(***************************************************************************)

(* verify_incoming accepts nothing but what a kernel process signed: a     *)
(* request that verified is, field by field, one that was sent, in         *)
(* whichever fields and however many of them it was changed in transit,    *)
(* the body and its digest together among them, and whichever process's    *)
(* identity was cached.                                                    *)
Authentic == \A a \in accepted : a.request \in sent

(* A request that is delivered more than once verifies again only within   *)
(* SIGNATURE_VALIDITY_SECONDS plus the skew on either side: that is how    *)
(* long a receiver has to remember requests to notice the repetition,      *)
(* since verify_incoming itself remembers nothing.                         *)
DuplicateWindow ==
  \A a, b \in accepted :
    a.request = b.request =>
      a.now - b.now <= SIGNATURE_VALIDITY_SECONDS + 2 * CLOCK_SKEW_SECONDS

(* While the clocks agree within the skew verify_incoming tolerates, a     *)
(* request its signer does not yet consider expired verifies against the   *)
(* cached identity of that signer, at either end of the i64 range too.     *)
InTimeRequestVerifies ==
  (CLOCK_DRIFT <= CLOCK_SKEW_SECONDS /\ cache # NONE) =>
    \A m \in sent :
      /\ m.instance_id = cache.instance_id
      /\ kernel_clock <= m.signature_input.expires
      => VerifyIncoming(m, cache, clock).ok

(* Fetching the identity again after a failure is enough: a worker never   *)
(* refuses, after a fetch that succeeded, a request the running kernel     *)
(* process signed, that arrived as it was sent and has not expired, even   *)
(* with other workers fetching and the kernel restarting meanwhile.        *)
RefetchSuffices ==
  CLOCK_DRIFT <= CLOCK_SKEW_SECONDS =>
    \A w \in WORKERS :
      /\ work[w].pc = "rejected"
      /\ work[w].why = "verify"
      /\ work[w].request \in SentBy(epoch)
      => kernel_clock > work[w].request.signature_input.expires

(* What the documentation of KernelIdentity says of a failed verification: *)
(* that it is the signal that the kernel process restarted and rotated its *)
(* key.  The code fails for other reasons too: see the run that refutes it.*)
FailureMeansRotation ==
  \A w \in WORKERS :
    (work[w].pc = "fetch" /\ work[w].refetched) =>
      work[w].key # KernelKey(epoch)

-----------------------------------------------------------------------------
(***************************************************************************)
(* Liveness.                                                               *)
(***************************************************************************)

(* Once the kernel stops restarting, the cached identity becomes that of   *)
(* the running process and stays so, although an answer read late can      *)
(* overwrite a newer identity with an older one on the way.                *)
CacheCatchesUp == <>[](cache = KernelKey(epoch))

(* A restart of the kernel needs no operator: some call of the process     *)
(* that runs in the end is verified, accepted and acted on.                *)
RestartSurvived ==
  epoch = MAX_EPOCH ~> \E a \in accepted : a.request \in SentBy(epoch)

-----------------------------------------------------------------------------
(***************************************************************************)
(* Refinement: seen from outside, the service only delivers what the       *)
(* kernel attested, and only while the attestation is fresh.               *)
(***************************************************************************)
Statement(m) ==
  [parts |-> m.parts, service_id |-> m.service_id,
   instance_id |-> m.instance_id, key_id |-> m.signature_input.key_id,
   created |-> m.signature_input.created,
   expires |-> m.signature_input.expires]

Statements ==
  [parts : CALLS, service_id : {KERNEL_SERVICE},
   instance_id : {InstanceId(n) : n \in 1 .. MAX_EPOCH},
   key_id : {KeyId(n) : n \in 1 .. MAX_EPOCH},
   created : 0 .. MAX_CLOCK, expires : 0 .. I64_MAX]

Delivery ==
  INSTANCE AuthenticDelivery WITH
    Statements <- Statements,
    Times      <- 0 .. MAX_CLOCK,
    Validity   <- SIGNATURE_VALIDITY_SECONDS,
    Skew       <- CLOCK_SKEW_SECONDS,
    attested   <- {Statement(m) : m \in sent},
    delivered  <- {[statement |-> Statement(a.request), now |-> a.now] :
                     a \in accepted}

DeliverySpec == Delivery!Spec
=============================================================================
