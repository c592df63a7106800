# A verification of infernal-client-rs in TLA+

`infernal-client-rs` is the client library of the infernal-law kernel's signed
REST contract. It builds and sends requests signed with a per-process Ed25519
key, verifies requests the kernel (or another service) signed, fetches the
identity a kernel publishes, and submits enrollment proofs. This directory
holds TLA+ models of that library, the TLC runs that check them on small
instances, and proofs, checked by TLAPS, that the main properties hold for all
values of the constants.

Paths below are relative to the repository root; `verify.rs` stands for
`src/verify.rs` and so on.

## 1. Inventory

The crate is a library: it starts no thread, keeps no state between calls, and
its HTTP client is blocking. Whatever is hard about it happens between its
callers: processes that restart with new keys, clocks that disagree, requests
that come late, twice, altered or never, and answers read too late.

| Component | State | Operations | Talks to |
|---|---|---|---|
| `wire.rs` | none | signature parameters, signature base, content digest, metadata validation, header and URI character classes | called by request and verify |
| `credential.rs` | one process's key pair, service, instance and key IDs; never persisted | `generate`, `restore`, `sign`, `verify` | called by request, verify, enrollment, kernel_identity |
| `request.rs` | none | `RequestParts::new`, `SignedRequest::sign`, `sign_with`, `headers`, `generate_nonce` | wire, credential |
| `verify.rs` | none | `IncomingRequest::from_wire`, `verify_incoming` | wire, credential |
| `kernel_identity.rs` | none; its documentation tells the caller to cache | `from_json`, `verify` | credential |
| `transport.rs` | an HTTP client | `send`, `fetch_kernel_identity`, `request_enrollment_challenge`, `submit_enrollment`, `with_extra_root_certificate` | the network, all of the above |
| `enrollment.rs` | none | `EnrollmentSubmission::sign`, `challenge_bytes`, proof message layout | credential |
| `error.rs` | none | one error type | everybody |
| `lib.rs` | none | re-exports | |

What makes each of them correct:

* **wire, request, verify** - signing and verification compute one signature
  base, so that what is signed verifies (and only that), and they agree on
  which timestamps and nonces are admissible. Timestamps are `i64`: the
  comparisons must not turn round at an end of the range. `verify_incoming`
  keeps no memory, so the time during which a repeated request verifies must be
  bounded.
* **credential, kernel_identity** - a kernel that restarts has a new key; a
  caller that caches the old identity must find its way to the new one by
  fetching again, must never be led to accept something unsigned, and must not
  refuse what the running kernel signed.
* **transport** - each call ends in exactly one of the documented results, and
  a caller can tell what may have happened at the peer.
* **enrollment** - the proof covers every field it travels with, in one
  unambiguous layout, and a lost answer leaves the workload able to enroll.

The behaviours that are hard to test are listed, each at its line and with the
properties that watch over it, in `PROJECT.json` under `hazards`.

## 2. The modules

```
ClientError          error.rs: results and error variants
  |
Wire                 wire.rs and the freshness rule of verify.rs, on i64
Credential           credential.rs: symbolic keys and signatures
  |
Request              request.rs: sign, sign_with
  |
Verify               verify.rs: from_wire, verify_incoming
Http                 what a blocking HTTP call brings back
KernelIdentity       kernel_identity.rs and fetch_kernel_identity
  |
SignedRest           kernel, network, service, clocks     (on Verify, KernelIdentity)
  |- AuthenticDelivery  (abstract)
  |- SignedRestProofs
       |- RotationProofs
KernelTrust          a caller that verifies the kernel's messages (on KernelIdentity)
  |- TrustProofs        (also on TrustAnchor)
SendExchange         send, callers that retry, a service that remembers (on Verify, Http)
  |- AtMostOnce         (abstract)
  |- SendProofs
Freshness            one signature's timestamps, both ends (on Verify)
  |- FreshnessProofs
TrustAnchor          with_extra_root_certificate (on Http)

Http, Credential
  |
Enrollment           enrollment.rs and the two enrollment calls of transport.rs
  |
EnrollmentExchange   pods, network, kernel
  |- Registration       (abstract)
  |- EnrollmentProofs

Text                 characters and their classes
  |- RequestText     RequestParts::new, target URI and signature base as text
  |    |- SignedTextProofs   (also on ProofText)
  |- InputText       the Signature-Input header as text, generate_nonce
       |- InputTextProofs
ProofText            the message of an enrollment proof as bytes

MC...                values of constants for TLC, one for each module that is run;
                     MCTexts runs RequestText, InputText, ProofText and TrustAnchor
```

### Pure modules

`ClientError`, `Wire`, `Credential`, `Request`, `Verify`, `Http`,
`KernelIdentity` and `Enrollment` have no variables. They translate the
functions of the crate one operator to one function, with the checks in the
order of the code, because the order decides which error is returned.

* *Integers.* `I64_MAX` is a constant. `WrappingSub` and `SaturatingAdd` are the
  two operations the code applies to timestamps (a release build wraps on `-`).
  A header is a number that may lie outside `i64`; `ParsesAsTimestamp` is the
  digits-only parse.
* *Cryptography* is symbolic. A signing key is the number of the draw it came
  from, a signature is the pair of key and message, a digest is the body under a
  tag. Two different signatures never coincide and no signature is made
  without its key.
* *Text* is abstract. The signature base is the record of its components. A
  header value that does not parse is the value `GARBLED`. A nonce is or is not
  in `WELL_FORMED_NONCES`. The parts of a request are those `RequestParts::new`
  accepted. A text that is trimmed is a record of the trimmed text and of
  whether white space surrounds it. base64url is a wrapper that decoding takes
  off. The proof message of an enrollment is the record of its fields. What the
  texts behind these records guarantee is the subject of `RequestText`,
  `InputText` and `ProofText`. A `Signature-Input` header can be written in more
  ways than `signature_parameters` writes it (zeros before a number, a UUID in
  capitals, without hyphens, in braces or as a URN), and parses all the same.
  The record has a field `spelling` for that: `own` as the crate writes it,
  `other` any other way. Both parse to the same values, and since
  `verify_incoming` puts the received text into the signature base, only the
  spelling that was signed verifies.

### SignedRest

The composition: a kernel process signs its outbound calls, a service verifies
them. Variables and actions correspond to the code and its surroundings as
follows.

| Variable | Stands for |
|---|---|
| `epoch` | the kernel process now running; process n holds the n-th credential `generate` returned |
| `kernel_clock`, `clock` | the two Unix clocks, at most `CLOCK_DRIFT` apart |
| `sent` | every request signed and sent; never shrinks, so it can be delivered late, again or out of order |
| `cache` | the identity the service holds, shared by its workers |
| `work` | what each worker of the service holds in its local variables: request, key and time copied when it started |
| `accepted` | history of what verified, and at which time |

| Action | Code |
|---|---|
| `SendRequest` | `SignedRequest::sign`, refused calls included (they send nothing) |
| `Receive`, `Refuse` | `IncomingRequest::from_wire`; then the worker copies the cache and the clock |
| `Accept` | `verify_incoming` returns `Ok` |
| `Refetch`, `Reject` | it fails for the first time, and for the second time after a fetch |
| `Finish` | the worker has answered its client and is free for another request |
| `KernelAnswers`, `FetchReturns`, `FetchFails` | `fetch_kernel_identity`: the call reaches the kernel, its answer is parsed, or nothing useful arrives |
| `TickKernel`, `TickService`, `RestartKernel` | the environment |

The verification, the parsing and the signing are the crate's code. The loop of
a worker is not in the crate: it is the rule that `kernel_identity.rs` documents
for callers ("Fetch once, cache, and re-fetch on a verification failure"), with
one fetch per request. A fetch takes two steps, so that the kernel can restart,
and other workers can fetch, between the answer and its use.

The network changes any of the fields that `ALTERABLE` names, each on its own or
all at once (`Delivered`): to any value of their kind the instance has, to an
unreadable one, to that of another request. So a body may arrive with a digest
made for it, and the headers and signatures of two requests, of one kernel
process or of two, in any mixture. What does not happen is a signature nobody
made.

### KernelTrust

The other use of a kernel's identity: verifying messages with
`KernelIdentity::verify`, which takes the raw key. No `ClientPublicKey` is
restored on the way, so nothing asks whether the key is a curve point until a
message is verified. `identity` is what the caller holds, `hand` the message it
works on, `answer` the identity on its way, `signed` a history, and `accepted`
what verified last, with the key it verified under.
`FetchReturns` and `FetchFails` are `fetch_kernel_identity`; `Accept`, `Refetch`
and `Reject` the outcomes of `verify` under the documented rule. Beside the
kernel's processes there is another signer (number 0), which signs any message.
A message may come with any signature that was made, and an answer may carry the
key of any process or of the other signer, bytes that are no curve point, or a
wrong fingerprint. Under an identity with the other signer's key, what that
signer signed verifies: `verify` can promise no more than that the owner of the
key it is given signed the message, and this is what `OnlySignedMessages` says.

### SendExchange

Callers use `Client::send` and a service verifies what arrives. The crate says
nothing of retries, so the loop around `send` is external: told anything but
that its request was acted on (`Transport`, a gateway's page, a refusal), a
caller sends the same signed request again while it lasts and then signs anew.
The service's memory is external too: it keeps the `VerifiedRequest` of each
request it acted on, says `repeated` of what it finds there, and forgets what
cannot verify any more. A gateway, or whoever a redirect leads to, may answer
anything, `done` and `repeated` included. Neither the caller nor `send` can see
the difference; the field `served` of a call records whether the service
answered, for the property alone.

| Variable | Stands for |
|---|---|
| `call` | each caller: where it is, the `SignedRequest` it holds, the request as it left the HTTP client (`wire`), the reply on its way, and what `send` returned |
| `late` | requests whose caller gave up or was answered by a gateway, which may still arrive |
| `work` | each worker of the service: the request it verifies and the time it copied |
| `memory`, `log` | the `VerifiedRequest`s remembered; the requests acted on, in order |

| Action | Code |
|---|---|
| `SignAnew` | `SignedRequest::sign` |
| `CallSend`, `CannotSend` | `send`, up to the wait; no connection, or no URL can be made of the target |
| `ReadWhole`, `ReadPart`, `GiveUp` | the rest of `send`: the body is read, breaks off, or nothing comes in time |
| `Redirect`, `RedirectToPage`, `GatewayFails` | the HTTP client's redirect policy and gateways (external) |
| `Act`, `Repeated`, `Refuse` | the service after `verify_incoming` (external) |
| `Forget` | its memory, cleared of what is past now and for each time a worker holds |

`CANONICAL` says what the HTTP client makes of each target: the same, another
(dot segments are resolved), or no URL at all, which `RequestParts::new` does
not exclude (a port that is no number, for example). `send` reports that like a
network failure. The run has only targets that stay as they are; the proofs
cover the others.

A worker verifies with a time it copied earlier. `Forget` therefore looks at the
workers' times too; with the clock alone a request could be repeated by a slow
worker, which is what `ServiceSpec` would show.

### AtMostOnce

Requests are asked for, and the service acts only on those, on each at most
once. `SendExchange` implements it with `asked` and `log` as they are.

### RequestText, InputText, ProofText

The layouts as sequences of characters, for which the modules above put records.
A run of characters that the code writes and searches for as a whole is one
character (`;expires=`, the name of a line); a character class is a constant.

* `RequestText`: `RequestParts::new` with every check, the target URI as a
  concatenation, the signature base as lines, and a receiver that lays out what
  arrives. HTTP takes the blanks off the ends of a header.
* `InputText`: `signature_parameters` writes the header, and
  `parse_signature_input` takes it apart at the first occurrence of each
  separator; one character may be damaged on the way. The values are parsed as
  the code does: digits to a number (`Number`), refused above `I64_MAX`; a text
  to a UUID, which has several ways of writing (`ParseUuid`).
* `ProofText`: `proof_message`, with the length of a field cut to
  `LENGTH_SPAN` as the cast to `u32` does. Fields of that length or more are
  excluded, as an assumption: with them the message would be ambiguous.

### TrustAnchor

`with_extra_root_certificate` reads a PEM text twice: `validate_pem_certificate`
searches the whole text for the markers, and the TLS backend (external) reads it
line by line, as PEM readers do. A text is a sequence of tokens: markers, white
space, ends of lines, base64 of a certificate, of another SEQUENCE or of
something else, other text, bytes that are not UTF-8. The backend is modelled
from its use here and the documentation at `transport.rs` 177-185: what no line
starts as a block is skipped, an unfinished or unreadable block is an error, and
the number of certificates found is not asked. Both readers are defined by the
places where they find something, with no recursion: the reader is inside a
block exactly if the last marker that started a line was one of a beginning
(`Blocks`).

### Freshness

The pure question behind the clocks: for one signature, made by a peer that
validates nothing, when does `verify_incoming` accept it, and does `sign` refuse
the same values? Every pair of timestamps that a header can show is tried,
including -1 and one more than `i64` holds, at every clock value.

### AuthenticDelivery

The promise without the mechanism: a signer attests statements with a window of
bounded length, and a receiver is handed only attested statements, within the
window plus the skew. `SignedRest` implements it under the mapping `Delivery`
(attested = the statements of `sent`, delivered = those of `accepted`).

### EnrollmentExchange

Pods enroll with a kernel. A process asks for a challenge or takes the one in
its environment, signs a proof, submits it, and acts on the result.

| Variable | Stands for |
|---|---|
| `settings` | endpoint, pod UID and token a pod is configured with, in order or not |
| `pod` | the process running in each pod: its number (its credential is the n-th draw), challenge, submission, and whether an earlier call of the submission told it nothing (`doubt`) |
| `call`, `reply` | the call a process waits on, until the kernel acts, and then the reply |
| `late` | calls whose caller gave up, which may still reach the kernel |
| `open`, `issued`, `registered` | the kernel: unused challenges with the pod each was issued to, the last one drawn, and what it registered |
| `submitted`, `refused`, `faults` | histories and the count of faults |

| Action | Code |
|---|---|
| `Submit`, `CannotSign` | `EnrollmentSubmission::sign`, and the call of `submit_enrollment` if it succeeds |
| `Ask` | `request_enrollment_challenge`, up to the reply |
| `ReceiveChallenge`, `NoChallenge` | the rest of it, and `challenge_bytes` |
| `Enrolled`, `Refused`, `Unclear` | the end of `submit_enrollment`: `Ok`, `EnrollmentRejected`, and the two errors that leave open what happened |
| `Resubmit`, `BeginAgain`, `UseInjected` | the caller's choices, which the crate leaves to it |
| `Issue`, `Register`, `TurnDown` in `Answer` and `ArriveLate` | the kernel (external) |
| `GiveUp`, `ReadDamaged`, `ChangeSubmission`, `Restart` | the environment |

The kernel does what the documentation of `transport.rs` and `enrollment.rs`
says of it and no more: a challenge is single-use and belongs to the pod it was
issued to, the token names the pod and with it the service, and the proof is
recomputed from trimmed fields. An instance that is registered may be
registered again under a new challenge; the reply has a `lease_revision`.
Challenges do not expire in the model: an expired one is turned down like a
used one.

At most one field of a submission changes on its way. `submit_enrollment` does
not compare the instance in the reply with its own, so if a whole call were
replaced by another process's, the caller would be told `Ok` about somebody
else; `OkMeansRegistered` holds because the proof covers every field.

### Registration

The promise of enrollment without the mechanism: processes claim, and the kernel
registers only what was claimed, at most one claim for each challenge.
`EnrollmentExchange` implements it (claimed = the claims of `submitted`).

## 3. The runs

| Run | Instance | Shows |
|---|---|---|
| `integrity` | 2 calls, 2 kernel processes with 2 requests each, 1 worker, every field alterable at once with every other, clocks at 0 | `TypeOK`; `Authentic`: what verifies was sent, field by field |
| `time` | 1 request, two values of each part alterable, i64 and clocks up to 7, validity 2, skew and drift 1 | `DuplicateWindow`: how long a repeated request verifies; `InTimeRequestVerifies`: nothing in time is refused, also where additions saturate; `DeliverySpec`: refinement, with stale requests and with parts, body and digest changed together |
| `rotation` | 2 workers, 2 kernel processes, clocks up to 1 | `RefetchSuffices`: after one successful fetch, a request of the running kernel is refused only for its age; `CacheCatchesUp`: the cache settles on the last process's identity; `RestartSurvived`: one of its calls is accepted |
| `freshness` | i64 up to 7, validity 3, skew 2 | `FreshExactly`, `EndsAgree` |
| `claims` | 2 pods, one of them with a challenge in its environment; settings in order or wrong in one of three ways; any field alterable; 2 faults | `TypeOK`; `OkMeansRegistered`: who is told `Ok` is registered; `RejectionIsConclusive`: a claim refused at its first submission is not and will not be registered; `RegistrationSpec`: refinement; `EveryPodEnrolls` |
| `kernel_trust` | 2 kernel processes and another signer, 2 messages, identities with any key and fingerprint | `OnlySignedMessages`: what verifies was signed by the owner of the key held; `RefetchedIdentityVerifies`: after a fetch on its account, a message of the running process fails only against an identity changed on its way; `UnusableIdentityReplaced`: an identity that verifies nothing does no lasting harm |
| `send` | 1 caller, 2 workers, clock up to 2, validity 1, redirects, a gateway | `TypeOK`; `AnswerIsTrue`: whom the service tells that it acted on a request, of that very request it is true; `ServiceSpec`: refinement, at most once; `EveryCallSettles` |
| `pair` | 2 callers with the same purpose and request IDs of their own, 2 nonces, 1 worker, clock up to 1 | `AnswerIsTrue` between two callers |
| `texts`, `RequestText` | authorities up to 2 and paths up to 3 characters, and some with a line break, blank or forbidden character | `OnlyItsOwnVerifies`, `ItsOwnVerifies` |
| `texts`, `InputText` | headers from a few timestamps with one more than the largest number, nonces of both ends of the admitted length, two UUIDs each written in four ways; one character damaged | `ReadsBack`, `NothingElseParses`, `GeneratedNonceServes` |
| `texts`, `ProofText` | endpoint and pod UID up to 2 bytes, their neighbours varying too; lengths modulo 4 | `ProofDetermines` |
| `texts`, `TrustAnchor` | every text of up to 4 of 13 lines, and three second blocks | `UsableOrRefused`: a client that was built trusts an extra root, if the markers of beginnings start their lines; `GenuineTrusted`: a certificate as the tools write it is trusted |
| `failure` | 1 kernel process, 1 request | a violation, see section 6 |
| `selfservice` | 1 pod without a challenge in its environment | a violation, see section 6 |
| `trust_anchor_closed` | texts of up to 3 lines | a violation, see section 6 |

`texts` is one run of four machines: each of its behaviours is one of
`RequestText`, `InputText`, `ProofText` or `TrustAnchor`, from the first call to
the last, with the other three left out.

*Bounds.* Every restart, signature and clock value beyond those above repeats a
situation: the second kernel process is the first one's successor exactly as a
third would be, and the properties compare at most two requests. One request is
enough for `time` because `DuplicateWindow` and `InTimeRequestVerifies` speak of
one request at different times, and what `DeliverySpec` compares it with is what
it was before it was changed; two requests mixed are the subject of `integrity`.
`MAX_CLOCK = I64_MAX = 7` exceeds `validity + 2 * skew = 4`, so an acceptance
can happen at both ends of a window, after it, and where `now + skew` saturates.
In the enrollment runs two faults are enough for a lost answer and the late
arrival, the changed retry or the restart that may follow it, and two pods for
one process's fields to end up in another's call. In `send` the clock passes the
end of a request's validity, so that a request expires, is forgotten and is
signed anew, while a worker may hold the time of any earlier moment. In `pair`
the two callers may sign in the same second, with the same nonce or another, so
that only the request ID tells what the service remembers of one from the other.
In the text runs, two characters of an authority and three of a path are enough
for the border between them to be read in two ways, if a check were missing; the
nonces have 16, 128, 15 and 129 characters and the length `generate_nonce`
makes. Four lines hold a whole certificate and one line around it or inside. The
proofs of section 4 remove the bounds for all safety properties.

*Deadlock* is checked except in `time`, `freshness`, the enrollment runs,
`send`, `pair`, `texts` and `trust_anchor_closed`. The last two are one or two
calls, as is `freshness`. In `send` and `pair` everything stops when each caller
has its answer and the clock stands. The enrollment runs stop when each pod is
enrolled, or unusable for its settings, and no fault is left. In `time` the
clocks stop at `MAX_CLOCK` and no fresh request is left.

*Fairness* (`FairSpec`, used by `rotation`, `claims`, `send` and
`kernel_trust`). A worker that can go on does: its calls are blocking and
return, because the HTTP client has a timeout (weak fairness of `Accept`,
`Refetch`, `Reject`, `Finish`, `FetchFails`). Of the environment it is assumed
that the running kernel goes on signing calls (weak fairness of `SendRequest`),
that its calls go on arriving at each worker, and that a fetch tried again and
again is now and then answered and read (strong fairness). No fairness is
assumed of clocks, restarts, or delivery of altered or old requests: a worker
may receive any number of those. `EnrollmentExchange` assumes weak fairness of a
process's own steps and of the kernel's answers to calls somebody waits on;
faults are bounded, and nothing is assumed of calls given up on.

`SendExchange` assumes weak fairness of a caller's own steps and of the timeout
(`GiveUp`). Of the environment: calls made again and again find a connection now
and then (`CallSend`, strong); if a caller's request is on its way again and
again, a worker takes it up now and then, and not only after a redirect
(`NowAndThenOneArrives`, without which late copies could keep every worker busy
for ever); the service now and then answers such a request while its caller
waits (`ServeWaiting`, strong, since `GiveUp` may come first many times); and
the answer is then read to its end now and then (`ReadAnswer`, strong). No
fairness of the clock, gateways, redirects or late arrivals. `KernelTrust`
assumes that the kernel signs, that its messages go on arriving as they were
signed, and that the fetches made on account of such a message are now and then
answered intact; damaged answers may come any number of times.

Each property has a mutant of the
code, listed in `PROJECT.json`, that violates it; the mutated definitions stand
next to the originals, marked as slips.

## 4. The proofs

TLAPS proves, for all values of the constants that satisfy the stated
assumptions (`WidthAssumption`, `DeploymentAssumption`, `GarbledAssumption`,
`PartsAssumption`, `ExchangeAssumption`, `SendAssumption`, `AnswersAssumption`,
`KernelAssumption`, `CharacterAssumption`, `RequestTextAssumption`,
`InputTextAssumption`, `RangeAssumption`, `ConversionAssumption`,
`ProofTextAssumption`, `AnchorAssumption`; TLC evaluates each of them in the
runs):

| Theorem | Module |
|---|---|
| `TypeCorrect`, `AcceptedIsAuthentic`, `DuplicatesAreBounded` | `SignedRestProofs` |
| `SignedRestImplementsDelivery` | `SignedRestProofs` |
| `InTimeRequestsVerify`, `OneRefetchSuffices` | `RotationProofs` |
| `FreshnessIsExact`, `SignerAndVerifierAgree` | `FreshnessProofs` |
| `EnrolledIsRegistered`, `ExchangeImplementsRegistration` | `EnrollmentProofs` |
| `RejectionConcludes`, `ExchangeTypeCorrect` | `EnrollmentProofs` |
| `SendTypeCorrect`, `AnswersAreTrue`, `ServiceActsAtMostOnce` | `SendProofs` |
| `AcceptedMessagesWereSigned`, `RefetchIsEnough` | `TrustProofs` |
| `BuiltClientTrusts`, `GenuineIsTrusted` | `TrustProofs` |
| `OnlyItsOwn`, `ItsOwn`, `ProofsDetermineTheirFields` | `SignedTextProofs` |
| `HeaderReadsBack`, `OnlyHeadersParse`, `GeneratedNoncesServe` | `InputTextProofs` |

*SignedRestProofs.* `Authentic` is not inductive: it says nothing of requests
still on their way through a worker. The invariant `IInv` adds that everything
in `sent` is what `sign` returned to some process (`SentOK`), that a worker
holds a request whose signature was sent or does not parse, and a key that was
published (`WorkOK`), and that an accepted request was within bounds and fresh
(`AcceptedOK`). The step that matters is `Accept`. `AcceptedMeansVerified`
reads off `verify_incoming` what acceptance requires; `SignatureDetermines`
shows that a signature fixes every field, the body through its digest; since the
signature is a sent one, the request is a sent one.

*RotationProofs.* `JInv` adds that clocks stay close and requests are signed in
the past, and, for workers: a request about to be verified was signed no later
than drift allows (`HoldsPast`); after a failure, the key in hand belongs to a
process no older than the one that made the signature in hand (`HoldsLaterKey`).
So when the request is the running kernel's, the key is its own, and
`WindowVerifies` leaves freshness as the only check that can fail.
`SendJInv` needs `SignatureDetermines` once more: a new request cannot turn out
to be one that was refused before it existed.

*FreshnessProofs.* The two validation functions are shown equivalent to the
same inequalities over unbounded integers, then the whole of `verify_incoming`
for a correctly signed request.

*EnrollmentProofs.* `OkMeansRegistered` speaks of processes that are done; the
invariant `EInv` follows a claim on its way. Every submission is signed over its
own fields (`Genuine`); a call still carries the signature of the submission it
was or asks for the same claim (`SameOrigin`), also when nobody waits on it any
more (`LateOK`); a reply that says yes to a waiting process answers for its
claim (`ReplyOK`); and no challenge is both open and used (`KernelOK`). What the
kernel admits is signed over the fields it arrives with, so by
`AdmittedIsClaimed` it is the claim its process made, and by `KernelOK` its
challenge is new to the registry. The first two theorems follow from these two
facts.

That a rejection is conclusive needs two more invariants, the second resting on
the first. `Fresh`: no two pods' processes share a number, and a process signs
each challenge once, because what it holds or is being sent is a challenge it
has not signed (`SignsOnce`); so two submissions under way never ask for the
same claim (`DistinctClaims`). `Conclusive`: while the first call for a claim is
under way or turned down, nothing late carries the claim and it is not
registered (`FirstCall`); so when the process is told no, nothing is left that
could have it registered (`Dropped`), and no later step brings anything, since
the process drops the submission and never signs that challenge again. A call
that was changed on its way no longer verifies, so it does not carry the claim;
an unchanged copy exists only if the process was in doubt before. The type
invariant needs, beside these, `Waits`: a process waits on exactly one of a call
and a reply (`Waiting`), open challenges are of pods, and faults are bounded.

*SendProofs.* What is on its way or in work is a signed request but for its
target, and since the signature covers the target, what verifies is a request
that was signed (`VerifiedMeansSigned`). Every request acted on is remembered,
or is past for the clock and for every time a worker holds; what verifies is not
past, so if it was acted on before it is still remembered. An answer of the
service that is under way, or was returned, is of the request its caller holds,
and that is in the log (`ActedOn`). For `repeated` this needs that what is
remembered tells requests apart. Two more invariants say so, if callers use
request IDs of their own: each request signed is of one caller, which has signed
nothing with a later time than the end of the request it holds now (`Newest`),
because it signs again only when that is over; so a new request differs in its
times from every earlier one of its caller, and no two requests have the same
`VerifiedRequest` (`Distinct`).

*TrustProofs.* `HInv` says that the caller's `hand` is a message with some
signature that was made (`HandDelivered`), and that each signature of a kernel
process is over the message it was made for (`SignedOwn`). A message that
verifies has a signature over itself by the key of the identity held, so the
signature is one its owner made for this message (`VerifiedIsSigned`). For
`RefetchIsEnough` the invariant also orders processes: an answer, and an
identity fetched after a failure, is of a process no older than the one whose
signature is in hand (`AnswerIsLater`, `IdentityIsLater`), because a message is
in hand only once it was signed. If the identity was not changed and the message
is of the running process, both are of that process.

The theorems about `TrustAnchor` compare the two readers of a text. The first
marker the check finds, if it starts its line, is one that begins a block for
the backend, so the backend finds at least that one (`CheckedHasBlock`); in a
genuine text both readers find the same two places and there are no others
(`GenuineIsOneBlock`).

*SignedTextProofs, InputTextProofs.* Each layout is taken apart from the left. A
piece ends at the first occurrence of a character it cannot hold (a line break,
a slash, a separator), or its length is known, so two equal texts have equal
first pieces and equal rests (one lemma for each layout), and this is applied
once for each field. The numbers and UUIDs enter only through
`ConversionAssumption`: a value is written in one way, which stands for it
again; of the other ways nothing is assumed. `GeneratedNoncesServe` takes the
two limits of the length check, 16 and 128, as hypotheses and holds for every
number of random bytes from 12 to 96; the code draws 24.

Only model-checked: the liveness properties `CacheCatchesUp`,
`RestartSurvived`, `EveryPodEnrolls`, `EveryCallSettles` and
`UnusableIdentityReplaced` (fairness and `ENABLED` are out of the prover's
reach). The three runs that expect a violation show a trace, which needs no
proof.

## 5. Not modelled, and the plan

Not modelled: `headers` and the accessors are plain copies. `Client::new` is
`with_extra_root_certificate` without the text. A failing random source ends the
process in `generate` and is an error in `generate_nonce`, before anything is
signed. `encode_signature`, base64 and the UUID and JSON parsers are wrappers
that decode to what was encoded or to `GARBLED`. `Display`, the redacting
`Debug` implementations and `lib.rs` have no behaviour.

TLS, DNS and HTTP themselves are the HTTP client's.

Every safety property and every refinement a run checks is proved. What could
still be proved is what no run states: more lemmas about what single functions
return.

## 6. Findings

The documentation of `KernelIdentity` (`kernel_identity.rs` 24-26) says of a
verification failure that it "is the signal the kernel process restarted and
rotated its key". The run `failure` refutes this as a statement about the code
(`FailureMeansRotation`): a request that comes after its window fails in
`validate_signature_time` although the kernel and its key are unchanged.
`RefetchSuffices` shows the rule is harmless to follow; a caller that wants to
avoid the needless fetch can look at the error, since a rotated key gives
`InvalidRequestPart("service_id")` and lateness
`InvalidRequestPart("freshness")`.

The documentation of `enrollment.rs` (5-9) says that there is no self-service
call for requesting a challenge, so that one "only ever reaches a candidate
through a kernel operator's own out-of-band process";
`EnrollmentSubmission::sign` (48-50) repeats it. `transport.rs` has that call,
`request_enrollment_challenge`, and says what it is for (114-116). The run
`selfservice` refutes the former (`ChallengesComeFromOperators`), and
`EveryPodEnrolls` shows that the latter is what lets a restarted pod enroll.

`transport.rs` (183-185) says that a misconfigured trust anchor "must fail
closed at construction time". A certificate whose first marker is indented
passes the check, is skipped by the TLS backend, and leaves a client that trusts
nothing extra: the run `trust_anchor_closed` (`FailsClosed`). `UsableOrRefused`
shows that this needs a marker of a beginning that does not start its line, for
texts of any length.

Smaller differences between a sentence and the code, which the models show and
no run is spent on:

* `send` is said to send a request "exactly as constructed: same method, same
  target URI" (`transport.rs` 62-64). The target goes to the HTTP client as
  text, which parses it as a URL, resolves dot segments and follows redirects
  (`Outgoing`, `Redirect`). `ServiceSpec` shows that what is acted on is still
  what was signed, since the signature covers the target, and acted on once.
  What the caller is told is another matter: whoever a redirect leads to may
  claim anything. `AnswerIsTrue` is about the service's own answers. It needs
  request IDs that are the callers' own and callers that sign anew only when the
  earlier request has expired: a receiver has only the `VerifiedRequest` to tell
  requests apart, without nonce and digest (`verify.rs` 66-76), and would call
  a second request signed in the same second under the same ID a repetition.
* `Transport` is said to stand for a "non-2xx response from a signed HTTP call"
  (`error.rs` 18). `send` returns such a response as `Ok`, with its status
  (`Send`).
* An anchor that is not a valid PEM certificate is said to be
  `InvalidTrustAnchor` (`error.rs` 23-24). What only the TLS backend notices is
  `Transport` (`Build`).
* A response that is no valid signing key material is said to be
  `MalformedKernelIdentity` (`error.rs` 20-22). `from_json` takes any 32 bytes
  (`FromJson`). `UnusableIdentityReplaced` shows that a caller that follows the
  documented rule recovers.
