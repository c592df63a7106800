----------------------------- MODULE SendProofs -----------------------------
(***************************************************************************)
(* Proofs about SendExchange, for any number of callers and workers, any   *)
(* purposes, clock bound, validity period and skew.                        *)
(*                                                                         *)
(* The argument: a wire is a signed request but for its target, and the    *)
(* signature covers the target, so what verifies is a request that was     *)
(* signed.  Each request acted on is remembered or is past for the clock   *)
(* and for every time a worker holds; what verifies is not past, so it is  *)
(* not among those that were forgotten.  And a caller signs again only     *)
(* when what it signed before is over, so that what is remembered, IDs and *)
(* times, is of one request only.                                          *)
(***************************************************************************)
EXTENDS SendExchange, TLAPS

USE WidthAssumption, SendAssumption

-----------------------------------------------------------------------------
(* Requests.                                                               *)

Inputs ==
  [created : 0 .. I64_MAX, expires : 0 .. I64_MAX, nonce : NONCES,
   key_id : {KeyId(1)}, algorithm : {"ed25519"}, spelling : {"own"}]

BaseFor(parts, in) ==
  BaseOf(parts, ContentDigest(parts.body), SERVICE, InstanceId(1), in)

RequestFor(parts, in) ==
  [parts           |-> parts,
   service_id      |-> SERVICE,
   instance_id     |-> InstanceId(1),
   content_digest  |-> ContentDigest(parts.body),
   signature_input |-> in,
   signature       |-> SignBytes(1, BaseFor(parts, in))]

Signed ==
  {RequestFor(parts, in) : parts \in RequestParts, in \in Inputs}

View(m) == VerifiedRequest(m, m.signature_input)

(* What the one key of this module signs.                                  *)
LEMMA SignReturns ==
  \A parts \in RequestParts, c \in 0 .. MAX_CLOCK, nonce \in NONCES :
    LET signed == Sign(parts, MyCredential, c,
                       c + SIGNATURE_VALIDITY_SECONDS, nonce)
    IN signed.ok =>
         \E in \in Inputs : /\ signed.value = RequestFor(parts, in)
                           /\ in.created = c
                           /\ in.expires = c + SIGNATURE_VALIDITY_SECONDS
  <1> SUFFICES ASSUME NEW parts \in RequestParts, NEW c \in 0 .. MAX_CLOCK,
                      NEW nonce \in NONCES,
                      Sign(parts, MyCredential, c,
                           c + SIGNATURE_VALIDITY_SECONDS, nonce).ok
               PROVE  \E in \in Inputs :
                        /\ Sign(parts, MyCredential, c,
                                c + SIGNATURE_VALIDITY_SECONDS, nonce).value
                             = RequestFor(parts, in)
                        /\ in.created = c
                        /\ in.expires = c + SIGNATURE_VALIDITY_SECONDS
    OBVIOUS
  <1> DEFINE e == c + SIGNATURE_VALIDITY_SECONDS
             in == SignatureParameters(c, e, nonce, KeyId(1))
  <1>1. c \in 0 .. I64_MAX /\ e \in 0 .. I64_MAX
    OBVIOUS
  <1>2. in \in Inputs /\ in.created = c /\ in.expires = e
    BY <1>1 DEF SignatureParameters, Inputs
  <1>3. ValidateSignatureMetadata(c, e, nonce).ok
    BY DEF Sign, SignWith, MyCredential, Generate, ClientPublicKey
  <1>4. Sign(parts, MyCredential, c, e, nonce).value = RequestFor(parts, in)
    BY <1>3 DEF Sign, SignWith, MyCredential, Generate, ClientPublicKey,
                RequestFor, BaseFor, Ok
  <1>5. QED
    BY <1>2, <1>4

(* The fields of a wire.                                                   *)
LEMMA WireFields ==
  \A m \in Signed, u \in TargetUris :
    LET r == Retarget(m, u)
    IN /\ r.parts = [m.parts EXCEPT !.target_uri = u]
       /\ r.parts.request_id = m.parts.request_id
       /\ r.parts.target_uri = u
       /\ r.service_id = m.service_id
       /\ r.instance_id = m.instance_id
       /\ r.content_digest = m.content_digest
       /\ r.signature_input = m.signature_input
       /\ r.signature = m.signature
       /\ (u = m.parts.target_uri) => r = m
  <1> SUFFICES ASSUME NEW parts \in RequestParts, NEW in \in Inputs,
                      NEW u \in TargetUris
               PROVE  LET m == RequestFor(parts, in)
                          r == Retarget(m, u)
                      IN /\ r.parts = [m.parts EXCEPT !.target_uri = u]
                         /\ r.parts.request_id = m.parts.request_id
                         /\ r.parts.target_uri = u
                         /\ r.service_id = m.service_id
                         /\ r.instance_id = m.instance_id
                         /\ r.content_digest = m.content_digest
                         /\ r.signature_input = m.signature_input
                         /\ r.signature = m.signature
                         /\ (u = m.parts.target_uri) => r = m
    BY DEF Signed
  <1> QED
    BY DEF RequestFor, RequestParts, Retarget

(* What verifies is a request that was signed, within its time.            *)
LEMMA VerifiedMeansSigned ==
  \A m \in Signed, u \in TargetUris, t \in Nat :
    LET r == Retarget(m, u)
        verdict == VerifyIncoming(r, MyCredential.public_key, t)
    IN verdict.ok => /\ r = m
                     /\ verdict.value = View(m)
                     /\ ~Past(View(m), t)
  <1> SUFFICES ASSUME NEW m \in Signed, NEW u \in TargetUris, NEW t \in Nat,
                      VerifyIncoming(Retarget(m, u),
                                     MyCredential.public_key, t).ok
               PROVE  LET r == Retarget(m, u)
                          verdict == VerifyIncoming(
                                       r, MyCredential.public_key, t)
                      IN /\ r = m
                         /\ verdict.value = View(m)
                         /\ ~Past(View(m), t)
    OBVIOUS
  <1> DEFINE r == Retarget(m, u)
             key == MyCredential.public_key
             in == r.signature_input
             metadata == ParseSignatureInput(in)
             base == BaseOf(r.parts, r.content_digest, r.service_id,
                            r.instance_id, in)
  <1>1. PICK parts \in RequestParts, in1 \in Inputs :
          m = RequestFor(parts, in1)
    BY DEF Signed
  <1>2. /\ r.parts.request_id = m.parts.request_id
        /\ r.parts.target_uri = u
        /\ r.service_id = m.service_id
        /\ r.instance_id = m.instance_id
        /\ in = m.signature_input
        /\ r.signature = m.signature
        /\ (u = m.parts.target_uri) => r = m
    BY WireFields
  <1>3. /\ metadata.ok
        /\ VerifyParsed(r, metadata.value, key, t).ok
        /\ VerifyIncoming(r, key, t) =
             VerifyParsed(r, metadata.value, key, t)
    BY DEF VerifyIncoming, Err
  <1>4. metadata.value = [parameters |-> in, created |-> in.created,
                          expires |-> in.expires, key_id |-> in.key_id]
    BY <1>3 DEF ParseSignatureInput, Ok, Err
  <1>5. /\ ValidateSignatureTime(in.created, in.expires, t).ok
        /\ ParseSignature(r.signature).ok
        /\ VerifyBytes(key.public_key, base,
                       ParseSignature(r.signature).value).ok
        /\ VerifyParsed(r, metadata.value, key, t).value =
             VerifiedRequest(r, metadata.value)
    BY <1>3, <1>4 DEF VerifyParsed, Ok, Err
  <1>6. r.signature = SignBytes(1, base)
    BY <1>5 DEF ParseSignature, VerifyBytes, MyCredential, Generate,
                ClientPublicKey, KeyBytes, Ok, Err
  <1>7. m.signature = SignBytes(1, BaseFor(parts, in1))
    BY <1>1 DEF RequestFor
  <1>8. base.target_uri = BaseFor(parts, in1).target_uri
    <2> HIDE DEF base, r
    <2>1. SignBytes(1, base) = SignBytes(1, BaseFor(parts, in1))
      BY <1>2, <1>6, <1>7
    <2>2. SignBytes(1, base).message = SignBytes(1, BaseFor(parts, in1)).message
      BY <2>1
    <2>3. QED
      BY <2>2 DEF SignBytes
  <1>9. u = m.parts.target_uri
    <2>1. base.target_uri = r.parts.target_uri
      BY DEF BaseOf, SignatureBase
    <2>2. BaseFor(parts, in1).target_uri = parts.target_uri
      BY DEF BaseFor, BaseOf, SignatureBase
    <2>3. m.parts = parts
      BY <1>1 DEF RequestFor
    <2>4. QED
      BY <1>2, <1>8, <2>1, <2>2, <2>3
  <1>10. r = m
    BY <1>2, <1>9
  <1>11. VerifyIncoming(r, key, t).value = View(m)
    <2>1. VerifyIncoming(r, key, t).value = VerifiedRequest(r, metadata.value)
      BY <1>3, <1>5
    <2>2. /\ metadata.value.created = in.created
          /\ metadata.value.expires = in.expires
          /\ metadata.value.key_id = in.key_id
      BY <1>4
    <2>3. VerifiedRequest(r, metadata.value) = VerifiedRequest(r, in)
      BY <2>2 DEF VerifiedRequest
    <2> HIDE DEF r
    <2>4. QED
      BY <1>10, <2>1, <2>3 DEF View
  <1>12. View(m).expires = in.expires
    BY <1>2 DEF View, VerifiedRequest
  <1>13. in.expires \in Int
    BY <1>1, <1>2 DEF RequestFor, Inputs
  <1>14. ~(SaturatingAdd(in.expires, CLOCK_SKEW_SECONDS) < t)
    BY <1>5 DEF ValidateSignatureTime, Err
  <1>15. ~Past(View(m), t)
    BY <1>12, <1>14 DEF Past
  <1>16. QED
    BY <1>10, <1>11, <1>15

-----------------------------------------------------------------------------
(* The invariant.                                                          *)

(* x is m, perhaps with another target.                                    *)
CameFrom(x, m) == \E u \in TargetUris : x = Retarget(m, u)

(* The service acted on m, if it can know.                                 *)
ActedOn(m) == OwnRequestIds => \E i \in DOMAIN log : log[i] = m

(* r is in order as what a caller is doing.                                *)
CallOK(r) ==
  /\ r \in Calls
  /\ r.pc # "idle" => r.request \in asked
  /\ r.pc # "waiting" => r.wire = NONE /\ r.reply = NONE
  /\ r.wire # NONE => r.reply = NONE /\ CameFrom(r.wire, r.request)
  /\ r.reply # NONE /\ r.served =>
       (r.reply.body \in {"done", "repeated"} => ActedOn(r.request))
  /\ r.pc = "returned" =>
       /\ r.result \in Results
       /\ (/\ r.served
           /\ r.result.ok
           /\ r.result.value.body \in {"done", "repeated"})
          => ActedOn(r.request)

(* x is in order as what a worker is doing.                                *)
WorkOK(x) ==
  /\ x \in [request : Wires \cup {NONE}, now : 0 .. clock,
            caller : CALLERS \cup {NONE}]
  /\ x # NoWork => x.request \in Wires
  /\ x.caller # NONE =>
       /\ call[x.caller].pc = "waiting"
       /\ call[x.caller].wire = NONE
       /\ call[x.caller].reply = NONE
       /\ CameFrom(x.request, call[x.caller].request)

(* No caller waits for two workers.                                        *)
OneEach ==
  \A v, w \in WORKERS :
    v # w /\ work[v].caller = work[w].caller => work[v].caller = NONE

(* m cannot verify any more, at any time somebody may use.                 *)
Gone(m) ==
  /\ Past(View(m), clock)
  /\ \A w \in WORKERS : work[w] # NoWork => Past(View(m), work[w].now)

MemoryOK ==
  /\ \A i \in DOMAIN log : View(log[i]) \in memory \/ Gone(log[i])
  /\ \A v \in memory : \E i \in DOMAIN log : View(log[i]) = v

(* Each request is of some caller, which has not signed with a later time, *)
(* and no two requests have the same IDs and times.                        *)
Newest ==
  OwnRequestIds =>
    \A m \in asked : \E c \in CALLERS :
      /\ call[c].pc # "idle"
      /\ m.parts.request_id = PURPOSES[c].request_id
      /\ m.signature_input.created <= call[c].request.signature_input.expires

Distinct ==
  OwnRequestIds => \A m, n \in asked : View(m) = View(n) => m = n

(* The inductive invariant, in two parts.                                  *)
IInv ==
  /\ clock \in 0 .. MAX_CLOCK
  /\ asked \subseteq Signed
  /\ log \in Seq(asked)
  /\ late \subseteq Wires
  /\ call \in [CALLERS -> Calls]
  /\ \A c \in CALLERS : CallOK(call[c])
  /\ DOMAIN work = WORKERS
  /\ work = [w \in WORKERS |-> work[w]]
  /\ \A w \in WORKERS : WorkOK(work[w])
  /\ OneEach
  /\ MemoryOK

LEMMA InitIInv == Init => IInv
  <1> SUFFICES ASSUME Init PROVE IInv
    OBVIOUS
  <1>1. NoCall \in Calls /\ CallOK(NoCall)
    BY DEF NoCall, Calls, CallOK
  <1>2. WorkOK(NoWork)
    BY DEF NoWork, WorkOK, Init
  <1>3. DOMAIN log = {}
    BY DEF Init
  <1>4. OneEach /\ MemoryOK
    BY <1>3 DEF Init, OneEach, MemoryOK, NoWork
  <1>5. QED
    BY <1>1, <1>2, <1>4 DEF Init, IInv

(* What was in order stays so when more is asked and done.                 *)
LEMMA CallsKept ==
  ASSUME IInv, asked \subseteq asked',
         log' = log \/ (\E x : log' = Append(log, x))
  PROVE  /\ Wires \subseteq Wires'
         /\ \A m : ActedOn(m) => ActedOn(m)'
         /\ \A r : CallOK(r) => CallOK(r)'
  <1>1. Wires \subseteq Wires'
    BY DEF Wires
  <1>2. ASSUME NEW m, ActedOn(m) PROVE ActedOn(m)'
    <2> SUFFICES ASSUME OwnRequestIds PROVE \E i \in DOMAIN log' : log'[i] = m
      BY DEF ActedOn
    <2>1. PICK i \in DOMAIN log : log[i] = m
      BY <1>2 DEF ActedOn
    <2>2. i \in DOMAIN log' /\ log'[i] = log[i]
      <3>1. CASE log' = log
        BY <2>1, <3>1
      <3>2. ASSUME NEW x, log' = Append(log, x)
            PROVE  i \in DOMAIN log' /\ log'[i] = log[i]
        <4>1. log \in Seq(asked)
          BY DEF IInv
        <4>2. i \in 1 .. Len(log)
          BY <4>1, <2>1
        <4>3. QED
          BY <3>2, <4>1, <4>2
      <3>3. QED
        BY <3>1, <3>2
    <2>3. QED
      BY <2>1, <2>2
  <1>3. ASSUME NEW r \in Calls PROVE r \in Calls'
    BY <1>1 DEF Calls
  <1>4. ASSUME NEW r, CallOK(r) PROVE CallOK(r)'
    <2>1. /\ r \in Calls'
          /\ r.pc # "idle" => r.request \in asked'
          /\ r.pc # "waiting" => r.wire = NONE /\ r.reply = NONE
      BY <1>3, <1>4 DEF CallOK
    <2>2. /\ ActedOn(r.request) => ActedOn(r.request)'
          /\ r.wire # NONE =>
               r.reply = NONE /\ CameFrom(r.wire, r.request)
      BY <1>2, <1>4 DEF CallOK
    <2>3. r.reply # NONE /\ r.served =>
            (r.reply.body \in {"done", "repeated"} => ActedOn(r.request)')
      BY <1>4, <2>2 DEF CallOK
    <2>4. r.pc = "returned" =>
            /\ r.result \in Results
            /\ (/\ r.served
                /\ r.result.ok
                /\ r.result.value.body \in {"done", "repeated"})
               => ActedOn(r.request)'
      BY <1>4, <2>2 DEF CallOK
    <2>5. QED
      BY <2>1, <2>2, <2>3, <2>4 DEF CallOK
  <1>5. QED
    BY <1>1, <1>2, <1>4

(* Every view has a time at which it ends.                                 *)
LEMMA PastStays ==
  \A m \in Signed : \A t, u \in Int :
    t <= u /\ Past(View(m), t) => Past(View(m), u)
  <1> SUFFICES ASSUME NEW parts \in RequestParts, NEW in \in Inputs,
                      NEW t \in Int, NEW u \in Int, t <= u,
                      Past(View(RequestFor(parts, in)), t)
               PROVE  Past(View(RequestFor(parts, in)), u)
    BY DEF Signed
  <1>1. View(RequestFor(parts, in)).expires = in.expires
    BY DEF View, VerifiedRequest, RequestFor
  <1>2. SaturatingAdd(in.expires, CLOCK_SKEW_SECONDS) \in Int
    BY DEF Inputs, SaturatingAdd
  <1>3. QED
    BY <1>1, <1>2 DEF Past

LEMMA MemoryKept ==
  ASSUME IInv, UNCHANGED <<memory, log>>, clock' \in Int, clock <= clock',
         \A w \in WORKERS : work'[w] # NoWork =>
           \/ work[w] # NoWork /\ work'[w].now = work[w].now
           \/ work'[w].now = clock'
  PROVE  MemoryOK'
  <1>1. ASSUME NEW i \in DOMAIN log, Gone(log[i]) PROVE Gone(log[i])'
    <2>1. log[i] \in Signed /\ clock \in Int
      BY DEF IInv
    <2>2. Past(View(log[i]), clock')
      BY <1>1, <2>1, PastStays DEF Gone
    <2>3. \A w \in WORKERS : work'[w] # NoWork => Past(View(log[i]), work'[w].now)
      BY <1>1, <2>2 DEF Gone
    <2>4. QED
      BY <2>2, <2>3 DEF Gone, Past, View, NoWork
  <1>2. QED
    BY <1>1 DEF IInv, MemoryOK

-----------------------------------------------------------------------------
(* Steps.                                                                  *)

(* What a worker is doing stays in order while its caller stays as it is.  *)
LEMMA WorkKept ==
  ASSUME IInv, asked \subseteq asked', clock' \in Int, clock <= clock',
         log' = log \/ (\E x : log' = Append(log, x))
  PROVE  \A x : /\ WorkOK(x)
                /\ x.caller # NONE => call'[x.caller] = call[x.caller]
                => WorkOK(x)'
  <1> SUFFICES ASSUME NEW x, WorkOK(x),
                      x.caller # NONE => call'[x.caller] = call[x.caller]
               PROVE  WorkOK(x)'
    OBVIOUS
  <1>1. Wires \subseteq Wires'
    BY CallsKept
  <1>2. x \in [request : Wires' \cup {NONE}, now : 0 .. clock',
               caller : CALLERS \cup {NONE}]
    BY <1>1 DEF WorkOK, IInv
  <1>3. x # NoWork => x.request \in Wires'
    BY <1>1 DEF WorkOK
  <1>4. QED
    BY <1>2, <1>3 DEF WorkOK, CameFrom, NoWork

(* A step after which more is late, if anything.                           *)
LateGrows == late' \subseteq late \cup Wires

(* A step of one caller that no worker works for.                          *)
LEMMA CallerStep ==
  ASSUME IInv, NEW c \in CALLERS, NEW r, CallOK(r)',
         call' = [call EXCEPT ![c] = r],
         \A w \in WORKERS : work[w].caller # c,
         asked \subseteq asked', asked' \subseteq Signed,
         LateGrows,
         UNCHANGED <<clock, memory, log, work>>
  PROVE  IInv'
  <1>1. call' \in [CALLERS -> Calls']
    BY CallsKept DEF IInv, CallOK
  <1>2. ASSUME NEW b \in CALLERS PROVE CallOK(call[b])'
    <2>1. CASE b = c
      <3>1. call'[b] = r
        BY <2>1 DEF IInv
      <3>2. QED
        BY <3>1
    <2>2. CASE b # c
      <3>1. PICK x : x = call[b]
        OBVIOUS
      <3>2. call'[b] = x
        BY <2>2, <3>1 DEF IInv
      <3>3. CallOK(x)'
        BY <3>1, CallsKept DEF IInv
      <3>4. QED
        BY <3>2, <3>3
    <2>3. QED
      BY <2>1, <2>2
  <1>3. ASSUME NEW w \in WORKERS PROVE WorkOK(work[w])'
    <2>1. PICK x : x = work[w]
      OBVIOUS
    <2>2. WorkOK(x) /\ clock \in Int
      BY <2>1 DEF IInv
    <2>3. x.caller # NONE => call'[x.caller] = call[x.caller]
      BY <2>1, <2>2 DEF WorkOK, IInv
    <2>4. WorkOK(x)'
      BY <2>2, <2>3, WorkKept
    <2>5. QED
      BY <2>1, <2>4
  <1>4. /\ OneEach'
        /\ late' \subseteq Wires'
        /\ log' \in Seq(asked')
    BY CallsKept DEF IInv, OneEach, LateGrows
  <1>5. MemoryOK'
    BY MemoryKept DEF IInv
  <1>6. QED
    BY <1>1, <1>2, <1>3, <1>4, <1>5 DEF IInv

LEMMA NobodyWorks ==
  ASSUME IInv, NEW c \in CALLERS,
         \/ call[c].pc # "waiting"
         \/ call[c].wire # NONE
         \/ call[c].reply # NONE
  PROVE  \A w \in WORKERS : work[w].caller # c
  <1> SUFFICES ASSUME NEW w \in WORKERS, work[w].caller = c PROVE FALSE
    OBVIOUS
  <1>1. WorkOK(work[w])
    BY DEF IInv
  <1>2. work[w].caller # NONE
    OBVIOUS
  <1>3. /\ call[work[w].caller].pc = "waiting"
        /\ call[work[w].caller].wire = NONE
        /\ call[work[w].caller].reply = NONE
    BY <1>1, <1>2 DEF WorkOK
  <1>4. /\ call[c].pc = "waiting"
        /\ call[c].wire = NONE
        /\ call[c].reply = NONE
    BY <1>3
  <1>5. QED
    BY <1>4

(* A wire with another target is a wire of the same request.               *)
LEMMA Retargeted ==
  ASSUME asked \subseteq Signed
  PROVE  /\ \A m \in asked, u \in TargetUris :
              LET r == Retarget(m, u)
              IN r \in Wires /\ CameFrom(r, m)
         /\ \A m \in asked, u \in TargetUris : \A x :
              CameFrom(x, m) =>
                LET r == Retarget(x, u)
                IN r \in Wires /\ CameFrom(r, m)
  <1>1. ASSUME NEW m \in asked, NEW u \in TargetUris
        PROVE  LET r == Retarget(m, u)
               IN r \in Wires /\ CameFrom(r, m)
    BY DEF Wires, CameFrom
  <1>2. ASSUME NEW m \in asked, NEW v \in TargetUris, NEW u \in TargetUris
        PROVE  LET x == Retarget(m, v)
                   r == Retarget(x, u)
               IN r \in Wires /\ CameFrom(r, m)
    <2> DEFINE x == Retarget(m, v)
               r == Retarget(x, u)
    <2>1. PICK parts \in RequestParts, in \in Inputs :
            m = RequestFor(parts, in)
      BY DEF Signed
    <2>2. r = Retarget(m, u)
      <3> DEFINE W(q) == [m EXCEPT !.parts = q]
      <3>1. x = W([parts EXCEPT !.target_uri = v])
        BY <2>1 DEF RequestFor, Retarget
      <3>2. x.parts = [parts EXCEPT !.target_uri = v]
        BY <2>1 DEF RequestFor, Retarget
      <3>3. r = [x EXCEPT !.parts = [x.parts EXCEPT !.target_uri = u]]
        BY <2>1 DEF RequestFor, Retarget
      <3>4. [x.parts EXCEPT !.target_uri = u] = [parts EXCEPT !.target_uri = u]
        BY <3>2 DEF RequestParts
      <3>5. r = W([parts EXCEPT !.target_uri = u])
        BY <2>1, <3>1, <3>3, <3>4 DEF RequestFor
      <3>6. m.parts = parts
        BY <2>1 DEF RequestFor
      <3>7. QED
        BY <3>5, <3>6 DEF RequestFor, Retarget
    <2>3. QED
      BY <1>1, <2>2
  <1>3. ASSUME NEW m \in asked, NEW x, NEW u \in TargetUris, CameFrom(x, m)
        PROVE  LET r == Retarget(x, u)
               IN r \in Wires /\ CameFrom(r, m)
    <2>1. PICK v \in TargetUris : x = Retarget(m, v)
      BY <1>3 DEF CameFrom
    <2>2. LET y == Retarget(m, v)
              r == Retarget(y, u)
          IN r \in Wires /\ CameFrom(r, m)
      BY <1>2, Zenon
    <2>3. QED
      BY <2>1, <2>2, Zenon
  <1>4. QED
    BY <1>1, <1>3

LEMMA SignAnewIInv ==
  ASSUME IInv, NEW c \in CALLERS, SignAnew(c)
  PROVE  IInv'
  <1>1. PICK nonce \in NONCES :
          LET signed == Sign(PURPOSES[c], MyCredential, clock,
                             clock + SIGNATURE_VALIDITY_SECONDS, nonce)
          IN /\ signed.ok
             /\ call' = [call EXCEPT ![c] =
                  [NoCall EXCEPT !.pc = "ready", !.request = signed.value]]
             /\ asked' = asked \cup {signed.value}
    BY DEF SignAnew
  <1>2. PICK m : m = Sign(PURPOSES[c], MyCredential, clock,
                          clock + SIGNATURE_VALIDITY_SECONDS, nonce).value
    OBVIOUS
  <1>3. m \in Signed
    BY <1>1, <1>2, SignReturns DEF IInv, Signed
  <1>4. PICK r : r = [NoCall EXCEPT !.pc = "ready", !.request = m]
    OBVIOUS
  <1>5. call' = [call EXCEPT ![c] = r] /\ asked' = asked \cup {m}
    BY <1>1, <1>2, <1>4
  <1>6. CallOK(r)'
    BY <1>4, <1>5 DEF CallOK, NoCall, Calls
  <1>7. call[c].pc # "waiting"
    BY DEF SignAnew
  <1>8. UNCHANGED <<clock, late, memory, log, work>>
    BY DEF SignAnew
  <1>9. QED
    BY <1>3, <1>5, <1>6, <1>7, <1>8, NobodyWorks, CallerStep DEF IInv, LateGrows

LEMMA CallSendIInv ==
  ASSUME IInv, NEW c \in CALLERS, CallSend(c)
  PROVE  IInv'
  <1> DEFINE m == call[c].request
             u == CANONICAL[m.parts.target_uri]
  <1>1. /\ call[c].pc \in {"ready", "returned"}
        /\ u # NONE
        /\ UNCHANGED <<clock, late, memory, asked, log, work>>
    BY DEF CallSend, MaySend
  <1>2. CallOK(call[c]) /\ m \in asked /\ asked \subseteq Signed
    BY <1>1 DEF IInv, CallOK
  <1>3. u \in TargetUris
    BY <1>1, <1>2 DEF Signed, RequestFor, RequestParts
  <1>4. Outgoing(m) \in Wires /\ CameFrom(Outgoing(m), m)
    BY <1>2, <1>3, Retargeted DEF Outgoing
  <1>5. PICK r : r = [call[c] EXCEPT !.pc = "waiting", !.served = FALSE,
                                     !.result = NONE, !.wire = Outgoing(m)]
    OBVIOUS
  <1>6. call' = [call EXCEPT ![c] = r]
    BY <1>5 DEF CallSend
  <1>7. CallOK(r)
    BY <1>1, <1>2, <1>4, <1>5 DEF CallOK, Calls
  <1>8. CallOK(r)'
    BY <1>1, <1>7, CallsKept
  <1>9. QED
    BY <1>1, <1>2, <1>6, <1>8, NobodyWorks, CallerStep DEF LateGrows

(* send returns Transport or a result that was read whole.                 *)
LEMMA ReturnedOK ==
  ASSUME IInv, NEW c \in CALLERS, NEW result \in Results,
         call[c].pc # "idle",
         (/\ call[c].served
          /\ result.ok
          /\ result.value.body \in {"done", "repeated"})
         => ActedOn(call[c].request),
         call' = [call EXCEPT ![c] = Returned(c, result)],
         \A w \in WORKERS : work[w].caller # c,
         UNCHANGED <<clock, late, memory, asked, log, work>>
  PROVE  IInv'
  <1>1. CallOK(call[c]) /\ asked \subseteq Signed
    BY DEF IInv
  <1>2. PICK r : r = Returned(c, result)
    OBVIOUS
  <1>3. /\ r \in Calls
        /\ r.pc = "returned"
        /\ r.wire = NONE
        /\ r.reply = NONE
        /\ r.request = call[c].request
        /\ r.served = call[c].served
        /\ r.result = result
    BY <1>1, <1>2 DEF Returned, Calls, CallOK
  <1>4. CallOK(r)
    BY <1>1, <1>3 DEF CallOK
  <1>5. CallOK(r)'
    BY <1>4, CallsKept
  <1>6. call' = [call EXCEPT ![c] = r]
    BY <1>2
  <1>7. QED
    BY <1>1, <1>5, <1>6, CallerStep DEF LateGrows

LEMMA CannotSendIInv ==
  ASSUME IInv, NEW c \in CALLERS, CannotSend(c)
  PROVE  IInv'
  <1>1. /\ call[c].pc \in {"ready", "returned"}
        /\ call' = [call EXCEPT ![c] = Returned(c, Err(Transport))]
        /\ UNCHANGED <<clock, late, memory, asked, log, work>>
    BY DEF CannotSend, MaySend, Send, NoReply
  <1>2. Err(Transport) \in Results /\ ~Err(Transport).ok
    BY DEF Results, Err
  <1>3. QED
    BY <1>1, <1>2, NobodyWorks, ReturnedOK

(* What send makes of an answer, whole or cut short.                       *)
LEMMA SendResult ==
  \A reply \in Replies :
    /\ Send(reply) \in Results
    /\ Send(reply).value.body = reply.body
    /\ Send(CutShort(reply)) = Err(Transport)
  <1> SUFFICES ASSUME NEW s \in {200, 401, 409, 503}, NEW b \in Answers
               PROVE  /\ Send(Reply(s, b)) \in Results
                      /\ Send(Reply(s, b)).value.body = Reply(s, b).body
                      /\ Send(CutShort(Reply(s, b))) = Err(Transport)
    BY DEF Replies
  <1>1. Send(Reply(s, b)) = Ok([status |-> s, body |-> b])
    BY DEF Send, Reply
  <1>2. Send(CutShort(Reply(s, b))) = Err(Transport)
    BY DEF Send, Reply, CutShort
  <1>3. Ok([status |-> s, body |-> b]) \in Results
    BY DEF Results
  <1>4. /\ Ok([status |-> s, body |-> b]).value.body = b
        /\ Reply(s, b).body = b
    BY DEF Ok, Reply
  <1>5. QED
    BY <1>1, <1>2, <1>3, <1>4

LEMMA ReadIInv ==
  ASSUME IInv, NEW c \in CALLERS, ReadWhole(c) \/ ReadPart(c)
  PROVE  IInv'
  <1> DEFINE reply == call[c].reply
  <1>1. /\ call[c].pc = "waiting"
        /\ reply # NONE
        /\ UNCHANGED <<clock, late, memory, asked, log, work>>
        /\ \/ call' = [call EXCEPT ![c] = Returned(c, Send(reply))]
           \/ call' = [call EXCEPT ![c] = Returned(c, Send(CutShort(reply)))]
    BY DEF ReadWhole, ReadPart, ReadReply
  <1>2. CallOK(call[c])
    BY DEF IInv
  <1>3. reply \in Replies
    BY <1>1, <1>2 DEF CallOK, Calls
  <1>4. call[c].served /\ reply.body \in {"done", "repeated"} =>
          ActedOn(call[c].request)
    BY <1>1, <1>2 DEF CallOK
  <1>5. /\ Send(reply) \in Results
        /\ Send(reply).value.body = reply.body
        /\ Send(CutShort(reply)) = Err(Transport)
    BY <1>3, SendResult
  <1>6. Err(Transport) \in Results /\ ~Err(Transport).ok
    BY DEF Results, Err
  <1>7. \A w \in WORKERS : work[w].caller # c
    BY <1>1, NobodyWorks
  <1>8. CASE call' = [call EXCEPT ![c] = Returned(c, Send(reply))]
    <2>1. (/\ call[c].served
           /\ Send(reply).ok
           /\ Send(reply).value.body \in {"done", "repeated"})
          => ActedOn(call[c].request)
      BY <1>4, <1>5
    <2> HIDE DEF reply
    <2>2. QED
      BY <1>1, <1>5, <1>7, <1>8, <2>1, ReturnedOK
  <1>9. CASE call' = [call EXCEPT ![c] = Returned(c, Err(Transport))]
    BY <1>1, <1>6, <1>7, <1>9, ReturnedOK
  <1>10. QED
    BY <1>1, <1>5, <1>8, <1>9

LEMMA RedirectIInv ==
  ASSUME IInv, NEW c \in CALLERS, Redirect(c)
  PROVE  IInv'
  <1>1. /\ ELSEWHERE \in TargetUris
        /\ call[c].pc = "waiting"
        /\ call[c].wire # NONE
        /\ UNCHANGED <<clock, late, memory, asked, log, work>>
        /\ call' = [call EXCEPT ![c].wire = Retarget(call[c].wire, ELSEWHERE)]
    BY DEF Redirect, OnItsWay
  <1>2. CallOK(call[c]) /\ asked \subseteq Signed
    BY DEF IInv
  <1>3. call[c].request \in asked /\ CameFrom(call[c].wire, call[c].request)
    BY <1>1, <1>2 DEF CallOK
  <1>4. PICK x : x = Retarget(call[c].wire, ELSEWHERE)
    OBVIOUS
  <1>5. x \in Wires /\ CameFrom(x, call[c].request)
    BY <1>1, <1>2, <1>3, <1>4, Retargeted
  <1>6. call[c].reply = NONE
    BY <1>1, <1>2 DEF CallOK
  <1>7. PICK r : r = [call[c] EXCEPT !.wire = x]
    OBVIOUS
  <1>8. CallOK(r)
    BY <1>1, <1>2, <1>5, <1>6, <1>7 DEF CallOK, Calls
  <1>9. CallOK(r)'
    BY <1>1, <1>8, CallsKept
  <1>10. call' = [call EXCEPT ![c] = r]
    BY <1>1, <1>4, <1>7
  <1>11. QED
    BY <1>1, <1>2, <1>9, <1>10, NobodyWorks, CallerStep DEF LateGrows

(* A caller on whose wire nothing comes back any more but a reply.         *)
LEMMA AnsweredOK ==
  ASSUME IInv, NEW c \in CALLERS, NEW reply \in Replies,
         call[c].pc = "waiting", asked \subseteq asked',
         log' = log \/ (\E x : log' = Append(log, x)),
         NEW served \in BOOLEAN, NEW r, r = Answered(c, reply, served),
         served /\ reply.body \in {"done", "repeated"} => ActedOn(r.request)'
  PROVE  CallOK(r)'
  <1>1. CallOK(call[c])
    BY DEF IInv
  <1>2. /\ r \in Calls
        /\ r.pc = "waiting"
        /\ r.wire = NONE
        /\ r.reply = reply
        /\ r.served = served
        /\ r.request \in asked
    BY <1>1 DEF Answered, Calls, CallOK
  <1>3. [r EXCEPT !.reply = NONE] \in Calls
    BY <1>2 DEF Calls
  <1>4. PICK q : q = [r EXCEPT !.reply = NONE]
    OBVIOUS
  <1>5. CallOK(q)
    BY <1>2, <1>3, <1>4 DEF CallOK, Calls
  <1>6. CallOK(q)'
    BY <1>5, CallsKept
  <1>7. r \in Calls'
    <2>1. q \in Calls'
      BY <1>6 DEF CallOK
    <2>2. r = [q EXCEPT !.reply = reply]
      BY <1>2, <1>4 DEF Calls
    <2>3. QED
      BY <2>1, <2>2 DEF Calls
  <1>8. QED
    BY <1>2, <1>7 DEF CallOK

(* Somebody else answers for the service.                                  *)
LEMMA PageIInv ==
  ASSUME IInv, NEW c \in CALLERS, RedirectToPage(c) \/ GatewayFails(c)
  PROVE  IInv'
  <1>1. PICK reply \in Replies :
          call' = [call EXCEPT ![c] = Answered(c, reply, FALSE)]
    <2>1. \A s \in {200, 503}, b \in Answers : Reply(s, b) \in Replies
      BY DEF Replies
    <2>2. CASE RedirectToPage(c)
      <3>1. PICK said \in Answers :
              call' = [call EXCEPT ![c] = Answered(c, Reply(200, said), FALSE)]
        BY <2>2 DEF RedirectToPage
      <3>2. Reply(200, said) \in Replies
        BY <2>1
      <3>3. QED
        BY <3>1, <3>2, Zenon
    <2>3. CASE GatewayFails(c)
      <3>1. PICK said \in Answers :
              call' = [call EXCEPT ![c] = Answered(c, Reply(503, said), FALSE)]
        BY <2>3 DEF GatewayFails
      <3>2. Reply(503, said) \in Replies
        BY <2>1
      <3>3. QED
        BY <3>1, <3>2, Zenon
    <2>4. QED
      BY <2>2, <2>3
  <1>2. /\ call[c].pc = "waiting"
        /\ call[c].wire # NONE
        /\ UNCHANGED <<clock, memory, asked, log, work>>
        /\ late' \subseteq late \cup {call[c].wire}
    BY DEF RedirectToPage, GatewayFails, OnItsWay
  <1>3. CallOK(call[c]) /\ asked \subseteq Signed
    BY DEF IInv
  <1>4. LateGrows
    BY <1>2, <1>3 DEF CallOK, Calls, LateGrows
  <1>5. PICK r : r = Answered(c, reply, FALSE)
    OBVIOUS
  <1>6. /\ asked \subseteq asked'
        /\ log' = log \/ (\E x : log' = Append(log, x))
        /\ FALSE \in BOOLEAN
    BY <1>2
  <1>7. CallOK(r)'
    BY <1>2, <1>5, <1>6, AnsweredOK
  <1>8. call' = [call EXCEPT ![c] = r]
    BY <1>1, <1>5
  <1>9. \A w \in WORKERS : work[w].caller # c
    BY <1>2, NobodyWorks
  <1>10. QED
    BY <1>2, <1>3, <1>4, <1>7, <1>8, <1>9, CallerStep

(* A worker is done.                                                       *)
LEMMA AnswerStep ==
  ASSUME IInv, NEW w \in WORKERS, NEW reply \in Replies,
         work[w] # NoWork, Answer(w, reply), MemoryOK', log' \in Seq(asked),
         log' = log \/ (\E x : log' = Append(log, x)),
         reply.body \in {"done", "repeated"} =>
           \A m \in asked : CameFrom(work[w].request, m) => ActedOn(m)'
  PROVE  IInv'
  <1>1. /\ work' = [work EXCEPT ![w] = NoWork]
        /\ UNCHANGED <<clock, late, asked>>
        /\ \A c \in CALLERS :
             call'[c] = IF c = work[w].caller THEN Answered(c, reply, TRUE)
                                              ELSE call[c]
        /\ call' = [c \in CALLERS |-> call'[c]]
    BY DEF Answer
  <1>2. clock \in Int /\ asked \subseteq asked' /\ clock <= clock'
    BY <1>1 DEF IInv
  <1>3. ASSUME NEW c \in CALLERS PROVE CallOK(call[c])'
    <2>1. CASE c # work[w].caller
      <3>1. PICK r : r = call[c]
        OBVIOUS
      <3>2. call'[c] = r
        BY <1>1, <2>1, <3>1
      <3>3. CallOK(r)'
        BY <1>2, <3>1, CallsKept DEF IInv
      <3>4. QED
        BY <3>2, <3>3
    <2>2. CASE c = work[w].caller
      <3>1. WorkOK(work[w]) /\ c # NONE
        BY DEF IInv
      <3>2. /\ call[c].pc = "waiting"
            /\ CameFrom(work[w].request, call[c].request)
        BY <2>2, <3>1 DEF WorkOK
      <3>3. PICK r : r = Answered(c, reply, TRUE)
        OBVIOUS
      <3>4. call'[c] = r
        BY <1>1, <2>2, <3>3
      <3>5. PICK m : m = call[c].request
        OBVIOUS
      <3>6. CallOK(call[c])
        BY DEF IInv
      <3>7. r.request = m
        BY <3>3, <3>5, <3>6 DEF Answered, CallOK, Calls
      <3>8. reply.body \in {"done", "repeated"} => ActedOn(m)'
        BY <3>2, <3>5, <3>6 DEF CallOK
      <3>9. reply.body \in {"done", "repeated"} => ActedOn(r.request)'
        BY <3>7, <3>8
      <3>10. CallOK(r)'
        BY <1>2, <3>2, <3>3, <3>9, AnsweredOK
      <3>11. QED
        BY <3>4, <3>10
    <2>3. QED
      BY <2>1, <2>2
  <1>4. ASSUME NEW v \in WORKERS PROVE WorkOK(work[v])'
    <2>1. CASE v = w
      <3>1. work'[v] = NoWork
        BY <1>1, <2>1 DEF IInv
      <3>2. WorkOK(NoWork)'
        BY <1>1 DEF WorkOK, NoWork, IInv
      <3>3. QED
        BY <3>1, <3>2
    <2>2. CASE v # w
      <3>1. PICK x : x = work[v]
        OBVIOUS
      <3>2. work'[v] = x
        BY <1>1, <2>2, <3>1
      <3>3. WorkOK(x)
        BY <3>1 DEF IInv
      <3>4. x.caller # NONE => x.caller \in CALLERS /\ x.caller # work[w].caller
        BY <2>2, <3>1, <3>3 DEF IInv, OneEach, WorkOK
      <3>5. x.caller # NONE => call'[x.caller] = call[x.caller]
        BY <1>1, <3>4
      <3>6. WorkOK(x)'
        BY <1>2, <1>1, <3>3, <3>5, WorkKept
      <3>7. QED
        BY <3>2, <3>6
    <2>3. QED
      BY <2>1, <2>2
  <1>5. call' \in [CALLERS -> Calls']
    BY <1>1, <1>3 DEF CallOK
  <1>6. OneEach'
    BY <1>1 DEF IInv, OneEach, NoWork
  <1>7. late' \subseteq Wires'
    BY <1>1, <1>2, CallsKept DEF IInv
  <1>8. /\ DOMAIN work' = WORKERS
        /\ work' = [v \in WORKERS |-> work'[v]]
    BY <1>1 DEF IInv
  <1>9. QED
    BY <1>1, <1>3, <1>4, <1>5, <1>6, <1>7, <1>8 DEF IInv

(* What the service lets through was asked for, and may still verify.      *)
LEMMA LetThrough ==
  ASSUME IInv, NEW w \in WORKERS, work[w] # NoWork, Verdict(w).ok
  PROVE  /\ work[w].request \in asked
         /\ work[w].request \in Signed
         /\ Verdict(w).value = View(work[w].request)
         /\ ~Past(View(work[w].request), work[w].now)
         /\ \A m \in asked : CameFrom(work[w].request, m) => work[w].request = m
  <1>1. WorkOK(work[w]) /\ asked \subseteq Signed /\ clock \in Nat
    BY DEF IInv
  <1>2. work[w].request \in Wires /\ work[w].now \in 0 .. clock
    BY <1>1 DEF WorkOK
  <1>3. PICK m \in asked, u \in TargetUris : work[w].request = Retarget(m, u)
    BY <1>2 DEF Wires
  <1>4. work[w].now \in Nat
    BY <1>1, <1>2
  <1>5. LET r == Retarget(m, u)
            verdict == VerifyIncoming(r, MyCredential.public_key, work[w].now)
        IN verdict.ok => /\ r = m
                         /\ verdict.value = View(m)
                         /\ ~Past(View(m), work[w].now)
    BY <1>1, <1>4, VerifiedMeansSigned
  <1>6. ASSUME NEW n \in asked, CameFrom(work[w].request, n)
        PROVE  work[w].request = n
    <2>1. PICK v \in TargetUris : work[w].request = Retarget(n, v)
      BY <1>6 DEF CameFrom
    <2>2. LET r == Retarget(n, v)
              verdict == VerifyIncoming(r, MyCredential.public_key, work[w].now)
          IN verdict.ok => /\ r = n
                           /\ verdict.value = View(n)
                           /\ ~Past(View(n), work[w].now)
      BY <1>1, <1>4, VerifiedMeansSigned
    <2>3. QED
      BY <2>1, <2>2 DEF Verdict
  <1>7. QED
    BY <1>1, <1>3, <1>5, <1>6 DEF Verdict

LEMMA GoneKept ==
  ASSUME NEW w \in WORKERS, IInv, work' = [work EXCEPT ![w] = NoWork],
         clock' = clock
  PROVE  \A m : Gone(m) => Gone(m)'
  <1> SUFFICES ASSUME NEW m, Gone(m) PROVE Gone(m)'
    OBVIOUS
  <1>1. Past(View(m), clock')
    BY DEF Gone
  <1>2. ASSUME NEW v \in WORKERS, work'[v] # NoWork
        PROVE  Past(View(m), work'[v].now)
    <2>1. work'[v] = work[v]
      BY <1>2 DEF IInv
    <2>2. QED
      BY <1>2, <2>1 DEF Gone
  <1>3. QED
    BY <1>1, <1>2 DEF Gone, Past, View, NoWork

LEMMA ActIInv ==
  ASSUME IInv, NEW w \in WORKERS, Act(w)
  PROVE  IInv'
  <1> DEFINE reply == Reply(200, "done")
  <1>1. PICK r : r = work[w].request
    OBVIOUS
  <1>2. /\ r \in asked
        /\ Verdict(w).value = View(r)
        /\ \A m \in asked : CameFrom(r, m) => r = m
    BY <1>1, LetThrough DEF Act
  <1>3. /\ work[w] # NoWork
        /\ memory' = memory \cup {View(r)}
        /\ log' = Append(log, r)
        /\ Answer(w, reply)
        /\ work' = [work EXCEPT ![w] = NoWork]
        /\ clock' = clock
    BY <1>1, <1>2 DEF Act, Answer
  <1>4. /\ log \in Seq(asked)
        /\ log' \in Seq(asked)
        /\ DOMAIN log' = 1 .. (Len(log) + 1)
        /\ DOMAIN log = 1 .. Len(log)
        /\ Len(log) \in Nat
        /\ log'[Len(log) + 1] = r
        /\ \A i \in DOMAIN log : log'[i] = log[i]
    BY <1>2, <1>3 DEF IInv
  <1>5. \A i \in DOMAIN log' : i \in DOMAIN log \/ i = Len(log) + 1
    BY <1>4
  <1>6. MemoryOK
    BY DEF IInv
  <1>7. ASSUME NEW i \in DOMAIN log'
        PROVE  View(log'[i]) \in memory' \/ Gone(log[i])'
    <2>1. CASE i = Len(log) + 1
      BY <1>3, <1>4, <2>1
    <2>2. CASE i \in DOMAIN log
      <3>1. PICK m : m = log[i]
        OBVIOUS
      <3>2. log'[i] = m
        BY <1>4, <2>2, <3>1
      <3>3. View(m) \in memory \/ Gone(m)
        BY <1>6, <2>2, <3>1 DEF MemoryOK
      <3>4. Gone(m) => Gone(m)'
        BY <1>3, GoneKept
      <3>5. View(m) \in memory' \/ Gone(m)'
        BY <1>3, <3>3, <3>4
      <3>6. QED
        BY <3>2, <3>5
    <2>3. QED
      BY <1>5, <2>1, <2>2
  <1>8. ASSUME NEW v \in memory'
        PROVE  \E i \in DOMAIN log' : View(log'[i]) = v
    <2>1. CASE v = View(r)
      BY <1>4, <2>1
    <2>2. CASE v \in memory
      <3>1. PICK i \in DOMAIN log : View(log[i]) = v
        BY <1>6, <2>2 DEF MemoryOK
      <3>2. i \in DOMAIN log' /\ log'[i] = log[i]
        BY <1>4
      <3>3. QED
        BY <3>1, <3>2
    <2>3. QED
      BY <1>3, <2>1, <2>2
  <1>9. MemoryOK'
    BY <1>7, <1>8 DEF MemoryOK, View
  <1>10. ASSUME NEW m \in asked, CameFrom(r, m) PROVE ActedOn(m)'
    <2>1. log'[Len(log) + 1] = m /\ Len(log) + 1 \in DOMAIN log'
      BY <1>2, <1>4, <1>10
    <2>2. QED
      BY <2>1 DEF ActedOn
  <1>11. reply \in Replies
    BY DEF Replies, Answers
  <1>12. \A m \in asked : CameFrom(work[w].request, m) => ActedOn(m)'
    BY <1>1, <1>10
  <1> HIDE DEF reply
  <1>13. QED
    BY <1>3, <1>4, <1>9, <1>11, <1>12, AnswerStep

LEMMA RefuseIInv ==
  ASSUME IInv, Distinct, NEW w \in WORKERS, Repeated(w) \/ Refuse(w)
  PROVE  IInv'
  <1>1. /\ work[w] # NoWork
        /\ UNCHANGED <<memory, log, clock, asked>>
        /\ work' = [work EXCEPT ![w] = NoWork]
    BY DEF Repeated, Refuse, Answer
  <1>2. log' \in Seq(asked) /\ clock \in Int /\ clock <= clock'
    BY <1>1 DEF IInv
  <1>3. \A v \in WORKERS : work'[v] # NoWork =>
          work[v] # NoWork /\ work'[v].now = work[v].now
    BY <1>1 DEF IInv
  <1>4. MemoryOK'
    BY <1>1, <1>2, <1>3, MemoryKept
  <1>5. CASE Repeated(w)
    <2> DEFINE reply == Reply(409, "repeated")
    <2>1. PICK r : r = work[w].request
      OBVIOUS
    <2>2. /\ View(r) \in memory
          /\ r \in asked
          /\ \A m \in asked : CameFrom(r, m) => r = m
      BY <1>1, <1>5, <2>1, LetThrough DEF Repeated
    <2>3. PICK i \in DOMAIN log : View(log[i]) = View(r)
      BY <2>2 DEF IInv, MemoryOK
    <2>4. OwnRequestIds => log[i] = r
      BY <2>2, <2>3 DEF IInv, Distinct
    <2>5. ASSUME NEW m \in asked, CameFrom(r, m) PROVE ActedOn(m)'
      <3>1. OwnRequestIds => log'[i] = m /\ i \in DOMAIN log'
        BY <1>1, <2>2, <2>4, <2>5
      <3>2. QED
        BY <3>1 DEF ActedOn
    <2>6. \A m \in asked : CameFrom(work[w].request, m) => ActedOn(m)'
      BY <2>1, <2>5
    <2>7. reply \in Replies /\ Answer(w, reply)
      BY <1>5 DEF Replies, Answers, Repeated
    <2> HIDE DEF reply
    <2>8. QED
      BY <1>1, <1>2, <1>4, <2>6, <2>7, AnswerStep
  <1>6. CASE Refuse(w)
    <2> DEFINE reply == Reply(401, "refused")
    <2>1. reply.body = "refused"
      BY DEF Reply
    <2>2. reply \in Replies /\ Answer(w, reply)
      BY <1>6 DEF Replies, Answers, Refuse
    <2> HIDE DEF reply
    <2>3. QED
      BY <1>1, <1>2, <1>4, <2>1, <2>2, AnswerStep
  <1>7. QED
    BY <1>5, <1>6

LEMMA TakeUpIInv ==
  ASSUME IInv, NEW w \in WORKERS, NEW c \in CALLERS, TakeUp(w, c)
  PROVE  IInv'
  <1>1. /\ work[w] = NoWork
        /\ call[c].pc = "waiting"
        /\ call[c].wire # NONE
        /\ UNCHANGED <<clock, late, memory, asked, log>>
        /\ call' = [call EXCEPT ![c].wire = NONE]
        /\ work' = [work EXCEPT ![w] =
             [request |-> call[c].wire, now |-> clock, caller |-> c]]
    BY DEF TakeUp, OnItsWay
  <1>2. /\ CallOK(call[c])
        /\ clock \in Nat
        /\ asked \subseteq asked'
    BY <1>1 DEF IInv
  <1>3. PICK x : x = [request |-> call[c].wire, now |-> clock, caller |-> c]
    OBVIOUS
  <1>4. PICK r : r = [call[c] EXCEPT !.wire = NONE]
    OBVIOUS
  <1>5. /\ r \in Calls
        /\ r.pc = "waiting"
        /\ r.wire = NONE
        /\ r.reply = NONE
        /\ r.request = call[c].request
        /\ r.request \in asked
    BY <1>1, <1>2, <1>4 DEF CallOK, Calls
  <1>6. CallOK(r)
    BY <1>5 DEF CallOK
  <1>7. CallOK(r)'
    BY <1>1, <1>2, <1>6, CallsKept
  <1>8. call' = [call EXCEPT ![c] = r] /\ work' = [work EXCEPT ![w] = x]
    BY <1>1, <1>3, <1>4
  <1>9. /\ x.request \in Wires
        /\ x.caller = c
        /\ x.now = clock
        /\ CameFrom(x.request, r.request)
        /\ x \in [request : Wires \cup {NONE}, now : 0 .. clock,
                  caller : CALLERS \cup {NONE}]
    BY <1>1, <1>2, <1>3, <1>5 DEF CallOK, Calls
  <1>10. ASSUME NEW b \in CALLERS PROVE CallOK(call[b])'
    <2>1. CASE b = c
      BY <1>7, <1>8, <2>1 DEF IInv
    <2>2. CASE b # c
      <3>1. PICK q : q = call[b]
        OBVIOUS
      <3>2. call'[b] = q
        BY <1>8, <2>2, <3>1 DEF IInv
      <3>3. CallOK(q)'
        BY <1>1, <1>2, <3>1, CallsKept DEF IInv
      <3>4. QED
        BY <3>2, <3>3
    <2>3. QED
      BY <2>1, <2>2
  <1>11. \A v \in WORKERS : work[v].caller # c
    BY <1>1, NobodyWorks
  <1>12. ASSUME NEW v \in WORKERS PROVE WorkOK(work[v])'
    <2>1. CASE v = w
      <3>1. work'[v] = x
        BY <1>8, <2>1 DEF IInv
      <3>2. /\ x.request \in Wires'
            /\ x \in [request : Wires' \cup {NONE}, now : 0 .. clock',
                      caller : CALLERS \cup {NONE}]
        BY <1>1, <1>2, <1>9, CallsKept
      <3>3. call'[x.caller] = r
        BY <1>8, <1>9 DEF IInv
      <3>4. WorkOK(x)'
        BY <1>5, <1>9, <3>2, <3>3 DEF WorkOK, CameFrom
      <3>5. QED
        BY <3>1, <3>4
    <2>2. CASE v # w
      <3>1. PICK y : y = work[v]
        OBVIOUS
      <3>2. work'[v] = y
        BY <1>8, <2>2, <3>1 DEF IInv
      <3>3. WorkOK(y)
        BY <3>1 DEF IInv
      <3>4. y.caller # NONE => call'[y.caller] = call[y.caller]
        BY <1>8, <1>11, <3>1, <3>3 DEF WorkOK, IInv
      <3>5. WorkOK(y)'
        BY <1>1, <1>2, <3>3, <3>4, WorkKept
      <3>6. QED
        BY <3>2, <3>5
    <2>3. QED
      BY <2>1, <2>2
  <1>13. OneEach'
    BY <1>8, <1>9, <1>11 DEF IInv, OneEach
  <1>14. \A v \in WORKERS : work'[v] # NoWork =>
           \/ work[v] # NoWork /\ work'[v].now = work[v].now
           \/ work'[v].now = clock'
    BY <1>1, <1>8, <1>9 DEF IInv
  <1>15. MemoryOK'
    BY <1>1, <1>2, <1>14, MemoryKept
  <1>16. call' \in [CALLERS -> Calls']
    BY <1>8, <1>10 DEF CallOK, IInv
  <1>17. late' \subseteq Wires' /\ log' \in Seq(asked')
    BY <1>1, <1>2, CallsKept DEF IInv
  <1>18. DOMAIN work' = WORKERS /\ work' = [v \in WORKERS |-> work'[v]]
    BY <1>8 DEF IInv
  <1>19. QED
    BY <1>1, <1>10, <1>12, <1>13, <1>15, <1>16, <1>17, <1>18 DEF IInv

LEMMA TakeUpLateIInv ==
  ASSUME IInv, NEW w \in WORKERS, NEW request \in late, TakeUpLate(w, request)
  PROVE  IInv'
  <1>1. /\ UNCHANGED <<clock, call, memory, asked, log>>
        /\ late' \subseteq late
        /\ work' = [work EXCEPT ![w] =
             [request |-> request, now |-> clock, caller |-> NONE]]
    BY DEF TakeUpLate
  <1>2. clock \in Nat /\ asked \subseteq asked' /\ request \in Wires
    BY <1>1 DEF IInv
  <1>3. PICK x : x = [request |-> request, now |-> clock, caller |-> NONE]
    OBVIOUS
  <1>4. work' = [work EXCEPT ![w] = x]
    BY <1>1, <1>3
  <1>5. WorkOK(x)
    BY <1>2, <1>3 DEF WorkOK
  <1>6. ASSUME NEW v \in WORKERS PROVE WorkOK(work[v])'
    <2>1. PICK y : y = work'[v]
      OBVIOUS
    <2>2. WorkOK(y)
      BY <1>4, <1>5, <2>1 DEF IInv
    <2>3. y.caller # NONE => call'[y.caller] = call[y.caller]
      BY <1>1
    <2>4. WorkOK(y)'
      BY <1>1, <1>2, <2>2, <2>3, WorkKept
    <2>5. QED
      BY <2>1, <2>4
  <1>7. OneEach'
    BY <1>3, <1>4 DEF IInv, OneEach
  <1>8. \A v \in WORKERS : work'[v] # NoWork =>
           \/ work[v] # NoWork /\ work'[v].now = work[v].now
           \/ work'[v].now = clock'
    BY <1>1, <1>3, <1>4 DEF IInv
  <1>9. MemoryOK'
    BY <1>1, <1>2, <1>8, MemoryKept
  <1>10. ASSUME NEW b \in CALLERS PROVE CallOK(call[b])'
    <2>1. PICK q : q = call[b]
      OBVIOUS
    <2>2. CallOK(q)'
      BY <1>1, <1>2, <2>1, CallsKept DEF IInv
    <2>3. QED
      BY <1>1, <2>1, <2>2
  <1>11. call' \in [CALLERS -> Calls']
    BY <1>1, <1>10 DEF CallOK, IInv
  <1>12. late' \subseteq Wires' /\ log' \in Seq(asked')
    BY <1>1, <1>2, CallsKept DEF IInv
  <1>13. DOMAIN work' = WORKERS /\ work' = [v \in WORKERS |-> work'[v]]
    BY <1>4 DEF IInv
  <1>14. QED
    BY <1>1, <1>6, <1>7, <1>9, <1>10, <1>11, <1>12, <1>13 DEF IInv

LEMMA GiveUpIInv ==
  ASSUME IInv, NEW c \in CALLERS, GiveUp(c)
  PROVE  IInv'
  <1>1. /\ call[c].pc = "waiting"
        /\ UNCHANGED <<clock, memory, asked, log>>
        /\ call' = [call EXCEPT ![c] = Returned(c, Err(Transport))]
        /\ late' = late \cup ({call[c].wire} \ {NONE})
        /\ work' = [v \in WORKERS |->
             IF work[v].caller = c THEN [work[v] EXCEPT !.caller = NONE]
                                   ELSE work[v]]
    BY DEF GiveUp, Send, NoReply
  <1>2. CallOK(call[c]) /\ clock \in Nat /\ asked \subseteq asked'
    BY <1>1 DEF IInv
  <1>3. PICK r : r = Returned(c, Err(Transport))
    OBVIOUS
  <1>4. Err(Transport) \in Results /\ ~Err(Transport).ok
    BY DEF Results, Err
  <1>5. /\ r \in Calls
        /\ r.pc = "returned"
        /\ r.wire = NONE
        /\ r.reply = NONE
        /\ r.request \in asked
        /\ r.result = Err(Transport)
    BY <1>1, <1>2, <1>3, <1>4 DEF Returned, CallOK, Calls
  <1>6. CallOK(r)
    BY <1>4, <1>5 DEF CallOK
  <1>7. CallOK(r)' /\ call' = [call EXCEPT ![c] = r]
    BY <1>1, <1>2, <1>3, <1>6, CallsKept
  <1>8. ASSUME NEW b \in CALLERS PROVE CallOK(call[b])'
    <2>1. CASE b = c
      BY <1>7, <2>1 DEF IInv
    <2>2. CASE b # c
      <3>1. PICK q : q = call[b]
        OBVIOUS
      <3>2. call'[b] = q
        BY <1>7, <2>2, <3>1 DEF IInv
      <3>3. CallOK(q)'
        BY <1>1, <1>2, <3>1, CallsKept DEF IInv
      <3>4. QED
        BY <3>2, <3>3
    <2>3. QED
      BY <2>1, <2>2
  <1>9. ASSUME NEW v \in WORKERS
        PROVE  /\ WorkOK(work[v])'
               /\ work'[v].caller \in {work[v].caller, NONE}
               /\ work'[v] # NoWork =>
                    work[v] # NoWork /\ work'[v].now = work[v].now
    <2>1. PICK y : y = work'[v]
      OBVIOUS
    <2>2. WorkOK(work[v])
      BY DEF IInv
    <2>3. y = IF work[v].caller = c THEN [work[v] EXCEPT !.caller = NONE]
                                    ELSE work[v]
      BY <1>1, <2>1
    <2>4. CASE work[v].caller = c
      <3>1. work[v] # NoWork
        BY <2>4 DEF NoWork
      <3>2. /\ y.request = work[v].request
            /\ y.now = work[v].now
            /\ y.caller = NONE
            /\ y \in [request : Wires \cup {NONE}, now : 0 .. clock,
                      caller : CALLERS \cup {NONE}]
        BY <2>2, <2>3, <2>4 DEF WorkOK
      <3>3. WorkOK(y)
        BY <2>2, <3>1, <3>2 DEF WorkOK
      <3>4. WorkOK(y)'
        BY <1>1, <1>2, <3>2, <3>3, WorkKept
      <3>5. QED
        BY <2>1, <3>1, <3>2, <3>4
    <2>5. CASE work[v].caller # c
      <3>1. y = work[v]
        BY <2>3, <2>5
      <3>2. y.caller # NONE => call'[y.caller] = call[y.caller]
        BY <1>7, <2>2, <2>5, <3>1 DEF IInv, WorkOK
      <3>3. WorkOK(y)'
        BY <1>1, <1>2, <2>2, <3>1, <3>2, WorkKept
      <3>4. QED
        BY <2>1, <3>1, <3>3
    <2>6. QED
      BY <2>4, <2>5
  <1>10. OneEach'
    BY <1>9 DEF IInv, OneEach
  <1>11. MemoryOK'
    BY <1>1, <1>2, <1>9, MemoryKept
  <1>12. call' \in [CALLERS -> Calls']
    BY <1>7, <1>8 DEF CallOK, IInv
  <1>13. late' \subseteq Wires'
    BY <1>1, <1>2, CallsKept DEF IInv, CallOK, Calls
  <1>14. DOMAIN work' = WORKERS /\ work' = [v \in WORKERS |-> work'[v]]
    BY <1>1
  <1>15. QED
    BY <1>1, <1>8, <1>9, <1>10, <1>11, <1>12, <1>13, <1>14 DEF IInv

(* A step of nobody: time passes, or the service forgets.                  *)
LEMMA QuietStep ==
  ASSUME IInv, UNCHANGED <<call, late, work, asked, log>>,
         clock' \in 0 .. MAX_CLOCK, clock <= clock', MemoryOK'
  PROVE  IInv'
  <1>1. clock' \in Int /\ asked \subseteq asked'
    OBVIOUS
  <1>2. ASSUME NEW b \in CALLERS PROVE CallOK(call[b])'
    <2>1. PICK q : q = call[b]
      OBVIOUS
    <2>2. CallOK(q)'
      BY <1>1, <2>1, CallsKept DEF IInv
    <2>3. QED
      BY <2>1, <2>2
  <1>3. ASSUME NEW v \in WORKERS PROVE WorkOK(work[v])'
    <2>1. PICK y : y = work[v]
      OBVIOUS
    <2>2. WorkOK(y)'
      BY <1>1, <2>1, WorkKept DEF IInv
    <2>3. QED
      BY <2>1, <2>2
  <1>4. call' \in [CALLERS -> Calls']
    BY <1>2 DEF CallOK, IInv
  <1>5. late' \subseteq Wires' /\ OneEach'
    BY <1>1, CallsKept DEF IInv, OneEach
  <1>6. QED
    BY <1>2, <1>3, <1>4, <1>5 DEF IInv

LEMMA TickIInv ==
  ASSUME IInv, Tick
  PROVE  IInv'
  <1>1. /\ UNCHANGED <<call, late, work, memory, asked, log>>
        /\ clock' \in 0 .. MAX_CLOCK
        /\ clock <= clock'
    BY DEF Tick, IInv
  <1>2. MemoryOK'
    BY <1>1, MemoryKept
  <1>3. QED
    BY <1>1, <1>2, QuietStep

LEMMA ForgetIInv ==
  ASSUME IInv, NEW verified \in memory, Forget(verified)
  PROVE  IInv'
  <1>1. /\ UNCHANGED <<clock, call, late, work, asked, log>>
        /\ memory' = memory \ {verified}
        /\ Past(verified, clock)
        /\ \A w \in WORKERS : work[w] # NoWork => Past(verified, work[w].now)
    BY DEF Forget
  <1>2. MemoryOK
    BY DEF IInv
  <1>3. ASSUME NEW m, View(m) = verified PROVE Gone(m)
    BY <1>1, <1>3 DEF Gone
  <1>4. ASSUME NEW m, Gone(m) PROVE Gone(m)'
    BY <1>1, <1>4 DEF Gone, Past, View
  <1>5. ASSUME NEW i \in DOMAIN log
        PROVE  View(log[i]) \in memory' \/ Gone(log[i])'
    <2>1. PICK m : m = log[i]
      OBVIOUS
    <2>2. View(m) \in memory' \/ Gone(m)
      BY <1>1, <1>2, <1>3, <2>1 DEF MemoryOK
    <2>3. View(m) \in memory' \/ Gone(m)'
      BY <1>4, <2>2
    <2>4. QED
      BY <1>1, <2>1, <2>3
  <1>6. MemoryOK'
    BY <1>1, <1>2, <1>5 DEF MemoryOK, View
  <1>7. clock' \in 0 .. MAX_CLOCK /\ clock <= clock'
    BY <1>1 DEF IInv
  <1>8. QED
    BY <1>1, <1>6, <1>7, QuietStep

LEMMA NextIInv == IInv /\ Distinct /\ [Next]_vars => IInv'
  <1> SUFFICES ASSUME IInv, Distinct, [Next]_vars PROVE IInv'
    OBVIOUS
  <1>1. CASE Tick
    BY <1>1, TickIInv
  <1>2. ASSUME NEW c \in CALLERS, Caller(c) PROVE IInv'
    BY <1>2, SignAnewIInv, CallSendIInv, CannotSendIInv, ReadIInv, GiveUpIInv,
       RedirectIInv, PageIInv DEF Caller
  <1>3. ASSUME NEW w \in WORKERS, Worker(w) PROVE IInv'
    BY <1>3, TakeUpIInv, TakeUpLateIInv, ActIInv, RefuseIInv DEF Worker
  <1>4. ASSUME NEW verified \in memory, Forget(verified) PROVE IInv'
    BY <1>4, ForgetIInv
  <1>5. CASE UNCHANGED vars
    <2>1. UNCHANGED <<clock, call, late, work, memory, asked, log>>
      BY <1>5 DEF vars
    <2>2. clock \in 0 .. MAX_CLOCK /\ clock <= clock'
      BY <2>1 DEF IInv
    <2>3. MemoryOK'
      BY <2>1, <2>2, MemoryKept
    <2>4. QED
      BY <2>1, <2>2, <2>3, QuietStep
  <1>6. QED
    BY <1>1, <1>2, <1>3, <1>4, <1>5 DEF Next

(* What a caller signs anew has a later time than all it signed before.    *)
LEMMA SignAnewNewest ==
  ASSUME IInv, Newest, Distinct, NEW c \in CALLERS, SignAnew(c),
         OwnRequestIds
  PROVE  Newest' /\ Distinct'
  <1>1. PICK nonce \in NONCES :
          LET signed == Sign(PURPOSES[c], MyCredential, clock,
                             clock + SIGNATURE_VALIDITY_SECONDS, nonce)
          IN /\ signed.ok
             /\ call' = [call EXCEPT ![c] =
                  [NoCall EXCEPT !.pc = "ready", !.request = signed.value]]
             /\ asked' = asked \cup {signed.value}
    BY DEF SignAnew
  <1>2. PICK m : m = Sign(PURPOSES[c], MyCredential, clock,
                          clock + SIGNATURE_VALIDITY_SECONDS, nonce).value
    OBVIOUS
  <1>3. /\ call' = [call EXCEPT ![c] =
             [NoCall EXCEPT !.pc = "ready", !.request = m]]
        /\ asked' = asked \cup {m}
    BY <1>1, <1>2
  <1>4. PICK in \in Inputs :
          /\ m = RequestFor(PURPOSES[c], in)
          /\ in.created = clock
          /\ in.expires = clock + SIGNATURE_VALIDITY_SECONDS
    BY <1>1, <1>2, SignReturns DEF IInv
  <1>5. /\ m.parts.request_id = PURPOSES[c].request_id
        /\ m.signature_input.created = clock
        /\ m.signature_input.expires = clock + SIGNATURE_VALIDITY_SECONDS
        /\ clock \in Nat
        /\ clock <= clock + SIGNATURE_VALIDITY_SECONDS
    BY <1>4 DEF RequestFor, IInv
  <1>6. /\ call'[c].pc = "ready"
        /\ call'[c].request = m
        /\ \A d \in CALLERS : d # c => call'[d] = call[d]
    BY <1>3 DEF IInv, NoCall
  <1>7. \A n \in Signed : n.signature_input.created \in Int
                       /\ n.signature_input.expires \in Int
    BY DEF Signed, RequestFor, Inputs
  <1>8. ASSUME NEW n \in asked,
               n.parts.request_id = PURPOSES[c].request_id
        PROVE  n.signature_input.created < clock
    <2>1. PICK d \in CALLERS :
            /\ call[d].pc # "idle"
            /\ n.parts.request_id = PURPOSES[d].request_id
            /\ n.signature_input.created
                 <= call[d].request.signature_input.expires
      BY DEF Newest
    <2>2. d = c
      BY <1>8, <2>1 DEF OwnRequestIds
    <2>3. call[c].request \in asked
      BY <2>1, <2>2 DEF IInv, CallOK
    <2>4. call[c].request.signature_input.expires < clock
      BY <2>1, <2>2 DEF SignAnew, Expired
    <2>5. QED
      BY <1>5, <1>7, <2>1, <2>2, <2>3, <2>4 DEF IInv
  <1>9. ASSUME NEW n \in asked'
        PROVE  \E d \in CALLERS :
                 /\ call'[d].pc # "idle"
                 /\ n.parts.request_id = PURPOSES[d].request_id
                 /\ n.signature_input.created
                      <= call'[d].request.signature_input.expires
    <2>1. CASE n.parts.request_id = PURPOSES[c].request_id
      <3>1. n.signature_input.created <= clock /\ n \in Signed
        BY <1>3, <1>4, <1>5, <1>7, <1>8, <2>1 DEF IInv, Signed
      <3>2. n.signature_input.created <= m.signature_input.expires
        BY <1>5, <1>7, <3>1
      <3>3. QED
        BY <1>6, <2>1, <3>2
    <2>2. CASE n.parts.request_id # PURPOSES[c].request_id
      <3>1. n \in asked
        BY <1>3, <1>5, <2>2
      <3>2. PICK d \in CALLERS :
              /\ call[d].pc # "idle"
              /\ n.parts.request_id = PURPOSES[d].request_id
              /\ n.signature_input.created
                   <= call[d].request.signature_input.expires
        BY <3>1 DEF Newest
      <3>3. call'[d] = call[d]
        BY <1>6, <2>2, <3>2
      <3>4. QED
        BY <3>2, <3>3
    <2>3. QED
      BY <2>1, <2>2
  <1>10. ASSUME NEW x \in asked', NEW y \in asked', View(x) = View(y)
         PROVE  x = y
    <2>1. \A n : /\ View(n).request_id = n.parts.request_id
                 /\ View(n).created = n.signature_input.created
      BY DEF View, VerifiedRequest
    <2>2. /\ x.parts.request_id = y.parts.request_id
          /\ x.signature_input.created = y.signature_input.created
      BY <1>10, <2>1
    <2>3. CASE x \in asked /\ y \in asked
      BY <1>10, <2>3 DEF Distinct
    <2>4. CASE x = m /\ y \in asked
      BY <1>5, <1>8, <2>2, <2>4
    <2>5. CASE x \in asked /\ y = m
      BY <1>5, <1>8, <2>2, <2>5
    <2>6. QED
      BY <1>3, <2>3, <2>4, <2>5
  <1>11. Newest'
    BY <1>9 DEF Newest, OwnRequestIds
  <1>12. Distinct'
    BY <1>10 DEF Distinct, OwnRequestIds, View
  <1>13. QED
    BY <1>11, <1>12

(* Every other step leaves callers the requests they hold.                 *)
LEMMA RequestsStay ==
  ASSUME IInv, [Next]_vars, \A c \in CALLERS : ~SignAnew(c)
  PROVE  /\ asked' = asked
         /\ \A c \in CALLERS :
              call[c].pc # "idle" => /\ call'[c].pc # "idle"
                                     /\ call'[c].request = call[c].request
  <1> DEFINE Stay == \A c \in CALLERS :
               call[c].pc # "idle" => /\ call'[c].pc # "idle"
                                      /\ call'[c].request = call[c].request
  <1>1. \A c \in CALLERS : call[c] \in Calls
    BY DEF IInv, CallOK
  <1>2. CASE Tick \/ UNCHANGED vars
    BY <1>2 DEF Tick, vars
  <1>3. ASSUME NEW c \in CALLERS, Caller(c) PROVE asked' = asked /\ Stay
    <2>1. asked' = asked /\ \E r : /\ call' = [call EXCEPT ![c] = r]
                                  /\ r.pc # "idle"
                                  /\ r.request = call[c].request
      <3>1. CASE CallSend(c)
        <4>1. PICK r : r = [call[c] EXCEPT !.pc = "waiting", !.served = FALSE,
                              !.result = NONE,
                              !.wire = Outgoing(call[c].request)]
          OBVIOUS
        <4>2. r.pc # "idle" /\ r.request = call[c].request
          BY <1>1, <4>1 DEF Calls
        <4>3. call' = [call EXCEPT ![c] = r] /\ asked' = asked
          BY <3>1, <4>1 DEF CallSend
        <4>4. QED
          BY <4>2, <4>3, Zenon
      <3>2. CASE CannotSend(c) \/ ReadWhole(c) \/ ReadPart(c) \/ GiveUp(c)
        <4>1. PICK result :
                /\ call' = [call EXCEPT ![c] = Returned(c, result)]
                /\ asked' = asked
          BY <3>2 DEF CannotSend, ReadWhole, ReadPart, ReadReply, GiveUp
        <4>2. /\ Returned(c, result).pc # "idle"
              /\ Returned(c, result).request = call[c].request
          BY <1>1 DEF Returned, Calls
        <4>3. QED
          BY <4>1, <4>2, Zenon
      <3>3. CASE Redirect(c)
        <4>1. PICK r : r = [call[c] EXCEPT
                              !.wire = Retarget(call[c].wire, ELSEWHERE)]
          OBVIOUS
        <4>2. r.pc # "idle" /\ r.request = call[c].request
          BY <1>1, <3>3, <4>1 DEF Redirect, OnItsWay, Calls
        <4>3. call' = [call EXCEPT ![c] = r] /\ asked' = asked
          BY <3>3, <4>1 DEF Redirect
        <4>4. QED
          BY <4>2, <4>3, Zenon
      <3>4. CASE RedirectToPage(c) \/ GatewayFails(c)
        <4>1. PICK reply :
                /\ call' = [call EXCEPT ![c] = Answered(c, reply, FALSE)]
                /\ asked' = asked
                /\ call[c].pc = "waiting"
          BY <3>4 DEF RedirectToPage, GatewayFails, OnItsWay
        <4>2. /\ Answered(c, reply, FALSE).pc # "idle"
              /\ Answered(c, reply, FALSE).request = call[c].request
          BY <1>1, <4>1 DEF Answered, Calls
        <4>3. QED
          BY <4>1, <4>2, Zenon
      <3>5. QED
        BY <1>3, <3>1, <3>2, <3>3, <3>4 DEF Caller
    <2>2. PICK r : /\ call' = [call EXCEPT ![c] = r]
                   /\ r.pc # "idle"
                   /\ r.request = call[c].request
      BY <2>1
    <2>3. \A d \in CALLERS : call'[d] = IF d = c THEN r ELSE call[d]
      BY <2>2 DEF IInv
    <2>4. QED
      BY <2>1, <2>2, <2>3
  <1>4. ASSUME NEW w \in WORKERS, Worker(w) PROVE asked' = asked /\ Stay
    <2>1. ASSUME NEW c \in CALLERS, TakeUp(w, c) PROVE asked' = asked /\ Stay
      <3>1. /\ asked' = asked
            /\ call' = [call EXCEPT ![c] = [call[c] EXCEPT !.wire = NONE]]
        BY <2>1 DEF TakeUp
      <3>2. PICK r : r = [call[c] EXCEPT !.wire = NONE]
        OBVIOUS
      <3>3. r.pc = call[c].pc /\ r.request = call[c].request
        BY <1>1, <3>2 DEF Calls
      <3>4. \A d \in CALLERS : call'[d] = IF d = c THEN r ELSE call[d]
        BY <3>1, <3>2 DEF IInv
      <3>5. QED
        BY <3>1, <3>3, <3>4
    <2>2. ASSUME NEW request \in late, TakeUpLate(w, request)
          PROVE  asked' = asked /\ Stay
      BY <2>2 DEF TakeUpLate
    <2>3. ASSUME NEW reply, Answer(w, reply) PROVE asked' = asked /\ Stay
      <3>1. \A c \in CALLERS :
              call'[c] = IF c = work[w].caller THEN Answered(c, reply, TRUE)
                                               ELSE call[c]
        BY <2>3 DEF Answer
      <3>2. \A c \in CALLERS :
              /\ Answered(c, reply, TRUE).pc = call[c].pc
              /\ Answered(c, reply, TRUE).request = call[c].request
        BY <1>1 DEF Answered, Calls
      <3>3. QED
        BY <2>3, <3>1, <3>2 DEF Answer
    <2>4. QED
      BY <1>4, <2>1, <2>2, <2>3 DEF Worker, Act, Repeated, Refuse
  <1>5. ASSUME NEW verified \in memory, Forget(verified)
        PROVE  asked' = asked /\ Stay
    BY <1>5 DEF Forget
  <1>6. QED
    BY <1>2, <1>3, <1>4, <1>5 DEF Next

LEMMA NextDistinct ==
  IInv /\ Newest /\ Distinct /\ [Next]_vars => Newest' /\ Distinct'
  <1> SUFFICES ASSUME IInv, Newest, Distinct, [Next]_vars
               PROVE  Newest' /\ Distinct'
    OBVIOUS
  <1>1. CASE ~OwnRequestIds
    BY <1>1 DEF Newest, Distinct, OwnRequestIds
  <1>2. CASE OwnRequestIds /\ \E c \in CALLERS : SignAnew(c)
    BY <1>2, SignAnewNewest
  <1>3. CASE OwnRequestIds /\ \A c \in CALLERS : ~SignAnew(c)
    <2>1. /\ asked' = asked
          /\ \A c \in CALLERS :
               call[c].pc # "idle" => /\ call'[c].pc # "idle"
                                      /\ call'[c].request = call[c].request
      BY <1>3, RequestsStay
    <2>2. Newest'
      BY <2>1 DEF Newest, OwnRequestIds
    <2>3. Distinct'
      BY <2>1 DEF Distinct, OwnRequestIds, View
    <2>4. QED
      BY <2>2, <2>3
  <1>4. QED
    BY <1>1, <1>2, <1>3

LEMMA IInvHolds == Spec => [](IInv /\ Newest /\ Distinct)
  <1>1. Init => Newest /\ Distinct
    BY DEF Init, Newest, Distinct
  <1>2. QED
    BY <1>1, InitIInv, NextIInv, NextDistinct, PTL DEF Spec

-----------------------------------------------------------------------------
(* Every value stays of its kind: what is under way or in work is a        *)
(* request somebody signed, but for its target.                            *)
THEOREM SendTypeCorrect == Spec => []TypeOK
  <1>1. IInv => TypeOK
    <2> SUFFICES ASSUME IInv PROVE TypeOK
      OBVIOUS
    <2>1. work \in [WORKERS -> [request : Wires \cup {NONE}, now : 0 .. clock,
                                caller : CALLERS \cup {NONE}]]
      BY DEF IInv, WorkOK
    <2>2. QED
      BY <2>1 DEF IInv, TypeOK
  <1>2. QED
    BY <1>1, IInvHolds, PTL

(* Whom the service tells that it acted on a request is told so of its own *)
(* request, for any interleaving of callers with request IDs of their own, *)
(* and whoever else answers.                                               *)
THEOREM AnswersAreTrue == Spec => []AnswerIsTrue
  <1>1. IInv => AnswerIsTrue
    <2> SUFFICES ASSUME IInv, OwnRequestIds, NEW c \in CALLERS,
                        Settled(c), call[c].served
                 PROVE  \E i \in DOMAIN log : log[i] = call[c].request
      BY DEF AnswerIsTrue
    <2>1. CallOK(call[c])
      BY DEF IInv
    <2>2. ActedOn(call[c].request)
      BY <2>1 DEF CallOK, Settled
    <2>3. QED
      BY <2>2 DEF ActedOn
  <1>2. QED
    BY <1>1, IInvHolds, PTL

-----------------------------------------------------------------------------
(* Refinement.                                                             *)

LEMMA ActsOnce ==
  ASSUME IInv, NEW w \in WORKERS, Act(w)
  PROVE  \E r \in asked : Service!Act(r)
  <1>1. PICK r : r = work[w].request
    OBVIOUS
  <1>2. /\ r \in asked
        /\ ~Past(View(r), work[w].now)
        /\ View(r) \notin memory
        /\ log' = Append(log, r)
        /\ asked' = asked
        /\ work[w] # NoWork
    BY <1>1, LetThrough DEF Act, Answer
  <1>3. ASSUME NEW i \in DOMAIN log, log[i] = r PROVE FALSE
    BY <1>2, <1>3 DEF IInv, MemoryOK, Gone
  <1>4. QED
    BY <1>2, <1>3 DEF Service!Act

(* The service acts on what was asked for and once on each, although it    *)
(* forgets and although workers hold on to old times: it implements        *)
(* AtMostOnce with what verify_incoming gives it.                          *)
THEOREM ServiceActsAtMostOnce == Spec => ServiceSpec
  <1>1. Init => Service!Init
    BY DEF Init, Service!Init
  <1>2. IInv /\ [Next]_vars => [Service!Next]_(Service!vars)
    <2> SUFFICES ASSUME IInv, [Next]_vars
                 PROVE  Service!Next \/ UNCHANGED <<asked, log>>
      BY DEF Service!vars
    <2>1. CASE Tick
      BY <2>1 DEF Tick
    <2>2. ASSUME NEW c \in CALLERS, SignAnew(c)
          PROVE  Service!Next
      BY <2>2 DEF SignAnew, Service!Next, Service!Ask
    <2>3. ASSUME NEW c \in CALLERS, Caller(c), ~SignAnew(c)
          PROVE  UNCHANGED <<asked, log>>
      BY <2>3 DEF Caller, CallSend, CannotSend, ReadWhole, ReadPart, ReadReply,
                  GiveUp, Redirect, RedirectToPage, GatewayFails
    <2>4. ASSUME NEW w \in WORKERS, Act(w)
          PROVE  Service!Next
      BY <2>4, ActsOnce DEF Service!Next
    <2>5. ASSUME NEW w \in WORKERS, Worker(w), ~Act(w)
          PROVE  UNCHANGED <<asked, log>>
      BY <2>5 DEF Worker, TakeUp, TakeUpLate, Repeated, Refuse, Answer
    <2>6. ASSUME NEW verified \in memory, Forget(verified)
          PROVE  UNCHANGED <<asked, log>>
      BY <2>6 DEF Forget
    <2>7. CASE UNCHANGED vars
      BY <2>7 DEF vars
    <2>8. QED
      BY <2>1, <2>2, <2>3, <2>4, <2>5, <2>6, <2>7 DEF Next
  <1>3. QED
    BY <1>1, <1>2, IInvHolds, PTL DEF Spec, ServiceSpec, Service!Spec
=============================================================================
