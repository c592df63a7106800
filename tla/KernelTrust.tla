---------------------------- MODULE KernelTrust ----------------------------
(***************************************************************************)
(* A caller that fetches the identity a kernel process publishes and       *)
(* verifies messages of that process with KernelIdentity::verify           *)
(* (src/src/kernel_identity.rs).  No ClientPublicKey is made on the way,   *)
(* so nothing asks whether the key is a curve point until a message is     *)
(* verified.  The caller follows the rule the documentation gives: fetch   *)
(* once, cache, and fetch again on a verification failure.                 *)
(*                                                                         *)
(* Outside the crate: the kernel's restarts, the caller's loop, another    *)
(* signer, and the network, which may deliver any message with any         *)
(* signature made, late and again, and may change an identity on the way,  *)
(* into one with the other signer's key for instance.                      *)
(***************************************************************************)
EXTENDS KernelIdentity

CONSTANTS
  KERNEL_SERVICE,   \* the service ID the kernel signs as
  MESSAGES,         \* what a kernel process or another may sign
  NONE,             \* no identity cached, no message in hand
  MAX_EPOCH         \* bound: kernel processes ever started

ASSUME KernelAssumption == MAX_EPOCH \in Nat \ {0}

VARIABLES
  epoch,      \* number of the kernel process now running
  signed,     \* what kernel processes have signed
  pc,         \* where the caller is: idle, verify, fetch or reply
  hand,       \* the message the caller is verifying, or NONE
  refetched,  \* whether that message has already failed once
  answer,     \* the identity on its way to the caller, or NONE
  identity,   \* the identity the caller holds, or NONE
  accepted    \* history: what verified last and under which key, or NONE

vars == <<epoch, signed, pc, hand, refetched, answer, identity, accepted>>

Init ==
  /\ epoch = 1
  /\ signed = {}
  /\ pc = "idle"
  /\ hand = NONE
  /\ refetched = FALSE
  /\ answer = NONE
  /\ identity = NONE
  /\ accepted = NONE

-----------------------------------------------------------------------------
(* The kernel and the network.                                             *)

KernelCredential(n) == Generate(KERNEL_SERVICE, n)

(* Kernel processes count from 1.  Draw 0 of randomness is somebody else's *)
(* key.                                                                    *)
SignedBy(n, message) ==
  [by |-> n, message |-> message,
   signature |-> SignBytes(KernelCredential(n).signing_key, message)]

RestartKernel ==
  /\ epoch < MAX_EPOCH
  /\ epoch' = epoch + 1
  /\ UNCHANGED <<signed, pc, hand, refetched, answer, identity, accepted>>

SignMessage(message) ==
  /\ signed' = signed \cup {SignedBy(epoch, message)}
  /\ UNCHANGED <<epoch, pc, hand, refetched, answer, identity, accepted>>

(* The other signer signs whatever it likes, whenever it likes.            *)
AllSigned == signed \cup {SignedBy(0, message) : message \in MESSAGES}

Received(message, s) == [message |-> message, signature |-> s.signature]

Delivered ==
  {Received(message, s) : message \in MESSAGES, s \in AllSigned}

(* An identity as published, or with the bytes of any other key or of no   *)
(* curve point for its key, or with the digest of another key for its      *)
(* fingerprint, or both.                                                   *)
Changed(published, key, fingerprint) ==
  [published EXCEPT !.public_key = key, !.fingerprint = fingerprint]

Identities(published) ==
  LET keys == {published.public_key,
               [published.public_key EXCEPT !.on_curve = FALSE]}
                \cup {KeyBytes(n) : n \in 0 .. MAX_EPOCH}
      fingerprints == {published.fingerprint, [sha256 |-> KeyBytes(0)]}
  IN {Changed(published, key, fingerprint) :
        key \in keys, fingerprint \in fingerprints}

-----------------------------------------------------------------------------
(* The caller.                                                             *)

Take(received) ==
  /\ pc = "idle"
  /\ hand' = received
  /\ refetched' = FALSE
  /\ pc' = IF identity = NONE THEN "fetch" ELSE "verify"
  /\ UNCHANGED <<epoch, signed, answer, identity, accepted>>

Verdict == VerifyMessage(identity, hand.message, hand.signature)

Accept ==
  /\ pc = "verify"
  /\ Verdict.ok
  /\ accepted' = [received |-> hand, key |-> identity.public_key]
  /\ pc' = "idle"
  /\ hand' = NONE
  /\ UNCHANGED <<epoch, signed, refetched, answer, identity>>

Refetch ==
  /\ pc = "verify"
  /\ ~Verdict.ok
  /\ ~refetched
  /\ refetched' = TRUE
  /\ pc' = "fetch"
  /\ UNCHANGED <<epoch, signed, hand, answer, identity, accepted>>

Reject ==
  /\ pc = "verify"
  /\ ~Verdict.ok
  /\ refetched
  /\ pc' = "idle"
  /\ hand' = NONE
  /\ UNCHANGED <<epoch, signed, refetched, answer, identity, accepted>>

KernelAnswers(published) ==
  /\ pc = "fetch"
  /\ answer' = published
  /\ pc' = "reply"
  /\ UNCHANGED <<epoch, signed, hand, refetched, identity, accepted>>

FetchReturns ==
  /\ pc = "reply"
  /\ LET fetched == FetchKernelIdentity(Reply(200, answer))
     IN /\ fetched.ok
        /\ identity' = fetched.value
  /\ pc' = "verify"
  /\ answer' = NONE
  /\ UNCHANGED <<epoch, signed, hand, refetched, accepted>>

(* The identity held before stays where it is.                             *)
FetchFails ==
  /\ pc \in {"fetch", "reply"}
  /\ \E reply \in {NoReply, Reply(200, GARBLED), Reply(503, answer)} :
       ~FetchKernelIdentity(reply).ok
  /\ pc' = "idle"
  /\ hand' = NONE
  /\ answer' = NONE
  /\ UNCHANGED <<epoch, signed, refetched, identity, accepted>>

-----------------------------------------------------------------------------
PublishedBy(n) == PublishedIdentity(KernelCredential(n).public_key)
Published      == PublishedBy(epoch)

Next ==
  \/ RestartKernel
  \/ \E message \in MESSAGES : SignMessage(message)
  \/ \E received \in Delivered : Take(received)
  \/ Accept
  \/ Refetch
  \/ Reject
  \/ \E published \in Identities(Published) : KernelAnswers(published)
  \/ FetchReturns
  \/ FetchFails

Spec == Init /\ [][Next]_vars

(***************************************************************************)
(* Fairness.  The caller's thread goes on, and its blocking calls return.  *)
(* Of the environment it is assumed that the running kernel signs          *)
(* messages, that they go on arriving as they were signed, and that the    *)
(* fetches made on account of such a message, tried again and again, are   *)
(* some time answered with the identity as published, and read.            *)
(***************************************************************************)
AsSigned(n, message) == Received(message, SignedBy(n, message))

Current == {AsSigned(epoch, message) : message \in MESSAGES}

TakeCurrent == \E received \in Current \cap Delivered : Take(received)
AnswerForCurrent == hand \in Current /\ KernelAnswers(Published)
ReadForCurrent == hand \in Current /\ answer = Published /\ FetchReturns

Fairness ==
  /\ WF_vars(\E message \in MESSAGES : SignMessage(message))
  /\ SF_vars(TakeCurrent)
  /\ WF_vars(Accept)
  /\ WF_vars(Refetch)
  /\ WF_vars(Reject)
  /\ WF_vars(FetchReturns \/ FetchFails)
  /\ SF_vars(AnswerForCurrent)
  /\ SF_vars(ReadForCurrent)

FairSpec == Spec /\ Fairness

-----------------------------------------------------------------------------
(* A message verifies only if the owner of the key in the identity held    *)
(* signed it: under the key of a kernel process that very process, however *)
(* messages, signatures and identities of several processes and of others  *)
(* meet.  (Under a key put in its place on the way, the owner of that key. *)
(* The fetch is what has to exclude this, not verify.)                     *)
OnlySignedMessages ==
  accepted # NONE =>
    \E s \in AllSigned :
      /\ accepted.key.signing_key = s.by
      /\ accepted.received.message = s.message

(* Fetching the identity again is enough: a message of the running process *)
(* that fails a second time was not held against the identity of a kernel  *)
(* process as it was published, but against one changed on the way.        *)
RefetchedIdentityVerifies ==
  /\ pc = "verify" /\ refetched
  /\ hand \in Current
  /\ \E n \in 1 .. epoch :
       FetchKernelIdentity(Reply(200, PublishedBy(n))) = Ok(identity)
  => Verdict.ok

(* An identity that can verify nothing does no lasting harm: once the      *)
(* kernel no longer restarts, a message of the running process is          *)
(* accepted, after the failure has made the caller fetch again.            *)
UnusableIdentityReplaced ==
  epoch = MAX_EPOCH ~>
    \E message \in MESSAGES :
      accepted = [received |-> AsSigned(epoch, message),
                  key      |-> KeyBytes(epoch)]
=============================================================================
