-------------------------- MODULE EnrollmentProofs --------------------------
(***************************************************************************)
(* EnrollmentExchange implements Registration, a process that is told it   *)
(* is enrolled is, and one that is told no the first time never will be,   *)
(* for any number of pods, faults and restarts.                            *)
(*                                                                         *)
(* The argument.  Every submission is signed over its own fields           *)
(* (Genuine).  A call on its way to the kernel either carries the          *)
(* signature of the submission it was, or still asks for the same claim    *)
(* (SameOrigin), since at most one field of it changed.  What the kernel   *)
(* admits is signed over the fields it arrives with, so it asks for the    *)
(* claim of that submission.  That a challenge is used once is the         *)
(* kernel's own bookkeeping (KernelOK).                                    *)
(*                                                                         *)
(* A rejection is conclusive because a process signs a challenge only once *)
(* (Fresh): no two processes make the same claim, nor does one make it     *)
(* twice, so the first call for a claim is the only one there is for it    *)
(* (Conclusive) and the kernel's no to it is the last word.                *)
(***************************************************************************)
EXTENDS EnrollmentExchange, TLAPS

Processes ==
  [pc : {"start", "asking", "holding", "submitting", "doubt", "enrolled",
         "unusable"},
   process : Nat, challenge : Nat \cup {NONE},
   submission : submitted \cup {NONE}, doubt : BOOLEAN, tried : BOOLEAN]

Typed ==
  /\ started \in Nat
  /\ settings \in [Pods -> SETTINGS]
  /\ pod \in [Pods -> Processes]
  /\ call = [p \in Pods |-> call[p]]
  /\ reply = [p \in Pods |-> reply[p]]

WellFormed(s) ==
  /\ s = [f \in SubmissionFields |-> s[f]]
  /\ s.public_key = Base64(s.public_key.base64url)
  /\ s.challenge = Base64(s.challenge.base64url)

Genuine(s) ==
  /\ WellFormed(s)
  /\ s.signature.base64url.message = ProofOf(s)

SameOrigin(body, s) ==
  /\ WellFormed(body)
  /\ body.signature = s.signature \/ Claim(body) = Claim(s)

(* The signature a submission comes with is one over its own fields.       *)
Verifies(s) ==
  VerifyBytes(Key(s).public_key, ProofOf(s), s.signature.base64url).ok

CallOK(p) ==
  call[p] # NoCall =>
    \/ /\ call[p] = [post |-> "challenges", body |-> call[p].body]
       /\ pod[p].pc = "asking"
    \/ /\ call[p] = [post |-> "enrollments", body |-> call[p].body]
       /\ pod[p].pc = "submitting"
       /\ SameOrigin(call[p].body, pod[p].submission)

LateOK(m) ==
  m.post = "enrollments" => \E s \in submitted : SameOrigin(m.body, s)

(* A reply tells a process that waits on a submission Ok only if the claim *)
(* is registered, and brings a challenge of the right length.              *)
ReplyOK(p, r) ==
  /\ (pod[p].pc = "submitting" /\ SubmitEnrollment(r).ok) =>
       Claim(pod[p].submission) \in registered
  /\ LET issue == RequestEnrollmentChallenge(r)
     IN (issue.ok /\ ChallengeBytes(issue.value).ok) =>
          ChallengeBytes(issue.value).value \in Nat

(* What the kernel sends.                                                  *)
Sent(r) ==
  \/ \E status, c : r = Reply(status, IssuedChallenge(c))
  \/ \E status, i : r = Reply(status, EnrolledInstance(i))
  \/ \E status : r = Reply(status, EnrollmentRejection)

ClientOK(p) ==
  /\ pod[p].pc \in {"submitting", "doubt", "enrolled"} =>
       pod[p].submission \in submitted
  /\ pod[p].pc = "enrolled" => Claim(pod[p].submission) \in registered
  /\ reply[p] # NoReply => /\ pod[p].pc \in {"asking", "submitting"}
                        /\ Sent(reply[p])
                        /\ ReplyOK(p, reply[p])

KernelOK ==
  /\ issued \in Nat
  /\ \A o \in open :
       /\ o = <<o[1], o[2]>>
       /\ o[1] \in 1 .. issued
       /\ \A q \in open : o[1] = q[1] => o = q
       /\ \A r \in registered : r.challenge # Base64(o[1])
  /\ \A r \in registered : \E c \in 1 .. issued : r.challenge = Base64(c)

EInv ==
  /\ Typed
  /\ \A s \in submitted : Genuine(s)
  /\ \A p \in Pods : CallOK(p) /\ ClientOK(p)
  /\ \A m \in late : LateOK(m)
  /\ KernelOK

-----------------------------------------------------------------------------
(* Signing and admission.                                                  *)

USE ExchangeAssumption DEF Pods

LEMMA TrimTwice ==
  ASSUME NEW a, NEW b
  PROVE  Trim(Trim([padded |-> a, text |-> b])) = Trim([padded |-> a, text |-> b])
  BY DEF Trim

(* What sign returns is signed over its own fields.                        *)
LEMMA SignedIsGenuine ==
  ASSUME NEW p \in Pods, Typed, Signed(p).ok
  PROVE  Genuine(Signed(p).value)
<1> DEFINE s == Signed(p).value
           n == pod[p].process
           c == pod[p].challenge
<1>1. s = Submission(Generate(SERVICE, n), c, Trim(Endpoint(p)),
                     Trim(PodUid(p)), Token(p),
                     ProofMessage(c, Generate(SERVICE, n).public_key,
                       Trim(Endpoint(p)), Trim(PodUid(p)), Token(p)))
  BY DEF Signed, SignSubmission, Ok, Err
<1>2. /\ Trim(Trim(Endpoint(p))) = Trim(Endpoint(p))
      /\ Trim(Trim(PodUid(p))) = Trim(PodUid(p))
  <2>1. Endpoint(p) =
          [padded |-> Endpoint(p).padded, text |-> Endpoint(p).text]
    BY DEF Typed, Endpoint
  <2>2. QED
    BY <2>1, TrimTwice DEF PodUid
<1>3. WellFormed(s)
  BY <1>1 DEF WellFormed, Submission, SubmissionFields, Base64
<1>4. s.signature.base64url.message = ProofOf(s)
  BY <1>1, <1>2 DEF Submission, ProofOf, Key, Base64, SignBytes, Generate,
     ClientPublicKey
<1>5. QED
  BY <1>3, <1>4 DEF Genuine

(* A submission that verifies asks for the claim of the one it was.        *)
LEMMA VerifiedIsClaimed ==
  ASSUME NEW s, Genuine(s), NEW body, SameOrigin(body, s), Verifies(body)
  PROVE  Claim(body) = Claim(s)
<1>1. CASE body.signature = s.signature
  <2>1. body.signature.base64url
          = SignBytes(Key(body).public_key.signing_key, ProofOf(body))
    BY DEF Verifies, VerifyBytes, Ok, Err
  <2>2. ProofOf(body) = ProofOf(s)
    BY <1>1, <2>1 DEF SignBytes, Genuine
  <2>3. /\ body.challenge.base64url = s.challenge.base64url
        /\ Key(body) = Key(s)
        /\ Trim(body.endpoint) = Trim(s.endpoint)
        /\ Trim(body.pod_uid) = Trim(s.pod_uid)
        /\ body.workload_token = s.workload_token
    BY <2>2 DEF ProofOf, ProofMessage
  <2>4. /\ body.service_id = s.service_id
        /\ body.instance_id = s.instance_id
        /\ body.key_id = s.key_id
        /\ body.public_key.base64url = s.public_key.base64url
    BY <2>3 DEF Key, ClientPublicKey
  <2>5. /\ body.challenge = s.challenge
        /\ body.public_key = s.public_key
    BY <2>3, <2>4 DEF SameOrigin, Genuine, WellFormed
  <2>6. QED
    BY <2>3, <2>4, <2>5 DEF Claim
<1>2. QED
  BY <1>1 DEF SameOrigin

(* What the kernel admits, above all.                                      *)
LEMMA AdmittedIsClaimed ==
  ASSUME NEW s, Genuine(s), NEW body, SameOrigin(body, s), Admitted(body)
  PROVE  Claim(body) = Claim(s)
  BY VerifiedIsClaimed DEF Admitted, Verifies

-----------------------------------------------------------------------------
(* Preservation of EInv, one action at a time.                             *)

(* A step on behalf of pod p leaves the other pods as they were.           *)
LEMMA OtherPods ==
  ASSUME EInv, NEW p \in Pods,
         \A q \in Pods \ {p} : /\ pod'[q] = pod[q]
                               /\ call'[q] = call[q]
                               /\ reply'[q] = reply[q],
         submitted \subseteq submitted', registered \subseteq registered'
  PROVE  \A q \in Pods \ {p} : CallOK(q)' /\ ClientOK(q)'
  BY DEF EInv, CallOK, ClientOK, ReplyOK

LEMMA LateStays ==
  ASSUME NEW m, LateOK(m), submitted \subseteq submitted'
  PROVE  LateOK(m)'
  BY DEF LateOK

LEMMA UpdatedProcess ==
  ASSUME Typed, NEW p \in Pods, NEW x \in Processes,
         pod' = [pod EXCEPT ![p] = x]
  PROVE  /\ pod' \in [Pods -> Processes]
         /\ pod'[p] = x
         /\ \A q \in Pods \ {p} : pod'[q] = pod[q]
  BY DEF Typed

(* A call a process gives up on is a late call.                            *)
LEMMA AbandonedIsLate ==
  ASSUME EInv, NEW p \in Pods, NEW m \in Abandoned(p)
  PROVE  LateOK(m)
<1>1. m = call[p] /\ call[p] # NoCall /\ CallOK(p) /\ ClientOK(p)
  BY DEF EInv, Abandoned
<1>2. CASE m = [post |-> "challenges", body |-> m.body]
  <2>1. m.post = "challenges"
    BY <1>2
  <2>2. QED
    BY <2>1 DEF LateOK
<1>3. CASE pod[p].pc = "submitting" /\ SameOrigin(m.body, pod[p].submission)
  BY <1>1, <1>3 DEF ClientOK, LateOK
<1>4. QED
  BY <1>1, <1>2, <1>3 DEF CallOK

LEMMA KernelStays ==
  ASSUME KernelOK, UNCHANGED kernel
  PROVE  KernelOK'
  BY DEF KernelOK, kernel

LEMMA InitEInv == Init => EInv
<1> SUFFICES ASSUME Init PROVE EInv
  OBVIOUS
<1>1. Typed
  BY DEF Init, Typed, Processes, Process
<1>2. \A p \in Pods : CallOK(p) /\ ClientOK(p)
  BY DEF Init, CallOK, ClientOK, Process
<1>3. KernelOK
  BY DEF Init, KernelOK
<1>4. QED
  BY <1>1, <1>2, <1>3 DEF Init, EInv

(* The end of a call.                                                      *)
LEMMA ReturnEInv ==
  ASSUME EInv, NEW p \in Pods, NEW r, ReplyOK(p, r), Return(p, r),
         \A m \in late' : LateOK(m)
  PROVE  EInv'
<1>0. Typed /\ CallOK(p) /\ ClientOK(p) /\ KernelOK
  BY DEF EInv
<1>1. /\ UNCHANGED <<settings, started, submitted>>
      /\ UNCHANGED kernel
      /\ call' = [call EXCEPT ![p] = NoCall]
      /\ reply' = [reply EXCEPT ![p] = NoReply]
  BY DEF Return
<1>2. /\ pod' \in [Pods -> Processes]
      /\ \A q \in Pods \ {p} : pod'[q] = pod[q]
      /\ pod'[p].pc \in {"submitting", "doubt", "enrolled"} =>
           pod'[p].submission \in submitted
      /\ pod'[p].pc = "enrolled" => Claim(pod'[p].submission) \in registered
  <2>0. pod[p] \in Processes
    BY <1>0 DEF Typed
  <2>1. CASE ReceiveChallenge(p, r)
    <3> DEFINE c == ChallengeBytes(RequestEnrollmentChallenge(r).value).value
               x == [pod[p] EXCEPT !.pc = "holding", !.doubt = FALSE,
                                   !.challenge = c]
    <3>1. pod' = [pod EXCEPT ![p] = x] /\ c \in Nat
      BY <2>1 DEF ReceiveChallenge, ReplyOK
    <3> HIDE DEF c
    <3>2. x \in Processes /\ x.pc = "holding"
      BY <2>0, <3>1 DEF Processes
    <3>3. QED
      BY <1>0, <3>1, <3>2, UpdatedProcess
  <2>2. CASE NoChallenge(p, r) \/ Refused(p, r)
    <3> DEFINE x == [pod[p] EXCEPT !.pc = "start"]
    <3>1. pod' = [pod EXCEPT ![p] = x]
      BY <2>2 DEF NoChallenge, Refused
    <3>2. x \in Processes /\ x.pc = "start"
      BY <2>0 DEF Processes
    <3>3. QED
      BY <1>0, <3>1, <3>2, UpdatedProcess
  <2>3. CASE Enrolled(p, r)
    <3> DEFINE x == [pod[p] EXCEPT !.pc = "enrolled"]
    <3>1. /\ pod' = [pod EXCEPT ![p] = x]
          /\ pod[p].submission \in submitted
          /\ Claim(pod[p].submission) \in registered
      BY <1>0, <2>3 DEF Enrolled, ReplyOK, ClientOK
    <3>2. x \in Processes /\ x.submission = pod[p].submission
      BY <2>0 DEF Processes
    <3>3. QED
      BY <1>0, <3>1, <3>2, UpdatedProcess
  <2>4. CASE Unclear(p, r)
    <3> DEFINE x == [pod[p] EXCEPT !.pc = "doubt", !.doubt = TRUE]
    <3>1. pod' = [pod EXCEPT ![p] = x] /\ pod[p].submission \in submitted
      BY <1>0, <2>4 DEF Unclear, ClientOK
    <3>2. /\ x \in Processes
          /\ x.pc = "doubt"
          /\ x.submission = pod[p].submission
      BY <2>0 DEF Processes
    <3>3. QED
      BY <1>0, <3>1, <3>2, UpdatedProcess
  <2>5. QED
    BY <2>1, <2>2, <2>3, <2>4 DEF Return
<1>3. Typed'
  BY <1>0, <1>1, <1>2 DEF Typed, Processes
<1>4. \A q \in Pods \ {p} : CallOK(q)' /\ ClientOK(q)'
  <2>1. \A q \in Pods \ {p} : call'[q] = call[q] /\ reply'[q] = reply[q]
    BY <1>0, <1>1 DEF Typed
  <2>2. registered' = registered
    BY <1>1 DEF kernel
  <2>3. QED
    BY <1>1, <1>2, <2>1, <2>2, OtherPods
<1>5. call'[p] = NoCall /\ reply'[p] = NoReply
  BY <1>0, <1>1 DEF Typed
<1>6. CallOK(p)'
  BY <1>5 DEF CallOK
<1>7. ClientOK(p)'
  BY <1>1, <1>2, <1>5 DEF ClientOK, kernel
<1>8. (\A s \in submitted : Genuine(s))'
  BY <1>1 DEF EInv, Genuine, WellFormed
<1>9. (\A m \in late : LateOK(m))'
  BY <1>1, LateStays
<1>10. KernelOK'
  BY <1>0, <1>1, KernelStays
<1>11. QED
  BY <1>3, <1>4, <1>6, <1>7, <1>8, <1>9, <1>10 DEF EInv

(* A step of pod p that leaves the kernel as it was.                       *)
LEMMA ClientStep ==
  ASSUME EInv, NEW p \in Pods, Typed', submitted \subseteq submitted',
         \A s \in submitted' : Genuine(s),
         \A q \in Pods \ {p} : /\ pod'[q] = pod[q]
                               /\ call'[q] = call[q]
                               /\ reply'[q] = reply[q],
         CallOK(p)', ClientOK(p)', \A m \in late' : LateOK(m),
         UNCHANGED kernel
  PROVE  EInv'
<1>1. \A q \in Pods \ {p} : CallOK(q)' /\ ClientOK(q)'
  <2>1. registered' = registered
    BY DEF kernel
  <2>2. QED
    BY <2>1, OtherPods
<1>2. (\A s \in submitted : Genuine(s))'
  BY DEF Genuine, WellFormed
<1>3. (\A m \in late : LateOK(m))'
  BY LateStays
<1>4. KernelOK'
  BY KernelStays DEF EInv
<1>5. QED
  BY <1>1, <1>2, <1>3, <1>4 DEF EInv

(* A process that starts, asks for a challenge, cannot sign or begins      *)
(* again holds no submission that matters.                                 *)
LEMMA QuietEInv ==
  ASSUME EInv, NEW p \in Pods,
         UseInjected(p) \/ CannotSign(p) \/ BeginAgain(p)
  PROVE  EInv'
<1>1. Typed /\ CallOK(p) /\ ClientOK(p)
  BY DEF EInv
<1>2. /\ UNCHANGED <<settings, started, submitted, call, reply, late>>
      /\ UNCHANGED kernel
  BY DEF UseInjected, CannotSign, BeginAgain
<1>3. \E x \in Processes :
        /\ pod' = [pod EXCEPT ![p] = x]
        /\ x.pc \in {"start", "holding", "unusable"}
  <2>0. pod[p] \in Processes
    BY <1>1 DEF Typed
  <2>1. CASE UseInjected(p)
    <3> DEFINE x == [pod[p] EXCEPT !.pc = "holding", !.challenge = p,
                                   !.doubt = FALSE, !.tried = TRUE]
    <3>1. pod' = [pod EXCEPT ![p] = x]
      BY <2>1 DEF UseInjected
    <3>2. p \in Nat
      OBVIOUS
    <3>3. x \in Processes /\ x.pc = "holding"
      BY <2>0, <3>2 DEF Processes
    <3>4. QED
      BY <3>1, <3>3
  <2>2. CASE CannotSign(p)
    <3> DEFINE x == [pod[p] EXCEPT !.pc = "unusable"]
    <3>1. pod' = [pod EXCEPT ![p] = x]
      BY <2>2 DEF CannotSign
    <3>2. x \in Processes /\ x.pc = "unusable"
      BY <2>0 DEF Processes
    <3>3. QED
      BY <3>1, <3>2
  <2>3. CASE BeginAgain(p)
    <3> DEFINE x == [pod[p] EXCEPT !.pc = "start"]
    <3>1. pod' = [pod EXCEPT ![p] = x]
      BY <2>3 DEF BeginAgain
    <3>2. x \in Processes /\ x.pc = "start"
      BY <2>0 DEF Processes
    <3>3. QED
      BY <3>1, <3>2
  <2>4. QED
    BY <2>1, <2>2, <2>3
<1>4. PICK x \in Processes :
        /\ pod' = [pod EXCEPT ![p] = x]
        /\ x.pc \in {"start", "holding", "unusable"}
  BY <1>3
<1>5. pod[p].pc \in {"start", "holding", "doubt"}
  BY DEF UseInjected, CannotSign, BeginAgain
<1>6. /\ pod' \in [Pods -> Processes]
      /\ pod'[p] = x
      /\ \A q \in Pods \ {p} : pod'[q] = pod[q]
  BY <1>1, <1>4, UpdatedProcess
<1>7. Typed'
  BY <1>1, <1>2, <1>6 DEF Typed, Processes
<1>8. CallOK(p)'
  BY <1>1, <1>2, <1>5 DEF CallOK
<1>9. ClientOK(p)'
  BY <1>1, <1>2, <1>4, <1>5, <1>6 DEF ClientOK, ReplyOK
<1>10. QED
  BY <1>2, <1>6, <1>7, <1>8, <1>9, ClientStep DEF EInv

(* A process calls: for a challenge, or with a submission, new or again.   *)
LEMMA CallingEInv ==
  ASSUME EInv, NEW p \in Pods, NEW x, NEW m, x \in Processes',
         pod[p].pc \in {"start", "holding", "doubt"},
         UNCHANGED <<settings, started, reply, late>>, UNCHANGED kernel,
         submitted \subseteq submitted',
         \A s \in submitted' : Genuine(s),
         pod' = [pod EXCEPT ![p] = x],
         call' = [call EXCEPT ![p] = m],
         \/ /\ m = [post |-> "challenges", body |-> m.body]
            /\ x.pc = "asking"
         \/ /\ m = [post |-> "enrollments", body |-> m.body]
            /\ x.pc = "submitting"
            /\ x.submission \in submitted'
            /\ SameOrigin(m.body, x.submission)
  PROVE  EInv'
<1>1. Typed /\ CallOK(p) /\ ClientOK(p)
  BY DEF EInv
<1>2. pod \in [Pods -> Processes']
  <2>1. Processes \subseteq Processes'
    BY DEF Processes
  <2>2. QED
    BY <1>1, <2>1 DEF Typed
<1>3. /\ pod' \in [Pods -> Processes']
      /\ pod'[p] = x
      /\ \A q \in Pods \ {p} : pod'[q] = pod[q]
  BY <1>2
<1>4. /\ call'[p] = m
      /\ \A q \in Pods \ {p} : call'[q] = call[q]
      /\ call' = [q \in Pods |-> call'[q]]
  BY <1>1 DEF Typed
<1>5. Typed'
  BY <1>1, <1>3, <1>4 DEF Typed
<1>6. CallOK(p)'
  BY <1>3, <1>4 DEF CallOK
<1>7. ClientOK(p)'
  <2>1. reply'[p] = NoReply
    BY <1>1 DEF ClientOK
  <2>2. x.pc \in {"asking", "submitting"}
    OBVIOUS
  <2>3. QED
    BY <1>3, <2>1, <2>2 DEF ClientOK
<1>8. QED
  BY <1>3, <1>4, <1>5, <1>6, <1>7, ClientStep DEF EInv

LEMMA AskEInv == ASSUME EInv, NEW p \in Pods, Ask(p) PROVE EInv'
<1>0. pod[p] \in Processes /\ \A o \in submitted : Genuine(o)
  BY DEF EInv, Typed
<1>1. /\ pod[p].pc = "start"
      /\ UNCHANGED <<settings, started, submitted, reply, late>>
      /\ UNCHANGED kernel
  BY DEF Ask
<1> DEFINE x == [pod[p] EXCEPT !.pc = "asking"]
           m == [post |-> "challenges",
                 body |-> ChallengeRequest(PodUid(p), Token(p))]
<1>2. /\ pod' = [pod EXCEPT ![p] = x]
      /\ call' = [call EXCEPT ![p] = m]
  BY DEF Ask
<1>3. x \in Processes' /\ x.pc = "asking"
  BY <1>0, <1>1 DEF Processes
<1>4. m = [post |-> "challenges", body |-> m.body]
  OBVIOUS
<1> HIDE DEF x, m
<1>5. QED
  BY <1>0, <1>1, <1>2, <1>3, <1>4, CallingEInv

LEMMA SubmitEInv == ASSUME EInv, NEW p \in Pods, Submit(p) PROVE EInv'
<1> DEFINE s == Signed(p).value
           x == [pod[p] EXCEPT !.pc = "submitting", !.submission = s]
           m == [post |-> "enrollments", body |-> s]
<1>0. pod[p] \in Processes /\ \A o \in submitted : Genuine(o)
  BY DEF EInv, Typed
<1>1. /\ pod[p].pc = "holding"
      /\ Signed(p).ok
      /\ pod' = [pod EXCEPT ![p] = x]
      /\ submitted' = submitted \cup {s}
      /\ call' = [call EXCEPT ![p] = m]
      /\ UNCHANGED <<settings, started, reply, late>>
      /\ UNCHANGED kernel
  BY DEF Submit
<1>2. Genuine(s)
  BY <1>1, SignedIsGenuine DEF EInv
<1> HIDE DEF s
<1>3. /\ x \in Processes'
      /\ x.pc = "submitting"
      /\ x.submission = s
  BY <1>0, <1>1 DEF Processes
<1>4. m = [post |-> "enrollments", body |-> m.body] /\ m.body = s
  OBVIOUS
<1>5. SameOrigin(s, s)
  BY <1>2 DEF SameOrigin, Genuine
<1> HIDE DEF x, m
<1>6. QED
  <2>1. /\ pod[p].pc \in {"start", "holding", "doubt"}
        /\ submitted \subseteq submitted'
        /\ \A o \in submitted' : Genuine(o)
        /\ x.submission \in submitted'
        /\ SameOrigin(m.body, x.submission)
    BY <1>0, <1>1, <1>2, <1>3, <1>4, <1>5
  <2>2. QED
    BY <1>1, <1>3, <1>4, <2>1, CallingEInv, Zenon

LEMMA ResubmitEInv == ASSUME EInv, NEW p \in Pods, Resubmit(p) PROVE EInv'
<1> DEFINE s == pod[p].submission
           x == [pod[p] EXCEPT !.pc = "submitting"]
           m == [post |-> "enrollments", body |-> s]
<1>0. pod[p] \in Processes /\ \A o \in submitted : Genuine(o)
  BY DEF EInv, Typed
<1>1. /\ pod[p].pc = "doubt"
      /\ pod' = [pod EXCEPT ![p] = x]
      /\ call' = [call EXCEPT ![p] = m]
      /\ UNCHANGED <<settings, started, submitted, reply, late>>
      /\ UNCHANGED kernel
  BY DEF Resubmit
<1>2. s \in submitted
  BY <1>1 DEF EInv, ClientOK
<1>3. /\ x \in Processes'
      /\ x.pc = "submitting"
      /\ x.submission = s
  BY <1>0, <1>1 DEF Processes
<1> HIDE DEF s
<1>4. m = [post |-> "enrollments", body |-> m.body] /\ m.body = s
  OBVIOUS
<1>5. SameOrigin(s, s)
  BY <1>2 DEF EInv, SameOrigin, Genuine
<1> HIDE DEF x, m
<1>6. QED
  <2>1. /\ pod[p].pc \in {"start", "holding", "doubt"}
        /\ submitted \subseteq submitted'
        /\ \A o \in submitted' : Genuine(o)
        /\ x.submission \in submitted'
        /\ SameOrigin(m.body, x.submission)
    BY <1>0, <1>1, <1>2, <1>3, <1>4, <1>5
  <2>2. QED
    BY <1>1, <1>3, <1>4, <2>1, CallingEInv, Zenon

-----------------------------------------------------------------------------
(* The kernel's side.                                                      *)

LEMMA Base64Injective ==
  ASSUME NEW a, NEW b, Base64(a) = Base64(b)
  PROVE  a = b
  BY DEF Base64

LEMMA IssueKernelOK ==
  ASSUME KernelOK, NEW m, Issue(m)
  PROVE  KernelOK' /\ registered \subseteq registered'
<1> DEFINE new == <<issued + 1, m.body.workload_token>>
<1>1. /\ issued' = issued + 1
      /\ open' = open \cup {new}
      /\ registered' = registered
      /\ issued \in Nat
  BY DEF Issue, KernelOK
<1>2. \A r \in registered : \E c \in 1 .. issued : r.challenge = Base64(c)
  BY DEF KernelOK
<1>3. \A r \in registered : r.challenge # Base64(issued + 1)
  BY <1>1, <1>2, Base64Injective
<1>4. \A o \in open :
        /\ o = <<o[1], o[2]>>
        /\ o[1] \in 1 .. issued
        /\ o[1] # issued + 1
        /\ \A q \in open : o[1] = q[1] => o = q
        /\ \A r \in registered : r.challenge # Base64(o[1])
  BY <1>1 DEF KernelOK
<1>5. new = <<new[1], new[2]>> /\ new[1] = issued + 1
  OBVIOUS
<1> HIDE DEF new
<1>6. \A o \in open' :
        /\ o = <<o[1], o[2]>>
        /\ o[1] \in 1 .. issued'
        /\ \A q \in open' : o[1] = q[1] => o = q
        /\ \A r \in registered' : r.challenge # Base64(o[1])
  BY <1>1, <1>3, <1>4, <1>5
<1>7. \A r \in registered' : \E c \in 1 .. issued' : r.challenge = Base64(c)
  BY <1>1, <1>2
<1>8. QED
  BY <1>1, <1>6, <1>7 DEF KernelOK

LEMMA RegisterKernelOK ==
  ASSUME KernelOK, NEW m, Register(m), WellFormed(m.body)
  PROVE  /\ KernelOK'
         /\ registered \subseteq registered'
         /\ \A r \in registered : r.challenge # Claim(m.body).challenge
<1> DEFINE c == m.body.challenge.base64url
           used == <<c, m.body.workload_token>>
           claim == Claim(m.body)
<1>1. /\ open' = open \ {used}
      /\ used \in open
      /\ issued' = issued
      /\ registered' = registered \cup {claim}
  BY DEF Register, Admitted
<1>2. claim.challenge = Base64(c)
  BY DEF Claim, WellFormed
<1>3. used[1] = c
  OBVIOUS
<1> HIDE DEF c, used, claim
<1>4. \A o \in open :
        /\ o = <<o[1], o[2]>>
        /\ o[1] \in 1 .. issued
        /\ \A q \in open : o[1] = q[1] => o = q
        /\ \A r \in registered : r.challenge # Base64(o[1])
  BY DEF KernelOK
<1>5. \A r \in registered : r.challenge # claim.challenge
  BY <1>1, <1>2, <1>3, <1>4
<1>6. \A o \in open' : o[1] # c
  BY <1>1, <1>3, <1>4
<1>7. \A o \in open' : claim.challenge # Base64(o[1])
  BY <1>2, <1>6, Base64Injective
<1>8. \A o \in open' :
        /\ o = <<o[1], o[2]>>
        /\ o[1] \in 1 .. issued'
        /\ \A q \in open' : o[1] = q[1] => o = q
        /\ \A r \in registered' : r.challenge # Base64(o[1])
  BY <1>1, <1>4, <1>7
<1>9. \A r \in registered' : \E d \in 1 .. issued' : r.challenge = Base64(d)
  BY <1>1, <1>2, <1>3, <1>4 DEF KernelOK
<1>10. KernelOK' /\ registered \subseteq registered'
  BY <1>1, <1>8, <1>9 DEF KernelOK
<1>11. QED
  BY <1>5, <1>10 DEF claim

LEMMA KernelStep ==
  ASSUME EInv, NEW m, LateOK(m), Issue(m) \/ Register(m) \/ TurnDown(m)
  PROVE  KernelOK' /\ registered \subseteq registered'
<1>1. KernelOK
  BY DEF EInv
<1>2. CASE Issue(m)
  BY <1>1, <1>2, IssueKernelOK
<1>3. CASE Register(m)
  <2>1. WellFormed(m.body)
    BY <1>3 DEF Register, LateOK, SameOrigin
  <2>2. QED
    BY <1>1, <1>3, <2>1, RegisterKernelOK
<1>4. CASE TurnDown(m)
  BY <1>1, <1>4, KernelStays DEF TurnDown, kernel
<1>5. QED
  BY <1>2, <1>3, <1>4

LEMMA ArriveLateEInv ==
  ASSUME EInv, NEW m \in late, ArriveLate(m)
  PROVE  EInv'
<1>1. KernelOK' /\ registered \subseteq registered'
  BY KernelStep DEF EInv, ArriveLate
<1>2. /\ UNCHANGED <<settings, pod, started, submitted, call, reply>>
      /\ late' \subseteq late
  BY DEF ArriveLate, clients
<1>3. Typed'
  BY <1>2 DEF EInv, Typed, Processes
<1>4. (\A p \in Pods : CallOK(p) /\ ClientOK(p))'
  BY <1>1, <1>2 DEF EInv, CallOK, ClientOK, ReplyOK
<1>5. (\A s \in submitted : Genuine(s))'
  BY <1>2 DEF EInv, Genuine, WellFormed
<1>6. (\A o \in late : LateOK(o))'
  BY <1>2, LateStays DEF EInv
<1>7. QED
  BY <1>1, <1>3, <1>4, <1>5, <1>6 DEF EInv

-----------------------------------------------------------------------------
(* Replies.                                                                *)

(* Whether a reply says yes, and to what.                                  *)
LEMMA ReplyRead ==
  ASSUME NEW r, NEW type, EnrollmentReply(r, type).ok
  PROVE  /\ r.whole
         /\ IsSuccess(r.status)
         /\ r.body # GARBLED
         /\ r.body.type = type
         /\ EnrollmentReply(r, type).value = r.body
  BY DEF EnrollmentReply, Parses, Ok, Err

LEMMA IssueRead ==
  ASSUME NEW p, NEW status, NEW c \in Nat
  PROVE  ReplyOK(p, Reply(status, IssuedChallenge(c)))
<1> DEFINE body == IssuedChallenge(c)
           r == Reply(status, body)
<1>1. body.type = "IssuedChallenge" /\ body.challenge = Base64(c)
  BY DEF IssuedChallenge
<1>2. ChallengeBytes(body).ok => ChallengeBytes(body).value \in Nat
  BY <1>1 DEF ChallengeBytes, Base64, Ok, Err
<1>3. r.body = body
  BY DEF Reply
<1> HIDE DEF r, body
<1>4. EnrollmentReply(r, "IssuedChallenge").ok =>
        EnrollmentReply(r, "IssuedChallenge").value = body
  BY <1>3, ReplyRead
<1>5. ~EnrollmentReply(r, "EnrolledInstance").ok
  <2>1. "EnrolledInstance" # "IssuedChallenge"
    OBVIOUS
  <2>2. QED
    BY <1>1, <1>3, <2>1, ReplyRead
<1>6. ReplyOK(p, r)
  BY <1>2, <1>4, <1>5 DEF ReplyOK, RequestEnrollmentChallenge,
     SubmitEnrollment
<1>7. QED
  BY <1>6 DEF r, body

LEMMA EnrolledRead ==
  ASSUME NEW status, NEW i
  PROVE  ~RequestEnrollmentChallenge(
            Reply(status, EnrolledInstance(i))).ok
<1> DEFINE r == Reply(status, EnrolledInstance(i))
<1>1. r.body.type = "EnrolledInstance"
  BY DEF Reply, EnrolledInstance
<1> HIDE DEF r
<1>2. "EnrolledInstance" # "IssuedChallenge"
  OBVIOUS
<1>3. ~RequestEnrollmentChallenge(r).ok
  BY <1>1, <1>2, ReplyRead DEF RequestEnrollmentChallenge
<1>4. QED
  BY <1>3 DEF r

(* A rejection, and whatever a reply is damaged to, says yes to nothing.   *)
SaysNothing(r) ==
  /\ ~SubmitEnrollment(r).ok
  /\ RequestEnrollmentChallenge(r).ok =>
       ~ChallengeBytes(RequestEnrollmentChallenge(r).value).ok

LEMMA SaysNothingOK ==
  ASSUME NEW p, NEW r, SaysNothing(r)
  PROVE  ReplyOK(p, r)
  BY DEF SaysNothing, ReplyOK

LEMMA NoReplySaysNothing == SaysNothing(NoReply)
  BY DEF SaysNothing, NoReply, SubmitEnrollment, RequestEnrollmentChallenge,
     EnrollmentReply, Err

(* A reply that is cut short, that has not a success status or that does   *)
(* not parse.                                                              *)
LEMMA UnusableSaysNothing ==
  ASSUME NEW r, ~r.whole \/ ~IsSuccess(r.status) \/ r.body = GARBLED
  PROVE  SaysNothing(r)
  BY ReplyRead DEF SaysNothing, SubmitEnrollment, RequestEnrollmentChallenge

LEMMA RejectionSaysNothing ==
  ASSUME NEW status, ~IsSuccess(status)
  PROVE  SaysNothing(Reply(status, EnrollmentRejection))
<1> DEFINE r == Reply(status, EnrollmentRejection)
<1>1. r.status = status
  BY DEF Reply
<1> HIDE DEF r
<1>2. SaysNothing(r)
  BY <1>1, UnusableSaysNothing
<1>3. QED
  BY <1>2 DEF r

LEMMA DamagedSaysNothing ==
  ASSUME NEW q, Sent(q), NEW r \in DamagedReplies(q)
  PROVE  SaysNothing(r)
<1>1. PICK status, body :
        /\ q = Reply(status, body)
        /\ \/ \E c : body = IssuedChallenge(c)
           \/ body.type # "IssuedChallenge"
  <2>1. CASE \E st, c : q = Reply(st, IssuedChallenge(c))
    BY <2>1
  <2>2. CASE \E st, i : q = Reply(st, EnrolledInstance(i))
    <3>1. \A i : EnrolledInstance(i).type # "IssuedChallenge"
      BY DEF EnrolledInstance
    <3>2. QED
      BY <2>2, <3>1
  <2>3. CASE \E st : q = Reply(st, EnrollmentRejection)
    <3>1. EnrollmentRejection.type # "IssuedChallenge"
      BY DEF EnrollmentRejection
    <3>2. QED
      BY <2>3, <3>1
  <2>4. QED
    BY <2>1, <2>2, <2>3 DEF Sent
<1>2. CASE r = CutShort(q)
  <2>1. r.whole = FALSE
    BY <1>1, <1>2 DEF Reply, CutShort
  <2>2. QED
    BY <2>1, UnusableSaysNothing
<1>3. CASE r = [q EXCEPT !.body = GARBLED] \/ r = Reply(503, GARBLED)
  <2>1. r.body = GARBLED
    BY <1>1, <1>3 DEF Reply
  <2>2. QED
    BY <2>1, UnusableSaysNothing
<1>4. CASE /\ q.body.type = "IssuedChallenge"
           /\ r \in {[q EXCEPT !.body.challenge = GARBLED],
                     [q EXCEPT !.body.challenge = Base64(SHORT)]}
  <2>1. PICK x \in {GARBLED, Base64(SHORT)} :
          r = [q EXCEPT !.body.challenge = x]
    BY <1>4
  <2>2. PICK c : body = IssuedChallenge(c)
    BY <1>1, <1>4 DEF Reply
  <2> DEFINE b == [body EXCEPT !.challenge = x]
  <2>3. r.body = b
    BY <1>1, <2>1 DEF Reply
  <2>4. b.type = "IssuedChallenge" /\ b.challenge = x
    BY <2>2 DEF IssuedChallenge
  <2> HIDE DEF b
  <2>5. ~ChallengeBytes(b).ok
    BY <2>1, <2>4 DEF ChallengeBytes, Base64, Err
  <2>6. ~SubmitEnrollment(r).ok
    <3>1. "EnrolledInstance" # "IssuedChallenge"
      OBVIOUS
    <3>2. QED
      BY <2>3, <2>4, <3>1, ReplyRead DEF SubmitEnrollment
  <2>7. QED
    BY <2>3, <2>5, <2>6, ReplyRead DEF SaysNothing,
       RequestEnrollmentChallenge
<1>5. QED
  BY <1>2, <1>3, <1>4 DEF DamagedReplies

LEMMA ReadEInv == ASSUME EInv, NEW p \in Pods, Read(p) PROVE EInv'
<1>1. /\ ReplyOK(p, reply[p])
      /\ Return(p, reply[p])
      /\ \A m \in late' : LateOK(m)
  BY DEF EInv, ClientOK, Read
<1> DEFINE r == reply[p]
<1> HIDE DEF r
<1>2. QED
  BY <1>1, ReturnEInv DEF r

LEMMA GiveUpEInv == ASSUME EInv, NEW p \in Pods, GiveUp(p) PROVE EInv'
<1>1. Return(p, NoReply) /\ late' = late \cup Abandoned(p)
  BY DEF GiveUp
<1>2. \A m \in late' : LateOK(m)
  BY <1>1, AbandonedIsLate DEF EInv
<1>3. ReplyOK(p, NoReply)
  BY NoReplySaysNothing, SaysNothingOK
<1>4. QED
  BY <1>1, <1>2, <1>3, ReturnEInv

LEMMA ReadDamagedEInv ==
  ASSUME EInv, NEW p \in Pods, ReadDamaged(p) PROVE EInv'
<1>1. PICK r \in DamagedReplies(reply[p]) : Return(p, r)
  BY DEF ReadDamaged
<1>2. reply[p] # NoReply /\ late' = late
  BY DEF ReadDamaged
<1>3. Sent(reply[p]) /\ \A m \in late' : LateOK(m)
  BY <1>2 DEF EInv, ClientOK
<1>4. ReplyOK(p, r)
  BY <1>3, DamagedSaysNothing, SaysNothingOK
<1>5. QED
  BY <1>1, <1>3, <1>4, ReturnEInv

(* The kernel answers the call of pod p with y.                            *)
LEMMA AnsweredEInv ==
  ASSUME EInv, NEW p \in Pods, NEW y, call[p] # NoCall, Sent(y),
         UNCHANGED <<settings, late>>, UNCHANGED clients,
         call' = [call EXCEPT ![p] = NoCall],
         reply' = [reply EXCEPT ![p] = y],
         KernelOK', registered \subseteq registered',
         \/ ReplyOK(p, y)
         \/ /\ ~RequestEnrollmentChallenge(y).ok
            /\ Claim(pod[p].submission) \in registered'
  PROVE  EInv'
<1>1. Typed /\ CallOK(p) /\ ClientOK(p)
  BY DEF EInv
<1>2. UNCHANGED <<pod, started, submitted>>
  BY DEF clients
<1>3. /\ call'[p] = NoCall
      /\ reply'[p] = y
      /\ \A q \in Pods \ {p} : call'[q] = call[q] /\ reply'[q] = reply[q]
      /\ call' = [q \in Pods |-> call'[q]]
      /\ reply' = [q \in Pods |-> reply'[q]]
  BY <1>1 DEF Typed
<1>4. Typed'
  BY <1>1, <1>2, <1>3 DEF Typed, Processes
<1>5. \A q \in Pods \ {p} : CallOK(q)' /\ ClientOK(q)'
  BY <1>2, <1>3, OtherPods
<1>6. CallOK(p)'
  BY <1>3 DEF CallOK
<1>7. ReplyOK(p, reply[p])'
  BY <1>2, <1>3 DEF ReplyOK
<1>8. pod[p].pc \in {"asking", "submitting"}
  BY <1>1 DEF CallOK
<1>9. ClientOK(p)'
  BY <1>1, <1>2, <1>3, <1>7, <1>8 DEF ClientOK
<1>10. (\A s \in submitted : Genuine(s))'
  BY <1>2 DEF EInv, Genuine, WellFormed
<1>11. (\A m \in late : LateOK(m))'
  BY <1>2, LateStays DEF EInv
<1>12. QED
  BY <1>4, <1>5, <1>6, <1>9, <1>10, <1>11 DEF EInv

(* A call whose submission the kernel admits asks for its claim.           *)
LEMMA CallIsClaimed ==
  ASSUME EInv, NEW p \in Pods, call[p] # NoCall, Register(call[p])
  PROVE  /\ pod[p].submission \in submitted
         /\ Claim(call[p].body) = Claim(pod[p].submission)
<1>1. call[p].post = "enrollments" /\ Admitted(call[p].body)
  BY DEF Register
<1>2. /\ pod[p].pc = "submitting"
      /\ SameOrigin(call[p].body, pod[p].submission)
  <2>1. call[p] # [post |-> "challenges", body |-> call[p].body]
    BY <1>1
  <2>2. CallOK(p)
    BY DEF EInv
  <2>3. QED
    BY <2>1, <2>2 DEF CallOK
<1>3. pod[p].submission \in submitted
  BY <1>2 DEF EInv, ClientOK
<1>4. Genuine(pod[p].submission)
  BY <1>3 DEF EInv
<1>5. QED
  BY <1>1, <1>2, <1>3, <1>4, AdmittedIsClaimed

LEMMA AnswerEInv == ASSUME EInv, NEW p \in Pods, Answer(p) PROVE EInv'
<1>1. /\ call[p] # NoCall
      /\ call' = [call EXCEPT ![p] = NoCall]
      /\ UNCHANGED <<settings, late>>
      /\ UNCHANGED clients
  BY DEF Answer
<1>2. LateOK(call[p])
  BY <1>1, AbandonedIsLate DEF Abandoned
<1>3. PICK status :
        \/ /\ Issue(call[p])
           /\ reply' = [reply EXCEPT ![p] =
                Reply(status, IssuedChallenge(issued + 1))]
        \/ /\ Register(call[p])
           /\ reply' = [reply EXCEPT ![p] =
               Reply(status, EnrolledInstance(call[p].body.instance_id))]
        \/ /\ ~IsSuccess(status)
           /\ TurnDown(call[p])
           /\ reply' = [reply EXCEPT ![p] =
                Reply(status, EnrollmentRejection)]
  <2>1. ~IsSuccess(403)
    BY DEF IsSuccess
  <2>2. QED
    BY <2>1 DEF Answer
<1>5. Issue(call[p]) \/ Register(call[p]) \/ TurnDown(call[p])
  BY <1>3, Zenon
<1>6. KernelOK' /\ registered \subseteq registered'
  BY <1>2, <1>5, KernelStep
<1>7. ASSUME NEW y, Sent(y), reply' = [reply EXCEPT ![p] = y],
             \/ ReplyOK(p, y)
             \/ /\ ~RequestEnrollmentChallenge(y).ok
                /\ Claim(pod[p].submission) \in registered'
      PROVE  EInv'
  BY <1>1, <1>6, <1>7, AnsweredEInv, Zenon
<1>8. ASSUME Issue(call[p]), NEW y,
             y = Reply(status, IssuedChallenge(issued + 1))
      PROVE  Sent(y) /\ ReplyOK(p, y)
  <2>1. PICK c \in Nat : c = issued + 1
    BY DEF EInv, KernelOK
  <2>2. y = Reply(status, IssuedChallenge(c))
    BY <1>8, <2>1
  <2>3. Sent(y)
    BY <2>2, Zenon DEF Sent
  <2>4. ReplyOK(p, y)
    BY <2>2, IssueRead, Zenon
  <2>5. QED
    BY <2>3, <2>4
<1>9. ASSUME Register(call[p]), NEW i, NEW y,
             y = Reply(status, EnrolledInstance(i))
      PROVE  /\ Sent(y)
             /\ ~RequestEnrollmentChallenge(y).ok
             /\ Claim(pod[p].submission) \in registered'
  <2>1. Sent(y)
    BY <1>9, Zenon DEF Sent
  <2>2. ~RequestEnrollmentChallenge(y).ok
    BY <1>9, EnrolledRead, Zenon
  <2>3. Claim(pod[p].submission) \in registered'
    BY <1>1, <1>9, CallIsClaimed DEF Register
  <2>4. QED
    BY <2>1, <2>2, <2>3
<1>10. ASSUME ~IsSuccess(status), NEW y,
              y = Reply(status, EnrollmentRejection)
       PROVE  Sent(y) /\ ReplyOK(p, y)
  <2>1. Sent(y)
    BY <1>10, Zenon DEF Sent
  <2>2. ReplyOK(p, y)
    BY <1>10, RejectionSaysNothing, SaysNothingOK, Zenon
  <2>3. QED
    BY <2>1, <2>2
<1>11. QED
  BY <1>3, <1>7, <1>8, <1>9, <1>10, Zenon

-----------------------------------------------------------------------------
(* Faults that are not the end of a call.                                  *)

(* One field of a submission changed: either the signature is the same, or *)
(* all the rest is.                                                        *)
LEMMA ChangedSubmission ==
  ASSUME NEW s, WellFormed(s), NEW field \in SubmissionFields,
         NEW value \in Substitutes[field]
  PROVE  SameOrigin([s EXCEPT ![field] = value], s)
<1> DEFINE b == [s EXCEPT ![field] = value]
<1>1. b = [f \in SubmissionFields |-> b[f]]
  BY DEF WellFormed
<1>2. \A f \in SubmissionFields : b[f] = IF f = field THEN value ELSE s[f]
  BY DEF WellFormed
<1> HIDE DEF b
<1>3. b.public_key = Base64(b.public_key.base64url)
  <2>1. CASE field = "public_key"
    <3>1. PICK n : value = Base64(KeyBytes(n))
      BY <2>1 DEF Substitutes
    <3>2. b.public_key = value
      BY <1>2, <2>1 DEF SubmissionFields
    <3>3. QED
      BY <3>1, <3>2 DEF Base64
  <2>2. CASE field # "public_key"
    BY <1>2, <2>2 DEF WellFormed, SubmissionFields
  <2>3. QED
    BY <2>1, <2>2
<1>4. b.challenge = Base64(b.challenge.base64url)
  <2>1. CASE field = "challenge"
    <3>1. PICK c : value = Base64(c)
      BY <2>1 DEF Substitutes
    <3>2. b.challenge = value
      BY <1>2, <2>1 DEF SubmissionFields
    <3>3. QED
      BY <3>1, <3>2 DEF Base64
  <2>2. CASE field # "challenge"
    BY <1>2, <2>2 DEF WellFormed, SubmissionFields
  <2>3. QED
    BY <2>1, <2>2
<1>5. b.signature = s.signature \/ Claim(b) = Claim(s)
  <2>1. CASE field = "signature"
    <3>1. /\ b.service_id = s.service_id
          /\ b.instance_id = s.instance_id
          /\ b.key_id = s.key_id
          /\ b.public_key = s.public_key
          /\ b.challenge = s.challenge
          /\ b.endpoint = s.endpoint
          /\ b.pod_uid = s.pod_uid
          /\ b.workload_token = s.workload_token
      BY <1>2, <2>1 DEF SubmissionFields
    <3>2. QED
      BY <3>1 DEF Claim
  <2>2. CASE field # "signature"
    BY <1>2, <2>2 DEF SubmissionFields
  <2>3. QED
    BY <2>1, <2>2
<1>6. SameOrigin(b, s)
  BY <1>1, <1>3, <1>4, <1>5 DEF SameOrigin, WellFormed
<1>7. QED
  BY <1>6 DEF b

LEMMA ChangeSubmissionEInv ==
  ASSUME EInv, NEW p \in Pods, ChangeSubmission(p) PROVE EInv'
<1>0. /\ Typed
      /\ CallOK(p)
      /\ ClientOK(p)
      /\ \A s \in submitted : Genuine(s)
      /\ \A m \in late : LateOK(m)
  BY DEF EInv
<1>1. /\ UNCHANGED <<settings, pod, started, submitted, reply, late>>
      /\ UNCHANGED kernel
      /\ call[p] # NoCall
      /\ call[p].post = "enrollments"
      /\ call[p].body = pod[p].submission
  BY DEF ChangeSubmission, clients
<1>2. /\ call[p] = [post |-> "enrollments", body |-> pod[p].submission]
      /\ pod[p].pc = "submitting"
  BY <1>0, <1>1 DEF CallOK
<1>3. WellFormed(pod[p].submission)
  BY <1>0, <1>2 DEF ClientOK, Genuine
<1>4. PICK field \in SubmissionFields : \E value \in Substitutes[field] :
        call' = [call EXCEPT ![p].body[field] = value]
  BY DEF ChangeSubmission
<1>5. PICK value \in Substitutes[field] :
        call' = [call EXCEPT ![p].body[field] = value]
  BY <1>4
<1> DEFINE b == [pod[p].submission EXCEPT ![field] = value]
<1>6. SameOrigin(b, pod[p].submission)
  BY <1>3, ChangedSubmission
<1>7. call' = [call EXCEPT ![p] = [post |-> "enrollments", body |-> b]]
  <2>1. PICK new : new = [call[p].body EXCEPT ![field] = value]
    OBVIOUS
  <2>2. call' = [call EXCEPT ![p] = [call[p] EXCEPT !.body = new]]
    BY <1>5, <2>1
  <2>3. ASSUME NEW m, NEW s, m = [post |-> "enrollments", body |-> s]
        PROVE  [m EXCEPT !.body = new] = [post |-> "enrollments", body |-> new]
    BY <2>3
  <2>4. [call[p] EXCEPT !.body = new] = [post |-> "enrollments", body |-> new]
    BY <1>2, <2>3
  <2>5. new = b
    BY <1>1, <2>1
  <2>6. QED
    BY <2>2, <2>4, <2>5
<1> HIDE DEF b
<1>8. /\ call'[p] = [post |-> "enrollments", body |-> b]
      /\ call'[p].body = b
      /\ \A q \in Pods \ {p} : call'[q] = call[q]
      /\ call' = [q \in Pods |-> call'[q]]
  BY <1>0, <1>7 DEF Typed
<1>9. Typed'
  BY <1>0, <1>1, <1>8 DEF Typed, Processes
<1>10. CallOK(p)'
  BY <1>1, <1>2, <1>6, <1>8 DEF CallOK
<1>11. ClientOK(p)'
  BY <1>0, <1>1 DEF ClientOK, ReplyOK, kernel
<1>12. QED
  BY <1>0, <1>1, <1>8, <1>9, <1>10, <1>11, ClientStep

LEMMA RestartEInv == ASSUME EInv, NEW p \in Pods, Restart(p) PROVE EInv'
<1>0. Typed /\ \A s \in submitted : Genuine(s)
  BY DEF EInv
<1> DEFINE x == Process(started + 1)
<1>1. /\ UNCHANGED <<settings, submitted>>
      /\ UNCHANGED kernel
      /\ started' = started + 1
      /\ pod' = [pod EXCEPT ![p] = x]
      /\ call' = [call EXCEPT ![p] = NoCall]
      /\ reply' = [reply EXCEPT ![p] = NoReply]
      /\ late' = late \cup Abandoned(p)
  BY DEF Restart
<1>2. x \in Processes /\ x.pc = "start"
  BY <1>0 DEF Typed, Processes, Process
<1> HIDE DEF x
<1>3. /\ pod' \in [Pods -> Processes]
      /\ pod'[p] = x
      /\ \A q \in Pods \ {p} : pod'[q] = pod[q]
  BY <1>0, <1>1, <1>2, UpdatedProcess
<1>4. /\ call'[p] = NoCall
      /\ reply'[p] = NoReply
      /\ \A q \in Pods \ {p} : call'[q] = call[q] /\ reply'[q] = reply[q]
      /\ call' = [q \in Pods |-> call'[q]]
      /\ reply' = [q \in Pods |-> reply'[q]]
  BY <1>0, <1>1 DEF Typed
<1>5. Typed'
  BY <1>0, <1>1, <1>3, <1>4 DEF Typed, Processes
<1>6. CallOK(p)'
  BY <1>4 DEF CallOK
<1>7. ClientOK(p)'
  BY <1>2, <1>3, <1>4 DEF ClientOK
<1>8. \A m \in late' : LateOK(m)
  BY <1>1, AbandonedIsLate DEF EInv
<1>9. QED
  BY <1>0, <1>1, <1>3, <1>4, <1>5, <1>6, <1>7, <1>8, ClientStep

-----------------------------------------------------------------------------
LEMMA NextEInv == EInv /\ [Next]_vars => EInv'
<1> SUFFICES ASSUME EInv, [Next]_vars PROVE EInv'
  OBVIOUS
<1>1. CASE UNCHANGED vars
  BY <1>1 DEF vars, clients, kernel, EInv, Typed, Processes, Genuine,
     WellFormed, CallOK, ClientOK, ReplyOK, LateOK, KernelOK
<1>2. ASSUME NEW p \in Pods, Proceed(p) PROVE EInv'
  BY <1>2, QuietEInv, AskEInv, SubmitEInv, ResubmitEInv, ReadEInv DEF Proceed
<1>3. ASSUME NEW p \in Pods,
             \/ Answer(p) \/ GiveUp(p) \/ ReadDamaged(p)
             \/ ChangeSubmission(p) \/ Restart(p)
      PROVE  EInv'
  BY <1>3, AnswerEInv, GiveUpEInv, ReadDamagedEInv, ChangeSubmissionEInv,
     RestartEInv
<1>4. ASSUME NEW m \in late, ArriveLate(m) PROVE EInv'
  BY <1>4, ArriveLateEInv
<1>5. QED
  BY <1>1, <1>2, <1>3, <1>4 DEF Next

LEMMA SpecEInv == Spec => []EInv
  BY InitEInv, NextEInv, PTL DEF Spec

(* submit_enrollment returns Ok only for a claim the kernel has            *)
(* registered, however the call and the replies were mistreated.           *)
THEOREM EnrolledIsRegistered == Spec => []OkMeansRegistered
<1>1. EInv => OkMeansRegistered
  BY DEF EInv, ClientOK, OkMeansRegistered
<1>2. QED
  BY <1>1, SpecEInv, PTL

-----------------------------------------------------------------------------
(* A process signs a challenge only once: each one it holds is new to it.  *)

(* Process n has signed a submission for this challenge.                   *)
HasSigned(n, challenge) ==
  \E s \in submitted :
    s.instance_id = InstanceId(n) /\ s.challenge = challenge

Drawn(challenge) == \E c \in 1 .. issued : challenge = Base64(c)

OwnProcess(p) ==
  /\ pod[p].process \in 1 .. started
  /\ \A q \in Pods \ {p} : pod[q].process # pod[p].process

(* What a process holds or is being sent is new to it.                     *)
SignsOnce(p) ==
  /\ pod[p].pc \in {"submitting", "doubt"} =>
       pod[p].submission.instance_id = InstanceId(pod[p].process)
  /\ pod[p].pc = "holding" =>
       /\ Drawn(Base64(pod[p].challenge))
       /\ ~HasSigned(pod[p].process, Base64(pod[p].challenge))
  /\ (reply[p] # NoReply /\ reply[p].body.type = "IssuedChallenge") =>
       /\ Drawn(reply[p].body.challenge)
       /\ ~HasSigned(pod[p].process, reply[p].body.challenge)
  /\ (p \in INJECTED /\ ~pod[p].tried) =>
       /\ pod[p].pc = "start"
       /\ \A s \in submitted : s.instance_id # InstanceId(pod[p].process)

Signer(s) == \E n \in 1 .. started : s.instance_id = InstanceId(n)

Claimed(claims) == \A c \in claims : \E s \in submitted : c = Claim(s)

Fresh ==
  /\ PODS <= issued
  /\ \A s \in submitted : Signer(s) /\ Drawn(s.challenge)
  /\ Claimed(registered) /\ Claimed(refused)
  /\ \A p \in Pods : OwnProcess(p) /\ SignsOnce(p)

LEMMA InstanceIdInjective ==
  ASSUME NEW m, NEW n, InstanceId(m) = InstanceId(n)
  PROVE  m = n
  BY DEF InstanceId

LEMMA ClaimedStays ==
  ASSUME NEW claims, Claimed(claims), submitted \subseteq submitted',
         NEW more, more \subseteq claims
  PROVE  \A c \in more : \E s \in submitted' : c = Claim(s)
  BY DEF Claimed

(* A step of pod p, which signs nothing but for its own process.           *)
LEMMA FreshStep ==
  ASSUME EInv, EInv', Fresh, NEW p \in Pods,
         started <= started', issued <= issued',
         submitted \subseteq submitted',
         \A q \in Pods \ {p} : pod'[q] = pod[q] /\ reply'[q] = reply[q],
         pod'[p].process \in {pod[p].process} \cup (started + 1) .. started',
         \A s \in submitted' \ submitted :
           s.instance_id = InstanceId(pod[p].process) /\ Drawn(s.challenge),
         Claimed(registered)', Claimed(refused)', SignsOnce(p)'
  PROVE  Fresh'
<1>1. /\ started \in Nat /\ started' \in Nat
      /\ issued \in Nat /\ issued' \in Nat
  BY DEF EInv, Typed, KernelOK
<1>2. 1 .. started \subseteq 1 .. started' /\ 1 .. issued \subseteq 1 .. issued'
  BY <1>1
<1>3. \A x : Drawn(x) => Drawn(x)'
  BY <1>2 DEF Drawn
<1>4. \A q \in Pods : OwnProcess(q)
  BY DEF Fresh
<1>5. \A s \in submitted' : Signer(s)' /\ Drawn(s.challenge)'
  <2> SUFFICES ASSUME NEW s \in submitted'
               PROVE  Signer(s)' /\ Drawn(s.challenge)'
    OBVIOUS
  <2>1. Signer(s) /\ Drawn(s.challenge)
    BY <1>4 DEF Fresh, Signer, OwnProcess
  <2>2. QED
    BY <1>2, <1>3, <2>1 DEF Signer
<1>6. \A q \in Pods : OwnProcess(q)'
  <2>1. \A q \in Pods : pod[q].process \in 1 .. started
    BY <1>4 DEF OwnProcess
  <2>2. pod[p].process \in 1 .. started
    BY <2>1
  <2>3. pod'[p].process \in 1 .. started'
    BY <1>1, <1>2, <2>2
  <2>4. \A q \in Pods \ {p} : pod'[q].process # pod'[p].process
    <3> SUFFICES ASSUME NEW q \in Pods \ {p}
                 PROVE  pod[q].process # pod'[p].process
      OBVIOUS
    <3>1. CASE pod'[p].process = pod[p].process
      BY <1>4, <3>1 DEF OwnProcess
    <3>2. CASE pod'[p].process \in (started + 1) .. started'
      BY <1>1, <2>1, <3>2
    <3>3. QED
      BY <3>1, <3>2
  <2>5. \A q \in Pods \ {p} : OwnProcess(q)'
    <3> SUFFICES ASSUME NEW q \in Pods \ {p} PROVE OwnProcess(q)'
      OBVIOUS
    <3>1. pod'[q].process \in 1 .. started'
      BY <1>2, <2>1
    <3>2. \A x \in Pods \ {q} : pod'[x].process # pod'[q].process
      BY <1>4, <2>4 DEF OwnProcess
    <3>3. QED
      BY <3>1, <3>2 DEF OwnProcess
  <2>6. QED
    BY <2>3, <2>4, <2>5 DEF OwnProcess
<1>7. \A q \in Pods \ {p} : SignsOnce(q)'
  <2> SUFFICES ASSUME NEW q \in Pods \ {p} PROVE SignsOnce(q)'
    OBVIOUS
  <2>1. pod[q].process # pod[p].process
    BY <1>4 DEF OwnProcess
  <2>2. \A s \in submitted' :
          s.instance_id = InstanceId(pod[q].process) => s \in submitted
    BY <2>1, InstanceIdInjective
  <2>3. \A x : HasSigned(pod[q].process, x)' => HasSigned(pod[q].process, x)
    <3> SUFFICES ASSUME NEW x, NEW s \in submitted',
                        s.instance_id = InstanceId(pod'[q].process),
                        s.challenge = x
                 PROVE  HasSigned(pod[q].process, x)
      BY DEF HasSigned
    <3>1. QED
      BY <2>2 DEF HasSigned
  <2>4. SignsOnce(q)
    BY DEF Fresh
  <2>5. QED
    BY <1>3, <2>2, <2>3, <2>4 DEF SignsOnce
<1>8. PODS <= issued'
  BY <1>1 DEF Fresh
<1>9. QED
  BY <1>5, <1>6, <1>7, <1>8 DEF Fresh

(* A step that brings the process of pod p no challenge and makes it sign  *)
(* nothing.                                                                *)
LEMMA NothingNew ==
  ASSUME Fresh, NEW p \in Pods, UNCHANGED <<submitted, issued>>,
         pod'[p].process = pod[p].process,
         pod'[p].tried = pod[p].tried,
         pod'[p].submission = pod[p].submission,
         pod'[p].pc # "holding",
         pod'[p].pc \in {"submitting", "doubt"} =>
           pod[p].pc \in {"submitting", "doubt"},
         \/ pod[p].pc # "start"
         \/ pod'[p].pc = "start"
         \/ p \in INJECTED => pod[p].tried,
         reply'[p] \in {NoReply, reply[p]}
  PROVE  SignsOnce(p)'
  BY DEF Fresh, SignsOnce, HasSigned, Drawn

LEMMA ClaimsStay ==
  ASSUME Fresh, submitted \subseteq submitted', UNCHANGED registered
  PROVE  Claimed(registered)'
  BY DEF Fresh, Claimed

LEMMA RefusalsStay ==
  ASSUME Fresh, submitted \subseteq submitted', UNCHANGED refused
  PROVE  Claimed(refused)'
  BY DEF Fresh, Claimed

LEMMA UpdatedPod ==
  ASSUME EInv, NEW p \in Pods, NEW x, pod' = [pod EXCEPT ![p] = x]
  PROVE  /\ pod'[p] = x
         /\ \A q \in Pods \ {p} : pod'[q] = pod[q]
  BY DEF EInv, Typed

LEMMA UpdatedReply ==
  ASSUME EInv, NEW p \in Pods, NEW x, reply' = [reply EXCEPT ![p] = x]
  PROVE  /\ reply'[p] = x
         /\ \A q \in Pods \ {p} : reply'[q] = reply[q]
  BY DEF EInv, Typed

LEMMA UpdatedCall ==
  ASSUME EInv, NEW p \in Pods, NEW x, call' = [call EXCEPT ![p] = x]
  PROVE  /\ call'[p] = x
         /\ \A q \in Pods \ {p} : call'[q] = call[q]
  BY DEF EInv, Typed

(* Steps between a start and a call.                                       *)
LEMMA QuietFresh ==
  ASSUME EInv, EInv', Fresh, NEW p \in Pods,
         Ask(p) \/ CannotSign(p) \/ Resubmit(p) \/ BeginAgain(p)
  PROVE  Fresh'
<1>1. PICK l \in {"asking", "unusable", "submitting", "start"} :
        /\ pod' = [pod EXCEPT ![p].pc = l]
        /\ l = "asking" => (p \in INJECTED => pod[p].tried)
        /\ l # "asking" => pod[p].pc # "start"
        /\ l = "submitting" => pod[p].pc = "doubt"
  BY DEF Ask, CannotSign, Resubmit, BeginAgain
<1>2. pod[p] \in Processes
  BY DEF EInv, Typed
<1> DEFINE x == [pod[p] EXCEPT !.pc = l]
<1>3. pod' = [pod EXCEPT ![p] = x]
  BY <1>1
<1>4. /\ x.pc = l
      /\ x.process = pod[p].process
      /\ x.tried = pod[p].tried
      /\ x.submission = pod[p].submission
  BY <1>2 DEF Processes
<1> HIDE DEF x
<1>5. pod'[p] = x /\ \A q \in Pods \ {p} : pod'[q] = pod[q]
  BY <1>3, UpdatedPod
<1>6. /\ UNCHANGED <<started, submitted, refused, reply>>
      /\ UNCHANGED kernel
  BY DEF Ask, CannotSign, Resubmit, BeginAgain
<1>7. SignsOnce(p)'
  BY <1>1, <1>4, <1>5, <1>6, NothingNew DEF kernel
<1>8. started <= started' /\ issued <= issued'
  BY <1>6 DEF kernel, EInv, Typed, KernelOK
<1>9. Claimed(registered)' /\ Claimed(refused)'
  BY <1>6, ClaimsStay, RefusalsStay DEF kernel
<1>10. QED
  BY <1>4, <1>5, <1>6, <1>7, <1>8, <1>9, FreshStep

LEMMA UseInjectedFresh ==
  ASSUME EInv, EInv', Fresh, NEW p \in Pods, UseInjected(p)
  PROVE  Fresh'
<1>2. pod[p] \in Processes
  BY DEF EInv, Typed
<1> DEFINE x == [pod[p] EXCEPT !.pc = "holding", !.challenge = p,
                               !.doubt = FALSE, !.tried = TRUE]
<1>3. pod' = [pod EXCEPT ![p] = x]
  BY DEF UseInjected
<1>4. /\ x.pc = "holding"
      /\ x.process = pod[p].process
      /\ x.tried = TRUE
      /\ x.challenge = p
  BY <1>2 DEF Processes
<1> HIDE DEF x
<1>5. pod'[p] = x /\ \A q \in Pods \ {p} : pod'[q] = pod[q]
  BY <1>3, UpdatedPod
<1>6. /\ UNCHANGED <<started, submitted, refused, reply>>
      /\ UNCHANGED kernel
      /\ pod[p].pc = "start"
      /\ p \in INJECTED /\ ~pod[p].tried
  BY DEF UseInjected
<1>7. SignsOnce(p)'
  <2>1. reply'[p] = NoReply
    BY <1>6 DEF EInv, ClientOK
  <2>2. ~HasSigned(pod[p].process, Base64(p))'
    BY <1>4, <1>5, <1>6 DEF Fresh, SignsOnce, HasSigned
  <2>3. Drawn(Base64(p))'
    <3>1. p \in 1 .. issued'
      BY <1>6 DEF EInv, KernelOK, Fresh, kernel
    <3>2. QED
      BY <3>1 DEF Drawn
  <2>4. QED
    BY <1>4, <1>5, <1>6, <2>1, <2>2, <2>3 DEF SignsOnce, HasSigned
<1>8. started <= started' /\ issued <= issued'
  BY <1>6 DEF kernel, EInv, Typed, KernelOK
<1>9. Claimed(registered)' /\ Claimed(refused)'
  BY <1>6, ClaimsStay, RefusalsStay DEF kernel
<1>10. QED
  BY <1>4, <1>5, <1>6, <1>7, <1>8, <1>9, FreshStep

(* What sign returns is the process's own, for the challenge it holds.     *)
LEMMA SignedFor ==
  ASSUME NEW p \in Pods, Signed(p).ok
  PROVE  /\ Signed(p).value.instance_id = InstanceId(pod[p].process)
         /\ Signed(p).value.challenge = Base64(pod[p].challenge)
  BY DEF Signed, SignSubmission, Submission, Generate, ClientPublicKey,
     Ok, Err

LEMMA SubmitFresh ==
  ASSUME EInv, EInv', Fresh, NEW p \in Pods, Submit(p)
  PROVE  Fresh'
<1> DEFINE s == Signed(p).value
<1>1. /\ s.instance_id = InstanceId(pod[p].process)
      /\ s.challenge = Base64(pod[p].challenge)
  BY SignedFor DEF Submit
<1>2. pod[p] \in Processes
  BY DEF EInv, Typed
<1> HIDE DEF s
<1> DEFINE x == [pod[p] EXCEPT !.pc = "submitting", !.submission = s]
<1>3. pod' = [pod EXCEPT ![p] = x] /\ submitted' = submitted \cup {s}
  BY DEF Submit, s
<1>4. /\ x.pc = "submitting"
      /\ x.process = pod[p].process
      /\ x.tried = pod[p].tried
      /\ x.submission = s
  BY <1>2 DEF Processes
<1> HIDE DEF x
<1>5. pod'[p] = x /\ \A q \in Pods \ {p} : pod'[q] = pod[q]
  BY <1>3, UpdatedPod
<1>6. /\ UNCHANGED <<started, refused, reply>>
      /\ UNCHANGED kernel
      /\ pod[p].pc = "holding"
  BY DEF Submit
<1>7. SignsOnce(p)'
  <2>1. reply'[p] = NoReply
    BY <1>6 DEF EInv, ClientOK
  <2>2. p \in INJECTED => pod[p].tried
    BY <1>6 DEF Fresh, SignsOnce
  <2>3. QED
    BY <1>1, <1>4, <1>5, <2>1, <2>2 DEF SignsOnce
<1>8. started <= started' /\ issued <= issued'
  BY <1>6 DEF kernel, EInv, Typed, KernelOK
<1>9. Claimed(registered)' /\ Claimed(refused)'
  BY <1>3, <1>6, ClaimsStay, RefusalsStay DEF kernel
<1>10. Drawn(s.challenge)
  BY <1>1, <1>6 DEF Fresh, SignsOnce
<1>11. QED
  BY <1>1, <1>3, <1>4, <1>5, <1>6, <1>7, <1>8, <1>9, <1>10, FreshStep

LEMMA ChangeSubmissionFresh ==
  ASSUME EInv, EInv', Fresh, NEW p \in Pods, ChangeSubmission(p)
  PROVE  Fresh'
<1>1. /\ UNCHANGED <<started, submitted, refused, pod, reply>>
      /\ UNCHANGED <<issued, registered>>
  BY DEF ChangeSubmission, clients, kernel
<1>2. QED
  BY <1>1 DEF Fresh, Signer, Drawn, Claimed, OwnProcess, SignsOnce, HasSigned

(* A challenge a process takes from r is the one in r.                     *)
LEMMA TakenFromReply ==
  ASSUME NEW r, NEW c, r.body.challenge = Base64(c),
         RequestEnrollmentChallenge(r).ok,
         ChallengeBytes(RequestEnrollmentChallenge(r).value).ok
  PROVE  /\ r.body.type = "IssuedChallenge"
         /\ ChallengeBytes(RequestEnrollmentChallenge(r).value).value = c
<1>1. /\ r.body.type = "IssuedChallenge"
      /\ RequestEnrollmentChallenge(r).value = r.body
  BY ReplyRead DEF RequestEnrollmentChallenge
<1>2. ChallengeBytes(r.body).ok
  BY <1>1
<1>3. ChallengeBytes(r.body).value = r.body.challenge.base64url
  BY <1>2 DEF ChallengeBytes, Ok, Err
<1>4. QED
  BY <1>1, <1>3 DEF Base64

LEMMA ReturnFresh ==
  ASSUME EInv, EInv', Fresh, NEW p \in Pods, NEW r, Return(p, r),
         (r = reply[p] /\ reply[p] # NoReply) \/ SaysNothing(r)
  PROVE  Fresh'
<1>1. /\ UNCHANGED <<started, submitted, issued, registered>>
      /\ reply' = [reply EXCEPT ![p] = NoReply]
  BY DEF Return, kernel
<1>2. reply'[p] = NoReply /\ \A q \in Pods \ {p} : reply'[q] = reply[q]
  BY <1>1, UpdatedReply
<1>3. pod[p] \in Processes /\ pod[p].pc \in {"asking", "submitting"}
  BY DEF EInv, Typed, Return, ReceiveChallenge, NoChallenge, Enrolled,
     Refused, Unclear
<1>4. started <= started' /\ issued <= issued'
  BY <1>1 DEF EInv, Typed, KernelOK
<1>5. Claimed(registered)'
  BY <1>1, ClaimsStay
<1>6. ASSUME NEW x, pod' = [pod EXCEPT ![p] = x],
             x.process = pod[p].process, SignsOnce(p)', Claimed(refused)'
      PROVE  Fresh'
  <2>1. pod'[p] = x /\ \A q \in Pods \ {p} : pod'[q] = pod[q]
    BY <1>6, UpdatedPod
  <2>2. QED
    BY <1>1, <1>2, <1>4, <1>5, <1>6, <2>1, FreshStep
<1>7. CASE ReceiveChallenge(p, r)
  <2> DEFINE c == ChallengeBytes(RequestEnrollmentChallenge(r).value).value
             x == [pod[p] EXCEPT !.pc = "holding", !.doubt = FALSE,
                                 !.challenge = c]
  <2>1. /\ pod' = [pod EXCEPT ![p] = x]
        /\ RequestEnrollmentChallenge(r).ok
        /\ ChallengeBytes(RequestEnrollmentChallenge(r).value).ok
        /\ UNCHANGED refused
    BY <1>7 DEF ReceiveChallenge
  <2>2. r = reply[p] /\ reply[p] # NoReply
    BY <2>1 DEF SaysNothing
  <2>3. r.body.type = "IssuedChallenge"
    BY <2>1, ReplyRead DEF RequestEnrollmentChallenge
  <2>4. /\ Drawn(r.body.challenge)
        /\ ~HasSigned(pod[p].process, r.body.challenge)
    BY <2>2, <2>3 DEF Fresh, SignsOnce
  <2>5. PICK d \in 1 .. issued : r.body.challenge = Base64(d)
    BY <2>4 DEF Drawn
  <2>6. Base64(c) = r.body.challenge
    BY <2>1, <2>5, TakenFromReply
  <2> HIDE DEF c
  <2>7. /\ x.pc = "holding"
        /\ x.process = pod[p].process
        /\ x.tried = pod[p].tried
        /\ x.challenge = c
    BY <1>3 DEF Processes
  <2>8. pod'[p] = x
    BY <2>1, UpdatedPod
  <2> HIDE DEF x
  <2>9. SignsOnce(p)'
    <3>1. p \in INJECTED => pod[p].tried
      BY <1>3 DEF Fresh, SignsOnce
    <3>2. QED
      BY <1>1, <1>2, <2>4, <2>6, <2>7, <2>8, <3>1 DEF SignsOnce, HasSigned,
         Drawn
  <2>10. Claimed(refused)'
    BY <1>1, <2>1, RefusalsStay
  <2>11. QED
    BY <1>6, <2>1, <2>7, <2>9, <2>10
<1>8. CASE ~ReceiveChallenge(p, r)
  <2>1. PICK l \in {"start", "enrolled", "doubt"}, b \in BOOLEAN :
          /\ pod' = [pod EXCEPT ![p] = [pod[p] EXCEPT !.pc = l, !.doubt = b]]
          /\ l = "doubt" => pod[p].pc = "submitting"
    <3>1. CASE NoChallenge(p, r) \/ Refused(p, r)
      <4>1. [pod[p] EXCEPT !.pc = "start"]
              = [pod[p] EXCEPT !.pc = "start", !.doubt = pod[p].doubt]
        BY <1>3 DEF Processes
      <4>2. pod[p].doubt \in BOOLEAN
        BY <1>3 DEF Processes
      <4>3. QED
        BY <3>1, <4>1, <4>2 DEF NoChallenge, Refused
    <3>2. CASE Enrolled(p, r)
      <4>1. [pod[p] EXCEPT !.pc = "enrolled"]
              = [pod[p] EXCEPT !.pc = "enrolled", !.doubt = pod[p].doubt]
        BY <1>3 DEF Processes
      <4>2. pod[p].doubt \in BOOLEAN
        BY <1>3 DEF Processes
      <4>3. QED
        BY <3>2, <4>1, <4>2 DEF Enrolled
    <3>3. CASE Unclear(p, r)
      BY <3>3 DEF Unclear
    <3>4. QED
      BY <1>8, <3>1, <3>2, <3>3 DEF Return
  <2> DEFINE x == [pod[p] EXCEPT !.pc = l, !.doubt = b]
  <2>2. /\ x.pc = l
        /\ x.process = pod[p].process
        /\ x.tried = pod[p].tried
        /\ x.submission = pod[p].submission
    BY <1>3 DEF Processes
  <2>3. pod'[p] = x
    BY <2>1, UpdatedPod
  <2> HIDE DEF x
  <2>4. SignsOnce(p)'
    BY <1>1, <1>2, <1>3, <2>1, <2>2, <2>3, NothingNew
  <2>5. Claimed(refused)'
    <3>1. Refused(p, r) => pod[p].submission \in submitted
      BY DEF EInv, ClientOK, Refused
    <3>2. \A c \in refused' :
            c \in refused \/ (Refused(p, r) /\ c = Claim(pod[p].submission))
      BY DEF Return, ReceiveChallenge, NoChallenge, Enrolled, Refused, Unclear
    <3>3. QED
      BY <1>1, <3>1, <3>2 DEF Fresh, Claimed
  <2>6. QED
    BY <1>6, <2>1, <2>2, <2>4, <2>5 DEF x
<1>9. QED
  BY <1>7, <1>8

LEMMA EndOfCallFresh ==
  ASSUME EInv, EInv', Fresh, NEW p \in Pods,
         Read(p) \/ GiveUp(p) \/ ReadDamaged(p)
  PROVE  Fresh'
<1>1. CASE Read(p)
  <2>1. PICK r : r = reply[p]
    OBVIOUS
  <2>2. Return(p, r) /\ reply[p] # NoReply
    BY <1>1, <2>1 DEF Read
  <2>3. QED
    BY <2>1, <2>2, ReturnFresh
<1>2. CASE GiveUp(p)
  BY <1>2, NoReplySaysNothing, ReturnFresh DEF GiveUp
<1>3. CASE ReadDamaged(p)
  <2>1. PICK r \in DamagedReplies(reply[p]) : Return(p, r)
    BY <1>3 DEF ReadDamaged
  <2>2. SaysNothing(r)
    BY <1>3, DamagedSaysNothing DEF EInv, ClientOK, ReadDamaged
  <2>3. QED
    BY <2>1, <2>2, ReturnFresh
<1>4. QED
  BY <1>1, <1>2, <1>3

(* What the kernel registers for m was claimed.                            *)
LEMMA KernelFresh ==
  ASSUME EInv, Fresh, NEW m, LateOK(m), UNCHANGED submitted,
         Issue(m) \/ Register(m) \/ TurnDown(m)
  PROVE  issued <= issued' /\ Claimed(registered)'
<1>1. issued \in Nat
  BY DEF EInv, KernelOK
<1>2. CASE Issue(m) \/ TurnDown(m)
  <2>1. UNCHANGED registered
    BY <1>2 DEF Issue, TurnDown, kernel
  <2>2. issued <= issued'
    BY <1>1, <1>2 DEF Issue, TurnDown, kernel
  <2>3. QED
    BY <2>1, <2>2, ClaimsStay
<1>3. CASE Register(m)
  <2>1. PICK s \in submitted : SameOrigin(m.body, s)
    BY <1>3 DEF Register, LateOK
  <2>2. Claim(m.body) = Claim(s)
    BY <1>3, <2>1, AdmittedIsClaimed DEF Register, EInv
  <2>3. QED
    BY <1>1, <1>3, <2>1, <2>2 DEF Register, Fresh, Claimed
<1>4. QED
  BY <1>2, <1>3

LEMMA ArriveLateFresh ==
  ASSUME EInv, EInv', Fresh, NEW m \in late, ArriveLate(m)
  PROVE  Fresh'
<1>1. UNCHANGED <<pod, started, submitted, refused, reply>>
  BY DEF ArriveLate, clients
<1>2. issued <= issued' /\ Claimed(registered)'
  BY <1>1, KernelFresh DEF EInv, ArriveLate
<1>3. issued \in Nat /\ issued' \in Nat
  BY DEF EInv, KernelOK
<1>4. \A x : Drawn(x) => Drawn(x)'
  <2>1. 1 .. issued \subseteq 1 .. issued'
    BY <1>2, <1>3
  <2>2. QED
    BY <2>1 DEF Drawn
<1>5. \A p \in Pods : OwnProcess(p)' /\ SignsOnce(p)'
  BY <1>1, <1>4 DEF Fresh, OwnProcess, SignsOnce, HasSigned
<1>6. PODS <= issued'
  BY <1>2, <1>3 DEF Fresh
<1>7. \A s \in submitted' : Signer(s)' /\ Drawn(s.challenge)'
  BY <1>1, <1>4 DEF Fresh, Signer
<1>8. QED
  BY <1>1, <1>2, <1>5, <1>6, <1>7, RefusalsStay DEF Fresh

LEMMA AnswerFresh ==
  ASSUME EInv, EInv', Fresh, NEW p \in Pods, Answer(p)
  PROVE  Fresh'
<1>1. /\ UNCHANGED <<pod, started, submitted, refused>>
      /\ call[p] # NoCall
      /\ Issue(call[p]) \/ Register(call[p]) \/ TurnDown(call[p])
  BY DEF Answer, clients
<1>2. LateOK(call[p])
  BY <1>1, AbandonedIsLate DEF Abandoned
<1>3. issued <= issued' /\ Claimed(registered)'
  BY <1>1, <1>2, KernelFresh
<1>4. PICK status, body :
        /\ reply' = [reply EXCEPT ![p] = Reply(status, body)]
        /\ \/ body.type # "IssuedChallenge"
           \/ issued' = issued + 1 /\ body = IssuedChallenge(issued + 1)
  <2>1. \A i : EnrolledInstance(i).type # "IssuedChallenge"
    BY DEF EnrolledInstance
  <2>2. EnrollmentRejection.type # "IssuedChallenge"
    BY DEF EnrollmentRejection
  <2>3. QED
    BY <2>1, <2>2 DEF Answer, Issue
<1>5. /\ reply'[p] = Reply(status, body)
      /\ \A q \in Pods \ {p} : reply'[q] = reply[q]
  BY <1>4, UpdatedReply
<1>6. issued \in Nat /\ issued' \in Nat
  BY DEF EInv, KernelOK
<1>7. reply'[p].body = body
  BY <1>5 DEF Reply
<1>8. body.type = "IssuedChallenge" =>
        /\ Drawn(body.challenge)'
        /\ ~HasSigned(pod[p].process, body.challenge)
  <2> SUFFICES ASSUME body.type = "IssuedChallenge"
               PROVE  /\ Drawn(body.challenge)'
                      /\ ~HasSigned(pod[p].process, body.challenge)
    OBVIOUS
  <2>1. issued' = issued + 1 /\ body.challenge = Base64(issued + 1)
    BY <1>4 DEF IssuedChallenge
  <2>2. issued + 1 \in 1 .. issued'
    BY <1>6, <2>1
  <2>3. Drawn(body.challenge)'
    BY <2>1, <2>2 DEF Drawn
  <2>4. \A s \in submitted : s.challenge # Base64(issued + 1)
    <3>1. \A s \in submitted : \E c \in 1 .. issued : s.challenge = Base64(c)
      BY DEF Fresh, Drawn
    <3>2. QED
      BY <1>6, <3>1, Base64Injective
  <2>5. QED
    BY <2>1, <2>3, <2>4 DEF HasSigned
<1>9. \A x : Drawn(x) => Drawn(x)'
  <2>1. 1 .. issued \subseteq 1 .. issued'
    BY <1>3, <1>6
  <2>2. QED
    BY <2>1 DEF Drawn
<1>10. SignsOnce(p)'
  BY <1>1, <1>5, <1>7, <1>8, <1>9 DEF Fresh, SignsOnce, HasSigned
<1>11. started <= started'
  BY <1>1 DEF EInv, Typed
<1>12. Claimed(refused)'
  BY <1>1, RefusalsStay
<1>13. QED
  BY <1>1, <1>3, <1>5, <1>10, <1>11, <1>12, FreshStep

LEMMA RestartFresh ==
  ASSUME EInv, EInv', Fresh, NEW p \in Pods, Restart(p)
  PROVE  Fresh'
<1> DEFINE x == Process(started + 1)
<1>1. /\ started' = started + 1
      /\ pod' = [pod EXCEPT ![p] = x]
      /\ reply' = [reply EXCEPT ![p] = NoReply]
      /\ UNCHANGED <<submitted, refused, issued, registered>>
  BY DEF Restart, kernel
<1>2. started \in Nat /\ issued \in Nat
  BY DEF EInv, Typed, KernelOK
<1>3. x.pc = "start" /\ x.process = started + 1
  BY DEF Process
<1> HIDE DEF x
<1>4. pod'[p] = x /\ \A q \in Pods \ {p} : pod'[q] = pod[q]
  BY <1>1, UpdatedPod
<1>5. reply'[p] = NoReply /\ \A q \in Pods \ {p} : reply'[q] = reply[q]
  BY <1>1, UpdatedReply
<1>6. \A s \in submitted : s.instance_id # InstanceId(started + 1)
  <2>1. \A s \in submitted :
          \E n \in 1 .. started : s.instance_id = InstanceId(n)
    BY DEF Fresh, Signer
  <2>2. QED
    BY <1>2, <2>1, InstanceIdInjective
<1>7. SignsOnce(p)'
  BY <1>1, <1>3, <1>4, <1>5, <1>6 DEF SignsOnce
<1>8. pod'[p].process \in (started + 1) .. started'
  BY <1>1, <1>2, <1>3, <1>4
<1>9. started <= started' /\ issued <= issued'
  BY <1>1, <1>2
<1>10. Claimed(registered)' /\ Claimed(refused)'
  BY <1>1, ClaimsStay, RefusalsStay
<1>11. QED
  BY <1>1, <1>4, <1>5, <1>7, <1>8, <1>9, <1>10, FreshStep

LEMMA InitFresh == Init => Fresh
<1> SUFFICES ASSUME Init PROVE Fresh
  OBVIOUS
<1>1. \A p \in Pods : pod[p] = Process(p) /\ reply[p] = NoReply
  BY DEF Init
<1>2. \A p \in Pods : OwnProcess(p) /\ SignsOnce(p)
  <2>1. \A p \in Pods : pod[p].process = p /\ pod[p].pc = "start"
    <3>1. \A n : Process(n).process = n /\ Process(n).pc = "start"
      BY DEF Process
    <3>2. QED
      BY <1>1, <3>1
  <2>2. \A p \in Pods : OwnProcess(p)
    BY <2>1 DEF Init, OwnProcess
  <2>3. \A p \in Pods : SignsOnce(p)
    BY <1>1, <2>1 DEF Init, SignsOnce
  <2>4. QED
    BY <2>2, <2>3
<1>3. PODS <= issued
  BY DEF Init
<1>4. QED
  BY <1>2, <1>3 DEF Init, Fresh, Claimed

LEMMA NextFresh == EInv /\ EInv' /\ Fresh /\ [Next]_vars => Fresh'
<1> SUFFICES ASSUME EInv, EInv', Fresh, [Next]_vars PROVE Fresh'
  OBVIOUS
<1>1. CASE UNCHANGED vars
  BY <1>1 DEF vars, clients, kernel, Fresh, Signer, Drawn, Claimed,
     OwnProcess, SignsOnce, HasSigned
<1>2. ASSUME NEW p \in Pods, Proceed(p) PROVE Fresh'
  BY <1>2, UseInjectedFresh, QuietFresh, SubmitFresh, EndOfCallFresh
     DEF Proceed
<1>3. ASSUME NEW p \in Pods,
             \/ Answer(p) \/ GiveUp(p) \/ ReadDamaged(p)
             \/ ChangeSubmission(p) \/ Restart(p)
      PROVE  Fresh'
  BY <1>3, AnswerFresh, EndOfCallFresh, ChangeSubmissionFresh, RestartFresh
<1>4. ASSUME NEW m \in late, ArriveLate(m) PROVE Fresh'
  BY <1>4, ArriveLateFresh
<1>5. QED
  BY <1>1, <1>2, <1>3, <1>4 DEF Next

LEMMA SpecFresh == Spec => []Fresh
  BY InitFresh, SpecEInv, NextFresh, PTL DEF Spec

-----------------------------------------------------------------------------
(* A rejection of a first submission is conclusive.                        *)

(* A call the kernel would register as c if c's challenge were open.       *)
Carries(m, c) ==
  /\ m.post = "enrollments"
  /\ Verifies(m.body)
  /\ Claim(m.body) = c

(* Nothing is left that could have the claim c registered.                 *)
Dropped(c) ==
  /\ c \notin registered
  /\ \A m \in late : ~Carries(m, c)
  /\ \A p \in Pods :
       pod[p].pc \in {"submitting", "doubt"} => Claim(pod[p].submission) # c

(* The first call for a claim is the only one for it, and while it is      *)
(* under way, or turned down, the claim is not registered.                 *)
FirstCall(p) ==
  /\ pod[p].pc = "doubt" => pod[p].doubt
  /\ (pod[p].pc = "submitting" /\ ~pod[p].doubt) =>
       /\ \A m \in late : ~Carries(m, Claim(pod[p].submission))
       /\ (call[p] # NoCall \/ reply[p].body.type = "EnrollmentRejection") =>
            Claim(pod[p].submission) \notin registered

Conclusive ==
  /\ \A c \in refused : Dropped(c)
  /\ \A p \in Pods : FirstCall(p)

LEMMA DistinctClaims ==
  ASSUME Fresh, NEW p \in Pods, NEW q \in Pods, p # q,
         pod[p].pc \in {"submitting", "doubt"},
         pod[q].pc \in {"submitting", "doubt"}
  PROVE  Claim(pod[p].submission) # Claim(pod[q].submission)
<1>1. \A s : Claim(s).instance_id = s.instance_id
  BY DEF Claim
<1>2. /\ pod[p].submission.instance_id = InstanceId(pod[p].process)
      /\ pod[q].submission.instance_id = InstanceId(pod[q].process)
      /\ pod[p].process # pod[q].process
  BY DEF Fresh, OwnProcess, SignsOnce
<1>3. QED
  BY <1>1, <1>2, InstanceIdInjective

(* The call a process waits on can get nothing registered but the claim of *)
(* its submission.                                                         *)
LEMMA CallCarries ==
  ASSUME EInv, NEW p \in Pods, call[p] # NoCall, NEW c, Carries(call[p], c)
  PROVE  pod[p].pc = "submitting" /\ c = Claim(pod[p].submission)
<1>1. CallOK(p) /\ ClientOK(p)
  BY DEF EInv
<1>2. call[p] # [post |-> "challenges", body |-> call[p].body]
  BY DEF Carries
<1>3. /\ pod[p].pc = "submitting"
      /\ SameOrigin(call[p].body, pod[p].submission)
  BY <1>1, <1>2 DEF CallOK
<1>4. Genuine(pod[p].submission)
  BY <1>1, <1>3 DEF ClientOK, EInv
<1>5. QED
  BY <1>3, <1>4, VerifiedIsClaimed DEF Carries

LEMMA AbandonedCarries ==
  ASSUME EInv, NEW p \in Pods, NEW m \in Abandoned(p), NEW c, Carries(m, c)
  PROVE  pod[p].pc = "submitting" /\ c = Claim(pod[p].submission)
<1>1. m = call[p] /\ call[p] # NoCall
  BY DEF Abandoned
<1>2. QED
  BY <1>1, CallCarries

LEMMA LateCarries ==
  ASSUME EInv, NEW m \in late, NEW c, Carries(m, c)
  PROVE  \E s \in submitted : c = Claim(s)
<1>1. PICK s \in submitted : SameOrigin(m.body, s)
  BY DEF EInv, LateOK, Carries
<1>2. Genuine(s)
  BY DEF EInv
<1>3. QED
  BY <1>1, <1>2, VerifiedIsClaimed DEF Carries

(* A step of pod p that leaves the kernel as it was.                       *)
LEMMA ConclusiveStep ==
  ASSUME EInv, Fresh, Conclusive, NEW p \in Pods,
         \A q \in Pods \ {p} : /\ pod'[q] = pod[q]
                               /\ call'[q] = call[q]
                               /\ reply'[q] = reply[q],
         UNCHANGED registered,
         late' \subseteq late \cup Abandoned(p),
         \A c \in refused' : c \in refused \/ Dropped(c)',
         pod'[p].pc \in {"submitting", "doubt"} =>
           Claim(pod'[p].submission) \notin refused,
         FirstCall(p)'
  PROVE  Conclusive'
<1>1. \A q \in Pods \ {p} : FirstCall(q)'
  <2> SUFFICES ASSUME NEW q \in Pods \ {p},
                      pod[q].pc = "submitting", ~pod[q].doubt
               PROVE  FirstCall(q)'
    BY DEF Conclusive, FirstCall
  <2>1. FirstCall(q)
    BY DEF Conclusive
  <2>2. \A m \in late' : ~Carries(m, Claim(pod[q].submission))
    <3> SUFFICES ASSUME NEW m \in Abandoned(p),
                        Carries(m, Claim(pod[q].submission))
                 PROVE  FALSE
      BY <2>1 DEF FirstCall
    <3>1. /\ pod[p].pc = "submitting"
          /\ Claim(pod[q].submission) = Claim(pod[p].submission)
      BY AbandonedCarries
    <3>2. QED
      BY <3>1, DistinctClaims
  <2>3. QED
    BY <2>1, <2>2 DEF FirstCall, Carries, Verifies
<1>2. ASSUME NEW c \in refused
      PROVE  Dropped(c)'
  <2>1. Dropped(c)
    BY DEF Conclusive
  <2>2. \A m \in late' : ~Carries(m, c)
    <3> SUFFICES ASSUME NEW m \in Abandoned(p), Carries(m, c) PROVE FALSE
      BY <2>1 DEF Dropped
    <3>1. pod[p].pc = "submitting" /\ c = Claim(pod[p].submission)
      BY AbandonedCarries
    <3>2. QED
      BY <2>1, <3>1 DEF Dropped
  <2>3. \A q \in Pods :
          pod'[q].pc \in {"submitting", "doubt"} =>
            Claim(pod'[q].submission) # c
    BY <2>1 DEF Dropped
  <2>4. QED
    BY <2>1, <2>2, <2>3 DEF Dropped
<1>3. QED
  BY <1>1, <1>2 DEF Conclusive

(* A step that ends no call, signs nothing and leaves the kernel alone.    *)
LEMMA BetweenCallsConclusive ==
  ASSUME EInv, Fresh, Conclusive, NEW p \in Pods,
         \/ UseInjected(p) \/ Ask(p) \/ CannotSign(p) \/ Resubmit(p)
         \/ BeginAgain(p) \/ ChangeSubmission(p)
  PROVE  Conclusive'
<1>1. UNCHANGED <<late, registered, refused, reply>>
  BY DEF UseInjected, Ask, CannotSign, Resubmit, BeginAgain,
     ChangeSubmission, kernel, clients
<1>2. pod[p] \in Processes /\ FirstCall(p)
  BY DEF EInv, Typed, Conclusive
<1>3. \A q \in Pods \ {p} : call'[q] = call[q]
  BY DEF EInv, Typed, UseInjected, Ask, CannotSign, Resubmit, BeginAgain,
     ChangeSubmission
<1>4. ASSUME NEW x, pod' = [pod EXCEPT ![p] = x],
             x.pc \in {"submitting", "doubt"} =>
               Claim(x.submission) \notin refused,
             FirstCall(p)'
      PROVE  Conclusive'
  <2>1. pod'[p] = x /\ \A q \in Pods \ {p} : pod'[q] = pod[q]
    BY <1>4, UpdatedPod
  <2>2. QED
    BY <1>1, <1>3, <1>4, <2>1, ConclusiveStep
<1>5. CASE Resubmit(p)
  <2> DEFINE x == [pod[p] EXCEPT !.pc = "submitting"]
  <2>1. pod[p].pc = "doubt" /\ pod' = [pod EXCEPT ![p] = x]
    BY <1>5 DEF Resubmit
  <2>2. /\ x.pc = "submitting"
        /\ x.submission = pod[p].submission
        /\ x.doubt = pod[p].doubt
    BY <1>2 DEF Processes
  <2> HIDE DEF x
  <2>3. pod'[p] = x
    BY <2>1, UpdatedPod
  <2>4. Claim(x.submission) \notin refused
    BY <2>1, <2>2 DEF Conclusive, Dropped
  <2>5. FirstCall(p)'
    BY <1>2, <2>1, <2>2, <2>3 DEF FirstCall
  <2>6. QED
    BY <1>4, <2>1, <2>4, <2>5
<1>6. CASE ChangeSubmission(p)
  <2>1. /\ UNCHANGED pod
        /\ call[p] # NoCall
        /\ pod = [pod EXCEPT ![p] = pod[p]]
    BY <1>6 DEF ChangeSubmission, clients, EInv, Typed
  <2>2. pod[p].pc \in {"submitting", "doubt"} =>
          Claim(pod[p].submission) \notin refused
    BY DEF Conclusive, Dropped
  <2>3. FirstCall(p)'
    BY <1>1, <1>2, <2>1 DEF FirstCall, Carries, Verifies
  <2>4. QED
    BY <1>4, <2>1, <2>2, <2>3
<1>7. CASE UseInjected(p)
  <2> DEFINE x == [pod[p] EXCEPT !.pc = "holding", !.challenge = p,
                                 !.doubt = FALSE, !.tried = TRUE]
  <2>1. pod' = [pod EXCEPT ![p] = x]
    BY <1>7 DEF UseInjected
  <2>2. x.pc = "holding"
    BY <1>2 DEF Processes
  <2> HIDE DEF x
  <2>3. FirstCall(p)'
    BY <2>1, <2>2, UpdatedPod DEF FirstCall
  <2>4. QED
    BY <1>4, <2>1, <2>2, <2>3
<1>8. CASE Ask(p) \/ CannotSign(p) \/ BeginAgain(p)
  <2>1. PICK l \in {"asking", "unusable", "start"} :
          pod' = [pod EXCEPT ![p].pc = l]
    BY <1>8 DEF Ask, CannotSign, BeginAgain
  <2> DEFINE x == [pod[p] EXCEPT !.pc = l]
  <2>2. pod' = [pod EXCEPT ![p] = x]
    BY <2>1
  <2>3. x.pc = l
    BY <1>2 DEF Processes
  <2> HIDE DEF x
  <2>4. FirstCall(p)'
    BY <2>2, <2>3, UpdatedPod DEF FirstCall
  <2>5. QED
    BY <1>4, <2>2, <2>3, <2>4
<1>9. QED
  BY <1>5, <1>6, <1>7, <1>8

(* What a process signs is a claim nobody has made before.                 *)
LEMMA SubmitConclusive ==
  ASSUME EInv, Fresh, Conclusive, NEW p \in Pods, Submit(p)
  PROVE  Conclusive'
<1> DEFINE s == Signed(p).value
           c == Claim(s)
<1>1. /\ s.instance_id = InstanceId(pod[p].process)
      /\ s.challenge = Base64(pod[p].challenge)
  BY SignedFor DEF Submit
<1>2. pod[p] \in Processes /\ pod[p].pc = "holding"
  BY DEF EInv, Typed, Submit
<1> HIDE DEF s
<1> DEFINE x == [pod[p] EXCEPT !.pc = "submitting", !.submission = s]
<1>3. pod' = [pod EXCEPT ![p] = x]
  BY DEF Submit, s
<1>4. x.pc = "submitting" /\ x.submission = s
  BY <1>2 DEF Processes
<1> HIDE DEF x
<1>5. pod'[p] = x /\ \A q \in Pods \ {p} : pod'[q] = pod[q]
  BY <1>3, UpdatedPod
<1>6. /\ UNCHANGED <<late, registered, refused, reply>>
      /\ \A q \in Pods \ {p} : call'[q] = call[q]
  BY DEF Submit, kernel, EInv, Typed
<1>7. \A o \in submitted : Claim(o) # c
  <2>1. ~HasSigned(pod[p].process, Base64(pod[p].challenge))
    BY <1>2 DEF Fresh, SignsOnce
  <2>2. \A o : Claim(o).instance_id = o.instance_id
    BY DEF Claim
  <2>3. \A o : Claim(o).challenge = o.challenge
    BY DEF Claim
  <2>4. ASSUME NEW o \in submitted, Claim(o) = Claim(s)
        PROVE  FALSE
    <3>1. o.instance_id = s.instance_id /\ o.challenge = s.challenge
      BY <2>2, <2>3, <2>4
    <3>2. QED
      BY <1>1, <2>1, <3>1 DEF HasSigned
  <2>5. QED
    BY <2>4
<1>8. c \notin registered /\ c \notin refused
  BY <1>7 DEF Fresh, Claimed
<1>9. \A m \in late : ~Carries(m, c)
  BY <1>7, LateCarries
<1>10. FirstCall(p)'
  BY <1>4, <1>5, <1>6, <1>8, <1>9 DEF FirstCall, Carries, Verifies
<1>11. QED
  BY <1>4, <1>5, <1>6, <1>8, <1>10, ConclusiveStep

(* Only the kernel's rejection, whole, is read as one.                     *)
LEMMA RejectionRead ==
  ASSUME NEW r, SubmitEnrollment(r) = Err(EnrollmentRejected)
  PROVE  /\ r.answered
         /\ r.whole
         /\ r.body # GARBLED
         /\ r.body.type = "EnrollmentRejection"
<1>1. Err(EnrollmentRejected) # Err(Transport)
  BY DEF Err, EnrollmentRejected, Transport
<1>2. Err(EnrollmentRejected) # Err(MalformedEnrollmentResponse)
  BY DEF Err, EnrollmentRejected, MalformedEnrollmentResponse
<1>3. \A v : Err(EnrollmentRejected) # Ok(v)
  BY DEF Err, Ok
<1>4. QED
  BY <1>1, <1>2, <1>3 DEF SubmitEnrollment, EnrollmentReply, Parses

LEMMA DamagedIsNoRejection ==
  ASSUME NEW q, Sent(q), NEW r \in DamagedReplies(q)
  PROVE  SubmitEnrollment(r) # Err(EnrollmentRejected)
<1> SUFFICES ASSUME SubmitEnrollment(r) = Err(EnrollmentRejected)
             PROVE  FALSE
  OBVIOUS
<1>1. /\ r.whole
      /\ r.body # GARBLED
      /\ r.body.type = "EnrollmentRejection"
  BY RejectionRead
<1>2. PICK status, body : q = Reply(status, body)
  BY DEF Sent
<1>3. CASE r = CutShort(q)
  BY <1>1, <1>2, <1>3 DEF Reply, CutShort
<1>4. CASE r = [q EXCEPT !.body = GARBLED] \/ r = Reply(503, GARBLED)
  BY <1>1, <1>2, <1>4 DEF Reply
<1>5. CASE /\ q.body.type = "IssuedChallenge"
           /\ r \in {[q EXCEPT !.body.challenge = GARBLED],
                     [q EXCEPT !.body.challenge = Base64(SHORT)]}
  <2>1. PICK c : q = Reply(status, IssuedChallenge(c))
    <3>1. \A i : EnrolledInstance(i).type # "IssuedChallenge"
      BY DEF EnrolledInstance
    <3>2. EnrollmentRejection.type # "IssuedChallenge"
      BY DEF EnrollmentRejection
    <3>3. \A st, b : Reply(st, b).body = b /\ Reply(st, b).status = st
      BY DEF Reply
    <3>4. ASSUME NEW st, NEW b, q = Reply(st, b)
          PROVE  st = status /\ b.type = "IssuedChallenge"
      <4>1. q.status = st /\ q.body = b
        BY <3>3, <3>4, Zenon
      <4>2. q.status = status
        BY <1>2, <3>3, Zenon
      <4>3. QED
        BY <1>5, <4>1, <4>2
    <3>5. ~\E st, i : q = Reply(st, EnrolledInstance(i))
      BY <3>1, <3>4
    <3>6. ~\E st : q = Reply(st, EnrollmentRejection)
      BY <3>2, <3>4
    <3>7. PICK st, c : q = Reply(st, IssuedChallenge(c))
      BY <3>5, <3>6 DEF Sent
    <3>8. st = status
      BY <3>4, <3>7
    <3>9. QED
      BY <3>7, <3>8
  <2>2. r.body.type = "IssuedChallenge"
    BY <1>5, <2>1 DEF Reply, IssuedChallenge
  <2>3. QED
    BY <1>1, <2>2
<1>6. QED
  BY <1>3, <1>4, <1>5 DEF DamagedReplies

(* The end of a call: a first submission is refused only by the reply that *)
(* the kernel sent, and then no call for it is left.                       *)
LEMMA ReturnConclusive ==
  ASSUME EInv, Fresh, Conclusive, NEW p \in Pods, NEW r, Return(p, r),
         late' \subseteq late \cup Abandoned(p),
         SubmitEnrollment(r) = Err(EnrollmentRejected) =>
           r = reply[p] /\ late' = late
  PROVE  Conclusive'
<1>1. /\ UNCHANGED registered
      /\ \A q \in Pods \ {p} : call'[q] = call[q] /\ reply'[q] = reply[q]
  BY DEF Return, kernel, EInv, Typed
<1>2. pod[p] \in Processes /\ FirstCall(p)
  BY DEF EInv, Typed, Conclusive
<1>3. PICK x : /\ pod' = [pod EXCEPT ![p] = x]
               /\ x.pc \in {"holding", "start", "enrolled", "doubt"}
               /\ x.pc = "doubt" => /\ x.doubt
                                    /\ pod[p].pc = "submitting"
                                    /\ x.submission = pod[p].submission
  <2>1. CASE ReceiveChallenge(p, r)
    <3> DEFINE c == ChallengeBytes(RequestEnrollmentChallenge(r).value).value
               x == [pod[p] EXCEPT !.pc = "holding", !.doubt = FALSE,
                                   !.challenge = c]
    <3>1. pod' = [pod EXCEPT ![p] = x]
      BY <2>1 DEF ReceiveChallenge
    <3> HIDE DEF c
    <3>2. x.pc = "holding"
      BY <1>2 DEF Processes
    <3>3. QED
      BY <3>1, <3>2
  <2>2. CASE NoChallenge(p, r) \/ Refused(p, r) \/ Enrolled(p, r)
    <3>1. PICK l \in {"start", "enrolled"} : pod' = [pod EXCEPT ![p].pc = l]
      BY <2>2 DEF NoChallenge, Refused, Enrolled
    <3> DEFINE x == [pod[p] EXCEPT !.pc = l]
    <3>2. pod' = [pod EXCEPT ![p] = x]
      BY <3>1
    <3>3. x.pc = l
      BY <1>2 DEF Processes
    <3>4. QED
      BY <3>2, <3>3
  <2>3. CASE Unclear(p, r)
    <3> DEFINE x == [pod[p] EXCEPT !.pc = "doubt", !.doubt = TRUE]
    <3>1. pod' = [pod EXCEPT ![p] = x] /\ pod[p].pc = "submitting"
      BY <2>3 DEF Unclear
    <3>2. x.pc = "doubt" /\ x.doubt /\ x.submission = pod[p].submission
      BY <1>2 DEF Processes
    <3>3. QED
      BY <3>1, <3>2
  <2>4. QED
    BY <2>1, <2>2, <2>3 DEF Return
<1>4. pod'[p] = x /\ \A q \in Pods \ {p} : pod'[q] = pod[q]
  BY <1>3, UpdatedPod
<1>5. FirstCall(p)'
  BY <1>3, <1>4 DEF FirstCall
<1>6. x.pc \in {"submitting", "doubt"} => Claim(x.submission) \notin refused
  BY <1>3 DEF Conclusive, Dropped
<1>7. ASSUME NEW c \in refused', c \notin refused
      PROVE  Dropped(c)'
  <2>1. Refused(p, r) /\ ~pod[p].doubt /\ c = Claim(pod[p].submission)
    BY <1>7 DEF Return, ReceiveChallenge, NoChallenge, Enrolled, Refused,
       Unclear
  <2>2. /\ pod[p].pc = "submitting"
        /\ SubmitEnrollment(r) = Err(EnrollmentRejected)
        /\ pod' = [pod EXCEPT ![p].pc = "start"]
    BY <2>1 DEF Refused
  <2>3. reply[p].body.type = "EnrollmentRejection" /\ late' = late
    BY <2>2, RejectionRead
  <2>4. c \notin registered /\ \A m \in late : ~Carries(m, c)
    BY <1>2, <2>1, <2>2, <2>3 DEF FirstCall
  <2>5. \A q \in Pods \ {p} :
          pod[q].pc \in {"submitting", "doubt"} =>
            Claim(pod[q].submission) # c
    BY <2>1, <2>2, DistinctClaims
  <2>6. pod'[p].pc = "start"
    BY <1>2, <2>2 DEF EInv, Typed, Processes
  <2>7. QED
    BY <1>1, <1>4, <2>3, <2>4, <2>5, <2>6 DEF Dropped, Carries, Verifies
<1>8. QED
  BY <1>1, <1>4, <1>5, <1>6, <1>7, ConclusiveStep

LEMMA EndOfCallConclusive ==
  ASSUME EInv, Fresh, Conclusive, NEW p \in Pods,
         Read(p) \/ GiveUp(p) \/ ReadDamaged(p)
  PROVE  Conclusive'
<1>1. CASE Read(p)
  <2>1. PICK r : r = reply[p]
    OBVIOUS
  <2>2. Return(p, r) /\ late' = late
    BY <1>1, <2>1 DEF Read
  <2>3. QED
    BY <2>1, <2>2, ReturnConclusive
<1>2. CASE GiveUp(p)
  <2>1. SubmitEnrollment(NoReply) # Err(EnrollmentRejected)
    BY RejectionRead DEF NoReply
  <2>2. QED
    BY <1>2, <2>1, ReturnConclusive DEF GiveUp
<1>3. CASE ReadDamaged(p)
  <2>1. PICK r \in DamagedReplies(reply[p]) : Return(p, r)
    BY <1>3 DEF ReadDamaged
  <2>2. late' = late /\ Sent(reply[p])
    BY <1>3 DEF ReadDamaged, EInv, ClientOK
  <2>3. SubmitEnrollment(r) # Err(EnrollmentRejected)
    BY <2>1, <2>2, DamagedIsNoRejection
  <2>4. QED
    BY <2>1, <2>2, <2>3, ReturnConclusive
<1>4. QED
  BY <1>1, <1>2, <1>3

(* What the kernel registers for m is the claim that m carries.            *)
LEMMA RegistersCarried ==
  ASSUME NEW m, Issue(m) \/ Register(m) \/ TurnDown(m)
  PROVE  \A c \in registered' : c \in registered \/ Carries(m, c)
  BY DEF Issue, Register, TurnDown, Admitted, Verifies, Carries, kernel

LEMMA ArriveLateConclusive ==
  ASSUME EInv, Fresh, Conclusive, NEW m \in late, ArriveLate(m)
  PROVE  Conclusive'
<1>1. /\ UNCHANGED <<pod, refused, call, reply>>
      /\ late' \subseteq late
  BY DEF ArriveLate, clients
<1>2. \A c \in registered' : c \in registered \/ Carries(m, c)
  BY RegistersCarried DEF ArriveLate
<1>3. ASSUME NEW c \in refused PROVE Dropped(c)'
  BY <1>1, <1>2 DEF Conclusive, Dropped, Carries, Verifies
<1>4. ASSUME NEW p \in Pods PROVE FirstCall(p)'
  <2>1. FirstCall(p)
    BY DEF Conclusive
  <2>2. QED
    BY <1>1, <1>2, <2>1 DEF FirstCall, Carries, Verifies
<1>5. QED
  BY <1>1, <1>3, <1>4 DEF Conclusive

LEMMA AnswerConclusive ==
  ASSUME EInv, Fresh, Conclusive, NEW p \in Pods, Answer(p)
  PROVE  Conclusive'
<1>1. /\ UNCHANGED <<pod, refused, late>>
      /\ call[p] # NoCall
      /\ Issue(call[p]) \/ Register(call[p]) \/ TurnDown(call[p])
      /\ \A q \in Pods \ {p} : call'[q] = call[q] /\ reply'[q] = reply[q]
      /\ call'[p] = NoCall
  BY DEF Answer, clients, EInv, Typed
<1>2. \A c \in registered' :
        \/ c \in registered
        \/ pod[p].pc = "submitting" /\ c = Claim(pod[p].submission)
  BY <1>1, RegistersCarried, CallCarries
<1>3. ASSUME NEW c \in refused PROVE Dropped(c)'
  <2>1. Dropped(c)
    BY DEF Conclusive
  <2>2. QED
    BY <1>1, <1>2, <2>1 DEF Dropped, Carries, Verifies
<1>4. ASSUME NEW q \in Pods \ {p} PROVE FirstCall(q)'
  <2>1. FirstCall(q)
    BY DEF Conclusive
  <2>2. pod[q].pc = "submitting" =>
          \A c \in registered' :
            c \in registered \/ c # Claim(pod[q].submission)
    BY <1>2, DistinctClaims
  <2>3. QED
    BY <1>1, <2>1, <2>2 DEF FirstCall, Carries, Verifies
<1>5. FirstCall(p)'
  <2>1. FirstCall(p)
    BY DEF Conclusive
  <2>2. reply'[p].body.type = "EnrollmentRejection" => UNCHANGED registered
    <3>1. \A st, b : Reply(st, b).body = b
      BY DEF Reply
    <3>2. \A i : EnrolledInstance(i).type # "EnrollmentRejection"
      BY DEF EnrolledInstance
    <3>3. CASE Register(call[p]) /\ \E st : reply' = [reply EXCEPT ![p] =
                 Reply(st, EnrolledInstance(call[p].body.instance_id))]
      <4>1. PICK st : reply' = [reply EXCEPT ![p] =
                 Reply(st, EnrolledInstance(call[p].body.instance_id))]
        BY <3>3
      <4> DEFINE i == call[p].body.instance_id
                 y == Reply(st, EnrolledInstance(i))
      <4> HIDE DEF i, y
      <4>2. reply' = [reply EXCEPT ![p] = y]
        BY <4>1, Zenon DEF i, y
      <4>3. reply'[p] = y
        BY <4>2, UpdatedReply
      <4>4. y.body = EnrolledInstance(i)
        BY <3>1, Zenon DEF y
      <4>5. QED
        BY <3>2, <4>3, <4>4
    <3>4. CASE Issue(call[p]) \/ TurnDown(call[p])
      BY <3>4 DEF Issue, TurnDown, kernel
    <3>5. QED
      BY <3>3, <3>4 DEF Answer
  <2>3. QED
    BY <1>1, <2>1, <2>2 DEF FirstCall, Carries, Verifies
<1>6. QED
  BY <1>1, <1>3, <1>4, <1>5 DEF Conclusive

LEMMA RestartConclusive ==
  ASSUME EInv, Fresh, Conclusive, NEW p \in Pods, Restart(p)
  PROVE  Conclusive'
<1> DEFINE x == Process(started + 1)
<1>1. /\ pod' = [pod EXCEPT ![p] = x]
      /\ late' = late \cup Abandoned(p)
      /\ UNCHANGED <<refused, registered>>
      /\ \A q \in Pods \ {p} : call'[q] = call[q] /\ reply'[q] = reply[q]
  BY DEF Restart, kernel, EInv, Typed
<1>2. x.pc = "start"
  BY DEF Process
<1> HIDE DEF x
<1>3. pod'[p] = x /\ \A q \in Pods \ {p} : pod'[q] = pod[q]
  BY <1>1, UpdatedPod
<1>4. FirstCall(p)'
  BY <1>2, <1>3 DEF FirstCall
<1>5. QED
  BY <1>1, <1>2, <1>3, <1>4, ConclusiveStep

LEMMA InitConclusive == Init => Conclusive
<1> SUFFICES ASSUME Init PROVE Conclusive
  OBVIOUS
<1>1. \A p \in Pods : pod[p].pc = "start"
  BY DEF Init, Process
<1>2. QED
  BY <1>1 DEF Init, Conclusive, FirstCall

LEMMA NextConclusive ==
  EInv /\ Fresh /\ Conclusive /\ [Next]_vars => Conclusive'
<1> SUFFICES ASSUME EInv, Fresh, Conclusive, [Next]_vars PROVE Conclusive'
  OBVIOUS
<1>1. CASE UNCHANGED vars
  BY <1>1 DEF vars, clients, kernel, Conclusive, Dropped, FirstCall, Carries,
     Verifies
<1>2. ASSUME NEW p \in Pods, Proceed(p) PROVE Conclusive'
  BY <1>2, BetweenCallsConclusive, SubmitConclusive, EndOfCallConclusive
     DEF Proceed
<1>3. ASSUME NEW p \in Pods,
             \/ Answer(p) \/ GiveUp(p) \/ ReadDamaged(p)
             \/ ChangeSubmission(p) \/ Restart(p)
      PROVE  Conclusive'
  BY <1>3, AnswerConclusive, EndOfCallConclusive, BetweenCallsConclusive,
     RestartConclusive
<1>4. ASSUME NEW m \in late, ArriveLate(m) PROVE Conclusive'
  BY <1>4, ArriveLateConclusive
<1>5. QED
  BY <1>1, <1>2, <1>3, <1>4 DEF Next

LEMMA SpecConclusive == Spec => []Conclusive
  BY InitConclusive, SpecEInv, SpecFresh, NextConclusive, PTL DEF Spec

(* EnrollmentRejected for a submission that was sent once is final: the    *)
(* claim is not registered and no call is left that could register it,     *)
(* however calls were changed, delayed or given up on.                     *)
THEOREM RejectionConcludes == Spec => []RejectionIsConclusive
<1>1. Conclusive => RejectionIsConclusive
  BY DEF Conclusive, Dropped, RejectionIsConclusive
<1>2. QED
  BY <1>1, SpecConclusive, PTL

-----------------------------------------------------------------------------
(* Type correctness.                                                       *)

(* A process waits on exactly one of a call and a reply.                   *)
Waiting(p) ==
  /\ call[p] # NoCall => reply[p] = NoReply
  /\ pod[p].pc \in {"asking", "submitting"} =>
       call[p] # NoCall \/ reply[p] # NoReply

Bounded ==
  /\ \A o \in open : o[2] \in Pods
  /\ faults \in 0 .. MAX_FAULTS

LEMMA NotWaiting ==
  ASSUME EInv, NEW p \in Pods, pod[p].pc \notin {"asking", "submitting"}
  PROVE  call[p] = NoCall /\ reply[p] = NoReply
  BY DEF EInv, CallOK, ClientOK

LEMMA ReplyIsSomething ==
  \A status, body : Reply(status, body) # NoReply
<1>1. \A status, body : Reply(status, body).answered = TRUE
  BY DEF Reply
<1>2. NoReply.answered = FALSE
  BY DEF NoReply
<1>3. QED
  BY <1>1, <1>2

LEMMA CallIsSomething ==
  \A post \in {"challenges", "enrollments"} : \A body :
    [post |-> post, body |-> body] # NoCall
  BY DEF NoCall

LEMMA WaitingStep ==
  ASSUME \A p \in Pods : Waiting(p), NEW p \in Pods,
         \A q \in Pods \ {p} : /\ pod'[q] = pod[q]
                               /\ call'[q] = call[q]
                               /\ reply'[q] = reply[q],
         Waiting(p)'
  PROVE  \A q \in Pods : Waiting(q)'
  BY DEF Waiting

LEMMA CallingWaiting ==
  ASSUME EInv, NEW p \in Pods, Ask(p) \/ Submit(p) \/ Resubmit(p)
  PROVE  Waiting(p)'
<1>1. reply'[p] = NoReply
  <2>1. pod[p].pc \notin {"asking", "submitting"}
    BY DEF Ask, Submit, Resubmit
  <2>2. UNCHANGED reply
    BY DEF Ask, Submit, Resubmit
  <2>3. QED
    BY <2>1, <2>2, NotWaiting
<1>2. PICK post \in {"challenges", "enrollments"} : \E body :
        call' = [call EXCEPT ![p] = [post |-> post, body |-> body]]
  BY DEF Ask, Submit, Resubmit
<1>3. PICK body :
        call' = [call EXCEPT ![p] = [post |-> post, body |-> body]]
  BY <1>2
<1>4. call'[p] = [post |-> post, body |-> body]
  BY <1>3, UpdatedCall
<1>5. call'[p] # NoCall
  BY <1>4, CallIsSomething
<1>6. QED
  BY <1>1, <1>5 DEF Waiting

LEMMA OthersWait ==
  ASSUME EInv, NEW p \in Pods,
         \/ Proceed(p) \/ Answer(p) \/ GiveUp(p) \/ ReadDamaged(p)
         \/ ChangeSubmission(p) \/ Restart(p)
  PROVE  \A q \in Pods \ {p} : /\ pod'[q] = pod[q]
                               /\ call'[q] = call[q]
                               /\ reply'[q] = reply[q]
<1>1. /\ pod \in [Pods -> Processes]
      /\ call = [q \in Pods |-> call[q]]
      /\ reply = [q \in Pods |-> reply[q]]
  BY DEF EInv, Typed
<1>2. ASSUME NEW r, Return(p, r)
      PROVE  \A q \in Pods \ {p} : /\ pod'[q] = pod[q]
                                   /\ call'[q] = call[q]
                                   /\ reply'[q] = reply[q]
  BY <1>1, <1>2 DEF Return, ReceiveChallenge, NoChallenge, Enrolled, Refused,
     Unclear
<1>3. CASE Proceed(p)
  BY <1>1, <1>2, <1>3 DEF Proceed, UseInjected, Ask, Submit, CannotSign,
     Resubmit, BeginAgain, Read
<1>4. CASE Answer(p)
  <2>1. PICK y : reply' = [reply EXCEPT ![p] = y]
    BY <1>4 DEF Answer
  <2>2. UNCHANGED pod /\ call' = [call EXCEPT ![p] = NoCall]
    BY <1>4 DEF Answer, clients
  <2>3. QED
    BY <2>1, <2>2, UpdatedCall, UpdatedReply
<1>5. CASE GiveUp(p) \/ ReadDamaged(p)
  BY <1>2, <1>5 DEF GiveUp, ReadDamaged
<1>6. CASE ChangeSubmission(p) \/ Restart(p)
  BY <1>1, <1>6 DEF ChangeSubmission, Restart, clients
<1>7. QED
  BY <1>3, <1>4, <1>5, <1>6

LEMMA PodWaiting ==
  ASSUME EInv, EInv', NEW p \in Pods, Waiting(p),
         \/ Proceed(p) \/ Answer(p) \/ GiveUp(p) \/ ReadDamaged(p)
         \/ ChangeSubmission(p) \/ Restart(p)
  PROVE  Waiting(p)'
<1>1. CASE Ask(p) \/ Submit(p) \/ Resubmit(p)
  BY <1>1, CallingWaiting
<1>2. CASE UseInjected(p) \/ CannotSign(p) \/ BeginAgain(p)
  <2>1. pod'[p].pc \in {"holding", "unusable", "start"}
    BY <1>2 DEF UseInjected, CannotSign, BeginAgain, EInv, Typed, Processes
  <2>2. call'[p] = NoCall /\ reply'[p] = NoReply
    <3>1. pod[p].pc \notin {"asking", "submitting"}
      BY <1>2 DEF UseInjected, CannotSign, BeginAgain
    <3>2. QED
      BY <1>2, <3>1, NotWaiting DEF UseInjected, CannotSign, BeginAgain
  <2>3. QED
    BY <2>1, <2>2 DEF Waiting
<1>3. CASE Read(p) \/ GiveUp(p) \/ ReadDamaged(p)
  <2>1. PICK r : Return(p, r)
    BY <1>3 DEF Read, GiveUp, ReadDamaged
  <2>2. pod'[p].pc \in {"holding", "start", "enrolled", "doubt"}
    BY <2>1 DEF Return, ReceiveChallenge, NoChallenge, Enrolled, Refused,
       Unclear, EInv, Typed, Processes
  <2>3. call'[p] = NoCall /\ reply'[p] = NoReply
    BY <2>1, UpdatedCall, UpdatedReply DEF Return
  <2>4. QED
    BY <2>2, <2>3 DEF Waiting
<1>4. CASE Answer(p)
  <2>1. PICK status, body :
          reply' = [reply EXCEPT ![p] = Reply(status, body)]
    BY <1>4 DEF Answer
  <2> DEFINE y == Reply(status, body)
  <2>0. y # NoReply
    BY ReplyIsSomething, Zenon
  <2> HIDE DEF y
  <2>2. reply' = [reply EXCEPT ![p] = y]
    BY <2>1, Zenon DEF y
  <2>3. call'[p] = NoCall /\ reply'[p] = y
    <3>1. call' = [call EXCEPT ![p] = NoCall]
      BY <1>4 DEF Answer
    <3>2. QED
      BY <2>2, <3>1, UpdatedCall, UpdatedReply
  <2>4. QED
    BY <2>0, <2>3 DEF Waiting
<1>5. CASE ChangeSubmission(p)
  <2>1. /\ UNCHANGED <<pod, reply>>
        /\ reply[p] = NoReply
        /\ pod[p].pc = "submitting"
    <3>1. call[p] # NoCall /\ call[p].post = "enrollments"
      BY <1>5 DEF ChangeSubmission
    <3>2. CallOK(p)
      BY DEF EInv
    <3>3. pod[p].pc = "submitting"
      BY <3>1, <3>2 DEF CallOK
    <3>4. QED
      BY <1>5, <3>1, <3>3 DEF ChangeSubmission, clients, Waiting
  <2>2. call'[p] # NoCall
    <3>1. call'[p].post = "enrollments"
      BY <1>5 DEF ChangeSubmission, EInv, Typed, CallOK
    <3>2. QED
      BY <3>1 DEF NoCall
  <2>3. QED
    BY <2>1, <2>2 DEF Waiting
<1>6. CASE Restart(p)
  <2>1. pod'[p].pc = "start"
    <3>1. Process(started + 1).pc = "start"
      BY DEF Process
    <3>2. QED
      BY <1>6, <3>1, UpdatedPod DEF Restart
  <2>2. call'[p] = NoCall /\ reply'[p] = NoReply
    BY <1>6, UpdatedCall, UpdatedReply DEF Restart
  <2>3. QED
    BY <2>1, <2>2 DEF Waiting
<1>7. QED
  BY <1>1, <1>2, <1>3, <1>4, <1>5, <1>6 DEF Proceed

LEMMA BoundedStep == Bounded /\ [Next]_vars => Bounded'
<1> SUFFICES ASSUME Bounded, [Next]_vars PROVE Bounded'
  OBVIOUS
<1>1. ASSUME UNCHANGED open,
             UNCHANGED faults \/ Fault
      PROVE  Bounded'
  <2>1. /\ faults \in 0 .. MAX_FAULTS
        /\ faults' = faults \/ (faults < MAX_FAULTS /\ faults' = faults + 1)
    BY <1>1, Zenon DEF Bounded, Fault
  <2>2. faults' \in 0 .. MAX_FAULTS
    BY <2>1
  <2>3. QED
    BY <1>1, <2>2, Zenon DEF Bounded
<1>2. CASE UNCHANGED vars
  BY <1>1, <1>2 DEF vars, kernel
<1>3. ASSUME NEW p \in Pods, Proceed(p) PROVE Bounded'
  BY <1>1, <1>3 DEF Proceed, UseInjected, Ask, Submit, CannotSign, Resubmit,
     BeginAgain, Read, Return, kernel
<1>4. ASSUME NEW p \in Pods,
             GiveUp(p) \/ ReadDamaged(p) \/ ChangeSubmission(p) \/ Restart(p)
      PROVE  Bounded'
  BY <1>1, <1>4 DEF GiveUp, ReadDamaged, ChangeSubmission, Restart, Return,
     kernel
<1>5. ASSUME NEW m, Issue(m) \/ Register(m) \/ TurnDown(m), UNCHANGED faults
      PROVE  Bounded'
  <2>1. CASE Issue(m)
    <3> DEFINE o == <<issued + 1, m.body.workload_token>>
    <3>1. o[2] \in Pods /\ open' = open \cup {o}
      BY <2>1 DEF Issue, Vouched
    <3> HIDE DEF o
    <3>2. QED
      BY <1>5, <3>1 DEF Bounded
  <2>2. CASE Register(m) \/ TurnDown(m)
    BY <1>5, <2>2 DEF Bounded, Register, TurnDown, kernel
  <2>3. QED
    BY <1>5, <2>1, <2>2
<1>6. ASSUME NEW p \in Pods, Answer(p) PROVE Bounded'
  BY <1>5, <1>6 DEF Answer
<1>7. ASSUME NEW m \in late, ArriveLate(m) PROVE Bounded'
  BY <1>5, <1>7 DEF ArriveLate
<1>8. QED
  BY <1>2, <1>3, <1>4, <1>6, <1>7 DEF Next

Waits == (\A p \in Pods : Waiting(p)) /\ Bounded

LEMMA InitWaits == Init => Waits
<1> SUFFICES ASSUME Init PROVE Waits
  OBVIOUS
<1>1. \A p \in Pods : pod[p].pc = "start"
  BY DEF Init, Process
<1>2. \A p \in Pods : Waiting(p)
  BY <1>1 DEF Init, Waiting
<1>3. \A o \in open : o[2] \in Pods
  <2>1. ASSUME NEW q \in INJECTED, NEW o, o = <<q, q>>
        PROVE  o[2] \in Pods
    <3>1. o[2] = q
      BY <2>1
    <3>2. QED
      BY <3>1
  <2>2. \A o \in open : \E q \in INJECTED : o = <<q, q>>
    BY DEF Init
  <2>3. QED
    BY <2>1, <2>2
<1>4. faults = 0
  BY DEF Init
<1>5. faults \in 0 .. MAX_FAULTS
  BY <1>4
<1>6. QED
  BY <1>2, <1>3, <1>5, Zenon DEF Waits, Bounded

LEMMA NextWaits == EInv /\ EInv' /\ Waits /\ [Next]_vars => Waits'
<1> SUFFICES ASSUME EInv, EInv', Waits, [Next]_vars PROVE Waits'
  OBVIOUS
<1>1. Bounded'
  BY BoundedStep DEF Waits
<1>2. CASE UNCHANGED <<pod, call, reply>>
  BY <1>1, <1>2 DEF Waits, Waiting
<1>3. ASSUME NEW p \in Pods,
             \/ Proceed(p) \/ Answer(p) \/ GiveUp(p) \/ ReadDamaged(p)
             \/ ChangeSubmission(p) \/ Restart(p)
      PROVE  Waits'
  <2>1. Waiting(p)'
    BY <1>3, PodWaiting DEF Waits
  <2>2. \A q \in Pods : Waiting(q)'
    BY <1>3, <2>1, OthersWait, WaitingStep DEF Waits
  <2>3. QED
    BY <1>1, <2>2 DEF Waits
<1>4. QED
  BY <1>2, <1>3 DEF Next, ArriveLate, vars, clients

(* The state stays of its type, a process waits on exactly one of a call   *)
(* and a reply, and the kernel's open challenges are of its own pods.      *)
THEOREM ExchangeTypeCorrect == Spec => []TypeOK
<1>1. EInv /\ Fresh /\ Waits => TypeOK
  <2> SUFFICES ASSUME EInv, Fresh, Waits PROVE TypeOK
    OBVIOUS
  <2>1. \A p \in Pods :
          /\ pod[p] \in Processes
          /\ OwnProcess(p)
          /\ Waiting(p)
          /\ call[p] # NoCall \/ reply[p] # NoReply =>
               pod[p].pc \in {"asking", "submitting"}
    BY DEF EInv, Typed, Fresh, Waits, CallOK, ClientOK
  <2>2. \A o \in open : o[1] \in 1 .. issued /\ o[2] \in Pods
    BY DEF EInv, KernelOK, Waits, Bounded
  <2>3. settings \in [Pods -> SETTINGS] /\ faults \in 0 .. MAX_FAULTS
    BY DEF EInv, Typed, Waits, Bounded
  <2>4. QED
    BY <2>1, <2>2, <2>3 DEF TypeOK, Processes, OwnProcess, Waiting
<1>2. Spec => []Waits
  BY InitWaits, SpecEInv, NextWaits, PTL DEF Spec
<1>3. QED
  BY <1>1, <1>2, SpecEInv, SpecFresh, PTL

-----------------------------------------------------------------------------
(* Refinement.                                                             *)

(* A step that registers nothing is a step of processes making claims.     *)
LEMMA ClaimsGrow ==
  ASSUME submitted \subseteq submitted', UNCHANGED registered
  PROVE  Promise!Next
<1>1. {Claim(s) : s \in submitted} \subseteq {Claim(s) : s \in submitted'}
  OBVIOUS
<1>2. {Claim(s) : s \in submitted}' = {Claim(s) : s \in submitted'}
  BY DEF Claim, Trim
<1>3. QED
  BY <1>1, <1>2 DEF Promise!Next, Promise!MakeClaims

(* The kernel handles a call for a claim that a process made.              *)
LEMMA KernelRefines ==
  ASSUME EInv, NEW m, LateOK(m), UNCHANGED submitted,
         Issue(m) \/ Register(m) \/ TurnDown(m)
  PROVE  Promise!Next
<1>1. CASE Issue(m) \/ TurnDown(m)
  BY <1>1, ClaimsGrow DEF Issue, TurnDown, kernel
<1>2. CASE Register(m)
  <2>1. PICK s \in submitted : SameOrigin(m.body, s)
    BY <1>2 DEF Register, LateOK
  <2>2. Genuine(s) /\ KernelOK
    BY DEF EInv
  <2>3. Claim(m.body) = Claim(s)
    BY <1>2, <2>1, <2>2, AdmittedIsClaimed DEF Register
  <2>4. \A r \in registered : r.challenge # Claim(m.body).challenge
    BY <1>2, <2>1, <2>2, RegisterKernelOK DEF SameOrigin
  <2>5. registered' = registered \cup {Claim(m.body)}
    BY <1>2 DEF Register
  <2>6. UNCHANGED {Claim(o) : o \in submitted}
    BY DEF Claim, Trim
  <2>7. Promise!Register(Claim(s))
    BY <2>3, <2>4, <2>5, <2>6 DEF Promise!Register
  <2>8. QED
    BY <2>7 DEF Promise!Next
<1>3. QED
  BY <1>1, <1>2

LEMMA StepRefines ==
  EInv /\ [Next]_vars => [Promise!Next]_(Promise!vars)
<1> SUFFICES ASSUME EInv, [Next]_vars PROVE [Promise!Next]_(Promise!vars)
  OBVIOUS
<1>1. CASE UNCHANGED vars
  <2>1. UNCHANGED <<submitted, registered>>
    BY <1>1 DEF vars, clients, kernel
  <2>2. QED
    BY <2>1, ClaimsGrow
<1>2. ASSUME NEW p \in Pods, Proceed(p) PROVE Promise!Next
  <2>1. submitted \subseteq submitted' /\ UNCHANGED registered
    BY <1>2 DEF Proceed, UseInjected, Ask, Submit, CannotSign, Resubmit,
       BeginAgain, Read, Return, kernel
  <2>2. QED
    BY <2>1, ClaimsGrow
<1>3. ASSUME NEW p \in Pods, Answer(p) PROVE Promise!Next
  <2>1. call[p] # NoCall /\ UNCHANGED submitted
    BY <1>3 DEF Answer, clients
  <2>2. LateOK(call[p])
    BY <2>1, AbandonedIsLate DEF Abandoned
  <2>3. Issue(call[p]) \/ Register(call[p]) \/ TurnDown(call[p])
    BY <1>3 DEF Answer
  <2>4. QED
    BY <2>1, <2>2, <2>3, KernelRefines
<1>4. ASSUME NEW p \in Pods,
             GiveUp(p) \/ ReadDamaged(p) \/ ChangeSubmission(p) \/ Restart(p)
      PROVE  Promise!Next
  <2>1. UNCHANGED <<submitted, registered>>
    BY <1>4 DEF GiveUp, ReadDamaged, ChangeSubmission, Restart, Return,
       clients, kernel
  <2>2. QED
    BY <2>1, ClaimsGrow
<1>5. ASSUME NEW m \in late, ArriveLate(m) PROVE Promise!Next
  <2>1. LateOK(m) /\ UNCHANGED submitted
    BY <1>5 DEF EInv, ArriveLate, clients
  <2>2. QED
    BY <1>5, <2>1, KernelRefines DEF ArriveLate
<1>6. QED
  BY <1>1, <1>2, <1>3, <1>4, <1>5 DEF Next

(* Enrollment promises no more than it says: only what some process        *)
(* claimed is registered, and each challenge at most once.                 *)
THEOREM ExchangeImplementsRegistration == Spec => RegistrationSpec
<1>1. Init => Promise!Init
  BY DEF Init, Promise!Init
<1>2. QED
  BY <1>1, SpecEInv, StepRefines, PTL DEF Spec, RegistrationSpec, Promise!Spec
=============================================================================
