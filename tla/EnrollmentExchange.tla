------------------------- MODULE EnrollmentExchange -------------------------
(***************************************************************************)
(* Pods enroll with a kernel.  A process asks for a challenge, or takes    *)
(* the one an operator put into its environment, signs a proof with the    *)
(* credential it generated at start, and submits it.                       *)
(*                                                                         *)
(* What a process computes is the crate's code (Enrollment).  The kernel   *)
(* is external: it does what the crate's documentation says of it, that a  *)
(* challenge is single-use, that the token names the pod and with it the   *)
(* service, and that the proof is recomputed from the kernel's own trimmed *)
(* copies of the fields.  Also external is the process's choice after a    *)
(* failed call: submit again as it is, or begin again with a challenge.    *)
(*                                                                         *)
(* Each call is one blocking HTTP exchange.  A caller may give up on it;   *)
(* the kernel may then handle it later all the same, or never.             *)
(***************************************************************************)
EXTENDS Enrollment

CONSTANTS
  PODS,          \* number of pods
  SERVICE,       \* the service the pods' tokens are bound to
  OTHER_SERVICE, \* another service
  SETTINGS,      \* endpoint, and whether a pod UID and a token are set
  INJECTED,      \* pods with a challenge in their environment
  ALTERABLE,     \* names of the submission fields that may change in transit
  NONE,          \* no challenge, no submission
  MAX_FAULTS     \* bound: lost or damaged replies, changed calls, restarts

Pods == 1 .. PODS

SubmissionFields ==
  {"service_id", "instance_id", "key_id", "algorithm", "public_key",
   "challenge", "endpoint", "pod_uid", "workload_token", "signature"}

ASSUME ExchangeAssumption ==
  /\ PODS \in Nat
  /\ \A s \in SETTINGS :
       s.endpoint = [padded |-> s.endpoint.padded, text |-> s.endpoint.text]
  /\ INJECTED \subseteq Pods
  /\ ALTERABLE \subseteq SubmissionFields
  /\ MAX_FAULTS \in Nat
  /\ NONE \notin Nat
  /\ SHORT \notin Nat
  /\ GARBLED \notin [base64url : Nat \cup {SHORT}]

VARIABLES
  settings,      \* what each pod is configured with
  pod,           \* the process now running in each pod
  started,       \* number of processes started
  call,          \* the call a pod's process waits on, until the kernel acts
  reply,         \* the kernel's reply on its way to the waiting process
  late,          \* calls given up on, which may still reach the kernel
  open,          \* <<challenge, pod>>: issued and not yet used
  issued,        \* last challenge drawn; challenges are 1, 2, 3, ...
  registered,    \* history: claims the kernel registered
  submitted,     \* history: submissions signed
  refused,       \* history: claims refused at their first submission
  faults         \* faults so far

(* What stands in call where a process waits on none; in reply it is       *)
(* NoReply.                                                                *)
NoCall == [post |-> "none"]

clients == <<pod, started, submitted, refused>>
kernel  == <<open, issued, registered>>
vars == <<settings, clients, call, reply, late, kernel, faults>>

(* What pod p hands to the crate; UID and token may be missing.            *)
Endpoint(p) == settings[p].endpoint
PodUid(p) ==
  [padded |-> TRUE, text |-> IF settings[p].pod_uid THEN p ELSE EMPTY]
Token(p) == IF settings[p].token THEN p ELSE EMPTY

Process(n) ==
  [pc |-> "start", process |-> n, challenge |-> NONE, submission |-> NONE,
   doubt |-> FALSE, tried |-> FALSE]

(* What a submission asks to register: its fields without the proof.       *)
Claim(s) ==
  [service_id |-> s.service_id, instance_id |-> s.instance_id,
   key_id |-> s.key_id, public_key |-> s.public_key,
   challenge |-> s.challenge, endpoint |-> Trim(s.endpoint),
   pod_uid |-> Trim(s.pod_uid), workload_token |-> s.workload_token]

(***************************************************************************)
(* A process's place in its enrollment: start, asking for a challenge,     *)
(* holding one, submitting, in doubt after a call that told it nothing,    *)
(* enrolled, or unusable because sign refuses what it is configured with.  *)
(***************************************************************************)
TypeOK ==
  /\ settings \in [Pods -> SETTINGS]
  /\ \A p \in Pods :
       /\ pod[p].pc \in {"start", "asking", "holding", "submitting",
                         "doubt", "enrolled", "unusable"}
       /\ pod[p].process \in 1 .. started
       /\ pod[p].challenge \in Nat \cup {NONE}
       /\ pod[p].submission \in submitted \cup {NONE}
       /\ call[p] # NoCall => reply[p] = NoReply
       /\ pod[p].pc \in {"asking", "submitting"}
            <=> (call[p] # NoCall \/ reply[p] # NoReply)
  /\ \A o \in open : o[1] \in 1 .. issued /\ o[2] \in Pods
  /\ faults \in 0 .. MAX_FAULTS

Init ==
  /\ settings \in [Pods -> SETTINGS]
  /\ pod = [p \in Pods |-> Process(p)]
  /\ started = PODS
  /\ call = [p \in Pods |-> NoCall]
  /\ reply = [p \in Pods |-> NoReply]
  /\ late = {}
  /\ open = {<<p, p>> : p \in INJECTED}
  /\ issued = PODS
  /\ registered = {}
  /\ submitted = {}
  /\ refused = {}
  /\ faults = 0

-----------------------------------------------------------------------------
(* A process.                                                              *)

(* The challenge in the environment is tried once by each process.         *)
UseInjected(p) ==
  /\ pod[p].pc = "start"
  /\ p \in INJECTED /\ ~pod[p].tried
  /\ pod' = [pod EXCEPT ![p].pc = "holding", ![p].challenge = p,
                        ![p].doubt = FALSE, ![p].tried = TRUE]
  /\ UNCHANGED <<settings, started, submitted, refused, call, reply, late,
                 kernel, faults>>

Ask(p) ==
  /\ pod[p].pc = "start"
  /\ p \in INJECTED => pod[p].tried
  /\ pod' = [pod EXCEPT ![p].pc = "asking"]
  /\ call' = [call EXCEPT ![p] =
       [post |-> "challenges",
        body |-> ChallengeRequest(PodUid(p), Token(p))]]
  /\ UNCHANGED <<settings, started, submitted, refused, reply, late, kernel,
                 faults>>

Signed(p) ==
  SignSubmission(Generate(SERVICE, pod[p].process), pod[p].challenge,
                 Endpoint(p), PodUid(p), Token(p))

Submit(p) ==
  /\ pod[p].pc = "holding"
  /\ Signed(p).ok
  /\ pod' = [pod EXCEPT ![p].pc = "submitting",
                        ![p].submission = Signed(p).value]
  /\ submitted' = submitted \cup {Signed(p).value}
  /\ call' = [call EXCEPT ![p] =
                [post |-> "enrollments", body |-> Signed(p).value]]
  /\ UNCHANGED <<settings, started, refused, reply, late, kernel, faults>>

CannotSign(p) ==
  /\ pod[p].pc = "holding"
  /\ ~Signed(p).ok
  /\ pod' = [pod EXCEPT ![p].pc = "unusable"]
  /\ UNCHANGED <<settings, started, submitted, refused, call, reply, late,
                 kernel, faults>>

(* After a call that told it nothing a process tries either way.           *)
Resubmit(p) ==
  /\ pod[p].pc = "doubt"
  /\ pod' = [pod EXCEPT ![p].pc = "submitting"]
  /\ call' = [call EXCEPT ![p] =
                [post |-> "enrollments", body |-> pod[p].submission]]
  /\ UNCHANGED <<settings, started, submitted, refused, reply, late, kernel,
                 faults>>

BeginAgain(p) ==
  /\ pod[p].pc = "doubt"
  /\ pod' = [pod EXCEPT ![p].pc = "start"]
  /\ UNCHANGED <<settings, started, submitted, refused, call, reply, late,
                 kernel, faults>>

-----------------------------------------------------------------------------
(* What a process makes of r, the end of the call it waits on.             *)

ReceiveChallenge(p, r) ==
  /\ pod[p].pc = "asking"
  /\ LET issue == RequestEnrollmentChallenge(r)
         bytes == ChallengeBytes(issue.value)
     IN /\ issue.ok
        /\ bytes.ok
        /\ pod' = [pod EXCEPT ![p].pc = "holding", ![p].doubt = FALSE,
                              ![p].challenge = bytes.value]
  /\ UNCHANGED refused

NoChallenge(p, r) ==
  /\ pod[p].pc = "asking"
  /\ LET issue == RequestEnrollmentChallenge(r)
     IN issue.ok => ~ChallengeBytes(issue.value).ok
  /\ pod' = [pod EXCEPT ![p].pc = "start"]
  /\ UNCHANGED refused

Enrolled(p, r) ==
  /\ pod[p].pc = "submitting"
  /\ SubmitEnrollment(r).ok
  /\ pod' = [pod EXCEPT ![p].pc = "enrolled"]
  /\ UNCHANGED refused

Refused(p, r) ==
  /\ pod[p].pc = "submitting"
  /\ SubmitEnrollment(r) = Err(EnrollmentRejected)
  /\ pod' = [pod EXCEPT ![p].pc = "start"]
  /\ refused' = IF pod[p].doubt THEN refused
                ELSE refused \cup {Claim(pod[p].submission)}

Unclear(p, r) ==
  /\ pod[p].pc = "submitting"
  /\ SubmitEnrollment(r) \in {Err(Transport), Err(MalformedEnrollmentResponse)}
  /\ pod' = [pod EXCEPT ![p].pc = "doubt", ![p].doubt = TRUE]
  /\ UNCHANGED refused

Return(p, r) ==
  /\ \/ ReceiveChallenge(p, r)
     \/ NoChallenge(p, r)
     \/ Enrolled(p, r)
     \/ Refused(p, r)
     \/ Unclear(p, r)
  /\ call' = [call EXCEPT ![p] = NoCall]
  /\ reply' = [reply EXCEPT ![p] = NoReply]
  /\ UNCHANGED <<settings, started, submitted, kernel>>

(* The reply arrives whole.                                                *)
Read(p) ==
  /\ reply[p] # NoReply
  /\ Return(p, reply[p])
  /\ UNCHANGED <<late, faults>>

-----------------------------------------------------------------------------
(* The kernel.                                                             *)

(* The token names a pod, and the pod UID must be that pod's.              *)
Vouched(body) ==
  body.workload_token \in Pods /\ Trim(body.pod_uid).text = body.workload_token

Key(s) ==
  ClientPublicKey(s.service_id, s.instance_id, s.key_id,
                  s.public_key.base64url)

(* The proof message for the fields of s.                                  *)
ProofOf(s) ==
  ProofMessage(s.challenge.base64url, Key(s), Trim(s.endpoint),
               Trim(s.pod_uid), s.workload_token)

Admitted(s) ==
  /\ Vouched(s)
  /\ s.service_id = SERVICE
  /\ s.algorithm = "ed25519"
  /\ <<s.challenge.base64url, s.workload_token>> \in open
  /\ VerifyBytes(Key(s).public_key, ProofOf(s), s.signature.base64url).ok

(* A kernel step for call m.  An instance that is registered already is    *)
(* registered again under the new challenge: its lease gets a revision.    *)
Issue(m) ==
  /\ m.post = "challenges"
  /\ Vouched(m.body)
  /\ issued' = issued + 1
  /\ open' = open \cup {<<issued + 1, m.body.workload_token>>}
  /\ UNCHANGED registered

Register(m) ==
  /\ m.post = "enrollments"
  /\ Admitted(m.body)
  /\ open' = open \ {<<m.body.challenge.base64url, m.body.workload_token>>}
  /\ registered' = registered \cup {Claim(m.body)}
  /\ UNCHANGED issued

TurnDown(m) ==
  /\ m.post = "challenges" => ~Vouched(m.body)
  /\ m.post = "enrollments" => ~Admitted(m.body)
  /\ UNCHANGED kernel

Answer(p) ==
  /\ call[p] # NoCall
  /\ \E status \in {200, 201, 403} :
       \/ /\ status # 403
          /\ Issue(call[p])
          /\ reply' = [reply EXCEPT ![p] =
               Reply(status, IssuedChallenge(issued + 1))]
       \/ /\ status # 403
          /\ Register(call[p])
          /\ reply' = [reply EXCEPT ![p] =
               Reply(status, EnrolledInstance(call[p].body.instance_id))]
       \/ /\ status = 403
          /\ TurnDown(call[p])
          /\ reply' = [reply EXCEPT ![p] =
               Reply(status, EnrollmentRejection)]
  /\ call' = [call EXCEPT ![p] = NoCall]
  /\ UNCHANGED <<settings, clients, late, faults>>

(* A call nobody waits on any more reaches the kernel.                     *)
ArriveLate(m) ==
  /\ Issue(m) \/ Register(m) \/ TurnDown(m)
  /\ late' = late \ {m}
  /\ UNCHANGED <<settings, clients, call, reply, faults>>

-----------------------------------------------------------------------------
(* Faults.                                                                 *)

Fault == faults < MAX_FAULTS /\ faults' = faults + 1

Abandoned(p) == {call[p]} \ {NoCall}

(* The call ends with nothing, before or after the kernel has acted.       *)
GiveUp(p) ==
  /\ Fault
  /\ call[p] # NoCall \/ reply[p] # NoReply
  /\ Return(p, NoReply)
  /\ late' = late \cup Abandoned(p)

(* A reply cut short, unreadable, or from a gateway in front of the kernel.*)
DamagedReplies(r) ==
  {CutShort(r), [r EXCEPT !.body = GARBLED],
   Reply(503, GARBLED)}
  \cup (IF r.body.type = "IssuedChallenge"
          THEN {[r EXCEPT !.body.challenge = GARBLED],
                [r EXCEPT !.body.challenge = Base64(SHORT)]}
          ELSE {})

ReadDamaged(p) ==
  /\ Fault
  /\ reply[p] # NoReply
  /\ \E r \in DamagedReplies(reply[p]) : Return(p, r)
  /\ UNCHANGED late

(***************************************************************************)
(* One field of a submission changes on its way.  submit_enrollment does   *)
(* not compare the instance in the reply with its own, so a call that      *)
(* became another one in every field would go unnoticed.                   *)
(***************************************************************************)
Substitutes ==
  [service_id     |-> {OTHER_SERVICE},
   instance_id    |-> {InstanceId(n) : n \in 1 .. started},
   key_id         |-> {KeyId(n) : n \in 1 .. started},
   algorithm      |-> {"rsa"},
   public_key     |-> {Base64(KeyBytes(n)) : n \in 1 .. started},
   challenge      |-> {Base64(c) : c \in 1 .. issued},
   endpoint       |-> {s.endpoint : s \in SETTINGS},
   pod_uid        |-> {[padded |-> b, text |-> p] : b \in BOOLEAN, p \in Pods},
   workload_token |-> Pods,
   signature      |-> {s.signature : s \in submitted}]

ChangeSubmission(p) ==
  /\ Fault
  /\ call[p] # NoCall
  /\ call[p].post = "enrollments"
  /\ call[p].body = pod[p].submission
  /\ \E field \in ALTERABLE : \E value \in Substitutes[field] :
       call' = [call EXCEPT ![p].body[field] = value]
  /\ UNCHANGED <<settings, clients, reply, late, kernel>>

(* A process that starts generates a new credential and knows nothing.     *)
Restart(p) ==
  /\ Fault
  /\ started' = started + 1
  /\ pod' = [pod EXCEPT ![p] = Process(started + 1)]
  /\ call' = [call EXCEPT ![p] = NoCall]
  /\ reply' = [reply EXCEPT ![p] = NoReply]
  /\ late' = late \cup Abandoned(p)
  /\ UNCHANGED <<settings, submitted, refused, kernel>>

-----------------------------------------------------------------------------
Proceed(p) ==
  \/ UseInjected(p)
  \/ Ask(p)
  \/ Submit(p)
  \/ CannotSign(p)
  \/ Resubmit(p)
  \/ BeginAgain(p)
  \/ Read(p)

Next ==
  \/ \E p \in Pods :
       Proceed(p) \/ Answer(p) \/ GiveUp(p) \/ ReadDamaged(p)
         \/ ChangeSubmission(p) \/ Restart(p)
  \/ \E m \in late : ArriveLate(m)

Spec == Init /\ [][Next]_vars

(***************************************************************************)
(* Fairness: a process that can go on does, and a call it waits on is      *)
(* answered.  Nothing is assumed of faults, which are bounded, and of      *)
(* calls given up on, which may never arrive.                              *)
(***************************************************************************)
FairSpec == Spec /\ \A p \in Pods : WF_vars(Proceed(p)) /\ WF_vars(Answer(p))
-----------------------------------------------------------------------------
(* A process that submit_enrollment told it is enrolled is: the kernel has *)
(* registered its own key, at the endpoint and for the pod it named, even  *)
(* if the call was changed on the way or answered through a gateway.       *)
OkMeansRegistered ==
  \A p \in Pods :
    pod[p].pc = "enrolled" => Claim(pod[p].submission) \in registered

(* EnrollmentRejected for a submission that was sent once is conclusive:   *)
(* the claim was not registered and never will be, so a process may drop   *)
(* it.  Only Transport and MalformedEnrollmentResponse leave it in doubt.  *)
RejectionIsConclusive == refused \cap registered = {}

(* However replies are lost or damaged and processes restart, a pod whose  *)
(* settings are in order is enrolled in the end, with no operator: also    *)
(* one that restarts with a used challenge in its environment.             *)
WellSet(p) ==
  /\ Trim(Endpoint(p)).text \in HTTPS_TEXTS
  /\ settings[p].pod_uid
  /\ settings[p].token

EveryPodEnrolls == \A p \in Pods : WellSet(p) => <>[](pod[p].pc = "enrolled")

(* What the head of enrollment.rs says: a challenge only ever reaches a    *)
(* candidate through an operator.  See the run that refutes it.            *)
ChallengesComeFromOperators ==
  \A p \in Pods : pod[p].challenge # NONE => pod[p].challenge \in INJECTED

-----------------------------------------------------------------------------
(* Seen from outside, the kernel registers only what a process claimed,    *)
(* each challenge at most once.                                            *)
Promise ==
  INSTANCE Registration WITH
    claimed  <- {Claim(s) : s \in submitted},
    registry <- registered

RegistrationSpec == Promise!Spec
=============================================================================
