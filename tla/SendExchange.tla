---------------------------- MODULE SendExchange ----------------------------
(***************************************************************************)
(* Client::send between callers that try again and a service that must not *)
(* act twice.                                                              *)
(*                                                                         *)
(* A caller signs a request and sends it.  Told anything but that it was   *)
(* acted on (Transport, or an answer that is not the service's), it sends  *)
(* the same request again while that lasts, and then signs anew.  The      *)
(* service verifies with verify_incoming and remembers what                *)
(* VerifiedRequest tells it of the requests it acted on, for as long as    *)
(* they could verify again.  The crate has neither loop nor memory: both   *)
(* are its users'.  Between the two are the HTTP client, which normalises  *)
(* the target and follows redirects, gateways and others that answer in    *)
(* the service's place, and calls that arrive after their caller gave up.  *)
(***************************************************************************)
EXTENDS Verify, Http, Sequences, FiniteSets

CONSTANTS
  SERVICE,     \* the service ID the callers sign as
  CALLERS,     \* threads that call send
  PURPOSES,    \* what each caller asks for: a function to request parts
  NONCES,
  CANONICAL,   \* target URI |-> as the HTTP client requests it, or NONE
  ELSEWHERE,   \* where redirects lead, or NONE if there are none
  WORKERS,     \* threads of the service
  NONE,
  MAX_CLOCK    \* bound: last clock value

ASSUME SendAssumption ==
  /\ PURPOSES \in [CALLERS -> RequestParts]
  /\ CANONICAL \in [TargetUris -> TargetUris \cup {NONE}]
  /\ ELSEWHERE \in TargetUris \cup {NONE}
  /\ NONE \notin CALLERS
  /\ MAX_CLOCK \in Nat
  /\ MAX_CLOCK + SIGNATURE_VALIDITY_SECONDS <= I64_MAX

VARIABLES
  clock,   \* Unix time, the same for all
  call,    \* what each caller is doing
  late,    \* requests under way whose caller gave up
  work,    \* what each worker of the service is doing
  memory,  \* the service's: VerifiedRequests it acted on
  asked,   \* history: every request signed
  log      \* history: the requests acted on

vars == <<clock, call, late, work, memory, asked, log>>

MyCredential == Generate(SERVICE, 1)

(***************************************************************************)
(* A caller: idle before its first request, ready to send, waiting in      *)
(* send, or returned from it with a result.  request is the SignedRequest  *)
(* it holds; wire the request as it left the HTTP client, until somebody   *)
(* takes it; reply what has been sent back; served whether the service     *)
(* sent it, which neither the caller nor send can tell.                    *)
(***************************************************************************)
NoCall ==
  [pc |-> "idle", request |-> NONE, wire |-> NONE, reply |-> NONE,
   served |-> FALSE, result |-> NONE]

(* A worker: what it verifies, the time it copied, and who waits for it.   *)
NoWork == [request |-> NONE, now |-> 0, caller |-> NONE]

Init ==
  /\ clock = 0
  /\ call = [c \in CALLERS |-> NoCall]
  /\ late = {}
  /\ work = [w \in WORKERS |-> NoWork]
  /\ memory = {}
  /\ asked = {}
  /\ log = << >>

Tick ==
  /\ clock < MAX_CLOCK
  /\ clock' = clock + 1
  /\ UNCHANGED <<call, late, work, memory, asked, log>>

-----------------------------------------------------------------------------
(* What send makes of what comes back.  Slips the runs must notice: a body *)
(* that breaks off is returned as far as it goes, and a status that is no  *)
(* success is an error.                                                    *)
SendUnfinished(reply) ==
  IF ~reply.answered
    THEN Err(Transport)
    ELSE Ok([status |-> reply.status,
             body |-> IF reply.whole THEN reply.body ELSE GARBLED])

SendSuccessOnly(reply) ==
  IF ~reply.answered \/ ~reply.whole \/ ~IsSuccess(reply.status)
    THEN Err(Transport)
    ELSE Ok([status |-> reply.status, body |-> reply.body])

Send(reply) ==
  IF ~reply.answered \/ ~reply.whole
    THEN Err(Transport)
    ELSE Ok([status |-> reply.status, body |-> reply.body])

(* The request send hands to the HTTP client, as that client sends it.     *)
Retarget(request, uri) == [request EXCEPT !.parts.target_uri = uri]

Outgoing(request) == Retarget(request, CANONICAL[request.parts.target_uri])

Returned(c, result) ==
  [call[c] EXCEPT !.pc = "returned", !.wire = NONE, !.reply = NONE,
                  !.result = result]

-----------------------------------------------------------------------------
(* The callers.                                                            *)

Expired(request) == request.signature_input.expires < clock

Settled(c) ==
  /\ call[c].pc = "returned"
  /\ call[c].result.ok
  /\ call[c].result.value.body \in {"done", "repeated"}

SignAnew(c) ==
  /\ \/ call[c].pc = "idle"
     \/ call[c].pc = "returned" /\ ~Settled(c) /\ Expired(call[c].request)
  /\ \E nonce \in NONCES :
       LET signed == Sign(PURPOSES[c], MyCredential, clock,
                          clock + SIGNATURE_VALIDITY_SECONDS, nonce)
       IN /\ signed.ok
          /\ call' = [call EXCEPT ![c] =
               [NoCall EXCEPT !.pc = "ready", !.request = signed.value]]
          /\ asked' = asked \cup {signed.value}
  /\ UNCHANGED <<clock, late, work, memory, log>>

MaySend(c) ==
  \/ call[c].pc = "ready"
  \/ call[c].pc = "returned" /\ ~Settled(c) /\ ~Expired(call[c].request)

(* send, up to the wait for an answer.                                     *)
CallSend(c) ==
  /\ MaySend(c)
  /\ CANONICAL[call[c].request.parts.target_uri] # NONE
  /\ call' = [call EXCEPT ![c] =
       [call[c] EXCEPT !.pc = "waiting", !.served = FALSE, !.result = NONE,
                       !.wire = Outgoing(call[c].request)]]
  /\ UNCHANGED <<clock, late, work, memory, asked, log>>

(* There is no connection, as there never is if no URL can be made of the  *)
(* target: send returns, and nothing was sent.                             *)
CannotSend(c) ==
  /\ MaySend(c)
  /\ call' = [call EXCEPT ![c] = Returned(c, Send(NoReply))]
  /\ UNCHANGED <<clock, late, work, memory, asked, log>>

(* The rest of send, with the body read to its end or not.                 *)
ReadReply(c, reply) ==
  /\ call[c].pc = "waiting"
  /\ call[c].reply # NONE
  /\ call' = [call EXCEPT ![c] = Returned(c, Send(reply))]
  /\ UNCHANGED <<clock, late, work, memory, asked, log>>

ReadWhole(c) == ReadReply(c, call[c].reply)
ReadPart(c)  == ReadReply(c, CutShort(call[c].reply))

(* The HTTP client's time is up.  The request may arrive all the same.     *)
GiveUp(c) ==
  /\ call[c].pc = "waiting"
  /\ call' = [call EXCEPT ![c] = Returned(c, Send(NoReply))]
  /\ late' = late \cup ({call[c].wire} \ {NONE})
  /\ work' = [w \in WORKERS |->
       IF work[w].caller = c THEN [work[w] EXCEPT !.caller = NONE]
                             ELSE work[w]]
  /\ UNCHANGED <<clock, memory, asked, log>>

-----------------------------------------------------------------------------
(* Between the two.                                                        *)

Answered(c, reply, served) ==
  [call[c] EXCEPT !.wire = NONE, !.reply = reply, !.served = served]

(* What may be in an answer.  Whoever answers may say any of it.           *)
Answers == {"done", "repeated", "refused", "page"}

OnItsWay(c) ==
  /\ call[c].pc = "waiting"
  /\ call[c].wire # NONE

(* 307 and 308: the HTTP client sends the request once more, elsewhere.    *)
Redirect(c) ==
  /\ ELSEWHERE # NONE
  /\ OnItsWay(c)
  /\ call' = [call EXCEPT ![c].wire = Retarget(call[c].wire, ELSEWHERE)]
  /\ UNCHANGED <<clock, late, work, memory, asked, log>>

(* 301 to 303: it asks for another page and gets that, whatever it says.   *)
RedirectToPage(c) ==
  /\ ELSEWHERE # NONE
  /\ OnItsWay(c)
  /\ \E said \in Answers :
       call' = [call EXCEPT ![c] = Answered(c, Reply(200, said), FALSE)]
  /\ UNCHANGED <<clock, late, work, memory, asked, log>>

(* A gateway answers for the service: with the request lost, or going on.  *)
GatewayFails(c) ==
  /\ OnItsWay(c)
  /\ late' \in {late, late \cup {call[c].wire}}
  /\ \E said \in Answers :
       call' = [call EXCEPT ![c] = Answered(c, Reply(503, said), FALSE)]
  /\ UNCHANGED <<clock, work, memory, asked, log>>

-----------------------------------------------------------------------------
(* The service.                                                            *)

(* A worker takes a request up and copies the time.                        *)
TakeUp(w, c) ==
  /\ work[w] = NoWork
  /\ OnItsWay(c)
  /\ work' = [work EXCEPT ![w] =
       [request |-> call[c].wire, now |-> clock, caller |-> c]]
  /\ call' = [call EXCEPT ![c].wire = NONE]
  /\ UNCHANGED <<clock, late, memory, asked, log>>

TakeUpLate(w, request) ==
  /\ work[w] = NoWork
  /\ request \in late
  /\ work' = [work EXCEPT ![w] =
       [request |-> request, now |-> clock, caller |-> NONE]]
  /\ late' = late \ {request}
  /\ UNCHANGED <<clock, call, memory, asked, log>>

Verdict(w) ==
  VerifyIncoming(work[w].request, MyCredential.public_key, work[w].now)

(* The worker is done, and its answer goes to the caller that waits.       *)
Answer(w, reply) ==
  /\ work' = [work EXCEPT ![w] = NoWork]
  /\ call' = [c \in CALLERS |->
       IF c = work[w].caller THEN Answered(c, reply, TRUE) ELSE call[c]]
  /\ UNCHANGED <<clock, late, asked>>

Act(w) ==
  /\ work[w] # NoWork
  /\ Verdict(w).ok
  /\ Verdict(w).value \notin memory
  /\ memory' = memory \cup {Verdict(w).value}
  /\ log' = Append(log, work[w].request)
  /\ Answer(w, Reply(200, "done"))

Repeated(w) ==
  /\ work[w] # NoWork
  /\ Verdict(w).ok
  /\ Verdict(w).value \in memory
  /\ Answer(w, Reply(409, "repeated"))
  /\ UNCHANGED <<memory, log>>

Refuse(w) ==
  /\ work[w] # NoWork
  /\ ~Verdict(w).ok
  /\ Answer(w, Reply(401, "refused"))
  /\ UNCHANGED <<memory, log>>

(* What cannot verify any more, at this time or at one a worker copied, is *)
(* forgotten.                                                              *)
Past(verified, now) ==
  SaturatingAdd(verified.expires, CLOCK_SKEW_SECONDS) < now

Forget(verified) ==
  /\ verified \in memory
  /\ Past(verified, clock)
  /\ \A w \in WORKERS : work[w] # NoWork => Past(verified, work[w].now)
  /\ memory' = memory \ {verified}
  /\ UNCHANGED <<clock, call, late, work, asked, log>>

-----------------------------------------------------------------------------
Caller(c) ==
  \/ SignAnew(c)
  \/ CallSend(c)
  \/ CannotSend(c)
  \/ ReadWhole(c)
  \/ ReadPart(c)
  \/ GiveUp(c)
  \/ Redirect(c)
  \/ RedirectToPage(c)
  \/ GatewayFails(c)

Worker(w) ==
  \/ \E c \in CALLERS : TakeUp(w, c)
  \/ \E request \in late : TakeUpLate(w, request)
  \/ Act(w)
  \/ Repeated(w)
  \/ Refuse(w)

Next ==
  \/ Tick
  \/ \E c \in CALLERS : Caller(c)
  \/ \E w \in WORKERS : Worker(w)
  \/ \E verified \in memory : Forget(verified)

Spec == Init /\ [][Next]_vars
-----------------------------------------------------------------------------
(* Types.  Whatever is under way or in work is a request somebody signed,  *)
(* but for its target; what the service acted on is what somebody signed.  *)

Wires ==
  {Retarget(request, uri) : request \in asked, uri \in TargetUris}

(* No answer is unreadable.                                                *)
ASSUME AnswersAssumption == GARBLED \notin Answers

Replies == {Reply(s, b) : s \in {200, 401, 409, 503}, b \in Answers}

Results ==
  {Ok([status |-> s, body |-> b]) : s \in {200, 401, 409, 503}, b \in Answers}
    \cup {Err(Transport)}

Calls ==
  [pc : {"idle", "ready", "waiting", "returned"},
   request : asked \cup {NONE}, wire : Wires \cup {NONE},
   reply : Replies \cup {NONE}, served : BOOLEAN,
   result : Results \cup {NONE}]

TypeOK ==
  /\ clock \in 0 .. MAX_CLOCK
  /\ call \in [CALLERS -> Calls]
  /\ late \subseteq Wires
  /\ work \in [WORKERS -> [request : Wires \cup {NONE}, now : 0 .. clock,
                          caller : CALLERS \cup {NONE}]]
  /\ log \in Seq(asked)

-----------------------------------------------------------------------------
(* Safety.                                                                 *)

(* No two callers use the same request ID, which is theirs to choose.      *)
OwnRequestIds ==
  \A c, d \in CALLERS :
    PURPOSES[c].request_id = PURPOSES[d].request_id => c = d

(* Whom the service itself tells that it acted on a request, now or        *)
(* before, is told of that very request, body and nonce included, and not  *)
(* of another with the same VerifiedRequest; although the service has only *)
(* that to go by, and although calls are repeated, signed anew, redirected *)
(* and arrive late.  It takes request IDs that are the callers' own, and   *)
(* callers that, as these do, sign again only when the time of what they   *)
(* signed before is over.                                                  *)
AnswerIsTrue ==
  OwnRequestIds =>
    \A c \in CALLERS :
      Settled(c) /\ call[c].served =>
        \E i \in DOMAIN log : log[i] = call[c].request

-----------------------------------------------------------------------------
(* Refinement: the service acts on what was asked for, and once on each,   *)
(* although it forgets and although a worker may hold on to an old time.   *)
Service == INSTANCE AtMostOnce

ServiceSpec == Service!Spec

-----------------------------------------------------------------------------
(* Liveness.  Callers go on, and the HTTP client's timeout ends each wait. *)
(* Of the environment it is assumed that of calls made again and again now *)
(* and then one finds a connection, arrives where it was sent (at a worker *)
(* that is free, though old copies of it may keep workers busy at other    *)
(* times), is answered while its caller waits, and that the answer is read *)
(* to its end.                                                             *)
Serve(w) == Act(w) \/ Repeated(w)

ServeWaiting(c) == \E w \in WORKERS : work[w].caller = c /\ Serve(w)

ReadAnswer(c) ==
  /\ call[c].reply # NONE => call[c].reply.body \in {"done", "repeated"}
  /\ ReadWhole(c)

ArriveAt(w, c) ==
  /\ OnItsWay(c)
  /\ call[c].wire = Outgoing(call[c].request)
  /\ TakeUp(w, c)

NowAndThenOneArrives(c) ==
  []<>OnItsWay(c) => []<><<\E w \in WORKERS : ArriveAt(w, c)>>_vars

Fairness ==
  \A c \in CALLERS :
    /\ WF_vars(SignAnew(c))
    /\ SF_vars(CallSend(c))
    /\ WF_vars(GiveUp(c))
    /\ NowAndThenOneArrives(c)
    /\ SF_vars(ServeWaiting(c))
    /\ SF_vars(ReadAnswer(c))

FairSpec == Spec /\ Fairness

(* A caller whose target the HTTP client leaves as it is ends with the     *)
(* answer that its request was acted on, if it sends again whatever left   *)
(* it in doubt and signs anew what has expired.                            *)
EveryCallSettles ==
  \A c \in CALLERS :
    CANONICAL[PURPOSES[c].target_uri] = PURPOSES[c].target_uri
      => <>Settled(c)
=============================================================================
